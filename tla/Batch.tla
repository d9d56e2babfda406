-------------------------------- MODULE Batch --------------------------------
(***************************************************************************)
(* The object API of one endpoint: BatchHandler with processBatch's        *)
(* bounded concurrent lookups (lfs/handler.go, lfs/batch.go),              *)
(* VerifyHandler and DownloadHandler, while other clients store objects.   *)
(*                                                                         *)
(* Storage is what LocalStore and S3Put establish: a set of whole objects  *)
(* that only grows.  A lookup reads it once, and may fail.  Credentials    *)
(* are decided by the authenticator (GitHubAuth): any outcome is possible. *)
(***************************************************************************)
EXTENDS Integers, Sequences

CONSTANTS
    Requests,       \* request goroutines
    Oids,           \* valid object IDs
    BadOid,         \* an object ID that IsValidOID rejects
    LengthOf,       \* LengthOf[o]: the length of the data that hashes to o
    Inputs,         \* the requests clients make
    MaxObjects,     \* maxObjectsPerBatch
    Concurrency,    \* batchConcurrency
    MaxUploadSize,  \* max_upload_size
    Presigned,      \* the backend presigns URLs (S3)
    MaxPresigned,   \* largest size that S3 accepts in one PUT
    MaxUint64,      \* the largest uint64; also the space S3 reports
    Spaces,         \* what AvailableSpace may return
    None,           \* nothing
    MaxRequests     \* bound: requests made

Object == [oid : Oids \cup {BadOid}, size : Int]

Operations == {"upload", "download", "verify", "get"}

Input == [op : Operations, objects : Seq(Object), sha256 : BOOLEAN]

ASSUME InputsAssumption == \A in \in Inputs : /\ in \in Input
                                              /\ in.op \in {"verify", "get"} => Len(in.objects) = 1

\* IsValidOID tells valid object IDs from others.
ASSUME OidsAssumption == BadOid \notin Oids

ASSUME LengthsAssumption == LengthOf \in [Oids -> Nat]

ASSUME BoundsAssumption ==
    /\ MaxUint64 \in Nat /\ MaxObjects \in Nat /\ Concurrency \in Nat \ {0} /\ MaxRequests \in Nat
    /\ MaxUploadSize \in 1 .. MaxUint64 /\ MaxPresigned \in Nat
    /\ Presigned \in BOOLEAN
    /\ Spaces \subseteq 0 .. MaxUint64

VARIABLES
    stored,    \* objects in storage
    pc,        \* pc[r]: next step of request r
    input,     \* input[r]: the request
    gone,      \* gone[r]: its client went away
    slots,     \* slots[r]: slots taken
    started,   \* started[r]: lookups started
    running,   \* running[r]: indexes of the lookups that are running
    objects,   \* objects[r]: the responses, None where there is none yet
    reply,     \* reply[r]: the response's status, None until there is one
    before,    \* before[r]: what was in storage when the request began
    space,     \* space[r]: the space hasSpaceFor was told of, None if unknown
    made

work == <<slots, started, running, objects>>
vars == <<stored, pc, input, gone, work, reply, before, space, made>>

Kinds == {"stored", "upload", "download", "missing", "mismatch", "toolarge",
          "invalid", "error", "hashalgo"}

Response == [oid : Oids \cup {BadOid}, size : Nat, kind : Kinds]

ASSUME NoneAssumption == None \notin Response

\* "insufficient" is 507, "rejected" stands for the statuses of malformed,
\* unauthenticated and unauthorized requests.
Statuses == {"ok", "rejected", "toomany", "insufficient", "notfound", "mismatch",
             "invalid", "error"}

Init ==
    /\ stored = {}
    /\ pc = [r \in Requests |-> "idle"]
    /\ input = [r \in Requests |-> None]
    /\ gone = [r \in Requests |-> FALSE]
    /\ slots = [r \in Requests |-> 0]
    /\ started = [r \in Requests |-> 0]
    /\ running = [r \in Requests |-> {}]
    /\ objects = [r \in Requests |-> <<>>]
    /\ reply = [r \in Requests |-> None]
    /\ before = [r \in Requests |-> {}]
    /\ space = [r \in Requests |-> None]
    /\ made = 0

-----------------------------------------------------------------------------

Arrive(r) ==
    /\ pc[r] = "idle"
    /\ made < MaxRequests
    /\ made' = made + 1
    /\ \E in \in Inputs :
          /\ input' = [input EXCEPT ![r] = in]
          /\ pc' = [pc EXCEPT ![r] = IF in.op \in {"verify", "get"} THEN in.op ELSE "admit"]
    /\ before' = [before EXCEPT ![r] = stored]
    /\ gone' = [gone EXCEPT ![r] = FALSE]
    /\ reply' = [reply EXCEPT ![r] = None]
    /\ objects' = [objects EXCEPT ![r] = <<>>]
    /\ space' = [space EXCEPT ![r] = None]
    /\ UNCHANGED <<stored, slots, started, running>>

Reply(r, status) ==
    /\ reply' = [reply EXCEPT ![r] = status]
    /\ pc' = [pc EXCEPT ![r] = "done"]

\* The early returns of BatchHandler up to the authorization.
Reject(r) ==
    /\ pc[r] = "admit"
    /\ \/ Reply(r, "rejected")
       \/ Len(input[r].objects) > MaxObjects /\ Reply(r, "toomany")
    /\ UNCHANGED <<stored, input, gone, work, before, space, made>>

Refusal(o, kind) ==
    [oid |-> o.oid, size |-> IF o.size < 0 THEN 0 ELSE o.size, kind |-> kind]

unsupportedHashAlgo(r) ==
    /\ pc[r] = "admit"
    /\ Len(input[r].objects) <= MaxObjects
    /\ ~input[r].sha256
    /\ objects' = [objects EXCEPT ![r] =
                     [i \in DOMAIN input[r].objects |->
                        Refusal(input[r].objects[i], "hashalgo")]]
    /\ Reply(r, "ok")
    /\ UNCHANGED <<stored, input, gone, slots, started, running, before, space, made>>

Admit(r) ==
    /\ pc[r] = "admit"
    /\ Len(input[r].objects) <= MaxObjects
    /\ input[r].sha256
    /\ pc' = [pc EXCEPT ![r] = "loop"]
    /\ objects' = [objects EXCEPT ![r] = [i \in DOMAIN input[r].objects |-> None]]
    /\ slots' = [slots EXCEPT ![r] = 0]
    /\ started' = [started EXCEPT ![r] = 0]
    /\ UNCHANGED <<stored, input, gone, running, reply, before, space, made>>

\* The client goes away; the request's context is cancelled.
Leave(r) ==
    /\ pc[r] \notin {"idle", "done"}
    /\ ~gone[r]
    /\ gone' = [gone EXCEPT ![r] = TRUE]
    /\ UNCHANGED <<stored, pc, input, work, reply, before, space, made>>

\* Another client's upload of o: UploadHandler, with the hash checked.
Store(o) ==
    /\ o \notin stored
    /\ stored' = stored \cup {o}
    /\ UNCHANGED <<pc, input, gone, work, reply, before, space, made>>

-----------------------------------------------------------------------------
(* processBatch                                                              *)

\* A slot is taken before the context is looked at.
StartLookup(r) ==
    /\ pc[r] = "loop"
    /\ started[r] < Len(input[r].objects)
    /\ slots[r] < Concurrency
    /\ slots' = [slots EXCEPT ![r] = slots[r] + 1]
    /\ \/ /\ gone[r]
          /\ pc' = [pc EXCEPT ![r] = "wait"]
          /\ UNCHANGED <<started, running>>
       \/ /\ ~gone[r]
          /\ started' = [started EXCEPT ![r] = started[r] + 1]
          /\ running' = [running EXCEPT ![r] = running[r] \cup {started[r] + 1}]
          /\ pc' = pc
    /\ UNCHANGED <<stored, input, gone, objects, reply, before, space, made>>

LoopEnds(r) ==
    /\ pc[r] = "loop"
    /\ started[r] = Len(input[r].objects)
    /\ pc' = [pc EXCEPT ![r] = "wait"]
    /\ UNCHANGED <<stored, input, gone, work, reply, before, space, made>>

validateObject(o) == o.oid # BadOid /\ o.size >= 0

processDownload(o) ==
    IF o.oid \notin stored THEN "missing"
    ELSE IF LengthOf[o.oid] # o.size THEN "mismatch" ELSE "download"

\* Mutant: an object that exists counts as stored whatever its size.
processUploadAnySize(o) ==
    CASE o.size > MaxUploadSize -> "toolarge"
      [] o.size <= MaxUploadSize /\ o.oid \in stored -> "stored"
      [] OTHER -> IF Presigned /\ o.size > MaxPresigned THEN "toolarge" ELSE "upload"

processUpload(o) ==
    CASE o.size > MaxUploadSize -> "toolarge"
      [] o.size <= MaxUploadSize /\ o.oid \in stored ->
            IF LengthOf[o.oid] = o.size THEN "stored" ELSE "mismatch"
      [] OTHER -> IF Presigned /\ o.size > MaxPresigned THEN "toolarge" ELSE "upload"

\* What processObject may answer for o; a failing lookup or presigning is an
\* internal error, and too large an object is refused without a lookup.
processObject(op, o) ==
    IF ~validateObject(o) THEN {"invalid"}
    ELSE IF op = "download" THEN {processDownload(o), "error"}
    ELSE IF o.size > MaxUploadSize THEN {processUpload(o)}
    ELSE {processUpload(o), "error"}

\* Mutant: the slot is given back only by lookups that succeed.
LookupKeepsSlot(r, i) ==
    /\ i \in running[r]
    /\ \E kind \in processObject(input[r].op, input[r].objects[i]) :
          /\ objects' = [objects EXCEPT ![r][i] = Refusal(input[r].objects[i], kind)]
          /\ slots' = [slots EXCEPT ![r] = IF kind = "error" THEN slots[r] ELSE slots[r] - 1]
    /\ running' = [running EXCEPT ![r] = running[r] \ {i}]
    /\ UNCHANGED <<stored, pc, input, gone, started, reply, before, space, made>>

\* Mutant: the answers are kept in the order in which the lookups end.
LookupAppends(r, i) ==
    /\ i \in running[r]
    /\ \E kind \in processObject(input[r].op, input[r].objects[i]),
          j \in {j \in DOMAIN objects[r] : objects[r][j] = None /\
                                            \A k \in 1 .. j - 1 : objects[r][k] # None} :
          objects' = [objects EXCEPT ![r][j] = Refusal(input[r].objects[i], kind)]
    /\ running' = [running EXCEPT ![r] = running[r] \ {i}]
    /\ slots' = [slots EXCEPT ![r] = slots[r] - 1]
    /\ UNCHANGED <<stored, pc, input, gone, started, reply, before, space, made>>

Lookup(r, i) ==
    /\ i \in running[r]
    /\ \E kind \in processObject(input[r].op, input[r].objects[i]) :
          objects' = [objects EXCEPT ![r][i] = Refusal(input[r].objects[i], kind)]
    /\ running' = [running EXCEPT ![r] = running[r] \ {i}]
    /\ slots' = [slots EXCEPT ![r] = slots[r] - 1]
    /\ UNCHANGED <<stored, pc, input, gone, started, reply, before, space, made>>

Prefix(r) == SubSeq(objects[r], 1, started[r])

\* wg.Wait returns; the responses are those of the lookups started.
Wait(r) ==
    /\ pc[r] = "wait"
    /\ running[r] = {}
    /\ objects' = [objects EXCEPT ![r] = Prefix(r)]
    /\ \/ input[r].op = "upload" /\ pc' = [pc EXCEPT ![r] = "space"] /\ reply' = reply
       \/ input[r].op = "download" /\ Reply(r, "ok")
    /\ UNCHANGED <<stored, input, gone, slots, started, running, before, space, made>>

-----------------------------------------------------------------------------
(* hasSpaceFor                                                               *)

\* Mutant: the sum wraps around.
neededWrapping(resps) ==
    LET sum[i \in 0 .. Len(resps)] ==
          IF i = 0 THEN 0
          ELSE (sum[i - 1] + IF resps[i].kind = "upload" THEN resps[i].size ELSE 0)
               % (MaxUint64 + 1)
    IN  sum[Len(resps)]

min(x, y) == IF x < y THEN x ELSE y

\* The sum of the sizes with an upload action saturates at the largest uint64.
addNeeded(sum, resp) ==
    IF resp.kind = "upload" THEN sum + min(resp.size, MaxUint64 - sum) ELSE sum

needed(resps) ==
    LET sum[i \in 0 .. Len(resps)] ==
          IF i = 0 THEN 0 ELSE addNeeded(sum[i - 1], resps[i])
    IN  sum[Len(resps)]

\* Space is not asked for when there is nothing to upload, and taken to be
\* enough when it cannot be told.
hasSpaceFor(r) ==
    /\ pc[r] = "space"
    /\ \/ /\ needed(objects[r]) = 0
          /\ Reply(r, "ok")
          /\ space' = space
       \/ /\ needed(objects[r]) # 0
          /\ \/ Reply(r, "ok") /\ space' = space
             \/ \E avail \in Spaces :
                   /\ space' = [space EXCEPT ![r] = avail]
                   /\ Reply(r, IF needed(objects[r]) <= avail
                               THEN "ok" ELSE "insufficient")
    /\ UNCHANGED <<stored, input, gone, work, before, made>>

-----------------------------------------------------------------------------

\* VerifyHandler, with a valid signature or without one.
Verify(r) ==
    /\ pc[r] = "verify"
    /\ LET o == input[r].objects[1] IN
       \/ Reply(r, "rejected")
       \/ o.oid = BadOid /\ Reply(r, "invalid")
       \/ /\ o.oid # BadOid
          /\ \/ Reply(r, "error")
             \/ o.oid \notin stored /\ Reply(r, "notfound")
             \/ o.oid \in stored /\ LengthOf[o.oid] # o.size /\ Reply(r, "mismatch")
             \/ o.oid \in stored /\ LengthOf[o.oid] = o.size /\ Reply(r, "ok")
    /\ UNCHANGED <<stored, input, gone, work, before, space, made>>

\* DownloadHandler.
Get(r) ==
    /\ pc[r] = "get"
    /\ LET o == input[r].objects[1] IN
       \/ Reply(r, "rejected")
       \/ o.oid = BadOid /\ Reply(r, "notfound")
       \/ /\ o.oid # BadOid
          /\ \/ Reply(r, "error")
             \/ o.oid \notin stored /\ Reply(r, "notfound")
             \/ o.oid \in stored /\ Reply(r, "ok")
    /\ UNCHANGED <<stored, input, gone, work, before, space, made>>

Finish(r) ==
    /\ pc[r] = "done"
    /\ pc' = [pc EXCEPT ![r] = "idle"]
    /\ input' = [input EXCEPT ![r] = None]
    /\ gone' = [gone EXCEPT ![r] = FALSE]
    /\ slots' = [slots EXCEPT ![r] = 0]
    /\ started' = [started EXCEPT ![r] = 0]
    /\ objects' = [objects EXCEPT ![r] = <<>>]
    /\ reply' = [reply EXCEPT ![r] = None]
    /\ before' = [before EXCEPT ![r] = {}]
    /\ space' = [space EXCEPT ![r] = None]
    /\ UNCHANGED <<stored, running, made>>

Step(r) ==
    \/ Reject(r) \/ unsupportedHashAlgo(r) \/ Admit(r)
    \/ StartLookup(r) \/ LoopEnds(r) \/ Wait(r) \/ hasSpaceFor(r)
    \/ Verify(r) \/ Get(r) \/ Finish(r)
    \/ \E i \in running[r] : Lookup(r, i)

Next ==
    \/ \E r \in Requests : Arrive(r) \/ Leave(r) \/ Step(r)
    \/ \E o \in Oids : Store(o)

Spec == Init /\ [][Next]_vars

\* Goroutines are scheduled; storage answers every lookup.
FairSpec ==
    /\ Spec
    /\ \A r \in Requests :
          /\ WF_vars(StartLookup(r) \/ LoopEnds(r) \/ Wait(r) \/ hasSpaceFor(r))
          /\ WF_vars(\E i \in running[r] : Lookup(r, i))

-----------------------------------------------------------------------------

\* A batch that was answered with its objects.
IsBatch(r) == pc[r] = "done" /\ reply[r] = "ok" /\ input[r].op \in {"upload", "download"}

(* A batch response answers the objects asked for in their order, none of    *)
(* them left blank, and all of them unless the client went away meanwhile    *)
(* (processBatch: the lookups fill a shared slice concurrently).             *)
RepliesComplete ==
    \A r \in Requests : IsBatch(r) =>
        /\ ~gone[r] => Len(objects[r]) = Len(input[r].objects)
        /\ \A i \in DOMAIN objects[r] :
              objects[r][i] # None /\ objects[r][i].oid = input[r].objects[i].oid

(* What a batch, verify or download response says of an object was so at     *)
(* some time during the request: what it calls stored is stored, with the    *)
(* size asked about, and what it asks the client to upload, or does not      *)
(* find, was not there when the request began.                               *)
AnswersTrue ==
    \A r \in Requests : pc[r] = "done" =>
        /\ IsBatch(r) => \A i \in DOMAIN objects[r] :
              LET o == input[r].objects[i]
                  kind == objects[r][i].kind
              IN  /\ kind \in {"stored", "download"} =>
                        o.oid \in stored /\ LengthOf[o.oid] = o.size
                  /\ kind = "mismatch" => o.oid \in stored /\ LengthOf[o.oid] # o.size
                  /\ kind \in {"upload", "missing"} => o.oid \notin before[r]
        /\ input[r].op \in {"verify", "get"} =>
              LET o == input[r].objects[1]
              IN  /\ reply[r] = "ok" => o.oid \in stored
                  /\ reply[r] = "ok" /\ input[r].op = "verify" => LengthOf[o.oid] = o.size
                  /\ reply[r] = "notfound" => o.oid \notin before[r]

\* The bytes that the uploads of a response add up to, without any limit.
TotalSize(resps) ==
    LET sum[i \in 0 .. Len(resps)] ==
          IF i = 0 THEN 0
          ELSE sum[i - 1] + IF resps[i].kind = "upload" THEN resps[i].size ELSE 0
    IN  sum[Len(resps)]

(* A response that grants uploads when the free space is known grants no     *)
(* more bytes than that, however large the sizes that clients declare are;   *)
(* the largest uint64 stands for unlimited space (hasSpaceFor).              *)
GrantsFit ==
    \A r \in Requests :
        IsBatch(r) /\ space[r] # None /\ space[r] # MaxUint64
        => TotalSize(objects[r]) <= space[r]

(* Every batch is answered: however its lookups end, and whether or not its  *)
(* client stays, they give their slots back.                                 *)
EveryBatchEnds == \A r \in Requests : pc[r] = "loop" ~> pc[r] = "done"
=============================================================================
