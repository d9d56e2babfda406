-------------------------------- MODULE S3Put --------------------------------
(***************************************************************************)
(* S3.Put (storage/s3.go): concurrent uploads of one object, as a single   *)
(* PUT or in parts, of declared or unknown size.                           *)
(*                                                                         *)
(* S3 is external: a request to it succeeds, fails, or succeeds with its   *)
(* answer lost.  Parts are kept under their upload until it is completed   *)
(* or aborted.  Data is a sequence of bytes; the object's ID is the digest *)
(* of content, so that data matches the ID when it is content.             *)
(***************************************************************************)
EXTENDS S3PartSize, Sequences

CONSTANTS
    Uploads,         \* upload goroutines
    Bodies,          \* what clients send
    Contents,        \* what may hash to the object's ID
    MaxUploadSize,   \* max_upload_size: the reader fails beyond it
    None,            \* nothing
    MaxOps,          \* bound: uploads begun
    MaxCrashes       \* bound: server crashes

Byte == 0 .. 255

ASSUME BodiesAssumption ==
    /\ Contents \subseteq Bodies
    /\ \A b \in Bodies : b \in Seq(Byte)
    /\ None \notin Seq(Byte) /\ None \notin {"stored", "toomany", "toolarge"}

ASSUME BoundsAssumption ==
    MaxUploadSize \in Nat \ {0} /\ MaxOps \in Nat /\ MaxCrashes \in Nat

VARIABLES
    pc,        \* pc[u]: next step of upload u
    body,      \* body[u]: the request's body, or None
    left,      \* left[u]: bytes still expected, -1 when that is unknown
    pos,       \* pos[u]: bytes read, and hashed, so far
    buf,       \* buf[u]: bytes read and not yet sent
    bufLen,    \* bufLen[u]: room in the buffer
    parts,     \* parts[u]: parts S3 holds for u's multipart upload, or None
    res,       \* res[u]: how Put ends, or None
    content,   \* what hashes to the object's ID
    object,    \* the object in the bucket, or None
    acked,     \* some Put has returned without error
    lost,      \* lost[u]: S3 failed to abort, or its answer to create got lost
    ops, crashes

jobVars == <<body, left, pos, buf, bufLen, parts>>
vars == <<pc, jobVars, res, content, object, acked, lost, ops, crashes>>

Init ==
    /\ pc = [u \in Uploads |-> "idle"]
    /\ body = [u \in Uploads |-> None]
    /\ left = [u \in Uploads |-> 0]
    /\ pos = [u \in Uploads |-> 0]
    /\ buf = [u \in Uploads |-> <<>>]
    /\ bufLen = [u \in Uploads |-> 0]
    /\ parts = [u \in Uploads |-> None]
    /\ res = [u \in Uploads |-> None]
    /\ content \in Contents
    /\ object = None
    /\ acked = FALSE
    /\ lost = [u \in Uploads |-> FALSE]
    /\ ops = 0
    /\ crashes = 0

Goto(u, from, to) ==
    /\ pc[u] = from
    /\ pc' = [pc EXCEPT ![u] = to]

Result(u, r) == res' = [res EXCEPT ![u] = r]

streamPartSize == maxOf(partSizeFor(MaxUploadSize), PartSize)

\* Parts joined in the order of their numbers.
Joined(p) ==
    LET join[i \in 0 .. Len(p)] == IF i = 0 THEN <<>> ELSE join[i - 1] \o p[i]
    IN  join[Len(p)]

\* verifyOID of everything read.
Verified(u) == SubSeq(body[u], 1, pos[u]) = content

\* The next n bytes are read into the empty buffer.
Read(u, n) ==
    /\ buf' = [buf EXCEPT ![u] = SubSeq(body[u], pos[u] + 1, pos[u] + n)]
    /\ pos' = [pos EXCEPT ![u] = @ + n]

-----------------------------------------------------------------------------
(* Put: which way to upload. *)

\* A request of known length, or not; UploadHandler refuses one that is longer
\* than max_upload_size, Put one that S3 could not take.
Begin(u) ==
    /\ pc[u] = "idle"
    /\ ops < MaxOps
    /\ ops' = ops + 1
    /\ \E b \in Bodies :
          /\ body' = [body EXCEPT ![u] = b]
          /\ \/ /\ Len(b) <= MaxUploadSize
                /\ left' = [left EXCEPT ![u] = Len(b)]
                /\ IF Len(b) > SizeLimit
                   THEN pc' = [pc EXCEPT ![u] = "return"] /\ Result(u, "toolarge")
                   ELSE /\ pc' = [pc EXCEPT ![u] =
                                     IF Len(b) > partSizeFor(Len(b)) THEN "create" ELSE "single"]
                        /\ res' = res
                /\ bufLen' = [bufLen EXCEPT ![u] = partSizeFor(Len(b))]
             \/ /\ left' = [left EXCEPT ![u] = -1]
                /\ pc' = [pc EXCEPT ![u] = "first"]
                /\ bufLen' = [bufLen EXCEPT ![u] = streamPartSize]
                /\ res' = res
    /\ UNCHANGED <<content, pos, buf, parts, object, acked, lost, crashes>>

\* io.ReadFull of an object that fits in one part.
ReadSingle(u) ==
    /\ Goto(u, "single", "put")
    /\ Read(u, left[u])
    /\ UNCHANGED <<content, body, left, bufLen, parts, res, object, acked, lost, ops, crashes>>

\* putUnknownSize: the first part ends the body, or there may be more.  A body
\* that fills it exactly may show its end with the last byte or later.
ReadFirst(u) ==
    /\ pc[u] = "first"
    /\ LET n == minOf(Len(body[u]), bufLen[u])
       IN  /\ n <= MaxUploadSize
           /\ \/ Len(body[u]) <= bufLen[u] /\ Goto(u, "first", "put")
              \/ Len(body[u]) >= bufLen[u] /\ Goto(u, "first", "create")
           /\ Read(u, n)
    /\ UNCHANGED <<content, body, left, bufLen, parts, res, object, acked, lost, ops, crashes>>

\* The client leaves or stalls, or the body exceeds max_upload_size.
ReadFails(u) ==
    /\ \/ Goto(u, "single", "return") \/ Goto(u, "first", "return")
       \/ Goto(u, "part", "abort") /\ left[u] # 0 /\ buf[u] = <<>>
    /\ Result(u, "failed")
    /\ UNCHANGED <<content, jobVars, object, acked, lost, ops, crashes>>

-----------------------------------------------------------------------------
(* putObject. *)

\* Mutant: the data is sent without comparing its digest.
PutUnverified(u) ==
    /\ Goto(u, "put", "return")
    /\ object' = buf[u]
    /\ Result(u, "stored")
    /\ UNCHANGED <<content, jobVars, acked, lost, ops, crashes>>

PutObject(u) ==
    /\ Goto(u, "put", "return")
    /\ Verified(u)
    /\ \/ object' = buf[u] /\ Result(u, "stored")
       \/ object' = buf[u] /\ Result(u, "failed")     \* answer lost
       \/ object' = object /\ Result(u, "failed")
    /\ UNCHANGED <<content, jobVars, acked, lost, ops, crashes>>

PutMismatch(u) ==
    /\ Goto(u, "put", "return")
    /\ ~Verified(u)
    /\ Result(u, "mismatch")
    /\ UNCHANGED <<content, jobVars, object, acked, lost, ops, crashes>>

-----------------------------------------------------------------------------
(* putMultipart. *)

CreateMultipartUpload(u) ==
    /\ Goto(u, "create", "part")
    /\ parts' = [parts EXCEPT ![u] = <<>>]
    /\ UNCHANGED <<content, body, left, pos, buf, bufLen, res, object, acked, lost, ops, crashes>>

\* It fails; when only the answer is lost there is no upload ID to abort.
CreateFails(u) ==
    /\ Goto(u, "create", "return")
    /\ Result(u, "failed")
    /\ \/ parts' = parts /\ lost' = lost
       \/ parts' = [parts EXCEPT ![u] = <<>>] /\ lost' = [lost EXCEPT ![u] = TRUE]
    /\ UNCHANGED <<content, body, left, pos, buf, bufLen, object, acked, ops, crashes>>

\* What one turn of the loop reads: at most a buffer, of what is left of a body
\* of known size or of whatever comes.
NextRead(u) ==
    minOf(bufLen[u], IF left[u] > 0 THEN left[u] ELSE Len(body[u]) - pos[u])

\* The top of the loop: the buffered first part is used up, or the next is
\* read; the end of a body of unknown size sets left to 0.
ReadPart(u) ==
    /\ pc[u] = "part"
    /\ left[u] # 0
    /\ IF buf[u] # <<>>
       THEN /\ Goto(u, "part", "send")
            /\ UNCHANGED <<left, pos, buf>>
       ELSE LET n == NextRead(u)
            IN  /\ pos[u] + n <= MaxUploadSize
                /\ Read(u, n)
                /\ \/ left[u] > 0 /\ left' = left
                   \/ left[u] < 0 /\ n = bufLen[u] /\ left' = left
                   \/ left[u] < 0 /\ pos[u] + n = Len(body[u]) /\ left' = [left EXCEPT ![u] = 0]
                /\ Goto(u, "part", IF n = 0 THEN "verify" ELSE "send")
    /\ UNCHANGED <<content, body, bufLen, parts, res, object, acked, lost, ops, crashes>>

\* size != 0 no longer holds.
LoopEnds(u) ==
    /\ Goto(u, "part", "verify")
    /\ left[u] = 0
    /\ UNCHANGED <<content, jobVars, res, object, acked, lost, ops, crashes>>

\* Mutant: the check of the part number is missing.
UploadAnyPart(u) ==
    /\ Goto(u, "send", "part")
    /\ parts' = [parts EXCEPT ![u] = Append(@, buf[u])]
    /\ left' = [left EXCEPT ![u] = IF @ > 0 THEN @ - Len(buf[u]) ELSE @]
    /\ buf' = [buf EXCEPT ![u] = <<>>]
    /\ UNCHANGED <<content, body, pos, bufLen, res, object, acked, lost, ops, crashes>>

\* The part is numbered, sent and, when the size is known, subtracted from it.
UploadPart(u) ==
    /\ Goto(u, "send", "part")
    /\ Len(parts[u]) + 1 <= MaxParts
    /\ parts' = [parts EXCEPT ![u] = Append(@, buf[u])]
    /\ left' = [left EXCEPT ![u] = IF @ > 0 THEN @ - Len(buf[u]) ELSE @]
    /\ buf' = [buf EXCEPT ![u] = <<>>]
    /\ UNCHANGED <<content, body, pos, bufLen, res, object, acked, lost, ops, crashes>>

\* Mutant: the error returns before the upload is aborted.
UploadPartFailsOpen(u) ==
    /\ Goto(u, "send", "return")
    /\ Result(u, IF Len(parts[u]) + 1 > MaxParts THEN "toomany" ELSE "failed")
    /\ UNCHANGED <<content, jobVars, object, acked, lost, ops, crashes>>

\* There are too many parts, or S3 does not take this one.
UploadPartFails(u) ==
    /\ Goto(u, "send", "abort")
    /\ Result(u, IF Len(parts[u]) + 1 > MaxParts THEN "toomany" ELSE "failed")
    /\ UNCHANGED <<content, jobVars, object, acked, lost, ops, crashes>>

VerifyMismatch(u) ==
    /\ Goto(u, "verify", "abort")
    /\ ~Verified(u)
    /\ Result(u, "mismatch")
    /\ UNCHANGED <<content, jobVars, object, acked, lost, ops, crashes>>

CompleteMultipartUpload(u) ==
    /\ Goto(u, "verify", "return")
    /\ Verified(u)
    /\ object' = Joined(parts[u])
    /\ parts' = [parts EXCEPT ![u] = None]
    /\ Result(u, "stored")
    /\ UNCHANGED <<content, body, left, pos, buf, bufLen, acked, lost, ops, crashes>>

\* Mutant: a failed completion is taken for a completed upload.
CompleteIgnored(u) ==
    /\ Goto(u, "verify", "return")
    /\ Verified(u)
    /\ Result(u, "stored")
    /\ UNCHANGED <<content, jobVars, object, acked, lost, ops, crashes>>

CompleteFails(u) ==
    /\ Goto(u, "verify", "abort")
    /\ Verified(u)
    /\ \/ UNCHANGED <<object, parts>>
       \/ /\ object' = Joined(parts[u])               \* answer lost
          /\ parts' = [parts EXCEPT ![u] = None]
    /\ Result(u, "failed")
    /\ UNCHANGED <<content, body, left, pos, buf, bufLen, acked, lost, ops, crashes>>

\* The deferred abort, whose own error is ignored; there is nothing to abort
\* after a completion whose answer was lost.
AbortMultipartUpload(u) ==
    /\ Goto(u, "abort", "return")
    /\ \/ parts' = [parts EXCEPT ![u] = None] /\ lost' = lost
       \/ /\ parts[u] # None
          /\ lost' = [lost EXCEPT ![u] = TRUE]
          /\ parts' = parts
    /\ UNCHANGED <<content, body, left, pos, buf, bufLen, res, object, acked, ops, crashes>>

Reset(u) ==
    /\ body' = [body EXCEPT ![u] = None]
    /\ left' = [left EXCEPT ![u] = 0]
    /\ pos' = [pos EXCEPT ![u] = 0]
    /\ buf' = [buf EXCEPT ![u] = <<>>]
    /\ bufLen' = [bufLen EXCEPT ![u] = 0]
    /\ parts' = [parts EXCEPT ![u] = None]
    /\ lost' = [lost EXCEPT ![u] = FALSE]
    /\ Result(u, None)

Return(u) ==
    /\ Goto(u, "return", "idle")
    /\ acked' = (acked \/ res[u] = "stored")
    /\ Reset(u)
    /\ UNCHANGED <<content, object, ops, crashes>>

\* The server dies in the middle of an upload.
Crash(u) ==
    /\ pc[u] \notin {"idle", "return"}
    /\ crashes < MaxCrashes
    /\ crashes' = crashes + 1
    /\ pc' = [pc EXCEPT ![u] = "idle"]
    /\ Reset(u)
    /\ UNCHANGED <<content, object, acked, ops>>

Put(u) ==
    \/ ReadSingle(u) \/ ReadFirst(u) \/ ReadFails(u) \/ PutObject(u) \/ PutMismatch(u)
    \/ CreateMultipartUpload(u) \/ CreateFails(u) \/ ReadPart(u) \/ LoopEnds(u)
    \/ UploadPart(u) \/ UploadPartFails(u) \/ VerifyMismatch(u)
    \/ CompleteMultipartUpload(u) \/ CompleteFails(u) \/ AbortMultipartUpload(u)
    \/ Return(u)

Next == \E u \in Uploads : Begin(u) \/ Put(u) \/ Crash(u)

Spec == Init /\ [][Next]_vars

-----------------------------------------------------------------------------
(* Properties *)

\* The bucket holds nothing or the whole content under the object's key: no
\* body, part boundary, lost answer or crash stores anything else, although the
\* parts reach S3 before the digest is known.
ObjectWhole == object = None \/ object = content

\* A Put that returned without error has stored the object.
AckedStored == acked => object # None

\* S3 takes every part: no part is too large or numbered too high, and only the
\* last may be smaller than the usual size, wherever the body ends.
PartsAcceptable ==
    \A u \in Uploads : parts[u] # None =>
        /\ Len(parts[u]) <= MaxParts
        /\ \A i \in DOMAIN parts[u] :
              /\ parts[u][i] # <<>>
              /\ Len(parts[u][i]) <= MaxPartSize
              /\ i < Len(parts[u]) => Len(parts[u][i]) >= PartSize

\* No upload of a size that S3 can hold runs out of parts, whether or not the
\* size was declared: the part sizes that partSizeFor gives for a declared size
\* and, for want of one, for max_upload_size are large enough.
EnoughParts ==
    \A u \in Uploads :
        res[u] \in {"toomany", "toolarge"} => Len(body[u]) > SizeLimit

\* A Put that returns leaves no multipart upload behind in S3, unless S3 failed
\* the abort or never told the upload's ID.
PartsCleared ==
    \A u \in Uploads : pc[u] = "return" /\ parts[u] # None => lost[u]
=============================================================================
