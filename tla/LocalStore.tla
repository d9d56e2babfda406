----------------------------- MODULE LocalStore -----------------------------
(***************************************************************************)
(* Uploads to local storage: UploadHandler (lfs/handler.go), Local.Put     *)
(* (storage/local.go) and the sweep of temporary files                     *)
(* (storage/tempfiles.go, sweepTempFiles in main.go), for several server   *)
(* processes on one data directory.                                        *)
(*                                                                         *)
(* A Put writes a temporary file, syncs it, compares its digest with the   *)
(* object ID and renames it to the object's path.  Meanwhile each process  *)
(* sweeps temporary files that have not been modified for MaxAge, except   *)
(* those its own Puts are writing.                                         *)
(*                                                                         *)
(* Time is kept as ages: the age of a file is the time since its mtime,    *)
(* and elapsed[p] the time since p's sweep computed its cutoff.            *)
(***************************************************************************)
EXTENDS Integers, Sequences, FiniteSets

CONSTANTS
    Procs,           \* server processes
    Uploads,         \* upload goroutines
    ProcOf,          \* ProcOf[u]: the process u runs in
    Temps,           \* names os.CreateTemp may choose
    Chunks,          \* pieces of data
    MaxLen,          \* bound: pieces in a request body
    Digest(_),       \* the SHA-256 of some data, as lower-case hex
    OidTexts,        \* object IDs as clients write them, in either case
    Lower,           \* normaliseOID: Lower[oid] is oid in lower case
    None,            \* nothing
    MaxAge,          \* tempFileMaxAge
    MaxStall,        \* upload_idle_timeout, when it is not zero
    MaxElapsed,      \* bound: time one sweep takes
    MaxOps,          \* bound: uploads begun
    MaxCrashes,      \* bound: process crashes
    MaxPowerLosses   \* bound: power failures of the machine

ASSUME ProcsAssumption == ProcOf \in [Uploads -> Procs]

Data == Seq(Chunks)

Oids == {Lower[t] : t \in OidTexts}

ASSUME NamesAssumption == DOMAIN Lower = OidTexts /\ None \notin Temps \cup OidTexts

ASSUME BoundsAssumption ==
    /\ MaxAge \in Nat \ {0} /\ MaxStall \in Nat \ {0} /\ MaxElapsed \in Nat
    /\ MaxLen \in Nat /\ MaxOps \in Nat /\ MaxCrashes \in Nat /\ MaxPowerLosses \in Nat

VARIABLES
    pc,        \* pc[u]: next step of upload u
    oid,       \* oid[u]: the object ID in the request's path, or None
    got,       \* got[u]: what has been copied and hashed
    tmp,       \* tmp[u]: name of its temporary file, or None
    res,       \* res[u]: "stored" (200), "failed" (an error status) or None
    temps,     \* temps[n]: the temporary file called n, or None
    objects,   \* objects[o]: the file at o's path, or None
    durable,   \* durable[o]: what a power failure may bring back there
    writing,   \* writing[p]: Local.writing
    sweep,     \* sweep[p]: step of p's sweep
    todo,      \* todo[p]: directory entries it has still to visit
    entry,     \* entry[p]: the one it is at, or None
    elapsed,   \* elapsed[p]: time since it computed its cutoff
    acked,     \* objects some client was told are stored
    ops, crashes, losses

jobVars == <<oid, got, tmp>>
diskVars == <<temps, objects, durable>>
sweepVars == <<sweep, todo, entry, elapsed>>
countVars == <<ops, crashes, losses>>
vars == <<pc, jobVars, res, diskVars, writing, sweepVars, acked, countVars>>

\* A file of the last age is stale for any sweep, and its writer has timed out.
Ages == 0 .. IF MaxStall > MaxAge + MaxElapsed THEN MaxStall ELSE MaxAge + MaxElapsed

TempFile == [data : Data, synced : BOOLEAN, age : Ages]
ObjectFile == [data : Data, synced : BOOLEAN]

ASSUME NoFileAssumption == None \notin TempFile /\ None \notin ObjectFile

\* Put has created its temporary file and still needs it.
Live == {"track", "copy", "rename"}

Init ==
    /\ pc = [u \in Uploads |-> "idle"]
    /\ oid = [u \in Uploads |-> None]
    /\ got = [u \in Uploads |-> <<>>]
    /\ tmp = [u \in Uploads |-> None]
    /\ res = [u \in Uploads |-> None]
    /\ temps = [n \in Temps |-> None]
    /\ objects = [o \in Oids |-> None]
    /\ durable = [o \in Oids |-> None]
    /\ writing = [p \in Procs |-> {}]
    /\ sweep = [p \in Procs |-> "rest"]
    /\ todo = [p \in Procs |-> {}]
    /\ entry = [p \in Procs |-> None]
    /\ elapsed = [p \in Procs |-> 0]
    /\ acked = {}
    /\ ops = 0
    /\ crashes = 0
    /\ losses = 0

Goto(u, from, to) ==
    /\ pc[u] = from
    /\ pc' = [pc EXCEPT ![u] = to]

Answer(u, status) == res' = [res EXCEPT ![u] = status]

filePath(u) == Lower[oid[u]]

-----------------------------------------------------------------------------
(* UploadHandler up to Put, for a signed request of an acceptable length. *)

\* store.Exists: an object already there is not written again (and when the
\* check fails nothing happens) ...
AlreadyStored(u) ==
    /\ pc[u] = "idle"
    /\ \E o \in OidTexts :
          /\ objects[Lower[o]] # None
          /\ acked' = acked \cup {Lower[o]}
    /\ UNCHANGED <<pc, jobVars, res, diskVars, writing, sweepVars, countVars>>

\* ... anything else is put.
BeginPut(u) ==
    /\ Goto(u, "idle", "create")
    /\ ops < MaxOps
    /\ ops' = ops + 1
    /\ \E o \in OidTexts :
          /\ objects[Lower[o]] = None
          /\ oid' = [oid EXCEPT ![u] = o]
    /\ UNCHANGED <<got, tmp, res, diskVars, writing, sweepVars, acked, crashes, losses>>

-----------------------------------------------------------------------------
(* Local.Put. *)

\* The client has left, or MkdirAll or CreateTemp fails.
CreateFails(u) ==
    /\ Goto(u, "create", "return")
    /\ Answer(u, "failed")
    /\ UNCHANGED <<jobVars, diskVars, writing, sweepVars, acked, countVars>>

\* os.CreateTemp chooses a random name that does not exist; that one just used
\* comes up again before its last user is done with it is left out.
CreateTemp(u) ==
    /\ Goto(u, "create", "track")
    /\ \E n \in Temps :
          /\ temps[n] = None
          /\ \A v \in Uploads : tmp[v] # n
          /\ \A p \in Procs : entry[p] # n /\ n \notin todo[p]
          /\ tmp' = [tmp EXCEPT ![u] = n]
          /\ temps' = [temps EXCEPT ![n] = [data |-> <<>>, synced |-> FALSE, age |-> 0]]
    /\ UNCHANGED <<oid, got, res, objects, durable, writing, sweepVars, acked, countVars>>

\* Put marks the file as being written.
trackWriting(u) ==
    /\ Goto(u, "track", "copy")
    /\ writing' = [writing EXCEPT ![ProcOf[u]] = @ \cup {tmp[u]}]
    /\ UNCHANGED <<jobVars, res, diskVars, sweepVars, acked, countVars>>

\* io.Copy moves a piece of the body to the file and the hasher.  A file that
\* has been removed meanwhile still takes the data, but has no name.
CopyChunk(u) ==
    /\ pc[u] = "copy"
    /\ Len(got[u]) < MaxLen
    /\ \E c \in Chunks :
          /\ got' = [got EXCEPT ![u] = Append(@, c)]
          /\ temps' = [temps EXCEPT ![tmp[u]] =
                          IF @ = None THEN None
                          ELSE [data |-> Append(@.data, c), synced |-> FALSE, age |-> 0]]
    /\ UNCHANGED <<pc, oid, tmp, res, objects, durable, writing, sweepVars, acked, countVars>>

\* Mutant: the data is not flushed before the rename.
SyncSkipped(u) ==
    /\ Goto(u, "copy", "rename")
    /\ UNCHANGED <<jobVars, res, diskVars, writing, sweepVars, acked, countVars>>

\* The body ends: Sync and Close.
Sync(u) ==
    /\ Goto(u, "copy", "rename")
    /\ temps' = [temps EXCEPT ![tmp[u]] =
                    IF @ = None THEN None ELSE [@ EXCEPT !.synced = TRUE]]
    /\ UNCHANGED <<jobVars, res, objects, durable, writing, sweepVars, acked, countVars>>

\* The client leaves, the body is longer than allowed, the disk fills up, or the
\* idle timeout passes: io.Copy, Sync or Close returns an error.
CopyFails(u) ==
    /\ Goto(u, "copy", "remove")
    /\ Answer(u, "failed")
    /\ UNCHANGED <<jobVars, diskVars, writing, sweepVars, acked, countVars>>

\* Mutant: the deadline is lifted when the first data arrives.
FirstReadTimesOut(u) ==
    /\ pc[u] = "copy"
    /\ temps[tmp[u]] = None \/ temps[tmp[u]].age >= MaxStall
    /\ got[u] = <<>>
    /\ CopyFails(u)

\* idleTimeoutReader: nothing has arrived, and so nothing been written, for the
\* idle timeout.  (The time since is not known of a file another process swept.)
ReadTimesOut(u) ==
    /\ pc[u] = "copy"
    /\ temps[tmp[u]] = None \/ temps[tmp[u]].age >= MaxStall
    /\ CopyFails(u)

\* Mutant: the digest is not compared.
RenameUnchecked(u) ==
    /\ Goto(u, "rename", "remove")
    /\ temps[tmp[u]] # None
    /\ objects' = [objects EXCEPT ![filePath(u)] =
                      [data |-> temps[tmp[u]].data, synced |-> temps[tmp[u]].synced]]
    /\ temps' = [temps EXCEPT ![tmp[u]] = None]
    /\ Answer(u, "stored")
    /\ UNCHANGED <<jobVars, durable, writing, sweepVars, acked, countVars>>

\* strings.EqualFold(computed, oid) holds: os.Rename.
Rename(u) ==
    /\ Goto(u, "rename", "remove")
    /\ Digest(got[u]) = Lower[oid[u]]
    /\ temps[tmp[u]] # None
    /\ objects' = [objects EXCEPT ![filePath(u)] =
                      [data |-> temps[tmp[u]].data, synced |-> temps[tmp[u]].synced]]
    /\ temps' = [temps EXCEPT ![tmp[u]] = None]
    /\ Answer(u, "stored")
    /\ UNCHANGED <<jobVars, durable, writing, sweepVars, acked, countVars>>

\* Mutant: an error of the rename is dropped.
RenameIgnored(u) ==
    /\ Goto(u, "rename", "remove")
    /\ Answer(u, "stored")
    /\ UNCHANGED <<jobVars, diskVars, writing, sweepVars, acked, countVars>>

\* The digests differ, the file has been removed, or the rename fails for
\* another reason.
RenameFails(u) ==
    /\ Goto(u, "rename", "remove")
    /\ Answer(u, "failed")
    /\ UNCHANGED <<jobVars, diskVars, writing, sweepVars, acked, countVars>>

\* The deferred functions: remove what is left of the temporary file (an error
\* is ignored) ...
RemoveTemp(u) ==
    /\ Goto(u, "remove", "return")
    /\ \/ temps' = [temps EXCEPT ![tmp[u]] = None]
       \/ temps' = temps
    /\ UNCHANGED <<jobVars, res, objects, durable, writing, sweepVars, acked, countVars>>

\* ... then untrack; UploadHandler answers.
Return(u) ==
    /\ Goto(u, "return", "idle")
    /\ writing' = [writing EXCEPT ![ProcOf[u]] = @ \ {tmp[u]}]
    /\ acked' = IF res[u] = "stored" THEN acked \cup {filePath(u)} ELSE acked
    /\ oid' = [oid EXCEPT ![u] = None]
    /\ got' = [got EXCEPT ![u] = <<>>]
    /\ tmp' = [tmp EXCEPT ![u] = None]
    /\ Answer(u, None)
    /\ UNCHANGED <<diskVars, sweepVars, countVars>>

Put(u) ==
    \/ CreateFails(u) \/ CreateTemp(u) \/ trackWriting(u)
    \/ CopyChunk(u) \/ CopyFails(u) \/ Sync(u)
    \/ Rename(u) \/ RenameFails(u) \/ RemoveTemp(u) \/ Return(u)

-----------------------------------------------------------------------------
(* RemoveStaleTempFiles, at startup and then every tempSweepInterval. *)

\* The cutoff is computed and the directory listed; a sweep that finds it empty,
\* or cannot read it, does nothing.
SweepStarts(p) ==
    /\ sweep[p] = "rest"
    /\ sweep' = [sweep EXCEPT ![p] = "walk"]
    /\ LET listed == {n \in Temps : temps[n] # None}
       IN  listed # {} /\ todo' = [todo EXCEPT ![p] = listed]
    /\ elapsed' = [elapsed EXCEPT ![p] = 0]
    /\ UNCHANGED <<pc, jobVars, res, diskVars, writing, entry, acked, countVars>>

\* Mutant: files being written are not exempt.
SweepVisitsAny(p) ==
    /\ sweep[p] = "walk"
    /\ \E n \in todo[p] :
          /\ todo' = [todo EXCEPT ![p] = @ \ {n}]
          /\ sweep' = [sweep EXCEPT ![p] = "info"]
          /\ entry' = [entry EXCEPT ![p] = n]
    /\ UNCHANGED <<pc, jobVars, res, diskVars, writing, elapsed, acked, countVars>>

\* The next entry: skipped when inUse ...
SweepVisits(p) ==
    /\ sweep[p] = "walk"
    /\ \E n \in todo[p] :
          /\ todo' = [todo EXCEPT ![p] = @ \ {n}]
          /\ IF n \in writing[p]
             THEN UNCHANGED <<sweep, entry>>
             ELSE /\ sweep' = [sweep EXCEPT ![p] = "info"]
                  /\ entry' = [entry EXCEPT ![p] = n]
    /\ UNCHANGED <<pc, jobVars, res, diskVars, writing, elapsed, acked, countVars>>

\* Mutant: the age of the file is not looked at.
SweepIgnoresAge(p) ==
    /\ sweep[p] = "info"
    /\ IF temps[entry[p]] # None
       THEN sweep' = [sweep EXCEPT ![p] = "unlink"] /\ entry' = entry
       ELSE sweep' = [sweep EXCEPT ![p] = "walk"] /\ entry' = [entry EXCEPT ![p] = None]
    /\ UNCHANGED <<pc, jobVars, res, diskVars, writing, todo, elapsed, acked, countVars>>

\* ... or when gone or modified after the cutoff, MaxAge before the sweep began.
SweepInfo(p) ==
    /\ sweep[p] = "info"
    /\ IF temps[entry[p]] # None /\ temps[entry[p]].age >= MaxAge + elapsed[p]
       THEN sweep' = [sweep EXCEPT ![p] = "unlink"] /\ entry' = entry
       ELSE sweep' = [sweep EXCEPT ![p] = "walk"] /\ entry' = [entry EXCEPT ![p] = None]
    /\ UNCHANGED <<pc, jobVars, res, diskVars, writing, todo, elapsed, acked, countVars>>

\* Mutant: stale files are counted and left where they are.
SweepKeeps(p) ==
    /\ sweep[p] = "unlink"
    /\ sweep' = [sweep EXCEPT ![p] = "walk"]
    /\ entry' = [entry EXCEPT ![p] = None]
    /\ UNCHANGED <<pc, jobVars, res, diskVars, writing, todo, elapsed, acked, countVars>>

\* root.Remove, of whatever file has the name by now.
SweepRemoves(p) ==
    /\ sweep[p] = "unlink"
    /\ sweep' = [sweep EXCEPT ![p] = "walk"]
    /\ entry' = [entry EXCEPT ![p] = None]
    /\ temps' = [temps EXCEPT ![entry[p]] = None]
    /\ UNCHANGED <<pc, jobVars, res, objects, durable, writing, todo, elapsed, acked, countVars>>

\* entry.Info or root.Remove fails: the file is left for the next sweep.
SweepFails(p) ==
    /\ sweep[p] \in {"info", "unlink"}
    /\ sweep' = [sweep EXCEPT ![p] = "walk"]
    /\ entry' = [entry EXCEPT ![p] = None]
    /\ UNCHANGED <<pc, jobVars, res, diskVars, writing, todo, elapsed, acked, countVars>>

SweepEnds(p) ==
    /\ sweep[p] = "walk"
    /\ todo[p] = {}
    /\ sweep' = [sweep EXCEPT ![p] = "rest"]
    /\ elapsed' = [elapsed EXCEPT ![p] = 0]
    /\ UNCHANGED <<pc, jobVars, res, diskVars, writing, todo, entry, acked, countVars>>

sweepTempFiles(p) ==
    SweepStarts(p) \/ SweepVisits(p) \/ SweepInfo(p) \/ SweepRemoves(p) \/ SweepEnds(p)

-----------------------------------------------------------------------------
(* The world around them. *)

\* Time passes.  A goroutine tracks the file it has created before the file is
\* old, and the idle timeout ends an upload that has been silent for MaxStall.
Tick ==
    /\ \A u \in Uploads : pc[u] \in Live /\ temps[tmp[u]] # None =>
          temps[tmp[u]].age < IF pc[u] = "track" THEN MaxAge - 1 ELSE MaxStall
    /\ \A p \in Procs : sweep[p] # "rest" => elapsed[p] < MaxElapsed
    /\ temps' = [n \in Temps |->
                    IF temps[n] = None \/ temps[n].age + 1 \notin Ages THEN temps[n]
                    ELSE [temps[n] EXCEPT !.age = @ + 1]]
    /\ elapsed' = [p \in Procs |-> IF sweep[p] = "rest" THEN 0 ELSE elapsed[p] + 1]
    /\ UNCHANGED <<pc, jobVars, res, objects, durable, writing, sweep, todo, entry, acked, countVars>>

\* The kernel writes the directories back.
WriteBack ==
    /\ losses < MaxPowerLosses
    /\ durable # objects
    /\ durable' = objects
    /\ UNCHANGED <<pc, jobVars, res, temps, objects, writing, sweepVars, acked, countVars>>

\* The processes of D lose their memory and start again.
Restart(D) ==
    LET Reset(f, v) == [u \in Uploads |-> IF ProcOf[u] \in D THEN v ELSE f[u]]
        ResetP(f, v) == [p \in Procs |-> IF p \in D THEN v ELSE f[p]]
    IN  /\ pc' = Reset(pc, "idle")
        /\ oid' = Reset(oid, None)
        /\ got' = Reset(got, <<>>)
        /\ tmp' = Reset(tmp, None)
        /\ res' = Reset(res, None)
        /\ writing' = ResetP(writing, {})
        /\ sweep' = ResetP(sweep, "rest")
        /\ todo' = ResetP(todo, {})
        /\ entry' = ResetP(entry, None)
        /\ elapsed' = ResetP(elapsed, 0)

Crash(p) ==
    /\ crashes < MaxCrashes
    /\ crashes' = crashes + 1
    /\ Restart({p})
    /\ UNCHANGED <<diskVars, acked, ops, losses>>

\* What a power failure may leave of a file.
AfterPowerLoss(f) ==
    IF f = None \/ f.synced THEN {f}
    ELSE {[f EXCEPT !.data = SubSeq(@, 1, k)] : k \in 0 .. Len(f.data)}

\* Data that was not synced may be cut short, and a rename that was not
\* written back may be undone.
PowerLoss ==
    /\ losses < MaxPowerLosses
    /\ losses' = losses + 1
    /\ Restart(Procs)
    /\ \E kept \in SUBSET Oids :
          /\ objects' \in [Oids -> UNION {AfterPowerLoss(objects[o]) : o \in Oids}
                                   \cup UNION {AfterPowerLoss(durable[o]) : o \in Oids}]
          /\ \A o \in Oids :
                objects'[o] \in AfterPowerLoss(IF o \in kept THEN objects[o] ELSE durable[o])
    /\ durable' = objects'
    /\ temps' \in [Temps -> UNION {AfterPowerLoss(temps[n]) : n \in Temps}]
    /\ \A n \in Temps : temps'[n] \in AfterPowerLoss(temps[n])
    /\ UNCHANGED <<acked, ops, crashes>>

Next ==
    \/ \E u \in Uploads : AlreadyStored(u) \/ BeginPut(u) \/ Put(u)
    \/ \E p \in Procs : sweepTempFiles(p) \/ SweepFails(p) \/ Crash(p)
    \/ Tick \/ WriteBack \/ PowerLoss

Spec == Init /\ [][Next]_vars

\* Goroutines are scheduled, the sweep's ticker fires, time passes, and the disk
\* does not fail for ever on one file.  A client may stop sending for good: of
\* an upload that is waiting for data only the timeout is sure to come.
FairSpec ==
    /\ Spec
    /\ \A u \in Uploads : /\ WF_vars(Put(u) /\ pc[u] # "copy")
                          /\ WF_vars(ReadTimesOut(u))
    /\ \A p \in Procs : WF_vars(sweepTempFiles(p))
    /\ \A p \in Procs, n \in Temps : /\ SF_vars(SweepInfo(p) /\ entry[p] = n)
                                     /\ SF_vars(SweepRemoves(p) /\ entry[p] = n)
    /\ SF_vars(Tick)

-----------------------------------------------------------------------------
(* Properties *)

\* What is at an object's path has that object's digest: racing uploads, a
\* crash, a sweep or a power failure at any step never leaves a partial or
\* wrong file there (Put's sync, comparison and rename).
ObjectsIntact ==
    \A o \in Oids : objects[o] # None => Digest(objects[o].data) = o

\* An upload answered with 200 is in storage, also when another upload of the
\* object was under way, or when its file was swept (which takes an idle timeout
\* above tempFileMaxAge).
AckedStored == \A o \in acked : objects[o] # None

\* With an idle timeout below tempFileMaxAge no sweep, of this or any other
\* process, removes the file of an upload that is still going on.
LiveTempsKept ==
    \A u \in Uploads : pc[u] \in Live => temps[tmp[u]] # None

SweepStep ==
    \A p \in Procs, u \in Uploads :
        sweep[p] = "unlink" /\ sweep'[p] = "walk" /\ pc[u] \in Live /\ tmp[u] = entry[p]
            => ProcOf[u] # p

\* Whatever the idle timeout, a process never sweeps the file of one of its
\* own uploads (inUse), although it looks at the directory, the map, the age
\* and the file at four different moments.
OwnTempsKept == [][SweepStep]_vars

\* A temporary file no upload is using is removed in the end, whatever became
\* of the Put that made it.
OrphansSwept ==
    \A n \in Temps :
        temps[n] # None /\ (\A u \in Uploads : tmp[u] # n)
            ~> temps[n] = None \/ \E u \in Uploads : tmp[u] = n

\* With an idle timeout every upload is answered or dies with its process, also
\* when its client falls silent at any point of the body without hanging up
\* (UploadHandler's withIdleTimeout, Put's error paths).
UploadsEnd == \A u \in Uploads : pc[u] # "idle" ~> pc[u] = "idle"
=============================================================================
