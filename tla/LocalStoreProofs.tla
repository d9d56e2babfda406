-------------------------- MODULE LocalStoreProofs --------------------------
(***************************************************************************)
(* Proofs about uploads to local storage, for any number of processes,     *)
(* uploads, temporary names and objects, any data, ages and bounds.        *)
(*                                                                         *)
(* Objects are intact because the file that is renamed holds what was      *)
(* hashed and is on disk: no two uploads share a name, and whoever else    *)
(* changes a temporary file only removes it.  A sweep spares the uploads   *)
(* of its own process because a file is either tracked before the sweep    *)
(* looks at the map, or younger than the cutoff when it looks at the age.  *)
(***************************************************************************)
EXTENDS LocalStore, TLAPS

Steps == {"idle", "create"} \cup Live \cup {"remove", "return"}

TypeOK ==
    /\ pc \in [Uploads -> Steps]
    /\ oid \in [Uploads -> OidTexts \cup {None}]
    /\ got \in [Uploads -> Data]
    /\ tmp \in [Uploads -> Temps \cup {None}]
    /\ res \in [Uploads -> {"stored", "failed", None}]
    /\ temps \in [Temps -> TempFile \cup {None}]
    /\ objects \in [Oids -> ObjectFile \cup {None}]
    /\ durable \in [Oids -> ObjectFile \cup {None}]
    /\ writing \in [Procs -> SUBSET (Temps \cup {None})]
    /\ sweep \in [Procs -> {"rest", "walk", "info", "unlink"}]
    /\ todo \in [Procs -> SUBSET Temps]
    /\ entry \in [Procs -> Temps \cup {None}]
    /\ elapsed \in [Procs -> Nat]
    /\ acked \in SUBSET Oids
    /\ ops \in Nat /\ crashes \in Nat /\ losses \in Nat

\* What an upload's variables are at each of its steps; its temporary file, if
\* it still has a name, holds what has been hashed, and is synced before the
\* rename.
Job(u) ==
    /\ pc[u] # "idle" => oid[u] \in OidTexts
    /\ pc[u] \in {"idle", "create"} => tmp[u] = None
    /\ pc[u] \in {"idle", "create", "track"} => got[u] = <<>>
    /\ pc[u] \in Live \cup {"remove"} => tmp[u] \in Temps
    /\ pc[u] \in Live /\ temps[tmp[u]] # None => temps[tmp[u]].data = got[u]
    /\ pc[u] = "rename" /\ temps[tmp[u]] # None => temps[tmp[u]].synced

JobInv == \A u \in Uploads : Job(u)

\* No two uploads have the same temporary name.
NamesInv == \A u, v \in Uploads : u # v /\ tmp[u] = tmp[v] => tmp[u] = None

\* A file at an object's path, or on its way back after a power failure.
Whole(f, o) == f # None => f.synced /\ Digest(f.data) = o

ObjectInv == \A o \in Oids : Whole(objects[o], o) /\ Whole(durable[o], o)

\* What a client has been told, or is about to be, as long as the power stays.
AckInv ==
    losses = 0 =>
        /\ AckedStored
        /\ \A u \in Uploads : pc[u] \in {"remove", "return"} /\ res[u] = "stored"
              => objects[filePath(u)] # None

\* An upload tracks its file before that is old, and for as long as it writes.
TrackInv ==
    \A u \in Uploads :
        /\ pc[u] = "track" /\ temps[tmp[u]] # None => temps[tmp[u]].age < MaxAge
        /\ pc[u] \in {"copy", "rename"} => tmp[u] \in writing[ProcOf[u]]

\* A sweep that has got hold of the file of an upload of its own process will
\* find it too young, and so not come to remove it.
Spared(p, u) ==
    pc[u] \in Live /\ ProcOf[u] = p /\ tmp[u] = entry[p] =>
        /\ sweep[p] # "unlink"
        /\ sweep[p] = "info" /\ temps[entry[p]] # None =>
              temps[entry[p]].age < MaxAge + elapsed[p]

SpareInv ==
    /\ \A p \in Procs : sweep[p] \in {"info", "unlink"} => entry[p] \in Temps
    /\ \A p \in Procs, u \in Uploads : Spared(p, u)

\* With an idle timeout below MaxAge, no sweep will remove a live upload's file.
LiveInv ==
    \A u \in Uploads : pc[u] \in Live =>
        /\ temps[tmp[u]] # None
        /\ temps[tmp[u]].age < MaxAge
        /\ \A p \in Procs : sweep[p] = "unlink" => entry[p] # tmp[u]

IInv == TypeOK /\ JobInv /\ NamesInv /\ ObjectInv /\ AckInv /\ TrackInv /\ SpareInv

-----------------------------------------------------------------------------
(* Types *)

\* Lower maps what clients write to object IDs, a file path among them.
LEMMA PathIsOid ==
  ASSUME NEW t \in OidTexts
  PROVE  Lower[t] \in Oids
  BY DEF Oids

\* Appending to data gives data, and so does cutting it short.
LEMMA DataOps ==
  ASSUME NEW d \in Data
  PROVE  /\ <<>> \in Data
         /\ \A c \in Chunks : Append(d, c) \in Data
         /\ \A k \in 0 .. Len(d) : SubSeq(d, 1, k) \in Data
  BY DEF Data

\* What a file may be after a power failure is a file again, or none.
LEMMA AfterPowerLossType ==
  /\ \A f \in TempFile \cup {None} : AfterPowerLoss(f) \subseteq TempFile \cup {None}
  /\ \A f \in ObjectFile \cup {None} : AfterPowerLoss(f) \subseteq ObjectFile \cup {None}
  <1>1. ASSUME NEW f \in TempFile \cup {None}, NEW g \in AfterPowerLoss(f)
        PROVE  g \in TempFile \cup {None}
    <2>1. CASE f = None \/ f.synced
      BY <1>1, <2>1 DEF AfterPowerLoss
    <2>2. CASE f # None /\ ~f.synced
      <3>1. PICK k \in 0 .. Len(f.data) : g = [f EXCEPT !.data = SubSeq(f.data, 1, k)]
        BY <1>1, <2>2 DEF AfterPowerLoss
      <3>2. f \in TempFile /\ f.data \in Data
        BY <2>2 DEF TempFile
      <3>3. SubSeq(f.data, 1, k) \in Data
        BY <3>2, DataOps
      <3>4. QED
        BY <3>1, <3>2, <3>3, ZenonT(30) DEF TempFile
    <2>3. QED
      BY <2>1, <2>2
  <1>2. ASSUME NEW f \in ObjectFile \cup {None}, NEW g \in AfterPowerLoss(f)
        PROVE  g \in ObjectFile \cup {None}
    <2>1. CASE f = None \/ f.synced
      BY <1>2, <2>1 DEF AfterPowerLoss
    <2>2. CASE f # None /\ ~f.synced
      <3>1. PICK k \in 0 .. Len(f.data) : g = [f EXCEPT !.data = SubSeq(f.data, 1, k)]
        BY <1>2, <2>2 DEF AfterPowerLoss
      <3>2. f \in ObjectFile /\ f.data \in Data
        BY <2>2 DEF ObjectFile
      <3>3. SubSeq(f.data, 1, k) \in Data
        BY <3>2, DataOps
      <3>4. QED
        BY <3>1, <3>2, <3>3, ZenonT(30) DEF ObjectFile
    <2>3. QED
      BY <2>1, <2>2
  <1>3. QED
    BY <1>1, <1>2

\* The variables keep their types.
LEMMA TypeStep == TypeOK /\ JobInv /\ [Next]_vars => TypeOK'
  <1> SUFFICES ASSUME TypeOK, JobInv, [Next]_vars PROVE TypeOK'
    OBVIOUS
  <1> USE DEF TypeOK, jobVars, diskVars, sweepVars, countVars
  <1>1. ASSUME NEW u \in Uploads, AlreadyStored(u) PROVE TypeOK'
    BY <1>1, PathIsOid DEF AlreadyStored
  <1>2. ASSUME NEW u \in Uploads, BeginPut(u) PROVE TypeOK'
    BY <1>2 DEF BeginPut, Goto, Steps
  <1>3. ASSUME NEW u \in Uploads, CreateFails(u) PROVE TypeOK'
    BY <1>3 DEF CreateFails, Goto, Answer, Steps
  <1>4. ASSUME NEW u \in Uploads, CreateTemp(u) PROVE TypeOK'
    <2>1. [data |-> <<>>, synced |-> FALSE, age |-> 0] \in TempFile
      BY BoundsAssumption DEF TempFile, Ages, Data
    <2>2. QED
      BY <1>4, <2>1 DEF CreateTemp, Goto, Steps, Live
  <1>5. ASSUME NEW u \in Uploads, trackWriting(u) PROVE TypeOK'
    BY <1>5, ProcsAssumption, ZenonT(30) DEF trackWriting, Goto, Steps, Live
  <1>6. ASSUME NEW u \in Uploads, CopyChunk(u) PROVE TypeOK'
    <2>1. PICK c \in Chunks :
             /\ got' = [got EXCEPT ![u] = Append(@, c)]
             /\ temps' = [temps EXCEPT ![tmp[u]] =
                             IF @ = None THEN None
                             ELSE [data |-> Append(@.data, c), synced |-> FALSE, age |-> 0]]
      BY <1>6, ZenonT(30) DEF CopyChunk
    <2>2. got' \in [Uploads -> Data]
      BY <2>1, DataOps
    <2>3. ASSUME NEW f \in TempFile
          PROVE  [data |-> Append(f.data, c), synced |-> FALSE, age |-> 0] \in TempFile
      BY DataOps, BoundsAssumption DEF TempFile, Ages
    <2>4. temps' \in [Temps -> TempFile \cup {None}]
      <3>1. tmp[u] \in Temps
        BY <1>6, Zenon DEF CopyChunk, JobInv, Job, Live
      <3>2. temps[tmp[u]] \in TempFile \cup {None}
        BY <3>1
      <3> DEFINE g == IF temps[tmp[u]] = None THEN None
                      ELSE [data |-> Append(temps[tmp[u]].data, c), synced |-> FALSE, age |-> 0]
      <3>3. g \in TempFile \cup {None}
        BY <2>3, <3>2, Zenon
      <3>4. temps' = [temps EXCEPT ![tmp[u]] = g]
        BY <2>1, Zenon
      <3> HIDE DEF g
      <3>5. QED
        BY <3>3, <3>4, ZenonT(30)
    <2>5. QED
      BY <1>6, <2>2, <2>4 DEF CopyChunk
  <1>7. ASSUME NEW u \in Uploads, CopyFails(u) PROVE TypeOK'
    BY <1>7 DEF CopyFails, Goto, Answer, Steps
  <1>8. ASSUME NEW u \in Uploads, Sync(u) PROVE TypeOK'
    <2>1. ASSUME NEW f \in TempFile PROVE [f EXCEPT !.synced = TRUE] \in TempFile
      BY ZenonT(30) DEF TempFile
    <2>2. temps' \in [Temps -> TempFile \cup {None}]
      <3>1. tmp[u] \in Temps
        BY <1>8, Zenon DEF Sync, Goto, JobInv, Job, Live
      <3>2. temps[tmp[u]] \in TempFile \cup {None}
        BY <3>1
      <3> DEFINE g == IF temps[tmp[u]] = None THEN None ELSE [temps[tmp[u]] EXCEPT !.synced = TRUE]
      <3>3. g \in TempFile \cup {None}
        BY <2>1, <3>2, Zenon
      <3>4. temps' = [temps EXCEPT ![tmp[u]] = g]
        BY <1>8, Zenon DEF Sync
      <3> HIDE DEF g
      <3>5. QED
        BY <3>3, <3>4, ZenonT(30)
    <2>3. QED
      BY <1>8, <2>2 DEF Sync, Goto, Steps, Live
  <1>9. ASSUME NEW u \in Uploads, Rename(u) PROVE TypeOK'
    <2>1. pc[u] = "rename"
      BY <1>9 DEF Rename, Goto
    <2>2. oid[u] \in OidTexts /\ tmp[u] \in Temps
      BY <2>1 DEF JobInv, Job, Live
    <2>3. temps[tmp[u]] \in TempFile
      BY <1>9, <2>2 DEF Rename
    <2>4. [data |-> temps[tmp[u]].data, synced |-> temps[tmp[u]].synced] \in ObjectFile
      BY <2>3 DEF TempFile, ObjectFile
    <2>5. QED
      BY <1>9, <2>2, <2>4, PathIsOid DEF Rename, Goto, Answer, Steps, filePath
  <1>10. ASSUME NEW u \in Uploads, RenameFails(u) PROVE TypeOK'
    BY <1>10 DEF RenameFails, Goto, Answer, Steps
  <1>11. ASSUME NEW u \in Uploads, RemoveTemp(u) PROVE TypeOK'
    BY <1>11 DEF RemoveTemp, Goto, Steps
  <1>12. ASSUME NEW u \in Uploads, Return(u) PROVE TypeOK'
    <2>1. acked' \in SUBSET Oids
      BY <1>12, PathIsOid DEF Return, Goto, filePath, JobInv, Job
    <2>2. got' \in [Uploads -> Data]
      BY <1>12 DEF Return, Data
    <2>3. QED
      BY <1>12, <2>1, <2>2, ProcsAssumption DEF Return, Goto, Answer, Steps
  <1>13. ASSUME NEW p \in Procs, SweepStarts(p) PROVE TypeOK'
    BY <1>13 DEF SweepStarts
  <1>14. ASSUME NEW p \in Procs, SweepVisits(p) PROVE TypeOK'
    BY <1>14 DEF SweepVisits
  <1>15. ASSUME NEW p \in Procs, SweepInfo(p) PROVE TypeOK'
    BY <1>15 DEF SweepInfo
  <1>16. ASSUME NEW p \in Procs, SweepRemoves(p) PROVE TypeOK'
    BY <1>16, ZenonT(30) DEF SweepRemoves
  <1>17. ASSUME NEW p \in Procs, SweepFails(p) PROVE TypeOK'
    BY <1>17 DEF SweepFails
  <1>18. ASSUME NEW p \in Procs, SweepEnds(p) PROVE TypeOK'
    BY <1>18 DEF SweepEnds
  <1>19. ASSUME NEW D, Restart(D)
         PROVE  /\ pc' \in [Uploads -> Steps]
                /\ oid' \in [Uploads -> OidTexts \cup {None}]
                /\ got' \in [Uploads -> Data]
                /\ tmp' \in [Uploads -> Temps \cup {None}]
                /\ res' \in [Uploads -> {"stored", "failed", None}]
                /\ writing' \in [Procs -> SUBSET (Temps \cup {None})]
                /\ sweep' \in [Procs -> {"rest", "walk", "info", "unlink"}]
                /\ todo' \in [Procs -> SUBSET Temps]
                /\ entry' \in [Procs -> Temps \cup {None}]
                /\ elapsed' \in [Procs -> Nat]
    <2>1. <<>> \in Data
      BY DEF Data
    <2>2. QED
      BY <1>19, <2>1 DEF Restart, Steps
  <1>20. ASSUME NEW p \in Procs, Crash(p) PROVE TypeOK'
    BY <1>19, <1>20 DEF Crash
  <1>21. CASE Tick
    <2>1. ASSUME NEW f \in TempFile, f.age + 1 \in Ages
          PROVE  [f EXCEPT !.age = @ + 1] \in TempFile
      BY <2>1 DEF TempFile
    <2>2. temps' \in [Temps -> TempFile \cup {None}]
      BY <1>21, <2>1 DEF Tick
    <2>3. elapsed' \in [Procs -> Nat]
      BY <1>21 DEF Tick
    <2>4. QED
      BY <1>21, <2>2, <2>3 DEF Tick
  <1>22. CASE WriteBack
    BY <1>22 DEF WriteBack
  <1>23. CASE PowerLoss
    <2>1. objects' \in [Oids -> ObjectFile \cup {None}]
      <3>1. PICK kept \in SUBSET Oids :
               /\ objects' \in [Oids -> UNION {AfterPowerLoss(objects[o]) : o \in Oids}
                                   \cup UNION {AfterPowerLoss(durable[o]) : o \in Oids}]
               /\ \A o \in Oids :
                     objects'[o] \in AfterPowerLoss(IF o \in kept THEN objects[o] ELSE durable[o])
        BY <1>23, ZenonT(30) DEF PowerLoss
      <3>2. ASSUME NEW o \in Oids PROVE objects'[o] \in ObjectFile \cup {None}
        BY <3>1, AfterPowerLossType
      <3>3. QED
        BY <3>1, <3>2
    <2>2. temps' \in [Temps -> TempFile \cup {None}]
      <3>1. /\ temps' \in [Temps -> UNION {AfterPowerLoss(temps[n]) : n \in Temps}]
            /\ \A n \in Temps : temps'[n] \in AfterPowerLoss(temps[n])
        BY <1>23 DEF PowerLoss
      <3>2. ASSUME NEW n \in Temps PROVE temps'[n] \in TempFile \cup {None}
        BY <3>1, AfterPowerLossType
      <3>3. QED
        BY <3>1, <3>2
    <2>3. QED
      BY <1>19, <1>23, <2>1, <2>2 DEF PowerLoss
  <1>24. CASE UNCHANGED vars
    BY <1>24 DEF vars
  <1>25. QED
    BY <1>1, <1>2, <1>3, <1>4, <1>5, <1>6, <1>7, <1>8, <1>9, <1>10, <1>11, <1>12, <1>13,
       <1>14, <1>15, <1>16, <1>17, <1>18, <1>20, <1>21, <1>22, <1>23, <1>24, ZenonT(30)
    DEF Next, Put, sweepTempFiles

-----------------------------------------------------------------------------
(* Uploads and their temporary files *)

\* What a step leaves of upload v, and of the temporary file n: nothing but its
\* age, its name and its being on disk may change.
SameJob(v) ==
    /\ pc'[v] = pc[v] /\ oid'[v] = oid[v] /\ got'[v] = got[v] /\ tmp'[v] = tmp[v]
    /\ res'[v] = res[v]

SameData(n) ==
    temps'[n] # None => /\ temps[n] # None
                        /\ temps'[n].data = temps[n].data
                        /\ temps[n].synced => temps'[n].synced

\* No step gives two uploads one name (CreateTemp).
LEMMA NamesStep == TypeOK /\ NamesInv /\ [Next]_vars => NamesInv'
  <1> SUFFICES ASSUME TypeOK, NamesInv, [Next]_vars PROVE NamesInv'
    OBVIOUS
  <1> USE DEF NamesInv, jobVars
  <1>1. ASSUME tmp' = tmp PROVE NamesInv'
    BY <1>1
  <1>2. ASSUME NEW u \in Uploads, CreateTemp(u) PROVE NamesInv'
    BY <1>2 DEF CreateTemp, TypeOK
  <1>3. ASSUME NEW u \in Uploads, Return(u) PROVE NamesInv'
    BY <1>3 DEF Return, TypeOK
  <1>4. ASSUME NEW D, Restart(D) PROVE NamesInv'
    <2>1. tmp' = [u \in Uploads |-> IF ProcOf[u] \in D THEN None ELSE tmp[u]]
      BY <1>4 DEF Restart
    <2>2. QED
      BY <2>1
  <1>5. ASSUME NEW u \in Uploads, AlreadyStored(u) \/ BeginPut(u) \/ CreateFails(u) \/ trackWriting(u)
        PROVE  tmp' = tmp
    BY <1>5, Zenon DEF AlreadyStored, BeginPut, CreateFails, trackWriting
  <1>6. ASSUME NEW u \in Uploads, \/ CopyChunk(u) \/ CopyFails(u) \/ Sync(u) \/ Rename(u)
                                  \/ RenameFails(u) \/ RemoveTemp(u)
        PROVE  tmp' = tmp
    BY <1>6, Zenon DEF CopyChunk, CopyFails, Sync, Rename, RenameFails, RemoveTemp
  <1>7. ASSUME NEW p \in Procs, sweepTempFiles(p) \/ SweepFails(p) PROVE tmp' = tmp
    BY <1>7, Zenon
    DEF sweepTempFiles, SweepStarts, SweepVisits, SweepInfo, SweepRemoves, SweepEnds, SweepFails
  <1>8. ASSUME Tick \/ WriteBack \/ UNCHANGED vars PROVE tmp' = tmp
    BY <1>8, Zenon DEF Tick, WriteBack, vars
  <1>9. ASSUME NEW p \in Procs, Crash(p) PROVE NamesInv'
    BY <1>4, <1>9 DEF Crash
  <1>10. CASE PowerLoss
    BY <1>4, <1>10 DEF PowerLoss
  <1>11. QED
    BY <1>1, <1>2, <1>3, <1>5, <1>6, <1>7, <1>8, <1>9, <1>10, ZenonT(30) DEF Next, Put

\* A step of one upload touches no other, and no temporary file but its own.
LEMMA OwnStep ==
  ASSUME TypeOK, NEW u \in Uploads, AlreadyStored(u) \/ BeginPut(u) \/ Put(u)
  PROVE  /\ \A v \in Uploads \ {u} : SameJob(v)
         /\ \A n \in Temps : n # tmp[u] /\ n # tmp'[u] => temps'[n] = temps[n]
  <1> USE DEF TypeOK, jobVars, diskVars, SameJob
  <1>1. CASE AlreadyStored(u) \/ BeginPut(u)
    BY <1>1 DEF AlreadyStored, BeginPut, Goto
  <1>2. CASE CreateFails(u) \/ trackWriting(u) \/ CopyFails(u)
    BY <1>2 DEF CreateFails, trackWriting, CopyFails, Goto, Answer
  <1>3. CASE CreateTemp(u)
    BY <1>3 DEF CreateTemp, Goto
  <1>4. CASE CopyChunk(u)
    BY <1>4 DEF CopyChunk
  <1>5. CASE Sync(u)
    BY <1>5 DEF Sync, Goto
  <1>6. CASE Rename(u)
    BY <1>6 DEF Rename, Goto, Answer
  <1>7. CASE RenameFails(u) \/ RemoveTemp(u)
    BY <1>7 DEF RenameFails, RemoveTemp, Goto, Answer
  <1>8. CASE Return(u)
    BY <1>8 DEF Return, Goto, Answer
  <1>9. QED
    BY <1>1, <1>2, <1>3, <1>4, <1>5, <1>6, <1>7, <1>8, ZenonT(30) DEF Put

\* A step of a sweep or of the world around touches no upload, and removes
\* temporary files or lets them age, but does not write to them.
LEMMA OtherStep ==
  ASSUME TypeOK,
         \/ \E p \in Procs : sweepTempFiles(p) \/ SweepFails(p)
         \/ Tick \/ WriteBack \/ UNCHANGED vars
  PROVE  /\ \A v \in Uploads : SameJob(v)
         /\ \A n \in Temps : SameData(n)
  <1> USE DEF TypeOK, jobVars, diskVars, SameJob, SameData
  <1>1. CASE \E p \in Procs : SweepStarts(p) \/ SweepVisits(p) \/ SweepInfo(p) \/ SweepEnds(p) \/ SweepFails(p)
    BY <1>1 DEF SweepStarts, SweepVisits, SweepInfo, SweepEnds, SweepFails
  <1>2. CASE \E p \in Procs : SweepRemoves(p)
    BY <1>2 DEF SweepRemoves
  <1>3. CASE Tick
    <2>1. ASSUME NEW n \in Temps PROVE SameData(n)
      BY <1>3 DEF Tick, TempFile
    <2>2. QED
      BY <1>3, <2>1 DEF Tick
  <1>4. CASE WriteBack \/ UNCHANGED vars
    BY <1>4 DEF WriteBack, vars
  <1>5. QED
    BY <1>1, <1>2, <1>3, <1>4, ZenonT(30) DEF sweepTempFiles

\* An upload that is left alone, and whose file nobody writes to, stays as it is.
LEMMA JobFrame ==
  ASSUME NEW v \in Uploads, Job(v), SameJob(v), tmp[v] \in Temps => SameData(tmp[v])
  PROVE  Job(v)'
  BY DEF Job, SameJob, SameData, Live

\* Every step keeps uploads and their files as Job says.
LEMMA JobStep == TypeOK /\ JobInv /\ NamesInv /\ [Next]_vars => JobInv'
  <1> SUFFICES ASSUME TypeOK, JobInv, NamesInv, [Next]_vars PROVE JobInv'
    OBVIOUS
  <1>1. NamesInv'
    BY NamesStep
  <1>2. ASSUME NEW u \in Uploads, AlreadyStored(u) \/ BeginPut(u) \/ Put(u), Job(u)'
        PROVE  JobInv'
    <2> SUFFICES ASSUME NEW v \in Uploads \ {u} PROVE Job(v)'
      BY <1>2 DEF JobInv
    <2>1. SameJob(v)
      BY <1>2, OwnStep
    <2>2. tmp[v] \in Temps => temps'[tmp[v]] = temps[tmp[v]]
      BY <1>1, <1>2, <2>1, OwnStep, NamesAssumption DEF NamesInv, SameJob
    <2>3. QED
      BY <2>1, <2>2, JobFrame DEF JobInv, SameData
  <1>3. ASSUME NEW u \in Uploads, AlreadyStored(u) \/ BeginPut(u) \/ Put(u) PROVE Job(u)'
    <2> USE <1>3, NamesAssumption DEF Job, Goto, Answer, Live, jobVars, diskVars
    <2>1. Job(u) /\ pc \in [Uploads -> Steps] /\ oid \in [Uploads -> OidTexts \cup {None}]
      BY DEF JobInv, TypeOK
    <2>2. got \in [Uploads -> Data] /\ tmp \in [Uploads -> Temps \cup {None}]
      BY DEF TypeOK
    <2>3. temps \in [Temps -> TempFile \cup {None}]
      BY SMTT(30) DEF TypeOK
    <2>4. CASE AlreadyStored(u) \/ BeginPut(u) \/ CreateFails(u)
      BY <2>1, <2>2, <2>4, SMTT(30) DEF AlreadyStored, BeginPut, CreateFails
    <2>5. CASE trackWriting(u) \/ CopyFails(u) \/ RenameFails(u) \/ RemoveTemp(u)
      BY <2>1, <2>2, <2>5, SMTT(30) DEF trackWriting, CopyFails, RenameFails, RemoveTemp
    <2>6. CASE CreateTemp(u)
      BY <2>1, <2>2, <2>3, <2>6, SMTT(30) DEF CreateTemp
    <2>7. CASE CopyChunk(u)
      BY <2>1, <2>2, <2>3, <2>7, NoFileAssumption DEF CopyChunk
    <2>8. CASE Sync(u)
      <3>1. pc[u] = "copy" /\ tmp[u] \in Temps
        BY <2>1, <2>8 DEF Sync
      <3>2. temps'[tmp[u]] # None =>
               /\ temps[tmp[u]] \in TempFile
               /\ temps'[tmp[u]] = [temps[tmp[u]] EXCEPT !.synced = TRUE]
        BY <2>3, <2>8, <3>1, ZenonT(30) DEF Sync
      <3>3. temps'[tmp[u]] # None =>
               temps'[tmp[u]].data = temps[tmp[u]].data /\ temps'[tmp[u]].synced /\ temps[tmp[u]] # None
        BY <3>2, NoFileAssumption, SMTT(30) DEF TempFile
      <3>4. QED
        BY <2>1, <2>2, <2>8, <3>1, <3>3 DEF Sync
    <2>9. CASE Rename(u)
      BY <2>1, <2>2, <2>9 DEF Rename
    <2>10. CASE Return(u)
      BY <2>1, <2>2, <2>10 DEF Return
    <2>11. QED
      BY <2>4, <2>5, <2>6, <2>7, <2>8, <2>9, <2>10, ZenonT(30) DEF Put
  <1>4. CASE \/ \E p \in Procs : sweepTempFiles(p) \/ SweepFails(p)
             \/ Tick \/ WriteBack \/ UNCHANGED vars
    BY <1>4, OtherStep, JobFrame DEF JobInv
  <1>5. ASSUME NEW D, Restart(D), temps' = temps \/ D = Procs PROVE JobInv'
    <2> SUFFICES ASSUME NEW v \in Uploads PROVE Job(v)'
      BY DEF JobInv
    <2>1. CASE ProcOf[v] \in D
      <3>1. pc'[v] = "idle" /\ tmp'[v] = None /\ got'[v] = <<>>
        BY <1>5, <2>1 DEF Restart
      <3>2. QED
        BY <3>1 DEF Job, Live
    <2>2. CASE ProcOf[v] \notin D
      <3>1. SameJob(v) /\ temps' = temps
        BY <1>5, <2>2, ProcsAssumption DEF Restart, SameJob
      <3>2. QED
        BY <3>1, JobFrame DEF SameData, JobInv
    <2>3. QED
      BY <2>1, <2>2
  <1>6. ASSUME NEW p \in Procs, Crash(p) PROVE JobInv'
    BY <1>5, <1>6 DEF Crash, diskVars
  <1>7. CASE PowerLoss
    BY <1>5, <1>7 DEF PowerLoss
  <1>8. QED
    BY <1>2, <1>3, <1>4, <1>6, <1>7, ZenonT(30) DEF Next

-----------------------------------------------------------------------------
(* Objects *)

\* A power failure leaves a synced file as it is.
LEMMA SyncedSurvives ==
  ASSUME NEW f, NEW o, Whole(f, o), NEW g \in AfterPowerLoss(f)
  PROVE  g = f
  BY DEF AfterPowerLoss, Whole

\* Only Rename puts a file at an object's path, and it is whole.
LEMMA ObjectStep == TypeOK /\ JobInv /\ ObjectInv /\ [Next]_vars => ObjectInv'
  <1> SUFFICES ASSUME TypeOK, JobInv, ObjectInv, [Next]_vars PROVE ObjectInv'
    OBVIOUS
  <1> USE DEF ObjectInv, diskVars
  <1>1. ASSUME UNCHANGED <<objects, durable>> PROVE ObjectInv'
    BY <1>1 DEF Whole
  <1>2. ASSUME NEW u \in Uploads, Rename(u) PROVE ObjectInv'
    <2> DEFINE f == [data |-> temps[tmp[u]].data, synced |-> temps[tmp[u]].synced]
    <2>1. /\ pc[u] = "rename" /\ temps[tmp[u]] # None /\ Digest(got[u]) = Lower[oid[u]]
          /\ objects' = [objects EXCEPT ![filePath(u)] = f] /\ durable' = durable
      BY <1>2, Zenon DEF Rename, Goto
    <2>2. oid[u] \in OidTexts /\ temps[tmp[u]].data = got[u] /\ temps[tmp[u]].synced
      BY <2>1 DEF JobInv, Job, Live
    <2>3. Whole(f, filePath(u))
      BY <2>1, <2>2 DEF Whole, filePath
    <2> HIDE DEF f
    <2>4. ASSUME NEW o \in Oids
          PROVE  objects'[o] = objects[o] \/ (o = filePath(u) /\ objects'[o] = f)
      BY <2>1 DEF TypeOK
    <2>5. ASSUME NEW o \in Oids PROVE Whole(objects[o], o)' /\ Whole(durable[o], o)'
      BY <2>1, <2>3, <2>4 DEF Whole
    <2>6. QED
      BY <2>5, Zenon
  <1>3. CASE WriteBack
    BY <1>3 DEF WriteBack, Whole
  <1>4. CASE PowerLoss
    <2>1. ASSUME NEW o \in Oids PROVE objects'[o] = objects[o] \/ objects'[o] = durable[o]
      <3>1. \/ objects'[o] \in AfterPowerLoss(objects[o])
            \/ objects'[o] \in AfterPowerLoss(durable[o])
        BY <1>4 DEF PowerLoss
      <3>2. QED
        BY <3>1, SyncedSurvives, Zenon
    <2>2. durable' = objects'
      BY <1>4 DEF PowerLoss
    <2>3. QED
      BY <2>1, <2>2 DEF Whole
  <1>5. ASSUME NEW u \in Uploads, AlreadyStored(u) \/ BeginPut(u) \/ CreateFails(u) \/ CreateTemp(u)
        PROVE  UNCHANGED <<objects, durable>>
    BY <1>5, Zenon DEF AlreadyStored, BeginPut, CreateFails, CreateTemp
  <1>6. ASSUME NEW u \in Uploads, \/ trackWriting(u) \/ CopyChunk(u) \/ CopyFails(u) \/ Sync(u)
                                  \/ RenameFails(u) \/ RemoveTemp(u) \/ Return(u)
        PROVE  UNCHANGED <<objects, durable>>
    BY <1>6, Zenon DEF trackWriting, CopyChunk, CopyFails, Sync, RenameFails, RemoveTemp, Return
  <1>7. ASSUME NEW p \in Procs, sweepTempFiles(p) \/ SweepFails(p) \/ Crash(p)
        PROVE  UNCHANGED <<objects, durable>>
    BY <1>7, Zenon
    DEF sweepTempFiles, SweepStarts, SweepVisits, SweepInfo, SweepRemoves, SweepEnds, SweepFails, Crash
  <1>8. ASSUME Tick \/ UNCHANGED vars PROVE UNCHANGED <<objects, durable>>
    BY <1>8, Zenon DEF Tick, vars
  <1>9. QED
    BY <1>1, <1>2, <1>3, <1>4, <1>5, <1>6, <1>7, <1>8, ZenonT(30) DEF Next, Put

\* Without a power failure an object that is there stays there.
LEMMA ObjectsStay ==
  ASSUME TypeOK, JobInv, [Next]_vars, losses' = 0, NEW o \in Oids, objects[o] # None
  PROVE  objects'[o] # None
  <1> USE DEF diskVars, countVars
  <1>1. ASSUME NEW u \in Uploads, Rename(u) PROVE objects'[o] # None
    <2>1. pc[u] = "rename" /\ temps[tmp[u]] # None
      BY <1>1, Zenon DEF Rename, Goto
    <2>2. tmp[u] \in Temps
      BY <2>1, Zenon DEF JobInv, Job, Live
    <2>3. temps[tmp[u]] \in TempFile
      BY <2>1, <2>2, SMTT(30) DEF TypeOK
    <2> DEFINE f == [data |-> temps[tmp[u]].data, synced |-> temps[tmp[u]].synced]
    <2>4. f \in ObjectFile
      BY <2>3 DEF TempFile, ObjectFile
    <2>5. objects' = [objects EXCEPT ![filePath(u)] = f]
      BY <1>1, Zenon DEF Rename
    <2> HIDE DEF f
    <2>6. QED
      BY <2>4, <2>5, NoFileAssumption DEF TypeOK
  <1>2. ~PowerLoss
    BY DEF PowerLoss, TypeOK
  <1>3. ASSUME NEW u \in Uploads, AlreadyStored(u) \/ BeginPut(u) \/ CreateFails(u) \/ CreateTemp(u)
        PROVE  objects' = objects
    BY <1>3, Zenon DEF AlreadyStored, BeginPut, CreateFails, CreateTemp
  <1>4. ASSUME NEW u \in Uploads, \/ trackWriting(u) \/ CopyChunk(u) \/ CopyFails(u) \/ Sync(u)
                                  \/ RenameFails(u) \/ RemoveTemp(u) \/ Return(u)
        PROVE  objects' = objects
    BY <1>4, Zenon DEF trackWriting, CopyChunk, CopyFails, Sync, RenameFails, RemoveTemp, Return
  <1>5. ASSUME NEW p \in Procs, sweepTempFiles(p) \/ SweepFails(p) \/ Crash(p)
        PROVE  objects' = objects
    BY <1>5, Zenon
    DEF sweepTempFiles, SweepStarts, SweepVisits, SweepInfo, SweepRemoves, SweepEnds, SweepFails, Crash
  <1>6. ASSUME Tick \/ WriteBack \/ UNCHANGED vars PROVE objects' = objects
    BY <1>6, Zenon DEF Tick, WriteBack, vars
  <1>7. QED
    BY <1>1, <1>2, <1>3, <1>4, <1>5, <1>6, ZenonT(30) DEF Next, Put

\* What an upload is answered rests on an object that is there.
LEMMA AckStep == TypeOK /\ JobInv /\ NamesInv /\ AckInv /\ [Next]_vars => AckInv'
  <1> SUFFICES ASSUME TypeOK, JobInv, NamesInv, AckInv, [Next]_vars, losses' = 0 PROVE AckInv'
    BY Zenon DEF AckInv
  <1> DEFINE Promised(u) == pc[u] \in {"remove", "return"} /\ res[u] = "stored"
  <1>1. losses = 0
    <2>1. losses' = losses \/ losses' = losses + 1
      BY ZenonT(30) DEF Next, Put, vars, countVars, AlreadyStored, BeginPut, CreateFails, CreateTemp,
         trackWriting, CopyChunk, CopyFails, Sync, Rename, RenameFails, RemoveTemp, Return,
         sweepTempFiles, SweepStarts, SweepVisits, SweepInfo, SweepRemoves, SweepEnds, SweepFails,
         Crash, Tick, WriteBack, PowerLoss
    <2>2. QED
      BY <2>1 DEF TypeOK
  <1>2. /\ \A o \in acked : objects[o] # None
        /\ \A u \in Uploads : Promised(u) => objects[filePath(u)] # None
    BY <1>1, Zenon DEF AckInv, AckedStored
  <1>3. \A o \in Oids : objects[o] # None => objects'[o] # None
    BY ObjectsStay
  <1>4. ASSUME NEW u \in Uploads, AlreadyStored(u) \/ BeginPut(u) \/ Put(u), Promised(u)'
        PROVE  objects'[filePath(u)'] # None
    <2>1. Job(u) /\ pc \in [Uploads -> Steps] /\ res \in [Uploads -> {"stored", "failed", None}]
      BY DEF JobInv, TypeOK
    <2>2. CASE Rename(u)
      <3>1. objects'[filePath(u)] # None
        <4>1. pc[u] = "rename" /\ temps[tmp[u]] # None
          BY <2>2, Zenon DEF Rename, Goto
        <4>2. tmp[u] \in Temps /\ oid[u] \in OidTexts
          BY <2>1, <4>1, Zenon DEF Job, Live
        <4>3. temps[tmp[u]] \in TempFile
          BY <4>1, <4>2 DEF TypeOK
        <4> DEFINE f == [data |-> temps[tmp[u]].data, synced |-> temps[tmp[u]].synced]
        <4>4. f \in ObjectFile
          BY <4>3 DEF TempFile, ObjectFile
        <4>5. objects' = [objects EXCEPT ![filePath(u)] = f]
          BY <2>2, Zenon DEF Rename
        <4>6. filePath(u) \in Oids
          BY <4>2, PathIsOid DEF filePath
        <4> HIDE DEF f
        <4>7. QED
          BY <4>4, <4>5, <4>6, NoFileAssumption DEF TypeOK
      <3>2. filePath(u)' = filePath(u)
        BY <2>2 DEF Rename, jobVars, filePath
      <3>3. QED
        BY <3>1, <3>2
    <2>3. CASE RemoveTemp(u)
      <3>1. pc[u] = "remove" /\ res' = res /\ oid' = oid
        BY <2>3, Zenon DEF RemoveTemp, Goto, jobVars
      <3>2. Promised(u) /\ oid[u] \in OidTexts
        BY <1>4, <2>1, <3>1 DEF Job
      <3>3. filePath(u) \in Oids /\ objects[filePath(u)] # None
        BY <1>2, <3>2, PathIsOid DEF filePath
      <3>4. QED
        BY <1>3, <3>1, <3>3 DEF filePath
    <2>4. CASE CreateFails(u) \/ CopyFails(u) \/ RenameFails(u)
      BY <1>4, <2>1, <2>4, SMTT(30) DEF CreateFails, CopyFails, RenameFails, Answer
    <2>5. CASE AlreadyStored(u) \/ BeginPut(u) \/ CreateTemp(u) \/ trackWriting(u)
      BY <1>4, <2>1, <2>5, ZenonT(30) DEF AlreadyStored, BeginPut, CreateTemp, trackWriting, Goto
    <2>6. CASE CopyChunk(u) \/ Sync(u) \/ Return(u)
      BY <1>4, <2>1, <2>6, SMTT(30) DEF CopyChunk, Sync, Return, Goto
    <2>7. QED
      BY <1>4, <2>2, <2>3, <2>4, <2>5, <2>6, ZenonT(30) DEF Put
  <1>5. ASSUME NEW v \in Uploads, SameJob(v), Promised(v)'
        PROVE  objects'[filePath(v)'] # None
    <2>1. Promised(v) /\ filePath(v)' = filePath(v)
      BY <1>5, Zenon DEF SameJob, filePath
    <2>2. oid[v] \in OidTexts
      BY <2>1, ZenonT(30) DEF JobInv, Job
    <2>3. filePath(v) \in Oids
      BY <2>2, PathIsOid DEF filePath
    <2>4. QED
      BY <1>2, <1>3, <2>1, <2>3
  <1>6. \A v \in Uploads : Promised(v)' => objects'[filePath(v)'] # None
    <2>1. CASE \E u \in Uploads : AlreadyStored(u) \/ BeginPut(u) \/ Put(u)
      BY <1>4, <1>5, <2>1, OwnStep, ZenonT(30)
    <2>2. CASE \/ \E p \in Procs : sweepTempFiles(p) \/ SweepFails(p)
               \/ Tick \/ WriteBack \/ UNCHANGED vars
      BY <1>5, <2>2, OtherStep, ZenonT(30)
    <2>3. ASSUME NEW D, Restart(D), NEW v \in Uploads, Promised(v)' PROVE SameJob(v)
      BY <2>3, ProcsAssumption, ZenonT(30) DEF Restart, SameJob
    <2>4. CASE PowerLoss \/ \E p \in Procs : Crash(p)
      <3>1. PICK D : Restart(D)
        BY <2>4, Zenon DEF PowerLoss, Crash
      <3>2. QED
        BY <1>5, <2>3, <3>1, Zenon
    <2>5. QED
      BY <2>1, <2>2, <2>4, ZenonT(30) DEF Next
  <1>7. ASSUME NEW o \in acked' PROVE objects'[o] # None
    <2>1. CASE o \in acked
      BY <1>2, <1>3, <2>1, SMTT(30) DEF TypeOK
    <2>2. ASSUME NEW u \in Uploads, Return(u), o \notin acked PROVE objects'[o] # None
      <3>1. pc[u] = "return" /\ res[u] = "stored" /\ o = filePath(u)
        BY <1>7, <2>2 DEF Return, Goto
      <3>2. oid[u] \in OidTexts
        BY <3>1 DEF JobInv, Job
      <3>3. o \in Oids
        BY <3>1, <3>2, PathIsOid DEF filePath
      <3>4. QED
        BY <1>2, <1>3, <3>1, <3>3, SMTT(30)
    <2>3. ASSUME NEW u \in Uploads, AlreadyStored(u), o \notin acked PROVE objects'[o] # None
      <3>1. o \in Oids /\ objects[o] # None
        BY <1>7, <2>3, PathIsOid DEF AlreadyStored
      <3>2. QED
        BY <1>3, <3>1
    <2>4. CASE acked' = acked
      BY <1>7, <2>1, <2>4
    <2>5. ASSUME NEW u \in Uploads, \/ BeginPut(u) \/ CreateFails(u) \/ CreateTemp(u) \/ trackWriting(u)
                                    \/ CopyChunk(u) \/ CopyFails(u) \/ Sync(u) \/ Rename(u)
                                    \/ RenameFails(u) \/ RemoveTemp(u)
          PROVE  acked' = acked
      BY <2>5, Zenon DEF BeginPut, CreateFails, CreateTemp, trackWriting, CopyChunk, CopyFails, Sync,
         Rename, RenameFails, RemoveTemp
    <2>6. ASSUME NEW p \in Procs, sweepTempFiles(p) \/ SweepFails(p) \/ Crash(p) PROVE acked' = acked
      BY <2>6, Zenon DEF sweepTempFiles, SweepStarts, SweepVisits, SweepInfo, SweepRemoves, SweepEnds,
         SweepFails, Crash
    <2>7. ASSUME Tick \/ WriteBack \/ PowerLoss \/ UNCHANGED vars PROVE acked' = acked
      BY <2>7, Zenon DEF Tick, WriteBack, PowerLoss, vars
    <2>8. QED
      BY <2>1, <2>2, <2>3, <2>4, <2>5, <2>6, <2>7, ZenonT(30) DEF Next, Put
  <1>8. QED
    BY <1>6, <1>7, Zenon DEF AckInv, AckedStored

-----------------------------------------------------------------------------
(* Uploads and sweeps *)

\* Upload v and its file are left as they are, and still tracked if they were.
Untouched(v) ==
    /\ SameJob(v)
    /\ tmp[v] \in Temps =>
          /\ temps'[tmp[v]] = temps[tmp[v]]
          /\ tmp[v] \in writing[ProcOf[v]] => tmp[v] \in writing'[ProcOf[v]]

\* Upload u has made a new file no sweep knows of, or goes on with the one it
\* has, which it tracks and may write to.
Creates(u) ==
    /\ pc'[u] = "track" /\ tmp'[u] \in Temps
    /\ temps'[tmp'[u]] # None /\ temps'[tmp'[u]].age = 0
    /\ \A p \in Procs : entry[p] # tmp'[u]

GoesOn(u) ==
    /\ pc[u] \in Live /\ tmp'[u] = tmp[u] /\ tmp[u] \in Temps
    /\ pc'[u] = "track" => pc[u] = "track"
    /\ pc'[u] # "track" => \/ tmp[u] \in writing'[ProcOf[u]]
                           \/ pc[u] # "track" /\ writing' = writing
    /\ temps[tmp[u]] = None => temps'[tmp[u]] = None
    /\ temps[tmp[u]] # None => /\ temps'[tmp[u]] # None
                               /\ temps'[tmp[u]].age \in {0, temps[tmp[u]].age}

\* What a step of one upload does to it, to the others and to the sweeps.
LEMMA UploadMoves ==
  ASSUME TypeOK, JobInv, NamesInv, NamesInv', NEW u \in Uploads, AlreadyStored(u) \/ BeginPut(u) \/ Put(u)
  PROVE  /\ UNCHANGED sweepVars
         /\ \A v \in Uploads \ {u} : Untouched(v)
         /\ pc'[u] \in Live => Creates(u) \/ GoesOn(u) \/ Untouched(u)
  <1>1. UNCHANGED sweepVars
    BY ZenonT(30) DEF Put, AlreadyStored, BeginPut, CreateFails, CreateTemp, trackWriting, CopyChunk,
       CopyFails, Sync, Rename, RenameFails, RemoveTemp, Return
  <1>2. ASSUME NEW n, n \in writing[ProcOf[u]], n # tmp[u] PROVE n \in writing'[ProcOf[u]]
    <2>1. CASE Return(u)
      BY <1>2, <2>1, ProcsAssumption DEF Return, TypeOK
    <2>2. CASE trackWriting(u)
      BY <1>2, <2>2, ProcsAssumption DEF trackWriting, TypeOK
    <2>3. CASE writing' = writing
      BY <1>2, <2>3
    <2>4. QED
      BY <2>1, <2>2, <2>3, ZenonT(30) DEF Put, AlreadyStored, BeginPut, CreateFails, CreateTemp,
         CopyChunk, CopyFails, Sync, Rename, RenameFails, RemoveTemp
  <1>3. ASSUME NEW p \in Procs, p # ProcOf[u] PROVE writing'[p] = writing[p]
    <2>1. CASE Return(u) \/ trackWriting(u)
      BY <1>3, <2>1 DEF Return, trackWriting, TypeOK
    <2>2. QED
      BY <2>1, ZenonT(30) DEF Put, AlreadyStored, BeginPut, CreateFails, CreateTemp,
         CopyChunk, CopyFails, Sync, Rename, RenameFails, RemoveTemp
  <1>4. ASSUME NEW v \in Uploads \ {u} PROVE Untouched(v)
    <2>1. SameJob(v)
      BY <1>4, OwnStep
    <2>2. ASSUME tmp[v] \in Temps PROVE tmp[v] # tmp[u] /\ tmp[v] # tmp'[u]
      BY <2>1, <2>2, NamesAssumption, SMTT(30) DEF NamesInv, SameJob
    <2>3. ASSUME tmp[v] \in Temps PROVE temps'[tmp[v]] = temps[tmp[v]]
      BY <2>2, <2>3, OwnStep, SMTT(30)
    <2>4. ASSUME tmp[v] \in Temps, tmp[v] \in writing[ProcOf[v]] PROVE tmp[v] \in writing'[ProcOf[v]]
      BY <1>2, <1>3, <2>2, <2>4, ProcsAssumption
    <2>5. QED
      BY <2>1, <2>3, <2>4, Zenon DEF Untouched
  <1>5. ASSUME pc'[u] \in Live PROVE Creates(u) \/ GoesOn(u) \/ Untouched(u)
    <2>1. pc \in [Uploads -> Steps] /\ tmp \in [Uploads -> Temps \cup {None}] /\ Job(u)
      BY Zenon DEF TypeOK, JobInv
    <2>2. temps \in [Temps -> TempFile \cup {None}] /\ writing \in [Procs -> SUBSET (Temps \cup {None})]
      BY Zenon DEF TypeOK
    <2>3. CASE CreateTemp(u)
      <3> DEFINE new == [data |-> <<>>, synced |-> FALSE, age |-> 0]
      <3>1. PICK n \in Temps : /\ \A p \in Procs : entry[p] # n
                               /\ tmp' = [tmp EXCEPT ![u] = n] /\ temps' = [temps EXCEPT ![n] = new]
        BY <2>3, Zenon DEF CreateTemp
      <3>2. pc'[u] = "track"
        BY <2>1, <2>3, Zenon DEF CreateTemp, Goto
      <3>3. tmp'[u] = n /\ temps'[n] = new
        BY <2>1, <2>2, <3>1, Zenon
      <3>4. new # None /\ new.age = 0
        <4>1. 0 \in Ages /\ <<>> \in Data
          BY BoundsAssumption DEF Ages, Data
        <4>2. new \in TempFile
          BY <4>1 DEF TempFile
        <4>3. QED
          BY <4>2, NoFileAssumption, ZenonT(30)
      <3> HIDE DEF new
      <3>5. QED
        BY <3>1, <3>2, <3>3, <3>4, Zenon DEF Creates
    <2>4. CASE trackWriting(u)
      BY <2>1, <2>2, <2>4, ProcsAssumption, ZenonT(30) DEF trackWriting, Goto, GoesOn, Job, Live, jobVars, diskVars
    <2>5. CASE CopyChunk(u)
      <3>1. pc[u] = "copy" /\ pc' = pc /\ tmp' = tmp /\ writing' = writing
        BY <2>5, Zenon DEF CopyChunk
      <3>2. tmp[u] \in Temps
        BY <2>1, <3>1 DEF Job, Live
      <3>3. /\ temps[tmp[u]] = None => temps'[tmp[u]] = None
            /\ temps[tmp[u]] # None => temps'[tmp[u]] # None /\ temps'[tmp[u]].age = 0
        <4>1. PICK c \in Chunks : temps' = [temps EXCEPT ![tmp[u]] =
                                     IF @ = None THEN None
                                     ELSE [data |-> Append(@.data, c), synced |-> FALSE, age |-> 0]]
          BY <2>5, Zenon DEF CopyChunk
        <4> DEFINE new == [data |-> Append(temps[tmp[u]].data, c), synced |-> FALSE, age |-> 0]
        <4>2. temps'[tmp[u]] = IF temps[tmp[u]] = None THEN None ELSE new
          BY <2>2, <3>2, <4>1, Zenon
        <4>3. new.age = 0
          BY SMTT(30)
        <4>4. ASSUME temps[tmp[u]] # None PROVE new # None
          <5>1. 0 \in Ages /\ temps[tmp[u]].data \in Data
            BY <2>2, <3>2, <4>4, BoundsAssumption DEF Ages, TempFile
          <5>2. Append(temps[tmp[u]].data, c) \in Data
            BY <5>1, DataOps
          <5>3. new \in TempFile
            BY <5>1, <5>2 DEF TempFile
          <5>4. QED
            BY <5>3, NoFileAssumption, ZenonT(30)
        <4> HIDE DEF new
        <4>5. QED
          BY <4>2, <4>3, <4>4, Zenon
      <3>4. QED
        BY <3>1, <3>2, <3>3, ZenonT(30) DEF GoesOn, Live
    <2>6. CASE Sync(u)
      <3>1. pc[u] = "copy" /\ pc'[u] = "rename" /\ tmp' = tmp /\ writing' = writing
        BY <2>1, <2>6, SMTT(30) DEF Sync, Goto, jobVars
      <3>2. tmp[u] \in Temps
        BY <2>1, <3>1 DEF Job, Live
      <3>3. temps'[tmp[u]] = IF temps[tmp[u]] = None THEN None ELSE [temps[tmp[u]] EXCEPT !.synced = TRUE]
        BY <2>2, <2>6, <3>2, Zenon DEF Sync
      <3>4. temps[tmp[u]] # None => temps'[tmp[u]] # None /\ temps'[tmp[u]].age = temps[tmp[u]].age
        BY <2>2, <3>2, <3>3, NoFileAssumption, ZenonT(30) DEF TempFile
      <3>5. QED
        BY <3>1, <3>2, <3>3, <3>4 DEF GoesOn, Live
    <2>7. CASE AlreadyStored(u)
      BY <2>7, Zenon DEF AlreadyStored, jobVars, diskVars, Untouched, SameJob
    <2>8. CASE BeginPut(u) \/ CreateFails(u) \/ CopyFails(u)
      BY <1>5, <2>1, <2>8 DEF BeginPut, CreateFails, CopyFails, Goto, Live
    <2>9. CASE Rename(u) \/ RenameFails(u) \/ RemoveTemp(u) \/ Return(u)
      BY <1>5, <2>1, <2>9, ZenonT(30) DEF Rename, RenameFails, RemoveTemp, Return, Goto, Live
    <2>10. QED
      BY <2>3, <2>4, <2>5, <2>6, <2>7, <2>8, <2>9, ZenonT(30) DEF Put
  <1>6. QED
    BY <1>1, <1>4, <1>5, Zenon

\* What a step of p's sweep does: it reaches "info" with a name that is not
\* tracked and "unlink" with a file that is old, and removes no other.
Visits(p) ==
    /\ sweep'[p] = "info" /\ entry'[p] \in Temps
    /\ entry'[p] \notin writing[p] /\ elapsed'[p] = elapsed[p]

Condemns(p) ==
    /\ sweep[p] = "info" /\ sweep'[p] = "unlink" /\ entry'[p] = entry[p]
    /\ temps[entry[p]] # None /\ temps[entry[p]].age >= MaxAge + elapsed[p]

\* Every step of a sweep is one of these, or ends a visit; no upload is touched.
LEMMA SweepMoves ==
  ASSUME TypeOK, NEW p \in Procs, sweepTempFiles(p) \/ SweepFails(p)
  PROVE  /\ UNCHANGED <<pc, tmp, writing>>
         /\ \A q \in Procs \ {p} :
               sweep'[q] = sweep[q] /\ entry'[q] = entry[q] /\ elapsed'[q] = elapsed[q]
         /\ sweep'[p] \in {"rest", "walk"} \/ Visits(p) \/ Condemns(p)
         /\ \A n \in Temps : \/ temps'[n] = temps[n]
                             \/ temps'[n] = None /\ sweep[p] = "unlink" /\ entry[p] = n
  <1>1. sweep \in [Procs -> {"rest", "walk", "info", "unlink"}] /\ todo \in [Procs -> SUBSET Temps]
    BY Zenon DEF TypeOK
  <1>2. entry \in [Procs -> Temps \cup {None}] /\ elapsed \in [Procs -> Nat]
    BY Zenon DEF TypeOK
  <1>3. temps \in [Temps -> TempFile \cup {None}]
    BY Zenon DEF TypeOK
  <1> USE DEF jobVars, diskVars
  <1>4. CASE SweepStarts(p) \/ SweepEnds(p)
    BY <1>1, <1>2, <1>4, ZenonT(30) DEF SweepStarts, SweepEnds
  <1>5. CASE SweepVisits(p)
    BY <1>1, <1>2, <1>5, SMTT(30) DEF SweepVisits, Visits
  <1>6. CASE SweepInfo(p)
    BY <1>1, <1>2, <1>6 DEF SweepInfo, Condemns
  <1>7. CASE SweepRemoves(p)
    BY <1>1, <1>2, <1>3, <1>7, SMTT(30) DEF SweepRemoves
  <1>8. CASE SweepFails(p)
    BY <1>1, <1>2, <1>8, ZenonT(30) DEF SweepFails
  <1>9. QED
    BY <1>4, <1>5, <1>6, <1>7, <1>8, ZenonT(30) DEF sweepTempFiles

\* A restart ends the uploads and the sweeps of the processes it is of, and
\* leaves the others as they are.
LEMMA RestartMoves ==
  ASSUME NEW D, (PowerLoss /\ D = Procs) \/ \E p \in Procs : Crash(p) /\ D = {p}
  PROVE  /\ \A v \in Uploads : ProcOf[v] \in D => pc'[v] = "idle"
         /\ \A v \in Uploads : ProcOf[v] \notin D => Untouched(v)
         /\ \A p \in Procs : p \in D => sweep'[p] = "rest"
         /\ \A p \in Procs : p \notin D =>
               sweep'[p] = sweep[p] /\ entry'[p] = entry[p] /\ elapsed'[p] = elapsed[p]
  <1>1. Restart(D) /\ (D = Procs \/ temps' = temps)
    BY Zenon DEF PowerLoss, Crash, diskVars
  <1>2. ASSUME NEW v \in Uploads, ProcOf[v] \notin D PROVE Untouched(v)
    <2>1. ProcOf[v] \in Procs /\ temps' = temps
      BY <1>1, <1>2, ProcsAssumption, SMTT(30)
    <2>2. SameJob(v) /\ writing'[ProcOf[v]] = writing[ProcOf[v]]
      BY <1>1, <1>2, <2>1, ZenonT(30) DEF Restart, SameJob
    <2>3. QED
      BY <2>1, <2>2, Zenon DEF Untouched
  <1>3. QED
    BY <1>1, <1>2, ZenonT(30) DEF Restart

\* The age of a file is a number.
LEMMA AgeIsNat ==
  ASSUME TypeOK, NEW n \in Temps, temps[n] # None
  PROVE  temps[n].age \in Nat
  <1>1. temps[n] \in TempFile
    BY Zenon DEF TypeOK
  <1>2. QED
    BY <1>1, BoundsAssumption DEF TempFile, Ages

\* A file that gets older is a file of that age.
LEMMA Older ==
  ASSUME NEW f \in TempFile, f.age + 1 \in Ages
  PROVE  [f EXCEPT !.age = @ + 1] \in TempFile /\ [f EXCEPT !.age = @ + 1].age = f.age + 1
  BY DEF TempFile

\* When time passes files and sweeps get older by one, and no more.
LEMMA TickAges ==
  ASSUME TypeOK, Tick
  PROVE  /\ UNCHANGED <<pc, tmp, writing, sweep, entry>>
         /\ \A n \in Temps : temps[n] = None <=> temps'[n] = None
         /\ \A n \in Temps : temps[n] # None =>
               /\ temps[n].age \in Nat /\ temps'[n].age \in Nat
               /\ temps'[n].age <= temps[n].age + 1
         /\ \A p \in Procs : sweep[p] # "rest" => elapsed'[p] = elapsed[p] + 1
  <1>1. temps \in [Temps -> TempFile \cup {None}]
    BY Zenon DEF TypeOK
  <1>2. /\ temps' = [n \in Temps |-> IF temps[n] = None \/ temps[n].age + 1 \notin Ages THEN temps[n]
                                     ELSE [temps[n] EXCEPT !.age = @ + 1]]
        /\ elapsed' = [p \in Procs |-> IF sweep[p] = "rest" THEN 0 ELSE elapsed[p] + 1]
    BY Zenon DEF Tick
  <1>3. Ages \subseteq Nat
    BY BoundsAssumption DEF Ages
  <1>4. ASSUME NEW n \in Temps, temps[n] # None
        PROVE  /\ temps'[n] # None /\ temps[n].age \in Nat /\ temps'[n].age \in Nat
               /\ temps'[n].age <= temps[n].age + 1
    <2>1. temps[n] \in TempFile
      BY <1>1, <1>4
    <2>2. CASE temps[n].age + 1 \notin Ages
      BY <1>2, <1>3, <1>4, <2>1, <2>2 DEF TempFile
    <2>3. CASE temps[n].age + 1 \in Ages
      <3>1. temps'[n] = [temps[n] EXCEPT !.age = @ + 1]
        BY <1>2, <1>4, <2>3
      <3>2. temps'[n] \in TempFile /\ temps'[n].age = temps[n].age + 1
        BY <2>1, <2>3, <3>1, Older
      <3>3. temps[n].age \in Nat /\ temps[n].age + 1 \in Nat
        <4>1. temps[n].age \in Nat
          BY <1>4, AgeIsNat, Zenon
        <4>2. QED
          BY <4>1
      <3>4. temps'[n] # None
        BY <3>2, NoFileAssumption, Zenon
      <3>5. QED
        BY <3>2, <3>3, <3>4
    <2>4. QED
      BY <2>2, <2>3
  <1>5. ASSUME NEW n \in Temps, temps[n] = None PROVE temps'[n] = None
    BY <1>2, <1>5
  <1>6. UNCHANGED <<pc, tmp, writing, sweep, entry>>
    BY Zenon DEF Tick, jobVars
  <1>7. \A p \in Procs : sweep[p] # "rest" => elapsed'[p] = elapsed[p] + 1
    BY <1>2
  <1>8. QED
    BY <1>4, <1>5, <1>6, <1>7, Zenon

Track(u) ==
    /\ pc[u] = "track" /\ temps[tmp[u]] # None => temps[tmp[u]].age < MaxAge
    /\ pc[u] \in {"copy", "rename"} => tmp[u] \in writing[ProcOf[u]]

\* A file is tracked, or young, from its creation to its upload's last step.
LEMMA TrackStep == TypeOK /\ JobInv /\ NamesInv /\ TrackInv /\ [Next]_vars => TrackInv'
  <1> SUFFICES ASSUME TypeOK, JobInv, NamesInv, TrackInv, [Next]_vars, NEW v \in Uploads PROVE Track(v)'
    BY Zenon DEF TrackInv, Track
  <1>1. Track(v) /\ (pc[v] \in Live => tmp[v] \in Temps) /\ NamesInv'
    BY NamesStep, Zenon DEF TrackInv, Track, JobInv, Job
  <1>2. ASSUME Untouched(v) PROVE Track(v)'
    BY <1>1, <1>2 DEF Untouched, SameJob, Track, Live
  <1>3. ASSUME pc'[v] \notin Live PROVE Track(v)'
    BY <1>3, Zenon DEF Track, Live
  <1>4. CASE Creates(v)
    BY <1>4, BoundsAssumption, SMTT(30) DEF Creates, Track
  <1>5. CASE GoesOn(v)
    BY <1>1, <1>5, BoundsAssumption DEF GoesOn, Track, Live
  <1>6. ASSUME NEW u \in Uploads, AlreadyStored(u) \/ BeginPut(u) \/ Put(u) PROVE Track(v)'
    BY <1>1, <1>2, <1>3, <1>4, <1>5, <1>6, UploadMoves, ZenonT(30)
  <1>7. ASSUME NEW p \in Procs, sweepTempFiles(p) \/ SweepFails(p) PROVE Track(v)'
    <2>1. UNCHANGED <<pc, tmp, writing>> /\ \A n \in Temps : temps'[n] = temps[n] \/ temps'[n] = None
      BY <1>7, SweepMoves, Zenon
    <2>2. QED
      BY <1>1, <2>1 DEF Track, Live
  <1>8. CASE Tick
    <2>1. UNCHANGED <<pc, tmp, writing>>
      BY <1>8, TickAges, Zenon
    <2>2. ASSUME pc[v] = "track", temps'[tmp[v]] # None PROVE temps'[tmp[v]].age < MaxAge
      <3>1. tmp[v] \in Temps /\ temps[tmp[v]] # None
        BY <1>1, <1>8, <2>2, TickAges DEF Live
      <3>2. temps[tmp[v]].age < MaxAge - 1
        BY <1>8, <2>2, <3>1 DEF Tick, Live
      <3>3. /\ temps[tmp[v]].age \in Nat /\ temps'[tmp[v]].age \in Nat
            /\ temps'[tmp[v]].age <= temps[tmp[v]].age + 1
        BY <1>8, <3>1, TickAges, Zenon
      <3>4. QED
        BY <3>2, <3>3, BoundsAssumption
    <2>3. QED
      BY <1>1, <2>1, <2>2, Zenon DEF Track
  <1>9. CASE WriteBack \/ UNCHANGED vars
    BY <1>2, <1>9, Zenon DEF WriteBack, vars, jobVars, diskVars, Untouched, SameJob
  <1>10. CASE PowerLoss \/ \E p \in Procs : Crash(p)
    <2>1. PICK D : (PowerLoss /\ D = Procs) \/ \E p \in Procs : Crash(p) /\ D = {p}
      BY <1>10, Zenon
    <2>2. CASE ProcOf[v] \in D
      BY <1>3, <2>1, <2>2, RestartMoves DEF Live
    <2>3. QED
      BY <1>2, <2>1, <2>2, RestartMoves, Zenon
  <1>11. QED
    BY <1>6, <1>7, <1>8, <1>9, <1>10, ZenonT(30) DEF Next

\* A sweep that is at an entry has one.
LEMMA EntryStep ==
  ASSUME TypeOK, JobInv, NamesInv, SpareInv, [Next]_vars, NEW p \in Procs, sweep'[p] \in {"info", "unlink"}
  PROVE  entry'[p] \in Temps
  <1> DEFINE Still == sweep'[p] = sweep[p] /\ entry'[p] = entry[p]
  <1>1. ASSUME Still PROVE entry'[p] \in Temps
    BY <1>1, Zenon DEF SpareInv
  <1>2. ASSUME NEW u \in Uploads, AlreadyStored(u) \/ BeginPut(u) \/ Put(u) PROVE Still
    <2>1. UNCHANGED sweepVars
      BY <1>2, NamesStep, UploadMoves, Zenon
    <2>2. QED
      BY <2>1, Zenon DEF sweepVars
  <1>3. ASSUME NEW q \in Procs, sweepTempFiles(q) \/ SweepFails(q) PROVE entry'[p] \in Temps
    <2>1. CASE q # p
      BY <1>1, <1>3, <2>1, SweepMoves, Zenon
    <2>2. CASE q = p /\ Visits(p)
      BY <2>2, Zenon DEF Visits
    <2>3. CASE q = p /\ Condemns(p)
      BY <2>3 DEF Condemns, SpareInv
    <2>4. ~(sweep'[p] \in {"rest", "walk"})
      OBVIOUS
    <2>5. QED
      BY <1>3, <2>1, <2>2, <2>3, <2>4, SweepMoves, Zenon
  <1>4. ASSUME Tick \/ WriteBack \/ UNCHANGED vars PROVE Still
    BY <1>4, Zenon DEF Tick, WriteBack, vars, sweepVars
  <1>5. CASE PowerLoss \/ \E q \in Procs : Crash(q)
    <2>1. PICK D : (PowerLoss /\ D = Procs) \/ \E q \in Procs : Crash(q) /\ D = {q}
      BY <1>5, Zenon
    <2>2. CASE p \in D
      BY <2>1, <2>2, RestartMoves, SMTT(30)
    <2>3. QED
      BY <1>1, <2>1, <2>2, RestartMoves, Zenon
  <1>6. QED
    BY <1>1, <1>2, <1>3, <1>4, <1>5, ZenonT(30) DEF Next

\* A sweep spares the uploads of its own process at each of its steps.
LEMMA SpareStep == TypeOK /\ JobInv /\ NamesInv /\ TrackInv /\ SpareInv /\ [Next]_vars => SpareInv'
  <1> SUFFICES ASSUME TypeOK, JobInv, NamesInv, TrackInv, SpareInv, [Next]_vars,
                      NEW p \in Procs, NEW v \in Uploads
               PROVE  Spared(p, v)'
    BY EntryStep DEF SpareInv
  <1> DEFINE Still == sweep'[p] = sweep[p] /\ entry'[p] = entry[p] /\ elapsed'[p] = elapsed[p]
  <1>1. /\ Spared(p, v) /\ NamesInv'
        /\ sweep[p] \in {"info", "unlink"} => entry[p] \in Temps
        /\ pc[v] \in Live => tmp[v] \in Temps
        /\ pc[v] \in {"copy", "rename"} => tmp[v] \in writing[ProcOf[v]]
    BY NamesStep, ZenonT(30) DEF SpareInv, JobInv, Job, TrackInv
  <1>2. sweep \in [Procs -> {"rest", "walk", "info", "unlink"}] /\ elapsed[p] \in Nat
    BY Zenon DEF TypeOK
  <1>3. ASSUME Still, Untouched(v) PROVE Spared(p, v)'
    BY <1>1, <1>3 DEF Spared, Untouched, SameJob, Live
  <1>4. ASSUME Still, pc'[v] \notin Live PROVE Spared(p, v)'
    BY <1>1, <1>4, Zenon DEF Spared
  <1>5. ASSUME Still, Creates(v) PROVE Spared(p, v)'
    BY <1>1, <1>5, Zenon DEF Spared, Creates
  <1>6. ASSUME Still, GoesOn(v) PROVE Spared(p, v)'
    <2>1. ASSUME ProcOf[v] = p, tmp[v] = entry[p], sweep[p] = "info", temps'[entry[p]] # None
          PROVE  temps'[entry[p]].age < MaxAge + elapsed[p]
      <3>1. /\ pc[v] \in Live /\ temps[tmp[v]] # None
            /\ temps'[tmp[v]].age = 0 \/ temps'[tmp[v]].age = temps[tmp[v]].age
        BY <1>6, <2>1, Zenon DEF GoesOn
      <3>2. temps[entry[p]].age < MaxAge + elapsed[p]
        BY <1>1, <2>1, <3>1, Zenon DEF Spared
      <3>3. 0 < MaxAge + elapsed[p]
        BY <1>2, BoundsAssumption
      <3>4. QED
        BY <2>1, <3>1, <3>2, <3>3, Zenon
    <2>2. QED
      BY <1>1, <1>6, <2>1, Zenon DEF Spared, GoesOn
  <1>7. ASSUME NEW u \in Uploads, AlreadyStored(u) \/ BeginPut(u) \/ Put(u)
        PROVE  Spared(p, v)'
    <2>1. UNCHANGED sweepVars
      BY <1>1, <1>7, UploadMoves, Zenon
    <2>2. Still
      BY <2>1, Zenon DEF sweepVars
    <2>3. QED
      BY <1>1, <1>3, <1>4, <1>5, <1>6, <1>7, <2>2, UploadMoves, ZenonT(30)
  <1>8. ASSUME NEW q \in Procs, sweepTempFiles(q) \/ SweepFails(q) PROVE Spared(p, v)'
    <2>1. UNCHANGED <<pc, tmp, writing>> /\ \A n \in Temps : temps'[n] = temps[n] \/ temps'[n] = None
      BY <1>8, SweepMoves, Zenon
    <2>2. ASSUME Still PROVE Spared(p, v)'
      BY <1>1, <2>1, <2>2 DEF Spared
    <2>3. ASSUME sweep'[p] \in {"rest", "walk"} PROVE Spared(p, v)'
      BY <2>3, SMTT(30) DEF Spared
    <2>4. ASSUME q = p, Visits(p) PROVE Spared(p, v)'
      <3>1. ASSUME pc[v] \in Live, ProcOf[v] = p, tmp[v] = entry'[p], temps'[entry'[p]] # None
            PROVE  temps'[entry'[p]].age < MaxAge + elapsed'[p]
        <4>1. pc[v] = "track" /\ entry'[p] \in Temps /\ elapsed'[p] = elapsed[p]
          BY <1>1, <2>4, <3>1 DEF Visits, Live
        <4>2. temps'[tmp[v]] = temps[tmp[v]] /\ temps[tmp[v]] # None
          BY <2>1, <3>1, <4>1, Zenon
        <4>3. temps[tmp[v]].age < MaxAge /\ temps[tmp[v]].age \in Nat
          BY <3>1, <4>1, <4>2, AgeIsNat, Zenon DEF TrackInv
        <4>4. QED
          BY <1>2, <3>1, <4>1, <4>2, <4>3, BoundsAssumption, SMTT(30)
      <3>2. QED
        BY <2>1, <2>4, <3>1 DEF Spared, Visits
    <2>5. ASSUME q = p, Condemns(p) PROVE Spared(p, v)'
      <3>1. /\ sweep[p] = "info" /\ entry'[p] = entry[p] /\ entry[p] \in Temps
            /\ temps[entry[p]] # None /\ temps[entry[p]].age >= MaxAge + elapsed[p]
        BY <1>1, <2>5 DEF Condemns
      <3>2. temps[entry[p]].age \in Nat
        BY <3>1, AgeIsNat, Zenon
      <3>3. ~(pc[v] \in Live /\ ProcOf[v] = p /\ tmp[v] = entry[p])
        BY <1>1, <1>2, <3>1, <3>2, BoundsAssumption DEF Spared
      <3>4. QED
        BY <2>1, <3>1, <3>3, Zenon DEF Spared
    <2>6. QED
      BY <1>8, <2>2, <2>3, <2>4, <2>5, SweepMoves, ZenonT(30)
  <1>9. CASE Tick
    <2>1. UNCHANGED <<pc, tmp, writing, sweep, entry>>
      BY <1>9, TickAges, Zenon
    <2>2. ASSUME pc[v] \in Live, ProcOf[v] = p, tmp[v] = entry[p], sweep[p] = "info", temps'[entry[p]] # None
          PROVE  temps'[entry[p]].age < MaxAge + elapsed'[p]
      <3>1. entry[p] \in Temps /\ temps[entry[p]] # None
        BY <1>1, <1>9, <2>2, TickAges
      <3>2. temps[entry[p]].age < MaxAge + elapsed[p]
        BY <1>1, <2>2, <3>1, Zenon DEF Spared
      <3>3. /\ temps[entry[p]].age \in Nat /\ temps'[entry[p]].age \in Nat
            /\ temps'[entry[p]].age <= temps[entry[p]].age + 1
        BY <1>9, <3>1, TickAges, Zenon
      <3>4. elapsed'[p] = elapsed[p] + 1
        BY <1>9, <2>2, TickAges
      <3>5. QED
        BY <1>2, <3>2, <3>3, <3>4, BoundsAssumption, SMTT(30)
    <2>3. QED
      BY <1>1, <2>1, <2>2, Zenon DEF Spared
  <1>10. CASE WriteBack \/ UNCHANGED vars
    BY <1>3, <1>10, Zenon DEF WriteBack, vars, jobVars, diskVars, sweepVars, Untouched, SameJob
  <1>11. CASE PowerLoss \/ \E q \in Procs : Crash(q)
    <2>1. PICK D : (PowerLoss /\ D = Procs) \/ \E q \in Procs : Crash(q) /\ D = {q}
      BY <1>11, Zenon
    <2>2. CASE p \in D
      BY <2>1, <2>2, RestartMoves, ZenonT(30) DEF Spared
    <2>3. CASE p \notin D /\ ProcOf[v] = p
      BY <1>3, <2>1, <2>3, RestartMoves, Zenon
    <2>4. CASE p \notin D /\ ProcOf[v] # p
      BY <1>1, <2>1, <2>4, RestartMoves, Zenon DEF Spared
    <2>5. QED
      BY <2>2, <2>3, <2>4
  <1>12. QED
    BY <1>7, <1>8, <1>9, <1>10, <1>11, ZenonT(30) DEF Next

LiveKept(u) ==
    pc[u] \in Live =>
        /\ temps[tmp[u]] # None
        /\ temps[tmp[u]].age < MaxAge
        /\ \A p \in Procs : sweep[p] = "unlink" => entry[p] # tmp[u]

\* With a short idle timeout no sweep comes to remove a live upload's file.
LEMMA LiveStep ==
  ASSUME MaxStall < MaxAge
  PROVE  TypeOK /\ JobInv /\ NamesInv /\ LiveInv /\ [Next]_vars => LiveInv'
  <1> SUFFICES ASSUME TypeOK, JobInv, NamesInv, LiveInv, [Next]_vars, NEW v \in Uploads PROVE LiveKept(v)'
    BY Zenon DEF LiveInv, LiveKept
  <1> DEFINE Still == \A p \in Procs : sweep'[p] = "unlink" => sweep[p] = "unlink" /\ entry'[p] = entry[p]
  <1>1. LiveKept(v) /\ NamesInv' /\ (pc[v] \in Live => tmp[v] \in Temps)
    BY NamesStep, Zenon DEF LiveInv, LiveKept, JobInv, Job
  <1>2. ASSUME pc'[v] \notin Live PROVE LiveKept(v)'
    BY <1>2, Zenon DEF LiveKept
  <1>3. ASSUME Still, Untouched(v) PROVE LiveKept(v)'
    BY <1>1, <1>3, ZenonT(30) DEF LiveKept, Untouched, SameJob
  <1>4. ASSUME UNCHANGED sweepVars, Creates(v) PROVE LiveKept(v)'
    BY <1>4, BoundsAssumption, SMTT(30) DEF LiveKept, Creates, sweepVars
  <1>5. ASSUME UNCHANGED sweepVars, GoesOn(v) PROVE LiveKept(v)'
    BY <1>1, <1>5, BoundsAssumption DEF LiveKept, GoesOn, sweepVars
  <1>6. ASSUME NEW u \in Uploads, AlreadyStored(u) \/ BeginPut(u) \/ Put(u) PROVE LiveKept(v)'
    <2>1. UNCHANGED sweepVars
      BY <1>1, <1>6, UploadMoves, Zenon
    <2>2. Still
      BY <2>1, Zenon DEF sweepVars
    <2>3. QED
      BY <1>1, <1>2, <1>3, <1>4, <1>5, <1>6, <2>1, <2>2, UploadMoves, ZenonT(30)
  <1>7. ASSUME NEW p \in Procs, sweepTempFiles(p) \/ SweepFails(p), pc[v] \in Live PROVE LiveKept(v)'
    <2>1. UNCHANGED <<pc, tmp>>
      BY <1>7, SweepMoves, Zenon
    <2>2. tmp[v] \in Temps /\ temps[tmp[v]] # None /\ temps[tmp[v]].age < MaxAge
      BY <1>1, <1>7, Zenon DEF LiveKept
    <2>3. temps'[tmp[v]] = temps[tmp[v]]
      BY <1>1, <1>7, <2>2, SweepMoves, Zenon DEF LiveKept
    <2>4. ASSUME Condemns(p) PROVE entry[p] # tmp[v]
      <3>1. temps[tmp[v]].age \in Nat
        BY <2>2, AgeIsNat, Zenon
      <3>2. elapsed[p] \in Nat
        BY Zenon DEF TypeOK
      <3>3. QED
        BY <2>2, <2>4, <3>1, <3>2, BoundsAssumption DEF Condemns
    <2>5. ASSUME NEW q \in Procs, sweep'[q] = "unlink" PROVE entry'[q] # tmp[v]
      <3>1. CASE q # p
        <4>1. sweep'[q] = sweep[q] /\ entry'[q] = entry[q]
          BY <1>7, <3>1, SweepMoves
        <4>2. QED
          BY <1>1, <1>7, <2>5, <4>1 DEF LiveKept
      <3>2. CASE q = p
        <4>1. Condemns(p)
          BY <1>7, <2>5, <3>2, SweepMoves DEF Visits
        <4>2. QED
          BY <2>4, <3>2, <4>1, Zenon DEF Condemns
      <3>3. QED
        BY <3>1, <3>2
    <2>6. QED
      BY <2>1, <2>2, <2>3, <2>5, Zenon DEF LiveKept
  <1>8. ASSUME NEW p \in Procs, sweepTempFiles(p) \/ SweepFails(p), pc[v] \notin Live PROVE LiveKept(v)'
    BY <1>2, <1>8, SweepMoves, Zenon
  <1>9. CASE Tick
    <2>1. UNCHANGED <<pc, tmp, sweep, entry>>
      BY <1>9, TickAges, Zenon
    <2>2. ASSUME pc[v] \in Live PROVE temps'[tmp[v]] # None /\ temps'[tmp[v]].age < MaxAge
      <3>1. tmp[v] \in Temps /\ temps[tmp[v]] # None
        BY <1>1, <2>2, Zenon DEF LiveKept
      <3>2. temps[tmp[v]].age < IF pc[v] = "track" THEN MaxAge - 1 ELSE MaxStall
        BY <1>9, <2>2, <3>1, Zenon DEF Tick
      <3>3. /\ temps[tmp[v]].age \in Nat /\ temps'[tmp[v]].age \in Nat /\ temps'[tmp[v]] # None
            /\ temps'[tmp[v]].age <= temps[tmp[v]].age + 1
        BY <1>9, <3>1, TickAges, Zenon
      <3>4. QED
        BY <3>2, <3>3, BoundsAssumption
    <2>3. QED
      BY <1>1, <2>1, <2>2, Zenon DEF LiveKept
  <1>10. CASE WriteBack \/ UNCHANGED vars
    BY <1>3, <1>10, ZenonT(30) DEF WriteBack, vars, jobVars, diskVars, sweepVars, Untouched, SameJob
  <1>11. CASE PowerLoss \/ \E p \in Procs : Crash(p)
    <2>1. PICK D : (PowerLoss /\ D = Procs) \/ \E p \in Procs : Crash(p) /\ D = {p}
      BY <1>11, Zenon
    <2>2. CASE ProcOf[v] \in D
      BY <1>2, <2>1, <2>2, RestartMoves DEF Live
    <2>3. Still
      BY <2>1, RestartMoves, ZenonT(30)
    <2>4. QED
      BY <1>3, <2>1, <2>2, <2>3, RestartMoves, Zenon
  <1>12. QED
    BY <1>6, <1>7, <1>8, <1>9, <1>10, <1>11, ZenonT(30) DEF Next

-----------------------------------------------------------------------------
(* The theorems *)

\* The invariants hold before the first request.
LEMMA InitIInv == Init => IInv /\ LiveInv
  <1> SUFFICES ASSUME Init PROVE IInv /\ LiveInv
    OBVIOUS
  <1>1. TypeOK
    BY DataOps DEF Init, TypeOK, Steps, Data
  <1>2. JobInv /\ NamesInv
    BY DEF Init, JobInv, Job, NamesInv, Live
  <1>3. ObjectInv /\ AckInv
    BY DEF Init, ObjectInv, Whole, AckInv, AckedStored
  <1>4. TrackInv /\ SpareInv /\ LiveInv
    BY DEF Init, TrackInv, SpareInv, Spared, LiveInv, Live
  <1>5. QED
    BY <1>1, <1>2, <1>3, <1>4, Zenon DEF IInv

\* Every step keeps the inductive invariant.
LEMMA NextIInv == IInv /\ [Next]_vars => IInv'
  BY TypeStep, JobStep, NamesStep, ObjectStep, AckStep, TrackStep, SpareStep, ZenonT(30) DEF IInv

\* The inductive invariant holds throughout.
THEOREM Safety == Spec => []IInv
  BY InitIInv, NextIInv, PTL DEF Spec

\* What is at an object's path has the object's digest, whatever uploads race,
\* whichever process crashes and whenever the power fails (Local.Put).
THEOREM Intact == Spec => []ObjectsIntact
  <1>1. IInv => ObjectsIntact
    BY DEF IInv, ObjectInv, Whole, ObjectsIntact
  <1>2. QED
    BY Safety, <1>1, PTL

\* As long as the power stays on, an object a client was told is stored is
\* there (UploadHandler's answer, after Put or after store.Exists).
THEOREM AckedWhilePowered == Spec => [](losses = 0 => AckedStored)
  <1>1. IInv => (losses = 0 => AckedStored)
    BY DEF IInv, AckInv
  <1>2. QED
    BY Safety, <1>1, PTL

\* Whatever the idle timeout, a process's sweep never removes the file of one of
\* its own uploads (trackWriting, inUse and the cutoff of RemoveStaleTempFiles).
THEOREM OwnKept == Spec => OwnTempsKept
  <1>1. IInv /\ [Next]_vars => [SweepStep]_vars
    <2> SUFFICES ASSUME IInv PROVE SweepStep
      OBVIOUS
    <2>1. ASSUME NEW p \in Procs, NEW u \in Uploads,
                 sweep[p] = "unlink", pc[u] \in Live, tmp[u] = entry[p]
          PROVE  ProcOf[u] # p
      BY <2>1, Zenon DEF IInv, SpareInv, Spared
    <2>2. QED
      BY <2>1, Zenon DEF SweepStep
  <1>2. QED
    BY Safety, <1>1, PTL DEF Spec, OwnTempsKept

\* With an idle timeout below tempFileMaxAge no sweep of any process removes
\* the file of an upload that is going on.
THEOREM LiveKeptWithShortTimeout ==
  ASSUME MaxStall < MaxAge
  PROVE  Spec => []LiveTempsKept
  <1>1. IInv /\ LiveInv /\ [Next]_vars => LiveInv'
    BY LiveStep DEF IInv
  <1>2. LiveInv => LiveTempsKept
    BY DEF LiveInv, LiveTempsKept
  <1>3. QED
    BY InitIInv, Safety, <1>1, <1>2, PTL DEF Spec
=============================================================================
