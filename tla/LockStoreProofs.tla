-------------------------- MODULE LockStoreProofs --------------------------
(***************************************************************************)
(* The theorems about LockStore, for any processes, goroutines, paths,     *)
(* users, requests and bounds.                                             *)
(*                                                                         *)
(* IInv, the inductive invariant, says part by part who holds which lock   *)
(* at which step, and what a worker knows about the file while it holds    *)
(* them: between the read and the rename nobody else changes the file, so  *)
(* the set a writer saves is the file's present set plus or minus one      *)
(* lock.  First come the parts about types, control flow, answers and      *)
(* locks, from what each step moves and changes; then those about the lock *)
(* file and the cache entries; then the theorems.                          *)
(***************************************************************************)
EXTENDS LockStore, TLAPS

InMutex == Steps \ {"idle", "mu"}

InFlock == {"stat", "read", "decide", "write", "rename", "restat", "funlock"}

\* Where a worker is determines what it is doing and which locals it has set.
Placed(w) ==
    /\ pc[w] = "idle" <=> req[w] = None
    /\ pc[w] \in {"peek", "faststat"} => IsList(w)
    /\ pc[w] \in {"decide", "write", "rename", "restat"} => ~IsList(w)
    /\ pc[w] = "faststat" => seen[w] # None
    /\ pc[w] = "read" => file # None /\ info[w] = Info(file)
    /\ pc[w] \in {"write", "rename", "restat"} => target[w] # None
    /\ pc[w] = "restat" => file # None

ControlInv == \A w \in Workers : Placed(w)

Cleaning == {"restat", "funlock", "munlock"}

\* An operation is decided exactly when all it has left to do is to clean up.
AnswerInv == \A w \in Workers : res[w] # None <=> pc[w] \in Cleaning

\* The RWMutex of each process: holders are where the code holds it, and a
\* writer excludes everybody else.
MutexInv ==
    /\ \A w \in Workers : pc[w] \in InMutex =>
          IF IsList(w) THEN w \in muR[ProcOf[w]] ELSE muW[ProcOf[w]] = w
    /\ \A p \in Procs : muW[p] # None => muR[p] = {}
    /\ \A p \in Procs : muW[p] # None =>
          pc[muW[p]] \in InMutex /\ ProcOf[muW[p]] = p /\ ~IsList(muW[p])

\* The same for flock on locks.json.lock, across the processes.
FlockInv ==
    /\ \A w \in Workers : pc[w] \in InFlock =>
          IF IsList(w) THEN w \in flS ELSE flX = w
    /\ flX # None => flS = {}
    /\ flX # None => pc[flX] \in InFlock /\ ~IsList(flX)

\* What a writer that holds the file lock knows of the file's locks.
WriterKnows(w) ==
    /\ pc[w] = "decide" => work[w] = FileLocks
    /\ pc[w] \in {"write", "rename"} /\ req[w].op = "create" =>
          /\ byPath(FileLocks, req[w].path) = {}
          /\ byID(FileLocks, target[w].id) = {}
          /\ target[w].id \in issued
          /\ target[w] = [id |-> target[w].id, path |-> req[w].path,
                          owner |-> req[w].owner]
          /\ work[w] = FileLocks \cup {target[w]}
    /\ pc[w] \in {"write", "rename"} /\ req[w].op = "unlock" =>
          /\ target[w] \in byID(FileLocks, req[w].id)
          /\ MayRelease(target[w], req[w])
          /\ work[w] = FileLocks \ {target[w]}
    /\ pc[w] = "restat" => work[w] = FileLocks

WriterInv == \A w \in Workers : WriterKnows(w)

\* Every ID in the file was issued, so a fresh one is not in the file.
IssuedInv == \A l \in FileLocks : l.id \in issued

\* A cache entry with the file's stamp has the file's bytes, when stamps do
\* not come back.
Genuine(entry) ==
    MtimeAdvances =>
        /\ entry.info.stamp <= stamp
        /\ file # None /\ entry.info.stamp = file.stamp => entry.data = FileLocks

CacheInv ==
    /\ file # None => file.stamp <= stamp
    /\ \A p \in Procs : cache[p] # None =>
          /\ Genuine(cache[p])
          /\ ~BeingChanged(p) => cache[p].set = cache[p].data
    /\ \A w \in Workers : pc[w] = "faststat" =>
          Genuine(seen[w]) /\ seen[w].set = seen[w].data

IInv ==
    /\ TypeOK
    /\ ControlInv
    /\ AnswerInv
    /\ MutexInv
    /\ FlockInv
    /\ WriterInv
    /\ IssuedInv
    /\ OneLockPerPath
    /\ CacheInv

\* A step from a state with the invariant.
IStep == IInv /\ [Next]_vars

-----------------------------------------------------------------------------
(* The types of the values the actions build. *)

\* An answer built from a known kind and a set of locks is an Answer.
LEMMA AnswerType ==
  ASSUME NEW k \in AnswerKinds, NEW S \in SUBSET Lock
  PROVE  Answers(k, S) \in Answer
  BY DEF Answers, Answer

\* Such an answer is never mistaken for the absence of one.
LEMMA AnswerNotNone ==
  ASSUME NEW k \in AnswerKinds, NEW S \in SUBSET Lock
  PROVE  Answers(k, S) # None
  BY AnswerType, NoAnswerAssumption

\* The metadata of a file version.
LEMMA InfoType ==
  ASSUME NEW f \in Version
  PROVE  Info(f) \in FileInfo
  BY DEF Info, FileInfo, Version

\* A cache entry built from two sets of locks and metadata.
LEMMA EntryType ==
  ASSUME NEW S \in SUBSET Lock, NEW D \in SUBSET Lock, NEW i \in FileInfo
  PROVE  [set |-> S, data |-> D, info |-> i] \in CacheEntry
  BY DEF CacheEntry

\* The fields of a cache entry.
LEMMA EntryFields ==
  ASSUME NEW c \in CacheEntry
  PROVE  /\ c.set \in SUBSET Lock
         /\ c.data \in SUBSET Lock
         /\ c.info \in FileInfo
  BY DEF CacheEntry

\* Replacing the set of a cache entry leaves its other fields alone.
LEMMA EntrySetUpdate ==
  ASSUME NEW c \in CacheEntry, NEW S \in SUBSET Lock
  PROVE  /\ [c EXCEPT !.set = S] \in CacheEntry
         /\ [c EXCEPT !.set = S].set = S
         /\ [c EXCEPT !.set = S].data = c.data
         /\ [c EXCEPT !.set = S].info = c.info
  BY DEF CacheEntry

\* Replacing the metadata of a cache entry leaves its other fields alone.
LEMMA EntryInfoUpdate ==
  ASSUME NEW c \in CacheEntry, NEW i \in FileInfo
  PROVE  /\ [c EXCEPT !.info = i] \in CacheEntry
         /\ [c EXCEPT !.info = i].set = c.set
         /\ [c EXCEPT !.info = i].data = c.data
         /\ [c EXCEPT !.info = i].info = i
  BY DEF CacheEntry

\* The locks of the file, present or not.
LEMMA FileLocksType ==
  ASSUME TypeOK
  PROVE  FileLocks \in SUBSET Lock
  BY DEF TypeOK, FileLocks, Version

\* A set changed in place keeps the cache well-typed.
LEMMA MutateType ==
  ASSUME TypeOK, NEW w \in Workers, NEW S \in SUBSET Lock, NEW l, Mutate(w, S, l)
  PROVE  cache' \in [Procs -> CacheEntry \cup {None}]
  <1>1. ASSUME NEW c \in CacheEntry PROVE [c EXCEPT !.set = S] \in CacheEntry
    BY <1>1, EntrySetUpdate
  <1>2. QED
    BY <1>1, ProcsAssumption, ZenonT(30) DEF TypeOK, Mutate

\* The initial state satisfies every part of the invariant.
LEMMA InitIInv == Init => IInv
  BY NoneAssumption, ProcsAssumption
  DEF Init, IInv, TypeOK, ControlInv, Placed, Cleaning, MutexInv, FlockInv, WriterInv, IssuedInv,
      OneLockPerPath, CacheInv, AnswerInv, WriterKnows, Genuine, FileLocks, Steps, InMutex, InFlock, BeingChanged

\* The lock Create adds is a lock under a fresh ID.
LEMMA LockAdded ==
  ASSUME TypeOK, ControlInv, NEW w \in Workers, CreateAdds(w)
  PROVE  \E i \in Ids \ issued :
            LET l == [id |-> i, path |-> req[w].path, owner |-> req[w].owner]
            IN  /\ l \in Lock
                /\ Mutate(w, work[w] \cup {l}, l)
                /\ issued' = issued \cup {i}
  <1>1. req[w] \in CreateRequest
    BY RequestsAssumption, NoneAssumption
    DEF CreateAdds, Goto, TypeOK, ControlInv, Placed, AllRequests, CreateRequest, UnlockRequest, ListRequest
  <1>2. \A i \in Ids : [id |-> i, path |-> req[w].path, owner |-> req[w].owner] \in Lock
    BY <1>1 DEF CreateRequest, Lock
  <1>3. QED
    BY <1>2, ZenonT(30) DEF CreateAdds

\* The lock Unlock removes is one the worker found by its ID and may release.
LEMMA LockRemoved ==
  ASSUME TypeOK, NEW w \in Workers, UnlockRemoves(w)
  PROVE  \E l \in byID(work[w], req[w].id) :
            /\ l \in Lock
            /\ MayRelease(l, req[w])
            /\ Mutate(w, work[w] \ {l}, l)
  BY ZenonT(30) DEF UnlockRemoves, TypeOK, byID

\* Both set the worker's target to a lock.
LEMMA NewTarget ==
  ASSUME TypeOK, ControlInv, NEW w \in Workers, CreateAdds(w) \/ UnlockRemoves(w)
  PROVE  \E l \in Lock : target' = [target EXCEPT ![w] = l]
  <1>1. CASE CreateAdds(w)
    BY <1>1, LockAdded, ZenonT(30) DEF Mutate
  <1>2. CASE UnlockRemoves(w)
    BY <1>2, LockRemoved, ZenonT(30) DEF Mutate
  <1>3. QED
    BY <1>1, <1>2


-----------------------------------------------------------------------------
(* What the steps of a worker change. *)

\* Every step of a worker, unfolded down to its assignments.
LEMMA Changes ==
  ASSUME NEW w \in Workers, Begin(w) \/ Step(w)
  PROVE  /\ req' = req \/ Begin(w) \/ ReleaseMutex(w)
         /\ seen' = seen \/ PeekCache(w) \/ ReleaseMutex(w)
         /\ info' = info \/ StatFile(w) \/ ReleaseMutex(w)
         /\ target' = target \/ CreateAdds(w) \/ UnlockRemoves(w) \/ ReleaseMutex(w)
         /\ UNCHANGED <<muW, muR>> \/ LockMutex(w) \/ RLockMutex(w) \/ ReleaseMutex(w)
         /\ UNCHANGED <<flX, flS>> \/ FlockExclusive(w) \/ FlockShared(w) \/ ReleaseFlock(w)
         /\ UNCHANGED diskVars \/ Rename(w)
         /\ issued' = issued \/ CreateAdds(w)
         /\ crashes' = crashes /\ (ops' = ops \/ Begin(w))
  BY ZenonT(30)
  DEF Step, memVars, lockVars, diskVars, countVars, Begin, LockMutex, RLockMutex, PeekCache,
      FastStatHit, FastStatMiss, FlockExclusive, FlockShared, FlockFails, StatMissing, StatFile,
      ReadUnchanged, ReadChanged, ReadFails, CreateExists, CreateAdds, UnlockRefused,
      UnlockRemoves, WriteTemp, SaveFails, Rename, Restat, ReleaseFlock, ReleaseMutex

\* Only readLocks, a change in place and the end of a request touch a worker's
\* set, and only they, a failed save and the stat after one a cache.
LEMMA SetChanges ==
  ASSUME NEW w \in Workers, Begin(w) \/ Step(w)
  PROVE  \/ work' = work /\ cache' = cache
         \/ StatMissing(w) \/ ReadUnchanged(w) \/ ReadChanged(w)
         \/ CreateAdds(w) \/ UnlockRemoves(w) \/ SaveFails(w) \/ Restat(w) \/ ReleaseMutex(w)
  BY ZenonT(30)
  DEF Step, memVars, Begin, LockMutex, RLockMutex, PeekCache, FastStatHit, FastStatMiss,
      FlockExclusive, FlockShared, FlockFails, StatFile, ReadFails, CreateExists,
      UnlockRefused, WriteTemp, Rename, ReleaseFlock

\* Which steps hold the mutex, which the file lock, and which only clean up.
LEMMA StepKinds ==
  /\ "idle" \in Steps /\ "mu" \in Steps
  /\ \A s \in {"peek", "faststat", "flock", "stat", "read", "decide", "write", "rename",
               "restat", "funlock", "munlock"} : s \in InMutex /\ s \in Steps
  /\ \A s \in {"stat", "read", "decide", "write", "rename", "restat", "funlock"} : s \in InFlock
  /\ \A s \in {"idle", "mu", "peek", "faststat", "flock", "munlock"} : s \notin InFlock
  /\ \A s \in {"restat", "funlock", "munlock"} : s \in Cleaning
  /\ \A s \in {"idle", "mu", "peek", "faststat", "flock", "stat", "read", "decide", "write",
               "rename"} : s \notin Cleaning
  BY DEF InMutex, InFlock, Cleaning, Steps

\* A step moves only its worker, into and out of the locks only where it takes
\* and releases them, and to the cleaning up only with an answer.
LEMMA Moves ==
  ASSUME NEW w \in Workers, Begin(w) \/ Step(w)
  PROVE  \E x \in Steps :
            /\ pc' = [pc EXCEPT ![w] = x]
            /\ \/ pc[w] \in InMutex /\ x \in InMutex
               \/ Begin(w) \/ LockMutex(w) \/ RLockMutex(w) \/ ReleaseMutex(w)
            /\ \/ pc[w] \in InFlock <=> x \in InFlock
               \/ FlockExclusive(w) \/ FlockShared(w) \/ ReleaseFlock(w)
            /\ \/ res' = res /\ (pc[w] \in Cleaning <=> x \in Cleaning)
               \/ x \in Cleaning
                  /\ \/ FastStatHit(w) \/ FlockFails(w) \/ ReadFails(w) \/ SaveFails(w)
                     \/ CreateExists(w) \/ UnlockRefused(w) \/ Rename(w)
                     \/ IsList(w) /\ (StatMissing(w) \/ ReadUnchanged(w) \/ ReadChanged(w))
               \/ ReleaseMutex(w)
  BY StepKinds, ZenonT(60)
  DEF Step, Goto, HaveSet, Begin, LockMutex, RLockMutex, PeekCache,
      FastStatHit, FastStatMiss, FlockExclusive, FlockShared, FlockFails, StatMissing, StatFile,
      ReadUnchanged, ReadChanged, ReadFails, CreateExists, CreateAdds, UnlockRefused,
      UnlockRemoves, WriteTemp, SaveFails, Rename, Restat, ReleaseFlock, ReleaseMutex

\* The steps at which a worker's set is the file's, or is about to be.
Saving == {"write", "rename", "restat"}
Knowing == Saving \cup {"decide"}

\* A worker comes to know the file's locks, looks at the fast path, and stops
\* saving only by the steps that do so.
LEMMA MovesOnFile ==
  ASSUME NEW w \in Workers, Begin(w) \/ Step(w)
  PROVE  \E x \in Steps :
            /\ pc' = [pc EXCEPT ![w] = x]
            /\ \/ x \notin Knowing
               \/ StatMissing(w) \/ ReadUnchanged(w) \/ ReadChanged(w)
               \/ CreateAdds(w) \/ UnlockRemoves(w) \/ WriteTemp(w) \/ Rename(w)
            /\ x # "faststat" \/ PeekCache(w)
            /\ pc[w] \notin Saving \/ x \in Saving \/ SaveFails(w) \/ Restat(w)
  <1>1. /\ \A s \in {"idle", "mu", "peek", "faststat", "flock", "stat", "read", "funlock", "munlock"} :
              s \notin Knowing /\ s \notin Saving
        /\ \A s \in {"write", "rename", "restat"} : s \in Saving
        /\ \A s \in {"idle", "mu", "peek", "flock", "stat", "read", "decide", "write", "rename",
                     "restat", "funlock", "munlock"} : s # "faststat"
        /\ "decide" \notin Saving
    BY DEF Knowing, Saving
  <1>2. QED
    BY <1>1, StepKinds, ZenonT(60)
    DEF Step, Goto, HaveSet, Begin, LockMutex, RLockMutex, PeekCache,
        FastStatHit, FastStatMiss, FlockExclusive, FlockShared, FlockFails, StatMissing, StatFile,
        ReadUnchanged, ReadChanged, ReadFails, CreateExists, CreateAdds, UnlockRefused,
        UnlockRemoves, WriteTemp, SaveFails, Rename, Restat, ReleaseFlock, ReleaseMutex

\* A worker's answer is one of the kinds with some locks.
LEMMA Answered ==
  ASSUME TypeOK, ControlInv, NEW w \in Workers,
         \/ FastStatHit(w) \/ FlockFails(w) \/ ReadFails(w) \/ SaveFails(w)
         \/ CreateExists(w) \/ UnlockRefused(w) \/ Rename(w)
         \/ IsList(w) /\ (StatMissing(w) \/ ReadUnchanged(w) \/ ReadChanged(w))
  PROVE  \E k \in AnswerKinds, S \in SUBSET Lock : Decided(w, Answers(k, S))
  <1>1. /\ {"created", "exists", "removed", "notfound", "notowner", "listed", "error"} \subseteq AnswerKinds
        /\ {} \in SUBSET Lock /\ work[w] \in SUBSET Lock /\ FileLocks \in SUBSET Lock
    BY FileLocksType DEF AnswerKinds, TypeOK
  <1>2. CASE FlockFails(w) \/ ReadFails(w) \/ SaveFails(w) \/ UnlockRefused(w)
    BY <1>1, <1>2, Zenon DEF FlockFails, ReadFails, SaveFails, UnlockRefused, Failed
  <1>3. CASE FastStatHit(w)
    <2>1. seen[w] \in CacheEntry
      BY <1>3 DEF FastStatHit, Goto, TypeOK, ControlInv, Placed
    <2>2. QED
      BY <1>1, <1>3, <2>1, EntryFields, Zenon DEF FastStatHit
  <1>4. CASE CreateExists(w)
    <2>1. byPath(work[w], req[w].path) \in SUBSET Lock
      BY <1>1 DEF byPath
    <2>2. QED
      BY <1>1, <1>4, <2>1, Zenon DEF CreateExists
  <1>5. CASE Rename(w)
    <2>1. {target[w]} \in SUBSET Lock
      BY <1>5 DEF Rename, Goto, TypeOK, ControlInv, Placed
    <2>2. (IF req[w].op = "create" THEN "created" ELSE "removed") \in AnswerKinds
      BY <1>1
    <2>3. QED
      BY <1>5, <2>1, <2>2, Zenon DEF Rename
  <1>6. CASE IsList(w) /\ (StatMissing(w) \/ ReadChanged(w))
    BY <1>1, <1>6, Zenon DEF StatMissing, ReadChanged, HaveSet
  <1>7. CASE IsList(w) /\ ReadUnchanged(w)
    <2>1. cache[ProcOf[w]] \in CacheEntry
      BY <1>7, ProcsAssumption DEF ReadUnchanged, TypeOK
    <2>2. QED
      BY <1>1, <1>7, <2>1, EntryFields, Zenon DEF ReadUnchanged, HaveSet
  <1>8. QED
    BY <1>2, <1>3, <1>4, <1>5, <1>6, <1>7, Zenon

\* A crash resets the workers of one process.
LEMMA CrashResets ==
  ASSUME NEW p \in Procs, Crash(p), NEW v \in Workers
  PROVE  IF ProcOf[v] = p
         THEN pc'[v] = "idle" /\ req'[v] = None /\ res'[v] = None
         ELSE /\ pc'[v] = pc[v] /\ req'[v] = req[v] /\ res'[v] = res[v]
              /\ seen'[v] = seen[v] /\ info'[v] = info[v] /\ target'[v] = target[v]
  BY DEF Crash

\* An answer is given with the step that leads to the cleanup.
LEMMA AnswerStep == IStep => AnswerInv'
  <1> SUFFICES ASSUME TypeOK, ControlInv, AnswerInv, [Next]_vars
               PROVE  AnswerInv'
    BY Zenon DEF IStep, IInv
  <1> pc \in [Workers -> Steps] /\ res \in [Workers -> Answer \cup {None}]
    BY Zenon DEF TypeOK
  <1>1. ASSUME NEW w \in Workers, Begin(w) \/ Step(w) PROVE AnswerInv'
    <2>1. PICK x \in Steps :
             /\ pc' = [pc EXCEPT ![w] = x]
             /\ \/ res' = res /\ (pc[w] \in Cleaning <=> x \in Cleaning)
                \/ x \in Cleaning /\ \E k \in AnswerKinds, S \in SUBSET Lock : Decided(w, Answers(k, S))
                \/ ReleaseMutex(w)
      BY <1>1, Moves, Answered, Zenon
    <2>2. CASE res' = res /\ (pc[w] \in Cleaning <=> x \in Cleaning)
      BY <2>1, <2>2 DEF AnswerInv
    <2>3. ASSUME x \in Cleaning, NEW k \in AnswerKinds, NEW S \in SUBSET Lock, Decided(w, Answers(k, S))
          PROVE  AnswerInv'
      BY <2>1, <2>3, AnswerNotNone DEF AnswerInv, Decided
    <2>4. CASE ReleaseMutex(w)
      BY <2>4 DEF AnswerInv, ReleaseMutex, Goto, Cleaning
    <2>5. QED
      BY <2>1, <2>2, <2>3, <2>4, Zenon
  <1>2. ASSUME NEW p \in Procs, Crash(p) PROVE AnswerInv'
    BY <1>2, CrashResets DEF AnswerInv, Cleaning
  <1>3. CASE UNCHANGED vars
    BY <1>3, Zenon DEF vars, AnswerInv
  <1>4. QED
    BY <1>1, <1>2, <1>3, Zenon DEF Next

\* The mutex is taken and released as MutexInv says.
LEMMA MutexStep == IStep => MutexInv'
  <1> SUFFICES ASSUME TypeOK, ControlInv, MutexInv, [Next]_vars
               PROVE  MutexInv'
    BY Zenon DEF IStep, IInv
  <1> /\ pc \in [Workers -> Steps] /\ req \in [Workers -> Requests \cup {None}]
      /\ muW \in [Procs -> Workers \cup {None}] /\ muR \in [Procs -> SUBSET Workers]
      /\ None \notin Workers /\ ProcOf \in [Workers -> Procs]
    BY NoneAssumption, ProcsAssumption, Zenon DEF TypeOK
  <1>1. ASSUME NEW w \in Workers, UNCHANGED <<muW, muR, req>>, pc[w] \in InMutex,
               NEW x \in InMutex, pc' = [pc EXCEPT ![w] = x]
        PROVE  MutexInv'
    BY <1>1 DEF MutexInv, IsList
  <1>2. ASSUME NEW w \in Workers, Begin(w) PROVE MutexInv'
    BY <1>2 DEF Begin, Goto, lockVars, MutexInv, InMutex, IsList
  <1>3. ASSUME NEW w \in Workers, LockMutex(w) PROVE MutexInv'
    BY <1>3 DEF LockMutex, Goto, MutexInv, InMutex, Steps, IsList
  <1>4. ASSUME NEW w \in Workers, RLockMutex(w) PROVE MutexInv'
    BY <1>4 DEF RLockMutex, Goto, MutexInv, InMutex, Steps, IsList
  <1>5. ASSUME NEW w \in Workers, ReleaseMutex(w) PROVE MutexInv'
    BY <1>5 DEF ReleaseMutex, Goto, MutexInv, InMutex, Steps, IsList
  <1>6. ASSUME NEW p \in Procs, Crash(p) PROVE MutexInv'
    BY <1>6, CrashResets DEF Crash, MutexInv, InMutex, IsList
  <1>7. CASE UNCHANGED vars
    BY <1>7, Zenon DEF vars, lockVars, MutexInv, IsList
  <1>8. QED
    BY <1>1, <1>2, <1>3, <1>4, <1>5, <1>6, <1>7, Moves, Changes, Zenon DEF Next

\* The file lock is taken and released as FlockInv says.
LEMMA FlockStep == IStep => FlockInv'
  <1> SUFFICES ASSUME TypeOK, ControlInv, FlockInv, [Next]_vars
               PROVE  FlockInv'
    BY Zenon DEF IStep, IInv
  <1> /\ pc \in [Workers -> Steps] /\ req \in [Workers -> Requests \cup {None}]
      /\ flX \in Workers \cup {None} /\ flS \in SUBSET Workers /\ None \notin Workers
    BY NoneAssumption, Zenon DEF TypeOK
  <1>1. ASSUME NEW w \in Workers, UNCHANGED <<flX, flS, req>>,
               NEW x \in Steps, pc[w] \in InFlock <=> x \in InFlock, pc' = [pc EXCEPT ![w] = x]
        PROVE  FlockInv'
    BY <1>1 DEF FlockInv, IsList
  <1>2. ASSUME NEW w \in Workers, Begin(w) \/ ReleaseMutex(w) PROVE FlockInv'
    BY <1>2 DEF Begin, ReleaseMutex, Goto, lockVars, FlockInv, InFlock, IsList
  <1>3. ASSUME NEW w \in Workers, FlockExclusive(w) PROVE FlockInv'
    BY <1>3 DEF FlockExclusive, Goto, FlockInv, InFlock, IsList
  <1>4. ASSUME NEW w \in Workers, FlockShared(w) PROVE FlockInv'
    BY <1>4 DEF FlockShared, Goto, FlockInv, InFlock, IsList
  <1>5. ASSUME NEW w \in Workers, ReleaseFlock(w) PROVE FlockInv'
    BY <1>5 DEF ReleaseFlock, Goto, FlockInv, InFlock, IsList
  <1>6. ASSUME NEW p \in Procs, Crash(p) PROVE FlockInv'
    BY <1>6, CrashResets DEF Crash, FlockInv, InFlock, IsList
  <1>7. CASE UNCHANGED vars
    BY <1>7, Zenon DEF vars, lockVars, FlockInv, IsList
  <1>8. QED
    BY <1>1, <1>2, <1>3, <1>4, <1>5, <1>6, <1>7, Moves, Changes, Zenon DEF Next

\* A step of one worker moves no other, nor changes its request, its set or its
\* other locals.
LEMMA OthersStay ==
  ASSUME TypeOK, NEW w \in Workers, Begin(w) \/ Step(w), NEW v \in Workers, v # w
  PROVE  /\ pc'[v] = pc[v] /\ req'[v] = req[v] /\ work'[v] = work[v]
         /\ target'[v] = target[v] /\ seen'[v] = seen[v] /\ info'[v] = info[v]
  <1> /\ pc \in [Workers -> Steps] /\ req \in [Workers -> Requests \cup {None}]
      /\ seen \in [Workers -> CacheEntry \cup {None}]
      /\ info \in [Workers -> FileInfo \cup {None}]
      /\ work \in [Workers -> SUBSET Lock]
      /\ target \in [Workers -> Lock \cup {None}]
    BY Zenon DEF TypeOK
  <1>1. \E x : pc' = [pc EXCEPT ![w] = x]
    BY Moves, Zenon
  <1>2. /\ req' = req \/ Begin(w) \/ ReleaseMutex(w)
        /\ seen' = seen \/ PeekCache(w) \/ ReleaseMutex(w)
        /\ info' = info \/ StatFile(w) \/ ReleaseMutex(w)
        /\ target' = target \/ CreateAdds(w) \/ UnlockRemoves(w) \/ ReleaseMutex(w)
    BY Changes, Zenon
  <1>3. req' = req \/ \E x : req' = [req EXCEPT ![w] = x]
    BY <1>2, Zenon DEF Begin, ReleaseMutex
  <1>4. seen' = seen \/ \E x : seen' = [seen EXCEPT ![w] = x]
    BY <1>2, Zenon DEF PeekCache, ReleaseMutex
  <1>5. info' = info \/ \E x : info' = [info EXCEPT ![w] = x]
    BY <1>2, Zenon DEF StatFile, ReleaseMutex
  <1>6. target' = target \/ \E x : target' = [target EXCEPT ![w] = x]
    BY <1>2, Zenon DEF CreateAdds, UnlockRemoves, Mutate, ReleaseMutex
  <1>7. work' = work \/ \E x : work' = [work EXCEPT ![w] = x]
    <2>1. CASE StatMissing(w) \/ ReadUnchanged(w) \/ ReadChanged(w)
      BY <2>1, Zenon DEF StatMissing, ReadUnchanged, ReadChanged, HaveSet
    <2>2. CASE CreateAdds(w) \/ UnlockRemoves(w) \/ SaveFails(w) \/ Restat(w) \/ ReleaseMutex(w)
      BY <2>2, Zenon DEF CreateAdds, UnlockRemoves, Mutate, SaveFails, Restat, ReleaseMutex, memVars
    <2>3. QED
      BY <2>1, <2>2, SetChanges, Zenon
  <1>8. QED
    BY <1>1, <1>3, <1>4, <1>5, <1>6, <1>7

\* A worker that is not moved keeps its place, unless the file it has looked at
\* is replaced.
LEMMA PlacedFrame ==
  ASSUME NEW v \in Workers, Placed(v),
         pc'[v] = pc[v], req'[v] = req[v], seen'[v] = seen[v], info'[v] = info[v],
         target'[v] = target[v],
         file' = file \/ (pc[v] # "read" /\ file' # None)
  PROVE  Placed(v)'
  BY DEF Placed, IsList

\* The rename leaves a file.
LEMMA RenameLeavesFile ==
  ASSUME TypeOK, NEW w \in Workers, Rename(w)
  PROVE  file' # None /\ FileLocks' = work[w]
  <1>1. work[w] \in SUBSET Lock /\ stamp \in Nat
    BY DEF TypeOK
  <1>2. PICK s \in NewStamps : file' = [locks |-> work[w], stamp |-> s]
    BY Zenon DEF Rename
  <1>3. s \in Nat
    BY <1>1 DEF NewStamps
  <1>4. file' \in Version /\ file'.locks = work[w]
    BY <1>1, <1>2, <1>3 DEF Version
  <1>5. QED
    BY <1>4, NoVersionAssumption DEF FileLocks

\* Locals are set where they are used, and stay the file's own metadata
\* between stat and read because the file lock is held.
LEMMA ControlStep == IStep => ControlInv'
  <1> SUFFICES ASSUME TypeOK, ControlInv, FlockInv, [Next]_vars
               PROVE  ControlInv'
    BY Zenon DEF IStep, IInv
  <1> /\ pc \in [Workers -> Steps] /\ req \in [Workers -> Requests \cup {None}]
      /\ seen \in [Workers -> CacheEntry \cup {None}]
      /\ info \in [Workers -> FileInfo \cup {None}]
      /\ target \in [Workers -> Lock \cup {None}]
    BY Zenon DEF TypeOK
  <1>1. ASSUME NEW w \in Workers, Begin(w) \/ Step(w), NEW v \in Workers, v # w
        PROVE  /\ pc'[v] = pc[v] /\ req'[v] = req[v] /\ seen'[v] = seen[v]
               /\ info'[v] = info[v] /\ target'[v] = target[v]
    BY <1>1, OthersStay, Zenon
  <1>2. ASSUME NEW w \in Workers, Begin(w) \/ Step(w), NEW v \in Workers, v # w
        PROVE  Placed(v)'
    <2>1. CASE Rename(w)
      <3>1. pc[v] # "read"
        BY <1>2, <2>1, NoneAssumption DEF Rename, Goto, FlockInv, InFlock, ControlInv, Placed
      <3>2. QED
        BY <1>1, <1>2, <2>1, <3>1, RenameLeavesFile, PlacedFrame, Zenon DEF ControlInv
    <2>2. CASE file' = file
      BY <1>1, <1>2, <2>2, PlacedFrame, Zenon DEF ControlInv
    <2>3. QED
      BY <1>2, <2>1, <2>2, Changes, Zenon DEF diskVars
  <1>3. ASSUME NEW w \in Workers, Begin(w) \/ Step(w) PROVE Placed(w)'
    <2>0. Placed(w) /\ None \notin Requests
      BY NoneAssumption, Zenon DEF ControlInv
    <2>1. CASE Begin(w) \/ ReleaseMutex(w)
      BY <2>0, <2>1 DEF Begin, ReleaseMutex, Goto, Placed
    <2>2. CASE RLockMutex(w) \/ PeekCache(w)
      BY <2>0, <2>2 DEF RLockMutex, PeekCache, Goto, Placed, IsList
    <2>3. CASE StatFile(w)
      BY <2>0, <2>3 DEF StatFile, Goto, diskVars, Placed, IsList
    <2>4. CASE StatMissing(w) \/ ReadUnchanged(w) \/ ReadChanged(w)
      <3>1. /\ pc[w] \in {"stat", "read"} /\ req' = req
            /\ pc' = [pc EXCEPT ![w] = "funlock"] \/ (pc' = [pc EXCEPT ![w] = "decide"] /\ ~IsList(w))
        BY <2>4, Zenon DEF StatMissing, ReadUnchanged, ReadChanged, HaveSet, Goto
      <3>2. QED
        BY <2>0, <3>1 DEF Placed, IsList
    <2>5. CASE CreateAdds(w) \/ UnlockRemoves(w)
      <3>1. PICK l \in Lock : target' = [target EXCEPT ![w] = l]
        BY <2>5, NewTarget, Zenon
      <3>2. pc[w] = "decide" /\ pc' = [pc EXCEPT ![w] = "write"] /\ req' = req
        BY <2>5, Zenon DEF CreateAdds, UnlockRemoves, Goto
      <3>3. QED
        BY <2>0, <3>1, <3>2, NoneAssumption DEF Placed, IsList
    <2>6. CASE WriteTemp(w)
      BY <2>0, <2>6 DEF WriteTemp, Goto, memVars, Placed, IsList
    <2>7. CASE Rename(w)
      <3>1. file' # None
        BY <2>7, RenameLeavesFile, Zenon
      <3>2. pc[w] = "rename" /\ pc' = [pc EXCEPT ![w] = "restat"] /\ UNCHANGED <<req, target>>
        BY <2>7, Zenon DEF Rename, Goto, memVars
      <3>3. QED
        BY <2>0, <3>1, <3>2 DEF Placed, IsList
    <2>8. ASSUME pc[w] # "idle", req' = req, NEW x \in {"flock", "stat", "funlock", "munlock"},
                 pc' = [pc EXCEPT ![w] = x]
          PROVE  Placed(w)'
      BY <2>0, <2>8 DEF Placed
    <2>9. CASE \/ LockMutex(w) \/ FastStatHit(w) \/ FastStatMiss(w) \/ FlockExclusive(w)
               \/ FlockShared(w) \/ FlockFails(w) \/ ReadFails(w) \/ CreateExists(w)
               \/ UnlockRefused(w) \/ SaveFails(w) \/ Restat(w) \/ ReleaseFlock(w)
      <3>1. \A s \in {"mu", "faststat", "flock", "stat", "read", "decide", "write", "rename",
                      "restat", "funlock"} : s # "idle"
        OBVIOUS
      <3>2. \E x \in {"flock", "stat", "funlock", "munlock"} :
               pc[w] # "idle" /\ req' = req /\ pc' = [pc EXCEPT ![w] = x]
        BY <2>9, <3>1, ZenonT(30)
        DEF Goto, LockMutex, FastStatHit, FastStatMiss, FlockExclusive, FlockShared, FlockFails,
            ReadFails, CreateExists, UnlockRefused, SaveFails, Restat, ReleaseFlock
      <3>3. QED
        BY <2>8, <3>2, Zenon
    <2>10. QED
      BY <1>3, <2>1, <2>2, <2>3, <2>4, <2>5, <2>6, <2>7, <2>9, Zenon DEF Step
  <1>4. ASSUME NEW p \in Procs, Crash(p) PROVE ControlInv'
    <2>1. file' = file
      BY <1>4, Zenon DEF Crash, diskVars
    <2>2. ASSUME NEW v \in Workers, ProcOf[v] = p PROVE Placed(v)'
      BY <1>4, <2>2, CrashResets DEF Placed
    <2>3. ASSUME NEW v \in Workers, ProcOf[v] # p PROVE Placed(v)'
      BY <1>4, <2>1, <2>3, CrashResets, PlacedFrame, Zenon DEF ControlInv
    <2>4. QED
      BY <2>2, <2>3, Zenon DEF ControlInv
  <1>5. CASE UNCHANGED vars
    BY <1>5, PlacedFrame, Zenon DEF vars, memVars, diskVars, ControlInv
  <1>6. QED
    BY <1>2, <1>3, <1>4, <1>5, Zenon DEF Next, ControlInv

\* The types of a worker's own variables are preserved.
LEMMA LocalTypes ==
  ASSUME TypeOK, ControlInv, NEW w \in Workers, Begin(w) \/ Step(w)
  PROVE  /\ pc' \in [Workers -> Steps]
         /\ req' \in [Workers -> Requests \cup {None}]
         /\ res' \in [Workers -> Answer \cup {None}]
         /\ seen' \in [Workers -> CacheEntry \cup {None}]
         /\ info' \in [Workers -> FileInfo \cup {None}]
         /\ target' \in [Workers -> Lock \cup {None}]
  <1> /\ pc \in [Workers -> Steps] /\ req \in [Workers -> Requests \cup {None}]
      /\ res \in [Workers -> Answer \cup {None}]
      /\ seen \in [Workers -> CacheEntry \cup {None}]
      /\ info \in [Workers -> FileInfo \cup {None}]
      /\ target \in [Workers -> Lock \cup {None}]
    BY Zenon DEF TypeOK
  <1>1. pc' \in [Workers -> Steps]
    <2>1. PICK x \in Steps : pc' = [pc EXCEPT ![w] = x]
      BY Moves, Zenon
    <2>2. QED
      BY <2>1
  <1>2. req' \in [Workers -> Requests \cup {None}]
    <2>1. req' = req \/ Begin(w) \/ ReleaseMutex(w)
      BY Changes, Zenon
    <2>2. req' = req \/ \E x \in Requests \cup {None} : req' = [req EXCEPT ![w] = x]
      BY <2>1, Zenon DEF Begin, ReleaseMutex
    <2>3. QED
      BY <2>2
  <1>3. res' \in [Workers -> Answer \cup {None}]
    <2>1. \/ res' = res \/ ReleaseMutex(w)
          \/ \E k \in AnswerKinds, S \in SUBSET Lock : Decided(w, Answers(k, S))
      BY Moves, Answered, Zenon
    <2>2. res' = res \/ \E x \in Answer \cup {None} : res' = [res EXCEPT ![w] = x]
      BY <2>1, AnswerType, Zenon DEF Decided, ReleaseMutex
    <2>3. QED
      BY <2>2
  <1>4. seen' \in [Workers -> CacheEntry \cup {None}]
    <2>1. cache[ProcOf[w]] \in CacheEntry \cup {None}
      BY ProcsAssumption DEF TypeOK
    <2>2. seen' = seen \/ \E x \in CacheEntry \cup {None} : seen' = [seen EXCEPT ![w] = x]
      BY <2>1, Changes, Zenon DEF PeekCache, ReleaseMutex
    <2>3. QED
      BY <2>2
  <1>5. info' \in [Workers -> FileInfo \cup {None}]
    <2>1. file # None => Info(file) \in FileInfo
      BY InfoType DEF TypeOK
    <2>2. info' = info \/ \E x \in FileInfo \cup {None} : info' = [info EXCEPT ![w] = x]
      BY <2>1, Changes, Zenon DEF StatFile, ReleaseMutex
    <2>3. QED
      BY <2>2
  <1>6. target' \in [Workers -> Lock \cup {None}]
    <2>1. target' = target \/ \E x \in Lock \cup {None} : target' = [target EXCEPT ![w] = x]
      BY Changes, NewTarget, Zenon DEF ReleaseMutex
    <2>2. QED
      BY <2>1
  <1>7. QED
    BY <1>1, <1>2, <1>3, <1>4, <1>5, <1>6

\* The types of the sets the workers and the caches hold are preserved.
LEMMA SetTypes ==
  ASSUME TypeOK, ControlInv, NEW w \in Workers, Begin(w) \/ Step(w)
  PROVE  /\ work' \in [Workers -> SUBSET Lock]
         /\ cache' \in [Procs -> CacheEntry \cup {None}]
  <1> /\ work \in [Workers -> SUBSET Lock] /\ cache \in [Procs -> CacheEntry \cup {None}]
      /\ ProcOf[w] \in Procs /\ work[w] \in SUBSET Lock
    BY ProcsAssumption DEF TypeOK
  <1>1. ASSUME work' = work \/ \E S \in SUBSET Lock : work' = [work EXCEPT ![w] = S],
               \/ cache' = cache
               \/ \E e \in CacheEntry \cup {None} : cache' = [cache EXCEPT ![ProcOf[w]] = e]
        PROVE  /\ work' \in [Workers -> SUBSET Lock]
               /\ cache' \in [Procs -> CacheEntry \cup {None}]
    BY <1>1
  <1>2. ASSUME NEW S \in SUBSET Lock, NEW s, HaveSet(w, s, S)
        PROVE  work' = work \/ \E T \in SUBSET Lock : work' = [work EXCEPT ![w] = T]
    BY <1>2, Zenon DEF HaveSet
  <1>3. CASE StatMissing(w)
    BY <1>1, <1>2, <1>3, Zenon DEF StatMissing, SetCache
  <1>4. CASE ReadUnchanged(w)
    <2> DEFINE c == cache[ProcOf[w]]
    <2>1. c \in CacheEntry /\ pc[w] = "read" /\ HaveSet(w, "read", c.set)
          /\ SetCache(ProcOf[w], [c EXCEPT !.info = info[w]])
      BY <1>4 DEF ReadUnchanged, HaveSet
    <2>2. info[w] \in FileInfo
      BY <2>1, InfoType DEF TypeOK, ControlInv, Placed
    <2>3. c.set \in SUBSET Lock /\ [c EXCEPT !.info = info[w]] \in CacheEntry
      BY <2>1, <2>2, EntryFields, EntryInfoUpdate
    <2> HIDE DEF c
    <2>4. QED
      BY <1>1, <1>2, <2>1, <2>3, Zenon DEF SetCache
  <1>5. CASE ReadChanged(w)
    <2>1. pc[w] = "read" /\ FileLocks \in SUBSET Lock
      BY <1>5, FileLocksType, Zenon DEF ReadChanged, HaveSet
    <2>2. info[w] \in FileInfo
      BY <2>1, InfoType DEF TypeOK, ControlInv, Placed
    <2>3. [set |-> FileLocks, data |-> FileLocks, info |-> info[w]] \in CacheEntry
      BY <2>1, <2>2, EntryType, Zenon
    <2>4. QED
      BY <1>1, <1>2, <1>5, <2>1, <2>3, Zenon DEF ReadChanged, SetCache
  <1>6. ASSUME NEW S \in SUBSET Lock, NEW l, Mutate(w, S, l)
        PROVE  /\ work' \in [Workers -> SUBSET Lock]
               /\ cache' \in [Procs -> CacheEntry \cup {None}]
    <2>1. cache' \in [Procs -> CacheEntry \cup {None}]
      BY <1>6, MutateType, Zenon
    <2>2. work' = [work EXCEPT ![w] = S]
      BY <1>6, Zenon DEF Mutate
    <2>3. QED
      BY <2>1, <2>2
  <1>7. CASE CreateAdds(w)
    <2>1. \E S, l : S \in SUBSET Lock /\ Mutate(w, S, l)
      <3>1. \A l \in Lock : work[w] \cup {l} \in SUBSET Lock
        OBVIOUS
      <3>2. QED
        BY <1>7, <3>1, LockAdded, Zenon
    <2>2. QED
      BY <1>6, <2>1, Zenon
  <1>8. CASE UnlockRemoves(w)
    <2>1. \E S, l : S \in SUBSET Lock /\ Mutate(w, S, l)
      <3>1. \A l \in Lock : work[w] \ {l} \in SUBSET Lock
        OBVIOUS
      <3>2. QED
        BY <1>8, <3>1, LockRemoved, Zenon
    <2>2. QED
      BY <1>6, <2>1, Zenon
  <1>9. CASE SaveFails(w)
    BY <1>1, <1>9, Zenon DEF SaveFails, SetCache, memVars
  <1>10. CASE Restat(w)
    <2>1. file \in Version
      BY <1>10 DEF Restat, Goto, TypeOK, ControlInv, Placed
    <2>2. [set |-> work[w], data |-> work[w], info |-> Info(file)] \in CacheEntry
      BY <2>1, InfoType, EntryType, Zenon
    <2>3. QED
      BY <1>1, <1>10, <2>2, Zenon DEF Restat, SetCache, memVars
  <1>11. CASE ReleaseMutex(w)
    BY <1>1, <1>11, Zenon DEF ReleaseMutex
  <1>12. CASE work' = work /\ cache' = cache
    BY <1>1, <1>12
  <1>13. QED
    BY <1>3, <1>4, <1>5, <1>7, <1>8, <1>9, <1>10, <1>11, <1>12, SetChanges, Zenon

\* The types of the locks, the file and the counters are preserved.
LEMMA SharedTypes ==
  ASSUME TypeOK, NEW w \in Workers, Begin(w) \/ Step(w)
  PROVE  /\ muW' \in [Procs -> Workers \cup {None}] /\ muR' \in [Procs -> SUBSET Workers]
         /\ flX' \in Workers \cup {None} /\ flS' \in SUBSET Workers
         /\ file' \in Version \cup {None} /\ stamp' \in Nat
         /\ issued' \in SUBSET Ids /\ ops' \in Nat /\ crashes' \in Nat
  <1> /\ muW \in [Procs -> Workers \cup {None}] /\ muR \in [Procs -> SUBSET Workers]
      /\ flX \in Workers \cup {None} /\ flS \in SUBSET Workers
      /\ file \in Version \cup {None} /\ stamp \in Nat /\ work \in [Workers -> SUBSET Lock]
      /\ issued \in SUBSET Ids /\ ops \in Nat /\ crashes \in Nat /\ ProcOf[w] \in Procs
    BY ProcsAssumption, ZenonT(30) DEF TypeOK
  <1>1. muW' \in [Procs -> Workers \cup {None}] /\ muR' \in [Procs -> SUBSET Workers]
    <2>1. CASE LockMutex(w) \/ RLockMutex(w) \/ ReleaseMutex(w)
      BY <2>1 DEF LockMutex, RLockMutex, ReleaseMutex
    <2>2. QED
      BY <2>1, Changes, Zenon
  <1>2. flX' \in Workers \cup {None} /\ flS' \in SUBSET Workers
    <2>1. CASE FlockExclusive(w) \/ FlockShared(w) \/ ReleaseFlock(w)
      BY <2>1 DEF FlockExclusive, FlockShared, ReleaseFlock
    <2>2. QED
      BY <2>1, Changes, Zenon
  <1>3. file' \in Version \cup {None} /\ stamp' \in Nat
    <2>1. CASE Rename(w)
      <3>1. PICK s \in NewStamps : /\ file' = [locks |-> work[w], stamp |-> s]
                                  /\ stamp' = IF s > stamp THEN s ELSE stamp
        BY <2>1, Zenon DEF Rename
      <3>2. s \in Nat
        BY DEF NewStamps
      <3>3. QED
        BY <3>1, <3>2 DEF Version
    <2>2. QED
      BY <2>1, Changes, Zenon DEF diskVars
  <1>4. issued' \in SUBSET Ids
    <2>1. issued' = issued \/ \E i \in Ids : issued' = issued \cup {i}
      BY Changes, Zenon DEF CreateAdds
    <2>2. QED
      BY <2>1
  <1>5. ops' \in Nat /\ crashes' \in Nat
    <2>1. crashes' = crashes /\ (ops' = ops \/ ops' = ops + 1)
      BY Changes, Zenon DEF Begin
    <2>2. QED
      BY <2>1
  <1>6. QED
    BY <1>1, <1>2, <1>3, <1>4, <1>5, Zenon

\* Types are preserved; ControlInv supplies the locals that are set.
LEMMA TypeStep == IStep => TypeOK'
  <1> SUFFICES ASSUME TypeOK, ControlInv, [Next]_vars
               PROVE  TypeOK'
    BY Zenon DEF IStep, IInv
  <1>1. ASSUME NEW w \in Workers, Begin(w) \/ Step(w) PROVE TypeOK'
    BY <1>1, LocalTypes, SetTypes, SharedTypes, ZenonT(30) DEF TypeOK
  <1>2. ASSUME NEW p \in Procs, Crash(p) PROVE TypeOK'
    BY <1>2 DEF Crash, SetCache, diskVars, Steps, TypeOK
  <1>3. CASE UNCHANGED vars
    BY <1>3, ZenonT(30) DEF vars, memVars, lockVars, diskVars, countVars, TypeOK
  <1>4. QED
    BY <1>1, <1>2, <1>3, Zenon DEF Next
-----------------------------------------------------------------------------
(* What a writer knows of the lock file, the IDs in it, and the caches. *)

\* A request that is being served is a create, an unlock or a list.
LEMMA OpCases ==
  ASSUME TypeOK, NEW w \in Workers, req[w] # None
  PROVE  req[w].op \in {"create", "unlock", "list"}
  BY RequestsAssumption
  DEF TypeOK, AllRequests, CreateRequest, UnlockRequest, ListRequest

\* What a writer knows survives the steps that neither move it nor rename.
LEMMA WriterFrame ==
  ASSUME NEW v \in Workers, WriterKnows(v),
         pc'[v] = pc[v], req'[v] = req[v], work'[v] = work[v],
         target'[v] = target[v], file' = file, issued \subseteq issued'
  PROVE  WriterKnows(v)'
  <1>1. FileLocks' = FileLocks
    BY Zenon DEF FileLocks
  <1>2. QED
    BY <1>1, ZenonT(30) DEF WriterKnows

\* Only a rename changes the file, and IDs are only added to those issued.
LEMMA OnlyRenameWrites ==
  ASSUME [Next]_vars
  PROVE  /\ file' = file \/ \E w \in Workers : Rename(w)
         /\ issued \subseteq issued'
  <1>1. ASSUME NEW w \in Workers, Begin(w) \/ Step(w)
        PROVE  (file' = file \/ Rename(w)) /\ issued \subseteq issued'
    BY <1>1, Changes, Zenon DEF diskVars, CreateAdds
  <1>2. ASSUME NEW p \in Procs, Crash(p) PROVE file' = file /\ issued' = issued
    BY <1>2, Zenon DEF Crash, diskVars
  <1>3. CASE UNCHANGED vars
    BY <1>3, Zenon DEF vars, diskVars
  <1>4. QED
    BY <1>1, <1>2, <1>3, Zenon DEF Next

\* A cached set whose bytes a read found in the file is the file's set.
LEMMA CachedIsFile ==
  ASSUME IInv, NEW w \in Workers, ReadUnchanged(w)
  PROVE  /\ ~BeingChanged(ProcOf[w])
         /\ cache[ProcOf[w]].set = FileLocks
  <1>1. /\ pc[w] = "read" /\ ProcOf[w] \in Procs
        /\ cache[ProcOf[w]] # None /\ cache[ProcOf[w]].data = FileLocks
    BY ProcsAssumption DEF ReadUnchanged, HaveSet
  <1>2. MutexInv /\ CacheInv
    BY ZenonT(30) DEF IInv
  <1>3. ~BeingChanged(ProcOf[w])
    BY <1>1, <1>2, ZenonT(30) DEF MutexInv, InMutex, Steps, BeingChanged
  <1>4. QED
    BY <1>1, <1>2, <1>3, Zenon DEF CacheInv

\* While a writer holds the file lock, the file is what it read.
LEMMA WriterStep == IStep => WriterInv'
  <1> SUFFICES ASSUME IInv, [Next]_vars PROVE WriterInv'
    BY DEF IStep
  <1> TypeOK /\ ControlInv /\ WriterInv
    BY Zenon DEF IInv
  <1>1. ASSUME NEW w \in Workers, Begin(w) \/ Step(w), file' = file, WriterKnows(w)'
        PROVE  WriterInv'
    <2>1. ASSUME NEW v \in Workers, v # w PROVE WriterKnows(v)'
      BY <1>1, <2>1, OthersStay, OnlyRenameWrites, WriterFrame, Zenon DEF WriterInv
    <2>2. QED
      BY <1>1, <2>1, Zenon DEF WriterInv
  <1>2. ASSUME NEW w \in Workers, Begin(w) \/ Step(w), pc'[w] \notin Knowing, ~Rename(w)
        PROVE  WriterInv'
    <2>1. WriterKnows(w)'
      BY <1>2 DEF WriterKnows, Knowing, Saving
    <2>2. file' = file
      BY <1>2, Changes, Zenon DEF diskVars
    <2>3. QED
      BY <1>1, <1>2, <2>1, <2>2, Zenon
  <1>3. ASSUME NEW w \in Workers, StatMissing(w) PROVE WriterInv'
    <2>1. WriterKnows(w)'
      BY <1>3 DEF TypeOK, StatMissing, Goto, HaveSet, diskVars, WriterKnows, FileLocks
    <2>2. QED
      BY <1>1, <1>3, <2>1, Zenon DEF Step, StatMissing, diskVars
  <1>4. ASSUME NEW w \in Workers, ReadUnchanged(w) PROVE WriterInv'
    <2>1. cache[ProcOf[w]].set = FileLocks
      BY <1>4, CachedIsFile, Zenon
    <2>2. WriterKnows(w)'
      BY <1>4, <2>1, Zenon DEF TypeOK, ReadUnchanged, Goto, HaveSet, diskVars, WriterKnows, FileLocks
    <2>3. QED
      BY <1>1, <1>4, <2>2, Zenon DEF Step, ReadUnchanged, diskVars
  <1>5. ASSUME NEW w \in Workers, ReadChanged(w) PROVE WriterInv'
    <2>1. WriterKnows(w)'
      BY <1>5, Zenon DEF TypeOK, ReadChanged, Goto, HaveSet, diskVars, WriterKnows, FileLocks
    <2>2. QED
      BY <1>1, <1>5, <2>1, Zenon DEF Step, ReadChanged, diskVars
  <1>6. ASSUME NEW w \in Workers, CreateAdds(w) PROVE WriterInv'
    <2>1. PICK i \in Ids \ issued :
             LET l == [id |-> i, path |-> req[w].path, owner |-> req[w].owner]
             IN  l \in Lock /\ Mutate(w, work[w] \cup {l}, l) /\ issued' = issued \cup {i}
      BY <1>6, LockAdded, ZenonT(30)
    <2>2. work[w] = FileLocks /\ byID(FileLocks, i) = {}
      BY <1>6, Zenon DEF IInv, CreateAdds, Goto, WriterInv, WriterKnows, IssuedInv, byID
    <2>3. WriterKnows(w)'
      BY <1>6, <2>1, <2>2 DEF TypeOK, CreateAdds, Goto, Mutate, diskVars, WriterKnows, FileLocks
    <2>4. QED
      BY <1>1, <1>6, <2>3, Zenon DEF Step, CreateAdds, diskVars
  <1>7. ASSUME NEW w \in Workers, UnlockRemoves(w) PROVE WriterInv'
    <2>1. PICK l \in byID(work[w], req[w].id) :
             l \in Lock /\ MayRelease(l, req[w]) /\ Mutate(w, work[w] \ {l}, l)
      BY <1>7, LockRemoved, ZenonT(30)
    <2>2. work[w] = FileLocks
      BY <1>7, Zenon DEF UnlockRemoves, Goto, WriterInv, WriterKnows
    <2>3. WriterKnows(w)'
      BY <1>7, <2>1, <2>2 DEF TypeOK, UnlockRemoves, Goto, Mutate, diskVars, WriterKnows, FileLocks
    <2>4. QED
      BY <1>1, <1>7, <2>3, Zenon DEF Step, UnlockRemoves, diskVars
  <1>8. ASSUME NEW w \in Workers, WriteTemp(w) PROVE WriterInv'
    <2>1. WriterKnows(w)'
      BY <1>8, ZenonT(30) DEF TypeOK, WriteTemp, Goto, memVars, diskVars, WriterInv, WriterKnows, FileLocks
    <2>2. QED
      BY <1>1, <1>8, <2>1, Zenon DEF Step, WriteTemp, diskVars
  <1>9. ASSUME NEW w \in Workers, Rename(w) PROVE WriterInv'
    <2>1. ASSUME NEW v \in Workers, v # w PROVE pc'[v] \notin Knowing
      BY <1>9, <2>1 DEF IInv, TypeOK, ControlInv, Placed, FlockInv, InFlock, Rename, Goto, Knowing, Saving
    <2>2. pc'[w] = "restat" /\ FileLocks' = work'[w]
      BY <1>9, RenameLeavesFile, ZenonT(30) DEF TypeOK, Rename, Goto, memVars
    <2>3. QED
      BY <2>1, <2>2, Zenon DEF WriterInv, WriterKnows, Knowing, Saving
  <1>10. ASSUME NEW p \in Procs, Crash(p), NEW v \in Workers PROVE WriterKnows(v)'
    <2>1. CASE ProcOf[v] = p
      BY <1>10, <2>1 DEF Crash, WriterKnows
    <2>2. CASE ProcOf[v] # p
      BY <1>10, <2>2, WriterFrame, Zenon DEF Crash, diskVars, WriterInv
    <2>3. QED
      BY <2>1, <2>2
  <1>11. CASE UNCHANGED vars
    BY <1>11, WriterFrame, Zenon DEF vars, memVars, diskVars, WriterInv
  <1>12. ASSUME NEW w \in Workers, Begin(w) \/ Step(w)
         PROVE  \/ pc'[w] \notin Knowing
                \/ StatMissing(w) \/ ReadUnchanged(w) \/ ReadChanged(w)
                \/ CreateAdds(w) \/ UnlockRemoves(w) \/ WriteTemp(w) \/ Rename(w)
    <2>1. pc \in [Workers -> Steps]
      BY Zenon DEF TypeOK
    <2>2. QED
      BY <1>12, <2>1, MovesOnFile, Zenon
  <1>13. QED
    BY <1>2, <1>3, <1>4, <1>5, <1>6, <1>7, <1>8, <1>9, <1>10, <1>11, <1>12, Zenon DEF Next, WriterInv

\* A rename writes the file's present locks and one more, of a path and under an
\* issued ID that are not there, or all of them but one.
LEMMA RenameWrites ==
  ASSUME IInv, NEW w \in Workers, Rename(w)
  PROVE  /\ FileLocks' = work[w] /\ issued' = issued
         /\ \/ /\ req[w].op = "create"
               /\ target[w].id \in issued
               /\ \A l \in FileLocks : l.path # target[w].path /\ l.id # target[w].id
               /\ FileLocks' = FileLocks \cup {target[w]}
            \/ /\ req[w].op = "unlock"
               /\ req[w].id = target[w].id /\ MayRelease(target[w], req[w])
               /\ FileLocks' = FileLocks \ {target[w]}
  <1>1. TypeOK /\ ControlInv /\ WriterKnows(w)
    BY Zenon DEF IInv, WriterInv
  <1>2. pc[w] = "rename" /\ issued' = issued
    BY Zenon DEF Rename, Goto
  <1>3. FileLocks' = work[w]
    BY <1>1, RenameLeavesFile, Zenon
  <1>4. req[w].op \in {"create", "unlock"}
    BY <1>1, <1>2, OpCases DEF ControlInv, Placed, IsList
  <1>5. CASE req[w].op = "create"
    <2>1. /\ target[w].id \in issued /\ byPath(FileLocks, req[w].path) = {}
          /\ byID(FileLocks, target[w].id) = {} /\ work[w] = FileLocks \cup {target[w]}
          /\ target[w].path = req[w].path
      BY <1>1, <1>2, <1>5 DEF WriterKnows
    <2>2. \A l \in FileLocks : l.path # target[w].path /\ l.id # target[w].id
      BY <2>1 DEF byPath, byID
    <2>3. QED
      BY <1>2, <1>3, <1>5, <2>1, <2>2, Zenon
  <1>6. CASE req[w].op = "unlock"
    <2>1. /\ target[w] \in byID(FileLocks, req[w].id) /\ MayRelease(target[w], req[w])
          /\ work[w] = FileLocks \ {target[w]}
      BY <1>1, <1>2, <1>6 DEF WriterKnows
    <2>2. req[w].id = target[w].id
      BY <2>1 DEF byID
    <2>3. QED
      BY <1>2, <1>3, <1>6, <2>1, <2>2, Zenon
  <1>7. QED
    BY <1>4, <1>5, <1>6

\* Only issued IDs reach the file.
LEMMA IssuedStep == IStep => IssuedInv'
  <1> SUFFICES ASSUME IInv, [Next]_vars PROVE IssuedInv'
    BY DEF IStep
  <1>1. IssuedInv /\ issued \subseteq issued'
    BY OnlyRenameWrites, Zenon DEF IInv
  <1>2. CASE file' = file
    BY <1>1, <1>2 DEF IssuedInv, FileLocks
  <1>3. ASSUME NEW w \in Workers, Rename(w) PROVE IssuedInv'
    <2>1. /\ issued' = issued /\ \A l \in FileLocks' : l \in FileLocks \/ l.id \in issued
      BY <1>3, RenameWrites
    <2>2. QED
      BY <1>1, <2>1 DEF IssuedInv
  <1>4. QED
    BY <1>2, <1>3, OnlyRenameWrites, Zenon

\* A rename adds a lock whose path and ID are new, or only removes one.
LEMMA UniqueStep == IStep => OneLockPerPath'
  <1> SUFFICES ASSUME IInv, [Next]_vars PROVE OneLockPerPath'
    BY DEF IStep
  <1>1. OneLockPerPath
    BY Zenon DEF IInv
  <1>2. CASE file' = file
    BY <1>1, <1>2 DEF OneLockPerPath, FileLocks
  <1>3. ASSUME NEW w \in Workers, Rename(w) PROVE OneLockPerPath'
    <2>1. \/ /\ FileLocks' = FileLocks \cup {target[w]}
             /\ \A l \in FileLocks : l.path # target[w].path /\ l.id # target[w].id
          \/ FileLocks' = FileLocks \ {target[w]}
      BY <1>3, RenameWrites, Zenon
    <2>2. QED
      BY <1>1, <2>1 DEF OneLockPerPath
  <1>4. QED
    BY <1>2, <1>3, OnlyRenameWrites, Zenon

\* Entries are honest after a step that leaves the file alone, takes nobody to
\* the fast path, and gives a process's cache nothing but an honest entry or one
\* whose set is being changed.
LEMMA CacheFrame ==
  ASSUME CacheInv, file' = file, stamp' = stamp,
         \A v \in Workers : pc'[v] = "faststat" => pc[v] = "faststat" /\ seen'[v] = seen[v],
         \A p \in Procs : \/ cache'[p] = None
                          \/ cache'[p] = cache[p] /\ (BeingChanged(p) => BeingChanged(p)')
                          \/ Genuine(cache'[p]) /\ (BeingChanged(p)' \/ cache'[p].set = cache'[p].data)
  PROVE  CacheInv'
  <1>1. \A e : Genuine(e) => (MtimeAdvances =>
                  /\ e.info.stamp <= stamp'
                  /\ file' # None /\ e.info.stamp = file'.stamp => e.data = FileLocks')
    BY DEF Genuine, FileLocks
  <1>2. \A v \in Workers : pc'[v] = "faststat" => Genuine(seen'[v]) /\ seen'[v].set = seen'[v].data
    BY Zenon DEF CacheInv
  <1>3. ASSUME NEW p \in Procs, cache'[p] # None
        PROVE  Genuine(cache'[p]) /\ (~BeingChanged(p)' => cache'[p].set = cache'[p].data)
    BY <1>3, Zenon DEF CacheInv
  <1>4. file' # None => file'.stamp <= stamp'
    BY Zenon DEF CacheInv
  <1>5. QED
    BY <1>1, <1>2, <1>3, <1>4, Zenon DEF CacheInv, Genuine

\* The steps of worker w that change a cache or the file, or look at the cache.
Touches(w) ==
    \/ PeekCache(w) \/ StatMissing(w) \/ ReadUnchanged(w) \/ ReadChanged(w)
    \/ CreateAdds(w) \/ UnlockRemoves(w) \/ SaveFails(w) \/ Rename(w) \/ Restat(w)

\* Where a step of one worker goes, for the cache: nobody else is moved, and a
\* set that is being changed stays so when the worker is not the one changing it.
LEMMA ChangeGoesOn ==
  ASSUME TypeOK, NEW w \in Workers, Begin(w) \/ Step(w), UNCHANGED muW,
         pc[w] \in {"write", "rename", "restat"} => pc'[w] \in {"write", "rename", "restat"},
         NEW p \in Procs, BeingChanged(p)
  PROVE  BeingChanged(p)'
  <1>1. muW[p] \in Workers /\ muW[p] # None
    BY DEF TypeOK, BeingChanged
  <1>2. pc'[muW[p]] = pc[muW[p]] \/ muW[p] = w
    BY <1>1, OthersStay, Zenon
  <1>3. QED
    BY <1>1, <1>2 DEF BeingChanged

\* Cache entries stay honest over the other steps.
LEMMA QuietStep ==
  ASSUME TypeOK, CacheInv, NEW w \in Workers, Begin(w) \/ Step(w), ~Touches(w)
  PROVE  CacheInv'
  <1>1. Begin(w) \/ Step(w)
    OBVIOUS
  <1>2. file' = file /\ stamp' = stamp /\ cache' = cache
    <2>1. UNCHANGED diskVars
      BY Changes, Zenon DEF Touches
    <2>2. cache' = cache \/ ReleaseMutex(w)
      BY SetChanges, Zenon DEF Touches
    <2>3. QED
      BY <2>1, <2>2, Zenon DEF diskVars, ReleaseMutex
  <1>3. PICK s \in Steps : /\ pc' = [pc EXCEPT ![w] = s]
                           /\ s # "faststat" /\ (pc[w] \notin Saving \/ s \in Saving)
    BY MovesOnFile, Zenon DEF Touches
  <1>4. pc'[w] = s
    BY <1>3, Zenon DEF TypeOK
  <1>5. ASSUME NEW v \in Workers, pc'[v] = "faststat" PROVE pc[v] = "faststat" /\ seen'[v] = seen[v]
    BY <1>1, <1>3, <1>4, <1>5, OthersStay, Zenon
  <1>6. ASSUME NEW p \in Procs, BeingChanged(p) PROVE BeingChanged(p)'
    <2>1. CASE LockMutex(w) \/ ReleaseMutex(w)
      <3>1. muW[p] # None /\ muW[p] \in Workers /\ muW[p] # w
        BY <1>6, <2>1 DEF TypeOK, BeingChanged, LockMutex, ReleaseMutex, Goto
      <3>2. muW'[p] = muW[p]
        BY <1>6, <2>1, <3>1, ProcsAssumption DEF TypeOK, LockMutex, ReleaseMutex
      <3>3. pc'[muW[p]] = pc[muW[p]]
        BY <1>1, <3>1, OthersStay, Zenon
      <3>4. QED
        BY <1>6, <3>1, <3>2, <3>3, ZenonT(30) DEF BeingChanged
    <2>2. CASE ~(LockMutex(w) \/ ReleaseMutex(w))
      <3>1. UNCHANGED muW
        BY <2>2, Changes, Zenon DEF RLockMutex
      <3>2. QED
        BY <1>1, <1>3, <1>4, <1>6, <3>1, ChangeGoesOn, Zenon DEF Saving
    <2>3. QED
      BY <2>1, <2>2, Zenon
  <1>7. QED
    BY <1>2, <1>5, <1>6, CacheFrame, Zenon

\* The same for a step that replaces the entry of the worker's own process.
LEMMA EntryStep ==
  ASSUME TypeOK, MutexInv, CacheInv, NEW w \in Workers, Begin(w) \/ Step(w), UNCHANGED <<diskVars, seen, muW>>,
         pc'[w] # "faststat",
         NEW e, cache' = [cache EXCEPT ![ProcOf[w]] = e],
         \/ e = None
         \/ Genuine(e) /\ (e.set = e.data \/ BeingChanged(ProcOf[w])')
  PROVE  CacheInv'
  <1>1. file' = file /\ stamp' = stamp /\ seen' = seen /\ muW' = muW
    BY Zenon DEF diskVars
  <1>2. ASSUME NEW v \in Workers, pc'[v] = "faststat" PROVE pc[v] = "faststat" /\ seen'[v] = seen[v]
    BY <1>1, <1>2, OthersStay, Zenon
  <1>3. cache'[ProcOf[w]] = e
    BY ProcsAssumption DEF TypeOK
  <1>4. ASSUME NEW p \in Procs, p # ProcOf[w]
        PROVE  cache'[p] = cache[p] /\ (BeingChanged(p) => BeingChanged(p)')
    <2>1. cache'[p] = cache[p]
      BY <1>4, ZenonT(30) DEF TypeOK
    <2>2. ASSUME BeingChanged(p) PROVE muW[p] \in Workers /\ muW[p] # w
      BY <1>4, <2>2 DEF TypeOK, BeingChanged, MutexInv
    <2>3. ASSUME BeingChanged(p) PROVE pc'[muW[p]] = pc[muW[p]]
      BY <2>2, <2>3, OthersStay, ZenonT(30)
    <2>4. QED
      BY <1>1, <2>1, <2>3, Zenon DEF BeingChanged
  <1>5. ASSUME NEW p \in Procs
        PROVE  \/ cache'[p] = None
               \/ cache'[p] = cache[p] /\ (BeingChanged(p) => BeingChanged(p)')
               \/ Genuine(cache'[p]) /\ (BeingChanged(p)' \/ cache'[p].set = cache'[p].data)
    <2>1. CASE p # ProcOf[w]
      BY <1>4, <2>1, Zenon
    <2>2. CASE p = ProcOf[w]
      BY <1>3, <2>2, Zenon
    <2>3. QED
      BY <2>1, <2>2
  <1>6. QED
    BY <1>1, <1>2, <1>5, CacheFrame, Zenon

\* A set changed in place leaves an entry whose bytes are still genuine.
LEMMA MutateStep ==
  ASSUME IInv, NEW w \in Workers, CreateAdds(w) \/ UnlockRemoves(w)
  PROVE  CacheInv'
  <1> TypeOK /\ ControlInv /\ MutexInv /\ CacheInv /\ ProcOf[w] \in Procs
    BY ProcsAssumption, Zenon DEF IInv
  <1>1. /\ Goto(w, "decide", "write") /\ UNCHANGED <<diskVars, seen, muW>> /\ Step(w)
        /\ \E S, l : Mutate(w, S, l)
    BY ZenonT(30) DEF CreateAdds, UnlockRemoves, lockVars, Step
  <1>2. PICK S, l : Mutate(w, S, l)
    BY <1>1
  <1>3. pc'[w] = "write" /\ pc[w] = "decide"
    BY <1>1, Zenon DEF TypeOK, Goto
  <1>4. muW[ProcOf[w]] = w
    BY <1>3, ZenonT(30) DEF ControlInv, Placed, MutexInv, InMutex, Steps
  <1>5. BeingChanged(ProcOf[w])'
    BY <1>1, <1>3, <1>4, NoneAssumption, ZenonT(30) DEF BeingChanged
  <1> DEFINE c == cache[ProcOf[w]]
             e == IF c = None THEN None ELSE [c EXCEPT !.set = S]
  <1>6. cache' = [cache EXCEPT ![ProcOf[w]] = e]
    BY <1>2 DEF Mutate, TypeOK
  <1>7. e = None \/ Genuine(e)
    <2>1. CASE c = None
      BY <2>1
    <2>2. CASE c # None
      <3>1. c \in CacheEntry /\ Genuine(c)
        BY <2>2 DEF TypeOK, CacheInv
      <3>2. e.data = c.data /\ e.info = c.info
        BY <2>2, <3>1 DEF CacheEntry
      <3>3. QED
        BY <3>1, <3>2, ZenonT(30) DEF Genuine
    <2>3. QED
      BY <2>1, <2>2
  <1> HIDE DEF e
  <1>8. QED
    BY <1>1, <1>3, <1>5, <1>6, <1>7, EntryStep, Zenon

\* The entries that reading the file, failing to save it and looking at it
\* afterwards leave.
LEMMA ReadStep ==
  ASSUME IInv, NEW w \in Workers,
         StatMissing(w) \/ ReadUnchanged(w) \/ ReadChanged(w) \/ SaveFails(w) \/ Restat(w)
  PROVE  CacheInv'
  <1> TypeOK /\ ControlInv /\ MutexInv /\ CacheInv /\ WriterInv /\ ProcOf[w] \in Procs
    BY ProcsAssumption, Zenon DEF IInv
  <1>1. UNCHANGED <<diskVars, seen, muW>> /\ Step(w)
    BY ZenonT(30) DEF StatMissing, ReadUnchanged, ReadChanged, SaveFails, Restat, memVars, lockVars, Step
  <1>2. pc'[w] # "faststat"
    <2>1. pc' = [pc EXCEPT ![w] = "funlock"] \/ pc' = [pc EXCEPT ![w] = "decide"]
      BY ZenonT(30) DEF StatMissing, ReadUnchanged, ReadChanged, SaveFails, Restat, Goto, HaveSet
    <2>2. QED
      BY <2>1 DEF TypeOK
  <1>3. ASSUME NEW e, SetCache(ProcOf[w], e), e = None \/ (Genuine(e) /\ e.set = e.data)
        PROVE  CacheInv'
    BY <1>1, <1>2, <1>3, EntryStep, Zenon DEF SetCache
  <1>4. CASE StatMissing(w) \/ SaveFails(w)
    BY <1>3, <1>4, ZenonT(30) DEF StatMissing, SaveFails
  <1>5. file # None => Info(file).stamp = file.stamp /\ file.stamp <= stamp
    BY ZenonT(30) DEF Info, CacheInv
  <1>6. CASE ReadUnchanged(w)
    <2> DEFINE c == cache[ProcOf[w]]
               d == [c EXCEPT !.info = info[w]]
    <2>1. /\ c \in CacheEntry /\ c.data = FileLocks /\ c.set = FileLocks
          /\ pc[w] = "read" /\ SetCache(ProcOf[w], d)
      BY <1>6, CachedIsFile DEF TypeOK, ReadUnchanged, HaveSet
    <2>2. file # None /\ info[w] = Info(file)
      BY <2>1 DEF ControlInv, Placed
    <2>3. d.set = FileLocks /\ d.data = FileLocks /\ d.info = Info(file)
      BY <2>1, <2>2 DEF CacheEntry
    <2>4. Genuine(d) /\ d.set = d.data
      BY <1>5, <2>2, <2>3, ZenonT(30) DEF Genuine
    <2>5. QED
      BY <1>3, <2>1, <2>4, Zenon
  <1>7. CASE ReadChanged(w)
    <2> DEFINE d == [set |-> FileLocks, data |-> FileLocks, info |-> info[w]]
    <2>1. pc[w] = "read" /\ SetCache(ProcOf[w], d)
      BY <1>7, Zenon DEF ReadChanged, HaveSet
    <2>2. file # None /\ info[w] = Info(file)
      BY <2>1, ZenonT(30) DEF ControlInv, Placed
    <2>3. Genuine(d) /\ d.set = d.data
      BY <1>5, <2>2 DEF Genuine
    <2>4. QED
      BY <1>3, <2>1, <2>3, ZenonT(30)
  <1>8. CASE Restat(w)
    <2> DEFINE d == [set |-> work[w], data |-> work[w], info |-> Info(file)]
    <2>1. pc[w] = "restat" /\ (SetCache(ProcOf[w], d) \/ SetCache(ProcOf[w], None))
      BY <1>8, Zenon DEF Restat, Goto
    <2>2. file # None /\ work[w] = FileLocks
      BY <2>1, Zenon DEF ControlInv, Placed, WriterInv, WriterKnows
    <2>3. Genuine(d) /\ d.set = d.data
      BY <1>5, <2>2 DEF Genuine
    <2> HIDE DEF d
    <2>4. QED
      BY <1>3, <2>1, <2>3, Zenon
  <1>9. QED
    BY <1>4, <1>6, <1>7, <1>8, Zenon

\* A rename gives the file a stamp no entry has, when stamps do not come back.
LEMMA RenameStep ==
  ASSUME IInv, NEW w \in Workers, Rename(w)
  PROVE  CacheInv'
  <1> TypeOK /\ ControlInv /\ CacheInv
    BY Zenon DEF IInv
  <1>1. PICK s \in NewStamps : /\ file' = [locks |-> work[w], stamp |-> s]
                              /\ stamp' = IF s > stamp THEN s ELSE stamp
    BY Zenon DEF Rename
  <1>2. s \in Nat /\ stamp \in Nat /\ file'.stamp = s /\ (MtimeAdvances => s = stamp + 1)
    BY <1>1 DEF TypeOK, NewStamps
  <1>3. s <= stamp' /\ stamp <= stamp'
    BY <1>1, <1>2
  <1>4. ASSUME NEW e \in CacheEntry, Genuine(e), MtimeAdvances
        PROVE  e.info.stamp <= stamp' /\ e.info.stamp # file'.stamp
    <2>1. e.info.stamp \in Nat /\ e.info.stamp <= stamp
      BY <1>4 DEF CacheEntry, FileInfo, Genuine
    <2>2. stamp' = stamp + 1
      BY <1>1, <1>2, <1>4
    <2>3. QED
      BY <1>2, <1>4, <2>1, <2>2
  <1>5. Step(w) /\ UNCHANGED <<cache, seen, muW>>
    BY Zenon DEF Step, Rename, memVars, lockVars
  <1>6. pc[w] = "rename" /\ pc'[w] = "restat"
    BY Zenon DEF TypeOK, Rename, Goto
  <1>7. \A p \in Procs : BeingChanged(p) => BeingChanged(p)'
    BY <1>5, <1>6, ChangeGoesOn
  <1>8. ASSUME NEW v \in Workers, pc'[v] = "faststat" PROVE pc[v] = "faststat"
    <2>1. v # w
      BY <1>6, <1>8
    <2>2. QED
      BY <1>5, <1>8, <2>1, OthersStay, Zenon
  <1>9. ASSUME NEW v \in Workers, pc'[v] = "faststat"
        PROVE  Genuine(seen[v])' /\ seen'[v].set = seen'[v].data
    <2>1. seen'[v] = seen[v] /\ pc[v] = "faststat"
      BY <1>5, <1>8, <1>9, Zenon
    <2>2. seen[v] \in CacheEntry /\ Genuine(seen[v]) /\ seen[v].set = seen[v].data
      BY <2>1, Zenon DEF TypeOK, ControlInv, Placed, CacheInv
    <2>3. QED
      BY <1>4, <2>1, <2>2, Zenon DEF Genuine
  <1>10. ASSUME NEW p \in Procs, cache'[p] # None
         PROVE  Genuine(cache[p])' /\ (~BeingChanged(p)' => cache'[p].set = cache'[p].data)
    <2>1. cache'[p] = cache[p]
      BY <1>5, Zenon
    <2>2. /\ cache[p] \in CacheEntry /\ Genuine(cache[p])
          /\ ~BeingChanged(p) => cache[p].set = cache[p].data
      BY <1>10, <2>1 DEF TypeOK, CacheInv
    <2>3. QED
      BY <1>4, <1>7, <2>1, <2>2, Zenon DEF Genuine
  <1>11. QED
    BY <1>2, <1>3, <1>9, <1>10, Zenon DEF CacheInv

\* What List sees when it looks at the cache is honest: no writer is inside.
LEMMA PeekStep ==
  ASSUME IInv, NEW w \in Workers, PeekCache(w)
  PROVE  CacheInv'
  <1> TypeOK /\ ControlInv /\ MutexInv /\ CacheInv /\ ProcOf[w] \in Procs
    BY ProcsAssumption, Zenon DEF IInv
  <1>1. /\ pc[w] = "peek" /\ Step(w)
        /\ file' = file /\ stamp' = stamp /\ cache' = cache /\ muW' = muW
    BY Zenon DEF PeekCache, Goto, Step, diskVars, lockVars
  <1>2. ~BeingChanged(ProcOf[w])
    BY <1>1, ZenonT(30) DEF ControlInv, Placed, MutexInv, InMutex, Steps, BeingChanged
  <1>3. ASSUME NEW v \in Workers, v # w PROVE pc'[v] = pc[v] /\ seen'[v] = seen[v]
    <2>1. pc'[v] = pc[v]
      BY <1>1, <1>3, OthersStay, Zenon
    <2>2. QED
      BY <1>3, <2>1 DEF PeekCache, TypeOK
  <1>4. \A p \in Procs : BeingChanged(p) => BeingChanged(p)'
    BY <1>1, ChangeGoesOn
  <1>5. CASE pc'[w] = "faststat"
    <2>1. cache[ProcOf[w]] # None /\ seen'[w] = cache[ProcOf[w]]
      BY <1>5 DEF PeekCache, Goto, TypeOK
    <2>2. Genuine(seen'[w]) /\ seen'[w].set = seen'[w].data
      BY <1>2, <2>1, Zenon DEF CacheInv
    <2>3. \A v \in Workers : pc'[v] = "faststat" => Genuine(seen'[v]) /\ seen'[v].set = seen'[v].data
      BY <1>3, <2>2, Zenon DEF CacheInv
    <2>4. QED
      BY <1>1, <1>4, <2>3, ZenonT(30) DEF CacheInv, Genuine, FileLocks
  <1>6. CASE pc'[w] # "faststat"
    BY <1>1, <1>3, <1>4, <1>6, CacheFrame, Zenon
  <1>7. QED
    BY <1>5, <1>6

\* A crash empties the cache of the process that dies.
LEMMA CrashStep ==
  ASSUME IInv, NEW q \in Procs, Crash(q)
  PROVE  CacheInv'
  <1> TypeOK /\ MutexInv /\ CacheInv
    BY Zenon DEF IInv
  <1>1. file' = file /\ stamp' = stamp /\ cache' = [cache EXCEPT ![q] = None]
    BY Zenon DEF Crash, SetCache, diskVars
  <1>2. ASSUME NEW v \in Workers PROVE IF ProcOf[v] = q THEN pc'[v] = "idle"
                                       ELSE pc'[v] = pc[v] /\ seen'[v] = seen[v]
    BY DEF Crash
  <1>3. \A v \in Workers : pc'[v] = "faststat" => pc[v] = "faststat" /\ seen'[v] = seen[v]
    BY <1>2
  <1>4. ASSUME NEW p \in Procs, p # q, BeingChanged(p) PROVE BeingChanged(p)'
    <2>1. muW'[p] = muW[p] /\ muW[p] \in Workers /\ muW[p] # None /\ ProcOf[muW[p]] = p
      BY <1>4 DEF Crash, TypeOK, MutexInv, BeingChanged
    <2>2. QED
      BY <1>2, <1>4, <2>1, Zenon DEF BeingChanged
  <1>5. \A p \in Procs : cache'[p] = IF p = q THEN None ELSE cache[p]
    BY <1>1 DEF TypeOK
  <1>6. QED
    BY <1>1, <1>3, <1>4, <1>5, CacheFrame, Zenon

\* Cache entries stay honest.
LEMMA CacheStep == IStep => CacheInv'
  <1> SUFFICES ASSUME IInv, [Next]_vars PROVE CacheInv'
    BY DEF IStep
  <1> TypeOK /\ CacheInv
    BY Zenon DEF IInv
  <1>1. ASSUME NEW w \in Workers, Begin(w) \/ Step(w) PROVE CacheInv'
    BY <1>1, QuietStep, PeekStep, ReadStep, MutateStep, RenameStep, Zenon DEF Touches
  <1>2. CASE UNCHANGED vars
    BY <1>2, Zenon DEF vars, memVars, lockVars, diskVars, CacheInv, Genuine, BeingChanged, FileLocks
  <1>3. QED
    BY <1>1, <1>2, CrashStep, Zenon DEF Next

-----------------------------------------------------------------------------
(* The theorems. *)

\* IInv is an invariant of the store.
THEOREM Inductive == Spec => []IInv
  <1>1. IInv /\ [Next]_vars => IInv'
    BY TypeStep, ControlStep, AnswerStep, MutexStep, FlockStep, WriterStep,
       IssuedStep, UniqueStep, CacheStep, Zenon
    DEF IInv, IStep
  <1>2. QED
    BY <1>1, InitIInv, PTL DEF Spec

\* The store's variables keep their types.
THEOREM TypeCorrect == Spec => []TypeOK
  BY Inductive, PTL DEF IInv

\* However many processes and goroutines race, fail or crash, the lock file
\* never holds two locks on one path or with one ID.
THEOREM NoDoubleLock == Spec => []OneLockPerPath
  BY Inductive, PTL DEF IInv

\* Outside a save in progress a process's cached set is what its cached bytes
\* say, and is the file's when the metadata agree and cannot come back.
THEOREM CacheIsHonest == Spec => []CacheHonest
  <1>1. IInv => CacheHonest
    <2> SUFFICES ASSUME IInv, NEW p \in Procs, cache[p] # None, ~BeingChanged(p)
                 PROVE  /\ cache[p].set = cache[p].data
                        /\ MtimeAdvances /\ file # None /\ cache[p].info = Info(file)
                              => cache[p].set = FileLocks
      BY DEF CacheHonest
    <2>1. Genuine(cache[p]) /\ cache[p].set = cache[p].data
      BY DEF IInv, CacheInv
    <2>2. cache[p].info = Info(file) => cache[p].info.stamp = file.stamp
      BY SMTT(30) DEF Info
    <2>3. QED
      BY <2>1, <2>2 DEF Genuine
  <1>2. QED
    BY <1>1, Inductive, PTL

\* Only its own deciding steps set a worker's answer.
LEMMA OthersDoNotAnswer ==
  ASSUME IInv, Next, NEW w \in Workers, res'[w] # res[w], res'[w] # None
  PROVE  \/ FastStatHit(w) \/ FlockFails(w) \/ ReadFails(w) \/ SaveFails(w)
         \/ CreateExists(w) \/ UnlockRefused(w) \/ Rename(w)
         \/ IsList(w) /\ (StatMissing(w) \/ ReadUnchanged(w) \/ ReadChanged(w))
  <1> TypeOK /\ ControlInv /\ res \in [Workers -> Answer \cup {None}]
    BY Zenon DEF IInv, TypeOK
  <1>1. ASSUME NEW p \in Procs, Crash(p) PROVE FALSE
    BY <1>1, CrashResets, Zenon
  <1>2. ASSUME NEW v \in Workers, Begin(v) \/ Step(v), v # w PROVE FALSE
    <2>1. \/ res' = res \/ ReleaseMutex(v)
          \/ \E k \in AnswerKinds, S \in SUBSET Lock : Decided(v, Answers(k, S))
      BY <1>2, Moves, Answered, Zenon
    <2>2. res' = res \/ \E x : res' = [res EXCEPT ![v] = x]
      BY <2>1, Zenon DEF Decided, ReleaseMutex
    <2>3. QED
      BY <1>2, <2>2, Zenon
  <1>3. Begin(w) \/ Step(w)
    BY <1>1, <1>2, Zenon DEF Next
  <1>4. ~ReleaseMutex(w)
    BY Zenon DEF ReleaseMutex
  <1>5. QED
    BY <1>3, <1>4, Moves, Zenon

\* A lock leaves the file only for an unlock of that lock by its owner or with
\* force.
THEOREM OwnersKeepLocks == Spec => ReleasedOnlyByOwner
  <1>1. ASSUME IInv, [Next]_vars, NEW l \in FileLocks, l \notin FileLocks'
        PROVE  ReleaseAsked(l)
    <2>1. PICK w \in Workers : Rename(w)
      BY <1>1, OnlyRenameWrites DEF FileLocks
    <2>2. /\ req[w].op = "unlock" /\ l = target[w]
          /\ req[w].id = l.id /\ MayRelease(l, req[w])
      BY <1>1, <2>1, RenameWrites, Zenon
    <2>3. pc[w] = "rename" /\ req[w] # None
      BY <1>1, <2>1 DEF Rename, Goto, IInv, ControlInv, Placed
    <2>4. QED
      BY <2>2, <2>3 DEF ReleaseAsked
  <1>2. IInv /\ [Next]_vars => [ReleaseStep]_vars
    BY <1>1 DEF ReleaseStep
  <1>3. QED
    BY <1>2, Inductive, PTL DEF Spec, ReleasedOnlyByOwner

\* A worker between taking the mutex and its answer is serving a request, and has
\* not answered it.
LEMMA Unanswered ==
  ASSUME IInv, NEW w \in Workers,
         pc[w] \in {"mu", "peek", "faststat", "flock", "stat", "read", "decide", "write", "rename"}
  PROVE  req[w] # None /\ res[w] = None
  <1>1. Placed(w) /\ (res[w] # None <=> pc[w] \in Cleaning)
    BY Zenon DEF IInv, ControlInv, AnswerInv
  <1>2. QED
    BY <1>1 DEF Placed, Cleaning

\* A List that decides answers with the file's present locks, provided no two
\* versions of the file share inode and modification time.
LEMMA ListAnswers ==
  ASSUME MtimeAdvances, IInv, NEW w \in Workers,
         \/ FastStatHit(w)
         \/ IsList(w) /\ (StatMissing(w) \/ ReadUnchanged(w) \/ ReadChanged(w))
  PROVE  /\ Decided(w, Answers("listed", FileLocks)) /\ UNCHANGED <<file, req>>
         /\ IsList(w) /\ req[w] # None /\ res[w] = None
  <1>1. CASE FastStatHit(w)
    <2>1. /\ pc[w] = "faststat" /\ file # None /\ seen[w].info = Info(file)
          /\ Decided(w, Answers("listed", seen[w].set)) /\ UNCHANGED <<file, req>>
      BY <1>1, Zenon DEF FastStatHit, Goto, diskVars
    <2>2. IsList(w)
      BY <2>1 DEF IInv, ControlInv, Placed
    <2>3. Genuine(seen[w]) /\ seen[w].set = seen[w].data
      BY <2>1, Zenon DEF IInv, CacheInv
    <2>4. seen[w].info.stamp = file.stamp
      BY <2>1 DEF Info
    <2>5. seen[w].set = FileLocks
      BY <2>1, <2>3, <2>4, Zenon DEF Genuine
    <2>6. QED
      BY <2>1, <2>2, <2>5, Unanswered
  <1>2. CASE IsList(w) /\ (StatMissing(w) \/ ReadUnchanged(w) \/ ReadChanged(w))
    <2>1. /\ pc[w] = "stat" \/ pc[w] = "read"
          /\ UNCHANGED <<file, req>>
      BY <1>2, Zenon DEF StatMissing, ReadUnchanged, ReadChanged, HaveSet, diskVars
    <2>2. Decided(w, Answers("listed", FileLocks))
      BY <1>2, CachedIsFile, Zenon DEF StatMissing, ReadUnchanged, ReadChanged, HaveSet, FileLocks
    <2>3. QED
      BY <1>2, <2>1, <2>2, Unanswered
  <1>3. QED
    BY <1>1, <1>2, Zenon

\* Every listing is the file's content when List decides, under that proviso.
THEOREM ListsAreCurrent == MtimeAdvances => (Spec => ListIsCurrent)
  <1> SUFFICES ASSUME MtimeAdvances PROVE Spec => ListIsCurrent
    OBVIOUS
  <1>1. ASSUME IInv, Next, NEW w \in Workers,
               res'[w] # res[w], res'[w] # None, res'[w].kind = "listed"
        PROVE  res'[w].locks = FileLocks
    <2>1. res \in [Workers -> Answer \cup {None}]
      BY <1>1, Zenon DEF IInv, TypeOK
    <2>2. ASSUME NEW k, NEW S, Decided(w, Answers(k, S))
          PROVE  k = "listed" /\ res'[w].locks = S
      BY <1>1, <2>1, <2>2 DEF Decided, Answers
    <2>3. CASE \/ FlockFails(w) \/ ReadFails(w) \/ SaveFails(w) \/ CreateExists(w)
               \/ UnlockRefused(w) \/ Rename(w)
      <3>1. \E k \in {"error", "exists", "notfound", "notowner", "created", "removed"} :
               \E S : Decided(w, Answers(k, S))
        BY <2>3, Zenon
        DEF FlockFails, ReadFails, SaveFails, Failed, CreateExists, UnlockRefused, Rename
      <3>2. "listed" \notin {"error", "exists", "notfound", "notowner", "created", "removed"}
        OBVIOUS
      <3>3. QED
        BY <2>2, <3>1, <3>2, Zenon
    <2>4. QED
      BY <1>1, <2>2, <2>3, OthersDoNotAnswer, ListAnswers, Zenon
  <1>2. IInv /\ [Next]_vars => [ListStep]_vars
    BY <1>1, Zenon DEF ListStep
  <1>3. QED
    BY <1>2, Inductive, PTL DEF Spec, ListIsCurrent

\* The abstract table's vocabulary is the store's own.
LEMMA SameVocabulary ==
  /\ \A k, S : Table!Answers(k, S) = Answers(k, S)
  /\ \A S, x : Table!byPath(S, x) = byPath(S, x) /\ Table!byID(S, x) = byID(S, x)
  /\ \A l, r : Table!MayRelease(l, r) <=> MayRelease(l, r)
  /\ Table!Failed = Failed
  BY DEF Table!Answers, Answers, Table!byPath, byPath, Table!byID, byID, Table!Failed,
         Failed, Table!MayRelease, MayRelease, Table!EqualFold, EqualFold

\* The steps at which a worker only prepares or cleans up leave the table alone.
LEMMA SilentRefines ==
  ASSUME NEW w \in Workers,
         \/ LockMutex(w) \/ RLockMutex(w) \/ PeekCache(w) \/ FastStatMiss(w)
         \/ FlockExclusive(w) \/ FlockShared(w) \/ StatFile(w)
         \/ CreateAdds(w) \/ UnlockRemoves(w) \/ WriteTemp(w)
         \/ Restat(w) \/ ReleaseFlock(w)
         \/ ~IsList(w) /\ (StatMissing(w) \/ ReadUnchanged(w) \/ ReadChanged(w))
  PROVE  UNCHANGED Table!vars
  <1>1. UNCHANGED <<file, req, res>>
    BY ZenonT(30)
    DEF diskVars, LockMutex, RLockMutex, PeekCache, FastStatMiss, FlockExclusive,
        FlockShared, StatFile, CreateAdds, UnlockRemoves, WriteTemp, Restat, ReleaseFlock,
        StatMissing, ReadUnchanged, ReadChanged, HaveSet
  <1>2. QED
    BY <1>1, Zenon DEF Table!vars, FileLocks

\* A call, a failure and a return are those of the table.
LEMMA EndsRefine ==
  ASSUME IInv, NEW w \in Workers
  PROVE  /\ Begin(w) => Table!Call(w)
         /\ FlockFails(w) \/ ReadFails(w) \/ SaveFails(w) => Table!Fail(w)
         /\ ReleaseMutex(w) => Table!Return(w)
  <1>1. ASSUME Begin(w) PROVE Table!Call(w)
    <2>1. pc[w] = "idle" /\ Placed(w)
      BY <1>1, Zenon DEF Begin, Goto, IInv, ControlInv
    <2>2. req[w] = None
      BY <2>1, Zenon DEF Placed
    <2>3. QED
      BY <1>1, <2>2, Zenon DEF Begin, diskVars, Table!Call, FileLocks
  <1>2. ASSUME FlockFails(w) \/ ReadFails(w) \/ SaveFails(w) PROVE Table!Fail(w)
    <2>1. /\ res' = [res EXCEPT ![w] = Failed] /\ req' = req /\ FileLocks' = FileLocks
          /\ pc[w] \in {"flock", "stat", "read", "write", "rename"}
      BY <1>2, Zenon DEF FlockFails, ReadFails, SaveFails, Decided, diskVars, Goto, FileLocks
    <2>2. req[w] # None /\ res[w] = None
      BY <2>1, Unanswered
    <2>3. QED
      BY <2>1, <2>2, SameVocabulary, Zenon DEF Table!Fail, Table!Settle
  <1>3. ASSUME ReleaseMutex(w) PROVE Table!Return(w)
    <2>1. pc[w] \in Cleaning
      BY <1>3, Zenon DEF ReleaseMutex, Goto, Cleaning
    <2>2. res[w] # None
      BY <2>1, Zenon DEF IInv, AnswerInv
    <2>3. QED
      BY <1>3, <2>2, Zenon DEF ReleaseMutex, diskVars, Table!Return, FileLocks
  <1>4. QED
    BY <1>1, <1>2, <1>3, Zenon

\* What a worker decides from its set, the table decides from its own.
LEMMA DecisionRefines ==
  ASSUME IInv, NEW w \in Workers
  PROVE  /\ CreateExists(w) => Table!Create(w)
         /\ UnlockRefused(w) => Table!Unlock(w)
  <1>1. CASE pc[w] = "decide"
    <2>1. req[w] # None /\ res[w] = None
      BY <1>1, Unanswered
    <2>2. work[w] = FileLocks
      BY <1>1, Zenon DEF IInv, WriterInv, WriterKnows
    <2>3. CreateExists(w) => Table!Create(w)
      BY <2>1, <2>2, SameVocabulary, Zenon
      DEF CreateExists, Decided, diskVars, Table!Create, Table!Pending, Table!Settle, FileLocks
    <2>4. UnlockRefused(w) => Table!Unlock(w)
      BY <2>1, <2>2, SameVocabulary, Zenon
      DEF UnlockRefused, Decided, diskVars, Table!Unlock, Table!Pending, Table!Settle, FileLocks
    <2>5. QED
      BY <2>3, <2>4, Zenon
  <1>2. QED
    BY <1>1, Zenon DEF CreateExists, UnlockRefused, Goto

\* The rename is where a create or an unlock takes effect.
LEMMA RenameRefines ==
  ASSUME IInv, NEW w \in Workers, Rename(w)
  PROVE  Table!Create(w) \/ Table!Unlock(w)
  <1>1. /\ pc[w] = "rename" /\ req' = req /\ WriterKnows(w) /\ TypeOK
        /\ Decided(w, Answers(IF req[w].op = "create" THEN "created" ELSE "removed", {target[w]}))
    BY Zenon DEF Rename, Goto, IInv, WriterInv
  <1>2. req[w] # None /\ res[w] = None
    BY <1>1, Unanswered, ZenonT(30)
  <1>3. target[w] \in Lock
    BY <1>1 DEF IInv, TypeOK, ControlInv, Placed
  <1>4. FileLocks' = work[w]
    BY <1>1, RenameLeavesFile, Zenon
  <1>5. CASE req[w].op = "create"
    <2>1. target[w].id \in Ids
      BY <1>3, ZenonT(30) DEF Lock
    <2>2. /\ byID(FileLocks, target[w].id) = {} /\ byPath(FileLocks, req[w].path) = {}
          /\ FileLocks' = FileLocks \cup {target[w]}
          /\ target[w] = [id |-> target[w].id, path |-> req[w].path, owner |-> req[w].owner]
      BY <1>1, <1>4, <1>5, ZenonT(30) DEF WriterKnows
    <2>3. Table!Settle(w, Answers("created", {target[w]}))
      BY <1>1, <1>2, <1>5, Zenon DEF Decided, Table!Settle
    <2>4. QED
      BY <1>2, <1>5, <2>1, <2>2, <2>3, SameVocabulary, Zenon DEF Table!Create, Table!Pending
  <1>6. CASE req[w].op = "unlock"
    <2>1. "unlock" # "create"
      OBVIOUS
    <2>2. Table!Settle(w, Answers("removed", {target[w]}))
      BY <1>1, <1>2, <1>6, <2>1, Zenon DEF Decided, Table!Settle
    <2>3. /\ target[w] \in byID(FileLocks, req[w].id) /\ MayRelease(target[w], req[w])
          /\ FileLocks' = FileLocks \ {target[w]}
      BY <1>1, <1>4, <1>6, ZenonT(30) DEF WriterKnows
    <2>4. QED
      BY <1>2, <1>6, <2>2, <2>3, SameVocabulary, Zenon DEF Table!Unlock, Table!Pending
  <1>7. req[w].op \in {"create", "unlock", "list"} /\ req[w].op # "list"
    BY <1>1, <1>2, OpCases DEF IInv, ControlInv, Placed, IsList
  <1>8. QED
    BY <1>5, <1>6, <1>7

\* The file-backed store implements the abstract lock table: each operation
\* takes effect on the file at one instant, or fails and changes nothing.
THEOREM Refinement == MtimeAdvances => (Spec => ImplementsLockTable)
  <1> SUFFICES ASSUME MtimeAdvances PROVE Spec => ImplementsLockTable
    OBVIOUS
  <1>1. Init => Table!Init
    BY ZenonT(30) DEF Init, Table!Init, FileLocks
  <1>2. IInv /\ [Next]_vars => [Table!Next]_(Table!vars)
    <2> SUFFICES ASSUME IInv, [Next]_vars PROVE [Table!Next]_(Table!vars)
      OBVIOUS
    <2>1. ASSUME NEW w \in Workers, Begin(w) \/ Step(w)
          PROVE  UNCHANGED Table!vars \/ \E v \in Workers :
                    \/ Table!Call(v) \/ Table!Create(v) \/ Table!Unlock(v)
                    \/ Table!List(v) \/ Table!Fail(v) \/ Table!Return(v)
      <3>1. CASE \/ FastStatHit(w)
                 \/ IsList(w) /\ (StatMissing(w) \/ ReadUnchanged(w) \/ ReadChanged(w))
        <4>1. Table!List(w)
          BY <3>1, ListAnswers, SameVocabulary, ZenonT(30)
          DEF IsList, Decided, FileLocks, Table!List, Table!Pending, Table!Settle
        <4>2. QED
          BY <4>1
      <3>2. QED
        BY <2>1, <3>1, SilentRefines, EndsRefine, DecisionRefines, RenameRefines, Zenon DEF Step
    <2>2. ASSUME NEW p \in Procs, Crash(p)
          PROVE  Table!Abandon({w \in Workers : ProcOf[w] = p})
      BY <2>2, ZenonT(30) DEF Crash, diskVars, Table!Abandon, FileLocks
    <2>3. CASE UNCHANGED vars
      BY <2>3, Zenon DEF vars, diskVars, Table!vars, FileLocks
    <2>4. QED
      BY <2>1, <2>2, <2>3, Zenon DEF Next, Table!Next
  <1>3. QED
    BY <1>1, <1>2, Inductive, PTL DEF Spec, ImplementsLockTable, Table!Spec
=============================================================================
