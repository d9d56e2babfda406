----------------------------- MODULE LockStore -----------------------------
(***************************************************************************)
(* FileLockStore (lfs/locks.go): the locks of one endpoint, kept in a JSON *)
(* file that several server processes share.  A process serialises its own *)
(* goroutines with an RWMutex, the processes serialise among themselves    *)
(* with flock on locks.json.lock, and each process caches the parsed file  *)
(* next to the bytes and the metadata it was read from.                    *)
(*                                                                         *)
(* Each worker serves one request at a time; its pc is the next statement  *)
(* of Create, Unlock or List that other workers can observe.  The set that *)
(* readLocks returns is the very object the cache holds, so a writer's     *)
(* add or remove also changes the cached set, before anything is saved.    *)
(*                                                                         *)
(* ctx is only examined on entry, before any state is touched: a request   *)
(* whose client has left by then is one that is never begun, and a client  *)
(* that leaves later changes nothing.                                      *)
(***************************************************************************)
EXTENDS LockTypes

CONSTANTS
    Procs,           \* server processes that share the base path
    ProcOf,          \* ProcOf[w]: the process worker w runs in
    MtimeAdvances,   \* TRUE: no two versions of the file share inode and mtime
    MaxOps,          \* bound: requests begun
    MaxCrashes       \* bound: process crashes

ASSUME ProcsAssumption == ProcOf \in [Workers -> Procs]

ASSUME MtimeAssumption == MtimeAdvances \in BOOLEAN

ASSUME BoundsAssumption == MaxOps \in Nat /\ MaxCrashes \in Nat

VARIABLES
    pc,        \* pc[w]: next step of worker w
    req,       \* req[w]: request being served, or None
    res,       \* res[w]: its answer once decided, or None
    seen,      \* seen[w]: cache entry loadLocks looked at, or None
    info,      \* info[w]: metadata readLocks got from os.Stat, or None
    work,      \* work[w]: contents of the lock set the worker holds
    target,    \* target[w]: lock being added or removed, or None
    muW,       \* muW[p]: holder of p's endpoint mutex for writing, or None
    muR,       \* muR[p]: holders of p's endpoint mutex for reading
    flX,       \* holder of the exclusive file lock, or None
    flS,       \* holders of the shared file lock
    cache,     \* cache[p]: p's cachedLocks, or None
    file,      \* locks.json, or None before it is first written
    stamp,     \* highest (inode, mtime) stamp given to a file version
    issued,    \* IDs uuid.New has returned
    ops,       \* requests begun
    crashes    \* crashes so far

memVars  == <<seen, info, work, target>>
lockVars == <<muW, muR, flX, flS>>
diskVars == <<file, stamp>>
countVars == <<ops, crashes>>
vars == <<pc, req, res, memVars, lockVars, cache, diskVars, issued, countVars>>

(***************************************************************************)
(* os.FileInfo as loadLocks compares it: SameFile and ModTime together are *)
(* the stamp, Size is the number of locks (the model's locks all take the  *)
(* same room in the file).                                                 *)
(***************************************************************************)
Version == [locks : SUBSET Lock, stamp : Nat]

Info(f) == [stamp |-> f.stamp, size |-> Cardinality(f.locks)]

FileInfo == [stamp : Nat, size : {Cardinality(S) : S \in SUBSET Lock}]

CacheEntry == [set : SUBSET Lock, data : SUBSET Lock, info : FileInfo]

ASSUME NoVersionAssumption ==
    None \notin Version /\ None \notin FileInfo /\ None \notin CacheEntry

FileLocks == IF file = None THEN {} ELSE file.locks

Steps == {"idle", "mu", "peek", "faststat", "flock", "stat", "read", "decide",
          "write", "rename", "restat", "funlock", "munlock"}

Init ==
    /\ pc = [w \in Workers |-> "idle"]
    /\ req = [w \in Workers |-> None]
    /\ res = [w \in Workers |-> None]
    /\ seen = [w \in Workers |-> None]
    /\ info = [w \in Workers |-> None]
    /\ work = [w \in Workers |-> {}]
    /\ target = [w \in Workers |-> None]
    /\ muW = [p \in Procs |-> None]
    /\ muR = [p \in Procs |-> {}]
    /\ flX = None
    /\ flS = {}
    /\ cache = [p \in Procs |-> None]
    /\ file = None
    /\ stamp = 0
    /\ issued = {}
    /\ ops = 0
    /\ crashes = 0

Goto(w, from, to) ==
    /\ pc[w] = from
    /\ pc' = [pc EXCEPT ![w] = to]

Decided(w, answer) == res' = [res EXCEPT ![w] = answer]

SetCache(p, entry) == cache' = [cache EXCEPT ![p] = entry]

IsList(w) == req[w].op = "list"

-----------------------------------------------------------------------------
(* A request arrives, and its goroutine takes the endpoint's locks. *)

Begin(w) ==
    /\ Goto(w, "idle", "mu")
    /\ ops < MaxOps
    /\ \E r \in Requests : req' = [req EXCEPT ![w] = r]
    /\ ops' = ops + 1
    /\ UNCHANGED <<res, memVars, lockVars, cache, diskVars, issued, crashes>>

\* lockEndpoint: mu.Lock ...
LockMutex(w) ==
    /\ Goto(w, "mu", "flock")
    /\ ~IsList(w)
    /\ muW[ProcOf[w]] = None
    /\ muR[ProcOf[w]] = {}
    /\ muW' = [muW EXCEPT ![ProcOf[w]] = w]
    /\ UNCHANGED <<req, res, memVars, muR, flX, flS, cache, diskVars, issued, countVars>>

\* ... and List: mu.RLock.
RLockMutex(w) ==
    /\ Goto(w, "mu", "peek")
    /\ IsList(w)
    /\ muW[ProcOf[w]] = None
    /\ muR' = [muR EXCEPT ![ProcOf[w]] = @ \cup {w}]
    /\ UNCHANGED <<req, res, memVars, muW, flX, flS, cache, diskVars, issued, countVars>>

\* loadLocks: look at the cache entry, if there is one ...
PeekCache(w) ==
    /\ Goto(w, "peek", IF cache[ProcOf[w]] = None THEN "flock" ELSE "faststat")
    /\ seen' = [seen EXCEPT ![w] = cache[ProcOf[w]]]
    /\ UNCHANGED <<req, res, info, work, target, lockVars, cache, diskVars, issued, countVars>>

\* Mutant: any cache entry is trusted while the file exists.
FastStatTrusting(w) ==
    /\ Goto(w, "faststat", "munlock")
    /\ file # None
    /\ Decided(w, Answers("listed", seen[w].set))
    /\ UNCHANGED <<req, memVars, lockVars, cache, diskVars, issued, countVars>>

\* ... then stat the file, without the file lock, and trust an entry whose
\* metadata agrees;
FastStatHit(w) ==
    /\ Goto(w, "faststat", "munlock")
    /\ file # None
    /\ seen[w].info = Info(file)
    /\ Decided(w, Answers("listed", seen[w].set))
    /\ UNCHANGED <<req, memVars, lockVars, cache, diskVars, issued, countVars>>

\* a failed stat, and one that differs, go on to read the file.
FastStatMiss(w) ==
    /\ Goto(w, "faststat", "flock")
    /\ UNCHANGED <<req, res, memVars, lockVars, cache, diskVars, issued, countVars>>

\* Mutant: writers take the file lock in shared mode.
FlockNotExclusive(w) ==
    /\ Goto(w, "flock", "stat")
    /\ ~IsList(w)
    /\ flX' = w
    /\ UNCHANGED <<req, res, memVars, muW, muR, flS, cache, diskVars, issued, countVars>>

\* acquireFileLock with lockFile (writers) and lockFileShared (List).
FlockExclusive(w) ==
    /\ Goto(w, "flock", "stat")
    /\ ~IsList(w)
    /\ flX = None
    /\ flS = {}
    /\ flX' = w
    /\ UNCHANGED <<req, res, memVars, muW, muR, flS, cache, diskVars, issued, countVars>>

FlockShared(w) ==
    /\ Goto(w, "flock", "stat")
    /\ IsList(w)
    /\ flX = None
    /\ flS' = flS \cup {w}
    /\ UNCHANGED <<req, res, memVars, muW, muR, flX, cache, diskVars, issued, countVars>>

\* MkdirAll, OpenFile or the flock call fails: only the mutex is released.
FlockFails(w) ==
    /\ Goto(w, "flock", "munlock")
    /\ Decided(w, Failed)
    /\ UNCHANGED <<req, memVars, lockVars, cache, diskVars, issued, countVars>>

-----------------------------------------------------------------------------
(* readLocks, under the file lock. *)

\* What a finished readLocks leads to: List answers, a writer decides.
HaveSet(w, from, S) ==
    /\ pc[w] = from
    /\ IF IsList(w)
       THEN /\ Goto(w, from, "funlock")
            /\ Decided(w, Answers("listed", S))
            /\ work' = work
       ELSE /\ Goto(w, from, "decide")
            /\ work' = [work EXCEPT ![w] = S]
            /\ res' = res

StatMissing(w) ==
    /\ file = None
    /\ HaveSet(w, "stat", {})
    /\ SetCache(ProcOf[w], None)
    /\ UNCHANGED <<req, seen, info, target, lockVars, diskVars, issued, countVars>>

StatFile(w) ==
    /\ Goto(w, "stat", "read")
    /\ file # None
    /\ info' = [info EXCEPT ![w] = Info(file)]
    /\ UNCHANGED <<req, res, seen, work, target, lockVars, cache, diskVars, issued, countVars>>

\* The bytes are those the cached set was made from: keep the set, take the
\* new metadata.
ReadUnchanged(w) ==
    LET c == cache[ProcOf[w]]
    IN  /\ c # None
        /\ c.data = FileLocks
        /\ HaveSet(w, "read", c.set)
        /\ SetCache(ProcOf[w], [c EXCEPT !.info = info[w]])
        /\ UNCHANGED <<req, seen, info, target, lockVars, diskVars, issued, countVars>>

\* Otherwise parse the bytes into a new set and cache it.
ReadChanged(w) ==
    LET c == cache[ProcOf[w]]
    IN  /\ c # None => c.data # FileLocks
        /\ HaveSet(w, "read", FileLocks)
        /\ SetCache(ProcOf[w], [set |-> FileLocks, data |-> FileLocks, info |-> info[w]])
        /\ UNCHANGED <<req, seen, info, target, lockVars, diskVars, issued, countVars>>

\* Mutant: an error of readLocks returns with the file lock still held.
ReadFailsKeepingFlock(w) ==
    /\ Goto(w, "stat", "munlock") \/ Goto(w, "read", "munlock")
    /\ Decided(w, Failed)
    /\ UNCHANGED <<req, memVars, lockVars, cache, diskVars, issued, countVars>>

\* os.Stat, os.ReadFile or json.Unmarshal fails; the cache is left alone.
ReadFails(w) ==
    /\ Goto(w, "stat", "funlock") \/ Goto(w, "read", "funlock")
    /\ Decided(w, Failed)
    /\ UNCHANGED <<req, memVars, lockVars, cache, diskVars, issued, countVars>>

-----------------------------------------------------------------------------
(* The decisions of Create and Unlock, on the set readLocks returned. *)

\* set.add and set.remove work in place: the cache, when it has an entry,
\* holds this very set.
Mutate(w, S, l) ==
    /\ work' = [work EXCEPT ![w] = S]
    /\ target' = [target EXCEPT ![w] = l]
    /\ cache' = [cache EXCEPT ![ProcOf[w]] =
                    IF @ = None THEN None ELSE [@ EXCEPT !.set = S]]

CreateExists(w) ==
    /\ Goto(w, "decide", "funlock")
    /\ req[w].op = "create"
    /\ byPath(work[w], req[w].path) # {}
    /\ Decided(w, Answers("exists", byPath(work[w], req[w].path)))
    /\ UNCHANGED <<req, memVars, lockVars, cache, diskVars, issued, countVars>>

\* Mutant: one's own lock on the path does not count.
CreateOver(w) ==
    /\ Goto(w, "decide", "write")
    /\ req[w].op = "create"
    /\ \A l \in byPath(work[w], req[w].path) : l.owner = req[w].owner
    /\ \E i \in Ids \ issued :
          LET l == [id |-> i, path |-> req[w].path, owner |-> req[w].owner]
          IN  /\ Mutate(w, work[w] \cup {l}, l)
              /\ issued' = issued \cup {i}
    /\ UNCHANGED <<req, res, seen, info, lockVars, diskVars, countVars>>

CreateAdds(w) ==
    /\ Goto(w, "decide", "write")
    /\ req[w].op = "create"
    /\ byPath(work[w], req[w].path) = {}
    /\ \E i \in Ids \ issued :
          LET l == [id |-> i, path |-> req[w].path, owner |-> req[w].owner]
          IN  /\ Mutate(w, work[w] \cup {l}, l)
              /\ issued' = issued \cup {i}
    /\ UNCHANGED <<req, res, seen, info, lockVars, diskVars, countVars>>

UnlockRefused(w) ==
    /\ Goto(w, "decide", "funlock")
    /\ req[w].op = "unlock"
    /\ \/ /\ byID(work[w], req[w].id) = {}
          /\ Decided(w, Answers("notfound", {}))
       \/ \E l \in byID(work[w], req[w].id) :
             /\ ~MayRelease(l, req[w])
             /\ Decided(w, Answers("notowner", {}))
    /\ UNCHANGED <<req, memVars, lockVars, cache, diskVars, issued, countVars>>

UnlockRemoves(w) ==
    /\ Goto(w, "decide", "write")
    /\ req[w].op = "unlock"
    /\ \E l \in byID(work[w], req[w].id) :
          /\ MayRelease(l, req[w])
          /\ Mutate(w, work[w] \ {l}, l)
    /\ UNCHANGED <<req, res, seen, info, lockVars, diskVars, issued, countVars>>

-----------------------------------------------------------------------------
(* saveLocks and writeLockFile. *)

\* The temp file is created, written, synced and closed.
WriteTemp(w) ==
    /\ Goto(w, "write", "rename")
    /\ UNCHANGED <<req, res, memVars, lockVars, cache, diskVars, issued, countVars>>

\* Any step of writeLockFile up to and including the rename fails.
SaveFails(w) ==
    /\ Goto(w, "write", "funlock") \/ Goto(w, "rename", "funlock")
    /\ Decided(w, Failed)
    /\ SetCache(ProcOf[w], None)
    /\ UNCHANGED <<req, memVars, lockVars, diskVars, issued, countVars>>

\* The (inode, mtime) stamps a newly renamed file may have.  The inode of the
\* file it replaces is still in use when the temp file is created; any other
\* inode may come back, and within one tick of the file system's clock with
\* the same mtime, unless MtimeAdvances.
NewStamps ==
    IF MtimeAdvances
    THEN {stamp + 1}
    ELSE (1 .. stamp + 1) \ (IF file = None THEN {} ELSE {file.stamp})

Rename(w) ==
    /\ Goto(w, "rename", "restat")
    /\ \E s \in NewStamps :
          /\ file' = [locks |-> work[w], stamp |-> s]
          /\ stamp' = IF s > stamp THEN s ELSE stamp
    /\ Decided(w, Answers(IF req[w].op = "create" THEN "created" ELSE "removed",
                          {target[w]}))
    /\ UNCHANGED <<req, memVars, lockVars, cache, issued, countVars>>

\* Mutant: a stat that fails after the rename is reported as an error.
RestatReports(w) ==
    /\ Goto(w, "restat", "funlock")
    /\ \/ /\ SetCache(ProcOf[w], [set |-> work[w], data |-> work[w], info |-> Info(file)])
          /\ res' = res
       \/ /\ SetCache(ProcOf[w], None)
          /\ Decided(w, Failed)
    /\ UNCHANGED <<req, memVars, lockVars, diskVars, issued, countVars>>

\* Stat of the written file: cache it, or drop the cache when stat fails.
Restat(w) ==
    /\ Goto(w, "restat", "funlock")
    /\ \/ SetCache(ProcOf[w], [set |-> work[w], data |-> work[w], info |-> Info(file)])
       \/ SetCache(ProcOf[w], None)
    /\ UNCHANGED <<req, res, memVars, lockVars, diskVars, issued, countVars>>

-----------------------------------------------------------------------------
(* The deferred releases: the file lock first, then the mutex. *)

ReleaseFlock(w) ==
    /\ Goto(w, "funlock", "munlock")
    /\ flX' = IF flX = w THEN None ELSE flX
    /\ flS' = flS \ {w}
    /\ UNCHANGED <<req, res, memVars, muW, muR, cache, diskVars, issued, countVars>>

\* Locals are cleared so that states that differ only in them are one state.
ReleaseMutex(w) ==
    /\ Goto(w, "munlock", "idle")
    /\ muW' = [muW EXCEPT ![ProcOf[w]] = IF @ = w THEN None ELSE @]
    /\ muR' = [muR EXCEPT ![ProcOf[w]] = @ \ {w}]
    /\ req' = [req EXCEPT ![w] = None]
    /\ res' = [res EXCEPT ![w] = None]
    /\ seen' = [seen EXCEPT ![w] = None]
    /\ info' = [info EXCEPT ![w] = None]
    /\ work' = [work EXCEPT ![w] = {}]
    /\ target' = [target EXCEPT ![w] = None]
    /\ UNCHANGED <<flX, flS, cache, diskVars, issued, countVars>>

\* A process dies and starts again: its memory is gone, the kernel drops its
\* file locks, an unrenamed temp file is an orphan, locks.json is as it was.
Crash(p) ==
    LET dead == {w \in Workers : ProcOf[w] = p}
        Reset(f, v) == [w \in Workers |-> IF w \in dead THEN v ELSE f[w]]
    IN  /\ crashes < MaxCrashes
        /\ crashes' = crashes + 1
        /\ pc' = Reset(pc, "idle")
        /\ req' = Reset(req, None)
        /\ res' = Reset(res, None)
        /\ seen' = Reset(seen, None)
        /\ info' = Reset(info, None)
        /\ work' = Reset(work, {})
        /\ target' = Reset(target, None)
        /\ muW' = [muW EXCEPT ![p] = None]
        /\ muR' = [muR EXCEPT ![p] = {}]
        /\ flX' = IF flX \in dead THEN None ELSE flX
        /\ flS' = flS \ dead
        /\ SetCache(p, None)
        /\ UNCHANGED <<diskVars, issued, ops>>

\* The steps a goroutine takes once its request has begun.
Step(w) ==
    \/ LockMutex(w) \/ RLockMutex(w)
    \/ PeekCache(w) \/ FastStatHit(w) \/ FastStatMiss(w)
    \/ FlockExclusive(w) \/ FlockShared(w) \/ FlockFails(w)
    \/ StatMissing(w) \/ StatFile(w)
    \/ ReadUnchanged(w) \/ ReadChanged(w) \/ ReadFails(w)
    \/ CreateExists(w) \/ CreateAdds(w) \/ UnlockRefused(w) \/ UnlockRemoves(w)
    \/ WriteTemp(w) \/ SaveFails(w) \/ Rename(w) \/ Restat(w)
    \/ ReleaseFlock(w) \/ ReleaseMutex(w)

Next ==
    \/ \E w \in Workers : Begin(w)
    \/ \E w \in Workers : Step(w)
    \/ \E p \in Procs : Crash(p)

Spec == Init /\ [][Next]_vars

\* A goroutine that can go on is eventually scheduled; nothing is assumed about
\* who wins a contended mutex or file lock.  The flock call waits for as long as
\* another holds the file lock, so that failing is no way out of waiting for it.
FairSpec == Spec /\ \A w \in Workers : WF_vars(Step(w) /\ ~FlockFails(w))

-----------------------------------------------------------------------------
(* Properties *)

\* Every variable keeps its type: the pc's, locals, lock holders, cache entries
\* and file versions are those the code can produce.
TypeOK ==
    /\ pc \in [Workers -> Steps]
    /\ req \in [Workers -> Requests \cup {None}]
    /\ res \in [Workers -> Answer \cup {None}]
    /\ seen \in [Workers -> CacheEntry \cup {None}]
    /\ info \in [Workers -> FileInfo \cup {None}]
    /\ work \in [Workers -> SUBSET Lock]
    /\ target \in [Workers -> Lock \cup {None}]
    /\ muW \in [Procs -> Workers \cup {None}]
    /\ muR \in [Procs -> SUBSET Workers]
    /\ flX \in Workers \cup {None}
    /\ flS \in SUBSET Workers
    /\ cache \in [Procs -> CacheEntry \cup {None}]
    /\ file \in Version \cup {None}
    /\ stamp \in Nat
    /\ issued \in SUBSET Ids
    /\ ops \in Nat
    /\ crashes \in Nat

\* Whatever creates race, in whatever processes, crash or fail half-way, the
\* lock file never holds two locks on one path, nor two with one ID (Create's
\* byPath check, done under both locks on the file as it is).
OneLockPerPath ==
    \A l, m \in FileLocks : l.path = m.path \/ l.id = m.id => l = m

\* p's cached set may be ahead of the file: a writer of p has changed it in
\* place and has not yet saved it or dropped the entry.
BeingChanged(p) ==
    muW[p] # None /\ pc[muW[p]] \in {"write", "rename", "restat"}

\* Outside a save in progress the cached set is what its cached bytes say, and
\* an entry whose metadata is that of the file holds the file's locks: a save
\* that fails must not leave the set it had already changed in the cache
\* (saveLocks), and readLocks must not pair new metadata with old locks.
CacheHonest ==
    \A p \in Procs : cache[p] # None /\ ~BeingChanged(p) =>
        /\ cache[p].set = cache[p].data
        /\ MtimeAdvances /\ file # None /\ cache[p].info = Info(file)
               => cache[p].set = FileLocks

\* Some worker is serving a request that entitles it to release l.
ReleaseAsked(l) ==
    \E w \in Workers : /\ req[w] # None
                       /\ req[w].op = "unlock"
                       /\ req[w].id = l.id
                       /\ MayRelease(l, req[w])

ReleaseStep == \A l \in FileLocks : l \in FileLocks' \/ ReleaseAsked(l)

\* A lock leaves the file only when a request to unlock it is being served, by
\* its owner (letter case aside) or with force: no crash, failed save or stale
\* copy in another process ever drops someone's lock.
ReleasedOnlyByOwner == [][ReleaseStep]_vars

ListStep ==
    \A w \in Workers :
        res'[w] # res[w] /\ res'[w] # None /\ res'[w].kind = "listed"
            => res'[w].locks = FileLocks

\* A listing is the content of the lock file at the moment List decides, also
\* when it comes from the cache and another process has written the file
\* since (loadLocks: metadata unchanged means contents unchanged).
ListIsCurrent == [][ListStep]_vars

\* The store implements the abstract table: Create, Unlock and List each take
\* effect on the file at one instant, with the answer that table gives, and
\* one that reports an error has changed nothing.
Table == INSTANCE LockTable WITH table <- FileLocks

ImplementsLockTable == Table!Spec

\* Every request is answered or dies with its process, although it waits without
\* a timeout for the mutex and for the file lock: no error path keeps either of
\* them, a dying process gives both up, and no two workers wait for each other.
EveryRequestReturns ==
    \A w \in Workers : pc[w] # "idle" ~> pc[w] = "idle"
=============================================================================
