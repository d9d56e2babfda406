----------------------------- MODULE LockTypes -----------------------------
(***************************************************************************)
(* The vocabulary shared by the abstract lock table (LockTable) and the    *)
(* file-backed lock store that implements it (LockStore): lock records,    *)
(* requests, answers, and the two indexes of lfs/locks.go's lockSet.       *)
(*                                                                         *)
(* A lockSet (a sorted slice plus maps by ID and by path) is the set of    *)
(* its locks; the listing order and paging are the subject of LockPaging.  *)
(***************************************************************************)
EXTENDS Naturals, FiniteSets

CONSTANTS
    Workers,      \* request goroutines, of all the server processes
    Paths,        \* lockable paths
    Owners,       \* user names as the authenticator spells them
    Fold,         \* the case folding of a user name, as strings.EqualFold
    Ids,          \* lock IDs; uuid.New never returns one twice
    Requests,     \* the requests clients make
    None          \* the absent value

Lock == [id : Ids, path : Paths, owner : Owners]

CreateRequest == [op : {"create"}, path : Paths, owner : Owners]
UnlockRequest == [op : {"unlock"}, id : Ids, owner : Owners, force : BOOLEAN]
ListRequest   == [op : {"list"}]

AllRequests == CreateRequest \cup UnlockRequest \cup ListRequest

ASSUME RequestsAssumption == Requests \subseteq AllRequests

ASSUME NoneAssumption ==
    /\ None \notin Workers
    /\ None \notin Requests
    /\ None \notin Lock

(***************************************************************************)
(* What an operation returns: an error kind and the locks that come with   *)
(* it (the new, the existing or the released lock; the listing).           *)
(***************************************************************************)
AnswerKinds ==
    {"created", "exists", "removed", "notfound", "notowner", "listed", "error"}

Answer == [kind : AnswerKinds, locks : SUBSET Lock]

Answers(k, S) == [kind |-> k, locks |-> S]

Failed == Answers("error", {})

ASSUME NoAnswerAssumption == None \notin Answer

EqualFold(a, b) == Fold[a] = Fold[b]

byPath(set, path) == {l \in set : l.path = path}

byID(set, id) == {l \in set : l.id = id}

\* The ownership test of Unlock for lock l and request r.
MayRelease(l, r) == r.force \/ EqualFold(l.owner, r.owner)
=============================================================================
