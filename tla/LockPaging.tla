----------------------------- MODULE LockPaging -----------------------------
(***************************************************************************)
(* Listing an endpoint's locks page by page (lockSet.list, match and the   *)
(* cursor functions of lfs/locks.go) while other clients lock and unlock.  *)
(*                                                                         *)
(* A listing is sorted by creation time and ID.  The time is in whole      *)
(* seconds (RFC 3339) and comes from a clock that may stand still or be    *)
(* set back; UUIDs sort in no particular order.  A cursor is the position  *)
(* (time, ID) of the last lock of a page: the base64 text it travels as    *)
(* decodes to the same two fields, neither of which contains the "|"       *)
(* between them.                                                           *)
(***************************************************************************)
EXTENDS Integers, FiniteSets

CONSTANTS
    Ids,           \* lock IDs, numbered in the order their texts sort
    Paths,         \* lockable paths
    None,          \* no filter, no cursor
    Limits,        \* the limits clients ask for
    DefaultLimit,  \* defaultLockLimit
    MaxLimit,      \* maxLockLimit
    MaxClock       \* bound: the clock's last second

ASSUME IdsAssumption == Ids \subseteq Nat /\ None \notin Ids /\ None \notin Paths

ASSUME LimitsAssumption ==
    /\ Limits \subseteq Int
    /\ DefaultLimit \in Nat \ {0}
    /\ MaxLimit \in Nat \ {0}
    /\ MaxClock \in Nat

Lock == [id : Ids, path : Paths, at : Nat]

ASSUME NoneIsNoLock == None \notin Lock

VARIABLES
    locks,    \* the endpoint's lock set
    issued,   \* IDs given out
    clock,    \* time.Now in seconds
    phase,    \* the walk over the listing: "idle", "walking" or "done"
    filter,   \* its path and ID filters
    cursor,   \* the lock whose position the next request continues from
    before,   \* locks received in earlier pages
    page,     \* locks received in the last page
    held      \* matching locks that have been there since the walk began

storeVars == <<locks, issued>>
walkVars == <<phase, filter, cursor, before, page>>
vars == <<storeVars, clock, walkVars, held>>

(***************************************************************************)
(* The listing order and the operations on the set.                        *)
(***************************************************************************)
compareLocks(a, b) == a.at < b.at \/ (a.at = b.at /\ a.id < b.id)

\* The locks with the given path and ID, ignoring whichever is absent: byPath
\* decides when there is a path, byID otherwise, and the ID must then agree.
match(set, path, id) ==
    LET found == IF path = None THEN {l \in set : l.id = id}
                                ELSE {l \in set : l.path = path}
    IN  {l \in found : id # None => l.id = id}

Matches(set, f) ==
    IF f.path = None /\ f.id = None THEN set ELSE match(set, f.path, f.id)

\* Mutant: the page resumes at the cursor's lock, not after it.
AfterInclusive(set, c) == {l \in set : c = None \/ ~compareLocks(l, c)}

\* What follows the cursor's position, whether its lock still exists or not.
After(set, c) == {l \in set : c = None \/ compareLocks(c, l)}

Limit(n) ==
    IF n <= 0 THEN DefaultLimit ELSE IF n > MaxLimit THEN MaxLimit ELSE n

\* P is the first n locks of M in the listing order, and ends with last.
IsHead(P, M, n, last) ==
    /\ P \subseteq M
    /\ Cardinality(P) = n
    /\ \A p \in P, q \in M \ P : compareLocks(p, q)
    /\ last \in P
    /\ \A p \in P : p = last \/ compareLocks(p, last)

-----------------------------------------------------------------------------
Filters == [path : Paths \cup {None}, id : Ids \cup {None}]

Init ==
    /\ locks = {}
    /\ issued = {}
    /\ clock = 0
    /\ phase = "idle"
    /\ filter = [path |-> None, id |-> None]
    /\ cursor = None
    /\ before = {}
    /\ page = {}
    /\ held = {}

\* A client's Create: set.add with a new ID and the present second.
Create(p, i) ==
    /\ \A l \in locks : l.path # p
    /\ locks' = locks \cup {[id |-> i, path |-> p, at |-> clock]}
    /\ issued' = issued \cup {i}
    /\ UNCHANGED <<clock, walkVars, held>>

\* A client's Unlock: set.remove.
Unlock(l) ==
    /\ locks' = locks \ {l}
    /\ held' = held \ {l}
    /\ UNCHANGED <<issued, clock, walkVars>>

\* The clock moves, forward or back.
SetClock ==
    /\ clock' \in 0 .. MaxClock
    /\ UNCHANGED <<storeVars, walkVars, held>>

StartWalk ==
    /\ phase # "walking"
    /\ phase' = "walking"
    /\ filter' \in Filters
    /\ cursor' = None
    /\ before' = {}
    /\ page' = {}
    /\ held' = Matches(locks, filter')
    /\ UNCHANGED <<storeVars, clock>>

\* One List call: the last page has no next cursor ...
LastPage ==
    /\ phase = "walking"
    /\ \E n \in Limits :
          LET rest == After(Matches(locks, filter), cursor)
          IN  /\ Cardinality(rest) <= Limit(n)
              /\ page' = rest
    /\ before' = before \cup page
    /\ phase' = "done"
    /\ UNCHANGED <<storeVars, clock, filter, cursor, held>>

\* Mutant: the cursor returned is the first lock of the page after.
MorePagesSkipping ==
    /\ phase = "walking"
    /\ \E n \in Limits :
          LET rest == After(Matches(locks, filter), cursor)
          IN  /\ Cardinality(rest) > Limit(n)
              /\ \E P \in SUBSET rest, last \in rest :
                    /\ IsHead(P, rest, Limit(n) + 1, last)
                    /\ page' = P \ {last}
                    /\ cursor' = last
    /\ before' = before \cup page
    /\ UNCHANGED <<storeVars, clock, phase, filter, held>>

\* ... and any other ends with the lock whose position is the next cursor.
MorePages ==
    /\ phase = "walking"
    /\ \E n \in Limits :
          LET rest == After(Matches(locks, filter), cursor)
          IN  /\ Cardinality(rest) > Limit(n)
              /\ \E P \in SUBSET rest, last \in rest :
                    /\ IsHead(P, rest, Limit(n), last)
                    /\ page' = P
                    /\ cursor' = last
    /\ before' = before \cup page
    /\ UNCHANGED <<storeVars, clock, phase, filter, held>>

Next ==
    \/ \E p \in Paths, i \in Ids \ issued : Create(p, i)
    \/ \E l \in locks : Unlock(l)
    \/ SetClock \/ StartWalk \/ LastPage \/ MorePages

Spec == Init /\ [][Next]_vars

-----------------------------------------------------------------------------
(* Properties *)

\* The variables keep their types.
TypeOK ==
    /\ locks \in SUBSET Lock
    /\ issued \in SUBSET Ids
    /\ clock \in Nat
    /\ phase \in {"idle", "walking", "done"}
    /\ filter \in Filters
    /\ cursor \in Lock \cup {None}
    /\ before \in SUBSET Lock
    /\ page \in SUBSET Lock
    /\ held \in SUBSET Lock

\* A lock that was there when the walk began and was never released is in some
\* page, whatever was locked and released in between, the cursor's own lock
\* included, and whatever the clock did.
NothingMissed == phase = "done" => held \subseteq before \cup page

\* Pages never repeat or go back: all of a page sorts after every lock of the
\* pages before it.
PagesAscend == \A l \in before, m \in page : compareLocks(l, m)
=============================================================================
