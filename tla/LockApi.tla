------------------------------ MODULE LockApi ------------------------------
(***************************************************************************)
(* The lock handlers of lfs/handler.go over an endpoint's lock set:        *)
(* create, unlock, list and verify, with the result of authentication that *)
(* each of them starts from (requireAuthResult, auth/none.go).             *)
(*                                                                         *)
(* The set and the walk through its pages are those of LockPaging.  The    *)
(* store's operations are atomic, as LockStore is shown to make them, and  *)
(* nothing else a handler does changes state, so that a request is one     *)
(* step.  What authentication says of a caller is any auth.Result, anew for*)
(* each request: GitHub's answers change, and without authentication the   *)
(* caller chooses the name.                                                *)
(*                                                                         *)
(* A request refused for its media type, its body, its path, its limit or  *)
(* by the rate limiter, or that the store fails, changes nothing.          *)
(***************************************************************************)
EXTENDS LockPaging

CONSTANTS
    Names,      \* user names, in any spelling
    Fold        \* Fold[n]: n in the spelling strings.EqualFold compares

ASSUME NamesAssumption == Names # {} /\ None \notin Names

\* auth.Result of authenticated callers.
Result == [username : Names, authorized : BOOLEAN, maintainer : BOOLEAN]

VARIABLES
    owner,     \* owner[i]: name of the owner of lock i
    walker,    \* who asks for the pages of verify
    kind,      \* "list" or "verify"
    ours,      \* verify: locks it returned as the caller's ...
    theirs     \* ... and as somebody else's

apiWalkVars == <<walker, kind, ours, theirs>>
apiVars == <<vars, owner, apiWalkVars>>

-----------------------------------------------------------------------------
ApiInit ==
    /\ Init
    /\ owner = [i \in Ids |-> None]
    /\ walker = None
    /\ kind = "list"
    /\ ours = {}
    /\ theirs = {}

\* The callers that get past requireAuthResult.
requireAuthResult(r) == r \in Result /\ r.authorized

\* lockStore.Create in the caller's name; 409 when the path is locked.
CreateLockHandler(r, p) ==
    /\ requireAuthResult(r)
    /\ \E i \in Ids \ issued :
          /\ Create(p, i)
          /\ owner' = [owner EXCEPT ![i] = r.username]
    /\ UNCHANGED apiWalkVars

\* FileLockStore.Unlock's rule for releasing a lock.
MayRelease(l, name, force) == force \/ Fold[owner[l.id]] = Fold[name]

\* lockStore.Unlock, forced only for maintainers; 404 when the lock is not there
\* and 403 when it is somebody else's.
UnlockHandler(r, l, force) ==
    /\ requireAuthResult(r)
    /\ MayRelease(l, r.username, force /\ r.maintainer)
    /\ Unlock(l)
    /\ UNCHANGED <<owner, apiWalkVars>>

\* A client begins to list or to verify; verify has no filter.
BeginWalk ==
    /\ StartWalk
    /\ \/ kind' = "list" /\ walker' = None
       \/ /\ kind' = "verify" /\ walker' \in Names
          /\ filter' = [path |-> None, id |-> None]
    /\ ours' = {}
    /\ theirs' = {}
    /\ UNCHANGED owner

\* One call of the store's List, with what it returns as page'.
NextPage == LastPage \/ MorePages

ListLocksHandler ==
    /\ kind = "list"
    /\ NextPage
    /\ UNCHANGED <<owner, apiWalkVars>>

\* Mutant: names are compared in their exact spelling.
VerifyExactly ==
    /\ kind = "verify"
    /\ NextPage
    /\ ours' = ours \cup {l \in page' : owner[l.id] = walker}
    /\ theirs' = theirs \cup {l \in page' : owner[l.id] # walker}
    /\ UNCHANGED <<owner, walker, kind>>

VerifyLocksHandler ==
    /\ kind = "verify"
    /\ NextPage
    /\ LET mine == {l \in page' : Fold[owner[l.id]] = Fold[walker]}
       IN  ours' = ours \cup mine /\ theirs' = theirs \cup (page' \ mine)
    /\ UNCHANGED <<owner, walker, kind>>

Tick ==
    /\ SetClock
    /\ UNCHANGED <<owner, apiWalkVars>>

ApiNext ==
    \/ Tick
    \/ \E r \in Result :
          \/ \E p \in Paths : CreateLockHandler(r, p)
          \/ \E l \in locks, force \in BOOLEAN : UnlockHandler(r, l, force)
    \/ BeginWalk \/ ListLocksHandler \/ VerifyLocksHandler

ApiSpec == ApiInit /\ [][ApiNext]_apiVars

-----------------------------------------------------------------------------
(* Properties *)

\* A completed verify has told the caller, lock by lock, what unlock would do:
\* each lock that was there all along is listed as the caller's if the caller may
\* release it without force, and as somebody else's otherwise.  A push that
\* trusts verify is never let past another user's lock, whatever the spelling
\* of the names and however the pages were cut.
VerifyAgreesWithUnlock ==
    phase = "done" /\ kind = "verify" =>
        \A l \in held :
            IF MayRelease(l, walker, FALSE) THEN l \in ours \ theirs ELSE l \in theirs \ ours
=============================================================================
