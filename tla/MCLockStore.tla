---------------------------- MODULE MCLockStore ----------------------------
(***************************************************************************)
(* Instances of LockStore for TLC.  Two processes share the file; one of   *)
(* them runs two goroutines, so that both the mutex and flock contend.     *)
(***************************************************************************)
EXTENDS LockStore, TLC

CONSTANTS p1, p2, w1, w2, w3, i1, i2, i3

MCProcOf == w1 :> p1 @@ w2 :> p1 @@ w3 :> p2

\* "ann" and "ANN" are one user to strings.EqualFold.
MCOwners == {"ann", "ANN", "bob"}

MCFold == [o \in MCOwners |-> IF o = "bob" THEN "bob" ELSE "ann"]

Create(p, o) == [op |-> "create", path |-> p, owner |-> o]
Unlock(i, o, f) == [op |-> "unlock", id |-> i, owner |-> o, force |-> f]
ListAll == [op |-> "list"]

\* Ann locks a path; lock i1 is released by ann under another spelling of the
\* name, and bob tries to.
MCRequests ==
    {Create("a", "ann"), ListAll, Unlock(i1, "ANN", FALSE), Unlock(i1, "bob", FALSE)}

\* Enough for one process to overwrite a lock file twice behind the other's
\* cache, leaving it with as many locks as before.
ReplaceRequests ==
    {Create("a", "ann"), ListAll, Unlock(i1, "bob", TRUE)}
=============================================================================
