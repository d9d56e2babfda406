----------------------------- MODULE LockTable -----------------------------
(***************************************************************************)
(* What lfs.LockStore promises its callers (the interface comments of      *)
(* lfs/locks.go): one table of locks per endpoint, on which every Create,  *)
(* List and Unlock takes effect at one instant between call and return,    *)
(* or fails and changes nothing.                                           *)
(***************************************************************************)
EXTENDS LockTypes

VARIABLES
    table,   \* the endpoint's locks
    req,     \* req[w]: the request worker w is serving, or None
    res      \* res[w]: its answer once it has taken effect, or None

vars == <<table, req, res>>

Init ==
    /\ table = {}
    /\ req = [w \in Workers |-> None]
    /\ res = [w \in Workers |-> None]

Call(w) ==
    /\ req[w] = None
    /\ \E r \in Requests : req' = [req EXCEPT ![w] = r]
    /\ UNCHANGED <<table, res>>

Pending(w, op) == req[w] # None /\ res[w] = None /\ req[w].op = op

Settle(w, answer) ==
    /\ res' = [res EXCEPT ![w] = answer]
    /\ req' = req

\* Create: an error and the existing lock when the path is taken.
Create(w) ==
    /\ Pending(w, "create")
    /\ \/ /\ byPath(table, req[w].path) # {}
          /\ Settle(w, Answers("exists", byPath(table, req[w].path)))
          /\ table' = table
       \/ /\ byPath(table, req[w].path) = {}
          /\ \E i \in Ids :
                LET l == [id |-> i, path |-> req[w].path, owner |-> req[w].owner]
                IN  /\ byID(table, i) = {}
                    /\ table' = table \cup {l}
                    /\ Settle(w, Answers("created", {l}))

\* Unlock: only a lock that exists, and only for its owner or by force.
Unlock(w) ==
    /\ Pending(w, "unlock")
    /\ \/ /\ byID(table, req[w].id) = {}
          /\ Settle(w, Answers("notfound", {}))
          /\ table' = table
       \/ \E l \in byID(table, req[w].id) :
             \/ /\ ~MayRelease(l, req[w])
                /\ Settle(w, Answers("notowner", {}))
                /\ table' = table
             \/ /\ MayRelease(l, req[w])
                /\ Settle(w, Answers("removed", {l}))
                /\ table' = table \ {l}

List(w) ==
    /\ Pending(w, "list")
    /\ Settle(w, Answers("listed", table))
    /\ table' = table

Fail(w) ==
    /\ req[w] # None
    /\ res[w] = None
    /\ Settle(w, Failed)
    /\ table' = table

Return(w) ==
    /\ res[w] # None
    /\ req' = [req EXCEPT ![w] = None]
    /\ res' = [res EXCEPT ![w] = None]
    /\ table' = table

\* A process dies: its callers never hear back; what took effect stays.
Abandon(W) ==
    /\ req' = [w \in Workers |-> IF w \in W THEN None ELSE req[w]]
    /\ res' = [w \in Workers |-> IF w \in W THEN None ELSE res[w]]
    /\ table' = table

Next ==
    \/ \E w \in Workers :
          Call(w) \/ Create(w) \/ Unlock(w) \/ List(w) \/ Fail(w) \/ Return(w)
    \/ \E W \in SUBSET Workers : Abandon(W)

Spec == Init /\ [][Next]_vars
=============================================================================
