---------------------------- MODULE MCLocalStore ----------------------------
(* LocalStore with two uploads of one object, by two processes or by one.   *)
EXTENDS LocalStore, TLC

CONSTANTS p1, p2, u1, u2, t1, t2

MCProcOf == (u1 :> p1) @@ (u2 :> p2)
SameProcess == (u1 :> p1) @@ (u2 :> p1)
MCDigest(d) == CASE d = <<"x">> -> "aa" [] d = <<"x", "x">> -> "bb" [] OTHER -> "cc"
OneObject == ("AA" :> "aa")
TempNames == Permutations({t1, t2})
=============================================================================
