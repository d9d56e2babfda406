---------------------------- MODULE MCSignedUrls ----------------------------
(* SignedUrls with one process, one handler, three keys and two grants.      *)
EXTENDS SignedUrls

CONSTANTS p1, h1, k1, k2, k3, g1, g2

OneProc == {p1}
OneHandler == {h1}
TwoGrants == {g1, g2}
ThreeKeys == {k1, k2, k3}
=============================================================================
