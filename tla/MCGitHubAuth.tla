---------------------------- MODULE MCGitHubAuth ----------------------------
(* GitHubAuth for two callers and the kinds of grant the code tells apart.  *)
EXTENDS GitHubAuth, TLC

CONSTANTS c1, c2

Full ==
    [valid |-> TRUE, visible |-> TRUE, perms |-> TRUE, user |-> TRUE, private |-> TRUE,
     pull |-> TRUE, push |-> TRUE, maintainer |-> TRUE, read |-> TRUE, write |-> TRUE]
Demoted == [Full EXCEPT !.push = FALSE, !.maintainer = FALSE]
NoContents == [Full EXCEPT !.read = FALSE, !.write = FALSE]
Public == [Demoted EXCEPT !.private = FALSE, !.write = FALSE]
NoPerms == [Full EXCEPT !.perms = FALSE, !.user = FALSE]
Hidden == [Full EXCEPT !.visible = FALSE]
Invalid == [Full EXCEPT !.valid = FALSE]

AllGrants == {Full, NoContents, Public, NoPerms, Hidden, Invalid}
FewGrants == {Full, NoContents, Invalid}
Symmetry == Permutations({c1, c2})
=============================================================================
