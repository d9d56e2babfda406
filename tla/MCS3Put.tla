------------------------------- MODULE MCS3Put -------------------------------
(* S3Put with parts of two bytes, at most three, grown to three bytes when    *)
(* needed: bodies from empty to more than S3, or max_upload_size, allows.     *)
EXTENDS S3Put

CONSTANTS u1, u2

Bytes(n) == [i \in 1 .. n |-> i]

\* Lengths at and next to a part, a full buffer, several of them, the largest
\* object and max_upload_size; and a body of the right length that is not the
\* content.
MCBodies == {Bytes(n) : n \in {0, 1, 2, 3, 6, 7, 9, 10, 12}} \cup {<<7, 7, 7, 7, 7, 7, 7>>}

\* One that fits into a part, one that fills the buffer of a body of unknown
\* size, and one of several parts.
MCContents == {Bytes(2), Bytes(3), Bytes(7)}
=============================================================================
