------------------------------- MODULE MCBatch -------------------------------
(* Batch with one request at a time, next to other clients' uploads, over two *)
(* objects of one and two bytes, and eight-value unsigned arithmetic.         *)
EXTENDS Batch, TLC

CONSTANTS r1, a, b, bad

Obj(o, n) == [oid |-> o, size |-> n]
In(op, objs) == [op |-> op, objects |-> objs, sha256 |-> TRUE]

MCLengthOf == a :> 1 @@ b :> 2

\* An upload and a download batch longer than the slots, and a verification.
RaceInputs ==
    {In("upload", <<Obj(a, 1), Obj(b, 3), Obj(b, 2)>>),
     In("download", <<Obj(a, 1), Obj(b, 2), Obj(b, 1)>>),
     In("verify", <<Obj(b, 2)>>), In("get", <<Obj(b, 2)>>)}

\* Sizes from -1 to beyond every limit, and requests that are turned down.
EdgeInputs ==
    {In("upload", <<Obj(a, m), Obj(b, n), Obj(a, k)>>) : m, n, k \in {-1, 0, 2, 4, 5, 6}}
    \cup {In("upload", <<>>), In("upload", <<Obj(bad, 1)>>),
          In("download", <<Obj(bad, 1), Obj(a, -1)>>),
          In("upload", [i \in 1 .. 4 |-> Obj(a, 1)]),
          [op |-> "download", objects |-> <<Obj(a, -1)>>, sha256 |-> FALSE],
          In("verify", <<Obj(bad, 1)>>), In("verify", <<Obj(a, 2)>>),
          In("get", <<Obj(bad, 1)>>)}

MCInputs == RaceInputs \cup EdgeInputs

AllSpaces == 0 .. 7
=============================================================================
