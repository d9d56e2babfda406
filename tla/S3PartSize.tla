----------------------------- MODULE S3PartSize -----------------------------
(***************************************************************************)
(* How large the parts of an S3 upload are (partSizeFor, storage/s3.go).   *)
(***************************************************************************)
EXTENDS Integers

CONSTANTS
    PartSize,      \* s3PartSize: the usual part
    MaxParts,      \* s3MaxParts: parts one upload may have
    MaxPartSize    \* s3MaxPartSize: the largest part S3 accepts

ASSUME PartSizeAssumption ==
    /\ PartSize \in Nat \ {0} /\ MaxParts \in Nat \ {0} /\ MaxPartSize \in Nat
    /\ PartSize <= MaxPartSize

minOf(a, b) == IF a < b THEN a ELSE b
maxOf(a, b) == IF a > b THEN a ELSE b

\* Mutant: the division rounds down.
partSizeFloor(size) == minOf(MaxPartSize, maxOf(PartSize, size \div MaxParts))

partSizeFor(size) ==
    minOf(MaxPartSize, maxOf(PartSize, size \div MaxParts + minOf(size % MaxParts, 1)))

\* The largest object S3 takes in parts.
SizeLimit == MaxParts * MaxPartSize
=============================================================================
