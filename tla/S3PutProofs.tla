---------------------------- MODULE S3PutProofs ----------------------------
(***************************************************************************)
(* Proofs about uploads to S3, for any number of uploads, any bodies,      *)
(* contents, limits and bounds.                                            *)
(*                                                                         *)
(* What is read is what has been sent and what is in the buffer, so the    *)
(* parts S3 joins are what was hashed.  Every part but the last is as long *)
(* as the buffer, whose length partSizeFor chose, so there are enough part *)
(* numbers and S3 takes the parts.                                         *)
(***************************************************************************)
EXTENDS S3Put, NaturalsInduction, WellFoundedInduction, TLAPS

Steps == {"idle", "single", "first", "put", "create", "part", "send", "verify", "abort", "return"}

Results == {"stored", "failed", "mismatch", "toolarge", "toomany"}

TypeOK ==
    /\ pc \in [Uploads -> Steps]
    /\ body \in [Uploads -> Bodies \cup {None}]
    /\ left \in [Uploads -> Int]
    /\ pos \in [Uploads -> Nat]
    /\ buf \in [Uploads -> Seq(Byte)]
    /\ bufLen \in [Uploads -> Nat]
    /\ parts \in [Uploads -> Seq(Seq(Byte)) \cup {None}]
    /\ res \in [Uploads -> Results \cup {None}]
    /\ content \in Contents
    /\ object \in Seq(Byte) \cup {None}
    /\ acked \in BOOLEAN
    /\ lost \in [Uploads -> BOOLEAN]

\* Parts in a buffer of length n: all full, or all but the last.
Full(p, n) == \A i \in 1 .. Len(p) : Len(p[i]) = n

Fitting(p, n) ==
    /\ Len(p) <= MaxParts
    /\ \A i \in 1 .. Len(p) : /\ p[i] # <<>> /\ Len(p[i]) <= n
                              /\ i < Len(p) => Len(p[i]) = n

\* The buffer's length is the one for the declared size, or for max_upload_size.
Sized(u) ==
    \/ bufLen[u] = partSizeFor(Len(body[u])) /\ Len(body[u]) <= SizeLimit
    \/ bufLen[u] = streamPartSize /\ pos[u] <= MaxUploadSize

\* What has been read, pos bytes, is what p holds and what is in the buffer.
Accounted(u, p) ==
    /\ pos[u] <= Len(body[u])
    /\ Joined(p) \in Seq(Byte)
    /\ Joined(p) \o buf[u] = SubSeq(body[u], 1, pos[u])

\* The top of putMultipart's loop, with the parts p sent so far.
AtTop(u, p) ==
    /\ Sized(u) /\ Accounted(u, p)
    /\ left[u] # 0 => Full(p, bufLen[u]) /\ pos[u] - Len(buf[u]) = Len(p) * bufLen[u]
    /\ left[u] > 0 => pos[u] + left[u] = Len(body[u])
    /\ left[u] >= 0 => buf[u] = <<>>
    /\ left[u] < 0 => buf[u] = <<>> \/ Len(buf[u]) = bufLen[u]

\* A part is in the buffer and the parts p have been sent.
AtSend(u, p) ==
    /\ Sized(u) /\ Accounted(u, p)
    /\ Full(p, bufLen[u]) /\ pos[u] - Len(buf[u]) = Len(p) * bufLen[u]
    /\ buf[u] # <<>> /\ Len(buf[u]) <= bufLen[u]
    /\ left[u] > 0 => /\ Len(buf[u]) = minOf(bufLen[u], left[u])
                      /\ pos[u] - Len(buf[u]) + left[u] = Len(body[u])
    /\ left[u] < 0 => Len(buf[u]) = bufLen[u]

Job(u) ==
    /\ pc[u] # "idle" => body[u] \in Bodies /\ PartSize <= bufLen[u] /\ bufLen[u] <= MaxPartSize
    /\ pc[u] \in {"idle", "single", "first"} => pos[u] = 0 /\ buf[u] = <<>>
    /\ pc[u] \in {"idle", "single", "first", "put", "create"} => parts[u] = None
    /\ pc[u] \in {"part", "send", "verify"} => parts[u] \in Seq(Seq(Byte))
    /\ pc[u] = "return" /\ parts[u] # None => lost[u]
    /\ pc[u] \notin {"abort", "return"} => res[u] = None
    /\ pc[u] = "single" => left[u] = Len(body[u])
    /\ pc[u] = "first" => left[u] < 0 /\ bufLen[u] = streamPartSize
    /\ pc[u] = "put" => buf[u] = SubSeq(body[u], 1, pos[u])
    /\ pc[u] = "create" => AtTop(u, <<>>)
    /\ pc[u] = "part" => AtTop(u, parts[u])
    /\ pc[u] = "send" => AtSend(u, parts[u])
    /\ pc[u] = "verify" => Accounted(u, parts[u]) /\ buf[u] = <<>>
    /\ parts[u] # None => Fitting(parts[u], bufLen[u])

JobInv == \A u \in Uploads : Job(u)

AckInv ==
    /\ AckedStored
    /\ \A u \in Uploads : res[u] = "stored" => object # None

IInv == TypeOK /\ JobInv /\ ObjectWhole /\ AckInv /\ EnoughParts

-----------------------------------------------------------------------------
(* Part sizes *)

\* Multiplying by a natural number keeps an order between natural numbers.
LEMMA TimesMonotone ==
  ASSUME NEW a \in Nat, NEW b \in Nat, NEW c \in Nat, a <= b
  PROVE  a * c <= b * c
  <1>1. PICK d \in Nat : b = a + d
    <2>1. b - a \in Nat /\ b = a + (b - a)
      OBVIOUS
    <2>2. QED
      BY <2>1
  <1>2. (a + d) * c = a * c + d * c
    OBVIOUS
  <1>3. d * c \in Nat /\ a * c \in Nat
    OBVIOUS
  <1>4. QED
    BY <1>1, <1>2, <1>3

\* The quotient rounded up, times the divisor, is at least the dividend.
LEMMA RoundedUp ==
  ASSUME NEW size \in Nat
  PROVE  /\ size \div MaxParts + minOf(size % MaxParts, 1) \in Nat
         /\ (size \div MaxParts + minOf(size % MaxParts, 1)) * MaxParts >= size
  <1> DEFINE q == size \div MaxParts
             r == size % MaxParts
  <1>1. q \in Nat /\ r \in Nat /\ r < MaxParts /\ size = q * MaxParts + r
    BY PartSizeAssumption
  <1>2. CASE r = 0
    BY <1>1, <1>2, PartSizeAssumption DEF minOf
  <1>3. CASE r > 0
    <2>1. minOf(r, 1) = 1
      BY <1>1, <1>3 DEF minOf
    <2> HIDE DEF q, r
    <2>2. (q + 1) * MaxParts = q * MaxParts + MaxParts
      BY <1>1, PartSizeAssumption
    <2>3. q * MaxParts \in Nat
      BY <1>1, PartSizeAssumption
    <2>4. QED
      BY <1>1, <2>1, <2>2, <2>3, PartSizeAssumption DEF q, r
  <1>4. QED
    BY <1>1, <1>2, <1>3

\* A part is never smaller than the usual one nor larger than S3 accepts
\* (partSizeFor, also as the buffer of an upload of unknown size).
THEOREM PartSizeInRange ==
  ASSUME NEW size \in Nat
  PROVE  partSizeFor(size) \in Nat /\ PartSize <= partSizeFor(size) /\ partSizeFor(size) <= MaxPartSize
  <1> DEFINE c == size \div MaxParts + minOf(size % MaxParts, 1)
  <1>1. c \in Nat
    BY RoundedUp
  <1>2. partSizeFor(size) = minOf(MaxPartSize, maxOf(PartSize, c))
    BY DEF partSizeFor
  <1> HIDE DEF c
  <1>3. QED
    BY <1>1, <1>2, PartSizeAssumption DEF minOf, maxOf

\* An object S3 can hold at all fits into MaxParts parts of that size: Put never
\* runs out of part numbers for a declared size, nor for an undeclared one
\* within max_upload_size.
THEOREM PartsSuffice ==
  ASSUME NEW size \in Nat, size <= SizeLimit
  PROVE  partSizeFor(size) * MaxParts >= size
  <1> DEFINE c == size \div MaxParts + minOf(size % MaxParts, 1)
  <1>1. c \in Nat /\ c * MaxParts >= size
    BY RoundedUp
  <1>2. CASE partSizeFor(size) = MaxPartSize
    <2>1. MaxPartSize * MaxParts = MaxParts * MaxPartSize
      BY PartSizeAssumption
    <2>2. QED
      BY <1>2, <2>1 DEF SizeLimit
  <1>3. CASE partSizeFor(size) # MaxPartSize
    <2>1. c <= partSizeFor(size) /\ partSizeFor(size) \in Nat
      BY <1>1, <1>3, PartSizeAssumption, PartSizeInRange DEF partSizeFor, minOf, maxOf
    <2>2. c * MaxParts <= partSizeFor(size) * MaxParts
      BY <1>1, <2>1, TimesMonotone, PartSizeAssumption
    <2>3. c * MaxParts \in Nat /\ partSizeFor(size) * MaxParts \in Nat
      BY <1>1, <2>1, PartSizeAssumption
    <2>4. QED
      BY <1>1, <2>2, <2>3
  <1>4. QED
    BY <1>2, <1>3

-----------------------------------------------------------------------------
(* Joining parts *)

\* Induction over the natural numbers: a set with 0 and every successor.
LEMMA Induct ==
  ASSUME NEW T \in SUBSET Nat, 0 \in T, \A n \in T : n + 1 \in T
  PROVE  T = Nat
  <1> SUFFICES ASSUME T # Nat PROVE FALSE
    OBVIOUS
  <1> DEFINE R == {ss \in Nat \X Nat : ss[1] < ss[2]}
             U == Nat \ T
  <1>1. U \subseteq Nat /\ U # {}
    BY ZenonT(30)
  <1>2. IsWellFoundedOn(R, Nat)
    BY NatLessThanWellFounded DEF OpToRel
  <1>3. PICK x \in U : \A y \in U : ~(<<y, x>> \in R)
    <2> HIDE DEF U, R
    <2> QED BY <1>1, <1>2, WFMin, ZenonT(30)
  <1>4. x \in Nat /\ x # 0 /\ x - 1 \in Nat
    OBVIOUS
  <1>5. <<x - 1, x>> \in R
    BY <1>4
  <1>6. x - 1 \in T
    BY <1>3, <1>4, <1>5
  <1>7. QED
    BY <1>4, <1>6

\* What the function inside Joined is, one part after the other.
JoinStep(p, f, n) == [i \in 0 .. n |-> IF i = 0 THEN <<>> ELSE f[i - 1] \o p[i]]

Joins(p) == CHOOSE join : join = JoinStep(p, join, Len(p))

\* Joined is the last value of that function.
LEMMA JoinedIsLast == ASSUME NEW p PROVE Joined(p) = Joins(p)[Len(p)]
  BY DEF Joined, Joins, JoinStep

\* The recursive definition has a solution: the parts can be joined one by one.
LEMMA JoinsDef ==
  ASSUME NEW S, NEW p \in Seq(S)
  PROVE  Joins(p) = JoinStep(p, Joins(p), Len(p))
  <1> DEFINE T == {n \in Nat : \E f : f = JoinStep(p, f, n)}
  <1>1. 0 \in T
    <2> DEFINE f == [i \in 0 .. 0 |-> <<>>]
    <2>1. f = JoinStep(p, f, 0)
      BY DEF JoinStep
    <2> QED BY <2>1
  <1>2. ASSUME NEW n \in T PROVE n + 1 \in T
    <2>1. PICK f : f = JoinStep(p, f, n)
      OBVIOUS
    <2> DEFINE g == [i \in 0 .. n + 1 |-> IF i <= n THEN f[i] ELSE f[n] \o p[n + 1]]
    <2>2. ASSUME NEW i \in 0 .. n + 1
          PROVE  g[i] = IF i = 0 THEN <<>> ELSE g[i - 1] \o p[i]
      BY <2>1, SMTT(30) DEF JoinStep
    <2>3. g = JoinStep(p, g, n + 1)
      BY <2>2, ZenonT(30) DEF JoinStep
    <2> QED BY <2>3
  <1> HIDE DEF T
  <1>3. T = Nat
    <2>1. T \in SUBSET Nat
      BY DEF T
    <2>2. QED
      BY <1>1, <1>2, <2>1, Induct
  <1>4. \E f : f = JoinStep(p, f, Len(p))
    <2>1. Len(p) \in T
      BY <1>3
    <2>2. QED
      BY <2>1, Zenon DEF T
  <1>5. QED
    BY <1>4, Zenon DEF Joins

\* A part that is added comes last.
LEMMA JoinedAppend ==
  ASSUME NEW S, NEW p \in Seq(S), NEW x \in S
  PROVE  Joined(Append(p, x)) = Joined(p) \o x
  <1> DEFINE q == Append(p, x)
             T == {n \in Nat : n <= Len(p) => Joins(q)[n] = Joins(p)[n]}
  <1>1. q \in Seq(S) /\ Len(q) = Len(p) + 1 /\ q[Len(p) + 1] = x /\ \A i \in 1 .. Len(p) : q[i] = p[i]
    OBVIOUS
  <1> HIDE DEF q
  <1>2. /\ \A i \in 0 .. Len(p) : Joins(p)[i] = IF i = 0 THEN <<>> ELSE Joins(p)[i - 1] \o p[i]
        /\ \A i \in 0 .. Len(q) : Joins(q)[i] = IF i = 0 THEN <<>> ELSE Joins(q)[i - 1] \o q[i]
    BY <1>1, JoinsDef, ZenonT(30) DEF JoinStep
  <1>3. 0 \in T
    BY <1>1, <1>2
  <1>4. ASSUME NEW n \in T PROVE n + 1 \in T
    BY <1>1, <1>2
  <1> HIDE DEF T
  <1>5. T = Nat
    <2>1. T \in SUBSET Nat
      BY DEF T
    <2>2. QED
      BY <1>3, <1>4, <2>1, Induct
  <1>6. Joins(q)[Len(p)] = Joins(p)[Len(p)]
    BY <1>5 DEF T
  <1>7. Joins(q)[Len(q)] = Joins(p)[Len(p)] \o x
    <2>1. Len(q) \in 0 .. Len(q) /\ Len(q) # 0 /\ Len(q) - 1 = Len(p)
      BY <1>1
    <2>2. Joins(q)[Len(q)] = Joins(q)[Len(q) - 1] \o q[Len(q)]
      BY <1>2, <2>1, Zenon
    <2>3. QED
      BY <1>1, <1>6, <2>1, <2>2, Zenon
  <1> QED
    BY <1>7, JoinedIsLast, ZenonT(30) DEF q

\* No parts make no data.
LEMMA JoinedEmpty == Joined(<<>>) = <<>>
  <1>1. Joins(<<>>) = JoinStep(<<>>, Joins(<<>>), 0)
    BY JoinsDef, <<>> \in Seq({}), Len(<<>>) = 0, ZenonT(30)
  <1>2. Joins(<<>>)[0] = <<>>
    BY <1>1 DEF JoinStep
  <1>3. QED
    BY <1>2, JoinedIsLast, Len(<<>>) = 0

\* Reading on: what was read, and the next n bytes, are the bytes up to there.
LEMMA ReadOn ==
  ASSUME NEW b \in Seq(Byte), NEW a \in Nat, NEW n \in Nat, a + n <= Len(b)
  PROVE  /\ SubSeq(b, 1, a) \in Seq(Byte)
         /\ SubSeq(b, a + 1, a + n) \in Seq(Byte)
         /\ Len(SubSeq(b, a + 1, a + n)) = n
         /\ SubSeq(b, 1, a) \o SubSeq(b, a + 1, a + n) = SubSeq(b, 1, a + n)
  OBVIOUS

-----------------------------------------------------------------------------
(* Numbers of parts *)

\* What an upload of unknown size uses is partSizeFor(max_upload_size).
LEMMA StreamPartSize ==
  /\ streamPartSize = partSizeFor(MaxUploadSize)
  /\ streamPartSize \in Nat /\ PartSize <= streamPartSize /\ streamPartSize <= MaxPartSize
  BY PartSizeInRange, BoundsAssumption, PartSizeAssumption DEF streamPartSize, maxOf

\* For a size beyond what S3 can hold the parts are the largest there are.
LEMMA LargestParts ==
  ASSUME NEW size \in Nat, size > SizeLimit
  PROVE  partSizeFor(size) = MaxPartSize
  <1> DEFINE c == size \div MaxParts + minOf(size % MaxParts, 1)
  <1>1. c \in Nat /\ c * MaxParts >= size
    BY RoundedUp
  <1>2. partSizeFor(size) = minOf(MaxPartSize, maxOf(PartSize, c))
    BY DEF partSizeFor
  <1> HIDE DEF c
  <1>3. c > MaxPartSize
    <2> SUFFICES ASSUME c <= MaxPartSize PROVE FALSE
      BY <1>1, PartSizeAssumption
    <2>1. c * MaxParts <= MaxPartSize * MaxParts
      BY <1>1, TimesMonotone, PartSizeAssumption
    <2>2. MaxPartSize * MaxParts = MaxParts * MaxPartSize /\ MaxPartSize * MaxParts \in Nat /\ c * MaxParts \in Nat
      BY <1>1, PartSizeAssumption
    <2>3. QED
      BY <1>1, <2>1, <2>2 DEF SizeLimit
  <1>4. QED
    BY <1>1, <1>2, <1>3, PartSizeAssumption DEF minOf, maxOf

\* Someone who runs out of part numbers is sending more than S3 can hold.
LEMMA TooMany ==
  ASSUME TypeOK, NEW u \in Uploads, body[u] \in Bodies, NEW p \in Seq(Seq(Byte)), AtSend(u, p),
         Len(p) + 1 > MaxParts
  PROVE  Len(body[u]) > SizeLimit
  <1> DEFINE n == bufLen[u]
             k == Len(p)
             size == Len(body[u])
  <1>1. n \in Nat /\ k \in Nat /\ size \in Nat /\ pos[u] \in Nat /\ Len(buf[u]) \in Nat \ {0}
    BY BodiesAssumption DEF TypeOK, AtSend
  <1>2. pos[u] - Len(buf[u]) = k * n /\ pos[u] <= size /\ k >= MaxParts
    BY <1>1, PartSizeAssumption DEF AtSend, Accounted
  <1>3. Sized(u)
    BY DEF AtSend
  <1>4. Sized(u) <=> \/ n = partSizeFor(size) /\ size <= SizeLimit
                     \/ n = streamPartSize /\ pos[u] <= MaxUploadSize
    BY DEF Sized
  <1> HIDE DEF n, k, size
  <1>5. MaxParts * n <= k * n /\ MaxParts * n \in Nat /\ k * n \in Nat
    BY <1>1, <1>2, TimesMonotone, PartSizeAssumption
  <1>6. pos[u] > MaxParts * n
    BY <1>1, <1>2, <1>5
  <1>7. MaxParts * n = n * MaxParts
    BY <1>1, PartSizeAssumption
  <1>8. CASE n = partSizeFor(size) /\ size <= SizeLimit
    <2>1. n * MaxParts >= size
      BY <1>1, <1>8, PartsSuffice
    <2>2. QED
      BY <1>1, <1>2, <1>5, <1>6, <1>7, <2>1
  <1>9. CASE n = streamPartSize /\ pos[u] <= MaxUploadSize
    <2>1. CASE MaxUploadSize <= SizeLimit
      <3>1. n * MaxParts >= MaxUploadSize
        BY <1>9, <2>1, PartsSuffice, StreamPartSize, BoundsAssumption
      <3>2. QED
        BY <1>1, <1>5, <1>6, <1>7, <1>9, <3>1, BoundsAssumption
    <2>2. CASE MaxUploadSize > SizeLimit
      <3>1. n = MaxPartSize
        BY <1>9, <2>2, LargestParts, StreamPartSize, BoundsAssumption
      <3>2. QED
        BY <1>1, <1>2, <1>5, <1>6, <3>1 DEF SizeLimit, size
    <2>3. QED
      BY <2>1, <2>2, BoundsAssumption, PartSizeAssumption DEF SizeLimit
  <1>10. QED
    BY <1>3, <1>4, <1>8, <1>9, Zenon

-----------------------------------------------------------------------------
(* The steps of an upload *)

SameJob(v) ==
    /\ pc'[v] = pc[v] /\ body'[v] = body[v] /\ left'[v] = left[v] /\ pos'[v] = pos[v]
    /\ buf'[v] = buf[v] /\ bufLen'[v] = bufLen[v] /\ parts'[v] = parts[v]
    /\ res'[v] = res[v] /\ lost'[v] = lost[v]

\* A step of one upload touches no other, and never the content.
LEMMA OwnStep ==
  ASSUME TypeOK, NEW u \in Uploads, Begin(u) \/ Put(u) \/ Crash(u)
  PROVE  content' = content /\ \A v \in Uploads \ {u} : SameJob(v)
  <1> USE DEF TypeOK, jobVars, SameJob, Goto, Result
  <1>1. CASE Begin(u)
    BY <1>1 DEF Begin
  <1>2. CASE ReadSingle(u) \/ ReadFirst(u)
    BY <1>2 DEF ReadSingle, ReadFirst, Read
  <1>3. CASE ReadFails(u)
    BY <1>3 DEF ReadFails
  <1>4. CASE PutObject(u) \/ PutMismatch(u)
    BY <1>4 DEF PutObject, PutMismatch
  <1>5. CASE CreateMultipartUpload(u) \/ CreateFails(u)
    BY <1>5 DEF CreateMultipartUpload, CreateFails
  <1>6. CASE ReadPart(u)
    BY <1>6 DEF ReadPart, Read
  <1>7. CASE LoopEnds(u) \/ UploadPart(u)
    BY <1>7 DEF LoopEnds, UploadPart
  <1>8. CASE UploadPartFails(u) \/ VerifyMismatch(u)
    BY <1>8 DEF UploadPartFails, VerifyMismatch
  <1>9. CASE CompleteMultipartUpload(u) \/ CompleteFails(u)
    BY <1>9 DEF CompleteMultipartUpload, CompleteFails
  <1>10. CASE AbortMultipartUpload(u)
    BY <1>10 DEF AbortMultipartUpload
  <1>11. CASE Return(u) \/ Crash(u)
    BY <1>11 DEF Return, Crash, Reset
  <1>12. QED
    BY <1>1, <1>2, <1>3, <1>4, <1>5, <1>6, <1>7, <1>8, <1>9, <1>10, <1>11, ZenonT(30) DEF Put

\* An upload nobody touches stays as it is.
LEMMA JobFrame ==
  ASSUME NEW v, SameJob(v), Job(v)
  PROVE  Job(v)'
  <1>1. \A p : Sized(v)' = Sized(v) /\ Accounted(v, p)' = Accounted(v, p)
    BY SMTT(30) DEF SameJob, Sized, Accounted
  <1>2. \A p : AtTop(v, p)' = AtTop(v, p) /\ AtSend(v, p)' = AtSend(v, p)
    BY <1>1 DEF SameJob, AtTop, AtSend
  <1>3. QED
    BY <1>1, <1>2 DEF SameJob, Job

\* With nothing sent yet, the buffer is all there is.
LEMMA NothingSent ==
  ASSUME NEW b \in Seq(Byte), NEW n \in Nat, n <= Len(b)
  PROVE  /\ Joined(<<>>) \in Seq(Byte)
         /\ Joined(<<>>) \o SubSeq(b, 1, n) = SubSeq(b, 1, n)
         /\ Joined(<<>>) \o <<>> = SubSeq(b, 1, 0)
  <1>1. SubSeq(b, 1, n) \in Seq(Byte) /\ SubSeq(b, 1, 0) = <<>>
    OBVIOUS
  <1>2. \A s \in Seq(Byte) : <<>> \o s = s
    OBVIOUS
  <1>3. <<>> \in Seq(Byte)
    OBVIOUS
  <1>4. QED
    BY <1>1, <1>2, <1>3, JoinedEmpty, Zenon

\* The values of an upload that is going on have their types.
LEMMA Values ==
  ASSUME TypeOK, NEW u \in Uploads
  PROVE  /\ pos[u] \in Nat /\ left[u] \in Int /\ bufLen[u] \in Nat /\ buf[u] \in Seq(Byte)
         /\ body[u] \in Bodies => body[u] \in Seq(Byte) /\ Len(body[u]) \in Nat
         /\ parts[u] \in Seq(Seq(Byte)) \cup {None}
  <1>1. /\ pos[u] \in Nat /\ left[u] \in Int /\ bufLen[u] \in Nat /\ buf[u] \in Seq(Byte)
        /\ parts[u] \in Seq(Seq(Byte)) \cup {None}
    BY Zenon DEF TypeOK
  <1>2. body[u] \in Bodies => body[u] \in Seq(Byte)
    BY BodiesAssumption, Zenon
  <1>3. \A b \in Seq(Byte) : Len(b) \in Nat
    OBVIOUS
  <1>4. QED
    BY <1>1, <1>2, <1>3, Zenon

\* Put chooses the way to upload.
LEMMA BeginJob ==
  ASSUME TypeOK, NEW u \in Uploads, Job(u), Begin(u)
  PROVE  Job(u)'
  <1>1. PICK b \in Bodies :
          /\ body'[u] = b
          /\ \/ /\ left'[u] = Len(b) /\ bufLen'[u] = partSizeFor(Len(b))
                /\ \/ pc'[u] = "return"
                   \/ Len(b) <= SizeLimit /\ Len(b) > partSizeFor(Len(b)) /\ pc'[u] = "create"
                   \/ Len(b) <= SizeLimit /\ pc'[u] = "single"
             \/ left'[u] = -1 /\ pc'[u] = "first" /\ bufLen'[u] = streamPartSize
    <2>1. PICK b \in Bodies :
            /\ body' = [body EXCEPT ![u] = b]
            /\ \/ /\ left' = [left EXCEPT ![u] = Len(b)]
                  /\ IF Len(b) > SizeLimit
                     THEN pc' = [pc EXCEPT ![u] = "return"]
                     ELSE pc' = [pc EXCEPT ![u] = IF Len(b) > partSizeFor(Len(b)) THEN "create" ELSE "single"]
                  /\ bufLen' = [bufLen EXCEPT ![u] = partSizeFor(Len(b))]
               \/ /\ left' = [left EXCEPT ![u] = -1]
                  /\ pc' = [pc EXCEPT ![u] = "first"]
                  /\ bufLen' = [bufLen EXCEPT ![u] = streamPartSize]
      BY Zenon DEF Begin
    <2>2. Len(b) \in Nat /\ SizeLimit \in Nat
      BY BodiesAssumption, PartSizeAssumption DEF SizeLimit
    <2>3. QED
      BY <2>1, <2>2 DEF TypeOK
  <1>2. /\ pc[u] = "idle" /\ pos'[u] = pos[u] /\ buf'[u] = buf[u] /\ parts'[u] = parts[u]
        /\ res'[u] = res[u] \/ pc'[u] = "return"
    <2>1. \/ res' = res
          \/ pc' = [pc EXCEPT ![u] = "return"]
      BY Zenon DEF Begin
    <2>2. pc \in [Uploads -> Steps] /\ pc[u] = "idle" /\ UNCHANGED <<pos, buf, parts>>
      BY Zenon DEF Begin, TypeOK
    <2>3. QED
      BY <2>1, <2>2
  <1>3. pos[u] = 0 /\ buf[u] = <<>> /\ parts[u] = None /\ res[u] = None
    BY <1>2 DEF Job
  <1>4. b \in Seq(Byte) /\ Len(b) \in Nat /\ SubSeq(b, 1, 0) = <<>>
    BY BodiesAssumption
  <1>5. /\ partSizeFor(Len(b)) \in Nat /\ PartSize <= partSizeFor(Len(b)) /\ partSizeFor(Len(b)) <= MaxPartSize
        /\ streamPartSize \in Nat /\ PartSize <= streamPartSize /\ streamPartSize <= MaxPartSize
    BY <1>4, PartSizeInRange, StreamPartSize, Zenon
  <1>6. ASSUME pc'[u] = "create" PROVE AtTop(u, <<>>)'
    <2>1. left'[u] = Len(b) /\ bufLen'[u] = partSizeFor(Len(b)) /\ Len(b) <= SizeLimit /\ Len(b) > 0
      BY <1>1, <1>4, <1>5, <1>6, PartSizeAssumption
    <2>2. Sized(u)'
      BY <1>1, <2>1 DEF Sized
    <2>3. Accounted(u, <<>>)'
      <3>1. Joined(<<>>) \in Seq(Byte) /\ Joined(<<>>) \o <<>> = SubSeq(b, 1, 0) /\ 0 <= Len(b)
        BY <1>4, NothingSent
      <3>2. QED
        BY <1>1, <1>2, <1>3, <1>4, <3>1, Zenon DEF Accounted
    <2>4. Full(<<>>, bufLen'[u]) /\ 0 - Len(<<>>) = Len(<<>>) * bufLen'[u]
      BY <1>5, <2>1, SMTT(30) DEF Full
    <2>5. QED
      BY <1>1, <1>2, <1>3, <1>4, <2>1, <2>2, <2>3, <2>4 DEF AtTop
  <1>7. QED
    BY <1>1, <1>2, <1>3, <1>5, <1>6 DEF Job

\* The first read: all of the body, or the first part of it.
LEMMA FirstReadJob ==
  ASSUME TypeOK, NEW u \in Uploads, Job(u), ReadSingle(u) \/ ReadFirst(u)
  PROVE  Job(u)'
  <1> DEFINE n == IF pc[u] = "single" THEN left[u] ELSE minOf(Len(body[u]), bufLen[u])
  <1>1. /\ pc[u] \in {"single", "first"} /\ body'[u] = body[u] /\ left'[u] = left[u]
        /\ bufLen'[u] = bufLen[u] /\ parts'[u] = parts[u] /\ res'[u] = res[u]
    BY DEF ReadSingle, ReadFirst, Goto
  <1>2. /\ buf'[u] = SubSeq(body[u], pos[u] + 1, pos[u] + n) /\ pos'[u] = pos[u] + n
        /\ \/ pc'[u] = "put"
           \/ pc[u] = "first" /\ pc'[u] = "create" /\ Len(body[u]) >= bufLen[u] /\ n <= MaxUploadSize
    BY <1>1 DEF ReadSingle, ReadFirst, Goto, Read, TypeOK
  <1>3. /\ body[u] \in Bodies /\ pos[u] = 0 /\ parts[u] = None /\ res[u] = None
        /\ PartSize <= bufLen[u] /\ bufLen[u] <= MaxPartSize
        /\ pc[u] = "single" => left[u] = Len(body[u])
        /\ pc[u] = "first" => left[u] < 0 /\ bufLen[u] = streamPartSize
    BY <1>1 DEF Job
  <1>4. body[u] \in Seq(Byte) /\ Len(body[u]) \in Nat /\ left[u] \in Int /\ bufLen[u] \in Nat
    BY <1>3, Values
  <1>5. n \in Nat /\ n <= Len(body[u]) /\ (pc'[u] = "create" => n = bufLen[u])
    BY <1>1, <1>2, <1>3, <1>4 DEF minOf
  <1> HIDE DEF n
  <1>6. pos'[u] = n /\ buf'[u] = SubSeq(body[u], 1, n) /\ Len(buf'[u]) = n /\ buf'[u] \in Seq(Byte)
    BY <1>2, <1>3, <1>4, <1>5, ReadOn, SMTT(30)
  <1>7. ASSUME pc'[u] = "create" PROVE AtTop(u, <<>>)'
    <2>1. n = bufLen[u] /\ left[u] < 0 /\ bufLen[u] = streamPartSize /\ n <= MaxUploadSize
      BY <1>1, <1>2, <1>3, <1>5, <1>7
    <2>2. Sized(u)'
      BY <1>1, <1>6, <2>1 DEF Sized
    <2>3. Accounted(u, <<>>)'
      <3>1. Joined(<<>>) \in Seq(Byte) /\ Joined(<<>>) \o SubSeq(body[u], 1, n) = SubSeq(body[u], 1, n)
        BY <1>4, <1>5, NothingSent, ZenonT(30)
      <3>2. QED
        BY <1>1, <1>5, <1>6, <3>1, Zenon DEF Accounted
    <2>4. Full(<<>>, bufLen[u]) /\ n - n = Len(<<>>) * bufLen[u]
      BY <1>4, <1>5 DEF Full
    <2>5. QED
      BY <1>1, <1>4, <1>6, <2>1, <2>2, <2>3, <2>4 DEF AtTop
  <1>8. QED
    BY <1>1, <1>2, <1>3, <1>6, <1>7 DEF Job

\* The multipart upload begins, or cannot.
LEMMA CreateJob ==
  ASSUME TypeOK, NEW u \in Uploads, Job(u), CreateMultipartUpload(u) \/ CreateFails(u)
  PROVE  Job(u)'
  <1>1. /\ pc[u] = "create" /\ body'[u] = body[u] /\ left'[u] = left[u] /\ pos'[u] = pos[u]
        /\ buf'[u] = buf[u] /\ bufLen'[u] = bufLen[u]
        /\ \/ pc'[u] = "part" /\ parts'[u] = <<>> /\ res'[u] = res[u]
           \/ pc'[u] = "return" /\ parts'[u] = parts[u]
           \/ pc'[u] = "return" /\ parts'[u] = <<>> /\ lost'[u]
    BY DEF CreateMultipartUpload, CreateFails, Goto, Result, TypeOK
  <1>2. /\ body[u] \in Bodies /\ PartSize <= bufLen[u] /\ bufLen[u] <= MaxPartSize
        /\ parts[u] = None /\ res[u] = None /\ AtTop(u, <<>>)
    BY <1>1 DEF Job
  <1>3. AtTop(u, <<>>)'
    BY <1>1, <1>2, ZenonT(30) DEF AtTop, Sized, Accounted
  <1>4. Fitting(<<>>, bufLen[u]) /\ <<>> \in Seq(Seq(Byte))
    BY PartSizeAssumption DEF Fitting
  <1>5. QED
    BY <1>1, <1>2, <1>3, <1>4, ZenonT(30) DEF Job

\* One turn of the loop: the buffered part is used up or the next one is read.
LEMMA ReadPartJob ==
  ASSUME TypeOK, NEW u \in Uploads, Job(u), ReadPart(u)
  PROVE  Job(u)'
  <1> DEFINE n == NextRead(u)
  <1>0. PICK p, k : p = parts[u] /\ k = Len(p)
    BY ZenonT(30)
  <1>1. /\ pc[u] = "part" /\ left[u] # 0 /\ body'[u] = body[u] /\ bufLen'[u] = bufLen[u]
        /\ parts'[u] = p /\ res'[u] = res[u]
    BY <1>0, Zenon DEF ReadPart
  <1>2. /\ body[u] \in Bodies /\ PartSize <= bufLen[u] /\ bufLen[u] <= MaxPartSize
        /\ p \in Seq(Seq(Byte)) /\ res[u] = None /\ AtTop(u, p)
        /\ p # None => Fitting(p, bufLen[u])
    BY <1>0, <1>1 DEF Job
  <1>3. /\ pos[u] \in Nat /\ left[u] \in Int /\ bufLen[u] \in Nat \ {0} /\ buf[u] \in Seq(Byte)
        /\ body[u] \in Seq(Byte) /\ Len(body[u]) \in Nat /\ k \in Nat
    BY <1>0, <1>2, Values, PartSizeAssumption
  <1>4. /\ Sized(u) /\ Accounted(u, p) /\ Full(p, bufLen[u]) /\ pos[u] - Len(buf[u]) = k * bufLen[u]
        /\ left[u] > 0 => pos[u] + left[u] = Len(body[u]) /\ buf[u] = <<>>
        /\ left[u] < 0 => buf[u] = <<>> \/ Len(buf[u]) = bufLen[u]
    <2>1. /\ Sized(u) /\ Accounted(u, p) /\ Full(p, bufLen[u]) /\ pos[u] - Len(buf[u]) = k * bufLen[u]
          /\ left[u] > 0 => pos[u] + left[u] = Len(body[u])
          /\ left[u] >= 0 => buf[u] = <<>>
          /\ left[u] < 0 => buf[u] = <<>> \/ Len(buf[u]) = bufLen[u]
      BY <1>0, <1>1, <1>2, Zenon DEF AtTop
    <2>2. left[u] > 0 => left[u] >= 0
      BY <1>3
    <2>3. QED
      BY <2>1, <2>2, Zenon
  <1>5. ASSUME pc'[u] = "send", AtSend(u, p)' PROVE Job(u)'
    BY <1>1, <1>2, <1>5 DEF Job
  <1>6. CASE buf[u] # <<>>
    <2>1. pc'[u] = "send" /\ left'[u] = left[u] /\ pos'[u] = pos[u] /\ buf'[u] = buf[u]
      BY <1>6, SMTT(30) DEF ReadPart, Goto, TypeOK
    <2>2. left[u] < 0 /\ Len(buf[u]) = bufLen[u]
      BY <1>1, <1>3, <1>4, <1>6
    <2>3. Sized(u)' /\ Accounted(u, p)'
      BY <1>1, <1>4, <2>1, ZenonT(30) DEF Sized, Accounted
    <2>4. AtSend(u, p)'
      BY <1>0, <1>1, <1>3, <1>4, <1>6, <2>1, <2>2, <2>3 DEF AtSend
    <2>5. QED
      BY <1>5, <2>1, <2>4
  <1>7. CASE buf[u] = <<>>
    <2>1. /\ pos[u] + n <= MaxUploadSize
          /\ buf'[u] = SubSeq(body[u], pos[u] + 1, pos[u] + n) /\ pos'[u] = pos[u] + n
          /\ pc'[u] = IF n = 0 THEN "verify" ELSE "send"
          /\ \/ left[u] > 0 /\ left'[u] = left[u]
             \/ left[u] < 0 /\ n = bufLen[u] /\ left'[u] = left[u]
             \/ left[u] < 0 /\ pos[u] + n = Len(body[u]) /\ left'[u] = 0
      <3>1. /\ pos[u] + n <= MaxUploadSize /\ Read(u, n)
            /\ \/ left[u] > 0 /\ left' = left
               \/ left[u] < 0 /\ n = bufLen[u] /\ left' = left
               \/ left[u] < 0 /\ pos[u] + n = Len(body[u]) /\ left' = [left EXCEPT ![u] = 0]
            /\ Goto(u, "part", IF n = 0 THEN "verify" ELSE "send")
        BY <1>7, Zenon DEF ReadPart
      <3> HIDE DEF n
      <3>2. QED
        BY <3>1, ZenonT(30) DEF Read, Goto, TypeOK
    <2>2. /\ n \in Nat /\ pos[u] + n <= Len(body[u]) /\ n <= bufLen[u]
          /\ left[u] > 0 => n = minOf(bufLen[u], left[u]) /\ n > 0
      <3>1. pos[u] <= Len(body[u])
        BY <1>4 DEF Accounted
      <3>2. n = minOf(bufLen[u], IF left[u] > 0 THEN left[u] ELSE Len(body[u]) - pos[u])
        BY DEF NextRead
      <3>3. left[u] > 0 => pos[u] + left[u] = Len(body[u])
        BY <1>4
      <3> HIDE DEF n
      <3>4. QED
        BY <1>3, <3>1, <3>2, <3>3, SMTT(30) DEF minOf
    <2> HIDE DEF n
    <2>3. /\ buf'[u] \in Seq(Byte) /\ Len(buf'[u]) = n /\ SubSeq(body[u], 1, pos[u]) \in Seq(Byte)
          /\ SubSeq(body[u], 1, pos[u]) \o buf'[u] = SubSeq(body[u], 1, pos[u] + n)
      <3>1. buf'[u] = SubSeq(body[u], pos[u] + 1, pos[u] + n)
        BY <2>1
      <3>2. body[u] \in Seq(Byte) /\ pos[u] \in Nat /\ n \in Nat /\ pos[u] + n <= Len(body[u])
        BY <1>3, <2>2, Zenon
      <3>3. /\ SubSeq(body[u], 1, pos[u]) \in Seq(Byte)
            /\ SubSeq(body[u], pos[u] + 1, pos[u] + n) \in Seq(Byte)
            /\ Len(SubSeq(body[u], pos[u] + 1, pos[u] + n)) = n
            /\ SubSeq(body[u], 1, pos[u]) \o SubSeq(body[u], pos[u] + 1, pos[u] + n)
                  = SubSeq(body[u], 1, pos[u] + n)
        BY <3>2, ReadOn, ZenonT(30)
      <3>4. QED
        BY <3>1, <3>3, Zenon
    <2>4. Joined(p) = SubSeq(body[u], 1, pos[u])
      <3>1. Joined(p) \in Seq(Byte) /\ Joined(p) \o <<>> = SubSeq(body[u], 1, pos[u])
        BY <1>4, <1>7, Zenon DEF Accounted
      <3>2. \A s \in Seq(Byte) : s \o <<>> = s
        OBVIOUS
      <3>3. QED
        BY <3>1, <3>2, Zenon
    <2>5. Accounted(u, p)'
      <3>1. Joined(p) \in Seq(Byte) /\ Joined(p) \o buf'[u] = SubSeq(body[u], 1, pos'[u]) /\ pos'[u] <= Len(body[u])
        BY <2>1, <2>2, <2>3, <2>4, Zenon
      <3>2. QED
        BY <1>1, <3>1, Zenon DEF Accounted
    <2>6. Sized(u)'
      BY <1>1, <1>4, <2>1 DEF Sized
    <2>7. CASE n = 0
      <3>1. pc'[u] = "verify" /\ buf'[u] = <<>>
        BY <2>1, <2>3, <2>7, SMTT(30)
      <3>2. QED
        BY <1>1, <1>2, <2>5, <3>1 DEF Job
    <2>8. CASE n # 0
      <3>1. pc'[u] = "send" /\ buf'[u] # <<>>
        <4>1. Len(buf'[u]) # Len(<<>>)
          BY <2>3, <2>8, Len(<<>>) = 0
        <4>2. QED
          BY <2>1, <2>8, <4>1, Zenon
      <3>2. pos'[u] - Len(buf'[u]) = pos[u] /\ pos[u] = k * bufLen[u]
        <4>1. pos[u] - Len(<<>>) = k * bufLen[u]
          BY <1>4, <1>7, Zenon
        <4>2. pos[u] - Len(<<>>) = pos[u]
          BY <1>3
        <4>3. pos'[u] = pos[u] + n /\ Len(buf'[u]) = n /\ pos[u] \in Nat /\ n \in Nat
          BY <1>3, <2>1, <2>2, <2>3, Zenon
        <4>4. pos'[u] - Len(buf'[u]) = pos[u]
          BY <4>3
        <4>5. QED
          BY <4>1, <4>2, <4>4, Zenon
      <3>3. ASSUME left'[u] > 0 PROVE /\ Len(buf'[u]) = minOf(bufLen[u], left'[u])
                                      /\ pos[u] + left'[u] = Len(body[u])
        <4>1. left[u] > 0 /\ left'[u] = left[u]
          BY <1>3, <2>1, <3>3
        <4>2. QED
          BY <1>4, <2>2, <2>3, <4>1, Zenon
      <3>4. ASSUME left'[u] < 0 PROVE Len(buf'[u]) = bufLen[u]
        <4>1. n = bufLen[u]
          BY <1>3, <2>1, <3>4
        <4>2. QED
          BY <2>3, <4>1, Zenon
      <3>5. AtSend(u, p)'
        <4>1. Full(p, bufLen[u]) /\ Len(buf'[u]) <= bufLen[u]
          BY <1>4, <2>2, <2>3, Zenon
        <4>2. QED
          BY <1>0, <1>1, <2>5, <2>6, <3>1, <3>2, <3>3, <3>4, <4>1, ZenonT(30) DEF AtSend
      <3>6. QED
        BY <1>5, <3>1, <3>5
    <2>9. QED
      BY <2>7, <2>8
  <1>8. QED
    BY <1>6, <1>7

\* A part is sent: it is full, or the last one.
LEMMA UploadPartJob ==
  ASSUME TypeOK, NEW u \in Uploads, Job(u), UploadPart(u)
  PROVE  Job(u)'
  <1>0. PICK p, k, q : p = parts[u] /\ k = Len(p) /\ q = Append(p, buf[u])
    BY ZenonT(30)
  <1>1. /\ pc[u] = "send" /\ pc'[u] = "part" /\ k + 1 <= MaxParts /\ parts'[u] = q
        /\ left'[u] = (IF left[u] > 0 THEN left[u] - Len(buf[u]) ELSE left[u])
        /\ buf'[u] = <<>> /\ body'[u] = body[u] /\ pos'[u] = pos[u] /\ bufLen'[u] = bufLen[u]
        /\ res'[u] = res[u]
    BY <1>0 DEF UploadPart, Goto, TypeOK
  <1>2. /\ body[u] \in Bodies /\ PartSize <= bufLen[u] /\ bufLen[u] <= MaxPartSize
        /\ p \in Seq(Seq(Byte)) /\ res[u] = None /\ AtSend(u, p)
    BY <1>0, <1>1, ZenonT(30) DEF Job
  <1>3. /\ pos[u] \in Nat /\ left[u] \in Int /\ bufLen[u] \in Nat \ {0} /\ buf[u] \in Seq(Byte)
        /\ body[u] \in Seq(Byte) /\ Len(body[u]) \in Nat /\ k \in Nat
    BY <1>0, <1>2, Values, PartSizeAssumption
  <1>4. /\ q \in Seq(Seq(Byte)) /\ Len(q) = k + 1 /\ q[k + 1] = buf[u]
        /\ \A i \in 1 .. k : q[i] = p[i]
    BY <1>0, <1>2, <1>3
  <1>5. /\ Sized(u) /\ Accounted(u, p) /\ Full(p, bufLen[u]) /\ pos[u] - Len(buf[u]) = k * bufLen[u]
        /\ buf[u] # <<>> /\ Len(buf[u]) <= bufLen[u]
        /\ left[u] > 0 => /\ Len(buf[u]) = minOf(bufLen[u], left[u])
                          /\ pos[u] - Len(buf[u]) + left[u] = Len(body[u])
        /\ left[u] < 0 => Len(buf[u]) = bufLen[u]
    BY <1>0, <1>2, Zenon DEF AtSend
  <1>6. Joined(q) = Joined(p) \o buf[u]
    BY <1>0, <1>2, <1>3, JoinedAppend, ZenonT(30)
  <1>7. Len(buf[u]) \in Nat \ {0}
    BY <1>3, <1>5
  <1>8. Accounted(u, q)'
    <2>1. Joined(q) = SubSeq(body[u], 1, pos[u]) /\ pos[u] <= Len(body[u])
      BY <1>5, <1>6, Zenon DEF Accounted
    <2>2. SubSeq(body[u], 1, pos[u]) \in Seq(Byte)
      BY <1>3, <2>1
    <2>3. \A s \in Seq(Byte) : s \o <<>> = s
      OBVIOUS
    <2>4. Joined(q) \in Seq(Byte) /\ Joined(q) \o <<>> = SubSeq(body[u], 1, pos[u])
      BY <2>1, <2>2, <2>3, Zenon
    <2>5. QED
      BY <1>1, <2>1, <2>4, Zenon DEF Accounted
  <1>9. Sized(u)'
    BY <1>1, <1>5 DEF Sized
  <1>10. Fitting(q, bufLen[u])
    <2>1. \A i \in 1 .. Len(q) : i \in 1 .. k \/ i = k + 1
      BY <1>3, <1>4
    <2>2. \A i \in 1 .. k : q[i] # <<>> /\ Len(q[i]) <= bufLen[u] /\ Len(q[i]) = bufLen[u]
      <3>1. \A i \in 1 .. k : Len(q[i]) = bufLen[u]
        BY <1>0, <1>4, <1>5 DEF Full
      <3>2. \A i \in 1 .. k : q[i] # <<>> /\ Len(q[i]) <= bufLen[u]
        BY <1>3, <3>1, SMTT(30)
      <3>3. QED
        BY <3>1, <3>2
    <2>3. Len(q) <= MaxParts /\ ~(k + 1 < Len(q))
      BY <1>1, <1>3, <1>4
    <2>4. QED
      BY <1>4, <1>5, <2>1, <2>2, <2>3, Zenon DEF Fitting
  <1>11. ASSUME left'[u] # 0 PROVE Len(buf[u]) = bufLen[u]
    <2>1. CASE left[u] > 0
      BY <1>1, <1>3, <1>5, <1>11, <2>1, SMTT(30) DEF minOf
    <2>2. CASE left[u] < 0
      BY <1>5, <2>2
    <2>3. CASE left[u] = 0
      BY <1>1, <1>11, <2>3
    <2>4. QED
      BY <1>3, <2>1, <2>2, <2>3, SMTT(30)
  <1>12. ASSUME left'[u] # 0 PROVE Full(q, bufLen[u]) /\ pos[u] - Len(<<>>) = Len(q) * bufLen[u]
    <2>1. (k + 1) * bufLen[u] = k * bufLen[u] + bufLen[u] /\ k * bufLen[u] \in Nat
      BY <1>3
    <2>2. pos[u] - bufLen[u] = k * bufLen[u]
      BY <1>5, <1>11, <1>12, Zenon
    <2>3. pos[u] - Len(<<>>) = (k + 1) * bufLen[u]
      BY <1>3, <2>1, <2>2, SMTT(30)
    <2>4. Full(q, bufLen[u])
      <3>1. \A i \in 1 .. k : Len(p[i]) = bufLen[u]
        BY <1>0, <1>5, Zenon DEF Full
      <3>2. \A i \in 1 .. Len(q) : i \in 1 .. k \/ i = k + 1
        BY <1>3, <1>4
      <3>3. Len(buf[u]) = bufLen[u]
        BY <1>11, <1>12, Zenon
      <3>4. QED
        BY <1>4, <3>1, <3>2, <3>3, Zenon DEF Full
    <2>5. QED
      BY <1>4, <2>3, <2>4, Zenon
  <1>13. ASSUME left'[u] > 0 PROVE pos[u] + left'[u] = Len(body[u])
    <2>1. left[u] > 0 /\ left'[u] = left[u] - Len(buf[u])
      BY <1>1, <1>3, <1>13
    <2>2. pos[u] - Len(buf[u]) + left[u] = Len(body[u])
      BY <1>5, <2>1, Zenon
    <2>3. pos[u] \in Nat /\ left[u] \in Int /\ Len(buf[u]) \in Nat /\ Len(body[u]) \in Nat
      BY <1>3, <1>7
    <2>4. QED
      BY <2>1, <2>2, <2>3
  <1>14. AtTop(u, q)'
    BY <1>1, <1>8, <1>9, <1>12, <1>13, ZenonT(30) DEF AtTop
  <1>15. QED
    BY <1>1, <1>2, <1>4, <1>10, <1>14 DEF Job

\* The last steps: what is left of the upload stays acceptable, and is either
\* cleared or given up as lost.
LEMMA EndJob ==
  ASSUME TypeOK, NEW u \in Uploads, Job(u),
         \/ ReadFails(u) \/ PutObject(u) \/ PutMismatch(u) \/ LoopEnds(u) \/ UploadPartFails(u)
         \/ VerifyMismatch(u) \/ CompleteMultipartUpload(u) \/ CompleteFails(u)
         \/ AbortMultipartUpload(u) \/ Return(u) \/ Crash(u)
  PROVE  Job(u)'
  <1>1. CASE ReadFails(u)
    <2>1. /\ body'[u] = body[u] /\ bufLen'[u] = bufLen[u] /\ parts'[u] = parts[u]
          /\ \/ pc[u] \in {"single", "first"} /\ pc'[u] = "return"
             \/ pc[u] = "part" /\ pc'[u] = "abort"
      BY <1>1, SMTT(30) DEF ReadFails, Goto, TypeOK, jobVars
    <2>2. QED
      BY <2>1, ZenonT(30) DEF Job
  <1>2. CASE PutObject(u) \/ PutMismatch(u)
    <2>1. /\ body'[u] = body[u] /\ bufLen'[u] = bufLen[u] /\ parts'[u] = parts[u]
          /\ pc[u] = "put" /\ pc'[u] = "return"
      BY <1>2, SMTT(30) DEF PutObject, PutMismatch, Goto, TypeOK, jobVars
    <2>2. QED
      BY <2>1, ZenonT(30) DEF Job
  <1>3. CASE LoopEnds(u)
    <2>1. /\ body'[u] = body[u] /\ bufLen'[u] = bufLen[u] /\ parts'[u] = parts[u] /\ pos'[u] = pos[u]
          /\ buf'[u] = buf[u] /\ res'[u] = res[u] /\ pc[u] = "part" /\ left[u] = 0 /\ pc'[u] = "verify"
      BY <1>3, SMTT(30) DEF LoopEnds, Goto, TypeOK, jobVars
    <2>2. /\ AtTop(u, parts[u]) /\ parts[u] \in Seq(Seq(Byte)) /\ body[u] \in Bodies
          /\ PartSize <= bufLen[u] /\ bufLen[u] <= MaxPartSize /\ res[u] = None
          /\ parts[u] # None => Fitting(parts[u], bufLen[u])
      BY <2>1, ZenonT(30) DEF Job
    <2>3. Accounted(u, parts[u]) /\ buf[u] = <<>>
      <3>1. 0 >= 0
        OBVIOUS
      <3>2. QED
        BY <2>1, <2>2, <3>1, Zenon DEF AtTop
    <2>4. Accounted(u, parts[u])'
      BY <2>1, <2>3, Zenon DEF Accounted
    <2>5. QED
      BY <2>1, <2>2, <2>3, <2>4, ZenonT(30) DEF Job
  <1>4. CASE UploadPartFails(u) \/ VerifyMismatch(u)
    <2>1. /\ body'[u] = body[u] /\ bufLen'[u] = bufLen[u] /\ parts'[u] = parts[u]
          /\ pc[u] \in {"send", "verify"} /\ pc'[u] = "abort"
      BY <1>4, SMTT(30) DEF UploadPartFails, VerifyMismatch, Goto, TypeOK, jobVars
    <2>2. QED
      BY <2>1, ZenonT(30) DEF Job
  <1>5. CASE CompleteMultipartUpload(u) \/ CompleteFails(u)
    <2>1. /\ body'[u] = body[u] /\ bufLen'[u] = bufLen[u] /\ pc[u] = "verify"
          /\ \/ pc'[u] = "return" /\ parts'[u] = None
             \/ pc'[u] = "abort" /\ parts'[u] \in {parts[u], None}
      BY <1>5, SMTT(30) DEF CompleteMultipartUpload, CompleteFails, Goto, TypeOK
    <2>2. QED
      BY <2>1, ZenonT(30) DEF Job
  <1>6. CASE AbortMultipartUpload(u)
    <2>1. /\ body'[u] = body[u] /\ bufLen'[u] = bufLen[u] /\ pc[u] = "abort" /\ pc'[u] = "return"
          /\ parts'[u] = None \/ (parts'[u] = parts[u] /\ lost'[u])
      <3>1. /\ pc[u] = "abort" /\ pc' = [pc EXCEPT ![u] = "return"] /\ body' = body /\ bufLen' = bufLen
            /\ \/ parts' = [parts EXCEPT ![u] = None]
               \/ parts' = parts /\ lost' = [lost EXCEPT ![u] = TRUE]
        BY <1>6, Zenon DEF AbortMultipartUpload, Goto
      <3>2. pc \in [Uploads -> Steps] /\ parts \in [Uploads -> Seq(Seq(Byte)) \cup {None}]
        BY Zenon DEF TypeOK
      <3>3. lost \in [Uploads -> BOOLEAN]
        BY Zenon DEF TypeOK
      <3>4. QED
        BY <3>1, <3>2, <3>3, Zenon
    <2>2. QED
      BY <2>1, ZenonT(30) DEF Job
  <1>7. CASE Return(u) \/ Crash(u)
    <2>1. pc'[u] = "idle" /\ pos'[u] = 0 /\ buf'[u] = <<>> /\ parts'[u] = None /\ res'[u] = None
      BY <1>7 DEF Return, Crash, Reset, Goto, Result, TypeOK
    <2>2. QED
      BY <2>1, ZenonT(30) DEF Job
  <1>8. QED
    BY <1>1, <1>2, <1>3, <1>4, <1>5, <1>6, <1>7, Zenon

\* Every step keeps what is known of every upload.
LEMMA JobStep == TypeOK /\ JobInv /\ [Next]_vars => JobInv'
  <1> SUFFICES ASSUME TypeOK, JobInv, [Next]_vars, NEW v \in Uploads PROVE Job(v)'
    BY Zenon DEF JobInv
  <1>1. Job(v)
    BY DEF JobInv
  <1>2. CASE UNCHANGED vars
    <2>1. SameJob(v)
      BY <1>2, Zenon DEF vars, jobVars, SameJob
    <2>2. QED
      BY <1>1, <2>1, JobFrame
  <1>3. ASSUME NEW u \in Uploads, Begin(u) \/ Put(u) \/ Crash(u) PROVE Job(v)'
    <2>1. CASE u # v
      <3>1. SameJob(v)
        BY <1>3, <2>1, OwnStep
      <3>2. QED
        BY <1>1, <3>1, JobFrame
    <2>2. CASE u = v
      BY <1>1, <1>3, <2>2, BeginJob, FirstReadJob, CreateJob, ReadPartJob, UploadPartJob, EndJob, ZenonT(30) DEF Put
    <2>3. QED
      BY <2>1, <2>2
  <1>4. QED
    BY <1>2, <1>3, Zenon DEF Next

\* What may be stored is what was hashed.
LEMMA StoredIsContent ==
  ASSUME TypeOK, NEW u \in Uploads, Job(u), Verified(u)
  PROVE  /\ pc[u] = "put" => buf[u] = content
         /\ pc[u] = "verify" => Joined(parts[u]) = content
  <1>1. CASE pc[u] = "put"
    BY <1>1, ZenonT(30) DEF Job, Verified
  <1>2. CASE pc[u] = "verify"
    <2>1. Accounted(u, parts[u]) /\ buf[u] = <<>>
      BY <1>2 DEF Job
    <2>2. Joined(parts[u]) \in Seq(Byte) /\ Joined(parts[u]) \o <<>> = SubSeq(body[u], 1, pos[u])
      BY <2>1, Zenon DEF Accounted
    <2>3. \A s \in Seq(Byte) : s \o <<>> = s
      OBVIOUS
    <2>4. QED
      BY <1>2, <2>2, <2>3, Zenon DEF Verified
  <1>3. QED
    BY <1>1, <1>2

\* The object is stored whole, or not touched; "stored" is what its upload says.
LEMMA ObjectStep ==
  ASSUME TypeOK, JobInv, [Next]_vars
  PROVE  /\ object' = object \/ object' = content
         /\ content' = content
         /\ \A v \in Uploads : res'[v] = "stored" => res[v] = "stored" \/ object' = content
         /\ acked' => acked \/ \E v \in Uploads : res[v] = "stored"
  <1>1. CASE UNCHANGED vars
    BY <1>1, Zenon DEF vars
  <1>2. ASSUME NEW u \in Uploads, Begin(u) \/ Put(u) \/ Crash(u)
        PROVE  /\ object' = object \/ object' = content
               /\ \A v \in Uploads : res'[v] = "stored" => res[v] = "stored" \/ object' = content
               /\ acked' => acked \/ \E v \in Uploads : res[v] = "stored"
    <2>1. Job(u) /\ \A v \in Uploads \ {u} : res'[v] = res[v]
      BY <1>2, OwnStep DEF JobInv, SameJob
    <2>2. CASE PutObject(u)
      <3>1. pc[u] = "put" /\ Verified(u)
        BY <2>2 DEF PutObject, Goto
      <3>2. buf[u] = content
        BY <2>1, <3>1, StoredIsContent
      <3>3. (object' = content \/ (object' = object /\ res'[u] = "failed")) /\ acked' = acked
        <4>1. \/ object' = buf[u]
              \/ object' = object /\ res' = [res EXCEPT ![u] = "failed"]
          BY <2>2, Zenon DEF PutObject, Result
        <4>2. acked' = acked
          BY <2>2, Zenon DEF PutObject
        <4>3. res \in [Uploads -> Results \cup {None}]
          BY Zenon DEF TypeOK
        <4>4. QED
          BY <3>2, <4>1, <4>2, <4>3, Zenon
      <3>4. QED
        BY <2>1, <3>3
    <2>3. CASE CompleteMultipartUpload(u) \/ CompleteFails(u)
      <3>1. pc[u] = "verify" /\ Verified(u)
        BY <2>3 DEF CompleteMultipartUpload, CompleteFails, Goto
      <3>2. Joined(parts[u]) = content
        BY <2>1, <3>1, StoredIsContent
      <3>3. (object' = content \/ (object' = object /\ res'[u] = "failed")) /\ acked' = acked
        <4>1. \/ object' = Joined(parts[u])
              \/ object' = object /\ res' = [res EXCEPT ![u] = "failed"]
          BY <2>3, Zenon DEF CompleteMultipartUpload, CompleteFails, Result
        <4>2. acked' = acked
          BY <2>3, Zenon DEF CompleteMultipartUpload, CompleteFails
        <4>3. res \in [Uploads -> Results \cup {None}]
          BY Zenon DEF TypeOK
        <4>4. QED
          BY <3>2, <4>1, <4>2, <4>3, Zenon
      <3>4. QED
        BY <2>1, <3>3
    <2>4. CASE Return(u) \/ Crash(u)
      <3>1. object' = object /\ res'[u] = None /\ (acked' => acked \/ res[u] = "stored")
        BY <2>4 DEF Return, Crash, Reset, Result, TypeOK
      <3>2. QED
        BY <2>1, <3>1, BodiesAssumption
    <2>5. CASE Begin(u)
      BY <2>1, <2>5 DEF Begin, Result, TypeOK
    <2>6. CASE ReadFails(u) \/ PutMismatch(u) \/ CreateFails(u) \/ UploadPartFails(u) \/ VerifyMismatch(u)
      <3>1. object' = object /\ acked' = acked /\ res'[u] \in {"failed", "mismatch", "toomany"}
        BY <2>6 DEF ReadFails, PutMismatch, CreateFails, UploadPartFails, VerifyMismatch, Result, TypeOK
      <3>2. QED
        BY <2>1, <3>1, SMTT(30)
    <2>7. CASE \/ ReadSingle(u) \/ ReadFirst(u) \/ CreateMultipartUpload(u) \/ ReadPart(u) \/ LoopEnds(u)
               \/ UploadPart(u) \/ AbortMultipartUpload(u)
      <3>1. object' = object /\ acked' = acked /\ res' = res
        BY <2>7, Zenon DEF ReadSingle, ReadFirst, CreateMultipartUpload, ReadPart, LoopEnds, UploadPart,
           AbortMultipartUpload
      <3>2. QED
        BY <3>1
    <2>8. QED
      BY <1>2, <2>2, <2>3, <2>4, <2>5, <2>6, <2>7, ZenonT(30) DEF Put
  <1>3. content' = content
    BY <1>1, OwnStep, Zenon DEF Next, vars
  <1>4. QED
    BY <1>1, <1>2, <1>3, Zenon DEF Next

-----------------------------------------------------------------------------
(* Types *)

\* Every step keeps the types: what is read is data, as it is part of a body.
LEMMA TypeStep == TypeOK /\ JobInv /\ [Next]_vars => TypeOK'
  <1> SUFFICES ASSUME TypeOK, JobInv, [Next]_vars PROVE TypeOK'
    OBVIOUS
  <1>1. CASE UNCHANGED vars
    BY <1>1, Zenon DEF TypeOK, vars, jobVars
  <1>2. ASSUME NEW u \in Uploads, Begin(u) \/ Put(u) \/ Crash(u) PROVE TypeOK'
    <2>1. Job(u) /\ content' = content
      BY <1>2, OwnStep DEF JobInv
    <2>2. ASSUME NEW n \in Nat, body[u] \in Bodies, pos[u] + n <= Len(body[u]), Read(u, n)
          PROVE  buf' \in [Uploads -> Seq(Byte)] /\ pos' \in [Uploads -> Nat]
      <3>1. SubSeq(body[u], pos[u] + 1, pos[u] + n) \in Seq(Byte) /\ pos[u] + n \in Nat
        <4>1. pos[u] \in Nat /\ body[u] \in Seq(Byte)
          BY <2>2, Values
        <4>2. QED
          BY <2>2, <4>1, ReadOn
      <3>2. buf \in [Uploads -> Seq(Byte)] /\ pos \in [Uploads -> Nat]
        BY Zenon DEF TypeOK
      <3>3. QED
        BY <2>2, <3>1, <3>2, Zenon DEF Read
    <2>3. object' \in Seq(Byte) \cup {None}
      <3>1. content \in Seq(Byte) /\ object \in Seq(Byte) \cup {None}
        BY BodiesAssumption, Zenon DEF TypeOK
      <3>2. QED
        BY <3>1, ObjectStep
    <2>4. acked' \in BOOLEAN
      BY <1>2, ZenonT(30) DEF TypeOK, Begin, Put, Crash, ReadSingle, ReadFirst, ReadFails, PutObject,
         PutMismatch, CreateMultipartUpload, CreateFails, ReadPart, LoopEnds, UploadPart, UploadPartFails,
         VerifyMismatch, CompleteMultipartUpload, CompleteFails, AbortMultipartUpload, Return
    <2>5. pc' \in [Uploads -> Steps] /\ res' \in [Uploads -> Results \cup {None}]
      <3>1. pc \in [Uploads -> Steps] /\ res \in [Uploads -> Results \cup {None}]
        BY Zenon DEF TypeOK
      <3> USE DEF Steps, Results, Goto, Result
      <3>2. CASE Begin(u)
        BY <3>1, <3>2 DEF Begin
      <3>3. CASE ReadSingle(u) \/ ReadFirst(u) \/ ReadFails(u)
        BY <3>1, <3>3 DEF ReadSingle, ReadFirst, ReadFails
      <3>4. CASE PutObject(u) \/ PutMismatch(u) \/ CreateMultipartUpload(u) \/ CreateFails(u)
        BY <3>1, <3>4 DEF PutObject, PutMismatch, CreateMultipartUpload, CreateFails
      <3>5. CASE ReadPart(u) \/ LoopEnds(u) \/ UploadPart(u)
        BY <3>1, <3>5 DEF ReadPart, LoopEnds, UploadPart
      <3>6. CASE UploadPartFails(u) \/ VerifyMismatch(u) \/ CompleteMultipartUpload(u) \/ CompleteFails(u)
        BY <3>1, <3>6 DEF UploadPartFails, VerifyMismatch, CompleteMultipartUpload, CompleteFails
      <3>7. CASE AbortMultipartUpload(u) \/ Return(u) \/ Crash(u)
        BY <3>1, <3>7 DEF AbortMultipartUpload, Return, Crash, Reset
      <3>8. QED
        BY <1>2, <3>2, <3>3, <3>4, <3>5, <3>6, <3>7, ZenonT(30) DEF Put
    <2>6. /\ body' \in [Uploads -> Bodies \cup {None}] /\ bufLen' \in [Uploads -> Nat]
      <3>1. body \in [Uploads -> Bodies \cup {None}] /\ bufLen \in [Uploads -> Nat]
        BY Zenon DEF TypeOK
      <3>2. CASE Begin(u)
        <4>1. PICK b \in Bodies : /\ body' = [body EXCEPT ![u] = b]
                                  /\ \/ bufLen' = [bufLen EXCEPT ![u] = partSizeFor(Len(b))]
                                     \/ bufLen' = [bufLen EXCEPT ![u] = streamPartSize]
          BY <3>2, Zenon DEF Begin
        <4>2. Len(b) \in Nat
          BY BodiesAssumption
        <4>3. partSizeFor(Len(b)) \in Nat /\ streamPartSize \in Nat
          BY <4>2, PartSizeInRange, StreamPartSize
        <4>4. QED
          BY <3>1, <4>1, <4>3, Zenon
      <3>3. CASE Return(u) \/ Crash(u)
        <4>1. body' = [body EXCEPT ![u] = None] /\ bufLen' = [bufLen EXCEPT ![u] = 0]
          BY <3>3, Zenon DEF Return, Crash, Reset
        <4>2. QED
          BY <3>1, <4>1
      <3>4. CASE body' = body /\ bufLen' = bufLen
        BY <3>1, <3>4
      <3>5. QED
        BY <1>2, <3>2, <3>3, <3>4, ZenonT(30) DEF Put, ReadSingle, ReadFirst, ReadFails, PutObject,
           PutMismatch, CreateMultipartUpload, CreateFails, ReadPart, LoopEnds, UploadPart, UploadPartFails,
           VerifyMismatch, CompleteMultipartUpload, CompleteFails, AbortMultipartUpload, jobVars
    <2>7. parts' \in [Uploads -> Seq(Seq(Byte)) \cup {None}] /\ lost' \in [Uploads -> BOOLEAN]
      <3>1. parts \in [Uploads -> Seq(Seq(Byte)) \cup {None}] /\ lost \in [Uploads -> BOOLEAN]
        BY Zenon DEF TypeOK
      <3>2. <<>> \in Seq(Seq(Byte))
        OBVIOUS
      <3>3. CASE UploadPart(u)
        <4>1. parts[u] \in Seq(Seq(Byte)) /\ buf[u] \in Seq(Byte)
          BY <2>1, <3>3, Values DEF UploadPart, Goto, Job
        <4>2. Append(parts[u], buf[u]) \in Seq(Seq(Byte))
          BY <4>1
        <4>3. QED
          BY <3>1, <3>3, <4>2, Zenon DEF UploadPart
      <3>4. CASE CreateMultipartUpload(u) \/ CreateFails(u)
        <4>1. /\ parts' = parts \/ parts' = [parts EXCEPT ![u] = <<>>]
              /\ lost' = lost \/ lost' = [lost EXCEPT ![u] = TRUE]
          BY <3>4, Zenon DEF CreateMultipartUpload, CreateFails
        <4>2. QED
          BY <3>1, <3>2, <4>1, Zenon
      <3>5. CASE CompleteMultipartUpload(u) \/ CompleteFails(u) \/ AbortMultipartUpload(u)
        <4>1. /\ parts' = parts \/ parts' = [parts EXCEPT ![u] = None]
              /\ lost' = lost \/ lost' = [lost EXCEPT ![u] = TRUE]
          BY <3>5, Zenon DEF CompleteMultipartUpload, CompleteFails, AbortMultipartUpload
        <4>2. QED
          BY <3>1, <4>1, Zenon
      <3>6. CASE Return(u) \/ Crash(u)
        <4>1. parts' = [parts EXCEPT ![u] = None] /\ lost' = [lost EXCEPT ![u] = FALSE]
          BY <3>6, Zenon DEF Return, Crash, Reset
        <4>2. QED
          BY <3>1, <4>1, Zenon
      <3>7. CASE parts' = parts /\ lost' = lost
        BY <3>1, <3>7, Zenon
      <3>8. QED
        BY <1>2, <3>3, <3>4, <3>5, <3>6, <3>7, ZenonT(30) DEF Begin, Put, ReadSingle, ReadFirst, ReadFails,
           PutObject, PutMismatch, ReadPart, LoopEnds, UploadPartFails, VerifyMismatch, jobVars
    <2>8. /\ left' \in [Uploads -> Int] /\ pos' \in [Uploads -> Nat] /\ buf' \in [Uploads -> Seq(Byte)]
      <3>1. left \in [Uploads -> Int] /\ pos \in [Uploads -> Nat] /\ buf \in [Uploads -> Seq(Byte)]
        BY Zenon DEF TypeOK
      <3>2. CASE Begin(u)
        <4>1. \A b \in Bodies : Len(b) \in Int
          BY BodiesAssumption
        <4>2. QED
          BY <3>1, <3>2, <4>1 DEF Begin
      <3>3. CASE ReadSingle(u)
        <4>1. pc[u] = "single" /\ Read(u, left[u]) /\ left' = left
          BY <3>3, Zenon DEF ReadSingle, Goto
        <4>2. body[u] \in Bodies /\ pos[u] = 0 /\ left[u] = Len(body[u])
          BY <2>1, <4>1 DEF Job
        <4>3. Len(body[u]) \in Nat
          BY <4>2, Values
        <4>4. QED
          BY <2>2, <3>1, <4>1, <4>2, <4>3
      <3>4. CASE ReadFirst(u)
        <4>1. pc[u] = "first" /\ Read(u, minOf(Len(body[u]), bufLen[u])) /\ left' = left
          BY <3>4, Zenon DEF ReadFirst
        <4>2. body[u] \in Bodies /\ pos[u] = 0
          BY <2>1, <4>1 DEF Job
        <4>3. Len(body[u]) \in Nat /\ bufLen[u] \in Nat
          BY <4>2, Values
        <4>4. minOf(Len(body[u]), bufLen[u]) \in Nat /\ pos[u] + minOf(Len(body[u]), bufLen[u]) <= Len(body[u])
          BY <4>2, <4>3 DEF minOf
        <4>5. QED
          BY <2>2, <3>1, <4>1, <4>2, <4>4
      <3>5. CASE ReadPart(u)
        <4>1. /\ pc[u] = "part" /\ left[u] # 0
              /\ \/ left' = left /\ pos' = pos /\ buf' = buf
                 \/ Read(u, NextRead(u)) /\ (left' = left \/ left' = [left EXCEPT ![u] = 0])
          BY <3>5, Zenon DEF ReadPart
        <4>2. body[u] \in Bodies /\ AtTop(u, parts[u])
          BY <2>1, <4>1 DEF Job
        <4>3. Len(body[u]) \in Nat /\ bufLen[u] \in Nat /\ pos[u] \in Nat /\ left[u] \in Int
          BY <4>2, Values
        <4>4. pos[u] <= Len(body[u]) /\ (left[u] > 0 => pos[u] + left[u] = Len(body[u]))
          BY <4>2, Zenon DEF AtTop, Accounted
        <4>5. NextRead(u) \in Nat /\ pos[u] + NextRead(u) <= Len(body[u])
          BY <4>3, <4>4 DEF NextRead, minOf
        <4>6. left' \in [Uploads -> Int]
          BY <3>1, <4>1
        <4>7. QED
          BY <2>2, <3>1, <4>1, <4>2, <4>5, <4>6, Zenon
      <3>6. CASE UploadPart(u)
        <4>1. left' = [left EXCEPT ![u] = IF @ > 0 THEN @ - Len(buf[u]) ELSE @] /\ pos' = pos /\ buf' = [buf EXCEPT ![u] = <<>>]
          BY <3>6, Zenon DEF UploadPart
        <4>2. Len(buf[u]) \in Nat
          BY <3>1
        <4>3. QED
          BY <3>1, <4>1, <4>2
      <3>7. CASE Return(u) \/ Crash(u)
        <4>1. left' = [left EXCEPT ![u] = 0] /\ pos' = [pos EXCEPT ![u] = 0] /\ buf' = [buf EXCEPT ![u] = <<>>]
          BY <3>7, Zenon DEF Return, Crash, Reset
        <4>2. QED
          BY <3>1, <4>1
      <3>8. CASE left' = left /\ pos' = pos /\ buf' = buf
        BY <3>1, <3>8, Zenon
      <3>9. QED
        BY <1>2, <3>2, <3>3, <3>4, <3>5, <3>6, <3>7, <3>8, ZenonT(30) DEF Put, ReadFails, PutObject, PutMismatch,
           CreateMultipartUpload, CreateFails, LoopEnds, UploadPartFails, VerifyMismatch,
           CompleteMultipartUpload, CompleteFails, AbortMultipartUpload, jobVars
    <2>9. QED
      BY <2>1, <2>3, <2>4, <2>5, <2>6, <2>7, <2>8, Zenon DEF TypeOK
  <1>3. QED
    BY <1>1, <1>2, Zenon DEF Next

-----------------------------------------------------------------------------
(* What the steps keep of the other properties *)

\* No step stores anything but the content, or acknowledges what is not stored.
LEMMA StoreStep ==
  ASSUME TypeOK, JobInv, ObjectWhole, AckInv, [Next]_vars
  PROVE  ObjectWhole' /\ AckInv'
  <1>1. content \in Seq(Byte) /\ None \notin Seq(Byte)
    BY BodiesAssumption, Zenon DEF TypeOK
  <1>2. content # None
    BY <1>1, Zenon
  <1>3. /\ object' = object \/ object' = content
        /\ content' = content
        /\ \A v \in Uploads : res'[v] = "stored" => res[v] = "stored" \/ object' = content
        /\ acked' => acked \/ \E v \in Uploads : res[v] = "stored"
    BY ObjectStep
  <1>4. ObjectWhole'
    BY <1>3, Zenon DEF ObjectWhole
  <1>5. AckInv'
    BY <1>2, <1>3, Zenon DEF AckInv, AckedStored
  <1>6. QED
    BY <1>4, <1>5

\* Only Begin and UploadPartFails find an object too large, and both are right.
LEMMA EnoughStep == TypeOK /\ JobInv /\ EnoughParts /\ [Next]_vars => EnoughParts'
  <1> DEFINE Large(r) == r \in {"toomany", "toolarge"}
  <1> SUFFICES ASSUME TypeOK, JobInv, EnoughParts, [Next]_vars, NEW v \in Uploads, Large(res'[v])
               PROVE  Len(body'[v]) > SizeLimit
    BY Zenon DEF EnoughParts
  <1>1. CASE res'[v] = res[v] /\ body'[v] = body[v]
    BY <1>1, Zenon DEF EnoughParts
  <1>2. CASE UNCHANGED vars
    BY <1>1, <1>2, Zenon DEF vars, jobVars
  <1>3. ASSUME NEW u \in Uploads, Begin(u) \/ Put(u) \/ Crash(u) PROVE Len(body'[v]) > SizeLimit
    <2>1. CASE u # v
      <3>1. SameJob(v)
        BY <1>3, <2>1, OwnStep
      <3>2. QED
        BY <1>1, <3>1 DEF SameJob
    <2>2. CASE u = v
      <3>1. Job(v) /\ res \in [Uploads -> Results \cup {None}] /\ body \in [Uploads -> Bodies \cup {None}]
        BY Zenon DEF JobInv, TypeOK
      <3>2. CASE Begin(v)
        <4>1. pc[v] = "idle"
          BY <3>2, Zenon DEF Begin
        <4>2. res[v] = None
          BY <3>1, <4>1 DEF Job
        <4>3. PICK b \in Bodies :
                /\ body' = [body EXCEPT ![v] = b]
                /\ \/ Len(b) > SizeLimit
                   \/ res' = res
          BY <3>2, Zenon DEF Begin
        <4>4. CASE Len(b) > SizeLimit
          BY <3>1, <4>3, <4>4, Zenon
        <4>5. CASE res' = res
          <5>1. Large(None)
            BY <4>2, <4>5, Zenon
          <5>2. QED
            BY <5>1, BodiesAssumption
        <4>6. QED
          BY <4>3, <4>4, <4>5
      <3>3. CASE UploadPartFails(v)
        <4>1. pc[v] = "send" /\ body' = body /\ res' = [res EXCEPT ![v] = IF Len(parts[v]) + 1 > MaxParts THEN "toomany" ELSE "failed"]
          BY <3>3, Zenon DEF UploadPartFails, Goto, Result, jobVars
        <4>2. body[v] \in Bodies /\ parts[v] \in Seq(Seq(Byte)) /\ AtSend(v, parts[v])
          BY <3>1, <4>1 DEF Job
        <4>3. Len(parts[v]) + 1 > MaxParts
          BY <3>1, <4>1
        <4>4. QED
          BY <4>1, <4>2, <4>3, TooMany
      <3>4. CASE \/ Return(v) \/ Crash(v)
        <4>1. res'[v] = None
          BY <3>1, <3>4, Zenon DEF Return, Crash, Reset, Result
        <4>2. QED
          BY <4>1, BodiesAssumption
      <3>5. CASE \/ ReadSingle(v) \/ ReadFirst(v) \/ CreateMultipartUpload(v) \/ ReadPart(v) \/ LoopEnds(v)
                 \/ UploadPart(v) \/ AbortMultipartUpload(v)
        <4>1. res' = res /\ body' = body
          BY <3>5, ZenonT(30) DEF ReadSingle, ReadFirst, CreateMultipartUpload, ReadPart, LoopEnds, UploadPart,
             AbortMultipartUpload, jobVars
        <4>2. QED
          BY <1>1, <4>1, Zenon
      <3>6. CASE \/ ReadFails(v) \/ PutObject(v) \/ PutMismatch(v) \/ CreateFails(v) \/ VerifyMismatch(v)
                 \/ CompleteMultipartUpload(v) \/ CompleteFails(v)
        <4>1. \/ res' = [res EXCEPT ![v] = "failed"] \/ res' = [res EXCEPT ![v] = "mismatch"]
              \/ res' = [res EXCEPT ![v] = "stored"]
          BY <3>6, ZenonT(30) DEF ReadFails, PutObject, PutMismatch, CreateFails, VerifyMismatch,
             CompleteMultipartUpload, CompleteFails, Result
        <4>2. QED
          BY <3>1, <4>1
      <3>7. QED
        BY <1>3, <2>2, <3>2, <3>3, <3>4, <3>5, <3>6, ZenonT(30) DEF Put
    <2>3. QED
      BY <2>1, <2>2
  <1>4. QED
    BY <1>2, <1>3, Zenon DEF Next

\* Nothing is stored, sent or running at first.
LEMMA InitHolds == Init => IInv
  <1> SUFFICES ASSUME Init PROVE IInv
    OBVIOUS
  <1>1. TypeOK
    <2>1. <<>> \in Seq(Byte)
      OBVIOUS
    <2>2. 0 \in Nat /\ 0 \in Int
      OBVIOUS
    <2>3. QED
      BY <2>1, <2>2, ZenonT(30) DEF Init, TypeOK, Steps
  <1>2. JobInv
    BY DEF Init, JobInv, Job
  <1>3. ObjectWhole /\ AckInv
    BY BodiesAssumption DEF Init, ObjectWhole, AckInv, AckedStored
  <1>4. EnoughParts
    <2>1. \A u \in Uploads : res[u] = None
      BY DEF Init
    <2>2. None \notin {"toomany", "toolarge"}
      BY BodiesAssumption
    <2>3. QED
      BY <2>1, <2>2, Zenon DEF EnoughParts
  <1>5. QED
    BY <1>1, <1>2, <1>3, <1>4 DEF IInv

-----------------------------------------------------------------------------
(* The theorems *)

\* The inductive invariant of S3.Put: at every step of every upload, what has
\* been read is what the parts and the buffer hold.
THEOREM Safety == Spec => []IInv
  <1>1. IInv /\ [Next]_vars => IInv'
    BY TypeStep, JobStep, StoreStep, EnoughStep, Zenon DEF IInv
  <1>2. QED
    BY InitHolds, <1>1, PTL DEF Spec

\* The bucket never holds anything under the object's key but the whole content,
\* for every body, part size, failure of S3 and number of uploads.
THEOREM Whole == Spec => []ObjectWhole
  <1>1. IInv => ObjectWhole
    BY DEF IInv
  <1>2. QED
    BY Safety, <1>1, PTL

\* A Put that returned without error has stored the object.
THEOREM Acked == Spec => []AckedStored
  <1>1. IInv => AckedStored
    BY DEF IInv, AckInv
  <1>2. QED
    BY Safety, <1>1, PTL

\* S3 takes every part that putMultipart sends.
THEOREM Acceptable == Spec => []PartsAcceptable
  <1>1. IInv => PartsAcceptable
    <2> SUFFICES ASSUME IInv, NEW u \in Uploads, parts[u] # None
                 PROVE  /\ Len(parts[u]) <= MaxParts
                        /\ \A i \in DOMAIN parts[u] :
                              /\ parts[u][i] # <<>>
                              /\ Len(parts[u][i]) <= MaxPartSize
                              /\ i < Len(parts[u]) => Len(parts[u][i]) >= PartSize
      BY Zenon DEF PartsAcceptable
    <2>1. TypeOK /\ Job(u)
      BY DEF IInv, JobInv
    <2>2. parts[u] \in Seq(Seq(Byte)) /\ bufLen[u] \in Nat
      BY <2>1, Values
    <2>3. Fitting(parts[u], bufLen[u]) /\ PartSize <= bufLen[u] /\ bufLen[u] <= MaxPartSize
      BY <2>1 DEF Job
    <2>4. DOMAIN parts[u] = 1 .. Len(parts[u])
      BY <2>2
    <2>5. ASSUME NEW i \in 1 .. Len(parts[u])
          PROVE  /\ parts[u][i] # <<>>
                 /\ Len(parts[u][i]) <= MaxPartSize
                 /\ i < Len(parts[u]) => Len(parts[u][i]) >= PartSize
      <3>1. Len(parts[u][i]) \in Nat
        BY <2>2
      <3>2. /\ parts[u][i] # <<>> /\ Len(parts[u][i]) <= bufLen[u]
            /\ i < Len(parts[u]) => Len(parts[u][i]) = bufLen[u]
        BY <2>3, Zenon DEF Fitting
      <3>3. QED
        BY <2>2, <2>3, <3>1, <3>2, PartSizeAssumption
    <2>6. QED
      BY <2>3, <2>4, <2>5, Zenon DEF Fitting
  <1>2. QED
    BY Safety, <1>1, PTL

\* No upload of a size that S3 can hold runs out of parts or is refused.
THEOREM Enough == Spec => []EnoughParts
  <1>1. IInv => EnoughParts
    BY DEF IInv
  <1>2. QED
    BY Safety, <1>1, PTL

\* A Put that returns leaves parts behind only when S3 failed the abort, or never
\* told the upload's ID.
THEOREM Cleared == Spec => []PartsCleared
  <1>1. IInv => PartsCleared
    BY Zenon DEF IInv, JobInv, Job, PartsCleared
  <1>2. QED
    BY Safety, <1>1, PTL
=============================================================================
