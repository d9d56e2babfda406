----------------------------- MODULE BatchProofs -----------------------------
(***************************************************************************)
(* Proofs about Batch, for any number of requests, objects, slots and      *)
(* sizes: a batch is answered completely and in order, its answers are     *)
(* true, the uploads it grants fit in the space there is, and it makes no  *)
(* more lookups at a time than it has slots.                               *)
(*                                                                         *)
(* The inductive invariant follows one request: Served says what is known  *)
(* of it at each of its steps.  While lookups run, the responses of those  *)
(* that have ended are true and stand where their objects stand (Looked);  *)
(* they stay true because storage only grows.                              *)
(***************************************************************************)
EXTENDS Batch, FiniteSetTheorems, NaturalsInduction, WellFoundedInduction, TLAPS

Steps == {"idle", "admit", "loop", "wait", "space", "verify", "get", "done"}

TypeOK ==
    /\ stored \subseteq Oids
    /\ pc \in [Requests -> Steps]
    /\ input \in [Requests -> Inputs \cup {None}]
    /\ gone \in [Requests -> BOOLEAN]
    /\ slots \in [Requests -> Int]
    /\ started \in [Requests -> Nat]
    /\ running \in [Requests -> SUBSET Nat]
    /\ objects \in [Requests -> Seq(Response \cup {None})]
    /\ reply \in [Requests -> Statuses \cup {None}]
    /\ before \in [Requests -> SUBSET Oids]
    /\ space \in [Requests -> Spaces \cup {None}]
    /\ made \in Nat

\* A response resp to the object o that is true now that st is in storage, of a
\* request that found b in storage when it began.
Holds(o, resp, b, st) ==
    /\ resp \in Response
    /\ resp.oid = o.oid
    /\ resp.kind \in {"stored", "download"} => o.oid \in st /\ LengthOf[o.oid] = o.size
    /\ resp.kind = "mismatch" => o.oid \in st /\ LengthOf[o.oid] # o.size
    /\ resp.kind \in {"upload", "missing"} => o.oid \notin b

Told(r, i) == Holds(input[r].objects[i], objects[r][i], before[r], stored)

\* While lookups run: those that have ended answered their own objects.
Looked(r) ==
    /\ Len(objects[r]) = Len(input[r].objects)
    /\ started[r] <= Len(input[r].objects)
    /\ running[r] \subseteq 1 .. started[r]
    /\ \A i \in 1 .. started[r] : i \notin running[r] => Told(r, i)
    /\ pc[r] = "wait" /\ ~gone[r] => started[r] = Len(input[r].objects)

\* All lookups have ended, or there were none to make.
Answered(r) ==
    /\ Len(objects[r]) <= Len(input[r].objects)
    /\ ~gone[r] => Len(objects[r]) = Len(input[r].objects)
    /\ \A i \in 1 .. Len(objects[r]) : Told(r, i)

\* What the answer to a verification or a download says.
SingleTrue(r) ==
    LET o == input[r].objects[1]
    IN  /\ reply[r] = "ok" => o.oid \in stored
        /\ reply[r] = "ok" /\ input[r].op = "verify" => LengthOf[o.oid] = o.size
        /\ reply[r] = "notfound" => o.oid \notin before[r]

Served(r) ==
    /\ before[r] \subseteq stored
    /\ pc[r] # "idle" => input[r] \in Inputs
    /\ pc[r] \in {"verify", "get"} => input[r].op = pc[r]
    /\ pc[r] \in {"admit", "loop", "wait", "space"} => input[r].op \in {"upload", "download"}
    /\ pc[r] \notin {"loop", "wait"} => running[r] = {}
    /\ pc[r] \in {"loop", "wait"} => Looked(r)
    /\ pc[r] = "space" \/ IsBatch(r) => Answered(r)
    /\ pc[r] # "done" => space[r] = None
    /\ IsBatch(r) /\ space[r] # None => needed(objects[r]) <= space[r]
    /\ pc[r] = "done" /\ input[r].op \in {"verify", "get"} => SingleTrue(r)

IInv == TypeOK /\ \A r \in Requests : Served(r)
-----------------------------------------------------------------------------
(* The bytes a batch needs. *)

\* Induction over the natural numbers: a set with 0 and every successor.
LEMMA Induct ==
  ASSUME NEW T \in SUBSET Nat, 0 \in T, \A n \in T : n + 1 \in T
  PROVE  T = Nat
  <1> SUFFICES ASSUME T # Nat PROVE FALSE
    OBVIOUS
  <1> DEFINE less == {ss \in Nat \X Nat : ss[1] < ss[2]}
             rest == Nat \ T
  <1>1. rest \subseteq Nat /\ rest # {}
    BY ZenonT(30)
  <1>2. IsWellFoundedOn(less, Nat)
    BY NatLessThanWellFounded DEF OpToRel
  <1>3. PICK x \in rest : \A y \in rest : ~(<<y, x>> \in less)
    <2> HIDE DEF rest, less
    <2> QED BY <1>1, <1>2, WFMin, ZenonT(30)
  <1>4. x \in Nat /\ x - 1 \in Nat
    OBVIOUS
  <1>5. <<x - 1, x>> \in less
    BY <1>4
  <1>6. x - 1 \in T
    BY <1>3, <1>4, <1>5
  <1>7. QED
    BY <1>4, <1>6

\* What TotalSize and needed sum up, response by response.
Bytes(resp) == IF resp.kind = "upload" THEN resp.size ELSE 0

TotalSums(resps, f, n) == [i \in 0 .. n |-> IF i = 0 THEN 0 ELSE f[i - 1] + Bytes(resps[i])]

NeededSums(resps, f, n) ==
    [i \in 0 .. n |-> IF i = 0 THEN 0 ELSE addNeeded(f[i - 1], resps[i])]

\* One more response, to a sum that is cut off and to one that is not.
LEMMA OneMore ==
  ASSUME NEW resp \in Response, NEW sum \in Nat
  PROVE  /\ Bytes(resp) \in Nat
         /\ addNeeded(min(sum, MaxUint64), resp) = min(sum + Bytes(resp), MaxUint64)
  <1>1. resp.size \in Nat /\ MaxUint64 \in Nat
    BY BoundsAssumption DEF Response
  <1>2. QED
    BY <1>1 DEF Bytes, addNeeded, min

\* The sums of the sizes exist, and are natural numbers.
LEMMA TotalsExist ==
  ASSUME NEW resps \in Seq(Response), NEW m \in 0 .. Len(resps)
  PROVE  \E f \in [0 .. m -> Nat] : f = TotalSums(resps, f, m)
  <1> DEFINE T == {n \in Nat : n <= Len(resps) => \E f \in [0 .. n -> Nat] : f = TotalSums(resps, f, n)}
  <1>1. 0 \in T
    <2> DEFINE f == [i \in 0 .. 0 |-> 0]
    <2>1. f \in [0 .. 0 -> Nat] /\ f = TotalSums(resps, f, 0)
      BY DEF TotalSums
    <2> QED BY <2>1
  <1>2. ASSUME NEW n \in T PROVE n + 1 \in T
    <2> SUFFICES ASSUME n + 1 <= Len(resps)
                 PROVE  \E f \in [0 .. n + 1 -> Nat] : f = TotalSums(resps, f, n + 1)
      OBVIOUS
    <2>1. PICK f \in [0 .. n -> Nat] : f = TotalSums(resps, f, n)
      OBVIOUS
    <2>2. \A i \in 1 .. n + 1 : Bytes(resps[i]) \in Nat
      <3>1. \A i \in 1 .. n + 1 : resps[i] \in Response
        OBVIOUS
      <3>2. QED
        BY <3>1, 0 \in Nat, OneMore, Zenon
    <2> DEFINE g == [i \in 0 .. n + 1 |-> IF i <= n THEN f[i] ELSE f[n] + Bytes(resps[n + 1])]
    <2>3. ASSUME NEW i \in 0 .. n + 1
          PROVE  g[i] \in Nat /\ g[i] = IF i = 0 THEN 0 ELSE g[i - 1] + Bytes(resps[i])
      <3>1. \A j \in 0 .. n : f[j] \in Nat /\ f[j] = IF j = 0 THEN 0 ELSE f[j - 1] + Bytes(resps[j])
        BY <2>1, Zenon DEF TotalSums
      <3>2. n \in Nat
        OBVIOUS
      <3> HIDE DEF T
      <3>3. CASE i <= n
        BY <3>1, <3>2, <3>3
      <3>4. CASE i = n + 1
        BY <2>2, <3>1, <3>2, <3>4
      <3>5. QED
        BY <3>2, <3>3, <3>4
    <2>4. g \in [0 .. n + 1 -> Nat] /\ g = TotalSums(resps, g, n + 1)
      BY <2>3, ZenonT(30) DEF TotalSums
    <2> QED BY <2>4, Zenon
  <1> HIDE DEF T
  <1>3. T = Nat
    <2>1. T \in SUBSET Nat
      BY DEF T
    <2>2. QED
      BY <1>1, <1>2, <2>1, Induct, Zenon
  <1>4. QED
    BY <1>3 DEF T

\* The sum that is needed is the total, or the largest uint64 if that is less.
LEMMA Saturates ==
  ASSUME NEW resps \in Seq(Response)
  PROVE  TotalSize(resps) \in Nat /\ needed(resps) = min(TotalSize(resps), MaxUint64)
  <1> DEFINE N == Len(resps)
             t == CHOOSE f : f = TotalSums(resps, f, N)
             s == CHOOSE f : f = NeededSums(resps, f, N)
  <1>0. N \in Nat /\ MaxUint64 \in Nat /\ \A i \in 1 .. N : resps[i] \in Response
    BY BoundsAssumption
  <1>1. TotalSize(resps) = t[N] /\ needed(resps) = s[N]
    BY DEF TotalSize, needed, TotalSums, NeededSums, Bytes
  <1>2. PICK u \in [0 .. N -> Nat] : u = TotalSums(resps, u, N)
    BY <1>0, TotalsExist
  <1>3. t = TotalSums(resps, t, N)
    BY <1>2, Zenon
  <1>4. s = NeededSums(resps, s, N)
    <2> DEFINE v == [i \in 0 .. N |-> min(u[i], MaxUint64)]
    <2>1. ASSUME NEW i \in 0 .. N
          PROVE  v[i] = IF i = 0 THEN 0 ELSE addNeeded(v[i - 1], resps[i])
      <3>1. \A j \in 0 .. N : u[j] \in Nat /\ u[j] = IF j = 0 THEN 0 ELSE u[j - 1] + Bytes(resps[j])
        BY <1>2, Zenon DEF TotalSums
      <3>2. CASE i = 0
        BY <1>0, <3>1, <3>2 DEF min
      <3>3. CASE i # 0
        <4>1. i \in 1 .. N /\ i - 1 \in 0 .. N
          BY <1>0, <3>3
        <4>2. addNeeded(min(u[i - 1], MaxUint64), resps[i]) = min(u[i - 1] + Bytes(resps[i]), MaxUint64)
          BY <1>0, <3>1, <4>1, OneMore, Zenon
        <4>3. QED
          BY <3>1, <3>3, <4>1, <4>2, Zenon
      <3>4. QED
        BY <3>2, <3>3, Zenon
    <2>2. v = NeededSums(resps, v, N)
      BY <2>1, ZenonT(30) DEF NeededSums
    <2>3. QED
      BY <2>2, Zenon
  <1> HIDE DEF t, s, N
  <1> DEFINE T == {n \in Nat : n <= N => t[n] \in Nat /\ s[n] = min(t[n], MaxUint64)}
  <1>5. 0 \in T
    BY <1>0, <1>3, <1>4 DEF TotalSums, NeededSums, min
  <1>6. ASSUME NEW n \in T, n + 1 <= N PROVE n + 1 \in T
    <2>1. n + 1 \in 1 .. N /\ n + 1 \in 0 .. N /\ n + 1 # 0 /\ (n + 1) - 1 = n
      BY <1>0, <1>6
    <2>2. t[n + 1] = t[n] + Bytes(resps[n + 1]) /\ s[n + 1] = addNeeded(s[n], resps[n + 1])
      BY <1>3, <1>4, <2>1, ZenonT(30) DEF TotalSums, NeededSums
    <2>3. t[n] \in Nat /\ s[n] = min(t[n], MaxUint64) /\ n + 1 \in Nat
      BY <1>0, <1>6
    <2>4. Bytes(resps[n + 1]) \in Nat /\ s[n + 1] = min(t[n + 1], MaxUint64)
      BY <1>0, <2>1, <2>2, <2>3, OneMore, Zenon
    <2>5. t[n + 1] \in Nat
      BY <2>2, <2>3, <2>4
    <2>6. QED
      BY <2>3, <2>4, <2>5, Zenon
  <1>7. \A n \in T : n + 1 \in T
    BY <1>0, <1>6
  <1>8. T \in SUBSET Nat
    OBVIOUS
  <1> HIDE DEF T
  <1>9. N \in T
    BY <1>0, <1>5, <1>7, <1>8, Induct, Zenon
  <1>10. QED
    BY <1>0, <1>1, <1>9 DEF T

-----------------------------------------------------------------------------
(* What a response says of an object. *)

\* A request is for a sequence of objects.
LEMMA InputFacts ==
  ASSUME NEW in \in Inputs
  PROVE  /\ in.objects \in Seq(Object) /\ in.op \in Operations /\ in.sha256 \in BOOLEAN
         /\ in.op \in {"verify", "get"} => in.objects[1] \in Object
  BY InputsAssumption DEF Input

\* A response to an object is a response, for this object and of that kind.
LEMMA Refused ==
  ASSUME NEW o \in Object, NEW kind \in Kinds
  PROVE  /\ Refusal(o, kind) \in Response
         /\ Refusal(o, kind).oid = o.oid /\ Refusal(o, kind).kind = kind
  BY DEF Object, Refusal, Response

\* What a lookup answers is true when it is made.
LEMMA LookupTrue ==
  ASSUME NEW op, NEW o \in Object, NEW b \in SUBSET stored, NEW kind \in processObject(op, o)
  PROVE  Holds(o, Refusal(o, kind), b, stored)
  <1>1. kind \in {"invalid", "error", "toolarge", processDownload(o), processUpload(o)}
    BY DEF processObject, processUpload
  <1>2. kind \in Kinds
    BY <1>1 DEF processDownload, processUpload, Kinds
  <1>3. /\ kind \in {"stored", "download"} => o.oid \in stored /\ LengthOf[o.oid] = o.size
        /\ kind = "mismatch" => o.oid \in stored /\ LengthOf[o.oid] # o.size
        /\ kind \in {"upload", "missing"} => o.oid \notin stored
    BY <1>1, BoundsAssumption DEF processDownload, processUpload, Object
  <1>4. QED
    BY <1>2, <1>3, Refused DEF Holds

\* Storage only grows, so what is true of it stays true.
LEMMA StaysTrue ==
  ASSUME NEW o, NEW resp, NEW b, NEW st, NEW more, Holds(o, resp, b, st), st \subseteq more
  PROVE  Holds(o, resp, b, more)
  BY DEF Holds

-----------------------------------------------------------------------------
(* Steps. *)

\* A request is not touched by another's steps.
LEMMA OthersStay ==
  ASSUME TypeOK, NEW r \in Requests, Arrive(r) \/ Leave(r) \/ Step(r),
         NEW v \in Requests, v # r
  PROVE  /\ pc'[v] = pc[v] /\ input'[v] = input[v] /\ gone'[v] = gone[v]
         /\ started'[v] = started[v] /\ running'[v] = running[v]
         /\ objects'[v] = objects[v] /\ reply'[v] = reply[v]
         /\ before'[v] = before[v] /\ space'[v] = space[v]
         /\ stored' = stored
  BY ZenonT(60)
  DEF TypeOK, Arrive, Leave, Step, Reject, unsupportedHashAlgo, Admit, StartLookup,
      LoopEnds, Wait, hasSpaceFor, Verify, Get, Finish, Lookup, Reply, work

\* What is known of a request stays so while it is not touched.
LEMMA ServedFrame ==
  ASSUME NEW r \in Requests, Served(r),
         pc'[r] = pc[r], input'[r] = input[r], gone'[r] = gone[r],
         started'[r] = started[r], running'[r] = running[r],
         objects'[r] = objects[r], reply'[r] = reply[r],
         before'[r] = before[r], space'[r] = space[r], stored \subseteq stored'
  PROVE  Served(r)'
  <1>1. IsBatch(r)' = IsBatch(r)
    BY Zenon DEF IsBatch
  <1>2. Looked(r) => Looked(r)'
    BY StaysTrue, ZenonT(30) DEF Looked, Told
  <1>3. Answered(r) => Answered(r)'
    BY StaysTrue, ZenonT(30) DEF Answered, Told
  <1>4. SingleTrue(r) => SingleTrue(r)'
    BY ZenonT(30) DEF SingleTrue
  <1>5. QED
    BY <1>1, <1>2, <1>3, <1>4, ZenonT(60) DEF Served

-----------------------------------------------------------------------------
(* Types. *)

\* A function on the indexes of a sequence is a sequence of the same length.
LEMMA SameLength ==
  ASSUME NEW S, NEW T, NEW s \in Seq(T), NEW f \in [DOMAIN s -> S]
  PROVE  f \in Seq(S) /\ Len(f) = Len(s)
  OBVIOUS

\* One element of a sequence is replaced.
LEMMA SetOne ==
  ASSUME NEW S, NEW s \in Seq(S), NEW i \in 1 .. Len(s), NEW x \in S
  PROVE  /\ [s EXCEPT ![i] = x] \in Seq(S) /\ Len([s EXCEPT ![i] = x]) = Len(s)
         /\ \A j \in 1 .. Len(s) : [s EXCEPT ![i] = x][j] = IF j = i THEN x ELSE s[j]
  OBVIOUS

\* The first n elements of a sequence.
LEMMA FirstOnes ==
  ASSUME NEW S, NEW s \in Seq(S), NEW n \in 0 .. Len(s)
  PROVE  /\ SubSeq(s, 1, n) \in Seq(S) /\ Len(SubSeq(s, 1, n)) = n
         /\ \A j \in 1 .. n : SubSeq(s, 1, n)[j] = s[j]
  OBVIOUS

\* A lookup that runs is for one of the objects asked for, and what it answers
\* goes to the place of this object.
LEMMA LookupPlace ==
  ASSUME IInv, NEW r \in Requests, NEW i \in running[r], Lookup(r, i)
  PROVE  /\ pc[r] \in {"loop", "wait"} /\ Looked(r) /\ input[r] \in Inputs
         /\ i \in 1 .. started[r] /\ i \in 1 .. Len(objects[r])
         /\ \E kind \in processObject(input[r].op, input[r].objects[i]) :
              LET resp == Refusal(input[r].objects[i], kind)
              IN  /\ Holds(input[r].objects[i], resp, before[r], stored)
                  /\ objects' = [objects EXCEPT ![r] = [objects[r] EXCEPT ![i] = resp]]
  <1>1. pc[r] \in {"loop", "wait"} /\ Looked(r) /\ input[r] \in Inputs /\ before[r] \subseteq stored
    BY DEF IInv, Served
  <1>2. started[r] \in Nat /\ Len(objects[r]) \in Nat
    BY DEF IInv, TypeOK
  <1>3. i \in 1 .. started[r] /\ i \in 1 .. Len(objects[r])
    BY <1>1, <1>2 DEF Looked
  <1>4. input[r].objects[i] \in Object
    BY <1>1, <1>3, InputFacts DEF Looked
  <1>5. PICK kind \in processObject(input[r].op, input[r].objects[i]) :
             objects' = [objects EXCEPT ![r][i] = Refusal(input[r].objects[i], kind)]
    BY Zenon DEF Lookup
  <1>6. Holds(input[r].objects[i], Refusal(input[r].objects[i], kind), before[r], stored)
    BY <1>1, <1>4, LookupTrue, Zenon
  <1>7. QED
    BY <1>1, <1>3, <1>5, <1>6, Zenon

\* The variables keep their types.
LEMMA TypeStep ==
  ASSUME IInv, [Next]_vars
  PROVE  TypeOK'
  <1> TypeOK /\ \A r \in Requests : Served(r)
    BY Zenon DEF IInv
  <1>1. ASSUME NEW r \in Requests, Arrive(r) PROVE TypeOK'
    BY <1>1 DEF TypeOK, Arrive, Steps
  <1>2. ASSUME NEW r \in Requests, Leave(r) PROVE TypeOK'
    BY <1>2 DEF TypeOK, Leave, work
  <1>3. ASSUME NEW r \in Requests, Reject(r) \/ Verify(r) \/ Get(r) PROVE TypeOK'
    BY <1>3, ZenonT(30) DEF TypeOK, Reject, Verify, Get, Reply, work, Steps, Statuses
  <1>4. ASSUME NEW r \in Requests, unsupportedHashAlgo(r) PROVE TypeOK'
    <2> DEFINE none == [i \in DOMAIN input[r].objects |-> Refusal(input[r].objects[i], "hashalgo")]
    <2>1. input[r].objects \in Seq(Object) /\ pc[r] = "admit"
      BY <1>4, InputFacts DEF unsupportedHashAlgo, Served
    <2>2. none \in [DOMAIN input[r].objects -> Response \cup {None}]
      BY <2>1, Refused DEF Kinds
    <2>3. none \in Seq(Response \cup {None})
      BY <2>1, <2>2, SameLength, Zenon
    <2>4. objects' = [objects EXCEPT ![r] = none]
      BY <1>4, Zenon DEF unsupportedHashAlgo
    <2> HIDE DEF none
    <2>5. QED
      BY <1>4, <2>3, <2>4, ZenonT(30) DEF TypeOK, unsupportedHashAlgo, Reply, Steps, Statuses
  <1>5. ASSUME NEW r \in Requests, Admit(r) PROVE TypeOK'
    <2> DEFINE none == [i \in DOMAIN input[r].objects |-> None]
    <2>1. input[r].objects \in Seq(Object) /\ pc[r] = "admit"
      BY <1>5, InputFacts DEF Admit, Served
    <2>2. none \in [DOMAIN input[r].objects -> Response \cup {None}]
      OBVIOUS
    <2>3. none \in Seq(Response \cup {None})
      BY <2>1, <2>2, SameLength, Zenon
    <2>4. objects' = [objects EXCEPT ![r] = none]
      BY <1>5, Zenon DEF Admit
    <2> HIDE DEF none
    <2>5. QED
      BY <1>5, <2>3, <2>4 DEF TypeOK, Admit, Steps
  <1>6. ASSUME NEW r \in Requests, StartLookup(r) \/ LoopEnds(r) PROVE TypeOK'
    <2>1. slots[r] + 1 \in Int /\ started[r] + 1 \in Nat /\ running[r] \cup {started[r] + 1} \in SUBSET Nat
      BY DEF TypeOK
    <2>2. /\ pc' = pc \/ pc' = [pc EXCEPT ![r] = "wait"]
          /\ slots' = slots \/ slots' = [slots EXCEPT ![r] = slots[r] + 1]
          /\ started' = started \/ started' = [started EXCEPT ![r] = started[r] + 1]
          /\ running' = running \/ running' = [running EXCEPT ![r] = running[r] \cup {started[r] + 1}]
      BY <1>6, ZenonT(30) DEF StartLookup, LoopEnds, work
    <2>3. /\ pc' \in [Requests -> Steps] /\ slots' \in [Requests -> Int]
          /\ started' \in [Requests -> Nat] /\ running' \in [Requests -> SUBSET Nat]
      <3>1. pc' \in [Requests -> Steps] /\ slots' \in [Requests -> Int]
        BY <2>1, <2>2, ZenonT(30) DEF TypeOK, Steps
      <3>2. started' \in [Requests -> Nat] /\ running' \in [Requests -> SUBSET Nat]
        BY <2>1, <2>2, ZenonT(30) DEF TypeOK
      <3>3. QED
        BY <3>1, <3>2, Zenon
    <2>4. QED
      BY <1>6, <2>3, ZenonT(30) DEF TypeOK, StartLookup, LoopEnds, work
  <1>7. ASSUME NEW r \in Requests, NEW i \in running[r], Lookup(r, i) PROVE TypeOK'
    <2>1. PICK resp : /\ Holds(input[r].objects[i], resp, before[r], stored)
                      /\ i \in 1 .. Len(objects[r])
                      /\ objects' = [objects EXCEPT ![r] = [objects[r] EXCEPT ![i] = resp]]
      BY <1>7, LookupPlace, Zenon
    <2>2. [objects[r] EXCEPT ![i] = resp] \in Seq(Response \cup {None})
      BY <2>1, SetOne DEF TypeOK, Holds
    <2>3. QED
      BY <1>7, <2>1, <2>2 DEF TypeOK, Lookup
  <1>8. ASSUME NEW r \in Requests, Wait(r) PROVE TypeOK'
    <2>0. objects[r] \in Seq(Response \cup {None}) /\ started[r] \in Nat
      BY DEF TypeOK
    <2>1. objects[r] \in Seq(Response \cup {None}) /\ started[r] \in 0 .. Len(objects[r])
      <3>1. Len(objects[r]) = Len(input[r].objects) /\ started[r] <= Len(input[r].objects)
        BY <1>8, Zenon DEF Wait, Served, Looked
      <3>2. QED
        BY <2>0, <3>1
    <2>2. Prefix(r) \in Seq(Response \cup {None})
      BY <2>1, FirstOnes, Zenon DEF Prefix
    <2>3. QED
      BY <1>8, <2>2, ZenonT(30) DEF TypeOK, Wait, Reply, Steps, Statuses
  <1>9. ASSUME NEW r \in Requests, hasSpaceFor(r) PROVE TypeOK'
    <2>1. \E status \in {"ok", "insufficient"} : Reply(r, status)
      BY <1>9, ZenonT(30) DEF hasSpaceFor
    <2>2. pc' \in [Requests -> Steps] /\ reply' \in [Requests -> Statuses \cup {None}]
      BY <2>1 DEF TypeOK, Reply, Steps, Statuses
    <2>3. space' \in [Requests -> Spaces \cup {None}]
      BY <1>9, ZenonT(30) DEF TypeOK, hasSpaceFor
    <2>4. QED
      BY <1>9, <2>2, <2>3, ZenonT(30) DEF TypeOK, hasSpaceFor, work
  <1>10. ASSUME NEW r \in Requests, Finish(r) PROVE TypeOK'
    BY <1>10 DEF TypeOK, Finish, Steps
  <1>11. ASSUME NEW o \in Oids, Store(o) PROVE TypeOK'
    BY <1>11 DEF TypeOK, Store, work
  <1>12. CASE UNCHANGED vars
    BY <1>12, Zenon DEF TypeOK, vars, work
  <1>13. QED
    BY <1>1, <1>2, <1>3, <1>4, <1>5, <1>6, <1>7, <1>8, <1>9, <1>10, <1>11, <1>12, ZenonT(30)
    DEF Next, Step

-----------------------------------------------------------------------------
(* What is known of a request after its own steps. *)

\* A request that begins.
LEMMA ArriveServed ==
  ASSUME IInv, NEW r \in Requests, Arrive(r) PROVE Served(r)'
  <1>1. running'[r] = {} /\ stored' = stored /\ before'[r] = stored /\ space'[r] = None
    BY Zenon DEF IInv, TypeOK, Served, Arrive
  <1>2. PICK in \in Inputs :
          /\ input'[r] = in
          /\ pc'[r] = IF in.op \in {"verify", "get"} THEN in.op ELSE "admit"
    BY Zenon DEF IInv, TypeOK, Arrive
  <1>3. in.op \in {"upload", "download", "verify", "get"}
    BY InputFacts DEF Operations
  <1>4. /\ pc'[r] \in {"verify", "get"} => in.op = pc'[r]
        /\ pc'[r] = "admit" => in.op \in {"upload", "download"}
        /\ pc'[r] \in {"verify", "get", "admit"}
    BY <1>2, <1>3
  <1>5. QED
    BY <1>1, <1>2, <1>4 DEF Served, IsBatch

\* A request that is answered without a lookup, and one that has ended.
LEMMA SingleServed ==
  ASSUME IInv, NEW r \in Requests, Reject(r) \/ Verify(r) \/ Get(r)
  PROVE  Served(r)'
  <1>1. TypeOK /\ Served(r)
    BY Zenon DEF IInv
  <1>2. /\ pc'[r] = "done" /\ input' = input /\ running' = running /\ before' = before
        /\ stored' = stored /\ space' = space
    BY <1>1, ZenonT(30) DEF TypeOK, Reject, Verify, Get, Reply, work
  <1>3. pc[r] \in {"admit", "verify", "get"} /\ (pc[r] = "admit" <=> Reject(r))
    BY Zenon DEF Reject, Verify, Get
  <1>4. /\ input[r] \in Inputs /\ running[r] = {} /\ space[r] = None /\ before[r] \subseteq stored
        /\ pc[r] \in {"verify", "get"} => input[r].op = pc[r]
        /\ pc[r] = "admit" => input[r].op \in {"upload", "download"}
    BY <1>1, <1>3 DEF Served
  <1>5. Reject(r) => reply'[r] # "ok"
    BY <1>1 DEF TypeOK, Reject, Reply
  <1>6. ~IsBatch(r)'
    BY <1>2, <1>3, <1>4, <1>5 DEF IsBatch
  <1>7. ASSUME ~Reject(r) PROVE SingleTrue(r)'
    <2>1. before[r] \subseteq Oids /\ BadOid \notin Oids
      BY <1>1, OidsAssumption DEF TypeOK
    <2>2. CASE Verify(r)
      <3>1. /\ reply'[r] = "ok" => input[r].objects[1].oid \in stored
            /\ reply'[r] = "ok" => LengthOf[input[r].objects[1].oid] = input[r].objects[1].size
            /\ reply'[r] = "notfound" => input[r].objects[1].oid \notin stored
        BY <1>1, <2>2, SMTT(30) DEF TypeOK, Verify, Reply
      <3>2. QED
        BY <1>2, <1>4, <3>1, Zenon DEF SingleTrue
    <2>3. CASE Get(r)
      <3>1. /\ reply'[r] = "ok" => input[r].objects[1].oid \in stored
            /\ reply'[r] = "notfound" =>
                 input[r].objects[1].oid = BadOid \/ input[r].objects[1].oid \notin stored
        BY <1>1, <2>3, SMTT(30) DEF TypeOK, Get, Reply
      <3>2. input[r].op # "verify"
        BY <1>4, <2>3 DEF Get
      <3>3. QED
        BY <1>2, <1>4, <2>1, <3>1, <3>2 DEF SingleTrue
    <2>4. QED
      BY <1>7, <2>2, <2>3
  <1>8. input[r].op \in {"verify", "get"} => ~Reject(r)
    BY <1>3, <1>4
  <1>9. QED
    BY <1>2, <1>4, <1>6, <1>7, <1>8 DEF Served

\* A request that goes away while it is served.
LEMMA LeaveServed ==
  ASSUME IInv, NEW r \in Requests, Leave(r) PROVE Served(r)'
  <1>1. Served(r) /\ gone'[r] = TRUE
    BY Zenon DEF IInv, TypeOK, Leave
  <1>2. UNCHANGED <<stored, pc, input, work, reply, before, space>>
    BY Zenon DEF Leave
  <1>3. (Looked(r) => Looked(r)') /\ (Answered(r) => Answered(r)') /\ SingleTrue(r)' = SingleTrue(r)
    BY <1>1, <1>2, ZenonT(30) DEF Looked, Answered, SingleTrue, Told, work
  <1>4. IsBatch(r)' = IsBatch(r)
    BY <1>2, Zenon DEF IsBatch
  <1>5. QED
    BY <1>1, <1>2, <1>3, <1>4, ZenonT(30) DEF Served, work

\* A batch with an unknown hash algorithm is refused object by object.
LEMMA HashAlgoServed ==
  ASSUME IInv, NEW r \in Requests, unsupportedHashAlgo(r) PROVE Served(r)'
  <1> DEFINE in == input[r].objects
  <1>1. TypeOK /\ Served(r) /\ pc[r] = "admit"
    BY Zenon DEF IInv, unsupportedHashAlgo
  <1>2. /\ input[r] \in Inputs /\ running[r] = {} /\ space[r] = None /\ before[r] \subseteq stored
        /\ input[r].op \in {"upload", "download"}
    BY <1>1 DEF Served
  <1>3. /\ pc'[r] = "done" /\ input' = input /\ running' = running /\ before' = before
        /\ stored' = stored /\ space' = space /\ gone' = gone
        /\ objects'[r] = [i \in DOMAIN in |-> Refusal(in[i], "hashalgo")]
    BY <1>1, ZenonT(30) DEF TypeOK, unsupportedHashAlgo, Reply
  <1>4. in \in Seq(Object)
    BY <1>2, InputFacts
  <1>5. Len(objects'[r]) = Len(in) /\ \A i \in 1 .. Len(in) : objects'[r][i] = Refusal(in[i], "hashalgo")
    BY <1>3, <1>4
  <1>6. ASSUME NEW i \in 1 .. Len(in)
        PROVE  Holds(in[i], Refusal(in[i], "hashalgo"), before[r], stored)
    <2>1. in[i] \in Object /\ "hashalgo" \in Kinds
      BY <1>4 DEF Kinds
    <2> HIDE DEF in
    <2>2. QED
      BY <2>1, Refused DEF Holds
  <1>7. Len(objects'[r]) \in Nat /\ Len(in) \in Nat
    BY <1>4, <1>5
  <1>8. Answered(r)'
    BY <1>3, <1>5, <1>6, <1>7 DEF Answered, Told
  <1>9. input[r].op \notin {"verify", "get"}
    BY <1>2
  <1>10. QED
    BY <1>2, <1>3, <1>8, <1>9 DEF Served

\* A batch whose lookups begin.
LEMMA AdmitServed ==
  ASSUME IInv, NEW r \in Requests, Admit(r) PROVE Served(r)'
  <1> DEFINE in == input[r].objects
  <1>1. TypeOK /\ Served(r) /\ pc[r] = "admit"
    BY Zenon DEF IInv, Admit
  <1>2. /\ input[r] \in Inputs /\ running[r] = {} /\ space[r] = None /\ before[r] \subseteq stored
        /\ input[r].op \in {"upload", "download"}
    BY <1>1 DEF Served
  <1>3. /\ pc'[r] = "loop" /\ input' = input /\ running' = running /\ before' = before
        /\ stored' = stored /\ space' = space /\ started'[r] = 0
        /\ objects'[r] = [i \in DOMAIN in |-> None]
    BY <1>1, ZenonT(30) DEF TypeOK, Admit
  <1>4. in \in Seq(Object)
    BY <1>2, InputFacts
  <1>5. Len(objects'[r]) = Len(in) /\ Len(in) \in Nat
    BY <1>3, <1>4
  <1>6. Looked(r)'
    BY <1>2, <1>3, <1>5 DEF Looked
  <1>7. QED
    BY <1>2, <1>3, <1>6 DEF Served, IsBatch

\* A step of the loop, which starts a lookup or ends it.
LEMMA LoopServed ==
  ASSUME IInv, NEW r \in Requests, StartLookup(r) \/ LoopEnds(r)
  PROVE  Served(r)'
  <1>1. TypeOK /\ Served(r) /\ pc[r] = "loop"
    BY Zenon DEF IInv, StartLookup, LoopEnds
  <1>2. /\ input[r] \in Inputs /\ space[r] = None /\ before[r] \subseteq stored
        /\ input[r].op \in {"upload", "download"} /\ Looked(r)
    BY <1>1 DEF Served
  <1>3. /\ input' = input /\ before' = before /\ stored' = stored /\ space' = space
        /\ objects' = objects /\ gone' = gone
    BY Zenon DEF StartLookup, LoopEnds, work
  <1>4. /\ started[r] \in Nat /\ Len(input[r].objects) \in Nat
        /\ started[r] <= Len(input[r].objects) /\ running[r] \subseteq 1 .. started[r]
    BY <1>1, <1>2, InputFacts DEF TypeOK, Looked
  <1>5. CASE pc'[r] = "wait" /\ started' = started /\ running' = running
    <2>1. ~gone[r] => started[r] = Len(input[r].objects)
      <3>1. LoopEnds(r) \/ gone[r]
        BY <1>1, <1>5, Zenon DEF TypeOK, StartLookup
      <3>2. QED
        BY <3>1, Zenon DEF LoopEnds
    <2>2. Looked(r)'
      BY <1>2, <1>3, <1>5, <2>1, ZenonT(30) DEF Looked, Told
    <2>3. QED
      BY <1>2, <1>3, <1>5, <2>2 DEF Served, IsBatch
  <1>6. CASE /\ pc'[r] = "loop" /\ started[r] < Len(input[r].objects)
             /\ started'[r] = started[r] + 1
             /\ running'[r] = running[r] \cup {started[r] + 1}
    <2>1. started'[r] <= Len(input[r].objects) /\ running'[r] \subseteq 1 .. started'[r]
      BY <1>4, <1>6
    <2>2. ASSUME NEW i \in 1 .. started'[r], i \notin running'[r]
          PROVE  i \in 1 .. started[r] /\ i \notin running[r]
      BY <1>4, <1>6, <2>2
    <2>3. Looked(r)'
      BY <1>2, <1>3, <1>6, <2>1, <2>2, ZenonT(30) DEF Looked, Told
    <2>4. QED
      BY <1>2, <1>3, <1>6, <2>3 DEF Served, IsBatch
  <1>7. QED
    BY <1>1, <1>5, <1>6, ZenonT(30) DEF TypeOK, StartLookup, LoopEnds, work

\* A lookup that ends puts a true answer in its place.
LEMMA LookupServed ==
  ASSUME IInv, NEW r \in Requests, NEW i \in running[r], Lookup(r, i)
  PROVE  Served(r)'
  <1>1. PICK resp :
          /\ pc[r] \in {"loop", "wait"} /\ Looked(r) /\ input[r] \in Inputs
          /\ i \in 1 .. started[r] /\ i \in 1 .. Len(objects[r])
          /\ Holds(input[r].objects[i], resp, before[r], stored)
          /\ objects' = [objects EXCEPT ![r] = [objects[r] EXCEPT ![i] = resp]]
    BY LookupPlace, ZenonT(30)
  <1>2. TypeOK /\ Served(r)
    BY Zenon DEF IInv
  <1>3. /\ UNCHANGED <<stored, pc, input, gone, started, reply, before, space>>
        /\ running'[r] = running[r] \ {i}
    BY <1>2, Zenon DEF TypeOK, Lookup
  <1>4. /\ Len(objects'[r]) = Len(objects[r])
        /\ \A j \in 1 .. Len(objects[r]) : objects'[r][j] = IF j = i THEN resp ELSE objects[r][j]
    <2>1. objects[r] \in Seq(Response \cup {None}) /\ resp \in Response \cup {None}
      BY <1>1, <1>2 DEF TypeOK, Holds
    <2>2. objects'[r] = [objects[r] EXCEPT ![i] = resp]
      BY <1>1, <1>2, Zenon DEF TypeOK
    <2>3. QED
      BY <1>1, <2>1, <2>2, SetOne, SMTT(30)
  <1>5. \A j \in 1 .. started[r] : j \in 1 .. Len(objects[r])
    <2>1. started[r] \in Nat /\ Len(objects[r]) \in Nat
      BY <1>2 DEF TypeOK
    <2>2. started[r] <= Len(objects[r])
      BY <1>1, Zenon DEF Looked
    <2>3. QED
      BY <2>1, <2>2
  <1>6. ASSUME NEW j \in 1 .. started[r], j \notin running'[r]
        PROVE  Holds(input[r].objects[j], objects'[r][j], before[r], stored)
    <2>1. CASE j = i
      BY <1>1, <1>4, <1>5, <2>1, Zenon
    <2>2. CASE j # i
      BY <1>1, <1>3, <1>4, <1>5, <1>6, <2>2, ZenonT(30) DEF Looked, Told
    <2>3. QED
      BY <2>1, <2>2, Zenon
  <1>7. Looked(r)'
    <2>1. running'[r] \subseteq 1 .. started[r]
      BY <1>1, <1>3, Zenon DEF Looked
    <2>2. QED
      BY <1>1, <1>3, <1>4, <1>6, <2>1, ZenonT(30) DEF Looked, Told
  <1>8. QED
    <2>1. /\ input[r].op \in {"upload", "download"} /\ space[r] = None /\ before[r] \subseteq stored
      BY <1>1, <1>2 DEF Served
    <2>2. QED
      BY <1>1, <1>3, <1>7, <2>1 DEF Served, IsBatch

\* The lookups of a batch have ended.
LEMMA WaitServed ==
  ASSUME IInv, NEW r \in Requests, Wait(r) PROVE Served(r)'
  <1>1. TypeOK /\ Served(r) /\ pc[r] = "wait" /\ running[r] = {}
    BY Zenon DEF IInv, Wait
  <1>2. /\ input[r] \in Inputs /\ space[r] = None /\ before[r] \subseteq stored
        /\ input[r].op \in {"upload", "download"} /\ Looked(r)
    BY <1>1 DEF Served
  <1>3. /\ UNCHANGED <<stored, input, gone, started, running, before, space>>
        /\ objects'[r] = SubSeq(objects[r], 1, started[r])
        /\ pc'[r] \in {"space", "done"}
    BY <1>1, ZenonT(30) DEF TypeOK, Wait, Prefix, Reply
  <1>4. /\ objects[r] \in Seq(Response \cup {None}) /\ started[r] \in 0 .. Len(objects[r])
        /\ Len(objects[r]) = Len(input[r].objects) /\ Len(input[r].objects) \in Nat
    <2>1. objects[r] \in Seq(Response \cup {None}) /\ started[r] \in Nat
      BY <1>1, Zenon DEF TypeOK
    <2>2. started[r] <= Len(objects[r]) /\ Len(objects[r]) = Len(input[r].objects)
      BY <1>2, Zenon DEF Looked
    <2>3. QED
      BY <2>1, <2>2
  <1>5. Len(objects'[r]) = started[r] /\ \A j \in 1 .. started[r] : objects'[r][j] = objects[r][j]
    BY <1>3, <1>4, FirstOnes, SMTT(30)
  <1>6. started[r] <= Len(input[r].objects)
    BY <1>4
  <1>7. Answered(r)'
    BY <1>1, <1>2, <1>3, <1>5, <1>6, ZenonT(30) DEF Answered, Looked, Told
  <1>8. input[r].op \notin {"verify", "get"}
    BY <1>2
  <1>9. QED
    BY <1>1, <1>2, <1>3, <1>7, <1>8 DEF Served

\* The space for a batch is looked at.
LEMMA SpaceServed ==
  ASSUME IInv, NEW r \in Requests, hasSpaceFor(r) PROVE Served(r)'
  <1>1. TypeOK /\ Served(r) /\ pc[r] = "space"
    BY Zenon DEF IInv, hasSpaceFor
  <1>2. /\ input[r] \in Inputs /\ running[r] = {} /\ space[r] = None /\ before[r] \subseteq stored
        /\ input[r].op \in {"upload", "download"} /\ Answered(r)
    BY <1>1 DEF Served
  <1>3. UNCHANGED <<stored, input, gone, running, objects, before>>
    BY Zenon DEF hasSpaceFor, work
  <1>4. pc'[r] = "done"
    BY <1>1, ZenonT(30) DEF TypeOK, hasSpaceFor, Reply
  <1>5. reply'[r] = "ok" /\ space'[r] # None => needed(objects[r]) <= space'[r]
    <2>1. ASSUME space' = space PROVE space'[r] = None
      BY <1>2, <2>1
    <2>2. ASSUME NEW avail \in Spaces, space' = [space EXCEPT ![r] = avail],
                 Reply(r, IF needed(objects[r]) <= avail THEN "ok" ELSE "insufficient"),
                 reply'[r] = "ok"
          PROVE  needed(objects[r]) <= space'[r]
      <3>1. reply'[r] = (IF needed(objects[r]) <= avail THEN "ok" ELSE "insufficient") /\ space'[r] = avail
        BY <1>1, <2>2, Zenon DEF TypeOK, Reply
      <3>2. QED
        BY <2>2, <3>1
    <2>3. QED
      BY <2>1, <2>2, ZenonT(30) DEF hasSpaceFor
  <1>6. Answered(r)'
    BY <1>2, <1>3, Zenon DEF Answered, Told
  <1>7. input[r].op \notin {"verify", "get"}
    BY <1>2
  <1>8. QED
    BY <1>2, <1>3, <1>4, <1>5, <1>6, <1>7, ZenonT(30) DEF Served, IsBatch

\* The handler has returned.
LEMMA FinishServed ==
  ASSUME IInv, NEW r \in Requests, Finish(r) PROVE Served(r)'
  <1>1. running[r] = {} /\ running' = running
    BY DEF IInv, Served, Finish
  <1>2. pc'[r] = "idle" /\ before'[r] = {} /\ space'[r] = None
    BY Zenon DEF IInv, TypeOK, Finish
  <1>3. QED
    BY <1>1, <1>2, Zenon DEF Served, IsBatch

-----------------------------------------------------------------------------

\* The invariant is inductive: each step of a request keeps what is known of
\* it, and no step of another, or of storage, takes that away.
THEOREM Inductive == Spec => []IInv
  <1>1. Init => IInv
    <2> SUFFICES ASSUME Init PROVE IInv
      OBVIOUS
    <2>1. TypeOK
      BY DEF Init, TypeOK, Steps
    <2>2. ASSUME NEW r \in Requests PROVE Served(r)
      BY DEF Init, Served, IsBatch
    <2>3. QED
      BY <2>1, <2>2, Zenon DEF IInv
  <1>2. IInv /\ [Next]_vars => IInv'
    <2> SUFFICES ASSUME IInv, [Next]_vars PROVE \A v \in Requests : Served(v)'
      BY TypeStep, Zenon DEF IInv
    <2>1. TypeOK /\ \A v \in Requests : Served(v)
      BY Zenon DEF IInv
    <2>2. ASSUME NEW r \in Requests, Arrive(r) \/ Leave(r) \/ Step(r)
          PROVE  \A v \in Requests : Served(v)'
      <3>1. Served(r)'
        BY <2>2, ArriveServed, LeaveServed, SingleServed, HashAlgoServed, AdmitServed, LoopServed,
           LookupServed, WaitServed, SpaceServed, FinishServed, ZenonT(30) DEF Step
      <3>2. ASSUME NEW v \in Requests, v # r PROVE Served(v)'
        BY <2>1, <2>2, <3>2, OthersStay, ServedFrame, ZenonT(30)
      <3>3. QED
        BY <3>1, <3>2, Zenon
    <2>3. ASSUME NEW o \in Oids, Store(o) PROVE \A v \in Requests : Served(v)'
      BY <2>1, <2>3, ServedFrame, ZenonT(30) DEF Store, work
    <2>4. CASE UNCHANGED vars
      BY <2>1, <2>4, ServedFrame, ZenonT(30) DEF vars, work
    <2>5. QED
      BY <2>2, <2>3, <2>4, Zenon DEF Next
  <1>3. QED
    BY <1>1, <1>2, PTL DEF Spec

\* Batch responses are complete and in order, whatever the order in which the
\* lookups end (processBatch).
THEOREM RepliesAreComplete == Spec => []RepliesComplete
  <1>1. IInv => RepliesComplete
    <2> SUFFICES ASSUME IInv, NEW r \in Requests, IsBatch(r)
                 PROVE  /\ ~gone[r] => Len(objects[r]) = Len(input[r].objects)
                        /\ \A i \in DOMAIN objects[r] :
                             objects[r][i] # None /\ objects[r][i].oid = input[r].objects[i].oid
      BY Zenon DEF RepliesComplete
    <2>1. Answered(r) /\ DOMAIN objects[r] = 1 .. Len(objects[r])
      BY DEF IInv, Served, TypeOK
    <2>2. QED
      BY <2>1, NoneAssumption, Zenon DEF Answered, Told, Holds
  <1>2. QED
    BY <1>1, Inductive, PTL

\* What a response says of an object was so at some time during the request
\* (processObject, VerifyHandler, DownloadHandler).
THEOREM AnswersAreTrue == Spec => []AnswersTrue
  <1>1. IInv => AnswersTrue
    <2> SUFFICES ASSUME IInv, NEW r \in Requests, pc[r] = "done"
                 PROVE  /\ IsBatch(r) => \A i \in DOMAIN objects[r] : Told(r, i)
                        /\ input[r].op \in {"verify", "get"} => SingleTrue(r)
      BY ZenonT(30) DEF AnswersTrue, Told, Holds, SingleTrue
    <2>1. Served(r) /\ DOMAIN objects[r] = 1 .. Len(objects[r])
      BY DEF IInv, TypeOK
    <2>2. QED
      BY <2>1, Zenon DEF Served, Answered
  <1>2. QED
    BY <1>1, Inductive, PTL

\* The uploads that a response grants fit in the space that storage reported,
\* because the sum of their sizes is cut off and never wraps (hasSpaceFor).
THEOREM UploadsFit == Spec => []GrantsFit
  <1>1. IInv => GrantsFit
    <2> SUFFICES ASSUME IInv, NEW r \in Requests, IsBatch(r), space[r] # None, space[r] # MaxUint64
                 PROVE  TotalSize(objects[r]) <= space[r]
      BY Zenon DEF GrantsFit
    <2>1. Answered(r) /\ needed(objects[r]) <= space[r]
      BY Zenon DEF IInv, Served
    <2>2. objects[r] \in Seq(Response \cup {None}) /\ space[r] \in 0 .. MaxUint64 /\ MaxUint64 \in Nat
      BY BoundsAssumption, ZenonT(30) DEF IInv, TypeOK
    <2>3. \A i \in 1 .. Len(objects[r]) : objects[r][i] \in Response
      BY <2>1, Zenon DEF Answered, Told, Holds
    <2>4. objects[r] \in Seq(Response)
      BY <2>2, <2>3
    <2>5. TotalSize(objects[r]) \in Nat /\ min(TotalSize(objects[r]), MaxUint64) <= space[r]
      BY <2>1, <2>4, Saturates, Zenon
    <2>6. QED
      BY <2>2, <2>5 DEF min
  <1>2. QED
    BY <1>1, Inductive, PTL

\* Slots are taken for lookups, and given back with them.
SlotsTaken ==
    \A r \in Requests :
        /\ slots[r] \in 0 .. Concurrency /\ IsFiniteSet(running[r])
        /\ Cardinality(running[r]) <= slots[r]

\* No more lookups of a batch run than there are slots.
LookupsBounded ==
    \A r \in Requests : IsFiniteSet(running[r]) /\ Cardinality(running[r]) <= Concurrency

\* A batch never makes more lookups at a time than batchConcurrency, whether they
\* end well or not and whether or not its client stays (processBatch).
THEOREM LookupsAreBounded == Spec => []LookupsBounded
  <1>1. Init => SlotsTaken
    <2>1. IsFiniteSet({}) /\ Cardinality({}) = 0 /\ 0 \in 0 .. Concurrency /\ 0 <= 0
      BY BoundsAssumption, FS_EmptySet
    <2>2. QED
      BY <2>1, Zenon DEF Init, SlotsTaken
  <1>2. IInv /\ SlotsTaken /\ [Next]_vars => SlotsTaken'
    <2> SUFFICES ASSUME IInv, SlotsTaken, [Next]_vars, NEW v \in Requests
                 PROVE  /\ slots'[v] \in 0 .. Concurrency /\ IsFiniteSet(running'[v])
                        /\ Cardinality(running'[v]) <= slots'[v]
      BY Zenon DEF SlotsTaken
    <2>1. /\ TypeOK /\ Served(v) /\ Concurrency \in Nat
          /\ slots[v] \in 0 .. Concurrency /\ IsFiniteSet(running[v])
          /\ Cardinality(running[v]) <= slots[v] /\ Cardinality(running[v]) \in Nat
      BY BoundsAssumption, FS_CardinalityType DEF IInv, SlotsTaken
    <2>2. CASE slots'[v] = slots[v] /\ running'[v] = running[v]
      BY <2>1, <2>2, Zenon
    <2>3. CASE slots'[v] = 0 /\ running'[v] = {}
      BY <2>1, <2>3, FS_EmptySet
    <2>4. CASE StartLookup(v)
      <3>1. slots'[v] = slots[v] + 1 /\ slots[v] < Concurrency
        BY <2>1, <2>4, Zenon DEF TypeOK, StartLookup
      <3>2. running'[v] = running[v] \/ running'[v] = running[v] \cup {started[v] + 1}
        BY <2>1, <2>4, Zenon DEF TypeOK, StartLookup
      <3>3. /\ IsFiniteSet(running[v] \cup {started[v] + 1})
            /\ Cardinality(running[v] \cup {started[v] + 1}) \in {Cardinality(running[v]), Cardinality(running[v]) + 1}
        BY <2>1, FS_AddElement
      <3>4. slots'[v] \in 0 .. Concurrency /\ Cardinality(running[v]) <= slots'[v]
        BY <2>1, <3>1
      <3>5. Cardinality(running[v] \cup {started[v] + 1}) <= slots'[v]
        BY <2>1, <3>1, <3>3
      <3>6. QED
        BY <2>1, <3>2, <3>3, <3>4, <3>5, Zenon
    <2>5. ASSUME NEW i \in running[v], Lookup(v, i)
          PROVE  /\ slots'[v] \in 0 .. Concurrency /\ IsFiniteSet(running'[v])
                 /\ Cardinality(running'[v]) <= slots'[v]
      <3>1. slots'[v] = slots[v] - 1 /\ running'[v] = running[v] \ {i}
        BY <2>1, <2>5, Zenon DEF TypeOK, Lookup
      <3>2. IsFiniteSet(running[v] \ {i}) /\ Cardinality(running[v] \ {i}) = Cardinality(running[v]) - 1
        BY <2>1, FS_RemoveElement
      <3>3. Cardinality(running'[v]) \in Nat
        BY <3>1, <3>2, FS_CardinalityType
      <3>4. QED
        BY <2>1, <3>1, <3>2, <3>3
    <2>6. ASSUME NEW r \in Requests, Arrive(r) \/ Leave(r) \/ Step(r), r # v
          PROVE  slots'[v] = slots[v] /\ running'[v] = running[v]
      BY <2>1, <2>6, ZenonT(60)
      DEF TypeOK, Arrive, Leave, Step, Reject, unsupportedHashAlgo, Admit, StartLookup,
          LoopEnds, Wait, hasSpaceFor, Verify, Get, Finish, Lookup, Reply, work
    <2>7. CASE \/ Arrive(v) \/ Leave(v) \/ Reject(v) \/ unsupportedHashAlgo(v) \/ LoopEnds(v) \/ Wait(v)
               \/ hasSpaceFor(v) \/ Verify(v) \/ Get(v)
               \/ (\E o \in Oids : Store(o)) \/ UNCHANGED vars
      <3>1. slots' = slots /\ running' = running
        BY <2>7, ZenonT(30)
        DEF Arrive, Leave, Reject, unsupportedHashAlgo, LoopEnds, Wait, hasSpaceFor, Verify, Get,
            Store, work, vars
      <3>2. QED
        BY <2>2, <3>1, Zenon
    <2>8. CASE Admit(v) \/ Finish(v)
      <3>1. slots'[v] = 0 /\ running' = running /\ pc[v] \in {"admit", "done"}
        BY <2>1, <2>8, Zenon DEF TypeOK, Admit, Finish
      <3>2. running[v] = {}
        BY <2>1, <3>1, Zenon DEF Served
      <3>3. QED
        BY <2>3, <3>1, <3>2, Zenon
    <2>9. QED
      BY <2>2, <2>4, <2>5, <2>6, <2>7, <2>8, ZenonT(30) DEF Next, Step
  <1>3. IInv /\ SlotsTaken => LookupsBounded
    <2> SUFFICES ASSUME SlotsTaken, NEW r \in Requests
                 PROVE  IsFiniteSet(running[r]) /\ Cardinality(running[r]) <= Concurrency
      BY Zenon DEF LookupsBounded
    <2>1. /\ slots[r] \in 0 .. Concurrency /\ IsFiniteSet(running[r]) /\ Cardinality(running[r]) <= slots[r]
      BY Zenon DEF SlotsTaken
    <2>2. QED
      BY <2>1, BoundsAssumption, FS_CardinalityType
  <1>4. QED
    BY <1>1, <1>2, <1>3, Inductive, PTL DEF Spec
=============================================================================
