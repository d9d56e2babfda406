-------------------------- MODULE GitHubAuthProofs --------------------------
(***************************************************************************)
(* Proofs about GitHubAuth: who is waiting for what, and how long ago      *)
(* GitHub said what a caller, a lookup or the cache holds.                 *)
(***************************************************************************)
EXTENDS GitHubAuth, TLAPS

-----------------------------------------------------------------------------
(* The inductive invariant *)

Steps == {"idle", "miss", "fetching", "probe", "probing", "result", "error"}

Change(S) == [grant : Grants, ago : Nat, nth : S]

TypeOK ==
    /\ grant \in Grants
    /\ past \subseteq Change({p.nth : p \in past})
    /\ cache \in [acc : Access, left : Int] \cup {None}
    /\ flights \in [Keys -> Flight \cup {None}]
    /\ pc \in [Callers -> Steps]
    /\ op \in [Callers -> Ops \cup {None}]
    /\ acc \in [Callers -> Access]
    /\ failing \in [Callers -> BOOLEAN]
    /\ leaves \in Nat

\* What GitHub said up to b ago, for every b.
Heard == [b \in Nat |-> Recent(b)]

Probed(a, o) == IF o = "download" THEN a.read ELSE a.write

\* Access a is what GitHub says of grants in R: of one, about the role, or why
\* there is none, and of perhaps others about the contents.
Said(a, R) ==
    /\ \/ \E g \in R : /\ g.valid /\ g.visible /\ g.perms
                       /\ a.authenticated /\ a.private = g.private
                       /\ a.pull = g.pull /\ a.push = g.push /\ a.maintainer = g.maintainer
       \/ /\ ~a.pull /\ ~a.push
          /\ a.authenticated => \E g \in R : ~g.visible \/ ~g.perms \/ ~g.user
    /\ \A o \in Ops : Probed(a, o) # "unchecked" => \E g \in R : Outcome(g, o) = Probed(a, o)

\* A token taken for invalid was.
Rejected(a, R) == a.authenticated \/ \E g \in R : ~g.valid

\* How long an invalid token is remembered.
ITTL == IF TTL < InvalidTTL THEN TTL ELSE InvalidTTL

\* The entry e of the cache, given what was heard, r, and the leavers, l.
EntryOK(e, r, l) ==
    e # None =>
        /\ e.left <= TTL
        /\ e.left >= 0 => Said(e.acc, r[TTL - e.left + MaxFlight])
        /\ e.left >= 0 /\ ~e.acc.authenticated =>
              /\ e.left <= ITTL
              /\ l = 0 => Rejected(e.acc, r[ITTL - e.left + MaxFlight])

\* A lookup of the role.
FetchOK(f, r) ==
    f # None =>
        /\ f.age <= MaxFlight
        /\ f.step # "new" => f.acc \in Access /\ Said(f.acc, r[f.age]) /\ Rejected(f.acc, r[f.age])

\* A probe for operation o of the contents: what it knew when it started may be
\* as old as the cache allows, the answer is as old as the probe.
ProbeOK(o, f, r, l) ==
    f # None =>
        /\ f.age <= MaxFlight
        /\ f.acc \in Access /\ Said(f.acc, r[TTL + MaxFlight + f.age])
        /\ f.step # "store" /\ l = 0 => f.acc.authenticated
        /\ f.step = "store" =>
              /\ l = 0 => Rejected(f.acc, r[f.age])
              /\ IF f.keep THEN f.acc = NoAccess
                 ELSE \E g \in r[f.age] : Outcome(g, o) = Probed(f.acc, o)

\* A caller at step p of operation o with access a.
CallerOK(p, o, a, r, l) ==
    /\ p # "idle" => o \in Ops
    /\ p = "probe" => Said(a, r[TTL + MaxFlight]) /\ needsProbe(a, o)
    /\ p = "result" => /\ Said(a, r[Bound]) /\ ~needsProbe(a, o)
                       /\ l = 0 => Rejected(a, r[ITTL + MaxFlight])

\* A caller at step p of operation o waits for the lookup of key k.
WaitsFor(p, o, k) == IF k = "fetch" THEN p = "fetching" ELSE p = "probing" /\ o = k

\* Callers wait for lookups under way, and those know them.
Waiting ==
    \A c \in Callers, k \in Keys :
        /\ WaitsFor(pc[c], op[c], k) => flights[k] # None
        /\ flights[k] # None => (c \in flights[k].waiters <=> WaitsFor(pc[c], op[c], k))

\* How old what the cache, the lookups and the callers know is.
Knowing ==
    /\ EntryOK(cache, Heard, leaves)
    /\ FetchOK(flights["fetch"], Heard)
    /\ \A o \in Ops : ProbeOK(o, flights[o], Heard, leaves)
    /\ \A c \in Callers : CallerOK(pc[c], op[c], acc[c], Heard, leaves)

IInv == TypeOK /\ Waiting /\ ErrorsFromGitHub /\ Knowing

-----------------------------------------------------------------------------
(* What was heard *)

\* What one set of grants said, a larger one did.
LEMMA SaidMore ==
  ASSUME NEW a, NEW R, NEW S, R \subseteq S
  PROVE  (Said(a, R) => Said(a, S)) /\ (Rejected(a, R) => Rejected(a, S))
  BY Zenon DEF Said, Rejected

\* Of a longer time no less was heard, and always what GitHub holds now.
LEMMA HeardLonger ==
  ASSUME NEW i \in Nat
  PROVE  /\ grant \in Heard[i]
         /\ TypeOK => \A j \in Nat : i <= j => Heard[i] \subseteq Heard[j]
  <1>1. Heard[i] = Recent(i)
    BY Zenon DEF Heard
  <1>2. ASSUME TypeOK, NEW j \in Nat, i <= j PROVE Recent(i) \subseteq Recent(j)
    <2>1. PICK S : past \subseteq Change(S)
      BY <1>2, ZenonT(30) DEF TypeOK
    <2>2. \A p \in past : p.ago <= i => p.ago <= j
      BY <1>2, <2>1 DEF Change
    <2>3. QED
      BY <2>2, Zenon DEF Recent
  <1>3. grant \in Recent(i)
    BY DEF Recent
  <1>4. \A j \in Nat : Heard[j] = Recent(j)
    BY Zenon DEF Heard
  <1>5. QED
    BY <1>1, <1>2, <1>3, <1>4, Zenon

\* s has all that r has, after no time or after a tick.
Grows(r, s, d) == \A i \in Nat : r[i] \subseteq s[i + d]

\* What was heard stays heard, a tick later for a tick longer.
LEMMA HeardStep ==
  ASSUME TypeOK
  PROVE  /\ UNCHANGED <<grant, past>> => Heard' = Heard
         /\ GrantChanges => Grows(Heard, Heard', 0)
         /\ Tick => Grows(Heard, Heard', 1)
  <1>1. (UNCHANGED <<grant, past>>) => Heard' = Heard
    BY Zenon DEF Heard, Recent
  <1>2. PICK S : past \subseteq [grant : Grants, ago : Nat, nth : S]
    BY Zenon DEF TypeOK, Change
  <1>3. Bound \in Nat
    BY TimesAssumption DEF Bound
  <1>4. ASSUME GrantChanges, NEW i \in Nat PROVE Heard[i] \subseteq Heard'[i]
    <2> DEFINE q == [grant |-> grant, ago |-> 0, nth |-> Cardinality(past)]
    <2>1. past' = past \cup {q}
      BY <1>4 DEF GrantChanges
    <2>2. q.ago <= i /\ q.grant = grant
      OBVIOUS
    <2> HIDE DEF q
    <2>3. Recent(i)' = {grant'} \cup {p.grant : p \in {p \in past' : p.ago <= i}}
      BY DEF Recent
    <2>4. \A g \in Recent(i) : g \in {grant} \/ \E p \in past : p.ago <= i /\ g = p.grant
      BY Zenon DEF Recent
    <2>5. ASSUME NEW g \in Recent(i) PROVE g \in Recent(i)'
      <3>1. CASE g = grant
        BY <2>1, <2>2, <2>3, <3>1, Zenon
      <3>2. CASE \E p \in past : p.ago <= i /\ g = p.grant
        BY <2>1, <2>3, <3>2, Zenon
      <3>3. QED
        BY <2>4, <2>5, <3>1, <3>2, Zenon
    <2>6. Heard[i] = Recent(i) /\ Heard'[i] = Recent(i)'
      BY Zenon DEF Heard
    <2>7. QED
      BY <2>5, <2>6, Zenon
  <1>5. ASSUME Tick, NEW i \in Nat PROVE Heard[i] \subseteq Heard'[i + 1]
    <2> DEFINE older(p) == [p EXCEPT !.ago = IF @ > Bound THEN @ ELSE @ + 1]
    <2>1. past' = {older(p) : p \in past} /\ grant' = grant
      BY <1>5 DEF Tick
    <2>2. ASSUME NEW p \in past, p.ago <= i PROVE older(p).ago <= i + 1 /\ older(p).grant = p.grant
      BY <1>2, <1>3, <2>2
    <2> HIDE DEF older
    <2>3. Recent(i + 1)' = {grant'} \cup {p.grant : p \in {p \in past' : p.ago <= i + 1}}
      BY DEF Recent
    <2>4. \A g \in Recent(i) : g \in {grant} \/ \E p \in past : p.ago <= i /\ g = p.grant
      BY Zenon DEF Recent
    <2>5. ASSUME NEW g \in Recent(i) PROVE g \in Recent(i + 1)'
      <3>1. CASE g = grant
        BY <2>1, <2>3, <3>1, Zenon
      <3>2. CASE \E p \in past : p.ago <= i /\ g = p.grant
        <4>1. PICK p \in past : p.ago <= i /\ g = p.grant
          BY <3>2
        <4>2. older(p) \in past' /\ older(p).ago <= i + 1 /\ older(p).grant = g
          BY <2>1, <2>2, <4>1, Zenon
        <4>3. QED
          BY <2>3, <4>2, Zenon
      <3>3. QED
        BY <2>4, <2>5, <3>1, <3>2, Zenon
    <2>6. i + 1 \in Nat
      OBVIOUS
    <2>7. Heard[i] = Recent(i) /\ Heard'[i + 1] = Recent(i + 1)'
      BY <2>6, Zenon DEF Heard
    <2>8. QED
      BY <2>5, <2>7, Zenon
  <1>6. \A i \in Nat : i + 0 = i
    OBVIOUS
  <1>7. QED
    BY <1>1, <1>4, <1>5, <1>6, Zenon DEF Grows

-----------------------------------------------------------------------------
(* What time and others leave alone *)

\* An entry of the cache stays what GitHub said, d older.
LEMMA EntryAges ==
  ASSUME NEW r, NEW s, NEW d \in {0, 1}, Grows(r, s, d), NEW l, NEW m, m = 0 => l = 0,
         NEW e \in [acc : Access, left : Int], NEW e2 \in [acc : Access, left : Int],
         e2.acc = e.acc, e2.left = IF e.left < 0 THEN e.left ELSE e.left - d,
         e # None, EntryOK(e, r, l)
  PROVE  EntryOK(e2, s, m)
  <1> DEFINE n == e.left
             n2 == e2.left
             i == TTL - n + MaxFlight
             j == ITTL - n + MaxFlight
  <1>1. n \in Int /\ n2 \in Int /\ TTL \in Nat /\ MaxFlight \in Nat /\ ITTL \in Nat
    BY TimesAssumption DEF ITTL
  <1>2. n <= TTL /\ (n >= 0 => Said(e.acc, r[i]))
    BY Zenon DEF EntryOK
  <1>3. n >= 0 /\ ~e.acc.authenticated => n <= ITTL /\ (l = 0 => Rejected(e.acc, r[j]))
    BY Zenon DEF EntryOK
  <1>4. n2 <= TTL
    BY <1>1, <1>2
  <1>5. ASSUME n2 >= 0 PROVE Said(e2.acc, s[TTL - n2 + MaxFlight])
    <2>1. n >= 0 /\ i \in Nat /\ TTL - n2 + MaxFlight = i + d
      BY <1>1, <1>2, <1>5
    <2>2. r[i] \subseteq s[i + d]
      BY <2>1, Zenon DEF Grows
    <2> HIDE DEF n, n2, i
    <2>3. QED
      BY <1>2, <2>1, <2>2, SaidMore
  <1>6. ASSUME n2 >= 0, ~e2.acc.authenticated
        PROVE  n2 <= ITTL /\ (m = 0 => Rejected(e2.acc, s[ITTL - n2 + MaxFlight]))
    <2>0. n >= 0
      BY <1>1, <1>6
    <2>1. n <= ITTL /\ (l = 0 => Rejected(e.acc, r[j]))
      BY <1>3, <1>6, <2>0, Zenon
    <2>2. n2 <= ITTL /\ j \in Nat /\ ITTL - n2 + MaxFlight = j + d
      BY <1>1, <2>0, <2>1
    <2>3. r[j] \subseteq s[j + d]
      BY <2>2, Zenon DEF Grows
    <2> HIDE DEF n, n2, j
    <2>4. QED
      BY <2>1, <2>2, <2>3, SaidMore
  <1>7. QED
    BY <1>4, <1>5, <1>6, Zenon DEF EntryOK

\* So does a lookup under way.
LEMMA FetchAges ==
  ASSUME NEW r, NEW s, NEW d \in {0, 1}, Grows(r, s, d),
         NEW f \in Flight, NEW f2 \in Flight, f2.acc = f.acc, f2.step = f.step,
         f2.age = f.age + d, f2.age <= MaxFlight, f # None, FetchOK(f, r)
  PROVE  FetchOK(f2, s)
  <1>1. f.age \in Nat
    BY DEF Flight
  <1>2. f.step # "new" => f.acc \in Access /\ Said(f.acc, r[f.age]) /\ Rejected(f.acc, r[f.age])
    BY Zenon DEF FetchOK
  <1>3. r[f.age] \subseteq s[f2.age]
    BY <1>1, Zenon DEF Grows
  <1>4. f.step # "new" => Said(f2.acc, s[f2.age]) /\ Rejected(f2.acc, s[f2.age])
    BY <1>2, <1>3, SaidMore, ZenonT(30)
  <1>5. QED
    BY <1>2, <1>4, Zenon DEF FetchOK

\* And a probe.
LEMMA ProbeAges ==
  ASSUME NEW r, NEW s, NEW d \in {0, 1}, Grows(r, s, d), NEW l, NEW m, m = 0 => l = 0, NEW o,
         NEW f \in Flight, NEW f2 \in Flight, f2.acc = f.acc, f2.step = f.step, f2.keep = f.keep,
         f2.age = f.age + d, f2.age <= MaxFlight, f # None, ProbeOK(o, f, r, l)
  PROVE  ProbeOK(o, f2, s, m)
  <1> DEFINE i == TTL + MaxFlight + f.age
  <1>1. f.age \in Nat /\ i \in Nat /\ TTL + MaxFlight + f2.age = i + d
    BY TimesAssumption DEF Flight
  <1>2. r[f.age] \subseteq s[f2.age] /\ r[i] \subseteq s[i + d]
    BY <1>1, Zenon DEF Grows
  <1>3. /\ f.acc \in Access /\ Said(f.acc, r[i])
        /\ f.step # "store" /\ l = 0 => f.acc.authenticated
        /\ f.step = "store" =>
              /\ l = 0 => Rejected(f.acc, r[f.age])
              /\ IF f.keep THEN f.acc = NoAccess
                 ELSE \E g \in r[f.age] : Outcome(g, o) = Probed(f.acc, o)
    BY Zenon DEF ProbeOK
  <1> HIDE DEF i
  <1>4. Said(f2.acc, s[TTL + MaxFlight + f2.age])
    BY <1>1, <1>2, <1>3, SaidMore
  <1>5. Rejected(f.acc, r[f.age]) => Rejected(f2.acc, s[f2.age])
    BY <1>2, SaidMore, ZenonT(30)
  <1>6. QED
    BY <1>2, <1>3, <1>4, <1>5, Zenon DEF ProbeOK

\* A caller's access too, while no time passes.
LEMMA CallerStays ==
  ASSUME NEW r, NEW s, Grows(r, s, 0), NEW l, NEW m, m = 0 => l = 0,
         NEW p, NEW o, NEW a, CallerOK(p, o, a, r, l)
  PROVE  CallerOK(p, o, a, s, m)
  <1>1. /\ TTL + MaxFlight \in Nat /\ Bound \in Nat /\ ITTL + MaxFlight \in Nat
        /\ \A i \in Nat : i + 0 = i
    BY TimesAssumption DEF Bound, ITTL
  <1>2. /\ r[TTL + MaxFlight] \subseteq s[TTL + MaxFlight]
        /\ r[Bound] \subseteq s[Bound]
        /\ r[ITTL + MaxFlight] \subseteq s[ITTL + MaxFlight]
    BY <1>1, Zenon DEF Grows
  <1>3. QED
    BY <1>2, SaidMore, Zenon DEF CallerOK

-----------------------------------------------------------------------------
(* Types *)

\* The accesses that fetchAccess and withProbe make.
LEMMA Accesses ==
  /\ NoAccess \in Access /\ Known \in Access
  /\ \A g \in Grants : Granted(g) \in Access
  /\ \A a \in Access, g \in Grants, o \in Ops : withProbe(a, o, Outcome(g, o)) \in Access
  /\ \A a \in Access, o \in Ops, b \in Access : withProbe(a, o, Probed(b, o)) \in Access
  <1>1. NoAccess \in Access /\ Known \in Access
    BY ZenonT(30) DEF NoAccess, Known, Access, Probe
  <1>2. \A g \in Grants : Granted(g) \in Access
    BY GrantsAssumption DEF Granted, Grant, Access, Probe
  <1>3. \A a \in Access, x \in Probe, o \in Ops : withProbe(a, o, x) \in Access
    BY DEF withProbe, Access, Ops
  <1>4. \A g \in Grants, o \in Ops : Outcome(g, o) \in Probe
    BY DEF Outcome, Probe
  <1>5. \A b \in Access, o \in Ops : Probed(b, o) \in Probe
    BY DEF Probed, Access
  <1>6. QED
    BY <1>1, <1>2, <1>3, <1>4, <1>5, Zenon

\* What a lookup hands to its waiters has the types that they need.
LEMMA DeliverType ==
  ASSUME TypeOK, NEW k \in Keys, NEW a \in Access, Deliver(k, a)
  PROVE  /\ flights' \in [Keys -> Flight \cup {None}]
         /\ acc' \in [Callers -> Access] /\ pc' \in [Callers -> Steps]
  <1>1. acc \in [Callers -> Access] /\ pc \in [Callers -> Steps] /\ flights \in [Keys -> Flight \cup {None}]
    BY DEF TypeOK
  <1>2. \A x : AfterLookup(a, x) \in Steps
    BY DEF AfterLookup, Steps
  <1>3. "result" \in Steps
    BY DEF Steps
  <1>4. QED
    BY <1>1, <1>2, <1>3 DEF Deliver

\* Nor does any step of a lookup leave the types.
LEMMA ContinueType ==
  ASSUME TypeOK, NEW k \in Keys, NEW a \in Access, NEW b \in BOOLEAN, NEW s \in {"user", "store"},
         flights[k] # None, Continue(k, s, a, b)
  PROVE  flights' \in [Keys -> Flight \cup {None}]
  <1>1. flights \in [Keys -> Flight \cup {None}] /\ flights[k] \in Flight
    BY DEF TypeOK
  <1>2. [flights[k] EXCEPT !.step = s, !.acc = a, !.keep = b] \in Flight
    BY <1>1, ZenonT(30) DEF Flight
  <1>3. QED
    BY <1>1, <1>2 DEF Continue

\* What is stored in the cache is an entry.
LEMMA StoreType ==
  ASSUME TypeOK, NEW a \in Access, cacheStoreIfEnabled(a)
  PROVE  cache' \in [acc : Access, left : Int] \cup {None}
  BY TimesAssumption DEF TypeOK, cacheStoreIfEnabled

\* share leaves the lookup of key k under way, with c among its waiters.
LEMMA ShareLookup ==
  ASSUME TypeOK, NEW c \in Callers, NEW k \in Keys, NEW a \in Access \cup {None}, share(c, k, a)
  PROVE  \E f2 \in Flight :
            /\ flights' = [flights EXCEPT ![k] = f2]
            /\ \/ /\ flights[k] \in Flight /\ flights[k] # None
                  /\ f2.waiters = flights[k].waiters \cup {c}
                  /\ f2.step = flights[k].step /\ f2.acc = flights[k].acc
                  /\ f2.keep = flights[k].keep /\ f2.age = flights[k].age
               \/ /\ flights[k] = None
                  /\ f2.waiters = {c} /\ f2.step = "new" /\ f2.acc = a /\ f2.age = 0
  <1> DEFINE new == [step |-> "new", owner |-> c, acc |-> a, keep |-> FALSE, age |-> 0, waiters |-> {c}]
             joined == [flights[k] EXCEPT !.waiters = @ \cup {c}]
  <1>1. flights \in [Keys -> Flight \cup {None}]
    BY DEF TypeOK
  <1>2. flights' = [flights EXCEPT ![k] = IF flights[k] # None THEN joined ELSE new]
    BY Zenon DEF share
  <1>3. CASE flights[k] # None
    <2>1. flights[k] \in Flight
      BY <1>1, <1>3
    <2>2. /\ joined \in Flight /\ joined.waiters = flights[k].waiters \cup {c}
          /\ joined.step = flights[k].step /\ joined.acc = flights[k].acc
          /\ joined.keep = flights[k].keep /\ joined.age = flights[k].age
      BY <2>1 DEF Flight
    <2> HIDE DEF joined, new
    <2>3. flights' = [flights EXCEPT ![k] = joined]
      BY <1>2, <1>3
    <2>4. QED
      BY <1>3, <2>1, <2>2, <2>3, Zenon
  <1>4. CASE flights[k] = None
    <2>1. new \in Flight /\ new.waiters = {c} /\ new.step = "new" /\ new.acc = a /\ new.age = 0
      BY DEF Flight
    <2> HIDE DEF joined, new
    <2>2. flights' = [flights EXCEPT ![k] = new]
      BY <1>2, <1>4
    <2>3. QED
      BY <1>4, <2>1, <2>2, Zenon
  <1>5. QED
    BY <1>3, <1>4

\* A caller that leaves was waiting for a lookup, which goes on.
LEMMA LeaveLookup ==
  ASSUME TypeOK, Waiting, NEW c \in Callers, Leave(c), op[c] \in Ops
  PROVE  \E k \in Keys, f2 \in Flight :
            /\ WaitsFor(pc[c], op[c], k)
            /\ flights[k] \in Flight /\ flights[k] # None
            /\ flights' = [flights EXCEPT ![k] = f2]
            /\ f2.waiters = flights[k].waiters \ {c}
            /\ f2.step = flights[k].step /\ f2.keep = flights[k].keep /\ f2.age = flights[k].age
            /\ f2.acc = flights[k].acc \/ (f2.acc = NoAccess /\ f2.step = "new" /\ k # "fetch")
  <1> DEFINE k == IF pc[c] = "fetching" THEN "fetch" ELSE op[c]
             x == IF flights[k].owner = c /\ flights[k].step = "new" /\ k # "fetch"
                  THEN NoAccess ELSE flights[k].acc
             y == IF flights[k].owner = c THEN None ELSE flights[k].owner
             f2 == [flights[k] EXCEPT !.waiters = @ \ {c}, !.acc = x, !.owner = y]
  <1>1. k \in Keys /\ WaitsFor(pc[c], op[c], k)
    BY DEF Keys, Ops, WaitsFor, Leave
  <1>2. flights[k] \in Flight /\ flights[k] # None
    BY <1>1 DEF TypeOK, Waiting
  <1>3. flights' = [flights EXCEPT ![k] = f2]
    BY Zenon DEF Leave
  <1>4. x \in Access \cup {None} /\ y \in Callers \cup {None}
    BY <1>2, Accesses DEF Flight
  <1>5. x = flights[k].acc \/ (x = NoAccess /\ flights[k].step = "new" /\ k # "fetch")
    BY Zenon
  <1> HIDE DEF k, x, y
  <1>6. /\ f2 \in Flight /\ f2.waiters = flights[k].waiters \ {c} /\ f2.acc = x
        /\ f2.step = flights[k].step /\ f2.keep = flights[k].keep /\ f2.age = flights[k].age
    BY <1>2, <1>4, ZenonT(30) DEF Flight
  <1> HIDE DEF f2
  <1>7. QED
    BY <1>1, <1>2, <1>3, <1>5, <1>6, Zenon

\* Every step of a caller keeps the types.
LEMMA CallerType ==
  ASSUME IInv, NEW c \in Callers, Authenticate(c) \/ Leave(c)
  PROVE  TypeOK'
  <1>0. TypeOK /\ Waiting /\ (pc[c] # "idle" => op[c] \in Ops)
    BY DEF IInv, Knowing, CallerOK
  <1>1. /\ cache \in [acc : Access, left : Int] \cup {None}
        /\ flights \in [Keys -> Flight \cup {None}] /\ pc \in [Callers -> Steps]
        /\ op \in [Callers -> Ops \cup {None}] /\ acc \in [Callers -> Access]
        /\ failing \in [Callers -> BOOLEAN] /\ leaves \in Nat
    BY <1>0 DEF TypeOK
  <1>2. /\ cache' \in [acc : Access, left : Int] \cup {None}
        /\ op' \in [Callers -> Ops \cup {None}] /\ acc' \in [Callers -> Access]
        /\ failing' \in [Callers -> BOOLEAN] /\ leaves' \in Nat
    <2>1. NoAccess \in Access
      BY Accesses
    <2>2. CASE LookupHit(c)
      BY <1>1, <2>2 DEF LookupHit, Cached
    <2>3. CASE LookupMiss(c) \/ ShareFetch(c) \/ ShareProbe(c)
      BY <1>1, <2>3 DEF LookupMiss, ShareFetch, ShareProbe
    <2>4. CASE Return(c) \/ Leave(c)
      <3>1. /\ op' = [op EXCEPT ![c] = None] /\ acc' = [acc EXCEPT ![c] = NoAccess]
            /\ failing' = [failing EXCEPT ![c] = FALSE] /\ cache' = cache
            /\ leaves' = leaves \/ leaves' = leaves + 1
        BY <2>4, Zenon DEF Return, Leave
      <3>2. QED
        BY <1>1, <2>1, <3>1
    <2>5. QED
      BY <2>2, <2>3, <2>4 DEF Authenticate
  <1>3. pc' \in [Callers -> Steps]
    BY <1>1, SMTT(30) DEF Authenticate, LookupHit, LookupMiss, ShareFetch, ShareProbe, Return, Leave, AfterLookup, Steps
  <1>4. flights' \in [Keys -> Flight \cup {None}]
    <2>1. ASSUME NEW k \in Keys, NEW f2 \in Flight, flights' = [flights EXCEPT ![k] = f2]
          PROVE  flights' \in [Keys -> Flight \cup {None}]
      BY <1>1, <2>1
    <2>2. CASE ShareFetch(c)
      <3>1. share(c, "fetch", None) /\ "fetch" \in Keys
        BY <2>2 DEF ShareFetch, Keys
      <3>2. PICK f2 \in Flight : flights' = [flights EXCEPT !["fetch"] = f2]
        BY <1>0, <3>1, ShareLookup
      <3>3. QED
        BY <2>1, <3>1, <3>2, ZenonT(30)
    <2>3. CASE ShareProbe(c)
      <3>1. share(c, op[c], acc[c]) /\ op[c] \in Keys /\ acc[c] \in Access
        BY <1>0, <1>1, <2>3 DEF ShareProbe, Keys
      <3>2. PICK f2 \in Flight : flights' = [flights EXCEPT ![op[c]] = f2]
        BY <1>0, <3>1, ShareLookup
      <3>3. QED
        BY <1>1, <3>1, <3>2
    <2>4. CASE Leave(c)
      <3>1. op[c] \in Ops
        BY <1>0, <2>4 DEF Leave
      <3>2. PICK k \in Keys, f2 \in Flight : flights' = [flights EXCEPT ![k] = f2]
        BY <1>0, <2>4, <3>1, LeaveLookup
      <3>3. QED
        BY <2>1, <3>2, ZenonT(30)
    <2>5. CASE UNCHANGED flights
      BY <1>1, <2>5
    <2>6. QED
      BY <2>2, <2>3, <2>4, <2>5, Zenon DEF Authenticate, LookupHit, LookupMiss, Return
  <1>5. UNCHANGED <<grant, past>>
    BY Zenon DEF Authenticate, LookupHit, LookupMiss, ShareFetch, ShareProbe, Return, Leave
  <1>6. QED
    BY <1>0, <1>2, <1>3, <1>4, <1>5, Zenon DEF TypeOK

\* Every step of a lookup keeps the types.
LEMMA LookupType ==
  ASSUME IInv, NEW k \in Keys, Lookup(k)
  PROVE  TypeOK'
  <1>0. TypeOK
    BY DEF IInv, Knowing
  <1>1. /\ grant \in Grants /\ cache \in [acc : Access, left : Int] \cup {None}
        /\ flights \in [Keys -> Flight \cup {None}] /\ pc \in [Callers -> Steps]
        /\ op \in [Callers -> Ops \cup {None}] /\ acc \in [Callers -> Access]
        /\ failing \in [Callers -> BOOLEAN] /\ leaves \in Nat
    BY <1>0 DEF TypeOK
  <1>2. UNCHANGED <<grant, past, op, leaves>>
    BY Zenon DEF Lookup, LookupFails, FetchRepo, FetchUser, FetchEnds, ProbeKnown, ProbeStarts, ProbeCalls,
       ProbeEnds, callerVars
  <1> DEFINE Rest == /\ cache' \in [acc : Access, left : Int] \cup {None}
                     /\ flights' \in [Keys -> Flight \cup {None}] /\ pc' \in [Callers -> Steps]
                     /\ acc' \in [Callers -> Access] /\ failing' \in [Callers -> BOOLEAN]
  <1>3. SUFFICES Rest
    BY <1>0, <1>2, Zenon DEF TypeOK
  <1>4. CASE LookupFails(k)
    BY <1>1, <1>4 DEF LookupFails, Steps
  <1>5. CASE k = "fetch" /\ (FetchRepo \/ FetchUser)
    <2>1. PICK a \in Access, b \in BOOLEAN, s \in {"user", "store"} : Continue(k, s, a, b)
      <3>1. NoAccess \in Access /\ Known \in Access /\ Granted(grant) \in Access
        BY <1>1, Accesses
      <3>2. FetchUser => flights["fetch"].acc \in Access
        BY DEF IInv, Knowing, FetchUser, FetchOK
      <3>3. TRUE \in BOOLEAN /\ FALSE \in BOOLEAN /\ "user" \in {"user", "store"} /\ "store" \in {"user", "store"}
        OBVIOUS
      <3>4. CASE FetchRepo
        BY <1>5, <3>1, <3>3, <3>4, Zenon DEF FetchRepo
      <3>5. CASE FetchUser
        BY <1>5, <3>1, <3>2, <3>3, <3>5, Zenon DEF FetchUser
      <3>6. QED
        BY <1>5, <3>4, <3>5
    <2>2. flights[k] # None /\ UNCHANGED <<cache, pc, acc, failing>>
      BY <1>5, Zenon DEF FetchRepo, FetchUser, callerVars
    <2>3. QED
      BY <1>0, <1>1, <2>1, <2>2, ContinueType
  <1>6. CASE k = "fetch" /\ FetchEnds
    <2>1. flights[k].acc \in Access /\ Deliver(k, flights[k].acc) /\ failing' = failing
      BY <1>6 DEF IInv, Knowing, FetchEnds, FetchOK
    <2>2. cache' = cache \/ cacheStoreIfEnabled(flights[k].acc)
      BY <1>6, Zenon DEF FetchEnds
    <2>3. QED
      BY <1>0, <1>1, <2>1, <2>2, DeliverType, StoreType
  <1>7. CASE k \in Ops /\ (ProbeKnown(k) \/ ProbeStarts(k) \/ ProbeCalls(k) \/ ProbeEnds(k))
    <2>1. flights[k] # None /\ k \in Ops /\ flights[k].acc \in Access
      BY <1>7, ZenonT(30) DEF ProbeKnown, ProbeStarts, ProbeCalls, ProbeEnds, IInv, Knowing, ProbeOK
    <2>2. CASE ProbeKnown(k)
      <3>1. cache.acc \in Access /\ Deliver(k, cache.acc) /\ failing' = failing /\ cache' = cache
        BY <1>1, <2>2 DEF ProbeKnown, Cached
      <3>2. QED
        BY <1>0, <1>1, <3>1, DeliverType
    <2>3. CASE ProbeStarts(k)
      <3>1. /\ Continue(k, "user", flights[k].acc, FALSE) /\ UNCHANGED <<pc, acc, failing>>
            /\ cache' = cache \/ cache' = None
        BY <2>3, Zenon DEF ProbeStarts, callerVars
      <3>2. QED
        BY <1>0, <1>1, <2>1, <3>1, ContinueType, ZenonT(30)
    <2>4. CASE ProbeCalls(k)
      <3>1. NoAccess \in Access /\ withProbe(flights[k].acc, k, Outcome(grant, k)) \in Access
        BY <1>1, <2>1, Accesses
      <3>2. UNCHANGED <<cache, pc, acc, failing>>
        BY <2>4, Zenon DEF ProbeCalls, callerVars
      <3>3. PICK a \in Access, b \in BOOLEAN : Continue(k, "store", a, b)
        BY <2>4, <3>1, Zenon DEF ProbeCalls
      <3>4. QED
        BY <1>0, <1>1, <2>1, <3>2, <3>3, ContinueType
    <2>5. CASE ProbeEnds(k)
      <3>1. Deliver(k, flights[k].acc) /\ failing' = failing
        BY <2>5, Zenon DEF ProbeEnds
      <3>2. \/ cacheStoreIfEnabled(flights[k].acc)
            \/ cache = None /\ cache' = None
            \/ cache # None /\ cache' = [cache EXCEPT !.acc = withProbe(@, k, Probed(flights[k].acc, k))]
        BY <2>5, Zenon DEF ProbeEnds, Probed
      <3>3. cache # None => withProbe(cache.acc, k, Probed(flights[k].acc, k)) \in Access
        BY <1>1, <2>1, Accesses
      <3>4. cache' \in [acc : Access, left : Int] \cup {None}
        BY <1>0, <1>1, <2>1, <3>2, <3>3, StoreType
      <3>5. QED
        BY <1>0, <1>1, <2>1, <3>1, <3>4, DeliverType
    <2>6. QED
      BY <1>7, <2>2, <2>3, <2>4, <2>5
  <1>8. QED
    BY <1>4, <1>5, <1>6, <1>7, Zenon DEF Lookup

\* The sweeper, changes at GitHub and time keep the types.
LEMMA WorldType ==
  ASSUME TypeOK, Sweep \/ GrantChanges \/ Tick
  PROVE  TypeOK'
  <1>1. CASE Sweep
    BY <1>1, Zenon DEF TypeOK, Sweep, callerVars
  <1>2. CASE GrantChanges
    <2> DEFINE q == [grant |-> grant, ago |-> 0, nth |-> Cardinality(past)]
               S == {p.nth : p \in past}
               T == {p.nth : p \in past'}
    <2>1. /\ past \subseteq Change(S) /\ grant \in Grants
          /\ past' = past \cup {q} /\ grant' \in Grants
      BY <1>2 DEF TypeOK, GrantChanges
    <2>2. S \subseteq T /\ q.nth \in T
      BY <2>1, Zenon
    <2>3. past' \subseteq Change(T)
      <3> HIDE DEF S, T
      <3>1. Change(S) \subseteq Change(T) /\ q \in Change(T)
        BY <2>1, <2>2 DEF Change
      <3>2. QED
        BY <2>1, <3>1, Zenon
    <2>4. QED
      BY <1>2, <2>1, <2>3, Zenon DEF TypeOK, GrantChanges, callerVars
  <1>3. CASE Tick
    <2> DEFINE older(p) == [p EXCEPT !.ago = IF @ > Bound THEN @ ELSE @ + 1]
               later(f) == [f EXCEPT !.age = @ + 1]
               shorter(e) == [e EXCEPT !.left = IF @ < 0 THEN @ ELSE @ - 1]
    <2>1. /\ past' = {older(p) : p \in past}
          /\ flights' = [k \in Keys |-> IF flights[k] = None THEN None ELSE later(flights[k])]
          /\ cache' = (IF cache = None THEN None ELSE shorter(cache))
          /\ UNCHANGED <<grant, pc, op, acc, failing, leaves>>
      BY <1>3, Zenon DEF Tick, callerVars
    <2>2. ASSUME NEW S, NEW p \in Change(S) PROVE older(p) \in Change(S) /\ older(p).nth = p.nth
      BY TimesAssumption DEF Bound, Change
    <2>3. \A f \in Flight : later(f) \in Flight
      BY DEF Flight
    <2>4. \A e \in [acc : Access, left : Int] : shorter(e) \in [acc : Access, left : Int]
      OBVIOUS
    <2> HIDE DEF older, later, shorter
    <2>5. past' \subseteq Change({p.nth : p \in past'})
      <3>1. PICK S : S = {p.nth : p \in past} /\ past \subseteq Change(S)
        BY ZenonT(30) DEF TypeOK
      <3>2. \A p \in past : older(p) \in Change(S) /\ older(p).nth = p.nth
        BY <2>2, <3>1, Zenon
      <3>3. past' \subseteq Change(S) /\ S \subseteq {p.nth : p \in past'}
        BY <2>1, <3>1, <3>2, Zenon
      <3>4. PICK T : T = {p.nth : p \in past'}
        BY ZenonT(30)
      <3>5. Change(S) \subseteq Change(T)
        BY <3>3, <3>4 DEF Change
      <3>6. QED
        BY <3>3, <3>4, <3>5, Zenon
    <2>7. flights' \in [Keys -> Flight \cup {None}]
      <3>1. flights \in [Keys -> Flight \cup {None}]
        BY DEF TypeOK
      <3>2. QED
        BY <2>1, <2>3, <3>1
    <2>8. cache' \in [acc : Access, left : Int] \cup {None}
      BY <2>1, <2>4 DEF TypeOK
    <2>9. QED
      BY <2>1, <2>5, <2>7, <2>8, Zenon DEF TypeOK
  <1>4. QED
    BY <1>1, <1>2, <1>3

\* Every step keeps the types.
LEMMA TypeStep == IInv /\ [Next]_vars => TypeOK'
  <1>1. IInv /\ UNCHANGED vars => TypeOK'
    BY Zenon DEF IInv, Knowing, TypeOK, vars
  <1>2. QED
    BY <1>1, CallerType, LookupType, WorldType, Zenon DEF Next, IInv, Knowing

-----------------------------------------------------------------------------
(* Who waits for what *)

\* Nobody is forgotten when one caller begins or ends to wait.
LEMMA CallerWaits ==
  ASSUME IInv, NEW c \in Callers, Authenticate(c) \/ Leave(c)
  PROVE  Waiting'
  <1>0. TypeOK /\ Waiting /\ (pc[c] # "idle" => op[c] \in Ops)
    BY DEF IInv, Knowing, CallerOK
  <1>1. /\ flights \in [Keys -> Flight \cup {None}] /\ pc \in [Callers -> Steps]
        /\ op \in [Callers -> Ops \cup {None}] /\ acc \in [Callers -> Access]
    BY <1>0 DEF TypeOK
  <1>2. \A d \in Callers \ {c} : pc'[d] = pc[d] /\ op'[d] = op[d]
    BY <1>1, SMTT(30) DEF Authenticate, LookupHit, LookupMiss, ShareFetch, ShareProbe, Return, Leave
  <1>3. SUFFICES ASSUME NEW d \in Callers, NEW k \in Keys
                 PROVE  /\ WaitsFor(pc'[d], op'[d], k) => flights'[k] # None
                        /\ flights'[k] # None => (d \in flights'[k].waiters <=> WaitsFor(pc'[d], op'[d], k))
    BY Zenon DEF Waiting
  <1>4. /\ WaitsFor(pc[d], op[d], k) => flights[k] # None
        /\ flights[k] # None => (d \in flights[k].waiters <=> WaitsFor(pc[d], op[d], k))
    BY <1>0, Zenon DEF Waiting
  <1>5. CASE LookupHit(c) \/ LookupMiss(c) \/ Return(c)
    <2>1. flights' = flights /\ pc[c] \in {"idle", "result", "error"} /\ pc'[c] \in {"probe", "result", "miss", "idle"}
      BY <1>1, <1>5 DEF LookupHit, LookupMiss, Return, AfterLookup
    <2>2. ~WaitsFor(pc[c], op[c], k) /\ ~WaitsFor(pc'[c], op'[c], k)
      BY <2>1 DEF WaitsFor
    <2>3. QED
      BY <1>2, <1>4, <2>1, <2>2, Zenon
  <1>6. ASSUME NEW j \in Keys, NEW a \in Access \cup {None}, share(c, j, a),
               pc[c] \in {"miss", "probe"}, WaitsFor(pc'[c], op'[c], j), op'[c] \in Ops
        PROVE  /\ WaitsFor(pc'[d], op'[d], k) => flights'[k] # None
               /\ flights'[k] # None => (d \in flights'[k].waiters <=> WaitsFor(pc'[d], op'[d], k))
    <2>1. PICK f2 \in Flight :
            /\ flights' = [flights EXCEPT ![j] = f2]
            /\ \/ flights[j] # None /\ f2.waiters = flights[j].waiters \cup {c}
               \/ flights[j] = None /\ f2.waiters = {c}
      BY <1>0, <1>6, ShareLookup
    <2>2. f2 # None
      BY NoneAssumption, Zenon
    <2>3. ~WaitsFor(pc[c], op[c], k) /\ (WaitsFor(pc'[c], op'[c], k) <=> k = j)
      BY <1>6 DEF WaitsFor, Ops, Keys
    <2>4. CASE k = j
      <3>1. flights'[k] = f2
        BY <1>1, <2>1, <2>4, Zenon
      <3>2. CASE d = c
        BY <2>1, <2>2, <2>3, <2>4, <3>1, <3>2
      <3>3. CASE d # c
        BY <1>2, <1>4, <2>1, <2>2, <2>4, <3>1, <3>3
      <3>4. QED
        BY <3>2, <3>3
    <2>5. CASE k # j
      <3>1. flights'[k] = flights[k]
        BY <1>1, <2>1, <2>5, Zenon
      <3>2. QED
        BY <1>2, <1>4, <2>3, <2>5, <3>1, Zenon
    <2>6. QED
      BY <2>4, <2>5
  <1>7. CASE ShareFetch(c)
    <2>1. /\ share(c, "fetch", None) /\ "fetch" \in Keys /\ pc[c] = "miss" /\ pc'[c] = "fetching"
          /\ op'[c] \in Ops
      BY <1>0, <1>1, <1>7 DEF ShareFetch, Keys
    <2>2. WaitsFor(pc'[c], op'[c], "fetch")
      BY <2>1 DEF WaitsFor
    <2>3. QED
      BY <1>6, <2>1, <2>2
  <1>8. CASE ShareProbe(c)
    <2>1. /\ share(c, op[c], acc[c]) /\ op[c] \in Keys /\ pc[c] = "probe" /\ pc'[c] = "probing"
          /\ op' = op /\ op[c] \in Ops /\ acc[c] \in Access
      BY <1>0, <1>1, <1>8 DEF ShareProbe, Keys
    <2>2. WaitsFor(pc'[c], op'[c], op[c])
      BY <2>1 DEF WaitsFor, Ops
    <2>3. QED
      BY <1>6, <2>1, <2>2
  <1>9. CASE Leave(c)
    <2>1. op[c] \in Ops /\ pc[c] \in {"fetching", "probing"} /\ pc'[c] = "idle"
      BY <1>0, <1>1, <1>9 DEF Leave
    <2>2. PICK j \in Keys, f2 \in Flight :
            /\ WaitsFor(pc[c], op[c], j) /\ flights[j] # None
            /\ flights' = [flights EXCEPT ![j] = f2] /\ f2.waiters = flights[j].waiters \ {c}
      BY <1>0, <1>9, <2>1, LeaveLookup
    <2>3. f2 # None
      BY NoneAssumption, Zenon
    <2>4. ~WaitsFor(pc'[c], op'[c], k) /\ (WaitsFor(pc[c], op[c], k) => k = j)
      BY <2>1, <2>2 DEF WaitsFor, Ops, Keys
    <2>5. CASE k = j
      <3>1. flights'[k] = f2
        BY <1>1, <2>2, <2>5, Zenon
      <3>2. QED
        BY <1>2, <1>4, <2>2, <2>3, <2>4, <2>5, <3>1
    <2>6. CASE k # j
      <3>1. flights'[k] = flights[k]
        BY <1>1, <2>2, <2>6, Zenon
      <3>2. QED
        BY <1>2, <1>4, <2>4, <2>6, <3>1, Zenon
    <2>7. QED
      BY <2>5, <2>6
  <1>10. QED
    BY <1>5, <1>7, <1>8, <1>9 DEF Authenticate

\* A lookup that goes on keeps its waiters.
LEMMA ContinueKeeps ==
  ASSUME TypeOK, NEW k \in Keys, NEW a \in Access, NEW b \in BOOLEAN, NEW s \in {"user", "store"},
         flights[k] # None, Continue(k, s, a, b)
  PROVE  /\ flights'[k] \in Flight /\ flights'[k].waiters = flights[k].waiters
         /\ flights'[k].step = s /\ flights'[k].acc = a /\ flights'[k].keep = b
         /\ flights'[k].age = flights[k].age
         /\ \A j \in Keys \ {k} : flights'[j] = flights[j]
  <1> DEFINE f2 == [flights[k] EXCEPT !.step = s, !.acc = a, !.keep = b]
  <1>1. flights \in [Keys -> Flight \cup {None}] /\ flights[k] \in Flight
    BY DEF TypeOK
  <1>2. flights' = [flights EXCEPT ![k] = f2]
    BY Zenon DEF Continue
  <1>3. /\ f2.waiters = flights[k].waiters /\ f2.step = s /\ f2.acc = a /\ f2.keep = b
        /\ f2.age = flights[k].age /\ f2 \in Flight
    BY <1>1, ZenonT(30) DEF Flight
  <1> HIDE DEF f2
  <1>4. flights'[k] = f2 /\ \A j \in Keys \ {k} : flights'[j] = flights[j]
    BY <1>1, <1>2, Zenon
  <1>5. QED
    BY <1>3, <1>4, Zenon

\* A step of the lookup of key k: it goes on with access a.
Goes(k, s, a, b) ==
    flights[k] # None /\ Continue(k, s, a, b) /\ UNCHANGED <<pc, op, acc, failing>>

\* The lookup of the role goes on with what GitHub says now, or said before.
LEMMA FetchGoes ==
  ASSUME IInv, FetchRepo \/ FetchUser
  PROVE  /\ flights["fetch"] # None /\ cache' = cache
         /\ \E s \in {"user", "store"}, a \in Access, b \in BOOLEAN :
               /\ Goes("fetch", s, a, b)
               /\ \/ a = NoAccess /\ ~grant.valid
                  \/ a = Known /\ (~grant.visible \/ ~grant.perms \/ ~grant.user)
                  \/ a = Granted(grant) /\ grant.valid /\ grant.visible /\ grant.perms
                  \/ a = flights["fetch"].acc /\ flights["fetch"].step # "new"
  <1>1. grant \in Grants /\ FetchOK(flights["fetch"], Heard)
    BY DEF IInv, Knowing, TypeOK
  <1>2. NoAccess \in Access /\ Known \in Access /\ Granted(grant) \in Access
    BY <1>1, Accesses
  <1>3. TRUE \in BOOLEAN /\ FALSE \in BOOLEAN /\ "user" \in {"user", "store"} /\ "store" \in {"user", "store"}
    OBVIOUS
  <1>4. flights["fetch"] # None /\ cache' = cache /\ UNCHANGED <<pc, op, acc, failing>>
    BY Zenon DEF FetchRepo, FetchUser, callerVars
  <1>5. CASE FetchRepo
    BY <1>2, <1>3, <1>4, <1>5, Zenon DEF FetchRepo, Goes
  <1>6. CASE FetchUser
    <2>1. flights["fetch"].acc \in Access /\ flights["fetch"].step # "new"
      BY <1>1, <1>6 DEF FetchOK, FetchUser
    <2>2. QED
      BY <1>2, <1>3, <1>4, <1>6, <2>1, Zenon DEF FetchUser, Goes
  <1>7. QED
    BY <1>5, <1>6

\* A lookup goes on with its waiters, or ends for each of them.
LEMMA LookupShape ==
  ASSUME IInv, NEW k \in Keys, Lookup(k)
  PROVE  /\ flights[k] \in Flight /\ flights[k] # None /\ op' = op
         /\ \A j \in Keys \ {k} : flights'[j] = flights[j]
         /\ \/ /\ flights'[k] \in Flight /\ flights'[k].waiters = flights[k].waiters
               /\ pc' = pc /\ failing' = failing
            \/ /\ flights'[k] = None
               /\ \A c \in Callers :
                     IF c \in flights[k].waiters
                     THEN pc'[c] \in {"probe", "result"} \/ (pc'[c] = "error" /\ failing'[c])
                     ELSE pc'[c] = pc[c]
               /\ \A c \in Callers : failing[c] => failing'[c]
  <1>0. TypeOK /\ flights \in [Keys -> Flight \cup {None}] /\ pc \in [Callers -> Steps] /\ failing \in [Callers -> BOOLEAN]
    BY DEF IInv, Knowing, TypeOK
  <1>1. flights[k] # None /\ op' = op
    BY Zenon DEF Lookup, LookupFails, FetchRepo, FetchUser, FetchEnds, ProbeKnown, ProbeStarts, ProbeCalls,
       ProbeEnds, callerVars
  <1>2. flights[k] \in Flight
    BY <1>0, <1>1
  <1>3. CASE LookupFails(k)
    <2> DEFINE W == flights[k].waiters
    <2>1. /\ flights' = [flights EXCEPT ![k] = None]
          /\ pc' = [c \in Callers |-> IF c \in W THEN "error" ELSE pc[c]]
          /\ failing' = [c \in Callers |-> c \in W \/ failing[c]]
      BY <1>3, Zenon DEF LookupFails
    <2> HIDE DEF W
    <2>2. flights'[k] = None /\ \A j \in Keys \ {k} : flights'[j] = flights[j]
      BY <1>0, <2>1, Zenon
    <2>3. \A c \in Callers : /\ IF c \in W THEN pc'[c] = "error" /\ failing'[c] ELSE pc'[c] = pc[c]
                             /\ failing[c] => failing'[c]
      BY <2>1, Zenon
    <2>4. QED
      BY <1>1, <1>2, <2>2, <2>3, Zenon DEF W
  <1>4. ASSUME NEW s \in {"user", "store"}, NEW a \in Access, NEW b \in BOOLEAN, Goes(k, s, a, b)
        PROVE  /\ \A j \in Keys \ {k} : flights'[j] = flights[j]
               /\ flights'[k] \in Flight /\ flights'[k].waiters = flights[k].waiters
               /\ pc' = pc /\ failing' = failing
    BY <1>0, <1>4, ContinueKeeps DEF Goes
  <1>5. ASSUME NEW a, Deliver(k, a), failing' = failing
        PROVE  /\ \A j \in Keys \ {k} : flights'[j] = flights[j]
               /\ flights'[k] = None
               /\ \A c \in Callers : IF c \in flights[k].waiters THEN pc'[c] \in {"probe", "result"}
                                     ELSE pc'[c] = pc[c]
               /\ \A c \in Callers : failing[c] => failing'[c]
    <2>1. /\ flights' = [flights EXCEPT ![k] = None]
          /\ pc' = [c \in Callers |->
                      IF c \notin flights[k].waiters THEN pc[c]
                      ELSE IF k = "fetch" THEN AfterLookup(a, op[c]) ELSE "result"]
      BY <1>5, Zenon DEF Deliver
    <2>2. \A o : AfterLookup(a, o) \in {"probe", "result"}
      BY DEF AfterLookup
    <2>3. flights'[k] = None /\ \A j \in Keys \ {k} : flights'[j] = flights[j]
      BY <1>0, <2>1, Zenon
    <2>4. QED
      BY <1>5, <2>1, <2>2, <2>3
  <1>6. CASE k = "fetch" /\ (FetchRepo \/ FetchUser)
    <2>1. PICK s \in {"user", "store"}, a \in Access, b \in BOOLEAN : Goes(k, s, a, b)
      BY <1>6, FetchGoes
    <2>2. QED
      BY <1>1, <1>2, <1>4, <2>1
  <1>7. CASE (k = "fetch" /\ FetchEnds) \/ (k \in Ops /\ (ProbeKnown(k) \/ ProbeEnds(k)))
    <2>1. failing' = failing /\ \E a : Deliver(k, a)
      BY <1>7, Zenon DEF FetchEnds, ProbeKnown, ProbeEnds
    <2>2. QED
      BY <1>1, <1>2, <1>5, <2>1
  <1>8. CASE k \in Ops /\ (ProbeStarts(k) \/ ProbeCalls(k))
    <2>1. k \in Ops /\ flights[k].acc \in Access /\ grant \in Grants
      BY <1>8, <1>1 DEF IInv, Knowing, ProbeOK, TypeOK
    <2>2. NoAccess \in Access /\ withProbe(flights[k].acc, k, Outcome(grant, k)) \in Access
      BY <2>1, Accesses
    <2>3. UNCHANGED <<pc, op, acc, failing>>
      BY <1>8, Zenon DEF ProbeStarts, ProbeCalls, callerVars
    <2>4. PICK s \in {"user", "store"}, a \in Access, b \in BOOLEAN : Continue(k, s, a, b)
      <3>1. TRUE \in BOOLEAN /\ FALSE \in BOOLEAN /\ "user" \in {"user", "store"} /\ "store" \in {"user", "store"}
        OBVIOUS
      <3>2. QED
        BY <1>8, <2>1, <2>2, <3>1, Zenon DEF ProbeStarts, ProbeCalls
    <2>5. QED
      BY <1>1, <1>2, <1>4, <2>3, <2>4, Zenon DEF Goes
  <1>9. QED
    BY <1>3, <1>6, <1>7, <1>8, Zenon DEF Lookup

\* Nobody is forgotten when a lookup goes on or ends.
LEMMA LookupWaits ==
  ASSUME IInv, NEW k \in Keys, Lookup(k)
  PROVE  Waiting' /\ ErrorsFromGitHub'
  <1>1. /\ flights[k] # None /\ op' = op
        /\ \A j \in Keys \ {k} : flights'[j] = flights[j]
        /\ \/ /\ flights'[k] \in Flight /\ flights'[k].waiters = flights[k].waiters
              /\ pc' = pc /\ failing' = failing
           \/ /\ flights'[k] = None
              /\ \A c \in Callers :
                    IF c \in flights[k].waiters
                    THEN pc'[c] \in {"probe", "result"} \/ (pc'[c] = "error" /\ failing'[c])
                    ELSE pc'[c] = pc[c]
              /\ \A c \in Callers : failing[c] => failing'[c]
    BY LookupShape
  <1>2. Waiting /\ ErrorsFromGitHub
    BY DEF IInv, Knowing
  <1>3. ErrorsFromGitHub'
    <2> SUFFICES ASSUME NEW c \in Callers, pc'[c] = "error" PROVE failing'[c]
      BY Zenon DEF ErrorsFromGitHub
    <2>1. pc[c] = "error" => failing[c]
      BY <1>2, Zenon DEF ErrorsFromGitHub
    <2>2. "error" \notin {"probe", "result"}
      OBVIOUS
    <2>3. QED
      BY <1>1, <2>1, <2>2, Zenon
  <1>4. Waiting'
    <2> SUFFICES ASSUME NEW d \in Callers, NEW j \in Keys
                 PROVE  /\ WaitsFor(pc'[d], op'[d], j) => flights'[j] # None
                        /\ flights'[j] # None => (d \in flights'[j].waiters <=> WaitsFor(pc'[d], op'[d], j))
      BY Zenon DEF Waiting
    <2>1. /\ WaitsFor(pc[d], op[d], j) => flights[j] # None
          /\ flights[j] # None => (d \in flights[j].waiters <=> WaitsFor(pc[d], op[d], j))
          /\ d \in flights[k].waiters <=> WaitsFor(pc[d], op[d], k)
      BY <1>1, <1>2, Zenon DEF Waiting
    <2>2. CASE flights'[k] \in Flight /\ flights'[k].waiters = flights[k].waiters /\ pc' = pc
      <3>1. flights'[k] # None
        BY <2>2, NoneAssumption, Zenon
      <3>2. QED
        BY <1>1, <2>1, <2>2, <3>1, Zenon
    <2>3. CASE /\ flights'[k] = None
               /\ IF d \in flights[k].waiters THEN pc'[d] \in {"probe", "result", "error"} ELSE pc'[d] = pc[d]
      <3>1. CASE d \in flights[k].waiters
        <4>1. ~WaitsFor(pc'[d], op'[d], j)
          BY <2>3, <3>1 DEF WaitsFor
        <4>2. j # k => ~WaitsFor(pc[d], op[d], j)
          BY <2>1, <3>1 DEF WaitsFor, Keys, Ops
        <4>3. QED
          BY <1>1, <2>1, <2>3, <4>1, <4>2, Zenon
      <3>2. CASE d \notin flights[k].waiters
        BY <1>1, <2>1, <2>3, <3>2, Zenon
      <3>3. QED
        BY <3>1, <3>2
    <2>4. QED
      BY <1>1, <2>2, <2>3
  <1>5. QED
    BY <1>3, <1>4

\* Nor when time passes, or GitHub or the cache changes.
LEMMA WorldWaits ==
  ASSUME TypeOK, Waiting, ErrorsFromGitHub, Sweep \/ GrantChanges \/ Tick
  PROVE  Waiting' /\ ErrorsFromGitHub'
  <1>1. UNCHANGED <<pc, op, failing>>
    BY Zenon DEF Sweep, GrantChanges, Tick, callerVars
  <1>2. CASE flights' = flights
    BY <1>1, <1>2, Zenon DEF Waiting, ErrorsFromGitHub
  <1>3. CASE Tick
    <2> DEFINE later(f) == [f EXCEPT !.age = @ + 1]
    <2>1. flights' = [k \in Keys |-> IF flights[k] = None THEN None ELSE later(flights[k])]
      BY <1>3, Zenon DEF Tick
    <2>2. \A f \in Flight : later(f) \in Flight /\ later(f).waiters = f.waiters
      BY DEF Flight
    <2> HIDE DEF later
    <2>3. \A k \in Keys : flights[k] # None =>
             flights[k] \in Flight /\ flights'[k] # None /\ flights'[k].waiters = flights[k].waiters
      BY <2>1, <2>2, NoneAssumption DEF TypeOK
    <2>4. \A k \in Keys : flights[k] = None => flights'[k] = None
      BY <2>1, Zenon
    <2>5. QED
      BY <1>1, <2>3, <2>4, Zenon DEF Waiting, ErrorsFromGitHub
  <1>4. QED
    BY <1>2, <1>3, Zenon DEF Sweep, GrantChanges

\* A caller gets no error from itself or from another.
LEMMA CallerErrors ==
  ASSUME TypeOK, ErrorsFromGitHub, NEW c \in Callers, Authenticate(c) \/ Leave(c)
  PROVE  ErrorsFromGitHub'
  <1>1. pc \in [Callers -> Steps] /\ failing \in [Callers -> BOOLEAN]
    BY DEF TypeOK
  <1>2. /\ \A d \in Callers \ {c} : pc'[d] = pc[d] /\ failing'[d] = failing[d]
        /\ pc'[c] # "error"
    BY <1>1, Zenon DEF Authenticate, LookupHit, LookupMiss, ShareFetch, ShareProbe, Return, Leave, AfterLookup
  <1>3. QED
    BY <1>2, Zenon DEF ErrorsFromGitHub

\* Every step keeps callers and lookups together, and errors to GitHub's.
LEMMA WaitingStep == IInv /\ [Next]_vars => Waiting' /\ ErrorsFromGitHub'
  <1>1. IInv /\ UNCHANGED vars => Waiting' /\ ErrorsFromGitHub'
    BY Zenon DEF IInv, Knowing, Waiting, ErrorsFromGitHub, vars
  <1>2. IInv => TypeOK /\ Waiting /\ ErrorsFromGitHub
    BY DEF IInv, Knowing
  <1>3. QED
    BY <1>1, <1>2, CallerWaits, CallerErrors, LookupWaits, WorldWaits, Zenon DEF Next

-----------------------------------------------------------------------------
(* How old what is known may be *)

\* The accesses that fetchAccess makes are what GitHub said.
LEMMA SaidNow ==
  ASSUME NEW R, NEW g \in R
  PROVE  /\ Said(NoAccess, R)
         /\ ~g.valid => Rejected(NoAccess, R)
         /\ ~g.visible \/ ~g.perms \/ ~g.user => Said(Known, R) /\ Rejected(Known, R)
         /\ g.valid /\ g.visible /\ g.perms => Said(Granted(g), R) /\ Rejected(Granted(g), R)
  <1>1. Said(NoAccess, R) /\ (~g.valid => Rejected(NoAccess, R))
    BY DEF Said, Rejected, NoAccess, Probed
  <1>2. ASSUME ~g.visible \/ ~g.perms \/ ~g.user PROVE Said(Known, R) /\ Rejected(Known, R)
    BY <1>2, ZenonT(30) DEF Said, Rejected, Known, NoAccess, Probed
  <1>3. ASSUME g.valid, g.visible, g.perms PROVE Said(Granted(g), R) /\ Rejected(Granted(g), R)
    BY <1>3 DEF Said, Rejected, Granted, Probed
  <1>4. QED
    BY <1>1, <1>2, <1>3, Zenon

\* access{} was said by anyone.
LEMMA SaidNothing == \A R : Said(NoAccess, R)
  BY DEF Said, NoAccess, Probed

\* So is an access with the outcome of a probe.
LEMMA SaidProbed ==
  ASSUME NEW R, NEW a \in Access, Said(a, R), NEW o \in Ops, NEW x,
         \E g \in R : Outcome(g, o) = x
  PROVE  /\ Said(withProbe(a, o, x), R)
         /\ withProbe(a, o, x).authenticated = a.authenticated
         /\ Probed(withProbe(a, o, x), o) = x
  <1> DEFINE b == withProbe(a, o, x)
  <1>1. /\ b.authenticated = a.authenticated /\ b.private = a.private /\ b.pull = a.pull
        /\ b.push = a.push /\ b.maintainer = a.maintainer
        /\ b.read = (IF o = "download" THEN x ELSE a.read)
        /\ b.write = (IF o = "download" THEN a.write ELSE x)
    BY DEF withProbe, Access
  <1> HIDE DEF b
  <1>2. \A q \in Ops : Probed(b, q) = IF q = o THEN x ELSE Probed(a, q)
    BY <1>1 DEF Probed, Ops
  <1>3. Said(b, R)
    BY <1>1, <1>2, Zenon DEF Said
  <1>4. QED
    BY <1>1, <1>2, <1>3 DEF b

\* Whoever has a role has authenticated.
LEMMA ProbersKnown ==
  ASSUME NEW a, NEW R, Said(a, R), NEW o, needsProbe(a, o)
  PROVE  a.authenticated
  BY DEF Said, needsProbe

\* An access with the outcome of a probe, or none, needs no probe.
LEMMA NoProbe ==
  /\ \A o : ~needsProbe(NoAccess, o)
  /\ \A a, o, g : Probed(a, o) = Outcome(g, o) => ~needsProbe(a, o)
  BY DEF needsProbe, NoAccess, Probed, Outcome

\* While GitHub says the same, a lookup whose waiters or owner change is what it was.
LEMMA SameFlight ==
  ASSUME NEW r, NEW l, NEW m, m = 0 => l = 0, NEW f \in Flight, NEW f2 \in Flight, f # None,
         f2.acc = f.acc, f2.step = f.step, f2.keep = f.keep, f2.age = f.age
  PROVE  /\ FetchOK(f, r) => FetchOK(f2, r)
         /\ \A o : ProbeOK(o, f, r, l) => ProbeOK(o, f2, r, m)
  <1>1. FetchOK(f, r) => FetchOK(f2, r)
    BY Zenon DEF FetchOK
  <1>2. ASSUME NEW o, ProbeOK(o, f, r, l) PROVE ProbeOK(o, f2, r, m)
    BY <1>2, Zenon DEF ProbeOK
  <1>3. QED
    BY <1>1, <1>2, Zenon

\* Callers keep what the lookups hold to what GitHub said.
LEMMA CallerFlights ==
  ASSUME IInv, NEW c \in Callers, Authenticate(c) \/ Leave(c)
  PROVE  /\ FetchOK(flights'["fetch"], Heard)
         /\ \A o \in Ops : ProbeOK(o, flights'[o], Heard, leaves')
         /\ leaves' = 0 => leaves = 0
  <1>0. /\ TypeOK /\ Waiting /\ FetchOK(flights["fetch"], Heard)
        /\ \A o \in Ops : ProbeOK(o, flights[o], Heard, leaves)
        /\ CallerOK(pc[c], op[c], acc[c], Heard, leaves)
    BY DEF IInv, Knowing
  <1>1. /\ flights \in [Keys -> Flight \cup {None}] /\ leaves \in Nat
        /\ "fetch" \in Keys /\ Ops \subseteq Keys /\ "fetch" \notin Ops
        /\ acc \in [Callers -> Access]
    BY <1>0 DEF TypeOK, Keys, Ops
  <1>2. leaves' = 0 => leaves = 0
    BY <1>1 DEF Authenticate, LookupHit, LookupMiss, ShareFetch, ShareProbe, Return, Leave
  <1>3. ASSUME NEW o \in Ops PROVE ProbeOK(o, flights[o], Heard, leaves')
    <2>1. CASE flights[o] = None
      BY <2>1 DEF ProbeOK
    <2>2. CASE flights[o] # None
      <3>1. flights[o] \in Flight
        BY <1>1, <2>2, Zenon
      <3>2. QED
        BY <1>0, <1>2, <2>2, <3>1, SameFlight, Zenon
    <2>3. QED
      BY <2>1, <2>2, Zenon
  <1>4. CASE flights' = flights
    BY <1>0, <1>2, <1>3, <1>4, Zenon
  <1>5. CASE ShareFetch(c)
    <2>1. share(c, "fetch", None) /\ leaves' = leaves
      BY <1>5 DEF ShareFetch
    <2>2. PICK f2 \in Flight :
            /\ flights' = [flights EXCEPT !["fetch"] = f2]
            /\ \/ /\ flights["fetch"] \in Flight /\ flights["fetch"] # None
                  /\ f2.step = flights["fetch"].step /\ f2.acc = flights["fetch"].acc
                  /\ f2.keep = flights["fetch"].keep /\ f2.age = flights["fetch"].age
               \/ f2.step = "new" /\ f2.age = 0
      BY <1>0, <1>1, <2>1, ShareLookup
    <2>3. flights'["fetch"] = f2 /\ \A o \in Ops : flights'[o] = flights[o]
      BY <1>1, <2>2, Zenon
    <2>4. FetchOK(f2, Heard)
      <3>1. CASE f2.step = "new" /\ f2.age = 0
        BY <3>1, TimesAssumption, SMTT(30) DEF FetchOK
      <3>2. QED
        BY <1>0, <2>2, <3>1, SameFlight, Zenon
    <2>5. QED
      BY <1>2, <1>3, <2>3, <2>4, Zenon
  <1>6. CASE ShareProbe(c)
    <2>1. share(c, op[c], acc[c]) /\ leaves' = leaves /\ pc[c] = "probe"
      BY <1>6 DEF ShareProbe
    <2>2. op[c] \in Ops /\ Said(acc[c], Heard[TTL + MaxFlight]) /\ needsProbe(acc[c], op[c])
      BY <1>0, <2>1 DEF CallerOK
    <2>3. acc[c].authenticated /\ acc[c] \in Access
      BY <1>1, <2>2, ProbersKnown, Zenon
    <2>4. PICK f2 \in Flight :
            /\ flights' = [flights EXCEPT ![op[c]] = f2]
            /\ \/ /\ flights[op[c]] \in Flight /\ flights[op[c]] # None
                  /\ f2.step = flights[op[c]].step /\ f2.acc = flights[op[c]].acc
                  /\ f2.keep = flights[op[c]].keep /\ f2.age = flights[op[c]].age
               \/ f2.step = "new" /\ f2.age = 0 /\ f2.acc = acc[c]
      BY <1>0, <1>1, <2>1, <2>2, <2>3, ShareLookup
    <2>5. flights'[op[c]] = f2 /\ \A k \in Keys : k # op[c] => flights'[k] = flights[k]
      BY <1>1, <2>2, <2>4, Zenon
    <2>6. ProbeOK(op[c], f2, Heard, leaves')
      <3>1. CASE f2.step = "new" /\ f2.age = 0 /\ f2.acc = acc[c]
        <4>1. TTL + MaxFlight + f2.age = TTL + MaxFlight /\ f2.age <= MaxFlight
          BY <3>1, TimesAssumption
        <4>2. QED
          BY <2>2, <2>3, <3>1, <4>1 DEF ProbeOK
      <3>2. QED
        BY <1>0, <1>2, <2>2, <2>4, <3>1, SameFlight, Zenon
    <2>7. QED
      BY <1>0, <1>1, <1>2, <1>3, <2>2, <2>5, <2>6, Zenon
  <1>7. CASE Leave(c)
    <2>1. op[c] \in Ops /\ leaves' # 0
      BY <1>0, <1>1, <1>7, SMTT(30) DEF Leave, CallerOK
    <2>2. PICK k \in Keys, f2 \in Flight :
            /\ flights[k] \in Flight /\ flights[k] # None
            /\ flights' = [flights EXCEPT ![k] = f2]
            /\ f2.step = flights[k].step /\ f2.keep = flights[k].keep /\ f2.age = flights[k].age
            /\ f2.acc = flights[k].acc \/ (f2.acc = NoAccess /\ f2.step = "new" /\ k # "fetch")
      BY <1>0, <1>7, <2>1, LeaveLookup, Zenon
    <2>3. flights'[k] = f2 /\ \A j \in Keys : j # k => flights'[j] = flights[j]
      BY <1>1, <2>2, Zenon
    <2>4. CASE f2.acc = flights[k].acc
      BY <1>0, <1>1, <1>2, <1>3, <2>2, <2>3, <2>4, SameFlight, Zenon
    <2>5. CASE f2.acc = NoAccess /\ f2.step = "new" /\ k # "fetch"
      <3>1. k \in Ops
        BY <2>5, Zenon DEF Keys
      <3>2. f2.age <= MaxFlight
        BY <1>0, <2>2, <3>1 DEF ProbeOK
      <3>3. NoAccess \in Access /\ Said(NoAccess, Heard[TTL + MaxFlight + f2.age])
        BY Accesses, SaidNothing
      <3>4. ProbeOK(k, f2, Heard, leaves')
        BY <2>1, <2>5, <3>2, <3>3 DEF ProbeOK
      <3>5. QED
        BY <1>0, <1>1, <1>2, <1>3, <2>3, <3>1, <3>4, Zenon
    <2>6. QED
      BY <2>2, <2>4, <2>5, Zenon
  <1>8. QED
    BY <1>4, <1>5, <1>6, <1>7, Zenon DEF Authenticate, LookupHit, LookupMiss, Return

\* The times that occur, and what was heard within them.
LEMMA Times ==
  ASSUME TypeOK
  PROVE  /\ MaxFlight \in Nat /\ TTL \in Nat /\ ITTL \in Nat /\ ITTL <= TTL
         /\ Heard[MaxFlight] \subseteq Heard[TTL + MaxFlight]
         /\ Heard[MaxFlight] \subseteq Heard[ITTL + MaxFlight]
         /\ Heard[TTL + MaxFlight] \subseteq Heard[Bound]
         /\ \A i \in Nat : /\ i <= MaxFlight => Heard[i] \subseteq Heard[MaxFlight]
                           /\ i <= TTL + MaxFlight => Heard[i] \subseteq Heard[TTL + MaxFlight]
                           /\ i <= ITTL + MaxFlight => Heard[i] \subseteq Heard[ITTL + MaxFlight]
                           /\ i <= Bound => Heard[i] \subseteq Heard[Bound]
  <1>1. /\ MaxFlight \in Nat /\ TTL \in Nat /\ ITTL \in Nat /\ ITTL <= TTL
        /\ TTL + MaxFlight \in Nat /\ ITTL + MaxFlight \in Nat /\ Bound \in Nat
        /\ MaxFlight <= TTL + MaxFlight /\ MaxFlight <= ITTL + MaxFlight /\ TTL + MaxFlight <= Bound
    BY TimesAssumption DEF ITTL, Bound
  <1>2. \A i, j \in Nat : i <= j => Heard[i] \subseteq Heard[j]
    BY HeardLonger
  <1>3. QED
    BY <1>1, <1>2, Zenon

\* What the cache answers was said within its TTL and the time of a lookup.
LEMMA CachedKnown ==
  ASSUME IInv, Cached
  PROVE  /\ cache.acc \in Access /\ Said(cache.acc, Heard[TTL + MaxFlight])
         /\ leaves = 0 => Rejected(cache.acc, Heard[ITTL + MaxFlight])
  <1>1. TypeOK /\ EntryOK(cache, Heard, leaves)
    BY DEF IInv, Knowing
  <1>2. cache \in [acc : Access, left : Int] /\ cache # None /\ cache.left >= 0
    BY <1>1 DEF Cached, TypeOK
  <1> DEFINE n == cache.left
             i == TTL - n + MaxFlight
             j == ITTL - n + MaxFlight
  <1>3. /\ n <= TTL /\ Said(cache.acc, Heard[i])
        /\ ~cache.acc.authenticated => n <= ITTL /\ (leaves = 0 => Rejected(cache.acc, Heard[j]))
    BY <1>1, <1>2, Zenon DEF EntryOK
  <1>4. n \in Nat
    BY <1>2
  <1>5. i \in Nat /\ i <= TTL + MaxFlight
    BY <1>1, <1>3, <1>4, Times
  <1>6. Said(cache.acc, Heard[TTL + MaxFlight])
    <2> HIDE DEF i
    <2>1. Heard[i] \subseteq Heard[TTL + MaxFlight]
      BY <1>1, <1>5, Times, Zenon
    <2>2. QED
      BY <1>3, <2>1, SaidMore, Zenon
  <1>7. ASSUME leaves = 0 PROVE Rejected(cache.acc, Heard[ITTL + MaxFlight])
    <2>1. CASE cache.acc.authenticated
      BY <2>1 DEF Rejected
    <2>2. CASE ~cache.acc.authenticated
      <3>1. n <= ITTL /\ Rejected(cache.acc, Heard[j])
        BY <1>3, <1>7, <2>2, Zenon
      <3>2. j \in Nat /\ j <= ITTL + MaxFlight
        BY <1>1, <1>4, <3>1, Times
      <3> HIDE DEF j, n
      <3>3. Heard[j] \subseteq Heard[ITTL + MaxFlight]
        BY <1>1, <3>2, Times, Zenon
      <3>4. QED
        BY <3>1, <3>3, SaidMore, Zenon
    <2>3. QED
      BY <2>1, <2>2, Zenon
  <1>8. QED
    BY <1>2, <1>6, <1>7, Zenon

\* A caller with such an access goes on with it, or has its result.
LEMMA AfterOK ==
  ASSUME TypeOK, NEW a, NEW l, Said(a, Heard[TTL + MaxFlight]), l = 0 => Rejected(a, Heard[ITTL + MaxFlight]),
         NEW o \in Ops
  PROVE  /\ CallerOK(AfterLookup(a, o), o, a, Heard, l)
         /\ ~needsProbe(a, o) => CallerOK("result", o, a, Heard, l)
  <1>1. Said(a, Heard[Bound])
    BY Times, SaidMore, Zenon
  <1>2. QED
    BY <1>1 DEF CallerOK, AfterLookup

\* The cache and the other callers are left alone by a caller.
LEMMA CallerKnows ==
  ASSUME IInv, NEW c \in Callers, Authenticate(c) \/ Leave(c)
  PROVE  /\ EntryOK(cache', Heard, leaves')
         /\ \A d \in Callers : CallerOK(pc'[d], op'[d], acc'[d], Heard, leaves')
  <1>0. /\ TypeOK /\ EntryOK(cache, Heard, leaves)
        /\ \A d \in Callers : CallerOK(pc[d], op[d], acc[d], Heard, leaves)
    BY DEF IInv, Knowing
  <1>1. /\ pc \in [Callers -> Steps] /\ op \in [Callers -> Ops \cup {None}] /\ acc \in [Callers -> Access]
        /\ cache \in [acc : Access, left : Int] \cup {None}
    BY <1>0 DEF TypeOK
  <1>2. Grows(Heard, Heard, 0)
    BY DEF Grows
  <1>3. leaves' = 0 => leaves = 0
    BY CallerFlights
  <1>4. EntryOK(cache', Heard, leaves')
    <2>1. cache' = None \/ cache' = cache
      BY Zenon DEF Authenticate, LookupHit, LookupMiss, ShareFetch, ShareProbe, Return, Leave
    <2>2. EntryOK(None, Heard, leaves')
      BY DEF EntryOK
    <2>3. EntryOK(cache, Heard, leaves')
      BY <1>0, <1>3, Zenon DEF EntryOK
    <2>4. QED
      BY <2>1, <2>2, <2>3, Zenon
  <1>5. ASSUME NEW d \in Callers PROVE CallerOK(pc[d], op[d], acc[d], Heard, leaves')
    BY <1>0, <1>2, <1>3, CallerStays, Zenon
  <1>6. \A d \in Callers \ {c} : pc'[d] = pc[d] /\ op'[d] = op[d] /\ acc'[d] = acc[d]
    BY <1>1, Zenon DEF Authenticate, LookupHit, LookupMiss, ShareFetch, ShareProbe, Return, Leave
  <1>7. CallerOK(pc'[c], op'[c], acc'[c], Heard, leaves')
    <2>1. CASE LookupHit(c)
      <3>1. PICK o \in Ops : /\ op'[c] = o /\ acc'[c] = cache.acc /\ pc'[c] = AfterLookup(cache.acc, o)
                             /\ leaves' = leaves /\ Cached
        BY <1>1, <2>1 DEF LookupHit
      <3>2. QED
        BY <1>0, <3>1, CachedKnown, AfterOK, Zenon
    <2>2. CASE LookupMiss(c) \/ ShareFetch(c) \/ ShareProbe(c)
      <3>1. pc'[c] \in {"miss", "fetching", "probing"}
        BY <1>1, <2>2 DEF LookupMiss, ShareFetch, ShareProbe
      <3>2. op'[c] \in Ops
        <4>1. pc[c] # "idle" => op[c] \in Ops
          BY <1>0, Zenon DEF CallerOK
        <4>2. QED
          BY <1>1, <2>2, <4>1 DEF LookupMiss, ShareFetch, ShareProbe
      <3>3. QED
        BY <3>1, <3>2 DEF CallerOK
    <2>3. CASE Return(c) \/ Leave(c)
      <3>1. pc'[c] = "idle"
        BY <1>1, <2>3 DEF Return, Leave
      <3>2. QED
        BY <3>1 DEF CallerOK
    <2>4. QED
      BY <2>1, <2>2, <2>3, Zenon DEF Authenticate
  <1>8. QED
    BY <1>4, <1>5, <1>6, <1>7, Zenon

\* What is stored in the cache was said within the time of a lookup.
LEMMA StoreKnows ==
  ASSUME IInv, NEW a \in Access, cacheStoreIfEnabled(a), Said(a, Heard[MaxFlight]),
         leaves = 0 => Rejected(a, Heard[MaxFlight])
  PROVE  EntryOK(cache', Heard, leaves)
  <1> DEFINE ttl == IF a.authenticated \/ TTL < InvalidTTL THEN TTL ELSE InvalidTTL
             e == [acc |-> a, left |-> ttl]
  <1>1. TypeOK /\ EntryOK(cache, Heard, leaves)
    BY DEF IInv, Knowing
  <1>2. cache' = cache \/ cache' = e
    BY Zenon DEF cacheStoreIfEnabled
  <1>3. ttl \in Nat /\ ttl <= TTL /\ (~a.authenticated => ttl = ITTL)
    BY TimesAssumption DEF ITTL
  <1>4. e.acc = a /\ e.left = ttl
    OBVIOUS
  <1> HIDE DEF e, ttl
  <1>5. TTL - ttl + MaxFlight \in Nat /\ MaxFlight <= TTL - ttl + MaxFlight /\ ITTL - ITTL + MaxFlight = MaxFlight
    BY <1>1, <1>3, Times
  <1>6. Said(a, Heard[TTL - ttl + MaxFlight])
    <2>1. Heard[MaxFlight] \subseteq Heard[TTL - ttl + MaxFlight]
      BY <1>1, <1>5, Times, HeardLonger, Zenon
    <2>2. QED
      BY <2>1, SaidMore, Zenon
  <1>7. ~a.authenticated => ttl <= ITTL /\ (leaves = 0 => Rejected(a, Heard[ITTL - ttl + MaxFlight]))
    <2>1. ITTL <= ITTL
      BY <1>1, Times
    <2>2. QED
      BY <1>3, <1>5, <2>1, Zenon
  <1>8. EntryOK(e, Heard, leaves)
    BY <1>3, <1>4, <1>6, <1>7, Zenon DEF EntryOK
  <1>9. QED
    BY <1>1, <1>2, <1>8, Zenon

\* What a lookup hands over, its waiters may go on with.
LEMMA DeliverKnows ==
  ASSUME IInv, NEW k \in Keys, flights[k] # None, NEW a \in Access, Deliver(k, a), op' = op,
         k = "fetch" => Said(a, Heard[TTL + MaxFlight]),
         k # "fetch" => Said(a, Heard[Bound]) /\ ~needsProbe(a, k),
         leaves = 0 => Rejected(a, Heard[ITTL + MaxFlight]),
         NEW d \in Callers
  PROVE  CallerOK(pc'[d], op'[d], acc'[d], Heard, leaves)
  <1>0. TypeOK /\ Waiting /\ CallerOK(pc[d], op[d], acc[d], Heard, leaves)
    BY DEF IInv, Knowing
  <1>1. /\ acc'[d] = IF d \in flights[k].waiters THEN a ELSE acc[d]
        /\ pc'[d] = IF d \notin flights[k].waiters THEN pc[d]
                    ELSE IF k = "fetch" THEN AfterLookup(a, op[d]) ELSE "result"
    BY Zenon DEF Deliver
  <1>2. CASE d \notin flights[k].waiters
    BY <1>0, <1>1, <1>2, Zenon
  <1>3. CASE d \in flights[k].waiters
    <2>1. WaitsFor(pc[d], op[d], k)
      BY <1>0, <1>3, Zenon DEF Waiting
    <2>2. op[d] \in Ops /\ (k # "fetch" => op[d] = k)
      BY <1>0, <2>1, Zenon DEF WaitsFor, CallerOK
    <2>3. CASE k = "fetch"
      BY <1>0, <1>1, <1>3, <2>2, <2>3, AfterOK, Zenon
    <2>4. CASE k # "fetch"
      BY <1>1, <1>3, <2>2, <2>4 DEF CallerOK
    <2>5. QED
      BY <2>3, <2>4, Zenon
  <1>4. QED
    BY <1>2, <1>3, Zenon

\* The lookup of the role keeps to what GitHub said.
LEMMA FetchKnows ==
  ASSUME IInv, FetchRepo \/ FetchUser
  PROVE  FetchOK(flights'["fetch"], Heard)
  <1>0. TypeOK /\ FetchOK(flights["fetch"], Heard) /\ "fetch" \in Keys
    BY DEF IInv, Knowing, Keys
  <1>1. PICK s \in {"user", "store"}, a \in Access, b \in BOOLEAN :
           /\ flights["fetch"] # None /\ Goes("fetch", s, a, b)
           /\ \/ a = NoAccess /\ ~grant.valid
              \/ a = Known /\ (~grant.visible \/ ~grant.perms \/ ~grant.user)
              \/ a = Granted(grant) /\ grant.valid /\ grant.visible /\ grant.perms
              \/ a = flights["fetch"].acc /\ flights["fetch"].step # "new"
    BY FetchGoes
  <1>2. /\ flights'["fetch"].acc = a /\ flights'["fetch"].age = flights["fetch"].age
        /\ flights'["fetch"] \in Flight
    BY <1>0, <1>1, ContinueKeeps, SMTT(30) DEF Goes
  <1> DEFINE n == flights["fetch"].age
  <1>3. n \in Nat /\ n <= MaxFlight
    BY <1>0, <1>1 DEF TypeOK, FetchOK, Flight
  <1>4. grant \in Heard[n]
    BY <1>3, HeardLonger, Zenon
  <1>5. Said(a, Heard[n]) /\ Rejected(a, Heard[n])
    <2>1. CASE a = flights["fetch"].acc /\ flights["fetch"].step # "new"
      BY <1>0, <1>1, <2>1, Zenon DEF FetchOK
    <2> HIDE DEF n
    <2>2. QED
      BY <1>1, <1>4, <2>1, SaidNow, Zenon
  <1>6. QED
    BY <1>2, <1>3, <1>5, Zenon DEF FetchOK

\* So does a probe.
LEMMA ProbeKnows ==
  ASSUME IInv, NEW o \in Ops, ProbeStarts(o) \/ ProbeCalls(o)
  PROVE  ProbeOK(o, flights'[o], Heard, leaves)
  <1>0. TypeOK /\ ProbeOK(o, flights[o], Heard, leaves) /\ o \in Keys /\ grant \in Grants
    BY Zenon DEF IInv, Knowing, Keys, TypeOK
  <1>1. flights[o] # None /\ flights[o].step # "store"
    BY ZenonT(30) DEF ProbeStarts, ProbeCalls
  <1> DEFINE f == flights[o]
             n == f.age
             i == TTL + MaxFlight + n
  <1>2. f \in Flight /\ n \in Nat
    BY <1>0, <1>1 DEF TypeOK, Flight
  <1>3. n <= MaxFlight /\ f.acc \in Access /\ Said(f.acc, Heard[i]) /\ (leaves = 0 => f.acc.authenticated)
    BY <1>0, <1>1, Zenon DEF ProbeOK
  <1>4. i \in Nat
    BY <1>2, TimesAssumption
  <1>5. grant \in Heard[n] /\ grant \in Heard[i]
    BY <1>2, <1>4, HeardLonger, Zenon
  <1>6. ASSUME NEW s \in {"user", "store"}, NEW a \in Access, NEW b \in BOOLEAN, Continue(o, s, a, b)
        PROVE  /\ flights'[o].acc = a /\ flights'[o].step = s /\ flights'[o].keep = b
               /\ flights'[o].age = n
    BY <1>0, <1>1, <1>6, ContinueKeeps, Zenon
  <1>7. CASE ProbeStarts(o)
    <2>1. Continue(o, "user", f.acc, FALSE)
      BY <1>7, ZenonT(30) DEF ProbeStarts
    <2>2. /\ flights'[o].acc = f.acc /\ flights'[o].step = "user" /\ flights'[o].age = n
      BY <1>3, <1>6, <2>1, ZenonT(30)
    <2>3. QED
      BY <1>3, <2>2 DEF ProbeOK
  <1>8. CASE ProbeCalls(o) /\ ~grant.valid
    <2>1. Continue(o, "store", NoAccess, TRUE)
      BY <1>8, ZenonT(30) DEF ProbeCalls
    <2>2. NoAccess \in Access /\ Said(NoAccess, Heard[i]) /\ Rejected(NoAccess, Heard[n])
      BY <1>5, <1>8, Accesses, SaidNow, SaidNothing, Zenon
    <2>3. /\ flights'[o].acc = NoAccess /\ flights'[o].step = "store" /\ flights'[o].age = n /\ flights'[o].keep
      BY <1>6, <2>1, <2>2, ZenonT(30)
    <2>4. QED
      BY <1>3, <2>2, <2>3 DEF ProbeOK
  <1>9. CASE ProbeCalls(o) /\ grant.valid
    <2> DEFINE x == Outcome(grant, o)
               a == withProbe(f.acc, o, x)
    <2>1. Continue(o, "store", a, FALSE)
      BY <1>9, ZenonT(30) DEF ProbeCalls
    <2>2. a \in Access
      BY <1>0, <1>3, Accesses, Zenon
    <2>3. /\ flights'[o].acc = a /\ flights'[o].step = "store" /\ flights'[o].age = n
          /\ flights'[o].keep = FALSE
      BY <1>6, <2>1, <2>2, ZenonT(30)
    <2>4. \E g \in Heard[i] : Outcome(g, o) = x
      BY <1>5, Zenon
    <2> HIDE DEF x
    <2>5. Said(a, Heard[i]) /\ a.authenticated = f.acc.authenticated /\ Probed(a, o) = x
      BY <1>3, <2>4, SaidProbed
    <2> HIDE DEF a
    <2>6. leaves = 0 => Rejected(a, Heard[n])
      BY <1>3, <2>5 DEF Rejected
    <2>7. \E g \in Heard[n] : Outcome(g, o) = Probed(a, o)
      BY <1>5, <2>5 DEF x
    <2>8. QED
      BY <1>3, <2>2, <2>3, <2>5, <2>6, <2>7 DEF ProbeOK
  <1>10. QED
    BY <1>7, <1>8, <1>9, Zenon

\* The outcome of a probe is as recent as any entry it is recorded on.
LEMMA RecordKnows ==
  ASSUME IInv, NEW o \in Ops, cache # None, NEW x,
         cache' = [cache EXCEPT !.acc = withProbe(@, o, x)],
         \E g \in Heard[MaxFlight] : Outcome(g, o) = x
  PROVE  EntryOK(cache', Heard, leaves)
  <1>1. TypeOK /\ EntryOK(cache, Heard, leaves) /\ cache \in [acc : Access, left : Int]
    BY DEF IInv, Knowing, TypeOK
  <1> DEFINE a == withProbe(cache.acc, o, x)
             n == cache.left
             i == TTL - n + MaxFlight
  <1>2. cache'.acc = a /\ cache'.left = n
    BY <1>1, Zenon
  <1>3. n \in Int /\ n <= TTL /\ cache.acc \in Access
    BY <1>1 DEF EntryOK
  <1>4. a.authenticated = cache.acc.authenticated
    BY <1>3 DEF withProbe, Access
  <1>5. ASSUME n >= 0 PROVE Said(a, Heard[i])
    <2>1. i \in Nat /\ MaxFlight <= i
      BY <1>1, <1>3, <1>5, Times
    <2>2. Said(cache.acc, Heard[i])
      BY <1>1, <1>5, Zenon DEF EntryOK
    <2> HIDE DEF n, i
    <2>3. Heard[MaxFlight] \subseteq Heard[i]
      BY <1>1, <2>1, Times, HeardLonger, Zenon
    <2>4. QED
      BY <1>3, <2>2, <2>3, SaidProbed, Zenon
  <1> HIDE DEF a
  <1>6. Rejected(cache.acc, Heard[ITTL - n + MaxFlight]) => Rejected(a, Heard[ITTL - n + MaxFlight])
    BY <1>4, Zenon DEF Rejected
  <1>7. /\ n >= 0 /\ ~cache.acc.authenticated =>
              n <= ITTL /\ (leaves = 0 => Rejected(cache.acc, Heard[ITTL - n + MaxFlight]))
    BY <1>1, Zenon DEF EntryOK
  <1>8. QED
    BY <1>2, <1>3, <1>4, <1>5, <1>6, <1>7, Zenon DEF EntryOK

\* The lookup for k is over, and what it left to the cache and to its waiters
\* is what GitHub said.
Over(k) ==
    /\ flights'[k] = None
    /\ EntryOK(cache', Heard, leaves)
    /\ \A d \in Callers : CallerOK(pc'[d], op'[d], acc'[d], Heard, leaves)

\* A lookup that fails tells nothing.
LEMMA FailsKnows ==
  ASSUME IInv, NEW k \in Keys, LookupFails(k)
  PROVE  Over(k)
  <1>1. /\ flights \in [Keys -> Flight \cup {None}] /\ Waiting /\ EntryOK(cache, Heard, leaves)
        /\ \A d \in Callers : CallerOK(pc[d], op[d], acc[d], Heard, leaves)
    BY Zenon DEF IInv, Knowing, TypeOK
  <1>2. /\ UNCHANGED <<cache, op, acc>> /\ flights[k] # None /\ flights' = [flights EXCEPT ![k] = None]
        /\ pc' = [c \in Callers |-> IF c \in flights[k].waiters THEN "error" ELSE pc[c]]
    BY Zenon DEF LookupFails
  <1>3. ASSUME NEW d \in Callers PROVE CallerOK(pc'[d], op[d], acc[d], Heard, leaves)
    <2>1. CASE d \in flights[k].waiters
      <3>1. WaitsFor(pc[d], op[d], k)
        BY <1>1, <1>2, <2>1, Zenon DEF Waiting
      <3>2. op[d] \in Ops
        BY <1>1, <3>1 DEF WaitsFor, CallerOK
      <3>3. pc'[d] = "error"
        BY <1>2, <2>1, Zenon
      <3>4. QED
        BY <3>2, <3>3 DEF CallerOK
    <2>2. CASE d \notin flights[k].waiters
      <3>1. pc'[d] = pc[d]
        BY <1>2, <2>2, Zenon
      <3>2. QED
        BY <1>1, <3>1, Zenon
    <2>3. QED
      BY <2>1, <2>2, Zenon
  <1>4. flights'[k] = None
    BY <1>1, <1>2, Zenon
  <1>5. QED
    BY <1>1, <1>2, <1>3, <1>4, Zenon DEF Over

\* What a lookup of the role ends with was said while it was under way.
LEMMA FetchEndsKnows ==
  ASSUME IInv, FetchEnds
  PROVE  Over("fetch")
  <1>1. PICK a, n : a = flights["fetch"].acc /\ n = flights["fetch"].age
    OBVIOUS
  <1>2. /\ TypeOK /\ flights \in [Keys -> Flight \cup {None}] /\ "fetch" \in Keys
        /\ EntryOK(cache, Heard, leaves) /\ FetchOK(flights["fetch"], Heard)
    BY Zenon DEF IInv, Knowing, TypeOK, Keys
  <1>3. /\ flights["fetch"] # None /\ flights["fetch"].step = "store" /\ Deliver("fetch", a) /\ op' = op
        /\ cache' = cache \/ cacheStoreIfEnabled(a)
    BY <1>1, Zenon DEF FetchEnds
  <1>4. n \in Nat
    BY <1>1, <1>2, <1>3 DEF Flight
  <1>5. n <= MaxFlight /\ a \in Access /\ Said(a, Heard[n]) /\ Rejected(a, Heard[n])
    BY <1>1, <1>2, <1>3 DEF FetchOK
  <1>6. Heard[n] \subseteq Heard[MaxFlight]
    BY <1>2, <1>4, <1>5, Times, Zenon
  <1>7. Said(a, Heard[MaxFlight]) /\ Rejected(a, Heard[MaxFlight])
    BY <1>5, <1>6, SaidMore, Zenon
  <1>8. EntryOK(cache', Heard, leaves)
    BY <1>2, <1>3, <1>5, <1>7, StoreKnows, Zenon
  <1>9. Said(a, Heard[TTL + MaxFlight]) /\ Rejected(a, Heard[ITTL + MaxFlight])
    BY <1>2, <1>7, SaidMore, Times, Zenon
  <1>10. \A d \in Callers : CallerOK(pc'[d], op'[d], acc'[d], Heard, leaves)
    BY <1>2, <1>3, <1>5, <1>9, DeliverKnows, Zenon
  <1>11. flights'["fetch"] = None
    BY <1>2, <1>3 DEF Deliver
  <1>12. QED
    BY <1>8, <1>10, <1>11, Zenon DEF Over

\* A probe that finds its answer in the cache ends with what the cache knows.
LEMMA ProbeKnownKnows ==
  ASSUME IInv, NEW o \in Ops, ProbeKnown(o)
  PROVE  Over(o)
  <1>1. PICK a : a = cache.acc
    OBVIOUS
  <1>2. /\ TypeOK /\ flights \in [Keys -> Flight \cup {None}] /\ EntryOK(cache, Heard, leaves)
        /\ o \in Keys
    BY Zenon DEF IInv, Knowing, TypeOK, Keys
  <1>3. /\ flights[o] # None /\ Cached /\ ~needsProbe(a, o) /\ Deliver(o, a)
        /\ cache' = cache /\ op' = op
    BY <1>1, Zenon DEF ProbeKnown
  <1>4. /\ a \in Access /\ Said(a, Heard[TTL + MaxFlight])
        /\ leaves = 0 => Rejected(a, Heard[ITTL + MaxFlight])
    BY <1>1, <1>3, CachedKnown, Zenon
  <1>5. Said(a, Heard[Bound])
    BY <1>2, <1>4, SaidMore, Times, Zenon
  <1>6. o # "fetch"
    BY DEF Ops
  <1>7. \A d \in Callers : CallerOK(pc'[d], op'[d], acc'[d], Heard, leaves)
    BY <1>2, <1>3, <1>4, <1>5, <1>6, DeliverKnows, Zenon
  <1>8. flights'[o] = None
    BY <1>2, <1>3 DEF Deliver
  <1>9. QED
    BY <1>2, <1>3, <1>7, <1>8, Zenon DEF Over

\* What a probe ends with is what it knew when it started, and the answer.
LEMMA ProbeEndsKnows ==
  ASSUME IInv, NEW o \in Ops, ProbeEnds(o)
  PROVE  Over(o)
  <1>1. PICK a, n, b : a = flights[o].acc /\ n = flights[o].age /\ b = flights[o].keep
    OBVIOUS
  <1>2. /\ TypeOK /\ flights \in [Keys -> Flight \cup {None}] /\ o \in Keys
        /\ ProbeOK(o, flights[o], Heard, leaves)
    BY Zenon DEF IInv, Knowing, TypeOK, Keys
  <1>3. /\ flights[o] # None /\ flights[o].step = "store" /\ Deliver(o, a) /\ op' = op
        /\ IF b THEN cacheStoreIfEnabled(a)
           ELSE cache' = IF cache = None THEN None
                         ELSE [cache EXCEPT !.acc = withProbe(@, o, Probed(a, o))]
    BY <1>1, Zenon DEF ProbeEnds, Probed
  <1>4. n \in Nat
    BY <1>1, <1>2, <1>3 DEF Flight
  <1>5. /\ n <= MaxFlight /\ a \in Access /\ Said(a, Heard[TTL + MaxFlight + n])
        /\ leaves = 0 => Rejected(a, Heard[n])
        /\ IF b THEN a = NoAccess ELSE \E g \in Heard[n] : Outcome(g, o) = Probed(a, o)
    BY <1>1, <1>2, <1>3, Zenon DEF ProbeOK
  <1>6. TTL + MaxFlight + n \in Nat /\ TTL + MaxFlight + n <= Bound
    BY <1>4, <1>5, TimesAssumption DEF Bound
  <1>7. Heard[n] \subseteq Heard[MaxFlight] /\ Heard[TTL + MaxFlight + n] \subseteq Heard[Bound]
    BY <1>2, <1>4, <1>5, <1>6, Times, Zenon
  <1>8. Said(a, Heard[Bound]) /\ (leaves = 0 => Rejected(a, Heard[MaxFlight]))
    BY <1>5, <1>7, SaidMore, Zenon
  <1>9. leaves = 0 => Rejected(a, Heard[ITTL + MaxFlight])
    BY <1>2, <1>8, SaidMore, Times, Zenon
  <1>10. ~needsProbe(a, o) /\ o # "fetch"
    <2>1. ~needsProbe(a, o)
      BY <1>5, NoProbe, Zenon
    <2>2. QED
      BY <2>1 DEF Ops
  <1>11. \A d \in Callers : CallerOK(pc'[d], op'[d], acc'[d], Heard, leaves)
    BY <1>2, <1>3, <1>5, <1>8, <1>9, <1>10, DeliverKnows, Zenon
  <1>12. flights'[o] = None
    BY <1>2, <1>3 DEF Deliver
  <1>13. EntryOK(cache', Heard, leaves)
    <2>1. CASE b
      <3>1. Said(a, Heard[MaxFlight])
        BY <1>5, <2>1, SaidNothing, Zenon
      <3>2. QED
        BY <1>3, <1>5, <1>8, <2>1, <3>1, StoreKnows, Zenon
    <2>2. CASE ~b /\ cache = None
      BY <1>3, <2>2 DEF EntryOK
    <2>3. CASE ~b /\ cache # None
      <3>1. \E g \in Heard[MaxFlight] : Outcome(g, o) = Probed(a, o)
        BY <1>5, <1>7, <2>3, Zenon
      <3>2. cache' = [cache EXCEPT !.acc = withProbe(@, o, Probed(a, o))]
        BY <1>3, <2>3, Zenon
      <3>3. QED
        BY <2>3, <3>1, <3>2, RecordKnows, Zenon
    <2>4. QED
      BY <2>1, <2>2, <2>3, Zenon
  <1>14. QED
    BY <1>11, <1>12, <1>13, Zenon DEF Over

\* Every step of a lookup keeps what is known to what GitHub said.
LEMMA LookupKnows ==
  ASSUME IInv, NEW k \in Keys, Lookup(k)
  PROVE  /\ EntryOK(cache', Heard, leaves)
         /\ FetchOK(flights'["fetch"], Heard)
         /\ \A o \in Ops : ProbeOK(o, flights'[o], Heard, leaves)
         /\ \A d \in Callers : CallerOK(pc'[d], op'[d], acc'[d], Heard, leaves)
  <1>1. /\ EntryOK(cache, Heard, leaves) /\ FetchOK(flights["fetch"], Heard)
        /\ \A o \in Ops : ProbeOK(o, flights[o], Heard, leaves)
        /\ \A d \in Callers : CallerOK(pc[d], op[d], acc[d], Heard, leaves)
    BY DEF IInv, Knowing
  <1>2. \A j \in Keys \ {k} : flights'[j] = flights[j]
    BY LookupShape, Zenon
  <1>3. Keys = {"fetch"} \cup Ops /\ "fetch" \notin Ops
    BY DEF Keys, Ops
  <1>4. EntryOK(None, Heard, leaves) /\ FetchOK(None, Heard) /\ \A o : ProbeOK(o, None, Heard, leaves)
    BY Zenon DEF EntryOK, FetchOK, ProbeOK
  <1>5. CASE Over(k)
    BY <1>1, <1>2, <1>3, <1>4, <1>5, Zenon DEF Over
  <1>6. CASE k = "fetch" /\ (FetchRepo \/ FetchUser)
    <2>1. UNCHANGED <<cache, pc, op, acc>>
      BY <1>6, Zenon DEF FetchRepo, FetchUser, callerVars
    <2>2. FetchOK(flights'["fetch"], Heard)
      BY <1>6, FetchKnows, Zenon
    <2>3. QED
      BY <1>1, <1>2, <1>3, <1>6, <2>1, <2>2, Zenon
  <1>7. CASE k \in Ops /\ (ProbeStarts(k) \/ ProbeCalls(k))
    <2>1. UNCHANGED <<pc, op, acc>> /\ (cache' = cache \/ cache' = None)
      BY <1>7, Zenon DEF ProbeStarts, ProbeCalls, callerVars
    <2>2. ProbeOK(k, flights'[k], Heard, leaves)
      BY <1>7, ProbeKnows, Zenon
    <2>3. QED
      BY <1>1, <1>2, <1>3, <1>4, <1>7, <2>1, <2>2, Zenon
  <1>8. QED
    BY <1>5, <1>6, <1>7, FailsKnows, FetchEndsKnows, ProbeKnownKnows, ProbeEndsKnows, Zenon DEF Lookup

\* GitHub may change: what it said was said.
LEMMA GrantKnows ==
  ASSUME IInv, GrantChanges
  PROVE  Knowing'
  <1>0. /\ TypeOK /\ EntryOK(cache, Heard, leaves) /\ FetchOK(flights["fetch"], Heard)
        /\ \A o \in Ops : ProbeOK(o, flights[o], Heard, leaves)
        /\ \A d \in Callers : CallerOK(pc[d], op[d], acc[d], Heard, leaves)
    BY DEF IInv, Knowing
  <1>1. /\ cache \in [acc : Access, left : Int] \cup {None} /\ flights \in [Keys -> Flight \cup {None}]
        /\ "fetch" \in Keys /\ Ops \subseteq Keys
    BY <1>0, Zenon DEF TypeOK, Keys
  <1>2. PICK s : s = Heard' /\ Grows(Heard, s, 0)
    BY <1>0, HeardStep, Zenon
  <1>3. UNCHANGED <<cache, flights, pc, op, acc, leaves>>
    BY Zenon DEF GrantChanges, callerVars
  <1>4. EntryOK(cache, s, leaves)
    <2>1. CASE cache = None
      BY <2>1, Zenon DEF EntryOK
    <2>2. CASE cache # None
      <3>1. cache \in [acc : Access, left : Int]
        BY <1>1, <2>2, Zenon
      <3>2. cache.left = IF cache.left < 0 THEN cache.left ELSE cache.left - 0
        BY <3>1
      <3>3. 0 \in {0, 1}
        OBVIOUS
      <3>4. QED
        BY <1>0, <1>2, <2>2, <3>1, <3>2, <3>3, EntryAges, Zenon
    <2>3. QED
      BY <2>1, <2>2, Zenon
  <1>5. ASSUME NEW k \in Keys
        PROVE  /\ k = "fetch" => FetchOK(flights[k], s)
               /\ k \in Ops => ProbeOK(k, flights[k], s, leaves)
    <2>1. CASE flights[k] = None
      BY <2>1 DEF FetchOK, ProbeOK
    <2>2. CASE flights[k] # None
      <3>1. flights[k] \in Flight
        BY <1>1, <2>2, Zenon
      <3>2. flights[k].age \in Nat /\ flights[k].age = flights[k].age + 0 /\ 0 \in {0, 1}
        BY <3>1 DEF Flight
      <3>3. CASE k = "fetch"
        <4>1. FetchOK(flights[k], Heard)
          BY <1>0, <3>3, Zenon
        <4>2. flights[k].age <= MaxFlight
          BY <2>2, <4>1, Zenon DEF FetchOK
        <4>3. FetchOK(flights[k], s)
          BY <1>2, <2>2, <3>1, <3>2, <4>1, <4>2, FetchAges, Zenon
        <4>4. QED
          BY <3>3, <4>3, Zenon DEF Ops
      <3>4. CASE k \in Ops
        <4>1. ProbeOK(k, flights[k], Heard, leaves)
          BY <1>0, <3>4, Zenon
        <4>2. flights[k].age <= MaxFlight
          BY <2>2, <4>1, Zenon DEF ProbeOK
        <4>3. ProbeOK(k, flights[k], s, leaves)
          BY <1>2, <2>2, <3>1, <3>2, <3>4, <4>1, <4>2, ProbeAges, Zenon
        <4>4. QED
          BY <3>4, <4>3, Zenon DEF Ops
      <3>5. QED
        BY <3>3, <3>4, Zenon
    <2>3. QED
      BY <2>1, <2>2, Zenon
  <1>6. \A d \in Callers : CallerOK(pc[d], op[d], acc[d], s, leaves)
    BY <1>0, <1>2, CallerStays, Zenon
  <1>7. QED
    BY <1>1, <1>2, <1>3, <1>4, <1>5, <1>6, Zenon DEF Knowing

\* Time passes for the cache, the lookups and what GitHub said alike.
LEMMA TickKnows ==
  ASSUME IInv, Tick
  PROVE  Knowing'
  <1>0. /\ TypeOK /\ EntryOK(cache, Heard, leaves) /\ FetchOK(flights["fetch"], Heard)
        /\ \A o \in Ops : ProbeOK(o, flights[o], Heard, leaves)
        /\ \A d \in Callers : CallerOK(pc[d], op[d], acc[d], Heard, leaves)
    BY DEF IInv, Knowing
  <1>1. /\ cache \in [acc : Access, left : Int] \cup {None} /\ flights \in [Keys -> Flight \cup {None}]
        /\ "fetch" \in Keys /\ Ops \subseteq Keys
    BY <1>0 DEF TypeOK, Keys
  <1>2. PICK s : s = Heard' /\ Grows(Heard, s, 1)
    BY <1>0, HeardStep, Zenon
  <1> DEFINE later(f) == [f EXCEPT !.age = @ + 1]
             shorter(e) == [e EXCEPT !.left = IF @ < 0 THEN @ ELSE @ - 1]
  <1>3. /\ flights' = [k \in Keys |-> IF flights[k] = None THEN None ELSE later(flights[k])]
        /\ cache' = (IF cache = None THEN None ELSE shorter(cache))
        /\ \A c \in Callers : pc[c] \in {"idle", "fetching", "probing"}
        /\ \A k \in Keys : flights[k] # None => flights[k].age < MaxFlight
        /\ UNCHANGED <<pc, op, acc, leaves>>
    BY Zenon DEF Tick, callerVars
  <1>4. EntryOK(cache', s, leaves)
    <2>1. CASE cache = None
      BY <1>3, <2>1 DEF EntryOK
    <2>2. CASE cache # None
      <3> DEFINE e2 == shorter(cache)
      <3>1. cache \in [acc : Access, left : Int] /\ cache' = e2
        BY <1>1, <1>3, <2>2, Zenon
      <3>2. /\ e2 \in [acc : Access, left : Int] /\ e2.acc = cache.acc
            /\ e2.left = IF cache.left < 0 THEN cache.left ELSE cache.left - 1
            /\ 1 \in {0, 1}
        BY <3>1, SMTT(30)
      <3> HIDE DEF e2
      <3>3. EntryOK(e2, s, leaves)
        BY <1>0, <1>2, <2>2, <3>1, <3>2, EntryAges, Zenon
      <3>4. QED
        BY <3>1, <3>3, Zenon
    <2>3. QED
      BY <2>1, <2>2, Zenon
  <1>5. ASSUME NEW k \in Keys
        PROVE  /\ k = "fetch" => FetchOK(flights'[k], s)
               /\ k \in Ops => ProbeOK(k, flights'[k], s, leaves)
    <2>1. CASE flights[k] = None
      <3>1. flights'[k] = None
        BY <1>3, <2>1, Zenon
      <3>2. QED
        BY <3>1 DEF FetchOK, ProbeOK
    <2>2. CASE flights[k] # None
      <3> DEFINE f2 == later(flights[k])
      <3>1. flights[k] \in Flight /\ flights'[k] = f2
        BY <1>1, <1>3, <2>2, Zenon
      <3>2. /\ f2 \in Flight /\ f2.acc = flights[k].acc /\ f2.step = flights[k].step
            /\ f2.keep = flights[k].keep /\ f2.age = flights[k].age + 1 /\ 1 \in {0, 1}
        BY <3>1 DEF Flight
      <3>3. f2.age <= MaxFlight
        <4>1. flights[k].age < MaxFlight /\ flights[k].age \in Nat /\ MaxFlight \in Nat
          BY <1>3, <2>2, <3>1, TimesAssumption DEF Flight
        <4>2. QED
          BY <3>2, <4>1
      <3> HIDE DEF f2
      <3>4. CASE k = "fetch"
        <4>1. FetchOK(f2, s)
          BY <1>0, <1>2, <2>2, <3>1, <3>2, <3>3, <3>4, FetchAges, Zenon
        <4>2. QED
          BY <3>1, <3>4, <4>1, Zenon DEF Ops
      <3>5. CASE k \in Ops
        <4>1. ProbeOK(k, f2, s, leaves)
          BY <1>0, <1>2, <2>2, <3>1, <3>2, <3>3, <3>5, ProbeAges, ZenonT(30)
        <4>2. QED
          BY <3>1, <3>5, <4>1, Zenon DEF Ops
      <3>6. QED
        BY <3>4, <3>5, Zenon
    <2>3. QED
      BY <2>1, <2>2, Zenon
  <1>6. \A d \in Callers : CallerOK(pc[d], op[d], acc[d], s, leaves)
    <2> SUFFICES ASSUME NEW d \in Callers PROVE CallerOK(pc[d], op[d], acc[d], s, leaves)
      OBVIOUS
    <2>1. pc[d] \in {"idle", "fetching", "probing"} /\ (pc[d] # "idle" => op[d] \in Ops)
      BY <1>0, <1>3 DEF CallerOK
    <2>2. QED
      BY <2>1 DEF CallerOK
  <1>7. QED
    BY <1>1, <1>2, <1>3, <1>4, <1>5, <1>6, Zenon DEF Knowing

\* Every step keeps what is known to what GitHub said, and when.
LEMMA KnowingStep == IInv /\ [Next]_vars => Knowing'
  <1> SUFFICES ASSUME IInv, [Next]_vars PROVE Knowing'
    BY Zenon
  <1>0. TypeOK /\ Knowing
    BY DEF IInv, Knowing
  <1>1. CASE UNCHANGED vars
    <2>1. Heard' = Heard
      BY <1>0, <1>1, HeardStep DEF vars
    <2>2. QED
      BY <1>0, <1>1, <2>1, Zenon DEF Knowing, vars
  <1>2. ASSUME NEW c \in Callers, Authenticate(c) \/ Leave(c) PROVE Knowing'
    <2>1. UNCHANGED <<grant, past>>
      BY <1>2, Zenon DEF Authenticate, LookupHit, LookupMiss, ShareFetch, ShareProbe, Return, Leave
    <2>2. Heard' = Heard
      BY <1>0, <2>1, HeardStep, Zenon
    <2>3. /\ EntryOK(cache', Heard, leaves')
          /\ \A d \in Callers : CallerOK(pc'[d], op'[d], acc'[d], Heard, leaves')
      BY <1>2, CallerKnows, Zenon
    <2>4. /\ FetchOK(flights'["fetch"], Heard)
          /\ \A o \in Ops : ProbeOK(o, flights'[o], Heard, leaves')
      BY <1>2, CallerFlights, Zenon
    <2>5. QED
      BY <2>2, <2>3, <2>4, Zenon DEF Knowing
  <1>3. ASSUME NEW k \in Keys, Lookup(k) PROVE Knowing'
    <2>1. UNCHANGED <<grant, past, leaves>>
      BY <1>3, Zenon DEF Lookup, LookupFails, FetchRepo, FetchUser, FetchEnds, ProbeKnown, ProbeStarts,
         ProbeCalls, ProbeEnds
    <2>2. Heard' = Heard
      BY <1>0, <2>1, HeardStep, Zenon
    <2>3. QED
      BY <1>3, <2>1, <2>2, LookupKnows, Zenon DEF Knowing
  <1>4. CASE Sweep
    <2>1. cache' = None /\ UNCHANGED <<grant, past, flights, pc, op, acc, leaves>>
      BY <1>4, Zenon DEF Sweep, callerVars
    <2>2. Heard' = Heard
      BY <1>0, <2>1, HeardStep, Zenon
    <2>3. EntryOK(None, Heard, leaves)
      BY DEF EntryOK
    <2>4. QED
      BY <1>0, <2>1, <2>2, <2>3, Zenon DEF Knowing
  <1>5. QED
    BY <1>1, <1>2, <1>3, <1>4, GrantKnows, TickKnows, Zenon DEF Next

\* Nothing is known, cached or under way at first.
LEMMA InitHolds == Init => IInv
  <1> SUFFICES ASSUME Init PROVE IInv
    OBVIOUS
  <1>1. TypeOK
    <2>1. NoAccess \in Access
      BY Accesses
    <2>2. QED
      BY <2>1 DEF Init, TypeOK, Steps
  <1>2. Waiting /\ ErrorsFromGitHub
    BY Zenon DEF Init, Waiting, ErrorsFromGitHub, WaitsFor
  <1>3. Knowing
    BY DEF Init, Knowing, EntryOK, FetchOK, ProbeOK, CallerOK, Keys
  <1>4. QED
    BY <1>1, <1>2, <1>3, Zenon DEF IInv, Knowing

-----------------------------------------------------------------------------
(* The theorems *)

\* The inductive invariant of the GitHub authenticator: who waits for which
\* lookup, and how old at most what the cache, the lookups and the callers know is.
THEOREM Safety == Spec => []IInv
  <1>1. IInv /\ [Next]_vars => IInv'
    BY TypeStep, WaitingStep, KnowingStep, Zenon DEF IInv
  <1>2. QED
    BY InitHolds, <1>1, PTL DEF Spec

\* Nobody waits for a lookup that has ended or does not know of the waiter.
THEOREM NobodyIsForgotten == Spec => []NobodyForgotten
  <1>1. IInv => NobodyForgotten
    <2> SUFFICES ASSUME IInv, NEW c \in Callers
                 PROVE  /\ pc[c] = "fetching" => flights["fetch"] # None /\ c \in flights["fetch"].waiters
                        /\ pc[c] = "probing" => flights[op[c]] # None /\ c \in flights[op[c]].waiters
      BY Zenon DEF NobodyForgotten
    <2>1. Waiting /\ (pc[c] # "idle" => op[c] \in Ops)
      BY Zenon DEF IInv, Knowing, CallerOK
    <2>2. CASE pc[c] = "fetching"
      <3>1. "fetch" \in Keys /\ WaitsFor(pc[c], op[c], "fetch")
        BY <2>2 DEF Keys, WaitsFor
      <3>2. QED
        BY <2>1, <2>2, <3>1 DEF Waiting
    <2>3. CASE pc[c] = "probing"
      <3>1. op[c] \in Keys /\ WaitsFor(pc[c], op[c], op[c])
        BY <2>1, <2>3, Zenon DEF Keys, Ops, WaitsFor
      <3>2. QED
        BY <2>1, <2>3, <3>1 DEF Waiting
    <2>4. QED
      BY <2>2, <2>3, Zenon
  <1>2. QED
    BY Safety, <1>1, PTL

\* Errors reach a caller only from GitHub, never from another caller that left.
THEOREM ErrorsAreGitHubs == Spec => []ErrorsFromGitHub
  <1>1. IInv => ErrorsFromGitHub
    BY Zenon DEF IInv, Knowing
  <1>2. QED
    BY Safety, <1>1, PTL

\* What Heard says of a caller's result, in the terms of the properties.
LEMMA ResultKnown ==
  ASSUME IInv, NEW c \in Callers, pc[c] = "result"
  PROVE  /\ op[c] \in Ops /\ Said(acc[c], Recent(Bound)) /\ ~needsProbe(acc[c], op[c])
         /\ leaves = 0 => /\ Rejected(acc[c], Recent(Bound))
                          /\ Rejected(acc[c], Recent(InvalidTTL + 2 * MaxFlight))
         /\ Recent(Bound) \subseteq Grant
  <1>1. TypeOK /\ CallerOK(pc[c], op[c], acc[c], Heard, leaves)
    BY DEF IInv, Knowing
  <1> DEFINE i == InvalidTTL + 2 * MaxFlight
             j == ITTL + MaxFlight
  <1>2. i \in Nat /\ j \in Nat /\ j <= i /\ j <= Bound /\ Bound \in Nat
    BY TimesAssumption DEF ITTL, Bound
  <1> HIDE DEF i
  <1>3. Heard[Bound] = Recent(Bound) /\ Heard[i] = Recent(i)
    BY <1>2, Zenon DEF Heard
  <1>4. Heard[j] \subseteq Heard[i] /\ Heard[j] \subseteq Heard[Bound]
    BY <1>1, <1>2, HeardLonger, Zenon
  <1>5. leaves = 0 => Rejected(acc[c], Heard[j])
    BY <1>1 DEF CallerOK
  <1>6. leaves = 0 => Rejected(acc[c], Recent(Bound)) /\ Rejected(acc[c], Recent(i))
    <2> HIDE DEF j
    <2>1. QED
      BY <1>3, <1>4, <1>5, SaidMore
  <1>7. Recent(Bound) \subseteq Grant
    <2>1. grant \in Grants /\ past \subseteq Change({p.nth : p \in past})
      BY <1>1 DEF TypeOK
    <2>2. \A p \in past : p.grant \in Grants
      BY <2>1, Zenon DEF Change
    <2>3. QED
      BY <2>1, <2>2, GrantsAssumption, Zenon DEF Recent
  <1>8. QED
    BY <1>1, <1>3, <1>6, <1>7, Zenon DEF CallerOK, i

\* Whatever callers, lookups and probes do, and however GitHub changes, a caller
\* is authorised only by what GitHub granted within the cache TTL and the time
\* of two lookups.
THEOREM RevocationsTakeEffect == Spec => []RevocationBounded
  <1>1. IInv => RevocationBounded
    <2> SUFFICES ASSUME IInv, NEW c \in Callers, pc[c] = "result", Authorized(acc[c], op[c])
                 PROVE  /\ \E g \in Recent(Bound) : RoleOK(g, op[c]) /\ (acc[c].maintainer => g.maintainer)
                        /\ \E g \in Recent(Bound) : ContentsOK(g, op[c])
      BY Zenon DEF RevocationBounded
    <2> DEFINE R == Recent(Bound)
               a == acc[c]
               o == op[c]
    <2>1. o \in Ops /\ Said(a, R)
      BY ResultKnown
    <2>2. /\ o = "download" => a.pull /\ (~a.private \/ a.read = "allowed")
          /\ o # "download" => a.push /\ a.write = "allowed"
      BY Zenon DEF Authorized
    <2> HIDE DEF R, a, o
    <2>3. PICK g \in R : /\ g.valid /\ g.visible /\ g.perms
                         /\ a.private = g.private
                         /\ a.pull = g.pull /\ a.push = g.push /\ a.maintainer = g.maintainer
      BY <2>1, <2>2 DEF Said
    <2>4. RoleOK(g, o) /\ (a.maintainer => g.maintainer)
      BY <2>2, <2>3 DEF RoleOK
    <2>5. \E h \in R : ContentsOK(h, o)
      <3>1. CASE o = "download" /\ ~a.private
        BY <2>3, <3>1 DEF ContentsOK
      <3>2. CASE o # "download" \/ a.private
        <4>1. Probed(a, o) = "allowed"
          BY <2>2, <3>2, Zenon DEF Probed
        <4>2. PICK h \in R : Outcome(h, o) = "allowed"
          BY <2>1, <4>1 DEF Said
        <4>3. ContentsOK(h, o)
          BY <4>2 DEF Outcome, ContentsOK
        <4>4. QED
          BY <4>3, Zenon
      <3>3. QED
        BY <3>1, <3>2, Zenon
    <2>6. QED
      BY <2>4, <2>5 DEF R, a, o
  <1>2. QED
    BY Safety, <1>1, PTL

\* As long as no caller has left, a caller is refused only by what GitHub refused
\* within that time.  It rests on GitHub letting every token read the contents of
\* a public repository: the code does not probe for them.
THEOREM RefusalsAreGitHubs ==
  ASSUME \A g \in Grants : ~g.private => g.read
  PROVE  Spec => []RefusalBounded
  <1>1. IInv => RefusalBounded
    <2> SUFFICES ASSUME IInv, NEW c \in Callers, leaves = 0, pc[c] = "result", ~Authorized(acc[c], op[c])
                 PROVE  \E g \in Recent(Bound) : ~(RoleOK(g, op[c]) /\ g.user /\ ContentsOK(g, op[c]))
      BY Zenon DEF RefusalBounded
    <2> DEFINE R == Recent(Bound)
               a == acc[c]
               o == op[c]
    <2>1. o \in Ops /\ Said(a, R) /\ ~needsProbe(a, o) /\ Rejected(a, R)
      BY ResultKnown
    <2>2. \A g \in R : ~g.private => g.read
      <3>1. TypeOK
        BY DEF IInv, Knowing
      <3>2. grant \in Grants /\ \A p \in past : p.grant \in Grants
        BY <3>1 DEF TypeOK, Change
      <3>3. R \subseteq Grants
        BY <3>2, Zenon DEF Recent
      <3>4. QED
        BY <3>3, Zenon
    <2>3. ~Authorized(a, o)
      OBVIOUS
    <2> HIDE DEF R, a, o
    <2>4. ASSUME a.authenticated => \E g \in R : ~g.visible \/ ~g.perms \/ ~g.user
          PROVE  \E h \in R : ~(RoleOK(h, o) /\ h.user /\ ContentsOK(h, o))
      BY <2>1, <2>4, Zenon DEF Rejected, RoleOK
    <2>5. ASSUME NEW g \in R, a.pull = g.pull, a.push = g.push
          PROVE  \E h \in R : ~(RoleOK(h, o) /\ h.user /\ ContentsOK(h, o))
      <3>1. CASE ~RoleOK(g, o)
        BY <3>1, Zenon
      <3>2. CASE RoleOK(g, o)
        <4>1. IF o = "download" THEN a.pull ELSE a.push
          BY <2>5, <3>2, Zenon DEF RoleOK
        <4>2. Probed(a, o) # "unchecked" /\ Probed(a, o) # "allowed"
          BY <2>1, <2>3, <4>1, Zenon DEF Authorized, needsProbe, Probed
        <4>3. PICK h \in R : Outcome(h, o) = Probed(a, o)
          BY <2>1, <4>2 DEF Said
        <4>4. ~(h.visible /\ (IF o = "download" THEN h.read ELSE h.write))
          BY <4>2, <4>3 DEF Outcome
        <4>5. ~(RoleOK(h, o) /\ ContentsOK(h, o))
          BY <2>2, <4>4 DEF RoleOK, ContentsOK
        <4>6. QED
          BY <4>5, Zenon
      <3>3. QED
        BY <3>1, <3>2, Zenon
    <2>6. \E h \in R : ~(RoleOK(h, o) /\ h.user /\ ContentsOK(h, o))
      <3>1. \/ \E g \in R : a.pull = g.pull /\ a.push = g.push
            \/ a.authenticated => \E g \in R : ~g.visible \/ ~g.perms \/ ~g.user
        BY <2>1, Zenon DEF Said
      <3>2. QED
        BY <2>4, <2>5, <3>1, Zenon
    <2>7. QED
      BY <2>6 DEF R, o
  <1>2. QED
    BY Safety, <1>1, PTL

\* As long as no caller has left, credentials are called invalid only if GitHub
\* rejected them within invalidTokenCacheTTL and the time of two lookups.
THEOREM RejectionsAreGitHubs == Spec => []RejectedWithoutLeavers
  <1>1. IInv => RejectedWithoutLeavers
    <2> SUFFICES ASSUME IInv, leaves = 0, NEW c \in Callers, pc[c] = "result", ~acc[c].authenticated
                 PROVE  \E g \in Recent(InvalidTTL + 2 * MaxFlight) : ~g.valid
      BY Zenon DEF RejectedWithoutLeavers, RejectedOnlyIfInvalid
    <2>1. Rejected(acc[c], Recent(InvalidTTL + 2 * MaxFlight))
      BY ResultKnown
    <2>2. QED
      BY <2>1, Zenon DEF Rejected
  <1>2. QED
    BY Safety, <1>1, PTL
=============================================================================
