--------------------------- MODULE ServiceProofs ---------------------------
(***************************************************************************)
(* Proofs about the endpoints of a configuration, for any number of them,  *)
(* with any paths and settings; that they hold of the program, of which    *)
(* the loops over the endpoints are a part; about its readiness probes,    *)
(* for any number of them and any times; and that what check prints is     *)
(* what serve uses, for any settings.                                      *)
(*                                                                         *)
(* The loop of validate keeps two maps, and adds to them what it accepts.  *)
(* The invariant says what an endpoint without a problem has passed (Sound,*)
(* Apart, ParsedWell), and that every problem has a cause that does not    *)
(* depend on how far the loop has got (Caused).  Of the settings, the      *)
(* invariant only says that they have no problem (SettingsChecked); what   *)
(* follows from that (Settled) makes printing and loading them again       *)
(* change nothing.                                                         *)
(***************************************************************************)
EXTENDS Service, TLAPS

Ok(k, kind) == <<k, kind>> \notin problems

Validated(k) == k \in 1 .. Len(eps) /\ (stage = "validate" => k < next)

Parsed(k) == k \in 1 .. Len(eps) /\ stage # "validate" /\ (stage = "parse" => k < next)

Registered(k) ==
    k \in 1 .. Len(eps) /\ (stage = "registered" \/ (stage = "register" /\ k < next))

Typed ==
    /\ eps \in Seq(EndpointSettings)
    /\ stage \in {"validate", "parse", "register", "registered", "refused"}
    /\ next \in Nat \ {0}
    /\ base \in [1 .. Len(eps) -> ApiURL \cup {None}]
    /\ auth \in [1 .. Len(eps) -> Authenticator \cup {None}]
    /\ githubAuths \in SUBSET Authenticator

\* The maps hold nothing but what belongs to endpoints that were validated.
Taken ==
    /\ \A p \in paths : \E k \in 1 .. Len(eps) : Validated(k) /\ p = eps[k].path
    /\ \A d \in dirs : \E k \in 1 .. Len(eps) : Validated(k) /\ d = Directory(eps[k].path)

Sound ==
    \A k \in 1 .. Len(eps) : Validated(k) =>
        /\ Ok(k, "name") => eps[k].named
        /\ Ok(k, "access") => AccessValid(eps[k])
        /\ Ok(k, "path") => /\ PathNew(eps[k].path, {}) /\ PathUsable(eps[k].path)
                            /\ Directory(eps[k].path) \in dirs

Apart ==
    \A j, k \in 1 .. Len(eps) :
        Validated(j) /\ Validated(k) /\ Ok(j, "path") /\ Ok(k, "path")
        /\ Directory(eps[j].path) = Directory(eps[k].path) => j = k

ParsedWell ==
    \A k \in 1 .. Len(eps) : Parsed(k) =>
        /\ Ok(k, "github") => GitHubValid(eps[k])
        /\ base[k] = GitHubBaseURL(eps[k])

PathCause(k) ==
    \/ ~PathNew(eps[k].path, {}) \/ ~PathUsable(eps[k].path)
    \/ \E j \in 1 .. Len(eps) : j # k /\ Directory(eps[j].path) = Directory(eps[k].path)

Caused ==
    \A x \in problems :
        \/ eps = <<>>
        \/ \E k \in 1 .. Len(eps) :
              \/ x = <<k, "name">> /\ ~eps[k].named
              \/ x = <<k, "access">> /\ ~AccessValid(eps[k])
              \/ x = <<k, "github">> /\ ~GitHubValid(eps[k])
              \/ x = <<k, "path">> /\ PathCause(k)

Gates == (eps = <<>> => problems # {}) /\ (Accepted => problems = {})

\* There is one authenticator for an API, and registered endpoints have theirs.
Shared ==
    /\ \A g, h \in githubAuths : g.api = h.api => g = h
    /\ \A k \in 1 .. Len(eps) :
          IF Registered(k) /\ AuthMethod(eps[k]) = "github"
          THEN auth[k] \in githubAuths /\ auth[k].api = base[k]
          ELSE auth[k] = None

EInv == Typed /\ Taken /\ Sound /\ Apart /\ ParsedWell /\ Caused /\ Gates /\ Shared

\* A path that is new given those taken is one that could be taken first.
LEMMA PathNewSplit ==
  ASSUME NEW p, NEW T
  PROVE  PathNew(p, T) <=> PathNew(p, {}) /\ p \notin T
  BY DEF PathNew

\* The address of the API is a text or absent.
LEMMA BaseURLType ==
  ASSUME NEW e \in EndpointSettings
  PROVE  GitHubBaseURL(e) \in ApiURL \cup {None}
  <1>1. e.api \in ApiURL \cup {""}
    BY DEF EndpointSettings
  <1>2. QED
    BY <1>1 DEF GitHubBaseURL, WithSlash, ApiURL

\* The invariant holds when Load gets to the endpoints.
LEMMA EndpointsInit ==
  ASSUME NEW es \in Seq(EndpointSettings), Init(es)
  PROVE  EInv
  <1> USE DEF Init
  <1>1. Len(eps) \in Nat
    OBVIOUS
  <1>2. Typed
    BY DEF Typed
  <1>3. Taken /\ Sound /\ Apart /\ ParsedWell
    BY <1>1 DEF Taken, Sound, Apart, ParsedWell, Validated, Parsed
  <1>4. Caused /\ Gates
    BY DEF Caused, Gates, Accepted
  <1>5. Shared
    BY DEF Shared, Registered
  <1>6. QED
    BY <1>2, <1>3, <1>4, <1>5 DEF EInv

\* A round of validate's loop.
LEMMA ValidateStep ==
  ASSUME EInv, Validate
  PROVE  EInv'
  <1>0. PICK n \in 1 .. Len(eps) : n = next
    BY DEF EInv, Typed, Validate
  <1> DEFINE e == eps[n]
             usable == PathNew(e.path, paths) /\ PathUsable(e.path) /\ Directory(e.path) \notin dirs
             kinds == {k \in {"name"} : ~e.named} \cup {k \in {"path"} : ~usable}
                      \cup {k \in {"access"} : ~AccessValid(e)}
  <1>1. /\ stage = "validate" /\ next' = n + 1 /\ Len(eps) \in Nat
        /\ UNCHANGED <<eps, stage, base, githubAuths, auth>>
    BY <1>0 DEF EInv, Typed, Validate
  <1>2. /\ paths' = paths \cup {p \in {e.path} : PathNew(p, paths)}
        /\ dirs' = dirs \cup {d \in {Directory(e.path)} : usable}
        /\ problems' = problems \cup {<<n, k>> : k \in kinds}
    BY <1>0 DEF Validate, Found
  <1>a. /\ kinds \subseteq {"name", "path", "access"}
        /\ "name" \in kinds <=> ~e.named
        /\ "path" \in kinds <=> ~usable
        /\ "access" \in kinds <=> ~AccessValid(e)
    BY Zenon
  <1> HIDE DEF e, usable, kinds
  <1>3. \A k \in 1 .. Len(eps) : Validated(k)' <=> Validated(k) \/ k = n
    BY <1>0, <1>1 DEF Validated
  <1>4. ~Validated(n)
    BY <1>0, <1>1 DEF Validated
  <1>5. \A k, kind : Ok(k, kind)' => Ok(k, kind)
    BY <1>2 DEF Ok
  <1>6. /\ Ok(n, "name")' => e.named
        /\ Ok(n, "path")' => usable
        /\ Ok(n, "access")' => AccessValid(e)
    <2>1. \A kind \in kinds : ~Ok(n, kind)'
      BY <1>2 DEF Ok
    <2>2. QED
      BY <1>a, <2>1, Zenon
  <1>7. Typed'
    BY <1>0, <1>1 DEF EInv, Typed
  <1>8. Taken'
    BY <1>1, <1>2, <1>3 DEF EInv, Taken, e
  <1>9. Sound'
    <2> SUFFICES ASSUME NEW k \in 1 .. Len(eps), Validated(k)'
                 PROVE  /\ Ok(k, "name")' => eps[k].named
                        /\ Ok(k, "access")' => AccessValid(eps[k])
                        /\ Ok(k, "path")' => /\ PathNew(eps[k].path, {}) /\ PathUsable(eps[k].path)
                                             /\ Directory(eps[k].path) \in dirs'
      BY <1>1 DEF Sound
    <2>1. CASE k = n
      <3>1. usable => /\ PathNew(e.path, {}) /\ PathUsable(e.path) /\ Directory(e.path) \in dirs'
        BY <1>2, PathNewSplit DEF usable
      <3>2. QED
        BY <1>6, <2>1, <3>1, Zenon DEF e
    <2>2. CASE Validated(k)
      BY <1>2, <1>5, <2>2 DEF EInv, Sound
    <2>3. QED
      BY <1>3, <2>1, <2>2
  <1>10. Apart'
    <2> SUFFICES ASSUME NEW j \in 1 .. Len(eps), NEW k \in 1 .. Len(eps),
                        Validated(j)', Validated(k)', Ok(j, "path")', Ok(k, "path")',
                        Directory(eps[j].path) = Directory(eps[k].path)
                 PROVE  j = k
      BY <1>1 DEF Apart
    <2>1. ASSUME NEW i \in 1 .. Len(eps), Validated(i), Ok(i, "path")'
          PROVE  Directory(eps[i].path) \in dirs
      BY <1>5, <2>1 DEF EInv, Sound
    <2>2. Ok(n, "path")' => Directory(eps[n].path) \notin dirs
      BY <1>6 DEF usable, e
    <2>3. CASE Validated(j) /\ Validated(k)
      <3>1. Ok(j, "path") /\ Ok(k, "path")
        BY <1>5
      <3>2. QED
        BY <2>3, <3>1 DEF EInv, Apart
    <2>4. QED
      BY <1>3, <2>1, <2>2, <2>3
  <1>11. ParsedWell'
    BY <1>1 DEF ParsedWell, Parsed
  <1>12. Caused'
    <2>1. ~usable => PathCause(n)
      <3> SUFFICES ASSUME ~usable, PathNew(e.path, {}), PathUsable(e.path)
                   PROVE  \E j \in 1 .. Len(eps) :
                             j # n /\ Directory(eps[j].path) = Directory(eps[n].path)
        BY DEF PathCause, e
      <3>1. e.path \in paths \/ Directory(e.path) \in dirs
        BY PathNewSplit DEF usable
      <3>2. PICK j \in 1 .. Len(eps) :
               Validated(j) /\ (e.path = eps[j].path \/ Directory(e.path) = Directory(eps[j].path))
        BY <3>1 DEF EInv, Taken
      <3>3. j # n /\ Directory(eps[j].path) = Directory(eps[n].path)
        BY <1>4, <3>2 DEF e
      <3>4. QED
        BY <3>3
    <2>2. \A k : PathCause(k)' <=> PathCause(k)
      BY <1>1 DEF PathCause
    <2> SUFFICES ASSUME NEW x \in problems'
                 PROVE  \/ eps = <<>>
                        \/ \E k \in 1 .. Len(eps) :
                              \/ x = <<k, "name">> /\ ~eps[k].named
                              \/ x = <<k, "access">> /\ ~AccessValid(eps[k])
                              \/ x = <<k, "github">> /\ ~GitHubValid(eps[k])
                              \/ x = <<k, "path">> /\ PathCause(k)
      BY <1>1, <2>2 DEF Caused
    <2>3. CASE x \in problems
      BY <2>3 DEF EInv, Caused
    <2>4. CASE \/ x = <<n, "name">> /\ ~e.named
               \/ x = <<n, "path">> /\ ~usable
               \/ x = <<n, "access">> /\ ~AccessValid(e)
      BY <1>1, <2>1, <2>4 DEF e
    <2>5. QED
      BY <1>2, <1>a, <2>3, <2>4
  <1>13. Gates'
    BY <1>1, <1>2 DEF EInv, Gates, Accepted
  <1>14. Shared'
    BY <1>1 DEF EInv, Shared, Registered
  <1>15. QED
    BY <1>7, <1>8, <1>9, <1>10, <1>11, <1>12, <1>13, <1>14 DEF EInv

\* A round of Load's own loop.
LEMMA ParseStep ==
  ASSUME EInv, Parse
  PROVE  EInv'
  <1>0. PICK n \in 1 .. Len(eps) : n = next
    BY DEF EInv, Typed, Parse
  <1> DEFINE kinds == {k \in {"github"} : ~GitHubValid(eps[n])}
  <1>1. /\ stage = "parse" /\ next' = n + 1 /\ Len(eps) \in Nat
        /\ base' = [base EXCEPT ![n] = GitHubBaseURL(eps[n])]
        /\ UNCHANGED <<eps, stage, paths, dirs, githubAuths, auth>>
    BY <1>0 DEF EInv, Typed, Parse
  <1>2. problems' = problems \cup {<<n, k>> : k \in kinds}
    BY <1>0 DEF Parse, Found
  <1>3. kinds \subseteq {"github"} /\ ("github" \in kinds <=> ~GitHubValid(eps[n]))
    BY Zenon
  <1> HIDE DEF kinds
  <1>4. \A k, kind : Ok(k, kind)' => Ok(k, kind)
    BY <1>2 DEF Ok
  <1>5. \A k \in 1 .. Len(eps) : Validated(k)' /\ Validated(k)
    BY <1>1 DEF Validated
  <1>6. Typed'
    <2>1. eps[n] \in EndpointSettings
      BY DEF EInv, Typed
    <2>2. GitHubBaseURL(eps[n]) \in ApiURL \cup {None}
      BY <2>1, BaseURLType
    <2>3. QED
      BY <1>0, <1>1, <2>2 DEF EInv, Typed
  <1>7. Taken'
    BY <1>1, <1>5 DEF EInv, Taken
  <1>8. Sound'
    BY <1>1, <1>4, <1>5 DEF EInv, Sound
  <1>9. Apart'
    BY <1>1, <1>4, <1>5 DEF EInv, Apart
  <1>10. ParsedWell'
    <2> SUFFICES ASSUME NEW k \in 1 .. Len(eps), Parsed(k)'
                 PROVE  (Ok(k, "github")' => GitHubValid(eps[k])) /\ base'[k] = GitHubBaseURL(eps[k])
      BY <1>1 DEF ParsedWell
    <2>1. CASE k = n
      <3>1. base'[n] = GitHubBaseURL(eps[n])
        BY <1>1 DEF EInv, Typed
      <3>2. Ok(n, "github")' => GitHubValid(eps[n])
        BY <1>2, <1>3 DEF Ok
      <3>3. QED
        BY <2>1, <3>1, <3>2, Zenon
    <2>2. CASE k # n
      <3>1. Parsed(k)
        BY <1>0, <1>1, <2>2 DEF Parsed
      <3>2. base'[k] = base[k]
        BY <1>1, <2>2 DEF EInv, Typed
      <3>3. QED
        BY <1>4, <3>1, <3>2 DEF EInv, ParsedWell
    <2>3. QED
      BY <2>1, <2>2
  <1>11. Caused'
    <2>1. \A k : PathCause(k)' <=> PathCause(k)
      BY <1>1 DEF PathCause
    <2>2. \A x \in problems' : x \in problems \/ (x = <<n, "github">> /\ ~GitHubValid(eps[n]))
      BY <1>2, <1>3
    <2>3. QED
      BY <1>1, <2>1, <2>2 DEF EInv, Caused
  <1>12. Gates'
    BY <1>1, <1>2 DEF EInv, Gates, Accepted
  <1>13. Shared'
    <2>1. \A k : ~Registered(k) /\ ~Registered(k)'
      BY <1>1 DEF Registered
    <2>2. QED
      BY <1>1, <2>1 DEF EInv, Shared
  <1>14. QED
    BY <1>6, <1>7, <1>8, <1>9, <1>10, <1>11, <1>12, <1>13 DEF EInv

\* Steps that leave the endpoints and their problems alone.
LEMMA UnchangedFacts ==
  ASSUME EInv, UNCHANGED <<eps, paths, dirs, problems, base>>, stage' # "validate",
         stage # "validate" \/ next > Len(eps)
  PROVE  Taken' /\ Sound' /\ Apart' /\ Caused'
  <1>1. \A k \in 1 .. Len(eps) : Validated(k) /\ Validated(k)'
    BY DEF EInv, Typed, Validated
  <1>2. \A k, kind : Ok(k, kind)' <=> Ok(k, kind)
    BY DEF Ok
  <1>3. Taken'
    BY <1>1 DEF EInv, Taken
  <1>4. Sound'
    BY <1>1, <1>2 DEF EInv, Sound
  <1>5. Apart'
    BY <1>1, <1>2 DEF EInv, Apart
  <1>6. Caused'
    <2>1. \A k : PathCause(k)' <=> PathCause(k)
      BY DEF PathCause
    <2>2. QED
      BY <2>1 DEF EInv, Caused
  <1>7. QED
    BY <1>3, <1>4, <1>5, <1>6

\* A round of serve's loop.
LEMMA RegisterStep ==
  ASSUME EInv, Register
  PROVE  EInv'
  <1>0. PICK n \in 1 .. Len(eps) : n = next
    BY DEF EInv, Typed, Register
  <1>1. /\ stage = "register" /\ next' = n + 1 /\ Len(eps) \in Nat
        /\ UNCHANGED <<eps, stage, paths, dirs, problems, base>>
    BY <1>0 DEF EInv, Typed, Register
  <1>2. /\ \A k \in 1 .. Len(eps) : Registered(k)' <=> Registered(k) \/ k = n
        /\ ~Registered(n)
    BY <1>0, <1>1 DEF Registered
  <1>3. Taken' /\ Sound' /\ Apart' /\ Caused'
    BY <1>1, UnchangedFacts
  <1>4. ParsedWell' /\ Gates'
    BY <1>1 DEF EInv, ParsedWell, Parsed, Ok, Gates, Accepted
  <1>5. CASE AuthMethod(eps[n]) = "github"
    <2> DEFINE g == githubAuth(n)
    <2>1. auth' = [auth EXCEPT ![n] = g] /\ githubAuths' = githubAuths \cup {g}
      BY <1>0, <1>5 DEF Register
    <2>2. /\ g \in Authenticator /\ g.api = base[n]
          /\ \A h \in githubAuths : h.api = g.api => h = g
      <3> DEFINE known == {h \in githubAuths : h.api = base[n]}
      <3>1. CASE known = {}
        BY <3>1 DEF githubAuth, EInv, Typed, Authenticator
      <3>2. CASE known # {}
        <4>1. g \in known
          BY <3>2 DEF githubAuth
        <4>2. QED
          BY <4>1 DEF EInv, Typed, Shared
      <3>3. QED
        BY <3>1, <3>2
    <2> HIDE DEF g
    <2>3. Typed'
      BY <1>0, <1>1, <2>1, <2>2 DEF EInv, Typed
    <2>4. Shared'
      <3>1. \A x, y \in githubAuths' : x.api = y.api => x = y
        BY <2>1, <2>2 DEF EInv, Shared
      <3>2. ASSUME NEW k \in 1 .. Len(eps)
            PROVE  IF Registered(k)' /\ AuthMethod(eps[k]) = "github"
                   THEN auth'[k] \in githubAuths' /\ auth'[k].api = base[k]
                   ELSE auth'[k] = None
        <4>1. CASE k = n
          <5>1. auth'[k] = g /\ Registered(k)'
            BY <1>2, <2>1, <4>1 DEF EInv, Typed
          <5>2. QED
            BY <1>5, <2>1, <2>2, <4>1, <5>1
        <4>2. CASE k # n
          <5>1. auth'[k] = auth[k] /\ (Registered(k)' <=> Registered(k))
            BY <1>2, <2>1, <4>2 DEF EInv, Typed
          <5>2. QED
            BY <2>1, <5>1 DEF EInv, Shared
        <4>3. QED
          BY <4>1, <4>2
      <3>3. QED
        BY <1>1, <3>1, <3>2 DEF Shared
    <2>5. QED
      BY <1>3, <1>4, <2>3, <2>4 DEF EInv
  <1>6. CASE AuthMethod(eps[n]) # "github"
    <2>1. UNCHANGED <<auth, githubAuths>>
      BY <1>0, <1>6 DEF Register
    <2>2. Typed'
      BY <1>0, <1>1, <2>1 DEF EInv, Typed
    <2>3. Shared'
      BY <1>1, <1>2, <1>6, <2>1 DEF EInv, Shared
    <2>4. QED
      BY <1>3, <1>4, <2>2, <2>3 DEF EInv
  <1>7. QED
    BY <1>5, <1>6

\* The ends of the loops.
LEMMA EndLoopStep ==
  ASSUME EInv, NEW valid \in BOOLEAN, EndLoop(valid)
  PROVE  EInv'
  <1> USE DEF EndLoop
  <1>1. /\ Len(eps) \in Nat /\ next > Len(eps) /\ next \in Nat /\ next' = 1
        /\ UNCHANGED <<eps, paths, dirs, problems, base, githubAuths, auth>>
    BY DEF EInv, Typed
  <1>2. /\ stage \in {"validate", "parse", "register"}
        /\ stage = "validate" => stage' = "parse"
        /\ stage = "parse" => stage' = "refused" \/ (stage' = "register" /\ problems = {})
        /\ stage = "register" => stage' = "registered"
    BY Zenon
  <1>3. Typed'
    BY <1>1, <1>2 DEF EInv, Typed
  <1>4. Taken' /\ Sound' /\ Apart' /\ Caused'
    BY <1>1, <1>2, UnchangedFacts
  <1>5. ParsedWell'
    <2>1. \A k \in 1 .. Len(eps) : Parsed(k)' => Parsed(k)
      BY <1>1, <1>2 DEF Parsed
    <2>2. QED
      BY <1>1, <2>1 DEF EInv, ParsedWell, Ok
  <1>6. Gates'
    BY <1>1, <1>2 DEF EInv, Gates, Accepted
  <1>7. Shared'
    <2>1. \A k \in 1 .. Len(eps) : Registered(k)' <=> Registered(k)
      BY <1>1, <1>2 DEF Registered
    <2>2. QED
      BY <1>1, <2>1 DEF EInv, Shared
  <1>8. QED
    BY <1>3, <1>4, <1>5, <1>6, <1>7 DEF EInv

\* The invariant of Load's and serve's loops over the endpoints.
THEOREM EndpointsInvariant == Spec => []EInv
  <1>1. (\E es \in Seq(EndpointSettings) : Init(es)) => EInv
    BY EndpointsInit
  <1>2. EInv /\ [Next]_vars => EInv'
    <2> SUFFICES ASSUME EInv, [Next]_vars PROVE EInv'
      OBVIOUS
    <2>1. CASE UNCHANGED vars
      BY <2>1 DEF vars, EInv, Typed, Taken, Sound, Apart, ParsedWell, Caused, Gates, Shared,
                  Validated, Parsed, Registered, Ok, PathCause, Accepted
    <2>2. QED
      BY <2>1, ValidateStep, ParseStep, RegisterStep, EndLoopStep DEF Next
  <1>3. QED
    BY <1>1, <1>2, PTL DEF Spec

\* Once Load has accepted the endpoints, each has been through everything.
LEMMA AcceptedFacts ==
  ASSUME EInv, stage \in {"register", "registered", "refused"}, problems = {}
  PROVE  /\ eps # <<>>
         /\ \A i \in 1 .. Len(eps) :
               /\ eps[i].named /\ AccessValid(eps[i]) /\ GitHubValid(eps[i])
               /\ PathNew(eps[i].path, {}) /\ PathUsable(eps[i].path)
               /\ base[i] = GitHubBaseURL(eps[i])
         /\ \A i, j \in 1 .. Len(eps) : Directory(eps[i].path) = Directory(eps[j].path) => i = j
  <1>1. \A i \in 1 .. Len(eps) : Validated(i) /\ Parsed(i)
    BY DEF Validated, Parsed
  <1>2. \A i, kind : Ok(i, kind)
    BY DEF Ok
  <1>3. QED
    BY <1>1, <1>2 DEF EInv, Gates, Sound, Apart, ParsedWell

\* Endpoints that are served have directories of their own, for any endpoints.
THEOREM DirectoriesAreApart == Spec => []DirectoriesApart
  <1>1. EInv => DirectoriesApart
    BY AcceptedFacts DEF DirectoriesApart, EInv, Gates, Accepted, PathUsable
  <1>2. QED
    BY <1>1, EndpointsInvariant, PTL

\* Load finds a problem with the endpoints if and only if one has a problem on its
\* own or two have the same directory.
THEOREM RefusesForCause == Spec => []RefusedForCause
  <1>1. EInv => RefusedForCause
    <2> SUFFICES ASSUME EInv, stage \in {"register", "registered", "refused"},
                        eps # <<>>,
                        \A i \in 1 .. Len(eps) :
                            /\ eps[i].named /\ AccessValid(eps[i]) /\ GitHubValid(eps[i])
                            /\ PathNew(eps[i].path, {}) /\ PathUsable(eps[i].path),
                        \A i, j \in 1 .. Len(eps) :
                            Directory(eps[i].path) = Directory(eps[j].path) => i = j
                 PROVE  problems = {}
      BY AcceptedFacts DEF RefusedForCause
    <2>1. \A k \in 1 .. Len(eps) : ~PathCause(k)
      BY DEF PathCause
    <2>2. QED
      BY <2>1 DEF EInv, Caused
  <1>2. QED
    BY <1>1, EndpointsInvariant, PTL

\* Every endpoint is registered with an authenticator that asks the API of its own
\* GitHub, shared by the endpoints with the same github_api_url, and without one
\* only if it is public.
THEOREM AuthenticatorsAreOwn == Spec => []AuthenticatorsOwn
  <1>1. EInv => AuthenticatorsOwn
    <2> SUFFICES ASSUME EInv, stage = "registered", NEW i \in 1 .. Len(eps)
                 PROVE  IF auth[i] = None
                        THEN IsPublic(eps[i]) /\ AuthMethod(eps[i]) = "none"
                        ELSE /\ GitHubInstance(auth[i].api) = GitHubInstance(GitHubBaseURL(eps[i]))
                             /\ \A j \in 1 .. Len(eps) :
                                   auth[j] # None /\ GitHubBaseURL(eps[i]) = GitHubBaseURL(eps[j])
                                       => auth[i] = auth[j]
      BY DEF AuthenticatorsOwn
    <2>1. problems = {}
      BY DEF EInv, Gates, Accepted
    <2>2. \A k \in 1 .. Len(eps) : AccessValid(eps[k]) /\ base[k] = GitHubBaseURL(eps[k])
      BY <2>1, AcceptedFacts
    <2>3. \A k \in 1 .. Len(eps) :
             IF AuthMethod(eps[k]) = "github"
             THEN auth[k] \in githubAuths /\ auth[k].api = base[k]
             ELSE auth[k] = None
      BY DEF EInv, Shared, Registered
    <2>4. None \notin githubAuths
      BY NoneIsNoAuthenticator DEF EInv, Typed
    <2>5. CASE auth[i] = None
      BY <2>2, <2>3, <2>4, <2>5 DEF AccessValid
    <2>6. CASE auth[i] # None
      BY <2>2, <2>3, <2>4, <2>6 DEF EInv, Shared
    <2>7. QED
      BY <2>5, <2>6
  <1>2. QED
    BY <1>1, EndpointsInvariant, PTL

-----------------------------------------------------------------------------
(* The program *)

\* What the program does with its endpoints is what Endpoints says: the theorems
\* above hold of Load and of the registration in serve.
THEOREM ProgramRunsLoops == ServiceSpec => Spec
  <1>1. ServiceInit => \E es \in Seq(EndpointSettings) : Init(es)
    BY InputsAssumption, Zenon DEF ServiceInit
  <1>2. [ServiceNext]_serviceVars => [Next]_vars
    <2>1. ASSUME NEW b, EndLoop(b) PROVE \E valid \in BOOLEAN : EndLoop(valid)
      <3>1. CASE b
        BY <2>1, <3>1 DEF EndLoop
      <3>2. CASE ~b
        BY <2>1, <3>2 DEF EndLoop
      <3>3. QED
        BY <3>1, <3>2
    <2>2. Load => Next
      BY <2>1, Zenon DEF Load, Next
    <2>3. RegisterEndpoints => Next
      BY <2>1, Zenon DEF RegisterEndpoints, Next
    <2>4. Exit \/ StartChecks \/ Listen \/ Serving => UNCHANGED vars
      BY Zenon DEF Exit, StartChecks, Listen, Serving
    <2>5. UNCHANGED serviceVars => UNCHANGED vars
      BY Zenon DEF serviceVars
    <2>6. QED
      BY <2>2, <2>3, <2>4, <2>5, Zenon DEF ServiceNext
  <1>3. QED
    BY <1>1, <1>2, PTL DEF ServiceSpec, Spec

-----------------------------------------------------------------------------
(* Readiness *)

ReadyTyped ==
    /\ up \in [Resources -> BOOLEAN]
    /\ since \in [Resources -> [BOOLEAN -> Nat]]
    /\ age \in Nat \cup {Nobody}
    /\ failed \in Resources \cup {NoFailure}
    /\ probe \in [Probes -> {"idle", "waiting", "checking"}]
    /\ waited \in [Probes -> Nat]
    /\ took \in Nat
    /\ seen \in SUBSET BOOLEAN

\* The probe that is checking, and nobody else, holds the mutex.
OneChecks == \A p \in Probes : probe[p] = "checking" <=> mu = p

\* A storage check lasts no longer than its timeout, and begins at once.
CheckEnds == took <= CheckTimeout /\ (mu \notin Probes => mu = Nobody /\ took = 0)

\* Probes have waited no longer than the check under way.  When there is none,
\* those that have waited at all find a result that was just cached.
Queue ==
    \A p \in Probes : probe[p] # "idle" =>
        /\ waited[p] <= CheckTimeout
        /\ mu # Nobody => waited[p] <= took
        /\ mu = Nobody => waited[p] = 0 \/ age = 0

\* Times since the checks last passed, and since the one that the result says
\* failed last did.
DirSince == since["data_directory"][TRUE]
StorageSince == since["storage"][TRUE]
FailedSince == since[failed][FALSE]

\* A resource is in the condition in which it was last.
Present == \A r \in Resources : since[r][up[r]] = 0

\* The conditions that a storage check may find are no older than the check.
Watched == mu # Nobody => \A b \in seen : since["storage"][b] <= took

\* How long the check of a resource may take to tell that it was down.
Delay(r) == IF r = "storage" THEN CheckTimeout ELSE 0

\* What a result that may still be reused says, and how long ago it was so; and
\* what is known while storage is checked.
Cached ==
    /\ mu # Nobody => ~Fresh /\ failed = NoFailure /\ DirSince <= took
    /\ Fresh /\ failed = NoFailure =>
          StorageSince <= age + CheckTimeout /\ DirSince <= age + CheckTimeout
    /\ Fresh /\ failed # NoFailure => FailedSince <= age + Delay(failed)

ReadyInv ==
    ReadyTyped /\ OneChecks /\ CheckEnds /\ Queue /\ Present /\ Watched /\ Cached /\ AnswersRecent

\* The result without a failure is none of the others.
LEMMA NoFailureApart == NoFailure \notin Resources /\ NoFailure # Nobody
  <1>1. NoFailure # "data_directory" /\ NoFailure # "storage"
    BY Zenon DEF NoFailure
  <1>2. QED
    BY <1>1, NobodyAssumption, Zenon DEF Resources

\* The invariant holds when the program starts.
LEMMA ReadyInitHolds == ReadyInit => ReadyInv
  <1> SUFFICES ASSUME ReadyInit PROVE ReadyInv
    OBVIOUS
  <1>1. ReadyTyped /\ Present /\ Watched
    BY TimesAssumption DEF ReadyInit, ReadyTyped, Present, Watched, Horizon, Resources
  <1>2. OneChecks /\ CheckEnds /\ Queue
    BY TimesAssumption, NobodyAssumption DEF ReadyInit, OneChecks, CheckEnds, Queue
  <1>3. Cached
    BY Zenon DEF ReadyInit, Cached, Fresh
  <1>4. AnswersRecent
    BY NobodyAssumption, NoFailureApart, Zenon DEF ReadyInit, AnswersRecent
  <1>5. QED
    BY <1>1, <1>2, <1>3, <1>4 DEF ReadyInv

\* The times are natural numbers.
LEMMA SinceTyped ==
  ASSUME ReadyTyped
  PROVE  /\ DirSince \in Nat /\ StorageSince \in Nat /\ took \in Nat
         /\ failed # NoFailure => failed \in Resources /\ FailedSince \in Nat
         /\ Fresh => age \in Nat /\ age < TTL
  BY DEF ReadyTyped, DirSince, StorageSince, FailedSince, Fresh, Resources

\* A result that is old enough to be reused makes an answer that is recent.
LEMMA CachedAnswer ==
  ASSUME ReadyTyped, Cached, Fresh
  PROVE  /\ failed = NoFailure => StorageSince < Horizon /\ DirSince < Horizon
         /\ failed # NoFailure => FailedSince < IF failed = "storage" THEN Horizon ELSE TTL
  BY SinceTyped, TimesAssumption DEF Cached, Horizon, Delay

\* The same of the next state.
LEMMA CachedAnswerNext ==
  ASSUME ReadyTyped', Cached', Fresh'
  PROVE  /\ failed' = NoFailure => StorageSince' < Horizon /\ DirSince' < Horizon
         /\ failed' # NoFailure => FailedSince' < IF failed' = "storage" THEN Horizon ELSE TTL
  <1>1. /\ DirSince' \in Nat /\ StorageSince' \in Nat /\ age' \in Nat /\ age' < TTL
        /\ failed' # NoFailure => FailedSince' \in Nat
    BY DEF ReadyTyped, DirSince, StorageSince, FailedSince, Fresh, Resources
  <1>2. /\ failed' = NoFailure =>
              StorageSince' <= age' + CheckTimeout /\ DirSince' <= age' + CheckTimeout
        /\ failed' # NoFailure => FailedSince' <= age' + Delay(failed')
    BY Zenon DEF Cached, Delay
  <1>3. \A x, a \in Nat : a < TTL =>
           /\ x <= a + CheckTimeout => x < Horizon
           /\ x <= a + 0 => x < TTL
    BY TimesAssumption DEF Horizon
  <1>4. QED
    BY <1>1, <1>2, <1>3, Zenon DEF Delay

\* A resource that changes was up, or down, just now.
LEMMA FlipKeeps ==
  ASSUME ReadyInv, NEW r \in Resources, Flip(r)
  PROVE  ReadyInv'
  <1>1. /\ ReadyTyped /\ OneChecks /\ CheckEnds /\ Queue /\ Present /\ Watched /\ Cached
        /\ UNCHANGED <<mu, age, failed, probe, waited, took>> /\ answer' = Nobody
    BY Zenon DEF ReadyInv, Flip
  <1>2. /\ up' = [up EXCEPT ![r] = ~up[r]] /\ up' \in [Resources -> BOOLEAN]
        /\ since' \in [Resources -> [BOOLEAN -> Nat]]
        /\ seen' \in SUBSET BOOLEAN
    BY <1>1 DEF Flip, ReadyTyped
  <1>3. \A q \in Resources, b \in BOOLEAN :
           since'[q][b] = IF q = r /\ b = ~up[r] THEN 0 ELSE since[q][b]
    BY <1>1 DEF Flip, ReadyTyped
  <1>4. \A q \in Resources, b \in BOOLEAN : since'[q][b] <= since[q][b]
    BY <1>1, <1>3 DEF ReadyTyped
  <1>5. Present'
    BY <1>1, <1>2, <1>3 DEF ReadyTyped, Present
  <1>6. ReadyTyped' /\ OneChecks' /\ CheckEnds' /\ Queue'
    BY <1>1, <1>2, Zenon DEF ReadyTyped, OneChecks, CheckEnds, Queue
  <1>7. Watched'
    <2> SUFFICES ASSUME mu # Nobody, NEW b \in seen' PROVE since'["storage"][b] <= took
      BY <1>1 DEF Watched
    <2>1. b \in BOOLEAN /\ took \in Nat /\ "storage" \in Resources
      BY <1>1, <1>2 DEF ReadyTyped, Resources
    <2>2. CASE r = "storage"
      <3>1. since[r][up[r]] = 0 /\ up[r] \in BOOLEAN
        BY <1>1 DEF Present, ReadyTyped
      <3>2. since'["storage"][b] = 0
        BY <1>3, <2>1, <2>2, <3>1
      <3>3. QED
        BY <2>1, <3>2
    <2>3. CASE r # "storage"
      <3>1. b \in seen
        BY <2>3 DEF Flip
      <3>2. since'["storage"][b] = since["storage"][b]
        BY <1>3, <2>1, <2>3
      <3>3. QED
        BY <1>1, <3>1, <3>2 DEF Watched
    <2>4. QED
      BY <2>2, <2>3
  <1>8. Cached'
    <2>1. DirSince' <= DirSince /\ StorageSince' <= StorageSince /\ DirSince' \in Nat /\ StorageSince' \in Nat
      BY <1>2, <1>4 DEF DirSince, StorageSince, Resources
    <2>2. failed # NoFailure => FailedSince' <= FailedSince /\ FailedSince' \in Nat
      <3>1. failed # NoFailure => failed \in Resources
        BY <1>1, SinceTyped, Zenon
      <3>2. \A q \in Resources : since'[q][FALSE] <= since[q][FALSE] /\ since'[q][FALSE] \in Nat
        BY <1>2, <1>4
      <3>3. QED
        BY <1>1, <3>1, <3>2, Zenon DEF FailedSince
    <2>3. UNCHANGED <<mu, age, failed, took>> /\ (Fresh' <=> Fresh) /\ Cached
      BY <1>1, Zenon DEF Fresh
    <2>4. QED
      BY <1>1, <2>1, <2>2, <2>3, SinceTyped, TimesAssumption DEF Cached, Delay
  <1>9. AnswersRecent'
    BY <1>1, NobodyAssumption, NoFailureApart DEF AnswersRecent
  <1>10. QED
    BY <1>5, <1>6, <1>7, <1>8, <1>9 DEF ReadyInv

\* A probe comes in.
LEMMA ArriveKeeps ==
  ASSUME ReadyInv, NEW p \in Probes, Arrive(p)
  PROVE  ReadyInv'
  <1>1. /\ ReadyTyped /\ OneChecks /\ CheckEnds /\ Queue /\ Present /\ Watched /\ Cached
        /\ UNCHANGED <<up, since, mu, age, failed, took, seen>> /\ answer' = Nobody
    BY Zenon DEF ReadyInv, Arrive
  <1>2. ReadyTyped' /\ OneChecks' /\ Queue'
    BY <1>1, TimesAssumption DEF Arrive, ReadyTyped, OneChecks, Queue
  <1>3. CheckEnds' /\ Present' /\ Watched' /\ Cached'
    BY <1>1, Zenon DEF CheckEnds, Present, Watched, Cached, Fresh, DirSince, StorageSince, FailedSince
  <1>4. AnswersRecent'
    BY <1>1, NobodyAssumption, NoFailureApart DEF AnswersRecent
  <1>5. QED
    BY <1>1, <1>2, <1>3, <1>4 DEF ReadyInv

\* A result is reused.
LEMMA ReuseKeeps ==
  ASSUME ReadyInv, NEW p \in Probes, Reuse(p)
  PROVE  ReadyInv'
  <1>1. /\ ReadyTyped /\ OneChecks /\ CheckEnds /\ Queue /\ Present /\ Watched /\ Cached
        /\ UNCHANGED <<up, since, mu, age, failed, took, seen>> /\ answer' = failed /\ Fresh
    BY Zenon DEF ReadyInv, Reuse
  <1>2. ReadyTyped' /\ OneChecks' /\ Queue'
    BY <1>1 DEF Reuse, ReadyTyped, OneChecks, Queue
  <1>3. CheckEnds' /\ Present' /\ Watched' /\ Cached'
    BY <1>1, Zenon DEF CheckEnds, Present, Watched, Cached, Fresh, DirSince, StorageSince, FailedSince
  <1>4. AnswersRecent'
    BY <1>1, CachedAnswer, NoFailureApart, Zenon
    DEF AnswersRecent, DirSince, StorageSince, FailedSince, Resources
  <1>5. QED
    BY <1>2, <1>3, <1>4 DEF ReadyInv

\* The data directory is found not to be writable.
LEMMA DirectoryFailsKeeps ==
  ASSUME ReadyInv, NEW p \in Probes, DirectoryFails(p)
  PROVE  ReadyInv'
  <1>1. /\ ReadyTyped /\ OneChecks /\ CheckEnds /\ Queue /\ Present /\ Watched /\ Cached
        /\ UNCHANGED <<up, since, mu, took, seen>>
        /\ answer' = "data_directory" /\ failed' = "data_directory" /\ age' = 0
        /\ mu = Nobody /\ ~up["data_directory"]
    BY Zenon DEF ReadyInv, DirectoryFails, CheckWritableDir
  <1>2. since["data_directory"][FALSE] = 0
    BY <1>1 DEF ReadyTyped, Present, Resources
  <1>3. ReadyTyped' /\ OneChecks' /\ Queue'
    BY <1>1 DEF DirectoryFails, ReadyTyped, OneChecks, Queue, Resources
  <1>4. CheckEnds' /\ Present' /\ Watched' /\ Cached'
    <2>1. FailedSince' <= age' + Delay(failed')
      BY <1>1, <1>2 DEF FailedSince, Delay
    <2>2. failed' # NoFailure /\ mu' = Nobody
      BY <1>1, NoFailureApart, Zenon DEF Resources
    <2>3. QED
      BY <1>1, <2>1, <2>2, Zenon DEF CheckEnds, Present, Watched, Cached, Delay
  <1>5. AnswersRecent'
    <2>1. 0 < TTL
      BY TimesAssumption
    <2>2. QED
      BY <1>1, <1>2, <2>1, NoFailureApart, Zenon DEF AnswersRecent, Resources
  <1>6. QED
    BY <1>3, <1>4, <1>5 DEF ReadyInv

\* A check of the storage begins: only probes that have not waited are there.
LEMMA BeginCheckKeeps ==
  ASSUME ReadyInv, NEW p \in Probes, BeginCheck(p)
  PROVE  ReadyInv'
  <1>1. /\ ReadyTyped /\ OneChecks /\ CheckEnds /\ Queue /\ Present /\ Watched /\ Cached
        /\ UNCHANGED <<up, since, age, waited, took>>
        /\ answer' = Nobody /\ failed' = NoFailure /\ mu' = p /\ seen' = {up["storage"]}
        /\ mu = Nobody /\ up["data_directory"] /\ ~Fresh /\ p # Nobody
    BY NobodyAssumption, NoFailureApart, Zenon DEF ReadyInv, BeginCheck, CheckWritableDir
  <1>2. took = 0 /\ Nobody \notin Probes
    BY <1>1, NobodyAssumption, NoFailureApart DEF CheckEnds
  <1>3. age # 0
    BY <1>1, TimesAssumption, NobodyAssumption, NoFailureApart DEF Fresh
  <1>4. DirSince' = 0 /\ since'["storage"][up["storage"]] = 0 /\ up["storage"] \in BOOLEAN
    BY <1>1 DEF ReadyTyped, Present, DirSince, Resources
  <1>5. ReadyTyped' /\ OneChecks'
    BY <1>1, <1>2, <1>4 DEF BeginCheck, ReadyTyped, OneChecks
  <1>6. Queue'
    BY <1>1, <1>2, <1>3, TimesAssumption DEF BeginCheck, ReadyTyped, Queue
  <1>7. CheckEnds' /\ Present' /\ Watched' /\ Cached'
    <2>1. ~Fresh' /\ Present' /\ failed' = NoFailure
      BY <1>1, Zenon DEF Fresh, Present
    <2>2. CheckEnds' /\ DirSince' <= took' /\ Watched'
      BY <1>1, <1>2, <1>4, TimesAssumption DEF CheckEnds, Watched
    <2>3. QED
      BY <2>1, <2>2, Zenon DEF Cached
  <1>8. AnswersRecent'
    BY <1>1, NobodyAssumption, NoFailureApart DEF AnswersRecent
  <1>9. QED
    BY <1>5, <1>6, <1>7, <1>8 DEF ReadyInv

\* A check of the storage ends, and its result is good for all who waited.
LEMMA EndCheckKeeps ==
  ASSUME ReadyInv, NEW p \in Probes, EndCheck(p)
  PROVE  ReadyInv'
  <1>1. /\ ReadyTyped /\ OneChecks /\ CheckEnds /\ Queue /\ Present /\ Watched /\ Cached
        /\ UNCHANGED <<up, since>> /\ age' = 0 /\ mu' = Nobody /\ took' = 0
        /\ answer' = failed' /\ failed' \in StorageCheck(seen) /\ seen' = {}
        /\ mu = p /\ p # Nobody /\ Nobody \notin Probes
    BY NobodyAssumption, NoFailureApart, Zenon DEF ReadyInv, EndCheck, OneChecks
  <1>2. PICK ok \in seen : failed' = IF ok THEN NoFailure ELSE "storage"
    BY <1>1 DEF StorageCheck
  <1>3. /\ DirSince' <= CheckTimeout /\ DirSince' \in Nat
        /\ ok \in BOOLEAN /\ since'["storage"][ok] <= CheckTimeout /\ since'["storage"][ok] \in Nat
    <2>1. DirSince <= took /\ took <= CheckTimeout /\ since["storage"][ok] <= took
      BY <1>1, <1>2, Zenon DEF CheckEnds, Cached, Watched
    <2>2. DirSince' = DirSince /\ since' = since
      BY <1>1, Zenon DEF DirSince
    <2>3. ok \in BOOLEAN /\ since["storage"][ok] \in Nat
      BY <1>1, <1>2 DEF ReadyTyped, Resources
    <2>4. QED
      BY <1>1, <2>1, <2>2, <2>3, SinceTyped, TimesAssumption
  <1>4. ReadyTyped' /\ OneChecks' /\ Queue'
    BY <1>1, <1>2 DEF EndCheck, ReadyTyped, OneChecks, Queue, Resources
  <1>5. CheckEnds' /\ Present' /\ Watched' /\ Cached'
    <2>1. CheckEnds' /\ Present' /\ Watched'
      <3>1. 0 <= CheckTimeout
        BY TimesAssumption
      <3>2. QED
        BY <1>1, <3>1, Zenon DEF CheckEnds, Present, Watched
    <2>2. /\ failed' = NoFailure =>
                StorageSince' <= age' + CheckTimeout /\ DirSince' <= age' + CheckTimeout
          /\ failed' # NoFailure => FailedSince' <= age' + Delay(failed')
      <3>1. failed' = NoFailure => StorageSince' <= CheckTimeout /\ StorageSince' \in Nat
        BY <1>2, <1>3, NoFailureApart DEF StorageSince, Resources
      <3>2. failed' # NoFailure =>
               failed' = "storage" /\ FailedSince' <= CheckTimeout /\ FailedSince' \in Nat
        BY <1>2, <1>3 DEF FailedSince
      <3>3. QED
        BY <1>1, <1>3, <3>1, <3>2, TimesAssumption DEF Delay
    <2>3. QED
      BY <1>1, <2>1, <2>2, Zenon DEF Cached, Delay
  <1>6. AnswersRecent'
    <2>1. Fresh'
      BY <1>1, TimesAssumption, NobodyAssumption DEF Fresh
    <2>2. /\ failed' = NoFailure => StorageSince' < Horizon /\ DirSince' < Horizon
          /\ failed' # NoFailure => FailedSince' < IF failed' = "storage" THEN Horizon ELSE TTL
      BY <1>4, <1>5, <2>1, CachedAnswerNext, Zenon
    <2>3. QED
      BY <1>1, <2>2, NoFailureApart, Zenon
      DEF AnswersRecent, DirSince, StorageSince, FailedSince, Resources
  <1>7. QED
    BY <1>4, <1>5, <1>6 DEF ReadyInv

\* Time passes, for the results as for what they say, and for those who wait as
\* for the check they wait for.
LEMMA TickKeeps ==
  ASSUME ReadyInv, Tick
  PROVE  ReadyInv'
  <1>1. /\ ReadyTyped /\ OneChecks /\ CheckEnds /\ Queue /\ Present /\ Watched /\ Cached
        /\ UNCHANGED <<up, mu, failed, probe, seen>> /\ answer' = Nobody
        /\ age' = (IF age = Nobody THEN Nobody ELSE Later(age, TTL))
        /\ took' = (IF mu = Nobody THEN 0 ELSE took + 1)
    BY Zenon DEF ReadyInv, Tick
  <1>2. \A p \in Probes : /\ probe[p] = "waiting" => mu # Nobody
                          /\ probe[p] = "checking" => took < CheckTimeout
                          /\ waited'[p] = IF probe[p] = "idle" THEN 0 ELSE waited[p] + 1
    BY Zenon DEF Tick
  <1>3. \A q \in Resources, b \in BOOLEAN :
           since'[q][b] = IF b = up[q] THEN 0 ELSE Later(since[q][b], Horizon)
    BY DEF Tick
  <1>4. \A q \in Resources, b \in BOOLEAN : since'[q][b] \in Nat /\ since'[q][b] <= since[q][b] + 1
    BY <1>1, <1>3 DEF ReadyTyped, Later
  <1>5. mu # Nobody => mu \in Probes /\ took < CheckTimeout
    BY <1>1, <1>2 DEF CheckEnds, OneChecks
  <1>6. took' \in Nat /\ took' <= CheckTimeout
    BY <1>1, <1>5, TimesAssumption DEF ReadyTyped
  <1>7. /\ age' \in Nat \cup {Nobody}
        /\ age' # Nobody /\ age' < TTL => age \in Nat /\ age' = age + 1 /\ age < TTL
    BY <1>1, TimesAssumption, NobodyAssumption, NoFailureApart DEF ReadyTyped, Later
  <1>8. ReadyTyped'
    <2>1. since' \in [Resources -> [BOOLEAN -> Nat]]
      BY <1>1 DEF Tick, ReadyTyped, Later
    <2>2. waited' \in [Probes -> Nat]
      BY <1>1 DEF Tick, ReadyTyped
    <2>3. QED
      BY <1>1, <1>6, <1>7, <2>1, <2>2, Zenon DEF ReadyTyped
  <1>9. OneChecks' /\ CheckEnds'
    BY <1>1, <1>5, <1>6 DEF OneChecks, CheckEnds
  <1>10. Queue'
    <2> SUFFICES ASSUME NEW p \in Probes, probe[p] # "idle"
                 PROVE  waited'[p] <= CheckTimeout /\ waited'[p] <= took' /\ mu # Nobody
      BY <1>1 DEF Queue
    <2>1. mu # Nobody
      BY <1>1, <1>2, NobodyAssumption, NoFailureApart DEF ReadyTyped, OneChecks
    <2>2. waited[p] <= took /\ waited[p] \in Nat /\ took \in Nat /\ waited'[p] = waited[p] + 1 /\ took' = took + 1
      BY <1>1, <1>2, <2>1 DEF ReadyTyped, Queue
    <2>3. QED
      BY <1>6, <2>1, <2>2, TimesAssumption
  <1>11. Cached'
    <2>1. /\ DirSince' <= DirSince + 1 /\ StorageSince' <= StorageSince + 1
          /\ DirSince' \in Nat /\ StorageSince' \in Nat
      BY <1>4 DEF DirSince, StorageSince, Resources
    <2>2. failed # NoFailure => FailedSince' <= FailedSince + 1 /\ FailedSince' \in Nat
      BY <1>1, <1>4, SinceTyped DEF FailedSince
    <2>3. Fresh' => Fresh /\ age' = age + 1
      BY <1>7, NobodyAssumption DEF Fresh
    <2>4. mu' = mu /\ failed' = failed /\ (mu # Nobody => took' = took + 1)
      BY <1>1, Zenon
    <2>5. Cached /\ ReadyTyped
      BY <1>1, Zenon
    <2>6. QED
      BY <2>1, <2>2, <2>3, <2>4, <2>5, SinceTyped, TimesAssumption DEF Cached, Delay
  <1>12. AnswersRecent'
    BY <1>1, NobodyAssumption, NoFailureApart DEF AnswersRecent
  <1>13. Present'
    BY <1>1, <1>3 DEF ReadyTyped, Present
  <1>14. Watched'
    <2> SUFFICES ASSUME mu # Nobody, NEW b \in seen PROVE since'["storage"][b] <= took'
      BY <1>1 DEF Watched
    <2>1. b \in BOOLEAN /\ took \in Nat /\ since["storage"][b] \in Nat /\ "storage" \in Resources
      BY <1>1 DEF ReadyTyped, Resources
    <2>2. since["storage"][b] <= took /\ took' = took + 1
      BY <1>1, Zenon DEF Watched
    <2>3. QED
      BY <1>4, <2>1, <2>2
  <1>15. QED
    BY <1>8, <1>9, <1>10, <1>11, <1>12, <1>13, <1>14 DEF ReadyInv

\* The invariant of the readiness probes: who holds the mutex, how long a check
\* and those behind it have taken, and how old what the cached result says is.
THEOREM ReadinessInvariant == ServiceSpec => []ReadyInv
  <1>1. ServiceInit => ReadyInv
    BY ReadyInitHolds, Zenon DEF ServiceInit
  <1>2. ReadyInv /\ [ServiceNext]_serviceVars => ReadyInv'
    <2> SUFFICES ASSUME ReadyInv, [ServiceNext]_serviceVars PROVE ReadyInv'
      OBVIOUS
    <2>1. ReadyNext \/ UNCHANGED readyVars
      BY Zenon DEF ServiceNext, serviceVars, Load, Exit, StartChecks, RegisterEndpoints, Listen, Serving
    <2>2. CASE ReadyNext
      BY <2>2, FlipKeeps, ArriveKeeps, ReuseKeeps, DirectoryFailsKeeps, BeginCheckKeeps,
         EndCheckKeeps, TickKeeps, Zenon
      DEF ReadyNext, CheckStep
    <2>3. CASE UNCHANGED readyVars
      BY <2>3, Zenon
      DEF readyVars, ReadyInv, ReadyTyped, OneChecks, CheckEnds, Queue, Present, Watched, Cached,
          AnswersRecent, Fresh, DirSince, StorageSince, FailedSince
    <2>4. QED
      BY <2>1, <2>2, <2>3
  <1>3. QED
    BY <1>1, <1>2, PTL DEF ServiceSpec

\* For any number of probes and any times, an answer of GET /ready is no older
\* than its cache and one check allow.
THEOREM AnswersAreRecent == ServiceSpec => []AnswersRecent
  <1>1. ReadyInv => AnswersRecent
    BY DEF ReadyInv
  <1>2. QED
    BY <1>1, ReadinessInvariant, PTL

\* However many probes queue for the mutex, none waits for longer than one
\* storage check, so that the healthcheck command does not give up.
THEOREM ProbesAreInTime == ServiceSpec => []ProbesInTime
  <1>1. ReadyInv => ProbesInTime
    BY TimesAssumption DEF ReadyInv, ReadyTyped, Queue, ProbesInTime
  <1>2. QED
    BY <1>1, ReadinessInvariant, PTL
-----------------------------------------------------------------------------
(* The settings *)

\* The settings that have a default, those that are put in lower case, and the
\* others, which are texts of their own.
Defaulted == Numbers \cup Durations \cup
    {"listen_address", "data_directory", "log_format", "log_level", "trusted_proxies",
     "backend", "s3_prefix"}

Choices == {"backend", "log_format", "log_level"}

OwnSettings == Setting \ (Choices \cup S3Settings \cup Bools)
S3Texts == S3Settings \ Bools

\* Settings that Load has accepted.
Settled(c) ==
    /\ c = [s \in Setting |-> c[s]]
    /\ \A s \in Defaulted : c[s] # ""
    /\ \A s \in Choices : LowerText(c[s]) = c[s]
    /\ TrimSlash(c["base_url"]) = c["base_url"]
    /\ ParseProblems(c) = {} /\ StorageProblems(c) = {} /\ OptionProblems(c) = {}

\* Texts are put in lower case, and lose a slash, once and for all.
LEMMA TextsOnce ==
  ASSUME NEW t
  PROVE  /\ LowerText(LowerText(t)) = LowerText(t) /\ TrimSlash(TrimSlash(t)) = TrimSlash(t)
         /\ t # "" => LowerText(t) # ""
  <1>1. LowerText(LowerText(t)) = LowerText(t)
    BY Zenon DEF LowerText
  <1>2. TrimSlash(TrimSlash(t)) = TrimSlash(t)
    BY Zenon DEF TrimSlash
  <1>3. t # "" => LowerText(t) # ""
    BY Zenon DEF LowerText
  <1>4. QED
    BY <1>1, <1>2, <1>3, Zenon

\* The settings that have a default.
LEMMA DefaultGiven ==
  ASSUME NEW s, NEW c
  PROVE  s \in Defaulted <=> Default(s, c) # ""
  BY ZenonT(30) DEF Default, Defaulted

\* Which settings they are.
LEMMA Named ==
  /\ Choices \subseteq Setting /\ Defaulted \subseteq Setting
  /\ Choices \cap (S3Settings \cup Bools) = {}
  /\ OwnSettings \cup S3Texts \subseteq Setting \ Choices
  /\ Durations \cup {"base_url", "signing_key", "metrics_address", "listen_address",
                     "max_upload_size", "trusted_proxies"} \subseteq OwnSettings
  /\ {"s3_bucket", "s3_region", "s3_endpoint", "s3_prefix", "s3_access_key_id",
      "s3_secret_access_key"} \subseteq S3Texts
  /\ {"backend", "log_format", "log_level"} \subseteq Choices
  BY SMTT(30)
  DEF OwnSettings, S3Texts, Choices, Defaulted, Setting, S3Settings, Durations,
      PositiveDurations, Numbers, Bools, Secrets

\* Settings that differ in nothing that has a problem of its own.
Agree(a, c) ==
    /\ \A s \in Choices : LowerText(a[s]) = LowerText(c[s])
    /\ \A s \in OwnSettings : a[s] = c[s]
    /\ LowerText(c["backend"]) = "s3" => \A s \in S3Texts : a[s] = c[s]

\* Settings that agree have the same problems.
LEMMA SameProblems ==
  ASSUME NEW a, NEW c, Agree(a, c)
  PROVE  /\ ParseProblems(a) = ParseProblems(c)
         /\ StorageProblems(a) = StorageProblems(c)
         /\ OptionProblems(a) = OptionProblems(c)
  <1>1. ParseProblems(a) = ParseProblems(c)
    <2>1. \A s \in Durations \cup {"signing_key"} : a[s] = c[s]
      BY Named, Zenon DEF Agree
    <2>2. QED
      BY <2>1, Zenon DEF ParseProblems
  <1>2. StorageProblems(a) = StorageProblems(c)
    <2>1. LowerText(a["backend"]) = LowerText(c["backend"])
      BY Named, Zenon DEF Agree
    <2>2. CASE LowerText(c["backend"]) # "s3"
      BY <2>1, <2>2, Zenon DEF StorageProblems
    <2>3. CASE LowerText(c["backend"]) = "s3"
      <3>1. \A s \in {"s3_bucket", "s3_region", "s3_endpoint", "s3_prefix", "s3_access_key_id",
                      "s3_secret_access_key"} : a[s] = c[s]
        BY <2>3, Named, Zenon DEF Agree
      <3>2. a["s3_secret_access_key"] = c["s3_secret_access_key"]
        BY <3>1, Zenon
      <3>3. /\ {s \in {"s3_bucket", "s3_region"} : a[s] = ""} = {s \in {"s3_bucket", "s3_region"} : c[s] = ""}
            /\ {s \in {"s3_endpoint"} : a[s] = "junk"} = {s \in {"s3_endpoint"} : c[s] = "junk"}
            /\ {s \in {"s3_prefix"} : a[s] \in {"/lfs/", "lfs"}} = {s \in {"s3_prefix"} : c[s] \in {"/lfs/", "lfs"}}
        BY <3>1, ZenonT(30)
      <3>4. {s \in {"s3_access_key_id"} : (a[s] = "") # (a["s3_secret_access_key"] = "")}
            = {s \in {"s3_access_key_id"} : (c[s] = "") # (c["s3_secret_access_key"] = "")}
        BY <3>1, <3>2, ZenonT(30)
      <3>5. QED
        BY <2>1, <2>3, <3>3, <3>4, ZenonT(30) DEF StorageProblems
    <2>4. QED
      BY <2>2, <2>3, Zenon
  <1>3. OptionProblems(a) = OptionProblems(c)
    <2>1. \A s \in {"max_upload_size", "base_url", "metrics_address", "listen_address",
                    "trusted_proxies"} : a[s] = c[s]
      BY Named, Zenon DEF Agree
    <2>2. \A s \in {"log_format", "log_level"} : LowerText(a[s]) = LowerText(c[s])
      BY Named, Zenon DEF Agree
    <2>3. MetricsProblem(a) <=> MetricsProblem(c)
      BY <2>1, Zenon DEF MetricsProblem
    <2>4. QED
      BY <2>1, <2>2, <2>3, ZenonT(30) DEF OptionProblems
  <1>4. QED
    BY <1>1, <1>2, <1>3, Zenon

\* What Load accepts is settled.
LEMMA LoadSettles ==
  ASSUME NEW file, NEW env, LoadSettings(file, env).problems = {}
  PROVE  Settled(LoadSettings(file, env).settings)
  <1> DEFINE d == applyDefaults(file)
             c == applyEnvOverrides(d, env)
  <1>1. /\ LoadSettings(file, env).settings = Lowered(c)
        /\ ParseProblems(c) = {} /\ StorageProblems(c) = {} /\ OptionProblems(c) = {}
    <2> HIDE DEF c
    <2>1. /\ LoadSettings(file, env).settings = Lowered(c)
          /\ LoadSettings(file, env).problems
               = EnvProblems(env) \cup ParseProblems(c) \cup StorageProblems(c) \cup OptionProblems(c)
      BY DEF LoadSettings, c
    <2>2. QED
      BY <2>1
  <1>2. \A s \in Setting : d[s] = IF file[s] = "" THEN Default(s, file)
                                  ELSE IF s = "base_url" THEN TrimSlash(file[s]) ELSE file[s]
    BY Zenon DEF applyDefaults
  <1>3. \A s \in Setting : c[s] = IF env[s] = "" \/ RefusedEnv(s, env[s]) THEN d[s]
                                  ELSE IF s = "base_url" THEN TrimSlash(env[s]) ELSE env[s]
    BY Zenon DEF applyEnvOverrides
  <1> HIDE DEF c, d
  <1>4. \A s \in Setting : Lowered(c)[s] = IF s \in Choices THEN LowerText(c[s]) ELSE c[s]
    BY Zenon DEF Lowered, Choices
  <1>5. \A s \in Defaulted : s \in Setting /\ s # "base_url"
    BY Named, Zenon DEF OwnSettings, Defaulted, Numbers, Durations, PositiveDurations
  <1>6. \A s \in Defaulted : Lowered(c)[s] # ""
    BY <1>2, <1>3, <1>4, <1>5, DefaultGiven, TextsOnce, ZenonT(30)
  <1>7. \A s \in Choices : LowerText(Lowered(c)[s]) = Lowered(c)[s]
    BY <1>4, Named, TextsOnce, ZenonT(30)
  <1>8. TrimSlash(Lowered(c)["base_url"]) = Lowered(c)["base_url"]
    <2>1. "base_url" \in Setting /\ "base_url" \notin Choices /\ "base_url" \notin Defaulted
      BY Named, Zenon DEF OwnSettings, Defaulted, Numbers, Durations, PositiveDurations
    <2>2. TrimSlash("") = ""
      BY Zenon DEF TrimSlash
    <2>3. Default("base_url", file) = ""
      BY <2>1, DefaultGiven, Zenon
    <2>4. \E t : d["base_url"] = TrimSlash(t)
      BY <1>2, <2>1, <2>2, <2>3, Zenon
    <2>5. \E t : c["base_url"] = TrimSlash(t)
      BY <1>3, <2>1, <2>4, Zenon
    <2>6. Lowered(c)["base_url"] = c["base_url"]
      BY <1>4, <2>1, Zenon
    <2>7. QED
      BY <2>5, <2>6, TextsOnce, Zenon
  <1>9. Agree(Lowered(c), c)
    BY <1>4, Named, TextsOnce, ZenonT(30) DEF Agree
  <1>10. Lowered(c) = [s \in Setting |-> Lowered(c)[s]]
    BY Zenon DEF Lowered
  <1>11. QED
    BY <1>1, <1>6, <1>7, <1>8, <1>9, <1>10, SameProblems, ZenonT(30) DEF Settled

\* A Boolean that is printed is not empty, and reads back.
LEMMA EnabledOnce ==
  ASSUME NEW s, NEW v
  PROVE  Enabled(s, v) # "" /\ Enabled(s, Enabled(s, v)) = Enabled(s, v)
  BY Zenon DEF Enabled

\* Without environment variables, the file's settings and the defaults are what
\* is loaded.
LEMMA LoadFile ==
  ASSUME NEW file
  PROVE  LET c == applyDefaults(file)
             load == LoadSettings(file, Absent)
         IN  /\ load.settings = Lowered(c)
             /\ load.problems = ParseProblems(c) \cup StorageProblems(c) \cup OptionProblems(c)
  <1> DEFINE c == applyDefaults(file)
             d == applyEnvOverrides(c, Absent)
  <1>1. \A s \in Setting : Absent[s] = ""
    BY Zenon DEF Absent
  <1>2. EnvProblems(Absent) = {}
    BY <1>1, Zenon DEF EnvProblems
  <1>3. d = c
    <2>1. d = [s \in Setting |-> c[s]]
      BY <1>1, Zenon DEF applyEnvOverrides
    <2>2. c = [s \in Setting |-> c[s]]
      BY Zenon DEF applyDefaults
    <2>3. QED
      BY <2>1, <2>2, Zenon
  <1>4. /\ LoadSettings(file, Absent).settings = Lowered(d)
        /\ LoadSettings(file, Absent).problems
             = EnvProblems(Absent) \cup ParseProblems(d) \cup StorageProblems(d) \cup OptionProblems(d)
    <2> HIDE DEF d
    <2>1. QED
      BY DEF LoadSettings, d
  <1> HIDE DEF c, d
  <1>5. QED
    BY <1>2, <1>3, <1>4 DEF c

\* Nothing is redacted, and nothing left out that has another default.
AllPrinted(c) == NoSecrets(c) /\ (c["backend"] = "s3" => c["s3_prefix"] # "empty")

\* What is printed of settled settings loads again as it was.
LEMMA ReloadSame ==
  ASSUME NEW c, Settled(c), AllPrinted(c)
  PROVE  LET again == LoadSettings(Printed(effectiveConfig(c)), Absent)
         IN  again.problems = {} /\ InUse(again.settings) = InUse(c)
  <1> DEFINE e == effectiveConfig(c)
             p == Printed(e)
             a == applyDefaults(p)
  <1>1. \A s \in Setting :
           e[s] = IF s \in S3Settings /\ c["backend"] # "s3" THEN ""
                  ELSE IF s \in Bools THEN Enabled(s, c[s])
                  ELSE IF s \in {"signing_key", "s3_secret_access_key"} /\ c[s] # "" THEN "redacted"
                  ELSE c[s]
    BY Zenon DEF effectiveConfig
  <1>2. \A s \in Setting : p[s] = IF s = "s3_prefix" /\ e[s] = "empty" THEN "" ELSE e[s]
    BY Zenon DEF Printed
  <1>3. \A s \in Setting : a[s] = IF p[s] = "" THEN Default(s, p)
                                  ELSE IF s = "base_url" THEN TrimSlash(p[s]) ELSE p[s]
    BY Zenon DEF applyDefaults
  <1>4. LET again == LoadSettings(p, Absent)
        IN  /\ again.settings = Lowered(a)
            /\ again.problems = ParseProblems(a) \cup StorageProblems(a) \cup OptionProblems(a)
    BY LoadFile, Zenon
  <1> HIDE DEF e, p, a
  <1>5. /\ {"s3_prefix", "s3_secret_access_key"} \subseteq S3Settings \ Bools
        /\ "base_url" \notin Bools /\ Bools \subseteq Setting
    BY Zenon DEF S3Settings, Bools, Setting
  <1>6. ASSUME NEW s \in Setting, s \notin S3Settings \/ c["backend"] = "s3"
        PROVE  a[s] = IF s \in Bools THEN Enabled(s, c[s]) ELSE c[s]
    <2>1. CASE s \in Bools
      <3>1. e[s] = Enabled(s, c[s]) /\ e[s] # ""
        BY <1>1, <1>6, <2>1, EnabledOnce, Zenon
      <3>2. p[s] = e[s]
        BY <1>2, <1>5, <2>1, Zenon
      <3>3. QED
        BY <1>3, <1>5, <2>1, <3>1, <3>2, Zenon
    <2>2. CASE s \notin Bools
      <3>1. s \in {"signing_key", "s3_secret_access_key"} => c[s] = ""
        BY <1>5, <1>6, Zenon DEF AllPrinted, NoSecrets
      <3>2. e[s] = c[s]
        BY <1>1, <1>6, <2>2, <3>1, Zenon
      <3>3. s = "s3_prefix" => c[s] # "empty"
        BY <1>5, <1>6, Zenon DEF AllPrinted
      <3>4. p[s] = c[s]
        BY <1>2, <3>2, <3>3, Zenon
      <3>5. c[s] = "" => Default(s, p) = ""
        BY DefaultGiven, Zenon DEF Settled
      <3>6. QED
        BY <1>3, <2>2, <3>4, <3>5, Zenon DEF Settled
    <2>3. QED
      BY <2>1, <2>2, Zenon
  <1>7. \A s \in Choices \cup OwnSettings : s \in Setting /\ a[s] = c[s]
    BY <1>6, Named, Zenon DEF OwnSettings
  <1>8. a["backend"] = c["backend"] /\ LowerText(c["backend"]) = c["backend"] /\ "backend" \in Choices
    BY <1>7, Named, Zenon DEF Settled
  <1>9. Agree(a, c)
    <2>1. ASSUME c["backend"] = "s3", NEW s \in S3Texts PROVE a[s] = c[s]
      BY <1>6, <2>1, Named, Zenon DEF S3Texts
    <2>2. QED
      BY <1>7, <1>8, <2>1, Zenon DEF Agree
  <1>10. ParseProblems(a) = {} /\ StorageProblems(a) = {} /\ OptionProblems(a) = {}
    BY <1>9, SameProblems, Zenon DEF Settled
  <1>11. \A s \in Setting : Lowered(a)[s] = IF s \in Choices THEN LowerText(a[s]) ELSE a[s]
    BY Zenon DEF Lowered, Choices
  <1>12. \A s \in Setting : Lowered(a)[s] = a[s]
    BY <1>7, <1>11, Zenon DEF Settled
  <1>13. Lowered(a)["backend"] = c["backend"]
    BY <1>7, <1>8, <1>12, Zenon
  <1>14. ASSUME NEW s \in IF c["backend"] = "s3" THEN Setting ELSE Setting \ S3Settings
         PROVE  (IF s \in Bools THEN Enabled(s, Lowered(a)[s]) ELSE Lowered(a)[s])
                = (IF s \in Bools THEN Enabled(s, c[s]) ELSE c[s])
    <2>1. s \in Setting /\ (s \notin S3Settings \/ c["backend"] = "s3")
      BY Zenon
    <2>2. Lowered(a)[s] = IF s \in Bools THEN Enabled(s, c[s]) ELSE c[s]
      BY <1>6, <1>12, <2>1, Zenon
    <2>3. QED
      BY <2>2, EnabledOnce, Zenon
  <1>15. InUse(Lowered(a)) = InUse(c)
    BY <1>13, <1>14, ZenonT(30) DEF InUse
  <1>16. ParseProblems(a) \cup StorageProblems(a) \cup OptionProblems(a) = {}
    BY <1>10
  <1>17. QED
    BY <1>4, <1>15, <1>16, Zenon DEF p, e

\* Endpoints are only registered with settings that have no problem.
SettingsChecked == stage \in {"register", "registered"} => Loaded.problems = {}

\* For any settings in the file and in the environment, what check prints is
\* valid as a file and gives the settings that serve would use, unless it does
\* not print all of them.
THEOREM PrintedIsServed == ServiceSpec => []CheckPrintsWhatServes
  <1>1. ServiceInit => SettingsChecked
    BY Zenon DEF ServiceInit, Init, SettingsChecked
  <1>2. SettingsChecked /\ [ServiceNext]_serviceVars => SettingsChecked'
    <2> SUFFICES ASSUME SettingsChecked, [ServiceNext]_serviceVars PROVE SettingsChecked'
      OBVIOUS
    <2>1. input' = input
      BY Zenon DEF ServiceNext, serviceVars, Load, Exit, StartChecks, RegisterEndpoints, Listen, Serving
    <2>2. Loaded' = Loaded
      BY <2>1, Zenon DEF Loaded
    <2>3. CASE Load
      <3>1. Validate \/ Parse => stage' = stage
        BY Zenon DEF Validate, Parse
      <3>2. ASSUME EndLoop(Loaded.problems = {}), stage \in {"validate", "parse"},
                   stage' \in {"register", "registered"}
            PROVE  Loaded.problems = {}
        BY <3>2, Zenon DEF EndLoop
      <3>3. QED
        BY <2>2, <2>3, <3>1, <3>2, Zenon DEF Load, SettingsChecked
    <2>4. CASE RegisterEndpoints
      BY <2>2, <2>4, Zenon DEF RegisterEndpoints, SettingsChecked
    <2>5. CASE Exit \/ StartChecks \/ Listen \/ Serving \/ UNCHANGED serviceVars
      <3>1. stage' = stage
        BY <2>5, Zenon DEF Exit, StartChecks, Listen, Serving, serviceVars, vars
      <3>2. QED
        BY <2>2, <3>1, Zenon DEF SettingsChecked
    <2>6. QED
      BY <2>3, <2>4, <2>5, Zenon DEF ServiceNext
  <1>3. SettingsChecked => CheckPrintsWhatServes
    <2> SUFFICES ASSUME SettingsChecked, stage = "register", AllPrinted(Loaded.settings)
                 PROVE  LET c == Loaded.settings
                            again == LoadSettings(Printed(effectiveConfig(c)), Absent)
                        IN  again.problems = {} /\ InUse(again.settings) = InUse(c)
      BY Zenon DEF CheckPrintsWhatServes, PrintsInUse, AllPrinted
    <2>1. Loaded.problems = {}
      BY Zenon DEF SettingsChecked
    <2>2. Settled(Loaded.settings)
      BY <2>1, LoadSettles, Zenon DEF Loaded
    <2>3. QED
      BY <2>2, ReloadSame, Zenon
  <1>4. QED
    BY <1>1, <1>2, <1>3, PTL DEF ServiceSpec
=============================================================================
