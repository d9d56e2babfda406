----------------------------- MODULE GitHubAuth -----------------------------
(***************************************************************************)
(* The GitHub authenticator (auth/github.go): what one token may do to one *)
(* repository, cached for a while and looked up once for all requests that *)
(* ask at the same time.  Keys (token, endpoint) share nothing but the     *)
(* mutex and the sweeper, so one key is modelled.                          *)
(*                                                                         *)
(* A lookup ("fetch") asks for the repository and then the user; whether   *)
(* the token itself may read or write contents is probed only when an      *)
(* operation needs to know.  Lookups run in goroutines of their own        *)
(* (singleflight's DoChan) and go on when a caller's request is cancelled. *)
(*                                                                         *)
(* GitHub's side may change at any time: past keeps what it used to say    *)
(* and how long ago that ended.                                            *)
(***************************************************************************)
EXTENDS Integers, FiniteSets

CONSTANTS
    Callers,      \* requests being authenticated
    Grants,       \* what GitHub may hold about the token and the repository
    None,         \* nothing
    TTL,          \* cacheTTL
    InvalidTTL,   \* invalidTokenCacheTTL
    MaxFlight,    \* longest a lookup takes: the HTTP client's timeouts
    MaxChanges,   \* bound: changes at GitHub
    MaxLeaves     \* bound: requests cancelled

Ops == {"download", "upload"}

\* The token is valid; the repository is visible to it; GitHub reports
\* permissions and tells whose token it is; the repository is private; the
\* owner's role; what the token may do with the contents.
Grant == [valid : BOOLEAN, visible : BOOLEAN, perms : BOOLEAN, user : BOOLEAN, private : BOOLEAN,
          pull : BOOLEAN, push : BOOLEAN, maintainer : BOOLEAN,
          read : BOOLEAN, write : BOOLEAN]

ASSUME GrantsAssumption == Grants \subseteq Grant

ASSUME TimesAssumption ==
    /\ TTL \in Nat /\ InvalidTTL \in Nat /\ MaxFlight \in Nat
    /\ MaxChanges \in Nat /\ MaxLeaves \in Nat

Probe == {"unchecked", "allowed", "denied"}

Access == [authenticated : BOOLEAN, private : BOOLEAN, pull : BOOLEAN, push : BOOLEAN,
           maintainer : BOOLEAN, read : Probe, write : Probe]

\* A lookup under way: its step, the caller whose variables its closure has
\* captured, the access so far, whether that is to be cached, its age, its
\* waiters.
Flight == [step : {"new", "user", "store"}, owner : Callers \cup {None},
           acc : Access \cup {None}, keep : BOOLEAN, age : Nat, waiters : SUBSET Callers]

ASSUME NoneAssumption == None \notin Flight

\* access{} and access{authenticated: true}
NoAccess ==
    [authenticated |-> FALSE, private |-> FALSE, pull |-> FALSE, push |-> FALSE,
     maintainer |-> FALSE, read |-> "unchecked", write |-> "unchecked"]
Known == [NoAccess EXCEPT !.authenticated = TRUE]

\* What fetchAccess makes of GitHub's answers.
Granted(g) ==
    [authenticated |-> TRUE, private |-> g.private, pull |-> g.pull, push |-> g.push,
     maintainer |-> g.maintainer, read |-> "unchecked", write |-> "unchecked"]

\* result(op)
Authorized(a, op) ==
    IF op = "download"
    THEN a.pull /\ (~a.private \/ a.read = "allowed")
    ELSE a.push /\ a.write = "allowed"

needsProbe(a, op) ==
    IF op = "download"
    THEN a.pull /\ a.private /\ a.read = "unchecked"
    ELSE a.push /\ a.write = "unchecked"

withProbe(a, op, outcome) ==
    IF op = "download" THEN [a EXCEPT !.read = outcome] ELSE [a EXCEPT !.write = outcome]

\* Mutant: the 422 an allowed write is answered with counts as a refusal.
OutcomeOfStatus(g, op) ==
    IF op = "download" /\ g.visible /\ g.read THEN "allowed" ELSE "denied"

\* probeOutcome of ListCommits and CreateBlob.
Outcome(g, op) ==
    IF g.visible /\ (IF op = "download" THEN g.read ELSE g.write) THEN "allowed" ELSE "denied"

VARIABLES
    grant,     \* what GitHub holds now
    past,      \* what it held before, and for how long it has not
    cache,     \* the cache entry and the time it has left, or None
    flights,   \* flights[k]: the lookup under way for key k, or None
    pc,        \* pc[c]: step of caller c
    op,        \* op[c]: the operation it authenticates
    acc,       \* acc[c]: its access once known
    failing,   \* GitHub failed some lookup while the caller waited
    leaves     \* requests cancelled

vars == <<grant, past, cache, flights, pc, op, acc, failing, leaves>>
callerVars == <<pc, op, acc, failing>>

Bound == TTL + 2 * MaxFlight   \* the longest anything is remembered

Keys == {"fetch"} \cup Ops

Init ==
    /\ grant \in Grants
    /\ past = {}
    /\ cache = None
    /\ flights = [k \in Keys |-> None]
    /\ pc = [c \in Callers |-> "idle"]
    /\ op = [c \in Callers |-> None]
    /\ acc = [c \in Callers |-> NoAccess]
    /\ failing = [c \in Callers |-> FALSE]
    /\ leaves = 0

\* cacheLookup: expires is not yet past.
Cached == cache # None /\ cache.left >= 0

\* Mutant: an invalid token is remembered as long as a valid one.
StoreAsValid(a) == cache' = IF TTL = 0 THEN cache ELSE [acc |-> a, left |-> TTL]

cacheStoreIfEnabled(a) ==
    LET ttl == IF a.authenticated \/ TTL < InvalidTTL THEN TTL ELSE InvalidTTL
    IN  cache' = IF ttl = 0 THEN cache ELSE [acc |-> a, left |-> ttl]

-----------------------------------------------------------------------------
(* Authenticate: the callers. *)

\* DoChan: join the lookup under way for k, or start one.
share(c, k, a) ==
    flights' = [flights EXCEPT ![k] =
        IF flights[k] # None THEN [flights[k] EXCEPT !.waiters = @ \cup {c}]
        ELSE [step |-> "new", owner |-> c, acc |-> a, keep |-> FALSE,
              age |-> 0, waiters |-> {c}]]

\* A caller with its access probes, or has its result.
AfterLookup(a, o) == IF needsProbe(a, o) THEN "probe" ELSE "result"

LookupHit(c) ==
    /\ pc[c] = "idle"
    /\ Cached
    /\ \E o \in Ops :
          /\ op' = [op EXCEPT ![c] = o]
          /\ acc' = [acc EXCEPT ![c] = cache.acc]
          /\ pc' = [pc EXCEPT ![c] = AfterLookup(cache.acc, o)]
    /\ UNCHANGED <<grant, past, cache, flights, failing, leaves>>

LookupMiss(c) ==
    /\ pc[c] = "idle"
    /\ ~Cached
    /\ cache' = None
    /\ \E o \in Ops : op' = [op EXCEPT ![c] = o]
    /\ pc' = [pc EXCEPT ![c] = "miss"]
    /\ UNCHANGED <<grant, past, flights, acc, failing, leaves>>

ShareFetch(c) ==
    /\ pc[c] = "miss"
    /\ share(c, "fetch", None)
    /\ pc' = [pc EXCEPT ![c] = "fetching"]
    /\ UNCHANGED <<grant, past, cache, op, acc, failing, leaves>>

ShareProbe(c) ==
    /\ pc[c] = "probe"
    /\ share(c, op[c], acc[c])
    /\ pc' = [pc EXCEPT ![c] = "probing"]
    /\ UNCHANGED <<grant, past, cache, op, acc, failing, leaves>>

\* Authenticate returns its result or error.
Return(c) ==
    /\ pc[c] \in {"result", "error"}
    /\ pc' = [pc EXCEPT ![c] = "idle"]
    /\ op' = [op EXCEPT ![c] = None]
    /\ acc' = [acc EXCEPT ![c] = NoAccess]
    /\ failing' = [failing EXCEPT ![c] = FALSE]
    /\ UNCHANGED <<grant, past, cache, flights, leaves>>

\* Mutant: the lookup is cancelled with the request that started it.
LeaveCancels(c) ==
    /\ pc[c] \in {"fetching", "probing"}
    /\ leaves < MaxLeaves
    /\ leaves' = leaves + 1
    /\ LET k == IF pc[c] = "fetching" THEN "fetch" ELSE op[c]
           others == IF flights[k].owner = c THEN flights[k].waiters \ {c} ELSE {}
       IN  /\ flights' = [flights EXCEPT ![k] =
                   IF @.owner = c THEN None ELSE [@ EXCEPT !.waiters = @ \ {c}]]
           /\ pc' = [d \in Callers |-> IF d = c THEN "idle"
                                       ELSE IF d \in others THEN "error" ELSE pc[d]]
    /\ op' = [op EXCEPT ![c] = None]
    /\ acc' = [acc EXCEPT ![c] = NoAccess]
    /\ UNCHANGED <<grant, past, cache, failing>>

\* The request is cancelled and share returns access{} and an error.  The
\* closure of a probe captured the variable that this is assigned to: a probe
\* whose goroutine has not begun will find access{} there.
Leave(c) ==
    /\ pc[c] \in {"fetching", "probing"}
    /\ leaves < MaxLeaves
    /\ leaves' = leaves + 1
    /\ LET k == IF pc[c] = "fetching" THEN "fetch" ELSE op[c]
       IN  flights' = [flights EXCEPT ![k] =
               [flights[k] EXCEPT
                         !.waiters = @ \ {c},
                         !.acc = IF flights[k].owner = c /\ flights[k].step = "new" /\ k # "fetch"
                                 THEN NoAccess ELSE @,
                         !.owner = IF @ = c THEN None ELSE @]]
    /\ pc' = [pc EXCEPT ![c] = "idle"]
    /\ op' = [op EXCEPT ![c] = None]
    /\ acc' = [acc EXCEPT ![c] = NoAccess]
    /\ failing' = [failing EXCEPT ![c] = FALSE]
    /\ UNCHANGED <<grant, past, cache>>

-----------------------------------------------------------------------------
(* The lookups. *)

\* The lookup for k ends and its waiters get a.
Deliver(k, a) ==
    LET W == flights[k].waiters
    IN  /\ flights' = [flights EXCEPT ![k] = None]
        /\ acc' = [c \in Callers |-> IF c \in W THEN a ELSE acc[c]]
        /\ pc' = [c \in Callers |->
                    IF c \notin W THEN pc[c]
                    ELSE IF k = "fetch" THEN AfterLookup(a, op[c]) ELSE "result"]

\* The lookup for k goes on to step s with access a.
Continue(k, s, a, keep) ==
    flights' = [flights EXCEPT ![k] = [@ EXCEPT !.step = s, !.acc = a, !.keep = keep]]

\* Mutant: the callers waiting for a failed lookup are not told.
LookupFailsSilently(k) ==
    /\ flights[k] # None
    /\ flights[k].step = "user" \/ (flights[k].step = "new" /\ k = "fetch")
    /\ flights' = [flights EXCEPT ![k] = None]
    /\ UNCHANGED <<grant, past, cache, callerVars, leaves>>

\* GitHub is unreachable, fails or limits the rate: nothing is cached.
LookupFails(k) ==
    /\ flights[k] # None
    /\ flights[k].step = "user" \/ (flights[k].step = "new" /\ k = "fetch")
    /\ LET W == flights[k].waiters
       IN  /\ pc' = [c \in Callers |-> IF c \in W THEN "error" ELSE pc[c]]
           /\ failing' = [c \in Callers |-> c \in W \/ failing[c]]
    /\ flights' = [flights EXCEPT ![k] = None]
    /\ UNCHANGED <<grant, past, cache, op, acc, leaves>>

\* fetchAccess: Repositories.Get answers 401, 403 or 404, or without
\* permissions; otherwise the user is asked for.
FetchRepo ==
    /\ flights["fetch"] # None
    /\ flights["fetch"].step = "new"
    /\ \/ ~grant.valid /\ Continue("fetch", "store", NoAccess, TRUE)
       \/ grant.valid /\ ~grant.visible /\ Continue("fetch", "store", Known, TRUE)
       \/ grant.valid /\ grant.visible /\ ~grant.perms /\ Continue("fetch", "store", Known, FALSE)
       \/ grant.valid /\ grant.visible /\ grant.perms /\ Continue("fetch", "user", Granted(grant), FALSE)
    /\ UNCHANGED <<grant, past, cache, callerVars, leaves>>

\* Users.Get: a refusal is not cached.
FetchUser ==
    /\ flights["fetch"] # None
    /\ flights["fetch"].step = "user"
    /\ \/ ~grant.valid /\ Continue("fetch", "store", NoAccess, FALSE)
       \/ grant.valid /\ ~grant.user /\ Continue("fetch", "store", Known, FALSE)
       \/ grant.valid /\ grant.user /\ Continue("fetch", "store", flights["fetch"].acc, TRUE)
    /\ UNCHANGED <<grant, past, cache, callerVars, leaves>>

FetchEnds ==
    /\ flights["fetch"] # None
    /\ flights["fetch"].step = "store"
    /\ IF flights["fetch"].keep THEN cacheStoreIfEnabled(flights["fetch"].acc) ELSE cache' = cache
    /\ Deliver("fetch", flights["fetch"].acc)
    /\ UNCHANGED <<grant, past, op, failing, leaves>>

\* probeContents: another request may have recorded the answer meanwhile.
ProbeKnown(o) ==
    /\ flights[o] # None
    /\ flights[o].step = "new"
    /\ Cached
    /\ ~needsProbe(cache.acc, o)
    /\ Deliver(o, cache.acc)
    /\ UNCHANGED <<grant, past, cache, op, failing, leaves>>

ProbeStarts(o) ==
    /\ flights[o] # None
    /\ flights[o].step = "new"
    /\ ~(Cached /\ ~needsProbe(cache.acc, o))
    /\ cache' = IF Cached THEN cache ELSE None
    /\ Continue(o, "user", flights[o].acc, FALSE)
    /\ UNCHANGED <<grant, past, callerVars, leaves>>

\* ListCommits or CreateBlob answers; 401 means the token has become invalid.
ProbeCalls(o) ==
    /\ flights[o] # None
    /\ flights[o].step = "user"
    /\ \/ ~grant.valid /\ Continue(o, "store", NoAccess, TRUE)
       \/ grant.valid /\ Continue(o, "store", withProbe(flights[o].acc, o, Outcome(grant, o)), FALSE)
    /\ UNCHANGED <<grant, past, cache, callerVars, leaves>>

\* Mutant: the outcome is cached with the access it was probed for, anew.
ProbeRenews(o) ==
    /\ flights[o] # None
    /\ flights[o].step = "store"
    /\ cacheStoreIfEnabled(flights[o].acc)
    /\ Deliver(o, flights[o].acc)
    /\ UNCHANGED <<grant, past, op, failing, leaves>>

\* cacheRecordProbe: on whatever entry there is by now, also a newer one.
ProbeEnds(o) ==
    /\ flights[o] # None
    /\ flights[o].step = "store"
    /\ LET f == flights[o]
           outcome == IF o = "download" THEN f.acc.read ELSE f.acc.write
       IN  /\ IF f.keep THEN cacheStoreIfEnabled(f.acc)
              ELSE cache' = IF cache = None THEN None
                            ELSE [cache EXCEPT !.acc = withProbe(@, o, outcome)]
           /\ Deliver(o, f.acc)
    /\ UNCHANGED <<grant, past, op, failing, leaves>>

-----------------------------------------------------------------------------
(* The sweeper, GitHub and time. *)

Sweep ==
    /\ cache # None
    /\ cache.left < 0
    /\ cache' = None
    /\ UNCHANGED <<grant, past, flights, callerVars, leaves>>

\* Someone changes the repository, the role or the token.
GrantChanges ==
    /\ \E g \in Grants \ {grant} : grant' = g
    /\ past' = past \cup {[grant |-> grant, ago |-> 0, nth |-> Cardinality(past)]}
    /\ Cardinality(past) < MaxChanges
    /\ UNCHANGED <<cache, flights, callerVars, leaves>>

\* Time passes, but not past the timeout of a lookup, nor for a caller that has
\* what it needs to go on.
Tick ==
    /\ \A c \in Callers : pc[c] \in {"idle", "fetching", "probing"}
    /\ \A k \in Keys : flights[k] # None => flights[k].age < MaxFlight
    /\ flights' = [k \in Keys |-> IF flights[k] = None THEN None
                                  ELSE [flights[k] EXCEPT !.age = @ + 1]]
    /\ cache' = IF cache = None THEN None
                ELSE [cache EXCEPT !.left = IF @ < 0 THEN @ ELSE @ - 1]
    /\ past' = {[p EXCEPT !.ago = IF @ > Bound THEN @ ELSE @ + 1] : p \in past}
    /\ UNCHANGED <<grant, callerVars, leaves>>

Lookup(k) ==
    \/ LookupFails(k)
    \/ k = "fetch" /\ (FetchRepo \/ FetchUser \/ FetchEnds)
    \/ k \in Ops /\ (ProbeKnown(k) \/ ProbeStarts(k) \/ ProbeCalls(k) \/ ProbeEnds(k))

Authenticate(c) == LookupHit(c) \/ LookupMiss(c) \/ ShareFetch(c) \/ ShareProbe(c) \/ Return(c)

Next ==
    \/ \E c \in Callers : Authenticate(c) \/ Leave(c)
    \/ \E k \in Keys : Lookup(k)
    \/ Sweep \/ GrantChanges \/ Tick

Spec == Init /\ [][Next]_vars

-----------------------------------------------------------------------------
(* Properties *)

\* What GitHub holds or held at most b ago.
Recent(b) == {grant} \cup {p.grant : p \in {q \in past : q.ago <= b}}

RoleOK(g, o) ==
    g.valid /\ g.visible /\ g.perms /\ (IF o = "download" THEN g.pull ELSE g.push)

ContentsOK(g, o) ==
    IF o = "download" THEN ~g.private \/ g.read ELSE g.write

\* A caller is authorised only by what GitHub granted within the cache TTL and
\* the time two lookups take: neither a probe recorded on a newer entry, nor
\* one that outlives its entry, keeps a revoked role, token or maintainer's
\* right alive any longer.
RevocationBounded ==
    \A c \in Callers : pc[c] = "result" /\ Authorized(acc[c], op[c]) =>
        /\ \E g \in Recent(Bound) : RoleOK(g, op[c]) /\ (acc[c].maintainer => g.maintainer)
        /\ \E g \in Recent(Bound) : ContentsOK(g, op[c])

\* A caller is refused only by what GitHub refused within that time: a lookup
\* for the other operation, or one overtaken by another, never leaves a
\* refusal GitHub did not give, as long as no caller has left (see
\* RejectedOnlyIfInvalid).
RefusalBounded ==
    \A c \in Callers : leaves = 0 /\ pc[c] = "result" /\ ~Authorized(acc[c], op[c]) =>
        \E g \in Recent(Bound) :
            ~(RoleOK(g, op[c]) /\ g.user /\ ContentsOK(g, op[c]))

\* A caller is told its credentials are invalid only if GitHub rejected the
\* token within invalidTokenCacheTTL and the time two lookups take.  A caller
\* that leaves breaks this for those who stay (Leave).
RejectedOnlyIfInvalid ==
    \A c \in Callers : pc[c] = "result" /\ ~acc[c].authenticated =>
        \E g \in Recent(InvalidTTL + 2 * MaxFlight) : ~g.valid

\* It holds as long as no caller leaves: neither the cache, which remembers an
\* invalid token for less time than a valid one, nor a shared lookup rejects a
\* token for longer.
RejectedWithoutLeavers == leaves = 0 => RejectedOnlyIfInvalid

\* An error reaches a caller only from GitHub: that another caller, the one
\* that started the shared lookup included, leaves is not an error (share).
ErrorsFromGitHub == \A c \in Callers : pc[c] = "error" => failing[c]

\* A caller that waits is a waiter of the lookup it waits for, which is still
\* under way: nobody waits for an answer that was given without it, whoever
\* leaves and however the lookup ends.
NobodyForgotten ==
    \A c \in Callers :
        /\ pc[c] = "fetching" => flights["fetch"] # None /\ c \in flights["fetch"].waiters
        /\ pc[c] = "probing" => flights[op[c]] # None /\ c \in flights[op[c]].waiters
=============================================================================
