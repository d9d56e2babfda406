----------------------------- MODULE Readiness -----------------------------
(***************************************************************************)
(* GET /ready (readiness.go): probes that share one cached result under a  *)
(* mutex, while the data directory and the storage backend come and go.    *)
(*                                                                         *)
(* Time passes in Tick.  A mutex that is free is taken, and a cached result*)
(* returned, in no time; the write check of the data directory takes no    *)
(* time either, as it is a local file.  The storage check, which may be a  *)
(* request to S3, takes up to its timeout; its outcome may be decided at   *)
(* any moment of that, and be known only later.  Storage that does not     *)
(* answer within the timeout is down.  A client that gives up makes no     *)
(* difference: the checks run without its cancellation, and a mutex cannot *)
(* be given up.                                                            *)
(***************************************************************************)
EXTENDS Naturals

CONSTANTS
    Probes,              \* concurrent requests for GET /ready
    Nobody,              \* the mutex is free, no result, no answer
    TTL,                 \* readinessCacheTTL
    CheckTimeout,        \* readinessCheckTimeout
    HealthcheckTimeout   \* how long the healthcheck command waits

ASSUME TimesAssumption ==
    /\ TTL \in Nat \ {0} /\ CheckTimeout \in Nat /\ HealthcheckTimeout \in Nat
    /\ CheckTimeout < HealthcheckTimeout

Resources == {"data_directory", "storage"}

NoFailure == ""    \* the result when no check failed

ASSUME NobodyAssumption == Nobody \notin Nat \cup Probes \cup Resources \cup {NoFailure}

VARIABLES
    up,        \* up[r]: does a check of resource r pass?
    since,     \* since[r][b]: time since r was last up (b) or down (~b)
    mu,        \* the probe that holds the mutex
    age,       \* time since checkedAt
    failed,    \* the cached result: the resource that failed, or NoFailure
    probe,     \* probe[p]: "idle", "waiting" or "checking"
    waited,    \* waited[p]: time since p's request came in
    took,      \* time since the storage check began
    seen,      \* conditions (up or not) that storage has been in since then
    answer     \* the answer given in this step

readyVars == <<up, since, mu, age, failed, probe, waited, took, seen, answer>>

Horizon == TTL + CheckTimeout

\* newReadiness, in any condition of the two resources.
ReadyInit ==
    /\ up \in [Resources -> BOOLEAN]
    /\ since = [r \in Resources |-> [b \in BOOLEAN |-> IF b = up[r] THEN 0 ELSE Horizon]]
    /\ mu = Nobody
    /\ age = Nobody
    /\ failed = NoFailure
    /\ probe = [p \in Probes |-> "idle"]
    /\ waited = [p \in Probes |-> 0]
    /\ took = 0
    /\ seen = {}
    /\ answer = Nobody

\* A resource fails or recovers.
Flip(r) ==
    /\ up' = [up EXCEPT ![r] = ~@]
    /\ since' = [since EXCEPT ![r][~up[r]] = 0]
    /\ seen' = IF r = "storage" /\ mu # Nobody THEN BOOLEAN ELSE seen
    /\ answer' = Nobody
    /\ UNCHANGED <<mu, age, failed, probe, waited, took>>

Arrive(p) ==
    /\ probe[p] = "idle"
    /\ probe' = [probe EXCEPT ![p] = "waiting"]
    /\ waited' = [waited EXCEPT ![p] = 0]
    /\ answer' = Nobody
    /\ UNCHANGED <<up, since, mu, age, failed, took, seen>>

\* Mutant: a good result does not expire.
FreshUnlessFailed == age # Nobody /\ (age < TTL \/ failed = NoFailure)

\* time.Since(checkedAt) < ttl, once there is a result.
Fresh == age # Nobody /\ age < TTL

\* The mutex is free, and the last result has not expired.
Reuse(p) ==
    /\ probe[p] = "waiting" /\ mu = Nobody
    /\ Fresh
    /\ probe' = [probe EXCEPT ![p] = "idle"]
    /\ waited' = [waited EXCEPT ![p] = 0]
    /\ answer' = failed
    /\ UNCHANGED <<up, since, mu, age, failed, took, seen>>

\* What the write check of the data directory finds ...
CheckWritableDir == up["data_directory"]

\* ... and what the storage backend's Check may find, that ran while storage was
\* in the given conditions.
StorageCheck(conditions) == {IF ok THEN NoFailure ELSE "storage" : ok \in conditions}

\* The data directory is not writable: storage is not checked.
DirectoryFails(p) ==
    /\ probe[p] = "waiting" /\ mu = Nobody
    /\ ~Fresh
    /\ ~CheckWritableDir
    /\ failed' = "data_directory"
    /\ age' = 0
    /\ probe' = [probe EXCEPT ![p] = "idle"]
    /\ waited' = [waited EXCEPT ![p] = 0]
    /\ answer' = "data_directory"
    /\ UNCHANGED <<up, since, mu, took, seen>>

BeginCheck(p) ==
    /\ probe[p] = "waiting" /\ mu = Nobody
    /\ ~Fresh
    /\ CheckWritableDir
    /\ mu' = p
    /\ failed' = NoFailure
    /\ probe' = [probe EXCEPT ![p] = "checking"]
    /\ seen' = {up["storage"]}
    /\ answer' = Nobody
    /\ UNCHANGED <<up, since, age, waited, took>>

\* Mutant: checkedAt is the time at which the check began.
EndCheckBackdated(p) ==
    /\ probe[p] = "checking"
    /\ failed' \in StorageCheck(seen)
    /\ age' = IF took < TTL THEN took ELSE TTL
    /\ mu' = Nobody
    /\ probe' = [probe EXCEPT ![p] = "idle"]
    /\ waited' = [waited EXCEPT ![p] = 0]
    /\ took' = 0
    /\ seen' = {}
    /\ answer' = failed'
    /\ UNCHANGED <<up, since>>

\* Storage answers, or fails, at the timeout at the latest.
EndCheck(p) ==
    /\ probe[p] = "checking"
    /\ failed' \in StorageCheck(seen)
    /\ age' = 0
    /\ mu' = Nobody
    /\ probe' = [probe EXCEPT ![p] = "idle"]
    /\ waited' = [waited EXCEPT ![p] = 0]
    /\ took' = 0
    /\ seen' = {}
    /\ answer' = failed'
    /\ UNCHANGED <<up, since>>

Later(t, bound) == IF t < bound THEN t + 1 ELSE t

Tick ==
    /\ \A p \in Probes : /\ probe[p] = "waiting" => mu # Nobody
                         /\ probe[p] = "checking" => took < CheckTimeout
    /\ since' = [r \in Resources |-> [b \in BOOLEAN |->
                    IF b = up[r] THEN 0 ELSE Later(since[r][b], Horizon)]]
    /\ age' = IF age = Nobody THEN Nobody ELSE Later(age, TTL)
    /\ took' = IF mu = Nobody THEN 0 ELSE took + 1
    /\ waited' = [p \in Probes |-> IF probe[p] = "idle" THEN 0 ELSE waited[p] + 1]
    /\ answer' = Nobody
    /\ UNCHANGED <<up, mu, failed, probe, seen>>

CheckStep(p) == Reuse(p) \/ DirectoryFails(p) \/ BeginCheck(p) \/ EndCheck(p)

ReadyNext ==
    \/ \E r \in Resources : Flip(r)
    \/ \E p \in Probes : Arrive(p) \/ CheckStep(p)
    \/ Tick

-----------------------------------------------------------------------------
(* Properties *)

\* An answer is never older than the cache and the check behind it allow.
\* "ready" means that the data directory was writable and storage up within the
\* TTL and one check, however often either failed meanwhile; and a failure that
\* the resource named was down so lately, so that nothing is reported for longer
\* once it is over.  A failure of the data directory is found at once, and so is
\* no older than the TTL.
AnswersRecent ==
    /\ answer = NoFailure => \A r \in Resources : since[r][TRUE] < Horizon
    /\ answer \in Resources =>
          since[answer][FALSE] < IF answer = "storage" THEN Horizon ELSE TTL

\* However many probes queue for the mutex, none of them has to wait for longer
\* than one storage check: those behind it reuse its result.  The healthcheck
\* command, which gives a server HealthcheckTimeout, never gives up on one that
\* is only slow to learn that storage is down.
ProbesInTime == \A p \in Probes : probe[p] # "idle" => waited[p] < HealthcheckTimeout
=============================================================================
