------------------------------ MODULE Service ------------------------------
(***************************************************************************)
(* The commands of anchor-lfs (cli.go, main.go) around Settings, Endpoints *)
(* and Readiness: Load, then either the check command, which prints the    *)
(* configuration and exits, or serve, which checks the data directory and  *)
(* the storage, registers the endpoints, listens, and answers probes.      *)
(* Signals and shutdown are in SignedUrls.                                 *)
(***************************************************************************)
EXTENDS Settings, Endpoints, Readiness

CONSTANT Inputs    \* what the program may be started with

ASSUME InputsAssumption == \A i \in Inputs : i.endpoints \in Seq(EndpointSettings)

VARIABLES
    input,   \* the command, the file's settings, the environment, the endpoints
    state    \* "load", "start", "listening" or "exited"

serviceVars == <<vars, readyVars, input, state>>

ServiceInit ==
    /\ input \in Inputs
    /\ Init(input.endpoints)
    /\ ReadyInit
    /\ state = "load"

Loaded == LoadSettings(input.file, input.env)

Load ==
    /\ state = "load"
    /\ stage \in {"validate", "parse"}
    /\ Validate \/ Parse \/ EndLoop(Loaded.problems = {})
    /\ UNCHANGED <<readyVars, input, state>>

\* check prints the configuration, or check and serve the problems.
Exit ==
    /\ state = "load"
    /\ stage = "refused" \/ (stage = "register" /\ input.command = "check")
    /\ state' = "exited"
    /\ UNCHANGED <<vars, readyVars, input>>

\* ensureWritableDir, and the storage check of the start.
StartChecks ==
    /\ state = "load"
    /\ stage = "register" /\ input.command = "serve"
    /\ state' = IF CheckWritableDir /\ NoFailure \in StorageCheck({up["storage"]})
                THEN "start" ELSE "exited"
    /\ UNCHANGED <<vars, readyVars, input>>

RegisterEndpoints ==
    /\ state = "start"
    /\ stage = "register"
    /\ Register \/ EndLoop(TRUE)
    /\ UNCHANGED <<readyVars, input, state>>

\* The address may be taken.
Listen ==
    /\ state = "start" /\ stage = "registered"
    /\ state' \in {"listening", "exited"}
    /\ UNCHANGED <<vars, readyVars, input>>

Serving ==
    /\ state = "listening"
    /\ ReadyNext
    /\ UNCHANGED <<vars, input, state>>

ServiceNext == Load \/ Exit \/ StartChecks \/ RegisterEndpoints \/ Listen \/ Serving

ServiceSpec == ServiceInit /\ [][ServiceNext]_serviceVars

-----------------------------------------------------------------------------
(* Properties *)

\* The settings that the server uses.
InUse(c) ==
    [s \in IF c["backend"] = "s3" THEN Setting ELSE Setting \ S3Settings |->
        IF s \in Bools THEN Enabled(s, c[s]) ELSE c[s]]

\* There is no secret that would be redacted.
NoSecrets(c) ==
    c["signing_key"] = "" /\ (c["backend"] = "s3" => c["s3_secret_access_key"] = "")

\* What check prints, loaded as a file in an empty environment, is valid and
\* gives the same settings.
PrintsInUse(c) ==
    LET again == LoadSettings(Printed(effectiveConfig(c)), Absent)
    IN  again.problems = {} /\ InUse(again.settings) = InUse(c)

\* What check prints is what serve would use: loaded as a file, without the
\* environment variables that went into it, it is valid and gives the same
\* settings, unless there is a secret, which is redacted, or s3_prefix is set to
\* the empty string, which is not printed although it is not the default.
CheckPrintsWhatServes ==
    state = "exited" /\ stage = "register" =>
        LET c == Loaded.settings
        IN  NoSecrets(c) /\ (c["backend"] = "s3" => c["s3_prefix"] # "empty") => PrintsInUse(c)
=============================================================================
