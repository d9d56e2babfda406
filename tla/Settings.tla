------------------------------ MODULE Settings ------------------------------
(***************************************************************************)
(* The [options] and [storage] settings of config/config.go: defaults,     *)
(* environment variables, parsing and validation, and what the check       *)
(* command prints of the result (cli.go).                                  *)
(*                                                                         *)
(* A setting's text is abstracted to what the code tells apart: "" for     *)
(* absent (or, for numbers, zero), "junk" for text that does not parse,    *)
(* "empty" for a list or prefix that is present and empty, "zero", "neg"   *)
(* and "pos" for numbers and durations, and upper case for a choice in     *)
(* another spelling.  A port stands for an address.                        *)
(***************************************************************************)
EXTENDS Naturals

PositiveDurations == {"rate_limit_window", "url_expiry", "shutdown_timeout"}
Durations == PositiveDurations \cup {"auth_cache_ttl", "upload_idle_timeout"}
Numbers == {"max_upload_size", "rate_limit_tokens"}
Bools == {"access_log", "s3_presigned_urls", "s3_force_path_style"}
Secrets == {"signing_key", "s3_access_key_id", "s3_secret_access_key"}
S3Settings == {"s3_bucket", "s3_region", "s3_endpoint", "s3_prefix", "s3_access_key_id",
               "s3_secret_access_key", "s3_presigned_urls", "s3_force_path_style"}

Setting == Durations \cup Numbers \cup Bools \cup Secrets \cup S3Settings \cup
    {"listen_address", "metrics_address", "data_directory", "base_url", "log_format",
     "log_level", "additional_logging", "trusted_proxies", "backend"}

Absent == [s \in Setting |-> ""]

LowerText(t) ==
    CASE t = "S3" -> "s3" [] t = "CONSOLE" -> "console" [] t = "PRIVATE" -> "private"
      [] t = "GITHUB" -> "github" [] t = "NONE" -> "none" [] OTHER -> t

TrimSlash(t) == IF t = "url/" THEN "url" ELSE t

(***************************************************************************)
(* Load: defaults, then the environment, then the checks.                  *)
(***************************************************************************)
Default(s, c) ==
    LET chosen == c["additional_logging"] = "true"
    IN  CASE s = "listen_address" -> "5420"
          [] s = "data_directory" -> "data"
          [] s \in Numbers \cup Durations -> "pos"
          [] s = "log_format" -> IF chosen THEN "console" ELSE "json"
          [] s = "log_level" -> IF chosen THEN "debug" ELSE "info"
          [] s = "trusted_proxies" -> "private ranges"
          [] s = "backend" -> "local"
          [] s = "s3_prefix" -> "lfs/"
          [] OTHER -> ""

\* Mutant: additional_logging decides the log format, whatever log_format says.
DefaultsOverLogging(file) ==
    [s \in Setting |->
        IF file[s] = "" \/ (s = "log_format" /\ file["additional_logging"] = "true")
        THEN Default(s, file) ELSE IF s = "base_url" THEN TrimSlash(file[s]) ELSE file[s]]

applyDefaults(file) ==
    [s \in Setting |->
        IF file[s] = "" THEN Default(s, file)
        ELSE IF s = "base_url" THEN TrimSlash(file[s]) ELSE file[s]]

\* The variables that are reported instead of taken: numbers that are not
\* positive, words that are not Booleans, and secrets set twice or from a file
\* that cannot be read or is empty.
RefusedEnv(s, v) ==
    \/ s \in Numbers /\ v # "pos"
    \/ s \in Bools /\ v \notin {"true", "false"}
    \/ s \in Secrets /\ v \in {"set twice", "unreadable", "blank"}

applyEnvOverrides(c, env) ==
    [s \in Setting |->
        IF env[s] = "" \/ RefusedEnv(s, env[s]) THEN c[s]
        ELSE IF s = "base_url" THEN TrimSlash(env[s]) ELSE env[s]]

EnvProblems(env) == {s \in Setting : env[s] # "" /\ RefusedEnv(s, env[s])}

\* parseRateLimitWindow, parseAuthCacheTTL, parseURLExpiry, parseShutdownTimeout,
\* parseUploadIdleTimeout and parseSigningKey.
ParseProblems(c) ==
    {s \in Durations : c[s] \notin {"pos"} \cup (IF s \in PositiveDurations THEN {} ELSE {"zero"})}
    \cup {s \in {"signing_key"} : c[s] \notin {"", "32 bytes"}}

\* validateStorage, with the choice of backend in lower case.
StorageProblems(c) ==
    CASE LowerText(c["backend"]) = "local" -> {}
      [] LowerText(c["backend"]) = "s3" ->
            {s \in {"s3_bucket", "s3_region"} : c[s] = ""}
            \cup {s \in {"s3_endpoint"} : c[s] = "junk"}
            \cup {s \in {"s3_prefix"} : c[s] \in {"/lfs/", "lfs"}}
            \cup {s \in {"s3_access_key_id"} : (c[s] = "") # (c["s3_secret_access_key"] = "")}
      [] OTHER -> {"backend"}

\* validateMetricsAddress.
MetricsProblem(c) ==
    LET port == c["metrics_address"]
    IN  port # "" /\ (port = "junk" \/ (port = c["listen_address"] /\ port # "0"))

\* The part of validate before the endpoints.
OptionProblems(c) ==
    {s \in {"log_format"} : LowerText(c[s]) \notin {"json", "console"}}
    \cup {s \in {"log_level"} : LowerText(c[s]) \notin {"debug", "info", "warn", "error"}}
    \cup {s \in {"max_upload_size"} : c[s] = "neg"}
    \cup {s \in {"base_url"} : c[s] = "junk"}
    \cup {s \in {"metrics_address"} : MetricsProblem(c)}
    \cup {s \in {"trusted_proxies"} : c[s] = "junk"}

\* validate leaves the choices in lower case.
Lowered(c) ==
    [s \in Setting |-> IF s \in {"backend", "log_format", "log_level"} THEN LowerText(c[s]) ELSE c[s]]

LoadSettings(file, env) ==
    LET c == applyEnvOverrides(applyDefaults(file), env)
    IN  [settings |-> Lowered(c),
         problems |-> EnvProblems(env) \cup ParseProblems(c) \cup StorageProblems(c)
                      \cup OptionProblems(c)]

(***************************************************************************)
(* The check command.                                                      *)
(***************************************************************************)
\* AccessLogEnabled, S3PresignedURLsEnabled and S3ForcePathStyleEnabled.
Enabled(s, v) == IF v # "" THEN v ELSE IF s = "s3_force_path_style" THEN "false" ELSE "true"

effectiveConfig(c) ==
    [s \in Setting |->
        IF s \in S3Settings /\ c["backend"] # "s3" THEN ""
        ELSE IF s \in Bools THEN Enabled(s, c[s])
        ELSE IF s \in {"signing_key", "s3_secret_access_key"} /\ c[s] # "" THEN "redacted"
        ELSE c[s]]

\* The TOML that is printed, as a file to load: a text that is empty is left out,
\* and with it that an empty s3_prefix was set.
Printed(c) ==
    [s \in Setting |-> IF s = "s3_prefix" /\ c[s] = "empty" THEN "" ELSE c[s]]
=============================================================================
