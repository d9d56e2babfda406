------------------------------ MODULE MCService ------------------------------
(* Service with settings that differ from the defaults in one or two places,  *)
(* and with up to three endpoints.                                            *)
EXTENDS Service, TLC

MCSymmetry == Permutations(Probes)

MCLower == [c \in {"a", "A", "_", "invalid", "locks", "LOCKS", "signing", "key", "health", "."} |->
              CASE c = "A" -> "a" [] c = "LOCKS" -> "locks" [] OTHER -> c]

MCLetters == DOMAIN MCLower \ {"."}

-----------------------------------------------------------------------------
(* Endpoints *)

Ep(p, v, a, u, api) ==
    [named |-> TRUE, path |-> p, visibility |-> v, authentication |-> a, url |-> u, api |-> api]

Open(p) == Ep(p, "public", "none", "", "")
Hub(p, api) == Ep(p, "PRIVATE", "GITHUB", "github.com", api)

\* All paths of up to three characters, and some longer ones.
ShortPaths == UNION {[1 .. n -> {"/", "a", ".", "\\", " "}] : n \in 0 .. 3}
LongPaths == {<<"/", "health">>, <<"/", "LOCKS">>, <<"/", "a", "/", "health">>,
              <<"/", "signing", ".", "key">>, <<"/", "_", "invalid">>,
              <<"/", "a", "/", ".", ".">>, <<"/", "a", "/", ".", "a">>, <<"/", "a", ".", "/", "a">>}

OneEndpoint ==
    {<<Open(p)>> : p \in ShortPaths \cup LongPaths}
    \cup {<<Ep(<<"/", "a">>, v, a, u, api)>> :
            v \in {"", "public", "PRIVATE"}, a \in {"junk", "none", "GITHUB"},
            u \in {"", "junk", "github.com", "other", "not a repository"},
            api \in {"", "junk", "http", "localhost", "ghe"}}
    \cup {<<[Open(<<"/", "a">>) EXCEPT !.named = FALSE]>>, <<>>}

\* Paths whose directories are the same, or the same but for case.
Clashing == {<<"/", "a", "/", "a">>, <<"/", "a", "_", "a">>, <<"/", "a", "_", "A">>, <<"/", "a">>}

ManyEndpoints ==
    UNION {[1 .. n -> {Open(p) : p \in Clashing}] : n \in 2 .. 3}
    \cup {<<Hub(<<"/", "a">>, x), Hub(<<"/", "a", "_">>, y), Ep(<<"/", "_">>, "public", "none", "", z)>> :
            x \in {"", "ghe", "ghe/", "api.github.com"},
            y \in {"", "ghe", "http", "api.github.com/"}, z \in {"", "ghe"}}

-----------------------------------------------------------------------------
(* Settings *)

FileTexts(s) ==
    {""} \cup
    (CASE s \in Durations -> {"junk", "neg", "zero", "pos"}
       [] s = "max_upload_size" -> {"neg", "pos"}
       [] s = "rate_limit_tokens" -> {"pos"}
       [] s \in Bools \cup {"additional_logging"} -> {"true", "false"}
       [] s = "signing_key" -> {"32 bytes", "short", "junk"}
       [] s = "listen_address" -> {"0", "5420", "9420", "junk"}
       [] s = "metrics_address" -> {"0", "5420", "9420", "junk"}
       [] s = "base_url" -> {"url", "url/", "junk"}
       [] s = "log_format" -> {"json", "CONSOLE", "junk"}
       [] s = "log_level" -> {"warn", "junk"}
       [] s = "trusted_proxies" -> {"empty", "proxy", "junk"}
       [] s = "backend" -> {"local", "S3", "junk"}
       [] s = "s3_prefix" -> {"empty", "x/", "lfs", "/lfs/"}
       [] s = "s3_endpoint" -> {"url", "junk"}
       [] OTHER -> {"text"})

EnvTexts(s) ==
    (CASE s = "additional_logging" -> {""}
       [] s \in Numbers -> FileTexts(s) \cup {"zero", "junk"}
       [] s \in Bools -> FileTexts(s) \cup {"junk"}
       [] s \in Secrets -> FileTexts(s) \cup {"set twice", "unreadable", "blank"}
       [] OTHER -> FileTexts(s)) \ (IF s = "s3_prefix" THEN {"empty"} ELSE {})

\* The bases that single settings are changed in: all defaults, S3, and the
\* deprecated logging.
Bases == {Absent,
          [Absent EXCEPT !["backend"] = "S3", !["s3_bucket"] = "text", !["s3_region"] = "text"],
          [Absent EXCEPT !["additional_logging"] = "true", !["metrics_address"] = "9420"]}

SettingInputs ==
    UNION {{[command |-> "check", file |-> [b EXCEPT ![s] = f], env |-> [Absent EXCEPT ![s] = e],
             endpoints |-> <<Open(<<"/", "a">>)>>] :
                b \in Bases, f \in FileTexts(s), e \in EnvTexts(s)} : s \in Setting}

MCInputs ==
    SettingInputs
    \cup {[command |-> "check", file |-> Absent, env |-> Absent, endpoints |-> es] : es \in OneEndpoint}
    \cup {[command |-> "serve", file |-> Absent, env |-> Absent, endpoints |-> es] : es \in ManyEndpoints}
=============================================================================
