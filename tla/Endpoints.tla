----------------------------- MODULE Endpoints -----------------------------
(***************************************************************************)
(* The [[endpoints]] of a configuration: their validation by config.Load,  *)
(* one endpoint at a time with the maps of paths and directories taken so  *)
(* far, the directory names of internal/sanitise, and the registration of  *)
(* the endpoints by serve, with the authenticators they share (main.go).   *)
(*                                                                         *)
(* A path is a sequence of characters, in which a word stands for its      *)
(* letters.  The other fields are abstracted to what the code tells apart. *)
(***************************************************************************)
EXTENDS Integers, Sequences

CONSTANTS
    None,      \* a nil pointer
    Letters,   \* characters allowed in directory names, besides "."
    Lower      \* Lower[c]: character c in lower case

ASSUME CharAssumption ==
    /\ DOMAIN Lower = Letters \cup {"."}
    /\ {"_", "invalid"} \subseteq Letters

\* Texts of github_api_url, with and without the "/" at the end.
ApiURL == {"junk", "http", "ghe", "ghe/", "localhost", "localhost/",
           "api.github.com", "api.github.com/"}

Authenticator == [api : ApiURL \cup {None}, by : Nat]

ASSUME NoneIsNoAuthenticator == None \notin Authenticator

VARIABLES
    eps,       \* the endpoints, in the order of the file
    stage,     \* "validate", "parse", "register", and the outcomes
               \* "registered" and "refused"
    next,      \* the endpoint that the loop gets to next
    paths,     \* validate: paths taken
    dirs,      \* validate: directories taken, in lower case
    problems,  \* problems found, as <<endpoint, kind>>
    base,      \* base[i]: GitHubBaseURL of endpoint i
    githubAuths, \* serve: authenticators made, each with the API it asks
    auth       \* auth[i]: the authenticator of endpoint i, None for auth.None

vars == <<eps, stage, next, paths, dirs, problems, base, githubAuths, auth>>

(***************************************************************************)
(* Paths and directories.                                                  *)
(***************************************************************************)
\* The longest parts of s without a separator.
Fields(s, separators) ==
    {SubSeq(s, r[1], r[2]) : r \in {r \in (1 .. Len(s)) \X (1 .. Len(s)) :
        /\ r[1] <= r[2]
        /\ \A k \in r[1] .. r[2] : s[k] \notin separators
        /\ r[1] = 1 \/ s[r[1] - 1] \in separators
        /\ r[2] = Len(s) \/ s[r[2] + 1] \in separators}}

Dots == {<<".">>, <<".", ".">>}

\* path.Clean(p) = p, for a path that starts with "/".
IsClean(p) ==
    /\ \A k \in 1 .. Len(p) - 1 : ~(p[k] = "/" /\ p[k + 1] = "/")
    /\ Len(p) > 1 => p[Len(p)] # "/"
    /\ Fields(p, {"/"}) \cap Dots = {}

\* strings.TrimLeft(p, "/") for such a path, which has one "/" at most to trim.
Trimmed(p) == IF p # <<>> /\ p[1] = "/" THEN Tail(p) ELSE p

InvalidEndpoint == <<"_", "invalid">>

\* sanitise.Endpoint.
Endpoint(p) ==
    LET s == Trimmed(p)
        dir == [k \in 1 .. Len(s) |-> IF s[k] \in {"/", "\\"} THEN "_" ELSE s[k]]
        safe == /\ dir # <<>>
                /\ \A k \in 1 .. Len(dir) : dir[k] \in Letters \cup {"."}
                /\ dir[1] # "." /\ dir[Len(dir)] # "."
    IN  IF Fields(s, {"/", "\\"}) \cap Dots = {} /\ safe THEN dir ELSE InvalidEndpoint

ToLower(dir) == [k \in 1 .. Len(dir) |-> Lower[dir[k]]]

reservedPaths == {<<"health">>, <<"ready">>}
reservedDataDirEntries == {<<"locks">>, <<"signing", ".", "key">>}

\* The storage directory of an endpoint with path p, as file systems that ignore
\* case see it.
Directory(p) == ToLower(Endpoint(p))

\* What validateEndpointPath asks of a path before it records it as taken ...
PathNew(p, taken) == p # <<>> /\ p[1] = "/" /\ IsClean(p) /\ p \notin taken

\* ... and then of the path and its directory, the directories taken aside.
PathUsable(p) ==
    /\ Trimmed(p) \notin reservedPaths
    /\ Endpoint(p) # InvalidEndpoint
    /\ Directory(p) \notin reservedDataDirEntries

(***************************************************************************)
(* Access.                                                                 *)
(***************************************************************************)
Folded(t) == CASE t = "PRIVATE" -> "private" [] t = "GITHUB" -> "github" [] OTHER -> t

AuthMethod(e) == Folded(e.authentication)
IsPublic(e) == Folded(e.visibility) = "public"

\* validateAccess finds nothing.
AccessValid(e) ==
    /\ AuthMethod(e) \in {"github", "none"}
    /\ Folded(e.visibility) \in {"public", "private"}
    /\ AuthMethod(e) = "none" => e.api = "" /\ IsPublic(e)

\* parseGitHubURL finds nothing: url is "", "junk", a repository on "github.com"
\* or an "other" host, or "not a repository"; api is "", "junk", "http", or the
\* address of an API over https or on localhost.
GitHubValid(e) ==
    AuthMethod(e) = "github" =>
        /\ e.url \in {"github.com", "other"}
        /\ e.url # "github.com" => e.api # ""
        /\ e.api \notin {"junk", "http"}

WithSlash(api) ==
    CASE api = "ghe" -> "ghe/"
      [] api = "localhost" -> "localhost/"
      [] api = "api.github.com" -> "api.github.com/"
      [] OTHER -> api

\* GitHubBaseURL: nil, or the API's address, which always ends with "/".
GitHubBaseURL(e) ==
    IF AuthMethod(e) = "github" /\ GitHubValid(e) /\ e.api # "" THEN WithSlash(e.api) ELSE None

\* The API that the client of an authenticator for a base URL asks.
GitHubInstance(url) == IF url = None THEN "api.github.com/" ELSE url

-----------------------------------------------------------------------------
\* The state in which Load gets to the endpoints es; none at all is a problem.
Init(es) ==
    /\ eps = es
    /\ stage = "validate"
    /\ next = 1
    /\ paths = {}
    /\ dirs = {}
    /\ problems = IF es = <<>> THEN {<<0, "none">>} ELSE {}
    /\ base = [k \in 1 .. Len(es) |-> None]
    /\ githubAuths = {}
    /\ auth = [k \in 1 .. Len(es) |-> None]

Found(kinds) == problems' = problems \cup {<<next, k>> : k \in kinds}

\* Mutant: the directories taken are compared in their exact spelling.
ValidateExactly ==
    /\ stage = "validate" /\ next <= Len(eps)
    /\ LET e == eps[next]
           usable == PathNew(e.path, paths) /\ PathUsable(e.path) /\ Endpoint(e.path) \notin dirs
       IN  /\ paths' = paths \cup {p \in {e.path} : PathNew(p, paths)}
           /\ dirs' = dirs \cup {d \in {Endpoint(e.path)} : usable}
           /\ Found({k \in {"name"} : ~e.named} \cup {k \in {"path"} : ~usable}
                    \cup {k \in {"access"} : ~AccessValid(e)})
    /\ next' = next + 1
    /\ UNCHANGED <<eps, stage, base, githubAuths, auth>>

\* One round of validate's loop: the name, validateEndpointPath, validateAccess.
Validate ==
    /\ stage = "validate" /\ next <= Len(eps)
    /\ LET e == eps[next]
           usable == PathNew(e.path, paths) /\ PathUsable(e.path) /\ Directory(e.path) \notin dirs
       IN  /\ paths' = paths \cup {p \in {e.path} : PathNew(p, paths)}
           /\ dirs' = dirs \cup {d \in {Directory(e.path)} : usable}
           /\ Found({k \in {"name"} : ~e.named} \cup {k \in {"path"} : ~usable}
                    \cup {k \in {"access"} : ~AccessValid(e)})
    /\ next' = next + 1
    /\ UNCHANGED <<eps, stage, base, githubAuths, auth>>

\* Mutant: the problems found so far are overwritten.
ParseOverwriting ==
    /\ stage = "parse" /\ next <= Len(eps)
    /\ problems' = {<<next, k>> : k \in {k \in {"github"} : ~GitHubValid(eps[next])}}
    /\ base' = [base EXCEPT ![next] = GitHubBaseURL(eps[next])]
    /\ next' = next + 1
    /\ UNCHANGED <<eps, stage, paths, dirs, githubAuths, auth>>

\* One round of Load's own loop: parseGitHubURL.
Parse ==
    /\ stage = "parse" /\ next <= Len(eps)
    /\ Found({k \in {"github"} : ~GitHubValid(eps[next])})
    /\ base' = [base EXCEPT ![next] = GitHubBaseURL(eps[next])]
    /\ next' = next + 1
    /\ UNCHANGED <<eps, stage, paths, dirs, githubAuths, auth>>

\* Mutant: authenticators are looked up by the host of the repository's URL.
githubAuthByHost(i) ==
    LET known == {g \in githubAuths : eps[g.by].url = eps[i].url}
    IN  IF known # {} THEN CHOOSE g \in known : TRUE ELSE [api |-> base[i], by |-> i]

\* The authenticator for endpoint i: the one made for the same text of the API's
\* base URL, or a new one.
githubAuth(i) ==
    LET known == {g \in githubAuths : g.api = base[i]}
    IN  IF known # {} THEN CHOOSE g \in known : TRUE ELSE [api |-> base[i], by |-> i]

\* One round of serve's loop.
Register ==
    /\ stage = "register" /\ next <= Len(eps)
    /\ IF AuthMethod(eps[next]) = "github"
       THEN /\ auth' = [auth EXCEPT ![next] = githubAuth(next)]
            /\ githubAuths' = githubAuths \cup {githubAuth(next)}
       ELSE UNCHANGED <<auth, githubAuths>>
    /\ next' = next + 1
    /\ UNCHANGED <<eps, stage, paths, dirs, problems, base>>

\* Load returns an error if there is any problem, its settings' included.
EndLoop(settingsValid) ==
    /\ next > Len(eps)
    /\ next' = 1
    /\ \/ stage = "validate" /\ stage' = "parse"
       \/ stage = "parse" /\ stage' = IF problems = {} /\ settingsValid THEN "register" ELSE "refused"
       \/ stage = "register" /\ stage' = "registered"
    /\ UNCHANGED <<eps, paths, dirs, problems, base, githubAuths, auth>>

Next == Validate \/ Parse \/ Register \/ \E valid \in BOOLEAN : EndLoop(valid)

EndpointSettings ==
    [named : BOOLEAN, path : Seq(STRING), visibility : STRING, authentication : STRING,
     url : STRING, api : ApiURL \cup {""}]

Spec == (\E es \in Seq(EndpointSettings) : Init(es)) /\ [][Next]_vars

-----------------------------------------------------------------------------
(* Properties *)

Accepted == stage \in {"register", "registered"}

\* No two endpoints that are served share a storage directory, even on a file
\* system that ignores case, and none uses what the data directory holds already:
\* the objects and locks of one repository are never another's, although
\* different paths can have the same directory name.
DirectoriesApart ==
    Accepted =>
        \A i \in 1 .. Len(eps) :
            /\ Directory(eps[i].path) \notin reservedDataDirEntries
            /\ \A j \in 1 .. Len(eps) :
                  Directory(eps[i].path) = Directory(eps[j].path) => i = j

\* Load refuses no more than it must, whatever the order of the endpoints: the
\* endpoints get no problem if and only if each would be accepted on its own and
\* no two have the same directory.
RefusedForCause ==
    (stage \in {"register", "registered", "refused"}) =>
        (problems = {} <=>
            /\ eps # <<>>
            /\ \A i \in 1 .. Len(eps) :
                  /\ eps[i].named /\ AccessValid(eps[i]) /\ GitHubValid(eps[i])
                  /\ PathNew(eps[i].path, {}) /\ PathUsable(eps[i].path)
            /\ \A i, j \in 1 .. Len(eps) :
                  Directory(eps[i].path) = Directory(eps[j].path) => i = j)

\* Requests are authenticated where they should be: at the API of the endpoint's
\* own GitHub, whatever was registered before, and not at all only if the
\* endpoint is public and asks for no authentication.  Endpoints with the same
\* github_api_url, or none, share an authenticator and its cache, however they
\* are spread over the file and whether or not the URL ends with "/".
AuthenticatorsOwn ==
    stage = "registered" =>
        \A i \in 1 .. Len(eps) :
            IF auth[i] = None
            THEN IsPublic(eps[i]) /\ AuthMethod(eps[i]) = "none"
            ELSE /\ GitHubInstance(auth[i].api) = GitHubInstance(GitHubBaseURL(eps[i]))
                 /\ \A j \in 1 .. Len(eps) :
                       auth[j] # None /\ GitHubBaseURL(eps[i]) = GitHubBaseURL(eps[j])
                           => auth[i] = auth[j]
=============================================================================
