----------------------------- MODULE SignedUrls -----------------------------
(***************************************************************************)
(* The life of a server process and of the URLs it signs: the signing key  *)
(* is configured, loaded from signing.key or generated and saved there     *)
(* (main.go); batch responses carry URLs signed with it and the transfer   *)
(* handlers check them (lfs/signer.go, lfs/handler.go); shutdown drains    *)
(* the handlers, cuts off those that take too long and clears the key.     *)
(*                                                                         *)
(* Several processes may serve one data directory.  A signature is the     *)
(* key, the operation and target (one element of Grants) and the expiry    *)
(* that went into it: no two inputs of HMAC-SHA256 have the same one.      *)
(***************************************************************************)
EXTENDS Naturals, FiniteSets

CONSTANTS
    Procs,           \* server processes over one data directory
    Handlers,        \* handler goroutines, of all the processes
    Keys,            \* 32-byte keys; rand.Read never returns one twice
    Grants,          \* operation and target URL, such as "upload of object o"
    ConfiguredKey,   \* signing_key, or None
    Missing, Short,  \* contents of signing.key: no file, less than a key
    Zero,            \* the cleared key
    Accepted, Refused,  \* answers to a request that uses a URL
    None,            \* nothing
    Expiry,          \* url_expiry, in seconds
    MaxTime,         \* bound: seconds that pass
    MaxStarts        \* bound: starts of processes

ASSUME ConstantsAssumption ==
    /\ ConfiguredKey \in Keys \cup {None}
    /\ {Missing, Short, Zero, None} \cap Keys = {}
    /\ Missing # Short
    /\ None \notin Procs /\ None # 0
    /\ Expiry \in Nat /\ MaxTime \in Nat /\ MaxStarts \in Nat

VARIABLES
    file,     \* contents of signing.key
    used,     \* keys generated so far
    pc,       \* pc[p]: where process p is between its start and its exit
    key,      \* key[p]: the key in p's memory
    exit,     \* exit[p]: p's exit code, None while unknown or when it died
    cut,      \* cut[p]: p closed a connection that had not been answered
    at,       \* at[h]: the process handler h runs in, None when it is idle
    open,     \* open[h]: h's connection is open
    req,      \* req[h]: h's request
    ans,      \* ans[h]: h's response, None until it is known
    urls,     \* signed URLs that clients were given
    now, starts

procVars == <<file, used, pc, key, exit, cut, starts>>
handlerVars == <<at, open, req, ans>>
vars == <<procVars, handlerVars, urls, now>>

Url == [key : Keys \cup {Zero, None}, for : Grants, exp : Nat]

\* A batch asks for a grant; a transfer presents a URL to use a grant.
Request == [url : {None}, for : Grants] \cup [url : Url, for : Grants]

ASSUME NoRequestAssumption ==
    /\ {None, Accepted, Refused} \cap Url = {}
    /\ None \notin {Accepted, Refused} /\ Accepted # Refused

States == {"down", "refused", "read", "create", "write", "serving",
           "draining", "closing", "closed"}

Init ==
    /\ file = Missing
    /\ used = {}
    /\ pc = [p \in Procs |-> "down"]
    /\ key = [p \in Procs |-> None]
    /\ exit = [p \in Procs |-> None]
    /\ cut = [p \in Procs |-> FALSE]
    /\ at = [h \in Handlers |-> None]
    /\ open = [h \in Handlers |-> FALSE]
    /\ req = [h \in Handlers |-> None]
    /\ ans = [h \in Handlers |-> None]
    /\ urls = {}
    /\ now = 0
    /\ starts = 0

-----------------------------------------------------------------------------
(* Starting: loadOrGenerateSigningKey, unless a key is configured.           *)

Start(p) ==
    /\ pc[p] \in {"down", "refused"}
    /\ starts < MaxStarts
    /\ starts' = starts + 1
    /\ exit' = [exit EXCEPT ![p] = None]
    /\ cut' = [cut EXCEPT ![p] = FALSE]
    /\ \/ /\ ConfiguredKey # None
          /\ key' = [key EXCEPT ![p] = ConfiguredKey]
          /\ pc' = [pc EXCEPT ![p] = "serving"]
       \/ /\ ConfiguredKey = None
          /\ pc' = [pc EXCEPT ![p] = "read"]
          /\ key' = key
    /\ UNCHANGED <<file, used, handlerVars, urls, now>>

LoadKey(p) ==
    /\ pc[p] = "read"
    /\ file \in Keys
    /\ key' = [key EXCEPT ![p] = file]
    /\ pc' = [pc EXCEPT ![p] = "serving"]
    /\ UNCHANGED <<file, used, exit, cut, starts, handlerVars, urls, now>>

\* Invalid hex or fewer than 32 bytes: the process gives up.
RefuseKey(p) ==
    /\ pc[p] = "read"
    /\ file = Short
    /\ pc' = [pc EXCEPT ![p] = "refused"]
    /\ exit' = [exit EXCEPT ![p] = 1]
    /\ UNCHANGED <<file, used, key, cut, starts, handlerVars, urls, now>>

\* Mutant: the key is generated although a key file exists.
RegenerateKey(p) ==
    /\ pc[p] = "read"
    /\ \E k \in Keys \ used :
          /\ key' = [key EXCEPT ![p] = k]
          /\ used' = used \cup {k}
    /\ pc' = [pc EXCEPT ![p] = "create"]
    /\ UNCHANGED <<file, exit, cut, starts, handlerVars, urls, now>>

GenerateKey(p) ==
    /\ pc[p] = "read"
    /\ file = Missing
    /\ \E k \in Keys \ used :
          /\ key' = [key EXCEPT ![p] = k]
          /\ used' = used \cup {k}
    /\ pc' = [pc EXCEPT ![p] = "create"]
    /\ UNCHANGED <<file, exit, cut, starts, handlerVars, urls, now>>

\* os.WriteFile opens the file, truncating it, and then writes to it.
CreateKeyFile(p) ==
    /\ pc[p] = "create"
    /\ file' = Short
    /\ pc' = [pc EXCEPT ![p] = "write"]
    /\ UNCHANGED <<used, key, exit, cut, starts, handlerVars, urls, now>>

WriteKey(p) ==
    /\ pc[p] = "write"
    /\ file' = key[p]
    /\ pc' = [pc EXCEPT ![p] = "serving"]
    /\ UNCHANGED <<used, key, exit, cut, starts, handlerVars, urls, now>>

\* os.WriteFile cannot open the file, or writes only part of the key.
WriteKeyFails(p) ==
    /\ \/ pc[p] = "create" /\ file' = file
       \/ pc[p] = "write" /\ file' = Short
    /\ pc' = [pc EXCEPT ![p] = "refused"]
    /\ exit' = [exit EXCEPT ![p] = 1]
    /\ UNCHANGED <<used, key, cut, starts, handlerVars, urls, now>>

-----------------------------------------------------------------------------
(* Serving.                                                                  *)

Arrive(h, p) ==
    /\ at[h] = None
    /\ pc[p] = "serving"
    /\ at' = [at EXCEPT ![h] = p]
    /\ open' = [open EXCEPT ![h] = TRUE]
    /\ \E u \in urls \cup {None}, g \in Grants :
          req' = [req EXCEPT ![h] = [url |-> u, for |-> g]]
    /\ ans' = [ans EXCEPT ![h] = None]
    /\ UNCHANGED <<procVars, urls, now>>

\* URLSigner.Sign for an authorized object of a batch request.
Sign(h) ==
    /\ at[h] # None
    /\ ans[h] = None
    /\ req[h].url = None
    /\ ans' = [ans EXCEPT ![h] = [key |-> key[at[h]], for |-> req[h].for,
                                   exp |-> now + Expiry]]
    /\ UNCHANGED <<procVars, at, open, req, urls, now>>

\* URLSigner.Verify with key k, for a request that uses grant g.
Verify(k, u, g) == now <= u.exp /\ u.key = k /\ u.for = g

\* requireValidSignature in the transfer handlers.
Check(h) ==
    /\ at[h] # None
    /\ ans[h] = None
    /\ req[h].url # None
    /\ ans' = [ans EXCEPT ![h] =
                 IF Verify(key[at[h]], req[h].url, req[h].for)
                 THEN Accepted ELSE Refused]
    /\ UNCHANGED <<procVars, at, open, req, urls, now>>

\* The response reaches the client unless the connection was closed.
Respond(h) ==
    /\ at[h] # None
    /\ ans[h] # None
    /\ urls' = IF open[h] /\ req[h].url = None THEN urls \cup {ans[h]} ELSE urls
    /\ at' = [at EXCEPT ![h] = None]
    /\ open' = [open EXCEPT ![h] = FALSE]
    /\ req' = [req EXCEPT ![h] = None]
    /\ ans' = [ans EXCEPT ![h] = None]
    /\ UNCHANGED <<procVars, now>>

-----------------------------------------------------------------------------
(* Stopping: awaitStop and the rest of serve.                                *)

InFlight(p) == {h \in Handlers : at[h] = p /\ open[h]}

\* A signal, or Serve returning an error.
AwaitStop(p) ==
    /\ pc[p] = "serving"
    /\ pc' = [pc EXCEPT ![p] = "draining"]
    /\ exit' = [exit EXCEPT ![p] = 0]  \/  exit' = [exit EXCEPT ![p] = 1]
    /\ UNCHANGED <<file, used, key, cut, starts, handlerVars, urls, now>>

\* server.Shutdown returns nil.
Shutdown(p) ==
    /\ pc[p] = "draining"
    /\ InFlight(p) = {}
    /\ pc' = [pc EXCEPT ![p] = "closing"]
    /\ UNCHANGED <<file, used, key, exit, cut, starts, handlerVars, urls, now>>

\* Mutant: shutdown_timeout passes only once the handlers are done.
ShutdownWaits(p) ==
    /\ pc[p] = "draining"
    /\ InFlight(p) = {}
    /\ pc' = [pc EXCEPT ![p] = "closing"]
    /\ exit' = [exit EXCEPT ![p] = 1]
    /\ UNCHANGED <<file, used, key, cut, starts, handlerVars, urls, now>>

\* Mutant: the exit code does not tell of the timeout.
ShutdownQuiet(p) ==
    /\ pc[p] = "draining"
    /\ cut' = [cut EXCEPT ![p] = InFlight(p) # {}]
    /\ open' = [h \in Handlers |-> open[h] /\ at[h] # p]
    /\ pc' = [pc EXCEPT ![p] = "closing"]
    /\ UNCHANGED <<file, used, key, exit, starts, at, req, ans, urls, now>>

\* shutdown_timeout passes: server.Close closes the connections and leaves
\* their handlers running.
ShutdownTimesOut(p) ==
    /\ pc[p] = "draining"
    /\ cut' = [cut EXCEPT ![p] = InFlight(p) # {}]
    /\ open' = [h \in Handlers |-> open[h] /\ at[h] # p]
    /\ exit' = [exit EXCEPT ![p] = 1]
    /\ pc' = [pc EXCEPT ![p] = "closing"]
    /\ UNCHANGED <<file, used, key, starts, at, req, ans, urls, now>>

\* URLSigner.Close; a handler that is still running may use the cleared key.
CloseSigner(p) ==
    /\ pc[p] = "closing"
    /\ key' = [key EXCEPT ![p] = Zero]
    /\ pc' = [pc EXCEPT ![p] = "closed"]
    /\ UNCHANGED <<file, used, exit, cut, starts, handlerVars, urls, now>>

\* The handlers of p end with it.
Die(p) ==
    /\ pc' = [pc EXCEPT ![p] = "down"]
    /\ key' = [key EXCEPT ![p] = None]
    /\ at' = [h \in Handlers |-> IF at[h] = p THEN None ELSE at[h]]
    /\ open' = [h \in Handlers |-> open[h] /\ at[h] # p]
    /\ req' = [h \in Handlers |-> IF at[h] = p THEN None ELSE req[h]]
    /\ ans' = [h \in Handlers |-> IF at[h] = p THEN None ELSE ans[h]]
    /\ UNCHANGED <<file, used, starts, urls, now>>

Exit(p) ==
    /\ pc[p] = "closed"
    /\ Die(p)
    /\ cut' = [cut EXCEPT ![p] = cut[p] \/ InFlight(p) # {}]
    /\ exit' = exit

\* Killed, by a second signal during the shutdown for one.
Crash(p) ==
    /\ pc[p] \notin {"down", "refused"}
    /\ Die(p)
    /\ cut' = [cut EXCEPT ![p] = cut[p] \/ InFlight(p) # {}]
    /\ exit' = [exit EXCEPT ![p] = None]

Tick ==
    /\ now < MaxTime
    /\ now' = now + 1
    /\ UNCHANGED <<procVars, handlerVars, urls>>

Next ==
    \/ \E p \in Procs :
          \/ Start(p) \/ LoadKey(p) \/ RefuseKey(p) \/ GenerateKey(p)
          \/ CreateKeyFile(p) \/ WriteKey(p) \/ WriteKeyFails(p)
          \/ AwaitStop(p) \/ Shutdown(p) \/ ShutdownTimesOut(p)
          \/ CloseSigner(p) \/ Exit(p) \/ Crash(p)
          \/ \E h \in Handlers : Arrive(h, p)
    \/ \E h \in Handlers : Sign(h) \/ Check(h) \/ Respond(h)
    \/ Tick

Spec == Init /\ [][Next]_vars

\* serve runs on after the stop, whatever the handlers do.
FairSpec ==
    /\ Spec
    /\ \A p \in Procs :
          /\ WF_vars(Shutdown(p) \/ ShutdownTimesOut(p))
          /\ WF_vars(CloseSigner(p))
          /\ WF_vars(Exit(p))

-----------------------------------------------------------------------------

(* Types, and: a serving process has a key, and handlers run in processes    *)
(* that are up.                                                              *)
TypeOK ==
    /\ file \in Keys \cup {Missing, Short}
    /\ used \subseteq Keys
    /\ pc \in [Procs -> States]
    /\ key \in [Procs -> Keys \cup {Zero, None}]
    /\ exit \in [Procs -> {None, 0, 1}]
    /\ cut \in [Procs -> BOOLEAN]
    /\ at \in [Handlers -> Procs \cup {None}]
    /\ open \in [Handlers -> BOOLEAN]
    /\ req \in [Handlers -> Request \cup {None}]
    /\ ans \in [Handlers -> Url \cup {None, Accepted, Refused}]
    /\ \A u \in urls : u \in Url
    /\ now \in Nat /\ starts \in Nat
    /\ \A p \in Procs : pc[p] \in {"serving", "draining", "closing"} => key[p] \in Keys
    /\ \A h \in Handlers :
          at[h] # None => /\ pc[at[h]] \in {"serving", "draining", "closing", "closed"}
                          /\ req[h] \in Request

HonourStep ==
    \A h \in Handlers :
        (/\ at[h] # None /\ open[h]
         /\ ans[h] = None /\ ans'[h] = Refused
         /\ req[h].for = req[h].url.for)
        => now > req[h].url.exp

(* A client that uses a signed URL as it was told is refused only once the   *)
(* URL has expired, whatever restarts, crashes and shutdowns happened since  *)
(* it was signed (URLSigner.Sign and Verify, loadOrGenerateSigningKey and    *)
(* the order in which serve stops).                                          *)
UrlsHonoured == [][HonourStep]_vars

(* A process that exits with code 0 has cut off no request: server.Shutdown  *)
(* waited for all of them before the process went on to exit.                *)
CleanExit == \A p \in Procs : pc[p] = "down" /\ exit[p] = 0 => ~cut[p]

(* The server starts again on what it left in the data directory, without    *)
(* the operator's help.                                                      *)
StartsUnaided == \A p \in Procs : pc[p] = "read" => file # Short

(* A server told to stop stops, even if some handler never ends.             *)
StopEnds == \A p \in Procs : pc[p] = "draining" ~> pc[p] = "down"
=============================================================================
