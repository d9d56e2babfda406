-------------------------- MODULE SignedUrlsProofs --------------------------
(***************************************************************************)
(* Proofs about SignedUrls, for any number of processes, handlers, keys    *)
(* and grants.                                                             *)
(*                                                                         *)
(* LifeInv says where a process may be with which exit code and which open *)
(* connections.  It gives CleanExit.  KeyInv says that all the keys in use *)
(* are one: the configured one, or what is in signing.key.  It needs that  *)
(* a key is configured or that there is one process, as two that start     *)
(* together on a new data directory generate a key each.  It gives         *)
(* UrlsHonoured.                                                           *)
(***************************************************************************)
EXTENDS SignedUrls, TLAPS

Starting == {"read", "create", "write"}
Up == {"serving", "draining", "closing"}

\* Where process p is when it has an exit code or has cut a connection.
ExitInv(p) ==
    /\ pc[p] \in Starting => ConfiguredKey = None
    /\ pc[p] \in {"create", "write"} => key[p] \in Keys
    /\ pc[p] \in Starting \cup {"serving", "draining"} => ~cut[p]
    /\ exit[p] = 0 => pc[p] \in {"draining", "closing", "closed", "down"} /\ ~cut[p]

\* Only a process that serves or drains has open connections.
OpenInv(h) ==
    /\ open[h] => at[h] # None /\ pc[at[h]] \in {"serving", "draining"}
    /\ at[h] # None /\ ans[h] # None /\ req[h].url = None => ans[h] \in Url

LifeInv == (\A p \in Procs : ExitInv(p)) /\ (\A h \in Handlers : OpenInv(h))

\* The key that every URL has to be signed with.
Current == IF ConfiguredKey # None THEN ConfiguredKey ELSE file

OneKey == ConfiguredKey # None \/ \E p \in Procs : Procs = {p}

KeyInv ==
    /\ \A p \in Procs : pc[p] \in Up => key[p] = Current
    /\ \A p \in Procs : pc[p] \in {"create", "write"} => file \notin Keys
    /\ \A u \in urls : u.key = Current /\ Current \in Keys
    /\ \A h \in Handlers :
          /\ open[h] /\ ans[h] # None /\ req[h].url = None => ans[h].key = Current
          /\ at[h] # None /\ req[h].url # None => req[h].url \in urls

-----------------------------------------------------------------------------
(* Types                                                                     *)

\* A URL that Sign makes is a URL.
LEMMA UrlType ==
    ASSUME NEW k \in Keys \cup {Zero, None}, NEW g \in Grants, NEW e \in Nat
    PROVE  [key |-> k, for |-> g, exp |-> e] \in Url
  BY DEF Url

\* A request has the fields that its handlers read (Arrive, Sign and Check).
LEMMA RequestType ==
    /\ \A r \in Request : r.for \in Grants /\ (r.url # None => r.url \in Url)
    /\ \A u \in Url \cup {None}, g \in Grants : [url |-> u, for |-> g] \in Request
  BY DEF Request

\* Initially the types are right and no process is up.
LEMMA InitLife == Init => TypeOK /\ LifeInv /\ KeyInv
  <1> SUFFICES ASSUME Init PROVE TypeOK /\ LifeInv /\ KeyInv
    OBVIOUS
  <1>1. TypeOK
    BY ConstantsAssumption DEF Init, TypeOK, States
  <1>2. LifeInv
    BY DEF Init, LifeInv, ExitInv, OpenInv, Starting
  <1>3. KeyInv
    BY DEF Init, KeyInv, Up
  <1>4. QED
    BY <1>1, <1>2, <1>3
-----------------------------------------------------------------------------
(* Steps of the processes and of the handlers                                *)

ProcessStep(p) ==
    \/ Start(p) \/ LoadKey(p) \/ RefuseKey(p) \/ GenerateKey(p)
    \/ CreateKeyFile(p) \/ WriteKey(p) \/ WriteKeyFails(p)
    \/ AwaitStop(p) \/ Shutdown(p) \/ ShutdownTimesOut(p)
    \/ CloseSigner(p) \/ Exit(p) \/ Crash(p)

HandlerStep(h) == (\E p \in Procs : Arrive(h, p)) \/ Sign(h) \/ Check(h) \/ Respond(h)

\* Next is a step of a process, of a handler or of the clock.
LEMMA NextCases ==
    Next => \/ \E p \in Procs : ProcessStep(p)
            \/ \E h \in Handlers : HandlerStep(h)
            \/ Tick
  BY DEF Next, ProcessStep, HandlerStep

\* Every step of a process keeps the types and LifeInv: connections are closed
\* before the process goes on to close its signer and to exit.
LEMMA ProcessLife ==
    ASSUME TypeOK, LifeInv, NEW p \in Procs, ProcessStep(p)
    PROVE  TypeOK' /\ LifeInv'
  <1>1. CASE Start(p)
    <2>1. TypeOK'
      BY <1>1, ConstantsAssumption DEF Start, TypeOK, LifeInv, Starting, States, procVars, handlerVars
    <2>2. ASSUME NEW q \in Procs PROVE ExitInv(q)'
      BY <1>1, ConstantsAssumption DEF Start, TypeOK, LifeInv, ExitInv, Starting, States, procVars, handlerVars
    <2>3. ASSUME NEW h \in Handlers PROVE OpenInv(h)'
      BY <1>1, ConstantsAssumption DEF Start, TypeOK, LifeInv, OpenInv, Starting, States, procVars, handlerVars
    <2>4. QED
      BY <2>1, <2>2, <2>3 DEF LifeInv
  <1>2. CASE LoadKey(p)
    <2>1. TypeOK'
      BY <1>2, ConstantsAssumption DEF LoadKey, TypeOK, LifeInv, Starting, States, procVars, handlerVars
    <2>2. ASSUME NEW q \in Procs PROVE ExitInv(q)'
      BY <1>2, ConstantsAssumption DEF LoadKey, TypeOK, LifeInv, ExitInv, Starting, States, procVars, handlerVars
    <2>3. ASSUME NEW h \in Handlers PROVE OpenInv(h)'
      BY <1>2, ConstantsAssumption DEF LoadKey, TypeOK, LifeInv, OpenInv, Starting, States, procVars, handlerVars
    <2>4. QED
      BY <2>1, <2>2, <2>3 DEF LifeInv
  <1>3. CASE RefuseKey(p)
    <2>1. TypeOK'
      BY <1>3, ConstantsAssumption DEF RefuseKey, TypeOK, LifeInv, Starting, States, procVars, handlerVars
    <2>2. ASSUME NEW q \in Procs PROVE ExitInv(q)'
      BY <1>3, ConstantsAssumption DEF RefuseKey, TypeOK, LifeInv, ExitInv, Starting, States, procVars, handlerVars
    <2>3. ASSUME NEW h \in Handlers PROVE OpenInv(h)'
      BY <1>3, ConstantsAssumption DEF RefuseKey, TypeOK, LifeInv, OpenInv, Starting, States, procVars, handlerVars
    <2>4. QED
      BY <2>1, <2>2, <2>3 DEF LifeInv
  <1>4. CASE GenerateKey(p)
    <2>1. TypeOK'
      BY <1>4, ConstantsAssumption DEF GenerateKey, TypeOK, LifeInv, Starting, States, procVars, handlerVars
    <2>2. ASSUME NEW q \in Procs PROVE ExitInv(q)'
      BY <1>4, ConstantsAssumption DEF GenerateKey, TypeOK, LifeInv, ExitInv, Starting, States, procVars, handlerVars
    <2>3. ASSUME NEW h \in Handlers PROVE OpenInv(h)'
      BY <1>4, ConstantsAssumption DEF GenerateKey, TypeOK, LifeInv, OpenInv, Starting, States, procVars, handlerVars
    <2>4. QED
      BY <2>1, <2>2, <2>3 DEF LifeInv
  <1>5. CASE CreateKeyFile(p)
    <2>1. TypeOK'
      BY <1>5, ConstantsAssumption DEF CreateKeyFile, TypeOK, LifeInv, Starting, States, procVars, handlerVars
    <2>2. ASSUME NEW q \in Procs PROVE ExitInv(q)'
      BY <1>5, ConstantsAssumption DEF CreateKeyFile, TypeOK, LifeInv, ExitInv, Starting, States, procVars, handlerVars
    <2>3. ASSUME NEW h \in Handlers PROVE OpenInv(h)'
      BY <1>5, ConstantsAssumption DEF CreateKeyFile, TypeOK, LifeInv, OpenInv, Starting, States, procVars, handlerVars
    <2>4. QED
      BY <2>1, <2>2, <2>3 DEF LifeInv
  <1>6. CASE WriteKey(p)
    <2>1. TypeOK'
      BY <1>6, ConstantsAssumption DEF WriteKey, TypeOK, LifeInv, ExitInv, Starting, States, procVars, handlerVars
    <2>2. ASSUME NEW q \in Procs PROVE ExitInv(q)'
      BY <1>6, ConstantsAssumption DEF WriteKey, TypeOK, LifeInv, ExitInv, Starting, States, procVars, handlerVars
    <2>3. ASSUME NEW h \in Handlers PROVE OpenInv(h)'
      BY <1>6, ConstantsAssumption DEF WriteKey, TypeOK, LifeInv, OpenInv, Starting, States, procVars, handlerVars
    <2>4. QED
      BY <2>1, <2>2, <2>3 DEF LifeInv
  <1>7. CASE WriteKeyFails(p)
    <2>1. TypeOK'
      BY <1>7, ConstantsAssumption DEF WriteKeyFails, TypeOK, LifeInv, Starting, States, procVars, handlerVars
    <2>2. ASSUME NEW q \in Procs PROVE ExitInv(q)'
      BY <1>7, ConstantsAssumption DEF WriteKeyFails, TypeOK, LifeInv, ExitInv, Starting, States, procVars, handlerVars
    <2>3. ASSUME NEW h \in Handlers PROVE OpenInv(h)'
      BY <1>7, ConstantsAssumption DEF WriteKeyFails, TypeOK, LifeInv, OpenInv, Starting, States, procVars, handlerVars
    <2>4. QED
      BY <2>1, <2>2, <2>3 DEF LifeInv
  <1>8. CASE AwaitStop(p)
    <2>1. TypeOK'
      BY <1>8, ConstantsAssumption DEF AwaitStop, TypeOK, LifeInv, Starting, States, procVars, handlerVars
    <2>2. ASSUME NEW q \in Procs PROVE ExitInv(q)'
      BY <1>8, ConstantsAssumption DEF AwaitStop, TypeOK, LifeInv, ExitInv, Starting, States, procVars, handlerVars
    <2>3. ASSUME NEW h \in Handlers PROVE OpenInv(h)'
      BY <1>8, ConstantsAssumption DEF AwaitStop, TypeOK, LifeInv, OpenInv, Starting, States, procVars, handlerVars
    <2>4. QED
      BY <2>1, <2>2, <2>3 DEF LifeInv
  <1>9. CASE Shutdown(p)
    <2>1. TypeOK'
      BY <1>9, ConstantsAssumption DEF Shutdown, TypeOK, LifeInv, Starting, States, procVars, handlerVars, InFlight
    <2>2. ASSUME NEW q \in Procs PROVE ExitInv(q)'
      BY <1>9, ConstantsAssumption DEF Shutdown, TypeOK, LifeInv, ExitInv, OpenInv, Starting, States, procVars, handlerVars, InFlight
    <2>3. ASSUME NEW h \in Handlers PROVE OpenInv(h)'
      BY <1>9, ConstantsAssumption DEF Shutdown, TypeOK, LifeInv, OpenInv, Starting, States, procVars, handlerVars, InFlight
    <2>4. QED
      BY <2>1, <2>2, <2>3 DEF LifeInv
  <1>10. CASE ShutdownTimesOut(p)
    <2>1. TypeOK'
      BY <1>10, ConstantsAssumption DEF ShutdownTimesOut, TypeOK, LifeInv, Starting, States, procVars, handlerVars, InFlight
    <2>2. ASSUME NEW q \in Procs PROVE ExitInv(q)'
      BY <1>10, ConstantsAssumption DEF ShutdownTimesOut, TypeOK, LifeInv, ExitInv, OpenInv, Starting, States, procVars, handlerVars, InFlight
    <2>3. ASSUME NEW h \in Handlers PROVE OpenInv(h)'
      BY <1>10, ConstantsAssumption, ZenonT(30) DEF ShutdownTimesOut, TypeOK, LifeInv, OpenInv, Starting, States, procVars, handlerVars, InFlight
    <2>4. QED
      BY <2>1, <2>2, <2>3 DEF LifeInv
  <1>11. CASE CloseSigner(p)
    <2>1. TypeOK'
      BY <1>11, ConstantsAssumption DEF CloseSigner, TypeOK, LifeInv, Starting, States, procVars, handlerVars
    <2>2. ASSUME NEW q \in Procs PROVE ExitInv(q)'
      BY <1>11, ConstantsAssumption DEF CloseSigner, TypeOK, LifeInv, ExitInv, Starting, States, procVars, handlerVars
    <2>3. ASSUME NEW h \in Handlers PROVE OpenInv(h)'
      BY <1>11, ConstantsAssumption DEF CloseSigner, TypeOK, LifeInv, OpenInv, Starting, States, procVars, handlerVars
    <2>4. QED
      BY <2>1, <2>2, <2>3 DEF LifeInv
  <1>12. CASE Exit(p)
    <2>1. TypeOK'
      BY <1>12, ConstantsAssumption DEF Exit, TypeOK, LifeInv, Starting, States, procVars, handlerVars, Die, InFlight
    <2>2. ASSUME NEW q \in Procs PROVE ExitInv(q)'
      BY <1>12, ConstantsAssumption DEF Exit, TypeOK, LifeInv, ExitInv, OpenInv, Starting, States, procVars, handlerVars, Die, InFlight
    <2>3. ASSUME NEW h \in Handlers PROVE OpenInv(h)'
      BY <1>12, ConstantsAssumption DEF Exit, TypeOK, LifeInv, OpenInv, Starting, States, procVars, handlerVars, Die, InFlight
    <2>4. QED
      BY <2>1, <2>2, <2>3 DEF LifeInv
  <1>13. CASE Crash(p)
    <2>1. TypeOK'
      BY <1>13, ConstantsAssumption DEF Crash, TypeOK, LifeInv, Starting, States, procVars, handlerVars, Die, InFlight
    <2>2. ASSUME NEW q \in Procs PROVE ExitInv(q)'
      BY <1>13, ConstantsAssumption DEF Crash, TypeOK, LifeInv, ExitInv, OpenInv, Starting, States, procVars, handlerVars, Die, InFlight
    <2>3. ASSUME NEW h \in Handlers PROVE OpenInv(h)'
      BY <1>13, ConstantsAssumption, ZenonT(30) DEF Crash, TypeOK, LifeInv, OpenInv, Starting, States, procVars, handlerVars, Die, InFlight
    <2>4. QED
      BY <2>1, <2>2, <2>3 DEF LifeInv
  <1>14. QED
    BY <1>1, <1>2, <1>3, <1>4, <1>5, <1>6, <1>7, <1>8, <1>9, <1>10, <1>11, <1>12, <1>13 DEF ProcessStep

\* Every step of a handler keeps the types and LifeInv.
LEMMA HandlerLife ==
    ASSUME TypeOK, LifeInv, NEW h \in Handlers, HandlerStep(h)
    PROVE  TypeOK' /\ LifeInv'
  <1>1. CASE \E p \in Procs : Arrive(h, p)
    <2> PICK p \in Procs : Arrive(h, p)
      BY <1>1
    <2>1. PICK u \in urls \cup {None}, g \in Grants :
             req' = [req EXCEPT ![h] = [url |-> u, for |-> g]]
      BY ZenonT(30) DEF Arrive
    <2>2. [url |-> u, for |-> g] \in Request
      BY <2>1, RequestType DEF TypeOK
    <2>3. TypeOK'
      BY <2>1, <2>2, ConstantsAssumption DEF Arrive, TypeOK, procVars
    <2>4. ASSUME NEW q \in Procs PROVE ExitInv(q)'
      BY DEF Arrive, LifeInv, ExitInv, procVars
    <2>5. ASSUME NEW i \in Handlers PROVE OpenInv(i)'
      BY <2>1, ConstantsAssumption DEF Arrive, TypeOK, LifeInv, OpenInv, procVars
    <2>6. QED
      BY <2>3, <2>4, <2>5 DEF LifeInv
  <1>2. CASE Sign(h)
    <2>1. [key |-> key[at[h]], for |-> req[h].for, exp |-> now + Expiry] \in Url
      <3>1. at[h] \in Procs /\ req[h] \in Request /\ now + Expiry \in Nat
        BY <1>2, ConstantsAssumption DEF Sign, TypeOK
      <3>2. key[at[h]] \in Keys \cup {Zero, None} /\ req[h].for \in Grants
        BY <3>1, RequestType DEF TypeOK
      <3>3. QED
        BY <3>1, <3>2, UrlType
    <2>2. TypeOK'
      BY <1>2, <2>1, SMTT(30) DEF Sign, TypeOK, procVars
    <2>3. ASSUME NEW q \in Procs PROVE ExitInv(q)'
      BY <1>2 DEF Sign, LifeInv, ExitInv, procVars
    <2>4. ASSUME NEW i \in Handlers PROVE OpenInv(i)'
      BY <1>2, <2>1 DEF Sign, TypeOK, LifeInv, OpenInv, procVars
    <2>5. QED
      BY <2>2, <2>3, <2>4 DEF LifeInv
  <1>3. CASE Check(h)
    <2>1. TypeOK'
      BY <1>3 DEF Check, TypeOK, procVars
    <2>2. ASSUME NEW q \in Procs PROVE ExitInv(q)'
      BY <1>3 DEF Check, LifeInv, ExitInv, procVars
    <2>3. ASSUME NEW i \in Handlers PROVE OpenInv(i)'
      BY <1>3 DEF Check, TypeOK, LifeInv, OpenInv, procVars
    <2>4. QED
      BY <2>1, <2>2, <2>3 DEF LifeInv
  <1>4. CASE Respond(h)
    <2>1. \A u \in urls' : u \in Url
      BY <1>4 DEF Respond, TypeOK, LifeInv, OpenInv
    <2>2. TypeOK'
      BY <1>4, <2>1 DEF Respond, TypeOK, procVars
    <2>3. ASSUME NEW q \in Procs PROVE ExitInv(q)'
      BY <1>4 DEF Respond, LifeInv, ExitInv, procVars
    <2>4. ASSUME NEW i \in Handlers PROVE OpenInv(i)'
      BY <1>4 DEF Respond, TypeOK, LifeInv, OpenInv, procVars
    <2>5. QED
      BY <2>2, <2>3, <2>4 DEF LifeInv
  <1>5. QED
    BY <1>1, <1>2, <1>3, <1>4 DEF HandlerStep

\* TypeOK and LifeInv together are inductive.
LEMMA LifeStep == TypeOK /\ LifeInv /\ [Next]_vars => TypeOK' /\ LifeInv'
  <1> SUFFICES ASSUME TypeOK, LifeInv, [Next]_vars PROVE TypeOK' /\ LifeInv'
    OBVIOUS
  <1>1. CASE Tick
    BY <1>1 DEF Tick, TypeOK, LifeInv, ExitInv, OpenInv, procVars, handlerVars
  <1>2. CASE UNCHANGED vars
    BY <1>2 DEF vars, TypeOK, LifeInv, ExitInv, OpenInv, procVars, handlerVars
  <1>3. QED
    BY <1>1, <1>2, NextCases, ProcessLife, HandlerLife

-----------------------------------------------------------------------------
(* One key                                                                   *)

\* While a key file is being made, no URL has been given out, no process is up
\* and no request is answered: there is only one process, and what is in the
\* file is not yet a key.
LEMMA MakingTheKey ==
    ASSUME OneKey, TypeOK, LifeInv, KeyInv, NEW p \in Procs, pc[p] \in {"create", "write"}
    PROVE  /\ Procs = {p} /\ ConfiguredKey = None /\ key[p] \in Keys
           /\ urls = {}
           /\ \A h \in Handlers : at[h] = None /\ ~open[h]
  <1>1. ConfiguredKey = None /\ key[p] \in Keys
    BY DEF LifeInv, ExitInv, Starting
  <1>2. Procs = {p}
    BY <1>1 DEF OneKey
  <1>3. urls = {}
    BY <1>1 DEF KeyInv, Current
  <1>4. \A h \in Handlers : at[h] = None
    BY <1>2 DEF TypeOK
  <1>5. \A h \in Handlers : ~open[h]
    BY <1>4 DEF LifeInv, OpenInv
  <1>6. QED
    BY <1>1, <1>2, <1>3, <1>4, <1>5

\* Every step of a process keeps KeyInv: signing.key changes only before the
\* first URL is signed.
LEMMA ProcessKey ==
    ASSUME OneKey, TypeOK, LifeInv, KeyInv, NEW p \in Procs, ProcessStep(p)
    PROVE  KeyInv'
  <1>1. CASE Start(p)
    BY <1>1, ConstantsAssumption DEF Start, TypeOK, LifeInv, ExitInv, OpenInv, KeyInv, Current, Up, Starting, procVars, handlerVars
  <1>2. CASE LoadKey(p)
    BY <1>2, ConstantsAssumption DEF LoadKey, TypeOK, LifeInv, ExitInv, OpenInv, KeyInv, Current, Up, Starting, procVars, handlerVars
  <1>3. CASE RefuseKey(p)
    BY <1>3, ConstantsAssumption DEF RefuseKey, TypeOK, LifeInv, ExitInv, OpenInv, KeyInv, Current, Up, Starting, procVars, handlerVars
  <1>4. CASE GenerateKey(p)
    BY <1>4, ConstantsAssumption DEF GenerateKey, TypeOK, LifeInv, ExitInv, OpenInv, KeyInv, Current, Up, Starting, procVars, handlerVars
  <1>5. CASE AwaitStop(p)
    BY <1>5, ConstantsAssumption DEF AwaitStop, TypeOK, LifeInv, ExitInv, OpenInv, KeyInv, Current, Up, Starting, procVars, handlerVars
  <1>6. CASE Shutdown(p)
    BY <1>6, ConstantsAssumption, SMTT(30) DEF Shutdown, TypeOK, LifeInv, ExitInv, OpenInv, KeyInv, Current, Up, Starting, procVars, handlerVars
  <1>7. CASE ShutdownTimesOut(p)
    BY <1>7, ConstantsAssumption DEF ShutdownTimesOut, TypeOK, LifeInv, ExitInv, OpenInv, KeyInv, Current, Up, Starting, procVars, handlerVars
  <1>8. CASE CloseSigner(p)
    BY <1>8, ConstantsAssumption DEF CloseSigner, TypeOK, LifeInv, ExitInv, OpenInv, KeyInv, Current, Up, Starting, procVars, handlerVars
  <1>9. CASE Exit(p)
    BY <1>9, ConstantsAssumption DEF Exit, TypeOK, LifeInv, ExitInv, OpenInv, KeyInv, Current, Up, Starting, procVars, handlerVars, Die
  <1>10. CASE Crash(p)
    BY <1>10, ConstantsAssumption DEF Crash, TypeOK, LifeInv, ExitInv, OpenInv, KeyInv, Current, Up, Starting, procVars, handlerVars, Die
  <1>11. CASE CreateKeyFile(p)
    <2>1. pc[p] \in {"create", "write"}
      BY <1>11, SMTT(30) DEF CreateKeyFile
    <2>2. QED
      BY <1>11, <2>1, MakingTheKey, ConstantsAssumption
      DEF CreateKeyFile, TypeOK, KeyInv, Current, Up, handlerVars
  <1>12. CASE WriteKey(p)
    <2>1. pc[p] \in {"create", "write"}
      BY <1>12 DEF WriteKey
    <2>2. QED
      BY <1>12, <2>1, MakingTheKey, ConstantsAssumption
      DEF WriteKey, TypeOK, KeyInv, Current, Up, handlerVars
  <1>13. CASE WriteKeyFails(p)
    <2>1. pc[p] \in {"create", "write"}
      BY <1>13 DEF WriteKeyFails
    <2>2. QED
      BY <1>13, <2>1, MakingTheKey, ConstantsAssumption
      DEF WriteKeyFails, TypeOK, KeyInv, Current, Up, handlerVars
  <1>14. QED
    BY <1>1, <1>2, <1>3, <1>4, <1>5, <1>6, <1>7, <1>8, <1>9, <1>10, <1>11, <1>12, <1>13 DEF ProcessStep

\* Every step of a handler keeps KeyInv.
LEMMA HandlerKey ==
    ASSUME OneKey, TypeOK, LifeInv, KeyInv, NEW h \in Handlers, HandlerStep(h)
    PROVE  KeyInv'
  <1>1. CASE \E p \in Procs : Arrive(h, p)
    <2> PICK p \in Procs : Arrive(h, p)
      BY <1>1
    <2>1. PICK u \in urls \cup {None}, g \in Grants :
             req' = [req EXCEPT ![h] = [url |-> u, for |-> g]]
      BY ZenonT(30) DEF Arrive
    <2>2. QED
      BY <2>1 DEF Arrive, TypeOK, KeyInv, Current, Up, procVars
  <1>2. CASE Sign(h)
    <2>1. open[h] => key[at[h]] = Current
      BY <1>2 DEF Sign, TypeOK, LifeInv, OpenInv, KeyInv, Up
    <2>2. QED
      BY <1>2, <2>1 DEF Sign, TypeOK, KeyInv, Current, Up, procVars
  <1>3. CASE Check(h)
    BY <1>3 DEF Check, TypeOK, KeyInv, Current, Up, procVars
  <1>4. CASE Respond(h)
    <2>1. \A u \in urls' \ urls : u.key = Current /\ Current \in Keys
      <3>1. open[h] => key[at[h]] = Current /\ key[at[h]] \in Keys
        BY <1>4 DEF Respond, TypeOK, LifeInv, OpenInv, KeyInv, Up
      <3>2. QED
        BY <1>4, <3>1 DEF Respond, KeyInv
    <2>2. QED
      BY <1>4, <2>1 DEF Respond, TypeOK, KeyInv, Current, Up, procVars
  <1>5. QED
    BY <1>1, <1>2, <1>3, <1>4 DEF HandlerStep

\* With one key, KeyInv is preserved.
LEMMA KeyStep ==
    ASSUME OneKey, TypeOK, LifeInv, KeyInv, [Next]_vars
    PROVE  KeyInv'
  <1>1. CASE Tick
    BY <1>1 DEF Tick, KeyInv, Current, procVars, handlerVars
  <1>2. CASE UNCHANGED vars
    BY <1>2 DEF vars, KeyInv, Current, procVars, handlerVars
  <1>3. QED
    BY <1>1, <1>2, NextCases, ProcessKey, HandlerKey

-----------------------------------------------------------------------------
(* Theorems                                                                  *)

\* The variables keep their types, a serving process has a key, and handlers
\* run in processes that are up, for any number of servers.
THEOREM TypeCorrect == Spec => []TypeOK
  BY InitLife, LifeStep, PTL DEF Spec

\* However many servers and handlers there are, a process that exits with code
\* 0 has cut off no request (server.Shutdown, its timeout and Exit).
THEOREM ExitsCleanly == Spec => []CleanExit
  <1>1. LifeInv => CleanExit
    BY DEF LifeInv, ExitInv, CleanExit
  <1>2. QED
    BY <1>1, InitLife, LifeStep, PTL DEF Spec

\* One server that generates its key, or any number with a configured one,
\* honour every signed URL until it expires: across restarts, crashes and
\* shutdowns, and for any number of handlers, keys and grants.
THEOREM HonouredUrls == OneKey => (Spec => UrlsHonoured)
  <1> SUFFICES ASSUME OneKey PROVE Spec => UrlsHonoured
    OBVIOUS
  <1>1. TypeOK /\ LifeInv /\ KeyInv /\ [Next]_vars => KeyInv'
    BY KeyStep
  <1>2. TypeOK /\ LifeInv /\ KeyInv /\ [Next]_vars => [HonourStep]_vars
    <2> SUFFICES ASSUME TypeOK, LifeInv, KeyInv, Next, NEW h \in Handlers,
                        at[h] # None, open[h], ans[h] = None, ans'[h] = Refused,
                        req[h].for = req[h].url.for
                 PROVE  now > req[h].url.exp
      BY DEF HonourStep
    <2>1. Check(h)
      <3>1. CASE \E p \in Procs : ProcessStep(p)
        BY <3>1, NoRequestAssumption, SMTT(90)
        DEF ProcessStep, Start, LoadKey, RefuseKey, GenerateKey, CreateKeyFile, WriteKey,
            WriteKeyFails, AwaitStop, Shutdown, ShutdownTimesOut, CloseSigner, Exit, Crash,
            Die, handlerVars
      <3>2. CASE Tick
        BY <3>2, NoRequestAssumption DEF Tick, handlerVars
      <3>3. ASSUME NEW i \in Handlers, HandlerStep(i) PROVE Check(h)
        <4>1. CASE \E p \in Procs : Arrive(i, p)
          BY <4>1, NoRequestAssumption DEF Arrive, TypeOK
        <4>2. CASE Sign(i)
          <5>1. i = h /\ at'[h] # None /\ req'[h].url = None
            BY <4>2, NoRequestAssumption DEF Sign, TypeOK
          <5>2. OpenInv(h)'
            BY <3>3, HandlerLife DEF LifeInv
          <5>3. ans'[h] \in Url
            BY <5>1, <5>2, NoRequestAssumption DEF OpenInv
          <5>4. QED
            BY <5>3, NoRequestAssumption
        <4>3. CASE Check(i)
          BY <4>3, NoRequestAssumption, ZenonT(30) DEF Check, TypeOK
        <4>4. CASE Respond(i)
          BY <4>4, NoRequestAssumption DEF Respond, TypeOK
        <4>5. QED
          BY <3>3, <4>1, <4>2, <4>3, <4>4, SMTT(30) DEF HandlerStep
      <3>4. QED
        BY <3>1, <3>2, <3>3, NextCases, SMTT(30)
    <2>2. req[h].url \in urls /\ req[h].url \in Url
      BY <2>1 DEF Check, KeyInv, TypeOK
    <2>3. req[h].url.key = key[at[h]]
      BY <2>2 DEF TypeOK, LifeInv, OpenInv, KeyInv, Up
    <2>4. ~Verify(key[at[h]], req[h].url, req[h].for)
      BY <2>1, NoRequestAssumption DEF Check, TypeOK
    <2>5. ~(now <= req[h].url.exp)
      BY <2>3, <2>4, ZenonT(30) DEF Verify
    <2>6. now \in Nat /\ req[h].url.exp \in Nat
      BY <2>2 DEF TypeOK, Url
    <2>7. QED
      BY <2>5, <2>6
  <1>3. QED
    BY <1>1, <1>2, InitLife, LifeStep, PTL DEF Spec, UrlsHonoured
=============================================================================
