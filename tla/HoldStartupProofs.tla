------------------------- MODULE HoldStartupProofs -------------------------
(* Proofs about HoldStartup, for any set of clients, daemons and faults.    *)
EXTENDS HoldStartup, TLAPS

\* Every variable keeps its type through every step of every process.
LEMMA TypeInvariant == TypeOK /\ [Next]_vars => TypeOK'
<1> SUFFICES ASSUME TypeOK, [Next]_vars PROVE TypeOK'
  OBVIOUS
<1> USE ProcsAssumption, ParamsAssumption DEF TypeOK, Procs, ClientPc, DaemonPc,
        Goto, Leave, Report, env, birth, ops
<1>1. ASSUME NEW p \in Procs, Connect(p) PROVE TypeOK'
  BY <1>1 DEF Connect, Answers
<1> DEFINE CStep(c) == ClientStep(c) \/ KillClient(c)
<1>2. ASSUME NEW c \in Clients, CStep(c) PROVE TypeOK'
  <2>1. CASE Load(c)
    BY <2>1 DEF Load, Settings, Kinds
  <2>2. CASE Attached(c)
    BY <2>2 DEF Attached, Greeted
  <2>3. CASE AttachError(c)
    BY <2>3 DEF AttachError, AttachFails, DialFails, HelloFails,
                HelloIncompatible
  <2>4. CASE AcquireLock(c)
    BY <2>4 DEF AcquireLock
  <2>5. CASE ProbeAnswered(c)
    BY <2>5 DEF ProbeAnswered, Ensured
  <2>6. CASE ProbeError(c)
    BY <2>6 DEF ProbeError, AttachFails, DialFails, HelloFails,
                HelloIncompatible
  <2>7. CASE ProbeAgain(c)
    BY <2>7 DEF ProbeAgain
  <2>8. CASE StartupError(c)
    BY <2>8, SMTT(30) DEF StartupError
  <2>9. ASSUME NEW d \in Daemons, Spawn(c, d) PROVE TypeOK'
    <3>1. settings' \in [Procs -> Settings]
      BY <2>9 DEF Spawn, Settings
    <3>2. /\ pc' \in [Procs -> ClientPc \cup DaemonPc]
          /\ \A e \in Clients : pc'[e] \in ClientPc
      BY <2>9 DEF Spawn
    <3>3. \A e \in Daemons : pc'[e] \in DaemonPc
      BY <2>9 DEF Spawn
    <3> QED
      BY <2>9, <3>1, <3>2, <3>3 DEF Spawn
  <2>10. CASE StopAttached(c)
    BY <2>10 DEF StopAttached
  <2>11. CASE NothingToStop(c)
    BY <2>11 DEF NothingToStop, AttachFails, DialFails, HelloFails,
                 HelloIncompatible
  <2>12. CASE Send(c)
    BY <2>12 DEF Send
  <2>13. CASE SendError(c)
    BY <2>13 DEF SendError
  <2>14. CASE Answered(c)
    BY <2>14 DEF Answered
  <2>15. CASE AnswerLost(c)
    BY <2>15 DEF AnswerLost
  <2>16. CASE Direct(c)
    BY <2>16, SMTT(30) DEF Direct
  <2>17. CASE KillClient(c)
    BY <2>17 DEF KillClient
  <2> HIDE DEF TypeOK, Goto, Leave, Report, env, birth, ops
  <2> QED
    BY <1>2, <2>1, <2>2, <2>3, <2>4, <2>5, <2>6, <2>7, <2>8, <2>9, <2>10,
       <2>11, <2>12, <2>13, <2>14, <2>15, <2>16, <2>17
       DEF CStep, ClientStep
<1> DEFINE DStep(d) == DaemonStep(d) \/ StartForeground(d) \/ Expire(d)
                           \/ KillDaemon(d)
<1>3. ASSUME NEW d \in Daemons, DStep(d) PROVE TypeOK'
  <2>1. CASE LoadDaemon(d)
    BY <2>1 DEF LoadDaemon, Settings
  <2>2. CASE AlreadyHeld(d)
    BY <2>2 DEF AlreadyHeld
  <2>3. CASE NotHeld(d)
    BY <2>3 DEF NotHeld, AttachFails, DialFails, HelloFails,
                HelloIncompatible
  <2>4. CASE Prepare(d)
    BY <2>4 DEF Prepare
  <2>5. CASE RemoveStale(d)
    BY <2>5 DEF RemoveStale
  <2>6. CASE DialHost(d)
    BY <2>6 DEF DialHost
  <2>7. CASE Bind(d)
    BY <2>7 DEF Bind
  <2>8. CASE Listen(d)
    BY <2>8 DEF Listen
  <2>9. ASSUME NEW c \in Clients, Dispatch(d, c) PROVE TypeOK'
    BY <2>9 DEF Dispatch
  <2>10. ASSUME NEW c \in Clients, Finish(d, c) PROVE TypeOK'
    BY <2>10 DEF Finish
  <2>11. CASE BeginShutdown(d)
    BY <2>11 DEF BeginShutdown
  <2>12. CASE Unlink(d)
    BY <2>12 DEF Unlink
  <2>13. CASE Exit(d)
    BY <2>13 DEF Exit
  <2>14. CASE StartForeground(d)
    BY <2>14 DEF StartForeground, Settings
  <2>15. CASE Expire(d)
    BY <2>15 DEF Expire
  <2>16. CASE KillDaemon(d)
    BY <2>16 DEF KillDaemon
  <2> QED
    BY <1>3, <2>1, <2>2, <2>3, <2>4, <2>5, <2>6, <2>7, <2>8, <2>9, <2>10,
       <2>11, <2>12, <2>13, <2>14, <2>15, <2>16 DEF DStep, DaemonStep
<1>4. CASE EditConfig
  BY <1>4 DEF EditConfig
<1>5. CASE UNCHANGED vars
  BY <1>5 DEF vars
<1> QED
  BY <1>1, <1>2, <1>3, <1>4, <1>5 DEF Next, Quiescent, CStep, DStep

\* Types are right in every reachable state.
THEOREM TypeCorrect == Spec => []TypeOK
<1>1. Init => TypeOK
  BY ProcsAssumption, ParamsAssumption
     DEF Init, TypeOK, Procs, ClientPc, DaemonPc, Settings
<1> QED
  BY <1>1, TypeInvariant, PTL DEF Spec

----------------------------------------------------------------------------
(* One operation: at most one run, by one daemon with matching settings.    *)

\* What is known of one client, whatever the others do: a request is written
\* once, to the daemon whose hello was accepted; only that daemon runs it; and
\* a client that wrote none runs its operation at most once, at the end.
OpInv(c) ==
    /\ pc[c] = "stopattach" => Kind[c] = "stop"
    /\ pc[c] \notin {"await", "done", "killed"} => req[c] = "none"
    /\ req[c] = "none" => ran[c] \subseteq {c}
    /\ req[c] = "none" /\ pc[c] \notin {"done", "killed"} => ran[c] = {}
    /\ req[c] # "none" => ran[c] \subseteq {conn[c]}
    /\ req[c] = "sent" => ran[c] = {}
    /\ Kind[c] = "stop" /\ req[c] # "none" => ran[c] = {}
    /\ pc[c] = "send" \/ req[c] # "none"
          => /\ conn[c] \in Daemons
             /\ pc[conn[c]] \notin {"unborn", "load"}
             /\ Kind[c] # "stop" => settings[conn[c]] = settings[c]

OpsInv == TypeOK /\ \A c \in Clients : OpInv(c)

\* Each step of each process preserves what is known of every client.
LEMMA OpsStep == OpsInv /\ [Next]_vars => OpsInv'
<1> SUFFICES ASSUME OpsInv, [Next]_vars, NEW k \in Clients PROVE OpInv(k)'
  BY TypeInvariant DEF OpsInv
<1>0. TypeOK /\ OpInv(k) /\ TypeOK'
  BY TypeInvariant DEF OpsInv
<1> USE <1>0, ProcsAssumption DEF TypeOK, Procs, OpInv, Goto, Leave, Report,
        env, birth, ops, Greeting
<1>1. ASSUME NEW p \in Procs, Connect(p) PROVE OpInv(k)'
  BY <1>1 DEF Connect, AttachPc
<1> DEFINE CStep(c) == ClientStep(c) \/ KillClient(c)
<1>2. ASSUME NEW c \in Clients, CStep(c) PROVE OpInv(k)'
  <2>1. CASE Load(c)
    BY <2>1 DEF Load
  <2>2. CASE Attached(c)
    BY <2>2 DEF Attached, Greeted, Matches
  <2>3. CASE AttachError(c)
    BY <2>3 DEF AttachError,
                AttachFails, DialFails, HelloFails, HelloIncompatible
  <2>4. CASE AcquireLock(c)
    BY <2>4 DEF AcquireLock
  <2>5. CASE ProbeAnswered(c)
    BY <2>5 DEF ProbeAnswered, Greeted, Ensured
  <2>6. CASE ProbeError(c)
    BY <2>6 DEF ProbeError,
                AttachFails, DialFails, HelloFails, HelloIncompatible
  <2>7. CASE ProbeAgain(c)
    BY <2>7 DEF ProbeAgain
  <2>8. CASE StartupError(c)
    BY <2>8, SMTT(30) DEF StartupError
  <2>9. ASSUME NEW d \in Daemons, Spawn(c, d) PROVE OpInv(k)'
    BY <2>9 DEF Spawn
  <2>10. CASE StopAttached(c)
    BY <2>10 DEF StopAttached, Greeted
  <2>11. CASE NothingToStop(c)
    BY <2>11 DEF NothingToStop,
                AttachFails, DialFails, HelloFails, HelloIncompatible
  <2>12. CASE Send(c)
    BY <2>12 DEF Send
  <2>13. CASE SendError(c)
    BY <2>13 DEF SendError
  <2>14. CASE Answered(c)
    BY <2>14 DEF Answered
  <2>15. CASE AnswerLost(c)
    BY <2>15 DEF AnswerLost
  <2>16. CASE Direct(c)
    BY <2>16, SMTT(30) DEF Direct
  <2>17. CASE KillClient(c)
    BY <2>17 DEF KillClient
  <2> QED
    BY <1>2, <2>1, <2>2, <2>3, <2>4, <2>5, <2>6, <2>7, <2>8, <2>9, <2>10,
       <2>11, <2>12, <2>13, <2>14, <2>15, <2>16, <2>17
       DEF CStep, ClientStep
<1> DEFINE DStep(d) == DaemonStep(d) \/ StartForeground(d) \/ Expire(d)
                           \/ KillDaemon(d)
<1>3. ASSUME NEW d \in Daemons, DStep(d) PROVE OpInv(k)'
  <2>1. CASE LoadDaemon(d)
    BY <2>1 DEF LoadDaemon
  <2>2. CASE AlreadyHeld(d)
    BY <2>2 DEF AlreadyHeld, Greeted
  <2>3. CASE NotHeld(d)
    BY <2>3 DEF NotHeld,
                AttachFails, DialFails, HelloFails, HelloIncompatible
  <2>4. CASE Prepare(d)
    BY <2>4 DEF Prepare
  <2>5. CASE RemoveStale(d)
    BY <2>5 DEF RemoveStale
  <2>6. CASE DialHost(d)
    BY <2>6 DEF DialHost
  <2>7. CASE Bind(d)
    BY <2>7 DEF Bind
  <2>8. CASE Listen(d)
    BY <2>8 DEF Listen
  <2>9. ASSUME NEW c \in Clients, Dispatch(d, c) PROVE OpInv(k)'
    BY <2>9 DEF Dispatch
  <2>10. ASSUME NEW c \in Clients, Finish(d, c) PROVE OpInv(k)'
    BY <2>10 DEF Finish
  <2>11. CASE BeginShutdown(d)
    BY <2>11 DEF BeginShutdown
  <2>12. CASE Unlink(d)
    BY <2>12 DEF Unlink
  <2>13. CASE Exit(d)
    BY <2>13 DEF Exit
  <2>14. CASE StartForeground(d)
    BY <2>14 DEF StartForeground
  <2>15. CASE Expire(d)
    BY <2>15 DEF Expire
  <2>16. CASE KillDaemon(d)
    BY <2>16 DEF KillDaemon
  <2> QED
    BY <1>3, <2>1, <2>2, <2>3, <2>4, <2>5, <2>6, <2>7, <2>8, <2>9, <2>10,
       <2>11, <2>12, <2>13, <2>14, <2>15, <2>16
       DEF DStep, DaemonStep
<1>4. CASE EditConfig
  BY <1>4 DEF EditConfig
<1>5. CASE UNCHANGED vars
  BY <1>5 DEF vars
<1> QED
  BY <1>1, <1>2, <1>3, <1>4, <1>5 DEF Next, Quiescent, CStep, DStep

LEMMA OpsCorrect == Spec => []OpsInv
<1>1. Init => OpsInv
  <2> SUFFICES ASSUME Init PROVE OpsInv
    OBVIOUS
  <2>1. TypeOK
    BY ProcsAssumption, ParamsAssumption
       DEF Init, TypeOK, Procs, ClientPc, DaemonPc, Settings
  <2>2. ASSUME NEW c \in Clients PROVE OpInv(c)
    BY ProcsAssumption DEF Init, OpInv, Procs
  <2> QED
    BY <2>1, <2>2 DEF OpsInv
<1> QED
  BY <1>1, OpsStep, PTL DEF Spec

\* A committed operation is never re-run: not by its client, not by another
\* daemon, whatever fails between the request and the report.
THEOREM RunsOnce == Spec => []AtMostOneRun
<1>1. OpsInv => AtMostOneRun
  BY DEF OpsInv, OpInv, AtMostOneRun, TypeOK
<1> QED
  BY <1>1, OpsCorrect, PTL

\* An operation never runs on a connection dialed with other settings.
THEOREM SettingsMatch == Spec => []ServedByMatchingConfig
<1>1. OpsInv => ServedByMatchingConfig
  BY ProcsAssumption DEF OpsInv, OpInv, ServedByMatchingConfig, TypeOK, Procs
<1> QED
  BY <1>1, OpsCorrect, PTL

----------------------------------------------------------------------------
(* Refinement: every step is a step of HeldOp, or changes nothing it sees.  *)

\* A step of the protocol, as HeldOp sees it.
HeldStep == [Held!Next]_(Held!vars)

Unseen(k) == Phase(k)' = Phase(k) /\ ran'[k] = ran[k]

\* What one step may do to operation c.
Seen(c) ==
    \/ /\ Phase(c) = "open" /\ Phase(c)' = "committed"
       /\ ran'[c] = ran[c]
    \/ /\ Phase(c) = "committed" /\ Phase(c)' = "over"
       /\ ran'[c] = ran[c]
    \/ /\ Phase(c) = "open" /\ Phase(c)' = "closed"
       /\ ran'[c] = ran[c] \/ ran'[c] = {c}
    \/ /\ Phase(c) \in {"committed", "over"} /\ Phase(c)' = Phase(c)
       /\ ran[c] = {} /\ \E d \in Daemons : ran'[c] = {d}

LEMMA UnseenStep ==
  ASSUME TypeOK, TypeOK', \A k \in Operations : Unseen(k)
  PROVE  HeldStep
BY DEF HeldStep, Held!vars, Unseen

\* If a step does one such thing to c and nothing to the others, HeldOp takes
\* the step of that name for c.
LEMMA SeenStep ==
  ASSUME NEW c \in Operations, \A k \in Operations \ {c} : Unseen(k), Seen(c)
  PROVE  HeldStep
<1> USE DEF Seen, Unseen, HeldStep, Held!Next
<1>1. CASE /\ Phase(c) = "open" /\ Phase(c)' = "committed"
           /\ ran'[c] = ran[c]
  <2>1. Held!Commit(c)
    BY <1>1 DEF Held!Commit
  <2> QED
    BY <2>1
<1>2. CASE /\ Phase(c) = "committed" /\ Phase(c)' = "over"
           /\ ran'[c] = ran[c]
  <2>1. Held!Report(c)
    BY <1>2 DEF Held!Report
  <2> QED
    BY <2>1
<1>3. CASE /\ Phase(c) = "open" /\ Phase(c)' = "closed"
           /\ ran'[c] = ran[c] \/ ran'[c] = {c}
  <2>1. Held!Close(c)
    BY <1>3 DEF Held!Close
  <2> QED
    BY <2>1
<1>4. ASSUME Phase(c) \in {"committed", "over"}, Phase(c)' = Phase(c),
             ran[c] = {}, NEW d \in Daemons, ran'[c] = {d}
      PROVE  HeldStep
  <2>1. Held!Serve(c, d)
    BY <1>4 DEF Held!Serve
  <2> QED
    BY <2>1
<1> QED
  BY <1>1, <1>2, <1>3, <1>4

\* A step of a client, or of a daemon for it, is a step of its operation.
LEMMA HeldNext == OpsInv /\ [Next]_vars => HeldStep
<1> SUFFICES ASSUME OpsInv, [Next]_vars PROVE HeldStep
  OBVIOUS
<1>0. /\ TypeOK /\ TypeOK' /\ \A k \in Clients : OpInv(k)
      /\ Operations \subseteq Clients
  BY TypeInvariant DEF OpsInv, Operations
<1> DEFINE Hidden == \A k \in Operations : Unseen(k)
           Shown(c) == /\ c \in Operations /\ Seen(c)
                       /\ \A k \in Operations \ {c} : Unseen(k)
           Good == Hidden \/ \E c \in Clients : Shown(c)
<1> SUFFICES Good
  BY <1>0, UnseenStep, SeenStep
<1> USE <1>0, ProcsAssumption DEF TypeOK, Procs, Goto, Leave, Report, env,
        birth, ops, Phase, Unseen, Seen
<1>1. ASSUME NEW p \in Procs, Connect(p) PROVE Good
  BY <1>1 DEF Connect
<1> DEFINE CStep(c) == ClientStep(c) \/ KillClient(c)
<1>2. ASSUME NEW c \in Clients, CStep(c) PROVE Good
  <2>0. OpInv(c)
    BY <1>0
  <2>1. CASE Load(c)
    BY <2>1 DEF Load
  <2>2. CASE Attached(c)
    BY <2>2 DEF Attached, Greeted
  <2>3. CASE AttachError(c)
    BY <2>3 DEF AttachError, AttachFails, DialFails, HelloFails,
           HelloIncompatible
  <2>4. CASE AcquireLock(c)
    BY <2>4 DEF AcquireLock
  <2>5. CASE ProbeAnswered(c)
    BY <2>5 DEF ProbeAnswered, Ensured, Operations
  <2>6. CASE ProbeError(c)
    BY <2>6 DEF ProbeError, AttachFails, DialFails, HelloFails,
           HelloIncompatible
  <2>7. CASE ProbeAgain(c)
    BY <2>7 DEF ProbeAgain
  <2>8. CASE StartupError(c)
    BY <2>8 DEF StartupError, Operations
  <2>9. ASSUME NEW d \in Daemons, Spawn(c, d) PROVE Good
    BY <2>9 DEF Spawn
  <2>10. CASE StopAttached(c)
    BY <2>10 DEF StopAttached
  <2>11. CASE NothingToStop(c)
    BY <2>11 DEF NothingToStop, AttachFails, DialFails, HelloFails,
           HelloIncompatible, Operations
  <2>12. CASE Send(c)
    BY <2>12, <2>0 DEF Send, OpInv
  <2>13. CASE SendError(c)
    BY <2>13, <2>0 DEF SendError, OpInv
  <2>14. CASE Answered(c)
    BY <2>14, <2>0 DEF Answered, OpInv
  <2>15. CASE AnswerLost(c)
    BY <2>15, <2>0 DEF AnswerLost, OpInv
  <2>16. CASE Direct(c)
    BY <2>16, <2>0 DEF Direct, OpInv
  <2>17. CASE KillClient(c)
    BY <2>17, <2>0 DEF KillClient, OpInv
  <2> QED
    BY <1>2, <2>1, <2>2, <2>3, <2>4, <2>5, <2>6, <2>7, <2>8, <2>9, <2>10,
       <2>11, <2>12, <2>13, <2>14, <2>15, <2>16, <2>17
       DEF CStep, ClientStep
<1> DEFINE DStep(d) == DaemonStep(d) \/ StartForeground(d) \/ Expire(d)
                           \/ KillDaemon(d)
<1>3. ASSUME NEW d \in Daemons, DStep(d) PROVE Good
  <2>1. CASE LoadDaemon(d)
    BY <2>1 DEF LoadDaemon
  <2>2. CASE AlreadyHeld(d)
    BY <2>2 DEF AlreadyHeld
  <2>3. CASE NotHeld(d)
    BY <2>3 DEF NotHeld, AttachFails, DialFails, HelloFails,
           HelloIncompatible
  <2>4. CASE Prepare(d)
    BY <2>4 DEF Prepare
  <2>5. CASE RemoveStale(d)
    BY <2>5 DEF RemoveStale
  <2>6. CASE DialHost(d)
    BY <2>6 DEF DialHost
  <2>7. CASE Bind(d)
    BY <2>7 DEF Bind
  <2>8. CASE Listen(d)
    BY <2>8 DEF Listen
  <2>9. ASSUME NEW c \in Clients, Dispatch(d, c) PROVE Good
    BY <2>9 DEF Dispatch, OpInv
  <2>10. ASSUME NEW c \in Clients, Finish(d, c) PROVE Good
    BY <2>10 DEF Finish, Operations
  <2>11. CASE BeginShutdown(d)
    BY <2>11 DEF BeginShutdown
  <2>12. CASE Unlink(d)
    BY <2>12 DEF Unlink
  <2>13. CASE Exit(d)
    BY <2>13 DEF Exit
  <2>14. CASE StartForeground(d)
    BY <2>14 DEF StartForeground
  <2>15. CASE Expire(d)
    BY <2>15 DEF Expire
  <2>16. CASE KillDaemon(d)
    BY <2>16 DEF KillDaemon
  <2> QED
    BY <1>3, <2>1, <2>2, <2>3, <2>4, <2>5, <2>6, <2>7, <2>8, <2>9, <2>10,
       <2>11, <2>12, <2>13, <2>14, <2>15, <2>16
       DEF DStep, DaemonStep
<1>4. CASE EditConfig
  BY <1>4 DEF EditConfig
<1>5. CASE UNCHANGED vars
  BY <1>5 DEF vars
<1> QED
  BY <1>1, <1>2, <1>3, <1>4, <1>5 DEF Next, Quiescent, CStep, DStep

\* The protocol of the processes implements HeldOp: what tryHeld promises about
\* one operation holds for any number of commands, daemons and faults.
THEOREM ImplementsHeldOp == Spec => HeldSpec
<1>1. Init => Held!Init
  BY DEF Init, Held!Init, Operations, Phase, Procs
<1>2. OpsInv /\ [Next]_vars => [Held!Next]_(Held!vars)
  BY HeldNext DEF HeldStep
<1> QED
  BY <1>1, <1>2, OpsCorrect, PTL DEF Spec, HeldSpec, Held!Spec

----------------------------------------------------------------------------
(* A clean exit.                                                           *)

\* The daemon whose socket is at the path has not exited.
PathBound ==
    TypeOK /\ (path \in Daemons => pc[path] \in {"listen", "serve", "stopping"})

LEMMA PathBoundStep ==
  ASSUME "kill_daemon" \notin Faults, PathBound, [Next]_vars
  PROVE  PathBound'
<1>0. TypeOK'
  BY TypeInvariant DEF PathBound
<1> USE <1>0, ProcsAssumption DEF PathBound, TypeOK, Procs, Goto, Leave, Report,
        env, birth, ops
<1>1. ASSUME NEW p \in Procs, Connect(p) PROVE PathBound'
  BY <1>1 DEF Connect
<1> DEFINE CStep(c) == ClientStep(c) \/ KillClient(c)
<1>2. ASSUME NEW c \in Clients, CStep(c) PROVE PathBound'
  <2>1. CASE Load(c)
    BY <2>1 DEF Load
  <2>2. CASE Attached(c)
    BY <2>2 DEF Attached
  <2>3. CASE AttachError(c)
    BY <2>3 DEF AttachError, AttachFails, DialFails, HelloFails,
                HelloIncompatible
  <2>4. CASE AcquireLock(c)
    BY <2>4 DEF AcquireLock
  <2>5. CASE ProbeAnswered(c)
    BY <2>5 DEF ProbeAnswered, Ensured
  <2>6. CASE ProbeError(c)
    BY <2>6 DEF ProbeError, AttachFails, DialFails, HelloFails,
                HelloIncompatible
  <2>7. CASE ProbeAgain(c)
    BY <2>7 DEF ProbeAgain
  <2>8. CASE StartupError(c)
    BY <2>8, SMTT(30) DEF StartupError
  <2>9. ASSUME NEW d \in Daemons, Spawn(c, d) PROVE PathBound'
    BY <2>9 DEF Spawn
  <2>10. CASE StopAttached(c)
    BY <2>10 DEF StopAttached
  <2>11. CASE NothingToStop(c)
    BY <2>11 DEF NothingToStop, AttachFails, DialFails, HelloFails,
                HelloIncompatible
  <2>12. CASE Send(c)
    BY <2>12 DEF Send
  <2>13. CASE SendError(c)
    BY <2>13 DEF SendError
  <2>14. CASE Answered(c)
    BY <2>14 DEF Answered
  <2>15. CASE AnswerLost(c)
    BY <2>15 DEF AnswerLost
  <2>16. CASE Direct(c)
    BY <2>16, SMTT(30) DEF Direct
  <2>17. CASE KillClient(c)
    BY <2>17 DEF KillClient
  <2> QED
    BY <1>2, <2>1, <2>2, <2>3, <2>4, <2>5, <2>6, <2>7, <2>8, <2>9, <2>10,
       <2>11, <2>12, <2>13, <2>14, <2>15, <2>16, <2>17
       DEF CStep, ClientStep
<1> DEFINE DStep(d) == DaemonStep(d) \/ StartForeground(d) \/ Expire(d)
                           \/ KillDaemon(d)
<1>3. ASSUME NEW d \in Daemons, DStep(d) PROVE PathBound'
  <2>1. CASE LoadDaemon(d)
    BY <2>1 DEF LoadDaemon
  <2>2. CASE AlreadyHeld(d)
    BY <2>2 DEF AlreadyHeld
  <2>3. CASE NotHeld(d)
    BY <2>3 DEF NotHeld, AttachFails, DialFails, HelloFails,
                HelloIncompatible
  <2>4. CASE Prepare(d)
    BY <2>4 DEF Prepare
  <2>5. CASE RemoveStale(d)
    BY <2>5 DEF RemoveStale
  <2>6. CASE DialHost(d)
    BY <2>6 DEF DialHost
  <2>7. CASE Bind(d)
    BY <2>7 DEF Bind
  <2>8. CASE Listen(d)
    BY <2>8 DEF Listen
  <2>9. ASSUME NEW c \in Clients, Dispatch(d, c) PROVE PathBound'
    BY <2>9 DEF Dispatch
  <2>10. ASSUME NEW c \in Clients, Finish(d, c) PROVE PathBound'
    BY <2>10 DEF Finish
  <2>11. CASE BeginShutdown(d)
    BY <2>11 DEF BeginShutdown
  <2>12. CASE Unlink(d)
    BY <2>12 DEF Unlink
  <2>13. CASE Exit(d)
    BY <2>13 DEF Exit
  <2>14. CASE StartForeground(d)
    BY <2>14 DEF StartForeground
  <2>15. CASE Expire(d)
    BY <2>15 DEF Expire
  <2>16. CASE KillDaemon(d)
    BY <2>16 DEF KillDaemon
  <2> QED
    BY <1>3, <2>1, <2>2, <2>3, <2>4, <2>5, <2>6, <2>7, <2>8, <2>9, <2>10,
       <2>11, <2>12, <2>13, <2>14, <2>15, <2>16
       DEF DStep, DaemonStep
<1>4. CASE EditConfig
  BY <1>4 DEF EditConfig
<1>5. CASE UNCHANGED vars
  BY <1>5 DEF vars
<1> QED
  BY <1>1, <1>2, <1>3, <1>4, <1>5 DEF Next, Quiescent, CStep, DStep

\* Where no daemon is killed, none leaves its socket behind, in whatever order
\* daemons start, are replaced and stop.
THEOREM ExitsClean ==
  ASSUME "kill_daemon" \notin Faults
  PROVE  Spec => []CleanExit
<1>1. Init => PathBound
  BY ProcsAssumption, ParamsAssumption
     DEF Init, PathBound, TypeOK, Procs, ClientPc, DaemonPc, Settings
<1>2. PathBound /\ [Next]_vars => PathBound'
  BY PathBoundStep
<1>3. PathBound => CleanExit
  BY DEF PathBound, CleanExit
<1> QED
  BY <1>1, <1>2, <1>3, PTL DEF Spec

----------------------------------------------------------------------------
(***************************************************************************)
(* HoldStartup when startups are serial: every starter stays until its     *)
(* child serves or is dead, no daemon is started by hand, and a live daemon *)
(* sends its hello in time.  Then, for any number of commands and daemons, *)
(* and whatever daemons are killed, at most one starts at a time, each can *)
(* be reached, and only dead sockets are removed.                          *)
(***************************************************************************)

Serial ==
    Faults \cap {"kill_client", "deadline", "foreground", "hello_timeout"} = {}

Bound == {"listen", "serve", "stopping"}

\* Only the holder of the flock is between its probe and its child's readiness.
LockInv ==
    \A c \in Clients :
        pc[c] \in {"probe", "spawn", "wait", "select", "stopattach"}
            => lock = c

\* A daemon starts only while its starter waits for it, under the lock.
StartInv ==
    \A d \in Daemons : pc[d] \in Starting
        => lock \in Clients /\ pc[lock] \in {"wait", "select"} /\ child[lock] = d

\* The path names the bound daemon, or one that died, or none.
PathInv ==
    /\ \A d \in Daemons : pc[d] \in Bound => path = d
    /\ path \in Daemons => pc[path] \in Bound \cup {"exited"}

\* What a daemon is about to remove belongs to no living daemon.
StaleInv ==
    \A d \in Daemons :
        /\ pc[d] \in {"unborn", "load", "dprobe"} => d \notin refused
        /\ pc[d] = "remove" \/ (pc[d] = "prepare" /\ d \in refused)
              => (path \in Daemons => pc[path] = "exited")

\* What the starter's probes have shown: it starts a daemon only if none of its
\* own version listens, and then only its child can answer it.
ProbeInv ==
    \A c \in Clients :
        /\ pc[c] \in {"start", "flock", "spawn", "select"} => conn[c] = NoProc
        /\ pc[c] \in {"wait", "select"} => child[c] \in Daemons
        /\ pc[c] = "probe" /\ conn[c] # NoProc
              => \A f \in Daemons : pc[f] \in Listening => f = conn[c]
        /\ pc[c] = "spawn"
              => \A f \in Daemons : pc[f] \in Listening => f \in OldVersion
        /\ pc[c] \in {"wait", "select"}
              => \A f \in Daemons : pc[f] \in Listening
                                        => f \in OldVersion \/ f = child[c]
        /\ pc[c] = "wait" /\ conn[c] # NoProc
              => conn[c] \in OldVersion \/ conn[c] = child[c]

SerialInv ==
    TypeOK /\ LockInv /\ StartInv /\ PathInv /\ StaleInv /\ ProbeInv

\* Each step preserves what serial startups rest on.
LEMMA SerialStep ==
  ASSUME Serial, SerialInv, [Next]_vars
  PROVE  SerialInv'
<1>0. TypeOK'
  BY TypeInvariant DEF SerialInv
<1> DEFINE Inv == LockInv /\ StartInv /\ PathInv /\ StaleInv /\ ProbeInv
<1> SUFFICES Inv'
  BY <1>0 DEF SerialInv
<1> USE <1>0, ProcsAssumption, ParamsAssumption
        DEF SerialInv, TypeOK, Procs, LockInv, StartInv, PathInv, StaleInv,
            ProbeInv, Goto, Leave, Report, env, birth, ops, Starting,
            Listening, Greeting, Bound
<1>1. ASSUME NEW p \in Procs, Connect(p) PROVE Inv'
  BY <1>1 DEF Connect, AttachPc, Answers
<1> DEFINE CStep(c) == ClientStep(c) \/ KillClient(c)
<1>2. ASSUME NEW c \in Clients, CStep(c) PROVE Inv'
  <2>1. CASE Load(c)
    BY <2>1 DEF Load
  <2>2. CASE Attached(c)
    BY <2>2 DEF Attached, Greeted
  <2>3. CASE AttachError(c)
    BY <2>3 DEF AttachError, Answers, Serial, AttachFails, DialFails,
                HelloFails, HelloIncompatible
  <2>4. CASE AcquireLock(c)
    BY <2>4 DEF AcquireLock
  <2>5. CASE ProbeAnswered(c)
    BY <2>5 DEF ProbeAnswered, Greeted, Ensured
  <2>6. CASE ProbeError(c)
    BY <2>6 DEF ProbeError, Answers, Serial, AttachFails, DialFails,
                HelloFails, HelloIncompatible
  <2>7. CASE ProbeAgain(c)
    BY <2>7 DEF ProbeAgain
  <2>8. CASE StartupError(c)
    BY <2>8 DEF StartupError, Serial
  <2>9. ASSUME NEW d \in Daemons, Spawn(c, d) PROVE Inv'
    BY <2>9 DEF Spawn
  <2>10. CASE StopAttached(c)
    BY <2>10 DEF StopAttached, Greeted
  <2>11. CASE NothingToStop(c)
    BY <2>11 DEF NothingToStop, Answers, Serial, AttachFails, DialFails,
                HelloFails, HelloIncompatible
  <2>12. CASE Send(c)
    BY <2>12 DEF Send
  <2>13. CASE SendError(c)
    BY <2>13 DEF SendError
  <2>14. CASE Answered(c)
    BY <2>14 DEF Answered
  <2>15. CASE AnswerLost(c)
    BY <2>15 DEF AnswerLost
  <2>16. CASE Direct(c)
    BY <2>16 DEF Direct
  <2>17. CASE KillClient(c)
    BY <2>17 DEF KillClient, Serial
  <2> QED
    BY <1>2, <2>1, <2>2, <2>3, <2>4, <2>5, <2>6, <2>7, <2>8, <2>9, <2>10,
       <2>11, <2>12, <2>13, <2>14, <2>15, <2>16, <2>17
       DEF CStep, ClientStep
<1> DEFINE DStep(d) == DaemonStep(d) \/ StartForeground(d) \/ Expire(d)
                           \/ KillDaemon(d)
<1>3. ASSUME NEW d \in Daemons, DStep(d) PROVE Inv'
  <2>1. CASE LoadDaemon(d)
    BY <2>1 DEF LoadDaemon
  <2>2. CASE AlreadyHeld(d)
    BY <2>2 DEF AlreadyHeld, Greeted
  <2>3. CASE NotHeld(d)
    BY <2>3 DEF NotHeld, Answers, Serial, AttachFails, DialFails,
                HelloFails, HelloIncompatible
  <2>4. CASE Prepare(d)
    BY <2>4 DEF Prepare
  <2>5. CASE RemoveStale(d)
    BY <2>5 DEF RemoveStale
  <2>6. CASE DialHost(d)
    BY <2>6 DEF DialHost
  <2>7. CASE Bind(d)
    BY <2>7 DEF Bind
  <2>8. CASE Listen(d)
    BY <2>8 DEF Listen
  <2>9. ASSUME NEW c \in Clients, Dispatch(d, c) PROVE Inv'
    BY <2>9 DEF Dispatch
  <2>10. ASSUME NEW c \in Clients, Finish(d, c) PROVE Inv'
    BY <2>10 DEF Finish
  <2>11. CASE BeginShutdown(d)
    BY <2>11 DEF BeginShutdown
  <2>12. CASE Unlink(d)
    BY <2>12 DEF Unlink
  <2>13. CASE Exit(d)
    BY <2>13 DEF Exit
  <2>14. CASE StartForeground(d)
    BY <2>14 DEF StartForeground, Serial
  <2>15. CASE Expire(d)
    BY <2>15 DEF Expire
  <2>16. CASE KillDaemon(d)
    BY <2>16 DEF KillDaemon
  <2> QED
    BY <1>3, <2>1, <2>2, <2>3, <2>4, <2>5, <2>6, <2>7, <2>8, <2>9, <2>10,
       <2>11, <2>12, <2>13, <2>14, <2>15, <2>16
       DEF DStep, DaemonStep
<1>4. CASE EditConfig
  BY <1>4 DEF EditConfig
<1>5. CASE UNCHANGED vars
  BY <1>5 DEF vars
<1> QED
  BY <1>1, <1>2, <1>3, <1>4, <1>5 DEF Next, Quiescent, CStep, DStep

LEMMA SerialCorrect ==
  ASSUME Serial
  PROVE  Spec => []SerialInv
<1>1. Init => SerialInv
  <2> SUFFICES ASSUME Init PROVE SerialInv
    OBVIOUS
  <2>1. TypeOK
    BY ProcsAssumption, ParamsAssumption
       DEF Init, TypeOK, Procs, ClientPc, DaemonPc, Settings
  <2>2. LockInv /\ StartInv /\ PathInv /\ StaleInv /\ ProbeInv
    BY ProcsAssumption, ParamsAssumption
       DEF Init, LockInv, StartInv, PathInv, StaleInv, ProbeInv, Procs,
           Starting, Bound
  <2> QED
    BY <2>1, <2>2 DEF SerialInv
<1>2. SerialInv /\ [Next]_vars => SerialInv'
  BY SerialStep
<1> QED
  BY <1>1, <1>2, PTL DEF Spec

\* While startups are serial, a daemon that has bound its socket is the one at
\* the path until it shuts down: it can be used and stopped.
THEOREM SerialReachable ==
  ASSUME Serial
  PROVE  Spec => []Reachable
<1>1. SerialInv => Reachable
  BY DEF SerialInv, PathInv, Bound, Reachable
<1> QED
  BY <1>1, SerialCorrect, PTL

\* While startups are serial, no daemon starts beside another that starts or
\* serves.
THEOREM SerialCoalesces ==
  ASSUME Serial
  PROVE  Spec => []StartupCoalesces
<1>1. SerialInv => StartupCoalesces
  BY DEF SerialInv, StartInv, ProbeInv, StartupCoalesces, Starting, Listening,
         TypeOK
<1> QED
  BY <1>1, SerialCorrect, PTL

\* While startups are serial, no process removes the socket of a living daemon.
THEOREM SerialRemovesOnlyStale ==
  ASSUME Serial
  PROVE  Spec => RemovesOnlyStale
<1> DEFINE Kept == \A d \in Daemons : path = d /\ path' # d
                       => pc[d] = "exited" \/ pc'[d] = "closing"
<1>1. ASSUME SerialInv, [Next]_vars PROVE Kept
  <2> USE ProcsAssumption, <1>1 DEF SerialInv, TypeOK, Procs, StaleInv, PathInv,
          Goto
  <2>1. ASSUME NEW d \in Daemons, RemoveStale(d) PROVE Kept
    BY <2>1 DEF RemoveStale
  <2>2. ASSUME NEW d \in Daemons, Bind(d) PROVE Kept
    BY <2>2 DEF Bind
  <2>3. ASSUME NEW d \in Daemons, Unlink(d) PROVE Kept
    BY <2>3 DEF Unlink, Bound
  <2>4. /\ \A p \in Procs : Connect(p) => UNCHANGED path
        /\ \A c \in Clients : ClientStep(c) => UNCHANGED path
    BY DEF Connect, ClientStep, Load, Attached, AttachError, AcquireLock,
       ProbeAnswered, ProbeError, ProbeAgain, StartupError, Spawn,
       StopAttached, NothingToStop, Send, SendError, Answered, AnswerLost,
       Direct
  <2>5. ASSUME NEW d \in Daemons, DaemonStep(d)
        PROVE  UNCHANGED path \/ RemoveStale(d) \/ Bind(d) \/ Unlink(d)
    BY <2>5 DEF DaemonStep, LoadDaemon, AlreadyHeld, NotHeld, Prepare,
       DialHost, Listen, Dispatch, Finish, BeginShutdown, Exit
  <2>6. \/ UNCHANGED path
        \/ \E d \in Daemons : RemoveStale(d) \/ Bind(d) \/ Unlink(d)
    BY <1>1, <2>4, <2>5 DEF Next, vars, Quiescent, KillClient,
       StartForeground, Expire, KillDaemon, EditConfig
  <2> QED
    BY <2>1, <2>2, <2>3, <2>6
<1>2. SerialInv /\ [Next]_vars => [Kept]_vars
  BY <1>1
<1> QED
  BY <1>2, SerialCorrect, PTL DEF Spec, RemovesOnlyStale

============================================================================
