---------------------------- MODULE HoldStartup ----------------------------
(***************************************************************************)
(* The life of one host's held connection, as the tn processes on a        *)
(* machine see it: internal/cli/hold.go, hold_unix.go and holdclient.go.   *)
(*                                                                         *)
(* Processes share four things: the config file, the advisory lock file    *)
(* (flock), the socket path and the sockets bound to it.  Every step below *)
(* is one system call, one message or one local decision of one process.   *)
(* A client is one tn command; a daemon is one "tn hold --foreground"      *)
(* process, serving the connection it dialed.                              *)
(***************************************************************************)
EXTENDS Naturals, FiniteSets

CONSTANTS
    Clients,    \* tn command invocations
    Daemons,    \* daemon processes that may be started
    Kind,       \* what each client runs, see Kinds
    Policy,     \* the host-key policy its flags select
    Policies,   \* the policies there are
    Files,      \* contents of the config file, as far as holdConfigID reads it
    Incumbent,  \* the daemon that holds the host at the start, or NoProc
    OldVersion, \* daemons of a tn with another holdProtoVersion
    Faults,     \* what the environment may do, see AllFaults
    NoProc,     \* no process
    NoPath,     \* nothing at the socket path
    StaleSock   \* a socket file no process listens on, left by an earlier boot

Procs == Clients \cup Daemons

\* "op": exec, read, write, ls, push or pull called non-interactively;
\* "info": tn status, or an interactive call, which never starts a daemon.
Kinds == {"op", "info", "hold", "stop"}

\* kill_client   a client dies at any point (Ctrl-C, SIGKILL)
\* kill_daemon   a daemon dies without running its shutdown
\* expire        the idle timeout, a lost SSH connection, or a SIGTERM
\* edit          the user edits the config file
\* deadline      a starter gives up after flagTimeout + 5s
\* foreground    the user runs tn hold --foreground, which takes no lock
\* hello_timeout a live daemon does not send its hello within 5s
\* exec_idle     a client stops waiting after --idle without a frame
AllFaults == {"kill_client", "kill_daemon", "expire", "edit", "deadline",
              "foreground", "hello_timeout", "exec_idle"}

Settings == [file : Files, policy : Policies]

ASSUME ProcsAssumption ==
    /\ Clients \cap Daemons = {}
    /\ NoProc \notin Procs
    /\ NoPath \notin Daemons
    /\ StaleSock \notin Daemons
    /\ NoPath # StaleSock
    /\ NoProc # NoPath
ASSUME ParamsAssumption ==
    /\ Kind \in [Clients -> Kinds]
    /\ Policy \in [Clients -> Policies]
    /\ Incumbent \in Daemons \cup {NoProc}
    /\ OldVersion \subseteq Daemons
    /\ Faults \subseteq AllFaults

VARIABLES
    disk,      \* the config file's content
    settings,  \* the settings each process resolved from it and from its flags
    pc,        \* where each process is
    conn,      \* the daemon at the other end of each process's last connection
    lock,      \* the client that holds the flock
    path,      \* the daemon whose socket is at the path, StaleSock or NoPath
    child,     \* the daemon each client started
    refused,   \* daemons whose probe of the path got ECONNREFUSED
    req,       \* the request on each client's connection
    ran,       \* who ran each client's operation: a daemon, or the client
    result,    \* what each client reported
    told       \* daemons told to shut down: SIGTERM, or a stop request

env == <<disk, settings>>
birth == <<child, refused>>
ops == <<req, ran>>
vars == <<env, pc, conn, lock, path, birth, ops, result, told>>

ClientPc == {"start", "attach", "flock", "probe", "spawn", "wait", "select",
             "reattach", "stopattach", "send", "await", "direct", "done",
             "killed"}
DaemonPc == {"unborn", "load", "dprobe", "prepare", "remove", "dial", "bind",
             "listen", "serve", "stopping", "closing", "exited"}

Starting == {"load", "dprobe", "prepare", "remove", "dial", "bind", "listen"}
Listening == {"serve", "stopping"}           \* the kernel accepts connections
Greeting == {"serve", "stopping", "closing"} \* serveConn goroutines still run

TypeOK ==
    /\ disk \in Files
    /\ settings \in [Procs -> Settings]
    /\ pc \in [Procs -> ClientPc \cup DaemonPc]
    /\ \A c \in Clients : pc[c] \in ClientPc
    /\ \A d \in Daemons : pc[d] \in DaemonPc
    /\ conn \in [Procs -> Daemons \cup {NoProc}]
    /\ lock \in Clients \cup {NoProc}
    /\ path \in Daemons \cup {NoPath, StaleSock}
    /\ child \in [Clients -> Daemons \cup {NoProc}]
    /\ refused \in SUBSET Daemons
    /\ req \in [Clients -> {"none", "sent", "running", "answered", "refused"}]
    /\ ran \in [Clients -> SUBSET Procs]
    /\ result \in [Clients -> {"none", "ok", "error"}]
    /\ told \in SUBSET Daemons

\* Initially the host is held by Incumbent, or by nobody; then a daemon killed
\* earlier may have left its socket file.
Init ==
    /\ disk \in Files
    /\ \E s \in Settings : settings = [p \in Procs |-> s]
    /\ pc = [p \in Procs |-> IF p \in Clients THEN "start"
                             ELSE IF p = Incumbent THEN "serve" ELSE "unborn"]
    /\ conn = [p \in Procs |-> NoProc]
    /\ lock = NoProc
    /\ IF Incumbent = NoProc THEN path \in {NoPath, StaleSock}
                             ELSE path = Incumbent
    /\ child = [c \in Clients |-> NoProc]
    /\ refused = {}
    /\ req = [c \in Clients |-> "none"]
    /\ ran = [c \in Clients |-> {}]
    /\ result = [c \in Clients |-> "none"]
    /\ told = {}

----------------------------------------------------------------------------
(* Moves of one process.                                                   *)

Goto(p, next) == pc' = [pc EXCEPT ![p] = next]

\* Client c goes on to next outside withHoldLock; its flock, if any, is gone.
Leave(c, next) ==
    /\ Goto(c, next)
    /\ lock' = IF lock = c THEN NoProc ELSE lock

Report(c, r) == result' = [result EXCEPT ![c] = r]

\* holdAttach: connect(2), then the daemon's hello.
AttachPc == {"attach", "probe", "wait", "reattach", "stopattach", "dprobe"}

Answers(s) == s \in Daemons /\ pc[s] \in Listening

Connect(p) ==
    /\ pc[p] \in AttachPc
    /\ conn[p] = NoProc
    /\ Answers(path)
    /\ conn' = [conn EXCEPT ![p] = path]
    /\ UNCHANGED <<env, pc, lock, path, birth, ops, result, told>>

\* A hello of this protocol version arrives.
Greeted(p) ==
    /\ conn[p] # NoProc
    /\ pc[conn[p]] \in Greeting
    /\ conn[p] \notin OldVersion

\* Nothing, or a dead socket, at the path.
DialFails(p) ==
    /\ conn[p] = NoProc
    /\ ~Answers(path)
    /\ UNCHANGED told

\* The connection is reset, or 5s pass, before the hello.
HelloFails(p) ==
    /\ conn[p] # NoProc
    /\ \/ pc[conn[p]] \in {"closing", "exited"}
       \/ "hello_timeout" \in Faults
    /\ UNCHANGED told

\* A hello of another version: the daemon gets a SIGTERM.
HelloIncompatible(p) ==
    /\ conn[p] \in OldVersion
    /\ pc[conn[p]] \in Greeting
    /\ told' = told \cup {conn[p]}

\* holdAttach returns an error, and has closed its connection.
AttachFails(p) ==
    /\ DialFails(p) \/ HelloFails(p) \/ HelloIncompatible(p)
    /\ conn' = [conn EXCEPT ![p] = NoProc]

----------------------------------------------------------------------------
(* Clients.                                                                *)

\* The command loads the config and resolves the host; tn hold and its --stop
\* then queue for the flock, the others try the socket.
Load(c) ==
    /\ pc[c] = "start"
    /\ settings' = [settings EXCEPT ![c] = [file |-> disk,
                                            policy |-> Policy[c]]]
    /\ Goto(c, IF Kind[c] \in {"op", "info"} THEN "attach" ELSE "flock")
    /\ UNCHANGED <<disk, conn, lock, path, birth, ops, result, told>>

\* Mutant of Matches: the id leaves out the host's entry.
MatchesPolicy(c, d) == settings[d].policy = settings[c].policy

\* tryHeld with a hello in hand: the daemon must have dialed with the settings
\* this command would dial with.
Matches(c, d) == settings[d] = settings[c]

\* The first attach, or the one after ensureHold, is answered.
Attached(c) ==
    /\ pc[c] \in {"attach", "reattach"}
    /\ Greeted(c)
    /\ IF Matches(c, conn[c])
       THEN Goto(c, "send") /\ UNCHANGED conn
       ELSE Goto(c, "direct") /\ conn' = [conn EXCEPT ![c] = NoProc]
    /\ UNCHANGED <<env, lock, path, birth, ops, result, told>>

\* Nothing to use: an eligible operation goes to ensureHold, once.
AttachError(c) ==
    /\ pc[c] \in {"attach", "reattach"}
    /\ AttachFails(c)
    /\ Goto(c, IF pc[c] = "attach" /\ Kind[c] = "op" THEN "flock"
                                                     ELSE "direct")
    /\ UNCHANGED <<env, lock, path, birth, ops, result>>

\* Mutant of AcquireLock: a shared lock.
AcquireShared(c) ==
    /\ pc[c] = "flock"
    /\ lock' = c
    /\ Goto(c, IF Kind[c] = "stop" THEN "stopattach" ELSE "probe")
    /\ UNCHANGED <<env, conn, path, birth, ops, result, told>>

\* Flock(LOCK_EX) blocks until the lock is free.
AcquireLock(c) ==
    /\ pc[c] = "flock"
    /\ lock = NoProc
    /\ lock' = c
    /\ Goto(c, IF Kind[c] = "stop" THEN "stopattach" ELSE "probe")
    /\ UNCHANGED <<env, conn, path, birth, ops, result, told>>

\* ensureHold succeeds: tn hold reports it, an operation attaches again.  conn
\* of a finished tn hold keeps the daemon it reported.
Ensured(c) ==
    IF Kind[c] = "hold"
    THEN Leave(c, "done") /\ Report(c, "ok") /\ UNCHANGED conn
    ELSE /\ Leave(c, "reattach")
         /\ conn' = [conn EXCEPT ![c] = NoProc]
         /\ UNCHANGED result

\* ensureHold and spawnHold: their probe is answered.
ProbeAnswered(c) ==
    /\ pc[c] \in {"probe", "wait"}
    /\ Greeted(c)
    /\ Ensured(c)
    /\ UNCHANGED <<env, path, birth, ops, told>>

\* ensureHold goes on to spawnHold; spawnHold looks whether its child died.
ProbeError(c) ==
    /\ pc[c] \in {"probe", "wait"}
    /\ AttachFails(c)
    /\ Goto(c, IF pc[c] = "probe" THEN "spawn" ELSE "select")
    /\ UNCHANGED <<env, lock, path, birth, ops, result>>

\* Mutant of Spawn: the starter does not wait for the socket.
SpawnDetached(c, d) ==
    /\ pc[c] = "spawn"
    /\ pc[d] = "unborn"
    /\ d \notin OldVersion
    /\ pc' = [pc EXCEPT ![c] = "reattach", ![d] = "load"]
    /\ child' = [child EXCEPT ![c] = d]
    /\ settings' = [settings EXCEPT ![d] = [file |-> @.file,
                                            policy |-> Policy[c]]]
    /\ lock' = NoProc
    /\ UNCHANGED <<disk, conn, path, refused, ops, result, told>>

\* spawnHold starts the daemon, which inherits the policy flags.
Spawn(c, d) ==
    /\ pc[c] = "spawn"
    /\ pc[d] = "unborn"
    /\ d \notin OldVersion
    /\ pc' = [pc EXCEPT ![c] = "wait", ![d] = "load"]
    /\ child' = [child EXCEPT ![c] = d]
    /\ settings' = [settings EXCEPT ![d] = [file |-> @.file,
                                            policy |-> Policy[c]]]
    /\ UNCHANGED <<disk, conn, lock, path, refused, ops, result, told>>

\* The probe failed; the child lives, so there is time for another.  (The timer
\* may win over a child dying just then, as if it had fired before.)
ProbeAgain(c) ==
    /\ pc[c] = "select"
    /\ pc[child[c]] # "exited"
    /\ Goto(c, "wait")
    /\ UNCHANGED <<env, conn, lock, path, birth, ops, result, told>>

\* ensureHold fails: the process cannot be started, the child died, or
\* flagTimeout + 5s have passed at the head of the loop.  tn hold reports it, an
\* operation dials directly.
StartupError(c) ==
    /\ \/ pc[c] = "spawn"
       \/ pc[c] = "select" /\ pc[child[c]] = "exited"
       \/ pc[c] = "wait" /\ conn[c] = NoProc /\ "deadline" \in Faults
    /\ IF Kind[c] = "hold" THEN Leave(c, "done") /\ Report(c, "error")
                           ELSE Leave(c, "direct") /\ UNCHANGED result
    /\ UNCHANGED <<env, conn, path, birth, ops, told>>

\* stopHold: a hello is followed by the request; no daemon is a success.
StopAttached(c) ==
    /\ pc[c] = "stopattach"
    /\ Greeted(c)
    /\ Goto(c, "send")
    /\ UNCHANGED <<env, conn, lock, path, birth, ops, result, told>>

NothingToStop(c) ==
    /\ pc[c] = "stopattach"
    /\ AttachFails(c)
    /\ Leave(c, "done")
    /\ Report(c, "ok")
    /\ UNCHANGED <<env, path, birth, ops>>

\* holdRoundTrip writes the request frame; that commits the operation.
Send(c) ==
    /\ pc[c] = "send"
    /\ pc[conn[c]] # "exited"
    /\ req' = [req EXCEPT ![c] = "sent"]
    /\ Goto(c, "await")
    /\ UNCHANGED <<env, conn, lock, path, birth, ran, result, told>>

SendError(c) ==
    /\ pc[c] = "send"
    /\ pc[conn[c]] = "exited"
    /\ Leave(c, "done")
    /\ Report(c, "error")
    /\ UNCHANGED <<env, conn, path, birth, ops, told>>

\* The exit frame: the operation's outcome is reported, whatever it is.
Answered(c) ==
    /\ pc[c] = "await"
    /\ req[c] \in {"answered", "refused"}
    /\ Leave(c, "done")
    /\ Report(c, IF req[c] = "answered" THEN "ok" ELSE "error")
    /\ UNCHANGED <<env, conn, path, birth, ops, told>>

\* Mutant of AnswerLost: an operation whose answer is lost falls back.
RunAgain(c) ==
    /\ pc[c] = "await"
    /\ req[c] \in {"sent", "running"}
    /\ pc[conn[c]] = "exited"
    /\ Leave(c, "direct")
    /\ UNCHANGED <<env, conn, path, birth, ops, result, told>>

\* The connection is lost, or --idle passes without a frame.
AnswerLost(c) ==
    /\ pc[c] = "await"
    /\ \/ /\ req[c] \in {"sent", "running"}
          /\ pc[conn[c]] = "exited"
       \/ "exec_idle" \in Faults
    /\ Leave(c, "done")
    /\ Report(c, "error")
    /\ UNCHANGED <<env, conn, path, birth, ops, told>>

\* The direct path: dial, run, close.
Direct(c) ==
    /\ pc[c] = "direct"
    /\ Goto(c, "done")
    /\ \/ ran' = [ran EXCEPT ![c] = @ \cup {c}] /\ Report(c, "ok")
       \/ UNCHANGED ran /\ Report(c, "error")
    /\ UNCHANGED <<env, conn, lock, path, birth, req, told>>

\* Mutant of KillClient: a lock file that has to be removed by its holder.
KillKeepsLock(c) ==
    /\ "kill_client" \in Faults
    /\ pc[c] \notin {"start", "done", "killed"}
    /\ Goto(c, "killed")
    /\ UNCHANGED <<env, conn, lock, path, birth, ops, result, told>>

KillClient(c) ==
    /\ "kill_client" \in Faults
    /\ pc[c] \notin {"start", "done", "killed"}
    /\ Leave(c, "killed")
    /\ UNCHANGED <<env, conn, path, birth, ops, result, told>>

ClientStep(c) ==
    \/ Load(c) \/ Attached(c) \/ AttachError(c) \/ AcquireLock(c)
    \/ ProbeAnswered(c) \/ ProbeError(c) \/ ProbeAgain(c) \/ StartupError(c)
    \/ (\E d \in Daemons : Spawn(c, d))
    \/ StopAttached(c) \/ NothingToStop(c) \/ Send(c) \/ SendError(c)
    \/ Answered(c) \/ AnswerLost(c) \/ Direct(c)

----------------------------------------------------------------------------
(* Daemons.                                                                *)

\* The user starts a daemon in the foreground, with flags of their own.
StartForeground(d) ==
    /\ "foreground" \in Faults
    /\ pc[d] = "unborn"
    /\ Goto(d, "load")
    /\ \E p \in Policies :
           settings' = [settings EXCEPT ![d] = [file |-> @.file, policy |-> p]]
    /\ UNCHANGED <<disk, conn, lock, path, birth, ops, result, told>>

LoadDaemon(d) ==
    /\ pc[d] = "load"
    /\ settings' = [settings EXCEPT ![d] = [file |-> disk, policy |-> @.policy]]
    /\ Goto(d, "dprobe")
    /\ UNCHANGED <<disk, conn, lock, path, birth, ops, result, told>>

\* runHoldDaemon: "already holding".
AlreadyHeld(d) ==
    /\ pc[d] = "dprobe"
    /\ Greeted(d)
    /\ Goto(d, "exited")
    /\ conn' = [conn EXCEPT ![d] = NoProc]
    /\ UNCHANGED <<env, lock, path, birth, ops, result, told>>

\* The probe fails; ECONNREFUSED is a socket file without a listener.
NotHeld(d) ==
    /\ pc[d] = "dprobe"
    /\ AttachFails(d)
    /\ refused' = IF conn[d] = NoProc /\ path # NoPath THEN refused \cup {d}
                                                       ELSE refused
    /\ Goto(d, "prepare")
    /\ UNCHANGED <<env, lock, path, child, ops, result>>

\* Mutant of Prepare: whatever does not answer is removed.
PrepareAny(d) ==
    /\ pc[d] = "prepare"
    /\ Goto(d, IF path = NoPath THEN "dial" ELSE "remove")
    /\ UNCHANGED <<env, conn, lock, path, birth, ops, result, told>>

\* prepareHoldSocket looks at the path (Lstat) ...
Prepare(d) ==
    /\ pc[d] = "prepare"
    /\ Goto(d, IF path = NoPath THEN "dial"
               ELSE IF d \in refused THEN "remove" ELSE "exited")
    /\ UNCHANGED <<env, conn, lock, path, birth, ops, result, told>>

\* ... and removes what is there by then (os.Remove, an error when gone).
RemoveStale(d) ==
    /\ pc[d] = "remove"
    /\ path' = NoPath
    /\ Goto(d, IF path = NoPath THEN "exited" ELSE "dial")
    /\ UNCHANGED <<env, conn, lock, birth, ops, result, told>>

\* sshx.Dial within flagTimeout.
DialHost(d) ==
    /\ pc[d] = "dial"
    /\ Goto(d, "bind") \/ Goto(d, "exited")
    /\ UNCHANGED <<env, conn, lock, path, birth, ops, result, told>>

\* net.Listen: bind(2) fails if the path exists, then listen(2).
Bind(d) ==
    /\ pc[d] = "bind"
    /\ IF path = NoPath THEN path' = d /\ Goto(d, "listen")
                        ELSE UNCHANGED path /\ Goto(d, "exited")
    /\ UNCHANGED <<env, conn, lock, birth, ops, result, told>>

Listen(d) ==
    /\ pc[d] = "listen"
    /\ Goto(d, "serve")
    /\ UNCHANGED <<env, conn, lock, path, birth, ops, result, told>>

\* serveConn takes a request: the operation runs on the held connection, or is
\* refused (too many at once, or the SSH connection is already closed).
Dispatch(d, c) ==
    /\ conn[c] = d
    /\ pc[d] \in Greeting
    /\ req[c] = "sent"
    /\ \/ /\ req' = [req EXCEPT ![c] = "running"]
          /\ ran' = IF Kind[c] = "stop" THEN ran
                     ELSE [ran EXCEPT ![c] = @ \cup {d}]
       \/ req' = [req EXCEPT ![c] = "refused"] /\ UNCHANGED ran
    /\ UNCHANGED <<env, pc, conn, lock, path, birth, result, told>>

\* Mutant of Finish: a stop request is answered and nothing else.
FinishOnly(d, c) ==
    /\ conn[c] = d
    /\ pc[d] \in Greeting
    /\ req[c] = "running"
    /\ req' = [req EXCEPT ![c] = "answered"]
    /\ UNCHANGED <<env, pc, conn, lock, path, birth, ran, result, told>>

\* The exit frame is written before a stop request takes effect.
Finish(d, c) ==
    /\ conn[c] = d
    /\ pc[d] \in Greeting
    /\ req[c] = "running"
    /\ req' = [req EXCEPT ![c] = "answered"]
    /\ told' = IF Kind[c] = "stop" THEN told \cup {d} ELSE told
    /\ UNCHANGED <<env, pc, conn, lock, path, birth, ran, result>>

\* shutdown: a stop request or SIGTERM, the idle timeout, a lost connection.
BeginShutdown(d) ==
    /\ pc[d] = "serve"
    /\ d \in told
    /\ Goto(d, "stopping")
    /\ UNCHANGED <<env, conn, lock, path, birth, ops, result, told>>

Expire(d) ==
    /\ "expire" \in Faults
    /\ pc[d] = "serve"
    /\ d \notin told
    /\ told' = told \cup {d}
    /\ UNCHANGED <<env, pc, conn, lock, path, birth, ops, result>>

\* Mutant of Unlink: the listener is closed, the path stays.
UnlinkForgotten(d) ==
    /\ pc[d] = "stopping"
    /\ Goto(d, "closing")
    /\ UNCHANGED <<env, conn, lock, path, birth, ops, result, told>>

\* ln.Close unlinks the path, whatever is there, before it closes the socket.
Unlink(d) ==
    /\ pc[d] = "stopping"
    /\ path' = NoPath
    /\ Goto(d, "closing")
    /\ UNCHANGED <<env, conn, lock, birth, ops, result, told>>

Exit(d) ==
    /\ pc[d] = "closing"
    /\ Goto(d, "exited")
    /\ UNCHANGED <<env, conn, lock, path, birth, ops, result, told>>

DaemonStep(d) ==
    \/ LoadDaemon(d) \/ AlreadyHeld(d) \/ NotHeld(d) \/ Prepare(d)
    \/ RemoveStale(d) \/ DialHost(d) \/ Bind(d) \/ Listen(d)
    \/ (\E c \in Clients : Dispatch(d, c) \/ Finish(d, c))
    \/ BeginShutdown(d) \/ Unlink(d) \/ Exit(d)

\* A daemon dies without running its shutdown: the socket file stays.
KillDaemon(d) ==
    /\ "kill_daemon" \in Faults
    /\ pc[d] \notin {"unborn", "exited"}
    /\ Goto(d, "exited")
    /\ UNCHANGED <<env, conn, lock, path, birth, ops, result, told>>

EditConfig ==
    /\ "edit" \in Faults
    /\ disk' \in Files \ {disk}
    /\ UNCHANGED <<settings, pc, conn, lock, path, birth, ops, result, told>>

\* Every command has ended; every daemon is idle.
Quiescent ==
    /\ \A c \in Clients : pc[c] \in {"done", "killed"}
    /\ \A d \in Daemons : pc[d] \in {"unborn", "serve", "exited"}
    /\ \A d \in told : pc[d] = "exited"
    /\ UNCHANGED vars

Next ==
    \/ \E p \in Procs : Connect(p)
    \/ \E c \in Clients : ClientStep(c) \/ KillClient(c)
    \/ \E d \in Daemons : DaemonStep(d) \/ StartForeground(d) \/ Expire(d)
                             \/ KillDaemon(d)
    \/ EditConfig
    \/ Quiescent

Spec == Init /\ [][Next]_vars

\* At the head of the loop, once time is up; the lock admits one starter there.
GiveUp == \E c \in Clients : pc[c] = "wait" /\ StartupError(c)

\* Every live process is scheduled, a connection attempt is made, and a starter
\* whose probes fail again and again comes to its deadline.
Fairness ==
    /\ \A p \in Procs : WF_vars(Connect(p))
    /\ \A c \in Clients : WF_vars(ClientStep(c))
    /\ SF_vars(GiveUp)
    /\ \A d \in Daemons : WF_vars(DaemonStep(d))

FairSpec == Spec /\ Fairness

----------------------------------------------------------------------------
(* Properties.                                                             *)

\* "Once the request frame is on the wire the op is committed: errors after
\* that are returned as errors, never silently re-run": an operation is run by
\* one daemon, or directly by its client, never twice.
AtMostOneRun == \A c \in Clients : \A x, y \in ran[c] : x = y

\* No operation runs on a connection dialed with other settings than the ones
\* its command resolved, whatever was edited, restarted or started meanwhile.
ServedByMatchingConfig ==
    \A c \in Clients, d \in Daemons :
        d \in ran[c] => settings[d] = settings[c]

\* A daemon that has bound its socket, and does not shut down, can be reached:
\* the socket at the path is its own.  Otherwise it holds an SSH connection
\* that no command can use or stop.
Reachable ==
    \A d \in Daemons : pc[d] \in {"listen", "serve", "stopping"} => path = d

\* "Concurrent agents coalesce onto that one startup": no daemon starts while
\* another starts or serves (one with an incompatible protocol aside).
StartupCoalesces ==
    \A d, e \in Daemons \ OldVersion :
        pc[d] \in Starting /\ pc[e] \in Starting \cup {"serve"} => d = e

\* prepareHoldSocket "removes only paths proven stale": nobody but the daemon
\* itself takes the socket of a living daemon away from the path.
RemovesOnlyStale ==
    [][\A d \in Daemons : path = d /\ path' # d
                             => pc[d] = "exited" \/ pc'[d] = "closing"]_vars

\* "A clean exit leaves no stale file."  (Where no daemon is killed.)
CleanExit == \A d \in Daemons : path = d => pc[d] # "exited"

\* Every command ends: none waits for ever for the lock, a socket, a startup or
\* an answer, whoever dies while holding the lock.
AllFinish == <>(\A c \in Clients : pc[c] \in {"done", "killed"})

\* A daemon whose stop was reported does exit, and its socket goes with it.
StopStops ==
    \A d \in Daemons :
        (\E c \in Clients : Kind[c] = "stop" /\ result[c] = "ok" /\ conn[c] = d)
            ~> (pc[d] = "exited" /\ path # d)

----------------------------------------------------------------------------
(* What the protocol promises about one operation: HeldOp.                 *)

Operations == {c \in Clients : Kind[c] \in {"op", "info"}}

Phase(c) ==
    IF pc[c] \in {"done", "killed"}
    THEN IF req[c] = "none" THEN "closed" ELSE "over"
    ELSE IF req[c] = "none" THEN "open" ELSE "committed"

Held == INSTANCE HeldOp WITH
    Ops <- Operations,
    Servers <- Daemons,
    phase <- [c \in Operations |-> Phase(c)],
    by <- [c \in Operations |-> ran[c]]

\* Every operation is committed, run and reported as HeldOp says.
HeldSpec == Held!Spec

============================================================================
