------------------------------- MODULE Proxy -------------------------------
(***************************************************************************)
(* tn proxy runs on a local machine, its listener and proxy.env on a remote: *)
(* internal/cli/proxy.go, the --proxy prefix of exec.go, and the server's    *)
(* forwards as in internal/sshtest/server.go.                                *)
(*                                                                         *)
(* A proxy dials, asks for a forward, writes proxy.env, serves, and starts   *)
(* again when its connection is lost.  Its end of the connection and the     *)
(* server's notice that separately.                                          *)
(***************************************************************************)
EXTENDS Naturals, FiniteSets

CONSTANTS
    Proxies,   \* runs of tn proxy on one remote account
    Ports,     \* ports of the remote
    Foreign,   \* those that other programs on it use at times
    Want,      \* the port each run asks for, or AnyPort
    AnyPort,   \* -p 0
    Losses,    \* bound on lost connections and failed dials
    Faults,    \* what else may happen, see AllFaults
    None       \* no port, no connection, no file

\* kill  a proxy dies without its deferred calls
\* sftp  the sftp subsystem fails, or the write or the removal of proxy.env
AllFaults == {"kill", "sftp"}

\* The connections of a proxy, in the order of its dials.
Conns == Proxies \X (1..(Losses + 1))

ASSUME ProxyAssumption ==
    /\ Want \in [Proxies -> Ports \cup {AnyPort}]
    /\ AnyPort \notin Ports /\ None \notin Ports \cup Conns
    /\ Foreign \subseteq Ports
    /\ Losses \in Nat
    /\ Faults \subseteq AllFaults

VARIABLES
    pc,        \* where each proxy is
    stop,      \* proxies that got SIGINT or SIGTERM
    gen,       \* connections each has dialed
    link,      \* the newest one, as its proxy sees it
    port,      \* the port it listens on
    cleans,    \* the removal of proxy.env is deferred
    left,      \* losses the network has left
    srv,       \* connections the server has
    fwd,       \* the connection each port's listener belongs to
    pending,   \* listeners opened for a request that is not answered yet
    env,       \* proxy.env: the connection that wrote it
    lost,      \* history: connections that broke
    kept,      \* history: connections that failed to remove proxy.env
    taken,     \* ports that another program listens on
    rd,        \* the exec --proxy commands on the remote, one after another
    rfile      \* the proxy.env whose port is to be tried

client == <<pc, stop, gen, link, port, cleans>>
server == <<srv, fwd, pending>>
past == <<lost, kept>>
reader == <<rd, rfile>>
others == <<taken, reader>>
vars == <<client, left, server, env, past, others>>

Records == [by : Conns, port : Ports]

TypeOK ==
    /\ pc \in [Proxies -> {"dial", "listen", "env", "serve", "cleanup", "close",
                           "backoff", "stopped", "failed", "killed"}]
    /\ stop \subseteq Proxies
    /\ gen \in [Proxies -> 0..(Losses + 1)]
    /\ link \in [Proxies -> {"none", "up", "broken", "closed"}]
    /\ port \in [Proxies -> Ports \cup {None}]
    /\ cleans \subseteq Proxies
    /\ left \in 0..Losses
    /\ srv \subseteq Conns /\ pending \subseteq Conns
    /\ fwd \in [Ports -> Conns \cup {None}]
    /\ env \in Records \cup {None}
    /\ lost \subseteq Conns /\ kept \subseteq Conns
    /\ taken \subseteq Foreign
    /\ rd \in {"read", "probe", "source"}
    /\ rfile \in Records \cup {None}

Init ==
    /\ pc = [p \in Proxies |-> "dial"] /\ stop = {}
    /\ gen = [p \in Proxies |-> 0] /\ link = [p \in Proxies |-> "none"]
    /\ port = [p \in Proxies |-> None] /\ cleans = {}
    /\ left = Losses
    /\ srv = {} /\ fwd = [t \in Ports |-> None] /\ pending = {}
    /\ env = None /\ lost = {} /\ kept = {} /\ taken = {}
    /\ rd = "read" /\ rfile = None

----------------------------------------------------------------------------
(* One proxy: RunE and runProxyOnce.                                       *)

Step(p, from, to) == pc[p] = from /\ pc' = [pc EXCEPT ![p] = to]
Mine(p) == <<p, gen[p]>>
Ended(p) == pc[p] \in {"stopped", "failed", "killed"}

\* RunE, after runProxyOnce has returned an error that waiting may cure.
Retry(p) == IF p \in stop THEN "stopped" ELSE "backoff"

Dial(p) ==
    /\ Step(p, "dial", "listen")
    /\ gen' = [gen EXCEPT ![p] = @ + 1]
    /\ link' = [link EXCEPT ![p] = "up"]
    /\ srv' = srv \cup {Mine(p)'}
    /\ UNCHANGED <<stop, port, cleans, left, fwd, pending, env, past, others>>

\* sshx.Dial fails: out of reach, or cancelled.
DialFails(p) ==
    /\ Step(p, "dial", Retry(p))
    /\ p \in stop \/ left > 0
    /\ left' = IF p \in stop THEN left ELSE left - 1
    /\ UNCHANGED <<stop, gen, link, port, cleans, server, env, past, others>>

\* The request for a forward fails with the connection.
ListenLost(p) ==
    /\ Step(p, "listen", Retry(p))
    /\ link[p] = "closed"
    /\ UNCHANGED <<stop, gen, link, port, cleans, left, server, env, past, others>>

\* newSFTP, MkdirAll, writeFile; their errors are printed and forgotten, and
\* without an SFTP client there is nothing to clean up.  A write that fails may
\* have removed the old file, one whose answer is lost may have replaced it.
WriteEnv(p) ==
    LET new == [by |-> Mine(p), port |-> port[p]] IN
    /\ Step(p, "env", "serve")
    /\ \/ link[p] = "up" /\ env' = new /\ cleans' = cleans \cup {p}
       \/ /\ \/ link[p] = "up" /\ "sftp" \in Faults /\ env' \in {env, None}
             \/ link[p] = "closed" /\ env' \in {env, None, new}
          /\ cleans' \in {cleans, cleans \cup {p}}
    /\ UNCHANGED <<stop, gen, link, port, left, server, past, others>>

\* Mutant of ServeEnds: nobody closes the listener on a signal.
ServeEndsLost(p) ==
    /\ Step(p, "serve", "cleanup")
    /\ link[p] = "closed"
    /\ UNCHANGED <<stop, gen, link, port, cleans, left, server, env, past, others>>

\* socks.Serve returns: the connection is lost, or the listener was closed by
\* the goroutine that waits for ctx.
ServeEnds(p) ==
    /\ Step(p, "serve", "cleanup")
    /\ link[p] = "closed" \/ p \in stop
    /\ UNCHANGED <<stop, gen, link, port, cleans, left, server, env, past, others>>

\* Mutant of Cleanup: the connection is closed before.
CleanupLate(p) ==
    /\ Step(p, "cleanup", "close")
    /\ link' = [link EXCEPT ![p] = "closed"]
    /\ cleans' = cleans \ {p}
    /\ UNCHANGED <<stop, gen, port, left, server, env, past, others>>

\* The first deferred call: a new SFTP client removes proxy.env, whoever wrote
\* it; it gives up without a word.  A connection that is lost fails it, once that
\* is noticed.
Cleanup(p) ==
    /\ Step(p, "cleanup", "close")
    /\ link[p] # "broken"
    /\ IF p \in cleans /\ link[p] = "up"
       THEN \/ env' = None /\ UNCHANGED kept
            \/ "sftp" \in Faults /\ kept' = kept \cup {Mine(p)} /\ UNCHANGED env
       ELSE UNCHANGED <<env, kept>>
    /\ cleans' = cleans \ {p}
    /\ UNCHANGED <<stop, gen, link, port, left, server, lost, others>>

\* Then the listener and the connection are closed.
Close(p) ==
    /\ Step(p, "close", Retry(p))
    /\ link' = [link EXCEPT ![p] = "closed"]
    /\ port' = [port EXCEPT ![p] = None]
    /\ UNCHANGED <<stop, gen, cleans, left, server, env, past, others>>

\* Mutant of Backoff: whatever error there was, it is taken for permanent.
BackoffNever(p) ==
    /\ Step(p, "backoff", IF p \in stop THEN "stopped" ELSE "failed")
    /\ UNCHANGED <<stop, gen, link, port, cleans, left, server, env, past, others>>

Backoff(p) ==
    /\ Step(p, "backoff", IF p \in stop THEN "stopped" ELSE "dial")
    /\ UNCHANGED <<stop, gen, link, port, cleans, left, server, env, past, others>>

Stop(p) ==
    /\ ~Ended(p) /\ p \notin stop
    /\ stop' = stop \cup {p}
    /\ UNCHANGED <<pc, gen, link, port, cleans, left, server, env, past, others>>

Kill(p) ==
    /\ "kill" \in Faults /\ ~Ended(p)
    /\ pc' = [pc EXCEPT ![p] = "killed"]
    /\ link' = [link EXCEPT ![p] = "closed"]
    /\ UNCHANGED <<stop, gen, port, cleans, left, server, env, past, others>>

----------------------------------------------------------------------------
(* The network and the server.                                             *)

Break(p) ==
    /\ link[p] = "up" /\ left > 0
    /\ link' = [link EXCEPT ![p] = "broken"]
    /\ left' = left - 1
    /\ lost' = lost \cup {Mine(p)}
    /\ UNCHANGED <<pc, stop, gen, port, cleans, server, env, kept, others>>

\* The keepalive of sshx.Dial notices.
Notice(p) ==
    /\ link[p] = "broken"
    /\ link' = [link EXCEPT ![p] = "closed"]
    /\ UNCHANGED <<pc, stop, gen, port, cleans, left, server, env, past, others>>

\* tcpip-forward: net.Listen on a port ...
BindForward(p, t) ==
    /\ pc[p] = "listen" /\ link[p] = "up"
    /\ Mine(p) \in srv /\ Mine(p) \notin pending
    /\ t = Want[p] \/ Want[p] = AnyPort
    /\ fwd[t] = None /\ t \notin taken
    /\ fwd' = [fwd EXCEPT ![t] = Mine(p)]
    /\ pending' = pending \cup {Mine(p)}
    /\ UNCHANGED <<client, left, srv, env, past, others>>

\* ... which fails when the port is taken, by whatever connection or program: an
\* error that isPermanentProxyError takes for one that waiting cannot cure.
DenyForward(p) ==
    /\ Step(p, "listen", IF p \in stop THEN "stopped" ELSE "failed")
    /\ link[p] = "up" /\ Mine(p) \in srv \ pending
    /\ Want[p] # AnyPort /\ (fwd[Want[p]] # None \/ Want[p] \in taken)
    /\ link' = [link EXCEPT ![p] = "closed"]
    /\ UNCHANGED <<stop, gen, port, cleans, left, server, env, past, others>>

\* The port goes to the client that asked, if it still waits.
Reply(c) ==
    LET p == c[1] IN
    IF pc[p] = "listen" /\ link[p] = "up" /\ c = Mine(p)
    THEN /\ Step(p, "listen", "env")
         /\ port' = [port EXCEPT ![p] = CHOOSE t \in Ports : fwd[t] = c]
    ELSE UNCHANGED <<pc, port>>

\* Mutant of AddForward: the listener is recorded after the connection's end.
AddForwardLate(c) ==
    /\ c \in pending
    /\ pending' = pending \ {c}
    /\ Reply(c)
    /\ UNCHANGED <<fwd, srv, stop, gen, link, cleans, left, env, past, others>>

\* addForward: a listener of a connection that has ended is closed.
AddForward(c) ==
    /\ c \in pending
    /\ pending' = pending \ {c}
    /\ IF c \in srv
       THEN Reply(c) /\ UNCHANGED fwd
       ELSE /\ fwd' = [t \in Ports |-> IF fwd[t] = c THEN None ELSE fwd[t]]
            /\ UNCHANGED <<pc, port>>
    /\ UNCHANGED <<srv, stop, gen, link, cleans, left, env, past, others>>

\* Mutant of EndConn: listeners are kept by client, not by connection.
EndClient(c) ==
    /\ c \in srv
    /\ c # Mine(c[1]) \/ link[c[1]] # "up"
    /\ srv' = srv \ {c}
    /\ fwd' = [t \in Ports |->
                  IF fwd[t] # None /\ fwd[t][1] = c[1] /\ fwd[t] \notin pending
                  THEN None ELSE fwd[t]]
    /\ UNCHANGED <<client, left, pending, env, past, others>>

\* The server notices the end of a connection: closeAll.
EndConn(c) ==
    /\ c \in srv
    /\ c # Mine(c[1]) \/ link[c[1]] # "up"
    /\ srv' = srv \ {c}
    /\ fwd' = [t \in Ports |-> IF fwd[t] = c /\ c \notin pending THEN None
                                                                ELSE fwd[t]]
    /\ UNCHANGED <<client, left, pending, env, past, others>>

\* Another program listens on a port, or ends.
OtherListens(t) ==
    /\ t \in Foreign
    /\ IF t \in taken THEN taken' = taken \ {t}
                       ELSE fwd[t] = None /\ taken' = taken \cup {t}
    /\ UNCHANGED <<client, left, server, env, past, reader>>

----------------------------------------------------------------------------
(* exec --proxy.                                                           *)

\* The port is taken from proxy.env, if there is one ...
ReadEnv ==
    /\ rd = "read" /\ env # None
    /\ rd' = "probe" /\ rfile' = env
    /\ UNCHANGED <<client, left, server, env, past, taken>>

\* ... it is tried, which whatever listens on it answers, or the command is
\* refused ...
Probe ==
    /\ rd = "probe"
    /\ rd' = IF fwd[rfile.port] # None \/ rfile.port \in taken THEN "source"
                                                               ELSE "read"
    /\ rfile' = None
    /\ UNCHANGED <<client, left, server, env, past, taken>>

\* ... and the file, as it is by then, gives the command its environment.
Source ==
    /\ rd = "source"
    /\ rd' = "read"
    /\ UNCHANGED <<client, left, server, env, past, taken, rfile>>

----------------------------------------------------------------------------

Run(p) ==
    \/ Dial(p) \/ DialFails(p) \/ ListenLost(p) \/ WriteEnv(p) \/ ServeEnds(p)
    \/ Cleanup(p) \/ Close(p) \/ Backoff(p)

Serve ==
    \/ \E p \in Proxies : DenyForward(p) \/ \E t \in Ports : BindForward(p, t)
    \/ \E c \in Conns : AddForward(c) \/ EndConn(c)

Exec == ReadEnv \/ Probe \/ Source

Next ==
    \/ \E p \in Proxies : Run(p) \/ Stop(p) \/ Kill(p) \/ Break(p) \/ Notice(p)
    \/ Serve \/ Exec \/ \E t \in Ports : OtherListens(t)

Spec == Init /\ [][Next]_vars

\* Processes are scheduled, a lost connection is noticed at both ends.  Nobody
\* has to signal or to kill anything, nor to run a command or another program.
Fairness ==
    /\ \A p \in Proxies : WF_vars(Run(p)) /\ WF_vars(Notice(p))
    /\ WF_vars(Serve)

FairSpec == Spec /\ Fairness

----------------------------------------------------------------------------
(* Properties.                                                             *)

\* "The file is removed when this command exits cleanly": it names a proxy that
\* serves on that connection, unless its connection broke, it was killed, or it
\* failed to remove the file; however runs overlap, reconnect and stop.
EnvHonest ==
    env # None =>
        LET p == env.by[1] IN
        \/ env.by \in lost \cup kept \/ pc[p] = "killed"
        \/ env.by = Mine(p) /\ env.port = port[p] /\ pc[p] \in {"serve", "cleanup"}

\* A listener never outlives the connection that asked for it, the one opened
\* while that connection ends included: its port becomes free.
ForwardsEnd == \A t \in Ports : fwd[t] # None => fwd[t] \in srv \cup pending

\* "First verify the listener is alive": a command that has read the file of a
\* proxy that still serves on that connection is not refused, and what it tries is
\* the listener of that proxy; whatever became of earlier connections, other runs
\* and other programs since the file was written.
ServingIsFound ==
    [][\A p \in Proxies :
          /\ rd = "probe" /\ rd' # "probe"
          /\ rfile.by = Mine(p) /\ pc[p] = "serve" /\ link[p] = "up"
          => rd' = "source" /\ fwd[rfile.port] = Mine(p)]_vars

\* Ctrl-C ends a proxy wherever it is: dialing, serving over a connection that
\* is broken, backing off.
StopEnds == \A p \in Proxies : (p \in stop) ~> Ended(p)

\* "Auto-reopens the SSH connection on transient failures": a proxy that picks a
\* free port is back after every loss.
Recovers ==
    \A p \in Proxies : Want[p] = AnyPort =>
        (pc[p] = "backoff") ~> (pc[p] \in {"serve", "killed"} \/ p \in stop)

=============================================================================
