----------------------------- MODULE HoldDaemon -----------------------------
(***************************************************************************)
(* One hold daemon from the inside: holdDaemon in internal/cli/hold.go.    *)
(*                                                                         *)
(* Goroutines interleave at their reads and writes of shared state: one    *)
(* serveConn per connection, the accept loop of run, idleWatch, and the    *)
(* watchers for signals and for the SSH connection.  They share the slots  *)
(* (sem), the atomics active and last, the SSH client and the once-only    *)
(* shutdown.                                                               *)
(***************************************************************************)
EXTENDS Integers, FiniteSets

CONSTANTS
    Conns,     \* connections clients make, one operation each
    Stops,     \* those that carry a stop request
    Slots,     \* capacity of sem (64)
    Idle,      \* --idle, in ticks of the clock
    MaxTime,   \* bound on the clock
    Faults,    \* what the environment may do, see AllFaults
    Nobody     \* no goroutine

\* drop    the SSH connection is lost, or a signal arrives
\* accept  Accept fails although the listener is open (no free descriptor)
\* garbage a client sends a request that is not JSON
AllFaults == {"drop", "accept", "garbage"}

\* What calls shutdown besides the stop requests.
Watchers == {"idle", "ssh"}

ASSUME DaemonAssumption ==
    /\ IsFiniteSet(Conns)
    /\ Stops \subseteq Conns
    /\ Slots \in Nat
    /\ Idle \in Nat
    /\ MaxTime \in Nat
    /\ Faults \subseteq AllFaults
    /\ Conns \cap Watchers = {}
    /\ Nobody \notin Conns \cup Watchers

VARIABLES
    pc,       \* where the serveConn of each connection is
    told,     \* what each client was sent: an exit frame, or a closed socket
    sem,      \* slots taken
    active,   \* operations counted as in flight
    last,     \* time of the last operation's start or finish
    now,      \* the clock
    watch,    \* where idleWatch is
    main,     \* where the accept loop is
    stopper,  \* who runs the body of stopOnce
    down,     \* how far that body is
    noticed   \* history: operations in flight when idleWatch last ticked

serving == <<pc, told>>
counts == <<sem, active, last>>
stopping == <<stopper, down>>
vars == <<serving, counts, now, watch, main, stopping, noticed>>

ConnPc == {"none",      \* not connected
           "backlog",   \* connected, not accepted
           "hello",     \* accepted: the hello, then the request
           "slot",      \* request read: try to take a slot
           "count",     \* slot taken: active.Add(1)
           "touch",     \* touch
           "run",       \* dispatch, the operation proper
           "stop",      \* exit frame of a stop request written: shutdown
           "uncount",   \* deferred: active.Add(-1)
           "retouch",   \* deferred: touch
           "release",   \* deferred: give the slot back
           "closed"}

InFlight == {"touch", "run", "stop", "uncount"}
Holding == {"count", "retouch", "release"} \cup InFlight

TypeOK ==
    /\ pc \in [Conns -> ConnPc]
    /\ told \in [Conns -> {"nothing", "done", "failed", "busy", "bad", "lost"}]
    /\ sem \in 0..Slots
    /\ active \in Int
    /\ last \in 0..MaxTime
    /\ now \in 0..MaxTime
    /\ watch \in {"tick", "last", "shut", "ended"}
    /\ main \in {"accept", "wait", "ended"}
    /\ stopper \in Conns \cup Watchers \cup {Nobody}
    /\ down \in {"up", "listener", "client", "done"}
    /\ noticed \subseteq Conns

\* newHoldDaemon touches last; run starts the goroutines.
Init ==
    /\ pc = [c \in Conns |-> "none"]
    /\ told = [c \in Conns |-> "nothing"]
    /\ sem = 0 /\ active = 0 /\ last = 0 /\ now = 0
    /\ watch = "tick" /\ main = "accept"
    /\ stopper = Nobody /\ down = "up"
    /\ noticed = {}

----------------------------------------------------------------------------
(* shutdown: the first caller closes the listener, the SSH client and done; *)
(* any other caller waits for that.                                        *)

Shut(g) == stopper = Nobody /\ stopper' = g

CloseListener ==
    /\ stopper # Nobody /\ down = "up"
    /\ down' = "listener"
    /\ UNCHANGED <<serving, counts, now, watch, main, stopper, noticed>>

CloseClient ==
    /\ down = "listener"
    /\ down' = "client"
    /\ UNCHANGED <<serving, counts, now, watch, main, stopper, noticed>>

\* Mutant of CloseDone: the body waits for the operations in flight, so for the
\* stop request that runs it.
CloseDoneDrained ==
    /\ down = "client"
    /\ active = 0
    /\ down' = "done"
    /\ UNCHANGED <<serving, counts, now, watch, main, stopper, noticed>>

CloseDone ==
    /\ down = "client"
    /\ down' = "done"
    /\ UNCHANGED <<serving, counts, now, watch, main, stopper, noticed>>

----------------------------------------------------------------------------
(* The accept loop.                                                        *)

Step(c, from, to) == pc[c] = from /\ pc' = [pc EXCEPT ![c] = to]

Tell(c, what) == told' = [told EXCEPT ![c] = what]

\* A client connects while the kernel listens, whoever will accept it.
Arrive(c) ==
    /\ down = "up" /\ main # "ended"
    /\ Step(c, "none", "backlog")
    /\ UNCHANGED <<told, counts, now, watch, main, stopping, noticed>>

Accept(c) ==
    /\ main = "accept" /\ down = "up"
    /\ Step(c, "backlog", "hello")
    /\ UNCHANGED <<told, counts, now, watch, main, stopping, noticed>>

\* Accept returns an error: the listener is closed, or it is the environment.
AcceptError ==
    /\ main = "accept"
    /\ down # "up" \/ "accept" \in Faults
    /\ main' = "wait"
    /\ UNCHANGED <<serving, counts, now, watch, stopping, noticed>>

\* run returns once done is closed; the process exits with every goroutine.
ProcessExit ==
    /\ main = "wait" /\ down = "done"
    /\ main' = "ended" /\ watch' = "ended"
    /\ pc' = [c \in Conns |-> IF pc[c] = "none" THEN "none" ELSE "closed"]
    /\ told' = [c \in Conns |-> IF pc[c] # "none" /\ told[c] = "nothing"
                                THEN "lost" ELSE told[c]]
    /\ UNCHANGED <<counts, now, stopping, noticed>>

----------------------------------------------------------------------------
(* serveConn.                                                              *)

\* The client hangs up after the hello, or sends nothing for 10s; its request
\* is not JSON and is answered so; or it is read.
ReadRequest(c) ==
    /\ \/ Step(c, "hello", "slot") /\ UNCHANGED told
       \/ Step(c, "hello", "closed") /\ Tell(c, "lost")
       \/ "garbage" \in Faults /\ Step(c, "hello", "closed") /\ Tell(c, "bad")
    /\ UNCHANGED <<counts, now, watch, main, stopping, noticed>>

TakeSlot(c) ==
    /\ IF sem < Slots
       THEN Step(c, "slot", "count") /\ sem' = sem + 1 /\ UNCHANGED told
       ELSE Step(c, "slot", "closed") /\ Tell(c, "busy") /\ UNCHANGED sem
    /\ UNCHANGED <<active, last, now, watch, main, stopping, noticed>>

Count(c) ==
    /\ Step(c, "count", "touch")
    /\ active' = active + 1
    /\ UNCHANGED <<told, sem, last, now, watch, main, stopping, noticed>>

Touch(c) ==
    /\ Step(c, "touch", "run")
    /\ last' = now
    /\ UNCHANGED <<told, sem, active, now, watch, main, stopping, noticed>>

\* dispatch, then the exit frame.  Without the SSH client an operation fails; a
\* stop request needs none, and goes on to shutdown.
Run(c) ==
    /\ IF c \in Stops THEN Step(c, "run", "stop") /\ Tell(c, "done")
       ELSE /\ Step(c, "run", "uncount")
            /\ \/ down \in {"up", "listener"} /\ Tell(c, "done")
               \/ Tell(c, "failed")
    /\ UNCHANGED <<counts, now, watch, main, stopping, noticed>>

\* A stop request runs the body of stopOnce, or waits for whoever does.
Stop(c) ==
    /\ \/ pc[c] = "stop" /\ Shut(c) /\ UNCHANGED pc
       \/ down = "done" /\ Step(c, "stop", "uncount") /\ UNCHANGED stopper
    /\ UNCHANGED <<told, counts, now, watch, main, down, noticed>>

\* Mutant of Uncount: the count is not deferred, a failed operation keeps it.
UncountDone(c) ==
    /\ Step(c, "uncount", "retouch")
    /\ active' = IF told[c] = "done" THEN active - 1 ELSE active
    /\ UNCHANGED <<told, sem, last, now, watch, main, stopping, noticed>>

\* The deferred calls, last first: active.Add(-1) and touch, the slot, Close.
Uncount(c) ==
    /\ Step(c, "uncount", "retouch")
    /\ active' = active - 1
    /\ UNCHANGED <<told, sem, last, now, watch, main, stopping, noticed>>

Retouch(c) ==
    /\ Step(c, "retouch", "release")
    /\ last' = now
    /\ UNCHANGED <<told, sem, active, now, watch, main, stopping, noticed>>

Release(c) ==
    /\ Step(c, "release", "closed")
    /\ sem' = sem - 1
    /\ UNCHANGED <<told, active, last, now, watch, main, stopping, noticed>>

ServeConn(c) ==
    \/ ReadRequest(c) \/ TakeSlot(c) \/ Count(c) \/ Touch(c) \/ Run(c)
    \/ Stop(c) \/ Uncount(c) \/ Retouch(c) \/ Release(c)

----------------------------------------------------------------------------
(* idleWatch and the other watchers.                                       *)

\* Mutant of WatchActive: a single operation does not count.
WatchActiveMany ==
    /\ watch = "tick" /\ down # "done"
    /\ active <= 1
    /\ watch' = "last"
    /\ noticed' = {c \in Conns : pc[c] \in {"run", "stop"}}
    /\ UNCHANGED <<serving, counts, now, main, stopping>>

\* A tick: active.Load() == 0 ...
WatchActive ==
    /\ watch = "tick" /\ down # "done"
    /\ active = 0
    /\ watch' = "last"
    /\ noticed' = {c \in Conns : pc[c] \in {"run", "stop"}}
    /\ UNCHANGED <<serving, counts, now, main, stopping>>

\* Mutant of WatchLast: it looks once.
WatchLastOnce ==
    /\ watch = "last"
    /\ watch' = IF now - last >= Idle THEN "shut" ELSE "ended"
    /\ UNCHANGED <<serving, counts, now, main, stopping, noticed>>

\* ... && time.Since(last.Load()) >= d.idle ...
WatchLast ==
    /\ watch = "last"
    /\ watch' = IF now - last >= Idle THEN "shut" ELSE "tick"
    /\ UNCHANGED <<serving, counts, now, main, stopping, noticed>>

\* ... and shutdown, then the goroutine ends.
WatchShut ==
    /\ watch = "shut"
    /\ \/ Shut("idle") /\ UNCHANGED watch
       \/ down = "done" /\ watch' = "ended" /\ UNCHANGED stopper
    /\ UNCHANGED <<serving, counts, now, main, down, noticed>>

WatchDone ==
    /\ watch = "tick" /\ down = "done"
    /\ watch' = "ended"
    /\ UNCHANGED <<serving, counts, now, main, stopping, noticed>>

\* The SSH connection is lost, or SIGINT or SIGTERM arrives.
Drop ==
    /\ "drop" \in Faults
    /\ Shut("ssh")
    /\ UNCHANGED <<serving, counts, now, watch, main, down, noticed>>

\* Time passes.
Tick ==
    /\ now < MaxTime
    /\ now' = now + 1
    /\ UNCHANGED <<serving, counts, watch, main, stopping, noticed>>

\* The process has exited.
Ended == main = "ended" /\ UNCHANGED vars

Daemon ==
    \/ CloseListener \/ CloseClient \/ CloseDone \/ AcceptError \/ ProcessExit
    \/ WatchActive \/ WatchLast \/ WatchShut \/ WatchDone

Next ==
    \/ Daemon \/ Drop \/ Tick \/ Ended
    \/ \E c \in Conns : Arrive(c) \/ Accept(c) \/ ServeConn(c)

Spec == Init /\ [][Next]_vars

\* Goroutines are scheduled, time passes, and an operation ends some time.
Fairness ==
    /\ WF_vars(CloseListener) /\ WF_vars(CloseClient) /\ WF_vars(CloseDone)
    /\ WF_vars(down # "up" /\ AcceptError) /\ WF_vars(ProcessExit)
    /\ WF_vars(WatchActive) /\ WF_vars(WatchLast) /\ WF_vars(WatchShut)
    /\ WF_vars(Tick)
    /\ \A c \in Conns : WF_vars(Accept(c)) /\ WF_vars(ServeConn(c))

FairSpec == Spec /\ Fairness

----------------------------------------------------------------------------
(* Properties.                                                             *)

\* Slots and the in-flight count are exact on every path through serveConn,
\* refusals, hang-ups and concurrent stops included: none is ever lost, and at
\* most Slots operations run.
Counted ==
    main # "ended" =>
        /\ sem = Cardinality({c \in Conns : pc[c] \in Holding})
        /\ active = Cardinality({c \in Conns : pc[c] \in InFlight})

\* An operation that was running when idleWatch ticked defers the timeout.
IdleSparesRunning == watch \in {"last", "shut"} => noticed = {}

\* A client is told one outcome, and that one is final.
AnsweredOnce ==
    [][\A c \in Conns : told[c] # "nothing" => told'[c] = told[c]]_vars

\* Whoever calls shutdown first, and whatever operations are in flight, the
\* process exits.
ShutdownEnds == (stopper # Nobody) ~> (main = "ended")

\* "The daemon exits on its own after --idle with no operations."
IdleEnds ==
    <>[](last + Idle <= MaxTime /\ \A c \in Conns : pc[c] \in {"none", "closed"})
        => <>(main = "ended")

============================================================================
