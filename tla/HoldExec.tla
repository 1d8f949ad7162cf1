------------------------------ MODULE HoldExec ------------------------------
(***************************************************************************)
(* tn exec through a hold: holdRoundTrip in internal/cli/holdclient.go,    *)
(* opExec in hold.go and the frames between them, holdproto.go.            *)
(*                                                                         *)
(* The client pumps its stdin and its signals up and takes frames down; the *)
(* daemon bridges them to an SSH session.  Every goroutine is an actor, and *)
(* so is the remote command.  The session's inside (its two copies of the  *)
(* output, its stdin copy, Wait) is golang.org/x/crypto/ssh.               *)
(***************************************************************************)
EXTENDS Naturals, Sequences

CONSTANTS
    Commands,  \* what the remote command may be, see CommandKinds
    Input,     \* chunks of stdin the client may read
    Output,    \* chunks the command writes to each of stdout and stderr
    Sock,      \* parts of frames each direction of the socket holds
    Window,    \* chunks each direction of the SSH channel holds
    Signals,   \* signals the user may send
    Faults,    \* what the environment may do, see AllFaults
    None       \* no goroutine, no frame

\* done    ends after its output, whatever its stdin does
\* eof     ends once it has read its stdin to the end
\* signal  ends when it is signalled
\* Only an eof command has to read its stdin, the others may leave it unread.
CommandKinds == {"done", "eof", "signal"}

\* kill        the client dies
\* silent      --idle passes without a frame
\* loss        the SSH connection is lost before the exec request is sent, or
\*             after its answer
\* early_loss  it is lost in between
AllFaults == {"kill", "silent", "loss", "early_loss"}

Pumps == {"pump", "sig"}
Copies == {"out", "err"}
Goroutines == Pumps \cup Copies \cup {"bridge", "serve"}
Frames == {"stdin", "eof", "signal", "out", "err", "exit"}
Empty == {"eof"}
Codes == {"zero", "nonzero"}
Streams == {"out", "err"}

ASSUME ExecAssumption ==
    /\ Commands \subseteq CommandKinds
    /\ Input \in Nat /\ Output \in Nat /\ Signals \in Nat
    /\ Sock \in Nat \ {0, 1}
    /\ Window \in Nat \ {0}
    /\ Faults \subseteq AllFaults
    /\ None \notin Goroutines \cup Frames

VARIABLES
    client,   \* the client's main loop: "loop", or how it ended
    input,    \* chunks of stdin not read yet
    inbox,    \* frames read from the socket, for the main loop
    got,      \* chunks written to the client's stdout and stderr
    sigs,     \* signals still to come, and whether one is in sigCh
    live,     \* goroutines that have not ended
    hand,     \* the frame each goroutine writes, or the chunk it passes on
    wire,     \* the socket, up and down: parts of frames
    mu,       \* per end, the goroutine that holds frameConn.mu
    sess,     \* the daemon's session
    code,     \* the outcome it sends
    pipe,     \* the stdin pipe of opExec
    sin,      \* chunks of stdin on their way to the command
    sout,     \* chunks of output on their way from it
    link,     \* the SSH connection
    remote,   \* the remote command
    wrote,    \* chunks it has written
    signalled \* it got a signal

up == <<input, sigs>>
down == <<inbox, got>>
session == <<sess, code>>
command == <<sin, sout, link, remote, wrote, signalled>>
vars == <<client, up, down, live, hand, wire, mu, session, pipe, command>>

TypeOK ==
    /\ client \in {"loop", "error"} \cup Codes
    /\ input \in 0..Input
    /\ inbox \in Seq(Frames) /\ Len(inbox) <= 2
    /\ got \in [Streams -> 0..Output]
    /\ sigs \in [left : 0..Signals, ch : BOOLEAN]
    /\ live \subseteq Goroutines
    /\ hand \in [Goroutines -> Frames \cup {None}]
    /\ \A d \in {"up", "down"} : Len(wire[d]) <= Sock
    /\ mu \in [{"up", "down"} -> Goroutines \cup {None}]
    /\ sess \in {"open", "start", "run", "answer", "over"}
    /\ code \in Codes \cup {"error"}
    /\ pipe \in {"open", "ended", "closed"}
    /\ sin \in 0..Window
    /\ sout \in [Streams -> 0..Window]
    /\ link \in {"up", "lost"}
    /\ remote \in {"none"} \cup CommandKinds \cup Codes
    /\ wrote \in [Streams -> 0..Output]
    /\ signalled \in BOOLEAN

\* The request is written and the daemon has read it.
Init ==
    /\ client = "loop"
    /\ input \in 0..Input
    /\ inbox = <<>> /\ got = [s \in Streams |-> 0]
    /\ sigs = [left |-> Signals, ch |-> FALSE]
    /\ live = {"pump", "sig", "serve"}
    /\ hand = [g \in Goroutines |-> None]
    /\ wire = [d \in {"up", "down"} |-> <<>>]
    /\ mu = [d \in {"up", "down"} |-> None]
    /\ sess = "open" /\ code = "zero"
    /\ pipe = "open"
    /\ sin = 0 /\ sout = [s \in Streams |-> 0]
    /\ link = "up" /\ remote = "none"
    /\ wrote = [s \in Streams |-> 0]
    /\ signalled = FALSE

----------------------------------------------------------------------------
(* Frames.  A frame is a header and a payload, two writes under the mutex.  *)

Dir(g) == IF g \in Pumps THEN "up" ELSE "down"
Writers == Goroutines \ {"bridge"}

Header(f) == [frame |-> f, part |-> "head"]
Payload(f) == [frame |-> f, part |-> "body"]

Connected == client = "loop" /\ sess # "over"

Put(d, p) == Len(wire[d]) < Sock /\ wire' = [wire EXCEPT ![d] = Append(@, p)]

WriteHead(g) ==
    /\ g \in Writers /\ hand[g] # None /\ Connected
    /\ mu[Dir(g)] = None
    /\ Put(Dir(g), Header(hand[g]))
    /\ mu' = [mu EXCEPT ![Dir(g)] = IF hand[g] \in Empty THEN None ELSE g]
    /\ hand' = [hand EXCEPT ![g] = IF @ \in Empty THEN None ELSE @]
    /\ UNCHANGED <<client, up, down, live, session, pipe, command>>

WriteBody(g) ==
    /\ g \in Writers /\ Connected
    /\ mu[Dir(g)] = g
    /\ Put(Dir(g), Payload(hand[g]))
    /\ mu' = [mu EXCEPT ![Dir(g)] = None]
    /\ hand' = [hand EXCEPT ![g] = None]
    /\ UNCHANGED <<client, up, down, live, session, pipe, command>>

\* The other end is gone: the writer's loop ends.
WriteFails(g) ==
    /\ g \in Copies /\ hand[g] # None /\ client # "loop"
    /\ mu[Dir(g)] \in {None, g}
    /\ mu' = [mu EXCEPT ![Dir(g)] = None]
    /\ hand' = [hand EXCEPT ![g] = None]
    /\ live' = live \ {g}
    /\ UNCHANGED <<client, up, down, wire, session, pipe, command>>

\* readFrame: a header and its payload, or only a header.
Readable(d) ==
    /\ wire[d] # <<>>
    /\ wire[d][1].frame \in Empty \/ Len(wire[d]) >= 2

Read(d) ==
    wire' = [wire EXCEPT ![d] = IF @[1].frame \in Empty THEN Tail(@)
                                                        ELSE Tail(Tail(@))]

----------------------------------------------------------------------------
(* The client.                                                             *)

\* stdin.Read: a chunk, or the end; nobody makes the user type.
ReadStdin ==
    /\ client = "loop" /\ "pump" \in live /\ hand["pump"] = None
    /\ IF input > 0
       THEN input' = input - 1 /\ hand' = [hand EXCEPT !["pump"] = "stdin"]
                               /\ UNCHANGED live
       ELSE hand' = [hand EXCEPT !["pump"] = "eof"] /\ live' = live \ {"pump"}
                               /\ UNCHANGED input
    /\ UNCHANGED <<client, sigs, down, wire, mu, session, pipe, command>>

\* signal.Notify drops a signal when sigCh is full.
UserSignals ==
    /\ client = "loop" /\ sigs.left > 0
    /\ sigs' = [left |-> sigs.left - 1, ch |-> TRUE]
    /\ UNCHANGED <<client, input, down, live, hand, wire, mu, session, pipe,
                   command>>

ForwardSignal ==
    /\ client = "loop" /\ sigs.ch /\ hand["sig"] = None
    /\ sigs' = [sigs EXCEPT !.ch = FALSE]
    /\ hand' = [hand EXCEPT !["sig"] = "signal"]
    /\ UNCHANGED <<client, input, down, live, wire, mu, session, pipe, command>>

\* The reader goroutine: one frame in frameCh, one in its hands.
Receive ==
    /\ client = "loop" /\ Len(inbox) < 2
    /\ Readable("down")
    /\ inbox' = Append(inbox, wire["down"][1].frame)
    /\ Read("down")
    /\ UNCHANGED <<client, up, got, live, hand, mu, session, pipe, command>>

\* The client ends with a code or without, its goroutines and its end of the
\* socket with it.
Return(r) ==
    /\ client' = r
    /\ inbox' = <<>> /\ sigs' = [left |-> 0, ch |-> FALSE]
    /\ wire' = [wire EXCEPT !["down"] = <<>>]
    /\ live' = live \ Pumps
    /\ hand' = [g \in Goroutines |-> IF g \in Pumps THEN None ELSE hand[g]]
    /\ mu' = [mu EXCEPT !["up"] = None]

\* Mutant of Show: a frame stays in the channel.
ShowTwice(s) ==
    /\ client = "loop" /\ inbox # <<>> /\ inbox[1] = s
    /\ got' = [got EXCEPT ![s] = @ + 1]
    /\ UNCHANGED <<client, up, inbox, live, hand, wire, mu, session, pipe, command>>

Show(s) ==
    /\ client = "loop" /\ inbox # <<>> /\ inbox[1] = s
    /\ got' = [got EXCEPT ![s] = @ + 1]
    /\ inbox' = Tail(inbox)
    /\ UNCHANGED <<client, up, live, hand, wire, mu, session, pipe, command>>

Exited ==
    /\ client = "loop" /\ inbox # <<>> /\ inbox[1] = "exit"
    /\ Return(code)
    /\ UNCHANGED <<input, got, session, pipe, command>>

\* The idle timer fires, whatever arrives at the same moment.
IdleExpires ==
    /\ "silent" \in Faults /\ client = "loop"
    /\ Return("error")
    /\ UNCHANGED <<input, got, session, pipe, command>>

KillClient ==
    /\ "kill" \in Faults /\ client = "loop"
    /\ Return("error")
    /\ UNCHANGED <<input, got, session, pipe, command>>

----------------------------------------------------------------------------
(* The daemon.                                                             *)

\* opExec returns c, stdinR closed; serveConn writes the exit frame.
Answer(c) ==
    /\ sess' = "answer" /\ code' = c /\ pipe' = "closed"
    /\ hand' = [hand EXCEPT !["serve"] = "exit"]
    /\ UNCHANGED <<client, up, down, live, wire, mu, command>>

\* NewSession; then the bridge starts.
OpenSession ==
    /\ sess = "open" /\ link = "up"
    /\ sess' = "start" /\ live' = live \cup {"bridge"}
    /\ UNCHANGED <<client, up, down, hand, wire, mu, code, pipe, command>>

\* The answer to the exec request.
StartCommand ==
    /\ sess = "start" /\ link = "up"
    /\ remote' \in Commands
    /\ sess' = "run" /\ live' = live \cup Copies
    /\ UNCHANGED <<client, up, down, hand, wire, mu, code, pipe, sin, sout, link,
                   wrote, signalled>>

\* NewSession fails, or the server refuses the command.  When the connection is
\* lost while sess.Start waits, the error is io.EOF, which exitCodeOf takes for
\* success.
StartError ==
    \/ sess = "open" /\ link = "lost" /\ Answer("error")
    \/ sess = "start" /\ Answer(IF link = "lost" THEN "zero" ELSE "error")

\* Mutant of BridgeReads: only stdin frames are looked at.
BridgeReadsStdin ==
    /\ "bridge" \in live /\ hand["bridge"] = None /\ sess # "over"
    /\ Readable("up")
    /\ Read("up")
    /\ LET f == wire["up"][1].frame IN
           /\ hand' = [hand EXCEPT !["bridge"] = IF f = "stdin" THEN f ELSE None]
           /\ live' = IF f = "eof" THEN live \ {"bridge"} ELSE live
           /\ pipe' = IF f = "eof" /\ pipe = "open" THEN "ended" ELSE pipe
    /\ UNCHANGED <<client, up, down, mu, session, command>>

\* The bridge reads a frame: a chunk to pass on, the end, or a signal.
BridgeReads ==
    /\ "bridge" \in live /\ hand["bridge"] = None /\ sess # "over"
    /\ Readable("up")
    /\ Read("up")
    /\ LET f == wire["up"][1].frame IN
           /\ hand' = [hand EXCEPT !["bridge"] = IF f = "stdin" THEN f ELSE None]
           /\ live' = IF f = "eof" THEN live \ {"bridge"} ELSE live
           /\ pipe' = IF f = "eof" /\ pipe = "open" THEN "ended" ELSE pipe
           /\ signalled' = (signalled \/ (f = "signal" /\ remote \in CommandKinds))
    /\ UNCHANGED <<client, up, down, mu, session, sin, sout, link, remote, wrote>>

\* stdinW.Write: the session's copy takes the chunk.
BridgePasses ==
    /\ hand["bridge"] # None /\ pipe = "open" /\ sess = "run"
    /\ sin < Window
    /\ sin' = sin + 1
    /\ hand' = [hand EXCEPT !["bridge"] = None]
    /\ UNCHANGED <<client, up, down, live, wire, mu, session, pipe, sout, link,
                   remote, wrote, signalled>>

\* The client is gone, or stdinR is closed while a chunk waits in the pipe.
BridgeEnds ==
    /\ "bridge" \in live
    /\ \/ hand["bridge"] # None /\ pipe = "closed"
       \/ /\ hand["bridge"] = None
          /\ sess = "over" \/ (client # "loop" /\ ~Readable("up"))
    /\ live' = live \ {"bridge"}
    /\ hand' = [hand EXCEPT !["bridge"] = None]
    /\ pipe' = IF pipe = "open" THEN "ended" ELSE pipe
    /\ UNCHANGED <<client, up, down, wire, mu, session, command>>

\* The channel is closed: by the command's end, or with the connection.
Gone == remote \in Codes \/ link = "lost"

\* The session's copies of stdout and stderr.
CopyReads(s) ==
    /\ s \in live /\ hand[s] = None /\ sout[s] > 0
    /\ sout' = [sout EXCEPT ![s] = @ - 1]
    /\ hand' = [hand EXCEPT ![s] = s]
    /\ UNCHANGED <<client, up, down, live, wire, mu, session, pipe, sin, link,
                   remote, wrote, signalled>>

CopyEnds(s) ==
    /\ s \in live /\ hand[s] = None /\ sout[s] = 0 /\ Gone
    /\ live' = live \ {s}
    /\ UNCHANGED <<client, up, down, hand, wire, mu, session, pipe, command>>

\* Mutant of ExitCodeOf: any end of the channel counts as success.
ExitCodeOfAny == IF remote \in Codes THEN remote ELSE "zero"

\* exitCodeOf: the exit status came, or the channel closed without one.
ExitCodeOf == IF remote \in Codes THEN remote ELSE "error"

\* Mutants of FinishSession: the exit frame does not wait for the output; the
\* session waits for the end of its stdin; stdinR stays open.
FinishEarly == sess = "run" /\ Gone /\ Answer(ExitCodeOf)

FinishAfterStdin ==
    /\ sess = "run" /\ Gone /\ live \cap Copies = {}
    /\ pipe = "ended"
    /\ Answer(ExitCodeOf)

FinishOpen ==
    /\ sess = "run" /\ Gone /\ live \cap Copies = {}
    /\ sess' = "answer" /\ code' = ExitCodeOf
    /\ hand' = [hand EXCEPT !["serve"] = "exit"]
    /\ UNCHANGED <<client, up, down, live, wire, mu, pipe, command>>

\* sess.Wait: the channel is closed and the output copied.
FinishSession ==
    /\ sess = "run" /\ Gone /\ live \cap Copies = {}
    /\ Answer(ExitCodeOf)

\* serveConn returns once the exit frame is written, or could not be.
CloseConn ==
    /\ sess = "answer"
    /\ \/ hand["serve"] = None /\ UNCHANGED <<hand, mu>>
       \/ /\ client # "loop" /\ mu["down"] \in {None, "serve"}
          /\ hand' = [hand EXCEPT !["serve"] = None]
          /\ mu' = [mu EXCEPT !["down"] = None]
    /\ sess' = "over"
    /\ live' = live \ {"serve"}
    /\ wire' = [wire EXCEPT !["up"] = <<>>]
    /\ UNCHANGED <<client, up, down, code, pipe, command>>

Lose ==
    /\ link = "up" /\ sess # "over"
    /\ IF sess = "start" THEN "early_loss" \in Faults ELSE "loss" \in Faults
    /\ link' = "lost"
    /\ UNCHANGED <<client, up, down, live, hand, wire, mu, session, pipe, sin,
                   sout, remote, wrote, signalled>>

----------------------------------------------------------------------------
(* The remote command.                                                     *)

Running == remote \in CommandKinds /\ link = "up"

CommandWrites(s) ==
    /\ Running /\ wrote[s] < Output
    /\ sout["out"] + sout["err"] < Window
    /\ wrote' = [wrote EXCEPT ![s] = @ + 1]
    /\ sout' = [sout EXCEPT ![s] = @ + 1]
    /\ UNCHANGED <<client, up, down, live, hand, wire, mu, session, pipe, sin,
                   link, remote, signalled>>

CommandReads ==
    /\ Running /\ sin > 0
    /\ sin' = sin - 1
    /\ UNCHANGED <<client, up, down, live, hand, wire, mu, session, pipe, sout,
                   link, remote, wrote, signalled>>

CommandEnds ==
    /\ Running
    /\ \/ \A s \in Streams : wrote[s] = Output
       \/ remote = "signal"
    /\ remote = "eof" => sin = 0 /\ pipe # "open"
    /\ remote = "signal" => signalled
    /\ remote' \in Codes
    /\ UNCHANGED <<client, up, down, live, hand, wire, mu, session, pipe, sin,
                   sout, link, wrote, signalled>>

----------------------------------------------------------------------------

Client == ForwardSignal \/ Receive \/ Exited \/ \E s \in Streams : Show(s)
Write(g) == WriteHead(g) \/ WriteBody(g) \/ WriteFails(g)
Bridge == BridgeReads \/ BridgePasses \/ BridgeEnds
Copy(s) == CopyReads(s) \/ CopyEnds(s)
Serve == OpenSession \/ StartCommand \/ StartError \/ FinishSession \/ CloseConn
Command ==
    \/ CommandEnds
    \/ remote = "eof" /\ CommandReads
    \/ \E s \in Streams : CommandWrites(s)

Scheduled ==
    \/ Client \/ Bridge \/ Serve \/ Command
    \/ \E g \in Writers : Write(g)
    \/ \E s \in Streams : Copy(s)

Next ==
    \/ Scheduled \/ CommandReads
    \/ ReadStdin \/ UserSignals \/ IdleExpires \/ KillClient \/ Lose

Spec == Init /\ [][Next]_vars

\* Goroutines are scheduled and the command makes progress; nobody has to type,
\* to signal or to break anything, and only an eof command has to read.  Every
\* action consumes something bounded, so that fairness of all together is
\* fairness of each.
Fairness == WF_vars(Scheduled)

FairSpec == Spec /\ Fairness

----------------------------------------------------------------------------
(* Properties.                                                             *)

\* "Stdout and stderr verbatim": when the exit code is reported, everything the
\* command wrote has been printed.
OutputComplete == client \in Codes => got = wrote

\* "Real exit codes": a code that is reported is the one the command ended with.
CodeHonest == client \in Codes => remote = client

\* A command that ends by itself ends its tn exec, though nobody ends the
\* client's stdin, the command never reads it, or the connection is lost.
ExecEnds == (remote = "done") ~> (client # "loop")

\* When the command is over or the connection lost, nothing of it is left in the
\* daemon: its session, its copies and its bridge end, the slot is given back.
DaemonReleased ==
    (sess = "run" /\ Gone) ~> (sess = "over" /\ live \subseteq Pumps)

\* The bridge holds a chunk of stdin that the channel has no room for.
Stuck == hand["bridge"] # None /\ sin = Window

\* "Forward Ctrl-C as remote SIGINT": a signal the client forwards reaches the
\* command, unless one of them ends first; or the client's stdin does, at whose
\* end the bridge stops reading; or the bridge stays behind a chunk of stdin
\* that the command never reads.
SignalArrives ==
    [](hand["sig"] # None /\ remote \in CommandKinds
          => <>(\/ signalled \/ client # "loop" \/ Gone \/ "pump" \notin live
                \/ []Stuck))

=============================================================================
