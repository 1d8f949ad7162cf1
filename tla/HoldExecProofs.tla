--------------------------- MODULE HoldExecProofs ---------------------------
(* Proofs about HoldExec, for any amount of input and output, and any size of *)
(* the socket and of the SSH window.                                         *)
EXTENDS HoldExec, FiniteSetTheorems, SequenceTheorems, TLAPS

\* How often x is in the sequence q.
Places(q, x) == {i \in 1..Len(q) : q[i] = x}
Count(q, x) == Cardinality(Places(q, x))

LEMMA PlacesFinite ==
    ASSUME NEW A, NEW q \in Seq(A), NEW x
    PROVE  IsFiniteSet(Places(q, x)) /\ Count(q, x) \in Nat
<1>1. Len(q) \in Nat /\ Places(q, x) \subseteq 1..Len(q)
  BY DEF Places
<1>2. IsFiniteSet(1..Len(q))
  BY <1>1, FS_Interval
<1> QED
  BY <1>1, <1>2, FS_Subset, FS_CardinalityType DEF Count

\* What is not in a sequence counts for nothing.
LEMMA CountNone ==
    ASSUME NEW q, NEW x, \A i \in 1..Len(q) : q[i] # x
    PROVE  Count(q, x) = 0
<1>1. Places(q, x) = {}
  BY DEF Places
<1> QED
  BY <1>1, FS_EmptySet DEF Count

LEMMA CountAppend ==
    ASSUME NEW A, NEW q \in Seq(A), NEW e \in A, NEW x
    PROVE  Count(Append(q, e), x) = Count(q, x) + (IF e = x THEN 1 ELSE 0)
<1> DEFINE n == Len(q) + 1
           r == Append(q, e)
<1>1. /\ Len(q) \in Nat /\ Len(r) = n /\ r[n] = e
      /\ \A i \in 1..Len(q) : r[i] = q[i]
  OBVIOUS
<1>2. IsFiniteSet(Places(q, x)) /\ Count(q, x) \in Nat
  BY PlacesFinite
<1>3. CASE e = x
  <2>1. Places(r, x) = Places(q, x) \cup {n}
    BY <1>1, <1>3 DEF Places
  <2>2. n \notin Places(q, x)
    BY <1>1 DEF Places
  <2>3. Cardinality(Places(q, x) \cup {n}) = Cardinality(Places(q, x)) + 1
    BY <1>2, <2>2, FS_AddElement
  <2> QED
    BY <1>3, <2>1, <2>3 DEF Count
<1>4. CASE e # x
  <2>1. Places(r, x) = Places(q, x)
    BY <1>1, <1>4 DEF Places
  <2> QED
    BY <1>2, <1>4, <2>1 DEF Count
<1> QED
  BY <1>3, <1>4

LEMMA CountTail ==
    ASSUME NEW A, NEW q \in Seq(A), q # <<>>, NEW x
    PROVE  Count(q, x) = Count(Tail(q), x) + (IF q[1] = x THEN 1 ELSE 0)
<1> DEFINE t == Tail(q)
           S == Places(t, x)
           T == {i \in 2..Len(q) : q[i] = x}
           f == [i \in S |-> i + 1]
<1>1. /\ Len(q) \in Nat \ {0} /\ t \in Seq(A) /\ Len(t) = Len(q) - 1
      /\ \A i \in 1..Len(t) : t[i] = q[i + 1]
  OBVIOUS
<1>2. IsFiniteSet(S) /\ Count(t, x) \in Nat
  BY <1>1, PlacesFinite
<1>3. f \in Bijection(S, T)
  <2>1. \A i \in S : i \in 1..Len(t) /\ f[i] = i + 1
    BY DEF Places
  <2>2. f \in [S -> T]
    BY <1>1 DEF Places
  <2>3. IsInjective(f)
    BY <1>1, <2>1 DEF IsInjective
  <2>4. ASSUME NEW j \in T PROVE \E i \in S : f[i] = j
    <3>1. j - 1 \in S
      BY <1>1 DEF Places
    <3>2. f[j - 1] = j
      BY <1>1, <3>1, <2>1
    <3> QED
      BY <3>1, <3>2
  <2> QED
    BY <2>2, <2>3, <2>4 DEF Bijection, Injection, Surjection
<1>4. IsFiniteSet(T) /\ Cardinality(T) = Cardinality(S)
  BY <1>2, <1>3, FS_Bijection DEF ExistsBijection
<1>5. CASE q[1] = x
  <2>1. Places(q, x) = T \cup {1}
    BY <1>1, <1>5 DEF Places
  <2>2. 1 \notin T
    BY <1>1
  <2>3. Cardinality(T \cup {1}) = Cardinality(T) + 1
    BY <1>4, <2>2, FS_AddElement
  <2> QED
    BY <1>4, <1>5, <2>1, <2>3 DEF Count
<1>6. CASE q[1] # x
  <2>1. Places(q, x) = T
    BY <1>1, <1>6 DEF Places
  <2> QED
    BY <1>2, <1>4, <1>6, <2>1 DEF Count
<1> QED
  BY <1>5, <1>6

\* A header and its payload are taken from a sequence.
LEMMA TailTwice ==
    ASSUME NEW A, NEW q \in Seq(A), Len(q) >= 2
    PROVE  /\ q # <<>> /\ Tail(q) \in Seq(A) /\ Tail(q) # <<>>
           /\ Tail(Tail(q)) \in Seq(A) /\ Len(Tail(Tail(q))) = Len(q) - 2
           /\ Tail(Tail(q)) = <<>> <=> Len(q) = 2
           /\ Tail(q)[1] = q[2]
           /\ \A i \in 1..(Len(q) - 2) : Tail(Tail(q))[i] = q[i + 2]
<1>1. Len(q) \in Nat /\ q # <<>>
  OBVIOUS
<1>2. /\ Tail(q) \in Seq(A) /\ Len(Tail(q)) = Len(q) - 1
      /\ \A i \in 1..(Len(q) - 1) : Tail(q)[i] = q[i + 1]
  BY <1>1
<1>3. Tail(q) # <<>>
  <2>1. Len(Tail(q)) >= 1
    BY <1>1, <1>2
  <2>2. Len(Tail(q)) \in Nat /\ Len(Tail(q)) # 0
    BY <1>1, <1>2, <2>1
  <2>3. Tail(q) = <<>> => Len(Tail(q)) = 0
    BY <1>2, EmptySeq
  <2> QED
    BY <2>2, <2>3
<1>4. /\ Tail(Tail(q)) \in Seq(A) /\ Len(Tail(Tail(q))) = Len(Tail(q)) - 1
      /\ \A i \in 1..(Len(Tail(q)) - 1) : Tail(Tail(q))[i] = Tail(q)[i + 1]
  BY <1>2, <1>3
<1>5. \A i \in 1..(Len(q) - 2) : Tail(Tail(q))[i] = q[i + 2]
  BY <1>1, <1>2, <1>4
<1>6. Len(Tail(Tail(q))) = Len(q) - 2
  BY <1>1, <1>2, <1>4
<1>7. Tail(Tail(q)) = <<>> <=> Len(q) = 2
  <2>1. Tail(Tail(q)) = <<>> <=> Len(Tail(Tail(q))) = 0
    BY <1>4, EmptySeq
  <2> QED
    BY <1>1, <1>6, <2>1
<1>8. Tail(q)[1] = q[2]
  BY <1>1, <1>2
<1> QED
  BY <1>1, <1>2, <1>3, <1>4, <1>5, <1>6, <1>7, <1>8, Zenon

LEMMA CountRead ==
    ASSUME NEW A, NEW q \in Seq(A), Len(q) >= 2, NEW x, q[2] # x
    PROVE  Count(q, x) = Count(Tail(Tail(q)), x) + (IF q[1] = x THEN 1 ELSE 0)
<1>1. PICK t \in Seq(A) : t = Tail(q)
  BY TailTwice
<1>2. t # <<>> /\ t[1] = q[2] /\ q # <<>>
  BY <1>1, TailTwice
<1>3. Count(q, x) = Count(t, x) + (IF q[1] = x THEN 1 ELSE 0)
  BY <1>1, <1>2, CountTail
<1>4. Count(t, x) = Count(Tail(t), x)
  <2>1. PICK u \in Seq(A) : u = Tail(t)
    BY <1>1, TailTwice
  <2>2. Count(t, x) = Count(u, x) + (IF t[1] = x THEN 1 ELSE 0)
    BY <1>2, <2>1, CountTail
  <2>3. Count(u, x) \in Nat
    BY PlacesFinite
  <2> QED
    BY <1>2, <2>1, <2>2, <2>3
<1> QED
  BY <1>1, <1>3, <1>4

----------------------------------------------------------------------------
(* The inductive invariant.                                                 *)

Parts == [frame : Frames, part : {"head", "body"}]
Answered == {"answer", "over"}

\* TypeOK but for got, which Conserved bounds, and in parts.
ClientTypes ==
    /\ client \in {"loop", "error"} \cup Codes
    /\ input \in 0..Input
    /\ inbox \in Seq(Frames) /\ Len(inbox) <= 2
    /\ got \in [Streams -> Nat]
    /\ sigs \in [left : 0..Signals, ch : BOOLEAN]

ChannelTypes ==
    /\ live \subseteq Goroutines
    /\ hand \in [Goroutines -> Frames \cup {None}]
    /\ wire \in [{"up", "down"} -> Seq(Parts)]
    /\ \A d \in {"up", "down"} : Len(wire[d]) <= Sock
    /\ mu \in [{"up", "down"} -> Goroutines \cup {None}]

DaemonTypes ==
    /\ sess \in {"open", "start", "run"} \cup Answered
    /\ code \in Codes \cup {"error"}
    /\ pipe \in {"open", "ended", "closed"}

CommandTypes ==
    /\ sin \in 0..Window
    /\ sout \in [Streams -> 0..Window]
    /\ link \in {"up", "lost"}
    /\ remote \in {"none"} \cup CommandKinds \cup Codes
    /\ wrote \in [Streams -> 0..Output]
    /\ signalled \in BOOLEAN

Types == ClientTypes /\ ChannelTypes /\ DaemonTypes /\ CommandTypes

\* What each of the daemon's goroutines may write, and when.
Hands ==
    /\ \A s \in Streams : hand[s] \in {s, None}
    /\ \A s \in Streams : hand[s] # None => s \in live
    /\ hand["serve"] \in {"exit", None}
    /\ hand["serve"] # None => sess = "answer"

\* Between its two writes a writer has the mutex and the frame.
Locks ==
    /\ mu["up"] \in Pumps \cup {None}
    /\ mu["down"] \in Copies \cup {"serve", None}
    /\ client = "loop" => \A d \in {"up", "down"} :
                             mu[d] # None => hand[mu[d]] # None

\* The daemon's end of the socket: headers and payloads alternate, whoever
\* writes them, and the last header waits for its payload while mu is held.
Framed(q) ==
    /\ \A i \in 1..Len(q) : q[i].frame \notin Empty
    /\ q # <<>> => q[1].part = "head"
    /\ \A i \in 2..Len(q) : q[i].part # q[i - 1].part
    /\ mu["down"] # None <=> (q # <<>> /\ q[Len(q)].part = "head")

\* The command between the request and the answer.
Sessions ==
    /\ sess \in {"open", "start"} => remote = "none"
    /\ sess = "run" => remote # "none"
    /\ remote = "none" => /\ live \cap Copies = {}
                          /\ \A s \in Streams : wrote[s] = 0 /\ sout[s] = 0
    /\ sess \in Answered => live \cap Copies = {} /\ (Gone \/ remote = "none")
    /\ sess = "start" /\ link = "lost" => "early_loss" \in Faults
    /\ sess \in Answered /\ code \in Codes =>
          remote = code \/ (remote = "none" /\ "early_loss" \in Faults)

\* While the client is there a copy ends when there is nothing left to copy.
CopiesEnd ==
    client = "loop" => \A s \in Streams \ live :
        /\ sess \notin {"open", "start"} => sout[s] = 0
        /\ sess = "run" => Gone

\* Nothing follows the exit frame.
ExitLast ==
    client = "loop" =>
        /\ \A i \in 1..Len(inbox) : inbox[i] = "exit" =>
              /\ i = Len(inbox) /\ wire["down"] = <<>>
              /\ sess \in Answered /\ hand["serve"] = None
        /\ \A i \in 1..Len(wire["down"]) : wire["down"][i] = Header("exit") =>
              /\ i >= Len(wire["down"]) - 1
              /\ sess \in Answered /\ (hand["serve"] = None \/ mu["down"] = "serve")

\* A chunk in the hands of its copy, before any part of its frame is written.
Held(s) == IF hand[s] = s /\ mu["down"] # s THEN 1 ELSE 0

\* A chunk that the command wrote is in one place on its way to the client.
OnItsWay(s) ==
    Count(inbox, s) + Count(wire["down"], Header(s)) + Held(s) + sout[s]

Conserved ==
    client = "loop" => \A s \in Streams : wrote[s] = got[s] + OnItsWay(s)

\* What a client that reported a code has seen.
Reported ==
    /\ client \in Codes => sess \in Answered /\ code = client /\ got = wrote
    /\ \A s \in Streams : got[s] <= wrote[s]

ExecInv ==
    /\ Types /\ Hands /\ Locks /\ Sessions /\ CopiesEnd
    /\ client = "loop" => Framed(wire["down"])
    /\ ExitLast /\ Conserved /\ Reported

LEMMA InitExec == Init => ExecInv
<1> SUFFICES ASSUME Init PROVE ExecInv
  OBVIOUS
<1> USE ExecAssumption DEF Init, Streams, Goroutines, Pumps, Copies, Frames, Codes
<1>1. ClientTypes
  BY DEF ClientTypes
<1>2. ChannelTypes
  BY DEF ChannelTypes, Parts
<1>3. DaemonTypes /\ CommandTypes
  <2>1. DaemonTypes
    BY DEF DaemonTypes
  <2>2. 0 \in 0..Window /\ 0 \in 0..Output
    OBVIOUS
  <2> QED
    BY <2>1, <2>2 DEF CommandTypes
<1>4. Hands /\ Locks
  BY DEF Hands, Locks
<1>5. Framed(wire["down"])
  BY DEF Framed
<1>6. Sessions /\ CopiesEnd
  BY DEF Sessions, CopiesEnd, Answered
<1>7. ExitLast /\ Reported
  BY DEF ExitLast, Reported
<1>8. Conserved
  <2>1. \A x : Count(<<>>, x) = 0
    BY CountNone
  <2> QED
    BY <2>1 DEF Conserved, OnItsWay, Held
<1> QED
  BY <1>1, <1>2, <1>3, <1>4, <1>5, <1>6, <1>7, <1>8 DEF ExecInv, Types

\* Whoever takes a frame from the socket leaves parts of frames in it.
LEMMA ReadTypes ==
    ASSUME Types, NEW d \in {"up", "down"}, Readable(d), Read(d)
    PROVE  /\ wire' \in [{"up", "down"} -> Seq(Parts)]
           /\ \A e \in {"up", "down"} : Len(wire'[e]) <= Sock
           /\ wire[d][1] \in Parts
<1>1. wire \in [{"up", "down"} -> Seq(Parts)] /\ wire[d] \in Seq(Parts)
  BY DEF Types, ChannelTypes
<1>2. wire[d] # <<>> /\ wire[d][1] \in Parts
  BY <1>1 DEF Readable
<1>3. Tail(wire[d]) \in Seq(Parts) /\ Len(Tail(wire[d])) = Len(wire[d]) - 1
  BY <1>1, <1>2
<1>4. CASE wire[d][1].frame \in Empty
  <2>1. wire' = [wire EXCEPT ![d] = Tail(wire[d])]
    BY <1>4 DEF Read
  <2> QED
    BY <1>1, <1>2, <1>3, <2>1, ExecAssumption DEF Types, ChannelTypes
<1>5. CASE wire[d][1].frame \notin Empty
  <2>1. Len(wire[d]) >= 2 /\ wire' = [wire EXCEPT ![d] = Tail(Tail(wire[d]))]
    BY <1>5 DEF Read, Readable
  <2>2. Tail(Tail(wire[d])) \in Seq(Parts)
        /\ Len(Tail(Tail(wire[d]))) = Len(wire[d]) - 2
    BY <1>1, <2>1, TailTwice
  <2> QED
    BY <1>1, <1>2, <1>3, <2>1, <2>2, ExecAssumption DEF Types, ChannelTypes
<1> QED
  BY <1>4, <1>5

LEMMA TypesStep == ExecInv /\ [Next]_vars => Types'
<1> SUFFICES ASSUME ExecInv, [Next]_vars PROVE Types'
  OBVIOUS
<1> USE ExecAssumption
    DEF ExecInv, Types, Streams, Goroutines, Pumps, Copies, Frames, Codes, Writers,
        up, down, session, command
<1>1. ASSUME NEW g \in Writers, WriteHead(g) PROVE Types'
  <2>1. Dir(g) \in {"up", "down"} /\ Header(hand[g]) \in Parts
    BY <1>1 DEF WriteHead, Dir, Header, Parts, ChannelTypes
  <2>2. wire' \in [{"up", "down"} -> Seq(Parts)]
        /\ \A e \in {"up", "down"} : Len(wire'[e]) <= Sock
    BY <1>1, <2>1 DEF WriteHead, Put, ChannelTypes
  <2>3. ChannelTypes'
    BY <1>1, <2>1, <2>2 DEF WriteHead, ChannelTypes
  <2> QED
    BY <1>1, <2>3 DEF WriteHead, ClientTypes, DaemonTypes, CommandTypes
<1>2. ASSUME NEW g \in Writers, WriteBody(g) PROVE Types'
  <2>1. Dir(g) \in {"up", "down"}
    BY DEF Dir
  <2>2. hand[g] # None
    BY <1>2, <2>1 DEF WriteBody, Connected, Locks, ChannelTypes
  <2>3. Payload(hand[g]) \in Parts
    BY <2>2 DEF Payload, Parts, ChannelTypes
  <2>4. wire' \in [{"up", "down"} -> Seq(Parts)]
        /\ \A e \in {"up", "down"} : Len(wire'[e]) <= Sock
    BY <1>2, <2>1, <2>3 DEF WriteBody, Put, ChannelTypes
  <2>5. ChannelTypes'
    BY <1>2, <2>1, <2>4 DEF WriteBody, ChannelTypes
  <2> QED
    BY <1>2, <2>5 DEF WriteBody, ClientTypes, DaemonTypes, CommandTypes
<1>3. ASSUME NEW g \in Writers, WriteFails(g) PROVE Types'
  <2>1. ChannelTypes'
    BY <1>3 DEF WriteFails, Dir, ChannelTypes
  <2>2. ClientTypes' /\ DaemonTypes' /\ CommandTypes'
    BY <1>3 DEF WriteFails, ClientTypes, DaemonTypes, CommandTypes
  <2> QED
    BY <2>1, <2>2
<1>4. CASE ReadStdin
  <2>1. ClientTypes'
    BY <1>4 DEF ReadStdin, ClientTypes
  <2>2. ChannelTypes'
    <3>1. /\ \E f \in Frames : hand' = [hand EXCEPT !["pump"] = f]
          /\ live' \in {live, live \ {"pump"}}
      BY <1>4 DEF ReadStdin
    <3>2. UNCHANGED <<wire, mu>>
      BY <1>4 DEF ReadStdin
    <3> QED
      BY <3>1, <3>2 DEF ChannelTypes
  <2>3. DaemonTypes'
    BY <1>4 DEF ReadStdin, DaemonTypes
  <2>4. CommandTypes'
    BY <1>4 DEF ReadStdin, CommandTypes
  <2> QED
    BY <2>1, <2>2, <2>3, <2>4
<1>5. CASE UserSignals \/ ForwardSignal
  <2>1. sigs.left \in 0..Signals /\ sigs.ch \in BOOLEAN
    BY DEF ClientTypes
  <2>2. sigs' \in [left : 0..Signals, ch : BOOLEAN]
    <3>1. CASE UserSignals
      <4>1. sigs.left - 1 \in 0..Signals
        BY <2>1, <3>1 DEF UserSignals
      <4> QED
        BY <3>1, <4>1 DEF UserSignals
    <3>2. CASE ForwardSignal
      BY <2>1, <3>2 DEF ForwardSignal, ClientTypes
    <3> QED
      BY <1>5, <3>1, <3>2
  <2>3. ClientTypes'
    BY <1>5, <2>2 DEF UserSignals, ForwardSignal, ClientTypes
  <2>4. ChannelTypes'
    BY <1>5 DEF UserSignals, ForwardSignal, ChannelTypes
  <2>5. DaemonTypes' /\ CommandTypes'
    BY <1>5 DEF UserSignals, ForwardSignal, DaemonTypes, CommandTypes
  <2> QED
    BY <2>3, <2>4, <2>5
<1>6. CASE Receive
  <2>1. wire["down"][1] \in Parts /\ ChannelTypes'
    BY <1>6, ReadTypes DEF Receive, ChannelTypes
  <2>2. wire["down"][1].frame \in Frames
    BY <2>1 DEF Parts
  <2>3. ClientTypes'
    BY <1>6, <2>2 DEF Receive, ClientTypes
  <2> QED
    BY <1>6, <2>1, <2>3 DEF Receive, DaemonTypes, CommandTypes
<1>7. ASSUME NEW s \in Streams, Show(s) PROVE Types'
  <2>1. Tail(inbox) \in Seq(Frames) /\ Len(Tail(inbox)) <= 2
    BY <1>7, EmptySeq DEF Show, ClientTypes
  <2>2. got' \in [Streams -> Nat] /\ inbox' = Tail(inbox)
    BY <1>7 DEF Show, ClientTypes
  <2>3. ClientTypes'
    BY <1>7, <2>1, <2>2 DEF Show, ClientTypes
  <2>4. UNCHANGED <<live, hand, wire, mu, session, pipe, command>>
    BY <1>7 DEF Show
  <2> QED
    BY <2>3, <2>4 DEF ChannelTypes, DaemonTypes, CommandTypes
<1>8. CASE Exited \/ IdleExpires \/ KillClient
  <2>1. PICK r \in Codes \cup {"error"} : Return(r)
    BY <1>8 DEF Exited, IdleExpires, KillClient, DaemonTypes
  <2>2. UNCHANGED <<input, got, session, pipe, command>>
    BY <1>8 DEF Exited, IdleExpires, KillClient
  <2>3. ClientTypes'
    BY <2>1, <2>2 DEF Return, ClientTypes
  <2>4. ChannelTypes'
    BY <2>1, <2>2 DEF Return, ChannelTypes
  <2> QED
    BY <2>2, <2>3, <2>4 DEF DaemonTypes, CommandTypes
<1>9. CASE OpenSession \/ StartCommand \/ StartError \/ FinishSession
  <2>1. CASE OpenSession \/ StartCommand
    <3>1. ChannelTypes'
      BY <2>1 DEF OpenSession, StartCommand, ChannelTypes
    <3>2. ClientTypes'
      BY <2>1 DEF OpenSession, StartCommand, ClientTypes
    <3>3. DaemonTypes' /\ CommandTypes'
      BY <2>1 DEF OpenSession, StartCommand, DaemonTypes, CommandTypes
    <3> QED
      BY <3>1, <3>2, <3>3
  <2>2. CASE StartError \/ FinishSession
    <3>1. PICK c \in Codes \cup {"error"} : Answer(c)
      BY <2>2 DEF StartError, FinishSession, ExitCodeOf
    <3>2. DaemonTypes'
      BY <3>1 DEF Answer, DaemonTypes, Answered
    <3>3. ChannelTypes'
      BY <3>1 DEF Answer, ChannelTypes
    <3>4. ClientTypes' /\ CommandTypes'
      BY <3>1 DEF Answer, ClientTypes, CommandTypes
    <3> QED
      BY <3>2, <3>3, <3>4
  <2> QED
    BY <1>9, <2>1, <2>2
<1>10. CASE CloseConn
  <2>1. ChannelTypes'
    BY <1>10 DEF CloseConn, ChannelTypes
  <2>2. ClientTypes' /\ DaemonTypes' /\ CommandTypes'
    BY <1>10 DEF CloseConn, ClientTypes, DaemonTypes, CommandTypes, Answered
  <2> QED
    BY <2>1, <2>2
<1>11. CASE BridgeReads
  <2>1. ChannelTypes'
    BY <1>11, ReadTypes DEF BridgeReads, ChannelTypes
  <2> QED
    BY <1>11, <2>1 DEF BridgeReads, ClientTypes, DaemonTypes, CommandTypes
<1>12. CASE BridgePasses \/ BridgeEnds
  <2>1. ClientTypes'
    BY <1>12 DEF BridgePasses, BridgeEnds, ClientTypes
  <2>2. ChannelTypes'
    BY <1>12 DEF BridgePasses, BridgeEnds, ChannelTypes
  <2>3. DaemonTypes'
    BY <1>12 DEF BridgePasses, BridgeEnds, DaemonTypes
  <2>4. CommandTypes'
    BY <1>12 DEF BridgePasses, BridgeEnds, CommandTypes
  <2> QED
    BY <2>1, <2>2, <2>3, <2>4
<1>13. ASSUME NEW s \in Streams, Copy(s) PROVE Types'
  <2>1. ClientTypes'
    BY <1>13 DEF Copy, CopyReads, CopyEnds, ClientTypes
  <2>2. ChannelTypes'
    <3>1. CASE CopyReads(s)
      BY <3>1 DEF CopyReads, ChannelTypes
    <3>2. CASE CopyEnds(s)
      BY <3>2 DEF CopyEnds, ChannelTypes
    <3> QED
      BY <1>13, <3>1, <3>2 DEF Copy
  <2>3. DaemonTypes'
    BY <1>13 DEF Copy, CopyReads, CopyEnds, DaemonTypes
  <2>4. CommandTypes'
    BY <1>13 DEF Copy, CopyReads, CopyEnds, CommandTypes
  <2> QED
    BY <2>1, <2>2, <2>3, <2>4
<1>14. ASSUME NEW s \in Streams, CommandWrites(s) PROVE Types'
  <2>1. ClientTypes'
    BY <1>14 DEF CommandWrites, ClientTypes
  <2>2. ChannelTypes'
    BY <1>14 DEF CommandWrites, ChannelTypes
  <2>3. DaemonTypes'
    BY <1>14 DEF CommandWrites, DaemonTypes
  <2>4. CommandTypes'
    BY <1>14 DEF CommandWrites, CommandTypes
  <2> QED
    BY <2>1, <2>2, <2>3, <2>4
<1>15. CASE CommandReads \/ CommandEnds \/ Lose
  <2>1. ClientTypes'
    BY <1>15 DEF CommandReads, CommandEnds, Lose, ClientTypes
  <2>2. ChannelTypes'
    BY <1>15 DEF CommandReads, CommandEnds, Lose, ChannelTypes
  <2>3. DaemonTypes'
    BY <1>15 DEF CommandReads, CommandEnds, Lose, DaemonTypes
  <2>4. CommandTypes'
    BY <1>15 DEF CommandReads, CommandEnds, Lose, CommandTypes
  <2> QED
    BY <2>1, <2>2, <2>3, <2>4
<1>16. CASE UNCHANGED vars
  BY <1>16 DEF vars, ClientTypes, ChannelTypes, DaemonTypes, CommandTypes
<1> QED
  BY <1>1, <1>2, <1>3, <1>4, <1>5, <1>6, <1>7, <1>8, <1>9, <1>10, <1>11, <1>12, <1>13,
     <1>14, <1>15, <1>16
     DEF Next, Scheduled, Client, Write, Bridge, Serve, Command

\* Who writes what, and the command's states.
LEMMA SessionStep ==
    ExecInv /\ [Next]_vars => Hands' /\ Locks' /\ Sessions' /\ CopiesEnd'
<1> SUFFICES ASSUME ExecInv, [Next]_vars
             PROVE  Hands' /\ Locks' /\ Sessions' /\ CopiesEnd'
  OBVIOUS
<1> DEFINE Goal == Hands /\ Locks /\ Sessions /\ CopiesEnd
<1>0. /\ Hands /\ Locks /\ Sessions /\ CopiesEnd
      /\ hand \in [Goroutines -> Frames \cup {None}]
      /\ mu \in [{"up", "down"} -> Goroutines \cup {None}]
      /\ live \subseteq Goroutines /\ code \in Codes \cup {"error"}
      /\ sout \in [Streams -> 0..Window] /\ wrote \in [Streams -> 0..Output]
      /\ remote \in {"none"} \cup CommandKinds \cup Codes
  BY DEF ExecInv, Types, ChannelTypes, DaemonTypes, CommandTypes
<1> USE <1>0, ExecAssumption
    DEF Streams, Goroutines, Pumps, Copies, Frames, Codes, CommandKinds, Writers, up,
        down, session, command, Answered, Gone, Running
<1>1. ASSUME NEW g \in Writers, WriteHead(g) PROVE Goal'
  <2>1. Sessions' /\ CopiesEnd'
    BY <1>1 DEF WriteHead, Sessions, CopiesEnd
  <2>2. Hands'
    BY <1>1 DEF WriteHead, Hands
  <2>3. Locks'
    BY <1>1 DEF WriteHead, Hands, Locks, Dir, Empty
  <2> QED
    BY <2>1, <2>2, <2>3
<1>2. ASSUME NEW g \in Writers, WriteBody(g) PROVE Goal'
  <2>1. Sessions' /\ CopiesEnd'
    BY <1>2 DEF WriteBody, Sessions, CopiesEnd
  <2>2. Hands'
    BY <1>2 DEF WriteBody, Hands
  <2>3. Locks'
    BY <1>2 DEF WriteBody, Hands, Locks, Dir
  <2> QED
    BY <2>1, <2>2, <2>3
<1>3. ASSUME NEW g \in Writers, WriteFails(g) PROVE Goal'
  <2>1. Sessions' /\ CopiesEnd'
    BY <1>3 DEF WriteFails, Sessions, CopiesEnd
  <2>2. Hands'
    BY <1>3 DEF WriteFails, Hands
  <2>3. Locks'
    BY <1>3 DEF WriteFails, Locks, Dir
  <2> QED
    BY <2>1, <2>2, <2>3
<1>4. CASE ReadStdin \/ UserSignals \/ ForwardSignal \/ Receive
  <2>1. Sessions' /\ CopiesEnd'
    <3>1. /\ live \ Pumps = live' \ Pumps
          /\ UNCHANGED <<client, session, command>>
      BY <1>4 DEF ReadStdin, UserSignals, ForwardSignal, Receive
    <3>2. Sessions'
      BY <3>1 DEF Sessions
    <3> QED
      BY <3>1, <3>2 DEF CopiesEnd
  <2>2. Hands'
    <3>1. /\ \A g \in Goroutines \ Pumps : hand'[g] = hand[g]
          /\ live \ Pumps \subseteq live' /\ UNCHANGED sess
      <4>1. CASE ReadStdin
        BY <4>1 DEF ReadStdin
      <4>2. CASE ForwardSignal
        BY <4>2 DEF ForwardSignal
      <4>3. CASE UserSignals \/ Receive
        BY <4>3 DEF UserSignals, Receive
      <4> QED
        BY <1>4, <4>1, <4>2, <4>3
    <3> QED
      BY <3>1 DEF Hands
  <2>3. Locks'
    <3>1. UNCHANGED <<client, mu>>
      BY <1>4 DEF ReadStdin, UserSignals, ForwardSignal, Receive
    <3>2. \A g \in Goroutines : hand[g] # None => hand'[g] # None
      <4>1. CASE ReadStdin
        BY <4>1 DEF ReadStdin
      <4>2. CASE ForwardSignal
        BY <4>2 DEF ForwardSignal
      <4>3. CASE UserSignals \/ Receive
        BY <4>3 DEF UserSignals, Receive
      <4> QED
        BY <1>4, <4>1, <4>2, <4>3
    <3> QED
      BY <3>1, <3>2 DEF Locks
  <2> QED
    BY <2>1, <2>2, <2>3
<1>5. ASSUME NEW s \in Streams, Show(s) PROVE Goal'
  <2>1. UNCHANGED <<client, live, hand, mu, session, command>>
    BY <1>5 DEF Show
  <2>2. Hands' /\ Locks'
    BY <2>1 DEF Hands, Locks
  <2>3. Sessions' /\ CopiesEnd'
    BY <2>1 DEF Sessions, CopiesEnd
  <2> QED
    BY <2>2, <2>3
<1>6. CASE Exited \/ IdleExpires \/ KillClient
  <2>1. PICK r \in Codes \cup {"error"} : Return(r)
    BY <1>6 DEF Exited, IdleExpires, KillClient
  <2>2. UNCHANGED <<pipe, session, command>>
    BY <1>6 DEF Exited, IdleExpires, KillClient
  <2>3. Sessions' /\ CopiesEnd'
    BY <2>1, <2>2 DEF Return, Sessions, CopiesEnd
  <2>4. /\ client' # "loop" /\ UNCHANGED sess
        /\ \A g \in Goroutines \ Pumps : hand'[g] = hand[g] /\ (g \in live => g \in live')
        /\ mu'["up"] = None /\ mu'["down"] = mu["down"]
    BY <2>1, <2>2 DEF Return
  <2>5. Hands'
    BY <2>4 DEF Hands
  <2>6. Locks'
    BY <2>4 DEF Locks
  <2> QED
    BY <2>3, <2>5, <2>6
<1>7. CASE OpenSession
  <2>1. Sessions' /\ CopiesEnd'
    BY <1>7 DEF OpenSession, Sessions, CopiesEnd
  <2>2. live \subseteq live' /\ sess # "answer" /\ UNCHANGED <<client, hand, mu>>
    BY <1>7 DEF OpenSession
  <2> QED
    BY <2>1, <2>2 DEF Hands, Locks
<1>8. CASE StartCommand
  <2>1. Sessions' /\ CopiesEnd'
    BY <1>8 DEF StartCommand, Sessions, CopiesEnd
  <2>2. Hands' /\ Locks'
    <3>1. live \subseteq live' /\ sess # "answer" /\ UNCHANGED <<client, hand, mu>>
      BY <1>8 DEF StartCommand
    <3> QED
      BY <3>1 DEF Hands, Locks
  <2> QED
    BY <2>1, <2>2
<1>9. CASE StartError
  <2>1. Sessions' /\ CopiesEnd'
    BY <1>9 DEF StartError, Answer, Sessions, CopiesEnd
  <2>2. Hands' /\ Locks'
    <3>1. PICK c : Answer(c)
      BY <1>9 DEF StartError
    <3>2. /\ sess' = "answer" /\ hand' = [hand EXCEPT !["serve"] = "exit"]
          /\ UNCHANGED <<client, live, mu>>
      BY <3>1 DEF Answer
    <3>3. Hands'
      BY <3>2 DEF Hands
    <3> QED
      BY <3>2, <3>3 DEF Locks
  <2> QED
    BY <2>1, <2>2
<1>10. CASE FinishSession
  <2>1. Sessions' /\ CopiesEnd'
    BY <1>10 DEF FinishSession, Answer, ExitCodeOf, Sessions, CopiesEnd
  <2>2. Hands' /\ Locks'
    <3>1. PICK c : Answer(c)
      BY <1>10 DEF FinishSession
    <3>2. /\ sess' = "answer" /\ hand' = [hand EXCEPT !["serve"] = "exit"]
          /\ UNCHANGED <<client, live, mu>>
      BY <3>1 DEF Answer
    <3>3. Hands'
      BY <3>2 DEF Hands
    <3> QED
      BY <3>2, <3>3 DEF Locks
  <2> QED
    BY <2>1, <2>2
<1>11. CASE CloseConn
  <2>1. Sessions' /\ CopiesEnd'
    BY <1>11 DEF CloseConn, Sessions, CopiesEnd
  <2>2. Hands'
    BY <1>11 DEF CloseConn, Hands
  <2>3. Locks'
    BY <1>11 DEF CloseConn, Hands, Locks
  <2> QED
    BY <2>1, <2>2, <2>3
<1>12. CASE BridgeReads
  <2>1. Sessions' /\ CopiesEnd'
    BY <1>12 DEF BridgeReads, Sessions, CopiesEnd
  <2>2. Hands' /\ Locks'
    <3>1. \E h \in Frames \cup {None} : hand' = [hand EXCEPT !["bridge"] = h]
      BY <1>12 DEF BridgeReads
    <3>2. live \ {"bridge"} \subseteq live' /\ UNCHANGED <<client, mu, sess>>
      BY <1>12 DEF BridgeReads
    <3>3. hand["bridge"] = None
      BY <1>12 DEF BridgeReads
    <3>4. Hands'
      BY <3>1, <3>2 DEF Hands
    <3>5. \A g \in Goroutines : hand[g] # None => hand'[g] # None
      BY <3>1, <3>3
    <3> QED
      BY <3>2, <3>4, <3>5 DEF Locks
  <2> QED
    BY <2>1, <2>2
<1>13. CASE BridgePasses \/ BridgeEnds
  <2>1. Sessions' /\ CopiesEnd'
    BY <1>13 DEF BridgePasses, BridgeEnds, Sessions, CopiesEnd
  <2>2. Hands' /\ Locks'
    <3>1. hand' = [hand EXCEPT !["bridge"] = None] /\ live \ {"bridge"} \subseteq live'
          /\ UNCHANGED <<client, mu, sess>>
      BY <1>13 DEF BridgePasses, BridgeEnds
    <3> QED
      BY <3>1 DEF Hands, Locks
  <2> QED
    BY <2>1, <2>2
<1>14. ASSUME NEW s \in Streams, Copy(s) PROVE Goal'
  <2>1. Sessions' /\ CopiesEnd'
    BY <1>14 DEF Copy, CopyReads, CopyEnds, Sessions, CopiesEnd
  <2>2. Hands' /\ Locks'
    <3>1. CASE CopyReads(s)
      <4>1. hand' = [hand EXCEPT ![s] = s] /\ s \in live /\ hand[s] = None
            /\ UNCHANGED <<client, live, mu, sess>>
        BY <3>1 DEF CopyReads
      <4>2. Hands'
        BY <4>1 DEF Hands
      <4>3. Locks'
        BY <4>1 DEF Locks
      <4> QED
        BY <4>2, <4>3
    <3>2. CASE CopyEnds(s)
      BY <3>2 DEF CopyEnds, Hands, Locks
    <3> QED
      BY <1>14, <3>1, <3>2 DEF Copy
  <2> QED
    BY <2>1, <2>2
<1>15. ASSUME NEW s \in Streams, CommandWrites(s) PROVE Goal'
  <2>1. Sessions' /\ CopiesEnd'
    <3>1. Sessions'
      BY <1>15 DEF CommandWrites, Sessions
    <3>2. CopiesEnd'
      <4>1. ~Gone /\ remote # "none" /\ UNCHANGED <<client, live, sess>>
        BY <1>15 DEF CommandWrites
      <4>2. sess = "run"
        BY <4>1 DEF Sessions, ExecInv, Types, DaemonTypes
      <4>3. client = "loop" => Streams \subseteq live
        BY <4>1, <4>2 DEF CopiesEnd
      <4> QED
        BY <4>1, <4>3 DEF CopiesEnd
    <3> QED
      BY <3>1, <3>2
  <2>2. Hands' /\ Locks'
    <3>1. UNCHANGED <<client, live, hand, mu, sess>>
      BY <1>15 DEF CommandWrites
    <3> QED
      BY <3>1 DEF Hands, Locks
  <2> QED
    BY <2>1, <2>2
<1>16. CASE CommandReads \/ CommandEnds \/ Lose
  <2>1. Sessions' /\ CopiesEnd'
    BY <1>16 DEF CommandReads, CommandEnds, Lose, Sessions, CopiesEnd
  <2>2. Hands' /\ Locks'
    <3>1. UNCHANGED <<client, live, hand, mu, sess>>
      BY <1>16 DEF CommandReads, CommandEnds, Lose
    <3> QED
      BY <3>1 DEF Hands, Locks
  <2> QED
    BY <2>1, <2>2
<1>17. CASE UNCHANGED vars
  BY <1>17 DEF vars, Hands, Locks, Sessions, CopiesEnd
<1> QED
  BY <1>1, <1>2, <1>3, <1>4, <1>5, <1>6, <1>7, <1>8, <1>9, <1>10, <1>11, <1>12, <1>13,
     <1>14, <1>15, <1>16, <1>17
     DEF Next, Scheduled, Client, Write, Bridge, Serve, Command

\* What is in the stream to the client while the client is there.
Stream ==
    (client = "loop" => Framed(wire["down"])) /\ ExitLast /\ Conserved

\* A step elsewhere.
LEMMA StreamKept ==
    ASSUME ExecInv, UNCHANGED <<client, inbox, got, sout, wrote>>,
           UNCHANGED <<wire["down"], mu["down"]>>,
           UNCHANGED <<hand["out"], hand["err"], hand["serve"]>>,
           sess \in Answered => sess' \in Answered
    PROVE  Stream'
<1>1. (client = "loop" => Framed(wire["down"]))'
  BY DEF ExecInv, Framed
<1>2. ExitLast'
  BY DEF ExecInv, ExitLast
<1>3. Conserved'
  BY DEF ExecInv, Conserved, OnItsWay, Held, Streams
<1> QED
  BY <1>1, <1>2, <1>3 DEF Stream

\* The types of what comes down.
LEMMA DownTypes ==
    ASSUME ExecInv
    PROVE  /\ wire["down"] \in Seq(Parts) /\ inbox \in Seq(Frames)
           /\ Len(wire["down"]) \in Nat /\ Len(inbox) \in Nat
           /\ \A s \in Streams : /\ Count(inbox, s) \in Nat
                                 /\ Count(wire["down"], Header(s)) \in Nat
                                 /\ got[s] \in Nat /\ sout[s] \in Nat
                                 /\ wrote[s] \in Nat
<1>1. /\ wire["down"] \in Seq(Parts) /\ inbox \in Seq(Frames)
      /\ got \in [Streams -> Nat] /\ sout \in [Streams -> 0..Window]
      /\ wrote \in [Streams -> 0..Output]
  BY DEF ExecInv, Types, ClientTypes, ChannelTypes, CommandTypes
<1>2. \A s \in Streams : Count(inbox, s) \in Nat
                         /\ Count(wire["down"], Header(s)) \in Nat
  BY <1>1, PlacesFinite
<1> QED
  BY <1>1, <1>2, ExecAssumption

LEMMA Balance ==
    ASSUME ExecInv, client = "loop", NEW s \in Streams
    PROVE  /\ Held(s) \in {0, 1}
           /\ wrote[s] = got[s] + Count(inbox, s) + Count(wire["down"], Header(s))
                             + Held(s) + sout[s]
<1>1. wrote[s] = got[s] + OnItsWay(s)
  BY DEF ExecInv, Conserved
<1>2. Held(s) \in {0, 1}
  BY DEF Held
<1>3. OnItsWay(s) = Count(inbox, s) + Count(wire["down"], Header(s))
                       + Held(s) + sout[s]
  BY DEF OnItsWay, Held
<1>4. /\ Count(inbox, s) \in Nat /\ Count(wire["down"], Header(s)) \in Nat
      /\ got[s] \in Nat /\ sout[s] \in Nat /\ wrote[s] \in Nat
  BY DownTypes
<1> QED
  BY <1>1, <1>2, <1>3, <1>4

\* A goroutine of the daemon begins a frame ...
LEMMA HeadStep ==
    ASSUME ExecInv, NEW g \in Copies \cup {"serve"}, WriteHead(g)
    PROVE  Stream'
<1> DEFINE q == wire["down"]
           h == hand[g]
<1>1. /\ g \in Goroutines /\ g \notin Pumps /\ Dir(g) = "down"
      /\ h \in Copies \cup {"exit"} /\ h \notin Empty
      /\ h = "exit" <=> g = "serve"
      /\ h # "exit" => h = g
  BY DEF ExecInv, Hands, WriteHead, Goroutines, Pumps, Copies, Streams, Dir, Empty
<1>2. /\ client = "loop" /\ mu["down"] = None
      /\ wire' = [wire EXCEPT !["down"] = Append(q, Header(h))]
      /\ mu' = [mu EXCEPT !["down"] = g]
      /\ hand' = [hand EXCEPT ![g] = h]
      /\ UNCHANGED <<client, inbox, got, sess, sout, wrote>>
  BY <1>1 DEF WriteHead, Put, Connected, down, session, command
<1>3. /\ q \in Seq(Parts) /\ Header(h) \in Parts /\ Len(q) \in Nat
      /\ wire \in [{"up", "down"} -> Seq(Parts)]
      /\ mu \in [{"up", "down"} -> Goroutines \cup {None}]
      /\ hand \in [Goroutines -> Frames \cup {None}]
  BY <1>1, DownTypes DEF ExecInv, Types, ChannelTypes, Header, Parts, Frames, Copies
<1>4. wire'["down"] = Append(q, Header(h)) /\ mu'["down"] = g /\ hand' = hand
  BY <1>1, <1>2, <1>3
<1>5. /\ Len(wire'["down"]) = Len(q) + 1 /\ wire'["down"][Len(q) + 1] = Header(h)
      /\ \A i \in 1..Len(q) : wire'["down"][i] = q[i]
      /\ wire'["down"] # <<>>
  BY <1>3, <1>4
<1>6. Framed(wire["down"])'
  <2>1. g # None /\ Header(h).part = "head" /\ Header(h).frame = h
    BY <1>1, ExecAssumption DEF Header
  <2>2. q = <<>> \/ q[Len(q)].part # "head"
    BY <1>2 DEF ExecInv, Framed
  <2>3. \A i \in 1..Len(q) + 1 : wire'["down"][i].frame \notin Empty
    BY <1>1, <1>2, <1>3, <1>5, <2>1 DEF ExecInv, Framed
  <2>4. wire'["down"][1].part = "head"
    BY <1>2, <1>3, <1>5, <2>1, EmptySeq DEF ExecInv, Framed
  <2>5. \A i \in 2..Len(q) + 1 : wire'["down"][i].part # wire'["down"][i - 1].part
    <3>1. ASSUME NEW i \in 2..Len(q)
          PROVE  wire'["down"][i].part # wire'["down"][i - 1].part
      BY <1>2, <1>3, <1>5, <3>1 DEF ExecInv, Framed
    <3>2. Len(q) >= 1 => wire'["down"][Len(q) + 1].part # wire'["down"][Len(q)].part
      BY <1>3, <1>5, <2>1, <2>2, EmptySeq
    <3>3. \A i \in 2..Len(q) + 1 : i \in 2..Len(q) \/ (i = Len(q) + 1 /\ Len(q) >= 1)
      BY <1>3
    <3>4. Len(q) + 1 - 1 = Len(q)
      BY <1>3
    <3> QED
      BY <3>1, <3>2, <3>3, <3>4
  <2> QED
    BY <1>4, <1>5, <2>1, <2>3, <2>4, <2>5 DEF Framed
<1>7. ExitLast'
  <2>1. CASE g = "serve"
    <3>1. hand["serve"] # None /\ sess = "answer" /\ mu["down"] # "serve"
      BY <1>1, <1>2, <2>1, ExecAssumption DEF ExecInv, Hands, Copies, Goroutines, Frames
    <3>2. /\ \A i \in 1..Len(inbox) : inbox[i] # "exit"
          /\ \A i \in 1..Len(q) : q[i] # Header("exit")
      BY <1>2, <3>1 DEF ExecInv, ExitLast
    <3> QED
      BY <1>2, <1>3, <1>4, <1>5, <2>1, <3>1, <3>2 DEF ExitLast, Answered
  <2>2. CASE g # "serve"
    <3>1. hand[g] # None /\ g \in Streams
      BY <1>1, <2>2, ExecAssumption DEF Copies, Frames, Streams
    <3>2. sess \notin Answered
      BY <3>1 DEF ExecInv, Hands, Sessions, Streams, Copies
    <3>3. /\ \A i \in 1..Len(inbox) : inbox[i] # "exit"
          /\ \A i \in 1..Len(q) : q[i] # Header("exit")
      BY <1>2, <3>2 DEF ExecInv, ExitLast
    <3>4. Header(h) # Header("exit")
      BY <1>1, <2>2 DEF Header
    <3> QED
      BY <1>2, <1>3, <1>4, <1>5, <3>3, <3>4 DEF ExitLast
  <2> QED
    BY <2>1, <2>2
<1>8. Conserved'
  <2> SUFFICES ASSUME NEW s \in Streams PROVE wrote[s] = got[s] + OnItsWay(s)'
    BY <1>2 DEF Conserved
  <2>1. Count(wire'["down"], Header(s))
           = Count(q, Header(s)) + (IF Header(h) = Header(s) THEN 1 ELSE 0)
    BY <1>3, <1>4, CountAppend
  <2>2. Header(h) = Header(s) <=> h = s
    BY DEF Header
  <2>3. wrote[s] = got[s] + OnItsWay(s)
    BY <1>2 DEF ExecInv, Conserved
  <2>4. mu["down"] # s /\ (h = s <=> g = s)
    BY <1>1, <1>2, ExecAssumption DEF Streams, Goroutines, Copies
  <2>5. CASE g = s
    BY <1>2, <1>4, <2>1, <2>2, <2>3, <2>4, <2>5, DownTypes DEF OnItsWay, Held
  <2>6. CASE g # s
    BY <1>2, <1>4, <2>1, <2>2, <2>3, <2>4, <2>6, DownTypes DEF OnItsWay, Held
  <2> QED
    BY <2>5, <2>6
<1> QED
  BY <1>6, <1>7, <1>8 DEF Stream

\* ... and ends it.
LEMMA BodyStep ==
    ASSUME ExecInv, NEW g \in Copies \cup {"serve"}, WriteBody(g)
    PROVE  Stream'
<1> DEFINE q == wire["down"]
           p == Payload(hand[g])
<1>1. g \in Goroutines /\ g \notin Pumps /\ Dir(g) = "down" /\ g # None
  BY ExecAssumption DEF Goroutines, Pumps, Copies, Dir
<1>2. /\ client = "loop" /\ mu["down"] = g
      /\ wire' = [wire EXCEPT !["down"] = Append(q, p)]
      /\ mu' = [mu EXCEPT !["down"] = None]
      /\ hand' = [hand EXCEPT ![g] = None]
      /\ UNCHANGED <<client, inbox, got, sess, sout, wrote>>
  BY <1>1 DEF WriteBody, Put, Connected, down, session, command
<1>3. hand[g] # None /\ hand[g] \in Copies \cup {"exit"} /\ hand[g] \notin Empty
  BY <1>1, <1>2 DEF ExecInv, Locks, Hands, Copies, Streams, Empty
<1>4. /\ q \in Seq(Parts) /\ p \in Parts /\ Len(q) \in Nat
      /\ wire \in [{"up", "down"} -> Seq(Parts)]
      /\ mu \in [{"up", "down"} -> Goroutines \cup {None}]
      /\ hand \in [Goroutines -> Frames \cup {None}]
  BY <1>3, DownTypes DEF ExecInv, Types, ChannelTypes, Payload, Parts, Frames, Copies
<1>5. /\ wire'["down"] = Append(q, p) /\ mu'["down"] = None /\ hand'[g] = None
      /\ \A s \in Goroutines \ {g} : hand'[s] = hand[s]
  BY <1>1, <1>2, <1>4
<1>6. /\ Len(wire'["down"]) = Len(q) + 1 /\ wire'["down"][Len(q) + 1] = p
      /\ \A i \in 1..Len(q) : wire'["down"][i] = q[i]
      /\ wire'["down"] # <<>>
  <2>1. /\ Len(Append(q, p)) = Len(q) + 1 /\ Append(q, p)[Len(q) + 1] = p
        /\ \A i \in 1..Len(q) : Append(q, p)[i] = q[i]
    BY <1>4
  <2>2. Append(q, p) # <<>>
    BY <1>4, <2>1, EmptySeq
  <2> QED
    BY <1>5, <2>1, <2>2
<1>7. /\ p.part = "body" /\ p.frame = hand[g] /\ q # <<>> /\ Len(q) >= 1
      /\ q[Len(q)].part = "head"
  BY <1>1, <1>2, <1>4, EmptySeq DEF ExecInv, Framed, Payload
<1>8. Framed(wire["down"])'
  <2>1. \A i \in 1..Len(q) + 1 : wire'["down"][i].frame \notin Empty
    BY <1>2, <1>3, <1>4, <1>6, <1>7 DEF ExecInv, Framed
  <2>2. wire'["down"][1].part = "head"
    BY <1>2, <1>4, <1>6, <1>7 DEF ExecInv, Framed
  <2>3. \A i \in 2..Len(q) + 1 : wire'["down"][i].part # wire'["down"][i - 1].part
    <3>1. ASSUME NEW i \in 2..Len(q)
          PROVE  wire'["down"][i].part # wire'["down"][i - 1].part
      BY <1>2, <1>4, <1>6, <3>1 DEF ExecInv, Framed
    <3>2. wire'["down"][Len(q) + 1].part # wire'["down"][Len(q)].part
      BY <1>4, <1>6, <1>7
    <3>3. \A i \in 2..Len(q) + 1 : i \in 2..Len(q) \/ i = Len(q) + 1
      BY <1>4
    <3>4. Len(q) + 1 - 1 = Len(q)
      BY <1>4
    <3> QED
      BY <3>1, <3>2, <3>3, <3>4
  <2> QED
    BY <1>5, <1>6, <1>7, <2>1, <2>2, <2>3 DEF Framed
<1>9. ExitLast'
  <2>1. p # Header("exit")
    BY <1>7 DEF Header
  <2>2. \A i \in 1..Len(inbox) : inbox[i] # "exit"
    BY <1>2, <1>7 DEF ExecInv, ExitLast
  <2>3. ASSUME NEW i \in 1..Len(q), q[i] = Header("exit")
        PROVE  i = Len(q) /\ sess \in Answered /\ hand'["serve"] = None
    <3>1. i >= Len(q) - 1 /\ sess \in Answered
          /\ (hand["serve"] = None \/ mu["down"] = "serve")
      BY <1>2, <2>3 DEF ExecInv, ExitLast
    <3>2. q[i].part = "head"
      BY <2>3 DEF Header
    <3>3. i = Len(q)
      <4>1. CASE i = Len(q) - 1
        <5>1. Len(q) \in 2..Len(q) /\ q[Len(q)].part # q[Len(q) - 1].part
          BY <1>2, <1>4, <4>1 DEF ExecInv, Framed
        <5> QED
          BY <1>7, <3>2, <4>1, <5>1
      <4> QED
        BY <1>4, <3>1, <4>1
    <3>4. hand'["serve"] = None
      BY <1>1, <1>2, <1>5, <3>1 DEF Goroutines
    <3> QED
      BY <3>1, <3>3, <3>4
  <2> QED
    BY <1>2, <1>4, <1>5, <1>6, <2>1, <2>2, <2>3 DEF ExitLast
<1>10. Conserved'
  <2> SUFFICES ASSUME NEW s \in Streams PROVE wrote[s] = got[s] + OnItsWay(s)'
    BY <1>2 DEF Conserved
  <2>1. p # Header(s)
    BY <1>7 DEF Header
  <2>2. Count(wire'["down"], Header(s)) = Count(q, Header(s))
    <3>1. Count(wire'["down"], Header(s))
             = Count(q, Header(s)) + (IF p = Header(s) THEN 1 ELSE 0)
      BY <1>4, <1>5, CountAppend
    <3> QED
      BY <2>1, <3>1, DownTypes
  <2>3. wrote[s] = got[s] + OnItsWay(s)
    BY <1>2 DEF ExecInv, Conserved
  <2>4. s \in Goroutines /\ s # None
    BY ExecAssumption DEF Streams, Goroutines, Copies
  <2>5. CASE g = s
    BY <1>2, <1>5, <2>2, <2>3, <2>4, <2>5 DEF OnItsWay, Held
  <2>6. CASE g # s
    BY <1>2, <1>5, <2>2, <2>3, <2>4, <2>6 DEF OnItsWay, Held
  <2> QED
    BY <2>5, <2>6
<1> QED
  BY <1>8, <1>9, <1>10 DEF Stream

\* The client's reader takes a frame.
LEMMA ReceiveStep == ExecInv /\ Receive => Stream'
<1> SUFFICES ASSUME ExecInv, Receive PROVE Stream'
  OBVIOUS
<1> DEFINE q == wire["down"]
           f == q[1].frame
           r == Tail(Tail(q))
<1>1. /\ client = "loop" /\ q # <<>> /\ (f \in Empty \/ Len(q) >= 2)
      /\ inbox' = Append(inbox, f)
      /\ UNCHANGED <<client, got, hand, mu, sess, sout, wrote>>
  BY DEF Receive, Readable, up, session, command
<1>2. /\ q \in Seq(Parts) /\ inbox \in Seq(Frames)
      /\ Len(q) \in Nat /\ Len(inbox) \in Nat
      /\ wire \in [{"up", "down"} -> Seq(Parts)]
  BY DownTypes DEF ExecInv, Types, ChannelTypes
<1>3. Len(q) >= 1 /\ f \notin Empty /\ q[1].part = "head" /\ q[1] \in Parts
  BY <1>1, <1>2, EmptySeq DEF ExecInv, Framed
<1>4. /\ Len(q) >= 2 /\ wire'["down"] = r
      /\ q[2].part = "body" /\ q[2] \in Parts
  <2>1. Len(q) >= 2
    BY <1>1, <1>3
  <2>2. q[2].part # q[1].part /\ q[2] \in Parts
    BY <1>1, <1>2, <2>1 DEF ExecInv, Framed
  <2>3. wire' = [wire EXCEPT !["down"] = r]
    BY <1>3 DEF Receive, Read
  <2> QED
    BY <1>2, <1>3, <2>1, <2>2, <2>3 DEF Parts
<1>5. /\ r \in Seq(Parts) /\ Len(r) = Len(q) - 2
      /\ r = <<>> <=> Len(q) = 2
      /\ \A i \in 1..(Len(q) - 2) : r[i] = q[i + 2]
      /\ Tail(q) \in Seq(Parts) /\ Tail(q) # <<>> /\ Tail(q)[1] = q[2]
  BY <1>2, <1>4, TailTwice
<1>6. f \in Frames /\ q[1] = Header(f) /\ Header(f).frame = f
  BY <1>3 DEF Parts, Header
<1>7. /\ Len(inbox') = Len(inbox) + 1 /\ inbox'[Len(inbox) + 1] = f
      /\ \A i \in 1..Len(inbox) : inbox'[i] = inbox[i]
  BY <1>1, <1>2, <1>6
<1>8. Framed(wire["down"])'
  <2>1. \A i \in 1..Len(r) : r[i].frame \notin Empty
    BY <1>1, <1>2, <1>4, <1>5 DEF ExecInv, Framed
  <2>2. r # <<>> => r[1].part = "head"
    <3>1. r # <<>> => Len(q) >= 3 /\ r[1] = q[3]
      BY <1>2, <1>5, EmptySeq
    <3>2. Len(q) >= 3 => q[3].part # q[3 - 1].part
      BY <1>1, <1>2 DEF ExecInv, Framed
    <3>3. Len(q) >= 3 => q[3] \in Parts
      BY <1>2
    <3> QED
      BY <1>4, <3>1, <3>2, <3>3 DEF Parts
  <2>3. ASSUME NEW i \in 2..Len(r) PROVE r[i].part # r[i - 1].part
    <3>1. i + 2 \in 2..Len(q) /\ (i + 2) - 1 = (i - 1) + 2
          /\ i \in 1..(Len(q) - 2) /\ i - 1 \in 1..(Len(q) - 2)
      BY <1>2, <1>5, <2>3
    <3>2. q[i + 2].part # q[(i + 2) - 1].part
      BY <1>1, <3>1 DEF ExecInv, Framed
    <3> QED
      BY <1>5, <3>1, <3>2
  <2>4. mu["down"] # None <=> (r # <<>> /\ r[Len(r)].part = "head")
    <3>1. CASE Len(q) = 2
      <4>1. r = <<>>
        BY <1>5, <3>1
      <4>2. mu["down"] = None
        BY <1>1, <1>4, <3>1 DEF ExecInv, Framed
      <4> QED
        BY <4>1, <4>2
    <3>2. CASE Len(q) # 2
      <4>1. r # <<>>
        BY <1>2, <1>5, <3>2
      <4>2. r[Len(r)] = q[Len(q)]
        BY <1>2, <1>5, <3>2
      <4> QED
        BY <1>1, <4>1, <4>2 DEF ExecInv, Framed
    <3> QED
      BY <3>1, <3>2
  <2> QED
    BY <1>1, <1>4, <2>1, <2>2, <2>3, <2>4 DEF Framed
<1>9. ExitLast'
  <2>1. \A i \in 1..Len(inbox) : inbox[i] # "exit"
    BY <1>1 DEF ExecInv, ExitLast
  <2>2. CASE f = "exit"
    <3>1. 1 >= Len(q) - 1 /\ sess \in Answered
          /\ (hand["serve"] = None \/ mu["down"] = "serve")
      <4>1. 1 \in 1..Len(q) /\ q[1] = Header("exit")
        BY <1>2, <1>3, <1>6, <2>2
      <4> QED
        BY <1>1, <4>1 DEF ExecInv, ExitLast
    <3>2. Len(q) = 2 /\ r = <<>>
      BY <1>2, <1>4, <1>5, <3>1
    <3>3. mu["down"] = None
      BY <1>1, <1>4, <3>2 DEF ExecInv, Framed
    <3>4. hand["serve"] = None
      BY <3>1, <3>3, ExecAssumption DEF Goroutines
    <3>5. \A i \in 1..Len(inbox') : inbox'[i] = "exit" => i = Len(inbox')
      <4>1. Len(inbox) \in Nat /\ Len(inbox') = Len(inbox) + 1
        BY <1>2, <1>7
      <4>2. \A i \in 1..Len(inbox) : inbox'[i] # "exit"
        BY <1>7, <2>1
      <4> QED
        BY <4>1, <4>2
    <3>6. wire'["down"] = <<>> /\ 1..Len(wire'["down"]) = {}
      BY <1>2, <1>4, <1>5, <3>2
    <3> QED
      BY <1>1, <3>1, <3>4, <3>5, <3>6 DEF ExitLast
  <2>3. CASE f # "exit"
    <3>1. \A i \in 1..Len(inbox') : inbox'[i] # "exit"
      BY <1>2, <1>7, <2>1, <2>3
    <3>2. ASSUME NEW i \in 1..Len(r), r[i] = Header("exit")
          PROVE  /\ i >= Len(r) - 1 /\ sess \in Answered
                 /\ hand["serve"] = None \/ mu["down"] = "serve"
      <4>1. i + 2 \in 1..Len(q) /\ q[i + 2] = Header("exit")
        BY <1>2, <1>5, <3>2
      <4>2. /\ i + 2 >= Len(q) - 1 /\ sess \in Answered
            /\ hand["serve"] = None \/ mu["down"] = "serve"
        BY <1>1, <4>1 DEF ExecInv, ExitLast
      <4> QED
        BY <1>2, <1>5, <3>2, <4>2
    <3> QED
      BY <1>1, <1>4, <3>1, <3>2 DEF ExitLast
  <2> QED
    BY <2>2, <2>3
<1>10. Conserved'
  <2> SUFFICES ASSUME NEW s \in Streams PROVE wrote[s] = got[s] + OnItsWay(s)'
    BY <1>1 DEF Conserved
  <2>1. q[2] # Header(s)
    BY <1>4 DEF Header
  <2>2. Count(q, Header(s)) = Count(r, Header(s))
                                + (IF q[1] = Header(s) THEN 1 ELSE 0)
    BY <1>2, <1>4, <2>1, CountRead
  <2>3. Count(inbox', s) = Count(inbox, s) + (IF f = s THEN 1 ELSE 0)
    BY <1>1, <1>2, <1>6, CountAppend
  <2>4. q[1] = Header(s) <=> f = s
    BY <1>6 DEF Header
  <2>5. wrote[s] = got[s] + OnItsWay(s)
    BY <1>1 DEF ExecInv, Conserved
  <2>6. Count(r, Header(s)) \in Nat
    BY <1>5, PlacesFinite
  <2>7. /\ Count(inbox, s) + Count(q, Header(s))
             = Count(inbox', s) + Count(wire'["down"], Header(s))
    <3>1. /\ wire'["down"] = r
          /\ Count(inbox, s) \in Nat
      BY <1>4, DownTypes
    <3>2. CASE f = s
      BY <2>2, <2>3, <2>4, <2>6, <3>1, <3>2
    <3>3. CASE f # s
      BY <2>2, <2>3, <2>4, <2>6, <3>1, <3>3
    <3> QED
      BY <3>2, <3>3
  <2> QED
    BY <1>1, <2>5, <2>7 DEF OnItsWay, Held
<1> QED
  BY <1>1, <1>8, <1>9, <1>10 DEF Stream

\* The client prints a chunk.
LEMMA ShowStep ==
    ASSUME ExecInv, NEW s \in Streams, Show(s) PROVE Stream'
<1> DEFINE t == Tail(inbox)
<1>1. /\ client = "loop" /\ inbox # <<>> /\ inbox[1] = s /\ inbox' = t
      /\ got' = [got EXCEPT ![s] = got[s] + 1]
      /\ UNCHANGED <<client, hand, wire, mu, sess, sout, wrote>>
  BY DEF Show, session, command
<1>2. /\ inbox \in Seq(Frames) /\ Len(inbox) \in Nat /\ got \in [Streams -> Nat]
  BY DownTypes DEF ExecInv, Types, ClientTypes
<1>3. /\ t \in Seq(Frames) /\ Len(t) = Len(inbox) - 1
      /\ \A i \in 1..Len(t) : t[i] = inbox[i + 1]
  BY <1>1, <1>2
<1>4. (client = "loop" => Framed(wire["down"]))'
  BY <1>1 DEF ExecInv, Framed
<1>5. ExitLast'
  <2>1. ASSUME NEW i \in 1..Len(t), t[i] = "exit"
        PROVE  i = Len(t) /\ wire["down"] = <<>>
               /\ sess \in Answered /\ hand["serve"] = None
    <3>1. i + 1 \in 1..Len(inbox) /\ inbox[i + 1] = "exit"
      BY <1>2, <1>3, <2>1
    <3>2. i + 1 = Len(inbox) /\ wire["down"] = <<>>
          /\ sess \in Answered /\ hand["serve"] = None
      BY <1>1, <3>1 DEF ExecInv, ExitLast
    <3>3. i \in Nat /\ i + 1 = Len(inbox)
      BY <3>2
    <3>4. i = Len(inbox) - 1
      BY <1>2, <3>3
    <3>5. i = Len(t)
      BY <1>3, <3>4, Zenon
    <3> QED
      BY <3>2, <3>5
  <2> QED
    BY <1>1, <2>1 DEF ExecInv, ExitLast
<1>6. Conserved'
  <2> SUFFICES ASSUME NEW x \in Streams PROVE wrote[x] = got'[x] + OnItsWay(x)'
    BY <1>1 DEF Conserved
  <2>1. Count(inbox, x) = Count(t, x) + (IF inbox[1] = x THEN 1 ELSE 0)
    BY <1>1, <1>2, CountTail
  <2>2. Count(t, x) \in Nat
    BY <1>3, PlacesFinite
  <2>3. wrote[x] = got[x] + Count(inbox, x) + Count(wire["down"], Header(x))
                     + Held(x) + sout[x] /\ Held(x) \in {0, 1}
    BY <1>1, Balance
  <2>4. OnItsWay(x)' = Count(t, x) + Count(wire["down"], Header(x)) + Held(x) + sout[x]
    BY <1>1 DEF OnItsWay, Held
  <2>5. /\ Count(wire["down"], Header(x)) \in Nat
        /\ got[x] \in Nat /\ sout[x] \in Nat
    BY DownTypes
  <2>6. CASE x = s
    <3>1. got'[x] = got[x] + 1 /\ Count(inbox, x) = Count(t, x) + 1
      BY <1>1, <1>2, <2>1, <2>6
    <3> QED
      BY <2>2, <2>3, <2>4, <2>5, <3>1
  <2>7. CASE x # s
    <3>1. got'[x] = got[x] /\ Count(inbox, x) = Count(t, x)
      BY <1>1, <1>2, <2>1, <2>2, <2>7
    <3> QED
      BY <2>2, <2>3, <2>4, <2>5, <3>1
  <2> QED
    BY <2>6, <2>7
<1> QED
  BY <1>4, <1>5, <1>6 DEF Stream

\* The command writes a chunk, and a copy takes one.
LEMMA OutputStep ==
    ASSUME ExecInv, NEW s \in Streams, CommandWrites(s) \/ CopyReads(s)
    PROVE  Stream'
<1>1. UNCHANGED <<client, inbox, got, live, wire, mu, sess>>
  BY DEF CommandWrites, CopyReads, up, down, session
<1>2. /\ sout \in [Streams -> 0..Window] /\ wrote \in [Streams -> 0..Output]
      /\ hand \in [Goroutines -> Frames \cup {None}]
      /\ mu \in [{"up", "down"} -> Goroutines \cup {None}]
  BY DEF ExecInv, Types, ChannelTypes, CommandTypes
<1>3. (client = "loop" => Framed(wire["down"]))'
  BY <1>1 DEF ExecInv, Framed
<1>4. ExitLast'
  <2>1. hand'["serve"] = hand["serve"]
    BY <1>2 DEF CommandWrites, CopyReads, Streams, Goroutines, Pumps, Copies
  <2> QED
    BY <1>1, <2>1 DEF ExecInv, ExitLast
<1>5. Conserved'
  <2> SUFFICES ASSUME client = "loop", NEW x \in Streams
               PROVE wrote'[x] = got[x] + OnItsWay(x)'
    BY <1>1 DEF Conserved
  <2>1. wrote[x] = got[x] + Count(inbox, x) + Count(wire["down"], Header(x))
                     + Held(x) + sout[x] /\ Held(x) \in {0, 1}
    BY Balance
  <2>2. OnItsWay(x)' = Count(inbox, x) + Count(wire["down"], Header(x))
                          + Held(x)' + sout'[x]
    BY <1>1 DEF OnItsWay, Held
  <2>3. wrote'[x] - wrote[x] = (Held(x)' - Held(x)) + (sout'[x] - sout[x])
        /\ Held(x)' \in {0, 1} /\ sout'[x] \in Int /\ wrote'[x] \in Int
    <3>0. Held(x)' \in {0, 1} /\ sout[x] \in Nat /\ wrote[x] \in Nat
      BY DownTypes DEF Held
    <3>1. CASE CommandWrites(s)
      <4>1. /\ wrote' = [wrote EXCEPT ![s] = wrote[s] + 1]
            /\ sout' = [sout EXCEPT ![s] = sout[s] + 1] /\ hand' = hand
        BY <3>1 DEF CommandWrites
      <4>2. Held(x)' = Held(x)
        BY <1>1, <4>1 DEF Held
      <4>3. CASE x = s
        BY <1>2, <2>1, <3>0, <4>1, <4>2, <4>3
      <4>4. CASE x # s
        BY <1>2, <2>1, <3>0, <4>1, <4>2, <4>4
      <4> QED
        BY <4>3, <4>4
    <3>2. CASE CopyReads(s)
      <4>1. /\ hand[s] = None /\ wrote' = wrote
            /\ sout' = [sout EXCEPT ![s] = sout[s] - 1]
            /\ hand' = [hand EXCEPT ![s] = s]
        BY <3>2 DEF CopyReads, command
      <4>2. mu["down"] # s /\ s \in Goroutines /\ s # None
        BY <4>1, ExecAssumption DEF ExecInv, Locks, Streams, Goroutines, Copies
      <4>3. CASE x = s
        <5>1. Held(x) = 0 /\ Held(x)' = 1
          BY <1>1, <1>2, <4>1, <4>2, <4>3 DEF Held
        <5>2. sout'[x] = sout[x] - 1 /\ wrote'[x] = wrote[x]
          BY <1>2, <4>1, <4>3
        <5> QED
          BY <3>0, <5>1, <5>2
      <4>4. CASE x # s
        <5>1. Held(x)' = Held(x)
          BY <1>1, <1>2, <4>1, <4>4 DEF Held
        <5>2. sout'[x] = sout[x] /\ wrote'[x] = wrote[x]
          BY <1>2, <4>1, <4>4
        <5> QED
          BY <2>1, <3>0, <5>1, <5>2
      <4> QED
        BY <4>3, <4>4
    <3> QED
      BY <3>1, <3>2
  <2>4. /\ Count(inbox, x) \in Nat /\ Count(wire["down"], Header(x)) \in Nat
        /\ got[x] \in Nat /\ sout[x] \in Nat /\ wrote[x] \in Nat
    BY DownTypes
  <2>5. OnItsWay(x)' = (wrote[x] - got[x]) + (Held(x)' - Held(x))
                          + (sout'[x] - sout[x])
    BY <2>1, <2>2, <2>3, <2>4
  <2>6. OnItsWay(x)' = wrote'[x] - got[x]
    BY <2>1, <2>3, <2>4, <2>5
  <2> QED
    BY <2>3, <2>4, <2>6
<1> QED
  BY <1>3, <1>4, <1>5 DEF Stream

\* The exit frame is about to be written.
LEMMA AnswerStep == ExecInv /\ (StartError \/ FinishSession) => Stream'
<1> SUFFICES ASSUME ExecInv, StartError \/ FinishSession PROVE Stream'
  OBVIOUS
<1>1. /\ sess \notin Answered /\ sess' \in Answered
      /\ hand' = [hand EXCEPT !["serve"] = "exit"]
      /\ UNCHANGED <<client, inbox, got, sout, wrote, wire, mu>>
  BY DEF StartError, FinishSession, Answer, Answered, up, down, command
<1>2. hand'["out"] = hand["out"] /\ hand'["err"] = hand["err"]
  BY <1>1 DEF ExecInv, Types, ChannelTypes
<1>3. (client = "loop" => Framed(wire["down"]))'
  BY <1>1 DEF ExecInv, Framed
<1>4. ExitLast'
  BY <1>1 DEF ExecInv, ExitLast
<1>5. Conserved'
  BY <1>1, <1>2 DEF ExecInv, Conserved, OnItsWay, Held, Streams
<1> QED
  BY <1>3, <1>4, <1>5 DEF Stream

LEMMA StreamStep == ExecInv /\ [Next]_vars => Stream'
<1> SUFFICES ASSUME ExecInv, [Next]_vars PROVE Stream'
  OBVIOUS
<1> USE DEF up, down, session, command
<1>0. client' # "loop" => Stream'
  BY DEF Stream, ExitLast, Conserved
<1>t. /\ hand \in [Goroutines -> Frames \cup {None}]
      /\ wire \in [{"up", "down"} -> Seq(Parts)]
      /\ mu \in [{"up", "down"} -> Goroutines \cup {None}]
  BY DEF ExecInv, Types, ChannelTypes
<1>1. ASSUME NEW g \in Writers, WriteHead(g) \/ WriteBody(g) PROVE Stream'
  <2>1. CASE g \in Pumps
    <3>1. Dir(g) = "up"
      BY <2>1 DEF Dir
    <3>2. /\ UNCHANGED <<client, inbox, got, sout, wrote, sess>>
          /\ wire'["down"] = wire["down"] /\ mu'["down"] = mu["down"]
      BY <1>1, <1>t, <3>1 DEF WriteHead, WriteBody, Put
    <3>3. UNCHANGED <<hand["out"], hand["err"], hand["serve"]>>
      BY <1>1, <1>t, <2>1 DEF WriteHead, WriteBody, Goroutines, Pumps, Copies
    <3> QED
      BY <3>2, <3>3, StreamKept
  <2>2. CASE g \notin Pumps
    BY <1>1, <2>2, HeadStep, BodyStep DEF Writers, Goroutines
  <2> QED
    BY <2>1, <2>2
<1>2. ASSUME NEW g \in Writers, WriteFails(g) PROVE Stream'
  BY <1>0, <1>2 DEF WriteFails
<1>3. CASE ReadStdin \/ UserSignals \/ ForwardSignal
  <2>1. UNCHANGED <<client, inbox, got, sout, wrote, sess, wire, mu>>
    BY <1>3 DEF ReadStdin, UserSignals, ForwardSignal
  <2>2. UNCHANGED <<hand["out"], hand["err"], hand["serve"]>>
    BY <1>3, <1>t DEF ReadStdin, UserSignals, ForwardSignal, Goroutines, Pumps, Copies
  <2> QED
    BY <2>1, <2>2, StreamKept
<1>4. CASE Receive
  BY <1>4, ReceiveStep
<1>5. ASSUME NEW s \in Streams, Show(s) PROVE Stream'
  BY <1>5, ShowStep
<1>6. CASE Exited \/ IdleExpires \/ KillClient
  <2>1. client' \in {code, "error"}
    BY <1>6 DEF Exited, IdleExpires, KillClient, Return
  <2> QED
    BY <1>0, <2>1 DEF ExecInv, Types, DaemonTypes, Codes
<1>7. CASE OpenSession \/ StartCommand
  BY <1>7, StreamKept DEF OpenSession, StartCommand, Answered
<1>8. CASE StartError \/ FinishSession
  BY <1>8, AnswerStep
<1>9. CASE CloseConn
  <2>1. CASE client = "loop"
    <3>1. UNCHANGED <<client, inbox, got, sout, wrote, hand, mu>>
          /\ wire'["down"] = wire["down"] /\ sess' \in Answered
      BY <1>9, <1>t, <2>1 DEF CloseConn, Answered
    <3> QED
      BY <3>1, StreamKept
  <2>2. CASE client # "loop"
    BY <1>0, <1>9, <2>2 DEF CloseConn
  <2> QED
    BY <2>1, <2>2
<1>10. CASE BridgeReads
  BY <1>10, <1>t, StreamKept DEF BridgeReads, Read
<1>11. CASE BridgePasses \/ BridgeEnds
  <2>1. UNCHANGED <<client, inbox, got, sout, wrote, sess, wire, mu>>
    BY <1>11 DEF BridgePasses, BridgeEnds
  <2>2. UNCHANGED <<hand["out"], hand["err"], hand["serve"]>>
    BY <1>11, <1>t DEF BridgePasses, BridgeEnds, Goroutines, Pumps, Copies
  <2> QED
    BY <2>1, <2>2, StreamKept
<1>12. ASSUME NEW s \in Streams, Copy(s) PROVE Stream'
  <2>1. CASE CopyReads(s)
    BY <2>1, OutputStep
  <2>2. CASE CopyEnds(s)
    BY <2>2, StreamKept DEF CopyEnds
  <2> QED
    BY <1>12, <2>1, <2>2 DEF Copy
<1>13. ASSUME NEW s \in Streams, CommandWrites(s) PROVE Stream'
  BY <1>13, OutputStep
<1>14. CASE CommandReads \/ CommandEnds \/ Lose
  BY <1>14, StreamKept DEF CommandReads, CommandEnds, Lose
<1>15. CASE UNCHANGED vars
  BY <1>15, StreamKept DEF vars
<1> QED
  BY <1>1, <1>2, <1>3, <1>4, <1>5, <1>6, <1>7, <1>8, <1>9, <1>10, <1>11, <1>12, <1>13,
     <1>14, <1>15
     DEF Next, Scheduled, Client, Write, Bridge, Serve, Command

\* The code is read from the exit frame, behind which nothing is on its way.
LEMMA ReportedStep == ExecInv /\ [Next]_vars => Reported'
<1> SUFFICES ASSUME ExecInv, [Next]_vars PROVE Reported'
  OBVIOUS
<1> USE DEF up, down, session, command
<1>1. \A s \in Streams : got[s] \in Nat /\ wrote[s] \in Nat /\ got[s] <= wrote[s]
  BY DownTypes DEF ExecInv, Reported
<1>2. CASE Exited
  <2>1. /\ client = "loop" /\ inbox # <<>> /\ inbox[1] = "exit" /\ client' = code
        /\ UNCHANGED <<got, sess, code, wrote>>
    BY <1>2 DEF Exited, Return
  <2>2. /\ Len(inbox) = 1 /\ wire["down"] = <<>>
        /\ sess \in Answered /\ hand["serve"] = None
    <3>1. 1 \in 1..Len(inbox)
      BY <2>1, DownTypes, EmptySeq
    <3> QED
      BY <2>1, <3>1 DEF ExecInv, ExitLast
  <2>3. ASSUME NEW s \in Streams PROVE got[s] = wrote[s]
    <3>1. Count(inbox, s) = 0
      <4>1. \A i \in 1..Len(inbox) : inbox[i] # s
        BY <2>1, <2>2 DEF Streams
      <4> QED
        BY <4>1, CountNone
    <3>2. Count(wire["down"], Header(s)) = 0
      <4>1. \A i \in 1..Len(wire["down"]) : wire["down"][i] # Header(s)
        BY <2>2, EmptySeq
      <4> QED
        BY <4>1, CountNone
    <3>3. s \notin live /\ hand[s] # s /\ sout[s] = 0
      BY <2>1, <2>2, ExecAssumption
         DEF ExecInv, Sessions, CopiesEnd, Hands, Answered, Streams, Copies, Goroutines
    <3>4. Held(s) = 0
      BY <3>3 DEF Held
    <3>5. wrote[s] = got[s] + Count(inbox, s) + Count(wire["down"], Header(s))
                       + Held(s) + sout[s]
      BY <2>1, Balance
    <3> QED
      BY <1>1, <3>1, <3>2, <3>3, <3>4, <3>5
  <2>4. got = wrote
    BY <2>3 DEF ExecInv, Types, ClientTypes, CommandTypes
  <2> QED
    BY <1>1, <2>1, <2>2, <2>4 DEF Reported
<1>3. ASSUME NEW s \in Streams, Show(s) PROVE Reported'
  <2>1. client = "loop" /\ client' = "loop" /\ wrote' = wrote
    BY <1>3 DEF Show
  <2>2. \A x \in Streams : got'[x] <= wrote'[x]
    <3>1. inbox' \in Seq(Frames) /\ wire' \in [{"up", "down"} -> Seq(Parts)]
          /\ got' \in [Streams -> Nat] /\ sout' \in [Streams -> 0..Window]
          /\ wrote' \in [Streams -> 0..Output]
      BY TypesStep DEF Types, ClientTypes, ChannelTypes, CommandTypes
    <3>2. \A x \in Streams : wrote'[x] = got'[x] + OnItsWay(x)'
      BY <2>1, StreamStep DEF Stream, Conserved
    <3>3. \A x \in Streams : Count(inbox', x) \in Nat
                             /\ Count(wire'["down"], Header(x)) \in Nat
      BY <3>1, PlacesFinite
    <3>4. ASSUME NEW x \in Streams PROVE OnItsWay(x)' \in Nat
      <4>1. Held(x)' \in Nat /\ sout'[x] \in Nat
        BY <3>1, ExecAssumption DEF Held
      <4> QED
        BY <3>3, <4>1 DEF OnItsWay
    <3> QED
      BY <2>1, <3>1, <3>2, <3>4, <1>1
  <2> QED
    BY <2>1, <2>2 DEF Reported, Codes
<1>4. ASSUME NEW s \in Streams, CommandWrites(s) PROVE Reported'
  <2>1. sess \notin Answered
    BY <1>4 DEF ExecInv, Sessions, CommandWrites, Running, Gone, CommandKinds, Codes
  <2>2. client \notin Codes
    BY <2>1 DEF ExecInv, Reported
  <2>3. UNCHANGED <<client, got>> /\ \A x \in Streams : wrote'[x] >= wrote[x]
    BY <1>1, <1>4 DEF CommandWrites, ExecInv, Types, CommandTypes
  <2>4. \A x \in Streams : wrote'[x] \in Nat
    BY TypesStep, ExecAssumption DEF Types, CommandTypes
  <2> QED
    BY <1>1, <2>2, <2>3, <2>4 DEF Reported
<1>5. CASE /\ UNCHANGED <<got, wrote>>
           /\ client' = client \/ client' = "error"
           /\ sess \in Answered => sess' \in Answered /\ code' = code
  BY <1>5 DEF ExecInv, Reported, Codes
<1>6. CASE IdleExpires \/ KillClient
  BY <1>5, <1>6 DEF IdleExpires, KillClient, Return
<1>7. ASSUME NEW g \in Writers, Write(g) PROVE Reported'
  BY <1>5, <1>7 DEF Write, WriteHead, WriteBody, WriteFails
<1>8. CASE ReadStdin \/ UserSignals \/ ForwardSignal \/ Receive
  BY <1>5, <1>8 DEF ReadStdin, UserSignals, ForwardSignal, Receive
<1>9. CASE Serve
  BY <1>5, <1>9 DEF Serve, OpenSession, StartCommand, StartError, FinishSession,
                    CloseConn, Answer, Answered
<1>10. CASE Bridge
  BY <1>5, <1>10 DEF Bridge, BridgeReads, BridgePasses, BridgeEnds
<1>11. ASSUME NEW s \in Streams, Copy(s) PROVE Reported'
  BY <1>5, <1>11 DEF Copy, CopyReads, CopyEnds
<1>12. CASE CommandReads \/ CommandEnds \/ Lose
  BY <1>5, <1>12 DEF CommandReads, CommandEnds, Lose
<1>13. CASE UNCHANGED vars
  BY <1>5, <1>13 DEF vars
<1> QED
  BY <1>2, <1>3, <1>4, <1>6, <1>7, <1>8, <1>9, <1>10, <1>11, <1>12, <1>13
     DEF Next, Scheduled, Client, Command

LEMMA ExecInvariant == Spec => []ExecInv
<1>1. ExecInv /\ [Next]_vars => ExecInv'
  BY TypesStep, SessionStep, StreamStep, ReportedStep DEF ExecInv, Stream
<1> QED
  BY InitExec, <1>1, PTL DEF Spec

----------------------------------------------------------------------------
(* What follows.                                                            *)

\* Nothing outgrows the socket, the SSH window or the client's channel, and no more
\* is printed than was written (holdclient.go:226-316, hold.go:523-585).
THEOREM TypeCorrect == Spec => []TypeOK
<1>1. ExecInv => TypeOK
  <2> SUFFICES ASSUME ExecInv PROVE TypeOK
    OBVIOUS
  <2>1. got \in [Streams -> 0..Output]
    BY ExecAssumption DEF ExecInv, Types, ClientTypes, CommandTypes, Reported
  <2> QED
    BY <2>1 DEF ExecInv, Types, ClientTypes, ChannelTypes, DaemonTypes, CommandTypes,
                Answered, TypeOK
<1> QED
  BY ExecInvariant, <1>1, PTL

\* When the exit code is reported, everything the command wrote has been printed,
\* whatever the sizes of the socket and of the window and however the goroutines
\* interleave (hold.go:523-585, holdclient.go:226-316).
THEOREM PrintsAll == Spec => []OutputComplete
<1>1. ExecInv => OutputComplete
  BY DEF ExecInv, Reported, OutputComplete
<1> QED
  BY ExecInvariant, <1>1, PTL

\* The code that is reported is the command's, where the connection is not lost
\* before the answer to the exec request (hold.go:523-585, exec.go:170-199).
THEOREM ReportsItsCode == "early_loss" \notin Faults => (Spec => []CodeHonest)
<1> SUFFICES ASSUME "early_loss" \notin Faults PROVE Spec => []CodeHonest
  OBVIOUS
<1>1. ExecInv => CodeHonest
  BY DEF ExecInv, Reported, Sessions, CodeHonest
<1> QED
  BY ExecInvariant, <1>1, PTL

\* Where it may be, a code that is not the command's is reported only for a command
\* that never ran.
THEOREM ReportsOrNeverRan ==
    Spec => [](client \in Codes => remote \in {client, "none"})
<1>1. ExecInv => (client \in Codes => remote \in {client, "none"})
  BY DEF ExecInv, Reported, Sessions
<1> QED
  BY ExecInvariant, <1>1, PTL

=============================================================================
