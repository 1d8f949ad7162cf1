----------------------------- MODULE SocksProofs -----------------------------
(* Proofs about Socks, for a request and a response of any length.           *)
EXTENDS Socks, TLAPS

\* pipe runs once the deadline of the handshake is gone and the client has its
\* reply; before, nothing is copied and the target has not closed.
Order ==
    /\ hs \notin {"greet", "request", "done"} => ~armed
    /\ reply = "ok" => hs \in {"pipe", "done"}
    /\ hs \notin {"pipe", "done"} => target \notin Ended /\ nudged = {}
    /\ hs # "pipe" => copying = {}

\* A target closes after the whole response.
Answered == hs = "pipe" /\ target \in Ended => down.sent = Response

\* Each copy nudges the other's connection when it ends itself.  While the
\* client keeps its sending side open, none ends before the response is there,
\* but by writing to a target that has closed.
Ends ==
    hs = "pipe" =>
        /\ "target" \in nudged => "up" \notin copying
        /\ "client" \in nudged => "down" \notin copying
        /\ client = "open" /\ "up" \in copying /\ "down" \notin copying
              => down.got = Response \/ target = "reset"
        /\ client = "open" /\ "up" \notin copying
              => down.got = Response \/ up.got < up.sent \/ target = "reset"

PipeInv == TypeOK /\ Order /\ Answered /\ Ends /\ ResponseWhole

LEMMA PipeStep == PipeInv /\ [Next]_vars => PipeInv'
<1> SUFFICES ASSUME PipeInv, [Next]_vars PROVE PipeInv'
  OBVIOUS
<1> USE SocksAssumption DEF PipeInv, TypeOK, Order, Answered, Ends,
        ResponseWhole, Counter, Ended, kind, ends
<1>1. CASE Greet \/ ReadRequest \/ DialTarget
  <2>1. CASE Greet
    BY <2>1 DEF Greet
  <2>2. CASE ReadRequest
    BY <2>2 DEF ReadRequest
  <2>3. CASE DialTarget
    BY <2>3 DEF DialTarget
  <2> QED
    BY <1>1, <2>1, <2>2, <2>3
<1>2. CASE Unsupported \/ HandshakeFails \/ DialFails
  <2>1. CASE Unsupported
    BY <2>1 DEF Unsupported, Return
  <2>2. CASE HandshakeFails
    BY <2>2 DEF HandshakeFails, Return
  <2>3. CASE DialFails
    BY <2>3 DEF DialFails, Return
  <2> QED
    BY <1>2, <2>1, <2>2, <2>3
<1>3. CASE Reply
  <2>1. CASE client = "closed"
    BY <1>3, <2>1 DEF Reply, Return
  <2>2. CASE client # "closed"
    BY <1>3, <2>2 DEF Reply
  <2> QED
    BY <2>1, <2>2
<1>4. CASE PipeReturns
  BY <1>4 DEF PipeReturns, Return
<1>5. CASE CopyUp
  <2>1. CASE target = "closed"
    BY <1>5, <2>1 DEF CopyUp
  <2>2. CASE target # "closed"
    BY <1>5, <2>2 DEF CopyUp
  <2> QED
    BY <2>1, <2>2
<1>6. CASE CopyUpEnds
  BY <1>6 DEF CopyUpEnds
<1>7. CASE CopyDown
  BY <1>7 DEF CopyDown
<1>8. CASE CopyDownEnds
  BY <1>8 DEF CopyDownEnds
<1>9. CASE Say \/ SendRequest
  BY <1>9 DEF Say, SendRequest
<1>10. CASE ClientCloses
  BY <1>10 DEF ClientCloses, Habits
<1>11. CASE TargetAnswers \/ TargetCloses
  BY <1>11 DEF TargetAnswers, TargetCloses
<1>12. CASE UNCHANGED vars
  BY <1>12 DEF vars
<1> QED
  BY <1>1, <1>2, <1>3, <1>4, <1>5, <1>6, <1>7, <1>8, <1>9, <1>10, <1>11, <1>12
     DEF Next, Handle

LEMMA PipeInvariant == Spec => []PipeInv
<1>1. Init => PipeInv
  BY SocksAssumption
     DEF Init, PipeInv, TypeOK, Order, Answered, Ends, ResponseWhole, Counter,
         Ended
<1> QED
  BY <1>1, PipeStep, PTL DEF Spec

\* No copy counts more than was sent to it (socks5.go:157-170).
THEOREM TypeCorrect == Spec => []TypeOK
<1>1. PipeInv => TypeOK
  BY DEF PipeInv
<1> QED
  BY PipeInvariant, <1>1, PTL

\* Whatever closes first, nudges, or is slow: a client that keeps its sending side
\* open gets the whole response before the handler ends, unless something of its
\* request met a target that had closed (socks5.go:157-168).
THEOREM WholeResponse == Spec => []ResponseWhole
<1>1. PipeInv => ResponseWhole
  BY DEF PipeInv
<1> QED
  BY PipeInvariant, <1>1, PTL

=============================================================================
