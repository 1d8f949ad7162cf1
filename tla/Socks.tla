------------------------------- MODULE Socks -------------------------------
(***************************************************************************)
(* One connection of the SOCKS5 server of tn proxy: internal/socks/socks5.go. *)
(*                                                                         *)
(* A client on the remote talks to a handler on the local machine, over TCP  *)
(* in tests and over a forwarded SSH channel in tn proxy; the handler talks  *)
(* to the target.  Bytes are counted in chunks, the copied ones on arrival.  *)
(***************************************************************************)
EXTENDS Naturals

CONSTANTS
    Request,   \* chunks the client sends once it is connected
    Response   \* chunks the target sends, in answer to it or not

ASSUME SocksAssumption == Request \in Nat /\ Response \in Nat

VARIABLES
    over,      \* "tcp", or "channel": a channel has no deadlines
    habit,     \* what the client does when it has sent its request
    keeps,     \* the target keeps its connection after the response
    hs,        \* where handle is
    armed,     \* the deadline of the handshake is set
    said,      \* what the client has said of the handshake
    client,    \* the client's end of its connection
    target,    \* the target's end
    reply,     \* the reply the client got
    up,        \* the copy to the target: chunks sent, chunks arrived
    down,      \* the copy to the client
    copying,   \* the copies that have not ended
    nudged     \* read deadlines that pipe has set: "client", "target"

kind == <<over, habit, keeps>>
ends == <<client, target, said>>
vars == <<kind, hs, armed, ends, reply, up, down, copying, nudged>>

\* counts  it closes when it has the response
\* half    it closes its sending side, and reads until the end
\* eof     it reads until the end
Habits == {"counts", "half", "eof"}

\* closed  it has closed its connection
\* reset   a chunk was written to it since, which it answers with a reset
Ended == {"closed", "reset"}

Counter(n) == [sent : 0..n, got : 0..n]

TypeOK ==
    /\ over \in {"tcp", "channel"} /\ habit \in Habits /\ keeps \in BOOLEAN
    /\ hs \in {"greet", "request", "dial", "reply", "pipe", "done"}
    /\ armed \in BOOLEAN
    /\ said \in {"nothing", "greeting", "connect", "other"}
    /\ client \in {"open", "half", "closed"}
    /\ target \in {"none", "open"} \cup Ended
    /\ reply \in {"none", "ok", "refused"}
    /\ up \in Counter(Request) /\ up.got <= up.sent
    /\ down \in Counter(Response) /\ down.got <= down.sent
    /\ copying \subseteq {"up", "down"}
    /\ nudged \subseteq {"client", "target"}

Init ==
    /\ over \in {"tcp", "channel"} /\ habit \in Habits /\ keeps \in BOOLEAN
    /\ hs = "greet" /\ armed = (over = "tcp")
    /\ said = "nothing" /\ client = "open" /\ target = "none"
    /\ reply = "none"
    /\ up = [sent |-> 0, got |-> 0] /\ down = [sent |-> 0, got |-> 0]
    /\ copying = {} /\ nudged = {}

----------------------------------------------------------------------------
(* handle.                                                                 *)

\* It returns: both connections are closed.
Return ==
    /\ hs' = "done"
    /\ target' = IF target = "open" THEN "closed" ELSE target
    /\ UNCHANGED <<kind, armed, client, said, up, down, copying, nudged>>

Greet ==
    /\ hs = "greet" /\ said # "nothing"
    /\ hs' = "request"
    /\ UNCHANGED <<kind, armed, ends, reply, up, down, copying, nudged>>

\* A command or an address type there is no support for.
Unsupported ==
    /\ hs = "request" /\ said = "other"
    /\ reply' = "refused"
    /\ Return

\* Mutant of ReadRequest: the deadline stays.
ReadRequestArmed ==
    /\ hs = "request" /\ said = "connect"
    /\ hs' = "dial"
    /\ UNCHANGED <<kind, armed, ends, reply, up, down, copying, nudged>>

ReadRequest ==
    /\ hs = "request" /\ said = "connect"
    /\ hs' = "dial" /\ armed' = FALSE
    /\ UNCHANGED <<kind, ends, reply, up, down, copying, nudged>>

\* The client hangs up, or says nothing for 15s on TCP.
HandshakeFails ==
    /\ hs \in {"greet", "request"}
    /\ client = "closed" \/ armed
    /\ UNCHANGED reply
    /\ Return

DialFails ==
    /\ hs = "dial"
    /\ reply' = "refused"
    /\ Return

DialTarget ==
    /\ hs = "dial"
    /\ hs' = "reply" /\ target' = "open"
    /\ UNCHANGED <<kind, armed, client, said, reply, up, down, copying, nudged>>

\* The reply, then pipe; a client that is gone fails it.
Reply ==
    /\ hs = "reply"
    /\ IF client = "closed" THEN Return /\ UNCHANGED reply
       ELSE /\ reply' = "ok" /\ hs' = "pipe" /\ copying' = {"up", "down"}
            /\ UNCHANGED <<kind, armed, ends, up, down, nudged>>

\* io.Copy(b, a): a chunk from the client to the target.  A target that has
\* closed may still be written to, once ...
CopyUp ==
    /\ "up" \in copying /\ "client" \notin nudged
    /\ up.got < up.sent /\ target # "reset"
    /\ up' = [up EXCEPT !.got = @ + 1]
    /\ target' = IF target = "closed" THEN "reset" ELSE target
    /\ UNCHANGED <<kind, hs, armed, client, said, reply, down, copying, nudged>>

\* Mutant of CopyUpEnds: the other copy is left waiting.
CopyUpEndsAlone ==
    /\ "up" \in copying
    /\ \/ client # "open" /\ up.got = up.sent
       \/ target \in Ended /\ up.got < up.sent
       \/ "client" \in nudged \/ armed
    /\ copying' = copying \ {"up"}
    /\ UNCHANGED <<kind, hs, armed, ends, reply, up, down, nudged>>

\* ... until the client's end, a failed write, or a deadline.  Then the target
\* gets a read deadline, so that the other copy ends.
CopyUpEnds ==
    /\ "up" \in copying
    /\ \/ client # "open" /\ up.got = up.sent
       \/ target \in Ended /\ up.got < up.sent
       \/ "client" \in nudged \/ armed
    /\ copying' = copying \ {"up"}
    /\ nudged' = nudged \cup {"target"}
    /\ UNCHANGED <<kind, hs, armed, ends, reply, up, down>>

\* io.Copy(a, b), with the same end; a reset may come before what is not read
\* yet.  A channel takes no read deadline.
CopyDown ==
    /\ "down" \in copying /\ "target" \notin nudged
    /\ down.got < down.sent /\ client # "closed"
    /\ down' = [down EXCEPT !.got = @ + 1]
    /\ UNCHANGED <<kind, hs, armed, ends, reply, up, copying, nudged>>

CopyDownEnds ==
    /\ "down" \in copying
    /\ \/ target = "closed" /\ down.got = down.sent
       \/ target = "reset"
       \/ client = "closed" /\ down.got < down.sent
       \/ "target" \in nudged \/ armed
    /\ copying' = copying \ {"down"}
    /\ nudged' = IF over = "tcp" THEN nudged \cup {"client"} ELSE nudged
    /\ UNCHANGED <<kind, hs, armed, ends, reply, up, down>>

PipeReturns ==
    /\ hs = "pipe" /\ copying = {}
    /\ UNCHANGED reply
    /\ Return

Handle ==
    \/ Greet \/ Unsupported \/ ReadRequest \/ HandshakeFails \/ DialFails
    \/ DialTarget \/ Reply \/ CopyUp \/ CopyUpEnds \/ CopyDown \/ CopyDownEnds
    \/ PipeReturns

----------------------------------------------------------------------------
(* The client and the target.                                              *)

Say ==
    /\ client = "open" /\ hs # "done"
    /\ \/ said = "nothing" /\ said' = "greeting"
       \/ said = "greeting" /\ hs # "greet" /\ said' \in {"connect", "other"}
    /\ UNCHANGED <<kind, hs, armed, client, target, reply, up, down, copying,
                   nudged>>

SendRequest ==
    /\ client = "open" /\ reply = "ok" /\ hs = "pipe"
    /\ up.sent < Request
    /\ up' = [up EXCEPT !.sent = @ + 1]
    /\ UNCHANGED <<kind, hs, armed, ends, reply, down, copying, nudged>>

\* It hangs up at any moment, closes its sending side, or closes when it is done.
ClientCloses ==
    /\ client # "closed"
    /\ client' \in {"half", "closed"} \ {client}
    /\ client' = "half" => habit = "half" /\ reply = "ok" /\ up.sent = Request
    /\ UNCHANGED <<kind, hs, armed, target, said, reply, up, down, copying, nudged>>

ClientIsDone ==
    \/ habit = "counts" /\ down.got = Response
    \/ habit = "half" /\ up.sent = Request /\ client = "open"

\* It answers and closes when it likes, the request read or not.
TargetAnswers ==
    /\ target = "open" /\ hs = "pipe"
    /\ down.sent < Response
    /\ down' = [down EXCEPT !.sent = @ + 1]
    /\ UNCHANGED <<kind, hs, armed, ends, reply, up, copying, nudged>>

TargetCloses ==
    /\ target = "open" /\ hs = "pipe"
    /\ ~keeps /\ down.sent = Response
    /\ target' = "closed"
    /\ UNCHANGED <<kind, hs, armed, client, said, reply, up, down, copying, nudged>>

Next ==
    Handle \/ Say \/ SendRequest \/ ClientCloses \/ TargetAnswers \/ TargetCloses

Spec == Init /\ [][Next]_vars

\* The handler is scheduled, a target does what it does.  A client may say
\* nothing, but closes when it is done.  Every action consumes something, so
\* that fairness of all together is fairness of each.
Fairness ==
    WF_vars(Handle \/ TargetAnswers \/ TargetCloses
              \/ (reply = "ok" /\ SendRequest) \/ (ClientIsDone /\ ClientCloses))

FairSpec == Spec /\ Fairness

----------------------------------------------------------------------------
(* Properties.                                                             *)

\* A client that keeps its sending side open is not cut off: when the handler
\* has closed the connection of one that still listens, the response is there;
\* unless the target closed while some of the request was on its way: writing
\* that fails or draws a reset, and either ends the copy of the response.
ResponseWhole ==
    hs = "done" /\ reply = "ok" /\ client = "open"
        => down.got = Response \/ up.got < up.sent \/ target = "reset"

\* "Nudge the other side's Copy to return": a client that closes ends both
\* copies and the handler, though the target keeps its connection.  Where the
\* client's connection takes a deadline, so does a target, and a client that
\* says nothing is given up.
HandlerEnds ==
    (\/ hs = "pipe" /\ client # "open"
     \/ over = "tcp" /\ hs = "pipe" /\ target \in Ended
     \/ over = "tcp" /\ hs \in {"greet", "request"}) ~> (hs \in {"reply", "done"})

=============================================================================
