-------------------------------- MODULE Dial --------------------------------
(***************************************************************************)
(* Connections: Dial and Client.Close of internal/sshx/client.go, the host *)
(* key callback of known.go, and the probes of internal/cli/doctor.go.     *)
(*                                                                         *)
(* Every run of Dial is a process: runs of several commands, and the        *)
(* parallel probes of one doctor, share known_hosts and nothing else, for   *)
(* each has its own callback and its own mutex.  No deadline covers a       *)
(* handshake: a server is taken to answer or to close.                      *)
(***************************************************************************)
EXTENDS Naturals, FiniteSets

CONSTANTS
    Calls,     \* runs of Dial
    Hosts,     \* addresses
    Jump,      \* for each run, the jump host, or None
    Target,    \* and the target
    Policy,    \* for each run, what to do with an unknown host
    Probes,    \* the runs of one doctor
    Parallel,  \* doctor's --parallel
    Rekeys,    \* bound on host keys that change
    None       \* no host

Policies == {"tofu", "strict", "insecure", "accept-new"}

ASSUME DialAssumption ==
    /\ IsFiniteSet(Calls)
    /\ Jump \in [Calls -> Hosts \cup {None}] /\ None \notin Hosts
    /\ Target \in [Calls -> Hosts]
    /\ Policy \in [Calls -> Policies]
    /\ Probes \subseteq Calls
    /\ Parallel \in Nat \ {0}
    /\ Rekeys \in Nat

VARIABLES
    keys,    \* the key each host has
    known,   \* the keys known_hosts pins for it
    hop,     \* the hop each run is at
    step,    \* and its step there
    conns,   \* the hops it has a connection to
    seen,    \* the key each hop has shown
    found    \* history: the keys pinned for the hop when it was checked

hosts == <<keys, known>>
dialing == <<hop, step, conns, seen, found>>
dialVars == <<hosts, dialing>>

Hops == {"jump", "target"}
Keys == 1..(Rekeys + 1)
Handshake == {"check", "pin", "login"}
Steps == {"new", "auth", "tcp", "up", "merge", "close", "ended"} \cup Handshake

Probing(c) == c \in Probes /\ step[c] \notin {"new", "ended"}

DialTypeOK ==
    /\ keys \in [Hosts -> Keys]
    /\ known \in [Hosts -> SUBSET Keys]
    /\ hop \in [Calls -> Hops]
    /\ step \in [Calls -> Steps]
    /\ conns \in [Calls -> SUBSET Hops]
    /\ seen \in [Calls -> [Hops -> Keys \cup {0}]]
    /\ found \in [Calls -> [Hops -> SUBSET Keys]]
    /\ Cardinality({c \in Calls : Probing(c)}) <= Parallel

ViaJump(c) == Jump[c] # None
At(c, p) == IF p = "jump" THEN Jump[c] ELSE Target[c]
Host(c) == At(c, hop[c])
FirstHop(c) == IF ViaJump(c) THEN "jump" ELSE "target"
NoKeys == [p \in Hops |-> 0]
NonePinned == [p \in Hops |-> {}]

DialInit ==
    /\ keys = [h \in Hosts |-> 1]
    /\ known \in [Hosts -> {{}, {1}}]
    /\ hop = [c \in Calls |-> FirstHop(c)]
    /\ step = [c \in Calls |-> "new"]
    /\ conns = [c \in Calls |-> {}]
    /\ seen = [c \in Calls |-> NoKeys]
    /\ found = [c \in Calls |-> NonePinned]

Goto(c, from, to) == step[c] = from /\ step' = [step EXCEPT ![c] = to]

----------------------------------------------------------------------------
(* Dial.                                                                   *)

Slot == Cardinality({c \in Calls : Probing(c)}) < Parallel

\* Mutants of Begin: probes wait for nothing; one that is over keeps its slot.
BeginFree(c) ==
    /\ Goto(c, "new", IF ViaJump(c) THEN "auth" ELSE "tcp")
    /\ UNCHANGED <<hosts, hop, conns, seen, found>>

BeginLeaky(c) ==
    /\ c \in Probes => Cardinality({p \in Probes : step[p] # "new"}) < Parallel
    /\ Goto(c, "new", IF ViaJump(c) THEN "auth" ELSE "tcp")
    /\ UNCHANGED <<hosts, hop, conns, seen, found>>

\* A probe waits for a slot of sem.  The jump's methods are made before its
\* connection, the target's after.
Begin(c) ==
    /\ c \in Probes => Slot
    /\ Goto(c, "new", IF ViaJump(c) THEN "auth" ELSE "tcp")
    /\ UNCHANGED <<hosts, hop, conns, seen, found>>

\* AuthMethods.
Auth(c) ==
    /\ Goto(c, "auth", IF hop[c] = "jump" THEN "tcp" ELSE "check")
    /\ UNCHANGED <<hosts, hop, conns, seen, found>>

\* DialContext, directly or by a channel of the jump client.
Tcp(c) ==
    /\ Goto(c, "tcp", IF hop[c] = "jump" THEN "check" ELSE "auth")
    /\ conns' = [conns EXCEPT ![c] = @ \cup {hop[c]}]
    /\ UNCHANGED <<hosts, hop, seen, found>>

\* Mutant of ClosedOnError: only what the step has opened.
LeavesJump(c) ==
    IF hop[c] = "jump" THEN (IF step[c] \in Handshake THEN {"jump"} ELSE {})
    ELSE IF step[c] = "tcp" THEN {"jump"} ELSE {"target"}

\* What the error path of a step closes.
ClosedOnError(c) ==
    IF hop[c] = "jump" THEN (IF step[c] \in Handshake THEN {"jump"} ELSE {})
    ELSE IF step[c] = "tcp" THEN {"jump"} ELSE {"target", "jump"}

\* A run is over, and what it knew forgotten.
End(c, closed) ==
    /\ step' = [step EXCEPT ![c] = "ended"]
    /\ conns' = [conns EXCEPT ![c] = @ \ closed]
    /\ hop' = [hop EXCEPT ![c] = FirstHop(c)]
    /\ seen' = [seen EXCEPT ![c] = NoKeys]
    /\ found' = [found EXCEPT ![c] = NonePinned]

Error(c) == End(c, ClosedOnError(c))

\* An identity that cannot be read, a dial that is refused or times out, a
\* server that closes, a login that is denied.
DialFails(c) ==
    /\ step[c] \in {"auth", "tcp"} \cup Handshake
    /\ Error(c)
    /\ UNCHANGED hosts

\* Mutant of Verdicts: any key that is not pinned counts as unknown.
VerdictsUnknown(c, pinned) ==
    IF Policy[c] = "insecure" \/ keys[Host(c)] \in pinned THEN {"login"}
    ELSE CASE Policy[c] = "strict" -> {"rejected"}
           [] Policy[c] = "accept-new" -> {"pin"}
           [] OTHER -> {"rejected", "pin"}

\* What the callback does about a key.
Verdicts(c, pinned) ==
    IF Policy[c] = "insecure" \/ keys[Host(c)] \in pinned THEN {"login"}
    ELSE IF pinned # {} THEN {"mismatch"}
    ELSE CASE Policy[c] = "strict" -> {"rejected"}
           [] Policy[c] = "accept-new" -> {"pin"}
           [] OTHER -> {"rejected", "pin"}

Shown(c) ==
    /\ seen' = [seen EXCEPT ![c] = [@ EXCEPT ![hop[c]] = keys[Host(c)]]]
    /\ found' = [found EXCEPT ![c] = [@ EXCEPT ![hop[c]] = known[Host(c)]]]

\* The callback parses known_hosts anew; a user without a terminal, or one who
\* says no, rejects.
Check(c) ==
    /\ step[c] = "check"
    /\ \E v \in Verdicts(c, known[Host(c)]) :
          IF v \in Handshake
          THEN /\ step' = [step EXCEPT ![c] = v]
               /\ Shown(c)
               /\ UNCHANGED <<hop, conns>>
          ELSE Error(c)
    /\ UNCHANGED hosts

\* appendKnownHost, after what others have appended meanwhile.
Pin(c) ==
    /\ Goto(c, "pin", "login")
    /\ known' = [known EXCEPT ![Host(c)] = @ \cup {seen[c][hop[c]]}]
    /\ UNCHANGED <<keys, hop, conns, seen, found>>

\* The user is authenticated: the next hop, or the client is made.
Login(c) ==
    /\ Goto(c, "login", IF hop[c] = "jump" THEN "tcp" ELSE "up")
    /\ hop' = [hop EXCEPT ![c] = "target"]
    /\ UNCHANGED <<hosts, conns, seen, found>>

\* A probe pings, or fails to.
Ping(c) ==
    /\ c \in Probes
    /\ Goto(c, "up", "close")
    /\ UNCHANGED <<hosts, hop, conns, seen, found>>

\* Client.Close.
Close(c) == step[c] = "close" /\ End(c, {"target", "jump"}) /\ UNCHANGED hosts

Dial(c) ==
    \/ Begin(c) \/ Auth(c) \/ Tcp(c) \/ DialFails(c) \/ Check(c) \/ Pin(c)
    \/ Login(c) \/ Ping(c) \/ Close(c)

\* A host is set up anew.
Rekey ==
    /\ \E h \in Hosts :
          /\ keys[h] <= Rekeys
          /\ keys' = [keys EXCEPT ![h] = @ + 1]
    /\ UNCHANGED <<known, dialing>>

----------------------------------------------------------------------------
(* Properties.                                                             *)

Passed(c, p) ==
    \/ p = "jump" /\ ViaJump(c) /\ hop[c] = "target"
    \/ p = "target" /\ step[c] \in {"up", "merge", "close"}

\* A run that is over, failed wherever it did or closed, leaves no connection
\* to the target nor to the jump host.
NothingLeft == \A c \in Calls : step[c] = "ended" => conns[c] = {}

\* "Mismatches on already-known hosts are still fatal": whatever other runs pin
\* while this one is at its first hop, or waits for an answer to its question, a
\* hop is passed only with one of the keys that were pinned when it was checked,
\* or the first of an unknown host; and the key is pinned then, so that the next
\* run notices when it changes.
PassedIsTrusted ==
    \A c \in Calls : \A p \in Hops :
        Passed(c, p) /\ Policy[c] # "insecure" =>
            /\ \/ seen[c][p] \in found[c][p]
               \/ found[c][p] = {} /\ Policy[c] # "strict"
            /\ seen[c][p] \in known[At(c, p)]

=============================================================================
