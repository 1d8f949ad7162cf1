------------------------------- MODULE HeldOp ------------------------------
(***************************************************************************)
(* What tryHeld (internal/cli/holdclient.go) promises about an operation.  *)
(* It is open until its request is written to a daemon, which commits it,  *)
(* or until the command gives up the held path and runs it directly.  A    *)
(* committed operation is run by the daemon at most once, before or after  *)
(* the command reports, and never by the command.                          *)
(***************************************************************************)
CONSTANTS
    Ops,      \* operations, each of one command
    Servers   \* daemons

VARIABLES
    phase,    \* "open", "committed", "over" (reported after the commitment),
              \* or "closed" (reported, never committed)
    by        \* who ran each operation

vars == <<phase, by>>

Init ==
    /\ phase = [o \in Ops |-> "open"]
    /\ by = [o \in Ops |-> {}]

\* The request frame is written.
Commit(o) ==
    /\ phase[o] = "open"
    /\ phase' = [phase EXCEPT ![o] = "committed"]
    /\ UNCHANGED by

\* A daemon runs it.
Serve(o, d) ==
    /\ phase[o] \in {"committed", "over"}
    /\ by[o] = {}
    /\ by' = [by EXCEPT ![o] = {d}]
    /\ UNCHANGED phase

\* The command reports what it was told, or that the connection was lost.
Report(o) ==
    /\ phase[o] = "committed"
    /\ phase' = [phase EXCEPT ![o] = "over"]
    /\ UNCHANGED by

\* The command runs it directly, or fails to.
Close(o) ==
    /\ phase[o] = "open"
    /\ phase' = [phase EXCEPT ![o] = "closed"]
    /\ by' = [by EXCEPT ![o] = {o}] \/ UNCHANGED by

Next ==
    \E o \in Ops : \/ Commit(o) \/ Report(o) \/ Close(o)
                   \/ \E d \in Servers : Serve(o, d)

Spec == Init /\ [][Next]_vars

============================================================================
