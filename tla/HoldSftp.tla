------------------------------ MODULE HoldSftp ------------------------------
(***************************************************************************)
(* The SFTP client that the operations of one hold daemon share: withSFTP   *)
(* in internal/cli/hold.go.                                                 *)
(*                                                                         *)
(* It is opened by the first operation that needs it, under sftpMu, and     *)
(* cached; whoever sees it lost drops it from the cache.                    *)
(***************************************************************************)
EXTENDS Integers, FiniteSets

CONSTANTS
    Ops,      \* operations that use SFTP
    Sftps,    \* SFTP clients, in the order of creation an unlimited supply
    SftpFaults, \* what may go wrong, see AllSftpFaults
    None      \* no operation, no SFTP client

\* lose  the subsystem, or the SSH connection under it, is lost
\* open  newSFTP fails
\* cut   the client of an operation dies within a frame of its stdin
AllSftpFaults == {"lose", "open", "cut"}

ASSUME SftpAssumption ==
    /\ SftpFaults \subseteq AllSftpFaults
    /\ None \notin Ops \cup Sftps

VARIABLES
    opPc,    \* where each operation is
    using,   \* the SFTP client it was given
    result,  \* how it ended
    mu,      \* who holds sftpMu across newSFTP
    sftpc,   \* the cached SFTP client
    status   \* state of each SFTP client

sftpVars == <<opPc, using, result, mu, sftpc, status>>

SftpTypeOK ==
    /\ opPc \in [Ops -> {"idle", "lock", "open", "use", "relock", "done"}]
    /\ using \in [Ops -> Sftps \cup {None}]
    /\ \A o \in Ops : opPc[o] \in {"use", "relock"} => using[o] \in Sftps
    /\ result \in [Ops -> {"none", "ok", "refused", "lost", "cut"}]
    /\ mu \in Ops \cup {None}
    /\ sftpc \in Sftps \cup {None}
    /\ status \in [Sftps -> {"unused", "open", "lost", "closed"}]

SftpInit ==
    /\ opPc = [o \in Ops |-> "idle"]
    /\ using = [o \in Ops |-> None]
    /\ result = [o \in Ops |-> "none"]
    /\ mu = None /\ sftpc = None
    /\ status = [s \in Sftps |-> "unused"]

OpStep(o, from, to) == opPc[o] = from /\ opPc' = [opPc EXCEPT ![o] = to]

End(o, how) == result' = [result EXCEPT ![o] = how]

Begin(o) ==
    /\ OpStep(o, "idle", "lock")
    /\ UNCHANGED <<using, result, mu, sftpc, status>>

\* Under sftpMu: the cached client, whatever has become of it, or a new one,
\* with sftpMu held meanwhile.
Reuse(o) ==
    /\ mu = None
    /\ IF sftpc # None
       THEN /\ OpStep(o, "lock", "use")
            /\ using' = [using EXCEPT ![o] = sftpc]
            /\ UNCHANGED mu
       ELSE OpStep(o, "lock", "open") /\ mu' = o /\ UNCHANGED using
    /\ UNCHANGED <<result, sftpc, status>>

Open(o) ==
    /\ OpStep(o, "open", "use")
    /\ \E s \in Sftps :
          /\ status[s] = "unused"
          /\ status' = [status EXCEPT ![s] = "open"]
          /\ sftpc' = s
          /\ using' = [using EXCEPT ![o] = s]
    /\ mu' = None
    /\ UNCHANGED result

\* Mutant of OpenFails: the early return keeps the lock.
OpenFailsLocked(o) ==
    /\ "open" \in SftpFaults
    /\ OpStep(o, "open", "done") /\ End(o, "refused")
    /\ UNCHANGED <<using, mu, sftpc, status>>

OpenFails(o) ==
    /\ "open" \in SftpFaults
    /\ OpStep(o, "open", "done") /\ End(o, "refused")
    /\ mu' = None
    /\ UNCHANGED <<using, sftpc, status>>

\* f returns; its last answer may have come before the client was lost.
Finish(o) ==
    /\ OpStep(o, "use", "done") /\ End(o, "ok")
    /\ UNCHANGED <<using, mu, sftpc, status>>

\* f returns ErrSSHFxConnectionLost ...
Lost(o) ==
    /\ OpStep(o, "use", "relock")
    /\ status[using[o]] \in {"lost", "closed"}
    /\ End(o, "lost")
    /\ UNCHANGED <<using, mu, sftpc, status>>

\* ... or io.ErrUnexpectedEOF, which readFrame returned for the operation's own
\* client and opWrite passed on to writeFile.
Cut(o) ==
    /\ "cut" \in SftpFaults
    /\ OpStep(o, "use", "relock") /\ End(o, "cut")
    /\ UNCHANGED <<using, mu, sftpc, status>>

\* Mutants of DropSftp: the cache is emptied whoever is in it; or left alone.
DropAnySftp(o) ==
    /\ mu = None
    /\ OpStep(o, "relock", "done")
    /\ status' = [status EXCEPT ![using[o]] = "closed"]
    /\ sftpc' = None
    /\ UNCHANGED <<using, result, mu>>

DropNoSftp(o) ==
    /\ mu = None
    /\ OpStep(o, "relock", "done")
    /\ status' = [status EXCEPT ![using[o]] = "closed"]
    /\ UNCHANGED <<using, result, mu, sftpc>>

\* Mutant of DropSftp: what is cached is closed, without a look at whose it is.
DropCachedSftp(o) ==
    /\ mu = None
    /\ OpStep(o, "relock", "done")
    /\ status' = [s \in Sftps |-> IF s = sftpc THEN "closed" ELSE status[s]]
    /\ sftpc' = None
    /\ UNCHANGED <<using, result, mu>>

\* Under sftpMu: the client is closed and dropped, unless somebody else has.
DropSftp(o) ==
    /\ mu = None
    /\ OpStep(o, "relock", "done")
    /\ IF sftpc = using[o]
       THEN /\ status' = [status EXCEPT ![using[o]] = "closed"]
            /\ sftpc' = None
       ELSE UNCHANGED <<sftpc, status>>
    /\ UNCHANGED <<using, result, mu>>

\* The subsystem goes.
Lose(s) ==
    /\ "lose" \in SftpFaults
    /\ status[s] = "open"
    /\ status' = [status EXCEPT ![s] = "lost"]
    /\ UNCHANGED <<opPc, using, result, mu, sftpc>>

WithSFTP(o) ==
    \/ Reuse(o) \/ Open(o) \/ OpenFails(o) \/ Finish(o) \/ Lost(o) \/ Cut(o)
    \/ DropSftp(o)

SftpNext ==
    \/ \E o \in Ops : Begin(o) \/ WithSFTP(o)
    \/ \E s \in Sftps : Lose(s)

SftpSpec == SftpInit /\ [][SftpNext]_sftpVars

\* Goroutines are scheduled, sftpMu goes to each that waits, newSFTP and f
\* return.
FairSftpSpec == SftpSpec /\ \A o \in Ops : SF_sftpVars(WithSFTP(o))

----------------------------------------------------------------------------
(* Properties.                                                             *)

\* An SFTP client that is open is the cached one: however losses, drops and
\* reopenings interleave, none is leaked and no operation closes the client
\* another has just opened.
NoneLeaked == \A s \in Sftps : status[s] = "open" => sftpc = s

\* "On a lost connection the cached client is dropped so the next op reopens
\* the subsystem": nobody is given a client after an operation failed on it.
Reopened ==
    \A o \in Ops : opPc[o] = "done" /\ result[o] \in {"lost", "cut"}
        => sftpc # using[o]

\* Every operation ends, those that waited for sftpMu while newSFTP failed too.
OpsEnd == \A o \in Ops : (opPc[o] = "lock") ~> (opPc[o] = "done")

\* "Concurrent invocations multiplex safely", as far as they do: an operation is
\* told that its SFTP client is gone only if the subsystem was lost or another
\* operation of the same client has failed; one on a newer client never is.
OnlyOwnClientHurts ==
    [][\A o \in Ops : result'[o] = "lost" /\ result[o] # "lost"
          => \/ status[using[o]] = "lost"
             \/ \E p \in Ops \ {o} : /\ using[p] = using[o]
                                     /\ result[p] \in {"lost", "cut"}]_sftpVars

============================================================================
