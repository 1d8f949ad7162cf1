------------------------------ MODULE UploadKey ------------------------------
(***************************************************************************)
(* tn upload-key: internal/cli/uploadkey.go, on the connections of Dial and *)
(* with writeFile as RemoteWrite has it.                                    *)
(*                                                                         *)
(* A run dials its host, reads authorized_keys, adds the keys that are not  *)
(* there and writes the file; with --jump a first run serves the jump host. *)
(* Lines that are no keys are kept as they are, and left out.               *)
(***************************************************************************)
EXTENDS Dial

CONSTANTS
    PubKeys,   \* keys
    Had,       \* those each host has at first
    Brought,   \* those each run is given
    Forced,    \* runs with --force
    After,     \* the run for the jump host that comes before, or None
    Plain,     \* hosts without posix-rename
    WriteFaults \* as in RemoteWrite

Uploads == Calls \ Probes

VARIABLES
    base,      \* the keys each run has read
    outcome,   \* how it ended
    gapped,    \* hosts where the fallback of a write ended in its gap (history)
    \* of RemoteWrite:
    file, tmp, data, target, pc, handle, sent, result, rpc, rhandle, got

Write == INSTANCE RemoteWrite WITH
    Writers <- Uploads, Held <- {}, Readers <- {}, Paths <- Hosts,
    Rough <- {}, Len <- 1, Faults <- WriteFaults

ASSUME UploadAssumption ==
    /\ Had \in [Hosts -> SUBSET PubKeys]
    /\ Brought \in [Uploads -> SUBSET PubKeys]
    /\ Forced \subseteq Uploads
    /\ After \in [Uploads -> Uploads \cup {None}]
    /\ Plain \subseteq Hosts
    /\ WriteFaults \subseteq Write!AllFaults
    /\ Uploads \cap Hosts = {} /\ None \notin Uploads

writing == <<file, tmp, data, target, pc, handle, sent, result, rpc, rhandle, got>>
merging == <<base, outcome, gapped>>
vars == <<dialVars, merging, writing>>

TypeOK ==
    /\ DialTypeOK /\ Write!TypeOK
    /\ base \in [Uploads -> SUBSET PubKeys]
    /\ outcome \in [Uploads -> {"none", "ok", "failed"}]
    /\ gapped \subseteq Plain

Init ==
    /\ DialInit /\ Write!Init
    /\ target = [c \in Uploads |-> Target[c]]
    /\ base = [c \in Uploads |-> {}]
    /\ outcome = [c \in Uploads |-> "none"]
    /\ gapped = {}

\* The keys in what a run, or nobody, has written, and in a host's file.
KeysOf(x) ==
    IF x = None THEN {} ELSE IF x \in Hosts THEN Had[x] ELSE base[x] \cup Brought[x]
KeysAt(h) == IF file[h] = None THEN {} ELSE KeysOf(data[file[h]][1])

----------------------------------------------------------------------------

\* The error of a run's Dial is the run's.
Dialed(c) ==
    /\ c \in Uploads /\ After[c] # None => outcome[After[c]] = "ok"
    /\ Dial(c)
    /\ outcome' = IF c \in Uploads /\ step[c] # "close" /\ step'[c] = "ended"
                  THEN [outcome EXCEPT ![c] = "failed"] ELSE outcome
    /\ UNCHANGED <<base, gapped, writing>>

\* When the jump host could not be served, the target is not tried.
Skip(c) ==
    /\ step[c] = "new" /\ After[c] # None /\ outcome[After[c]] = "failed"
    /\ step' = [step EXCEPT ![c] = "ended"]
    /\ outcome' = [outcome EXCEPT ![c] = "failed"]
    /\ UNCHANGED <<hosts, hop, conns, seen, found, base, gapped, writing>>

\* Nothing but the user keeps two runs from one host.
Alone(c) == \A v \in Uploads : step[v] = "merge" => Target[v] # Target[c]

\* mergeAuthorizedKeys up to the write, with the keys that were read.
MergeWith(c, have) ==
    /\ step[c] = "up" /\ Alone(c)
    /\ IF Brought[c] \subseteq have /\ c \notin Forced
       THEN /\ step' = [step EXCEPT ![c] = "close"]
            /\ outcome' = [outcome EXCEPT ![c] = "ok"]
            /\ UNCHANGED base
       ELSE /\ step' = [step EXCEPT ![c] = "merge"]
            /\ base' = [base EXCEPT ![c] = have]
            /\ UNCHANGED outcome
    /\ UNCHANGED <<hosts, hop, conns, seen, found, gapped, writing>>

Merge(c) == MergeWith(c, KeysAt(Target[c]))

\* Mutant of MergeFails: a file that cannot be read counts as missing.
MergeBlind(c) == "broken" \in WriteFaults /\ MergeWith(c, {})

\* mkdir, or an error in reading other than a missing file.
MergeFails(c) ==
    /\ "broken" \in WriteFaults
    /\ Goto(c, "up", "close")
    /\ outcome' = [outcome EXCEPT ![c] = "failed"]
    /\ UNCHANGED <<hosts, hop, conns, seen, found, base, gapped, writing>>

\* A run leaves the fallback between its removal and its rename.
Gaps(c) ==
    gapped' = IF pc[c] = "again" /\ pc'[c] # "ended"
              THEN gapped \cup {Target[c]} ELSE gapped

\* writeFile.
WriteFile(c) ==
    /\ step[c] = "merge"
    /\ Write!WriteFile(c)
    /\ Gaps(c)
    /\ UNCHANGED <<dialVars, base, outcome>>

\* The connection is lost, or the run killed, wherever the write is.
WriteLost(c) ==
    /\ Goto(c, "merge", "close")
    /\ Write!Die(c)
    /\ Gaps(c)
    /\ outcome' = [outcome EXCEPT ![c] = "failed"]
    /\ UNCHANGED <<hosts, hop, conns, seen, found, base>>

Written(c) ==
    /\ pc[c] = "ended"
    /\ Goto(c, "merge", "close")
    /\ outcome' = [outcome EXCEPT ![c] = result[c]]
    /\ UNCHANGED <<hosts, hop, conns, seen, found, base, gapped, writing>>

Upload(c) ==
    \/ Skip(c) \/ Merge(c) \/ MergeFails(c)
    \/ WriteFile(c) \/ WriteLost(c) \/ Written(c)

Scheduled == (\E c \in Calls : Dialed(c)) \/ \E c \in Uploads : Upload(c)

Over == (\A c \in Calls : step[c] = "ended") /\ UNCHANGED vars

Next == Scheduled \/ (Rekey /\ UNCHANGED <<merging, writing>>) \/ Over

Spec == Init /\ [][Next]_vars

\* Servers answer or close.  Every step consumes something bounded, so that
\* fairness of all together is fairness of each.
FairSpec == Spec /\ WF_vars(Scheduled)

----------------------------------------------------------------------------
(* Properties.                                                             *)

\* "Existing files are preserved — entries are merged, never replaced": when no
\* run is at its write, a host has the keys it had and those of every run that
\* reported success, also when calls have failed and runs were cut off at any
\* of them.  Where a server cannot replace a file and a run ended in the gap of
\* the fallback the keys are gone, and the next run writes only its own.
KeysKept ==
    \A h \in Hosts \ gapped :
        (\A c \in Uploads : Target[c] = h => step[c] # "merge") =>
            Had[h] \cup UNION {Brought[c] : c \in {u \in Uploads :
                                   Target[u] = h /\ outcome[u] = "ok"}}
                \subseteq KeysAt(h)

\* Every probe and every upload ends: no slot is lost, and no run waits for one
\* that has failed.
CallsEnd == \A c \in Calls : <>(step[c] = "ended")

=============================================================================
