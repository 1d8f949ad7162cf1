--------------------------- MODULE UploadKeyProofs ---------------------------
(* Proofs about Dial and UploadKey, for any runs, probes, hosts and keys.    *)
(* What a run's writes leave in a file is taken from RemoteWriteProofs.      *)
EXTENDS UploadKey, FiniteSetTheorems, TLAPS

----------------------------------------------------------------------------
(* Dial.                                                                   *)

\* What a step finds open is what its error path closes.
Connected ==
    \A c \in Calls :
        /\ step[c] \in {"new", "ended"} => conns[c] = {}
        /\ step[c] \in {"auth", "tcp"} /\ hop[c] = "jump" => conns[c] = {}
        /\ step[c] = "tcp" => conns[c] \subseteq {"jump"}
        /\ hop[c] = "jump" => conns[c] \subseteq {"jump"} /\ ViaJump(c)

\* The key of a hop was pinned when it was checked, or the host was unknown; and
\* it is pinned now.
Trusted(c, p) ==
    /\ \/ seen[c][p] \in found[c][p]
       \/ found[c][p] = {} /\ Policy[c] # "strict"
    /\ seen[c][p] \in known[At(c, p)]

\* What a run knows of its hops, from the check of each to the end.
Checked ==
    \A c \in Calls :
        /\ step[c] \in {"pin", "login"} => seen[c][hop[c]] \in Keys
        /\ step[c] \in {"up", "merge", "close"} => hop[c] = "target"
        /\ Policy[c] # "insecure" =>
              /\ hop[c] = "target" /\ ViaJump(c) => Trusted(c, "jump")
              /\ step[c] = "pin" =>
                    found[c][hop[c]] = {} /\ Policy[c] # "strict"
              /\ step[c] = "login" => Trusted(c, hop[c])
              /\ step[c] \in {"up", "merge", "close"} => Trusted(c, "target")

DialTypes ==
    /\ keys \in [Hosts -> Keys]
    /\ known \in [Hosts -> SUBSET Keys]
    /\ hop \in [Calls -> Hops]
    /\ step \in [Calls -> Steps]
    /\ conns \in [Calls -> SUBSET Hops]
    /\ seen \in [Calls -> [Hops -> Keys \cup {0}]]
    /\ found \in [Calls -> [Hops -> SUBSET Keys]]

Busied(f) == {c \in Calls : c \in Probes /\ f[c] \notin {"new", "ended"}}
SlotsKept == Cardinality(Busied(step)) <= Parallel

DialInv == DialTypes /\ Connected /\ Checked /\ SlotsKept


\* One run moves: the number of probes at work changes by at most one.
LEMMA SlotMoved ==
    ASSUME DialTypes, NEW c \in Calls, NEW g,
           \A d \in Calls : d # c => g[d] = step[d]
    PROVE  /\ step[c] \notin {"new", "ended"} \/ g[c] \in {"new", "ended"}
                => Cardinality(Busied(g)) <= Cardinality(Busied(step))
           /\ Cardinality(Busied(g)) <= Cardinality(Busied(step)) + 1
           /\ Cardinality(Busied(step)) \in Nat /\ Cardinality(Busied(g)) \in Nat
<1>1. IsFiniteSet(Busied(step)) /\ IsFiniteSet(Busied(g))
  <2>1. Busied(step) \in SUBSET Calls /\ Busied(g) \in SUBSET Calls
    BY DEF Busied
  <2> QED
    BY <2>1, FS_Subset, DialAssumption
<1>2. Busied(g) \subseteq Busied(step) \cup {c}
  BY DEF Busied
<1>3. /\ IsFiniteSet(Busied(step) \cup {c})
      /\ Cardinality(Busied(step) \cup {c}) <= Cardinality(Busied(step)) + 1
  <2>1. Cardinality(Busied(step) \cup {c}) =
            IF c \in Busied(step) THEN Cardinality(Busied(step))
            ELSE Cardinality(Busied(step)) + 1
    BY <1>1, FS_AddElement
  <2>2. Cardinality(Busied(step)) \in Nat
    BY <1>1, FS_CardinalityType
  <2>3. IsFiniteSet(Busied(step) \cup {c})
    BY <1>1, FS_AddElement
  <2> QED
    BY <2>1, <2>2, <2>3
<1>4. Cardinality(Busied(g)) <= Cardinality(Busied(step) \cup {c})
  BY <1>2, <1>3, FS_Subset
<1>5. ASSUME step[c] \notin {"new", "ended"} \/ g[c] \in {"new", "ended"}
      PROVE  Cardinality(Busied(g)) <= Cardinality(Busied(step))
  <2>1. Busied(g) \subseteq Busied(step)
    BY <1>5 DEF Busied
  <2> QED
    BY <2>1, <1>1, FS_Subset
<1>6. Cardinality(Busied(step)) \in Nat /\ Cardinality(Busied(g)) \in Nat
  BY <1>1, FS_CardinalityType
<1>7. Cardinality(Busied(step) \cup {c}) \in Nat
  BY <1>3, FS_CardinalityType
<1> QED
  BY <1>3, <1>4, <1>5, <1>6, <1>7

\* Only Begin takes a slot.
LEMMA SlotsStep ==
    ASSUME DialTypes, SlotsKept, NEW c \in Calls, NEW to,
           step' = [step EXCEPT ![c] = to],
           \/ step[c] \notin {"new", "ended"} \/ to \in {"new", "ended"}
           \/ c \in Probes => Slot
    PROVE  SlotsKept'
<1>1. /\ step'[c] = to /\ \A d \in Calls : d # c => step'[d] = step[d]
  BY DEF DialTypes
<1>2. Cardinality(Busied(step)) \in Nat /\ Cardinality(Busied(step')) \in Nat
  BY <1>1, SlotMoved
<1>3. CASE step[c] \notin {"new", "ended"} \/ to \in {"new", "ended"}
  <2>1. step[c] \notin {"new", "ended"} \/ step'[c] \in {"new", "ended"}
    BY <1>1, <1>3
  <2>2. Cardinality(Busied(step')) <= Cardinality(Busied(step))
    BY <1>1, <2>1, SlotMoved
  <2> QED
    BY <1>2, <2>2, DialAssumption DEF SlotsKept
<1>4. CASE c \notin Probes
  <2>1. Busied(step') = Busied(step)
    BY <1>1, <1>4 DEF Busied
  <2> QED
    BY <2>1 DEF SlotsKept
<1>5. CASE Slot
  <2>1. Busied(step) = {d \in Calls : Probing(d)}
    BY DEF Busied, Probing
  <2>2. Cardinality(Busied(step)) < Parallel
    BY <1>5, <2>1 DEF Slot
  <2>3. Cardinality(Busied(step')) <= Cardinality(Busied(step)) + 1
    BY <1>1, SlotMoved
  <2> QED
    BY <1>2, <2>2, <2>3, DialAssumption DEF SlotsKept
<1> QED
  BY <1>3, <1>4, <1>5

\* Where a run is, its host is one.
LEMMA HostIsOne ==
    ASSUME DialInv, NEW c \in Calls
    PROVE  Host(c) \in Hosts
BY DialAssumption DEF DialInv, DialTypes, Hops, Connected, ViaJump, Host, At

\* A failed or closed run has let go of everything.
LEMMA EndStep ==
    ASSUME DialInv, NEW c \in Calls, NEW closed, End(c, closed), UNCHANGED hosts,
           step[c] # "ended", conns[c] \subseteq closed
    PROVE  DialInv'
<1> USE DEF DialInv, End, hosts
<1>1. SlotsKept'
  BY SlotsStep
<1>2. DialTypes'
  BY DEF DialTypes, NoKeys, NonePinned, FirstHop, Hops, Steps
<1>3. Connected'
  BY DialAssumption DEF DialTypes, Connected, FirstHop, ViaJump
<1>4. Checked'
  BY DEF DialTypes, Checked, Trusted, FirstHop, Handshake
<1> QED
  BY <1>1, <1>2, <1>3, <1>4

LEMMA ErrorCloses ==
    ASSUME DialInv, NEW c \in Calls, step[c] \in {"auth", "tcp"} \cup Handshake
    PROVE  conns[c] \subseteq ClosedOnError(c)
BY DEF DialInv, DialTypes, Connected, ClosedOnError, Handshake, Hops

\* Each step of Dial keeps the invariant.
LEMMA DialStep ==
    ASSUME DialInv, NEW c \in Calls, Dial(c)
    PROVE  DialInv'
<1> USE DEF DialInv, hosts, Goto
<1>0. DialTypes /\ Connected /\ Checked /\ SlotsKept /\ Host(c) \in Hosts
  BY HostIsOne
<1>1. CASE Begin(c)
  <2>1. SlotsKept'
    BY <1>1, SlotsStep DEF Begin
  <2>2. DialTypes'
    BY <1>1 DEF Begin, DialTypes, Steps
  <2>3. Connected' /\ Checked'
    BY <1>1 DEF Begin, DialTypes, Connected, Checked, Trusted, Handshake
  <2> QED
    BY <2>1, <2>2, <2>3
<1>2. CASE Auth(c)
  <2>1. SlotsKept'
    BY <1>2, SlotsStep DEF Auth
  <2>2. DialTypes'
    BY <1>2 DEF Auth, DialTypes, Steps, Handshake
  <2>3. Connected' /\ Checked'
    BY <1>2 DEF Auth, DialTypes, Connected, Checked, Trusted, Handshake, Hops
  <2> QED
    BY <2>1, <2>2, <2>3
<1>3. CASE Tcp(c)
  <2>1. SlotsKept'
    BY <1>3, SlotsStep DEF Tcp
  <2>2. DialTypes'
    BY <1>3 DEF Tcp, DialTypes, Steps, Handshake
  <2>3. Connected' /\ Checked'
    BY <1>3 DEF Tcp, DialTypes, Connected, Checked, Trusted, Handshake, Hops
  <2> QED
    BY <2>1, <2>2, <2>3
<1>4. CASE DialFails(c)
  <2>1. step[c] # "ended" /\ conns[c] \subseteq ClosedOnError(c)
    BY <1>4, ErrorCloses DEF DialFails, Handshake
  <2> QED
    BY <1>4, <2>1, EndStep DEF DialFails, Error
<1>5. CASE Check(c)
  <2>1. PICK v \in Verdicts(c, known[Host(c)]) :
              IF v \in Handshake
              THEN /\ step' = [step EXCEPT ![c] = v]
                   /\ Shown(c)
                   /\ UNCHANGED <<hop, conns>>
              ELSE Error(c)
    BY <1>5 DEF Check
  <2>2. step[c] = "check" /\ UNCHANGED hosts
    BY <1>5 DEF Check
  <2>3. CASE v \notin Handshake
    <3>1. Error(c)
      BY <2>1, <2>3
    <3>2. step[c] # "ended" /\ conns[c] \subseteq ClosedOnError(c)
      BY <2>2, ErrorCloses DEF Handshake
    <3> QED
      BY <2>2, <3>1, <3>2, EndStep DEF Error
  <2>4. CASE v \in Handshake
    <3>1. /\ step' = [step EXCEPT ![c] = v]
          /\ seen' = [seen EXCEPT ![c] =
                         [seen[c] EXCEPT ![hop[c]] = keys[Host(c)]]]
          /\ found' = [found EXCEPT ![c] =
                         [found[c] EXCEPT ![hop[c]] = known[Host(c)]]]
          /\ UNCHANGED <<hop, conns, hosts>>
      BY <2>1, <2>2, <2>4 DEF Shown
    <3>2. /\ v \in {"pin", "login"}
          /\ v = "login" /\ Policy[c] # "insecure" =>
                keys[Host(c)] \in known[Host(c)]
          /\ v = "pin" => known[Host(c)] = {} /\ Policy[c] # "strict"
      BY <2>4 DEF Verdicts, Handshake
    <3>3. SlotsKept'
      BY <2>2, <3>1, <3>2, SlotsStep
    <3>4. DialTypes'
      BY <1>0, <3>1, <3>2 DEF DialTypes, Steps, Handshake
    <3>5. Connected'
      BY <2>2, <3>1, <3>2 DEF DialTypes, Connected
    <3>6. Checked'
      <4>1. \A d \in Calls : d # c =>
                step'[d] = step[d] /\ seen'[d] = seen[d] /\ found'[d] = found[d]
        BY <3>1 DEF DialTypes
      <4>2. /\ step'[c] = v
            /\ seen'[c][hop[c]] = keys[Host(c)]
            /\ found'[c][hop[c]] = known[Host(c)]
            /\ \A p \in Hops \ {hop[c]} : /\ seen'[c][p] = seen[c][p]
                                          /\ found'[c][p] = found[c][p]
            /\ hop[c] \in Hops /\ keys[Host(c)] \in Keys
        BY <1>0, <3>1 DEF DialTypes
      <4>3. hop[c] = "target" /\ ViaJump(c) /\ Policy[c] # "insecure"
               => Trusted(c, "jump")'
        <5>1. "jump" \in Hops
          BY DEF Hops
        <5> QED
          BY <1>0, <3>1, <4>2, <5>1 DEF Checked, Trusted, At
      <4>4. v = "login" /\ Policy[c] # "insecure" => Trusted(c, hop[c])'
        BY <3>1, <3>2, <4>2 DEF Trusted, At, Host
      <4>5. ASSUME NEW d \in Calls, d # c, NEW p \in Hops
            PROVE  Trusted(d, p) => Trusted(d, p)'
        BY <3>1, <4>1, <4>5 DEF Trusted, At
      <4> QED
        BY <1>0, <3>1, <3>2, <4>1, <4>2, <4>3, <4>4, <4>5
           DEF Checked, DialTypes, Hops, ViaJump
    <3> QED
      BY <3>3, <3>4, <3>5, <3>6
  <2> QED
    BY <2>3, <2>4
<1>6. CASE Pin(c)
  <2>1. SlotsKept'
    BY <1>6, SlotsStep DEF Pin
  <2>2. seen[c][hop[c]] \in Keys
    BY <1>6 DEF Pin, Checked
  <2>3. DialTypes'
    BY <1>6, <2>2 DEF Pin, DialTypes, Steps, Handshake
  <2>4. Connected'
    BY <1>6 DEF Pin, DialTypes, Connected
  <2>5. \A h \in Hosts : known[h] \subseteq known'[h]
    BY <1>0, <1>6 DEF Pin, DialTypes
  <2>6. ASSUME NEW d \in Calls, NEW p \in Hops, At(d, p) \in Hosts
        PROVE  Trusted(d, p) => Trusted(d, p)'
    BY <1>6, <2>5, <2>6 DEF Pin, Trusted, At
  <2>7. Policy[c] # "insecure" => Trusted(c, hop[c])'
    BY <1>0, <1>6 DEF Pin, DialTypes, Checked, Trusted, Host, At
  <2>8. \A d \in Calls : /\ Host(d) \in Hosts /\ Host(d) = At(d, hop[d])
                         /\ Target[d] \in Hosts
                         /\ ViaJump(d) => Jump[d] \in Hosts
    BY HostIsOne, DialAssumption DEF Host, ViaJump
  <2>9. Checked'
    <3> USE DEF Pin
    <3>1. ASSUME NEW d \in Calls, d # c
          PROVE  step'[d] = step[d]
      BY <1>6, <3>1 DEF DialTypes
    <3>2. step'[c] = "login" /\ UNCHANGED <<hop, seen, found>>
      BY <1>6 DEF DialTypes
    <3> QED
      BY <1>0, <2>2, <2>6, <2>7, <2>8, <3>1, <3>2
         DEF Checked, DialTypes, Hops, At, ViaJump
  <2> QED
    BY <2>1, <2>3, <2>4, <2>9
<1>7. CASE Login(c)
  <2>1. SlotsKept'
    BY <1>7, SlotsStep DEF Login
  <2>2. DialTypes'
    BY <1>7 DEF Login, DialTypes, Steps, Hops
  <2>3. Connected'
    BY <1>7 DEF Login, DialTypes, Connected, ViaJump
  <2>4. Checked'
    BY <1>7 DEF Login, DialTypes, Checked, Trusted, Hops, At, ViaJump
  <2> QED
    BY <2>1, <2>2, <2>3, <2>4
<1>8. CASE Ping(c)
  <2>1. SlotsKept'
    BY <1>8, SlotsStep DEF Ping
  <2>2. DialTypes'
    BY <1>8 DEF Ping, DialTypes, Steps
  <2>3. Connected' /\ Checked'
    BY <1>8 DEF Ping, DialTypes, Connected, Checked, Trusted, At, ViaJump
  <2> QED
    BY <2>1, <2>2, <2>3
<1>9. CASE Close(c)
  <2>1. step[c] # "ended" /\ conns[c] \subseteq {"target", "jump"}
    BY <1>9 DEF Close, DialTypes, Hops
  <2> QED
    BY <1>9, <2>1, EndStep DEF Close
<1> QED
  BY <1>1, <1>2, <1>3, <1>4, <1>5, <1>6, <1>7, <1>8, <1>9 DEF Dial

LEMMA RekeyStep == DialInv /\ Rekey => DialInv'
<1> SUFFICES ASSUME DialInv, Rekey PROVE DialInv'
  OBVIOUS
<1>1. PICK h \in Hosts : /\ keys[h] <= Rekeys
                         /\ keys' = [keys EXCEPT ![h] = keys[h] + 1]
  BY DEF Rekey
<1>2. UNCHANGED <<known, hop, step, conns, seen, found>>
  BY DEF Rekey, dialing
<1>3. keys[h] \in Keys
  BY DEF DialInv, DialTypes
<1>4. keys[h] + 1 \in Keys
  BY <1>1, <1>3, DialAssumption DEF Keys
<1>5. keys' \in [Hosts -> Keys]
  BY <1>1, <1>4 DEF DialInv, DialTypes
<1> QED
  BY <1>2, <1>5 DEF DialInv, DialTypes, Connected, Checked, Trusted, SlotsKept

\* What upload-key itself does to a connection.
LEMMA MoveStep ==
    ASSUME DialInv, NEW c \in Calls, NEW to,
           step' = [step EXCEPT ![c] = to],
           UNCHANGED <<hosts, hop, conns, seen, found>>,
           \/ step[c] = "new" /\ to = "ended"
           \/ step[c] \in {"up", "merge"} /\ to \in {"merge", "close"}
    PROVE  DialInv'
<1> USE DEF DialInv, hosts
<1>1. SlotsKept'
  BY SlotsStep
<1>2. DialTypes'
  BY DEF DialTypes, Steps
<1>3. Connected' /\ Checked'
  BY DEF DialTypes, Connected, Checked, Trusted
<1> QED
  BY <1>1, <1>2, <1>3

----------------------------------------------------------------------------
(* authorized_keys.                                                        *)

Files == INSTANCE RemoteWriteProofs WITH
    Writers <- Uploads, Held <- {}, Readers <- {}, Paths <- Hosts,
    Rough <- {}, Len <- 1, Faults <- WriteFaults

\* What a host's file may not lose: its first keys, and those of every run that
\* reported success.
Due(h) ==
    Had[h] \cup UNION {Brought[c] : c \in {u \in Uploads :
                           Target[u] = h /\ outcome[u] = "ok"}}

\* A run writes only between its read and its close, and no other run to its
\* host is there with it.
Turns ==
    /\ target = [c \in Uploads |-> Target[c]]
    /\ \A c \in Uploads :
          /\ Write!Busy(c) => step[c] = "merge"
          /\ pc[c] # "idle" => step[c] \in {"merge", "close", "ended"}
    /\ \A c, d \in Uploads :
          step[c] = "merge" /\ step[d] = "merge" /\ Target[c] = Target[d] => c = d

\* A file is gone only between the removal and the rename of the fallback, or
\* where a run ended there; and has what a run that has begun its write, or
\* nobody, wrote.
Contents ==
    \A h \in Hosts :
        /\ file[h] = None =>
              \/ h \in gapped
              \/ \E c \in Uploads : Target[c] = h /\ pc[c] = "again"
        /\ file[h] # None =>
              data[file[h]][1] \in {h} \cup {c \in Uploads : pc[c] # "idle"}

\* Where no run ended in the gap nothing due is missing in a file, nor in what a
\* run has read to merge with; and a run that has written is about to report the
\* truth.
Kept ==
    /\ \A h \in Hosts \ gapped : file[h] # None => Due(h) \subseteq KeysAt(h)
    /\ \A c \in Uploads : step[c] = "merge" /\ Target[c] \notin gapped =>
          /\ Due(Target[c]) \subseteq base[c]
          /\ pc[c] = "ended" /\ result[c] = "ok" =>
                file[Target[c]] # None /\ Brought[c] \subseteq KeysAt(Target[c])

MergeTypes ==
    /\ base \in [Uploads -> SUBSET PubKeys]
    /\ outcome \in [Uploads -> {"none", "ok", "failed"}]
    /\ gapped \subseteq Plain

KeysInv == Turns /\ Contents /\ Kept /\ MergeTypes

UploadInv == DialInv /\ Files!WriteInv /\ KeysInv

\* RemoteWrite as upload-key uses it: no held client, no reader, and no file that
\* two runs write at once.
LEMMA FilesAssumed == Files!WriteAssumption
BY DialAssumption, UploadAssumption DEF Files!WriteAssumption, Files!AllFaults,
   Write!AllFaults

\* A step of a run's write is one of RemoteWrite.
LEMMA WriteIsFiles ==
    ASSUME NEW c \in Uploads, Write!WriteFile(c)
    PROVE  Files!Next
<1> USE DEF Write!Goto, Files!Goto, Write!Return, Files!Return, Write!names,
        Files!names, Write!reading, Files!reading, Write!Move, Files!Move
<1>1. Write!Open(c) => Files!Open(c)
  BY DEF Write!Open, Files!Open, Write!Busy, Files!Busy, Write!Empty, Files!Empty,
         Write!Chunks, Files!Chunks
<1>2. Write!OpenFails(c) => Files!OpenFails(c)
  BY DEF Write!OpenFails, Files!OpenFails
<1>3. Write!Copy(c) => Files!Copy(c)
  BY DEF Write!Copy, Files!Copy
<1>4. Write!SourceEnds(c) => Files!SourceEnds(c)
  BY DEF Write!SourceEnds, Files!SourceEnds
<1>5. Write!CopyFails(c) => Files!CopyFails(c)
  BY DEF Write!CopyFails, Files!CopyFails
<1>6. Write!Close(c) => Files!Close(c)
  BY DEF Write!Close, Files!Close
<1>7. Write!Rename(c) => Files!Rename(c)
  BY DEF Write!Rename, Files!Rename
<1>8. Write!Remove(c) => Files!Remove(c)
  BY DEF Write!Remove, Files!Remove
<1>9. Write!RenameAgain(c) => Files!RenameAgain(c)
  BY DEF Write!RenameAgain, Files!RenameAgain
<1>10. Write!Cleanup(c) => Files!Cleanup(c)
  BY DEF Write!Cleanup, Files!Cleanup
<1> QED
  BY <1>1, <1>2, <1>3, <1>4, <1>5, <1>6, <1>7, <1>8, <1>9, <1>10
     DEF Write!WriteFile, Files!WriteFile, Files!Next

LEMMA StepIsFiles == [Next]_vars => [Files!Next]_Files!vars
<1> SUFFICES ASSUME [Next]_vars PROVE Files!Next \/ UNCHANGED Files!vars
  OBVIOUS
<1> USE DEF writing, Files!vars, Files!names, Files!writing, Files!reading
<1>1. ASSUME NEW c \in Calls, Dialed(c) PROVE UNCHANGED Files!vars
  BY <1>1 DEF Dialed
<1>2. ASSUME NEW c \in Uploads, Skip(c) \/ Merge(c) \/ MergeFails(c) \/ Written(c)
      PROVE  UNCHANGED Files!vars
  BY <1>2 DEF Skip, Merge, MergeWith, MergeFails, Written
<1>3. ASSUME NEW c \in Uploads, WriteFile(c) PROVE Files!Next
  BY <1>3, WriteIsFiles DEF WriteFile
<1>6. ASSUME NEW c \in Uploads, WriteLost(c) PROVE Files!Next
  <2>1. Write!Die(c) => Files!Die(c)
    BY DEF Write!Die, Files!Die, Write!Busy, Files!Busy, Write!names,
       Write!reading
  <2> QED
    BY <1>6, <2>1 DEF WriteLost, Files!Next
<1>4. CASE Rekey /\ UNCHANGED <<merging, writing>>
  BY <1>4
<1>5. CASE UNCHANGED vars
  BY <1>5 DEF vars
<1> QED
  BY <1>1, <1>2, <1>3, <1>4, <1>5, <1>6 DEF Next, Scheduled, Upload, Over

LEMMA InitIsFiles == Init => Files!Init
BY DEF Init, Write!Init, Files!Init, Write!Inodes, Files!Inodes, Write!Whole,
       Files!Whole, Write!Empty, Files!Empty, Write!Chunks, Files!Chunks

----------------------------------------------------------------------------

\* What a step of its write makes of the files of a run that is alone at its
\* host: nothing to read, its own content in place, or a gap before that.  From
\* the gap it comes to its content, or gives up.
Unseen ==
    /\ file' = file
    /\ \A h \in Hosts : file[h] # None => data'[file[h]][1] = data[file[h]][1]

Placed(c) ==
    /\ file' = [file EXCEPT ![target[c]] = handle[c]]
    /\ handle[c] # None /\ data' = data /\ data[handle[c]][1] = c

Removed(c) == file' = [file EXCEPT ![target[c]] = None] /\ data' = data

LEMMA WriteEffect ==
    ASSUME Files!WriteInv, NEW c \in Uploads, Write!WriteFile(c)
    PROVE  /\ UNCHANGED target
           /\ \A d \in Uploads : d # c => pc'[d] = pc[d] /\ result'[d] = result[d]
           /\ pc'[c] # "idle" /\ pc'[c] # "dead"
           /\ pc[c] \notin {"ended", "dead"}
           /\ pc[c] = "again" => pc'[c] \in {"ended", "cleanup"}
           /\ \/ /\ Unseen /\ pc'[c] # "again"
                 /\ pc'[c] = "ended" => pc[c] # "again" /\ result'[c] = "failed"
              \/ Placed(c) /\ pc'[c] = "ended"
              \/ Removed(c) /\ pc'[c] = "again"
<1> USE DEF Files!WriteInv, Files!Typed, Files!TypeOK, Write!Goto, Write!Return,
        Write!names, Write!reading, Write!Move, Files!Busy, Files!WriterPc
<1>1. target[c] \in Hosts /\ target[c] \in Files!Steady
  BY DEF Files!Steady
<1>2. CASE Write!Open(c)
  <2>1. PICK i : /\ i = IF tmp[target[c]] = None THEN c ELSE tmp[target[c]]
                 /\ data' = [data EXCEPT ![i] = Write!Empty]
    BY <1>2 DEF Write!Open
  <2>2. \A h \in Hosts : file[h] # i
    BY <1>1, <1>2, <2>1
       DEF Write!Open, Files!Fresh, Files!AtHome, Files!Apart, Files!Steady
  <2>3. Unseen
    BY <1>2, <2>1, <2>2 DEF Write!Open, Unseen
  <2> QED
    BY <1>2, <2>3 DEF Write!Open
<1>3. CASE Write!Copy(c)
  <2>1. handle[c] = tmp[target[c]] /\ handle[c] \in Files!Inodes
    BY <1>1, <1>3 DEF Write!Copy, Files!AtHome, Files!Own
  <2>2. \A h \in Hosts : file[h] # handle[c]
    BY <1>1, <1>3, <2>1, FilesAssumed DEF Write!Copy, Files!AtHome, Files!Apart,
       Files!Own, Files!Inodes, Files!WriteAssumption, Files!Steady
  <2>3. Unseen
    BY <1>3, <2>2 DEF Write!Copy, Unseen
  <2> QED
    BY <1>3, <2>3 DEF Write!Copy
<1>4. CASE \/ Write!OpenFails(c) \/ Write!SourceEnds(c) \/ Write!CopyFails(c)
           \/ Write!Close(c) \/ Write!Cleanup(c)
  BY <1>4 DEF Write!OpenFails, Write!SourceEnds, Write!CopyFails, Write!Close,
     Write!Cleanup, Unseen
<1>5. CASE Write!Rename(c) \/ Write!RenameAgain(c)
  <2>1. /\ handle[c] = tmp[target[c]] /\ handle[c] \in Files!Inodes
        /\ data[handle[c]] = Files!Whole(c)
        /\ pc[c] = "again" => file[target[c]] = None
    BY <1>1, <1>5 DEF Write!Rename, Write!RenameAgain, Files!AtHome, Files!Own,
       Files!Written
  <2>2. handle[c] # None /\ data[handle[c]][1] = c
    BY <2>1, FilesAssumed DEF Files!Whole, Files!Chunks, Files!Inodes,
       Files!WriteAssumption
  <2>3. CASE Write!Move(target[c])
    <3>1. Placed(c)
      BY <1>5, <2>1, <2>2, <2>3 DEF Write!Rename, Write!RenameAgain, Placed
    <3>2. tmp' # tmp
      BY <1>1, <2>1, <2>2, <2>3
    <3>3. pc' = [pc EXCEPT ![c] = "ended"] /\ UNCHANGED target
      BY <1>5, <3>2 DEF Write!Rename, Write!RenameAgain
    <3>4. \A d \in Uploads : d # c => result'[d] = result[d]
      BY <1>5 DEF Write!Rename, Write!RenameAgain
    <3>5. pc[c] \in {"rename", "again"}
      BY <1>5 DEF Write!Rename, Write!RenameAgain
    <3> QED
      BY <3>1, <3>3, <3>4, <3>5
  <2>4. CASE Write!Rename(c) /\ ~ Write!Move(target[c])
    BY <2>4 DEF Write!Rename, Unseen
  <2>5. CASE Write!RenameAgain(c) /\ ~ Write!Move(target[c])
    BY <2>1, <2>2, <2>5 DEF Write!RenameAgain, Unseen
  <2> QED
    BY <1>5, <2>3, <2>4, <2>5
<1>6. CASE Write!Remove(c)
  BY <1>6 DEF Write!Remove, Removed
<1> QED
  BY <1>2, <1>3, <1>4, <1>5, <1>6 DEF Write!WriteFile

----------------------------------------------------------------------------

\* The keys in a file that is there are unchanged where the file and its base are.
LEMMA SameKeys ==
    ASSUME NEW h \in Hosts, file'[h] = file[h], file[h] # None,
           data'[file[h]][1] = data[file[h]][1],
           LET x == data[file[h]][1] IN x \in Hosts \/ base'[x] = base[x]
    PROVE  KeysAt(h)' = KeysAt(h)
BY DEF KeysAt, KeysOf

\* A run that neither comes to its write nor leaves it, and does not succeed.
LEMMA AsideStep ==
    ASSUME KeysInv, DialTypes, NEW c \in Calls, NEW to,
           step' = [step EXCEPT ![c] = to], step[c] # "merge", to # "merge",
           step[c] \in {"close", "ended"} => to \in {"close", "ended"},
           UNCHANGED <<base, gapped, writing>>,
           \/ outcome' = outcome
           \/ c \in Uploads /\ outcome' = [outcome EXCEPT ![c] = "failed"]
    PROVE  KeysInv'
<1> USE DEF KeysInv, writing
<1>1. \A d \in Calls : d # c => step'[d] = step[d]
  BY DEF DialTypes
<1>2. step'[c] = to
  BY DEF DialTypes
<1>3. MergeTypes' /\ Contents'
  BY DEF MergeTypes, Contents
<1>4. Turns'
  BY <1>1, <1>2 DEF Turns, Write!Busy, Uploads
<1>5. \A h \in Hosts : Due(h)' \subseteq Due(h)
  BY DEF Due, MergeTypes
<1>6. \A h \in Hosts : KeysAt(h)' = KeysAt(h)
  BY DEF KeysAt, KeysOf
<1>7. Kept'
  BY <1>1, <1>2, <1>5, <1>6, DialAssumption DEF Kept, Uploads
<1> QED
  BY <1>3, <1>4, <1>7

\* Dial neither comes to a write nor interrupts one.
LEMMA DialIsAside ==
    ASSUME DialTypes, NEW c \in Calls, Dial(c)
    PROVE  \E to : /\ step' = [step EXCEPT ![c] = to]
                   /\ step[c] \notin {"merge", "ended"} /\ to # "merge"
                   /\ step[c] = "close" => to = "ended"
<1> USE DEF Goto, Handshake
<1>1. CASE Begin(c) \/ Auth(c) \/ Tcp(c) \/ Pin(c) \/ Login(c) \/ Ping(c)
  BY <1>1 DEF Begin, Auth, Tcp, Pin, Login, Ping
<1>2. CASE DialFails(c) \/ Close(c)
  BY <1>2 DEF DialFails, Close, Error, End
<1>3. CASE Check(c)
  <2>1. PICK v \in Verdicts(c, known[Host(c)]) :
              IF v \in Handshake THEN step' = [step EXCEPT ![c] = v] ELSE Error(c)
    BY <1>3 DEF Check
  <2> QED
    BY <1>3, <2>1 DEF Check, Error, End
<1> QED
  BY <1>1, <1>2, <1>3 DEF Dial

\* What a run reads has all that is due, and nobody writes there until it has
\* written itself.
LEMMA MergeKeeps ==
    ASSUME KeysInv, DialTypes, NEW c \in Uploads, Merge(c)
    PROVE  KeysInv'
<1> USE DEF KeysInv, writing
<1>1. /\ c \in Calls /\ step[c] = "up" /\ pc[c] = "idle" /\ Target[c] \in Hosts
      /\ \A d \in Uploads : step[d] = "merge" => Target[d] # Target[c]
  BY DialAssumption DEF Merge, MergeWith, Alone, Turns, Uploads
<1>2. Target[c] \notin gapped => file[Target[c]] # None
  BY <1>1 DEF Contents, Turns, Write!Busy
<1>3. Target[c] \notin gapped => Due(Target[c]) \subseteq KeysAt(Target[c])
  BY <1>1, <1>2 DEF Kept
<1>4. UNCHANGED <<writing, gapped>>
  BY DEF Merge, MergeWith
<1>5. CASE /\ Brought[c] \subseteq KeysAt(Target[c])
           /\ step' = [step EXCEPT ![c] = "close"]
           /\ outcome' = [outcome EXCEPT ![c] = "ok"]
           /\ UNCHANGED base
  <2>1. \A d \in Calls : d # c => step'[d] = step[d]
    BY <1>5 DEF DialTypes
  <2>2. step'[c] = "close"
    BY <1>1, <1>5 DEF DialTypes
  <2>3. MergeTypes' /\ Contents'
    BY <1>4, <1>5 DEF MergeTypes, Contents
  <2>4. Turns'
    BY <1>1, <1>4, <2>1, <2>2 DEF Turns, Write!Busy, Uploads
  <2>5. \A h \in Hosts : h # Target[c] => Due(h)' = Due(h)
    BY <1>5 DEF Due, MergeTypes
  <2>6. Due(Target[c])' \subseteq Due(Target[c]) \cup Brought[c]
    BY <1>5 DEF Due, MergeTypes
  <2>7. \A h \in Hosts : KeysAt(h)' = KeysAt(h)
    BY <1>4, <1>5 DEF KeysAt, KeysOf
  <2>8. Kept'
    BY <1>1, <1>3, <1>4, <1>5, <2>1, <2>2, <2>5, <2>6, <2>7, DialAssumption
       DEF Kept, Uploads
  <2> QED
    BY <2>3, <2>4, <2>8
<1>6. CASE /\ step' = [step EXCEPT ![c] = "merge"]
           /\ base' = [base EXCEPT ![c] = KeysAt(Target[c])]
           /\ UNCHANGED outcome
  <2>1. \A d \in Calls : d # c => step'[d] = step[d]
    BY <1>6 DEF DialTypes
  <2>2. step'[c] = "merge"
    BY <1>1, <1>6 DEF DialTypes
  <2>3. \A x : x # c => base'[x] = base[x]
    BY <1>6 DEF MergeTypes
  <2>4. KeysAt(Target[c]) \subseteq PubKeys
    BY <1>1, <1>2, UploadAssumption
       DEF Contents, KeysAt, KeysOf, MergeTypes
  <2>5. base'[c] = KeysAt(Target[c]) /\ MergeTypes'
    BY <1>4, <1>6, <2>4 DEF MergeTypes
  <2>6. Contents'
    BY <1>4 DEF Contents
  <2>7. Turns'
    BY <1>1, <1>4, <2>1, <2>2 DEF Turns, Write!Busy, Uploads
  <2>8. \A h \in Hosts : Due(h)' = Due(h)
    BY <1>6 DEF Due
  <2>9. ASSUME NEW h \in Hosts, file[h] # None
        PROVE  KeysAt(h)' = KeysAt(h)
    <3>1. data[file[h]][1] \in Hosts \/ data[file[h]][1] # c
      BY <1>1, <2>9 DEF Contents
    <3>2. file' = file /\ data' = data
      BY <1>4
    <3> QED
      BY <2>3, <2>9, <3>1, <3>2, SameKeys
  <2>10. Kept'
    BY <1>1, <1>3, <1>4, <2>1, <2>2, <2>3, <2>5, <2>8, <2>9, DialAssumption
       DEF Kept, Uploads
  <2> QED
    BY <2>5, <2>6, <2>7, <2>10
<1> QED
  BY <1>5, <1>6 DEF Merge, MergeWith

\* A gap is left only where a rename cannot replace, and is remembered.
LEMMA GapsStep ==
    ASSUME KeysInv, Files!WriteInv, NEW c \in Uploads, Gaps(c),
           target[c] = Target[c], Target[c] \in Hosts
    PROVE  gapped \subseteq gapped' /\ gapped' \subseteq Plain
<1>1. pc[c] = "again" => Target[c] \in Plain
  BY DEF Files!WriteInv, Files!Written, Files!Steady
<1> QED
  BY <1>1 DEF Gaps, KeysInv, MergeTypes

\* A step of a write leaves a file with what is due, or with a gap that its own
\* content is about to fill, or that is remembered.
LEMMA WriteKeeps ==
    ASSUME KeysInv, Files!WriteInv, NEW c \in Uploads, WriteFile(c)
    PROVE  KeysInv'
<1> USE DEF KeysInv
<1>1. step[c] = "merge" /\ UNCHANGED <<dialVars, base, outcome>> /\ Gaps(c)
  BY DEF WriteFile
<1>2. Write!WriteFile(c)
  BY DEF WriteFile
<1>3. /\ UNCHANGED target
      /\ \A d \in Uploads : d # c => pc'[d] = pc[d] /\ result'[d] = result[d]
      /\ pc'[c] # "idle" /\ pc'[c] # "dead"
      /\ pc[c] \notin {"ended", "dead"}
      /\ pc[c] = "again" => pc'[c] \in {"ended", "cleanup"}
      /\ \/ /\ Unseen /\ pc'[c] # "again"
            /\ pc'[c] = "ended" => pc[c] # "again" /\ result'[c] = "failed"
         \/ Placed(c) /\ pc'[c] = "ended"
         \/ Removed(c) /\ pc'[c] = "again"
  BY <1>2, WriteEffect
<1>4. /\ step' = step /\ target[c] = Target[c] /\ Target[c] \in Hosts
      /\ file \in [Hosts -> Files!Inodes \cup {None}]
  BY <1>1, DialAssumption DEF dialVars, dialing, Turns, Uploads, Files!WriteInv,
     Files!Typed, Files!TypeOK
<1>5. \A d \in Uploads : step[d] = "merge" /\ Target[d] = Target[c] => d = c
  BY <1>1 DEF Turns
<1>12. gapped \subseteq gapped' /\ gapped' \subseteq Plain
  BY <1>1, <1>4, GapsStep
<1>6. MergeTypes'
  BY <1>1, <1>12 DEF MergeTypes
<1>7. Turns'
  BY <1>1, <1>3, <1>4 DEF Turns, Write!Busy
<1>8. \A h \in Hosts : Due(h)' = Due(h)
  BY <1>1 DEF Due
<1>9. CASE /\ Unseen /\ pc'[c] # "again"
           /\ pc'[c] = "ended" => pc[c] # "again" /\ result'[c] = "failed"
  <2>1. \A h \in Hosts : KeysAt(h)' = KeysAt(h)
    BY <1>1, <1>9 DEF Unseen, KeysAt, KeysOf
  <2>2. Contents'
    <3>1. pc[c] = "again" => Target[c] \in gapped'
      BY <1>1, <1>3, <1>9 DEF Gaps
    <3> QED
      BY <1>3, <1>9, <1>12, <3>1 DEF Contents, Unseen
  <2>3. Kept'
    BY <1>1, <1>3, <1>4, <1>8, <1>9, <1>12, <2>1, DialAssumption
       DEF Kept, Unseen, Uploads
  <2> QED
    BY <1>6, <1>7, <2>2, <2>3
<1>10. CASE Placed(c) /\ pc'[c] = "ended"
  <2>1. /\ file'[Target[c]] # None /\ data'[file'[Target[c]]][1] = c
        /\ data' = data /\ \A h \in Hosts \ {Target[c]} : file'[h] = file[h]
    BY <1>4, <1>10 DEF Placed
  <2>2. KeysAt(Target[c])' = base[c] \cup Brought[c]
    BY <1>1, <2>1, UploadAssumption DEF KeysAt, KeysOf
  <2>3. \A h \in Hosts \ {Target[c]} : KeysAt(h)' = KeysAt(h)
    BY <1>1, <2>1 DEF KeysAt, KeysOf
  <2>4. Contents'
    BY <1>3, <1>4, <1>10, <1>12, <2>1 DEF Contents
  <2>5. Kept'
    BY <1>1, <1>3, <1>4, <1>5, <1>8, <1>12, <2>1, <2>2, <2>3, DialAssumption
       DEF Kept, Uploads
  <2> QED
    BY <1>6, <1>7, <2>4, <2>5
<1>11. CASE Removed(c) /\ pc'[c] = "again"
  <2>1. /\ file'[Target[c]] = None
        /\ data' = data /\ \A h \in Hosts \ {Target[c]} : file'[h] = file[h]
    BY <1>4, <1>11 DEF Removed
  <2>2. \A h \in Hosts \ {Target[c]} : KeysAt(h)' = KeysAt(h)
    BY <1>1, <2>1 DEF KeysAt, KeysOf
  <2>3. Contents'
    BY <1>3, <1>4, <1>11, <1>12, <2>1 DEF Contents
  <2>4. Kept'
    BY <1>1, <1>3, <1>4, <1>5, <1>8, <1>11, <1>12, <2>1, <2>2, DialAssumption
       DEF Kept, Uploads
  <2> QED
    BY <1>6, <1>7, <2>3, <2>4
<1> QED
  BY <1>3, <1>9, <1>10, <1>11

\* A run that is cut off at its write leaves what the last step left.
LEMMA LostKeeps ==
    ASSUME KeysInv, DialTypes, Files!WriteInv, NEW c \in Uploads, WriteLost(c)
    PROVE  KeysInv'
<1> USE DEF KeysInv
<1>1. /\ c \in Calls /\ step[c] = "merge" /\ step' = [step EXCEPT ![c] = "close"]
      /\ pc' = [pc EXCEPT ![c] = "dead"]
      /\ pc[c] # "idle" /\ UNCHANGED <<base, file, data, result, target>>
      /\ outcome' = [outcome EXCEPT ![c] = "failed"] /\ Gaps(c)
  BY DEF WriteLost, Goto, Write!Die, Write!Busy, Write!names, Uploads
<1>2. /\ target[c] = Target[c] /\ Target[c] \in Hosts
      /\ pc \in [Uploads -> Files!WriterPc]
  BY DialAssumption
     DEF Turns, Uploads, Files!WriteInv, Files!Typed, Files!TypeOK
<1>3. /\ \A d \in Calls : d # c => step'[d] = step[d]
      /\ \A d \in Uploads : d # c => pc'[d] = pc[d]
      /\ step'[c] = "close" /\ pc'[c] = "dead"
  BY <1>1, <1>2 DEF DialTypes
<1>4. gapped \subseteq gapped' /\ gapped' \subseteq Plain
  BY <1>1, <1>2, GapsStep
<1>5. pc[c] = "again" => Target[c] \in gapped'
  BY <1>1, <1>3 DEF Gaps
<1>6. MergeTypes'
  BY <1>1, <1>4 DEF MergeTypes
<1>7. Contents'
  BY <1>1, <1>3, <1>4, <1>5 DEF Contents
<1>8. Turns'
  BY <1>1, <1>3 DEF Turns, Write!Busy, Uploads
<1>9. \A h \in Hosts : Due(h)' \subseteq Due(h) /\ KeysAt(h)' = KeysAt(h)
  BY <1>1 DEF Due, MergeTypes, KeysAt, KeysOf
<1>10. Kept'
  BY <1>1, <1>3, <1>4, <1>9, DialAssumption DEF Kept, Uploads
<1> QED
  BY <1>6, <1>7, <1>8, <1>10

\* What a run reports after its write is so.
LEMMA WrittenKeeps ==
    ASSUME KeysInv, DialTypes, Files!WriteInv, NEW c \in Uploads, Written(c)
    PROVE  KeysInv'
<1> USE DEF KeysInv, writing
<1>1. /\ c \in Calls /\ step[c] = "merge" /\ pc[c] = "ended"
      /\ step' = [step EXCEPT ![c] = "close"]
      /\ outcome' = [outcome EXCEPT ![c] = result[c]]
      /\ UNCHANGED <<base, gapped, writing>>
      /\ result[c] \in {"none", "ok", "failed"} /\ Target[c] \in Hosts
  BY DialAssumption DEF Written, Goto, Uploads, Files!WriteInv, Files!Typed,
     Files!TypeOK
<1>2. \A d \in Calls : d # c => step'[d] = step[d]
  BY <1>1 DEF DialTypes
<1>3. step'[c] = "close"
  BY <1>1 DEF DialTypes
<1>4. \A d \in Uploads : step[d] = "merge" /\ Target[d] = Target[c] => d = c
  BY <1>1 DEF Turns
<1>5. MergeTypes' /\ Contents'
  BY <1>1 DEF MergeTypes, Contents
<1>6. Turns'
  BY <1>1, <1>2, <1>3 DEF Turns, Write!Busy, Uploads
<1>7. \A h \in Hosts : h # Target[c] => Due(h)' = Due(h)
  BY <1>1 DEF Due, MergeTypes
<1>8. /\ Due(Target[c])' \subseteq Due(Target[c]) \cup Brought[c]
      /\ result[c] # "ok" => Due(Target[c])' \subseteq Due(Target[c])
  BY <1>1 DEF Due, MergeTypes
<1>9. \A h \in Hosts : KeysAt(h)' = KeysAt(h)
  BY <1>1 DEF KeysAt, KeysOf
<1>10. Kept'
  BY <1>1, <1>2, <1>3, <1>4, <1>7, <1>8, <1>9, DialAssumption DEF Kept, Uploads
<1> QED
  BY <1>5, <1>6, <1>10

\* The invariant of UploadKey: KeysInv is inductive beside those of Dial and of
\* RemoteWrite.
LEMMA KeysStep ==
    ASSUME DialInv, KeysInv, Files!WriteInv, [Next]_vars
    PROVE  DialInv' /\ KeysInv'
<1>0. DialTypes
  BY DEF DialInv
<1>1. ASSUME NEW c \in Calls, Dialed(c) PROVE DialInv' /\ KeysInv'
  <2>1. Dial(c) /\ UNCHANGED <<base, gapped, writing>>
    BY <1>1 DEF Dialed
  <2>2. PICK to : /\ step' = [step EXCEPT ![c] = to]
                  /\ step[c] \notin {"merge", "ended"} /\ to # "merge"
                  /\ step[c] = "close" => to = "ended"
    BY <1>0, <2>1, DialIsAside
  <2>3. \/ outcome' = outcome
        \/ c \in Uploads /\ outcome' = [outcome EXCEPT ![c] = "failed"]
    BY <1>1 DEF Dialed
  <2> QED
    BY <1>0, <2>1, <2>2, <2>3, DialStep, AsideStep
<1>2. ASSUME NEW c \in Uploads, Skip(c) \/ MergeFails(c) PROVE DialInv' /\ KeysInv'
  <2>1. c \in Calls /\ UNCHANGED <<hosts, hop, conns, seen, found>>
    BY <1>2 DEF Uploads, Skip, MergeFails
  <2>2. PICK to \in {"ended", "close"} : /\ step' = [step EXCEPT ![c] = to]
                     /\ \/ step[c] = "new" /\ to = "ended"
                        \/ step[c] = "up" /\ to = "close"
    BY <1>2 DEF Skip, MergeFails, Goto
  <2>3. UNCHANGED <<base, gapped, writing>> /\ outcome' = [outcome EXCEPT ![c] = "failed"]
    BY <1>2 DEF Skip, MergeFails
  <2> QED
    BY <1>0, <1>2, <2>1, <2>2, <2>3, MoveStep, AsideStep
<1>3. ASSUME NEW c \in Uploads, Merge(c) PROVE DialInv' /\ KeysInv'
  <2>1. PICK to \in {"merge", "close"} : step' = [step EXCEPT ![c] = to]
    BY <1>3 DEF Merge, MergeWith
  <2>2. /\ c \in Calls /\ UNCHANGED <<hosts, hop, conns, seen, found>>
        /\ step[c] = "up"
    BY <1>3 DEF Uploads, Merge, MergeWith
  <2> QED
    BY <1>0, <1>3, <2>1, <2>2, MoveStep, MergeKeeps
<1>4. ASSUME NEW c \in Uploads, WriteFile(c) PROVE DialInv' /\ KeysInv'
  <2>1. UNCHANGED dialVars
    BY <1>4 DEF WriteFile
  <2>2. DialInv'
    BY <2>1 DEF dialVars, dialing, hosts, DialInv, DialTypes, Connected, Checked,
       Trusted, SlotsKept
  <2> QED
    BY <1>4, <2>2, WriteKeeps
<1>5. ASSUME NEW c \in Uploads, Written(c) PROVE DialInv' /\ KeysInv'
  <2>1. /\ c \in Calls /\ UNCHANGED <<hosts, hop, conns, seen, found>>
        /\ step[c] = "merge" /\ step' = [step EXCEPT ![c] = "close"]
    BY <1>5 DEF Uploads, Written, Goto
  <2> QED
    BY <1>0, <1>5, <2>1, MoveStep, WrittenKeeps
<1>9. ASSUME NEW c \in Uploads, WriteLost(c) PROVE DialInv' /\ KeysInv'
  <2>1. /\ c \in Calls /\ UNCHANGED <<hosts, hop, conns, seen, found>>
        /\ step[c] = "merge" /\ step' = [step EXCEPT ![c] = "close"]
    BY <1>9 DEF Uploads, WriteLost, Goto
  <2> QED
    BY <1>0, <1>9, <2>1, MoveStep, LostKeeps
<1>6. ASSUME UNCHANGED <<step, merging, writing>> PROVE KeysInv'
  <2>1. UNCHANGED <<step, base, outcome, gapped, pc, result, target, file, data>>
    BY <1>6 DEF merging, writing
  <2>2. Turns' /\ Contents' /\ MergeTypes'
    BY <2>1 DEF KeysInv, Turns, Write!Busy, Contents, MergeTypes
  <2>3. \A h \in Hosts : Due(h)' = Due(h) /\ KeysAt(h)' = KeysAt(h)
    BY <2>1 DEF Due, KeysAt, KeysOf
  <2>4. Kept'
    BY <2>1, <2>3, DialAssumption DEF KeysInv, Kept, Uploads
  <2> QED
    BY <2>2, <2>4 DEF KeysInv
<1>7. CASE Rekey /\ UNCHANGED <<merging, writing>>
  BY <1>6, <1>7, RekeyStep DEF Rekey, dialing
<1>8. CASE UNCHANGED vars
  <2>1. DialInv'
    BY <1>8 DEF vars, dialVars, dialing, hosts, DialInv, DialTypes, Connected,
       Checked, Trusted, SlotsKept
  <2> QED
    BY <1>6, <1>8, <2>1 DEF vars, dialVars, dialing
<1> QED
  BY <1>1, <1>2, <1>3, <1>4, <1>5, <1>7, <1>8, <1>9
     DEF Next, Scheduled, Upload, Over

LEMMA KeysInit == Init => DialInv /\ KeysInv
<1> SUFFICES ASSUME Init PROVE DialInv /\ KeysInv
  OBVIOUS
<1>1. DialTypes
  BY DialAssumption
     DEF Init, DialInit, DialTypes, Keys, FirstHop, Hops, Steps, NoKeys, NonePinned
<1>2. Connected /\ Checked
  BY DEF Init, DialInit, Connected, Checked, FirstHop
<1>3. SlotsKept
  <2>1. Busied(step) = {}
    BY DEF Init, DialInit, Busied
  <2> QED
    BY <2>1, FS_EmptySet, DialAssumption DEF SlotsKept
<1>4. Turns /\ MergeTypes
  BY DEF Init, DialInit, Write!Init, Turns, Write!Busy, MergeTypes, Uploads
<1>6. Contents
  <2>1. \A h \in Hosts : file[h] = h /\ data[h][1] = h /\ h # None
    BY DialAssumption
       DEF Init, Write!Init, Write!Inodes, Write!Whole, Write!Chunks
  <2> QED
    BY <2>1 DEF Contents
<1>5. Kept
  <2>1. \A h \in Hosts : Due(h) = Had[h]
    BY DEF Init, Due
  <2>2. \A h \in Hosts : file[h] = h /\ data[h][1] = h /\ h # None
    BY DialAssumption
       DEF Init, Write!Init, Write!Inodes, Write!Whole, Write!Chunks
  <2>3. \A h \in Hosts : KeysAt(h) = Had[h]
    BY <2>2 DEF KeysAt, KeysOf
  <2> QED
    BY <2>1, <2>3 DEF Init, DialInit, Kept, Uploads
<1> QED
  BY <1>1, <1>2, <1>3, <1>4, <1>5, <1>6 DEF DialInv, KeysInv

\* Every run's writes behave as RemoteWrite's do, and keep its invariant.
LEMMA WritesAsFiles == Spec => Files!Spec
BY InitIsFiles, StepIsFiles, PTL DEF Spec, Files!Spec

LEMMA FilesInvariant == Spec => []Files!WriteInv
<1>1. Files!Spec => []Files!WriteInv
  BY FilesAssumed, Files!WriteInvariant, PTL
<1> QED
  BY WritesAsFiles, <1>1, PTL

LEMMA UploadInvariant == Spec => []UploadInv
<1>1. DialInv /\ KeysInv /\ Files!WriteInv /\ [Next]_vars => DialInv' /\ KeysInv'
  BY KeysStep
<1> QED
  BY KeysInit, FilesInvariant, <1>1, PTL DEF Spec, UploadInv

\* Every variable keeps its type, and no more than Parallel probes of a doctor
\* are at work (doctor.go:48-60).
THEOREM TypeCorrect == Spec => []TypeOK
<1>1. UploadInv => TypeOK
  <2> SUFFICES ASSUME UploadInv PROVE TypeOK
    OBVIOUS
  <2>1. DialTypeOK
    BY DEF UploadInv, DialInv, DialTypes, SlotsKept, Busied, Probing, DialTypeOK
  <2>2. Write!TypeOK
    BY DEF UploadInv, Files!WriteInv, Files!Typed, Files!TypeOK, Files!Inodes,
       Files!Content, Files!Chunks, Files!WriterPc, Write!TypeOK, Write!Inodes,
       Write!Content, Write!Chunks, Write!WriterPc
  <2> QED
    BY <2>1, <2>2 DEF UploadInv, KeysInv, MergeTypes, TypeOK
<1> QED
  BY UploadInvariant, <1>1, PTL

\* A run that is over, wherever it failed, has closed every connection it had
\* opened (client.go:41-153).
THEOREM LeavesNothing == Spec => []NothingLeft
<1>1. UploadInv => NothingLeft
  BY DEF UploadInv, DialInv, Connected, NothingLeft
<1> QED
  BY UploadInvariant, <1>1, PTL

\* No hop is passed with a key that was not pinned for a host that had one, and
\* the key that was accepted is pinned (known.go:50-111).
THEOREM TrustsPinned == Spec => []PassedIsTrusted
<1>1. UploadInv => PassedIsTrusted
  BY DEF UploadInv, DialInv, Checked, Trusted, Passed, Hops, PassedIsTrusted
<1> QED
  BY UploadInvariant, <1>1, PTL

\* authorized_keys loses no key it had and has those of every run that reported
\* success, with a rename that replaces and with the fallback, when runs fail or
\* are cut off at any call, unless one of them ends in the fallback's gap
\* (uploadkey.go:181-237, files.go:238-268).
THEOREM MergesKeep == Spec => []KeysKept
<1>1. UploadInv => KeysKept
  <2> SUFFICES ASSUME UploadInv, NEW h \in Hosts \ gapped,
                      \A c \in Uploads : Target[c] = h => step[c] # "merge"
               PROVE  Due(h) \subseteq KeysAt(h)
    BY DEF KeysKept, Due
  <2>1. file[h] # None
    BY DEF UploadInv, KeysInv, Contents, Turns, Write!Busy
  <2> QED
    BY <2>1 DEF UploadInv, KeysInv, Kept
<1> QED
  BY UploadInvariant, <1>1, PTL

\* authorized_keys is an atomic file while keys are merged into it: whatever
\* fails, it is replaced by one whole content or stays, and is gone only in the
\* fallback (uploadkey.go:231, files.go:238-268).
THEOREM WritesAtomically == Spec => Files!AtomicSpec
<1>1. Files!Spec => Files!AtomicSpec
  BY FilesAssumed, Files!ImplementsAtomic, PTL
<1> QED
  BY WritesAsFiles, <1>1, PTL

============================================================================
