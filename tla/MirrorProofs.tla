---------------------------- MODULE MirrorProofs ----------------------------
(* Proofs about Mirror, for any tree, pool of workers and number of changes. *)
EXTENDS Mirror, TLAPS

\* TypeOK, in parts.
TreesType ==
    /\ remote \in [Files -> Versions \cup {None}]
    /\ local \in [Files -> Copies \cup {None}]
    /\ edits \in 0..Edits

CommandType ==
    /\ fails \in 0..Fails /\ conn \in {"up", "lost"} /\ stop \in BOOLEAN
    /\ main \in {"walk", "plan", "feed", "delete", "sleep", "ended"}
    /\ failed \in BOOLEAN /\ still \in BOOLEAN
    /\ report \in {"none", "ok", "error"}

RoundType ==
    /\ todo \subseteq Files /\ jobs \subseteq Files /\ gone \subseteq Files
    /\ missed \subseteq Files
    /\ walked \in [Files -> Versions \cup {None}]
    /\ Seen \cap Excluded = {}

PoolType ==
    busy \in [Workers -> [file : Files \cup {None},
                          stage : {"idle", "open", "copy", "stamp"},
                          from : Versions \cup {None}]]

Types == TreesType /\ CommandType /\ RoundType /\ PoolType

LEMMA TypesAre == Types <=> TypeOK
BY DEF Types, TreesType, CommandType, RoundType, PoolType, TypeOK

\* A file that is downloaded was seen by the walk; its download ends before the
\* delete pass begins, and until then nothing removes what it has created.
Downloads ==
    /\ jobs \subseteq Seen
    /\ \A w \in Workers :
          /\ busy[w].stage = "idle" => busy[w].file = None
          /\ busy[w].stage # "idle" => busy[w].file \in Seen /\ main = "feed"
          /\ busy[w].stage \in {"copy", "stamp"} => local[busy[w].file] # None
          /\ busy[w].stage = "copy" => busy[w].from \in Versions

\* What is to be deleted was not seen; outside a round nothing is.
Deletions ==
    /\ gone \cap Seen = {}
    /\ main \in {"walk", "plan", "sleep", "ended"} => gone = {} /\ jobs = {}

MirrorInv == Types /\ Downloads /\ Deletions

LEMMA RoundStep == MirrorInv /\ Main => MirrorInv'
<1> SUFFICES ASSUME MirrorInv, Main PROVE MirrorInv'
  OBVIOUS
<1> USE DEF MirrorInv, Types, world, trouble, round, Fail
<1>1. CASE Walk
  <2>1. TreesType' /\ CommandType' /\ RoundType'
    BY <1>1, MirrorAssumption DEF TreesType, CommandType, RoundType, Seen, Walk
  <2>2. PoolType'
    BY <1>1, MirrorAssumption DEF PoolType, Walk
  <2>3. Downloads' /\ Deletions'
    BY <1>1, MirrorAssumption
       DEF Downloads, Deletions, RoundType, CommandType, Seen, Walk
  <2> QED
    BY <2>1, <2>2, <2>3 DEF MirrorInv, Types
<1>2. CASE WalkFails
  <2>1. CommandType'
    <3>1. fails' \in 0..Fails
      BY <1>2, MirrorAssumption DEF CommandType, WalkFails
    <3> QED
      BY <1>2, <3>1 DEF CommandType, WalkFails, EndRound
  <2>2. TreesType' /\ RoundType'
    BY <1>2, MirrorAssumption
       DEF TreesType, RoundType, Seen, WalkFails, EndRound
  <2>3. PoolType'
    BY <1>2, MirrorAssumption DEF PoolType, WalkFails, EndRound
  <2>4. Downloads' /\ Deletions'
    BY <1>2, MirrorAssumption
       DEF Downloads, Deletions, RoundType, PoolType, CommandType, Seen,
           WalkFails, EndRound
  <2> QED
    BY <2>1, <2>2, <2>3, <2>4 DEF MirrorInv, Types
<1>3. CASE Plan
  <2>1. TreesType' /\ RoundType'
    BY <1>3, MirrorAssumption DEF TreesType, RoundType, Seen, Plan
  <2>0. CommandType'
    <3>1. fails' = fails \/ (fails < Fails /\ fails' = fails + 1)
      BY <1>3 DEF Plan
    <3>2. fails' \in 0..Fails
      BY <3>1, MirrorAssumption DEF CommandType
    <3>3. main' = "feed" /\ UNCHANGED <<conn, stop, failed, still, report>>
      BY <1>3 DEF Plan
    <3> QED
      BY <3>2, <3>3 DEF CommandType
  <2>2. PoolType'
    BY <1>3, MirrorAssumption DEF PoolType, Plan
  <2>3. Downloads' /\ Deletions'
    BY <1>3, MirrorAssumption
       DEF Downloads, Deletions, PoolType, RoundType, Seen, Plan
  <2> QED
    BY <2>0, <2>1, <2>2, <2>3 DEF MirrorInv, Types
<1>4. CASE Feed
  <2>1. TreesType' /\ CommandType' /\ RoundType'
    BY <1>4, MirrorAssumption
       DEF TreesType, CommandType, RoundType, Seen, Feed, Idle
  <2>2. PoolType'
    BY <1>4, MirrorAssumption DEF PoolType, RoundType, Feed, Idle
  <2>3. Downloads' /\ Deletions'
    BY <1>4, MirrorAssumption
       DEF Downloads, PoolType, RoundType, Seen, Deletions, Feed, Idle
  <2> QED
    BY <2>1, <2>2, <2>3 DEF MirrorInv, Types
<1>5. CASE Joined
  <2>1. TreesType' /\ CommandType' /\ RoundType'
    BY <1>5, MirrorAssumption
       DEF TreesType, CommandType, RoundType, Seen, Joined
  <2>2. PoolType'
    BY <1>5, MirrorAssumption DEF PoolType, Joined
  <2>3. Downloads' /\ Deletions'
    BY <1>5, MirrorAssumption
       DEF Downloads, PoolType, RoundType, Seen, Deletions, Joined
  <2> QED
    BY <2>1, <2>2, <2>3 DEF MirrorInv, Types
<1>6. CASE DeleteGone
  <2>1. TreesType' /\ RoundType'
    BY <1>6, MirrorAssumption
       DEF TreesType, RoundType, Seen, DeleteGone, EndRound
  <2>0. CommandType'
    <3>1. fails' = fails \/ (fails < Fails /\ fails' = fails + 1)
      BY <1>6 DEF DeleteGone
    <3>2. fails' \in 0..Fails
      BY <3>1, MirrorAssumption DEF CommandType
    <3> QED
      BY <1>6, <3>2 DEF CommandType, DeleteGone, EndRound
  <2>2. PoolType'
    BY <1>6, MirrorAssumption DEF PoolType, DeleteGone, EndRound
  <2>3. Downloads' /\ Deletions'
    BY <1>6, MirrorAssumption
       DEF Downloads, PoolType, RoundType, Seen, Deletions, DeleteGone,
           EndRound
  <2> QED
    BY <2>0, <2>1, <2>2, <2>3 DEF MirrorInv, Types
<1>7. CASE NextRound
  <2>1. TreesType' /\ CommandType' /\ RoundType'
    BY <1>7, MirrorAssumption
       DEF TreesType, CommandType, RoundType, Seen, NextRound
  <2>2. PoolType'
    BY <1>7, MirrorAssumption DEF PoolType, NextRound
  <2>3. Downloads' /\ Deletions'
    BY <1>7, MirrorAssumption
       DEF Downloads, Deletions, PoolType, Seen, NextRound
  <2> QED
    BY <2>1, <2>2, <2>3 DEF MirrorInv, Types
<1> QED
  BY <1>1, <1>2, <1>3, <1>4, <1>5, <1>6, <1>7 DEF Main

LEMMA Filled ==
    ASSUME NEW w \in Workers, MirrorInv, Open(w) \/ Copy(w) \/ Stamp(w)
    PROVE  /\ busy[w].file \in Files
           /\ \E c \in Copies : local' = [local EXCEPT ![busy[w].file] = c]
<1> DEFINE f == busy[w].file
<1> USE DEF MirrorInv, Types, TreesType, RoundType, Downloads, Seen, At
<1>1. f \in Files /\ walked[f] \in Versions
  BY MirrorAssumption DEF Open, Copy, Stamp
<1>2. CASE Open(w)
  BY <1>1, <1>2 DEF Open, Copies
<1>3. CASE Copy(w)
  <2>1. busy[w].from \in Versions
    BY <1>3 DEF Copy
  <2>2. PICK d \in Versions \cup {Torn} :
            local' = [local EXCEPT ![f] = [data |-> d, mtime |-> Now]]
    BY <1>3, <2>1 DEF Copy
  <2>3. [data |-> d, mtime |-> Now] \in Copies
    BY DEF Copies
  <2> QED
    BY <1>1, <2>2, <2>3
<1>4. CASE Stamp(w)
  <2>1. local[f] \in Copies
    BY <1>1, <1>4 DEF Stamp
  <2>2. [local[f] EXCEPT !.mtime = walked[f]] \in Copies
    BY <1>1, <2>1 DEF Copies
  <2>3. [local EXCEPT ![f] = local[f]] = local
    OBVIOUS
  <2> QED
    BY <1>1, <1>4, <2>1, <2>2, <2>3 DEF Stamp
<1> QED
  BY <1>2, <1>3, <1>4

LEMMA WorkerStep ==
    ASSUME NEW w \in Workers, MirrorInv, Work(w)
    PROVE  MirrorInv'
<1> USE DEF MirrorInv, Types, world, trouble, round, Fail
<1>1. CASE WorkerFails(w)
  <2>1. TreesType' /\ CommandType' /\ RoundType'
    BY <1>1, MirrorAssumption
       DEF TreesType, CommandType, RoundType, Seen, WorkerFails, At, Idle
  <2>2. PoolType'
    BY <1>1, MirrorAssumption DEF PoolType, WorkerFails, At, Idle
  <2>3. Downloads' /\ Deletions'
    BY <1>1, MirrorAssumption
       DEF Downloads, PoolType, RoundType, Seen, Deletions, WorkerFails, At,
           Idle
  <2> QED
    BY <2>1, <2>2, <2>3 DEF MirrorInv, Types
<1>2. CASE Open(w)
  <2>1. TreesType'
    BY <1>2, Filled DEF TreesType, Open
  <2>2. CommandType' /\ RoundType'
    BY <1>2, MirrorAssumption DEF CommandType, RoundType, Seen, Open, At, Sftp
  <2>3. PoolType'
    <3>1. remote[busy[w].file] \in Versions
      BY <1>2, MirrorAssumption
         DEF PoolType, TreesType, Downloads, RoundType, Seen, Open, At
    <3> QED
      BY <1>2, <3>1 DEF PoolType, Open
  <2>4. Downloads' /\ Deletions'
    BY <1>2, MirrorAssumption
       DEF Downloads, PoolType, TreesType, RoundType, Copies, Seen, Deletions,
           Open, At, Sftp
  <2> QED
    BY <2>1, <2>2, <2>3, <2>4 DEF MirrorInv, Types
<1>3. CASE Copy(w)
  <2>1. TreesType'
    BY <1>3, Filled DEF TreesType, Copy
  <2>2. CommandType' /\ RoundType'
    BY <1>3, MirrorAssumption DEF CommandType, RoundType, Seen, Copy, At, Sftp
  <2>3. PoolType'
    BY <1>3, MirrorAssumption DEF PoolType, Copy, At, Sftp
  <2>4. Downloads' /\ Deletions'
    BY <1>3, MirrorAssumption
       DEF Downloads, PoolType, TreesType, RoundType, Copies, Seen, Deletions,
           Copy, At, Sftp
  <2> QED
    BY <2>1, <2>2, <2>3, <2>4 DEF MirrorInv, Types
<1>4. CASE Stamp(w)
  <2>1. TreesType'
    BY <1>4, Filled DEF TreesType, Stamp
  <2>2. CommandType'
    <3>1. fails' = fails \/ (fails < Fails /\ fails' = fails + 1)
      BY <1>4 DEF Stamp
    <3>2. fails' \in 0..Fails
      BY <3>1, MirrorAssumption DEF CommandType
    <3> QED
      BY <1>4, <3>2 DEF CommandType, Stamp
  <2>5. RoundType'
    BY <1>4, MirrorAssumption DEF RoundType, Seen, Stamp
  <2>3. PoolType'
    BY <1>4, MirrorAssumption DEF PoolType, Stamp, At, Idle
  <2>4. Downloads' /\ Deletions'
    BY <1>4, MirrorAssumption
       DEF Downloads, PoolType, TreesType, RoundType, Copies, Seen, Deletions,
           Stamp, At, Idle
  <2> QED
    BY <2>1, <2>2, <2>3, <2>4, <2>5 DEF MirrorInv, Types
<1> QED
  BY <1>1, <1>2, <1>3, <1>4 DEF Work

LEMMA MirrorStep == MirrorInv /\ [Next]_vars => MirrorInv'
<1> SUFFICES ASSUME MirrorInv, [Next]_vars PROVE MirrorInv'
  OBVIOUS
<1>1. CASE Main
  BY <1>1, RoundStep
<1>2. ASSUME NEW w \in Workers, Work(w) PROVE MirrorInv'
  BY <1>2, WorkerStep
<1> USE DEF MirrorInv, Types, world, trouble, round, Fail
<1>3. CASE Edit
  <2>1. TreesType'
    BY <1>3, MirrorAssumption DEF TreesType, Edit, Versions
  <2>2. CommandType'
    BY <1>3, MirrorAssumption DEF CommandType, Edit, Versions
  <2>3. RoundType'
    BY <1>3, MirrorAssumption DEF RoundType, Seen, Edit, Versions
  <2>4. PoolType'
    BY <1>3, MirrorAssumption DEF PoolType, Edit, Versions
  <2>5. Downloads' /\ Deletions'
    BY <1>3, MirrorAssumption DEF Downloads, Seen, Deletions, Edit, Versions
  <2> QED
    BY <2>1, <2>2, <2>3, <2>4, <2>5 DEF MirrorInv, Types
<1>4. CASE Lose \/ Interrupt
  <2>1. TreesType' /\ CommandType' /\ RoundType'
    BY <1>4, MirrorAssumption
       DEF TreesType, CommandType, RoundType, Seen, Lose, Interrupt
  <2>2. PoolType'
    BY <1>4, MirrorAssumption DEF PoolType, Lose, Interrupt
  <2>3. Downloads' /\ Deletions'
    BY <1>4, MirrorAssumption DEF Downloads, Seen, Deletions, Lose, Interrupt
  <2> QED
    BY <2>1, <2>2, <2>3 DEF MirrorInv, Types
<1>5. CASE UNCHANGED vars
  <2>1. TreesType' /\ CommandType' /\ RoundType'
    BY <1>5, MirrorAssumption DEF TreesType, CommandType, RoundType, Seen, vars
  <2>2. PoolType'
    BY <1>5, MirrorAssumption DEF PoolType, vars
  <2>3. Downloads' /\ Deletions'
    BY <1>5, MirrorAssumption DEF Downloads, Seen, Deletions, vars
  <2> QED
    BY <2>1, <2>2, <2>3 DEF MirrorInv, Types
<1> QED
  BY <1>1, <1>2, <1>3, <1>4, <1>5 DEF Next, Ended

LEMMA MirrorInvariant == Spec => []MirrorInv
<1>1. ASSUME Init PROVE MirrorInv
  <2>1. TreesType
    <3>1. 1 \in Versions /\ 0 \in 0..Edits
      BY MirrorAssumption DEF Versions
    <3>2. [data |-> Torn, mtime |-> Now] \in Copies
      BY DEF Copies
    <3> QED
      BY <1>1, <3>1, <3>2 DEF Init, TreesType
  <2>2. CommandType /\ RoundType
    <3>1. 0 \in 0..Fails
      BY MirrorAssumption
    <3> QED
      BY <1>1, <3>1 DEF Init, CommandType, RoundType, Seen
  <2>3. PoolType
    BY <1>1 DEF Init, PoolType, Idle
  <2>4. Downloads /\ Deletions
    BY <1>1 DEF Init, Downloads, Deletions, Seen, Idle
  <2> QED
    BY <2>1, <2>2, <2>3, <2>4 DEF MirrorInv, Types
<1> QED
  BY <1>1, MirrorStep, PTL DEF Spec

\* A mirror never stamps a file it does not have, nor with the mtime of one its
\* walk has not seen (mirror.go:236-270).
THEOREM TypeCorrect == Spec => []TypeOK
<1>1. MirrorInv => TypeOK
  BY TypesAre DEF MirrorInv
<1> QED
  BY MirrorInvariant, <1>1, PTL

\* Whatever fails or changes meanwhile, the delete pass removes nothing the walk of
\* the same round has seen (mirror.go:276-291).
THEOREM KeepsSeen == Spec => SeenKept
<1>1. MirrorInv /\ [Next]_vars =>
          [\A f \in Files : local[f] # None /\ local'[f] = None => walked[f] = None]_vars
  <2> SUFFICES ASSUME MirrorInv, [Next]_vars,
                      NEW f \in Files, local[f] # None, local'[f] = None
               PROVE  walked[f] = None
    BY DEF vars
  <2>1. ASSUME DeleteGone PROVE walked[f] = None
    <3>1. PICK g \in gone : local' = [local EXCEPT ![g] = None]
      BY <2>1 DEF DeleteGone
    <3>2. f = g
      BY <3>1 DEF MirrorInv, Types, TreesType
    <3> QED
      BY <3>1, <3>2 DEF MirrorInv, Deletions, Seen
  <2>2. ASSUME NEW w \in Workers, Work(w) PROVE FALSE
    <3>1. CASE WorkerFails(w)
      BY <3>1 DEF WorkerFails
    <3>2. CASE Open(w) \/ Copy(w) \/ Stamp(w)
      BY <3>2, Filled, MirrorAssumption DEF MirrorInv, Types, TreesType
    <3> QED
      BY <2>2, <3>1, <3>2 DEF Work
  <2> QED
    BY <2>1, <2>2
       DEF Next, Main, Walk, WalkFails, Plan, Feed, Joined, NextRound,
           EndRound, Edit, Lose, Interrupt, Ended, vars, world
<1> QED
  BY MirrorInvariant, <1>1, PTL DEF Spec, SeenKept

----------------------------------------------------------------------------
(* What a round that succeeds leaves.                                      *)

\* No version is from the future.
Aged ==
    /\ \A f \in Files : remote[f] # None => remote[f] <= edits + 1
    /\ \A f \in Files : walked[f] # None => walked[f] <= edits + 1
    /\ \A f \in Files : local[f] # None /\ local[f].mtime \in Versions
                           => local[f].mtime <= edits + 1

\* A file that looks like the remote one is the remote one: a stamp that does not
\* tell the truth names a version the remote file will not have again.
Stamped ==
    \A f \in Files : local[f] # None /\ local[f].mtime \in Versions =>
        local[f].data = local[f].mtime \/ remote[f] # local[f].mtime

\* So will the stamp of a download at work, which is the only one of its file.
Pulled ==
    /\ \A w \in Workers : LET f == busy[w].file IN
          /\ busy[w].stage = "copy" =>
                busy[w].from = walked[f] \/ remote[f] # walked[f]
          /\ busy[w].stage = "stamp" =>
                local[f].data = walked[f] \/ remote[f] # walked[f]
    /\ \A v, w \in Workers :
          busy[v].file = busy[w].file /\ busy[w].file # None => v = w
    /\ \A w \in Workers : busy[w].file \notin jobs

\* The local file is stamped with what the walk has seen, or has its content.
Fresh(f) ==
    /\ local[f] # None
    /\ \/ local[f].mtime = walked[f]
       \/ local[f].data = walked[f] \/ remote[f] # walked[f]

\* A file that the walk has seen is to be downloaded, or is fresh, unless a download
\* has failed.
Covered ==
    /\ main \in {"plan", "feed", "delete"} => todo = {}
    /\ main = "delete" => jobs = {}
    /\ main \in {"feed", "delete"} /\ ~failed => \A f \in Seen :
          \/ f \in jobs \/ \E w \in Workers : busy[w].file = f
          \/ Fresh(f)

\* One that it has not seen is to be deleted, or is not there, or was missed.
Swept ==
    main \in {"feed", "delete"} /\ Delete =>
        \A f \in Files \ Seen : local[f] = None \/ f \in gone \/ f \in missed

\* What the walk has seen is so, while nothing changes.
Walked ==
    still /\ main \in {"walk", "plan", "feed", "delete"} =>
        \A f \in Included \ todo : walked[f] = remote[f]

SyncInv ==
    Aged /\ Stamped /\ Pulled /\ Covered /\ Swept /\ Walked /\ SuccessIsSynced

LEMMA SyncRound == MirrorInv /\ SyncInv /\ Main => SyncInv'
<1> SUFFICES ASSUME MirrorInv, SyncInv, Main PROVE SyncInv'
  OBVIOUS
<1> USE MirrorAssumption
    DEF MirrorInv, Types, TreesType, CommandType, RoundType, Seen, SyncInv,
        Included, Fail, Fresh, world, trouble, round
<1>1. CASE Walk
  <2>1. Aged' /\ Stamped'
    BY <1>1 DEF Aged, Stamped, Copies, Walk
  <2>2. Pulled'
    BY <1>1 DEF Pulled, Downloads, PoolType, Walk
  <2>3. Covered'
    BY <1>1 DEF Covered, Downloads, Deletions, PoolType, Walk
  <2>4. Swept'
    BY <1>1 DEF Swept, Walk
  <2>5. Walked'
    BY <1>1 DEF Walked, Covered, Walk
  <2>6. SuccessIsSynced'
    BY <1>1 DEF SuccessIsSynced, Walk
  <2> QED
    BY <2>1, <2>2, <2>3, <2>4, <2>5, <2>6
<1>2. CASE WalkFails
  <2>1. Aged' /\ Stamped'
    BY <1>2 DEF Aged, Stamped, Copies, WalkFails, EndRound
  <2>2. Pulled'
    BY <1>2 DEF Pulled, Downloads, PoolType, WalkFails, EndRound
  <2>3. Covered'
    BY <1>2 DEF Covered, Downloads, Deletions, PoolType, WalkFails, EndRound
  <2>4. Swept'
    BY <1>2 DEF Swept, WalkFails, EndRound
  <2>5. Walked'
    BY <1>2 DEF Walked, Covered, WalkFails, EndRound
  <2>6. SuccessIsSynced'
    BY <1>2 DEF SuccessIsSynced, WalkFails, EndRound
  <2> QED
    BY <2>1, <2>2, <2>3, <2>4, <2>5, <2>6
<1>3. CASE Plan
  <2>1. Aged' /\ Stamped'
    BY <1>3 DEF Aged, Stamped, Copies, Plan
  <2>2. Pulled'
    BY <1>3 DEF Pulled, Downloads, PoolType, Plan
  <2>3. Covered'
    BY <1>3 DEF Covered, Downloads, Deletions, PoolType, Plan
  <2>4. Swept'
    BY <1>3 DEF Swept, Plan
  <2>5. Walked'
    BY <1>3 DEF Walked, Covered, Plan
  <2>6. SuccessIsSynced'
    BY <1>3 DEF SuccessIsSynced, Plan
  <2> QED
    BY <2>1, <2>2, <2>3, <2>4, <2>5, <2>6
<1>4. CASE Feed
  <2>1. Aged' /\ Stamped'
    BY <1>4 DEF Aged, Stamped, Copies, Feed, Idle
  <2>2. Pulled'
    BY <1>4 DEF Pulled, Downloads, PoolType, Feed, Idle
  <2>3. Covered'
    BY <1>4 DEF Covered, Downloads, Deletions, PoolType, Feed, Idle
  <2>4. Swept'
    BY <1>4 DEF Swept, Feed, Idle
  <2>5. Walked'
    BY <1>4 DEF Walked, Covered, Feed, Idle
  <2>6. SuccessIsSynced'
    BY <1>4 DEF SuccessIsSynced, Feed, Idle
  <2> QED
    BY <2>1, <2>2, <2>3, <2>4, <2>5, <2>6
<1>5. CASE Joined
  <2>1. Aged' /\ Stamped'
    BY <1>5 DEF Aged, Stamped, Copies, Joined
  <2>2. Pulled'
    BY <1>5 DEF Pulled, Downloads, PoolType, Joined
  <2>3. Covered'
    BY <1>5 DEF Covered, Downloads, Deletions, PoolType, Joined
  <2>4. Swept'
    BY <1>5 DEF Swept, Joined
  <2>5. Walked'
    BY <1>5 DEF Walked, Covered, Joined
  <2>6. SuccessIsSynced'
    BY <1>5 DEF SuccessIsSynced, Joined
  <2> QED
    BY <2>1, <2>2, <2>3, <2>4, <2>5, <2>6
<1>6. CASE DeleteGone
  <2>1. Aged' /\ Stamped'
    BY <1>6 DEF Aged, Stamped, Copies, DeleteGone, EndRound
  <2>2. Pulled'
    BY <1>6 DEF Pulled, Downloads, PoolType, DeleteGone, EndRound
  <2>3. Covered'
    BY <1>6 DEF Covered, Downloads, Deletions, PoolType, DeleteGone, EndRound
  <2>4. Swept'
    BY <1>6 DEF Swept, DeleteGone, EndRound
  <2>5. Walked'
    BY <1>6 DEF Walked, Covered, DeleteGone, EndRound
  <2>6. SuccessIsSynced'
    <3>1. CASE gone # {}
      BY <1>6, <3>1 DEF SuccessIsSynced, DeleteGone
    <3>2. CASE gone = {} /\ (failed \/ ~still)
      BY <1>6, <3>2 DEF SuccessIsSynced, DeleteGone, EndRound
    <3>3. CASE gone = {} /\ ~failed /\ still
      <4>1. UNCHANGED <<world, local, still, missed>> /\ main = "delete"
        BY <1>6, <3>3 DEF DeleteGone
      <4>2. \A w \in Workers : busy[w].file = None
        BY <4>1 DEF Downloads, PoolType
      <4>3. ASSUME NEW f \in Included PROVE Synced(f) \/ (remote[f] = None /\ f \in missed)
        <5>1. f \in Files /\ walked[f] = remote[f]
          BY <3>3, <4>1 DEF Walked, Covered
        <5>2. CASE remote[f] = None
          BY <3>3, <4>1, <5>1, <5>2 DEF Swept, Synced
        <5>3. CASE remote[f] # None
          <6>1. f \in Seen /\ f \notin jobs
            BY <4>1, <5>1, <5>3 DEF Covered
          <6>2. local[f] # None
                   /\ (local[f].mtime = remote[f] \/ local[f].data = remote[f])
            BY <3>3, <4>1, <4>2, <5>1, <6>1 DEF Covered
          <6> QED
            BY <5>1, <5>3, <6>2 DEF Stamped, Synced
        <5> QED
          BY <5>2, <5>3
      <4> QED
        BY <4>1, <4>3 DEF SuccessIsSynced, Synced
    <3> QED
      BY <3>1, <3>2, <3>3
  <2> QED
    BY <2>1, <2>2, <2>3, <2>4, <2>5, <2>6
<1>7. CASE NextRound
  <2>1. Aged' /\ Stamped'
    BY <1>7 DEF Aged, Stamped, Copies, NextRound
  <2>2. Pulled'
    BY <1>7 DEF Pulled, Downloads, PoolType, NextRound
  <2>3. Covered'
    BY <1>7 DEF Covered, Downloads, Deletions, PoolType, NextRound
  <2>4. Swept'
    BY <1>7 DEF Swept, NextRound
  <2>5. Walked'
    BY <1>7 DEF Walked, Covered, NextRound
  <2>6. SuccessIsSynced'
    BY <1>7 DEF SuccessIsSynced, NextRound
  <2> QED
    BY <2>1, <2>2, <2>3, <2>4, <2>5, <2>6
<1> QED
  BY <1>1, <1>2, <1>3, <1>4, <1>5, <1>6, <1>7 DEF Main

LEMMA SyncWork ==
    ASSUME NEW w \in Workers, MirrorInv, SyncInv, Work(w)
    PROVE  SyncInv'
<1> USE MirrorAssumption
    DEF MirrorInv, Types, TreesType, CommandType, RoundType, PoolType, Seen,
        SyncInv, Included, Fail, Fresh, world, trouble, round, At, Sftp
<1>0. main = "feed" /\ busy[w].file \in Seen
  BY DEF Work, WorkerFails, Open, Copy, Stamp, Downloads
<1>1. CASE WorkerFails(w)
  <2>1. Aged'
    BY <1>1 DEF Aged, Copies, WorkerFails, Idle
  <2>2. Stamped'
    BY <1>1 DEF Stamped, Pulled, Copies, WorkerFails, Idle
  <2>3. Pulled'
    BY <1>1 DEF Pulled, WorkerFails, Idle
  <2>4. Covered'
    BY <1>0, <1>1 DEF Covered, Pulled, WorkerFails, Idle
  <2>5. Swept'
    BY <1>0, <1>1 DEF Swept, WorkerFails, Idle
  <2>6. Walked' /\ SuccessIsSynced'
    BY <1>0, <1>1 DEF Walked, SuccessIsSynced, WorkerFails, Idle
  <2> QED
    BY <2>1, <2>2, <2>3, <2>4, <2>5, <2>6
<1>2. CASE Open(w)
  <2>1. Aged'
    BY <1>2 DEF Aged, Copies, Open
  <2>2. Stamped'
    BY <1>2 DEF Stamped, Pulled, Copies, Open
  <2>3. Pulled'
    BY <1>2 DEF Pulled, Open
  <2>4. Covered'
    BY <1>0, <1>2 DEF Covered, Pulled, Open
  <2>5. Swept'
    BY <1>0, <1>2 DEF Swept, Open
  <2>6. Walked' /\ SuccessIsSynced'
    BY <1>0, <1>2 DEF Walked, SuccessIsSynced, Open
  <2> QED
    BY <2>1, <2>2, <2>3, <2>4, <2>5, <2>6
<1>3. CASE Copy(w)
  <2>1. Aged'
    BY <1>3 DEF Aged, Copies, Copy
  <2>2. Stamped'
    BY <1>3 DEF Stamped, Pulled, Copies, Copy
  <2>3. Pulled'
    <3>1. PICK d : /\ d = busy[w].from \/ remote[busy[w].file] # busy[w].from
                   /\ remote[busy[w].file] = None => d = busy[w].from
                   /\ local' = [local EXCEPT ![busy[w].file] =
                                    [data |-> d, mtime |-> Now]]
      BY <1>3 DEF Copy
    <3>2. /\ busy' = [busy EXCEPT ![w] = [busy[w] EXCEPT !.stage = "stamp"]]
          /\ busy[w].stage = "copy"
          /\ UNCHANGED <<remote, walked, jobs>>
      BY <1>3 DEF Copy
    <3>3. busy[w].from = walked[busy[w].file]
             \/ remote[busy[w].file] # walked[busy[w].file]
      BY <3>2 DEF Pulled
    <3>4. local'[busy[w].file].data = d
      BY <1>0, <3>1
    <3>5. \A v \in Workers : v # w => busy'[v] = busy[v]
      BY <3>2
    <3>6. busy[w] \in [file : Files \cup {None},
                       stage : {"idle", "open", "copy", "stamp"},
                       from : Versions \cup {None}]
      OBVIOUS
    <3>7. busy'[w].file = busy[w].file /\ busy'[w].stage = "stamp"
      BY <3>2, <3>6
    <3>8. ASSUME NEW v \in Workers
          PROVE  LET f == busy'[v].file IN
                    /\ busy'[v].stage = "copy" =>
                          busy'[v].from = walked'[f] \/ remote'[f] # walked'[f]
                    /\ busy'[v].stage = "stamp" =>
                          local'[f].data = walked'[f] \/ remote'[f] # walked'[f]
      <4>1. CASE v = w
        <5>1. d = walked[busy[w].file] \/ remote[busy[w].file] # walked[busy[w].file]
          BY <1>0, <3>1, <3>3
        <5> QED
          BY <3>2, <3>4, <3>7, <4>1, <5>1
      <4>2. CASE v # w
        <5>1. busy'[v] = busy[v]
          BY <3>5, <4>2
        <5>2. CASE busy[v].file = busy[w].file
          BY <1>0, <4>2, <5>2 DEF Pulled
        <5>3. CASE busy[v].file # busy[w].file
          <6>1. CASE busy[v].stage = "stamp"
            <7>1. busy[v].file \in Files
              BY <6>1 DEF Downloads
            <7>2. local'[busy[v].file] = local[busy[v].file]
              BY <3>1, <5>3, <7>1
            <7> QED
              BY <3>2, <5>1, <6>1, <7>2 DEF Pulled
          <6>2. CASE busy[v].stage # "stamp"
            BY <3>2, <5>1, <6>2 DEF Pulled
          <6> QED
            BY <6>1, <6>2
        <5> QED
          BY <5>2, <5>3
      <4> QED
        BY <4>1, <4>2
    <3>9. \A v \in Workers : busy'[v].file = busy[v].file
      BY <3>5, <3>7
    <3>10. /\ \A v, u \in Workers :
                busy'[v].file = busy'[u].file /\ busy'[v].file # None => v = u
           /\ \A v \in Workers : busy'[v].file \notin jobs'
      BY <3>2, <3>9 DEF Pulled
    <3> QED
      BY <3>8, <3>10 DEF Pulled
  <2>4. Covered'
    BY <1>0, <1>3 DEF Covered, Pulled, Copy
  <2>5. Swept'
    BY <1>0, <1>3 DEF Swept, Copy
  <2>6. Walked' /\ SuccessIsSynced'
    BY <1>0, <1>3 DEF Walked, SuccessIsSynced, Copy
  <2> QED
    BY <2>1, <2>2, <2>3, <2>4, <2>5, <2>6
<1>4. CASE Stamp(w)
  <2> DEFINE g == busy[w].file
  <2>1. /\ \/ local' = [local EXCEPT ![g] = [local[g] EXCEPT !.mtime = walked[g]]]
           \/ local' = local
        /\ busy' = [busy EXCEPT ![w] = Idle]
        /\ busy[w].stage = "stamp"
        /\ UNCHANGED <<remote, edits, main, todo, jobs, walked, gone, missed, failed,
                       report, still>>
    BY <1>4 DEF Stamp
  <2>2. local[g] \in Copies /\ g \in Files /\ walked[g] \in Versions
    BY <1>0, <2>1 DEF Downloads
  <2>3. local[g].data = walked[g] \/ remote[g] # walked[g]
    BY <2>1 DEF Pulled
  <2>4. /\ local'[g] \in Copies /\ local'[g].data = local[g].data
        /\ local'[g].mtime \in {local[g].mtime, walked[g]}
    BY <2>1, <2>2 DEF Copies
  <2>5. \A f \in Files : f # g => local'[f] = local[f]
    BY <2>1
  <2>6. \A v \in Workers : v # w => busy'[v] = busy[v]
    BY <2>1
  <2>7. busy'[w] = Idle
    BY <2>1
  <2>8. Aged'
    <3>1. ASSUME NEW f \in Files, local'[f] # None, local'[f].mtime \in Versions
          PROVE  local'[f].mtime <= edits + 1
      <4>1. CASE f = g
        BY <2>2, <2>4, <3>1, <4>1 DEF Aged
      <4>2. CASE f # g
        BY <2>5, <3>1, <4>2 DEF Aged
      <4> QED
        BY <4>1, <4>2
    <3> QED
      BY <2>1, <3>1 DEF Aged
  <2>9. Stamped'
    <3>1. ASSUME NEW f \in Files, local'[f] # None, local'[f].mtime \in Versions
          PROVE  local'[f].data = local'[f].mtime \/ remote[f] # local'[f].mtime
      <4>1. CASE f = g
        BY <2>2, <2>3, <2>4, <3>1, <4>1 DEF Stamped
      <4>2. CASE f # g
        BY <2>5, <3>1, <4>2 DEF Stamped
      <4> QED
        BY <4>1, <4>2
    <3> QED
      BY <2>1, <3>1 DEF Stamped
  <2>10. Pulled'
    <3>1. ASSUME NEW v \in Workers, v # w
          PROVE  LET f == busy[v].file IN
                    /\ busy[v].stage = "copy" =>
                          busy[v].from = walked[f] \/ remote[f] # walked[f]
                    /\ busy[v].stage = "stamp" =>
                          local'[f].data = walked[f] \/ remote[f] # walked[f]
      <4>1. CASE busy[v].file \in Files
        <5>1. local'[busy[v].file].data = local[busy[v].file].data
          BY <2>4, <2>5, <4>1
        <5> QED
          BY <5>1 DEF Pulled
      <4>2. CASE busy[v].file \notin Files
        BY <4>2 DEF Pulled, Downloads
      <4> QED
        BY <4>1, <4>2
    <3>2. \A v \in Workers : v # w => busy[v].file # g
      BY <2>2 DEF Pulled
    <3> QED
      BY <2>1, <2>6, <2>7, <3>1, <3>2 DEF Pulled, Idle
  <2>11. Covered'
    <3>1. ASSUME NEW f \in Files, f = g PROVE Fresh(f)'
      <4>1. local'[f] # None /\ local'[f].data = local[f].data
        BY <2>2, <2>4, <3>1
      <4> QED
        BY <2>1, <2>3, <3>1, <4>1
    <3>2. ASSUME NEW f \in Files, f # g, Fresh(f) PROVE Fresh(f)'
      BY <2>1, <2>5, <3>2
    <3>3. ASSUME NEW f \in Files, f # g, NEW v \in Workers, busy[v].file = f
          PROVE  busy'[v].file = f
      BY <2>6, <3>3
    <3> HIDE DEF Fresh
    <3> QED
      BY <1>0, <2>1, <3>1, <3>2, <3>3 DEF Covered
  <2>12. Swept'
    BY <1>0, <2>1, <2>5 DEF Swept
  <2>13. Walked' /\ SuccessIsSynced'
    BY <1>0, <2>1 DEF Walked, SuccessIsSynced
  <2> QED
    BY <2>8, <2>9, <2>10, <2>11, <2>12, <2>13
<1> QED
  BY <1>1, <1>2, <1>3, <1>4 DEF Work

\* A change of the remote tree makes a version that nothing has been stamped with.
LEMMA SyncEdit == MirrorInv /\ SyncInv /\ Edit => SyncInv'
<1> SUFFICES ASSUME MirrorInv, SyncInv, Edit PROVE SyncInv'
  OBVIOUS
<1> USE MirrorAssumption
    DEF MirrorInv, Types, TreesType, CommandType, RoundType, PoolType, Seen,
        SyncInv, Included, trouble, round
<1>1. /\ edits' = edits + 1 /\ still' = FALSE
      /\ UNCHANGED <<local, trouble, main, round, busy, failed, report>>
  BY DEF Edit
<1>2. \A f \in Files : remote'[f] \in {remote[f], None, edits + 2}
  BY DEF Edit
<1>3. edits + 2 \notin 1..(edits + 1) /\ \A v \in Versions : v <= edits + 1 => v \in 1..(edits + 1)
  BY DEF Versions
<1>4. Aged'
  BY <1>1, <1>2 DEF Aged, Versions, Copies
<1>5. ASSUME NEW f \in Files, NEW v \in Versions, v <= edits + 1, remote[f] # v
      PROVE  remote'[f] # v
  BY <1>2, <1>3, <1>5
<1>6. Stamped'
  BY <1>1, <1>5 DEF Aged, Stamped
<1>7. Pulled'
  BY <1>1, <1>5 DEF Aged, Pulled, Downloads
<1>8. Swept' /\ Walked' /\ SuccessIsSynced'
  BY <1>1 DEF Swept, Walked, SuccessIsSynced
<1>9. Covered'
  <2>1. ASSUME NEW f \in Seen, Fresh(f) PROVE Fresh(f)'
    <3>1. walked[f] \in Versions /\ walked[f] <= edits + 1
      BY DEF Aged
    <3> QED
      BY <1>1, <1>5, <2>1, <3>1 DEF Fresh
  <2> QED
    BY <1>1, <2>1 DEF Covered
<1> QED
  BY <1>4, <1>6, <1>7, <1>8, <1>9

LEMMA SyncStep == MirrorInv /\ SyncInv /\ [Next]_vars => SyncInv'
<1> SUFFICES ASSUME MirrorInv, SyncInv, [Next]_vars PROVE SyncInv'
  OBVIOUS
<1>1. ASSUME UNCHANGED <<world, local, main, round, busy, failed, report, still>>
      PROVE  SyncInv'
  BY <1>1 DEF world, round, SyncInv, Aged, Stamped, Pulled, Covered, Swept,
     Walked, SuccessIsSynced, Synced, Seen, Fresh
<1>2. CASE Lose \/ Interrupt \/ UNCHANGED vars
  BY <1>1, <1>2 DEF Lose, Interrupt, vars
<1> QED
  BY <1>2, SyncRound, SyncWork, SyncEdit DEF Next, Ended

\* A round that reports success, and during which nothing changed, leaves every
\* file the filters let through as it is on the remote, whatever earlier rounds
\* have torn, truncated or missed (mirror.go:236-300).
THEOREM SuccessSyncs == Spec => []SuccessIsSynced
<1>1. Init => SyncInv
  BY MirrorAssumption
     DEF Init, SyncInv, Aged, Stamped, Pulled, Covered, Swept, Walked,
         SuccessIsSynced, Included, Seen, Idle
<1>2. SyncInv => SuccessIsSynced
  BY DEF SyncInv
<1> QED
  BY MirrorInvariant, SyncStep, <1>1, <1>2, PTL DEF Spec

=============================================================================
