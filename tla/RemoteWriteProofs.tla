-------------------------- MODULE RemoteWriteProofs --------------------------
(* Proofs about RemoteWrite, for any writers, readers, files and length of   *)
(* content.  Overlapping writes and cut sources of the Rough files leave the *)
(* others alone.                                                             *)
EXTENDS RemoteWrite, TLAPS

\* A reader that has begun has an inode open.
ReadersOpen == \A r \in Readers : rpc[r] > 0 => rhandle[r] \in Inodes

Typed == TypeOK /\ ReadersOpen

LEMMA TypeStep == Typed /\ [Next]_vars => Typed'
<1> SUFFICES ASSUME Typed, [Next]_vars PROVE Typed'
  OBVIOUS
<1> USE WriteAssumption
    DEF Typed, ReadersOpen, TypeOK, WriterPc, Goto, Return, Move, names,
        writing, reading
<1>1. ASSUME NEW i \in Inodes, NEW k \in Chunks, NEW x \in Inodes
      PROVE  [data[i] EXCEPT ![k] = x] \in Content
  BY DEF Content
<1>2. Empty \in Content
  BY DEF Empty, Content
<1>3. ASSUME NEW w \in Writers, Open(w) PROVE Typed'
  BY <1>2, <1>3 DEF Open, Inodes
<1>4. ASSUME NEW w \in Writers, OpenFails(w) PROVE Typed'
  BY <1>4 DEF OpenFails
<1>5. ASSUME NEW w \in Writers, Copy(w) PROVE Typed'
  <2>1. sent[w] + 1 \in Chunks /\ sent[w] + 1 \in 0..Len /\ w \in Inodes
    BY <1>5 DEF Copy, Chunks, Inodes
  <2>2. handle[w] \in Inodes \/ handle[w] \notin Inodes
    OBVIOUS
  <2>3. data' \in [Inodes -> Content]
    BY <2>1, <2>2, <1>1, <1>5 DEF Copy
  <2> QED
    BY <2>1, <2>3, <1>5 DEF Copy
<1>6. ASSUME NEW w \in Writers, SourceEnds(w) \/ CopyFails(w) \/ Close(w)
      PROVE  Typed'
  BY <1>6 DEF SourceEnds, CopyFails, Close
<1>7. ASSUME NEW w \in Writers, Rename(w) \/ Remove(w) \/ RenameAgain(w)
      PROVE  Typed'
  BY <1>7 DEF Rename, Remove, RenameAgain
<1>8. ASSUME NEW w \in Writers, Cleanup(w) \/ Die(w) PROVE Typed'
  BY <1>8 DEF Cleanup, Die
<1>9. ASSUME NEW r \in Readers, ReadOpen(r) PROVE Typed'
  BY <1>9 DEF ReadOpen
<1>10. ASSUME NEW r \in Readers, ReadChunk(r) PROVE Typed'
  <2>1. rpc[r] + 1 \in 0..(Len + 1)
    BY <1>10 DEF ReadChunk, Chunks
  <2>2. data[rhandle[r]][rpc[r]] \in Inodes \cup {None} /\ rpc[r] > 0
    BY <1>10 DEF ReadChunk, Content, Chunks
  <2>3. got' \in [Readers -> Content]
    BY <2>2, <1>10 DEF ReadChunk, Content
  <2> QED
    BY <2>1, <2>2, <2>3, <1>10 DEF ReadChunk
<1>11. CASE UNCHANGED vars
  BY <1>11 DEF vars
<1> QED
  BY <1>3, <1>4, <1>5, <1>6, <1>7, <1>8, <1>9, <1>10, <1>11
  DEF Next, WriteFile

----------------------------------------------------------------------------

\* An inode is nowhere before its writer runs.
Fresh ==
    \A w \in Writers : pc[w] = "idle" =>
        /\ result[w] = "none" /\ sent[w] = 0
        /\ \A p \in Paths : file[p] # w /\ tmp[p] # w
        /\ \A r \in Readers : rhandle[r] # w

\* An inode is only ever at the path it was made for, or at its path.tn-tmp.
AtHome ==
    /\ \A p \in Paths : file[p] # None => Home(file[p]) = p
    /\ \A p \in Paths : tmp[p] # None => Home(tmp[p]) = p
    /\ \A w \in Writers : Busy(w) =>
          /\ handle[w] \in Inodes
          /\ Home(handle[w]) = target[w]
          /\ result[w] = "none"

\* A writer at work on a Steady file has path.tn-tmp to itself.
Own ==
    \A w \in Writers : Busy(w) /\ target[w] \in Steady =>
        /\ tmp[target[w]] = handle[w]
        /\ \A v \in Writers : Busy(v) /\ target[v] = target[w] => v = w

\* Its temporary file is nobody's file, and no reader has it open.
Apart ==
    \A p \in Steady : tmp[p] # None =>
        /\ file[p] # tmp[p]
        /\ \A r \in Readers : rhandle[r] # tmp[p]

\* What a writer has written so far.
Written ==
    \A w \in Writers : target[w] \in Steady =>
        /\ pc[w] = "copy" => \A k \in 1..sent[w] : data[handle[w]][k] = w
        /\ pc[w] \in {"close", "rename", "remove", "again"}
              => data[handle[w]] = Whole(w)
        /\ pc[w] \in {"remove", "again"} => target[w] \in Plain
        /\ pc[w] = "again" => file[target[w]] = None

\* What a reader has open is whole, and what it has read is the start of it.
Prefix ==
    \A r \in Readers : rpc[r] > 0 /\ Home(rhandle[r]) \in Steady =>
        \E x \in Inodes : /\ data[rhandle[r]] = Whole(x)
                          /\ \A k \in 1..(rpc[r] - 1) : got[r][k] = x

WriteInv ==
    /\ Typed /\ Fresh /\ AtHome /\ Own /\ Apart /\ Written
    /\ Prefix /\ FilesWhole /\ FilesStay /\ NoLitter

LEMMA WriteInit == Init => WriteInv
<1> SUFFICES ASSUME Init PROVE WriteInv
  OBVIOUS
<1> USE WriteAssumption DEF Init, Inodes
<1>1. TypeOK
  BY DEF TypeOK, WriterPc, Content, Empty, Whole, Chunks
<1>2. ReadersOpen /\ Prefix
  BY DEF ReadersOpen, Prefix
<1>3. Fresh /\ AtHome /\ Own /\ Written
  BY DEF Fresh, AtHome, Home, Own, Written, Busy
<1>4. Apart /\ FilesStay /\ FilesWhole /\ NoLitter
  BY DEF Apart, FilesStay, FilesWhole, IsWhole, NoLitter, Steady
<1> QED
  BY <1>1, <1>2, <1>3, <1>4 DEF WriteInv, Typed

LEMMA OpenStep ==
    ASSUME WriteInv, NEW w \in Writers, Open(w), Typed'
    PROVE  WriteInv'
<1> USE WriteAssumption
    DEF WriteInv, Typed, TypeOK, ReadersOpen,
        Open, Goto, Return, Move, Busy, names, writing, reading
<1>1. Fresh' /\ Own'
  BY DEF Fresh, Own, Steady
<1>2. FilesStay' /\ NoLitter'
  BY DEF FilesStay, NoLitter
<1>3. AtHome'
  BY DEF Fresh, AtHome, Home
<1>4. Apart'
  BY DEF Fresh, Apart
<1>5. Written'
  BY DEF Fresh, AtHome, Own, Written, Steady
<1>6. Prefix'
  BY DEF Fresh, AtHome, Apart, Prefix, Home
<1>7. FilesWhole'
  BY DEF Fresh, AtHome, Apart, FilesWhole, IsWhole, Steady
<1> QED
  BY <1>1, <1>2, <1>3, <1>4, <1>5, <1>6, <1>7 DEF WriteInv

LEMMA OpenFailsStep ==
    ASSUME WriteInv, NEW w \in Writers, OpenFails(w), Typed'
    PROVE  WriteInv'
<1> USE WriteAssumption
    DEF WriteInv, Typed, TypeOK, ReadersOpen,
        OpenFails, Goto, Return, Move, Busy, names, writing, reading
<1>1. Fresh' /\ AtHome' /\ Own'
  BY DEF Fresh, AtHome, Own, Home
<1>2. Apart' /\ Written' /\ Prefix'
  BY DEF Apart, Written, Prefix, Home
<1>3. FilesWhole' /\ FilesStay' /\ NoLitter'
  BY DEF FilesWhole, FilesStay, NoLitter, IsWhole
<1> QED
  BY <1>1, <1>2, <1>3 DEF WriteInv

LEMMA CopyStep ==
    ASSUME WriteInv, NEW w \in Writers, Copy(w), Typed'
    PROVE  WriteInv'
<1> USE WriteAssumption
    DEF WriteInv, Typed, TypeOK, ReadersOpen,
        Copy, Goto, Return, Move, Busy, names, writing, reading
<1>1. Fresh' /\ AtHome' /\ Own'
  BY DEF Fresh, AtHome, Own, Home
<1>2. Apart'
  BY DEF Apart
<1>3. FilesStay' /\ NoLitter'
  BY DEF FilesStay, NoLitter
<1>4. Written'
  <2>1. /\ handle[w] \in Inodes /\ sent[w] + 1 \in Chunks
        /\ data' = [data EXCEPT ![handle[w]] =
                       [data[handle[w]] EXCEPT ![sent[w] + 1] = w]]
    BY DEF AtHome, Chunks
  <2>2. ASSUME target[w] \in Steady, NEW k \in 1..(sent[w] + 1)
        PROVE  data'[handle[w]][k] = w
    <3>1. data[handle[w]] \in [Chunks -> Inodes \cup {None}] /\ k \in Chunks
      BY <2>1 DEF Content, Chunks
    <3>2. data'[handle[w]] = [data[handle[w]] EXCEPT ![sent[w] + 1] = w]
      BY <2>1
    <3>3. k # sent[w] + 1 => k \in 1..sent[w] /\ data[handle[w]][k] = w
      BY <2>2 DEF Written
    <3> QED
      BY <3>1, <3>2, <3>3, <2>1
  <2>3. ASSUME NEW v \in Writers, v # w, Busy(v), target[v] \in Steady
        PROVE  data'[handle[v]] = data[handle[v]]
    BY <2>1, <2>3 DEF AtHome, Own
  <2> QED
    BY <2>2, <2>3 DEF Written
<1>5. Prefix'
  <2>1. ASSUME NEW r \in Readers, rpc[r] > 0, Home(rhandle[r]) \in Steady
        PROVE  data'[rhandle[r]] = data[rhandle[r]]
    BY <2>1 DEF AtHome, Own, Apart, Inodes
  <2> QED
    BY <2>1 DEF Prefix, Home
<1>6. FilesWhole'
  BY DEF AtHome, Own, Apart, FilesWhole, IsWhole, Steady
<1> QED
  BY <1>1, <1>2, <1>3, <1>4, <1>5, <1>6 DEF WriteInv

LEMMA SourceEndsStep ==
    ASSUME WriteInv, NEW w \in Writers, SourceEnds(w), Typed'
    PROVE  WriteInv'
<1> USE WriteAssumption
    DEF WriteInv, Typed, TypeOK, ReadersOpen,
        SourceEnds, Goto, Return, Move, Busy, names, writing, reading
<1>1. Fresh' /\ AtHome' /\ Own'
  BY DEF Fresh, AtHome, Own, Home
<1>2. Apart' /\ Prefix'
  BY DEF Apart, Prefix, Home
<1>3. FilesWhole' /\ FilesStay' /\ NoLitter'
  BY DEF FilesWhole, FilesStay, NoLitter, IsWhole
<1>4. Written'
  <2>1. handle[w] \in Inodes
    BY DEF AtHome
  <2>2. ASSUME target[w] \in Steady PROVE data[handle[w]] = Whole(w)
    <3>1. data[handle[w]] \in [Chunks -> Inodes \cup {None}]
      BY <2>1 DEF Content
    <3>2. sent[w] = Len
      BY <2>2 DEF Steady
    <3>3. \A k \in Chunks : data[handle[w]][k] = w
      BY <2>2, <3>2 DEF Written, Chunks
    <3> QED
      BY <3>1, <3>3 DEF Whole
  <2> QED
    BY <2>2 DEF Written
<1> QED
  BY <1>1, <1>2, <1>3, <1>4 DEF WriteInv

LEMMA CopyFailsStep ==
    ASSUME WriteInv, NEW w \in Writers, CopyFails(w), Typed'
    PROVE  WriteInv'
<1> USE WriteAssumption
    DEF WriteInv, Typed, TypeOK, ReadersOpen,
        CopyFails, Goto, Return, Move, Busy, names, writing, reading
<1>1. Fresh' /\ AtHome' /\ Own'
  BY DEF Fresh, AtHome, Own, Home
<1>2. Apart' /\ Written' /\ Prefix'
  BY DEF Apart, Written, Prefix, Home
<1>3. FilesWhole' /\ FilesStay' /\ NoLitter'
  BY DEF FilesWhole, FilesStay, NoLitter, IsWhole
<1> QED
  BY <1>1, <1>2, <1>3 DEF WriteInv

LEMMA CloseStep ==
    ASSUME WriteInv, NEW w \in Writers, Close(w), Typed'
    PROVE  WriteInv'
<1> USE WriteAssumption
    DEF WriteInv, Typed, TypeOK, ReadersOpen,
        Close, Goto, Return, Move, Busy, names, writing, reading
<1>1. Fresh' /\ AtHome' /\ Own'
  BY DEF Fresh, AtHome, Own, Home
<1>2. Apart' /\ Written' /\ Prefix'
  BY DEF Apart, Written, Prefix, Home
<1>3. FilesWhole' /\ FilesStay' /\ NoLitter'
  BY DEF FilesWhole, FilesStay, NoLitter, IsWhole
<1> QED
  BY <1>1, <1>2, <1>3 DEF WriteInv

LEMMA RenameStep ==
    ASSUME WriteInv, NEW w \in Writers, Rename(w), Typed'
    PROVE  WriteInv'
<1> USE WriteAssumption
    DEF WriteInv, Typed, TypeOK, ReadersOpen,
        Rename, Goto, Return, Move, Busy, names, writing, reading
<1>1. Fresh' /\ Own'
  BY DEF Fresh, Own
<1>2. Apart' /\ Prefix'
  BY DEF Apart, Prefix, Home, Steady
<1>3. FilesStay' /\ NoLitter'
  BY DEF FilesStay, NoLitter, Steady
<1>4. AtHome'
  BY DEF AtHome, FilesStay, Home, Steady
<1>5. Written'
  BY DEF AtHome, Own, Written, Steady, Inodes
<1>6. FilesWhole'
  BY DEF Own, Written, FilesWhole, IsWhole, Steady, Inodes
<1> QED
  BY <1>1, <1>2, <1>3, <1>4, <1>5, <1>6 DEF WriteInv

LEMMA RemoveStep ==
    ASSUME WriteInv, NEW w \in Writers, Remove(w), Typed'
    PROVE  WriteInv'
<1> USE WriteAssumption
    DEF WriteInv, Typed, TypeOK, ReadersOpen,
        Remove, Goto, Return, Move, Busy, names, writing, reading
<1>1. Fresh' /\ AtHome' /\ Own'
  BY DEF Fresh, AtHome, Own, Home
<1>2. Apart' /\ Written' /\ Prefix'
  BY DEF Apart, Written, Prefix, Home
<1>3. FilesWhole' /\ NoLitter'
  BY DEF FilesWhole, NoLitter, IsWhole
<1>4. FilesStay'
  BY DEF Written, FilesStay
<1> QED
  BY <1>1, <1>2, <1>3, <1>4 DEF WriteInv

LEMMA RenameAgainStep ==
    ASSUME WriteInv, NEW w \in Writers, RenameAgain(w), Typed'
    PROVE  WriteInv'
<1> USE WriteAssumption
    DEF WriteInv, Typed, TypeOK, ReadersOpen,
        RenameAgain, Goto, Return, Move, Busy, names, writing, reading
<1>1. Fresh' /\ Own'
  <2>1. Fresh'
    BY DEF Fresh
  <2>2. Own'
    BY DEF Own
  <2> QED
    BY <2>1, <2>2
<1>2. Apart' /\ Prefix'
  BY DEF Apart, Prefix, Home, Steady
<1>3. FilesStay' /\ NoLitter'
  BY DEF FilesStay, NoLitter, Steady
<1>4. AtHome'
  BY DEF AtHome, NoLitter, Home, IsWhole, Inodes
<1>5. Written'
  BY DEF Own, Written
<1>6. FilesWhole'
  BY DEF Own, Written, FilesWhole, IsWhole, Steady, Inodes
<1> QED
  BY <1>1, <1>2, <1>3, <1>4, <1>5, <1>6 DEF WriteInv

LEMMA CleanupStep ==
    ASSUME WriteInv, NEW w \in Writers, Cleanup(w), Typed'
    PROVE  WriteInv'
<1> USE WriteAssumption
    DEF WriteInv, Typed, TypeOK, ReadersOpen,
        Cleanup, Goto, Return, Move, Busy, names, writing, reading
<1>1. Fresh' /\ AtHome' /\ Own'
  BY DEF Fresh, AtHome, Own, Home
<1>2. Apart' /\ Written' /\ Prefix'
  BY DEF Apart, Written, Prefix, Home
<1>3. FilesWhole' /\ FilesStay' /\ NoLitter'
  BY DEF FilesWhole, FilesStay, NoLitter, IsWhole
<1> QED
  BY <1>1, <1>2, <1>3 DEF WriteInv

LEMMA DieStep ==
    ASSUME WriteInv, NEW w \in Writers, Die(w), Typed'
    PROVE  WriteInv'
<1> USE WriteAssumption
    DEF WriteInv, Typed, TypeOK, ReadersOpen,
        Die, Goto, Return, Move, Busy, names, writing, reading
<1>1. Fresh' /\ AtHome' /\ Own'
  BY DEF Fresh, AtHome, Own, Home
<1>2. Apart' /\ Written' /\ Prefix'
  BY DEF Apart, Written, Prefix, Home
<1>3. FilesWhole' /\ FilesStay' /\ NoLitter'
  BY DEF FilesWhole, FilesStay, NoLitter, IsWhole
<1> QED
  BY <1>1, <1>2, <1>3 DEF WriteInv

LEMMA ReadOpenStep ==
    ASSUME WriteInv, NEW r \in Readers, ReadOpen(r), Typed'
    PROVE  WriteInv'
<1> USE WriteAssumption
    DEF WriteInv, Typed, TypeOK, ReadersOpen,
        ReadOpen, Goto, Return, Move, Busy, names, writing, reading
<1>1. Fresh' /\ AtHome' /\ Own'
  BY DEF Fresh, AtHome, Own, Home
<1>2. Written'
  BY DEF Written
<1>3. FilesWhole' /\ FilesStay' /\ NoLitter'
  BY DEF FilesWhole, FilesStay, NoLitter, IsWhole
<1>4. Apart'
  BY DEF AtHome, Apart, Steady
<1>5. Prefix'
  BY DEF AtHome, Prefix, FilesWhole, Home, IsWhole
<1> QED
  BY <1>1, <1>2, <1>3, <1>4, <1>5 DEF WriteInv

LEMMA ReadChunkStep ==
    ASSUME WriteInv, NEW r \in Readers, ReadChunk(r), Typed'
    PROVE  WriteInv'
<1> USE WriteAssumption
    DEF WriteInv, Typed, TypeOK, ReadersOpen,
        ReadChunk, Goto, Return, Move, Busy, names, writing, reading
<1>1. Fresh' /\ AtHome' /\ Own'
  BY DEF Fresh, AtHome, Own, Home
<1>2. Apart' /\ Written'
  BY DEF Apart, Written
<1>3. FilesWhole' /\ FilesStay' /\ NoLitter'
  BY DEF FilesWhole, FilesStay, NoLitter, IsWhole
<1>4. Prefix'
  <2>1. ASSUME NEW q \in Readers, rpc'[q] > 0, Home(rhandle[q]) \in Steady
        PROVE  \E x \in Inodes : /\ data'[rhandle'[q]] = Whole(x)
                                /\ \A k \in 1..(rpc'[q] - 1) : got'[q][k] = x
    <3>1. rpc[q] > 0
      BY <2>1 DEF Chunks
    <3>2. PICK x \in Inodes : /\ data[rhandle[q]] = Whole(x)
                             /\ \A k \in 1..(rpc[q] - 1) : got[q][k] = x
      BY <3>1, <2>1 DEF Prefix
    <3>3. CASE q # r
      BY <3>2, <3>3
    <3>4. CASE q = r
      <4>1. data[rhandle[q]][rpc[q]] = x
        BY <3>2, <3>4 DEF Whole
      <4>2. got[r] \in [Chunks -> Inodes \cup {None}]
        BY DEF Content
      <4>3. ASSUME NEW k \in 1..(rpc'[q] - 1) PROVE got'[q][k] = x
        BY <3>2, <3>4, <4>1, <4>2, <4>3 DEF Chunks
      <4> QED
        BY <3>2, <4>3
    <3> QED
      BY <3>3, <3>4
  <2> QED
    BY <2>1 DEF Prefix, Home
<1> QED
  BY <1>1, <1>2, <1>3, <1>4 DEF WriteInv


\* The invariant is inductive: a writer at work has its temporary file to
\* itself, so what it renames into place is whole and is never written again.
LEMMA WriteInvariant == Spec => []WriteInv
<1>1. WriteInv /\ [Next]_vars => WriteInv'
  <2> SUFFICES ASSUME WriteInv, [Next]_vars PROVE WriteInv'
    OBVIOUS
  <2>1. Typed'
    BY TypeStep DEF WriteInv
  <2>2. ASSUME NEW w \in Writers, WriteFile(w) \/ Die(w) PROVE WriteInv'
    BY <2>1, <2>2, OpenStep, OpenFailsStep, CopyStep, SourceEndsStep,
       CopyFailsStep, CloseStep, RenameStep, RemoveStep, RenameAgainStep,
       CleanupStep, DieStep DEF WriteFile
  <2>3. ASSUME NEW r \in Readers, ReadOpen(r) \/ ReadChunk(r) PROVE WriteInv'
    BY <2>1, <2>3, ReadOpenStep, ReadChunkStep
  <2>4. CASE UNCHANGED vars
    BY <2>4 DEF vars, names, writing, reading, WriteInv, Typed, TypeOK,
        ReadersOpen, Fresh, AtHome, Own, Busy, Apart, Written, Prefix,
        FilesWhole, FilesStay, NoLitter, Home, IsWhole
  <2> QED
    BY <2>2, <2>3, <2>4 DEF Next
<1> QED
  BY WriteInit, <1>1, PTL DEF Spec

\* Every variable keeps its type.
THEOREM TypeCorrect == Spec => []TypeOK
<1>1. WriteInv => TypeOK
  BY DEF WriteInv, Typed
<1> QED
  BY WriteInvariant, <1>1, PTL

\* A concurrent reader gets the old file or the new one (files.go:127-133).
THEOREM ReadersSeeWhole == Spec => []ReadsWhole
<1>1. WriteInv => ReadsWhole
  <2> SUFFICES ASSUME WriteInv, NEW r \in Readers, rpc[r] > 1,
                      Home(rhandle[r]) \in Steady
               PROVE  \E x \in Inodes : \A k \in 1..(rpc[r] - 1) : got[r][k] = x
    BY DEF ReadsWhole
  <2>1. rpc[r] > 0
    BY DEF WriteInv, Typed, TypeOK
  <2> QED
    BY <2>1 DEF WriteInv, Prefix
<1> QED
  BY WriteInvariant, <1>1, PTL

\* A file that exists holds one whole content.
THEOREM FilesAreWhole == Spec => []FilesWhole
<1>1. WriteInv => FilesWhole
  BY DEF WriteInv
<1> QED
  BY WriteInvariant, <1>1, PTL

\* With posix-rename no file is ever gone (files.go:257-261).
THEOREM FilesRemain ==
    Spec => []FilesStay
<1>1. WriteInv => FilesStay
  BY DEF WriteInv
<1> QED
  BY WriteInvariant, <1>1, PTL

\* Only a run that was killed leaves its temporary file (files.go:248-265).
THEOREM LeavesNoLitter == Spec => []NoLitter
<1>1. WriteInv => NoLitter
  BY DEF WriteInv
<1> QED
  BY WriteInvariant, <1>1, PTL

----------------------------------------------------------------------------
(* RemoteWrite implements AtomicFile.                                      *)

\* What AtomicFile sees of a Steady file, and of the runs that write one.
Seen == [p \in Steady |-> IF file[p] = None THEN None ELSE data[file[p]]]
Told == [w \in Writers |-> IF target[w] \in Steady THEN result[w] ELSE "none"]

\* Every step but a rename, a removal and a return is invisible.
LEMMA AtomicNext ==
    ASSUME WriteInv, [Next]_vars
    PROVE  [Atomic!Next]_Atomic!vars
<1> USE WriteAssumption
    DEF WriteInv, Typed, TypeOK, Goto, Return, Move, names, writing, reading
<1>2. ASSUME NEW w \in Writers, Open(w) PROVE UNCHANGED <<Seen, Told>>
  <2>1. PICK i : /\ i = IF tmp[target[w]] = None THEN w ELSE tmp[target[w]]
                 /\ data' = [data EXCEPT ![i] = Empty]
    BY <1>2 DEF Open
  <2>2. \A q \in Steady : file[q] # i
    BY <1>2, <2>1 DEF Open, Fresh, AtHome, Apart, Steady
  <2> QED
    BY <2>1, <2>2, <1>2 DEF Open, Seen, Told
<1>3. ASSUME NEW w \in Writers, Copy(w) PROVE UNCHANGED <<Seen, Told>>
  <2>1. \A q \in Steady : file[q] # handle[w]
    BY <1>3 DEF Copy, AtHome, Own, Busy, Apart, Inodes, Steady
  <2> QED
    BY <2>1, <1>3 DEF Copy, Seen, Told
<1>4. ASSUME NEW w \in Writers,
             \/ OpenFails(w) \/ SourceEnds(w) \/ CopyFails(w) \/ Close(w)
             \/ Cleanup(w) \/ Die(w)
      PROVE  UNCHANGED <<Seen, Told>> \/ Atomic!Fail(w)
  <2>1. result[w] = "none" /\ UNCHANGED Seen
    BY <1>4 DEF Fresh, AtHome, Busy, OpenFails, SourceEnds, CopyFails, Close,
        Cleanup, Die, Seen
  <2>2. CASE UNCHANGED result
    BY <2>1, <2>2, <1>4 DEF OpenFails, SourceEnds, CopyFails, Close, Cleanup,
        Die, Told
  <2>3. CASE result' = [result EXCEPT ![w] = "failed"]
    <3>1. CASE target[w] \in Steady
      <4>1. Told[w] = "none" /\ Told' = [Told EXCEPT ![w] = "failed"]
        BY <2>1, <2>3, <3>1, <1>4 DEF OpenFails, SourceEnds, CopyFails, Close,
            Cleanup, Die, Told
      <4> QED
        BY <2>1, <4>1 DEF Atomic!Fail, Seen, Told
    <3>2. CASE target[w] \notin Steady
      BY <2>1, <2>3, <3>2, <1>4 DEF OpenFails, SourceEnds, CopyFails, Close,
          Cleanup, Die, Told
    <3> QED
      BY <3>1, <3>2
  <2> QED
    BY <2>2, <2>3, <1>4 DEF OpenFails, SourceEnds, CopyFails, Close, Cleanup,
        Die
<1>5. ASSUME NEW w \in Writers, Rename(w) \/ RenameAgain(w)
      PROVE  \/ UNCHANGED <<Seen, Told>>
             \/ \E p \in Steady : Atomic!Write(w, p)
  <2>1. CASE UNCHANGED <<names, result>>
    BY <2>1, <1>5 DEF Rename, RenameAgain, Seen, Told
  <2>2. CASE target[w] \notin Steady
    BY <2>2, <1>5 DEF Rename, RenameAgain, Seen, Told, Steady
  <2>3. ASSUME target[w] \in Steady, NEW r \in {"ok", "failed"},
               Move(target[w]), Return(w, r)
        PROVE  \E p \in Steady : Atomic!Write(w, p)
    <3>1. /\ result[w] = "none" /\ handle[w] \in Inodes
          /\ tmp[target[w]] = handle[w] /\ data[handle[w]] = Whole(w)
      BY <2>3, <1>5 DEF AtHome, Own, Busy, Written, Rename, RenameAgain
    <3>2. Seen' = [Seen EXCEPT ![target[w]] = Whole(w)]
      BY <2>3, <3>1, <1>5 DEF Rename, RenameAgain, Inodes, Seen, Steady
    <3>3. Told[w] = "none" /\ Told' = [Told EXCEPT ![w] = r]
      BY <2>3, <3>1, <1>5 DEF Rename, RenameAgain, Told
    <3> QED
      BY <2>3, <3>2, <3>3 DEF Atomic!Write, Seen, Told
  <2>4. \/ UNCHANGED <<names, result>>
        \/ \E r \in {"ok", "failed"} : Move(target[w]) /\ Return(w, r)
    BY <1>5 DEF Rename, RenameAgain
  <2> QED
    BY <2>1, <2>2, <2>3, <2>4, Zenon
<1>6. ASSUME NEW w \in Writers, Remove(w)
      PROVE  \/ UNCHANGED <<Seen, Told>>
             \/ \E p \in Steady : Atomic!Remove(p)
  <2>1. CASE target[w] \in Steady
    <3>1. target[w] \in Plain
      BY <2>1, <1>6 DEF Written, Remove
    <3>2. Seen' = [Seen EXCEPT ![target[w]] = None] /\ UNCHANGED Told
      BY <2>1, <1>6 DEF Remove, Seen, Told, Steady
    <3> QED
      BY <2>1, <3>1, <3>2 DEF Atomic!Remove, Seen, Told
  <2>2. CASE target[w] \notin Steady
    BY <2>2, <1>6 DEF Remove, Seen, Told, Steady
  <2> QED
    BY <2>1, <2>2
<1>7. ASSUME NEW r \in Readers, ReadOpen(r) \/ ReadChunk(r)
      PROVE  UNCHANGED <<Seen, Told>>
  BY <1>7 DEF ReadOpen, ReadChunk, Seen, Told
<1>8. CASE UNCHANGED vars
  BY <1>8 DEF vars, Atomic!vars
<1>9. UNCHANGED <<Seen, Told>> => UNCHANGED Atomic!vars
  BY DEF Seen, Told, Atomic!vars
<1>10. ASSUME NEW w \in Writers, WriteFile(w) \/ Die(w)
       PROVE  UNCHANGED <<Seen, Told>> \/ Atomic!Next
  BY <1>2, <1>3, <1>4, <1>5, <1>6, <1>10 DEF WriteFile, Atomic!Next
<1> QED
  BY <1>7, <1>8, <1>9, <1>10 DEF Next

\* Whatever the writers, their faults and the readers do, each Steady file
\* behaves as the atomic file "tn write" promises.
THEOREM ImplementsAtomic == Spec => AtomicSpec
<1>1. Init => Atomic!Init
  BY WriteAssumption DEF Init, Inodes, Steady, Atomic!Init
<1>2. WriteInv /\ [Next]_vars => [Atomic!Next]_Atomic!vars
  BY AtomicNext
<1> QED
  BY WriteInvariant, <1>1, <1>2, PTL DEF Spec, AtomicSpec, Atomic!AtomicSpec

============================================================================
