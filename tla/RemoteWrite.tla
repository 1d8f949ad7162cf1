----------------------------- MODULE RemoteWrite -----------------------------
(***************************************************************************)
(* "tn write" and "tn read" of remote files: writeFile and readFile in      *)
(* internal/cli/files.go, with what feeds writeFile: stdin itself, or the   *)
(* stdin frames of a held client (opWrite in hold.go, holdRoundTrip in      *)
(* holdclient.go).                                                          *)
(*                                                                         *)
(* The server's files are inodes of Len chunks, each named by the writer it *)
(* came from.  Every SFTP call is one step, and the calls of several tn     *)
(* processes interleave.                                                    *)
(***************************************************************************)
EXTENDS Integers, FiniteSets

CONSTANTS
    Writers,   \* runs of writeFile
    Held,      \* those a daemon runs for a client
    Readers,   \* runs of readFile
    Paths,     \* remote files
    Plain,     \* those on servers without posix-rename
    Rough,     \* those that two runs may write at once, or a cut source ends
    Len,       \* chunks of every content
    Faults,    \* what may go wrong, see AllFaults
    None       \* no inode, an empty chunk

\* broken   a held client is killed within a frame, or a direct stdin fails, or
\*          an SFTP call before the rename, or the fallback's rename, fails
\* die      the process that runs writeFile dies, or its connection does
\* cut      a held client is killed between two frames, or its stdin fails; only
\*          on Rough files
AllFaults == {"broken", "die", "cut"}

Steady == Paths \ Rough

ASSUME WriteAssumption ==
    /\ Held \subseteq Writers
    /\ Plain \subseteq Paths
    /\ Rough \subseteq Paths
    /\ Len \in Nat \ {0}
    /\ Faults \subseteq AllFaults
    /\ Writers \cap Paths = {}
    /\ None \notin Writers \cup Paths

\* An inode is named by the writer that created it, the first ones by their
\* path.  Contents are named likewise.
Inodes == Writers \cup Paths
Chunks == 1..Len
Content == [Chunks -> Inodes \cup {None}]

Empty == [k \in Chunks |-> None]
Whole(x) == [k \in Chunks |-> x]

VARIABLES
    file,     \* the inode each path names
    tmp,      \* the inode path.tn-tmp names
    data,     \* the chunks of each inode
    target,   \* the path of each run of writeFile
    pc,       \* where it is
    handle,   \* the inode it has open
    sent,     \* chunks it has copied
    result,   \* what it returned
    rpc,      \* where each run of readFile is
    rhandle,  \* the inode it has open
    got       \* the chunks it has read, in order

names == <<file, tmp>>
writing == <<target, pc, handle, sent, result>>
reading == <<rpc, rhandle, got>>
vars == <<names, data, writing, reading>>

WriterPc == {"idle", "copy", "close", "rename", "remove", "again", "cleanup",
             "ended", "dead"}

TypeOK ==
    /\ file \in [Paths -> Inodes \cup {None}]
    /\ tmp \in [Paths -> Inodes \cup {None}]
    /\ data \in [Inodes -> Content]
    /\ pc \in [Writers -> WriterPc]
    /\ target \in [Writers -> Paths]
    /\ handle \in [Writers -> Inodes \cup {None}]
    /\ sent \in [Writers -> 0..Len]
    /\ result \in [Writers -> {"none", "ok", "failed"}]
    /\ rpc \in [Readers -> 0..(Len + 1)]
    /\ rhandle \in [Readers -> Inodes \cup {None}]
    /\ got \in [Readers -> Content]

Init ==
    /\ file = [p \in Paths |-> p]
    /\ tmp = [p \in Paths |-> None]
    /\ data = [i \in Inodes |-> IF i \in Paths THEN Whole(i) ELSE Empty]
    /\ pc = [w \in Writers |-> "idle"]
    /\ target \in [Writers -> Paths]
    /\ handle = [w \in Writers |-> None]
    /\ sent = [w \in Writers |-> 0]
    /\ result = [w \in Writers |-> "none"]
    /\ rpc = [r \in Readers |-> 0]
    /\ rhandle = [r \in Readers |-> None]
    /\ got = [r \in Readers |-> Empty]

----------------------------------------------------------------------------
(* writeFile.                                                              *)

Goto(w, from, to) == pc[w] = from /\ pc' = [pc EXCEPT ![w] = to]

Return(w, r) ==
    /\ pc' = [pc EXCEPT ![w] = "ended"]
    /\ result' = [result EXCEPT ![w] = r]

Busy(w) == pc[w] \notin {"idle", "ended", "dead"}

\* O_CREATE|O_TRUNC on path.tn-tmp: a new inode, or the one it names emptied.
Open(w) ==
    LET p == target[w]
        i == IF tmp[p] = None THEN w ELSE tmp[p]
    IN  /\ Goto(w, "idle", "copy")
        /\ \/ p \in Rough
           \/ \A v \in Writers : Busy(v) => target[v] # p
        /\ tmp' = [tmp EXCEPT ![p] = i]
        /\ handle' = [handle EXCEPT ![w] = i]
        /\ data' = [data EXCEPT ![i] = Empty]
        /\ UNCHANGED <<file, target, sent, result, reading>>

OpenFails(w) ==
    /\ "broken" \in Faults
    /\ pc[w] = "idle" /\ Return(w, "failed")
    /\ UNCHANGED <<names, data, target, handle, sent, reading>>

\* io.Copy: each chunk goes to the writer's own offset.
Copy(w) ==
    /\ pc[w] = "copy" /\ sent[w] < Len
    /\ sent' = [sent EXCEPT ![w] = sent[w] + 1]
    /\ data' = [data EXCEPT ![handle[w]] =
                   [data[handle[w]] EXCEPT ![sent[w] + 1] = w]]
    /\ UNCHANGED <<names, pc, target, handle, result, reading>>

\* Mutant of SourceEnds: a source that breaks reads as one that ends.
SourceEndsEarly(w) ==
    /\ Goto(w, "copy", "close")
    /\ sent[w] = Len \/ "broken" \in Faults
    /\ UNCHANGED <<names, data, target, handle, sent, result, reading>>

\* io.Copy sees the end of the source.  The frames of a held client end at
\* frameStdinEOF, which also a failed read of its stdin sends; readFrame returns
\* io.EOF when the client is gone between two frames, the pipe passes it on, and
\* io.Copy takes it for the end.
SourceEnds(w) ==
    /\ Goto(w, "copy", "close")
    /\ \/ sent[w] = Len
       \/ "cut" \in Faults /\ w \in Held /\ target[w] \in Rough
    /\ UNCHANGED <<names, data, target, handle, sent, result, reading>>

\* Mutant of CopyFails: the error is not looked at.
CopyUnchecked(w) ==
    /\ "broken" \in Faults
    /\ Goto(w, "copy", "close")
    /\ UNCHANGED <<names, data, target, handle, sent, result, reading>>

\* The source or an SFTP write fails.
CopyFails(w) ==
    /\ "broken" \in Faults
    /\ Goto(w, "copy", "cleanup")
    /\ UNCHANGED <<names, data, target, handle, sent, result, reading>>

Close(w) ==
    /\ \/ Goto(w, "close", "rename")
       \/ "broken" \in Faults /\ Goto(w, "close", "cleanup")
    /\ UNCHANGED <<names, data, target, handle, sent, result, reading>>

\* A rename carried out by the server: whatever path.tn-tmp names is now path.
Move(p) ==
    /\ file' = [file EXCEPT ![p] = tmp[p]]
    /\ tmp' = [tmp EXCEPT ![p] = None]

\* PosixRename, or the connection is lost after the server has done it.
Rename(w) ==
    LET p == target[w]
    IN  /\ pc[w] = "rename"
        /\ IF p \notin Plain /\ tmp[p] # None
           THEN /\ Move(p)
                /\ Return(w, "ok") \/ ("die" \in Faults /\ Return(w, "failed"))
           ELSE Goto(w, "rename", "remove") /\ UNCHANGED <<names, result>>
        /\ UNCHANGED <<data, target, handle, sent, reading>>

\* The fallback removes the file, whoever wrote it ...
Remove(w) ==
    /\ Goto(w, "remove", "again")
    /\ file' = [file EXCEPT ![target[w]] = None]
    /\ UNCHANGED <<tmp, data, target, handle, sent, result, reading>>

\* ... and renames; this rename overrides nothing.  When it fails the file is
\* gone, and its temporary goes next.
RenameAgain(w) ==
    LET p == target[w]
    IN  /\ pc[w] = "again"
        /\ \/ /\ tmp[p] # None /\ file[p] = None
              /\ Move(p)
              /\ Return(w, "ok") \/ ("die" \in Faults /\ Return(w, "failed"))
           \/ /\ tmp[p] = None \/ file[p] # None \/ "broken" \in Faults
              /\ Goto(w, "again", "cleanup")
              /\ UNCHANGED <<names, result>>
        /\ UNCHANGED <<data, target, handle, sent, reading>>

\* Mutant of Cleanup: the error is returned at once.
CleanupForgotten(w) ==
    /\ pc[w] = "cleanup"
    /\ Return(w, "failed")
    /\ UNCHANGED <<names, data, target, handle, sent, reading>>

Cleanup(w) ==
    /\ pc[w] = "cleanup"
    /\ tmp' = [tmp EXCEPT ![target[w]] = None]
    /\ Return(w, "failed")
    /\ UNCHANGED <<file, data, target, handle, sent, reading>>

\* The process dies where it is; path.tn-tmp stays.
Die(w) ==
    /\ "die" \in Faults
    /\ Busy(w)
    /\ pc' = [pc EXCEPT ![w] = "dead"]
    /\ UNCHANGED <<names, data, target, handle, sent, result, reading>>

WriteFile(w) ==
    \/ Open(w) \/ OpenFails(w) \/ Copy(w) \/ SourceEnds(w) \/ CopyFails(w)
    \/ Close(w) \/ Rename(w) \/ Remove(w) \/ RenameAgain(w) \/ Cleanup(w)

----------------------------------------------------------------------------
(* readFile: open, then chunk after chunk.                                 *)

ReadOpen(r) ==
    /\ rpc[r] = 0
    /\ \E p \in Paths :
          /\ file[p] # None
          /\ rhandle' = [rhandle EXCEPT ![r] = file[p]]
    /\ rpc' = [rpc EXCEPT ![r] = 1]
    /\ UNCHANGED <<names, data, writing, got>>

ReadChunk(r) ==
    /\ rpc[r] \in Chunks
    /\ got' = [got EXCEPT ![r] =
                  [got[r] EXCEPT ![rpc[r]] = data[rhandle[r]][rpc[r]]]]
    /\ rpc' = [rpc EXCEPT ![r] = rpc[r] + 1]
    /\ UNCHANGED <<names, data, writing, rhandle>>

Next ==
    \/ \E w \in Writers : WriteFile(w) \/ Die(w)
    \/ \E r \in Readers : ReadOpen(r) \/ ReadChunk(r)

Spec == Init /\ [][Next]_vars

----------------------------------------------------------------------------
(* Properties.                                                             *)

\* The path an inode was made for.
Home(i) == IF i \in Paths THEN i ELSE target[i]

IsWhole(p) == file[p] # None => \E x \in Inodes : data[file[p]] = Whole(x)

\* "a concurrent reader either sees the old file or the new one — never a
\* half-written one": what a reader has read comes from one writer, or is what
\* was there first.
ReadsWhole ==
    \A r \in Readers : rpc[r] > 1 /\ Home(rhandle[r]) \in Steady =>
        \E x \in Inodes : \A k \in 1..(rpc[r] - 1) : got[r][k] = x

\* A file that exists is whole at any time, also when nobody reads it.
FilesWhole == \A p \in Steady : IsWhole(p)

\* The same of every file, whatever becomes of the source.
CutsLeaveWhole == \A p \in Paths : IsWhole(p)

\* With posix-rename a file is there all along.
FilesStay == \A p \in Steady \ Plain : file[p] # None

\* A run that returned an error leaves no litter, also when others write the
\* same file: only one at work, or one that died, has a temporary file.
NoLitter ==
    \A p \in Paths : tmp[p] # None =>
        \E w \in Writers : target[w] = p /\ pc[w] \notin {"idle", "ended"}

\* Each Steady path is one of AtomicFile's.
Atomic == INSTANCE AtomicFile WITH
    Paths <- Steady,
    Gap <- Plain,
    content <- [p \in Steady |-> IF file[p] = None THEN None ELSE data[file[p]]],
    result <- [w \in Writers |-> IF target[w] \in Steady THEN result[w]
                                 ELSE "none"]

AtomicSpec == Atomic!AtomicSpec

============================================================================
