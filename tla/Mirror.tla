------------------------------- MODULE Mirror -------------------------------
(***************************************************************************)
(* tn mirror: internal/cli/mirror.go, with pullFile of files.go.            *)
(*                                                                         *)
(* Rounds over one connection: walk the remote tree, compare it with the     *)
(* local one, download what differs on a pool of workers, delete what was    *)
(* not seen.  Meanwhile somebody changes the remote files.                   *)
(*                                                                         *)
(* A file's version is a number.  Size and mtime stand for it: every change  *)
(* is taken to change one of them.  Directories are left out.                *)
(***************************************************************************)
EXTENDS Naturals, FiniteSets

CONSTANTS
    Files,     \* relative paths
    Excluded,  \* those the filters reject
    Delete,    \* --delete
    Workers,   \* the pool
    Edits,     \* bound on changes of the remote tree
    Fails,     \* bound on single calls that fail
    Faults,    \* what else may happen, see AllFaults
    None,      \* no file
    Part,      \* content of a file whose download has not ended
    Torn,      \* content of several versions
    Now        \* an mtime given by the local clock

\* lose  the connection is lost
\* stop  the user interrupts the command
AllFaults == {"lose", "stop"}

Versions == 1..(Edits + 1)
Copies == [data : Versions \cup {Part, Torn}, mtime : Versions \cup {Now}]

ASSUME MirrorAssumption ==
    /\ IsFiniteSet(Files) /\ IsFiniteSet(Workers)
    /\ Excluded \subseteq Files
    /\ None \notin Files \cup Copies \cup Versions
    /\ Now \notin Versions  \* a file without its stamp differs from the remote one
    /\ Delete \in BOOLEAN
    /\ Edits \in Nat /\ Fails \in Nat
    /\ Faults \subseteq AllFaults

VARIABLES
    remote,    \* the version of each remote file, or None
    local,     \* content and mtime of each local file, or None
    edits,     \* changes so far
    fails,     \* calls that failed
    conn,      \* the SSH connection
    stop,      \* SIGINT or SIGTERM arrived
    main,      \* where the command is
    todo,      \* remote files the walk has still to visit
    walked,    \* the version of each it has seen
    jobs,      \* downloads not handed out
    gone,      \* local files to delete
    missed,    \* local files the round could not list or delete
    busy,      \* the file each worker downloads, and its stage
    failed,    \* firstErr is set
    report,    \* how the round ended
    still      \* history: nothing changed remotely during it

world == <<remote, edits>>
trouble == <<fails, conn, stop>>
round == <<todo, walked, jobs, gone, missed>>
vars == <<world, local, trouble, main, round, busy, failed, report, still>>

Seen == {f \in Files : walked[f] # None}
Idle == [file |-> None, stage |-> "idle", from |-> None]
Sftp == conn = "up"

TypeOK ==
    /\ remote \in [Files -> Versions \cup {None}]
    /\ local \in [Files -> Copies \cup {None}]
    /\ edits \in 0..Edits /\ fails \in 0..Fails
    /\ conn \in {"up", "lost"} /\ stop \in BOOLEAN
    /\ main \in {"walk", "plan", "feed", "delete", "sleep", "ended"}
    /\ todo \subseteq Files /\ jobs \subseteq Files /\ gone \subseteq Files
    /\ missed \subseteq Files
    /\ walked \in [Files -> Versions \cup {None}]
    /\ Seen \cap Excluded = {}
    /\ busy \in [Workers -> [file : Files \cup {None},
                             stage : {"idle", "open", "copy", "stamp"},
                             from : Versions \cup {None}]]
    /\ failed \in BOOLEAN /\ still \in BOOLEAN
    /\ report \in {"none", "ok", "error"}

\* A local file may be there that the remote does not have.
Init ==
    /\ remote \in [Files -> {1, None}]
    /\ local \in [Files -> {[data |-> Torn, mtime |-> Now], None}]
    /\ edits = 0 /\ fails = 0 /\ conn = "up" /\ stop = FALSE
    /\ main = "walk" /\ todo = Files
    /\ walked = [f \in Files |-> None]
    /\ jobs = {} /\ gone = {} /\ missed = {}
    /\ busy = [w \in Workers |-> Idle]
    /\ failed = FALSE /\ report = "none" /\ still = TRUE

----------------------------------------------------------------------------
(* A round: mirrorOnceRun.                                                  *)

\* One file after another is seen, as it is then, if the filters let it.
Walk ==
    /\ main = "walk" /\ Sftp
    /\ \E f \in todo :
          /\ todo' = todo \ {f}
          /\ walked' = [walked EXCEPT ![f] = IF f \in Excluded THEN None
                                             ELSE remote[f]]
    /\ main' = IF todo' = {} THEN "plan" ELSE "walk"
    /\ UNCHANGED <<world, local, trouble, jobs, gone, missed, busy, failed, report,
                   still>>

\* The round ends as r says; the next one starts from nothing.
EndRound(r) ==
    /\ main' = "sleep" /\ report' = r
    /\ todo' = {} /\ jobs' = {} /\ gone' = {}
    /\ walked' = [f \in Files |-> None]
    /\ failed' = FALSE

\* A call that fails by itself.
Fail == fails < Fails /\ fails' = fails + 1

\* newSFTP or the walk fails: nothing is downloaded or deleted.
WalkFails ==
    /\ main = "walk"
    /\ \/ conn = "lost" /\ UNCHANGED fails
       \/ Fail
    /\ EndRound("error")
    /\ UNCHANGED <<world, local, conn, stop, missed, busy, still>>

\* The local tree is listed and compared; what cannot be listed is passed over.
Plan ==
    /\ main = "plan"
    /\ \E hidden \in SUBSET {f \in Files : local[f] # None} :
          LET listed(f) == local[f] # None /\ f \notin hidden IN
          /\ IF hidden = {} THEN UNCHANGED fails ELSE Fail
          /\ jobs' = {f \in Seen : listed(f) => local[f].mtime # walked[f]}
          /\ gone' = IF Delete THEN {f \in Files \ Seen : listed(f)} ELSE {}
          /\ missed' = hidden \ Seen
    /\ main' = "feed"
    /\ UNCHANGED <<world, local, conn, stop, todo, walked, busy, failed, report,
                   still>>

\* jobsCh <- j: an idle worker takes it.
Feed ==
    /\ main = "feed"
    /\ \E f \in jobs, w \in Workers :
          /\ busy[w] = Idle
          /\ busy' = [busy EXCEPT ![w] = [file |-> f, stage |-> "open", from |-> None]]
          /\ jobs' = jobs \ {f}
    /\ UNCHANGED <<world, local, trouble, main, todo, walked, gone, missed, failed,
                   report, still>>

\* wg.Wait.
Joined ==
    /\ main = "feed" /\ jobs = {}
    /\ \A w \in Workers : busy[w].file = None
    /\ main' = "delete"
    /\ UNCHANGED <<world, local, trouble, round, busy, failed, report, still>>

\* The delete pass, and the round's result, for which an os.RemoveAll that fails
\* does not count.
DeleteGone ==
    /\ main = "delete"
    /\ IF gone = {}
       THEN /\ EndRound(IF failed THEN "error" ELSE "ok")
            /\ UNCHANGED <<local, fails, missed>>
       ELSE /\ \E f \in gone :
                  /\ gone' = gone \ {f}
                  /\ \/ /\ local' = [local EXCEPT ![f] = None]
                        /\ UNCHANGED <<fails, missed>>
                     \/ Fail /\ missed' = missed \cup {f} /\ UNCHANGED local
            /\ UNCHANGED <<main, todo, walked, jobs, failed, report>>
    /\ UNCHANGED <<world, conn, stop, busy, still>>

\* The watch loop: an interval, or the end.
NextRound ==
    /\ main = "sleep"
    /\ IF stop THEN main' = "ended" /\ UNCHANGED <<todo, still>>
               ELSE main' = "walk" /\ todo' = Files /\ still' = TRUE
    /\ missed' = {} /\ report' = "none"
    /\ UNCHANGED <<world, local, trouble, walked, jobs, gone, busy, failed>>

Main == Walk \/ WalkFails \/ Plan \/ Feed \/ Joined \/ DeleteGone \/ NextRound

----------------------------------------------------------------------------
(* A worker, with pullFile.                                                 *)

At(w, stage) == busy[w].stage = stage

\* Mutant of WorkerFails: the error is printed only.
WorkerFailsQuietly(w) ==
    /\ busy[w].stage \in {"open", "copy"}
    /\ \/ (conn = "lost" \/ (At(w, "open") /\ remote[busy[w].file] = None)) /\ UNCHANGED fails
       \/ Fail
    /\ busy' = [busy EXCEPT ![w] = Idle]
    /\ UNCHANGED <<world, local, conn, stop, main, round, failed, report, still>>

\* Mutant of WorkerFails: the worker ends.
WorkerQuits(w) ==
    /\ busy[w].stage \in {"open", "copy"}
    /\ \/ (conn = "lost" \/ (At(w, "open") /\ remote[busy[w].file] = None)) /\ UNCHANGED fails
       \/ Fail
    /\ busy' = [busy EXCEPT ![w] = [Idle EXCEPT !.stage = "stamp"]]
    /\ failed' = TRUE
    /\ UNCHANGED <<world, local, conn, stop, main, round, report, still>>

\* A call of pullFile fails, as it does once the file or the connection is
\* gone; the error is kept and the worker goes on with the next job.
WorkerFails(w) ==
    /\ busy[w].stage \in {"open", "copy"}
    /\ \/ (conn = "lost" \/ (At(w, "open") /\ remote[busy[w].file] = None)) /\ UNCHANGED fails
       \/ Fail
    /\ busy' = [busy EXCEPT ![w] = Idle]
    /\ failed' = TRUE
    /\ UNCHANGED <<world, local, conn, stop, main, round, report, still>>

\* The remote file is opened, then the local one truncated.
Open(w) ==
    LET f == busy[w].file IN
    /\ At(w, "open") /\ Sftp /\ remote[f] # None
    /\ local' = [local EXCEPT ![f] = [data |-> Part, mtime |-> Now]]
    /\ busy' = [busy EXCEPT ![w] = [file |-> f, stage |-> "copy",
                                  from |-> remote[f]]]
    /\ UNCHANGED <<world, trouble, main, round, failed, report, still>>

\* io.Copy: the version that was opened, when another was put in its place, or
\* a mixture, when it was written over.
Copy(w) ==
    LET f == busy[w].file IN
    /\ At(w, "copy") /\ Sftp
    /\ \E d \in IF remote[f] \in {busy[w].from, None} THEN {busy[w].from}
                                                      ELSE {busy[w].from, Torn} :
          local' = [local EXCEPT ![f] = [data |-> d, mtime |-> Now]]
    /\ busy' = [busy EXCEPT ![w] = [@ EXCEPT !.stage = "stamp"]]
    /\ UNCHANGED <<world, trouble, main, round, failed, report, still>>

\* Mutant of Stamp: the mtime the file has when its download ends.
StampLate(w) ==
    LET f == busy[w].file IN
    /\ At(w, "stamp") /\ f # None
    /\ local' = [local EXCEPT ![f] = [@ EXCEPT
                     !.mtime = IF remote[f] = None THEN walked[f] ELSE remote[f]]]
    /\ busy' = [busy EXCEPT ![w] = Idle]
    /\ UNCHANGED <<world, trouble, main, round, failed, report, still>>

\* os.Chtimes, with the mtime of the walk; its error is ignored.
Stamp(w) ==
    LET f == busy[w].file IN
    /\ At(w, "stamp") /\ f # None
    /\ \/ /\ local' = [local EXCEPT ![f] = [@ EXCEPT !.mtime = walked[f]]]
          /\ UNCHANGED fails
       \/ Fail /\ UNCHANGED local
    /\ busy' = [busy EXCEPT ![w] = Idle]
    /\ UNCHANGED <<world, conn, stop, main, round, failed, report, still>>

Work(w) == WorkerFails(w) \/ Open(w) \/ Copy(w) \/ Stamp(w)

----------------------------------------------------------------------------

\* Somebody writes, replaces or removes a remote file.
Edit ==
    /\ edits < Edits
    /\ edits' = edits + 1
    /\ \E f \in Files :
          \/ remote' = [remote EXCEPT ![f] = edits' + 1]
          \/ remote[f] # None /\ remote' = [remote EXCEPT ![f] = None]
    /\ still' = FALSE
    /\ UNCHANGED <<local, trouble, main, round, busy, failed, report>>

Lose ==
    /\ "lose" \in Faults /\ conn = "up"
    /\ conn' = "lost"
    /\ UNCHANGED <<world, local, fails, stop, main, round, busy, failed, report,
                   still>>

Interrupt ==
    /\ "stop" \in Faults /\ ~stop
    /\ stop' = TRUE
    /\ UNCHANGED <<world, local, fails, conn, main, round, busy, failed, report,
                   still>>

Ended == main = "ended" /\ UNCHANGED vars

Next ==
    \/ Main \/ Edit \/ Lose \/ Interrupt \/ Ended
    \/ \E w \in Workers : Work(w)

Spec == Init /\ [][Next]_vars

\* Goroutines are scheduled and the interval passes.
FairSpec == Spec /\ WF_vars(Main) /\ \A w \in Workers : WF_vars(Work(w))

----------------------------------------------------------------------------
(* Properties.                                                             *)

Included == Files \ Excluded

Synced(f) == IF remote[f] = None THEN Delete => local[f] = None
             ELSE local[f] # None /\ local[f].data = remote[f]

\* A round that reports success, and during which nothing changed, leaves the
\* remote content in place of every file, whatever earlier rounds have torn,
\* truncated or missed; but for a file to delete that the round itself could not
\* list or remove, which is no error to it.
SuccessIsSynced ==
    main = "sleep" /\ report = "ok" /\ still =>
        \A f \in Included : Synced(f) \/ (remote[f] = None /\ f \in missed)

\* A round removes no file that its walk has seen.
SeenKept ==
    [][\A f \in Files : local[f] # None /\ local'[f] = None => walked[f] = None]_vars

\* Every round ends, whatever fails in it: no job waits for a worker that is gone.
RoundsEnd == (main = "walk") ~> (main \in {"sleep", "ended"})

\* "Downloads any file that differs": once the remote is quiet the mirror
\* becomes and remains equal to it, if the connection and the command live on.
Converges ==
    <>[](conn = "lost" \/ stop \/ \A f \in Included : Synced(f))

=============================================================================
