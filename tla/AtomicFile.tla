----------------------------- MODULE AtomicFile -----------------------------
(* What "tn write" promises of the remote files (internal/cli/files.go,     *)
(* writeCmd): a file changes at one instant, from one whole content to       *)
(* another, and a success is reported only for a write that took place.      *)
CONSTANTS
    Writers, Paths,
    Whole(_), None,   \* the content a writer brings, and no file
    Gap               \* paths on servers that cannot replace a file

VARIABLES content, result

vars == <<content, result>>

\* Whole(x) is the content x brings; a path brings the content it begins with.
Init ==
    /\ content = [p \in Paths |-> Whole(p)]
    /\ result = [w \in Writers |-> "none"]

\* The write takes place; when the answer is lost it is reported as failed.
Write(w, p) ==
    /\ result[w] = "none"
    /\ content' = [content EXCEPT ![p] = Whole(w)]
    /\ \E r \in {"ok", "failed"} : result' = [result EXCEPT ![w] = r]

Fail(w) ==
    /\ result[w] = "none"
    /\ result' = [result EXCEPT ![w] = "failed"]
    /\ UNCHANGED content

\* Without an atomic rename the old file goes first.
Remove(p) ==
    /\ p \in Gap
    /\ content' = [content EXCEPT ![p] = None]
    /\ UNCHANGED result

Next ==
    \/ \E w \in Writers, p \in Paths : Write(w, p)
    \/ \E w \in Writers : Fail(w)
    \/ \E p \in Paths : Remove(p)

AtomicSpec == Init /\ [][Next]_vars

============================================================================
