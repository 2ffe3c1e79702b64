----------------------------- MODULE MCGitLock -----------------------------
(* Two calls in the threads of one Ralph process, a repeatable command and a *)
(* push, beside one foreign git.  They share the queue; the reaper of the    *)
(* one that waits for a lock runs beside the pre-flight reaper of the other. *)
EXTENDS GitLock

CONSTANT ralph

OneProcess == [c \in Calls |-> ralph]
=============================================================================
