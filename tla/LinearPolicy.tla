---------------------------- MODULE LinearPolicy ----------------------------
(***************************************************************************)
(* A small custom policy, as ralph/policy/models.py admits it, for what    *)
(* the bundled one leaves unused: a commit with no cleanup phase to fall   *)
(* back to, a closing commit outside lifecycle_phases, a workflow          *)
(* fallback, a result status with a post-commit route of its own, and a    *)
(* decision that fails the phase, declared or not.                         *)
(***************************************************************************)
EXTENDS TLC

Absent == "none"

LinearPhases ==
  {"work", "rescue", "commit", "review", "publish", "done", "failed"}

In(f) == f @@ [p \in LinearPhases |-> Absent]

LinearRole ==
  [work |-> "execution", rescue |-> "execution", commit |-> "commit",
   review |-> "analysis", publish |-> "commit",
   done |-> "terminal", failed |-> "terminal"]

LinearOnSuccess ==
  [work |-> "commit", rescue |-> "commit", commit |-> "review",
   review |-> "publish", publish |-> "done", done |-> "done",
   failed |-> "failed"]

LinearOnLoopback ==
  In([review |-> "work", done |-> "done", failed |-> "failed"])

LinearFallback == In([work |-> "rescue"])

LinearCounters == {"review_iteration"}

LinearLoopCounter == In([review |-> "review_iteration"])

LinearResets ==
  [publish |-> LinearCounters] @@ [p \in LinearPhases |-> {}]

LinearDecisions == {"completed", "request_changes", "failed", "unheard_of"}

LinearRoute ==
  [p \in LinearPhases |-> [d \in LinearDecisions |->
     [target |->
        IF p # "review" THEN Absent
        ELSE CASE d = "completed" -> "publish"
               [] d = "request_changes" -> "work"
               [] d = "failed" -> "failed"
               [] d = "unheard_of" -> Absent,
      reset_loop |-> p = "review" /\ d = "completed",
      cycle_outcome |->
        IF p = "review" /\ d = "completed" THEN "completed" ELSE Absent]]]

LinearStatuses == {"completed", "failed"}

LinearResultOverride ==
  [p \in LinearPhases |-> [s \in LinearStatuses |->
     IF p = "work" /\ s = "completed" THEN "publish" ELSE Absent]]

LinearGateUpstream == In([review |-> "work"])

LinearCycleCounter == In([work |-> "review_iteration"])

LinearPostCommit ==
  [publish |->
     [remaining |-> [none |-> "work", completed |-> "work"],
      no_review |-> [none |-> Absent, completed |-> "done"]]]

LinearRecoveryPhase == In([p \in {} |-> Absent])

\* A timebox value for a policy that declares none.
UnusedCycleTimebox ==
  [duration_seconds |-> 1, start_source |-> "work", start_entry |-> "work",
   guarded_entry |-> "work", end_entry |-> "publish",
   finalization_target |-> "publish", finalization_cycle_outcome |-> Absent]

UnusedDevelopmentTimebox ==
  [warning_seconds |-> 1, start_entry |-> "work", guarded_entry |-> "work",
   end_entry |-> "commit", finalization_target |-> "publish"]

=============================================================================
