------------------------- MODULE PipelineProperties -------------------------
(***************************************************************************)
(* What a run promises.  The comments name the code each property judges.  *)
(***************************************************************************)
EXTENDS PolicyShapes

(***************************************************************************)
(* No loop counter passes its declared cap, whatever mix of loopbacks,     *)
(* gate admissions and phase failures charges it (AnalysisLoopCounter,     *)
(* apply_execution_cycle_outcome, charge_analysis_cycle_for_gate).         *)
(***************************************************************************)
LoopCountersWithinCaps ==
  \A c \in LoopCounters : state.loop_iterations[c] <= Cap[c]

(***************************************************************************)
(* A run closes at most BudgetCap cycles, and ends in success only when it *)
(* has closed them all: no recovery, redirect or skipped commit ends the   *)
(* run early or bills a cycle twice (apply_commit_outcome,                 *)
(* resolve_post_commit_phase).                                             *)
(***************************************************************************)
CycleBudget ==
  /\ state.iteration <= BudgetCap
  /\ exit = "success" => state.iteration = BudgetCap

(***************************************************************************)
(* Where the failed route leads back to is known: the phase that failed,   *)
(* which is never a terminal (_recovery_prepare_effect falls back to the   *)
(* entry phase, and would lose the cycle, otherwise).  A run that stops    *)
(* there may have forgotten it: a plan missing at the cycle cap goes from  *)
(* the failed route to the failed route.                                   *)
(***************************************************************************)
FailedRouteRemembersPhase ==
  state.phase = failed_route /\ Continues(state) =>
    state.previous_phase \in Phases \ TerminalStates

(***************************************************************************)
(* The route past analysis that an expired development timer sets up is    *)
(* used by the very commit it was set up for: it is pending only on the    *)
(* way from the redirect to that commit, through failures of that way      *)
(* (apply_development_timebox sets it, _handle_commit_success consumes it).*)
(***************************************************************************)
OverrideIsForItsCommit ==
  state.post_commit_phase_override # NONE =>
    LET way == {development_timebox.finalization_target,
                development_timebox.end_entry}
    IN  \/ state.phase \in way
        \/ state.phase = failed_route /\ state.previous_phase \in way

cycle_expired(s) ==
  /\ HasCycleTimebox
  /\ s.cycle_timebox_active
  /\ s.cycle_timebox_consumed_seconds >= cycle_timebox.duration_seconds

development_expired(s) ==
  /\ HasDevelopmentTimebox
  /\ s.dev_timebox_active
  /\ s.dev_timebox_consumed_seconds >= development_timebox.warning_seconds

EntersGuardedPhase ==
  /\ state.phase # cycle_timebox.guarded_entry
  /\ state'.phase = cycle_timebox.guarded_entry

StartsGuardedAgent ==
  /\ step.effect = NONE
  /\ step'.effect = "agent"
  /\ state'.phase = development_timebox.guarded_entry

(***************************************************************************)
(* No development starts on a spent clock: the guarded phase is not        *)
(* entered from another phase once the cycle's time is up, and no agent is *)
(* started in it once the development time is up, by any route, retry,     *)
(* crash or recovery (_prepare_phase_advance, redirect_expired_cycle_in_   *)
(* place, the PreparePromptEffect branch of _handle_inline_effect).        *)
(***************************************************************************)
DeadlinesGuardDevelopment ==
  [][/\ EntersGuardedPhase => ~cycle_expired(state')
     /\ StartsGuardedAgent => ~development_expired(state')]_vars

(***************************************************************************)
(* Each cycle starts clean: the commit that closes a cycle leaves no loop  *)
(* counter charged, no verdict, no pending route and no running cycle      *)
(* timer for the next one, although planning's counter is reset long       *)
(* before and by other code than the commit's loop_resets.                 *)
(***************************************************************************)
NextCycleStartsClean ==
  [][state'.iteration # state.iteration =>
       /\ state'.iteration = state.iteration + 1
       /\ state.phase \in ClosingCommits \/ prepared.phase \in ClosingCommits
       /\ \A c \in LoopCounters : state'.loop_iterations[c] = 0
       /\ state'.pending_cycle_outcome = NONE
       /\ state'.post_commit_phase_override = NONE
       /\ ~state'.cycle_timebox_active]_vars

(***************************************************************************)
(* A commit is executed only with the message prepared for it, the premise *)
(* on which _should_preserve_commit_retry skips the commit agent.          *)
(***************************************************************************)
CommitHasMessage ==
  step.effect = "commit" => message_file

\* How often in a row a plan may be missing, or a phase fail, before the
\* next failure leads to the failed route and the run gives up there.
failures_in_a_row == IF cycle_cap > MAX_RECOVERY_EPOCHS THEN cycle_cap ELSE MAX_RECOVERY_EPOCHS

(***************************************************************************)
(* Failures in a row are counted to an end: no mix of commit retries,      *)
(* missing plans, failed phases and re-entries lets recovery_epoch run     *)
(* more than one past the bound at which missing plans lead to the failed  *)
(* route (recover_missing_plan_handoff), or the bound at which the run     *)
(* loop gives up there, whichever is larger.                               *)
(***************************************************************************)
RecoveryEpochIsBounded == state.recovery_epoch <= failures_in_a_row + 1

(***************************************************************************)
(* Once failures stop, the run ends: neither loopbacks, redirects,         *)
(* recoveries nor budget routes keep it going for ever.                    *)
(***************************************************************************)
Terminates == <>(exit # "running")

=============================================================================
