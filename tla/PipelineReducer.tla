-------------------------- MODULE PipelineReducer --------------------------
(***************************************************************************)
(* The routing reducer (ralph/pipeline/reducer.py): the state every event  *)
(* handler returns.  rt is the routing timing sampled for the step.  The   *)
(* integration gate of reduce() is outside this module: a run with no      *)
(* retained integration record passes through it unchanged.                *)
(***************************************************************************)
EXTENDS CycleTiming

MAX_COMMIT_RECOVERY_ATTEMPTS == 3

failure_reason(s) == IF s.last_error = NONE THEN "other" ELSE s.last_error

\* Mutant: assigns the phase instead of advancing to it
enter_failed_recovery_by_assignment(s, reason) ==
  apply_execution_cycle_outcome(s,
    [s EXCEPT !.phase = failed_route,
              !.last_error = reason,
              !.recovery_epoch = @ + 1,
              !.pending_cycle_outcome = NONE])

(***************************************************************************)
(* The failed route ends a phase, not the run: the cycle timer goes on.    *)
(***************************************************************************)
enter_failed_recovery(s, reason) ==
  apply_execution_cycle_outcome(s,
    [advance_phase(s, failed_route) EXCEPT
       !.last_error = reason,
       !.recovery_epoch = s.recovery_epoch + 1,
       !.pending_cycle_outcome = NONE])

-----------------------------------------------------------------------------
(***************************************************************************)
(* Routing boundaries: every advance passes the timeboxes, then the        *)
(* exhausted phases, then the timeboxes again for the phase it now enters. *)
(***************************************************************************)
then_development_timebox(c, rt) ==
  [apply_development_timebox(c.state, c.target, rt) EXCEPT !.started = c.started]

apply_timeboxes(s, target, rt) ==
  then_development_timebox(apply_cycle_timebox(s, target, rt), rt)

bypassed_source_started(d, skipped) ==
  pass_through(
    start_cycle_for_bypassed_start_source(d.state, d.target, skipped), d.target)

with_bypassed_cycle_timing(bypass, rt, timer_just_started) ==
  IF bypass.skipped = {} \/ timer_just_started
  THEN pass_through(bypass.state, bypass.target)
  ELSE bypassed_source_started(
         apply_timeboxes(bypass.state, bypass.target, rt), bypass.skipped)

concluded_if_leaving_cycle(r) ==
  pass_through(
    conclude_development_timebox_on_route_out_of_development(
      conclude_cycle_on_route_out_of_cycle(r.state, r.target), r.target),
    r.target)

\* An exhausted analysis phase that goes forward is itself passed over
exhausted_bypass(s, d) ==
  LET own == resolve_exhausted_analysis_bypass(d.state, s.phase) IN
  IF /\ Role[s.phase] = "analysis"
     /\ OnSuccess[s.phase] = d.target
     /\ own.skipped # {}
  THEN own
  ELSE resolve_exhausted_analysis_bypass(d.state, d.target)

past_exhausted_phases(s, d, rt) ==
  concluded_if_leaving_cycle(
    with_bypassed_cycle_timing(exhausted_bypass(s, d), rt, d.started))

prepare_phase_advance(s, target, rt) ==
  past_exhausted_phases(s, apply_timeboxes(s, target, rt), rt)

(***************************************************************************)
(* A cleanup phase on the way back to a commit whose message is prepared   *)
(* keeps that message and the recovery counter.                            *)
(***************************************************************************)
should_preserve_commit_retry(s, target) ==
  /\ Role[s.phase] = "commit_cleanup"
  /\ Role[target] = "commit"
  /\ s.agent_invoked
  /\ is_repairable_git_failure(s.last_error) \/ s.recovery_epoch > 0

preserving_commit_retry(s, advanced) ==
  IF should_preserve_commit_retry(s, advanced.phase)
  THEN [advanced EXCEPT !.agent_invoked = s.agent_invoked,
                        !.recovery_epoch = s.recovery_epoch,
                        !.last_error = s.last_error]
  ELSE advanced

advance_to(p) == advance_phase(p.state, p.target)

prepared_advance(s, target, rt) ==
  advance_to(prepare_phase_advance(s, target, rt))

reducer_advance_phase(s, target, rt) ==
  preserving_commit_retry(s, prepared_advance(s, target, rt))

resolve_success(s, rt) == reducer_advance_phase(s, OnSuccess[s.phase], rt)

preserving_cleanup_recovery(s, advanced) ==
  IF /\ Role[s.phase] = "commit_cleanup"
     /\ Role[advanced.phase] = "commit_cleanup"
  THEN [advanced EXCEPT !.recovery_epoch = s.recovery_epoch,
                        !.last_error = s.last_error]
  ELSE advanced

resolve_loopback(s, rt) ==
  IF OnLoopback[s.phase] = NONE
  THEN enter_failed_recovery(s, "other")
  ELSE preserving_cleanup_recovery(s,
         prepared_advance(s, OnLoopback[s.phase], rt))

-----------------------------------------------------------------------------
(***************************************************************************)
(* Deadlines that expire where no route is taken.  While the development   *)
(* timer runs it alone interrupts the phase.                               *)
(***************************************************************************)
expired_redirect(s, rt) ==
  LET d == apply_development_timebox(s, s.phase, rt) IN
  IF d.redirected \/ s.dev_timebox_active
  THEN d
  ELSE apply_cycle_timebox(s, s.phase, rt)

take_redirect(d, rt) == reducer_advance_phase(d.state, d.target, rt)

redirect_expired_cycle_in_place(s, rt) ==
  take_redirect(expired_redirect(s, rt), rt)

-----------------------------------------------------------------------------
(***************************************************************************)
(* Results of an agent.                                                    *)
(***************************************************************************)
handle_analysis_success(s, rt) ==
  LET stamped == stamp_if_unrecorded(s, declared_forward_cycle_outcome(s.phase))
  IN  apply_analysis_success(stamped,
        reducer_advance_phase(stamped, OnSuccess[s.phase], rt))

handle_agent_success(s, rt) ==
  IF Role[s.phase] = "commit" /\ ~s.agent_invoked
  THEN [s EXCEPT !.agent_invoked = TRUE]
  ELSE IF Role[s.phase] = "analysis"
       THEN handle_analysis_success(s, rt)
       ELSE resolve_success(s, rt)

handle_phase_advance(s, rt) == resolve_success(s, rt)

handle_execution_result(s, status, rt) ==
  resolve_success(
    [s EXCEPT !.post_commit_phase_override = ResultOverride[s.phase][status],
              !.last_execution_result_status = status], rt)

handle_phase_loopback(s, rt) ==
  IF LoopCounter[s.phase] = NONE
  THEN resolve_loopback(s, rt)
  ELSE LET counted == apply_analysis_loopback(s, LoopCounter[s.phase],
                        ~analysis_loopback_is_already_charged(s)) IN
       IF OnLoopback[s.phase] = NONE
       THEN enter_failed_recovery(counted, "other")
       ELSE reducer_advance_phase(counted, OnLoopback[s.phase], rt)

\* Mutant: forgets reset_loop
count_decision_without_reset(s, route) ==
  IF LoopCounter[s.phase] = NONE
  THEN s
  ELSE apply_analysis_loopback(s, LoopCounter[s.phase],
         ~route.reset_loop /\ ~analysis_loopback_is_already_charged(s))

count_decision(s, route) ==
  LET c == LoopCounter[s.phase] IN
  IF c = NONE
  THEN s
  ELSE IF route.reset_loop
       THEN with_loop_iteration(s, c, 0)
       ELSE apply_analysis_loopback(s, c,
              ~analysis_loopback_is_already_charged(s))

handle_analysis_decision(s, decision, rt) ==
  LET route == Route[s.phase][decision]
      counted == count_decision(s, route)
      decided == IF route.cycle_outcome = NONE
                 THEN counted
                 ELSE [counted EXCEPT
                         !.pending_cycle_outcome = route.cycle_outcome]
  IN  IF route.target = NONE
      THEN enter_failed_recovery(s, "other")
      ELSE IF route.target = failed_route
           THEN enter_failed_recovery(decided, failure_reason(s))
           ELSE prepared_advance(decided, route.target, rt)

-----------------------------------------------------------------------------
(***************************************************************************)
(* Results of a commit.                                                    *)
(***************************************************************************)
gate_admits(s, p) ==
  \/ s.last_execution_result_status \in AlwaysInvoke
  \/ cumulative_execution_seconds(s, GateUpstream[p]) >= GateMinimum

charged_if_entered(advanced, next) ==
  IF advanced.phase = next
  THEN charge_analysis_cycle_for_gate(advanced, GateUpstream[next])
  ELSE advanced

advance_through_invocation_gate(s, next, rt) ==
  LET ungated == [s EXCEPT !.last_execution_result_status = NONE] IN
  IF GateUpstream[next] = NONE
  THEN reducer_advance_phase(ungated, next, rt)
  ELSE IF gate_admits(s, next)
       THEN charged_if_entered(reducer_advance_phase(ungated, next, rt), next)
       ELSE reducer_advance_phase(
              stamp_if_unrecorded(ungated, declared_forward_cycle_outcome(next)),
              OnSuccess[next], rt)

\* Mutant: takes the pending route without consuming it
handle_commit_outcome_keeping_route(s, skipped, rt) ==
  LET counted == apply_commit_outcome(s, skipped)
      next == resolve_post_commit_phase(counted)
      closed == IF commit_closes_a_cycle(s.phase)
                THEN [counted EXCEPT !.pending_cycle_outcome = NONE]
                ELSE counted
  IN  IF counted.post_commit_phase_override # NONE
      THEN reducer_advance_phase(closed, next, rt)
      ELSE advance_through_invocation_gate(closed, next, rt)

handle_commit_outcome(s, skipped, rt) ==
  LET counted == apply_commit_outcome(s, skipped)
      next == resolve_post_commit_phase(counted)
      closed == IF commit_closes_a_cycle(s.phase)
                THEN [counted EXCEPT !.pending_cycle_outcome = NONE]
                ELSE counted
  IN  IF counted.post_commit_phase_override # NONE
      THEN reducer_advance_phase(
             [closed EXCEPT !.post_commit_phase_override = NONE], next, rt)
      ELSE advance_through_invocation_gate(closed, next, rt)

handle_commit_success(s, rt) == handle_commit_outcome(s, FALSE, rt)

handle_commit_skipped(s, rt) == handle_commit_outcome(s, TRUE, rt)

handle_commit_residual(s, rt) == reducer_advance_phase(s, s.phase, rt)

(***************************************************************************)
(* A repairable failure retries the commit, with the message it has, in    *)
(* the recovery phase the policy offers or in place; only a lock that no   *)
(* phase can clear is retried without bound.                               *)
(***************************************************************************)
with_commit_retry(s, target, error, epoch, advanced) ==
  [advanced EXCEPT
     !.agent_invoked = s.agent_invoked,
     !.last_error = error,
     !.recovery_epoch = epoch,
     !.pending_cycle_outcome = NONE,
     !.last_execution_result_status = "failed",
     !.previous_phase = IF target = s.phase /\ advanced.phase = s.phase
                        THEN s.previous_phase ELSE @]

retry_commit(s, target, error, epoch, rt) ==
  with_commit_retry(s, target, error, epoch, prepared_advance(s, target, rt))

handle_repairable_commit_failure(s, error, rt) ==
  LET recovery_phase == CommitRecoveryPhase[s.phase]
      target == IF recovery_phase = NONE THEN s.phase ELSE recovery_phase
      epoch == s.recovery_epoch
  IN  IF names_a_lock_file(error) /\ recovery_phase = NONE
      THEN retry_commit(s, target, error,
             IF epoch + 1 <= MAX_COMMIT_RECOVERY_ATTEMPTS
             THEN epoch + 1 ELSE MAX_COMMIT_RECOVERY_ATTEMPTS, rt)
      ELSE IF epoch >= MAX_COMMIT_RECOVERY_ATTEMPTS
           THEN [enter_failed_recovery(s, error) EXCEPT
                   !.recovery_epoch = MAX_COMMIT_RECOVERY_ATTEMPTS,
                   !.last_execution_result_status = "failed"]
           ELSE retry_commit(s, target, error, epoch + 1, rt)

handle_commit_failure(s, error, rt) ==
  LET cleared == [s EXCEPT !.pending_cycle_outcome = NONE,
                           !.last_execution_result_status = "failed"]
      known == IF error = NONE /\ is_repairable_git_failure(s.last_error)
               THEN s.last_error ELSE error
  IN  IF is_repairable_git_failure(known)
      THEN handle_repairable_commit_failure(cleared, known, rt)
      ELSE enter_failed_recovery(cleared, "other")

-----------------------------------------------------------------------------
(***************************************************************************)
(* Failures.  The recovery controller's verdict on a failure is to go on   *)
(* in the phase (with this or another agent, at once or after a wait) or   *)
(* to fail it; modelled in full in RecoveryController.                     *)
(***************************************************************************)
controller_retries(s, error) == [s EXCEPT !.last_error = error]

controller_fails_phase(s, error, counted) ==
  [advance_phase(s, failed_route) EXCEPT
     !.last_error = error,
     !.recovery_epoch = s.recovery_epoch + 1,
     !.recovery_cycle_count = IF counted THEN @ + 1 ELSE @]

reduce_phase_failure(s, new) ==
  IF new.phase # s.phase THEN apply_execution_cycle_outcome(s, new) ELSE new

handle_chain_exhausted(s, rt) ==
  IF WorkflowFallback[s.phase] = NONE
  THEN enter_failed_recovery(s, failure_reason(s))
  ELSE apply_execution_cycle_outcome(s,
         prepared_advance(s, WorkflowFallback[s.phase], rt))

=============================================================================
