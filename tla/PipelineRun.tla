---------------------------- MODULE PipelineRun ----------------------------
(***************************************************************************)
(* The run loop (ralph/pipeline/run_loop.py), the step it repeats          *)
(* (ralph/pipeline/runner.py) and the effect router between them           *)
(* (ralph/pipeline/effect_router.py), over the reducer's routing.          *)
(*                                                                         *)
(* A step is two actions when it runs an agent or a git commit, so that    *)
(* time passes and failures happen in between: a Dispatch action samples   *)
(* the clocks, redirects an expired phase and starts the effect; a result  *)
(* action reduces its event.  Effects that only route are one action.      *)
(***************************************************************************)
EXTENDS PipelineReducer

CONSTANTS
  RequiresPlan,     \* phases whose prompt needs the plan handoff
  ReportsResult,    \* execution phases that produce a development_result
  FailureReasons,   \* kinds of text a failure leaves in last_error
  FaultKinds,       \* kinds of failure that may happen
  MaxFaults         \* bound on their number in a behaviour

ASSUME RunAssumption ==
  /\ RequiresPlan \subseteq Phases
  /\ ReportsResult \subseteq Phases
  /\ FailureReasons \subseteq ErrorKinds
  /\ FaultKinds \subseteq {"agent", "crash", "commit", "plan", "dispatch"}
  /\ MaxFaults \in Nat

VARIABLES
  state,            \* the PipelineState
  step,             \* the effect in flight and its phase timer
  message_file,     \* a commit message is on disk
  exit,             \* how the loop ended, or "running"
  faults            \* failures so far

vars == <<state, step, message_file, exit, faults>>

MAX_RECOVERY_EPOCHS == 3

Steps == [effect : {NONE, "agent", "commit"}, timed_phase : OrNone(Phases),
          seconds : Nat]

Idle == [effect |-> NONE, timed_phase |-> NONE, seconds |-> 0]

Exits == {"running", "success", "failure", "ledger"}

TypeOK ==
  /\ state \in State
  /\ step \in Steps
  /\ message_file \in BOOLEAN
  /\ exit \in Exits
  /\ faults \in 0..MaxFaults

Init ==
  /\ state = InitialState
  /\ step = Idle
  /\ message_file = FALSE
  /\ exit = "running"
  /\ faults = 0

-----------------------------------------------------------------------------
(***************************************************************************)
(* Clocks.                                                                 *)
(***************************************************************************)
Saturate(n, bound) == IF n + 1 <= bound THEN n + 1 ELSE bound

routing_timing(s) ==
  [total |-> s.cycle_timebox_consumed_seconds,
   development |-> s.dev_timebox_consumed_seconds]

(***************************************************************************)
(* A second passes that some clock counts: that of a running timebox, or   *)
(* the phase timer of the step.                                            *)
(***************************************************************************)
Tick ==
  /\ exit = "running"
  /\ state' = [state EXCEPT
       !.cycle_timebox_consumed_seconds =
          IF state.cycle_timebox_active
          THEN Saturate(@, cycle_timebox.duration_seconds) ELSE @,
       !.dev_timebox_consumed_seconds =
          IF state.dev_timebox_active
          THEN Saturate(@, development_timebox.warning_seconds) ELSE @]
  /\ step' = [step EXCEPT !.seconds =
       IF step.effect # NONE /\ step.timed_phase \in GateUpstreams
       THEN Saturate(@, GateMinimum) ELSE @]
  /\ <<state', step'>> # <<state, step>>
  /\ UNCHANGED <<message_file, exit, faults>>

(***************************************************************************)
(* The phase timing of a step is recorded after its event is reduced,      *)
(* against the phase the step started in.                                  *)
(***************************************************************************)
with_phase_timing(s) ==
  IF step.timed_phase \in GateUpstreams
  THEN [s EXCEPT !.execution_seconds[step.timed_phase] =
          IF @ + step.seconds <= GateMinimum
          THEN @ + step.seconds ELSE GateMinimum]
  ELSE s

Fault(kind) ==
  /\ kind \in FaultKinds
  /\ faults < MaxFaults
  /\ faults' = faults + 1

-----------------------------------------------------------------------------
(***************************************************************************)
(* The loop's condition.  The failed route ends the run only when recovery *)
(* is exhausted or the failure ledger has no agent left for the phase.     *)
(***************************************************************************)
recovery_exhausted(s) ==
  \/ s.recovery_epoch >= MAX_RECOVERY_EPOCHS
  \/ s.last_execution_result_status = "failed"

cycle_cap_exhausted(s) == s.recovery_cycle_count >= cycle_cap

Continues(s) ==
  \/ s.phase \notin TerminalStates
  \/ /\ s.phase = failed_route
     /\ ~recovery_exhausted(s)
     /\ ~cycle_cap_exhausted(s)

AtLoopHead == exit = "running" /\ step = Idle

Leave(how) ==
  /\ exit' = how
  /\ UNCHANGED <<state, step, message_file, faults>>

Finishes ==
  /\ AtLoopHead
  /\ state.phase \in TerminalStates \ {failed_route}
  /\ Leave("success")

StopsAtFailedRoute ==
  /\ AtLoopHead
  /\ state.phase = failed_route
  /\ recovery_exhausted(state) \/ cycle_cap_exhausted(state)
  /\ Leave("failure")

LedgerStops ==
  /\ AtLoopHead
  /\ state.phase = failed_route
  /\ Continues(state)
  /\ Leave("ledger")

-----------------------------------------------------------------------------
(***************************************************************************)
(* Dispatch: a phase whose deadline passed is left before its effect is    *)
(* chosen.                                                                 *)
(***************************************************************************)
redirect_if_expired(s) ==
  IF expired_redirect(s, routing_timing(s)).redirected
  THEN redirect_expired_cycle_in_place(s, routing_timing(s))
  ELSE s

prepared == redirect_if_expired(state)

Dispatching == AtLoopHead /\ Continues(state)

requires_plan(s, p) ==
  \/ p \in RequiresPlan
  \/ /\ p = entry_phase
     /\ s.previous_phase # NONE
     /\ OnLoopback[s.previous_phase] = p

\* Mutant: always starts over at the entry phase
recover_missing_plan_handoff_unbounded(s) ==
  [conclude_cycle_on_route_out_of_cycle(advance_phase(s, entry_phase), entry_phase)
     EXCEPT !.last_error = "other", !.recovery_epoch = s.recovery_epoch + 1]

recover_missing_plan_handoff(s) ==
  LET target == IF s.recovery_epoch >= cycle_cap
                THEN failed_route ELSE entry_phase
  IN  [conclude_cycle_on_route_out_of_cycle(advance_phase(s, target), target)
         EXCEPT !.last_error = "other",
                !.recovery_epoch = s.recovery_epoch + 1]

(***************************************************************************)
(* PreparePromptEffect on the failed route: the phase that failed is       *)
(* entered by assignment, past the deadlines but past no other route.      *)
(***************************************************************************)
recovery_target(s) ==
  IF s.previous_phase \in {NONE, failed_route}
  THEN entry_phase ELSE s.previous_phase

\* Mutant: re-enters past the deadlines
reenter_unguarded(s) ==
  [s EXCEPT !.phase = recovery_target(s),
            !.agent_invoked =
               IF Role[recovery_target(s)] = "commit" THEN FALSE ELSE @]

reenter_phase(s) ==
  LET d == apply_timeboxes(s, recovery_target(s), routing_timing(s))
      b == concluded_if_leaving_cycle(d).state
  IN  [b EXCEPT !.phase = d.target,
                !.agent_invoked = IF Role[d.target] = "commit" THEN FALSE ELSE @]

ReenterFailedPhase ==
  /\ Dispatching
  /\ prepared.phase = failed_route
  /\ state' = reenter_phase(prepared)
  /\ UNCHANGED <<step, message_file, exit, faults>>

PlanMissingOnReentry ==
  /\ Dispatching
  /\ prepared.phase = failed_route
  /\ requires_plan(prepared, recovery_target(prepared))
  /\ Fault("plan")
  /\ state' = recover_missing_plan_handoff(prepared)
  /\ UNCHANGED <<step, message_file, exit>>

exhausted_analysis(s) ==
  Role[s.phase] = "analysis" /\ is_exhausted(s, s.phase)

AdvanceExhausted ==
  /\ Dispatching
  /\ exhausted_analysis(prepared)
  /\ state' = handle_phase_advance(prepared, routing_timing(prepared))
  /\ UNCHANGED <<step, message_file, exit, faults>>

(***************************************************************************)
(* A clean worktree completes a cleanup or a commit without an agent.      *)
(***************************************************************************)
EmptyCommit ==
  /\ Dispatching
  /\ LET rt == routing_timing(prepared) IN
     \/ /\ Role[prepared.phase] = "commit_cleanup"
        /\ state' = handle_agent_success(prepared, rt)
        /\ UNCHANGED message_file
     \/ /\ Role[prepared.phase] = "commit"
        /\ state' = handle_commit_success(prepared, rt)
        /\ message_file' = FALSE
  /\ UNCHANGED <<step, exit, faults>>

needs_agent(s) ==
  \/ Role[s.phase] \in {"execution", "commit_cleanup"}
  \/ Role[s.phase] = "analysis" /\ ~exhausted_analysis(s)
  \/ Role[s.phase] = "commit" /\ ~s.agent_invoked

\* Mutant: forgets which phase failed
exit_failure_forgetting_phase(s) ==
  [s EXCEPT !.phase = failed_route, !.last_error = "other",
            !.recovery_epoch = @ + 1]

(***************************************************************************)
(* ExitFailureEffect: no agent to invoke, or a worktree git cannot read,   *)
(* which also drops the commit message.                                    *)
(***************************************************************************)
exit_failure(s) ==
  [advance_phase(s, failed_route) EXCEPT
     !.last_error = "other", !.recovery_epoch = s.recovery_epoch + 1]

NoAgentToInvoke ==
  /\ Dispatching
  /\ needs_agent(prepared)
  /\ Fault("dispatch")
  /\ state' = exit_failure(prepared)
  /\ UNCHANGED <<step, message_file, exit>>

WorktreeUnreadable ==
  /\ Dispatching
  /\ Role[prepared.phase] = "commit"
  /\ Fault("dispatch")
  /\ state' = exit_failure(prepared)
  /\ message_file' = FALSE
  /\ UNCHANGED <<step, exit>>

Starts(effect) ==
  /\ state' = prepared
  /\ step' = [effect |-> effect, timed_phase |-> state.phase, seconds |-> 0]
  /\ UNCHANGED <<exit, faults>>

InvokeAgent ==
  /\ Dispatching
  /\ needs_agent(prepared)
  /\ Starts("agent")
  /\ message_file' =
       IF Role[prepared.phase] = "commit" THEN FALSE ELSE message_file

PlanMissing ==
  /\ Dispatching
  /\ needs_agent(prepared)
  /\ requires_plan(prepared, prepared.phase)
  /\ Fault("plan")
  /\ state' = recover_missing_plan_handoff(prepared)
  /\ UNCHANGED <<step, message_file, exit>>

StartCommit ==
  /\ Dispatching
  /\ Role[prepared.phase] = "commit"
  /\ prepared.agent_invoked
  /\ Starts("commit")
  /\ UNCHANGED message_file

-----------------------------------------------------------------------------
(***************************************************************************)
(* Results: the clocks are sampled again, the event is reduced and the     *)
(* time of the step is recorded.                                           *)
(***************************************************************************)
rt_now == routing_timing(state)

Reduces(new) ==
  /\ state' = with_phase_timing(new)
  /\ step' = Idle
  /\ UNCHANGED exit

AgentReturns == exit = "running" /\ step.effect = "agent"

AgentSucceeds ==
  /\ AgentReturns
  /\ Role[state.phase] \in {"execution", "commit_cleanup", "commit"}
  /\ Reduces(handle_agent_success(state, rt_now))
  /\ message_file' = (message_file \/ Role[state.phase] = "commit")
  /\ UNCHANGED faults

ExecutionReports ==
  /\ AgentReturns
  /\ state.phase \in ReportsResult
  /\ \E status \in Statuses :
       Reduces(handle_execution_result(state, status, rt_now))
  /\ UNCHANGED <<message_file, faults>>

AnalysisDecides ==
  /\ AgentReturns
  /\ Role[state.phase] = "analysis"
  /\ \E decision \in Decisions :
       Reduces(handle_analysis_decision(state, decision, rt_now))
  /\ UNCHANGED <<message_file, faults>>

CleanupLoopsBack ==
  /\ AgentReturns
  /\ Role[state.phase] = "commit_cleanup"
  /\ Reduces(handle_phase_loopback(state, rt_now))
  /\ UNCHANGED <<message_file, faults>>

AgentSkipsCommit ==
  /\ AgentReturns
  /\ Role[state.phase] = "commit"
  /\ Reduces(handle_commit_skipped(state, rt_now))
  /\ message_file' \in BOOLEAN
  /\ UNCHANGED faults

CommitReturns == exit = "running" /\ step.effect = "commit"

CommitSucceeds ==
  /\ CommitReturns
  /\ message_file
  /\ Reduces(handle_commit_success(state, rt_now))
  /\ message_file' = FALSE
  /\ UNCHANGED faults

CommitSkipped ==
  /\ CommitReturns
  /\ message_file
  /\ Reduces(handle_commit_skipped(state, rt_now))
  /\ message_file' = FALSE
  /\ UNCHANGED faults

CommitResidual ==
  /\ CommitReturns
  /\ message_file
  /\ Fault("commit")
  /\ Reduces(handle_commit_residual(state, rt_now))
  /\ message_file' = FALSE

CommitFails ==
  /\ CommitReturns
  /\ message_file
  /\ Fault("commit")
  /\ \E error \in ErrorKinds :
       Reduces(handle_commit_failure(state, error, rt_now))
  /\ UNCHANGED message_file

(***************************************************************************)
(* Without a message the executor raises ValueError, which is no git       *)
(* failure.                                                                *)
(***************************************************************************)
CommitWithoutMessage ==
  /\ CommitReturns
  /\ ~message_file
  /\ Reduces(handle_commit_failure(state, "other", rt_now))
  /\ UNCHANGED <<message_file, faults>>

-----------------------------------------------------------------------------
(***************************************************************************)
(* Failures: an expired deadline is honoured before the controller is      *)
(* asked.  Its verdict is chosen here.                                     *)
(***************************************************************************)
Verdicts(s) ==
  {controller_retries(s, e) : e \in FailureReasons \cup {s.last_error}}
  \cup {controller_fails_phase(s, e, counted) :
          e \in FailureReasons, counted \in BOOLEAN}

AfterExpiry(outcomes) ==
  IF expired_redirect(state, rt_now).redirected
  THEN {redirect_expired_cycle_in_place(state, rt_now)}
  ELSE outcomes

PhaseFails ==
  /\ AgentReturns
  /\ Fault("agent")
  /\ \E new \in AfterExpiry({reduce_phase_failure(state, v) : v \in Verdicts(state)}) :
       Reduces(new)
  /\ UNCHANGED message_file

StepCrashes ==
  /\ AgentReturns \/ CommitReturns
  /\ Fault("crash")
  /\ \E new \in AfterExpiry(Verdicts(state)) : Reduces(new)
  /\ UNCHANGED message_file

(***************************************************************************)
(* AGENT_FAILURE with no captured cause: the reducer applies the           *)
(* controller's selection itself.                                          *)
(***************************************************************************)
AgentFails ==
  /\ AgentReturns
  /\ Fault("agent")
  /\ \E new \in AfterExpiry({state, controller_retries(state, "other"),
                             handle_chain_exhausted(state, rt_now),
                             enter_failed_recovery(state, "other")}) :
       Reduces(new)
  /\ UNCHANGED message_file

-----------------------------------------------------------------------------
Proceed ==
  \/ Finishes \/ StopsAtFailedRoute \/ LedgerStops
  \/ ReenterFailedPhase \/ PlanMissingOnReentry
  \/ AdvanceExhausted \/ EmptyCommit
  \/ NoAgentToInvoke \/ WorktreeUnreadable
  \/ InvokeAgent \/ PlanMissing \/ StartCommit
  \/ AgentSucceeds \/ ExecutionReports \/ AnalysisDecides
  \/ CleanupLoopsBack \/ AgentSkipsCommit
  \/ CommitSucceeds \/ CommitSkipped \/ CommitResidual
  \/ CommitFails \/ CommitWithoutMessage
  \/ PhaseFails \/ StepCrashes \/ AgentFails

Ended == exit # "running" /\ UNCHANGED vars

Next == Tick \/ Proceed \/ Ended

Spec == Init /\ [][Next]_vars

(***************************************************************************)
(* The loop never rests, and every agent invocation and every git command  *)
(* ends: the idle watchdog and the subprocess timeouts see to it.  This is *)
(* WF_vars(Proceed), written out with exit = "running" for ENABLED         *)
(* Proceed (a running loop always has a step to take or an exit to make)   *)
(* and ~Tick for Proceed (a step that changes something is one of the two).*)
(***************************************************************************)
Fairness == []<>(exit # "running") \/ []<><<~Tick>>_vars

FairSpec == Spec /\ Fairness

=============================================================================
