------------------------------ MODULE Progress ------------------------------
(***************************************************************************)
(* The pipeline state and the bookkeeping of ralph/pipeline/progress.py:   *)
(* what entering a phase resets, how the loop counters are charged, and    *)
(* what a commit does to the budget.  Every operator maps a state to the   *)
(* state the function of the same name returns.                            *)
(***************************************************************************)
EXTENDS PipelinePolicy

(***************************************************************************)
(* An error is kept as what routing tells apart: a repairable git failure, *)
(* one that also names a lock file, or any other text.                     *)
(***************************************************************************)
ErrorKinds == {"repairable", "lock", "other"}

is_repairable_git_failure(e) == e \in {"repairable", "lock"}

names_a_lock_file(e) == e = "lock"

(***************************************************************************)
(* PipelineState.  iteration is outer_progress["iteration"];               *)
(* agent_invoked is commit.agent_invoked; execution_seconds[p] is the sum  *)
(* of the phase timings of p since cycle_timing_start_index, and the three *)
(* clocks stop counting at the bound a guard compares them with.           *)
(***************************************************************************)
State ==
  [phase : Phases,
   previous_phase : OrNone(Phases),
   loop_iterations : [LoopCounters -> Nat],
   iteration : Nat,
   execution_cycle_charged : BOOLEAN,
   pending_cycle_outcome : OrNone(Outcomes),
   post_commit_phase_override : OrNone(Phases),
   last_execution_result_status : OrNone(Statuses),
   agent_invoked : BOOLEAN,
   last_error : OrNone(ErrorKinds),
   recovery_epoch : Nat,
   recovery_cycle_count : Nat,
   cycle_timebox_active : BOOLEAN,
   cycle_timebox_consumed_seconds : Nat,
   dev_timebox_active : BOOLEAN,
   dev_timebox_consumed_seconds : Nat,
   execution_seconds : [GateUpstreams -> Nat]]

InitialState ==
  [phase |-> entry_phase,
   previous_phase |-> NONE,
   loop_iterations |-> [c \in LoopCounters |-> 0],
   iteration |-> 0,
   execution_cycle_charged |-> FALSE,
   pending_cycle_outcome |-> NONE,
   post_commit_phase_override |-> NONE,
   last_execution_result_status |-> NONE,
   agent_invoked |-> FALSE,
   last_error |-> NONE,
   recovery_epoch |-> 0,
   recovery_cycle_count |-> 0,
   cycle_timebox_active |-> FALSE,
   cycle_timebox_consumed_seconds |-> 0,
   dev_timebox_active |-> FALSE,
   dev_timebox_consumed_seconds |-> 0,
   execution_seconds |-> [p \in GateUpstreams |-> 0]]

with_loop_iteration(s, c, n) == [s EXCEPT !.loop_iterations[c] = n]

(***************************************************************************)
(* AnalysisLoopCounter                                                     *)
(***************************************************************************)
\* Mutant: skips one pass too late
skips_reentry_late(completed, cap) == completed > cap

should_skip_reentry(completed, cap) == completed >= cap

\* Mutant: counts past the cap
uncapped_completed(completed, cap) == completed + 1

next_completed(completed, cap) ==
  IF completed + 1 <= cap THEN completed + 1 ELSE cap

charge_loop_counter(s, c) ==
  with_loop_iteration(s, c, next_completed(s.loop_iterations[c], Cap[c]))

\* Mutant: keeps the commit state of the phase before
advance_keeping_commit_state(s, target) ==
  [s EXCEPT
     !.phase = target,
     !.previous_phase = s.phase,
     !.recovery_epoch = 0,
     !.execution_cycle_charged =
        IF Role[target] = "execution" THEN FALSE ELSE @]

(***************************************************************************)
(* advance_phase: last_error, the verdict and the timers are kept.         *)
(***************************************************************************)
advance_phase(s, target) ==
  [s EXCEPT
     !.phase = target,
     !.previous_phase = s.phase,
     !.recovery_epoch = 0,
     !.execution_cycle_charged =
        IF Role[target] = "execution" THEN FALSE ELSE @,
     !.agent_invoked = IF Role[target] = "commit" THEN FALSE ELSE @]

apply_analysis_success(s, advanced) ==
  IF LoopCounter[s.phase] = NONE
  THEN advanced
  ELSE with_loop_iteration(advanced, LoopCounter[s.phase], 0)

apply_analysis_loopback(s, c, increment) ==
  IF increment THEN charge_loop_counter(s, c) ELSE s

analysis_loopback_is_already_charged(s) ==
  /\ Role[s.phase] = "analysis"
  /\ s.execution_cycle_charged

(***************************************************************************)
(* apply_execution_cycle_outcome: the counter is read from the state s the *)
(* run was in and written to the state it advances to.                     *)
(***************************************************************************)
apply_execution_cycle_outcome(s, advanced) ==
  LET c == ExecutionCycleCounter[s.phase] IN
  IF c = NONE
  THEN advanced
  ELSE [with_loop_iteration(advanced, c,
                            next_completed(s.loop_iterations[c], Cap[c]))
          EXCEPT !.execution_cycle_charged = TRUE]

\* Mutant: marks the pass as charged without charging it
mark_analysis_cycle_for_gate(s, upstream) ==
  [s EXCEPT !.execution_cycle_charged = TRUE]

charge_analysis_cycle_for_gate(s, upstream) ==
  LET c == ExecutionCycleCounter[upstream] IN
  IF c = NONE
  THEN s
  ELSE [charge_loop_counter(s, c) EXCEPT !.execution_cycle_charged = TRUE]

cumulative_execution_seconds(s, p) == s.execution_seconds[p]

(***************************************************************************)
(* A lifecycle phase counts a skipped commit as progress and starts the    *)
(* phase timings of the next cycle; a plain commit policy does neither.    *)
(***************************************************************************)
reset_loops(s) ==
  [s EXCEPT !.loop_iterations =
     [c \in LoopCounters |-> IF c \in LoopResets[s.phase] THEN 0 ELSE @[c]]]

\* Mutant: keeps only the counters that are reset
lifecycle_completion_drops_counters(s) ==
  [s EXCEPT
     !.loop_iterations = [c \in LoopResets[s.phase] |-> 0],
     !.iteration = @ + 1,
     !.execution_seconds = [p \in GateUpstreams |-> 0]]

apply_lifecycle_completion_policy(s) ==
  [reset_loops(s) EXCEPT
     !.iteration = @ + 1,
     !.execution_seconds = [p \in GateUpstreams |-> 0]]

\* Mutant: bills every commit as a closed cycle
every_commit_closes_a_cycle(s, skipped) ==
  [reset_loops(s) EXCEPT !.iteration = @ + 1]

apply_commit_outcome_policy_driven(s, skipped) ==
  IF s.phase \in ClosingCommits /\ (~skipped \/ s.phase \in SkippedAdvances)
  THEN [reset_loops(s) EXCEPT !.iteration = @ + 1]
  ELSE reset_loops(s)

apply_commit_outcome(s, skipped) ==
  IF s.phase \in Lifecycle
  THEN apply_lifecycle_completion_policy(s)
  ELSE apply_commit_outcome_policy_driven(s, skipped)

=============================================================================
