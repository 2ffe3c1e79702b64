--------------------------- MODULE PipelineProofs ---------------------------
(***************************************************************************)
(* Proofs about the run loop, for every policy that satisfies the          *)
(* assumptions of PipelinePolicy: types, the caps of the loop counters and *)
(* the deadlines.                                                          *)
(***************************************************************************)
EXTENDS PipelineProperties, TLAPS

\* Zenon is tried on every leaf that names no prover; a leaf that needs
\* arithmetic or equality of records asks for SMT.
USE Zenon

(***************************************************************************)
(* The inductive invariant: the state is well typed and no loop counter    *)
(* has passed its cap.  Every operator of the reducer maps such a state to *)
(* such a state, which the lemmas below show one operator at a time.       *)
(***************************************************************************)
LoopCounts == {f \in [LoopCounters -> Nat] : \A c \in LoopCounters : f[c] <= Cap[c]}

Sound(s) == s \in State /\ s.loop_iterations \in LoopCounts

IInv == TypeOK /\ LoopCountersWithinCaps

\* What the policy graph says of a phase, and of the failed route.
LEMMA NextPhases ==
  ASSUME NEW p \in Phases
  PROVE  /\ OnSuccess[p] \in Phases
         /\ OnLoopback[p] \in OrNone(Phases) /\ (OnLoopback[p] # NONE => OnLoopback[p] \in Phases)
         /\ WorkflowFallback[p] \in OrNone(Phases)
         /\ WorkflowFallback[p] # NONE => WorkflowFallback[p] \in Phases
         /\ CommitRecoveryPhase[p] \in OrNone(Phases)
         /\ CommitRecoveryPhase[p] # NONE => CommitRecoveryPhase[p] \in Phases
<1>1. /\ OnSuccess \in [Phases -> Phases]
      /\ OnLoopback \in [Phases -> OrNone(Phases)]
      /\ WorkflowFallback \in [Phases -> OrNone(Phases)]
      /\ CommitRecoveryPhase \in [Phases -> OrNone(Phases)]
  BY GraphAssumption
<1> QED BY <1>1 DEF OrNone

LEMMA FailedRouteIsTerminal ==
  /\ failed_route \in Phases /\ entry_phase \in Phases
  /\ Role[failed_route] = "terminal" /\ failed_route \in TerminalStates
<1>1. failed_route \in Phases /\ entry_phase \in Phases
  BY NamesAssumption
<1>2. Role[failed_route] = "terminal"
  BY GraphAssumption
<1> QED BY <1>1, <1>2 DEF TerminalStates

\* Changing one field of a sound state to a value of its type.
LEMMA Update ==
  ASSUME NEW s, Sound(s)
  PROVE  /\ \A v \in Phases : Sound([s EXCEPT !.phase = v])
         /\ \A v \in OrNone(Phases) : Sound([s EXCEPT !.previous_phase = v])
         /\ \A v \in LoopCounts : Sound([s EXCEPT !.loop_iterations = v])
         /\ \A v \in Nat : Sound([s EXCEPT !.iteration = v])
         /\ \A v \in BOOLEAN : Sound([s EXCEPT !.execution_cycle_charged = v])
         /\ \A v \in OrNone(Outcomes) : Sound([s EXCEPT !.pending_cycle_outcome = v])
         /\ \A v \in OrNone(Phases) : Sound([s EXCEPT !.post_commit_phase_override = v])
         /\ \A v \in OrNone(Statuses) : Sound([s EXCEPT !.last_execution_result_status = v])
         /\ \A v \in BOOLEAN : Sound([s EXCEPT !.agent_invoked = v])
         /\ \A v \in OrNone(ErrorKinds) : Sound([s EXCEPT !.last_error = v])
         /\ \A v \in Nat : Sound([s EXCEPT !.recovery_epoch = v])
         /\ \A v \in Nat : Sound([s EXCEPT !.recovery_cycle_count = v])
         /\ \A v \in BOOLEAN : Sound([s EXCEPT !.cycle_timebox_active = v])
         /\ \A v \in Nat : Sound([s EXCEPT !.cycle_timebox_consumed_seconds = v])
         /\ \A v \in BOOLEAN : Sound([s EXCEPT !.dev_timebox_active = v])
         /\ \A v \in Nat : Sound([s EXCEPT !.dev_timebox_consumed_seconds = v])
         /\ \A v \in [GateUpstreams -> Nat] : Sound([s EXCEPT !.execution_seconds = v])
<1>1. \A v \in Phases : Sound([s EXCEPT !.phase = v])
  BY DEF Sound, State, LoopCounts
<1>2. \A v \in OrNone(Phases) : Sound([s EXCEPT !.previous_phase = v])
  BY DEF Sound, State, LoopCounts
<1>3. \A v \in LoopCounts : Sound([s EXCEPT !.loop_iterations = v])
  BY DEF Sound, State, LoopCounts
<1>4. \A v \in Nat : Sound([s EXCEPT !.iteration = v])
  BY DEF Sound, State, LoopCounts
<1>5. \A v \in BOOLEAN : Sound([s EXCEPT !.execution_cycle_charged = v])
  BY DEF Sound, State, LoopCounts
<1>6. \A v \in OrNone(Outcomes) : Sound([s EXCEPT !.pending_cycle_outcome = v])
  BY DEF Sound, State, LoopCounts
<1>7. \A v \in OrNone(Phases) : Sound([s EXCEPT !.post_commit_phase_override = v])
  BY DEF Sound, State, LoopCounts
<1>8. \A v \in OrNone(Statuses) : Sound([s EXCEPT !.last_execution_result_status = v])
  BY DEF Sound, State, LoopCounts
<1>9. \A v \in BOOLEAN : Sound([s EXCEPT !.agent_invoked = v])
  BY DEF Sound, State, LoopCounts
<1>10. \A v \in OrNone(ErrorKinds) : Sound([s EXCEPT !.last_error = v])
  BY DEF Sound, State, LoopCounts
<1>11. \A v \in Nat : Sound([s EXCEPT !.recovery_epoch = v])
  BY DEF Sound, State, LoopCounts
<1>12. \A v \in Nat : Sound([s EXCEPT !.recovery_cycle_count = v])
  BY DEF Sound, State, LoopCounts
<1>13. \A v \in BOOLEAN : Sound([s EXCEPT !.cycle_timebox_active = v])
  BY DEF Sound, State, LoopCounts
<1>14. \A v \in Nat : Sound([s EXCEPT !.cycle_timebox_consumed_seconds = v])
  BY DEF Sound, State, LoopCounts
<1>15. \A v \in BOOLEAN : Sound([s EXCEPT !.dev_timebox_active = v])
  BY DEF Sound, State, LoopCounts
<1>16. \A v \in Nat : Sound([s EXCEPT !.dev_timebox_consumed_seconds = v])
  BY DEF Sound, State, LoopCounts
<1>17. \A v \in [GateUpstreams -> Nat] : Sound([s EXCEPT !.execution_seconds = v])
  BY DEF Sound, State, LoopCounts
<1> QED BY <1>1, <1>2, <1>3, <1>4, <1>5, <1>6, <1>7, <1>8, <1>9, <1>10, <1>11, <1>12, <1>13, <1>14, <1>15, <1>16, <1>17

\* Writing a loop counter within its cap keeps the state sound
\* (with_loop_iteration).
LEMMA SetLoopIteration ==
  ASSUME NEW s, Sound(s), NEW c \in LoopCounters, NEW n \in 0..Cap[c]
  PROVE  Sound(with_loop_iteration(s, c, n))
<1>1. [s.loop_iterations EXCEPT ![c] = n] \in LoopCounts
  BY SMTT(30), CountersAssumption DEF Sound, LoopCounts
<1>2. with_loop_iteration(s, c, n) =
        [s EXCEPT !.loop_iterations = [s.loop_iterations EXCEPT ![c] = n]]
  BY DEF with_loop_iteration
<1> QED BY SMTT(30), <1>1, <1>2, Update

\* A charge stops at the cap (AnalysisLoopCounter.next_completed).
LEMMA ChargeSound ==
  ASSUME NEW s, Sound(s), NEW c \in LoopCounters
  PROVE  /\ next_completed(s.loop_iterations[c], Cap[c]) \in 0..Cap[c]
         /\ Sound(charge_loop_counter(s, c))
         /\ Sound(with_loop_iteration(s, c, 0))
<1>1. s.loop_iterations[c] \in Nat /\ Cap[c] \in Nat
  BY CountersAssumption DEF Sound, LoopCounts
<1>2. next_completed(s.loop_iterations[c], Cap[c]) \in 0..Cap[c] /\ 0 \in 0..Cap[c]
  BY SMTT(30), <1>1 DEF next_completed
<1> QED BY <1>2, SetLoopIteration DEF charge_loop_counter

\* advance_phase keeps a state sound whatever phase it enters.
LEMMA AdvanceSound ==
  ASSUME NEW s, Sound(s), NEW target \in Phases
  PROVE  Sound(advance_phase(s, target)) /\ advance_phase(s, target).phase = target
<1> DEFINE charged == IF Role[target] = "execution" THEN FALSE
                      ELSE s.execution_cycle_charged
           invoked == IF Role[target] = "commit" THEN FALSE ELSE s.agent_invoked
           a == [s EXCEPT !.phase = target]
           b == [a EXCEPT !.previous_phase = s.phase]
           c == [b EXCEPT !.recovery_epoch = 0]
           d == [c EXCEPT !.execution_cycle_charged = charged]
           e == [d EXCEPT !.agent_invoked = invoked]
<1>1. charged \in BOOLEAN /\ invoked \in BOOLEAN /\ s.phase \in OrNone(Phases)
  BY DEF Sound, State, OrNone
<1>2. advance_phase(s, target) = e
  BY DEF advance_phase
<1>3. e.phase = target
  BY DEF Sound, State
<1> HIDE DEF charged, invoked
<1>4. Sound(a)
  BY Update
<1>5. Sound(b)
  BY <1>1, <1>4, Update
<1>6. Sound(c)
  BY <1>5, Update
<1>7. Sound(d)
  BY <1>1, <1>6, Update
<1>8. Sound(e)
  BY <1>1, <1>7, Update
<1> QED BY <1>2, <1>3, <1>8

\* Recording an outcome nobody has pronounced yet is sound.
LEMMA StampSound ==
  ASSUME NEW s, Sound(s), NEW outcome \in OrNone(Outcomes)
  PROVE  Sound(stamp_if_unrecorded(s, outcome)) /\ stamp_if_unrecorded(s, outcome).phase = s.phase
<1>1. Sound([s EXCEPT !.pending_cycle_outcome = outcome])
  BY Update
<1>2. [s EXCEPT !.pending_cycle_outcome = outcome].phase = s.phase
  BY DEF Sound, State
<1> QED BY <1>1, <1>2 DEF stamp_if_unrecorded

\* Charging the execution cycle of a failed phase stops at the cap, although
\* the counter is read from one state and written to another
\* (apply_execution_cycle_outcome).
LEMMA ExecutionCycleOutcomeSound ==
  ASSUME NEW s, Sound(s), NEW advanced, Sound(advanced)
  PROVE  Sound(apply_execution_cycle_outcome(s, advanced))
<1> DEFINE c == ExecutionCycleCounter[s.phase]
           n == next_completed(s.loop_iterations[c], Cap[c])
<1>1. CASE c = NONE
  BY <1>1 DEF apply_execution_cycle_outcome
<1>2. CASE c # NONE
  <2>1. c \in LoopCounters
    BY <1>2, CountersAssumption DEF Sound, State, OrNone
  <2>2. n \in 0..Cap[c]
    BY <2>1, ChargeSound
  <2>3. Sound(with_loop_iteration(advanced, c, n))
    BY <2>1, <2>2, SetLoopIteration
  <2>4. Sound([with_loop_iteration(advanced, c, n) EXCEPT !.execution_cycle_charged = TRUE])
    BY <2>3, Update
  <2> QED BY <1>2, <2>4 DEF apply_execution_cycle_outcome
<1> QED BY <1>1, <1>2

\* What a commit does to the counters and the budget is sound
\* (apply_commit_outcome).
LEMMA CommitOutcomeSound ==
  ASSUME NEW s, Sound(s), NEW skipped \in BOOLEAN
  PROVE  Sound(apply_commit_outcome(s, skipped))
<1> DEFINE kept == [c \in LoopCounters |->
                      IF c \in LoopResets[s.phase] THEN 0 ELSE s.loop_iterations[c]]
           zero == [p \in GateUpstreams |-> 0]
<1>1. kept \in LoopCounts
  BY SMTT(30), CountersAssumption DEF Sound, LoopCounts
<1>2. reset_loops(s) = [s EXCEPT !.loop_iterations = kept]
  BY DEF reset_loops
<1>3. Sound(reset_loops(s))
  BY SMTT(30), <1>1, <1>2, Update
<1>4. reset_loops(s).iteration + 1 \in Nat /\ zero \in [GateUpstreams -> Nat]
  BY SMTT(30), <1>3 DEF Sound, State
<1> DEFINE counted == [reset_loops(s) EXCEPT !.iteration = reset_loops(s).iteration + 1]
<1>5. Sound(counted)
  BY <1>3, <1>4, Update
<1>6. Sound([counted EXCEPT !.execution_seconds = zero])
  BY <1>4, <1>5, Update
<1>7. apply_lifecycle_completion_policy(s) = [counted EXCEPT !.execution_seconds = zero]
  BY DEF apply_lifecycle_completion_policy
<1>8. apply_commit_outcome_policy_driven(s, skipped) \in {counted, reset_loops(s)}
  BY DEF apply_commit_outcome_policy_driven
<1> HIDE DEF counted
<1> QED BY <1>3, <1>5, <1>6, <1>7, <1>8 DEF apply_commit_outcome

-----------------------------------------------------------------------------
(***************************************************************************)
(* Routes: a route is sound if its state is and its target is a phase.     *)
(***************************************************************************)
SoundRoute(r) == Sound(r.state) /\ r.target \in Phases

\* Passing over an exhausted phase resets its counter and leads to a phase.
LEMMA PassOverSound ==
  ASSUME NEW b, SoundRoute(b)
  PROVE  SoundRoute(bypass_exhausted_phase(b))
<1>1. CASE ~is_exhausted(b.state, b.target)
  BY <1>1 DEF bypass_exhausted_phase
<1>2. CASE is_exhausted(b.state, b.target)
  <2> DEFINE c == LoopCounter[b.target]
             outcome == declared_forward_cycle_outcome(b.target)
  <2>1. c \in LoopCounters
    BY <1>2, CountersAssumption DEF is_exhausted, SoundRoute, OrNone
  <2>2. outcome \in OrNone(Outcomes)
    BY SMTT(30), GraphAssumption, NamesAssumption
       DEF declared_forward_cycle_outcome, DecisionRoutes, Forward, SoundRoute
  <2>3. Sound(with_loop_iteration(b.state, c, 0))
    BY <2>1, ChargeSound DEF SoundRoute
  <2>4. Sound(stamp_if_unrecorded(with_loop_iteration(b.state, c, 0), outcome))
    BY <2>2, <2>3, StampSound
  <2>5. OnSuccess[b.target] \in Phases
    BY NextPhases DEF SoundRoute
  <2> QED BY <1>2, <2>4, <2>5 DEF bypass_exhausted_phase, SoundRoute
<1> QED BY <1>1, <1>2

\* So does passing over two (resolve_exhausted_analysis_bypass).
LEMMA BypassSound ==
  ASSUME NEW s, Sound(s), NEW candidate \in Phases
  PROVE  SoundRoute(resolve_exhausted_analysis_bypass(s, candidate))
<1>1. SoundRoute([state |-> s, target |-> candidate, skipped |-> {}])
  BY DEF SoundRoute
<1> QED BY <1>1, PassOverSound DEF resolve_exhausted_analysis_bypass

\* The post-commit routes lead to a declared phase.
LEMMA PostCommitPhaseType ==
  ASSUME NEW s, Sound(s)
  PROVE  resolve_post_commit_phase(s) \in Phases
<1>1. /\ s.phase \in Phases
      /\ s.post_commit_phase_override \in OrNone(Phases)
      /\ s.pending_cycle_outcome \in OrNone(Outcomes)
  BY DEF Sound, State
<1>2. ASSUME s.phase \in ClosingCommits
      PROVE  post_commit_route(s) \in OrNone(Phases)
  <2>1. compute_budget_state(s) \in BudgetStates
    BY DEF compute_budget_state, BudgetStates
  <2>2. Forward \in OrNone(Outcomes)
    BY NamesAssumption DEF Forward, OrNone
  <2>3. PostCommitRoute[s.phase][compute_budget_state(s)]
          \in [OrNone(Outcomes) -> OrNone(Phases)]
    BY <1>2, <2>1, BudgetAssumption
  <2> QED BY <1>1, <2>2, <2>3 DEF post_commit_route
<1> QED BY <1>1, <1>2, GraphAssumption
        DEF resolve_post_commit_phase, commit_closes_a_cycle, OrNone

\* Each timebox returns a sound state and a declared phase.
LEMMA TimeboxesSound ==
  ASSUME NEW s, Sound(s), NEW target \in Phases, NEW rt
  PROVE  /\ SoundRoute(apply_cycle_timebox(s, target, rt))
         /\ SoundRoute(apply_development_timebox(s, target, rt))
<1>1. ASSUME NEW t, Sound(t), NEW p \in Phases
      PROVE  /\ SoundRoute(pass_through(t, p))
             /\ SoundRoute([pass_through(t, p) EXCEPT !.started = TRUE])
             /\ SoundRoute([pass_through(t, p) EXCEPT !.redirected = TRUE])
  BY <1>1 DEF pass_through, SoundRoute
<1>2. SoundRoute(apply_cycle_timebox(s, target, rt))
  <2>1. Sound(started(s))
    <3>1. Sound([s EXCEPT !.cycle_timebox_active = TRUE])
      BY Update
    <3>2. Sound([s EXCEPT !.cycle_timebox_active = TRUE,
                          !.cycle_timebox_consumed_seconds = 0])
      BY <3>1, Update
    <3> QED BY <3>2 DEF started
  <2>2. Sound(stamp_if_unrecorded(s, cycle_timebox.finalization_cycle_outcome))
    BY StampSound, TimeboxAssumption DEF CycleTimeboxPolicies
  <2>3. cycle_timebox.finalization_target \in Phases
    BY TimeboxAssumption DEF CycleTimeboxPolicies
  <2> QED BY <1>1, <2>1, <2>2, <2>3 DEF apply_cycle_timebox
<1>3. SoundRoute(apply_development_timebox(s, target, rt))
  <2> DEFINE dt == development_timebox
             override == IF Role[dt.end_entry] = "commit"
                         THEN OnSuccess[dt.end_entry]
                         ELSE s.post_commit_phase_override
  <2>1. Sound([s EXCEPT !.dev_timebox_active = TRUE])
    BY Update
  <2>2. Sound([s EXCEPT !.dev_timebox_active = TRUE,
                        !.dev_timebox_consumed_seconds = 0])
    BY <2>1, Update
  <2>3. override \in OrNone(Phases) /\ dt.finalization_target \in Phases
    BY GraphAssumption, TimeboxAssumption
       DEF DevelopmentTimeboxPolicies, Sound, State, OrNone
  <2>4. Sound([s EXCEPT !.post_commit_phase_override = override])
    BY <2>3, Update
  <2> QED BY <1>1, <2>2, <2>3, <2>4 DEF apply_development_timebox
<1> QED BY <1>2, <1>3

\* Stopping a timer keeps a state sound.
LEMMA ConcludedSound ==
  ASSUME NEW s, Sound(s), NEW next \in Phases
  PROVE  /\ Sound(conclude_cycle_on_route_out_of_cycle(s, next))
         /\ Sound(conclude_development_timebox_on_route_out_of_development(s, next))
<1>1. Sound([s EXCEPT !.cycle_timebox_active = FALSE])
  BY Update
<1>2. Sound([s EXCEPT !.dev_timebox_active = FALSE])
  BY Update
<1>3. Sound([s EXCEPT !.dev_timebox_active = FALSE,
                      !.dev_timebox_consumed_seconds = 0])
  BY <1>2, Update
<1> QED BY <1>1, <1>3 DEF conclude_cycle_on_route_out_of_cycle,
                          conclude_development_timebox_on_route_out_of_development

\* A route that stops the timers it leaves behind is still a route.
LEMMA ConcludedRouteSound ==
  ASSUME NEW r, SoundRoute(r)
  PROVE  SoundRoute(concluded_if_leaving_cycle(r))
<1>1. Sound(conclude_cycle_on_route_out_of_cycle(r.state, r.target))
  BY ConcludedSound DEF SoundRoute
<1>2. Sound(conclude_development_timebox_on_route_out_of_development(
              conclude_cycle_on_route_out_of_cycle(r.state, r.target), r.target))
  BY <1>1, ConcludedSound DEF SoundRoute
<1> QED BY <1>2 DEF concluded_if_leaving_cycle, pass_through, SoundRoute

\* The two timeboxes in a row return a sound route (_prepare_phase_advance).
LEMMA ApplyTimeboxesSound ==
  ASSUME NEW s, Sound(s), NEW target \in Phases, NEW rt
  PROVE  SoundRoute(apply_timeboxes(s, target, rt))
<1> DEFINE c == apply_cycle_timebox(s, target, rt)
           d == apply_development_timebox(c.state, c.target, rt)
<1>1. SoundRoute(c)
  BY TimeboxesSound
<1>2. SoundRoute(d)
  BY <1>1, TimeboxesSound DEF SoundRoute
<1>3. \E t, p, x, y : d = [state |-> t, target |-> p, redirected |-> x, started |-> y]
  BY DEF apply_development_timebox, pass_through
<1> HIDE DEF d, c
<1>4. SoundRoute([d EXCEPT !.started = c.started])
  BY <1>2, <1>3 DEF SoundRoute
<1>5. apply_timeboxes(s, target, rt) = [d EXCEPT !.started = c.started]
  BY DEF apply_timeboxes, then_development_timebox, c, d
<1> QED BY <1>4, <1>5

\* Whatever the timeboxes and the exhausted phases make of a route, the state
\* a phase is advanced to is sound.
LEMMA PreparedAdvanceSound ==
  ASSUME NEW s, Sound(s), NEW target \in Phases, NEW rt
  PROVE  Sound(prepared_advance(s, target, rt))
<1> DEFINE d == apply_timeboxes(s, target, rt)
           own == resolve_exhausted_analysis_bypass(d.state, s.phase)
           other == resolve_exhausted_analysis_bypass(d.state, d.target)
<1>1. SoundRoute(d)
  BY ApplyTimeboxesSound
<1>2. SoundRoute(own) /\ SoundRoute(other)
  BY <1>1, BypassSound DEF SoundRoute, Sound, State
<1>3. ASSUME NEW b, SoundRoute(b), NEW started_now
      PROVE  SoundRoute(with_bypassed_cycle_timing(b, rt, started_now))
  <2> DEFINE e == apply_timeboxes(b.state, b.target, rt)
  <2>1. SoundRoute(e)
    BY <1>3, ApplyTimeboxesSound DEF SoundRoute
  <2>2. Sound(started(e.state))
    <3>1. Sound([e.state EXCEPT !.cycle_timebox_active = TRUE])
      BY <2>1, Update DEF SoundRoute
    <3>2. Sound([e.state EXCEPT !.cycle_timebox_active = TRUE,
                                !.cycle_timebox_consumed_seconds = 0])
      BY <3>1, Update
    <3> QED BY <3>2 DEF started
  <2> HIDE DEF e
  <2>3. Sound(start_cycle_for_bypassed_start_source(e.state, e.target, b.skipped))
    BY <2>1, <2>2 DEF start_cycle_for_bypassed_start_source, SoundRoute
  <2> QED BY <1>3, <2>1, <2>3
          DEF with_bypassed_cycle_timing, bypassed_source_started, pass_through, SoundRoute, e
<1> DEFINE p == prepare_phase_advance(s, target, rt)
<1>4. SoundRoute(p)
  <2>1. PICK b \in {own, other} :
          p = concluded_if_leaving_cycle(with_bypassed_cycle_timing(b, rt, d.started))
    BY DEF prepare_phase_advance, past_exhausted_phases, exhausted_bypass
  <2>2. SoundRoute(b)
    BY <1>2
  <2> HIDE DEF own, other, d, p
  <2>3. SoundRoute(with_bypassed_cycle_timing(b, rt, d.started))
    BY <1>3, <2>2
  <2> QED BY <2>1, <2>3, ConcludedRouteSound
<1> HIDE DEF own, other, d, p
<1> QED BY <1>4, AdvanceSound DEF prepared_advance, advance_to, p, SoundRoute

\* The failed route is entered in a sound state (_enter_failed_recovery).
LEMMA EnterFailedRecoverySound ==
  ASSUME NEW s, Sound(s), NEW reason \in OrNone(ErrorKinds)
  PROVE  Sound(enter_failed_recovery(s, reason))
<1> DEFINE a == advance_phase(s, failed_route)
           b == [a EXCEPT !.last_error = reason]
           c == [b EXCEPT !.recovery_epoch = s.recovery_epoch + 1]
           d == [c EXCEPT !.pending_cycle_outcome = NONE]
<1>1. Sound(a)
  BY AdvanceSound, NamesAssumption
<1>2. Sound(b)
  BY <1>1, Update
<1>3. s.recovery_epoch + 1 \in Nat /\ NONE \in OrNone(Outcomes)
  BY SMTT(30) DEF Sound, State, OrNone
<1>4. Sound(c)
  BY <1>2, <1>3, Update
<1>5. Sound(d)
  BY <1>3, <1>4, Update
<1>6. Sound(apply_execution_cycle_outcome(s, d))
  BY <1>5, ExecutionCycleOutcomeSound
<1> QED BY <1>6 DEF enter_failed_recovery

\* Keeping a prepared commit message over an advance is sound
\* (_should_preserve_commit_retry).
LEMMA ReducerAdvanceSound ==
  ASSUME NEW s, Sound(s), NEW target \in Phases, NEW rt
  PROVE  Sound(reducer_advance_phase(s, target, rt))
<1> DEFINE p == prepared_advance(s, target, rt)
           a == [p EXCEPT !.agent_invoked = s.agent_invoked]
           b == [a EXCEPT !.recovery_epoch = s.recovery_epoch]
           c == [b EXCEPT !.last_error = s.last_error]
<1>1. Sound(p)
  BY PreparedAdvanceSound
<1>2. s.agent_invoked \in BOOLEAN /\ s.recovery_epoch \in Nat
      /\ s.last_error \in OrNone(ErrorKinds)
  BY DEF Sound, State
<1> HIDE DEF p
<1>3. Sound(a)
  BY <1>1, <1>2, Update
<1>4. Sound(b)
  BY <1>2, <1>3, Update
<1>5. Sound(c)
  BY <1>2, <1>4, Update
<1> QED BY <1>1, <1>5 DEF reducer_advance_phase, preserving_commit_retry, p

-----------------------------------------------------------------------------
(***************************************************************************)
(* The event handlers.                                                     *)
(***************************************************************************)
\* Success and loopback transitions keep a state sound (_resolve_or_terminal).
LEMMA ResolveSound ==
  ASSUME NEW s, Sound(s), NEW rt
  PROVE  /\ Sound(resolve_success(s, rt))
         /\ Sound(resolve_loopback(s, rt))
<1>1. s.phase \in Phases /\ s.recovery_epoch \in Nat
      /\ s.last_error \in OrNone(ErrorKinds) /\ "other" \in OrNone(ErrorKinds)
  BY DEF Sound, State, OrNone, ErrorKinds
<1>2. Sound(resolve_success(s, rt))
  BY <1>1, GraphAssumption, ReducerAdvanceSound DEF resolve_success
<1>3. CASE OnLoopback[s.phase] = NONE
  BY <1>1, <1>2, <1>3, EnterFailedRecoverySound DEF resolve_loopback, preserving_cleanup_recovery
<1>4. CASE OnLoopback[s.phase] # NONE
  <2> DEFINE p == prepared_advance(s, OnLoopback[s.phase], rt)
             a == [p EXCEPT !.recovery_epoch = s.recovery_epoch]
             b == [a EXCEPT !.last_error = s.last_error]
  <2>1. Sound(p)
    BY <1>1, <1>4, GraphAssumption, PreparedAdvanceSound DEF OrNone
  <2> HIDE DEF p
  <2>2. Sound(a)
    BY <1>1, <2>1, Update
  <2>3. Sound(b)
    BY <1>1, <2>2, Update
  <2> QED BY <1>2, <1>4, <2>1, <2>3 DEF resolve_loopback, preserving_cleanup_recovery, p
<1> QED BY <1>3, <1>4

\* The forward outcome of a phase is an outcome, or none.
LEMMA ForwardOutcomeType ==
  ASSUME NEW p \in Phases
  PROVE  declared_forward_cycle_outcome(p) \in OrNone(Outcomes)
BY SMTT(30), GraphAssumption, NamesAssumption
   DEF declared_forward_cycle_outcome, DecisionRoutes, Forward

\* AGENT_SUCCESS is reduced to a sound state.
LEMMA AgentSuccessSound ==
  ASSUME NEW s, Sound(s), NEW rt
  PROVE  Sound(handle_agent_success(s, rt))
<1> DEFINE stamped == stamp_if_unrecorded(s, declared_forward_cycle_outcome(s.phase))
           advanced == reducer_advance_phase(stamped, OnSuccess[s.phase], rt)
<1>1. s.phase \in Phases
  BY DEF Sound, State
<1>2. Sound(stamped) /\ stamped.phase = s.phase
  BY <1>1, ForwardOutcomeType, StampSound
<1> HIDE DEF stamped
<1>3. Sound(advanced)
  BY <1>1, <1>2, GraphAssumption, ReducerAdvanceSound
<1> HIDE DEF advanced
<1>4. Sound(apply_analysis_success(stamped, advanced))
  BY <1>1, <1>2, <1>3, CountersAssumption, ChargeSound
     DEF apply_analysis_success, OrNone
<1>5. Sound([s EXCEPT !.agent_invoked = TRUE])
  BY Update
<1> QED BY <1>4, <1>5, ResolveSound
        DEF handle_agent_success, handle_analysis_success, stamped, advanced

\* An execution result is reduced to a sound state.
LEMMA ExecutionResultSound ==
  ASSUME NEW s, Sound(s), NEW status \in Statuses, NEW rt
  PROVE  Sound(handle_execution_result(s, status, rt))
<1> DEFINE a == [s EXCEPT !.post_commit_phase_override = ResultOverride[s.phase][status]]
           b == [a EXCEPT !.last_execution_result_status = status]
<1>1. ResultOverride[s.phase][status] \in OrNone(Phases)
      /\ status \in OrNone(Statuses)
  BY SMTT(30), GraphAssumption DEF Sound, State, OrNone
<1>2. Sound(a)
  BY <1>1, Update
<1>3. Sound(b)
  BY <1>1, <1>2, Update
<1> QED BY <1>3, ResolveSound DEF handle_execution_result

\* Counting a loopback stops at the cap (apply_analysis_loopback).
LEMMA LoopbackCountSound ==
  ASSUME NEW s, Sound(s), NEW c \in LoopCounters, NEW increment
  PROVE  Sound(apply_analysis_loopback(s, c, increment))
BY ChargeSound DEF apply_analysis_loopback

\* PHASE_LOOPBACK is reduced to a sound state.
LEMMA PhaseLoopbackSound ==
  ASSUME NEW s, Sound(s), NEW rt
  PROVE  Sound(handle_phase_loopback(s, rt))
<1>1. s.phase \in Phases /\ "other" \in OrNone(ErrorKinds)
  BY DEF Sound, State, OrNone, ErrorKinds
<1>2. CASE LoopCounter[s.phase] = NONE
  BY <1>2, ResolveSound DEF handle_phase_loopback
<1>3. CASE LoopCounter[s.phase] # NONE
  <2> DEFINE counted == apply_analysis_loopback(s, LoopCounter[s.phase],
                          ~analysis_loopback_is_already_charged(s))
  <2>1. Sound(counted)
    BY <1>1, <1>3, CountersAssumption, LoopbackCountSound DEF OrNone
  <2> HIDE DEF counted
  <2>2. Sound(enter_failed_recovery(counted, "other"))
    BY <1>1, <2>1, EnterFailedRecoverySound
  <2>3. OnLoopback[s.phase] # NONE =>
          Sound(reducer_advance_phase(counted, OnLoopback[s.phase], rt))
    BY <1>1, <2>1, NextPhases, ReducerAdvanceSound DEF OrNone
  <2> QED BY <1>3, <2>2, <2>3 DEF handle_phase_loopback, counted
<1> QED BY <1>2, <1>3

\* Every decision of an analysis is reduced to a sound state, declared in
\* the policy or not.
LEMMA AnalysisDecisionSound ==
  ASSUME NEW s, Sound(s), NEW decision \in Decisions, NEW rt
  PROVE  Sound(handle_analysis_decision(s, decision, rt))
<1> DEFINE route == Route[s.phase][decision]
           counted == count_decision(s, route)
           decided == IF route.cycle_outcome = NONE
                      THEN counted
                      ELSE [counted EXCEPT !.pending_cycle_outcome = route.cycle_outcome]
<1>1. s.phase \in Phases /\ s.last_error \in OrNone(ErrorKinds)
      /\ "other" \in OrNone(ErrorKinds)
  BY DEF Sound, State, OrNone, ErrorKinds
<1>2. route.target \in OrNone(Phases) /\ route.cycle_outcome \in OrNone(Outcomes)
  BY SMTT(30), <1>1, GraphAssumption DEF DecisionRoutes
<1> HIDE DEF route
<1>3. Sound(counted)
  BY <1>1, CountersAssumption, ChargeSound, LoopbackCountSound
     DEF count_decision, OrNone
<1> HIDE DEF counted
<1>4. Sound(decided)
  BY <1>2, <1>3, Update
<1> HIDE DEF decided
<1>5. failure_reason(s) \in OrNone(ErrorKinds)
  BY <1>1 DEF failure_reason
<1>6. Sound(enter_failed_recovery(s, "other"))
      /\ Sound(enter_failed_recovery(decided, failure_reason(s)))
  BY <1>1, <1>4, <1>5, EnterFailedRecoverySound
<1>7. route.target # NONE => Sound(prepared_advance(decided, route.target, rt))
  BY <1>2, <1>4, PreparedAdvanceSound DEF OrNone
<1> QED BY <1>6, <1>7
        DEF handle_analysis_decision, route, counted, decided

\* The invocation gate charges within the cap whether it admits the phase
\* or passes it over (_advance_through_invocation_gate).
LEMMA GateSound ==
  ASSUME NEW s, Sound(s), NEW next \in Phases, NEW rt
  PROVE  Sound(advance_through_invocation_gate(s, next, rt))
<1> DEFINE ungated == [s EXCEPT !.last_execution_result_status = NONE]
           advanced == reducer_advance_phase(ungated, next, rt)
           stamped == stamp_if_unrecorded(ungated, declared_forward_cycle_outcome(next))
           c == ExecutionCycleCounter[GateUpstream[next]]
<1>1. Sound(ungated)
  BY Update DEF OrNone
<1> HIDE DEF ungated
<1>2. Sound(advanced)
  BY <1>1, ReducerAdvanceSound
<1> HIDE DEF advanced
<1>3. Sound(stamped)
  BY <1>1, ForwardOutcomeType, StampSound
<1> HIDE DEF stamped
<1>4. Sound(reducer_advance_phase(stamped, OnSuccess[next], rt))
  BY <1>3, NextPhases, ReducerAdvanceSound
<1>5. GateUpstream[next] # NONE =>
        Sound(charge_analysis_cycle_for_gate(advanced, GateUpstream[next]))
  <2> SUFFICES ASSUME GateUpstream[next] # NONE, c # NONE
               PROVE  Sound([charge_loop_counter(advanced, c)
                               EXCEPT !.execution_cycle_charged = TRUE])
    BY <1>2 DEF charge_analysis_cycle_for_gate
  <2>1. c \in LoopCounters
    BY CountersAssumption DEF OrNone
  <2>2. Sound(charge_loop_counter(advanced, c))
    BY <1>2, <2>1, ChargeSound
  <2> QED BY <2>2, Update
<1> QED BY <1>2, <1>4, <1>5
        DEF advance_through_invocation_gate, charged_if_entered, ungated, advanced, stamped

\* A made, skipped or residual commit is reduced to a sound state.
LEMMA CommitDoneSound ==
  ASSUME NEW s, Sound(s), NEW skipped \in BOOLEAN, NEW rt
  PROVE  Sound(handle_commit_outcome(s, skipped, rt))
<1> DEFINE counted == apply_commit_outcome(s, skipped)
           next == resolve_post_commit_phase(counted)
           closed == IF commit_closes_a_cycle(s.phase)
                     THEN [counted EXCEPT !.pending_cycle_outcome = NONE]
                     ELSE counted
<1>1. Sound(counted)
  BY CommitOutcomeSound
<1> HIDE DEF counted
<1>2. next \in Phases
  BY <1>1, PostCommitPhaseType
<1> HIDE DEF next
<1>3. Sound(closed)
  BY <1>1, Update DEF OrNone
<1> HIDE DEF closed
<1>4. Sound([closed EXCEPT !.post_commit_phase_override = NONE])
  BY <1>3, Update DEF OrNone
<1>5. Sound(reducer_advance_phase([closed EXCEPT !.post_commit_phase_override = NONE],
                                  next, rt))
  BY <1>2, <1>4, ReducerAdvanceSound
<1>6. Sound(advance_through_invocation_gate(closed, next, rt))
  BY <1>2, <1>3, GateSound
<1> QED BY <1>5, <1>6 DEF handle_commit_outcome, counted, next, closed

\* A commit is retried in a sound state.
LEMMA RetryCommitSound ==
  ASSUME NEW s, Sound(s), NEW target \in Phases, NEW error \in OrNone(ErrorKinds),
         NEW epoch \in Nat, NEW rt
  PROVE  Sound(retry_commit(s, target, error, epoch, rt))
<1> DEFINE p == prepared_advance(s, target, rt)
           back == IF target = s.phase /\ p.phase = s.phase
                   THEN s.previous_phase ELSE p.previous_phase
           a == [p EXCEPT !.agent_invoked = s.agent_invoked]
           b == [a EXCEPT !.last_error = error]
           c == [b EXCEPT !.recovery_epoch = epoch]
           d == [c EXCEPT !.pending_cycle_outcome = NONE]
           e == [d EXCEPT !.last_execution_result_status = "failed"]
           f == [e EXCEPT !.previous_phase = back]
<1>1. Sound(p)
  BY PreparedAdvanceSound
<1> HIDE DEF p
<1>2. /\ s.agent_invoked \in BOOLEAN /\ back \in OrNone(Phases)
      /\ NONE \in OrNone(Outcomes) /\ "failed" \in OrNone(Statuses)
  BY <1>1, NamesAssumption DEF Sound, State, OrNone
<1>3. retry_commit(s, target, error, epoch, rt) = f
  <2>1. e.previous_phase = p.previous_phase
    BY <1>1 DEF Sound, State
  <2>2. retry_commit(s, target, error, epoch, rt) =
          [e EXCEPT !.previous_phase = IF target = s.phase /\ p.phase = s.phase
                                       THEN s.previous_phase ELSE e.previous_phase]
    BY DEF retry_commit, with_commit_retry, p
  <2> QED BY <2>1, <2>2
<1> HIDE DEF back
<1>4. Sound(a)
  BY <1>1, <1>2, Update
<1>5. Sound(b)
  BY <1>4, Update
<1>6. Sound(c)
  BY <1>5, Update
<1>7. Sound(d)
  BY <1>2, <1>6, Update
<1>8. Sound(e)
  BY <1>2, <1>7, Update
<1>9. Sound(f)
  BY <1>2, <1>8, Update
<1> QED BY <1>3, <1>9

\* COMMIT_FAILURE is reduced to a sound state, whatever the error.
LEMMA CommitFailureSound ==
  ASSUME NEW s, Sound(s), NEW error \in OrNone(ErrorKinds), NEW rt
  PROVE  Sound(handle_commit_failure(s, error, rt))
<1> DEFINE a == [s EXCEPT !.pending_cycle_outcome = NONE]
           cleared == [a EXCEPT !.last_execution_result_status = "failed"]
           known == IF error = NONE /\ is_repairable_git_failure(s.last_error)
                    THEN s.last_error ELSE error
           recovery_phase == CommitRecoveryPhase[cleared.phase]
           target == IF recovery_phase = NONE THEN cleared.phase ELSE recovery_phase
           failed == enter_failed_recovery(cleared, known)
           f == [failed EXCEPT !.recovery_epoch = MAX_COMMIT_RECOVERY_ATTEMPTS]
           g == [f EXCEPT !.last_execution_result_status = "failed"]
<1>1. NONE \in OrNone(Outcomes) /\ "failed" \in OrNone(Statuses)
      /\ known \in OrNone(ErrorKinds) /\ "other" \in OrNone(ErrorKinds)
      /\ MAX_COMMIT_RECOVERY_ATTEMPTS \in Nat
  BY NamesAssumption
     DEF Sound, State, OrNone, ErrorKinds, MAX_COMMIT_RECOVERY_ATTEMPTS
<1>2. Sound(a)
  BY <1>1, Update
<1>3. Sound(cleared)
  BY <1>1, <1>2, Update
<1> HIDE DEF cleared, known
<1>4. target \in Phases /\ cleared.recovery_epoch \in Nat
      /\ cleared.recovery_epoch + 1 \in Nat
  BY SMTT(30), <1>3, GraphAssumption DEF Sound, State, OrNone
<1>5. Sound(failed)
  BY <1>1, <1>3, EnterFailedRecoverySound
<1> HIDE DEF failed, target
<1>6. Sound(f)
  BY <1>1, <1>5, Update
<1>7. Sound(g)
  BY <1>1, <1>6, Update
<1>8. \A n \in Nat : Sound(retry_commit(cleared, target, known, n, rt))
  BY <1>1, <1>3, <1>4, RetryCommitSound
<1>9. Sound(handle_repairable_commit_failure(cleared, known, rt))
  BY <1>1, <1>4, <1>7, <1>8 DEF handle_repairable_commit_failure, failed, target
<1>10. Sound(enter_failed_recovery(cleared, "other"))
  BY <1>1, <1>3, EnterFailedRecoverySound
<1> QED BY <1>9, <1>10 DEF handle_commit_failure, cleared, known

\* The recovery controller's verdicts are sound, and so is the charge the
\* reducer adds to a failed phase.
LEMMA ControllerVerdictSound ==
  ASSUME NEW s, Sound(s), NEW error \in OrNone(ErrorKinds), NEW counted \in BOOLEAN
  PROVE  /\ Sound(controller_retries(s, error))
         /\ Sound(controller_fails_phase(s, error, counted))
<1> DEFINE a == advance_phase(s, failed_route)
           b == [a EXCEPT !.last_error = error]
           c == [b EXCEPT !.recovery_epoch = s.recovery_epoch + 1]
           n == IF counted THEN c.recovery_cycle_count + 1 ELSE c.recovery_cycle_count
           d == [c EXCEPT !.recovery_cycle_count = n]
<1>1. Sound(controller_retries(s, error))
  BY Update DEF controller_retries
<1>2. Sound(a)
  BY AdvanceSound, NamesAssumption
<1> HIDE DEF a
<1>3. Sound(b)
  BY <1>2, Update
<1>4. s.recovery_epoch + 1 \in Nat
  BY SMTT(30) DEF Sound, State
<1>5. Sound(c)
  BY <1>3, <1>4, Update
<1>6. controller_fails_phase(s, error, counted) = d
  BY DEF controller_fails_phase, a
<1> HIDE DEF c
<1>7. n \in Nat
  BY SMTT(30), <1>5 DEF Sound, State
<1> HIDE DEF n
<1>8. Sound(d)
  BY <1>5, <1>7, Update
<1> QED BY <1>1, <1>6, <1>8

\* CHAIN_EXHAUSTED is reduced to a sound state, with or without a fallback.
LEMMA ChainExhaustedSound ==
  ASSUME NEW s, Sound(s), NEW rt
  PROVE  Sound(handle_chain_exhausted(s, rt))
<1>1. s.phase \in Phases /\ failure_reason(s) \in OrNone(ErrorKinds)
  BY DEF Sound, State, failure_reason, OrNone, ErrorKinds
<1>2. Sound(enter_failed_recovery(s, failure_reason(s)))
  BY <1>1, EnterFailedRecoverySound
<1>3. WorkflowFallback[s.phase] # NONE =>
        Sound(apply_execution_cycle_outcome(s,
                prepared_advance(s, WorkflowFallback[s.phase], rt)))
  BY <1>1, NextPhases, PreparedAdvanceSound, ExecutionCycleOutcomeSound
     DEF OrNone
<1> QED BY <1>2, <1>3 DEF handle_chain_exhausted

\* An expired phase is left in a sound state
\* (redirect_expired_cycle_in_place).
LEMMA RedirectSound ==
  ASSUME NEW s, Sound(s), NEW rt
  PROVE  Sound(redirect_expired_cycle_in_place(s, rt))
<1>1. s.phase \in Phases
  BY DEF Sound, State
<1>2. SoundRoute(expired_redirect(s, rt))
  BY <1>1, TimeboxesSound DEF expired_redirect
<1> QED BY <1>2, ReducerAdvanceSound DEF redirect_expired_cycle_in_place, take_redirect, SoundRoute

-----------------------------------------------------------------------------
(***************************************************************************)
(* What the run loop does to the state itself.                             *)
(***************************************************************************)
\* So does leaving an expired phase before the dispatch (_prepare_step_timeboxes).
LEMMA PreparedSound ==
  ASSUME Sound(state)
  PROVE  Sound(prepared)
BY RedirectSound DEF prepared, redirect_if_expired

-----------------------------------------------------------------------------
(***************************************************************************)
(* The steps.                                                              *)
(***************************************************************************)
\* The invariant says of the pipeline state just what the operators preserve.
LEMMA InvariantMeansSound == IInv <=> TypeOK /\ Sound(state)
BY DEF IInv, TypeOK, LoopCountersWithinCaps, Sound, State, LoopCounts

\* And so it does of the state after a step.
LEMMA InvariantMeansSoundNext == ASSUME IInv' PROVE Sound(state')
<1>1. state' \in State /\ LoopCountersWithinCaps'
  BY DEF IInv, TypeOK
<1> QED BY SMTT(30), <1>1 DEF LoopCountersWithinCaps, Sound, State, LoopCounts

-----------------------------------------------------------------------------
\* The run starts with a well-typed state and with no loop counter charged.
LEMMA InitIInv == ASSUME Init PROVE IInv
<1>1. InitialState \in State
  BY NamesAssumption DEF InitialState, State, OrNone
<1>2. \A c \in LoopCounters : InitialState.loop_iterations[c] <= Cap[c]
  <2>1. InitialState.loop_iterations = [c \in LoopCounters |-> 0]
    BY DEF InitialState
  <2>2. \A c \in LoopCounters : Cap[c] \in Nat
    BY CountersAssumption
  <2> QED BY SMTT(30), <2>1, <2>2
<1>3. Idle \in Steps /\ "running" \in Exits /\ 0 \in 0..MaxFaults
  BY SMTT(30), RunAssumption DEF Idle, Steps, Exits, OrNone
<1> QED BY <1>1, <1>2, <1>3 DEF Init, IInv, TypeOK, LoopCountersWithinCaps

\* Every step of a run keeps the invariant.
LEMMA NextIInv == IInv /\ [Next]_vars => IInv'
\* Missing-plan recovery is sound (recover_missing_plan_handoff).
<1>MissingPlanSound.
      ASSUME NEW s, Sound(s)
      PROVE  Sound(recover_missing_plan_handoff(s))
  <2> USE <1>MissingPlanSound
  <2> DEFINE target == IF s.recovery_epoch >= cycle_cap THEN failed_route ELSE entry_phase
             a == conclude_cycle_on_route_out_of_cycle(advance_phase(s, target), target)
             b == [a EXCEPT !.last_error = "other"]
             c == [b EXCEPT !.recovery_epoch = s.recovery_epoch + 1]
  <2>1. target \in Phases /\ "other" \in OrNone(ErrorKinds) /\ s.recovery_epoch + 1 \in Nat
    BY SMTT(30), NamesAssumption DEF Sound, State, OrNone, ErrorKinds
  <2> HIDE DEF target
  <2>2. Sound(a)
    BY <2>1, AdvanceSound, ConcludedSound
  <2> HIDE DEF a
  <2>3. Sound(b)
    BY <2>1, <2>2, Update
  <2>4. Sound(c)
    BY <2>1, <2>3, Update
  <2> QED BY <2>4 DEF recover_missing_plan_handoff, a, target

\* ExitFailureEffect is applied soundly.
<1>ExitFailureSound.
      ASSUME NEW s, Sound(s)
      PROVE  Sound(exit_failure(s))
  <2> USE <1>ExitFailureSound
  <2> DEFINE a == advance_phase(s, failed_route)
             b == [a EXCEPT !.last_error = "other"]
             c == [b EXCEPT !.recovery_epoch = s.recovery_epoch + 1]
  <2>1. Sound(a)
    BY AdvanceSound, NamesAssumption
  <2>2. "other" \in OrNone(ErrorKinds) /\ s.recovery_epoch + 1 \in Nat
    BY SMTT(30) DEF Sound, State, OrNone, ErrorKinds
  <2> HIDE DEF a
  <2>3. Sound(b)
    BY <2>1, <2>2, Update
  <2>4. Sound(c)
    BY <2>2, <2>3, Update
  <2> QED BY <2>4 DEF exit_failure, a

\* Re-entering the failed phase is sound (PreparePromptEffect).
<1>ReenterSound.
      ASSUME NEW s, Sound(s)
      PROVE  Sound(reenter_phase(s))
  <2> USE <1>ReenterSound
  <2> DEFINE d == apply_timeboxes(s, recovery_target(s), routing_timing(s))
             b == concluded_if_leaving_cycle(d).state
             a == [b EXCEPT !.phase = d.target]
             invoked == IF Role[d.target] = "commit" THEN FALSE ELSE b.agent_invoked
             e == [a EXCEPT !.agent_invoked = invoked]
  <2>1. recovery_target(s) \in Phases
    BY NamesAssumption DEF recovery_target, Sound, State, OrNone
  <2>2. SoundRoute(d)
    BY <2>1, ApplyTimeboxesSound
  <2>3. Sound(b) /\ d.target \in Phases
    BY <2>2, ConcludedRouteSound DEF SoundRoute
  <2> HIDE DEF d
  <2>4. Sound(a) /\ a.agent_invoked = b.agent_invoked
    <3>1. Sound(a)
      BY <2>3, Update
    <3>2. a.agent_invoked = b.agent_invoked
      BY <2>3 DEF Sound, State
    <3> QED BY <3>1, <3>2
  <2>5. invoked \in BOOLEAN
    BY <2>3 DEF Sound, State
  <2>6. reenter_phase(s) = e
    <3>1. reenter_phase(s) =
            [a EXCEPT !.agent_invoked =
               IF Role[d.target] = "commit" THEN FALSE ELSE a.agent_invoked]
      BY DEF reenter_phase, d
    <3> QED BY <2>4, <3>1
  <2> HIDE DEF a, invoked
  <2>7. Sound(e)
    BY <2>4, <2>5, Update
  <2> QED BY <2>6, <2>7

\* Recording the time of a step is sound (with_phase_timing).
<1>PhaseTimingSound.
      ASSUME NEW s, Sound(s), step \in Steps
      PROVE  Sound(with_phase_timing(s))
  <2> USE <1>PhaseTimingSound
  <2> SUFFICES ASSUME step.timed_phase \in GateUpstreams
               PROVE  Sound(with_phase_timing(s))
    BY DEF with_phase_timing
  <2> DEFINE p == step.timed_phase
             n == IF s.execution_seconds[p] + step.seconds <= GateMinimum
                  THEN s.execution_seconds[p] + step.seconds ELSE GateMinimum
             times == [s.execution_seconds EXCEPT ![p] = n]
  <2>1. s.execution_seconds \in [GateUpstreams -> Nat] /\ step.seconds \in Nat
    BY DEF Sound, State, Steps
  <2>2. n \in Nat
    <3>1. s.execution_seconds[p] \in Nat /\ GateMinimum \in Nat
      BY <2>1, CountersAssumption
    <3> QED BY SMTT(30), <2>1, <3>1
  <2> HIDE DEF n
  <2>3. times \in [GateUpstreams -> Nat]
    BY <2>1, <2>2
  <2>4. with_phase_timing(s) = [s EXCEPT !.execution_seconds = times]
    BY DEF with_phase_timing, n
  <2> HIDE DEF times
  <2> QED BY SMTT(30), <2>3, <2>4, Update

\* A clock that saturates is a natural number.
<1>SaturateType.
      ASSUME NEW n \in Nat, NEW bound \in Nat
      PROVE  Saturate(n, bound) \in Nat
  BY <1>SaturateType, SMTT(30) DEF Saturate

\* A clock that runs does not touch the counters.
<1>TickStep.
      ASSUME IInv, Tick PROVE IInv'
  <2> USE <1>TickStep
  <2> DEFINE m == IF state.cycle_timebox_active
                  THEN Saturate(state.cycle_timebox_consumed_seconds,
                                cycle_timebox.duration_seconds)
                  ELSE state.cycle_timebox_consumed_seconds
             n == IF state.dev_timebox_active
                  THEN Saturate(state.dev_timebox_consumed_seconds,
                                development_timebox.warning_seconds)
                  ELSE state.dev_timebox_consumed_seconds
             k == IF step.effect # NONE /\ step.timed_phase \in GateUpstreams
                  THEN Saturate(step.seconds, GateMinimum) ELSE step.seconds
             a == [state EXCEPT !.cycle_timebox_consumed_seconds = m]
             b == [a EXCEPT !.dev_timebox_consumed_seconds = n]
  <2>1. TypeOK /\ Sound(state)
    BY InvariantMeansSound
  <2>2. state' = b /\ step' = [step EXCEPT !.seconds = k]
    <3>1. a.dev_timebox_consumed_seconds = state.dev_timebox_consumed_seconds
      BY <2>1 DEF Sound, State
    <3> QED BY <3>1 DEF Tick
  <2>3. m \in Nat /\ n \in Nat
    BY <2>1, <1>SaturateType, TimeboxAssumption
       DEF Sound, State, CycleTimeboxPolicies, DevelopmentTimeboxPolicies
  <2>4. k \in Nat
    BY <2>1, <1>SaturateType, CountersAssumption DEF TypeOK, Steps
  <2> HIDE DEF m, n, k
  <2>5. Sound(a)
    BY <2>1, <2>3, Update
  <2>6. Sound(b)
    BY <2>3, <2>5, Update
  <2>7. step' \in Steps
    BY <2>1, <2>2, <2>4 DEF TypeOK, Steps
  <2>8. TypeOK'
    BY <2>1, <2>2, <2>6, <2>7 DEF TypeOK, Tick, Sound
  <2> QED BY <2>2, <2>6, <2>8 DEF IInv, LoopCountersWithinCaps, Sound, LoopCounts

\* A step keeps the invariant if it leaves a sound state behind.
<1>SoundStateKeepsIInv.
      ASSUME Sound(state'), step' \in Steps, message_file' \in BOOLEAN,
             exit' \in Exits, faults' \in 0..MaxFaults
      PROVE  IInv'
  BY <1>SoundStateKeepsIInv DEF IInv, TypeOK, LoopCountersWithinCaps, Sound, LoopCounts

\* A fault is counted within its bound.
<1>FaultType.
      ASSUME faults \in 0..MaxFaults, NEW kind, Fault(kind)
      PROVE  faults' \in 0..MaxFaults
  BY <1>FaultType, SMTT(30), RunAssumption DEF Fault

\* The steps that end the run or route without running anything.
<1>RoutingStep.
      ASSUME IInv,
             \/ Finishes \/ StopsAtFailedRoute \/ LedgerStops
             \/ ReenterFailedPhase \/ PlanMissingOnReentry \/ AdvanceExhausted
             \/ EmptyCommit \/ NoAgentToInvoke \/ WorktreeUnreadable \/ PlanMissing
      PROVE  IInv'
  <2> USE <1>RoutingStep
  <2>1. TypeOK /\ Sound(state) /\ Sound(prepared)
    BY InvariantMeansSound, PreparedSound
  <2>2. step' \in Steps
    BY <2>1 DEF TypeOK, Finishes, StopsAtFailedRoute, LedgerStops, Leave,
           ReenterFailedPhase, PlanMissingOnReentry, AdvanceExhausted, EmptyCommit,
           NoAgentToInvoke, WorktreeUnreadable, PlanMissing
  <2>3. message_file' \in BOOLEAN /\ exit' \in Exits
    BY <2>1 DEF TypeOK, Exits, Finishes, StopsAtFailedRoute, LedgerStops, Leave,
           ReenterFailedPhase, PlanMissingOnReentry, AdvanceExhausted, EmptyCommit,
           NoAgentToInvoke, WorktreeUnreadable, PlanMissing
  <2>4. faults' \in 0..MaxFaults
    BY <2>1, <1>FaultType
       DEF TypeOK, Finishes, StopsAtFailedRoute, LedgerStops, Leave,
           ReenterFailedPhase, PlanMissingOnReentry, AdvanceExhausted, EmptyCommit,
           NoAgentToInvoke, WorktreeUnreadable, PlanMissing
  <2>5. Sound(state')
    <3>1. CASE Finishes \/ StopsAtFailedRoute \/ LedgerStops
      BY <2>1, <3>1 DEF Finishes, StopsAtFailedRoute, LedgerStops, Leave
    <3>2. CASE ReenterFailedPhase
      BY <2>1, <3>2, <1>ReenterSound DEF ReenterFailedPhase
    <3>3. CASE PlanMissingOnReentry \/ PlanMissing
      BY <2>1, <3>3, <1>MissingPlanSound DEF PlanMissingOnReentry, PlanMissing
    <3>4. CASE AdvanceExhausted
      BY <2>1, <3>4, ResolveSound DEF AdvanceExhausted, handle_phase_advance
    <3>5. CASE EmptyCommit
      BY <2>1, <3>5, AgentSuccessSound, CommitDoneSound
         DEF EmptyCommit, handle_commit_success
    <3>6. CASE NoAgentToInvoke \/ WorktreeUnreadable
      BY <2>1, <3>6, <1>ExitFailureSound DEF NoAgentToInvoke, WorktreeUnreadable
    <3> QED BY <3>1, <3>2, <3>3, <3>4, <3>5, <3>6
  <2> QED BY <2>2, <2>3, <2>4, <2>5, <1>SoundStateKeepsIInv

\* The steps that start an agent or a commit.
<1>StartingStep.
      ASSUME IInv, InvokeAgent \/ StartCommit
      PROVE  IInv'
  <2> USE <1>StartingStep
  <2>1. TypeOK /\ Sound(state) /\ Sound(prepared)
    BY InvariantMeansSound, PreparedSound
  <2>2. PICK effect \in {"agent", "commit"} : Starts(effect)
    BY DEF InvokeAgent, StartCommit
  <2>3. step' \in Steps
    BY <2>1, <2>2 DEF Starts, Steps, Sound, State, OrNone
  <2>4. message_file' \in BOOLEAN
    BY <2>1 DEF TypeOK, InvokeAgent, StartCommit
  <2>5. Sound(state') /\ exit' \in Exits /\ faults' \in 0..MaxFaults
    BY <2>1, <2>2 DEF Starts, TypeOK
  <2> QED BY <2>3, <2>4, <2>5, <1>SoundStateKeepsIInv

\* The steps that reduce the result of an agent or of a commit.
<1>ResultStep.
      ASSUME IInv,
             \/ AgentSucceeds \/ ExecutionReports \/ AnalysisDecides
             \/ CleanupLoopsBack \/ AgentSkipsCommit
             \/ CommitSucceeds \/ CommitSkipped \/ CommitResidual
             \/ CommitFails \/ CommitWithoutMessage
      PROVE  IInv'
  <2> USE <1>ResultStep
  <2>1. TypeOK /\ Sound(state) /\ state.phase \in Phases
    BY InvariantMeansSound DEF Sound, State
  <2>2. \E new : Reduces(new) /\ Sound(new)
    <3>1. CASE AgentSucceeds
      BY <2>1, <3>1, AgentSuccessSound DEF AgentSucceeds
    <3>2. CASE ExecutionReports
      BY <2>1, <3>2, ExecutionResultSound DEF ExecutionReports
    <3>3. CASE AnalysisDecides
      BY <2>1, <3>3, AnalysisDecisionSound DEF AnalysisDecides
    <3>4. CASE CleanupLoopsBack
      BY <2>1, <3>4, PhaseLoopbackSound DEF CleanupLoopsBack
    <3>5. CASE AgentSkipsCommit \/ CommitSucceeds \/ CommitSkipped
      BY <2>1, <3>5, CommitDoneSound
         DEF AgentSkipsCommit, CommitSucceeds, CommitSkipped,
             handle_commit_success, handle_commit_skipped
    <3>6. CASE CommitResidual
      BY <2>1, <3>6, ReducerAdvanceSound DEF CommitResidual, handle_commit_residual
    <3>7. CASE CommitFails \/ CommitWithoutMessage
      <4>1. ErrorKinds \subseteq OrNone(ErrorKinds) /\ "other" \in ErrorKinds
        BY DEF OrNone, ErrorKinds
      <4> QED BY <2>1, <3>7, <4>1, CommitFailureSound
              DEF CommitFails, CommitWithoutMessage
    <3> QED BY <3>1, <3>2, <3>3, <3>4, <3>5, <3>6, <3>7
  <2>3. Sound(state') /\ step' \in Steps /\ exit' = exit
    BY SMTT(30), <2>1, <2>2, <1>PhaseTimingSound DEF Reduces, Idle, Steps, OrNone, TypeOK
  <2>4. faults' \in 0..MaxFaults
    BY <2>1, <1>FaultType
       DEF TypeOK, AgentSucceeds, ExecutionReports, AnalysisDecides,
           CleanupLoopsBack, AgentSkipsCommit, CommitSucceeds, CommitSkipped,
           CommitResidual, CommitFails, CommitWithoutMessage
  <2>5. message_file' \in BOOLEAN
    BY <2>1 DEF TypeOK, AgentSucceeds, ExecutionReports, AnalysisDecides,
           CleanupLoopsBack, AgentSkipsCommit, CommitSucceeds, CommitSkipped,
           CommitResidual, CommitFails, CommitWithoutMessage
  <2> QED BY <2>1, <2>3, <2>4, <2>5, <1>SoundStateKeepsIInv DEF TypeOK

\* The steps that reduce a failure, after any expired deadline.
<1>FailingStep.
      ASSUME IInv, PhaseFails \/ StepCrashes \/ AgentFails
      PROVE  IInv'
  <2> USE <1>FailingStep
  <2>1. TypeOK /\ Sound(state)
    BY InvariantMeansSound
  <2>2. ASSUME NEW outcomes, \A new \in outcomes : Sound(new)
        PROVE  \A new \in AfterExpiry(outcomes) : Sound(new)
    BY <2>1, <2>2, RedirectSound DEF AfterExpiry
  <2>3. \A v \in Verdicts(state) : Sound(v)
    <3>1. /\ FailureReasons \subseteq OrNone(ErrorKinds)
          /\ state.last_error \in OrNone(ErrorKinds)
      BY <2>1, RunAssumption DEF Sound, State, OrNone
    <3>2. \A e \in FailureReasons \cup {state.last_error} :
            Sound(controller_retries(state, e))
      BY <2>1, <3>1, ControllerVerdictSound
    <3>3. \A e \in FailureReasons, counted \in BOOLEAN :
            Sound(controller_fails_phase(state, e, counted))
      BY <2>1, <3>1, ControllerVerdictSound
    <3>4. ASSUME NEW v \in Verdicts(state)
          PROVE  \/ \E e \in FailureReasons \cup {state.last_error} :
                      v = controller_retries(state, e)
                 \/ \E e \in FailureReasons, counted \in BOOLEAN :
                      v = controller_fails_phase(state, e, counted)
      BY SMTT(30), <3>4 DEF Verdicts
    <3> QED BY <3>2, <3>3, <3>4
  <2>4. \A v \in Verdicts(state) : Sound(reduce_phase_failure(state, v))
    BY <2>1, <2>3, ExecutionCycleOutcomeSound DEF reduce_phase_failure
  <2>5. "other" \in OrNone(ErrorKinds)
    BY DEF OrNone, ErrorKinds
  <2>6. \A new \in {state, controller_retries(state, "other"),
                    handle_chain_exhausted(state, rt_now),
                    enter_failed_recovery(state, "other")} : Sound(new)
    BY <2>1, <2>5, ControllerVerdictSound, ChainExhaustedSound,
       EnterFailedRecoverySound
  <2>7. \E new : Reduces(new) /\ Sound(new)
    <3>1. CASE PhaseFails
      <4>1. \A new \in {reduce_phase_failure(state, v) : v \in Verdicts(state)} : Sound(new)
        BY <2>4
      <4>2. \A new \in AfterExpiry({reduce_phase_failure(state, v) : v \in Verdicts(state)}) :
              Sound(new)
        BY <2>2, <4>1
      <4> QED BY <3>1, <4>2 DEF PhaseFails
    <3>2. CASE StepCrashes
      <4>1. \A new \in AfterExpiry(Verdicts(state)) : Sound(new)
        BY <2>2, <2>3
      <4> QED BY <3>2, <4>1 DEF StepCrashes
    <3>3. CASE AgentFails
      <4>1. \A new \in AfterExpiry({state, controller_retries(state, "other"),
                                    handle_chain_exhausted(state, rt_now),
                                    enter_failed_recovery(state, "other")}) : Sound(new)
        BY <2>2, <2>6
      <4> QED BY <3>3, <4>1 DEF AgentFails
    <3> QED BY <3>1, <3>2, <3>3
  <2>8. Sound(state') /\ step' \in Steps /\ exit' = exit
    BY SMTT(30), <2>1, <2>7, <1>PhaseTimingSound DEF Reduces, Idle, Steps, OrNone, TypeOK
  <2>9. faults' \in 0..MaxFaults /\ message_file' \in BOOLEAN
    BY <2>1, <1>FaultType DEF TypeOK, PhaseFails, StepCrashes, AgentFails
  <2> QED BY <2>1, <2>8, <2>9, <1>SoundStateKeepsIInv DEF TypeOK
<1> SUFFICES ASSUME IInv, [Next]_vars PROVE IInv'
  OBVIOUS
<1>1. CASE UNCHANGED vars
  BY <1>1 DEF vars, IInv, TypeOK, LoopCountersWithinCaps
<1> QED BY <1>1, <1>TickStep, <1>RoutingStep, <1>StartingStep, <1>ResultStep, <1>FailingStep
        DEF Next, Proceed, Ended

\* The inductive invariant holds of every run, under every policy.
THEOREM Invariance == Spec => []IInv
BY InitIInv, NextIInv, PTL DEF Spec

\* Type correctness of the run, under every policy: no event handler leaves
\* the phases, the counters or the timers the policy declares.
THEOREM TypeCorrect == Spec => []TypeOK
BY Invariance, PTL DEF IInv

\* No loop counter passes its cap, under every policy and for any number of
\* failures: loopbacks, the invocation gate, failed executions and the
\* decisions of analysis may charge the same counter in any order.
THEOREM CapsHold == Spec => []LoopCountersWithinCaps
BY Invariance, PTL DEF IInv

-----------------------------------------------------------------------------
(***************************************************************************)
(* What the proofs about routes, loops and cycles share.                   *)
(***************************************************************************)
\* The fields of a CycleTimeboxDecision.
LEMMA DecisionFields ==
  ASSUME NEW t, NEW p
  PROVE  /\ pass_through(t, p).state = t /\ pass_through(t, p).target = p
         /\ [pass_through(t, p) EXCEPT !.started = TRUE].state = t
         /\ [pass_through(t, p) EXCEPT !.started = TRUE].target = p
         /\ [pass_through(t, p) EXCEPT !.redirected = TRUE].state = t
         /\ [pass_through(t, p) EXCEPT !.redirected = TRUE].target = p
BY DEF pass_through

\* The state an execution result is routed from: its status may set up a
\* route of its own.
Reported(s, status) ==
  [s EXCEPT !.post_commit_phase_override = ResultOverride[s.phase][status],
            !.last_execution_result_status = status]

\* Where a commit that failed is tried again.
RetryPhase(p) == IF CommitRecoveryPhase[p] = NONE THEN p ELSE CommitRecoveryPhase[p]

\* What is in flight fits the phase: nothing runs in a terminal, a commit
\* agent runs while there is no message, a git commit when there is one.
InFlight ==
  /\ step.effect # NONE => state.phase \notin TerminalStates
  /\ step.effect = "agent" /\ Role[state.phase] = "commit" => ~state.agent_invoked
  /\ step.effect = "commit" => Role[state.phase] = "commit" /\ state.agent_invoked

\* A result of what is in flight.
ResultArrives ==
  \/ AgentSucceeds \/ ExecutionReports \/ AnalysisDecides
  \/ CleanupLoopsBack \/ AgentSkipsCommit
  \/ CommitSucceeds \/ CommitSkipped \/ CommitResidual
  \/ CommitFails \/ CommitWithoutMessage

\* A pending route is on its way through W, or through a failure of it.
OnItsWay(W, s) ==
  s.post_commit_phase_override # NONE =>
    \/ s.phase \in W
    \/ s.phase = failed_route /\ s.previous_phase \in W

-----------------------------------------------------------------------------
(***************************************************************************)
(* The deadlines.  rt is what the clocks were sampled at for a step; no    *)
(* clock is written between the sample and the route but to start or to    *)
(* stop it.                                                                *)
(***************************************************************************)
Clocks ==
  {"phase", "cycle_timebox_active", "cycle_timebox_consumed_seconds",
   "dev_timebox_active", "dev_timebox_consumed_seconds"}

HasClocks(s) == Clocks \subseteq DOMAIN s

SameClocks(s, t) ==
  /\ HasClocks(t)
  /\ t.cycle_timebox_active = s.cycle_timebox_active
  /\ t.cycle_timebox_consumed_seconds = s.cycle_timebox_consumed_seconds
  /\ t.dev_timebox_active = s.dev_timebox_active
  /\ t.dev_timebox_consumed_seconds = s.dev_timebox_consumed_seconds

\* t is in the phase of s, with its clocks.
InPlace(s, t) == SameClocks(s, t) /\ t.phase = s.phase

Sampled(s, rt) ==
  /\ HasClocks(s)
  /\ rt.total \in Nat /\ rt.development \in Nat
  /\ s.cycle_timebox_consumed_seconds \in {0, rt.total}
  /\ s.dev_timebox_consumed_seconds \in {0, rt.development}

\* Phase p may be entered, or worked in, with the clocks of s.
CycleAdmits(p, s) == p = cycle_timebox.guarded_entry => ~cycle_expired(s)

DevelopmentAdmits(p, s) ==
  p = development_timebox.guarded_entry => ~development_expired(s)

(***************************************************************************)
(* A state that may be entered, and a step that stays or enters one.       *)
(***************************************************************************)
Ready(n) == HasClocks(n) /\ CycleAdmits(n.phase, n)

Arrives(s, n) == InPlace(s, n) \/ Ready(n)

(***************************************************************************)
(* No development starts on a spent clock.  First what each part of the    *)
(* routing does to the clocks, then where each handler of the reducer      *)
(* arrives, then the steps of the run loop.                                *)
(***************************************************************************)
LEMMA DeadlineStep ==
  DeadlineShape /\ IInv /\ [Next]_vars =>
    /\ EntersGuardedPhase => ~cycle_expired(state')
    /\ StartsGuardedAgent => ~development_expired(state')
<1>SoundHasClocks.
      ASSUME NEW s, Sound(s)
      PROVE  HasClocks(s) /\ Sampled(s, routing_timing(s))
  <2> USE <1>SoundHasClocks
  <2>1. /\ HasClocks(s) /\ s.cycle_timebox_consumed_seconds \in Nat
        /\ s.dev_timebox_consumed_seconds \in Nat
    BY DEF Sound, State, HasClocks, Clocks
  <2> QED BY <2>1 DEF Sampled, routing_timing

\* Fields that are not about clocks are written in place.
<1>OutsideClocks.
      ASSUME NEW s, HasClocks(s), NEW v
      PROVE  /\ InPlace(s, s)
             /\ InPlace(s, [s EXCEPT !.loop_iterations = v])
             /\ InPlace(s, [s EXCEPT !.execution_cycle_charged = v])
             /\ InPlace(s, [s EXCEPT !.last_execution_result_status = v])
             /\ InPlace(s, [s EXCEPT !.last_error = v])
             /\ InPlace(s, [s EXCEPT !.agent_invoked = v])
             /\ InPlace(s, [s EXCEPT !.pending_cycle_outcome = v])
             /\ InPlace(s, [s EXCEPT !.post_commit_phase_override = v])
             /\ InPlace(s, [s EXCEPT !.execution_seconds = v])
             /\ InPlace(s, [s EXCEPT !.iteration = v])
             /\ InPlace(s, [s EXCEPT !.previous_phase = v])
             /\ InPlace(s, [s EXCEPT !.recovery_epoch = v])
             /\ InPlace(s, [s EXCEPT !.recovery_cycle_count = v])
  BY <1>OutsideClocks DEF InPlace, SameClocks, HasClocks, Clocks

\* So are the loop counters.
<1>ChargeInPlace.
      ASSUME NEW s, HasClocks(s), NEW t
      PROVE  /\ \A c, n : InPlace(s, with_loop_iteration(s, c, n))
             /\ InPlace(s, apply_execution_cycle_outcome(t, s))
             /\ InPlace(s, apply_analysis_success(t, s))
             /\ \A c, charge : InPlace(s, apply_analysis_loopback(s, c, charge))
             /\ \A p : InPlace(s, charge_analysis_cycle_for_gate(s, p))
  <2> USE <1>ChargeInPlace
  <2>1. ASSUME NEW c, NEW n
        PROVE  /\ InPlace(s, with_loop_iteration(s, c, n))
               /\ InPlace(s, [with_loop_iteration(s, c, n)
                               EXCEPT !.execution_cycle_charged = TRUE])
    BY DEF with_loop_iteration, InPlace, SameClocks, HasClocks, Clocks
  <2>2. InPlace(s, s)
    BY <1>OutsideClocks
  <2>3. InPlace(s, apply_execution_cycle_outcome(t, s))
    BY <2>1, <2>2 DEF apply_execution_cycle_outcome
  <2>4. InPlace(s, apply_analysis_success(t, s))
    BY <2>1, <2>2 DEF apply_analysis_success
  <2>5. ASSUME NEW c, NEW charge
        PROVE  InPlace(s, apply_analysis_loopback(s, c, charge))
    BY <2>1, <2>2 DEF apply_analysis_loopback, charge_loop_counter
  <2>6. ASSUME NEW p
        PROVE  InPlace(s, charge_analysis_cycle_for_gate(s, p))
    BY <2>1, <2>2 DEF charge_analysis_cycle_for_gate, charge_loop_counter
  <2> QED BY <2>1, <2>3, <2>4, <2>5, <2>6

<1>InPlaceTransitive.
      ASSUME NEW s, NEW t, NEW u, InPlace(s, t), InPlace(t, u)
      PROVE  InPlace(s, u)
  BY <1>InPlaceTransitive DEF InPlace, SameClocks

\* Admission and samples depend on the clocks alone.
<1>SameClocksAdmit.
      ASSUME NEW s, NEW t, SameClocks(s, t)
      PROVE  /\ \A p : CycleAdmits(p, s) => CycleAdmits(p, t)
             /\ \A p : DevelopmentAdmits(p, s) => DevelopmentAdmits(p, t)
             /\ \A rt : Sampled(s, rt) => Sampled(t, rt)
  <2> USE <1>SameClocksAdmit
  <2>1. cycle_expired(t) <=> cycle_expired(s)
    BY DEF SameClocks, cycle_expired
  <2>2. development_expired(t) <=> development_expired(s)
    BY DEF SameClocks, development_expired
  <2>3. \A rt : Sampled(s, rt) => Sampled(t, rt)
    BY DEF SameClocks, Sampled
  <2> QED BY <2>1, <2>2, <2>3 DEF CycleAdmits, DevelopmentAdmits

\* A cycle that has just started has time.
<1>NotExpiredAtStart.
      ASSUME DeadlineShape, HasCycleTimebox,
             NEW s, s.cycle_timebox_consumed_seconds = 0
      PROVE  ~cycle_expired(s)
  BY <1>NotExpiredAtStart, SMTT(30), TimeboxAssumption DEF CycleTimeboxPolicies, cycle_expired, DeadlineShape

\* The cycle deadline admits the phase it leads to (apply_cycle_timebox).
<1>CycleDeadline.
      ASSUME DeadlineShape, NEW s, NEW rt, Sampled(s, rt), NEW p
      PROVE  LET r == apply_cycle_timebox(s, p, rt)
             IN  /\ Sampled(r.state, rt)
                 /\ r.state.phase = s.phase
                 /\ CycleAdmits(r.target, r.state)
                 /\ r.started => /\ r.state.cycle_timebox_consumed_seconds = 0
                                 /\ HasCycleTimebox /\ s.phase = cycle_timebox.start_source
  <2> USE <1>CycleDeadline
  <2> DEFINE ct == cycle_timebox
             r == apply_cycle_timebox(s, p, rt)
             late == stamp_if_unrecorded(s, ct.finalization_cycle_outcome)
  <2>1. cycle_timebox.duration_seconds \in Nat
    BY TimeboxAssumption DEF CycleTimeboxPolicies
  <2>2. CASE /\ HasCycleTimebox /\ ~s.cycle_timebox_active
             /\ s.phase = ct.start_source /\ p = ct.start_entry
    <3>1. r.state = started(s) /\ r.target = p
      <4>1. r = [pass_through(started(s), p) EXCEPT !.started = TRUE]
        BY <2>2 DEF apply_cycle_timebox
      <4> QED BY SMTT(30), <4>1, DecisionFields
    <3>2. /\ HasClocks(started(s)) /\ started(s).phase = s.phase
          /\ started(s).cycle_timebox_consumed_seconds = 0
          /\ started(s).dev_timebox_consumed_seconds = s.dev_timebox_consumed_seconds
      BY DEF Sampled, HasClocks, Clocks, started
    <3> HIDE DEF r
    <3>3. ~cycle_expired(r.state)
      BY SMTT(30), <2>1, <2>2, <3>1, <3>2 DEF cycle_expired, DeadlineShape
    <3>4. Sampled(r.state, rt)
      BY <3>1, <3>2 DEF Sampled
    <3> QED BY <2>2, <3>1, <3>2, <3>3, <3>4 DEF CycleAdmits, r
  <2>3. CASE ~(/\ HasCycleTimebox /\ ~s.cycle_timebox_active
               /\ s.phase = ct.start_source /\ p = ct.start_entry)
    <3>1. CASE /\ HasCycleTimebox /\ s.cycle_timebox_active
               /\ p = ct.guarded_entry /\ rt.total >= ct.duration_seconds
      <4>1. r = [pass_through(late, ct.finalization_target) EXCEPT !.redirected = TRUE]
        BY <2>3, <3>1 DEF apply_cycle_timebox
      <4>2. r.state = late /\ r.target = ct.finalization_target /\ r.started = FALSE
        BY <4>1 DEF pass_through
      <4>3. InPlace(s, late)
        BY <1>OutsideClocks DEF Sampled, stamp_if_unrecorded
      <4> HIDE DEF r, late
      <4>4. Sampled(r.state, rt) /\ r.state.phase = s.phase
        BY <4>2, <4>3, <1>SameClocksAdmit DEF InPlace
      <4>5. CycleAdmits(r.target, r.state)
        BY <3>1, <4>2 DEF CycleAdmits, DeadlineShape
      <4> QED BY <4>2, <4>4, <4>5 DEF r
    <3>2. CASE ~(/\ HasCycleTimebox /\ s.cycle_timebox_active
                 /\ p = ct.guarded_entry /\ rt.total >= ct.duration_seconds)
      <4>1. r = pass_through(s, p)
        BY <2>3, <3>2 DEF apply_cycle_timebox
      <4>2. r.state = s /\ r.target = p /\ r.started = FALSE
        BY SMTT(30), <4>1 DEF pass_through
      <4> HIDE DEF r
      <4>3. ASSUME p = ct.guarded_entry, cycle_expired(s)
            PROVE  FALSE
        BY SMTT(30), <2>1, <3>2, <4>3 DEF cycle_expired, Sampled, DeadlineShape
      <4> QED BY <4>2, <4>3 DEF CycleAdmits, r
    <3> QED BY <3>1, <3>2
  <2> QED BY <2>2, <2>3

\* The development deadline admits the phase it leads to, and leaves the
\* cycle's clock alone (apply_development_timebox).
<1>DevelopmentDeadline.
      ASSUME DeadlineShape, NEW s, NEW rt, Sampled(s, rt), NEW p
      PROVE  LET r == apply_development_timebox(s, p, rt)
             IN  /\ Sampled(r.state, rt)
                 /\ r.state.phase = s.phase
                 /\ DevelopmentAdmits(r.target, r.state)
                 /\ CycleAdmits(p, s) => CycleAdmits(r.target, r.state)
                 /\ r.state.cycle_timebox_consumed_seconds = s.cycle_timebox_consumed_seconds
                 /\ ~r.redirected => ~(p = development_timebox.guarded_entry
                                       /\ development_expired(s))
  <2> USE <1>DevelopmentDeadline
  <2> DEFINE dt == development_timebox
             r == apply_development_timebox(s, p, rt)
             running == [s EXCEPT !.dev_timebox_active = TRUE,
                                  !.dev_timebox_consumed_seconds = 0]
             route == IF Role[dt.end_entry] = "commit"
                      THEN OnSuccess[dt.end_entry] ELSE s.post_commit_phase_override
             late == [s EXCEPT !.post_commit_phase_override = route]
  <2>1. dt.warning_seconds \in Nat
    BY TimeboxAssumption DEF DevelopmentTimeboxPolicies
  <2>2. CASE HasDevelopmentTimebox /\ ~s.dev_timebox_active /\ p = dt.start_entry
    <3>1. r.state = running /\ r.target = p
      <4>1. r = [pass_through(running, p) EXCEPT !.started = TRUE]
        BY <2>2 DEF apply_development_timebox
      <4> QED BY SMTT(30), <4>1, DecisionFields
    <3>2. /\ HasClocks(running) /\ running.phase = s.phase
          /\ running.dev_timebox_consumed_seconds = 0
          /\ running.cycle_timebox_consumed_seconds = s.cycle_timebox_consumed_seconds
      BY DEF Sampled, HasClocks, Clocks
    <3>3. running.cycle_timebox_active = s.cycle_timebox_active
      BY DEF Sampled, HasClocks, Clocks
    <3> HIDE DEF r, running
    <3>4. ~development_expired(r.state)
      BY SMTT(30), <2>1, <2>2, <3>1, <3>2 DEF development_expired, DeadlineShape
    <3>5. Sampled(r.state, rt)
      BY <3>1, <3>2 DEF Sampled
    <3>6. CycleAdmits(p, s) => CycleAdmits(r.target, r.state)
      BY <3>1, <3>2, <3>3 DEF CycleAdmits, cycle_expired
    <3>7. ~development_expired(s)
      BY <2>2 DEF development_expired
    <3> QED BY <3>1, <3>2, <3>4, <3>5, <3>6, <3>7 DEF DevelopmentAdmits, r
  <2>3. CASE ~(HasDevelopmentTimebox /\ ~s.dev_timebox_active /\ p = dt.start_entry)
    <3>1. CASE /\ HasDevelopmentTimebox /\ s.dev_timebox_active
               /\ p = dt.guarded_entry /\ rt.development >= dt.warning_seconds
      <4>1. r = [pass_through(late, dt.finalization_target) EXCEPT !.redirected = TRUE]
        BY <2>3, <3>1 DEF apply_development_timebox
      <4>2. r.state = late /\ r.target = dt.finalization_target /\ r.redirected = TRUE
        BY <4>1 DEF pass_through
      <4>3. InPlace(s, late)
        BY <1>OutsideClocks DEF Sampled
      <4> HIDE DEF r, late
      <4>4. /\ Sampled(r.state, rt) /\ r.state.phase = s.phase
            /\ r.state.cycle_timebox_consumed_seconds = s.cycle_timebox_consumed_seconds
        BY <4>2, <4>3, <1>SameClocksAdmit DEF InPlace, SameClocks
      <4>5. DevelopmentAdmits(r.target, r.state)
        BY <3>1, <4>2 DEF DevelopmentAdmits, DeadlineShape
      <4>6. CycleAdmits(r.target, r.state)
        BY <3>1, <4>2 DEF CycleAdmits, cycle_expired, DeadlineShape
      <4> QED BY <4>2, <4>4, <4>5, <4>6 DEF r
    <3>2. CASE ~(/\ HasDevelopmentTimebox /\ s.dev_timebox_active
                 /\ p = dt.guarded_entry /\ rt.development >= dt.warning_seconds)
      <4>1. r = pass_through(s, p)
        BY <2>3, <3>2 DEF apply_development_timebox
      <4>2. r.state = s /\ r.target = p
        BY SMTT(30), <4>1, DecisionFields
      <4> HIDE DEF r
      <4>3. ASSUME p = dt.guarded_entry, development_expired(s)
            PROVE  FALSE
        BY SMTT(30), <2>1, <3>2, <4>3 DEF development_expired, Sampled, DeadlineShape
      <4> QED BY <4>2, <4>3 DEF DevelopmentAdmits, r
    <3> QED BY <3>1, <3>2
  <2> QED BY <2>2, <2>3

\* Both deadlines in a row admit the phase they lead to.
<1>DeadlinesAdmit.
      ASSUME DeadlineShape, NEW s, NEW rt, Sampled(s, rt), NEW p
      PROVE  LET r == apply_timeboxes(s, p, rt)
             IN  /\ Sampled(r.state, rt)
                 /\ r.state.phase = s.phase
                 /\ CycleAdmits(r.target, r.state)
                 /\ DevelopmentAdmits(r.target, r.state)
                 /\ r.started => /\ r.state.cycle_timebox_consumed_seconds = 0
                                 /\ HasCycleTimebox /\ s.phase = cycle_timebox.start_source
  <2> USE <1>DeadlinesAdmit
  <2> DEFINE c == apply_cycle_timebox(s, p, rt)
             d == apply_development_timebox(c.state, c.target, rt)
             e == [d EXCEPT !.started = c.started]
  <2>1. /\ Sampled(c.state, rt)
        /\ c.state.phase = s.phase
        /\ CycleAdmits(c.target, c.state)
        /\ c.started => /\ c.state.cycle_timebox_consumed_seconds = 0
                        /\ HasCycleTimebox /\ s.phase = cycle_timebox.start_source
    BY <1>CycleDeadline
  <2> HIDE DEF c
  <2>2. /\ Sampled(d.state, rt)
        /\ d.state.phase = c.state.phase
        /\ DevelopmentAdmits(d.target, d.state)
        /\ CycleAdmits(d.target, d.state)
        /\ d.state.cycle_timebox_consumed_seconds = c.state.cycle_timebox_consumed_seconds
    BY ZenonT(30), <2>1, <1>DevelopmentDeadline
  <2>3. \E t, q, x, y : d = [state |-> t, target |-> q, redirected |-> x, started |-> y]
    BY DEF apply_development_timebox, pass_through
  <2>4. apply_timeboxes(s, p, rt) = e
    BY DEF apply_timeboxes, then_development_timebox, c
  <2> HIDE DEF d
  <2>5. e.state = d.state /\ e.target = d.target /\ e.started = c.started
    BY <2>3
  <2> HIDE DEF e
  <2> QED BY <2>1, <2>2, <2>4, <2>5

\* Passing over an exhausted phase writes in place; where nothing is passed
\* over, the target stays.
<1>PassOverInPlace.
      ASSUME NEW b, HasClocks(b.state)
      PROVE  /\ InPlace(b.state, bypass_exhausted_phase(b).state)
             /\ bypass_exhausted_phase(b).skipped = {} => bypass_exhausted_phase(b) = b
  <2> USE <1>PassOverInPlace
  <2> DEFINE t == with_loop_iteration(b.state, LoopCounter[b.target], 0)
             outcome == declared_forward_cycle_outcome(b.target)
             u == stamp_if_unrecorded(t, outcome)
  <2>1. InPlace(b.state, t)
    BY DEF with_loop_iteration, InPlace, SameClocks, HasClocks, Clocks
  <2> HIDE DEF t, outcome
  <2>2. InPlace(t, u)
    <3>1. HasClocks(t)
      BY <2>1 DEF InPlace, SameClocks
    <3>2. InPlace(t, t) /\ InPlace(t, [t EXCEPT !.pending_cycle_outcome = outcome])
      BY <3>1, <1>OutsideClocks
    <3> QED BY <3>2 DEF stamp_if_unrecorded
  <2>3. InPlace(b.state, u) /\ InPlace(b.state, b.state)
    BY <2>1, <2>2, <1>InPlaceTransitive, <1>OutsideClocks
  <2>4. bypass_exhausted_phase(b) =
          IF is_exhausted(b.state, b.target)
          THEN [state |-> u, target |-> OnSuccess[b.target],
                skipped |-> b.skipped \cup {b.target}]
          ELSE b
    BY DEF bypass_exhausted_phase, t, outcome
  <2> HIDE DEF u
  <2> QED BY SMTT(30), <2>3, <2>4

<1>BypassInPlace.
      ASSUME NEW s, NEW d, HasClocks(d.state)
      PROVE  LET b == exhausted_bypass(s, d)
             IN  /\ InPlace(d.state, b.state)
                 /\ b.skipped = {} => b.target = d.target
  <2> USE <1>BypassInPlace
  <2> DEFINE start(p) == [state |-> d.state, target |-> p, skipped |-> {}]
             once(p) == bypass_exhausted_phase(start(p))
             twice(p) == bypass_exhausted_phase(once(p))
  <2>1. \A p : start(p).state = d.state /\ start(p).target = p /\ start(p).skipped = {}
    OBVIOUS
  <2>2. \A p : resolve_exhausted_analysis_bypass(d.state, p) = twice(p)
    BY DEF resolve_exhausted_analysis_bypass
  <2> HIDE DEF start
  <2>3. ASSUME NEW p
        PROVE  /\ InPlace(d.state, once(p).state)
               /\ once(p).skipped = {} => once(p) = start(p)
    BY <2>1, <1>PassOverInPlace
  <2>4. ASSUME NEW p
        PROVE  /\ InPlace(d.state, twice(p).state)
               /\ twice(p).skipped = {} => twice(p).target = p
    <3>1. HasClocks(once(p).state)
      BY <2>3 DEF InPlace, SameClocks
    <3> HIDE DEF once
    <3>2. /\ InPlace(once(p).state, twice(p).state)
          /\ twice(p).skipped = {} => twice(p) = once(p)
      BY <3>1, <1>PassOverInPlace
    <3> HIDE DEF twice
    <3> QED BY <2>1, <2>3, <3>2, <1>InPlaceTransitive
  <2> HIDE DEF twice
  <2> QED BY <2>2, <2>4 DEF exhausted_bypass

\* Stopping the timers an advance leaves behind admits no less.
<1>ConcludedAdmits.
      ASSUME NEW w, NEW rt, Sampled(w.state, rt)
      PROVE  LET r == concluded_if_leaving_cycle(w)
             IN  /\ Sampled(r.state, rt)
                 /\ r.target = w.target
                 /\ r.state.phase = w.state.phase
                 /\ \A p : CycleAdmits(p, w.state) => CycleAdmits(p, r.state)
                 /\ \A p : DevelopmentAdmits(p, w.state) => DevelopmentAdmits(p, r.state)
  <2> USE <1>ConcludedAdmits
  <2> DEFINE q == w.target
             t == conclude_cycle_on_route_out_of_cycle(w.state, q)
             u == conclude_development_timebox_on_route_out_of_development(t, q)
  <2>1. /\ HasClocks(t) /\ t.phase = w.state.phase
        /\ t.cycle_timebox_consumed_seconds = w.state.cycle_timebox_consumed_seconds
        /\ t.dev_timebox_consumed_seconds = w.state.dev_timebox_consumed_seconds
        /\ t.dev_timebox_active = w.state.dev_timebox_active
    BY DEF conclude_cycle_on_route_out_of_cycle, Sampled, HasClocks, Clocks
  <2>2. t.cycle_timebox_active = w.state.cycle_timebox_active
        \/ t.cycle_timebox_active = FALSE
    BY DEF conclude_cycle_on_route_out_of_cycle, Sampled, HasClocks, Clocks
  <2> HIDE DEF t
  <2>3. /\ HasClocks(u) /\ u.phase = t.phase
        /\ u.cycle_timebox_consumed_seconds = t.cycle_timebox_consumed_seconds
        /\ u.cycle_timebox_active = t.cycle_timebox_active
        /\ u.dev_timebox_consumed_seconds \in {0, t.dev_timebox_consumed_seconds}
    BY <2>1 DEF conclude_development_timebox_on_route_out_of_development,
      HasClocks, Clocks
  <2>4. u = t \/ u.dev_timebox_active = FALSE
    <3> DEFINE stopped == [t EXCEPT !.dev_timebox_active = FALSE,
                                    !.dev_timebox_consumed_seconds = 0]
    <3>1. stopped.dev_timebox_active = FALSE
      BY <2>1 DEF HasClocks, Clocks
    <3>2. u \in {t, stopped}
      BY DEF conclude_development_timebox_on_route_out_of_development
    <3> HIDE DEF stopped, u
    <3> QED BY <3>1, <3>2
  <2>5. concluded_if_leaving_cycle(w) = pass_through(u, q)
    BY DEF concluded_if_leaving_cycle, t
  <2> HIDE DEF u
  <2>6. Sampled(u, rt)
    BY <2>1, <2>3 DEF Sampled
  <2>7. cycle_expired(u) => cycle_expired(w.state)
    BY <2>1, <2>2, <2>3 DEF cycle_expired
  <2>8. development_expired(u) => development_expired(w.state)
    BY <2>1, <2>4 DEF development_expired
  <2>9. /\ \A p : CycleAdmits(p, w.state) => CycleAdmits(p, u)
        /\ \A p : DevelopmentAdmits(p, w.state) => DevelopmentAdmits(p, u)
    BY <2>7, <2>8 DEF CycleAdmits, DevelopmentAdmits
  <2>10. pass_through(u, q).state = u /\ pass_through(u, q).target = q
    BY SMTT(30), DecisionFields
  <2> QED BY <2>1, <2>3, <2>5, <2>6, <2>9, <2>10

\* What routing ends in is admitted.  Only on an advance that starts the
\* cycle timer are phases passed over without asking again.
<1>RoutingAdmits.
      ASSUME DeadlineShape, NEW s, NEW rt, Sampled(s, rt), NEW p
      PROVE  LET r == prepare_phase_advance(s, p, rt)
             IN  /\ Sampled(r.state, rt)
                 /\ CycleAdmits(r.target, r.state)
                 /\ s.phase # cycle_timebox.start_source \/ ~HasCycleTimebox
                      => DevelopmentAdmits(r.target, r.state)
  <2> USE <1>RoutingAdmits
  <2> DEFINE d == apply_timeboxes(s, p, rt)
             b == exhausted_bypass(s, d)
             w == with_bypassed_cycle_timing(b, rt, d.started)
             r == concluded_if_leaving_cycle(w)
             e == apply_timeboxes(b.state, b.target, rt)
             f == start_cycle_for_bypassed_start_source(e.state, e.target, b.skipped)
  <2>1. /\ Sampled(d.state, rt) /\ d.state.phase = s.phase
        /\ CycleAdmits(d.target, d.state)
        /\ DevelopmentAdmits(d.target, d.state)
        /\ d.started => /\ d.state.cycle_timebox_consumed_seconds = 0
                        /\ HasCycleTimebox /\ s.phase = cycle_timebox.start_source
    BY <1>DeadlinesAdmit
  <2> HIDE DEF d
  <2>2. InPlace(d.state, b.state) /\ (b.skipped = {} => b.target = d.target)
    BY <2>1, <1>BypassInPlace DEF Sampled
  <2> HIDE DEF b
  <2>3. Sampled(b.state, rt)
    BY <2>1, <2>2, <1>SameClocksAdmit DEF InPlace
  <2>4. /\ Sampled(w.state, rt)
        /\ CycleAdmits(w.target, w.state)
        /\ ~d.started => DevelopmentAdmits(w.target, w.state)
    <3>1. CASE b.skipped = {} \/ d.started
      <4>1. w = pass_through(b.state, b.target)
        BY <3>1 DEF with_bypassed_cycle_timing
      <4>2. w.state = b.state /\ w.target = b.target
        BY SMTT(30), <4>1, DecisionFields
      <4> HIDE DEF w
      <4>3. CASE ~d.started
        <5>1. b.target = d.target
          BY <2>2, <3>1, <4>3
        <5>2. CycleAdmits(d.target, b.state) /\ DevelopmentAdmits(d.target, b.state)
          BY <2>1, <2>2, <1>SameClocksAdmit DEF InPlace
        <5> QED BY <2>3, <4>2, <5>1, <5>2
      <4>4. CASE d.started
        <5>1. b.state.cycle_timebox_consumed_seconds = 0
          BY <2>1, <2>2, <4>4 DEF InPlace, SameClocks
        <5>2. ~cycle_expired(b.state)
          BY <2>1, <4>4, <5>1, <1>NotExpiredAtStart
        <5> QED BY <2>3, <4>2, <4>4, <5>2 DEF CycleAdmits
      <4> QED BY <4>3, <4>4
    <3>2. CASE ~(b.skipped = {} \/ d.started)
      <4>1. w = pass_through(f, e.target)
        BY <3>2 DEF with_bypassed_cycle_timing, bypassed_source_started
      <4>2. w.state = f /\ w.target = e.target
        BY SMTT(30), <4>1, DecisionFields
      <4> HIDE DEF w
      <4>3. /\ Sampled(e.state, rt)
            /\ CycleAdmits(e.target, e.state)
            /\ DevelopmentAdmits(e.target, e.state)
        BY <2>3, <1>DeadlinesAdmit
      <4> HIDE DEF e
      <4>4. CASE f = e.state
        BY <4>2, <4>3, <4>4
      <4>5. CASE HasCycleTimebox /\ f = started(e.state)
        <5>1. /\ HasClocks(f)
              /\ f.cycle_timebox_consumed_seconds = 0
              /\ f.dev_timebox_consumed_seconds = e.state.dev_timebox_consumed_seconds
              /\ f.dev_timebox_active = e.state.dev_timebox_active
          BY <4>3, <4>5 DEF Sampled, HasClocks, Clocks, started
        <5> HIDE DEF f
        <5>2. ~cycle_expired(f)
          BY <4>5, <5>1, <1>NotExpiredAtStart
        <5>3. development_expired(f) => development_expired(e.state)
          BY <5>1 DEF development_expired
        <5>4. Sampled(f, rt)
          BY <4>3, <5>1 DEF Sampled
        <5> QED BY <4>2, <4>3, <5>2, <5>3, <5>4 DEF CycleAdmits, DevelopmentAdmits
      <4>6. f = e.state \/ (HasCycleTimebox /\ f = started(e.state))
        BY DEF start_cycle_for_bypassed_start_source
      <4> QED BY <4>4, <4>5, <4>6
    <3> QED BY <3>1, <3>2
  <2>5. prepare_phase_advance(s, p, rt) = r
    BY DEF prepare_phase_advance, past_exhausted_phases, d, b
  <2> HIDE DEF w
  <2>6. /\ Sampled(r.state, rt) /\ r.target = w.target
        /\ \A q : CycleAdmits(q, w.state) => CycleAdmits(q, r.state)
        /\ \A q : DevelopmentAdmits(q, w.state) => DevelopmentAdmits(q, r.state)
    BY <2>4, <1>ConcludedAdmits
  <2> HIDE DEF r
  <2> QED BY <2>1, <2>4, <2>5, <2>6

<1>ReadyStays.
      ASSUME NEW n, Ready(n), NEW m, InPlace(n, m)
      PROVE  Ready(m)
  BY <1>ReadyStays, <1>SameClocksAdmit DEF Ready, InPlace, SameClocks

<1>ArrivesFrom.
      ASSUME NEW s, NEW t, NEW n, Arrives(s, t), Arrives(t, n)
      PROVE  Arrives(s, n)
  BY <1>ArrivesFrom, <1>ReadyStays, <1>InPlaceTransitive DEF Arrives

<1>AdvanceClocks.
      ASSUME NEW s, HasClocks(s), NEW p
      PROVE  SameClocks(s, advance_phase(s, p)) /\ advance_phase(s, p).phase = p
  BY <1>AdvanceClocks DEF advance_phase, SameClocks, HasClocks, Clocks

\* Every advance of the reducer is prepared, and so admitted.
<1>AdvanceReady.
      ASSUME DeadlineShape, NEW s, NEW rt, Sampled(s, rt), NEW p
      PROVE  /\ Ready(prepared_advance(s, p, rt))
             /\ LET n == reducer_advance_phase(s, p, rt)
                IN  /\ Ready(n)
                    /\ s.phase # cycle_timebox.start_source \/ ~HasCycleTimebox
                         => DevelopmentAdmits(n.phase, n)
  <2> USE <1>AdvanceReady
  <2> DEFINE r == prepare_phase_advance(s, p, rt)
             n == advance_phase(r.state, r.target)
             kept == [n EXCEPT !.agent_invoked = s.agent_invoked,
                               !.recovery_epoch = s.recovery_epoch,
                               !.last_error = s.last_error]
             m == reducer_advance_phase(s, p, rt)
  <2>1. /\ Sampled(r.state, rt)
        /\ CycleAdmits(r.target, r.state)
        /\ s.phase # cycle_timebox.start_source \/ ~HasCycleTimebox
             => DevelopmentAdmits(r.target, r.state)
    BY <1>RoutingAdmits
  <2>2. prepared_advance(s, p, rt) = n
    BY DEF prepared_advance, advance_to
  <2>3. m = IF should_preserve_commit_retry(s, n.phase) THEN kept ELSE n
    BY <2>2 DEF reducer_advance_phase, preserving_commit_retry
  <2> HIDE DEF r
  <2>4. SameClocks(r.state, n) /\ n.phase = r.target
    BY <2>1, <1>AdvanceClocks DEF Sampled
  <2> HIDE DEF n
  <2>5. InPlace(n, m)
    <3>1. HasClocks(n)
      BY <2>4 DEF SameClocks
    <3>2. InPlace(n, kept) /\ InPlace(n, n)
      BY <3>1 DEF InPlace, SameClocks, HasClocks, Clocks
    <3> QED BY <2>3, <3>2
  <2> HIDE DEF m
  <2>6. Ready(n) /\ (DevelopmentAdmits(r.target, r.state) => DevelopmentAdmits(n.phase, n))
    BY <2>1, <2>4, <1>SameClocksAdmit DEF Ready, SameClocks
  <2>7. Ready(m) /\ (DevelopmentAdmits(n.phase, n) => DevelopmentAdmits(m.phase, m))
    BY <2>5, <2>6, <1>ReadyStays, <1>SameClocksAdmit DEF InPlace
  <2> QED BY <2>1, <2>2, <2>6, <2>7 DEF m

\* The failed route is not guarded.
<1>FailedReady.
      ASSUME DeadlineShape, NEW s, HasClocks(s), NEW reason
      PROVE  /\ Ready(enter_failed_recovery(s, reason))
             /\ Ready(exit_failure(s))
             /\ \A counted : Ready(controller_fails_phase(s, reason, counted))
  <2> USE <1>FailedReady
  <2> DEFINE a == advance_phase(s, failed_route)
             e == s.recovery_epoch + 1
  <2>1. HasClocks(a) /\ a.phase = failed_route
    BY ZenonT(30), <1>AdvanceClocks DEF SameClocks
  <2>2. ASSUME NEW n, HasClocks(n), n.phase = a.phase
        PROVE  Ready(n)
    BY <2>1, <2>2 DEF Ready, CycleAdmits, DeadlineShape, cycle_expired
  <2> HIDE DEF a, e
  <2>3. Ready(enter_failed_recovery(s, reason))
    <3> DEFINE n == [a EXCEPT !.last_error = reason,
                              !.recovery_epoch = e,
                              !.pending_cycle_outcome = NONE]
               m == apply_execution_cycle_outcome(s, n)
    <3>1. enter_failed_recovery(s, reason) = m
      BY DEF enter_failed_recovery, a, e
    <3>2. HasClocks(n) /\ n.phase = a.phase
      BY <2>1 DEF HasClocks, Clocks
    <3> HIDE DEF n
    <3>3. HasClocks(m) /\ m.phase = n.phase
      BY <3>2, <1>ChargeInPlace DEF InPlace, SameClocks
    <3> QED BY <2>2, <3>1, <3>2, <3>3
  <2>4. Ready(exit_failure(s))
    <3> DEFINE n == [a EXCEPT !.last_error = "other", !.recovery_epoch = e]
    <3>1. exit_failure(s) = n
      BY DEF exit_failure, a, e
    <3>2. HasClocks(n) /\ n.phase = a.phase
      BY <2>1 DEF HasClocks, Clocks
    <3> QED BY <2>2, <3>1, <3>2
  <2>5. ASSUME NEW counted
        PROVE  Ready(controller_fails_phase(s, reason, counted))
    <3> DEFINE k == IF counted THEN a.recovery_cycle_count + 1 ELSE a.recovery_cycle_count
               n == [a EXCEPT !.last_error = reason, !.recovery_epoch = e,
                              !.recovery_cycle_count = k]
    <3>1. controller_fails_phase(s, reason, counted) = n
      BY DEF controller_fails_phase, a, e
    <3> HIDE DEF k
    <3>2. HasClocks(n) /\ n.phase = a.phase
      BY <2>1 DEF HasClocks, Clocks
    <3> QED BY <2>2, <3>1, <3>2
  <2> QED BY <2>3, <2>4, <2>5

\* The handlers of an agent's result stay in place or are admitted.
<1>ResolveArrives.
      ASSUME DeadlineShape, NEW s, NEW rt, Sampled(s, rt)
      PROVE  Ready(resolve_success(s, rt)) /\ Ready(resolve_loopback(s, rt))
  <2> USE <1>ResolveArrives
  <2> DEFINE n == prepared_advance(s, OnLoopback[s.phase], rt)
             kept == [n EXCEPT !.recovery_epoch = s.recovery_epoch,
                               !.last_error = s.last_error]
  <2>1. Ready(resolve_success(s, rt))
    BY <1>AdvanceReady DEF resolve_success
  <2>2. Ready(n)
    BY <1>AdvanceReady
  <2>3. Ready(enter_failed_recovery(s, "other"))
    BY <1>FailedReady DEF Sampled
  <2>4. resolve_loopback(s, rt) \in {enter_failed_recovery(s, "other"), n, kept}
    BY DEF resolve_loopback, preserving_cleanup_recovery
  <2> HIDE DEF n
  <2>5. InPlace(n, kept)
    BY <2>2 DEF Ready, InPlace, SameClocks, HasClocks, Clocks
  <2> HIDE DEF kept
  <2> QED BY <2>1, <2>2, <2>3, <2>4, <2>5, <1>ReadyStays

<1>AgentSuccessArrives.
      ASSUME DeadlineShape, NEW s, NEW rt, Sampled(s, rt)
      PROVE  Arrives(s, handle_agent_success(s, rt))
  <2> USE <1>AgentSuccessArrives
  <2> DEFINE t == stamp_if_unrecorded(s, declared_forward_cycle_outcome(s.phase))
             a == reducer_advance_phase(t, OnSuccess[s.phase], rt)
  <2>1. HasClocks(s)
    BY DEF Sampled
  <2>2. InPlace(s, [s EXCEPT !.agent_invoked = TRUE])
    BY <2>1, <1>OutsideClocks
  <2>3. InPlace(s, t)
    BY <2>1, <1>OutsideClocks DEF stamp_if_unrecorded
  <2>4. handle_analysis_success(s, rt) = apply_analysis_success(t, a)
    BY DEF handle_analysis_success
  <2> HIDE DEF t
  <2>5. Ready(a)
    BY <2>3, <1>SameClocksAdmit, <1>AdvanceReady DEF InPlace
  <2> HIDE DEF a
  <2>6. Ready(handle_analysis_success(s, rt))
    BY <2>4, <2>5, <1>ChargeInPlace, <1>ReadyStays DEF Ready
  <2> QED BY <2>2, <2>6, <1>ResolveArrives DEF handle_agent_success, Arrives

<1>ExecutionResultArrives.
      ASSUME DeadlineShape, NEW s, NEW rt, Sampled(s, rt), NEW status
      PROVE  Ready(handle_execution_result(s, status, rt))
  <2> USE <1>ExecutionResultArrives
  <2> DEFINE t == [s EXCEPT !.post_commit_phase_override = ResultOverride[s.phase][status],
                            !.last_execution_result_status = status]
  <2>1. InPlace(s, t)
    BY DEF Sampled, InPlace, SameClocks, HasClocks, Clocks
  <2>2. handle_execution_result(s, status, rt) = resolve_success(t, rt)
    BY DEF handle_execution_result
  <2> HIDE DEF t
  <2> QED BY <2>1, <2>2, <1>SameClocksAdmit, <1>ResolveArrives DEF InPlace

<1>PhaseLoopbackArrives.
      ASSUME DeadlineShape, NEW s, NEW rt, Sampled(s, rt)
      PROVE  Ready(handle_phase_loopback(s, rt))
  <2> USE <1>PhaseLoopbackArrives
  <2> DEFINE t == apply_analysis_loopback(s, LoopCounter[s.phase],
                    ~analysis_loopback_is_already_charged(s))
  <2>1. InPlace(s, t)
    BY <1>ChargeInPlace DEF Sampled
  <2>2. Sampled(t, rt) /\ HasClocks(t)
    BY <2>1, <1>SameClocksAdmit DEF InPlace, SameClocks
  <2>3. handle_phase_loopback(s, rt) \in
          {resolve_loopback(s, rt), enter_failed_recovery(t, "other"),
           reducer_advance_phase(t, OnLoopback[s.phase], rt)}
    BY DEF handle_phase_loopback
  <2> HIDE DEF t
  <2> QED BY <2>2, <2>3, <1>ResolveArrives, <1>FailedReady, <1>AdvanceReady

<1>AnalysisDecisionArrives.
      ASSUME DeadlineShape, NEW s, NEW rt, Sampled(s, rt), NEW decision
      PROVE  Ready(handle_analysis_decision(s, decision, rt))
  <2> USE <1>AnalysisDecisionArrives
  <2> DEFINE route == Route[s.phase][decision]
             t == count_decision(s, route)
             u == IF route.cycle_outcome = NONE
                  THEN t ELSE [t EXCEPT !.pending_cycle_outcome = route.cycle_outcome]
  <2>1. HasClocks(s)
    BY DEF Sampled
  <2>2. InPlace(s, t)
    <3>1. \A c, n : InPlace(s, with_loop_iteration(s, c, n))
      BY <2>1, <1>ChargeInPlace
    <3>2. \A c, n : InPlace(s, apply_analysis_loopback(s, c, n))
      BY <2>1, <1>ChargeInPlace
    <3>3. InPlace(s, s)
      BY <2>1, <1>OutsideClocks
    <3> QED BY <3>1, <3>2, <3>3 DEF count_decision
  <2>3. handle_analysis_decision(s, decision, rt) \in
          {enter_failed_recovery(s, "other"),
           enter_failed_recovery(u, failure_reason(s)),
           prepared_advance(u, route.target, rt)}
    BY DEF handle_analysis_decision
  <2> HIDE DEF t
  <2>4. HasClocks(t)
    BY <2>2 DEF InPlace, SameClocks
  <2>5. InPlace(t, u)
    BY <2>4, <1>OutsideClocks
  <2> HIDE DEF u
  <2>6. Sampled(u, rt) /\ HasClocks(u)
    BY <2>2, <2>5, <1>SameClocksAdmit DEF InPlace, SameClocks
  <2> QED BY <2>1, <2>3, <2>6, <1>FailedReady, <1>AdvanceReady

\* So do the handlers of a commit.
<1>GateArrives.
      ASSUME DeadlineShape, NEW s, NEW rt, Sampled(s, rt), NEW p
      PROVE  Ready(advance_through_invocation_gate(s, p, rt))
  <2> USE <1>GateArrives
  <2> DEFINE t == [s EXCEPT !.last_execution_result_status = NONE]
             u == stamp_if_unrecorded(t, declared_forward_cycle_outcome(p))
             a == reducer_advance_phase(t, p, rt)
             b == reducer_advance_phase(u, OnSuccess[p], rt)
             c == charged_if_entered(a, p)
  <2>1. InPlace(s, t)
    BY <1>OutsideClocks DEF Sampled
  <2>2. advance_through_invocation_gate(s, p, rt) \in {a, b, c}
    BY DEF advance_through_invocation_gate
  <2> HIDE DEF t
  <2>3. Sampled(t, rt) /\ HasClocks(t)
    BY <2>1, <1>SameClocksAdmit DEF InPlace, SameClocks
  <2>4. InPlace(t, u)
    BY <2>3, <1>OutsideClocks DEF stamp_if_unrecorded
  <2> HIDE DEF u
  <2>5. Sampled(u, rt)
    BY <2>3, <2>4, <1>SameClocksAdmit DEF InPlace
  <2>6. Ready(a) /\ Ready(b)
    BY <2>3, <2>5, <1>AdvanceReady
  <2> HIDE DEF a, b
  <2>7. Ready(c)
    BY <2>6, <1>ChargeInPlace, <1>ReadyStays DEF charged_if_entered, Ready
  <2> QED BY <2>2, <2>6, <2>7

<1>CommitDoneArrives.
      ASSUME DeadlineShape, NEW s, NEW rt, Sampled(s, rt), NEW skipped
      PROVE  Ready(handle_commit_outcome(s, skipped, rt))
  <2> USE <1>CommitDoneArrives
  <2> DEFINE t == apply_commit_outcome(s, skipped)
             p == resolve_post_commit_phase(t)
             u == IF commit_closes_a_cycle(s.phase)
                  THEN [t EXCEPT !.pending_cycle_outcome = NONE] ELSE t
             v == [u EXCEPT !.post_commit_phase_override = NONE]
  <2>1. InPlace(s, t)
    BY DEF apply_commit_outcome, apply_commit_outcome_policy_driven,
      apply_lifecycle_completion_policy, reset_loops,
      Sampled, InPlace, SameClocks, HasClocks, Clocks
  <2>2. handle_commit_outcome(s, skipped, rt) \in
          {reducer_advance_phase(v, p, rt), advance_through_invocation_gate(u, p, rt)}
    BY DEF handle_commit_outcome
  <2> HIDE DEF t
  <2>3. Sampled(t, rt) /\ HasClocks(t)
    BY <2>1, <1>SameClocksAdmit DEF InPlace, SameClocks
  <2>4. InPlace(t, u)
    BY <2>3, <1>OutsideClocks
  <2> HIDE DEF u, p
  <2>5. Sampled(u, rt) /\ HasClocks(u)
    BY <2>3, <2>4, <1>SameClocksAdmit DEF InPlace, SameClocks
  <2>6. InPlace(u, v)
    BY <2>5, <1>OutsideClocks
  <2> HIDE DEF v
  <2>7. Sampled(v, rt)
    BY <2>5, <2>6, <1>SameClocksAdmit DEF InPlace
  <2> QED BY <2>2, <2>5, <2>7, <1>AdvanceReady, <1>GateArrives

<1>CommitFailureArrives.
      ASSUME DeadlineShape, NEW s, NEW rt, Sampled(s, rt), NEW error
      PROVE  Ready(handle_commit_failure(s, error, rt))
  <2> USE <1>CommitFailureArrives
  <2> DEFINE t == [s EXCEPT !.pending_cycle_outcome = NONE,
                            !.last_execution_result_status = "failed"]
  <2>1. InPlace(s, t)
    BY DEF Sampled, InPlace, SameClocks, HasClocks, Clocks
  <2>2. \/ handle_commit_failure(s, error, rt) = enter_failed_recovery(t, "other")
        \/ \E known : handle_commit_failure(s, error, rt) =
                       handle_repairable_commit_failure(t, known, rt)
    BY DEF handle_commit_failure
  <2> HIDE DEF t
  <2>3. Sampled(t, rt) /\ HasClocks(t)
    BY <2>1, <1>SameClocksAdmit DEF InPlace, SameClocks
  <2>4. ASSUME NEW target, NEW known, NEW epoch
        PROVE  Ready(retry_commit(t, target, known, epoch, rt))
    <3> DEFINE n == prepared_advance(t, target, rt)
    <3>1. Ready(n)
      BY <2>3, <1>AdvanceReady
    <3> HIDE DEF n
    <3>2. InPlace(n, with_commit_retry(t, target, known, epoch, n))
      BY <3>1 DEF with_commit_retry, Ready, InPlace, SameClocks, HasClocks, Clocks
    <3> QED BY <3>1, <3>2, <1>ReadyStays DEF retry_commit, n
  <2>5. ASSUME NEW known
        PROVE  Ready(handle_repairable_commit_failure(t, known, rt))
    <3> DEFINE f == enter_failed_recovery(t, known)
               m == [f EXCEPT !.recovery_epoch = MAX_COMMIT_RECOVERY_ATTEMPTS,
                              !.last_execution_result_status = "failed"]
               h == handle_repairable_commit_failure(t, known, rt)
    <3>1. h = m \/ \E target, epoch : h = retry_commit(t, target, known, epoch, rt)
      BY DEF handle_repairable_commit_failure
    <3>2. Ready(f)
      BY <2>3, <1>FailedReady
    <3> HIDE DEF f, h
    <3>3. InPlace(f, m)
      BY <3>2 DEF Ready, InPlace, SameClocks, HasClocks, Clocks
    <3> HIDE DEF m
    <3> QED BY <2>4, <3>1, <3>2, <3>3, <1>ReadyStays DEF h
  <2>6. Ready(enter_failed_recovery(t, "other"))
    BY <2>3, <1>FailedReady
  <2> QED BY <2>2, <2>5, <2>6

<1>ChainExhaustedArrives.
      ASSUME DeadlineShape, NEW s, NEW rt, Sampled(s, rt)
      PROVE  Ready(handle_chain_exhausted(s, rt))
  <2> USE <1>ChainExhaustedArrives
  <2> DEFINE n == prepared_advance(s, WorkflowFallback[s.phase], rt)
  <2>1. Ready(n)
    BY <1>AdvanceReady
  <2>2. handle_chain_exhausted(s, rt) \in
          {enter_failed_recovery(s, failure_reason(s)), apply_execution_cycle_outcome(s, n)}
    BY DEF handle_chain_exhausted
  <2> HIDE DEF n
  <2>3. Ready(apply_execution_cycle_outcome(s, n))
    BY <2>1, <1>ChargeInPlace, <1>ReadyStays DEF Ready
  <2> QED BY <2>2, <2>3, <1>FailedReady DEF Sampled

\* A phase left because its deadline passed leads where work may start
\* (redirect_expired_cycle_in_place); a phase that is not left may go on.
<1>RedirectArrives.
      ASSUME DeadlineShape, NEW s, NEW rt, Sampled(s, rt)
      PROVE  LET n == redirect_expired_cycle_in_place(s, rt)
             IN  /\ Ready(n)
                 /\ expired_redirect(s, rt).redirected => DevelopmentAdmits(n.phase, n)
                 /\ ~expired_redirect(s, rt).redirected => DevelopmentAdmits(s.phase, s)
  <2> USE <1>RedirectArrives
  <2> DEFINE c == apply_cycle_timebox(s, s.phase, rt)
             d == apply_development_timebox(s, s.phase, rt)
             r == expired_redirect(s, rt)
             n == redirect_expired_cycle_in_place(s, rt)
  <2>1. r = IF d.redirected \/ s.dev_timebox_active THEN d ELSE c
    BY DEF expired_redirect
  <2>2. /\ Sampled(d.state, rt) /\ d.state.phase = s.phase
        /\ ~d.redirected => ~(s.phase = development_timebox.guarded_entry
                              /\ development_expired(s))
    BY <1>DevelopmentDeadline
  <2>3. Sampled(c.state, rt) /\ c.state.phase = s.phase
    BY <1>CycleDeadline
  <2>4. r.redirected =>
          \/ HasCycleTimebox /\ s.phase = cycle_timebox.guarded_entry
          \/ HasDevelopmentTimebox /\ s.phase = development_timebox.guarded_entry
    BY DEF expired_redirect, apply_cycle_timebox, apply_development_timebox, pass_through
  <2>5. n = reducer_advance_phase(r.state, r.target, rt)
    BY DEF redirect_expired_cycle_in_place, take_redirect
  <2> HIDE DEF c, d, r, n
  <2>6. Sampled(r.state, rt) /\ r.state.phase = s.phase
    BY <2>1, <2>2, <2>3
  <2>7. /\ Ready(n)
        /\ s.phase # cycle_timebox.start_source \/ ~HasCycleTimebox
             => DevelopmentAdmits(n.phase, n)
    BY <2>5, <2>6, <1>AdvanceReady
  <2>8. ASSUME r.redirected
        PROVE  DevelopmentAdmits(n.phase, n)
    <3>1. CASE ~HasDevelopmentTimebox
      BY <3>1 DEF DevelopmentAdmits, development_expired
    <3>2. CASE ~HasCycleTimebox
      BY <2>7, <3>2
    <3>3. CASE HasCycleTimebox /\ HasDevelopmentTimebox
      <4>1. s.phase # cycle_timebox.start_source
        BY <2>4, <2>8, <3>3 DEF DeadlineShape
      <4> QED BY <2>7, <4>1
    <3> QED BY <3>1, <3>2, <3>3
  <2>9. ASSUME ~r.redirected
        PROVE  DevelopmentAdmits(s.phase, s)
    BY <2>1, <2>2, <2>9 DEF DevelopmentAdmits
  <2> QED BY <2>7, <2>8, <2>9 DEF r, n

<1>PreparedArrives.
      ASSUME DeadlineShape, Sound(state)
      PROVE  Arrives(state, prepared) /\ DevelopmentAdmits(prepared.phase, prepared)
  <2> USE <1>PreparedArrives
  <2>1. HasClocks(state) /\ Sampled(state, routing_timing(state))
    BY <1>SoundHasClocks
  <2>2. InPlace(state, state)
    BY <2>1, <1>OutsideClocks
  <2> QED BY <2>1, <2>2, <1>RedirectArrives DEF prepared, redirect_if_expired, Arrives

\* Neither the entry nor the failed route is guarded
\* (recover_missing_plan_handoff).
<1>MissingPlanArrives.
      ASSUME DeadlineShape, NEW s, HasClocks(s)
      PROVE  Ready(recover_missing_plan_handoff(s))
  <2> USE <1>MissingPlanArrives
  <2> DEFINE p == IF s.recovery_epoch >= cycle_cap THEN failed_route ELSE entry_phase
             a == advance_phase(s, p)
             b == conclude_cycle_on_route_out_of_cycle(a, p)
             e == s.recovery_epoch + 1
             n == [b EXCEPT !.last_error = "other", !.recovery_epoch = e]
  <2>1. recover_missing_plan_handoff(s) = n
    BY DEF recover_missing_plan_handoff
  <2>2. p \in {failed_route, entry_phase}
    OBVIOUS
  <2> HIDE DEF p, e
  <2>3. HasClocks(a) /\ a.phase = p
    BY <1>AdvanceClocks DEF SameClocks
  <2> HIDE DEF a
  <2>4. HasClocks(b) /\ b.phase = p
    BY <2>3 DEF conclude_cycle_on_route_out_of_cycle, HasClocks, Clocks
  <2> HIDE DEF b
  <2>5. HasClocks(n) /\ n.phase = p
    BY <2>4 DEF HasClocks, Clocks
  <2> HIDE DEF n
  <2> QED BY <2>1, <2>2, <2>5 DEF Ready, CycleAdmits, cycle_expired, DeadlineShape

\* The phase that failed is re-entered past the deadlines (reenter_phase).
<1>ReenterArrives.
      ASSUME DeadlineShape, NEW s, Sound(s)
      PROVE  Ready(reenter_phase(s))
  <2> USE <1>ReenterArrives
  <2> DEFINE rt == routing_timing(s)
             d == apply_timeboxes(s, recovery_target(s), rt)
             b == concluded_if_leaving_cycle(d).state
             n == [b EXCEPT !.phase = d.target,
                            !.agent_invoked =
                               IF Role[d.target] = "commit" THEN FALSE ELSE @]
  <2>1. reenter_phase(s) = n
    BY DEF reenter_phase
  <2>2. Sampled(d.state, rt) /\ CycleAdmits(d.target, d.state)
    BY <1>SoundHasClocks, <1>DeadlinesAdmit
  <2> HIDE DEF d, rt
  <2>3. Sampled(b, rt) /\ CycleAdmits(d.target, b)
    BY <2>2, <1>ConcludedAdmits
  <2> HIDE DEF b
  <2>4. SameClocks(b, n) /\ n.phase = d.target
    BY <2>3 DEF Sampled, SameClocks, HasClocks, Clocks
  <2> HIDE DEF n
  <2> QED BY <2>1, <2>3, <2>4, <1>SameClocksAdmit DEF Ready, SameClocks

<1>TimingInPlace.
      ASSUME NEW s, HasClocks(s)
      PROVE  InPlace(s, with_phase_timing(s))
  BY <1>TimingInPlace DEF with_phase_timing, InPlace, SameClocks, HasClocks, Clocks

<1>ReducedArrives.
      ASSUME NEW s, NEW v, Arrives(s, v)
      PROVE  Arrives(s, with_phase_timing(v))
  <2> USE <1>ReducedArrives
  <2>1. HasClocks(v)
    BY DEF Arrives, Ready, InPlace, SameClocks
  <2> QED BY <2>1, <1>TimingInPlace, <1>ArrivesFrom DEF Arrives

\* Every result stays in place or is admitted.
<1>ResultsArrive.
      ASSUME DeadlineShape, IInv, ResultArrives
      PROVE  Arrives(state, state')
  <2> USE <1>ResultsArrive
  <2>1. Sampled(state, rt_now)
    BY InvariantMeansSound, <1>SoundHasClocks DEF rt_now
  <2>2. ASSUME NEW v, Reduces(v), Arrives(state, v)
        PROVE  Arrives(state, state')
    BY <2>2, <1>ReducedArrives DEF Reduces
  <2>3. CASE AgentSucceeds
    BY <2>1, <2>2, <2>3, <1>AgentSuccessArrives DEF AgentSucceeds
  <2>4. CASE ExecutionReports
    BY <2>1, <2>2, <2>4, <1>ExecutionResultArrives DEF ExecutionReports, Arrives
  <2>5. CASE AnalysisDecides
    BY <2>1, <2>2, <2>5, <1>AnalysisDecisionArrives DEF AnalysisDecides, Arrives
  <2>6. CASE CleanupLoopsBack
    BY <2>1, <2>2, <2>6, <1>PhaseLoopbackArrives DEF CleanupLoopsBack, Arrives
  <2>7. CASE AgentSkipsCommit \/ CommitSkipped
    BY <2>1, <2>2, <2>7, <1>CommitDoneArrives
      DEF AgentSkipsCommit, CommitSkipped, handle_commit_skipped, Arrives
  <2>8. CASE CommitSucceeds
    BY <2>1, <2>2, <2>8, <1>CommitDoneArrives
      DEF CommitSucceeds, handle_commit_success, Arrives
  <2>9. CASE CommitResidual
    BY <2>1, <2>2, <2>9, <1>AdvanceReady
      DEF CommitResidual, handle_commit_residual, Arrives
  <2>10. CASE CommitFails \/ CommitWithoutMessage
    BY <2>1, <2>2, <2>10, <1>CommitFailureArrives
      DEF CommitFails, CommitWithoutMessage, Arrives
  <2> QED BY <2>3, <2>4, <2>5, <2>6, <2>7, <2>8, <2>9, <2>10 DEF ResultArrives

\* So does every failure.
<1>FailuresArrive.
      ASSUME DeadlineShape, IInv, PhaseFails \/ StepCrashes \/ AgentFails
      PROVE  Arrives(state, state')
  <2> USE <1>FailuresArrive
  <2>1. Sampled(state, rt_now) /\ HasClocks(state)
    BY InvariantMeansSound, <1>SoundHasClocks DEF rt_now
  <2>2. InPlace(state, state) /\ \A e : InPlace(state, controller_retries(state, e))
    BY <2>1, <1>OutsideClocks DEF controller_retries
  <2>3. ASSUME NEW v \in Verdicts(state)
        PROVE  Arrives(state, v)
    <3>1. CASE \E e : v = controller_retries(state, e)
      BY <2>2, <3>1 DEF Arrives
    <3>2. CASE \E e, counted : v = controller_fails_phase(state, e, counted)
      BY <2>1, <3>2, <1>FailedReady DEF Arrives
    <3>3. \/ \E e : v = controller_retries(state, e)
          \/ \E e, counted : v = controller_fails_phase(state, e, counted)
      BY SMTT(30) DEF Verdicts
    <3> QED BY <3>1, <3>2, <3>3
  <2>4. \A v \in Verdicts(state) : Arrives(state, reduce_phase_failure(state, v))
    <3>1. ASSUME NEW v, Arrives(state, v)
          PROVE  Arrives(state, reduce_phase_failure(state, v))
      <4>1. HasClocks(v)
        BY <3>1 DEF Arrives, Ready, InPlace, SameClocks
      <4>2. Arrives(v, apply_execution_cycle_outcome(state, v))
        BY <4>1, <1>ChargeInPlace DEF Arrives
      <4> QED BY <3>1, <4>2, <1>ArrivesFrom DEF reduce_phase_failure
    <3> QED BY <2>3, <3>1
  <2>5. \A v \in {state, controller_retries(state, "other"),
                  handle_chain_exhausted(state, rt_now),
                  enter_failed_recovery(state, "other")} : Arrives(state, v)
    BY <2>1, <2>2, <1>ChainExhaustedArrives, <1>FailedReady DEF Arrives
  <2>6. ASSUME NEW outcomes, \A v \in outcomes : Arrives(state, v)
        PROVE  \A v \in AfterExpiry(outcomes) : Arrives(state, v)
    BY <2>1, <2>6, <1>RedirectArrives DEF AfterExpiry, Arrives
  <2>7. \E v : Reduces(v) /\ Arrives(state, v)
    <3>1. CASE PhaseFails
      <4>1. \A v \in {reduce_phase_failure(state, u) : u \in Verdicts(state)} :
              Arrives(state, v)
        BY <2>4
      <4> QED BY <2>6, <3>1, <4>1 DEF PhaseFails
    <3>2. CASE StepCrashes
      BY <2>3, <2>6, <3>2 DEF StepCrashes
    <3>3. CASE AgentFails
      BY <2>5, <2>6, <3>3 DEF AgentFails
    <3> QED BY <3>1, <3>2, <3>3
  <2> QED BY <2>7, <1>ReducedArrives DEF Reduces

\* And every dispatch, from the phase that is prepared.
<1>DispatchesArrive.
      ASSUME DeadlineShape, IInv,
             \/ ReenterFailedPhase \/ PlanMissingOnReentry
             \/ AdvanceExhausted \/ EmptyCommit
             \/ NoAgentToInvoke \/ WorktreeUnreadable
             \/ InvokeAgent \/ PlanMissing \/ StartCommit
      PROVE  Arrives(state, state')
  <2> USE <1>DispatchesArrive
  <2>1. Sound(state) /\ Sound(prepared)
    BY InvariantMeansSound, PreparedSound
  <2>2. Arrives(state, prepared)
    BY <2>1, <1>PreparedArrives
  <2>3. HasClocks(prepared) /\ Sampled(prepared, routing_timing(prepared))
    BY <2>1, <1>SoundHasClocks
  <2>4. Arrives(prepared, state')
    <3>1. CASE ReenterFailedPhase
      BY <2>1, <3>1, <1>ReenterArrives DEF ReenterFailedPhase, Arrives
    <3>2. CASE PlanMissingOnReentry \/ PlanMissing
      BY <2>3, <3>2, <1>MissingPlanArrives DEF PlanMissingOnReentry, PlanMissing, Arrives
    <3>3. CASE AdvanceExhausted
      BY <2>3, <3>3, <1>ResolveArrives DEF AdvanceExhausted, handle_phase_advance, Arrives
    <3>4. CASE EmptyCommit
      BY <2>3, <3>4, <1>AgentSuccessArrives, <1>CommitDoneArrives
        DEF EmptyCommit, handle_commit_success, Arrives
    <3>5. CASE NoAgentToInvoke \/ WorktreeUnreadable
      BY <2>3, <3>5, <1>FailedReady DEF NoAgentToInvoke, WorktreeUnreadable, Arrives
    <3>6. CASE InvokeAgent \/ StartCommit
      <4>1. InPlace(prepared, prepared)
        BY <2>3, <1>OutsideClocks
      <4> QED BY <3>6, <4>1 DEF InvokeAgent, StartCommit, Starts, Arrives
    <3> QED BY <3>1, <3>2, <3>3, <3>4, <3>5, <3>6
  <2> QED BY <2>2, <2>4, <1>ArrivesFrom
<1> SUFFICES ASSUME DeadlineShape, IInv, [Next]_vars
             PROVE  /\ EntersGuardedPhase => ~cycle_expired(state')
                    /\ StartsGuardedAgent => ~development_expired(state')
  OBVIOUS
<1>1. Sound(state) /\ step \in Steps /\ HasClocks(state)
  BY InvariantMeansSound, <1>SoundHasClocks DEF TypeOK
<1>2. ASSUME Arrives(state, state')
      PROVE  EntersGuardedPhase => ~cycle_expired(state')
  BY <1>2 DEF Arrives, InPlace, Ready, CycleAdmits, EntersGuardedPhase
<1>3. ASSUME state'.phase = state.phase, step'.effect = step.effect
      PROVE  ~EntersGuardedPhase /\ ~StartsGuardedAgent
  BY <1>3 DEF EntersGuardedPhase, StartsGuardedAgent, NONE
<1>4. ASSUME step'.effect # "agent"
      PROVE  ~StartsGuardedAgent
  BY <1>4 DEF StartsGuardedAgent
<1>5. CASE UNCHANGED vars
  BY <1>3, <1>5 DEF vars
<1>6. CASE Tick
  <2>1. state'.phase = state.phase /\ step'.effect = step.effect
    BY <1>1, <1>6 DEF Tick, HasClocks, Clocks, Steps
  <2> QED BY <1>3, <2>1
<1>7. CASE Finishes \/ StopsAtFailedRoute \/ LedgerStops
  BY <1>3, <1>7 DEF Finishes, StopsAtFailedRoute, LedgerStops, Leave
<1>8. CASE ResultArrives
  <2>1. step' = Idle
    BY <1>8 DEF ResultArrives, AgentSucceeds, ExecutionReports, AnalysisDecides,
      CleanupLoopsBack, AgentSkipsCommit, CommitSucceeds, CommitSkipped,
      CommitResidual, CommitFails, CommitWithoutMessage, Reduces
  <2>2. step'.effect # "agent"
    BY <2>1 DEF Idle, NONE
  <2> QED BY <1>2, <1>4, <1>8, <2>2, <1>ResultsArrive
<1>9. CASE PhaseFails \/ StepCrashes \/ AgentFails
  <2>1. step' = Idle
    BY <1>9 DEF PhaseFails, StepCrashes, AgentFails, Reduces
  <2>2. step'.effect # "agent"
    BY <2>1 DEF Idle, NONE
  <2> QED BY <1>2, <1>4, <1>9, <2>2, <1>FailuresArrive
<1>10. CASE \/ ReenterFailedPhase \/ PlanMissingOnReentry
            \/ AdvanceExhausted \/ EmptyCommit
            \/ NoAgentToInvoke \/ WorktreeUnreadable
            \/ InvokeAgent \/ PlanMissing \/ StartCommit
  <2>1. Arrives(state, state')
    BY <1>10, <1>DispatchesArrive
  <2>2. StartsGuardedAgent => ~development_expired(state')
    <3>1. CASE InvokeAgent
      <4>1. state' = prepared
        BY <3>1 DEF InvokeAgent, Starts
      <4>2. DevelopmentAdmits(prepared.phase, prepared)
        BY <1>1, <1>PreparedArrives
      <4> QED BY <4>1, <4>2 DEF DevelopmentAdmits, StartsGuardedAgent
    <3>2. CASE StartCommit
      <4>1. step'.effect = "commit"
        BY <3>2 DEF StartCommit, Starts
      <4> QED BY <1>4, <4>1
    <3>3. CASE \/ ReenterFailedPhase \/ PlanMissingOnReentry
               \/ AdvanceExhausted \/ EmptyCommit
               \/ NoAgentToInvoke \/ WorktreeUnreadable \/ PlanMissing
      <4>1. step' = step /\ Dispatching
        BY <3>3 DEF ReenterFailedPhase, PlanMissingOnReentry, AdvanceExhausted,
          EmptyCommit, NoAgentToInvoke, WorktreeUnreadable, PlanMissing
      <4> QED BY <1>4, <4>1 DEF Dispatching, AtLoopHead, Idle, NONE
    <3> QED BY <1>10, <3>1, <3>2, <3>3
  <2> QED BY <1>2, <2>1, <2>2
<1> QED BY <1>5, <1>6, <1>7, <1>8, <1>9, <1>10
  DEF Next, Proceed, Ended, ResultArrives

(***************************************************************************)
(* No development starts on a spent clock, whatever the policy's graph,    *)
(* caps and durations, and however often a phase fails, crashes or is      *)
(* re-entered: every route passes the deadlines after its last change of   *)
(* course (_prepare_phase_advance), and so do the two places that go on    *)
(* without a route.                                                        *)
(***************************************************************************)
THEOREM DeadlinesGuard ==
  ASSUME DeadlineShape
  PROVE  Spec => DeadlinesGuardDevelopment
<1> DEFINE A == /\ EntersGuardedPhase => ~cycle_expired(state')
                /\ StartsGuardedAgent => ~development_expired(state')
<1>1. IInv /\ [Next]_vars => [A]_vars
  BY DeadlineStep
<1> QED BY <1>1, Invariance, PTL DEF Spec, DeadlinesGuardDevelopment

=============================================================================
