------------------------ MODULE PipelineMoveProofs ------------------------
(***************************************************************************)
(* How a run moves through the phases.  Every handler of the reducer and   *)
(* every effect of the run loop is one of a few kinds of move, told apart  *)
(* by the phase it leads to and by what it does to the memory of the run   *)
(* (previous_phase, recovery_epoch, the prepared commit message, the       *)
(* budget, the verdict and the pending route).  The properties of recovery *)
(* follow from the kinds alone.                                            *)
(***************************************************************************)
EXTENDS PipelineProofs

\* Zenon is tried on every leaf that names no prover; a leaf that needs
\* arithmetic or equality of records asks for SMT.
USE Zenon

(***************************************************************************)
(* The memory of a run: what the moves below are about.                    *)
(***************************************************************************)
Memory ==
  {"phase", "previous_phase", "recovery_epoch", "agent_invoked", "iteration",
   "pending_cycle_outcome", "post_commit_phase_override"}

HasMemory(s) == Memory \subseteq DOMAIN s

\* t remembers what s does, the verdict and the pending route aside.
SameHead(s, t) ==
  /\ HasMemory(t)
  /\ t.phase = s.phase
  /\ t.previous_phase = s.previous_phase
  /\ t.recovery_epoch = s.recovery_epoch
  /\ t.agent_invoked = s.agent_invoked
  /\ t.iteration = s.iteration

SameMemory(s, t) ==
  /\ SameHead(s, t)
  /\ t.pending_cycle_outcome = s.pending_cycle_outcome
  /\ t.post_commit_phase_override = s.post_commit_phase_override

\* The phases an advance aimed at p may land in.
LandsAt(p) ==
  {q \in Phases : \A W \in SUBSET Phases : Closed(W) /\ p \in W => q \in W}

\* The verdict is kept, dropped, or one that the policy pronounces.
VerdictKept(s, t) ==
  t.pending_cycle_outcome \in {s.pending_cycle_outcome, NONE} \cup Pronounced

\* The pending route is kept, or the development deadline redirects the
\* advance that lands in q.
RouteKept(s, t, q) ==
  \/ t.post_commit_phase_override = s.post_commit_phase_override
  \/ /\ HasDevelopmentTimebox
     /\ t.post_commit_phase_override = OnSuccess[development_timebox.end_entry]
     /\ q \in LandsAt(development_timebox.finalization_target)

\* One stage of the routing of an advance from s to p: r is its result.
Stage(s, p, r) ==
  /\ SameHead(s, r.state)
  /\ r.target \in LandsAt(p)
  /\ VerdictKept(s, r.state)
  /\ RouteKept(s, r.state, r.target)

\* A sound state has a memory.
LEMMA SoundHasMemory ==
  ASSUME NEW s, Sound(s)
  PROVE  HasMemory(s) /\ s.phase \in Phases /\ s.recovery_epoch \in Nat
BY DEF HasMemory, Memory, Sound, State

\* Fields outside the memory are written without touching it.
LEMMA OutsideMemory ==
  ASSUME NEW s, HasMemory(s), NEW v
  PROVE  /\ SameMemory(s, s)
         /\ SameMemory(s, [s EXCEPT !.loop_iterations = v])
         /\ SameMemory(s, [s EXCEPT !.execution_cycle_charged = v])
         /\ SameMemory(s, [s EXCEPT !.last_execution_result_status = v])
         /\ SameMemory(s, [s EXCEPT !.last_error = v])
         /\ SameMemory(s, [s EXCEPT !.recovery_cycle_count = v])
         /\ SameMemory(s, [s EXCEPT !.cycle_timebox_active = v])
         /\ SameMemory(s, [s EXCEPT !.cycle_timebox_consumed_seconds = v])
         /\ SameMemory(s, [s EXCEPT !.dev_timebox_active = v])
         /\ SameMemory(s, [s EXCEPT !.dev_timebox_consumed_seconds = v])
         /\ SameMemory(s, [s EXCEPT !.execution_seconds = v])
BY DEF SameMemory, SameHead, HasMemory, Memory

LEMMA SameMemoryTransitive ==
  ASSUME NEW s, NEW t, NEW u, SameMemory(s, t), SameMemory(t, u)
  PROVE  SameMemory(s, u)
BY DEF SameMemory, SameHead

LEMMA LoopIterationOutside ==
  ASSUME NEW s, HasMemory(s), NEW c, NEW n
  PROVE  SameMemory(s, with_loop_iteration(s, c, n))
BY DEF with_loop_iteration, SameMemory, SameHead, HasMemory, Memory

\* Charging an execution cycle writes outside the memory.
LEMMA ChargeOutside ==
  ASSUME NEW s, NEW n, HasMemory(n)
  PROVE  /\ SameMemory(n, apply_execution_cycle_outcome(s, n))
         /\ \A c : SameMemory(n, charge_loop_counter(n, c))
         /\ \A p : SameMemory(n, charge_analysis_cycle_for_gate(n, p))
<1>1. ASSUME NEW m, SameMemory(n, m)
      PROVE  SameMemory(n, [m EXCEPT !.execution_cycle_charged = TRUE])
  <2>1. SameMemory(m, [m EXCEPT !.execution_cycle_charged = TRUE])
    BY <1>1 DEF SameMemory, SameHead, HasMemory, Memory
  <2> QED BY <1>1, <2>1, SameMemoryTransitive
<1>2. \A c, k : SameMemory(n, with_loop_iteration(n, c, k))
  BY LoopIterationOutside
<1>3. \A c : SameMemory(n, charge_loop_counter(n, c))
  BY <1>2 DEF charge_loop_counter
<1>4. SameMemory(n, n)
  BY OutsideMemory
<1>5. SameMemory(n, apply_execution_cycle_outcome(s, n))
  BY <1>1, <1>2, <1>4 DEF apply_execution_cycle_outcome
<1>6. \A p : SameMemory(n, charge_analysis_cycle_for_gate(n, p))
  BY <1>1, <1>3, <1>4 DEF charge_analysis_cycle_for_gate
<1> QED BY <1>3, <1>5, <1>6

\* An advance may land where it is aimed, and landing twice is landing.
LEMMA Landing ==
  /\ \A p \in Phases : p \in LandsAt(p)
  /\ \A p, q, r : q \in LandsAt(p) /\ r \in LandsAt(q) => r \in LandsAt(p)
  /\ \A p, q : q \in LandsAt(p) => q \in Phases
BY DEF LandsAt

\* Stages compose.
LEMMA StageThenStage ==
  ASSUME NEW s, NEW p, NEW r, Stage(s, p, r),
         NEW r2, Stage(r.state, r.target, r2)
  PROVE  Stage(s, p, r2)
<1>1. SameHead(s, r2.state)
  BY DEF Stage, SameHead
<1>2. r2.target \in LandsAt(p)
  BY Landing DEF Stage
<1>3. VerdictKept(s, r2.state)
  BY DEF Stage, VerdictKept
<1>4. RouteKept(s, r2.state, r2.target)
  BY Landing DEF Stage, RouteKept
<1> QED BY <1>1, <1>2, <1>3, <1>4 DEF Stage

\* A stage that writes outside the memory and goes where it is aimed.
LEMMA StageInPlace ==
  ASSUME NEW s, NEW p \in Phases, NEW r, SameMemory(s, r.state), r.target = p
  PROVE  Stage(s, p, r)
BY Landing DEF Stage, SameMemory, VerdictKept, RouteKept

\* Recording an outcome touches the verdict alone.
LEMMA StampMove ==
  ASSUME NEW s, HasMemory(s), NEW outcome \in Pronounced
  PROVE  /\ SameHead(s, stamp_if_unrecorded(s, outcome))
         /\ VerdictKept(s, stamp_if_unrecorded(s, outcome))
         /\ stamp_if_unrecorded(s, outcome).post_commit_phase_override
              = s.post_commit_phase_override
<1>1. SameHead(s, s)
  BY DEF SameHead
<1>2. CASE s.pending_cycle_outcome # NONE
  BY <1>1, <1>2 DEF stamp_if_unrecorded, VerdictKept
<1>3. CASE s.pending_cycle_outcome = NONE
  <2> DEFINE t == [s EXCEPT !.pending_cycle_outcome = outcome]
  <2>1. SameHead(s, t) /\ t.pending_cycle_outcome = outcome
        /\ t.post_commit_phase_override = s.post_commit_phase_override
    BY DEF SameHead, HasMemory, Memory
  <2>2. stamp_if_unrecorded(s, outcome) = t
    BY <1>3 DEF stamp_if_unrecorded
  <2> HIDE DEF t
  <2> QED BY <2>1, <2>2 DEF VerdictKept
<1> QED BY <1>2, <1>3

\* The deadlines redirect an advance aimed at the phase they guard.
LEMMA RedirectLands ==
  /\ HasCycleTimebox => cycle_timebox.finalization_target
                          \in LandsAt(cycle_timebox.guarded_entry)
  /\ HasDevelopmentTimebox => development_timebox.finalization_target
                                \in LandsAt(development_timebox.guarded_entry)
BY TimeboxAssumption
   DEF LandsAt, Closed, CycleTimeboxPolicies, DevelopmentTimeboxPolicies

\* The cycle deadline is a stage (apply_cycle_timebox).
LEMMA CycleTimeboxStage ==
  ASSUME NEW s, HasMemory(s), NEW p \in Phases, NEW rt
  PROVE  Stage(s, p, apply_cycle_timebox(s, p, rt))
<1> DEFINE ct == cycle_timebox
           r == apply_cycle_timebox(s, p, rt)
           late == stamp_if_unrecorded(s, ct.finalization_cycle_outcome)
<1>1. SameMemory(s, started(s)) /\ SameMemory(s, s)
  BY DEF started, SameMemory, SameHead, HasMemory, Memory
<1>2. CASE r.state \in {started(s), s} /\ r.target = p
  BY <1>1, <1>2, StageInPlace
<1>3. CASE HasCycleTimebox /\ p = ct.guarded_entry /\ r.state = late
           /\ r.target = ct.finalization_target
  <2>1. ct.finalization_cycle_outcome \in Pronounced
    BY SMTT(30), <1>3 DEF Pronounced
  <2>2. /\ SameHead(s, late) /\ VerdictKept(s, late)
        /\ late.post_commit_phase_override = s.post_commit_phase_override
    BY <2>1, StampMove
  <2> HIDE DEF late, r
  <2>3. Stage(s, p, r)
    BY <1>3, <2>2, RedirectLands DEF Stage, RouteKept
  <2> QED BY <2>3 DEF r
<1>4. \/ r.state \in {started(s), s} /\ r.target = p
      \/ /\ HasCycleTimebox /\ p = ct.guarded_entry /\ r.state = late
         /\ r.target = ct.finalization_target
  BY DEF apply_cycle_timebox, pass_through
<1> QED BY <1>2, <1>3, <1>4

\* The development deadline is a stage (apply_development_timebox).
LEMMA DevelopmentTimeboxStage ==
  ASSUME NEW s, HasMemory(s), NEW p \in Phases, NEW rt
  PROVE  Stage(s, p, apply_development_timebox(s, p, rt))
<1> DEFINE dt == development_timebox
           r == apply_development_timebox(s, p, rt)
           running == [s EXCEPT !.dev_timebox_active = TRUE,
                                !.dev_timebox_consumed_seconds = 0]
           route == IF Role[dt.end_entry] = "commit"
                    THEN OnSuccess[dt.end_entry] ELSE s.post_commit_phase_override
           late == [s EXCEPT !.post_commit_phase_override = route]
<1>1. SameMemory(s, running) /\ SameMemory(s, s)
  BY DEF SameMemory, SameHead, HasMemory, Memory
<1>2. CASE r.state \in {running, s} /\ r.target = p
  BY <1>1, <1>2, StageInPlace
<1>3. CASE HasDevelopmentTimebox /\ p = dt.guarded_entry /\ r.state = late
           /\ r.target = dt.finalization_target
  <2>1. /\ SameHead(s, late) /\ late.post_commit_phase_override = route
        /\ late.pending_cycle_outcome = s.pending_cycle_outcome
    BY DEF SameHead, HasMemory, Memory
  <2>2. VerdictKept(s, late)
    BY <2>1 DEF VerdictKept
  <2>3. dt.finalization_target \in Phases
    BY TimeboxAssumption DEF DevelopmentTimeboxPolicies
  <2>4. RouteKept(s, late, dt.finalization_target)
    BY <1>3, <2>1, <2>3, Landing DEF RouteKept
  <2> HIDE DEF late, r
  <2>5. Stage(s, p, r)
    BY <1>3, <2>1, <2>2, <2>4, RedirectLands DEF Stage
  <2> QED BY <2>5 DEF r
<1>4. \/ r.state \in {running, s} /\ r.target = p
      \/ /\ HasDevelopmentTimebox /\ p = dt.guarded_entry /\ r.state = late
         /\ r.target = dt.finalization_target
  BY DEF apply_development_timebox, pass_through
<1> QED BY <1>2, <1>3, <1>4

\* A state reached by a stage has a memory, its target is a phase.
LEMMA StageType ==
  ASSUME NEW s, NEW p, NEW r, Stage(s, p, r)
  PROVE  HasMemory(r.state) /\ r.target \in Phases
BY Landing DEF Stage, SameHead

\* Stages depend on the state and the target of their result alone.
LEMMA StageOfSame ==
  ASSUME NEW s, NEW p, NEW r, Stage(s, p, r),
         NEW r2, r2.state = r.state, r2.target = r.target
  PROVE  Stage(s, p, r2)
BY DEF Stage

\* Both deadlines in a row are a stage (_prepare_phase_advance).
LEMMA TimeboxesStage ==
  ASSUME NEW s, HasMemory(s), NEW p \in Phases, NEW rt
  PROVE  Stage(s, p, apply_timeboxes(s, p, rt))
<1> DEFINE c == apply_cycle_timebox(s, p, rt)
           d == apply_development_timebox(c.state, c.target, rt)
           e == [d EXCEPT !.started = c.started]
<1>1. Stage(s, p, c)
  BY CycleTimeboxStage
<1>2. HasMemory(c.state) /\ c.target \in Phases
  BY <1>1, StageType
<1>3. Stage(c.state, c.target, d)
  BY <1>2, DevelopmentTimeboxStage
<1>4. \E t, q, x, y : d = [state |-> t, target |-> q, redirected |-> x, started |-> y]
  BY DEF apply_development_timebox, pass_through
<1>5. apply_timeboxes(s, p, rt) = e
  BY DEF apply_timeboxes, then_development_timebox
<1> HIDE DEF c, d
<1>6. e.state = d.state /\ e.target = d.target
  BY <1>4
<1> HIDE DEF e
<1> QED BY <1>1, <1>3, <1>5, <1>6, StageThenStage, StageOfSame

\* Passing over an exhausted phase is a stage that lands in its successor.
LEMMA PassOverStage ==
  ASSUME NEW b, HasMemory(b.state), b.target \in Phases
  PROVE  /\ Stage(b.state, b.target, bypass_exhausted_phase(b))
         /\ is_exhausted(b.state, b.target) =>
              /\ Stage(b.state, OnSuccess[b.target], bypass_exhausted_phase(b))
              /\ bypass_exhausted_phase(b).skipped # {}
<1> DEFINE p == b.target
           t == with_loop_iteration(b.state, LoopCounter[p], 0)
           outcome == declared_forward_cycle_outcome(p)
           u == stamp_if_unrecorded(t, outcome)
           r == bypass_exhausted_phase(b)
<1>1. CASE ~is_exhausted(b.state, p)
  <2>1. r = b /\ SameMemory(b.state, b.state)
    BY <1>1, OutsideMemory DEF bypass_exhausted_phase
  <2> QED BY <1>1, <2>1, StageInPlace
<1>2. CASE is_exhausted(b.state, p)
  <2>1. /\ r.state = u /\ r.target = OnSuccess[p] /\ r.skipped = b.skipped \cup {p}
        /\ OnSuccess[p] \in Phases /\ LoopCounter[p] # NONE
    BY <1>2, NextPhases DEF bypass_exhausted_phase, is_exhausted
  <2>2. outcome \in Pronounced
    BY SMTT(30), NamesAssumption DEF declared_forward_cycle_outcome, Forward, Pronounced
  <2>3. SameMemory(b.state, t)
    BY LoopIterationOutside
  <2> HIDE DEF t, outcome, r
  <2>4. /\ SameHead(t, u) /\ VerdictKept(t, u)
        /\ u.post_commit_phase_override = t.post_commit_phase_override
    BY <2>2, <2>3, StampMove DEF SameMemory, SameHead
  <2> HIDE DEF u
  <2>5. SameHead(b.state, u) /\ VerdictKept(b.state, u)
        /\ u.post_commit_phase_override = b.state.post_commit_phase_override
    BY <2>3, <2>4 DEF SameMemory, SameHead, VerdictKept
  <2>6. OnSuccess[p] \in LandsAt(p) /\ OnSuccess[p] \in LandsAt(OnSuccess[p])
    BY <2>1 DEF LandsAt, Closed
  <2> QED BY <2>1, <2>5, <2>6 DEF Stage, RouteKept, r
<1> QED BY <1>1, <1>2

\* Passing over the exhausted phases is a stage, from the phase aimed at or
\* from an exhausted phase whose successor is aimed at (exhausted_bypass).
LEMMA BypassStage ==
  ASSUME NEW s, NEW d, HasMemory(d.state), d.target \in Phases, s.phase \in Phases
  PROVE  Stage(d.state, d.target, exhausted_bypass(s, d))
<1> DEFINE start(p) == [state |-> d.state, target |-> p, skipped |-> {}]
           once(p) == bypass_exhausted_phase(start(p))
           twice(p) == bypass_exhausted_phase(once(p))
<1>1. \A p : start(p).state = d.state /\ start(p).target = p /\ start(p).skipped = {}
  OBVIOUS
<1>2. \A p : resolve_exhausted_analysis_bypass(d.state, p) = twice(p)
  BY DEF resolve_exhausted_analysis_bypass
<1> HIDE DEF start
<1>3. ASSUME NEW p \in Phases, NEW q, Stage(d.state, q, once(p))
      PROVE  Stage(d.state, q, twice(p))
  <2>1. HasMemory(once(p).state) /\ once(p).target \in Phases
    BY <1>3, StageType
  <2> HIDE DEF once
  <2>2. Stage(once(p).state, once(p).target, twice(p))
    BY <2>1, PassOverStage
  <2> QED BY <1>3, <2>2, StageThenStage
<1>4. Stage(d.state, d.target, twice(d.target))
  BY <1>1, <1>3, PassOverStage
<1>5. ASSUME OnSuccess[s.phase] = d.target, twice(s.phase).skipped # {}
      PROVE  Stage(d.state, d.target, twice(s.phase))
  <2>1. is_exhausted(d.state, s.phase)
    <3> SUFFICES ASSUME ~is_exhausted(d.state, s.phase) PROVE FALSE
      OBVIOUS
    <3>1. once(s.phase) = start(s.phase)
      BY <1>1 DEF bypass_exhausted_phase
    <3>2. twice(s.phase) = start(s.phase)
      BY <3>1
    <3> QED BY <1>1, <1>5, <3>2
  <2>2. Stage(d.state, d.target, once(s.phase))
    BY <1>1, <1>5, <2>1, PassOverStage
  <2> QED BY <1>3, <2>2
<1> HIDE DEF twice
<1> QED BY <1>2, <1>4, <1>5 DEF exhausted_bypass

\* Stopping the timers an advance leaves behind is a stage.
LEMMA ConcludedStage ==
  ASSUME NEW w, HasMemory(w.state), w.target \in Phases
  PROVE  /\ Stage(w.state, w.target, concluded_if_leaving_cycle(w))
         /\ SameMemory(w.state, concluded_if_leaving_cycle(w).state)
<1> DEFINE r == concluded_if_leaving_cycle(w)
           t == conclude_cycle_on_route_out_of_cycle(w.state, w.target)
           u == conclude_development_timebox_on_route_out_of_development(t, w.target)
<1>1. SameMemory(w.state, t)
  BY DEF conclude_cycle_on_route_out_of_cycle, SameMemory, SameHead, HasMemory, Memory
<1> HIDE DEF t
<1>2. SameMemory(t, u)
  BY <1>1 DEF conclude_development_timebox_on_route_out_of_development,
              SameMemory, SameHead, HasMemory, Memory
<1> HIDE DEF u
<1>3. SameMemory(w.state, u)
  BY <1>1, <1>2, SameMemoryTransitive
<1>4. r = pass_through(u, w.target)
  BY DEF concluded_if_leaving_cycle, t, u
<1> QED BY SMTT(30), <1>3, <1>4, StageInPlace, DecisionFields

\* Routing is a stage, from the first deadline to the timers it stops
\* (_prepare_phase_advance).
LEMMA RoutingStage ==
  ASSUME NEW s, HasMemory(s), s.phase \in Phases, NEW p \in Phases, NEW rt
  PROVE  Stage(s, p, prepare_phase_advance(s, p, rt))
<1> DEFINE d == apply_timeboxes(s, p, rt)
           b == exhausted_bypass(s, d)
           w == with_bypassed_cycle_timing(b, rt, d.started)
           r == concluded_if_leaving_cycle(w)
<1>1. Stage(s, p, d)
  BY TimeboxesStage
<1>2. Stage(d.state, d.target, b)
  BY <1>1, StageType, BypassStage
<1> HIDE DEF d
<1>3. Stage(s, p, b)
  BY <1>1, <1>2, StageThenStage
<1> HIDE DEF b
<1>4. HasMemory(b.state) /\ b.target \in Phases
  BY <1>3, StageType
<1>5. Stage(b.state, b.target, w)
  <2> DEFINE e == apply_timeboxes(b.state, b.target, rt)
             f == start_cycle_for_bypassed_start_source(e.state, e.target, b.skipped)
  <2>1. Stage(b.state, b.target, e)
    BY <1>4, TimeboxesStage
  <2>2. HasMemory(e.state) /\ e.target \in Phases
    BY <2>1, StageType
  <2> HIDE DEF e
  <2>3. SameMemory(e.state, f)
    BY <2>2 DEF start_cycle_for_bypassed_start_source, started,
                SameMemory, SameHead, HasMemory, Memory
  <2> HIDE DEF f
  <2>4. Stage(e.state, e.target, pass_through(f, e.target))
    BY SMTT(30), <2>2, <2>3, StageInPlace, DecisionFields
  <2>5. Stage(b.state, b.target, pass_through(f, e.target))
    BY <2>1, <2>4, StageThenStage
  <2>6. Stage(b.state, b.target, pass_through(b.state, b.target))
    <3>1. SameMemory(b.state, b.state)
      BY <1>4, OutsideMemory
    <3> QED BY SMTT(30), <1>4, <3>1, StageInPlace, DecisionFields
  <2> QED BY <2>5, <2>6 DEF with_bypassed_cycle_timing, bypassed_source_started, e, f
<1>6. Stage(s, p, w)
  BY <1>3, <1>5, StageThenStage
<1> HIDE DEF w
<1>7. HasMemory(w.state) /\ w.target \in Phases
  BY <1>6, StageType
<1>8. Stage(w.state, w.target, r)
  BY <1>7, ConcludedStage
<1>9. prepare_phase_advance(s, p, rt) = r
  BY DEF prepare_phase_advance, past_exhausted_phases, d, b, w
<1> HIDE DEF r
<1> QED BY <1>6, <1>8, <1>9, StageThenStage

-----------------------------------------------------------------------------
(***************************************************************************)
(* The kinds of move.                                                      *)
(***************************************************************************)
\* An advance from s aimed at p.  It starts a phase anew; only the way from
\* a cleanup to a commit or to a cleanup may keep a recovery going.
Moves(s, p, n) ==
  /\ HasMemory(n)
  /\ n.phase \in LandsAt(p)
  /\ n.previous_phase = s.phase
  /\ n.iteration = s.iteration
  /\ VerdictKept(s, n)
  /\ RouteKept(s, n, n.phase)
  /\ \/ /\ n.recovery_epoch = 0
        /\ n.agent_invoked = IF Role[n.phase] = "commit" THEN FALSE ELSE s.agent_invoked
     \/ /\ Role[s.phase] = "commit_cleanup"
        /\ Role[n.phase] \in {"commit", "commit_cleanup"}
        /\ n.recovery_epoch = s.recovery_epoch
        /\ n.agent_invoked = s.agent_invoked

\* A failed phase: the failed route remembers it.
Fails(s, n) ==
  /\ HasMemory(n)
  /\ n.phase = failed_route
  /\ n.previous_phase = s.phase
  /\ n.recovery_epoch \in Nat /\ n.recovery_epoch <= s.recovery_epoch + 1
  /\ n.agent_invoked = s.agent_invoked
  /\ n.iteration = s.iteration
  /\ VerdictKept(s, n)
  /\ n.post_commit_phase_override = s.post_commit_phase_override

\* A commit tried again, with its message, in p.
Retries(s, p, n) ==
  /\ HasMemory(n)
  /\ n.phase \in LandsAt(p)
  /\ \/ n.previous_phase = s.phase
     \/ n.phase = s.phase /\ n.previous_phase = s.previous_phase
  /\ n.recovery_epoch \in 0..MAX_COMMIT_RECOVERY_ATTEMPTS
  /\ n.agent_invoked = s.agent_invoked
  /\ n.iteration = s.iteration
  /\ VerdictKept(s, n)
  /\ RouteKept(s, n, n.phase)

\* Entering a phase (advance_phase).
LEMMA AdvanceMemory ==
  ASSUME NEW s, HasMemory(s), NEW p
  PROVE  /\ HasMemory(advance_phase(s, p))
         /\ advance_phase(s, p).phase = p
         /\ advance_phase(s, p).previous_phase = s.phase
         /\ advance_phase(s, p).recovery_epoch = 0
         /\ advance_phase(s, p).iteration = s.iteration
         /\ advance_phase(s, p).pending_cycle_outcome = s.pending_cycle_outcome
         /\ advance_phase(s, p).post_commit_phase_override = s.post_commit_phase_override
BY DEF advance_phase, HasMemory, Memory

LEMMA AdvanceForgetsMessage ==
  ASSUME NEW s, HasMemory(s), NEW p
  PROVE  advance_phase(s, p).agent_invoked =
           IF Role[p] = "commit" THEN FALSE ELSE s.agent_invoked
BY DEF advance_phase, HasMemory, Memory

\* The state an advance is prepared in is the one it leaves.
LEMMA PreparedAdvanceMoves ==
  ASSUME NEW s, HasMemory(s), s.phase \in Phases, NEW p \in Phases, NEW rt
  PROVE  /\ Moves(s, p, prepared_advance(s, p, rt))
         /\ prepared_advance(s, p, rt).recovery_epoch = 0
         /\ prepared_advance(s, p, rt).agent_invoked =
              IF Role[prepared_advance(s, p, rt).phase] = "commit"
              THEN FALSE ELSE s.agent_invoked
<1> DEFINE r == prepare_phase_advance(s, p, rt)
           n == advance_phase(r.state, r.target)
<1>1. Stage(s, p, r)
  BY RoutingStage
<1>2. prepared_advance(s, p, rt) = n
  BY DEF prepared_advance, advance_to
<1> HIDE DEF r
<1>3. HasMemory(r.state)
  BY <1>1, StageType
<1>4. /\ HasMemory(n) /\ n.phase = r.target /\ n.previous_phase = r.state.phase
      /\ n.recovery_epoch = 0 /\ n.iteration = r.state.iteration
      /\ n.agent_invoked = IF Role[r.target] = "commit" THEN FALSE
                           ELSE r.state.agent_invoked
      /\ n.pending_cycle_outcome = r.state.pending_cycle_outcome
      /\ n.post_commit_phase_override = r.state.post_commit_phase_override
  <2>1. n.agent_invoked = IF Role[r.target] = "commit" THEN FALSE
                          ELSE r.state.agent_invoked
    BY <1>3, AdvanceForgetsMessage
  <2> QED BY SMTT(30), <1>3, <2>1, AdvanceMemory
<1> HIDE DEF n
<1>5. VerdictKept(s, n) /\ RouteKept(s, n, n.phase)
  BY <1>1, <1>4 DEF Stage, VerdictKept, RouteKept
<1>6. n.phase \in LandsAt(p) /\ n.previous_phase = s.phase /\ n.iteration = s.iteration
      /\ n.agent_invoked = IF Role[n.phase] = "commit" THEN FALSE ELSE s.agent_invoked
  BY <1>1, <1>4 DEF Stage, SameHead
<1> QED BY <1>2, <1>4, <1>5, <1>6 DEF Moves

\* Two states of the same memory make the same moves.
LEMMA MovesOfSame ==
  ASSUME NEW s, NEW p, NEW n, Moves(s, p, n), NEW m, SameMemory(n, m)
  PROVE  Moves(s, p, m)
BY DEF Moves, SameMemory, SameHead, VerdictKept, RouteKept

LEMMA FailsOfSame ==
  ASSUME NEW s, NEW n, Fails(s, n), NEW m, SameMemory(n, m)
  PROVE  Fails(s, m)
BY DEF Fails, SameMemory, SameHead, VerdictKept

\* What a handler writes to the verdict before it moves is part of the move.
LEMMA MovesFromSame ==
  ASSUME NEW s, NEW t, SameHead(s, t), VerdictKept(s, t),
         t.post_commit_phase_override = s.post_commit_phase_override,
         NEW p, NEW n
  PROVE  /\ Moves(t, p, n) => Moves(s, p, n)
         /\ Fails(t, n) => Fails(s, n)
<1>1. Moves(t, p, n) => Moves(s, p, n)
  BY DEF Moves, SameHead, VerdictKept, RouteKept
<1>2. Fails(t, n) => Fails(s, n)
  BY DEF Fails, SameHead, VerdictKept
<1> QED BY <1>1, <1>2

LEMMA SameMemoryMeans ==
  ASSUME NEW s, NEW t, SameMemory(s, t)
  PROVE  /\ HasMemory(t) /\ t.phase = s.phase
         /\ SameHead(s, t) /\ VerdictKept(s, t)
         /\ t.post_commit_phase_override = s.post_commit_phase_override
BY DEF SameMemory, SameHead, VerdictKept

\* So is the advance that keeps a prepared message (_should_preserve_commit_retry).
LEMMA ReducerAdvanceMoves ==
  ASSUME NEW s, HasMemory(s), s.phase \in Phases, NEW p \in Phases, NEW rt
  PROVE  Moves(s, p, reducer_advance_phase(s, p, rt))
<1> DEFINE n == prepared_advance(s, p, rt)
           m == [n EXCEPT !.agent_invoked = s.agent_invoked,
                          !.recovery_epoch = s.recovery_epoch,
                          !.last_error = s.last_error]
<1>1. Moves(s, p, n)
  BY PreparedAdvanceMoves
<1>2. reducer_advance_phase(s, p, rt) =
        IF should_preserve_commit_retry(s, n.phase) THEN m ELSE n
  BY DEF reducer_advance_phase, preserving_commit_retry
<1> HIDE DEF n
<1>3. ASSUME should_preserve_commit_retry(s, n.phase)
      PROVE  Moves(s, p, m)
  <2>1. /\ HasMemory(m) /\ m.phase = n.phase /\ m.previous_phase = n.previous_phase
        /\ m.iteration = n.iteration
        /\ m.agent_invoked = s.agent_invoked /\ m.recovery_epoch = s.recovery_epoch
        /\ m.pending_cycle_outcome = n.pending_cycle_outcome
        /\ m.post_commit_phase_override = n.post_commit_phase_override
    BY <1>1 DEF Moves, HasMemory, Memory
  <2> HIDE DEF m
  <2> QED BY <1>1, <1>3, <2>1
          DEF Moves, VerdictKept, RouteKept, should_preserve_commit_retry
<1> QED BY <1>1, <1>2, <1>3

\* A failed phase moves to the failed route (_enter_failed_recovery), and so
\* do the controller's verdict and ExitFailureEffect.
LEMMA EnterFailedRecoveryFails ==
  ASSUME NEW s, HasMemory(s), s.recovery_epoch \in Nat, NEW reason
  PROVE  /\ Fails(s, enter_failed_recovery(s, reason))
         /\ Fails(s, exit_failure(s))
         /\ \A counted : Fails(s, controller_fails_phase(s, reason, counted))
<1> DEFINE a == advance_phase(s, failed_route)
           e == s.recovery_epoch + 1
<1>1. /\ HasMemory(a) /\ a.phase = failed_route /\ a.previous_phase = s.phase
      /\ a.agent_invoked = s.agent_invoked /\ a.iteration = s.iteration
      /\ a.pending_cycle_outcome = s.pending_cycle_outcome
      /\ a.post_commit_phase_override = s.post_commit_phase_override
  <2>1. Role[failed_route] # "commit"
    BY FailedRouteIsTerminal
  <2>2. a.agent_invoked = s.agent_invoked
    BY <2>1, AdvanceForgetsMessage
  <2> QED BY SMTT(30), <2>2, AdvanceMemory
<1>2. e \in Nat /\ e <= s.recovery_epoch + 1
  BY SMTT(30)
<1>3. ASSUME NEW n, HasMemory(n), n.recovery_epoch = e,
             n.phase = a.phase, n.previous_phase = a.previous_phase,
             n.agent_invoked = a.agent_invoked, n.iteration = a.iteration,
             n.pending_cycle_outcome \in {a.pending_cycle_outcome, NONE},
             n.post_commit_phase_override = a.post_commit_phase_override
      PROVE  Fails(s, n)
  <2>1. VerdictKept(s, n)
    BY <1>1, <1>3 DEF VerdictKept
  <2> HIDE DEF a, e
  <2> QED BY <1>1, <1>2, <1>3, <2>1 DEF Fails
<1> HIDE DEF a, e
<1>4. Fails(s, enter_failed_recovery(s, reason))
  <2> DEFINE n == [a EXCEPT !.last_error = reason,
                            !.recovery_epoch = e,
                            !.pending_cycle_outcome = NONE]
  <2>1. enter_failed_recovery(s, reason) = apply_execution_cycle_outcome(s, n)
    BY DEF enter_failed_recovery, a, e
  <2>2. /\ HasMemory(n) /\ n.recovery_epoch = e
        /\ n.phase = a.phase /\ n.previous_phase = a.previous_phase
        /\ n.agent_invoked = a.agent_invoked /\ n.iteration = a.iteration
        /\ n.pending_cycle_outcome = NONE
        /\ n.post_commit_phase_override = a.post_commit_phase_override
    BY <1>1 DEF HasMemory, Memory
  <2> HIDE DEF n
  <2>3. Fails(s, n)
    BY <1>3, <2>2
  <2>4. SameMemory(n, apply_execution_cycle_outcome(s, n))
    BY <2>2, ChargeOutside
  <2> QED BY <2>1, <2>3, <2>4, FailsOfSame
<1>5. Fails(s, exit_failure(s))
  <2> DEFINE n == [a EXCEPT !.last_error = "other", !.recovery_epoch = e]
  <2>1. exit_failure(s) = n
    BY DEF exit_failure, a, e
  <2>2. /\ HasMemory(n) /\ n.recovery_epoch = e
        /\ n.phase = a.phase /\ n.previous_phase = a.previous_phase
        /\ n.agent_invoked = a.agent_invoked /\ n.iteration = a.iteration
        /\ n.pending_cycle_outcome = a.pending_cycle_outcome
        /\ n.post_commit_phase_override = a.post_commit_phase_override
    BY <1>1 DEF HasMemory, Memory
  <2> HIDE DEF n
  <2> QED BY <1>3, <2>1, <2>2
<1>6. ASSUME NEW counted
      PROVE  Fails(s, controller_fails_phase(s, reason, counted))
  <2> DEFINE k == IF counted THEN a.recovery_cycle_count + 1 ELSE a.recovery_cycle_count
             n == [a EXCEPT !.last_error = reason, !.recovery_epoch = e,
                            !.recovery_cycle_count = k]
  <2>1. controller_fails_phase(s, reason, counted) = n
    BY DEF controller_fails_phase, a, e
  <2> HIDE DEF k
  <2>2. /\ HasMemory(n) /\ n.recovery_epoch = e
        /\ n.phase = a.phase /\ n.previous_phase = a.previous_phase
        /\ n.agent_invoked = a.agent_invoked /\ n.iteration = a.iteration
        /\ n.pending_cycle_outcome = a.pending_cycle_outcome
        /\ n.post_commit_phase_override = a.post_commit_phase_override
    BY <1>1 DEF HasMemory, Memory
  <2> HIDE DEF n
  <2> QED BY <1>3, <2>1, <2>2
<1> QED BY <1>4, <1>5, <1>6

-----------------------------------------------------------------------------
(***************************************************************************)
(* The moves of the handlers.                                              *)
(***************************************************************************)
\* Success transitions and loopbacks (_resolve_or_terminal).
LEMMA ResolveMoves ==
  ASSUME NEW s, HasMemory(s), s.phase \in Phases, s.recovery_epoch \in Nat, NEW rt
  PROVE  /\ Moves(s, OnSuccess[s.phase], resolve_success(s, rt))
         /\ IF OnLoopback[s.phase] = NONE
            THEN Fails(s, resolve_loopback(s, rt))
            ELSE Moves(s, OnLoopback[s.phase], resolve_loopback(s, rt))
<1>1. OnSuccess[s.phase] \in Phases /\ OnLoopback[s.phase] \in OrNone(Phases)
  BY NextPhases
<1>2. Moves(s, OnSuccess[s.phase], resolve_success(s, rt))
  BY <1>1, ReducerAdvanceMoves DEF resolve_success
<1>3. ASSUME OnLoopback[s.phase] = NONE
      PROVE  Fails(s, resolve_loopback(s, rt))
  BY <1>3, EnterFailedRecoveryFails DEF resolve_loopback
<1>4. ASSUME OnLoopback[s.phase] # NONE
      PROVE  Moves(s, OnLoopback[s.phase], resolve_loopback(s, rt))
  <2> DEFINE p == OnLoopback[s.phase]
             n == prepared_advance(s, p, rt)
             m == [n EXCEPT !.recovery_epoch = s.recovery_epoch,
                            !.last_error = s.last_error]
  <2>1. p \in Phases
    BY <1>1, <1>4 DEF OrNone
  <2>2. /\ resolve_loopback(s, rt) \in {n, m}
        /\ resolve_loopback(s, rt) = m =>
             n = m \/ /\ Role[s.phase] = "commit_cleanup"
                      /\ Role[n.phase] = "commit_cleanup"
    BY <1>4 DEF resolve_loopback, preserving_cleanup_recovery
  <2> HIDE DEF p
  <2>3. Moves(s, p, n)
    BY <2>1, PreparedAdvanceMoves
  <2>4. n.agent_invoked = IF Role[n.phase] = "commit" THEN FALSE ELSE s.agent_invoked
    BY <2>1, PreparedAdvanceMoves
  <2> HIDE DEF n
  <2>5. /\ HasMemory(m) /\ m.phase = n.phase /\ m.previous_phase = n.previous_phase
        /\ m.iteration = n.iteration
        /\ m.agent_invoked = n.agent_invoked /\ m.recovery_epoch = s.recovery_epoch
        /\ m.pending_cycle_outcome = n.pending_cycle_outcome
        /\ m.post_commit_phase_override = n.post_commit_phase_override
    BY <2>3 DEF Moves, HasMemory, Memory
  <2> HIDE DEF m
  <2>6. ASSUME Role[s.phase] = "commit_cleanup", Role[n.phase] = "commit_cleanup"
        PROVE  Moves(s, p, m)
    <3>1. m.agent_invoked = s.agent_invoked
      BY <2>4, <2>5, <2>6
    <3> QED BY <2>3, <2>5, <2>6, <3>1 DEF Moves, VerdictKept, RouteKept
  <2> QED BY <2>2, <2>3, <2>6 DEF p
<1> QED BY <1>2, <1>3, <1>4

\* A forward outcome is one the policy pronounces.
LEMMA ForwardPronounced ==
  ASSUME NEW p \in Phases
  PROVE  declared_forward_cycle_outcome(p) \in Pronounced
BY SMTT(30), NamesAssumption DEF declared_forward_cycle_outcome, Forward, Pronounced

\* AGENT_SUCCESS: a commit agent prepares the message, any other agent ends
\* its phase.
LEMMA AgentSuccessMoves ==
  ASSUME NEW s, HasMemory(s), s.phase \in Phases, s.recovery_epoch \in Nat, NEW rt
  PROVE  IF Role[s.phase] = "commit" /\ ~s.agent_invoked
         THEN handle_agent_success(s, rt) = [s EXCEPT !.agent_invoked = TRUE]
         ELSE Moves(s, OnSuccess[s.phase], handle_agent_success(s, rt))
<1> DEFINE t == stamp_if_unrecorded(s, declared_forward_cycle_outcome(s.phase))
           n == reducer_advance_phase(t, OnSuccess[s.phase], rt)
           m == apply_analysis_success(t, n)
<1>1. /\ SameHead(s, t) /\ VerdictKept(s, t)
      /\ t.post_commit_phase_override = s.post_commit_phase_override
  BY ForwardPronounced, StampMove
<1> HIDE DEF t
<1>2. HasMemory(t) /\ t.phase = s.phase /\ OnSuccess[s.phase] \in Phases
  BY <1>1, NextPhases DEF SameHead
<1>3. Moves(t, OnSuccess[s.phase], n)
  BY <1>2, ReducerAdvanceMoves
<1> HIDE DEF n
<1>4. SameMemory(n, m)
  <2>1. HasMemory(n)
    BY <1>3 DEF Moves
  <2>2. SameMemory(n, n)
    BY <2>1, OutsideMemory
  <2> QED BY <2>1, <2>2, LoopIterationOutside DEF apply_analysis_success
<1> HIDE DEF m
<1>5. Moves(s, OnSuccess[s.phase], m)
  BY <1>1, <1>3, <1>4, MovesOfSame, MovesFromSame
<1>6. handle_analysis_success(s, rt) = m
  BY DEF handle_analysis_success, t, n, m
<1>7. Moves(s, OnSuccess[s.phase], resolve_success(s, rt))
  BY ResolveMoves
<1> QED BY <1>5, <1>6, <1>7 DEF handle_agent_success

\* An execution result ends its phase.
LEMMA ExecutionResultMoves ==
  ASSUME NEW s, HasMemory(s), s.phase \in Phases, s.recovery_epoch \in Nat,
         NEW status, NEW rt
  PROVE  /\ SameHead(s, Reported(s, status))
         /\ Reported(s, status).pending_cycle_outcome = s.pending_cycle_outcome
         /\ Reported(s, status).post_commit_phase_override
              = ResultOverride[s.phase][status]
         /\ Moves(Reported(s, status), OnSuccess[s.phase],
                  handle_execution_result(s, status, rt))
<1>1. /\ SameHead(s, Reported(s, status))
      /\ Reported(s, status).pending_cycle_outcome = s.pending_cycle_outcome
      /\ Reported(s, status).post_commit_phase_override
           = ResultOverride[s.phase][status]
  BY DEF Reported, SameHead, HasMemory, Memory
<1>2. handle_execution_result(s, status, rt) = resolve_success(Reported(s, status), rt)
  BY DEF handle_execution_result, Reported
<1>3. /\ HasMemory(Reported(s, status)) /\ Reported(s, status).phase = s.phase
      /\ Reported(s, status).recovery_epoch \in Nat
  BY <1>1 DEF SameHead
<1> QED BY <1>1, <1>2, <1>3, ResolveMoves

\* PHASE_LOOPBACK: counted or not, a phase goes back or fails.
LEMMA PhaseLoopbackMoves ==
  ASSUME NEW s, HasMemory(s), s.phase \in Phases, s.recovery_epoch \in Nat, NEW rt
  PROVE  IF OnLoopback[s.phase] = NONE
         THEN Fails(s, handle_phase_loopback(s, rt))
         ELSE Moves(s, OnLoopback[s.phase], handle_phase_loopback(s, rt))
<1> DEFINE t == apply_analysis_loopback(s, LoopCounter[s.phase],
                  ~analysis_loopback_is_already_charged(s))
<1>1. SameMemory(s, t)
  <2>1. SameMemory(s, s)
    BY OutsideMemory
  <2> QED BY <2>1, ChargeOutside DEF apply_analysis_loopback
<1> HIDE DEF t
<1>2. /\ HasMemory(t) /\ t.phase = s.phase /\ t.recovery_epoch \in Nat
      /\ SameHead(s, t) /\ VerdictKept(s, t)
      /\ t.post_commit_phase_override = s.post_commit_phase_override
  BY <1>1 DEF SameMemory, SameHead, VerdictKept
<1>3. Fails(s, enter_failed_recovery(t, "other"))
  BY <1>2, EnterFailedRecoveryFails, MovesFromSame
<1>4. OnLoopback[s.phase] # NONE =>
        Moves(s, OnLoopback[s.phase], reducer_advance_phase(t, OnLoopback[s.phase], rt))
  BY SMTT(30), <1>2, NextPhases, ReducerAdvanceMoves, MovesFromSame DEF OrNone
<1> QED BY <1>3, <1>4, ResolveMoves DEF handle_phase_loopback, t

\* A decision of analysis fails its phase or leads where the policy says.
LEMMA AnalysisDecisionMoves ==
  ASSUME NEW s, HasMemory(s), s.phase \in Phases, s.recovery_epoch \in Nat,
         NEW decision \in Decisions, NEW rt
  PROVE  IF Route[s.phase][decision].target \in {NONE, failed_route}
         THEN Fails(s, handle_analysis_decision(s, decision, rt))
         ELSE Moves(s, Route[s.phase][decision].target,
                    handle_analysis_decision(s, decision, rt))
<1> DEFINE route == Route[s.phase][decision]
           t == count_decision(s, route)
           u == [t EXCEPT !.pending_cycle_outcome = route.cycle_outcome]
           v == IF route.cycle_outcome = NONE THEN t ELSE u
<1>1. route.target \in OrNone(Phases) /\ route.cycle_outcome \in Pronounced
  BY SMTT(30), GraphAssumption DEF DecisionRoutes, Pronounced
<1> HIDE DEF route
<1>2. SameMemory(s, t)
  <2>1. SameMemory(s, s)
    BY OutsideMemory
  <2> QED BY <2>1, LoopIterationOutside, ChargeOutside
          DEF count_decision, apply_analysis_loopback
<1> HIDE DEF t
<1>3. /\ SameHead(s, v) /\ VerdictKept(s, v)
      /\ v.post_commit_phase_override = s.post_commit_phase_override
  <2>1. /\ SameHead(t, u) /\ u.pending_cycle_outcome = route.cycle_outcome
        /\ u.post_commit_phase_override = t.post_commit_phase_override
    BY <1>2 DEF SameMemory, SameHead, HasMemory, Memory
  <2> HIDE DEF u
  <2> QED BY <1>1, <1>2, <2>1 DEF SameMemory, SameHead, VerdictKept
<1> HIDE DEF v
<1>4. HasMemory(v) /\ v.phase = s.phase /\ v.recovery_epoch \in Nat
  BY <1>3 DEF SameHead
<1>5. /\ Fails(s, enter_failed_recovery(s, "other"))
      /\ Fails(s, enter_failed_recovery(v, failure_reason(s)))
  BY <1>3, <1>4, EnterFailedRecoveryFails, MovesFromSame
<1>6. route.target # NONE => Moves(s, route.target, prepared_advance(v, route.target, rt))
  <2>1. ASSUME route.target # NONE
        PROVE  Moves(v, route.target, prepared_advance(v, route.target, rt))
    <3>1. route.target \in Phases
      BY <1>1, <2>1 DEF OrNone
    <3> QED BY <1>4, <3>1, PreparedAdvanceMoves
  <2> QED BY SMTT(30), <1>3, <2>1, MovesFromSame
<1> QED BY <1>5, <1>6 DEF handle_analysis_decision, route, t, u, v

\* The invocation gate admits the phase aimed at or passes it over
\* (_advance_through_invocation_gate).
LEMMA GateMoves ==
  ASSUME NEW s, HasMemory(s), s.phase \in Phases, NEW p \in Phases, NEW rt
  PROVE  \/ Moves(s, p, advance_through_invocation_gate(s, p, rt))
         \/ /\ GateUpstream[p] # NONE
            /\ Moves(s, OnSuccess[p], advance_through_invocation_gate(s, p, rt))
<1> DEFINE t == [s EXCEPT !.last_execution_result_status = NONE]
           n == reducer_advance_phase(t, p, rt)
           u == stamp_if_unrecorded(t, declared_forward_cycle_outcome(p))
           m == reducer_advance_phase(u, OnSuccess[p], rt)
<1>1. SameMemory(s, t)
  BY OutsideMemory
<1> HIDE DEF t
<1>2. /\ HasMemory(t) /\ t.phase = s.phase
      /\ SameHead(s, t) /\ VerdictKept(s, t)
      /\ t.post_commit_phase_override = s.post_commit_phase_override
  BY <1>1, SameMemoryMeans
<1>3. Moves(t, p, n)
  BY <1>2, ReducerAdvanceMoves
<1> HIDE DEF n
<1>4. Moves(t, p, charged_if_entered(n, p))
  <2>1. HasMemory(n)
    BY <1>3 DEF Moves
  <2>2. SameMemory(n, charge_analysis_cycle_for_gate(n, GateUpstream[p]))
    BY <2>1, ChargeOutside
  <2> QED BY <1>3, <2>2, MovesOfSame DEF charged_if_entered
<1>5. Moves(s, p, n) /\ Moves(s, p, charged_if_entered(n, p))
  BY <1>2, <1>3, <1>4, MovesFromSame
<1>6. Moves(s, OnSuccess[p], m)
  <2>1. /\ SameHead(t, u) /\ VerdictKept(t, u)
        /\ u.post_commit_phase_override = t.post_commit_phase_override
    BY <1>2, ForwardPronounced, StampMove
  <2> HIDE DEF u
  <2>2. HasMemory(u) /\ u.phase = s.phase /\ OnSuccess[p] \in Phases
    BY <1>2, <2>1, NextPhases DEF SameHead
  <2>3. Moves(u, OnSuccess[p], m)
    BY <2>2, ReducerAdvanceMoves
  <2> HIDE DEF m
  <2>4. Moves(t, OnSuccess[p], m)
    BY <2>1, <2>3, MovesFromSame
  <2> QED BY <1>2, <2>4, MovesFromSame
<1> QED BY <1>5, <1>6 DEF advance_through_invocation_gate, t, u, n, m

\* A commit counts: apply_commit_outcome writes the budget alone.
LEMMA CountedCommit ==
  ASSUME NEW s, HasMemory(s), NEW skipped
  PROVE  LET c == apply_commit_outcome(s, skipped)
         IN  /\ HasMemory(c)
             /\ c.phase = s.phase
             /\ c.previous_phase = s.previous_phase
             /\ c.recovery_epoch = s.recovery_epoch
             /\ c.agent_invoked = s.agent_invoked
             /\ c.pending_cycle_outcome = s.pending_cycle_outcome
             /\ c.post_commit_phase_override = s.post_commit_phase_override
             /\ \/ c.iteration = s.iteration
                \/ s.phase \in ClosingCommits /\ c.iteration = s.iteration + 1
<1> DEFINE t == reset_loops(s)
<1>1. SameMemory(s, t)
  BY DEF reset_loops, SameMemory, SameHead, HasMemory, Memory
<1>2. /\ apply_lifecycle_completion_policy(s) =
           [t EXCEPT !.iteration = @ + 1,
                     !.execution_seconds = [p \in GateUpstreams |-> 0]]
      /\ apply_commit_outcome_policy_driven(s, skipped)
           \in {t, [t EXCEPT !.iteration = @ + 1]}
      /\ s.phase \notin ClosingCommits =>
           apply_commit_outcome_policy_driven(s, skipped) = t
  BY DEF apply_lifecycle_completion_policy, apply_commit_outcome_policy_driven
<1>3. s.phase \in Lifecycle => s.phase \in ClosingCommits
  BY BudgetAssumption
<1> HIDE DEF t
<1>4. ASSUME NEW c,
             c \in {t, [t EXCEPT !.iteration = @ + 1],
                    [t EXCEPT !.iteration = @ + 1,
                              !.execution_seconds = [p \in GateUpstreams |-> 0]]}
      PROVE  /\ HasMemory(c) /\ c.phase = t.phase
             /\ c.previous_phase = t.previous_phase
             /\ c.recovery_epoch = t.recovery_epoch
             /\ c.agent_invoked = t.agent_invoked
             /\ c.pending_cycle_outcome = t.pending_cycle_outcome
             /\ c.post_commit_phase_override = t.post_commit_phase_override
             /\ c = t \/ c.iteration = t.iteration + 1
  BY <1>1, <1>4 DEF SameMemory, SameHead, HasMemory, Memory
<1> QED BY <1>1, <1>2, <1>3, <1>4 DEF apply_commit_outcome, SameMemory, SameHead

\* A commit that is made, skipped or empty: the budget is counted, then the
\* run goes where the pending route, the budget or the policy says.
Commits(s, n) ==
  \E c, b :
    /\ \E skipped \in BOOLEAN : c = apply_commit_outcome(s, skipped)
    /\ SameHead(c, b)
    /\ b.pending_cycle_outcome \in {c.pending_cycle_outcome, NONE}
    /\ b.post_commit_phase_override = NONE
    /\ \/ Moves(b, resolve_post_commit_phase(c), n)
       \/ /\ c.post_commit_phase_override = NONE
          /\ GateUpstream[resolve_post_commit_phase(c)] # NONE
          /\ Moves(b, OnSuccess[resolve_post_commit_phase(c)], n)

LEMMA CommitDoneMoves ==
  ASSUME NEW s, Sound(s), NEW skipped \in BOOLEAN, NEW rt
  PROVE  Commits(s, handle_commit_outcome(s, skipped, rt))
<1> DEFINE c == apply_commit_outcome(s, skipped)
           next == resolve_post_commit_phase(c)
           closed == IF commit_closes_a_cycle(s.phase)
                     THEN [c EXCEPT !.pending_cycle_outcome = NONE]
                     ELSE c
           b == [closed EXCEPT !.post_commit_phase_override = NONE]
           n == handle_commit_outcome(s, skipped, rt)
<1>1. n = IF c.post_commit_phase_override # NONE
          THEN reducer_advance_phase(b, next, rt)
          ELSE advance_through_invocation_gate(closed, next, rt)
  BY DEF handle_commit_outcome
<1>2. Sound(c)
  BY CommitOutcomeSound
<1> HIDE DEF c
<1>3. next \in Phases /\ HasMemory(c) /\ c.phase \in Phases
  BY <1>2, PostCommitPhaseType, SoundHasMemory
<1> HIDE DEF next
<1>4. /\ SameHead(c, closed)
      /\ closed.pending_cycle_outcome \in {c.pending_cycle_outcome, NONE}
      /\ closed.post_commit_phase_override = c.post_commit_phase_override
  BY <1>3 DEF SameHead, HasMemory, Memory
<1> HIDE DEF closed
<1>5. /\ SameHead(c, b)
      /\ b.pending_cycle_outcome \in {c.pending_cycle_outcome, NONE}
      /\ b.post_commit_phase_override = NONE
  BY <1>4 DEF SameHead, HasMemory, Memory
<1> HIDE DEF b, n
<1>6. CASE c.post_commit_phase_override # NONE
  <2>1. Moves(b, next, n)
    BY <1>1, <1>3, <1>5, <1>6, ReducerAdvanceMoves DEF SameHead
  <2> QED BY <1>5, <2>1 DEF Commits, n, c, next
<1>7. CASE c.post_commit_phase_override = NONE
  <2>1. \/ Moves(closed, next, n)
        \/ GateUpstream[next] # NONE /\ Moves(closed, OnSuccess[next], n)
    BY <1>1, <1>3, <1>4, <1>7, GateMoves DEF SameHead
  <2> QED BY <1>4, <1>7, <2>1 DEF Commits, n, c, next
<1> QED BY <1>6, <1>7

\* A commit is retried with its message (_with_commit_retry).
LEMMA RetryCommitRetries ==
  ASSUME NEW s, HasMemory(s), s.phase \in Phases, NEW p \in Phases, NEW error,
         NEW epoch \in 0..MAX_COMMIT_RECOVERY_ATTEMPTS, NEW rt
  PROVE  Retries(s, p, retry_commit(s, p, error, epoch, rt))
<1> DEFINE a == prepared_advance(s, p, rt)
           back == IF p = s.phase /\ a.phase = s.phase
                   THEN s.previous_phase ELSE a.previous_phase
           n == [a EXCEPT !.agent_invoked = s.agent_invoked,
                          !.last_error = error,
                          !.recovery_epoch = epoch,
                          !.pending_cycle_outcome = NONE,
                          !.last_execution_result_status = "failed",
                          !.previous_phase = back]
<1>1. Moves(s, p, a)
  BY PreparedAdvanceMoves
<1>2. retry_commit(s, p, error, epoch, rt) = n
  BY DEF retry_commit, with_commit_retry
<1> HIDE DEF a
<1>3. \/ back = a.previous_phase
      \/ a.phase = s.phase /\ back = s.previous_phase
  OBVIOUS
<1> HIDE DEF back
<1>4. /\ HasMemory(n) /\ n.phase = a.phase /\ n.previous_phase = back
      /\ n.recovery_epoch = epoch /\ n.agent_invoked = s.agent_invoked
      /\ n.iteration = a.iteration /\ n.pending_cycle_outcome = NONE
      /\ n.post_commit_phase_override = a.post_commit_phase_override
  BY <1>1 DEF Moves, HasMemory, Memory
<1> HIDE DEF n
<1>5. VerdictKept(s, n) /\ RouteKept(s, n, n.phase)
  BY <1>1, <1>4 DEF Moves, VerdictKept, RouteKept
<1> QED BY <1>1, <1>2, <1>3, <1>4, <1>5 DEF Moves, Retries

\* COMMIT_FAILURE: a repairable failure tries the commit again until its
\* attempts are spent, any other one fails the phase.
LEMMA CommitFailureMoves ==
  ASSUME NEW s, HasMemory(s), s.phase \in Phases, s.recovery_epoch \in Nat,
         NEW error, NEW rt
  PROVE  /\ \/ Fails(s, handle_commit_failure(s, error, rt))
            \/ Retries(s, RetryPhase(s.phase), handle_commit_failure(s, error, rt))
         /\ error = "other" => Fails(s, handle_commit_failure(s, error, rt))
<1> DEFINE t == [s EXCEPT !.pending_cycle_outcome = NONE,
                          !.last_execution_result_status = "failed"]
           known == IF error = NONE /\ is_repairable_git_failure(s.last_error)
                    THEN s.last_error ELSE error
           p == RetryPhase(s.phase)
           failed == enter_failed_recovery(t, known)
           n == [failed EXCEPT !.recovery_epoch = MAX_COMMIT_RECOVERY_ATTEMPTS,
                               !.last_execution_result_status = "failed"]
<1>1. /\ SameHead(s, t) /\ t.pending_cycle_outcome = NONE
      /\ t.post_commit_phase_override = s.post_commit_phase_override
  BY DEF SameHead, HasMemory, Memory
<1>2. handle_commit_failure(s, error, rt) =
        IF is_repairable_git_failure(known)
        THEN handle_repairable_commit_failure(t, known, rt)
        ELSE enter_failed_recovery(t, "other")
  BY DEF handle_commit_failure
<1>3. error = "other" => ~is_repairable_git_failure(known)
  BY DEF is_repairable_git_failure, NONE
<1> HIDE DEF t, known
<1>4. /\ HasMemory(t) /\ t.phase = s.phase /\ t.recovery_epoch = s.recovery_epoch
      /\ VerdictKept(s, t) /\ p \in Phases
  BY <1>1, NextPhases DEF SameHead, VerdictKept, RetryPhase, OrNone
<1>5. Fails(s, enter_failed_recovery(t, "other")) /\ Fails(s, failed)
  BY <1>1, <1>4, EnterFailedRecoveryFails, MovesFromSame
<1> HIDE DEF failed
<1>6. ASSUME s.recovery_epoch >= MAX_COMMIT_RECOVERY_ATTEMPTS
      PROVE  Fails(s, n)
  <2>1. /\ HasMemory(n) /\ n.phase = failed.phase
        /\ n.previous_phase = failed.previous_phase
        /\ n.recovery_epoch = MAX_COMMIT_RECOVERY_ATTEMPTS
        /\ n.agent_invoked = failed.agent_invoked /\ n.iteration = failed.iteration
        /\ n.pending_cycle_outcome = failed.pending_cycle_outcome
        /\ n.post_commit_phase_override = failed.post_commit_phase_override
    BY <1>5 DEF Fails, HasMemory, Memory
  <2> HIDE DEF n
  <2>2. n.recovery_epoch \in Nat /\ n.recovery_epoch <= s.recovery_epoch + 1
    BY SMTT(30), <1>6, <2>1 DEF MAX_COMMIT_RECOVERY_ATTEMPTS
  <2>3. VerdictKept(s, n)
    BY <1>5, <2>1 DEF Fails, VerdictKept
  <2> QED BY <1>5, <2>1, <2>2, <2>3 DEF Fails
<1> HIDE DEF n
<1>7. ASSUME NEW epoch \in 0..MAX_COMMIT_RECOVERY_ATTEMPTS
      PROVE  Retries(s, p, retry_commit(t, p, known, epoch, rt))
  <2> DEFINE m == retry_commit(t, p, known, epoch, rt)
  <2>1. Retries(t, p, m)
    BY <1>4, RetryCommitRetries
  <2> HIDE DEF m, p
  <2>2. VerdictKept(s, m) /\ RouteKept(s, m, m.phase)
    BY <1>1, <2>1 DEF Retries, VerdictKept, RouteKept
  <2>3. Retries(s, p, m)
    BY <1>1, <2>1, <2>2 DEF Retries, SameHead
  <2> QED BY <2>3 DEF m
<1>8. \/ Fails(s, handle_repairable_commit_failure(t, known, rt))
      \/ Retries(s, p, handle_repairable_commit_failure(t, known, rt))
  <2> DEFINE e == s.recovery_epoch
             one == IF e + 1 <= MAX_COMMIT_RECOVERY_ATTEMPTS
                    THEN e + 1 ELSE MAX_COMMIT_RECOVERY_ATTEMPTS
  <2>1. /\ one \in 0..MAX_COMMIT_RECOVERY_ATTEMPTS
        /\ ~(e >= MAX_COMMIT_RECOVERY_ATTEMPTS) =>
             e + 1 \in 0..MAX_COMMIT_RECOVERY_ATTEMPTS
    BY SMTT(30) DEF MAX_COMMIT_RECOVERY_ATTEMPTS
  <2>2. handle_repairable_commit_failure(t, known, rt) =
          IF names_a_lock_file(known) /\ CommitRecoveryPhase[s.phase] = NONE
          THEN retry_commit(t, p, known, one, rt)
          ELSE IF e >= MAX_COMMIT_RECOVERY_ATTEMPTS THEN n
               ELSE retry_commit(t, p, known, e + 1, rt)
    BY <1>4 DEF handle_repairable_commit_failure, RetryPhase, n, failed
  <2> HIDE DEF p, one
  <2> QED BY <1>6, <1>7, <2>1, <2>2
<1> QED BY <1>2, <1>3, <1>5, <1>8

\* A phase whose agents are spent fails or goes to its fallback.
LEMMA ChainExhaustedMoves ==
  ASSUME NEW s, HasMemory(s), s.phase \in Phases, s.recovery_epoch \in Nat, NEW rt
  PROVE  IF WorkflowFallback[s.phase] = NONE
         THEN Fails(s, handle_chain_exhausted(s, rt))
         ELSE Moves(s, WorkflowFallback[s.phase], handle_chain_exhausted(s, rt))
<1>1. ASSUME WorkflowFallback[s.phase] # NONE
      PROVE  Moves(s, WorkflowFallback[s.phase], handle_chain_exhausted(s, rt))
  <2> DEFINE n == prepared_advance(s, WorkflowFallback[s.phase], rt)
  <2>1. WorkflowFallback[s.phase] \in Phases
    BY <1>1, NextPhases DEF OrNone
  <2>2. Moves(s, WorkflowFallback[s.phase], n)
    BY <2>1, PreparedAdvanceMoves
  <2>3. handle_chain_exhausted(s, rt) = apply_execution_cycle_outcome(s, n)
    BY <1>1 DEF handle_chain_exhausted
  <2> HIDE DEF n
  <2>4. SameMemory(n, apply_execution_cycle_outcome(s, n))
    BY <2>2, ChargeOutside DEF Moves
  <2> QED BY <2>2, <2>3, <2>4, MovesOfSame
<1>2. ASSUME WorkflowFallback[s.phase] = NONE
      PROVE  Fails(s, handle_chain_exhausted(s, rt))
  BY <1>2, EnterFailedRecoveryFails DEF handle_chain_exhausted
<1> QED BY <1>1, <1>2

\* A stage and the advance that follows it are an advance.
LEMMA StageThenMoves ==
  ASSUME NEW s, NEW p, NEW r, Stage(s, p, r), NEW n, Moves(r.state, r.target, n)
  PROVE  Moves(s, p, n)
<1>1. n.phase \in LandsAt(p)
  BY Landing DEF Stage, Moves
<1>2. VerdictKept(s, n)
  BY DEF Stage, Moves, VerdictKept
<1>3. RouteKept(s, n, n.phase)
  BY Landing DEF Stage, Moves, RouteKept
<1> QED BY <1>1, <1>2, <1>3 DEF Stage, Moves, SameHead

\* An expired phase is left for the finalization target of its deadline.
Redirects(s, n) ==
  \/ /\ HasCycleTimebox
     /\ s.phase = cycle_timebox.guarded_entry
     /\ Moves(s, cycle_timebox.finalization_target, n)
  \/ /\ HasDevelopmentTimebox
     /\ s.phase = development_timebox.guarded_entry
     /\ Moves(s, development_timebox.finalization_target, n)

LEMMA RedirectMoves ==
  ASSUME NEW s, HasMemory(s), s.phase \in Phases, NEW rt,
         expired_redirect(s, rt).redirected
  PROVE  Redirects(s, redirect_expired_cycle_in_place(s, rt))
<1> DEFINE r == expired_redirect(s, rt)
           n == redirect_expired_cycle_in_place(s, rt)
<1>1. Stage(s, s.phase, r)
  BY CycleTimeboxStage, DevelopmentTimeboxStage DEF expired_redirect
<1>2. \/ /\ HasCycleTimebox /\ s.phase = cycle_timebox.guarded_entry
         /\ r.target = cycle_timebox.finalization_target
      \/ /\ HasDevelopmentTimebox /\ s.phase = development_timebox.guarded_entry
         /\ r.target = development_timebox.finalization_target
  BY DEF expired_redirect, apply_cycle_timebox, apply_development_timebox, pass_through
<1>3. n = reducer_advance_phase(r.state, r.target, rt)
  BY DEF redirect_expired_cycle_in_place, take_redirect
<1> HIDE DEF r, n
<1>4. Stage(s, r.target, r) /\ HasMemory(r.state) /\ r.state.phase = s.phase
      /\ r.target \in Phases
  BY <1>1, Landing DEF Stage, SameHead
<1>5. Moves(s, r.target, n)
  BY <1>3, <1>4, ReducerAdvanceMoves, StageThenMoves
<1> QED BY <1>2, <1>5 DEF Redirects, n

\* The phase a run dispatches is the one it is in, or the one its deadline
\* sends it to.
LEMMA PreparedMoves ==
  ASSUME Sound(state)
  PROVE  prepared = state \/ Redirects(state, prepared)
BY SoundHasMemory, RedirectMoves DEF prepared, redirect_if_expired

\* A missing plan sends a run back to plan, or to the failed route once it
\* has sent it back too often (recover_missing_plan_handoff).
MissesPlan(s, n) ==
  /\ HasMemory(n)
  /\ n.phase = IF s.recovery_epoch >= cycle_cap THEN failed_route ELSE entry_phase
  /\ n.previous_phase = s.phase
  /\ n.recovery_epoch = s.recovery_epoch + 1
  /\ n.agent_invoked = IF Role[n.phase] = "commit" THEN FALSE ELSE s.agent_invoked
  /\ n.iteration = s.iteration
  /\ n.pending_cycle_outcome = s.pending_cycle_outcome
  /\ n.post_commit_phase_override = s.post_commit_phase_override

LEMMA MissingPlanMoves ==
  ASSUME NEW s, HasMemory(s)
  PROVE  MissesPlan(s, recover_missing_plan_handoff(s))
<1> DEFINE p == IF s.recovery_epoch >= cycle_cap THEN failed_route ELSE entry_phase
           a == advance_phase(s, p)
           b == conclude_cycle_on_route_out_of_cycle(a, p)
           n == [b EXCEPT !.last_error = "other", !.recovery_epoch = s.recovery_epoch + 1]
<1>1. recover_missing_plan_handoff(s) = n
  BY DEF recover_missing_plan_handoff
<1> HIDE DEF p
<1>2. /\ HasMemory(a) /\ a.phase = p /\ a.previous_phase = s.phase
      /\ a.iteration = s.iteration
      /\ a.pending_cycle_outcome = s.pending_cycle_outcome
      /\ a.post_commit_phase_override = s.post_commit_phase_override
  BY SMTT(30), AdvanceMemory
<1>3. a.agent_invoked = IF Role[p] = "commit" THEN FALSE ELSE s.agent_invoked
  BY AdvanceForgetsMessage
<1> HIDE DEF a
<1>4. SameMemory(a, b)
  BY <1>2 DEF conclude_cycle_on_route_out_of_cycle, SameMemory, SameHead, HasMemory, Memory
<1> HIDE DEF b
<1>5. /\ HasMemory(n) /\ n.phase = b.phase /\ n.previous_phase = b.previous_phase
      /\ n.agent_invoked = b.agent_invoked /\ n.iteration = b.iteration
      /\ n.recovery_epoch = s.recovery_epoch + 1
      /\ n.pending_cycle_outcome = b.pending_cycle_outcome
      /\ n.post_commit_phase_override = b.post_commit_phase_override
  BY <1>4 DEF SameMemory, SameHead, HasMemory, Memory
<1> HIDE DEF n
<1> QED BY <1>1, <1>2, <1>3, <1>4, <1>5 DEF MissesPlan, SameMemory, SameHead, p

\* The phase that failed is entered again: the recovery goes on, a message
\* prepared for a commit is forgotten (PreparePromptEffect).
Reenters(s, p, n) ==
  /\ HasMemory(n)
  /\ n.phase \in LandsAt(p)
  /\ n.previous_phase = s.previous_phase
  /\ n.recovery_epoch = s.recovery_epoch
  /\ n.agent_invoked = IF Role[n.phase] = "commit" THEN FALSE ELSE s.agent_invoked
  /\ n.iteration = s.iteration
  /\ VerdictKept(s, n)
  /\ RouteKept(s, n, n.phase)

LEMMA ReenterMoves ==
  ASSUME NEW s, Sound(s)
  PROVE  /\ recovery_target(s) \in Phases
         /\ Reenters(s, recovery_target(s), reenter_phase(s))
<1> DEFINE p == recovery_target(s)
           d == apply_timeboxes(s, p, routing_timing(s))
           b == concluded_if_leaving_cycle(d).state
           n == [b EXCEPT !.phase = d.target,
                   !.agent_invoked = IF Role[d.target] = "commit" THEN FALSE ELSE @]
<1>1. p \in Phases /\ HasMemory(s)
  BY NamesAssumption, SoundHasMemory DEF recovery_target, Sound, State, OrNone
<1>2. reenter_phase(s) = n
  BY DEF reenter_phase
<1> HIDE DEF p
<1>3. Stage(s, p, d)
  BY <1>1, TimeboxesStage
<1> HIDE DEF d
<1>4. SameMemory(d.state, b)
  BY <1>3, StageType, ConcludedStage
<1> HIDE DEF b
<1>5. /\ HasMemory(n) /\ n.phase = d.target /\ n.previous_phase = b.previous_phase
      /\ n.recovery_epoch = b.recovery_epoch /\ n.iteration = b.iteration
      /\ n.pending_cycle_outcome = b.pending_cycle_outcome
      /\ n.post_commit_phase_override = b.post_commit_phase_override
  BY <1>4 DEF SameMemory, SameHead, HasMemory, Memory
<1>6. n.agent_invoked = IF Role[d.target] = "commit" THEN FALSE ELSE b.agent_invoked
  BY <1>4 DEF SameMemory, SameHead, HasMemory, Memory
<1> HIDE DEF n
<1>7. VerdictKept(s, n) /\ RouteKept(s, n, n.phase)
  BY <1>3, <1>4, <1>5 DEF Stage, SameMemory, VerdictKept, RouteKept
<1>8. Reenters(s, p, n)
  BY <1>3, <1>4, <1>5, <1>6, <1>7 DEF Stage, Reenters, SameMemory, SameHead
<1> QED BY <1>1, <1>2, <1>8 DEF p

\* Recording the time of a step writes outside the memory.
LEMMA TimingOutside ==
  ASSUME NEW s, HasMemory(s)
  PROVE  SameMemory(s, with_phase_timing(s))
BY DEF with_phase_timing, SameMemory, SameHead, HasMemory, Memory

-----------------------------------------------------------------------------
(***************************************************************************)
(* The moves of the steps.                                                 *)
(***************************************************************************)
\* The commit agent has written the message.
Readies(s, n) ==
  /\ Role[s.phase] = "commit"
  /\ SameMemory([s EXCEPT !.agent_invoked = TRUE], n)

\* The result of an agent or of a commit, and the failure of either.
Results(s, n) ==
  \/ Readies(s, n)
  \/ Role[s.phase] # "commit" /\ Moves(s, OnSuccess[s.phase], n)
  \/ /\ s.phase \in ReportsResult
     /\ \E status \in Statuses : Moves(Reported(s, status), OnSuccess[s.phase], n)
  \/ /\ Role[s.phase] = "analysis"
     /\ \E d \in Decisions : /\ Route[s.phase][d].target # NONE
                            /\ Moves(s, Route[s.phase][d].target, n)
  \/ /\ Role[s.phase] = "commit_cleanup"
     /\ OnLoopback[s.phase] # NONE
     /\ Moves(s, OnLoopback[s.phase], n)
  \/ /\ Role[s.phase] = "commit"
     /\ \/ Commits(s, n)
        \/ Moves(s, s.phase, n)
        \/ Retries(s, RetryPhase(s.phase), n)
  \/ Fails(s, n)

Failures(s, n) ==
  \/ SameMemory(s, n)
  \/ WorkflowFallback[s.phase] # NONE /\ Moves(s, WorkflowFallback[s.phase], n)
  \/ Redirects(s, n)
  \/ Fails(s, n)

\* A result is reduced, and the time of its step recorded, as a move.
LEMMA ReducedMoves ==
  ASSUME NEW s, NEW n, HasMemory(n), Reduces(n)
  PROVE  /\ \A p : Moves(s, p, n) => Moves(s, p, state')
         /\ \A p : Retries(s, p, n) => Retries(s, p, state')
         /\ Fails(s, n) => Fails(s, state')
         /\ SameMemory(s, n) => SameMemory(s, state')
         /\ Commits(s, n) => Commits(s, state')
<1>1. SameMemory(n, state')
  BY TimingOutside DEF Reduces
<1>2. \A t, p : Moves(t, p, n) => Moves(t, p, state')
  BY <1>1, MovesOfSame
<1>3. \A p : Retries(s, p, n) => Retries(s, p, state')
  BY <1>1 DEF Retries, SameMemory, SameHead, VerdictKept, RouteKept
<1>4. Fails(s, n) => Fails(s, state')
  BY <1>1, FailsOfSame
<1>5. SameMemory(s, n) => SameMemory(s, state')
  BY <1>1, SameMemoryTransitive
<1>6. Commits(s, n) => Commits(s, state')
  BY <1>2 DEF Commits
<1> QED BY <1>2, <1>3, <1>4, <1>5, <1>6

\* Every move ends in a state with a memory.
LEMMA MovesHaveMemory ==
  ASSUME NEW s, NEW n
  PROVE  /\ \A p : Moves(s, p, n) => HasMemory(n)
         /\ \A p : Retries(s, p, n) => HasMemory(n)
         /\ Fails(s, n) => HasMemory(n)
         /\ SameMemory(s, n) => HasMemory(n)
         /\ Commits(s, n) => HasMemory(n)
BY DEF Moves, Retries, Fails, SameMemory, SameHead, Commits

\* The results of a step are moves.
LEMMA ResultMoves ==
  ASSUME IInv, InFlight
  PROVE  /\ AgentSucceeds =>
              \/ Readies(state, state')
              \/ /\ Role[state.phase] # "commit"
                 /\ Moves(state, OnSuccess[state.phase], state')
         /\ ExecutionReports \/ AnalysisDecides \/ CleanupLoopsBack =>
              \/ /\ state.phase \in ReportsResult
                 /\ \E status \in Statuses :
                      Moves(Reported(state, status), OnSuccess[state.phase], state')
              \/ /\ Role[state.phase] = "analysis"
                 /\ \E d \in Decisions :
                      /\ Route[state.phase][d].target # NONE
                      /\ Moves(state, Route[state.phase][d].target, state')
              \/ /\ Role[state.phase] = "commit_cleanup"
                 /\ OnLoopback[state.phase] # NONE
                 /\ Moves(state, OnLoopback[state.phase], state')
              \/ Fails(state, state')
         /\ AgentSkipsCommit \/ CommitSucceeds \/ CommitSkipped =>
              Role[state.phase] = "commit" /\ Commits(state, state')
         /\ CommitResidual =>
              Role[state.phase] = "commit" /\ Moves(state, state.phase, state')
         /\ CommitFails =>
              \/ Fails(state, state')
              \/ /\ Role[state.phase] = "commit"
                 /\ Retries(state, RetryPhase(state.phase), state')
         /\ CommitWithoutMessage => Fails(state, state')
<1>1. /\ HasMemory(state) /\ state.phase \in Phases /\ state.recovery_epoch \in Nat
      /\ Sound(state)
  BY InvariantMeansSound, SoundHasMemory
<1>2. ASSUME AgentSucceeds
      PROVE  \/ Readies(state, state')
             \/ /\ Role[state.phase] # "commit"
                /\ Moves(state, OnSuccess[state.phase], state')
  <2> DEFINE n == handle_agent_success(state, rt_now)
             m == [state EXCEPT !.agent_invoked = TRUE]
  <2>1. Reduces(n)
    BY <1>2 DEF AgentSucceeds
  <2>2. CASE Role[state.phase] = "commit"
    <3>1. n = m
      BY <1>1, <1>2, <2>2, AgentSuccessMoves
         DEF InFlight, AgentSucceeds, AgentReturns
    <3>2. HasMemory(m)
      BY <1>1 DEF HasMemory
    <3>3. state' = with_phase_timing(m)
      BY <2>1, <3>1 DEF Reduces
    <3> HIDE DEF m
    <3>4. SameMemory(m, state')
      BY <3>2, <3>3, TimingOutside
    <3> QED BY <2>2, <3>4 DEF Readies, m
  <2>3. CASE Role[state.phase] # "commit"
    <3>1. Moves(state, OnSuccess[state.phase], n)
      BY <1>1, <2>3, AgentSuccessMoves
    <3> HIDE DEF n
    <3> QED BY <2>1, <2>3, <3>1, MovesHaveMemory, ReducedMoves
  <2> QED BY <2>2, <2>3
<1>3. ASSUME ExecutionReports
      PROVE  /\ state.phase \in ReportsResult
             /\ \E status \in Statuses :
                  Moves(Reported(state, status), OnSuccess[state.phase], state')
  <2>1. PICK status \in Statuses : Reduces(handle_execution_result(state, status, rt_now))
    BY <1>3 DEF ExecutionReports
  <2>2. Moves(Reported(state, status), OnSuccess[state.phase],
              handle_execution_result(state, status, rt_now))
    BY <1>1, ExecutionResultMoves
  <2>3. Moves(Reported(state, status), OnSuccess[state.phase], state')
    BY <2>1, <2>2, MovesHaveMemory, ReducedMoves
  <2> QED BY <1>3, <2>3 DEF ExecutionReports
<1>4. ASSUME AnalysisDecides
      PROVE  \/ /\ Role[state.phase] = "analysis"
                /\ \E d \in Decisions :
                     /\ Route[state.phase][d].target # NONE
                     /\ Moves(state, Route[state.phase][d].target, state')
             \/ Fails(state, state')
  <2>1. PICK d \in Decisions : Reduces(handle_analysis_decision(state, d, rt_now))
    BY <1>4 DEF AnalysisDecides
  <2> DEFINE n == handle_analysis_decision(state, d, rt_now)
             p == Route[state.phase][d].target
  <2>2. Fails(state, n) \/ (p # NONE /\ Moves(state, p, n))
    BY <1>1, AnalysisDecisionMoves
  <2> HIDE DEF n, p
  <2>3. Fails(state, state') \/ (p # NONE /\ Moves(state, p, state'))
    BY <2>1, <2>2, MovesHaveMemory, ReducedMoves DEF n
  <2> QED BY <1>4, <2>3 DEF AnalysisDecides, p
<1>5. ASSUME CleanupLoopsBack
      PROVE  \/ /\ Role[state.phase] = "commit_cleanup"
                /\ OnLoopback[state.phase] # NONE
                /\ Moves(state, OnLoopback[state.phase], state')
             \/ Fails(state, state')
  <2> DEFINE n == handle_phase_loopback(state, rt_now)
             p == OnLoopback[state.phase]
  <2>1. Fails(state, n) \/ (p # NONE /\ Moves(state, p, n))
    BY <1>1, PhaseLoopbackMoves
  <2>2. Reduces(n)
    BY <1>5 DEF CleanupLoopsBack
  <2> HIDE DEF n, p
  <2>3. Fails(state, state') \/ (p # NONE /\ Moves(state, p, state'))
    BY <2>1, <2>2, MovesHaveMemory, ReducedMoves
  <2> QED BY <1>5, <2>3 DEF CleanupLoopsBack, p
<1>6. ASSUME AgentSkipsCommit \/ CommitSucceeds \/ CommitSkipped
      PROVE  Role[state.phase] = "commit" /\ Commits(state, state')
  <2>1. PICK skipped \in BOOLEAN : Reduces(handle_commit_outcome(state, skipped, rt_now))
    BY <1>6 DEF AgentSkipsCommit, CommitSucceeds, CommitSkipped,
                handle_commit_success, handle_commit_skipped
  <2>2. Commits(state, handle_commit_outcome(state, skipped, rt_now))
    BY <1>1, CommitDoneMoves
  <2>3. Commits(state, state')
    BY <2>1, <2>2, MovesHaveMemory, ReducedMoves
  <2> QED BY <1>6, <2>3
          DEF InFlight, AgentSkipsCommit, CommitSucceeds, CommitSkipped, CommitReturns
<1>7. ASSUME CommitResidual
      PROVE  Role[state.phase] = "commit" /\ Moves(state, state.phase, state')
  <2>1. Moves(state, state.phase, handle_commit_residual(state, rt_now))
    BY <1>1, ReducerAdvanceMoves DEF handle_commit_residual
  <2>2. Moves(state, state.phase, state')
    BY <1>7, <2>1, MovesHaveMemory, ReducedMoves DEF CommitResidual
  <2> QED BY <1>7, <2>2 DEF InFlight, CommitResidual, CommitReturns
<1>8. ASSUME CommitFails
      PROVE  \/ Fails(state, state')
             \/ /\ Role[state.phase] = "commit"
                /\ Retries(state, RetryPhase(state.phase), state')
  <2>1. PICK error \in ErrorKinds : Reduces(handle_commit_failure(state, error, rt_now))
    BY <1>8 DEF CommitFails
  <2> DEFINE n == handle_commit_failure(state, error, rt_now)
  <2>2. Fails(state, n) \/ Retries(state, RetryPhase(state.phase), n)
    BY <1>1, CommitFailureMoves
  <2> HIDE DEF n
  <2>3. Fails(state, state') \/ Retries(state, RetryPhase(state.phase), state')
    BY <2>1, <2>2, MovesHaveMemory, ReducedMoves DEF n
  <2> QED BY <1>8, <2>3 DEF InFlight, CommitFails, CommitReturns
<1>9. ASSUME CommitWithoutMessage
      PROVE  Fails(state, state')
  <2>1. Fails(state, handle_commit_failure(state, "other", rt_now))
    BY <1>1, CommitFailureMoves
  <2> QED BY <1>9, <2>1, MovesHaveMemory, ReducedMoves DEF CommitWithoutMessage
<1>10. ExecutionReports \/ AnalysisDecides \/ CleanupLoopsBack =>
         \/ /\ state.phase \in ReportsResult
            /\ \E status \in Statuses :
                 Moves(Reported(state, status), OnSuccess[state.phase], state')
         \/ /\ Role[state.phase] = "analysis"
            /\ \E d \in Decisions :
                 /\ Route[state.phase][d].target # NONE
                 /\ Moves(state, Route[state.phase][d].target, state')
         \/ /\ Role[state.phase] = "commit_cleanup"
            /\ OnLoopback[state.phase] # NONE
            /\ Moves(state, OnLoopback[state.phase], state')
         \/ Fails(state, state')
  BY <1>3, <1>4, <1>5
<1> QED BY <1>2, <1>6, <1>7, <1>8, <1>9, <1>10

\* Every result moves in one of the ways of Results.
LEMMA ResultsMove ==
  ASSUME IInv, InFlight, ResultArrives
  PROVE  Results(state, state')
BY ResultMoves DEF Results, ResultArrives

\* So are the failures of a step, after any expired deadline.
LEMMA FailureMoves ==
  ASSUME IInv, PhaseFails \/ StepCrashes \/ AgentFails
  PROVE  Failures(state, state')
<1>1. /\ HasMemory(state) /\ state.phase \in Phases /\ state.recovery_epoch \in Nat
  BY InvariantMeansSound, SoundHasMemory
<1>2. SameMemory(state, state)
  BY <1>1, OutsideMemory
<1>3. \A e : SameMemory(state, controller_retries(state, e))
  BY <1>1, OutsideMemory DEF controller_retries
<1>4. \A v \in Verdicts(state) : SameMemory(state, v) \/ Fails(state, v)
  <2>1. ASSUME NEW v \in Verdicts(state)
        PROVE  \/ \E e : v = controller_retries(state, e)
               \/ \E e, counted : v = controller_fails_phase(state, e, counted)
    BY SMTT(30), <2>1 DEF Verdicts
  <2> QED BY SMTT(30), <1>1, <1>3, <2>1, EnterFailedRecoveryFails
<1>5. \A v \in Verdicts(state) : \/ SameMemory(state, reduce_phase_failure(state, v))
                                 \/ Fails(state, reduce_phase_failure(state, v))
  <2>1. ASSUME NEW v, HasMemory(v)
        PROVE  SameMemory(v, reduce_phase_failure(state, v))
    <3>1. SameMemory(v, v)
      BY <2>1, OutsideMemory
    <3> QED BY <2>1, <3>1, ChargeOutside DEF reduce_phase_failure
  <2> QED BY <1>4, <2>1, MovesHaveMemory, SameMemoryTransitive, FailsOfSame
<1>6. \/ Fails(state, handle_chain_exhausted(state, rt_now))
      \/ /\ WorkflowFallback[state.phase] # NONE
         /\ Moves(state, WorkflowFallback[state.phase],
                  handle_chain_exhausted(state, rt_now))
  BY <1>1, ChainExhaustedMoves
<1>7. Fails(state, enter_failed_recovery(state, "other"))
  BY <1>1, EnterFailedRecoveryFails
<1>8. ASSUME NEW outcomes, \A v \in outcomes : Failures(state, v)
      PROVE  \A v \in AfterExpiry(outcomes) : Failures(state, v)
  BY <1>1, <1>8, RedirectMoves DEF AfterExpiry, Failures
<1>9. \E v : Reduces(v) /\ Failures(state, v)
  <2>1. CASE PhaseFails
    <3>1. \A v \in {reduce_phase_failure(state, u) : u \in Verdicts(state)} :
            Failures(state, v)
      BY <1>5 DEF Failures
    <3>2. \A v \in AfterExpiry({reduce_phase_failure(state, u) : u \in Verdicts(state)}) :
            Failures(state, v)
      BY <1>8, <3>1
    <3> QED BY <2>1, <3>2 DEF PhaseFails
  <2>2. CASE StepCrashes
    <3>1. \A v \in AfterExpiry(Verdicts(state)) : Failures(state, v)
      BY <1>4, <1>8 DEF Failures
    <3> QED BY <2>2, <3>1 DEF StepCrashes
  <2>3. CASE AgentFails
    <3> DEFINE outcomes == {state, controller_retries(state, "other"),
                            handle_chain_exhausted(state, rt_now),
                            enter_failed_recovery(state, "other")}
    <3>1. \A v \in outcomes : Failures(state, v)
      BY <1>2, <1>3, <1>6, <1>7 DEF Failures
    <3> HIDE DEF outcomes
    <3>2. \A v \in AfterExpiry(outcomes) : Failures(state, v)
      BY <1>8, <3>1
    <3> QED BY <2>3, <3>2 DEF AgentFails, outcomes
  <2> QED BY <2>1, <2>2, <2>3
<1>10. PICK v : Reduces(v) /\ Failures(state, v)
  BY <1>9
<1>11. HasMemory(v)
  BY <1>10, MovesHaveMemory DEF Failures, Redirects
<1> QED BY <1>10, <1>11, ReducedMoves DEF Failures, Redirects

\* Dispatching moves on from the phase that is prepared.
LEMMA DispatchMoves ==
  ASSUME IInv
  PROVE  /\ ReenterFailedPhase =>
              Reenters(prepared, recovery_target(prepared), state')
         /\ PlanMissingOnReentry \/ PlanMissing => MissesPlan(prepared, state')
         /\ AdvanceExhausted => Moves(prepared, OnSuccess[prepared.phase], state')
         /\ EmptyCommit =>
              \/ /\ Role[prepared.phase] = "commit_cleanup"
                 /\ Moves(prepared, OnSuccess[prepared.phase], state')
              \/ Role[prepared.phase] = "commit" /\ Commits(prepared, state')
         /\ NoAgentToInvoke \/ WorktreeUnreadable => Fails(prepared, state')
         /\ InvokeAgent \/ StartCommit => state' = prepared
<1>1. Sound(state) /\ Sound(prepared)
  BY InvariantMeansSound, PreparedSound
<1>2. /\ HasMemory(prepared) /\ prepared.phase \in Phases
      /\ prepared.recovery_epoch \in Nat
  BY <1>1, SoundHasMemory
<1>3. ReenterFailedPhase => Reenters(prepared, recovery_target(prepared), state')
  BY <1>1, ReenterMoves DEF ReenterFailedPhase
<1>4. PlanMissingOnReentry \/ PlanMissing => MissesPlan(prepared, state')
  BY <1>2, MissingPlanMoves DEF PlanMissingOnReentry, PlanMissing
<1>5. AdvanceExhausted => Moves(prepared, OnSuccess[prepared.phase], state')
  BY <1>2, ResolveMoves DEF AdvanceExhausted, handle_phase_advance
<1>6. EmptyCommit =>
        \/ /\ Role[prepared.phase] = "commit_cleanup"
           /\ Moves(prepared, OnSuccess[prepared.phase], state')
        \/ Role[prepared.phase] = "commit" /\ Commits(prepared, state')
  <2>1. ASSUME Role[prepared.phase] = "commit_cleanup", NEW rt
        PROVE  Moves(prepared, OnSuccess[prepared.phase], handle_agent_success(prepared, rt))
    BY <1>2, <2>1, AgentSuccessMoves
  <2>2. \A rt : Commits(prepared, handle_commit_success(prepared, rt))
    BY <1>1, CommitDoneMoves DEF handle_commit_success
  <2> QED BY <2>1, <2>2 DEF EmptyCommit
<1>7. NoAgentToInvoke \/ WorktreeUnreadable => Fails(prepared, state')
  BY <1>2, EnterFailedRecoveryFails DEF NoAgentToInvoke, WorktreeUnreadable
<1>8. InvokeAgent \/ StartCommit => state' = prepared
  BY DEF InvokeAgent, StartCommit, Starts
<1> QED BY <1>3, <1>4, <1>5, <1>6, <1>7, <1>8

\* A clock that ticks writes outside the memory.
LEMMA TickMoves ==
  ASSUME IInv, Tick
  PROVE  SameMemory(state, state') /\ step'.effect = step.effect
<1>1. HasMemory(state) /\ step \in Steps
  BY InvariantMeansSound, SoundHasMemory DEF TypeOK
<1>2. SameMemory(state, state')
  BY <1>1 DEF Tick, SameMemory, SameHead, HasMemory, Memory
<1>3. step'.effect = step.effect
  BY <1>1 DEF Tick, Steps
<1> QED BY <1>2, <1>3

(***************************************************************************)
(* The kinds of step: something that writes outside the memory, a result   *)
(* or a failure of what is in flight, or a dispatch from the prepared      *)
(* phase.                                                                  *)
(***************************************************************************)
Dispatches(s, n) ==
  \/ s.phase = failed_route /\ Reenters(s, recovery_target(s), n)
  \/ /\ s.phase = failed_route
     /\ requires_plan(s, recovery_target(s))
     /\ MissesPlan(s, n)
  \/ /\ s.phase \notin TerminalStates
     /\ \/ requires_plan(s, s.phase) /\ MissesPlan(s, n)
        \/ /\ Role[s.phase] \in {"analysis", "commit_cleanup"}
           /\ Moves(s, OnSuccess[s.phase], n)
        \/ Role[s.phase] = "commit" /\ Commits(s, n)
        \/ Fails(s, n)
        \/ n = s

LEMMA DispatchKinds ==
  ASSUME IInv,
         \/ ReenterFailedPhase \/ PlanMissingOnReentry
         \/ AdvanceExhausted \/ EmptyCommit
         \/ NoAgentToInvoke \/ WorktreeUnreadable
         \/ InvokeAgent \/ PlanMissing \/ StartCommit
  PROVE  Dispatching /\ Dispatches(prepared, state')
<1>1. prepared.phase \in Phases
  BY InvariantMeansSound, PreparedSound, SoundHasMemory
<1>2. Role[prepared.phase] \in {"execution", "analysis", "commit_cleanup", "commit"}
        => prepared.phase \notin TerminalStates
  BY DEF TerminalStates
<1>3. CASE ReenterFailedPhase
  BY <1>3, DispatchMoves DEF ReenterFailedPhase, Dispatches
<1>4. CASE PlanMissingOnReentry
  BY <1>4, DispatchMoves DEF PlanMissingOnReentry, Dispatches
<1>5. CASE AdvanceExhausted
  BY <1>2, <1>5, DispatchMoves DEF AdvanceExhausted, exhausted_analysis, Dispatches
<1>6. CASE EmptyCommit
  <2>1. Dispatching
    BY <1>6 DEF EmptyCommit
  <2> QED BY <1>2, <1>6, <2>1, DispatchMoves DEF Dispatches
<1>7. ASSUME needs_agent(prepared)
      PROVE  prepared.phase \notin TerminalStates
  BY <1>2, <1>7 DEF needs_agent
<1>8. CASE NoAgentToInvoke
  BY <1>7, <1>8, DispatchMoves DEF NoAgentToInvoke, Dispatches
<1>9. CASE WorktreeUnreadable
  BY <1>2, <1>9, DispatchMoves DEF WorktreeUnreadable, Dispatches
<1>10. CASE InvokeAgent
  BY <1>7, <1>10, DispatchMoves DEF InvokeAgent, Dispatches
<1>11. CASE PlanMissing
  BY <1>7, <1>11, DispatchMoves DEF PlanMissing, Dispatches
<1>12. CASE StartCommit
  BY <1>2, <1>12, DispatchMoves DEF StartCommit, Dispatches
<1> QED BY <1>3, <1>4, <1>5, <1>6, <1>8, <1>9, <1>10, <1>11, <1>12

LEMMA StepKinds ==
  ASSUME IInv, InFlight, [Next]_vars
  PROVE  \/ SameMemory(state, state')
         \/ /\ state.phase \notin TerminalStates
            /\ Results(state, state') \/ Failures(state, state')
         \/ Dispatching /\ Dispatches(prepared, state')
<1>1. SameMemory(state, state)
  BY InvariantMeansSound, SoundHasMemory, OutsideMemory
<1>2. CASE UNCHANGED vars
  BY <1>1, <1>2 DEF vars
<1>3. CASE Tick
  BY <1>3, TickMoves
<1>4. CASE Finishes \/ StopsAtFailedRoute \/ LedgerStops
  BY <1>1, <1>4 DEF Finishes, StopsAtFailedRoute, LedgerStops, Leave
<1>5. CASE ResultArrives
  <2>1. state.phase \notin TerminalStates
    BY <1>5 DEF ResultArrives, InFlight, AgentSucceeds, ExecutionReports,
      AnalysisDecides, CleanupLoopsBack, AgentSkipsCommit, CommitSucceeds,
      CommitSkipped, CommitResidual, CommitFails, CommitWithoutMessage,
      AgentReturns, CommitReturns, NONE
  <2> QED BY <1>5, <2>1, ResultsMove
<1>6. CASE PhaseFails \/ StepCrashes \/ AgentFails
  <2>1. state.phase \notin TerminalStates
    BY <1>6 DEF InFlight, PhaseFails, StepCrashes, AgentFails, AgentReturns,
      CommitReturns, NONE
  <2> QED BY <1>6, <2>1, FailureMoves
<1>7. CASE \/ ReenterFailedPhase \/ PlanMissingOnReentry
           \/ AdvanceExhausted \/ EmptyCommit
           \/ NoAgentToInvoke \/ WorktreeUnreadable
           \/ InvokeAgent \/ PlanMissing \/ StartCommit
  BY <1>7, DispatchKinds
<1> QED BY <1>2, <1>3, <1>4, <1>5, <1>6, <1>7
  DEF Next, Proceed, Ended, ResultArrives

\* What is in flight goes on fitting the phase.
LEMMA InFlightKept ==
  ASSUME IInv, InFlight, [Next]_vars
  PROVE  InFlight'
<1>1. ASSUME step'.effect = NONE
      PROVE  InFlight'
  BY <1>1 DEF InFlight, NONE
<1>2. CASE UNCHANGED vars
  BY <1>2 DEF vars, InFlight
<1>3. CASE Tick
  BY <1>3, TickMoves DEF SameMemory, SameHead, InFlight
<1>4. CASE Finishes \/ StopsAtFailedRoute \/ LedgerStops
  BY <1>4 DEF Finishes, StopsAtFailedRoute, LedgerStops, Leave, InFlight
<1>5. CASE ResultArrives \/ PhaseFails \/ StepCrashes \/ AgentFails
  <2>1. step' = Idle
    BY <1>5 DEF ResultArrives, AgentSucceeds, ExecutionReports,
      AnalysisDecides, CleanupLoopsBack, AgentSkipsCommit, CommitSucceeds,
      CommitSkipped, CommitResidual, CommitFails, CommitWithoutMessage,
      PhaseFails, StepCrashes, AgentFails, Reduces
  <2> QED BY <1>1, <2>1 DEF Idle
<1>6. CASE \/ ReenterFailedPhase \/ PlanMissingOnReentry
           \/ AdvanceExhausted \/ EmptyCommit
           \/ NoAgentToInvoke \/ WorktreeUnreadable \/ PlanMissing
  <2>1. step' = Idle
    BY <1>6 DEF ReenterFailedPhase, PlanMissingOnReentry, AdvanceExhausted,
      EmptyCommit, NoAgentToInvoke, WorktreeUnreadable, PlanMissing,
      Dispatching, AtLoopHead
  <2> QED BY <1>1, <2>1 DEF Idle
<1>7. CASE InvokeAgent
  <2>1. /\ state' = prepared /\ step'.effect = "agent" /\ needs_agent(prepared)
    BY <1>7 DEF InvokeAgent, Starts
  <2>2. state'.phase \notin TerminalStates
    BY <2>1 DEF needs_agent, TerminalStates
  <2>3. Role[state'.phase] = "commit" => ~state'.agent_invoked
    BY <2>1 DEF needs_agent
  <2> QED BY <2>1, <2>2, <2>3 DEF InFlight
<1>8. CASE StartCommit
  <2>1. /\ state' = prepared /\ step'.effect = "commit"
        /\ Role[prepared.phase] = "commit" /\ prepared.agent_invoked
    BY <1>8 DEF StartCommit, Starts
  <2> QED BY <2>1 DEF InFlight, TerminalStates
<1> QED BY <1>2, <1>3, <1>4, <1>5, <1>6, <1>7, <1>8
  DEF Next, Proceed, Ended, ResultArrives

-----------------------------------------------------------------------------
(***************************************************************************)
(* What the properties of recovery need of the moves.                      *)
(***************************************************************************)
\* The run goes on to another phase, or enters its phase anew.
Goes(s, n) ==
  /\ n.phase \in Phases
  /\ n.previous_phase = s.phase
  /\ \/ /\ n.recovery_epoch = 0
        /\ Role[n.phase] = "commit" => n.agent_invoked = FALSE
     \/ /\ Role[s.phase] = "commit_cleanup"
        /\ Role[n.phase] \in {"commit", "commit_cleanup"}
        /\ n.recovery_epoch = s.recovery_epoch

\* The run stays in its phase.
Stays(s, n) ==
  /\ n.phase = s.phase
  /\ n.previous_phase = s.previous_phase
  /\ n.recovery_epoch = s.recovery_epoch

LEMMA MovesGo ==
  ASSUME NEW s, NEW n
  PROVE  /\ \A p : Moves(s, p, n) => Goes(s, n)
         /\ \A t, p : SameHead(s, t) /\ Moves(t, p, n) => Goes(s, n)
<1>1. ASSUME NEW t, NEW p, Moves(t, p, n)
      PROVE  Goes(t, n)
  <2>1. n.phase \in Phases
    BY <1>1, Landing DEF Moves
  <2>2. \/ /\ n.recovery_epoch = 0
           /\ Role[n.phase] = "commit" => n.agent_invoked = FALSE
        \/ /\ Role[t.phase] = "commit_cleanup"
           /\ Role[n.phase] \in {"commit", "commit_cleanup"}
           /\ n.recovery_epoch = t.recovery_epoch
    BY <1>1 DEF Moves
  <2> QED BY <1>1, <2>1, <2>2 DEF Goes, Moves
<1>2. ASSUME NEW t, NEW p, SameHead(s, t), Moves(t, p, n)
      PROVE  Goes(s, n)
  <2>1. Goes(t, n)
    BY <1>1, <1>2
  <2> QED BY <1>2, <2>1 DEF Goes, SameHead
<1> QED BY <1>1, <1>2

LEMMA CommitsGo ==
  ASSUME NEW s, HasMemory(s), NEW n, Commits(s, n)
  PROVE  Goes(s, n)
<1>1. PICK c, b, p :
        /\ \E skipped \in BOOLEAN : c = apply_commit_outcome(s, skipped)
        /\ SameHead(c, b)
        /\ Moves(b, p, n)
  BY DEF Commits
<1>2. b.phase = s.phase /\ b.recovery_epoch = s.recovery_epoch
  BY SMTT(30), <1>1, CountedCommit DEF SameHead
<1> QED BY ZenonT(40), <1>1, <1>2, MovesGo DEF Goes

\* How a step ends.
LEMMA StepsEnd ==
  ASSUME NEW s, HasMemory(s), s.phase \in Phases, s.recovery_epoch \in Nat, NEW n,
         Results(s, n) \/ Failures(s, n)
  PROVE  \/ Stays(s, n)
         \/ Goes(s, n)
         \/ Role[s.phase] = "commit" /\ Retries(s, RetryPhase(s.phase), n)
         \/ Fails(s, n)
<1>1. CASE Readies(s, n)
  BY <1>1 DEF Readies, SameMemory, SameHead, HasMemory, Memory, Stays
<1>2. CASE SameMemory(s, n)
  BY <1>2 DEF SameMemory, SameHead, Stays
<1>3. CASE Redirects(s, n)
  BY <1>3, MovesGo DEF Redirects
<1>4. CASE Commits(s, n)
  BY <1>4, CommitsGo
<1>5. ASSUME NEW status \in Statuses, Moves(Reported(s, status), OnSuccess[s.phase], n)
      PROVE  Goes(s, n)
  <2>1. SameHead(s, Reported(s, status))
    BY ExecutionResultMoves
  <2> QED BY <1>5, <2>1, MovesGo
<1>6. CASE \E p : Moves(s, p, n)
  BY <1>6, MovesGo
<1> QED BY <1>1, <1>2, <1>3, <1>4, <1>5, <1>6 DEF Results, Failures

LEMMA PreparedGoes ==
  ASSUME IInv
  PROVE  \/ prepared = state
         \/ Redirects(state, prepared) /\ Goes(state, prepared)
BY InvariantMeansSound, PreparedMoves, MovesGo DEF Redirects

LEMMA DispatchesGo ==
  ASSUME NEW s, HasMemory(s), s.phase \in Phases, NEW n, Dispatches(s, n)
  PROVE  \/ s.phase = failed_route /\ Reenters(s, recovery_target(s), n)
         \/ s.phase = failed_route /\ MissesPlan(s, n)
         \/ /\ s.phase \notin TerminalStates
            /\ MissesPlan(s, n) \/ Goes(s, n) \/ Fails(s, n) \/ n = s
<1>1. Commits(s, n) => Goes(s, n)
  BY CommitsGo
<1>2. Moves(s, OnSuccess[s.phase], n) => Goes(s, n)
  BY MovesGo
<1> QED BY <1>1, <1>2 DEF Dispatches

-----------------------------------------------------------------------------
(***************************************************************************)
(* The failed route remembers the phase that failed.                       *)
(***************************************************************************)
\* The last failure the run can still recover from is remembered.
Remembers(s) ==
  s.phase = failed_route /\ s.recovery_epoch < MAX_RECOVERY_EPOCHS
    => s.previous_phase \in Phases \ TerminalStates

RememberInv == IInv /\ InFlight /\ Remembers(state)

LEMMA RememberStep ==
  ASSUME RecoverableShape, RememberInv, [Next]_vars
  PROVE  RememberInv'
<1> USE DEF RememberInv
<1>1. IInv' /\ InFlight'
  BY NextIInv, InFlightKept
<1>2. /\ HasMemory(state) /\ state.phase \in Phases /\ state.recovery_epoch \in Nat
      /\ HasMemory(prepared) /\ prepared.phase \in Phases
      /\ prepared.recovery_epoch \in Nat
  BY InvariantMeansSound, PreparedSound, SoundHasMemory
<1>3. Role[failed_route] = "terminal"
  BY FailedRouteIsTerminal
<1>4. ASSUME NEW s, s.phase \in Phases \ TerminalStates, NEW n,
             \/ Goes(s, n) \/ Fails(s, n) \/ MissesPlan(s, n)
             \/ Stays(s, n)
             \/ Role[s.phase] = "commit" /\ Retries(s, RetryPhase(s.phase), n)
      PROVE  Remembers(n)
  <2>1. \/ n.previous_phase = s.phase
        \/ n.phase = s.phase
    BY <1>4 DEF Goes, Fails, MissesPlan, Stays, Retries
  <2> QED BY <1>3, <1>4, <2>1 DEF Remembers, TerminalStates
<1>5. CASE SameMemory(state, state')
  BY <1>1, <1>5 DEF SameMemory, SameHead, Remembers
<1>6. CASE /\ state.phase \notin TerminalStates
           /\ Results(state, state') \/ Failures(state, state')
  BY <1>1, <1>2, <1>4, <1>6, StepsEnd
<1>7. CASE Dispatching /\ Dispatches(prepared, state')
  <2>1. Remembers(prepared)
    <3>1. CASE prepared = state
      BY <3>1
    <3>2. CASE Redirects(state, prepared) /\ Goes(state, prepared)
      BY <1>2, <3>2 DEF Redirects, Goes, RecoverableShape, Remembers
    <3> QED BY <3>1, <3>2, PreparedGoes
  <2>2. prepared.phase = failed_route => prepared.recovery_epoch < MAX_RECOVERY_EPOCHS
    <3>1. CASE prepared = state
      BY SMTT(30), <1>2, <1>3, <1>7, <3>1 DEF Dispatching, Continues, recovery_exhausted,
        TerminalStates, MAX_RECOVERY_EPOCHS
    <3>2. CASE Goes(state, prepared)
      BY SMTT(30), <1>3, <3>2 DEF Goes, MAX_RECOVERY_EPOCHS
    <3> QED BY <3>1, <3>2, PreparedGoes
  <2>3. CASE prepared.phase = failed_route /\ Reenters(prepared, recovery_target(prepared), state')
    BY <1>1, <2>1, <2>2, <2>3 DEF Reenters, Remembers
  <2>4. CASE prepared.phase = failed_route /\ MissesPlan(prepared, state')
    <3>1. CASE prepared.recovery_epoch >= cycle_cap
      <4>1. state'.recovery_epoch = prepared.recovery_epoch + 1
        BY <2>4 DEF MissesPlan
      <4>2. ~(state'.recovery_epoch < MAX_RECOVERY_EPOCHS)
        BY SMTT(30), <1>2, <3>1, <4>1, BudgetAssumption DEF RecoverableShape, MAX_RECOVERY_EPOCHS
      <4> QED BY <1>1, <4>2 DEF Remembers
    <3>2. CASE ~(prepared.recovery_epoch >= cycle_cap)
      BY <1>1, <1>3, <2>4, <3>2, NamesAssumption DEF MissesPlan, Remembers,
        RecoverableShape, TerminalStates
    <3> QED BY <3>1, <3>2
  <2>5. CASE /\ prepared.phase \notin TerminalStates
             /\ \/ MissesPlan(prepared, state') \/ Goes(prepared, state')
                \/ Fails(prepared, state')
    BY <1>1, <1>2, <1>4, <2>5
  <2>6. CASE state' = prepared
    BY <1>1, <2>1, <2>6
  <2> QED BY <1>2, <1>7, <2>3, <2>4, <2>5, <2>6, DispatchesGo
<1> QED BY <1>5, <1>6, <1>7, StepKinds

\* A run does not start in the failed route.
LEMMA RememberInit ==
  ASSUME RecoverableShape, Init
  PROVE  RememberInv
<1>1. state.phase = entry_phase /\ step.effect = NONE
  BY DEF Init, InitialState, Idle
<1>2. entry_phase # failed_route
  BY FailedRouteIsTerminal DEF RecoverableShape, TerminalStates
<1> QED BY InitIInv, <1>1, <1>2 DEF RememberInv, InFlight, Remembers, NONE

\* While the run loop goes on from the failed route, it knows the phase that
\* failed, and that phase is no terminal (_recovery_prepare_effect): for
\* every policy whose entry and guarded phases are no terminals and whose
\* cycle_cap is at least 2.
THEOREM FailedRouteRemembered ==
  ASSUME RecoverableShape
  PROVE  Spec => []FailedRouteRemembersPhase
<1>1. Init => RememberInv
  BY RememberInit
<1>2. RememberInv /\ [Next]_vars => RememberInv'
  BY RememberStep
<1>3. RememberInv => FailedRouteRemembersPhase
  <2> SUFFICES ASSUME RememberInv, state.phase = failed_route, Continues(state)
               PROVE  state.previous_phase \in Phases \ TerminalStates
    BY DEF FailedRouteRemembersPhase
  <2>1. state.recovery_epoch \in Nat /\ state.phase \in TerminalStates
    BY InvariantMeansSound, SoundHasMemory, FailedRouteIsTerminal DEF RememberInv, TerminalStates
  <2> QED BY SMTT(30), <2>1 DEF RememberInv, Remembers, Continues, recovery_exhausted, MAX_RECOVERY_EPOCHS
<1> QED BY <1>1, <1>2, <1>3, PTL DEF Spec

\* Dispatching from the failed route, the phase that failed is known.
LEMMA PreparedRemembers ==
  ASSUME RecoverableShape, IInv, Remembers(state), Dispatching,
         prepared.phase = failed_route
  PROVE  prepared.previous_phase \in Phases \ TerminalStates
<1>1. state.phase \in Phases /\ state.recovery_epoch \in Nat /\ Role[failed_route] = "terminal"
  BY InvariantMeansSound, SoundHasMemory, FailedRouteIsTerminal
<1>2. CASE prepared = state
  <2>1. state.recovery_epoch < MAX_RECOVERY_EPOCHS
    BY SMTT(30), <1>1, <1>2 DEF Dispatching, Continues, recovery_exhausted,
      TerminalStates, MAX_RECOVERY_EPOCHS
  <2> QED BY <1>2, <2>1 DEF Remembers
<1>3. CASE Redirects(state, prepared) /\ Goes(state, prepared)
  BY <1>1, <1>3 DEF Redirects, Goes, RecoverableShape
<1> QED BY <1>2, <1>3, PreparedGoes

-----------------------------------------------------------------------------
(***************************************************************************)
(* Failures in a row are counted to an end.                                *)
(***************************************************************************)
EpochBound(p) == IF p = failed_route THEN failures_in_a_row + 1 ELSE failures_in_a_row

EpochInv == IInv /\ InFlight /\ state.recovery_epoch <= EpochBound(state.phase)

LEMMA EpochStep ==
  ASSUME EpochInv, [Next]_vars
  PROVE  EpochInv'
<1> USE DEF EpochInv
<1> DEFINE Low(s) == s.recovery_epoch \in Nat /\ s.recovery_epoch <= failures_in_a_row
<1>1. IInv' /\ InFlight'
  BY NextIInv, InFlightKept
<1>2. /\ HasMemory(state) /\ state.phase \in Phases /\ state.recovery_epoch \in Nat
      /\ HasMemory(prepared) /\ prepared.phase \in Phases
      /\ prepared.recovery_epoch \in Nat
  BY InvariantMeansSound, PreparedSound, SoundHasMemory
<1>3. Role[failed_route] = "terminal" /\ failed_route \in TerminalStates
  BY FailedRouteIsTerminal, NamesAssumption DEF TerminalStates
<1>4. /\ failures_in_a_row \in Nat
      /\ cycle_cap \in Nat /\ cycle_cap <= failures_in_a_row
      /\ MAX_RECOVERY_EPOCHS <= failures_in_a_row
      /\ MAX_COMMIT_RECOVERY_ATTEMPTS <= failures_in_a_row
  BY SMTT(30), BudgetAssumption DEF failures_in_a_row, MAX_RECOVERY_EPOCHS,
    MAX_COMMIT_RECOVERY_ATTEMPTS
<1>5. \A s : Low(s) => s.recovery_epoch <= EpochBound(s.phase)
  BY SMTT(30), <1>4 DEF EpochBound
<1>6. state.phase \notin TerminalStates => Low(state)
  BY <1>2, <1>3 DEF EpochBound
<1>7. ASSUME NEW s, Role[s.phase] = "commit_cleanup" => Low(s), NEW n, Goes(s, n)
      PROVE  Low(n)
  BY SMTT(30), <1>4, <1>7 DEF Goes
<1>8. ASSUME NEW s, Low(s), NEW n, Fails(s, n)
      PROVE  n.recovery_epoch <= EpochBound(n.phase)
  BY SMTT(30), <1>4, <1>8 DEF Fails, EpochBound
<1>9. ASSUME NEW s, NEW n, Retries(s, RetryPhase(s.phase), n)
      PROVE  Low(n)
  BY SMTT(30), <1>4, <1>9 DEF Retries, MAX_COMMIT_RECOVERY_ATTEMPTS
<1>10. ASSUME NEW s, Low(s), NEW n, MissesPlan(s, n)
       PROVE  n.recovery_epoch <= EpochBound(n.phase)
  <2>1. n.recovery_epoch = s.recovery_epoch + 1
    BY <1>10 DEF MissesPlan
  <2>2. CASE s.recovery_epoch >= cycle_cap
    <3>1. n.phase = failed_route
      BY <1>10, <2>2 DEF MissesPlan
    <3> QED BY SMTT(30), <1>4, <1>10, <2>1, <3>1 DEF EpochBound
  <2>3. CASE ~(s.recovery_epoch >= cycle_cap)
    <3>1. Low(n)
      BY SMTT(30), <1>4, <1>10, <2>1, <2>3
    <3> QED BY <1>5, <3>1
  <2> QED BY <2>2, <2>3
<1> HIDE DEF Low
<1>11. CASE SameMemory(state, state')
  BY <1>1, <1>11 DEF SameMemory, SameHead
<1>12. CASE /\ state.phase \notin TerminalStates
            /\ Results(state, state') \/ Failures(state, state')
  <2>1. CASE Stays(state, state')
    BY <1>1, <2>1 DEF Stays
  <2> QED BY ZenonT(30), <1>1, <1>2, <1>5, <1>6, <1>7, <1>8, <1>9, <1>12, <2>1, StepsEnd
<1>13. CASE Dispatching /\ Dispatches(prepared, state')
  <2>3. Low(prepared)
    <3>1. CASE prepared = state
      <4>1. CASE prepared.phase \notin TerminalStates
        BY <1>6, <3>1, <4>1
      <4>2. CASE prepared.phase = failed_route
        <5>1. ~(prepared.recovery_epoch >= MAX_RECOVERY_EPOCHS)
          BY <1>3, <1>13, <3>1, <4>2 DEF Dispatching, Continues, recovery_exhausted
        <5> QED BY SMTT(30), <1>2, <1>4, <5>1 DEF Low, MAX_RECOVERY_EPOCHS
      <4> QED BY <1>13, <3>1, <4>1, <4>2 DEF Dispatching, Continues
    <3>2. CASE Goes(state, prepared)
      <4>1. Role[state.phase] = "commit_cleanup" => Low(state)
        BY <1>6 DEF TerminalStates
      <4> QED BY <1>7, <3>2, <4>1
    <3> QED BY <3>1, <3>2, PreparedGoes
  <2>4. CASE \/ Reenters(prepared, recovery_target(prepared), state')
             \/ state' = prepared
    <3>1. Low(state')
      BY <2>3, <2>4 DEF Reenters, Low
    <3> QED BY <1>1, <1>5, <3>1
  <2> QED BY <1>1, <1>2, <1>5, <1>7, <1>8, <1>10, <1>13, <2>3, <2>4, DispatchesGo
<1> QED BY <1>11, <1>12, <1>13, StepKinds

\* recovery_epoch stays bounded for every policy: missing plans are counted
\* against cycle_cap (recover_missing_plan_handoff), everything else ends at
\* the failed route, which the loop leaves only below MAX_RECOVERY_EPOCHS.
THEOREM RecoveryEpochBounded == Spec => []RecoveryEpochIsBounded
<1>1. Init => EpochInv
  <2> SUFFICES ASSUME Init PROVE EpochInv
    OBVIOUS
  <2>1. state.recovery_epoch = 0 /\ step.effect = NONE
    BY DEF Init, InitialState, Idle
  <2>2. failures_in_a_row \in Nat
    BY BudgetAssumption DEF failures_in_a_row, MAX_RECOVERY_EPOCHS
  <2> QED BY SMTT(30), InitIInv, <2>1, <2>2 DEF EpochInv, InFlight, EpochBound, NONE
<1>2. EpochInv /\ [Next]_vars => EpochInv'
  BY EpochStep
<1>3. EpochInv => RecoveryEpochIsBounded
  <2> SUFFICES ASSUME EpochInv PROVE RecoveryEpochIsBounded
    OBVIOUS
  <2>1. state.recovery_epoch \in Nat
    BY InvariantMeansSound, SoundHasMemory DEF EpochInv
  <2>2. failures_in_a_row \in Nat
    BY BudgetAssumption DEF failures_in_a_row, MAX_RECOVERY_EPOCHS
  <2> QED BY SMTT(30), <2>1, <2>2 DEF EpochInv, EpochBound, RecoveryEpochIsBounded
<1> QED BY <1>1, <1>2, <1>3, PTL DEF Spec

-----------------------------------------------------------------------------
(***************************************************************************)
(* A commit has its message.                                               *)
(***************************************************************************)
\* Whoever is in a commit phase has no message prepared.
Forgets(n) == Role[n.phase] = "commit" => ~n.agent_invoked

MessageInv ==
  /\ IInv
  /\ InFlight
  /\ Role[state.phase] = "commit" /\ state.agent_invoked => message_file

LEMMA MessageStep ==
  ASSUME NoCleanupShape, MessageInv, [Next]_vars
  PROVE  MessageInv'
<1> USE DEF MessageInv
<1>1. IInv' /\ InFlight'
  BY NextIInv, InFlightKept
<1>2. /\ HasMemory(state) /\ state.phase \in Phases /\ state.recovery_epoch \in Nat
      /\ HasMemory(prepared) /\ prepared.phase \in Phases
  BY InvariantMeansSound, PreparedSound, SoundHasMemory
<1>3. ASSUME NEW s, s.phase \in Phases, NEW n, Goes(s, n)
      PROVE  Forgets(n)
  BY <1>3 DEF Goes, NoCleanupShape, Forgets
<1>4. ASSUME NEW s, NEW n,
             \/ Fails(s, n) \/ MissesPlan(s, n)
             \/ \E p : Reenters(s, p, n)
      PROVE  Forgets(n)
  <2>1. CASE Fails(s, n)
    BY <2>1, FailedRouteIsTerminal DEF Fails, Forgets
  <2>2. CASE MissesPlan(s, n)
    BY <2>2 DEF MissesPlan, Forgets
  <2>3. CASE \E p : Reenters(s, p, n)
    BY <2>3 DEF Reenters, Forgets
  <2> QED BY <1>4, <2>1, <2>2, <2>3
<1>5. ASSUME \/ Forgets(state')
             \/ message_file'
             \/ SameMemory(state, state') /\ message_file' = message_file
      PROVE  MessageInv'
  BY <1>1, <1>5 DEF Forgets, SameMemory, SameHead
<1>6. \/ Forgets(prepared)
      \/ prepared = state
  BY <1>2, <1>3, PreparedGoes
<1>7. SameMemory(state, state)
  BY <1>2, OutsideMemory
<1>8. CASE UNCHANGED vars
  BY <1>5, <1>7, <1>8 DEF vars
<1>9. CASE Tick
  <2>1. message_file' = message_file
    BY <1>9 DEF Tick
  <2> QED BY <1>5, <1>9, <2>1, TickMoves
<1>10. CASE Finishes \/ StopsAtFailedRoute \/ LedgerStops
  BY <1>5, <1>7, <1>10 DEF Finishes, StopsAtFailedRoute, LedgerStops, Leave
<1>11. CASE AgentSucceeds
  <2>1. CASE Readies(state, state')
    BY <1>5, <1>11, <2>1 DEF Readies, AgentSucceeds
  <2>2. CASE Moves(state, OnSuccess[state.phase], state')
    BY <1>2, <1>3, <1>5, <2>2, MovesGo
  <2> QED BY <1>11, <2>1, <2>2, ResultMoves
<1>12. CASE ExecutionReports \/ AnalysisDecides \/ CleanupLoopsBack
  <2>1. ASSUME NEW status \in Statuses,
               Moves(Reported(state, status), OnSuccess[state.phase], state')
        PROVE  Goes(state, state')
    <3>1. SameHead(state, Reported(state, status))
      BY <1>2, ExecutionResultMoves
    <3> QED BY <2>1, <3>1, MovesGo
  <2>2. Goes(state, state') \/ Fails(state, state')
    BY <1>12, <2>1, ResultMoves, MovesGo
  <2> QED BY <1>2, <1>3, <1>4, <1>5, <2>2
<1>13. CASE AgentSkipsCommit \/ CommitSucceeds \/ CommitSkipped \/ CommitResidual
  BY <1>2, <1>3, <1>5, <1>13, ResultMoves, CommitsGo, MovesGo
<1>14. CASE CommitFails
  BY <1>5, <1>14 DEF CommitFails
<1>15. CASE CommitWithoutMessage
  BY <1>4, <1>5, <1>15, ResultMoves
<1>16. CASE PhaseFails \/ StepCrashes \/ AgentFails
  <2>1. message_file' = message_file
    BY <1>16 DEF PhaseFails, StepCrashes, AgentFails
  <2>2. SameMemory(state, state') \/ Goes(state, state') \/ Fails(state, state')
    BY <1>16, FailureMoves, MovesGo DEF Failures, Redirects
  <2> QED BY <1>2, <1>3, <1>4, <1>5, <2>1, <2>2
<1>17. CASE InvokeAgent
  BY <1>5, <1>17 DEF InvokeAgent, Starts, needs_agent, Forgets
<1>18. CASE StartCommit
  BY <1>5, <1>6, <1>7, <1>18 DEF StartCommit, Starts
<1>19. CASE \/ ReenterFailedPhase \/ PlanMissingOnReentry
            \/ AdvanceExhausted \/ EmptyCommit
            \/ NoAgentToInvoke \/ WorktreeUnreadable \/ PlanMissing
  <2>1. \/ Goes(prepared, state') \/ Fails(prepared, state')
        \/ MissesPlan(prepared, state') \/ \E p : Reenters(prepared, p, state')
    BY <1>2, <1>19, DispatchMoves, MovesGo, CommitsGo
  <2> QED BY <1>2, <1>3, <1>4, <1>5, <2>1
<1> QED BY ZenonT(30), <1>8, <1>9, <1>10, <1>11, <1>12, <1>13, <1>14, <1>15, <1>16,
  <1>17, <1>18, <1>19 DEF Next, Proceed, Ended

\* A git commit runs only with the message that was prepared for it
\* (_handle_commit_failure retries it with the message it has): for every
\* policy without a cleanup phase to carry an old message along.
THEOREM CommitMessageReady ==
  ASSUME NoCleanupShape
  PROVE  Spec => []CommitHasMessage
<1>1. Init => MessageInv
  <2> SUFFICES ASSUME Init PROVE MessageInv
    OBVIOUS
  <2>1. state.agent_invoked = FALSE /\ step.effect = NONE
    BY DEF Init, InitialState, Idle
  <2> QED BY InitIInv, <2>1 DEF MessageInv, InFlight, NONE
<1>2. MessageInv /\ [Next]_vars => MessageInv'
  BY MessageStep
<1>3. MessageInv => CommitHasMessage
  BY DEF MessageInv, InFlight, CommitHasMessage
<1> QED BY <1>1, <1>2, <1>3, PTL DEF Spec

\* An advance aimed into a closed set of phases lands in it.
LEMMA LandsInside ==
  ASSUME NEW W, W \subseteq Phases, Closed(W), NEW p \in W, NEW q \in LandsAt(p)
  PROVE  q \in W
BY DEF LandsAt

-----------------------------------------------------------------------------
(***************************************************************************)
(* The pending route is for its commit.                                    *)
(***************************************************************************)
LEMMA MovesOnWay ==
  ASSUME NEW W, OverrideWay(W), NEW s, NEW p, NEW n,
         Moves(s, p, n) \/ Retries(s, p, n) \/ Reenters(s, p, n),
         s.post_commit_phase_override # NONE => p \in W
  PROVE  OnItsWay(W, n)
<1>1. n.phase \in LandsAt(p) /\ RouteKept(s, n, n.phase)
  BY DEF Moves, Retries, Reenters
<1>2. CASE n.post_commit_phase_override = s.post_commit_phase_override
  BY <1>1, <1>2, LandsInside DEF OnItsWay, OverrideWay
<1>3. CASE /\ HasDevelopmentTimebox
           /\ n.phase \in LandsAt(development_timebox.finalization_target)
  BY <1>3, LandsInside DEF OnItsWay, OverrideWay
<1> QED BY <1>1, <1>2, <1>3 DEF RouteKept

LEMMA FailsOnWay ==
  ASSUME NEW W, NEW s, NEW n, Fails(s, n),
         s.post_commit_phase_override # NONE => s.phase \in W
  PROVE  OnItsWay(W, n)
BY DEF Fails, OnItsWay

LEMMA CommitsOnWay ==
  ASSUME NEW W, OverrideWay(W), NEW s, NEW n, Commits(s, n)
  PROVE  OnItsWay(W, n)
<1>1. PICK b, p : b.post_commit_phase_override = NONE /\ Moves(b, p, n)
  BY DEF Commits
<1> QED BY <1>1, MovesOnWay

\* Results and failures of what runs on the way, or off it.
LEMMA StepsOnWay ==
  ASSUME NEW W, OverrideWay(W),
         NEW s, HasMemory(s), s.phase \in Phases \ TerminalStates,
         s.recovery_epoch \in Nat, OnItsWay(W, s),
         NEW n, Results(s, n) \/ Failures(s, n)
  PROVE  OnItsWay(W, n)
<1>1. s.post_commit_phase_override # NONE =>
        /\ s.phase \in W
        /\ Role[s.phase] \in {"commit_cleanup", "commit"}
        /\ Role[s.phase] = "commit_cleanup" => OnSuccess[s.phase] \in W
        /\ OnLoopback[s.phase] # NONE => OnLoopback[s.phase] \in W
        /\ WorkflowFallback[s.phase] # NONE => WorkflowFallback[s.phase] \in W
        /\ RetryPhase(s.phase) \in W
  <2>1. failed_route \in TerminalStates
    BY FailedRouteIsTerminal DEF TerminalStates
  <2>2. s.post_commit_phase_override # NONE => s.phase \in W
    BY <2>1 DEF OnItsWay
  <2> QED BY <2>2 DEF OverrideWay, OrNone, RetryPhase
<1>2. CASE SameMemory(s, n)
  BY <1>2 DEF SameMemory, SameHead, OnItsWay
<1>3. CASE Readies(s, n)
  <2>1. /\ n.phase = s.phase /\ n.previous_phase = s.previous_phase
        /\ n.post_commit_phase_override = s.post_commit_phase_override
    BY <1>3 DEF Readies, SameMemory, SameHead, HasMemory, Memory
  <2> QED BY <2>1 DEF OnItsWay
<1>4. CASE Role[s.phase] # "commit" /\ Moves(s, OnSuccess[s.phase], n)
  BY <1>1, <1>4, MovesOnWay
<1>5. CASE /\ s.phase \in ReportsResult
           /\ \E status \in Statuses : Moves(Reported(s, status), OnSuccess[s.phase], n)
  <2>1. PICK status \in Statuses : Moves(Reported(s, status), OnSuccess[s.phase], n)
    BY <1>5
  <2>2. Reported(s, status).post_commit_phase_override = ResultOverride[s.phase][status]
    BY ExecutionResultMoves
  <2>3. ResultOverride[s.phase][status] # NONE => OnSuccess[s.phase] \in W
    BY <1>5 DEF OverrideWay
  <2> QED BY <2>1, <2>2, <2>3, MovesOnWay
<1>6. CASE Role[s.phase] = "analysis" /\ \E p : Moves(s, p, n)
  BY <1>1, <1>6, MovesOnWay
<1>7. CASE OnLoopback[s.phase] # NONE /\ Moves(s, OnLoopback[s.phase], n)
  BY <1>1, <1>7, MovesOnWay
<1>8. CASE Commits(s, n)
  BY <1>8, CommitsOnWay
<1>9. CASE Moves(s, s.phase, n)
  BY <1>1, <1>9, MovesOnWay
<1>10. CASE Retries(s, RetryPhase(s.phase), n)
  BY <1>1, <1>10, MovesOnWay
<1>11. CASE Fails(s, n)
  BY <1>1, <1>11, FailsOnWay
<1>12. CASE WorkflowFallback[s.phase] # NONE /\ Moves(s, WorkflowFallback[s.phase], n)
  BY <1>1, <1>12, MovesOnWay
<1>13. CASE Redirects(s, n)
  BY <1>1, <1>13, MovesOnWay DEF Redirects, OverrideWay, Closed
<1> QED BY ZenonT(30), <1>2, <1>3, <1>4, <1>5, <1>6, <1>7, <1>8, <1>9, <1>10, <1>11,
  <1>12, <1>13 DEF Results, Failures

LEMMA DispatchesOnWay ==
  ASSUME NEW W, OverrideWay(W),
         NEW s, HasMemory(s), s.phase \in Phases, OnItsWay(W, s),
         NEW n, Dispatches(s, n)
  PROVE  OnItsWay(W, n)
<1>1. Role[failed_route] = "terminal" /\ failed_route \in TerminalStates
  BY FailedRouteIsTerminal DEF TerminalStates
<1>2. ASSUME s.post_commit_phase_override # NONE, s.phase = failed_route
      PROVE  recovery_target(s) \in W
  BY <1>1, <1>2, NamesAssumption DEF OnItsWay, OverrideWay, recovery_target
<1>3. ASSUME s.post_commit_phase_override # NONE, s.phase \notin TerminalStates
      PROVE  s.phase \in W
  BY <1>1, <1>3 DEF OnItsWay
<1>4. \A p \in W : ~requires_plan(s, p)
  BY DEF OverrideWay, requires_plan
<1>5. CASE s.phase = failed_route /\ Reenters(s, recovery_target(s), n)
  BY <1>2, <1>5, MovesOnWay
<1>6. ASSUME MissesPlan(s, n), s.post_commit_phase_override = NONE
      PROVE  OnItsWay(W, n)
  BY <1>6 DEF MissesPlan, OnItsWay
<1>7. CASE s.phase = failed_route /\ requires_plan(s, recovery_target(s)) /\ MissesPlan(s, n)
  BY <1>2, <1>4, <1>6, <1>7
<1>8. CASE s.phase \notin TerminalStates /\ requires_plan(s, s.phase) /\ MissesPlan(s, n)
  BY <1>3, <1>4, <1>6, <1>8
<1>9. CASE /\ s.phase \notin TerminalStates
           /\ Role[s.phase] \in {"analysis", "commit_cleanup"}
           /\ Moves(s, OnSuccess[s.phase], n)
  <2>1. s.post_commit_phase_override # NONE => OnSuccess[s.phase] \in W
    BY <1>3, <1>9 DEF OverrideWay
  <2> QED BY <1>9, <2>1, MovesOnWay
<1>10. CASE Commits(s, n)
  BY <1>10, CommitsOnWay
<1>11. CASE s.phase \notin TerminalStates /\ Fails(s, n)
  BY <1>3, <1>11, FailsOnWay
<1>12. CASE n = s
  BY <1>12
<1> QED BY <1>5, <1>7, <1>8, <1>9, <1>10, <1>11, <1>12 DEF Dispatches

LEMMA PreparedOnWay ==
  ASSUME NEW W, OverrideWay(W), IInv, OnItsWay(W, state)
  PROVE  OnItsWay(W, prepared)
<1>1. CASE prepared = state
  BY <1>1
<1>2. CASE Redirects(state, prepared)
  BY <1>2, MovesOnWay DEF Redirects, OverrideWay, Closed, OnItsWay
<1> QED BY <1>1, <1>2, PreparedGoes

OverrideInv(W) == IInv /\ InFlight /\ OnItsWay(W, state)

LEMMA OverrideStep ==
  ASSUME NEW W, OverrideWay(W), OverrideInv(W), [Next]_vars
  PROVE  OverrideInv(W)'
<1> USE DEF OverrideInv
<1>1. IInv' /\ InFlight'
  BY NextIInv, InFlightKept
<1>2. /\ HasMemory(state) /\ state.phase \in Phases /\ state.recovery_epoch \in Nat
      /\ HasMemory(prepared) /\ prepared.phase \in Phases
  BY InvariantMeansSound, PreparedSound, SoundHasMemory
<1>3. CASE SameMemory(state, state')
  BY <1>1, <1>3 DEF SameMemory, SameHead, OnItsWay
<1>4. CASE /\ state.phase \notin TerminalStates
           /\ Results(state, state') \/ Failures(state, state')
  BY <1>1, <1>2, <1>4, StepsOnWay
<1>5. CASE Dispatches(prepared, state')
  BY <1>1, <1>2, <1>5, PreparedOnWay, DispatchesOnWay
<1> QED BY <1>3, <1>4, <1>5, StepKinds

\* A run starts with no route pending.
LEMMA OverrideInit ==
  ASSUME NEW W, Init
  PROVE  OverrideInv(W)
<1>1. state.post_commit_phase_override = NONE /\ step.effect = NONE
  BY DEF Init, InitialState, Idle
<1> QED BY InitIInv, <1>1 DEF OverrideInv, InFlight, OnItsWay, NONE

\* The route that an expired development timer sets up is pending only on
\* the way to the commit it was set up for (apply_development_timebox,
\* _handle_commit_success): for every policy whose development deadline
\* leads to that commit by a way of its own.
THEOREM OverrideForItsCommit ==
  ASSUME OverrideWay({development_timebox.finalization_target,
                      development_timebox.end_entry})
  PROVE  Spec => []OverrideIsForItsCommit
<1> DEFINE W == {development_timebox.finalization_target,
                 development_timebox.end_entry}
<1>1. Init => OverrideInv(W)
  BY OverrideInit
<1>2. OverrideInv(W) /\ [Next]_vars => OverrideInv(W)'
  BY OverrideStep
<1>3. OverrideInv(W) => OverrideIsForItsCommit
  BY DEF OverrideInv, OnItsWay, OverrideIsForItsCommit
<1> QED BY <1>1, <1>2, <1>3, PTL DEF Spec

-----------------------------------------------------------------------------
(***************************************************************************)
(* The budget of cycles.                                                   *)
(***************************************************************************)
\* The verdict and the pending route are ones the policy can give.
Carries(s) ==
  /\ s.pending_cycle_outcome \in OrNone(Pronounced)
  /\ s.post_commit_phase_override \in OrNone(Underway)

\* The run is under way: there is a cycle left to close.
IsUnderway(s) ==
  /\ s.phase \in Underway
  /\ s.previous_phase \in OrNone(Underway)
  /\ s.iteration < BudgetCap
  /\ Carries(s)

\* The run is over: every cycle is closed.
IsOver(s) ==
  /\ s.phase \in SuccessTerminals
  /\ s.previous_phase \in OrNone(Underway)
  /\ s.iteration = BudgetCap
  /\ Carries(s)

LEMMA FailedRouteUnderway == failed_route \in Underway
BY NamesAssumption DEF Underway, SuccessTerminals

\* What a move carries along.
LEMMA MovesCarry ==
  ASSUME BudgetShape, NEW s, Carries(s), NEW p, NEW n,
         Moves(s, p, n) \/ Retries(s, p, n) \/ Reenters(s, p, n)
  PROVE  Carries(n)
<1>1. VerdictKept(s, n) /\ RouteKept(s, n, n.phase)
  BY DEF Moves, Retries, Reenters
<1>2. n.pending_cycle_outcome \in OrNone(Pronounced)
  BY <1>1 DEF VerdictKept, Carries, OrNone
<1>3. n.post_commit_phase_override \in OrNone(Underway)
  BY <1>1 DEF RouteKept, Carries, OrNone, BudgetShape
<1> QED BY <1>2, <1>3 DEF Carries

\* A run under way that moves towards a phase under way stays under way.
LEMMA MovesUnderway ==
  ASSUME BudgetShape, NEW s, IsUnderway(s), NEW p \in Underway, NEW n,
         Moves(s, p, n) \/ Retries(s, p, n) \/ Reenters(s, p, n)
  PROVE  IsUnderway(n)
<1>1. n.phase \in Underway
  <2>1. n.phase \in LandsAt(p)
    BY DEF Moves, Retries, Reenters
  <2>2. Underway \subseteq Phases /\ Closed(Underway)
    BY DEF Underway, BudgetShape
  <2> QED BY <2>1, <2>2, LandsInside
<1>2. n.previous_phase \in {s.phase, s.previous_phase} /\ n.iteration = s.iteration
  BY DEF Moves, Retries, Reenters
<1>3. Carries(n)
  BY MovesCarry DEF IsUnderway
<1> QED BY <1>1, <1>2, <1>3 DEF IsUnderway, OrNone

LEMMA FailsUnderway ==
  ASSUME BudgetShape, NEW s, IsUnderway(s), NEW n, Fails(s, n) \/ MissesPlan(s, n)
  PROVE  IsUnderway(n)
<1>1. n.phase \in {failed_route, entry_phase} /\ n.previous_phase = s.phase
      /\ n.iteration = s.iteration
  BY DEF Fails, MissesPlan
<1>2. n.pending_cycle_outcome \in {s.pending_cycle_outcome, NONE} \cup Pronounced
  BY DEF Fails, MissesPlan, VerdictKept
<1>3. n.post_commit_phase_override = s.post_commit_phase_override
  BY DEF Fails, MissesPlan
<1> QED BY <1>1, <1>2, <1>3, FailedRouteUnderway DEF IsUnderway, Carries, OrNone, BudgetShape

\* A commit that closes the last cycle ends the run, any other one goes on.
LEMMA CommitsInBudget ==
  ASSUME BudgetShape, NEW s, Sound(s), IsUnderway(s),
         s.phase \in ClosingCommits => s.post_commit_phase_override = NONE,
         NEW n, Commits(s, n)
  PROVE  IsUnderway(n) \/ IsOver(n)
<1>1. HasMemory(s) /\ s.phase \in Phases /\ s.iteration \in Nat
  BY SoundHasMemory DEF Sound, State
<1>2. PICK c, b :
        /\ \E skipped \in BOOLEAN : c = apply_commit_outcome(s, skipped)
        /\ SameHead(c, b)
        /\ b.pending_cycle_outcome \in {c.pending_cycle_outcome, NONE}
        /\ b.post_commit_phase_override = NONE
        /\ \/ Moves(b, resolve_post_commit_phase(c), n)
           \/ /\ c.post_commit_phase_override = NONE
              /\ GateUpstream[resolve_post_commit_phase(c)] # NONE
              /\ Moves(b, OnSuccess[resolve_post_commit_phase(c)], n)
  BY DEF Commits
<1> DEFINE next == resolve_post_commit_phase(c)
<1>3. /\ c.phase = s.phase
      /\ c.previous_phase = s.previous_phase
      /\ c.pending_cycle_outcome = s.pending_cycle_outcome
      /\ c.post_commit_phase_override = s.post_commit_phase_override
      /\ \/ c.iteration = s.iteration
         \/ s.phase \in ClosingCommits /\ c.iteration = s.iteration + 1
  BY SMTT(30), <1>1, <1>2, CountedCommit
<1>4. Carries(b)
  BY <1>2, <1>3 DEF IsUnderway, Carries, OrNone
<1>5. /\ n.previous_phase \in OrNone(Underway) /\ n.iteration = c.iteration
      /\ Carries(n)
  <2>1. PICK p : Moves(b, p, n)
    BY <1>2
  <2>2. n.previous_phase = b.phase /\ n.iteration = b.iteration
    BY <2>1 DEF Moves
  <2>3. b.phase = s.phase /\ b.iteration = c.iteration
    BY <1>2, <1>3 DEF SameHead
  <2>4. Carries(n)
    BY <1>4, <2>1, MovesCarry
  <2> QED BY <2>2, <2>3, <2>4 DEF IsUnderway, OrNone
<1>6. ASSUME NEW W, W \subseteq Phases, Closed(W), next \in W,
             GateUpstream[next] # NONE => OnSuccess[next] \in W
      PROVE  n.phase \in W
  <2>1. n.phase \in LandsAt(next)
        \/ (GateUpstream[next] # NONE /\ n.phase \in LandsAt(OnSuccess[next]))
    BY <1>2 DEF Moves
  <2> QED BY <1>6, <2>1, LandsInside
<1>7. ASSUME next \in Underway
      PROVE  n.phase \in Underway
  <2>1. GateUpstream[next] # NONE => OnSuccess[next] \in Underway
    BY <1>7 DEF BudgetShape
  <2>2. Underway \subseteq Phases /\ Closed(Underway)
    BY DEF Underway, BudgetShape
  <2> QED BY <1>6, <1>7, <2>1, <2>2
<1>8. ASSUME next \in SuccessTerminals
      PROVE  n.phase \in SuccessTerminals
  <2>1. GateUpstream[next] # NONE => OnSuccess[next] \in SuccessTerminals
    BY <1>8 DEF BudgetShape
  <2>2. SuccessTerminals \subseteq Phases /\ Closed(SuccessTerminals)
    BY DEF SuccessTerminals, TerminalStates, BudgetShape
  <2> QED BY <1>6, <1>8, <2>1, <2>2
<1>9. CASE s.phase \notin ClosingCommits
  <2>1. next \in Underway
    BY <1>3, <1>9 DEF next, resolve_post_commit_phase, commit_closes_a_cycle,
      IsUnderway, Carries, OrNone, BudgetShape
  <2> QED BY <1>3, <1>5, <1>7, <1>9, <2>1 DEF IsUnderway
<1>10. CASE s.phase \in ClosingCommits
  <2>1. c.iteration \in Nat /\ c.iteration <= BudgetCap /\ BudgetCap \in Nat
    BY SMTT(30), <1>1, <1>3, BudgetAssumption DEF IsUnderway
  <2>2. s.pending_cycle_outcome \in OrNone(Pronounced)
    BY DEF IsUnderway, Carries
  <2>3. next = after_closing(s.phase, compute_budget_state(c), s.pending_cycle_outcome)
    BY <1>3, <1>10 DEF next, resolve_post_commit_phase, commit_closes_a_cycle,
      post_commit_route, after_closing
  <2>4. CASE c.iteration < BudgetCap
    <3>1. next \in Underway
      BY <1>10, <2>2, <2>3, <2>4 DEF compute_budget_state, BudgetShape
    <3> QED BY <1>5, <1>7, <2>4, <3>1 DEF IsUnderway
  <2>5. CASE ~(c.iteration < BudgetCap)
    <3>1. next \in SuccessTerminals
      BY <1>10, <2>2, <2>3, <2>5 DEF compute_budget_state, BudgetShape
    <3>2. c.iteration = BudgetCap
      BY SMTT(30), <2>1, <2>5
    <3> QED BY <1>5, <1>8, <3>1, <3>2 DEF IsOver
  <2> QED BY <2>4, <2>5
<1> QED BY <1>9, <1>10

\* Results and failures keep the run in its budget.
LEMMA StepsInBudget ==
  ASSUME BudgetShape, NEW s, Sound(s), IsUnderway(s),
         s.phase \in ClosingCommits => s.post_commit_phase_override = NONE,
         NEW n, Results(s, n) \/ Failures(s, n)
  PROVE  IsUnderway(n) \/ IsOver(n)
<1>1. HasMemory(s) /\ s.phase \in Phases /\ s.recovery_epoch \in Nat
  BY SoundHasMemory
<1>2. /\ s.phase \notin ClosingCommits => OnSuccess[s.phase] \in Underway
      /\ OnLoopback[s.phase] # NONE => OnLoopback[s.phase] \in Underway
      /\ WorkflowFallback[s.phase] # NONE => WorkflowFallback[s.phase] \in Underway
      /\ \A d \in Decisions : Route[s.phase][d].target # NONE
                             => Route[s.phase][d].target \in Underway
      /\ \A status \in Statuses : ResultOverride[s.phase][status] \in OrNone(Underway)
      /\ s.phase \in Underway /\ RetryPhase(s.phase) \in Underway
  BY DEF IsUnderway, BudgetShape, OrNone, RetryPhase
<1>3. Role[s.phase] # "commit" => s.phase \notin ClosingCommits
  BY BudgetAssumption
<1>4. CASE SameMemory(s, n)
  BY <1>4 DEF SameMemory, SameHead, IsUnderway, Carries
<1>5. CASE Readies(s, n)
  <2>1. /\ n.phase = s.phase /\ n.previous_phase = s.previous_phase
        /\ n.iteration = s.iteration
        /\ n.pending_cycle_outcome = s.pending_cycle_outcome
        /\ n.post_commit_phase_override = s.post_commit_phase_override
    BY <1>1, <1>5 DEF Readies, SameMemory, SameHead, HasMemory, Memory
  <2> QED BY <2>1 DEF IsUnderway, Carries
<1>6. CASE Role[s.phase] # "commit" /\ Moves(s, OnSuccess[s.phase], n)
  BY <1>2, <1>3, <1>6, MovesUnderway
<1>7. CASE /\ s.phase \in ReportsResult
           /\ \E status \in Statuses : Moves(Reported(s, status), OnSuccess[s.phase], n)
  <2>1. PICK status \in Statuses : Moves(Reported(s, status), OnSuccess[s.phase], n)
    BY <1>7
  <2>2. /\ SameHead(s, Reported(s, status))
        /\ Reported(s, status).pending_cycle_outcome = s.pending_cycle_outcome
        /\ Reported(s, status).post_commit_phase_override = ResultOverride[s.phase][status]
    BY <1>1, ExecutionResultMoves
  <2>3. OnSuccess[s.phase] \in Underway
    BY <1>2, <1>7 DEF BudgetShape
  <2>4. IsUnderway(Reported(s, status))
    BY <1>2, <2>2 DEF SameHead, IsUnderway, Carries
  <2> QED BY <2>1, <2>3, <2>4, MovesUnderway
<1>8. CASE \E d \in Decisions : /\ Route[s.phase][d].target # NONE
                                /\ Moves(s, Route[s.phase][d].target, n)
  BY <1>2, <1>8, MovesUnderway
<1>9. CASE OnLoopback[s.phase] # NONE /\ Moves(s, OnLoopback[s.phase], n)
  BY <1>2, <1>9, MovesUnderway
<1>10. CASE Commits(s, n)
  BY <1>10, CommitsInBudget
<1>11. CASE Moves(s, s.phase, n)
  BY <1>2, <1>11, MovesUnderway
<1>12. CASE Retries(s, RetryPhase(s.phase), n)
  BY <1>2, <1>12, MovesUnderway
<1>13. CASE Fails(s, n)
  BY <1>13, FailsUnderway
<1>14. CASE WorkflowFallback[s.phase] # NONE /\ Moves(s, WorkflowFallback[s.phase], n)
  BY <1>2, <1>14, MovesUnderway
<1>15. CASE Redirects(s, n)
  BY <1>15, MovesUnderway DEF Redirects, BudgetShape
<1> QED BY ZenonT(30), <1>4, <1>5, <1>6, <1>7, <1>8, <1>9, <1>10, <1>11, <1>12,
  <1>13, <1>14, <1>15 DEF Results, Failures

LEMMA DispatchesInBudget ==
  ASSUME BudgetShape, NEW s, Sound(s), IsUnderway(s),
         s.phase \in ClosingCommits => s.post_commit_phase_override = NONE,
         NEW n, Dispatches(s, n)
  PROVE  IsUnderway(n) \/ IsOver(n)
<1>1. CASE Reenters(s, recovery_target(s), n)
  <2>1. recovery_target(s) \in Underway
    BY FailedRouteUnderway DEF recovery_target, IsUnderway, OrNone, BudgetShape
  <2> QED BY <1>1, <2>1, MovesUnderway
<1>2. CASE MissesPlan(s, n) \/ Fails(s, n)
  BY <1>2, FailsUnderway
<1>3. CASE /\ Role[s.phase] \in {"analysis", "commit_cleanup"}
           /\ Moves(s, OnSuccess[s.phase], n)
  <2>1. s.phase \notin ClosingCommits
    BY <1>3, BudgetAssumption
  <2>2. OnSuccess[s.phase] \in Underway
    BY <2>1 DEF IsUnderway, BudgetShape
  <2> QED BY <1>3, <2>2, MovesUnderway
<1>4. CASE Commits(s, n)
  BY <1>4, CommitsInBudget
<1>5. CASE n = s
  BY <1>5
<1> QED BY <1>1, <1>2, <1>3, <1>4, <1>5 DEF Dispatches

\* A loop that has ended stays as it is.
LEMMA EndedStays ==
  ASSUME exit # "running", [Next]_vars
  PROVE  UNCHANGED vars
BY DEF Next, Tick, Proceed, Ended, Finishes, StopsAtFailedRoute, LedgerStops,
  ReenterFailedPhase, PlanMissingOnReentry, AdvanceExhausted, EmptyCommit,
  NoAgentToInvoke, WorktreeUnreadable, InvokeAgent, PlanMissing, StartCommit,
  AgentSucceeds, ExecutionReports, AnalysisDecides, CleanupLoopsBack,
  AgentSkipsCommit, CommitSucceeds, CommitSkipped, CommitResidual, CommitFails,
  CommitWithoutMessage, PhaseFails, StepCrashes, AgentFails,
  Dispatching, AtLoopHead, AgentReturns, CommitReturns

\* A loop ends in success only in a success terminal.
LEMMA SuccessIsReached ==
  ASSUME exit = "running", [Next]_vars, exit' = "success"
  PROVE  state'.phase \in SuccessTerminals
BY DEF Next, Tick, Proceed, Ended, Finishes, StopsAtFailedRoute, LedgerStops,
  ReenterFailedPhase, PlanMissingOnReentry, AdvanceExhausted, EmptyCommit,
  NoAgentToInvoke, WorktreeUnreadable, InvokeAgent, PlanMissing, StartCommit,
  AgentSucceeds, ExecutionReports, AnalysisDecides, CleanupLoopsBack,
  AgentSkipsCommit, CommitSucceeds, CommitSkipped, CommitResidual, CommitFails,
  CommitWithoutMessage, PhaseFails, StepCrashes, AgentFails, Starts, Reduces,
  Leave, SuccessTerminals, vars

BudgetInv(W) ==
  /\ OverrideInv(W)
  /\ IsUnderway(state) \/ IsOver(state)
  /\ exit = "success" => state.phase \in SuccessTerminals

LEMMA BudgetStep ==
  ASSUME NEW W, OverrideWay(W), W \cap ClosingCommits = {}, BudgetShape,
         BudgetInv(W), [Next]_vars
  PROVE  BudgetInv(W)'
<1> USE DEF BudgetInv
<1>1. OverrideInv(W)'
  BY OverrideStep
<1>2. (exit = "success" => state.phase \in SuccessTerminals)'
  <2>1. CASE exit = "running"
    BY <2>1, SuccessIsReached
  <2>2. CASE exit # "running"
    BY <2>2, EndedStays DEF vars
  <2> QED BY <2>1, <2>2
<1>3. Sound(state) /\ Sound(prepared) /\ HasMemory(state) /\ state.phase \in Phases
  BY InvariantMeansSound, PreparedSound, SoundHasMemory DEF OverrideInv
<1>4. ASSUME NEW s, OnItsWay(W, s), s.phase \in ClosingCommits
      PROVE  s.post_commit_phase_override = NONE
  <2>1. s.phase # failed_route
    BY <1>4, FailedRouteIsTerminal, BudgetAssumption
  <2> QED BY <1>4, <2>1 DEF OnItsWay
<1>5. ASSUME state.phase \in Underway
      PROVE  IsUnderway(state)
  BY <1>5 DEF IsOver, Underway
<1>6. CASE SameMemory(state, state')
  <2>1. (IsUnderway(state) \/ IsOver(state))'
    BY <1>6 DEF SameMemory, SameHead, IsUnderway, IsOver, Carries
  <2> QED BY <1>1, <1>2, <2>1
<1>7. CASE /\ state.phase \notin TerminalStates
           /\ Results(state, state') \/ Failures(state, state')
  <2>1. state.phase \in Underway
    BY <1>3, <1>7 DEF Underway, SuccessTerminals
  <2>2. (IsUnderway(state) \/ IsOver(state))'
    BY ZenonT(30), <1>3, <1>4, <1>5, <1>7, <2>1, StepsInBudget DEF OverrideInv
  <2> QED BY <1>1, <1>2, <2>2
<1>8. CASE Dispatching /\ Dispatches(prepared, state')
  <2>1. state.phase \in Underway
    BY <1>3, <1>8 DEF Dispatching, Continues, Underway, SuccessTerminals
  <2>2. IsUnderway(prepared)
    <3>1. CASE prepared = state
      BY <1>5, <2>1, <3>1
    <3>2. CASE Redirects(state, prepared)
      BY <1>5, <2>1, <3>2, MovesUnderway DEF Redirects, BudgetShape
    <3> QED BY <1>3, <3>1, <3>2, PreparedMoves
  <2>3. OnItsWay(W, prepared)
    BY PreparedOnWay DEF OverrideInv
  <2>4. (IsUnderway(state) \/ IsOver(state))'
    BY <1>3, <1>4, <1>8, <2>2, <2>3, DispatchesInBudget
  <2> QED BY <1>1, <1>2, <2>4
<1> QED BY <1>6, <1>7, <1>8, StepKinds DEF OverrideInv

\* A run closes at most BudgetCap cycles and ends in success only when it
\* has closed them all (apply_commit_outcome, resolve_post_commit_phase):
\* for every policy in which only a closing commit leads to a success
\* terminal, and no pending route leads past a closing commit.
THEOREM BudgetKept ==
  ASSUME NEW W, OverrideWay(W), W \cap ClosingCommits = {}, BudgetShape
  PROVE  Spec => []CycleBudget
<1>1. Init => BudgetInv(W)
  <2> SUFFICES ASSUME Init PROVE BudgetInv(W)
    OBVIOUS
  <2>1. /\ state.post_commit_phase_override = NONE /\ step.effect = NONE
        /\ state.phase = entry_phase /\ state.previous_phase = NONE
        /\ state.iteration = 0 /\ state.pending_cycle_outcome = NONE
        /\ exit = "running"
    BY DEF Init, InitialState, Idle
  <2>2. OverrideInv(W)
    BY OverrideInit
  <2>3. IsUnderway(state)
    BY SMTT(30), <2>1, BudgetAssumption DEF IsUnderway, Carries, OrNone, BudgetShape
  <2> QED BY <2>1, <2>2, <2>3 DEF BudgetInv
<1>2. BudgetInv(W) /\ [Next]_vars => BudgetInv(W)'
  BY BudgetStep
<1>3. BudgetInv(W) => CycleBudget
  <2> SUFFICES ASSUME BudgetInv(W) PROVE CycleBudget
    OBVIOUS
  <2>1. state.iteration \in Nat /\ BudgetCap \in Nat
    BY InvariantMeansSound, BudgetAssumption DEF BudgetInv, OverrideInv, Sound, State
  <2>2. state.phase \in SuccessTerminals => state.iteration = BudgetCap
    BY DEF BudgetInv, IsUnderway, IsOver, Underway
  <2> QED BY SMTT(30), <2>1, <2>2 DEF BudgetInv, IsUnderway, IsOver, CycleBudget
<1> QED BY <1>1, <1>2, <1>3, PTL DEF Spec

=============================================================================
