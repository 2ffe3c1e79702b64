---------------------------- MODULE CountProofs ----------------------------
(***************************************************************************)
(* The counts of a run: what every kind of step does to the loop counters, *)
(* the charged flag, the pending route and the timers, and what of them a  *)
(* cycle leaves behind.                                                    *)
(***************************************************************************)
EXTENDS PipelineProofs

\* Zenon is tried on every leaf that names no prover; a leaf that needs
\* arithmetic or equality of records asks for SMT.
USE Zenon

(***************************************************************************)
(* The counts of a run: what the loops, the gate and the timers keep.      *)
(***************************************************************************)
Counts ==
  {"phase", "loop_iterations", "execution_cycle_charged", "iteration",
   "post_commit_phase_override", "dev_timebox_active", "cycle_timebox_active"}

HasCounts(s) == Counts \subseteq DOMAIN s

\* t is where s is, with the same loops, the same timers and the same route.
SamePlace(s, t) ==
  /\ HasCounts(t)
  /\ t.phase = s.phase
  /\ t.execution_cycle_charged = s.execution_cycle_charged
  /\ t.iteration = s.iteration

SameCounts(s, t) ==
  /\ SamePlace(s, t)
  /\ t.loop_iterations = s.loop_iterations
  /\ t.post_commit_phase_override = s.post_commit_phase_override
  /\ t.dev_timebox_active = s.dev_timebox_active
  /\ t.cycle_timebox_active = s.cycle_timebox_active

\* The counts of a sound state are typed.
LEMMA SoundCounts ==
  ASSUME NEW s, Sound(s)
  PROVE  /\ HasCounts(s) /\ s.phase \in Phases /\ s.loop_iterations \in LoopCounts
         /\ s.execution_cycle_charged \in BOOLEAN /\ s.iteration \in Nat
         /\ s.post_commit_phase_override \in OrNone(Phases)
         /\ s.dev_timebox_active \in BOOLEAN /\ s.cycle_timebox_active \in BOOLEAN
         /\ s.previous_phase \in OrNone(Phases)
BY DEF Sound, State, HasCounts, Counts

\* The count of a loop lies within its cap.
LEMMA CountWithinCap ==
  ASSUME NEW f \in LoopCounts, NEW c \in LoopCounters
  PROVE  f[c] \in 0..Cap[c] /\ f[c] \in Nat /\ Cap[c] \in Nat /\ f[c] <= Cap[c]
BY SMTT(30), CountersAssumption DEF LoopCounts

\* A loop that is not exhausted has a pass left.
LEMMA PassLeft ==
  ASSUME NEW s, NEW p, s.loop_iterations \in LoopCounts,
         LoopCounter[p] \in LoopCounters, LoopCounter[p] # NONE, ~is_exhausted(s, p)
  PROVE  s.loop_iterations[LoopCounter[p]] < Cap[LoopCounter[p]]
<1>1. /\ s.loop_iterations[LoopCounter[p]] \in Nat /\ Cap[LoopCounter[p]] \in Nat
      /\ ~(s.loop_iterations[LoopCounter[p]] >= Cap[LoopCounter[p]])
  BY CountWithinCap DEF is_exhausted, should_skip_reentry
<1> QED BY SMTT(30), <1>1

\* P passes before a step and Q after it, of a loop whose count goes from l
\* to m: where they stay within the count, and where one is left to run.
PassCounts(C, l, m, P, Q) ==
  /\ Q <= P + 0 => Q <= P
  /\ Q = 0 => Q <= m /\ (m > 0 => Q < m)
  /\ Q <= P /\ P <= l /\ m = l => Q <= m /\ (P < l => Q < m)
  /\ Q <= P /\ P <= l /\ m = next_completed(l, C) => Q <= m /\ (Q < m \/ m = C)
  /\ Q <= P + 1 /\ P < l /\ m = l => Q <= m
  /\ Q <= P + 1 /\ P <= l /\ l < C /\ m = next_completed(l, C) => Q <= m
  /\ (P <= l => P <= C) /\ (P <= l /\ l < C => P < C) /\ (l < C => l # C)

LEMMA PassArithmetic ==
  ASSUME NEW C \in Nat, NEW l \in 0..C, NEW m \in 0..C, NEW P \in Nat, NEW Q \in Nat
  PROVE  PassCounts(C, l, m, P, Q)
BY SMTT(30) DEF PassCounts, next_completed

\* A count that is charged is not zero, or has no pass to count.
LEMMA ChargeCounts ==
  ASSUME NEW C \in Nat, NEW l \in 0..C
  PROVE  next_completed(l, C) > 0 \/ next_completed(l, C) = C
BY SMTT(30) DEF next_completed

\* Fields outside the counts are written without touching them.
LEMMA OutsideCounts ==
  ASSUME NEW s, HasCounts(s), NEW v
  PROVE  /\ SameCounts(s, s)
         /\ SameCounts(s, [s EXCEPT !.pending_cycle_outcome = v])
         /\ SameCounts(s, [s EXCEPT !.last_execution_result_status = v])
         /\ SameCounts(s, [s EXCEPT !.last_error = v])
         /\ SameCounts(s, [s EXCEPT !.agent_invoked = v])
         /\ SameCounts(s, [s EXCEPT !.recovery_epoch = v])
         /\ SameCounts(s, [s EXCEPT !.recovery_cycle_count = v])
         /\ SameCounts(s, [s EXCEPT !.previous_phase = v])
         /\ SameCounts(s, [s EXCEPT !.cycle_timebox_consumed_seconds = v])
         /\ SameCounts(s, [s EXCEPT !.dev_timebox_consumed_seconds = v])
         /\ SameCounts(s, [s EXCEPT !.execution_seconds = v])
         /\ SameCounts(s, stamp_if_unrecorded(s, v))
BY DEF SameCounts, SamePlace, HasCounts, Counts, stamp_if_unrecorded

\* Having the same counts is transitive.
LEMMA SameCountsTransitive ==
  ASSUME NEW s, NEW t, NEW u, SameCounts(s, t), SameCounts(t, u)
  PROVE  SameCounts(s, u)
BY DEF SameCounts, SamePlace

-----------------------------------------------------------------------------
(***************************************************************************)
(* Routing, as a walk: the loops, the phase aimed at, the development      *)
(* timer and the pending route change together, one deadline or one        *)
(* exhausted phase at a time.                                              *)
(***************************************************************************)
Stops ==
  [loops : LoopCounts, target : Phases, dev : BOOLEAN, route : OrNone(Phases)]

At(s, p) ==
  [loops |-> s.loop_iterations, target |-> p,
   dev |-> s.dev_timebox_active, route |-> s.post_commit_phase_override]

Spent(loops, p) == LoopCounter[p] # NONE /\ loops[LoopCounter[p]] >= Cap[LoopCounter[p]]

\* One turn of the way from phase x: a deadline, a timer that starts or
\* stops, an exhausted phase ahead, or x itself exhausted.
Turns(x, k, m) ==
  \/ /\ HasCycleTimebox /\ k.target = cycle_timebox.guarded_entry
     /\ m.target = cycle_timebox.finalization_target
     /\ m.loops = k.loops /\ m.dev = k.dev /\ m.route = k.route
  \/ /\ HasDevelopmentTimebox
     /\ \/ ~k.dev /\ k.target = development_timebox.start_entry /\ m.dev
        \/ k.target = development_timebox.end_entry /\ ~m.dev
     /\ m.loops = k.loops /\ m.target = k.target /\ m.route = k.route
  \/ /\ HasDevelopmentTimebox /\ k.dev
     /\ k.target = development_timebox.guarded_entry
     /\ m.target = development_timebox.finalization_target
     /\ m.loops = k.loops /\ m.dev = k.dev
  \/ /\ Spent(k.loops, k.target)
     /\ m.target = OnSuccess[k.target]
     /\ m.loops = [k.loops EXCEPT ![LoopCounter[k.target]] = 0]
     /\ m.dev = k.dev /\ m.route = k.route
  \/ /\ Role[x] = "analysis" /\ k.target = OnSuccess[x] /\ Spent(k.loops, x)
     /\ m.target = k.target
     /\ m.loops = [k.loops EXCEPT ![LoopCounter[x]] = 0]
     /\ m.dev = k.dev /\ m.route = k.route

\* m is on the way from x that begins at k.
Onward(x, k, m) ==
  /\ m \in Stops
  /\ \A V \in SUBSET Stops :
       k \in V /\ (\A a \in V, b \in Stops : Turns(x, a, b) => b \in V) => m \in V

\* What every turn of a way preserves holds at its end.
LEMMA OnwardWithin ==
  ASSUME NEW x, NEW k, NEW m, Onward(x, k, m),
         NEW V \in SUBSET Stops, k \in V,
         \A a \in V, b \in Stops : Turns(x, a, b) => b \in V
  PROVE  m \in V
BY DEF Onward

\* A way may end where it begins.
LEMMA OnwardStays ==
  ASSUME NEW x, NEW k \in Stops
  PROVE  Onward(x, k, k)
BY DEF Onward

\* A way goes on by one more turn.
LEMMA OnwardTurns ==
  ASSUME NEW x, NEW k, NEW m, Onward(x, k, m), NEW n \in Stops, Turns(x, m, n)
  PROVE  Onward(x, k, n)
BY DEF Onward

\* A way goes on by another way from the same phase.
LEMMA OnwardTransitive ==
  ASSUME NEW x, NEW k, NEW m, NEW n, Onward(x, k, m), Onward(x, m, n)
  PROVE  Onward(x, k, n)
BY DEF Onward

\* The beginning of a way from a sound state is typed.
LEMMA AtType ==
  ASSUME NEW s, Sound(s), NEW p \in Phases
  PROVE  /\ At(s, p) \in Stops
         /\ At(s, p).loops = s.loop_iterations
         /\ At(s, p).target = p
         /\ At(s, p).dev = s.dev_timebox_active
         /\ At(s, p).route = s.post_commit_phase_override
BY SoundCounts DEF At, Stops

\* One stretch of the way of an advance from s aimed at p: r is its result.
Way(s, p, r) ==
  /\ SoundRoute(r)
  /\ SamePlace(s, r.state)
  /\ Onward(s.phase, At(s, p), At(r.state, r.target))

\* Two stretches in a row are one.
LEMMA WayThenWay ==
  ASSUME NEW s, NEW p, NEW r, Way(s, p, r), NEW r2, Way(r.state, r.target, r2)
  PROVE  Way(s, p, r2)
<1>1. SamePlace(s, r2.state) /\ r.state.phase = s.phase
  BY DEF Way, SamePlace
<1>2. Onward(s.phase, At(s, p), At(r2.state, r2.target))
  BY SMTT(30), <1>1, OnwardTransitive DEF Way
<1> QED BY <1>1, <1>2 DEF Way

\* Ways depend on the state and the target of their result alone.
LEMMA WayOfSame ==
  ASSUME NEW s, NEW p, NEW r, Way(s, p, r),
         NEW r2, r2.state = r.state, r2.target = r.target
  PROVE  Way(s, p, r2)
BY DEF Way, SoundRoute

\* States with the same counts stand at the same stop.
LEMMA AtSame ==
  ASSUME NEW s, NEW t, SameCounts(s, t), NEW p
  PROVE  At(t, p) = At(s, p) /\ SamePlace(s, t)
BY DEF At, SameCounts

\* A stretch that leaves the counts alone, and one that is a single turn.
LEMMA WayInPlace ==
  ASSUME NEW s, Sound(s), NEW p \in Phases,
         NEW r, SoundRoute(r), r.target = p,
         SamePlace(s, r.state), r.state.loop_iterations = s.loop_iterations,
         r.state.dev_timebox_active = s.dev_timebox_active,
         r.state.post_commit_phase_override = s.post_commit_phase_override
  PROVE  Way(s, p, r)
<1>1. At(r.state, r.target) = At(s, p)
  BY DEF At
<1>2. At(s, p) \in Stops
  BY AtType
<1> QED BY <1>1, <1>2, OnwardStays DEF Way

\* A stretch that is a single turn.
LEMMA WayTurns ==
  ASSUME NEW s, Sound(s), NEW p \in Phases,
         NEW r, SoundRoute(r), SamePlace(s, r.state),
         Turns(s.phase, At(s, p), At(r.state, r.target))
  PROVE  Way(s, p, r)
<1>1. At(s, p) \in Stops /\ At(r.state, r.target) \in Stops
  BY AtType DEF SoundRoute
<1> QED BY <1>1, OnwardStays, OnwardTurns DEF Way

\* The cycle deadline (apply_cycle_timebox).
LEMMA CycleTimeboxWay ==
  ASSUME NEW s, Sound(s), NEW p \in Phases, NEW rt
  PROVE  Way(s, p, apply_cycle_timebox(s, p, rt))
<1> DEFINE ct == cycle_timebox
           r == apply_cycle_timebox(s, p, rt)
           late == stamp_if_unrecorded(s, ct.finalization_cycle_outcome)
<1>1. SoundRoute(r) /\ HasCounts(s)
  BY TimeboxesSound, SoundCounts
<1>2. /\ SamePlace(s, started(s)) /\ started(s).loop_iterations = s.loop_iterations
      /\ started(s).dev_timebox_active = s.dev_timebox_active
      /\ started(s).post_commit_phase_override = s.post_commit_phase_override
  BY <1>1 DEF started, SamePlace, HasCounts, Counts
<1>3. SameCounts(s, late) /\ SameCounts(s, s)
  BY <1>1, OutsideCounts
<1>4. \/ r.state \in {started(s), s} /\ r.target = p
      \/ /\ HasCycleTimebox /\ p = ct.guarded_entry /\ r.state = late
         /\ r.target = ct.finalization_target
  BY DEF apply_cycle_timebox, pass_through
<1> HIDE DEF r, late
<1>5. CASE r.state \in {started(s), s} /\ r.target = p
  BY <1>1, <1>2, <1>3, <1>5, WayInPlace DEF SameCounts, r
<1>6. CASE HasCycleTimebox /\ p = ct.guarded_entry /\ r.state = late
           /\ r.target = ct.finalization_target
  <2>1. At(late, r.target) = [At(s, p) EXCEPT !.target = r.target]
    BY SMTT(30), <1>3 DEF SameCounts, At
  <2>2. Turns(s.phase, At(s, p), At(r.state, r.target))
    BY <1>6, <2>1 DEF Turns, At
  <2> QED BY <1>1, <1>3, <1>6, <2>2, WayTurns DEF SameCounts, r
<1> QED BY <1>4, <1>5, <1>6 DEF r

\* The development deadline (apply_development_timebox).
LEMMA DevelopmentTimeboxWay ==
  ASSUME NEW s, Sound(s), NEW p \in Phases, NEW rt
  PROVE  Way(s, p, apply_development_timebox(s, p, rt))
<1> DEFINE dt == development_timebox
           r == apply_development_timebox(s, p, rt)
           running == [s EXCEPT !.dev_timebox_active = TRUE,
                                !.dev_timebox_consumed_seconds = 0]
           route == IF Role[dt.end_entry] = "commit"
                    THEN OnSuccess[dt.end_entry] ELSE s.post_commit_phase_override
           late == [s EXCEPT !.post_commit_phase_override = route]
<1>1. SoundRoute(r) /\ HasCounts(s)
  BY TimeboxesSound, SoundCounts
<1>2. /\ SamePlace(s, running) /\ running.loop_iterations = s.loop_iterations
      /\ running.dev_timebox_active = TRUE
      /\ running.post_commit_phase_override = s.post_commit_phase_override
  BY <1>1 DEF SamePlace, HasCounts, Counts
<1>3. /\ SamePlace(s, late) /\ late.loop_iterations = s.loop_iterations
      /\ late.dev_timebox_active = s.dev_timebox_active
  BY <1>1 DEF SamePlace, HasCounts, Counts
<1>4. \/ r.state = s /\ r.target = p
      \/ /\ HasDevelopmentTimebox /\ ~s.dev_timebox_active /\ p = dt.start_entry
         /\ r.state = running /\ r.target = p
      \/ /\ HasDevelopmentTimebox /\ s.dev_timebox_active /\ p = dt.guarded_entry
         /\ r.state = late /\ r.target = dt.finalization_target
  BY DEF apply_development_timebox, pass_through
<1> HIDE DEF r, running, late
<1>5. CASE r.state = s /\ r.target = p
  BY ZenonT(30), <1>1, <1>5, WayInPlace, OutsideCounts DEF SameCounts, r
<1>6. CASE /\ HasDevelopmentTimebox /\ ~s.dev_timebox_active /\ p = dt.start_entry
           /\ r.state = running /\ r.target = p
  <2>1. Turns(s.phase, At(s, p), At(r.state, r.target))
    BY <1>2, <1>6 DEF Turns, At
  <2> QED BY <1>1, <1>2, <1>6, <2>1, WayTurns DEF r
<1>7. CASE /\ HasDevelopmentTimebox /\ s.dev_timebox_active /\ p = dt.guarded_entry
           /\ r.state = late /\ r.target = dt.finalization_target
  <2>1. Turns(s.phase, At(s, p), At(r.state, r.target))
    BY <1>3, <1>7 DEF Turns, At
  <2> QED BY <1>1, <1>3, <1>7, <2>1, WayTurns DEF r
<1> QED BY <1>4, <1>5, <1>6, <1>7 DEF r

\* Both deadlines in a row.
LEMMA TimeboxesWay ==
  ASSUME NEW s, Sound(s), NEW p \in Phases, NEW rt
  PROVE  Way(s, p, apply_timeboxes(s, p, rt))
<1> DEFINE c == apply_cycle_timebox(s, p, rt)
           d == apply_development_timebox(c.state, c.target, rt)
           e == [d EXCEPT !.started = c.started]
<1>1. Way(s, p, c)
  BY CycleTimeboxWay
<1>2. Way(c.state, c.target, d)
  BY <1>1, DevelopmentTimeboxWay DEF Way, SoundRoute
<1>3. \E t, q, x, y : d = [state |-> t, target |-> q, redirected |-> x, started |-> y]
  BY DEF apply_development_timebox, pass_through
<1>4. apply_timeboxes(s, p, rt) = e
  BY DEF apply_timeboxes, then_development_timebox
<1> HIDE DEF c, d
<1>5. e.state = d.state /\ e.target = d.target
  BY <1>3
<1> HIDE DEF e
<1> QED BY <1>1, <1>2, <1>4, <1>5, WayThenWay, WayOfSame

\* Passing over an exhausted phase is a turn.
LEMMA PassOverWay ==
  ASSUME NEW b, SoundRoute(b)
  PROVE  /\ Way(b.state, b.target, bypass_exhausted_phase(b))
         /\ ~is_exhausted(b.state, b.target) => bypass_exhausted_phase(b) = b
<1> DEFINE p == b.target
           c == LoopCounter[p]
           t == with_loop_iteration(b.state, c, 0)
           u == stamp_if_unrecorded(t, declared_forward_cycle_outcome(p))
           r == bypass_exhausted_phase(b)
<1>1. SoundRoute(r) /\ HasCounts(b.state) /\ p \in Phases /\ Sound(b.state)
  BY PassOverSound, SoundCounts DEF SoundRoute
<1>2. CASE ~is_exhausted(b.state, p)
  <2>1. r = b
    BY <1>2 DEF bypass_exhausted_phase
  <2>2. SameCounts(b.state, b.state)
    BY <1>1, OutsideCounts
  <2> HIDE DEF r
  <2>3. Way(b.state, p, r)
    BY <1>1, <2>1, <2>2, WayInPlace DEF SameCounts
  <2> QED BY <2>1, <2>3 DEF r
<1>3. CASE is_exhausted(b.state, p)
  <2>1. r.state = u /\ r.target = OnSuccess[p] /\ Spent(b.state.loop_iterations, p)
    BY <1>3 DEF bypass_exhausted_phase, is_exhausted, should_skip_reentry, Spent
  <2>2. /\ SamePlace(b.state, t)
        /\ t.loop_iterations = [b.state.loop_iterations EXCEPT ![c] = 0]
        /\ t.dev_timebox_active = b.state.dev_timebox_active
        /\ t.post_commit_phase_override = b.state.post_commit_phase_override
    BY <1>1 DEF with_loop_iteration, SamePlace, HasCounts, Counts
  <2> HIDE DEF t
  <2>3. SameCounts(t, u)
    BY <2>2, OutsideCounts DEF SamePlace
  <2> HIDE DEF u
  <2>4. SamePlace(b.state, u)
    BY <2>2, <2>3 DEF SameCounts, SamePlace
  <2>5. At(u, OnSuccess[p]) = At(t, OnSuccess[p])
    BY <2>3, AtSame
  <2>6. Turns(b.state.phase, At(b.state, p), At(t, OnSuccess[p]))
    BY <2>1, <2>2 DEF Turns, At
  <2> HIDE DEF r
  <2>7. Way(b.state, p, r)
    BY <1>1, <2>1, <2>4, <2>5, <2>6, WayTurns
  <2> QED BY <1>3, <2>7 DEF r
<1> QED BY <1>2, <1>3

\* What two turns past exhausted phases end in is not exhausted, because no
\* three looping phases follow each other.
LEMMA PassOverFresh ==
  ASSUME NEW s, Sound(s), NEW p \in Phases
  PROVE  LET b == resolve_exhausted_analysis_bypass(s, p)
         IN  /\ Way(s, p, b)
             /\ ~is_exhausted(b.state, b.target)
             /\ b.skipped = {} => b.target = p /\ b.state = s
             /\ b.skipped # {} => is_exhausted(s, p)
<1> DEFINE a0 == [state |-> s, target |-> p, skipped |-> {}]
           a1 == bypass_exhausted_phase(a0)
           a2 == bypass_exhausted_phase(a1)
<1>1. resolve_exhausted_analysis_bypass(s, p) = a2
  BY DEF resolve_exhausted_analysis_bypass
<1>2. a0.state = s /\ a0.target = p /\ a0.skipped = {} /\ SoundRoute(a0)
  BY DEF SoundRoute
<1> HIDE DEF a0
<1>3. Way(s, p, a1)
  BY <1>2, PassOverWay
<1>4. SoundRoute(a1)
  BY <1>3 DEF Way
<1>5. is_exhausted(s, p) =>
        a1.target = OnSuccess[p] /\ LoopCounter[p] # NONE /\ p \in a1.skipped
  BY <1>2 DEF bypass_exhausted_phase, is_exhausted
<1>6. ~is_exhausted(s, p) => a1 = a0
  BY <1>2, PassOverWay
<1> HIDE DEF a1
<1>7. Way(a1.state, a1.target, a2)
  BY <1>4, PassOverWay
<1>8. Way(s, p, a2)
  BY <1>3, <1>7, WayThenWay
<1>9. is_exhausted(a1.state, a1.target) =>
        /\ a2.target = OnSuccess[a1.target] /\ LoopCounter[a1.target] # NONE
        /\ a1.target \in a2.skipped
  BY DEF bypass_exhausted_phase, is_exhausted
<1>10. ~is_exhausted(a1.state, a1.target) => a2 = a1
  BY <1>4, PassOverWay
<1> HIDE DEF a2
<1>11. CASE ~is_exhausted(s, p)
  BY <1>1, <1>2, <1>6, <1>8, <1>10, <1>11
<1>12. CASE is_exhausted(s, p)
  <2>1. CASE ~is_exhausted(a1.state, a1.target)
    BY <1>1, <1>5, <1>8, <1>10, <1>12, <2>1
  <2>2. CASE is_exhausted(a1.state, a1.target)
    <3>1. LoopCounter[a2.target] = NONE
      BY <1>5, <1>9, <1>12, <2>2, BypassDepthAssumption
    <3>2. ~is_exhausted(a2.state, a2.target)
      BY <3>1 DEF is_exhausted
    <3>3. a2.skipped # {}
      BY <1>9, <2>2
    <3> QED BY <1>1, <1>8, <1>12, <3>2, <3>3
  <2> QED BY <2>1, <2>2
<1> QED BY <1>11, <1>12

\* Passing over the exhausted phases, from the phase aimed at or from an
\* exhausted phase whose successor is aimed at (exhausted_bypass).
LEMMA BypassWay ==
  ASSUME NEW s, s.phase \in Phases, NEW d, SoundRoute(d), d.state.phase = s.phase
  PROVE  LET b == exhausted_bypass(s, d)
         IN  /\ Way(d.state, d.target, b)
             /\ ~is_exhausted(b.state, b.target)
             /\ b.skipped = {} => b.target = d.target /\ b.state = d.state
             /\ b.skipped # {} =>
                  \/ LoopCounter[d.target] # NONE
                  \/ Role[s.phase] = "analysis" /\ OnSuccess[s.phase] = d.target
<1> DEFINE x == s.phase
           own == resolve_exhausted_analysis_bypass(d.state, x)
           ahead == resolve_exhausted_analysis_bypass(d.state, d.target)
           a0 == [state |-> d.state, target |-> x, skipped |-> {}]
           a1 == bypass_exhausted_phase(a0)
           a2 == bypass_exhausted_phase(a1)
<1>1. Sound(d.state) /\ d.target \in Phases
  BY DEF SoundRoute
<1>2. /\ Way(d.state, d.target, ahead)
      /\ ~is_exhausted(ahead.state, ahead.target)
      /\ ahead.skipped = {} => ahead.target = d.target /\ ahead.state = d.state
      /\ ahead.skipped # {} => is_exhausted(d.state, d.target)
  BY <1>1, PassOverFresh
<1>3. /\ ~is_exhausted(own.state, own.target)
      /\ own.skipped # {} => is_exhausted(d.state, x)
  BY <1>1, PassOverFresh
<1>4. ASSUME Role[x] = "analysis", OnSuccess[x] = d.target, own.skipped # {}
      PROVE  Way(d.state, d.target, own)
  <2>1. own = a2
    BY DEF resolve_exhausted_analysis_bypass
  <2>2. a0.state = d.state /\ a0.target = x /\ SoundRoute(a0)
    BY <1>1 DEF SoundRoute
  <2>3. a1.target = d.target /\ Spent(d.state.loop_iterations, x)
    BY <1>3, <1>4, <2>2 DEF bypass_exhausted_phase, is_exhausted,
       should_skip_reentry, Spent
  <2>4. SoundRoute(a1)
    BY <2>2, PassOverSound
  <2>5. /\ SamePlace(d.state, a1.state)
        /\ a1.state.loop_iterations = [d.state.loop_iterations EXCEPT ![LoopCounter[x]] = 0]
        /\ a1.state.dev_timebox_active = d.state.dev_timebox_active
        /\ a1.state.post_commit_phase_override = d.state.post_commit_phase_override
    <3> DEFINE t == with_loop_iteration(d.state, LoopCounter[x], 0)
               u == stamp_if_unrecorded(t, declared_forward_cycle_outcome(x))
    <3>1. a1.state = u
      BY <1>3, <1>4, <2>2 DEF bypass_exhausted_phase
    <3>2. /\ SamePlace(d.state, t)
          /\ t.loop_iterations = [d.state.loop_iterations EXCEPT ![LoopCounter[x]] = 0]
          /\ t.dev_timebox_active = d.state.dev_timebox_active
          /\ t.post_commit_phase_override = d.state.post_commit_phase_override
      BY <1>1, SoundCounts DEF with_loop_iteration, SamePlace, HasCounts, Counts
    <3> HIDE DEF t
    <3>3. SameCounts(t, u)
      BY <3>2, OutsideCounts DEF SamePlace
    <3> HIDE DEF u, a1
    <3> QED BY <3>1, <3>2, <3>3 DEF SameCounts, SamePlace
  <2> HIDE DEF a1
  <2>6. Turns(d.state.phase, At(d.state, d.target), At(a1.state, a1.target))
    BY <1>4, <2>3, <2>5 DEF Turns, At
  <2>7. Way(d.state, d.target, a1)
    BY <1>1, <2>4, <2>5, <2>6, WayTurns
  <2>8. Way(a1.state, a1.target, a2)
    BY <2>4, PassOverWay
  <2> HIDE DEF a2
  <2> QED BY <2>1, <2>7, <2>8, WayThenWay
<1>5. is_exhausted(d.state, d.target) => LoopCounter[d.target] # NONE
  BY DEF is_exhausted
<1>6. exhausted_bypass(s, d) =
        IF Role[x] = "analysis" /\ OnSuccess[x] = d.target /\ own.skipped # {}
        THEN own ELSE ahead
  BY DEF exhausted_bypass
<1> HIDE DEF own, ahead
<1> QED BY <1>2, <1>3, <1>4, <1>5, <1>6

\* Stopping the timers an advance leaves behind: neither runs on in the
\* phase that ends it.
LEMMA ConcludedWay ==
  ASSUME NEW w, SoundRoute(w)
  PROVE  LET r == concluded_if_leaving_cycle(w)
         IN  /\ Way(w.state, w.target, r)
             /\ r.target = w.target
             /\ r.state.loop_iterations = w.state.loop_iterations
             /\ r.state.post_commit_phase_override = w.state.post_commit_phase_override
             /\ r.state.cycle_timebox_active => w.state.cycle_timebox_active
             /\ r.state.dev_timebox_active => w.state.dev_timebox_active
             /\ HasCycleTimebox /\ r.target = cycle_timebox.end_entry
                  => ~r.state.cycle_timebox_active
             /\ HasDevelopmentTimebox /\ r.target = development_timebox.end_entry
                  => ~r.state.dev_timebox_active
<1> DEFINE q == w.target
           t == conclude_cycle_on_route_out_of_cycle(w.state, q)
           u == conclude_development_timebox_on_route_out_of_development(t, q)
           r == concluded_if_leaving_cycle(w)
           halted == [w.state EXCEPT !.cycle_timebox_active = FALSE]
           stopped == [t EXCEPT !.dev_timebox_active = FALSE,
                                !.dev_timebox_consumed_seconds = 0]
<1>1. /\ Sound(w.state) /\ q \in Phases /\ HasCounts(w.state)
      /\ w.state.dev_timebox_active \in BOOLEAN
  BY SoundCounts DEF SoundRoute
<1>2. /\ SamePlace(w.state, halted)
      /\ halted.loop_iterations = w.state.loop_iterations
      /\ halted.post_commit_phase_override = w.state.post_commit_phase_override
      /\ halted.dev_timebox_active = w.state.dev_timebox_active
      /\ halted.cycle_timebox_active = FALSE
  BY <1>1 DEF SamePlace, HasCounts, Counts
<1>3. t = IF HasCycleTimebox /\ q = cycle_timebox.end_entry THEN halted ELSE w.state
  BY DEF conclude_cycle_on_route_out_of_cycle
<1>4. SamePlace(w.state, w.state)
  BY <1>1, OutsideCounts DEF SameCounts
<1> HIDE DEF halted
<1>5. /\ SamePlace(w.state, t)
      /\ t.loop_iterations = w.state.loop_iterations
      /\ t.post_commit_phase_override = w.state.post_commit_phase_override
      /\ t.dev_timebox_active = w.state.dev_timebox_active
      /\ t.cycle_timebox_active => w.state.cycle_timebox_active
      /\ HasCycleTimebox /\ q = cycle_timebox.end_entry => ~t.cycle_timebox_active
  BY <1>2, <1>3, <1>4
<1>6. Sound(t) /\ Sound(u)
  BY <1>1, ConcludedSound
<1> HIDE DEF t
<1>7. /\ SamePlace(t, stopped)
      /\ stopped.loop_iterations = t.loop_iterations
      /\ stopped.post_commit_phase_override = t.post_commit_phase_override
      /\ stopped.cycle_timebox_active = t.cycle_timebox_active
      /\ stopped.dev_timebox_active = FALSE
  BY <1>5 DEF SamePlace, HasCounts, Counts
<1>8. u = IF /\ HasDevelopmentTimebox /\ t.dev_timebox_active
             /\ q = development_timebox.end_entry
          THEN stopped ELSE t
  BY DEF conclude_development_timebox_on_route_out_of_development
<1>9. SamePlace(t, t)
  BY <1>5 DEF SamePlace
<1> HIDE DEF stopped
<1>10. /\ SamePlace(w.state, u)
       /\ u.loop_iterations = t.loop_iterations
       /\ u.post_commit_phase_override = t.post_commit_phase_override
       /\ u.cycle_timebox_active = t.cycle_timebox_active
       /\ u.dev_timebox_active => t.dev_timebox_active
       /\ HasDevelopmentTimebox /\ q = development_timebox.end_entry
            => ~u.dev_timebox_active
       /\ \/ u.dev_timebox_active = t.dev_timebox_active
          \/ /\ HasDevelopmentTimebox /\ q = development_timebox.end_entry
  <2>1. SamePlace(w.state, u)
    BY <1>5, <1>7, <1>8 DEF SamePlace
  <2> QED BY <1>7, <1>8, <2>1
<1>11. r = pass_through(u, q)
  BY DEF concluded_if_leaving_cycle, t
<1> HIDE DEF u
<1>12. r.state = u /\ r.target = q
  BY SMTT(30), <1>11, DecisionFields
<1> HIDE DEF r
<1>13. Way(w.state, q, r)
  <2>1. SoundRoute(r)
    BY <1>1, <1>6, <1>12 DEF SoundRoute
  <2>2. CASE u.dev_timebox_active = t.dev_timebox_active
    BY <1>1, <1>5, <1>10, <1>12, <2>1, <2>2, WayInPlace
  <2>3. CASE /\ HasDevelopmentTimebox /\ q = development_timebox.end_entry
    <3>1. Turns(w.state.phase, At(w.state, q), At(r.state, r.target))
      BY <1>5, <1>10, <1>12, <2>3 DEF Turns, At
    <3> QED BY <1>1, <1>10, <1>12, <2>1, <3>1, WayTurns
  <2> QED BY <1>10, <2>2, <2>3
<1> QED BY <1>5, <1>10, <1>12, <1>13 DEF r

\* Neither the verdict nor the phase a failure goes back to is touched.
LEMMA ConcludedKeeps ==
  ASSUME NEW w, Sound(w.state)
  PROVE  LET r == concluded_if_leaving_cycle(w)
         IN  /\ r.state.previous_phase = w.state.previous_phase
             /\ r.state.pending_cycle_outcome = w.state.pending_cycle_outcome
<1> DEFINE t == conclude_cycle_on_route_out_of_cycle(w.state, w.target)
           u == conclude_development_timebox_on_route_out_of_development(t, w.target)
<1>1. /\ {"previous_phase", "pending_cycle_outcome"} \subseteq DOMAIN t
      /\ t.previous_phase = w.state.previous_phase
      /\ t.pending_cycle_outcome = w.state.pending_cycle_outcome
  BY DEF conclude_cycle_on_route_out_of_cycle, Sound, State
<1>2. concluded_if_leaving_cycle(w).state = u
  BY DecisionFields DEF concluded_if_leaving_cycle
<1> HIDE DEF t
<1>3. /\ u.previous_phase = t.previous_phase
      /\ u.pending_cycle_outcome = t.pending_cycle_outcome
  BY <1>1 DEF conclude_development_timebox_on_route_out_of_development
<1> QED BY <1>1, <1>2, <1>3

\* The phases deadlines lead to.
Finals ==
  (IF HasCycleTimebox THEN {cycle_timebox.finalization_target} ELSE {})
  \cup (IF HasDevelopmentTimebox THEN {development_timebox.finalization_target} ELSE {})

\* A deadline keeps the loops, and the target unless it leads to a final.
LEMMA TimeboxesKeepLoops ==
  ASSUME NEW s, Sound(s), NEW p \in Phases, NEW rt
  PROVE  LET d == apply_timeboxes(s, p, rt)
         IN  /\ d.state.loop_iterations = s.loop_iterations
             /\ d.target \in {p} \cup Finals
<1> DEFINE c == apply_cycle_timebox(s, p, rt)
           d == apply_development_timebox(c.state, c.target, rt)
           e == [d EXCEPT !.started = c.started]
<1>1. ASSUME NEW t, HasCounts(t), NEW q
      PROVE  LET k == apply_cycle_timebox(t, q, rt)
             IN  /\ k.state.loop_iterations = t.loop_iterations
                 /\ k.target \in {q} \cup Finals
  <2> DEFINE late == stamp_if_unrecorded(t, cycle_timebox.finalization_cycle_outcome)
             k == apply_cycle_timebox(t, q, rt)
  <2>1. SameCounts(t, late)
    BY <1>1, OutsideCounts
  <2>2. started(t).loop_iterations = t.loop_iterations
    BY <1>1 DEF started, HasCounts, Counts
  <2>3. /\ k.state \in {started(t), t, late}
        /\ k.target \in {q} \cup Finals
    BY DEF apply_cycle_timebox, pass_through, Finals
  <2> HIDE DEF late, k
  <2> QED BY <2>1, <2>2, <2>3 DEF SameCounts, k
<1>2. ASSUME NEW t, HasCounts(t), NEW q
      PROVE  LET k == apply_development_timebox(t, q, rt)
             IN  /\ k.state.loop_iterations = t.loop_iterations
                 /\ k.target \in {q} \cup Finals
  <2> DEFINE running == [t EXCEPT !.dev_timebox_active = TRUE,
                                  !.dev_timebox_consumed_seconds = 0]
             late(v) == [t EXCEPT !.post_commit_phase_override = v]
             k == apply_development_timebox(t, q, rt)
  <2>1. /\ running.loop_iterations = t.loop_iterations
        /\ \A v : late(v).loop_iterations = t.loop_iterations
    BY <1>2 DEF HasCounts, Counts
  <2>2. /\ k.state \in {running, t} \/ \E v : k.state = late(v)
        /\ k.target \in {q} \cup Finals
    BY DEF apply_development_timebox, pass_through, Finals
  <2> HIDE DEF running, late, k
  <2> QED BY <2>1, <2>2 DEF k
<1>3. HasCounts(s) /\ HasCounts(c.state)
  <2>1. Sound(c.state)
    BY TimeboxesSound DEF SoundRoute
  <2> HIDE DEF c
  <2> QED BY <2>1, SoundCounts
<1>4. c.state.loop_iterations = s.loop_iterations /\ c.target \in {p} \cup Finals
  BY <1>1, <1>3
<1>5. d.state.loop_iterations = c.state.loop_iterations /\ d.target \in {c.target} \cup Finals
  BY <1>2, <1>3
<1>6. \E t, q, x, y : d = [state |-> t, target |-> q, redirected |-> x, started |-> y]
  BY DEF apply_development_timebox, pass_through
<1>7. apply_timeboxes(s, p, rt) = e
  BY DEF apply_timeboxes, then_development_timebox
<1> HIDE DEF c, d
<1>8. e.state = d.state /\ e.target = d.target
  BY <1>6
<1> HIDE DEF e
<1> QED BY <1>4, <1>5, <1>7, <1>8

\* Past the exhausted phases: where no deadline leads, routing ends in no
\* exhausted phase (_prepare_phase_advance after its first deadlines).
LEMMA PastExhaustedWay ==
  ASSUME NEW s, s.phase \in Phases, NEW d, SoundRoute(d), d.state.phase = s.phase, NEW rt
  PROVE  LET r == past_exhausted_phases(s, d, rt)
         IN  /\ Way(d.state, d.target, r)
             /\ r.target \notin Finals => ~is_exhausted(r.state, r.target)
             /\ HasCycleTimebox /\ r.target = cycle_timebox.end_entry
                  => ~r.state.cycle_timebox_active
             /\ HasDevelopmentTimebox /\ r.target = development_timebox.end_entry
                  => ~r.state.dev_timebox_active
<1> DEFINE b == exhausted_bypass(s, d)
           w == with_bypassed_cycle_timing(b, rt, d.started)
           r == concluded_if_leaving_cycle(w)
           e == apply_timeboxes(b.state, b.target, rt)
           f == start_cycle_for_bypassed_start_source(e.state, e.target, b.skipped)
<1>3. Way(d.state, d.target, b) /\ ~is_exhausted(b.state, b.target)
  BY BypassWay
<1>4. SoundRoute(b)
  BY <1>3 DEF Way
<1> HIDE DEF b
<1>5. /\ Way(b.state, b.target, w)
      /\ w.state.loop_iterations = b.state.loop_iterations
      /\ w.target \in {b.target} \cup Finals
  <2>1. Sound(b.state) /\ b.target \in Phases
    BY <1>4 DEF SoundRoute
  <2>2. Way(b.state, b.target, e)
    BY <2>1, TimeboxesWay
  <2>3. e.state.loop_iterations = b.state.loop_iterations /\ e.target \in {b.target} \cup Finals
    BY <2>1, TimeboxesKeepLoops
  <2>4. SoundRoute(e)
    BY <2>2 DEF Way
  <2> HIDE DEF e
  <2>5. Sound(e.state) /\ e.target \in Phases /\ HasCounts(e.state)
    BY <2>4, SoundCounts DEF SoundRoute
  <2>6. /\ SamePlace(e.state, f) /\ f.loop_iterations = e.state.loop_iterations
        /\ f.dev_timebox_active = e.state.dev_timebox_active
        /\ f.post_commit_phase_override = e.state.post_commit_phase_override
    BY <2>5 DEF start_cycle_for_bypassed_start_source, started, SamePlace,
       HasCounts, Counts
  <2>7. Sound(f)
    <3>1. Sound([e.state EXCEPT !.cycle_timebox_active = TRUE])
      BY <2>5, Update
    <3>2. Sound([e.state EXCEPT !.cycle_timebox_active = TRUE,
                                !.cycle_timebox_consumed_seconds = 0])
      BY <3>1, Update
    <3> QED BY <2>5, <3>2 DEF start_cycle_for_bypassed_start_source, started
  <2> HIDE DEF f
  <2>8. CASE w = pass_through(f, e.target)
    <3>1. w.state = f /\ w.target = e.target
      BY SMTT(30), <2>8, DecisionFields
    <3> HIDE DEF w
    <3>2. Way(e.state, e.target, w)
      BY <2>5, <2>6, <2>7, <3>1, WayInPlace DEF SoundRoute
    <3> QED BY <2>2, <2>3, <2>6, <3>1, <3>2, WayThenWay
  <2>9. CASE w = pass_through(b.state, b.target)
    <3>1. w.state = b.state /\ w.target = b.target
      BY SMTT(30), <2>9, DecisionFields
    <3>2. SameCounts(b.state, b.state)
      BY <2>1, SoundCounts, OutsideCounts
    <3> HIDE DEF w
    <3>3. Way(b.state, b.target, w)
      BY <2>1, <3>1, <3>2, WayInPlace DEF SoundRoute, SameCounts
    <3> QED BY <3>1, <3>3
  <2> QED BY <2>8, <2>9 DEF with_bypassed_cycle_timing,
     bypassed_source_started, e, f
<1> HIDE DEF w
<1>6. Way(d.state, d.target, w) /\ SoundRoute(w)
  BY <1>3, <1>5, WayThenWay DEF Way
<1>7. /\ Way(w.state, w.target, r) /\ r.target = w.target
      /\ r.state.loop_iterations = w.state.loop_iterations
      /\ HasCycleTimebox /\ r.target = cycle_timebox.end_entry
           => ~r.state.cycle_timebox_active
      /\ HasDevelopmentTimebox /\ r.target = development_timebox.end_entry
           => ~r.state.dev_timebox_active
  BY <1>6, ConcludedWay
<1>8. past_exhausted_phases(s, d, rt) = r
  BY DEF past_exhausted_phases, b, w
<1> HIDE DEF r
<1>9. Way(d.state, d.target, r)
  BY <1>6, <1>7, WayThenWay
<1>10. r.target \notin Finals => ~is_exhausted(r.state, r.target)
  BY <1>3, <1>5, <1>7 DEF is_exhausted
<1> QED BY <1>7, <1>8, <1>9, <1>10

\* Routing is a way, from the first deadline to the timers it stops.
LEMMA RoutingWay ==
  ASSUME NEW s, Sound(s), NEW p \in Phases, NEW rt
  PROVE  LET r == prepare_phase_advance(s, p, rt)
         IN  /\ Way(s, p, r)
             /\ r.target \notin Finals => ~is_exhausted(r.state, r.target)
             /\ HasCycleTimebox /\ r.target = cycle_timebox.end_entry
                  => ~r.state.cycle_timebox_active
             /\ HasDevelopmentTimebox /\ r.target = development_timebox.end_entry
                  => ~r.state.dev_timebox_active
<1> DEFINE d == apply_timeboxes(s, p, rt)
           r == past_exhausted_phases(s, d, rt)
<1>1. Way(s, p, d)
  BY TimeboxesWay
<1>2. SoundRoute(d) /\ d.state.phase = s.phase /\ s.phase \in Phases
  BY <1>1, SoundCounts DEF Way, SamePlace
<1>3. prepare_phase_advance(s, p, rt) = r
  BY DEF prepare_phase_advance
<1> HIDE DEF d
<1>4. /\ Way(d.state, d.target, r)
      /\ r.target \notin Finals => ~is_exhausted(r.state, r.target)
      /\ HasCycleTimebox /\ r.target = cycle_timebox.end_entry
           => ~r.state.cycle_timebox_active
      /\ HasDevelopmentTimebox /\ r.target = development_timebox.end_entry
           => ~r.state.dev_timebox_active
  BY <1>2, PastExhaustedWay
<1> HIDE DEF r
<1>5. Way(s, p, r)
  BY <1>1, <1>4, WayThenWay
<1> QED BY <1>3, <1>4, <1>5

\* A phase that does not loop is where an advance aimed at it ends, with the
\* loops, the verdict and the route as they are, unless its deadline is up.
LEMMA RoutingPlain ==
  ASSUME NEW s, Sound(s), NEW p \in Phases, NEW rt,
         LoopCounter[p] = NONE,
         ~(Role[s.phase] = "analysis" /\ OnSuccess[s.phase] = p),
         ~(HasDevelopmentTimebox /\ s.dev_timebox_active
             /\ p = development_timebox.guarded_entry)
  PROVE  LET r == prepare_phase_advance(s, p, rt)
         IN  \/ /\ HasCycleTimebox /\ p = cycle_timebox.guarded_entry
                /\ Onward(s.phase, At(s, cycle_timebox.finalization_target),
                          At(r.state, r.target))
             \/ /\ r.target = p
                /\ r.state.loop_iterations = s.loop_iterations
                /\ r.state.pending_cycle_outcome = s.pending_cycle_outcome
                /\ r.state.post_commit_phase_override = s.post_commit_phase_override
                /\ r.state.cycle_timebox_active =>
                     \/ s.cycle_timebox_active
                     \/ HasCycleTimebox /\ s.phase = cycle_timebox.start_source
<1> DEFINE c == apply_cycle_timebox(s, p, rt)
           k == apply_development_timebox(c.state, c.target, rt)
           d == [k EXCEPT !.started = c.started]
           r == past_exhausted_phases(s, d, rt)
           final == cycle_timebox.finalization_target
           late == stamp_if_unrecorded(s, cycle_timebox.finalization_cycle_outcome)
<1>1. prepare_phase_advance(s, p, rt) = r
  BY DEF prepare_phase_advance, apply_timeboxes, then_development_timebox
<1>2. Way(s, p, c) /\ SoundRoute(c) /\ HasCounts(s) /\ s.phase \in Phases
  BY CycleTimeboxWay, SoundCounts DEF Way
<1>3. \/ c.state = s /\ c.target = p
      \/ /\ c.state = started(s) /\ c.target = p
         /\ HasCycleTimebox /\ s.phase = cycle_timebox.start_source
      \/ /\ HasCycleTimebox /\ p = cycle_timebox.guarded_entry
         /\ c.state = late /\ c.target = final
  BY DEF apply_cycle_timebox, pass_through
<1>4. k.state.phase = c.state.phase /\ Way(c.state, c.target, k) /\ SoundRoute(k)
  BY SMTT(30), <1>2, DevelopmentTimeboxWay DEF Way, SoundRoute, SamePlace
<1>5. \E t, q, x, y : k = [state |-> t, target |-> q, redirected |-> x, started |-> y]
  BY DEF apply_development_timebox, pass_through
<1>6. ASSUME c.target = p, c.state.dev_timebox_active = s.dev_timebox_active
      PROVE  /\ k.target = p
             /\ k.state \in {c.state, [c.state EXCEPT !.dev_timebox_active = TRUE,
                                             !.dev_timebox_consumed_seconds = 0]}
  BY <1>6 DEF apply_development_timebox, pass_through
<1> HIDE DEF c, k
<1>7. d.state = k.state /\ d.target = k.target
  BY <1>5
<1> HIDE DEF d
<1>8. SoundRoute(d) /\ d.state.phase = s.phase
  BY <1>2, <1>4, <1>7 DEF SoundRoute, Way, SamePlace
<1>9. CASE /\ HasCycleTimebox /\ p = cycle_timebox.guarded_entry
           /\ c.state = late /\ c.target = final
  <2>1. Way(d.state, d.target, r)
    BY <1>2, <1>8, PastExhaustedWay
  <2>2. Way(c.state, c.target, d)
    BY <1>4, <1>7, WayOfSame
  <2> HIDE DEF r
  <2>3. Way(c.state, c.target, r)
    BY <2>1, <2>2, WayThenWay
  <2>4. SameCounts(s, late)
    BY <1>2, OutsideCounts
  <2> HIDE DEF late
  <2>5. late.phase = s.phase /\ At(late, final) = At(s, final)
    BY ZenonT(30), <2>4, AtSame DEF SamePlace
  <2>6. Onward(s.phase, At(s, final), At(r.state, r.target))
    BY <1>9, <2>3, <2>5 DEF Way
  <2> QED BY <1>1, <1>9, <2>6
<1>10. CASE /\ c.target = p
            /\ \/ c.state = s
               \/ /\ c.state = started(s)
                  /\ HasCycleTimebox /\ s.phase = cycle_timebox.start_source
  <2> DEFINE running == [c.state EXCEPT !.dev_timebox_active = TRUE,
                                        !.dev_timebox_consumed_seconds = 0]
  <2>0. "pending_cycle_outcome" \in DOMAIN s /\ HasCounts(s)
    BY <1>2 DEF Sound, State
  <2>1. /\ HasCounts(c.state) /\ "pending_cycle_outcome" \in DOMAIN c.state
        /\ c.state.dev_timebox_active = s.dev_timebox_active
        /\ c.state.loop_iterations = s.loop_iterations
        /\ c.state.pending_cycle_outcome = s.pending_cycle_outcome
        /\ c.state.post_commit_phase_override = s.post_commit_phase_override
        /\ c.state.cycle_timebox_active =>
             \/ s.cycle_timebox_active
             \/ HasCycleTimebox /\ s.phase = cycle_timebox.start_source
    BY <1>10, <2>0 DEF started, HasCounts, Counts
  <2>2. /\ running.loop_iterations = c.state.loop_iterations
        /\ running.pending_cycle_outcome = c.state.pending_cycle_outcome
        /\ running.post_commit_phase_override = c.state.post_commit_phase_override
        /\ running.cycle_timebox_active = c.state.cycle_timebox_active
    BY <2>1 DEF HasCounts, Counts
  <2>3. d.target = p /\ d.state \in {c.state, running}
    BY <1>6, <1>7, <1>10, <2>1
  <2> HIDE DEF running
  <2>4. /\ d.state.loop_iterations = s.loop_iterations
        /\ d.state.pending_cycle_outcome = s.pending_cycle_outcome
        /\ d.state.post_commit_phase_override = s.post_commit_phase_override
        /\ d.state.cycle_timebox_active = c.state.cycle_timebox_active
    BY <2>1, <2>2, <2>3
  <2> DEFINE b == exhausted_bypass(s, d)
  <2>5. /\ b.skipped = {} => b.target = d.target /\ b.state = d.state
        /\ b.skipped # {} =>
             \/ LoopCounter[d.target] # NONE
             \/ Role[s.phase] = "analysis" /\ OnSuccess[s.phase] = d.target
    BY <1>2, <1>8, BypassWay
  <2>6. b.skipped = {} /\ b.target = p /\ b.state = d.state
    BY <2>3, <2>5
  <2> DEFINE w == pass_through(d.state, p)
  <2>7. r = concluded_if_leaving_cycle(w)
    <3> HIDE DEF b
    <3>1. with_bypassed_cycle_timing(b, rt, d.started) = w
      BY <2>6 DEF with_bypassed_cycle_timing
    <3> QED BY <3>1 DEF past_exhausted_phases, b, r
  <2>8. w.state = d.state /\ w.target = p /\ SoundRoute(w)
    BY SMTT(30), <1>8, <2>3, DecisionFields DEF SoundRoute
  <2> HIDE DEF w, r
  <2>9. /\ r.target = w.target
        /\ r.state.loop_iterations = w.state.loop_iterations
        /\ r.state.post_commit_phase_override = w.state.post_commit_phase_override
        /\ r.state.cycle_timebox_active => w.state.cycle_timebox_active
    <3>1. LET cw == concluded_if_leaving_cycle(w)
          IN  /\ cw.target = w.target
              /\ cw.state.loop_iterations = w.state.loop_iterations
              /\ cw.state.post_commit_phase_override = w.state.post_commit_phase_override
              /\ cw.state.cycle_timebox_active => w.state.cycle_timebox_active
      BY <2>8, ConcludedWay
    <3> QED BY <2>7, <3>1
  <2>10. r.state.pending_cycle_outcome = w.state.pending_cycle_outcome
    BY <2>7, <2>8, ConcludedKeeps DEF SoundRoute
  <2> QED BY <1>1, <2>1, <2>4, <2>8, <2>9, <2>10
<1> QED BY <1>3, <1>9, <1>10

-----------------------------------------------------------------------------
(***************************************************************************)
(* What the handlers do to the counts.                                     *)
(***************************************************************************)
\* n is where an advance from s aimed at p ends.
Aims(s, p, n) ==
  /\ \E b, rt : /\ Sound(b) /\ SameCounts(s, b)
                /\ SameCounts(prepared_advance(b, p, rt), n)
  /\ n.phase = failed_route => n.previous_phase = s.phase

\* n is where s is, with the same counts and the same verdict.
KeepsCounts(s, n) ==
  /\ SameCounts(s, n)
  /\ n.previous_phase = s.previous_phase
  /\ n.pending_cycle_outcome = s.pending_cycle_outcome

\* The charged flag of a state that enters p.
FlagAt(p, flag) == IF Role[p] = "execution" THEN FALSE ELSE flag

\* A sound state keeps its own counts.
LEMMA KeepsItself ==
  ASSUME NEW s, Sound(s)
  PROVE  SameCounts(s, s) /\ KeepsCounts(s, s)
BY SoundCounts, OutsideCounts DEF KeepsCounts

\* What an advance ends in, before and after its verdict is settled
\* (_prepare_phase_advance, advance_phase of the reducer).
LEMMA AimsPrepared ==
  ASSUME NEW s, Sound(s), NEW p \in Phases, NEW rt
  PROVE  /\ Aims(s, p, prepared_advance(s, p, rt))
         /\ Aims(s, p, reducer_advance_phase(s, p, rt))
         /\ reducer_advance_phase(s, p, rt).previous_phase = s.phase
<1> DEFINE n == prepared_advance(s, p, rt)
           m == [n EXCEPT !.agent_invoked = s.agent_invoked,
                          !.recovery_epoch = s.recovery_epoch,
                          !.last_error = s.last_error]
<1>1. Sound(n) /\ n.previous_phase = s.phase
  <2> DEFINE r == prepare_phase_advance(s, p, rt)
  <2>1. Sound(r.state) /\ r.state.phase = s.phase
    BY RoutingWay DEF Way, SoundRoute, SamePlace
  <2>2. Sound(n)
    BY PreparedAdvanceSound
  <2>3. n = advance_phase(r.state, r.target)
    BY DEF prepared_advance, advance_to
  <2> HIDE DEF r, n
  <2>4. n.previous_phase = r.state.phase
    BY <2>1, <2>3 DEF advance_phase, Sound, State
  <2> QED BY <2>1, <2>2, <2>4
<1>2. reducer_advance_phase(s, p, rt) \in {m, n}
  BY DEF reducer_advance_phase, preserving_commit_retry
<1>3. SameCounts(s, s)
  BY KeepsItself
<1> HIDE DEF n
<1>4. HasCounts(n) /\ "previous_phase" \in DOMAIN n /\ SameCounts(n, n)
  BY <1>1, SoundCounts, OutsideCounts DEF Sound, State
<1>5. SameCounts(n, m) /\ m.previous_phase = n.previous_phase
  BY <1>4 DEF SameCounts, SamePlace, HasCounts, Counts
<1> HIDE DEF m
<1>6. ASSUME NEW a, a \in {m, n}
      PROVE  Aims(s, p, a) /\ a.previous_phase = s.phase
  <2>1. SameCounts(n, a) /\ a.previous_phase = s.phase
    BY <1>1, <1>4, <1>5, <1>6
  <2> QED BY <1>3, <2>1 DEF Aims, n
<1> QED BY <1>2, <1>6 DEF n

\* Advances from states with the same counts end alike.
LEMMA AimsFromSame ==
  ASSUME NEW s, NEW t, SameCounts(s, t), NEW p, NEW n, Aims(t, p, n)
  PROVE  Aims(s, p, n)
<1>1. PICK b, rt : /\ Sound(b) /\ SameCounts(t, b)
                   /\ SameCounts(prepared_advance(b, p, rt), n)
  BY DEF Aims
<1>2. SameCounts(s, b) /\ t.phase = s.phase
  BY <1>1, SameCountsTransitive DEF SameCounts, SamePlace
<1> QED BY <1>1, <1>2 DEF Aims

\* Where an advance ends.
LEMMA AimsLands ==
  ASSUME NEW s, NEW p \in Phases, NEW n, Aims(s, p, n)
  PROVE  /\ HasCounts(n) /\ n.phase \in Phases /\ n.iteration = s.iteration
         /\ n.execution_cycle_charged = FlagAt(n.phase, s.execution_cycle_charged)
         /\ Onward(s.phase, At(s, p), At(n, n.phase))
         /\ n.phase \notin Finals => ~is_exhausted(n, n.phase)
         /\ HasCycleTimebox /\ n.phase = cycle_timebox.end_entry
              => ~n.cycle_timebox_active
         /\ HasDevelopmentTimebox /\ n.phase = development_timebox.end_entry
              => ~n.dev_timebox_active
<1>1. PICK b, rt : /\ Sound(b) /\ SameCounts(s, b)
                   /\ SameCounts(prepared_advance(b, p, rt), n)
  BY DEF Aims
<1> DEFINE r == prepare_phase_advance(b, p, rt)
           a == advance_phase(r.state, r.target)
<1>2. prepared_advance(b, p, rt) = a
  BY DEF prepared_advance, advance_to
<1>3. /\ Way(b, p, r)
      /\ r.target \notin Finals => ~is_exhausted(r.state, r.target)
      /\ HasCycleTimebox /\ r.target = cycle_timebox.end_entry
           => ~r.state.cycle_timebox_active
      /\ HasDevelopmentTimebox /\ r.target = development_timebox.end_entry
           => ~r.state.dev_timebox_active
  BY <1>1, RoutingWay
<1> HIDE DEF r
<1>4. /\ SoundRoute(r) /\ HasCounts(r.state) /\ r.target \in Phases
      /\ r.state.iteration = b.iteration
      /\ r.state.execution_cycle_charged = b.execution_cycle_charged
      /\ Onward(b.phase, At(b, p), At(r.state, r.target))
  BY <1>3 DEF Way, SamePlace, SoundRoute
<1>5. /\ a.phase = r.target /\ a.iteration = r.state.iteration
      /\ a.loop_iterations = r.state.loop_iterations
      /\ a.execution_cycle_charged = FlagAt(r.target, r.state.execution_cycle_charged)
      /\ a.post_commit_phase_override = r.state.post_commit_phase_override
      /\ a.dev_timebox_active = r.state.dev_timebox_active
      /\ a.cycle_timebox_active = r.state.cycle_timebox_active
  <2>1. HasCounts(r.state)
    BY <1>4
  <2> QED BY <2>1 DEF advance_phase, FlagAt, HasCounts, Counts
<1> HIDE DEF a
<1>6. SameCounts(a, n) /\ HasCounts(n)
  BY <1>1, <1>2 DEF SameCounts, SamePlace
<1>7. /\ n.phase = r.target /\ n.iteration = s.iteration
      /\ n.loop_iterations = r.state.loop_iterations
      /\ n.execution_cycle_charged = FlagAt(r.target, s.execution_cycle_charged)
      /\ n.post_commit_phase_override = r.state.post_commit_phase_override
      /\ n.dev_timebox_active = r.state.dev_timebox_active
      /\ n.cycle_timebox_active = r.state.cycle_timebox_active
  <2>1. b.execution_cycle_charged = s.execution_cycle_charged /\ b.iteration = s.iteration
    BY <1>1 DEF SameCounts, SamePlace
  <2> QED BY <1>4, <1>5, <1>6, <2>1 DEF SameCounts, SamePlace
<1>8. At(n, n.phase) = At(r.state, r.target) /\ At(b, p) = At(s, p) /\ b.phase = s.phase
  BY ZenonT(30), <1>1, <1>7, AtSame DEF At, SamePlace
<1>9. is_exhausted(n, n.phase) <=> is_exhausted(r.state, r.target)
  BY <1>7 DEF is_exhausted
<1> QED BY <1>3, <1>4, <1>6, <1>7, <1>8, <1>9

\* An advance aimed at a phase that does not loop.
LEMMA AimsPlain ==
  ASSUME NEW s, NEW p \in Phases, NEW n, Aims(s, p, n),
         LoopCounter[p] = NONE,
         ~(Role[s.phase] = "analysis" /\ OnSuccess[s.phase] = p),
         ~(HasDevelopmentTimebox /\ s.dev_timebox_active
             /\ p = development_timebox.guarded_entry)
  PROVE  \/ /\ HasCycleTimebox /\ p = cycle_timebox.guarded_entry
            /\ Onward(s.phase, At(s, cycle_timebox.finalization_target), At(n, n.phase))
         \/ /\ n.phase = p
            /\ n.loop_iterations = s.loop_iterations
            /\ n.post_commit_phase_override = s.post_commit_phase_override
<1>1. PICK b, rt : /\ Sound(b) /\ SameCounts(s, b)
                   /\ SameCounts(prepared_advance(b, p, rt), n)
  BY DEF Aims
<1> DEFINE r == prepare_phase_advance(b, p, rt)
           a == advance_phase(r.state, r.target)
           final == cycle_timebox.finalization_target
<1>2. prepared_advance(b, p, rt) = a
  BY DEF prepared_advance, advance_to
<1>3. /\ b.phase = s.phase /\ b.dev_timebox_active = s.dev_timebox_active
      /\ At(b, final) = At(s, final) /\ b.loop_iterations = s.loop_iterations
      /\ b.post_commit_phase_override = s.post_commit_phase_override
  BY SMTT(30), <1>1, AtSame DEF SameCounts, SamePlace
<1>4. \/ /\ HasCycleTimebox /\ p = cycle_timebox.guarded_entry
         /\ Onward(b.phase, At(b, final), At(r.state, r.target))
      \/ /\ r.target = p
         /\ r.state.loop_iterations = b.loop_iterations
         /\ r.state.post_commit_phase_override = b.post_commit_phase_override
  <2>1. ~(Role[b.phase] = "analysis" /\ OnSuccess[b.phase] = p)
    BY <1>3
  <2>2. ~(HasDevelopmentTimebox /\ b.dev_timebox_active
            /\ p = development_timebox.guarded_entry)
    BY <1>3
  <2>3. \/ /\ HasCycleTimebox /\ p = cycle_timebox.guarded_entry
           /\ Onward(b.phase, At(b, final), At(r.state, r.target))
        \/ /\ r.target = p
           /\ r.state.loop_iterations = b.loop_iterations
           /\ r.state.pending_cycle_outcome = b.pending_cycle_outcome
           /\ r.state.post_commit_phase_override = b.post_commit_phase_override
           /\ r.state.cycle_timebox_active =>
                \/ b.cycle_timebox_active
                \/ HasCycleTimebox /\ b.phase = cycle_timebox.start_source
    BY <1>1, <2>1, <2>2, RoutingPlain
  <2> QED BY <2>3
<1>5. Way(b, p, r)
  BY <1>1, RoutingWay
<1> HIDE DEF r
<1>6. HasCounts(r.state)
  BY <1>5 DEF Way, SamePlace
<1>7. /\ a.phase = r.target
      /\ a.loop_iterations = r.state.loop_iterations
      /\ a.post_commit_phase_override = r.state.post_commit_phase_override
      /\ a.dev_timebox_active = r.state.dev_timebox_active
  BY <1>6 DEF advance_phase, HasCounts, Counts
<1> HIDE DEF a
<1>8. /\ n.phase = r.target
      /\ n.loop_iterations = r.state.loop_iterations
      /\ n.post_commit_phase_override = r.state.post_commit_phase_override
      /\ n.dev_timebox_active = r.state.dev_timebox_active
  BY <1>1, <1>2, <1>7 DEF SameCounts, SamePlace
<1>9. At(n, n.phase) = At(r.state, r.target)
  BY <1>8 DEF At
<1> QED BY <1>3, <1>4, <1>8, <1>9

\* n is s with loop c charged and flagged.
Charged(s, n, c) ==
  /\ HasCounts(n) /\ n.phase = s.phase /\ n.iteration = s.iteration
  /\ n.loop_iterations =
       [s.loop_iterations EXCEPT ![c] = next_completed(s.loop_iterations[c], Cap[c])]
  /\ n.execution_cycle_charged
  /\ n.post_commit_phase_override = s.post_commit_phase_override
  /\ n.dev_timebox_active = s.dev_timebox_active
  /\ n.cycle_timebox_active = s.cycle_timebox_active

\* n is the failed route, entered from s.
Failed(s, n) ==
  /\ HasCounts(n) /\ n.phase = failed_route /\ n.iteration = s.iteration
  /\ n.loop_iterations = s.loop_iterations
  /\ n.execution_cycle_charged = s.execution_cycle_charged
  /\ n.post_commit_phase_override = s.post_commit_phase_override
  /\ n.dev_timebox_active = s.dev_timebox_active
  /\ n.cycle_timebox_active = s.cycle_timebox_active

FailsFrom(s, n) ==
  /\ n.previous_phase = s.phase
  /\ \/ Failed(s, n)
     \/ /\ ExecutionCycleCounter[s.phase] # NONE
        /\ \E a : Failed(s, a) /\ Charged(a, n, ExecutionCycleCounter[s.phase])

\* The same counts are the same failure and the same charge.
LEMMA FailedOfSame ==
  ASSUME NEW s, NEW n, NEW m, SameCounts(n, m)
  PROVE  /\ Failed(s, n) => Failed(s, m)
         /\ \A c : Charged(s, n, c) => Charged(s, m, c)
         /\ FailsFrom(s, n) /\ m.previous_phase = n.previous_phase => FailsFrom(s, m)
<1>1. Failed(s, n) => Failed(s, m)
  BY DEF Failed, SameCounts, SamePlace
<1>2. \A a, c : Charged(a, n, c) => Charged(a, m, c)
  BY DEF Charged, SameCounts, SamePlace
<1> QED BY <1>1, <1>2 DEF FailsFrom

\* And failures of states with the same counts are alike.
LEMMA FailedFromSame ==
  ASSUME NEW s, NEW t, SameCounts(s, t), NEW n, FailsFrom(t, n)
  PROVE  FailsFrom(s, n)
<1>1. \A a : Failed(t, a) => Failed(s, a)
  BY DEF Failed, SameCounts, SamePlace
<1>2. t.phase = s.phase
  BY DEF SameCounts, SamePlace
<1> QED BY <1>1, <1>2 DEF FailsFrom

\* The failed route is entered by advance_phase.
LEMMA FailedAdvance ==
  ASSUME NEW s, Sound(s)
  PROVE  /\ Failed(s, advance_phase(s, failed_route))
         /\ Sound(advance_phase(s, failed_route))
         /\ advance_phase(s, failed_route).previous_phase = s.phase
<1>1. Role[failed_route] # "execution" /\ failed_route \in Phases
  BY FailedRouteIsTerminal, NamesAssumption
<1>2. HasCounts(s)
  BY SoundCounts
<1>3. Failed(s, advance_phase(s, failed_route))
  BY <1>1, <1>2 DEF advance_phase, Failed, HasCounts, Counts
<1>4. Sound(advance_phase(s, failed_route))
  BY <1>1, AdvanceSound
<1>5. advance_phase(s, failed_route).previous_phase = s.phase
  BY DEF advance_phase, Sound, State
<1> QED BY <1>3, <1>4, <1>5

\* The failed route is entered by _enter_failed_recovery, the controller's
\* verdict, or ExitFailureEffect.
LEMMA FailuresCount ==
  ASSUME NEW s, Sound(s), NEW reason
  PROVE  /\ FailsFrom(s, enter_failed_recovery(s, reason))
         /\ FailsFrom(s, exit_failure(s)) /\ Failed(s, exit_failure(s))
         /\ \A counted : LET v == controller_fails_phase(s, reason, counted)
                         IN  /\ FailsFrom(s, v)
                             /\ FailsFrom(s, reduce_phase_failure(s, v))
<1> DEFINE a == advance_phase(s, failed_route)
           c == ExecutionCycleCounter[s.phase]
<1>1. Failed(s, a) /\ Sound(a) /\ a.previous_phase = s.phase
  BY FailedAdvance
<1>2. s.phase \in Phases /\ c \in OrNone(LoopCounters)
  BY SoundCounts, CountersAssumption
<1> HIDE DEF a, c
<1>3. HasCounts(a) /\ "previous_phase" \in DOMAIN a
  BY <1>1 DEF Failed, Sound, State
<1>4. ASSUME NEW n, SameCounts(a, n), n.previous_phase = a.previous_phase,
             "previous_phase" \in DOMAIN n
      PROVE  /\ Failed(s, n) /\ FailsFrom(s, n)
             /\ FailsFrom(s, apply_execution_cycle_outcome(s, n))
  <2>1. Failed(s, n) /\ FailsFrom(s, n)
    BY <1>1, <1>4, FailedOfSame DEF FailsFrom
  <2> DEFINE k == next_completed(s.loop_iterations[c], Cap[c])
             m == [with_loop_iteration(n, c, k) EXCEPT !.execution_cycle_charged = TRUE]
  <2>2. apply_execution_cycle_outcome(s, n) = IF c = NONE THEN n ELSE m
    BY DEF apply_execution_cycle_outcome, c
  <2>3. ASSUME c # NONE
        PROVE  FailsFrom(s, m)
    <3>1. n.loop_iterations = s.loop_iterations
      BY <2>1 DEF Failed
    <3> HIDE DEF k
    <3>2. /\ HasCounts(m) /\ m.phase = n.phase /\ m.iteration = n.iteration
          /\ m.loop_iterations = [n.loop_iterations EXCEPT ![c] = k]
          /\ m.execution_cycle_charged
          /\ m.post_commit_phase_override = n.post_commit_phase_override
          /\ m.dev_timebox_active = n.dev_timebox_active
          /\ m.cycle_timebox_active = n.cycle_timebox_active
          /\ m.previous_phase = n.previous_phase
      BY <1>4 DEF with_loop_iteration, SameCounts, SamePlace, HasCounts, Counts
    <3> HIDE DEF m
    <3>3. k = next_completed(n.loop_iterations[c], Cap[c])
      BY <3>1 DEF k
    <3>4. Charged(n, m, c)
      BY <3>2, <3>3 DEF Charged
    <3> QED BY <1>1, <1>4, <2>1, <2>3, <3>2, <3>4 DEF FailsFrom, c
  <2> QED BY <2>1, <2>2, <2>3
<1>5. FailsFrom(s, enter_failed_recovery(s, reason))
  <2> DEFINE n == [a EXCEPT !.last_error = reason,
                            !.recovery_epoch = s.recovery_epoch + 1,
                            !.pending_cycle_outcome = NONE]
  <2>1. enter_failed_recovery(s, reason) = apply_execution_cycle_outcome(s, n)
    BY DEF enter_failed_recovery, a
  <2>2. /\ SameCounts(a, n) /\ n.previous_phase = a.previous_phase
        /\ "previous_phase" \in DOMAIN n
    BY <1>3 DEF SameCounts, SamePlace, HasCounts, Counts
  <2> HIDE DEF n
  <2> QED BY <1>4, <2>1, <2>2
<1>6. FailsFrom(s, exit_failure(s)) /\ Failed(s, exit_failure(s))
  <2> DEFINE n == [a EXCEPT !.last_error = "other", !.recovery_epoch = s.recovery_epoch + 1]
  <2>1. exit_failure(s) = n
    BY DEF exit_failure, a
  <2>2. /\ SameCounts(a, n) /\ n.previous_phase = a.previous_phase
        /\ "previous_phase" \in DOMAIN n
    BY <1>3 DEF SameCounts, SamePlace, HasCounts, Counts
  <2> HIDE DEF n
  <2> QED BY <1>4, <2>1, <2>2
<1>7. ASSUME NEW counted
      PROVE  LET v == controller_fails_phase(s, reason, counted)
             IN  FailsFrom(s, v) /\ FailsFrom(s, reduce_phase_failure(s, v))
  <2> DEFINE k == IF counted THEN a.recovery_cycle_count + 1 ELSE a.recovery_cycle_count
             n == [a EXCEPT !.last_error = reason,
                            !.recovery_epoch = s.recovery_epoch + 1,
                            !.recovery_cycle_count = k]
  <2>1. controller_fails_phase(s, reason, counted) = n
    BY DEF controller_fails_phase, a
  <2> HIDE DEF k
  <2>2. /\ SameCounts(a, n) /\ n.previous_phase = a.previous_phase
        /\ "previous_phase" \in DOMAIN n
    BY <1>3 DEF SameCounts, SamePlace, HasCounts, Counts
  <2> HIDE DEF n
  <2>3. FailsFrom(s, n) /\ FailsFrom(s, apply_execution_cycle_outcome(s, n))
    BY <1>4, <2>2
  <2>4. FailsFrom(s, reduce_phase_failure(s, n))
    BY <2>3 DEF reduce_phase_failure
  <2> QED BY <2>1, <2>3, <2>4
<1> QED BY <1>5, <1>6, <1>7

\* b is s with its own loop counted anew.
Recounts(s, b) ==
  /\ SamePlace(s, b)
  /\ b.loop_iterations \in LoopCounts
  /\ \A c \in LoopCounters :
       c # LoopCounter[s.phase] => b.loop_iterations[c] = s.loop_iterations[c]
  /\ b.post_commit_phase_override = s.post_commit_phase_override
  /\ b.dev_timebox_active = s.dev_timebox_active
  /\ b.cycle_timebox_active = s.cycle_timebox_active

\* A loop counted anew, or not at all.
LEMMA RecountsItself ==
  ASSUME NEW s, Sound(s), NEW c \in LoopCounters, c = LoopCounter[s.phase], NEW k
  PROVE  /\ Recounts(s, s)
         /\ Sound(with_loop_iteration(s, c, k)) => Recounts(s, with_loop_iteration(s, c, k))
<1>1. HasCounts(s) /\ s.loop_iterations \in LoopCounts
  BY SoundCounts
<1>2. Recounts(s, s)
  BY <1>1 DEF Recounts, SamePlace
<1> DEFINE n == with_loop_iteration(s, c, k)
<1>3. /\ SamePlace(s, n) /\ n.loop_iterations = [s.loop_iterations EXCEPT ![c] = k]
      /\ n.post_commit_phase_override = s.post_commit_phase_override
      /\ n.dev_timebox_active = s.dev_timebox_active
      /\ n.cycle_timebox_active = s.cycle_timebox_active
  BY <1>1 DEF with_loop_iteration, SamePlace, HasCounts, Counts
<1> HIDE DEF n
<1>4. \A d \in LoopCounters :
        d # LoopCounter[s.phase] => n.loop_iterations[d] = s.loop_iterations[d]
  BY <1>1, <1>3 DEF LoopCounts
<1>5. Sound(n) => n.loop_iterations \in LoopCounts
  BY DEF Sound
<1> QED BY <1>2, <1>3, <1>4, <1>5 DEF Recounts, n

\* Success transitions, and what an agent other than an analysis reports.
LEMMA SuccessCounts ==
  ASSUME NEW s, Sound(s), NEW rt
  PROVE  /\ Aims(s, OnSuccess[s.phase], resolve_success(s, rt))
         /\ Role[s.phase] \in {"execution", "commit_cleanup"} =>
              Aims(s, OnSuccess[s.phase], handle_agent_success(s, rt))
         /\ Role[s.phase] = "commit" /\ ~s.agent_invoked =>
              KeepsCounts(s, handle_agent_success(s, rt))
<1>1. OnSuccess[s.phase] \in Phases /\ HasCounts(s)
  BY SoundCounts, NextPhases
<1>2. Aims(s, OnSuccess[s.phase], resolve_success(s, rt))
  BY <1>1, AimsPrepared DEF resolve_success
<1>3. Role[s.phase] \in {"execution", "commit_cleanup"} =>
        handle_agent_success(s, rt) = resolve_success(s, rt)
  BY DEF handle_agent_success
<1>4. Role[s.phase] = "commit" /\ ~s.agent_invoked =>
        handle_agent_success(s, rt) = [s EXCEPT !.agent_invoked = TRUE]
  BY DEF handle_agent_success
<1>5. KeepsCounts(s, [s EXCEPT !.agent_invoked = TRUE])
  <2>1. SameCounts(s, [s EXCEPT !.agent_invoked = TRUE])
    BY <1>1, OutsideCounts
  <2>2. /\ [s EXCEPT !.agent_invoked = TRUE].previous_phase = s.previous_phase
        /\ [s EXCEPT !.agent_invoked = TRUE].pending_cycle_outcome = s.pending_cycle_outcome
    BY DEF Sound, State
  <2> QED BY <2>1, <2>2 DEF KeepsCounts
<1> QED BY <1>2, <1>3, <1>4, <1>5

\* An execution result sets up its route and goes forward.
LEMMA ReportCounts ==
  ASSUME NEW s, Sound(s), NEW status \in Statuses, NEW rt
  PROVE  /\ SamePlace(s, Reported(s, status))
         /\ Reported(s, status).loop_iterations = s.loop_iterations
         /\ Reported(s, status).post_commit_phase_override = ResultOverride[s.phase][status]
         /\ Reported(s, status).dev_timebox_active = s.dev_timebox_active
         /\ Reported(s, status).cycle_timebox_active = s.cycle_timebox_active
         /\ Aims(Reported(s, status), OnSuccess[s.phase],
                 handle_execution_result(s, status, rt))
<1> DEFINE a == [s EXCEPT !.post_commit_phase_override = ResultOverride[s.phase][status]]
           b == [a EXCEPT !.last_execution_result_status = status]
<1>1. /\ ResultOverride[s.phase][status] \in OrNone(Phases)
      /\ status \in OrNone(Statuses) /\ HasCounts(s)
  <2>1. HasCounts(s) /\ s.phase \in Phases
    BY SoundCounts
  <2> QED BY SMTT(30), <2>1, GraphAssumption DEF OrNone
<1>2. Sound(a)
  BY <1>1, Update
<1>3. Sound(b)
  BY <1>1, <1>2, Update
<1>4. Reported(s, status) = b
  BY DEF Reported
<1>5. /\ SamePlace(s, b) /\ b.loop_iterations = s.loop_iterations
      /\ b.post_commit_phase_override = ResultOverride[s.phase][status]
      /\ b.dev_timebox_active = s.dev_timebox_active
      /\ b.cycle_timebox_active = s.cycle_timebox_active
  BY <1>1 DEF SamePlace, HasCounts, Counts
<1>6. handle_execution_result(s, status, rt) = resolve_success(Reported(s, status), rt)
  BY DEF handle_execution_result, Reported
<1> HIDE DEF b
<1>7. Aims(b, OnSuccess[b.phase], resolve_success(b, rt))
  BY <1>3, SuccessCounts
<1>8. b.phase = s.phase
  BY <1>5 DEF SamePlace
<1> QED BY <1>4, <1>5, <1>6, <1>7, <1>8

\* A decision of analysis: the loop is counted, then the run goes where the
\* policy says, or fails.
Decides(s, d, n) ==
  LET route == Route[s.phase][d]
      b == count_decision(s, route)
  IN  \/ route.target = NONE /\ FailsFrom(s, n)
      \/ route.target = failed_route /\ FailsFrom(b, n)
      \/ /\ route.target \in Phases \ {failed_route}
         /\ Aims(b, route.target, n)

\* What handle_analysis_decision does is one of the three.
LEMMA DecisionCounts ==
  ASSUME NEW s, Sound(s), NEW d \in Decisions, NEW rt
  PROVE  /\ Recounts(s, count_decision(s, Route[s.phase][d]))
         /\ Decides(s, d, handle_analysis_decision(s, d, rt))
<1> DEFINE route == Route[s.phase][d]
           c == LoopCounter[s.phase]
           b == count_decision(s, route)
           u == [b EXCEPT !.pending_cycle_outcome = route.cycle_outcome]
           v == IF route.cycle_outcome = NONE THEN b ELSE u
           n == handle_analysis_decision(s, d, rt)
<1>1. s.phase \in Phases /\ HasCounts(s) /\ c \in OrNone(LoopCounters)
      /\ s.loop_iterations \in LoopCounts
  BY SoundCounts, CountersAssumption
<1>2. route.target \in OrNone(Phases) /\ route.cycle_outcome \in OrNone(Outcomes)
  BY SMTT(30), <1>1, GraphAssumption DEF DecisionRoutes
<1>3. n = IF route.target = NONE
          THEN enter_failed_recovery(s, "other")
          ELSE IF route.target = failed_route
               THEN enter_failed_recovery(v, failure_reason(s))
               ELSE prepared_advance(v, route.target, rt)
  BY DEF handle_analysis_decision
<1> HIDE DEF route, n
<1>4. Sound(b) /\ Recounts(s, b)
  <2>1. CASE c = NONE
    <3>1. b = s
      BY <2>1 DEF count_decision
    <3> QED BY <1>1, <3>1 DEF Recounts, SamePlace
  <2>2. CASE c # NONE
    <3>1. c \in LoopCounters
      BY <1>1, <2>2 DEF OrNone
    <3>2. Sound(b)
      BY <1>1, <2>2, <3>1, ChargeSound, LoopbackCountSound DEF count_decision
    <3>3. \/ b = s
          \/ b = with_loop_iteration(s, c, 0)
          \/ b = with_loop_iteration(s, c, next_completed(s.loop_iterations[c], Cap[c]))
      BY <2>2 DEF count_decision, apply_analysis_loopback, charge_loop_counter
    <3> HIDE DEF b
    <3> QED BY <3>1, <3>2, <3>3, RecountsItself
  <2> QED BY <2>1, <2>2
<1> HIDE DEF b
<1>5. Sound(v) /\ SameCounts(b, v)
  <2>1. SameCounts(b, b) /\ SameCounts(b, u)
    BY <1>4, SoundCounts, OutsideCounts
  <2>2. Sound(v)
    BY <1>2, <1>4, Update
  <2> QED BY <2>1, <2>2
<1> HIDE DEF v
<1>6. FailsFrom(s, enter_failed_recovery(s, "other"))
  BY FailuresCount
<1>7. FailsFrom(b, enter_failed_recovery(v, failure_reason(s)))
  <2>1. FailsFrom(v, enter_failed_recovery(v, failure_reason(s)))
    BY <1>5, FailuresCount
  <2> QED BY <1>5, <2>1, FailedFromSame
<1>8. route.target \in Phases => Aims(b, route.target, prepared_advance(v, route.target, rt))
  <2>1. ASSUME route.target \in Phases
        PROVE  Aims(v, route.target, prepared_advance(v, route.target, rt))
    BY <1>5, <2>1, AimsPrepared
  <2> QED BY <1>5, <2>1, AimsFromSame
<1>9. \/ route.target = NONE /\ FailsFrom(s, n)
      \/ route.target = failed_route /\ FailsFrom(b, n)
      \/ /\ route.target \in Phases \ {failed_route}
         /\ Aims(b, route.target, n)
  BY <1>2, <1>3, <1>6, <1>7, <1>8 DEF OrNone
<1> QED BY <1>4, <1>9 DEF Decides, route, b, n

\* A commit counts: loops are reset, the cycle may be closed.
LEMMA CommitCounted ==
  ASSUME NEW s, Sound(s), NEW skipped \in BOOLEAN
  PROVE  LET c == apply_commit_outcome(s, skipped)
         IN  /\ Sound(c) /\ HasCounts(c)
             /\ c.phase = s.phase
             /\ c.execution_cycle_charged = s.execution_cycle_charged
             /\ c.post_commit_phase_override = s.post_commit_phase_override
             /\ c.dev_timebox_active = s.dev_timebox_active
             /\ c.cycle_timebox_active = s.cycle_timebox_active
             /\ \A k \in LoopCounters :
                  c.loop_iterations[k] =
                    IF k \in LoopResets[s.phase] THEN 0 ELSE s.loop_iterations[k]
             /\ \/ c.iteration = s.iteration /\ s.phase \notin Lifecycle \cup SkippedAdvances
                \/ c.iteration = s.iteration + 1 /\ s.phase \in ClosingCommits
<1> DEFINE c == apply_commit_outcome(s, skipped)
           t == reset_loops(s)
           i == t.iteration + 1
<1>1. HasCounts(s) /\ s.phase \in Phases /\ s.loop_iterations \in LoopCounts
      /\ s.iteration \in Nat
  BY SoundCounts
<1>2. Sound(c)
  BY CommitOutcomeSound
<1>3. \/ c = t /\ s.phase \notin Lifecycle \cup SkippedAdvances
      \/ /\ s.phase \in ClosingCommits
         /\ c \in {[t EXCEPT !.iteration = i],
                   [t EXCEPT !.iteration = i,
                             !.execution_seconds = [p \in GateUpstreams |-> 0]]}
  BY BudgetAssumption DEF apply_commit_outcome, apply_lifecycle_completion_policy,
     apply_commit_outcome_policy_driven
<1>4. /\ SamePlace(s, t)
      /\ t.loop_iterations =
           [k \in LoopCounters |-> IF k \in LoopResets[s.phase] THEN 0
                                   ELSE s.loop_iterations[k]]
      /\ t.post_commit_phase_override = s.post_commit_phase_override
      /\ t.dev_timebox_active = s.dev_timebox_active
      /\ t.cycle_timebox_active = s.cycle_timebox_active
  BY <1>1 DEF reset_loops, SamePlace, HasCounts, Counts
<1> HIDE DEF t, c
<1>5. /\ HasCounts(c) /\ c.phase = t.phase
      /\ c.execution_cycle_charged = t.execution_cycle_charged
      /\ c.post_commit_phase_override = t.post_commit_phase_override
      /\ c.dev_timebox_active = t.dev_timebox_active
      /\ c.cycle_timebox_active = t.cycle_timebox_active
      /\ c.loop_iterations = t.loop_iterations
      /\ \/ c.iteration = t.iteration /\ s.phase \notin Lifecycle \cup SkippedAdvances
         \/ c.iteration = i /\ s.phase \in ClosingCommits
  <2>1. CASE c = t /\ s.phase \notin Lifecycle \cup SkippedAdvances
    BY <1>4, <2>1 DEF SamePlace
  <2>2. CASE c = [t EXCEPT !.iteration = i] /\ s.phase \in ClosingCommits
    BY <1>4, <2>2 DEF SamePlace, HasCounts, Counts
  <2>3. CASE /\ c = [t EXCEPT !.iteration = i,
                              !.execution_seconds = [p \in GateUpstreams |-> 0]]
             /\ s.phase \in ClosingCommits
    BY <1>4, <2>3 DEF SamePlace, HasCounts, Counts
  <2> QED BY <1>3, <2>1, <2>2, <2>3
<1>6. t.iteration = s.iteration /\ t.phase = s.phase
      /\ t.execution_cycle_charged = s.execution_cycle_charged
  BY <1>4 DEF SamePlace
<1>7. \A k \in LoopCounters :
        c.loop_iterations[k] =
          IF k \in LoopResets[s.phase] THEN 0 ELSE s.loop_iterations[k]
  BY ZenonT(30), <1>4, <1>5
<1> QED BY <1>2, <1>4, <1>5, <1>6, <1>7 DEF c

\* The state a commit is routed from once its pending route is used up.
Consumed(s) == [s EXCEPT !.post_commit_phase_override = NONE]

\* Through the gate: entered and charged, or passed over.
Admits(s, p, n) ==
  LET c == ExecutionCycleCounter[GateUpstream[p]]
  IN  \E m : /\ Aims(s, p, m)
             /\ n.previous_phase = m.previous_phase
             /\ IF m.phase = p /\ c # NONE THEN Charged(m, n, c) ELSE SameCounts(m, n)

CommitsFrom(c, n) ==
  LET p == resolve_post_commit_phase(c)
  IN  \/ c.post_commit_phase_override # NONE /\ Aims(Consumed(c), p, n)
      \/ /\ c.post_commit_phase_override = NONE
         /\ \/ GateUpstream[p] = NONE /\ Aims(c, p, n)
            \/ /\ GateUpstream[p] # NONE
               /\ Admits(c, p, n) \/ Aims(c, OnSuccess[p], n)

CommitsCount(s, n) ==
  \E skipped \in BOOLEAN :
    /\ CommitsFrom(apply_commit_outcome(s, skipped), n)
    /\ \E rt : KeepsCounts(handle_commit_outcome(s, skipped, rt), n)

\* A phase whose agents are spent fails or goes to its fallback.
FallsBack(s, n) ==
  /\ WorkflowFallback[s.phase] # NONE
  /\ ExecutionCycleCounter[s.phase] = NONE => Aims(s, WorkflowFallback[s.phase], n)

\* An expired phase is left for the end of its deadline; the development
\* deadline sets up the route past the rest of development.
Overdue(s, b) ==
  /\ SamePlace(s, b) /\ b.loop_iterations = s.loop_iterations
  /\ b.dev_timebox_active = s.dev_timebox_active
  /\ b.cycle_timebox_active = s.cycle_timebox_active

RedirectsTo(s, n) ==
  \/ /\ HasCycleTimebox /\ s.phase = cycle_timebox.guarded_entry
     /\ Aims(s, cycle_timebox.finalization_target, n)
  \/ /\ HasDevelopmentTimebox /\ s.phase = development_timebox.guarded_entry
     /\ s.dev_timebox_active
     /\ \E b : Overdue(s, b) /\ Aims(b, development_timebox.finalization_target, n)

\* A redirect follows the deadline that expired.
LEMMA RedirectCounts ==
  ASSUME NEW s, Sound(s), NEW rt, expired_redirect(s, rt).redirected
  PROVE  RedirectsTo(s, redirect_expired_cycle_in_place(s, rt))
<1> DEFINE r == expired_redirect(s, rt)
           n == redirect_expired_cycle_in_place(s, rt)
           dt == development_timebox
           late == stamp_if_unrecorded(s, cycle_timebox.finalization_cycle_outcome)
           route == IF Role[dt.end_entry] = "commit"
                    THEN OnSuccess[dt.end_entry] ELSE s.post_commit_phase_override
           over == [s EXCEPT !.post_commit_phase_override = route]
<1>1. s.phase \in Phases /\ HasCounts(s)
  BY SoundCounts
<1>2. SoundRoute(r)
  BY <1>1, TimeboxesSound DEF expired_redirect
<1>3. n = reducer_advance_phase(r.state, r.target, rt)
  BY DEF redirect_expired_cycle_in_place, take_redirect
<1>4. \/ /\ HasCycleTimebox /\ s.phase = cycle_timebox.guarded_entry
         /\ r.target = cycle_timebox.finalization_target /\ r.state = late
      \/ /\ HasDevelopmentTimebox /\ s.phase = dt.guarded_entry /\ s.dev_timebox_active
         /\ r.target = dt.finalization_target /\ r.state = over
  BY DEF expired_redirect, apply_cycle_timebox, apply_development_timebox,
     pass_through
<1> HIDE DEF r, n
<1>5. Aims(r.state, r.target, n)
  BY <1>2, <1>3, AimsPrepared DEF SoundRoute
<1>6. SameCounts(s, late)
  BY <1>1, OutsideCounts
<1> HIDE DEF route
<1>7. Overdue(s, over)
  BY <1>1 DEF Overdue, SamePlace, HasCounts, Counts
<1> HIDE DEF late, over
<1> QED BY <1>4, <1>5, <1>6, <1>7, AimsFromSame DEF RedirectsTo, n

\* What the loop head prepares is the state itself or a redirect of it.
LEMMA PreparedCounts ==
  ASSUME Sound(state)
  PROVE  prepared = state \/ RedirectsTo(state, prepared)
BY RedirectCounts DEF prepared, redirect_if_expired

\* A missing plan sends a run back to plan, or to the failed route.
PlanMissed(s, n) ==
  /\ HasCounts(n) /\ n.phase \in {failed_route, entry_phase}
  /\ n.previous_phase = s.phase
  /\ n.iteration = s.iteration
  /\ n.loop_iterations = s.loop_iterations
  /\ n.execution_cycle_charged = FlagAt(n.phase, s.execution_cycle_charged)
  /\ n.post_commit_phase_override = s.post_commit_phase_override
  /\ n.dev_timebox_active = s.dev_timebox_active
  /\ n.cycle_timebox_active => s.cycle_timebox_active
  /\ HasCycleTimebox /\ n.phase = cycle_timebox.end_entry => ~n.cycle_timebox_active

\* The phase that failed is entered again, past the deadlines.
ReentersAt(s, n) ==
  LET p == recovery_target(s)
  IN  /\ HasCounts(n) /\ p \in Phases
      /\ n.phase \in {p} \cup Finals
      /\ n.previous_phase = s.previous_phase
      /\ n.iteration = s.iteration
      /\ n.loop_iterations = s.loop_iterations
      /\ n.execution_cycle_charged = s.execution_cycle_charged
      /\ Onward(s.phase, At(s, p), At(n, n.phase))
      /\ HasCycleTimebox /\ n.phase = cycle_timebox.end_entry => ~n.cycle_timebox_active
      /\ HasDevelopmentTimebox /\ n.phase = development_timebox.end_entry
           => ~n.dev_timebox_active

\* The clocks leave the counts alone.
LEMMA TickCounts ==
  ASSUME Sound(state), Tick
  PROVE  KeepsCounts(state, state')
<1>1. HasCounts(state) /\ {"previous_phase", "pending_cycle_outcome"} \subseteq DOMAIN state
  BY SoundCounts DEF Sound, State
<1> QED BY <1>1 DEF Tick, KeepsCounts, SameCounts, SamePlace, HasCounts, Counts

\* What a result or a failure of what is in flight does to the counts.
CountedResult(s, n) ==
  \/ KeepsCounts(s, n)
  \/ /\ Role[s.phase] \in {"execution", "commit_cleanup"}
     /\ Aims(s, OnSuccess[s.phase], n)
  \/ /\ s.phase \in ReportsResult
     /\ \E status \in Statuses : Aims(Reported(s, status), OnSuccess[s.phase], n)
  \/ /\ Role[s.phase] = "analysis"
     /\ \E d \in Decisions : Decides(s, d, n)
  \/ /\ Role[s.phase] = "commit_cleanup"
     /\ \E b : /\ Recounts(s, b)
               /\ \/ FailsFrom(b, n)
                  \/ OnLoopback[s.phase] # NONE /\ Aims(b, OnLoopback[s.phase], n)
  \/ /\ Role[s.phase] = "commit"
     /\ \/ CommitsCount(s, n)
        \/ Aims(s, s.phase, n)
        \/ Aims(s, RetryPhase(s.phase), n)
  \/ FailsFrom(s, n)
  \/ FallsBack(s, n)
  \/ RedirectsTo(s, n)

\* And what a dispatch does from the prepared phase.
CountedDispatch(s, n) ==
  \/ s.phase = failed_route /\ ReentersAt(s, n)
  \/ s.phase = failed_route /\ PlanMissed(s, n)
  \/ /\ s.phase \notin TerminalStates
     /\ \/ PlanMissed(s, n)
        \/ exhausted_analysis(s) /\ Aims(s, OnSuccess[s.phase], n)
        \/ Role[s.phase] = "commit_cleanup" /\ Aims(s, OnSuccess[s.phase], n)
        \/ Role[s.phase] = "commit" /\ CommitsCount(s, n)
        \/ Failed(s, n) /\ FailsFrom(s, n)
        \/ n = s

\* The kinds of step, for the counts: a result or a failure of what is in
\* flight, a dispatch from the prepared phase, or a step that keeps them.
\* The steps up to CountKinds' own are one for each handler.
LEMMA CountKinds ==
  IInv /\ InFlight /\ [Next]_vars =>
    /\ \/ KeepsCounts(state, state')
       \/ state.phase \notin TerminalStates /\ CountedResult(state, state')
       \/ Dispatching /\ CountedDispatch(prepared, state')
    /\ AnalysisDecides =>
         AgentReturns /\ \E d \in Decisions : Decides(state, d, state')
\* A deadline keeps the phase a failure goes back to.
<1>TimeboxesKeepPrevious.
      ASSUME NEW s, Sound(s), NEW p \in Phases, NEW rt
      PROVE  apply_timeboxes(s, p, rt).state.previous_phase = s.previous_phase
  <2> USE <1>TimeboxesKeepPrevious
  <2> DEFINE c == apply_cycle_timebox(s, p, rt)
             d == apply_development_timebox(c.state, c.target, rt)
  <2>1. Sound(c.state)
    BY TimeboxesSound DEF SoundRoute
  <2>2. c.state.previous_phase = s.previous_phase
    BY DEF apply_cycle_timebox, pass_through, started, stamp_if_unrecorded, Sound, State
  <2>3. \E t, q, x, y : d = [state |-> t, target |-> q, redirected |-> x, started |-> y]
    BY DEF apply_development_timebox, pass_through
  <2>4. apply_timeboxes(s, p, rt) = [d EXCEPT !.started = c.started]
    BY DEF apply_timeboxes, then_development_timebox
  <2> HIDE DEF c
  <2>5. d.state.previous_phase = c.state.previous_phase
    BY <2>1 DEF apply_development_timebox, pass_through, Sound, State
  <2> HIDE DEF d
  <2> QED BY <2>2, <2>3, <2>4, <2>5

\* The same counts are the same end, and the same beginning.
<1>AimsOfSame.
      ASSUME NEW s, NEW p, NEW n, Aims(s, p, n),
             NEW m, SameCounts(n, m), m.previous_phase = n.previous_phase
      PROVE  Aims(s, p, m)
  <2> USE <1>AimsOfSame
  <2>1. PICK b, rt : /\ Sound(b) /\ SameCounts(s, b)
                     /\ SameCounts(prepared_advance(b, p, rt), n)
    BY DEF Aims
  <2>2. SameCounts(prepared_advance(b, p, rt), m)
    BY <2>1, SameCountsTransitive
  <2>3. m.phase = n.phase
    BY DEF SameCounts, SamePlace
  <2> QED BY <2>1, <2>2, <2>3 DEF Aims

\* Charging a state by apply_execution_cycle_outcome or at the gate.
<1>ChargeCounts.
      ASSUME NEW s, Sound(s), NEW c \in LoopCounters
      PROVE  LET n == [with_loop_iteration(s, c, next_completed(s.loop_iterations[c], Cap[c]))
                         EXCEPT !.execution_cycle_charged = TRUE]
             IN  Charged(s, n, c) /\ n.previous_phase = s.previous_phase
  BY <1>ChargeCounts, SoundCounts DEF Charged, HasCounts, Counts, with_loop_iteration, Sound, State

\* A cleanup loops back, counted or not.
<1>LoopbackCounts.
      ASSUME NEW s, Sound(s), NEW rt
      PROVE  \E b : /\ Recounts(s, b)
                    /\ \/ FailsFrom(b, handle_phase_loopback(s, rt))
                       \/ /\ OnLoopback[s.phase] # NONE
                          /\ Aims(b, OnLoopback[s.phase], handle_phase_loopback(s, rt))
  <2> USE <1>LoopbackCounts
  <2> DEFINE p == OnLoopback[s.phase]
             c == LoopCounter[s.phase]
             t == apply_analysis_loopback(s, c, ~analysis_loopback_is_already_charged(s))
  <2>1. s.phase \in Phases /\ p \in OrNone(Phases) /\ HasCounts(s)
        /\ c \in OrNone(LoopCounters) /\ s.loop_iterations \in LoopCounts
    BY SoundCounts, GraphAssumption, CountersAssumption
  <2>2. Recounts(s, s)
    BY <2>1 DEF Recounts, SamePlace
  <2>3. CASE c = NONE
    <3>1. handle_phase_loopback(s, rt) = resolve_loopback(s, rt)
      BY <2>3 DEF handle_phase_loopback
    <3>2. CASE p = NONE
      <4>1. FailsFrom(s, resolve_loopback(s, rt))
        BY <3>2, FailuresCount DEF resolve_loopback
      <4> QED BY <2>2, <3>1, <4>1
    <3>3. CASE p # NONE
      <4> DEFINE n == prepared_advance(s, p, rt)
                 m == [n EXCEPT !.recovery_epoch = s.recovery_epoch,
                                !.last_error = s.last_error]
      <4>1. resolve_loopback(s, rt) \in {n, m}
        BY <3>3 DEF resolve_loopback, preserving_cleanup_recovery
      <4>2. p \in Phases
        BY <2>1, <3>3 DEF OrNone
      <4>3. Aims(s, p, n) /\ Sound(n)
        BY <4>2, AimsPrepared, PreparedAdvanceSound
      <4> HIDE DEF n
      <4>4. HasCounts(n) /\ "previous_phase" \in DOMAIN n
        BY <4>3, SoundCounts DEF Sound, State
      <4>5. SameCounts(n, m) /\ m.previous_phase = n.previous_phase
        BY <4>4 DEF SameCounts, SamePlace, HasCounts, Counts
      <4> HIDE DEF m
      <4>6. Aims(s, p, m)
        BY <4>3, <4>5, <1>AimsOfSame
      <4>7. Aims(s, p, resolve_loopback(s, rt))
        BY <4>1, <4>3, <4>6
      <4> QED BY <2>2, <3>1, <3>3, <4>7
    <3> QED BY <3>2, <3>3
  <2>4. CASE c # NONE
    <3>1. c \in LoopCounters
      BY <2>1, <2>4 DEF OrNone
    <3>2. Sound(t) /\ Recounts(s, t)
      <4>1. Sound(t)
        BY <3>1, LoopbackCountSound
      <4>2. t \in {s, with_loop_iteration(s, c, next_completed(s.loop_iterations[c], Cap[c]))}
        BY DEF apply_analysis_loopback, charge_loop_counter
      <4> HIDE DEF t
      <4> QED BY <3>1, <4>1, <4>2, RecountsItself
    <3>3. handle_phase_loopback(s, rt) =
            IF p = NONE THEN enter_failed_recovery(t, "other")
            ELSE reducer_advance_phase(t, p, rt)
      BY <2>4 DEF handle_phase_loopback
    <3> HIDE DEF t
    <3>4. FailsFrom(t, enter_failed_recovery(t, "other"))
      BY <3>2, FailuresCount
    <3>5. p # NONE => Aims(t, p, reducer_advance_phase(t, p, rt))
      BY <2>1, <3>2, AimsPrepared DEF OrNone
    <3> QED BY <3>2, <3>3, <3>4, <3>5
  <2> QED BY <2>3, <2>4

\* The gate before an analysis admits a run and charges it, or passes over
\* the phase (_advance_through_invocation_gate).
<1>GateCounts.
      ASSUME NEW s, Sound(s), NEW p \in Phases, NEW rt
      PROVE  LET n == advance_through_invocation_gate(s, p, rt)
             IN  \/ GateUpstream[p] = NONE /\ Aims(s, p, n)
                 \/ /\ GateUpstream[p] # NONE
                    /\ Admits(s, p, n) \/ Aims(s, OnSuccess[p], n)
  <2> USE <1>GateCounts
  <2> DEFINE t == [s EXCEPT !.last_execution_result_status = NONE]
             m == reducer_advance_phase(t, p, rt)
             u == stamp_if_unrecorded(t, declared_forward_cycle_outcome(p))
             o == reducer_advance_phase(u, OnSuccess[p], rt)
             g == GateUpstream[p]
             c == ExecutionCycleCounter[g]
  <2>1. HasCounts(s) /\ OnSuccess[p] \in Phases /\ g \in OrNone(Phases)
    BY SoundCounts, NextPhases, CountersAssumption
  <2>2. Sound(t) /\ SameCounts(s, t)
    <3>1. SameCounts(s, t)
      BY <2>1, OutsideCounts
    <3>2. Sound(t)
      BY Update DEF OrNone
    <3> QED BY <3>1, <3>2
  <2>3. advance_through_invocation_gate(s, p, rt) =
          IF g = NONE THEN m
          ELSE IF gate_admits(s, p) THEN charged_if_entered(m, p) ELSE o
    BY DEF advance_through_invocation_gate
  <2> HIDE DEF t
  <2>4. Aims(s, p, m) /\ Sound(m)
    BY <2>2, AimsPrepared, AimsFromSame, ReducerAdvanceSound
  <2> HIDE DEF m
  <2>5. Aims(s, OnSuccess[p], o)
    <3>1. declared_forward_cycle_outcome(p) \in OrNone(Outcomes) /\ HasCounts(t)
      BY <2>2, ForwardOutcomeType, SoundCounts
    <3>2. Sound(u) /\ SameCounts(t, u)
      BY <2>2, <3>1, StampSound, OutsideCounts
    <3> HIDE DEF u
    <3>3. Aims(u, OnSuccess[p], o)
      BY <2>1, <3>2, AimsPrepared
    <3>4. SameCounts(s, u)
      BY <2>2, <3>2, SameCountsTransitive
    <3> QED BY <3>3, <3>4, AimsFromSame
  <2> HIDE DEF o
  <2>6. ASSUME g # NONE
        PROVE  Admits(s, p, charged_if_entered(m, p))
    <3>1. g \in Phases
      BY <2>1, <2>6 DEF OrNone
    <3>2. c \in OrNone(LoopCounters)
      BY <3>1, CountersAssumption
    <3> DEFINE k == [with_loop_iteration(m, c, next_completed(m.loop_iterations[c], Cap[c]))
                       EXCEPT !.execution_cycle_charged = TRUE]
    <3>3. charged_if_entered(m, p) = IF m.phase = p /\ c # NONE THEN k ELSE m
      BY DEF charged_if_entered, charge_analysis_cycle_for_gate, charge_loop_counter
    <3>4. c # NONE => Charged(m, k, c) /\ k.previous_phase = m.previous_phase
      BY <2>4, <3>2, <1>ChargeCounts DEF OrNone
    <3>5. SameCounts(m, m)
      BY <2>4, KeepsItself
    <3> HIDE DEF k
    <3>6. charged_if_entered(m, p).previous_phase = m.previous_phase
      BY <3>3, <3>4
    <3>7. IF m.phase = p /\ c # NONE
          THEN Charged(m, charged_if_entered(m, p), c)
          ELSE SameCounts(m, charged_if_entered(m, p))
      BY <3>3, <3>4, <3>5
    <3> QED BY <2>4, <3>6, <3>7 DEF Admits
  <2> QED BY <2>3, <2>4, <2>5, <2>6

\* A commit that succeeds or is skipped (_handle_commit_success).
<1>CommitDoneCounts.
      ASSUME NEW s, Sound(s), NEW skipped \in BOOLEAN, NEW rt
      PROVE  CommitsCount(s, handle_commit_outcome(s, skipped, rt))
  <2> USE <1>CommitDoneCounts
  <2> DEFINE c == apply_commit_outcome(s, skipped)
             p == resolve_post_commit_phase(c)
             d == IF commit_closes_a_cycle(s.phase)
                  THEN [c EXCEPT !.pending_cycle_outcome = NONE]
                  ELSE c
             b == [d EXCEPT !.post_commit_phase_override = NONE]
             n == handle_commit_outcome(s, skipped, rt)
  <2>1. n = IF c.post_commit_phase_override # NONE
            THEN reducer_advance_phase(b, p, rt)
            ELSE advance_through_invocation_gate(d, p, rt)
    BY DEF handle_commit_outcome
  <2>2. Sound(c)
    BY CommitOutcomeSound
  <2>3. SUFFICES CommitsFrom(c, n)
    <3>1. Sound(n)
      BY CommitDoneSound
    <3>2. KeepsCounts(n, n)
      BY <3>1, KeepsItself
    <3> QED BY <3>2 DEF CommitsCount
  <2> HIDE DEF c, n
  <2>4. p \in Phases /\ HasCounts(c)
    BY <2>2, PostCommitPhaseType, SoundCounts
  <2> HIDE DEF p
  <2>5. Sound(d) /\ SameCounts(c, d) /\ d.post_commit_phase_override = c.post_commit_phase_override
    <3>1. SameCounts(c, c) /\ SameCounts(c, [c EXCEPT !.pending_cycle_outcome = NONE])
      BY <2>4, OutsideCounts
    <3>2. Sound([c EXCEPT !.pending_cycle_outcome = NONE])
      BY <2>2, Update DEF OrNone
    <3> QED BY <2>2, <3>1, <3>2 DEF SameCounts
  <2> HIDE DEF d
  <2>6. Sound(b) /\ SameCounts(Consumed(c), b)
    <3>1. Sound(b)
      BY <2>5, Update DEF OrNone
    <3>2. SameCounts(Consumed(c), b)
      BY <2>4, <2>5 DEF SameCounts, SamePlace, HasCounts, Counts, Consumed
    <3> QED BY <3>1, <3>2
  <2> HIDE DEF b
  <2>7. CASE c.post_commit_phase_override # NONE
    <3>1. Aims(b, p, n)
      BY <2>1, <2>4, <2>6, <2>7, AimsPrepared
    <3>2. Aims(Consumed(c), p, n)
      BY <2>6, <3>1, AimsFromSame
    <3> QED BY <2>7, <3>2 DEF CommitsFrom, p
  <2>8. CASE c.post_commit_phase_override = NONE
    <3>1. \/ GateUpstream[p] = NONE /\ Aims(d, p, n)
          \/ /\ GateUpstream[p] # NONE
             /\ Admits(d, p, n) \/ Aims(d, OnSuccess[p], n)
      BY <2>1, <2>4, <2>5, <2>8, <1>GateCounts
    <3>2. \A q, m : Aims(d, q, m) => Aims(c, q, m)
      BY <2>5, AimsFromSame
    <3>3. Admits(d, p, n) => Admits(c, p, n)
      BY <3>2 DEF Admits
    <3> QED BY <2>8, <3>1, <3>2, <3>3 DEF CommitsFrom, p
  <2> QED BY <2>7, <2>8

\* COMMIT_FAILURE: the commit is tried again, or its phase fails.
<1>CommitFailureCounts.
      ASSUME NEW s, Sound(s), Role[s.phase] = "commit", NEW error \in ErrorKinds, NEW rt
      PROVE  \/ FailsFrom(s, handle_commit_failure(s, error, rt))
             \/ Aims(s, RetryPhase(s.phase), handle_commit_failure(s, error, rt))
  <2> USE <1>CommitFailureCounts
  <2> DEFINE t == [s EXCEPT !.pending_cycle_outcome = NONE,
                            !.last_execution_result_status = "failed"]
             known == IF error = NONE /\ is_repairable_git_failure(s.last_error)
                      THEN s.last_error ELSE error
             p == RetryPhase(s.phase)
             failed == enter_failed_recovery(t, known)
             n == [failed EXCEPT !.recovery_epoch = MAX_COMMIT_RECOVERY_ATTEMPTS,
                                 !.last_execution_result_status = "failed"]
  <2>1. HasCounts(s) /\ s.phase \in Phases
    BY SoundCounts
  <2>2. SameCounts(s, t) /\ t.phase = s.phase
    BY <2>1 DEF SameCounts, SamePlace, HasCounts, Counts
  <2>3. Sound(t)
    <3> DEFINE u == [s EXCEPT !.pending_cycle_outcome = NONE]
    <3>1. Sound(u)
      BY Update DEF OrNone
    <3> HIDE DEF u
    <3>2. Sound([u EXCEPT !.last_execution_result_status = "failed"])
      BY <3>1, Update, NamesAssumption DEF OrNone
    <3> QED BY <3>2 DEF u
  <2>4. handle_commit_failure(s, error, rt) =
          IF is_repairable_git_failure(known)
          THEN handle_repairable_commit_failure(t, known, rt)
          ELSE enter_failed_recovery(t, "other")
    BY DEF handle_commit_failure
  <2>5. known \in OrNone(ErrorKinds)
    BY DEF Sound, State, OrNone
  <2> HIDE DEF t, known
  <2>6. \A e : FailsFrom(s, enter_failed_recovery(t, e))
    BY <2>2, <2>3, FailuresCount, FailedFromSame
  <2>7. FailsFrom(s, n)
    <3>1. FailsFrom(s, failed)
      BY <2>6
    <3> HIDE DEF failed
    <3>2. HasCounts(failed) /\ "previous_phase" \in DOMAIN failed
      <4>1. Sound(failed)
        BY <2>3, <2>5, EnterFailedRecoverySound DEF failed
      <4> QED BY <4>1, SoundCounts DEF Sound, State
    <3>3. SameCounts(failed, n) /\ n.previous_phase = failed.previous_phase
      BY <3>2 DEF SameCounts, SamePlace, HasCounts, Counts
    <3> HIDE DEF n
    <3> QED BY <3>1, <3>3, FailedOfSame
  <2> HIDE DEF n, failed
  <2>8. ASSUME NEW epoch
        PROVE  Aims(s, p, retry_commit(t, p, known, epoch, rt))
    <3> DEFINE a == prepared_advance(t, p, rt)
               back == IF p = t.phase /\ a.phase = t.phase
                       THEN t.previous_phase ELSE a.previous_phase
               m == [a EXCEPT !.agent_invoked = t.agent_invoked,
                              !.last_error = known,
                              !.recovery_epoch = epoch,
                              !.pending_cycle_outcome = NONE,
                              !.last_execution_result_status = "failed",
                              !.previous_phase = back]
    <3>1. p \in Phases
      BY <2>1, NextPhases DEF RetryPhase, OrNone
    <3>2. retry_commit(t, p, known, epoch, rt) = m
      BY DEF retry_commit, with_commit_retry
    <3>3. Aims(t, p, a) /\ Sound(a)
      BY <2>3, <3>1, AimsPrepared, PreparedAdvanceSound
    <3> HIDE DEF a, p
    <3>4. HasCounts(a) /\ "previous_phase" \in DOMAIN a
      BY <3>3, SoundCounts DEF Sound, State
    <3>5. a.phase = failed_route => back = t.phase
      <4>1. t.phase # failed_route
        BY <2>2, FailedRouteIsTerminal
      <4> QED BY <3>3, <4>1 DEF Aims
    <3> HIDE DEF back
    <3>6. SameCounts(a, m) /\ m.previous_phase = back
      BY <3>4 DEF SameCounts, SamePlace, HasCounts, Counts
    <3> HIDE DEF m
    <3>7. Aims(t, p, m)
      <4>1. PICK b, r : /\ Sound(b) /\ SameCounts(t, b)
                        /\ SameCounts(prepared_advance(b, p, r), a)
        BY <3>3 DEF Aims
      <4>2. SameCounts(prepared_advance(b, p, r), m) /\ m.phase = a.phase
        BY <3>6, <4>1, SameCountsTransitive DEF SameCounts, SamePlace
      <4> QED BY <3>5, <3>6, <4>1, <4>2 DEF Aims
    <3> QED BY <2>2, <3>2, <3>7, AimsFromSame
  <2>9. \/ handle_repairable_commit_failure(t, known, rt) = n
        \/ \E epoch : handle_repairable_commit_failure(t, known, rt)
                        = retry_commit(t, p, known, epoch, rt)
    BY <2>2 DEF handle_repairable_commit_failure, RetryPhase, n, failed
  <2> QED BY <2>4, <2>6, <2>7, <2>8, <2>9

\* AGENT_CHAIN_EXHAUSTED ends in a failure or in the fallback.
<1>ChainExhaustedCounts.
      ASSUME NEW s, Sound(s), NEW rt
      PROVE  \/ FailsFrom(s, handle_chain_exhausted(s, rt))
             \/ FallsBack(s, handle_chain_exhausted(s, rt))
  <2> USE <1>ChainExhaustedCounts
  <2> DEFINE p == WorkflowFallback[s.phase]
             n == prepared_advance(s, p, rt)
  <2>1. p \in OrNone(Phases)
    BY SoundCounts, GraphAssumption
  <2>2. handle_chain_exhausted(s, rt) =
          IF p = NONE THEN enter_failed_recovery(s, failure_reason(s))
          ELSE apply_execution_cycle_outcome(s, n)
    BY DEF handle_chain_exhausted
  <2>3. FailsFrom(s, enter_failed_recovery(s, failure_reason(s)))
    BY FailuresCount
  <2>4. p # NONE => Aims(s, p, n)
    BY <2>1, AimsPrepared DEF OrNone
  <2> HIDE DEF n
  <2>5. ExecutionCycleCounter[s.phase] = NONE => apply_execution_cycle_outcome(s, n) = n
    BY DEF apply_execution_cycle_outcome
  <2> QED BY <2>2, <2>3, <2>4, <2>5 DEF FallsBack

\* The recovery of a missing plan (_recover_missing_plan_handoff).
<1>MissingPlanCounts.
      ASSUME NEW s, Sound(s)
      PROVE  PlanMissed(s, recover_missing_plan_handoff(s))
  <2> USE <1>MissingPlanCounts
  <2> DEFINE p == IF s.recovery_epoch >= cycle_cap THEN failed_route ELSE entry_phase
             a == advance_phase(s, p)
             b == conclude_cycle_on_route_out_of_cycle(a, p)
             n == [b EXCEPT !.last_error = "other", !.recovery_epoch = s.recovery_epoch + 1]
  <2>1. recover_missing_plan_handoff(s) = n
    BY DEF recover_missing_plan_handoff
  <2>2. p \in {failed_route, entry_phase} /\ HasCounts(s)
    BY SoundCounts
  <2> HIDE DEF p
  <2>3. /\ HasCounts(a) /\ a.phase = p /\ a.previous_phase = s.phase
        /\ a.iteration = s.iteration /\ a.loop_iterations = s.loop_iterations
        /\ a.execution_cycle_charged = FlagAt(p, s.execution_cycle_charged)
        /\ a.post_commit_phase_override = s.post_commit_phase_override
        /\ a.dev_timebox_active = s.dev_timebox_active
        /\ a.cycle_timebox_active = s.cycle_timebox_active
    BY <2>2 DEF advance_phase, FlagAt, HasCounts, Counts, Sound, State
  <2>4. "previous_phase" \in DOMAIN a
    BY DEF advance_phase, Sound, State
  <2> HIDE DEF a
  <2>5. /\ HasCounts(b) /\ b.phase = p /\ b.previous_phase = a.previous_phase
        /\ "previous_phase" \in DOMAIN b
        /\ b.iteration = a.iteration /\ b.loop_iterations = a.loop_iterations
        /\ b.execution_cycle_charged = a.execution_cycle_charged
        /\ b.post_commit_phase_override = a.post_commit_phase_override
        /\ b.dev_timebox_active = a.dev_timebox_active
        /\ b.cycle_timebox_active => a.cycle_timebox_active
        /\ HasCycleTimebox /\ p = cycle_timebox.end_entry => ~b.cycle_timebox_active
    BY <2>3, <2>4 DEF conclude_cycle_on_route_out_of_cycle, HasCounts, Counts
  <2> HIDE DEF b
  <2>6. SameCounts(b, n) /\ n.previous_phase = b.previous_phase
    BY <2>5 DEF SameCounts, SamePlace, HasCounts, Counts
  <2> HIDE DEF n
  <2>7. /\ n.phase = p /\ HasCounts(n) /\ n.previous_phase = s.phase
        /\ n.iteration = s.iteration /\ n.loop_iterations = s.loop_iterations
        /\ n.execution_cycle_charged = FlagAt(p, s.execution_cycle_charged)
        /\ n.post_commit_phase_override = s.post_commit_phase_override
        /\ n.dev_timebox_active = s.dev_timebox_active
        /\ n.cycle_timebox_active = b.cycle_timebox_active
    BY <2>3, <2>5, <2>6 DEF SameCounts, SamePlace
  <2> QED BY <2>1, <2>2, <2>3, <2>5, <2>7 DEF PlanMissed

\* The failed phase is entered again (_reenter_phase).
<1>ReenterCounts.
      ASSUME NEW s, Sound(s)
      PROVE  ReentersAt(s, reenter_phase(s))
  <2> USE <1>ReenterCounts
  <2> DEFINE p == recovery_target(s)
             d == apply_timeboxes(s, p, routing_timing(s))
             r == concluded_if_leaving_cycle(d)
             b == r.state
             n == [b EXCEPT !.phase = d.target,
                     !.agent_invoked = IF Role[d.target] = "commit" THEN FALSE ELSE @]
  <2>1. p \in Phases /\ HasCounts(s)
    BY NamesAssumption, SoundCounts DEF recovery_target, OrNone
  <2>2. reenter_phase(s) = n
    BY DEF reenter_phase
  <2>3. n.previous_phase = s.previous_phase /\ n.phase = d.target
    <3>1. SoundRoute(d) /\ d.state.previous_phase = s.previous_phase
      BY <2>1, ApplyTimeboxesSound, <1>TimeboxesKeepPrevious
    <3>2. Sound(b) /\ b.previous_phase = d.state.previous_phase
      BY <3>1, ConcludedRouteSound, ConcludedKeeps DEF SoundRoute
    <3> HIDE DEF b, d
    <3>3. n.phase = d.target /\ n.previous_phase = b.previous_phase
      BY <3>2 DEF Sound, State
    <3> QED BY <3>1, <3>2, <3>3
  <2> HIDE DEF p
  <2>4. /\ Way(s, p, d) /\ d.state.loop_iterations = s.loop_iterations
        /\ d.target \in {p} \cup Finals
    BY <2>1, TimeboxesWay, TimeboxesKeepLoops
  <2> HIDE DEF d
  <2>5. /\ Way(d.state, d.target, r) /\ r.target = d.target
        /\ b.loop_iterations = d.state.loop_iterations
        /\ HasCycleTimebox /\ r.target = cycle_timebox.end_entry
             => ~b.cycle_timebox_active
        /\ HasDevelopmentTimebox /\ r.target = development_timebox.end_entry
             => ~b.dev_timebox_active
    <3>1. SoundRoute(d)
      BY <2>4 DEF Way
    <3> QED BY <3>1, ConcludedWay
  <2> HIDE DEF r
  <2>6. Way(s, p, r)
    BY <2>4, <2>5, WayThenWay
  <2>7. /\ HasCounts(b) /\ b.phase = s.phase /\ b.iteration = s.iteration
        /\ b.execution_cycle_charged = s.execution_cycle_charged
        /\ Onward(s.phase, At(s, p), At(b, d.target))
    BY <2>5, <2>6 DEF Way, SamePlace
  <2> HIDE DEF b
  <2>8. /\ HasCounts(n) /\ n.iteration = b.iteration
        /\ n.loop_iterations = b.loop_iterations
        /\ n.execution_cycle_charged = b.execution_cycle_charged
        /\ n.post_commit_phase_override = b.post_commit_phase_override
        /\ n.dev_timebox_active = b.dev_timebox_active
        /\ n.cycle_timebox_active = b.cycle_timebox_active
    BY <2>7 DEF HasCounts, Counts
  <2> HIDE DEF n
  <2>9. At(n, n.phase) = At(b, d.target)
    BY <2>3, <2>8 DEF At
  <2> QED BY <2>1, <2>2, <2>3, <2>4, <2>5, <2>7, <2>8, <2>9 DEF ReentersAt, p

\* Recording the time of a step, and the clocks, leave the counts alone.
<1>TimingCounts.
      ASSUME NEW s, Sound(s)
      PROVE  KeepsCounts(s, with_phase_timing(s))
  <2> USE <1>TimingCounts
  <2>1. HasCounts(s) /\ {"previous_phase", "pending_cycle_outcome"} \subseteq DOMAIN s
    BY SoundCounts DEF Sound, State
  <2> QED BY <2>1 DEF with_phase_timing, KeepsCounts, SameCounts, SamePlace, HasCounts, Counts

\* The same counts are the same end of every kind.
<1>CountedOfSame.
      ASSUME NEW n, NEW m, KeepsCounts(n, m)
      PROVE  /\ \A s, p : Aims(s, p, n) => Aims(s, p, m)
             /\ \A s : KeepsCounts(s, n) => KeepsCounts(s, m)
             /\ \A s : FailsFrom(s, n) => FailsFrom(s, m)
             /\ \A s, d : Decides(s, d, n) => Decides(s, d, m)
             /\ \A s : CommitsCount(s, n) => CommitsCount(s, m)
             /\ \A s : FallsBack(s, n) => FallsBack(s, m)
             /\ \A s : RedirectsTo(s, n) => RedirectsTo(s, m)
             /\ \A s : CountedResult(s, n) => CountedResult(s, m)
  <2> USE <1>CountedOfSame
  <2>1. SameCounts(n, m) /\ m.previous_phase = n.previous_phase
    BY DEF KeepsCounts
  <2>2. \A s, p : Aims(s, p, n) => Aims(s, p, m)
    BY <2>1, <1>AimsOfSame
  <2>3. \A s : KeepsCounts(s, n) => KeepsCounts(s, m)
    BY <2>1, SameCountsTransitive DEF KeepsCounts
  <2>4. \A s : FailsFrom(s, n) => FailsFrom(s, m)
    BY <2>1, FailedOfSame
  <2>5. \A s, d : Decides(s, d, n) => Decides(s, d, m)
    BY <2>2, <2>4 DEF Decides
  <2>6. \A s, p : Admits(s, p, n) => Admits(s, p, m)
    <3>1. ASSUME NEW s, NEW p, Admits(s, p, n)
          PROVE  Admits(s, p, m)
      <4> DEFINE c == ExecutionCycleCounter[GateUpstream[p]]
      <4>1. PICK k : /\ Aims(s, p, k)
                     /\ n.previous_phase = k.previous_phase
                     /\ IF k.phase = p /\ c # NONE THEN Charged(k, n, c) ELSE SameCounts(k, n)
        BY <3>1 DEF Admits
      <4>2. IF k.phase = p /\ c # NONE THEN Charged(k, m, c) ELSE SameCounts(k, m)
        BY <2>1, <4>1, FailedOfSame, SameCountsTransitive
      <4> QED BY <2>1, <4>1, <4>2 DEF Admits
    <3> QED BY <3>1
  <2>7. \A s : CommitsCount(s, n) => CommitsCount(s, m)
    BY <2>2, <2>3, <2>6 DEF CommitsCount, CommitsFrom
  <2>8. \A s : FallsBack(s, n) => FallsBack(s, m)
    BY <2>2 DEF FallsBack
  <2>9. \A s : RedirectsTo(s, n) => RedirectsTo(s, m)
    BY <2>2 DEF RedirectsTo
  <2>10. \A s : CountedResult(s, n) => CountedResult(s, m)
    BY <2>2, <2>3, <2>4, <2>5, <2>7, <2>8, <2>9 DEF CountedResult
  <2> QED BY <2>2, <2>3, <2>4, <2>5, <2>7, <2>8, <2>9, <2>10

\* A step that reduces to n ends with the counts of n.
<1>ReducedCounts.
      ASSUME NEW n, Sound(n), Reduces(n)
      PROVE  KeepsCounts(n, state')
  BY <1>ReducedCounts, <1>TimingCounts DEF Reduces

\* A decision is counted as it decides.
<1>DecisionsCount.
      ASSUME IInv, AnalysisDecides
      PROVE  /\ Role[state.phase] = "analysis" /\ AgentReturns
             /\ \E d \in Decisions : Decides(state, d, state')
  <2> USE <1>DecisionsCount
  <2>1. Sound(state)
    BY InvariantMeansSound
  <2>2. PICK d \in Decisions : Reduces(handle_analysis_decision(state, d, rt_now))
    BY DEF AnalysisDecides
  <2> DEFINE n == handle_analysis_decision(state, d, rt_now)
  <2>3. Decides(state, d, n) /\ Sound(n)
    BY <2>1, DecisionCounts, AnalysisDecisionSound
  <2> HIDE DEF n
  <2>4. KeepsCounts(n, state')
    BY <2>2, <2>3, <1>ReducedCounts DEF n
  <2>5. Decides(state, d, state')
    BY <2>3, <2>4, <1>CountedOfSame
  <2> QED BY <2>5 DEF AnalysisDecides

\* Every result of what is in flight is counted.
<1>ResultsCount.
      ASSUME IInv, InFlight, ResultArrives
      PROVE  CountedResult(state, state')
  <2> USE <1>ResultsCount
  <2>1. Sound(state)
    BY InvariantMeansSound
  <2>2. ASSUME NEW n, Sound(n), Reduces(n), CountedResult(state, n)
        PROVE  CountedResult(state, state')
    BY <2>2, <1>ReducedCounts, <1>CountedOfSame
  <2>3. CASE AgentSucceeds
    <3> DEFINE n == handle_agent_success(state, rt_now)
    <3>1. Role[state.phase] \in {"execution", "commit_cleanup", "commit"} /\ Reduces(n)
      BY <2>3 DEF AgentSucceeds
    <3>2. Role[state.phase] = "commit" => ~state.agent_invoked
      BY <2>3 DEF AgentSucceeds, AgentReturns, InFlight
    <3>3. Sound(n)
      BY <2>1, AgentSuccessSound
    <3>4. CountedResult(state, n)
      BY <2>1, <3>1, <3>2, SuccessCounts DEF CountedResult
    <3> HIDE DEF n
    <3> QED BY <2>2, <3>1, <3>3, <3>4
  <2>4. CASE ExecutionReports
    <3>1. PICK status \in Statuses : Reduces(handle_execution_result(state, status, rt_now))
      BY <2>4 DEF ExecutionReports
    <3> DEFINE n == handle_execution_result(state, status, rt_now)
    <3>2. Sound(n) /\ Aims(Reported(state, status), OnSuccess[state.phase], n)
      BY <2>1, ExecutionResultSound, ReportCounts
    <3> HIDE DEF n
    <3>3. CountedResult(state, n)
      BY <2>4, <3>2 DEF CountedResult, ExecutionReports
    <3> QED BY <2>2, <3>1, <3>2, <3>3 DEF n
  <2>5. CASE AnalysisDecides
    BY <2>5, <1>DecisionsCount DEF CountedResult
  <2>6. CASE CleanupLoopsBack
    <3> DEFINE n == handle_phase_loopback(state, rt_now)
    <3>1. Sound(n) /\ Reduces(n) /\ Role[state.phase] = "commit_cleanup"
      BY <2>1, <2>6, PhaseLoopbackSound DEF CleanupLoopsBack
    <3>2. CountedResult(state, n)
      BY <2>1, <3>1, <1>LoopbackCounts DEF CountedResult
    <3> HIDE DEF n
    <3> QED BY <2>2, <3>1, <3>2
  <2>7. CASE AgentSkipsCommit \/ CommitSucceeds \/ CommitSkipped
    <3>1. PICK skipped \in BOOLEAN : Reduces(handle_commit_outcome(state, skipped, rt_now))
      BY <2>7 DEF AgentSkipsCommit, CommitSucceeds, CommitSkipped,
                  handle_commit_success, handle_commit_skipped
    <3> DEFINE n == handle_commit_outcome(state, skipped, rt_now)
    <3>2. Sound(n) /\ CommitsCount(state, n)
      BY <2>1, CommitDoneSound, <1>CommitDoneCounts
    <3>3. Role[state.phase] = "commit"
      BY <2>7 DEF InFlight, AgentSkipsCommit, CommitSucceeds, CommitSkipped,
        CommitReturns
    <3> HIDE DEF n
    <3> QED BY <2>2, <3>1, <3>2, <3>3 DEF CountedResult, n
  <2>8. CASE CommitResidual
    <3> DEFINE n == handle_commit_residual(state, rt_now)
    <3>1. state.phase \in Phases
      BY <2>1, SoundCounts
    <3>2. Sound(n) /\ Aims(state, state.phase, n)
      BY <2>1, <3>1, ReducerAdvanceSound, AimsPrepared DEF handle_commit_residual
    <3>3. Role[state.phase] = "commit" /\ Reduces(n)
      BY <2>8 DEF InFlight, CommitResidual, CommitReturns
    <3> HIDE DEF n
    <3> QED BY <2>2, <3>2, <3>3 DEF CountedResult
  <2>9. CASE CommitFails \/ CommitWithoutMessage
    <3>1. PICK error \in ErrorKinds : Reduces(handle_commit_failure(state, error, rt_now))
      BY <2>9 DEF CommitFails, CommitWithoutMessage, ErrorKinds
    <3> DEFINE n == handle_commit_failure(state, error, rt_now)
    <3>2. Role[state.phase] = "commit"
      BY <2>9 DEF InFlight, CommitFails, CommitWithoutMessage, CommitReturns
    <3>3. Sound(n)
      BY <2>1, CommitFailureSound DEF OrNone
    <3>4. FailsFrom(state, n) \/ Aims(state, RetryPhase(state.phase), n)
      BY <2>1, <3>2, <1>CommitFailureCounts
    <3> HIDE DEF n
    <3> QED BY <2>2, <3>1, <3>2, <3>3, <3>4 DEF CountedResult, n
  <2> QED BY <2>3, <2>4, <2>5, <2>6, <2>7, <2>8, <2>9 DEF ResultArrives

\* So is every failure, after any expired deadline.
<1>FailingCounts.
      ASSUME IInv, PhaseFails \/ StepCrashes \/ AgentFails
      PROVE  CountedResult(state, state')
  <2> USE <1>FailingCounts
  <2>1. /\ Sound(state) /\ HasCounts(state)
        /\ {"previous_phase", "pending_cycle_outcome"} \subseteq DOMAIN state
    BY InvariantMeansSound, SoundCounts DEF Sound, State
  <2> DEFINE Good(v) == Sound(v) /\ CountedResult(state, v)
  <2>2. Good(state)
    BY <2>1, KeepsItself DEF CountedResult
  <2>3. \A e \in OrNone(ErrorKinds) : Good(controller_retries(state, e))
    <3>1. ASSUME NEW e \in OrNone(ErrorKinds)
          PROVE  Good(controller_retries(state, e))
      <4>1. KeepsCounts(state, controller_retries(state, e))
        BY <2>1 DEF controller_retries, KeepsCounts, SameCounts, SamePlace, HasCounts, Counts
      <4>2. Sound(controller_retries(state, e))
        BY <2>1, <3>1, ControllerVerdictSound
      <4> QED BY <4>1, <4>2 DEF CountedResult
    <3> QED BY <3>1
  <2>4. \A v \in Verdicts(state) : Good(v) /\ Good(reduce_phase_failure(state, v))
    <3>1. ASSUME NEW v \in Verdicts(state)
          PROVE  \/ \E e \in OrNone(ErrorKinds) : v = controller_retries(state, e)
                 \/ \E e \in OrNone(ErrorKinds), counted \in BOOLEAN :
                      v = controller_fails_phase(state, e, counted)
      <4>1. /\ FailureReasons \subseteq OrNone(ErrorKinds)
            /\ FailureReasons \cup {state.last_error} \subseteq OrNone(ErrorKinds)
        BY <2>1, RunAssumption DEF Sound, State, OrNone
      <4> QED BY SMTT(30), <3>1, <4>1 DEF Verdicts
    <3>2. ASSUME NEW e \in OrNone(ErrorKinds)
          PROVE  Good(reduce_phase_failure(state, controller_retries(state, e)))
      <4>1. controller_retries(state, e).phase = state.phase
        BY <2>1 DEF controller_retries, HasCounts, Counts
      <4> QED BY <2>3, <4>1 DEF reduce_phase_failure
    <3>3. ASSUME NEW e \in OrNone(ErrorKinds), NEW counted \in BOOLEAN
          PROVE  LET v == controller_fails_phase(state, e, counted)
                 IN  Good(v) /\ Good(reduce_phase_failure(state, v))
      <4> DEFINE v == controller_fails_phase(state, e, counted)
      <4>1. Sound(v) /\ FailsFrom(state, v) /\ FailsFrom(state, reduce_phase_failure(state, v))
        BY <2>1, ControllerVerdictSound, FailuresCount
      <4> HIDE DEF v
      <4>2. Sound(reduce_phase_failure(state, v))
        BY <2>1, <4>1, ExecutionCycleOutcomeSound DEF reduce_phase_failure
      <4> QED BY <4>1, <4>2 DEF CountedResult, v
    <3> QED BY <2>3, <3>1, <3>2, <3>3
  <2>5. Good(handle_chain_exhausted(state, rt_now))
    BY <2>1, ChainExhaustedSound, <1>ChainExhaustedCounts DEF CountedResult
  <2>6. Good(enter_failed_recovery(state, "other"))
    BY <2>1, EnterFailedRecoverySound, FailuresCount DEF CountedResult, OrNone, ErrorKinds
  <2>7. ASSUME NEW outcomes, \A v \in outcomes : Good(v)
        PROVE  \A v \in AfterExpiry(outcomes) : Good(v)
    BY <2>1, <2>7, RedirectSound, RedirectCounts DEF AfterExpiry, CountedResult
  <2>8. PICK v : Reduces(v) /\ Good(v)
    <3> DEFINE failed == {reduce_phase_failure(state, u) : u \in Verdicts(state)}
               outcomes == {state, controller_retries(state, "other"),
                            handle_chain_exhausted(state, rt_now),
                            enter_failed_recovery(state, "other")}
    <3>1. (\A v \in failed : Good(v)) /\ (\A v \in Verdicts(state) : Good(v))
      BY <2>4
    <3>2. \A v \in outcomes : Good(v)
      BY <2>2, <2>3, <2>5, <2>6 DEF OrNone, ErrorKinds
    <3> HIDE DEF Good, failed, outcomes
    <3>3. CASE PhaseFails
      BY <2>7, <3>1, <3>3 DEF PhaseFails, failed
    <3>4. CASE StepCrashes
      BY <2>7, <3>1, <3>4 DEF StepCrashes
    <3>5. CASE AgentFails
      BY <2>7, <3>2, <3>5 DEF AgentFails, outcomes
    <3> QED BY <3>3, <3>4, <3>5
  <2> QED BY <2>8, <1>ReducedCounts, <1>CountedOfSame

\* Every dispatch is counted from the prepared phase.
<1>DispatchCounts.
      ASSUME IInv,
             \/ ReenterFailedPhase \/ PlanMissingOnReentry
             \/ AdvanceExhausted \/ EmptyCommit
             \/ NoAgentToInvoke \/ WorktreeUnreadable
             \/ InvokeAgent \/ PlanMissing \/ StartCommit
      PROVE  Dispatching /\ CountedDispatch(prepared, state')
  <2> USE <1>DispatchCounts
  <2>1. Sound(prepared) /\ prepared.phase \in Phases
    BY InvariantMeansSound, PreparedSound, SoundCounts
  <2>2. Role[prepared.phase] \in {"execution", "analysis", "commit_cleanup", "commit"}
          => prepared.phase \notin TerminalStates
    BY DEF TerminalStates
  <2>3. needs_agent(prepared) => prepared.phase \notin TerminalStates
    BY <2>2 DEF needs_agent
  <2>4. CASE ReenterFailedPhase
    BY <2>1, <2>4, <1>ReenterCounts DEF ReenterFailedPhase, CountedDispatch
  <2>5. CASE PlanMissingOnReentry
    BY <2>1, <2>5, <1>MissingPlanCounts DEF PlanMissingOnReentry, CountedDispatch
  <2>6. CASE AdvanceExhausted
    <3>1. prepared.phase \notin TerminalStates
      BY <2>2, <2>6 DEF AdvanceExhausted, exhausted_analysis
    <3> QED BY <2>1, <2>6, <3>1, SuccessCounts
            DEF AdvanceExhausted, handle_phase_advance, CountedDispatch
  <2>7. CASE EmptyCommit
    <3>1. Dispatching
      BY <2>7 DEF EmptyCommit
    <3>2. \/ /\ Role[prepared.phase] = "commit_cleanup"
             /\ Aims(prepared, OnSuccess[prepared.phase], state')
          \/ Role[prepared.phase] = "commit" /\ CommitsCount(prepared, state')
      <4>1. \A rt : CommitsCount(prepared, handle_commit_success(prepared, rt))
        BY <2>1, <1>CommitDoneCounts DEF handle_commit_success
      <4> QED BY <2>1, <2>7, <4>1, SuccessCounts DEF EmptyCommit
    <3> QED BY <2>2, <3>1, <3>2 DEF CountedDispatch
  <2>8. CASE NoAgentToInvoke \/ WorktreeUnreadable
    <3>1. Dispatching /\ state' = exit_failure(prepared) /\ prepared.phase \notin TerminalStates
      BY <2>2, <2>3, <2>8 DEF NoAgentToInvoke, WorktreeUnreadable
    <3> QED BY <2>1, <3>1, FailuresCount DEF CountedDispatch
  <2>9. CASE InvokeAgent \/ StartCommit
    BY <2>2, <2>3, <2>9 DEF InvokeAgent, StartCommit, Starts, CountedDispatch
  <2>10. CASE PlanMissing
    BY <2>1, <2>3, <2>10, <1>MissingPlanCounts DEF PlanMissing, CountedDispatch
  <2> QED BY <2>4, <2>5, <2>6, <2>7, <2>8, <2>9, <2>10
<1> SUFFICES ASSUME IInv, InFlight, [Next]_vars
             PROVE  \/ KeepsCounts(state, state')
                    \/ state.phase \notin TerminalStates /\ CountedResult(state, state')
                    \/ Dispatching /\ CountedDispatch(prepared, state')
  BY <1>DecisionsCount
<1>1. Sound(state) /\ KeepsCounts(state, state)
  BY InvariantMeansSound, KeepsItself
<1>2. CASE UNCHANGED vars
  BY <1>1, <1>2 DEF vars
<1>3. CASE Tick
  BY <1>1, <1>3, TickCounts
<1>4. CASE Finishes \/ StopsAtFailedRoute \/ LedgerStops
  BY <1>1, <1>4 DEF Finishes, StopsAtFailedRoute, LedgerStops, Leave
<1>5. CASE ResultArrives
  <2>1. state.phase \notin TerminalStates
    BY <1>5 DEF ResultArrives, InFlight, AgentSucceeds, ExecutionReports,
      AnalysisDecides, CleanupLoopsBack, AgentSkipsCommit, CommitSucceeds,
      CommitSkipped, CommitResidual, CommitFails, CommitWithoutMessage,
      AgentReturns, CommitReturns, NONE
  <2> QED BY <1>5, <2>1, <1>ResultsCount
<1>6. CASE PhaseFails \/ StepCrashes \/ AgentFails
  <2>1. state.phase \notin TerminalStates
    BY <1>6 DEF InFlight, PhaseFails, StepCrashes, AgentFails, AgentReturns,
      CommitReturns, NONE
  <2> QED BY <1>6, <2>1, <1>FailingCounts
<1>7. CASE \/ ReenterFailedPhase \/ PlanMissingOnReentry
           \/ AdvanceExhausted \/ EmptyCommit
           \/ NoAgentToInvoke \/ WorktreeUnreadable
           \/ InvokeAgent \/ PlanMissing \/ StartCommit
  BY <1>7, <1>DispatchCounts
<1> QED BY <1>2, <1>3, <1>4, <1>5, <1>6, <1>7
  DEF Next, Proceed, Ended, ResultArrives

-----------------------------------------------------------------------------
(***************************************************************************)
(* A loop counter that is kept within phases of its own.                   *)
(***************************************************************************)
\* The phases of S that loop on c.
LoopsOn(c, S) == {p \in S : LoopCounter[p] = c}

\* s is in S, or in a failure of it.
StandsIn(S, s) ==
  s.phase \in S \/ (s.phase = failed_route /\ s.previous_phase \in S)

\* c is charged only within S, and never to its cap where it loops.
WithinSpan(c, S, s) ==
  /\ s.loop_iterations[c] # 0 =>
       /\ S # {}
       /\ \/ StandsIn(S, s)
          \/ s.phase = failed_route /\ s.previous_phase \in {NONE, failed_route}
  /\ StandsIn(LoopsOn(c, S), s) => s.loop_iterations[c] < Cap[c]

\* The cycle timer has stopped in a commit that closes a cycle.
TimerEnds(s) == s.phase \in ClosingCommits => ~s.cycle_timebox_active

\* Every loop counter is kept within its phases.
LoopsInSpan(Span, s) ==
  \A c \in LoopCounters : KeepsWithin(c, Span[c]) => WithinSpan(c, Span[c], s)

\* The beginning of an advance is typed.
LEMMA AimsFrom ==
  ASSUME NEW s, NEW p \in Phases, NEW n, Aims(s, p, n)
  PROVE  /\ At(s, p) \in Stops /\ At(s, p).loops = s.loop_iterations
         /\ At(s, p).target = p
         /\ s.phase \in Phases /\ s.loop_iterations \in LoopCounts
<1>1. PICK b, rt : Sound(b) /\ SameCounts(s, b)
  BY DEF Aims
<1>2. At(s, p) = At(b, p) /\ At(b, p) \in Stops
  BY <1>1, AtSame, AtType
<1>3. b.phase \in Phases /\ b.loop_iterations \in LoopCounts
  BY <1>1, SoundCounts
<1> QED BY <1>1, <1>2, <1>3 DEF At, SameCounts, SamePlace

\* The end of a failure.
LEMMA FailsLands ==
  ASSUME NEW s, NEW n, FailsFrom(s, n)
  PROVE  n.phase = failed_route /\ n.iteration = s.iteration
<1>1. CASE Failed(s, n)
  BY <1>1 DEF Failed
<1>2. ASSUME NEW a, NEW c, Failed(s, a), Charged(a, n, c)
      PROVE  n.phase = failed_route /\ n.iteration = s.iteration
  BY <1>2 DEF Failed, Charged
<1> QED BY <1>1, <1>2 DEF FailsFrom

\* A commit that counts a cycle is one that closes it.
LEMMA CommitsClose ==
  ASSUME NEW s, Sound(s), NEW n, NEW skipped \in BOOLEAN,
         CommitsFrom(apply_commit_outcome(s, skipped), n)
  PROVE  /\ n.iteration = apply_commit_outcome(s, skipped).iteration
         /\ n.iteration # s.iteration =>
              s.phase \in ClosingCommits /\ n.iteration = s.iteration + 1
<1> DEFINE c == apply_commit_outcome(s, skipped)
           p == resolve_post_commit_phase(c)
<1>1. /\ Sound(c) /\ HasCounts(c)
      /\ \/ c.iteration = s.iteration
         \/ c.iteration = s.iteration + 1 /\ s.phase \in ClosingCommits
  BY CommitCounted
<1>2. CommitsFrom(c, n)
  OBVIOUS
<1> HIDE DEF c
<1>3. p \in Phases /\ OnSuccess[p] \in Phases
  BY <1>1, PostCommitPhaseType, NextPhases
<1>4. Consumed(c).iteration = c.iteration
  BY <1>1 DEF Consumed, HasCounts, Counts
<1> HIDE DEF p
<1>5. \A b : \A m : \A q \in Phases : Aims(b, q, m) => m.iteration = b.iteration
  BY AimsLands
<1>6. Admits(c, p, n) => n.iteration = c.iteration
  <2> SUFFICES ASSUME Admits(c, p, n) PROVE n.iteration = c.iteration
    OBVIOUS
  <2>1. PICK m, e : Aims(c, p, m) /\ (Charged(m, n, e) \/ SameCounts(m, n))
    BY DEF Admits
  <2>2. n.iteration = m.iteration
    BY <2>1 DEF Charged, SameCounts, SamePlace
  <2> QED BY <1>3, <1>5, <2>1, <2>2
<1>7. n.iteration = c.iteration
  BY <1>2, <1>3, <1>4, <1>5, <1>6 DEF CommitsFrom, p
<1> QED BY <1>1, <1>7 DEF c

\* A redirect closes no cycle.
LEMMA RedirectKeepsIteration ==
  ASSUME NEW s, NEW n, RedirectsTo(s, n)
  PROVE  n.iteration = s.iteration
<1>1. /\ cycle_timebox.finalization_target \in Phases
      /\ development_timebox.finalization_target \in Phases
  BY TimeboxAssumption DEF CycleTimeboxPolicies, DevelopmentTimeboxPolicies
<1>2. \A b : \A q \in Phases : Aims(b, q, n) => n.iteration = b.iteration
  BY AimsLands
<1> QED BY <1>1, <1>2 DEF RedirectsTo, Overdue, SamePlace

\* A step that closes a cycle leaves nothing of it for the next.
NothingLeft ==
  state'.iteration # state.iteration =>
    /\ state'.iteration = state.iteration + 1
    /\ state.phase \in ClosingCommits \/ prepared.phase \in ClosingCommits
    /\ \A c \in LoopCounters : state'.loop_iterations[c] = 0
    /\ state'.pending_cycle_outcome = NONE
    /\ state'.post_commit_phase_override = NONE
    /\ ~state'.cycle_timebox_active

\* A run starts clean.
LEMMA CleanStart ==
  ASSUME NEW W, NEW Span, CleanShape(W, Span), Init
  PROVE  LoopsInSpan(Span, state) /\ TimerEnds(state)
<1>1. /\ state.phase = entry_phase /\ state.cycle_timebox_active = FALSE
      /\ state.previous_phase = NONE
      /\ \A c \in LoopCounters : state.loop_iterations[c] = 0
  BY DEF Init, InitialState
<1>2. ASSUME NEW c \in LoopCounters, KeepsWithin(c, Span[c])
      PROVE  WithinSpan(c, Span[c], state)
  <2>1. entry_phase \notin LoopsOn(c, Span[c])
    BY <1>2 DEF LoopsOn, KeepsWithin
  <2>2. state.phase = failed_route => state.previous_phase \notin LoopsOn(c, Span[c])
    BY <1>1, <1>2, NamesAssumption DEF LoopsOn, KeepsWithin
  <2> QED BY <1>1, <2>1, <2>2 DEF WithinSpan, StandsIn
<1> QED BY <1>1, <1>2 DEF TimerEnds, LoopsInSpan

-----------------------------------------------------------------------------
(***************************************************************************)
(* The next cycle starts clean.                                            *)
(***************************************************************************)
\* Every step keeps the loops within their phases and the timer stopped in a
\* closing commit, and the step that closes a cycle leaves nothing behind.
\* The first steps follow one counter, then the timer, then the commit, through every
\* kind of step.
LEMMA CleanStep ==
  \A W, Span :
    /\ CleanShape(W, Span) /\ IInv /\ InFlight
    /\ OnItsWay(W, state) /\ OnItsWay(W, prepared)
    /\ LoopsInSpan(Span, state) /\ TimerEnds(state)
    /\ [Next]_vars
    => /\ LoopsInSpan(Span, state') /\ TimerEnds(state')
       /\ NothingLeft
\* Routing leads out of S only with c reset.
<1>SpanOnward.
      ASSUME NEW c \in LoopCounters, NEW S, KeepsWithin(c, S),
             NEW x, NEW k \in Stops, NEW m, Onward(x, k, m),
             k.loops[c] # 0 => k.target \in S
      PROVE  m \in Stops /\ (m.loops[c] # 0 => m.target \in S)
  <2> USE <1>SpanOnward
  <2> DEFINE V == {v \in Stops : v.loops[c] # 0 => v.target \in S}
  <2>1. ASSUME NEW a \in V, NEW b \in Stops, Turns(x, a, b)
        PROVE  b \in V
    <3>1. /\ a \in Stops /\ (a.loops[c] # 0 => a.target \in S)
          /\ a.loops \in [LoopCounters -> Nat] /\ a.target \in Phases
      BY DEF Stops, LoopCounts
    <3>2. \A d, e : e \in [LoopCounters -> Nat] /\ d \in LoopCounters /\ d # c
                      => [e EXCEPT ![d] = 0][c] = e[c]
      OBVIOUS
    <3>3. \A e : e \in [LoopCounters -> Nat] => [e EXCEPT ![c] = 0][c] = 0
      OBVIOUS
    <3>4. SUFFICES b.loops[c] # 0 => b.target \in S
      OBVIOUS
    <3>5. CASE /\ HasCycleTimebox /\ a.target = cycle_timebox.guarded_entry
               /\ b.loops = a.loops
      BY <3>1, <3>5 DEF KeepsWithin
    <3>6. CASE b.loops = a.loops /\ b.target = a.target
      BY <3>1, <3>6
    <3>7. CASE /\ HasDevelopmentTimebox /\ a.target = development_timebox.guarded_entry
               /\ b.loops = a.loops
      BY <3>1, <3>7 DEF KeepsWithin
    <3>8. CASE /\ Spent(a.loops, a.target)
               /\ b.loops = [a.loops EXCEPT ![LoopCounter[a.target]] = 0]
      <4>1. LoopCounter[a.target] \in LoopCounters
        BY ZenonT(30), <3>1, <3>8, CountersAssumption DEF Spent, OrNone
      <4>2. CASE LoopCounter[a.target] = c
        BY <3>1, <3>3, <3>8, <4>2
      <4>3. CASE LoopCounter[a.target] # c
        <5>1. b.loops[c] = a.loops[c]
          BY <3>1, <3>2, <3>8, <4>1, <4>3
        <5>2. a.target \notin S
          BY <4>1, <4>3, NamesAssumption DEF KeepsWithin
        <5> QED BY <3>1, <5>1, <5>2
      <4> QED BY <4>2, <4>3
    <3>9. CASE /\ Spent(a.loops, x) /\ b.target = a.target
               /\ b.loops = [a.loops EXCEPT ![LoopCounter[x]] = 0]
      <4>1. b.loops[c] = a.loops[c] \/ b.loops[c] = 0
        BY <3>1, <3>9
      <4> QED BY <3>1, <3>9, <4>1
    <3> QED BY <2>1, <3>5, <3>6, <3>7, <3>8, <3>9 DEF Turns
  <2>2. k \in V /\ V \in SUBSET Stops
    OBVIOUS
  <2>3. m \in V
    <3> HIDE DEF V
    <3> QED BY <2>1, <2>2, OnwardWithin
  <2> QED BY <2>3

\* An advance keeps the counter within S.
<1>SpanAims.
      ASSUME NEW c \in LoopCounters, NEW S, KeepsWithin(c, S),
             NEW s, NEW p \in Phases, NEW n, Aims(s, p, n),
             s.loop_iterations[c] # 0 => p \in S,
             s.phase \in LoopsOn(c, S) => 0 < Cap[c]
      PROVE  WithinSpan(c, S, n)
  <2> USE <1>SpanAims
  <2>1. /\ At(s, p) \in Stops /\ At(s, p).loops = s.loop_iterations
        /\ At(s, p).target = p
    BY AimsFrom
  <2>2. /\ n.phase \in Phases
        /\ Onward(s.phase, At(s, p), At(n, n.phase))
        /\ n.phase \notin Finals => ~is_exhausted(n, n.phase)
        /\ n.phase = failed_route => n.previous_phase = s.phase
    BY AimsLands DEF Aims
  <2>3. At(n, n.phase) \in Stops /\ (n.loop_iterations[c] # 0 => n.phase \in S)
    <3>1. /\ At(n, n.phase) \in Stops
          /\ At(n, n.phase).loops[c] # 0 => At(n, n.phase).target \in S
      BY <2>1, <2>2, <1>SpanOnward
    <3> QED BY <3>1 DEF At
  <2>4. n.loop_iterations[c] \in Nat /\ Cap[c] \in Nat
    BY <2>3, CountersAssumption DEF At, Stops, LoopCounts
  <2>5. failed_route \notin S
    BY DEF KeepsWithin
  <2>6. n.phase \in LoopsOn(c, S) => n.phase \notin Finals
    BY DEF LoopsOn, Finals, KeepsWithin
  <2>7. n.phase \in LoopsOn(c, S) => n.loop_iterations[c] < Cap[c]
    BY SMTT(30), <2>2, <2>4, <2>6, NamesAssumption DEF LoopsOn, is_exhausted, should_skip_reentry
  <2>8. n.phase = failed_route => n.loop_iterations[c] = 0
    BY <2>3, <2>5
  <2> QED BY <2>2, <2>3, <2>5, <2>7, <2>8 DEF WithinSpan, StandsIn, LoopsOn

\* So does a failure, wherever it is charged.
<1>SpanFails.
      ASSUME NEW c \in LoopCounters, NEW S, KeepsWithin(c, S),
             NEW s, s.phase \in Phases, s.loop_iterations \in LoopCounts,
             NEW n, FailsFrom(s, n),
             s.loop_iterations[c] # 0 => s.phase \in S,
             s.phase \in LoopsOn(c, S) => s.loop_iterations[c] < Cap[c]
      PROVE  WithinSpan(c, S, n)
  <2> USE <1>SpanFails
  <2> DEFINE e == ExecutionCycleCounter[s.phase]
  <2>1. n.previous_phase = s.phase /\ failed_route \notin S
    BY DEF FailsFrom, KeepsWithin
  <2>2. n.phase = failed_route
    BY DEF FailsFrom, Failed, Charged
  <2>3. CASE n.loop_iterations[c] = s.loop_iterations[c]
    BY <2>1, <2>2, <2>3 DEF WithinSpan, StandsIn, LoopsOn
  <2>4. CASE e = c
    <3>1. s.phase \in S /\ s.phase \notin LoopsOn(c, S)
      BY <2>4 DEF KeepsWithin, LoopsOn
    <3> QED BY <2>1, <2>2, <3>1 DEF WithinSpan, StandsIn, LoopsOn
  <2>5. CASE e # c /\ n.loop_iterations[c] # s.loop_iterations[c]
    <3>1. e # NONE /\ \E a : Failed(s, a) /\ Charged(a, n, e)
      BY <2>5 DEF FailsFrom, Failed
    <3>2. n.loop_iterations = [s.loop_iterations EXCEPT ![e] =
            next_completed(s.loop_iterations[e], Cap[e])]
      BY <3>1 DEF Failed, Charged
    <3> QED BY <2>5, <3>2 DEF LoopCounts
  <2> QED BY <2>3, <2>4, <2>5

\* And a step that keeps the counts.
<1>SpanKept.
      ASSUME NEW c, NEW S, NEW s, WithinSpan(c, S, s), NEW n, KeepsCounts(s, n)
      PROVE  WithinSpan(c, S, n)
  BY <1>SpanKept DEF WithinSpan, StandsIn, KeepsCounts, SameCounts, SamePlace

\* A commit, from outside S.
<1>SpanCommits.
      ASSUME NEW c \in LoopCounters, NEW S, KeepsWithin(c, S),
             NEW s, Sound(s), s.phase \notin S, s.loop_iterations[c] = 0,
             NEW n, CommitsCount(s, n)
      PROVE  WithinSpan(c, S, n)
  <2> USE <1>SpanCommits
  <2>1. PICK skipped \in BOOLEAN : CommitsFrom(apply_commit_outcome(s, skipped), n)
    BY DEF CommitsCount
  <2> DEFINE b == apply_commit_outcome(s, skipped)
             p == resolve_post_commit_phase(b)
  <2>2. /\ Sound(b) /\ HasCounts(b) /\ b.phase = s.phase
        /\ b.loop_iterations[c] =
             IF c \in LoopResets[s.phase] THEN 0 ELSE s.loop_iterations[c]
    BY CommitCounted
  <2>3. CommitsFrom(b, n)
    BY <2>1
  <2> HIDE DEF b
  <2>4. p \in Phases /\ b.loop_iterations[c] = 0
    BY <2>2, PostCommitPhaseType
  <2>5. /\ Consumed(b).loop_iterations[c] = 0
        /\ Consumed(b).phase = s.phase
    BY <2>2, <2>4 DEF Consumed, HasCounts, Counts
  <2>6. s.phase \notin LoopsOn(c, S) /\ OnSuccess[p] \in Phases
    BY <2>4, NextPhases DEF LoopsOn
  <2> HIDE DEF p
  <2>7. CASE Aims(Consumed(b), p, n)
    BY <2>4, <2>5, <2>6, <2>7, <1>SpanAims
  <2>8. \A q \in Phases : \A m : Aims(b, q, m) => WithinSpan(c, S, m)
    BY <2>2, <2>4, <2>6, <1>SpanAims
  <2>9. CASE GateUpstream[p] # NONE /\ Admits(b, p, n)
    <3> DEFINE e == ExecutionCycleCounter[GateUpstream[p]]
    <3>1. PICK m : /\ Aims(b, p, m)
                   /\ n.previous_phase = m.previous_phase
                   /\ IF m.phase = p /\ e # NONE THEN Charged(m, n, e) ELSE SameCounts(m, n)
      BY <2>9 DEF Admits
    <3>2. WithinSpan(c, S, m)
      BY <2>4, <2>8, <3>1
    <3>3. e # c
      BY <2>4, <2>9 DEF KeepsWithin
    <3>4. m.loop_iterations \in LoopCounts
      <4>1. Onward(b.phase, At(b, p), At(m, m.phase))
        BY <2>4, <3>1, AimsLands
      <4> QED BY <4>1 DEF Onward, At, Stops
    <3>5. n.phase = m.phase /\ n.loop_iterations[c] = m.loop_iterations[c]
      <4>1. CASE Charged(m, n, e)
        BY <3>3, <3>4, <4>1 DEF Charged, LoopCounts
      <4>2. CASE SameCounts(m, n)
        BY <4>2 DEF SameCounts, SamePlace
      <4> QED BY <3>1, <4>1, <4>2
    <3> QED BY <3>1, <3>2, <3>5 DEF WithinSpan, StandsIn
  <2>10. ASSUME NEW q \in Phases, Aims(b, q, n)
         PROVE  WithinSpan(c, S, n)
    BY <2>8, <2>10
  <2> QED BY <2>3, <2>4, <2>6, <2>7, <2>9, <2>10 DEF CommitsFrom, p

\* A decision, from inside S or outside.
<1>SpanDecides.
      ASSUME NEW c \in LoopCounters, NEW S, KeepsWithin(c, S),
             NEW s, Sound(s),
             s.loop_iterations[c] # 0 => s.phase \in S,
             s.phase \in LoopsOn(c, S) => s.loop_iterations[c] < Cap[c] /\ 0 < Cap[c],
             NEW d \in Decisions, NEW n, Decides(s, d, n)
      PROVE  WithinSpan(c, S, n)
  <2> USE <1>SpanDecides
  <2> DEFINE route == Route[s.phase][d]
             b == count_decision(s, route)
  <2>1. /\ s.phase \in Phases /\ s.loop_iterations \in LoopCounts
        /\ s.loop_iterations \in [LoopCounters -> Nat]
    BY SoundCounts DEF LoopCounts
  <2>2. Recounts(s, b)
    BY DecisionCounts
  <2>3. LoopCounter[s.phase] = c /\ route.reset_loop => b.loop_iterations[c] = 0
    <3>1. HasCounts(s) /\ c # NONE
      BY SoundCounts, NamesAssumption
    <3> QED BY <2>1, <3>1
         DEF count_decision, with_loop_iteration, HasCounts, Counts
  <2> HIDE DEF b
  <2>4. /\ b.phase = s.phase /\ b.loop_iterations \in LoopCounts
        /\ c # LoopCounter[s.phase] => b.loop_iterations[c] = s.loop_iterations[c]
    BY <2>2 DEF Recounts, SamePlace
  <2>5. s.phase \notin S => LoopCounter[s.phase] # c /\ b.loop_iterations[c] = 0
    BY <2>1, <2>4 DEF KeepsWithin
  <2>6. s.phase \in S => \/ route.target \in OrNone(S)
                         \/ LoopCounter[s.phase] = c /\ route.reset_loop
    BY DEF KeepsWithin
  <2>7. CASE route.target = NONE /\ FailsFrom(s, n)
    BY <2>1, <2>7, <1>SpanFails
  <2>8. CASE route.target = failed_route /\ FailsFrom(b, n)
    <3>1. b.loop_iterations[c] = 0
      BY ZenonT(30), <2>3, <2>5, <2>6, <2>8, NamesAssumption DEF KeepsWithin, OrNone
    <3> QED BY <2>1, <2>4, <2>8, <3>1, <1>SpanFails
  <2>9. CASE route.target \in Phases \ {failed_route} /\ Aims(b, route.target, n)
    <3>1. b.loop_iterations[c] # 0 => route.target \in S
      BY <2>3, <2>5, <2>6, <2>9, NamesAssumption DEF OrNone
    <3>2. b.phase \in LoopsOn(c, S) => 0 < Cap[c]
      BY <2>4
    <3> QED BY <2>9, <3>1, <3>2, <1>SpanAims
  <2> QED BY <2>7, <2>8, <2>9 DEF Decides, b

\* A deadline keeps the counter within S.
<1>SpanRedirects.
      ASSUME NEW c \in LoopCounters, NEW S, KeepsWithin(c, S),
             NEW s, s.phase \in Phases, s.loop_iterations[c] # 0 => s.phase \in S,
             NEW n, RedirectsTo(s, n)
      PROVE  WithinSpan(c, S, n)
  <2> USE <1>SpanRedirects
  <2>1. CASE /\ HasCycleTimebox /\ s.phase = cycle_timebox.guarded_entry
             /\ Aims(s, cycle_timebox.finalization_target, n)
    <3>1. cycle_timebox.finalization_target \in Phases
      BY TimeboxAssumption DEF CycleTimeboxPolicies
    <3>2. s.phase \notin S /\ s.phase \notin LoopsOn(c, S)
      BY <2>1 DEF KeepsWithin, LoopsOn
    <3> QED BY <2>1, <3>1, <3>2, <1>SpanAims
  <2>2. CASE /\ HasDevelopmentTimebox /\ s.phase = development_timebox.guarded_entry
             /\ \E b : Overdue(s, b) /\ Aims(b, development_timebox.finalization_target, n)
    <3>1. PICK b : Overdue(s, b) /\ Aims(b, development_timebox.finalization_target, n)
      BY <2>2
    <3>2. development_timebox.finalization_target \in Phases
      BY TimeboxAssumption DEF DevelopmentTimeboxPolicies
    <3>3. s.phase \notin S /\ s.phase \notin LoopsOn(c, S)
      BY <2>2 DEF KeepsWithin, LoopsOn
    <3>4. b.phase = s.phase /\ b.loop_iterations[c] = s.loop_iterations[c]
      BY <3>1 DEF Overdue, SamePlace
    <3> QED BY <3>1, <3>2, <3>3, <3>4, <1>SpanAims
  <2> QED BY <2>1, <2>2 DEF RedirectsTo

\* Results and failures of what runs in S, or outside.
<1>SpanResult.
      ASSUME NEW c \in LoopCounters, NEW S, KeepsWithin(c, S), ChargedPhasesFail,
             NEW s, Sound(s), s.phase \notin TerminalStates, WithinSpan(c, S, s),
             NEW n, CountedResult(s, n)
      PROVE  WithinSpan(c, S, n)
  <2> USE <1>SpanResult
  <2>1. /\ s.phase \in Phases /\ s.loop_iterations \in LoopCounts
        /\ s.loop_iterations[c] \in Nat /\ Cap[c] \in Nat
    BY SoundCounts, CountersAssumption DEF LoopCounts
  <2>2. s.phase # failed_route
    BY FailedRouteIsTerminal DEF TerminalStates
  <2>3. s.loop_iterations[c] # 0 => s.phase \in S
    BY <2>2 DEF WithinSpan, StandsIn
  <2>4. s.phase \in LoopsOn(c, S) => s.loop_iterations[c] < Cap[c] /\ 0 < Cap[c]
    <3>1. s.phase \in LoopsOn(c, S) => s.loop_iterations[c] < Cap[c]
      BY DEF WithinSpan, StandsIn
    <3>2. s.loop_iterations[c] < Cap[c] => 0 < Cap[c]
      BY SMTT(30), <2>1
    <3> QED BY <3>1, <3>2
  <2>5. s.phase \in S => Role[s.phase] \notin {"commit_cleanup", "commit"}
    BY DEF KeepsWithin
  <2>6. s.phase \notin S => s.phase \notin LoopsOn(c, S) /\ LoopCounter[s.phase] # c
    BY <2>1 DEF KeepsWithin, LoopsOn
  <2>7. OnSuccess[s.phase] \in Phases
    BY <2>1, NextPhases
  <2>8. CASE KeepsCounts(s, n)
    BY <2>8, <1>SpanKept
  <2>9. ASSUME NEW p \in Phases, s.phase \in S => p \in S, Aims(s, p, n)
        PROVE  WithinSpan(c, S, n)
    BY <2>3, <2>4, <2>9, <1>SpanAims
  <2>10. CASE /\ Role[s.phase] \in {"execution", "commit_cleanup"}
              /\ Aims(s, OnSuccess[s.phase], n)
    <3>1. s.phase \in S => OnSuccess[s.phase] \in S
      BY <2>5, <2>10 DEF KeepsWithin
    <3> QED BY <2>7, <2>9, <2>10, <3>1
  <2>11. CASE /\ s.phase \in ReportsResult
              /\ \E status \in Statuses : Aims(Reported(s, status), OnSuccess[s.phase], n)
    <3>1. PICK status \in Statuses : Aims(Reported(s, status), OnSuccess[s.phase], n)
      BY <2>11
    <3>2. /\ Reported(s, status).phase = s.phase
          /\ Reported(s, status).loop_iterations = s.loop_iterations
      BY ReportCounts DEF SamePlace
    <3>3. s.phase \in S => OnSuccess[s.phase] \in S
      BY <2>11 DEF KeepsWithin
    <3> QED BY <2>3, <2>4, <2>7, <3>1, <3>2, <3>3, <1>SpanAims
  <2>12. CASE Role[s.phase] = "analysis" /\ \E d \in Decisions : Decides(s, d, n)
    BY <2>3, <2>4, <2>12, <1>SpanDecides
  <2>13. CASE /\ Role[s.phase] = "commit_cleanup"
              /\ \E b : /\ Recounts(s, b)
                        /\ \/ FailsFrom(b, n)
                           \/ OnLoopback[s.phase] # NONE /\ Aims(b, OnLoopback[s.phase], n)
    <3>1. PICK b : /\ Recounts(s, b)
                   /\ \/ FailsFrom(b, n)
                      \/ OnLoopback[s.phase] # NONE /\ Aims(b, OnLoopback[s.phase], n)
      BY <2>13
    <3>2. s.phase \notin S /\ s.loop_iterations[c] = 0
      BY <2>3, <2>5, <2>13
    <3>3. /\ b.phase = s.phase /\ b.loop_iterations \in LoopCounts
          /\ b.loop_iterations[c] = 0
      BY <2>6, <3>1, <3>2 DEF Recounts, SamePlace
    <3>4. OnLoopback[s.phase] # NONE => OnLoopback[s.phase] \in Phases
      BY <2>1, NextPhases DEF OrNone
    <3> QED BY <2>1, <2>6, <3>1, <3>2, <3>3, <3>4, <1>SpanFails, <1>SpanAims
  <2>14. CASE Role[s.phase] = "commit" /\ CommitsCount(s, n)
    <3>1. s.phase \notin S /\ s.loop_iterations[c] = 0
      BY <2>3, <2>5, <2>14
    <3> QED BY <2>14, <3>1, <1>SpanCommits
  <2>15. CASE Role[s.phase] = "commit" /\ (Aims(s, s.phase, n) \/ Aims(s, RetryPhase(s.phase), n))
    <3>1. RetryPhase(s.phase) \in Phases
      BY <2>1, NextPhases DEF RetryPhase, OrNone
    <3> QED BY <2>1, <2>5, <2>9, <2>15, <3>1
  <2>16. CASE FailsFrom(s, n)
    BY <2>1, <2>3, <2>4, <2>16, <1>SpanFails
  <2>17. CASE FallsBack(s, n)
    <3>1. WorkflowFallback[s.phase] \in Phases /\ Aims(s, WorkflowFallback[s.phase], n)
      BY <2>1, <2>17, NextPhases DEF FallsBack, ChargedPhasesFail, OrNone
    <3>2. s.phase \in S => WorkflowFallback[s.phase] \in S
      BY <2>17 DEF FallsBack, KeepsWithin, OrNone
    <3> QED BY <2>9, <3>1, <3>2
  <2>18. CASE RedirectsTo(s, n)
    BY <2>1, <2>3, <2>18, <1>SpanRedirects
  <2> QED BY ZenonT(30), <2>8, <2>10, <2>11, <2>12, <2>13, <2>14, <2>15, <2>16, <2>17, <2>18
       DEF CountedResult

\* Dispatches, from the prepared phase.
<1>SpanDispatch.
      ASSUME NEW c \in LoopCounters, NEW S, KeepsWithin(c, S),
             NEW s, Sound(s), WithinSpan(c, S, s),
             NEW n, CountedDispatch(s, n)
      PROVE  WithinSpan(c, S, n)
  <2> USE <1>SpanDispatch
  <2>1. /\ s.phase \in Phases /\ s.loop_iterations \in LoopCounts
        /\ s.previous_phase \in OrNone(Phases)
        /\ s.loop_iterations[c] \in Nat /\ Cap[c] \in Nat
    BY SoundCounts, CountersAssumption DEF LoopCounts
  <2>2. failed_route \in TerminalStates /\ entry_phase \in Phases /\ failed_route \notin S
    BY FailedRouteIsTerminal DEF TerminalStates, KeepsWithin
  <2>3. CASE s.phase = failed_route /\ ReentersAt(s, n)
    <3> DEFINE p == recovery_target(s)
    <3>1. /\ p \in Phases /\ n.phase \in {p} \cup Finals
          /\ n.loop_iterations = s.loop_iterations
          /\ Onward(s.phase, At(s, p), At(n, n.phase))
      BY <2>3 DEF ReentersAt
    <3>2. s.loop_iterations[c] # 0 => p \in S
      BY <2>2, <2>3 DEF WithinSpan, StandsIn, recovery_target, KeepsWithin
    <3>3. At(s, p) \in Stops /\ At(s, p).loops = s.loop_iterations /\ At(s, p).target = p
      BY <3>1, AtType
    <3>4. At(n, n.phase).loops[c] # 0 => At(n, n.phase).target \in S
      BY <3>1, <3>2, <3>3, <1>SpanOnward
    <3>5. n.loop_iterations[c] # 0 => n.phase \in S
      BY <3>4 DEF At
    <3>6. n.phase \in LoopsOn(c, S) => n.phase = p /\ s.previous_phase = p
      BY <3>1 DEF LoopsOn, Finals, KeepsWithin, recovery_target
    <3>7. n.phase \in LoopsOn(c, S) => n.loop_iterations[c] < Cap[c]
      BY <2>3, <3>1, <3>6 DEF WithinSpan, StandsIn
    <3>8. n.phase # failed_route \/ (n.loop_iterations[c] = 0 /\ n.previous_phase = s.previous_phase)
      BY <2>2, <2>3, <3>5 DEF ReentersAt
    <3>9. n.phase = failed_route /\ n.previous_phase \in LoopsOn(c, S)
            => n.loop_iterations[c] < Cap[c]
      BY <2>3, <3>1, <3>8 DEF WithinSpan, StandsIn
    <3> QED BY <3>5, <3>7, <3>9 DEF WithinSpan, StandsIn
  <2>4. CASE PlanMissed(s, n)
    <3>1. /\ n.phase \in {failed_route, entry_phase} /\ n.previous_phase = s.phase
          /\ n.loop_iterations = s.loop_iterations
      BY <2>4 DEF PlanMissed
    <3>2. S # {} => entry_phase \in S
      BY DEF KeepsWithin
    <3>3. entry_phase \notin LoopsOn(c, S)
      BY DEF KeepsWithin, LoopsOn
    <3>4. n.loop_iterations[c] # 0 =>
            /\ S # {}
            /\ \/ StandsIn(S, n)
               \/ n.phase = failed_route /\ n.previous_phase \in {NONE, failed_route}
      BY <3>1, <3>2 DEF WithinSpan, StandsIn
    <3>5. StandsIn(LoopsOn(c, S), n) => n.loop_iterations[c] < Cap[c]
      BY <2>2, <3>1, <3>3 DEF WithinSpan, StandsIn, LoopsOn
    <3> QED BY <3>4, <3>5 DEF WithinSpan
  <2>5. CASE s.phase \notin TerminalStates
    <3>1. s.loop_iterations[c] # 0 => s.phase \in S
      BY <2>2, <2>5 DEF WithinSpan, StandsIn
    <3>2. s.phase \in LoopsOn(c, S) => s.loop_iterations[c] < Cap[c]
      BY DEF WithinSpan, StandsIn
    <3>3. s.phase \in S => Role[s.phase] \notin {"commit_cleanup", "commit"}
      BY DEF KeepsWithin
    <3>4. s.phase \notin S => s.phase \notin LoopsOn(c, S)
      BY DEF LoopsOn
    <3>5. OnSuccess[s.phase] \in Phases
      BY <2>1, NextPhases
    <3>6. ASSUME s.phase \notin S, Aims(s, OnSuccess[s.phase], n)
          PROVE  WithinSpan(c, S, n)
      BY <3>1, <3>4, <3>5, <3>6, <1>SpanAims
    <3>7. exhausted_analysis(s) => s.phase \notin S
      BY SMTT(30), <2>1, <3>2, CountersAssumption, NamesAssumption
         DEF exhausted_analysis, is_exhausted, should_skip_reentry, KeepsWithin, LoopsOn
    <3>8. CASE exhausted_analysis(s) /\ Aims(s, OnSuccess[s.phase], n)
      BY <3>6, <3>7, <3>8
    <3>9. CASE Role[s.phase] = "commit_cleanup" /\ Aims(s, OnSuccess[s.phase], n)
      BY <3>3, <3>6, <3>9
    <3>10. CASE Role[s.phase] = "commit" /\ CommitsCount(s, n)
      BY <3>1, <3>3, <3>10, <1>SpanCommits
    <3>11. CASE FailsFrom(s, n)
      BY <2>1, <3>1, <3>2, <3>11, <1>SpanFails
    <3>12. CASE n = s
      BY <3>12
    <3> QED BY <2>2, <2>4, <2>5, <3>8, <3>9, <3>10, <3>11, <3>12 DEF CountedDispatch
  <2> QED BY <2>3, <2>4, <2>5 DEF CountedDispatch

\* Only a commit changes the number of closed cycles.
<1>OnlyCommitsClose.
      ASSUME ChargedPhasesFail, NEW s, Sound(s), NEW n, n.iteration # s.iteration
      PROVE  /\ CountedResult(s, n) => Role[s.phase] = "commit" /\ CommitsCount(s, n)
             /\ CountedDispatch(s, n) => Role[s.phase] = "commit" /\ CommitsCount(s, n)
  <2> USE <1>OnlyCommitsClose
  <2>1. s.phase \in Phases
    BY SoundCounts
  <2>2. \A b : FailsFrom(b, n) => n.iteration = b.iteration
    BY FailsLands
  <2>3. \A p \in Phases : \A b : Aims(b, p, n) => n.iteration = b.iteration
    BY AimsLands
  <2>4. OnSuccess[s.phase] \in Phases
    BY <2>1, NextPhases
  <2>5. ASSUME CountedResult(s, n)
        PROVE  Role[s.phase] = "commit" /\ CommitsCount(s, n)
    <3>1. ~KeepsCounts(s, n)
      BY DEF KeepsCounts, SameCounts, SamePlace
    <3>2. \A status \in Statuses : ~Aims(Reported(s, status), OnSuccess[s.phase], n)
      <4>1. \A status \in Statuses : SamePlace(s, Reported(s, status))
        BY ReportCounts
      <4>2. \A status \in Statuses : Reported(s, status).iteration = s.iteration
        BY <4>1 DEF SamePlace
      <4> QED BY SMTT(30), <2>3, <2>4, <4>2
    <3>3. ASSUME NEW d \in Decisions
          PROVE  ~Decides(s, d, n)
      <4>1. Recounts(s, count_decision(s, Route[s.phase][d]))
        BY DecisionCounts
      <4>2. count_decision(s, Route[s.phase][d]).iteration = s.iteration
        BY <4>1 DEF Recounts, SamePlace
      <4> DEFINE route == Route[s.phase][d]
                 b == count_decision(s, route)
      <4>3. ~FailsFrom(s, n) /\ ~FailsFrom(b, n)
        BY <2>2, <4>2
      <4>4. route.target \in Phases => ~Aims(b, route.target, n)
        BY <2>3, <4>2
      <4> QED BY <4>3, <4>4 DEF Decides
    <3>4. ASSUME NEW b, Recounts(s, b)
          PROVE  /\ ~FailsFrom(b, n)
                 /\ ~(OnLoopback[s.phase] # NONE /\ Aims(b, OnLoopback[s.phase], n))
      <4>1. b.iteration = s.iteration
        BY <3>4 DEF Recounts, SamePlace
      <4>2. OnLoopback[s.phase] # NONE => OnLoopback[s.phase] \in Phases
        BY <2>1, NextPhases DEF OrNone
      <4> QED BY <2>2, <2>3, <4>1, <4>2
    <3>5. ~Aims(s, s.phase, n) /\ ~Aims(s, RetryPhase(s.phase), n)
      <4>1. RetryPhase(s.phase) \in Phases
        BY <2>1, NextPhases DEF RetryPhase, OrNone
      <4> QED BY <2>1, <2>3, <4>1
    <3>6. ~FallsBack(s, n)
      <4>1. FallsBack(s, n) =>
              WorkflowFallback[s.phase] \in Phases /\ Aims(s, WorkflowFallback[s.phase], n)
        BY <2>1, NextPhases DEF FallsBack, ChargedPhasesFail, OrNone
      <4> QED BY <2>3, <4>1
    <3>7. ~RedirectsTo(s, n)
      <4>1. /\ cycle_timebox.finalization_target \in Phases
            /\ development_timebox.finalization_target \in Phases
        BY TimeboxAssumption DEF CycleTimeboxPolicies, DevelopmentTimeboxPolicies
      <4> QED BY <2>3, <4>1 DEF RedirectsTo, Overdue, SamePlace
    <3> QED BY ZenonT(30), <2>2, <2>3, <2>4, <2>5, <3>1, <3>2, <3>3, <3>4, <3>5, <3>6, <3>7
         DEF CountedResult
  <2>6. ASSUME CountedDispatch(s, n)
        PROVE  Role[s.phase] = "commit" /\ CommitsCount(s, n)
    <3>1. ~ReentersAt(s, n) /\ ~PlanMissed(s, n)
      BY DEF ReentersAt, PlanMissed
    <3> QED BY <2>2, <2>3, <2>4, <2>6, <3>1 DEF CountedDispatch
  <2> QED BY <2>5, <2>6

\* Every kind of step stops the cycle timer where a cycle is closed.
<1>TimerStops.
      ASSUME ChargedPhasesFail, HasCycleTimebox,
             ClosingCommits \subseteq {cycle_timebox.end_entry},
             NEW s, Sound(s), TimerEnds(s), NEW n
      PROVE  /\ KeepsCounts(s, n) => TimerEnds(n)
             /\ RedirectsTo(s, n) => TimerEnds(n)
             /\ CountedResult(s, n) => TimerEnds(n)
             /\ CountedDispatch(s, n) => TimerEnds(n)
  <2> USE <1>TimerStops
  <2>1. s.phase \in Phases
    BY SoundCounts
  <2>2. failed_route \notin ClosingCommits
    BY BudgetAssumption, FailedRouteIsTerminal
  <2>3. \A b : FailsFrom(b, n) => TimerEnds(n)
    BY <2>2, FailsLands DEF TimerEnds
  <2>4. \A m : \A p \in Phases : \A b : Aims(b, p, m) => TimerEnds(m)
    <3>1. ASSUME NEW m, NEW p \in Phases, NEW b, Aims(b, p, m)
          PROVE  TimerEnds(m)
      <4>1. m.phase = cycle_timebox.end_entry => ~m.cycle_timebox_active
        BY <3>1, AimsLands
      <4> QED BY <4>1 DEF TimerEnds
    <3> QED BY <3>1
  <2>5. OnSuccess[s.phase] \in Phases
    BY <2>1, NextPhases
  <2>6. KeepsCounts(s, n) => TimerEnds(n)
    BY DEF KeepsCounts, SameCounts, SamePlace, TimerEnds
  <2>7. RedirectsTo(s, n) => TimerEnds(n)
    <3>1. /\ cycle_timebox.finalization_target \in Phases
          /\ development_timebox.finalization_target \in Phases
      BY TimeboxAssumption DEF CycleTimeboxPolicies, DevelopmentTimeboxPolicies
    <3> QED BY <2>4, <3>1 DEF RedirectsTo
  <2>8. CommitsCount(s, n) => TimerEnds(n)
    <3> SUFFICES ASSUME CommitsCount(s, n) PROVE TimerEnds(n)
      OBVIOUS
    <3>1. PICK skipped \in BOOLEAN : CommitsFrom(apply_commit_outcome(s, skipped), n)
      BY DEF CommitsCount
    <3> DEFINE c == apply_commit_outcome(s, skipped)
               p == resolve_post_commit_phase(c)
    <3>2. Sound(c) /\ CommitsFrom(c, n)
      BY <3>1, CommitCounted
    <3> HIDE DEF c
    <3>3. p \in Phases /\ OnSuccess[p] \in Phases
      BY <3>2, PostCommitPhaseType, NextPhases
    <3> HIDE DEF p
    <3>4. ASSUME Admits(c, p, n)
          PROVE  TimerEnds(n)
      <4>1. PICK m, e : Aims(c, p, m) /\ (Charged(m, n, e) \/ SameCounts(m, n))
        BY <3>4 DEF Admits
      <4>2. n.phase = m.phase /\ n.cycle_timebox_active = m.cycle_timebox_active
        BY <4>1 DEF Charged, SameCounts, SamePlace
      <4> QED BY <2>4, <3>3, <4>1, <4>2 DEF TimerEnds
    <3> QED BY <2>4, <3>2, <3>3, <3>4 DEF CommitsFrom, p
  <2>9. CountedResult(s, n) => TimerEnds(n)
    <3>1. \A d \in Decisions : Decides(s, d, n) => TimerEnds(n)
      BY <2>3, <2>4 DEF Decides
    <3>2. OnLoopback[s.phase] # NONE => OnLoopback[s.phase] \in Phases
      BY <2>1, NextPhases DEF OrNone
    <3>3. RetryPhase(s.phase) \in Phases
      BY <2>1, NextPhases DEF RetryPhase, OrNone
    <3>4. FallsBack(s, n) =>
            WorkflowFallback[s.phase] \in Phases /\ Aims(s, WorkflowFallback[s.phase], n)
      BY <2>1, NextPhases DEF FallsBack, ChargedPhasesFail, OrNone
    <3> QED BY ZenonT(30), <2>1, <2>3, <2>4, <2>5, <2>6, <2>7, <2>8, <3>1, <3>2, <3>3, <3>4
         DEF CountedResult
  <2>10. CountedDispatch(s, n) => TimerEnds(n)
    <3>1. ReentersAt(s, n) \/ PlanMissed(s, n) => TimerEnds(n)
      BY DEF ReentersAt, PlanMissed, TimerEnds
    <3> QED BY <2>3, <2>4, <2>5, <2>8, <3>1 DEF CountedDispatch
  <2> QED BY <2>6, <2>7, <2>9, <2>10

\* What the commit that closes a cycle leaves, whatever was pending in it.
<1>ClosesClean.
      ASSUME NEW W, NEW Span, CleanShape(W, Span),
             NEW s, Sound(s), s.post_commit_phase_override = NONE, TimerEnds(s),
             Role[s.phase] = "commit",
             \A c \in LoopCounters :
               KeepsWithin(c, Span[c]) => WithinSpan(c, Span[c], s),
             NEW n, CommitsCount(s, n), n.iteration # s.iteration
      PROVE  /\ s.phase \in ClosingCommits
             /\ n.iteration = s.iteration + 1
             /\ \A c \in LoopCounters : n.loop_iterations[c] = 0
             /\ n.pending_cycle_outcome = NONE
             /\ n.post_commit_phase_override = NONE
             /\ ~n.cycle_timebox_active
  <2> USE <1>ClosesClean
  <2>1. PICK skipped \in BOOLEAN :
          /\ CommitsFrom(apply_commit_outcome(s, skipped), n)
          /\ \E rt : KeepsCounts(handle_commit_outcome(s, skipped, rt), n)
    BY DEF CommitsCount
  <2>2. PICK rt : KeepsCounts(handle_commit_outcome(s, skipped, rt), n)
    BY <2>1
  <2> DEFINE c == apply_commit_outcome(s, skipped)
             p == resolve_post_commit_phase(c)
             d == [c EXCEPT !.pending_cycle_outcome = NONE]
             u == [d EXCEPT !.last_execution_result_status = NONE]
             h == handle_commit_outcome(s, skipped, rt)
  <2>3. /\ Sound(c) /\ HasCounts(c) /\ c.phase = s.phase
        /\ c.post_commit_phase_override = NONE
        /\ c.cycle_timebox_active = s.cycle_timebox_active
        /\ \A k \in LoopCounters :
             c.loop_iterations[k] =
               IF k \in LoopResets[s.phase] THEN 0 ELSE s.loop_iterations[k]
    BY CommitCounted
  <2>4. KeepsCounts(h, n)
    BY <2>1, <2>2
  <2>5. h = IF c.post_commit_phase_override # NONE
            THEN reducer_advance_phase(
                   [(IF commit_closes_a_cycle(s.phase) THEN d ELSE c)
                      EXCEPT !.post_commit_phase_override = NONE], p, rt)
            ELSE advance_through_invocation_gate(
                   IF commit_closes_a_cycle(s.phase) THEN d ELSE c, p, rt)
    BY DEF handle_commit_outcome
  <2> HIDE DEF c, h
  <2>6. p \in Phases /\ OnSuccess[p] \in Phases
    BY <2>3, PostCommitPhaseType, NextPhases
  <2>7. s.phase \in ClosingCommits /\ n.iteration = s.iteration + 1
    BY <2>1, CommitsClose
  <2>8. c.pending_cycle_outcome \in OrNone(Outcomes)
    BY <2>3 DEF Sound, State
  <2>9. /\ LoopCounter[p] = NONE /\ GateUpstream[p] = NONE
        /\ p # cycle_timebox.guarded_entry
        /\ HasDevelopmentTimebox => p # development_timebox.guarded_entry
    <3>1. p = after_closing(s.phase, compute_budget_state(c), c.pending_cycle_outcome)
      BY <2>3, <2>7 DEF resolve_post_commit_phase, commit_closes_a_cycle,
        post_commit_route, after_closing
    <3>2. compute_budget_state(c) \in BudgetStates
      BY DEF compute_budget_state, BudgetStates
    <3> HIDE DEF p
    <3> QED BY <2>7, <2>8, <3>1, <3>2 DEF CleanShape
  <2>10. h = reducer_advance_phase(u, p, rt)
    BY <2>3, <2>5, <2>7, <2>9
       DEF advance_through_invocation_gate, commit_closes_a_cycle
  <2>11. \A k \in LoopCounters : c.loop_iterations[k] = 0
    <3>1. ASSUME NEW k \in LoopCounters
          PROVE  k \in LoopResets[s.phase] \/ s.loop_iterations[k] = 0
      <4>1. CASE \A q \in ClosingCommits : k \in LoopResets[q]
        BY <2>7, <4>1
      <4>2. CASE KeepsWithin(k, Span[k])
        <5>1. WithinSpan(k, Span[k], s)
          BY <4>2
        <5>2. s.phase \notin Span[k] /\ s.phase # failed_route
          BY <4>2, FailedRouteIsTerminal DEF KeepsWithin
        <5> QED BY <5>1, <5>2 DEF WithinSpan, StandsIn
      <4> QED BY <4>1, <4>2 DEF CleanShape
    <3> QED BY <2>3, <3>1
  <2>12. Sound(u)
    <3>1. NONE \in OrNone(Outcomes) /\ NONE \in OrNone(Statuses)
      BY DEF OrNone
    <3>2. Sound(d)
      BY <2>3, <3>1, Update
    <3> HIDE DEF d
    <3> QED BY <3>1, <3>2, Update
  <2>13. /\ u.phase = s.phase /\ u.loop_iterations = c.loop_iterations
         /\ u.post_commit_phase_override = NONE /\ u.pending_cycle_outcome = NONE
         /\ u.cycle_timebox_active = s.cycle_timebox_active
    BY <2>3 DEF Sound, State
  <2> HIDE DEF u, p
  <2>14. ~u.cycle_timebox_active /\ u.phase # cycle_timebox.start_source
    BY <2>7, <2>13 DEF TimerEnds, CleanShape
  <2> DEFINE r == prepare_phase_advance(u, p, rt)
             a == advance_phase(r.state, r.target)
  <2>15. /\ r.target = p
         /\ r.state.loop_iterations = u.loop_iterations
         /\ r.state.pending_cycle_outcome = u.pending_cycle_outcome
         /\ r.state.post_commit_phase_override = u.post_commit_phase_override
         /\ ~r.state.cycle_timebox_active
    <3>1. ~(Role[u.phase] = "analysis" /\ OnSuccess[u.phase] = p)
      BY <2>13
    <3>2. \/ /\ HasCycleTimebox /\ p = cycle_timebox.guarded_entry
             /\ Onward(u.phase, At(u, cycle_timebox.finalization_target),
                       At(r.state, r.target))
          \/ /\ r.target = p
             /\ r.state.loop_iterations = u.loop_iterations
             /\ r.state.pending_cycle_outcome = u.pending_cycle_outcome
             /\ r.state.post_commit_phase_override = u.post_commit_phase_override
             /\ r.state.cycle_timebox_active =>
                  \/ u.cycle_timebox_active
                  \/ HasCycleTimebox /\ u.phase = cycle_timebox.start_source
      BY <2>6, <2>9, <2>12, <3>1, RoutingPlain
    <3> QED BY <2>9, <2>14, <3>2
  <2>16. SoundRoute(r)
    BY <2>6, <2>12, RoutingWay DEF Way
  <2>17. h = a
    <3>1. prepared_advance(u, p, rt) = a
      BY DEF prepared_advance, advance_to
    <3>2. \A q : ~should_preserve_commit_retry(u, q)
      BY <2>13 DEF should_preserve_commit_retry
    <3> HIDE DEF a
    <3> QED BY <2>10, <3>1, <3>2 DEF reducer_advance_phase, preserving_commit_retry
  <2> HIDE DEF r
  <2>18. /\ a.loop_iterations = r.state.loop_iterations
         /\ a.pending_cycle_outcome = r.state.pending_cycle_outcome
         /\ a.post_commit_phase_override = r.state.post_commit_phase_override
         /\ a.cycle_timebox_active = r.state.cycle_timebox_active
    BY <2>16 DEF advance_phase, SoundRoute, Sound, State
  <2> HIDE DEF a
  <2>19. /\ n.loop_iterations = h.loop_iterations
         /\ n.pending_cycle_outcome = h.pending_cycle_outcome
         /\ n.post_commit_phase_override = h.post_commit_phase_override
         /\ n.cycle_timebox_active = h.cycle_timebox_active
    BY <2>4 DEF KeepsCounts, SameCounts
  <2> QED BY <2>7, <2>11, <2>13, <2>15, <2>17, <2>18, <2>19

\* What the loop head prepares is as clean as the state.
<1>PreparedClean.
      ASSUME NEW W, NEW Span, CleanShape(W, Span), IInv,
             LoopsInSpan(Span, state), TimerEnds(state)
      PROVE  /\ LoopsInSpan(Span, prepared) /\ TimerEnds(prepared)
             /\ Sound(state) /\ Sound(prepared) /\ prepared.iteration = state.iteration
  <2> USE <1>PreparedClean
  <2>1. OverrideWay(W)
    BY DEF CleanShape
  <2>2. Sound(state) /\ Sound(prepared)
    BY InvariantMeansSound, PreparedSound
  <2>3. prepared = state \/ RedirectsTo(state, prepared)
    BY <2>2, PreparedCounts
  <2>4. ASSUME RedirectsTo(state, prepared), state.phase = failed_route
        PROVE  FALSE
    BY <2>1, <2>4 DEF RedirectsTo, OverrideWay
  <2>5. CASE prepared = state
    BY <2>2, <2>5
  <2>6. CASE RedirectsTo(state, prepared)
    <3>1. TimerEnds(prepared)
      BY <2>2, <2>6, <1>TimerStops DEF CleanShape
    <3>2. LoopsInSpan(Span, prepared)
      <4>1. ASSUME NEW c \in LoopCounters, KeepsWithin(c, Span[c])
            PROVE  WithinSpan(c, Span[c], prepared)
        <5>1. WithinSpan(c, Span[c], state) /\ state.phase \in Phases
          BY <2>2, <4>1, SoundCounts DEF LoopsInSpan
        <5>2. state.loop_iterations[c] # 0 => state.phase \in Span[c]
          BY <2>4, <2>6, <5>1 DEF WithinSpan, StandsIn
        <5> QED BY <2>6, <4>1, <5>1, <5>2, <1>SpanRedirects
      <4> QED BY <4>1 DEF LoopsInSpan
    <3> QED BY <2>2, <2>6, <3>1, <3>2, RedirectKeepsIteration
  <2> QED BY <2>3, <2>5, <2>6
<1> SUFFICES ASSUME NEW W, NEW Span, CleanShape(W, Span), IInv, InFlight,
                    OnItsWay(W, state), OnItsWay(W, prepared),
                    LoopsInSpan(Span, state), TimerEnds(state), [Next]_vars
             PROVE  /\ LoopsInSpan(Span, state') /\ TimerEnds(state')
                    /\ NothingLeft
  OBVIOUS
<1>1. /\ LoopsInSpan(Span, prepared) /\ TimerEnds(prepared)
      /\ Sound(state) /\ Sound(prepared) /\ prepared.iteration = state.iteration
  BY <1>PreparedClean
<1>2. \/ KeepsCounts(state, state')
      \/ state.phase \notin TerminalStates /\ CountedResult(state, state')
      \/ CountedDispatch(prepared, state')
  BY CountKinds
<1>3. /\ ChargedPhasesFail /\ HasCycleTimebox
      /\ ClosingCommits \subseteq {cycle_timebox.end_entry}
  BY DEF CleanShape
<1>4. TimerEnds(state')
  BY <1>1, <1>2, <1>3, <1>TimerStops
<1>5. LoopsInSpan(Span, state')
  <2>1. ASSUME NEW c \in LoopCounters, KeepsWithin(c, Span[c])
        PROVE  WithinSpan(c, Span[c], state')
    <3>1. WithinSpan(c, Span[c], state) /\ WithinSpan(c, Span[c], prepared)
      BY <1>1, <2>1 DEF LoopsInSpan
    <3>2. CASE KeepsCounts(state, state')
      BY <3>1, <3>2, <1>SpanKept
    <3>3. CASE state.phase \notin TerminalStates /\ CountedResult(state, state')
      BY <1>1, <1>3, <2>1, <3>1, <3>3, <1>SpanResult
    <3>4. CASE CountedDispatch(prepared, state')
      BY <1>1, <2>1, <3>1, <3>4, <1>SpanDispatch
    <3> QED BY <1>2, <3>2, <3>3, <3>4
  <2> QED BY <2>1 DEF LoopsInSpan
<1>6. ASSUME state'.iteration # state.iteration
      PROVE  NothingLeft
  <2>1. PICK s \in {state, prepared} : Role[s.phase] = "commit" /\ CommitsCount(s, state')
    <3>1. ~KeepsCounts(state, state')
      BY <1>6 DEF KeepsCounts, SameCounts, SamePlace
    <3>2. state'.iteration # prepared.iteration
      BY <1>1, <1>6
    <3> QED BY <1>1, <1>2, <1>3, <1>6, <3>1, <3>2, <1>OnlyCommitsClose
  <2>2. /\ Sound(s) /\ LoopsInSpan(Span, s) /\ TimerEnds(s) /\ OnItsWay(W, s)
        /\ s.iteration = state.iteration
    BY <1>1
  <2>3. s.phase \in ClosingCommits => s.post_commit_phase_override = NONE
    <3>1. s.phase \in ClosingCommits => s.phase # failed_route /\ s.phase \notin W
      BY BudgetAssumption, FailedRouteIsTerminal DEF CleanShape
    <3> QED BY <2>2, <3>1 DEF OnItsWay
  <2>4. s.phase \in ClosingCommits
    BY <1>6, <2>1, <2>2, CommitsClose DEF CommitsCount
  <2>5. /\ state'.iteration = s.iteration + 1
        /\ \A c \in LoopCounters : state'.loop_iterations[c] = 0
        /\ state'.pending_cycle_outcome = NONE
        /\ state'.post_commit_phase_override = NONE
        /\ ~state'.cycle_timebox_active
    BY <1>6, <2>1, <2>2, <2>3, <2>4, <1>ClosesClean DEF LoopsInSpan
  <2> QED BY <2>1, <2>2, <2>4, <2>5 DEF NothingLeft
<1> QED BY <1>4, <1>5, <1>6 DEF NothingLeft

=============================================================================
