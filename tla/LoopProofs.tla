---------------------------- MODULE LoopProofs ----------------------------
(***************************************************************************)
(* The loop of a gated analysis: how its passes are paid for.              *)
(***************************************************************************)
EXTENDS CountProofs, PipelineHistory

\* Zenon is tried on every leaf that names no prover; a leaf that needs
\* arithmetic or equality of records asks for SMT.
USE Zenon

-----------------------------------------------------------------------------
(***************************************************************************)
(* The passes of a gated analysis.                                         *)
(***************************************************************************)
\* The way from k to m stays beside the loop and sets up no route.
StaysBeside(g, L, k, m) == m.target \in Beside(g, L) /\ m.route = k.route

\* A loop runs: its phases, or a failure of them, or a route set up in them.
Busy(L, s) == StandsIn(L, s) \/ s.post_commit_phase_override # NONE

\* The phases whose failures charge the gated loop.
Chargers(g) == {p \in Phases : ExecutionCycleCounter[p] = LoopCounter[g]}

\* No development timer runs where the gated analysis is entered, or in it.
Untimed(g, s) ==
  HasDevelopmentTimebox /\ s.dev_timebox_active
    => ~StandsIn({g}, s) /\ s.phase # development_timebox.end_entry

\* A step that leaves the gated loop's count and its charge alone.
Quiet(g, L, s, n) ==
  /\ n.loop_iterations[LoopCounter[g]] = s.loop_iterations[LoopCounter[g]]
  /\ n.execution_cycle_charged =>
       /\ s.execution_cycle_charged
       /\ StandsIn(Chargers(g), n) => StandsIn(Chargers(g), s)
       /\ Busy(L, n) => Busy(L, s)
  /\ Role[s.phase] = "commit" /\ s.post_commit_phase_override = NONE => n.phase # g

\* What an advance from another phase does to the gated loop: it ends the
\* loop or keeps its count; it reaches the gated analysis by aiming at it;
\* and it brings no charge.
Advances(g, L, s, p, n) ==
  /\ Untimed(g, n)
  /\ p # g =>
       /\ n.phase # g
       /\ n.loop_iterations[LoopCounter[g]] = s.loop_iterations[LoopCounter[g]]
  /\ p = g =>
       \/ n.phase \in Beyond(g)
       \/ /\ n.phase = g
          /\ n.loop_iterations[LoopCounter[g]] = s.loop_iterations[LoopCounter[g]]
  /\ p \in Beyond(g) => n.phase \in Beyond(g)
  /\ n.execution_cycle_charged =>
       /\ s.execution_cycle_charged
       /\ StandsIn(Chargers(g), n) => StandsIn(Chargers(g), s)
  /\ (/\ s.phase \notin L /\ s.post_commit_phase_override = NONE
      /\ p \in Beside(g, L) /\ n.phase # g /\ n.execution_cycle_charged)
       => ~Busy(L, n)

\* A failure charges the gated loop, or another one, or none.
Pays(g, s, n) ==
  n.loop_iterations[LoopCounter[g]] =
    next_completed(s.loop_iterations[LoopCounter[g]], Cap[LoopCounter[g]])

PaysElsewhere(g, s, n) ==
  /\ n.loop_iterations[LoopCounter[g]] = s.loop_iterations[LoopCounter[g]]
  /\ ExecutionCycleCounter[s.phase] \notin {NONE, LoopCounter[g]}
  /\ ~StandsIn(Chargers(g), n) /\ n.phase # g

\* A commit that closes the cycle leaves no charge in the loop but a paid one.
Closes(g, L, s, n) ==
  /\ n.iteration # s.iteration
  /\ n.execution_cycle_charged /\ Busy(L, n) =>
       \/ n.loop_iterations[LoopCounter[g]] > 0
       \/ n.loop_iterations[LoopCounter[g]] = Cap[LoopCounter[g]]

\* A decision for more work uses up the charge of its pass, or pays for it.
Passes(g, s, n) ==
  /\ ~n.execution_cycle_charged
  /\ s.execution_cycle_charged =>
       n.loop_iterations[LoopCounter[g]] = s.loop_iterations[LoopCounter[g]]
  /\ ~s.execution_cycle_charged => Pays(g, s, n)

\* A state to go on from that is as good as s.
StandsFor(g, L, s, b) ==
  /\ b.phase = s.phase
  /\ b.execution_cycle_charged = s.execution_cycle_charged
  /\ b.loop_iterations[LoopCounter[g]] = s.loop_iterations[LoopCounter[g]]
  /\ b.dev_timebox_active = s.dev_timebox_active
  /\ Busy(L, b) => Busy(L, s)
  /\ Role[s.phase] # "commit" /\ s.phase # failed_route

\* Where a phase that is no commit leads, other than by a pending route.
LeadsTo(p) ==
  {OnLoopback[p], WorkflowFallback[p], CommitRecoveryPhase[p]}
  \cup {Route[p][d].target : d \in Decisions}
  \cup IF Role[p] = "commit" THEN {} ELSE {OnSuccess[p]}

\* What a step does to the gated loop.
Settles(g, L, s, n) ==
  \/ n.phase \in Beyond(g) \/ Quiet(g, L, s, n)
  \/ Pays(g, s, n) \/ PaysElsewhere(g, s, n)
  \/ Closes(g, L, s, n) \/ Passes(g, s, n)

\* What the shape says of the phases the lemmas tell apart.
LEMMA GatedFacts ==
  ASSUME NEW g, NEW L, NEW W, GatedShape(g, L, W)
  PROVE  /\ g \in Phases /\ g # failed_route /\ failed_route \notin L
         /\ Role[g] = "analysis" /\ LoopCounter[g] \in LoopCounters
         /\ Chargers(g) \subseteq L
         /\ \A p \in Chargers(g) : p \in Phases /\ Role[p] = "execution" /\ p # failed_route
         /\ g \notin Chargers(g)
         /\ \A p \in L : p \in Phases /\ Role[p] \in {"execution", "analysis"}
         /\ g \notin Beyond(g) /\ failed_route \notin Beyond(g)
         /\ OnSuccess[g] \in Beyond(g)
<1>1. GatedLoop(g, L) /\ g \notin Beyond(g) /\ failed_route \notin Beyond(g)
  BY DEF GatedShape
<1>2. /\ g \in L /\ L \subseteq Phases /\ Role[g] = "analysis"
      /\ \A p \in L : Role[p] \in {"execution", "analysis"}
      /\ \A p \in Phases :
           ExecutionCycleCounter[p] = LoopCounter[g] => p \in L /\ Role[p] = "execution"
      /\ LoopCounter[g] # NONE
  BY <1>1 DEF GatedLoop
<1>3. Role[failed_route] = "terminal" /\ LoopCounter \in [Phases -> OrNone(LoopCounters)]
  BY FailedRouteIsTerminal, CountersAssumption
<1> QED BY <1>1, <1>2, <1>3 DEF Chargers, OrNone, Beyond

(***************************************************************************)
(* What any step does to the gated loop.  First where a way can lead in    *)
(* the shape, then what each kind of step does there.                      *)
(***************************************************************************)
LEMMA GatedStep ==
  \A g, L, W :
    /\ GatedShape(g, L, W)
    /\ IInv /\ InFlight /\ OnItsWay(W, state) /\ OnItsWay(W, prepared)
    /\ Dispatching /\ prepared.phase = failed_route =>
         prepared.previous_phase \in Phases \ TerminalStates
    /\ Untimed(g, state) /\ [Next]_vars
    =>
    /\ Untimed(g, state') /\ Settles(g, L, state, state')
    /\ AnalysisDecides /\ state.phase = g =>
         AgentReturns /\ (state'.phase \in Beyond(g) \/ Passes(g, state, state'))
\* A closed set of phases is not routed out of.
<1>ClosedOnward.
      ASSUME NEW S, Closed(S), NEW x, NEW k \in Stops, NEW m, Onward(x, k, m), k.target \in S
      PROVE  m \in Stops /\ m.target \in S
  <2> USE <1>ClosedOnward
  <2> DEFINE V == {b \in Stops : b.target \in S}
  <2>1. k \in V /\ V \in SUBSET Stops
    OBVIOUS
  <2>2. ASSUME NEW a \in V, NEW b \in Stops, Turns(x, a, b)
        PROVE  b \in V
    <3>1. a.target \in S \cap Phases
      BY DEF Stops
    <3>2. Spent(a.loops, a.target) => OnSuccess[a.target] \in S
      BY <3>1 DEF Spent, Closed
    <3>3. b.target \in S
      BY <2>2, <3>1, <3>2 DEF Turns, Closed
    <3> QED BY <3>3
  <2>3. m \in V
    <3> HIDE DEF V
    <3> QED BY <2>1, <2>2, OnwardWithin
  <2> QED BY <2>3

\* What the shape says of the turns of a way.
<1>GateFacts.
      ASSUME NEW g, NEW L, NEW W, GatedShape(g, L, W)
      PROVE  /\ g \in Phases /\ LoopCounter[g] \in LoopCounters
             /\ Closed(Beyond(g)) /\ OnSuccess[g] \in Beyond(g) /\ g \notin Beyond(g)
             /\ HasCycleTimebox => cycle_timebox.finalization_target \in Beyond(g)
             /\ HasDevelopmentTimebox =>
                  g \notin {development_timebox.start_entry, development_timebox.guarded_entry,
                            development_timebox.finalization_target}
             /\ \A p \in Phases : LoopCounter[p] # NONE /\ p # g =>
                  OnSuccess[p] # g /\ LoopCounter[p] # LoopCounter[g]
  <2> USE <1>GateFacts
  <2>1. /\ GatedLoop(g, L) /\ EntersGated(g) /\ OverrideWay(W)
        /\ Closed(Beyond(g)) /\ g \notin Beyond(g)
        /\ HasCycleTimebox => cycle_timebox.finalization_target \in Beyond(g)
        /\ HasDevelopmentTimebox => development_timebox.start_entry # g
    BY DEF GatedShape
  <2>2. g \in Phases /\ LoopCounter[g] \in LoopCounters /\ OnSuccess[g] \in Beyond(g)
    BY ZenonT(30), <2>1, CountersAssumption DEF GatedLoop, OrNone, Beyond
  <2>3. HasDevelopmentTimebox =>
          /\ development_timebox.finalization_target # g
          /\ development_timebox.guarded_entry # g
    <3>1. HasDevelopmentTimebox =>
            Role[development_timebox.finalization_target] \in {"commit_cleanup", "commit"}
      BY <2>1 DEF OverrideWay
    <3>2. HasDevelopmentTimebox => Role[development_timebox.guarded_entry] = "execution"
      BY DEF GatedShape
    <3> QED BY <2>1, <3>1, <3>2 DEF GatedLoop
  <2>4. \A p \in Phases : LoopCounter[p] # NONE /\ p # g =>
          OnSuccess[p] # g /\ LoopCounter[p] # LoopCounter[g]
    BY <2>1, CountersAssumption DEF GatedLoop, EntersGated, OrNone
  <2> QED BY <2>1, <2>2, <2>3, <2>4

\* One turn from a phase other than the gated one.
<1>GateTurns.
      ASSUME NEW g, NEW L, NEW W, GatedShape(g, L, W), NEW x \in Phases \ {g},
             NEW a \in Stops, NEW b \in Stops, Turns(x, a, b)
      PROVE  /\ a.target \in Beyond(g) => b.target \in Beyond(g)
             /\ a.target # g =>
                  b.target # g /\ b.loops[LoopCounter[g]] = a.loops[LoopCounter[g]]
             /\ a.target = g =>
                  \/ b.target \in Beyond(g)
                  \/ /\ b.target = g /\ (b.dev => a.dev)
                     /\ b.loops[LoopCounter[g]] = a.loops[LoopCounter[g]]
  <2> USE <1>GateTurns
  <2> DEFINE c == LoopCounter[g]
  <2>1. /\ g \in Phases /\ c \in LoopCounters
        /\ Closed(Beyond(g)) /\ OnSuccess[g] \in Beyond(g) /\ g \notin Beyond(g)
        /\ HasCycleTimebox => cycle_timebox.finalization_target \in Beyond(g)
        /\ HasDevelopmentTimebox =>
             g \notin {development_timebox.start_entry, development_timebox.guarded_entry,
                       development_timebox.finalization_target}
        /\ \A p \in Phases : LoopCounter[p] # NONE /\ p # g =>
             OnSuccess[p] # g /\ LoopCounter[p] # c
    BY <1>GateFacts
  <2> HIDE DEF c
  <2> SUFFICES /\ a.target \in Beyond(g) => b.target \in Beyond(g)
               /\ a.target # g => b.target # g /\ b.loops[c] = a.loops[c]
               /\ a.target = g =>
                    \/ b.target \in Beyond(g)
                    \/ b.target = g /\ (b.dev => a.dev) /\ b.loops[c] = a.loops[c]
    BY DEF c
  <2>2. a.target \in Phases /\ a.loops \in [LoopCounters -> Nat] /\ x \in Phases /\ x # g
    BY DEF Stops, LoopCounts
  <2>3. CASE /\ HasCycleTimebox /\ b.target = cycle_timebox.finalization_target
             /\ b.loops = a.loops
    BY <2>1, <2>3
  <2>4. CASE /\ HasDevelopmentTimebox
             /\ \/ a.target = development_timebox.start_entry
                \/ ~b.dev
             /\ b.loops = a.loops /\ b.target = a.target
    BY <2>1, <2>4
  <2>5. CASE /\ HasDevelopmentTimebox /\ a.target = development_timebox.guarded_entry
             /\ b.target = development_timebox.finalization_target /\ b.loops = a.loops
    BY <2>1, <2>5 DEF Closed
  <2>6. CASE /\ Spent(a.loops, a.target) /\ b.target = OnSuccess[a.target]
             /\ b.loops = [a.loops EXCEPT ![LoopCounter[a.target]] = 0]
    <3>1. a.target \in Beyond(g) => b.target \in Beyond(g)
      BY <2>1, <2>2, <2>6 DEF Closed, Spent
    <3>2. a.target = g => b.target \in Beyond(g)
      BY <2>1, <2>6
    <3>3. ASSUME a.target # g PROVE b.target # g /\ b.loops[c] = a.loops[c]
      <4>1. LoopCounter[a.target] # c /\ OnSuccess[a.target] # g
        BY <2>1, <2>2, <2>6, <3>3 DEF Spent
      <4> QED BY <2>1, <2>2, <2>6, <4>1
    <3> QED BY <3>1, <3>2, <3>3
  <2>7. CASE /\ Spent(a.loops, x) /\ b.target = a.target /\ b.dev = a.dev
             /\ b.loops = [a.loops EXCEPT ![LoopCounter[x]] = 0]
    <3>1. LoopCounter[x] # c
      BY <2>1, <2>2, <2>7 DEF Spent
    <3>2. b.loops[c] = a.loops[c]
      BY <2>1, <2>2, <2>7, <3>1
    <3> QED BY <2>7, <3>2
  <2> QED BY <2>3, <2>4, <2>5, <2>6, <2>7 DEF Turns

\* On the way from another phase the gated analysis is passed only if it is
\* aimed at: it is reached with its count and no timer started, or its loop
\* has ended.
<1>GateOnward.
      ASSUME NEW g, NEW L, NEW W, GatedShape(g, L, W),
             NEW x \in Phases \ {g}, NEW k \in Stops, NEW m, Onward(x, k, m)
      PROVE  /\ k.target # g =>
                  m.target # g /\ m.loops[LoopCounter[g]] = k.loops[LoopCounter[g]]
             /\ k.target = g =>
                  \/ m.target \in Beyond(g)
                  \/ /\ m.target = g /\ (m.dev => k.dev)
                     /\ m.loops[LoopCounter[g]] = k.loops[LoopCounter[g]]
  <2> USE <1>GateOnward
  <2> DEFINE c == LoopCounter[g]
             V == {b \in Stops :
                     /\ k.target # g => b.target # g /\ b.loops[c] = k.loops[c]
                     /\ k.target = g =>
                          \/ b.target \in Beyond(g)
                          \/ b.target = g /\ (b.dev => k.dev) /\ b.loops[c] = k.loops[c]}
  <2>1. k \in V /\ V \in SUBSET Stops
    OBVIOUS
  <2>2. ASSUME NEW a \in V, NEW b \in Stops, Turns(x, a, b)
        PROVE  b \in V
    <3>1. a \in Stops
      OBVIOUS
    <3>2. /\ a.target \in Beyond(g) => b.target \in Beyond(g)
          /\ a.target # g => b.target # g /\ b.loops[c] = a.loops[c]
          /\ a.target = g =>
               \/ b.target \in Beyond(g)
               \/ b.target = g /\ (b.dev => a.dev) /\ b.loops[c] = a.loops[c]
      BY <2>2, <3>1, <1>GateTurns
    <3> HIDE DEF c
    <3>3. CASE k.target # g
      BY <3>2, <3>3
    <3>4. CASE k.target = g
      BY <3>2, <3>4
    <3> QED BY <3>3, <3>4
  <2>3. m \in V
    <3> HIDE DEF V
    <3> QED BY <2>1, <2>2, OnwardWithin
  <2> QED BY <2>3

\* And from outside the loop it is entered where work starts, or at its gate,
\* with no route set up on the way.
<1>BesideOnward.
      ASSUME NEW g, NEW L, NEW W, GatedShape(g, L, W),
             NEW x, NEW k \in Stops, NEW m, Onward(x, k, m), k.target \in Beside(g, L)
      PROVE  StaysBeside(g, L, k, m)
  <2> USE <1>BesideOnward
  <2> DEFINE V == {b \in Stops : b.target \in Beside(g, L) /\ b.route = k.route}
  <2>1. Closed(Beside(g, L))
    BY DEF GatedShape, EntersLoop
  <2>2. HasDevelopmentTimebox => development_timebox.guarded_entry \notin Beside(g, L)
    BY DEF GatedShape, GatedLoop, Beside
  <2>3. k \in V /\ V \in SUBSET Stops
    OBVIOUS
  <2>4. ASSUME NEW a \in V, NEW b \in Stops, Turns(x, a, b)
        PROVE  b \in V
    <3>1. a.target \in Beside(g, L) \cap Phases
      BY DEF Stops
    <3>2. Spent(a.loops, a.target) => OnSuccess[a.target] \in Beside(g, L)
      BY <2>1, <3>1 DEF Spent, Closed
    <3>3. b.target \in Beside(g, L) /\ b.route = a.route
      BY <2>1, <2>2, <2>4, <3>1, <3>2 DEF Turns, Closed
    <3> QED BY <3>3
  <2>5. m \in V
    <3> HIDE DEF V
    <3> QED BY <2>3, <2>4, OnwardWithin
  <2> QED BY <2>5 DEF StaysBeside

\* An advance from a phase other than the gated one.
<1>GatedAims.
      ASSUME NEW g, NEW L, NEW W, GatedShape(g, L, W),
             NEW s, NEW p \in Phases, NEW n, Aims(s, p, n), s.phase # g,
             p = g => ~(HasDevelopmentTimebox /\ s.dev_timebox_active)
      PROVE  Advances(g, L, s, p, n)
  <2> USE <1>GatedAims
  <2>1. /\ HasCounts(n) /\ n.phase \in Phases
        /\ n.execution_cycle_charged = FlagAt(n.phase, s.execution_cycle_charged)
        /\ Onward(s.phase, At(s, p), At(n, n.phase))
        /\ HasDevelopmentTimebox /\ n.phase = development_timebox.end_entry
             => ~n.dev_timebox_active
    BY AimsLands
  <2> DEFINE k == At(s, p)
             m == At(n, n.phase)
  <2>2. k \in Stops /\ s.phase \in Phases /\ Onward(s.phase, k, m)
    BY <2>1, AimsFrom
  <2>3. /\ k.loops = s.loop_iterations /\ k.target = p
        /\ k.dev = s.dev_timebox_active /\ k.route = s.post_commit_phase_override
        /\ m.loops = n.loop_iterations /\ m.target = n.phase
        /\ m.dev = n.dev_timebox_active /\ m.route = n.post_commit_phase_override
    BY DEF At
  <2> HIDE DEF k, m
  <2>4. n.phase = failed_route => n.previous_phase = s.phase
    BY DEF Aims
  <2>5. /\ p # g =>
             /\ n.phase # g
             /\ n.loop_iterations[LoopCounter[g]] = s.loop_iterations[LoopCounter[g]]
        /\ p = g =>
             \/ n.phase \in Beyond(g)
             \/ /\ n.phase = g /\ (n.dev_timebox_active => s.dev_timebox_active)
                /\ n.loop_iterations[LoopCounter[g]] = s.loop_iterations[LoopCounter[g]]
    <3>1. /\ k.target # g =>
               m.target # g /\ m.loops[LoopCounter[g]] = k.loops[LoopCounter[g]]
          /\ k.target = g =>
               \/ m.target \in Beyond(g)
               \/ /\ m.target = g /\ (m.dev => k.dev)
                  /\ m.loops[LoopCounter[g]] = k.loops[LoopCounter[g]]
      BY <2>2, <1>GateOnward
    <3> QED BY <2>3, <3>1
  <2>6. Untimed(g, n)
    <3> SUFFICES ASSUME HasDevelopmentTimebox, n.dev_timebox_active
                 PROVE  n.phase # g /\ ~(n.phase = failed_route /\ n.previous_phase = g)
                        /\ n.phase # development_timebox.end_entry
      BY DEF Untimed, StandsIn
    <3>1. n.phase # g
      BY <2>5, GatedFacts
    <3> QED BY <2>1, <2>4, <3>1
  <2>7. n.execution_cycle_charged => s.execution_cycle_charged /\ Role[n.phase] # "execution"
    <3>1. CASE Role[n.phase] = "execution"
      BY <2>1, <3>1 DEF FlagAt
    <3>2. CASE Role[n.phase] # "execution"
      BY <2>1, <3>2 DEF FlagAt
    <3> QED BY <3>1, <3>2
  <2>8. n.execution_cycle_charged /\ StandsIn(Chargers(g), n) => StandsIn(Chargers(g), s)
    <3>1. n.execution_cycle_charged => n.phase \notin Chargers(g)
      BY ZenonT(30), <2>7, GatedFacts
    <3> QED BY <2>4, <3>1 DEF StandsIn
  <2>9. ASSUME s.phase \notin L, s.post_commit_phase_override = NONE,
               p \in Beside(g, L), n.phase # g, n.execution_cycle_charged, Busy(L, n)
        PROVE  FALSE
    <3>1. m.target \in Beside(g, L) /\ m.route = k.route
      <4>1. k.target \in Beside(g, L)
        BY <2>3, <2>9
      <4>2. StaysBeside(g, L, k, m)
        BY <2>2, <4>1, <1>BesideOnward
      <4> QED BY <4>2 DEF StaysBeside
    <3>2. n.phase \in Beside(g, L) /\ n.post_commit_phase_override = NONE
      BY <2>3, <2>9, <3>1
    <3>3. n.phase \notin L
      BY <2>7, <2>9, <3>2 DEF Beside
    <3> QED BY <2>4, <2>9, <3>2, <3>3 DEF Busy, StandsIn
  <2>10. ASSUME p \in Beyond(g) PROVE n.phase \in Beyond(g)
    <3>1. Closed(Beyond(g)) /\ k.target \in Beyond(g)
      BY <2>3, <2>10 DEF GatedShape
    <3>2. m.target \in Beyond(g)
      BY <2>2, <3>1, <1>ClosedOnward
    <3> QED BY <2>3, <3>2
  <2> QED BY <2>5, <2>6, <2>7, <2>8, <2>9, <2>10 DEF Advances

\* One that is not aimed at the gated phase, from within the loop or to beside
\* it, leaves the gated loop alone.
<1>QuietAims.
      ASSUME NEW g, NEW L, NEW W, GatedShape(g, L, W),
             NEW s, NEW p \in Phases \ {g}, NEW n, Aims(s, p, n), s.phase # g,
             Busy(L, s) \/ p \in Beside(g, L)
      PROVE  Untimed(g, n) /\ Quiet(g, L, s, n)
  <2> USE <1>QuietAims
  <2>1. p \in Phases /\ p # g
    OBVIOUS
  <2>2. Advances(g, L, s, p, n)
    BY <2>1, <1>GatedAims
  <2>3. ~Busy(L, s) => s.phase \notin L /\ s.post_commit_phase_override = NONE
    BY DEF Busy, StandsIn
  <2> QED BY <2>1, <2>2, <2>3 DEF Quiet, Advances

\* A step that keeps the counts leaves the gated loop alone.
<1>QuietKept.
      ASSUME NEW g, NEW L, NEW W, GatedShape(g, L, W), NEW s, NEW n, KeepsCounts(s, n)
      PROVE  /\ Untimed(g, s) => Untimed(g, n)
             /\ Quiet(g, L, s, n)
  <2> USE <1>QuietKept
  <2>1. /\ n.phase = s.phase /\ n.previous_phase = s.previous_phase
        /\ n.loop_iterations = s.loop_iterations
        /\ n.execution_cycle_charged = s.execution_cycle_charged
        /\ n.post_commit_phase_override = s.post_commit_phase_override
        /\ n.dev_timebox_active = s.dev_timebox_active
    BY DEF KeepsCounts, SameCounts, SamePlace
  <2>2. Role[s.phase] = "commit" => s.phase # g
    <3>1. Role[g] = "analysis"
      BY GatedFacts
    <3> QED BY <3>1
  <2> QED BY <2>1, <2>2 DEF Untimed, Quiet, Busy, StandsIn

\* A failure leaves the gated loop alone, or charges it, or charges another.
<1>QuietFails.
      ASSUME NEW g, NEW L, NEW W, GatedShape(g, L, W),
             NEW s, s.phase \in Phases, s.loop_iterations \in LoopCounts, Untimed(g, s),
             NEW n, FailsFrom(s, n)
      PROVE  /\ Untimed(g, n)
             /\ Quiet(g, L, s, n) \/ Pays(g, s, n) \/ PaysElsewhere(g, s, n)
             /\ Failed(s, n) => Quiet(g, L, s, n)
  <2> USE <1>QuietFails
  <2>1. /\ n.phase = failed_route /\ n.previous_phase = s.phase
    BY FailsLands DEF FailsFrom
  <2>2. /\ n.dev_timebox_active = s.dev_timebox_active
    BY DEF FailsFrom, Failed, Charged
  <2>3. Untimed(g, n)
    <3>1. HasDevelopmentTimebox => failed_route # development_timebox.end_entry
      BY FailedRouteIsTerminal DEF GatedShape
    <3>2. g # failed_route
      BY GatedFacts
    <3> QED BY <2>1, <2>2, <3>1, <3>2 DEF Untimed, StandsIn
  <2>4. ASSUME Failed(s, n) PROVE Quiet(g, L, s, n)
    <3>1. /\ n.loop_iterations = s.loop_iterations
          /\ n.execution_cycle_charged = s.execution_cycle_charged
          /\ n.post_commit_phase_override = s.post_commit_phase_override
      BY <2>4 DEF Failed
    <3>2. failed_route \notin L /\ failed_route \notin Chargers(g) /\ g # failed_route
      BY GatedFacts
    <3> QED BY <2>1, <3>1, <3>2 DEF Quiet, Busy, StandsIn
  <2>5. ASSUME NEW a, Failed(s, a), NEW e, e = ExecutionCycleCounter[s.phase],
               e # NONE, Charged(a, n, e)
        PROVE  Pays(g, s, n) \/ PaysElsewhere(g, s, n)
    <3>1. n.loop_iterations =
            [s.loop_iterations EXCEPT ![e] = next_completed(s.loop_iterations[e], Cap[e])]
      BY <2>5 DEF Failed, Charged
    <3>2. LoopCounter[g] \in LoopCounters /\ failed_route \notin Chargers(g) /\ g # failed_route
      BY GatedFacts
    <3>3. CASE e = LoopCounter[g]
      BY <3>1, <3>2, <3>3 DEF Pays, LoopCounts
    <3>4. CASE e # LoopCounter[g]
      <4>1. n.loop_iterations[LoopCounter[g]] = s.loop_iterations[LoopCounter[g]]
        BY <3>1, <3>2, <3>4 DEF LoopCounts
      <4>2. s.phase \notin Chargers(g)
        BY <2>5, <3>4 DEF Chargers
      <4> QED BY <2>1, <2>5, <3>2, <3>4, <4>1, <4>2 DEF PaysElsewhere, StandsIn
    <3> QED BY <3>3, <3>4
  <2> QED BY <2>3, <2>4, <2>5 DEF FailsFrom

\* Where a commit with no route pending leads.
<1>CommitBeside.
      ASSUME NEW g, NEW L, NEW W, GatedShape(g, L, W),
             NEW s, Sound(s), Role[s.phase] = "commit", s.post_commit_phase_override = NONE
      PROVE  LET p == resolve_post_commit_phase(s)
             IN  /\ p \in Phases /\ p \in Beside(g, L)
                 /\ p = g /\ HasDevelopmentTimebox => s.phase = development_timebox.end_entry
  <2> USE <1>CommitBeside
  <2> DEFINE p == resolve_post_commit_phase(s)
             routes == PostCommitRoute[s.phase][compute_budget_state(s)]
  <2>1. p \in Phases /\ s.phase \in Phases /\ s.pending_cycle_outcome \in OrNone(Outcomes)
    BY PostCommitPhaseType DEF Sound, State
  <2>2. EntersGated(g) /\ EntersLoop(g, L) /\ s.phase \notin L
    <3>1. s.phase \notin L
      BY GatedFacts
    <3> QED BY <3>1 DEF GatedShape
  <2>3. compute_budget_state(s) \in BudgetStates /\ Forward \in OrNone(Outcomes)
    BY NamesAssumption DEF compute_budget_state, BudgetStates, Forward, OrNone
  <2>4. ASSUME s.phase \in ClosingCommits, post_commit_route(s) # NONE
        PROVE  post_commit_route(s) # g /\ post_commit_route(s) \in Beside(g, L)
    <3>1. PICK outcome \in OrNone(Outcomes) : post_commit_route(s) = routes[outcome]
      BY <2>1, <2>3 DEF post_commit_route
    <3>2. routes[outcome] # g /\ routes[outcome] \in OrNone(Beside(g, L))
      BY <2>2, <2>3, <2>4 DEF EntersGated, EntersLoop
    <3> QED BY <2>4, <3>1, <3>2 DEF OrNone
  <2>5. /\ OnSuccess[s.phase] \in Beside(g, L)
        /\ OnSuccess[s.phase] = g /\ HasDevelopmentTimebox
             => s.phase = development_timebox.end_entry
    <3>1. OnSuccess[s.phase] \in OrNone(Beside(g, L)) /\ OnSuccess[s.phase] \in Phases
      BY <2>1, <2>2, NextPhases DEF EntersLoop
    <3>2. OnSuccess[s.phase] # NONE
      BY <3>1, NamesAssumption
    <3> QED BY <2>1, <2>2, <3>1, <3>2 DEF OrNone, EntersGated
  <2>6. p = OnSuccess[s.phase] \/ (s.phase \in ClosingCommits /\ p = post_commit_route(s)
                                    /\ post_commit_route(s) # NONE)
    BY DEF resolve_post_commit_phase, commit_closes_a_cycle
  <2> HIDE DEF p, routes
  <2> QED BY <2>1, <2>4, <2>5, <2>6 DEF p

\* A commit ends the gated loop, pays for the pass it admits to the gated
\* analysis, or leaves the loop alone.
<1>GatedCommits.
      ASSUME NEW g, NEW L, NEW W, GatedShape(g, L, W),
             NEW s, Sound(s), Role[s.phase] = "commit", OnItsWay(W, s), Untimed(g, s),
             NEW n, CommitsCount(s, n)
      PROVE  /\ Untimed(g, n)
             /\ \/ n.phase \in Beyond(g) \/ Quiet(g, L, s, n)
                \/ Pays(g, s, n) \/ Closes(g, L, s, n)
  <2> USE <1>GatedCommits
  <2>1. PICK skipped \in BOOLEAN : CommitsFrom(apply_commit_outcome(s, skipped), n)
    BY DEF CommitsCount
  <2> DEFINE c == LoopCounter[g]
             b == apply_commit_outcome(s, skipped)
             p == resolve_post_commit_phase(b)
  <2>2. /\ Sound(b) /\ b.phase = s.phase
        /\ b.execution_cycle_charged = s.execution_cycle_charged
        /\ b.post_commit_phase_override = s.post_commit_phase_override
        /\ b.dev_timebox_active = s.dev_timebox_active
        /\ \A k \in LoopCounters :
             b.loop_iterations[k] =
               IF k \in LoopResets[s.phase] THEN 0 ELSE s.loop_iterations[k]
        /\ \/ b.iteration = s.iteration /\ s.phase \notin Lifecycle \cup SkippedAdvances
           \/ b.iteration = s.iteration + 1 /\ s.phase \in ClosingCommits
    BY CommitCounted
  <2>3. CommitsFrom(b, n) /\ n.iteration = b.iteration
    BY <2>1, CommitsClose
  <2> HIDE DEF b
  <2>4. /\ s.phase \in Phases /\ s.iteration \in Nat
        /\ b.phase \in Phases /\ b.loop_iterations \in LoopCounts /\ HasCounts(b)
    BY <2>2, SoundCounts
  <2>5. /\ s.phase # g /\ s.phase \notin L /\ s.phase \notin Chargers(g)
        /\ s.phase # failed_route /\ c \in LoopCounters
    <3>1. /\ Role[g] = "analysis" /\ Role[failed_route] = "terminal" /\ c \in LoopCounters
          /\ \A q \in L : Role[q] \in {"execution", "analysis"}
          /\ \A q \in Chargers(g) : Role[q] = "execution"
      BY GatedFacts, FailedRouteIsTerminal
    <3> HIDE DEF c
    <3> QED BY <3>1
  <2>6. b.loop_iterations[c] = s.loop_iterations[c] \/ n.iteration # s.iteration
    <3>1. c \in LoopResets[s.phase] => s.phase \in Lifecycle \cup SkippedAdvances
      BY <2>4 DEF GatedShape, GatedLoop
    <3>2. b.iteration = s.iteration =>
            b.loop_iterations[c] = s.loop_iterations[c]
      BY SMTT(30), <2>2, <2>4, <2>5, <3>1
    <3> QED BY <2>3, <3>2
  <2>7. HasDevelopmentTimebox /\ s.phase = development_timebox.end_entry
          => ~b.dev_timebox_active
    BY <2>2 DEF Untimed
  <2>8. p \in Phases
    BY <2>2, PostCommitPhaseType
  <2>9. CASE s.post_commit_phase_override # NONE
    <3> DEFINE a == Consumed(b)
    <3>1. Aims(a, p, n)
      BY <2>2, <2>3, <2>9 DEF CommitsFrom
    <3>2. /\ a.phase = s.phase /\ a.loop_iterations = b.loop_iterations
          /\ a.execution_cycle_charged = s.execution_cycle_charged
          /\ a.dev_timebox_active = s.dev_timebox_active
      BY <2>2, <2>4 DEF Consumed, HasCounts, Counts
    <3> HIDE DEF a, p
    <3>3. s.phase \in W
      BY <2>5, <2>9 DEF OnItsWay
    <3>4. HasDevelopmentTimebox => ~a.dev_timebox_active
      BY <2>2, <2>7, <3>2, <3>3 DEF GatedShape
    <3>5. b.loop_iterations[c] = s.loop_iterations[c]
      <4>1. s.phase \notin ClosingCommits
        BY <3>3 DEF GatedShape
      <4> QED BY <2>2, <2>3, <2>6, <4>1
    <3>6. /\ Untimed(g, n)
          /\ \/ n.phase \in Beyond(g)
             \/ n.loop_iterations[c] = a.loop_iterations[c]
          /\ n.execution_cycle_charged =>
               /\ a.execution_cycle_charged
               /\ StandsIn(Chargers(g), n) => StandsIn(Chargers(g), a)
      <4>1. Advances(g, L, a, p, n)
        BY <2>5, <2>8, <3>1, <3>2, <3>4, <1>GatedAims
      <4> QED BY <4>1 DEF Advances
    <3>7. ~StandsIn(Chargers(g), a) /\ Busy(L, s)
      BY <2>5, <2>9, <3>2 DEF StandsIn, Busy
    <3>8. n.phase \in Beyond(g) \/ Quiet(g, L, s, n)
      <4>1. n.execution_cycle_charged => s.execution_cycle_charged
        BY <3>2, <3>6
      <4>2. n.loop_iterations[c] = a.loop_iterations[c]
              => n.loop_iterations[c] = s.loop_iterations[c]
        BY <3>2, <3>5
      <4> QED BY <2>9, <3>6, <3>7, <4>1, <4>2 DEF Quiet
    <3> QED BY <3>6, <3>8
  <2>10. CASE s.post_commit_phase_override = NONE
    <3>1. /\ p \in Beside(g, L) /\ b.post_commit_phase_override = NONE
          /\ p = g => ~(HasDevelopmentTimebox /\ b.dev_timebox_active)
      <4>1. Role[b.phase] = "commit" /\ b.post_commit_phase_override = NONE
        BY <2>2, <2>10
      <4>2. /\ p \in Beside(g, L)
            /\ p = g /\ HasDevelopmentTimebox => b.phase = development_timebox.end_entry
        BY <2>2, <4>1, <1>CommitBeside
      <4> QED BY <2>2, <2>7, <4>1, <4>2
    <3>2. Gated(p) <=> p = g
      BY <2>8 DEF GatedShape, GatedLoop
    <3>3. \/ p # g /\ Aims(b, p, n)
          \/ p = g /\ (Admits(b, g, n) \/ Aims(b, OnSuccess[g], n))
      BY <2>3, <3>1, <3>2 DEF CommitsFrom, Gated
    <3> HIDE DEF p
    <3>4. b.phase # g /\ b.phase \notin L /\ ~StandsIn(Chargers(g), b)
      BY <2>2, <2>5 DEF StandsIn
    <3>5. CASE p # g /\ Aims(b, p, n)
      <4>1. /\ Untimed(g, n)
            /\ n.loop_iterations[c] = b.loop_iterations[c] /\ n.phase # g
            /\ n.execution_cycle_charged =>
                 /\ b.execution_cycle_charged
                 /\ StandsIn(Chargers(g), n) => StandsIn(Chargers(g), b)
            /\ n.phase # g /\ n.execution_cycle_charged => ~Busy(L, n)
        <5>1. Advances(g, L, b, p, n)
          BY <2>8, <3>1, <3>4, <3>5, <1>GatedAims
        <5> QED BY <3>1, <3>4, <3>5, <5>1 DEF Advances
      <4>2. n.execution_cycle_charged => s.execution_cycle_charged
        BY <2>2, <4>1
      <4>3. CASE n.iteration # s.iteration
        BY <4>1, <4>3 DEF Closes
      <4>4. CASE b.loop_iterations[c] = s.loop_iterations[c]
        BY <3>4, <4>1, <4>2, <4>4 DEF Quiet
      <4> QED BY <2>6, <4>1, <4>3, <4>4
    <3>6. CASE p = g /\ Admits(b, g, n)
      <4>1. ExecutionCycleCounter[GateUpstream[g]] = c /\ c # NONE
        BY DEF GatedShape, GatedLoop
      <4>2. PICK m : /\ Aims(b, g, m) /\ n.previous_phase = m.previous_phase
                     /\ IF m.phase = g THEN Charged(m, n, c) ELSE SameCounts(m, n)
        BY <3>6, <4>1 DEF Admits
      <4>3. g \in Phases /\ ~(HasDevelopmentTimebox /\ b.dev_timebox_active)
            /\ g \notin Beyond(g)
        BY <2>8, <3>1, <3>6, GatedFacts
      <4>4. /\ Untimed(g, m)
            /\ \/ m.phase \in Beyond(g)
               \/ m.loop_iterations[c] = b.loop_iterations[c] /\ m.phase = g
        <5>1. Advances(g, L, b, g, m)
          BY <3>4, <4>2, <4>3, <1>GatedAims
        <5> QED BY <5>1 DEF Advances
      <4>5. CASE m.phase = g
        <5>1. /\ n.phase = g /\ n.dev_timebox_active = m.dev_timebox_active
              /\ n.loop_iterations =
                   [m.loop_iterations EXCEPT ![c] = next_completed(m.loop_iterations[c], Cap[c])]
          BY <4>2, <4>5 DEF Charged
        <5>2. Untimed(g, n)
          BY <4>4, <4>5, <5>1 DEF Untimed, StandsIn
        <5>3. m.loop_iterations \in LoopCounts
          <6> DEFINE k == At(m, m.phase)
          <6>1. k \in Stops
            BY <4>2, <4>3, AimsLands DEF Onward
          <6>2. k.loops = m.loop_iterations
            BY DEF At
          <6> HIDE DEF k
          <6> QED BY <6>1, <6>2 DEF Stops
        <5>4. n.loop_iterations[c] = next_completed(b.loop_iterations[c], Cap[c])
          BY <2>5, <4>3, <4>4, <4>5, <5>1, <5>3 DEF LoopCounts
        <5>5. n.loop_iterations[c] > 0 \/ n.loop_iterations[c] = Cap[c]
          <6>1. b.loop_iterations[c] \in 0..Cap[c] /\ Cap[c] \in Nat
            BY <2>4, <2>5, CountWithinCap
          <6> HIDE DEF b, c
          <6> QED BY <5>4, <6>1, ChargeCounts
        <5>6. Pays(g, s, n) \/ Closes(g, L, s, n)
          BY <2>6, <5>4, <5>5 DEF Pays, Closes
        <5> QED BY <5>2, <5>6
      <4>6. CASE m.phase # g
        <5>1. /\ n.phase = m.phase /\ n.dev_timebox_active = m.dev_timebox_active
              /\ n.phase \in Beyond(g)
          BY <4>2, <4>4, <4>6 DEF SameCounts, SamePlace
        <5>2. Untimed(g, n)
          BY <4>2, <4>4, <5>1 DEF Untimed, StandsIn
        <5> QED BY <5>1, <5>2
      <4> QED BY <4>5, <4>6
    <3>7. CASE Aims(b, OnSuccess[g], n)
      <4>1. OnSuccess[g] \in Phases /\ OnSuccess[g] \in Beyond(g) /\ OnSuccess[g] # g
        <5>1. g \in Phases /\ OnSuccess[g] \in Beyond(g) /\ g \notin Beyond(g)
          BY GatedFacts
        <5> QED BY <5>1, NextPhases
      <4>2. Untimed(g, n) /\ n.phase \in Beyond(g)
        <5>1. Advances(g, L, b, OnSuccess[g], n)
          BY <3>4, <3>7, <4>1, <1>GatedAims
        <5> QED BY <4>1, <5>1 DEF Advances
      <4> QED BY <4>2
    <3> QED BY <3>3, <3>5, <3>6, <3>7
  <2> QED BY <2>9, <2>10

\* Beyond the loop, the way stays beyond it.
<1>BeyondOnward.
      ASSUME NEW g, NEW L, NEW W, GatedShape(g, L, W),
             NEW x, NEW b, NEW p \in Beyond(g), At(b, p) \in Stops,
             NEW n, Onward(x, At(b, p), At(n, n.phase)),
             HasDevelopmentTimebox /\ n.phase = development_timebox.end_entry
               => ~n.dev_timebox_active
      PROVE  Untimed(g, n) /\ n.phase \in Beyond(g)
  <2> USE <1>BeyondOnward
  <2> DEFINE k == At(b, p)
             m == At(n, n.phase)
  <2>1. Closed(Beyond(g)) /\ Onward(x, k, m) /\ k \in Stops
    BY DEF GatedShape
  <2>2. k.target = p /\ m.target = n.phase
    BY DEF At
  <2> HIDE DEF k, m
  <2>3. m.target \in Beyond(g)
    BY <2>1, <2>2, <1>ClosedOnward
  <2>4. n.phase \in Beyond(g) /\ g \notin Beyond(g) /\ failed_route \notin Beyond(g)
    BY <2>2, <2>3, GatedFacts
  <2> QED BY <2>4 DEF Untimed, StandsIn

\* An advance aimed beyond the loop ends beyond it.
<1>BeyondAims.
      ASSUME NEW g, NEW L, NEW W, GatedShape(g, L, W),
             NEW s, NEW p \in Beyond(g), p \in Phases, NEW n, Aims(s, p, n)
      PROVE  Untimed(g, n) /\ n.phase \in Beyond(g)
  <2> USE <1>BeyondAims
  <2>1. /\ Onward(s.phase, At(s, p), At(n, n.phase)) /\ At(s, p) \in Stops
        /\ HasDevelopmentTimebox /\ n.phase = development_timebox.end_entry
             => ~n.dev_timebox_active
    BY AimsLands, AimsFrom
  <2> QED BY <2>1, <1>BeyondOnward

\* A decision of the gated analysis ends its loop or is a pass.
<1>GatedDecides.
      ASSUME NEW g, NEW L, NEW W, GatedShape(g, L, W),
             NEW s, Sound(s), s.phase = g, Untimed(g, s),
             NEW d \in Decisions, NEW n, Decides(s, d, n)
      PROVE  Untimed(g, n) /\ (n.phase \in Beyond(g) \/ Passes(g, s, n))
  <2> USE <1>GatedDecides
  <2> DEFINE c == LoopCounter[g]
             route == Route[g][d]
             b == count_decision(s, route)
  <2>1. /\ g \in Phases /\ c \in LoopCounters /\ c # NONE /\ Role[g] = "analysis"
        /\ OnSuccess[g] \in Beyond(g) /\ OnSuccess[g] \in Phases
        /\ g \notin Beyond(g) /\ failed_route \notin Beyond(g) /\ g # failed_route
    <3>1. /\ g \in Phases /\ c \in LoopCounters /\ Role[g] = "analysis"
          /\ OnSuccess[g] \in Beyond(g) /\ g # failed_route
          /\ g \notin Beyond(g) /\ failed_route \notin Beyond(g)
      BY GatedFacts
    <3>2. OnSuccess[g] \in Phases
      BY <3>1, NextPhases
    <3>3. c # NONE
      BY DEF GatedShape, GatedLoop
    <3> QED BY <3>1, <3>2, <3>3
  <2>2. \/ route.target = OnSuccess[g]
        \/ /\ route.target \in Phases /\ ~route.reset_loop
           /\ Role[route.target] = "execution" /\ LoopCounter[route.target] = NONE
    BY DEF GatedShape, GatedLoop
  <2>3. Recounts(s, b)
    BY DecisionCounts
  <2>4. /\ b.phase = g /\ b.dev_timebox_active = s.dev_timebox_active
        /\ b.execution_cycle_charged = s.execution_cycle_charged
    BY <2>3 DEF Recounts, SamePlace
  <2>5. ~(HasDevelopmentTimebox /\ b.dev_timebox_active)
    BY <2>4 DEF Untimed, StandsIn
  <2>6. ~route.reset_loop =>
          /\ s.execution_cycle_charged => b.loop_iterations[c] = s.loop_iterations[c]
          /\ ~s.execution_cycle_charged =>
               b.loop_iterations[c] = next_completed(s.loop_iterations[c], Cap[c])
    <3> SUFFICES ASSUME ~route.reset_loop
                 PROVE  /\ s.execution_cycle_charged => b = s
                        /\ ~s.execution_cycle_charged =>
                             b.loop_iterations[c] = next_completed(s.loop_iterations[c], Cap[c])
      OBVIOUS
    <3>1. b = apply_analysis_loopback(s, c, ~analysis_loopback_is_already_charged(s))
      BY <2>1 DEF count_decision
    <3>2. analysis_loopback_is_already_charged(s) <=> s.execution_cycle_charged
      BY <2>1 DEF analysis_loopback_is_already_charged
    <3>3. s.execution_cycle_charged => b = s
      BY <3>1, <3>2 DEF apply_analysis_loopback
    <3>4. ~s.execution_cycle_charged =>
            b = with_loop_iteration(s, c, next_completed(s.loop_iterations[c], Cap[c]))
      BY <3>1, <3>2 DEF apply_analysis_loopback, charge_loop_counter
    <3>5. with_loop_iteration(s, c, next_completed(s.loop_iterations[c], Cap[c])).loop_iterations[c]
            = next_completed(s.loop_iterations[c], Cap[c])
      BY <2>1 DEF with_loop_iteration, Sound, State, LoopCounts
    <3> QED BY <3>3, <3>4, <3>5
  <2>7. route.target \in Phases \ {failed_route} => Aims(b, route.target, n)
    <3>1. NONE \notin Phases
      BY NamesAssumption
    <3> QED BY <3>1 DEF Decides
  <2> HIDE DEF b
  <2>8. CASE route.target = OnSuccess[g]
    <3>1. Aims(b, OnSuccess[g], n)
      <4>1. OnSuccess[g] # failed_route
        BY <2>1
      <4> QED BY <2>1, <2>7, <2>8, <4>1
    <3> QED BY <2>1, <3>1, <1>BeyondAims
  <2>9. CASE /\ route.target \in Phases /\ ~route.reset_loop /\ route.target # OnSuccess[g]
             /\ Role[route.target] = "execution" /\ LoopCounter[route.target] = NONE
    <3> DEFINE p == route.target
    <3>1. p \in Phases /\ p # failed_route /\ p # NONE /\ p # g
      BY <2>1, <2>9, FailedRouteIsTerminal, NamesAssumption
    <3>2. Aims(b, p, n)
      BY <2>7, <3>1
    <3>3. LoopCounter[p] = NONE /\ OnSuccess[b.phase] # p /\ Role[p] = "execution"
      BY SMTT(30), <2>4, <2>9
    <3> HIDE DEF p
    <3>4. /\ n.execution_cycle_charged = FlagAt(n.phase, b.execution_cycle_charged)
          /\ HasDevelopmentTimebox /\ n.phase = development_timebox.end_entry
               => ~n.dev_timebox_active
      BY <3>1, <3>2, AimsLands
    <3>5. \/ /\ HasCycleTimebox
             /\ Onward(g, At(b, cycle_timebox.finalization_target), At(n, n.phase))
          \/ n.phase = p /\ n.loop_iterations = b.loop_iterations
      <4>1. ~(HasDevelopmentTimebox /\ b.dev_timebox_active
                /\ p = development_timebox.guarded_entry)
        BY <2>5
      <4>2. ~(Role[b.phase] = "analysis" /\ OnSuccess[b.phase] = p)
        BY <3>3
      <4>3. \/ /\ HasCycleTimebox /\ p = cycle_timebox.guarded_entry
               /\ Onward(b.phase, At(b, cycle_timebox.finalization_target), At(n, n.phase))
            \/ /\ n.phase = p
               /\ n.loop_iterations = b.loop_iterations
               /\ n.post_commit_phase_override = b.post_commit_phase_override
        BY ZenonT(30), <3>1, <3>2, <3>3, <4>1, <4>2, AimsPlain
      <4> QED BY <2>4, <4>3
    <3>6. CASE /\ HasCycleTimebox
               /\ Onward(g, At(b, cycle_timebox.finalization_target), At(n, n.phase))
      <4>1. cycle_timebox.finalization_target \in Beyond(g)
        BY <3>6 DEF GatedShape
      <4>2. cycle_timebox.finalization_target \in Phases
        BY TimeboxAssumption DEF CycleTimeboxPolicies
      <4>3. At(b, cycle_timebox.finalization_target) \in Stops
        <5>1. At(b, p) \in Stops
          BY <3>1, <3>2, AimsFrom
        <5> QED BY <4>2, <5>1 DEF At, Stops
      <4> QED BY <3>4, <3>6, <4>1, <4>3, <1>BeyondOnward
    <3>7. CASE n.phase = p /\ n.loop_iterations = b.loop_iterations
      <4>1. ~n.execution_cycle_charged
        BY <3>3, <3>4, <3>7 DEF FlagAt
      <4>2. Untimed(g, n)
        BY <3>1, <3>4, <3>7 DEF Untimed, StandsIn
      <4>3. Passes(g, s, n)
        BY <2>6, <2>9, <3>7, <4>1 DEF Passes, Pays
      <4> QED BY <4>2, <4>3
    <3> QED BY <3>5, <3>6, <3>7
  <2> QED BY <2>2, <2>8, <2>9

\* What is quiet from one of them is quiet from the other.
<1>QuietFrom.
      ASSUME NEW g, NEW L, NEW s, NEW b, StandsFor(g, L, s, b), NEW n
      PROVE  /\ Quiet(g, L, b, n) => Quiet(g, L, s, n)
             /\ Pays(g, b, n) => Pays(g, s, n)
             /\ PaysElsewhere(g, b, n) => PaysElsewhere(g, s, n)
             /\ Untimed(g, s) => Untimed(g, b)
  <2> USE <1>QuietFrom
  <2>1. \A S : StandsIn(S, b) <=> s.phase \in S
    BY DEF StandsFor, StandsIn
  <2>2. \A S : StandsIn(S, s) <=> s.phase \in S
    BY DEF StandsFor, StandsIn
  <2>3. Quiet(g, L, b, n) => Quiet(g, L, s, n)
    BY <2>1, <2>2 DEF StandsFor, Quiet
  <2>4. Pays(g, b, n) => Pays(g, s, n)
    BY DEF StandsFor, Pays
  <2>5. PaysElsewhere(g, b, n) => PaysElsewhere(g, s, n)
    BY DEF StandsFor, PaysElsewhere
  <2>6. Untimed(g, s) => Untimed(g, b)
    BY <2>1, <2>2 DEF StandsFor, Untimed
  <2> QED BY <2>3, <2>4, <2>5, <2>6

\* A deadline leaves the gated loop alone.
<1>QuietRedirects.
      ASSUME NEW g, NEW L, NEW W, GatedShape(g, L, W),
             NEW s, s.phase \in Phases, NEW n, RedirectsTo(s, n)
      PROVE  Untimed(g, n) /\ Quiet(g, L, s, n) /\ Role[s.phase] = "execution"
  <2> USE <1>QuietRedirects
  <2>1. /\ s.phase \in L /\ Role[s.phase] = "execution"
    BY DEF RedirectsTo, GatedShape
  <2>2. Role[g] = "analysis" /\ Role[failed_route] = "terminal"
    BY GatedFacts, FailedRouteIsTerminal
  <2>3. s.phase # g /\ s.phase # failed_route /\ Role[s.phase] # "commit"
    BY <2>1, <2>2
  <2>4. Busy(L, s)
    BY <2>1 DEF Busy, StandsIn
  <2>5. CASE HasCycleTimebox /\ Aims(s, cycle_timebox.finalization_target, n)
    <3>1. cycle_timebox.finalization_target \in Phases \ {g}
      <4>1. cycle_timebox.finalization_target \in Beyond(g) /\ g \notin Beyond(g)
        BY <2>5, <1>GateFacts
      <4>2. cycle_timebox.finalization_target \in Phases
        BY TimeboxAssumption DEF CycleTimeboxPolicies
      <4> QED BY <4>1, <4>2
    <3> QED BY <2>1, <2>3, <2>4, <2>5, <3>1, <1>QuietAims
  <2>6. CASE /\ HasDevelopmentTimebox
             /\ \E b : Overdue(s, b) /\ Aims(b, development_timebox.finalization_target, n)
    <3>1. PICK b : Overdue(s, b) /\ Aims(b, development_timebox.finalization_target, n)
      BY <2>6
    <3>2. development_timebox.finalization_target \in Phases \ {g}
      BY <2>6, <1>GateFacts, TimeboxAssumption DEF DevelopmentTimeboxPolicies
    <3>3. StandsFor(g, L, s, b)
      BY <2>3, <2>4, <3>1 DEF StandsFor, Overdue, SamePlace
    <3>4. b.phase # g /\ Busy(L, b)
      BY <2>1, <2>3, <3>3 DEF Busy, StandsIn, StandsFor
    <3>5. Untimed(g, n) /\ Quiet(g, L, b, n)
      BY <3>1, <3>2, <3>4, <1>QuietAims
    <3> QED BY <2>1, <3>3, <3>5, <1>QuietFrom
  <2> QED BY <2>5, <2>6 DEF RedirectsTo

\* An advance along the policy's own edges leaves the gated loop alone.
<1>QuietLeads.
      ASSUME NEW g, NEW L, NEW W, GatedShape(g, L, W),
             NEW s, NEW p \in Phases, p \in LeadsTo(s.phase), s.phase # g,
             NEW n, Aims(s, p, n)
      PROVE  Untimed(g, n) /\ Quiet(g, L, s, n)
  <2> USE <1>QuietLeads
  <2>1. s.phase \in Phases
    BY AimsFrom
  <2>2. EntersGated(g) /\ EntersLoop(g, L)
    BY DEF GatedShape
  <2>3. p # g
    BY <2>1, <2>2 DEF EntersGated, LeadsTo
  <2>4. Busy(L, s) \/ p \in Beside(g, L)
    <3>1. CASE s.phase \in L
      BY <3>1 DEF Busy, StandsIn
    <3>2. CASE s.phase \notin L
      <4>1. p \in OrNone(Beside(g, L))
        BY ZenonT(30), <2>1, <2>2, <3>2 DEF EntersLoop, LeadsTo
      <4> QED BY <4>1, NamesAssumption DEF OrNone
    <3> QED BY <3>1, <3>2
  <2>5. p \in Phases \ {g}
    BY <2>3
  <2> QED BY <2>4, <2>5, <1>QuietAims

\* Another state's own loop, counted anew.
<1>RecountsStandsFor.
      ASSUME NEW g, NEW L, NEW W, GatedShape(g, L, W),
             NEW s, Sound(s), s.phase # g, Role[s.phase] \in {"analysis", "commit_cleanup"},
             NEW b, Recounts(s, b)
      PROVE  StandsFor(g, L, s, b) /\ b.phase \in Phases /\ b.loop_iterations \in LoopCounts
  <2> USE <1>RecountsStandsFor
  <2>1. s.phase \in Phases /\ LoopCounter[g] \in LoopCounters /\ LoopCounter[s.phase] # LoopCounter[g]
    <3>1. s.phase \in Phases /\ LoopCounter[g] \in LoopCounters
      BY SoundCounts, GatedFacts
    <3>2. \A p \in Phases : LoopCounter[p] = LoopCounter[g] => p = g
      BY DEF GatedShape, GatedLoop
    <3> QED BY <3>1, <3>2
  <2>2. Role[s.phase] # "commit" /\ s.phase # failed_route
    BY FailedRouteIsTerminal
  <2>3. /\ b.phase = s.phase /\ b.execution_cycle_charged = s.execution_cycle_charged
        /\ b.loop_iterations[LoopCounter[g]] = s.loop_iterations[LoopCounter[g]]
        /\ b.loop_iterations \in LoopCounts
        /\ b.dev_timebox_active = s.dev_timebox_active
        /\ b.post_commit_phase_override = s.post_commit_phase_override
    BY <2>1 DEF Recounts, SamePlace
  <2>4. Busy(L, b) => Busy(L, s)
    BY <2>2, <2>3 DEF Busy, StandsIn
  <2> QED BY <2>1, <2>2, <2>3, <2>4 DEF StandsFor

\* Going on, or failing, after another loop is counted.
<1>GatedFrom.
      ASSUME NEW g, NEW L, NEW W, GatedShape(g, L, W),
             NEW s, Sound(s), s.phase # g, Role[s.phase] \in {"analysis", "commit_cleanup"},
             Untimed(g, s), NEW b, Recounts(s, b),
             NEW n, \/ FailsFrom(b, n)
                    \/ \E p \in Phases : p \in LeadsTo(s.phase) /\ Aims(b, p, n)
      PROVE  Untimed(g, n) /\ Settles(g, L, s, n)
  <2> USE <1>GatedFrom
  <2>1. StandsFor(g, L, s, b) /\ b.phase \in Phases /\ b.loop_iterations \in LoopCounts
    BY <1>RecountsStandsFor
  <2>2. b.phase = s.phase /\ Untimed(g, b)
    BY <2>1, <1>QuietFrom DEF StandsFor
  <2>3. CASE FailsFrom(b, n)
    <3>1. /\ Untimed(g, n)
          /\ Quiet(g, L, b, n) \/ Pays(g, b, n) \/ PaysElsewhere(g, b, n)
      BY <2>1, <2>2, <2>3, <1>QuietFails
    <3> QED BY <2>1, <3>1, <1>QuietFrom DEF Settles
  <2>4. ASSUME NEW p \in Phases, p \in LeadsTo(s.phase), Aims(b, p, n)
        PROVE  Untimed(g, n) /\ Settles(g, L, s, n)
    <3>1. p \in LeadsTo(b.phase) /\ b.phase # g
      BY <2>2, <2>4
    <3>2. Untimed(g, n) /\ Quiet(g, L, b, n)
      BY <2>4, <3>1, <1>QuietLeads
    <3> QED BY <2>1, <3>2, <1>QuietFrom DEF Settles
  <2> QED BY <2>3, <2>4

\* Results and failures of what is in flight.
<1>GatedResult.
      ASSUME NEW g, NEW L, NEW W, GatedShape(g, L, W),
             NEW s, Sound(s), s.phase \notin TerminalStates, OnItsWay(W, s), Untimed(g, s),
             NEW n, CountedResult(s, n)
      PROVE  Untimed(g, n) /\ Settles(g, L, s, n)
  <2> USE <1>GatedResult
  <2>1. /\ s.phase \in Phases /\ s.loop_iterations \in LoopCounts
        /\ OnSuccess[s.phase] \in Phases /\ Role[g] = "analysis" /\ s.phase # failed_route
    BY SoundCounts, GatedFacts, NextPhases, FailedRouteIsTerminal DEF TerminalStates
  <2>2. CASE KeepsCounts(s, n)
    BY <2>2, <1>QuietKept DEF Settles
  <2>3. CASE /\ Role[s.phase] \in {"execution", "commit_cleanup"}
             /\ Aims(s, OnSuccess[s.phase], n)
    <3>1. s.phase # g /\ Role[s.phase] # "commit"
      BY <2>1, <2>3
    <3>2. OnSuccess[s.phase] \in LeadsTo(s.phase)
      BY <3>1 DEF LeadsTo
    <3> QED BY <2>1, <2>3, <3>1, <3>2, <1>QuietLeads DEF Settles
  <2>4. ASSUME s.phase \in ReportsResult, NEW status \in Statuses,
               Aims(Reported(s, status), OnSuccess[s.phase], n)
        PROVE  Untimed(g, n) /\ Settles(g, L, s, n)
    <3> DEFINE b == Reported(s, status)
    <3>1. /\ SamePlace(s, b) /\ b.loop_iterations = s.loop_iterations
          /\ b.post_commit_phase_override = ResultOverride[s.phase][status]
          /\ b.dev_timebox_active = s.dev_timebox_active
          /\ Aims(b, OnSuccess[s.phase], n)
      BY <2>4, ReportCounts
    <3> HIDE DEF b
    <3>2. b.phase = s.phase /\ b.execution_cycle_charged = s.execution_cycle_charged
      BY <3>1 DEF SamePlace
    <3>3. Role[s.phase] = "execution"
      BY <2>4 DEF GatedShape, GatedLoop
    <3>4. s.phase # g /\ Role[s.phase] # "commit"
      BY <2>1, <3>3
    <3>5. Busy(L, b) => Busy(L, s)
      <4>1. s.phase \notin L => ResultOverride[s.phase][status] = NONE
        BY <2>1, <2>4 DEF GatedShape, EntersLoop
      <4> QED BY <2>1, <3>1, <3>2, <4>1 DEF Busy, StandsIn
    <3>6. StandsFor(g, L, s, b)
      BY <2>1, <3>1, <3>2, <3>4, <3>5 DEF StandsFor
    <3>7. b.phase # g /\ OnSuccess[s.phase] \in LeadsTo(b.phase)
      BY <3>2, <3>4 DEF LeadsTo
    <3>8. Untimed(g, n) /\ Quiet(g, L, b, n)
      BY <2>1, <3>1, <3>7, <1>QuietLeads
    <3> QED BY <3>6, <3>8, <1>QuietFrom DEF Settles
  <2>5. ASSUME Role[s.phase] = "analysis", NEW d \in Decisions, Decides(s, d, n)
        PROVE  Untimed(g, n) /\ Settles(g, L, s, n)
    <3>1. CASE s.phase = g
      BY <2>5, <3>1, <1>GatedDecides DEF Settles
    <3>2. CASE s.phase # g
      <4> DEFINE route == Route[s.phase][d]
                 b == count_decision(s, route)
      <4>1. /\ \/ FailsFrom(s, n) \/ FailsFrom(b, n)
               \/ route.target \in Phases /\ Aims(b, route.target, n)
            /\ Recounts(s, b)
        BY <2>5, DecisionCounts DEF Decides
      <4>2. route.target \in LeadsTo(s.phase)
        BY DEF LeadsTo
      <4> HIDE DEF b, route
      <4>3. CASE FailsFrom(s, n)
        BY <2>1, <4>3, <1>QuietFails DEF Settles
      <4>4. CASE \/ FailsFrom(b, n)
                 \/ route.target \in Phases /\ Aims(b, route.target, n)
        <5>1. Role[s.phase] \in {"analysis", "commit_cleanup"}
          BY <2>5
        <5>2. \/ FailsFrom(b, n)
              \/ \E p \in Phases : p \in LeadsTo(s.phase) /\ Aims(b, p, n)
          BY <4>2, <4>4
        <5> QED BY <3>2, <4>1, <5>1, <5>2, <1>GatedFrom
      <4> QED BY <4>1, <4>3, <4>4
    <3> QED BY <3>1, <3>2
  <2>6. ASSUME Role[s.phase] = "commit_cleanup", NEW b, Recounts(s, b),
               \/ FailsFrom(b, n)
               \/ OnLoopback[s.phase] # NONE /\ Aims(b, OnLoopback[s.phase], n)
        PROVE  Untimed(g, n) /\ Settles(g, L, s, n)
    <3>1. s.phase # g /\ Role[s.phase] \in {"analysis", "commit_cleanup"}
      BY <2>1, <2>6
    <3>2. OnLoopback[s.phase] # NONE => OnLoopback[s.phase] \in Phases
      BY <2>1, NextPhases DEF OrNone
    <3>3. OnLoopback[s.phase] \in LeadsTo(s.phase)
      BY DEF LeadsTo
    <3>4. \/ FailsFrom(b, n)
          \/ \E p \in Phases : p \in LeadsTo(s.phase) /\ Aims(b, p, n)
      BY <2>6, <3>2, <3>3
    <3> QED BY <2>6, <3>1, <3>4, <1>GatedFrom
  <2>7. CASE /\ Role[s.phase] = "commit"
             /\ \/ CommitsCount(s, n)
                \/ Aims(s, s.phase, n)
                \/ Aims(s, RetryPhase(s.phase), n)
    <3>1. s.phase # g /\ s.phase \notin L
      BY ZenonT(30), <2>1, <2>7, GatedFacts
    <3>2. CASE CommitsCount(s, n)
      BY <2>7, <3>2, <1>GatedCommits DEF Settles
    <3>3. CASE Aims(s, s.phase, n)
      <4>1. s.phase \in Phases \ {g} /\ s.phase \in Beside(g, L)
        BY <2>1, <3>1 DEF Beside
      <4> QED BY <3>1, <3>3, <4>1, <1>QuietAims DEF Settles
    <3>4. CASE Aims(s, CommitRecoveryPhase[s.phase], n) /\ CommitRecoveryPhase[s.phase] # NONE
      <4>1. CommitRecoveryPhase[s.phase] \in Phases
        BY <2>1, <3>4, NextPhases DEF OrNone
      <4>2. CommitRecoveryPhase[s.phase] \in LeadsTo(s.phase)
        BY DEF LeadsTo
      <4> QED BY <3>1, <3>4, <4>1, <4>2, <1>QuietLeads DEF Settles
    <3> QED BY <2>7, <3>2, <3>3, <3>4 DEF RetryPhase
  <2>8. CASE FailsFrom(s, n)
    BY <2>1, <2>8, <1>QuietFails DEF Settles
  <2>9. CASE FallsBack(s, n)
    <3>1. WorkflowFallback[s.phase] # NONE /\ Aims(s, WorkflowFallback[s.phase], n)
      BY <2>1, <2>9 DEF FallsBack, GatedShape, ChargedPhasesFail
    <3>2. s.phase # g
      BY <3>1 DEF GatedShape, GatedLoop
    <3>3. WorkflowFallback[s.phase] \in Phases
      BY <2>1, <3>1, NextPhases DEF OrNone
    <3>4. WorkflowFallback[s.phase] \in LeadsTo(s.phase)
      BY DEF LeadsTo
    <3> QED BY <3>1, <3>2, <3>3, <3>4, <1>QuietLeads DEF Settles
  <2>10. CASE RedirectsTo(s, n)
    BY <2>1, <2>10, <1>QuietRedirects DEF Settles
  <2> QED BY ZenonT(30), <2>2, <2>3, <2>4, <2>5, <2>6, <2>7, <2>8, <2>9, <2>10 DEF CountedResult

\* A missing plan leaves the gated loop alone.
<1>QuietPlanMissed.
      ASSUME NEW g, NEW L, NEW W, GatedShape(g, L, W),
             NEW s, s.phase \in Phases, Untimed(g, s), NEW n, PlanMissed(s, n)
      PROVE  Untimed(g, n) /\ Quiet(g, L, s, n)
  <2> USE <1>QuietPlanMissed
  <2>1. /\ n.phase \in {failed_route, entry_phase} /\ n.previous_phase = s.phase
        /\ n.loop_iterations = s.loop_iterations
        /\ n.execution_cycle_charged = FlagAt(n.phase, s.execution_cycle_charged)
        /\ n.post_commit_phase_override = s.post_commit_phase_override
        /\ n.dev_timebox_active = s.dev_timebox_active
    BY DEF PlanMissed
  <2>2. /\ Role[g] = "analysis" /\ Role[entry_phase] = "execution"
        /\ Role[failed_route] = "terminal" /\ failed_route \notin L
        /\ failed_route \notin Chargers(g)
        /\ HasDevelopmentTimebox => Role[development_timebox.end_entry] = "commit"
    BY GatedFacts, FailedRouteIsTerminal DEF GatedShape, GatedLoop
  <2>3. /\ n.phase # g /\ g # failed_route
        /\ HasDevelopmentTimebox => n.phase # development_timebox.end_entry
    BY <2>1, <2>2
  <2>4. n.execution_cycle_charged => n.phase = failed_route /\ s.execution_cycle_charged
    BY <2>1, <2>2 DEF FlagAt
  <2>5. \A S : StandsIn(S, n) /\ n.phase = failed_route /\ failed_route \notin S => StandsIn(S, s)
    BY <2>1 DEF StandsIn
  <2>6. Untimed(g, n)
    <3>1. StandsIn({g}, n) => StandsIn({g}, s)
      BY <2>1, <2>3 DEF StandsIn
    <3> QED BY <2>1, <2>3, <3>1 DEF Untimed
  <2>7. n.execution_cycle_charged =>
          /\ StandsIn(Chargers(g), n) => StandsIn(Chargers(g), s)
          /\ Busy(L, n) => Busy(L, s)
    BY <2>1, <2>2, <2>4, <2>5 DEF Busy
  <2>8. n.loop_iterations[LoopCounter[g]] = s.loop_iterations[LoopCounter[g]]
    BY <2>1
  <2> QED BY <2>3, <2>4, <2>6, <2>7, <2>8 DEF Quiet

\* And so does the phase that failed, entered again.
<1>QuietReenters.
      ASSUME NEW g, NEW L, NEW W, GatedShape(g, L, W),
             NEW s, Sound(s), s.phase = failed_route, Untimed(g, s),
             s.previous_phase \in Phases \ TerminalStates,
             NEW n, ReentersAt(s, n)
      PROVE  Untimed(g, n) /\ Quiet(g, L, s, n)
  <2> USE <1>QuietReenters
  <2> DEFINE p == s.previous_phase
             k == At(s, p)
             m == At(n, n.phase)
  <2>1. failed_route \in TerminalStates /\ Role[failed_route] = "terminal"
    <3>1. failed_route \in Phases /\ Role[failed_route] = "terminal"
      BY FailedRouteIsTerminal
    <3> QED BY <3>1 DEF TerminalStates
  <2>2. recovery_target(s) = p /\ p \in Phases /\ p # failed_route
    BY <2>1, NamesAssumption DEF recovery_target
  <2>3. /\ n.phase \in {p} \cup Finals
        /\ n.loop_iterations = s.loop_iterations
        /\ n.execution_cycle_charged = s.execution_cycle_charged
        /\ Onward(s.phase, k, m)
        /\ HasDevelopmentTimebox /\ n.phase = development_timebox.end_entry
             => ~n.dev_timebox_active
    BY <2>2 DEF ReentersAt
  <2>4. k \in Stops
    BY <2>2, SoundCounts, AtType
  <2>5. /\ k.target = p /\ m.target = n.phase
        /\ k.route = s.post_commit_phase_override /\ m.route = n.post_commit_phase_override
        /\ k.dev = s.dev_timebox_active /\ m.dev = n.dev_timebox_active
    BY DEF At
  <2> HIDE DEF k, m
  <2>6. Finals \cap L = {} /\ failed_route \notin Finals
    <3>1. \A q \in W : Role[q] \in {"commit_cleanup", "commit"}
      BY DEF GatedShape, OverrideWay
    <3>2. HasDevelopmentTimebox => development_timebox.finalization_target \in W
      BY DEF GatedShape, OverrideWay
    <3>3. HasCycleTimebox => cycle_timebox.finalization_target \in Beyond(g)
      BY DEF GatedShape
    <3>4. Beyond(g) \cap L = {} /\ failed_route \notin Beyond(g)
      BY DEF GatedShape
    <3>5. \A q \in L : Role[q] \in {"execution", "analysis"}
      BY GatedFacts
    <3>6. W \cap L = {} /\ failed_route \notin W
      BY <2>1, <3>1, <3>5
    <3> QED BY <3>2, <3>3, <3>4, <3>6 DEF Finals
  <2>7. g \in L /\ failed_route \notin L /\ Chargers(g) \subseteq L /\ g # failed_route
        /\ failed_route \in Phases
    BY GatedFacts, FailedRouteIsTerminal DEF GatedShape, GatedLoop
  <2>8. n.phase # failed_route /\ (n.phase \in L => n.phase = p)
    BY <2>2, <2>3, <2>6
  <2>9. \A S : p \in S => StandsIn(S, s)
    BY DEF StandsIn
  <2>10. \A S \in SUBSET L : StandsIn(S, n) => StandsIn(S, s)
    BY <2>8, <2>9 DEF StandsIn
  <2>11. Untimed(g, n)
    <3>1. n.phase = g => StandsIn({g}, s) /\ (n.dev_timebox_active => s.dev_timebox_active)
      <4>1. n.phase = g => p = g
        BY <2>7, <2>8
      <4>2. n.phase = g /\ p = g => (m.dev => k.dev)
        <5>1. s.phase \in Phases \ {g}
          BY <2>7
        <5>2. /\ k.target # g =>
                   m.target # g /\ m.loops[LoopCounter[g]] = k.loops[LoopCounter[g]]
              /\ k.target = g =>
                   \/ m.target \in Beyond(g)
                   \/ /\ m.target = g /\ (m.dev => k.dev)
                      /\ m.loops[LoopCounter[g]] = k.loops[LoopCounter[g]]
          BY <2>3, <2>4, <5>1, <1>GateOnward
        <5>3. g \notin Beyond(g)
          BY GatedFacts
        <5> QED BY <2>5, <5>2, <5>3
      <4> QED BY <2>5, <2>9, <4>1, <4>2
    <3> QED BY <2>3, <2>8, <3>1 DEF Untimed, StandsIn
  <2>12. Busy(L, n) => Busy(L, s)
    <3>1. StandsIn(L, n) => StandsIn(L, s)
      BY <2>10
    <3>2. ASSUME p \notin L
          PROVE  n.post_commit_phase_override = s.post_commit_phase_override
      <4>1. k.target \in Beside(g, L)
        BY <2>2, <2>5, <3>2 DEF Beside
      <4>2. m.route = k.route
        <5>1. StaysBeside(g, L, k, m)
          BY <2>3, <2>4, <4>1, <1>BesideOnward
        <5> QED BY <5>1 DEF StaysBeside
      <4> QED BY <2>5, <4>2
    <3> QED BY <2>9, <3>1, <3>2 DEF Busy
  <2>13. StandsIn(Chargers(g), n) => StandsIn(Chargers(g), s)
    BY <2>7, <2>10
  <2>14. Role[s.phase] # "commit"
    BY <2>1
  <2>15. n.loop_iterations[LoopCounter[g]] = s.loop_iterations[LoopCounter[g]]
    BY <2>3
  <2> QED BY <2>3, <2>11, <2>12, <2>13, <2>14, <2>15 DEF Quiet

\* Dispatches, from the prepared phase.
<1>GatedDispatch.
      ASSUME NEW g, NEW L, NEW W, GatedShape(g, L, W),
             NEW s, Sound(s), OnItsWay(W, s), Untimed(g, s),
             s.phase = failed_route => s.previous_phase \in Phases \ TerminalStates,
             NEW n, CountedDispatch(s, n)
      PROVE  /\ Untimed(g, n)
             /\ \/ n.phase \in Beyond(g) \/ Quiet(g, L, s, n)
                \/ Pays(g, s, n) \/ Closes(g, L, s, n)
  <2> USE <1>GatedDispatch
  <2>1. /\ s.phase \in Phases /\ s.loop_iterations \in LoopCounts
        /\ OnSuccess[s.phase] \in Phases /\ Role[g] = "analysis"
    BY SoundCounts, GatedFacts, NextPhases
  <2>2. CASE s.phase = failed_route /\ ReentersAt(s, n)
    BY <2>2, <1>QuietReenters
  <2>3. CASE PlanMissed(s, n)
    BY <2>1, <2>3, <1>QuietPlanMissed
  <2>4. CASE /\ Role[s.phase] \in {"analysis", "commit_cleanup"}
             /\ Aims(s, OnSuccess[s.phase], n)
    <3>1. CASE s.phase = g
      <4>1. OnSuccess[s.phase] \in Beyond(g)
        BY <3>1, GatedFacts
      <4> QED BY <2>1, <2>4, <4>1, <1>BeyondAims
    <3>2. CASE s.phase # g
      <4>1. Role[s.phase] # "commit"
        BY <2>4
      <4>2. OnSuccess[s.phase] \in LeadsTo(s.phase)
        BY <4>1 DEF LeadsTo
      <4> QED BY <2>1, <2>4, <3>2, <4>2, <1>QuietLeads
    <3> QED BY <3>1, <3>2
  <2>5. CASE Role[s.phase] = "commit" /\ CommitsCount(s, n)
    BY <2>5, <1>GatedCommits
  <2>6. CASE Failed(s, n) /\ FailsFrom(s, n)
    BY <2>1, <2>6, <1>QuietFails
  <2>7. CASE n = s
    <3>1. KeepsCounts(s, s)
      BY KeepsItself
    <3>2. Quiet(g, L, s, s)
      BY <3>1, <1>QuietKept
    <3> QED BY <2>7, <3>2
  <2>8. exhausted_analysis(s) => Role[s.phase] = "analysis"
    BY DEF exhausted_analysis
  <2> QED BY <2>2, <2>3, <2>4, <2>5, <2>6, <2>7, <2>8 DEF CountedDispatch

\* The prepared state: the gated loop is as it was.
<1>PreparedQuiet.
      ASSUME NEW g, NEW L, NEW W, GatedShape(g, L, W), IInv, Untimed(g, state)
      PROVE  /\ Sound(state) /\ Sound(prepared)
             /\ Untimed(g, prepared) /\ Quiet(g, L, state, prepared)
             /\ prepared = state \/ Role[state.phase] = "execution"
             /\ prepared.iteration = state.iteration
  <2> USE <1>PreparedQuiet
  <2>1. Sound(state) /\ Sound(prepared) /\ state.phase \in Phases
    BY InvariantMeansSound, PreparedSound, SoundCounts
  <2>2. CASE prepared = state
    <3>1. KeepsCounts(state, state)
      BY <2>1, KeepsItself
    <3>2. Quiet(g, L, state, state)
      BY <3>1, <1>QuietKept
    <3> QED BY <2>1, <2>2, <3>2
  <2>3. CASE RedirectsTo(state, prepared)
    <3>1. Untimed(g, prepared) /\ Quiet(g, L, state, prepared) /\ Role[state.phase] = "execution"
      BY <2>1, <2>3, <1>QuietRedirects
    <3> QED BY <2>1, <2>3, <3>1, RedirectKeepsIteration
  <2> QED BY <2>1, <2>2, <2>3, PreparedCounts
<1> SUFFICES ASSUME NEW g, NEW L, NEW W, GatedShape(g, L, W),
                    IInv, InFlight, OnItsWay(W, state), OnItsWay(W, prepared),
                    Dispatching /\ prepared.phase = failed_route =>
                      prepared.previous_phase \in Phases \ TerminalStates,
                    Untimed(g, state), [Next]_vars
             PROVE  /\ Untimed(g, state') /\ Settles(g, L, state, state')
                    /\ AnalysisDecides /\ state.phase = g =>
                         AgentReturns /\ (state'.phase \in Beyond(g)
                                            \/ Passes(g, state, state'))
  OBVIOUS
<1>1. /\ Sound(state) /\ Sound(prepared)
      /\ Untimed(g, prepared) /\ Quiet(g, L, state, prepared)
      /\ prepared = state \/ Role[state.phase] = "execution"
      /\ prepared.iteration = state.iteration
  BY <1>PreparedQuiet
<1>2. ASSUME KeepsCounts(state, state')
      PROVE  Untimed(g, state') /\ Settles(g, L, state, state')
  BY <1>2, <1>QuietKept DEF Settles
<1>3. ASSUME state.phase \notin TerminalStates /\ CountedResult(state, state')
      PROVE  Untimed(g, state') /\ Settles(g, L, state, state')
  BY <1>1, <1>3, <1>GatedResult
<1>4. ASSUME Dispatching /\ CountedDispatch(prepared, state')
      PROVE  Untimed(g, state') /\ Settles(g, L, state, state')
  <2>1. prepared.phase = failed_route => prepared.previous_phase \in Phases \ TerminalStates
    BY <1>4
  <2> DEFINE n == state'
  <2>2. /\ Untimed(g, n)
        /\ \/ n.phase \in Beyond(g) \/ Quiet(g, L, prepared, n)
           \/ Pays(g, prepared, n) \/ Closes(g, L, prepared, n)
    BY <1>1, <1>4, <2>1, <1>GatedDispatch
  <2> HIDE DEF n
  <2>3. CASE prepared = state
    BY <2>2, <2>3 DEF Settles, n
  <2>4. CASE Role[state.phase] = "execution"
    <3>1. Role[state.phase] # "commit"
      BY <2>4
    <3>2. prepared.loop_iterations[LoopCounter[g]] = state.loop_iterations[LoopCounter[g]]
      BY <1>1 DEF Quiet
    <3>3. Quiet(g, L, prepared, n) => Quiet(g, L, state, n)
      BY <1>1, <3>1 DEF Quiet
    <3>4. Pays(g, prepared, n) => Pays(g, state, n)
      BY <3>2 DEF Pays
    <3>5. Closes(g, L, prepared, n) => Closes(g, L, state, n)
      BY <1>1 DEF Closes
    <3> QED BY <2>2, <3>3, <3>4, <3>5 DEF Settles, n
  <2> QED BY <1>1, <2>3, <2>4
<1>5. Untimed(g, state') /\ Settles(g, L, state, state')
  BY <1>2, <1>3, <1>4, CountKinds
<1>6. ASSUME AnalysisDecides, state.phase = g
      PROVE  AgentReturns /\ (state'.phase \in Beyond(g) \/ Passes(g, state, state'))
  <2>1. AgentReturns /\ \E d \in Decisions : Decides(state, d, state')
    BY <1>6, CountKinds
  <2> QED BY <1>1, <1>6, <2>1, <1>GatedDecides
<1> QED BY <1>5, <1>6

\* An analysis agent works only in a loop that is not exhausted.
AgentHasPass(g) ==
  step.effect = "agent" /\ state.phase = g
    => state.loop_iterations[LoopCounter[g]] < Cap[LoopCounter[g]]

\* Every step keeps that.
LEMMA AgentHasPassKept ==
  ASSUME NEW g, NEW L, NEW W, GatedShape(g, L, W), IInv, AgentHasPass(g), [Next]_vars
  PROVE  AgentHasPass(g)'
<1>1. Role[g] = "analysis" /\ LoopCounter[g] \in LoopCounters /\ g \in Phases
  BY GatedFacts
<1>2. ASSUME step'.effect = NONE
      PROVE  AgentHasPass(g)'
  BY <1>2 DEF AgentHasPass, NONE
<1>3. CASE UNCHANGED vars
  BY <1>3 DEF vars, AgentHasPass
<1>4. CASE Tick
  <2>1. KeepsCounts(state, state') /\ step'.effect = step.effect
    <3>1. Sound(state) /\ step \in Steps
      BY InvariantMeansSound DEF TypeOK
    <3>2. step'.effect = step.effect
      BY <1>4, <3>1 DEF Tick, Steps
    <3> QED BY <1>4, <3>1, <3>2, TickCounts
  <2>2. state'.phase = state.phase /\ state'.loop_iterations = state.loop_iterations
    BY <2>1 DEF KeepsCounts, SameCounts, SamePlace
  <2> QED BY <2>1, <2>2 DEF AgentHasPass
<1>5. CASE Finishes \/ StopsAtFailedRoute \/ LedgerStops
  BY <1>5 DEF Finishes, StopsAtFailedRoute, LedgerStops, Leave, AgentHasPass
<1>6. CASE ResultArrives \/ PhaseFails \/ StepCrashes \/ AgentFails
  <2>1. step' = Idle
    BY <1>6 DEF ResultArrives, AgentSucceeds, ExecutionReports,
      AnalysisDecides, CleanupLoopsBack, AgentSkipsCommit, CommitSucceeds,
      CommitSkipped, CommitResidual, CommitFails, CommitWithoutMessage,
      PhaseFails, StepCrashes, AgentFails, Reduces
  <2> QED BY <1>2, <2>1 DEF Idle
<1>7. CASE \/ ReenterFailedPhase \/ PlanMissingOnReentry
           \/ AdvanceExhausted \/ EmptyCommit
           \/ NoAgentToInvoke \/ WorktreeUnreadable \/ PlanMissing
  <2>1. step' = Idle
    BY <1>7 DEF ReenterFailedPhase, PlanMissingOnReentry, AdvanceExhausted,
      EmptyCommit, NoAgentToInvoke, WorktreeUnreadable, PlanMissing,
      Dispatching, AtLoopHead
  <2> QED BY <1>2, <2>1 DEF Idle
<1>8. CASE InvokeAgent
  <2>1. state' = prepared /\ needs_agent(prepared) /\ Sound(prepared)
    BY <1>8, InvariantMeansSound, PreparedSound DEF InvokeAgent, Starts
  <2>2. prepared.phase = g => ~is_exhausted(prepared, g)
    BY <1>1, <2>1 DEF needs_agent, exhausted_analysis
  <2>3. prepared.loop_iterations \in LoopCounts /\ LoopCounter[g] # NONE
    BY <2>1, SoundCounts DEF GatedShape, GatedLoop
  <2>4. ~is_exhausted(prepared, g)
          => prepared.loop_iterations[LoopCounter[g]] < Cap[LoopCounter[g]]
    BY <1>1, <2>3, PassLeft
  <2> QED BY <2>1, <2>2, <2>4 DEF AgentHasPass
<1>9. CASE StartCommit
  BY <1>9 DEF StartCommit, Starts, AgentHasPass
<1> QED BY ZenonT(30), <1>3, <1>4, <1>5, <1>6, <1>7, <1>8, <1>9
  DEF Next, Proceed, Ended, ResultArrives

-----------------------------------------------------------------------------
(***************************************************************************)
(* The pass that the charged flag stands for is paid: it is counted in the *)
(* loop and not yet in the passes, unless the loop is at its cap.          *)
(***************************************************************************)
ForThisLoop(g, L) ==
  /\ state.execution_cycle_charged /\ Busy(L, state)
  /\ history.charged_loop = LoopCounter[g] \/ StandsIn(Chargers(g), state)

Prepaid(g, L) ==
  ForThisLoop(g, L) =>
    \/ history.passes < state.loop_iterations[LoopCounter[g]]
    \/ state.loop_iterations[LoopCounter[g]] = Cap[LoopCounter[g]]

PassInv(g, L) ==
  /\ Untimed(g, state) /\ AgentHasPass(g)
  /\ history.passes \in Nat
  /\ history.passes <= state.loop_iterations[LoopCounter[g]]
  /\ Prepaid(g, L)

\* Every recorded step is a step of the run, with at most one pass, and that
\* one a decision of the gated analysis on its own charge or on none.
LEMMA RecordedStep ==
  ASSUME NEW g, NEW L, NEW W, GatedShape(g, L, W), Sound(state), [HNext]_hvars
  PROVE  /\ [Next]_vars
         /\ \/ UNCHANGED hvars
            \/ Recording(0)
            \/ /\ Recording(1) /\ AnalysisDecides /\ state.phase = g
               /\ state.execution_cycle_charged => history.charged_loop = LoopCounter[g]
<1>1. CASE UNCHANGED hvars
  BY <1>1 DEF hvars
<1>2. CASE Ended /\ UNCHANGED history
  BY <1>2 DEF Ended, Next, hvars
<1>3. CASE AnalysisDecides /\ Recording(One(Gated(state.phase) /\ ~FlagOfAnotherLoop))
  <2>1. Gated(state.phase) => state.phase = g
    BY SoundCounts DEF GatedShape, GatedLoop
  <2>2. CASE Gated(state.phase) /\ ~FlagOfAnotherLoop
    <3>1. One(Gated(state.phase) /\ ~FlagOfAnotherLoop) = 1
      BY <2>2 DEF One
    <3>2. state.execution_cycle_charged => history.charged_loop = LoopCounter[g]
      BY <2>1, <2>2 DEF FlagOfAnotherLoop
    <3> QED BY <1>3, <2>1, <2>2, <3>1, <3>2 DEF Next, Proceed
  <2>3. CASE ~(Gated(state.phase) /\ ~FlagOfAnotherLoop)
    <3>1. One(Gated(state.phase) /\ ~FlagOfAnotherLoop) = 0
      BY <2>3 DEF One
    <3> QED BY <1>3, <3>1 DEF Next, Proceed
  <2> QED BY <2>2, <2>3
<1>4. CASE Next /\ Recording(0)
  BY <1>4
<1> QED BY <1>1, <1>2, <1>3, <1>4 DEF HNext, Next, Proceed

\* What the record says after a step.
LEMMA Recorded ==
  ASSUME NEW g, NEW L, NEW W, GatedShape(g, L, W), Sound(state),
         state'.phase \in Phases, history.passes \in Nat,
         NEW pass \in {0, 1}, Recording(pass)
  PROVE  /\ history'.passes \in Nat /\ history'.passes <= history.passes + pass
         /\ state'.phase \in Beyond(g) \/ state'.iteration # state.iteration
              => history'.passes = 0
         /\ state'.execution_cycle_charged /\ history'.charged_loop = LoopCounter[g] =>
              \/ /\ Role[state.phase] = "commit"
                 /\ state.post_commit_phase_override = NONE
                 /\ state'.phase = g
              \/ ExecutionCycleCounter[state.phase] = LoopCounter[g]
              \/ /\ ExecutionCycleCounter[state.phase] = NONE
                 /\ history.charged_loop = LoopCounter[g]
<1>1. /\ history'.passes = IF LoopEnds THEN 0 ELSE history.passes + pass
      /\ history'.charged_loop = ChargedLoop
  BY DEF Recording
<1>2. g \in Phases /\ Gated(g) /\ (Gated(state'.phase) => state'.phase = g)
  BY GatedFacts DEF GatedShape, GatedLoop
<1>3. state'.phase \in Beyond(g) \/ state'.iteration # state.iteration => LoopEnds
  BY <1>2 DEF LoopEnds
<1>4. history'.passes \in Nat /\ history'.passes <= history.passes + pass
  <2>1. /\ 0 \in Nat /\ 0 <= history.passes + pass /\ history.passes + pass \in Nat
        /\ history.passes + pass <= history.passes + pass
    BY SMTT(30)
  <2> QED BY <1>1, <2>1
<1>5. LoopEnds => history'.passes = 0
  BY <1>1
<1>6. state'.execution_cycle_charged =>
        \/ EntersThroughGate
        \/ ExecutionCycleCounter[state.phase] # NONE
             /\ ChargedLoop = ExecutionCycleCounter[state.phase]
        \/ ExecutionCycleCounter[state.phase] = NONE /\ ChargedLoop = history.charged_loop
  BY DEF ChargedLoop
<1> QED BY ZenonT(30), <1>1, <1>2, <1>3, <1>4, <1>5, <1>6 DEF EntersThroughGate

\* A step without a pass.
LEMMA SettledStep ==
  ASSUME NEW g, NEW L, NEW W, GatedShape(g, L, W), PassInv(g, L),
         Sound(state), Sound(state'), OnItsWay(W, state'),
         Settles(g, L, state, state'), Recording(0)
  PROVE  /\ history'.passes \in Nat
         /\ history'.passes <= state'.loop_iterations[LoopCounter[g]]
         /\ Prepaid(g, L)'
<1> DEFINE l == state.loop_iterations[LoopCounter[g]]
           m == state'.loop_iterations[LoopCounter[g]]
           C == Cap[LoopCounter[g]]
           P == history.passes
           Q == history'.passes
           F == /\ state'.execution_cycle_charged /\ Busy(L, state')
                /\ \/ history'.charged_loop = LoopCounter[g]
                   \/ StandsIn(Chargers(g), state')
<1>1. /\ LoopCounter[g] \in LoopCounters
      /\ state.loop_iterations \in LoopCounts /\ state'.loop_iterations \in LoopCounts
      /\ state.phase \in Phases /\ state'.phase \in Phases
  BY GatedFacts, SoundCounts
<1>2. l \in 0..C /\ m \in 0..C /\ C \in Nat
  BY <1>1, CountWithinCap
<1>3. P \in Nat /\ P <= l /\ (ForThisLoop(g, L) => P < l \/ l = C)
  BY DEF PassInv, Prepaid
<1>4. /\ Q \in Nat /\ Q <= P + 0
      /\ state'.phase \in Beyond(g) \/ state'.iteration # state.iteration => Q = 0
      /\ state'.execution_cycle_charged /\ history'.charged_loop = LoopCounter[g] =>
           \/ /\ Role[state.phase] = "commit"
              /\ state.post_commit_phase_override = NONE
              /\ state'.phase = g
           \/ ExecutionCycleCounter[state.phase] = LoopCounter[g]
           \/ /\ ExecutionCycleCounter[state.phase] = NONE
              /\ history.charged_loop = LoopCounter[g]
  BY <1>1, <1>3, Recorded
<1>5. Prepaid(g, L)' <=> (F => Q < m \/ m = C)
  BY DEF Prepaid, ForThisLoop, Busy, StandsIn
<1>6. ExecutionCycleCounter[state.phase] = LoopCounter[g] => StandsIn(Chargers(g), state)
  BY <1>1 DEF Chargers, StandsIn
<1> SUFFICES Q <= m /\ (F => Q < m \/ m = C)
  BY <1>4, <1>5
<1>7. PassCounts(C, l, m, P, Q)
  BY <1>2, <1>3, <1>4, PassArithmetic
<1>8. Q <= P
  BY <1>4, <1>7 DEF PassCounts
<1>9. CASE state'.phase \in Beyond(g)
  <2>1. Q = 0
    BY <1>4, <1>9
  <2>2. Beyond(g) \cap ({g, failed_route} \cup L \cup W) = {}
    BY DEF GatedShape
  <2>3. ~Busy(L, state')
    BY <1>9, <2>2 DEF Busy, StandsIn, OnItsWay
  <2>4. Q <= m
    BY <1>7, <2>1 DEF PassCounts
  <2> QED BY <2>3, <2>4
<1>10. CASE Quiet(g, L, state, state')
  <2>1. m = l
    BY <1>10 DEF Quiet
  <2>2. F => ForThisLoop(g, L)
    BY <1>4, <1>6, <1>10 DEF ForThisLoop, Quiet
  <2>3. F => P < l \/ l = C
    BY <1>3, <2>2
  <2> HIDE DEF F, P, Q, l, m, C
  <2> QED BY <1>3, <1>7, <1>8, <2>1, <2>3 DEF PassCounts
<1>11. CASE Pays(g, state, state')
  <2>1. m = next_completed(l, C)
    BY <1>11 DEF Pays
  <2> HIDE DEF F, P, Q, l, m, C
  <2> QED BY <1>3, <1>7, <1>8, <2>1 DEF PassCounts
<1>12. CASE PaysElsewhere(g, state, state')
  <2>1. m = l /\ ~F
    BY <1>4, <1>12 DEF PaysElsewhere
  <2> HIDE DEF F, P, Q, l, m, C
  <2> QED BY <1>3, <1>7, <1>8, <2>1 DEF PassCounts
<1>13. CASE Closes(g, L, state, state')
  <2>1. Q = 0 /\ (F => m > 0 \/ m = C)
    BY <1>4, <1>13 DEF Closes
  <2> HIDE DEF F, P, Q, l, m, C
  <2> QED BY <1>7, <2>1 DEF PassCounts
<1>14. CASE Passes(g, state, state')
  <2>1. ~F /\ (m = l \/ m = next_completed(l, C))
    BY <1>14 DEF Passes, Pays
  <2> HIDE DEF F, P, Q, l, m, C
  <2> QED BY <1>3, <1>7, <1>8, <2>1 DEF PassCounts
<1> QED BY ZenonT(30), <1>9, <1>10, <1>11, <1>12, <1>13, <1>14 DEF Settles

\* A pass.
LEMMA PassStep ==
  ASSUME NEW g, NEW L, NEW W, GatedShape(g, L, W), PassInv(g, L),
         Sound(state), Sound(state'), OnItsWay(W, state'),
         Recording(1), AgentReturns, state.phase = g,
         state'.phase \in Beyond(g) \/ Passes(g, state, state'),
         state.execution_cycle_charged => history.charged_loop = LoopCounter[g]
  PROVE  /\ history'.passes \in Nat
         /\ history'.passes <= state'.loop_iterations[LoopCounter[g]]
         /\ Prepaid(g, L)'
<1> DEFINE l == state.loop_iterations[LoopCounter[g]]
           m == state'.loop_iterations[LoopCounter[g]]
           C == Cap[LoopCounter[g]]
           P == history.passes
           Q == history'.passes
<1>1. /\ LoopCounter[g] \in LoopCounters
      /\ state.loop_iterations \in LoopCounts /\ state'.loop_iterations \in LoopCounts
      /\ state'.phase \in Phases /\ g \in L
  <2>1. g \in L
    BY DEF GatedShape, GatedLoop
  <2> QED BY <2>1, GatedFacts, SoundCounts
<1>2. l \in 0..C /\ m \in 0..C /\ C \in Nat
  BY <1>1, CountWithinCap
<1>3. /\ P \in Nat /\ P <= l /\ (ForThisLoop(g, L) => P < l \/ l = C)
      /\ Untimed(g, state) /\ AgentHasPass(g)
  BY DEF PassInv, Prepaid
<1>4. Q \in Nat /\ Q <= P + 1 /\ (state'.phase \in Beyond(g) => Q = 0)
  <2>1. 1 \in {0, 1}
    OBVIOUS
  <2>2. /\ Q \in Nat /\ Q <= P + 1
        /\ state'.phase \in Beyond(g) \/ state'.iteration # state.iteration => Q = 0
    BY <1>1, <1>3, <2>1, Recorded
  <2> QED BY <2>2
<1>5. PassCounts(C, l, m, P, Q)
  BY <1>2, <1>3, <1>4, PassArithmetic
<1>6. l < C
  BY <1>3 DEF AgentHasPass, AgentReturns
<1>7. CASE state'.phase \in Beyond(g)
  <2>1. Beyond(g) \cap ({g, failed_route} \cup L \cup W) = {}
    BY DEF GatedShape
  <2>2. ~Busy(L, state')
    BY <1>7, <2>1 DEF Busy, StandsIn, OnItsWay
  <2>3. Prepaid(g, L)'
    BY <2>2 DEF Prepaid, ForThisLoop, Busy, StandsIn
  <2>4. Q <= m
    BY <1>4, <1>5, <1>7 DEF PassCounts
  <2> QED BY <1>4, <2>3, <2>4
<1>8. CASE Passes(g, state, state')
  <2>1. ~state'.execution_cycle_charged
    BY <1>8 DEF Passes
  <2>2. Prepaid(g, L)'
    BY <2>1 DEF Prepaid, ForThisLoop
  <2>3. state.execution_cycle_charged => ForThisLoop(g, L)
    BY <1>1 DEF ForThisLoop, Busy, StandsIn
  <2>4. (m = l /\ (P < l \/ l = C)) \/ m = next_completed(l, C)
    BY <1>3, <1>8, <2>3 DEF Passes, Pays
  <2>5. Q <= m
    <3> HIDE DEF P, Q, l, m, C
    <3> QED BY <1>3, <1>4, <1>5, <1>6, <2>4 DEF PassCounts
  <2> QED BY <1>4, <2>2, <2>5
<1> QED BY <1>7, <1>8

\* Every recorded step keeps the passes within the loop.
LEMMA PassInvKept ==
  ASSUME NEW g, NEW L, NEW W, GatedShape(g, L, W), PassInv(g, L),
         IInv, InFlight, OnItsWay(W, state), OnItsWay(W, prepared),
         Dispatching /\ prepared.phase = failed_route =>
           prepared.previous_phase \in Phases \ TerminalStates,
         Sound(state'), OnItsWay(W, state'), [HNext]_hvars
  PROVE  PassInv(g, L)'
<1>1. Untimed(g, state) /\ AgentHasPass(g)
  BY DEF PassInv
<1>2. Sound(state)
  BY InvariantMeansSound
<1>3. /\ [Next]_vars
      /\ \/ UNCHANGED hvars
         \/ Recording(0)
         \/ /\ Recording(1) /\ AnalysisDecides /\ state.phase = g
            /\ state.execution_cycle_charged => history.charged_loop = LoopCounter[g]
  BY <1>2, RecordedStep
<1>4. AgentHasPass(g)'
  BY <1>1, <1>3, AgentHasPassKept
<1>5. /\ Untimed(g, state') /\ Settles(g, L, state, state')
      /\ AnalysisDecides /\ state.phase = g =>
           AgentReturns /\ (state'.phase \in Beyond(g) \/ Passes(g, state, state'))
  BY <1>1, <1>3, GatedStep
<1>6. /\ history'.passes \in Nat
      /\ history'.passes <= state'.loop_iterations[LoopCounter[g]]
      /\ Prepaid(g, L)'
  <2>1. CASE UNCHANGED hvars
    BY <2>1 DEF hvars, vars, PassInv, Prepaid, ForThisLoop, Busy, StandsIn
  <2>2. CASE Recording(0)
    BY <1>2, <1>5, <2>2, SettledStep
  <2>3. CASE /\ Recording(1) /\ AnalysisDecides /\ state.phase = g
             /\ state.execution_cycle_charged => history.charged_loop = LoopCounter[g]
    BY <1>2, <1>5, <2>3, PassStep
  <2> QED BY <1>3, <2>1, <2>2, <2>3
<1>7. Untimed(g, state)'
  BY <1>5 DEF Untimed, StandsIn
<1> QED BY <1>4, <1>6, <1>7 DEF PassInv

\* At the start of a run no pass is run.
LEMMA PassStart ==
  ASSUME NEW g, NEW L, NEW W, GatedShape(g, L, W), HInit
  PROVE  Init /\ PassInv(g, L)
<1>1. Init /\ history.passes = 0
  BY DEF HInit
<1>2. LoopCounter[g] \in LoopCounters
  BY GatedFacts
<1>3. /\ step.effect = NONE /\ state.dev_timebox_active = FALSE
      /\ state.execution_cycle_charged = FALSE
      /\ \A c \in LoopCounters : state.loop_iterations[c] = 0
  BY <1>1 DEF Init, InitialState, Idle
<1>4. Untimed(g, state) /\ AgentHasPass(g) /\ Prepaid(g, L)
  BY <1>3 DEF Untimed, AgentHasPass, Prepaid, ForThisLoop, NONE
<1>5. history.passes \in Nat /\ history.passes <= state.loop_iterations[LoopCounter[g]]
  <2>1. state.loop_iterations[LoopCounter[g]] = 0
    BY <1>2, <1>3
  <2>2. 0 \in Nat /\ 0 <= 0
    BY SMTT(30)
  <2> QED BY <1>1, <2>1, <2>2
<1> QED BY <1>1, <1>4, <1>5 DEF PassInv

\* Passes that are paid for stay within the cap of their loop.
LEMMA PassInvMeansCap ==
  ASSUME NEW g, NEW L, NEW W, GatedShape(g, L, W), PassInv(g, L), Sound(state)
  PROVE  GatedPassesWithinCap
<1> SUFFICES ASSUME NEW p \in Phases, Gated(p)
             PROVE  /\ history.passes <= Cap[LoopCounter[p]]
                    /\ step.effect = "agent" /\ state.phase = p =>
                         history.passes < Cap[LoopCounter[p]]
  BY DEF GatedPassesWithinCap
<1>1. p = g
  BY DEF GatedShape, GatedLoop
<1>2. LoopCounter[g] \in LoopCounters /\ state.loop_iterations \in LoopCounts
  BY GatedFacts, SoundCounts
<1>3. history.passes \in Nat /\ history.passes <= state.loop_iterations[LoopCounter[g]]
  BY DEF PassInv
<1>4. state.loop_iterations[LoopCounter[g]] \in 0..Cap[LoopCounter[g]] /\ Cap[LoopCounter[g]] \in Nat
  BY <1>2, CountWithinCap
<1>5. PassCounts(Cap[LoopCounter[g]], state.loop_iterations[LoopCounter[g]],
                 state.loop_iterations[LoopCounter[g]], history.passes, history.passes)
  BY <1>3, <1>4, PassArithmetic
<1>6. step.effect = "agent" /\ state.phase = g =>
        state.loop_iterations[LoopCounter[g]] < Cap[LoopCounter[g]]
  BY DEF PassInv, AgentHasPass
<1> QED BY <1>1, <1>3, <1>5, <1>6 DEF PassCounts

=============================================================================
