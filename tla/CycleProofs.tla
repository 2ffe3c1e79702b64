--------------------------- MODULE CycleProofs ----------------------------
(***************************************************************************)
(* A cycle as a whole: it leaves nothing behind, and its gated analysis    *)
(* runs no more passes than are paid for.  The phase a failure goes back   *)
(* to and the route pending in a phase (PipelineMoveProofs) are what the   *)
(* steps of the loops (LoopProofs) need of the rest of the run.            *)
(***************************************************************************)
EXTENDS PipelineMoveProofs, LoopProofs

\* Zenon is the prover of every leaf that names none.
USE ZenonT(60)

\* The loops stay within their phases, and the cycle timer has stopped where
\* a cycle is closed.
CleanInv(W, Span) ==
  OverrideInv(W) /\ LoopsInSpan(Span, state) /\ TimerEnds(state)

\* What they need of the route pending in a phase is kept beside them.
LEMMA CleanKept ==
  ASSUME NEW W, NEW Span, CleanShape(W, Span), CleanInv(W, Span), [Next]_vars
  PROVE  CleanInv(W, Span)' /\ NothingLeft
<1>1. /\ OverrideInv(W) /\ OverrideWay(W) /\ IInv /\ InFlight /\ OnItsWay(W, state)
      /\ LoopsInSpan(Span, state) /\ TimerEnds(state)
  BY DEF CleanInv, OverrideInv, CleanShape
<1>2. OverrideInv(W)'
  BY <1>1, OverrideStep
<1>3. OnItsWay(W, prepared)
  BY <1>1, PreparedOnWay
<1>4. LoopsInSpan(Span, state') /\ TimerEnds(state') /\ NothingLeft
  BY <1>1, <1>3, CleanStep
<1>5. (LoopsInSpan(Span, state) /\ TimerEnds(state))'
  BY <1>4 DEF LoopsInSpan, WithinSpan, StandsIn, TimerEnds
<1> QED BY <1>2, <1>4, <1>5 DEF CleanInv

\* The commit that closes a cycle leaves nothing of it for the next, under
\* every policy of that shape and through any mix of failures, retries,
\* redirects and re-entries before it (apply_commit_outcome,
\* _handle_commit_success, apply_analysis_loopback): no loop counter charged, no
\* verdict, no pending route, no running cycle timer.
THEOREM NextCycleClean ==
  ASSUME NEW W, NEW Span, CleanShape(W, Span)
  PROVE  Spec => NextCycleStartsClean
<1>1. Init => CleanInv(W, Span)
  BY CleanStart, OverrideInit DEF CleanInv
<1>2. CleanInv(W, Span) /\ [Next]_vars => CleanInv(W, Span)' /\ NothingLeft
  BY CleanKept
<1> QED BY <1>1, <1>2, PTL DEF Spec, NextCycleStartsClean, NothingLeft

-----------------------------------------------------------------------------
(***************************************************************************)
(* The passes of the gated analysis.                                       *)
(***************************************************************************)
\* The passes are paid for, and what that needs of the rest of the run.
GatedInv(g, L, W) == OverrideInv(W) /\ Remembers(state) /\ PassInv(g, L)

\* Every recorded step keeps them paid for.
LEMMA GatedKept ==
  ASSUME NEW g, NEW L, NEW W, GatedShape(g, L, W), GatedInv(g, L, W), [HNext]_hvars
  PROVE  GatedInv(g, L, W)'
<1>1. /\ OverrideInv(W) /\ Remembers(state) /\ PassInv(g, L)
      /\ IInv /\ InFlight /\ OnItsWay(W, state) /\ RecoverableShape /\ OverrideWay(W)
  BY DEF GatedInv, OverrideInv, GatedShape
<1>2. [Next]_vars
  BY <1>1, InvariantMeansSound, RecordedStep
<1>3. OverrideInv(W)'
  BY <1>1, <1>2, OverrideStep
<1>4. Remembers(state)'
  <2>1. RememberInv'
    BY <1>1, <1>2, RememberStep DEF RememberInv
  <2> QED BY <2>1 DEF RememberInv
<1>5. OnItsWay(W, prepared)
  BY <1>1, PreparedOnWay
<1>6. Dispatching /\ prepared.phase = failed_route =>
        prepared.previous_phase \in Phases \ TerminalStates
  BY <1>1, PreparedRemembers
<1>7. IInv' /\ OnItsWay(W, state')
  BY <1>3 DEF OverrideInv, OnItsWay
<1>8. Sound(state')
  BY <1>7, InvariantMeansSoundNext
<1>9. PassInv(g, L)'
  BY <1>1, <1>5, <1>6, <1>7, <1>8, PassInvKept
<1> QED BY <1>3, <1>4, <1>9 DEF GatedInv

\* The loop of a gated analysis runs no more passes than its cap declares,
\* apart from those entered on the charged flag of another loop, for every
\* policy of that shape and through any mix of failures, retries, redirects
\* and re-entries.  Gate, decision and failed execution each charge it
\* (charge_analysis_cycle_for_gate, apply_analysis_loopback,
\* apply_execution_cycle_outcome), and no pass runs unpaid.
THEOREM GatedPasses ==
  ASSUME NEW g, NEW L, NEW W, GatedShape(g, L, W)
  PROVE  HSpec => []GatedPassesWithinCap
<1>1. HInit => GatedInv(g, L, W)
  <2> SUFFICES ASSUME HInit PROVE GatedInv(g, L, W)
    OBVIOUS
  <2>1. Init /\ PassInv(g, L)
    BY PassStart
  <2>2. OverrideInv(W) /\ RememberInv
    BY <2>1, OverrideInit, RememberInit DEF GatedShape
  <2> QED BY <2>1, <2>2 DEF GatedInv, RememberInv
<1>2. GatedInv(g, L, W) /\ [HNext]_hvars => GatedInv(g, L, W)'
  BY GatedKept
<1>3. GatedInv(g, L, W) => GatedPassesWithinCap
  BY InvariantMeansSound, PassInvMeansCap DEF GatedInv, OverrideInv
<1> QED BY <1>1, <1>2, <1>3, PTL DEF HSpec

=============================================================================
