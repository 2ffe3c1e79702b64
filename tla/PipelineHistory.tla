-------------------------- MODULE PipelineHistory --------------------------
(***************************************************************************)
(* A run with a record of what happened in it, for the promises that speak *)
(* of several steps.  The record is only read by the properties.           *)
(***************************************************************************)
EXTENDS PipelineProperties

VARIABLE history

hvars == <<vars, history>>

Histories ==
  [passes : Nat,            \* decisions of the gated analysis in this loop
   charged_loop : OrNone(LoopCounters)] \* whose pass the charged flag is about

HInit ==
  /\ Init
  /\ history = [passes |-> 0, charged_loop |-> NONE]

(***************************************************************************)
(* A loop of the gated analysis ends where the run goes on beyond it, or   *)
(* closes the cycle.                                                       *)
(***************************************************************************)
LoopEnds ==
  \/ state'.iteration # state.iteration
  \/ \E p \in Phases : Gated(p) /\ state'.phase \in Beyond(p)

EntersThroughGate ==
  /\ Role[state.phase] = "commit"
  /\ state.post_commit_phase_override = NONE
  /\ Gated(state'.phase)

(***************************************************************************)
(* execution_cycle_charged is one flag for all loops.  The gate sets it    *)
(* for the loop it admits, a failed execution for its own; an execution    *)
(* phase is only ever in a state with the flag set after its own failure.  *)
(***************************************************************************)
ChargedLoop ==
  IF ~state'.execution_cycle_charged
  THEN NONE
  ELSE IF EntersThroughGate
       THEN LoopCounter[state'.phase]
       ELSE IF ExecutionCycleCounter[state.phase] # NONE
            THEN ExecutionCycleCounter[state.phase]
            ELSE history.charged_loop

FlagOfAnotherLoop ==
  state.execution_cycle_charged /\ history.charged_loop # LoopCounter[state.phase]

Recording(pass) ==
  history' =
    [passes |-> IF LoopEnds THEN 0 ELSE history.passes + pass,
     charged_loop |-> ChargedLoop]

One(condition) == IF condition THEN 1 ELSE 0

HNext ==
  \/ /\ AnalysisDecides
     /\ Recording(One(Gated(state.phase) /\ ~FlagOfAnotherLoop))
  \/ /\ \/ Tick \/ Finishes \/ StopsAtFailedRoute \/ LedgerStops
        \/ ReenterFailedPhase \/ PlanMissingOnReentry \/ AdvanceExhausted
        \/ EmptyCommit \/ NoAgentToInvoke \/ WorktreeUnreadable
        \/ InvokeAgent \/ PlanMissing \/ StartCommit
        \/ AgentSucceeds \/ ExecutionReports \/ CleanupLoopsBack
        \/ AgentSkipsCommit \/ CommitSucceeds \/ CommitSkipped
        \/ CommitResidual \/ CommitFails \/ CommitWithoutMessage
        \/ PhaseFails \/ StepCrashes \/ AgentFails
     /\ Recording(0)
  \/ Ended /\ UNCHANGED history

HSpec == HInit /\ [][HNext]_hvars

-----------------------------------------------------------------------------
(***************************************************************************)
(* A gated analysis loop runs no more passes than its cap declares,        *)
(* although the gate, the decisions and failed executions all charge it:   *)
(* its agent runs only while fewer have been decided, so that the pass the *)
(* loop ends with is within the cap as well.                               *)
(* A pass entered with the charged flag of another loop is not counted:    *)
(* count_decision takes that flag for its own and the pass is free.        *)
(***************************************************************************)
GatedPassesWithinCap ==
  \A p \in Phases :
    Gated(p) /\ LoopCounter[p] # NONE =>
      /\ history.passes <= Cap[LoopCounter[p]]
      /\ step.effect = "agent" /\ state.phase = p =>
           history.passes < Cap[LoopCounter[p]]

(***************************************************************************)
(* And it runs every pass its cap declares before the loop is called       *)
(* exhausted: tests/test_gated_analysis_loop_budget.py states this.        *)
(***************************************************************************)
GatedLoopRunsEveryPass ==
  AtLoopHead /\ Gated(state.phase) /\ exhausted_analysis(state)
    => history.passes = Cap[LoopCounter[state.phase]]

=============================================================================
