----------------------------- MODULE MCPipeline -----------------------------
(***************************************************************************)
(* PipelineRun over the bundled policy.                                    *)
(***************************************************************************)
EXTENDS PipelineProperties, DefaultPolicy, ExecutionCycleWalk

ASSUME WalkAssumption ==
  \A p \in Phases :
    ExecutionCycleCounter[p] = resolve_execution_cycle_loop_counter(p)

CONSTANTS LoopCap, Duration, Warning, FinalizationOutcome

MCCap == [c \in DefaultLoopCounters |-> LoopCap]

MCCycleTimebox == CycleTimebox(Duration, FinalizationOutcome)

MCDevelopmentTimebox == DevelopmentTimebox(Warning)

(***************************************************************************)
(* The bundled policy has the shapes the theorems of PipelineProofs,       *)
(* PipelineMoveProofs and CycleProofs ask for.                             *)
(***************************************************************************)
DevelopmentCommitWay ==
  {development_timebox.finalization_target, development_timebox.end_entry}

PlanningSpan ==
  [c \in LoopCounters |->
     IF c = "planning_analysis_iteration" THEN {"planning", "planning_analysis"} ELSE {}]

ASSUME DefaultShape ==
  /\ RecoverableShape
  /\ OverrideWay(DevelopmentCommitWay)
  /\ DevelopmentCommitWay \cap ClosingCommits = {}
  /\ BudgetShape
  /\ DeadlineShape
  /\ HasCycleTimebox => CleanShape(DevelopmentCommitWay, PlanningSpan)
  /\ GatedShape("development_analysis",
       {"planning", "planning_analysis", "development", "development_analysis"},
       DevelopmentCommitWay)

=============================================================================
