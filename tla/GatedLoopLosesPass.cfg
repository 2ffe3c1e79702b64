CONSTANTS
  Phases <- DefaultPhases
  entry_phase = "planning"
  terminal_phase = "complete"
  failed_route = "failed_terminal"
  Role <- DefaultRole
  OnSuccess <- DefaultOnSuccess
  OnLoopback <- DefaultOnLoopback
  WorkflowFallback <- DefaultWorkflowFallback
  LoopCounters <- DefaultLoopCounters
  Cap <- MCCap
  LoopCounter <- DefaultLoopCounter
  LoopResets <- DefaultLoopResets
  Decisions <- DefaultDecisions
  Route <- DefaultRoute
  Outcomes <- DefaultOutcomes
  Statuses <- DefaultStatuses
  ResultOverride <- DefaultResultOverride
  GateUpstream <- DefaultGateUpstream
  AlwaysInvoke <- DefaultAlwaysInvoke
  ExecutionCycleCounter <- DefaultExecutionCycleCounter
  ClosingCommits <- FinalCommit
  Lifecycle <- FinalCommit
  SkippedAdvances <- FinalCommit
  PostCommitRoute <- DefaultPostCommitRoute
  CommitRecoveryPhase <- DefaultCommitRecoveryPhase
  cycle_timebox <- MCCycleTimebox
  development_timebox <- MCDevelopmentTimebox
  RequiresPlan <- DefaultRequiresPlan
  ReportsResult = {"development"}
  GateMinimum = 1
  BudgetCap = 1
  cycle_cap = 2
  HasCycleTimebox = TRUE
  HasDevelopmentTimebox = TRUE
  FailureReasons = {"other"}
  FaultKinds = {}
  MaxFaults = 0
  LoopCap = 2
  Duration = 3
  Warning = 2
  FinalizationOutcome = "completed"
SPECIFICATION HSpec
INVARIANTS
  GatedLoopRunsEveryPass
