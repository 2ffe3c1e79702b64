CONSTANTS
  Phases <- LinearPhases
  entry_phase = "work"
  terminal_phase = "done"
  failed_route = "failed"
  Role <- LinearRole
  OnSuccess <- LinearOnSuccess
  OnLoopback <- LinearOnLoopback
  WorkflowFallback <- LinearFallback
  LoopCounters <- LinearCounters
  Cap <- LinearCap
  LoopCounter <- LinearLoopCounter
  LoopResets <- LinearResets
  Decisions <- LinearDecisions
  Route <- LinearRoute
  Outcomes = {"completed"}
  Statuses <- LinearStatuses
  ResultOverride <- LinearResultOverride
  GateUpstream <- LinearGateUpstream
  AlwaysInvoke = {"failed"}
  ExecutionCycleCounter <- LinearCycleCounter
  ClosingCommits = {"publish"}
  Lifecycle = {}
  SkippedAdvances = {}
  PostCommitRoute <- LinearPostCommit
  CommitRecoveryPhase <- LinearRecoveryPhase
  cycle_timebox <- UnusedCycleTimebox
  development_timebox <- UnusedDevelopmentTimebox
  RequiresPlan = {"work"}
  ReportsResult = {"work"}
  GateMinimum = 1
  BudgetCap = 2
  cycle_cap = 4
  HasCycleTimebox = FALSE
  HasDevelopmentTimebox = FALSE
  FailureReasons = {"other"}
  FaultKinds = {"agent", "crash", "commit", "plan", "dispatch"}
  MaxFaults = 6
  LoopCap = 2
SPECIFICATION Spec
INVARIANTS
  CycleBudget
  FailedRouteRemembersPhase
  CommitHasMessage
  RecoveryEpochIsBounded
