--------------------------- MODULE DefaultPolicy ---------------------------
(***************************************************************************)
(* The bundled policy (ralph/policy/defaults/pipeline.toml) as values for  *)
(* the constants of PipelinePolicy.  Caps and durations are scaled down in *)
(* the models; the graph, the routes and the gates are the bundled ones.   *)
(***************************************************************************)
EXTENDS TLC

None == "none"

DefaultPhases ==
  {"planning", "planning_analysis", "development",
   "development_commit_cleanup", "development_commit",
   "development_analysis", "development_final_commit_cleanup",
   "development_final_commit", "complete", "failed_terminal"}

\* f with every phase outside its domain mapped to none.
Elsewhere(f) == f @@ [p \in DefaultPhases |-> None]

DefaultRole ==
  [p \in {"planning", "development"} |-> "execution"]
  @@ [p \in {"planning_analysis", "development_analysis"} |-> "analysis"]
  @@ [p \in {"development_commit_cleanup", "development_final_commit_cleanup"}
        |-> "commit_cleanup"]
  @@ [p \in {"development_commit", "development_final_commit"} |-> "commit"]
  @@ [p \in {"complete", "failed_terminal"} |-> "terminal"]

DefaultOnSuccess ==
  [planning |-> "planning_analysis",
   planning_analysis |-> "development",
   development |-> "development_commit_cleanup",
   development_commit_cleanup |-> "development_commit",
   development_commit |-> "development_analysis",
   development_analysis |-> "development_final_commit_cleanup",
   development_final_commit_cleanup |-> "development_final_commit",
   development_final_commit |-> "complete",
   complete |-> "complete",
   failed_terminal |-> "failed_terminal"]

DefaultOnLoopback ==
  Elsewhere(
    [planning_analysis |-> "planning",
     development |-> "development",
     development_commit_cleanup |-> "development_commit_cleanup",
     development_analysis |-> "development",
     development_final_commit_cleanup |-> "development_final_commit_cleanup",
     complete |-> "complete",
     failed_terminal |-> "failed_terminal"])

DefaultWorkflowFallback == Elsewhere([p \in {} |-> None])

DefaultLoopCounters ==
  {"planning_analysis_iteration", "development_analysis_iteration",
   "commit_cleanup_iteration", "commit_cleanup_identity"}

DefaultLoopCounter ==
  Elsewhere(
    [planning_analysis |-> "planning_analysis_iteration",
     development_analysis |-> "development_analysis_iteration",
     development_commit_cleanup |-> "commit_cleanup_iteration",
     development_final_commit_cleanup |-> "commit_cleanup_iteration"])

DefaultLoopResets ==
  [development_commit |-> {"commit_cleanup_iteration"},
   development_final_commit |->
     {"development_analysis_iteration", "commit_cleanup_iteration"}]
  @@ [p \in DefaultPhases |-> {}]

DefaultDecisions == {"completed", "request_changes", "failed"}

Undeclared == [target |-> None, reset_loop |-> FALSE, cycle_outcome |-> None]

BackTo(p) == [target |-> p, reset_loop |-> FALSE, cycle_outcome |-> None]

DefaultRoute ==
  [planning_analysis |->
     [completed |-> [target |-> "development", reset_loop |-> TRUE,
                     cycle_outcome |-> None],
      request_changes |-> BackTo("planning"),
      failed |-> BackTo("planning")],
   development_analysis |->
     [completed |-> [target |-> "development_final_commit_cleanup",
                     reset_loop |-> TRUE, cycle_outcome |-> "completed"],
      request_changes |-> BackTo("development"),
      failed |-> BackTo("development")]]
  @@ [p \in DefaultPhases |-> [d \in DefaultDecisions |-> Undeclared]]

DefaultOutcomes == {"completed", "failed"}

DefaultStatuses == {"completed", "partial", "failed"}

DefaultResultOverride ==
  [p \in DefaultPhases |-> [s \in DefaultStatuses |-> None]]

DefaultGateUpstream == Elsewhere([development_analysis |-> "development"])

DefaultAlwaysInvoke == {"partial", "failed"}

DefaultExecutionCycleCounter ==
  Elsewhere([planning |-> "planning_analysis_iteration",
             development |-> "development_analysis_iteration"])

FinalCommit == {"development_final_commit"}

DefaultPostCommitRoute ==
  [development_final_commit |->
     [remaining |-> [none |-> None, completed |-> "planning",
                     failed |-> "planning"],
      no_review |-> [none |-> None, completed |-> "complete",
                     failed |-> "failed_terminal"]]]

DefaultCommitRecoveryPhase ==
  [p \in DefaultPhases |->
     IF p = "development_commit_cleanup" THEN None
     ELSE "development_commit_cleanup"]

CycleTimebox(duration, outcome) ==
  [duration_seconds |-> duration,
   start_source |-> "planning_analysis", start_entry |-> "development",
   guarded_entry |-> "development",
   end_entry |-> "development_final_commit",
   finalization_target |-> "development_final_commit_cleanup",
   finalization_cycle_outcome |-> outcome]

DevelopmentTimebox(warning) ==
  [warning_seconds |-> warning,
   start_entry |-> "development", guarded_entry |-> "development",
   end_entry |-> "development_commit",
   finalization_target |-> "development_commit_cleanup"]

DefaultRequiresPlan ==
  {"planning_analysis", "development", "development_analysis"}

=============================================================================
