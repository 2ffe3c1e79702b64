# Ralph Workflow in TLA+

Ralph Workflow drives coding agents through a policy-declared graph of phases:
plan, analyse the plan, develop, commit, analyse the development, commit the
cycle, plan again. A run lasts hours; agents fail, time out, run out of quota
and leave half-written artifacts; git fails; the process is killed. What the
run does then is decided by a reducer, an effect router, a recovery controller
and a dozen counters that are charged, reset and compared in different files.
Around that core several processes and threads share a repository: git commands
and the locks they leave, a lease on the worktree, parallel workers, background
commands of the tool server, and a checkpoint that must survive them all. This
project models the decision-making and these protocols, model-checks them and
proves their invariants for every policy, chain, plan and number of processes.

Paths below are relative to `ralph-workflow/ralph/`; `tests/`, `docs/` and
`CONTRIBUTING.md` are those of `ralph-workflow/`.

## 1. Inventory

| Part | State | Operations | Where |
|---|---|---|---|
| Pipeline policy | phase graph, roles, decisions, caps, gates, budget, timeboxes | compiled once per run | `policy/models/`, `policy/defaults/pipeline.toml` |
| Progress | loop counters, outer progress, charged flag, phase timings | advance, charge, reset, close a cycle | `pipeline/progress.py`, `pipeline/state.py` |
| Handoffs | none | bypass exhausted phases, post-commit routes | `pipeline/handoffs.py` |
| Timeboxes | cycle timer, development timer, pending post-commit route | start, redirect, conclude | `pipeline/cycle_timing.py` |
| Reducer | the `PipelineState` | one handler per event | `pipeline/reducer.py`, `pipeline/loopback.py` |
| Run loop, step, effect router | state, effect in flight, clock samples, message file | loop condition, dispatch, re-entry, execution, crash recovery | `pipeline/run_loop.py`, `runner.py`, `effect_router.py`, `_runner_state_helpers.py`, `commit_executor.py` |
| Phase handlers | artifacts on disk | turn an agent's artifact into an event | `phases/` |
| Failure ledger | per phase and agent: streak, total, cooldown, spent | record, expire, status | `recovery/agent_failure_ledger.py` |
| Unavailability tracker | per phase and agent: deadline, backoff attempts | mark, reset, prune | `recovery/agent_unavailability_tracker.py` |
| Recovery controller | spent allowances, cycle count, epoch | classify, retry, fall over, wait, fail the phase | `recovery/controller.py` |
| Checkpoint | the saved states | save, load, resume | `pipeline/checkpoint.py`, `cli/commands/run.py` |
| Parallel fan-out | wave, worker states | schedule, dispatch, complete, fail, verify, resume | `pipeline/fan_out.py`, `pipeline/parallel/`, `pipeline/_fan_out_authority.py` |
| Worktree lease | lock file, flock, holder record | acquire, release, probe, reclaim | `git/_git_command_queue_lease.py`, `git/_worktree_lease.py` |
| Git queue and lock recovery | queue lock, git's lock files, reap mutex | route, reap, wait, repeat | `git/git_command_queue.py`, `git/_lock_recovery.py`, `git/_run_git_lock_recovery.py` |
| Exec job registry | running jobs, finished results, threads | start, wait, cancel, watch, sample, shut down | `mcp/tools/_exec_jobs.py`, `mcp/tools/_exec_job_tools.py` |
| Auto-integration | rebase and push records | rebase, resolve, push, retry | `pipeline/auto_integrate*.py` |
| Idle watchdog | activity evidence, deadlines | observe, judge, fire | `agents/idle_watchdog/` |
| Process manager, the rest of the MCP server and of git, prompts, CLI, display, configuration | | I/O around the above | `process/`, `mcp/`, `git/`, ... |

How they interact: the run loop checks its condition, samples the clocks and
asks the effect router for the next effect of `state.phase`; the step executes
it (an agent, a git commit, or pure routing), turns the outcome into an event
and passes it to the reducer together with the resampled clocks; the reducer
routes through the timeboxes and the exhausted-phase bypass; failures go to the
recovery controller, which consults ledger and tracker. The failed route is not
the end: the loop re-enters the phase that failed until recovery is exhausted.

The hard behaviours: one counter charged from three places; two timers that
start, redirect and stop on different edges; a recovery counter reset by the
transitions of the recovery it bounds; a message file and a flag that must
agree; availability that is checked at selection and used much later; two
sources of unavailability that are asked separately; a lease and a lock reaper
built from system calls that other processes interleave; results that arrive
while workers are cancelled; four threads that end the same job. `PROJECT.json`
lists the hazards with their lines and the properties aimed at them.

## 2. Modules

```
PipelinePolicy              constants and assumptions: any compiled policy
  Progress                  PipelineState and its bookkeeping
    Handoffs                bypass and post-commit routes
      CycleTiming           the two timeboxes
        PipelineReducer     the event handlers
          PipelineRun       run loop, step, effect router: the state machine
            PolicyShapes    what the graph must look like for some theorems
              PipelineProperties
                PipelineHistory       a run with a record of its past
                PipelineProofs        TLAPS: types, caps, deadlines
                  PipelineMoveProofs  TLAPS: which moves a step makes; routes, budget
                  CountProofs         TLAPS: what a step does to counters and timers
                    LoopProofs        TLAPS: how a gated loop's passes are paid for
                      CycleProofs     TLAPS: with PipelineMoveProofs, whole cycles
DefaultPolicy, LinearPolicy     values for the constants
ExecutionCycleWalk              the recursive walk, checked against the constant
MCPipeline, MCHistory, MCLinear models for TLC

AgentHealth                 ledger, tracker, selection
  RecoveryController        one phase's chain: retry, fallover, wait, re-entry
    ControllerProperties
WorkBoard                   what a parallel phase promises of its record
FanOut                      coordinator, wave and checkpoint; implements WorkBoard
  MCFanOut                  model for TLC
WorkerProofs                TLAPS: ControllerProperties and FanOut

WorktreeLease               the lease file, one system call at a time
ExecJobs                    the job registry and its threads
ProcessProofs               TLAPS: WorktreeLease and ExecJobs

GitLock                     queue, reaper and retry around git's lock files
  MCGitLock                 model for TLC
  GitLockProofs             TLAPS
Checkpoint                  who saves where, and what a resumed run loads
```

**PipelinePolicy** declares the policy as constants. The assumptions are what
the code's validators and lookups need: names resolve, a commit's recovery
phase is another phase, closing commits are commit phases, and no more than two
looping phases follow each other on success (`BypassDepthAssumption`; the
bundled graph has exactly such a pair), which lets the bypass loop be written
as two turns. The policy tracks one budget counter.

**Progress, Handoffs, CycleTiming, PipelineReducer** are pure: an operator per
function of the source, under the function's name, from state to state.
`PipelineState` is reduced to the fields routing reads. An error text is one of
three kinds, the ones routing distinguishes (repairable git failure, one that
names a lock file, anything else). Seconds are abstract units and each clock
saturates at the bound it is compared with.

**PipelineRun** is the state machine. Its variables are the pipeline `state`,
the effect in flight with its phase timer (`step`), whether a commit message is
on disk (`message_file`), how the loop ended (`exit`) and the number of faults
so far. A step that runs an agent or git is two actions, dispatch and result,
so that time passes and failures strike between them; purely routing effects
are one. Actions and code:

| Action | Code |
|---|---|
| `Finishes`, `StopsAtFailedRoute`, `LedgerStops` | the `while` of `_run_inner_loop_after_startup`, `_ledger_requires_intervention`, `_cycle_cap_exhausted` |
| `ReenterFailedPhase`, `PlanMissingOnReentry` | `_recovery_prepare_effect`, the PreparePrompt branch of `_handle_inline_effect` |
| `AdvanceExhausted` | `_current_analysis_phase_advance_effect` |
| `EmptyCommit`, `WorktreeUnreadable` | `_commit_phase_effect`, `_empty_commit_effect` |
| `InvokeAgent`, `NoAgentToInvoke`, `PlanMissing` | `_run_pipeline_step`, `_prepare_step_timeboxes`, `recover_missing_plan_handoff` |
| `StartCommit`, `Commit...` | `execute_commit_effect` and the commit handlers of the reducer |
| `AgentSucceeds`, `ExecutionReports`, `AnalysisDecides`, `CleanupLoopsBack`, `AgentSkipsCommit` | the phase handlers' events and their reducer handlers |
| `PhaseFails`, `AgentFails`, `StepCrashes` | `_reduce_phase_failure`, `_handle_agent_failure`, the crash branch of `_run_pipeline_step` |
| `Tick` | clock sampling and folding |

In PipelineRun the recovery controller's verdict is a free choice between going
on in the phase and failing it; RecoveryController models how that verdict
comes about. The two overlap at the failed route: `LedgerStops` is the ledger's
part of the loop condition, a free choice there and computed in
RecoveryController.

**PolicyShapes** says what a phase graph must look like for the properties that
depend on it (section 4). Policy validation asks for only part of it, so these
are hypotheses of theorems, not assumptions of the model; `MCPipeline` and
`MCLinear` have TLC evaluate them for the two policies.

**PipelineHistory** adds a record (analysis passes in this loop, the loop the
charged flag was set for) for the promises that speak
of several steps. It restricts nothing: every step of `Next` is a step of `HNext`.

**AgentHealth and RecoveryController** model the chain of one phase. Agents are
their positions in the chain; a deadline is the time left, and stays at zero,
elapsed but not cleared, until the code next looks. Every way an invocation can
end is an action: the three classes of failures the controller judges, the
failures the reducer applies itself, attempts charged inside one invocation,
and success. `Tick` lets time pass between any two of them.

**WorktreeLease** has one action per system call of `_acquire_lock_file`,
`release`, `_discard_created_lock_file`, `reclaim_dead_lease` and
`_takeover_lock_file`. The path names an inode; descriptors, locks and payloads
belong to inodes, as in the kernel, and a process is its own pid. A liveness
probe may answer what the signals it combines allow: an open descriptor of the
file is proof of life, any answer may be cut short to "unknown". The history
variable `overtaken` records that a takeover has locked a file before its
creator did, the one interleaving the protocol does not survive. A call of
`is_lease_held` is two actions, the read of the holder record and the probe;
the model follows the calls that found the lease held when they began and drops
one when the lease is given up during it, the others promise nothing.

**GitLock** follows a routed git call from the queue lock through the pre-flight
reaper, the spawn, the failure that names a lock, the reaper again, the bounded
wait and the single repetition. Each step between two system calls is an
action. Foreign gits start, end and die at any time, and nobody makes them end.
A push that cannot move its tracking ref has published and reports success
(`_failure_text`), which is why a call can have taken effect although a lock
stopped it. The history variable `unsure` records the two points at which a
lock may vanish under a reaper that does not look again.

**FanOut** is one parallel phase of one run and its restarts. `IsNextWave` states
the greedy choice of `schedule_next_wave` as a condition that exactly one set of
units meets, `IsBlocked` the transitive failure of dependants the same way.
Events are reduced after the wave, as in the code, so `outcome` collects them.
The checkpoint is the file `--resume` loads: fan-out, unlike the run loop,
saves there. A save may fail, which the code logs and passes over; the run goes
on with a checkpoint that is behind it. A process may crash at any point, or be
interrupted at the command line, which saves the state the run began with
(`resumed`). `Init` also stands for a new run that comes to the phase with no
worker states. **WorkBoard** is the abstract specification; `Recorded` maps the
checkpoint to it.

**ExecJobs** has an action per critical section of the registry's lock and per
step between them: registering, spawning and attaching a job are three, ending
one is a verdict, a termination and a publication. A kill may fail, which
`_kill_job` suppresses; a result may fail to build, because its output cannot
be written out, and then nothing is published. The reasons for which the
runner kills (abandonment, ceiling, stall, no progress) are one free choice;
what the agent is told is `answer`: an exit, a cancellation or a kill, as
`exec`, `exec_wait` and `exec_cancel` each word it.

**Checkpoint** keeps of the pipeline state the number of steps that led to it,
and of every save its path, its staging file and its replace.

## 3. What the runs check

Passing runs:

| Run | Shows |
|---|---|
| `default` | the bundled policy, two cycles, two faults of any kind at any point, both timers: type correctness, loop counters within caps, cycle budget, the failed route knows its phase, a pending post-commit route belongs to its commit, no development on a spent clock, each cycle starts clean; with fairness, the run ends once failures stop |
| `gated_passes` | with four faults and the development timer, the gated analysis decides no more often in one loop than its cap, apart from passes entered on the charged flag of another loop (below) |
| `linear` | up to six faults on a custom policy with what the bundled one does not use: no cleanup phase, a plain commit policy, a workflow fallback, a status-specific post-commit route, undeclared decisions, and an entry phase that needs a plan; there a commit is always executed with its message, and failures in a row, missing plans among them, are counted to an end, at most one past the larger of `cycle_cap` and the bound of the run loop |
| `controller` | two agents: demotion is earned, recovery is bounded, a running agent is eligible, a spent agent stays spent; with fairness, a phase that keeps failing is given up |
| `worktree_lease` | three processes that crash and fail anywhere beside one that asks: unless a creator was overtaken, at most one holds the lease and a call that found it held throughout is not answered "free"; the lease of a dead process is reclaimed |
| `git_lock` | a repeatable command and a push beside a foreign git: the lock of a running git stays at the path unless a lock vanished where a reaper does not look again; an answer matches the effect; every call returns, whatever the foreign git does |
| `fan_out` | six units, two workers, four faults of any kind: disjoint scopes, worker cap, dependencies first, no wave that stands still, integration only of complete and verified work, the checkpoint implements WorkBoard through failed saves, crashes and interrupts, the phase is left |
| `exec_jobs` | two jobs, one slot, a FIFO of one: with kills, spawns and results that fail, processes within the cap, none without a running job, results findable until displaced, an exit is an exit, one verdict per job, a hung command gives its slot back |

Each property of a passing run has a mutant: an operator with a plausible
defect (a dropped reset, an off-by-one, a stale value) that the property
catches under the same configuration. They stand before the definition they
change, marked `Mutant`.

Violation runs, each against a sentence of the repository (quoted in
`PROJECT.json`, "findings"):

| Run | What the code does |
|---|---|
| `gated_loop_loses_pass` | the last declared analysis pass is charged on entry and then skipped by the effect router |
| `lease_two_holders` | a takeover locks a new lease file before its creator does; the creator, refused the lock, unlinks the file, and a third process acquires the lease beside the second |
| `live_lock_deleted` | a stale lock vanishes before its identity is taken; None matches None at the re-check, the rename moves the lock of a git that has just started, and the link back fails because the path is taken again |
| `resume_misses_checkpoint` | the run loop saves `checkpoint.json` in the workspace root, `--resume` loads `.agent/checkpoint.json` |

Some passing properties have an exception that the code makes necessary:

* `GatedPassesWithinCap` does not count a pass entered on the charged flag of
  another loop. `execution_cycle_charged` is one flag for all loops. After a
  missing plan the development timer runs on into planning; a failed planning
  step sets the flag, the timer expires, development (whose entry would clear
  the flag) is skipped, and the development analysis takes the flag for its own
  charge. Each time this happens one pass beyond the cap can run. TLC finds it
  with two faults once every pass is counted.
* `FailedRouteRemembersPhase` speaks of a failed route the loop goes on from,
  and the runs take `recovery.cycle_cap >= 2`. A plan missing on re-entry at the
  cycle cap leads from the failed route to itself. For `cycle_cap = 1`, which
  the policy model admits, the loop goes on from there and starts over at the
  entry phase; the bundled policy says 200.
* `Exclusive` and `FreeMeansNoHolder` hold up to the interleaving of
  `lease_two_holders`, `OneGitAtATime` up to those of `live_lock_deleted`: the
  history variables make the exception exactly that wide.
* `FreeMeansNoHolder` speaks of a call during all of which the lease was held.
  "Free" promises no more: a process that reclaims the lease of a dead one
  between the read and the probe, or takes it after the probe, goes unseen.
* `NoStray` and `LiveWithinCap` except two kinds of process: one that survived a
  failed kill, whose slot is given back all the same, and that of a job which
  `shutdown_all` ended before `start` had stored the handle: nobody watches the
  process spawned afterwards.
* `VerdictStands` lets replies about a cancelled job differ between "exit" and
  "cancelled". `exec` never says "cancelled", `exec_cancel` always does, and
  `exec_wait` does unless the result was built before the cancel
  (`tests/test_exec_job_integration.py:816` tests it in the usual order). "Killed" and not killed never mix.
* `SlotIsFreed` excepts a job whose result could not be built: `_settle_job`
  raises before it publishes, the slot stays taken, and a shutdown hook that
  meets it stops there.
* `ImplementsBoard` has one way back: an interrupt that reaches the command line
  (`cli/commands/run.py:552`, `:570`) saves the state the run was resumed from
  over a newer one of fan-out. WorkBoard allows exactly that (`Interrupt`): back to
  the record this process began with, never to anything older.
* `PhaseIsLeft` is about the phase in memory. When the save after the last wave
  fails (`pipeline/fan_out.py:141`), the checkpoint stays behind, and a later
  `--resume` runs the units it lacks again.

`SpentIsForGood` takes one side where the repository has two. The ledger calls
an agent over its limit "permanently spent" (`recovery/agent_failure_ledger.py:5`,
`docs/agents/broken-agent-detection.md:60`); the controller's comments, the
contribution guide and a test speak of recoverable agents only
(`recovery/controller.py:105`, `CONTRIBUTING.md:425` and `:485`,
`tests/recovery/test_two_state_invariant.py:21`). The code does what the ledger
says: nothing in a behaviour of the model runs a spent agent again.

### Observations outside the runs

The models have these behaviours too; no run is kept for them.

* With `finalization_cycle_outcome = "failed"` a spent budget routes to the
  failure terminal, which is also the failed route: the loop re-enters the
  closing commit and the run can end in success (`run_loop.py:4038`, against the
  comment at `policy/defaults/pipeline.toml:75`).
* Missing-plan recovery concludes the cycle only if its target is
  `cycle_timebox.end_entry`, which the entry phase of the bundled policy is not:
  the timer runs on while the run re-plans (`_runner_state_helpers.py:136`).
* Under the bundled policy `agent_invoked` can outlive the message file across a
  cleanup, and a commit is executed without a message (`reducer.py:2182`). The
  commit fails and is recovered; `linear` shows that it takes a cleanup phase.
* With one agent on a ledger cooldown and the other out in the tracker neither
  source reports a wait, and the phase fails although both would be back
  (`controller.py:1475`, against `:13`).
* When a worker fails, units whose result is queued fail with it and are run
  again, as are the units of a wave that crashed (`fan_out.py:519`). A failing
  wave is fanned out again without a bound of its own. A crash between the
  checkpoint of a successful wave and its verification skips verification and
  integration. Two branches of the fan-out are unreachable, which `NeverStuck`
  states: breaking out with pending units, and resuming with none left.
* A waiting agent may be told the end of a job before the process is terminated
  and the result published; `exec` renders a cancelled job as an exit with code
  0; cancelling a job that is already ending answers "cancelled".
* A lock that crosses the age floor between the reaper and the check whether its
  holder is worth waiting for makes the retry give up at once.
* A cleanup that loops back between two failures of a commit resets its recovery
  budget; planning that ends normally without a plan resets the bound on
  missing-plan recovery; recovery of the final commit can lead back to
  development with the cycle timer stopped; a cycle redirect leaves the
  development timer running into the next planning; a lingering failed status
  stops the run at its next failure; a wait can end with no agent to run; the
  cooldown of a sole agent stops the run; a phase the reducer fails keeps the
  allowances spent in its round.

### Bounds

* `MaxFaults` bounds the failures in a behaviour, `FaultKinds` selects their
  kinds. Two faults of any kind let a failure strike during the recovery of
  another. Questions that need longer chains of failures have more:
  `gated_passes` and `fan_out` four, `linear` six, against a bound of five in
  `RecoveryEpochIsBounded`. `default` was also run once, for safety, with
  `MaxFaults` 3 (1,058,771 states), and with `MaxFaults` 4, `BudgetCap` 1,
  `cycle_cap` 6, `Duration` 2 and `Warning` 1 (819,237 states), without error;
  these take too long to keep.
* `LoopCap` is 2: one pass below the cap and one at it.
* `BudgetCap` is 2 in `default` and `linear`, so that a cycle follows a closed
  one; the single-question runs use 1.
* `cycle_cap` is 2, so that it takes effect before the epoch bound of 3; 6 in
  `gated_passes`, so that it does not, as with the 200 of the bundled policy;
  and 4 in `linear`, so that the counter passes the epoch bound through missing
  plans, which are counted against `cycle_cap` alone.
* `Duration` 3 and `Warning` 2 (1 in `gated_passes`) let each timer expire before, after and together
  with the other; `GateMinimum` 1 lets the gate admit and deny.
* Chains have two agents, limits of 2 and 3,
  backoffs of 1 and 2, so that a cooldown can be entered, expire, grow and end
  in a spent agent. `MaxVisits` bounds how often the run returns to the phase.
* Three processes are what two holders beside a discarding creator take; two
  inodes let the path name a new file while an old one is still open. A crashed
  process stays dead, so a behaviour has at most three crashes.
* Two calls in one Ralph process contend for the queue, the mutex and the lock;
  the two file identities are those of a probed lock and its successor.
  `StaleAge` 1 and `Patience` 2 give a fresh, a stale and a too patient wait.
  With three files the safety part was run once (1,150,816 states, no error).
* The six units of `fan_out` contain a chain, a unit with two dependencies and
  two pairs of conflicting scopes; up to three could run, on two workers.
* Two jobs for one slot and one kept result make the cap and the FIFO bind.
  `Troubled` is one of the two: it may be cancelled, survive a kill or have a
  result that cannot be built, beside a job to which none of this happens; the
  proofs put no such bound.
* The models of the pipeline and the controller are checked for deadlock; a run
  that ended stutters there. In the others the system really may stop: all
  processes have crashed, all calls have returned, the phase has been left, the
  jobs are over.

### Fairness

`PipelineRun!FairSpec` asks that a running loop keeps taking steps: the loop is
a plain `while`, agent invocations are ended by the idle watchdog and the
session ceiling, git commands by subprocess timeouts. It does not ask that an
agent succeeds, that analysis is content or that time passes. It is weak
fairness of `Proceed` written with `exit = "running"` in place of
`ENABLED Proceed`, which is equivalent because a running loop always has a
step. `RecoveryController!FairSpec` adds that time passes, which a cooldown
needs. In WorktreeLease a live process takes its next system call and rewriting
the file does not fail for ever; the catch-up ticker of the code asks for the
lease on every tick. In GitLock Ralph's threads run and its gits end, at the
latest at their subprocess timeout; nothing is asked of foreign gits. In FanOut
the coordinator runs, workers end (their executor has a timeout), and a crashed
run is started again. In ExecJobs the threads of the server run and the runner
decides at last, since every job has a ceiling; commands need not end and agents
need not ask. Failures stop because `MaxFaults` is finite; without that the pipeline
promises no end, nor does it claim one.

## 4. What is proved

TLAPS checks these for all values of the constants that meet the named
assumptions, that is, for every policy, chain, limit, number of faults and
clock bound:

* `PipelineProofs!TypeCorrect`, `CapsHold`: the state is always well formed and
  no loop counter passes its cap. The invariant is the conjunction of the two,
  since a counter read from an ill-formed state says nothing. The argument
  follows the code: `Sound` is preserved by each bookkeeping function, hence by
  the timeboxes and the bypass, hence by every advance, hence by every handler
  (one lemma each), and finally by each action. Every charge goes through
  `next_completed`; the delicate one is `apply_execution_cycle_outcome`, which
  reads the counter of one state and writes it to another.
* `PipelineMoveProofs!FailedRouteRemembered`, `RecoveryEpochBounded`,
  `CommitMessageReady`. The module first reduces every step to a few moves: of
  the state only the phase, the phase before, the recovery counter, the message
  flag, the cycles closed, the verdict and the pending route matter (`Memory`),
  and each handler moves towards a named target and lands on it, on the target
  of a deadline or behind an exhausted phase (`Moves`, `LandsAt`), enters the
  failed route (`Fails`), retries or closes a commit. There is a lemma per
  handler and one that says what every step of `Next` is (`StepKinds`). On top
  of it each theorem needs a short invariant. For the failed route it is that
  whatever is in flight runs outside the terminals and that below the bound of
  the run loop the failed route was reached from a phase that is no terminal. For the
  epoch it is that outside the failed route the counter is at most the larger of
  `cycle_cap` and `MAX_RECOVERY_EPOCHS`. For the message it is that in a commit
  phase the flag `agent_invoked` implies the file.
* `PipelineMoveProofs!OverrideForItsCommit`, `BudgetKept`, on the same moves.
  A pending route exists only within a set of phases that no route leads out of
  before a commit uses it up. The budget needs that first: a commit that closes
  a cycle never has a route pending, so the budget and the verdict alone decide
  where it leads, and a run is either under way with a cycle left or over with
  all of them closed.
* `PipelineProofs!DeadlinesGuard`, an action property. During a step the
  clocks are what they were sampled at or zero (`Sampled`). Each deadline admits
  the phase it leads to, both in a row do, and passing over exhausted phases
  does not undo it, because the deadlines are asked again, except when the cycle
  has just been started and its clock is zero. Hence every advance, every
  re-entry and the redirect before a dispatch arrive where work may start, and
  everything else stays in place.
* `CycleProofs!NextCycleClean`, an action property. CountProofs reduces every
  step to what it does to the loop counters, the charged flag, the pending route
  and the timers (`CountKinds`, the counterpart of `StepKinds`). A counter the
  closing commit does not reset is charged only in phases that lead only to each
  other until they reset it (`LoopsInSpan`); the cycle timer has stopped where a
  cycle is closed (`TimerEnds`); and no route is pending there, which comes from
  PipelineMoveProofs.
* `CycleProofs!GatedPasses`, over the recorded history. A pass of the gated
  analysis is paid for on entry or by failed work before it; the invariant of
  LoopProofs says, phase by phase, that the decisions taken and the pass under
  way do not exceed what has been charged, unless the pass was entered on the flag
  of another loop, which the record tells.
* `WorkerProofs!TypeCorrect`, `DemotionEarned`, `RunningEligible`,
  `RecoveryBounded`, `SpentStays`. The invariant strengthens the four safety
  properties with what ties them together: at a dispatch, a wait or a run both
  counts are still below their bounds, because every path back from the failed
  route has passed the intervention test, and a running agent is eligible, so
  that the record of its success never forgives a spent agent. `Least`, on
  which selection and waits rest, is shown to be the minimum by
  well-foundedness of the naturals.

* `ProcessProofs!LeaseExclusive`, `LeaseFreeMeansNoHolder`, for any number
  of processes and inodes. The invariant says what each process has at each of
  its steps: a descriptor is open exactly between open and close, and a process
  that stamps, verifies, holds or truncates has the flock of its inode. As long
  as no creator was overtaken, a process that stamps, holds or discards has the
  inode at the path, a creator before its flock is alone with a file nobody has
  locked, and the file of a holder names it. Two holders would then have the
  flock of the same inode. A call of `is_lease_held` that found the lease held
  has read the pid of the holder, and since the lease is not given up before its
  probe, the holder is the same and alive.
* `GitLockProofs!LockTypeCorrect`, `LockExclusive`, `LockAnswers`, for any number of calls, Ralph
  processes, gits and files. A running git holds the file at the path; a reaper
  past its probe has examined a file nobody holds, and identities are not
  reused; the mutex makes the rename move the file of the re-check. A call that
  is repeated had no effect before, and one that had is never repeated.
* `WorkerProofs!FanOutTypeCorrect`, `FanOutDependencies`, `FanOutDisjoint`,
  `FanOutCap`, `FanOutIntegrated`, `FanOutNeverStuck`, `FanOutImplementsBoard`,
  for every plan, worker cap and number of faults. The invariant ties the coordinator
  to the history of delivered units and makes every recorded set closed under
  dependencies: in memory, in the checkpoint and in the one the process began
  with. The refinement maps each save that succeeds to a step of WorkBoard, a
  restart and an interrupt to their own, and everything else, failed saves
  included, to a stutter; it needs that a wave only adds to what was recorded
  before it, also when the checkpoint is behind. The cap needs an argument
  of its own: the scheduler only counts the units it selected before a unit, so
  the last unit selected, which exists because those counts are bounded, gives
  the size of the whole selection. That a wave never stands still rests on the
  guard of the effect router, which fans out only when `dispatchable_work_units`
  keeps every unit (`Dispatched`): then a set of unfinished units has one whose
  dependencies are finished, and the scheduler selects it.
* `ProcessProofs!JobsNoStray`, `JobsWithinCap`, `JobsFindable`,
  `JobsExitIsReal`, `JobsVerdictStands`, for any number of jobs and any limits.
  The invariant relates how far the settlement of a job is to the registry, to
  its process, to what its result says and to what was answered; the cap follows
  because live processes, the two exceptions aside, are a subset of the running
  jobs. It makes no assumption on kills or on results that fail.

Some theorems about the pipeline hold for policies of a certain shape. The
shapes are defined in PolicyShapes and are the hypotheses of these theorems:

| Theorem | Hypothesis | Asked for by policy validation |
|---|---|---|
| `RecoveryEpochBounded` | none | |
| `FailedRouteRemembered` | `RecoverableShape`: the entry and the guarded phases are no terminals, `cycle_cap` is at least 2 | partly; `cycle_cap = 1` is accepted, and there the property fails (section 3) |
| `CommitMessageReady` | `NoCleanupShape`: no cleanup phase | no; the bundled policy has one, and there the property fails (section 3) |
| `OverrideForItsCommit` | `OverrideWay`: from where the route is set, only cleanup and commit phases follow until a commit uses it | no |
| `BudgetKept` | `OverrideWay` for phases that close no cycle, `BudgetShape`: only a commit that closes a cycle leads to a success terminal, and does so exactly when the budget is spent, whatever the verdict | no; `finalization_cycle_outcome = "failed"` breaks it (section 3) |
| `DeadlinesGuard` | `DeadlineShape`: durations are positive, a deadline does not lead back to a phase it or the other one guards, neither the entry nor the failed route is guarded by the cycle deadline, and the cycle does not start from a guarded phase | durations of the cycle only; a `warning_seconds` of 0 is accepted, a clock that is spent when it starts |

| `NextCycleClean` | `CleanShape`: `OverrideWay` for phases that close no cycle; each loop counter is reset by the closing commits or kept within phases that reset it before they are left; the cycle timer ends in the closing commit; phases whose failure charges a loop have no fallback | no |
| `GatedPasses` | `GatedShape`: one gated analysis with a counter of its own, entered only from a commit, at which the development timer ends; it decides for more work or for what lies beyond the loop; work is where the loop starts | no |

The bundled policy has every shape but `NoCleanupShape`, the custom one has
all that its run needs; TLC evaluates this in `default` and `linear`.

Only model-checked: liveness (`Terminates`, `FailingPhaseIsGivenUp`,
`DeadLeaseIsReclaimed`, `EveryCallReturns`, `PhaseIsLeft`, `SlotIsFreed`:
fairness is beyond the prover), and the recursive walk of ExecutionCycleWalk,
which TLC compares with the constant `ExecutionCycleCounter` for both policies.

## 5. Not modelled

The repository has about 300,000 lines in 1,400 files; most of them parse,
render, transport or test. The modules cover the protocols on which a run's
correctness turns and a small share of the lines.

* Resumption inside PipelineRun: the run loop's own saves are not what `--resume`
  loads, so a restarted run begins afresh, and Checkpoint shows that by itself.
  Snapshots of the ledger and the timers, which travel in those saves, are left
  out, and so are sanitising, inspecting and removing a checkpoint.
* In FanOut: worker processes and their namespaces, manifests, summaries, the
  deadline handed to workers. The bundled policy does not dispatch by fan-out;
  the code remains selectable (`dispatch_mode`).
* In WorktreeLease: platforms without flock, reused pids, short writes and the age
  of a lease, which only annotates the verdict.
* In GitLock: the health counter of the queue, call-class deadlines, the wrapper
  `_run_git_operation_with_stale_lock_recovery` and the Windows branches.
* In ExecJobs: output capture, progress subscriptions and the stall assessment.
* Auto-integration and its gate in `reduce`: a run with no retained integration
  record passes it unchanged, and that is the run modelled. The extra loop
  condition for the success terminal and the blocked-dispatch branch of crash
  recovery belong to it.
* The review and fix handlers of the reducer, which no phase of the bundled
  policy reaches, and `skip_invocation`.
* The watchdog, process management, transports, the rest of the MCP server: an invocation
  ends in some way the phase handlers can report.
* Failure classification from text, prompts, display, configuration, telemetry.
* The identity bound of commit cleanup: its counter is declared by the policy
  and never charged by the modelled code.

## 6. Plan

1. **Composition** of PipelineRun and RecoveryController: the controller's
   verdicts in place of the free choice, shown to refine it.
2. **Auto-integration**: rebase, rejected push, retry; no commit lost. It would
   use the lease and the git calls modelled here as its environment.
3. **Idle watchdog**: evidence channels and deadlines; a working agent is not
   killed, a quiet one is.
4. **Resumption**: once runner and command line agree on the checkpoint file, a
   crash between effect, reduction and save composed with PipelineRun. Properties:
   a resumed run bills no cycle twice, loses no verdict and restarts no timer it
   should continue.
5. **Proofs**: `GatedPassesWithinCap` for policies with several gated loops.
