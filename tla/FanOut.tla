------------------------------- MODULE FanOut -------------------------------
(***************************************************************************)
(* A parallel phase: the coordinator that starts one worker per work unit  *)
(* (ralph/pipeline/parallel/), the wave around it that resumes, reduces    *)
(* the worker events and saves the checkpoint (ralph/pipeline/fan_out.py), *)
(* and the reducer's worker states (_fan_out_authority.py, reducer.py).    *)
(*                                                                         *)
(* Units are numbered in the order of their ids.  Worker events are only   *)
(* reduced after the wave, so outcome[u] stands for the events of unit u.  *)
(***************************************************************************)
EXTENDS Naturals, FiniteSets, Sequences

CONSTANTS Units,         \* work units, numbered in the order of their ids
          Deps,          \* Deps[u]: the units u depends on
          Conflicts,     \* Conflicts[u]: the units whose scope meets u's
          MaxWorkers,    \* max_parallel_workers
          MaxFaults      \* bound on failing workers, errors, failed saves and crashes

ASSUME Plan ==
    /\ Units \subseteq Nat
    /\ Deps \in [Units -> SUBSET Units]
    /\ Conflicts \in [Units -> SUBSET Units]
    /\ \A u, v \in Units : u \in Conflicts[v] => v \in Conflicts[u]
    /\ MaxWorkers \in Nat \ {0}
    /\ MaxFaults \in Nat

\* The loop of dispatchable_work_units adds units whose dependencies it has
\* added, until there are none: the smallest set that has every such unit.
HasReachable(S) == \A u \in Units : Deps[u] \subseteq S => u \in S

DispatchableUnits ==
    {u \in Units : \A S \in SUBSET Units : HasReachable(S) => u \in S}

\* A phase fans out only if there are units and all can be dispatched.
ASSUME Dispatched == Units # {} /\ DispatchableUnits = Units

VARIABLES verify,     \* post_fanout_verification, set by the phase's policy
          phase,      \* state.phase: this phase, the next one, or recovery
          ws,         \* state.worker_states
          saved,      \* the checkpoint: a phase and worker states
          resumed,    \* request.initial_state: the checkpoint this process began with
          mode,       \* what the process does: nothing yet, a wave, the verification
          todo,       \* the units of this wave
          running,    \* the coordinator's running units
          completed,  \* the coordinator's completed units
          queue,      \* completion_queue
          outcome,    \* the last worker event of each unit in this wave
          finished,   \* history: units whose worker has delivered a result
          verified,   \* the verification of this process has passed
          integrated, \* on_successful_completion has run
          faults      \* faults so far

wave == <<todo, running, completed, queue, outcome>>
vars == <<verify, phase, ws, saved, resumed, mode, wave, finished, verified, integrated, faults>>

Statuses == {"none", "pending", "running", "succeeded", "failed"}
Phases == {"dev", "next", "failed"}
Checkpoints == [phase : Phases \cup {"none"}, ws : [Units -> Statuses]]

TypeOK ==
    /\ verify \in BOOLEAN
    /\ phase \in Phases
    /\ ws \in [Units -> Statuses]
    /\ saved \in Checkpoints /\ resumed \in Checkpoints
    /\ mode \in {"idle", "wave", "verify", "down"}
    /\ todo \subseteq Units /\ running \subseteq todo /\ completed \subseteq todo
    /\ queue \in Seq(Units)
    /\ outcome \in [Units -> Statuses]
    /\ finished \subseteq Units
    /\ verified \in BOOLEAN /\ integrated \in BOOLEAN
    /\ faults \in 0 .. MaxFaults

NoWorkers == [u \in Units |-> "none"]
NoCheckpoint == [phase |-> "none", ws |-> NoWorkers]

Init ==
    /\ verify \in BOOLEAN
    /\ phase = "dev" /\ ws = NoWorkers
    /\ saved = NoCheckpoint /\ resumed = NoCheckpoint
    /\ mode = "idle"
    /\ todo = {} /\ running = {} /\ completed = {} /\ queue = <<>> /\ outcome = NoWorkers
    /\ finished = {}
    /\ verified = FALSE /\ integrated = FALSE
    /\ faults = 0

Faults(n) == faults + n <= MaxFaults /\ faults' = faults + n

\* _save_checkpoint_or_log, with n faults before it: a save that fails is
\* logged, and the run goes on with the checkpoint of the save before.
SaveOrLog(p, w, n) ==
    \/ saved' = [phase |-> p, ws |-> w] /\ Faults(n)
    \/ UNCHANGED saved /\ Faults(n + 1)

Advance(p, w) == phase' = p /\ ws' = w

\* Mutant: forgets to clear the running units
EndWaveRunning ==
    todo' = {} /\ running' = running /\ completed' = {} /\ queue' = <<>> /\ outcome' = NoWorkers

EndWave == todo' = {} /\ running' = {} /\ completed' = {} /\ queue' = <<>> /\ outcome' = NoWorkers

Queued == {queue[i] : i \in DOMAIN queue}
Working == running \ Queued

-----------------------------------------------------------------------------
(* schedule_next_wave: in the order of their ids, every unit whose         *)
(* dependencies are complete and whose scope meets neither a running unit  *)
(* nor one already selected, while there are slots.                        *)

\* Mutant: does not count the workers that run
SlotsOfAnEmptyPool(run) == MaxWorkers

Slots(run) == IF Cardinality(run) < MaxWorkers THEN MaxWorkers - Cardinality(run) ELSE 0

\* Mutant: takes a dependency that runs for one that is complete
ReadyEarly(units, done, run) ==
    {u \in units \ (done \cup run) : Deps[u] \cap units \subseteq done \cup run}

\* Mutant: waits for dependencies that are not part of the wave
ReadyLate(units, done, run) ==
    {u \in units \ (done \cup run) : Deps[u] \subseteq done}

Ready(units, done, run) ==
    {u \in units \ (done \cup run) : Deps[u] \cap units \subseteq done}

Below(S, u) == {v \in S : v < u}

\* Mutant: compares scopes only with the units selected now
IsNextWaveByItself(S, units, done, run) ==
    /\ S \subseteq Ready(units, done, run)
    /\ \A u \in Ready(units, done, run) :
         u \in S <=> /\ Cardinality(Below(S, u)) < Slots(run)
                     /\ Conflicts[u] \cap Below(S, u) = {}

IsNextWave(S, units, done, run) ==
    /\ S \subseteq Ready(units, done, run)
    /\ \A u \in Ready(units, done, run) :
         u \in S <=> /\ Cardinality(Below(S, u)) < Slots(run)
                     /\ Conflicts[u] \cap (run \cup Below(S, u)) = {}

StartWorkers(S, done, run) ==
    /\ running' = run \cup S
    /\ completed' = done

-----------------------------------------------------------------------------
(* _run_fan_out_async up to the coordinator's first await: RUNNING units   *)
(* become PENDING again, SUCCEEDED ones leave the wave, and dependencies   *)
(* on them are dropped; FAN_OUT_STARTED seeds the states of a first wave.  *)

Resumed(w) == [u \in Units |-> IF w[u] = "running" THEN "pending" ELSE w[u]]
Unfinished(w) == {u \in Units : w[u] # "succeeded"}
Seeded(w) == [u \in Units |-> IF w[u] = "none" THEN "pending" ELSE w[u]]

StartWave ==
    /\ mode = "idle" /\ phase = "dev"
    /\ Unfinished(ws) # {}
    /\ mode' = "wave"
    /\ ws' = Resumed(ws)
    /\ todo' = Unfinished(ws)
    /\ queue' = <<>>
    /\ \E S \in SUBSET Units :
         /\ IsNextWave(S, Unfinished(ws), {}, {})
         /\ StartWorkers(S, {}, {})
         /\ outcome' = [u \in Units |-> IF u \in S THEN "running" ELSE "none"]
    /\ UNCHANGED <<verify, phase, saved, resumed, finished, verified, integrated, faults>>

\* Mutant: the result does not reach the queue
WorkerSucceedsUnheard(u) ==
    /\ mode = "wave"
    /\ u \in Working
    /\ finished' = finished \cup {u}
    /\ UNCHANGED <<verify, phase, ws, saved, resumed, mode, wave, verified, integrated, faults>>

WorkerSucceeds(u) ==
    /\ mode = "wave"
    /\ u \in Working
    /\ queue' = Append(queue, u)
    /\ finished' = finished \cup {u}
    /\ UNCHANGED <<verify, phase, ws, saved, resumed, mode, todo, running, completed, outcome,
                   verified, integrated, faults>>

\* The coordinator's loop: one result, then the next units to start.
TakeResult ==
    /\ mode = "wave"
    /\ queue # <<>>
    /\ queue' = Tail(queue)
    /\ \E S \in SUBSET Units :
         LET u == Head(queue)
         IN  /\ IsNextWave(S, todo, completed \cup {u}, running \ {u})
             /\ StartWorkers(S, completed \cup {u}, running \ {u})
             /\ outcome' = [v \in Units |-> IF v = u THEN "succeeded"
                                            ELSE IF v \in S THEN "running" ELSE outcome[v]]
    /\ UNCHANGED <<verify, phase, ws, saved, resumed, mode, todo, finished, verified, integrated, faults>>

-----------------------------------------------------------------------------
(* The end of a wave: the events are reduced, the tracking is cleared if   *)
(* all succeeded, and the checkpoint is saved.                             *)

\* Mutant: FAN_OUT_STARTED seeds every unit anew
ReducedAnew(out) == [u \in Units |-> IF out[u] = "none" THEN "pending" ELSE out[u]]

Reduced(out) == [u \in Units |-> IF out[u] = "none" THEN Seeded(ws)[u] ELSE out[u]]

AllWorkersComplete ==
    /\ mode = "wave"
    /\ running = {} /\ completed = todo
    /\ Reduced(outcome) = [u \in Units |-> "succeeded"]
    /\ Advance("next", NoWorkers)
    /\ SaveOrLog("next", NoWorkers, 0)
    /\ EndWave
    /\ \/ verify /\ mode' = "verify" /\ UNCHANGED integrated
       \/ ~verify /\ mode' = "idle" /\ integrated' = TRUE
    /\ UNCHANGED <<verify, resumed, finished, verified>>

\* The units that depend, directly or not, on a failed one (the smallest set).
IsBlocked(B, pend, failed) ==
    /\ B \subseteq pend
    /\ \A u \in pend : Deps[u] \cap (failed \cup B) # {} <=> u \in B

\* A worker fails: the task group cancels the others and the coordinator, and
\* every unit still in running fails with it, even if its result is queued.
WorkerFails(u) ==
    /\ mode = "wave"
    /\ u \in Working
    /\ \E B \in SUBSET Units :
         /\ IsBlocked(B, todo \ (running \cup completed), running)
         /\ LET after == Reduced([v \in Units |-> IF v \in running \cup B THEN "failed"
                                                  ELSE outcome[v]])
            IN  Advance("dev", after) /\ SaveOrLog("dev", after, 1)
    /\ EndWave
    /\ mode' = "idle"
    /\ UNCHANGED <<verify, resumed, finished, verified, integrated>>

\* Any other exception in the wave: its events are lost; the recovery
\* controller has the phase run again or moves on to recovery.
WaveErrs ==
    /\ mode = "wave"
    /\ \E p \in {"dev", "failed"} : Advance(p, ws) /\ SaveOrLog(p, ws, 1)
    /\ EndWave
    /\ mode' = "idle"
    /\ UNCHANGED <<verify, resumed, finished, verified, integrated>>

VerificationPasses ==
    /\ mode = "verify"
    /\ verified' = TRUE
    /\ integrated' = TRUE
    /\ SaveOrLog(phase, ws, 0)
    /\ mode' = "idle"
    /\ UNCHANGED <<verify, phase, ws, resumed, wave, finished>>

\* Mutant: the outcome of the verification is not looked at
VerificationIgnored ==
    /\ mode = "verify"
    /\ Faults(1)
    /\ integrated' = TRUE
    /\ mode' = "idle"
    /\ UNCHANGED <<verify, phase, ws, saved, resumed, wave, finished, verified>>

VerificationFails ==
    /\ mode = "verify"
    /\ Advance("failed", ws)
    /\ SaveOrLog("failed", ws, 1)
    /\ mode' = "idle"
    /\ UNCHANGED <<verify, resumed, wave, finished, verified, integrated>>

-----------------------------------------------------------------------------
(* The process ends with its workers, and is started again from the        *)
(* checkpoint.                                                             *)

Ends ==
    /\ mode # "down"
    /\ Faults(1)
    /\ mode' = "down"
    /\ Advance("dev", NoWorkers)
    /\ EndWave
    /\ verified' = FALSE
    /\ resumed' = NoCheckpoint
    /\ UNCHANGED <<verify, finished, integrated>>

\* It dies.  An interrupt in the run loop does the same to this checkpoint, for
\* the loop saves to another path; so does one at the CLI whose save fails or
\* that finds nothing to save.
Crash == Ends /\ UNCHANGED saved

\* An interrupt that reaches the CLI saves the state the run began with.
InterruptAtCli ==
    /\ Ends
    /\ resumed.phase # "none"
    /\ saved' = resumed

Restart ==
    /\ mode = "down"
    /\ mode' = "idle"
    /\ Advance(IF saved.phase = "none" THEN "dev" ELSE saved.phase, saved.ws)
    /\ resumed' = saved
    /\ UNCHANGED <<verify, saved, wave, finished, verified, integrated, faults>>

Work ==
    \/ StartWave \/ TakeResult \/ AllWorkersComplete
    \/ VerificationPasses \/ Restart
    \/ \E u \in Units : WorkerSucceeds(u)

Next ==
    \/ Work
    \/ \E u \in Units : WorkerFails(u)
    \/ WaveErrs \/ VerificationFails \/ Crash \/ InterruptAtCli

Spec == Init /\ [][Next]_vars

\* The coordinator runs whenever it can, a worker ends and a crashed run is
\* started again; every one of these is a step of Work.
FairSpec == Spec /\ WF_vars(Work)

-----------------------------------------------------------------------------
(***************************************************************************)
(* Units whose workers run at the same time own disjoint scopes            *)
(* (schedule_next_wave, called again after every result).                  *)
(***************************************************************************)
DisjointScopes == \A u, v \in running : u # v => v \notin Conflicts[u]

(***************************************************************************)
(* There are never more workers than max_parallel_workers: a unit whose    *)
(* result is still queued keeps its slot.                                  *)
(***************************************************************************)
WorkerCap == Cardinality(running) <= MaxWorkers

(***************************************************************************)
(* A worker runs only after every unit its unit depends on has delivered,  *)
(* also in a later wave and after a restart, where _resume_fan_out_state   *)
(* drops the dependencies the checkpoint calls SUCCEEDED.                  *)
(***************************************************************************)
DependenciesFirst == \A u \in running : Deps[u] \subseteq finished

(***************************************************************************)
(* The wave never stands still with units left: with nothing running, no   *)
(* result queued and units pending the loop would break out and report     *)
(* ALL_WORKERS_COMPLETE.  And a phase that is entered again has units to   *)
(* run, so the run never relies on the resumed-with-nothing branch.        *)
(***************************************************************************)
NeverStuck ==
    /\ mode = "wave" => running # {} \/ completed = todo
    /\ mode = "idle" /\ phase = "dev" => Unfinished(ws) # {}

(***************************************************************************)
(* The changes are integrated only when every unit has delivered and the   *)
(* verification, where the policy asks for it, has passed.                 *)
(***************************************************************************)
IntegratedIsComplete ==
    [][integrated' # integrated => finished = Units /\ (verify => verified')]_vars

(***************************************************************************)
(* The checkpoint keeps the promise of the board, through failed saves,    *)
(* crashes and restarts: the recorded units only grow, with their          *)
(* dependencies, and the next phase is recorded exactly when all units     *)
(* are.  The one way back is an interrupt at the CLI: it puts back what    *)
(* the interrupted run began with, and nothing older.                      *)
(***************************************************************************)
RecordedIn(c) ==
    CASE c.phase \in {"none", "dev"} -> {u \in Units : c.ws[u] = "succeeded"}
      [] c.phase = "next"   -> Units
      [] c.phase = "failed" -> {}

Board == INSTANCE WorkBoard WITH
           recorded <- RecordedIn(saved),
           stage    <- saved.phase,
           base     <- [recorded |-> RecordedIn(resumed), stage |-> resumed.phase]

ImplementsBoard == Board!Spec

(***************************************************************************)
(* With finitely many faults the run leaves the phase: every unit gets its *)
(* turn again after a failed wave, a lost one, a restart or an interrupt.  *)
(* The checkpoint may stay behind: when the save after the last wave       *)
(* fails, a later --resume runs the missing units again.                   *)
(***************************************************************************)
PhaseIsLeft == <>[](mode # "down" /\ phase # "dev")
=============================================================================
