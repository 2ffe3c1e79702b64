------------------------------ MODULE ExecJobs ------------------------------
(***************************************************************************)
(* The registry of long-running commands of the MCP server                 *)
(* (ralph/mcp/tools/_exec_jobs.py) under the tools that use it: exec       *)
(* starts a job and waits for it, exec_wait waits again, exec_cancel kills *)
(* it.  A watcher and a runner thread per job, the threads of the requests *)
(* and the shutdown hook all try to end the same job; the first to clear   *)
(* job.running under the registry's lock settles it.  Progress             *)
(* notifications are left out.  Of the output only this matters: a result  *)
(* or snapshot whose output cannot be written out (spill_output) is not    *)
(* built at all.                                                           *)
(***************************************************************************)
EXTENDS Naturals, FiniteSets, Sequences

CONSTANTS Jobs,        \* job ids, one per accepted exec call
          MaxRunning,  \* EXEC_MAX_RUNNING_JOBS
          Fifo,        \* EXEC_JOB_RESULT_FIFO
          Troubled,    \* bound: the jobs that may be cancelled, survive a kill or
                       \* have their result fail to build
          NoJob        \* no job: the shutdown hook settles none

ASSUME Limits ==
    /\ MaxRunning \in Nat \ {0} /\ Fifo \in Nat \ {0}
    /\ NoJob \notin Jobs

VARIABLES running,    \* _running_jobs
          finished,   \* _finished_results, oldest first
          runs,       \* job.running
          cause,      \* job.kill_cause
          exited,     \* job.returncode is not None
          cancelled,  \* job.cancelled
          kept,       \* cancelled, in the result built when the job was settled
          proc,       \* the process of the job; a survivor of a failed kill
          settle,     \* how far the end of the job is; "done" is done_event
          epc,        \* the request of the agent: exec, later exec_wait
          cpc,        \* the exec_cancel request: between its two locks or not
          rpc,        \* the runner thread: has it decided on a kill
          spc,        \* the shutdown hook
          todo,       \* its active_list
          victim,     \* the job it settles
          answer      \* what the last reply that told of the job said

registry == <<running, finished>>
verdict  == <<runs, cause, exited>>
hook     == <<spc, todo, victim>>
threads  == <<cpc, rpc>>
marks    == <<cancelled, kept>>
jobs_vars == <<registry, verdict, marks, proc, settle, epc, threads, hook, answer>>

Causes == {"none", "sampler", "session_end"}
Ended == {"exit", "cancelled", "killed"}

\* Before and in the wait of exec, and of the exec_wait requests that follow.
Exec == {"start", "started"}
ExecWait == {"ask", "asked"}

JobsTypeOK ==
    /\ running \subseteq Jobs /\ finished \in Seq(Jobs)
    /\ runs \in [Jobs -> BOOLEAN] /\ cause \in [Jobs -> Causes] /\ exited \in [Jobs -> BOOLEAN]
    /\ cancelled \in [Jobs -> BOOLEAN] /\ kept \in [Jobs -> BOOLEAN]
    /\ proc \in [Jobs -> {"none", "alive", "survivor", "gone"}]
    /\ settle \in [Jobs -> {"no", "terminate", "render", "publish", "done", "lost"}]
    /\ epc \in [Jobs -> {"none", "refused", "failed", "spawn", "attach"} \union Exec \union ExecWait]
    /\ cpc \in [Jobs -> {"idle", "kill"}]
    /\ rpc \in [Jobs -> {"idle", "kill"}]
    /\ spc \in {"off", "killing", "over"}
    /\ todo \subseteq Jobs /\ victim \in Jobs \union {NoJob}
    /\ answer \in [Jobs -> {"none", "snapshot"} \union Ended]

JobsInit ==
    /\ running = {} /\ finished = <<>>
    /\ runs = [j \in Jobs |-> TRUE] /\ cause = [j \in Jobs |-> "none"]
    /\ exited = [j \in Jobs |-> FALSE]
    /\ cancelled = [j \in Jobs |-> FALSE] /\ kept = [j \in Jobs |-> FALSE]
    /\ proc = [j \in Jobs |-> "none"] /\ settle = [j \in Jobs |-> "no"]
    /\ epc = [j \in Jobs |-> "none"] /\ cpc = [j \in Jobs |-> "idle"]
    /\ rpc = [j \in Jobs |-> "idle"]
    /\ answer = [j \in Jobs |-> "none"]
    /\ spc = "off" /\ todo = {} /\ victim = NoJob

InFinished(j) == \E i \in 1 .. Len(finished) : finished[i] = j

\* job.handle is stored and the watcher and the runner have been started.
Attached(j) == epc[j] \in Exec \union ExecWait

JobsGoto(j, label) == epc' = [epc EXCEPT ![j] = label]
Live(j) == proc[j] \in {"alive", "survivor"}

Answer(j, a) == answer' = [answer EXCEPT ![j] = a]

-----------------------------------------------------------------------------
(* start, called by exec.                                                  *)

\* Mutant: lets in one job too many
StartPastCap(j) ==
    /\ epc[j] \in {"none", "refused"}
    /\ Cardinality(running) <= MaxRunning
    /\ running' = running \union {j}
    /\ JobsGoto(j, "spawn")
    /\ UNCHANGED <<finished, verdict, marks, proc, settle, threads, hook, answer>>

\* The capacity check and the registration are one critical section.
Start(j) ==
    /\ epc[j] \in {"none", "refused"}
    /\ Cardinality(running) < MaxRunning
    /\ running' = running \union {j}
    /\ JobsGoto(j, "spawn")
    /\ UNCHANGED <<finished, verdict, marks, proc, settle, threads, hook, answer>>

RefuseStart(j) ==
    /\ epc[j] \in {"none", "refused"}
    /\ Cardinality(running) >= MaxRunning
    /\ JobsGoto(j, "refused")
    /\ UNCHANGED <<registry, verdict, marks, proc, settle, threads, hook, answer>>

SpawnJob(j) ==
    /\ epc[j] = "spawn"
    /\ proc' = [proc EXCEPT ![j] = "alive"]
    /\ JobsGoto(j, "attach")
    /\ UNCHANGED <<registry, verdict, marks, settle, threads, hook, answer>>

SpawnFails(j) ==
    /\ epc[j] = "spawn"
    /\ running' = running \ {j}
    /\ JobsGoto(j, "failed")
    /\ UNCHANGED <<finished, verdict, marks, proc, settle, threads, hook, answer>>

Attach(j) ==
    /\ epc[j] = "attach"
    /\ JobsGoto(j, "start")
    /\ UNCHANGED <<registry, verdict, marks, proc, settle, threads, hook, answer>>

-----------------------------------------------------------------------------
(* wait, called by exec right after start and by every exec_wait, with the *)
(* rendering of what it returns.                                           *)

\* Mutant: renders every result alike
RenderedAlike(j) == "exit"

\* The result as published or, when it is not among the results yet or any
\* more, built from the job.
ResultCancelled(j) == IF InFinished(j) THEN kept[j] ELSE cancelled[j]

\* exec renders a cancelled job as an exit, exec_wait does not.
Rendered(j) ==
    IF cause[j] # "none" THEN "killed"
    ELSE IF epc[j] \in ExecWait /\ ResultCancelled(j) THEN "cancelled"
    ELSE "exit"

\* An unknown job is an error to either request.
Lookup(j) ==
    /\ \/ epc[j] = "start" /\ JobsGoto(j, IF j \in running THEN "started" ELSE "ask")
       \/ epc[j] = "ask" /\ JobsGoto(j, IF j \in running THEN "asked" ELSE "ask")
    /\ IF InFinished(j) THEN Answer(j, Rendered(j)) ELSE UNCHANGED answer
    /\ UNCHANGED <<registry, verdict, marks, proc, settle, threads, hook>>

\* The wait times out or done_event is set: what the reply says is decided
\* under the lock afterwards.
Reply(j) ==
    /\ epc[j] \in {"started", "asked"}
    /\ Answer(j, IF runs[j] THEN "snapshot" ELSE Rendered(j))
    /\ JobsGoto(j, "ask")
    /\ UNCHANGED <<registry, verdict, marks, proc, settle, threads, hook>>

\* A snapshot, or a result that is built here, needs the output on disk.
ReplyFails(j) ==
    /\ epc[j] \in {"started", "asked"}
    /\ runs[j] \/ ~InFinished(j)
    /\ JobsGoto(j, "ask")
    /\ UNCHANGED <<registry, verdict, marks, proc, settle, threads, hook, answer>>

-----------------------------------------------------------------------------
(* _mark_finished and _kill_job: only the thread that clears job.running   *)
(* settles the job.                                                        *)

\* Mutant: does not ask whether the job has been ended already
MarkFinishedAgain(j) ==
    /\ runs' = [runs EXCEPT ![j] = FALSE]
    /\ exited' = [exited EXCEPT ![j] = TRUE]
    /\ cause' = [cause EXCEPT ![j] = "none"]
    /\ settle' = [settle EXCEPT ![j] = IF @ = "no" THEN "render" ELSE @]

MarkFinished(j) ==
    /\ runs[j]
    /\ runs' = [runs EXCEPT ![j] = FALSE]
    /\ exited' = [exited EXCEPT ![j] = TRUE]
    /\ cause' = [cause EXCEPT ![j] = "none"]
    /\ settle' = [settle EXCEPT ![j] = "render"]

\* Mutant: goes on to the result without terminating the process
KillJobSpared(j, why) ==
    /\ runs[j]
    /\ runs' = [runs EXCEPT ![j] = FALSE]
    /\ cause' = [cause EXCEPT ![j] = why]
    /\ settle' = [settle EXCEPT ![j] = "render"]
    /\ UNCHANGED exited

KillJob(j, why) ==
    /\ runs[j]
    /\ runs' = [runs EXCEPT ![j] = FALSE]
    /\ cause' = [cause EXCEPT ![j] = why]
    /\ settle' = [settle EXCEPT ![j] = "terminate"]
    /\ UNCHANGED exited

\* _watch_job and the first check of step_job.
FindExit(j) ==
    /\ Attached(j) /\ proc[j] = "gone"
    /\ MarkFinished(j)
    /\ UNCHANGED <<registry, marks, proc, epc, threads, hook, answer>>

\* Mutant: never decides while the agent waits
RunnerDecidesUnwatched(j) ==
    /\ Attached(j) /\ runs[j] /\ rpc[j] = "idle" /\ Live(j)
    /\ epc[j] \notin {"started", "asked"}
    /\ rpc' = [rpc EXCEPT ![j] = "kill"]
    /\ UNCHANGED <<registry, verdict, marks, proc, settle, epc, cpc, hook, answer>>

\* The other checks of step_job decide on a kill: the agent has not waited
\* for EXEC_JOB_ABANDON_S, the ceiling has passed, or the liveness sample
\* blames the job.  Clock and sample are a choice; "sampler" stands for the
\* four causes.
RunnerDecides(j) ==
    /\ Attached(j) /\ runs[j] /\ rpc[j] = "idle" /\ Live(j)
    /\ rpc' = [rpc EXCEPT ![j] = "kill"]
    /\ UNCHANGED <<registry, verdict, marks, proc, settle, epc, cpc, hook, answer>>

\* The decision was taken outside the lock; _kill_job looks again at
\* job.running, and at nothing else.
RunnerKills(j) ==
    /\ rpc[j] = "kill"
    /\ KillJob(j, "sampler") \/ (~runs[j] /\ UNCHANGED <<verdict, settle>>)
    /\ rpc' = [rpc EXCEPT ![j] = "idle"]
    /\ UNCHANGED <<registry, marks, proc, epc, cpc, hook, answer>>

-----------------------------------------------------------------------------
(* exec_cancel.  The agent learns the job id from the reply to exec or     *)
(* from a progress notification.  Its reply says "cancelled", whatever the *)
(* result says, and changes nothing.                                       *)

Cancel(j) ==
    /\ cpc[j] = "idle" /\ Attached(j) /\ j \in Troubled
    /\ j \in running
    /\ cancelled' = [cancelled EXCEPT ![j] = TRUE]
    /\ cpc' = [cpc EXCEPT ![j] = "kill"]
    /\ UNCHANGED <<registry, verdict, kept, proc, settle, epc, rpc, hook, answer>>

CancelKills(j) ==
    /\ cpc[j] = "kill"
    /\ KillJob(j, "none") \/ (~runs[j] /\ UNCHANGED <<verdict, settle>>)
    /\ cpc' = [cpc EXCEPT ![j] = "idle"]
    /\ UNCHANGED <<registry, marks, proc, epc, rpc, hook, answer>>

-----------------------------------------------------------------------------
(* What the thread that cleared job.running does next: the rest of         *)
(* _kill_job, and _settle_job.                                             *)

\* The kill path first terminates the process, if the handle is known.  An
\* error is suppressed: a process that survives it is left alone.
Terminate(j) ==
    /\ settle[j] = "terminate"
    /\ \/ ~(Attached(j) /\ Live(j)) /\ UNCHANGED proc
       \/ /\ Attached(j) /\ Live(j)
          /\ \/ proc' = [proc EXCEPT ![j] = "gone"]
             \/ j \in Troubled /\ proc' = [proc EXCEPT ![j] = "survivor"]
    /\ settle' = [settle EXCEPT ![j] = "render"]
    /\ UNCHANGED <<registry, verdict, marks, epc, threads, hook, answer>>

\* The readers are drained and the result is built, outside the lock.
Render(j) ==
    /\ settle[j] = "render"
    /\ kept' = [kept EXCEPT ![j] = cancelled[j]]
    /\ settle' = [settle EXCEPT ![j] = "publish"]
    /\ UNCHANGED <<registry, verdict, cancelled, proc, epc, threads, hook, answer>>

\* The output cannot be written: the exception leaves the thread, and nobody
\* else settles a job that does not run any more.
RenderFails(j) ==
    /\ settle[j] = "render" /\ j \in Troubled
    /\ settle' = [settle EXCEPT ![j] = "lost"]
    /\ UNCHANGED <<registry, verdict, marks, proc, epc, threads, hook, answer>>

\* deque(maxlen=...): an append to a full FIFO drops the oldest result.
Appended(j) == IF Len(finished) < Fifo THEN Append(finished, j) ELSE Append(Tail(finished), j)

\* Mutant: the slot is freed, the result is not kept
PublishNothing(j) ==
    /\ settle[j] = "publish"
    /\ running' = running \ {j}
    /\ settle' = [settle EXCEPT ![j] = "done"]
    /\ UNCHANGED <<finished, verdict, marks, proc, epc, threads, hook, answer>>

\* done_event is set right after the lock is released; nobody can tell, for a
\* wait may time out at any moment.
Publish(j) ==
    /\ settle[j] = "publish"
    /\ running' = running \ {j}
    /\ finished' = Appended(j)
    /\ settle' = [settle EXCEPT ![j] = "done"]
    /\ UNCHANGED <<verdict, marks, proc, epc, threads, hook, answer>>

Settle(j) == Terminate(j) \/ Render(j) \/ Publish(j)

-----------------------------------------------------------------------------
(* shutdown_all, from the shutdown and the owner-loss hooks.               *)

Shutdown ==
    /\ spc = "off"
    /\ todo' = running
    /\ spc' = "killing"
    /\ UNCHANGED <<registry, verdict, marks, proc, settle, epc, threads, victim, answer>>

ShutdownKills(j) ==
    /\ spc = "killing" /\ victim = NoJob /\ j \in todo
    /\ todo' = todo \ {j}
    /\ \/ KillJob(j, "session_end") /\ victim' = j
       \/ ~runs[j] /\ UNCHANGED <<verdict, settle, victim>>
    /\ UNCHANGED <<registry, marks, proc, epc, threads, spc, answer>>

ShutdownSettled ==
    /\ victim # NoJob /\ settle[victim] = "done"
    /\ victim' = NoJob
    /\ UNCHANGED <<registry, verdict, marks, proc, settle, epc, threads, spc, todo, answer>>

\* An exception from settling a job ends the hook: the jobs left and the sweep
\* are skipped.
ShutdownAborts ==
    /\ victim # NoJob /\ settle[victim] = "lost"
    /\ victim' = NoJob /\ todo' = {} /\ spc' = "over"
    /\ UNCHANGED <<registry, verdict, marks, proc, settle, epc, threads, answer>>

\* shutdown_all_for_label("exec_job:"): every process the manager has spawned
\* for a job is terminated, whatever the registry knows of it; what survives
\* is left alone.
Sweep ==
    /\ spc = "killing" /\ victim = NoJob /\ todo = {}
    /\ \E left \in SUBSET {j \in Jobs \intersect Troubled : Live(j)} :
         proc' = [j \in Jobs |-> IF j \in left THEN "survivor" ELSE IF Live(j) THEN "gone" ELSE proc[j]]
    /\ spc' = "over"
    /\ UNCHANGED <<registry, verdict, marks, settle, epc, threads, todo, victim, answer>>

-----------------------------------------------------------------------------
(* The command, and the system.                                            *)

ProcessExits(j) ==
    /\ Live(j)
    /\ proc' = [proc EXCEPT ![j] = "gone"]
    /\ UNCHANGED <<registry, verdict, marks, settle, epc, threads, hook, answer>>

Requests(j) == Start(j) \/ RefuseStart(j) \/ Lookup(j) \/ Cancel(j)

\* The steps the threads of the server take by themselves.
Threads(j) ==
    \/ SpawnJob(j) \/ SpawnFails(j) \/ Attach(j) \/ Reply(j) \/ ReplyFails(j)
    \/ FindExit(j) \/ RunnerDecides(j) \/ RunnerKills(j)
    \/ CancelKills(j) \/ Settle(j) \/ RenderFails(j) \/ ShutdownKills(j)

JobsNext ==
    \/ \E j \in Jobs : Requests(j) \/ Threads(j) \/ ProcessExits(j)
    \/ Shutdown \/ ShutdownSettled \/ ShutdownAborts \/ Sweep

JobsSpec == JobsInit /\ [][JobsNext]_jobs_vars

\* The threads that start, watch, sample and settle a job are scheduled, and
\* the runner samples until the ceiling has passed: it decides at last.
\* Commands need not end, and agents need not ask nor be answered.
Tending(j) ==
    \/ SpawnJob(j) \/ SpawnFails(j) \/ Attach(j)
    \/ FindExit(j) \/ RunnerDecides(j) \/ RunnerKills(j) \/ Settle(j)

JobsFairSpec == JobsSpec /\ \A j \in Jobs : WF_jobs_vars(Tending(j))

-----------------------------------------------------------------------------
(* Properties.                                                             *)

\* start counts the running jobs and registers the new one in one critical
\* section, and a result is published only after the process is terminated:
\* the processes the registry answers for never exceed the cap.  Two kinds
\* escape it (see NoStray).
LiveWithinCap ==
    Cardinality({j \in Jobs : proc[j] = "alive" /\ cause[j] # "session_end"}) <= MaxRunning

\* A live process belongs to a running job, so that some thread still ends
\* it.  There are two exceptions: a process that survived a kill, for _kill_job
\* suppresses the error of terminate and gives the slot back; and the process
\* of a job that shutdown_all killed before its start call had stored the
\* handle, spawned afterwards and watched by nobody.
NoStray ==
    \A j \in Jobs : Live(j) /\ j \notin running =>
        proc[j] = "survivor" \/ cause[j] = "session_end"

\* From its registration on a job is found by wait: it is running, or its
\* result is kept, or newer results have filled the FIFO.  Hence "unknown or
\* expired job" is only said of an expired one.
Findable ==
    \A j \in Jobs : epc[j] \in {"spawn", "attach"} \union Exec \union ExecWait =>
        \/ j \in running /\ ~InFinished(j)
        \/ j \notin running /\ InFinished(j)
        \/ j \notin running /\ settle[j] = "done" /\ Len(finished) = Fifo

\* A reply never calls a job an exit unless its process ended by itself or
\* the job was cancelled, in which case exec has no better word for it.
ExitIsReal ==
    \A j \in Jobs : answer[j] = "exit" => ~runs[j] /\ (exited[j] \/ cancelled[j])

\* The verdict on a job stands, whichever of the watcher, the runner, a cancel
\* and the shutdown ends it: an agent that was told the end of a job is never
\* told that it runs, and a job is never called killed to one reply and not
\* killed to another.  Only where the agent cancelled it is a job an exit to
\* one reply and cancelled to another: exec does not say "cancelled", and a
\* cancel that comes after the exit but before the publication is in the
\* answer built from the job, and in the result only if it came before that
\* was built.
VerdictStands ==
    [][\A j \in Jobs : answer[j] \in Ended =>
          /\ answer'[j] \in Ended
          /\ answer[j] = "killed" <=> answer'[j] = "killed"
          /\ answer'[j] # answer[j] => cancelled[j]]_jobs_vars

\* A job gives its slot back, even when its command hangs and the agent keeps
\* asking for it: the runner enforces the ceiling.  The exception is a job
\* whose result could not be built: _settle_job raises before it publishes.
SlotIsFreed ==
    \A j \in Jobs : j \in running ~> (j \notin running \/ settle[j] = "lost")
=============================================================================
