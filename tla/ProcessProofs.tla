-------------------------- MODULE ProcessProofs ---------------------------
(***************************************************************************)
(* Proofs about what processes contend for: the registry of commands      *)
(* (ExecJobs) and the lease of a worktree (WorktreeLease).                 *)
(***************************************************************************)
EXTENDS ExecJobs, WorktreeLease, FiniteSetTheorems, TLAPS

\* Zenon is tried on every leaf that names no prover; a leaf that needs
\* arithmetic or equality of records asks for SMT.
USE Zenon

-----------------------------------------------------------------------------
(***************************************************************************)
(* The registry of commands, for any number of jobs, any cap and any length *)
(* of the FIFO of results.                                                 *)
(***************************************************************************)
Unborn(j) == epc[j] \in {"none", "refused"}

\* Where a job is: in the running set until its result is published, then
\* among the results until newer ones have filled the FIFO.
PlaceOK(j) ==
    /\ runs[j] <=> settle[j] = "no"
    /\ Unborn(j) => j \notin running /\ settle[j] = "no"
    /\ epc[j] \in {"spawn", "attach"} \union Exec \union ExecWait => (j \in running <=> settle[j] # "done")
    /\ settle[j] = "done" => j \notin running
    /\ InFinished(j) => settle[j] = "done"
    /\ settle[j] = "done" => InFinished(j) \/ Len(finished) = Fifo

\* Who may kill a job, and when its process may be alive.
ProcessOK(j) ==
    /\ rpc[j] = "kill" \/ cpc[j] = "kill" => Attached(j)
    /\ j \in todo => ~Unborn(j)
    /\ runs[j] => cause[j] = "none"
    /\ epc[j] \in {"spawn", "attach"} /\ ~runs[j] => cause[j] = "session_end"
    /\ epc[j] \in {"none", "refused", "spawn", "failed"} => proc[j] = "none"
    /\ proc[j] = "alive" /\ cause[j] # "session_end" => settle[j] \in {"no", "terminate"}

\* What the agent has been told.
AnswerOK(j) ==
    /\ cpc[j] = "kill" => cancelled[j]
    /\ ~runs[j] /\ cause[j] = "none" => exited[j] \/ cancelled[j]
    /\ kept[j] \/ answer[j] = "cancelled" => cancelled[j]
    /\ answer[j] \in Ended => ~runs[j] /\ (answer[j] = "killed" <=> cause[j] # "none")

RegistryOK ==
    /\ IsFiniteSet(running) /\ Cardinality(running) <= MaxRunning
    /\ Len(finished) <= Fifo

Inv ==
    /\ JobsTypeOK
    /\ RegistryOK
    /\ \A j \in Jobs : PlaceOK(j)
    /\ \A j \in Jobs : ProcessOK(j)
    /\ \A j \in Jobs : AnswerOK(j)

-----------------------------------------------------------------------------
\* Inv holds at the start: nothing is registered and no process exists.
LEMMA InitInv == JobsInit => Inv
<1> SUFFICES ASSUME JobsInit PROVE Inv
  OBVIOUS
<1>1. JobsTypeOK
  <2>1. finished \in Seq(Jobs)
    BY SMTT(30) DEF JobsInit
  <2>2. /\ runs \in [Jobs -> BOOLEAN] /\ exited \in [Jobs -> BOOLEAN]
        /\ cancelled \in [Jobs -> BOOLEAN] /\ kept \in [Jobs -> BOOLEAN]
        /\ cause \in [Jobs -> Causes]
    BY DEF JobsInit, Causes
  <2>3. /\ proc \in [Jobs -> {"none", "alive", "survivor", "gone"}]
        /\ settle \in [Jobs -> {"no", "terminate", "render", "publish", "done", "lost"}]
        /\ epc \in [Jobs -> {"none", "refused", "failed", "spawn", "attach"} \union Exec \union ExecWait]
        /\ cpc \in [Jobs -> {"idle", "kill"}] /\ rpc \in [Jobs -> {"idle", "kill"}]
        /\ answer \in [Jobs -> {"none", "snapshot"} \union Ended]
    BY DEF JobsInit
  <2> QED BY <2>1, <2>2, <2>3 DEF JobsInit, JobsTypeOK
<1>2. RegistryOK
  BY SMTT(30), Limits, FS_EmptySet DEF JobsInit, RegistryOK
<1>3. ASSUME NEW j \in Jobs PROVE PlaceOK(j) /\ ProcessOK(j) /\ AnswerOK(j)
  <2>1. ~InFinished(j)
    BY SMTT(30) DEF JobsInit, InFinished
  <2>2. /\ epc[j] = "none" /\ runs[j] /\ cause[j] = "none" /\ settle[j] = "no" /\ proc[j] = "none"
        /\ cpc[j] = "idle" /\ rpc[j] = "idle" /\ ~cancelled[j] /\ ~kept[j] /\ answer[j] = "none"
        /\ j \notin running /\ j \notin todo
    BY DEF JobsInit
  <2> QED BY SMTT(30), <2>1, <2>2 DEF PlaceOK, ProcessOK, AnswerOK, Unborn, Ended, Exec, ExecWait
<1> QED BY <1>1, <1>2, <1>3 DEF Inv

\* start registers the job under the cap.
LEMMA StartStep ==
    ASSUME Inv, NEW k \in Jobs, Start(k)
    PROVE  Inv'
<1>1. JobsTypeOK'
  BY DEF Inv, JobsTypeOK, Causes, Ended, Exec, ExecWait, Live, Start, JobsGoto, Answer, registry, verdict, threads, hook, marks
<1>2. RegistryOK'
  <2>0. IsFiniteSet(running) /\ Cardinality(running) \in Nat /\ running' = running \union {k}
    BY FS_CardinalityType DEF Inv, RegistryOK, Start
  <2>1. /\ IsFiniteSet(running \union {k})
        /\ Cardinality(running \union {k}) = IF k \in running THEN Cardinality(running) ELSE Cardinality(running) + 1
    BY <2>0, FS_AddElement
  <2> QED BY SMTT(30), <2>0, <2>1, Limits, FS_CardinalityType DEF Inv, RegistryOK, Start
<1>3. ASSUME NEW j \in Jobs PROVE PlaceOK(j)' /\ ProcessOK(j)' /\ AnswerOK(j)'
  <2>1. PlaceOK(j) /\ ProcessOK(j) /\ AnswerOK(j) /\ (InFinished(j)' <=> InFinished(j))
    BY DEF Inv, InFinished, Start, registry
  <2>2. PlaceOK(j)'
    BY SMTT(30), <2>1 DEF Inv, JobsTypeOK, PlaceOK, ProcessOK, Unborn, Attached, Exec, ExecWait, Live, Start, JobsGoto, Answer, registry, verdict, threads, hook, marks
  <2>3. ProcessOK(j)'
    BY SMTT(30), <2>1 DEF Inv, JobsTypeOK, PlaceOK, ProcessOK, Unborn, Attached, Exec, ExecWait, Live, Start, JobsGoto, Answer, registry, verdict, threads, hook, marks
  <2>4. AnswerOK(j)'
    BY SMTT(30), <2>1 DEF Inv, JobsTypeOK, PlaceOK, ProcessOK, AnswerOK, Unborn, Attached, Exec, ExecWait, Live, Ended, Start, JobsGoto, Answer, registry, verdict, threads, hook, marks
  <2> QED BY <2>2, <2>3, <2>4
<1> QED BY <1>1, <1>2, <1>3 DEF Inv

\* A refused start registers nothing.
LEMMA RefuseStartStep ==
    ASSUME Inv, NEW k \in Jobs, RefuseStart(k)
    PROVE  Inv'
<1>1. JobsTypeOK'
  BY DEF Inv, JobsTypeOK, Causes, Ended, Exec, ExecWait, Live, RefuseStart, JobsGoto, Answer, registry, verdict, threads, hook, marks
<1>2. RegistryOK'
  BY DEF Inv, RegistryOK, RefuseStart, registry
<1>3. ASSUME NEW j \in Jobs PROVE PlaceOK(j)' /\ ProcessOK(j)' /\ AnswerOK(j)'
  <2>1. PlaceOK(j) /\ ProcessOK(j) /\ AnswerOK(j) /\ (InFinished(j)' <=> InFinished(j))
    BY DEF Inv, InFinished, RefuseStart, registry
  <2>2. PlaceOK(j)'
    BY SMTT(30), <2>1 DEF Inv, JobsTypeOK, PlaceOK, ProcessOK, Unborn, Attached, Exec, ExecWait, Live, RefuseStart, JobsGoto, Answer, registry, verdict, threads, hook, marks
  <2>3. ProcessOK(j)'
    BY SMTT(30), <2>1 DEF Inv, JobsTypeOK, PlaceOK, ProcessOK, Unborn, Attached, Exec, ExecWait, Live, RefuseStart, JobsGoto, Answer, registry, verdict, threads, hook, marks
  <2>4. AnswerOK(j)'
    BY SMTT(30), <2>1 DEF Inv, JobsTypeOK, PlaceOK, ProcessOK, AnswerOK, Unborn, Attached, Exec, ExecWait, Live, Ended, RefuseStart, JobsGoto, Answer, registry, verdict, threads, hook, marks
  <2> QED BY <2>2, <2>3, <2>4
<1> QED BY <1>1, <1>2, <1>3 DEF Inv

\* The process of a job that has been killed meanwhile is session_end's.
LEMMA SpawnStep ==
    ASSUME Inv, NEW k \in Jobs, SpawnJob(k)
    PROVE  Inv'
<1>1. JobsTypeOK'
  BY DEF Inv, JobsTypeOK, Causes, Ended, Exec, ExecWait, Live, SpawnJob, JobsGoto, registry, verdict, threads, hook, marks
<1>2. RegistryOK'
  BY DEF Inv, RegistryOK, SpawnJob, registry
<1>3. ASSUME NEW j \in Jobs PROVE PlaceOK(j)' /\ ProcessOK(j)' /\ AnswerOK(j)'
  <2>1. PlaceOK(j) /\ ProcessOK(j) /\ AnswerOK(j) /\ (InFinished(j)' <=> InFinished(j))
    BY DEF Inv, InFinished, SpawnJob, registry
  <2>2. PlaceOK(j)'
    BY SMTT(30), <2>1 DEF Inv, JobsTypeOK, PlaceOK, ProcessOK, Unborn, Attached, Exec, ExecWait, Live, SpawnJob, JobsGoto, registry, verdict, threads, hook, marks
  <2>3. ProcessOK(j)'
    BY SMTT(30), <2>1 DEF Inv, JobsTypeOK, PlaceOK, ProcessOK, Unborn, Attached, Exec, ExecWait, Live, SpawnJob, JobsGoto, registry, verdict, threads, hook, marks
  <2>4. AnswerOK(j)'
    BY <2>1 DEF Inv, JobsTypeOK, PlaceOK, ProcessOK, AnswerOK, Unborn, Attached, Exec, ExecWait, Live, Ended, SpawnJob, JobsGoto, registry, verdict, threads, hook, marks
  <2> QED BY <2>2, <2>3, <2>4
<1> QED BY <1>1, <1>2, <1>3 DEF Inv

\* A failed start leaves the running set and no process.
LEMMA SpawnFailsStep ==
    ASSUME Inv, NEW k \in Jobs, SpawnFails(k)
    PROVE  Inv'
<1>1. JobsTypeOK'
  BY DEF Inv, JobsTypeOK, Causes, Ended, Exec, ExecWait, Live, SpawnFails, JobsGoto, Answer, registry, verdict, threads, hook, marks
<1>2. RegistryOK'
  <2>0. IsFiniteSet(running) /\ Cardinality(running) \in Nat /\ running' = running \ {k}
    BY FS_CardinalityType DEF Inv, RegistryOK, SpawnFails
  <2>1. IsFiniteSet(running \ {k}) /\ Cardinality(running \ {k}) <= Cardinality(running)
    BY SMTT(30), <2>0, FS_RemoveElement
  <2> QED BY SMTT(30), <2>0, <2>1, Limits, FS_CardinalityType DEF Inv, RegistryOK, SpawnFails
<1>3. ASSUME NEW j \in Jobs PROVE PlaceOK(j)' /\ ProcessOK(j)' /\ AnswerOK(j)'
  <2>1. PlaceOK(j) /\ ProcessOK(j) /\ AnswerOK(j) /\ (InFinished(j)' <=> InFinished(j))
    BY DEF Inv, InFinished, SpawnFails, registry
  <2>2. PlaceOK(j)'
    BY SMTT(30), <2>1 DEF Inv, JobsTypeOK, PlaceOK, ProcessOK, Unborn, Attached, Exec, ExecWait, Live, SpawnFails, JobsGoto, Answer, registry, verdict, threads, hook, marks
  <2>3. ProcessOK(j)'
    BY SMTT(30), <2>1 DEF Inv, JobsTypeOK, PlaceOK, ProcessOK, Unborn, Attached, Exec, ExecWait, Live, SpawnFails, JobsGoto, Answer, registry, verdict, threads, hook, marks
  <2>4. AnswerOK(j)'
    BY SMTT(30), <2>1 DEF Inv, JobsTypeOK, PlaceOK, ProcessOK, AnswerOK, Unborn, Attached, Exec, ExecWait, Live, Ended, SpawnFails, JobsGoto, Answer, registry, verdict, threads, hook, marks
  <2> QED BY <2>2, <2>3, <2>4
<1> QED BY <1>1, <1>2, <1>3 DEF Inv

\* Storing the handle ends no job.
LEMMA AttachStep ==
    ASSUME Inv, NEW k \in Jobs, Attach(k)
    PROVE  Inv'
<1>1. JobsTypeOK'
  BY DEF Inv, JobsTypeOK, Causes, Ended, Exec, ExecWait, Live, Attach, JobsGoto, registry, verdict, threads, hook, marks
<1>2. RegistryOK'
  BY DEF Inv, RegistryOK, Attach, registry
<1>3. ASSUME NEW j \in Jobs PROVE PlaceOK(j)' /\ ProcessOK(j)' /\ AnswerOK(j)'
  <2>1. PlaceOK(j) /\ ProcessOK(j) /\ AnswerOK(j) /\ (InFinished(j)' <=> InFinished(j))
    BY DEF Inv, InFinished, Attach, registry
  <2>2. PlaceOK(j)'
    BY SMTT(30), <2>1 DEF Inv, JobsTypeOK, PlaceOK, ProcessOK, Unborn, Attached, Exec, ExecWait, Live, Attach, JobsGoto, registry, verdict, threads, hook, marks
  <2>3. ProcessOK(j)'
    BY SMTT(30), <2>1 DEF Inv, JobsTypeOK, PlaceOK, ProcessOK, Unborn, Attached, Exec, ExecWait, Live, Attach, JobsGoto, registry, verdict, threads, hook, marks
  <2>4. AnswerOK(j)'
    BY <2>1 DEF Inv, JobsTypeOK, PlaceOK, ProcessOK, AnswerOK, Unborn, Attached, Exec, ExecWait, Live, Ended, Attach, JobsGoto, registry, verdict, threads, hook, marks
  <2> QED BY <2>2, <2>3, <2>4
<1> QED BY <1>1, <1>2, <1>3 DEF Inv

\* wait answers from the verdict of a job that has ended.
LEMMA LookupStep ==
    ASSUME Inv, NEW k \in Jobs, Lookup(k)
    PROVE  Inv'
<1>1. JobsTypeOK'
  <2>1. epc' \in [Jobs -> {"none", "refused", "failed", "spawn", "attach"} \union Exec \union ExecWait]
    <3>1. PICK label \in Exec \union ExecWait : JobsGoto(k, label)
      BY DEF Lookup, Exec, ExecWait
    <3> QED BY <3>1 DEF Inv, JobsTypeOK, JobsGoto
  <2>2. Rendered(k) \in Ended
    BY DEF Rendered, Ended
  <2>3. answer' \in [Jobs -> {"none", "snapshot"} \union Ended]
    BY <2>2 DEF Inv, JobsTypeOK, Lookup, Answer
  <2> QED BY <2>1, <2>3 DEF Inv, JobsTypeOK, Lookup, registry, verdict, threads, hook, marks
<1>2. RegistryOK'
  BY DEF Inv, RegistryOK, Lookup, registry
<1>3. ASSUME NEW j \in Jobs PROVE PlaceOK(j)' /\ ProcessOK(j)' /\ AnswerOK(j)'
  <2>1. PlaceOK(j) /\ ProcessOK(j) /\ AnswerOK(j) /\ (InFinished(j)' <=> InFinished(j))
    BY DEF Inv, InFinished, Lookup, registry
  <2>2. PlaceOK(j)'
    BY SMTT(30), <2>1 DEF Inv, JobsTypeOK, PlaceOK, ProcessOK, Unborn, Attached, Exec, ExecWait, Live, Lookup, JobsGoto, Answer, Rendered, ResultCancelled, registry, verdict, threads, hook, marks
  <2>3. ProcessOK(j)'
    BY SMTT(30), <2>1 DEF Inv, JobsTypeOK, PlaceOK, ProcessOK, Unborn, Attached, Exec, ExecWait, Live, Lookup, JobsGoto, Answer, Rendered, ResultCancelled, registry, verdict, threads, hook, marks
  <2>4. AnswerOK(j)'
    BY SMTT(30), <2>1 DEF Inv, JobsTypeOK, PlaceOK, ProcessOK, AnswerOK, Unborn, Attached, Exec, ExecWait, Live, Ended, Lookup, JobsGoto, Answer, Rendered, ResultCancelled, registry, verdict, threads, hook, marks
  <2> QED BY <2>2, <2>3, <2>4
<1> QED BY <1>1, <1>2, <1>3 DEF Inv

\* wait answers with a snapshot only while the job runs.
LEMMA ReplyStep ==
    ASSUME Inv, NEW k \in Jobs, Reply(k)
    PROVE  Inv'
<1>1. JobsTypeOK'
  BY DEF Inv, JobsTypeOK, Causes, Ended, Exec, ExecWait, Live, Reply, JobsGoto, Answer, Rendered, ResultCancelled, registry, verdict, threads, hook, marks
<1>2. RegistryOK'
  BY DEF Inv, RegistryOK, Reply, registry
<1>3. ASSUME NEW j \in Jobs PROVE PlaceOK(j)' /\ ProcessOK(j)' /\ AnswerOK(j)'
  <2>1. PlaceOK(j) /\ ProcessOK(j) /\ AnswerOK(j) /\ (InFinished(j)' <=> InFinished(j))
    BY DEF Inv, InFinished, Reply, registry
  <2>2. PlaceOK(j)'
    BY SMTT(30), <2>1 DEF Inv, JobsTypeOK, PlaceOK, ProcessOK, Unborn, Attached, Exec, ExecWait, Live, Reply, JobsGoto, Answer, Rendered, ResultCancelled, registry, verdict, threads, hook, marks
  <2>3. ProcessOK(j)'
    BY SMTT(30), <2>1 DEF Inv, JobsTypeOK, PlaceOK, ProcessOK, Unborn, Attached, Exec, ExecWait, Live, Reply, JobsGoto, Answer, Rendered, ResultCancelled, registry, verdict, threads, hook, marks
  <2>4. AnswerOK(j)'
    BY SMTT(30), <2>1 DEF Inv, JobsTypeOK, PlaceOK, ProcessOK, AnswerOK, Unborn, Attached, Exec, ExecWait, Live, Ended, Reply, JobsGoto, Answer, Rendered, ResultCancelled, registry, verdict, threads, hook, marks
  <2> QED BY <2>2, <2>3, <2>4
<1> QED BY <1>1, <1>2, <1>3 DEF Inv

\* A reply that cannot be built tells nothing.
LEMMA ReplyFailsStep ==
    ASSUME Inv, NEW k \in Jobs, ReplyFails(k)
    PROVE  Inv'
<1>1. JobsTypeOK'
  BY DEF Inv, JobsTypeOK, Causes, Ended, Exec, ExecWait, Live, ReplyFails, JobsGoto, registry, verdict, threads, hook, marks
<1>2. RegistryOK'
  BY DEF Inv, RegistryOK, ReplyFails, registry
<1>3. ASSUME NEW j \in Jobs PROVE PlaceOK(j)' /\ ProcessOK(j)' /\ AnswerOK(j)'
  <2>1. PlaceOK(j) /\ ProcessOK(j) /\ AnswerOK(j) /\ (InFinished(j)' <=> InFinished(j))
    BY DEF Inv, InFinished, ReplyFails, registry
  <2>2. PlaceOK(j)'
    BY SMTT(30), <2>1 DEF Inv, JobsTypeOK, PlaceOK, ProcessOK, Unborn, Attached, Exec, ExecWait, Live, ReplyFails, JobsGoto, registry, verdict, threads, hook, marks
  <2>3. ProcessOK(j)'
    BY SMTT(30), <2>1 DEF Inv, JobsTypeOK, PlaceOK, ProcessOK, Unborn, Attached, Exec, ExecWait, Live, ReplyFails, JobsGoto, registry, verdict, threads, hook, marks
  <2>4. AnswerOK(j)'
    BY SMTT(30), <2>1 DEF Inv, JobsTypeOK, PlaceOK, ProcessOK, AnswerOK, Unborn, Attached, Exec, ExecWait, Live, Ended, ReplyFails, JobsGoto, registry, verdict, threads, hook, marks
  <2> QED BY <2>2, <2>3, <2>4
<1> QED BY <1>1, <1>2, <1>3 DEF Inv

\* The exit of a process settles the job.
LEMMA FindExitStep ==
    ASSUME Inv, NEW k \in Jobs, FindExit(k)
    PROVE  Inv'
<1>1. JobsTypeOK'
  BY DEF Inv, JobsTypeOK, Causes, Ended, Exec, ExecWait, Live, FindExit, MarkFinished, Attached, registry, verdict, threads, hook, marks
<1>2. RegistryOK'
  BY DEF Inv, RegistryOK, FindExit, registry
<1>3. ASSUME NEW j \in Jobs PROVE PlaceOK(j)' /\ ProcessOK(j)' /\ AnswerOK(j)'
  <2>1. PlaceOK(j) /\ ProcessOK(j) /\ AnswerOK(j) /\ (InFinished(j)' <=> InFinished(j))
    BY DEF Inv, InFinished, FindExit, registry
  <2>2. PlaceOK(j)'
    BY SMTT(30), <2>1 DEF Inv, JobsTypeOK, PlaceOK, ProcessOK, Unborn, Attached, Exec, ExecWait, Live, FindExit, MarkFinished, registry, verdict, threads, hook, marks
  <2>3. ProcessOK(j)'
    BY SMTT(30), <2>1 DEF Inv, JobsTypeOK, PlaceOK, ProcessOK, Unborn, Attached, Exec, ExecWait, Live, FindExit, MarkFinished, registry, verdict, threads, hook, marks
  <2>4. AnswerOK(j)'
    BY SMTT(30), <2>1 DEF Inv, JobsTypeOK, PlaceOK, ProcessOK, AnswerOK, Unborn, Attached, Exec, ExecWait, Live, Ended, FindExit, MarkFinished, Attached, registry, verdict, threads, hook, marks
  <2> QED BY <2>2, <2>3, <2>4
<1> QED BY <1>1, <1>2, <1>3 DEF Inv

\* The runner decides on an attached job.
LEMMA RunnerDecidesStep ==
    ASSUME Inv, NEW k \in Jobs, RunnerDecides(k)
    PROVE  Inv'
<1>1. JobsTypeOK'
  BY DEF Inv, JobsTypeOK, Causes, Ended, Exec, ExecWait, Live, RunnerDecides, registry, verdict, threads, hook, marks
<1>2. RegistryOK'
  BY DEF Inv, RegistryOK, RunnerDecides, registry
<1>3. ASSUME NEW j \in Jobs PROVE PlaceOK(j)' /\ ProcessOK(j)' /\ AnswerOK(j)'
  <2>1. PlaceOK(j) /\ ProcessOK(j) /\ AnswerOK(j) /\ (InFinished(j)' <=> InFinished(j))
    BY DEF Inv, InFinished, RunnerDecides, registry
  <2>2. PlaceOK(j)'
    BY <2>1 DEF Inv, JobsTypeOK, PlaceOK, ProcessOK, Unborn, Attached, Exec, ExecWait, Live, RunnerDecides, registry, verdict, threads, hook, marks
  <2>3. ProcessOK(j)'
    BY SMTT(30), <2>1 DEF Inv, JobsTypeOK, PlaceOK, ProcessOK, Unborn, Attached, Exec, ExecWait, Live, RunnerDecides, registry, verdict, threads, hook, marks
  <2>4. AnswerOK(j)'
    BY <2>1 DEF Inv, JobsTypeOK, PlaceOK, ProcessOK, AnswerOK, Unborn, Attached, Exec, ExecWait, Live, Ended, RunnerDecides, registry, verdict, threads, hook, marks
  <2> QED BY <2>2, <2>3, <2>4
<1> QED BY <1>1, <1>2, <1>3 DEF Inv

\* The runner kills an attached job, or finds it ended.
LEMMA RunnerKillsStep ==
    ASSUME Inv, NEW k \in Jobs, RunnerKills(k)
    PROVE  Inv'
<1>1. JobsTypeOK'
  <2>1. runs' \in [Jobs -> BOOLEAN] /\ cause' \in [Jobs -> Causes]
    BY ZenonT(40) DEF Inv, JobsTypeOK, Causes, RunnerKills, KillJob, verdict
  <2>2. exited' \in [Jobs -> BOOLEAN] /\ settle' \in [Jobs -> {"no", "terminate", "render", "publish", "done", "lost"}]
    BY DEF Inv, JobsTypeOK, RunnerKills, KillJob, verdict
  <2>3. victim' \in Jobs \union {NoJob} /\ todo' \subseteq Jobs /\ spc' = spc
    BY DEF Inv, JobsTypeOK, RunnerKills, KillJob, hook
  <2>4. rpc' \in [Jobs -> {"idle", "kill"}] /\ cpc' \in [Jobs -> {"idle", "kill"}]
    BY DEF Inv, JobsTypeOK, RunnerKills, threads
  <2> QED BY <2>1, <2>2, <2>3, <2>4 DEF Inv, JobsTypeOK, RunnerKills, registry, marks
<1>2. RegistryOK'
  BY DEF Inv, RegistryOK, RunnerKills, registry
<1>3. ASSUME NEW j \in Jobs PROVE PlaceOK(j)' /\ ProcessOK(j)' /\ AnswerOK(j)'
  <2>1. PlaceOK(j) /\ ProcessOK(j) /\ AnswerOK(j) /\ (InFinished(j)' <=> InFinished(j))
    BY DEF Inv, InFinished, RunnerKills, registry
  <2>2. \/ /\ runs[j] /\ ~runs'[j] /\ cause'[j] = "sampler" /\ settle'[j] = "terminate" /\ Attached(j)
        \/ runs'[j] = runs[j] /\ cause'[j] = cause[j] /\ settle'[j] = settle[j]
    <3>1. ASSUME j = k PROVE Attached(j)
      BY <2>1, <3>1 DEF RunnerKills, ProcessOK, AnswerOK
    <3>2. \/ KillJob(k, "sampler")
          \/ runs' = runs /\ cause' = cause /\ settle' = settle
      BY DEF RunnerKills, verdict
    <3>3. runs \in [Jobs -> BOOLEAN] /\ cause \in [Jobs -> Causes] /\ DOMAIN settle = Jobs
      BY DEF Inv, JobsTypeOK
    <3>4. CASE KillJob(k, "sampler")
      BY <3>1, <3>3, <3>4 DEF KillJob
    <3> QED BY <3>2, <3>4
  <2>3. /\ running' = running /\ epc' = epc /\ proc' = proc /\ answer' = answer /\ cancelled' = cancelled /\ kept' = kept
        /\ exited' = exited /\ (rpc'[j] = "kill" => rpc[j] = "kill") /\ cpc' = cpc /\ todo' = todo
    BY DEF Inv, JobsTypeOK, RunnerKills, KillJob, registry, marks, threads, hook, verdict
  <2>4. PlaceOK(j)'
    BY <2>1, <2>2, <2>3 DEF PlaceOK, Unborn, Attached, RunnerKills, registry
  <2>5. ProcessOK(j)'
    BY <2>1, <2>2, <2>3 DEF PlaceOK, ProcessOK, Unborn, Attached, Exec, ExecWait
  <2>6. AnswerOK(j)'
    BY <2>1, <2>2, <2>3 DEF AnswerOK, Ended
  <2> QED BY <2>4, <2>5, <2>6
<1> QED BY <1>1, <1>2, <1>3 DEF Inv

\* A cancel marks an attached job.
LEMMA CancelStep ==
    ASSUME Inv, NEW k \in Jobs, Cancel(k)
    PROVE  Inv'
<1>1. JobsTypeOK'
  BY DEF Inv, JobsTypeOK, Causes, Ended, Exec, ExecWait, Live, Cancel, registry, verdict, threads, hook, marks
<1>2. RegistryOK'
  BY DEF Inv, RegistryOK, Cancel, registry
<1>3. ASSUME NEW j \in Jobs PROVE PlaceOK(j)' /\ ProcessOK(j)' /\ AnswerOK(j)'
  <2>1. PlaceOK(j) /\ ProcessOK(j) /\ AnswerOK(j) /\ (InFinished(j)' <=> InFinished(j))
    BY DEF Inv, InFinished, Cancel, registry
  <2>2. PlaceOK(j)'
    BY <2>1 DEF Inv, JobsTypeOK, PlaceOK, ProcessOK, Unborn, Attached, Exec, ExecWait, Live, Cancel, registry, verdict, threads, hook, marks
  <2>3. ProcessOK(j)'
    BY SMTT(30), <2>1 DEF Inv, JobsTypeOK, PlaceOK, ProcessOK, Unborn, Attached, Exec, ExecWait, Live, Cancel, registry, verdict, threads, hook, marks
  <2>4. AnswerOK(j)'
    BY SMTT(30), <2>1 DEF Inv, JobsTypeOK, PlaceOK, ProcessOK, AnswerOK, Unborn, Attached, Exec, ExecWait, Live, Ended, Cancel, registry, verdict, threads, hook, marks
  <2> QED BY <2>2, <2>3, <2>4
<1> QED BY <1>1, <1>2, <1>3 DEF Inv

\* A cancel kills an attached job, or finds it ended.
LEMMA CancelKillsStep ==
    ASSUME Inv, NEW k \in Jobs, CancelKills(k)
    PROVE  Inv'
<1>1. JobsTypeOK'
  <2>1. runs' \in [Jobs -> BOOLEAN] /\ cause' \in [Jobs -> Causes]
    BY ZenonT(40) DEF Inv, JobsTypeOK, Causes, CancelKills, KillJob, verdict
  <2>2. exited' \in [Jobs -> BOOLEAN] /\ settle' \in [Jobs -> {"no", "terminate", "render", "publish", "done", "lost"}]
    BY DEF Inv, JobsTypeOK, CancelKills, KillJob, verdict
  <2>3. victim' \in Jobs \union {NoJob} /\ todo' \subseteq Jobs /\ spc' = spc
    BY DEF Inv, JobsTypeOK, CancelKills, KillJob, hook
  <2>4. rpc' \in [Jobs -> {"idle", "kill"}] /\ cpc' \in [Jobs -> {"idle", "kill"}]
    BY DEF Inv, JobsTypeOK, CancelKills, threads
  <2> QED BY <2>1, <2>2, <2>3, <2>4 DEF Inv, JobsTypeOK, CancelKills, registry, marks
<1>2. RegistryOK'
  BY DEF Inv, RegistryOK, CancelKills, registry
<1>3. ASSUME NEW j \in Jobs PROVE PlaceOK(j)' /\ ProcessOK(j)' /\ AnswerOK(j)'
  <2>1. PlaceOK(j) /\ ProcessOK(j) /\ AnswerOK(j) /\ (InFinished(j)' <=> InFinished(j))
    BY DEF Inv, InFinished, CancelKills, registry
  <2>2. \/ /\ runs[j] /\ ~runs'[j] /\ cause'[j] = "none" /\ settle'[j] = "terminate" /\ cancelled[j] /\ Attached(j)
        \/ runs'[j] = runs[j] /\ cause'[j] = cause[j] /\ settle'[j] = settle[j]
    <3>1. ASSUME j = k PROVE cancelled[j] /\ Attached(j)
      BY <2>1, <3>1 DEF CancelKills, ProcessOK, AnswerOK
    <3>2. \/ KillJob(k, "none")
          \/ runs' = runs /\ cause' = cause /\ settle' = settle
      BY DEF CancelKills, verdict
    <3>3. runs \in [Jobs -> BOOLEAN] /\ cause \in [Jobs -> Causes] /\ DOMAIN settle = Jobs
      BY DEF Inv, JobsTypeOK
    <3>4. CASE KillJob(k, "none")
      BY <3>1, <3>3, <3>4 DEF KillJob
    <3> QED BY <3>2, <3>4
  <2>3. /\ running' = running /\ epc' = epc /\ proc' = proc /\ answer' = answer /\ cancelled' = cancelled /\ kept' = kept
        /\ exited' = exited /\ (cpc'[j] = "kill" => cpc[j] = "kill") /\ rpc' = rpc /\ todo' = todo
    BY DEF Inv, JobsTypeOK, CancelKills, KillJob, registry, marks, threads, hook, verdict
  <2>4. PlaceOK(j)'
    BY <2>1, <2>2, <2>3 DEF PlaceOK, Unborn, Attached, CancelKills, registry
  <2>5. ProcessOK(j)'
    BY <2>1, <2>2, <2>3 DEF PlaceOK, ProcessOK, Unborn, Attached, Exec, ExecWait
  <2>6. AnswerOK(j)'
    BY <2>1, <2>2, <2>3 DEF AnswerOK, Ended
  <2> QED BY <2>4, <2>5, <2>6
<1> QED BY <1>1, <1>2, <1>3 DEF Inv

\* A killed process is gone, or a survivor, if its handle was known.
LEMMA TerminateStep ==
    ASSUME Inv, NEW k \in Jobs, Terminate(k)
    PROVE  Inv'
<1>1. JobsTypeOK'
  BY DEF Inv, JobsTypeOK, Causes, Ended, Exec, ExecWait, Live, Terminate, registry, verdict, threads, hook, marks
<1>2. RegistryOK'
  BY DEF Inv, RegistryOK, Terminate, registry
<1>3. ASSUME NEW j \in Jobs PROVE PlaceOK(j)' /\ ProcessOK(j)' /\ AnswerOK(j)'
  <2>1. PlaceOK(j) /\ ProcessOK(j) /\ AnswerOK(j) /\ (InFinished(j)' <=> InFinished(j))
    BY DEF Inv, InFinished, Terminate, registry
  <2>2. PlaceOK(j)'
    BY SMTT(30), <2>1 DEF Inv, JobsTypeOK, PlaceOK, ProcessOK, Unborn, Attached, Exec, ExecWait, Live, Terminate, registry, verdict, threads, hook, marks
  <2>3. ProcessOK(j)'
    BY SMTT(30), <2>1 DEF Inv, JobsTypeOK, PlaceOK, ProcessOK, Unborn, Attached, Exec, ExecWait, Live, Terminate, registry, verdict, threads, hook, marks
  <2>4. AnswerOK(j)'
    BY <2>1 DEF Inv, JobsTypeOK, PlaceOK, ProcessOK, AnswerOK, Unborn, Attached, Exec, ExecWait, Live, Ended, Terminate, registry, verdict, threads, hook, marks
  <2> QED BY <2>2, <2>3, <2>4
<1> QED BY <1>1, <1>2, <1>3 DEF Inv

\* The result keeps the mark of a cancelled job.
LEMMA RenderStep ==
    ASSUME Inv, NEW k \in Jobs, Render(k)
    PROVE  Inv'
<1>1. JobsTypeOK'
  BY DEF Inv, JobsTypeOK, Causes, Ended, Exec, ExecWait, Live, Render, JobsGoto, registry, verdict, threads, hook, marks
<1>2. RegistryOK'
  BY DEF Inv, RegistryOK, Render, registry
<1>3. ASSUME NEW j \in Jobs PROVE PlaceOK(j)' /\ ProcessOK(j)' /\ AnswerOK(j)'
  <2>1. PlaceOK(j) /\ ProcessOK(j) /\ AnswerOK(j) /\ (InFinished(j)' <=> InFinished(j))
    BY DEF Inv, InFinished, Render, registry
  <2>2. PlaceOK(j)'
    BY SMTT(30), <2>1 DEF Inv, JobsTypeOK, PlaceOK, ProcessOK, Unborn, Attached, Exec, ExecWait, Live, Render, JobsGoto, registry, verdict, threads, hook, marks
  <2>3. ProcessOK(j)'
    BY SMTT(30), <2>1 DEF Inv, JobsTypeOK, PlaceOK, ProcessOK, Unborn, Attached, Exec, ExecWait, Live, Render, JobsGoto, registry, verdict, threads, hook, marks
  <2>4. AnswerOK(j)'
    BY SMTT(30), <2>1 DEF Inv, JobsTypeOK, PlaceOK, ProcessOK, AnswerOK, Unborn, Attached, Exec, ExecWait, Live, Ended, Render, JobsGoto, registry, verdict, threads, hook, marks
  <2> QED BY <2>2, <2>3, <2>4
<1> QED BY <1>1, <1>2, <1>3 DEF Inv

\* A job whose result cannot be built stays in the running set.
LEMMA RenderFailsStep ==
    ASSUME Inv, NEW k \in Jobs, RenderFails(k)
    PROVE  Inv'
<1>1. JobsTypeOK'
  BY DEF Inv, JobsTypeOK, Causes, Ended, Exec, ExecWait, Live, RenderFails, JobsGoto, registry, verdict, threads, hook, marks
<1>2. RegistryOK'
  BY DEF Inv, RegistryOK, RenderFails, registry
<1>3. ASSUME NEW j \in Jobs PROVE PlaceOK(j)' /\ ProcessOK(j)' /\ AnswerOK(j)'
  <2>1. PlaceOK(j) /\ ProcessOK(j) /\ AnswerOK(j) /\ (InFinished(j)' <=> InFinished(j))
    BY DEF Inv, InFinished, RenderFails, registry
  <2>2. PlaceOK(j)'
    BY SMTT(30), <2>1 DEF Inv, JobsTypeOK, PlaceOK, ProcessOK, Unborn, Attached, Exec, ExecWait, Live, RenderFails, JobsGoto, registry, verdict, threads, hook, marks
  <2>3. ProcessOK(j)'
    BY SMTT(30), <2>1 DEF Inv, JobsTypeOK, PlaceOK, ProcessOK, Unborn, Attached, Exec, ExecWait, Live, RenderFails, JobsGoto, registry, verdict, threads, hook, marks
  <2>4. AnswerOK(j)'
    BY SMTT(30), <2>1 DEF Inv, JobsTypeOK, PlaceOK, ProcessOK, AnswerOK, Unborn, Attached, Exec, ExecWait, Live, Ended, RenderFails, JobsGoto, registry, verdict, threads, hook, marks
  <2> QED BY <2>2, <2>3, <2>4
<1> QED BY <1>1, <1>2, <1>3 DEF Inv

\* The shutdown lists registered jobs only.
LEMMA ShutdownStep ==
    ASSUME Inv, Shutdown
    PROVE  Inv'
<1>1. JobsTypeOK'
  BY DEF Inv, JobsTypeOK, Causes, Ended, Exec, ExecWait, Live, Shutdown, registry, verdict, threads, hook, marks
<1>2. RegistryOK'
  BY DEF Inv, RegistryOK, Shutdown, registry
<1>3. ASSUME NEW j \in Jobs PROVE PlaceOK(j)' /\ ProcessOK(j)' /\ AnswerOK(j)'
  <2>1. PlaceOK(j) /\ ProcessOK(j) /\ AnswerOK(j) /\ (InFinished(j)' <=> InFinished(j))
    BY DEF Inv, InFinished, Shutdown, registry
  <2>2. PlaceOK(j)'
    BY <2>1 DEF Inv, JobsTypeOK, PlaceOK, ProcessOK, Unborn, Attached, Exec, ExecWait, Live, Shutdown, registry, verdict, threads, hook, marks
  <2>3. ProcessOK(j)'
    BY <2>1 DEF Inv, JobsTypeOK, PlaceOK, ProcessOK, Unborn, Attached, Exec, ExecWait, Live, Shutdown, registry, verdict, threads, hook, marks
  <2>4. AnswerOK(j)'
    BY <2>1 DEF Inv, JobsTypeOK, PlaceOK, ProcessOK, AnswerOK, Unborn, Attached, Exec, ExecWait, Live, Ended, Shutdown, registry, verdict, threads, hook, marks
  <2> QED BY <2>2, <2>3, <2>4
<1> QED BY <1>1, <1>2, <1>3 DEF Inv

\* The shutdown kills a registered job, or finds it ended.
LEMMA ShutdownKillsStep ==
    ASSUME Inv, NEW k \in Jobs, ShutdownKills(k)
    PROVE  Inv'
<1>1. JobsTypeOK'
  <2>1. runs' \in [Jobs -> BOOLEAN] /\ cause' \in [Jobs -> Causes]
    BY ZenonT(40) DEF Inv, JobsTypeOK, Causes, ShutdownKills, KillJob, verdict
  <2>2. exited' \in [Jobs -> BOOLEAN] /\ settle' \in [Jobs -> {"no", "terminate", "render", "publish", "done", "lost"}]
    BY DEF Inv, JobsTypeOK, ShutdownKills, KillJob, verdict
  <2>3. victim' \in Jobs \union {NoJob} /\ todo' \subseteq Jobs /\ spc' = spc
    BY DEF Inv, JobsTypeOK, ShutdownKills, KillJob, hook
  <2>4. rpc' \in [Jobs -> {"idle", "kill"}] /\ cpc' \in [Jobs -> {"idle", "kill"}]
    BY DEF Inv, JobsTypeOK, ShutdownKills, threads
  <2> QED BY <2>1, <2>2, <2>3, <2>4 DEF Inv, JobsTypeOK, ShutdownKills, registry, marks
<1>2. RegistryOK'
  BY DEF Inv, RegistryOK, ShutdownKills, registry
<1>3. ASSUME NEW j \in Jobs PROVE PlaceOK(j)' /\ ProcessOK(j)' /\ AnswerOK(j)'
  <2>1. PlaceOK(j) /\ ProcessOK(j) /\ AnswerOK(j) /\ (InFinished(j)' <=> InFinished(j))
    BY DEF Inv, InFinished, ShutdownKills, registry
  <2>2. \/ /\ runs[j] /\ ~runs'[j] /\ cause'[j] = "session_end" /\ settle'[j] = "terminate" /\ ~Unborn(j)
        \/ runs'[j] = runs[j] /\ cause'[j] = cause[j] /\ settle'[j] = settle[j]
    <3>1. ASSUME j = k PROVE ~Unborn(j)
      BY <2>1, <3>1 DEF ShutdownKills, ProcessOK, AnswerOK
    <3>2. \/ KillJob(k, "session_end")
          \/ runs' = runs /\ cause' = cause /\ settle' = settle
      BY DEF ShutdownKills, verdict
    <3>3. runs \in [Jobs -> BOOLEAN] /\ cause \in [Jobs -> Causes] /\ DOMAIN settle = Jobs
      BY DEF Inv, JobsTypeOK
    <3>4. CASE KillJob(k, "session_end")
      BY <3>1, <3>3, <3>4 DEF KillJob
    <3> QED BY <3>2, <3>4
  <2>3. /\ running' = running /\ epc' = epc /\ proc' = proc /\ answer' = answer /\ cancelled' = cancelled /\ kept' = kept
        /\ exited' = exited /\ rpc' = rpc /\ cpc' = cpc /\ todo' \subseteq todo
    BY DEF Inv, JobsTypeOK, ShutdownKills, KillJob, registry, marks, threads, hook, verdict
  <2>4. PlaceOK(j)'
    BY <2>1, <2>2, <2>3 DEF PlaceOK, Unborn, Attached, ShutdownKills, registry
  <2>5. ProcessOK(j)'
    BY <2>1, <2>2, <2>3 DEF PlaceOK, ProcessOK, Unborn, Attached, Exec, ExecWait
  <2>6. AnswerOK(j)'
    BY <2>1, <2>2, <2>3 DEF AnswerOK, Ended
  <2> QED BY <2>4, <2>5, <2>6
<1> QED BY <1>1, <1>2, <1>3 DEF Inv

\* The shutdown goes on to the next job.
LEMMA ShutdownSettledStep ==
    ASSUME Inv, ShutdownSettled
    PROVE  Inv'
<1>1. JobsTypeOK'
  BY DEF Inv, JobsTypeOK, Causes, Ended, Exec, ExecWait, Live, ShutdownSettled, registry, verdict, threads, hook, marks
<1>2. RegistryOK'
  BY DEF Inv, RegistryOK, ShutdownSettled, registry
<1>3. ASSUME NEW j \in Jobs PROVE PlaceOK(j)' /\ ProcessOK(j)' /\ AnswerOK(j)'
  <2>1. PlaceOK(j) /\ ProcessOK(j) /\ AnswerOK(j) /\ (InFinished(j)' <=> InFinished(j))
    BY DEF Inv, InFinished, ShutdownSettled, registry
  <2>2. PlaceOK(j)'
    BY <2>1 DEF Inv, JobsTypeOK, PlaceOK, ProcessOK, Unborn, Attached, Exec, ExecWait, Live, ShutdownSettled, registry, verdict, threads, hook, marks
  <2>3. ProcessOK(j)'
    BY <2>1 DEF Inv, JobsTypeOK, PlaceOK, ProcessOK, Unborn, Attached, Exec, ExecWait, Live, ShutdownSettled, registry, verdict, threads, hook, marks
  <2>4. AnswerOK(j)'
    BY <2>1 DEF Inv, JobsTypeOK, PlaceOK, ProcessOK, AnswerOK, Unborn, Attached, Exec, ExecWait, Live, Ended, ShutdownSettled, registry, verdict, threads, hook, marks
  <2> QED BY <2>2, <2>3, <2>4
<1> QED BY <1>1, <1>2, <1>3 DEF Inv

\* A shutdown that fails forgets the jobs it has not killed.
LEMMA ShutdownAbortsStep ==
    ASSUME Inv, ShutdownAborts
    PROVE  Inv'
<1>1. JobsTypeOK'
  BY DEF Inv, JobsTypeOK, Causes, Ended, Exec, ExecWait, Live, ShutdownAborts, JobsGoto, registry, verdict, threads, hook, marks
<1>2. RegistryOK'
  BY DEF Inv, RegistryOK, ShutdownAborts, registry
<1>3. ASSUME NEW j \in Jobs PROVE PlaceOK(j)' /\ ProcessOK(j)' /\ AnswerOK(j)'
  <2>1. PlaceOK(j) /\ ProcessOK(j) /\ AnswerOK(j) /\ (InFinished(j)' <=> InFinished(j))
    BY DEF Inv, InFinished, ShutdownAborts, registry
  <2>2. PlaceOK(j)'
    BY SMTT(30), <2>1 DEF Inv, JobsTypeOK, PlaceOK, ProcessOK, Unborn, Attached, Exec, ExecWait, Live, ShutdownAborts, JobsGoto, registry, verdict, threads, hook, marks
  <2>3. ProcessOK(j)'
    BY SMTT(30), <2>1 DEF Inv, JobsTypeOK, PlaceOK, ProcessOK, Unborn, Attached, Exec, ExecWait, Live, ShutdownAborts, JobsGoto, registry, verdict, threads, hook, marks
  <2>4. AnswerOK(j)'
    BY SMTT(30), <2>1 DEF Inv, JobsTypeOK, PlaceOK, ProcessOK, AnswerOK, Unborn, Attached, Exec, ExecWait, Live, Ended, ShutdownAborts, JobsGoto, registry, verdict, threads, hook, marks
  <2> QED BY <2>2, <2>3, <2>4
<1> QED BY <1>1, <1>2, <1>3 DEF Inv

\* The sweep ends processes and no job.
LEMMA SweepStep ==
    ASSUME Inv, Sweep
    PROVE  Inv'
<1>0. PICK left \in SUBSET {j \in Jobs \intersect Troubled : Live(j)} :
        proc' = [j \in Jobs |-> IF j \in left THEN "survivor" ELSE IF Live(j) THEN "gone" ELSE proc[j]]
  BY DEF Sweep
<1>a. ASSUME NEW j \in Jobs
      PROVE  /\ proc'[j] \in {"none", "survivor", "gone"}
             /\ proc[j] = "none" => proc'[j] = "none"
  BY SMTT(30), <1>0 DEF Inv, JobsTypeOK, Live
<1>b. proc' \in [Jobs -> {"none", "alive", "survivor", "gone"}]
  BY <1>0, <1>a
<1>1. JobsTypeOK'
  BY <1>b DEF Inv, JobsTypeOK, Sweep, registry, verdict, threads, hook, marks
<1>2. RegistryOK'
  BY DEF Inv, RegistryOK, Sweep, registry
<1>3. ASSUME NEW j \in Jobs PROVE PlaceOK(j)' /\ ProcessOK(j)' /\ AnswerOK(j)'
  <2>1. PlaceOK(j) /\ ProcessOK(j) /\ AnswerOK(j) /\ (InFinished(j)' <=> InFinished(j))
    BY DEF Inv, InFinished, Sweep, registry
  <2>2. PlaceOK(j)'
    BY <2>1 DEF Inv, JobsTypeOK, PlaceOK, ProcessOK, Unborn, Attached, Exec, ExecWait, Live, Sweep, registry, verdict, threads, hook, marks
  <2>3. ProcessOK(j)'
    BY <2>1, <1>a DEF Inv, ProcessOK, Unborn, Attached, Sweep, registry, verdict, threads
  <2>4. AnswerOK(j)'
    BY <2>1 DEF Inv, JobsTypeOK, PlaceOK, ProcessOK, AnswerOK, Unborn, Attached, Exec, ExecWait, Live, Ended, Sweep, registry, verdict, threads, hook, marks
  <2> QED BY <2>2, <2>3, <2>4
<1> QED BY <1>1, <1>2, <1>3 DEF Inv

\* A process that exits needs no thread.
LEMMA ProcessExitsStep ==
    ASSUME Inv, NEW k \in Jobs, ProcessExits(k)
    PROVE  Inv'
<1>1. JobsTypeOK'
  BY DEF Inv, JobsTypeOK, Causes, Ended, Exec, ExecWait, Live, ProcessExits, registry, verdict, threads, hook, marks
<1>2. RegistryOK'
  BY DEF Inv, RegistryOK, ProcessExits, registry
<1>3. ASSUME NEW j \in Jobs PROVE PlaceOK(j)' /\ ProcessOK(j)' /\ AnswerOK(j)'
  <2>1. PlaceOK(j) /\ ProcessOK(j) /\ AnswerOK(j) /\ (InFinished(j)' <=> InFinished(j))
    BY DEF Inv, InFinished, ProcessExits, registry
  <2>2. PlaceOK(j)'
    BY <2>1 DEF Inv, JobsTypeOK, PlaceOK, ProcessOK, Unborn, Attached, Exec, ExecWait, Live, ProcessExits, registry, verdict, threads, hook, marks
  <2>3. ProcessOK(j)'
    BY SMTT(30), <2>1 DEF Inv, JobsTypeOK, PlaceOK, ProcessOK, Unborn, Attached, Exec, ExecWait, Live, ProcessExits, registry, verdict, threads, hook, marks
  <2>4. AnswerOK(j)'
    BY <2>1 DEF Inv, JobsTypeOK, PlaceOK, ProcessOK, AnswerOK, Unborn, Attached, Exec, ExecWait, Live, Ended, ProcessExits, registry, verdict, threads, hook, marks
  <2> QED BY <2>2, <2>3, <2>4
<1> QED BY <1>1, <1>2, <1>3 DEF Inv

\* The FIFO after a publication: the job, and what it held but the oldest.
LEMMA AppendedHolds ==
    ASSUME finished \in Seq(Jobs), Len(finished) <= Fifo, Fifo \in Nat \ {0}, NEW k \in Jobs
    PROVE  LET new == Appended(k)
           IN  /\ \A i \in 1 .. Len(new) : new[i] = k \/ \E n \in 1 .. Len(finished) : finished[n] = new[i]
               /\ \A n \in 1 .. Len(finished) :
                    (\E i \in 1 .. Len(new) : new[i] = finished[n]) \/ Len(new) = Fifo
BY SMTT(30) DEF Appended

\* Publication moves the job from the running set to the results, and the
\* result it evicts leaves the FIFO full.
LEMMA PublishStep ==
    ASSUME Inv, NEW k \in Jobs, Publish(k)
    PROVE  Inv'
<1>1. finished \in Seq(Jobs) /\ finished' = Appended(k) /\ Len(finished) <= Fifo /\ Fifo \in Nat \ {0}
  BY Limits DEF Inv, JobsTypeOK, RegistryOK, Publish
<1>2. finished' \in Seq(Jobs) /\ Len(finished') <= Fifo
  BY SMTT(30), <1>1 DEF Appended
<1>3. JobsTypeOK'
  BY <1>2 DEF Inv, JobsTypeOK, Causes, Ended, Exec, ExecWait, Live, Publish, verdict, threads, hook, marks
<1>4. RegistryOK'
  <2>0. IsFiniteSet(running) /\ Cardinality(running) \in Nat /\ running' = running \ {k}
    BY FS_CardinalityType DEF Inv, RegistryOK, Publish
  <2>1. IsFiniteSet(running \ {k}) /\ Cardinality(running \ {k}) <= Cardinality(running)
    BY SMTT(30), <2>0, FS_RemoveElement
  <2> QED BY SMTT(30), <2>0, <2>1, <1>2, Limits, FS_CardinalityType DEF Inv, RegistryOK, Publish
<1>5. InFinished(k)'
  BY SMTT(30), <1>1 DEF InFinished, Appended
<1>10. /\ \A i \in 1 .. Len(finished') :
             finished'[i] = k \/ \E n \in 1 .. Len(finished) : finished[n] = finished'[i]
       /\ \A n \in 1 .. Len(finished) :
             (\E i \in 1 .. Len(finished') : finished'[i] = finished[n]) \/ Len(finished') = Fifo
  <2> DEFINE new == Appended(k)
  <2>1. /\ \A i \in 1 .. Len(new) : new[i] = k \/ \E n \in 1 .. Len(finished) : finished[n] = new[i]
        /\ \A n \in 1 .. Len(finished) : (\E i \in 1 .. Len(new) : new[i] = finished[n]) \/ Len(new) = Fifo
    BY <1>1, AppendedHolds
  <2>2. finished' = new
    BY <1>1
  <2> HIDE DEF new
  <2> QED BY <2>1, <2>2
<1>6. ASSUME NEW j \in Jobs, InFinished(j)' PROVE j = k \/ InFinished(j)
  BY <1>6, <1>10 DEF InFinished
<1>7. ASSUME NEW j \in Jobs, InFinished(j) PROVE InFinished(j)' \/ Len(finished') = Fifo
  BY <1>7, <1>10 DEF InFinished
<1>8. Len(finished) = Fifo => Len(finished') = Fifo
  BY SMTT(30), <1>1 DEF Appended
<1>9. ASSUME NEW j \in Jobs PROVE PlaceOK(j)' /\ ProcessOK(j)' /\ AnswerOK(j)'
  <2>1. PlaceOK(j) /\ ProcessOK(j) /\ AnswerOK(j)
    BY DEF Inv
  <2>2. PlaceOK(j)'
    BY ZenonT(30), <2>1, <1>5, <1>6, <1>7, <1>8 DEF Inv, JobsTypeOK, PlaceOK, Unborn, Publish, verdict
  <2>3. ProcessOK(j)' /\ AnswerOK(j)'
    BY SMTT(30), <2>1 DEF Inv, JobsTypeOK, PlaceOK, ProcessOK, AnswerOK, Unborn, Attached, Exec, ExecWait, Live, Ended, Publish, verdict, threads, hook, marks
  <2> QED BY <2>2, <2>3
<1> QED BY <1>3, <1>4, <1>9 DEF Inv

\* Every step of the system keeps Inv.
LEMMA StepInv == Inv /\ [JobsNext]_jobs_vars => Inv'
<1> SUFFICES ASSUME Inv, [JobsNext]_jobs_vars PROVE Inv'
  OBVIOUS
<1>1. ASSUME NEW k \in Jobs, Requests(k) PROVE Inv'
  BY <1>1, StartStep, RefuseStartStep, LookupStep, CancelStep DEF Requests
<1>2. ASSUME NEW k \in Jobs, Threads(k) PROVE Inv'
  BY <1>2, SpawnStep, SpawnFailsStep, AttachStep, ReplyStep, FindExitStep, RunnerDecidesStep,
     RunnerKillsStep, CancelKillsStep, TerminateStep, RenderStep, RenderFailsStep, ReplyFailsStep, PublishStep, ShutdownKillsStep DEF Threads, Settle
<1>3. CASE UNCHANGED jobs_vars
  <2>1. JobsTypeOK' /\ RegistryOK'
    BY <1>3 DEF Inv, JobsTypeOK, RegistryOK, jobs_vars, registry, verdict, threads, hook, marks
  <2>2. ASSUME NEW j \in Jobs PROVE PlaceOK(j)' /\ ProcessOK(j)' /\ AnswerOK(j)'
    <3>1. InFinished(j)' <=> InFinished(j)
      BY <1>3 DEF InFinished, jobs_vars, registry
    <3> QED BY <1>3, <3>1 DEF Inv, PlaceOK, ProcessOK, AnswerOK, Unborn, Attached, Exec, ExecWait, Live, jobs_vars, registry, verdict, threads, hook, marks
  <2> QED BY <2>1, <2>2 DEF Inv
<1> QED
  BY <1>1, <1>2, <1>3, ProcessExitsStep, ShutdownStep, ShutdownSettledStep, ShutdownAbortsStep, SweepStep DEF JobsNext

-----------------------------------------------------------------------------
\* The inductive invariant holds in every reachable state.
THEOREM JobsInvariance == JobsSpec => []Inv
<1> QED BY InitInv, StepInv, PTL DEF JobsSpec

\* No process outlives its job, but a survivor of a kill and the one spawned
\* after shutdown_all has ended the job.
THEOREM JobsNoStray == JobsSpec => []NoStray
<1>1. Inv => NoStray
  BY DEF Inv, NoStray, JobsTypeOK, PlaceOK, ProcessOK, Unborn, Live, Exec, ExecWait
<1> QED BY <1>1, JobsInvariance, PTL

\* The registry answers for at most MaxRunning processes.
THEOREM JobsWithinCap == JobsSpec => []LiveWithinCap
<1>1. Inv => LiveWithinCap
  <2> SUFFICES ASSUME Inv PROVE LiveWithinCap
    OBVIOUS
  <2> DEFINE L == {j \in Jobs : proc[j] = "alive" /\ cause[j] # "session_end"}
  <2>1. L \subseteq running
    BY DEF Inv, JobsTypeOK, PlaceOK, ProcessOK, Unborn
  <2>2. IsFiniteSet(running) /\ Cardinality(running) <= MaxRunning
    BY DEF Inv, RegistryOK
  <2> HIDE DEF L
  <2>3. IsFiniteSet(L) /\ Cardinality(L) <= Cardinality(running)
    BY <2>1, <2>2, FS_Subset
  <2>4. Cardinality(L) <= MaxRunning
    BY SMTT(30), <2>2, <2>3, FS_CardinalityType, Limits
  <2> QED BY <2>4 DEF LiveWithinCap, L
<1> QED BY <1>1, JobsInvariance, PTL

\* A registered job is found until newer results have filled the FIFO.
THEOREM JobsFindable == JobsSpec => []Findable
<1>1. Inv => Findable
  BY DEF Inv, Findable, PlaceOK, Unborn
<1> QED BY <1>1, JobsInvariance, PTL

\* Only a job that ended by itself or was cancelled is reported as an exit,
\* never one the runner's budget or the shutdown killed.
THEOREM JobsExitIsReal == JobsSpec => []ExitIsReal
<1>1. Inv => ExitIsReal
  BY DEF Inv, ExitIsReal, AnswerOK, Ended, JobsTypeOK
<1> QED BY <1>1, JobsInvariance, PTL

\* What an agent was told of the end of a job is never taken back, and it
\* changes only between exit and cancelled, for a job that was cancelled.
THEOREM JobsVerdictStands == JobsSpec => VerdictStands
<1> DEFINE Stands(j) == /\ answer'[j] \in Ended
                        /\ answer[j] = "killed" <=> answer'[j] = "killed"
                        /\ answer'[j] # answer[j] => cancelled[j]
<1>1. ASSUME Inv, [JobsNext]_jobs_vars, NEW j \in Jobs, answer[j] \in Ended
      PROVE  Stands(j)
  <2>1. AnswerOK(j) /\ ~runs[j]
    BY <1>1 DEF Inv, AnswerOK
  <2>2. ASSUME answer'[j] = answer[j] PROVE Stands(j)
    BY <1>1, <2>2
  <2>3. ASSUME answer'[j] = Rendered(j) PROVE Stands(j)
    BY SMTT(30), <1>1, <2>1, <2>3 DEF AnswerOK, Rendered, ResultCancelled, Ended
  <2>4. answer'[j] = answer[j] \/ answer'[j] = Rendered(j)
    <3>1. ASSUME NEW k \in Jobs, Lookup(k) \/ Reply(k)
          PROVE  answer'[j] = answer[j] \/ answer'[j] = Rendered(j)
      BY SMTT(30), <1>1, <2>1, <3>1 DEF Inv, JobsTypeOK, Lookup, Reply, Answer
    <3>2. ASSUME NEW k \in Jobs, Start(k) \/ RefuseStart(k) \/ Cancel(k) PROVE answer' = answer
      BY <3>2 DEF Start, RefuseStart, Cancel
    <3>3. ASSUME NEW k \in Jobs, SpawnJob(k) \/ SpawnFails(k) \/ Attach(k) \/ ReplyFails(k) \/ FindExit(k)
                                   \/ RunnerDecides(k) \/ RunnerKills(k) \/ CancelKills(k)
          PROVE  answer' = answer
      BY <3>3 DEF SpawnJob, SpawnFails, Attach, ReplyFails, FindExit, RunnerDecides, RunnerKills, CancelKills
    <3>4. ASSUME NEW k \in Jobs, Settle(k) \/ RenderFails(k) \/ ShutdownKills(k) \/ ProcessExits(k)
          PROVE  answer' = answer
      BY <3>4 DEF Settle, Terminate, Render, Publish, RenderFails, ShutdownKills, ProcessExits
    <3>5. ASSUME Shutdown \/ ShutdownSettled \/ ShutdownAborts \/ Sweep \/ UNCHANGED jobs_vars
          PROVE  answer' = answer
      BY <3>5 DEF Shutdown, ShutdownSettled, ShutdownAborts, Sweep, jobs_vars
    <3> QED BY <1>1, <3>1, <3>2, <3>3, <3>4, <3>5 DEF JobsNext, Requests, Threads
  <2> QED BY <2>2, <2>3, <2>4
<1>2. Inv /\ [JobsNext]_jobs_vars =>
        [\A j \in Jobs : answer[j] \in Ended => Stands(j)]_jobs_vars
  BY <1>1
<1> QED BY ZenonT(40), <1>2, JobsInvariance, PTL DEF JobsSpec, VerdictStands

-----------------------------------------------------------------------------
(***************************************************************************)
(* The worktree lease, for every set of processes and every set of inodes. *)
(***************************************************************************)
NoFileOpen == {"idle", "create", "read", "probe", "open", "dead"}
HoldsFlock == {"stamp", "held", "verify", "truncate", "restamp"}
OwnsPath == {"stamp", "held", "discard", "unlink", "truncate", "restamp"}

(* A process has a file open exactly between its open and its close, and a *)
(* flock belongs to a process that has the inode open.                     *)
Descriptors ==
    /\ \A p \in Procs : fd[p] = Nil <=> lease_pc[p] \in NoFileOpen
    /\ \A i \in Inodes : locker[i] # Nil => fd[locker[i]] = i
    /\ \A p \in Procs : lease_pc[p] \in HoldsFlock => locker[fd[p]] = p

(* What the inode checks and the order of the system calls achieve: the    *)
(* path names the file of whoever is about to stamp, holds or is about to  *)
(* unlink, and that process has the flock.                                 *)
Sole ==
    /\ \A p \in Procs : lease_pc[p] \in OwnsPath => path = fd[p] /\ locker[fd[p]] = p
    /\ \A p \in Procs : lease_pc[p] = "lock" => path = fd[p] /\ locker[fd[p]] = Nil
    /\ \A p, q \in Procs : lease_pc[p] = "lock" /\ lease_pc[q] = "lock" => p = q
    /\ \A p \in Procs : lease_pc[p] = "held" => payload[fd[p]] = p

(* A call of is_lease_held that is followed has read the pid of the holder. *)
Asking == ask # "free" /\ (ask = "probe" => asked \in Holders)

LeaseInv == LeaseTypeOK /\ Descriptors /\ (overtaken \/ Sole) /\ (overtaken \/ Asking)

(* The processes start with nothing open and no file.                      *)
LEMMA LeaseInitInv == LeaseInit => LeaseInv
BY NilIsNew DEF LeaseInit, LeaseInv, LeaseTypeOK, Descriptors, Sole, Asking, LeaseSteps, NoFileOpen, HoldsFlock, OwnsPath

(* No system call breaks the type invariant.                               *)
LEMMA LeaseTypeStep == LeaseInv /\ [LeaseNext]_lease_vars => LeaseTypeOK'
<1> SUFFICES ASSUME LeaseInv, [LeaseNext]_lease_vars PROVE LeaseTypeOK'
  OBVIOUS
<1> DEFINE CallTypeOK == ask \in {"none", "probe", "free"} /\ asked \in Procs \cup {Nil}
           FileTypeOK == /\ path \in Inodes \cup {Nil}
                         /\ fd \in [Procs -> Inodes \cup {Nil}]
                         /\ locker \in [Inodes -> Procs \cup {Nil}]
                         /\ payload \in [Inodes -> Procs \cup {Nil}]
                         /\ lease_pc \in [Procs -> LeaseSteps]
                         /\ rec \in [Procs -> Procs \cup {Nil}]
                         /\ overtaken \in BOOLEAN
<1>4. ASSUME DuringCall PROVE CallTypeOK'
  BY <1>4 DEF LeaseInv, LeaseTypeOK, DuringCall, asker
<1>5. CASE AskReads
  BY SMTT(30), <1>5 DEF LeaseInv, LeaseTypeOK, AskReads
<1>6. CASE AskProbes
  BY <1>6, NilIsNew DEF LeaseInv, LeaseTypeOK, AskProbes
<1> USE NilIsNew DEF LeaseInv, LeaseTypeOK, Descriptors, LeaseSteps, LeaseGoto, NoFileOpen
<1>1. CASE UNCHANGED lease_vars
  BY <1>1 DEF lease_vars, asker
<1>2. ASSUME NEW p \in Procs, Calls(p) PROVE FileTypeOK'
  <2>1. CASE CreateExclusive(p)
    BY SMTT(30), <2>1 DEF CreateExclusive, FreeInodes
  <2>2. CASE LockNewFile(p) \/ StampNewFile(p) \/ Truncate(p) \/ Restamp(p)
    BY SMTT(30), <2>2 DEF LockNewFile, StampNewFile, Truncate, Restamp
  <2>3. CASE Close(p)
    BY <2>3 DEF Close, DropFlocks
  <2>4. CASE ReadRecord(p) \/ LeaseProbeSaysDead(p) \/ LeaseProbeRefuses(p) \/ OpenLockFile(p)
    BY SMTT(30), <2>4 DEF ReadRecord, LeaseProbeSaysDead, LeaseProbeRefuses, OpenLockFile
  <2>5. CASE \/ BeginAgentLease(p) \/ CreateFileExists(p) \/ LockNewFileFails(p)
             \/ CheckOwnPath(p) \/ Unlink(p) \/ RecordGone(p)
             \/ LockOldFileFails(p) \/ VerifyPath(p)
    BY <2>5 DEF BeginAgentLease, CreateFileExists, LockNewFileFails, CheckOwnPath, Unlink,
                RecordGone, LockOldFileFails, VerifyPath
  <2>6. CASE LockOldFile(p)
    <3>1. overtaken' \in BOOLEAN
      BY <2>6 DEF LockOldFile
    <3>2. locker' \in [Inodes -> Procs \cup {Nil}] /\ lease_pc' \in [Procs -> LeaseSteps]
      BY <2>6 DEF LockOldFile
    <3> QED BY <2>6, <3>1, <3>2 DEF LockOldFile
  <2> QED BY <1>2, <2>1, <2>2, <2>3, <2>4, <2>5, <2>6 DEF Calls
<1>3. ASSUME NEW p \in Procs, Fails(p) PROVE FileTypeOK'
  BY <1>3 DEF Fails, StampNewFileFails, RewriteFails, Crash, DropFlocks
<1>7. FileTypeOK' /\ CallTypeOK' => LeaseTypeOK'
  OBVIOUS
<1> HIDE DEF FileTypeOK, CallTypeOK
<1> QED BY <1>1, <1>2, <1>3, <1>4, <1>5, <1>6, <1>7 DEF LeaseNext, Step, Fault

(* Descriptors and flocks stay paired whatever a process does, a crash     *)
(* between two system calls included.                                      *)
LEMMA DescriptorStep == LeaseInv /\ [LeaseNext]_lease_vars => Descriptors'
<1> SUFFICES ASSUME LeaseInv, [LeaseNext]_lease_vars PROVE Descriptors'
  OBVIOUS
<1> USE NilIsNew DEF LeaseInv, LeaseTypeOK, Descriptors, LeaseGoto, NoFileOpen, HoldsFlock
<1>1. CASE AskReads \/ AskProbes \/ UNCHANGED lease_vars
  BY <1>1 DEF lease_vars, AskReads, AskProbes
<1>2. ASSUME NEW p \in Procs, Calls(p) PROVE Descriptors'
  <2>1. CASE CreateExclusive(p)
    BY SMTT(30), <2>1 DEF CreateExclusive, FreeInodes
  <2>2. CASE LockNewFile(p)
    BY SMTT(30), <2>2 DEF LockNewFile
  <2>3. CASE LockOldFile(p)
    BY SMTT(30), <2>3 DEF LockOldFile
  <2>4. CASE StampNewFile(p) \/ Truncate(p) \/ Restamp(p)
    BY SMTT(30), <2>4 DEF StampNewFile, Truncate, Restamp
  <2>5. CASE Close(p)
    BY <2>5 DEF Close, DropFlocks
  <2>6. CASE ReadRecord(p) \/ LeaseProbeSaysDead(p) \/ LeaseProbeRefuses(p)
    BY SMTT(30), <2>6 DEF ReadRecord, LeaseProbeSaysDead, LeaseProbeRefuses
  <2>7. CASE OpenLockFile(p)
    BY SMTT(30), <2>7 DEF OpenLockFile
  <2>8. CASE \/ BeginAgentLease(p) \/ CreateFileExists(p) \/ LockNewFileFails(p)
             \/ CheckOwnPath(p) \/ Unlink(p) \/ RecordGone(p)
             \/ LockOldFileFails(p) \/ VerifyPath(p)
    BY SMTT(30), <2>8 DEF BeginAgentLease, CreateFileExists, LockNewFileFails, CheckOwnPath, Unlink,
                RecordGone, LockOldFileFails, VerifyPath
  <2> QED BY <1>2, <2>1, <2>2, <2>3, <2>4, <2>5, <2>6, <2>7, <2>8 DEF Calls
<1>3. ASSUME NEW p \in Procs, Fails(p) PROVE Descriptors'
  <2>1. CASE StampNewFileFails(p) \/ RewriteFails(p)
    BY ZenonT(30), <2>1 DEF StampNewFileFails, RewriteFails
  <2>2. CASE Crash(p)
    BY <2>2 DEF Crash, DropFlocks, Alive
  <2> QED BY <1>3, <2>1, <2>2 DEF Fails
<1> QED BY <1>1, <1>2, <1>3 DEF LeaseNext, Step, Fault

(* While nobody is overtaken, whoever stamps, holds or unlinks owns the    *)
(* path and has its flock.                                                 *)
LEMMA SoleStep == LeaseInv /\ [LeaseNext]_lease_vars => (overtaken \/ Sole)'
<1> SUFFICES ASSUME LeaseInv, [LeaseNext]_lease_vars, ~overtaken' PROVE Sole'
  OBVIOUS
<1> USE NilIsNew DEF LeaseInv, LeaseTypeOK, Descriptors, Sole, LeaseGoto, NoFileOpen, HoldsFlock, OwnsPath
<1>1. CASE AskReads \/ AskProbes \/ UNCHANGED lease_vars
  <2>1. /\ path' = path /\ fd' = fd /\ locker' = locker /\ payload' = payload
        /\ lease_pc' = lease_pc /\ overtaken' = overtaken
    BY <1>1 DEF lease_vars, AskReads, AskProbes
  <2> QED BY SMTT(30), <2>1
<1>2. ASSUME NEW p \in Procs, Calls(p) PROVE Sole'
  <2>1. CASE CreateExclusive(p)
    BY SMTT(30), <2>1 DEF CreateExclusive, FreeInodes
  <2>2. CASE LockNewFile(p)
    BY SMTT(30), <2>2 DEF LockNewFile
  <2>3. CASE LockOldFile(p)
    <3>1. ~overtaken /\ \A q \in Procs : ~(lease_pc[q] = "lock" /\ fd[q] = fd[p])
      BY <2>3 DEF LockOldFile
    <3> QED BY SMTT(30), <2>3, <3>1 DEF LockOldFile
  <2>4. CASE StampNewFile(p)
    BY SMTT(30), <2>4 DEF StampNewFile
  <2>5. CASE Truncate(p)
    BY SMTT(30), <2>5 DEF Truncate
  <2>6. CASE Restamp(p)
    BY SMTT(30), <2>6 DEF Restamp
  <2>7. CASE Close(p)
    BY SMTT(30), <2>7 DEF Close, DropFlocks
  <2>8. CASE ReadRecord(p) \/ LeaseProbeSaysDead(p) \/ LeaseProbeRefuses(p)
    BY SMTT(30), <2>8 DEF ReadRecord, LeaseProbeSaysDead, LeaseProbeRefuses
  <2>9. CASE OpenLockFile(p)
    BY SMTT(30), <2>9 DEF OpenLockFile
  <2>10. CASE CheckOwnPath(p) \/ VerifyPath(p)
    BY SMTT(30), <2>10 DEF CheckOwnPath, VerifyPath, FdOwnsPath
  <2>11. CASE Unlink(p)
    BY SMTT(30), <2>11 DEF Unlink
  <2>12. CASE \/ BeginAgentLease(p) \/ CreateFileExists(p) \/ LockNewFileFails(p)
              \/ RecordGone(p) \/ LockOldFileFails(p)
    BY SMTT(30), <2>12 DEF BeginAgentLease, CreateFileExists, LockNewFileFails, RecordGone,
                 LockOldFileFails
  <2> QED BY <1>2, <2>1, <2>2, <2>3, <2>4, <2>5, <2>6, <2>7, <2>8, <2>9, <2>10, <2>11, <2>12
          DEF Calls
<1>3. ASSUME NEW p \in Procs, Fails(p) PROVE Sole'
  <2>1. CASE StampNewFileFails(p) \/ RewriteFails(p)
    BY SMTT(30), <2>1 DEF StampNewFileFails, RewriteFails
  <2>2. CASE Crash(p)
    BY SMTT(30), <2>2 DEF Crash, DropFlocks, Alive
  <2> QED BY <1>3, <2>1, <2>2 DEF Fails
<1> QED BY <1>1, <1>2, <1>3 DEF LeaseNext, Step, Fault

(* Whoever holds the lease owns the path, is named in the file and has it  *)
(* open: the probe finds it alive.                                         *)
LEMMA HolderIsSeen ==
    ASSUME LeaseInv, ~overtaken, NEW p \in Holders
    PROVE  path # Nil /\ payload[path] = p /\ LeaseVerdicts(p) = {"live"} /\ Holders = {p}
<1>1. p \in Procs /\ lease_pc[p] = "held" /\ path = fd[p] /\ path # Nil /\ payload[path] = p
  BY NilIsNew DEF Holders, LeaseInv, Sole, OwnsPath, Descriptors, NoFileOpen
<1>2. LeaseVerdicts(p) = {"live"}
  BY <1>1, NilIsNew DEF LeaseVerdicts, HolderVerdicts, HasLockFileOpen, Alive
<1>3. ASSUME NEW q \in Holders PROVE q = p
  BY <1>1 DEF Holders, LeaseInv, Sole, OwnsPath
<1> QED BY <1>1, <1>2, <1>3

(* A system call moves the program counter of its process only.            *)
LEMMA OneMoves ==
    ASSUME LeaseTypeOK, NEW p \in Procs, Calls(p) \/ Fails(p), NEW q \in Procs, q # p
    PROVE  lease_pc'[q] = lease_pc[q]
<1>1. PICK step : LeaseGoto(p, step)
  BY DEF Calls, Fails, BeginAgentLease, CreateExclusive, CreateFileExists, LockNewFile,
     LockNewFileFails, StampNewFile, CheckOwnPath, Unlink, Close, ReadRecord, RecordGone,
     LeaseProbeSaysDead, LeaseProbeRefuses, OpenLockFile, LockOldFile, LockOldFileFails, VerifyPath,
     Truncate, Restamp, StampNewFileFails, RewriteFails, Crash
<1> QED BY <1>1 DEF LeaseGoto, LeaseTypeOK

(* A takeover before the creator's flock is not forgotten.                 *)
LEMMA OvertakenStays == overtaken /\ [LeaseNext]_lease_vars => overtaken'
BY DEF LeaseNext, Step, Fault, Calls, Fails, lease_vars, AskReads, AskProbes, BeginAgentLease,
   CreateExclusive, CreateFileExists, LockNewFile,
   LockNewFileFails, StampNewFile, CheckOwnPath, Unlink, Close, ReadRecord, RecordGone,
   LeaseProbeSaysDead, LeaseProbeRefuses, OpenLockFile, LockOldFile, LockOldFileFails, VerifyPath,
   Truncate, Restamp, StampNewFileFails, RewriteFails, Crash

(* The process a call has read about holds the lease until the probe, or   *)
(* the call is one during which nobody held it.                            *)
LEMMA AskingStep == LeaseInv /\ [LeaseNext]_lease_vars => (overtaken \/ Asking)'
<1> SUFFICES ASSUME LeaseInv, [LeaseNext]_lease_vars, ~overtaken' PROVE Asking'
  OBVIOUS
<1>0. ~overtaken /\ Asking
  BY OvertakenStays DEF LeaseInv
<1>1. CASE AskReads
  <2>1. PICK p \in Holders : TRUE
    BY <1>1 DEF AskReads, Contended
  <2>2. path # Nil /\ payload[path] = p
    BY <1>0, <2>1, HolderIsSeen
  <2> QED BY <1>1, <2>2 DEF AskReads, Asking, Holders
<1>2. CASE AskProbes
  <2>1. LeaseVerdicts(asked) = {"live"}
    BY <1>0, <1>2, HolderIsSeen DEF AskProbes, Asking
  <2> QED BY <1>2, <2>1 DEF AskProbes, Asking
<1>3. ASSUME NEW p \in Procs, Calls(p) \/ Fails(p), DuringCall PROVE Asking'
  <2>1. CASE ask = "probe" /\ Contended'
    <3>1. asked \in Procs /\ lease_pc[asked] = "held" /\ Holders = {asked}
      BY <1>0, <2>1, HolderIsSeen DEF Asking, Holders
    <3>2. PICK q \in Procs : lease_pc'[q] = "held"
      BY <2>1 DEF Contended, Holders
    <3>3. lease_pc'[asked] = "held"
      <4>1. CASE p = asked
        <5>1. CASE q = asked
          BY <3>2, <5>1
        <5>2. CASE q # asked
          <6>1. lease_pc[q] = "held"
            BY <1>3, <3>2, <4>1, <5>2, OneMoves DEF LeaseInv
          <6>2. q \in Holders
            BY <6>1 DEF Holders
          <6> QED BY <3>1, <5>2, <6>2
        <5> QED BY <5>1, <5>2
      <4>2. CASE p # asked
        BY <1>3, <3>1, <4>2, OneMoves DEF LeaseInv
      <4> QED BY <4>1, <4>2
    <3> QED BY <1>3, <2>1, <3>1, <3>3 DEF DuringCall, asker, Asking, Holders
  <2>2. CASE ~(ask = "probe" /\ Contended')
    BY <1>3, <2>2 DEF DuringCall, Asking
  <2> QED BY <2>1, <2>2
<1>4. CASE UNCHANGED lease_vars
  BY <1>0, <1>4 DEF lease_vars, asker, Asking, Holders
<1> QED BY <1>1, <1>2, <1>3, <1>4 DEF LeaseNext, Step, Fault

(* The inductive invariant holds of every behaviour of the lease.          *)
THEOREM LeaseInvariance == LeaseSpec => []LeaseInv
<1>1. LeaseInv /\ [LeaseNext]_lease_vars => LeaseInv'
  BY LeaseTypeStep, DescriptorStep, SoleStep, AskingStep DEF LeaseInv
<1> QED BY LeaseInitInv, <1>1, PTL DEF LeaseSpec

(***************************************************************************)
(* At most one process holds the lease unless a takeover locked a file     *)
(* before its creator did: release, discard, takeover and crash in any     *)
(* order never give it to two (_WorktreeLease.release,                     *)
(* _takeover_lock_file).                                                   *)
(***************************************************************************)
THEOREM LeaseExclusive == LeaseSpec => []Exclusive
<1>1. LeaseInv => Exclusive
  BY SMTT(30) DEF LeaseInv, Sole, OwnsPath, Exclusive, MutualExclusion, Holders
<1> QED BY LeaseInvariance, <1>1, PTL

(***************************************************************************)
(* is_lease_held never answers "free" to a call during all of which the    *)
(* lease was held, though it reads the record and probes the holder in two *)
(* steps, unless a takeover locked a file before its creator did.          *)
(***************************************************************************)
THEOREM LeaseFreeMeansNoHolder == LeaseSpec => []FreeMeansNoHolder
<1>1. LeaseInv => FreeMeansNoHolder
  BY DEF LeaseInv, Asking, FreeMeansNoHolder
<1> QED BY LeaseInvariance, <1>1, PTL

=============================================================================
