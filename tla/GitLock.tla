------------------------------- MODULE GitLock -------------------------------
(***************************************************************************)
(* Git commands on one repository: every call of Ralph goes through the    *)
(* command queue of its process (ralph/git/git_command_queue.py), clears   *)
(* locks that dead gits left behind (ralph/git/_lock_recovery.py), and is  *)
(* repeated once when a lock stopped it and the command may be repeated    *)
(* (ralph/git/_run_git_lock_recovery.py).                                  *)
(*                                                                         *)
(* One lock file stands for the locks git takes (index.lock, ref locks).   *)
(* A member of Files is a file identity (device, inode, mtime).  Calls are *)
(* routed calls of Ralph, each in a thread of the process ProcOf; Gits are *)
(* the git processes of others (the agent, an editor), which no queue      *)
(* serialises.  Time is the number of polls of a waiting call: a poll ages *)
(* the lock by at least one unit.                                          *)
(***************************************************************************)
EXTENDS Naturals, FiniteSets

CONSTANTS Calls,        \* routed git calls of Ralph, one thread each
          ProcOf,       \* ProcOf[c]: the Ralph process of the call
          Repeatable,   \* the calls whose subcommand is in _SAFE_TO_REPEAT
          Pushes,       \* the calls that run git push
          Gits,         \* git processes Ralph did not start
          Files,        \* identities a lock file may have
          StaleAge,     \* _STALE_GIT_LOCK_AGE_SECONDS, in polls
          Patience,     \* _LIVE_HOLDER_PATIENCE_S, in polls
          None

ASSUME Constants ==
    /\ StaleAge \in Nat /\ Patience \in Nat /\ StaleAge < Patience
    /\ Repeatable \subseteq Calls /\ Pushes \subseteq Calls \ Repeatable
    /\ None \notin Files \cup Calls \cup Gits \cup {"ok", "locked", "timeout", "error"}
    /\ Calls \cap Gits = {}

VARIABLES lock,      \* the file at the lock path, or None
          age,       \* age[f]: how old the file is, capped at StaleAge
          holds,     \* holds[g]: the lock file the running git g created, or None
          queue,     \* queue[r]: the call that has r's execute_lock, or None
          mutex,     \* the call inside _reap_mutex, or None
          pc,        \* pc[c]: the next step of the call
          probed,    \* probed[c]: the identity the reaper of c examined
          aside,     \* aside[c]: the file the reaper of c has moved away
          after,     \* after[c]: where the reaper of c returns to
          reaped,    \* reaped[c]: the reaper of c removed a lock
          polls,     \* polls[c]: how often c has waited for the lock
          first,     \* first[c]: the answer of c's first attempt, once a lock was in its way
          result,    \* result[c]: what the caller got
          applied,   \* applied[c]: how often c's git command took effect
          unsure     \* history: the lock vanished where a reaper does not look again

Processes == {ProcOf[c] : c \in Calls}
Runners == Calls \cup Gits

vars == <<lock, age, holds, queue, mutex, pc, probed, aside, after, reaped,
          polls, first, result, applied, unsure>>

reaper == <<probed, aside, after, reaped>>
caller == <<polls, first, result, applied>>

Steps == {"enter", "age", "identify", "probe", "mutex", "recheck", "rename",
          "verify", "spawn", "running", "judge", "pending", "wait", "returned"}

TypeOK ==
    /\ lock \in Files \cup {None}
    /\ age \in [Files -> 0 .. StaleAge]
    /\ holds \in [Runners -> Files \cup {None}]
    /\ queue \in [Processes -> Calls \cup {None}]
    /\ mutex \in Calls \cup {None}
    /\ pc \in [Calls -> Steps]
    /\ probed \in [Calls -> Files \cup {None}]
    /\ aside \in [Calls -> Files \cup {None}]
    /\ after \in [Calls -> {"spawn", "judge", "pending"}]
    /\ reaped \in [Calls -> BOOLEAN]
    /\ polls \in [Calls -> 0 .. Patience]
    /\ first \in [Calls -> {None, "locked", "ok"}]
    /\ result \in [Calls -> {None, "ok", "locked", "timeout", "error"}]
    /\ applied \in [Calls -> 0 .. 2]
    /\ unsure \in BOOLEAN

Init ==
    /\ lock = None
    /\ age = [f \in Files |-> 0]
    /\ holds = [g \in Runners |-> None]
    /\ queue = [r \in Processes |-> None]
    /\ mutex = None
    /\ pc = [c \in Calls |-> "enter"]
    /\ probed = [c \in Calls |-> None]
    /\ aside = [c \in Calls |-> None]
    /\ after = [c \in Calls |-> "spawn"]
    /\ reaped = [c \in Calls |-> FALSE]
    /\ polls = [c \in Calls |-> 0]
    /\ first = [c \in Calls |-> None]
    /\ result = [c \in Calls |-> None]
    /\ applied = [c \in Calls |-> 0]
    /\ unsure = FALSE

Goto(c, step) == pc' = [pc EXCEPT ![c] = step]
Live(f) == \E g \in Runners : holds[g] = f
Older(f) == [age EXCEPT ![f] = IF @ < StaleAge THEN @ + 1 ELSE @]

\* Identities are unique in time: one is used again only when nothing names it.
FreshFiles ==
    {f \in Files : f # lock /\ ~Live(f)
                   /\ \A c \in Calls : probed[c] # f /\ aside[c] # f}

-----------------------------------------------------------------------------
(* Git itself, external: a command creates the lock file exclusively, does *)
(* its work, and renames or unlinks the path when it ends.                 *)

TakeLock(g) ==
    /\ lock = None
    /\ \E f \in FreshFiles :
         /\ lock' = f
         /\ holds' = [holds EXCEPT ![g] = f]
         /\ age' = [age EXCEPT ![f] = 0]

DropLock(g) ==
    /\ lock' = None
    /\ holds' = [holds EXCEPT ![g] = None]

ForeignGitStarts(g) ==
    /\ holds[g] = None
    /\ TakeLock(g)
    /\ UNCHANGED <<queue, mutex, pc, reaper, caller, unsure>>

ForeignGitEnds(g) ==
    /\ holds[g] # None
    /\ DropLock(g)
    /\ UNCHANGED <<age, queue, mutex, pc, reaper, caller, unsure>>

\* SIGKILL or a crash: the lock file outlives the process.
ForeignGitDies(g) ==
    /\ holds[g] # None
    /\ holds' = [holds EXCEPT ![g] = None]
    /\ UNCHANGED <<lock, age, queue, mutex, pc, reaper, caller, unsure>>

\* A person or another tool deletes a lock that a dead git left behind.
OutsiderRemoves ==
    /\ lock # None
    /\ ~Live(lock)
    /\ lock' = None
    /\ unsure' = (unsure \/ \E c \in Calls : pc[c] = "rename")
    /\ UNCHANGED <<age, holds, queue, mutex, pc, reaper, caller>>

TimePasses ==
    /\ lock # None
    /\ age[lock] < StaleAge
    /\ age' = Older(lock)
    /\ UNCHANGED <<lock, holds, queue, mutex, pc, reaper, caller, unsure>>

-----------------------------------------------------------------------------
(* route_run_git and route_git_method: one attempt at a time under         *)
(* execute_lock; the first attempt starts with the pre-flight reaper.      *)

EnterQueue(c) ==
    /\ pc[c] = "enter"
    /\ queue[ProcOf[c]] = None
    /\ queue' = [queue EXCEPT ![ProcOf[c]] = c]
    /\ after' = [after EXCEPT ![c] = "spawn"]
    /\ Goto(c, IF first[c] = None THEN "age" ELSE "spawn")
    /\ UNCHANGED <<lock, age, holds, mutex, probed, aside, reaped, caller, unsure>>

LeaveQueue(c) == queue' = [queue EXCEPT ![ProcOf[c]] = None]

Spawn(c) ==
    /\ pc[c] = "spawn"
    /\ TakeLock(c)
    /\ Goto(c, "running")
    /\ UNCHANGED <<queue, mutex, reaper, caller, unsure>>

Return(c, answer) ==
    /\ result' = [result EXCEPT ![c] = answer]
    /\ Goto(c, "returned")

\* git reports the lock.  A push may have published before it did: it cannot
\* move its tracking ref.  A second failure is not reported.
SpawnFindsLock(c) ==
    /\ pc[c] = "spawn"
    /\ lock # None
    /\ LeaveQueue(c)
    /\ \/ /\ first[c] # None
          /\ Return(c, first[c])
          /\ UNCHANGED <<after, first, applied>>
       \/ /\ first[c] = None
          /\ Goto(c, "age")
          /\ after' = [after EXCEPT ![c] = IF c \in Repeatable THEN "pending" ELSE "judge"]
          /\ \/ /\ first' = [first EXCEPT ![c] = "locked"]
                /\ UNCHANGED applied
             \/ /\ c \in Pushes
                /\ first' = [first EXCEPT ![c] = "ok"]
                /\ applied' = [applied EXCEPT ![c] = @ + 1]
          /\ UNCHANGED result
    /\ UNCHANGED <<lock, age, holds, mutex, probed, aside, reaped, polls, unsure>>

GitSucceeds(c) ==
    /\ pc[c] = "running"
    /\ DropLock(c)
    /\ applied' = [applied EXCEPT ![c] = @ + 1]
    /\ LeaveQueue(c)
    /\ Return(c, "ok")
    /\ UNCHANGED <<age, mutex, reaper, polls, first, unsure>>

\* A failure that names no lock: reported as it is, or as the first failure.
GitFails(c) ==
    /\ pc[c] = "running"
    /\ DropLock(c)
    /\ LeaveQueue(c)
    /\ Return(c, IF first[c] = None THEN "error" ELSE first[c])
    /\ UNCHANGED <<age, mutex, reaper, polls, first, applied, unsure>>

\* TimeoutExpired: git is terminated; it removes its lock within the grace
\* period or is killed and leaves it, and its work may have been done already.
GitTimesOut(c) ==
    /\ pc[c] = "running"
    /\ \/ DropLock(c)
       \/ holds' = [holds EXCEPT ![c] = None] /\ UNCHANGED lock
    /\ \/ applied' = [applied EXCEPT ![c] = @ + 1]
       \/ UNCHANGED applied
    /\ LeaveQueue(c)
    /\ Return(c, "timeout")
    /\ UNCHANGED <<age, mutex, reaper, polls, first, unsure>>

-----------------------------------------------------------------------------
(* _reap_stale_lock and _unlink_if_unchanged.                              *)

Refuse(c) == Goto(c, after[c])

CheckAge(c) ==
    /\ pc[c] = "age"
    /\ reaped' = [reaped EXCEPT ![c] = FALSE]
    /\ IF lock # None /\ age[lock] = StaleAge THEN Goto(c, "identify") ELSE Refuse(c)
    /\ UNCHANGED <<lock, age, holds, queue, mutex, probed, aside, after, caller, unsure>>

Identify(c) ==
    /\ pc[c] = "identify"
    /\ probed' = [probed EXCEPT ![c] = lock]
    /\ unsure' = (unsure \/ lock = None)
    /\ Goto(c, "probe")
    /\ UNCHANGED <<lock, age, holds, queue, mutex, aside, after, reaped, caller>>

\* lock_has_no_live_holder on the file that is at the path now.
Verdicts == {"unknown"} \cup (IF lock # None /\ Live(lock) THEN {"live"} ELSE {"dead"})

ProbeSaysDead(c) ==
    /\ pc[c] = "probe"
    /\ "dead" \in Verdicts
    /\ Goto(c, "mutex")
    /\ UNCHANGED <<lock, age, holds, queue, mutex, reaper, caller, unsure>>

ProbeRefuses(c) ==
    /\ pc[c] = "probe"
    /\ Refuse(c)
    /\ probed' = [probed EXCEPT ![c] = None]
    /\ UNCHANGED <<lock, age, holds, queue, mutex, aside, after, reaped, caller, unsure>>

EnterMutex(c) ==
    /\ pc[c] = "mutex"
    /\ mutex = None
    /\ mutex' = c
    /\ Goto(c, "recheck")
    /\ UNCHANGED <<lock, age, holds, queue, reaper, caller, unsure>>

\* Mutant: keeps the mutex
LeaveReaperLocked(c) ==
    /\ mutex' = mutex
    /\ probed' = [probed EXCEPT ![c] = None]
    /\ Refuse(c)

LeaveReaper(c) ==
    /\ mutex' = None
    /\ probed' = [probed EXCEPT ![c] = None]
    /\ Refuse(c)

\* Mutant: does not compare the lock with the one that was probed
RecheckNothing(c) ==
    /\ pc[c] = "recheck"
    /\ Goto(c, "rename")
    /\ UNCHANGED <<lock, age, holds, queue, mutex, reaper, caller, unsure>>

Recheck(c) ==
    /\ pc[c] = "recheck"
    /\ IF lock = probed[c]
       THEN Goto(c, "rename") /\ UNCHANGED <<mutex, probed>>
       ELSE LeaveReaper(c)
    /\ UNCHANGED <<lock, age, holds, queue, aside, after, reaped, caller, unsure>>

\* The lock is moved into Ralph's directory; a path that is gone is an OSError.
Rename(c) ==
    /\ pc[c] = "rename"
    /\ IF lock = None
       THEN LeaveReaper(c) /\ UNCHANGED <<lock, aside>>
       ELSE /\ aside' = [aside EXCEPT ![c] = lock]
            /\ lock' = None
            /\ Goto(c, "verify")
            /\ UNCHANGED <<mutex, probed>>
    /\ UNCHANGED <<age, holds, queue, after, reaped, caller, unsure>>

\* The file that was moved is the one that was probed: delete it.
DeleteAside(c) ==
    /\ pc[c] = "verify"
    /\ aside[c] = probed[c]
    /\ aside' = [aside EXCEPT ![c] = None]
    /\ reaped' = [reaped EXCEPT ![c] = TRUE]
    /\ LeaveReaper(c)
    /\ UNCHANGED <<lock, age, holds, queue, after, caller, unsure>>

\* Another file was moved: link it back, unless the path is taken again.
LinkBack(c) ==
    /\ pc[c] = "verify"
    /\ aside[c] # probed[c]
    /\ lock' = IF lock = None THEN aside[c] ELSE lock
    /\ aside' = [aside EXCEPT ![c] = None]
    /\ LeaveReaper(c)
    /\ UNCHANGED <<age, holds, queue, after, reaped, caller, unsure>>

-----------------------------------------------------------------------------
(* retry_after_lock_failure, without the queue lock, and the stateful      *)
(* commands, whose failure is returned after the lock was cleared.         *)

\* Mutant: repeats the commands that are not safe to repeat
RepeatAnyway(c) ==
    /\ pc[c] = "judge"
    /\ Goto(c, "enter")
    /\ UNCHANGED <<lock, age, holds, queue, mutex, reaper, caller, unsure>>

ReportFirstFailure(c) ==
    /\ pc[c] = "judge"
    /\ Return(c, first[c])
    /\ UNCHANGED <<lock, age, holds, queue, mutex, reaper, polls, first, applied, unsure>>

LockIsGone(c) ==
    /\ pc[c] = "pending"
    /\ reaped[c] \/ lock = None
    /\ Goto(c, "enter")
    /\ UNCHANGED <<lock, age, holds, queue, mutex, reaper, caller, unsure>>

LosesPatience(c) ==
    /\ pc[c] = "pending"
    /\ ~reaped[c] /\ lock # None
    /\ polls[c] = Patience
    /\ Return(c, first[c])
    /\ UNCHANGED <<lock, age, holds, queue, mutex, reaper, polls, first, applied, unsure>>

\* Mutant: no bound on the wait
KeepsWaitingForever(c) ==
    /\ pc[c] = "pending"
    /\ ~reaped[c] /\ lock # None
    /\ Goto(c, "wait")
    /\ UNCHANGED <<lock, age, holds, queue, mutex, reaper, caller, unsure>>

KeepsWaiting(c) ==
    /\ pc[c] = "pending"
    /\ ~reaped[c] /\ lock # None
    /\ polls[c] < Patience
    /\ Goto(c, "wait")
    /\ UNCHANGED <<lock, age, holds, queue, mutex, reaper, caller, unsure>>

\* _lock_holder_is_waitable and the pause before the next round.
Pause(c) ==
    /\ pc[c] = "wait"
    /\ lock # None
    /\ age[lock] < StaleAge \/ Verdicts # {"dead"}
    /\ polls' = [polls EXCEPT ![c] = @ + 1]
    /\ age' = Older(lock)
    /\ after' = [after EXCEPT ![c] = "pending"]
    /\ Goto(c, "age")
    /\ UNCHANGED <<lock, holds, queue, mutex, probed, aside, reaped, first, result, applied,
                   unsure>>

NotWaitable(c) ==
    /\ pc[c] = "wait"
    /\ lock # None => age[lock] = StaleAge /\ "dead" \in Verdicts
    /\ Return(c, first[c])
    /\ UNCHANGED <<lock, age, holds, queue, mutex, reaper, polls, first, applied, unsure>>

-----------------------------------------------------------------------------
Attempt(c) == EnterQueue(c) \/ Spawn(c) \/ SpawnFindsLock(c)

GitEnds(c) == GitSucceeds(c) \/ GitFails(c) \/ GitTimesOut(c)

Reap(c) ==
    \/ CheckAge(c) \/ Identify(c) \/ ProbeSaysDead(c) \/ ProbeRefuses(c)
    \/ EnterMutex(c) \/ Recheck(c) \/ Rename(c) \/ DeleteAside(c) \/ LinkBack(c)

Retry(c) ==
    \/ ReportFirstFailure(c) \/ LockIsGone(c) \/ LosesPatience(c)
    \/ KeepsWaiting(c) \/ Pause(c) \/ NotWaitable(c)

Call(c) == Attempt(c) \/ GitEnds(c) \/ Reap(c) \/ Retry(c)

Foreign(g) == ForeignGitStarts(g) \/ ForeignGitEnds(g) \/ ForeignGitDies(g)

Next ==
    \/ \E c \in Calls : Call(c)
    \/ \E g \in Gits : Foreign(g)
    \/ OutsiderRemoves
    \/ TimePasses

Spec == Init /\ [][Next]_vars

\* Ralph's threads keep running and its gits end, by themselves or at their
\* timeout; nothing is assumed of the gits of others.
FairSpec == Spec /\ \A c \in Calls : WF_vars(Call(c))

-----------------------------------------------------------------------------
(***************************************************************************)
(* The lock of a running git is at the path, so no second git can start    *)
(* work, whatever the reapers of all Ralph processes remove: one reaper at *)
(* a time moves a lock, and only the file it probed (_unlink_if_unchanged).*)
(* The exception is a lock that vanished at one of the two points where a  *)
(* reaper does not look again: before its _lock_identity, which then       *)
(* returns None, a value the re-check takes for the file that was probed,  *)
(* and between the re-check and the rename.                                *)
(***************************************************************************)
OneGitAtATime ==
    unsure \/ \A g \in Runners : holds[g] # None => lock = holds[g]

(***************************************************************************)
(* No reaper deletes the lock of a running git: it is at the path, or set  *)
(* aside by a reaper that will link it back ("unlinked ONLY when liveness  *)
(* is affirmatively proven dead", _recover_stale_git_lock).  The code does *)
(* not keep this: the link back fails when the path was taken meanwhile.   *)
(***************************************************************************)
LiveLockIsKept ==
    \A g \in Runners :
        holds[g] # None => lock = holds[g] \/ \E c \in Calls : aside[c] = holds[g]

(***************************************************************************)
(* What the caller is told is what happened: a call answered "ok" took     *)
(* effect exactly once, a locked or failed one never did, although git may *)
(* have been run twice (run_with_lock_recovery); applied never exceeds 1.  *)
(***************************************************************************)
AnswerMatchesEffect ==
    \A c \in Calls : /\ applied[c] <= 1
                     /\ result[c] = "ok" => applied[c] = 1
                     /\ result[c] \in {"locked", "error"} => applied[c] = 0

(***************************************************************************)
(* Every call returns, even beside a foreign git that never ends: the wait *)
(* for a held lock is bounded (retry_after_lock_failure), and no call that *)
(* waits keeps the queue or the reap mutex from the others.                *)
(***************************************************************************)
EveryCallReturns == \A c \in Calls : <>(pc[c] = "returned")
=============================================================================
