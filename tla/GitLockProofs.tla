--------------------------- MODULE GitLockProofs ---------------------------
(***************************************************************************)
(* One git at a time, and an answer that matches the effect, for any       *)
(* number of calls, Ralph processes, foreign gits and file identities.     *)
(***************************************************************************)
EXTENDS GitLock, TLAPS

\* Zenon is tried on every leaf that names no prover; a leaf that needs
\* arithmetic or equality of records asks for SMT.
USE Zenon

Reaping == {"age", "identify", "probe", "mutex", "recheck", "rename", "verify"}
InMutex == {"recheck", "rename", "verify"}
Trusting == {"mutex", "recheck", "rename"}

Dead(f) == \A g \in Runners : holds[g] # f

\* No two gits have one file, a running call's git has one, the reap mutex is exclusive,
\* and only a call with patience left waits.
HoldersInv ==
    /\ \A g, h \in Runners : holds[g] # None /\ holds[g] = holds[h] => g = h
    /\ \A c \in Calls : pc[c] = "running" => holds[c] # None
    /\ \A c \in Calls : pc[c] \in InMutex => mutex = c
    /\ \A c \in Calls : pc[c] = "wait" => polls[c] < Patience

\* What a reaper knows of the file it probed, until a lock vanishes unnoticed:
\* between the probe and the rename the file, if it is still at the path, has
\* no live holder.  Identities being unique, it never comes back to the path.
ReaperInv ==
    unsure \/
      /\ \A g \in Runners : holds[g] # None => lock = holds[g]
      /\ \A c \in Calls : pc[c] \in Trusting \cup {"probe", "verify"} => probed[c] # None
      /\ \A c \in Calls : pc[c] \in Trusting /\ lock = probed[c] => Dead(probed[c])
      /\ \A c \in Calls : pc[c] = "rename" => lock = probed[c]
      /\ \A c \in Calls : pc[c] = "verify" => aside[c] = probed[c] /\ lock # probed[c]

\* Where the answers come from: nothing took effect before the return, but for
\* a push that published and is on its way to return that.
EffectInv ==
    \A c \in Calls :
      /\ pc[c] # "returned" => result[c] = None
      /\ pc[c] # "returned" => applied[c] = IF first[c] = "ok" THEN 1 ELSE 0
      /\ first[c] = "ok" => after[c] = "judge" /\ pc[c] \in Reaping \cup {"judge", "returned"}
      /\ pc[c] \in {"judge", "pending", "wait"} => first[c] # None
      /\ pc[c] \in Reaping /\ after[c] # "spawn" => first[c] # None
      /\ pc[c] = "returned" => applied[c] <= 1
      /\ result[c] = "ok" => applied[c] = 1
      /\ result[c] \in {"locked", "error"} => applied[c] = 0

LEMMA LockInitInv == Init => TypeOK /\ HoldersInv /\ ReaperInv /\ EffectInv
<1> SUFFICES ASSUME Init PROVE TypeOK /\ HoldersInv /\ ReaperInv /\ EffectInv
  OBVIOUS
<1>1. TypeOK
  <2>1. age \in [Files -> 0 .. StaleAge] /\ polls \in [Calls -> 0 .. Patience]
    BY SMTT(30), Constants DEF Init
  <2>2. applied \in [Calls -> 0 .. 2]
    BY SMTT(30) DEF Init
  <2>3. pc \in [Calls -> Steps]
    BY DEF Init, Steps
  <2> QED
    BY <2>1, <2>2, <2>3 DEF Init, TypeOK
<1>2. HoldersInv
  BY DEF Init, HoldersInv, InMutex
<1>3. ReaperInv
  BY DEF Init, ReaperInv, Trusting
<1>4. EffectInv
  BY Constants DEF Init, EffectInv, Reaping
<1> QED
  BY <1>1, <1>2, <1>3, <1>4
LEMMA LockTypeStep ==
    ASSUME TypeOK, HoldersInv, EffectInv, [Next]_vars
    PROVE  TypeOK'
<1> USE Constants
<1>1. ASSUME NEW c \in Calls, EnterQueue(c) PROVE TypeOK'
  BY <1>1 DEF EnterQueue, Goto, reaper, caller, TypeOK, Steps, Runners, Processes
<1>2. ASSUME NEW c \in Calls, Spawn(c) PROVE TypeOK'
  BY SMTT(30), <1>2 DEF Spawn, TakeLock, Goto, FreshFiles, Live, reaper, caller, TypeOK, Steps,
     Runners, Processes
<1>3. ASSUME NEW c \in Calls, SpawnFindsLock(c) PROVE TypeOK'
  <2>1. applied' \in [Calls -> 0 .. 2]
    BY SMTT(30), <1>3 DEF SpawnFindsLock, TypeOK, EffectInv
  <2>2. /\ first' \in [Calls -> {None, "locked", "ok"}]
        /\ after' \in [Calls -> {"spawn", "judge", "pending"}]
        /\ result' \in [Calls -> {None, "ok", "locked", "timeout", "error"}]
    BY SMTT(30), <1>3 DEF SpawnFindsLock, Return, TypeOK
  <2>3. pc' \in [Calls -> Steps] /\ queue' \in [Processes -> Calls \cup {None}]
    BY <1>3 DEF SpawnFindsLock, Return, Goto, LeaveQueue, TypeOK, Steps, Processes
  <2> QED
    BY <1>3, <2>1, <2>2, <2>3 DEF SpawnFindsLock, TypeOK
<1>4. ASSUME NEW c \in Calls, GitSucceeds(c) PROVE TypeOK'
  BY SMTT(30), <1>4 DEF GitSucceeds, DropLock, LeaveQueue, Return, Goto, reaper, caller, TypeOK,
     Steps, Runners, Processes, EffectInv
<1>5. ASSUME NEW c \in Calls, GitFails(c) PROVE TypeOK'
  BY <1>5 DEF GitFails, DropLock, LeaveQueue, Return, Goto, reaper, caller, TypeOK,
     Steps, Runners, Processes
<1>6. ASSUME NEW c \in Calls, GitTimesOut(c) PROVE TypeOK'
  BY SMTT(30), <1>6 DEF GitTimesOut, DropLock, LeaveQueue, Return, Goto, reaper, caller, TypeOK,
     Steps, Runners, Processes, EffectInv
<1>7. ASSUME NEW c \in Calls, CheckAge(c) PROVE TypeOK'
  BY SMTT(30), <1>7 DEF CheckAge, Goto, Refuse, reaper, caller, TypeOK, Steps, Runners, Processes
<1>8. ASSUME NEW c \in Calls, Identify(c) PROVE TypeOK'
  BY <1>8 DEF Identify, Goto, reaper, caller, TypeOK, Steps, Runners, Processes
<1>9. ASSUME NEW c \in Calls, ProbeSaysDead(c) PROVE TypeOK'
  BY <1>9 DEF ProbeSaysDead, Goto, Verdicts, Live, reaper, caller, TypeOK, Steps,
     Runners, Processes
<1>10. ASSUME NEW c \in Calls, ProbeRefuses(c) PROVE TypeOK'
  BY <1>10 DEF ProbeRefuses, Refuse, Goto, reaper, caller, TypeOK, Steps, Runners,
     Processes
<1>11. ASSUME NEW c \in Calls, EnterMutex(c) PROVE TypeOK'
  BY <1>11 DEF EnterMutex, Goto, reaper, caller, TypeOK, Steps, Runners, Processes
<1>12. ASSUME NEW c \in Calls, Recheck(c) PROVE TypeOK'
  BY SMTT(30), <1>12 DEF Recheck, Goto, LeaveReaper, Refuse, reaper, caller, TypeOK, Steps,
     Runners, Processes
<1>13. ASSUME NEW c \in Calls, Rename(c) PROVE TypeOK'
  BY SMTT(30), <1>13 DEF Rename, Goto, LeaveReaper, Refuse, reaper, caller, TypeOK, Steps,
     Runners, Processes
<1>14. ASSUME NEW c \in Calls, DeleteAside(c) PROVE TypeOK'
  BY <1>14 DEF DeleteAside, Goto, LeaveReaper, Refuse, reaper, caller, TypeOK, Steps,
     Runners, Processes
<1>15. ASSUME NEW c \in Calls, LinkBack(c) PROVE TypeOK'
  BY <1>15 DEF LinkBack, Goto, LeaveReaper, Refuse, reaper, caller, TypeOK, Steps,
     Runners, Processes
<1>16. ASSUME NEW c \in Calls, ReportFirstFailure(c) PROVE TypeOK'
  BY <1>16 DEF ReportFirstFailure, Return, Goto, reaper, caller, TypeOK, Steps, Runners,
     Processes
<1>17. ASSUME NEW c \in Calls, LockIsGone(c) PROVE TypeOK'
  BY <1>17 DEF LockIsGone, Goto, reaper, caller, TypeOK, Steps, Runners, Processes
<1>18. ASSUME NEW c \in Calls, LosesPatience(c) PROVE TypeOK'
  BY <1>18 DEF LosesPatience, Return, Goto, reaper, caller, TypeOK, Steps, Runners,
     Processes
<1>19. ASSUME NEW c \in Calls, KeepsWaiting(c) PROVE TypeOK'
  BY <1>19 DEF KeepsWaiting, Goto, reaper, caller, TypeOK, Steps, Runners, Processes
<1>20. ASSUME NEW c \in Calls, Pause(c) PROVE TypeOK'
  BY SMTT(30), <1>20 DEF Pause, Goto, Older, reaper, caller, TypeOK, Steps, Runners, Processes,
     HoldersInv
<1>21. ASSUME NEW c \in Calls, NotWaitable(c) PROVE TypeOK'
  BY <1>21 DEF NotWaitable, Return, Goto, reaper, caller, TypeOK, Steps, Runners,
     Processes
<1>22. ASSUME NEW g \in Gits, ForeignGitStarts(g) PROVE TypeOK'
  BY SMTT(30), <1>22 DEF ForeignGitStarts, TakeLock, FreshFiles, Live, reaper, caller, TypeOK,
     Steps, Runners, Processes
<1>23. ASSUME NEW g \in Gits, ForeignGitEnds(g) PROVE TypeOK'
  BY <1>23 DEF ForeignGitEnds, DropLock, reaper, caller, TypeOK, Steps, Runners,
     Processes
<1>24. ASSUME NEW g \in Gits, ForeignGitDies(g) PROVE TypeOK'
  BY <1>24 DEF ForeignGitDies, reaper, caller, TypeOK, Steps, Runners, Processes
<1>25. CASE OutsiderRemoves
  BY <1>25 DEF OutsiderRemoves, Live, reaper, caller, TypeOK, Steps, Runners, Processes
<1>26. CASE TimePasses
  BY SMTT(30), <1>26 DEF TimePasses, Older, reaper, caller, TypeOK, Steps, Runners, Processes
<1>27. CASE UNCHANGED vars
  BY <1>27 DEF vars, TypeOK, Steps, Runners, Processes
<1> QED
  BY <1>1, <1>2, <1>3, <1>4, <1>5, <1>6, <1>7, <1>8, <1>9, <1>10, <1>11, <1>12, <1>13,
     <1>14, <1>15, <1>16, <1>17, <1>18, <1>19, <1>20, <1>21, <1>22, <1>23, <1>24, <1>25,
     <1>26, <1>27 DEF Next, Call, Attempt, GitEnds, Reap, Retry, Foreign

LEMMA HoldersStep ==
    ASSUME TypeOK, HoldersInv, [Next]_vars
    PROVE  HoldersInv'
<1> USE Constants
<1>1. ASSUME NEW c \in Calls, EnterQueue(c) PROVE HoldersInv'
  BY SMTT(30), <1>1 DEF EnterQueue, Goto, reaper, caller, TypeOK, HoldersInv, InMutex, Runners
<1>2. ASSUME NEW c \in Calls, Spawn(c) PROVE HoldersInv'
  BY SMTT(30), <1>2 DEF Spawn, TakeLock, Goto, FreshFiles, Live, reaper, caller, TypeOK,
     HoldersInv, InMutex, Runners
<1>3. ASSUME NEW c \in Calls, SpawnFindsLock(c) PROVE HoldersInv'
  BY SMTT(30), <1>3 DEF SpawnFindsLock, LeaveQueue, Return, Goto, reaper, caller, TypeOK,
     HoldersInv, InMutex, Runners
<1>4. ASSUME NEW c \in Calls, GitSucceeds(c) PROVE HoldersInv'
  BY <1>4 DEF GitSucceeds, DropLock, LeaveQueue, Return, Goto, reaper, caller, TypeOK,
     HoldersInv, InMutex, Runners
<1>5. ASSUME NEW c \in Calls, GitFails(c) PROVE HoldersInv'
  BY <1>5 DEF GitFails, DropLock, LeaveQueue, Return, Goto, reaper, caller, TypeOK,
     HoldersInv, InMutex, Runners
<1>6. ASSUME NEW c \in Calls, GitTimesOut(c) PROVE HoldersInv'
  BY SMTT(30), <1>6 DEF GitTimesOut, DropLock, LeaveQueue, Return, Goto, reaper, caller, TypeOK,
     HoldersInv, InMutex, Runners
<1>7. ASSUME NEW c \in Calls, CheckAge(c) PROVE HoldersInv'
  BY SMTT(30), <1>7 DEF CheckAge, Goto, Refuse, reaper, caller, TypeOK, HoldersInv, InMutex,
     Runners
<1>8. ASSUME NEW c \in Calls, Identify(c) PROVE HoldersInv'
  BY <1>8 DEF Identify, Goto, reaper, caller, TypeOK, HoldersInv, InMutex, Runners
<1>9. ASSUME NEW c \in Calls, ProbeSaysDead(c) PROVE HoldersInv'
  BY SMTT(30), <1>9 DEF ProbeSaysDead, Goto, Verdicts, Live, reaper, caller, TypeOK, HoldersInv,
     InMutex, Runners
<1>10. ASSUME NEW c \in Calls, ProbeRefuses(c) PROVE HoldersInv'
  BY <1>10 DEF ProbeRefuses, Refuse, Goto, reaper, caller, TypeOK, HoldersInv, InMutex,
     Runners
<1>11. ASSUME NEW c \in Calls, EnterMutex(c) PROVE HoldersInv'
  BY <1>11 DEF EnterMutex, Goto, reaper, caller, TypeOK, HoldersInv, InMutex, Runners
<1>12. ASSUME NEW c \in Calls, Recheck(c) PROVE HoldersInv'
  BY SMTT(30), <1>12 DEF Recheck, Goto, LeaveReaper, Refuse, reaper, caller, TypeOK, HoldersInv,
     InMutex, Runners
<1>13. ASSUME NEW c \in Calls, Rename(c) PROVE HoldersInv'
  BY SMTT(30), <1>13 DEF Rename, Goto, LeaveReaper, Refuse, reaper, caller, TypeOK, HoldersInv,
     InMutex, Runners
<1>14. ASSUME NEW c \in Calls, DeleteAside(c) PROVE HoldersInv'
  BY <1>14 DEF DeleteAside, Goto, LeaveReaper, Refuse, reaper, caller, TypeOK,
     HoldersInv, InMutex, Runners
<1>15. ASSUME NEW c \in Calls, LinkBack(c) PROVE HoldersInv'
  BY <1>15 DEF LinkBack, Goto, LeaveReaper, Refuse, reaper, caller, TypeOK, HoldersInv,
     InMutex, Runners
<1>16. ASSUME NEW c \in Calls, ReportFirstFailure(c) PROVE HoldersInv'
  BY <1>16 DEF ReportFirstFailure, Return, Goto, reaper, caller, TypeOK, HoldersInv,
     InMutex, Runners
<1>17. ASSUME NEW c \in Calls, LockIsGone(c) PROVE HoldersInv'
  BY <1>17 DEF LockIsGone, Goto, reaper, caller, TypeOK, HoldersInv, InMutex, Runners
<1>18. ASSUME NEW c \in Calls, LosesPatience(c) PROVE HoldersInv'
  BY <1>18 DEF LosesPatience, Return, Goto, reaper, caller, TypeOK, HoldersInv, InMutex,
     Runners
<1>19. ASSUME NEW c \in Calls, KeepsWaiting(c) PROVE HoldersInv'
  BY <1>19 DEF KeepsWaiting, Goto, reaper, caller, TypeOK, HoldersInv, InMutex, Runners
<1>20. ASSUME NEW c \in Calls, Pause(c) PROVE HoldersInv'
  BY <1>20 DEF Pause, Goto, Older, reaper, caller, TypeOK, HoldersInv, InMutex, Runners
<1>21. ASSUME NEW c \in Calls, NotWaitable(c) PROVE HoldersInv'
  BY <1>21 DEF NotWaitable, Return, Goto, reaper, caller, TypeOK, HoldersInv, InMutex,
     Runners
<1>22. ASSUME NEW g \in Gits, ForeignGitStarts(g) PROVE HoldersInv'
  BY SMTT(30), <1>22 DEF ForeignGitStarts, TakeLock, FreshFiles, Live, reaper, caller, TypeOK,
     HoldersInv, InMutex, Runners
<1>23. ASSUME NEW g \in Gits, ForeignGitEnds(g) PROVE HoldersInv'
  BY ZenonT(30), <1>23 DEF ForeignGitEnds, DropLock, reaper, caller, TypeOK, HoldersInv, InMutex,
     Runners
<1>24. ASSUME NEW g \in Gits, ForeignGitDies(g) PROVE HoldersInv'
  BY ZenonT(30), <1>24 DEF ForeignGitDies, reaper, caller, TypeOK, HoldersInv, InMutex, Runners
<1>25. CASE OutsiderRemoves
  BY <1>25 DEF OutsiderRemoves, Live, reaper, caller, TypeOK, HoldersInv, InMutex,
     Runners
<1>26. CASE TimePasses
  BY <1>26 DEF TimePasses, Older, reaper, caller, TypeOK, HoldersInv, InMutex, Runners
<1>27. CASE UNCHANGED vars
  BY <1>27 DEF vars, TypeOK, HoldersInv, InMutex, Runners
<1> QED
  BY <1>1, <1>2, <1>3, <1>4, <1>5, <1>6, <1>7, <1>8, <1>9, <1>10, <1>11, <1>12, <1>13,
     <1>14, <1>15, <1>16, <1>17, <1>18, <1>19, <1>20, <1>21, <1>22, <1>23, <1>24, <1>25,
     <1>26, <1>27 DEF Next, Call, Attempt, GitEnds, Reap, Retry, Foreign

LEMMA ReaperStep ==
    ASSUME TypeOK, HoldersInv, ReaperInv, [Next]_vars
    PROVE  ReaperInv'
<1> USE Constants
<1>1. ASSUME NEW c \in Calls, EnterQueue(c) PROVE ReaperInv'
  BY SMTT(30), <1>1 DEF EnterQueue, Goto, reaper, caller, TypeOK, HoldersInv, ReaperInv, InMutex,
     Trusting, Dead, Runners
<1>2. ASSUME NEW c \in Calls, Spawn(c) PROVE ReaperInv'
  BY SMTT(30), <1>2 DEF Spawn, TakeLock, Goto, FreshFiles, Live, reaper, caller, TypeOK,
     HoldersInv, ReaperInv, InMutex, Trusting, Dead, Runners
<1>3. ASSUME NEW c \in Calls, SpawnFindsLock(c) PROVE ReaperInv'
  BY SMTT(30), <1>3 DEF SpawnFindsLock, LeaveQueue, Return, Goto, reaper, caller, TypeOK,
     HoldersInv, ReaperInv, InMutex, Trusting, Dead, Runners
<1>4. ASSUME NEW c \in Calls, GitSucceeds(c) PROVE ReaperInv'
  BY SMTT(30), <1>4 DEF GitSucceeds, DropLock, LeaveQueue, Return, Goto, reaper, caller, TypeOK,
     HoldersInv, ReaperInv, InMutex, Trusting, Dead, Runners
<1>5. ASSUME NEW c \in Calls, GitFails(c) PROVE ReaperInv'
  BY SMTT(30), <1>5 DEF GitFails, DropLock, LeaveQueue, Return, Goto, reaper, caller, TypeOK,
     HoldersInv, ReaperInv, InMutex, Trusting, Dead, Runners
<1>6. ASSUME NEW c \in Calls, GitTimesOut(c) PROVE ReaperInv'
  BY SMTT(30), <1>6 DEF GitTimesOut, DropLock, LeaveQueue, Return, Goto, reaper, caller, TypeOK,
     HoldersInv, ReaperInv, InMutex, Trusting, Dead, Runners
<1>7. ASSUME NEW c \in Calls, CheckAge(c) PROVE ReaperInv'
  BY SMTT(30), <1>7 DEF CheckAge, Goto, Refuse, reaper, caller, TypeOK, HoldersInv, ReaperInv,
     InMutex, Trusting, Dead, Runners
<1>8. ASSUME NEW c \in Calls, Identify(c) PROVE ReaperInv'
  BY ZenonT(40), <1>8 DEF Identify, Goto, reaper, caller, TypeOK, HoldersInv, ReaperInv, InMutex,
     Trusting, Dead, Runners
<1>9. ASSUME NEW c \in Calls, ProbeSaysDead(c) PROVE ReaperInv'
  BY SMTT(30), <1>9 DEF ProbeSaysDead, Goto, Verdicts, Live, reaper, caller, TypeOK, HoldersInv,
     ReaperInv, InMutex, Trusting, Dead, Runners
<1>10. ASSUME NEW c \in Calls, ProbeRefuses(c) PROVE ReaperInv'
  BY SMTT(30), <1>10 DEF ProbeRefuses, Refuse, Goto, reaper, caller, TypeOK, HoldersInv,
     ReaperInv, InMutex, Trusting, Dead, Runners
<1>11. ASSUME NEW c \in Calls, EnterMutex(c) PROVE ReaperInv'
  BY SMTT(30), <1>11 DEF EnterMutex, Goto, reaper, caller, TypeOK, HoldersInv, ReaperInv, InMutex,
     Trusting, Dead, Runners
<1>12. ASSUME NEW c \in Calls, Recheck(c) PROVE ReaperInv'
  BY SMTT(30), <1>12 DEF Recheck, Goto, LeaveReaper, Refuse, reaper, caller, TypeOK, HoldersInv,
     ReaperInv, InMutex, Trusting, Dead, Runners
<1>13. ASSUME NEW c \in Calls, Rename(c) PROVE ReaperInv'
  BY SMTT(30), <1>13 DEF Rename, Goto, LeaveReaper, Refuse, reaper, caller, TypeOK, HoldersInv,
     ReaperInv, InMutex, Trusting, Dead, Runners
<1>14. ASSUME NEW c \in Calls, DeleteAside(c) PROVE ReaperInv'
  BY SMTT(30), <1>14 DEF DeleteAside, Goto, LeaveReaper, Refuse, reaper, caller, TypeOK,
     HoldersInv, ReaperInv, InMutex, Trusting, Dead, Runners
<1>15. ASSUME NEW c \in Calls, LinkBack(c) PROVE ReaperInv'
  BY <1>15 DEF LinkBack, Goto, LeaveReaper, Refuse, reaper, caller, TypeOK, HoldersInv,
     ReaperInv, InMutex, Trusting, Dead, Runners
<1>16. ASSUME NEW c \in Calls, ReportFirstFailure(c) PROVE ReaperInv'
  BY SMTT(30), <1>16 DEF ReportFirstFailure, Return, Goto, reaper, caller, TypeOK, HoldersInv,
     ReaperInv, InMutex, Trusting, Dead, Runners
<1>17. ASSUME NEW c \in Calls, LockIsGone(c) PROVE ReaperInv'
  BY SMTT(30), <1>17 DEF LockIsGone, Goto, reaper, caller, TypeOK, HoldersInv, ReaperInv, InMutex,
     Trusting, Dead, Runners
<1>18. ASSUME NEW c \in Calls, LosesPatience(c) PROVE ReaperInv'
  BY SMTT(30), <1>18 DEF LosesPatience, Return, Goto, reaper, caller, TypeOK, HoldersInv,
     ReaperInv, InMutex, Trusting, Dead, Runners
<1>19. ASSUME NEW c \in Calls, KeepsWaiting(c) PROVE ReaperInv'
  BY SMTT(30), <1>19 DEF KeepsWaiting, Goto, reaper, caller, TypeOK, HoldersInv, ReaperInv,
     InMutex, Trusting, Dead, Runners
<1>20. ASSUME NEW c \in Calls, Pause(c) PROVE ReaperInv'
  BY SMTT(30), <1>20 DEF Pause, Goto, Older, reaper, caller, TypeOK, HoldersInv, ReaperInv,
     InMutex, Trusting, Dead, Runners
<1>21. ASSUME NEW c \in Calls, NotWaitable(c) PROVE ReaperInv'
  BY SMTT(30), <1>21 DEF NotWaitable, Return, Goto, reaper, caller, TypeOK, HoldersInv, ReaperInv,
     InMutex, Trusting, Dead, Runners
<1>22. ASSUME NEW g \in Gits, ForeignGitStarts(g) PROVE ReaperInv'
  BY SMTT(30), <1>22 DEF ForeignGitStarts, TakeLock, FreshFiles, Live, reaper, caller, TypeOK,
     HoldersInv, ReaperInv, InMutex, Trusting, Dead, Runners
<1>23. ASSUME NEW g \in Gits, ForeignGitEnds(g) PROVE ReaperInv'
  BY SMTT(30), <1>23 DEF ForeignGitEnds, DropLock, reaper, caller, TypeOK, HoldersInv, ReaperInv,
     InMutex, Trusting, Dead, Runners
<1>24. ASSUME NEW g \in Gits, ForeignGitDies(g) PROVE ReaperInv'
  BY <1>24 DEF ForeignGitDies, reaper, caller, TypeOK, HoldersInv, ReaperInv, InMutex,
     Trusting, Dead, Runners
<1>25. CASE OutsiderRemoves
  BY <1>25 DEF OutsiderRemoves, Live, reaper, caller, TypeOK, HoldersInv, ReaperInv,
     InMutex, Trusting, Dead, Runners
<1>26. CASE TimePasses
  BY <1>26 DEF TimePasses, Older, reaper, caller, TypeOK, HoldersInv, ReaperInv,
     InMutex, Trusting, Dead, Runners
<1>27. CASE UNCHANGED vars
  BY ZenonT(30), <1>27 DEF vars, TypeOK, HoldersInv, ReaperInv, InMutex, Trusting, Dead, Runners
<1> QED
  BY <1>1, <1>2, <1>3, <1>4, <1>5, <1>6, <1>7, <1>8, <1>9, <1>10, <1>11, <1>12, <1>13,
     <1>14, <1>15, <1>16, <1>17, <1>18, <1>19, <1>20, <1>21, <1>22, <1>23, <1>24, <1>25,
     <1>26, <1>27 DEF Next, Call, Attempt, GitEnds, Reap, Retry, Foreign

LEMMA EffectStep ==
    ASSUME TypeOK, EffectInv, [Next]_vars
    PROVE  EffectInv'
<1> USE Constants
<1>1. ASSUME NEW c \in Calls, EnterQueue(c) PROVE EffectInv'
  BY SMTT(30), <1>1 DEF EnterQueue, Goto, reaper, caller, TypeOK, EffectInv, Reaping
<1>2. ASSUME NEW c \in Calls, Spawn(c) PROVE EffectInv'
  BY SMTT(30), <1>2 DEF Spawn, TakeLock, Goto, FreshFiles, Live, reaper, caller, TypeOK,
     EffectInv, Reaping
<1>3. ASSUME NEW c \in Calls, SpawnFindsLock(c) PROVE EffectInv'
  BY SMTT(30), <1>3 DEF SpawnFindsLock, LeaveQueue, Return, Goto, reaper, caller, TypeOK,
     EffectInv, Reaping
<1>4. ASSUME NEW c \in Calls, GitSucceeds(c) PROVE EffectInv'
  BY SMTT(30), <1>4 DEF GitSucceeds, DropLock, LeaveQueue, Return, Goto, reaper, caller, TypeOK,
     EffectInv, Reaping
<1>5. ASSUME NEW c \in Calls, GitFails(c) PROVE EffectInv'
  BY SMTT(30), <1>5 DEF GitFails, DropLock, LeaveQueue, Return, Goto, reaper, caller, TypeOK,
     EffectInv, Reaping
<1>6. ASSUME NEW c \in Calls, GitTimesOut(c) PROVE EffectInv'
  BY SMTT(30), <1>6 DEF GitTimesOut, DropLock, LeaveQueue, Return, Goto, reaper, caller, TypeOK,
     EffectInv, Reaping
<1>7. ASSUME NEW c \in Calls, CheckAge(c) PROVE EffectInv'
  BY SMTT(30), <1>7 DEF CheckAge, Goto, Refuse, reaper, caller, TypeOK, EffectInv, Reaping
<1>8. ASSUME NEW c \in Calls, Identify(c) PROVE EffectInv'
  BY SMTT(30), <1>8 DEF Identify, Goto, reaper, caller, TypeOK, EffectInv, Reaping
<1>9. ASSUME NEW c \in Calls, ProbeSaysDead(c) PROVE EffectInv'
  BY SMTT(30), <1>9 DEF ProbeSaysDead, Goto, Verdicts, Live, reaper, caller, TypeOK, EffectInv,
     Reaping
<1>10. ASSUME NEW c \in Calls, ProbeRefuses(c) PROVE EffectInv'
  BY SMTT(30), <1>10 DEF ProbeRefuses, Refuse, Goto, reaper, caller, TypeOK, EffectInv, Reaping
<1>11. ASSUME NEW c \in Calls, EnterMutex(c) PROVE EffectInv'
  BY SMTT(30), <1>11 DEF EnterMutex, Goto, reaper, caller, TypeOK, EffectInv, Reaping
<1>12. ASSUME NEW c \in Calls, Recheck(c) PROVE EffectInv'
  BY SMTT(30), <1>12 DEF Recheck, Goto, LeaveReaper, Refuse, reaper, caller, TypeOK, EffectInv,
     Reaping
<1>13. ASSUME NEW c \in Calls, Rename(c) PROVE EffectInv'
  BY SMTT(30), <1>13 DEF Rename, Goto, LeaveReaper, Refuse, reaper, caller, TypeOK, EffectInv,
     Reaping
<1>14. ASSUME NEW c \in Calls, DeleteAside(c) PROVE EffectInv'
  BY SMTT(30), <1>14 DEF DeleteAside, Goto, LeaveReaper, Refuse, reaper, caller, TypeOK,
     EffectInv, Reaping
<1>15. ASSUME NEW c \in Calls, LinkBack(c) PROVE EffectInv'
  BY SMTT(30), <1>15 DEF LinkBack, Goto, LeaveReaper, Refuse, reaper, caller, TypeOK, EffectInv,
     Reaping
<1>16. ASSUME NEW c \in Calls, ReportFirstFailure(c) PROVE EffectInv'
  BY SMTT(30), <1>16 DEF ReportFirstFailure, Return, Goto, reaper, caller, TypeOK, EffectInv,
     Reaping
<1>17. ASSUME NEW c \in Calls, LockIsGone(c) PROVE EffectInv'
  BY ZenonT(30), <1>17 DEF LockIsGone, Goto, reaper, caller, TypeOK, EffectInv, Reaping
<1>18. ASSUME NEW c \in Calls, LosesPatience(c) PROVE EffectInv'
  BY SMTT(30), <1>18 DEF LosesPatience, Return, Goto, reaper, caller, TypeOK, EffectInv, Reaping
<1>19. ASSUME NEW c \in Calls, KeepsWaiting(c) PROVE EffectInv'
  BY SMTT(30), <1>19 DEF KeepsWaiting, Goto, reaper, caller, TypeOK, EffectInv, Reaping
<1>20. ASSUME NEW c \in Calls, Pause(c) PROVE EffectInv'
  BY SMTT(30), <1>20 DEF Pause, Goto, Older, reaper, caller, TypeOK, EffectInv, Reaping
<1>21. ASSUME NEW c \in Calls, NotWaitable(c) PROVE EffectInv'
  BY SMTT(30), <1>21 DEF NotWaitable, Return, Goto, reaper, caller, TypeOK, EffectInv, Reaping
<1>22. ASSUME NEW g \in Gits, ForeignGitStarts(g) PROVE EffectInv'
  BY <1>22 DEF ForeignGitStarts, TakeLock, FreshFiles, Live, reaper, caller, TypeOK,
     EffectInv, Reaping
<1>23. ASSUME NEW g \in Gits, ForeignGitEnds(g) PROVE EffectInv'
  BY <1>23 DEF ForeignGitEnds, DropLock, reaper, caller, TypeOK, EffectInv, Reaping
<1>24. ASSUME NEW g \in Gits, ForeignGitDies(g) PROVE EffectInv'
  BY <1>24 DEF ForeignGitDies, reaper, caller, TypeOK, EffectInv, Reaping
<1>25. CASE OutsiderRemoves
  BY <1>25 DEF OutsiderRemoves, Live, reaper, caller, TypeOK, EffectInv, Reaping
<1>26. CASE TimePasses
  BY <1>26 DEF TimePasses, Older, reaper, caller, TypeOK, EffectInv, Reaping
<1>27. CASE UNCHANGED vars
  BY <1>27 DEF vars, TypeOK, EffectInv, Reaping
<1> QED
  BY <1>1, <1>2, <1>3, <1>4, <1>5, <1>6, <1>7, <1>8, <1>9, <1>10, <1>11, <1>12, <1>13,
     <1>14, <1>15, <1>16, <1>17, <1>18, <1>19, <1>20, <1>21, <1>22, <1>23, <1>24, <1>25,
     <1>26, <1>27 DEF Next, Call, Attempt, GitEnds, Reap, Retry, Foreign

LEMMA LockStepInv ==
    TypeOK /\ HoldersInv /\ ReaperInv /\ EffectInv /\ [Next]_vars
        => TypeOK' /\ HoldersInv' /\ ReaperInv' /\ EffectInv'
BY LockTypeStep, HoldersStep, ReaperStep, EffectStep

(***************************************************************************)
(* The inductive invariant of the git calls: every reachable state has its *)
(* types, knows who holds the lock and the mutex, and what each reaper may *)
(* rely on.                                                                *)
(***************************************************************************)
THEOREM LockInvariance == Spec => [](TypeOK /\ HoldersInv /\ ReaperInv /\ EffectInv)
BY LockInitInv, LockStepInv, PTL DEF Spec

(***************************************************************************)
(* For any number of calls, processes and foreign gits, the lock of every  *)
(* running git stays at the path unless a lock vanished at one of the two  *)
(* points a reaper does not re-check (_unlink_if_unchanged).               *)
(***************************************************************************)
THEOREM LockExclusive == Spec => []OneGitAtATime
<1>1. ReaperInv => OneGitAtATime
  BY DEF ReaperInv, OneGitAtATime
<1> QED
  BY <1>1, LockInvariance, PTL

(***************************************************************************)
(* What run_with_lock_recovery reports is what happened, however often the *)
(* lock got in the way: "ok" exactly once, "locked" and "error" never.     *)
(***************************************************************************)
THEOREM LockAnswers == Spec => []AnswerMatchesEffect
<1>1. TypeOK /\ EffectInv => AnswerMatchesEffect
  BY SMTT(30) DEF TypeOK, EffectInv, AnswerMatchesEffect
<1> QED
  BY <1>1, LockInvariance, PTL

(***************************************************************************)
(* Type correctness of the queue, the reapers and the callers, for any     *)
(* number of them: no call waits beyond its patience, and no git command   *)
(* takes effect more often than git was run for it.                        *)
(***************************************************************************)
THEOREM LockTypeCorrect == Spec => []TypeOK
BY LockInvariance, PTL
===========================================================================
