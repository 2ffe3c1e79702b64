---------------------------- MODULE WorktreeLease ----------------------------
(***************************************************************************)
(* The worktree lease: the file <common-git-dir>/ralph/agent-lease.lock    *)
(* that processes of one repository acquire, release and, when its holder  *)
(* has died, reclaim (ralph/git/_git_command_queue_lease.py and            *)
(* ralph/git/_worktree_lease.py).                                          *)
(*                                                                         *)
(* A process is a member of Procs and is also the pid it stamps into the   *)
(* file.  One action is one system call of the code: other processes run   *)
(* between any two of them, and a process may crash between any two.       *)
(* flock is the kernel's: it belongs to an inode, excludes only processes  *)
(* that have the same inode open, and is dropped when the process dies.    *)
(* The age of a lease is left out: it annotates the verdict and never      *)
(* changes it (decide_lease_steal).                                        *)
(***************************************************************************)
EXTENDS FiniteSets

CONSTANTS Procs,    \* the processes that contend for the lease
          Inodes,   \* the inodes the file system may hand out
          Nil       \* no file, no inode, no process, no pid

ASSUME NilIsNew == Nil \notin Procs /\ Nil \notin Inodes

VARIABLES path,       \* the inode the lock path names, or Nil
          fd,         \* fd[p]: the inode p has open, or Nil
          locker,     \* locker[i]: the process that holds flock on i, or Nil
          payload,    \* payload[i]: the pid written in i, Nil for an empty file
          lease_pc,   \* lease_pc[p]: the next system call of p
          rec,        \* rec[p]: the pid p read from the lock file
          overtaken,  \* history: a takeover locked a file before its creator did
          ask,        \* a call of is_lease_held: none, before its probe, or "free"
          asked       \* the pid it read

asker == <<ask, asked>>
lease_vars == <<path, fd, locker, payload, lease_pc, rec, overtaken, asker>>

LeaseSteps == {"idle", "create", "lock", "stamp", "held", "discard", "unlink",
               "close", "read", "probe", "open", "relock", "verify", "truncate",
               "restamp", "dead"}

Alive(p) == lease_pc[p] # "dead"
Holders == {p \in Procs : lease_pc[p] = "held"}

LeaseTypeOK ==
    /\ path \in Inodes \cup {Nil}
    /\ fd \in [Procs -> Inodes \cup {Nil}]
    /\ locker \in [Inodes -> Procs \cup {Nil}]
    /\ payload \in [Inodes -> Procs \cup {Nil}]
    /\ lease_pc \in [Procs -> LeaseSteps]
    /\ rec \in [Procs -> Procs \cup {Nil}]
    /\ overtaken \in BOOLEAN
    /\ ask \in {"none", "probe", "free"} /\ asked \in Procs \cup {Nil}

LeaseInit ==
    /\ path = Nil
    /\ fd = [p \in Procs |-> Nil]
    /\ locker = [i \in Inodes |-> Nil]
    /\ payload = [i \in Inodes |-> Nil]
    /\ lease_pc = [p \in Procs |-> "idle"]
    /\ rec = [p \in Procs |-> Nil]
    /\ overtaken = FALSE
    /\ ask = "none" /\ asked = Nil

LeaseGoto(p, step) == lease_pc' = [lease_pc EXCEPT ![p] = step]

-----------------------------------------------------------------------------
(* _acquire_lock_file: create the file with O_EXCL, lock it, stamp it.     *)

BeginAgentLease(p) ==
    /\ lease_pc[p] = "idle"
    /\ LeaseGoto(p, "create")
    /\ UNCHANGED <<path, fd, locker, payload, rec, overtaken>>

\* An inode is handed out again only when no path names it and nobody has it
\* open.
FreeInodes == {i \in Inodes : i # path /\ \A p \in Procs : fd[p] # i}

CreateExclusive(p) ==
    /\ lease_pc[p] = "create"
    /\ path = Nil
    /\ \E i \in FreeInodes :
         /\ path' = i
         /\ fd' = [fd EXCEPT ![p] = i]
         /\ payload' = [payload EXCEPT ![i] = Nil]
         /\ locker' = [locker EXCEPT ![i] = Nil]
    /\ LeaseGoto(p, "lock")
    /\ UNCHANGED <<rec, overtaken>>

CreateFileExists(p) ==
    /\ lease_pc[p] = "create"
    /\ path # Nil
    /\ LeaseGoto(p, "read")
    /\ UNCHANGED <<path, fd, locker, payload, rec, overtaken>>

LockNewFile(p) ==
    /\ lease_pc[p] = "lock"
    /\ locker[fd[p]] = Nil
    /\ locker' = [locker EXCEPT ![fd[p]] = p]
    /\ LeaseGoto(p, "stamp")
    /\ UNCHANGED <<path, fd, payload, rec, overtaken>>

\* The new file is already locked by a process that took it over.
LockNewFileFails(p) ==
    /\ lease_pc[p] = "lock"
    /\ locker[fd[p]] # Nil
    /\ LeaseGoto(p, "discard")
    /\ UNCHANGED <<path, fd, locker, payload, rec, overtaken>>

StampNewFile(p) ==
    /\ lease_pc[p] = "stamp"
    /\ payload' = [payload EXCEPT ![fd[p]] = p]
    /\ LeaseGoto(p, "held")
    /\ UNCHANGED <<path, fd, locker, rec, overtaken>>

StampNewFileFails(p) ==
    /\ lease_pc[p] = "stamp"
    /\ LeaseGoto(p, "discard")
    /\ UNCHANGED <<path, fd, locker, payload, rec, overtaken>>

-----------------------------------------------------------------------------
(* release and _discard_created_lock_file: unlink the path if it still     *)
(* names our inode, then close.                                            *)

FdOwnsPath(p) == path # Nil /\ path = fd[p]

CheckOwnPath(p) ==
    /\ lease_pc[p] \in {"held", "discard"}
    /\ LeaseGoto(p, IF FdOwnsPath(p) THEN "unlink" ELSE "close")
    /\ UNCHANGED <<path, fd, locker, payload, rec, overtaken>>

\* unlink removes whatever the path names by now.
Unlink(p) ==
    /\ lease_pc[p] = "unlink"
    /\ path' = Nil
    /\ LeaseGoto(p, "close")
    /\ UNCHANGED <<fd, locker, payload, rec, overtaken>>

DropFlocks(p) == [i \in Inodes |-> IF locker[i] = p THEN Nil ELSE locker[i]]

Close(p) ==
    /\ lease_pc[p] = "close"
    /\ fd' = [fd EXCEPT ![p] = Nil]
    /\ locker' = DropFlocks(p)
    /\ LeaseGoto(p, "idle")
    /\ UNCHANGED <<path, payload, rec, overtaken>>

-----------------------------------------------------------------------------
(* reclaim_dead_lease: read the record, probe the holder it names, and     *)
(* take the file over when the holder is proven dead.                      *)

ReadRecord(p) ==
    /\ lease_pc[p] = "read"
    /\ path # Nil
    /\ rec' = [rec EXCEPT ![p] = payload[path]]
    /\ LeaseGoto(p, "probe")
    /\ UNCHANGED <<path, fd, locker, payload, overtaken>>

RecordGone(p) ==
    /\ lease_pc[p] = "read"
    /\ path = Nil
    /\ LeaseGoto(p, "idle")
    /\ UNCHANGED <<path, fd, locker, payload, rec, overtaken>>

HasLockFileOpen(q) == Alive(q) /\ path # Nil /\ fd[q] = path

\* lock_has_no_live_holder: an open descriptor of the file is proof of life;
\* every other answer may be cut short by the probe's deadline.
RepositoryVerdicts ==
    {"unknown"} \cup
      (IF \E q \in Procs : HasLockFileOpen(q) THEN {"live"} ELSE {"dead"})

\* Mutant: does not look for the file among the holder's open ones
HolderVerdictsUnseen(q) ==
    IF ~Alive(q) THEN {"dead"} ELSE RepositoryVerdicts \cup {"dead"}

\* Mutant: takes a missing process for one it may not see
HolderVerdictsUndecided(q) ==
    IF ~Alive(q) THEN {"unknown"}
    ELSE IF HasLockFileOpen(q) THEN {"live"} ELSE RepositoryVerdicts

\* _probe_holder_pid: a pid that names no process is dead; a live process is
\* "live" only if it has the file open, and otherwise ruled out or not.
HolderVerdicts(q) ==
    IF ~Alive(q) THEN {"dead"}
    ELSE IF HasLockFileOpen(q) THEN {"live"}
    ELSE RepositoryVerdicts \cup (IF path = Nil THEN {} ELSE {"dead"})

LeaseVerdicts(pid) == IF pid = Nil THEN RepositoryVerdicts ELSE HolderVerdicts(pid)

LeaseProbeSaysDead(p) ==
    /\ lease_pc[p] = "probe"
    /\ "dead" \in LeaseVerdicts(rec[p])
    /\ rec' = [rec EXCEPT ![p] = Nil]
    /\ LeaseGoto(p, "open")
    /\ UNCHANGED <<path, fd, locker, payload, overtaken>>

LeaseProbeRefuses(p) ==
    /\ lease_pc[p] = "probe"
    /\ LeaseVerdicts(rec[p]) # {"dead"}
    /\ rec' = [rec EXCEPT ![p] = Nil]
    /\ LeaseGoto(p, "idle")
    /\ UNCHANGED <<path, fd, locker, payload, overtaken>>

OpenLockFile(p) ==
    /\ lease_pc[p] = "open"
    /\ fd' = [fd EXCEPT ![p] = path]
    /\ LeaseGoto(p, IF path = Nil THEN "idle" ELSE "relock")
    /\ UNCHANGED <<path, locker, payload, rec, overtaken>>

\* Mutant: a shared flock
LockOldFileShared(p) ==
    /\ lease_pc[p] = "relock"
    /\ locker' = [locker EXCEPT ![fd[p]] = p]
    /\ LeaseGoto(p, "verify")
    /\ UNCHANGED <<path, fd, payload, rec, overtaken>>

LockOldFile(p) ==
    /\ lease_pc[p] = "relock"
    /\ locker[fd[p]] = Nil
    /\ locker' = [locker EXCEPT ![fd[p]] = p]
    /\ overtaken' = (overtaken \/ \E q \in Procs : lease_pc[q] = "lock" /\ fd[q] = fd[p])
    /\ LeaseGoto(p, "verify")
    /\ UNCHANGED <<path, fd, payload, rec>>

LockOldFileFails(p) ==
    /\ lease_pc[p] = "relock"
    /\ locker[fd[p]] # Nil
    /\ LeaseGoto(p, "close")
    /\ UNCHANGED <<path, fd, locker, payload, rec, overtaken>>

VerifyPath(p) ==
    /\ lease_pc[p] = "verify"
    /\ LeaseGoto(p, IF FdOwnsPath(p) THEN "truncate" ELSE "close")
    /\ UNCHANGED <<path, fd, locker, payload, rec, overtaken>>

Truncate(p) ==
    /\ lease_pc[p] = "truncate"
    /\ payload' = [payload EXCEPT ![fd[p]] = Nil]
    /\ LeaseGoto(p, "restamp")
    /\ UNCHANGED <<path, fd, locker, rec, overtaken>>

Restamp(p) ==
    /\ lease_pc[p] = "restamp"
    /\ payload' = [payload EXCEPT ![fd[p]] = p]
    /\ LeaseGoto(p, "held")
    /\ UNCHANGED <<path, fd, locker, rec, overtaken>>

\* An I/O error while the file is rewritten closes it and leaves it in place.
RewriteFails(p) ==
    /\ lease_pc[p] \in {"truncate", "restamp"}
    /\ LeaseGoto(p, "close")
    /\ UNCHANGED <<path, fd, locker, payload, rec, overtaken>>

\* The process dies: the kernel closes its descriptors and drops its flocks;
\* the lock file stays.
Crash(p) ==
    /\ Alive(p)
    /\ LeaseGoto(p, "dead")
    /\ fd' = [fd EXCEPT ![p] = Nil]
    /\ rec' = [rec EXCEPT ![p] = Nil]
    /\ locker' = DropFlocks(p)
    /\ UNCHANGED <<path, payload, overtaken>>

-----------------------------------------------------------------------------
(* is_lease_held, which a background mutator asks before it touches the    *)
(* worktree: it reads the record and then probes the holder it names, and  *)
(* the processes run between the two.  A call is followed while somebody   *)
(* holds the lease (Contended): if nobody does at some moment of the call, *)
(* neither answer is wrong.                                                *)

Contended == Holders # {}

AskReads ==
    /\ ask # "probe" /\ Contended
    /\ IF path = Nil THEN ask' = "free" /\ asked' = Nil
       ELSE ask' = "probe" /\ asked' = payload[path]
    /\ UNCHANGED <<path, fd, locker, payload, lease_pc, rec, overtaken>>

\* Held, which ends the call, unless the probe has positive evidence that the
\* holder is dead.
AskProbes ==
    /\ ask = "probe"
    /\ \E v \in LeaseVerdicts(asked) : ask' = IF v = "dead" THEN "free" ELSE "none"
    /\ asked' = Nil
    /\ UNCHANGED <<path, fd, locker, payload, lease_pc, rec, overtaken>>

\* A step of a process falls between the read and the probe of a call, or comes
\* after the answer.
DuringCall ==
    IF ask = "probe" /\ Contended' THEN UNCHANGED asker ELSE ask' = "none" /\ asked' = Nil

-----------------------------------------------------------------------------
\* What a process does when nothing fails.
Calls(p) ==
    \/ BeginAgentLease(p)  \/ CreateExclusive(p) \/ CreateFileExists(p)
    \/ LockNewFile(p)      \/ LockNewFileFails(p) \/ StampNewFile(p)
    \/ CheckOwnPath(p)     \/ Unlink(p)           \/ Close(p)
    \/ ReadRecord(p)       \/ RecordGone(p)       \/ LeaseProbeSaysDead(p)
    \/ LeaseProbeRefuses(p) \/ OpenLockFile(p)    \/ LockOldFile(p)
    \/ LockOldFileFails(p) \/ VerifyPath(p)       \/ Truncate(p)
    \/ Restamp(p)

Fails(p) == StampNewFileFails(p) \/ RewriteFails(p) \/ Crash(p)

Step(p) == Calls(p) /\ DuringCall
Fault(p) == Fails(p) /\ DuringCall

LeaseNext ==
    \/ \E p \in Procs : Step(p) \/ Fault(p)
    \/ AskReads \/ AskProbes

LeaseSpec == LeaseInit /\ [][LeaseNext]_lease_vars

\* A live process takes its next system call; the catch-up ticker asks for
\* the lease on every tick.  Rewriting a file does not fail for ever.
LeaseFairSpec ==
    LeaseSpec /\ \A p \in Procs : WF_lease_vars(Step(p)) /\ SF_lease_vars(Truncate(p) /\ DuringCall)

-----------------------------------------------------------------------------
(***************************************************************************)
(* At most one process holds the lease.  This is what the lease is for; it *)
(* fails once a creator has been overtaken (see Exclusive).                *)
(***************************************************************************)
MutualExclusion == \A p, q \in Holders : p = q

(***************************************************************************)
(* At most one process holds the lease, as long as no process took over a  *)
(* file between its creation (O_EXCL) and its creator's flock: whatever    *)
(* the crashes, the failed writes, the releases and the takeovers, the     *)
(* inode checks and the order unlink-then-close keep the holder alone.     *)
(***************************************************************************)
Exclusive == overtaken \/ MutualExclusion

(***************************************************************************)
(* While nobody was overtaken, is_lease_held does not answer "free" to a   *)
(* call during all of which somebody held the lease: a background mutator  *)
(* that skips on "held" never starts beside a process that had the lease   *)
(* before it asked and still has it.  No more is true: a process that      *)
(* takes the lease of a dead one between the read and the probe, or after  *)
(* the probe, goes unseen.                                                 *)
(***************************************************************************)
FreeMeansNoHolder == overtaken \/ ask # "free"

NamesDeadHolder == path # Nil /\ payload[path] \in Procs /\ ~Alive(payload[path])

(***************************************************************************)
(* A lease that names a dead process does not stay for ever: while some    *)
(* process keeps asking for it, it is reclaimed, whoever crashed and       *)
(* whenever.                                                               *)
(***************************************************************************)
DeadLeaseIsReclaimed ==
    NamesDeadHolder ~> (~NamesDeadHolder \/ \A p \in Procs : ~Alive(p))
=============================================================================
