----------------------------- MODULE CycleLock -----------------------------
(***************************************************************************)
(* The locks that keep runs apart (cmd/a_lock.go).  A run opens and flocks *)
(* reports/<cycle>/.lock for all its cycles at once, one goroutine each,   *)
(* for at most ten minutes; unlocking closes each file and removes         *)
(* whatever file is then at its path.  A flock belongs to the open file,   *)
(* not to its path or its process.                                         *)
(***************************************************************************)
EXTENDS Naturals, FiniteSets

CONSTANTS
    Runs,       \* calls of lockCyclesWithTimeout
    Procs,      \* processes
    ProcOf,     \* [Runs -> Procs]
    Cycles,
    Files,      \* inodes: the bound of a check
    NoFile,
    Faults      \* what may go wrong

FaultKinds == { "error",        \* MkdirAll, open or flock fails
                "timeout",      \* ten minutes pass before all is locked
                "exit" }        \* a process exits or is killed

ASSUME ConstantsAssumption ==
    /\ ProcOf \in [Runs -> Procs]
    /\ NoFile \notin Files
    /\ Faults \subseteq FaultKinds

VARIABLES
    path,       \* the file at reports/<cycle>/.lock
    st,         \* where a run stands
    want,       \* cycles of a run
    g,          \* state of the run's lockCycle goroutine, then of its lock
    fd          \* the file that goroutine has open

vars == <<path, st, want, g, fd>>

RunState == {"new", "locking", "held", "unlocking", "undoing", "done",
             "failed", "timedout", "exited"}

LockState == {"none", "opening", "waiting", "error", "locked", "closed",
              "removed", "gone"}

\* States of a goroutine, or of an open file, that a process still has.
Active == {"opening", "waiting", "locked", "closed"}

\* The goroutines of r that have not reported to the aggregating one.
Unreported(r) == {c \in Cycles : g[r][c] \in {"opening", "waiting"}}
In(r, s)      == {c \in Cycles : g[r][c] = s}

SetLock(r, c, s) == g' = [g EXCEPT ![r][c] = s]
CloseFile(r, c)  == fd' = [fd EXCEPT ![r][c] = NoFile]
SetRun(r, s)     == st' = [st EXCEPT ![r] = s]

----------------------------------------------------------------------------
Init ==
    /\ path = [c \in Cycles |-> NoFile]
    /\ st = [r \in Runs |-> "new"]
    /\ want = [r \in Runs |-> {}]
    /\ g = [r \in Runs |-> [c \in Cycles |-> "none"]]
    /\ fd = [r \in Runs |-> [c \in Cycles |-> NoFile]]

\* Mutant: the cycle before the period is locked too.
StartEarlier(r, cs) ==
    /\ st[r] = "new"
    /\ \A q \in Runs : ProcOf[q] = ProcOf[r] =>
          st[q] \notin {"locking", "held", "unlocking", "undoing"}
    /\ cs # {}
    /\ SetRun(r, "locking")
    /\ want' = [want EXCEPT ![r] = cs \cup {c - 1 : c \in cs}]
    /\ g' = [g EXCEPT ![r] = [c \in Cycles |->
                                IF c \in cs THEN "opening" ELSE "none"]]
    /\ UNCHANGED <<path, fd>>

\* lockCycles starts a goroutine for each cycle.  A process locks for one
\* run at a time, but a run that timed out leaves its goroutines behind.
Start(r, cs) ==
    /\ st[r] = "new"
    /\ \A q \in Runs : ProcOf[q] = ProcOf[r] =>
          st[q] \notin {"locking", "held", "unlocking", "undoing"}
    /\ cs # {}
    /\ SetRun(r, "locking")
    /\ want' = [want EXCEPT ![r] = cs]
    /\ g' = [g EXCEPT ![r] = [c \in Cycles |->
                                IF c \in cs THEN "opening" ELSE "none"]]
    /\ UNCHANGED <<path, fd>>

\* Files that a path or an open file still refers to.
InUse == {path[c] : c \in Cycles} \cup {fd[r][c] : r \in Runs, c \in Cycles}

\* The open of filelock: with O_CREATE.
OpenFile(r, c) ==
    /\ g[r][c] = "opening"
    /\ SetLock(r, c, "waiting")
    /\ \/ /\ path[c] # NoFile
          /\ fd' = [fd EXCEPT ![r][c] = path[c]]
          /\ UNCHANGED path
       \/ /\ path[c] = NoFile
          /\ \E f \in Files \ InUse :
               /\ path' = [path EXCEPT ![c] = f]
               /\ fd' = [fd EXCEPT ![r][c] = f]
    /\ UNCHANGED <<st, want>>

LockFails(r, c) ==
    /\ "error" \in Faults
    /\ g[r][c] \in {"opening", "waiting"}
    /\ SetLock(r, c, "error")
    /\ CloseFile(r, c)
    /\ UNCHANGED <<path, st, want>>

\* Mutant: a shared lock.
FlockShared(r, c) ==
    /\ g[r][c] = "waiting"
    /\ SetLock(r, c, "locked")
    /\ UNCHANGED <<path, st, want, fd>>

\* The exclusive flock of filelock: waits while another open of the same
\* file has it.  The goroutine stores the unlock function and reports.
Flock(r, c) ==
    /\ g[r][c] = "waiting"
    /\ \A q \in Runs, d \in Cycles :
          g[q][d] = "locked" => fd[q][d] # fd[r][c]
    /\ SetLock(r, c, "locked")
    /\ UNCHANGED <<path, st, want, fd>>

\* Mutant: the first lock is enough.
LockedFirst(r) ==
    /\ st[r] = "locking"
    /\ In(r, "locked") # {}
    /\ SetRun(r, "held")
    /\ UNCHANGED <<path, want, g, fd>>

\* Every goroutine reported success.
Locked(r) ==
    /\ st[r] = "locking"
    /\ Unreported(r) = {} /\ In(r, "error") = {}
    /\ SetRun(r, "held")
    /\ UNCHANGED <<path, want, g, fd>>

\* Mutant: the locks that were obtained are kept.
FailedKept(r) ==
    /\ st[r] = "locking"
    /\ Unreported(r) = {} /\ In(r, "error") # {}
    /\ SetRun(r, "failed")
    /\ UNCHANGED <<path, want, g, fd>>

\* Every goroutine reported, some an error: what was locked is unlocked.
Failed(r) ==
    /\ st[r] = "locking"
    /\ Unreported(r) = {} /\ In(r, "error") # {}
    /\ SetRun(r, IF In(r, "locked") = {} THEN "failed" ELSE "undoing")
    /\ UNCHANGED <<path, want, g, fd>>

\* The context expires first: the run is told so, its goroutines go on.
Timeout(r) ==
    /\ "timeout" \in Faults
    /\ st[r] = "locking"
    /\ SetRun(r, "timedout")
    /\ UNCHANGED <<path, want, g, fd>>

\* Mutant: the run ends and forgets to unlock.
UnlockNever(r) ==
    /\ st[r] = "held"
    /\ SetRun(r, "done")
    /\ UNCHANGED <<path, want, g, fd>>

\* The run has done its work and calls unlock.
Unlock(r) ==
    /\ st[r] = "held"
    /\ SetRun(r, "unlocking")
    /\ UNCHANGED <<path, want, g, fd>>

\* The unlock functions are called one after the other; closing the file
\* releases its flock ...
Close(r, c) ==
    /\ st[r] \in {"unlocking", "undoing"}
    /\ g[r][c] = "locked" /\ In(r, "closed") = {}
    /\ SetLock(r, c, "closed")
    /\ CloseFile(r, c)
    /\ UNCHANGED <<path, st, want>>

\* ... and then whatever file is at the path is removed.
Remove(r, c) ==
    /\ st[r] \in {"unlocking", "undoing"}
    /\ g[r][c] = "closed"
    /\ SetLock(r, c, "removed")
    /\ path' = [path EXCEPT ![c] = NoFile]
    /\ IF In(r, "locked") # {} THEN UNCHANGED st
       ELSE SetRun(r, IF st[r] = "unlocking" THEN "done" ELSE "failed")
    /\ UNCHANGED <<want, fd>>

\* A run that timed out lost its unlock functions.  Once all its goroutines
\* have reported, nothing refers to them and the runtime closes the files.
Collect(r, c) ==
    /\ st[r] = "timedout"
    /\ Unreported(r) = {}
    /\ g[r][c] = "locked"
    /\ SetLock(r, c, "gone")
    /\ CloseFile(r, c)
    /\ UNCHANGED <<path, st, want>>

\* os.Exit, which runs no deferred unlock, or a kill: the system closes the
\* process's files, and no lock file is removed.
ProcExit(p) ==
    /\ "exit" \in Faults
    /\ st' = [r \in Runs |->
                IF ProcOf[r] = p /\ st[r] \notin {"new", "done", "failed"}
                THEN "exited" ELSE st[r]]
    /\ g' = [r \in Runs |-> [c \in Cycles |->
                IF ProcOf[r] = p /\ g[r][c] \in Active
                THEN "gone" ELSE g[r][c]]]
    /\ fd' = [r \in Runs |-> [c \in Cycles |->
                IF ProcOf[r] = p THEN NoFile ELSE fd[r][c]]]
    /\ UNCHANGED <<path, want>>

----------------------------------------------------------------------------
Working(r) ==
    \/ \E c \in Cycles : OpenFile(r, c) \/ Flock(r, c) \/ Close(r, c)
                         \/ Remove(r, c)
    \/ Locked(r) \/ Failed(r) \/ Unlock(r)

Next ==
    \/ \E r \in Runs :
         \/ \E cs \in SUBSET Cycles : Start(r, cs)
         \/ Working(r)
         \/ Timeout(r)
         \/ \E c \in Cycles : LockFails(r, c) \/ Collect(r, c)
    \/ \E p \in Procs : ProcExit(p)

Spec == Init /\ [][Next]_vars

\* Goroutines are scheduled, flock is granted, a run ends its work, and the
\* runtime collects garbage at least every two minutes.
FairSpec ==
    /\ Spec
    /\ \A r \in Runs : WF_vars(Working(r)) /\ \A c \in Cycles : WF_vars(Collect(r, c))

----------------------------------------------------------------------------
TypeOK ==
    /\ path \in [Cycles -> Files \cup {NoFile}]
    /\ st \in [Runs -> RunState]
    /\ want \in [Runs -> SUBSET Cycles]
    /\ g \in [Runs -> [Cycles -> LockState]]
    /\ fd \in [Runs -> [Cycles -> Files \cup {NoFile}]]

Holds(r, c) == st[r] = "held" /\ c \in want[r]

\* Two runs never work on one cycle at the same time.  This is what the
\* locks are for, and it holds between two runs.
MutualExclusion ==
    \A r, q \in Runs, c \in Cycles : Holds(r, c) /\ Holds(q, c) => r = q

\* Among any number of runs, two work on one cycle at the same time only
\* after a third one removed the lock file from under one of them.
OverlapNeedsThirdRun ==
    \A r, q \in Runs, c \in Cycles :
        Holds(r, c) /\ Holds(q, c) /\ r # q =>
            \E s \in Runs \ {r, q} : g[s][c] = "removed"

\* A run that is over, or whose locking failed for a part of its cycles,
\* keeps no lock and waits for none.
NothingLeftBehind ==
    \A r \in Runs : st[r] \in {"done", "failed", "exited"} =>
        \A c \in Cycles : g[r][c] \notin Active

\* Between runs of one cycle each, a run that does not give up gets its lock,
\* though others may give up and leave goroutines behind that lock later.
EveryRunGetsItsTurn ==
    \A r \in Runs : st[r] = "locking" ~> st[r] \in {"held", "timedout"}

----------------------------------------------------------------------------
(* The inductive invariant of the safety proofs, in named parts.           *)

\* What a run's state says about its goroutines and locks.
RunInv(r) ==
    /\ \A c \in Cycles \ want[r] : g[r][c] = "none"
    /\ st[r] = "new" => want[r] = {}
    /\ st[r] = "locking" => \A c \in want[r] :
          g[r][c] \in {"opening", "waiting", "error", "locked"}
    /\ st[r] = "held" => \A c \in want[r] : g[r][c] = "locked"
    /\ st[r] \in {"unlocking", "undoing"} =>
          /\ \A c \in Cycles : g[r][c] \notin {"opening", "waiting"}
          /\ \A c, d \in Cycles :
                g[r][c] = "closed" /\ g[r][d] = "closed" => c = d
    /\ st[r] \in {"done", "failed", "exited"} =>
          \A c \in Cycles : g[r][c] \notin Active

\* A run has open what is at the path, unless some run has removed that.
OpenInv ==
    \A r \in Runs, c \in Cycles : g[r][c] \in {"waiting", "locked"} =>
        /\ fd[r][c] \in Files
        /\ fd[r][c] = path[c] \/ \E s \in Runs : g[s][c] = "removed"

\* One open file at a time has the flock of a file.
FlockInv ==
    \A r, q \in Runs, c, d \in Cycles :
        /\ g[r][c] = "locked" /\ g[q][d] = "locked"
        /\ fd[r][c] = fd[q][d]
        => r = q /\ c = d

LockInv == (\A r \in Runs : RunInv(r)) /\ OpenInv /\ FlockInv
============================================================================
