-------------------------- MODULE CycleLock_proofs --------------------------
(***************************************************************************)
(* Proofs about CycleLock, for any runs, processes, cycles, files and      *)
(* faults.                                                                 *)
(***************************************************************************)
EXTENDS CycleLock, TLAPS

(* What an update of one cell of a table of the runs' cycles does. *)
LEMMA SetCell ==
  ASSUME NEW S, NEW m \in [Runs -> [Cycles -> S]], NEW x \in S,
         NEW r \in Runs, NEW c \in Cycles
  PROVE  /\ [m EXCEPT ![r][c] = x] \in [Runs -> [Cycles -> S]]
         /\ \A q \in Runs, d \in Cycles :
              [m EXCEPT ![r][c] = x][q][d] =
                IF q = r /\ d = c THEN x ELSE m[q][d]
  OBVIOUS

(* Opening a lock file makes it the one at the path: it was, or there was  *)
(* none.                                                                   *)
LEMMA Opened ==
  ASSUME TypeOK, NEW r \in Runs, NEW c \in Cycles, OpenFile(r, c)
  PROVE  \E f \in Files :
           /\ fd' = [fd EXCEPT ![r][c] = f]
           /\ path' = [path EXCEPT ![c] = f]
           /\ path[c] \in {f, NoFile}
<1>1. CASE path[c] # NoFile
  <2>1. path[c] \in Files
    BY <1>1 DEF TypeOK
  <2>2. fd' = [fd EXCEPT ![r][c] = path[c]] /\ path' = path
    BY <1>1 DEF OpenFile
  <2>3. path = [path EXCEPT ![c] = path[c]]
    BY DEF TypeOK
  <2> QED
    BY <2>1, <2>2, <2>3
<1>2. CASE path[c] = NoFile
  BY <1>2 DEF OpenFile
<1> QED
  BY <1>1, <1>2

(* What the steps on one lock do to the table of locks. *)
LEMMA LockSet ==
  ASSUME TypeOK, NEW r \in Runs, NEW c \in Cycles, NEW s \in LockState,
         SetLock(r, c, s)
  PROVE  /\ g' \in [Runs -> [Cycles -> LockState]]
         /\ \A q \in Runs, d \in Cycles :
              g'[q][d] = IF q = r /\ d = c THEN s ELSE g[q][d]
  BY SetCell DEF SetLock, TypeOK

(* What closing a file does to the table of open files. *)
LEMMA FileClosed ==
  ASSUME TypeOK, NEW r \in Runs, NEW c \in Cycles, CloseFile(r, c)
  PROVE  /\ fd' \in [Runs -> [Cycles -> Files \cup {NoFile}]]
         /\ \A q \in Runs, d \in Cycles :
              fd'[q][d] = IF q = r /\ d = c THEN NoFile ELSE fd[q][d]
  BY SetCell DEF CloseFile, TypeOK

(* What the exit of a process does to both. *)
LEMMA Exited ==
  ASSUME TypeOK, NEW p \in Procs, ProcExit(p)
  PROVE  /\ g' \in [Runs -> [Cycles -> LockState]]
         /\ fd' \in [Runs -> [Cycles -> Files \cup {NoFile}]]
         /\ \A q \in Runs, d \in Cycles :
              /\ g'[q][d] = IF ProcOf[q] = p /\ g[q][d] \in Active
                            THEN "gone" ELSE g[q][d]
              /\ fd'[q][d] = IF ProcOf[q] = p THEN NoFile ELSE fd[q][d]
  BY DEF ProcExit, TypeOK, LockState

(* Every step keeps the type of every variable. *)
LEMMA TypeStep == TypeOK /\ [Next]_vars => TypeOK'
<1> SUFFICES ASSUME TypeOK, [Next]_vars PROVE TypeOK'
  OBVIOUS
<1>1. ASSUME NEW r \in Runs, NEW cs \in SUBSET Cycles, Start(r, cs)
      PROVE  TypeOK'
  BY <1>1 DEF Start, TypeOK, SetRun, RunState, LockState
<1>2. ASSUME NEW r \in Runs, NEW c \in Cycles, OpenFile(r, c)
      PROVE  TypeOK'
  <2>1. g' \in [Runs -> [Cycles -> LockState]]
    BY <1>2, LockSet DEF OpenFile, LockState
  <2>2. PICK f \in Files : /\ fd' = [fd EXCEPT ![r][c] = f]
                           /\ path' = [path EXCEPT ![c] = f]
    BY <1>2, Opened
  <2>3. fd' \in [Runs -> [Cycles -> Files \cup {NoFile}]]
    BY <2>2, SetCell DEF TypeOK
  <2> QED
    BY <1>2, <2>1, <2>2, <2>3 DEF OpenFile, TypeOK
<1>3. ASSUME NEW r \in Runs, NEW c \in Cycles,
             Close(r, c) \/ LockFails(r, c) \/ Collect(r, c)
      PROVE  TypeOK'
  <2>1. g' \in [Runs -> [Cycles -> LockState]]
    BY <1>3, LockSet DEF Close, LockFails, Collect, LockState
  <2>2. fd' \in [Runs -> [Cycles -> Files \cup {NoFile}]]
    BY <1>3, FileClosed DEF Close, LockFails, Collect
  <2> QED
    BY <1>3, <2>1, <2>2 DEF Close, LockFails, Collect, TypeOK
<1>4. ASSUME NEW r \in Runs, NEW c \in Cycles, Flock(r, c) \/ Remove(r, c)
      PROVE  TypeOK'
  <2>1. g' \in [Runs -> [Cycles -> LockState]]
    BY <1>4, LockSet DEF Flock, Remove, LockState
  <2>2. path' \in [Cycles -> Files \cup {NoFile}]
        /\ st' \in [Runs -> RunState]
    BY <1>4 DEF Flock, Remove, SetRun, TypeOK, RunState
  <2> QED
    BY <1>4, <2>1, <2>2 DEF Flock, Remove, TypeOK
<1>5. ASSUME NEW r \in Runs,
             Locked(r) \/ Failed(r) \/ Unlock(r) \/ Timeout(r)
      PROVE  TypeOK'
  BY <1>5 DEF Locked, Failed, Unlock, Timeout, TypeOK, SetRun, RunState
<1>6. ASSUME NEW p \in Procs, ProcExit(p)
      PROVE  TypeOK'
  BY <1>6, Exited DEF ProcExit, TypeOK, RunState
<1>7. CASE UNCHANGED vars
  BY <1>7 DEF vars, TypeOK
<1> QED
  BY <1>1, <1>2, <1>3, <1>4, <1>5, <1>6, <1>7 DEF Next, Working

(* Every variable keeps its type. *)
THEOREM TypeCorrect == Spec => []TypeOK
<1>1. Init => TypeOK
  BY DEF Init, TypeOK, RunState, LockState
<1> QED
  BY <1>1, TypeStep, PTL DEF Spec

----------------------------------------------------------------------------
(* The sets the guards look at, as quantifiers. *)
LEMMA NoneIn ==
  ASSUME NEW r \in Runs
  PROVE  /\ \A s \in LockState :
              In(r, s) = {} <=> \A c \in Cycles : g[r][c] # s
         /\ Unreported(r) = {} <=>
              \A c \in Cycles : g[r][c] \notin {"opening", "waiting"}
  BY DEF In, Unreported

(* What a run's state says about its locks is kept by every step. *)
LEMMA RunKept ==
  ASSUME TypeOK, [Next]_vars, \A r \in Runs : RunInv(r)
  PROVE  \A r \in Runs : RunInv(r)'
<1> SUFFICES ASSUME NEW q \in Runs PROVE RunInv(q)'
  OBVIOUS
<1>0. RunInv(q) /\ want[q] \subseteq Cycles
  BY DEF TypeOK
<1> USE DEF RunInv, Active
<1>1. ASSUME NEW r \in Runs, NEW cs \in SUBSET Cycles, Start(r, cs)
      PROVE  RunInv(q)'
  BY <1>0, <1>1 DEF Start, TypeOK, SetRun
<1>2. ASSUME NEW r \in Runs, NEW c \in Cycles, OpenFile(r, c)
      PROVE  RunInv(q)'
  <2>1. \A d \in Cycles :
          g'[q][d] = IF q = r /\ d = c THEN "waiting" ELSE g[q][d]
    BY <1>2, LockSet DEF OpenFile, LockState
  <2>2. g[r][c] = "opening" /\ st' = st /\ want' = want
    BY <1>2 DEF OpenFile
  <2> QED
    BY <1>0, <2>1, <2>2
<1>3. ASSUME NEW r \in Runs, NEW c \in Cycles, Flock(r, c)
      PROVE  RunInv(q)'
  <2>1. \A d \in Cycles :
          g'[q][d] = IF q = r /\ d = c THEN "locked" ELSE g[q][d]
    BY <1>3, LockSet DEF Flock, LockState
  <2> QED
    BY <1>0, <1>3, <2>1 DEF Flock, TypeOK
<1>4. ASSUME NEW r \in Runs, NEW c \in Cycles, LockFails(r, c)
      PROVE  RunInv(q)'
  <2>1. \A d \in Cycles :
          g'[q][d] = IF q = r /\ d = c THEN "error" ELSE g[q][d]
    BY <1>4, LockSet DEF LockFails, LockState
  <2> QED
    BY <1>0, <1>4, <2>1 DEF LockFails, TypeOK
<1>5. ASSUME NEW r \in Runs, NEW c \in Cycles, Close(r, c)
      PROVE  RunInv(q)'
  <2>1. \A d \in Cycles :
          g'[q][d] = IF q = r /\ d = c THEN "closed" ELSE g[q][d]
    BY <1>5, LockSet DEF Close, LockState
  <2>2. /\ st[r] \in {"unlocking", "undoing"}
        /\ g[r][c] = "locked" /\ \A d \in Cycles : g[r][d] # "closed"
        /\ st' = st /\ want' = want
    BY <1>5, NoneIn DEF Close, LockState
  <2> QED
    BY <1>0, <2>1, <2>2
<1>6. ASSUME NEW r \in Runs, NEW c \in Cycles, Remove(r, c)
      PROVE  RunInv(q)'
  <2>1. \A d \in Cycles :
          g'[q][d] = IF q = r /\ d = c THEN "removed" ELSE g[q][d]
    BY <1>6, LockSet DEF Remove, LockState
  <2>2. /\ st[r] \in {"unlocking", "undoing"}
        /\ g[r][c] = "closed" /\ want' = want
        /\ \A p \in Runs \ {r} : st'[p] = st[p]
    BY <1>6 DEF Remove, SetRun, TypeOK
  <2>0. In(r, "locked") = {} <=> \A d \in Cycles : g[r][d] # "locked"
    BY NoneIn DEF LockState
  <2>3. \/ st'[r] = st[r]
        \/ st'[r] \in {"done", "failed"} /\ \A d \in Cycles : g[r][d] # "locked"
    BY <1>6, <2>0 DEF Remove, SetRun, TypeOK
  <2>4. CASE q # r
    BY <1>0, <2>1, <2>2, <2>4
  <2>5. CASE q = r
    <3>1. \A d \in Cycles : g[r][d] \notin {"opening", "waiting"}
          /\ (g[r][d] = "closed" => d = c)
      BY <1>0, <2>2, <2>5
    <3> QED
      BY <1>0, <2>1, <2>2, <2>3, <2>5, <3>1
  <2> QED
    BY <2>4, <2>5
<1>7. ASSUME NEW r \in Runs, NEW c \in Cycles, Collect(r, c)
      PROVE  RunInv(q)'
  <2>1. \A d \in Cycles :
          g'[q][d] = IF q = r /\ d = c THEN "gone" ELSE g[q][d]
    BY <1>7, LockSet DEF Collect, LockState
  <2> QED
    BY <1>0, <1>7, <2>1 DEF Collect, TypeOK
<1>8. ASSUME NEW r \in Runs,
             Locked(r) \/ Failed(r) \/ Unlock(r) \/ Timeout(r)
      PROVE  RunInv(q)'
  <2>0. g' = g /\ want' = want
    BY <1>8 DEF Locked, Failed, Unlock, Timeout
  <2>1. CASE q # r
    <3>1. st'[q] = st[q]
      BY <1>8, <2>1 DEF Locked, Failed, Unlock, Timeout, SetRun, TypeOK
    <3> QED
      BY <1>0, <2>0, <3>1
  <2>2. CASE q = r
    <3>0. /\ Unreported(r) = {} <=>
               \A c \in Cycles : g[r][c] \notin {"opening", "waiting"}
          /\ In(r, "error") = {} <=> \A c \in Cycles : g[r][c] # "error"
          /\ In(r, "locked") = {} <=> \A c \in Cycles : g[r][c] # "locked"
      BY NoneIn DEF LockState
    <3>1. CASE Locked(r)
      BY <1>0, <2>0, <2>2, <3>0, <3>1 DEF Locked, SetRun, TypeOK
    <3>2. CASE Failed(r)
      BY <1>0, <2>0, <2>2, <3>0, <3>2 DEF Failed, SetRun, TypeOK
    <3>3. CASE Unlock(r)
      <4>1. st[r] = "held" /\ st'[r] = "unlocking"
        BY <3>3 DEF Unlock, SetRun, TypeOK
      <4>2. \A c \in Cycles : g[r][c] \in {"none", "locked"}
        BY <1>0, <2>2, <4>1
      <4> QED
        BY <1>0, <2>0, <2>2, <4>1, <4>2
    <3>4. CASE Timeout(r)
      BY <1>0, <2>0, <2>2, <3>4 DEF Timeout, SetRun, TypeOK
    <3> QED
      BY <1>8, <3>1, <3>2, <3>3, <3>4
  <2> QED
    BY <2>1, <2>2
<1>9. ASSUME NEW p \in Procs, ProcExit(p)
      PROVE  RunInv(q)'
  <2>1. \A d \in Cycles :
          g'[q][d] = IF ProcOf[q] = p /\ g[q][d] \in Active
                     THEN "gone" ELSE g[q][d]
    BY <1>9, Exited
  <2>2. st'[q] = (IF ProcOf[q] = p /\ st[q] \notin {"new", "done", "failed"}
                  THEN "exited" ELSE st[q])
        /\ want' = want
    BY <1>9 DEF ProcExit
  <2> QED
    BY <1>0, <2>1, <2>2
<1>10. CASE UNCHANGED vars
  BY <1>0, <1>10 DEF vars
<1> QED
  BY <1>1, <1>2, <1>3, <1>4, <1>5, <1>6, <1>7, <1>8, <1>9, <1>10
     DEF Next, Working

----------------------------------------------------------------------------
(* A removal is never forgotten. *)
LEMMA RemovedStays ==
  ASSUME TypeOK, [Next]_vars, \A r \in Runs : RunInv(r),
         NEW s \in Runs, NEW d \in Cycles, g[s][d] = "removed"
  PROVE  g'[s][d] = "removed"
<1>1. ASSUME NEW r \in Runs, NEW cs \in SUBSET Cycles, Start(r, cs)
      PROVE  g'[s][d] = "removed"
  <2>1. r # s
    BY <1>1 DEF Start, RunInv, TypeOK
  <2> QED
    BY <1>1, <2>1 DEF Start, TypeOK
<1>2. ASSUME NEW r \in Runs, NEW c \in Cycles,
             \/ OpenFile(r, c) \/ Flock(r, c) \/ LockFails(r, c)
             \/ Close(r, c) \/ Remove(r, c) \/ Collect(r, c)
      PROVE  g'[s][d] = "removed"
  <2>1. PICK x \in LockState : SetLock(r, c, x) /\ g[r][c] # "removed"
    BY <1>2 DEF OpenFile, Flock, LockFails, Close, Remove, Collect, LockState
  <2> QED
    BY <2>1, LockSet
<1>3. ASSUME NEW r \in Runs,
             Locked(r) \/ Failed(r) \/ Unlock(r) \/ Timeout(r)
      PROVE  g'[s][d] = "removed"
  BY <1>3 DEF Locked, Failed, Unlock, Timeout
<1>4. ASSUME NEW p \in Procs, ProcExit(p)
      PROVE  g'[s][d] = "removed"
  BY <1>4, Exited DEF Active
<1>5. CASE UNCHANGED vars
  BY <1>5 DEF vars
<1> QED
  BY <1>1, <1>2, <1>3, <1>4, <1>5 DEF Next, Working

(* The two sides of the lock's file: what is open is at the path, or was   *)
(* removed from it; what is locked is locked once.                         *)
LEMMA FilesKept ==
  ASSUME TypeOK, [Next]_vars, LockInv
  PROVE  OpenInv' /\ FlockInv'
<1> DEFINE Pending(q, d) == g[q][d] \in {"waiting", "locked"}
           Cut(d) == \E s \in Runs : g[s][d] = "removed"
<1>0. ASSUME NEW d \in Cycles, Cut(d) PROVE Cut(d)'
  BY <1>0, RemovedStays DEF LockInv
<1>a. ASSUME NEW q \in Runs, NEW d \in Cycles, Pending(q, d)
      PROVE  fd[q][d] \in Files /\ (fd[q][d] = path[d] \/ Cut(d))
  BY <1>a DEF LockInv, OpenInv
<1>b. ASSUME NEW r \in Runs, NEW q \in Runs, NEW c \in Cycles, NEW d \in Cycles,
             g[r][c] = "locked", g[q][d] = "locked", fd[r][c] = fd[q][d]
      PROVE  r = q /\ c = d
  BY <1>b DEF LockInv, FlockInv
<1>1. ASSUME NEW r \in Runs, NEW cs \in SUBSET Cycles, Start(r, cs)
      PROVE  /\ \A q \in Runs, d \in Cycles :
                  g'[q][d] \in {"waiting", "locked"} => g'[q][d] = g[q][d]
             /\ fd' = fd /\ path' = path
  BY <1>1 DEF Start, TypeOK
<1>2. ASSUME NEW r \in Runs, NEW c \in Cycles,
             LockFails(r, c) \/ Close(r, c) \/ Collect(r, c)
      PROVE  /\ \A q \in Runs, d \in Cycles :
                  g'[q][d] \in {"waiting", "locked"} =>
                    g'[q][d] = g[q][d] /\ fd'[q][d] = fd[q][d]
             /\ path' = path
  <2>1. PICK x \in {"error", "closed", "gone"} : SetLock(r, c, x)
    BY <1>2 DEF LockFails, Close, Collect
  <2>2. CloseFile(r, c) /\ path' = path
    BY <1>2 DEF LockFails, Close, Collect
  <2>3. \A q \in Runs, d \in Cycles :
          g'[q][d] = IF q = r /\ d = c THEN x ELSE g[q][d]
    BY <2>1, LockSet DEF LockState
  <2> QED
    BY <2>1, <2>2, <2>3, FileClosed
<1>3. ASSUME NEW p \in Procs, ProcExit(p)
      PROVE  /\ \A q \in Runs, d \in Cycles :
                  g'[q][d] \in {"waiting", "locked"} =>
                    g'[q][d] = g[q][d] /\ fd'[q][d] = fd[q][d]
             /\ path' = path
  <2>1. path' = path
    BY <1>3 DEF ProcExit
  <2> QED
    BY <1>3, <2>1, Exited DEF Active
<1>4. ASSUME NEW r \in Runs,
             Locked(r) \/ Failed(r) \/ Unlock(r) \/ Timeout(r)
      PROVE  g' = g /\ fd' = fd /\ path' = path
  BY <1>4 DEF Locked, Failed, Unlock, Timeout
<1>5. ASSUME \A q \in Runs, d \in Cycles :
               g'[q][d] \in {"waiting", "locked"} =>
                 g'[q][d] = g[q][d] /\ fd'[q][d] = fd[q][d],
             path' = path
      PROVE  OpenInv' /\ FlockInv'
  BY <1>0, <1>a, <1>b, <1>5 DEF OpenInv, FlockInv
<1>6. ASSUME NEW r \in Runs, NEW c \in Cycles, OpenFile(r, c)
      PROVE  OpenInv' /\ FlockInv'
  <2>1. PICK f \in Files : /\ fd' = [fd EXCEPT ![r][c] = f]
                           /\ path' = [path EXCEPT ![c] = f]
                           /\ path[c] \in {f, NoFile}
    BY <1>6, Opened
  <2>2. \A q \in Runs, d \in Cycles :
          /\ g'[q][d] = IF q = r /\ d = c THEN "waiting" ELSE g[q][d]
          /\ fd'[q][d] = IF q = r /\ d = c THEN f ELSE fd[q][d]
    BY <1>6, <2>1, LockSet, SetCell DEF OpenFile, LockState, TypeOK
  <2>3. \A d \in Cycles : path'[d] = IF d = c THEN f ELSE path[d]
    BY <2>1 DEF TypeOK
  <2> QED
    BY <1>0, <1>a, <1>b, <2>1, <2>2, <2>3, ConstantsAssumption
       DEF OpenInv, FlockInv
<1>7. ASSUME NEW r \in Runs, NEW c \in Cycles, Flock(r, c)
      PROVE  OpenInv' /\ FlockInv'
  <2>1. \A q \in Runs, d \in Cycles :
          g'[q][d] = IF q = r /\ d = c THEN "locked" ELSE g[q][d]
    BY <1>7, LockSet DEF Flock, LockState
  <2> QED
    BY <1>0, <1>a, <1>b, <1>7, <2>1 DEF Flock, OpenInv, FlockInv
<1>8. ASSUME NEW r \in Runs, NEW c \in Cycles, Remove(r, c)
      PROVE  OpenInv' /\ FlockInv'
  <2>1. \A q \in Runs, d \in Cycles :
          g'[q][d] = IF q = r /\ d = c THEN "removed" ELSE g[q][d]
    BY <1>8, LockSet DEF Remove, LockState
  <2>2. \A d \in Cycles : path'[d] = IF d = c THEN NoFile ELSE path[d]
    BY <1>8 DEF Remove, TypeOK
  <2>3. fd' = fd
    BY <1>8 DEF Remove
  <2> QED
    BY <1>0, <1>a, <1>b, <2>1, <2>2, <2>3 DEF OpenInv, FlockInv
<1>9. CASE UNCHANGED vars
  BY <1>5, <1>9 DEF vars
<1>10. ASSUME NEW r \in Runs, NEW cs \in SUBSET Cycles, Start(r, cs)
       PROVE  OpenInv' /\ FlockInv'
  BY <1>1, <1>5, <1>10
<1>11. ASSUME NEW r \in Runs, NEW c \in Cycles,
              LockFails(r, c) \/ Close(r, c) \/ Collect(r, c)
       PROVE  OpenInv' /\ FlockInv'
  BY <1>2, <1>5, <1>11
<1>12. ASSUME NEW p \in Procs, ProcExit(p)
       PROVE  OpenInv' /\ FlockInv'
  BY <1>3, <1>5, <1>12
<1>13. ASSUME NEW r \in Runs,
              Locked(r) \/ Failed(r) \/ Unlock(r) \/ Timeout(r)
       PROVE  OpenInv' /\ FlockInv'
  BY <1>4, <1>5, <1>13
<1> QED
  BY <1>6, <1>7, <1>8, <1>9, <1>10, <1>11, <1>12, <1>13 DEF Next, Working

(* The initial state has the types and the invariant. *)
LEMMA InitInv == Init => TypeOK /\ LockInv
  BY ConstantsAssumption
     DEF Init, TypeOK, RunState, LockState, LockInv, RunInv, OpenInv, FlockInv

(* Every reachable state has the types and the invariant. *)
LEMMA SpecInv == Spec => [](TypeOK /\ LockInv)
<1>1. TypeOK /\ LockInv /\ [Next]_vars => (TypeOK /\ LockInv)'
  BY TypeStep, RunKept, FilesKept DEF LockInv
<1> QED
  BY InitInv, <1>1, PTL DEF Spec

----------------------------------------------------------------------------
(* Two runs hold one cycle at the same time only after a third run removed *)
(* its lock file: they have different files open, which are not both at    *)
(* the path.                                                               *)
THEOREM OverlapNeedsThird == Spec => []OverlapNeedsThirdRun
<1>1. TypeOK /\ LockInv => OverlapNeedsThirdRun
  <2> SUFFICES ASSUME TypeOK, LockInv, NEW r \in Runs, NEW q \in Runs,
                      NEW c \in Cycles, Holds(r, c), Holds(q, c), r # q
               PROVE  \E s \in Runs \ {r, q} : g[s][c] = "removed"
    BY DEF OverlapNeedsThirdRun
  <2>1. g[r][c] = "locked" /\ g[q][c] = "locked"
    BY DEF Holds, LockInv, RunInv
  <2>2. fd[r][c] # fd[q][c]
    BY <2>1 DEF LockInv, FlockInv
  <2>3. \E s \in Runs : g[s][c] = "removed"
    BY <2>1, <2>2 DEF LockInv, OpenInv
  <2> QED
    BY <2>1, <2>3
<1> QED
  BY <1>1, SpecInv, PTL

(* Between two runs the lock is a lock. *)
THEOREM TwoRunsExclude ==
  ASSUME NEW r, NEW q, Runs = {r, q}
  PROVE  Spec => []MutualExclusion
<1>1. OverlapNeedsThirdRun => MutualExclusion
  BY DEF OverlapNeedsThirdRun, MutualExclusion
<1> QED
  BY <1>1, OverlapNeedsThird, PTL

(* A run that is over, or whose locking failed, keeps no lock and waits    *)
(* for none.                                                               *)
THEOREM NothingLeft == Spec => []NothingLeftBehind
<1>1. LockInv => NothingLeftBehind
  BY DEF LockInv, RunInv, NothingLeftBehind
<1> QED
  BY <1>1, SpecInv, PTL
=============================================================================
