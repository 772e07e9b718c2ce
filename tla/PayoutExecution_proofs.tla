----------------------- MODULE PayoutExecution_proofs -----------------------
(***************************************************************************)
(* Proofs about PayoutExecution, for every set of recipes, cycles and      *)
(* operations and every set of faults.                                     *)
(***************************************************************************)
EXTENDS PayoutExecution, TLAPS

LEMMA BlankRow == Blank \in Row
  BY DEF Blank, Row

(* The helper operators of the actions keep the types of what they set. *)
LEMMA CyclesOfType ==
  ASSUME NEW rs \in SUBSET Recipes
  PROVE  CyclesOf(rs) \subseteq Cycles
  BY ConstantsAssumption DEF CyclesOf

LEMMA ReportPayoutsType ==
  ASSUME NEW rs \in SUBSET Recipes, NEW k \in {"check", "dispatch", "end"},
         ReportPayouts(rs, k)
  PROVE  /\ dirty' \subseteq Cycles
         /\ cont' \in {"idle", "check", "dispatch", "end"}
         /\ pc' \in {"write", "check", "dispatch", "end"}
  BY CyclesOfType DEF ReportPayouts

LEMMA AppendResultType ==
  ASSUME TypeOK, NEW row \in Row, AppendResult(row)
  PROVE  /\ report' \in [Recipes -> Row]
         /\ listed' \subseteq Recipes
         /\ batch' \subseteq Recipes
         /\ cur' \in OpIds \cup {NoOp}
         /\ pc' = "loop"
         /\ scope' \subseteq Cycles
         /\ todo' \subseteq Recipes
         /\ signaled' \in BOOLEAN
  BY DEF AppendResult, TypeOK

LEMMA ExitType ==
  ASSUME Exit
  PROVE  /\ pc' = "idle" /\ cont' = "idle"
         /\ dirty' \subseteq Cycles /\ scope' \subseteq Cycles
         /\ todo' \subseteq Recipes /\ batch' \subseteq Recipes
         /\ cur' \in OpIds \cup {NoOp}
         /\ report' \in [Recipes -> Row]
         /\ listed' \subseteq Recipes
         /\ signaled' \in BOOLEAN
  BY BlankRow DEF Exit

LEMMA TearType ==
  ASSUME TypeOK, NEW c \in Cycles, Tear(c)
  PROVE  file' \in [Recipes -> Row] /\ torn' \subseteq Cycles
  BY BlankRow DEF Tear, TypeOK, fileVars

LEMMA SetStateType ==
  ASSUME TypeOK, NEW o \in OpIds, NEW s \in OpState
  PROVE  SetState(o, s) \in [OpIds -> [st : OpState, ctr : Nat,
                                       pays : SUBSET Recipes]]
  BY DEF SetState, TypeOK

(* The operation at hand is a real one wherever the code uses it. *)
CurOK == pc \in {"dispatch", "wait"} \/ (pc = "write" /\ cont = "dispatch")
           => cur \in OpIds

LEMMA InitType == Init => TypeOK /\ CurOK
<1> SUFFICES ASSUME Init PROVE TypeOK /\ CurOK
  OBVIOUS
<1>1. ops \in [OpIds -> [st : OpState, ctr : Nat, pays : SUBSET Recipes]]
  BY DEF Init, NoOpYet, OpState
<1>2. file \in [Recipes -> Row] /\ report \in [Recipes -> Row]
  BY BlankRow DEF Init
<1> QED BY <1>1, <1>2 DEF Init, TypeOK, CurOK

LEMMA NextType == TypeOK /\ CurOK /\ [Next]_vars => TypeOK' /\ CurOK'
<1> SUFFICES ASSUME TypeOK, CurOK, [Next]_vars
             PROVE  TypeOK' /\ CurOK'
  OBVIOUS
<1> USE DEF TypeOK, CurOK, vars, fileVars, chainVars, runVars, writeVars
<1>1. ASSUME NEW cs \in SUBSET Cycles, PreparePayouts(cs) PROVE TypeOK' /\ CurOK'
  <2>1. \A seen : /\ PaidOut(cs, seen) \subseteq Recipes
                  /\ ReportsOfPast(cs, seen) \in [Recipes -> Row]
    BY BlankRow DEF ReportsOfPast, PaidOut, RecipesOf
  <2>2. todo' \subseteq Recipes
    BY <1>1 DEF PreparePayouts, RecipesOf
  <2>3. report' \in [Recipes -> Row] /\ listed' \subseteq Recipes
    BY <1>1, <2>1 DEF PreparePayouts
  <2>4. scope' \subseteq Cycles /\ signaled' \in BOOLEAN /\ pc' = "ready"
    BY <1>1 DEF PreparePayouts
  <2>5. UNCHANGED <<fileVars, chainVars, writeVars, batch, cur, exposed>>
    BY <1>1 DEF PreparePayouts
  <2> QED BY <2>2, <2>3, <2>4, <2>5
<1>2. CASE Decline
  BY <1>2, ExitType DEF Decline
<1>3. CASE StartExecution
  BY <1>3 DEF StartExecution
<1>4. CASE NextBatch
  BY <1>4, ReportPayoutsType DEF NextBatch, ReportPayouts
<1>5. CASE FinalReport
  BY <1>5, ReportPayoutsType DEF FinalReport, ReportPayouts
<1>6. ASSUME NEW c \in Cycles, WriteCycle(c) PROVE TypeOK' /\ CurOK'
  BY <1>6 DEF WriteCycle
<1>7. ASSUME NEW c \in Cycles, WriteFails(c) PROVE TypeOK' /\ CurOK'
  <2>1. file' \in [Recipes -> Row] /\ torn' \subseteq Cycles
    BY <1>7, TearType DEF WriteFails
  <2>2. CASE cont = "dispatch"
    BY <1>7, <2>1, <2>2, AppendResultType, BlankRow, SetStateType
       DEF WriteFails, OpState
  <2>3. CASE cont # "dispatch"
    BY <1>7, <2>1, <2>3 DEF WriteFails
  <2> QED BY <2>2, <2>3
<1>8. CASE SkipBatch
  BY <1>8, AppendResultType, BlankRow DEF SkipBatch
<1>9. CASE BuildFails
  BY <1>9, AppendResultType, BlankRow DEF BuildFails
<1>10. ASSUME NEW o \in OpIds, BuildBatch(o) PROVE TypeOK' /\ CurOK'
  <2>1. ops' \in [OpIds -> [st : OpState, ctr : Nat, pays : SUBSET Recipes]]
    BY <1>10 DEF BuildBatch, OpState
  <2> QED BY <1>10, <2>1, ReportPayoutsType DEF BuildBatch, ReportPayouts
<1>11. CASE Dispatch
  BY <1>11, SetStateType DEF Dispatch, Broadcast, OpState
<1>12. CASE DispatchFails
  BY <1>12, SetStateType, AppendResultType, BlankRow DEF DispatchFails, OpState
<1>13. CASE DispatchLosesOp
  BY <1>13, SetStateType, AppendResultType, BlankRow
     DEF DispatchLosesOp, Broadcast, OpState
<1>14. CASE WaitSucceeds
  <2>1. [op |-> cur, ok |-> TRUE] \in Row
    BY DEF Row
  <2> QED BY <1>14, <2>1, AppendResultType DEF WaitSucceeds
<1>15. CASE WaitFails \/ WaitExpires
  <2>1. [op |-> cur, ok |-> FALSE] \in Row
    BY DEF Row
  <2> QED BY <1>15, <2>1, AppendResultType DEF WaitFails, WaitExpires
<1>16. CASE EndRun
  BY <1>16, ExitType DEF EndRun, Unknown
<1>17. CASE Signal
  BY <1>17 DEF Signal
<1>18. CASE Crash
  <2>1. file' \in [Recipes -> Row] /\ torn' \subseteq Cycles
    BY <1>18, TearType DEF Crash
  <2>2. ops' \in [OpIds -> [st : OpState, ctr : Nat, pays : SUBSET Recipes]]
    BY <1>18 DEF Crash, OpState
  <2>3. exposed' \subseteq Recipes
    BY <1>18 DEF Crash, Unknown
  <2> QED BY <1>18, <2>1, <2>2, <2>3, ExitType DEF Crash
<1>19. ASSUME NEW o \in OpIds, Include(o) PROVE TypeOK' /\ CurOK'
  BY <1>19, SetStateType DEF Include, OpState
<1>20. ASSUME NEW o \in OpIds, Expire(o) PROVE TypeOK' /\ CurOK'
  BY <1>20, SetStateType DEF Expire, OpState
<1>21. CASE UNCHANGED vars
  BY <1>21
<1> QED
  BY <1>1, <1>2, <1>3, <1>4, <1>5, <1>6, <1>7, <1>8, <1>9, <1>10, <1>11,
     <1>12, <1>13, <1>14, <1>15, <1>16, <1>17, <1>18, <1>19, <1>20, <1>21
     DEF Next, RunStep, ChainStep

(* Every variable keeps its type. *)
THEOREM TypeCorrect == Spec => []TypeOK
<1>1. Spec => [](TypeOK /\ CurOK)
  BY InitType, NextType, PTL DEF Spec
<1> QED BY <1>1, PTL

----------------------------------------------------------------------------
(* What a step may do to the operations: an applied one stays as it is, and *)
(* only Broadcast sends one, the current one.                               *)
AppliedKept ==
  \A o \in OpIds : ops[o].st = "applied" => ops'[o] = ops[o]

NothingSent ==
  /\ \A r \in Recipes : Live(ops', r) \subseteq Live(ops, r)
  /\ \A o \in OpIds : ops[o].st = "built" => ops'[o].st # "pending"

LEMMA SetStateApplies ==
  ASSUME TypeOK, NEW o \in OpIds, NEW s \in OpState, ops' = SetState(o, s)
  PROVE  /\ \A p \in OpIds \ {o} : ops'[p] = ops[p]
         /\ ops'[o].st = s
         /\ ops'[o].pays = ops[o].pays
  BY DEF SetState, TypeOK

LEMMA OpsStep ==
  ASSUME TypeOK, CurInv, [Next]_vars
  PROVE  AppliedKept /\ (Dispatch \/ DispatchLosesOp \/ NothingSent)
<1> USE DEF AppliedKept, NothingSent, Live
<1>1. CASE UNCHANGED ops
  BY <1>1
<1>2. ASSUME NEW c \in Cycles, WriteFails(c), cont = "dispatch"
      PROVE  AppliedKept /\ NothingSent
  BY <1>2, SetStateApplies DEF WriteFails, CurInv, OpState
<1>3. ASSUME NEW o \in OpIds, BuildBatch(o) PROVE AppliedKept /\ NothingSent
  BY <1>3 DEF BuildBatch, TypeOK
<1>4. ASSUME Broadcast PROVE AppliedKept
  BY <1>4, SetStateApplies DEF Broadcast, CurInv, OpState
<1>5. CASE DispatchFails
  BY <1>5, SetStateApplies DEF DispatchFails, CurInv, OpState
<1>6. CASE Crash
  BY <1>6 DEF Crash, TypeOK
<1>7. ASSUME NEW o \in OpIds, Include(o) PROVE AppliedKept /\ NothingSent
  BY <1>7, SetStateApplies DEF Include, OpState
<1>8. ASSUME NEW o \in OpIds, Expire(o) PROVE AppliedKept /\ NothingSent
  BY <1>8, SetStateApplies DEF Expire, OpState
<1> QED
  BY <1>1, <1>2, <1>3, <1>4, <1>5, <1>6, <1>7, <1>8
     DEF Next, RunStep, ChainStep, vars, chainVars, PreparePayouts, Decline,
         StartExecution, NextBatch, FinalReport, WriteCycle, WriteFails,
         SkipBatch, BuildFails, Dispatch, DispatchLosesOp, WaitSucceeds,
         WaitFails, WaitExpires, EndRun, Signal

LEMMA TruthKept ==
  ASSUME TypeOK, AppliedKept, NEW rows, Truthful(rows)
  PROVE  \A r \in Recipes : rows[r].ok =>
           /\ rows[r].op \in Applied'
           /\ r \in ops'[rows[r].op].pays
  BY DEF Truthful, Applied, AppliedKept
(* Every step that appends the batch's result keeps the parts of RecordInv. *)
LEMMA AppendKeeps ==
  ASSUME TypeOK, RecordInv, AppliedKept, NEW row \in Row, AppendResult(row),
         UNCHANGED dirty,
         file' = file \/ \A r \in Recipes : file'[r].ok => file'[r] = file[r],
         row.ok => /\ row.op \in Applied'
                   /\ batch \subseteq ops'[row.op].pays
  PROVE  RecordInv'
<1> USE DEF AppendResult
<1>1. MemoryInv'
  BY DEF RecordInv, MemoryInv, RecipesOf, TypeOK
<1>2. CurInv'
  BY DEF CurInv
<1>3. Truthful(file)'
  BY TruthKept DEF RecordInv, Truthful
<1>4. Truthful(report)'
  <2> SUFFICES ASSUME NEW r \in Recipes, report'[r].ok
               PROVE  report'[r].op \in Applied' /\ r \in ops'[report'[r].op].pays
    BY DEF Truthful
  <2>1. CASE r \in batch
    BY <2>1
  <2>2. CASE r \notin batch
    BY <2>2, TruthKept DEF RecordInv
  <2> QED BY <2>1, <2>2
<1>5. CarriedInv'
  BY DEF RecordInv, CarriedInv, RecipesOf, TypeOK
<1> QED BY <1>1, <1>2, <1>3, <1>4, <1>5 DEF RecordInv

(* The same for steps that leave rows and lists alone. *)
LEMMA MemoryKept ==
  ASSUME TypeOK, RecordInv, AppliedKept, CurInv',
         UNCHANGED <<file, scope, todo, batch, report, listed>>,
         dirty' \subseteq scope
  PROVE  RecordInv'
<1>1. MemoryInv' /\ CarriedInv'
  BY DEF RecordInv, MemoryInv, CarriedInv, RecipesOf
<1>2. Truthful(file)' /\ Truthful(report)'
  BY TruthKept DEF RecordInv, Truthful
<1> QED BY <1>1, <1>2 DEF RecordInv

\* What an interrupted write leaves: each success row is one the file had, or one
\* of the list that was written, and both are true.
LEMMA TearKeeps ==
  ASSUME TypeOK, RecordInv, NEW c \in Cycles, Tear(c)
  PROVE  \A r \in Recipes : file'[r].ok =>
            file'[r] = file[r] \/ (file'[r] = report[r] /\ r \in listed)
<1>1. \A r \in Recipes : file'[r].ok => file'[r] = file[r] \/ file'[r] = report[r]
  BY DEF Tear, Blank, fileVars, TypeOK
<1>2. \A r \in Recipes : report[r].ok => r \in listed
  BY DEF RecordInv, MemoryInv, Blank
<1> QED BY <1>1, <1>2

\* So what an interrupted write leaves names applied operations only.
LEMMA TearTruthful ==
  ASSUME TypeOK, RecordInv, AppliedKept,
         \A r \in Recipes : file'[r].ok =>
            file'[r] = file[r] \/ (file'[r] = report[r] /\ r \in listed)
  PROVE  Truthful(file)'
<1>1. \A r \in Recipes : file[r].ok => file[r].op \in Applied' /\ r \in ops'[file[r].op].pays
  BY TruthKept DEF RecordInv
<1>2. \A r \in Recipes : report[r].ok => report[r].op \in Applied' /\ r \in ops'[report[r].op].pays
  BY TruthKept DEF RecordInv
<1> QED BY <1>1, <1>2 DEF Truthful

LEMMA ExitKeeps ==
  ASSUME TypeOK, RecordInv, AppliedKept, Exit,
         \A r \in Recipes : file'[r].ok =>
            file'[r] = file[r] \/ (file'[r] = report[r] /\ r \in listed)
  PROVE  RecordInv'
<1>1. MemoryInv' /\ CarriedInv' /\ CurInv'
  BY DEF Exit, MemoryInv, CarriedInv, CurInv, RecipesOf
<1>2. Truthful(file)'
  BY TearTruthful
<1>3. Truthful(report)'
  BY DEF Exit, Truthful, Blank
<1> QED BY <1>1, <1>2, <1>3 DEF RecordInv

LEMMA InitRecord == Init => RecordInv
  BY DEF Init, RecordInv, MemoryInv, CurInv, Truthful, CarriedInv, Blank,
         RecipesOf

LEMMA NextRecord == TypeOK /\ CurOK /\ RecordInv /\ [Next]_vars => RecordInv'
<1> SUFFICES ASSUME TypeOK, CurOK, RecordInv, [Next]_vars
             PROVE  RecordInv'
  OBVIOUS
<1>0. AppliedKept /\ CurInv
  BY OpsStep DEF RecordInv
<1> USE DEF vars, fileVars, chainVars, runVars, writeVars
<1>1. ASSUME NEW cs \in SUBSET Cycles, PreparePayouts(cs) PROVE RecordInv'
  <2>1. PICK seen \in SUBSET Applied :
          /\ \E valid \in SUBSET (RecipesOf(cs) \ PaidOut(cs, seen)) \ {{}} :
               todo' = valid
          /\ listed' = PaidOut(cs, seen)
          /\ report' = ReportsOfPast(cs, seen)
    BY <1>1 DEF PreparePayouts
  <2>2. /\ scope' = cs /\ pc' = "ready" /\ batch = {} /\ dirty = {}
        /\ UNCHANGED <<file, ops, batch, cur, cont, dirty>>
    BY <1>0, <1>1 DEF PreparePayouts, CurInv
  <2>3. /\ todo' \cap listed' = {}
        /\ todo' \cup listed' \subseteq RecipesOf(cs)
        /\ \A r \in Recipes : report'[r] = IF r \in listed' THEN file[r]
                                                            ELSE Blank
        /\ \A r \in RecipesOf(cs) : file[r].ok => r \in listed'
    BY <2>1 DEF PaidOut, RecipesOf, ReportsOfPast
  <2>4. MemoryInv' /\ CurInv'
    BY <2>2, <2>3 DEF MemoryInv, CurInv, RecipesOf
  <2>5. CarriedInv'
    BY <2>2, <2>3 DEF CarriedInv, RecipesOf
  <2>6. Truthful(file)'
    BY <1>0, <2>2, TruthKept DEF RecordInv, Truthful
  <2>7. Truthful(report)'
    BY <2>2, <2>3, <2>6 DEF Truthful, Blank, Applied
  <2> QED BY <2>4, <2>5, <2>6, <2>7 DEF RecordInv
<1>2. CASE Decline
  BY <1>0, <1>2, ExitKeeps DEF Decline
<1>3. CASE StartExecution
  BY <1>0, <1>3, MemoryKept DEF StartExecution, CurInv, RecordInv, MemoryInv
<1>4. CASE NextBatch
  <2>1. CyclesOf(listed) \subseteq scope
    BY DEF CyclesOf, RecordInv, MemoryInv, RecipesOf
  <2>2. PICK b \in SUBSET todo : batch' = b /\ todo' = todo \ b
    BY <1>4 DEF NextBatch
  <2>3. /\ UNCHANGED <<file, ops, scope, report, listed>>
        /\ dirty' \subseteq scope
    BY <1>4, <2>1 DEF NextBatch, ReportPayouts
  <2>4. MemoryInv' /\ CarriedInv'
    BY <2>2, <2>3 DEF RecordInv, MemoryInv, CarriedInv, RecipesOf
  <2>5. CurInv'
    BY <1>4 DEF NextBatch, ReportPayouts, CurInv
  <2>6. Truthful(file)' /\ Truthful(report)'
    BY <2>3 DEF RecordInv, Truthful, Applied
  <2> QED BY <2>4, <2>5, <2>6 DEF RecordInv
<1>5. CASE FinalReport
  <2>1. CyclesOf(listed) \subseteq scope
    BY DEF CyclesOf, RecordInv, MemoryInv, RecipesOf
  <2> QED
    BY <1>0, <1>5, <2>1, MemoryKept DEF FinalReport, ReportPayouts, CurInv
<1>6. ASSUME NEW c \in Cycles, WriteCycle(c) PROVE RecordInv'
  <2>1. /\ UNCHANGED <<ops, cur, batch, todo, listed, report, scope>>
        /\ c \in scope /\ dirty' \subseteq scope
        /\ \A r \in Recipes : file'[r] = IF CycleOf[r] = c THEN report[r]
                                                           ELSE file[r]
    BY <1>6 DEF WriteCycle, RecordInv, MemoryInv
  <2>2. MemoryInv'
    BY <2>1 DEF RecordInv, MemoryInv, RecipesOf
  <2>3. CurInv'
    BY <1>0, <1>6, <2>1 DEF CurInv, WriteCycle, TypeOK
  <2>4. Truthful(report)' /\ Truthful(file)'
    BY <2>1 DEF RecordInv, Truthful, Applied
  <2>5. CarriedInv'
    <3> SUFFICES ASSUME NEW r \in RecipesOf(scope), file'[r].ok
                 PROVE  report[r] = file'[r] /\ r \notin todo \cup batch
      BY <2>1 DEF CarriedInv, RecipesOf
    <3>1. CASE CycleOf[r] = c
      BY <2>1, <3>1 DEF RecordInv, MemoryInv, RecipesOf, Blank
    <3>2. CASE CycleOf[r] # c
      BY <2>1, <3>2 DEF RecordInv, CarriedInv, RecipesOf
    <3> QED BY <3>1, <3>2
  <2> QED BY <2>2, <2>3, <2>4, <2>5 DEF RecordInv
<1>7. ASSUME NEW c \in Cycles, WriteFails(c) PROVE RecordInv'
  <2>1. \A r \in Recipes : file'[r].ok =>
           file'[r] = file[r] \/ (file'[r] = report[r] /\ r \in listed)
    BY <1>7, TearKeeps DEF WriteFails
  <2>2. CASE cont = "dispatch"
    <3>1. MemoryInv' /\ CarriedInv'
      BY <1>7, <2>1, <2>2 DEF WriteFails, AppendResult, RecordInv, MemoryInv,
         CarriedInv, RecipesOf, TypeOK
    <3>2. CurInv'
      BY <1>7, <2>2 DEF WriteFails, AppendResult, CurInv
    <3>3. Truthful(file)'
      BY <1>0, <2>1, TearTruthful
    <3>4. Truthful(report)'
      <4> SUFFICES ASSUME NEW r \in Recipes, report'[r].ok
                   PROVE  report'[r].op \in Applied' /\ r \in ops'[report'[r].op].pays
        BY DEF Truthful
      <4>1. report'[r] = report[r]
        BY <1>7, <2>2 DEF WriteFails, AppendResult, Blank
      <4> QED BY <1>0, <4>1, TruthKept DEF RecordInv
    <3> QED BY <3>1, <3>2, <3>3, <3>4 DEF RecordInv
  <2>3. CASE cont # "dispatch"
    <3>1. /\ UNCHANGED <<ops, scope, todo, batch, cur, report, listed>>
          /\ dirty' = {} /\ pc' = cont
      BY <1>7, <2>3 DEF WriteFails
    <3>2. MemoryInv' /\ CarriedInv'
      BY <2>1, <3>1 DEF RecordInv, MemoryInv, CarriedInv, RecipesOf
    <3>3. CurInv'
      BY <1>0, <1>7, <2>3, <3>1 DEF WriteFails, CurInv, TypeOK
    <3>4. Truthful(file)' /\ Truthful(report)'
      BY <1>0, <2>1, <3>1, TearTruthful DEF RecordInv, Truthful, Applied
    <3> QED BY <3>2, <3>3, <3>4 DEF RecordInv
  <2> QED BY <2>2, <2>3
<1>8. CASE SkipBatch
  BY <1>0, <1>8, AppendKeeps, BlankRow DEF SkipBatch, Blank
<1>9. CASE BuildFails
  BY <1>0, <1>9, AppendKeeps, BlankRow DEF BuildFails, Blank
<1>10. ASSUME NEW o \in OpIds, BuildBatch(o) PROVE RecordInv'
  <2>1. CyclesOf(listed \cup batch) \subseteq scope
    BY DEF CyclesOf, RecordInv, MemoryInv, RecipesOf
  <2>2. CurInv'
    BY <1>10 DEF BuildBatch, ReportPayouts, CurInv, TypeOK
  <2> QED
    BY <1>0, <1>10, <2>1, <2>2, MemoryKept DEF BuildBatch, ReportPayouts
<1>11. CASE Dispatch
  <2>1. CurInv'
    BY <1>0, <1>11, SetStateApplies DEF Dispatch, Broadcast, CurInv, OpState
  <2> QED
    BY <1>0, <1>11, <2>1, MemoryKept DEF Dispatch, RecordInv, MemoryInv
<1>12. CASE DispatchFails
  BY <1>0, <1>12, AppendKeeps, BlankRow DEF DispatchFails, Blank
<1>13. CASE DispatchLosesOp
  BY <1>0, <1>13, AppendKeeps, BlankRow DEF DispatchLosesOp, Blank
<1>14. CASE WaitSucceeds
  <2>1. [op |-> cur, ok |-> TRUE] \in Row
    BY <1>0, <1>14 DEF Row, WaitSucceeds, CurInv
  <2>2. cur \in Applied' /\ batch \subseteq ops'[cur].pays
    BY <1>0, <1>14 DEF WaitSucceeds, CurInv, Applied
  <2> QED BY <1>0, <1>14, <2>1, <2>2, AppendKeeps DEF WaitSucceeds
<1>15. CASE WaitFails \/ WaitExpires
  <2>1. [op |-> cur, ok |-> FALSE] \in Row
    BY <1>0, <1>15 DEF Row, WaitFails, WaitExpires, CurInv
  <2> QED BY <1>0, <1>15, <2>1, AppendKeeps DEF WaitFails, WaitExpires
<1>16. CASE EndRun
  BY <1>0, <1>16, ExitKeeps DEF EndRun
<1>17. CASE Signal
  BY <1>0, <1>17, MemoryKept DEF Signal, CurInv, RecordInv, MemoryInv
<1>18. CASE Crash
  <2>1. \A r \in Recipes : file'[r].ok =>
           file'[r] = file[r] \/ (file'[r] = report[r] /\ r \in listed)
    BY <1>18, TearKeeps DEF Crash, TypeOK, fileVars
  <2> QED BY <1>0, <1>18, <2>1, ExitKeeps DEF Crash
<1>19. ASSUME NEW o \in OpIds, Include(o) PROVE RecordInv'
  <2>1. CurInv'
    BY <1>0, <1>19, SetStateApplies DEF Include, CurInv, OpState
  <2> QED BY <1>0, <1>19, <2>1, MemoryKept DEF Include, RecordInv, MemoryInv
<1>20. ASSUME NEW o \in OpIds, Expire(o) PROVE RecordInv'
  <2>1. CurInv'
    BY <1>0, <1>20, SetStateApplies DEF Expire, CurInv, OpState
  <2> QED BY <1>0, <1>20, <2>1, MemoryKept DEF Expire, RecordInv, MemoryInv
<1>21. CASE UNCHANGED vars
  BY <1>0, <1>21, MemoryKept DEF CurInv, RecordInv, MemoryInv
<1> QED
  BY <1>1, <1>2, <1>3, <1>4, <1>5, <1>6, <1>7, <1>8, <1>9, <1>10, <1>11,
     <1>12, <1>13, <1>14, <1>15, <1>16, <1>17, <1>18, <1>19, <1>20, <1>21
     DEF Next, RunStep, ChainStep
Inv == TypeOK /\ CurOK /\ RecordInv

LEMMA SpecInv == Spec => []Inv
<1>1. Init => Inv
  BY InitType, InitRecord DEF Inv
<1>2. Inv /\ [Next]_vars => Inv'
  BY NextType, NextRecord DEF Inv
<1> QED BY <1>1, <1>2, PTL DEF Spec

(* Reports never claim a payment the chain did not make. *)
THEOREM SuccessIsApplied == Spec => []ReportedSuccessIsApplied
<1>1. Inv => ReportedSuccessIsApplied
  BY DEF Inv, RecordInv, Truthful, ReportedSuccessIsApplied
<1> QED BY <1>1, SpecInv, PTL

(* A success row is lost only by an interrupted write of its file.          *)
THEOREM SuccessRowsKept == Spec => SuccessRowsSurvive
<1>1. ASSUME Inv, [Next]_vars, NEW r \in Recipes, file[r].ok
      PROVE  \/ file'[r] = file[r]
             \/ /\ "tear" \in Faults /\ pc = "write" /\ CycleOf[r] \in dirty
                /\ report[r] = file[r] /\ dirty' = {}
  <2> USE DEF vars, fileVars
  <2>1. CASE UNCHANGED file
    BY <2>1
  <2>2. CycleOf[r] \in dirty => report[r] = file[r]
    BY <1>1 DEF Inv, RecordInv, MemoryInv, CarriedInv, RecipesOf
  <2>3. ASSUME NEW c \in Cycles, WriteCycle(c)
        PROVE  file'[r] = file[r]
    <3>1. file'[r] = IF CycleOf[r] = c THEN report[r] ELSE file[r]
      BY <2>3 DEF WriteCycle
    <3> QED BY <2>2, <2>3, <3>1 DEF WriteCycle
  <2>4. ASSUME NEW c \in Cycles, WriteFails(c) \/ Crash, file' # file
        PROVE  \E d \in dirty : pc = "write" /\ dirty' = {} /\ Tear(d)
    BY <2>4 DEF WriteFails, Crash, Exit
  <2>5. ASSUME NEW d \in dirty, pc = "write", dirty' = {}, Tear(d)
        PROVE  \/ file'[r] = file[r]
               \/ /\ "tear" \in Faults /\ pc = "write" /\ CycleOf[r] \in dirty
                  /\ report[r] = file[r] /\ dirty' = {}
    <3>1. CASE CycleOf[r] = d
      BY <2>2, <2>5, <3>1 DEF Tear
    <3>2. CASE CycleOf[r] # d
      BY <2>5, <3>2 DEF Tear
    <3> QED BY <3>1, <3>2
  <2>6. \/ UNCHANGED file
        \/ \E c \in Cycles : WriteCycle(c)
        \/ \E c \in Cycles : WriteFails(c)
        \/ Crash
    BY <1>1 DEF Next, RunStep, ChainStep, PreparePayouts, Decline,
       StartExecution, NextBatch, FinalReport, SkipBatch,
       BuildFails, BuildBatch, Dispatch, DispatchFails, DispatchLosesOp,
       WaitSucceeds, WaitFails, WaitExpires, EndRun, Signal, Exit, Include, Expire
  <2>7. CycleOf[r] \in Cycles
    BY ConstantsAssumption
  <2> QED BY <2>1, <2>3, <2>4, <2>5, <2>6, <2>7
<1>2. Inv /\ [Next]_vars => [\A r \in Recipes : file[r].ok =>
         \/ file'[r] = file[r]
         \/ /\ "tear" \in Faults /\ pc = "write" /\ CycleOf[r] \in dirty
            /\ report[r] = file[r] /\ dirty' = {}]_vars
  BY <1>1
<1> QED BY <1>2, SpecInv, PTL DEF Spec, SuccessRowsSurvive

(* A step that puts an operation on its way is a Broadcast of the batch. *)
LEMMA SentByBroadcast ==
  ASSUME Inv, [Next]_vars, NEW o \in OpIds,
         ops[o].st = "built", ops'[o].st = "pending"
  PROVE  Broadcast /\ o = cur
<1>1. CurInv /\ TypeOK
  BY DEF Inv, RecordInv
<1>2. Broadcast
  BY <1>1, OpsStep DEF NothingSent, Dispatch, DispatchLosesOp
<1>3. o = cur
  BY <1>1, <1>2, SetStateApplies DEF Broadcast, CurInv, OpState
<1> QED BY <1>2, <1>3

(* What the reports know to be paid is never sent again. *)
THEOREM RecordedNotSent == Spec => RecordedNeverSent
<1>1. ASSUME Inv, [Next]_vars, NEW o \in OpIds, NEW r \in ops[o].pays,
             ops[o].st = "built", ops'[o].st = "pending"
      PROVE  ~file[r].ok
  <2>1. r \in batch
    BY <1>1, SentByBroadcast DEF Broadcast, Inv, RecordInv, CurInv
  <2>2. r \in RecipesOf(scope)
    BY <1>1, <2>1 DEF Inv, RecordInv, MemoryInv
  <2> QED BY <1>1, <2>1, <2>2 DEF Inv, RecordInv, CarriedInv
<1>2. Inv /\ [Next]_vars =>
        [\A o \in OpIds : \A r \in ops[o].pays :
           ops[o].st = "built" /\ ops'[o].st = "pending" => ~file[r].ok]_vars
  BY <1>1
<1> QED BY <1>2, SpecInv, PTL DEF Spec, RecordedNeverSent

----------------------------------------------------------------------------
(* Steps of the chain and of a run that send nothing: what is live shrinks, *)
(* and what a later run can find out stays, while the files do.             *)
LEMMA KnownKept ==
  ASSUME AppliedKept, NEW r \in Recipes, file'[r] = file[r],
         Known(file, ops, r)
  PROVE  Known(file', ops', r)
  BY DEF Known, AppliedKept

LEMMA QuietKeeps ==
  ASSUME SendInv, AppliedKept, NothingSent, exposed \subseteq exposed',
         todo' \cup (IF pc' = "wait" THEN {} ELSE batch')
           \subseteq todo \cup (IF pc = "wait" THEN {} ELSE batch),
         \A r \in Recipes \ exposed' :
           pc' \in {"idle", "ready"} /\ Live(ops', r) # {}
             => Known(file', ops', r)
  PROVE  SendInv'
<1> SUFFICES ASSUME NEW r \in Recipes \ exposed'
             PROVE  /\ ~InFlightTwice(r)'
                    /\ r \in todo' \/ (r \in batch' /\ pc' # "wait")
                         => Live(ops', r) = {}
  BY DEF SendInv
<1>1. /\ ~InFlightTwice(r)
      /\ r \in todo \/ (r \in batch /\ pc # "wait") => Live(ops, r) = {}
  BY DEF SendInv
<1>2. Live(ops', r) \subseteq Live(ops, r)
  BY DEF NothingSent
<1> QED BY <1>1, <1>2 DEF InFlightTwice

LEMMA InitSend == Init => SendInv
<1> SUFFICES ASSUME Init, NEW r \in Recipes PROVE Live(ops, r) = {}
  BY DEF SendInv, Init, InFlightTwice
<1> QED BY DEF Init, Live, NoOpYet

(* Sending a batch none of whose recipes is live. *)
LEMMA BroadcastSends ==
  ASSUME Inv, Broadcast, NEW r \in Recipes
  PROVE  Live(ops', r) = IF r \in batch THEN Live(ops, r) \cup {cur}
                                        ELSE Live(ops, r)
<1>1. CurInv /\ TypeOK
  BY DEF Inv, RecordInv
<1>2. /\ cur \in OpIds /\ ops[cur].st = "built" /\ ops[cur].pays = batch
  BY <1>1 DEF Broadcast, CurInv
<1>3. /\ \A p \in OpIds \ {cur} : ops'[p] = ops[p]
      /\ ops'[cur].st = "pending" /\ ops'[cur].pays = batch
  BY <1>1, <1>2, SetStateApplies DEF Broadcast, OpState
<1> QED BY <1>2, <1>3 DEF Live

LEMMA NextSend == Inv /\ SendInv /\ [Next]_vars => SendInv'
<1> SUFFICES ASSUME Inv, SendInv, [Next]_vars
             PROVE  SendInv'
  OBVIOUS
<1>0. AppliedKept /\ (Dispatch \/ DispatchLosesOp \/ NothingSent)
  BY OpsStep DEF Inv, RecordInv
<1> USE DEF vars, fileVars, chainVars, runVars, writeVars
<1>1. CASE Dispatch \/ DispatchLosesOp
  <2>1. /\ Broadcast /\ pc' \notin {"idle", "ready"}
        /\ UNCHANGED <<todo, exposed>>
        /\ batch' = {} \/ pc' = "wait"
    BY <1>1 DEF Dispatch, DispatchLosesOp, AppendResult
  <2> SUFFICES ASSUME NEW r \in Recipes \ exposed
               PROVE  /\ ~InFlightTwice(r)'
                      /\ r \in todo => Live(ops', r) = {}
    BY <2>1 DEF SendInv
  <2>2. /\ r \in todo \/ r \in batch => Live(ops, r) = {}
        /\ ~InFlightTwice(r)
    BY <2>1 DEF SendInv, Broadcast
  <2>3. Live(ops', r) = IF r \in batch THEN Live(ops, r) \cup {cur}
                                       ELSE Live(ops, r)
    BY <2>1, BroadcastSends
  <2>4. r \in todo => r \notin batch
    BY DEF Inv, RecordInv, MemoryInv
  <2> QED BY <2>2, <2>3, <2>4 DEF InFlightTwice
<1>2. ASSUME NEW cs \in SUBSET Cycles, PreparePayouts(cs) PROVE SendInv'
  <2>1. /\ UNCHANGED <<file, ops, exposed>> /\ pc = "idle"
        /\ batch' = {}
    BY <1>2 DEF PreparePayouts, Inv, RecordInv, CurInv
  <2>2. PICK seen \in SUBSET Applied :
          /\ "lag" \notin Faults => seen = Applied
          /\ todo' \cap PaidOut(cs, seen) = {}
          /\ todo' \subseteq RecipesOf(cs)
    BY <1>2 DEF PreparePayouts
  <2>3. \A r \in todo' : ~Known(file, ops, r)
    BY <2>2 DEF Known, PaidOut, Applied, RecipesOf
  <2>4. \A r \in todo' \ exposed : Live(ops, r) = {}
    BY <2>1, <2>2, <2>3 DEF SendInv, RecipesOf
  <2>5. ASSUME NEW r \in Recipes \ exposed'
        PROVE  /\ ~InFlightTwice(r)'
               /\ r \in todo' \/ (r \in batch' /\ pc' # "wait")
                    => Live(ops', r) = {}
               /\ pc' \in {"idle", "ready"} /\ Live(ops', r) # {}
                    => Known(file', ops', r)
    BY <2>1, <2>4 DEF SendInv, InFlightTwice, Live, Known
  <2> QED BY <2>5 DEF SendInv
<1>3. CASE Decline
  <2>1. ops' = ops /\ file' = file
    BY <1>3 DEF Decline
  <2>2. NothingSent
    BY <2>1 DEF NothingSent
  <2>3. \A r \in Recipes \ exposed : Live(ops', r) # {} => Known(file', ops', r)
    BY <1>3, <2>1 DEF Decline, SendInv
  <2> QED BY <1>0, <1>3, <2>2, <2>3, QuietKeeps DEF Decline, Exit
<1>4. CASE NothingSent /\ (EndRun \/ Crash)
  <2>1. Exit /\ exposed' = exposed \cup Unknown(file', ops')
    BY <1>4 DEF EndRun, Crash
  <2>2. \A r \in Recipes \ exposed' : Live(ops', r) # {} => Known(file', ops', r)
    BY <2>1 DEF Unknown
  <2> QED BY <1>0, <1>4, <2>1, <2>2, QuietKeeps DEF Exit
<1>5. CASE NothingSent /\ (ChainStep \/ UNCHANGED vars)
  <2>1. UNCHANGED <<file, pc, todo, batch, exposed>>
    BY <1>5 DEF ChainStep, Include, Expire
  <2>2. ASSUME NEW r \in Recipes \ exposed, pc \in {"idle", "ready"},
               Live(ops', r) # {}
        PROVE  Known(file', ops', r)
    <3>1. Live(ops, r) # {}
      BY <1>5, <2>2 DEF NothingSent
    <3>2. Known(file, ops, r)
      BY <2>2, <3>1 DEF SendInv
    <3> QED BY <1>0, <2>1, <3>2, KnownKept
  <2> QED BY <1>0, <1>5, <2>1, <2>2, QuietKeeps
<1>6. CASE NothingSent /\ (StartExecution \/ NextBatch \/ FinalReport)
  <2>1. /\ pc' \notin {"idle", "ready", "wait"} /\ pc # "wait"
        /\ todo' \cup batch' \subseteq todo \cup batch
        /\ exposed' = exposed
    BY <1>6 DEF StartExecution, NextBatch, FinalReport, ReportPayouts
  <2> QED BY <1>0, <1>6, <2>1, QuietKeeps
<1>7. ASSUME NothingSent, NEW c \in Cycles, WriteCycle(c) \/ WriteFails(c)
      PROVE  SendInv'
  <2>1. pc = "write" /\ cont \in {"check", "dispatch", "end"}
    BY <1>7 DEF WriteCycle, WriteFails, Inv, RecordInv, CurInv, TypeOK
  <2>2. /\ pc' \in {"write", "check", "dispatch", "end", "loop"}
        /\ todo' = todo /\ batch' \subseteq batch /\ exposed' = exposed
    BY <1>7, <2>1 DEF WriteCycle, WriteFails, AppendResult
  <2> QED BY <1>0, <1>7, <2>1, <2>2, QuietKeeps
<1>8. CASE NothingSent /\ (SkipBatch \/ BuildFails \/ DispatchFails
                           \/ WaitSucceeds \/ WaitFails \/ WaitExpires)
  <2>1. pc' = "loop" /\ todo' = todo /\ batch' = {} /\ exposed' = exposed
    BY <1>8 DEF SkipBatch, BuildFails, DispatchFails, WaitSucceeds, WaitFails,
                WaitExpires, AppendResult
  <2> QED BY <1>0, <1>8, <2>1, QuietKeeps
<1>9. ASSUME NothingSent, Signal \/ \E o \in OpIds : BuildBatch(o)
      PROVE  SendInv'
  <2>1. /\ pc' \notin {"idle", "ready", "wait"} /\ pc # "wait"
        /\ UNCHANGED <<todo, batch, exposed>>
    BY <1>9 DEF Signal, BuildBatch, ReportPayouts
  <2> QED BY <1>0, <1>9, <2>1, QuietKeeps
<1> QED
  BY <1>0, <1>1, <1>2, <1>3, <1>4, <1>5, <1>6, <1>7, <1>8, <1>9
     DEF Next, RunStep

(* Two live operations for one recipe: only after it was exposed.           *)
THEOREM PaidTwiceOnlyIfExposed == Spec => []OnlyExposedPaidTwice
<1>1. Init => SendInv
  BY InitSend
<1>2. SendInv => OnlyExposedPaidTwice
  BY DEF SendInv, OnlyExposedPaidTwice
<1> QED BY <1>1, <1>2, SpecInv, NextSend, PTL DEF Spec

----------------------------------------------------------------------------
(* Where only harmless faults happen nothing is exposed.                    *)

LEMMA InitReliable == Init => ReliableInv
<1> SUFFICES ASSUME Init PROVE ReliableInv
  OBVIOUS
<1>1. \A r \in Recipes : Live(ops, r) = {}
  BY DEF Init, Live, NoOpYet
<1> QED BY <1>1 DEF Init, ReliableInv, Remembered

(* What these faults are not.                                               *)
LEMMA HarmlessFaults ==
  ASSUME Faults \subseteq Harmless
  PROVE  /\ "crash" \notin Faults /\ "reportError" \notin Faults
         /\ "cancel" \notin Faults /\ "lostResponse" \notin Faults
         /\ "lag" \notin Faults
  BY DEF Harmless

(* A recipe stays remembered while its rows, and the run's place, do.       *)
LEMMA RememberedKept ==
  ASSUME AppliedKept, NEW r \in Recipes, Remembered(r),
         Live(ops', r) \subseteq Live(ops, r),
         r \notin RecipesOf(scope) => file'[r] = file[r],
         r \in RecipesOf(scope) => report'[r] = report[r],
         r \in batch /\ pc = "wait" => r \in batch' /\ pc' = "wait",
         scope' = scope
  PROVE  Remembered(r)'
<1>1. RecipesOf(scope)' = RecipesOf(scope)
  BY DEF RecipesOf
<1>2. Known(report, ops, r) /\ report'[r] = report[r] => Known(report', ops', r)
  BY DEF Known, AppliedKept
<1>3. Known(file, ops, r) /\ file'[r] = file[r] => Known(file', ops', r)
  BY KnownKept
<1> QED BY <1>1, <1>2, <1>3 DEF Remembered

(* A batch whose recipes are not live, or known by the row that is appended. *)
LEMMA AppendRemembers ==
  ASSUME Inv, ReliableInv, Faults \subseteq Harmless, AppliedKept,
         NEW row \in Row, AppendResult(row), UNCHANGED exposed,
         \A r \in Recipes : Live(ops', r) \subseteq Live(ops, r),
         \A r \in Recipes \ RecipesOf(scope) : file'[r] = file[r],
         \A r \in batch : \/ Live(ops', r) = {}
                          \/ row.ok
                          \/ row.op \in OpIds /\ ops'[row.op].st = "applied"
  PROVE  ReliableInv'
<1>1. /\ pc' = "loop" /\ scope' = scope /\ exposed' = {}
      /\ batch \subseteq RecipesOf(scope)
  BY DEF AppendResult, ReliableInv, Inv, RecordInv, MemoryInv
<1>2. ASSUME NEW r \in Recipes PROVE Remembered(r)'
  <2>1. Remembered(r)
    BY DEF ReliableInv
  <2>2. CASE r \in batch
    <3>1. report'[r] = row
      BY <2>2 DEF AppendResult
    <3>2. Live(ops', r) = {} \/ Known(report', ops', r)
      BY <2>2, <3>1, HarmlessFaults DEF Known
    <3>3. r \in RecipesOf(scope)'
      BY <1>1, <2>2 DEF RecipesOf
    <3> QED BY <3>2, <3>3 DEF Remembered
  <2>3. CASE r \notin batch
    <3>1. report'[r] = report[r]
      BY <2>3 DEF AppendResult
    <3> QED BY <1>1, <2>1, <2>3, <3>1, RememberedKept
  <2> QED BY <2>2, <2>3
<1> QED BY <1>1, <1>2 DEF ReliableInv

(* What a run that is at its end leaves behind can be found out about.      *)
LEMMA NothingUnknown ==
  ASSUME Inv, ReliableInv, Faults \subseteq Harmless, pc = "end"
  PROVE  Unknown(file, ops) = {}
<1> SUFFICES ASSUME NEW r \in Recipes, Live(ops, r) # {}
             PROVE  Known(file, ops, r)
  BY DEF Unknown
<1>1. Remembered(r)
  BY DEF ReliableInv
<1>2. CASE r \in RecipesOf(scope) /\ Known(report, ops, r)
  <2>1. r \in listed
    BY <1>2, ConstantsAssumption
       DEF Inv, RecordInv, MemoryInv, Known, Blank
  <2>2. file[r] = report[r]
    BY <2>1 DEF ReliableInv
  <2> QED BY <1>2, <2>2 DEF Known
<1> QED BY <1>1, <1>2 DEF Remembered

LEMMA NextReliable == Inv /\ SendInv /\ ReliableInv /\ [Next]_vars => ReliableInv'
<1> SUFFICES ASSUME Inv, SendInv, ReliableInv, [Next]_vars,
                    Faults \subseteq Harmless
             PROVE  ReliableInv'
  BY DEF ReliableInv
<1>0. AppliedKept /\ (Dispatch \/ DispatchLosesOp \/ NothingSent)
  BY OpsStep DEF Inv, RecordInv
<1>a. /\ exposed = {}
      /\ \A r \in Recipes : Remembered(r)
      /\ \A r \in batch : pc # "wait" => Live(ops, r) = {}
      /\ batch \subseteq Recipes
  BY DEF ReliableInv, SendInv, Inv, TypeOK
<1> USE DEF vars, fileVars, chainVars, runVars, writeVars
<1>1. ASSUME NEW cs \in SUBSET Cycles, PreparePayouts(cs) PROVE ReliableInv'
  <2>1. /\ UNCHANGED <<file, ops, exposed>> /\ pc = "idle"
        /\ scope' = cs /\ pc' = "ready"
    BY <1>1 DEF PreparePayouts
  <2>2. report' = ReportsOfPast(cs, Applied)
    BY <1>1, HarmlessFaults DEF PreparePayouts
  <2>3. ASSUME NEW r \in Recipes, Live(ops, r) # {} PROVE Remembered(r)'
    <3>1. Known(file, ops, r)
      BY <1>a, <2>1, <2>3 DEF SendInv
    <3>2. r \in RecipesOf(cs) => report'[r] = file[r]
      BY <2>2, <3>1 DEF ReportsOfPast, PaidOut, Known, Applied
    <3>3. RecipesOf(scope)' = RecipesOf(cs)
      BY <2>1 DEF RecipesOf
    <3> QED BY <2>1, <3>1, <3>2, <3>3 DEF Remembered, Known
  <2>4. \A r \in Recipes : Remembered(r)'
    BY <2>1, <2>3 DEF Remembered
  <2> QED BY <1>a, <2>1, <2>4 DEF ReliableInv
<1>2. CASE Decline
  <2>1. /\ UNCHANGED <<file, ops, exposed>> /\ pc = "ready"
        /\ scope' = {} /\ pc' = "idle"
    BY <1>2 DEF Decline, Exit
  <2>2. \A r \in Recipes : Live(ops, r) # {} => Known(file, ops, r)
    BY <1>a, <2>1 DEF SendInv
  <2>3. \A r \in Recipes : Remembered(r)'
    BY <2>1, <2>2 DEF Remembered, RecipesOf
  <2> QED BY <1>a, <2>1, <2>3 DEF ReliableInv
<1>3. CASE StartExecution \/ NextBatch \/ FinalReport \/ Signal
           \/ (\E o \in OpIds : BuildBatch(o)) \/ ChainStep \/ UNCHANGED vars
  <2>1. /\ UNCHANGED <<file, scope, report, exposed, listed>>
        /\ pc = "wait" => UNCHANGED <<batch, pc, cur>>
        /\ pc' = "wait" => pc = "wait"
    <3>1. CASE StartExecution \/ Signal \/ ChainStep \/ UNCHANGED vars
      BY <3>1 DEF StartExecution, Signal, ChainStep, Include, Expire
    <3>2. CASE NextBatch \/ FinalReport
      BY <3>2 DEF NextBatch, FinalReport, ReportPayouts
    <3>3. CASE \E o \in OpIds : BuildBatch(o)
      BY <3>3 DEF BuildBatch, ReportPayouts
    <3> QED BY <1>3, <3>1, <3>2, <3>3
  <2>2. NothingSent
    <3>1. CASE UNCHANGED ops
      BY <3>1 DEF NothingSent
    <3>2. CASE pc # "dispatch"
      BY <1>0, <3>2 DEF Dispatch, DispatchLosesOp, Broadcast
    <3>3. CASE ChainStep
      <4>1. pc' = pc
        BY <3>3 DEF ChainStep, Include, Expire
      <4> QED
        BY <1>0, <4>1 DEF Dispatch, DispatchLosesOp, Broadcast, AppendResult
    <3>4. UNCHANGED ops \/ pc # "dispatch" \/ ChainStep
      BY <1>3 DEF StartExecution, NextBatch, FinalReport, Signal, BuildBatch
    <3> QED BY <3>1, <3>2, <3>3, <3>4
  <2>3. ASSUME NEW r \in Recipes PROVE Remembered(r)'
    <3>1. Live(ops', r) \subseteq Live(ops, r)
      BY <2>2 DEF NothingSent
    <3> QED BY <1>0, <1>a, <2>1, <3>1, RememberedKept
  <2>4. pc' = "wait" => \A r \in batch' : Live(ops', r) \subseteq {cur'}
    BY <1>a, <2>1, <2>2 DEF ReliableInv, NothingSent
  <2>5. /\ pc' = "end" => dirty' = {}
        /\ pc' = "end" \/ (pc' = "write" /\ cont' = "end") =>
             \A r \in listed' : CycleOf[r] \in dirty' \/ file'[r] = report'[r]
    <3>1. CASE FinalReport
      BY <3>1 DEF FinalReport, ReportPayouts, CyclesOf
    <3>2. CASE NextBatch \/ \E o \in OpIds : BuildBatch(o)
      BY <3>2 DEF NextBatch, BuildBatch, ReportPayouts
    <3>3. CASE StartExecution
      BY <3>3 DEF StartExecution
    <3>4. CASE Signal \/ ChainStep \/ UNCHANGED vars
      BY <2>1, <3>4 DEF Signal, ChainStep, Include, Expire, ReliableInv
    <3> QED BY <1>3, <3>1, <3>2, <3>3, <3>4
  <2> QED BY <1>a, <2>1, <2>3, <2>4, <2>5 DEF ReliableInv
<1>4. ASSUME NEW c \in Cycles, WriteCycle(c) PROVE ReliableInv'
  <2>1. /\ UNCHANGED <<ops, scope, report, exposed, listed, batch, cont>>
        /\ pc = "write" /\ c \in scope
        /\ dirty' = dirty \ {c}
        /\ pc' = IF dirty = {c} THEN cont ELSE "write"
        /\ \A r \in Recipes : file'[r] = IF CycleOf[r] = c THEN report[r]
                                                           ELSE file[r]
    BY <1>4 DEF WriteCycle, Inv, RecordInv, MemoryInv
  <2>2. cont \in {"check", "dispatch", "end"}
    BY <2>1 DEF Inv, TypeOK, RecordInv, CurInv
  <2>3. ASSUME NEW r \in Recipes PROVE Remembered(r)'
    <3>1. r \notin RecipesOf(scope) => file'[r] = file[r]
      BY <2>1 DEF RecipesOf
    <3>2. Live(ops', r) = Live(ops, r)
      BY <2>1
    <3> QED BY <1>0, <1>a, <2>1, <3>1, <3>2, RememberedKept
  <2>4. ASSUME cont = "end", NEW r \in listed
        PROVE  CycleOf[r] \in dirty' \/ file'[r] = report'[r]
    <3>1. CycleOf[r] \in dirty \/ file[r] = report[r]
      BY <2>1, <2>4 DEF ReliableInv
    <3>2. r \in Recipes
      BY DEF Inv, TypeOK
    <3> QED BY <2>1, <3>1, <3>2
  <2>5. pc' = "end" => dirty' = {} /\ cont = "end"
    BY <2>1
  <2>6. pc' # "wait"
    BY <2>1, <2>2
  <2> QED BY <1>a, <2>1, <2>3, <2>4, <2>5, <2>6 DEF ReliableInv
<1>5. ASSUME NEW c \in Cycles, WriteFails(c) PROVE ReliableInv'
  <2>1. /\ pc = "write" /\ c \in scope /\ UNCHANGED exposed
        /\ cont \in {"check", "dispatch"}
    BY <1>5, HarmlessFaults
       DEF WriteFails, Inv, TypeOK, RecordInv, CurInv, MemoryInv
  <2>2. \A r \in Recipes \ RecipesOf(scope) : file'[r] = file[r]
    <3>1. Tear(c)
      BY <1>5 DEF WriteFails
    <3> QED BY <2>1, <3>1 DEF Tear, RecipesOf
  <2>3. NothingSent
    BY <1>0, <2>1 DEF Dispatch, DispatchLosesOp, Broadcast
  <2>4. CASE cont = "dispatch"
    <3>1. AppendResult(Blank)
      BY <1>5, <2>4 DEF WriteFails
    <3>2. \A r \in batch : Live(ops', r) = {}
      BY <1>a, <2>1, <2>3 DEF NothingSent
    <3> QED BY <1>0, <2>1, <2>2, <2>3, <3>1, <3>2, AppendRemembers, BlankRow
            DEF NothingSent
  <2>5. CASE cont # "dispatch"
    <3>1. pc' = "check" /\ UNCHANGED <<ops, scope, report, batch>>
      BY <1>5, <2>1, <2>5 DEF WriteFails
    <3>2. \A r \in Recipes : Remembered(r)'
      BY <1>0, <1>a, <2>1, <2>2, <3>1, RememberedKept
    <3> QED BY <1>a, <2>1, <3>1, <3>2 DEF ReliableInv
  <2> QED BY <2>4, <2>5
<1>6. CASE SkipBatch \/ BuildFails \/ DispatchFails
  <2>1. /\ AppendResult(Blank) /\ UNCHANGED <<file, exposed>>
        /\ pc # "wait" /\ pc' = "loop"
    BY <1>6 DEF SkipBatch, BuildFails, DispatchFails, AppendResult
  <2>2. NothingSent
    <3>1. CASE DispatchFails
      BY <3>1, SetStateApplies DEF DispatchFails, Inv, RecordInv, CurInv,
         NothingSent, Live, OpState
    <3>2. CASE SkipBatch \/ BuildFails
      BY <3>2 DEF SkipBatch, BuildFails, NothingSent
    <3> QED BY <1>6, <3>1, <3>2
  <2>3. \A r \in batch : Live(ops', r) = {}
    BY <1>a, <2>1, <2>2 DEF NothingSent
  <2> QED BY <1>0, <2>1, <2>2, <2>3, AppendRemembers, BlankRow DEF NothingSent
<1>7. CASE Dispatch
  <2>1. /\ Broadcast /\ pc' = "wait" /\ pc = "dispatch"
        /\ UNCHANGED <<file, scope, report, exposed, batch, cur>>
    BY <1>7 DEF Dispatch, Broadcast
  <2>2. \A r \in Recipes :
          Live(ops', r) = IF r \in batch THEN Live(ops, r) \cup {cur}
                                         ELSE Live(ops, r)
    BY <2>1, BroadcastSends
  <2>3. \A r \in batch : Live(ops', r) \subseteq {cur}
    BY <1>a, <2>1, <2>2
  <2>4. ASSUME NEW r \in Recipes PROVE Remembered(r)'
    <3>1. CASE r \in batch
      <4>1. r \in RecipesOf(scope)'
        BY <2>1, <3>1 DEF Inv, RecordInv, MemoryInv, RecipesOf
      <4> QED BY <2>1, <3>1, <4>1 DEF Remembered
    <3>2. CASE r \notin batch
      BY <1>0, <1>a, <2>1, <2>2, <3>2, RememberedKept
    <3> QED BY <3>1, <3>2
  <2> QED BY <1>a, <2>1, <2>3, <2>4 DEF ReliableInv
<1>8. CASE WaitSucceeds \/ WaitFails \/ WaitExpires
  <2>1. PICK row \in Row :
          /\ AppendResult(row) /\ row.op = cur
          /\ row.ok \/ ops[cur].st \in {"failed", "gone", "applied"}
    <3>1. cur \in OpIds
      BY <1>8 DEF WaitSucceeds, WaitFails, WaitExpires, Inv, RecordInv, CurInv
    <3>2. CASE WaitSucceeds
      BY <3>1, <3>2 DEF WaitSucceeds, Row
    <3>3. CASE WaitFails \/ WaitExpires
      BY <3>1, <3>3, HarmlessFaults DEF WaitFails, WaitExpires, Row
    <3> QED BY <1>8, <3>2, <3>3
  <2>2. /\ UNCHANGED <<file, exposed, ops>> /\ pc = "wait" /\ cur \in OpIds
    BY <1>8 DEF WaitSucceeds, WaitFails, WaitExpires, Inv, RecordInv, CurInv
  <2>3. \A r \in batch : \/ Live(ops', r) = {}
                         \/ row.ok
                         \/ row.op \in OpIds /\ ops'[row.op].st = "applied"
    <3>1. \A r \in batch : Live(ops, r) \subseteq {cur}
      BY <2>2 DEF ReliableInv
    <3>2. ops[cur].st \in {"failed", "gone"} => \A r \in Recipes : cur \notin Live(ops, r)
      BY DEF Live
    <3> QED BY <1>a, <2>1, <2>2, <3>1, <3>2
  <2>4. \A r \in Recipes : Live(ops', r) \subseteq Live(ops, r)
    BY <2>2
  <2> QED BY <1>0, <2>1, <2>2, <2>3, <2>4, AppendRemembers
<1>9. CASE EndRun
  <2>1. /\ Unknown(file, ops) = {} /\ pc = "end"
        /\ UNCHANGED <<file, ops>> /\ scope' = {} /\ pc' = "idle"
        /\ exposed' = exposed \cup Unknown(file, ops)
    BY <1>9, NothingUnknown DEF EndRun, Exit
  <2>2. \A r \in Recipes : Remembered(r)'
    BY <2>1 DEF Unknown, Remembered, RecipesOf
  <2> QED BY <1>a, <2>1, <2>2 DEF ReliableInv
<1> QED
  BY <1>1, <1>2, <1>3, <1>4, <1>5, <1>6, <1>7, <1>8, <1>9, HarmlessFaults
     DEF Next, RunStep, Crash, DispatchLosesOp

LEMMA SpecSafe == Spec => [](Inv /\ SendInv /\ ReliableInv)
<1>1. Inv /\ SendInv /\ ReliableInv /\ [Next]_vars => (SendInv /\ ReliableInv)'
  BY NextSend, NextReliable
<1> QED BY <1>1, InitSend, InitReliable, SpecInv, PTL DEF Spec

(* Where only harmless faults happen, every recipe is paid at most once:    *)
(* over all runs, whatever fails, is torn or is repeated.                   *)
THEOREM PaidOnce == Faults \subseteq Harmless => (Spec => []PaidAtMostOnce)
<1> SUFFICES ASSUME Faults \subseteq Harmless PROVE Spec => []PaidAtMostOnce
  OBVIOUS
<1>1. SendInv /\ ReliableInv => PaidAtMostOnce
  <2> SUFFICES ASSUME SendInv, ReliableInv, NEW r \in Recipes,
                      NEW o1 \in Applied, NEW o2 \in Applied,
                      r \in ops[o1].pays \cap ops[o2].pays
               PROVE  o1 = o2
    BY DEF PaidAtMostOnce
  <2>1. ~InFlightTwice(r)
    BY DEF ReliableInv, SendInv
  <2>2. o1 \in Live(ops, r) /\ o2 \in Live(ops, r)
    BY DEF Live, Applied
  <2> QED BY <2>1, <2>2 DEF InFlightTwice
<1> QED BY <1>1, SpecSafe, PTL

----------------------------------------------------------------------------
(* The runs implement the ledger.                                           *)

Inflight(os) == UNION {os[o].pays : o \in {p \in OpIds : os[p].st = "pending"}}
Paid(os)     == UNION {os[o].pays : o \in {p \in OpIds : os[p].st = "applied"}}

(* A step that only marks operations as built or gone keeps both.           *)
LEMMA UnbroadcastKeeps ==
  ASSUME \A o \in OpIds : \/ ops'[o] = ops[o]
                          \/ /\ ops[o].st \notin {"pending", "applied"}
                             /\ ops'[o].st \notin {"pending", "applied"}
  PROVE  Inflight(ops') = Inflight(ops) /\ Paid(ops') = Paid(ops)
  BY DEF Inflight, Paid

(* A batch is sent: nothing in it is live, unless it was exposed.           *)
LEMMA SendsBatch ==
  ASSUME Inv, SendInv, Broadcast
  PROVE  /\ batch \subseteq Recipes
         /\ batch \cap (Inflight(ops) \cup Paid(ops)) \subseteq exposed
         /\ Inflight(ops') = Inflight(ops) \cup batch
         /\ Paid(ops') = Paid(ops)
<1>1. TypeOK /\ CurInv
  BY DEF Inv, RecordInv
<1>2. /\ cur \in OpIds /\ ops[cur].st = "built" /\ ops[cur].pays = batch
      /\ pc = "dispatch" /\ batch \subseteq Recipes
  BY <1>1 DEF Broadcast, CurInv, TypeOK
<1>3. /\ \A p \in OpIds \ {cur} : ops'[p] = ops[p]
      /\ ops'[cur].st = "pending" /\ ops'[cur].pays = batch
  BY <1>1, <1>2, SetStateApplies DEF Broadcast, OpState
<1>4. \A r \in batch \ exposed : Live(ops, r) = {}
  BY <1>2 DEF SendInv
<1>5. batch \cap (Inflight(ops) \cup Paid(ops)) \subseteq exposed
  BY <1>2, <1>4 DEF Inflight, Paid, Live
<1>6. Inflight(ops') = Inflight(ops) \cup batch
  BY <1>2, <1>3 DEF Inflight
<1>7. Paid(ops') = Paid(ops)
  BY <1>2, <1>3 DEF Paid
<1> QED BY <1>2, <1>5, <1>6, <1>7

(* An operation lands: what is still under way with another was exposed.    *)
LEMMA LandsBatch ==
  ASSUME Inv, SendInv, NEW o \in OpIds, ops[o].st = "pending",
         NEW s \in {"applied", "failed", "gone"}, ops' = SetState(o, s)
  PROVE  /\ ops[o].pays \subseteq Recipes
         /\ ops[o].pays \subseteq Inflight(ops)
         /\ \E again \in SUBSET (ops[o].pays \cap exposed) :
               Inflight(ops') = (Inflight(ops) \ ops[o].pays) \cup again
         /\ Paid(ops') = IF s = "applied" THEN Paid(ops) \cup ops[o].pays
                                         ELSE Paid(ops)
<1>1. TypeOK
  BY DEF Inv
<1>2. /\ \A p \in OpIds \ {o} : ops'[p] = ops[p]
      /\ ops'[o].st = s /\ ops'[o].pays = ops[o].pays
  BY <1>1, SetStateApplies DEF OpState
<1>3. ops[o].pays \subseteq Recipes /\ ops[o].pays \subseteq Inflight(ops)
  BY <1>1 DEF TypeOK, Inflight
<1> DEFINE b == ops[o].pays
           again == b \cap Inflight(ops')
<1>4. again \subseteq b \cap exposed
  <2> SUFFICES ASSUME NEW r \in again PROVE r \in exposed
    OBVIOUS
  <2>1. PICK p \in OpIds : ops'[p].st = "pending" /\ r \in ops'[p].pays
    BY DEF Inflight
  <2>2. p # o /\ ops[p].st = "pending" /\ r \in ops[p].pays
    BY <1>2, <2>1
  <2>3. InFlightTwice(r)
    BY <2>2 DEF InFlightTwice, Live
  <2> QED BY <1>3, <2>3 DEF SendInv
<1>5. Inflight(ops') = (Inflight(ops) \ b) \cup again
  <2>1. Inflight(ops') \subseteq Inflight(ops)
    BY <1>2 DEF Inflight
  <2>2. Inflight(ops) \ b \subseteq Inflight(ops')
    BY <1>2 DEF Inflight
  <2> QED BY <2>1, <2>2
<1>6. Paid(ops') = IF s = "applied" THEN Paid(ops) \cup b ELSE Paid(ops)
  BY <1>2 DEF Paid
<1> HIDE DEF again
<1> QED BY <1>3, <1>4, <1>5, <1>6

(* Every step is one of the ledger's, or leaves the ledger alone.           *)
LEMMA LedgerStep ==
  ASSUME Inv, SendInv, ReliableInv, ReliableInv', [Next]_vars
  PROVE  [Ledger!Next]_(Ledger!vars)
<1> DEFINE SentStep(b) == /\ b \cap (Inflight(ops) \cup Paid(ops)) \subseteq exposed
                          /\ Inflight(ops') = Inflight(ops) \cup b
                          /\ Paid(ops') = Paid(ops) /\ exposed' = exposed
           LandStep(b) == /\ b \subseteq Inflight(ops)
                          /\ \E again \in SUBSET (b \cap exposed) :
                                Inflight(ops') = (Inflight(ops) \ b) \cup again
                          /\ exposed' = exposed
                          /\ Paid(ops') \in {Paid(ops) \cup b, Paid(ops)}
           ForgetStep(b) == /\ ~(Faults \subseteq Harmless)
                            /\ b \subseteq Inflight(ops) \cup Paid(ops)
                            /\ exposed' = exposed \cup b
                            /\ Inflight(ops') = Inflight(ops)
                            /\ Paid(ops') = Paid(ops)
           Stutter == /\ Inflight(ops') = Inflight(ops)
                      /\ Paid(ops') = Paid(ops) /\ exposed' = exposed
<1>1. ASSUME NEW b \in SUBSET Recipes, SentStep(b) PROVE Ledger!Next
  <2>1. Ledger!Send(b)
    BY <1>1 DEF Ledger!Send, Inflight, Paid, Applied
  <2> QED BY <2>1 DEF Ledger!Next
<1>2. ASSUME NEW b \in SUBSET Recipes, LandStep(b) PROVE Ledger!Next
  <2>1. Ledger!Land(b)
    BY <1>2 DEF Ledger!Land, Inflight
  <2>2. Ledger!Pay(b) \/ Ledger!Drop(b)
    BY <1>2, <2>1 DEF Ledger!Pay, Ledger!Drop, Paid, Applied
  <2> QED BY <2>2 DEF Ledger!Next
<1>3. ASSUME NEW b \in SUBSET Recipes, ForgetStep(b) PROVE Ledger!Next
  <2>1. Ledger!Forget(b)
    BY <1>3 DEF Ledger!Forget, Inflight, Paid, Applied
  <2> QED BY <2>1 DEF Ledger!Next
<1>4. ASSUME Stutter PROVE UNCHANGED Ledger!vars
  BY <1>4 DEF Ledger!vars, Inflight, Paid, Applied
<1> HIDE DEF SentStep, LandStep, ForgetStep, Stutter
<1>5. CASE Dispatch \/ DispatchLosesOp
  <2>1. Broadcast /\ exposed' = exposed
    BY <1>5 DEF Dispatch, DispatchLosesOp
  <2>2. SentStep(batch) /\ batch \in SUBSET Recipes
    BY <2>1, SendsBatch DEF SentStep
  <2> QED BY <1>1, <2>2
<1>6. ASSUME NEW o \in OpIds, Include(o) \/ Expire(o) PROVE Ledger!Next
  <2>1. PICK s \in {"applied", "failed", "gone"} : ops' = SetState(o, s)
    BY <1>6 DEF Include, Expire
  <2>2. ops[o].st = "pending" /\ exposed' = exposed
    BY <1>6 DEF Include, Expire
  <2>3. LandStep(ops[o].pays) /\ ops[o].pays \in SUBSET Recipes
    BY <2>1, <2>2, LandsBatch DEF LandStep
  <2> QED BY <1>2, <2>3
<1>7. CASE EndRun \/ Crash
  <2>1. /\ exposed' = exposed \cup Unknown(file', ops')
        /\ Inflight(ops') = Inflight(ops) /\ Paid(ops') = Paid(ops)
    <3>1. CASE EndRun
      BY <3>1 DEF EndRun, fileVars, chainVars
    <3>2. CASE Crash
      <4>1. exposed' = exposed \cup Unknown(file', ops')
        BY <3>2 DEF Crash
      <4>2. \A o \in OpIds : \/ ops'[o] = ops[o]
                             \/ ops[o].st = "built" /\ ops'[o].st = "gone"
        BY <3>2 DEF Crash, Inv, TypeOK
      <4> QED BY <4>1, <4>2, UnbroadcastKeeps
    <3> QED BY <1>7, <3>1, <3>2
  <2>2. CASE Faults \subseteq Harmless
    BY <1>4, <2>1, <2>2 DEF ReliableInv, Stutter
  <2>3. CASE ~(Faults \subseteq Harmless)
    <3>1. Unknown(file', ops') \subseteq Inflight(ops') \cup Paid(ops')
      BY DEF Unknown, Live, Inflight, Paid
    <3>2. Unknown(file', ops') \in SUBSET Recipes
      BY DEF Unknown
    <3>3. ForgetStep(Unknown(file', ops'))
      BY <2>1, <2>3, <3>1 DEF ForgetStep
    <3> QED BY <1>3, <3>2, <3>3
  <2> QED BY <2>2, <2>3
<1>8. CASE UNCHANGED ops /\ UNCHANGED exposed
  BY <1>4, <1>8 DEF Stutter
<1>9. ASSUME NEW o \in OpIds, BuildBatch(o) PROVE UNCHANGED Ledger!vars
  <2>1. /\ exposed' = exposed
        /\ \A p \in OpIds : \/ ops'[p] = ops[p]
                            \/ ops[p].st = "unborn" /\ ops'[p].st = "built"
    BY <1>9 DEF BuildBatch, Inv, TypeOK
  <2> QED BY <1>4, <2>1, UnbroadcastKeeps DEF Stutter
<1>10. ASSUME DispatchFails \/ \E c \in Cycles : WriteFails(c)
       PROVE  UNCHANGED Ledger!vars
  <2>1. exposed' = exposed
    BY <1>10 DEF DispatchFails, WriteFails
  <2>2. CASE UNCHANGED ops
    BY <1>4, <2>1, <2>2 DEF Stutter
  <2>3. CASE ~UNCHANGED ops
    <3>1. /\ ops' = SetState(cur, "gone")
          /\ cur \in OpIds /\ ops[cur].st = "built"
      BY <1>10, <2>3 DEF DispatchFails, WriteFails, Inv, RecordInv, CurInv
    <3>2. /\ \A p \in OpIds \ {cur} : ops'[p] = ops[p]
          /\ ops'[cur].st = "gone"
      BY <3>1, SetStateApplies DEF Inv, OpState
    <3> QED BY <1>4, <2>1, <3>1, <3>2, UnbroadcastKeeps DEF Stutter
  <2> QED BY <2>2, <2>3
<1>11. \/ Dispatch \/ DispatchLosesOp \/ EndRun \/ Crash \/ DispatchFails
       \/ \E o \in OpIds : Include(o) \/ Expire(o) \/ BuildBatch(o)
       \/ \E c \in Cycles : WriteFails(c)
       \/ UNCHANGED ops /\ UNCHANGED exposed
  BY DEF Next, RunStep, ChainStep, vars, chainVars, PreparePayouts, Decline,
     StartExecution, NextBatch, FinalReport, WriteCycle, SkipBatch, BuildFails,
     WaitSucceeds, WaitFails, WaitExpires, Signal
<1> QED
  BY <1>5, <1>6, <1>7, <1>8, <1>9, <1>10, <1>11

(* Every run, crash and block is a step of the ledger or none: what is under *)
(* way or paid is not sent again, unless its outcome was lost, and where the *)
(* faults are harmless none is.                                             *)
THEOREM Refinement == Spec => ImplementsLedger
<1>1. Init => Ledger!Init
  BY DEF Init, Ledger!Init, NoOpYet, Applied
<1>2. Inv /\ SendInv /\ ReliableInv /\ ReliableInv' /\ [Next]_vars
        => [Ledger!Next]_(Ledger!vars)
  BY LedgerStep
<1> QED BY <1>1, <1>2, SpecSafe, PTL DEF Spec, ImplementsLedger, Ledger!Spec
============================================================================
