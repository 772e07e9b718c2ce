-------------------------- MODULE PayoutExecution --------------------------
(***************************************************************************)
(* The life of a payout over many runs of tezpay: a run filters the        *)
(* recipes of its cycles by the report files and by what the collector     *)
(* says of the operations named there (core/prepare), executes what is     *)
(* left batch by batch (core/execute), rewriting the report files before   *)
(* and after each batch, and ends, or is killed.  The chain includes,      *)
(* fails or drops what was broadcast, whether or not a run is waiting.     *)
(* One process runs at a time: the cycle locks are module CycleLock's.     *)
(***************************************************************************)
EXTENDS Naturals, FiniteSets

CONSTANTS
    Recipes,    \* payout recipes: one payout of one cycle to one recipient
    Cycles,
    OpIds,      \* operations that may ever be built: the bound of a check
    NoOp,       \* tezos.ZeroOpHash
    CycleOf,    \* [Recipes -> Cycles]
    DestOf,     \* recipes of one identifier in several cycles accumulate
    Faults      \* what may go wrong besides what the code always faces

FaultKinds == { "crash",        \* the process is killed
                "tear",         \* a failed or interrupted WriteFile leaves less
                "recordError",  \* writing the partial report fails
                "reportError",  \* writing the final report fails
                "cancel",       \* SIGINT while waiting for a confirmation
                "receiptError", \* an applied operation, no receipt obtained
                "lostResponse", \* broadcast, but Dispatch returns an error
                "lag" }         \* the collector misses applied operations

ASSUME ConstantsAssumption ==
    /\ NoOp \notin OpIds
    /\ CycleOf \in [Recipes -> Cycles]
    /\ Faults \subseteq FaultKinds

VARIABLES
    file,       \* row of each recipe in reports/<cycle>/payouts.csv
    torn,       \* cycles whose payouts.csv is empty or cannot be parsed
    ops,        \* every operation: its state, counter and recipes
    counter,    \* the payout wallet's counter on the chain
    pc,         \* where the run stands
    cont,       \* where it continues after the current ReportPayouts
    dirty,      \* cycles the current ReportPayouts has yet to write
    scope,      \* cycles of the run
    todo,       \* recipes of the batches the loop has not reached
    batch,      \* recipes of the current batch
    cur,        \* operation built for the current batch
    report,     \* rows of batchesResults and ReportsOfPastSuccesfulPayouts
    listed,     \* recipes those two lists hold a row for
    signaled,   \* ProtectedSection.signaled
    exposed     \* history: recipes a run left in flight or paid, unrecorded

fileVars  == <<file, torn>>
chainVars == <<ops, counter>>
runVars   == <<scope, todo, batch, cur, report, listed, signaled>>
writeVars == <<cont, dirty>>
vars      == <<fileVars, chainVars, runVars, writeVars, pc, exposed>>

\* A row says which operation carried the recipe and whether it was seen to
\* apply.  Blank also stands for an absent row: the filter skips both.
Row   == [op : OpIds \cup {NoOp}, ok : BOOLEAN]
Blank == [op |-> NoOp, ok |-> FALSE]

OpState  == {"unborn", "built", "pending", "applied", "failed", "gone"}
NoOpYet  == [st |-> "unborn", ctr |-> 0, pays |-> {}]

RecipesOf(cs) == {r \in Recipes : CycleOf[r] \in cs}
\* Mutant: report files keyed by recipe instead of by cycle.
CyclesOfByRecipe(rs) == rs

CyclesOf(rs) == {CycleOf[r] : r \in rs}
Applied       == {o \in OpIds : ops[o].st = "applied"}

\* Operations on the chain, or that may still get there, that pay r.
Live(os, r) == {o \in OpIds : os[o].st \in {"pending", "applied"}
                              /\ r \in os[o].pays}

\* What a later run can find out about r: a success row, or the hash of an
\* applied operation, when the collector does not lag.
Known(f, os, r) ==
    \/ f[r].ok
    \/ "lag" \notin Faults /\ f[r].op \in OpIds /\ os[f[r].op].st = "applied"

Unknown(f, os) == {r \in Recipes : Live(os, r) # {} /\ ~Known(f, os, r)}

----------------------------------------------------------------------------
Init ==
    /\ file = [r \in Recipes |-> Blank]
    /\ torn = {}
    /\ ops = [o \in OpIds |-> NoOpYet]
    /\ counter = 0
    /\ pc = "idle" /\ cont = "idle" /\ dirty = {}
    /\ scope = {} /\ todo = {} /\ batch = {} /\ cur = NoOp
    /\ report = [r \in Recipes |-> Blank] /\ listed = {}
    /\ signaled = FALSE
    /\ exposed = {}

\* Mutant: only the collector is asked, as a note in the filter proposes.
PaidOutByCollector(cs, seen) == {r \in RecipesOf(cs) : file[r].op \in seen}

\* Mutant: only success rows count, hashes are not looked up.
PaidOutByRow(cs, seen) == {r \in RecipesOf(cs) : file[r].ok}

\* FilterRecipesByReports: the rows that count as paid.
PaidOut(cs, seen) ==
    {r \in RecipesOf(cs) : file[r].ok \/ file[r].op \in seen}

\* Mutant: past rows are left out of the new reports.
ReportsOfPastForgotten(cs, seen) == [r \in Recipes |-> Blank]

\* The rows of past payouts a run carries along.
ReportsOfPast(cs, seen) ==
    [r \in Recipes |-> IF r \in PaidOut(cs, seen) THEN file[r] ELSE Blank]

\* PreparePayouts.  An empty payouts.csv is a parse error that ends the run,
\* so does a run with nothing valid to pay: neither changes any state.
\* Which unpaid recipes are valid depends on fees and limits estimated anew.
PreparePayouts(cs) ==
    /\ pc = "idle"
    /\ cs \cap torn = {}
    /\ \E seen \in SUBSET Applied :
         /\ "lag" \notin Faults => seen = Applied
         /\ \E valid \in SUBSET (RecipesOf(cs) \ PaidOut(cs, seen)) \ {{}} :
              todo' = valid
         /\ listed' = PaidOut(cs, seen)
         /\ report' = ReportsOfPast(cs, seen)
    /\ scope' = cs
    /\ signaled' = FALSE
    /\ pc' = "ready"
    /\ UNCHANGED <<fileVars, chainVars, writeVars, batch, cur, exposed>>

\* The run returns or dies: whatever it held in memory is gone.
Exit ==
    /\ pc' = "idle" /\ cont' = "idle" /\ dirty' = {}
    /\ scope' = {} /\ todo' = {} /\ batch' = {} /\ cur' = NoOp
    /\ report' = [r \in Recipes |-> Blank] /\ listed' = {}
    /\ signaled' = FALSE

\* The user refuses the confirmation prompt.
Decline ==
    /\ pc = "ready"
    /\ Exit
    /\ UNCHANGED <<fileVars, chainVars, exposed>>

StartExecution ==
    /\ pc = "ready"
    /\ pc' = "loop"
    /\ UNCHANGED <<fileVars, chainVars, runVars, writeVars, exposed>>

----------------------------------------------------------------------------
\* ReportPayouts, first half: the cycles that have rows are to be written;
\* an empty list writes nothing.
ReportPayouts(rs, next) ==
    /\ dirty' = CyclesOf(rs)
    /\ cont' = next
    /\ pc' = IF rs = {} THEN next ELSE "write"

\* Batches keep an accumulated payout whole, whatever else limits split.
IsBatch(b) ==
    /\ b # {}
    /\ \A r \in b, s \in todo : DestOf[s] = DestOf[r] => s \in b

\* Mutant: the batches overlap.
NextBatchAgain ==
    /\ pc = "loop"
    /\ \E b \in SUBSET todo : IsBatch(b) /\ batch' = b
    /\ ReportPayouts(listed, "check")
    /\ UNCHANGED <<fileVars, chainVars, scope, todo, cur, report, listed,
                   signaled, exposed>>

\* The head of the loop takes a batch and writes the partial report.
NextBatch ==
    /\ pc = "loop"
    /\ \E b \in SUBSET todo :
         /\ IsBatch(b)
         /\ batch' = b
         /\ todo' = todo \ b
    /\ ReportPayouts(listed, "check")
    /\ UNCHANGED <<fileVars, chainVars, scope, cur, report, listed, signaled,
                   exposed>>

\* The loop is done: the final report.
FinalReport ==
    /\ pc = "loop"
    /\ todo = {}
    /\ ReportPayouts(listed, "end")
    /\ UNCHANGED <<fileVars, chainVars, runVars, exposed>>

\* One os.WriteFile of ReportPayouts: the file of cycle c gets exactly the
\* rows of c in the list.
WriteCycle(c) ==
    /\ pc = "write"
    /\ c \in dirty
    /\ file' = [r \in Recipes |-> IF CycleOf[r] = c THEN report[r]
                                                    ELSE file[r]]
    /\ torn' = torn \ {c}
    /\ dirty' = dirty \ {c}
    /\ pc' = IF dirty = {c} THEN cont ELSE "write"
    /\ UNCHANGED <<chainVars, runVars, cont, exposed>>

\* An interrupted write of c's file: untouched, or truncated and then written
\* in part, which leaves some of the rows or what cannot be parsed.
Tear(c) ==
    \/ UNCHANGED fileVars
    \/ /\ "tear" \in Faults
       /\ \E kept \in SUBSET {r \in RecipesOf({c}) : report[r] # Blank} :
            /\ file' = [r \in Recipes |-> IF CycleOf[r] # c THEN file[r]
                                         ELSE IF r \in kept THEN report[r] ELSE Blank]
            /\ \/ torn' = torn \ {c}
               \/ kept = {} /\ torn' = torn \cup {c}

\* The batch's result is appended to batchesResults.
AppendResult(row) ==
    /\ report' = [r \in Recipes |-> IF r \in batch THEN row ELSE report[r]]
    /\ listed' = listed \cup batch
    /\ batch' = {}
    /\ cur' = NoOp
    /\ pc' = "loop"
    /\ UNCHANGED <<scope, todo, signaled>>

SetState(o, s) == [ops EXCEPT ![o].st = s]

\* A write of ReportPayouts fails and the remaining cycles are not written.
\* Only the report that must precede the broadcast stops its batch.
WriteFails(c) ==
    /\ pc = "write"
    /\ c \in dirty
    /\ (IF cont = "end" THEN "reportError" ELSE "recordError") \in Faults
    /\ Tear(c)
    /\ dirty' = {}
    /\ \/ /\ cont = "dispatch"
          /\ AppendResult(Blank)
          /\ ops' = SetState(cur, "gone")
       \/ /\ cont # "dispatch"
          /\ pc' = cont
          /\ UNCHANGED <<runVars, ops>>
    /\ UNCHANGED <<counter, cont, exposed>>

----------------------------------------------------------------------------
\* The user's signal was seen: this batch is not sent.
SkipBatch ==
    /\ pc = "check"
    /\ signaled
    /\ AppendResult(Blank)
    /\ UNCHANGED <<fileVars, chainVars, writeVars, exposed>>

\* Completing (counter, branch, limits) or signing the operation fails.
BuildFails ==
    /\ pc = "check"
    /\ ~signaled
    /\ AppendResult(Blank)
    /\ UNCHANGED <<fileVars, chainVars, writeVars, exposed>>

\* ToOpExecutionContext takes the next counter; the batch is then recorded
\* "in progress": result is nil before Dispatch, so with a zero hash.
BuildBatch(o) ==
    /\ pc = "check"
    /\ ~signaled
    /\ ops[o].st = "unborn"
    /\ ops' = [ops EXCEPT ![o] =
                 [st |-> "built", ctr |-> counter + 1, pays |-> batch]]
    /\ cur' = o
    /\ ReportPayouts(listed \cup batch, "dispatch")
    /\ UNCHANGED <<fileVars, counter, scope, todo, batch, report, listed,
                   signaled, exposed>>

\* Nodes take an operation whose counter is the wallet's next one.
Broadcast ==
    /\ pc = "dispatch"
    /\ ops[cur].ctr = counter + 1
    /\ ops' = SetState(cur, "pending")

Dispatch ==
    /\ Broadcast
    /\ pc' = "wait"
    /\ UNCHANGED <<fileVars, counter, runVars, writeVars, exposed>>

\* Every node refused it, or none could be reached.
DispatchFails ==
    /\ pc = "dispatch"
    /\ ops' = SetState(cur, "gone")
    /\ AppendResult(Blank)
    /\ UNCHANGED <<fileVars, counter, writeVars, exposed>>

\* A node took it, but its answer was lost or initOpResult failed: Dispatch
\* returns an error, result stays nil, and the row has a zero hash.
DispatchLosesOp ==
    /\ "lostResponse" \in Faults
    /\ Broadcast
    /\ AppendResult(Blank)
    /\ UNCHANGED <<fileVars, counter, writeVars, exposed>>

\* Mutant: inclusion is taken for application.
WaitSucceedsOnInclusion ==
    /\ pc = "wait"
    /\ ops[cur].st \in {"applied", "failed"}
    /\ AppendResult([op |-> cur, ok |-> TRUE])
    /\ UNCHANGED <<fileVars, chainVars, writeVars, exposed>>

WaitSucceeds ==
    /\ pc = "wait"
    /\ ops[cur].st = "applied"
    /\ AppendResult([op |-> cur, ok |-> TRUE])
    /\ UNCHANGED <<fileVars, chainVars, writeVars, exposed>>

\* Mutant: the wait does not end for an operation that failed.
WaitFailsOnErrors ==
    /\ pc = "wait"
    /\ \/ "cancel" \in Faults
       \/ "receiptError" \in Faults /\ ops[cur].st = "applied"
    /\ AppendResult([op |-> cur, ok |-> FALSE])
    /\ UNCHANGED <<fileVars, chainVars, writeVars, exposed>>

\* WaitForApply returns an error: the operation failed, the user cancelled the
\* wait, or the receipt could not be had.
WaitFails ==
    /\ pc = "wait"
    /\ \/ ops[cur].st = "failed"
       \/ "cancel" \in Faults
       \/ "receiptError" \in Faults /\ ops[cur].st = "applied"
    /\ AppendResult([op |-> cur, ok |-> FALSE])
    /\ UNCHANGED <<fileVars, chainVars, writeVars, exposed>>

\* The monitor of blocks counts an operation that was not included out of its
\* TTL.  When the monitor is stuck nothing else does, and the wait goes on.
WaitExpires ==
    /\ pc = "wait"
    /\ ops[cur].st = "gone"
    /\ AppendResult([op |-> cur, ok |-> FALSE])
    /\ UNCHANGED <<fileVars, chainVars, writeVars, exposed>>

\* The run returns; batchesResults is gone with it.
EndRun ==
    /\ pc = "end"
    /\ Exit
    /\ exposed' = exposed \cup Unknown(file, ops)
    /\ UNCHANGED <<fileVars, chainVars>>

----------------------------------------------------------------------------
\* SIGINT or SIGTERM within the protected section.
Signal ==
    /\ pc \in {"loop", "write", "check", "dispatch", "end"}
    /\ ~signaled
    /\ signaled' = TRUE
    /\ UNCHANGED <<fileVars, chainVars, writeVars, pc, scope, todo, batch,
                   cur, report, listed, exposed>>

\* The process dies; a file being written may be left truncated, and an
\* operation not yet broadcast never will be.
Crash ==
    /\ "crash" \in Faults
    /\ pc # "idle"
    /\ \/ UNCHANGED fileVars
       \/ pc = "write" /\ \E c \in dirty : Tear(c)
    /\ ops' = [o \in OpIds |-> IF ops[o].st = "built"
                               THEN [ops[o] EXCEPT !.st = "gone"] ELSE ops[o]]
    /\ Exit
    /\ exposed' = exposed \cup Unknown(file', ops')
    /\ UNCHANGED counter

\* The chain takes the operation with the next counter, whether or not its
\* transactions succeed: a batch applies as a whole or not at all.
Include(o) ==
    /\ ops[o].st = "pending"
    /\ ops[o].ctr = counter + 1
    /\ counter' = counter + 1
    /\ \E s \in {"applied", "failed"} : ops' = SetState(o, s)
    /\ UNCHANGED <<fileVars, runVars, writeVars, pc, exposed>>

\* The operation's branch expires, or nodes drop it.
Expire(o) ==
    /\ ops[o].st = "pending"
    /\ ops' = SetState(o, "gone")
    /\ UNCHANGED <<fileVars, counter, runVars, writeVars, pc, exposed>>

----------------------------------------------------------------------------
RunStep ==
    \/ NextBatch \/ FinalReport
    \/ \E c \in Cycles : WriteCycle(c) \/ WriteFails(c)
    \/ SkipBatch \/ BuildFails \/ \E o \in OpIds : BuildBatch(o)
    \/ Dispatch \/ DispatchFails \/ DispatchLosesOp
    \/ WaitSucceeds \/ WaitFails
    \/ EndRun

ChainStep == \E o \in OpIds : Include(o) \/ Expire(o)

Next ==
    \/ \E cs \in SUBSET Cycles : PreparePayouts(cs)
    \/ Decline \/ StartExecution
    \/ RunStep \/ WaitExpires
    \/ Signal \/ Crash
    \/ ChainStep

Spec == Init /\ [][Next]_vars

\* The process keeps running, and the chain settles what it was given: every
\* operation is included or outlives its TTL.  Nothing makes a stuck monitor
\* notice the latter.
FairSpec == Spec /\ WF_vars(RunStep) /\ WF_vars(ChainStep)

----------------------------------------------------------------------------
TypeOK ==
    /\ file \in [Recipes -> Row]
    /\ torn \subseteq Cycles
    /\ ops \in [OpIds -> [st : OpState, ctr : Nat, pays : SUBSET Recipes]]
    /\ counter \in Nat
    /\ pc \in {"idle", "ready", "loop", "write", "check", "dispatch", "wait",
               "end"}
    /\ cont \in {"idle", "check", "dispatch", "end"}
    /\ dirty \subseteq Cycles
    /\ scope \subseteq Cycles
    /\ todo \subseteq Recipes
    /\ batch \subseteq Recipes
    /\ cur \in OpIds \cup {NoOp}
    /\ report \in [Recipes -> Row]
    /\ listed \subseteq Recipes
    /\ signaled \in BOOLEAN
    /\ exposed \subseteq Recipes

\* A row that says a recipe was paid names an applied operation that paid it:
\* rows are copied from run to run, and written while operations are still
\* to be decided.
ReportedSuccessIsApplied ==
    \A r \in Recipes : file[r].ok =>
        /\ file[r].op \in Applied
        /\ r \in ops[file[r].op].pays

\* Rewriting whole files never loses the row of a paid recipe, whichever runs,
\* write errors and crashes intervene, but for the write of that very file being
\* interrupted: the list it writes holds the row, and its report goes no further.
SuccessRowsSurvive ==
    [][\A r \in Recipes : file[r].ok =>
         \/ file'[r] = file[r]
         \/ /\ "tear" \in Faults /\ pc = "write" /\ CycleOf[r] \in dirty
            /\ report[r] = file[r] /\ dirty' = {}]_vars

\* No operation is sent for a recipe whose row says it was paid: the filter
\* of one run and the reports of all earlier ones keep them apart.
RecordedNeverSent ==
    [][\A o \in OpIds : \A r \in ops[o].pays :
         ops[o].st = "built" /\ ops'[o].st = "pending" => ~file[r].ok]_vars

\* Two operations that have paid, or may yet pay, one recipe: only after some
\* run had ended without a trace of the first in the reports.  Within a run,
\* and between runs whose reports are complete, nothing is sent twice.
InFlightTwice(r) ==
    \E o1, o2 \in Live(ops, r) : o1 # o2

OnlyExposedPaidTwice ==
    \A r \in Recipes : InFlightTwice(r) => r \in exposed

\* Every recipe is paid at most once.
PaidAtMostOnce ==
    \A r \in Recipes : \A o1, o2 \in Applied :
        r \in ops[o1].pays \cap ops[o2].pays => o1 = o2

\* Faults that lose no outcome.
Harmless == {"tear", "recordError", "receiptError"}

\* Seen from the recipes, the runs keep the promise of PayoutLedger.
Ledger == INSTANCE PayoutLedger WITH
    MayForget <- ~(Faults \subseteq Harmless),
    inflight  <- UNION {ops[o].pays : o \in {p \in OpIds : ops[p].st = "pending"}},
    paid      <- UNION {ops[o].pays : o \in Applied},
    forgotten <- exposed

\* Every step of every run, crash and block is a step of the ledger or
\* leaves it unchanged.
ImplementsLedger == Ledger!Spec

\* A run that started executing ends, whatever batch, report or operation
\* fails; what it may wait for without end is an operation that is never
\* included.
RunsEnd ==
    pc \notin {"idle", "ready"} ~> pc = "idle" \/ (pc = "wait" /\ ops[cur].st = "gone")

----------------------------------------------------------------------------
(* The inductive invariant of the safety proofs, in named parts.           *)

\* Batches yet to be sent hold no recipe a list has a row for, and a
\* recipe without a row in memory is written as a blank one.
MemoryInv ==
    /\ todo \cap batch = {}
    /\ listed \cap (todo \cup batch) = {}
    /\ todo \cup batch \cup listed \subseteq RecipesOf(scope)
    /\ dirty \subseteq scope
    /\ \A r \in Recipes \ listed : report[r] = Blank

\* Between runs there is no batch; the current operation pays exactly the
\* current batch.
CurInv ==
    /\ pc = "idle" => batch = {} /\ dirty = {}
    /\ pc = "write" => cont # "idle"
    /\ pc = "dispatch" \/ (pc = "write" /\ cont = "dispatch")
         => cur \in OpIds /\ ops[cur].st = "built" /\ ops[cur].pays = batch
    /\ pc = "wait" => cur \in OpIds /\ ops[cur].pays = batch

\* Success rows, in memory as in the files, name the operation that paid.
Truthful(rows) ==
    \A r \in Recipes : rows[r].ok =>
        /\ rows[r].op \in Applied
        /\ r \in ops[rows[r].op].pays

\* A run carries every success row of its cycles along unchanged, and has
\* no such recipe left to pay.
CarriedInv ==
    \A r \in RecipesOf(scope) : file[r].ok =>
        report[r] = file[r] /\ r \notin todo \cup batch

RecordInv ==
    MemoryInv /\ CurInv /\ Truthful(file) /\ Truthful(report) /\ CarriedInv

\* Nothing left to send is live already, and between runs all that is live
\* can be found out about, except for exposed recipes.
SendInv ==
    \A r \in Recipes \ exposed :
        /\ ~InFlightTwice(r)
        /\ r \in todo \/ (r \in batch /\ pc # "wait") => Live(ops, r) = {}
        /\ pc \in {"idle", "ready"} /\ Live(ops, r) # {} => Known(file, ops, r)

\* Whatever is live is waited for, or a list of the run in whose scope it is, or
\* a file outside of that scope, tells of it.
Remembered(r) ==
    \/ Live(ops, r) = {}
    \/ r \in RecipesOf(scope) /\ r \in batch /\ pc = "wait"
    \/ r \in RecipesOf(scope) /\ Known(report, ops, r)
    \/ r \notin RecipesOf(scope) /\ Known(file, ops, r)

\* Where no outcome is lost, nothing is exposed: what is waited for pays alone,
\* and the last report takes the lists over into the files.
ReliableInv ==
    Faults \subseteq Harmless =>
        /\ exposed = {}
        /\ \A r \in Recipes : Remembered(r)
        /\ pc = "wait" => \A r \in batch : Live(ops, r) \subseteq {cur}
        /\ pc = "end" => dirty = {}
        /\ pc = "end" \/ (pc = "write" /\ cont = "end") =>
              \A r \in listed : CycleOf[r] \in dirty \/ file[r] = report[r]
============================================================================
