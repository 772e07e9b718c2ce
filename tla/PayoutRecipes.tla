---------------------------- MODULE PayoutRecipes ----------------------------
(***************************************************************************)
(* The data of a payout and the operations on it (common/payouts.go,       *)
(* common/report.go, common/batch_result.go, utils/payouts.go and          *)
(* utils/math.go): recipes, accumulated payouts, reports and summaries.    *)
(* Amounts are mutez; a portion counts ten-thousandths, the four decimals  *)
(* GetZPortion keeps.  Collections of recipes and reports are sets: their  *)
(* members differ in cycle, kind, delegator, recipient or token.           *)
(***************************************************************************)
EXTENDS Integers, Sequences, FiniteSets, Functions

CONSTANTS
    NoAddress,  \* tezos.ZeroAddress and tezos.InvalidAddress
    NoToken,    \* the token of a payout in tez
    NoOpHash    \* tezos.ZeroOpHash

Unit == 10000   \* a portion of 1.0

Smaller(a, b) == IF a <= b THEN a ELSE b
Larger(a, b)  == IF a >= b THEN a ELSE b

GetZPortion(val, portion) ==
    IF portion <= 0 THEN 0
    ELSE IF portion >= Unit THEN val
    ELSE Smaller(val, (val * portion) \div Unit)

IsPortionWithin0n1(portion) == portion \in 0..Unit

Total(f(_), S) == SumFunctionOnSet([x \in S |-> f(x)], S)

(* The kinds of payouts and of transactions. *)
Kinds   == {"delegator reward", "baker reward", "fee income", "donation"}
TxKinds == {"tez", "fa1", "fa2", ""}
FAKinds == {"fa1", "fa2"}

\* A recipe; reason is its note when it is not valid.
PayoutRecipe(cycle, kind, tx, token, delegator, recipient, amount, fee, reason) ==
    [cycle |-> cycle, kind |-> kind, tx |-> tx, token |-> token,
     delegator |-> delegator, recipient |-> recipient, amount |-> amount,
     fee |-> fee, txFee |-> 0, valid |-> reason = "", note |-> reason]

\* What identifies the destination of a recipe, of a payout and of a report:
\* everything but the cycle.
GetIdentifier(r) ==
    [kind |-> r.kind, tx |-> r.tx, token |-> r.token,
     delegator |-> r.delegator, recipient |-> r.recipient]

\* One payout of one cycle: what tells two recipes of a blueprint apart.
PayoutOf(r) == <<GetIdentifier(r), r.cycle>>

OnlyValid(rs)   == {r \in rs : r.valid}
OnlyInvalid(rs) == {r \in rs : ~r.valid}

\* Mutant: the reports of all cycles.
OfAnyCycle(rs, cycle) == rs

OfKind(rs, kind) == {r \in rs : r.kind = kind}
OfCycle(rs, cycle) == {r \in rs : r.cycle = cycle}
OfTxKinds(rs, kinds) == {r \in rs : r.tx \in kinds}
GetCycles(rs) == {r.cycle : r \in rs}
AmountOf(rs) == LET Amount(r) == r.amount IN Total(Amount, rs)

-----------------------------------------------------------------------------
(* Accumulated payouts: recipes of one destination paid by one transfer.   *)

NoLimits == [gas |-> 0, storage |-> 0, txFee |-> 0, deserialization |-> 0,
             allocationBurn |-> 0, storageBurn |-> 0]

GetAllocationFee(limits) == limits.allocationBurn
GetOperationFeesWithoutAllocation(limits) == limits.txFee + limits.storageBurn
GetOperationTotalFees(limits) ==
    limits.txFee + limits.allocationBurn + limits.storageBurn

AsAccumulated(r) ==
    [kind |-> r.kind, tx |-> r.tx, token |-> r.token,
     delegator |-> r.delegator, recipient |-> r.recipient, cycle |-> r.cycle,
     valid |-> r.valid, note |-> r.note, limits |-> NoLimits, recipes |-> <<r>>]

\* Add appends each of more recipes; all callers group by identifier and
\* validity first, so none of its errors occurs.  The note it leaves is not
\* modelled.
Add(a, more) == [a EXCEPT !.recipes = @ \o more]

GetAmount(a) == LET Amount(i) == a.recipes[i].amount IN Total(Amount, DOMAIN a.recipes)
GetFee(a)    == LET Fee(i) == a.recipes[i].fee IN Total(Fee, DOMAIN a.recipes)
GetTxFee(a)  == LET TxFee(i) == a.recipes[i].txFee IN Total(TxFee, DOMAIN a.recipes)

\* Mutant: later recipes are left out.
SumOfFirst(a) == Head(a.recipes)

\* AsRecipe, the single recipe the tables show for a payout.
Sum(a) == [Head(a.recipes) EXCEPT !.amount = GetAmount(a), !.fee = GetFee(a),
                                  !.txFee = GetTxFee(a)]

\* Mutant: only the first recipe pays.
ChargedToFirst(rs, amount) ==
    [i \in DOMAIN rs |-> IF i = 1 THEN Smaller(rs[i].amount, amount) ELSE 0]

\* What AddTxFee takes from each recipe: all of it while the fee is larger
\* than what is left of it, then the remainder.
ChargedTo(rs, amount) ==
    [i \in DOMAIN rs |->
        LET Amount(j) == rs[j].amount
        IN  Smaller(rs[i].amount, Larger(0, amount - Total(Amount, 1..(i - 1))))]

AddTxFee(a, amount, charge) ==
    LET taken   == ChargedTo(a.recipes, amount)
        charged == [i \in DOMAIN a.recipes |->
                       [a.recipes[i] EXCEPT !.amount = @ - taken[i], !.txFee = @ + taken[i]]]
    IN  IF charge THEN [a EXCEPT !.recipes = charged]
        ELSE [a EXCEPT !.recipes[1].txFee = @ + amount]

RecipesOf(payouts) == UNION {Range(a.recipes) : a \in payouts}

DisperseToInvalid(a) ==
    {[r EXCEPT !.valid = FALSE, !.note = a.note] : r \in Range(a.recipes)}

-----------------------------------------------------------------------------
(* Reports.                                                                *)

ToPayoutReport(r, baker) ==
    [kind |-> r.kind, tx |-> r.tx, token |-> r.token,
     delegator |-> r.delegator, recipient |-> r.recipient, cycle |-> r.cycle,
     amount |-> r.amount, fee |-> r.fee, txFee |-> r.txFee, note |-> r.note,
     baker |-> baker, op |-> NoOpHash, success |-> FALSE]

\* ToIndividualReports of a batch result: one report per recipe.
ToIndividualReports(payouts, baker, op, success) ==
    {[ToPayoutReport(r, baker) EXCEPT !.op = op, !.success = success,
                                      !.note = IF success THEN @ ELSE "failed"]
        : r \in RecipesOf(payouts)}

\* Mutant: the reports of all bakers.
ReportsOfAllBakers(reports, baker) == reports

FilterReportsByBaker(reports, baker) == {q \in reports : q.baker = baker}

\* A report pays its destination if the collector knows the operation as
\* applied, or the report says so, or another report of the same operation
\* does.  The files list the reports of an operation together.
IsPaidBy(q, reports, applied) ==
    \/ q.success
    \/ /\ q.op # NoOpHash
       /\ q.op \in applied \/ \E p \in reports : p.op = q.op /\ p.success

PaidOut(reports, applied) == {q \in reports : IsPaidBy(q, reports, applied)}

\* paidOut keeps one report for each destination.
OnePerDestination(reports) ==
    {CHOOSE q \in reports : GetIdentifier(q) = id : id \in {GetIdentifier(q) : q \in reports}}

\* The recipes still to pay and the reports of those already paid.
FilterRecipesByReports(rs, reports, applied) ==
    LET paid == OnePerDestination(PaidOut(reports, applied))
    IN  [payouts |-> {r \in rs : \A q \in paid : GetIdentifier(q) # GetIdentifier(r)},
         reports |-> paid]

-----------------------------------------------------------------------------
(* Totals and summaries.                                                   *)

\* The last row of the tables of recipes and reports: amounts in tez only.
GetTotals(rs) ==
    LET Amount(r) == r.amount
        Fee(r)    == r.fee
        TxFee(r)  == r.txFee
    IN  [amount |-> Total(Amount, OfTxKinds(rs, {"tez"})),
         fee    |-> Total(Fee, rs), txFee |-> Total(TxFee, rs)]

\* The sums of a CyclePayoutSummary; the baker's and the stakers' balances,
\* copied from the blueprint, are left out.
SummaryFields ==
    {"earnedFees", "earnedRewards", "earnedTotal", "distributed", "notDistributed",
     "bondIncome", "feeIncome", "incomeTotal", "txFeesForRewards", "txFees",
     "donatedBonds", "donatedFees", "donatedTotal"}

BlueprintFields ==
    SummaryFields \ {"distributed", "notDistributed", "txFeesForRewards", "txFees"}

\* The switch over the kind and the success of a report of the cycle.
CycleSummary(blueprint, reports) ==
    LET own     == OfCycle(reports, blueprint.cycle)
        rewards == OfKind(own, "delegator reward")
        sent    == {q \in own : q.success}
        Amount(q) == q.amount
        TxFee(q)  == q.txFee
    IN  [f \in SummaryFields |->
            CASE f \in BlueprintFields     -> blueprint.totals[f]
              [] f = "distributed"         -> Total(Amount, rewards \cap sent)
              [] f = "notDistributed"      -> Total(Amount, rewards \ sent)
              [] f = "txFeesForRewards"    -> Total(TxFee, rewards \cap sent)
              [] f = "txFees"              -> Total(TxFee, sent)]

PaidDelegators(reports) ==
    {q.delegator : q \in {p \in OfKind(reports, "delegator reward") : p.success}}

\* The summary of all blueprints, one of each cycle.  A report of a cycle
\* without a blueprint is not counted.
GeneratePayoutSummary(blueprints, reports) ==
    LET counted == {q \in reports : q.cycle \in GetCycles(blueprints)}
        Field(f) == LET Value(b) == CycleSummary(b, reports)[f]
                    IN  Total(Value, blueprints)
    IN  [sums           |-> [f \in SummaryFields |-> Field(f)],
         cycles         |-> GetCycles(blueprints),
         delegators     |-> {q.delegator : q \in counted},
         paidDelegators |-> PaidDelegators(counted)]
=============================================================================
