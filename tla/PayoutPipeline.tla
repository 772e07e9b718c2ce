---------------------------- MODULE PayoutPipeline ----------------------------
(***************************************************************************)
(* One run of a payout: the configuration is loaded, the payouts of each   *)
(* cycle generated, what is due prepared, split into batches and sent      *)
(* (cmd/pay.go over core.GeneratePayouts, core.PreparePayouts and          *)
(* core.ExecutePayouts).                                                   *)
(***************************************************************************)
EXTENDS Batching

vars == <<genVars, prepVars, batchVars>>

Init == GenInit /\ PrepInit /\ BatchInit

\* Each part changes the stage; the variables of the others stay.
Generating == GenNext /\ UNCHANGED <<prepVars, batchVars>>

Preparing ==
    /\ PrepNext
    /\ UNCHANGED <<config, todo, data, candidates, income, recipes, blueprints, failed>>
    /\ UNCHANGED batchVars

Paying ==
    /\ BatchNext
    /\ UNCHANGED <<config, todo, data, candidates, income, recipes, blueprints, failed>>
    /\ UNCHANGED prepVars

GenStages  == {"check", "collect", "distribute", "fees", "validate", "finalize", "blueprint"}
PrepStages == {"prepare", "accumulate", "balance", "charge", "validate prepared"}
PayStages  == {"prepared", "confirm", "split", "execute"}
EndStages  == {"nothing", "done", "failed", "panicked"}
Stages     == {"load"} \cup GenStages \cup PrepStages \cup PayStages \cup EndStages

Ended == stage \in EndStages /\ UNCHANGED vars

Next == Generating \/ Preparing \/ Paying \/ Ended

Spec == Init /\ [][Next]_vars

-----------------------------------------------------------------------------

\* What every reachable state looks like: stages, counters, and each
\* collection of the stage data holding what the stage puts in it.
TypeOK ==
    /\ stage \in Stages
    /\ options \in [accumulate : BOOLEAN, skipBalanceCheck : BOOLEAN, wait : BOOLEAN,
                    mixInFA : BOOLEAN, mixInContracts : BOOLEAN]
    /\ failed \in BOOLEAN
    /\ \A c \in candidates : c.amount >= 0 /\ c.fee >= 0 /\ c.tx \in TxKinds
    /\ \A r \in recipes \cup payable \cup invalid :
           r.kind \in Kinds /\ r.amount >= 0 /\ r.fee >= 0 /\ r.txFee >= 0
    /\ \A r \in payable : r.valid
    /\ \A r \in invalid : ~r.valid
    /\ \A a \in payouts : a.valid /\ a.recipes # <<>>
    /\ balance.low \in 0..(NotifyEvery - 1) /\ balance.failures \in 0..(NotifyEvery - 1)
    /\ balance.check \in {"hook", "collector"}

\* A configuration that was loaded passed every assertion: the fees of its
\* overrides "must be between 0 and 1" and there is an rpc (validate.go).
LoadedIsValid == stage # "load" /\ config # NotSet => OverridesValid(config) /\ RpcValid(config)

-----------------------------------------------------------------------------
(* Generation.                                                             *)

\* What a cycle pays in tez, to delegators with the fees taken from them, to
\* the recipients of the baker's bonds and fees and of the donations, never
\* exceeds what the cycle earned, however balances are capped, bounded or left
\* out (generate/1_BondDistribuition.go, 2_CollectBakerFee.go,
\* 4_FinalizeRecipes.go).
RewardsNotExceeded ==
    stage = "prepare" =>
        \A b \in blueprints :
            LET tez == OfTxKinds(b.payouts, {"tez"})
            IN  /\ AmountOf(OfKind(tez, "delegator reward"))
                       + b.totals.incomeTotal + b.totals.donatedTotal <= b.totals.earnedTotal
                /\ AmountOf(OfKind(tez, "baker reward")) <= b.totals.bondIncome
                /\ AmountOf(OfKind(tez, "fee income")) <= b.totals.feeIncome
                /\ AmountOf(OfKind(tez, "donation")) <= b.totals.donatedTotal

\* An error in any cycle of the period, even when later cycles are generated
\* without one, keeps the whole period from being paid (a_common.go,
\* generatePayoutsForCycles).
ErrorStopsPayment == failed => stage \in GenStages \cup {"failed", "panicked"}

-----------------------------------------------------------------------------
(* Preparation.                                                            *)

\* The payout of a recipe, or of a report.
PayoutsOf(rs) == {PayoutOf(r) : r \in rs}

\* Once prepared, each recipe of the blueprints is either paid before by this
\* baker, or in exactly one valid payout, or invalid: accumulating, refused
\* estimates and fees larger than the reward lose none and repeat none
\* (prepare/0_PreparePayouts.go to 4_Validate.go).
EveryRecipeAccountedFor ==
    stage = "prepared" =>
        LET due == PayoutsOf(RecipesOf(payouts))
        IN  /\ PayoutsOf(AllRecipes) = PayoutsOf(past) \cup due \cup PayoutsOf(invalid)
            /\ due \cap PayoutsOf(past) = {}
            /\ due \cap PayoutsOf(invalid) = {}
            /\ \A q \in past : q.baker = config.baker
            /\ \A a, b \in payouts :
                   a # b => PayoutsOf(Range(a.recipes)) \cap PayoutsOf(Range(b.recipes)) = {}

Original(r) == CHOOSE q \in AllRecipes : PayoutOf(q) = PayoutOf(r)

TakenFrom(a) ==
    LET Taken(i) == Original(a.recipes[i]).amount - a.recipes[i].amount
    IN  Total(Taken, DOMAIN a.recipes)

\* A payout records all the fees of its transfer, and takes from its recipes
\* exactly the part its delegator is to pay, over as many recipes as that
\* needs, leaving something to send (AddTxFee and 3_CollectTransactionFees.go).
FeesChargedExactly ==
    stage \in {"validate prepared", "prepared"} =>
        \A a \in payouts :
            LET subject == a.tx = "tez" /\ a.kind = "delegator reward"
            IN  /\ GetTxFee(a) = GetOperationTotalFees(a.limits)
                /\ GetAmount(a) > 0
                /\ TakenFrom(a) =
                     (IF subject /\ ~IsBakerPaying(a, "payTxFee")
                      THEN GetOperationFeesWithoutAllocation(a.limits) ELSE 0)
                     + (IF subject /\ ~IsBakerPaying(a, "payAllocationFee")
                        THEN GetAllocationFee(a.limits) ELSE 0)

Spending(as) ==
    AmountOf(OfTxKinds(RecipesOf(as), {"tez"}))
    + (LET Fees(a) == GetOperationTotalFees(a.limits) IN Total(Fees, as))

\* The balance that passed the check, made before any fee was known, covers
\* the amounts and the fees of all payouts when none of the fees is above the
\* buffer (2_SufficientBalance.go and the comment at its end).
BalanceCoversPayouts ==
    (stage = "prepared" /\ balance.seen >= 0
     /\ \A a \in payouts : GetOperationTotalFees(a.limits) <= FeeBuffer)
        => Spending(payouts) < balance.seen

\* However failures and low balances alternate while the command waits with
\* the cycles locked, fewer than twice NotifyEvery checks pass without the
\* admin hearing of one (2_SufficientBalance.go, runBalanceCheck).
SilentWaitsBounded == balance.silent <= 2 * (NotifyEvery - 1)

-----------------------------------------------------------------------------
(* Batches and the summary.                                                *)

\* The batches hold each payout exactly once; unless mixed in, token transfers
\* and contract calls share no batch with others.
BatchesPartition ==
    stage = "execute" =>
        /\ UNION batches = payouts
        /\ \A b, c \in batches : b # c => b \cap c = {}
        /\ \A b \in batches : \A a, c \in b :
              ClassOf(a) # ClassOf(c) =>
                 /\ "fa" \in {ClassOf(a), ClassOf(c)} => options.mixInFA
                 /\ "contract" \in {ClassOf(a), ClassOf(c)} => options.mixInContracts

\* The operation of each batch, whose first transfer is given the gas that
\* deserializes all of them, is within the hard limits of the node.
OperationsFit ==
    stage = "execute" => \A b \in batches :
        /\ OperationGas(b) + MetadataGas <= HardGasLimit
        /\ Used(b, "storage") <= HardStorageLimit
        /\ Used(b, "bytes") + DataBuffer <= MaxDataLength

NoTokens == \A r \in AllRecipes : r.tx \notin FAKinds

\* What the summary says was distributed and what was not, with the income and
\* the donations, stays within what the cycles earned: no report is counted
\* for two cycles or as both (utils/payouts.go, GeneratePayoutSummary).
SummaryWithinEarnings ==
    stage \in {"done", "nothing"} /\ NoTokens =>
        summary.sums["distributed"] + summary.sums["notDistributed"]
            + summary.sums["incomeTotal"] + summary.sums["donatedTotal"]
        <= summary.sums["earnedTotal"]

\* The totals the user confirms are those of the reports of this run, whatever
\* batches they went with and whichever failed (cli.go, batch_result.go).
ConfirmedIsReported ==
    stage = "done" => GetTotals(results \ past) = shown.toPay
=============================================================================
