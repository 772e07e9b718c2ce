------------------------------ MODULE Generation ------------------------------
(***************************************************************************)
(* core.GeneratePayouts (core/generate): the payouts of each cycle of a    *)
(* period, one cycle after the other, each through the same stages.  What  *)
(* the collector answers, the kill switch and the extensions are inputs.   *)
(*                                                                         *)
(* The variables are the configuration, the stage that runs next, the      *)
(* cycles still to generate and the stage data of the first of them.       *)
(***************************************************************************)
EXTENDS Configuration

CONSTANTS
    Sources,        \* the configurations a file may hold
    Cycles,         \* the cycles of the period, a sequence
    CycleData,      \* what the collector may know of each cycle
    PayoutKey,      \* the address of the signer's key
    Contracts,      \* the addresses of smart contracts
    PayOnly,        \* the addresses with the prefix --pay-only-address-prefix
    Token,          \* the token of the payout-fa extension
    TokenPrice,     \* mutez for one of it
    MinimumToken    \* and the least it sends

ASSUME TokenAssumption == TokenPrice \in Nat \ {0} /\ MinimumToken \in Nat

\* The period has a cycle, and each of its cycles once.
ASSUME CyclesAssumption ==
    /\ Cycles \in Seq(Int) /\ Cycles # <<>>
    /\ \A i, j \in DOMAIN Cycles : Cycles[i] = Cycles[j] => i = j

\* Amounts are not negative, and a delegator is listed once.
ASSUME DataAssumption ==
    \A i \in DOMAIN Cycles : \A d \in CycleData[Cycles[i]] :
        /\ {d.ownStaked, d.ownDelegated, d.actual, d.ideal, d.blockFees} \subseteq Nat
        /\ IsFiniteSet(d.delegators)
        /\ \A x, y \in d.delegators :
               x.balance \in Nat /\ (x.address = y.address => x = y)

\* A file without negative numbers where the validation does not look for
\* them: it bounds the sum of the shares, not each of them, and not the
\* limits of the overrides (validate.go).
SoundFile(source) ==
    /\ \A shares \in {source.bonds, source.fees, source.donations} :
          IsFiniteSet(DOMAIN shares) /\ \A k \in DOMAIN shares : shares[k] \in Nat
    /\ \A k \in DOMAIN source.overrides :
          /\ DOMAIN source.overrides[k] = DOMAIN NoOverride
          /\ source.overrides[k].fee \in Int \cup {NotSet}
          /\ source.overrides[k].maximumBalance \in Nat \cup {NotSet}
    /\ DOMAIN source.feeOverrides \subseteq Int \cup {Unparsable}

SoundSources == \A source \in Sources : SoundFile(source)

VARIABLES config, stage, todo, data, candidates, income, recipes, blueprints, failed

genVars == <<config, stage, todo, data, candidates, income, recipes, blueprints, failed>>

stageData == <<data, candidates, income, recipes>>

NoData == [ownStaked |-> 0, ownDelegated |-> 0, actual |-> 0, ideal |-> 0,
           blockFees |-> 0, delegators |-> {}]

NoIncome == [bonds |-> 0, fees |-> 0, donatedBonds |-> 0, donatedFees |-> 0]

Cycle == Head(todo)

\* DELEGATION_CAPACITY_FACTOR.
DelegationCapacityFactor == 9

GenInit ==
    /\ config = NotSet
    /\ stage = "load"
    /\ todo = Cycles
    /\ data = NoData /\ candidates = {} /\ income = NoIncome /\ recipes = {}
    /\ blueprints = {}
    /\ failed = FALSE

-----------------------------------------------------------------------------
(* The stages as a pipeline.                                               *)

\* Mutant: only the error of the last cycle is looked at.
EndCycleForgetful(produced, error) ==
    /\ blueprints' = blueprints \cup produced
    /\ failed' = (failed \/ error)
    /\ todo' = Tail(todo)
    /\ stage' = IF Len(todo) > 1 THEN "check" ELSE IF error THEN "failed" ELSE "prepare"
    /\ data' = NoData /\ candidates' = {} /\ income' = NoIncome /\ recipes' = {}
    /\ UNCHANGED config

\* A cycle ends with its blueprint, with nothing when the collector has no
\* data of it, or with an error: the other cycles are generated even then,
\* and the error is returned after the last of them.
EndCycle(produced, error) ==
    /\ blueprints' = blueprints \cup produced
    /\ failed' = (failed \/ error)
    /\ todo' = Tail(todo)
    /\ stage' = IF Len(todo) > 1 THEN "check"
                ELSE IF failed \/ error THEN "failed" ELSE "prepare"
    /\ data' = NoData /\ candidates' = {} /\ income' = NoIncome /\ recipes' = {}
    /\ UNCHANGED config

\* An error of a stage: the stages after it are skipped.
StageFails(current) == stage = current /\ EndCycle({}, TRUE)

Panics == stage' = "panicked" /\ UNCHANGED <<config, todo, blueprints, failed>> /\ UNCHANGED stageData

Continue(next) == stage' = next /\ UNCHANGED <<config, todo, blueprints, failed>>

LoadConfiguration ==
    /\ stage = "load"
    /\ \E source \in Sources :
          \E outcome \in IF Convertible(source) THEN Validate(Runtime(source)) ELSE {"error"} :
             IF outcome = "ok" THEN config' = Runtime(source) /\ stage' = "check"
                               ELSE stage' = "failed" /\ UNCHANGED config
    /\ UNCHANGED <<todo, blueprints, failed>> /\ UNCHANGED stageData

-----------------------------------------------------------------------------
(* Checking the conditions.                                                *)

\* What the two files of the kill switch allow.  An upgrade that is not
\* required of this version still fails the check: only a missing file ends it.
KillSwitchLifted(disabled, isDev, doNotPay, upgrade) ==
    \/ disabled
    \/ /\ doNotPay = "missing"
       /\ upgrade = "missing" \/ (upgrade = "some version" /\ isDev)

CheckConditionsAndPrepare ==
    /\ stage = "check"
    /\ \E disabled, isDev, revealed \in BOOLEAN,
          doNotPay \in {"missing", "found", "unknown"},
          upgrade \in {"missing", "some version", "empty", "unknown"} :
          IF KillSwitchLifted(disabled \/ config.disableKillSwitch, isDev, doNotPay, upgrade)
             /\ revealed
          THEN Continue("collect") /\ UNCHANGED stageData
          ELSE EndCycle({}, TRUE)

-----------------------------------------------------------------------------
(* Candidates.                                                             *)

OverrideOf(address) ==
    IF address \in DOMAIN config.overrides THEN config.overrides[address] ELSE NoOverride

\* A candidate; reason says why it is invalid, tx, token, amount and fee are
\* those of the later stages.
DelegatorToPayoutCandidate(d) ==
    LET o == OverrideOf(d.address)
    IN  [source    |-> d.address,
         recipient |-> IF o.recipient = NoAddress THEN d.address ELSE o.recipient,
         feeRate   |-> IF o.fee = NotSet THEN config.fee ELSE o.fee,
         balance   |-> IF o.maximumBalance = NotSet THEN d.balance
                       ELSE Smaller(d.balance, o.maximumBalance),
         emptied |-> d.emptied, reason |-> "",
         tx |-> "", token |-> NoToken, amount |-> 0, fee |-> 0]

\* The first of the checks that fails gives the reason.
FirstReason(checks) ==
    LET refused == SelectSeq(checks, LAMBDA c : c[2])
    IN  IF refused = <<>> THEN "" ELSE Head(refused)[1]

\* The least balance is looked up by the recipient.
MinimumBalanceOf(recipient) ==
    IF OverrideOf(recipient).minimumBalance > 0 THEN OverrideOf(recipient).minimumBalance
    ELSE config.minimumBalance

ValidateCandidate(c) ==
    [c EXCEPT !.reason = FirstReason(<<
        <<"ignored",          c.source \in config.ignore>>,
        <<"prefiltered",      config.prefilter # {} /\ c.source \notin config.prefilter>>,
        <<"invalid address",  c.recipient = NoAddress>>,
        <<"low balance",      c.balance <= MinimumBalanceOf(c.recipient)>>,
        <<"contract ignored", config.ignoreKt /\ c.recipient \in Contracts>>,
        <<"emptied",          config.ignoreEmpty /\ c.emptied>>,
        <<"targets payout",   c.recipient = PayoutKey>>,
        <<"excluded prefix",  c.recipient \notin PayOnly>> >>)]

\* The collector may have no data of the cycle or fail; the hook after the
\* candidates may fail.
GeneratePayoutCandidates ==
    /\ stage = "collect"
    /\ \/ \E d \in CycleData[Cycle] :
             /\ data' = d
             /\ candidates' = {ValidateCandidate(DelegatorToPayoutCandidate(x)) : x \in d.delegators}
             /\ Continue("distribute")
             /\ UNCHANGED <<income, recipes>>
       \/ EndCycle({}, FALSE)

-----------------------------------------------------------------------------
(* Bonds.                                                                  *)

GetTotalDelegatedRewards(d) ==
    d.blockFees + (IF config.payoutMode = "ideal" THEN d.ideal ELSE d.actual)

TotalBalance(cs) == LET Balance(c) == c.balance IN Total(Balance, cs)

\* Overdelegated and protected, the baker takes its full share of what it may
\* be delegated and the rest is diluted.
Bounded(balance) ==
    IF config.protect THEN Smaller(balance, data.ownStaked * DelegationCapacityFactor) ELSE balance

\* Mutant: the baker's own balance is not bounded.
GetBakerBondsOfAll(delegated) ==
    (GetTotalDelegatedRewards(data) * data.ownDelegated)
        \div Bounded(delegated + data.ownDelegated)

GetBakerBondsAmount(delegated) ==
    (GetTotalDelegatedRewards(data) * Bounded(data.ownDelegated))
        \div Bounded(delegated + data.ownDelegated)

\* Invalid delegators count too, except the ignored and, when their rewards
\* go to everyone, those with a low balance.
IsEligible(c) ==
    /\ c.reason # "ignored"
    /\ ~(c.reason = "low balance" /\ config.belowMinimum = "everyone")

\* Nothing to divide by: no share of the baker, or a delegator without one.
Undivided(eligible) ==
    \/ Bounded(TotalBalance(eligible) + data.ownDelegated) = 0
    \/ eligible # {} /\ TotalBalance(eligible) = 0

\* Mutant: those who are not eligible get bonds too.
WithBondsForAll(c, available, total) ==
    [c EXCEPT !.amount = (available * c.balance) \div total, !.tx = "tez"]

WithBonds(c, available, total) ==
    IF IsEligible(c)
    THEN [c EXCEPT !.amount = (available * c.balance) \div total, !.tx = "tez"]
    ELSE c

\* The candidates the payout-fa extension makes of those with a bond.
TokenRewards(cs) ==
    {[c EXCEPT !.amount = @ \div TokenPrice, !.tx = "fa2", !.token = Token]
        : c \in {x \in cs : x.amount \div TokenPrice >= Larger(1, MinimumToken)}}

AfterBondsDistributed(cs) ==
    CASE config.rewardMode = "bonus"   -> cs \cup TokenRewards(cs)
      [] config.rewardMode = "replace" -> TokenRewards(cs)
      [] OTHER                         -> cs

DistributeBonds ==
    /\ stage = "distribute"
    /\ LET eligible == {c \in candidates : IsEligible(c)}
           total    == TotalBalance(eligible)
           bonds    == GetBakerBondsAmount(total)
           donated  == GetZPortion(bonds, config.donateBonds)
       IN  IF Undivided(eligible) THEN Panics
           ELSE /\ candidates' = AfterBondsDistributed(
                      {WithBonds(c, GetTotalDelegatedRewards(data) - bonds, total) : c \in candidates})
                /\ income' = [income EXCEPT !.bonds = bonds - donated, !.donatedBonds = donated]
                /\ Continue("fees")
                /\ UNCHANGED <<data, recipes>>

-----------------------------------------------------------------------------
(* Fees and the last validation.                                           *)

TakeFee(c) ==
    LET fee == GetZPortion(c.amount, c.feeRate)
    IN  IF c.tx # "tez" THEN c
        ELSE [c EXCEPT !.fee = fee, !.amount = @ - fee,
                       !.reason = IF c.amount - fee = 0 /\ @ = ""
                                  THEN "no bonds for baker fee" ELSE @]

CollectBakerFee ==
    /\ stage = "fees"
    /\ LET taken     == {TakeFee(c) : c \in candidates}
           Fee(c)    == c.fee
           collected == Total(Fee, taken)
           donated   == GetZPortion(collected, config.donateFees)
       IN  /\ candidates' = taken
           /\ income' = [income EXCEPT !.fees = collected - donated, !.donatedFees = donated]
    /\ Continue("validate")
    /\ UNCHANGED <<data, recipes>>

MinimumAmountFor(tx) == IF tx = "tez" THEN Larger(0, config.minimumAmount) ELSE 0

\* The handler also moves the amount of an invalid candidate to its fee, in a
\* copy it does not return.
ValidatePresim(c) ==
    IF c.reason # "" THEN c
    ELSE [c EXCEPT !.reason = FirstReason(<<
             <<"unsupported tx kind", c.tx \notin TxKinds \ {""}>>,
             <<"below minimum",       c.amount <= MinimumAmountFor(c.tx)>> >>)]

ValidateRecipe ==
    /\ stage = "validate"
    /\ candidates' = {ValidatePresim(c) : c \in candidates}
    /\ Continue("finalize")
    /\ UNCHANGED <<data, income, recipes>>

-----------------------------------------------------------------------------
(* Recipes and the blueprint.                                              *)

ToPayoutRecipe(c) ==
    PayoutRecipe(Cycle, "delegator reward", c.tx, c.token, c.source, c.recipient,
                 c.amount, c.fee, c.reason)

\* One recipe for each recipient of a share of the income.
GetDistributionPayouts(kind, shares, amount) ==
    {LET portion == GetZPortion(amount, shares[recipient])
         reason  == IF recipient = PayoutKey THEN "targets payout"
                    ELSE IF portion <= 0 THEN "zero payout" ELSE ""
     IN  PayoutRecipe(Cycle, kind, "tez", NoToken, NoAddress, recipient,
                      IF recipient = PayoutKey THEN 0 ELSE portion, 0, reason)
     : recipient \in DOMAIN shares}

FinalizeRecipes ==
    /\ stage = "finalize"
    /\ recipes' = {ToPayoutRecipe(c) : c \in candidates}
          \cup GetDistributionPayouts("baker reward", config.bonds, income.bonds)
          \cup GetDistributionPayouts("fee income", config.fees, income.fees)
          \cup GetDistributionPayouts("donation", config.donations,
                                      income.donatedBonds + income.donatedFees)
    /\ Continue("blueprint")
    /\ UNCHANGED <<data, candidates, income>>

BlueprintTotals ==
    LET earned == GetTotalDelegatedRewards(data)
    IN  [earnedFees |-> data.blockFees, earnedRewards |-> earned - data.blockFees,
         earnedTotal |-> earned,
         bondIncome |-> income.bonds, feeIncome |-> income.fees,
         incomeTotal |-> income.bonds + income.fees,
         donatedBonds |-> income.donatedBonds, donatedFees |-> income.donatedFees,
         donatedTotal |-> income.donatedBonds + income.donatedFees]

CreateBlueprint ==
    /\ stage = "blueprint"
    /\ EndCycle({[cycle |-> Cycle, payouts |-> recipes, totals |-> BlueprintTotals]}, FALSE)

\* The calls that end a cycle: the collector's, and the hooks of four stages.
GenerationFails == \E s \in {"collect", "distribute", "fees", "blueprint"} : StageFails(s)

GenNext ==
    \/ LoadConfiguration
    \/ CheckConditionsAndPrepare
    \/ GeneratePayoutCandidates
    \/ DistributeBonds
    \/ CollectBakerFee
    \/ ValidateRecipe
    \/ FinalizeRecipes
    \/ CreateBlueprint
    \/ GenerationFails
=============================================================================
