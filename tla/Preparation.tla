----------------------------- MODULE Preparation -----------------------------
(***************************************************************************)
(* core.PreparePayouts (core/prepare, core/estimate): the recipes already  *)
(* paid are dropped, the rest accumulated by destination, the balance      *)
(* checked, the transaction fees estimated and charged.                    *)
(***************************************************************************)
EXTENDS Generation

CONSTANTS
    Options,            \* what the command asks for
    EarlierRuns,        \* what an earlier run may have left in the reports
    OtherBaker,         \* the baker of a report of someone else
    EarlierOp,          \* the operation of the earlier run
    Balances,           \* the balances the wallet may have
    Costs,              \* what a simulation may say of a class of transfers
    MetadataGas,        \* BatchMetadataDeserializationGasLimit
    FeeBuffer,          \* constants.PAYOUT_FEE_BUFFER, of each payout
    NotifyEvery         \* the admin hears of one failed check of this many

ASSUME NotifyAssumption == NotifyEvery \in Nat \ {0}
ASSUME FeeBufferAssumption == FeeBuffer \in Nat
ASSUME OptionsAssumption ==
    Options \subseteq [accumulate : BOOLEAN, skipBalanceCheck : BOOLEAN, wait : BOOLEAN,
                       mixInFA : BOOLEAN, mixInContracts : BOOLEAN]

\* The balances, gas, bytes and burned amounts the node tells are not negative.
ASSUME BalancesAssumption == Balances \subseteq Nat
ASSUME CostsAssumption ==
    /\ Costs \subseteq [{"fa", "contract", "plain"} ->
          [gas : Nat, storage : Nat, bytes : Nat, allocationBurn : Nat, storageBurn : Nat]]
    /\ MetadataGas \in Nat

VARIABLES options, payable, payouts, invalid, past, balance

prepVars == <<options, payable, payouts, invalid, past, balance>>

AllRecipes == UNION {b.payouts : b \in blueprints}

\* The loop of the balance check: which check runs, what the hook asked for,
\* the two counters of the notifications, the checks since the last of them
\* and the balance the collector last answered.
NoCheck == [check |-> "hook", skipTez |-> FALSE, low |-> 0, failures |-> 0,
            silent |-> 0, seen |-> -1]

PrepInit ==
    /\ options \in Options
    /\ payable = {} /\ payouts = {} /\ invalid = {} /\ past = {}
    /\ balance = NoCheck

-----------------------------------------------------------------------------
(* What was paid before.                                                   *)

\* A report as an earlier run left it: of an operation that was applied, one
\* that was not, one whose success was written, or one of another baker.
EarlierReport(r, run) ==
    [ToPayoutReport(r, IF run = "other baker" THEN OtherBaker ELSE config.baker)
        EXCEPT !.op = EarlierOp, !.success = run \in {"reported", "other baker"}]

Applied(run) == IF run = "applied" THEN {EarlierOp} ELSE {}

\* The earlier run paid nothing, one recipe or all those of a cycle.
PaidEarlier == {{}} \cup {{r} : r \in AllRecipes} \cup {OnlyValid(b.payouts) : b \in blueprints}

\* The extensions asked afterwards, here and in AccumulatePayouts, answer with
\* what they were sent or fail (PreparationFails); what one that rewrites the
\* payouts would pay instead is its own.
PreparePayouts ==
    /\ stage = "prepare"
    /\ \E run \in EarlierRuns, paid \in PaidEarlier :
          LET Found(b) ==
                 FilterRecipesByReports(b.payouts,
                    FilterReportsByBaker({EarlierReport(r, run) : r \in paid \cap b.payouts},
                                         config.baker),
                    Applied(run))
              left == UNION {Found(b).payouts : b \in blueprints}
          IN  /\ payable' = OnlyValid(left)
              /\ invalid' = OnlyInvalid(left)
              /\ past' = UNION {Found(b).reports : b \in blueprints}
    /\ stage' = "accumulate"
    /\ UNCHANGED <<payouts, options, balance>>

-----------------------------------------------------------------------------
(* Accumulating.                                                           *)

\* The recipes of one destination, in the order of the blueprints.
InOrderOfCycles(rs) ==
    LET Earlier(r) == {q \in rs : \E i, j \in DOMAIN Cycles :
                          i < j /\ Cycles[i] = q.cycle /\ Cycles[j] = r.cycle}
    IN  [i \in 1..Cardinality(rs) |-> CHOOSE r \in rs : Cardinality(Earlier(r)) = i - 1]

Accumulated(rs) ==
    LET group == InOrderOfCycles(rs) IN Add(AsAccumulated(Head(group)), Tail(group))

Grouped(rs) == {{r \in rs : GetIdentifier(r) = id} : id \in {GetIdentifier(r) : r \in rs}}

\* Nothing is grouped when all recipes are of one cycle.
AccumulatePayouts ==
    /\ stage = "accumulate"
    /\ payouts' = IF options.accumulate /\ Cardinality(GetCycles(payable)) > 1
                  THEN {Accumulated(group) : group \in Grouped(payable)}
                  ELSE {AsAccumulated(r) : r \in payable}
    /\ stage' = IF options.skipBalanceCheck THEN "charge" ELSE "balance"
    /\ UNCHANGED <<payable, invalid, past, options, balance>>

-----------------------------------------------------------------------------
(* The balance.                                                            *)

OfKindTez(as) == {a \in as : a.tx = "tez"}

\* Mutant: no buffer for each payout.
RequiredForAmounts(as) ==
    LET Need(a) == GetAmount(a) + GetTxFee(a)
    IN  Total(Need, OfKindTez(as)) + FeeBuffer

\* What the payouts need, with a buffer for each of them and for each
\* recipient of the income, whose payouts are among them.
RequiredBalance(as) ==
    LET Need(a) == GetAmount(a) + GetTxFee(a)
        count   == Cardinality(as) + Cardinality(DOMAIN config.bonds)
                   + Cardinality(DOMAIN config.fees) + Larger(Cardinality(DOMAIN config.donations), 1)
    IN  Total(Need, OfKindTez(as)) + FeeBuffer * count

\* The last check passed: the loop's counters are gone.
BalanceSuffices(seen) ==
    /\ stage' = "charge"
    /\ balance' = [NoCheck EXCEPT !.seen = seen]

\* Mutant: the counter stops instead of starting again.
CheckAgainQuietly(counter) ==
    IF options.wait
    THEN /\ balance' = [balance EXCEPT ![counter] = Smaller(@ + 1, NotifyEvery - 1),
                           !.silent = IF balance[counter] = 0 THEN 0 ELSE @ + 1]
         /\ UNCHANGED stage
    ELSE stage' = "failed" /\ UNCHANGED balance

\* A check that did not pass: waiting, the command tries again in five minutes
\* and tells the admin of the first and of each NotifyEvery-th of its kind.
CheckAgain(counter) ==
    IF options.wait
    THEN /\ balance' = [balance EXCEPT ![counter] = (@ + 1) % NotifyEvery,
                           !.silent = IF balance[counter] = 0 THEN 0 ELSE @ + 1]
         /\ UNCHANGED stage
    ELSE stage' = "failed" /\ UNCHANGED balance

\* The extensions' check: it may see to tez itself.
CheckBalanceWithHook ==
    /\ stage = "balance" /\ balance.check = "hook"
    /\ \/ \E skip \in BOOLEAN :
             /\ balance' = [balance EXCEPT !.check = "collector", !.low = 0, !.failures = 0,
                               !.skipTez = skip]
             /\ UNCHANGED stage
       \/ CheckAgain("low")
       \/ CheckAgain("failures")
    /\ UNCHANGED <<payable, payouts, invalid, past, options>>

CheckBalanceWithCollector ==
    /\ stage = "balance" /\ balance.check = "collector"
    /\ \/ balance.skipTez /\ BalanceSuffices(-1)
       \/ /\ ~balance.skipTez
          /\ \E available \in Balances :
                IF available > RequiredBalance(payouts)
                THEN BalanceSuffices(available) ELSE CheckAgain("low")
       \/ ~balance.skipTez /\ CheckAgain("failures")
    /\ UNCHANGED <<payable, payouts, invalid, past, options>>

-----------------------------------------------------------------------------
(* Transaction fees.                                                       *)

\* The classes of transfers a simulation batch never mixes.
ClassOf(a) ==
    IF a.tx \in FAKinds THEN "fa" ELSE IF a.recipient \in Contracts THEN "contract" ELSE "plain"

\* The buffers a file has by default: DEFAULT_TX_GAS_LIMIT_BUFFER,
\* DEFAULT_KT_TX_GAS_LIMIT_BUFFER, DEFAULT_TX_DESERIALIZATION_GAS_BUFFER and
\* ALLOCATION_STORAGE.  Those of the fee, DEFAULT_TX_FEE_BUFFER and
\* DEFAULT_KT_TX_FEE_BUFFER, are zero and add nothing.
GasBuffer(class) == IF class = "plain" THEN 100 ELSE 200
DeserializationBuffer == 2
CalculateStorageLimit(cost) == cost.storage + (IF cost.allocationBurn > 0 THEN 257 ELSE 0)

\* codec.CalculateMinFee: a fee of the operation, its bytes and its gas.
CalculateMinFee(cost, gas) == 100 + cost.bytes + gas \div 10

\* The limits of a transfer.  Its share of the gas to deserialize the batch
\* grows with its bytes.
OpLimits(class, cost) ==
    LET gas   == cost.gas + GasBuffer(class)
        share == cost.bytes + DeserializationBuffer
    IN  [gas |-> gas, storage |-> CalculateStorageLimit(cost),
         txFee |-> CalculateMinFee(cost, gas + share + MetadataGas), deserialization |-> share,
         allocationBurn |-> cost.allocationBurn, storageBurn |-> cost.storageBurn,
         bytes |-> cost.bytes]

Refuse(a, reason) == [a EXCEPT !.valid = FALSE, !.note = reason]

IsBakerPaying(a, field) ==
    LET own == OverrideOf(a.delegator)[field] IN OrDefault(own, config[field])

\* Only a delegator pays the fees of its rewards, and only of those in tez.
Charge(a, limits) ==
    LET subject == a.tx = "tez" /\ a.kind = "delegator reward"
        fees    == GetOperationFeesWithoutAllocation(limits)
    IN  AddTxFee(AddTxFee([a EXCEPT !.limits = limits], fees,
                          subject /\ ~IsBakerPaying(a, "payTxFee")),
                 GetAllocationFee(limits),
                 subject /\ ~IsBakerPaying(a, "payAllocationFee"))

WithFees(a, costs, refused) ==
    LET charged == Charge(a, OpLimits(ClassOf(a), costs[ClassOf(a)]))
    IN  IF a \in refused THEN Refuse(a, "failed to estimate")
        ELSE IF GetAmount(charged) = 0 THEN Refuse(a, "not enough bonds for tx fees")
        ELSE charged

\* Those that became invalid join the invalid recipes one by one.
KeepValid(as) ==
    /\ payouts' = OnlyValid(as)
    /\ invalid' = invalid \cup UNION {DisperseToInvalid(a) : a \in OnlyInvalid(as)}

\* A batch that cannot be simulated is simulated transfer by transfer, and any
\* of them may be refused.
CollectTransactionFees ==
    /\ stage = "charge"
    /\ \E costs \in Costs, refused \in SUBSET payouts :
          KeepValid({WithFees(a, costs, refused) : a \in payouts})
    /\ stage' = "validate prepared"
    /\ UNCHANGED <<payable, past, options, balance>>

ValidatePrepared(a) ==
    IF a.kind = "delegator reward" /\ GetAmount(a) <= MinimumAmountFor(a.tx)
    THEN Refuse(a, "below minimum") ELSE a

ValidatePreparedPayouts ==
    /\ stage = "validate prepared"
    /\ KeepValid({ValidatePrepared(a) : a \in payouts})
    /\ stage' = "prepared"
    /\ UNCHANGED <<payable, past, options, balance>>

\* The calls that end the preparation: the simulation that measures the gas,
\* the reports' file and the hooks.
PreparationFails ==
    /\ stage \in {"prepare", "accumulate"}
    /\ stage' = "failed"
    /\ UNCHANGED <<payable, payouts, invalid, past, options, balance>>

\* A simulation that answers for some of the transfers only.
PartialEstimate ==
    /\ \/ stage = "prepare"
       \/ stage = "charge" /\ payouts # {}
    /\ stage' = "panicked"
    /\ UNCHANGED <<payable, payouts, invalid, past, options, balance>>

PrepNext ==
    \/ PreparePayouts
    \/ AccumulatePayouts
    \/ CheckBalanceWithHook
    \/ CheckBalanceWithCollector
    \/ CollectTransactionFees
    \/ ValidatePreparedPayouts
    \/ PreparationFails
    \/ PartialEstimate
=============================================================================
