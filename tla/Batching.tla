------------------------------- MODULE Batching -------------------------------
(***************************************************************************)
(* What the pay command does with prepared payouts: the table it asks to   *)
(* confirm (cmd/pay.go, utils/cli.go), the batches of transfers that fit   *)
(* the limits of an operation (core/execute/0_SplitIntoBatches.go,         *)
(* common/batch.go) and the summary of their results.  How a batch is      *)
(* executed is PayoutExecution's: here it succeeds or fails.               *)
(***************************************************************************)
EXTENDS Preparation

CONSTANTS
    HardGasLimit,       \* HardGasLimitPerOperation, as the node tells it
    HardStorageLimit,   \* HardStorageLimitPerOperation
    MaxDataLength,      \* MaxOperationDataLength
    DataBuffer,         \* constants.DEFAULT_BATCHING_OPERATION_DATA_BUFFER
    PaidOp              \* the hash of an operation of this run

ASSUME LimitsAssumption ==
    {HardGasLimit, HardStorageLimit, MaxDataLength, DataBuffer} \subseteq Nat

VARIABLES queue, batch, batches, shown, results, summary

batchVars == <<queue, batch, batches, shown, results, summary>>

NoSummary == [sums |-> [f \in SummaryFields |-> 0], cycles |-> {}, delegators |-> {},
              paidDelegators |-> {}]
NothingShown == [toPay |-> GetTotals({}), notPaid |-> GetTotals({})]

BatchInit ==
    /\ queue = <<>> /\ batch = {} /\ batches = {} /\ results = {}
    /\ shown = NothingShown
    /\ summary = NoSummary

-----------------------------------------------------------------------------
(* The table to confirm.                                                   *)

Sums(as) == {Sum(a) : a \in as}

\* Invalid recipes of one destination are shown as one.
MergePayouts(rs) == Sums({Accumulated(group) : group \in Grouped(rs)})

InvalidReports == {ToPayoutReport(r, config.baker) : r \in invalid}

\* With nothing to pay, the summary of what was paid before may be sent.
ShowPrepared ==
    /\ stage = "prepared"
    /\ shown' = [toPay |-> GetTotals(Sums(payouts)), notPaid |-> GetTotals(MergePayouts(invalid))]
    /\ IF payouts = {}
       THEN /\ summary' = GeneratePayoutSummary(blueprints, past \cup InvalidReports)
            /\ stage' = "nothing"
       ELSE stage' = "confirm" /\ UNCHANGED summary
    /\ UNCHANGED <<queue, batch, batches, results>>

-----------------------------------------------------------------------------
(* Batches.                                                                *)

\* A little of each limit is kept in reserve.
Reserved(limit) == (limit * 95) \div 100

Used(as, field) == LET Field(a) == a.limits[field] IN Total(Field, as)

\* Mutant: deserializing the batch is not counted.
UsedGasOfTransfers(as) == MetadataGas + Used(as, "gas")

UsedGas(as) == MetadataGas + Used(as, "gas") + Used(as, "deserialization")

\* AddPayout: whether the batch takes one more.
AddPayout(as, a) ==
    LET more == as \cup {a}
    IN  /\ Used(more, "storage") < Reserved(HardStorageLimit)
        /\ UsedGas(more) < Reserved(HardGasLimit)
        /\ Used(more, "bytes") <= Reserved(MaxDataLength) - DataBuffer

Classes(as, class) == {a \in as : ClassOf(a) = class}

\* Token transfers and contract calls are batched apart, unless they are
\* mixed in with the rest.
ToBatch ==
    LET apart == (IF options.mixInFA THEN <<>> ELSE <<"fa">>)
                 \o (IF options.mixInContracts THEN <<>> ELSE <<"contract">>)
        mixed == {"fa", "contract", "plain"} \ {apart[i] : i \in DOMAIN apart}
    IN  [i \in DOMAIN apart |-> Classes(payouts, apart[i])]
        \o <<UNION {Classes(payouts, class) : class \in mixed}>>

\* The user confirms, and the node tells its limits.
SplitIntoBatches ==
    /\ stage = "confirm"
    /\ \/ queue' = ToBatch /\ stage' = "split"
       \/ UNCHANGED queue /\ stage' = "failed"
    /\ UNCHANGED <<batch, batches, shown, results, summary>>

\* ToBatch of a blueprint; empty batches are dropped at the end.
Closed == batches \cup ({batch} \ {{}})

Rest(a) == [queue EXCEPT ![1] = @ \ {a}]

AddToBatch(a) ==
    /\ AddPayout(batch, a)
    /\ batch' = batch \cup {a}
    /\ queue' = Rest(a)
    /\ UNCHANGED <<batches, stage>>

\* Mutant: the payout that did not fit is dropped.
OpenEmptyBatch(a) ==
    /\ ~AddPayout(batch, a)
    /\ IF AddPayout({}, a)
       THEN batches' = Closed /\ batch' = {} /\ queue' = Rest(a) /\ UNCHANGED stage
       ELSE stage' = "failed" /\ UNCHANGED <<batches, batch, queue>>

OpenNextBatch(a) ==
    /\ ~AddPayout(batch, a)
    /\ IF AddPayout({}, a)
       THEN batches' = Closed /\ batch' = {a} /\ queue' = Rest(a) /\ UNCHANGED stage
       ELSE stage' = "failed" /\ UNCHANGED <<batches, batch, queue>>

SplitNextPayout ==
    /\ stage = "split" /\ queue # <<>>
    /\ \E a \in Head(queue) : AddToBatch(a) \/ OpenNextBatch(a)
    /\ UNCHANGED <<shown, results, summary>>

SplitNextClass ==
    /\ stage = "split" /\ queue # <<>> /\ Head(queue) = {}
    /\ batches' = Closed
    /\ batch' = {}
    /\ queue' = Tail(queue)
    /\ stage' = IF Len(queue) = 1 THEN "execute" ELSE "split"
    /\ UNCHANGED <<shown, results, summary>>

-----------------------------------------------------------------------------
(* The operation of a batch and the results.                               *)

\* The limits of the operation's first transfer carry the gas that
\* deserializes all of them.
OperationGas(as) ==
    LET Gas(a)   == a.limits.gas
        first    == CHOOSE a \in as : TRUE
        Limit(a) == Gas(a) + (IF a = first THEN Used(as, "deserialization") ELSE 0)
    IN  Total(Limit, as)

\* Each batch succeeds or fails; the reports of all of them, those of past
\* payouts and those of the invalid recipes make the summary.
ExecutePayouts ==
    /\ stage = "execute"
    /\ \E applied \in SUBSET batches :
          LET ofBatch(b) == ToIndividualReports(b, config.baker, PaidOp, b \in applied)
          IN  results' = past \cup UNION {ofBatch(b) : b \in batches}
    /\ summary' = GeneratePayoutSummary(blueprints, results' \cup InvalidReports)
    /\ stage' = "done"
    /\ UNCHANGED <<queue, batch, batches, shown>>

BatchNext ==
    \/ ShowPrepared
    \/ SplitIntoBatches
    \/ SplitNextPayout
    \/ SplitNextClass
    \/ ExecutePayouts
=============================================================================
