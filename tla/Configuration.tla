---------------------------- MODULE Configuration ----------------------------
(***************************************************************************)
(* Loading the configuration (configuration/base.go, migrate.go,           *)
(* validate.go): defaults, the runtime form and its validation.  A source  *)
(* is what the file holds: NotSet where it leaves a field out.  Amounts of *)
(* the file count tenths of a mutez, so that the rounding down to whole    *)
(* mutez shows; portions are PayoutRecipes'.                               *)
(***************************************************************************)
EXTENDS PayoutRecipes

CONSTANTS
    NotSet,         \* a field the file leaves out
    Unparsable,     \* a text no number or address can be read from
    TezCapital,     \* constants.DEFAULT_DONATION_ADDRESS
    DefaultPool     \* constants.DEFAULT_RPC_POOL

OrDefault(value, default) == IF value = NotSet THEN default ELSE value

FloatAmountToMutez(amount) == amount \div 10

SumOfPortions(portions) == LET Portion(k) == portions[k] IN Total(Portion, DOMAIN portions)

With(f, k, value) == [x \in DOMAIN f \cup {k} |-> IF x = k THEN value ELSE f[x]]

\* What of the donations is not assigned goes to tez.capital, and replaces
\* the share the file gives it.
PreprocessDonationMap(donations) ==
    LET total == SumOfPortions(donations)
    IN  IF DOMAIN donations = {} THEN [k \in {TezCapital} |-> Unit]
        ELSE IF total < Unit THEN With(donations, TezCapital, Unit - total)
        ELSE donations

NoOverride == [recipient |-> NoAddress, fee |-> NotSet, minimumBalance |-> 0,
               maximumBalance |-> NotSet, payTxFee |-> NotSet, payAllocationFee |-> NotSet]

RuntimeOverride(o) ==
    [o EXCEPT !.minimumBalance = FloatAmountToMutez(@),
              !.maximumBalance = IF @ = NotSet THEN NotSet ELSE FloatAmountToMutez(@)]

\* The addresses of fee_overrides.
Listed(source) == UNION {source.feeOverrides[fee] : fee \in DOMAIN source.feeOverrides}

\* A delegator with an override of its own keeps it as it is: the fee found
\* for one without a fee is set in a copy.
Overrides(source) ==
    LET own == source.overrides
    IN  [k \in DOMAIN own \cup Listed(source) |->
            IF k \in DOMAIN own THEN RuntimeOverride(own[k])
            ELSE [NoOverride EXCEPT !.fee =
                     CHOOSE fee \in DOMAIN source.feeOverrides : k \in source.feeOverrides[fee]]]

\* rpc_url first, then the pool.
RpcPool(source) ==
    LET pool == OrDefault(source.rpcPool, DefaultPool)
    IN  IF source.rpcUrl = NotSet THEN pool
        ELSE <<source.rpcUrl>> \o SelectSeq(pool, LAMBDA url : url # source.rpcUrl)

\* The delays of the cycle monitor, DEFAULT_CYCLE_MONITOR_* where the file has
\* none.  A maximum that is not positive brings back both.
SetDelay(delay, source, default) ==
    IF OrDefault(source.maximumDelay, 1500) > 0 THEN OrDefault(delay, default) ELSE default
MinimumDelay(source) == SetDelay(source.minimumDelay, source, 500)
MaximumDelay(source) == SetDelay(source.maximumDelay, source, 1500)

\* ConfigurationToRuntimeConfiguration.  DisableKillSwitch is not among the
\* fields it copies, and IsValid of a notificator is not set by it.
Runtime(source) ==
    LET donate == OrDefault(source.donate, 500)
    IN  [baker |-> source.baker,
         walletMode |-> OrDefault(source.walletMode, "local"),
         payoutMode |-> OrDefault(source.payoutMode, "actual"),
         fee |-> OrDefault(source.fee, 500),
         payTxFee |-> OrDefault(source.payTxFee, FALSE),
         payAllocationFee |-> OrDefault(source.payAllocationFee, FALSE),
         minimumAmount |-> FloatAmountToMutez(OrDefault(source.minimumAmount, 0)),
         ignoreEmpty |-> OrDefault(source.ignoreEmpty, FALSE),
         batchSize |-> OrDefault(source.batchSize, 50),
         minimumDelay |-> MinimumDelay(source), maximumDelay |-> MaximumDelay(source),
         minimumBalance |-> FloatAmountToMutez(OrDefault(source.minimumBalance, 0)),
         belowMinimum |-> OrDefault(source.belowMinimum, "none"),
         overrides |-> Overrides(source),
         ignore |-> source.ignore, prefilter |-> source.prefilter,
         bonds |-> source.bonds, fees |-> source.fees,
         donations |-> PreprocessDonationMap(source.donations),
         donateBonds |-> OrDefault(source.donateBonds, donate),
         donateFees |-> OrDefault(source.donateFees, donate),
         rpcPool |-> RpcPool(source),
         ignoreKt |-> OrDefault(source.ignoreKt, FALSE),
         protect |-> OrDefault(source.protect, TRUE),
         disableKillSwitch |-> FALSE,
         rewardMode |-> source.rewardMode]    \* the reward mode of its payout-fa extension

\* A fee of fee_overrides that is not a number fails the conversion.
Convertible(source) ==
    \A fee \in DOMAIN source.feeOverrides : fee = Unparsable => source.feeOverrides[fee] = {}

-----------------------------------------------------------------------------
(* Validation.                                                             *)

SharesValid(shares) ==
    /\ IsPortionWithin0n1(SumOfPortions(shares))
    /\ Unparsable \notin DOMAIN shares

\* The assertions before those about overrides.
BasicsValid(config) ==
    /\ config.walletMode \in {"local", "remote", "gcp"}
    /\ config.payoutMode \in {"actual", "ideal"}
    /\ config.minimumDelay <= config.maximumDelay
    /\ config.belowMinimum \in {"none", "everyone"}
    /\ \A p \in {config.fee, config.donateFees, config.donateBonds} : IsPortionWithin0n1(p)
    /\ \A shares \in {config.bonds, config.fees, config.donations} : SharesValid(shares)

OverrideValid(config, k) ==
    /\ k # Unparsable
    /\ LET fee == config.overrides[k].fee
       IN  fee = NotSet \/ IsPortionWithin0n1(fee)

OverridesValid(config) == \A k \in DOMAIN config.overrides : OverrideValid(config, k)

RpcValid(config) == config.rpcPool # <<>>

\* The message of an assertion is made even when the assertion holds: it reads
\* the fee of an override that has none.  The panic is no string, and the
\* deferred function takes it for a success.
OverrideSwallows(config) ==
    \E k \in DOMAIN config.overrides : k # Unparsable /\ config.overrides[k].fee = NotSet

\* What Validate may answer: the overrides are visited in no fixed order.  The
\* notificators, none of which is ever marked valid, are all passed over.
Validate(config) ==
    LET Answers(valid) == IF valid THEN {"ok"} ELSE {"error"}
    IN  IF ~BasicsValid(config) THEN {"error"}
        ELSE IF OverrideSwallows(config) THEN {"ok"} \cup Answers(OverridesValid(config))
        ELSE Answers(OverridesValid(config) /\ RpcValid(config))
=============================================================================
