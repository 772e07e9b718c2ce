--------------------------- MODULE MCPayoutPipeline ---------------------------
EXTENDS PayoutPipeline

CONSTANTS Alice, Bob, Vault, Baker, Other, Url, Gold, OpA, OpB

\* A file with the defaults; amounts are tenths of a mutez.
MCDefault ==
    [baker |-> Baker, walletMode |-> NotSet, payoutMode |-> NotSet, fee |-> NotSet,
     payTxFee |-> NotSet, payAllocationFee |-> NotSet, minimumAmount |-> NotSet,
     ignoreEmpty |-> NotSet, batchSize |-> NotSet, minimumDelay |-> NotSet,
     maximumDelay |-> NotSet, minimumBalance |-> NotSet, belowMinimum |-> NotSet,
     overrides |-> [k \in {} |-> NoOverride], feeOverrides |-> [k \in {} |-> {}],
     ignore |-> {}, prefilter |-> {}, bonds |-> [k \in {} |-> 0], fees |-> [k \in {} |-> 0],
     donations |-> [k \in {} |-> 0], donate |-> 0, donateBonds |-> NotSet, donateFees |-> NotSet,
     rpcUrl |-> NotSet, rpcPool |-> NotSet, ignoreKt |-> NotSet, protect |-> NotSet,
     rewardMode |-> NotSet]

MCOverride(k, o) == [x \in {k} |-> o]

\* Rewards to everyone, a share of the bonds, half of them donated.
MCShares ==
    [MCDefault EXCEPT !.bonds = [k \in {Other} |-> 6000], !.donateBonds = 5000,
                      !.minimumBalance = 1000, !.belowMinimum = "everyone",
                      !.ignoreEmpty = TRUE]

\* Bob is paid to a contract, with a capped balance and at the baker's cost.
MCRedirect ==
    [MCDefault EXCEPT
        !.overrides = MCOverride(Bob, [NoOverride EXCEPT !.recipient = Vault, !.fee = 0,
                                          !.maximumBalance = 10000, !.payTxFee = TRUE]),
        !.minimumAmount = 11000]

\* Tokens on top of the rewards, or instead of them.
MCBonus ==
    [MCDefault EXCEPT !.rewardMode = "bonus", !.protect = FALSE, !.fee = 0,
                      !.overrides = MCOverride(Bob, [NoOverride EXCEPT !.recipient = Vault])]
MCReplace == [MCDefault EXCEPT !.rewardMode = "replace", !.minimumAmount = 30000]

\* Files that are refused: a fee above one, fees that are no numbers,
\* delays the wrong way round, shares that exceed the whole.
MCBad ==
    {[MCDefault EXCEPT !.fee = 20000], [MCDefault EXCEPT !.minimumDelay = 20, !.maximumDelay = 10],
     [MCDefault EXCEPT !.feeOverrides = [k \in {Unparsable} |-> {Alice}]],
     [MCDefault EXCEPT !.donations = [k \in {Other, Vault} |-> 6000]]}

MCSources == {MCShares, MCRedirect, MCBonus, MCReplace} \cup MCBad

\* A file with an override that sets no fee and one with a fee of two.
MCUnsound ==
    {[MCDefault EXCEPT
        !.overrides = [k \in {Alice, Bob} |->
            [NoOverride EXCEPT !.fee = IF k = Bob THEN 20000 ELSE NotSet, !.recipient = k]]]}

MCDelegator(address, amount, emptied) == [address |-> address, balance |-> amount, emptied |-> emptied]

\* A baker within its capacity, one overdelegated, one overdelegated to
\* itself, and a cycle nobody delegated anything in.
MCData(staked, own, rewards, delegators) ==
    [ownStaked |-> staked, ownDelegated |-> own, actual |-> rewards, ideal |-> 2 * rewards,
     blockFees |-> 100, delegators |-> delegators]

MCBoth(emptied) == {MCDelegator(Alice, 3000, FALSE), MCDelegator(Bob, 1500, emptied)}

MCWithin        == MCData(1000, 500, 5000, MCBoth(TRUE))
MCOverdelegated == MCData(200, 1000, 3900, {MCDelegator(Alice, 3000, FALSE), MCDelegator(Bob, 90, FALSE)})
MCSelfDelegated == MCData(100, 2000, 3900, MCBoth(FALSE))
MCUndelegated   == MCData(100, 0, 10, {MCDelegator(Alice, 0, FALSE)})

MCCycleData == <<{MCWithin, MCOverdelegated}, {MCWithin, MCSelfDelegated, MCUndelegated}>>

MCCycles == <<1, 2>>

MCPool      == <<Url>>
MCContracts == {Vault}
MCPayOnly   == {Alice, Bob, Vault}

MCOptions ==
    {[accumulate |-> TRUE, skipBalanceCheck |-> FALSE, wait |-> FALSE,
      mixInFA |-> FALSE, mixInContracts |-> FALSE],
     [accumulate |-> TRUE, skipBalanceCheck |-> FALSE, wait |-> TRUE,
      mixInFA |-> TRUE, mixInContracts |-> FALSE],
     [accumulate |-> TRUE, skipBalanceCheck |-> TRUE, wait |-> FALSE,
      mixInFA |-> TRUE, mixInContracts |-> TRUE]}

MCCost(gas, storage, bytes, allocation, burn) ==
    [gas |-> gas, storage |-> storage, bytes |-> bytes, allocationBurn |-> allocation,
     storageBurn |-> burn]

\* Cheap transfers; then transfers to accounts that must be allocated, and to
\* a contract that takes more gas than an operation may.
MCCosts ==
    {[class \in {"plain", "contract", "fa"} |-> MCCost(200, 0, 50, 0, 0)],
     [class \in {"plain", "contract", "fa"} |->
         IF class = "plain" THEN MCCost(300, 10, 60, 900, 7)
         ELSE MCCost(IF class = "fa" THEN 900 ELSE 2500, 10, 60, 0, 7)]}

\* What the theorems about amounts assume of the files holds of these.
ASSUME SourcesAreSound == SoundSources
=============================================================================
