--------------------------- MODULE Generation_proofs ---------------------------
(***************************************************************************)
(* Proofs about Generation: what the stages of a cycle keep of the money   *)
(* it earned, for any cycles, data of them and configuration files.        *)
(***************************************************************************)
EXTENDS Generation, PayoutRecipes_proofs

-----------------------------------------------------------------------------
(* Configurations.                                                         *)

SharesOK(shares) ==
    /\ IsFiniteSet(DOMAIN shares)
    /\ \A k \in DOMAIN shares : shares[k] \in Nat
    /\ SumFunctionOnSet(shares, DOMAIN shares) <= Unit

OverrideOK(o) == o.fee \in Int \cup {NotSet} /\ o.maximumBalance \in Nat \cup {NotSet}

ConfigOK(c) ==
    /\ c.fee \in 0..Unit /\ c.donateBonds \in 0..Unit /\ c.donateFees \in 0..Unit
    /\ \A k \in DOMAIN c.overrides : OverrideOK(c.overrides[k])
    /\ SharesOK(c.bonds) /\ SharesOK(c.fees) /\ SharesOK(c.donations)

(* The shares that the validation adds up. *)
LEMMA SumOfPortionsIs ==
  ASSUME NEW shares, IsFiniteSet(DOMAIN shares), \A k \in DOMAIN shares : shares[k] \in Nat
  PROVE  /\ SumOfPortions(shares) = SumFunctionOnSet(shares, DOMAIN shares)
         /\ SumOfPortions(shares) \in Nat
<1> DEFINE F == [k \in DOMAIN shares |-> shares[k]]
<1>1. SumOfPortions(shares) = SumFunctionOnSet(F, DOMAIN shares)
  BY Zenon DEF SumOfPortions, Total
<1>2. \A k \in DOMAIN shares : F[k] \in Int /\ F[k] = shares[k]
  OBVIOUS
<1> HIDE DEF F
<1>3. SumFunctionOnSet(F, DOMAIN shares) = SumFunctionOnSet(shares, DOMAIN shares)
  BY <1>2, SumEqual
<1>4. SumFunctionOnSet(shares, DOMAIN shares) \in Nat
  BY SumNat
<1> QED
  BY <1>1, <1>3, <1>4

(* The shares of the donations stay shares. *)
LEMMA DonationsSound ==
  ASSUME NEW donations, IsFiniteSet(DOMAIN donations),
         \A k \in DOMAIN donations : donations[k] \in Nat
  PROVE  LET d == PreprocessDonationMap(donations)
         IN  IsFiniteSet(DOMAIN d) /\ \A k \in DOMAIN d : d[k] \in Nat
<1> DEFINE d == PreprocessDonationMap(donations)
           total == SumOfPortions(donations)
<1>1. total \in Nat
  BY SumOfPortionsIs
<1>2. CASE d = [k \in {TezCapital} |-> Unit]
  <2>1. DOMAIN d = {TezCapital} /\ \A k \in DOMAIN d : d[k] \in Nat
    BY <1>2 DEF Unit
  <2> QED
    BY <2>1, FS_Singleton
<1>3. CASE total < Unit /\ d = With(donations, TezCapital, Unit - total)
  <2>1. DOMAIN d = DOMAIN donations \cup {TezCapital}
    BY <1>3 DEF With
  <2>2. IsFiniteSet(DOMAIN d)
    BY <2>1, FS_AddElement
  <2>3. Unit - total \in Nat
    BY <1>1, <1>3 DEF Unit
  <2>4. \A k \in DOMAIN d : d[k] \in Nat
    BY <1>3, <2>3 DEF With
  <2> QED
    BY <2>2, <2>4
<1>4. CASE d = donations
  BY <1>4
<1> QED
  BY <1>2, <1>3, <1>4 DEF PreprocessDonationMap

(* What passes the validation, even where a panic ends it early. *)
LEMMA ValidatedBasics == \A c : "ok" \in Validate(c) => BasicsValid(c)
  BY DEF Validate

(* Shares that pass the validation, none negative, are within the whole. *)
LEMMA SharesAreOK ==
  ASSUME NEW shares, IsFiniteSet(DOMAIN shares), \A k \in DOMAIN shares : shares[k] \in Nat,
         SharesValid(shares)
  PROVE  SharesOK(shares)
  BY SumOfPortionsIs DEF SharesValid, SharesOK, IsPortionWithin0n1

(* A configuration that was loaded from a sound file. *)
LEMMA LoadedIsOK ==
  ASSUME NEW source, SoundFile(source), Convertible(source), BasicsValid(Runtime(source))
  PROVE  ConfigOK(Runtime(source))
<1> DEFINE c == Runtime(source)
<1>1. /\ c.bonds = source.bonds /\ c.fees = source.fees
      /\ c.donations = PreprocessDonationMap(source.donations)
      /\ c.overrides = Overrides(source)
  BY DEF Runtime
<1> HIDE DEF c
<1>2. BasicsValid(c)
  BY DEF c
<1>3. c.fee \in 0..Unit /\ c.donateBonds \in 0..Unit /\ c.donateFees \in 0..Unit
  BY <1>2 DEF BasicsValid, IsPortionWithin0n1
<1>4. SharesValid(c.bonds) /\ SharesValid(c.fees) /\ SharesValid(c.donations)
  BY <1>2 DEF BasicsValid
<1>5. SharesOK(c.bonds)
  BY <1>1, <1>4, SharesAreOK DEF SoundFile
<1>6. SharesOK(c.fees)
  BY <1>1, <1>4, SharesAreOK DEF SoundFile
<1>7. SharesOK(c.donations)
  BY <1>1, <1>4, SharesAreOK, DonationsSound DEF SoundFile
<1>8. ASSUME NEW k \in DOMAIN c.overrides PROVE OverrideOK(c.overrides[k])
  <2> DEFINE own == source.overrides
  <2>1. DOMAIN c.overrides = DOMAIN own \cup Listed(source)
    BY <1>1 DEF Overrides
  <2>2. CASE k \in DOMAIN own
    <3>1. c.overrides[k] = RuntimeOverride(own[k])
      BY <1>1, <2>1, <2>2 DEF Overrides
    <3>2. /\ own[k].fee \in Int \cup {NotSet} /\ own[k].maximumBalance \in Nat \cup {NotSet}
          /\ DOMAIN own[k] = DOMAIN NoOverride
      BY <2>2 DEF SoundFile
    <3>3. /\ "fee" \in DOMAIN own[k] /\ "maximumBalance" \in DOMAIN own[k]
      BY <3>2 DEF NoOverride
    <3>4. /\ c.overrides[k].fee = own[k].fee
          /\ c.overrides[k].maximumBalance =
                IF own[k].maximumBalance = NotSet THEN NotSet
                ELSE FloatAmountToMutez(own[k].maximumBalance)
      BY <3>1, <3>3 DEF RuntimeOverride
    <3>5. \A n \in Nat : FloatAmountToMutez(n) \in Nat
      BY DEF FloatAmountToMutez
    <3> QED
      BY <3>2, <3>4, <3>5 DEF OverrideOK
  <2>3. CASE k \notin DOMAIN own
    <3> DEFINE fee == CHOOSE f \in DOMAIN source.feeOverrides : k \in source.feeOverrides[f]
    <3>1. \E f \in DOMAIN source.feeOverrides : k \in source.feeOverrides[f]
      BY <2>1, <2>3 DEF Listed
    <3>2. fee \in DOMAIN source.feeOverrides /\ k \in source.feeOverrides[fee]
      BY <3>1
    <3>3. c.overrides[k] = [NoOverride EXCEPT !.fee = fee]
      BY <1>1, <2>1, <2>3 DEF Overrides
    <3> HIDE DEF fee
    <3>4. fee \in Int
      BY <3>2 DEF SoundFile, Convertible
    <3> QED
      BY <3>3, <3>4 DEF OverrideOK, NoOverride
  <2> QED
    BY <2>2, <2>3
<1> QED
  BY <1>3, <1>5, <1>6, <1>7, <1>8 DEF ConfigOK, c

-----------------------------------------------------------------------------
(* The invariant of the stages.                                            *)

WorkStages == {"distribute", "fees", "validate", "finalize", "blueprint"}
OpenStages == {"load", "check", "collect"} \cup WorkStages

\* The configuration is used after it was loaded.
ConfigInv == stage \notin {"load", "failed"} => ConfigOK(config)

\* While a cycle is generated it is one of the period, and none is to come
\* twice.
TodoInv ==
    stage \in OpenStages =>
        /\ todo \in Seq(Int) /\ todo # <<>>
        /\ \A i \in DOMAIN todo : \E k \in DOMAIN Cycles : todo[i] = Cycles[k]
        /\ \A i, j \in DOMAIN todo : todo[i] = todo[j] => i = j

DataInv == stage \in WorkStages => data \in CycleData[Cycle]

CandidateFields == {"source", "recipient", "feeRate", "balance", "emptied", "reason",
                    "tx", "token", "amount", "fee"}

\* What is not to be sent has no amount.
TxOK(c) == c.tx \in TxKinds /\ (c.tx = "" => c.amount = 0)

CandidateOK(c) ==
    /\ DOMAIN c = CandidateFields
    /\ c.balance \in Nat /\ c.amount \in Nat /\ c.fee \in Nat
    /\ c.feeRate \in Int /\ TxOK(c)

\* A delegator has at most one candidate in tez and one in tokens.
CandidatesInv ==
    /\ IsFiniteSet(candidates)
    /\ \A c \in candidates : CandidateOK(c)
    /\ \A c, d \in candidates : c.source = d.source /\ c.tx = d.tx => c = d
    /\ stage = "distribute" => \A c \in candidates : c.amount = 0 /\ c.tx = ""
    /\ stage \in {"distribute", "fees"} => \A c \in candidates : c.fee = 0

IncomeInv ==
    /\ income.bonds \in Nat /\ income.fees \in Nat
    /\ income.donatedBonds \in Nat /\ income.donatedFees \in Nat
    /\ DOMAIN income = DOMAIN NoIncome
    /\ stage \notin WorkStages \ {"distribute"} => income = NoIncome
    /\ stage = "fees" => income.fees = 0 /\ income.donatedFees = 0

Earned == GetTotalDelegatedRewards(data)

\* What the candidates get in tez and the baker's income come from what the
\* cycle earned.
MoneyInv ==
    stage \in {"fees", "validate", "finalize"} =>
        Tez(candidates) + income.bonds + income.donatedBonds
            + income.fees + income.donatedFees <= Earned

RecipeFields == {"cycle", "kind", "tx", "token", "delegator", "recipient", "amount",
                 "fee", "txFee", "valid", "note"}

RecipeOK(r) ==
    /\ DOMAIN r = RecipeFields
    /\ r.kind \in Kinds /\ r.amount \in Nat /\ r.fee \in Nat /\ r.txFee = 0
    /\ r.valid \in BOOLEAN /\ TxOK(r)

\* The recipes of a cycle, each another payout.
RecipesOK(rs, cycle) ==
    /\ IsFiniteSet(rs)
    /\ \A r \in rs : RecipeOK(r) /\ r.cycle = cycle
    /\ \A r, q \in rs : PayoutOf(r) = PayoutOf(q) => r = q

\* What they pay in tez is within the totals of the cycle.
WithinTotals(rs, totals) ==
    LET tez == OfTxKinds(rs, {"tez"})
    IN  /\ AmountOf(OfKind(tez, "delegator reward"))
               + totals.incomeTotal + totals.donatedTotal <= totals.earnedTotal
        /\ AmountOf(OfKind(tez, "baker reward")) <= totals.bondIncome
        /\ AmountOf(OfKind(tez, "fee income")) <= totals.feeIncome
        /\ AmountOf(OfKind(tez, "donation")) <= totals.donatedTotal

RecipesInv ==
    /\ stage = "blueprint" => RecipesOK(recipes, Cycle) /\ WithinTotals(recipes, BlueprintTotals)
    /\ stage # "blueprint" => recipes = {}

TotalsOK(totals) ==
    totals.earnedTotal \in Int /\ totals.incomeTotal \in Int /\ totals.donatedTotal \in Int

BlueprintOK(b) ==
    /\ RecipesOK(b.payouts, b.cycle)
    /\ WithinTotals(b.payouts, b.totals) /\ TotalsOK(b.totals)

OfPeriod(cycle) == \E k \in DOMAIN Cycles : Cycles[k] = cycle

\* One blueprint of a cycle of the period, and none of those still to generate.
BlueprintsInv ==
    /\ IsFiniteSet(blueprints)
    /\ \A b \in blueprints : BlueprintOK(b)
    /\ \A b \in blueprints : OfPeriod(b.cycle)
    /\ \A b, c \in blueprints : b.cycle = c.cycle => b = c
    /\ stage \in OpenStages =>
          \A b \in blueprints : \A i \in DOMAIN todo : b.cycle # todo[i]

GenInv ==
    /\ ConfigInv /\ TodoInv /\ DataInv /\ CandidatesInv /\ IncomeInv /\ MoneyInv
    /\ RecipesInv /\ BlueprintsInv

-----------------------------------------------------------------------------
(* The steps keep the invariant.                                           *)

(* Any amount of tez is the amount of a transaction. *)
LEMMA TxOfTez == \A c : c.tx = "tez" => TxOK(c)
  BY DEF TxOK, TxKinds

(* So is any amount of a token. *)
LEMMA TxOfToken == \A c : c.tx = "fa2" => TxOK(c)
  BY DEF TxOK, TxKinds

(* No transaction carries no amount. *)
LEMMA TxOfNone == \A c : c.tx = "" /\ c.amount = 0 => TxOK(c)
  BY DEF TxOK, TxKinds

(* The check of a transaction looks at its kind and its amount. *)
LEMMA TxAsBefore ==
  ASSUME NEW c, NEW d, TxOK(c), d.tx = c.tx, d.amount = c.amount
  PROVE  TxOK(d)
  BY DEF TxOK


(* A cycle ends: nothing of it is left but its blueprint. *)
LEMMA EndCycleKeeps ==
  ASSUME GenInv, stage \in OpenStages, stage # "load", NEW error, NEW produced,
         IsFiniteSet(produced), \A b \in produced : BlueprintOK(b) /\ b.cycle = Cycle,
         \A b, c \in produced : b = c, EndCycle(produced, error)
  PROVE  GenInv'
<1>1. /\ stage' \in {"check", "failed", "prepare"}
      /\ stage' \in OpenStages => Len(todo) > 1
      /\ todo' = Tail(todo) /\ config' = config
      /\ candidates' = {} /\ income' = NoIncome /\ recipes' = {}
      /\ blueprints' = blueprints \cup produced
  BY DEF EndCycle, OpenStages, WorkStages
<1>2. stage' \notin WorkStages
  BY <1>1 DEF WorkStages
<1>3. ConfigInv'
  BY <1>1 DEF GenInv, ConfigInv, OpenStages, WorkStages
<1>4. /\ todo \in Seq(Int) /\ todo # <<>>
      /\ \A i \in DOMAIN todo : \E k \in DOMAIN Cycles : todo[i] = Cycles[k]
      /\ \A i, j \in DOMAIN todo : todo[i] = todo[j] => i = j
  BY DEF GenInv, TodoInv
<1>5. /\ Tail(todo) \in Seq(Int)
      /\ \A i \in DOMAIN Tail(todo) :
            i \in Nat /\ i + 1 \in DOMAIN todo /\ Tail(todo)[i] = todo[i + 1]
      /\ 1 \in DOMAIN todo /\ Head(todo) = todo[1]
      /\ Len(todo) > 1 => Tail(todo) # <<>>
      /\ \A i \in DOMAIN Tail(todo) : i + 1 # 1
  <2>1. todo \in Seq(Int) /\ Len(todo) \in Nat /\ Len(todo) > 0 /\ DOMAIN todo = 1..Len(todo)
    BY <1>4
  <2>2. Tail(todo) \in Seq(Int) /\ Len(Tail(todo)) = Len(todo) - 1
    BY <2>1
  <2>3. DOMAIN Tail(todo) = 1..(Len(todo) - 1)
    BY <2>2
  <2>4. \A i \in 1..(Len(todo) - 1) : Tail(todo)[i] = todo[i + 1]
    BY <2>1
  <2>5. Head(todo) = todo[1]
    OBVIOUS
  <2>6. Len(todo) > 1 => Tail(todo) # <<>>
    <3>1. Len(<<>>) = 0 /\ Len(todo) > 1 => Len(Tail(todo)) # 0
      BY <2>1, <2>2
    <3>2. Len(<<>>) = 0
      OBVIOUS
    <3> QED
      BY <3>1, <3>2, Zenon
  <2>7. 1 \in DOMAIN todo /\ \A i \in 1..(Len(todo) - 1) : i \in Nat /\ i + 1 \in DOMAIN todo /\ i + 1 # 1
    BY <2>1
  <2> QED
    BY <2>2, <2>3, <2>4, <2>5, <2>6, <2>7
<1>6. TodoInv'
  <2> SUFFICES ASSUME stage' \in OpenStages PROVE TodoInv!2'
    BY DEF TodoInv
  <2>1. \A i, j \in DOMAIN todo' : todo'[i] = todo'[j] => i = j
    BY <1>1, <1>4, <1>5
  <2> QED
    BY <1>1, <1>4, <1>5, <2>1
<1>7. DataInv' /\ MoneyInv' /\ RecipesInv'
  BY <1>1, <1>2 DEF DataInv, MoneyInv, RecipesInv, WorkStages
<1>8. CandidatesInv'
  BY <1>1, FS_EmptySet DEF CandidatesInv
<1>9. IncomeInv'
  BY <1>1 DEF IncomeInv, NoIncome
<1>10. BlueprintsInv'
  <2>1. BlueprintsInv
    BY DEF GenInv
  <2>2. IsFiniteSet(blueprints')
    BY <1>1, <2>1, FS_Union DEF BlueprintsInv
  <2>3. \A b \in blueprints' : BlueprintOK(b)
    BY <1>1, <2>1 DEF BlueprintsInv
  <2>7. \A b \in blueprints' : OfPeriod(b.cycle)
    <3>1. Cycle = todo[1] /\ 1 \in DOMAIN todo
      BY <1>5 DEF Cycle
    <3>2. OfPeriod(Cycle)
      BY <1>4, <3>1 DEF OfPeriod
    <3> QED
      BY <1>1, <2>1, <3>2 DEF BlueprintsInv
  <2>4. \A b \in blueprints : b.cycle # Cycle
    BY <1>5, <2>1 DEF BlueprintsInv, Cycle
  <2>5. \A b, c \in blueprints' : b.cycle = c.cycle => b = c
    BY <1>1, <2>1, <2>4 DEF BlueprintsInv
  <2>6. ASSUME NEW b \in blueprints', NEW i \in DOMAIN todo' PROVE b.cycle # todo'[i]
    <3>1. todo'[i] = todo[i + 1] /\ i + 1 \in DOMAIN todo /\ i + 1 # 1
      BY <1>1, <1>5
    <3>2. CASE b \in blueprints
      BY <2>1, <3>1, <3>2 DEF BlueprintsInv
    <3>3. CASE b \in produced
      <4>1. b.cycle = todo[1]
        BY <1>5, <3>3 DEF Cycle
      <4> QED
        BY <1>4, <1>5, <3>1, <4>1
    <3> QED
      BY <1>1, <3>2, <3>3
  <2> QED
    BY <1>1, <2>2, <2>3, <2>5, <2>6, <2>7 DEF BlueprintsInv, OfPeriod
<1> QED
  BY <1>3, <1>6, <1>7, <1>8, <1>9, <1>10 DEF GenInv

(* A stage that goes on to the next one keeps what it leaves alone. *)
LEMMA ContinueKeeps ==
  ASSUME GenInv, stage \in OpenStages, stage # "load", NEW next \in OpenStages,
         next # "load", Continue(next)
  PROVE  ConfigInv' /\ TodoInv' /\ BlueprintsInv'
<1>1. UNCHANGED <<config, todo, blueprints>> /\ stage' = next
  BY DEF Continue
<1>2. ConfigInv'
  BY <1>1 DEF GenInv, ConfigInv, OpenStages, WorkStages
<1>3. TodoInv'
  BY <1>1 DEF GenInv, TodoInv
<1>4. BlueprintsInv'
  BY <1>1 DEF GenInv, BlueprintsInv
<1> QED
  BY <1>2, <1>3, <1>4

(* Loading and validating the configuration (base.go, validate.go). *)
LEMMA LoadKeeps == ASSUME SoundSources, GenInv, LoadConfiguration PROVE GenInv'
<1>1. /\ stage = "load" /\ stage' \in {"check", "failed"}
      /\ UNCHANGED <<todo, data, candidates, income, recipes, blueprints>>
  BY DEF LoadConfiguration, stageData
<1>2. ConfigInv'
  <2>1. CASE stage' = "failed"
    BY <2>1 DEF ConfigInv
  <2>2. CASE stage' = "check"
    <3>1. PICK source \in Sources :
             /\ Convertible(source) /\ "ok" \in Validate(Runtime(source))
             /\ config' = Runtime(source)
      BY <2>2 DEF LoadConfiguration
    <3>2. SoundFile(source) /\ BasicsValid(Runtime(source))
      BY <3>1, ValidatedBasics DEF SoundSources
    <3>3. ConfigOK(config')
      BY <3>1, <3>2, LoadedIsOK
    <3> QED
      BY <3>3 DEF ConfigInv
  <2> QED
    BY <1>1, <2>1, <2>2
<1>3. TodoInv' /\ BlueprintsInv'
  BY <1>1 DEF GenInv, TodoInv, BlueprintsInv, OpenStages
<1>4. DataInv' /\ MoneyInv' /\ RecipesInv' /\ CandidatesInv' /\ IncomeInv'
  BY <1>1 DEF GenInv, DataInv, MoneyInv, RecipesInv, CandidatesInv, IncomeInv, WorkStages
<1> QED
  BY <1>2, <1>3, <1>4 DEF GenInv

(* The kill switch and the start of a cycle (0_CheckConditionsAndPrepare.go). *)
LEMMA CheckKeeps == ASSUME GenInv, CheckConditionsAndPrepare PROVE GenInv'
<1>1. stage = "check"
  BY DEF CheckConditionsAndPrepare
<1>2. CASE EndCycle({}, TRUE)
  BY <1>1, <1>2, EndCycleKeeps, FS_EmptySet DEF OpenStages
<1>3. CASE Continue("collect") /\ UNCHANGED stageData
  <2>1. ConfigInv' /\ TodoInv' /\ BlueprintsInv'
    BY <1>1, <1>3, ContinueKeeps DEF OpenStages
  <2>2. stage' = "collect" /\ UNCHANGED <<data, candidates, income, recipes>>
    BY <1>3 DEF Continue, stageData
  <2>3. DataInv' /\ MoneyInv' /\ RecipesInv' /\ CandidatesInv' /\ IncomeInv'
    BY <1>1, <2>2 DEF GenInv, DataInv, MoneyInv, RecipesInv, CandidatesInv, IncomeInv, WorkStages
  <2> QED
    BY <2>1, <2>3 DEF GenInv
<1> QED
  BY <1>2, <1>3 DEF CheckConditionsAndPrepare

(* An error in a cycle. *)
LEMMA FailsKeeps == ASSUME GenInv, GenerationFails PROVE GenInv'
<1>1. stage \in OpenStages /\ stage # "load" /\ EndCycle({}, TRUE)
  BY DEF GenerationFails, StageFails, OpenStages, WorkStages
<1> QED
  BY <1>1, EndCycleKeeps, FS_EmptySet

(* A panic while the bonds are distributed. *)
LEMMA PanicsKeeps == ASSUME GenInv, stage = "distribute", Panics PROVE GenInv'
<1>1. stage' = "panicked" /\ UNCHANGED <<config, todo, data, candidates, income, recipes, blueprints>>
  BY DEF Panics, stageData
<1> QED
  BY <1>1 DEF GenInv, ConfigInv, TodoInv, DataInv, CandidatesInv, IncomeInv, MoneyInv,
     RecipesInv, BlueprintsInv, OpenStages, WorkStages

-----------------------------------------------------------------------------
(* The data of a cycle and its candidates.                                 *)

DataOK(d) ==
    /\ d.ownStaked \in Nat /\ d.ownDelegated \in Nat
    /\ d.actual \in Nat /\ d.ideal \in Nat /\ d.blockFees \in Nat
    /\ IsFiniteSet(d.delegators)
    /\ \A x, y \in d.delegators : x.balance \in Nat /\ (x.address = y.address => x = y)

(* What the collector knows of the cycle in work. *)
LEMMA DataSound ==
  ASSUME TodoInv, stage \in OpenStages, NEW d \in CycleData[Cycle]
  PROVE  DataOK(d)
<1>1. todo \in Seq(Int) /\ todo # <<>> /\ \A i \in DOMAIN todo : \E k \in DOMAIN Cycles : todo[i] = Cycles[k]
  BY DEF TodoInv
<1>2. 1 \in DOMAIN todo /\ Cycle = todo[1]
  BY <1>1 DEF Cycle
<1>3. PICK k \in DOMAIN Cycles : Cycle = Cycles[k]
  BY <1>1, <1>2
<1>4. /\ {d.ownStaked, d.ownDelegated, d.actual, d.ideal, d.blockFees} \subseteq Nat
      /\ IsFiniteSet(d.delegators)
      /\ \A x, y \in d.delegators : x.balance \in Nat /\ (x.address = y.address => x = y)
  BY <1>3, DataAssumption
<1> QED
  BY <1>4 DEF DataOK

(* A cycle earns no negative amount. *)
LEMMA EarnedNat == ASSUME DataOK(data) PROVE Earned \in Nat
  BY DEF DataOK, Earned, GetTotalDelegatedRewards

(* A delegator becomes a candidate without an amount. *)
LEMMA CandidateMade ==
  ASSUME ConfigOK(config), NEW x, x.balance \in Nat
  PROVE  LET c == ValidateCandidate(DelegatorToPayoutCandidate(x))
         IN  CandidateOK(c) /\ c.source = x.address /\ c.amount = 0 /\ c.fee = 0 /\ c.tx = ""
<1> DEFINE o == OverrideOf(x.address)
           b == DelegatorToPayoutCandidate(x)
           c == ValidateCandidate(b)
<1>1. OverrideOK(o)
  BY DEF OverrideOf, ConfigOK, OverrideOK, NoOverride
<1>2. config.fee \in Int
  <2>1. config.fee \in 0..Unit
    BY DEF ConfigOK
  <2> QED
    BY <2>1
<1>3. /\ DOMAIN b = CandidateFields
      /\ b.source = x.address /\ b.amount = 0 /\ b.fee = 0 /\ b.tx = ""
      /\ b.feeRate = IF o.fee = NotSet THEN config.fee ELSE o.fee
      /\ b.balance = IF o.maximumBalance = NotSet THEN x.balance
                     ELSE Smaller(x.balance, o.maximumBalance)
  BY DEF DelegatorToPayoutCandidate, CandidateFields
<1> HIDE DEF o, b
<1>4. b.feeRate \in Int /\ b.balance \in Nat
  BY <1>1, <1>2, <1>3 DEF OverrideOK, Smaller
<1>5. /\ DOMAIN c = DOMAIN b
      /\ c.source = b.source /\ c.amount = b.amount /\ c.fee = b.fee /\ c.tx = b.tx
      /\ c.feeRate = b.feeRate /\ c.balance = b.balance
  <2> DEFINE reason == c.reason
  <2>1. \E r : c = [b EXCEPT !.reason = r]
    BY DEF ValidateCandidate
  <2> QED
    BY <2>1, <1>3 DEF CandidateFields
<1> HIDE DEF c
<1>6. CandidateOK(c) /\ c.source = x.address /\ c.amount = 0 /\ c.fee = 0 /\ c.tx = ""
  <2>1. DOMAIN c = CandidateFields /\ c.source = x.address /\ c.amount = 0 /\ c.fee = 0 /\ c.tx = ""
    BY <1>3, <1>5, Zenon
  <2>2. c.feeRate \in Int /\ c.balance \in Nat
    BY <1>4, <1>5, Zenon
  <2>3. c.amount \in Nat /\ c.fee \in Nat
    <3>1. 0 \in Nat
      OBVIOUS
    <3> QED
      BY <2>1, <3>1, Zenon
  <2>4. TxOK(c)
    BY <2>1, TxOfNone, Zenon
  <2> QED
    BY <2>1, <2>2, <2>3, <2>4, Zenon DEF CandidateOK
<1> QED
  BY <1>6 DEF b, c

(* Generating the candidates (0_PayoutCandidates.go). *)
LEMMA CandidatesKeep == ASSUME GenInv, GeneratePayoutCandidates PROVE GenInv'
<1>1. stage = "collect"
  BY DEF GeneratePayoutCandidates
<1>2. CASE EndCycle({}, FALSE)
  BY <1>1, <1>2, EndCycleKeeps, FS_EmptySet DEF OpenStages
<1>3. ASSUME NEW d \in CycleData[Cycle], data' = d,
             candidates' = {ValidateCandidate(DelegatorToPayoutCandidate(x)) : x \in d.delegators},
             Continue("distribute"), UNCHANGED <<income, recipes>>
      PROVE  GenInv'
  <2>1. ConfigInv' /\ TodoInv' /\ BlueprintsInv'
    BY <1>1, <1>3, ContinueKeeps DEF OpenStages, WorkStages
  <2>2. stage' = "distribute" /\ todo' = todo
    BY <1>3 DEF Continue
  <2>3. DataOK(d) /\ ConfigOK(config)
    BY <1>1, DataSound DEF GenInv, OpenStages, ConfigInv
  <2>4. DataInv' /\ MoneyInv'
    BY <1>3, <2>2 DEF DataInv, MoneyInv, Cycle
  <2>5. income' = income /\ recipes' = recipes /\ IncomeInv /\ RecipesInv
    BY <1>3 DEF GenInv
  <2>6. RecipesInv'
    BY <1>1, <2>2, <2>5 DEF RecipesInv
  <2>7. CandidatesInv'
    <3> DEFINE h == [x \in d.delegators |-> ValidateCandidate(DelegatorToPayoutCandidate(x))]
    <3>1. candidates' = {h[x] : x \in d.delegators}
      BY <1>3
    <3>2. \A x \in d.delegators :
             /\ CandidateOK(h[x]) /\ h[x].source = x.address
             /\ h[x].amount = 0 /\ h[x].fee = 0 /\ h[x].tx = ""
      BY <2>3, CandidateMade DEF DataOK
    <3> HIDE DEF h
    <3>3. IsFiniteSet(candidates')
      BY <2>3, <3>1, FiniteImage DEF DataOK
    <3>4. \A c \in candidates' : CandidateOK(c) /\ c.amount = 0 /\ c.fee = 0 /\ c.tx = ""
      BY <3>1, <3>2
    <3>5. \A c, e \in candidates' : c.source = e.source => c = e
      <4>1. \A x, y \in d.delegators : h[x].source = h[y].source => x = y
        BY <2>3, <3>2 DEF DataOK
      <4>2. SUFFICES ASSUME NEW c \in candidates', NEW e \in candidates', c.source = e.source
                     PROVE  c = e
        OBVIOUS
      <4>3. PICK x \in d.delegators : c = h[x]
        BY <3>1
      <4>4. PICK y \in d.delegators : e = h[y]
        BY <3>1
      <4> QED
        BY <4>1, <4>2, <4>3, <4>4
    <3> QED
      BY <3>3, <3>4, <3>5 DEF CandidatesInv
  <2>8. IncomeInv'
    BY <1>1, <2>2, <2>5 DEF IncomeInv, WorkStages
  <2> QED
    BY <2>1, <2>4, <2>6, <2>7, <2>8 DEF GenInv
<1> QED
  BY <1>2, <1>3 DEF GeneratePayoutCandidates

-----------------------------------------------------------------------------
(* Bonds.                                                                  *)

\* A candidate with its bonds, and one whose fee was not taken.
Bonded(c) == CandidateOK(c) /\ c.fee = 0 /\ c.tx \in {"", "tez"}
FeeUntaken(c) == CandidateOK(c) /\ c.fee = 0

(* The balance the bonds are divided by, as a sum of a function. *)
LEMMA TotalBalanceIs ==
  \A cs : TotalBalance(cs) = SumFunctionOnSet([c \in cs |-> c.balance], cs)
  BY Zenon DEF TotalBalance, Total

(* The baker's bonds are a part of what the cycle earned. *)
LEMMA BondsWithin ==
  ASSUME DataOK(data), NEW delegated \in Nat,
         Bounded(delegated + data.ownDelegated) # 0
  PROVE  GetBakerBondsAmount(delegated) \in Nat /\ GetBakerBondsAmount(delegated) <= Earned
<1> DEFINE x == Bounded(data.ownDelegated)
           y == Bounded(delegated + data.ownDelegated)
           p == Earned * x
<1>0. \A n \in Nat : n * DelegationCapacityFactor \in Nat
  BY DEF DelegationCapacityFactor
<1>1. data.ownDelegated \in Nat /\ data.ownStaked * DelegationCapacityFactor \in Nat
  BY <1>0 DEF DataOK
<1>2. x \in Nat /\ y \in Nat /\ x <= y /\ y > 0
  BY <1>1 DEF Bounded, Smaller
<1>3. Earned \in Nat
  BY EarnedNat
<1> HIDE DEF x, y
<1>4. p \in Nat /\ p <= Earned * y
  BY <1>2, <1>3
<1> HIDE DEF p
<1>5. p \div y \in Nat /\ p \div y <= Earned
  <2>1. \A a, b, e \in Nat : b > 0 /\ a <= e * b => a \div b \in Nat /\ a \div b <= e
    OBVIOUS
  <2> QED
    BY <1>2, <1>3, <1>4, <2>1
<1>6. GetBakerBondsAmount(delegated) = p \div y
  BY DEF GetBakerBondsAmount, Earned, p, x, y
<1> QED
  BY <1>5, <1>6

Eligible == {c \in candidates : IsEligible(c)}
EligibleBalance == TotalBalance(Eligible)
WithTheirBonds(available) == {WithBonds(c, available, EligibleBalance) : c \in candidates}

(* The bonds of the eligible are shares of what the baker leaves. *)
LEMMA BondsShared ==
  ASSUME CandidatesInv, stage = "distribute", NEW available \in Nat,
         Eligible # {} => EligibleBalance # 0
  PROVE  LET made == WithTheirBonds(available)
         IN  /\ IsFiniteSet(made)
             /\ \A c \in made : Bonded(c)
             /\ \A c, d \in made : c.source = d.source => c = d
             /\ Tez(made) \in Nat
             /\ Tez(made) <= available
<1> DEFINE eligible == Eligible
           total == EligibleBalance
           made == WithTheirBonds(available)
           W == [c \in eligible |-> c.balance]
           F == [c \in candidates |->
                    IF IsEligible(c) THEN (available * c.balance) \div total ELSE 0]
           h == [c \in candidates |-> WithBonds(c, available, total)]
           G == [y \in made |-> IF y.tx = "tez" THEN y.amount ELSE 0]
<1>1. /\ IsFiniteSet(candidates)
      /\ \A c \in candidates : CandidateOK(c) /\ c.amount = 0 /\ c.tx = "" /\ c.fee = 0
      /\ \A c, d \in candidates : c.source = d.source => c = d
  BY DEF CandidatesInv
<1>2. eligible \in SUBSET candidates /\ IsFiniteSet(eligible)
  BY <1>1, FS_Subset DEF Eligible
<1>3. \A c \in eligible : W[c] \in Nat /\ W[c] = c.balance
  BY <1>1, <1>2 DEF CandidateOK
<1>4. total = SumFunctionOnSet(W, eligible)
  BY TotalBalanceIs DEF EligibleBalance
<1>5. \A c \in eligible : F[c] = (available * W[c]) \div total
  BY <1>2 DEF Eligible
<1>6. \A c \in candidates \ eligible : F[c] = 0
  BY DEF Eligible
<1>7. total \in Nat
  <2> HIDE DEF W
  <2> QED
    BY <1>2, <1>3, <1>4, SumNat
<1>8. (\A c \in eligible : F[c] \in Nat) /\ SumFunctionOnSet(F, eligible) <= available
  <2> HIDE DEF F, W
  <2>1. CASE eligible = {}
    BY <2>1, SumEmpty
  <2>2. CASE eligible # {}
    <3> DEFINE sum == SumFunctionOnSet(F, eligible)
    <3>1. total > 0
      BY <1>7, <2>2
    <3>2. (\A c \in eligible : F[c] \in Nat) /\ total * sum <= available * total
      <4>1. \A c \in eligible : W[c] \in Nat /\ F[c] = (available * W[c]) \div total
        BY <1>3, <1>5, Zenon
      <4>2. /\ \A c \in eligible : F[c] \in Nat
            /\ total * sum <= available * SumFunctionOnSet(W, eligible)
        BY <1>2, <1>7, <3>1, <4>1, SumShare
      <4> QED
        BY <1>4, <4>2
    <3>3. sum \in Nat
      BY <1>2, <3>2, SumNat
    <3> HIDE DEF sum
    <3>4. \A a, b, c \in Nat : c > 0 /\ c * a <= b * c => a <= b
      OBVIOUS
    <3>5. sum <= available
      BY <1>7, <3>1, <3>2, <3>3, <3>4
    <3> QED
      BY <3>2, <3>5 DEF sum
  <2> QED
    BY <2>1, <2>2
<1>9. (\A c \in candidates : F[c] \in Nat) /\ SumFunctionOnSet(F, candidates) <= available
  <2> HIDE DEF F
  <2>1. \A c \in candidates : F[c] \in Nat
    BY <1>2, <1>6, <1>8
  <2>2. SumFunctionOnSet(F, candidates) = SumFunctionOnSet(F, eligible)
    <3>1. \A c \in candidates : F[c] \in Int
      BY <2>1
    <3> QED
      BY <1>1, <1>2, <1>6, <3>1, SumRest
  <2> QED
    BY <1>8, <2>1, <2>2
<1>10. made = {h[c] : c \in candidates}
  BY DEF WithTheirBonds
<1>11. \A c \in candidates :
          /\ DOMAIN h[c] = CandidateFields
          /\ h[c].source = c.source /\ h[c].balance = c.balance /\ h[c].feeRate = c.feeRate
          /\ h[c].fee = 0 /\ h[c].tx = (IF IsEligible(c) THEN "tez" ELSE "")
          /\ h[c].amount = F[c]
  <2> SUFFICES ASSUME NEW c \in candidates
               PROVE  /\ DOMAIN h[c] = CandidateFields
                      /\ h[c].source = c.source /\ h[c].balance = c.balance
                      /\ h[c].feeRate = c.feeRate
                      /\ h[c].fee = 0 /\ h[c].tx = (IF IsEligible(c) THEN "tez" ELSE "")
                      /\ h[c].amount = F[c]
    OBVIOUS
  <2>1. DOMAIN c = CandidateFields /\ c.amount = 0 /\ c.tx = "" /\ c.fee = 0
    BY <1>1 DEF CandidateOK
  <2>2. h[c] = WithBonds(c, available, total)
    OBVIOUS
  <2>3. CASE IsEligible(c)
    <3>1. h[c] = [c EXCEPT !.amount = (available * c.balance) \div total, !.tx = "tez"]
      BY <2>2, <2>3 DEF WithBonds
    <3>2. F[c] = (available * c.balance) \div total
      BY <2>3
    <3> HIDE DEF h, F
    <3> QED
      BY <2>1, <2>3, <3>1, <3>2 DEF CandidateFields
  <2>4. CASE ~IsEligible(c)
    <3>1. h[c] = c /\ F[c] = 0
      BY <2>2, <2>4 DEF WithBonds
    <3> HIDE DEF h, F
    <3> QED
      BY <2>1, <2>4, <3>1
  <2> QED
    BY <2>3, <2>4
<1>12. \A c \in candidates : CandidateOK(h[c]) /\ h[c].fee = 0 /\ h[c].tx \in {"", "tez"}
  <2> HIDE DEF h, F
  <2> SUFFICES ASSUME NEW c \in candidates
               PROVE  CandidateOK(h[c]) /\ h[c].fee = 0 /\ h[c].tx \in {"", "tez"}
    OBVIOUS
  <2>1. /\ DOMAIN h[c] = CandidateFields /\ h[c].fee = 0 /\ h[c].amount \in Nat
        /\ h[c].tx \in {"", "tez"}
    BY <1>9, <1>11
  <2>2. h[c].balance \in Nat /\ h[c].feeRate \in Int
    BY <1>1, <1>11 DEF CandidateOK
  <2>4. IsEligible(c) => TxOK(h[c])
    BY <1>11, TxOfTez, Zenon
  <2>5. ~IsEligible(c) => TxOK(h[c])
    <3>1. ~IsEligible(c) => F[c] = 0
      BY DEF F
    <3> QED
      BY <1>11, <3>1, TxOfNone, Zenon
  <2>6. 0 \in Nat
    OBVIOUS
  <2>3. TxOK(h[c]) /\ 0 \in Nat
    BY <2>4, <2>5, <2>6, Zenon
  <2> QED
    BY <2>1, <2>2, <2>3, Zenon DEF CandidateOK
<1> HIDE DEF h, made
<1>13. /\ IsFiniteSet(made)
       /\ \A c \in made : Bonded(c)
  <2>1. IsFiniteSet({h[c] : c \in candidates})
    BY <1>1, FiniteImage
  <2>2. \A c \in made : Bonded(c)
    BY <1>10, <1>12, Zenon DEF Bonded
  <2> QED
    BY <1>10, <2>1, <2>2, Zenon
<1>14. ASSUME NEW c \in made, NEW d \in made, c.source = d.source PROVE c = d
  <2>1. PICK x \in candidates : c = h[x]
    BY <1>10
  <2>2. PICK y \in candidates : d = h[y]
    BY <1>10
  <2>3. x.source = y.source
    BY <1>11, <1>14, <2>1, <2>2
  <2>4. x = y
    BY <1>1, <2>3
  <2> QED
    BY <2>1, <2>2, <2>4
<1>15. \A c \in candidates : F[c] \in Nat /\ G[h[c]] \in Nat /\ G[h[c]] <= F[c]
  <2> SUFFICES ASSUME NEW c \in candidates
               PROVE  F[c] \in Nat /\ G[h[c]] \in Nat /\ G[h[c]] <= F[c]
    OBVIOUS
  <2>1. h[c] \in made
    BY <1>10
  <2>2. G[h[c]] = IF h[c].tx = "tez" THEN h[c].amount ELSE 0
    BY <2>1
  <2>3. h[c].amount = F[c] /\ F[c] \in Nat
    BY <1>9, <1>11
  <2> HIDE DEF F, G
  <2> QED
    BY <2>2, <2>3
<1>16. Tez(made) = SumFunctionOnSet(G, made)
       /\ Tez(made) \in Nat
  BY <1>13, TezIs DEF Bonded, CandidateOK
<1> HIDE DEF F, G
<1>17. /\ IsFiniteSet({h[c] : c \in candidates})
       /\ SumFunctionOnSet(G, {h[c] : c \in candidates}) <= SumFunctionOnSet(F, candidates)
  <2>1. IsFiniteSet(candidates)
    BY <1>1
  <2> QED
    BY <1>15, <2>1, SumImageLeq
<1>18. SumFunctionOnSet(G, made) <= SumFunctionOnSet(F, candidates)
  BY <1>10, <1>17, Zenon
<1>19. SumFunctionOnSet(F, candidates) \in Nat
  BY <1>1, <1>9, SumNat
<1>20. Tez(made) <= available
  BY <1>9, <1>16, <1>18, <1>19
<1> QED
  BY <1>13, <1>14, <1>16, <1>20, Zenon DEF made

(* Tokens instead of rewards, or next to them, leave what is paid in tez. *)
LEMMA TokensKeep ==
  ASSUME NEW cs, IsFiniteSet(cs),
         \A c \in cs : Bonded(c),
         \A c, d \in cs : c.source = d.source => c = d
  PROVE  LET after == AfterBondsDistributed(cs)
         IN  /\ IsFiniteSet(after)
             /\ \A c \in after : FeeUntaken(c)
             /\ \A c, d \in after : c.source = d.source /\ c.tx = d.tx => c = d
             /\ Tez(after) \in Nat
             /\ Tez(after) <= Tez(cs)
<1> DEFINE some == {x \in cs : x.amount \div TokenPrice >= Larger(1, MinimumToken)}
           h == [c \in some |-> [c EXCEPT !.amount = @ \div TokenPrice, !.tx = "fa2",
                                          !.token = Token]]
           tokens == TokenRewards(cs)
           after == AfterBondsDistributed(cs)
<1>1. tokens = {h[c] : c \in some}
  BY DEF TokenRewards
<1>2. some \in SUBSET cs /\ IsFiniteSet(some)
  BY FS_Subset
<1>3. \A n \in Nat : n \div TokenPrice \in Nat
  BY TokenAssumption, DivNat
<1>4. ASSUME NEW c \in some
      PROVE  /\ CandidateOK(h[c]) /\ h[c].fee = 0 /\ h[c].tx = "fa2" /\ h[c].source = c.source
  <2>1. CandidateOK(c) /\ c.fee = 0
    BY <1>2 DEF Bonded
  <2>2. /\ DOMAIN h[c] = DOMAIN c /\ h[c].tx = "fa2" /\ h[c].amount = c.amount \div TokenPrice
        /\ h[c].source = c.source /\ h[c].balance = c.balance /\ h[c].fee = c.fee
        /\ h[c].feeRate = c.feeRate
    BY <2>1 DEF CandidateOK, CandidateFields
  <2> HIDE DEF h
  <2>3. h[c].amount \in Nat
    BY <1>3, <2>1, <2>2 DEF CandidateOK
  <2>4. TxOK(h[c])
    BY <2>2, TxOfToken, Zenon
  <2> QED
    BY <2>1, <2>2, <2>3, <2>4, Zenon DEF CandidateOK
<1> HIDE DEF h, some, tokens
<1>5. IsFiniteSet({h[c] : c \in some})
  BY <1>2, FiniteImage
<1>6. \A c \in tokens : CandidateOK(c) /\ c.fee = 0 /\ c.tx = "fa2"
  <2> SUFFICES ASSUME NEW c \in tokens PROVE CandidateOK(c) /\ c.fee = 0 /\ c.tx = "fa2"
    OBVIOUS
  <2>1. PICK x \in some : c = h[x]
    BY <1>1
  <2> QED
    BY <1>4, <2>1
<1>7. \A c, d \in tokens : c.source = d.source => c = d
  <2> SUFFICES ASSUME NEW c \in tokens, NEW d \in tokens, c.source = d.source PROVE c = d
    OBVIOUS
  <2>1. PICK x \in some : c = h[x]
    BY <1>1
  <2>2. PICK y \in some : d = h[y]
    BY <1>1
  <2>3. x.source = y.source
    BY <1>4, <2>1, <2>2
  <2>4. x = y
    BY <1>2, <2>3
  <2> QED
    BY <2>1, <2>2, <2>4
<1>8. IsFiniteSet(tokens) /\ IsFiniteSet(cs \cup tokens)
  BY <1>1, <1>5, FS_Union
<1>9. OfTxKinds(tokens, {"tez"}) = {} /\ OfTxKinds(cs \cup tokens, {"tez"}) = OfTxKinds(cs, {"tez"})
  BY <1>6 DEF OfTxKinds
<1>10. AmountOf({}) = 0
  BY AmountIs, SumEmpty, Zenon
<1>11. Tez(cs) \in Nat
  BY TezIs DEF Bonded, CandidateOK
<1>12. after \in {cs \cup tokens, tokens, cs}
  BY DEF AfterBondsDistributed, tokens
<1> HIDE DEF after
<1>13. IsFiniteSet(after)
  BY <1>8, <1>12
<1>14. \A c \in after : FeeUntaken(c)
  BY <1>6, <1>12 DEF Bonded, FeeUntaken
<1>15. \A c, d \in after : c.source = d.source /\ c.tx = d.tx => c = d
  <2>1. \A c \in cs : c.tx # "fa2"
    BY DEF Bonded
  <2> QED
    BY <1>6, <1>7, <1>12, <2>1
<1>16. Tez(after) \in {0, Tez(cs)}
  BY <1>9, <1>10, <1>12, Zenon DEF Tez
<1>17. /\ Tez(after) \in Nat
       /\ Tez(after) <= Tez(cs)
  <2> DEFINE a == Tez(after)
             b == Tez(cs)
  <2>1. b \in Nat /\ (a = 0 \/ a = b)
    BY <1>11, <1>16
  <2> HIDE DEF a, b
  <2>2. a \in Nat /\ a <= b
    BY <2>1
  <2> QED
    BY <2>2 DEF a, b
<1> QED
  BY <1>13, <1>14, <1>15, <1>17 DEF after

(* Distributing the bonds, whatever is capped or overdelegated. *)
LEMMA DistributeKeeps == ASSUME GenInv, DistributeBonds PROVE GenInv'
<1> DEFINE eligible == Eligible
           total == EligibleBalance
           bonds == GetBakerBondsAmount(total)
           donated == GetZPortion(bonds, config.donateBonds)
           made == WithTheirBonds(Earned - bonds)
<1>1. stage = "distribute"
  BY DEF DistributeBonds
<1>2. CASE Panics
  BY <1>1, <1>2, PanicsKeeps
<1>3. CASE /\ ~Undivided(eligible)
           /\ candidates' = AfterBondsDistributed(made)
           /\ income' = [income EXCEPT !.bonds = bonds - donated, !.donatedBonds = donated]
           /\ Continue("fees")
           /\ UNCHANGED <<data, recipes>>
  <2>1. ConfigInv' /\ TodoInv' /\ BlueprintsInv'
    BY <1>1, <1>3, ContinueKeeps DEF OpenStages, WorkStages
  <2>2. stage' = "fees" /\ todo' = todo /\ data' = data /\ recipes' = recipes
    BY <1>3 DEF Continue
  <2>3. data \in CycleData[Cycle] /\ DataOK(data) /\ CandidatesInv /\ income = NoIncome
        /\ recipes = {} /\ config.donateBonds \in 0..Unit
    <3>1. data \in CycleData[Cycle]
      BY <1>1 DEF GenInv, DataInv, WorkStages
    <3>2. DataOK(data)
      BY <1>1, <3>1, DataSound DEF GenInv, OpenStages, WorkStages
    <3>3. CandidatesInv /\ income = NoIncome /\ recipes = {}
      BY <1>1 DEF GenInv, IncomeInv, RecipesInv, WorkStages
    <3>4. ConfigOK(config)
      BY <1>1 DEF GenInv, ConfigInv
    <3> QED
      BY <3>1, <3>2, <3>3, <3>4 DEF ConfigOK
  <2>4. Earned \in Nat
    BY <2>3, EarnedNat
  <2>5. total \in Nat
    <3> DEFINE W == [c \in eligible |-> c.balance]
    <3>1. IsFiniteSet(eligible) /\ \A c \in eligible : W[c] \in Nat
      BY <2>3, FS_Subset DEF CandidatesInv, CandidateOK, Eligible
    <3>2. total = SumFunctionOnSet(W, eligible)
      BY TotalBalanceIs DEF EligibleBalance
    <3> HIDE DEF eligible, W
    <3> QED
      BY <3>1, <3>2, SumNat
  <2>6. (eligible # {} => total # 0) /\ Bounded(total + data.ownDelegated) # 0
    BY <1>3 DEF Undivided, EligibleBalance
  <2> HIDE DEF total
  <2>7. bonds \in Nat /\ bonds <= Earned
    BY <2>3, <2>5, <2>6, BondsWithin
  <2> HIDE DEF bonds
  <2>8. donated \in Nat /\ donated <= bonds
    <3>1. config.donateBonds \in Int
      BY <2>3
    <3> QED
      BY <2>7, <3>1, PortionBounds, Zenon
  <2> HIDE DEF donated
  <2>9. /\ IsFiniteSet(made)
        /\ \A c \in made : Bonded(c)
        /\ \A c, d \in made : c.source = d.source => c = d
        /\ Tez(made) \in Nat
        /\ Tez(made) <= Earned - bonds
    <3>1. Earned - bonds \in Nat
      BY <2>4, <2>7
    <3>2. CandidatesInv
      BY <2>3
    <3> QED
      BY <1>1, <2>6, <3>1, <3>2, BondsShared DEF total
  <2> HIDE DEF made
  <2>10. /\ IsFiniteSet(candidates')
         /\ \A c \in candidates' : FeeUntaken(c)
         /\ \A c, d \in candidates' : c.source = d.source /\ c.tx = d.tx => c = d
         /\ Tez(candidates') \in Nat
         /\ Tez(candidates') <= Tez(made)
    BY <1>3, <2>9, TokensKeep
  <2>11. CandidatesInv'
    BY <2>2, <2>10 DEF CandidatesInv, FeeUntaken
  <2>12. /\ income'.bonds = bonds - donated /\ income'.donatedBonds = donated
         /\ income'.fees = 0 /\ income'.donatedFees = 0 /\ DOMAIN income' = DOMAIN NoIncome
    BY <1>3, <2>3 DEF NoIncome
  <2>13. IncomeInv'
    BY <2>2, <2>7, <2>8, <2>12 DEF IncomeInv, WorkStages
  <2>14. Earned' = Earned
    BY <2>2, <1>3 DEF Earned, GetTotalDelegatedRewards, Continue
  <2>15. MoneyInv'
    <3> DEFINE tez == Tez(candidates')
               before == Tez(made)
    <3>1. tez \in Nat /\ before \in Nat /\ tez <= before /\ before <= Earned - bonds
      BY <2>9, <2>10
    <3> HIDE DEF tez, before
    <3>2. tez + income'.bonds + income'.donatedBonds + income'.fees + income'.donatedFees <= Earned
      BY <2>4, <2>7, <2>8, <2>12, <3>1
    <3> QED
      BY <2>14, <3>2 DEF MoneyInv, tez
  <2>16. DataInv' /\ RecipesInv'
    BY <2>2, <2>3 DEF DataInv, RecipesInv, Cycle
  <2> QED
    BY <2>1, <2>11, <2>13, <2>15, <2>16 DEF GenInv
<1> QED
  BY <1>2, <1>3 DEF DistributeBonds, Earned, Eligible, EligibleBalance, WithTheirBonds

-----------------------------------------------------------------------------
(* Fees.                                                                   *)

Collected(cs) == LET Fee(c) == c.fee IN Total(Fee, cs)

(* The fees of the baker, as a sum of a function. *)
LEMMA CollectedIs == \A cs : Collected(cs) = SumFunctionOnSet([c \in cs |-> c.fee], cs)
  BY Zenon DEF Collected, Total

(* What is taken from a candidate as the baker's fee is not lost. *)
LEMMA FeeTaken ==
  ASSUME NEW c, FeeUntaken(c)
  PROVE  /\ CandidateOK(TakeFee(c)) /\ TakeFee(c).source = c.source /\ TakeFee(c).tx = c.tx
         /\ c.tx = "tez" => TakeFee(c).amount + TakeFee(c).fee = c.amount
         /\ c.tx # "tez" => TakeFee(c).fee = 0
<1> DEFINE fee == GetZPortion(c.amount, c.feeRate)
           t == TakeFee(c)
<1>1. CandidateOK(c) /\ c.fee = 0
  BY DEF FeeUntaken
<1>2. CASE c.tx # "tez"
  BY <1>1, <1>2 DEF TakeFee
<1>3. CASE c.tx = "tez"
  <2>1. \E r : t = [c EXCEPT !.fee = fee, !.amount = @ - fee, !.reason = r]
    BY <1>3, Zenon DEF TakeFee
  <2>2. /\ DOMAIN c = CandidateFields /\ c.balance \in Nat /\ c.amount \in Nat
        /\ c.feeRate \in Int
    BY <1>1 DEF CandidateOK
  <2>3. fee \in Nat /\ fee <= c.amount
    BY <2>2, PortionBounds
  <2> HIDE DEF fee, t
  <2>4. /\ DOMAIN t = CandidateFields /\ t.fee = fee /\ t.amount = c.amount - fee
        /\ t.source = c.source /\ t.tx = c.tx /\ t.balance = c.balance
        /\ t.feeRate = c.feeRate
    BY <2>1, <2>2 DEF CandidateFields
  <2>5. t.amount \in Nat /\ t.amount + t.fee = c.amount
    BY <2>2, <2>3, <2>4
  <2>6. TxOK(t)
    BY <1>3, <2>4, TxOfTez, Zenon
  <2>7. CandidateOK(t)
    BY <2>2, <2>3, <2>4, <2>5, <2>6, Zenon DEF CandidateOK
  <2> QED
    BY <1>3, <2>4, <2>5, <2>7 DEF t
<1> QED
  BY <1>2, <1>3

(* What the candidates keep and what is taken is what they had. *)
LEMMA FeesShared ==
  ASSUME NEW cs, IsFiniteSet(cs), \A c \in cs : FeeUntaken(c),
         \A c, d \in cs : c.source = d.source /\ c.tx = d.tx => c = d
  PROVE  LET taken == {TakeFee(c) : c \in cs}
         IN  /\ IsFiniteSet(taken)
             /\ \A c \in taken : CandidateOK(c)
             /\ \A c, d \in taken : c.source = d.source /\ c.tx = d.tx => c = d
             /\ Tez(taken) \in Nat
             /\ Collected(taken) \in Nat
             /\ Tez(taken) + Collected(taken)
                   <= Tez(cs)
<1> DEFINE h == [c \in cs |-> TakeFee(c)]
           taken == {TakeFee(c) : c \in cs}
           F == [c \in cs |-> IF c.tx = "tez" THEN c.amount ELSE 0]
           A == [y \in taken |-> IF y.tx = "tez" THEN y.amount ELSE 0]
           B == [y \in taken |-> y.fee]
           H == [y \in taken |-> A[y] + B[y]]
<1>1. taken = {h[c] : c \in cs}
  OBVIOUS
<1>2. ASSUME NEW c \in cs
      PROVE  /\ CandidateOK(h[c]) /\ h[c].source = c.source /\ h[c].tx = c.tx
             /\ c.tx = "tez" => h[c].amount + h[c].fee = c.amount
             /\ c.tx # "tez" => h[c].fee = 0
             /\ h[c] \in taken
  BY FeeTaken
<1>3. \A c \in taken : CandidateOK(c)
  BY FeeTaken
<1>4. \A c \in taken : c.amount \in Nat /\ c.fee \in Nat
  BY <1>3 DEF CandidateOK
<1>5. \A c \in cs : c.amount \in Nat
  BY DEF FeeUntaken, CandidateOK
<1>6. \A y \in taken : A[y] \in Int /\ B[y] \in Int /\ H[y] = A[y] + B[y]
  BY <1>4
<1>7. \A y \in taken : A[y] \in Nat /\ B[y] \in Nat
  BY <1>4
<1>8. \A c \in cs : F[c] \in Nat /\ H[h[c]] \in Nat /\ H[h[c]] <= F[c]
  <2> SUFFICES ASSUME NEW c \in cs PROVE F[c] \in Nat /\ H[h[c]] \in Nat /\ H[h[c]] <= F[c]
    OBVIOUS
  <2>1. h[c] \in taken /\ h[c].tx = c.tx
    BY <1>2
  <2>2. F[c] = IF c.tx = "tez" THEN c.amount ELSE 0
    OBVIOUS
  <2>3. H[h[c]] = A[h[c]] + B[h[c]]
    BY <2>1
  <2>4. A[h[c]] = (IF h[c].tx = "tez" THEN h[c].amount ELSE 0) /\ B[h[c]] = h[c].fee
    BY <2>1
  <2>5. h[c].amount \in Nat /\ h[c].fee \in Nat /\ c.amount \in Nat
    BY <1>4, <1>5, <2>1
  <2> HIDE DEF F, A, B, H, h
  <2>6. CASE c.tx = "tez"
    <3>1. h[c].amount + h[c].fee = c.amount
      BY <1>2, <2>6
    <3> QED
      BY <2>1, <2>2, <2>3, <2>4, <2>5, <2>6, <3>1
  <2>7. CASE c.tx # "tez"
    <3>1. h[c].fee = 0
      BY <1>2, <2>7
    <3> QED
      BY <2>1, <2>2, <2>3, <2>4, <2>5, <2>7, <3>1
  <2> QED
    BY <2>6, <2>7
<1>9. Tez(cs) = SumFunctionOnSet(F, cs)
  BY <1>5, TezIs
<1>10. Collected(taken) = SumFunctionOnSet(B, taken)
  BY CollectedIs
<1> HIDE DEF h, taken
<1>11. IsFiniteSet(taken)
  <2>1. IsFiniteSet({h[c] : c \in cs})
    BY FiniteImage
  <2> QED
    BY <1>1, <2>1, Zenon
<1>12. Tez(taken) = SumFunctionOnSet(A, taken)
  BY <1>4, <1>11, TezIs
<1> HIDE DEF F, A, B, H
<1>13. SumFunctionOnSet(H, taken) = SumFunctionOnSet(A, taken) + SumFunctionOnSet(B, taken)
  BY <1>6, <1>11, SumPlus
<1>14. SumFunctionOnSet(A, taken) \in Nat /\ SumFunctionOnSet(B, taken) \in Nat
  BY <1>7, <1>11, SumNat
<1>15. SumFunctionOnSet(H, taken) <= SumFunctionOnSet(F, cs)
  <2>1. /\ IsFiniteSet({h[c] : c \in cs})
        /\ SumFunctionOnSet(H, {h[c] : c \in cs}) <= SumFunctionOnSet(F, cs)
    BY <1>8, SumImageLeq
  <2> QED
    BY <1>1, <2>1, Zenon
<1>16. \A c, d \in taken : c.source = d.source /\ c.tx = d.tx => c = d
  <2> SUFFICES ASSUME NEW c \in taken, NEW d \in taken, c.source = d.source, c.tx = d.tx
               PROVE  c = d
    OBVIOUS
  <2>1. PICK x \in cs : c = h[x]
    BY <1>1
  <2>2. PICK y \in cs : d = h[y]
    BY <1>1
  <2>3. x.source = y.source /\ x.tx = y.tx
    BY <1>2, <2>1, <2>2
  <2>4. x = y
    BY <2>3
  <2> QED
    BY <2>1, <2>2, <2>4
<1>17. /\ Tez(taken) \in Nat
       /\ Collected(taken) \in Nat
       /\ Tez(taken) + Collected(taken)
              <= Tez(cs)
  BY <1>9, <1>10, <1>12, <1>13, <1>14, <1>15, Zenon
<1> QED
  BY <1>3, <1>11, <1>16, <1>17 DEF taken

(* Collecting the baker's fee. *)
LEMMA FeesKeep == ASSUME GenInv, CollectBakerFee PROVE GenInv'
<1> DEFINE taken == {TakeFee(c) : c \in candidates}
           collected == Collected(taken)
           donated == GetZPortion(collected, config.donateFees)
           before == Tez(candidates)
           after == Tez(taken)
<1>1. /\ stage = "fees" /\ candidates' = taken
      /\ income' = [income EXCEPT !.fees = collected - donated, !.donatedFees = donated]
      /\ Continue("validate") /\ UNCHANGED <<data, recipes>>
  BY DEF CollectBakerFee, Collected
<1>2. ConfigInv' /\ TodoInv' /\ BlueprintsInv'
  BY <1>1, ContinueKeeps DEF OpenStages, WorkStages
<1>3. stage' = "validate" /\ todo' = todo
  BY <1>1 DEF Continue
<1>4. DataInv' /\ RecipesInv'
  BY <1>1, <1>3 DEF GenInv, DataInv, RecipesInv, WorkStages, Cycle
<1>5. /\ income.bonds \in Nat /\ income.donatedBonds \in Nat
      /\ income.fees = 0 /\ income.donatedFees = 0 /\ DOMAIN income = DOMAIN NoIncome
  BY <1>1 DEF GenInv, IncomeInv
<1>6. before + income.bonds + income.donatedBonds + income.fees + income.donatedFees <= Earned
  BY <1>1 DEF GenInv, MoneyInv
<1>7. Earned \in Nat /\ config.donateFees \in Int
  <2>1. data \in CycleData[Cycle]
    BY <1>1 DEF GenInv, DataInv, WorkStages
  <2>2. DataOK(data)
    BY <1>1, <2>1, DataSound DEF GenInv, OpenStages, WorkStages
  <2>3. ConfigOK(config)
    BY <1>1 DEF GenInv, ConfigInv
  <2>4. config.donateFees \in 0..Unit
    BY <2>3 DEF ConfigOK
  <2>5. config.donateFees \in Int
    BY <2>4
  <2> QED
    BY <2>2, <2>5, EarnedNat
<1>8. /\ IsFiniteSet(candidates) /\ \A c \in candidates : FeeUntaken(c)
      /\ \A c, d \in candidates : c.source = d.source /\ c.tx = d.tx => c = d
  BY <1>1 DEF GenInv, CandidatesInv, FeeUntaken
<1>9. before \in Nat
  BY <1>8, TezIs DEF FeeUntaken, CandidateOK
<1>10. /\ IsFiniteSet(taken)
       /\ \A c \in taken : CandidateOK(c)
       /\ \A c, d \in taken : c.source = d.source /\ c.tx = d.tx => c = d
       /\ after \in Nat /\ collected \in Nat /\ after + collected <= before
  BY <1>8, FeesShared
<1> HIDE DEF taken, collected
<1>11. donated \in Nat /\ donated <= collected
  BY <1>7, <1>10, PortionBounds
<1> HIDE DEF donated
<1>12. /\ income'.fees = collected - donated /\ income'.donatedFees = donated
       /\ income'.bonds = income.bonds /\ income'.donatedBonds = income.donatedBonds
       /\ DOMAIN income' = DOMAIN NoIncome
  BY <1>1, <1>5 DEF NoIncome
<1>13. IncomeInv'
  BY <1>3, <1>5, <1>10, <1>11, <1>12 DEF IncomeInv, WorkStages
<1>14. CandidatesInv'
  BY <1>1, <1>3, <1>10 DEF CandidatesInv
<1>15. Earned' = Earned
  BY <1>1 DEF Earned, GetTotalDelegatedRewards, Continue
<1> HIDE DEF before, after
<1>17. after + income'.bonds + income'.donatedBonds + income'.fees + income'.donatedFees <= Earned
  BY <1>5, <1>6, <1>7, <1>9, <1>10, <1>11, <1>12
<1>18. MoneyInv'
  BY <1>1, <1>15, <1>17 DEF MoneyInv, after
<1> QED
  BY <1>2, <1>4, <1>13, <1>14, <1>18 DEF GenInv

-----------------------------------------------------------------------------
(* The last validation.                                                    *)

(* What keeps amounts and transactions keeps what is paid in tez. *)
LEMMA TezImage ==
  ASSUME NEW S, NEW h, IsFiniteSet(S), \A x \in S : x.amount \in Nat,
         \A x \in S : h[x].amount = x.amount /\ h[x].tx = x.tx
  PROVE  /\ IsFiniteSet({h[x] : x \in S})
         /\ Tez({h[x] : x \in S}) \in Nat
         /\ Tez({h[x] : x \in S}) <= Tez(S)
<1> DEFINE Im == {h[x] : x \in S}
           F == [x \in S |-> IF x.tx = "tez" THEN x.amount ELSE 0]
           G == [y \in Im |-> IF y.tx = "tez" THEN y.amount ELSE 0]
<1>1. \A x \in S : F[x] \in Nat /\ G[h[x]] \in Nat /\ G[h[x]] <= F[x]
  <2> SUFFICES ASSUME NEW x \in S PROVE F[x] \in Nat /\ G[h[x]] \in Nat /\ G[h[x]] <= F[x]
    OBVIOUS
  <2>1. G[h[x]] = F[x]
    OBVIOUS
  <2>2. F[x] \in Nat
    OBVIOUS
  <2> HIDE DEF F, G
  <2> QED
    BY <2>1, <2>2
<1>2. \A y \in Im : y.amount \in Nat
  OBVIOUS
<1>3. Tez(S) = SumFunctionOnSet(F, S)
  BY TezIs
<1>4. IsFiniteSet(Im)
  BY FiniteImage
<1>5. Tez(Im) = SumFunctionOnSet(G, Im)
      /\ Tez(Im) \in Nat
  BY <1>2, <1>4, TezIs
<1> HIDE DEF F, G
<1>6. /\ IsFiniteSet({h[x] : x \in S})
      /\ SumFunctionOnSet(G, {h[x] : x \in S}) <= SumFunctionOnSet(F, S)
  BY <1>1, SumImageLeq
<1> QED
  BY <1>3, <1>5, <1>6, Zenon

(* Marking a candidate as invalid leaves its amount. *)
LEMMA PresimKeeps ==
  ASSUME NEW c, CandidateOK(c)
  PROVE  LET v == ValidatePresim(c)
         IN  CandidateOK(v) /\ v.source = c.source /\ v.tx = c.tx /\ v.amount = c.amount
<1> DEFINE v == ValidatePresim(c)
<1>1. CASE v = c
  BY <1>1
<1>2. CASE \E r : v = [c EXCEPT !.reason = r]
  <2>1. /\ DOMAIN v = DOMAIN c /\ v.source = c.source /\ v.tx = c.tx /\ v.amount = c.amount
        /\ v.balance = c.balance /\ v.fee = c.fee /\ v.feeRate = c.feeRate
    BY <1>2 DEF CandidateOK, CandidateFields
  <2> HIDE DEF v
  <2>3. TxOK(v)
    <3>1. TxOK(c)
      BY DEF CandidateOK
    <3> QED
      BY <2>1, <3>1, TxAsBefore
  <2>2. CandidateOK(v)
    BY <2>1, <2>3, Zenon DEF CandidateOK
  <2> QED
    BY <2>1, <2>2 DEF v
<1> QED
  BY <1>1, <1>2, Zenon DEF ValidatePresim

(* Validating the candidates. *)
LEMMA ValidateKeeps == ASSUME GenInv, ValidateRecipe PROVE GenInv'
<1> DEFINE h == [c \in candidates |-> ValidatePresim(c)]
           before == Tez(candidates)
           after == Tez(candidates')
<1>1. /\ stage = "validate" /\ candidates' = {h[c] : c \in candidates}
      /\ Continue("finalize") /\ UNCHANGED <<data, income, recipes>>
  BY DEF ValidateRecipe
<1>2. ConfigInv' /\ TodoInv' /\ BlueprintsInv'
  BY <1>1, ContinueKeeps DEF OpenStages, WorkStages
<1>3. stage' = "finalize" /\ todo' = todo
  BY <1>1 DEF Continue
<1>4. DataInv' /\ RecipesInv' /\ IncomeInv'
  BY <1>1, <1>3 DEF GenInv, DataInv, RecipesInv, IncomeInv, WorkStages, Cycle
<1>5. IsFiniteSet(candidates)
  BY DEF GenInv, CandidatesInv
<1>6. \A c \in candidates : CandidateOK(c)
  BY DEF GenInv, CandidatesInv
<1>7. \A c, d \in candidates : c.source = d.source /\ c.tx = d.tx => c = d
  BY DEF GenInv, CandidatesInv
<1>8. \A c \in candidates :
         CandidateOK(h[c]) /\ h[c].source = c.source /\ h[c].tx = c.tx /\ h[c].amount = c.amount
  BY <1>6, PresimKeeps
<1>9. \A c \in candidates : c.amount \in Nat
  BY <1>6 DEF CandidateOK
<1> HIDE DEF h
<1>10. /\ IsFiniteSet({h[c] : c \in candidates})
       /\ Tez({h[c] : c \in candidates}) \in Nat
       /\ Tez({h[c] : c \in candidates}) <= before
  <2>1. \A c \in candidates : h[c].amount = c.amount /\ h[c].tx = c.tx
    BY <1>8
  <2> QED
    BY <1>5, <1>9, <2>1, TezImage
<1>11. IsFiniteSet(candidates') /\ after \in Nat /\ after <= before
  BY <1>1, <1>10, Zenon
<1>12. \A c \in candidates' : CandidateOK(c)
  BY <1>1, <1>8
<1>13. \A c, d \in candidates' : c.source = d.source /\ c.tx = d.tx => c = d
  <2> SUFFICES ASSUME NEW c \in candidates', NEW d \in candidates', c.source = d.source,
                      c.tx = d.tx
               PROVE  c = d
    OBVIOUS
  <2>1. PICK x \in candidates : c = h[x]
    BY <1>1
  <2>2. PICK y \in candidates : d = h[y]
    BY <1>1
  <2>3. x.source = y.source /\ x.tx = y.tx
    BY <1>8, <2>1, <2>2
  <2>4. x = y
    BY <1>7, <2>3
  <2> QED
    BY <2>1, <2>2, <2>4
<1>14. CandidatesInv'
  BY <1>3, <1>11, <1>12, <1>13 DEF CandidatesInv
<1>15. before + income.bonds + income.donatedBonds + income.fees + income.donatedFees <= Earned
  BY <1>1 DEF GenInv, MoneyInv
<1>16. Earned \in Nat
  <2>1. data \in CycleData[Cycle]
    BY <1>1 DEF GenInv, DataInv, WorkStages
  <2> QED
    BY <1>1, <2>1, DataSound, EarnedNat DEF GenInv, OpenStages, WorkStages
<1>17. Earned' = Earned
  BY <1>1 DEF Earned, GetTotalDelegatedRewards, Continue
<1>18. before \in Nat
  BY <1>5, <1>9, TezIs
<1>19. income.bonds \in Nat /\ income.donatedBonds \in Nat /\ income.fees \in Nat
       /\ income.donatedFees \in Nat
  BY DEF GenInv, IncomeInv
<1> HIDE DEF before, after
<1>20. after + income.bonds + income.donatedBonds + income.fees + income.donatedFees <= Earned
  BY <1>11, <1>15, <1>16, <1>18, <1>19
<1>21. MoneyInv'
  BY <1>1, <1>17, <1>20 DEF MoneyInv, after
<1> QED
  BY <1>2, <1>4, <1>14, <1>21 DEF GenInv

-----------------------------------------------------------------------------
(* Recipes.                                                                *)

(* What the identifier of a payout tells of its recipe. *)
LEMMA SamePayout ==
  ASSUME NEW r, NEW q, PayoutOf(r) = PayoutOf(q)
  PROVE  /\ r.kind = q.kind /\ r.tx = q.tx /\ r.token = q.token
         /\ r.delegator = q.delegator /\ r.recipient = q.recipient /\ r.cycle = q.cycle
<1>1. GetIdentifier(r) = GetIdentifier(q) /\ r.cycle = q.cycle
  BY DEF PayoutOf
<1> QED
  BY <1>1 DEF GetIdentifier

\* Recipes of one kind.
KindOK(rs, kind) == RecipesOK(rs, Cycle) /\ \A r \in rs : r.kind = kind

(* The recipes of candidates, which may coincide, pay no more than these. *)
LEMMA RewardsAmount ==
  ASSUME NEW cs, IsFiniteSet(cs), \A c \in cs : c.amount \in Nat
  PROVE  LET rs == {ToPayoutRecipe(c) : c \in cs}
         IN  IsFiniteSet(rs) /\ Tez(rs) \in Nat /\ Tez(rs) <= Tez(cs)
<1> DEFINE h == [c \in cs |-> ToPayoutRecipe(c)]
<1>1. \A c \in cs : h[c].amount = c.amount /\ h[c].tx = c.tx
  BY DEF ToPayoutRecipe, PayoutRecipe
<1>2. {ToPayoutRecipe(c) : c \in cs} = {h[c] : c \in cs}
  OBVIOUS
<1> HIDE DEF h
<1>3. /\ IsFiniteSet({h[c] : c \in cs})
      /\ Tez({h[c] : c \in cs}) \in Nat
      /\ Tez({h[c] : c \in cs}) <= Tez(cs)
  BY <1>1, TezImage
<1> QED
  BY <1>2, <1>3, Zenon

(* The recipes of the delegators' rewards. *)
LEMMA RewardsMade ==
  ASSUME NEW cs, IsFiniteSet(cs), \A c \in cs : CandidateOK(c),
         \A c, d \in cs : c.source = d.source /\ c.tx = d.tx => c = d
  PROVE  LET rs == {ToPayoutRecipe(c) : c \in cs}
         IN  /\ KindOK(rs, "delegator reward")
             /\ Tez(rs) \in Nat
             /\ Tez(rs) <= Tez(cs)
<1> DEFINE h == [c \in cs |-> ToPayoutRecipe(c)]
           rs == {ToPayoutRecipe(c) : c \in cs}
<1>1. rs = {h[c] : c \in cs}
  OBVIOUS
<1>2. \A c \in cs :
         /\ DOMAIN h[c] = RecipeFields /\ h[c].kind = "delegator reward" /\ h[c].tx = c.tx
         /\ h[c].amount = c.amount /\ h[c].fee = c.fee /\ h[c].txFee = 0
         /\ h[c].delegator = c.source /\ h[c].cycle = Cycle
         /\ h[c].valid = (c.reason = "")
  BY DEF ToPayoutRecipe, PayoutRecipe, RecipeFields
<1>3. \A c \in cs : c.amount \in Nat /\ c.fee \in Nat
  BY DEF CandidateOK
<1> HIDE DEF h
<1>4. \A r \in rs : RecipeOK(r) /\ r.cycle = Cycle /\ r.kind = "delegator reward"
  <2> SUFFICES ASSUME NEW c \in cs
               PROVE  RecipeOK(h[c]) /\ h[c].cycle = Cycle /\ h[c].kind = "delegator reward"
    BY <1>1
  <2>1. h[c].amount \in Nat /\ h[c].fee \in Nat
    BY <1>2, <1>3
  <2>2. h[c].valid \in BOOLEAN
    BY <1>2
  <2>3. h[c].kind \in Kinds
    BY <1>2 DEF Kinds
  <2>4. h[c].txFee = 0 /\ DOMAIN h[c] = RecipeFields
    BY <1>2
  <2>5. TxOK(h[c])
    <3>1. TxOK(c)
      BY DEF CandidateOK
    <3> QED
      BY <1>2, <3>1, TxAsBefore
  <2> QED
    BY <1>2, <2>1, <2>2, <2>3, <2>4, <2>5, Zenon DEF RecipeOK
<1>5. \A r, q \in rs : PayoutOf(r) = PayoutOf(q) => r = q
  <2> SUFFICES ASSUME NEW r \in rs, NEW q \in rs, PayoutOf(r) = PayoutOf(q) PROVE r = q
    OBVIOUS
  <2>1. PICK c \in cs : r = h[c]
    BY <1>1
  <2>2. PICK d \in cs : q = h[d]
    BY <1>1
  <2>3. r.delegator = q.delegator /\ r.tx = q.tx
    BY SamePayout
  <2>4. c.source = d.source /\ c.tx = d.tx
    BY <1>2, <2>1, <2>2, <2>3
  <2>5. c = d
    BY <2>4
  <2> QED
    BY <2>1, <2>2, <2>5
<1>6. \A c \in cs : c.amount \in Nat
  BY <1>3
<1>7. IsFiniteSet(rs) /\ Tez(rs) \in Nat /\ Tez(rs) <= Tez(cs)
  BY <1>6, RewardsAmount
<1> HIDE DEF rs
<1>8. KindOK(rs, "delegator reward")
  BY <1>4, <1>5, <1>7 DEF KindOK, RecipesOK
<1> QED
  BY <1>7, <1>8 DEF rs

IncomeKinds == {"baker reward", "fee income", "donation"}

(* The recipes of the shares of the baker's income, all in tez. *)
LEMMA SharesMade ==
  ASSUME NEW shares, SharesOK(shares), NEW amount \in Nat,
         NEW kind \in IncomeKinds
  PROVE  LET rs == GetDistributionPayouts(kind, shares, amount)
         IN  /\ KindOK(rs, kind)
             /\ OfTxKinds(rs, {"tez"}) = rs
             /\ AmountOf(rs) \in Nat /\ AmountOf(rs) <= amount
<1> DEFINE rs == GetDistributionPayouts(kind, shares, amount)
           S == DOMAIN shares
           Reason(k) == IF k = PayoutKey THEN "targets payout"
                        ELSE IF GetZPortion(amount, shares[k]) <= 0 THEN "zero payout" ELSE ""
           h == [k \in S |-> PayoutRecipe(Cycle, kind, "tez", NoToken, NoAddress, k,
                    IF k = PayoutKey THEN 0 ELSE GetZPortion(amount, shares[k]), 0, Reason(k))]
<1>1. rs = {h[k] : k \in S}
  BY DEF GetDistributionPayouts
<1>2. \A k \in S :
         /\ DOMAIN h[k] = RecipeFields /\ h[k].kind = kind /\ h[k].tx = "tez"
         /\ h[k].amount = (IF k = PayoutKey THEN 0 ELSE GetZPortion(amount, shares[k]))
         /\ h[k].fee = 0 /\ h[k].txFee = 0 /\ h[k].recipient = k /\ h[k].cycle = Cycle
         /\ h[k].valid \in BOOLEAN
  BY DEF PayoutRecipe, RecipeFields
<1> HIDE DEF h, Reason
<1>3. \A k \in S : GetZPortion(amount, shares[k]) \in Nat
  <2> SUFFICES ASSUME NEW k \in S PROVE GetZPortion(amount, shares[k]) \in Nat
    OBVIOUS
  <2>1. shares[k] \in Int
    <3>1. shares[k] \in Nat
      BY DEF SharesOK
    <3> QED
      BY <3>1
  <2> QED
    BY <2>1, PortionBounds, Zenon
<1>4. \A k \in S : h[k].amount \in Nat /\ h[k].amount <= GetZPortion(amount, shares[k])
  <2> SUFFICES ASSUME NEW k \in S
               PROVE  h[k].amount \in Nat /\ h[k].amount <= GetZPortion(amount, shares[k])
    OBVIOUS
  <2> DEFINE portion == GetZPortion(amount, shares[k])
  <2>1. portion \in Nat /\ h[k].amount = (IF k = PayoutKey THEN 0 ELSE portion)
    BY <1>2, <1>3
  <2> HIDE DEF portion
  <2>2. h[k].amount \in Nat /\ h[k].amount <= portion
    BY <2>1
  <2> QED
    BY <2>2 DEF portion
<1>5. \A r \in rs : RecipeOK(r) /\ r.cycle = Cycle /\ r.kind = kind /\ r.tx = "tez"
  <2> SUFFICES ASSUME NEW k \in S
               PROVE  /\ RecipeOK(h[k]) /\ h[k].cycle = Cycle /\ h[k].kind = kind
                      /\ h[k].tx = "tez"
    BY <1>1
  <2>1. h[k].amount \in Nat
    BY <1>4
  <2>2. h[k].kind \in Kinds
    BY <1>2, Zenon DEF Kinds, IncomeKinds
  <2>3. h[k].fee \in Nat
    <3>1. 0 \in Nat
      OBVIOUS
    <3> QED
      BY <1>2, <3>1, Zenon
  <2>4. TxOK(h[k])
    BY <1>2, TxOfTez, Zenon
  <2> QED
    BY <1>2, <2>1, <2>2, <2>3, <2>4, Zenon DEF RecipeOK
<1>6. \A r, q \in rs : PayoutOf(r) = PayoutOf(q) => r = q
  <2> SUFFICES ASSUME NEW r \in rs, NEW q \in rs, PayoutOf(r) = PayoutOf(q) PROVE r = q
    OBVIOUS
  <2>1. PICK k \in S : r = h[k]
    BY <1>1
  <2>2. PICK l \in S : q = h[l]
    BY <1>1
  <2>3. r.recipient = q.recipient
    BY SamePayout
  <2>4. h[k].recipient = k /\ h[l].recipient = l
    BY <1>2
  <2>5. k = l
    BY <2>1, <2>2, <2>3, <2>4, Zenon
  <2> QED
    BY <2>1, <2>2, <2>5
<1>7. /\ IsFiniteSet({h[k] : k \in DOMAIN shares})
      /\ AmountOf({h[k] : k \in DOMAIN shares}) \in Nat
      /\ AmountOf({h[k] : k \in DOMAIN shares}) <= amount
  BY <1>4, SharesWithin DEF SharesOK
<1> HIDE DEF rs
<1>8. IsFiniteSet(rs) /\ AmountOf(rs) \in Nat /\ AmountOf(rs) <= amount
  BY <1>1, <1>7, Zenon
<1>9. OfTxKinds(rs, {"tez"}) = rs
  BY <1>5 DEF OfTxKinds
<1>10. KindOK(rs, kind)
  BY <1>5, <1>6, <1>8 DEF KindOK, RecipesOK
<1> QED
  BY <1>8, <1>9, <1>10 DEF rs

(* What is known of a cycle while it is worked on. *)
LEMMA WorkFacts ==
  ASSUME GenInv, stage \in WorkStages
  PROVE  /\ data \in CycleData[Cycle] /\ DataOK(data) /\ Earned \in Nat /\ ConfigOK(config)
         /\ income.bonds \in Nat /\ income.donatedBonds \in Nat
         /\ income.fees \in Nat /\ income.donatedFees \in Nat
<1>1. data \in CycleData[Cycle]
  BY DEF GenInv, DataInv
<1>2. DataOK(data)
  BY <1>1, DataSound DEF GenInv, OpenStages
<1>3. ConfigOK(config)
  BY DEF GenInv, ConfigInv, WorkStages
<1>4. /\ income.bonds \in Nat /\ income.donatedBonds \in Nat
      /\ income.fees \in Nat /\ income.donatedFees \in Nat
  BY DEF GenInv, IncomeInv
<1> QED
  BY <1>1, <1>2, <1>3, <1>4, EarnedNat

\* The recipes of each kind, and all of them together.
OfEachKind(A, B, C, D) ==
    /\ KindOK(A, "delegator reward") /\ KindOK(B, "baker reward")
    /\ KindOK(C, "fee income") /\ KindOK(D, "donation")

Together(rs, A, B, C, D) ==
    LET tez == OfTxKinds(rs, {"tez"})
    IN  /\ RecipesOK(rs, Cycle)
        /\ OfKind(tez, "delegator reward") = OfTxKinds(A, {"tez"})
        /\ OfKind(tez, "baker reward") = OfTxKinds(B, {"tez"})
        /\ OfKind(tez, "fee income") = OfTxKinds(C, {"tez"})
        /\ OfKind(tez, "donation") = OfTxKinds(D, {"tez"})

(* Of recipes of four kinds, those of one kind are those that were added as it. *)
LEMMA KindsTogether ==
  ASSUME NEW A, NEW B, NEW C, NEW D, OfEachKind(A, B, C, D)
  PROVE  Together(A \cup B \cup C \cup D, A, B, C, D)
<1> DEFINE rs == A \cup B \cup C \cup D
           tez == OfTxKinds(rs, {"tez"})
<1>1. /\ \A r \in A : r.kind = "delegator reward"
      /\ \A r \in B : r.kind = "baker reward"
      /\ \A r \in C : r.kind = "fee income"
      /\ \A r \in D : r.kind = "donation"
  BY DEF OfEachKind, KindOK
<1>2. /\ OfKind(tez, "delegator reward") = OfTxKinds(A, {"tez"})
      /\ OfKind(tez, "baker reward") = OfTxKinds(B, {"tez"})
      /\ OfKind(tez, "fee income") = OfTxKinds(C, {"tez"})
      /\ OfKind(tez, "donation") = OfTxKinds(D, {"tez"})
  BY <1>1 DEF OfKind, OfTxKinds
<1>3. RecipesOK(A, Cycle) /\ RecipesOK(B, Cycle) /\ RecipesOK(C, Cycle) /\ RecipesOK(D, Cycle)
  BY DEF OfEachKind, KindOK
<1>4. IsFiniteSet(rs)
  BY <1>3, FS_Union DEF RecipesOK
<1>5. \A r \in rs : RecipeOK(r) /\ r.cycle = Cycle
  BY <1>3 DEF RecipesOK
<1>6. \A r, q \in rs : PayoutOf(r) = PayoutOf(q) => r = q
  <2> SUFFICES ASSUME NEW r \in rs, NEW q \in rs, PayoutOf(r) = PayoutOf(q) PROVE r = q
    OBVIOUS
  <2>1. r.kind = q.kind
    BY SamePayout
  <2>2. \/ r \in A /\ q \in A
        \/ r \in B /\ q \in B
        \/ r \in C /\ q \in C
        \/ r \in D /\ q \in D
    BY <1>1, <2>1
  <2> QED
    BY <1>3, <2>2 DEF RecipesOK
<1>7. RecipesOK(rs, Cycle)
  BY <1>4, <1>5, <1>6 DEF RecipesOK
<1> QED
  BY <1>2, <1>7, Zenon DEF Together

(* Finalizing the recipes: rewards, bonds, fees and donations. *)
LEMMA FinalizeKeeps == ASSUME GenInv, FinalizeRecipes PROVE GenInv'
<1> DEFINE A == {ToPayoutRecipe(c) : c \in candidates}
           B == GetDistributionPayouts("baker reward", config.bonds, income.bonds)
           C == GetDistributionPayouts("fee income", config.fees, income.fees)
           D == GetDistributionPayouts("donation", config.donations,
                                       income.donatedBonds + income.donatedFees)
           rs == A \cup B \cup C \cup D
           tez == OfTxKinds(rs, {"tez"})
<1>1. /\ stage = "finalize" /\ recipes' = rs /\ Continue("blueprint")
      /\ UNCHANGED <<data, candidates, income>>
  BY DEF FinalizeRecipes
<1>2. ConfigInv' /\ TodoInv' /\ BlueprintsInv'
  BY <1>1, ContinueKeeps DEF OpenStages, WorkStages
<1>3. stage' = "blueprint" /\ todo' = todo /\ config' = config
  BY <1>1 DEF Continue
<1>4. DataInv' /\ CandidatesInv' /\ IncomeInv' /\ MoneyInv'
  BY <1>1, <1>3 DEF GenInv, DataInv, CandidatesInv, IncomeInv, MoneyInv, WorkStages, Cycle
<1>5. /\ income.bonds \in Nat /\ income.donatedBonds \in Nat
      /\ income.fees \in Nat /\ income.donatedFees \in Nat
  BY <1>1, WorkFacts DEF WorkStages
<1>6. ConfigOK(config)
  BY <1>1, WorkFacts DEF WorkStages
<1>7. SharesOK(config.bonds) /\ SharesOK(config.fees) /\ SharesOK(config.donations)
  BY <1>6 DEF ConfigOK
<1>8. income.donatedBonds + income.donatedFees \in Nat
  BY <1>5
<1>9. /\ KindOK(A, "delegator reward") /\ Tez(A) \in Nat /\ Tez(A) <= Tez(candidates)
  <2>1. /\ IsFiniteSet(candidates) /\ \A c \in candidates : CandidateOK(c)
        /\ \A c, d \in candidates : c.source = d.source /\ c.tx = d.tx => c = d
    BY DEF GenInv, CandidatesInv
  <2> QED
    BY <2>1, RewardsMade
<1>10. /\ KindOK(B, "baker reward") /\ OfTxKinds(B, {"tez"}) = B
       /\ AmountOf(B) \in Nat /\ AmountOf(B) <= income.bonds
  BY <1>5, <1>7, SharesMade DEF IncomeKinds
<1>11. /\ KindOK(C, "fee income") /\ OfTxKinds(C, {"tez"}) = C
       /\ AmountOf(C) \in Nat /\ AmountOf(C) <= income.fees
  BY <1>5, <1>7, SharesMade DEF IncomeKinds
<1>12. /\ KindOK(D, "donation") /\ OfTxKinds(D, {"tez"}) = D
       /\ AmountOf(D) \in Nat /\ AmountOf(D) <= income.donatedBonds + income.donatedFees
  BY <1>7, <1>8, SharesMade DEF IncomeKinds
<1> HIDE DEF A, B, C, D
<1>13. /\ RecipesOK(rs, Cycle)
       /\ OfKind(tez, "delegator reward") = OfTxKinds(A, {"tez"})
       /\ OfKind(tez, "baker reward") = B
       /\ OfKind(tez, "fee income") = C
       /\ OfKind(tez, "donation") = D
  <2>1. /\ RecipesOK(rs, Cycle)
        /\ OfKind(tez, "delegator reward") = OfTxKinds(A, {"tez"})
        /\ OfKind(tez, "baker reward") = OfTxKinds(B, {"tez"})
        /\ OfKind(tez, "fee income") = OfTxKinds(C, {"tez"})
        /\ OfKind(tez, "donation") = OfTxKinds(D, {"tez"})
    <3>1. OfEachKind(A, B, C, D)
      BY <1>9, <1>10, <1>11, <1>12, Zenon DEF OfEachKind
    <3>2. Together(rs, A, B, C, D)
      BY <3>1, KindsTogether, Zenon
    <3> QED
      BY <3>2, Zenon DEF Together
  <2> QED
    BY <1>10, <1>11, <1>12, <2>1, Zenon
<1>14. WithinTotals(rs, BlueprintTotals)
  <2> DEFINE totals == BlueprintTotals
  <2>1. /\ totals.incomeTotal = income.bonds + income.fees
        /\ totals.donatedTotal = income.donatedBonds + income.donatedFees
        /\ totals.earnedTotal = Earned
        /\ totals.bondIncome = income.bonds /\ totals.feeIncome = income.fees
    BY DEF BlueprintTotals, Earned
  <2>2. Tez(candidates) + income.bonds + income.donatedBonds + income.fees
            + income.donatedFees <= Earned
    BY <1>1 DEF GenInv, MoneyInv
  <2>3. Earned \in Nat
    BY <1>1, WorkFacts DEF WorkStages
  <2>4. Tez(candidates) \in Nat
    <3>1. IsFiniteSet(candidates) /\ \A c \in candidates : c.amount \in Nat
      BY DEF GenInv, CandidatesInv, CandidateOK
    <3> QED
      BY <3>1, TezIs
  <2>5. AmountOf(OfKind(tez, "delegator reward")) = Tez(A)
    BY <1>13, Zenon DEF Tez
  <2> HIDE DEF totals, rs, tez
  <2>6. Tez(A) + (income.bonds + income.fees) + (income.donatedBonds + income.donatedFees)
            <= Earned
    <3> DEFINE paid == Tez(A)
               kept == Tez(candidates)
    <3>1. paid \in Nat /\ kept \in Nat /\ paid <= kept
      BY <1>9, <2>4
    <3>2. kept + income.bonds + income.donatedBonds + income.fees + income.donatedFees <= Earned
      BY <2>2
    <3> HIDE DEF paid, kept
    <3>3. paid + (income.bonds + income.fees) + (income.donatedBonds + income.donatedFees)
              <= Earned
      BY <1>5, <2>3, <3>1, <3>2
    <3> QED
      BY <3>3 DEF paid
  <2>7. AmountOf(OfKind(tez, "delegator reward")) + totals.incomeTotal + totals.donatedTotal
            <= totals.earnedTotal
    BY <2>1, <2>5, <2>6, Zenon
  <2>8. /\ AmountOf(OfKind(tez, "baker reward")) <= totals.bondIncome
        /\ AmountOf(OfKind(tez, "fee income")) <= totals.feeIncome
        /\ AmountOf(OfKind(tez, "donation")) <= totals.donatedTotal
    BY <1>10, <1>11, <1>12, <1>13, <2>1, Zenon
  <2> QED
    BY <2>7, <2>8, Zenon DEF WithinTotals, tez, totals
<1> HIDE DEF rs
<1>15. /\ Cycle' = Cycle /\ BlueprintTotals' = BlueprintTotals
  BY <1>1, <1>3 DEF Cycle, BlueprintTotals, GetTotalDelegatedRewards
<1>16. RecipesInv'
  BY <1>1, <1>3, <1>13, <1>14, <1>15, Zenon DEF RecipesInv
<1> QED
  BY <1>2, <1>4, <1>16 DEF GenInv

(* Making the blueprint of the cycle. *)
LEMMA BlueprintKeeps == ASSUME GenInv, CreateBlueprint PROVE GenInv'
<1> DEFINE b == [cycle |-> Cycle, payouts |-> recipes, totals |-> BlueprintTotals]
<1>1. stage = "blueprint" /\ EndCycle({b}, FALSE)
  BY DEF CreateBlueprint
<1>2. RecipesOK(recipes, Cycle) /\ WithinTotals(recipes, BlueprintTotals)
  BY <1>1 DEF GenInv, RecipesInv
<1>3. b.cycle = Cycle /\ b.payouts = recipes /\ b.totals = BlueprintTotals
  OBVIOUS
<1> HIDE DEF b
<1>9. TotalsOK(BlueprintTotals)
  <2>1. Earned \in Nat
    BY <1>1, WorkFacts DEF WorkStages
  <2>2. /\ income.bonds \in Nat /\ income.fees \in Nat
        /\ income.donatedBonds \in Nat /\ income.donatedFees \in Nat
    BY DEF GenInv, IncomeInv
  <2>3. /\ BlueprintTotals.earnedTotal = Earned
        /\ BlueprintTotals.incomeTotal = income.bonds + income.fees
        /\ BlueprintTotals.donatedTotal = income.donatedBonds + income.donatedFees
    BY DEF BlueprintTotals, Earned
  <2> QED
    BY <2>1, <2>2, <2>3 DEF TotalsOK
<1>4. BlueprintOK(b) /\ b.cycle = Cycle
  BY <1>2, <1>3, <1>9, Zenon DEF BlueprintOK
<1>5. IsFiniteSet({b})
  BY FS_Singleton
<1>6. \A c \in {b} : BlueprintOK(c) /\ c.cycle = Cycle
  BY <1>4
<1>7. \A c, d \in {b} : c = d
  OBVIOUS
<1>8. stage \in OpenStages /\ stage # "load"
  BY <1>1 DEF OpenStages, WorkStages
<1> QED
  BY <1>1, <1>5, <1>6, <1>7, <1>8, EndCycleKeeps

(* Every step of the generation keeps the invariant. *)
LEMMA GenStep == ASSUME SoundSources, GenInv, GenNext PROVE GenInv'
  BY LoadKeeps, CheckKeeps, CandidatesKeep, DistributeKeeps, FeesKeep, ValidateKeeps,
     FinalizeKeeps, BlueprintKeeps, FailsKeeps DEF GenNext

(* The generation starts with nothing. *)
LEMMA GenStart == GenInit => GenInv
<1> SUFFICES ASSUME GenInit PROVE GenInv
  OBVIOUS
<1>1. /\ stage = "load" /\ todo = Cycles /\ candidates = {} /\ income = NoIncome
      /\ recipes = {} /\ blueprints = {}
  BY DEF GenInit
<1>2. ConfigInv /\ DataInv /\ MoneyInv /\ RecipesInv
  BY <1>1 DEF ConfigInv, DataInv, MoneyInv, RecipesInv, WorkStages
<1>3. TodoInv
  BY <1>1, CyclesAssumption DEF TodoInv
<1>4. CandidatesInv
  BY <1>1, FS_EmptySet DEF CandidatesInv
<1>5. IncomeInv
  BY <1>1 DEF IncomeInv, NoIncome
<1>6. BlueprintsInv
  BY <1>1, FS_EmptySet DEF BlueprintsInv
<1> QED
  BY <1>2, <1>3, <1>4, <1>5, <1>6 DEF GenInv

(* The stages after the generation leave all this. *)
LEMMA GenKept ==
  ASSUME GenInv, UNCHANGED <<config, todo, data, candidates, income, recipes, blueprints>>,
         stage \notin OpenStages, stage' \notin OpenStages, stage \notin {"failed"}
  PROVE  GenInv'
<1>1. ConfigInv' /\ TodoInv' /\ DataInv' /\ MoneyInv'
  BY DEF GenInv, ConfigInv, TodoInv, DataInv, MoneyInv, OpenStages, WorkStages
<1>2. CandidatesInv' /\ IncomeInv' /\ RecipesInv' /\ BlueprintsInv'
  BY DEF GenInv, CandidatesInv, IncomeInv, RecipesInv, BlueprintsInv, OpenStages, WorkStages
<1> QED
  BY <1>1, <1>2 DEF GenInv
=============================================================================
