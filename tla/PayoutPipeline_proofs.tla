------------------------ MODULE PayoutPipeline_proofs ------------------------
(***************************************************************************)
(* Proofs about PayoutPipeline, for any configurations, cycles, data,      *)
(* balances, costs and limits.                                             *)
(***************************************************************************)
EXTENDS Preparation_proofs

-----------------------------------------------------------------------------
(* The checks of the balance nobody hears of.                              *)

\* How many checks in a row a counter can still have kept silent.
SilentOf(count) == IF count = 0 THEN NotifyEvery - 1 ELSE count - 1

SilentType ==
    [check : {"hook", "collector"}, skipTez : BOOLEAN,
     low : 0..(NotifyEvery - 1), failures : 0..(NotifyEvery - 1),
     silent : Nat, seen : Balances \cup {-1}]

SilentInv ==
    /\ balance \in SilentType
    /\ balance.silent <= SilentOf(balance.low) + SilentOf(balance.failures)

(* A counter that goes on by one starts again after the last. *)
LEMMA NextCount ==
  ASSUME NEW n \in 0..(NotifyEvery - 1)
  PROVE  /\ (n + 1) % NotifyEvery \in 0..(NotifyEvery - 1)
         /\ n # 0 => SilentOf((n + 1) % NotifyEvery) = SilentOf(n) + 1
         /\ SilentOf(n) \in 0..(NotifyEvery - 1)
<1>0. NotifyEvery \in Nat /\ NotifyEvery > 0
  BY NotifyAssumption
<1>1. CASE n + 1 < NotifyEvery
  <2>1. (n + 1) % NotifyEvery = n + 1
    BY <1>0, <1>1
  <2> QED
    BY <1>0, <1>1, <2>1 DEF SilentOf
<1>2. CASE n + 1 = NotifyEvery
  <2>1. (n + 1) % NotifyEvery = 0
    BY <1>0, <1>2
  <2> QED
    BY <1>0, <1>2, <2>1 DEF SilentOf
<1> QED
  BY <1>0, <1>1, <1>2

(* A check that did not pass keeps the bound. *)
LEMMA AgainKeeps ==
  ASSUME SilentInv, NEW counter \in {"low", "failures"}, CheckAgain(counter)
  PROVE  SilentInv'
<1>1. CASE options.wait
  <2>1. balance' = [balance EXCEPT ![counter] = (@ + 1) % NotifyEvery,
                       !.silent = IF balance[counter] = 0 THEN 0 ELSE @ + 1]
    BY <1>1 DEF CheckAgain
  <2>2. balance[counter] \in 0..(NotifyEvery - 1)
    BY DEF SilentInv, SilentType
  <2>3. CASE counter = "low"
    <3>1. /\ balance'.low = (balance.low + 1) % NotifyEvery
          /\ balance'.failures = balance.failures
          /\ balance'.silent = IF balance.low = 0 THEN 0 ELSE balance.silent + 1
      BY <2>1, <2>3 DEF SilentInv, SilentType
    <3>2. balance' \in SilentType
      <4>1. balance.low \in 0..(NotifyEvery - 1) /\ balance.silent \in Nat
        BY DEF SilentInv, SilentType
      <4>2. (balance.low + 1) % NotifyEvery \in 0..(NotifyEvery - 1)
        BY <4>1, NextCount
      <4>3. (IF balance.low = 0 THEN 0 ELSE balance.silent + 1) \in Nat
        BY <4>1
      <4>4. balance' = [balance EXCEPT !.low = (balance.low + 1) % NotifyEvery,
                           !.silent = IF balance.low = 0 THEN 0 ELSE balance.silent + 1]
        BY <2>1, <2>3 DEF SilentInv, SilentType
      <4> QED
        BY <4>2, <4>3, <4>4 DEF SilentInv, SilentType
    <3>3. /\ balance.silent \in Nat
          /\ SilentOf(balance.low) \in 0..(NotifyEvery - 1)
          /\ SilentOf(balance.failures) \in 0..(NotifyEvery - 1)
          /\ SilentOf(balance'.low) \in 0..(NotifyEvery - 1)
          /\ balance.low # 0 => SilentOf(balance'.low) = SilentOf(balance.low) + 1
      BY <3>1, <3>2, NextCount DEF SilentInv, SilentType
    <3>4. balance'.silent <= SilentOf(balance'.low) + SilentOf(balance'.failures)
      BY <3>1, <3>3, NotifyAssumption DEF SilentInv
    <3> QED
      BY <3>2, <3>4 DEF SilentInv
  <2>4. CASE counter = "failures"
    <3>1. /\ balance'.failures = (balance.failures + 1) % NotifyEvery
          /\ balance'.low = balance.low
          /\ balance'.silent = IF balance.failures = 0 THEN 0 ELSE balance.silent + 1
      BY <2>1, <2>4 DEF SilentInv, SilentType
    <3>2. balance' \in SilentType
      <4>1. balance.failures \in 0..(NotifyEvery - 1) /\ balance.silent \in Nat
        BY DEF SilentInv, SilentType
      <4>2. (balance.failures + 1) % NotifyEvery \in 0..(NotifyEvery - 1)
        BY <4>1, NextCount
      <4>3. (IF balance.failures = 0 THEN 0 ELSE balance.silent + 1) \in Nat
        BY <4>1
      <4>4. balance' = [balance EXCEPT !.failures = (balance.failures + 1) % NotifyEvery,
                           !.silent = IF balance.failures = 0 THEN 0 ELSE balance.silent + 1]
        BY <2>1, <2>4 DEF SilentInv, SilentType
      <4> QED
        BY <4>2, <4>3, <4>4 DEF SilentInv, SilentType
    <3>3. /\ balance.silent \in Nat
          /\ SilentOf(balance.low) \in 0..(NotifyEvery - 1)
          /\ SilentOf(balance.failures) \in 0..(NotifyEvery - 1)
          /\ SilentOf(balance'.failures) \in 0..(NotifyEvery - 1)
          /\ balance.failures # 0 => SilentOf(balance'.failures) = SilentOf(balance.failures) + 1
      BY <3>1, <3>2, NextCount DEF SilentInv, SilentType
    <3>4. balance'.silent <= SilentOf(balance'.low) + SilentOf(balance'.failures)
      BY <3>1, <3>3, NotifyAssumption DEF SilentInv
    <3> QED
      BY <3>2, <3>4 DEF SilentInv
  <2> QED
    BY <2>3, <2>4
<1>2. CASE ~options.wait
  BY <1>2 DEF CheckAgain, SilentInv
<1> QED
  BY <1>1, <1>2

(* A check that passed keeps the bound. *)
LEMMA SufficesKeeps ==
  ASSUME NEW seen \in Balances \cup {-1}, BalanceSuffices(seen)
  PROVE  SilentInv'
<1>1. balance' = [NoCheck EXCEPT !.seen = seen]
  BY DEF BalanceSuffices
<1>0. 0 \in 0..(NotifyEvery - 1)
  BY NotifyAssumption
<1>2. balance' \in SilentType
  BY <1>0, <1>1 DEF NoCheck, SilentType
<1>3. balance'.silent = 0 /\ balance'.low = 0 /\ balance'.failures = 0
  BY <1>1 DEF NoCheck
<1> QED
  BY <1>2, <1>3, NotifyAssumption DEF SilentInv, SilentOf

(* Every step keeps the bound of what each counter can still keep silent. *)
LEMMA SilentStep == SilentInv /\ [Next]_vars => SilentInv'
<1> SUFFICES ASSUME SilentInv, [Next]_vars PROVE SilentInv'
  OBVIOUS
<1>1. CASE UNCHANGED balance
  BY <1>1 DEF SilentInv
<1>2. CASE CheckBalanceWithHook
  <2>1. CASE \E skip \in BOOLEAN :
               balance' = [balance EXCEPT !.check = "collector", !.low = 0, !.failures = 0,
                              !.skipTez = skip]
    <3>0. 0 \in 0..(NotifyEvery - 1)
      BY NotifyAssumption
    <3>1. balance' \in SilentType
      BY <2>1, <3>0 DEF SilentInv, SilentType
    <3>2. balance'.silent = balance.silent /\ balance'.low = 0 /\ balance'.failures = 0
      BY <2>1 DEF SilentInv, SilentType
    <3>3. /\ balance.silent \in Nat
          /\ SilentOf(balance.low) \in 0..(NotifyEvery - 1)
          /\ SilentOf(balance.failures) \in 0..(NotifyEvery - 1)
      BY NextCount DEF SilentInv, SilentType
    <3> QED
      BY <3>1, <3>2, <3>3, NotifyAssumption DEF SilentInv, SilentOf
  <2> QED
    BY <1>2, <2>1, AgainKeeps DEF CheckBalanceWithHook
<1>3. CASE CheckBalanceWithCollector
  <2>1. CASE BalanceSuffices(-1)
    BY <2>1, SufficesKeeps
  <2>2. ASSUME NEW available \in Balances,
               IF available > RequiredBalance(payouts)
               THEN BalanceSuffices(available) ELSE CheckAgain("low")
        PROVE  SilentInv'
    BY <2>2, SufficesKeeps, AgainKeeps
  <2>3. CASE CheckAgain("failures")
    BY <2>3, AgainKeeps
  <2> QED
    BY <1>3, <2>1, <2>2, <2>3 DEF CheckBalanceWithCollector
<1>4. CASE Preparing
  BY <1>1, <1>2, <1>3, <1>4 DEF Preparing, PrepNext, PreparePayouts, AccumulatePayouts,
     CollectTransactionFees, ValidatePreparedPayouts, PreparationFails, PartialEstimate
<1> QED
  BY <1>1, <1>4 DEF Next, Generating, Paying, Ended, vars, prepVars

(* However long the command waits for a balance, and whatever alternates,  *)
(* fewer than twice NotifyEvery checks pass without a notice               *)
(* (2_SufficientBalance.go).                                               *)
THEOREM SilentBounded == Spec => []SilentWaitsBounded
<1>1. Init => SilentInv
  BY NotifyAssumption DEF Init, PrepInit, NoCheck, SilentInv, SilentType, SilentOf
<1>2. SilentInv => SilentWaitsBounded
  <2> SUFFICES ASSUME SilentInv PROVE SilentWaitsBounded
    OBVIOUS
  <2>1. /\ SilentOf(balance.low) \in 0..(NotifyEvery - 1)
        /\ SilentOf(balance.failures) \in 0..(NotifyEvery - 1)
    BY NextCount DEF SilentInv, SilentType
  <2> QED
    BY <2>1, NotifyAssumption DEF SilentInv, SilentType, SilentWaitsBounded
<1> QED
  BY <1>1, <1>2, SilentStep, PTL DEF Spec

-----------------------------------------------------------------------------
(* Errors of the generation.                                               *)

(* A cycle that ends does not lead to the preparation after an error. *)
LEMMA CycleEnds ==
  ASSUME NEW produced, NEW error \in BOOLEAN, EndCycle(produced, error)
  PROVE  ErrorStopsPayment'
<1>1. CASE failed'
  <2>1. failed \/ error
    BY <1>1 DEF EndCycle
  <2>2. stage' \in {"check", "failed"}
    BY <2>1 DEF EndCycle
  <2> QED
    BY <2>2 DEF ErrorStopsPayment, GenStages
<1> QED
  BY <1>1 DEF ErrorStopsPayment

(* The stages of the generation keep an error in the generation. *)
LEMMA GeneratingKeeps == ErrorStopsPayment /\ GenNext => ErrorStopsPayment'
<1> SUFFICES ASSUME ErrorStopsPayment, GenNext PROVE ErrorStopsPayment'
  OBVIOUS
<1>1. ASSUME NEW next \in GenStages, Continue(next) PROVE ErrorStopsPayment'
  BY <1>1 DEF Continue, ErrorStopsPayment
<1>2. CASE Panics
  BY <1>2 DEF Panics, ErrorStopsPayment
<1>3. CASE LoadConfiguration
  BY <1>3 DEF LoadConfiguration, ErrorStopsPayment, GenStages
<1>4. CASE CheckConditionsAndPrepare
  <2>1. Continue("collect") \/ EndCycle({}, TRUE)
    BY <1>4 DEF CheckConditionsAndPrepare
  <2> QED
    BY <1>1, <2>1, CycleEnds DEF GenStages
<1>5. CASE GeneratePayoutCandidates
  <2>1. Continue("distribute") \/ EndCycle({}, FALSE)
    BY <1>5 DEF GeneratePayoutCandidates
  <2> QED
    BY <1>1, <2>1, CycleEnds DEF GenStages
<1>6. CASE DistributeBonds
  <2>1. Continue("fees") \/ Panics
    BY <1>6 DEF DistributeBonds
  <2> QED
    BY <1>1, <1>2, <2>1 DEF GenStages
<1>7. CASE CollectBakerFee
  BY <1>1, <1>7 DEF CollectBakerFee, GenStages
<1>8. CASE ValidateRecipe
  BY <1>1, <1>8 DEF ValidateRecipe, GenStages
<1>9. CASE FinalizeRecipes
  BY <1>1, <1>9 DEF FinalizeRecipes, GenStages
<1>10. CASE CreateBlueprint
  BY <1>10, CycleEnds DEF CreateBlueprint
<1>11. CASE GenerationFails
  BY <1>11, CycleEnds DEF GenerationFails, StageFails
<1> QED
  BY <1>3, <1>4, <1>5, <1>6, <1>7, <1>8, <1>9, <1>10, <1>11 DEF GenNext

(* Whatever the number of cycles and wherever an error comes, nothing is   *)
(* prepared or paid after it (a_common.go).                                *)
THEOREM ErrorsStop == Spec => []ErrorStopsPayment
<1>1. Init => ErrorStopsPayment
  BY DEF Init, GenInit, ErrorStopsPayment
<1>2. ErrorStopsPayment /\ [Next]_vars => ErrorStopsPayment'
  <2> SUFFICES ASSUME ErrorStopsPayment, [Next]_vars PROVE ErrorStopsPayment'
    OBVIOUS
  <2>1. CASE Generating
    BY <2>1, GeneratingKeeps DEF Generating
  <2>2. CASE Preparing
    <3>1. failed' = failed /\ stage \in PrepStages
      BY <2>2 DEF Preparing, PrepNext, PreparePayouts, AccumulatePayouts,
         CheckBalanceWithHook, CheckBalanceWithCollector, CollectTransactionFees,
         ValidatePreparedPayouts, PreparationFails, PartialEstimate, PrepStages
    <3> QED
      BY <3>1 DEF ErrorStopsPayment, GenStages, PrepStages
  <2>3. CASE Paying
    <3>1. failed' = failed /\ stage \in PayStages \cup {"split"}
      BY <2>3 DEF Paying, BatchNext, ShowPrepared, SplitIntoBatches, SplitNextPayout,
         SplitNextClass, ExecutePayouts, PayStages
    <3> QED
      BY <3>1 DEF ErrorStopsPayment, GenStages, PayStages
  <2>4. CASE UNCHANGED vars
    BY <2>4 DEF vars, genVars, ErrorStopsPayment
  <2> QED
    BY <2>1, <2>2, <2>3, <2>4 DEF Next, Ended
<1> QED
  BY <1>1, <1>2, PTL DEF Spec

-----------------------------------------------------------------------------
(* Batches.                                                                *)

\* Payouts that one operation may hold.
Mixable(a, c) ==
    ClassOf(a) # ClassOf(c) =>
        /\ "fa" \in {ClassOf(a), ClassOf(c)} => options.mixInFA
        /\ "contract" \in {ClassOf(a), ClassOf(c)} => options.mixInContracts

Uniform(as) == \A a, c \in as : Mixable(a, c)

Apart(as, bs) == \A a \in as : a \notin bs

\* A queue of sets of payouts that may be batched together, each payout at
\* most once.
Sorted(q) ==
    /\ q \in Seq(SUBSET payouts) /\ q # <<>>
    /\ \A i \in DOMAIN q : Uniform(q[i])
    /\ \A i, j \in DOMAIN q : i # j => Apart(q[i], q[j])

SplitInv ==
    /\ Sorted(queue)
    /\ batch \subseteq payouts /\ batches \subseteq SUBSET payouts
    /\ \A a \in payouts : \/ a \in batch
                          \/ \E b \in batches : a \in b
                          \/ \E i \in DOMAIN queue : a \in queue[i]
    /\ \A i \in DOMAIN queue : Apart(queue[i], batch)
    /\ \A i \in DOMAIN queue, b \in batches : Apart(queue[i], b)
    /\ \A b \in batches : Apart(batch, b)
    /\ \A b, c \in batches : b # c => Apart(b, c)
    /\ \A b \in batches : Uniform(b)
    /\ Uniform(queue[1] \cup batch)

\* The stages that make no batch.
Before == {"load"} \cup GenStages \cup PrepStages \cup {"prepared", "confirm"}

BatchInv ==
    /\ stage \in Before => batch = {} /\ batches = {}
    /\ stage = "split" => SplitInv
    /\ BatchesPartition

(* The queues of one, two and three sets. *)
LEMMA Queue1 ==
  ASSUME NEW A \in SUBSET payouts, Uniform(A)
  PROVE  Sorted(<<A>>) /\ DOMAIN <<A>> = {1}
<1>1. <<A>> \in Seq(SUBSET payouts) /\ <<A>> # <<>> /\ DOMAIN <<A>> = {1} /\ <<A>>[1] = A
  OBVIOUS
<1> QED
  BY <1>1 DEF Sorted

(* A queue of two classes. *)
LEMMA Queue2 ==
  ASSUME NEW A \in SUBSET payouts, NEW B \in SUBSET payouts, Uniform(A), Uniform(B),
         Apart(A, B)
  PROVE  Sorted(<<A, B>>) /\ DOMAIN <<A, B>> = {1, 2}
<1>1. /\ <<A, B>> \in Seq(SUBSET payouts) /\ <<A, B>> # <<>> /\ DOMAIN <<A, B>> = {1, 2}
      /\ <<A, B>>[1] = A /\ <<A, B>>[2] = B
  OBVIOUS
<1>2. Apart(B, A)
  BY DEF Apart
<1> QED
  BY <1>1, <1>2 DEF Sorted

(* A queue of three classes. *)
LEMMA Queue3 ==
  ASSUME NEW A \in SUBSET payouts, NEW B \in SUBSET payouts, NEW C \in SUBSET payouts,
         Uniform(A), Uniform(B), Uniform(C), Apart(A, B), Apart(A, C), Apart(B, C)
  PROVE  Sorted(<<A, B, C>>) /\ DOMAIN <<A, B, C>> = {1, 2, 3}
<1>1. /\ <<A, B, C>> \in Seq(SUBSET payouts) /\ <<A, B, C>> # <<>>
      /\ DOMAIN <<A, B, C>> = {1, 2, 3}
      /\ <<A, B, C>>[1] = A /\ <<A, B, C>>[2] = B /\ <<A, B, C>>[3] = C
  OBVIOUS
<1>2. Apart(B, A) /\ Apart(C, A) /\ Apart(C, B)
  BY DEF Apart
<1> QED
  BY <1>1, <1>2 DEF Sorted

(* One more entry, and two. *)
LEMMA OneAndOne == \A x, z : <<x>> \o <<z>> = <<x, z>>
<1> SUFFICES ASSUME NEW x, NEW z PROVE <<x>> \o <<z>> = <<x, z>>
  OBVIOUS
<1> DEFINE T == {x, z}
<1>1. /\ <<x>> \in Seq(T) /\ <<z>> \in Seq(T) /\ <<x, z>> \in Seq(T)
      /\ Len(<<x>>) = 1 /\ Len(<<z>>) = 1 /\ Len(<<x, z>>) = 2
  OBVIOUS
<1> HIDE DEF T
<1>2. /\ \A i \in 1..2 : (<<x>> \o <<z>>)[i] = <<x, z>>[i]
      /\ Len(<<x>> \o <<z>>) = 2 /\ <<x>> \o <<z>> \in Seq(T)
  BY <1>1, ConcatProperties
<1> QED
  BY <1>1, <1>2, SeqEqual

(* Two and one are three. *)
LEMMA TwoAndOne == \A x, y, z : <<x, y>> \o <<z>> = <<x, y, z>>
<1> SUFFICES ASSUME NEW x, NEW y, NEW z PROVE <<x, y>> \o <<z>> = <<x, y, z>>
  OBVIOUS
<1> DEFINE T == {x, y, z}
<1>1. /\ <<x, y>> \in Seq(T) /\ <<z>> \in Seq(T) /\ <<x, y, z>> \in Seq(T)
      /\ Len(<<x, y>>) = 2 /\ Len(<<z>>) = 1 /\ Len(<<x, y, z>>) = 3
  OBVIOUS
<1> HIDE DEF T
<1>2. /\ \A i \in 1..3 : (<<x, y>> \o <<z>>)[i] = <<x, y, z>>[i]
      /\ Len(<<x, y>> \o <<z>>) = 3 /\ <<x, y>> \o <<z>> \in Seq(T)
  BY <1>1, ConcatProperties
<1> QED
  BY <1>1, <1>2, SeqEqual

(* The queue of the classes, whichever are mixed in, holds every payout    *)
(* once, and no two in one entry that may not share a batch.               *)
LEMMA QueueOfClasses ==
  /\ Sorted(ToBatch)
  /\ \A a \in payouts : \E i \in DOMAIN ToBatch : a \in ToBatch[i]
<1> DEFINE Of(class) == Classes(payouts, class)
           Mixed(classes) == UNION {Of(class) : class \in classes}
<1>1. \A a \in payouts : ClassOf(a) \in {"fa", "contract", "plain"}
  BY DEF ClassOf
<1>2. \A class : Of(class) \in SUBSET payouts /\ Uniform(Of(class))
  BY DEF Classes, Uniform, Mixable
<1>3. \A class : \A a : a \in Of(class) <=> a \in payouts /\ ClassOf(a) = class
  BY DEF Classes
<1>4. \A classes : \A a : a \in Mixed(classes) <=> a \in payouts /\ ClassOf(a) \in classes
  BY <1>3
<1>5. \A classes : Mixed(classes) \in SUBSET payouts
  BY <1>4
<1>6. Apart(Of("fa"), Of("contract"))
  BY <1>3 DEF Apart
<1> HIDE DEF Of, Mixed
<1>7. CASE ~options.mixInFA /\ ~options.mixInContracts
  <2>1. <<"fa">> \o <<"contract">> = <<"fa", "contract">>
    BY OneAndOne
  <2>2. /\ {"fa", "contract", "plain"}
              \ {<<"fa", "contract">>[i] : i \in DOMAIN <<"fa", "contract">>} = {"plain"}
        /\ [i \in DOMAIN <<"fa", "contract">> |-> Of(<<"fa", "contract">>[i])]
              = <<Of("fa"), Of("contract")>>
    OBVIOUS
  <2>3. <<Of("fa"), Of("contract")>> \o <<Mixed({"plain"})>>
          = <<Of("fa"), Of("contract"), Mixed({"plain"})>>
    BY TwoAndOne
  <2>4. ToBatch = <<Of("fa"), Of("contract"), Mixed({"plain"})>>
    BY <1>7, <2>1, <2>2, <2>3 DEF ToBatch, Of, Mixed
  <2>5. Uniform(Mixed({"plain"}))
    BY <1>4 DEF Uniform, Mixable
  <2>6. Apart(Of("fa"), Mixed({"plain"})) /\ Apart(Of("contract"), Mixed({"plain"}))
    BY <1>3, <1>4 DEF Apart
  <2>7. Sorted(ToBatch) /\ DOMAIN ToBatch = {1, 2, 3}
    BY <1>2, <1>5, <1>6, <2>4, <2>5, <2>6, Queue3
  <2>8. ToBatch[1] = Of("fa") /\ ToBatch[2] = Of("contract") /\ ToBatch[3] = Mixed({"plain"})
    BY <2>4
  <2> QED
    BY <1>1, <1>3, <1>4, <2>7, <2>8
<1>8. CASE ~options.mixInFA /\ options.mixInContracts
  <2>1. /\ {"fa", "contract", "plain"} \ {<<"fa">>[i] : i \in DOMAIN <<"fa">>}
              = {"contract", "plain"}
        /\ [i \in DOMAIN <<"fa">> |-> Of(<<"fa">>[i])] = <<Of("fa")>>
        /\ <<"fa">> \o <<>> = <<"fa">>
    OBVIOUS
  <2>2. <<Of("fa")>> \o <<Mixed({"contract", "plain"})>>
          = <<Of("fa"), Mixed({"contract", "plain"})>>
    BY OneAndOne
  <2>3. ToBatch = <<Of("fa"), Mixed({"contract", "plain"})>>
    BY <1>8, <2>1, <2>2 DEF ToBatch, Of, Mixed
  <2>4. Uniform(Mixed({"contract", "plain"}))
    BY <1>4, <1>8 DEF Uniform, Mixable
  <2>5. Apart(Of("fa"), Mixed({"contract", "plain"}))
    BY <1>3, <1>4 DEF Apart
  <2>6. Sorted(ToBatch) /\ DOMAIN ToBatch = {1, 2}
    BY <1>2, <1>5, <2>3, <2>4, <2>5, Queue2
  <2>7. ToBatch[1] = Of("fa") /\ ToBatch[2] = Mixed({"contract", "plain"})
    BY <2>3
  <2> QED
    BY <1>1, <1>3, <1>4, <2>6, <2>7
<1>9. CASE options.mixInFA /\ ~options.mixInContracts
  <2>1. /\ {"fa", "contract", "plain"} \ {<<"contract">>[i] : i \in DOMAIN <<"contract">>}
              = {"fa", "plain"}
        /\ [i \in DOMAIN <<"contract">> |-> Of(<<"contract">>[i])] = <<Of("contract")>>
        /\ <<>> \o <<"contract">> = <<"contract">>
    OBVIOUS
  <2>2. <<Of("contract")>> \o <<Mixed({"fa", "plain"})>>
          = <<Of("contract"), Mixed({"fa", "plain"})>>
    BY OneAndOne
  <2>3. ToBatch = <<Of("contract"), Mixed({"fa", "plain"})>>
    BY <1>9, <2>1, <2>2 DEF ToBatch, Of, Mixed
  <2>4. Uniform(Mixed({"fa", "plain"}))
    BY <1>4, <1>9 DEF Uniform, Mixable
  <2>5. Apart(Of("contract"), Mixed({"fa", "plain"}))
    BY <1>3, <1>4 DEF Apart
  <2>6. Sorted(ToBatch) /\ DOMAIN ToBatch = {1, 2}
    BY <1>2, <1>5, <2>3, <2>4, <2>5, Queue2
  <2>7. ToBatch[1] = Of("contract") /\ ToBatch[2] = Mixed({"fa", "plain"})
    BY <2>3
  <2> QED
    BY <1>1, <1>3, <1>4, <2>6, <2>7
<1>10. CASE options.mixInFA /\ options.mixInContracts
  <2>1. /\ {"fa", "contract", "plain"} \ {<<>>[i] : i \in DOMAIN <<>>}
              = {"fa", "contract", "plain"}
        /\ [i \in DOMAIN <<>> |-> Of(<<>>[i])] = <<>>
        /\ <<>> \o <<>> = <<>>
        /\ <<>> \o <<Mixed({"fa", "contract", "plain"})>>
              = <<Mixed({"fa", "contract", "plain"})>>
    OBVIOUS
  <2>2. ToBatch = <<Mixed({"fa", "contract", "plain"})>>
    BY <1>10, <2>1 DEF ToBatch, Of, Mixed
  <2>3. Uniform(Mixed({"fa", "contract", "plain"}))
    BY <1>4, <1>10 DEF Uniform, Mixable
  <2>4. Sorted(ToBatch) /\ DOMAIN ToBatch = {1}
    BY <1>5, <2>2, <2>3, Queue1
  <2>5. ToBatch[1] = Mixed({"fa", "contract", "plain"})
    BY <2>2
  <2> QED
    BY <1>1, <1>4, <2>4, <2>5
<1> QED
  BY <1>7, <1>8, <1>9, <1>10

-----------------------------------------------------------------------------

\* A payout of the head leaves the queue for a batch it may share.
LEMMA TakesFirst ==
  ASSUME Sorted(queue), NEW a \in Head(queue), queue' = Rest(a), UNCHANGED <<payouts, options>>
  PROVE  /\ Sorted(queue)' /\ DOMAIN queue' = DOMAIN queue
         /\ 1 \in DOMAIN queue /\ a \in queue[1] /\ a \in payouts
         /\ \A i \in DOMAIN queue : \A c : c \in queue'[i] <=> c \in queue[i] /\ c # a
<1>1. /\ queue \in Seq(SUBSET payouts) /\ queue # <<>> /\ Len(queue) \in Nat /\ Len(queue) # 0
      /\ DOMAIN queue = 1..Len(queue) /\ Head(queue) = queue[1]
  BY DEF Sorted
<1>2. /\ 1 \in DOMAIN queue /\ a \in queue[1] /\ queue[1] \in SUBSET payouts
  BY <1>1
<1>3. queue' = [queue EXCEPT ![1] = queue[1] \ {a}] /\ queue[1] \ {a} \in SUBSET payouts
  BY <1>1, <1>2 DEF Rest
<1>4. queue' \in Seq(SUBSET payouts) /\ Len(queue') = Len(queue) /\ queue' # <<>>
  BY <1>1, <1>2, <1>3, ExceptSeq
<1>5. DOMAIN queue' = DOMAIN queue
  BY <1>3
<1>6. \A i \in DOMAIN queue : \A c : c \in queue'[i] <=> c \in queue[i] /\ c # a
  <2> SUFFICES ASSUME NEW i \in DOMAIN queue, NEW c
               PROVE  c \in queue'[i] <=> c \in queue[i] /\ c # a
    OBVIOUS
  <2>1. CASE i = 1
    BY <1>3, <2>1
  <2>2. CASE i # 1
    <3>1. queue'[i] = queue[i] /\ Apart(queue[1], queue[i])
      BY <1>2, <1>3, <2>2 DEF Sorted
    <3> QED
      BY <1>2, <3>1 DEF Apart
  <2> QED
    BY <2>1, <2>2
<1>7. /\ \A i \in DOMAIN queue : Uniform(queue[i])
      /\ \A i, j \in DOMAIN queue : i # j => Apart(queue[i], queue[j])
  BY DEF Sorted
<1>8. Sorted(queue)'
  BY <1>4, <1>5, <1>6, <1>7 DEF Sorted, Uniform, Mixable, Apart, ClassOf
<1> QED
  BY <1>1, <1>2, <1>5, <1>6, <1>8

\* Closing the batch adds it, unless it is empty.
LEMMA ClosedBatches == \A b : b \in Closed <=> b \in batches \/ (b = batch /\ b # {})
  BY Zenon DEF Closed

(* A payout that fits is added to the open batch. *)
LEMMA AddToBatchKeeps ==
  ASSUME SplitInv, NEW a \in Head(queue), AddToBatch(a), UNCHANGED <<payouts, options>>
  PROVE  SplitInv'
<1>1. /\ Sorted(queue)' /\ DOMAIN queue' = DOMAIN queue
      /\ 1 \in DOMAIN queue /\ a \in queue[1] /\ a \in payouts
      /\ \A i \in DOMAIN queue : \A c : c \in queue'[i] <=> c \in queue[i] /\ c # a
  BY TakesFirst DEF SplitInv, AddToBatch
<1>2. batch' = batch \cup {a} /\ batches' = batches
  BY DEF AddToBatch
<1>3. /\ batch' \subseteq payouts /\ batches' \subseteq SUBSET payouts
      /\ \A c \in payouts : \/ c \in batch'
                            \/ \E b \in batches' : c \in b
                            \/ \E i \in DOMAIN queue' : c \in queue'[i]
  BY <1>1, <1>2 DEF SplitInv
<1>4. /\ \A i \in DOMAIN queue' : Apart(queue'[i], batch')
      /\ \A i \in DOMAIN queue', b \in batches' : Apart(queue'[i], b)
  BY <1>1, <1>2 DEF SplitInv, Apart
<1>5. \A b \in batches' : Apart(batch', b)
  BY <1>1, <1>2 DEF SplitInv, Apart
<1>6. Uniform(queue[1] \cup batch) /\ queue'[1] \cup batch' \subseteq queue[1] \cup batch
  BY <1>1, <1>2 DEF SplitInv
<1>7. Uniform(queue[1] \cup batch)'
  BY <1>6 DEF Uniform, Mixable, ClassOf
<1>8. /\ \A b, c \in batches' : b # c => Apart(b, c)
      /\ \A b \in batches' : Uniform(b)'
  BY <1>2 DEF SplitInv, Apart, Uniform, Mixable, ClassOf
<1> QED
  BY <1>1, <1>3, <1>4, <1>5, <1>7, <1>8 DEF SplitInv, Apart

(* One that does not opens the next batch. *)
LEMMA OpenNextBatchKeeps ==
  ASSUME SplitInv, NEW a \in Head(queue), OpenNextBatch(a), AddPayout({}, a),
         UNCHANGED <<payouts, options>>
  PROVE  SplitInv'
<1>1. /\ batch' = {a} /\ queue' = Rest(a)
      /\ \A b : b \in batches' <=> b \in batches \/ (b = batch /\ b # {})
  BY ClosedBatches DEF OpenNextBatch
<1>2. /\ Sorted(queue)' /\ DOMAIN queue' = DOMAIN queue
      /\ 1 \in DOMAIN queue /\ a \in queue[1] /\ a \in payouts
      /\ \A i \in DOMAIN queue : \A c : c \in queue'[i] <=> c \in queue[i] /\ c # a
  BY <1>1, TakesFirst DEF SplitInv
<1>3. batch' \subseteq payouts /\ batches' \subseteq SUBSET payouts
  BY <1>1, <1>2 DEF SplitInv
<1>4. \A c \in payouts : \/ c \in batch'
                         \/ \E b \in batches' : c \in b
                         \/ \E i \in DOMAIN queue' : c \in queue'[i]
  <2> SUFFICES ASSUME NEW c \in payouts
               PROVE  \/ c \in batch'
                      \/ \E b \in batches' : c \in b
                      \/ \E i \in DOMAIN queue' : c \in queue'[i]
    OBVIOUS
  <2>1. CASE c \in batch
    <3>1. batch \in batches'
      BY <1>1, <2>1
    <3> QED
      BY <2>1, <3>1
  <2>2. CASE \E b \in batches : c \in b
    BY <1>1, <2>2
  <2>3. CASE \E i \in DOMAIN queue : c \in queue[i]
    BY <1>1, <1>2, <2>3
  <2> QED
    BY <2>1, <2>2, <2>3 DEF SplitInv
<1>5. /\ \A i \in DOMAIN queue' : Apart(queue'[i], batch')
      /\ \A i \in DOMAIN queue', b \in batches' : Apart(queue'[i], b)
  BY <1>1, <1>2 DEF SplitInv, Apart
<1>6. \A b \in batches' : Apart(batch', b)
  BY <1>1, <1>2 DEF SplitInv, Apart
<1>7. \A b, c \in batches' : b # c => Apart(b, c)
  BY <1>1 DEF SplitInv, Apart
<1>8. Uniform(queue[1] \cup batch) /\ queue'[1] \cup batch' \subseteq queue[1] \cup batch
  BY <1>1, <1>2 DEF SplitInv
<1>9. Uniform(queue[1] \cup batch)'
  BY <1>8 DEF Uniform, Mixable, ClassOf
<1>10. \A b \in batches' : Uniform(b)
  BY <1>1, <1>8 DEF SplitInv, Uniform
<1>11. \A b \in batches' : Uniform(b)'
  BY <1>10 DEF Uniform, Mixable, ClassOf
<1> QED
  BY <1>2, <1>3, <1>4, <1>5, <1>6, <1>7, <1>9, <1>11 DEF SplitInv, Apart

\* The first class is done: its last batch is closed, the next one begins.
LEMMA NextClassKeeps ==
  ASSUME SplitInv, SplitNextClass, UNCHANGED <<payouts, options>>
  PROVE  IF Len(queue) = 1
         THEN stage' = "execute" /\ BatchesPartition'
         ELSE stage' = "split" /\ SplitInv'
<1>1. /\ queue \in Seq(SUBSET payouts) /\ queue # <<>> /\ Len(queue) \in Nat /\ Len(queue) # 0
      /\ DOMAIN queue = 1..Len(queue) /\ queue[1] = {}
      /\ stage' = IF Len(queue) = 1 THEN "execute" ELSE "split"
  BY DEF SplitInv, Sorted, SplitNextClass
<1>2. /\ batch' = {} /\ queue' = Tail(queue)
      /\ \A b : b \in batches' <=> b \in batches \/ (b = batch /\ b # {})
  BY ClosedBatches DEF SplitNextClass
<1>3. Uniform(batch)
  BY DEF SplitInv, Uniform
<1>4. \A b \in batches' : Uniform(b)
  BY <1>2, <1>3 DEF SplitInv
<1>5. \A b, c \in batches' : b # c => Apart(b, c)
  BY <1>2 DEF SplitInv, Apart
<1>6. batches' \subseteq SUBSET payouts
  BY <1>2 DEF SplitInv
<1>7. CASE Len(queue) = 1
  <2>1. \A a \in payouts : \E b \in batches' : a \in b
    BY <1>1, <1>2, <1>7 DEF SplitInv
  <2>2. UNION batches' = payouts
    BY <2>1, <1>6
  <2>3. \A b, c \in batches' : b # c => b \cap c = {}
    BY <1>5 DEF Apart
  <2> QED
    BY <1>1, <1>4, <1>7, <2>2, <2>3 DEF BatchesPartition, Uniform, Mixable, ClassOf
<1>8. CASE Len(queue) # 1
  <2>1. /\ Tail(queue) \in Seq(SUBSET payouts) /\ Len(Tail(queue)) = Len(queue) - 1
        /\ \A i \in 1..(Len(queue) - 1) : Tail(queue)[i] = queue[i + 1]
    BY <1>1, HeadTailProperties
  <2>2. /\ queue' \in Seq(SUBSET payouts) /\ queue' # <<>>
        /\ DOMAIN queue' = 1..(Len(queue) - 1)
        /\ 1 \in DOMAIN queue'
        /\ \A i \in DOMAIN queue' : i + 1 \in DOMAIN queue /\ queue'[i] = queue[i + 1]
    <3> DEFINE n == Len(queue)
    <3>1. /\ queue' \in Seq(SUBSET payouts) /\ Len(queue') = n - 1
          /\ \A i \in 1..(n - 1) : queue'[i] = queue[i + 1]
      BY <1>2, <2>1
    <3>2. DOMAIN queue' = 1..(n - 1)
      BY <3>1
    <3>3. n \in Nat /\ n - 1 > 0
      BY <1>1, <1>8
    <3>4. 1 \in 1..(n - 1) /\ \A i \in 1..(n - 1) : i + 1 \in 1..n
      BY <3>3
    <3>5. queue' # <<>>
      BY <3>2, <3>4
    <3> QED
      BY <1>1, <3>1, <3>2, <3>4, <3>5
  <2>3. /\ \A i \in DOMAIN queue' : Uniform(queue'[i])
        /\ \A i, j \in DOMAIN queue' : i # j => Apart(queue'[i], queue'[j])
    <3>1. \A i, j \in DOMAIN queue' : i # j => i + 1 # j + 1
      BY <1>1, <2>2
    <3> QED
      BY <2>2, <3>1 DEF SplitInv, Sorted
  <2>4. Sorted(queue)'
    BY <2>2, <2>3 DEF Sorted, Uniform, Mixable, Apart, ClassOf
  <2>5. \A a \in payouts : \/ \E b \in batches' : a \in b
                           \/ \E i \in DOMAIN queue' : a \in queue'[i]
    <3> SUFFICES ASSUME NEW a \in payouts, ~ \E b \in batches' : a \in b
                 PROVE  \E i \in DOMAIN queue' : a \in queue'[i]
      BY Zenon
    <3>1. PICK j \in DOMAIN queue : a \in queue[j]
      BY <1>2 DEF SplitInv
    <3>2. j # 1 /\ j - 1 \in DOMAIN queue' /\ (j - 1) + 1 = j
      BY <1>1, <2>2, <3>1
    <3> QED
      BY <2>2, <3>1, <3>2
  <2>6. \A i \in DOMAIN queue', b \in batches' : Apart(queue'[i], b)
    BY <1>2, <2>2 DEF SplitInv
  <2>7. /\ \A i \in DOMAIN queue' : Apart(queue'[i], batch')
        /\ \A b \in batches' : Apart(batch', b)
    BY <1>2 DEF Apart
  <2>8. Uniform(queue[1] \cup batch)'
    BY <1>2, <2>2, <2>3 DEF Uniform, Mixable, ClassOf
  <2>9. \A b \in batches' : Uniform(b)'
    BY <1>4 DEF Uniform, Mixable, ClassOf
  <2>10. SplitInv'
    BY <1>2, <1>5, <1>6, <2>4, <2>5, <2>6, <2>7, <2>8, <2>9 DEF SplitInv, Apart
  <2> QED
    BY <1>1, <1>8, <2>10
<1> QED
  BY <1>7, <1>8

\* Until the user confirms nothing is batched.
LEMMA NothingBatched ==
  ASSUME BatchInv, stage \in Before, stage' \notin {"split", "execute"},
         UNCHANGED <<batch, batches>>
  PROVE  BatchInv'
  BY DEF BatchInv, BatchesPartition

\* The stages of the generation and of the preparation.
LEMMA StagesBefore ==
  /\ Generating => stage \in Before /\ stage' \notin {"split", "execute"}
  /\ Preparing => stage \in Before /\ stage' \notin {"split", "execute"}
<1>1. ASSUME Generating PROVE stage \in Before /\ stage' \notin {"split", "execute"}
  <2>1. \A produced, error : EndCycle(produced, error) => stage' \notin {"split", "execute"}
    BY DEF EndCycle
  <2>2. /\ Panics => stage' \notin {"split", "execute"}
        /\ \A next \in GenStages : Continue(next) => stage' \notin {"split", "execute"}
    BY DEF Panics, Continue, GenStages
  <2>3. CASE LoadConfiguration
    BY <2>3 DEF LoadConfiguration, Before
  <2>4. CASE CheckConditionsAndPrepare
    BY <2>1, <2>2, <2>4 DEF CheckConditionsAndPrepare, Before, GenStages
  <2>5. CASE GeneratePayoutCandidates
    BY <2>1, <2>2, <2>5 DEF GeneratePayoutCandidates, Before, GenStages
  <2>6. CASE DistributeBonds
    BY <2>2, <2>6 DEF DistributeBonds, Before, GenStages
  <2>7. CASE CollectBakerFee \/ ValidateRecipe \/ FinalizeRecipes
    BY <2>2, <2>7 DEF CollectBakerFee, ValidateRecipe, FinalizeRecipes, Before, GenStages
  <2>8. CASE CreateBlueprint \/ GenerationFails
    BY <2>1, <2>8 DEF CreateBlueprint, GenerationFails, StageFails, Before, GenStages
  <2> QED
    BY <1>1, <2>3, <2>4, <2>5, <2>6, <2>7, <2>8 DEF Generating, GenNext
<1>2. ASSUME Preparing PROVE stage \in Before /\ stage' \notin {"split", "execute"}
  BY <1>2 DEF Preparing, PrepNext, PreparePayouts, AccumulatePayouts, CheckBalanceWithHook,
     CheckBalanceWithCollector, CheckAgain, BalanceSuffices, CollectTransactionFees,
     ValidatePreparedPayouts, PreparationFails, PartialEstimate, Before, PrepStages
<1> QED
  BY <1>1, <1>2

\* One payout more, or the next class.
LEMMA SplittingKeeps ==
  ASSUME BatchInv, Paying, SplitNextPayout \/ SplitNextClass
  PROVE  BatchInv'
<1>1. UNCHANGED <<payouts, options>> /\ stage = "split" /\ SplitInv
  BY DEF Paying, prepVars, BatchInv, SplitNextPayout, SplitNextClass
<1>2. ASSUME stage' = "split", SplitInv' PROVE BatchInv'
  BY <1>2 DEF BatchInv, BatchesPartition, Before, GenStages, PrepStages
<1>3. ASSUME NEW a \in Head(queue), AddToBatch(a) PROVE BatchInv'
  BY <1>1, <1>2, <1>3, AddToBatchKeeps DEF AddToBatch
<1>4. ASSUME NEW a \in Head(queue), OpenNextBatch(a) PROVE BatchInv'
  <2>1. CASE AddPayout({}, a)
    BY <1>1, <1>2, <1>4, <2>1, OpenNextBatchKeeps DEF OpenNextBatch
  <2>2. CASE ~AddPayout({}, a)
    BY <1>4, <2>2
       DEF OpenNextBatch, BatchInv, BatchesPartition, Before, GenStages, PrepStages
  <2> QED
    BY <2>1, <2>2
<1>5. CASE SplitNextClass
  <2>1. CASE Len(queue) = 1
    BY <1>1, <1>5, <2>1, NextClassKeeps DEF BatchInv, Before, GenStages, PrepStages
  <2>2. CASE Len(queue) # 1
    BY <1>1, <1>2, <1>5, <2>2, NextClassKeeps
  <2> QED
    BY <2>1, <2>2
<1> QED
  BY <1>3, <1>4, <1>5 DEF SplitNextPayout

\* The queue of the classes when the user confirms.
LEMMA ConfirmKeeps ==
  ASSUME BatchInv, Paying, SplitIntoBatches
  PROVE  BatchInv'
<1>1. /\ UNCHANGED <<payouts, options, batch, batches>>
      /\ batch = {} /\ batches = {}
  BY DEF Paying, prepVars, SplitIntoBatches, BatchInv, Before
<1>2. CASE stage' = "failed"
  BY <1>2 DEF BatchInv, BatchesPartition, Before, GenStages, PrepStages
<1>3. CASE queue' = ToBatch /\ stage' = "split"
  <2>1. Sorted(queue)' /\ \A a \in payouts : \E i \in DOMAIN queue' : a \in queue'[i]
    BY <1>1, <1>3, QueueOfClasses DEF Sorted, Uniform, Mixable, ClassOf
  <2>2. 1 \in DOMAIN queue'
    BY <2>1 DEF Sorted
  <2>3. Uniform(queue[1] \cup batch)'
    BY <1>1, <2>1, <2>2 DEF Sorted, Uniform
  <2>4. SplitInv'
    BY <1>1, <2>1, <2>3 DEF SplitInv, Apart
  <2> QED
    BY <1>3, <2>4 DEF BatchInv, BatchesPartition, Before, GenStages, PrepStages
<1> QED
  BY <1>2, <1>3 DEF SplitIntoBatches

(* Whatever the payouts, the order they are taken in and the limits, the   *)
(* batches hold each payout once and mix no classes but those the options  *)
(* mix in (0_SplitIntoBatches.go).                                         *)
THEOREM Partition == Spec => []BatchesPartition
<1>1. Init => BatchInv
  BY DEF Init, GenInit, BatchInit, BatchInv, BatchesPartition
<1>2. BatchInv /\ [Next]_vars => BatchInv'
  <2> SUFFICES ASSUME BatchInv, [Next]_vars PROVE BatchInv'
    OBVIOUS
  <2>1. CASE Generating
    BY <2>1, StagesBefore, NothingBatched DEF Generating, batchVars
  <2>2. CASE Preparing
    BY <2>2, StagesBefore, NothingBatched DEF Preparing, batchVars
  <2>3. CASE Paying
    <3>1. CASE ShowPrepared
      BY <3>1, NothingBatched DEF ShowPrepared, Before
    <3>2. CASE ExecutePayouts
      BY <3>2 DEF ExecutePayouts, BatchInv, BatchesPartition, Before, GenStages, PrepStages
    <3> QED
      BY <2>3, <3>1, <3>2, SplittingKeeps, ConfirmKeeps DEF Paying, BatchNext
  <2>4. CASE UNCHANGED vars
    <3>1. UNCHANGED <<stage, payouts, options, queue, batch, batches>>
      BY <2>4 DEF vars, genVars, prepVars, batchVars
    <3> QED
      BY <3>1 DEF BatchInv, BatchesPartition, SplitInv, Sorted, Uniform, Mixable, Apart, ClassOf
  <2> QED
    BY <2>1, <2>2, <2>3, <2>4 DEF Next, Ended
<1>3. BatchInv => BatchesPartition
  BY DEF BatchInv
<1> QED
  BY <1>1, <1>2, <1>3, PTL DEF Spec

-----------------------------------------------------------------------------
(* What the generation keeps, in the whole run.                            *)

\* The stages of the preparation and of the payment follow the generation.
LEMMA LaterStages ==
  ASSUME Preparing \/ Paying
  PROVE  stage \in PrepStages \cup PayStages /\ stage' \notin OpenStages
<1>1. CASE Preparing
  <2>1. stage \in PrepStages
    BY <1>1 DEF Preparing, PrepNext, PreparePayouts, AccumulatePayouts,
       CheckBalanceWithHook, CheckBalanceWithCollector, CollectTransactionFees,
       ValidatePreparedPayouts, PreparationFails, PartialEstimate, PrepStages
  <2>2. stage' \in {stage} \cup PrepStages \cup {"prepared", "failed", "panicked"}
    BY <1>1 DEF Preparing, PrepNext, PreparePayouts, AccumulatePayouts,
       CheckBalanceWithHook, CheckBalanceWithCollector, CheckAgain, BalanceSuffices,
       CollectTransactionFees, ValidatePreparedPayouts, PreparationFails, PartialEstimate,
       PrepStages
  <2> QED
    BY <2>1, <2>2 DEF PrepStages, OpenStages, WorkStages
<1>2. CASE Paying
  <2>1. stage \in PayStages
    BY <1>2 DEF Paying, BatchNext, ShowPrepared, SplitIntoBatches, SplitNextPayout,
       SplitNextClass, ExecutePayouts, PayStages
  <2>2. stage' \in PayStages \cup EndStages
    BY <1>2 DEF Paying, BatchNext, ShowPrepared, SplitIntoBatches, SplitNextPayout,
       AddToBatch, OpenNextBatch, SplitNextClass, ExecutePayouts, PayStages, EndStages
  <2> QED
    BY <2>1, <2>2 DEF PayStages, EndStages, OpenStages, WorkStages
<1> QED
  BY <1>1, <1>2

(* Every step of the run keeps the invariant of the generation. *)
LEMMA GenInvStep == ASSUME SoundSources, GenInv, [Next]_vars PROVE GenInv'
<1>1. CASE Generating
  BY <1>1, GenStep DEF Generating
<1>2. CASE Preparing \/ Paying
  <2>1. /\ stage \notin OpenStages /\ stage # "failed"
        /\ stage' \notin OpenStages
    BY <1>2, LaterStages DEF PrepStages, PayStages, OpenStages, WorkStages
  <2>2. UNCHANGED <<config, todo, data, candidates, income, recipes, blueprints>>
    BY <1>2 DEF Preparing, Paying
  <2> QED
    BY <2>1, <2>2, GenKept
<1>3. CASE UNCHANGED vars
  <2>1. UNCHANGED genVars
    BY <1>3 DEF vars
  <2> QED
    BY <2>1 DEF genVars, GenInv, ConfigInv, TodoInv, DataInv, CandidatesInv, IncomeInv,
       MoneyInv, Earned, RecipesInv, BlueprintsInv, BlueprintTotals, GetTotalDelegatedRewards,
       Cycle
<1> QED
  BY <1>1, <1>2, <1>3 DEF Next, Ended

(* Whatever the delegators, their balances, overrides, fees and donations,  *)
(* a cycle pays in tez no more than it earned, when the file has no        *)
(* negative share or maximum balance: the validation looks at the sum of   *)
(* the shares only (1_BondDistribuition.go, 2_CollectBakerFee.go,          *)
(* 4_FinalizeRecipes.go).                                                  *)
THEOREM RewardsWithin == SoundSources => (Spec => []RewardsNotExceeded)
<1> SUFFICES ASSUME SoundSources PROVE Spec => []RewardsNotExceeded
  OBVIOUS
<1>1. Init => GenInv
  BY GenStart DEF Init
<1>2. GenInv /\ [Next]_vars => GenInv'
  BY GenInvStep
<1>3. GenInv => RewardsNotExceeded
  BY DEF GenInv, BlueprintsInv, BlueprintOK, WithinTotals, RewardsNotExceeded
<1> QED
  BY <1>1, <1>2, <1>3, PTL DEF Spec

-----------------------------------------------------------------------------
(* What the preparation keeps, in the whole run.                           *)

\* A run with its blueprints and its payouts.
RunInv == GenInv /\ PrepInv /\ SilentInv

(* Another check of the balance changes nothing that is to be paid. *)
LEMMA AgainStays ==
  ASSUME PrepInv, SilentInv, NEW counter \in {"low", "failures"}, CheckAgain(counter),
         UNCHANGED <<payable, payouts, invalid, past, config, blueprints>>
  PROVE  PrepInv'
<1>1. balance'.seen = balance.seen
  BY DEF CheckAgain, SilentInv, SilentType
<1>2. stage' \in {stage, "failed"}
  BY DEF CheckAgain
<1> QED
  BY <1>1, <1>2, PrepStays

\* The two checks of the balance.
LEMMA BalanceKeeps ==
  ASSUME SoundSources, RunInv, CheckBalanceWithHook \/ CheckBalanceWithCollector,
         UNCHANGED <<config, blueprints>>
  PROVE  PrepInv'
<1>0. PrepInv /\ SilentInv /\ GenInv
  BY DEF RunInv
<1>1. UNCHANGED <<payable, payouts, invalid, past>> /\ stage = "balance"
  BY DEF CheckBalanceWithHook, CheckBalanceWithCollector
<1>2. ASSUME NEW counter \in {"low", "failures"}, CheckAgain(counter) PROVE PrepInv'
  BY <1>0, <1>1, <1>2, AgainStays
<1>3. ASSUME NEW skip \in BOOLEAN, UNCHANGED stage,
             balance' = [balance EXCEPT !.check = "collector", !.low = 0, !.failures = 0,
                            !.skipTez = skip]
      PROVE  PrepInv'
  <2>1. balance'.seen = balance.seen
    BY <1>0, <1>3 DEF SilentInv, SilentType
  <2> QED
    BY <1>0, <1>1, <1>3, <2>1, PrepStays
<1>4. CASE BalanceSuffices(-1)
  <2>1. balance'.seen = -1 /\ stage' = "charge" /\ -1 \in Int /\ ~(-1 >= 0)
    BY <1>4 DEF BalanceSuffices, NoCheck
  <2> QED
    BY <1>0, <1>1, <2>1, SufficientKeeps
<1>5. ASSUME NEW available \in Balances, available > RequiredBalance(payouts),
             BalanceSuffices(available)
      PROVE  PrepInv'
  <2>1. balance'.seen = available /\ stage' = "charge"
    BY <1>5 DEF BalanceSuffices, NoCheck
  <2>2. ConfigOK(config)
    BY <1>0, <1>1 DEF GenInv, ConfigInv, OpenStages, WorkStages
  <2>3. RequiredBalance(payouts) \in Int /\ Buffered(payouts) <= RequiredBalance(payouts)
    BY <1>0, <2>2, RequiredCovers DEF PrepInv, TypedInv
  <2>4. Buffered(payouts) \in Nat
    BY <1>0, BufferedNat DEF PrepInv, TypedInv
  <2>5. available \in Nat
    BY BalancesAssumption
  <2>6. Buffered(payouts) < available /\ available \in Int
    BY <1>5, <2>3, <2>4, <2>5
  <2> QED
    BY <1>0, <1>1, <2>1, <2>6, SufficientKeeps
<1>6. CASE CheckBalanceWithHook
  BY <1>2, <1>3, <1>6 DEF CheckBalanceWithHook
<1>7. CASE CheckBalanceWithCollector
  BY <1>2, <1>4, <1>5, <1>7 DEF CheckBalanceWithCollector
<1> QED
  BY <1>6, <1>7

\* The generation goes on, or hands over to the preparation.
LEMMA GeneratingStages ==
  ASSUME Generating
  PROVE  /\ stage \in OpenStages
         /\ stage' \in OpenStages \cup {"prepare", "failed", "panicked"}
<1> DEFINE Then == OpenStages \cup {"prepare", "failed", "panicked"}
<1>1. \A produced, error : EndCycle(produced, error) => stage' \in Then
  BY DEF EndCycle, OpenStages, WorkStages
<1>2. /\ Panics => stage' \in Then
      /\ \A next \in GenStages : Continue(next) => stage' \in Then
  BY DEF Panics, Continue, GenStages, OpenStages, WorkStages
<1>3. CASE LoadConfiguration
  BY <1>3 DEF LoadConfiguration, OpenStages, WorkStages
<1>4. CASE CheckConditionsAndPrepare
  BY <1>1, <1>2, <1>4 DEF CheckConditionsAndPrepare, OpenStages, WorkStages, GenStages
<1>5. CASE GeneratePayoutCandidates
  BY <1>1, <1>2, <1>5 DEF GeneratePayoutCandidates, OpenStages, WorkStages, GenStages
<1>6. CASE DistributeBonds
  BY <1>2, <1>6 DEF DistributeBonds, OpenStages, WorkStages, GenStages
<1>7. CASE CollectBakerFee \/ ValidateRecipe \/ FinalizeRecipes
  BY <1>2, <1>7 DEF CollectBakerFee, ValidateRecipe, FinalizeRecipes, OpenStages,
     WorkStages, GenStages
<1>8. CASE CreateBlueprint \/ GenerationFails
  BY <1>1, <1>8 DEF CreateBlueprint, GenerationFails, StageFails, OpenStages, WorkStages
<1> QED
  BY <1>3, <1>4, <1>5, <1>6, <1>7, <1>8 DEF Generating, GenNext

\* The actions of the preparation.
LEMMA PreparingKeeps == ASSUME SoundSources, RunInv, Preparing PROVE PrepInv'
<1>0. PrepInv /\ BlueprintsInv /\ SilentInv /\ UNCHANGED <<config, blueprints>>
  BY DEF RunInv, GenInv, Preparing
<1>1. CASE PreparePayouts
  BY <1>0, <1>1, PrepareKeeps
<1>2. CASE AccumulatePayouts
  BY <1>0, <1>2, AccumulateKeeps
<1>3. CASE CheckBalanceWithHook \/ CheckBalanceWithCollector
  BY <1>0, <1>3, BalanceKeeps
<1>4. CASE CollectTransactionFees
  BY <1>0, <1>4, CollectKeeps
<1>5. CASE ValidatePreparedPayouts
  BY <1>0, <1>5, PreparedKeeps
<1>6. CASE PreparationFails \/ PartialEstimate
  <2>1. /\ UNCHANGED <<payable, payouts, invalid, past, balance>>
        /\ stage' \in {"failed", "panicked"}
    BY <1>6 DEF PreparationFails, PartialEstimate
  <2> QED
    BY <1>0, <2>1, PrepStays
<1> QED
  BY <1>1, <1>2, <1>3, <1>4, <1>5, <1>6 DEF Preparing, PrepNext

(* Every step of the run keeps the invariant. *)
LEMMA RunInvStep == ASSUME SoundSources, RunInv, [Next]_vars PROVE RunInv'
<1>0. GenInv /\ PrepInv /\ SilentInv
  BY DEF RunInv
<1>1. GenInv' /\ SilentInv'
  BY <1>0, GenInvStep, SilentStep
<1>2. CASE Generating
  <2>1. UNCHANGED prepVars
    BY <1>2 DEF Generating
  <2>2. PrepInv'
    BY <1>0, <1>2, <2>1, GeneratingStages, NothingYet
  <2> QED
    BY <1>1, <2>2 DEF RunInv
<1>3. CASE Preparing
  BY <1>1, <1>3, PreparingKeeps DEF RunInv
<1>4. CASE Paying
  <2>1. UNCHANGED <<config, blueprints, options, payable, payouts, invalid, past, balance>>
    BY <1>4 DEF Paying, prepVars
  <2>2. stage \in PayStages /\ stage' \in PayStages \cup {"nothing", "done", "failed"}
    BY <1>4 DEF Paying, BatchNext, ShowPrepared, SplitIntoBatches, SplitNextPayout,
       AddToBatch, OpenNextBatch, SplitNextClass, ExecutePayouts, PayStages
  <2>3. \/ stage' \in {stage, "failed", "panicked"}
        \/ stage \in ChargedStages /\ stage' \in ChargedStages
    BY <2>2 DEF ChargedStages
  <2>4. PrepInv'
    BY <1>0, <2>1, <2>3, PrepStays
  <2> QED
    BY <1>1, <2>4 DEF RunInv
<1>5. CASE UNCHANGED vars
  <2>1. UNCHANGED <<config, blueprints, stage, payable, payouts, invalid, past, balance>>
    BY <1>5 DEF vars, genVars, prepVars
  <2>2. PrepInv'
    BY <1>0, <2>1, PrepStays
  <2> QED
    BY <1>1, <2>2 DEF RunInv
<1> QED
  BY <1>2, <1>3, <1>4, <1>5 DEF Next, Ended

(* The invariant holds at the start. *)
LEMMA RunStart == Init => RunInv
<1> SUFFICES ASSUME Init PROVE RunInv
  OBVIOUS
<1>1. GenInv
  BY GenStart DEF Init
<1>2. SilentInv
  BY NotifyAssumption DEF Init, PrepInit, NoCheck, SilentInv, SilentType, SilentOf
<1>3. /\ payable = {} /\ payouts = {} /\ invalid = {} /\ past = {} /\ balance.seen = -1
      /\ stage = "load"
  BY DEF Init, GenInit, PrepInit, NoCheck
<1>4. stage \notin DueStages \cup ChargedStages \cup {"accumulate", "balance", "charge"}
  BY <1>3 DEF DueStages, ChargedStages, PayStages
<1>5. TypedInv
  BY <1>3, FS_EmptySet DEF TypedInv
<1>6. PartsInv
  BY <1>3, <1>4 DEF PartsInv
<1>7. CoverInv
  BY <1>3, <1>4 DEF CoverInv
<1> QED
  BY <1>1, <1>2, <1>5, <1>6, <1>7 DEF RunInv, PrepInv

(* The inductive invariant of a run, for files without negative numbers where *)
(* the validation does not look for them.                                  *)
LEMMA RunAlways == SoundSources => (Spec => []RunInv)
<1> SUFFICES ASSUME SoundSources PROVE Spec => []RunInv
  OBVIOUS
<1>1. RunInv /\ [Next]_vars => RunInv'
  BY RunInvStep
<1> QED
  BY <1>1, RunStart, PTL DEF Spec

(* Whatever was paid before and by whom, and whatever accumulating, a      *)
(* refused estimate or a fee larger than a reward does to a recipe, each   *)
(* recipe of the blueprints is in the end paid before by this baker, or in *)
(* exactly one valid payout, or invalid (core/prepare,                     *)
(* 0_PreparePayouts.go to 4_Validate.go).                                  *)
THEOREM RecipesAccountedFor == SoundSources => (Spec => []EveryRecipeAccountedFor)
<1> SUFFICES ASSUME SoundSources PROVE Spec => []EveryRecipeAccountedFor
  OBVIOUS
<1>1. RunInv => EveryRecipeAccountedFor
  BY DEF RunInv, PrepInv, PartsInv, DueStages, ChargedStages, PayStages, Accounted,
     Separate, KeysOf, EveryRecipeAccountedFor
<1> QED
  BY <1>1, RunAlways, PTL

(* Whatever the simulation says of a transfer and however many recipes     *)
(* share it, a payout records all the fees of its transfer and takes from  *)
(* its recipes exactly the part its delegator is to pay (AddTxFee,         *)
(* 3_CollectTransactionFees.go).                                           *)
THEOREM FeesExact == SoundSources => (Spec => []FeesChargedExactly)
<1> SUFFICES ASSUME SoundSources PROVE Spec => []FeesChargedExactly
  OBVIOUS
<1>1. RunInv => FeesChargedExactly
  BY DEF RunInv, PrepInv, PartsInv, ChargedStages, PayStages, Charged, ChargedExactly,
     FeesChargedExactly
<1> QED
  BY <1>1, RunAlways, PTL

-----------------------------------------------------------------------------
(* Types.                                                                  *)

\* The variables no other part of the invariant types.
FlagsInv == stage \in Stages /\ failed \in BOOLEAN /\ options \in Options

(* The stage, the options and the error flag stay what they may be. *)
LEMMA FlagsStep == ASSUME FlagsInv, [Next]_vars PROVE FlagsInv'
<1>1. CASE Generating
  <2>1. stage' \in Stages
    BY <1>1, GeneratingStages
       DEF OpenStages, WorkStages, Stages, GenStages, PrepStages, EndStages
  <2>2. options' = options
    BY <1>1 DEF Generating, prepVars
  <2>3. failed' \in BOOLEAN
    <3>1. \A produced, error : EndCycle(produced, error) => failed' \in BOOLEAN
      BY Zenon DEF FlagsInv, EndCycle
    <3>2. /\ Panics => failed' = failed
          /\ \A next : Continue(next) => failed' = failed
      BY DEF Panics, Continue
    <3>3. CASE LoadConfiguration
      BY <3>3 DEF LoadConfiguration, FlagsInv
    <3>4. CASE CheckConditionsAndPrepare \/ GeneratePayoutCandidates \/ DistributeBonds
      BY <3>1, <3>2, <3>4
         DEF CheckConditionsAndPrepare, GeneratePayoutCandidates, DistributeBonds, FlagsInv
    <3>5. CASE CollectBakerFee \/ ValidateRecipe \/ FinalizeRecipes
      BY <3>2, <3>5 DEF CollectBakerFee, ValidateRecipe, FinalizeRecipes, FlagsInv
    <3>6. CASE CreateBlueprint \/ GenerationFails
      BY <3>1, <3>6 DEF CreateBlueprint, GenerationFails, StageFails
    <3> QED
      BY <1>1, <3>3, <3>4, <3>5, <3>6 DEF Generating, GenNext
  <2> QED
    BY <2>1, <2>2, <2>3 DEF FlagsInv
<1>2. CASE Preparing
  <2>1. failed' = failed /\ options' = options
    BY <1>2 DEF Preparing, PrepNext, PreparePayouts, AccumulatePayouts,
       CheckBalanceWithHook, CheckBalanceWithCollector, CollectTransactionFees,
       ValidatePreparedPayouts, PreparationFails, PartialEstimate
  <2>2. stage' \in {stage} \cup PrepStages \cup {"prepared", "failed", "panicked"}
    BY <1>2 DEF Preparing, PrepNext, PreparePayouts, AccumulatePayouts,
       CheckBalanceWithHook, CheckBalanceWithCollector, CheckAgain, BalanceSuffices,
       CollectTransactionFees, ValidatePreparedPayouts, PreparationFails, PartialEstimate,
       PrepStages
  <2> QED
    BY <2>1, <2>2 DEF FlagsInv, Stages, PayStages, EndStages
<1>3. CASE Paying
  <2>1. failed' = failed /\ options' = options
    BY <1>3 DEF Paying, prepVars
  <2>2. stage' \in PayStages \cup EndStages
    BY <1>3 DEF Paying, BatchNext, ShowPrepared, SplitIntoBatches, SplitNextPayout,
       AddToBatch, OpenNextBatch, SplitNextClass, ExecutePayouts, PayStages, EndStages
  <2> QED
    BY <2>1, <2>2 DEF FlagsInv, Stages
<1>4. CASE UNCHANGED vars
  BY <1>4 DEF vars, genVars, prepVars, FlagsInv
<1> QED
  BY <1>1, <1>2, <1>3, <1>4 DEF Next, Ended

(* The invariant gives the types. *)
LEMMA Typed == ASSUME RunInv, FlagsInv PROVE TypeOK
<1>1. /\ stage \in Stages /\ failed \in BOOLEAN
      /\ options \in [accumulate : BOOLEAN, skipBalanceCheck : BOOLEAN, wait : BOOLEAN,
                      mixInFA : BOOLEAN, mixInContracts : BOOLEAN]
  BY OptionsAssumption DEF FlagsInv
<1>2. \A c \in candidates : c.amount >= 0 /\ c.fee >= 0 /\ c.tx \in TxKinds
  <2>1. \A c \in candidates : c.amount \in Nat /\ c.fee \in Nat /\ c.tx \in TxKinds
    BY DEF RunInv, GenInv, CandidatesInv, CandidateOK, TxOK
  <2>2. \A n \in Nat : n >= 0
    OBVIOUS
  <2> QED
    BY <2>1, <2>2, Zenon
<1>3. \A r \in recipes \cup payable \cup invalid :
          r.kind \in Kinds /\ r.amount >= 0 /\ r.fee >= 0 /\ r.txFee >= 0
  <2>1. \A r \in recipes : RecipeOK(r)
    BY DEF RunInv, GenInv, RecipesInv, RecipesOK
  <2>2. \A r \in payable : RecipeOK(r)
    BY DEF RunInv, PrepInv, TypedInv
  <2>3. \A r \in invalid : PaidRecipe(r)
    BY DEF RunInv, PrepInv, TypedInv
  <2>4. \A r : RecipeOK(r) => PaidRecipe(r)
    BY DEF RecipeOK, PaidRecipe
  <2>5. \A r : PaidRecipe(r) => r.kind \in Kinds /\ r.amount \in Nat /\ r.fee \in Nat /\ r.txFee \in Nat
    BY DEF PaidRecipe
  <2>6. \A n \in Nat : n >= 0
    OBVIOUS
  <2> QED
    BY <2>1, <2>2, <2>3, <2>4, <2>5, <2>6, Zenon
<1>4. /\ \A r \in payable : r.valid
      /\ \A r \in invalid : ~r.valid
      /\ \A a \in payouts : a.valid /\ a.recipes # <<>>
  BY Zenon DEF RunInv, PrepInv, TypedInv, PayoutOK, Rows
<1>5. /\ balance.low \in 0..(NotifyEvery - 1) /\ balance.failures \in 0..(NotifyEvery - 1)
      /\ balance.check \in {"hook", "collector"}
  BY DEF RunInv, SilentInv, SilentType
<1> QED
  BY <1>1, <1>2, <1>3, <1>4, <1>5, Zenon DEF TypeOK

(* In every state of a run the stages' data is what the stage puts there:  *)
(* amounts and fees are not negative, what is to be paid is valid, what is *)
(* invalid is not, and no payout is without a recipe.                      *)
THEOREM TypeCorrect == SoundSources => (Spec => []TypeOK)
<1> SUFFICES ASSUME SoundSources PROVE Spec => []TypeOK
  OBVIOUS
<1>1. Init => FlagsInv
  BY DEF Init, GenInit, PrepInit, FlagsInv, Stages
<1>2. FlagsInv /\ [Next]_vars => FlagsInv'
  BY FlagsStep
<1>3. RunInv /\ FlagsInv => TypeOK
  BY Typed
<1> QED
  BY <1>1, <1>2, <1>3, RunAlways, PTL DEF Spec

-----------------------------------------------------------------------------
(* Sums over the recipes of payouts.                                       *)

\* The sum of a field of the recipes of a payout, by their places in it.
RowSum(V, a) == SumFunctionOnSet([i \in DOMAIN a.recipes |-> V[a.recipes[i]]], DOMAIN a.recipes)

(* The entries of a sequence that are all different. *)
LEMMA SumOfPlaces ==
  ASSUME NEW rs, IsFiniteSet(DOMAIN rs), \A i, j \in DOMAIN rs : rs[i] = rs[j] => i = j,
         NEW V, \A i \in DOMAIN rs : V[rs[i]] \in Int
  PROVE  /\ IsFiniteSet(Range(rs))
         /\ SumFunctionOnSet(V, Range(rs))
               = SumFunctionOnSet([i \in DOMAIN rs |-> V[rs[i]]], DOMAIN rs)
<1> DEFINE D == DOMAIN rs
           F == [i \in D |-> V[rs[i]]]
<1>1. Range(rs) = {rs[i] : i \in D}
  BY DEF Range
<1>2. \A i \in D : F[i] = V[rs[i]]
  OBVIOUS
<1> HIDE DEF F
<1>3. \A i \in D : F[i] \in Int /\ V[rs[i]] = F[i]
  BY <1>2, Zenon
<1>4. IsFiniteSet(D) /\ \A i, j \in D : rs[i] = rs[j] => i = j
  OBVIOUS
<1> HIDE DEF D
<1>5. /\ IsFiniteSet({rs[i] : i \in D})
      /\ SumFunctionOnSet(V, {rs[i] : i \in D}) = SumFunctionOnSet(F, D)
  BY <1>3, <1>4, SumImage
<1> QED
  BY <1>1, <1>5 DEF F, D

(* The recipes of a payout are as many as its places. *)
LEMMA SumOfRange ==
  ASSUME NEW a, PayoutOK(a), NEW V, \A r \in Range(a.recipes) : V[r] \in Int
  PROVE  /\ IsFiniteSet(Range(a.recipes)) /\ Range(a.recipes) # {}
         /\ SumFunctionOnSet(V, Range(a.recipes)) = RowSum(V, a)
<1> DEFINE rs == a.recipes
<1>1. IsFiniteSet(DOMAIN rs) /\ 1 \in DOMAIN rs
  BY RowsFacts DEF PayoutOK
<1>2. \A i, j \in DOMAIN rs : rs[i] = rs[j] => i = j
  BY DEF PayoutOK
<1>3. \A i \in DOMAIN rs : V[rs[i]] \in Int
  BY DEF Range
<1>4. Range(rs) # {}
  BY <1>1 DEF Range
<1> HIDE DEF rs
<1>5. /\ IsFiniteSet(Range(rs))
      /\ SumFunctionOnSet(V, Range(rs))
            = SumFunctionOnSet([i \in DOMAIN rs |-> V[rs[i]]], DOMAIN rs)
  BY <1>1, <1>2, <1>3, SumOfPlaces
<1> QED
  BY <1>4, <1>5, Zenon DEF rs, RowSum

(* Separate payouts share no recipe. *)
LEMMA RangesApart ==
  ASSUME NEW ps, Separate(ps)
  PROVE  \A a, b \in ps : a # b => Range(a.recipes) \cap Range(b.recipes) = {}
<1> SUFFICES ASSUME NEW a \in ps, NEW b \in ps, a # b,
                    NEW r, r \in Range(a.recipes), r \in Range(b.recipes)
             PROVE  FALSE
  BY Zenon
<1>1. PayoutOf(r) \in KeysOf(a) /\ PayoutOf(r) \in KeysOf(b)
  BY DEF KeysOf, PayoutsOf
<1> QED
  BY <1>1 DEF Separate

(* A field of all the recipes is the sum of that of each payout. *)
LEMMA SumOfRecipes ==
  ASSUME NEW ps, IsFiniteSet(ps), \A a \in ps : PayoutOK(a), Separate(ps),
         NEW V, \A r \in RecipesOf(ps) : V[r] \in Int,
         NEW W, \A a \in ps : W[a] = RowSum(V, a)
  PROVE  /\ IsFiniteSet(RecipesOf(ps))
         /\ SumFunctionOnSet(V, RecipesOf(ps)) = SumFunctionOnSet(W, ps)
<1> DEFINE h == [a \in ps |-> Range(a.recipes)]
           P == {h[a] : a \in ps}
           G == [p \in P |-> SumFunctionOnSet(V, p)]
<1>1. \A a \in ps : h[a] = Range(a.recipes)
  OBVIOUS
<1>2. RecipesOf(ps) = UNION P
  BY <1>1 DEF RecipesOf
<1>3. \A p \in P : G[p] = SumFunctionOnSet(V, p)
  OBVIOUS
<1>4. \A p \in P : \E a \in ps : p = h[a]
  OBVIOUS
<1>5. \A a \in ps : h[a] \in P
  OBVIOUS
<1> HIDE DEF h, G
<1>6. ASSUME NEW a \in ps
      PROVE  /\ IsFiniteSet(h[a]) /\ h[a] # {} /\ \A r \in h[a] : V[r] \in Int
             /\ SumFunctionOnSet(V, h[a]) = W[a]
  <2>1. \A r \in Range(a.recipes) : V[r] \in Int
    BY <1>1, <1>2, <1>5
  <2>2. /\ IsFiniteSet(Range(a.recipes)) /\ Range(a.recipes) # {}
        /\ SumFunctionOnSet(V, Range(a.recipes)) = RowSum(V, a)
    BY <2>1, SumOfRange
  <2> QED
    BY <1>1, <2>1, <2>2, Zenon
<1>7. \A a, b \in ps : a # b => h[a] \cap h[b] = {}
  BY <1>1, RangesApart, Zenon
<1>8. \A a, b \in ps : h[a] = h[b] => a = b
  BY <1>6, <1>7
<1>9. IsFiniteSet(P)
  BY FiniteImage
<1>10. \A p \in P : IsFiniteSet(p)
  BY <1>4, <1>6, Zenon
<1>11. \A p, q \in P : p # q => p \cap q = {}
  BY <1>4, <1>7, Zenon
<1>12. \A r \in UNION P : V[r] \in Int
  BY <1>2
<1>13. SumFunctionOnSet(V, UNION P) = SumFunctionOnSet(G, P)
  <2> HIDE DEF P
  <2> QED
    BY <1>3, <1>9, <1>10, <1>11, <1>12, SumPartition
<1>14. \A a \in ps : W[a] \in Int /\ G[h[a]] = W[a]
  <2> SUFFICES ASSUME NEW a \in ps PROVE W[a] \in Int /\ G[h[a]] = W[a]
    OBVIOUS
  <2>1. SumFunctionOnSet(V, h[a]) \in Int
    BY <1>6, SumInt
  <2> QED
    BY <1>3, <1>5, <1>6, <2>1, Zenon
<1>15. SumFunctionOnSet(G, P) = SumFunctionOnSet(W, ps)
  BY <1>8, <1>14, SumImage
<1>16. IsFiniteSet(UNION P)
  <2> HIDE DEF P
  <2> QED
    BY <1>9, <1>10, FS_UNION
<1> QED
  BY <1>2, <1>13, <1>15, <1>16, Zenon

(* A field of the recipes of a payout. *)
LEMMA RowSumIs ==
  ASSUME NEW a, PayoutOK(a), NEW V, NEW F,
         \A i \in DOMAIN a.recipes : F[i] \in Int /\ V[a.recipes[i]] = F[i]
  PROVE  RowSum(V, a) = SumFunctionOnSet(F, DOMAIN a.recipes)
<1> DEFINE D == DOMAIN a.recipes
           G == [i \in D |-> V[a.recipes[i]]]
<1>1. IsFiniteSet(D)
  BY RowsFacts DEF PayoutOK
<1>2. \A i \in D : F[i] \in Int /\ F[i] = G[i]
  OBVIOUS
<1>3. RowSum(V, a) = SumFunctionOnSet(G, D)
  BY Zenon DEF RowSum
<1> HIDE DEF D, G
<1>4. SumFunctionOnSet(F, D) = SumFunctionOnSet(G, D)
  BY <1>1, <1>2, SumEqual
<1> QED
  BY <1>3, <1>4 DEF D

(* All the recipes of a payout are of its kind of transaction. *)
LEMMA RowsOfTx ==
  ASSUME NEW a, PayoutOK(a)
  PROVE  \A i \in DOMAIN a.recipes :
            /\ a.recipes[i].tx = a.tx /\ a.recipes[i].kind = a.kind
            /\ a.recipes[i].amount \in Nat /\ a.recipes[i].fee \in Nat
            /\ a.recipes[i].txFee \in Nat
<1> SUFFICES ASSUME NEW i \in DOMAIN a.recipes
             PROVE  /\ a.recipes[i].tx = a.tx /\ a.recipes[i].kind = a.kind
                    /\ PaidRecipe(a.recipes[i])
  BY DEF PaidRecipe
<1>1. GetIdentifier(a.recipes[i]) = GetIdentifier(a) /\ PaidRecipe(a.recipes[i])
  BY DEF PayoutOK
<1>2. GetIdentifier(a.recipes[i]).tx = GetIdentifier(a).tx
      /\ GetIdentifier(a.recipes[i]).kind = GetIdentifier(a).kind
  BY <1>1
<1> QED
  BY <1>1, <1>2 DEF GetIdentifier

(* What payouts send in tez is what their recipes are for. *)
LEMMA TezOfRecipes ==
  ASSUME NEW ps, IsFiniteSet(ps), \A a \in ps : PayoutOK(a), Separate(ps)
  PROVE  Tez(RecipesOf(ps)) = SumFunctionOnSet([a \in ps |-> TezAmount(a)], ps)
<1> DEFINE V == [r \in RecipesOf(ps) |-> IF r.tx = "tez" THEN r.amount ELSE 0]
           W == [a \in ps |-> TezAmount(a)]
<1>1. \A a \in ps : \A i \in DOMAIN a.recipes : a.recipes[i] \in RecipesOf(ps)
  BY DEF RecipesOf, Range
<1>2. \A r \in RecipesOf(ps) : \E a \in ps : \E i \in DOMAIN a.recipes : r = a.recipes[i]
  BY DEF RecipesOf, Range
<1>3. \A r \in RecipesOf(ps) : r.amount \in Nat
  BY <1>2, RowsOfTx
<1>4. \A r \in RecipesOf(ps) : V[r] \in Int
  BY <1>3
<1>5. ASSUME NEW a \in ps PROVE W[a] = RowSum(V, a)
  <2> DEFINE D == DOMAIN a.recipes
  <2>1. \A i \in D : a.recipes[i].tx = a.tx /\ a.recipes[i].amount \in Nat
    BY RowsOfTx
  <2>2. \A i \in D : V[a.recipes[i]] = IF a.tx = "tez" THEN a.recipes[i].amount ELSE 0
    BY <1>1, <2>1
  <2>3. IsFiniteSet(D)
    BY RowsFacts DEF PayoutOK
  <2>4. CASE a.tx = "tez"
    <3> DEFINE F == [i \in D |-> a.recipes[i].amount]
    <3>1. \A i \in D : F[i] = a.recipes[i].amount
      OBVIOUS
    <3>2. \A i \in D : F[i] \in Int /\ V[a.recipes[i]] = F[i]
      BY <2>1, <2>2, <2>4, <3>1
    <3> HIDE DEF V
    <3>3. RowSum(V, a) = SumFunctionOnSet(F, D)
      <4> HIDE DEF F
      <4> QED
        BY <3>2, RowSumIs
    <3>4. W[a] = GetAmount(a)
      BY <2>4 DEF TezAmount
    <3>5. GetAmount(a) = SumFunctionOnSet(F, D)
      BY Zenon DEF GetAmount, Total
    <3> QED
      BY <3>3, <3>4, <3>5, Zenon
  <2>5. CASE a.tx # "tez"
    <3> DEFINE F == [i \in D |-> 0]
    <3>1. \A i \in D : F[i] \in Int /\ F[i] = 0 /\ V[a.recipes[i]] = F[i]
      BY <2>2, <2>5
    <3> HIDE DEF V
    <3>2. RowSum(V, a) = SumFunctionOnSet(F, D)
      <4> HIDE DEF F
      <4> QED
        BY <3>1, RowSumIs
    <3>3. W[a] = 0
      BY <2>5 DEF TezAmount
    <3>4. SumFunctionOnSet(F, D) = 0
      <4> HIDE DEF F, D
      <4> QED
        BY <2>3, <3>1, SumZero
    <3> QED
      BY <3>2, <3>3, <3>4, Zenon
  <2> QED
    BY <2>4, <2>5
<1>6. IsFiniteSet(RecipesOf(ps)) /\ SumFunctionOnSet(V, RecipesOf(ps)) = SumFunctionOnSet(W, ps)
  <2> HIDE DEF V, W
  <2> QED
    BY <1>4, <1>5, SumOfRecipes
<1>7. Tez(RecipesOf(ps)) = SumFunctionOnSet(V, RecipesOf(ps))
  BY <1>3, <1>6, TezIs
<1> QED
  BY <1>6, <1>7

(* With no fee above the buffer, the payouts spend no more than what the   *)
(* buffers are for.                                                        *)
LEMMA SpendingCovered ==
  ASSUME NEW ps, IsFiniteSet(ps), \A a \in ps : PayoutOK(a), Separate(ps),
         \A a \in ps : GetOperationTotalFees(a.limits) <= FeeBuffer
  PROVE  Spending(ps) \in Int /\ Spending(ps) <= Buffered(ps) /\ Buffered(ps) \in Nat
<1> DEFINE F == [a \in ps |-> GetOperationTotalFees(a.limits)]
           B == [a \in ps |-> FeeBuffer]
           t == SumFunctionOnSet([a \in ps |-> TezAmount(a)], ps)
           f == SumFunctionOnSet(F, ps)
           b == FeeBuffer * Cardinality(ps)
<1>1. FeeBuffer \in Int
  BY FeeBufferAssumption
<1>2. \A a \in ps : GetOperationTotalFees(a.limits) \in Int
  BY DEF PayoutOK, LimitsOK, GetOperationTotalFees
<1>3. \A a \in ps : F[a] = GetOperationTotalFees(a.limits) /\ B[a] = FeeBuffer
  BY Zenon
<1>4. Spending(ps) = Tez(RecipesOf(ps)) + f
  BY Zenon DEF Spending, Tez, Total
<1> HIDE DEF F, B
<1>5. \A a \in ps : F[a] \in Int /\ B[a] \in Int /\ F[a] <= B[a]
  BY <1>1, <1>2, <1>3, Zenon
<1>6. SumFunctionOnSet(F, ps) <= SumFunctionOnSet(B, ps)
  BY <1>5, SumLeq
<1>7. SumFunctionOnSet(B, ps) = b
  BY <1>1, <1>3, SumConstant
<1>8. f \in Int
  BY <1>5, SumInt
<1>9. Tez(RecipesOf(ps)) = t
  BY TezOfRecipes
<1>10. t \in Nat /\ Buffered(ps) = t + b /\ Buffered(ps) \in Nat
  BY BufferedIs, BufferedNat
<1>11. b \in Int
  BY <1>1, FS_CardinalityType
<1>12. f <= b
  BY <1>6, <1>7
<1>13. Spending(ps) = t + f
  BY <1>4, <1>9
<1> HIDE DEF t, f, b
<1> QED
  BY <1>8, <1>10, <1>11, <1>12, <1>13

(* The balance that passed the check, before any fee was known, covers all *)
(* the payouts that are left when no fee is above the buffer, whatever the *)
(* accumulating, the refused estimates and who pays the fees               *)
(* (2_SufficientBalance.go).                                               *)
THEOREM BalanceCovers == SoundSources => (Spec => []BalanceCoversPayouts)
<1> SUFFICES ASSUME SoundSources PROVE Spec => []BalanceCoversPayouts
  OBVIOUS
<1>1. RunInv => BalanceCoversPayouts
  <2> SUFFICES ASSUME RunInv, stage = "prepared", balance.seen >= 0,
                      \A a \in payouts : GetOperationTotalFees(a.limits) <= FeeBuffer
               PROVE  Spending(payouts) < balance.seen
    BY DEF BalanceCoversPayouts
  <2>1. stage \in ChargedStages /\ stage \in DueStages
    BY DEF ChargedStages, DueStages, PayStages
  <2>2. /\ IsFiniteSet(payouts) /\ \A a \in payouts : PayoutOK(a)
        /\ Separate(payouts)
        /\ Buffered(payouts) < balance.seen /\ balance.seen \in Int
    BY <2>1 DEF RunInv, PrepInv, TypedInv, PartsInv, CoverInv
  <2>3. /\ Spending(payouts) \in Int /\ Spending(payouts) <= Buffered(payouts)
        /\ Buffered(payouts) \in Nat
    BY <2>2, SpendingCovered
  <2> QED
    BY <2>2, <2>3
<1> QED
  BY <1>1, RunAlways, PTL

-----------------------------------------------------------------------------
(* The limits of an operation.                                             *)

\* A batch of these payouts is within what is not reserved of the limits.
Fits(as) ==
    /\ Used(as, "storage") < Reserved(HardStorageLimit)
    /\ UsedGas(as) < Reserved(HardGasLimit)
    /\ Used(as, "bytes") <= Reserved(MaxDataLength) - DataBuffer

FitInv == (\A b \in batches : Fits(b)) /\ (batch # {} => Fits(batch))

(* Every step keeps each batch within the reserved limits. *)
LEMMA FitStep == ASSUME FitInv, [Next]_vars PROVE FitInv'
<1>1. ASSUME UNCHANGED <<batch, batches>> PROVE FitInv'
  BY <1>1 DEF FitInv
<1>2. \A b \in Closed : Fits(b)
  BY DEF Closed, FitInv
<1>3. \A bs, a : AddPayout(bs, a) <=> Fits(bs \cup {a})
  BY Zenon DEF AddPayout, Fits
<1>4. ASSUME NEW a, AddToBatch(a) PROVE FitInv'
  <2>1. batch' = batch \cup {a} /\ batches' = batches /\ Fits(batch \cup {a})
    BY <1>3, <1>4 DEF AddToBatch
  <2> QED
    BY <2>1 DEF FitInv
<1>5. ASSUME NEW a, OpenNextBatch(a) PROVE FitInv'
  <2>1. CASE AddPayout({}, a)
    <3>1. batch' = {a} /\ batches' = Closed
      BY <1>5, <2>1 DEF OpenNextBatch
    <3>2. {} \cup {a} = {a}
      OBVIOUS
    <3>3. Fits({a})
      BY <1>3, <2>1, <3>2
    <3> QED
      BY <1>2, <3>1, <3>3 DEF FitInv
  <2>2. CASE ~AddPayout({}, a)
    BY <1>1, <1>5, <2>2 DEF OpenNextBatch
  <2> QED
    BY <2>1, <2>2
<1>6. CASE SplitNextClass
  BY <1>2, <1>6 DEF SplitNextClass, FitInv
<1>7. CASE Paying
  <2>1. CASE ShowPrepared \/ SplitIntoBatches \/ ExecutePayouts
    BY <1>1, <2>1 DEF ShowPrepared, SplitIntoBatches, ExecutePayouts
  <2> QED
    BY <1>4, <1>5, <1>6, <1>7, <2>1 DEF Paying, BatchNext, SplitNextPayout
<1>8. CASE Generating \/ Preparing \/ UNCHANGED vars
  BY <1>1, <1>8 DEF Generating, Preparing, batchVars, vars
<1> QED
  BY <1>7, <1>8 DEF Next, Ended

(* What is reserved is no more than the limit. *)
LEMMA ReserveIsLess ==
  ASSUME NEW limit \in Nat
  PROVE  Reserved(limit) \in Int /\ Reserved(limit) <= limit
<1> DEFINE q == (limit * 95) \div 100
<1>1. q \in Int /\ 100 * q <= limit * 95
  OBVIOUS
<1>2. q <= limit
  BY <1>1
<1> QED
  BY <1>1, <1>2 DEF Reserved

(* What a batch uses of a limit, as a sum of a function. *)
LEMMA UsedIs ==
  ASSUME NEW b, NEW field
  PROVE  Used(b, field) = SumFunctionOnSet([a \in b |-> a.limits[field]], b)
  BY Zenon DEF Used, Total

(* The gas of the transfers and, once, that of deserializing them all. *)
LEMMA OperationGasIs ==
  ASSUME NEW b, IsFiniteSet(b),
         \A a \in b : a.limits.gas \in Nat /\ a.limits.deserialization \in Nat
  PROVE  /\ Used(b, "gas") \in Nat /\ Used(b, "deserialization") \in Nat
         /\ OperationGas(b) <= Used(b, "gas") + Used(b, "deserialization")
<1> DEFINE first == CHOOSE a \in b : TRUE
           d == Used(b, "deserialization")
           G == [a \in b |-> a.limits.gas]
           D == [a \in b |-> a.limits.deserialization]
           X == [a \in b |-> IF a = first THEN d ELSE 0]
           L == [a \in b |-> a.limits.gas + (IF a = first THEN d ELSE 0)]
<1>1. /\ Used(b, "gas") = SumFunctionOnSet(G, b)
      /\ d = SumFunctionOnSet(D, b)
  BY UsedIs
<1>2. OperationGas(b) = SumFunctionOnSet(L, b)
  BY Zenon DEF OperationGas, Total
<1>3. (\A a \in b : G[a] \in Nat) /\ \A a \in b : D[a] \in Nat
  OBVIOUS
<1>4. SumFunctionOnSet(G, b) \in Nat /\ SumFunctionOnSet(D, b) \in Nat
  <2> HIDE DEF G, D
  <2> QED
    BY <1>3, SumNat
<1>5. d \in Nat
  BY <1>1, <1>4
<1>6. \A a \in b : X[a] = (IF a = first THEN d ELSE 0)
  OBVIOUS
<1>7. \A a \in b : G[a] \in Int /\ X[a] \in Int /\ L[a] = G[a] + X[a]
  <2> HIDE DEF d, first
  <2> QED
    BY <1>3, <1>5, <1>6
<1>8. SumFunctionOnSet(L, b) = SumFunctionOnSet(G, b) + SumFunctionOnSet(X, b)
  <2> HIDE DEF G, X, L
  <2> QED
    BY <1>7, SumPlus
<1>9. SumFunctionOnSet(X, b) \in Int /\ SumFunctionOnSet(X, b) <= d
  <2>1. CASE b = {}
    <3>1. SumFunctionOnSet(X, {}) = 0
      BY SumEmpty
    <3> HIDE DEF X, d
    <3> QED
      BY <1>5, <2>1, <3>1
  <2>2. CASE b # {}
    <3>1. first \in b
      BY <2>2
    <3>2. \A a \in b \ {first} : X[a] = 0
      OBVIOUS
    <3>3. X[first] = d
      BY <1>6, <3>1
    <3> HIDE DEF X, d, first
    <3>4. \A a \in b : X[a] \in Int
      BY <1>7
    <3>5. SumFunctionOnSet(X, b) = X[first] + SumFunctionOnSet(X, b \ {first})
      BY <3>1, <3>4, SumTake
    <3>6. IsFiniteSet(b \ {first})
      BY FS_RemoveElement
    <3>7. SumFunctionOnSet(X, b \ {first}) = 0
      BY <3>2, <3>6, SumZero
    <3> QED
      BY <1>5, <3>3, <3>5, <3>7
  <2> QED
    BY <2>1, <2>2
<1> HIDE DEF X, G, D, L, d
<1> QED
  BY <1>1, <1>2, <1>4, <1>5, <1>8, <1>9 DEF d

(* A batch that fits makes an operation within the hard limits. *)
LEMMA FitsLimits ==
  ASSUME NEW b, IsFiniteSet(b), Fits(b), \A a \in b : LimitsOK(a.limits) /\ a.limits.bytes \in Nat
  PROVE  /\ OperationGas(b) + MetadataGas <= HardGasLimit
         /\ Used(b, "storage") <= HardStorageLimit
         /\ Used(b, "bytes") + DataBuffer <= MaxDataLength
<1> DEFINE S == [a \in b |-> a.limits.storage]
           Y == [a \in b |-> a.limits.bytes]
           g == Used(b, "gas")
           d == Used(b, "deserialization")
           s == Used(b, "storage")
           y == Used(b, "bytes")
           o == OperationGas(b)
<1>1. g \in Nat /\ d \in Nat /\ o <= g + d
  BY OperationGasIs DEF LimitsOK
<1>2. s = SumFunctionOnSet(S, b) /\ y = SumFunctionOnSet(Y, b)
  BY UsedIs
<1>3. (\A a \in b : S[a] \in Nat) /\ \A a \in b : Y[a] \in Nat
  BY DEF LimitsOK
<1>4. s \in Nat /\ y \in Nat
  <2>1. SumFunctionOnSet(S, b) \in Nat /\ SumFunctionOnSet(Y, b) \in Nat
    <3> HIDE DEF S, Y
    <3> QED
      BY <1>3, SumNat
  <2> QED
    BY <1>2, <2>1
<1>5. /\ HardGasLimit \in Nat /\ HardStorageLimit \in Nat /\ MaxDataLength \in Nat
      /\ DataBuffer \in Nat /\ MetadataGas \in Nat
  BY LimitsAssumption, CostsAssumption
<1>6. /\ Reserved(HardGasLimit) \in Int /\ Reserved(HardGasLimit) <= HardGasLimit
      /\ Reserved(HardStorageLimit) \in Int /\ Reserved(HardStorageLimit) <= HardStorageLimit
      /\ Reserved(MaxDataLength) \in Int /\ Reserved(MaxDataLength) <= MaxDataLength
  BY <1>5, ReserveIsLess
<1>7. /\ s < Reserved(HardStorageLimit)
      /\ MetadataGas + g + d < Reserved(HardGasLimit)
      /\ y <= Reserved(MaxDataLength) - DataBuffer
  BY DEF Fits, UsedGas
<1>8. o \in Int
  <2> DEFINE first == CHOOSE a \in b : TRUE
             L == [a \in b |-> a.limits.gas + (IF a = first THEN d ELSE 0)]
  <2>1. o = SumFunctionOnSet(L, b)
    BY Zenon DEF OperationGas, Total
  <2>2. \A a \in b : a.limits.gas \in Nat
    BY DEF LimitsOK
  <2>3. \A a \in b : L[a] \in Int
    <3> HIDE DEF d, first
    <3> QED
      BY <1>1, <2>2
  <2> HIDE DEF L
  <2>4. SumFunctionOnSet(L, b) \in Int
    BY <2>3, SumInt
  <2> QED
    BY <2>1, <2>4
<1> DEFINE rg == Reserved(HardGasLimit)
           rs == Reserved(HardStorageLimit)
           rd == Reserved(MaxDataLength)
<1>9. /\ rg \in Int /\ rg <= HardGasLimit /\ rs \in Int /\ rs <= HardStorageLimit
      /\ rd \in Int /\ rd <= MaxDataLength
      /\ s < rs /\ MetadataGas + g + d < rg /\ y <= rd - DataBuffer
  BY <1>6, <1>7
<1> HIDE DEF g, d, s, y, o, rg, rs, rd
<1>10. o + MetadataGas <= HardGasLimit
  BY <1>1, <1>5, <1>8, <1>9
<1>11. s <= HardStorageLimit /\ y + DataBuffer <= MaxDataLength
  BY <1>4, <1>5, <1>9
<1> QED
  BY <1>10, <1>11 DEF o, s, y

(* However the payouts are batched, with the deserialization of the whole  *)
(* batch paid by its first transfer, the operation of each batch is within *)
(* the limits the node tells (0_SplitIntoBatches.go, batch.go).            *)
THEOREM BatchesFit == SoundSources => (Spec => []OperationsFit)
<1> SUFFICES ASSUME SoundSources PROVE Spec => []OperationsFit
  OBVIOUS
<1>1. Init => FitInv
  BY DEF Init, BatchInit, FitInv
<1>2. FitInv /\ [Next]_vars => FitInv'
  BY FitStep
<1>3. RunInv /\ BatchesPartition /\ FitInv => OperationsFit
  <2> SUFFICES ASSUME RunInv, BatchesPartition, FitInv, stage = "execute", NEW b \in batches
               PROVE  /\ OperationGas(b) + MetadataGas <= HardGasLimit
                      /\ Used(b, "storage") <= HardStorageLimit
                      /\ Used(b, "bytes") + DataBuffer <= MaxDataLength
    BY DEF OperationsFit
  <2>1. b \subseteq payouts
    BY DEF BatchesPartition
  <2>2. stage \in ChargedStages
    BY DEF ChargedStages, PayStages
  <2>3. IsFiniteSet(payouts) /\ \A a \in payouts : LimitsOK(a.limits) /\ a.limits.bytes \in Nat
    BY <2>2 DEF RunInv, PrepInv, TypedInv, PartsInv, PayoutOK, Charged
  <2>4. IsFiniteSet(b)
    BY <2>1, <2>3, FS_Subset
  <2> QED
    BY <2>1, <2>3, <2>4, FitsLimits DEF FitInv
<1> QED
  BY <1>1, <1>2, <1>3, RunAlways, Partition, PTL DEF Spec

-----------------------------------------------------------------------------
(* Reports of the recipes, and what they sum up to.                        *)

\* A report of a recipe, or what else tells its destination and amounts.
Matches(q, r) ==
    /\ PayoutOf(q) = PayoutOf(r) /\ q.kind = r.kind /\ q.tx = r.tx /\ q.cycle = r.cycle
    /\ q.amount = r.amount /\ q.fee = r.fee /\ q.txFee = r.txFee

OfEachOther(qs, rs) ==
    /\ \A q \in qs : \E r \in rs : Matches(q, r)
    /\ \A r \in rs : \E q \in qs : Matches(q, r)

\* h takes the members of S to as many others, whose G is their F.
Carries(F, G, S, h) ==
    /\ IsFiniteSet(S)
    /\ \A x, y \in S : h[x] = h[y] => x = y
    /\ \A x \in S : F[x] \in Int /\ G[h[x]] = F[x]

(* Others, as many and of the same values, have the same sum. *)
LEMMA SumCarried ==
  ASSUME NEW F, NEW G, NEW S, NEW h, Carries(F, G, S, h)
  PROVE  /\ IsFiniteSet({h[x] : x \in S})
         /\ SumFunctionOnSet(G, {h[x] : x \in S}) = SumFunctionOnSet(F, S)
  BY SumImage DEF Carries

(* Sets that report the same payouts have the same sums. *)
LEMMA SumMatched ==
  ASSUME NEW rs, IsFiniteSet(rs), Unique(rs), NEW qs, Unique(qs), OfEachOther(qs, rs),
         NEW V, NEW W, \A r \in rs : V[r] \in Int,
         \A q \in qs, r \in rs : Matches(q, r) => W[q] = V[r]
  PROVE  IsFiniteSet(qs) /\ SumFunctionOnSet(W, qs) = SumFunctionOnSet(V, rs)
<1> DEFINE h == [r \in rs |-> CHOOSE q \in qs : Matches(q, r)]
<1>1. ASSUME NEW r \in rs PROVE h[r] \in qs /\ Matches(h[r], r)
  <2>1. \E q \in qs : Matches(q, r)
    BY DEF OfEachOther
  <2>2. h[r] = CHOOSE q \in qs : Matches(q, r)
    OBVIOUS
  <2> QED
    BY <2>1, <2>2
<1> HIDE DEF h
<1>2. ASSUME NEW r \in rs, NEW p \in rs, h[r] = h[p] PROVE r = p
  <2>1. PayoutOf(r) = PayoutOf(p)
    BY <1>1, <1>2 DEF Matches
  <2> QED
    BY <2>1 DEF Unique
<1>3. {h[r] : r \in rs} = qs
  <2>1. ASSUME NEW q \in qs PROVE \E r \in rs : q = h[r]
    <3>1. PICK r \in rs : Matches(q, r)
      BY DEF OfEachOther
    <3>2. PayoutOf(h[r]) = PayoutOf(q)
      BY <1>1, <3>1 DEF Matches
    <3>3. h[r] = q
      BY <1>1, <3>2 DEF Unique
    <3> QED
      BY <3>3
  <2> QED
    BY <1>1, <2>1
<1>4. \A r \in rs : V[r] \in Int /\ W[h[r]] = V[r]
  BY <1>1
<1>5. /\ IsFiniteSet({h[r] : r \in rs})
      /\ SumFunctionOnSet(W, {h[r] : r \in rs}) = SumFunctionOnSet(V, rs)
  <2>1. \A r, p \in rs : h[r] = h[p] => r = p
    BY <1>2, Zenon
  <2>2. Carries(V, W, rs, h)
    BY <1>4, <2>1, Zenon DEF Carries
  <2> QED
    BY <2>2, SumCarried
<1> QED
  BY <1>3, <1>5, Zenon

(* What the three totals add up. *)
LEMMA TotalsAre ==
  ASSUME NEW rs, IsFiniteSet(rs), \A r \in rs : r.amount \in Nat
  PROVE  GetTotals(rs) =
            [amount |-> SumFunctionOnSet([r \in rs |-> IF r.tx = "tez" THEN r.amount ELSE 0], rs),
             fee    |-> SumFunctionOnSet([r \in rs |-> r.fee], rs),
             txFee  |-> SumFunctionOnSet([r \in rs |-> r.txFee], rs)]
<1> DEFINE amount == SumFunctionOnSet([r \in rs |-> IF r.tx = "tez" THEN r.amount ELSE 0], rs)
           fee == SumFunctionOnSet([r \in rs |-> r.fee], rs)
           txFee == SumFunctionOnSet([r \in rs |-> r.txFee], rs)
<1>1. Tez(rs) = amount
  BY TezIs
<1> HIDE DEF amount
<1>2. GetTotals(rs) = [amount |-> Tez(rs), fee |-> fee, txFee |-> txFee]
  BY Zenon DEF GetTotals, Tez, AmountOf, Total
<1> QED
  BY <1>1, <1>2, Zenon DEF amount

(* Sets that report the same payouts have the same totals. *)
LEMMA TotalsMatched ==
  ASSUME NEW rs, IsFiniteSet(rs), Unique(rs), NEW qs, Unique(qs), OfEachOther(qs, rs),
         \A r \in rs : r.amount \in Nat /\ r.fee \in Nat /\ r.txFee \in Nat
  PROVE  IsFiniteSet(qs) /\ GetTotals(qs) = GetTotals(rs)
<1> DEFINE A(s) == [r \in s |-> IF r.tx = "tez" THEN r.amount ELSE 0]
           F(s) == [r \in s |-> r.fee]
           X(s) == [r \in s |-> r.txFee]
<1>0. \A n \in Nat : n \in Int
  OBVIOUS
<1>1. IsFiniteSet(qs) /\ SumFunctionOnSet(A(qs), qs) = SumFunctionOnSet(A(rs), rs)
  <2>1. \A r \in rs : A(rs)[r] \in Int
    OBVIOUS
  <2>2. \A q \in qs, r \in rs : Matches(q, r) => A(qs)[q] = A(rs)[r]
    BY DEF Matches
  <2> HIDE DEF A
  <2> QED
    BY <2>1, <2>2, SumMatched
<1>2. SumFunctionOnSet(F(qs), qs) = SumFunctionOnSet(F(rs), rs)
  <2>1. \A r \in rs : F(rs)[r] \in Int
    BY <1>0
  <2>2. \A q \in qs, r \in rs : Matches(q, r) => F(qs)[q] = F(rs)[r]
    BY DEF Matches
  <2> HIDE DEF F
  <2> QED
    BY <2>1, <2>2, SumMatched
<1>3. SumFunctionOnSet(X(qs), qs) = SumFunctionOnSet(X(rs), rs)
  <2>1. \A r \in rs : X(rs)[r] \in Int
    BY <1>0
  <2>2. \A q \in qs, r \in rs : Matches(q, r) => X(qs)[q] = X(rs)[r]
    BY DEF Matches
  <2> HIDE DEF X
  <2> QED
    BY <2>1, <2>2, SumMatched
<1>4. \A q \in qs : q.amount \in Nat
  BY DEF OfEachOther, Matches
<1>5. GetTotals(qs) = [amount |-> SumFunctionOnSet(A(qs), qs), fee |-> SumFunctionOnSet(F(qs), qs),
                       txFee |-> SumFunctionOnSet(X(qs), qs)]
  BY <1>1, <1>4, TotalsAre
<1>6. GetTotals(rs) = [amount |-> SumFunctionOnSet(A(rs), rs), fee |-> SumFunctionOnSet(F(rs), rs),
                       txFee |-> SumFunctionOnSet(X(rs), rs)]
  BY TotalsAre
<1> HIDE DEF A, F, X
<1> QED
  BY <1>1, <1>2, <1>3, <1>5, <1>6, Zenon

(* The recipes of payouts that are separate are each another payout. *)
LEMMA RecipesUnique ==
  ASSUME NEW ps, \A a \in ps : PayoutOK(a), Separate(ps)
  PROVE  /\ Unique(RecipesOf(ps))
         /\ \A a, b \in ps : \A r \in Range(a.recipes), q \in Range(b.recipes) :
               PayoutOf(r) = PayoutOf(q) => a = b /\ r = q
<1>1. ASSUME NEW a \in ps, NEW b \in ps, NEW r \in Range(a.recipes), NEW q \in Range(b.recipes),
             PayoutOf(r) = PayoutOf(q)
      PROVE  a = b /\ r = q
  <2>1. PayoutOf(r) \in KeysOf(a) /\ PayoutOf(r) \in KeysOf(b)
    BY <1>1 DEF KeysOf, PayoutsOf
  <2>2. a = b
    BY <2>1 DEF Separate
  <2>3. PICK i \in DOMAIN a.recipes, j \in DOMAIN a.recipes : r = a.recipes[i] /\ q = a.recipes[j]
    BY <2>2 DEF Range
  <2>4. r.cycle = q.cycle
    BY <1>1 DEF PayoutOf
  <2>5. i = j
    BY <2>3, <2>4 DEF PayoutOK
  <2> QED
    BY <2>2, <2>3, <2>5
<1>2. \A r \in RecipesOf(ps) : \E a \in ps : r \in Range(a.recipes)
  BY DEF RecipesOf
<1>3. Unique(RecipesOf(ps))
  BY <1>1, <1>2, Zenon DEF Unique
<1> QED
  BY <1>1, <1>3, Zenon

(* The single recipe the table shows for a payout. *)
LEMMA SumFacts ==
  ASSUME NEW a, PayoutOK(a)
  PROVE  /\ PayoutOf(Sum(a)) \in KeysOf(a) /\ Sum(a).tx = a.tx
         /\ Sum(a).amount = GetAmount(a) /\ Sum(a).fee = GetFee(a) /\ Sum(a).txFee = GetTxFee(a)
<1> DEFINE r == Head(a.recipes)
           q == Sum(a)
<1>1. 1 \in DOMAIN a.recipes /\ r = a.recipes[1]
  BY RowsFacts DEF PayoutOK
<1>2. r \in Range(a.recipes) /\ r.tx = a.tx /\ PaidRecipe(r)
  BY <1>1, RowsOfTx DEF Range, PayoutOK
<1>3. q = [r EXCEPT !.amount = GetAmount(a), !.fee = GetFee(a), !.txFee = GetTxFee(a)]
  BY DEF Sum
<1>4. DOMAIN r = RecipeFields
  BY <1>2 DEF PaidRecipe
<1> HIDE DEF r, q
<1>5. /\ q.kind = r.kind /\ q.tx = r.tx /\ q.token = r.token /\ q.delegator = r.delegator
      /\ q.recipient = r.recipient /\ q.cycle = r.cycle
      /\ q.amount = GetAmount(a) /\ q.fee = GetFee(a) /\ q.txFee = GetTxFee(a)
  BY <1>3, <1>4 DEF RecipeFields
<1>6. PayoutOf(q) = PayoutOf(r)
  BY <1>5, Zenon DEF PayoutOf, GetIdentifier
<1>7. PayoutOf(r) \in KeysOf(a)
  BY <1>2 DEF KeysOf, PayoutsOf
<1> QED
  BY <1>2, <1>5, <1>6, <1>7, Zenon DEF q

(* The payouts and the table of them have the same sums. *)
LEMMA SumTabled ==
  ASSUME NEW ps, IsFiniteSet(ps), \A a \in ps : PayoutOK(a), Separate(ps),
         NEW V, \A r \in RecipesOf(ps) : V[r] \in Int,
         NEW W, \A a \in ps : W[Sum(a)] = RowSum(V, a)
  PROVE  /\ IsFiniteSet(Sums(ps))
         /\ SumFunctionOnSet(W, Sums(ps)) = SumFunctionOnSet(V, RecipesOf(ps))
<1> DEFINE h == [a \in ps |-> Sum(a)]
           G == [a \in ps |-> RowSum(V, a)]
<1>1. \A a \in ps : h[a] = Sum(a) /\ G[a] = RowSum(V, a)
  OBVIOUS
<1>2. Sums(ps) = {h[a] : a \in ps}
  BY DEF Sums
<1> HIDE DEF h, G
<1>3. \A a \in ps : G[a] = RowSum(V, a)
  BY <1>1
<1>4. SumFunctionOnSet(V, RecipesOf(ps)) = SumFunctionOnSet(G, ps)
  BY <1>3, SumOfRecipes
<1>5. ASSUME NEW a \in ps PROVE G[a] \in Int /\ W[h[a]] = G[a]
  <2>1. \A r \in Range(a.recipes) : V[r] \in Int
    BY DEF RecipesOf
  <2>2. IsFiniteSet(Range(a.recipes)) /\ SumFunctionOnSet(V, Range(a.recipes)) = RowSum(V, a)
    BY <2>1, SumOfRange
  <2>3. SumFunctionOnSet(V, Range(a.recipes)) \in Int
    BY <2>1, <2>2, SumInt
  <2> QED
    BY <1>1, <2>2, <2>3, Zenon
<1>6. ASSUME NEW a \in ps, NEW b \in ps, h[a] = h[b] PROVE a = b
  <2>1. PayoutOf(h[a]) \in KeysOf(a) /\ PayoutOf(h[b]) \in KeysOf(b)
    BY <1>1, SumFacts
  <2> QED
    BY <1>6, <2>1 DEF Separate
<1>7. Carries(G, W, ps, h)
  BY <1>5, <1>6, Zenon DEF Carries
<1>8. /\ IsFiniteSet({h[a] : a \in ps})
      /\ SumFunctionOnSet(W, {h[a] : a \in ps}) = SumFunctionOnSet(G, ps)
  BY <1>7, SumCarried
<1> QED
  BY <1>2, <1>4, <1>8, Zenon

(* The table of accumulated payouts has the totals of their recipes. *)
LEMMA TotalsTabled ==
  ASSUME NEW ps, IsFiniteSet(ps), \A a \in ps : PayoutOK(a), Separate(ps)
  PROVE  /\ IsFiniteSet(RecipesOf(ps))
         /\ \A r \in RecipesOf(ps) : r.amount \in Nat /\ r.fee \in Nat /\ r.txFee \in Nat
         /\ GetTotals(Sums(ps)) = GetTotals(RecipesOf(ps))
<1> DEFINE R == RecipesOf(ps)
           T == Sums(ps)
           A(s) == [r \in s |-> IF r.tx = "tez" THEN r.amount ELSE 0]
           F(s) == [r \in s |-> r.fee]
           X(s) == [r \in s |-> r.txFee]
<1>0. \A n \in Nat : n \in Int
  OBVIOUS
<1>1. \A a \in ps : \A i \in DOMAIN a.recipes : a.recipes[i] \in R
  BY DEF RecipesOf, Range
<1>2. \A r \in R : \E a \in ps : \E i \in DOMAIN a.recipes : r = a.recipes[i]
  BY DEF RecipesOf, Range
<1>3. \A r \in R : r.amount \in Nat /\ r.fee \in Nat /\ r.txFee \in Nat
  BY <1>2, RowsOfTx
<1>4. \A a \in ps : Sum(a) \in T
  BY DEF Sums
<1>5. \A r \in R : A(R)[r] \in Int /\ F(R)[r] \in Int /\ X(R)[r] \in Int
  BY <1>0, <1>3
<1>6. ASSUME NEW a \in ps PROVE A(T)[Sum(a)] = RowSum(A(R), a)
  <2> DEFINE D == DOMAIN a.recipes
  <2>1. \A i \in D : a.recipes[i].tx = a.tx /\ a.recipes[i].amount \in Nat
    BY RowsOfTx
  <2>2. \A i \in D : A(R)[a.recipes[i]] = IF a.tx = "tez" THEN a.recipes[i].amount ELSE 0
    BY <1>1, <2>1
  <2>3. A(T)[Sum(a)] = TezAmount(a)
    BY <1>4, SumFacts DEF TezAmount
  <2>4. CASE a.tx = "tez"
    <3> DEFINE G == [i \in D |-> a.recipes[i].amount]
    <3>1. \A i \in D : G[i] \in Int /\ A(R)[a.recipes[i]] = G[i]
      BY <1>0, <2>1, <2>2, <2>4
    <3>2. GetAmount(a) = SumFunctionOnSet(G, D)
      BY Zenon DEF GetAmount, Total
    <3> HIDE DEF A, G
    <3>3. RowSum(A(R), a) = SumFunctionOnSet(G, D)
      BY <3>1, RowSumIs
    <3> QED
      BY <2>3, <2>4, <3>2, <3>3, Zenon DEF TezAmount
  <2>5. CASE a.tx # "tez"
    <3> DEFINE G == [i \in D |-> 0]
    <3>1. \A i \in D : G[i] \in Int /\ G[i] = 0 /\ A(R)[a.recipes[i]] = G[i]
      BY <2>2, <2>5
    <3>2. IsFiniteSet(D)
      BY RowsFacts DEF PayoutOK
    <3> HIDE DEF A, G
    <3>3. RowSum(A(R), a) = SumFunctionOnSet(G, D)
      BY <3>1, RowSumIs
    <3>4. SumFunctionOnSet(G, D) = 0
      <4> HIDE DEF D
      <4> QED
        BY <3>1, <3>2, SumZero
    <3> QED
      BY <2>3, <2>5, <3>3, <3>4, Zenon DEF TezAmount
  <2> QED
    BY <2>4, <2>5
<1>7. ASSUME NEW a \in ps PROVE F(T)[Sum(a)] = RowSum(F(R), a)
  <2> DEFINE D == DOMAIN a.recipes
             G == [i \in D |-> a.recipes[i].fee]
  <2>1. \A i \in D : a.recipes[i].fee \in Nat
    BY RowsOfTx
  <2>2. \A i \in D : G[i] \in Int /\ F(R)[a.recipes[i]] = G[i]
    BY <1>0, <1>1, <2>1
  <2>3. GetFee(a) = SumFunctionOnSet(G, D)
    BY Zenon DEF GetFee, Total
  <2>4. F(T)[Sum(a)] = GetFee(a)
    BY <1>4, SumFacts
  <2> HIDE DEF F, G
  <2>5. RowSum(F(R), a) = SumFunctionOnSet(G, D)
    BY <2>2, RowSumIs
  <2> QED
    BY <2>3, <2>4, <2>5, Zenon
<1>8. ASSUME NEW a \in ps PROVE X(T)[Sum(a)] = RowSum(X(R), a)
  <2> DEFINE D == DOMAIN a.recipes
             G == [i \in D |-> a.recipes[i].txFee]
  <2>1. \A i \in D : a.recipes[i].txFee \in Nat
    BY RowsOfTx
  <2>2. \A i \in D : G[i] \in Int /\ X(R)[a.recipes[i]] = G[i]
    BY <1>0, <1>1, <2>1
  <2>3. GetTxFee(a) = SumFunctionOnSet(G, D)
    BY Zenon DEF GetTxFee, Total
  <2>4. X(T)[Sum(a)] = GetTxFee(a)
    BY <1>4, SumFacts
  <2> HIDE DEF X, G
  <2>5. RowSum(X(R), a) = SumFunctionOnSet(G, D)
    BY <2>2, RowSumIs
  <2> QED
    BY <2>3, <2>4, <2>5, Zenon
<1>9. \A q \in T : q.amount \in Nat
  <2>1. \A a \in ps : Sum(a).amount \in Nat
    BY SumFacts, SumsNat
  <2> QED
    BY <2>1 DEF Sums
<1>10. IsFiniteSet(T) /\ IsFiniteSet(R)
  <2>1. \A a \in ps : A(T)[Sum(a)] = RowSum(A(R), a)
    BY <1>6
  <2> HIDE DEF A, F, X
  <2>2. IsFiniteSet(T)
    BY <1>5, <2>1, SumTabled
  <2> DEFINE W == [a \in ps |-> RowSum(A(R), a)]
  <2>3. \A a \in ps : W[a] = RowSum(A(R), a)
    OBVIOUS
  <2> HIDE DEF W
  <2>4. IsFiniteSet(R)
    BY <1>5, <2>3, SumOfRecipes
  <2> QED
    BY <2>2, <2>4
<1>11. GetTotals(T) = [amount |-> SumFunctionOnSet(A(T), T), fee |-> SumFunctionOnSet(F(T), T),
                       txFee |-> SumFunctionOnSet(X(T), T)]
  BY <1>9, <1>10, TotalsAre
<1>12. GetTotals(R) = [amount |-> SumFunctionOnSet(A(R), R), fee |-> SumFunctionOnSet(F(R), R),
                       txFee |-> SumFunctionOnSet(X(R), R)]
  BY <1>3, <1>10, TotalsAre
<1> HIDE DEF A, F, X
<1>13. /\ SumFunctionOnSet(A(T), T) = SumFunctionOnSet(A(R), R)
       /\ SumFunctionOnSet(F(T), T) = SumFunctionOnSet(F(R), R)
       /\ SumFunctionOnSet(X(T), T) = SumFunctionOnSet(X(R), R)
  BY <1>5, <1>6, <1>7, <1>8, SumTabled
<1> QED
  BY <1>3, <1>10, <1>11, <1>12, <1>13, Zenon

-----------------------------------------------------------------------------
(* The reports of the batches.                                             *)

\* The report of a recipe of a batch.
ReportIn(r, baker, success) ==
    [ToPayoutReport(r, baker) EXCEPT !.op = PaidOp, !.success = success,
                                     !.note = IF success THEN @ ELSE "failed"]

(* The report of a recipe is of its payout, with its amounts. *)
LEMMA ReportInMatches == \A r, baker, success : Matches(ReportIn(r, baker, success), r)
<1> SUFFICES ASSUME NEW r, NEW baker, NEW success PROVE Matches(ReportIn(r, baker, success), r)
  OBVIOUS
<1> DEFINE q == ReportIn(r, baker, success)
<1>1. /\ q.kind = r.kind /\ q.tx = r.tx /\ q.token = r.token /\ q.delegator = r.delegator
      /\ q.recipient = r.recipient /\ q.cycle = r.cycle /\ q.amount = r.amount
      /\ q.fee = r.fee /\ q.txFee = r.txFee
  BY DEF ReportIn, ToPayoutReport
<1> HIDE DEF q
<1>2. PayoutOf(q) = PayoutOf(r)
  BY <1>1, Zenon DEF PayoutOf, GetIdentifier
<1> QED
  BY <1>1, <1>2, Zenon DEF Matches, q

\* The reports of batches of which some were applied.
ReportsOf(bs, baker, applied) ==
    UNION {ToIndividualReports(b, baker, PaidOp, b \in applied) : b \in bs}

(* Each recipe is reported once, whichever batches failed. *)
LEMMA ReportedOnce ==
  ASSUME NEW ps, \A a \in ps : PayoutOK(a), Separate(ps),
         NEW bs, UNION bs = ps, \A b, c \in bs : b # c => b \cap c = {},
         NEW baker, NEW applied
  PROVE  /\ OfEachOther(ReportsOf(bs, baker, applied), RecipesOf(ps))
         /\ Unique(ReportsOf(bs, baker, applied))
<1> DEFINE Q == ReportsOf(bs, baker, applied)
<1>1. ASSUME NEW q \in Q
      PROVE  \E b \in bs : \E a \in b : \E r \in Range(a.recipes) :
                a \in ps /\ r \in RecipesOf(ps) /\ q = ReportIn(r, baker, b \in applied)
  <2>1. PICK b \in bs : q \in ToIndividualReports(b, baker, PaidOp, b \in applied)
    BY DEF ReportsOf
  <2>2. PICK r \in RecipesOf(b) : q = ReportIn(r, baker, b \in applied)
    BY <2>1, Zenon DEF ToIndividualReports, ReportIn
  <2>3. PICK a \in b : r \in Range(a.recipes)
    BY DEF RecipesOf
  <2>4. a \in ps /\ r \in RecipesOf(ps)
    BY <2>3 DEF RecipesOf
  <2> QED
    BY <2>2, <2>3, <2>4
<1>2. ASSUME NEW r \in RecipesOf(ps) PROVE \E q \in Q : Matches(q, r)
  <2>1. PICK a \in ps : r \in Range(a.recipes)
    BY DEF RecipesOf
  <2>2. PICK b \in bs : a \in b
    OBVIOUS
  <2>3. r \in RecipesOf(b)
    BY <2>1, <2>2 DEF RecipesOf
  <2>4. ReportIn(r, baker, b \in applied) \in ToIndividualReports(b, baker, PaidOp, b \in applied)
    BY <2>3, Zenon DEF ToIndividualReports, ReportIn
  <2>5. ReportIn(r, baker, b \in applied) \in Q
    BY <2>4 DEF ReportsOf
  <2> QED
    BY <2>5, ReportInMatches
<1>3. ASSUME NEW p \in Q, NEW q \in Q, PayoutOf(p) = PayoutOf(q) PROVE p = q
  <2>1. PICK b \in bs, a \in ps, r \in RecipesOf(ps) :
           a \in b /\ r \in Range(a.recipes) /\ p = ReportIn(r, baker, b \in applied)
    BY <1>1
  <2>2. PICK c \in bs, d \in ps, s \in RecipesOf(ps) :
           d \in c /\ s \in Range(d.recipes) /\ q = ReportIn(s, baker, c \in applied)
    BY <1>1
  <2>3. PayoutOf(r) = PayoutOf(s)
    BY <1>3, <2>1, <2>2, ReportInMatches DEF Matches
  <2>4. a = d /\ r = s
    BY <2>1, <2>2, <2>3, RecipesUnique
  <2>5. b = c
    BY <2>1, <2>2, <2>4
  <2> QED
    BY <2>1, <2>2, <2>4, <2>5
<1>4. \A q \in Q : \E r \in RecipesOf(ps) : Matches(q, r)
  BY <1>1, ReportInMatches
<1> QED
  BY <1>2, <1>3, <1>4, Zenon DEF OfEachOther, Unique

\* The table shown, and what it was compared with.
ShownInv ==
    /\ stage \in {"confirm", "split", "execute"} => shown.toPay = GetTotals(Sums(payouts))
    /\ ConfirmedIsReported

(* What the execution reports beside the past is what was shown. *)
LEMMA ExecutedIsShown ==
  ASSUME RunInv, BatchesPartition, ShownInv, Paying, ExecutePayouts
  PROVE  ShownInv'
<1>1. PICK applied \in SUBSET batches :
         results' = past \cup ReportsOf(batches, config.baker, applied)
  BY Zenon DEF ExecutePayouts, ReportsOf
<1> DEFINE Q == ReportsOf(batches, config.baker, applied)
           R == RecipesOf(payouts)
<1>2. /\ stage = "execute" /\ stage' = "done" /\ shown' = shown /\ past' = past
      /\ stage \in ChargedStages /\ stage \in DueStages
  BY DEF Paying, ExecutePayouts, prepVars, ChargedStages, DueStages, PayStages
<1>3. /\ IsFiniteSet(payouts) /\ \A a \in payouts : PayoutOK(a)
      /\ Separate(payouts) /\ Accounted(PayoutsOf(R))
  BY <1>2 DEF RunInv, PrepInv, TypedInv, PartsInv
<1>4. UNION batches = payouts /\ \A b, c \in batches : b # c => b \cap c = {}
  BY <1>2 DEF BatchesPartition
<1>5. OfEachOther(Q, R) /\ Unique(Q)
  BY <1>3, <1>4, ReportedOnce
<1>6. /\ IsFiniteSet(R) /\ \A r \in R : r.amount \in Nat /\ r.fee \in Nat /\ r.txFee \in Nat
      /\ GetTotals(Sums(payouts)) = GetTotals(R)
  BY <1>3, TotalsTabled
<1>7. Unique(R)
  BY <1>3, RecipesUnique
<1>8. GetTotals(Q) = GetTotals(R)
  BY <1>5, <1>6, <1>7, TotalsMatched
<1>9. Q \cap past = {}
  <2> SUFFICES ASSUME NEW q \in Q, q \in past PROVE FALSE
    OBVIOUS
  <2>1. PICK r \in R : PayoutOf(q) = PayoutOf(r)
    BY <1>5 DEF OfEachOther, Matches
  <2>2. PayoutOf(q) \in PayoutsOf(R) /\ PayoutOf(q) \in PayoutsOf(past)
    BY <2>1 DEF PayoutsOf
  <2> QED
    BY <1>3, <2>2 DEF Accounted
<1>10. results' \ past' = Q
  BY <1>1, <1>2, <1>9
<1>11. GetTotals(results \ past)' = shown'.toPay
  BY <1>2, <1>6, <1>8, <1>10 DEF ShownInv
<1> QED
  BY <1>2, <1>11 DEF ShownInv, ConfirmedIsReported

(* Every step keeps what was shown equal to what is reported. *)
LEMMA ShownStep == ASSUME RunInv, BatchesPartition, ShownInv, [Next]_vars PROVE ShownInv'
<1>1. ASSUME UNCHANGED <<stage, shown, payouts, past, results>> PROVE ShownInv'
  BY <1>1 DEF ShownInv, ConfirmedIsReported
<1>2. ASSUME stage' \notin {"confirm", "split", "execute", "done"} PROVE ShownInv'
  BY <1>2 DEF ShownInv, ConfirmedIsReported
<1>3. CASE Generating
  BY <1>2, <1>3, GeneratingStages DEF OpenStages, WorkStages
<1>4. CASE Preparing
  <2>1. stage' \in PrepStages \cup {"prepared", "failed", "panicked"}
    BY <1>4 DEF Preparing, PrepNext, PreparePayouts, AccumulatePayouts,
       CheckBalanceWithHook, CheckBalanceWithCollector, CheckAgain, BalanceSuffices,
       CollectTransactionFees, ValidatePreparedPayouts, PreparationFails, PartialEstimate,
       PrepStages
  <2> QED
    BY <1>2, <2>1 DEF PrepStages
<1>5. CASE Paying
  <2>1. payouts' = payouts
    BY <1>5 DEF Paying, prepVars
  <2>2. CASE ShowPrepared
    <3>1. CASE stage' = "nothing"
      BY <1>2, <3>1
    <3>2. CASE stage' = "confirm"
      <4>1. shown'.toPay = GetTotals(Sums(payouts))
        BY <2>2, Zenon DEF ShowPrepared
      <4> QED
        BY <2>1, <3>2, <4>1 DEF ShownInv, ConfirmedIsReported
    <3> QED
      BY <2>2, <3>1, <3>2 DEF ShowPrepared
  <2>3. CASE SplitIntoBatches \/ SplitNextPayout \/ SplitNextClass
    <3>1. /\ stage \in {"confirm", "split"} /\ shown' = shown
          /\ stage' \in {"split", "execute", "failed"}
      BY <2>3 DEF SplitIntoBatches, SplitNextPayout, AddToBatch, OpenNextBatch, SplitNextClass
    <3> QED
      BY <2>1, <3>1 DEF ShownInv, ConfirmedIsReported
  <2> QED
    BY <1>5, <2>2, <2>3, ExecutedIsShown DEF Paying, BatchNext
<1>6. CASE UNCHANGED vars
  BY <1>1, <1>6 DEF vars, genVars, prepVars, batchVars
<1> QED
  BY <1>3, <1>4, <1>5, <1>6 DEF Next, Ended

(* However the payouts are accumulated and batched and whichever batches   *)
(* fail, the totals the user confirms are those of the reports that this   *)
(* run writes (cli.go, batch_result.go).                                   *)
THEOREM ConfirmedReported == SoundSources => (Spec => []ConfirmedIsReported)
<1> SUFFICES ASSUME SoundSources PROVE Spec => []ConfirmedIsReported
  OBVIOUS
<1>1. Init => ShownInv
  BY DEF Init, GenInit, ShownInv, ConfirmedIsReported
<1>2. RunInv /\ BatchesPartition /\ ShownInv /\ [Next]_vars => ShownInv'
  BY ShownStep
<1>3. ShownInv => ConfirmedIsReported
  BY DEF ShownInv
<1> QED
  BY <1>1, <1>2, <1>3, RunAlways, Partition, PTL DEF Spec

-----------------------------------------------------------------------------
(* The summary.                                                            *)

\* Reports of recipes of the blueprints, each of another one.
Reps(rs) ==
    /\ IsFiniteSet(rs) /\ Unique(rs)
    /\ \A q \in rs : q.amount \in Nat /\ OfBlueprint(q)

(* Reports of different payouts together. *)
LEMMA RepsUnion ==
  ASSUME NEW rs, NEW qs, Reps(rs), Reps(qs), PayoutsOf(rs) \cap PayoutsOf(qs) = {}
  PROVE  Reps(rs \cup qs)
<1>1. IsFiniteSet(rs \cup qs)
  BY FS_Union DEF Reps
<1>2. \A r \in rs, q \in qs : PayoutOf(r) # PayoutOf(q)
  BY DEF PayoutsOf
<1>3. Unique(rs \cup qs)
  BY <1>2 DEF Reps, Unique
<1> QED
  BY <1>1, <1>3 DEF Reps

(* The reports of such recipes are such reports, of the same payouts. *)
LEMMA RepsMatched ==
  ASSUME NEW rs, Reps(rs), NEW qs, Unique(qs), OfEachOther(qs, rs)
  PROVE  Reps(qs) /\ PayoutsOf(qs) = PayoutsOf(rs)
<1> DEFINE V == [r \in rs |-> 0]
           W == [q \in qs |-> 0]
<1>1. \A r \in rs : V[r] \in Int
  OBVIOUS
<1>2. \A q \in qs, r \in rs : Matches(q, r) => W[q] = V[r]
  OBVIOUS
<1> HIDE DEF V, W
<1>3. IsFiniteSet(qs)
  BY <1>1, <1>2, SumMatched DEF Reps
<1>4. ASSUME NEW q \in qs PROVE q.amount \in Nat /\ OfBlueprint(q)
  <2>1. PICK r \in rs : Matches(q, r)
    BY DEF OfEachOther
  <2>2. r.amount \in Nat /\ OfBlueprint(r)
    BY DEF Reps
  <2> QED
    BY <2>1, <2>2 DEF Matches, OfBlueprint
<1>5. PayoutsOf(qs) = PayoutsOf(rs)
  <2>1. \A q \in qs : PayoutOf(q) \in PayoutsOf(rs)
    BY DEF OfEachOther, Matches, PayoutsOf
  <2>2. \A r \in rs : PayoutOf(r) \in PayoutsOf(qs)
    BY DEF OfEachOther, Matches, PayoutsOf
  <2> QED
    BY <2>1, <2>2 DEF PayoutsOf
<1> QED
  BY <1>3, <1>4, <1>5 DEF Reps

(* A report of a blueprint's cycle is of one of its recipes. *)
LEMMA RecipeReported ==
  ASSUME BlueprintsInv, NEW b \in blueprints, NEW q, OfBlueprint(q), q.cycle = b.cycle
  PROVE  \E r \in b.payouts : PayoutOf(r) = PayoutOf(q) /\ r.kind = q.kind /\ q.amount <= r.amount
<1>1. PICK r \in AllRecipes : PayoutOf(r) = PayoutOf(q) /\ q.amount <= r.amount
  BY DEF OfBlueprint
<1>2. r.cycle = b.cycle /\ GetIdentifier(r) = GetIdentifier(q)
  BY <1>1 DEF PayoutOf
<1>3. r.kind = q.kind
  <2>1. GetIdentifier(r).kind = GetIdentifier(q).kind
    BY <1>2
  <2> QED
    BY <2>1 DEF GetIdentifier
<1>4. PICK c \in blueprints : r \in c.payouts
  BY DEF AllRecipes
<1>5. r.cycle = c.cycle
  BY <1>4 DEF BlueprintsInv, BlueprintOK, RecipesOK
<1>6. b = c
  BY <1>2, <1>5 DEF BlueprintsInv
<1> QED
  BY <1>1, <1>3, <1>4, <1>6

\* The rewards of the delegators among the recipes or reports.
Rewards(rs) == OfKind(rs, "delegator reward")

(* What the reports of a cycle say delegators got or did not get is at     *)
(* most what its blueprint has for them.                                   *)
LEMMA ReportedRewards ==
  ASSUME BlueprintsInv, NoTokens, NEW b \in blueprints, NEW rs, Reps(rs)
  PROVE  LET own == Rewards(OfCycle(rs, b.cycle))
         IN  AmountOf(own) <= AmountOf(OfKind(OfTxKinds(b.payouts, {"tez"}), "delegator reward"))
<1> DEFINE own == Rewards(OfCycle(rs, b.cycle))
           due == Rewards(b.payouts)
           tez == OfKind(OfTxKinds(b.payouts, {"tez"}), "delegator reward")
           V == [q \in own |-> q.amount]
           W == [r \in due |-> r.amount]
           T == [r \in tez |-> r.amount]
           from == [q \in own |-> CHOOSE r \in due : PayoutOf(r) = PayoutOf(q) /\ q.amount <= r.amount]
<1>1. own \in SUBSET rs /\ \A q \in own : q.cycle = b.cycle /\ q.kind = "delegator reward"
  BY DEF Rewards, OfKind, OfCycle
<1>2. due \in SUBSET b.payouts /\ \A r \in b.payouts : r.kind = "delegator reward" => r \in due
  BY DEF Rewards, OfKind
<1>3. /\ IsFiniteSet(b.payouts)
      /\ \A r \in b.payouts : RecipeOK(r) /\ r.amount \in Nat /\ TxOK(r) /\ r.tx \notin FAKinds
  <2>1. \A r \in b.payouts : r \in AllRecipes
    BY DEF AllRecipes
  <2> QED
    BY <2>1 DEF BlueprintsInv, BlueprintOK, RecipesOK, RecipeOK, NoTokens
<1>4. IsFiniteSet(own) /\ IsFiniteSet(due)
  BY <1>1, <1>2, <1>3, FS_Subset DEF Reps
<1>5. ASSUME NEW q \in own
      PROVE  from[q] \in due /\ PayoutOf(from[q]) = PayoutOf(q) /\ q.amount <= from[q].amount
  <2>1. OfBlueprint(q) /\ q.cycle = b.cycle /\ q.kind = "delegator reward"
    BY <1>1 DEF Reps
  <2>2. PICK r \in b.payouts : PayoutOf(r) = PayoutOf(q) /\ r.kind = q.kind /\ q.amount <= r.amount
    BY <2>1, RecipeReported
  <2>3. r \in due
    BY <1>2, <2>1, <2>2
  <2>4. from[q] = CHOOSE p \in due : PayoutOf(p) = PayoutOf(q) /\ q.amount <= p.amount
    OBVIOUS
  <2> HIDE DEF from, due
  <2> QED
    BY <2>2, <2>3, <2>4
<1>6. \A q \in own : V[q] = q.amount
  OBVIOUS
<1>7. \A r \in due : W[r] = r.amount
  OBVIOUS
<1>8. tez \in SUBSET due /\ \A r \in due \ tez : r.amount = 0
  <2>1. tez \in SUBSET due /\ \A r \in due \ tez : r.tx # "tez"
    BY DEF OfKind, OfTxKinds, Rewards
  <2>2. \A r \in due \ tez : r.tx = ""
    BY <1>2, <1>3, <2>1 DEF TxOK, TxKinds, FAKinds
  <2>3. \A r \in due : r.tx = "" => r.amount = 0
    BY <1>2, <1>3 DEF TxOK
  <2> QED
    BY <2>1, <2>2, <2>3
<1>9. AmountOf(own) = SumFunctionOnSet(V, own) /\ AmountOf(tez) = SumFunctionOnSet(T, tez)
  BY AmountIs
<1>10. \A r \in tez : T[r] = r.amount
  OBVIOUS
<1> HIDE DEF V, W, T, from, own, due, tez
<1>11. SumFunctionOnSet(V, own) <= SumFunctionOnSet(W, due)
  <2>1. \A r \in due : W[r] \in Nat
    BY <1>2, <1>3, <1>7
  <2>2. \A q \in own : from[q] \in due /\ V[q] \in Nat /\ V[q] <= W[from[q]]
    <3>1. \A q \in own : q.amount \in Nat
      BY <1>1 DEF Reps
    <3> QED
      BY <1>5, <1>6, <1>7, <3>1, Zenon
  <2>3. \A q, p \in own : from[q] = from[p] => q = p
    <3> SUFFICES ASSUME NEW q \in own, NEW p \in own, from[q] = from[p] PROVE q = p
      OBVIOUS
    <3>1. PayoutOf(q) = PayoutOf(p)
      BY <1>5
    <3> QED
      BY <1>1, <3>1 DEF Reps, Unique
  <2> QED
    BY <1>4, <2>1, <2>2, <2>3, SumFrom
<1>14. \A r \in due : r.amount \in Int /\ W[r] = r.amount
  <2>1. \A n \in Nat : n \in Int
    OBVIOUS
  <2>2. \A r \in due : r.amount \in Nat
    BY <1>2, <1>3
  <2> QED
    BY <1>7, <2>1, <2>2, Zenon
<1>12. SumFunctionOnSet(W, due) = SumFunctionOnSet(W, tez)
  <2>1. \A r \in due : W[r] \in Int
    BY <1>14
  <2>2. \A r \in due \ tez : W[r] = 0
    BY <1>7, <1>8
  <2> QED
    BY <1>4, <1>8, <2>1, <2>2, SumRest
<1>13. SumFunctionOnSet(W, tez) = SumFunctionOnSet(T, tez)
  <2>1. IsFiniteSet(tez)
    BY <1>4, <1>8, FS_Subset
  <2>2. \A r \in tez : W[r] \in Int /\ W[r] = T[r]
    <3>1. \A r \in tez : r.amount \in Int /\ W[r] = r.amount
      BY <1>8, <1>14
    <3> QED
      BY <1>10, <3>1, Zenon
  <2> QED
    BY <2>1, <2>2, SumEqual
<1> QED
  BY <1>9, <1>11, <1>12, <1>13, Zenon DEF own, tez

\* The amounts of the rewards of a cycle that were sent, and of the others.
Sent(rs, b)   == AmountOf({q \in Rewards(OfCycle(rs, b.cycle)) : q.success})
Unsent(rs, b) == AmountOf({q \in Rewards(OfCycle(rs, b.cycle)) : ~q.success})

(* The sums of the summary of a cycle that its earnings bound. *)
LEMMA CycleSums ==
  ASSUME NEW b, NEW rs
  PROVE  /\ CycleSummary(b, rs)["distributed"] = Sent(rs, b)
         /\ CycleSummary(b, rs)["notDistributed"] = Unsent(rs, b)
         /\ CycleSummary(b, rs)["incomeTotal"] = b.totals.incomeTotal
         /\ CycleSummary(b, rs)["donatedTotal"] = b.totals.donatedTotal
         /\ CycleSummary(b, rs)["earnedTotal"] = b.totals.earnedTotal
<1> DEFINE own == OfCycle(rs, b.cycle)
           rewards == Rewards(own)
           sent == {q \in own : q.success}
<1>1. rewards \cap sent = {q \in rewards : q.success} /\ rewards \ sent = {q \in rewards : ~q.success}
  BY DEF Rewards, OfKind
<1>2. /\ "incomeTotal" \in BlueprintFields /\ "donatedTotal" \in BlueprintFields
      /\ "earnedTotal" \in BlueprintFields
      /\ "distributed" \notin BlueprintFields /\ "notDistributed" \notin BlueprintFields
      /\ "distributed" \in SummaryFields /\ "notDistributed" \in SummaryFields
      /\ BlueprintFields \subseteq SummaryFields
  BY DEF BlueprintFields, SummaryFields
<1>3. CycleSummary(b, rs) =
        [f \in SummaryFields |->
            CASE f \in BlueprintFields     -> b.totals[f]
              [] f = "distributed"         -> AmountOf(rewards \cap sent)
              [] f = "notDistributed"      -> AmountOf(rewards \ sent)
              [] f = "txFeesForRewards"    ->
                    SumFunctionOnSet([q \in rewards \cap sent |-> q.txFee], rewards \cap sent)
              [] f = "txFees"              -> SumFunctionOnSet([q \in sent |-> q.txFee], sent)]
  BY Zenon DEF CycleSummary, AmountOf, Total, Rewards
<1> DEFINE N == AmountOf(rewards \ sent)
           A == AmountOf(rewards \cap sent)
           X == SumFunctionOnSet([q \in rewards \cap sent |-> q.txFee], rewards \cap sent)
           Y == SumFunctionOnSet([q \in sent |-> q.txFee], sent)
           s == CycleSummary(b, rs)
<1>4. s = [f \in SummaryFields |->
            CASE f \in BlueprintFields     -> b.totals[f]
              [] f = "distributed"         -> A
              [] f = "notDistributed"      -> N
              [] f = "txFeesForRewards"    -> X
              [] f = "txFees"              -> Y]
  BY <1>3
<1>5. A = Sent(rs, b) /\ N = Unsent(rs, b)
  BY <1>1, Zenon DEF Sent, Unsent
<1> HIDE DEF A, N, X, Y, s
<1>6. s["distributed"] = A /\ s["notDistributed"] = N
  BY <1>2, <1>4
<1>7. \A f \in BlueprintFields : s[f] = b.totals[f]
  <2> SUFFICES ASSUME NEW f \in BlueprintFields PROVE s[f] = b.totals[f]
    OBVIOUS
  <2>1. /\ f \in SummaryFields /\ f # "distributed" /\ f # "notDistributed"
        /\ f # "txFeesForRewards" /\ f # "txFees"
    BY DEF BlueprintFields
  <2> QED
    BY <1>4, <2>1
<1> QED
  BY <1>2, <1>5, <1>6, <1>7 DEF s

(* What the reports say of a cycle is within what it earned. *)
LEMMA CycleWithin ==
  ASSUME BlueprintsInv, NoTokens, NEW b \in blueprints, NEW rs, Reps(rs)
  PROVE  /\ Sent(rs, b) \in Int /\ Unsent(rs, b) \in Int /\ TotalsOK(b.totals)
         /\ Sent(rs, b) + Unsent(rs, b) + b.totals.incomeTotal + b.totals.donatedTotal
               <= b.totals.earnedTotal
<1> DEFINE own == Rewards(OfCycle(rs, b.cycle))
           S == {q \in own : q.success}
           U == {q \in own : ~q.success}
           tez == OfKind(OfTxKinds(b.payouts, {"tez"}), "delegator reward")
           F == [q \in own |-> q.amount]
           G == [q \in S |-> q.amount]
           H == [q \in U |-> q.amount]
<1>1. own \in SUBSET rs /\ own = S \cup U /\ S \cap U = {} /\ S \in SUBSET own /\ U \in SUBSET own
  BY DEF Rewards, OfKind, OfCycle
<1>2. IsFiniteSet(own)
  BY <1>1, FS_Subset DEF Reps
<1>3. \A q \in own : F[q] = q.amount /\ q.amount \in Int
  <2>1. \A n \in Nat : n \in Int
    OBVIOUS
  <2>2. \A q \in own : q.amount \in Nat
    BY <1>1 DEF Reps
  <2>3. \A q \in own : F[q] = q.amount
    OBVIOUS
  <2> QED
    BY <2>1, <2>2, <2>3, Zenon
<1>4. (\A q \in S : G[q] = q.amount) /\ (\A q \in U : H[q] = q.amount)
  OBVIOUS
<1>5. AmountOf(own) = SumFunctionOnSet(F, own)
  BY AmountIs
<1>6. Sent(rs, b) = SumFunctionOnSet(G, S) /\ Unsent(rs, b) = SumFunctionOnSet(H, U)
  BY AmountIs, Zenon DEF Sent, Unsent
<1>7. AmountOf(own) <= AmountOf(tez)
  BY ReportedRewards
<1>8. BlueprintOK(b) /\ IsFiniteSet(b.payouts)
  BY DEF BlueprintsInv, BlueprintOK, RecipesOK
<1>9. TotalsOK(b.totals) /\ AmountOf(tez) + b.totals.incomeTotal + b.totals.donatedTotal <= b.totals.earnedTotal
  BY <1>8 DEF BlueprintOK, WithinTotals
<1>10. AmountOf(tez) \in Int
  <2>1. tez \in SUBSET b.payouts
    BY DEF OfKind, OfTxKinds
  <2>2. \A r \in b.payouts : r.amount \in Nat
    BY <1>8 DEF BlueprintOK, RecipesOK, RecipeOK
  <2>3. AmountOf(tez) \in Nat
    BY <1>8, <2>1, <2>2, AmountSubset
  <2>4. \A n \in Nat : n \in Int
    OBVIOUS
  <2> QED
    BY <2>3, <2>4, Zenon
<1> HIDE DEF F, G, H, S, U, own, tez
<1>11. IsFiniteSet(S) /\ IsFiniteSet(U)
  BY <1>1, <1>2, FS_Subset
<1>12. \A q \in own : F[q] \in Int
  BY <1>3
<1>13. SumFunctionOnSet(F, own) = SumFunctionOnSet(F, S) + SumFunctionOnSet(F, U)
  <2>1. \A q \in S \cup U : F[q] \in Int
    BY <1>1, <1>12
  <2> QED
    BY <1>1, <1>11, <2>1, SumUnion
<1>14. SumFunctionOnSet(F, S) = SumFunctionOnSet(G, S) /\ SumFunctionOnSet(F, S) \in Int
  <2>1. \A q \in S : F[q] \in Int /\ F[q] = G[q]
    BY <1>1, <1>3, <1>4, <1>12, Zenon
  <2> QED
    BY <1>11, <2>1, SumEqual, SumInt
<1>15. SumFunctionOnSet(F, U) = SumFunctionOnSet(H, U) /\ SumFunctionOnSet(F, U) \in Int
  <2>1. \A q \in U : F[q] \in Int /\ F[q] = H[q]
    BY <1>1, <1>3, <1>4, <1>12, Zenon
  <2> QED
    BY <1>11, <2>1, SumEqual, SumInt
<1> DEFINE s == Sent(rs, b)
           u == Unsent(rs, b)
           t == AmountOf(tez)
           i == b.totals.incomeTotal
           d == b.totals.donatedTotal
           e == b.totals.earnedTotal
<1>16. /\ s \in Int /\ u \in Int /\ t \in Int /\ s + u <= t
  BY <1>5, <1>6, <1>7, <1>10, <1>13, <1>14, <1>15
<1>17. i \in Int /\ d \in Int /\ e \in Int /\ t + i + d <= e
  BY <1>9 DEF TotalsOK
<1>18. s \in Int /\ u \in Int /\ s + u + i + d <= e
  <2> HIDE DEF s, u, t, i, d, e
  <2> QED
    BY <1>16, <1>17
<1> QED
  BY <1>9, <1>18

(* The sums of all cycles, each within what it earned. *)
LEMMA SummaryWithinSums ==
  ASSUME BlueprintsInv, NoTokens, NEW rs, Reps(rs)
  PROVE  LET sums == GeneratePayoutSummary(blueprints, rs).sums
         IN  sums["distributed"] + sums["notDistributed"]
                 + sums["incomeTotal"] + sums["donatedTotal"] <= sums["earnedTotal"]
<1> DEFINE B == blueprints
           sums == GeneratePayoutSummary(B, rs).sums
           S == [b \in B |-> CycleSummary(b, rs)["distributed"]]
           U == [b \in B |-> CycleSummary(b, rs)["notDistributed"]]
           I == [b \in B |-> CycleSummary(b, rs)["incomeTotal"]]
           D == [b \in B |-> CycleSummary(b, rs)["donatedTotal"]]
           E == [b \in B |-> CycleSummary(b, rs)["earnedTotal"]]
           SU == [b \in B |-> S[b] + U[b]]
           SUI == [b \in B |-> SU[b] + I[b]]
           All == [b \in B |-> SUI[b] + D[b]]
<1>1. sums = [f \in SummaryFields |->
                SumFunctionOnSet([b \in B |-> CycleSummary(b, rs)[f]], B)]
  BY Zenon DEF GeneratePayoutSummary, Total
<1>2. /\ "incomeTotal" \in SummaryFields /\ "donatedTotal" \in SummaryFields
      /\ "earnedTotal" \in SummaryFields
      /\ "distributed" \in SummaryFields /\ "notDistributed" \in SummaryFields
  BY DEF SummaryFields
<1>3. /\ sums["distributed"] = SumFunctionOnSet(S, B)
      /\ sums["notDistributed"] = SumFunctionOnSet(U, B)
      /\ sums["incomeTotal"] = SumFunctionOnSet(I, B)
      /\ sums["donatedTotal"] = SumFunctionOnSet(D, B)
      /\ sums["earnedTotal"] = SumFunctionOnSet(E, B)
  <2> HIDE DEF sums
  <2> QED
    BY <1>1, <1>2, Zenon
<1>4. IsFiniteSet(B)
  BY DEF BlueprintsInv
<1>5. ASSUME NEW b \in B
      PROVE  /\ S[b] \in Int /\ U[b] \in Int /\ I[b] \in Int /\ D[b] \in Int /\ E[b] \in Int
             /\ S[b] + U[b] + I[b] + D[b] <= E[b]
  <2>1. /\ S[b] = Sent(rs, b) /\ U[b] = Unsent(rs, b) /\ I[b] = b.totals.incomeTotal
        /\ D[b] = b.totals.donatedTotal /\ E[b] = b.totals.earnedTotal
    BY CycleSums, Zenon
  <2>2. /\ Sent(rs, b) \in Int /\ Unsent(rs, b) \in Int /\ TotalsOK(b.totals)
        /\ Sent(rs, b) + Unsent(rs, b) + b.totals.incomeTotal + b.totals.donatedTotal
              <= b.totals.earnedTotal
    BY CycleWithin
  <2>3. b.totals.incomeTotal \in Int /\ b.totals.donatedTotal \in Int /\ b.totals.earnedTotal \in Int
    BY <2>2 DEF TotalsOK
  <2> HIDE DEF S, U, I, D, E, B
  <2> QED
    BY <2>1, <2>2, <2>3, Zenon
<1>6. \A b \in B : SU[b] = S[b] + U[b] /\ SUI[b] = SU[b] + I[b] /\ All[b] = SUI[b] + D[b]
  <2> HIDE DEF S, U, I, D
  <2> QED
    OBVIOUS
<1> HIDE DEF B, S, U, I, D, E, SU, SUI, All, sums
<1>7. \A b \in B : S[b] \in Int /\ U[b] \in Int /\ SU[b] = S[b] + U[b]
  BY <1>5, <1>6, Zenon
<1>8. \A b \in B : SU[b] \in Int /\ I[b] \in Int /\ SUI[b] = SU[b] + I[b]
  <2>1. \A b \in B : S[b] + U[b] \in Int
    BY <1>5
  <2> QED
    BY <1>5, <1>6, <2>1, Zenon
<1>9. \A b \in B : SUI[b] \in Int /\ D[b] \in Int /\ All[b] = SUI[b] + D[b]
  <2>1. \A b \in B : SU[b] + I[b] \in Int
    BY <1>8
  <2> QED
    BY <1>5, <1>6, <1>8, <2>1, Zenon
<1>10. \A b \in B : All[b] \in Int /\ E[b] \in Int /\ All[b] <= E[b]
  <2> SUFFICES ASSUME NEW b \in B PROVE All[b] \in Int /\ E[b] \in Int /\ All[b] <= E[b]
    OBVIOUS
  <2> DEFINE s == S[b]
             u == U[b]
             i == I[b]
             d == D[b]
             e == E[b]
             a == All[b]
  <2>1. s \in Int /\ u \in Int /\ i \in Int /\ d \in Int /\ e \in Int /\ s + u + i + d <= e
    BY <1>5
  <2>2. a = s + u + i + d
    BY <1>6
  <2>3. a \in Int /\ e \in Int /\ a <= e
    <3> HIDE DEF s, u, i, d, e, a
    <3> QED
      BY <2>1, <2>2
  <2> QED
    BY <2>3
<1>11. SumFunctionOnSet(SU, B) = SumFunctionOnSet(S, B) + SumFunctionOnSet(U, B)
  BY <1>4, <1>7, SumPlus
<1>12. SumFunctionOnSet(SUI, B) = SumFunctionOnSet(SU, B) + SumFunctionOnSet(I, B)
  BY <1>4, <1>8, SumPlus
<1>13. SumFunctionOnSet(All, B) = SumFunctionOnSet(SUI, B) + SumFunctionOnSet(D, B)
  BY <1>4, <1>9, SumPlus
<1>14. SumFunctionOnSet(All, B) <= SumFunctionOnSet(E, B)
  BY <1>4, <1>10, SumLeq
<1>15. sums["distributed"] + sums["notDistributed"]
           + sums["incomeTotal"] + sums["donatedTotal"] <= sums["earnedTotal"]
  BY <1>3, <1>11, <1>12, <1>13, <1>14, Zenon
<1> QED
  BY <1>15 DEF sums, B

(* The reports of the invalid recipes. *)
LEMMA InvalidReps ==
  ASSUME RunInv, stage \in DueStages
  PROVE  Reps(past) /\ Reps(InvalidReports) /\ PayoutsOf(InvalidReports) = PayoutsOf(invalid)
<1>1. /\ IsFiniteSet(invalid) /\ \A r \in invalid : PaidRecipe(r)
      /\ IsFiniteSet(past) /\ \A q \in past : q.amount \in Nat
  BY DEF RunInv, PrepInv, TypedInv
<1>2. Unique(invalid) /\ Unique(past) /\ \A r \in invalid \cup past : OfBlueprint(r)
  BY DEF RunInv, PrepInv, PartsInv, Accounted
<1>3. Reps(past) /\ Reps(invalid)
  BY <1>1, <1>2 DEF Reps, PaidRecipe
<1>4. \A r : Matches(ToPayoutReport(r, config.baker), r)
  BY DEF Matches, ToPayoutReport, PayoutOf, GetIdentifier
<1>5. OfEachOther(InvalidReports, invalid)
  BY <1>4 DEF OfEachOther, InvalidReports
<1>6. Unique(InvalidReports)
  <2> SUFFICES ASSUME NEW p \in InvalidReports, NEW q \in InvalidReports, PayoutOf(p) = PayoutOf(q)
               PROVE  p = q
    BY DEF Unique
  <2>1. PICK r \in invalid, s \in invalid :
           p = ToPayoutReport(r, config.baker) /\ q = ToPayoutReport(s, config.baker)
    BY DEF InvalidReports
  <2>2. PayoutOf(r) = PayoutOf(s)
    BY <1>4, <2>1 DEF Matches
  <2>3. r = s
    BY <1>2, <2>2 DEF Unique
  <2> QED
    BY <2>1, <2>3
<1> QED
  BY <1>3, <1>5, <1>6, RepsMatched

(* Whichever batches fail, the summary is within what the cycles earned. *)
LEMMA ShowPreparedSummary ==
  ASSUME RunInv, Paying, ShowPrepared
  PROVE  SummaryWithinEarnings'
<1> SUFFICES ASSUME stage' = "nothing", NoTokens' PROVE SummaryWithinEarnings'
  BY DEF SummaryWithinEarnings, ShowPrepared
<1>1. /\ stage \in DueStages /\ blueprints' = blueprints
      /\ summary' = GeneratePayoutSummary(blueprints, past \cup InvalidReports)
  BY DEF ShowPrepared, Paying, DueStages, ChargedStages, PayStages
<1>2. NoTokens /\ BlueprintsInv
  BY <1>1 DEF NoTokens, AllRecipes, RunInv, GenInv
<1>3. Reps(past) /\ Reps(InvalidReports) /\ PayoutsOf(InvalidReports) = PayoutsOf(invalid)
  BY <1>1, InvalidReps
<1>4. PayoutsOf(past) \cap PayoutsOf(invalid) = {}
  BY <1>1 DEF RunInv, PrepInv, PartsInv, Accounted
<1>5. Reps(past \cup InvalidReports)
  BY <1>3, <1>4, RepsUnion
<1> DEFINE sums == GeneratePayoutSummary(blueprints, past \cup InvalidReports).sums
<1>6. sums["distributed"] + sums["notDistributed"]
           + sums["incomeTotal"] + sums["donatedTotal"] <= sums["earnedTotal"]
  BY <1>2, <1>5, SummaryWithinSums
<1>7. summary'.sums = sums
  BY <1>1
<1> HIDE DEF sums
<1> QED
  BY <1>6, <1>7 DEF SummaryWithinEarnings

(* The same after the execution, with the reports of all batches. *)
LEMMA ExecutedSummary ==
  ASSUME RunInv, BatchesPartition, Paying, ExecutePayouts
  PROVE  SummaryWithinEarnings'
<1> SUFFICES ASSUME NoTokens' PROVE SummaryWithinEarnings'
  BY DEF SummaryWithinEarnings
<1>1. PICK applied \in SUBSET batches :
         results' = past \cup ReportsOf(batches, config.baker, applied)
  BY Zenon DEF ExecutePayouts, ReportsOf
<1> DEFINE Q == ReportsOf(batches, config.baker, applied)
           R == RecipesOf(payouts)
           all == (past \cup Q) \cup InvalidReports
           sums == GeneratePayoutSummary(blueprints, all).sums
<1>2. stage = "execute" /\ stage \in DueStages /\ blueprints' = blueprints
  BY DEF Paying, ExecutePayouts, ChargedStages, DueStages, PayStages
<1>3. summary' = GeneratePayoutSummary(blueprints, results' \cup InvalidReports)
  BY DEF ExecutePayouts
<1>4. NoTokens /\ BlueprintsInv
  BY <1>2 DEF NoTokens, AllRecipes, RunInv, GenInv
<1>5. /\ IsFiniteSet(payouts) /\ \A a \in payouts : PayoutOK(a)
      /\ Separate(payouts) /\ Accounted(PayoutsOf(R))
  BY <1>2 DEF RunInv, PrepInv, TypedInv, PartsInv
<1>6. UNION batches = payouts /\ \A b, c \in batches : b # c => b \cap c = {}
  BY <1>2 DEF BatchesPartition
<1>7. OfEachOther(Q, R) /\ Unique(Q)
  BY <1>5, <1>6, ReportedOnce
<1>8. Reps(R)
  <2>1. IsFiniteSet(R) /\ \A r \in R : r.amount \in Nat
    BY <1>5, TotalsTabled
  <2>2. Unique(R)
    BY <1>5, RecipesUnique
  <2>3. \A r \in R : OfBlueprint(r)
    <3>1. \A a \in payouts : \A i \in DOMAIN a.recipes : OfBlueprint(a.recipes[i])
      BY <1>2 DEF RunInv, PrepInv, PartsInv, ChargedStages, PayStages, Charged
    <3> QED
      BY <3>1 DEF RecipesOf, Range
  <2> QED
    BY <2>1, <2>2, <2>3 DEF Reps
<1>9. Reps(Q) /\ PayoutsOf(Q) = PayoutsOf(R)
  BY <1>7, <1>8, RepsMatched
<1>10. Reps(past) /\ Reps(InvalidReports) /\ PayoutsOf(InvalidReports) = PayoutsOf(invalid)
  BY <1>2, InvalidReps
<1>11. Reps(past \cup Q)
  BY <1>5, <1>9, <1>10, RepsUnion DEF Accounted
<1>12. PayoutsOf(past \cup Q) \cap PayoutsOf(InvalidReports) = {}
  <2>1. PayoutsOf(past \cup Q) = PayoutsOf(past) \cup PayoutsOf(Q)
    BY DEF PayoutsOf
  <2> QED
    BY <1>5, <1>9, <1>10, <2>1 DEF Accounted
<1>13. Reps(all)
  BY <1>10, <1>11, <1>12, RepsUnion
<1>14. sums["distributed"] + sums["notDistributed"]
           + sums["incomeTotal"] + sums["donatedTotal"] <= sums["earnedTotal"]
  <2> HIDE DEF all
  <2> QED
    BY <1>4, <1>13, SummaryWithinSums
<1>15. summary'.sums = sums
  BY <1>1, <1>3
<1> HIDE DEF sums
<1> QED
  BY <1>14, <1>15 DEF SummaryWithinEarnings

(* Every other step leaves the summary or ends nothing. *)
LEMMA SummaryStep ==
  ASSUME RunInv, BatchesPartition, SummaryWithinEarnings, [Next]_vars
  PROVE  SummaryWithinEarnings'
<1>1. ASSUME UNCHANGED vars PROVE SummaryWithinEarnings'
  <2>1. /\ stage' = stage /\ summary' = summary /\ blueprints' = blueprints
    BY <1>1 DEF vars, genVars, batchVars
  <2> QED
    BY <2>1 DEF SummaryWithinEarnings, NoTokens, AllRecipes
<1>2. ASSUME stage' \notin {"nothing", "done"} PROVE SummaryWithinEarnings'
  BY <1>2 DEF SummaryWithinEarnings
<1>3. CASE Generating
  BY <1>2, <1>3, GeneratingStages DEF OpenStages, WorkStages
<1>4. CASE Preparing
  <2>1. stage' \in PrepStages \cup {"prepared", "failed", "panicked"}
    BY <1>4 DEF Preparing, PrepNext, PreparePayouts, AccumulatePayouts,
       CheckBalanceWithHook, CheckBalanceWithCollector, CheckAgain, BalanceSuffices,
       CollectTransactionFees, ValidatePreparedPayouts, PreparationFails, PartialEstimate,
       PrepStages
  <2> QED
    BY <1>2, <2>1 DEF PrepStages
<1>5. CASE Paying
  <2>1. CASE SplitIntoBatches \/ SplitNextPayout \/ SplitNextClass
    <3>1. stage' \in {"split", "execute", "failed"}
      BY <2>1 DEF SplitIntoBatches, SplitNextPayout, AddToBatch, OpenNextBatch, SplitNextClass
    <3> QED
      BY <1>2, <3>1
  <2> QED
    BY <1>5, <2>1, ShowPreparedSummary, ExecutedSummary DEF Paying, BatchNext
<1> QED
  BY <1>1, <1>3, <1>4, <1>5 DEF Next, Ended

(* However the recipes were accumulated, refused or paid before, and        *)
(* whichever batches fail, what the summary says was and was not            *)
(* distributed, with the income and the donations, stays within what the    *)
(* cycles earned (utils/payouts.go, GeneratePayoutSummary).                 *)
THEOREM SummaryWithin == SoundSources => (Spec => []SummaryWithinEarnings)
<1> SUFFICES ASSUME SoundSources PROVE Spec => []SummaryWithinEarnings
  OBVIOUS
<1>1. Init => SummaryWithinEarnings
  BY DEF Init, GenInit, SummaryWithinEarnings
<1>2. RunInv /\ BatchesPartition /\ SummaryWithinEarnings /\ [Next]_vars => SummaryWithinEarnings'
  BY SummaryStep
<1> QED
  BY <1>1, <1>2, RunAlways, Partition, PTL DEF Spec
=============================================================================
