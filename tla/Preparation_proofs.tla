------------------------- MODULE Preparation_proofs -------------------------
(***************************************************************************)
(* What the preparation of payouts keeps, from the recipes of the          *)
(* blueprints to the payouts charged with the fees of their transfers.     *)
(***************************************************************************)
EXTENDS PayoutPipeline, Generation_proofs, SequenceTheorems, TLAPS

-----------------------------------------------------------------------------
(* The invariant.                                                          *)

\* A recipe, charged or not.
PaidRecipe(r) ==
    /\ DOMAIN r = RecipeFields /\ r.kind \in Kinds
    /\ r.amount \in Nat /\ r.fee \in Nat /\ r.txFee \in Nat

\* A sequence that is not empty.
Rows(rs) == rs \in Seq(Range(rs)) /\ rs # <<>>

LimitsOK(limits) ==
    /\ limits.gas \in Nat /\ limits.storage \in Nat /\ limits.txFee \in Nat
    /\ limits.deserialization \in Nat /\ limits.allocationBurn \in Nat
    /\ limits.storageBurn \in Nat

PayoutFields == {"kind", "tx", "token", "delegator", "recipient", "cycle",
                 "valid", "note", "limits", "recipes"}

\* The recipes of a payout are of one destination and of different cycles.
PayoutOK(a) ==
    /\ DOMAIN a = PayoutFields
    /\ Rows(a.recipes)
    /\ LimitsOK(a.limits)
    /\ \A i \in DOMAIN a.recipes :
          PaidRecipe(a.recipes[i]) /\ GetIdentifier(a.recipes[i]) = GetIdentifier(a)
    /\ \A i, j \in DOMAIN a.recipes : a.recipes[i].cycle = a.recipes[j].cycle => i = j

TypedInv ==
    /\ IsFiniteSet(payable) /\ \A r \in payable : RecipeOK(r) /\ r.valid
    /\ IsFiniteSet(invalid) /\ \A r \in invalid : PaidRecipe(r) /\ ~r.valid
    /\ IsFiniteSet(payouts) /\ \A a \in payouts : PayoutOK(a) /\ a.valid
    /\ IsFiniteSet(past) /\ \A q \in past : q.amount \in Nat

\* One recipe or report of a payout of a cycle.
Unique(rs) == \A r, q \in rs : PayoutOf(r) = PayoutOf(q) => r = q

\* A recipe or a report is of a recipe of the blueprints, of no more than it.
OfBlueprint(r) == \E q \in AllRecipes : PayoutOf(q) = PayoutOf(r) /\ r.amount <= q.amount

\* The payouts that are due, those paid before and the invalid ones are those
\* of the blueprints, each once.
Accounted(due) ==
    /\ PayoutsOf(AllRecipes) = PayoutsOf(past) \cup due \cup PayoutsOf(invalid)
    /\ due \cap PayoutsOf(past) = {}
    /\ due \cap PayoutsOf(invalid) = {}
    /\ PayoutsOf(past) \cap PayoutsOf(invalid) = {}
    /\ Unique(invalid) /\ Unique(past)
    /\ \A q \in past : q.baker = config.baker
    /\ \A r \in invalid \cup past : OfBlueprint(r)

KeysOf(a) == PayoutsOf(Range(a.recipes))

Separate(ps) == \A a, b \in ps : a # b => KeysOf(a) \cap KeysOf(b) = {}

\* What FeesChargedExactly says of a payout.
ChargedExactly(a) ==
    LET subject == a.tx = "tez" /\ a.kind = "delegator reward"
    IN  /\ GetTxFee(a) = GetOperationTotalFees(a.limits)
        /\ GetAmount(a) > 0
        /\ TakenFrom(a) =
             (IF subject /\ ~IsBakerPaying(a, "payTxFee")
              THEN GetOperationFeesWithoutAllocation(a.limits) ELSE 0)
             + (IF subject /\ ~IsBakerPaying(a, "payAllocationFee")
                THEN GetAllocationFee(a.limits) ELSE 0)

Charged(a) ==
    /\ ChargedExactly(a)
    /\ a.limits.bytes \in Nat
    /\ \A i \in DOMAIN a.recipes : OfBlueprint(a.recipes[i])

ChargedStages == {"validate prepared"} \cup PayStages \cup {"done", "nothing"}
DueStages == {"balance", "charge"} \cup ChargedStages

PartsInv ==
    /\ stage \in OpenStages \cup {"prepare"} =>
          payable = {} /\ payouts = {} /\ invalid = {} /\ past = {}
    /\ stage = "accumulate" =>
          payouts = {} /\ payable \subseteq AllRecipes /\ Accounted(PayoutsOf(payable))
    /\ stage \in DueStages =>
          Accounted(PayoutsOf(RecipesOf(payouts))) /\ Separate(payouts)
    /\ stage \in {"balance", "charge"} =>
          \A a \in payouts : Range(a.recipes) \subseteq AllRecipes
    /\ stage \in ChargedStages => \A a \in payouts : Charged(a)

\* What the payouts send in tez, with a buffer for each of them.
Buffered(ps) ==
    SumFunctionOnSet([a \in ps |-> IF a.tx = "tez" THEN GetAmount(a) ELSE 0], ps)
        + FeeBuffer * Cardinality(ps)

\* A balance that was seen covers it.
CoverInv ==
    /\ balance.seen \in Int
    /\ stage \in OpenStages \cup {"prepare", "accumulate"} => balance.seen = -1
    /\ stage \in {"charge"} \cup ChargedStages /\ balance.seen >= 0
          => Buffered(payouts) < balance.seen

PrepInv == TypedInv /\ PartsInv /\ CoverInv


-----------------------------------------------------------------------------
(* Sums along a sequence.                                                  *)

(* Counting up to n. *)
LEMMA CountUp ==
  ASSUME NEW n \in Nat, NEW Good, 0 \in Good,
         \A k \in 0..(n - 1) : k \in Good => k + 1 \in Good
  PROVE  n \in Good
<1> SUFFICES ASSUME n \notin Good PROVE FALSE
  OBVIOUS
<1> DEFINE Bad == {T \in SUBSET (1..n) : \E k \in 0..n : T = 1..k /\ k \notin Good}
<1>1. Bad # {} /\ Bad \in SUBSET SUBSET (1..n)
  <2>1. 1..n \in Bad
    OBVIOUS
  <2> QED
    BY <2>1
<1>2. PICK T \in Bad : \A U \in SUBSET T : U # T => U \notin Bad
  <2>1. IsFiniteSet(1..n)
    BY FS_Interval
  <2> HIDE DEF Bad
  <2> QED
    BY <1>1, <2>1, MinimalSubset
<1>3. PICK k \in 0..n : T = 1..k /\ k \notin Good
  OBVIOUS
<1>4. k # 0 /\ k - 1 \in 0..(n - 1) /\ (k - 1) + 1 = k
  BY <1>3
<1>5. k - 1 \notin Good
  BY <1>3, <1>4
<1>6. 1..(k - 1) \in SUBSET T /\ 1..(k - 1) # T
  <2>1. k \in 1..k /\ k \notin 1..(k - 1)
    BY <1>4
  <2> QED
    BY <1>3, <1>4, <2>1
<1>7. 1..(k - 1) \in Bad
  BY <1>4, <1>5
<1> QED
  BY <1>2, <1>6, <1>7

(* A sum up to k is one up to k - 1 and the last. *)
LEMMA SumUpTo ==
  ASSUME NEW F, NEW n \in Nat, \A i \in 1..n : F[i] \in Int
  PROVE  /\ SumFunctionOnSet(F, 1..0) = 0
         /\ \A k \in 0..(n - 1) :
               SumFunctionOnSet(F, 1..(k + 1)) = SumFunctionOnSet(F, 1..k) + F[k + 1]
         /\ \A k \in 0..n : SumFunctionOnSet(F, 1..k) \in Int
<1>1. 1..0 = {}
  OBVIOUS
<1>2. \A k \in 0..n : SumFunctionOnSet(F, 1..k) \in Int
  <2> SUFFICES ASSUME NEW k \in 0..n PROVE SumFunctionOnSet(F, 1..k) \in Int
    OBVIOUS
  <2>1. IsFiniteSet(1..k) /\ \A i \in 1..k : F[i] \in Int
    BY FS_Interval
  <2> QED
    BY <2>1, SumInt
<1>3. ASSUME NEW k \in 0..(n - 1)
      PROVE  SumFunctionOnSet(F, 1..(k + 1)) = SumFunctionOnSet(F, 1..k) + F[k + 1]
  <2>1. IsFiniteSet(1..k) /\ \A i \in 1..k : F[i] \in Int
    BY FS_Interval
  <2>2. k + 1 \notin 1..k /\ 1..(k + 1) = 1..k \cup {k + 1} /\ F[k + 1] \in Int
    OBVIOUS
  <2>3. SumFunctionOnSet(F, 1..k \cup {k + 1}) = F[k + 1] + SumFunctionOnSet(F, 1..k)
    BY <2>1, <2>2, SumAdd
  <2>4. SumFunctionOnSet(F, 1..k) \in Int
    BY <1>2
  <2> DEFINE sum == SumFunctionOnSet(F, 1..k)
             last == F[k + 1]
             all == SumFunctionOnSet(F, 1..(k + 1))
  <2>5. all = last + sum
    BY <2>2, <2>3, Zenon
  <2>6. sum \in Int /\ last \in Int
    BY <2>2, <2>4
  <2> HIDE DEF sum, last, all
  <2>7. all = sum + last
    BY <2>5, <2>6
  <2> QED
    BY <2>7 DEF sum, last, all
<1> QED
  BY <1>1, <1>2, <1>3, SumEmpty

(* What a sequence of rows that is not empty is. *)
LEMMA RowsFacts ==
  ASSUME NEW rs, Rows(rs)
  PROVE  /\ Len(rs) \in Nat /\ Len(rs) > 0 /\ DOMAIN rs = 1..Len(rs)
         /\ 1 \in DOMAIN rs /\ Head(rs) = rs[1]
         /\ rs = [i \in 1..Len(rs) |-> rs[i]]
         /\ IsFiniteSet(DOMAIN rs)
<1>1. rs \in Seq(Range(rs)) /\ rs # <<>>
  BY DEF Rows
<1>2. /\ Len(rs) \in Nat /\ DOMAIN rs = 1..Len(rs)
      /\ rs = [i \in 1..Len(rs) |-> rs[i]]
  BY <1>1, LenProperties
<1>3. Len(rs) > 0
  BY <1>1, <1>2, EmptySeq
<1>4. Head(rs) = rs[1]
  BY <1>1, HeadTailProperties
<1>5. IsFiniteSet(1..Len(rs))
  BY <1>2, FS_Interval
<1> QED
  BY <1>2, <1>3, <1>4, <1>5

(* A function of 1 to n is one. *)
LEMMA RowsMade ==
  ASSUME NEW n \in Nat, n > 0, NEW f, f = [i \in 1..n |-> f[i]]
  PROVE  Rows(f) /\ DOMAIN f = 1..n
<1>1. DOMAIN f = 1..n
  OBVIOUS
<1>2. \A i \in 1..n : f[i] \in Range(f)
  BY <1>1 DEF Range
<1>3. f \in Seq(Range(f))
  BY <1>2, IsASeq
<1>4. f # <<>>
  <2>1. 1 \in DOMAIN f /\ DOMAIN <<>> = {}
    BY <1>1
  <2> QED
    BY <2>1
<1> QED
  BY <1>1, <1>3, <1>4 DEF Rows

-----------------------------------------------------------------------------
(* What charging a fee does to the recipes of a payout.                    *)

RowsAmount(rs) == SumFunctionOnSet([i \in DOMAIN rs |-> rs[i].amount], DOMAIN rs)
RowsTxFee(rs)  == SumFunctionOnSet([i \in DOMAIN rs |-> rs[i].txFee], DOMAIN rs)

(* The amount and the fee of a payout are those of its rows. *)
LEMMA SumsOfRows == \A a : GetAmount(a) = RowsAmount(a.recipes) /\ GetTxFee(a) = RowsTxFee(a.recipes)
  BY Zenon DEF GetAmount, GetTxFee, RowsAmount, RowsTxFee, Total

(* Each recipe gives what is still to take, no more than it has: together  *)
(* they give the whole of it, or all they have.                            *)
LEMMA TakenSum ==
  ASSUME NEW n \in Nat, NEW F, \A i \in 1..n : F[i] \in Nat, NEW amount \in Nat, NEW T,
         \A i \in 1..n :
            T[i] = Smaller(F[i], Larger(0, amount - SumFunctionOnSet(F, 1..(i - 1))))
  PROVE  /\ \A i \in 1..n : T[i] \in Nat /\ T[i] <= F[i]
         /\ SumFunctionOnSet(T, 1..n) = Smaller(SumFunctionOnSet(F, 1..n), amount)
<1>1. \A i \in 1..n : F[i] \in Int
  OBVIOUS
<1>2. /\ SumFunctionOnSet(F, 1..0) = 0
      /\ \A k \in 0..(n - 1) :
            SumFunctionOnSet(F, 1..(k + 1)) = SumFunctionOnSet(F, 1..k) + F[k + 1]
      /\ \A k \in 0..n : SumFunctionOnSet(F, 1..k) \in Int
  BY <1>1, SumUpTo
<1>3. \A i \in 1..n : T[i] \in Nat /\ T[i] <= F[i]
  <2> SUFFICES ASSUME NEW i \in 1..n PROVE T[i] \in Nat /\ T[i] <= F[i]
    OBVIOUS
  <2> DEFINE before == SumFunctionOnSet(F, 1..(i - 1))
  <2>1. i - 1 \in 0..n
    OBVIOUS
  <2>2. before \in Int /\ F[i] \in Nat /\ T[i] = Smaller(F[i], Larger(0, amount - before))
    BY <1>2, <2>1
  <2> HIDE DEF before
  <2> QED
    BY <2>2 DEF Smaller, Larger
<1>4. \A i \in 1..n : T[i] \in Int
  BY <1>3
<1>5. /\ SumFunctionOnSet(T, 1..0) = 0
      /\ \A k \in 0..(n - 1) :
            SumFunctionOnSet(T, 1..(k + 1)) = SumFunctionOnSet(T, 1..k) + T[k + 1]
      /\ \A k \in 0..n : SumFunctionOnSet(T, 1..k) \in Int
  BY <1>4, SumUpTo
<1> DEFINE Good == {k \in 0..n :
                       SumFunctionOnSet(T, 1..k) = Smaller(SumFunctionOnSet(F, 1..k), amount)}
<1>6. 0 \in Good
  BY <1>2, <1>5 DEF Smaller
<1>7. ASSUME NEW k \in 0..(n - 1), k \in Good PROVE k + 1 \in Good
  <2> DEFINE f == SumFunctionOnSet(F, 1..k)
             g == SumFunctionOnSet(F, 1..(k + 1))
             t == SumFunctionOnSet(T, 1..k)
             u == SumFunctionOnSet(T, 1..(k + 1))
             x == F[k + 1]
             y == T[k + 1]
  <2>1. k \in 0..n /\ k + 1 \in 1..n /\ (k + 1) - 1 = k /\ k + 1 \in 0..n
    OBVIOUS
  <2>2. f \in Int /\ g = f + x /\ u = t + y /\ t = Smaller(f, amount)
    BY <1>2, <1>5, <1>7, <2>1
  <2>3. x \in Nat /\ y = Smaller(x, Larger(0, amount - f))
    BY <2>1
  <2> HIDE DEF f, g, t, u, x, y, Good
  <2>4. u = Smaller(g, amount)
    BY <2>2, <2>3 DEF Smaller, Larger
  <2> QED
    BY <2>1, <2>4 DEF u, g, Good
<1>8. n \in Good
  <2> HIDE DEF Good
  <2> QED
    BY <1>6, <1>7, CountUp
<1> QED
  BY <1>3, <1>8

\* The recipes of b are those of a after a fee: what they send is no more.
SameRows(a, b) ==
    /\ Rows(b) /\ DOMAIN b = DOMAIN a
    /\ \A i \in DOMAIN a :
          /\ PaidRecipe(b[i]) /\ PayoutOf(b[i]) = PayoutOf(a[i])
          /\ b[i].amount <= a[i].amount

ChargedRows(rs, amount) ==
    [i \in DOMAIN rs |-> [rs[i] EXCEPT !.amount = @ - ChargedTo(rs, amount)[i],
                                       !.txFee = @ + ChargedTo(rs, amount)[i]]]

(* Charging an amount takes it from the rows, or all they have. *)
LEMMA ChargeRows ==
  ASSUME NEW rs, Rows(rs), \A i \in DOMAIN rs : PaidRecipe(rs[i]), NEW amount \in Nat
  PROVE  /\ SameRows(rs, ChargedRows(rs, amount))
         /\ RowsAmount(rs) \in Nat /\ RowsTxFee(rs) \in Nat
         /\ RowsAmount(ChargedRows(rs, amount))
                = RowsAmount(rs) - Smaller(RowsAmount(rs), amount)
         /\ RowsTxFee(ChargedRows(rs, amount))
                = RowsTxFee(rs) + Smaller(RowsAmount(rs), amount)
<1> DEFINE n == Len(rs)
           F == [i \in 1..n |-> rs[i].amount]
           X == [i \in 1..n |-> rs[i].txFee]
           T == ChargedTo(rs, amount)
           bs == ChargedRows(rs, amount)
           G == [i \in 1..n |-> bs[i].amount]
           Y == [i \in 1..n |-> bs[i].txFee]
<1>1. n \in Nat /\ n > 0 /\ DOMAIN rs = 1..n /\ IsFiniteSet(1..n)
  BY RowsFacts
<1>2. \A i \in 1..n : F[i] \in Nat /\ X[i] \in Nat /\ F[i] = rs[i].amount /\ X[i] = rs[i].txFee
  BY <1>1 DEF PaidRecipe
<1>3. \A i \in 1..n : T[i] = Smaller(F[i], Larger(0, amount - SumFunctionOnSet(F, 1..(i - 1))))
  <2> SUFFICES ASSUME NEW i \in 1..n
               PROVE  T[i] = Smaller(F[i], Larger(0, amount - SumFunctionOnSet(F, 1..(i - 1))))
    OBVIOUS
  <2> DEFINE P == [j \in 1..(i - 1) |-> rs[j].amount]
  <2>1. T[i] = Smaller(rs[i].amount, Larger(0, amount - SumFunctionOnSet(P, 1..(i - 1))))
    BY <1>1 DEF ChargedTo, Total
  <2>2. IsFiniteSet(1..(i - 1)) /\ \A j \in 1..(i - 1) : P[j] \in Int /\ P[j] = F[j]
    <3>1. i - 1 \in Int /\ 1 \in Int /\ \A j \in 1..(i - 1) : j \in 1..n
      BY <1>1
    <3>2. IsFiniteSet(1..(i - 1))
      BY <3>1, FS_Interval, Zenon
    <3>3. \A j \in 1..(i - 1) : P[j] = rs[j].amount
      OBVIOUS
    <3> QED
      BY <1>2, <3>1, <3>2, <3>3
  <2> HIDE DEF P
  <2>3. SumFunctionOnSet(P, 1..(i - 1)) = SumFunctionOnSet(F, 1..(i - 1))
    BY <2>2, SumEqual
  <2> QED
    BY <1>2, <2>1, <2>3
<1>4. RowsAmount(rs) = SumFunctionOnSet(F, 1..n) /\ RowsTxFee(rs) = SumFunctionOnSet(X, 1..n)
  BY <1>1 DEF RowsAmount, RowsTxFee
<1>5. bs = [i \in 1..n |-> [rs[i] EXCEPT !.amount = @ - T[i], !.txFee = @ + T[i]]]
  BY <1>1 DEF ChargedRows
<1>6. DOMAIN bs = 1..n /\ Rows(bs)
  <2>1. bs = [i \in 1..n |-> bs[i]]
    BY <1>5
  <2> HIDE DEF bs
  <2> QED
    BY <1>1, <2>1, RowsMade
<1>7. RowsAmount(bs) = SumFunctionOnSet(G, 1..n) /\ RowsTxFee(bs) = SumFunctionOnSet(Y, 1..n)
  BY <1>6 DEF RowsAmount, RowsTxFee
<1> HIDE DEF n, F, X, T
<1>8. /\ \A i \in 1..n : T[i] \in Nat /\ T[i] <= F[i]
      /\ SumFunctionOnSet(T, 1..n) = Smaller(SumFunctionOnSet(F, 1..n), amount)
  BY <1>1, <1>2, <1>3, TakenSum
<1>9. \A i \in 1..n :
         /\ PaidRecipe(bs[i]) /\ PayoutOf(bs[i]) = PayoutOf(rs[i])
         /\ bs[i].amount = F[i] - T[i] /\ bs[i].txFee = X[i] + T[i]
  <2> SUFFICES ASSUME NEW i \in 1..n
               PROVE  /\ PaidRecipe(bs[i]) /\ PayoutOf(bs[i]) = PayoutOf(rs[i])
                      /\ bs[i].amount = F[i] - T[i] /\ bs[i].txFee = X[i] + T[i]
    OBVIOUS
  <2> DEFINE r == rs[i]
             b == bs[i]
  <2>1. PaidRecipe(r)
    BY <1>1
  <2>2. b = [r EXCEPT !.amount = @ - T[i], !.txFee = @ + T[i]]
    BY <1>5
  <2>3. r.amount = F[i] /\ r.txFee = X[i] /\ F[i] \in Nat /\ X[i] \in Nat
        /\ T[i] \in Nat /\ T[i] <= F[i]
    BY <1>2, <1>8
  <2> HIDE DEF r, b, bs
  <2>4. /\ DOMAIN b = DOMAIN r /\ b.amount = r.amount - T[i] /\ b.txFee = r.txFee + T[i]
        /\ b.kind = r.kind /\ b.fee = r.fee /\ b.tx = r.tx /\ b.token = r.token
        /\ b.delegator = r.delegator /\ b.recipient = r.recipient /\ b.cycle = r.cycle
    BY <2>1, <2>2 DEF PaidRecipe, RecipeFields
  <2>5. PayoutOf(b) = PayoutOf(r)
    BY <2>4, Zenon DEF PayoutOf, GetIdentifier
  <2>6. b.amount = F[i] - T[i] /\ b.txFee = X[i] + T[i] /\ b.amount \in Nat /\ b.txFee \in Nat
    BY <2>3, <2>4
  <2>7. PaidRecipe(b)
    BY <2>1, <2>4, <2>6, Zenon DEF PaidRecipe
  <2> QED
    BY <2>5, <2>6, <2>7 DEF r, b
<1>10. \A i \in 1..n : bs[i].amount <= rs[i].amount
  <2>1. \A i \in 1..n : bs[i].amount = F[i] - T[i] /\ T[i] \in Nat /\ F[i] = rs[i].amount /\ F[i] \in Nat
    BY <1>2, <1>8, <1>9
  <2> QED
    BY <2>1
<1>11. SameRows(rs, bs)
  BY <1>1, <1>6, <1>9, <1>10 DEF SameRows
<1>12. /\ SumFunctionOnSet(F, 1..n) = SumFunctionOnSet(G, 1..n) + SumFunctionOnSet(T, 1..n)
       /\ SumFunctionOnSet(Y, 1..n) = SumFunctionOnSet(X, 1..n) + SumFunctionOnSet(T, 1..n)
  <2>1. \A i \in 1..n : G[i] \in Int /\ T[i] \in Int /\ F[i] = G[i] + T[i]
    <3>1. \A i \in 1..n : G[i] = F[i] - T[i]
      BY <1>9
    <3> HIDE DEF G
    <3> QED
      BY <1>2, <1>8, <3>1
  <2>2. \A i \in 1..n : X[i] \in Int /\ T[i] \in Int /\ Y[i] = X[i] + T[i]
    <3>1. \A i \in 1..n : Y[i] = X[i] + T[i]
      BY <1>9
    <3> HIDE DEF Y
    <3> QED
      BY <1>2, <1>8, <3>1
  <2> HIDE DEF G, Y
  <2>3. SumFunctionOnSet(F, 1..n) = SumFunctionOnSet(G, 1..n) + SumFunctionOnSet(T, 1..n)
    BY <1>1, <2>1, SumPlus
  <2>4. SumFunctionOnSet(Y, 1..n) = SumFunctionOnSet(X, 1..n) + SumFunctionOnSet(T, 1..n)
    BY <1>1, <2>2, SumPlus
  <2> QED
    BY <2>3, <2>4
<1>13. SumFunctionOnSet(F, 1..n) \in Nat /\ SumFunctionOnSet(X, 1..n) \in Nat
       /\ SumFunctionOnSet(T, 1..n) \in Nat /\ SumFunctionOnSet(G, 1..n) \in Int
  <2>1. \A i \in 1..n : G[i] \in Int
    <3>1. \A i \in 1..n : G[i] = F[i] - T[i]
      BY <1>9
    <3> HIDE DEF G
    <3> QED
      BY <1>2, <1>8, <3>1
  <2> HIDE DEF G
  <2> QED
    BY <1>1, <1>2, <1>8, <2>1, SumNat, SumInt
<1> DEFINE f == SumFunctionOnSet(F, 1..n)
           g == SumFunctionOnSet(G, 1..n)
           t == SumFunctionOnSet(T, 1..n)
           x == SumFunctionOnSet(X, 1..n)
           y == SumFunctionOnSet(Y, 1..n)
<1>14. f \in Nat /\ x \in Nat /\ g \in Int /\ t = Smaller(f, amount) /\ f = g + t /\ y = x + t
       /\ t \in Nat
  BY <1>8, <1>12, <1>13
<1>15. /\ RowsAmount(rs) = f /\ RowsAmount(bs) = g /\ RowsTxFee(rs) = x /\ RowsTxFee(bs) = y
  BY <1>4, <1>7
<1> HIDE DEF f, g, t, x, y
<1>16. g = f - t
  BY <1>14
<1> QED
  BY <1>11, <1>14, <1>15, <1>16 DEF bs

BakerRows(rs, amount) == [rs EXCEPT ![1].txFee = @ + amount]

(* A fee the baker pays is written on the first recipe. *)
LEMMA BakerPays ==
  ASSUME NEW rs, Rows(rs), \A i \in DOMAIN rs : PaidRecipe(rs[i]), NEW amount \in Nat
  PROVE  /\ SameRows(rs, BakerRows(rs, amount))
         /\ RowsAmount(BakerRows(rs, amount)) = RowsAmount(rs)
         /\ RowsTxFee(BakerRows(rs, amount)) = RowsTxFee(rs) + amount
<1> DEFINE n == Len(rs)
           bs == BakerRows(rs, amount)
           F == [i \in 1..n |-> rs[i].amount]
           X == [i \in 1..n |-> rs[i].txFee]
           G == [i \in 1..n |-> bs[i].amount]
           Y == [i \in 1..n |-> bs[i].txFee]
           D == [i \in 1..n |-> IF i = 1 THEN amount ELSE 0]
<1>1. n \in Nat /\ n > 0 /\ DOMAIN rs = 1..n /\ IsFiniteSet(1..n) /\ 1 \in 1..n
      /\ rs = [i \in 1..n |-> rs[i]]
  BY RowsFacts
<1>2. \A i \in 1..n : F[i] \in Nat /\ X[i] \in Nat /\ F[i] = rs[i].amount /\ X[i] = rs[i].txFee
  BY <1>1 DEF PaidRecipe
<1>3. /\ DOMAIN bs = 1..n /\ bs = [i \in 1..n |-> bs[i]]
      /\ bs[1] = [rs[1] EXCEPT !.txFee = @ + amount]
      /\ \A i \in 1..n : i # 1 => bs[i] = rs[i]
  BY <1>1 DEF BakerRows
<1> HIDE DEF n, bs
<1>4. Rows(bs)
  BY <1>1, <1>3, RowsMade
<1>5. ASSUME NEW i \in 1..n
      PROVE  /\ PaidRecipe(bs[i]) /\ PayoutOf(bs[i]) = PayoutOf(rs[i])
             /\ bs[i].amount = rs[i].amount
             /\ bs[i].txFee = rs[i].txFee + D[i]
  <2>0. PaidRecipe(rs[i])
    BY <1>1
  <2>1. CASE i # 1
    <3>1. D[i] = 0 /\ bs[i] = rs[i]
      BY <1>3, <2>1
    <3>2. rs[i].txFee \in Nat
      BY <2>0 DEF PaidRecipe
    <3> QED
      BY <2>0, <3>1, <3>2
  <2>2. CASE i = 1
    <3> DEFINE r == rs[1]
               b == bs[1]
    <3>1. PaidRecipe(r) /\ b = [r EXCEPT !.txFee = @ + amount]
      BY <1>3, <2>0, <2>2
    <3> HIDE DEF r, b
    <3>2. /\ DOMAIN b = DOMAIN r /\ b.amount = r.amount /\ b.txFee = r.txFee + amount
          /\ b.kind = r.kind /\ b.fee = r.fee /\ b.tx = r.tx /\ b.token = r.token
          /\ b.delegator = r.delegator /\ b.recipient = r.recipient /\ b.cycle = r.cycle
      BY <3>1 DEF PaidRecipe, RecipeFields
    <3>3. PayoutOf(b) = PayoutOf(r)
      BY <3>2, Zenon DEF PayoutOf, GetIdentifier
    <3>4. b.txFee \in Nat
      BY <3>1, <3>2 DEF PaidRecipe
    <3>5. PaidRecipe(b)
      BY <3>1, <3>2, <3>4, Zenon DEF PaidRecipe
    <3>6. D[i] = amount
      BY <2>2
    <3> QED
      BY <2>2, <3>2, <3>3, <3>5, <3>6 DEF r, b
  <2> QED
    BY <2>1, <2>2
<1>6. \A i \in 1..n : bs[i].amount <= rs[i].amount
  BY <1>1, <1>2, <1>5
<1>7. SameRows(rs, bs)
  BY <1>1, <1>3, <1>4, <1>5, <1>6 DEF SameRows
<1>8. /\ RowsAmount(rs) = SumFunctionOnSet(F, 1..n) /\ RowsTxFee(rs) = SumFunctionOnSet(X, 1..n)
      /\ RowsAmount(bs) = SumFunctionOnSet(G, 1..n) /\ RowsTxFee(bs) = SumFunctionOnSet(Y, 1..n)
  BY <1>1, <1>3 DEF RowsAmount, RowsTxFee
<1>9. SumFunctionOnSet(G, 1..n) = SumFunctionOnSet(F, 1..n)
  <2>1. \A i \in 1..n : F[i] \in Int /\ F[i] = G[i]
    BY <1>2, <1>5
  <2> HIDE DEF F, G
  <2> QED
    BY <1>1, <2>1, SumEqual
<1>10. SumFunctionOnSet(Y, 1..n) = SumFunctionOnSet(X, 1..n) + SumFunctionOnSet(D, 1..n)
  <2>1. \A i \in 1..n : X[i] \in Int /\ D[i] \in Int /\ Y[i] = X[i] + D[i]
    BY <1>2, <1>5
  <2> HIDE DEF X, Y, D
  <2> QED
    BY <1>1, <2>1, SumPlus
<1>11. SumFunctionOnSet(D, 1..n) = amount
  <2>1. {1} \in SUBSET (1..n) /\ \A i \in 1..n : D[i] \in Int
    BY <1>1
  <2>2. \A i \in (1..n) \ {1} : D[i] = 0
    OBVIOUS
  <2>3. D[1] = amount /\ {1} = {} \cup {1} /\ 1 \notin {}
    BY <1>1
  <2> HIDE DEF D
  <2>4. SumFunctionOnSet(D, 1..n) = SumFunctionOnSet(D, {1})
    BY <1>1, <2>1, <2>2, SumRest
  <2>5. SumFunctionOnSet(D, {} \cup {1}) = D[1] + SumFunctionOnSet(D, {})
    <3>1. IsFiniteSet({}) /\ \A i \in {} : D[i] \in Int
      BY FS_EmptySet
    <3>2. D[1] \in Int
      BY <1>1, <2>1
    <3> QED
      BY <2>3, <3>1, <3>2, SumAdd
  <2> QED
    BY <2>3, <2>4, <2>5, SumEmpty
<1> QED
  BY <1>7, <1>8, <1>9, <1>10, <1>11 DEF bs

\* The payout b is a after a fee.
Follows(a, b) ==
    /\ DOMAIN b = PayoutFields
    /\ b.kind = a.kind /\ b.tx = a.tx /\ b.token = a.token
    /\ b.delegator = a.delegator /\ b.recipient = a.recipient /\ b.cycle = a.cycle
    /\ b.valid = a.valid /\ b.note = a.note
    /\ SameRows(a.recipes, b.recipes)

RecipesPaid(a) ==
    DOMAIN a = PayoutFields /\ Rows(a.recipes)
    /\ \A i \in DOMAIN a.recipes : PaidRecipe(a.recipes[i])

TakenOf(a, amount, charge) == IF charge THEN Smaller(GetAmount(a), amount) ELSE 0
PaidOf(a, amount, charge)  == IF charge THEN Smaller(GetAmount(a), amount) ELSE amount

(* What AddTxFee does to the amount and the fee of a payout. *)
LEMMA FeeAdded ==
  ASSUME NEW a, RecipesPaid(a), NEW amount \in Nat, NEW charge
  PROVE  LET b == AddTxFee(a, amount, charge)
         IN  /\ Follows(a, b) /\ RecipesPaid(b) /\ b.limits = a.limits
             /\ GetAmount(a) \in Nat /\ GetTxFee(a) \in Nat
             /\ GetAmount(b) \in Nat
             /\ GetAmount(b) = GetAmount(a) - TakenOf(a, amount, charge)
             /\ GetTxFee(b) = GetTxFee(a) + PaidOf(a, amount, charge)
<1> DEFINE b == AddTxFee(a, amount, charge)
           rs == a.recipes
           bs == IF charge THEN ChargedRows(rs, amount) ELSE BakerRows(rs, amount)
<1>1. b = [a EXCEPT !.recipes = bs]
  <2>1. CASE charge
    BY <2>1, Zenon DEF AddTxFee, ChargedRows
  <2>2. CASE ~charge
    BY <2>2 DEF AddTxFee, BakerRows, RecipesPaid, PayoutFields
  <2> QED
    BY <2>1, <2>2
<1>2. Rows(rs) /\ \A i \in DOMAIN rs : PaidRecipe(rs[i])
  BY DEF RecipesPaid
<1>3. /\ SameRows(rs, bs) /\ RowsAmount(rs) \in Nat /\ RowsTxFee(rs) \in Nat
      /\ RowsAmount(bs) = RowsAmount(rs) - (IF charge THEN Smaller(RowsAmount(rs), amount) ELSE 0)
      /\ RowsTxFee(bs)
            = RowsTxFee(rs) + (IF charge THEN Smaller(RowsAmount(rs), amount) ELSE amount)
  <2>1. /\ SameRows(rs, ChargedRows(rs, amount))
        /\ RowsAmount(rs) \in Nat /\ RowsTxFee(rs) \in Nat
        /\ RowsAmount(ChargedRows(rs, amount))
               = RowsAmount(rs) - Smaller(RowsAmount(rs), amount)
        /\ RowsTxFee(ChargedRows(rs, amount))
               = RowsTxFee(rs) + Smaller(RowsAmount(rs), amount)
    BY <1>2, ChargeRows
  <2>2. /\ SameRows(rs, BakerRows(rs, amount))
        /\ RowsAmount(BakerRows(rs, amount)) = RowsAmount(rs)
        /\ RowsTxFee(BakerRows(rs, amount)) = RowsTxFee(rs) + amount
    BY <1>2, BakerPays
  <2> QED
    BY <2>1, <2>2
<1> HIDE DEF b, bs
<1>4. /\ DOMAIN b = PayoutFields /\ b.recipes = bs /\ b.limits = a.limits
      /\ b.kind = a.kind /\ b.tx = a.tx /\ b.token = a.token
      /\ b.delegator = a.delegator /\ b.recipient = a.recipient /\ b.cycle = a.cycle
      /\ b.valid = a.valid /\ b.note = a.note
  BY <1>1 DEF RecipesPaid, PayoutFields
<1>5. Follows(a, b)
  BY <1>3, <1>4, Zenon DEF Follows
<1>6. RecipesPaid(b)
  BY <1>3, <1>4 DEF RecipesPaid, SameRows
<1>7. /\ GetAmount(a) = RowsAmount(rs) /\ GetTxFee(a) = RowsTxFee(rs)
      /\ GetAmount(b) = RowsAmount(bs) /\ GetTxFee(b) = RowsTxFee(bs)
  BY <1>4, SumsOfRows
<1>8. GetAmount(b) \in Nat
  BY <1>3, <1>7 DEF Smaller
<1> QED
  BY <1>3, <1>4, <1>5, <1>6, <1>7, <1>8 DEF b, TakenOf, PaidOf

(* Of fees on fees. *)
LEMMA SameRowsAgain ==
  ASSUME NEW a, NEW b, NEW c, SameRows(a, b), SameRows(b, c),
         \A i \in DOMAIN a : a[i].amount \in Nat
  PROVE  SameRows(a, c)
<1>1. \A i \in DOMAIN a : a[i].amount \in Nat /\ b[i].amount \in Nat /\ c[i].amount \in Nat
  BY DEF SameRows, PaidRecipe
<1>2. \A i \in DOMAIN a : b[i].amount <= a[i].amount /\ c[i].amount <= b[i].amount
  BY DEF SameRows
<1>3. \A i \in DOMAIN a : c[i].amount <= a[i].amount
  BY <1>1, <1>2
<1>4. Rows(c) /\ DOMAIN c = DOMAIN a
  BY DEF SameRows
<1>5. \A i \in DOMAIN a : PaidRecipe(c[i]) /\ PayoutOf(c[i]) = PayoutOf(a[i])
  BY DEF SameRows
<1> QED
  BY <1>3, <1>4, <1>5, Zenon DEF SameRows

(* A payout charged twice. *)
LEMMA FollowsAgain ==
  ASSUME NEW a, NEW b, NEW c, Follows(a, b), Follows(b, c),
         \A i \in DOMAIN a.recipes : PaidRecipe(a.recipes[i])
  PROVE  Follows(a, c)
<1>1. SameRows(a.recipes, b.recipes) /\ SameRows(b.recipes, c.recipes)
  BY DEF Follows
<1>2. \A i \in DOMAIN a.recipes : a.recipes[i].amount \in Nat
  BY DEF PaidRecipe
<1>3. SameRows(a.recipes, c.recipes)
  BY <1>1, <1>2, SameRowsAgain
<1> QED
  BY <1>3 DEF Follows

(* A payout of a cycle is a destination and the cycle. *)
LEMMA SameDestination ==
  ASSUME NEW r, NEW q
  PROVE  PayoutOf(r) = PayoutOf(q)
            <=> GetIdentifier(r) = GetIdentifier(q) /\ r.cycle = q.cycle
  BY DEF PayoutOf

(* The payouts that an accumulated payout stands for. *)
LEMMA KeysAre ==
  ASSUME NEW a
  PROVE  KeysOf(a) = {PayoutOf(a.recipes[i]) : i \in DOMAIN a.recipes}
  BY DEF KeysOf, PayoutsOf, Range

(* A payout after a fee is one of the same destination and cycles. *)
LEMMA FollowsOK ==
  ASSUME NEW a, NEW b, PayoutOK(a), Follows(a, b), LimitsOK(b.limits)
  PROVE  PayoutOK(b) /\ KeysOf(b) = KeysOf(a)
<1>1. SameRows(a.recipes, b.recipes) /\ DOMAIN b = PayoutFields
  BY DEF Follows
<1>2. DOMAIN b.recipes = DOMAIN a.recipes /\ Rows(b.recipes)
  BY <1>1 DEF SameRows
<1>3. GetIdentifier(b) = GetIdentifier(a)
  BY Zenon DEF Follows, GetIdentifier
<1>4. \A i \in DOMAIN a.recipes :
         /\ PaidRecipe(b.recipes[i])
         /\ GetIdentifier(b.recipes[i]) = GetIdentifier(a.recipes[i])
         /\ b.recipes[i].cycle = a.recipes[i].cycle
         /\ PayoutOf(b.recipes[i]) = PayoutOf(a.recipes[i])
  BY <1>1, SameDestination DEF SameRows
<1>5. /\ \A i \in DOMAIN a.recipes : GetIdentifier(a.recipes[i]) = GetIdentifier(a)
      /\ \A i, j \in DOMAIN a.recipes : a.recipes[i].cycle = a.recipes[j].cycle => i = j
  BY DEF PayoutOK
<1>6. PayoutOK(b)
  BY <1>1, <1>2, <1>3, <1>4, <1>5, Zenon DEF PayoutOK
<1>7. KeysOf(b) = KeysOf(a)
  BY <1>2, <1>4, KeysAre
<1> QED
  BY <1>6, <1>7

\* What of the fees of its transfer a payout pays itself.
OwnFees(a, limits) ==
    LET subject == a.tx = "tez" /\ a.kind = "delegator reward"
    IN  (IF subject /\ ~IsBakerPaying(a, "payTxFee")
         THEN GetOperationFeesWithoutAllocation(limits) ELSE 0)
        + (IF subject /\ ~IsBakerPaying(a, "payAllocationFee")
           THEN GetAllocationFee(limits) ELSE 0)

(* Charged with both fees, a payout with something left has paid what it   *)
(* is to pay.                                                              *)
LEMMA ChargeEffect ==
  ASSUME NEW a, PayoutOK(a), GetTxFee(a) = 0, NEW limits, LimitsOK(limits)
  PROVE  LET b == Charge(a, limits)
         IN  /\ Follows(a, b) /\ RecipesPaid(b) /\ b.limits = limits
             /\ GetAmount(a) \in Nat /\ GetAmount(b) \in Nat /\ GetAmount(b) <= GetAmount(a)
             /\ GetAmount(b) # 0 =>
                   /\ GetTxFee(b) = GetOperationTotalFees(limits)
                   /\ GetAmount(a) = GetAmount(b) + OwnFees(a, limits)
<1> DEFINE subject == a.tx = "tez" /\ a.kind = "delegator reward"
           tx == subject /\ ~IsBakerPaying(a, "payTxFee")
           al == subject /\ ~IsBakerPaying(a, "payAllocationFee")
           fees == GetOperationFeesWithoutAllocation(limits)
           alloc == GetAllocationFee(limits)
           a0 == [a EXCEPT !.limits = limits]
           a1 == AddTxFee(a0, fees, tx)
           b == AddTxFee(a1, alloc, al)
<1>1. b = Charge(a, limits)
  BY DEF Charge
<1>2. fees \in Nat /\ alloc \in Nat /\ GetOperationTotalFees(limits) = fees + alloc
  BY DEF LimitsOK, GetOperationFeesWithoutAllocation, GetAllocationFee, GetOperationTotalFees
<1>3. /\ DOMAIN a0 = PayoutFields /\ a0.recipes = a.recipes /\ a0.limits = limits
      /\ a0.kind = a.kind /\ a0.tx = a.tx /\ a0.token = a.token
      /\ a0.delegator = a.delegator /\ a0.recipient = a.recipient /\ a0.cycle = a.cycle
      /\ a0.valid = a.valid /\ a0.note = a.note
  BY DEF PayoutOK, PayoutFields
<1>4. RecipesPaid(a0) /\ RecipesPaid(a)
  BY <1>3 DEF PayoutOK, RecipesPaid
<1>5. GetAmount(a0) = GetAmount(a) /\ GetTxFee(a0) = GetTxFee(a)
  BY <1>3, SumsOfRows
<1> HIDE DEF fees, alloc, a0, tx, al
<1>6. /\ Follows(a0, a1) /\ RecipesPaid(a1) /\ a1.limits = a0.limits
      /\ GetAmount(a0) \in Nat /\ GetTxFee(a0) \in Nat
      /\ GetAmount(a1) \in Nat
      /\ GetAmount(a1) = GetAmount(a0) - TakenOf(a0, fees, tx)
      /\ GetTxFee(a1) = GetTxFee(a0) + PaidOf(a0, fees, tx)
  BY <1>2, <1>4, FeeAdded
<1> HIDE DEF a1
<1>7. /\ Follows(a1, b) /\ RecipesPaid(b) /\ b.limits = a1.limits
      /\ GetAmount(a1) \in Nat /\ GetTxFee(a1) \in Nat
      /\ GetAmount(b) \in Nat
      /\ GetAmount(b) = GetAmount(a1) - TakenOf(a1, alloc, al)
      /\ GetTxFee(b) = GetTxFee(a1) + PaidOf(a1, alloc, al)
  BY <1>2, <1>6, FeeAdded
<1> HIDE DEF b
<1>8. Follows(a, b)
  <2>1. Follows(a0, b)
    BY <1>4, <1>6, <1>7, FollowsAgain DEF RecipesPaid
  <2> QED
    BY <1>3, <2>1 DEF Follows
<1>9. OwnFees(a, limits) = (IF tx THEN fees ELSE 0) + (IF al THEN alloc ELSE 0)
  BY DEF OwnFees, tx, al, fees, alloc
<1> DEFINE A == GetAmount(a0)
           B == GetAmount(a1)
           C == GetAmount(b)
           X == GetTxFee(a0)
           Y == GetTxFee(a1)
           Z == GetTxFee(b)
<1>10. /\ A \in Nat /\ B \in Nat /\ C \in Nat /\ X \in Nat /\ Y \in Nat /\ X = 0
       /\ B = A - (IF tx THEN Smaller(A, fees) ELSE 0)
       /\ C = B - (IF al THEN Smaller(B, alloc) ELSE 0)
       /\ Y = X + (IF tx THEN Smaller(A, fees) ELSE fees)
       /\ Z = Y + (IF al THEN Smaller(B, alloc) ELSE alloc)
  BY <1>5, <1>6, <1>7 DEF TakenOf, PaidOf
<1>11. GetAmount(a) = A
  BY <1>5
<1> HIDE DEF A, B, C, X, Y, Z
<1>12. C <= A
  BY <1>2, <1>10 DEF Smaller
<1>13. C # 0 => /\ Z = fees + alloc
                /\ A = C + ((IF tx THEN fees ELSE 0) + (IF al THEN alloc ELSE 0))
  <2>1. CASE tx /\ al
    BY <1>2, <1>10, <2>1 DEF Smaller
  <2>2. CASE tx /\ ~al
    BY <1>2, <1>10, <2>2 DEF Smaller
  <2>3. CASE ~tx /\ al
    BY <1>2, <1>10, <2>3 DEF Smaller
  <2>4. CASE ~tx /\ ~al
    BY <1>2, <1>10, <2>4 DEF Smaller
  <2> QED
    BY <2>1, <2>2, <2>3, <2>4
<1>14. b.limits = limits
  BY <1>3, <1>6, <1>7
<1> QED
  BY <1>1, <1>2, <1>7, <1>8, <1>9, <1>10, <1>11, <1>12, <1>13, <1>14 DEF C, Z

-----------------------------------------------------------------------------
(* The recipes of the blueprints.                                          *)

(* The recipes of all cycles. *)
LEMMA RecipesOfBlueprints ==
  ASSUME BlueprintsInv
  PROVE  /\ IsFiniteSet(AllRecipes) /\ Unique(AllRecipes)
         /\ \A r \in AllRecipes : RecipeOK(r) /\ OfPeriod(r.cycle)
<1> DEFINE Sets == {b.payouts : b \in blueprints}
           h == [b \in blueprints |-> b.payouts]
<1>1. Sets = {h[b] : b \in blueprints}
  OBVIOUS
<1>2. IsFiniteSet({h[b] : b \in blueprints})
  BY FiniteImage DEF BlueprintsInv
<1>3. \A b \in blueprints :
         /\ IsFiniteSet(b.payouts) /\ Unique(b.payouts) /\ OfPeriod(b.cycle)
         /\ \A r \in b.payouts : RecipeOK(r) /\ r.cycle = b.cycle
  BY DEF BlueprintsInv, BlueprintOK, RecipesOK, Unique
<1>4. IsFiniteSet(AllRecipes)
  BY <1>1, <1>2, <1>3, FS_UNION DEF AllRecipes
<1>5. \A r \in AllRecipes : RecipeOK(r) /\ OfPeriod(r.cycle)
  BY <1>3 DEF AllRecipes
<1>6. ASSUME NEW r \in AllRecipes, NEW q \in AllRecipes, PayoutOf(r) = PayoutOf(q)
      PROVE  r = q
  <2>1. PICK b \in blueprints : r \in b.payouts
    BY DEF AllRecipes
  <2>2. PICK c \in blueprints : q \in c.payouts
    BY DEF AllRecipes
  <2>3. r.cycle = q.cycle
    BY <1>6, SamePayout
  <2>4. b.cycle = c.cycle
    BY <1>3, <2>1, <2>2, <2>3
  <2>5. b = c
    BY <2>4 DEF BlueprintsInv
  <2> QED
    BY <1>3, <1>6, <2>1, <2>2, <2>5 DEF Unique
<1> QED
  BY <1>4, <1>5, <1>6 DEF Unique

(* What was taken from a payout is what it lost. *)
LEMMA TakenIs ==
  ASSUME Unique(AllRecipes), NEW a, PayoutOK(a), Range(a.recipes) \subseteq AllRecipes,
         NEW b, Follows(a, b)
  PROVE  /\ TakenFrom(b) = GetAmount(a) - GetAmount(b)
         /\ \A i \in DOMAIN b.recipes : OfBlueprint(b.recipes[i])
<1> DEFINE n == Len(a.recipes)
           F == [i \in 1..n |-> a.recipes[i].amount]
           G == [i \in 1..n |-> b.recipes[i].amount]
           T == [i \in 1..n |-> Original(b.recipes[i]).amount - b.recipes[i].amount]
<1>1. n \in Nat /\ DOMAIN a.recipes = 1..n /\ IsFiniteSet(1..n)
  BY RowsFacts DEF PayoutOK
<1>2. SameRows(a.recipes, b.recipes)
  BY DEF Follows
<1>3. DOMAIN b.recipes = 1..n
  BY <1>1, <1>2 DEF SameRows
<1>4. \A i \in 1..n :
         /\ a.recipes[i] \in AllRecipes /\ PayoutOf(b.recipes[i]) = PayoutOf(a.recipes[i])
         /\ a.recipes[i].amount \in Nat /\ b.recipes[i].amount \in Nat
         /\ b.recipes[i].amount <= a.recipes[i].amount
  BY <1>1, <1>2 DEF SameRows, PayoutOK, PaidRecipe, Range
<1>5. \A i \in 1..n : Original(b.recipes[i]) = a.recipes[i]
  <2> SUFFICES ASSUME NEW i \in 1..n PROVE Original(b.recipes[i]) = a.recipes[i]
    OBVIOUS
  <2>1. \A q \in AllRecipes : PayoutOf(q) = PayoutOf(b.recipes[i]) => q = a.recipes[i]
    BY <1>4 DEF Unique
  <2> QED
    BY <1>4, <2>1 DEF Original
<1>6. TakenFrom(b) = SumFunctionOnSet(T, 1..n)
  BY <1>3, Zenon DEF TakenFrom, Total
<1>7. GetAmount(a) = SumFunctionOnSet(F, 1..n) /\ GetAmount(b) = SumFunctionOnSet(G, 1..n)
  BY <1>1, <1>3, SumsOfRows DEF RowsAmount
<1>8. \A i \in 1..n : G[i] \in Int /\ T[i] \in Int /\ F[i] = G[i] + T[i] /\ F[i] \in Int
  BY <1>4, <1>5
<1> HIDE DEF F, G, T, n
<1>9. SumFunctionOnSet(F, 1..n) = SumFunctionOnSet(G, 1..n) + SumFunctionOnSet(T, 1..n)
  BY <1>1, <1>8, SumPlus
<1>10. SumFunctionOnSet(G, 1..n) \in Int /\ SumFunctionOnSet(T, 1..n) \in Int
       /\ SumFunctionOnSet(F, 1..n) \in Int
  BY <1>1, <1>8, SumInt
<1> DEFINE f == SumFunctionOnSet(F, 1..n)
           g == SumFunctionOnSet(G, 1..n)
           t == SumFunctionOnSet(T, 1..n)
<1>11. f = g + t /\ g \in Int /\ t \in Int /\ f \in Int
  BY <1>9, <1>10
<1>12. TakenFrom(b) = t /\ GetAmount(a) = f /\ GetAmount(b) = g
  BY <1>6, <1>7
<1> HIDE DEF f, g, t
<1>13. TakenFrom(b) = GetAmount(a) - GetAmount(b)
  BY <1>11, <1>12
<1>14. \A i \in DOMAIN b.recipes : OfBlueprint(b.recipes[i])
  <2> SUFFICES ASSUME NEW i \in 1..n PROVE OfBlueprint(b.recipes[i])
    BY <1>3
  <2>1. a.recipes[i] \in AllRecipes /\ PayoutOf(a.recipes[i]) = PayoutOf(b.recipes[i])
        /\ b.recipes[i].amount <= a.recipes[i].amount
    BY <1>4
  <2> QED
    BY <2>1 DEF OfBlueprint
<1> QED
  BY <1>13, <1>14

-----------------------------------------------------------------------------
(* Estimates.                                                              *)

(* The limits an estimate makes of what the node tells. *)
LEMMA LimitsMade ==
  ASSUME NEW costs \in Costs, NEW a
  PROVE  LET limits == OpLimits(ClassOf(a), costs[ClassOf(a)])
         IN  LimitsOK(limits) /\ limits.bytes \in Nat
<1> DEFINE class == ClassOf(a)
           cost == costs[class]
           gas == cost.gas + GasBuffer(class)
           share == cost.bytes + DeserializationBuffer
           limits == OpLimits(class, cost)
<1>1. class \in {"fa", "contract", "plain"}
  BY DEF ClassOf
<1>2. cost \in [gas : Nat, storage : Nat, bytes : Nat, allocationBurn : Nat, storageBurn : Nat]
      /\ MetadataGas \in Nat
  <2>1. costs \in [{"fa", "contract", "plain"} ->
           [gas : Nat, storage : Nat, bytes : Nat, allocationBurn : Nat, storageBurn : Nat]]
    BY CostsAssumption
  <2> QED
    BY <1>1, <2>1, CostsAssumption
<1>3. GasBuffer(class) \in Nat
  BY DEF GasBuffer
<1> HIDE DEF class, cost
<1>4. /\ cost.gas \in Nat /\ cost.storage \in Nat /\ cost.bytes \in Nat
      /\ cost.allocationBurn \in Nat /\ cost.storageBurn \in Nat
  BY <1>2
<1>5. gas \in Nat /\ share \in Nat
  BY <1>3, <1>4 DEF DeserializationBuffer
<1> HIDE DEF gas, share
<1>6. CalculateStorageLimit(cost) \in Nat
  BY <1>4 DEF CalculateStorageLimit
<1>7. CalculateMinFee(cost, gas + share + MetadataGas) \in Nat
  <2> DEFINE all == gas + share + MetadataGas
  <2>1. all \in Nat
    BY <1>2, <1>5
  <2> HIDE DEF all
  <2>2. all \div 10 \in Nat
    BY <2>1, DivNat
  <2> QED
    BY <1>4, <2>2 DEF CalculateMinFee, all
<1>8. /\ limits.gas = gas /\ limits.storage = CalculateStorageLimit(cost)
      /\ limits.txFee = CalculateMinFee(cost, gas + share + MetadataGas)
      /\ limits.deserialization = share /\ limits.allocationBurn = cost.allocationBurn
      /\ limits.storageBurn = cost.storageBurn /\ limits.bytes = cost.bytes
  BY DEF OpLimits, gas, share
<1> HIDE DEF limits
<1>9. LimitsOK(limits)
  BY <1>4, <1>5, <1>6, <1>7, <1>8, Zenon DEF LimitsOK
<1>10. limits.bytes \in Nat
  BY <1>4, <1>8
<1> QED
  BY <1>9, <1>10 DEF limits, cost, class

\* What becomes of a payout: it stays one of the same destination and cycles.
Becomes(a, c) ==
    /\ PayoutOK(c) /\ KeysOf(c) = KeysOf(a)
    /\ \A i \in DOMAIN c.recipes : OfBlueprint(c.recipes[i])

(* A refused payout is the same but for its validity and note. *)
LEMMA RefuseKeeps ==
  ASSUME NEW a, PayoutOK(a), NEW reason
  PROVE  /\ PayoutOK(Refuse(a, reason)) /\ KeysOf(Refuse(a, reason)) = KeysOf(a)
         /\ Refuse(a, reason).recipes = a.recipes
         /\ ~Refuse(a, reason).valid
<1> DEFINE c == Refuse(a, reason)
<1>1. /\ DOMAIN c = PayoutFields /\ c.recipes = a.recipes /\ c.limits = a.limits
      /\ c.kind = a.kind /\ c.tx = a.tx /\ c.token = a.token
      /\ c.delegator = a.delegator /\ c.recipient = a.recipient
      /\ c.valid = FALSE
  BY DEF Refuse, PayoutOK, PayoutFields
<1> HIDE DEF c
<1>2. GetIdentifier(c) = GetIdentifier(a)
  BY <1>1, Zenon DEF GetIdentifier
<1>3. /\ Rows(a.recipes) /\ LimitsOK(a.limits)
      /\ \A i \in DOMAIN a.recipes :
            PaidRecipe(a.recipes[i]) /\ GetIdentifier(a.recipes[i]) = GetIdentifier(a)
      /\ \A i, j \in DOMAIN a.recipes : a.recipes[i].cycle = a.recipes[j].cycle => i = j
  BY DEF PayoutOK
<1>4. PayoutOK(c)
  BY <1>1, <1>2, <1>3, Zenon DEF PayoutOK
<1>5. KeysOf(c) = KeysOf(a)
  BY <1>1 DEF KeysOf
<1> QED
  BY <1>1, <1>4, <1>5 DEF c

(* A recipe is of itself. *)
LEMMA OwnRecipes ==
  ASSUME NEW a, PayoutOK(a), Range(a.recipes) \subseteq AllRecipes
  PROVE  \A i \in DOMAIN a.recipes : OfBlueprint(a.recipes[i])
<1> SUFFICES ASSUME NEW i \in DOMAIN a.recipes PROVE OfBlueprint(a.recipes[i])
  OBVIOUS
<1>1. a.recipes[i] \in AllRecipes
  BY DEF Range
<1>2. a.recipes[i].amount \in Nat
  BY DEF PayoutOK, PaidRecipe
<1>3. a.recipes[i].amount <= a.recipes[i].amount
  BY <1>2
<1> QED
  BY <1>1, <1>3 DEF OfBlueprint

(* Payouts just accumulated have paid no fee. *)
LEMMA NoFeeYet ==
  ASSUME NEW a, PayoutOK(a), Range(a.recipes) \subseteq AllRecipes,
         \A r \in AllRecipes : RecipeOK(r)
  PROVE  GetTxFee(a) = 0
<1> DEFINE X == [i \in DOMAIN a.recipes |-> a.recipes[i].txFee]
<1>1. IsFiniteSet(DOMAIN a.recipes)
  BY RowsFacts DEF PayoutOK
<1>2. \A i \in DOMAIN a.recipes : X[i] = 0
  BY DEF Range, RecipeOK
<1>3. GetTxFee(a) = SumFunctionOnSet(X, DOMAIN a.recipes)
  BY SumsOfRows DEF RowsTxFee
<1> HIDE DEF X
<1> QED
  BY <1>1, <1>2, <1>3, SumZero

(* Estimated, a payout is refused or charged with exactly its fees. *)
LEMMA FeesMade ==
  ASSUME Unique(AllRecipes), \A r \in AllRecipes : RecipeOK(r),
         NEW a, PayoutOK(a), a.valid, Range(a.recipes) \subseteq AllRecipes,
         NEW costs \in Costs, NEW refused
  PROVE  LET c == WithFees(a, costs, refused)
         IN  /\ Becomes(a, c)
             /\ c.valid => Charged(c) /\ c.tx = a.tx /\ GetAmount(c) <= GetAmount(a)
<1> DEFINE limits == OpLimits(ClassOf(a), costs[ClassOf(a)])
           b == Charge(a, limits)
           c == WithFees(a, costs, refused)
<1>1. LimitsOK(limits) /\ limits.bytes \in Nat
  BY LimitsMade
<1>2. GetTxFee(a) = 0
  BY NoFeeYet
<1> HIDE DEF limits
<1>3. /\ Follows(a, b) /\ RecipesPaid(b) /\ b.limits = limits
      /\ GetAmount(a) \in Nat /\ GetAmount(b) \in Nat /\ GetAmount(b) <= GetAmount(a)
      /\ GetAmount(b) # 0 =>
            /\ GetTxFee(b) = GetOperationTotalFees(limits)
            /\ GetAmount(a) = GetAmount(b) + OwnFees(a, limits)
  BY <1>1, <1>2, ChargeEffect
<1> HIDE DEF b
<1>4. PayoutOK(b) /\ KeysOf(b) = KeysOf(a)
  BY <1>1, <1>3, FollowsOK
<1>5. /\ TakenFrom(b) = GetAmount(a) - GetAmount(b)
      /\ \A i \in DOMAIN b.recipes : OfBlueprint(b.recipes[i])
  BY <1>3, TakenIs
<1>6. CASE \E reason : c = Refuse(a, reason)
  BY <1>6, RefuseKeeps, OwnRecipes DEF Becomes
<1>7. CASE c = b /\ GetAmount(b) # 0
  <2>1. OwnFees(b, limits) = OwnFees(a, limits)
    <3>1. b.tx = a.tx /\ b.kind = a.kind /\ b.delegator = a.delegator
      BY <1>3 DEF Follows
    <3> QED
      BY <3>1, Zenon DEF OwnFees, IsBakerPaying
  <2>2. OwnFees(b, limits) \in Nat
    <3>1. GetOperationFeesWithoutAllocation(limits) \in Nat /\ GetAllocationFee(limits) \in Nat
      BY <1>1 DEF LimitsOK, GetOperationFeesWithoutAllocation, GetAllocationFee
    <3> DEFINE x == GetOperationFeesWithoutAllocation(limits)
               y == GetAllocationFee(limits)
               p == (b.tx = "tez" /\ b.kind = "delegator reward") /\ ~IsBakerPaying(b, "payTxFee")
               q == (b.tx = "tez" /\ b.kind = "delegator reward")
                       /\ ~IsBakerPaying(b, "payAllocationFee")
    <3>3. OwnFees(b, limits) = (IF p THEN x ELSE 0) + (IF q THEN y ELSE 0)
      BY Zenon DEF OwnFees
    <3> HIDE DEF x, y, p, q
    <3>4. x \in Nat /\ y \in Nat
      BY <3>1 DEF x, y
    <3>5. (IF p THEN x ELSE 0) \in Nat /\ (IF q THEN y ELSE 0) \in Nat
      BY <3>4
    <3> QED
      BY <3>3, <3>5
  <2>3. TakenFrom(b) = OwnFees(b, limits)
    BY <1>3, <1>5, <1>7, <2>1, <2>2
  <2>4. GetAmount(b) > 0
    BY <1>3, <1>7
  <2>5. ChargedExactly(b)
    BY <1>3, <1>7, <2>3, <2>4, Zenon DEF ChargedExactly, OwnFees
  <2>6. Charged(b)
    BY <1>1, <1>3, <1>5, <2>5 DEF Charged
  <2>7. b.tx = a.tx
    BY <1>3 DEF Follows
  <2> QED
    BY <1>3, <1>4, <1>5, <1>7, <2>6, <2>7 DEF Becomes
<1> QED
  BY <1>6, <1>7 DEF WithFees, b, limits

(* What is below the minimum is refused, the rest stays as it is. *)
LEMMA MinimumKept ==
  ASSUME NEW a, PayoutOK(a), \A i \in DOMAIN a.recipes : OfBlueprint(a.recipes[i])
  PROVE  LET c == ValidatePrepared(a)
         IN  Becomes(a, c) /\ (c.valid => c = a)
<1> DEFINE c == ValidatePrepared(a)
<1>1. CASE c = Refuse(a, "below minimum")
  <2>1. /\ PayoutOK(c) /\ KeysOf(c) = KeysOf(a) /\ c.recipes = a.recipes /\ ~c.valid
    BY <1>1, RefuseKeeps
  <2> HIDE DEF c
  <2>2. \A i \in DOMAIN c.recipes : OfBlueprint(c.recipes[i])
    BY <2>1
  <2>3. Becomes(a, c)
    BY <2>1, <2>2, Zenon DEF Becomes
  <2> QED
    BY <2>1, <2>3 DEF c
<1>2. CASE c = a
  BY <1>2, Zenon DEF Becomes
<1> QED
  BY <1>1, <1>2, Zenon DEF ValidatePrepared

-----------------------------------------------------------------------------
(* Payouts that stay, and those that join the invalid recipes.             *)

(* A payout that is due is of some accumulated payout. *)
LEMMA KeyOfSome ==
  ASSUME NEW ps, NEW k
  PROVE  k \in PayoutsOf(RecipesOf(ps)) <=> \E a \in ps : k \in KeysOf(a)
<1>1. ASSUME k \in PayoutsOf(RecipesOf(ps)) PROVE \E a \in ps : k \in KeysOf(a)
  <2>1. PICK r \in RecipesOf(ps) : k = PayoutOf(r)
    BY <1>1 DEF PayoutsOf
  <2>2. PICK a \in ps : r \in Range(a.recipes)
    BY DEF RecipesOf
  <2>3. k \in KeysOf(a)
    BY <2>1, <2>2 DEF KeysOf, PayoutsOf
  <2> QED
    BY <2>3
<1>2. ASSUME NEW a \in ps, k \in KeysOf(a) PROVE k \in PayoutsOf(RecipesOf(ps))
  <2>1. PICK r \in Range(a.recipes) : k = PayoutOf(r)
    BY <1>2 DEF KeysOf, PayoutsOf
  <2>2. r \in RecipesOf(ps)
    BY DEF RecipesOf
  <2> QED
    BY <2>1, <2>2 DEF PayoutsOf
<1> QED
  BY <1>1, <1>2

(* The invalid recipes that an invalid payout becomes. *)
LEMMA Dispersed ==
  ASSUME NEW c, PayoutOK(c), \A i \in DOMAIN c.recipes : OfBlueprint(c.recipes[i])
  PROVE  LET D == DisperseToInvalid(c)
         IN  /\ IsFiniteSet(D) /\ PayoutsOf(D) = KeysOf(c) /\ Unique(D)
             /\ \A r \in D : PaidRecipe(r) /\ ~r.valid /\ OfBlueprint(r)
<1> DEFINE D == DisperseToInvalid(c)
           S == DOMAIN c.recipes
           rs == c.recipes
           g == [i \in S |-> [rs[i] EXCEPT !.valid = FALSE, !.note = c.note]]
<1>1. D = {g[i] : i \in S}
  BY DEF DisperseToInvalid, Range
<1>2. IsFiniteSet(S)
  BY RowsFacts DEF PayoutOK
<1>3. ASSUME NEW i \in S
      PROVE  /\ PaidRecipe(g[i]) /\ ~g[i].valid /\ PayoutOf(g[i]) = PayoutOf(rs[i])
             /\ g[i].amount = rs[i].amount
  <2> DEFINE r == rs[i]
             q == g[i]
  <2>1. PaidRecipe(r) /\ q = [r EXCEPT !.valid = FALSE, !.note = c.note]
    BY DEF PayoutOK
  <2> HIDE DEF r, q, g
  <2>2. /\ DOMAIN q = DOMAIN r /\ q.amount = r.amount /\ q.txFee = r.txFee /\ q.valid = FALSE
        /\ q.kind = r.kind /\ q.fee = r.fee /\ q.tx = r.tx /\ q.token = r.token
        /\ q.delegator = r.delegator /\ q.recipient = r.recipient /\ q.cycle = r.cycle
    BY <2>1 DEF PaidRecipe, RecipeFields
  <2>3. PayoutOf(q) = PayoutOf(r)
    BY <2>2, Zenon DEF PayoutOf, GetIdentifier
  <2>4. PaidRecipe(q)
    BY <2>1, <2>2, Zenon DEF PaidRecipe
  <2> QED
    BY <2>2, <2>3, <2>4 DEF r, q
<1> HIDE DEF g, D
<1>4. IsFiniteSet(D)
  BY <1>1, <1>2, FiniteImage
<1>5. PayoutsOf(D) = KeysOf(c)
  BY <1>1, <1>3, KeysAre DEF PayoutsOf
<1>6. Unique(D)
  <2> SUFFICES ASSUME NEW i \in S, NEW j \in S, PayoutOf(g[i]) = PayoutOf(g[j]) PROVE i = j
    BY <1>1 DEF Unique
  <2>1. PayoutOf(rs[i]) = PayoutOf(rs[j])
    BY <1>3
  <2>2. rs[i].cycle = rs[j].cycle
    BY <2>1, SameDestination
  <2> QED
    BY <2>2 DEF PayoutOK
<1>7. ASSUME NEW r \in D PROVE PaidRecipe(r) /\ ~r.valid /\ OfBlueprint(r)
  <2>1. PICK i \in S : r = g[i]
    BY <1>1
  <2>2. PICK q \in AllRecipes : PayoutOf(q) = PayoutOf(rs[i]) /\ rs[i].amount <= q.amount
    BY DEF OfBlueprint
  <2>3. PayoutOf(q) = PayoutOf(r) /\ r.amount <= q.amount
    BY <1>3, <2>1, <2>2
  <2> QED
    BY <1>3, <2>1, <2>3 DEF OfBlueprint
<1> QED
  BY <1>4, <1>5, <1>6, <1>7 DEF D

(* A step over the payouts, one by one: each stays or joins the invalid    *)
(* recipes, none is lost and none counted twice.                           *)
LEMMA Kept ==
  ASSUME TypedInv, Accounted(PayoutsOf(RecipesOf(payouts))), Separate(payouts),
         NEW h, \A a \in payouts : Becomes(a, h[a]),
         KeepValid({h[a] : a \in payouts}), UNCHANGED <<payable, past, blueprints, config>>
  PROVE  /\ TypedInv' /\ Accounted(PayoutsOf(RecipesOf(payouts)))' /\ Separate(payouts)'
         /\ \A c \in payouts' : c.valid /\ \E a \in payouts : c = h[a]
         /\ IsFiniteSet(payouts)
<1> DEFINE due == PayoutsOf(RecipesOf(payouts))
           Refused == {a \in payouts : ~h[a].valid}
           Left == {a \in payouts : h[a].valid}
           D == [a \in Refused |-> DisperseToInvalid(h[a])]
           Lost == UNION {D[a] : a \in Refused}
<1>1. payouts' = {h[a] : a \in Left} /\ invalid' = invalid \cup Lost
  BY DEF KeepValid, OnlyValid, OnlyInvalid
<1>2. \A a \in payouts : PayoutOK(h[a]) /\ KeysOf(h[a]) = KeysOf(a)
  BY DEF Becomes
<1>3. ASSUME NEW a \in Refused
      PROVE  /\ IsFiniteSet(D[a]) /\ PayoutsOf(D[a]) = KeysOf(a) /\ Unique(D[a])
             /\ \A r \in D[a] : PaidRecipe(r) /\ ~r.valid /\ OfBlueprint(r)
  <2> DEFINE c == h[a]
  <2>1. PayoutOK(c) /\ KeysOf(c) = KeysOf(a) /\ \A i \in DOMAIN c.recipes : OfBlueprint(c.recipes[i])
    BY DEF Becomes
  <2> HIDE DEF c
  <2>2. LET X == DisperseToInvalid(c)
        IN  /\ IsFiniteSet(X) /\ PayoutsOf(X) = KeysOf(c) /\ Unique(X)
            /\ \A r \in X : PaidRecipe(r) /\ ~r.valid /\ OfBlueprint(r)
    BY <2>1, Dispersed
  <2>3. D[a] = DisperseToInvalid(c)
    BY DEF c
  <2> QED
    BY <2>1, <2>2, <2>3
<1>4. IsFiniteSet(payouts) /\ IsFiniteSet(invalid)
  BY DEF TypedInv
<1> HIDE DEF D
<1>5. IsFiniteSet(Refused) /\ IsFiniteSet(Left)
  BY <1>4, FS_Subset
<1>6. IsFiniteSet(payouts') /\ IsFiniteSet(invalid')
  <2>1. IsFiniteSet({h[a] : a \in Left})
    BY <1>5, FiniteImage
  <2>2. IsFiniteSet({D[a] : a \in Refused})
    BY <1>5, FiniteImage
  <2>3. IsFiniteSet(Lost)
    BY <1>3, <2>2, FS_UNION
  <2>4. IsFiniteSet(invalid \cup Lost)
    BY <1>4, <2>3, FS_Union
  <2> QED
    BY <1>1, <2>1, <2>4
<1>7. TypedInv'
  <2>1. \A r \in invalid' : PaidRecipe(r) /\ ~r.valid
    BY <1>1, <1>3 DEF TypedInv
  <2>2. \A a \in payouts' : PayoutOK(a) /\ a.valid
    BY <1>1, <1>2
  <2>3. /\ IsFiniteSet(payable') /\ \A r \in payable' : RecipeOK(r) /\ r.valid
        /\ IsFiniteSet(past') /\ \A q \in past' : q.amount \in Nat
    BY DEF TypedInv
  <2> QED
    BY <1>6, <2>1, <2>2, <2>3 DEF TypedInv
<1>8. \A k : k \in due' <=> \E a \in Left : k \in KeysOf(a)
  <2> SUFFICES ASSUME NEW k PROVE k \in due' <=> \E a \in Left : k \in KeysOf(a)
    OBVIOUS
  <2>1. due' = PayoutsOf(RecipesOf(payouts'))
    BY DEF PayoutsOf, RecipesOf
  <2>2. k \in due' <=> \E c \in payouts' : k \in KeysOf(c)
    BY <2>1, KeyOfSome
  <2> QED
    BY <1>1, <1>2, <2>2
<1>9. \A k : k \in due <=> \E a \in payouts : k \in KeysOf(a)
  BY KeyOfSome
<1>10. \A k : k \in PayoutsOf(invalid)' <=> k \in PayoutsOf(invalid) \/ \E a \in Refused : k \in KeysOf(a)
  <2> SUFFICES ASSUME NEW k
               PROVE  k \in PayoutsOf(invalid')
                        <=> k \in PayoutsOf(invalid) \/ \E a \in Refused : k \in KeysOf(a)
    BY DEF PayoutsOf
  <2>1. k \in PayoutsOf(invalid') <=> k \in PayoutsOf(invalid) \/ k \in PayoutsOf(Lost)
    BY <1>1 DEF PayoutsOf
  <2>2. k \in PayoutsOf(Lost) <=> \E a \in Refused : k \in PayoutsOf(D[a])
    BY DEF PayoutsOf
  <2> QED
    BY <1>3, <2>1, <2>2
<1> DEFINE Key(r) == PayoutOf(r)
<1>11. AllRecipes' = AllRecipes /\ PayoutsOf(past)' = PayoutsOf(past)
       /\ PayoutsOf(AllRecipes)' = PayoutsOf(AllRecipes)
  BY DEF AllRecipes, PayoutsOf
<1>12. \A r : OfBlueprint(r) => OfBlueprint(r)'
  BY <1>11 DEF OfBlueprint
<1>13. /\ PayoutsOf(AllRecipes) = PayoutsOf(past) \cup due \cup PayoutsOf(invalid)
       /\ due \cap PayoutsOf(past) = {}
       /\ due \cap PayoutsOf(invalid) = {}
       /\ PayoutsOf(past) \cap PayoutsOf(invalid) = {}
       /\ Unique(invalid) /\ Unique(past)
       /\ \A q \in past : q.baker = config.baker
       /\ \A r \in invalid \cup past : OfBlueprint(r)
  BY DEF Accounted
<1>14. \A a, b \in payouts : \A k : k \in KeysOf(a) /\ k \in KeysOf(b) => a = b
  BY DEF Separate
<1> HIDE DEF due
<1>15. Unique(invalid)'
  <2> SUFFICES ASSUME NEW r \in invalid \cup Lost, NEW q \in invalid \cup Lost,
                      PayoutOf(r) = PayoutOf(q)
               PROVE  r = q
    BY <1>1 DEF Unique
  <2>1. \A x \in Lost : \E a \in Refused : x \in D[a] /\ PayoutOf(x) \in KeysOf(a)
    <3> SUFFICES ASSUME NEW x \in Lost PROVE \E a \in Refused : x \in D[a] /\ PayoutOf(x) \in KeysOf(a)
      OBVIOUS
    <3>1. PICK a \in Refused : x \in D[a]
      OBVIOUS
    <3>2. PayoutOf(x) \in PayoutsOf(D[a])
      BY <3>1 DEF PayoutsOf
    <3> QED
      BY <1>3, <3>1, <3>2
  <2>2. \A x \in Lost : PayoutOf(x) \in due
    BY <1>9, <2>1
  <2>3. \A x \in invalid : PayoutOf(x) \in PayoutsOf(invalid)
    BY DEF PayoutsOf
  <2>4. CASE r \in invalid /\ q \in invalid
    BY <1>13, <2>4 DEF Unique
  <2>5. CASE (r \in invalid /\ q \in Lost) \/ (r \in Lost /\ q \in invalid)
    BY <1>13, <2>2, <2>3, <2>5
  <2>6. CASE r \in Lost /\ q \in Lost
    <3>1. PICK a \in Refused : r \in D[a] /\ PayoutOf(r) \in KeysOf(a)
      BY <2>1, <2>6
    <3>2. PICK b \in Refused : q \in D[b] /\ PayoutOf(q) \in KeysOf(b)
      BY <2>1, <2>6
    <3>3. a = b
      BY <1>14, <3>1, <3>2
    <3> QED
      BY <1>3, <3>1, <3>2, <3>3 DEF Unique
  <2> QED
    BY <2>4, <2>5, <2>6
<1>16. Unique(past)' /\ \A q \in past' : q.baker = config'.baker
  BY <1>13 DEF Unique
<1>17. \A r \in (invalid \cup past)' : OfBlueprint(r)'
  BY <1>1, <1>3, <1>12, <1>13
<1>18. /\ PayoutsOf(AllRecipes) = PayoutsOf(past) \cup due' \cup PayoutsOf(invalid)'
       /\ due' \cap PayoutsOf(past) = {}
       /\ due' \cap PayoutsOf(invalid)' = {}
       /\ PayoutsOf(past) \cap PayoutsOf(invalid)' = {}
  <2>1. \A k : k \in due' \/ k \in PayoutsOf(invalid)' <=> k \in due \/ k \in PayoutsOf(invalid)
    BY <1>8, <1>9, <1>10
  <2>2. \A k : k \in due' => k \in due /\ k \notin PayoutsOf(invalid)'
    <3> SUFFICES ASSUME NEW k, k \in due' PROVE k \in due /\ k \notin PayoutsOf(invalid)'
      OBVIOUS
    <3>1. PICK a \in Left : k \in KeysOf(a)
      BY <1>8
    <3>2. k \in due
      BY <1>9, <3>1
    <3>3. \A b \in Refused : k \notin KeysOf(b)
      BY <1>14, <3>1
    <3> QED
      BY <1>10, <1>13, <3>2, <3>3
  <2>3. \A k : k \in PayoutsOf(invalid)' => k \in due \/ k \in PayoutsOf(invalid)
    BY <1>9, <1>10
  <2> QED
    BY <1>13, <2>1, <2>2, <2>3
<1>19. Accounted(PayoutsOf(RecipesOf(payouts)))'
  BY <1>11, <1>15, <1>16, <1>17, <1>18 DEF Accounted, due
<1>20. Separate(payouts)'
  <2> SUFFICES ASSUME NEW a \in Left, NEW b \in Left, h[a] # h[b]
               PROVE  KeysOf(h[a]) \cap KeysOf(h[b]) = {}
    BY <1>1 DEF Separate
  <2> QED
    BY <1>2, <1>14
<1>21. \A c \in payouts' : c.valid /\ \E a \in payouts : c = h[a]
  BY <1>1
<1> QED
  BY <1>4, <1>7, <1>19, <1>20, <1>21

-----------------------------------------------------------------------------
(* What was paid before.                                                   *)

(* A report of a recipe is of its payout and amount. *)
LEMMA ReportOf ==
  ASSUME NEW r, NEW run
  PROVE  LET q == EarlierReport(r, run)
         IN  /\ PayoutOf(q) = PayoutOf(r) /\ GetIdentifier(q) = GetIdentifier(r)
             /\ q.amount = r.amount /\ q.cycle = r.cycle
<1> DEFINE q == EarlierReport(r, run)
<1>1. /\ q.kind = r.kind /\ q.tx = r.tx /\ q.token = r.token /\ q.delegator = r.delegator
      /\ q.recipient = r.recipient /\ q.cycle = r.cycle /\ q.amount = r.amount
  BY DEF EarlierReport, ToPayoutReport
<1> HIDE DEF q
<1>2. GetIdentifier(q) = GetIdentifier(r)
  BY <1>1, Zenon DEF GetIdentifier
<1>3. PayoutOf(q) = PayoutOf(r)
  BY <1>1, <1>2, Zenon DEF PayoutOf
<1> QED
  BY <1>1, <1>2, <1>3 DEF q

(* One report of each destination is kept. *)
LEMMA OneOfEach ==
  ASSUME NEW reports
  PROVE  /\ OnePerDestination(reports) \subseteq reports
         /\ \A q, p \in OnePerDestination(reports) : GetIdentifier(q) = GetIdentifier(p) => q = p
<1> DEFINE one(id) == CHOOSE q \in reports : GetIdentifier(q) = id
<1>1. \A q \in reports : one(GetIdentifier(q)) \in reports
                         /\ GetIdentifier(one(GetIdentifier(q))) = GetIdentifier(q)
  OBVIOUS
<1>2. \A q \in OnePerDestination(reports) :
         \E p \in reports : q = one(GetIdentifier(p))
  BY DEF OnePerDestination
<1> HIDE DEF one
<1>3. \A q \in OnePerDestination(reports) :
         q \in reports /\ q = one(GetIdentifier(q))
  BY <1>1, <1>2
<1> QED
  BY <1>3

\* What the reports of an earlier run tell of the recipes of a cycle.
FoundFor(b, run, paid) ==
    FilterRecipesByReports(b.payouts,
        FilterReportsByBaker({EarlierReport(r, run) : r \in paid \cap b.payouts}, config.baker),
        Applied(run))

(* A recipe of the cycle is left exactly if no report kept is of it. *)
LEMMA FoundIs ==
  ASSUME BlueprintsInv, NEW b \in blueprints, NEW run, NEW paid
  PROVE  LET F == FoundFor(b, run, paid)
         IN  /\ F.payouts \subseteq b.payouts /\ IsFiniteSet(F.reports)
             /\ \A q \in F.reports :
                   /\ q.cycle = b.cycle /\ q.baker = config.baker /\ q.amount \in Nat
                   /\ \E r \in b.payouts : PayoutOf(r) = PayoutOf(q) /\ q.amount <= r.amount
             /\ Unique(F.reports)
             /\ \A r \in b.payouts : r \notin F.payouts <=> PayoutOf(r) \in PayoutsOf(F.reports)
<1> DEFINE made == {EarlierReport(r, run) : r \in paid \cap b.payouts}
           own == FilterReportsByBaker(made, config.baker)
           kept == OnePerDestination(PaidOut(own, Applied(run)))
           F == FoundFor(b, run, paid)
<1>1. /\ F.reports = kept
      /\ F.payouts = {r \in b.payouts : \A q \in kept : GetIdentifier(q) # GetIdentifier(r)}
  BY DEF FoundFor, FilterRecipesByReports
<1>2. /\ kept \subseteq PaidOut(own, Applied(run))
      /\ \A q, p \in kept : GetIdentifier(q) = GetIdentifier(p) => q = p
  <2> DEFINE S == PaidOut(own, Applied(run))
  <2> HIDE DEF S
  <2>1. /\ OnePerDestination(S) \subseteq S
        /\ \A q, p \in OnePerDestination(S) : GetIdentifier(q) = GetIdentifier(p) => q = p
    BY OneOfEach
  <2> QED
    BY <2>1 DEF S
<1>3. \A q \in kept : q \in made /\ q.baker = config.baker
  BY <1>2 DEF PaidOut, FilterReportsByBaker
<1>4. /\ IsFiniteSet(b.payouts) /\ Unique(b.payouts)
      /\ \A r \in b.payouts : RecipeOK(r) /\ r.cycle = b.cycle
  BY DEF BlueprintsInv, BlueprintOK, RecipesOK, Unique
<1> HIDE DEF kept
<1>5. IsFiniteSet(kept)
  <2> DEFINE g == [r \in paid \cap b.payouts |-> EarlierReport(r, run)]
  <2>1. made = {g[r] : r \in paid \cap b.payouts}
    OBVIOUS
  <2>2. IsFiniteSet(paid \cap b.payouts)
    BY <1>4, FS_Subset
  <2> HIDE DEF g
  <2>3. IsFiniteSet({g[r] : r \in paid \cap b.payouts})
    BY <2>2, FiniteImage
  <2>4. kept \subseteq made /\ IsFiniteSet(made)
    BY <1>3, <2>1, <2>3
  <2> QED
    BY <2>4, FS_Subset
<1>6. ASSUME NEW q \in kept
      PROVE  /\ q.cycle = b.cycle /\ q.baker = config.baker /\ q.amount \in Nat
             /\ \E r \in b.payouts : PayoutOf(r) = PayoutOf(q) /\ q.amount <= r.amount
  <2>1. PICK r \in b.payouts : q = EarlierReport(r, run)
    BY <1>3
  <2>2. PayoutOf(q) = PayoutOf(r) /\ q.amount = r.amount /\ q.cycle = r.cycle
    BY <2>1, ReportOf
  <2>3. r.amount \in Nat /\ r.cycle = b.cycle
    BY <1>4 DEF RecipeOK
  <2>4. q.amount <= r.amount
    BY <2>2, <2>3
  <2> QED
    BY <1>3, <2>2, <2>3, <2>4
<1>7. Unique(kept)
  BY <1>2, SameDestination DEF Unique
<1>8. ASSUME NEW r \in b.payouts
      PROVE  r \notin F.payouts <=> PayoutOf(r) \in PayoutsOf(kept)
  <2>1. r \notin F.payouts <=> \E q \in kept : GetIdentifier(q) = GetIdentifier(r)
    BY <1>1
  <2>2. \A q \in kept : GetIdentifier(q) = GetIdentifier(r) <=> PayoutOf(q) = PayoutOf(r)
    BY <1>4, <1>6, SameDestination
  <2>3. PayoutOf(r) \in PayoutsOf(kept) <=> \E q \in kept : PayoutOf(q) = PayoutOf(r)
    BY DEF PayoutsOf
  <2> QED
    BY <2>1, <2>2, <2>3
<1> QED
  BY <1>1, <1>5, <1>6, <1>7, <1>8

(* With the reports of an earlier run read, each recipe is due, paid before *)
(* or invalid.                                                              *)
LEMMA PrepareKeeps ==
  ASSUME BlueprintsInv, PrepInv, PreparePayouts, UNCHANGED <<config, blueprints>>
  PROVE  PrepInv'
<1>1. PICK run \in EarlierRuns, paid \in PaidEarlier :
         LET left == UNION {FoundFor(b, run, paid).payouts : b \in blueprints}
         IN  /\ payable' = OnlyValid(left)
             /\ invalid' = OnlyInvalid(left)
             /\ past' = UNION {FoundFor(b, run, paid).reports : b \in blueprints}
  BY Zenon DEF PreparePayouts, FoundFor
<1> DEFINE F == [b \in blueprints |-> FoundFor(b, run, paid)]
           P == [b \in blueprints |-> F[b].reports]
           left == UNION {F[b].payouts : b \in blueprints}
<1>2. payable' = OnlyValid(left) /\ invalid' = OnlyInvalid(left)
      /\ past' = UNION {P[b] : b \in blueprints}
  <2>1. {F[b].payouts : b \in blueprints} = {FoundFor(b, run, paid).payouts : b \in blueprints}
    OBVIOUS
  <2>2. {P[b] : b \in blueprints} = {FoundFor(b, run, paid).reports : b \in blueprints}
    OBVIOUS
  <2> QED
    BY <1>1, <2>1, <2>2, Zenon
<1>3. ASSUME NEW b \in blueprints
      PROVE  /\ F[b].payouts \subseteq b.payouts /\ IsFiniteSet(P[b])
             /\ \A q \in P[b] :
                   /\ q.cycle = b.cycle /\ q.baker = config.baker /\ q.amount \in Nat
                   /\ \E r \in b.payouts : PayoutOf(r) = PayoutOf(q) /\ q.amount <= r.amount
             /\ Unique(P[b])
             /\ \A r \in b.payouts : r \notin F[b].payouts <=> PayoutOf(r) \in PayoutsOf(P[b])
  <2>1. LET G == FoundFor(b, run, paid)
        IN  /\ G.payouts \subseteq b.payouts /\ IsFiniteSet(G.reports)
            /\ \A q \in G.reports :
                  /\ q.cycle = b.cycle /\ q.baker = config.baker /\ q.amount \in Nat
                  /\ \E r \in b.payouts : PayoutOf(r) = PayoutOf(q) /\ q.amount <= r.amount
            /\ Unique(G.reports)
            /\ \A r \in b.payouts : r \notin G.payouts <=> PayoutOf(r) \in PayoutsOf(G.reports)
    BY FoundIs
  <2>2. F[b] = FoundFor(b, run, paid) /\ P[b] = FoundFor(b, run, paid).reports
    OBVIOUS
  <2> QED
    BY <2>1, <2>2
<1> HIDE DEF F, P
<1>4. /\ IsFiniteSet(AllRecipes) /\ Unique(AllRecipes)
      /\ \A r \in AllRecipes : RecipeOK(r) /\ OfPeriod(r.cycle)
  BY RecipesOfBlueprints
<1>5. left \subseteq AllRecipes
  BY <1>3 DEF AllRecipes
<1>6. AllRecipes' = AllRecipes
  BY DEF AllRecipes
<1>7. /\ IsFiniteSet(blueprints)
      /\ \A b, c \in blueprints : b.cycle = c.cycle => b = c
      /\ \A b \in blueprints : \A r \in b.payouts : r.cycle = b.cycle
  BY DEF BlueprintsInv, BlueprintOK, RecipesOK
<1>8. TypedInv'
  <2>1. IsFiniteSet(payable') /\ IsFiniteSet(invalid')
        /\ payable' \subseteq AllRecipes /\ invalid' \subseteq AllRecipes
    <3>1. payable' \subseteq AllRecipes /\ invalid' \subseteq AllRecipes
      BY <1>2, <1>5 DEF OnlyValid, OnlyInvalid
    <3> QED
      BY <1>4, <3>1, FS_Subset
  <2>2. \A r \in payable' : RecipeOK(r) /\ r.valid
    BY <1>2, <1>4, <2>1 DEF OnlyValid
  <2>3. \A r \in invalid' : PaidRecipe(r) /\ ~r.valid
    <3>1. \A r : RecipeOK(r) => PaidRecipe(r)
      BY DEF RecipeOK, PaidRecipe
    <3> QED
      BY <1>2, <1>4, <2>1, <3>1 DEF OnlyInvalid
  <2>4. IsFiniteSet(past') /\ \A q \in past' : q.amount \in Nat
    <3>1. IsFiniteSet({P[b] : b \in blueprints})
      BY <1>7, FiniteImage
    <3>2. \A X \in {P[b] : b \in blueprints} : IsFiniteSet(X)
      BY <1>3
    <3>3. IsFiniteSet(UNION {P[b] : b \in blueprints})
      BY <3>1, <3>2, FS_UNION
    <3> QED
      BY <1>2, <1>3, <3>3
  <2>5. IsFiniteSet(payouts') /\ \A a \in payouts' : PayoutOK(a) /\ a.valid
    BY DEF PrepInv, TypedInv, PreparePayouts
  <2> QED
    BY <2>1, <2>2, <2>3, <2>4, <2>5 DEF TypedInv
<1>9. \A q \in past' : \E b \in blueprints :
          q \in P[b] /\ \E r \in b.payouts : PayoutOf(r) = PayoutOf(q) /\ q.amount <= r.amount
  BY <1>2, <1>3
<1>10. \A r \in AllRecipes : r \notin left <=> PayoutOf(r) \in PayoutsOf(past')
  <2> SUFFICES ASSUME NEW r \in AllRecipes PROVE r \notin left <=> PayoutOf(r) \in PayoutsOf(past')
    OBVIOUS
  <2>1. PICK b \in blueprints : r \in b.payouts
    BY DEF AllRecipes
  <2>2. \A c \in blueprints : r \in c.payouts => c = b
    BY <1>7, <2>1
  <2>3. r \in left <=> r \in F[b].payouts
    BY <1>3, <2>2
  <2>4. PayoutOf(r) \in PayoutsOf(past') <=> PayoutOf(r) \in PayoutsOf(P[b])
    <3>1. ASSUME NEW q \in past', PayoutOf(q) = PayoutOf(r) PROVE q \in P[b]
      <4>1. PICK c \in blueprints : q \in P[c]
        BY <1>2
      <4>2. q.cycle = c.cycle /\ q.cycle = r.cycle /\ r.cycle = b.cycle
        <5>1. q.cycle = r.cycle
          BY <3>1, SameDestination
        <5>2. q.cycle = c.cycle
          BY <1>3, <4>1
        <5>3. r.cycle = b.cycle
          BY <1>7, <2>1
        <5> QED
          BY <5>1, <5>2, <5>3
      <4> QED
        BY <1>7, <4>1, <4>2
    <3>2. P[b] \subseteq past'
      BY <1>2
    <3> QED
      BY <3>1, <3>2 DEF PayoutsOf
  <2> QED
    BY <1>3, <2>1, <2>3, <2>4
<1>11. Unique(past')
  <2> SUFFICES ASSUME NEW q \in past', NEW p \in past', PayoutOf(q) = PayoutOf(p) PROVE q = p
    BY DEF Unique
  <2>1. PICK b \in blueprints : q \in P[b]
    BY <1>2
  <2>2. PICK c \in blueprints : p \in P[c]
    BY <1>2
  <2>3. b = c
    <3>1. q.cycle = p.cycle
      BY SameDestination
    <3> QED
      BY <1>3, <1>7, <2>1, <2>2, <3>1
  <2> QED
    BY <1>3, <2>1, <2>2, <2>3 DEF Unique
<1>12. /\ payable' \subseteq left /\ invalid' \subseteq left
       /\ \A r \in left : r \in payable' \/ r \in invalid'
       /\ \A r \in payable' : r.valid
       /\ \A r \in invalid' : ~r.valid
  BY <1>2 DEF OnlyValid, OnlyInvalid
<1> HIDE DEF left
<1>13. \A r, q \in AllRecipes : PayoutOf(r) = PayoutOf(q) => r = q
  BY <1>4 DEF Unique
<1>14. \A q \in past' : \E r \in AllRecipes : PayoutOf(r) = PayoutOf(q) /\ q.amount <= r.amount
  <2>1. \A b \in blueprints : b.payouts \subseteq AllRecipes
    BY DEF AllRecipes
  <2> QED
    BY <1>9, <2>1
<1>15. /\ PayoutsOf(AllRecipes) = PayoutsOf(past') \cup PayoutsOf(payable') \cup PayoutsOf(invalid')
       /\ PayoutsOf(payable') \cap PayoutsOf(past') = {}
       /\ PayoutsOf(payable') \cap PayoutsOf(invalid') = {}
       /\ PayoutsOf(past') \cap PayoutsOf(invalid') = {}
  <2>1. \A k : k \in PayoutsOf(AllRecipes) <=> \E r \in AllRecipes : k = PayoutOf(r)
    BY DEF PayoutsOf
  <2>2. \A k : k \in PayoutsOf(payable') <=> \E r \in payable' : k = PayoutOf(r)
    BY DEF PayoutsOf
  <2>3. \A k : k \in PayoutsOf(invalid') <=> \E r \in invalid' : k = PayoutOf(r)
    BY DEF PayoutsOf
  <2>4. \A k : k \in PayoutsOf(past') => k \in PayoutsOf(AllRecipes)
    BY <1>14 DEF PayoutsOf
  <2>5. \A k : k \in PayoutsOf(AllRecipes)
           => k \in PayoutsOf(past') \/ k \in PayoutsOf(payable') \/ k \in PayoutsOf(invalid')
    BY <1>10, <1>12, <2>1, <2>2, <2>3
  <2>6. \A r \in left : PayoutOf(r) \notin PayoutsOf(past') /\ r \in AllRecipes
    BY <1>5, <1>10
  <2>7. \A k : k \in PayoutsOf(payable') \/ k \in PayoutsOf(invalid')
           => k \in PayoutsOf(AllRecipes) /\ k \notin PayoutsOf(past')
    BY <1>12, <2>1, <2>2, <2>3, <2>6
  <2>8. \A k : ~(k \in PayoutsOf(payable') /\ k \in PayoutsOf(invalid'))
    <3> SUFFICES ASSUME NEW r \in payable', NEW q \in invalid', PayoutOf(r) = PayoutOf(q) PROVE FALSE
      BY <2>2, <2>3
    <3>1. r \in AllRecipes /\ q \in AllRecipes
      BY <1>12, <2>6
    <3> QED
      BY <1>12, <1>13, <3>1
  <2> QED
    BY <2>4, <2>5, <2>7, <2>8
<1>16. Unique(invalid')
  BY <1>5, <1>12, <1>13 DEF Unique
<1>17. \A r \in invalid' \cup past' : OfBlueprint(r)'
  <2>1. \A r \in invalid' : r \in AllRecipes /\ r.amount <= r.amount
    <3>1. \A r \in invalid' : r \in AllRecipes /\ r.amount \in Nat
      BY <1>4, <1>5, <1>12 DEF RecipeOK
    <3> QED
      BY <3>1
  <2> QED
    BY <1>6, <1>14, <2>1 DEF OfBlueprint
<1>18. \A q \in past' : q.baker = config'.baker
  BY <1>2, <1>3
<1>19. Accounted(PayoutsOf(payable))'
  BY <1>6, <1>11, <1>15, <1>16, <1>17, <1>18 DEF Accounted, PayoutsOf, Unique
<1>20. PartsInv'
  <2>1. stage' = "accumulate" /\ payouts' = {} /\ payable' \subseteq AllRecipes'
    BY <1>5, <1>6, <1>12 DEF PreparePayouts, PrepInv, PartsInv
  <2> QED
    BY <1>19, <2>1 DEF PartsInv, OpenStages, WorkStages, DueStages, ChargedStages, PayStages
<1>21. CoverInv'
  BY DEF PreparePayouts, PrepInv, CoverInv, OpenStages, ChargedStages, PayStages
<1> QED
  BY <1>8, <1>20, <1>21 DEF PrepInv

-----------------------------------------------------------------------------
(* Accumulating.                                                           *)

\* g takes the members of S by the number of those before each in the order P.
Ranked(S, P, B, g) ==
    /\ \A x \in S : P[x] \in Nat
    /\ \A x, y \in S : P[x] = P[y] => x = y
    /\ \A x \in S : B[x] = {y \in S : P[y] < P[x]}
    /\ DOMAIN g = 1..Cardinality(S)
    /\ \A i \in DOMAIN g :
          (\E x \in S : Cardinality(B[x]) = i - 1)
             => g[i] \in S /\ Cardinality(B[g[i]]) = i - 1

(* By rank, each member of a finite set is listed once. *)
LEMMA ByRank ==
  ASSUME NEW S, IsFiniteSet(S), NEW P, NEW B, NEW g, Ranked(S, P, B, g)
  PROVE  /\ Cardinality(S) \in Nat /\ DOMAIN g = 1..Cardinality(S) /\ Range(g) = S
         /\ \A i, j \in DOMAIN g : g[i] = g[j] => i = j
<1> DEFINE n == Cardinality(S)
           rank == [x \in S |-> Cardinality(B[x])]
<1>0. /\ \A x \in S : P[x] \in Nat
      /\ \A x, y \in S : P[x] = P[y] => x = y
      /\ \A x \in S : B[x] = {y \in S : P[y] < P[x]}
      /\ DOMAIN g = 1..n
      /\ \A i \in 1..n :
            (\E x \in S : Cardinality(B[x]) = i - 1)
               => g[i] \in S /\ Cardinality(B[g[i]]) = i - 1
  BY Zenon DEF Ranked
<1>1. n \in Nat
  BY FS_CardinalityType
<1>2. ASSUME NEW x \in S
      PROVE  /\ B[x] = {y \in S : P[y] < P[x]}
             /\ IsFiniteSet(B[x]) /\ rank[x] = Cardinality(B[x]) /\ rank[x] \in Nat
             /\ rank[x] <= n - 1
             /\ Cardinality(B[x] \cup {x}) = rank[x] + 1
  <2>1. B[x] = {y \in S : P[y] < P[x]} /\ rank[x] = Cardinality(B[x])
    BY <1>0
  <2>2. B[x] \in SUBSET S /\ x \notin B[x] /\ B[x] \cup {x} \in SUBSET S
    BY <1>0, <2>1
  <2> HIDE DEF rank
  <2>3. IsFiniteSet(B[x]) /\ rank[x] \in Nat
    BY <2>1, <2>2, FS_Subset, FS_CardinalityType
  <2>4. Cardinality(B[x] \cup {x}) = rank[x] + 1
    BY <2>1, <2>2, <2>3, FS_AddElement
  <2>5. Cardinality(B[x] \cup {x}) <= n
    BY <2>2, FS_Subset
  <2> QED
    BY <1>1, <2>1, <2>3, <2>4, <2>5
<1>3. ASSUME NEW x \in S, NEW y \in S, P[x] < P[y]
      PROVE  rank[x] < rank[y]
  <2>1. B[x] \cup {x} \in SUBSET B[y]
    <3>1. P[x] \in Nat /\ P[y] \in Nat
      BY <1>0
    <3>2. \A z \in B[x] : z \in S /\ P[z] \in Nat /\ P[z] < P[x]
      BY <1>0
    <3>3. \A z \in B[x] : P[z] < P[y]
      BY <1>3, <3>1, <3>2
    <3> QED
      BY <1>0, <1>3, <3>2, <3>3
  <2>2. Cardinality(B[x] \cup {x}) <= Cardinality(B[y])
    BY <1>2, <2>1, FS_Subset
  <2> DEFINE p == rank[x]
             q == rank[y]
  <2>3. p \in Nat /\ q \in Nat /\ p + 1 <= q
    BY <1>2, <2>2
  <2> HIDE DEF p, q
  <2>4. p < q
    BY <2>3
  <2> QED
    BY <2>4 DEF p, q
<1>4. \A x, y \in S : rank[x] = rank[y] => x = y
  <2> SUFFICES ASSUME NEW x \in S, NEW y \in S, rank[x] = rank[y], x # y PROVE FALSE
    OBVIOUS
  <2>1. P[x] < P[y] \/ P[y] < P[x]
    <3>1. P[x] \in Nat /\ P[y] \in Nat /\ P[x] # P[y]
      BY <1>0
    <3> QED
      BY <3>1
  <2>2. rank[x] < rank[y] \/ rank[y] < rank[x]
    BY <1>3, <2>1
  <2>3. rank[x] \in Nat /\ rank[y] \in Nat
    BY <1>2
  <2> QED
    BY <2>2, <2>3
<1>5. rank \in Surjection(S, 0..(n - 1))
  <2>1. rank \in [S -> 0..(n - 1)]
    <3>1. \A x \in S : rank[x] \in 0..(n - 1)
      <4>1. \A k, m \in Nat : k <= m - 1 => k \in 0..(m - 1)
        OBVIOUS
      <4>2. \A x \in S : rank[x] \in Nat /\ rank[x] <= n - 1
        BY <1>2
      <4> HIDE DEF rank, n
      <4> QED
        BY <1>1, <4>1, <4>2
    <3>2. rank = [x \in S |-> rank[x]]
      OBVIOUS
    <3> HIDE DEF rank
    <3> QED
      BY <3>1, <3>2
  <2>2. rank \in Injection(S, 0..(n - 1))
    BY <1>4, <2>1 DEF Injection, IsInjective
  <2>3. IsFiniteSet(0..(n - 1)) /\ Cardinality(0..(n - 1)) = n
    <3>1. 0 \in Int /\ n - 1 \in Int
      BY <1>1
    <3>2. /\ IsFiniteSet(0..(n - 1))
          /\ Cardinality(0..(n - 1)) = IF 0 > n - 1 THEN 0 ELSE (n - 1) - 0 + 1
      BY <3>1, FS_Interval, Zenon
    <3> HIDE DEF n
    <3> QED
      BY <1>1, <3>2
  <2> HIDE DEF rank, n
  <2>4. Cardinality(S) = n
    BY DEF n
  <2> QED
    BY <2>2, <2>3, <2>4, FS_Injection
<1> HIDE DEF rank
<1>6. \A k \in 0..(n - 1) : \E x \in S : rank[x] = k
  BY <1>5 DEF Surjection
<1>7. ASSUME NEW i \in 1..n
      PROVE  g[i] \in S /\ rank[g[i]] = i - 1
  <2>1. i - 1 \in 0..(n - 1)
    BY <1>1
  <2>2. PICK x \in S : rank[x] = i - 1
    BY <1>6, <2>1
  <2>3. Cardinality(B[x]) = i - 1
    BY <1>2, <2>2
  <2>4. g[i] \in S /\ Cardinality(B[g[i]]) = i - 1
    BY <1>0, <2>3
  <2> QED
    BY <1>2, <2>4
<1>8. DOMAIN g = 1..n
  BY <1>0
<1>9. \A i, j \in DOMAIN g : g[i] = g[j] => i = j
  <2> SUFFICES ASSUME NEW i \in 1..n, NEW j \in 1..n, g[i] = g[j] PROVE i = j
    BY <1>8
  <2>1. i - 1 = j - 1
    BY <1>7
  <2> QED
    BY <1>1, <2>1
<1>10. \A x \in S : \E i \in 1..n : g[i] = x
  <2> SUFFICES ASSUME NEW x \in S PROVE \E i \in 1..n : g[i] = x
    OBVIOUS
  <2> DEFINE i == rank[x] + 1
  <2>1. i \in 1..n /\ i - 1 = rank[x]
    <3>1. \A k, m \in Nat : k <= m - 1 => k + 1 \in 1..m /\ (k + 1) - 1 = k
      OBVIOUS
    <3>2. rank[x] \in Nat /\ rank[x] <= n - 1
      BY <1>2
    <3> HIDE DEF n
    <3> QED
      BY <1>1, <3>1, <3>2
  <2>2. g[i] \in S /\ rank[g[i]] = rank[x]
    BY <1>7, <2>1
  <2> QED
    BY <1>4, <2>1, <2>2
<1>11. Range(g) = S
  <2>1. \A x : x \in Range(g) <=> \E i \in DOMAIN g : g[i] = x
    BY DEF Range
  <2>2. \A x : x \in Range(g) <=> x \in S
    BY <1>7, <1>8, <1>10, <2>1
  <2> QED
    BY <2>2
<1> QED
  BY <1>1, <1>8, <1>9, <1>11

(* The recipes of one destination, each of another cycle, are all listed.  *)
LEMMA OrderIs ==
  ASSUME NEW rs, IsFiniteSet(rs), \A r \in rs : OfPeriod(r.cycle),
         \A r, q \in rs : r.cycle = q.cycle => r = q
  PROVE  LET g == InOrderOfCycles(rs)
         IN  /\ Cardinality(rs) \in Nat /\ DOMAIN g = 1..Cardinality(rs) /\ Range(g) = rs
             /\ \A i, j \in DOMAIN g : g[i] = g[j] => i = j
             /\ g = [i \in 1..Cardinality(rs) |-> g[i]]
<1> DEFINE P == [r \in rs |-> CHOOSE k \in DOMAIN Cycles : Cycles[k] = r.cycle]
           g == InOrderOfCycles(rs)
<1>1. \A r \in rs : P[r] \in DOMAIN Cycles /\ Cycles[P[r]] = r.cycle
  BY DEF OfPeriod
<1>2. DOMAIN Cycles \subseteq Nat
  <2>1. Cycles \in Seq(Int)
    BY CyclesAssumption
  <2> QED
    BY <2>1
<1>3. \A r \in rs : \A k \in DOMAIN Cycles : Cycles[k] = r.cycle => k = P[r]
  BY <1>1, CyclesAssumption
<1>4. \A r, q \in rs : P[r] = P[q] => r = q
  BY <1>1
<1> DEFINE B == [r \in rs |-> {q \in rs : \E i, j \in DOMAIN Cycles :
                                   i < j /\ Cycles[i] = q.cycle /\ Cycles[j] = r.cycle}]
<1> HIDE DEF P
<1>5. ASSUME NEW r \in rs
      PROVE  B[r] = {q \in rs : P[q] < P[r]}
  <2>1. \A q \in rs : (\E i, j \in DOMAIN Cycles :
                          i < j /\ Cycles[i] = q.cycle /\ Cycles[j] = r.cycle) <=> P[q] < P[r]
    BY <1>1, <1>3
  <2> QED
    BY <2>1
<1>6. g = [i \in 1..Cardinality(rs) |-> g[i]] /\ DOMAIN g = 1..Cardinality(rs)
  <2> DEFINE c(i) == CHOOSE r \in rs :
                  Cardinality({p \in rs : \E a, b \in DOMAIN Cycles :
                      a < b /\ Cycles[a] = p.cycle /\ Cycles[b] = r.cycle}) = i - 1
  <2>1. g = [i \in 1..Cardinality(rs) |-> c(i)]
    BY Zenon DEF InOrderOfCycles
  <2> HIDE DEF c, g
  <2> QED
    BY <2>1
<1>7. ASSUME NEW i \in 1..Cardinality(rs), NEW q \in rs, Cardinality(B[q]) = i - 1
      PROVE  g[i] \in rs /\ Cardinality(B[g[i]]) = i - 1
  <2>1. g[i] = CHOOSE r \in rs :
                  Cardinality({p \in rs : \E a, b \in DOMAIN Cycles :
                      a < b /\ Cycles[a] = p.cycle /\ Cycles[b] = r.cycle}) = i - 1
    BY Zenon DEF InOrderOfCycles
  <2>2. \A r \in rs : B[r] = {p \in rs : \E a, b \in DOMAIN Cycles :
                      a < b /\ Cycles[a] = p.cycle /\ Cycles[b] = r.cycle}
    BY Zenon
  <2> HIDE DEF B, g
  <2> QED
    BY <1>7, <2>1, <2>2
<1> HIDE DEF g, B
<1>8. \A r \in rs : P[r] \in Nat
  BY <1>1, <1>2
<1>9. /\ Cardinality(rs) \in Nat /\ DOMAIN g = 1..Cardinality(rs) /\ Range(g) = rs
      /\ \A i, j \in DOMAIN g : g[i] = g[j] => i = j
  <2>1. \A r \in rs : B[r] = {q \in rs : P[q] < P[r]}
    BY <1>5
  <2>2. \A i \in DOMAIN g :
           (\E r \in rs : Cardinality(B[r]) = i - 1) => g[i] \in rs /\ Cardinality(B[g[i]]) = i - 1
    BY <1>6, <1>7
  <2> QED
    <3>1. Ranked(rs, P, B, g)
      BY <1>4, <1>6, <1>8, <2>1, <2>2, Zenon DEF Ranked
    <3> QED
      BY <3>1, ByRank
<1> QED
  BY <1>6, <1>9 DEF g

(* What one payout starts with. *)
LEMMA AsAccumulatedIs ==
  ASSUME NEW r
  PROVE  LET a == AsAccumulated(r)
         IN  /\ DOMAIN a = PayoutFields /\ GetIdentifier(a) = GetIdentifier(r)
             /\ a.valid = r.valid /\ a.limits = NoLimits /\ a.recipes = <<r>> /\ a.tx = r.tx
             /\ LimitsOK(NoLimits)
<1> DEFINE a == AsAccumulated(r)
<1>1. /\ DOMAIN a = PayoutFields
      /\ a.kind = r.kind /\ a.tx = r.tx /\ a.token = r.token
      /\ a.delegator = r.delegator /\ a.recipient = r.recipient
      /\ a.valid = r.valid /\ a.limits = NoLimits /\ a.recipes = <<r>>
  BY DEF AsAccumulated, PayoutFields
<1> HIDE DEF a
<1>2. GetIdentifier(a) = GetIdentifier(r)
  BY <1>1, Zenon DEF GetIdentifier
<1>3. LimitsOK(NoLimits)
  BY DEF LimitsOK, NoLimits
<1> QED
  BY <1>1, <1>2, <1>3 DEF a

\* Recipes that one transfer may pay together.
OneTransfer(rs) ==
    /\ IsFiniteSet(rs) /\ rs # {}
    /\ \A r \in rs : RecipeOK(r) /\ r.valid /\ OfPeriod(r.cycle)
    /\ \A r, q \in rs : GetIdentifier(r) = GetIdentifier(q)
    /\ \A r, q \in rs : r.cycle = q.cycle => r = q

\* A payout holds each of the recipes, and nothing was charged yet.
Holds(a, rs) ==
    /\ PayoutOK(a) /\ a.valid /\ Range(a.recipes) = rs
    /\ \A r \in rs : GetIdentifier(r) = GetIdentifier(a)

(* A payout made of the recipes of one destination holds them. *)
LEMMA HoldsMade ==
  ASSUME NEW rs, OneTransfer(rs), NEW a, DOMAIN a = PayoutFields, a.valid,
         LimitsOK(a.limits), Rows(a.recipes), Range(a.recipes) = rs,
         \A i, j \in DOMAIN a.recipes : a.recipes[i] = a.recipes[j] => i = j,
         \E r \in rs : GetIdentifier(a) = GetIdentifier(r)
  PROVE  Holds(a, rs)
<1>1. \A r : RecipeOK(r) => PaidRecipe(r)
  BY DEF RecipeOK, PaidRecipe
<1>2. \A r \in rs : GetIdentifier(r) = GetIdentifier(a) /\ PaidRecipe(r)
  BY <1>1 DEF OneTransfer
<1>3. \A i \in DOMAIN a.recipes : a.recipes[i] \in rs
  BY DEF Range
<1>4. \A i, j \in DOMAIN a.recipes : a.recipes[i].cycle = a.recipes[j].cycle => i = j
  BY <1>3 DEF OneTransfer
<1>5. PayoutOK(a)
  BY <1>2, <1>3, <1>4 DEF PayoutOK
<1> QED
  BY <1>2, <1>5 DEF Holds

(* A sequence is its first element and the rest. *)
LEMMA HeadAndTail ==
  ASSUME NEW S, NEW s \in Seq(S), s # <<>>
  PROVE  <<s[1]>> \o Tail(s) = s
  OBVIOUS

(* Accumulating recipes of one destination makes one payout that holds     *)
(* each of them once.                                                      *)
LEMMA AccumulatedIs ==
  ASSUME NEW rs, OneTransfer(rs)
  PROVE  Holds(Accumulated(rs), rs)
<1> DEFINE g == InOrderOfCycles(rs)
           n == Cardinality(rs)
           a == Accumulated(rs)
           b == AsAccumulated(Head(g))
<1>1. /\ n \in Nat /\ DOMAIN g = 1..n /\ Range(g) = rs
      /\ \A i, j \in DOMAIN g : g[i] = g[j] => i = j
      /\ g = [i \in 1..n |-> g[i]]
  BY OrderIs DEF OneTransfer
<1> HIDE DEF g
<1>2. n > 0
  <2>1. n # 0
    BY FS_EmptySet DEF OneTransfer
  <2> QED
    BY <1>1, <2>1
<1> HIDE DEF n
<1>3. Rows(g)
  BY <1>1, <1>2, RowsMade
<1>4. g \in Seq(rs) /\ g # <<>> /\ Len(g) = n
  BY <1>1, <1>3 DEF Rows
<1>5. Head(g) = g[1] /\ g[1] \in rs /\ 1 \in 1..n
  BY <1>3, <1>1, <1>2, RowsFacts DEF Range
<1>6. /\ DOMAIN b = PayoutFields /\ GetIdentifier(b) = GetIdentifier(g[1])
      /\ b.valid = g[1].valid /\ b.limits = NoLimits /\ b.recipes = <<g[1]>> /\ b.tx = g[1].tx
      /\ LimitsOK(NoLimits)
  BY <1>5, AsAccumulatedIs
<1>7. <<g[1]>> \o Tail(g) = g
  BY <1>4, HeadAndTail
<1>8. a = [b EXCEPT !.recipes = <<g[1]>> \o Tail(g)]
  BY <1>6 DEF Accumulated, Add, g
<1> HIDE DEF b, a
<1>9. /\ DOMAIN a = PayoutFields /\ a.recipes = g /\ a.limits = NoLimits /\ a.valid = g[1].valid
      /\ a.kind = b.kind /\ a.tx = b.tx /\ a.token = b.token
      /\ a.delegator = b.delegator /\ a.recipient = b.recipient
  BY <1>6, <1>7, <1>8 DEF PayoutFields
<1>10. GetIdentifier(a) = GetIdentifier(g[1])
  <2>1. GetIdentifier(a) = GetIdentifier(b)
    BY <1>9, Zenon DEF GetIdentifier
  <2> QED
    BY <1>6, <2>1
<1>11. a.valid
  BY <1>5, <1>9 DEF OneTransfer
<1>12. Rows(a.recipes) /\ Range(a.recipes) = rs /\ LimitsOK(a.limits)
       /\ \A i, j \in DOMAIN a.recipes : a.recipes[i] = a.recipes[j] => i = j
  BY <1>1, <1>3, <1>6, <1>9
<1>13. \E r \in rs : GetIdentifier(a) = GetIdentifier(r)
  BY <1>5, <1>10
<1>14. DOMAIN a = PayoutFields
  BY <1>9
<1>15. Holds(a, rs)
  BY <1>11, <1>12, <1>13, <1>14, HoldsMade
<1> QED
  BY <1>15 DEF a

(* A payout of a single recipe holds it. *)
LEMMA AloneIs ==
  ASSUME NEW r, RecipeOK(r), r.valid, OfPeriod(r.cycle)
  PROVE  Holds(AsAccumulated(r), {r})
<1> DEFINE a == AsAccumulated(r)
<1>1. /\ DOMAIN a = PayoutFields /\ GetIdentifier(a) = GetIdentifier(r)
      /\ a.valid = r.valid /\ a.limits = NoLimits /\ a.recipes = <<r>> /\ a.tx = r.tx
      /\ LimitsOK(NoLimits)
  BY AsAccumulatedIs
<1> HIDE DEF a
<1>2. OneTransfer({r})
  BY FS_Singleton DEF OneTransfer
<1>3. Range(a.recipes) = {r} /\ DOMAIN a.recipes = {1} /\ a.recipes = [i \in 1..1 |-> a.recipes[i]]
  BY <1>1 DEF Range
<1>4. Rows(a.recipes)
  <2>1. 1 \in Nat /\ 1 > 0
    OBVIOUS
  <2> QED
    BY <1>3, <2>1, RowsMade, Zenon
<1>5. Holds(a, {r})
  BY <1>1, <1>2, <1>3, <1>4, HoldsMade
<1> QED
  BY <1>5 DEF a

(* Recipes shared out in parcels, one payout for each. *)
LEMMA ParcelsKeep ==
  ASSUME BlueprintsInv, PrepInv, stage = "accumulate", stage' \in {"charge", "balance"},
         UNCHANGED <<payable, invalid, past, balance, config, blueprints>>,
         NEW P, IsFiniteSet(P), UNION P = payable,
         \A g, k \in P : g # k => g \cap k = {},
         NEW h, \A g \in P : Holds(h[g], g), payouts' = {h[g] : g \in P}
  PROVE  PrepInv'
<1>1. TypedInv /\ payable \subseteq AllRecipes /\ Accounted(PayoutsOf(payable)) /\ balance.seen = -1
  BY DEF PrepInv, PartsInv, CoverInv
<1>2. Unique(AllRecipes) /\ AllRecipes' = AllRecipes
  BY RecipesOfBlueprints DEF AllRecipes
<1>3. TypedInv'
  <2>1. IsFiniteSet(payouts')
    BY FiniteImage
  <2>2. \A a \in payouts' : PayoutOK(a) /\ a.valid
    BY DEF Holds
  <2> QED
    BY <1>1, <2>1, <2>2 DEF TypedInv
<1>4. \A g \in P : Range(h[g].recipes) = g
  BY DEF Holds
<1>5. RecipesOf(payouts') = payable
  <2>1. \A r : r \in RecipesOf(payouts') <=> \E g \in P : r \in Range(h[g].recipes)
    BY DEF RecipesOf
  <2>2. \A r : r \in payable <=> \E g \in P : r \in g
    OBVIOUS
  <2>3. \A r : r \in RecipesOf(payouts') <=> r \in payable
    BY <1>4, <2>1, <2>2
  <2> QED
    BY <2>3
<1>6. Accounted(PayoutsOf(RecipesOf(payouts)))'
  <2>1. PayoutsOf(RecipesOf(payouts))' = PayoutsOf(payable)
    BY <1>5 DEF PayoutsOf, RecipesOf
  <2>2. \A r : OfBlueprint(r)' <=> OfBlueprint(r)
    BY <1>2 DEF OfBlueprint
  <2> QED
    BY <1>1, <1>2, <2>1, <2>2 DEF Accounted, PayoutsOf, Unique
<1>7. Separate(payouts)'
  <2> SUFFICES ASSUME NEW g \in P, NEW k \in P, h[g] # h[k]
               PROVE  KeysOf(h[g]) \cap KeysOf(h[k]) = {}
    BY DEF Separate
  <2>1. KeysOf(h[g]) = PayoutsOf(g) /\ KeysOf(h[k]) = PayoutsOf(k)
    BY <1>4 DEF KeysOf
  <2>2. g \cap k = {} /\ g \subseteq AllRecipes /\ k \subseteq AllRecipes
    BY <1>1
  <2>3. \A r \in g, q \in k : PayoutOf(r) # PayoutOf(q)
    BY <1>2, <2>2 DEF Unique
  <2> QED
    BY <2>1, <2>3 DEF PayoutsOf
<1>8. \A a \in payouts' : Range(a.recipes) \subseteq AllRecipes'
  BY <1>1, <1>2, <1>4
<1>9. PartsInv'
  BY <1>6, <1>7, <1>8
     DEF PartsInv, OpenStages, WorkStages, DueStages, ChargedStages, PayStages
<1>10. CoverInv'
  BY <1>1 DEF CoverInv, OpenStages, WorkStages
<1> QED
  BY <1>3, <1>9, <1>10 DEF PrepInv

(* Accumulating (1_Accumulate.go). *)
LEMMA AccumulateKeeps ==
  ASSUME BlueprintsInv, PrepInv, AccumulatePayouts, UNCHANGED <<config, blueprints>>
  PROVE  PrepInv'
<1>1. /\ stage = "accumulate" /\ stage' \in {"charge", "balance"}
      /\ UNCHANGED <<payable, invalid, past, balance, config, blueprints>>
  BY DEF AccumulatePayouts
<1>2. IsFiniteSet(payable) /\ payable \subseteq AllRecipes /\ \A r \in payable : RecipeOK(r) /\ r.valid
  BY <1>1 DEF PrepInv, TypedInv, PartsInv
<1>3. Unique(AllRecipes) /\ \A r \in AllRecipes : OfPeriod(r.cycle)
  BY RecipesOfBlueprints
<1>4. CASE payouts' = {Accumulated(group) : group \in Grouped(payable)}
  <2> DEFINE P == Grouped(payable)
             h == [g \in P |-> Accumulated(g)]
             id == [r \in payable |-> {q \in payable : GetIdentifier(q) = GetIdentifier(r)}]
  <2>1. P = {id[r] : r \in payable}
    BY DEF Grouped
  <2>2. IsFiniteSet(P)
    <3> HIDE DEF P, id
    <3> QED
      BY <1>2, <2>1, FiniteImage
  <2>3. \A g \in P : \E r \in payable : g = {q \in payable : GetIdentifier(q) = GetIdentifier(r)}
    BY DEF Grouped
  <2>4. UNION P = payable /\ \A g, k \in P : g # k => g \cap k = {}
    <3>1. \A r \in payable : r \in id[r] /\ id[r] \in P
      BY <2>1
    <3>2. \A g \in P : \A r \in g : r \in payable /\ g = id[r]
      BY <2>3
    <3> HIDE DEF P, id
    <3> QED
      BY <3>1, <3>2
  <2>5. ASSUME NEW g \in P PROVE Holds(h[g], g)
    <3>1. g \in SUBSET payable /\ g # {} /\ \A r, q \in g : GetIdentifier(r) = GetIdentifier(q)
      BY <2>3
    <3>2. \A r, q \in g : r.cycle = q.cycle => r = q
      BY <1>2, <1>3, <3>1, SameDestination DEF Unique
    <3>3. IsFiniteSet(g)
      BY <1>2, <3>1, FS_Subset
    <3>4. OneTransfer(g)
      BY <1>2, <1>3, <3>1, <3>2, <3>3 DEF OneTransfer
    <3> QED
      BY <3>4, AccumulatedIs
  <2>6. payouts' = {h[g] : g \in P}
    BY <1>4
  <2> HIDE DEF P, h
  <2> QED
    BY <1>1, <2>2, <2>4, <2>5, <2>6, ParcelsKeep
<1>5. CASE payouts' = {AsAccumulated(r) : r \in payable}
  <2> DEFINE one == [r \in payable |-> {r}]
             P == {one[r] : r \in payable}
             h == [g \in P |-> AsAccumulated(CHOOSE r : r \in g)]
  <2>1. \A r \in payable : one[r] = {r} /\ one[r] \in P /\ h[one[r]] = AsAccumulated(r)
    OBVIOUS
  <2>2. IsFiniteSet(P)
    <3> HIDE DEF one
    <3> QED
      BY <1>2, FiniteImage
  <2>3. \A g \in P : \E r \in payable : g = {r} /\ g = one[r]
    OBVIOUS
  <2> HIDE DEF P, h, one
  <2>4. UNION P = payable /\ \A g, k \in P : g # k => g \cap k = {}
    BY <2>1, <2>3
  <2>5. ASSUME NEW g \in P PROVE Holds(h[g], g)
    <3>1. PICK r \in payable : g = {r} /\ g = one[r]
      BY <2>3
    <3>2. Holds(AsAccumulated(r), {r})
      BY <1>2, <1>3, AloneIs
    <3> QED
      BY <2>1, <3>1, <3>2
  <2>6. payouts' = {h[g] : g \in P}
    BY <1>5, <2>1, <2>3
  <2> QED
    BY <1>1, <2>2, <2>4, <2>5, <2>6, ParcelsKeep
<1> QED
  BY <1>4, <1>5 DEF AccumulatePayouts

-----------------------------------------------------------------------------
(* The balance.                                                            *)

(* A payout's amount and fee are not negative. *)
LEMMA SumsNat ==
  ASSUME NEW a, PayoutOK(a)
  PROVE  GetAmount(a) \in Nat /\ GetTxFee(a) \in Nat
<1>1. RecipesPaid(a)
  BY DEF PayoutOK, RecipesPaid
<1>2. 0 \in Nat
  OBVIOUS
<1> DEFINE b == AddTxFee(a, 0, FALSE)
<1>3. /\ Follows(a, b) /\ RecipesPaid(b) /\ b.limits = a.limits
      /\ GetAmount(a) \in Nat /\ GetTxFee(a) \in Nat
      /\ GetAmount(b) \in Nat
      /\ GetAmount(b) = GetAmount(a) - TakenOf(a, 0, FALSE)
      /\ GetTxFee(b) = GetTxFee(a) + PaidOf(a, 0, FALSE)
  BY <1>1, <1>2, FeeAdded, Zenon
<1> QED
  BY <1>3

TezAmount(a) == IF a.tx = "tez" THEN GetAmount(a) ELSE 0

(* Nor is what it sends in tez. *)
LEMMA TezAmountNat ==
  ASSUME NEW a, PayoutOK(a)
  PROVE  TezAmount(a) \in Nat /\ TezAmount(a) <= GetAmount(a) + GetTxFee(a)
<1>1. GetAmount(a) \in Nat /\ GetTxFee(a) \in Nat
  BY SumsNat
<1> DEFINE x == GetAmount(a)
           y == GetTxFee(a)
<1>2. x \in Nat /\ y \in Nat /\ TezAmount(a) \in {x, 0}
  BY <1>1 DEF TezAmount
<1> HIDE DEF x, y
<1>3. TezAmount(a) \in Nat /\ TezAmount(a) <= x + y
  BY <1>2
<1> QED
  BY <1>3 DEF x, y

(* As much more for each member. *)
LEMMA SumMore ==
  ASSUME NEW T, NEW W, NEW S, IsFiniteSet(S), NEW c \in Int,
         \A x \in S : T[x] \in Int /\ W[x] = T[x] + c
  PROVE  SumFunctionOnSet(W, S) = SumFunctionOnSet(T, S) + c * Cardinality(S)
<1> DEFINE B == [x \in S |-> c]
<1>1. \A x \in S : B[x] = c
  OBVIOUS
<1> HIDE DEF B
<1>2. \A x \in S : T[x] \in Int /\ B[x] \in Int /\ W[x] = T[x] + B[x]
  BY <1>1, Zenon
<1>3. SumFunctionOnSet(W, S) = SumFunctionOnSet(T, S) + SumFunctionOnSet(B, S)
  BY <1>2, SumPlus
<1>4. SumFunctionOnSet(B, S) = c * Cardinality(S)
  BY <1>1, SumConstant
<1> QED
  BY <1>3, <1>4, Zenon

(* What is sent in tez, with the buffers, is one sum. *)
LEMMA BufferedIs ==
  ASSUME NEW ps, IsFiniteSet(ps), \A a \in ps : PayoutOK(a)
  PROVE  /\ \A a \in ps : TezAmount(a) + FeeBuffer \in Nat
         /\ Buffered(ps) = SumFunctionOnSet([a \in ps |-> TezAmount(a) + FeeBuffer], ps)
         /\ SumFunctionOnSet([a \in ps |-> TezAmount(a)], ps) \in Nat
         /\ Buffered(ps) = SumFunctionOnSet([a \in ps |-> TezAmount(a)], ps)
                              + FeeBuffer * Cardinality(ps)
<1> DEFINE W == [a \in ps |-> TezAmount(a) + FeeBuffer]
           T == [a \in ps |-> TezAmount(a)]
<1>1. FeeBuffer \in Nat
  BY FeeBufferAssumption
<1>2. \A a \in ps : TezAmount(a) \in Nat
  BY TezAmountNat
<1>3. \A a \in ps : T[a] = TezAmount(a) /\ W[a] = TezAmount(a) + FeeBuffer
  BY Zenon
<1>4. \A a \in ps : TezAmount(a) + FeeBuffer \in Nat
  <2>1. \A x \in Nat : x + FeeBuffer \in Nat
    BY <1>1
  <2> QED
    BY <1>2, <2>1, Zenon
<1>5. Buffered(ps) = SumFunctionOnSet(T, ps) + FeeBuffer * Cardinality(ps)
  BY Zenon DEF Buffered, TezAmount
<1> HIDE DEF W, T
<1>6. SumFunctionOnSet(W, ps) = SumFunctionOnSet(T, ps) + FeeBuffer * Cardinality(ps)
  <2>1. FeeBuffer \in Int /\ \A n \in Nat : n \in Int
    BY <1>1
  <2>2. \A a \in ps : T[a] \in Int /\ W[a] = T[a] + FeeBuffer
    BY <1>2, <1>3, <2>1, Zenon
  <2> QED
    BY <2>1, <2>2, SumMore
<1>8. SumFunctionOnSet(T, ps) \in Nat
  <2>1. \A a \in ps : T[a] \in Nat
    BY <1>2, <1>3
  <2> QED
    BY <2>1, SumNat
<1> QED
  BY <1>4, <1>5, <1>6, <1>8, Zenon DEF W, T

(* The balance needed is at least that. *)
LEMMA RequiredCovers ==
  ASSUME NEW ps, IsFiniteSet(ps), \A a \in ps : PayoutOK(a), ConfigOK(config)
  PROVE  RequiredBalance(ps) \in Int /\ Buffered(ps) <= RequiredBalance(ps)
<1> DEFINE N == [a \in ps |-> GetAmount(a) + GetTxFee(a)]
           tez == OfKindTez(ps)
           M == [a \in tez |-> GetAmount(a) + GetTxFee(a)]
           T == [a \in ps |-> TezAmount(a)]
           n == Cardinality(ps)
           x == Cardinality(DOMAIN config.bonds)
           y == Cardinality(DOMAIN config.fees)
           z == Larger(Cardinality(DOMAIN config.donations), 1)
           count == n + x + y + z
<1>1. n \in Nat /\ x \in Nat /\ y \in Nat /\ z \in Nat
  <2>1. /\ IsFiniteSet(DOMAIN config.bonds) /\ IsFiniteSet(DOMAIN config.fees)
        /\ IsFiniteSet(DOMAIN config.donations)
    BY DEF ConfigOK, SharesOK
  <2>2. Cardinality(DOMAIN config.donations) \in Nat /\ x \in Nat /\ y \in Nat /\ n \in Nat
    BY <2>1, FS_CardinalityType
  <2> DEFINE d == Cardinality(DOMAIN config.donations)
  <2>3. d \in Nat /\ z = Larger(d, 1)
    BY <2>2
  <2> HIDE DEF d
  <2>4. Larger(d, 1) \in Nat
    BY <2>3 DEF Larger
  <2> QED
    BY <2>2, <2>3, <2>4
<1>2. tez \in SUBSET ps /\ \A a \in tez : a.tx = "tez"
  BY DEF OfKindTez
<1>3. IsFiniteSet(tez)
  BY <1>2, FS_Subset
<1>4. \A a \in tez : M[a] \in Int /\ T[a] \in Int /\ T[a] <= M[a]
  <2> SUFFICES ASSUME NEW a \in tez PROVE M[a] \in Int /\ T[a] \in Int /\ T[a] <= M[a]
    OBVIOUS
  <2>1. a \in ps
    BY <1>2
  <2>2. GetAmount(a) \in Nat /\ GetTxFee(a) \in Nat
    BY <2>1, SumsNat
  <2>3. TezAmount(a) \in Nat /\ TezAmount(a) <= GetAmount(a) + GetTxFee(a)
    BY <2>1, TezAmountNat
  <2>4. M[a] = GetAmount(a) + GetTxFee(a) /\ T[a] = TezAmount(a)
    BY <2>1, Zenon
  <2>5. \A u, v \in Nat : u + v \in Int
    OBVIOUS
  <2>6. M[a] \in Int
    BY <2>2, <2>4, <2>5, Zenon
  <2>7. \A u \in Nat : u \in Int
    OBVIOUS
  <2> QED
    BY <2>3, <2>4, <2>6, <2>7, Zenon
<1>5. RequiredBalance(ps) = SumFunctionOnSet(M, tez) + FeeBuffer * count
  BY Zenon DEF RequiredBalance, Total
<1>6. /\ Buffered(ps) = SumFunctionOnSet(T, ps) + FeeBuffer * n
      /\ SumFunctionOnSet(T, ps) \in Nat
  BY BufferedIs
<1>7. SumFunctionOnSet(T, ps) = SumFunctionOnSet(T, tez)
  <2>1. \A a \in ps : T[a] \in Int
    <3>1. \A a \in ps : TezAmount(a) \in Nat
      BY TezAmountNat
    <3>2. \A u \in Nat : u \in Int
      OBVIOUS
    <3> QED
      BY <3>1, <3>2, Zenon
  <2>2. \A a \in ps \ tez : T[a] = 0
    BY DEF TezAmount, OfKindTez
  <2> HIDE DEF T, tez
  <2> QED
    BY <1>2, <2>1, <2>2, SumRest
<1> HIDE DEF M, T, tez, n, x, y, z
<1>8. SumFunctionOnSet(T, tez) <= SumFunctionOnSet(M, tez)
  BY <1>3, <1>4, SumLeq
<1>9. SumFunctionOnSet(M, tez) \in Int /\ SumFunctionOnSet(T, tez) \in Int
  BY <1>3, <1>4, SumInt
<1>10. FeeBuffer * n \in Nat /\ FeeBuffer * count \in Nat /\ FeeBuffer * n <= FeeBuffer * count
  <2>1. \A f \in Nat, p \in Nat, q \in Nat :
           f * p \in Nat /\ f * q \in Nat /\ f * (p + q) = f * p + f * q
    OBVIOUS
  <2> DEFINE q == x + y + z
  <2>2. q \in Nat /\ count = n + q
    BY <1>1
  <2> HIDE DEF q, count
  <2>3. /\ FeeBuffer * n \in Nat /\ FeeBuffer * q \in Nat
        /\ FeeBuffer * (n + q) = FeeBuffer * n + FeeBuffer * q
    BY <1>1, <2>1, <2>2, FeeBufferAssumption
  <2> QED
    BY <2>2, <2>3
<1> DEFINE m == SumFunctionOnSet(M, tez)
           t == SumFunctionOnSet(T, tez)
           p == FeeBuffer * n
           q == FeeBuffer * count
           req == RequiredBalance(ps)
           buf == Buffered(ps)
<1>11. m \in Int /\ t \in Int /\ t <= m /\ p \in Nat /\ q \in Nat /\ p <= q /\ req = m + q /\ buf = t + p
  BY <1>5, <1>6, <1>7, <1>8, <1>9, <1>10, Zenon
<1> HIDE DEF m, t, p, q, req, buf
<1>12. req \in Int /\ buf <= req
  BY <1>11
<1> QED
  BY <1>12 DEF req, buf

(* Values that come each from another one, no smaller, have no larger sum. *)
LEMMA SumFrom ==
  ASSUME NEW ps, IsFiniteSet(ps), NEW bs, IsFiniteSet(bs), NEW W, NEW V, NEW from,
         \A a \in ps : W[a] \in Nat,
         \A c \in bs : from[c] \in ps /\ V[c] \in Nat /\ V[c] <= W[from[c]],
         \A c, d \in bs : from[c] = from[d] => c = d
  PROVE  SumFunctionOnSet(V, bs) <= SumFunctionOnSet(W, ps)
<1> DEFINE U == [c \in bs |-> W[from[c]]]
           Im == {from[c] : c \in bs}
<1>1. \A c \in bs : U[c] = W[from[c]]
  OBVIOUS
<1> HIDE DEF U
<1>2. \A c \in bs : U[c] \in Int /\ V[c] \in Int /\ V[c] <= U[c] /\ W[from[c]] = U[c]
  <2>1. \A x \in Nat : x \in Int
    OBVIOUS
  <2> QED
    BY <1>1, <2>1, Zenon
<1>3. SumFunctionOnSet(V, bs) <= SumFunctionOnSet(U, bs)
  BY <1>2, SumLeq
<1>4. SumFunctionOnSet(W, Im) = SumFunctionOnSet(U, bs)
  BY <1>2, SumImage
<1>5. Im \in SUBSET ps
  OBVIOUS
<1> HIDE DEF Im
<1>6. SumFunctionOnSet(W, Im) <= SumFunctionOnSet(W, ps)
  BY <1>5, SumSubset
<1>7. /\ SumFunctionOnSet(V, bs) \in Int /\ SumFunctionOnSet(W, ps) \in Int
      /\ SumFunctionOnSet(U, bs) \in Int
  <2>1. \A a \in ps : W[a] \in Int
    <3>1. \A x \in Nat : x \in Int
      OBVIOUS
    <3> QED
      BY <3>1, Zenon
  <2> QED
    BY <1>2, <2>1, SumInt
<1> DEFINE v == SumFunctionOnSet(V, bs)
           u == SumFunctionOnSet(U, bs)
           w == SumFunctionOnSet(W, ps)
<1>8. v <= u /\ u <= w /\ v \in Int /\ w \in Int /\ u \in Int
  BY <1>3, <1>4, <1>6, <1>7, Zenon
<1> HIDE DEF v, u, w
<1>9. v <= w
  BY <1>8
<1> QED
  BY <1>9 DEF v, w

(* Payouts that remain, for no more than before, need no more. *)
LEMMA BufferedKept ==
  ASSUME NEW ps, IsFiniteSet(ps), \A a \in ps : PayoutOK(a),
         NEW bs, IsFiniteSet(bs), \A c \in bs : PayoutOK(c), NEW h,
         \A c \in bs : \E a \in ps : c = h[a] /\ c.tx = a.tx /\ GetAmount(c) <= GetAmount(a)
  PROVE  Buffered(bs) <= Buffered(ps) /\ Buffered(bs) \in Nat /\ Buffered(ps) \in Nat
<1> DEFINE W == [a \in ps |-> TezAmount(a) + FeeBuffer]
           V == [c \in bs |-> TezAmount(c) + FeeBuffer]
           from == [c \in bs |-> CHOOSE a \in ps : c = h[a] /\ c.tx = a.tx
                                                   /\ GetAmount(c) <= GetAmount(a)]
<1>1. Buffered(ps) = SumFunctionOnSet(W, ps) /\ \A a \in ps : W[a] \in Nat
  BY BufferedIs
<1>2. Buffered(bs) = SumFunctionOnSet(V, bs) /\ \A c \in bs : V[c] \in Nat
  BY BufferedIs
<1>3. ASSUME NEW c \in bs
      PROVE  from[c] \in ps /\ c = h[from[c]] /\ c.tx = from[c].tx
             /\ GetAmount(c) <= GetAmount(from[c])
  BY <1>3
<1> HIDE DEF from
<1>4. \A c, d \in bs : from[c] = from[d] => c = d
  BY <1>3
<1>5. ASSUME NEW c \in bs PROVE V[c] <= W[from[c]]
  <2> DEFINE a == from[c]
  <2>1. a \in ps /\ c.tx = a.tx /\ GetAmount(c) <= GetAmount(a)
    BY <1>3
  <2>2. TezAmount(c) \in Nat /\ TezAmount(a) \in Nat
    BY <2>1, TezAmountNat
  <2>3. TezAmount(c) <= TezAmount(a)
    BY <2>1, <2>2 DEF TezAmount
  <2>4. W[a] = TezAmount(a) + FeeBuffer /\ V[c] = TezAmount(c) + FeeBuffer
    BY <2>1
  <2>5. \A x, y \in Nat : x <= y => x + FeeBuffer <= y + FeeBuffer
    BY FeeBufferAssumption
  <2> HIDE DEF a, W, V
  <2>6. V[c] <= W[a]
    BY <2>2, <2>3, <2>4, <2>5, Zenon
  <2> QED
    BY <2>6 DEF a
<1> HIDE DEF W, V
<1>6. SumFunctionOnSet(V, bs) <= SumFunctionOnSet(W, ps)
  BY <1>1, <1>2, <1>3, <1>4, <1>5, SumFrom
<1>7. SumFunctionOnSet(V, bs) \in Nat /\ SumFunctionOnSet(W, ps) \in Nat
  BY <1>1, <1>2, SumNat
<1> QED
  BY <1>1, <1>2, <1>6, <1>7

-----------------------------------------------------------------------------
(* The balance check and the fees.                                         *)

(* The charge of a payout is settled by the configuration and the          *)
(* blueprints.                                                             *)
LEMMA ChargedStays ==
  ASSUME UNCHANGED <<config, blueprints>>
  PROVE  AllRecipes' = AllRecipes /\ \A a : Charged(a)' <=> Charged(a)
<1>1. AllRecipes' = AllRecipes
  BY DEF AllRecipes
<1>2. \A r : Original(r)' = Original(r) /\ (OfBlueprint(r)' <=> OfBlueprint(r))
  BY <1>1 DEF Original, OfBlueprint
<1>3. \A a : TakenFrom(a)' = TakenFrom(a)
  BY <1>2, Zenon DEF TakenFrom, Total
<1>4. \A a, field : IsBakerPaying(a, field)' = IsBakerPaying(a, field)
  BY DEF IsBakerPaying, OverrideOf
<1>5. \A a : ChargedExactly(a)' <=> ChargedExactly(a)
  BY <1>3, <1>4, Zenon DEF ChargedExactly
<1> QED
  BY <1>1, <1>2, <1>5, Zenon DEF Charged

(* Nor is the required balance. *)
LEMMA BufferedNat ==
  ASSUME NEW ps, IsFiniteSet(ps), \A a \in ps : PayoutOK(a)
  PROVE  Buffered(ps) \in Nat
<1> DEFINE W == [a \in ps |-> TezAmount(a) + FeeBuffer]
<1>1. \A a \in ps : TezAmount(a) + FeeBuffer \in Nat
  BY BufferedIs
<1>2. \A a \in ps : W[a] = TezAmount(a) + FeeBuffer
  OBVIOUS
<1>3. Buffered(ps) = SumFunctionOnSet(W, ps)
  BY BufferedIs
<1> HIDE DEF W
<1>4. \A a \in ps : W[a] \in Nat
  BY <1>1, <1>2, Zenon
<1>5. SumFunctionOnSet(W, ps) \in Nat
  BY <1>4, SumNat
<1> QED
  BY <1>3, <1>5, Zenon

(* Steps that leave the payouts alone. *)
LEMMA SameParts ==
  ASSUME PrepInv, UNCHANGED <<payable, payouts, invalid, past, config, blueprints>>
  PROVE  /\ TypedInv' /\ AllRecipes' = AllRecipes
         /\ \A a : Charged(a)' <=> Charged(a)
         /\ Accounted(PayoutsOf(RecipesOf(payouts))) => Accounted(PayoutsOf(RecipesOf(payouts)))'
         /\ Accounted(PayoutsOf(payable)) => Accounted(PayoutsOf(payable))'
         /\ Separate(payouts)' <=> Separate(payouts)
         /\ Buffered(payouts)' = Buffered(payouts)
<1>1. TypedInv'
  BY DEF PrepInv, TypedInv
<1>2. AllRecipes' = AllRecipes /\ \A a : Charged(a)' <=> Charged(a)
  BY ChargedStays
<1>3. \A r : OfBlueprint(r)' <=> OfBlueprint(r)
  BY <1>2 DEF OfBlueprint
<1>4. /\ Accounted(PayoutsOf(RecipesOf(payouts))) => Accounted(PayoutsOf(RecipesOf(payouts)))'
      /\ Accounted(PayoutsOf(payable)) => Accounted(PayoutsOf(payable))'
  BY <1>2, <1>3 DEF Accounted
<1> QED
  BY <1>1, <1>2, <1>4

(* A step of the payment, one that ends the run, and those of the          *)
(* generation leave it all.                                                *)
LEMMA PrepStays ==
  ASSUME PrepInv, UNCHANGED <<payable, payouts, invalid, past, config, blueprints>>,
         balance'.seen = balance.seen,
         \/ stage' \in {stage, "failed", "panicked"}
         \/ stage \in ChargedStages /\ stage' \in ChargedStages
  PROVE  PrepInv'
<1>1. /\ TypedInv' /\ AllRecipes' = AllRecipes
      /\ \A a : Charged(a)' <=> Charged(a)
      /\ Accounted(PayoutsOf(RecipesOf(payouts))) => Accounted(PayoutsOf(RecipesOf(payouts)))'
      /\ Accounted(PayoutsOf(payable)) => Accounted(PayoutsOf(payable))'
      /\ Separate(payouts)' <=> Separate(payouts)
      /\ Buffered(payouts)' = Buffered(payouts)
  BY SameParts
<1>2. /\ stage' \in OpenStages \cup {"prepare"} => stage \in OpenStages \cup {"prepare"}
      /\ stage' = "accumulate" => stage = "accumulate"
      /\ stage' \in ChargedStages => stage \in ChargedStages
      /\ stage' \in DueStages => stage \in DueStages
      /\ stage' \in {"balance", "charge"} => stage \in {"balance", "charge"}
      /\ stage' = "charge" => stage = "charge"
  BY DEF OpenStages, WorkStages, ChargedStages, DueStages, PayStages
<1>3. PartsInv'
  BY <1>1, <1>2 DEF PrepInv, PartsInv
<1>4. CoverInv'
  BY <1>1, <1>2 DEF PrepInv, CoverInv
<1> QED
  BY <1>1, <1>3, <1>4 DEF PrepInv

(* The generation has nothing of the preparation yet. *)
LEMMA NothingYet ==
  ASSUME PrepInv, stage \in OpenStages, stage' \in OpenStages \cup {"prepare", "failed", "panicked"},
         UNCHANGED prepVars
  PROVE  PrepInv'
<1>1. /\ payable' = {} /\ payouts' = {} /\ invalid' = {} /\ past' = {} /\ balance'.seen = -1
  BY DEF PrepInv, PartsInv, CoverInv, prepVars
<1>2. stage' \notin DueStages /\ stage' # "accumulate" /\ stage' \notin {"balance", "charge"}
      /\ stage' \notin ChargedStages
  BY DEF OpenStages, WorkStages, ChargedStages, DueStages, PayStages
<1>3. TypedInv'
  BY <1>1 DEF PrepInv, TypedInv, prepVars
<1>4. PartsInv'
  BY <1>1, <1>2 DEF PartsInv
<1>5. CoverInv'
  BY <1>1, <1>2 DEF CoverInv
<1> QED
  BY <1>3, <1>4, <1>5 DEF PrepInv

(* The last check of the balance passed. *)
LEMMA SufficientKeeps ==
  ASSUME PrepInv, stage = "balance", stage' = "charge",
         UNCHANGED <<payable, payouts, invalid, past, config, blueprints>>,
         balance'.seen \in Int, balance'.seen >= 0 => Buffered(payouts) < balance'.seen
  PROVE  PrepInv'
<1>1. /\ TypedInv' /\ AllRecipes' = AllRecipes
      /\ Accounted(PayoutsOf(RecipesOf(payouts))) => Accounted(PayoutsOf(RecipesOf(payouts)))'
      /\ Separate(payouts)' <=> Separate(payouts)
      /\ Buffered(payouts)' = Buffered(payouts)
  BY SameParts
<1>2. /\ stage \in DueStages /\ stage' \notin OpenStages \cup {"prepare", "accumulate"}
      /\ stage' \notin ChargedStages
  BY DEF OpenStages, WorkStages, ChargedStages, DueStages, PayStages
<1>3. PartsInv'
  BY <1>1, <1>2 DEF PrepInv, PartsInv
<1>4. CoverInv'
  BY <1>1, <1>2 DEF CoverInv
<1> QED
  BY <1>1, <1>3, <1>4 DEF PrepInv

(* Once charged: what each step makes of the payouts. *)
LEMMA ChargingKeeps ==
  ASSUME PrepInv, NEW h, \A a \in payouts : Becomes(a, h[a]),
         \A a \in payouts : h[a].valid =>
            Charged(h[a]) /\ h[a].tx = a.tx /\ GetAmount(h[a]) <= GetAmount(a),
         KeepValid({h[a] : a \in payouts}),
         UNCHANGED <<payable, past, balance, blueprints, config>>,
         stage \in {"charge"} \cup ChargedStages, stage' \in ChargedStages
  PROVE  PrepInv'
<1>1. TypedInv /\ Accounted(PayoutsOf(RecipesOf(payouts))) /\ Separate(payouts)
  BY DEF PrepInv, PartsInv, DueStages
<1>2. /\ TypedInv' /\ Accounted(PayoutsOf(RecipesOf(payouts)))' /\ Separate(payouts)'
      /\ \A c \in payouts' : c.valid /\ \E a \in payouts : c = h[a]
      /\ IsFiniteSet(payouts)
  BY <1>1, Kept
<1>3. stage' \notin OpenStages \cup {"prepare", "accumulate"} /\ stage' \notin {"balance", "charge"}
  BY DEF OpenStages, WorkStages, ChargedStages, PayStages
<1>4. \A c \in payouts' : Charged(c)
  BY <1>2
<1>5. \A c \in payouts' : Charged(c)'
  BY <1>4, ChargedStays
<1>6. PartsInv'
  BY <1>2, <1>3, <1>5 DEF PartsInv
<1>7. Buffered(payouts') <= Buffered(payouts) /\ Buffered(payouts') \in Nat /\ Buffered(payouts) \in Nat
  <2>1. \A c \in payouts' : \E a \in payouts : c = h[a] /\ c.tx = a.tx /\ GetAmount(c) <= GetAmount(a)
    BY <1>2
  <2>2. /\ IsFiniteSet(payouts) /\ \A a \in payouts : PayoutOK(a)
        /\ IsFiniteSet(payouts') /\ \A c \in payouts' : PayoutOK(c)
    BY <1>1, <1>2 DEF TypedInv
  <2> QED
    BY <2>1, <2>2, BufferedKept
<1>8. CoverInv'
  <2> DEFINE x == Buffered(payouts')
             y == Buffered(payouts)
             z == balance.seen
  <2>1. z \in Int /\ (z >= 0 => y < z)
    BY DEF PrepInv, CoverInv
  <2>2. x <= y /\ x \in Nat /\ y \in Nat
    BY <1>7
  <2>3. balance'.seen = z
    OBVIOUS
  <2> HIDE DEF x, y, z
  <2>4. z >= 0 => x < z
    BY <2>1, <2>2
  <2>5. balance'.seen \in Int /\ (balance'.seen >= 0 => Buffered(payouts') < balance'.seen)
    BY <2>1, <2>3, <2>4 DEF x
  <2> QED
    BY <1>3, <2>5 DEF CoverInv
<1> QED
  BY <1>2, <1>6, <1>8 DEF PrepInv

(* Charging the fees of the transfers (3_CollectTransactionFees.go). *)
LEMMA CollectKeeps ==
  ASSUME BlueprintsInv, PrepInv, CollectTransactionFees, UNCHANGED <<config, blueprints>>
  PROVE  PrepInv'
<1>1. PICK costs \in Costs, refused \in SUBSET payouts :
         KeepValid({WithFees(a, costs, refused) : a \in payouts})
  BY DEF CollectTransactionFees
<1> DEFINE h == [a \in payouts |-> WithFees(a, costs, refused)]
<1>2. \A a \in payouts : h[a] = WithFees(a, costs, refused)
  OBVIOUS
<1>3. {h[a] : a \in payouts} = {WithFees(a, costs, refused) : a \in payouts}
  OBVIOUS
<1> HIDE DEF h
<1>4. KeepValid({h[a] : a \in payouts})
  BY <1>1, <1>3, Zenon
<1>5. Unique(AllRecipes) /\ \A r \in AllRecipes : RecipeOK(r)
  BY RecipesOfBlueprints
<1>6. ASSUME NEW a \in payouts
      PROVE  /\ Becomes(a, h[a])
             /\ h[a].valid => Charged(h[a]) /\ h[a].tx = a.tx /\ GetAmount(h[a]) <= GetAmount(a)
  <2>1. PayoutOK(a) /\ a.valid /\ Range(a.recipes) \subseteq AllRecipes
    BY DEF PrepInv, TypedInv, PartsInv, CollectTransactionFees
  <2> DEFINE c == WithFees(a, costs, refused)
  <2>2. /\ Becomes(a, c)
        /\ c.valid => Charged(c) /\ c.tx = a.tx /\ GetAmount(c) <= GetAmount(a)
    BY <1>5, <2>1, FeesMade
  <2> QED
    BY <1>2, <2>2, Zenon
<1>7. /\ UNCHANGED <<payable, past, balance>>
      /\ stage = "charge" /\ stage' = "validate prepared"
  BY DEF CollectTransactionFees
<1> QED
  BY <1>4, <1>6, <1>7, ChargingKeeps DEF ChargedStages

(* Sorting out what became invalid (4_Validate.go). *)
LEMMA PreparedKeeps ==
  ASSUME PrepInv, ValidatePreparedPayouts, UNCHANGED <<config, blueprints>>
  PROVE  PrepInv'
<1> DEFINE h == [a \in payouts |-> ValidatePrepared(a)]
<1>1. \A a \in payouts : h[a] = ValidatePrepared(a)
  OBVIOUS
<1>2. {h[a] : a \in payouts} = {ValidatePrepared(a) : a \in payouts}
  OBVIOUS
<1> HIDE DEF h
<1>3. KeepValid({h[a] : a \in payouts})
  BY <1>2 DEF ValidatePreparedPayouts
<1>4. /\ UNCHANGED <<payable, past, balance>>
      /\ stage = "validate prepared" /\ stage' = "prepared"
  BY DEF ValidatePreparedPayouts
<1>5. stage \in ChargedStages /\ stage' \in ChargedStages
  BY <1>4 DEF ChargedStages, PayStages
<1>6. ASSUME NEW a \in payouts
      PROVE  /\ Becomes(a, h[a])
             /\ h[a].valid => Charged(h[a]) /\ h[a].tx = a.tx /\ GetAmount(h[a]) <= GetAmount(a)
  <2>1. PayoutOK(a) /\ Charged(a)
    BY <1>5 DEF PrepInv, TypedInv, PartsInv
  <2>2. \A i \in DOMAIN a.recipes : OfBlueprint(a.recipes[i])
    BY <2>1 DEF Charged
  <2> DEFINE c == ValidatePrepared(a)
  <2>3. Becomes(a, c) /\ (c.valid => c = a)
    BY <2>1, <2>2, MinimumKept
  <2>4. GetAmount(a) <= GetAmount(a)
    BY <2>1, SumsNat
  <2> QED
    BY <1>1, <2>1, <2>3, <2>4, Zenon
<1> QED
  BY <1>3, <1>4, <1>5, <1>6, ChargingKeeps
=============================================================================
