------------------------ MODULE PayoutRecipes_proofs ------------------------
(***************************************************************************)
(* What the totals of PayoutRecipes compute, and what follows for the      *)
(* operations on recipes, payouts and reports.                             *)
(***************************************************************************)
EXTENDS PayoutRecipes, FiniteSetTheorems, TLAPS

-----------------------------------------------------------------------------
(* Induction.  A set of subsets stands for the property of a subset: that  *)
(* needs no operator as a parameter.                                       *)

(* A nonempty set of subsets of a finite set has a minimal member. *)
LEMMA MinimalSubset ==
  ASSUME NEW S, IsFiniteSet(S), NEW Bad \in SUBSET SUBSET S, Bad # {}
  PROVE  \E T \in Bad : \A U \in SUBSET T : U # T => U \notin Bad
<1>1. IsWellFoundedOn(StrictSubsetOrdering(S), FiniteSubsetsOf(S))
  BY FS_StrictSubsetOrderingWellFounded
<1>2. Bad \subseteq FiniteSubsetsOf(S)
  BY FS_FiniteSubsetsOfFinite
<1>3. PICK T \in Bad : \A U \in Bad : ~(<<U, T>> \in StrictSubsetOrdering(S))
  BY <1>1, <1>2, WFMin
<1> QED
  BY <1>3 DEF StrictSubsetOrdering

(* What holds of the empty set and of one element more holds of the set. *)
LEMMA SubsetInduction ==
  ASSUME NEW S, IsFiniteSet(S), NEW Good, {} \in Good,
         \A T \in SUBSET S : \A x \in S \ T : T \in Good => T \cup {x} \in Good
  PROVE  S \in Good
<1> SUFFICES ASSUME S \notin Good PROVE FALSE
  OBVIOUS
<1> DEFINE Bad == {T \in SUBSET S : T \notin Good}
<1>1. PICK T \in Bad : \A U \in SUBSET T : U # T => U \notin Bad
  <2>1. Bad \in SUBSET SUBSET S /\ Bad # {}
    OBVIOUS
  <2> HIDE DEF Bad
  <2> QED
    BY <2>1, MinimalSubset
<1>2. PICK x : x \in T
  OBVIOUS
<1>3. T \ {x} \in Good
  BY <1>1, <1>2
<1>4. (T \ {x}) \cup {x} = T
  BY <1>2
<1>5. (T \ {x}) \cup {x} \in Good
  <2>1. T \ {x} \in SUBSET S /\ x \in S \ (T \ {x})
    BY <1>2
  <2> HIDE DEF Bad
  <2> QED
    BY <1>3, <2>1, Zenon
<1> QED
  BY <1>4, <1>5

-----------------------------------------------------------------------------
(* The fold of a sum is its recursion, which has a solution.               *)

Pick(s) == CHOOSE x \in s : TRUE

Solves(g, F, S) ==
    g = [s \in SUBSET S |-> IF s = {} THEN 0 ELSE F[Pick(s)] + g[s \ {Pick(s)}]]

Solution(F, S) == CHOOSE g : Solves(g, F, S)

(* The element a fold takes next is one of the set. *)
LEMMA PickIn == \A s : s # {} => Pick(s) \in s
  BY DEF Pick

(* The library's sum is a solution of the recursion it is defined by. *)
LEMMA SumIsSolution == \A F, S : SumFunctionOnSet(F, S) = Solution(F, S)[S]
  BY Zenon DEF SumFunctionOnSet, FoldFunctionOnSet, MapThenFoldSet, Solution, Solves, Pick

(* What a solution is of the empty set and of the others. *)
LEMMA SolutionValue ==
  ASSUME NEW g, NEW F, NEW S, Solves(g, F, S)
  PROVE  /\ g[{}] = 0
         /\ \A s \in SUBSET S : s # {} => g[s] = F[Pick(s)] + g[s \ {Pick(s)}]
<1>1. \A s \in SUBSET S : g[s] = IF s = {} THEN 0 ELSE F[Pick(s)] + g[s \ {Pick(s)}]
  BY Zenon DEF Solves
<1>2. {} \in SUBSET S
  OBVIOUS
<1> QED
  BY <1>1, <1>2

(* Two solutions agree wherever both are defined. *)
LEMMA SolutionsAgree ==
  ASSUME NEW g, NEW h, NEW F, NEW S, NEW T, IsFiniteSet(S), T \subseteq S,
         Solves(g, F, S), Solves(h, F, T)
  PROVE  g[T] = h[T]
<1> SUFFICES ASSUME g[T] # h[T] PROVE FALSE
  OBVIOUS
<1> DEFINE Bad == {U \in SUBSET T : g[U] # h[U]}
<1>1. PICK U \in Bad : \A V \in SUBSET U : V # U => V \notin Bad
  <2>1. Bad \in SUBSET SUBSET T /\ Bad # {} /\ IsFiniteSet(T)
    BY FS_Subset
  <2> HIDE DEF Bad
  <2> QED
    BY <2>1, MinimalSubset
<1>2. U # {}
  BY SolutionValue
<1>3. Pick(U) \in U
  BY <1>2, PickIn
<1>4. g[U \ {Pick(U)}] = h[U \ {Pick(U)}]
  BY <1>1, <1>3
<1>5. g[U] = F[Pick(U)] + g[U \ {Pick(U)}] /\ h[U] = F[Pick(U)] + h[U \ {Pick(U)}]
  BY <1>2, SolutionValue
<1> QED
  BY <1>4, <1>5

(* The recursion over the subsets of a finite set has a solution. *)
LEMMA SolutionExists ==
  ASSUME NEW F, NEW S, IsFiniteSet(S)
  PROVE  Solves(Solution(F, S), F, S)
<1> SUFFICES ASSUME ~Solves(Solution(F, S), F, S) PROVE FALSE
  OBVIOUS
<1> DEFINE Bad == {T \in SUBSET S : ~Solves(Solution(F, T), F, T)}
<1>1. PICK T \in Bad : \A U \in SUBSET T : U # T => U \notin Bad
  <2>1. Bad \in SUBSET SUBSET S /\ Bad # {}
    OBVIOUS
  <2> HIDE DEF Bad
  <2> QED
    BY <2>1, MinimalSubset
<1>2. \A U \in SUBSET T : U # T => Solves(Solution(F, U), F, U) /\ IsFiniteSet(U)
  BY <1>1, FS_Subset
<1> DEFINE Less(s) == s \ {Pick(s)}
           h == [s \in SUBSET T |->
                    IF s = {} THEN 0 ELSE F[Pick(s)] + Solution(F, Less(s))[Less(s)]]
<1>3. \A s \in SUBSET T : s # {} => Less(s) \in SUBSET T /\ Less(s) # T
  BY PickIn
<1>4. ASSUME NEW u \in SUBSET T, u # T
      PROVE  h[u] = Solution(F, u)[u]
  <2>1. Solves(Solution(F, u), F, u) /\ IsFiniteSet(u)
    BY <1>2, <1>4
  <2>2. CASE u = {}
    BY <2>1, <2>2, SolutionValue
  <2>3. CASE u # {}
    <3>1. h[u] = F[Pick(u)] + Solution(F, Less(u))[Less(u)]
      BY <1>4, <2>3
    <3>2. Solves(Solution(F, Less(u)), F, Less(u))
      BY <1>2, <1>3, <2>3
    <3>3. Solution(F, u)[Less(u)] = Solution(F, Less(u))[Less(u)]
      BY <2>1, <3>2, SolutionsAgree
    <3>4. Solution(F, u)[u] = F[Pick(u)] + Solution(F, u)[Less(u)]
      BY <2>1, <2>3, SolutionValue
    <3> QED
      BY <3>1, <3>3, <3>4
  <2> QED
    BY <2>2, <2>3
<1>5. \A s \in SUBSET T : h[s] = IF s = {} THEN 0 ELSE F[Pick(s)] + h[Less(s)]
  <2> SUFFICES ASSUME NEW s \in SUBSET T, s # {}
               PROVE  h[s] = F[Pick(s)] + h[Less(s)]
    OBVIOUS
  <2>1. h[Less(s)] = Solution(F, Less(s))[Less(s)]
    BY <1>3, <1>4
  <2> QED
    BY <2>1
<1>6. h = [s \in SUBSET T |-> IF s = {} THEN 0 ELSE F[Pick(s)] + h[Less(s)]]
  <2> DEFINE k == [s \in SUBSET T |-> IF s = {} THEN 0 ELSE F[Pick(s)] + h[Less(s)]]
  <2>1. DOMAIN h = SUBSET T /\ DOMAIN k = SUBSET T /\ \A s \in SUBSET T : h[s] = k[s]
    BY <1>5
  <2>2. h = [s \in SUBSET T |-> h[s]] /\ k = [s \in SUBSET T |-> k[s]]
    OBVIOUS
  <2> HIDE DEF h, k
  <2>3. h = k
    BY <2>1, <2>2
  <2> QED
    BY <2>3 DEF k
<1>7. Solves(h, F, T)
  <2> HIDE DEF h
  <2> QED
    BY <1>6 DEF Solves
<1>8. Solves(Solution(F, T), F, T)
  <2> HIDE DEF h
  <2> QED
    BY <1>7 DEF Solution
<1> QED
  BY <1>1, <1>8

-----------------------------------------------------------------------------
(* Sums over finite sets.                                                  *)

(* Nothing adds up to zero. *)
LEMMA SumEmpty == \A F : SumFunctionOnSet(F, {}) = 0
<1> SUFFICES ASSUME NEW F PROVE SumFunctionOnSet(F, {}) = 0
  OBVIOUS
<1>1. Solves(Solution(F, {}), F, {})
  BY FS_EmptySet, SolutionExists
<1> QED
  BY <1>1, SolutionValue, SumIsSolution

(* A sum is what the fold takes first and the sum of the rest. *)
LEMMA SumPick ==
  ASSUME NEW F, NEW S, IsFiniteSet(S), S # {}
  PROVE  SumFunctionOnSet(F, S) = F[Pick(S)] + SumFunctionOnSet(F, S \ {Pick(S)})
<1> DEFINE R == S \ {Pick(S)}
<1>1. IsFiniteSet(R) /\ R \subseteq S
  BY FS_Subset
<1>2. Solves(Solution(F, S), F, S) /\ Solves(Solution(F, R), F, R)
  BY <1>1, SolutionExists
<1>3. Solution(F, S)[R] = Solution(F, R)[R]
  BY <1>1, <1>2, SolutionsAgree
<1> QED
  BY <1>2, <1>3, SolutionValue, SumIsSolution

(* Sums of integers are integers. *)
LEMMA SumInt ==
  ASSUME NEW F, NEW S, IsFiniteSet(S), \A x \in S : F[x] \in Int
  PROVE  SumFunctionOnSet(F, S) \in Int
<1> SUFFICES ASSUME SumFunctionOnSet(F, S) \notin Int PROVE FALSE
  OBVIOUS
<1> DEFINE Bad == {T \in SUBSET S : SumFunctionOnSet(F, T) \notin Int}
<1>1. PICK T \in Bad : \A U \in SUBSET T : U # T => U \notin Bad
  <2>1. Bad \in SUBSET SUBSET S /\ Bad # {}
    OBVIOUS
  <2> HIDE DEF Bad
  <2> QED
    BY <2>1, MinimalSubset
<1>2. T # {}
  BY SumEmpty
<1>3. Pick(T) \in T /\ IsFiniteSet(T)
  BY <1>2, PickIn, FS_Subset
<1>4. SumFunctionOnSet(F, T \ {Pick(T)}) \in Int
  BY <1>1, <1>3
<1> QED
  BY <1>2, <1>3, <1>4, SumPick

(* Any element may be taken out first. *)
LEMMA SumTake ==
  ASSUME NEW F, NEW S, IsFiniteSet(S), \A y \in S : F[y] \in Int, NEW x \in S
  PROVE  SumFunctionOnSet(F, S) = F[x] + SumFunctionOnSet(F, S \ {x})
<1> DEFINE P(T) == \A y \in T : SumFunctionOnSet(F, T) = F[y] + SumFunctionOnSet(F, T \ {y})
<1> SUFFICES ASSUME ~P(S) PROVE FALSE
  OBVIOUS
<1> DEFINE Bad == {T \in SUBSET S : ~P(T)}
<1>1. PICK T \in Bad : \A U \in SUBSET T : U # T => U \notin Bad
  <2>1. Bad \in SUBSET SUBSET S /\ Bad # {}
    OBVIOUS
  <2> HIDE DEF Bad
  <2> QED
    BY <2>1, MinimalSubset
<1>2. PICK y \in T : SumFunctionOnSet(F, T) # F[y] + SumFunctionOnSet(F, T \ {y})
  OBVIOUS
<1> DEFINE c == Pick(T)
<1>3. c \in T /\ IsFiniteSet(T) /\ T \subseteq S
  BY <1>2, PickIn, FS_Subset
<1>4. SumFunctionOnSet(F, T) = F[c] + SumFunctionOnSet(F, T \ {c})
  BY <1>2, <1>3, SumPick
<1>5. c # y
  BY <1>2, <1>4
<1>6. P(T \ {c}) /\ P(T \ {y})
  BY <1>1, <1>2, <1>3
<1>7. (T \ {c}) \ {y} = (T \ {y}) \ {c}
  OBVIOUS
<1> DEFINE R == (T \ {y}) \ {c}
<1>8. /\ SumFunctionOnSet(F, T \ {c}) = F[y] + SumFunctionOnSet(F, R)
      /\ SumFunctionOnSet(F, T \ {y}) = F[c] + SumFunctionOnSet(F, R)
  BY <1>2, <1>3, <1>5, <1>6, <1>7
<1>9. F[c] \in Int /\ F[y] \in Int /\ SumFunctionOnSet(F, R) \in Int
  <2>1. IsFiniteSet(R) /\ R \subseteq S
    BY <1>3, FS_Subset
  <2> QED
    BY <1>2, <1>3, <2>1, SumInt
<1> QED
  BY <1>2, <1>4, <1>8, <1>9

(* One element more. *)
LEMMA SumAdd ==
  ASSUME NEW F, NEW S, IsFiniteSet(S), NEW x, x \notin S,
         F[x] \in Int, \A y \in S : F[y] \in Int
  PROVE  SumFunctionOnSet(F, S \cup {x}) = F[x] + SumFunctionOnSet(F, S)
<1>1. IsFiniteSet(S \cup {x}) /\ (S \cup {x}) \ {x} = S
  BY FS_AddElement
<1>2. \A y \in S \cup {x} : F[y] \in Int
  OBVIOUS
<1> QED
  BY <1>1, <1>2, SumTake

(* Only the values count. *)
LEMMA SumEqual ==
  ASSUME NEW F, NEW G, NEW S, IsFiniteSet(S), \A x \in S : F[x] \in Int /\ F[x] = G[x]
  PROVE  SumFunctionOnSet(F, S) = SumFunctionOnSet(G, S)
<1> DEFINE Good == {T \in SUBSET S : SumFunctionOnSet(F, T) = SumFunctionOnSet(G, T)}
<1>1. {} \in Good
  BY SumEmpty
<1>2. ASSUME NEW T \in SUBSET S, NEW x \in S \ T, T \in Good
      PROVE  T \cup {x} \in Good
  <2>1. IsFiniteSet(T)
    BY FS_Subset
  <2>2. /\ SumFunctionOnSet(F, T \cup {x}) = F[x] + SumFunctionOnSet(F, T)
        /\ SumFunctionOnSet(G, T \cup {x}) = G[x] + SumFunctionOnSet(G, T)
    BY <2>1, SumAdd
  <2> QED
    BY <1>2, <2>2
<1>3. S \in Good
  <2> HIDE DEF Good
  <2> QED
    BY <1>1, <1>2, SubsetInduction
<1> QED
  BY <1>3

(* Larger values have a larger sum. *)
LEMMA SumLeq ==
  ASSUME NEW F, NEW G, NEW S, IsFiniteSet(S),
         \A x \in S : F[x] \in Int /\ G[x] \in Int /\ F[x] <= G[x]
  PROVE  SumFunctionOnSet(F, S) <= SumFunctionOnSet(G, S)
<1> DEFINE Good == {T \in SUBSET S : SumFunctionOnSet(F, T) <= SumFunctionOnSet(G, T)}
<1>1. {} \in Good
  BY SumEmpty
<1>2. ASSUME NEW T \in SUBSET S, NEW x \in S \ T, T \in Good
      PROVE  T \cup {x} \in Good
  <2>1. IsFiniteSet(T)
    BY FS_Subset
  <2>2. /\ SumFunctionOnSet(F, T \cup {x}) = F[x] + SumFunctionOnSet(F, T)
        /\ SumFunctionOnSet(G, T \cup {x}) = G[x] + SumFunctionOnSet(G, T)
        /\ SumFunctionOnSet(F, T) \in Int /\ SumFunctionOnSet(G, T) \in Int
    BY <2>1, SumAdd, SumInt
  <2> QED
    BY <1>2, <2>2
<1>3. S \in Good
  <2> HIDE DEF Good
  <2> QED
    BY <1>1, <1>2, SubsetInduction
<1> QED
  BY <1>3

(* The sum of sums. *)
LEMMA SumPlus ==
  ASSUME NEW F, NEW G, NEW H, NEW S, IsFiniteSet(S),
         \A x \in S : F[x] \in Int /\ G[x] \in Int /\ H[x] = F[x] + G[x]
  PROVE  SumFunctionOnSet(H, S) = SumFunctionOnSet(F, S) + SumFunctionOnSet(G, S)
<1> DEFINE Good == {T \in SUBSET S :
                       SumFunctionOnSet(H, T) = SumFunctionOnSet(F, T) + SumFunctionOnSet(G, T)}
<1>1. {} \in Good
  BY SumEmpty
<1>2. ASSUME NEW T \in SUBSET S, NEW x \in S \ T, T \in Good
      PROVE  T \cup {x} \in Good
  <2>1. IsFiniteSet(T)
    BY FS_Subset
  <2>2. /\ SumFunctionOnSet(F, T \cup {x}) = F[x] + SumFunctionOnSet(F, T)
        /\ SumFunctionOnSet(G, T \cup {x}) = G[x] + SumFunctionOnSet(G, T)
        /\ SumFunctionOnSet(H, T \cup {x}) = H[x] + SumFunctionOnSet(H, T)
        /\ SumFunctionOnSet(F, T) \in Int /\ SumFunctionOnSet(G, T) \in Int
    BY <2>1, SumAdd, SumInt
  <2> QED
    BY <1>2, <2>2
<1>3. S \in Good
  <2> HIDE DEF Good
  <2> QED
    BY <1>1, <1>2, SubsetInduction
<1> QED
  BY <1>3

(* The sum of a constant. *)
LEMMA SumConstant ==
  ASSUME NEW F, NEW S, IsFiniteSet(S), NEW c \in Int, \A x \in S : F[x] = c
  PROVE  SumFunctionOnSet(F, S) = c * Cardinality(S)
<1> DEFINE Good == {T \in SUBSET S : SumFunctionOnSet(F, T) = c * Cardinality(T)}
<1>1. {} \in Good
  BY SumEmpty, FS_EmptySet
<1>2. ASSUME NEW T \in SUBSET S, NEW x \in S \ T, T \in Good
      PROVE  T \cup {x} \in Good
  <2>1. IsFiniteSet(T)
    BY FS_Subset
  <2>2. SumFunctionOnSet(F, T \cup {x}) = F[x] + SumFunctionOnSet(F, T)
    BY <2>1, SumAdd
  <2>3. Cardinality(T \cup {x}) = Cardinality(T) + 1 /\ Cardinality(T) \in Nat
    BY <2>1, FS_AddElement, FS_CardinalityType
  <2>4. c * (Cardinality(T) + 1) = c + c * Cardinality(T)
    BY <2>3
  <2> QED
    BY <1>2, <2>2, <2>3, <2>4
<1>3. S \in Good
  <2> HIDE DEF Good
  <2> QED
    BY <1>1, <1>2, SubsetInduction
<1> QED
  BY <1>3

(* Zeros add up to zero. *)
LEMMA SumZero ==
  ASSUME NEW F, NEW S, IsFiniteSet(S), \A x \in S : F[x] = 0
  PROVE  SumFunctionOnSet(F, S) = 0
<1>1. SumFunctionOnSet(F, S) = 0 * Cardinality(S) /\ Cardinality(S) \in Nat
  BY SumConstant, FS_CardinalityType
<1> QED
  BY <1>1

(* Disjoint sets. *)
LEMMA SumUnion ==
  ASSUME NEW F, NEW S, NEW R, IsFiniteSet(S), IsFiniteSet(R), S \cap R = {},
         \A x \in S \cup R : F[x] \in Int
  PROVE  SumFunctionOnSet(F, S \cup R) = SumFunctionOnSet(F, S) + SumFunctionOnSet(F, R)
<1> DEFINE Good == {T \in SUBSET S :
                       SumFunctionOnSet(F, T \cup R)
                           = SumFunctionOnSet(F, T) + SumFunctionOnSet(F, R)}
<1>1. {} \in Good
  <2>1. SumFunctionOnSet(F, R) \in Int /\ {} \cup R = R
    BY SumInt
  <2> QED
    BY <2>1, SumEmpty
<1>2. ASSUME NEW T \in SUBSET S, NEW x \in S \ T, T \in Good
      PROVE  T \cup {x} \in Good
  <2>1. IsFiniteSet(T) /\ IsFiniteSet(T \cup R)
    BY FS_Subset, FS_Union
  <2>2. (T \cup {x}) \cup R = (T \cup R) \cup {x} /\ x \notin T \cup R
    OBVIOUS
  <2>3. /\ SumFunctionOnSet(F, T \cup {x}) = F[x] + SumFunctionOnSet(F, T)
        /\ SumFunctionOnSet(F, (T \cup R) \cup {x}) = F[x] + SumFunctionOnSet(F, T \cup R)
        /\ SumFunctionOnSet(F, T) \in Int /\ SumFunctionOnSet(F, R) \in Int
    BY <2>1, <2>2, SumAdd, SumInt
  <2>4. SumFunctionOnSet(F, (T \cup {x}) \cup R) = F[x] + SumFunctionOnSet(F, T \cup R)
    BY <2>2, <2>3, Zenon
  <2>5. SumFunctionOnSet(F, T \cup R) = SumFunctionOnSet(F, T) + SumFunctionOnSet(F, R)
    BY <1>2
  <2> DEFINE a == SumFunctionOnSet(F, (T \cup {x}) \cup R)
             b == SumFunctionOnSet(F, T \cup R)
             c == SumFunctionOnSet(F, T)
             d == SumFunctionOnSet(F, R)
             e == SumFunctionOnSet(F, T \cup {x})
  <2>6. a = e + d
    <3>1. a = F[x] + b /\ b = c + d /\ e = F[x] + c /\ c \in Int /\ d \in Int /\ F[x] \in Int
      BY <2>3, <2>4, <2>5
    <3> HIDE DEF a, b, c, d, e
    <3> QED
      BY <3>1
  <2> QED
    BY <2>6
<1>3. S \in Good
  <2> HIDE DEF Good
  <2> QED
    BY <1>1, <1>2, SubsetInduction
<1> QED
  BY <1>3

(* Sums of values that are not negative. *)
LEMMA SumNat ==
  ASSUME NEW F, NEW S, IsFiniteSet(S), \A x \in S : F[x] \in Nat
  PROVE  SumFunctionOnSet(F, S) \in Nat
<1> DEFINE Good == {T \in SUBSET S : SumFunctionOnSet(F, T) \in Nat}
<1>1. {} \in Good
  BY SumEmpty
<1>2. ASSUME NEW T \in SUBSET S, NEW x \in S \ T, T \in Good
      PROVE  T \cup {x} \in Good
  <2>1. IsFiniteSet(T)
    BY FS_Subset
  <2>2. SumFunctionOnSet(F, T \cup {x}) = F[x] + SumFunctionOnSet(F, T)
    BY <2>1, SumAdd
  <2> QED
    BY <1>2, <2>2
<1>3. S \in Good
  <2> HIDE DEF Good
  <2> QED
    BY <1>1, <1>2, SubsetInduction
<1> QED
  BY <1>3

(* A part of a sum of naturals is no more than the whole. *)
LEMMA SumSubset ==
  ASSUME NEW F, NEW S, NEW T \in SUBSET S, IsFiniteSet(S),
         \A x \in S : F[x] \in Nat
  PROVE  SumFunctionOnSet(F, T) <= SumFunctionOnSet(F, S)
<1>1. IsFiniteSet(T) /\ IsFiniteSet(S \ T) /\ T \cup (S \ T) = S /\ T \cap (S \ T) = {}
  BY FS_Subset
<1>2. SumFunctionOnSet(F, S) = SumFunctionOnSet(F, T) + SumFunctionOnSet(F, S \ T)
  <2>1. \A x \in T \cup (S \ T) : F[x] \in Int
    OBVIOUS
  <2>2. SumFunctionOnSet(F, T \cup (S \ T))
           = SumFunctionOnSet(F, T) + SumFunctionOnSet(F, S \ T)
    BY <1>1, <2>1, SumUnion
  <2> QED
    BY <1>1, <2>2
<1>3. SumFunctionOnSet(F, T) \in Nat /\ SumFunctionOnSet(F, S \ T) \in Nat
  BY <1>1, SumNat
<1> QED
  BY <1>2, <1>3

(* What is zero may be left out. *)
LEMMA SumRest ==
  ASSUME NEW F, NEW S, NEW T \in SUBSET S, IsFiniteSet(S),
         \A x \in S : F[x] \in Int, \A x \in S \ T : F[x] = 0
  PROVE  SumFunctionOnSet(F, S) = SumFunctionOnSet(F, T)
<1>1. IsFiniteSet(T) /\ IsFiniteSet(S \ T) /\ T \cup (S \ T) = S /\ T \cap (S \ T) = {}
  BY FS_Subset
<1>2. SumFunctionOnSet(F, S) = SumFunctionOnSet(F, T) + SumFunctionOnSet(F, S \ T)
  <2>1. \A x \in T \cup (S \ T) : F[x] \in Int
    OBVIOUS
  <2>2. SumFunctionOnSet(F, T \cup (S \ T))
           = SumFunctionOnSet(F, T) + SumFunctionOnSet(F, S \ T)
    BY <1>1, <2>1, SumUnion
  <2> QED
    BY <1>1, <2>2
<1>3. SumFunctionOnSet(F, S \ T) = 0 /\ SumFunctionOnSet(F, T) \in Int
  BY <1>1, SumZero, SumInt
<1> QED
  BY <1>1, <1>2, <1>3

(* One of the values is no larger than the sum. *)
LEMMA SumMember ==
  ASSUME NEW F, NEW S, IsFiniteSet(S), \A x \in S : F[x] \in Nat, NEW x \in S
  PROVE  F[x] <= SumFunctionOnSet(F, S)
<1>1. IsFiniteSet(S \ {x})
  BY FS_Subset
<1>2. SumFunctionOnSet(F, S) = F[x] + SumFunctionOnSet(F, S \ {x})
  BY SumTake
<1>3. SumFunctionOnSet(F, S \ {x}) \in Nat
  BY <1>1, SumNat
<1> QED
  BY <1>2, <1>3

(* Values counted by name: a one-to-one map keeps the sum, any map that    *)
(* does not enlarge the values does not enlarge it.                        *)
LEMMA SumImage ==
  ASSUME NEW F, NEW G, NEW S, NEW h, IsFiniteSet(S),
         \A x, y \in S : h[x] = h[y] => x = y,
         \A x \in S : F[x] \in Int /\ G[h[x]] = F[x]
  PROVE  /\ IsFiniteSet({h[x] : x \in S})
         /\ SumFunctionOnSet(G, {h[x] : x \in S}) = SumFunctionOnSet(F, S)
<1> DEFINE Im(T) == {h[x] : x \in T}
           Good == {T \in SUBSET S : /\ IsFiniteSet(Im(T))
                                     /\ SumFunctionOnSet(G, Im(T)) = SumFunctionOnSet(F, T)}
<1>1. {} \in Good
  <2>1. Im({}) = {}
    OBVIOUS
  <2> QED
    BY <2>1, SumEmpty, FS_EmptySet
<1>2. ASSUME NEW T \in SUBSET S, NEW x \in S \ T, T \in Good
      PROVE  T \cup {x} \in Good
  <2>1. IsFiniteSet(T) /\ IsFiniteSet(Im(T))
    BY <1>2, FS_Subset
  <2>2. Im(T \cup {x}) = Im(T) \cup {h[x]} /\ h[x] \notin Im(T)
    OBVIOUS
  <2>3. \A v \in Im(T) : G[v] \in Int
    OBVIOUS
  <2>4. /\ SumFunctionOnSet(F, T \cup {x}) = F[x] + SumFunctionOnSet(F, T)
        /\ SumFunctionOnSet(G, Im(T) \cup {h[x]}) = G[h[x]] + SumFunctionOnSet(G, Im(T))
        /\ IsFiniteSet(Im(T) \cup {h[x]})
    <3> HIDE DEF Im
    <3> QED
      BY <2>1, <2>2, <2>3, SumAdd, FS_AddElement
  <2>5. SumFunctionOnSet(G, Im(T)) = SumFunctionOnSet(F, T)
    BY <1>2
  <2>6. SumFunctionOnSet(G, Im(T \cup {x})) = SumFunctionOnSet(F, T \cup {x})
    <3> HIDE DEF Im
    <3> QED
      BY <2>2, <2>4, <2>5
  <2>7. IsFiniteSet(Im(T \cup {x}))
    <3> HIDE DEF Im
    <3> QED
      BY <2>2, <2>4
  <2> HIDE DEF Im
  <2> QED
    BY <2>6, <2>7
<1>3. S \in Good
  <2> HIDE DEF Good
  <2> QED
    BY <1>1, <1>2, SubsetInduction
<1> QED
  BY <1>3

(* What is made of each of a finite set, possibly the same of several, adds up *)
(* to no more than they do.                                                *)
LEMMA SumImageLeq ==
  ASSUME NEW F, NEW G, NEW S, NEW h, IsFiniteSet(S),
         \A x \in S : F[x] \in Nat /\ G[h[x]] \in Nat /\ G[h[x]] <= F[x]
  PROVE  /\ IsFiniteSet({h[x] : x \in S})
         /\ SumFunctionOnSet(G, {h[x] : x \in S}) <= SumFunctionOnSet(F, S)
<1> DEFINE Im(T) == {h[x] : x \in T}
           Good == {T \in SUBSET S : /\ IsFiniteSet(Im(T))
                                     /\ SumFunctionOnSet(G, Im(T)) <= SumFunctionOnSet(F, T)}
<1>1. {} \in Good
  <2>1. Im({}) = {}
    OBVIOUS
  <2> QED
    BY <2>1, SumEmpty, FS_EmptySet
<1>2. ASSUME NEW T \in SUBSET S, NEW x \in S \ T, T \in Good
      PROVE  T \cup {x} \in Good
  <2>1. IsFiniteSet(T) /\ IsFiniteSet(Im(T))
    BY <1>2, FS_Subset
  <2>2. Im(T \cup {x}) = Im(T) \cup {h[x]}
    OBVIOUS
  <2>3. \A v \in Im(T) : G[v] \in Nat
    OBVIOUS
  <2>4. IsFiniteSet(Im(T) \cup {h[x]})
    <3> HIDE DEF Im
    <3> QED
      BY <2>1, FS_AddElement
  <2>5. /\ SumFunctionOnSet(F, T \cup {x}) = F[x] + SumFunctionOnSet(F, T)
        /\ SumFunctionOnSet(F, T) \in Nat
        /\ SumFunctionOnSet(G, Im(T)) \in Nat
    <3> HIDE DEF Im
    <3> QED
      BY <2>1, <2>3, SumAdd, SumNat
  <2>6. SumFunctionOnSet(G, Im(T)) <= SumFunctionOnSet(F, T)
    BY <1>2
  <2>7. SumFunctionOnSet(G, Im(T) \cup {h[x]}) <= SumFunctionOnSet(F, T \cup {x})
    <3> F[x] \in Nat /\ G[h[x]] \in Nat /\ G[h[x]] <= F[x]
      OBVIOUS
    <3> HIDE DEF Im
    <3>1. CASE h[x] \in Im(T)
      <4>1. Im(T) \cup {h[x]} = Im(T)
        BY <3>1
      <4>2. SumFunctionOnSet(G, Im(T) \cup {h[x]}) = SumFunctionOnSet(G, Im(T))
        BY <4>1, Zenon
      <4> QED
        BY <2>5, <2>6, <4>2
    <3>2. CASE h[x] \notin Im(T)
      <4>1. SumFunctionOnSet(G, Im(T) \cup {h[x]}) = G[h[x]] + SumFunctionOnSet(G, Im(T))
        BY <2>1, <2>3, <3>2, SumAdd
      <4> QED
        BY <2>5, <2>6, <4>1
    <3> QED
      BY <3>1, <3>2
  <2>8. IsFiniteSet(Im(T \cup {x})) /\ SumFunctionOnSet(G, Im(T \cup {x})) <= SumFunctionOnSet(F, T \cup {x})
    <3> HIDE DEF Im
    <3> QED
      BY <2>2, <2>4, <2>7
  <2> HIDE DEF Im
  <2> QED
    BY <2>8
<1>3. S \in Good
  <2> HIDE DEF Good
  <2> QED
    BY <1>1, <1>2, SubsetInduction
<1> QED
  BY <1>3

(* A family of disjoint sets. *)
LEMMA SumPartition ==
  ASSUME NEW F, NEW G, NEW P, IsFiniteSet(P), \A p \in P : IsFiniteSet(p),
         \A p, q \in P : p # q => p \cap q = {},
         \A x \in UNION P : F[x] \in Int,
         \A p \in P : G[p] = SumFunctionOnSet(F, p)
  PROVE  SumFunctionOnSet(F, UNION P) = SumFunctionOnSet(G, P)
<1> DEFINE Good == {T \in SUBSET P : SumFunctionOnSet(F, UNION T) = SumFunctionOnSet(G, T)}
<1>0. \A p \in P : G[p] \in Int
  BY SumInt
<1>1. {} \in Good
  <2>1. UNION {} = {}
    OBVIOUS
  <2> QED
    BY <2>1, SumEmpty
<1>2. ASSUME NEW T \in SUBSET P, NEW x \in P \ T, T \in Good
      PROVE  T \cup {x} \in Good
  <2>1. IsFiniteSet(T) /\ IsFiniteSet(x)
    BY FS_Subset
  <2>2. IsFiniteSet(UNION T)
    BY <2>1, FS_UNION
  <2>3. UNION (T \cup {x}) = (UNION T) \cup x
    OBVIOUS
  <2>4. (UNION T) \cap x = {}
    OBVIOUS
  <2>5. SumFunctionOnSet(F, (UNION T) \cup x)
           = SumFunctionOnSet(F, UNION T) + SumFunctionOnSet(F, x)
    <3>1. \A y \in (UNION T) \cup x : F[y] \in Int
      OBVIOUS
    <3> HIDE DEF Good
    <3> QED
      BY <2>1, <2>2, <2>4, <3>1, SumUnion
  <2>6. SumFunctionOnSet(G, T \cup {x}) = G[x] + SumFunctionOnSet(G, T)
    BY <1>0, <2>1, SumAdd
  <2>7. /\ SumFunctionOnSet(F, UNION T) = SumFunctionOnSet(G, T)
        /\ SumFunctionOnSet(G, T) \in Int /\ G[x] \in Int /\ G[x] = SumFunctionOnSet(F, x)
    BY <1>0, <1>2, <2>1, SumInt
  <2>8. SumFunctionOnSet(F, UNION (T \cup {x})) = SumFunctionOnSet(G, T \cup {x})
    <3>1. SumFunctionOnSet(F, UNION (T \cup {x})) = SumFunctionOnSet(F, (UNION T) \cup x)
      BY <2>3, Zenon
    <3> HIDE DEF Good
    <3> QED
      BY <2>5, <2>6, <2>7, <3>1
  <2> QED
    BY <2>8
<1>3. P \in Good
  <2> HIDE DEF Good
  <2> QED
    BY <1>1, <1>2, SubsetInduction
<1> QED
  BY <1>3

(* Shares of an amount, each rounded down, do not exceed it. *)
LEMMA SumShare ==
  ASSUME NEW F, NEW W, NEW S, IsFiniteSet(S), NEW a \in Nat, NEW t \in Nat, t > 0,
         \A x \in S : W[x] \in Nat /\ F[x] = (a * W[x]) \div t
  PROVE  /\ \A x \in S : F[x] \in Nat
         /\ t * SumFunctionOnSet(F, S) <= a * SumFunctionOnSet(W, S)
<1>1. \A x \in S : F[x] \in Nat /\ t * F[x] <= a * W[x]
  <2> SUFFICES ASSUME NEW x \in S PROVE F[x] \in Nat /\ t * F[x] <= a * W[x]
    OBVIOUS
  <2> DEFINE b == a * W[x]
  <2>1. b \in Nat /\ F[x] = b \div t
    OBVIOUS
  <2> HIDE DEF b
  <2>2. b \div t \in Nat /\ t * (b \div t) <= b
    BY <2>1
  <2> QED
    BY <2>1, <2>2 DEF b
<1> DEFINE Good == {T \in SUBSET S : t * SumFunctionOnSet(F, T) <= a * SumFunctionOnSet(W, T)}
<1>2. {} \in Good
  BY SumEmpty
<1>3. ASSUME NEW T \in SUBSET S, NEW x \in S \ T, T \in Good
      PROVE  T \cup {x} \in Good
  <2>1. IsFiniteSet(T)
    BY FS_Subset
  <2> DEFINE f == SumFunctionOnSet(F, T)
             w == SumFunctionOnSet(W, T)
  <2>2. /\ SumFunctionOnSet(F, T \cup {x}) = F[x] + f
        /\ SumFunctionOnSet(W, T \cup {x}) = W[x] + w
        /\ f \in Nat /\ w \in Nat
    BY <1>1, <2>1, SumAdd, SumNat
  <2>3. t * f <= a * w
    BY <1>3
  <2>4. t * F[x] <= a * W[x] /\ F[x] \in Nat /\ W[x] \in Nat
    BY <1>1
  <2> HIDE DEF f, w
  <2>5. t * (F[x] + f) = t * F[x] + t * f /\ a * (W[x] + w) = a * W[x] + a * w
    <3>1. \A b, c, d \in Nat : b * (c + d) = b * c + b * d
      OBVIOUS
    <3> QED
      BY <2>2, <2>4, <3>1, Zenon
  <2>6. t * F[x] \in Int /\ t * f \in Int /\ a * W[x] \in Int /\ a * w \in Int
    BY <2>2, <2>4
  <2>7. t * (F[x] + f) <= a * (W[x] + w)
    BY <2>3, <2>4, <2>5, <2>6
  <2> QED
    BY <2>2, <2>7
<1>4. S \in Good
  <2> HIDE DEF Good
  <2> QED
    BY <1>2, <1>3, SubsetInduction
<1> QED
  BY <1>1, <1>4

(* The image of a finite set is finite. *)
LEMMA FiniteImage ==
  ASSUME NEW S, IsFiniteSet(S), NEW h
  PROVE  IsFiniteSet({h[x] : x \in S})
<1> DEFINE F == [x \in S |-> 0]
           G == [y \in {h[x] : x \in S} |-> 0]
<1>1. \A x \in S : F[x] \in Nat /\ G[h[x]] \in Nat /\ G[h[x]] <= F[x]
  OBVIOUS
<1> HIDE DEF F, G
<1>2. /\ IsFiniteSet({h[x] : x \in S})
      /\ SumFunctionOnSet(G, {h[x] : x \in S}) <= SumFunctionOnSet(F, S)
  BY <1>1, SumImageLeq
<1> QED
  BY <1>2

-----------------------------------------------------------------------------
(* Portions and amounts.                                                   *)

(* Dividing amounts rounds to amounts. *)
LEMMA DivNat == ASSUME NEW n \in Nat, NEW t \in Nat \ {0} PROVE n \div t \in Nat
  OBVIOUS

(* A portion of an amount is a part of it. *)
LEMMA PortionBounds ==
  ASSUME NEW val \in Nat, NEW portion \in Int
  PROVE  GetZPortion(val, portion) \in Nat /\ GetZPortion(val, portion) <= val
<1>1. CASE portion <= 0
  BY <1>1 DEF GetZPortion
<1>2. CASE portion > 0
  <2>1. \A b \in Nat : b \div Unit \in Nat
    BY DEF Unit
  <2>2. val * portion \in Nat
    BY <1>2
  <2>3. (val * portion) \div Unit \in Nat
    BY <2>1, <2>2
  <2> QED
    BY <1>2, <2>3 DEF GetZPortion, Smaller
<1> QED
  BY <1>1, <1>2

(* It is its share, rounded down, or less. *)
LEMMA PortionShare ==
  ASSUME NEW val \in Nat, NEW portion \in Nat
  PROVE  GetZPortion(val, portion) <= (val * portion) \div Unit
<1> DEFINE b == val * portion
<1>1. b \in Nat
  OBVIOUS
<1>2. portion >= Unit => val * Unit <= b
  BY DEF Unit
<1> HIDE DEF b
<1>3. b \div Unit \in Nat /\ (val * Unit <= b => val <= b \div Unit)
  BY <1>1 DEF Unit
<1> QED
  BY <1>2, <1>3 DEF GetZPortion, Smaller, b

(* The amount of recipes as a sum of a function. *)
LEMMA AmountIs == \A rs : AmountOf(rs) = SumFunctionOnSet([r \in rs |-> r.amount], rs)
  BY Zenon DEF AmountOf, Total

(* The amount of a finite set of amounts that are not negative. *)
LEMMA AmountNat ==
  ASSUME NEW rs, IsFiniteSet(rs), \A r \in rs : r.amount \in Nat
  PROVE  AmountOf(rs) \in Nat
<1> DEFINE F == [r \in rs |-> r.amount]
<1>1. \A r \in rs : F[r] \in Nat
  OBVIOUS
<1> HIDE DEF F
<1>2. SumFunctionOnSet(F, rs) \in Nat
  BY <1>1, SumNat
<1> QED
  BY <1>2, AmountIs DEF F

(* What is made of a finite set holds no more than what each member gives. *)
LEMMA AmountImage ==
  ASSUME NEW F, NEW S, NEW h, IsFiniteSet(S),
         \A x \in S : F[x] \in Nat /\ h[x].amount \in Nat /\ h[x].amount <= F[x]
  PROVE  /\ IsFiniteSet({h[x] : x \in S})
         /\ AmountOf({h[x] : x \in S}) \in Nat
         /\ AmountOf({h[x] : x \in S}) <= SumFunctionOnSet(F, S)
<1> DEFINE Im == {h[x] : x \in S}
           G == [y \in Im |-> y.amount]
<1>1. \A x \in S : F[x] \in Nat /\ G[h[x]] \in Nat /\ G[h[x]] <= F[x]
  OBVIOUS
<1>2. \A y \in Im : y.amount \in Nat
  OBVIOUS
<1>3. AmountOf(Im) = SumFunctionOnSet(G, Im)
  BY AmountIs
<1> HIDE DEF G
<1>4. IsFiniteSet(Im) /\ SumFunctionOnSet(G, Im) <= SumFunctionOnSet(F, S)
  BY <1>1, SumImageLeq
<1>5. AmountOf(Im) \in Nat
  BY <1>2, <1>4, AmountNat
<1> QED
  BY <1>3, <1>4, <1>5

(* A part of a set holds no more than the set. *)
LEMMA AmountSubset ==
  ASSUME NEW rs, NEW qs \in SUBSET rs, IsFiniteSet(rs), \A r \in rs : r.amount \in Nat
  PROVE  IsFiniteSet(qs) /\ AmountOf(qs) \in Nat /\ AmountOf(qs) <= AmountOf(rs)
<1> DEFINE F == [r \in rs |-> r.amount]
           h == [r \in qs |-> r]
<1>1. IsFiniteSet(qs)
  BY FS_Subset
<1>2. \A r \in rs : F[r] \in Nat
  OBVIOUS
<1>3. \A r \in qs : F[r] \in Nat /\ h[r].amount \in Nat /\ h[r].amount <= F[r]
  OBVIOUS
<1>4. {h[r] : r \in qs} = qs
  OBVIOUS
<1>5. AmountOf(rs) = SumFunctionOnSet(F, rs)
  BY AmountIs
<1> HIDE DEF F, h
<1>6. SumFunctionOnSet(F, qs) <= SumFunctionOnSet(F, rs) /\ SumFunctionOnSet(F, rs) \in Nat
      /\ SumFunctionOnSet(F, qs) \in Nat
  BY <1>1, <1>2, SumSubset, SumNat
<1>7. /\ IsFiniteSet({h[r] : r \in qs})
      /\ AmountOf({h[r] : r \in qs}) \in Nat
      /\ AmountOf({h[r] : r \in qs}) <= SumFunctionOnSet(F, qs)
  BY <1>1, <1>3, AmountImage
<1>8. AmountOf(qs) \in Nat /\ AmountOf(qs) <= SumFunctionOnSet(F, qs)
  BY <1>4, <1>7, Zenon
<1> QED
  BY <1>1, <1>5, <1>6, <1>8

\* What a set of candidates or recipes holds in tez.
Tez(rs) == AmountOf(OfTxKinds(rs, {"tez"}))

(* It is a sum over all of them. *)
LEMMA TezIs ==
  ASSUME NEW rs, IsFiniteSet(rs), \A r \in rs : r.amount \in Nat
  PROVE  /\ Tez(rs)
                = SumFunctionOnSet([r \in rs |-> IF r.tx = "tez" THEN r.amount ELSE 0], rs)
         /\ Tez(rs) \in Nat
<1> DEFINE tez == OfTxKinds(rs, {"tez"})
           F == [r \in rs |-> IF r.tx = "tez" THEN r.amount ELSE 0]
           A == [r \in tez |-> r.amount]
<1>1. tez \in SUBSET rs /\ \A r \in rs : F[r] \in Nat
  BY DEF OfTxKinds
<1>2. IsFiniteSet(tez)
  BY <1>1, FS_Subset
<1>3. \A r \in rs \ tez : F[r] = 0
  BY DEF OfTxKinds
<1>4. \A r \in tez : A[r] \in Int /\ A[r] = F[r]
  BY <1>1 DEF OfTxKinds
<1>5. AmountOf(tez) = SumFunctionOnSet(A, tez)
  BY AmountIs
<1> HIDE DEF tez, F, A
<1>6. SumFunctionOnSet(F, rs) = SumFunctionOnSet(F, tez)
  BY <1>1, <1>3, SumRest
<1>7. SumFunctionOnSet(A, tez) = SumFunctionOnSet(F, tez)
  BY <1>2, <1>4, SumEqual
<1>8. SumFunctionOnSet(F, rs) \in Nat
  BY <1>1, SumNat
<1>9. AmountOf(tez) = SumFunctionOnSet(F, rs) /\ AmountOf(tez) \in Nat
  BY <1>5, <1>6, <1>7, <1>8
<1> QED
  BY <1>9 DEF tez, F, Tez

(* The shares of an amount, given to those they name, do not exceed it. *)
LEMMA SharesWithin ==
  ASSUME NEW shares, IsFiniteSet(DOMAIN shares), \A k \in DOMAIN shares : shares[k] \in Nat,
         SumFunctionOnSet(shares, DOMAIN shares) <= Unit,
         NEW amount \in Nat, NEW h,
         \A k \in DOMAIN shares :
            h[k].amount \in Nat /\ h[k].amount <= GetZPortion(amount, shares[k])
  PROVE  /\ IsFiniteSet({h[k] : k \in DOMAIN shares})
         /\ AmountOf({h[k] : k \in DOMAIN shares}) \in Nat
         /\ AmountOf({h[k] : k \in DOMAIN shares}) <= amount
<1> DEFINE S == DOMAIN shares
           F == [k \in S |-> (amount * shares[k]) \div Unit]
           total == SumFunctionOnSet(shares, S)
           sum == SumFunctionOnSet(F, S)
<1>1. \A k \in S : shares[k] \in Nat /\ F[k] = (amount * shares[k]) \div Unit
  OBVIOUS
<1>0. Unit \in Nat /\ Unit > 0
  BY DEF Unit
<1> HIDE DEF F, S
<1>2. (\A k \in S : F[k] \in Nat) /\ Unit * sum <= amount * total
  BY <1>0, <1>1, SumShare DEF S
<1>3. sum \in Nat /\ total \in Nat
  BY <1>1, <1>2, SumNat DEF S
<1>4. total <= Unit
  BY DEF S
<1> HIDE DEF sum, total
<1>5. \A a, b, c \in Nat : b <= c => a * b <= a * c
  OBVIOUS
<1>6. amount * total <= amount * Unit /\ amount * Unit = Unit * amount
  BY <1>0, <1>3, <1>4, <1>5
<1>7. sum <= amount
  <2>1. Unit * sum <= Unit * amount
    BY <1>0, <1>2, <1>3, <1>6
  <2> QED
    BY <1>3, <2>1 DEF Unit
<1>8. \A k \in S : F[k] \in Nat /\ h[k].amount \in Nat /\ h[k].amount <= F[k]
  <2> SUFFICES ASSUME NEW k \in S PROVE h[k].amount \in Nat /\ h[k].amount <= F[k]
    BY <1>2
  <2>1. /\ h[k].amount \in Nat /\ h[k].amount <= GetZPortion(amount, shares[k])
        /\ shares[k] \in Nat
    BY DEF S
  <2>2. GetZPortion(amount, shares[k]) \in Nat
    <3>1. shares[k] \in Int
      BY <2>1
    <3> QED
      BY <3>1, PortionBounds, Zenon
  <2>3. GetZPortion(amount, shares[k]) <= (amount * shares[k]) \div Unit
    BY <2>1, PortionShare
  <2>4. F[k] = (amount * shares[k]) \div Unit
    BY <1>1
  <2>5. GetZPortion(amount, shares[k]) <= F[k]
    BY <2>3, <2>4, Zenon
  <2> QED
    BY <1>2, <2>1, <2>2, <2>5
<1>9. /\ IsFiniteSet({h[k] : k \in S})
      /\ AmountOf({h[k] : k \in S}) \in Nat
      /\ AmountOf({h[k] : k \in S}) <= SumFunctionOnSet(F, S)
  BY <1>8, AmountImage DEF S
<1> QED
  BY <1>3, <1>7, <1>9 DEF S, sum
=============================================================================
