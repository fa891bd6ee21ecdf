---------------------------- MODULE SumsAndFolds ----------------------------
(* Sums, loops and lists: the facts that the proofs about accounts, batches    *)
(* and backlogs rest on.  A sum of naturals (SumFunctionOnSet, SumFunction) is *)
(* the number of tokens that are left when every index has as many as its      *)
(* value; a fold over a list is the loop that takes its elements in order; and *)
(* an element occurs in a list as often as it has places there.                *)
EXTENDS Integers, FiniteSets, Functions, FiniteSetsExt, Sequences, FiniteSetTheorems,
        WellFoundedInduction, TLAPS

\* Induction over a finite set, for a set of its subsets.
LEMMA SubsetInduction ==
    ASSUME NEW S, IsFiniteSet(S), NEW T, {} \in T,
           \A A \in SUBSET S : \A x \in S \ A : A \in T => A \cup {x} \in T
    PROVE  S \in T
  <1> DEFINE U == {A \in FiniteSubsetsOf(S) : A \notin T}
  <1>1. SUFFICES ASSUME S \notin T PROVE FALSE
    OBVIOUS
  <1>2. U # {} /\ U \subseteq FiniteSubsetsOf(S)
    BY <1>1 DEF FiniteSubsetsOf
  <1>3. IsWellFoundedOn(StrictSubsetOrdering(S), FiniteSubsetsOf(S))
    BY FS_StrictSubsetOrderingWellFounded
  <1>4. PICK A \in U : \A B \in U : ~(<<B, A>> \in StrictSubsetOrdering(S))
    BY <1>2, <1>3, WFMin
  <1>5. PICK x \in A : TRUE
    BY DEF FiniteSubsetsOf
  <1>6. A \ {x} \in SUBSET S /\ IsFiniteSet(A \ {x})
    BY FS_RemoveElement DEF FiniteSubsetsOf
  <1>7. A \ {x} \in T
    <2> DEFINE B == A \ {x}
    <2>1. B \subseteq A /\ B # A /\ A \in SUBSET S
      BY <1>5 DEF FiniteSubsetsOf
    <2>2. <<B, A>> \in StrictSubsetOrdering(S)
      BY <1>6, <2>1 DEF StrictSubsetOrdering
    <2>3. B \notin U
      BY <1>4, <2>2
    <2> QED BY <1>6, <2>3 DEF FiniteSubsetsOf
  <1>8. (A \ {x}) \cup {x} = A /\ x \in S \ (A \ {x})
    BY <1>5 DEF FiniteSubsetsOf
  <1> QED BY <1>6, <1>7, <1>8

-----------------------------------------------------------------------------
Pick(s) == CHOOSE x \in s : TRUE

\* The function a sum is defined by.
Adds(f, S, g) ==
    g = [s \in SUBSET S |-> IF s = {} THEN 0 ELSE f[Pick(s)] + g[s \ {Pick(s)}]]

LEMMA SumIsChosen ==
    ASSUME NEW f, NEW S
    PROVE  SumFunctionOnSet(f, S) = (CHOOSE g : Adds(f, S, g))[S]
  BY DEF SumFunctionOnSet, FoldFunctionOnSet, MapThenFoldSet, Adds, Pick

\* As many tokens for every index as its value.
Tokens(f, S) == UNION {{x} \X (1..f[x]) : x \in S}

LEMMA TokensOfOne ==
    ASSUME NEW f, NEW x, f[x] \in Nat
    PROVE  IsFiniteSet({x} \X (1..f[x])) /\ Cardinality({x} \X (1..f[x])) = f[x]
  <1>1. IsFiniteSet(1..f[x]) /\ Cardinality(1..f[x]) = f[x]
    BY FS_Interval
  <1>2. IsFiniteSet({x}) /\ Cardinality({x}) = 1
    BY FS_Singleton
  <1>3. Cardinality({x} \X (1..f[x])) = 1 * f[x]
    BY <1>1, <1>2, FS_Product
  <1>4. Cardinality({x} \X (1..f[x])) = f[x]
    BY <1>3
  <1>5. IsFiniteSet({x} \X (1..f[x]))
    BY <1>1, <1>2, FS_Product
  <1> QED BY <1>4, <1>5

\* One more index adds its value.
LEMMA TokensAdd ==
    ASSUME NEW f, NEW S, NEW x, x \notin S, f[x] \in Nat, IsFiniteSet(Tokens(f, S))
    PROVE  /\ IsFiniteSet(Tokens(f, S \cup {x}))
           /\ Cardinality(Tokens(f, S \cup {x})) = Cardinality(Tokens(f, S)) + f[x]
  <1> DEFINE X == {x} \X (1..f[x])
  <1>1. Tokens(f, S \cup {x}) = Tokens(f, S) \cup X
    BY DEF Tokens
  <1>2. Tokens(f, S) \cap X = {}
    <2>1. \A t \in X : t[1] = x
      OBVIOUS
    <2>2. \A t \in Tokens(f, S) : t[1] \in S
      BY DEF Tokens
    <2> QED BY <2>1, <2>2
  <1>3. IsFiniteSet(X) /\ Cardinality(X) = f[x]
    BY TokensOfOne
  <1> HIDE DEF X
  <1>4. /\ IsFiniteSet(Tokens(f, S) \cup X)
        /\ Cardinality(Tokens(f, S) \cup X) = Cardinality(Tokens(f, S)) + Cardinality(X) - Cardinality({})
    BY <1>2, <1>3, FS_Union
  <1>5. Cardinality({}) = 0 /\ Cardinality(Tokens(f, S)) \in Nat
    BY FS_EmptySet, FS_CardinalityType
  <1>6. Cardinality(X) = f[x]
    BY <1>3
  <1>7. Cardinality(Tokens(f, S) \cup X) = Cardinality(Tokens(f, S)) + f[x]
    BY <1>4, <1>5, <1>6
  <1>8. IsFiniteSet(Tokens(f, S \cup {x}))
    BY <1>1, <1>4
  <1> QED BY <1>1, <1>7, <1>8

\* Finitely many indices have finitely many tokens.
LEMMA TokensFinite ==
    ASSUME NEW S, IsFiniteSet(S), NEW f, \A x \in S : f[x] \in Nat
    PROVE  IsFiniteSet(Tokens(f, S)) /\ Cardinality(Tokens(f, S)) \in Nat
  <1> DEFINE T == {A \in SUBSET S : IsFiniteSet(Tokens(f, A))}
  <1>1. Tokens(f, {}) = {}
    BY DEF Tokens
  <1>2. {} \in T
    BY <1>1, FS_EmptySet
  <1>3. \A A \in SUBSET S : \A x \in S \ A : A \in T => A \cup {x} \in T
    BY TokensAdd
  <1> HIDE DEF T
  <1>4. S \in T
    BY <1>2, <1>3, SubsetInduction
  <1> QED BY <1>4, FS_CardinalityType DEF T

\* The sum is the number of tokens.
LEMMA SumIsTokens ==
    ASSUME NEW S, IsFiniteSet(S), NEW f, \A x \in S : f[x] \in Nat
    PROVE  SumFunctionOnSet(f, S) = Cardinality(Tokens(f, S))
  <1> DEFINE h == [s \in SUBSET S |-> Cardinality(Tokens(f, s))]
  <1>1. ASSUME NEW s \in SUBSET S, s # {}
        PROVE  Pick(s) \in s /\ Cardinality(Tokens(f, s)) = f[Pick(s)] + Cardinality(Tokens(f, s \ {Pick(s)}))
    <2>1. Pick(s) \in s
      BY <1>1 DEF Pick
    <2> DEFINE x == Pick(s)   r == s \ {x}
    <2>2. s = r \cup {x} /\ x \notin r /\ f[x] \in Nat /\ r \in SUBSET S
      BY <2>1
    <2>3. IsFiniteSet(Tokens(f, r)) /\ Cardinality(Tokens(f, r)) \in Nat
      BY <2>2, FS_Subset, TokensFinite
    <2> HIDE DEF x, r
    <2>4. Cardinality(Tokens(f, r \cup {x})) = Cardinality(Tokens(f, r)) + f[x]
      BY <2>2, <2>3, TokensAdd
    <2>5. Cardinality(Tokens(f, s)) = f[x] + Cardinality(Tokens(f, r))
      BY <2>2, <2>3, <2>4
    <2> QED BY <2>1, <2>5 DEF x, r
  <1>2. Cardinality(Tokens(f, {})) = 0
    BY FS_EmptySet DEF Tokens
  <1>3. Adds(f, S, h)
    <2>1. \A s \in SUBSET S : h[s] = IF s = {} THEN 0 ELSE f[Pick(s)] + h[s \ {Pick(s)}]
      BY <1>1, <1>2
    <2> HIDE DEF h
    <2>2. h = [s \in SUBSET S |-> h[s]]
      BY DEF h
    <2> QED BY <2>1, <2>2 DEF Adds
  <1> HIDE DEF h
  <1>4. ASSUME NEW g, Adds(f, S, g) PROVE g = h
    <2> DEFINE T == {A \in SUBSET S : g[A] = h[A]}
    <2>1. \A s \in SUBSET S : g[s] = IF s = {} THEN 0 ELSE f[Pick(s)] + g[s \ {Pick(s)}]
      BY <1>4 DEF Adds
    <2>2. \A s \in SUBSET S : h[s] = IF s = {} THEN 0 ELSE f[Pick(s)] + h[s \ {Pick(s)}]
      BY <1>3 DEF Adds
    <2>3. ASSUME NEW A \in SUBSET S, g[A] # h[A] PROVE FALSE
      <3> DEFINE U == {B \in SUBSET S : g[B] # h[B]}
      <3>1. U # {} /\ U \subseteq SUBSET S
        BY <2>3
      <3>2. IsWellFoundedOn(StrictSubsetOrdering(S), SUBSET S)
        BY FS_StrictSubsetOrderingWellFounded, FS_FiniteSubsetsOfFinite
      <3>3. PICK B \in U : \A C \in U : ~(<<C, B>> \in StrictSubsetOrdering(S))
        BY <3>1, <3>2, WFMin
      <3>4. B # {} /\ B \in SUBSET S /\ g[B] # h[B]
        BY <2>1, <2>2
      <3> DEFINE C == B \ {Pick(B)}
      <3>5. Pick(B) \in B
        BY <3>4 DEF Pick
      <3>6. C \in SUBSET S /\ C \subseteq B /\ C # B
        BY <3>4, <3>5
      <3>7. <<C, B>> \in StrictSubsetOrdering(S)
        BY <3>4, <3>6 DEF StrictSubsetOrdering
      <3>8. g[C] = h[C]
        BY <3>3, <3>6, <3>7
      <3> QED BY <2>1, <2>2, <3>4, <3>8
    <2>4. g = [s \in SUBSET S |-> g[s]] /\ h = [s \in SUBSET S |-> h[s]]
      BY <1>3, <1>4 DEF Adds
    <2> QED BY <2>3, <2>4
  <1>5. (CHOOSE g : Adds(f, S, g)) = h
    BY <1>3, <1>4
  <1> QED BY <1>5, SumIsChosen DEF h


-----------------------------------------------------------------------------
(* The facts the accounts need. *)

\* A sum of naturals is one.
LEMMA SumIsNat ==
    ASSUME NEW S, IsFiniteSet(S), NEW f, \A x \in S : f[x] \in Nat
    PROVE  SumFunctionOnSet(f, S) \in Nat
  BY SumIsTokens, TokensFinite

\* Sums see nothing of a function but its values on the set.
LEMMA SumIsSame ==
    ASSUME NEW S, IsFiniteSet(S), NEW f, NEW g, \A x \in S : f[x] \in Nat /\ g[x] = f[x]
    PROVE  SumFunctionOnSet(g, S) = SumFunctionOnSet(f, S)
  <1>1. Tokens(g, S) = Tokens(f, S)
    BY DEF Tokens
  <1>2. \A x \in S : g[x] \in Nat
    OBVIOUS
  <1> QED BY <1>1, <1>2, SumIsTokens

\* A member taken out of the sum.
LEMMA SumSplits ==
    ASSUME NEW S, IsFiniteSet(S), NEW f, \A x \in S : f[x] \in Nat, NEW a \in S
    PROVE  /\ SumFunctionOnSet(f, S \ {a}) \in Nat
           /\ SumFunctionOnSet(f, S) = SumFunctionOnSet(f, S \ {a}) + f[a]
  <1> DEFINE R == S \ {a}
  <1>1. IsFiniteSet(R) /\ a \notin R /\ S = R \cup {a} /\ \A x \in R : f[x] \in Nat
    BY FS_RemoveElement
  <1> HIDE DEF R
  <1>2. IsFiniteSet(Tokens(f, R))
    BY <1>1, TokensFinite
  <1>3. Cardinality(Tokens(f, R \cup {a})) = Cardinality(Tokens(f, R)) + f[a]
    BY <1>1, <1>2, TokensAdd
  <1>4. SumFunctionOnSet(f, S) = Cardinality(Tokens(f, S)) /\ SumFunctionOnSet(f, R) = Cardinality(Tokens(f, R))
    BY <1>1, SumIsTokens
  <1>5. SumFunctionOnSet(f, R) \in Nat
    BY <1>1, SumIsNat
  <1> QED BY <1>1, <1>3, <1>4, <1>5 DEF R

\* One value changes: the sum changes by as much.
LEMMA SumChanges ==
    ASSUME NEW S, IsFiniteSet(S), NEW f, NEW g, NEW a \in S,
           \A x \in S : f[x] \in Nat /\ g[x] \in Nat, \A x \in S \ {a} : g[x] = f[x]
    PROVE  SumFunctionOnSet(g, S) + f[a] = SumFunctionOnSet(f, S) + g[a]
  <1>1. IsFiniteSet(S \ {a})
    BY FS_RemoveElement
  <1>2. SumFunctionOnSet(g, S \ {a}) = SumFunctionOnSet(f, S \ {a})
    BY <1>1, SumIsSame
  <1>3. /\ SumFunctionOnSet(f, S \ {a}) \in Nat
        /\ SumFunctionOnSet(f, S) = SumFunctionOnSet(f, S \ {a}) + f[a]
    BY SumSplits
  <1>4. SumFunctionOnSet(g, S) = SumFunctionOnSet(g, S \ {a}) + g[a]
    BY SumSplits
  <1> QED BY <1>2, <1>3, <1>4

\* A sum of zeros is zero.
LEMMA SumOfZeros ==
    ASSUME NEW S, IsFiniteSet(S), NEW f, \A x \in S : f[x] = 0
    PROVE  SumFunctionOnSet(f, S) = 0
  <1>1. \A x \in S : f[x] \in Nat /\ 1..f[x] = {}
    OBVIOUS
  <1>2. Tokens(f, S) = {}
    BY <1>1 DEF Tokens
  <1>3. Cardinality({}) = 0
    BY FS_EmptySet
  <1>4. SumFunctionOnSet(f, S) = Cardinality(Tokens(f, S))
    BY <1>1, SumIsTokens
  <1> QED BY <1>2, <1>3, <1>4

\* Disjoint sets add up.
LEMMA SumOfUnion ==
    ASSUME NEW S, IsFiniteSet(S), NEW R, IsFiniteSet(R), S \cap R = {},
           NEW f, \A x \in S \cup R : f[x] \in Nat
    PROVE  SumFunctionOnSet(f, S \cup R) = SumFunctionOnSet(f, S) + SumFunctionOnSet(f, R)
  <1>1. IsFiniteSet(S \cup R)
    BY FS_Union
  <1>2. /\ IsFiniteSet(Tokens(f, S)) /\ Cardinality(Tokens(f, S)) \in Nat
        /\ IsFiniteSet(Tokens(f, R)) /\ Cardinality(Tokens(f, R)) \in Nat
    BY TokensFinite
  <1>3. Tokens(f, S \cup R) = Tokens(f, S) \cup Tokens(f, R)
    BY DEF Tokens
  <1>4. Tokens(f, S) \cap Tokens(f, R) = {}
    <2>1. (\A t \in Tokens(f, S) : t[1] \in S) /\ (\A t \in Tokens(f, R) : t[1] \in R)
      BY DEF Tokens
    <2> QED BY <2>1
  <1>5. Cardinality(Tokens(f, S) \cup Tokens(f, R))
          = Cardinality(Tokens(f, S)) + Cardinality(Tokens(f, R)) - Cardinality(Tokens(f, S) \cap Tokens(f, R))
    BY <1>2, FS_Union
  <1>6. Cardinality({}) = 0
    BY FS_EmptySet
  <1>7. /\ SumFunctionOnSet(f, S \cup R) = Cardinality(Tokens(f, S \cup R))
        /\ SumFunctionOnSet(f, S) = Cardinality(Tokens(f, S))
        /\ SumFunctionOnSet(f, R) = Cardinality(Tokens(f, R))
    BY <1>1, SumIsTokens
  <1>8. Cardinality(Tokens(f, S \cup R))
          = Cardinality(Tokens(f, S)) + Cardinality(Tokens(f, R)) - Cardinality({})
    BY <1>3, <1>4, <1>5, Zenon
  <1>9. Cardinality(Tokens(f, S \cup R)) = Cardinality(Tokens(f, S)) + Cardinality(Tokens(f, R))
    BY <1>2, <1>6, <1>8
  <1> QED BY <1>7, <1>9, Zenon

\* A larger set has no smaller sum.
LEMMA SumIsMonotone ==
    ASSUME NEW S, IsFiniteSet(S), NEW R \in SUBSET S, NEW f, \A x \in S : f[x] \in Nat
    PROVE  /\ SumFunctionOnSet(f, R) \in Nat /\ SumFunctionOnSet(f, S) \in Nat
           /\ SumFunctionOnSet(f, R) <= SumFunctionOnSet(f, S)
  <1> DEFINE Q == S \ R
  <1>1. IsFiniteSet(R) /\ IsFiniteSet(Q)
    BY FS_Subset
  <1>2. SumFunctionOnSet(f, R) \in Nat /\ SumFunctionOnSet(f, Q) \in Nat
    BY <1>1, SumIsNat
  <1>3. R \cup Q = S /\ R \cap Q = {}
    OBVIOUS
  <1> HIDE DEF Q
  <1>4. SumFunctionOnSet(f, R \cup Q) = SumFunctionOnSet(f, R) + SumFunctionOnSet(f, Q)
    BY <1>1, <1>3, SumOfUnion
  <1>5. SumFunctionOnSet(f, S) = SumFunctionOnSet(f, R) + SumFunctionOnSet(f, Q)
    BY <1>3, <1>4, Zenon
  <1> QED BY <1>2, <1>5

-----------------------------------------------------------------------------
(* Loops and folds.  FoldLeft is defined by a choice of a function on sets of   *)
(* indices; these lemmas make it the loop it stands for.                        *)

\* Counting up to n, for a set of numbers.
LEMMA CountingUp ==
    ASSUME NEW n \in Nat, NEW T, 0 \in T, \A k \in 0..(n - 1) : k \in T => k + 1 \in T
    PROVE  n \in T
  <1> DEFINE S == 1..n   K == {A \in SUBSET S : Cardinality(A) \in T}
  <1>1. IsFiniteSet(S) /\ Cardinality(S) = n
    BY FS_Interval
  <1>2. {} \in K
    BY FS_EmptySet
  <1>3. ASSUME NEW A \in SUBSET S, NEW x \in S \ A, A \in K PROVE A \cup {x} \in K
    <2>1. IsFiniteSet(A) /\ Cardinality(A) \in Nat
      BY <1>1, FS_Subset, FS_CardinalityType
    <2>2. Cardinality(A \cup {x}) = Cardinality(A) + 1
      BY <1>3, <2>1, FS_AddElement
    <2>3. A \cup {x} \in SUBSET S
      BY <1>3
    <2>4. Cardinality(A \cup {x}) <= n
      BY <1>1, <2>3, FS_Subset
    <2> HIDE DEF S
    <2>5. Cardinality(A) \in 0..(n - 1)
      BY <2>1, <2>2, <2>4
    <2> QED BY <1>3, <2>2, <2>3, <2>5
  <1> HIDE DEF S, K
  <1>4. S \in K
    BY <1>1, <1>2, <1>3, SubsetInduction
  <1> QED BY <1>1, <1>4 DEF K

\* h is what a loop over 1..n that starts with b and takes step O[<<v, k>>] in its
\* k-th turn goes through.
Turns(O, V, n) == \A v \in V, k \in 1..n : O[<<v, k>>] \in V
Loop(h, n, b, O) == h[0] = b /\ \A k \in 1..n : h[k] = O[<<h[k - 1], k>>]

\* Such a loop has its values.
LEMMA LoopExists ==
    ASSUME NEW n \in Nat, NEW V, NEW b \in V, NEW O, Turns(O, V, n)
    PROVE  \E h \in [0..n -> V] : Loop(h, n, b, O)
  <1> DEFINE T == {m \in 0..n : \E h \in [0..m -> V] : Loop(h, m, b, O)}
  <1>1. 0 \in T
    <2> DEFINE h == [i \in 0..0 |-> b]
    <2>1. h \in [0..0 -> V] /\ Loop(h, 0, b, O)
      BY DEF Loop
    <2> QED BY <2>1
  <1>2. ASSUME NEW m \in 0..(n - 1), m \in T PROVE m + 1 \in T
    <2>1. PICK h \in [0..m -> V] : Loop(h, m, b, O)
      BY <1>2
    <2> DEFINE g == [i \in 0..(m + 1) |-> IF i = m + 1 THEN O[<<h[m], m + 1>>] ELSE h[i]]
    <2>2. m \in 0..m /\ m + 1 \in 1..n /\ h[m] \in V
      OBVIOUS
    <2>3. O[<<h[m], m + 1>>] \in V
      BY <2>2 DEF Turns
    <2>4. g \in [0..(m + 1) -> V]
      BY <2>3
    <2>5. g[0] = b
      BY <2>1 DEF Loop
    <2>6. ASSUME NEW k \in 1..(m + 1) PROVE g[k] = O[<<g[k - 1], k>>]
      <3>1. CASE k = m + 1
        BY <3>1
      <3>2. CASE k \in 1..m
        <4>1. k # m + 1 /\ k - 1 # m + 1 /\ k \in 0..(m + 1) /\ k - 1 \in 0..(m + 1)
          BY <3>2
        <4>2. g[k] = h[k] /\ g[k - 1] = h[k - 1]
          BY <4>1
        <4> QED BY <2>1, <3>2, <4>2 DEF Loop
      <3> QED BY <3>1, <3>2
    <2> HIDE DEF g
    <2>7. Loop(g, m + 1, b, O)
      BY <2>5, <2>6 DEF Loop
    <2> QED BY <2>4, <2>7
  <1> HIDE DEF T
  <1>3. n \in T
    BY <1>1, <1>2, CountingUp
  <1> QED BY <1>3 DEF T

\* A loop that takes the turns of a set of numbers only.
TurnsOf(O, V, n, s) == [p \in V \X (1..n) |-> IF p[2] \in s THEN O[p] ELSE p[1]]

\* The largest number of a set of them.
LEMMA MaxOfNumbers ==
    ASSUME NEW n \in Nat, NEW s \in SUBSET (1..n), s # {}
    PROVE  Max(s) \in s /\ \A k \in s : k <= Max(s)
  <1> DEFINE T == {m \in 0..n : \A A \in SUBSET (1..m) : A # {} => \E x \in A : \A y \in A : x >= y}
  <1>1. 0 \in T
    <2>1. 1..0 = {} /\ 0 \in 0..n
      OBVIOUS
    <2> QED BY <2>1
  <1>2. ASSUME NEW m \in 0..(n - 1), m \in T PROVE m + 1 \in T
    <2>1. ASSUME NEW A \in SUBSET (1..(m + 1)), A # {} PROVE \E x \in A : \A y \in A : x >= y
      <3>1. CASE m + 1 \in A
        BY <3>1
      <3>2. CASE m + 1 \notin A
        <4>1. A \in SUBSET (1..m)
          BY <3>2
        <4> QED BY <1>2, <2>1, <4>1
      <3> QED BY <3>1, <3>2
    <2> QED BY <2>1
  <1> HIDE DEF T
  <1>3. n \in T
    BY <1>1, <1>2, CountingUp
  <1>4. \E x \in s : \A y \in s : x >= y
    BY <1>3 DEF T
  <1> QED BY <1>4 DEF Max

\* The function by which a fold over 1..n is defined exists.
IsFold(it, n, V, b, O) ==
    /\ it \in [SUBSET (1..n) -> V]
    /\ \A s \in SUBSET (1..n) : it[s] = IF s = {} THEN b ELSE O[<<it[s \ {Max(s)}], Max(s)>>]

\* The values of the loops over the subsets make it up.
LEMMA FoldExists ==
    ASSUME NEW n \in Nat, NEW V, NEW b \in V, NEW O, Turns(O, V, n)
    PROVE  \E it : IsFold(it, n, V, b, O)
  <1> DEFINE IsH(h, s) == h \in [0..n -> V] /\ Loop(h, n, b, TurnsOf(O, V, n, s))
             H(s) == CHOOSE h : IsH(h, s)
  <1>1. ASSUME NEW s PROVE \E h : IsH(h, s)
    <2>1. Turns(TurnsOf(O, V, n, s), V, n)
      BY DEF Turns, TurnsOf
    <2> QED BY <2>1, LoopExists
  <1>2. ASSUME NEW s
        PROVE  /\ H(s) \in [0..n -> V] /\ H(s)[0] = b
               /\ \A k \in 1..n : H(s)[k] = IF k \in s THEN O[<<H(s)[k - 1], k>>] ELSE H(s)[k - 1]
    <2>1. IsH(H(s), s)
      BY <1>1
    <2> DEFINE h == H(s)
    <2> HIDE DEF h
    <2>2. h \in [0..n -> V] /\ Loop(h, n, b, TurnsOf(O, V, n, s))
      BY <2>1 DEF h
    <2>3. ASSUME NEW k \in 1..n PROVE h[k] = IF k \in s THEN O[<<h[k - 1], k>>] ELSE h[k - 1]
      <3>1. h[k - 1] \in V
        BY <2>2
      <3>2. h[k] = TurnsOf(O, V, n, s)[<<h[k - 1], k>>]
        BY <2>2 DEF Loop
      <3> QED BY <3>1, <3>2 DEF TurnsOf
    <2>4. h[0] = b
      BY <2>2 DEF Loop
    <2> QED BY <2>2, <2>3, <2>4 DEF h
  <1> HIDE DEF H
  <1>3. ASSUME NEW s \in SUBSET (1..n), s # {}
        PROVE  H(s)[n] = O[<<H(s \ {Max(s)})[n], Max(s)>>]
    <2> DEFINE m == Max(s)   r == s \ {m}   g == H(s)   h == H(r)
    <2>1. m \in 1..n /\ m \in s /\ (\A k \in s : k <= m)
      BY <1>3, MaxOfNumbers
    <2>2. /\ g[0] = b
          /\ \A k \in 1..n : g[k] = IF k \in s THEN O[<<g[k - 1], k>>] ELSE g[k - 1]
          /\ h[0] = b
          /\ \A k \in 1..n : h[k] = IF k \in r THEN O[<<h[k - 1], k>>] ELSE h[k - 1]
      BY <1>2
    <2>3. \A k \in 1..n : (k < m => (k \in s <=> k \in r)) /\ (k > m => k \notin s) /\ (k >= m => k \notin r)
      BY <2>1
    <2> HIDE DEF m, r, g, h
    <2>4. g[m - 1] = h[m - 1]
      <3> DEFINE T == {k \in 0..(m - 1) : g[k] = h[k]}
      <3>1. 0 \in T
        BY <2>1, <2>2
      <3>2. ASSUME NEW k \in 0..((m - 1) - 1), k \in T PROVE k + 1 \in T
        <4>1. k + 1 \in 1..n /\ k + 1 < m /\ (k + 1) - 1 = k /\ k + 1 \in 0..(m - 1)
          BY <2>1, <3>2
        <4>2. g[k] = h[k]
          BY <3>2
        <4> DEFINE e == k + 1
        <4> HIDE DEF e
        <4>3. e \in 1..n /\ e < m /\ e - 1 = k
          BY <4>1 DEF e
        <4>4. g[e] = h[e]
          BY <2>2, <2>3, <4>2, <4>3
        <4> QED BY <4>1, <4>4 DEF e
      <3>3. m - 1 \in Nat
        BY <2>1
      <3> HIDE DEF T
      <3>4. m - 1 \in T
        BY <3>1, <3>2, <3>3, CountingUp
      <3> QED BY <3>4 DEF T
    <2>5. g[n] = g[m] /\ h[n] = h[m - 1]
      <3> DEFINE T == {d \in 0..(n - m) : g[m + d] = g[m] /\ h[m + d] = h[m - 1]}
      <3>1. 0 \in T
        <4>1. m + 0 = m /\ m \in 1..n /\ m >= m /\ 0 \in 0..(n - m)
          BY <2>1
        <4>2. h[m] = h[m - 1]
          BY <2>2, <2>3, <4>1
        <4> QED BY <4>1, <4>2
      <3>2. ASSUME NEW d \in 0..((n - m) - 1), d \in T PROVE d + 1 \in T
        <4>1. m + (d + 1) \in 1..n /\ m + (d + 1) > m /\ (m + (d + 1)) - 1 = m + d /\ d + 1 \in 0..(n - m)
          BY <2>1, <3>2
        <4> DEFINE e == m + (d + 1)
        <4> HIDE DEF e
        <4>3. e \in 1..n /\ e > m /\ e >= m /\ e - 1 = m + d
          BY <2>1, <4>1 DEF e
        <4>4. g[e] = g[e - 1] /\ h[e] = h[e - 1]
          BY <2>2, <2>3, <4>3
        <4>2. g[m + (d + 1)] = g[m + d] /\ h[m + (d + 1)] = h[m + d]
          BY <4>3, <4>4 DEF e
        <4> QED BY <3>2, <4>1, <4>2
      <3>3. n - m \in Nat /\ m + (n - m) = n
        BY <2>1
      <3> HIDE DEF T
      <3>4. n - m \in T
        BY <3>1, <3>2, <3>3, CountingUp
      <3> QED BY <3>3, <3>4 DEF T
    <2>6. g[n] = O[<<h[n], m>>]
      BY <2>1, <2>2, <2>4, <2>5
    <2> QED BY <2>6 DEF g, h, r, m
  <1>4. H({})[n] = b
    <2> DEFINE T == {k \in 0..n : H({})[k] = b}
    <2>1. 0 \in T
      BY <1>2
    <2>2. ASSUME NEW k \in 0..(n - 1), k \in T PROVE k + 1 \in T
      <3>1. k + 1 \in 1..n /\ (k + 1) - 1 = k /\ k + 1 \in 0..n
        OBVIOUS
      <3>2. H({})[k + 1] = H({})[(k + 1) - 1]
        BY <1>2, <3>1
      <3> QED BY <2>2, <3>1, <3>2
    <2> HIDE DEF T
    <2>3. n \in T
      BY <2>1, <2>2, CountingUp
    <2> QED BY <2>3 DEF T
  <1> DEFINE it == [s \in SUBSET (1..n) |-> H(s)[n]]
  <1>5. it \in [SUBSET (1..n) -> V]
    <2>1. \A s : H(s)[n] \in V
      BY <1>2
    <2> QED BY <2>1
  <1>6. ASSUME NEW s \in SUBSET (1..n)
        PROVE  it[s] = IF s = {} THEN b ELSE O[<<it[s \ {Max(s)}], Max(s)>>]
    BY <1>3, <1>4
  <1> HIDE DEF it
  <1>7. IsFold(it, n, V, b, O)
    BY <1>5, <1>6 DEF IsFold
  <1> QED BY <1>7

\* g takes the same turns, as long as its values lie in V.
Follows(g, n, V, b, O) == g[0] = b /\ \A k \in 1..n : g[k - 1] \in V => g[k] = O[<<g[k - 1], k>>]

\* It goes through the same values then.
LEMMA SameLoop ==
    ASSUME NEW n \in Nat, NEW V, NEW O, NEW b, NEW h \in [0..n -> V], Loop(h, n, b, O),
           NEW g, Follows(g, n, V, b, O)
    PROVE  g[n] = h[n]
  <1> DEFINE T == {k \in 0..n : g[k] = h[k]}
  <1>1. 0 \in T
    BY DEF Loop, Follows
  <1>2. ASSUME NEW k \in 0..(n - 1), k \in T PROVE k + 1 \in T
    <2>1. k + 1 \in 1..n /\ (k + 1) - 1 = k /\ k + 1 \in 0..n /\ h[k] \in V
      OBVIOUS
    <2>2. g[k] = h[k]
      BY <1>2
    <2>3. g[k + 1] = O[<<g[k], k + 1>>]
      BY <2>1, <2>2 DEF Follows
    <2>4. h[k + 1] = O[<<h[k], k + 1>>]
      BY <2>1 DEF Loop
    <2> QED BY <2>1, <2>2, <2>3, <2>4
  <1> HIDE DEF T
  <1>3. n \in T
    BY <1>1, <1>2, CountingUp
  <1> QED BY <1>3 DEF T

\* The largest of the first k numbers.
LEMMA MaxOfFirst ==
    ASSUME NEW n \in Nat, NEW k \in 1..n
    PROVE  Max(1..k) = k /\ (1..k) \ {k} = 1..(k - 1) /\ 1..k \in SUBSET (1..n) /\ 1..k # {}
  <1>1. 1..k \in SUBSET (1..k) /\ 1..k # {} /\ k \in Nat /\ k \in 1..k
    OBVIOUS
  <1>2. Max(1..k) \in 1..k /\ \A j \in 1..k : j <= Max(1..k)
    BY <1>1, MaxOfNumbers
  <1>3. Max(1..k) = k
    BY <1>1, <1>2
  <1> QED BY <1>3

\* f gives what a fold over 1..n gives, as long as that lies in V.
FoldedBy(f, n, V, b, O) ==
    /\ f[{}] = b
    /\ \A s \in SUBSET (1..n) : s # {} /\ f[s \ {Max(s)}] \in V => f[s] = O[<<f[s \ {Max(s)}], Max(s)>>]

\* A fold over 1..n gives what the loop ends with.
LEMMA FoldIsLoop ==
    ASSUME NEW n \in Nat, NEW V, NEW b, NEW O, NEW h \in [0..n -> V], Loop(h, n, b, O),
           NEW f, FoldedBy(f, n, V, b, O)
    PROVE  f[1..n] = h[n]
  <1> DEFINE g == [k \in 0..n |-> f[1..k]]
  <1>1. g[0] = b
    <2>1. g[0] = f[1..0] /\ 1..0 = {}
      OBVIOUS
    <2> QED BY <2>1 DEF FoldedBy
  <1>2. ASSUME NEW k \in 1..n, g[k - 1] \in V PROVE g[k] = O[<<g[k - 1], k>>]
    <2>1. Max(1..k) = k /\ (1..k) \ {k} = 1..(k - 1) /\ 1..k \in SUBSET (1..n) /\ 1..k # {}
      BY MaxOfFirst
    <2>2. g[k] = f[1..k] /\ g[k - 1] = f[1..(k - 1)]
      OBVIOUS
    <2>3. (1..k) \ {Max(1..k)} = 1..(k - 1)
      BY <2>1
    <2>4. f[(1..k) \ {Max(1..k)}] \in V
      BY <1>2, <2>2, <2>3
    <2>5. f[1..k] = O[<<f[(1..k) \ {Max(1..k)}], Max(1..k)>>]
      BY <2>1, <2>4 DEF FoldedBy
    <2> QED BY <2>1, <2>2, <2>3, <2>5, Zenon
  <1>3. g[n] = f[1..n]
    OBVIOUS
  <1> HIDE DEF g
  <1>4. Follows(g, n, V, b, O)
    BY <1>1, <1>2 DEF Follows
  <1>5. g[n] = h[n]
    BY <1>4, SameLoop
  <1> QED BY <1>3, <1>5

\* O takes a value of V and an element of E to a value of V.
Steps(O, V, E) == O \in [V \X E -> V]

\* h is what folding O over s goes through, from b.
Run(h, O, V, b, s) ==
    /\ h \in [0..Len(s) -> V] /\ h[0] = b
    /\ \A k \in 1..Len(s) : h[k] = O[<<h[k - 1], s[k]>>]
FoldOf(O, V, b, s) == (CHOOSE h : Run(h, O, V, b, s))[Len(s)]

\* Its turns, as those of a loop over the indices of s.
TurnsOn(O, V, s) == [p \in V \X (1..Len(s)) |-> O[<<p[1], s[p[2]]>>]]

\* They are turns within V.
LEMMA TurnsOnSequence ==
    ASSUME NEW V, NEW E, NEW O, Steps(O, V, E), NEW s \in Seq(E)
    PROVE  /\ Len(s) \in Nat /\ DOMAIN s = 1..Len(s) /\ Turns(TurnsOn(O, V, s), V, Len(s))
           /\ \A v \in V, k \in 1..Len(s) : TurnsOn(O, V, s)[<<v, k>>] = O[<<v, s[k]>>] /\ s[k] \in E
  <1>1. \A v \in V, k \in 1..Len(s) : s[k] \in E /\ O[<<v, s[k]>>] \in V
    BY DEF Steps
  <1>2. \A v \in V, k \in 1..Len(s) : TurnsOn(O, V, s)[<<v, k>>] = O[<<v, s[k]>>]
    BY DEF TurnsOn
  <1>3. Turns(TurnsOn(O, V, s), V, Len(s))
    BY <1>1, <1>2 DEF Turns
  <1>4. Len(s) \in Nat /\ DOMAIN s = 1..Len(s)
    OBVIOUS
  <1> QED BY <1>1, <1>2, <1>3, <1>4

\* It goes through these values.
LEMMA RunExists ==
    ASSUME NEW V, NEW E, NEW O, Steps(O, V, E), NEW b \in V, NEW s \in Seq(E)
    PROVE  /\ \E h : Run(h, O, V, b, s) /\ FoldOf(O, V, b, s) = h[Len(s)]
           /\ \A h : Run(h, O, V, b, s) => Loop(h, Len(s), b, TurnsOn(O, V, s))
  <1> DEFINE n == Len(s)
  <1>1. /\ n \in Nat /\ Turns(TurnsOn(O, V, s), V, n)
        /\ \A v \in V, k \in 1..n : TurnsOn(O, V, s)[<<v, k>>] = O[<<v, s[k]>>]
    BY TurnsOnSequence
  <1>2. PICK h \in [0..n -> V] : Loop(h, n, b, TurnsOn(O, V, s))
    BY <1>1, LoopExists
  <1>3. Run(h, O, V, b, s)
    <2>1. \A k \in 1..n : h[k - 1] \in V
      BY <1>1
    <2> QED BY <1>1, <1>2, <2>1 DEF Run, Loop
  <1>4. ASSUME NEW g, Run(g, O, V, b, s) PROVE Loop(g, n, b, TurnsOn(O, V, s))
    <2>1. \A k \in 1..n : g[k - 1] \in V
      <3>1. \A k \in 1..n : k - 1 \in 0..n
        BY <1>1
      <3>2. g \in [0..n -> V]
        BY <1>4 DEF Run
      <3> HIDE DEF n
      <3> QED BY <3>1, <3>2
    <2> QED BY <1>1, <1>4, <2>1 DEF Run, Loop
  <1>5. Run(CHOOSE g : Run(g, O, V, b, s), O, V, b, s)
    BY <1>3
  <1> QED BY <1>4, <1>5 DEF FoldOf

\* A fold takes the elements one by one.
LEMMA FoldByOne ==
    ASSUME NEW V, NEW E, NEW O, Steps(O, V, E), NEW b \in V
    PROVE  /\ FoldOf(O, V, b, <<>>) = b
           /\ \A s \in Seq(E) : FoldOf(O, V, b, s) \in V
           /\ \A s \in Seq(E), e \in E : FoldOf(O, V, b, Append(s, e)) = O[<<FoldOf(O, V, b, s), e>>]
  <1>1. FoldOf(O, V, b, <<>>) = b
    <2> DEFINE s == <<>>
    <2>1. s \in Seq(E)
      OBVIOUS
    <2>4. Len(s) = 0
      OBVIOUS
    <2> HIDE DEF s
    <2>2. PICK h : Run(h, O, V, b, s) /\ FoldOf(O, V, b, s) = h[Len(s)]
      BY <2>1, RunExists
    <2>3. FoldOf(O, V, b, s) = b
      BY <2>2, <2>4 DEF Run
    <2> QED BY <2>3 DEF s
  <1>2. ASSUME NEW s \in Seq(E) PROVE FoldOf(O, V, b, s) \in V
    <2>1. PICK h : Run(h, O, V, b, s) /\ FoldOf(O, V, b, s) = h[Len(s)]
      BY RunExists
    <2>2. Len(s) \in 0..Len(s)
      OBVIOUS
    <2> QED BY <2>1, <2>2 DEF Run
  <1>3. ASSUME NEW s \in Seq(E), NEW e \in E
        PROVE  FoldOf(O, V, b, Append(s, e)) = O[<<FoldOf(O, V, b, s), e>>]
    <2> DEFINE t == Append(s, e)   n == Len(s)
    <2>1. t \in Seq(E) /\ n \in Nat /\ Len(t) = n + 1 /\ t[n + 1] = e /\ \A k \in 1..n : t[k] = s[k]
      OBVIOUS
    <2> HIDE DEF t, n
    <2>2. PICK h : Run(h, O, V, b, s) /\ FoldOf(O, V, b, s) = h[n]
      BY RunExists DEF n
    <2>3. PICK g : Run(g, O, V, b, t) /\ FoldOf(O, V, b, t) = g[n + 1]
      BY <2>1, RunExists
    <2>4. h \in [0..n -> V] /\ Loop(h, n, b, TurnsOn(O, V, s))
      BY <2>2, RunExists DEF Run, n
    <2>5. /\ g[0] = b /\ g[n + 1] = O[<<g[n], e>>]
          /\ \A k \in 1..n : g[k] = O[<<g[k - 1], s[k]>>]
      <3>1. (n + 1) - 1 = n /\ n + 1 \in 1..(n + 1) /\ \A k \in 1..n : k \in 1..(n + 1)
        BY <2>1
      <3> QED BY <2>1, <2>3, <3>1 DEF Run
    <2>6. Follows(g, n, V, b, TurnsOn(O, V, s))
      <3>1. \A v \in V, k \in 1..n : TurnsOn(O, V, s)[<<v, k>>] = O[<<v, s[k]>>]
        <4>1. /\ Turns(TurnsOn(O, V, s), V, Len(s))
              /\ \A v \in V, k \in 1..Len(s) : TurnsOn(O, V, s)[<<v, k>>] = O[<<v, s[k]>>]
          BY TurnsOnSequence
        <4> QED BY <4>1 DEF n
      <3> QED BY <2>5, <3>1 DEF Follows
    <2>7. g[n] = h[n]
      BY <2>1, <2>4, <2>6, SameLoop
    <2> QED BY <2>2, <2>3, <2>5, <2>7 DEF t
  <1> QED BY <1>1, <1>2, <1>3

\* The function on sets of indices by which FoldLeft defines a fold over s exists.
Iter(it, O, V, E, b, s) ==
    /\ it = [t \in SUBSET DOMAIN s |-> it[t]] /\ it[{}] = b
    /\ \A t \in SUBSET DOMAIN s : t # {} =>
          s[Max(t)] \in E /\ it[t \ {Max(t)}] \in V /\ it[t] = O[<<it[t \ {Max(t)}], s[Max(t)]>>]

\* It is the fold over the indices.
LEMMA IterExists ==
    ASSUME NEW V, NEW E, NEW O, Steps(O, V, E), NEW b \in V, NEW s \in Seq(E)
    PROVE  \E it : Iter(it, O, V, E, b, s)
  <1> DEFINE n == Len(s)   P == TurnsOn(O, V, s)
  <1>1. /\ n \in Nat /\ DOMAIN s = 1..n /\ Turns(P, V, n)
        /\ \A v \in V, k \in 1..n : P[<<v, k>>] = O[<<v, s[k]>>] /\ s[k] \in E
    BY TurnsOnSequence
  <1> HIDE DEF n, P
  <1>2. PICK it : IsFold(it, n, V, b, P)
    BY <1>1, FoldExists
  <1>3. ASSUME NEW t \in SUBSET (1..n), t # {}
        PROVE  s[Max(t)] \in E /\ it[t \ {Max(t)}] \in V /\ it[t] = O[<<it[t \ {Max(t)}], s[Max(t)]>>]
    <2>1. Max(t) \in 1..n /\ t \ {Max(t)} \in SUBSET (1..n)
      BY <1>1, <1>3, MaxOfNumbers
    <2>2. it[t \ {Max(t)}] \in V /\ it[t] = P[<<it[t \ {Max(t)}], Max(t)>>]
      BY <1>2, <1>3, <2>1 DEF IsFold
    <2> QED BY <1>1, <2>1, <2>2
  <1>4. it = [t \in SUBSET (1..n) |-> it[t]] /\ it[{}] = b
    BY <1>2 DEF IsFold
  <1> QED BY <1>1, <1>3, <1>4 DEF Iter

\* f takes the turns of the fold on sets of indices, as long as its values lie in V.
IterOf(f, O, V, E, b, s) ==
    /\ f[{}] = b
    /\ \A t \in SUBSET DOMAIN s : t # {} /\ s[Max(t)] \in E /\ f[t \ {Max(t)}] \in V =>
          f[t] = O[<<f[t \ {Max(t)}], s[Max(t)]>>]

\* On all indices it is the fold.
LEMMA IterIsFold ==
    ASSUME NEW V, NEW E, NEW O, Steps(O, V, E), NEW b \in V, NEW s \in Seq(E),
           NEW f, IterOf(f, O, V, E, b, s)
    PROVE  f[DOMAIN s] = FoldOf(O, V, b, s)
  <1> DEFINE n == Len(s)   P == TurnsOn(O, V, s)
  <1>1. /\ n \in Nat /\ DOMAIN s = 1..n
        /\ \A v \in V, k \in 1..n : P[<<v, k>>] = O[<<v, s[k]>>] /\ s[k] \in E
    BY TurnsOnSequence
  <1>2. PICK h : Run(h, O, V, b, s) /\ FoldOf(O, V, b, s) = h[n]
    BY RunExists
  <1>3. h \in [0..n -> V] /\ Loop(h, n, b, P)
    BY <1>2, RunExists DEF Run
  <1> HIDE DEF n, P
  <1>4. FoldedBy(f, n, V, b, P)
    <2>1. ASSUME NEW t \in SUBSET (1..n), t # {}, f[t \ {Max(t)}] \in V
          PROVE  f[t] = P[<<f[t \ {Max(t)}], Max(t)>>]
      <3>1. Max(t) \in 1..n
        BY <1>1, <2>1, MaxOfNumbers
      <3> QED BY <1>1, <2>1, <3>1 DEF IterOf
    <2> QED BY <2>1 DEF FoldedBy, IterOf
  <1>5. f[1..n] = h[n]
    BY <1>1, <1>3, <1>4, FoldIsLoop
  <1> QED BY <1>1, <1>2, <1>5

\* The list a loop over a list has seen after k turns.
LEMMA FirstAndNext ==
    ASSUME NEW B, NEW vs \in Seq(B)
    PROVE  /\ SubSeq(vs, 1, 0) = <<>> /\ SubSeq(vs, 1, Len(vs)) = vs
           /\ \A k \in 0..(Len(vs) - 1) :
                 /\ SubSeq(vs, 1, k) \in Seq(B) /\ vs[k + 1] \in B
                 /\ SubSeq(vs, 1, k + 1) = Append(SubSeq(vs, 1, k), vs[k + 1])
  OBVIOUS

\* Induction over a sequence, for a set of sequences.
LEMMA ListInduction ==
    ASSUME NEW B, NEW vs \in Seq(B), NEW T, <<>> \in T,
           \A p \in Seq(B), v \in B : p \in T => Append(p, v) \in T
    PROVE  vs \in T
  <1> DEFINE n == Len(vs)   K == {k \in 0..n : SubSeq(vs, 1, k) \in T}
  <1>1. n \in Nat /\ 0 \in 0..n
    OBVIOUS
  <1>2. 0 \in K
    BY <1>1, FirstAndNext
  <1>3. ASSUME NEW k \in 0..(n - 1), k \in K PROVE k + 1 \in K
    <2>1. /\ SubSeq(vs, 1, k) \in Seq(B) /\ vs[k + 1] \in B
          /\ SubSeq(vs, 1, k + 1) = Append(SubSeq(vs, 1, k), vs[k + 1])
      BY FirstAndNext
    <2>2. k + 1 \in 0..n
      BY <1>1
    <2> DEFINE p == SubSeq(vs, 1, k)   v == vs[k + 1]
    <2>3. p \in Seq(B) /\ v \in B /\ p \in T
      BY <1>3, <2>1
    <2> HIDE DEF p, v
    <2>4. Append(p, v) \in T
      BY <2>3
    <2> QED BY <2>1, <2>2, <2>4, Zenon DEF p, v
  <1> HIDE DEF K
  <1>4. n \in K
    BY <1>1, <1>2, <1>3, CountingUp
  <1> QED BY <1>4, FirstAndNext DEF K

\* Lists one behind the other.
LEMMA JoinedLists ==
    /\ \A B : \A a \in Seq(B) : a \o <<>> = a /\ <<>> \o a = a
    /\ \A B : \A a, b \in Seq(B) : a \o b \in Seq(B) /\ \A v \in B : a \o Append(b, v) = Append(a \o b, v)
  OBVIOUS

\* Three of them.
LEMMA JoinedThree ==
    ASSUME NEW B, NEW a \in Seq(B), NEW b \in Seq(B), NEW c \in Seq(B)
    PROVE  (a \o b) \o c = a \o (b \o c)
  OBVIOUS

\* a and c are what is before and behind the i-th place of s, with w in it or not.
IsCut(s, i, w, a, c) == s = Append(a, s[i]) \o c /\ [s EXCEPT ![i] = w] = Append(a, w) \o c

\* A list can be cut at a place.
LEMMA CutAt ==
    ASSUME NEW B, NEW s \in Seq(B), NEW i \in 1..Len(s), NEW w \in B
    PROVE  \E a \in Seq(B), c \in Seq(B) : IsCut(s, i, w, a, c)
  <1> DEFINE n == Len(s)   a == SubSeq(s, 1, i - 1)   c == SubSeq(s, i + 1, n)
  <1>1. /\ n \in Nat /\ i - 1 \in Nat /\ n - i \in Nat
        /\ a \in Seq(B) /\ Len(a) = i - 1 /\ (\A k \in 1..(i - 1) : a[k] = s[k])
        /\ c \in Seq(B) /\ Len(c) = n - i /\ (\A k \in 1..(n - i) : c[k] = s[i + k])
    OBVIOUS
  <1>2. s[i] \in B
    OBVIOUS
  <1> HIDE DEF a, c
  <1>3. ASSUME NEW v \in B PROVE Append(a, v) \o c = [k \in 1..n |-> IF k = i THEN v ELSE s[k]]
    <2> DEFINE d == Append(a, v)   r == d \o c
    <2>1. d \in Seq(B) /\ Len(d) = i /\ d[i] = v /\ \A k \in 1..(i - 1) : d[k] = s[k]
      BY <1>1
    <2> HIDE DEF d
    <2>2. r \in Seq(B) /\ Len(r) = n /\ \A k \in 1..n : r[k] = IF k <= i THEN d[k] ELSE c[k - i]
      <3>1. d \in Seq(B) /\ c \in Seq(B)
        BY <1>1, <2>1
      <3>2. /\ d \o c \in Seq(B) /\ Len(d \o c) = Len(d) + Len(c)
            /\ \A k \in 1..(Len(d) + Len(c)) : (d \o c)[k] = IF k <= Len(d) THEN d[k] ELSE c[k - Len(d)]
        BY <3>1
      <3>3. Len(d) = i /\ Len(d) + Len(c) = n
        BY <1>1, <2>1
      <3> HIDE DEF n
      <3> QED BY <3>2, <3>3
    <2> HIDE DEF r
    <2>3. ASSUME NEW k \in 1..n PROVE r[k] = IF k = i THEN v ELSE s[k]
      <3>1. CASE k < i
        BY <2>1, <2>2, <3>1
      <3>2. CASE k = i
        BY <2>1, <2>2, <3>2
      <3>3. CASE k > i
        <4>1. k - i \in 1..(n - i) /\ i + (k - i) = k
          BY <3>3
        <4> QED BY <1>1, <2>2, <3>3, <4>1
      <3> QED BY <3>1, <3>2, <3>3
    <2>4. r = [k \in 1..n |-> r[k]]
      BY <2>2
    <2>5. r = [k \in 1..n |-> IF k = i THEN v ELSE s[k]]
      BY <2>3, <2>4
    <2> QED BY <2>5 DEF r, d
  <1>4. s = [k \in 1..n |-> IF k = i THEN s[i] ELSE s[k]]
    OBVIOUS
  <1>5. [s EXCEPT ![i] = w] = [k \in 1..n |-> IF k = i THEN w ELSE s[k]]
    BY SMTT(30)
  <1>6. IsCut(s, i, w, a, c)
    BY <1>2, <1>3, <1>4, <1>5 DEF IsCut
  <1> QED BY <1>1, <1>6

-----------------------------------------------------------------------------
(* Counting in a sequence. *)

\* Where x stands in a sequence.
Spots(s, x) == {k \in DOMAIN s : s[k] = x}

\* There are finitely many such places.
LEMMA SpotsFinite ==
    ASSUME NEW B, NEW s \in Seq(B), NEW x
    PROVE  IsFiniteSet(Spots(s, x)) /\ Cardinality(Spots(s, x)) \in Nat
  <1>1. IsFiniteSet(1..Len(s)) /\ Spots(s, x) \in SUBSET (1..Len(s))
    BY FS_Interval DEF Spots
  <1> QED BY <1>1, FS_Subset, FS_CardinalityType

\* Of two sequences one behind the other, each counts its own.
LEMMA SpotsOfConcat ==
    ASSUME NEW B, NEW s \in Seq(B), NEW t \in Seq(B), NEW x
    PROVE  Cardinality(Spots(s \o t, x)) = Cardinality(Spots(s, x)) + Cardinality(Spots(t, x))
  <1> DEFINE m == Len(s)
             P == {k \in (m + 1)..(m + Len(t)) : t[k - m] = x}
             f == [k \in Spots(t, x) |-> k + m]
  <1>1. m \in Nat /\ Len(t) \in Nat /\ Len(s \o t) = m + Len(t) /\ DOMAIN (s \o t) = 1..(m + Len(t))
        /\ DOMAIN s = 1..m /\ DOMAIN t = 1..Len(t)
        /\ \A k \in 1..(m + Len(t)) : (s \o t)[k] = IF k <= m THEN s[k] ELSE t[k - m]
    OBVIOUS
  <1> HIDE DEF m
  <1>2. Spots(s \o t, x) = Spots(s, x) \cup P
    <2>1. ASSUME NEW k PROVE k \in Spots(s \o t, x) <=> k \in Spots(s, x) \cup P
      BY <1>1 DEF Spots
    <2> QED BY <2>1
  <1>3. Spots(s, x) \cap P = {}
    BY <1>1 DEF Spots
  <1>4. f \in Bijection(Spots(t, x), P)
    <2>1. f \in [Spots(t, x) -> P]
      BY <1>1 DEF Spots
    <2>2. \A i, j \in Spots(t, x) : f[i] = f[j] => i = j
      BY <1>1 DEF Spots
    <2>3. \A k \in P : k - m \in Spots(t, x) /\ f[k - m] = k
      BY <1>1 DEF Spots
    <2> HIDE DEF f, P
    <2> QED BY <2>1, <2>2, <2>3 DEF Bijection, Injection, Surjection, IsInjective
  <1> HIDE DEF P
  <1>5. IsFiniteSet(P) /\ Cardinality(P) = Cardinality(Spots(t, x))
    <2>1. ExistsBijection(Spots(t, x), P)
      BY <1>4 DEF ExistsBijection
    <2> QED BY <2>1, SpotsFinite, FS_Bijection
  <1>6. Cardinality(Spots(s, x) \cup P) = Cardinality(Spots(s, x)) + Cardinality(P) - Cardinality(Spots(s, x) \cap P)
    BY <1>5, SpotsFinite, FS_Union
  <1>7. Cardinality(Spots(s, x) \cap P) = 0
    BY <1>3, FS_EmptySet
  <1>8. Cardinality(Spots(s, x)) \in Nat /\ Cardinality(Spots(t, x)) \in Nat
    BY SpotsFinite
  <1> QED BY <1>2, <1>5, <1>6, <1>7, <1>8

\* How often x stands in a sequence.
Occurs(s, x) == Cardinality(Spots(s, x))

\* It is counted in numbers, and stands there if it does so at least once.
LEMMA OccursIsNat ==
    ASSUME NEW B, NEW s \in Seq(B), NEW x
    PROVE  Occurs(s, x) \in Nat /\ (x \in {s[k] : k \in DOMAIN s} <=> Occurs(s, x) > 0)
  <1>1. IsFiniteSet(Spots(s, x)) /\ Occurs(s, x) \in Nat
    BY SpotsFinite DEF Occurs
  <1>2. Occurs(s, x) = 0 <=> Spots(s, x) = {}
    BY <1>1, FS_EmptySet DEF Occurs
  <1>3. x \in {s[k] : k \in DOMAIN s} <=> Spots(s, x) # {}
    BY DEF Spots
  <1> QED BY <1>1, <1>2, <1>3

\* Sequences one behind the other.
LEMMA OccursJoined ==
    ASSUME NEW B, NEW s \in Seq(B), NEW t \in Seq(B), NEW x
    PROVE  Occurs(s \o t, x) = Occurs(s, x) + Occurs(t, x)
  BY SpotsOfConcat DEF Occurs

\* The sequence of one element, and the empty one.
LEMMA OccursInShort ==
    ASSUME NEW y, NEW x
    PROVE  Occurs(<<>>, x) = 0 /\ Occurs(<<y>>, x) = IF x = y THEN 1 ELSE 0
  <1>1. Spots(<<>>, x) = {}
    BY DEF Spots
  <1>2. Spots(<<y>>, x) = IF x = y THEN {1} ELSE {}
    BY DEF Spots
  <1>3. Cardinality({1}) = 1
    BY FS_Singleton
  <1> QED BY <1>1, <1>2, <1>3, FS_EmptySet DEF Occurs

\* Where nothing stands twice there are as many elements as places.
LEMMA OncePerPlace ==
    ASSUME NEW B, NEW s \in Seq(B), \A x : Occurs(s, x) <= 1
    PROVE  Cardinality({s[k] : k \in DOMAIN s}) = Len(s)
  <1> DEFINE n == Len(s)   R == {s[k] : k \in DOMAIN s}
  <1>1. n \in Nat /\ DOMAIN s = 1..n /\ s \in [1..n -> R]
    OBVIOUS
  <1>2. ASSUME NEW i \in 1..n, NEW j \in 1..n, s[i] = s[j] PROVE i = j
    <2> DEFINE P == Spots(s, s[i])
    <2>1. i \in P /\ j \in P
      BY <1>1, <1>2 DEF Spots
    <2>2. IsFiniteSet(P) /\ Cardinality(P) \in Nat /\ Cardinality(P) <= 1
      BY SpotsFinite DEF Occurs
    <2> HIDE DEF P
    <2>3. IsFiniteSet({i}) /\ Cardinality({i}) = 1 /\ {i} \subseteq P
      BY <2>1, FS_Singleton
    <2>4. {i} = P
      <3>1. Cardinality({i}) <= Cardinality(P) /\ (Cardinality({i}) = Cardinality(P) => {i} = P)
        BY <2>2, <2>3, FS_Subset
      <3>2. Cardinality(P) = 1
        BY <2>2, <2>3, <3>1
      <3> QED BY <2>3, <3>1, <3>2
    <2> QED BY <2>1, <2>4
  <1>3. s \in Bijection(1..n, R)
    <2>1. \A r \in R : \E k \in 1..n : s[k] = r
      BY <1>1
    <2> HIDE DEF R
    <2> QED BY <1>1, <1>2, <2>1 DEF Bijection, Injection, Surjection, IsInjective
  <1>4. IsFiniteSet(1..n) /\ Cardinality(1..n) = n
    BY <1>1, FS_Interval
  <1> HIDE DEF R, n
  <1>5. ExistsBijection(1..n, R)
    BY <1>3 DEF ExistsBijection
  <1>6. Cardinality(1..n) = Cardinality(R)
    BY <1>4, <1>5, FS_Bijection
  <1> QED BY <1>4, <1>6 DEF R, n
=============================================================================
