------------------------------- MODULE FiniteSums -------------------------------
(***************************************************************************)
(* Sums of a column over a finite set of rows, MapThenSumSet of            *)
(* FiniteSetsExt: adding a row adds its amount, and only the rows of the   *)
(* set matter.  The recursive function behind the sum is shown to exist,   *)
(* and to be unique, by descent along strict inclusion.                    *)
(***************************************************************************)
EXTENDS FiniteSetsExt, FiniteSetTheorems, TLAPS

\* The sum of the column amount of table f over the rows of S.
AmountSum(f, S) == MapThenSumSet(LAMBDA r : f[r].amount, S)

NaturalAmounts(f, S) == \A r \in S : f[r].amount \in Nat

AnyRow(s) == CHOOSE x \in s : TRUE

\* g gives every subset of S its sum, one row after the other.
AddsUp(g, f, S) ==
    g = [s \in SUBSET S |-> IF s = {} THEN 0 ELSE f[AnyRow(s)].amount + g[s \ {AnyRow(s)}]]

\* The definition of MapThenSumSet in these terms.
LEMMA AmountSumIsChosen ==
    ASSUME NEW f, NEW S
    PROVE  AmountSum(f, S) = (CHOOSE g : AddsUp(g, f, S))[S]
BY DEF AmountSum, MapThenSumSet, MapThenFoldSet, AddsUp, AnyRow

LEMMA AnyRowInside == \A s : s # {} => AnyRow(s) \in s
BY DEF AnyRow

\* Descent: a nonempty set of subsets of a finite set has a minimal member.
LEMMA MinimalSubset ==
    ASSUME NEW S, IsFiniteSet(S), NEW Bad \in SUBSET (SUBSET S), Bad # {}
    PROVE  \E T \in Bad : \A U \in Bad : U \subseteq T => U = T
<1>1. Bad \subseteq FiniteSubsetsOf(S)
  BY FS_FiniteSubsetsOfFinite
<1>2. PICK T \in Bad : \A U \in Bad : ~ (<<U, T>> \in StrictSubsetOrdering(S))
  BY <1>1, FS_StrictSubsetOrderingWellFounded, WFMin
<1>3. \A U \in Bad : U \subseteq T => U = T
  BY <1>2 DEF StrictSubsetOrdering
<1>4. QED
  BY <1>2, <1>3

\* Two functions that add up the same amounts agree, and add up naturals.
LEMMA AddsUnique ==
    ASSUME NEW S, IsFiniteSet(S), NEW f, NEW h, NaturalAmounts(f, S),
           \A r \in S : f[r].amount = h[r].amount,
           NEW g, AddsUp(g, f, S), NEW k, NEW V, S \subseteq V, AddsUp(k, h, V)
    PROVE  \A s \in SUBSET S : g[s] = k[s] /\ g[s] \in Nat
<1> DEFINE Bad == {s \in SUBSET S : ~(g[s] = k[s] /\ g[s] \in Nat)}
<1>1. SUFFICES ASSUME Bad # {} PROVE FALSE
  OBVIOUS
<1>2. PICK T \in Bad : \A U \in Bad : U \subseteq T => U = T
  <2>1. Bad \in SUBSET (SUBSET S)
    OBVIOUS
  <2> HIDE DEF Bad
  <2>2. QED
    BY <1>1, <2>1, MinimalSubset
<1>3. /\ g[T] = IF T = {} THEN 0 ELSE f[AnyRow(T)].amount + g[T \ {AnyRow(T)}]
      /\ k[T] = IF T = {} THEN 0 ELSE h[AnyRow(T)].amount + k[T \ {AnyRow(T)}]
  BY DEF AddsUp
<1>4. CASE T = {}
  BY <1>3, <1>4
<1>5. CASE T # {}
  <2>1. AnyRow(T) \in T
    BY <1>5, AnyRowInside
  <2>2. T \ {AnyRow(T)} \in SUBSET S /\ T \ {AnyRow(T)} \notin Bad
    BY <1>2, <2>1
  <2>3. f[AnyRow(T)].amount \in Nat /\ f[AnyRow(T)].amount = h[AnyRow(T)].amount
    BY <2>1 DEF NaturalAmounts
  <2>4. QED
    BY <1>3, <1>5, <2>2, <2>3
<1>6. QED
  BY <1>4, <1>5

LEMMA AddsWithin ==
    ASSUME NEW V, IsFiniteSet(V), NEW f, NaturalAmounts(f, V), NEW U, V \subseteq U,
           NEW a, AddsUp(a, f, V), NEW b, AddsUp(b, f, U)
    PROVE  a[V] = b[V] /\ a[V] \in Nat
<1>1. \A r \in V : f[r].amount = f[r].amount
  OBVIOUS
<1>2. \A s \in SUBSET V : a[s] = b[s] /\ a[s] \in Nat
  BY <1>1, AddsUnique
<1>3. QED
  BY <1>2

\* A function that adds up exists: it is put together from those on the smaller sets.
LEMMA AddsExists ==
    ASSUME NEW S, IsFiniteSet(S), NEW f, NaturalAmounts(f, S)
    PROVE  \E g : AddsUp(g, f, S)
<1> DEFINE Bad == {T \in SUBSET S : ~ \E g : AddsUp(g, f, T)}
<1>1. SUFFICES ASSUME Bad # {} PROVE FALSE
  OBVIOUS
<1>2. PICK T \in Bad : \A U \in Bad : U \subseteq T => U = T
  <2>1. Bad \in SUBSET (SUBSET S)
    OBVIOUS
  <2> HIDE DEF Bad
  <2>2. QED
    BY <1>1, <2>1, MinimalSubset
<1> DEFINE G(U) == CHOOSE g : AddsUp(g, f, U)
           g == [s \in SUBSET T |-> IF s = {} THEN 0
                                    ELSE f[AnyRow(s)].amount + G(s \ {AnyRow(s)})[s \ {AnyRow(s)}]]
<1>3. ASSUME NEW U \in SUBSET T, U # T PROVE AddsUp(G(U), f, U)
  BY <1>2, <1>3
<1>4. ASSUME NEW U \in SUBSET T, U # T PROVE g[U] = G(U)[U]
  <2>1. G(U)[U] = IF U = {} THEN 0 ELSE f[AnyRow(U)].amount + G(U)[U \ {AnyRow(U)}]
    <3>1. AddsUp(G(U), f, U)
      BY <1>3, <1>4
    <3> HIDE DEF G
    <3>2. QED
      BY <3>1 DEF AddsUp
  <2>2. CASE U = {}
    BY <2>1, <2>2
  <2>3. CASE U # {}
    <3> DEFINE V == U \ {AnyRow(U)}
    <3>1. AnyRow(U) \in U /\ V \subseteq U /\ V \in SUBSET T /\ V # T
      BY <1>4, <2>3, AnyRowInside
    <3>2. AddsUp(G(V), f, V) /\ AddsUp(G(U), f, U)
      BY <1>3, <1>4, <3>1
    <3>3. IsFiniteSet(V) /\ NaturalAmounts(f, V)
      BY <3>1, FS_Subset DEF NaturalAmounts
    <3> HIDE DEF G, V
    <3>4. G(V)[V] = G(U)[V]
      BY <3>1, <3>2, <3>3, AddsWithin
    <3> USE DEF V
    <3>5. g[U] = f[AnyRow(U)].amount + G(V)[V]
      BY <1>4, <2>3
    <3>6. QED
      BY <2>1, <2>3, <3>4, <3>5
  <2>4. QED
    BY <2>2, <2>3
<1>5. AddsUp(g, f, T)
  <2> HIDE DEF G
  <2>1. ASSUME NEW s \in SUBSET T, s # {}
        PROVE  G(s \ {AnyRow(s)})[s \ {AnyRow(s)}] = g[s \ {AnyRow(s)}]
    <3>1. s \ {AnyRow(s)} \in SUBSET T /\ s \ {AnyRow(s)} # T
      BY <2>1, AnyRowInside
    <3>2. QED
      BY <1>4, <3>1
  <2>2. g = [s \in SUBSET T |-> IF s = {} THEN 0 ELSE f[AnyRow(s)].amount + g[s \ {AnyRow(s)}]]
    BY <2>1
  <2>3. QED
    BY <2>2 DEF AddsUp
<1>6. QED
  BY <1>2, <1>5

\* What the sum is: the value at S of any function that adds up f on S or more.
LEMMA AmountSumIs ==
    ASSUME NEW S, IsFiniteSet(S), NEW f, NaturalAmounts(f, S),
           NEW V, S \subseteq V, NEW g, AddsUp(g, f, V)
    PROVE  AmountSum(f, S) = g[S] /\ AmountSum(f, S) \in Nat
<1> DEFINE c == CHOOSE k : AddsUp(k, f, S)
<1>1. AddsUp(c, f, S)
  BY AddsExists
<1>2. AmountSum(f, S) = c[S]
  BY AmountSumIsChosen
<1> HIDE DEF c
<1>3. c[S] = g[S] /\ c[S] \in Nat
  BY <1>1, AddsWithin
<1>4. QED
  BY <1>2, <1>3

\* The order of the rows does not matter: any one of them can be taken out.
LEMMA AddsAnyRow ==
    ASSUME NEW S, IsFiniteSet(S), NEW f, NaturalAmounts(f, S), NEW g, AddsUp(g, f, S),
           \A s \in SUBSET S : g[s] \in Nat
    PROVE  \A s \in SUBSET S : \A x \in s : g[s] = f[x].amount + g[s \ {x}]
<1> DEFINE Bad == {s \in SUBSET S : \E x \in s : g[s] # f[x].amount + g[s \ {x}]}
<1>1. SUFFICES ASSUME Bad # {} PROVE FALSE
  OBVIOUS
<1>2. PICK T \in Bad : \A U \in Bad : U \subseteq T => U = T
  <2>1. Bad \in SUBSET (SUBSET S)
    OBVIOUS
  <2> HIDE DEF Bad
  <2>2. QED
    BY <1>1, <2>1, MinimalSubset
<1>3. PICK x \in T : g[T] # f[x].amount + g[T \ {x}]
  BY <1>2
<1> DEFINE y == AnyRow(T)
<1>4. y \in T /\ T \in SUBSET S /\ g[T] = f[y].amount + g[T \ {y}]
  BY <1>3, AnyRowInside DEF AddsUp
<1> HIDE DEF y
<1>5. x # y
  BY <1>3, <1>4
<1>6. /\ T \ {x} \in SUBSET S /\ T \ {x} # T /\ y \in T \ {x}
      /\ T \ {y} \in SUBSET S /\ T \ {y} # T /\ x \in T \ {y}
      /\ (T \ {x}) \ {y} = (T \ {y}) \ {x} /\ (T \ {x}) \ {y} \in SUBSET S
  BY <1>3, <1>4, <1>5
<1>7. T \ {x} \notin Bad /\ T \ {y} \notin Bad
  BY <1>2, <1>6
<1>8. /\ g[T \ {x}] = f[y].amount + g[(T \ {x}) \ {y}]
      /\ g[T \ {y}] = f[x].amount + g[(T \ {x}) \ {y}]
  BY <1>6, <1>7
<1>9. /\ g[T \ {x}] \in Nat /\ g[T \ {y}] \in Nat /\ g[(T \ {x}) \ {y}] \in Nat
      /\ f[x].amount \in Nat /\ f[y].amount \in Nat
  BY <1>3, <1>4, <1>6 DEF NaturalAmounts
<1> HIDE DEF Bad
<1>10. QED
  BY <1>3, <1>4, <1>8, <1>9

-----------------------------------------------------------------------------
(* What a proof about sums needs to know                                   *)

LEMMA SumOfNone == \A f : AmountSum(f, {}) = 0
<1>1. SUFFICES ASSUME NEW f PROVE AmountSum(f, {}) = 0
  OBVIOUS
<1>2. IsFiniteSet({}) /\ NaturalAmounts(f, {})
  BY FS_EmptySet DEF NaturalAmounts
<1>3. PICK g : AddsUp(g, f, {})
  BY <1>2, AddsExists
<1>4. AmountSum(f, {}) = g[{}]
  BY <1>2, <1>3, AmountSumIs
<1>5. g[{}] = 0
  BY <1>3 DEF AddsUp
<1>6. QED
  BY <1>4, <1>5

LEMMA SumIsNatural ==
    ASSUME NEW S, IsFiniteSet(S), NEW f, NaturalAmounts(f, S)
    PROVE  AmountSum(f, S) \in Nat
<1>1. PICK g : AddsUp(g, f, S)
  BY AddsExists
<1>2. QED
  BY <1>1, AmountSumIs

\* Rows outside the set, and other columns, do not matter.
LEMMA SumOfSameAmounts ==
    ASSUME NEW S, IsFiniteSet(S), NEW f, NaturalAmounts(f, S),
           NEW h, \A r \in S : f[r].amount = h[r].amount
    PROVE  AmountSum(f, S) = AmountSum(h, S)
<1>1. NaturalAmounts(h, S)
  BY DEF NaturalAmounts
<1>2. PICK g : AddsUp(g, f, S)
  BY AddsExists
<1>3. PICK k : AddsUp(k, h, S)
  BY <1>1, AddsExists
<1>4. AmountSum(f, S) = g[S] /\ AmountSum(h, S) = k[S]
  BY <1>1, <1>2, <1>3, AmountSumIs
<1>5. \A s \in SUBSET S : g[s] = k[s] /\ g[s] \in Nat
  BY <1>2, <1>3, AddsUnique
<1>6. QED
  BY <1>4, <1>5

\* One row more adds its amount.
LEMMA SumWithRow ==
    ASSUME NEW S, IsFiniteSet(S), NEW x, x \notin S, NEW f, NaturalAmounts(f, S \cup {x})
    PROVE  AmountSum(f, S \cup {x}) = AmountSum(f, S) + f[x].amount
<1> DEFINE T == S \cup {x}
<1>1. IsFiniteSet(T) /\ NaturalAmounts(f, S) /\ S \subseteq T /\ x \in T /\ T \ {x} = S
  BY FS_AddElement DEF NaturalAmounts
<1> HIDE DEF T
<1>2. PICK g : AddsUp(g, f, T)
  BY <1>1, AddsExists DEF T
<1>3. \A s \in SUBSET T : IsFiniteSet(s) /\ NaturalAmounts(f, s)
  BY <1>1, FS_Subset DEF NaturalAmounts, T
<1>4. \A s \in SUBSET T : AmountSum(f, s) = g[s] /\ AmountSum(f, s) \in Nat
  BY <1>2, <1>3, AmountSumIs
<1>5. NaturalAmounts(f, T) /\ \A s \in SUBSET T : g[s] \in Nat
  BY <1>3, <1>4
<1>6. g[T] = f[x].amount + g[S]
  BY <1>1, <1>2, <1>5, AddsAnyRow
<1>7. AmountSum(f, T) = g[T] /\ AmountSum(f, S) = g[S] /\ AmountSum(f, S) \in Nat
  BY <1>1, <1>4
<1>8. f[x].amount \in Nat
  BY <1>1, <1>5 DEF NaturalAmounts
<1>9. QED
  BY <1>6, <1>7, <1>8 DEF T

\* Nothing adds up to nothing.
LEMMA SumOfZeros ==
    ASSUME NEW S, IsFiniteSet(S), NEW f, \A r \in S : f[r].amount = 0
    PROVE  AmountSum(f, S) = 0
<1> DEFINE Bad == {U \in SUBSET S : AmountSum(f, U) # 0}
<1>1. SUFFICES ASSUME Bad # {} PROVE FALSE
  <2>1. S \in SUBSET S
    OBVIOUS
  <2>2. QED
    BY <2>1
<1>2. PICK U \in Bad : \A V \in Bad : V \subseteq U => V = U
  <2>1. Bad \in SUBSET (SUBSET S)
    OBVIOUS
  <2> HIDE DEF Bad
  <2>2. QED
    BY <1>1, <2>1, MinimalSubset
<1>3. U \in SUBSET S /\ AmountSum(f, U) # 0
  BY <1>2
<1>4. PICK x \in U : TRUE
  BY <1>3, SumOfNone
<1> DEFINE V == U \ {x}
<1>5. V \in SUBSET S /\ U = V \cup {x} /\ x \notin V /\ x \in S /\ V # U
  BY <1>3, <1>4
<1>6. AmountSum(f, V) = 0
  <2>1. V \notin Bad
    BY <1>2, <1>5
  <2>2. QED
    BY <1>5, <2>1
<1> HIDE DEF Bad, V
<1>7. IsFiniteSet(V) /\ NaturalAmounts(f, V \cup {x})
  BY <1>5, FS_Subset DEF NaturalAmounts
<1>8. AmountSum(f, U) = AmountSum(f, V) + f[x].amount /\ f[x].amount = 0
  BY <1>5, <1>7, SumWithRow
<1>9. QED
  BY <1>3, <1>6, <1>8

\* Fewer rows with smaller amounts have a smaller sum.
LEMMA SumOfFewer ==
    ASSUME NEW S, IsFiniteSet(S), NEW h, NaturalAmounts(h, S),
           NEW T \in SUBSET S, NEW f, NaturalAmounts(f, T),
           \A r \in T : f[r].amount <= h[r].amount
    PROVE  AmountSum(f, T) <= AmountSum(h, S)
<1> DEFINE Bad == {U \in SUBSET S : ~ (AmountSum(f, T \cap U) <= AmountSum(h, U))}
<1>1. SUFFICES ASSUME Bad # {} PROVE FALSE
  <2>1. S \in SUBSET S /\ T \cap S = T
    OBVIOUS
  <2>2. QED
    BY <2>1
<1>2. PICK U \in Bad : \A V \in Bad : V \subseteq U => V = U
  <2>1. Bad \in SUBSET (SUBSET S)
    OBVIOUS
  <2> HIDE DEF Bad
  <2>2. QED
    BY <1>1, <2>1, MinimalSubset
<1>3. U \in SUBSET S /\ ~ (AmountSum(f, T \cap U) <= AmountSum(h, U))
  BY <1>2
<1>4. PICK x \in U : TRUE
  <2>1. AmountSum(f, {}) = 0 /\ AmountSum(h, {}) = 0
    BY SumOfNone
  <2>2. CASE U = {}
    <3>1. T \cap U = {}
      BY <2>2
    <3>2. QED
      BY <1>3, <2>1, <2>2, <3>1
  <2>3. QED
    BY <2>2
<1> DEFINE V == U \ {x}
<1>5. V \in SUBSET S /\ U = V \cup {x} /\ x \notin V /\ x \in S /\ V # U
  BY <1>3, <1>4
<1>6. AmountSum(f, T \cap V) <= AmountSum(h, V)
  <2>1. V \notin Bad
    BY <1>2, <1>5
  <2>2. QED
    BY <1>5, <2>1
<1> HIDE DEF Bad, V
<1>7. /\ IsFiniteSet(V) /\ NaturalAmounts(h, V) /\ NaturalAmounts(h, V \cup {x})
      /\ IsFiniteSet(T \cap V) /\ NaturalAmounts(f, T \cap V)
  BY <1>5, FS_Subset DEF NaturalAmounts
<1>8. /\ AmountSum(h, U) = AmountSum(h, V) + h[x].amount
      /\ AmountSum(h, V) \in Nat /\ h[x].amount \in Nat /\ AmountSum(f, T \cap V) \in Nat
  BY <1>5, <1>7, SumWithRow, SumIsNatural DEF NaturalAmounts
<1>9. CASE x \in T
  <2>1. T \cap U = (T \cap V) \cup {x} /\ x \notin T \cap V /\ NaturalAmounts(f, (T \cap V) \cup {x})
    BY <1>5, <1>9 DEF NaturalAmounts
  <2>2. AmountSum(f, T \cap U) = AmountSum(f, T \cap V) + f[x].amount
    BY <1>7, <2>1, SumWithRow
  <2>3. f[x].amount \in Nat /\ f[x].amount <= h[x].amount
    BY <1>9 DEF NaturalAmounts
  <2>4. QED
    BY <1>3, <1>6, <1>8, <2>2, <2>3
<1>10. CASE x \notin T
  <2>1. T \cap U = T \cap V
    BY <1>5, <1>10
  <2>2. AmountSum(f, T \cap U) = AmountSum(f, T \cap V)
    BY <2>1
  <2>3. QED
    BY <1>3, <1>6, <1>8, <2>2
<1>11. QED
  BY <1>9, <1>10

\* One row that has one more makes the sum one more.
LEMMA SumWithOneMore ==
    ASSUME NEW S, IsFiniteSet(S), NEW x \in S, NEW f, NaturalAmounts(f, S), NEW h,
           \A r \in S : h[r].amount = IF r = x THEN f[r].amount + 1 ELSE f[r].amount
    PROVE  AmountSum(h, S) = AmountSum(f, S) + 1
<1> DEFINE T == S \ {x}
<1>1. /\ IsFiniteSet(T) /\ x \notin T /\ T \cup {x} = S
      /\ NaturalAmounts(f, T) /\ NaturalAmounts(h, S)
      /\ \A r \in T : f[r].amount = h[r].amount
  BY FS_Subset DEF NaturalAmounts
<1> HIDE DEF T
<1>2. AmountSum(f, S) = AmountSum(f, T) + f[x].amount /\ AmountSum(h, S) = AmountSum(h, T) + h[x].amount
  BY <1>1, SumWithRow
<1>3. /\ AmountSum(f, T) = AmountSum(h, T) /\ AmountSum(f, T) \in Nat
      /\ f[x].amount \in Nat /\ h[x].amount = f[x].amount + 1
  BY <1>1, SumOfSameAmounts, SumIsNatural DEF NaturalAmounts
<1>4. QED
  BY <1>2, <1>3
=============================================================================
