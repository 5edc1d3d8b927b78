---------------------------- MODULE TotalsProofs ----------------------------
(* What the components' proofs need to know of sums and of largest numbers. *)
EXTENDS Totals, FiniteSetTheorems, TLAPS

LEMMA UnitsAre ==
  ASSUME NEW f, NEW S, NEW u
  PROVE  u \in Units(f, S) <=> \E x \in S : \E n \in 1..f[x] : u = <<x, n>>
  BY DEF Units

LEMMA UnitsFinite ==
  ASSUME NEW S, IsFiniteSet(S), NEW f, \A x \in S : f[x] \in Nat
  PROVE  IsFiniteSet(Units(f, S))
  <1> DEFINE Own(x) == {x} \X (1..f[x])
             T == {Own(x) : x \in S}
             g == [x \in S |-> Own(x)]
  <1>1. g \in Surjection(S, T)
    BY DEF Surjection
  <1>2. IsFiniteSet(T)
    BY <1>1, FS_Surjection
  <1>3. ASSUME NEW x \in S PROVE IsFiniteSet(Own(x))
    <2>1. f[x] \in Nat
      OBVIOUS
    <2>2. IsFiniteSet(1..f[x])
      BY <2>1, FS_Interval
    <2>3. IsFiniteSet({x})
      BY FS_Singleton
    <2> QED
      BY <2>2, <2>3, FS_Product
  <1> QED
    BY <1>2, <1>3, FS_UNION DEF Units

LEMMA TotalType ==
  ASSUME NEW S, IsFiniteSet(S), NEW f, \A x \in S : f[x] \in Nat
  PROVE  Total(f, S) \in Nat
  BY UnitsFinite, FS_CardinalityType DEF Total

LEMMA TotalEmpty == \A f : Total(f, {}) = 0
  BY FS_EmptySet DEF Total, Units

\* The sum depends on nothing but the amounts of the members.
LEMMA TotalSame ==
  ASSUME NEW S, NEW f, NEW g, \A x \in S : f[x] = g[x]
  PROVE  Total(f, S) = Total(g, S)
  <1>1. Units(f, S) = Units(g, S)
    BY DEF Units
  <1> QED
    BY <1>1 DEF Total

LEMMA TotalSubset ==
  ASSUME NEW S, IsFiniteSet(S), NEW T \in SUBSET S, NEW f, \A x \in S : f[x] \in Nat
  PROVE  Total(f, T) <= Total(f, S)
  <1>1. Units(f, T) \in SUBSET Units(f, S)
    BY DEF Units
  <1> QED
    BY <1>1, UnitsFinite, FS_Subset DEF Total

LEMMA TotalOne ==
  ASSUME NEW x, NEW f, f[x] \in Nat
  PROVE  Total(f, {x}) = f[x]
  <1>1. Units(f, {x}) = {x} \X (1..f[x])
    BY DEF Units
  <1>2. IsFiniteSet({x}) /\ Cardinality({x}) = 1
    BY FS_Singleton
  <1>3. 1 \in Int /\ f[x] \in Int
    OBVIOUS
  <1>4. IsFiniteSet(1..f[x]) /\ Cardinality(1..f[x]) = f[x]
    <2>1. /\ IsFiniteSet(1..f[x])
          /\ Cardinality(1..f[x]) = IF 1 > f[x] THEN 0 ELSE f[x] - 1 + 1
      BY <1>3, FS_Interval
    <2>2. (IF 1 > f[x] THEN 0 ELSE f[x] - 1 + 1) = f[x]
      OBVIOUS
    <2> QED
      BY <2>1, <2>2
  <1>5. Cardinality({x} \X (1..f[x])) = Cardinality({x}) * Cardinality(1..f[x])
    BY <1>2, <1>4, FS_Product
  <1>6. Total(f, {x}) = 1 * f[x]
    BY <1>1, <1>2, <1>4, <1>5 DEF Total
  <1> QED
    BY <1>6

LEMMA TotalUnion ==
  ASSUME NEW S, IsFiniteSet(S), NEW T, IsFiniteSet(T), S \cap T = {},
         NEW f, \A x \in S \cup T : f[x] \in Nat
  PROVE  Total(f, S \cup T) = Total(f, S) + Total(f, T)
  <1>1. Units(f, S \cup T) = Units(f, S) \cup Units(f, T)
    BY DEF Units
  <1>2. Units(f, S) \cap Units(f, T) = {}
    BY UnitsAre
  <1>3. IsFiniteSet(Units(f, S)) /\ IsFiniteSet(Units(f, T))
    BY UnitsFinite
  <1>4. /\ Cardinality(Units(f, S)) \in Nat
        /\ Cardinality(Units(f, T)) \in Nat
    BY <1>3, FS_CardinalityType
  <1>5. Cardinality(Units(f, S) \cap Units(f, T)) = 0
    BY <1>2, FS_EmptySet
  <1>6. Cardinality(Units(f, S) \cup Units(f, T))
           = Cardinality(Units(f, S)) + Cardinality(Units(f, T))
                - Cardinality(Units(f, S) \cap Units(f, T))
    BY <1>3, FS_Union
  <1>7. Cardinality(Units(f, S \cup T)) = Cardinality(Units(f, S)) + Cardinality(Units(f, T))
    <2>1. ASSUME NEW a \in Nat, NEW b \in Nat, NEW c, NEW d, c = a + b - d, d = 0
          PROVE  c = a + b
      BY <2>1
    <2> QED
      BY <1>1, <1>4, <1>5, <1>6, <2>1
  <1> QED
    BY <1>7 DEF Total

LEMMA TotalAdd ==
  ASSUME NEW S, IsFiniteSet(S), NEW x, x \notin S, NEW f, \A y \in S \cup {x} : f[y] \in Nat
  PROVE  Total(f, S \cup {x}) = Total(f, S) + f[x]
  <1>1. IsFiniteSet({x}) /\ S \cap {x} = {}
    BY FS_Singleton
  <1> QED
    BY <1>1, TotalUnion, TotalOne

\* A finite set of numbers has a largest one.
LEMMA LargestExists ==
  ASSUME NEW S, IsFiniteSet(S), S # {}, S \subseteq Int
  PROVE  \E m \in S : \A n \in S : n <= m
  <1> DEFINE Tops(T) == \E m \in T : \A n \in T : n <= m
             Bad == {T \in SUBSET S : T # {} /\ ~Tops(T)}
  <1>1. SUFFICES ASSUME Bad # {} PROVE FALSE
    OBVIOUS
  <1>2. Bad \subseteq FiniteSubsetsOf(S)
    BY FS_FiniteSubsetsOfFinite
  <1>3. PICK T \in Bad : \A U \in Bad : <<U, T>> \notin StrictSubsetOrdering(S)
    BY <1>1, <1>2, WFMin, FS_StrictSubsetOrderingWellFounded
  <1>4. PICK x \in T : x \in Int
    BY <1>3
  <1> DEFINE U == T \ {x}
  <1>5. U \in SUBSET S /\ <<U, T>> \in StrictSubsetOrdering(S)
    BY <1>3, <1>4 DEF StrictSubsetOrdering
  <1>6. U \notin Bad
    BY <1>3, <1>5
  <1>7. CASE U = {}
    BY <1>3, <1>4, <1>7
  <1>8. CASE Tops(U)
    <2>1. PICK m \in U : \A n \in U : n <= m
      BY <1>8
    <2>2. CASE m <= x
      <3>1. \A n \in T : n <= x
        BY <1>3, <1>4, <2>1, <2>2
      <3> QED
        BY <1>3, <1>4, <3>1
    <2>3. CASE ~(m <= x)
      <3>1. \A n \in T : n <= m
        BY <1>3, <1>4, <2>1, <2>3
      <3> QED
        BY <1>3, <2>1, <3>1
    <2> QED
      BY <2>2, <2>3
  <1> QED
    BY <1>5, <1>6, <1>7, <1>8
=============================================================================
