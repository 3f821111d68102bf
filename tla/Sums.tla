--------------------------------- MODULE Sums ---------------------------------
(***************************************************************************)
(* Sums over finite sets, for the proofs: the sum of a function is the size *)
(* of the set of the points under it.  MapThenSumSet of the community        *)
(* modules picks the elements in an order that nothing is known of; any      *)
(* order comes to that size.                                                 *)
(***************************************************************************)
EXTENDS Integers, FiniteSetsExt, FiniteSetTheorems, TLAPS

\* The points under the function f, over S
Under(f, S) == {p \in S \X Nat : p[2] < f[p[1]]}

LEMMA UnderAdds ==
    ASSUME NEW S, IsFiniteSet(S), NEW f, \A x \in S : f[x] \in Nat, NEW x \in S,
           IsFiniteSet(Under(f, S \ {x}))
    PROVE  /\ IsFiniteSet(Under(f, S))
           /\ Cardinality(Under(f, S)) = f[x] + Cardinality(Under(f, S \ {x}))
<1> DEFINE column == {x} \X (0 .. f[x] - 1)
<1>1. f[x] \in Nat
  OBVIOUS
<1>2. IsFiniteSet(column) /\ Cardinality(column) = f[x]
  <2>1. IsFiniteSet(0 .. f[x] - 1) /\ Cardinality(0 .. f[x] - 1) = f[x]
    <3>1. 0 \in Int /\ f[x] - 1 \in Int /\ (0 > f[x] - 1 <=> f[x] = 0)
      BY <1>1
    <3>2. /\ IsFiniteSet(0 .. f[x] - 1)
          /\ Cardinality(0 .. f[x] - 1)
                = IF 0 > f[x] - 1 THEN 0 ELSE f[x] - 1 - 0 + 1
      BY <3>1, FS_Interval
    <3> QED BY <1>1, <3>1, <3>2
  <2>2. IsFiniteSet({x}) /\ Cardinality({x}) = 1
    BY FS_Singleton
  <2>3. IsFiniteSet(column) /\ Cardinality(column) = 1 * f[x]
    BY <2>1, <2>2, FS_Product
  <2> QED BY <1>1, <2>3
<1>3. Under(f, S) = column \cup Under(f, S \ {x})
  BY <1>1 DEF Under
<1>4. column \cap Under(f, S \ {x}) = {}
  BY DEF Under
<1>5. Cardinality(column \cap Under(f, S \ {x})) = 0
  BY <1>4, FS_EmptySet
<1>6. Cardinality(Under(f, S \ {x})) \in Nat
  BY FS_CardinalityType
<1> HIDE DEF column
<1>7. /\ IsFiniteSet(column \cup Under(f, S \ {x}))
      /\ Cardinality(column \cup Under(f, S \ {x}))
            = Cardinality(column) + Cardinality(Under(f, S \ {x}))
                - Cardinality(column \cap Under(f, S \ {x}))
  BY <1>2, FS_Union
<1> QED BY <1>1, <1>2, <1>3, <1>5, <1>6, <1>7

LEMMA UnderFinite ==
    ASSUME NEW S, IsFiniteSet(S), NEW f, \A x \in S : f[x] \in Nat
    PROVE  IsFiniteSet(Under(f, S)) /\ Cardinality(Under(f, S)) \in Nat
<1> DEFINE Column(x) == {x} \X (0 .. f[x] - 1)
           columns == {Column(x) : x \in S}
           g == [x \in S |-> Column(x)]
<1>1. IsFiniteSet(columns)
  <2>1. g \in Surjection(S, columns)
    BY DEF Surjection
  <2> QED BY <2>1, FS_Surjection
<1>2. ASSUME NEW x \in S PROVE IsFiniteSet(Column(x))
  <2>1. IsFiniteSet(0 .. f[x] - 1) /\ IsFiniteSet({x})
    <3>1. 0 \in Int /\ f[x] - 1 \in Int
      OBVIOUS
    <3> QED BY <3>1, FS_Interval, FS_Singleton
  <2> QED BY <2>1, FS_Product
<1>3. Under(f, S) \subseteq UNION columns
  BY DEF Under
<1>4. \A T \in columns : IsFiniteSet(T)
  BY <1>2
<1> HIDE DEF columns
<1>5. IsFiniteSet(UNION columns)
  BY <1>1, <1>4, FS_UNION
<1> QED BY <1>3, <1>5, FS_Subset, FS_CardinalityType

Pick(s) == CHOOSE x \in s : TRUE

\* it sums f over the subsets of S, one element after the other.
Summing(it, f, S) ==
    it = [s \in SUBSET S |-> IF s = {} THEN 0 ELSE f[Pick(s)] + it[s \ {Pick(s)}]]

LEMMA SummingExists ==
    ASSUME NEW S, IsFiniteSet(S), NEW f, \A x \in S : f[x] \in Nat
    PROVE  \E it : Summing(it, f, S)
<1> DEFINE it == [s \in SUBSET S |-> Cardinality(Under(f, s))]
<1>1. ASSUME NEW s \in SUBSET S, s # {}
      PROVE  it[s] = f[Pick(s)] + it[s \ {Pick(s)}]
  <2>1. Pick(s) \in s
    BY <1>1 DEF Pick
  <2>2. IsFiniteSet(s) /\ IsFiniteSet(s \ {Pick(s)})
    BY FS_Subset
  <2>3. IsFiniteSet(Under(f, s \ {Pick(s)}))
    BY <2>2, UnderFinite
  <2>4. Cardinality(Under(f, s)) = f[Pick(s)] + Cardinality(Under(f, s \ {Pick(s)}))
    BY <2>1, <2>2, <2>3, UnderAdds
  <2> QED BY <2>4
<1>2. it[{}] = 0
  <2>1. Under(f, {}) = {}
    BY DEF Under
  <2> QED BY <2>1, FS_EmptySet
<1>3. it = [s \in SUBSET S |-> IF s = {} THEN 0 ELSE f[Pick(s)] + it[s \ {Pick(s)}]]
  BY <1>1, <1>2
<1> QED BY <1>3 DEF Summing

\* A minimal subset on which the sum were another would not be empty, and without
\* the element summed last not be minimal.
LEMMA SumsToSize ==
    ASSUME NEW S, IsFiniteSet(S), NEW f, \A x \in S : f[x] \in Nat,
           NEW it, Summing(it, f, S)
    PROVE  it[S] = Cardinality(Under(f, S))
<1> DEFINE wrong == {s \in SUBSET S : it[s] # Cardinality(Under(f, s))}
<1>1. SUFFICES ASSUME wrong # {} PROVE FALSE
  OBVIOUS
<1>2. wrong \subseteq FiniteSubsetsOf(S)
  BY FS_Subset DEF FiniteSubsetsOf
<1>3. PICK s \in wrong : \A t \in wrong : ~(<<t, s>> \in StrictSubsetOrdering(S))
  <2> HIDE DEF wrong
  <2> QED BY <1>1, <1>2, FS_StrictSubsetOrderingWellFounded, WFMin
<1>4. CASE s = {}
  <2>1. Under(f, {}) = {}
    BY DEF Under
  <2> QED BY <1>4, <2>1, FS_EmptySet DEF Summing
<1>5. CASE s # {}
  <2>1. Pick(s) \in s
    BY <1>5 DEF Pick
  <2>2. <<s \ {Pick(s)}, s>> \in StrictSubsetOrdering(S)
    BY <2>1 DEF StrictSubsetOrdering
  <2>3. it[s \ {Pick(s)}] = Cardinality(Under(f, s \ {Pick(s)}))
    BY <1>3, <2>2
  <2>4. it[s] = f[Pick(s)] + it[s \ {Pick(s)}]
    BY <1>5 DEF Summing
  <2>5. IsFiniteSet(s) /\ IsFiniteSet(s \ {Pick(s)})
    BY FS_Subset
  <2>6. IsFiniteSet(Under(f, s \ {Pick(s)}))
    BY <2>5, UnderFinite
  <2>7. Cardinality(Under(f, s)) = f[Pick(s)] + Cardinality(Under(f, s \ {Pick(s)}))
    BY <2>1, <2>5, <2>6, UnderAdds
  <2> QED BY <2>3, <2>4, <2>7
<1> QED BY <1>4, <1>5
=============================================================================
