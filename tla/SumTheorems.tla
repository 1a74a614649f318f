------------------------------ MODULE SumTheorems ------------------------------
(***************************************************************************)
(* Sums over finite sets: what SumFunctionOnSet, a recursion that takes    *)
(* the elements of a set in an unspecified order, comes to.  The           *)
(* inductions are stated with sets of naturals and of subsets instead of   *)
(* predicates.                                                             *)
(***************************************************************************)
EXTENDS Functions, FiniteSets, TLAPS, FiniteSetTheorems, WellFoundedInduction

-----------------------------------------------------------------------------
(* Induction *)

LEMMA SetInduction ==
  ASSUME NEW P, 0 \in P, \A n \in Nat : n \in P => n + 1 \in P
  PROVE  Nat \subseteq P
<1> DEFINE T == Nat \ P
           R == OpToRel(<, Nat)
<1>1. SUFFICES ASSUME T # {} PROVE FALSE
  OBVIOUS
<1>2. IsWellFoundedOn(R, Nat)
  BY NatLessThanWellFounded
<1>3. \A x, y \in Nat : <<y, x>> \in R <=> y < x
  BY DEF OpToRel
<1> HIDE DEF R
<1>4. PICK x \in T : \A y \in T : ~(<<y, x>> \in R)
  BY <1>1, <1>2, WFMin
<1>5. x # 0
  OBVIOUS
<1>6. x - 1 \in Nat /\ x - 1 < x /\ (x - 1) + 1 = x
  BY <1>5
<1>7. x - 1 \in P
  BY <1>3, <1>4, <1>6
<1> QED
  BY <1>6, <1>7

\* What holds of the empty set, and of every set of which it holds when an
\* element is taken away, holds of every subset of a finite set.
LEMMA FiniteInduction ==
  ASSUME NEW S, IsFiniteSet(S), NEW Q, {} \in Q,
         \A s \in SUBSET S : s # {} /\ (\A x \in s : s \ {x} \in Q) => s \in Q
  PROVE  SUBSET S \subseteq Q
<1> DEFINE P == {n \in Nat : \A s \in SUBSET S : Cardinality(s) = n => s \in Q}
<1>1. \A s \in SUBSET S : IsFiniteSet(s) /\ Cardinality(s) \in Nat /\ (Cardinality(s) = 0 <=> s = {})
  BY FS_Subset, FS_CardinalityType, FS_EmptySet
<1>2. 0 \in P
  BY <1>1
<1>3. ASSUME NEW n \in Nat, n \in P PROVE n + 1 \in P
  <2>1. ASSUME NEW s \in SUBSET S, Cardinality(s) = n + 1 PROVE s \in Q
    <3>1. s # {}
      BY <1>1, <2>1
    <3>2. ASSUME NEW x \in s PROVE s \ {x} \in Q
      <4>1. Cardinality(s \ {x}) = Cardinality(s) - 1
        BY <1>1, FS_RemoveElement
      <4>2. s \ {x} \in SUBSET S /\ Cardinality(s \ {x}) = n
        BY <2>1, <4>1
      <4> QED
        BY <1>3, <4>2
    <3> QED
      BY <3>1, <3>2
  <2> QED
    BY <2>1
<1>4. Nat \subseteq P
  <2> HIDE DEF P
  <2> QED
    BY <1>2, <1>3, SetInduction
<1> QED
  BY <1>1, <1>4

-----------------------------------------------------------------------------
(* The recursion of a sum *)

Pick(s) == CHOOSE x \in s : TRUE

IsSum(h, w, D) == h = [s \in D |-> IF s = {} THEN 0 ELSE w[Pick(s)] + h[s \ {Pick(s)}]]

LEMMA PickIn == ASSUME NEW s, s # {} PROVE Pick(s) \in s
BY DEF Pick

\* Sums up to some size determine those of the next.
LEMMA SumExists ==
  ASSUME NEW S, IsFiniteSet(S), NEW w
  PROVE  \E h : IsSum(h, w, SUBSET S)
<1> DEFINE Level(n) == {s \in SUBSET S : Cardinality(s) <= n}
           P        == {n \in Nat : \E h : IsSum(h, w, Level(n))}
<1>1. \A s \in SUBSET S : IsFiniteSet(s) /\ Cardinality(s) \in Nat /\ (Cardinality(s) = 0 <=> s = {})
  BY FS_Subset, FS_CardinalityType, FS_EmptySet
<1>2. 0 \in P
  <2> DEFINE h == [s \in Level(0) |-> 0]
  <2>1. \A s \in Level(0) : s = {}
    BY <1>1
  <2> HIDE DEF Level
  <2>2. IsSum(h, w, Level(0))
    BY <2>1 DEF IsSum
  <2> QED
    BY <2>2
<1>3. ASSUME NEW n \in Nat, n \in P PROVE n + 1 \in P
  <2>1. PICK h : IsSum(h, w, Level(n))
    BY <1>3
  <2> DEFINE g == [s \in Level(n + 1) |-> IF s = {} THEN 0 ELSE w[Pick(s)] + h[s \ {Pick(s)}]]
  <2>2. \A s \in Level(n) : s \in Level(n + 1)
    BY <1>1
  <2>3. ASSUME NEW s \in Level(n + 1), s # {} PROVE s \ {Pick(s)} \in Level(n)
    <3>1. Pick(s) \in s
      BY <2>3, PickIn
    <3>2. Cardinality(s \ {Pick(s)}) = Cardinality(s) - 1
      BY <1>1, <3>1, FS_RemoveElement
    <3> QED
      BY <1>1, <3>2
  <2> HIDE DEF Level
  <2>4. \A s \in Level(n) : h[s] = IF s = {} THEN 0 ELSE w[Pick(s)] + h[s \ {Pick(s)}]
    BY <2>1 DEF IsSum
  <2>5. \A s \in Level(n) : g[s] = h[s]
    BY <2>2, <2>4
  <2>6. \A s \in Level(n + 1) : s # {} => g[s \ {Pick(s)}] = h[s \ {Pick(s)}]
    BY <2>3, <2>5
  <2>7. g = [s \in Level(n + 1) |-> IF s = {} THEN 0 ELSE w[Pick(s)] + g[s \ {Pick(s)}]]
    BY <2>6
  <2>8. IsSum(g, w, Level(n + 1))
    BY <2>7 DEF IsSum
  <2> HIDE DEF g
  <2> QED
    BY <2>8
<1>4. Nat \subseteq P
  <2> HIDE DEF P
  <2> QED
    BY <1>2, <1>3, SetInduction
<1>5. Cardinality(S) \in Nat /\ Level(Cardinality(S)) = SUBSET S
  <2>1. \A s \in SUBSET S : Cardinality(s) <= Cardinality(S)
    BY FS_Subset
  <2> QED
    BY <2>1, FS_CardinalityType
<1> QED
  BY <1>4, <1>5

LEMMA SumDefined ==
  ASSUME NEW S, IsFiniteSet(S), NEW w
  PROVE  \E h : IsSum(h, w, SUBSET S) /\ SumFunctionOnSet(w, S) = h[S]
<1>1. SumFunctionOnSet(w, S) = (CHOOSE h : IsSum(h, w, SUBSET S))[S]
  BY DEF SumFunctionOnSet, FoldFunctionOnSet, MapThenFoldSet, IsSum, Pick
<1>2. IsSum(CHOOSE h : IsSum(h, w, SUBSET S), w, SUBSET S)
  BY SumExists
<1> QED
  BY <1>1, <1>2

\* The sum of a subset, within the sums of the set.
LEMMA SumWithin ==
  ASSUME NEW S, IsFiniteSet(S), NEW w, NEW h, IsSum(h, w, SUBSET S), NEW T \in SUBSET S
  PROVE  SumFunctionOnSet(w, T) = h[T]
<1>1. IsFiniteSet(T)
  BY FS_Subset
<1>2. PICK g : IsSum(g, w, SUBSET T) /\ SumFunctionOnSet(w, T) = g[T]
  BY <1>1, SumDefined
<1> DEFINE Q == {s \in SUBSET T : g[s] = h[s]}
<1>3. /\ \A s \in SUBSET T : g[s] = IF s = {} THEN 0 ELSE w[Pick(s)] + g[s \ {Pick(s)}]
      /\ \A s \in SUBSET T : h[s] = IF s = {} THEN 0 ELSE w[Pick(s)] + h[s \ {Pick(s)}]
  BY <1>2 DEF IsSum
<1>4. {} \in Q
  BY <1>3
<1>5. ASSUME NEW s \in SUBSET T, s # {}, \A x \in s : s \ {x} \in Q PROVE s \in Q
  <2>1. g[s \ {Pick(s)}] = h[s \ {Pick(s)}]
    BY <1>5, PickIn
  <2> QED
    BY <1>3, <1>5, <2>1
<1>6. SUBSET T \subseteq Q
  <2> HIDE DEF Q
  <2> QED
    BY <1>1, <1>4, <1>5, FiniteInduction
<1> QED
  BY <1>2, <1>6

-----------------------------------------------------------------------------
(* What a sum comes to *)

LEMMA SumEmpty == ASSUME NEW w PROVE SumFunctionOnSet(w, {}) = 0
<1>1. IsFiniteSet({})
  BY FS_EmptySet
<1>2. PICK h : IsSum(h, w, SUBSET {}) /\ SumFunctionOnSet(w, {}) = h[{}]
  BY <1>1, SumDefined
<1> QED
  BY <1>2 DEF IsSum

LEMMA SumPick ==
  ASSUME NEW S, IsFiniteSet(S), NEW w, S # {}
  PROVE  SumFunctionOnSet(w, S) = w[Pick(S)] + SumFunctionOnSet(w, S \ {Pick(S)})
<1>1. PICK h : IsSum(h, w, SUBSET S) /\ SumFunctionOnSet(w, S) = h[S]
  BY SumDefined
<1>2. h[S] = w[Pick(S)] + h[S \ {Pick(S)}]
  BY <1>1 DEF IsSum
<1>3. SumFunctionOnSet(w, S \ {Pick(S)}) = h[S \ {Pick(S)}]
  BY <1>1, SumWithin
<1> QED
  BY <1>1, <1>2, <1>3

\* A sum depends on the values over its set only.
LEMMA SumCongruent ==
  ASSUME NEW S, IsFiniteSet(S), NEW w, NEW v, \A x \in S : w[x] = v[x]
  PROVE  SumFunctionOnSet(w, S) = SumFunctionOnSet(v, S)
<1> DEFINE Q == {s \in SUBSET S : SumFunctionOnSet(w, s) = SumFunctionOnSet(v, s)}
<1>1. {} \in Q
  BY SumEmpty
<1>2. ASSUME NEW s \in SUBSET S, s # {}, \A x \in s : s \ {x} \in Q PROVE s \in Q
  <2>1. IsFiniteSet(s) /\ Pick(s) \in s
    BY <1>2, FS_Subset, PickIn
  <2>2. /\ SumFunctionOnSet(w, s) = w[Pick(s)] + SumFunctionOnSet(w, s \ {Pick(s)})
        /\ SumFunctionOnSet(v, s) = v[Pick(s)] + SumFunctionOnSet(v, s \ {Pick(s)})
    BY <1>2, <2>1, SumPick
  <2> QED
    BY <1>2, <2>1, <2>2
<1> HIDE DEF Q
<1>3. SUBSET S \subseteq Q
  BY <1>1, <1>2, FiniteInduction
<1> QED
  BY <1>3 DEF Q

LEMMA SumNat ==
  ASSUME NEW S, IsFiniteSet(S), NEW w, \A x \in S : w[x] \in Nat
  PROVE  SumFunctionOnSet(w, S) \in Nat
<1> DEFINE Q == {s \in SUBSET S : SumFunctionOnSet(w, s) \in Nat}
<1>1. {} \in Q
  BY SumEmpty
<1>2. ASSUME NEW s \in SUBSET S, s # {}, \A x \in s : s \ {x} \in Q PROVE s \in Q
  <2>1. IsFiniteSet(s) /\ Pick(s) \in s
    BY <1>2, FS_Subset, PickIn
  <2>2. SumFunctionOnSet(w, s) = w[Pick(s)] + SumFunctionOnSet(w, s \ {Pick(s)})
    BY <1>2, <2>1, SumPick
  <2>3. w[Pick(s)] \in Nat /\ SumFunctionOnSet(w, s \ {Pick(s)}) \in Nat
    BY <1>2, <2>1
  <2> QED
    BY <2>2, <2>3
<1> HIDE DEF Q
<1>3. SUBSET S \subseteq Q
  BY <1>1, <1>2, FiniteInduction
<1> QED
  BY <1>3 DEF Q

\* Any element may be taken first.
LEMMA SumRemove ==
  ASSUME NEW S, IsFiniteSet(S), NEW w, \A x \in S : w[x] \in Nat, NEW y \in S
  PROVE  SumFunctionOnSet(w, S) = w[y] + SumFunctionOnSet(w, S \ {y})
<1> DEFINE Sum(s) == SumFunctionOnSet(w, s)
           Q      == {s \in SUBSET S : \A z \in s : Sum(s) = w[z] + Sum(s \ {z})}
<1>1. {} \in Q
  OBVIOUS
<1>2. ASSUME NEW s \in SUBSET S, s # {}, \A x \in s : s \ {x} \in Q PROVE s \in Q
  <2>1. ASSUME NEW z \in s PROVE Sum(s) = w[z] + Sum(s \ {z})
    <3> DEFINE x == Pick(s)
    <3>1. IsFiniteSet(s) /\ x \in s
      BY <1>2, FS_Subset, PickIn
    <3>2. Sum(s) = w[x] + Sum(s \ {x})
      BY <1>2, <3>1, SumPick
    <3> HIDE DEF x
    <3>3. CASE z = x
      BY <3>2, <3>3
    <3>4. CASE z # x
      <4>1. z \in s \ {x} /\ x \in s \ {z} /\ (s \ {x}) \ {z} = (s \ {z}) \ {x}
        BY <3>1, <3>4
      <4>2. Sum(s \ {x}) = w[z] + Sum((s \ {x}) \ {z})
        BY <1>2, <3>1, <4>1
      <4>3. Sum(s \ {z}) = w[x] + Sum((s \ {z}) \ {x})
        BY <1>2, <4>1
      <4>4. IsFiniteSet((s \ {x}) \ {z})
        BY <3>1, FS_Subset
      <4>5. Sum((s \ {x}) \ {z}) \in Nat /\ w[x] \in Nat /\ w[z] \in Nat
        BY <3>1, <4>4, SumNat
      <4>6. Sum((s \ {z}) \ {x}) = Sum((s \ {x}) \ {z})
        BY <4>1
      <4>7. PICK k \in Nat : k = Sum((s \ {x}) \ {z})
        BY <4>5
      <4>8. Sum(s) = w[x] + (w[z] + k) /\ Sum(s \ {z}) = w[x] + k
        BY <3>2, <4>2, <4>3, <4>6, <4>7
      <4> HIDE DEF Sum
      <4> QED
        BY <4>5, <4>8
    <3> QED
      BY <3>3, <3>4
  <2> QED
    BY <2>1
<1> HIDE DEF Q
<1>3. SUBSET S \subseteq Q
  BY <1>1, <1>2, FiniteInduction
<1> QED
  BY <1>3 DEF Q

LEMMA SumAdd ==
  ASSUME NEW S, IsFiniteSet(S), NEW y, y \notin S, NEW w, \A x \in S \union {y} : w[x] \in Nat
  PROVE  SumFunctionOnSet(w, S \union {y}) = w[y] + SumFunctionOnSet(w, S)
<1>1. IsFiniteSet(S \union {y}) /\ (S \union {y}) \ {y} = S
  BY FS_AddElement
<1> QED
  BY <1>1, SumRemove

\* A part sums to no more than the whole.
LEMMA SumMonotone ==
  ASSUME NEW S, IsFiniteSet(S), NEW w, \A x \in S : w[x] \in Nat, NEW T \in SUBSET S
  PROVE  SumFunctionOnSet(w, T) <= SumFunctionOnSet(w, S)
<1> DEFINE Sum(s) == SumFunctionOnSet(w, s)
           Q      == {s \in SUBSET S : \A u \in SUBSET s : Sum(u) <= Sum(s)}
<1>1. {} \in Q
  BY SumEmpty
<1>2. ASSUME NEW s \in SUBSET S, s # {}, \A x \in s : s \ {x} \in Q PROVE s \in Q
  <2>1. ASSUME NEW u \in SUBSET s PROVE Sum(u) <= Sum(s)
    <3>1. IsFiniteSet(s) /\ IsFiniteSet(u)
      BY FS_Subset
    <3>2. Sum(s) \in Nat /\ Sum(u) \in Nat
      BY <3>1, SumNat
    <3>3. CASE u = s
      BY <3>2, <3>3
    <3>4. CASE u # s
      <4>1. PICK x \in s : x \notin u
        BY <3>4
      <4>2. Sum(u) <= Sum(s \ {x})
        BY <1>2, <4>1
      <4>3. Sum(s) = w[x] + Sum(s \ {x})
        BY <3>1, SumRemove
      <4>4. IsFiniteSet(s \ {x})
        BY <3>1, FS_Subset
      <4>5. w[x] \in Nat /\ Sum(s \ {x}) \in Nat
        BY <4>4, SumNat
      <4> HIDE DEF Sum
      <4> QED
        BY <3>2, <4>2, <4>3, <4>5
    <3> QED
      BY <3>3, <3>4
  <2> QED
    BY <2>1
<1> HIDE DEF Q
<1>3. SUBSET S \subseteq Q
  BY <1>1, <1>2, FiniteInduction
<1> QED
  BY <1>3 DEF Q
=============================================================================
