-------------------------------- MODULE Sums --------------------------------
(***************************************************************************)
(* What the proofs about money need of sums over a finite set: the sum of  *)
(* the community modules is unfolded once, and then used through the       *)
(* theorems below only.  The induction over finite sets is done by hand,   *)
(* over a set of subsets instead of a predicate: the least counterexample  *)
(* has a least number of elements.                                         *)
(***************************************************************************)
EXTENDS Integers, FiniteSetsExt, FiniteSetTheorems, WellFoundedInduction, TLAPS

(* The sum of f[x] for the x in S. *)
SumOf(f, S) == MapThenSumSet(LAMBDA x : f[x], S)

(* The element with which the definition begins. *)
FirstOf(S) == CHOOSE x \in S : TRUE

(* What the recursive function in that definition is. *)
Unfolds(g, f, S) ==
    g = [s \in SUBSET S |-> IF s = {} THEN 0 ELSE f[FirstOf(s)] + g[s \ {FirstOf(s)}]]

(* A set of natural numbers that is not empty has a least element. *)
LEMMA LeastNumber ==
    ASSUME NEW T \in SUBSET Nat, T # {}
    PROVE  \E x \in T : \A y \in T : x <= y
<1>1. \E x \in T : \A y \in T : ~ (<<y, x>> \in OpToRel(<, Nat))
  BY NatLessThanWellFounded, WFMin
<1>2. ASSUME NEW x \in T, NEW y \in T, ~ (<<y, x>> \in OpToRel(<, Nat))
      PROVE  x <= y
  <2>1. x \in Nat /\ y \in Nat
    OBVIOUS
  <2>2. <<y, x>> \in Nat \X Nat
    BY <2>1
  <2> QED BY <1>2, <2>1, <2>2 DEF OpToRel
<1> QED BY <1>1, <1>2

(* Induction over the subsets of a finite set. *)
LEMMA SubsetInduction ==
    ASSUME NEW S, IsFiniteSet(S), NEW Good,
           \A s \in SUBSET S : (\A t \in SUBSET s : t # s => t \in Good) => s \in Good
    PROVE  \A s \in SUBSET S : s \in Good
<1> DEFINE T == {Cardinality(s) : s \in (SUBSET S) \ Good}
<1>1. \A s \in SUBSET S : IsFiniteSet(s) /\ Cardinality(s) \in Nat
  BY FS_Subset, FS_CardinalityType
<1>2. SUFFICES ASSUME (SUBSET S) \ Good # {} PROVE FALSE
  OBVIOUS
<1>3. T \in SUBSET Nat /\ T # {}
  BY <1>1, <1>2
<1>4. PICK n \in T : \A m \in T : n <= m
  BY <1>3, LeastNumber
<1>5. PICK s \in (SUBSET S) \ Good : Cardinality(s) = n
  BY <1>4
<1>6. PICK t \in SUBSET s : t # s /\ t \notin Good
  BY <1>5
<1>7. Cardinality(t) \in T /\ t \in SUBSET S
  BY <1>5, <1>6
<1>8. Cardinality(t) < Cardinality(s)
  BY <1>1, <1>5, <1>6, FS_Subset
<1>9. Cardinality(t) \in Nat /\ Cardinality(s) \in Nat
  BY <1>1, <1>5, <1>7
<1>10. Cardinality(s) <= Cardinality(t)
  BY <1>4, <1>5, <1>7
<1> QED BY <1>8, <1>9, <1>10

(* The sum is such a function, applied. *)
LEMMA SumIs ==
    ASSUME NEW f, NEW S
    PROVE  SumOf(f, S) = (CHOOSE g : Unfolds(g, f, S))[S]
BY DEF SumOf, MapThenSumSet, MapThenFoldSet, Unfolds, FirstOf

(* There is such a function: it is built up from the empty set, a cardinality at a
   time. *)
LEMMA UnfoldsExists ==
    ASSUME NEW f, NEW S, IsFiniteSet(S)
    PROVE  \E g : Unfolds(g, f, S)
<1> DEFINE Upto(n) == {s \in SUBSET S : Cardinality(s) <= n}
           Step(g, s) == IF s = {} THEN 0 ELSE f[FirstOf(s)] + g[s \ {FirstOf(s)}]
           Fits(g, n) == g = [s \in Upto(n) |-> Step(g, s)]
           T == {n \in Nat : ~ \E g : Fits(g, n)}
<1>1. \A s \in SUBSET S : IsFiniteSet(s) /\ Cardinality(s) \in Nat
  BY FS_Subset, FS_CardinalityType
<1>2. T = {}
  <2>1. SUFFICES ASSUME T # {} PROVE FALSE
    OBVIOUS
  <2>2. PICK n \in T : \A m \in T : n <= m
    BY <2>1, LeastNumber
  <2>3. n # 0
    <3>1. \A s \in Upto(0) : s = {}
      BY <1>1, FS_EmptySet
    <3>2. Fits([s \in Upto(0) |-> 0], 0)
      BY <3>1
    <3>3. 0 \notin T
      BY <3>2
    <3> QED BY <2>2, <3>3
  <2>4. n - 1 \in Nat /\ n - 1 \notin T
    <3>1. n \in Nat
      BY <2>2
    <3>2. n - 1 \in Nat /\ ~ n <= n - 1
      BY <2>3, <3>1
    <3> HIDE DEF T
    <3> QED BY <2>2, <3>2
  <2>5. PICK g : Fits(g, n - 1)
    BY <2>4
  <2> DEFINE h == [s \in Upto(n) |-> Step(g, s)]
  <2>6. ASSUME NEW s \in Upto(n), s # {}
        PROVE  s \ {FirstOf(s)} \in Upto(n - 1)
    <3>1. FirstOf(s) \in s
      BY <2>6 DEF FirstOf
    <3>2. Cardinality(s \ {FirstOf(s)}) = Cardinality(s) - 1
      BY <1>1, <3>1, FS_RemoveElement
    <3> QED BY <1>1, <2>2, <3>2
  <2>7. ASSUME NEW s \in Upto(n - 1)
        PROVE  s \in Upto(n) /\ h[s] = g[s]
    <3>1. n \in Nat /\ Cardinality(s) \in Nat /\ Cardinality(s) <= n - 1
      BY <1>1, <2>2
    <3>2. s \in Upto(n)
      BY <3>1
    <3>3. h[s] = Step(g, s)
      BY <3>2
    <3>4. g[s] = Step(g, s)
      BY <2>5
    <3> QED BY <3>2, <3>3, <3>4
  <2>8. \A s \in Upto(n) : Step(g, s) = Step(h, s)
    BY <2>6, <2>7
  <2>9. Fits(h, n)
    BY <2>8
  <2> QED BY <2>2, <2>9
<1>3. PICK g : Fits(g, Cardinality(S))
  BY <1>1, <1>2
<1>4. Upto(Cardinality(S)) = SUBSET S
  BY FS_Subset
<1>5. Unfolds(g, f, S)
  BY <1>3, <1>4 DEF Unfolds
<1> QED BY <1>5

(* Every such function holds the sums of the subsets. *)
LEMMA SumPart ==
    ASSUME NEW f, NEW S, IsFiniteSet(S)
    PROVE  \A g, R : S \in SUBSET R /\ Unfolds(g, f, R) => g[S] = SumOf(f, S)
<1> DEFINE Holds(s) == \A g, R : s \in SUBSET R /\ Unfolds(g, f, R) => g[s] = SumOf(f, s)
           Good == {s \in SUBSET S : Holds(s)}
<1>1. ASSUME NEW s \in SUBSET S, \A t \in SUBSET s : t # s => t \in Good
      PROVE  s \in Good
  <2>1. \E h : Unfolds(h, f, s)
    BY UnfoldsExists, FS_Subset
  <2>2. Unfolds(CHOOSE h : Unfolds(h, f, s), f, s)
    BY <2>1
  <2>3. PICK h : Unfolds(h, f, s) /\ SumOf(f, s) = h[s]
    BY <2>2, SumIs
  <2>4. ASSUME NEW g, NEW R, s \in SUBSET R, Unfolds(g, f, R)
        PROVE  g[s] = SumOf(f, s)
    <3>1. CASE s = {}
      BY <2>3, <2>4, <3>1 DEF Unfolds
    <3>2. CASE s # {}
      <4> DEFINE t == s \ {FirstOf(s)}
      <4>1. FirstOf(s) \in s
        BY <3>2 DEF FirstOf
      <4>2. t \in SUBSET s /\ t # s /\ t \in SUBSET R
        BY <2>4, <4>1
      <4>3. g[t] = SumOf(f, t) /\ h[t] = SumOf(f, t)
        BY <1>1, <2>3, <2>4, <4>2
      <4>4. g[s] = f[FirstOf(s)] + g[t]
        BY <2>4, <3>2 DEF Unfolds
      <4>5. h[s] = f[FirstOf(s)] + h[t]
        BY <2>3, <3>2 DEF Unfolds
      <4> QED BY <2>3, <4>3, <4>4, <4>5
    <3> QED BY <3>1, <3>2
  <2>5. Holds(s)
    BY <2>4
  <2> QED BY <2>5
<1> HIDE DEF Good
<1>2. \A s \in SUBSET S : s \in Good
  BY <1>1, SubsetInduction
<1> QED BY <1>2 DEF Good

(* The empty sum, and the sum begun at any element. *)
LEMMA SumEmpty ==
    ASSUME NEW f
    PROVE  SumOf(f, {}) = 0
<1>1. PICK g : Unfolds(g, f, {})
  BY UnfoldsExists, FS_EmptySet
<1>2. g[{}] = SumOf(f, {})
  BY <1>1, SumPart, FS_EmptySet
<1> QED BY <1>1, <1>2 DEF Unfolds

(* The definition's first step. *)
LEMMA SumFirst ==
    ASSUME NEW f, NEW S, IsFiniteSet(S), S # {}
    PROVE  SumOf(f, S) = f[FirstOf(S)] + SumOf(f, S \ {FirstOf(S)})
<1> DEFINE t == S \ {FirstOf(S)}
<1>1. PICK g : Unfolds(g, f, S)
  BY UnfoldsExists
<1>2. IsFiniteSet(t)
  BY FS_Subset
<1>3. g[S] = SumOf(f, S) /\ g[t] = SumOf(f, t)
  BY <1>1, <1>2, SumPart
<1>4. g[S] = f[FirstOf(S)] + g[t]
  BY <1>1 DEF Unfolds
<1> QED BY <1>3, <1>4

(* A sum of integers is an integer, of natural numbers a natural number. *)
THEOREM SumType ==
    ASSUME NEW f, NEW S, IsFiniteSet(S)
    PROVE  /\ (\A x \in S : f[x] \in Int) => SumOf(f, S) \in Int
           /\ (\A x \in S : f[x] \in Nat) => SumOf(f, S) \in Nat
<1> DEFINE Holds(s) == /\ (\A x \in s : f[x] \in Int) => SumOf(f, s) \in Int
                       /\ (\A x \in s : f[x] \in Nat) => SumOf(f, s) \in Nat
           Good == {s \in SUBSET S : Holds(s)}
<1>1. ASSUME NEW s \in SUBSET S, \A t \in SUBSET s : t # s => t \in Good
      PROVE  s \in Good
  <2>1. CASE s = {}
    BY <2>1, SumEmpty
  <2>2. CASE s # {}
    <3> DEFINE t == s \ {FirstOf(s)}
    <3>1. FirstOf(s) \in s
      BY <2>2 DEF FirstOf
    <3>2. t \in SUBSET s /\ t # s
      BY <3>1
    <3>3. Holds(t)
      BY <1>1, <3>2
    <3>4. SumOf(f, s) = f[FirstOf(s)] + SumOf(f, t)
      BY <2>2, SumFirst, FS_Subset
    <3> QED BY <3>1, <3>3, <3>4
  <2> QED BY <2>1, <2>2
<1> HIDE DEF Good
<1>2. \A s \in SUBSET S : s \in Good
  BY <1>1, SubsetInduction
<1> QED BY <1>2 DEF Good

(* Two functions that agree on a set have the same sum over it. *)
THEOREM SumSame ==
    ASSUME NEW f, NEW g, NEW S, IsFiniteSet(S), \A x \in S : f[x] = g[x]
    PROVE  SumOf(f, S) = SumOf(g, S)
<1> DEFINE Good == {s \in SUBSET S : SumOf(f, s) = SumOf(g, s)}
<1>1. ASSUME NEW s \in SUBSET S, \A t \in SUBSET s : t # s => t \in Good
      PROVE  s \in Good
  <2>1. CASE s = {}
    BY <2>1, SumEmpty
  <2>2. CASE s # {}
    <3> DEFINE t == s \ {FirstOf(s)}
    <3>1. FirstOf(s) \in s
      BY <2>2 DEF FirstOf
    <3>2. t \in SUBSET s /\ t # s
      BY <3>1
    <3>3. SumOf(f, t) = SumOf(g, t)
      BY <1>1, <3>2
    <3>4. /\ SumOf(f, s) = f[FirstOf(s)] + SumOf(f, t)
          /\ SumOf(g, s) = g[FirstOf(s)] + SumOf(g, t)
      BY <2>2, SumFirst, FS_Subset
    <3> QED BY <3>1, <3>3, <3>4
  <2> QED BY <2>1, <2>2
<1> HIDE DEF Good
<1>2. \A s \in SUBSET S : s \in Good
  BY <1>1, SubsetInduction
<1> QED BY <1>2 DEF Good

(* A sum of nothing but zeros is zero. *)
THEOREM SumZero ==
    ASSUME NEW f, NEW S, IsFiniteSet(S), \A x \in S : f[x] = 0
    PROVE  SumOf(f, S) = 0
<1> DEFINE Good == {s \in SUBSET S : SumOf(f, s) = 0}
<1>1. ASSUME NEW s \in SUBSET S, \A t \in SUBSET s : t # s => t \in Good
      PROVE  s \in Good
  <2>1. CASE s = {}
    BY <2>1, SumEmpty
  <2>2. CASE s # {}
    <3> DEFINE t == s \ {FirstOf(s)}
    <3>1. FirstOf(s) \in s
      BY <2>2 DEF FirstOf
    <3>2. t \in SUBSET s /\ t # s
      BY <3>1
    <3>3. SumOf(f, t) = 0
      BY <1>1, <3>2
    <3>4. SumOf(f, s) = f[FirstOf(s)] + SumOf(f, t)
      BY <2>2, SumFirst, FS_Subset
    <3> QED BY <3>1, <3>3, <3>4
  <2> QED BY <2>1, <2>2
<1> HIDE DEF Good
<1>2. \A s \in SUBSET S : s \in Good
  BY <1>1, SubsetInduction
<1> QED BY <1>2 DEF Good

(* A sum does not depend on the order: any element can be the first. *)
THEOREM SumWithout ==
    ASSUME NEW f, NEW S, IsFiniteSet(S), \A x \in S : f[x] \in Int, NEW a \in S
    PROVE  SumOf(f, S) = f[a] + SumOf(f, S \ {a})
<1> DEFINE Holds(s) == \A x \in s : SumOf(f, s) = f[x] + SumOf(f, s \ {x})
           Good == {s \in SUBSET S : Holds(s)}
<1>1. ASSUME NEW s \in SUBSET S, \A t \in SUBSET s : t # s => t \in Good
      PROVE  s \in Good
  <2>1. ASSUME NEW x \in s PROVE SumOf(f, s) = f[x] + SumOf(f, s \ {x})
    <3> DEFINE y == FirstOf(s)
               both == (s \ {x}) \ {y}
    <3>1. y \in s /\ SumOf(f, s) = f[y] + SumOf(f, s \ {y})
      BY <2>1, SumFirst, FS_Subset DEF FirstOf
    <3>2. CASE x = y
      BY <3>1, <3>2
    <3>3. CASE x # y
      <4>1. /\ x \in s \ {y} /\ s \ {y} \in SUBSET s /\ s \ {y} # s
            /\ y \in s \ {x} /\ s \ {x} \in SUBSET s /\ s \ {x} # s
            /\ both = (s \ {y}) \ {x}
        BY <3>1, <3>3
      <4>2. s \ {y} \in Good /\ s \ {x} \in Good
        BY <1>1, <4>1
      <4>3. /\ SumOf(f, s \ {y}) = f[x] + SumOf(f, both)
            /\ SumOf(f, s \ {x}) = f[y] + SumOf(f, both)
        BY <4>1, <4>2
      <4>4. SumOf(f, both) \in Int
        BY SumType, FS_Subset, <4>1
      <4>5. f[x] \in Int /\ f[y] \in Int
        BY <3>1
      <4> HIDE DEF y, both
      <4> QED BY <3>1, <4>3, <4>4, <4>5
    <3> QED BY <3>2, <3>3
  <2> QED BY <2>1
<1> HIDE DEF Good
<1>2. \A s \in SUBSET S : s \in Good
  BY <1>1, SubsetInduction
<1> QED BY <1>2 DEF Good

(* An element more. *)
THEOREM SumWith ==
    ASSUME NEW f, NEW S, IsFiniteSet(S), NEW a, a \notin S,
           \A x \in S \cup {a} : f[x] \in Int
    PROVE  SumOf(f, S \cup {a}) = f[a] + SumOf(f, S)
<1>1. IsFiniteSet(S \cup {a}) /\ (S \cup {a}) \ {a} = S
  BY FS_AddElement
<1>2. \A g, T : IsFiniteSet(T) /\ (\A x \in T : g[x] \in Int)
        => \A b \in T : SumOf(g, T) = g[b] + SumOf(g, T \ {b})
  BY SumWithout
<1> QED BY <1>1, <1>2

(* One value is changed. *)
THEOREM SumUpdate ==
    ASSUME NEW f, NEW g, NEW S, IsFiniteSet(S), NEW a \in S,
           \A x \in S : f[x] \in Int /\ g[x] \in Int,
           \A x \in S \ {a} : g[x] = f[x]
    PROVE  SumOf(g, S) = SumOf(f, S) + g[a] - f[a]
<1>1. IsFiniteSet(S \ {a})
  BY FS_Subset
<1>2. SumOf(g, S \ {a}) = SumOf(f, S \ {a})
  BY <1>1, SumSame
<1>3. /\ SumOf(f, S) = f[a] + SumOf(f, S \ {a})
      /\ SumOf(g, S) = g[a] + SumOf(g, S \ {a})
  BY SumWithout
<1>4. SumOf(f, S \ {a}) \in Int
  BY <1>1, SumType
<1> QED BY <1>2, <1>3, <1>4

(* A part sums up to no more than the whole, if nothing is negative. *)
THEOREM SumOfPart ==
    ASSUME NEW f, NEW S, IsFiniteSet(S), \A x \in S : f[x] \in Nat, NEW P \in SUBSET S
    PROVE  SumOf(f, P) <= SumOf(f, S)
<1> DEFINE Good == {s \in SUBSET S : s \cap P = {} => SumOf(f, P) <= SumOf(f, P \cup s)}
<1>1. ASSUME NEW s \in SUBSET S, \A t \in SUBSET s : t # s => t \in Good
      PROVE  s \in Good
  <2>1. CASE s \cap P # {}
    BY <2>1
  <2>2. CASE s = {}
    <3>1. SumOf(f, P) \in Nat /\ P \cup s = P
      BY <2>2, SumType, FS_Subset
    <3> QED BY <3>1
  <2>3. CASE s # {} /\ s \cap P = {}
    <3>1. PICK a : a \in s
      BY <2>3
    <3> DEFINE t == s \ {a}
    <3>2. t \in Good /\ t \cap P = {} /\ (P \cup s) \ {a} = P \cup t
      BY <1>1, <2>3, <3>1
    <3>3. SumOf(f, P) <= SumOf(f, P \cup t)
      BY <3>2
    <3>4. IsFiniteSet(P \cup s) /\ IsFiniteSet(P) /\ IsFiniteSet(P \cup t)
      BY FS_Subset
    <3>5. SumOf(f, P \cup s) = f[a] + SumOf(f, P \cup t)
      BY <3>1, <3>2, <3>4, SumWithout
    <3>6. SumOf(f, P) \in Nat /\ SumOf(f, P \cup t) \in Nat /\ f[a] \in Nat
      BY <3>1, <3>4, SumType
    <3>7. SumOf(f, P) <= SumOf(f, P \cup s)
      BY <3>3, <3>5, <3>6
    <3> QED BY <3>7
  <2> QED BY <2>1, <2>2, <2>3
<1> HIDE DEF Good
<1>2. \A s \in SUBSET S : s \in Good
  BY <1>1, SubsetInduction
<1>3. S \ P \in Good /\ P \cup (S \ P) = S
  BY <1>2
<1> QED BY <1>3 DEF Good
=============================================================================
