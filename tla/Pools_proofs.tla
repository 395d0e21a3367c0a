---------------------------- MODULE Pools_proofs ----------------------------
(***************************************************************************)
(* What the two private pools promise: VeilPool.sol, for trees of any      *)
(* depth, rings of any length and any notes, tokens, accounts and fees,    *)
(* and the notes the wallet keeps of the Stellar pool (SppNotes), for any  *)
(* operations, amounts and number of upsets.  Both add up amounts: the     *)
(* lemmas about sums are theirs together.                                  *)
(*                                                                         *)
(* The recursive definitions of the models (shifts, zeros, the path of a   *)
(* leaf, the reference tree, the sum of a function) are unfolded from the  *)
(* least-number principle: the naturals are well founded.                  *)
(***************************************************************************)
EXTENDS VeilPool, SppNotes, FiniteSetTheorems, SequenceTheorems, WellFoundedInduction, TLAPS

-----------------------------------------------------------------------------
(* Induction over a range of numbers, of a set instead of a predicate.     *)

LEMMA LeastNumber ==
  ASSUME NEW T, T \subseteq Nat, T # {}
  PROVE  \E x \in T : \A y \in T : x <= y
<1> DEFINE R == OpToRel(<, Nat)
<1>1. IsWellFoundedOn(R, Nat)
  BY NatLessThanWellFounded
<1>2. \A x, y \in Nat : <<x, y>> \in R <=> x < y
  BY DEF OpToRel
<1> HIDE DEF R
<1>3. PICK x \in T : \A y \in T : ~ (<<y, x>> \in R)
  BY <1>1, WFMin
<1>4. \A y \in T : ~ (y < x) /\ y \in Nat /\ x \in Nat
  BY <1>2, <1>3
<1>5. \A y \in T : x <= y
  BY <1>4
<1>6. QED
  BY <1>3, <1>5

LEMMA RangeInduction ==
  ASSUME NEW n \in Nat, NEW S, 0 \in S, \A i \in S \cap (0 .. n - 1) : i + 1 \in S
  PROVE  0 .. n \subseteq S
<1> DEFINE T == (0 .. n) \ S
<1>1. SUFFICES ASSUME T # {} PROVE FALSE
  OBVIOUS
<1>2. T \subseteq Nat
  OBVIOUS
<1>3. PICK x \in T : \A y \in T : x <= y
  <2> HIDE DEF T
  <2>1. QED
    BY <1>1, <1>2, LeastNumber
<1>4. x \in 1 .. n
  BY <1>3
<1>5. x - 1 \in 0 .. n - 1 /\ ~ (x <= x - 1)
  BY <1>4
<1>6. x - 1 \in S
  BY <1>3, <1>5
<1>7. x - 1 + 1 \in S /\ x - 1 + 1 = x
  BY <1>4, <1>5, <1>6
<1>8. QED
  BY <1>3, <1>7

-----------------------------------------------------------------------------
(* Sums over finite sets.                                                  *)

Pick(s) == CHOOSE x \in s : TRUE

\* g adds up f over the subsets of S, an element at a time.
AddsUp(g, f, S) ==
  \A s \in SUBSET S : g[s] = IF s = {} THEN 0 ELSE f[Pick(s)] + g[s \ {Pick(s)}]

LEMMA PickIs == \A s : s # {} => Pick(s) \in s
BY DEF Pick

LEMMA SubsetsAre ==
  ASSUME NEW S, IsFiniteSet(S)
  PROVE  /\ \A s \in SUBSET S : IsFiniteSet(s) /\ Cardinality(s) \in 0 .. Cardinality(S)
         /\ \A s \in SUBSET S : Cardinality(s) = 0 => s = {}
         /\ \A s \in SUBSET S : \A x \in s :
              s \ {x} \in SUBSET S /\ Cardinality(s \ {x}) = Cardinality(s) - 1
         /\ Cardinality(S) \in Nat
<1>1. Cardinality(S) \in Nat
  BY FS_CardinalityType
<1>2. ASSUME NEW s \in SUBSET S
      PROVE  IsFiniteSet(s) /\ Cardinality(s) \in 0 .. Cardinality(S)
  <2>1. IsFiniteSet(s) /\ Cardinality(s) <= Cardinality(S)
    BY FS_Subset
  <2>2. Cardinality(s) \in Nat
    BY <2>1, FS_CardinalityType
  <2>3. QED
    BY <1>1, <2>1, <2>2
<1>3. ASSUME NEW s \in SUBSET S, NEW x \in s
      PROVE  s \ {x} \in SUBSET S /\ Cardinality(s \ {x}) = Cardinality(s) - 1
  BY <1>2, FS_RemoveElement
<1>4. \A s \in SUBSET S : Cardinality(s) = 0 => s = {}
  BY <1>2, FS_EmptySet
<1>5. QED
  BY <1>1, <1>2, <1>3, <1>4

LEMMA SomeAddsUp ==
  ASSUME NEW S, IsFiniteSet(S), NEW f
  PROVE  \E g : g = [s \in SUBSET S |-> g[s]] /\ AddsUp(g, f, S)
<1> DEFINE Term(g, s) == IF s = {} THEN 0 ELSE f[Pick(s)] + g[s \ {Pick(s)}]
           Ok == {m \in 0 .. Cardinality(S) :
                   \E g : \A s \in SUBSET S : Cardinality(s) <= m => g[s] = Term(g, s)}
<1>1. 0 \in Ok
  <2> DEFINE g == [s \in SUBSET S |-> 0]
  <2>1. \A s \in SUBSET S : Cardinality(s) <= 0 => s = {}
    BY SubsetsAre
  <2>2. \A s \in SUBSET S : Cardinality(s) <= 0 => g[s] = Term(g, s)
    BY <2>1
  <2>3. 0 \in 0 .. Cardinality(S)
    BY SubsetsAre
  <2> HIDE DEF Term, g
  <2>4. QED
    BY <2>2, <2>3
<1>2. ASSUME NEW m \in Ok \cap (0 .. Cardinality(S) - 1)
      PROVE  m + 1 \in Ok
  <2>1. PICK g : \A s \in SUBSET S : Cardinality(s) <= m => g[s] = Term(g, s)
    OBVIOUS
  <2> DEFINE h == [s \in SUBSET S |-> IF Cardinality(s) <= m THEN g[s] ELSE Term(g, s)]
  <2>2. ASSUME NEW s \in SUBSET S, Cardinality(s) <= m + 1
        PROVE  h[s] = Term(h, s)
    <3>1. s # {} => h[s \ {Pick(s)}] = g[s \ {Pick(s)}]
      <4>1. SUFFICES ASSUME s # {} PROVE h[s \ {Pick(s)}] = g[s \ {Pick(s)}]
        OBVIOUS
      <4>2. s \ {Pick(s)} \in SUBSET S /\ Cardinality(s \ {Pick(s)}) = Cardinality(s) - 1
        BY <4>1, PickIs, SubsetsAre
      <4>3. Cardinality(s) \in Nat /\ m \in Nat
        BY SubsetsAre
      <4>4. Cardinality(s \ {Pick(s)}) <= m
        BY <2>2, <4>2, <4>3
      <4>5. QED
        BY <4>2, <4>4
    <3>2. Term(h, s) = Term(g, s)
      <4> HIDE DEF h
      <4>1. QED
        BY <3>1
    <3>3. h[s] = Term(g, s)
      <4> HIDE DEF Term
      <4>1. QED
        BY <2>1
    <3>4. QED
      BY <3>2, <3>3
  <2>3. m + 1 \in 0 .. Cardinality(S)
    BY SubsetsAre
  <2> HIDE DEF Term, h
  <2>4. QED
    BY <2>2, <2>3
<1>3. Cardinality(S) \in Ok
  <2> HIDE DEF Ok
  <2>1. Cardinality(S) \in Nat /\ Cardinality(S) \in 0 .. Cardinality(S)
    BY SubsetsAre
  <2>2. QED
    BY <1>1, <1>2, <2>1, RangeInduction
<1>4. PICK g : \A s \in SUBSET S : Cardinality(s) <= Cardinality(S) => g[s] = Term(g, s)
  BY <1>3
<1> DEFINE h == [s \in SUBSET S |-> g[s]]
<1>5. \A s \in SUBSET S : g[s] = Term(g, s)
  <2> HIDE DEF Term
  <2>1. QED
    BY <1>4, SubsetsAre
<1>6. ASSUME NEW s \in SUBSET S
      PROVE  h[s] = Term(h, s)
  <2>1. s \ {Pick(s)} \in SUBSET S
    OBVIOUS
  <2>2. QED
    BY <1>5, <2>1
<1>7. h = [s \in SUBSET S |-> h[s]]
  OBVIOUS
<1>8. QED
  BY <1>6, <1>7 DEF AddsUp

LEMMA SumAddsUp ==
  ASSUME NEW S, IsFiniteSet(S), NEW f
  PROVE  \E g : AddsUp(g, f, S) /\ SumFunctionOnSet(f, S) = g[S]
<1> DEFINE g == CHOOSE g : g = [s \in SUBSET S |-> IF s = {} THEN 0 ELSE f[Pick(s)] + g[s \ {Pick(s)}]]
<1>1. g = [s \in SUBSET S |-> IF s = {} THEN 0 ELSE f[Pick(s)] + g[s \ {Pick(s)}]]
  <2>1. \E h : h = [s \in SUBSET S |-> IF s = {} THEN 0 ELSE f[Pick(s)] + h[s \ {Pick(s)}]]
    <3>1. PICK h : h = [s \in SUBSET S |-> h[s]] /\ AddsUp(h, f, S)
      BY SomeAddsUp, Zenon
    <3>2. \A s \in SUBSET S : h[s] = IF s = {} THEN 0 ELSE f[Pick(s)] + h[s \ {Pick(s)}]
      BY <3>1 DEF AddsUp
    <3>3. QED
      BY <3>1, <3>2
  <2>2. QED
    BY <2>1, Zenon
<1>2. SumFunctionOnSet(f, S) = g[S]
  BY DEF SumFunctionOnSet, FoldFunctionOnSet, MapThenFoldSet, Pick
<1> HIDE DEF g
<1>3. AddsUp(g, f, S)
  BY <1>1 DEF AddsUp
<1>4. QED
  BY <1>2, <1>3

\* The order does not matter.
LEMMA AnyOrder ==
  ASSUME NEW S, IsFiniteSet(S), NEW f, \A x \in S : f[x] \in Nat, NEW g, AddsUp(g, f, S)
  PROVE  \A s \in SUBSET S : g[s] \in Nat /\ \A x \in s : g[s] = f[x] + g[s \ {x}]
<1> DEFINE Good(s) == g[s] \in Nat /\ \A x \in s : g[s] = f[x] + g[s \ {x}]
           Ok == {m \in 0 .. Cardinality(S) : \A s \in SUBSET S : Cardinality(s) <= m => Good(s)}
<1>0. \A s \in SUBSET S : g[s] = IF s = {} THEN 0 ELSE f[Pick(s)] + g[s \ {Pick(s)}]
  BY DEF AddsUp
<1>1. 0 \in Ok
  <2>1. \A s \in SUBSET S : Cardinality(s) <= 0 => s = {}
    BY SubsetsAre
  <2>2. g[{}] = 0
    BY <1>0
  <2>3. QED
    BY <2>1, <2>2, SubsetsAre
<1>2. ASSUME NEW m \in Ok \cap (0 .. Cardinality(S) - 1)
      PROVE  m + 1 \in Ok
  <2>1. \A s \in SUBSET S : Cardinality(s) <= m => Good(s)
    OBVIOUS
  <2>2. ASSUME NEW s \in SUBSET S, Cardinality(s) <= m + 1, s # {}
        PROVE  Good(s)
    <3>1. PICK y \in s : y = Pick(s)
      BY <2>2, PickIs
    <3>2. g[s] = f[y] + g[s \ {y}]
      BY <1>0, <2>2, <3>1
    <3>3. \A x \in s : s \ {x} \in SUBSET S /\ Cardinality(s \ {x}) <= m
      <4>1. SUFFICES ASSUME NEW x \in s
                     PROVE  s \ {x} \in SUBSET S /\ Cardinality(s \ {x}) <= m
        OBVIOUS
      <4>2. s \ {x} \in SUBSET S /\ Cardinality(s \ {x}) = Cardinality(s) - 1
        BY SubsetsAre
      <4>3. Cardinality(s) \in Nat /\ m \in Nat
        BY SubsetsAre
      <4>4. QED
        BY <2>2, <4>2, <4>3
    <3>4. \A x \in s : Good(s \ {x})
      <4> HIDE DEF Good
      <4>1. QED
        BY <2>1, <3>3
    <3>5. g[s] \in Nat
      <4>1. f[y] \in Nat /\ g[s \ {y}] \in Nat
        BY <3>1, <3>4
      <4>2. QED
        BY <3>2, <4>1
    <3>6. ASSUME NEW x \in s
          PROVE  g[s] = f[x] + g[s \ {x}]
      <4>1. CASE x = y
        BY <3>2, <4>1
      <4>2. CASE x # y
        <5>1. PICK r : r = (s \ {x}) \ {y} /\ r = (s \ {y}) \ {x}
          OBVIOUS
        <5>2. g[s \ {y}] = f[x] + g[r]
          <6>1. x \in s \ {y}
            BY <4>2
          <6>2. QED
            BY <3>1, <3>4, <5>1, <6>1
        <5>3. g[s \ {x}] = f[y] + g[r]
          <6>1. y \in s \ {x}
            BY <3>1, <4>2
          <6>2. QED
            BY <3>4, <5>1, <6>1
        <5>4. f[x] \in Nat /\ f[y] \in Nat /\ g[s \ {y}] \in Nat /\ g[s \ {x}] \in Nat
          BY <3>1, <3>4
        <5>5. g[r] \in Nat
          <6>1. r \in SUBSET S /\ Cardinality(r) <= m
            <7>1. x \in s \ {y} /\ s \ {y} \in SUBSET S
              BY <4>2
            <7>2. r \in SUBSET S /\ Cardinality(r) = Cardinality(s \ {y}) - 1
              BY <5>1, <7>1, SubsetsAre
            <7>3. Cardinality(s \ {y}) \in Nat /\ m \in Nat /\ Cardinality(s \ {y}) <= m
              BY <3>1, <3>3, <7>1, SubsetsAre
            <7>4. QED
              BY <7>2, <7>3
          <6>2. QED
            BY <2>1, <6>1
        <5>6. QED
          BY <3>2, <5>2, <5>3, <5>4, <5>5
      <4>3. QED
        BY <4>1, <4>2
    <3>7. QED
      BY <3>5, <3>6
  <2>3. Good({})
    <3>1. g[{}] = 0
      BY <1>0
    <3>2. QED
      BY <3>1
  <2>4. m + 1 \in 0 .. Cardinality(S)
    BY SubsetsAre
  <2> HIDE DEF Good
  <2>5. QED
    BY <2>2, <2>3, <2>4
<1>3. Cardinality(S) \in Ok
  <2> HIDE DEF Ok
  <2>1. Cardinality(S) \in Nat /\ Cardinality(S) \in 0 .. Cardinality(S)
    BY SubsetsAre
  <2>2. QED
    BY <1>1, <1>2, <2>1, RangeInduction
<1>4. QED
  BY <1>3, SubsetsAre

\* A smaller function over fewer elements adds up to no more.
LEMMA LessAddsUp ==
  ASSUME NEW S, IsFiniteSet(S), NEW f, \A x \in S : f[x] \in Nat, NEW g, AddsUp(g, f, S),
         NEW R, R \subseteq S, NEW e, \A x \in R : e[x] \in Nat /\ e[x] <= f[x], NEW d, AddsUp(d, e, R)
  PROVE  d[R] <= g[S]
<1> DEFINE Ok == {m \in 0 .. Cardinality(S) :
                   \A s \in SUBSET S : Cardinality(s) <= m => d[s \cap R] <= g[s]}
<1>0. IsFiniteSet(R)
  BY FS_Subset
<1>1. /\ \A s \in SUBSET S : g[s] \in Nat /\ \A x \in s : g[s] = f[x] + g[s \ {x}]
      /\ \A s \in SUBSET R : d[s] \in Nat /\ \A x \in s : d[s] = e[x] + d[s \ {x}]
  <2>1. \A s \in SUBSET S : g[s] \in Nat /\ \A x \in s : g[s] = f[x] + g[s \ {x}]
    BY AnyOrder
  <2>2. \A x \in R : e[x] \in Nat
    OBVIOUS
  <2>3. \A s \in SUBSET R : d[s] \in Nat /\ \A x \in s : d[s] = e[x] + d[s \ {x}]
    BY <1>0, <2>2, AnyOrder
  <2>4. QED
    BY <2>1, <2>3
<1>2. 0 \in Ok
  <2>1. \A s \in SUBSET S : Cardinality(s) <= 0 => s = {}
    BY SubsetsAre
  <2>2. g[{}] = 0 /\ d[{}] = 0 /\ {} \cap R = {}
    BY DEF AddsUp
  <2>3. 0 \in 0 .. Cardinality(S)
    BY SubsetsAre
  <2>4. \A s \in SUBSET S : Cardinality(s) <= 0 => d[s \cap R] <= g[s]
    <3>1. SUFFICES ASSUME NEW s \in SUBSET S, s = {} PROVE d[s \cap R] <= g[s]
      BY <2>1
    <3>2. s \cap R = {} /\ g[s] = 0 /\ d[s \cap R] = 0
      BY <2>2, <3>1
    <3>3. QED
      BY <3>2
  <2>5. QED
    BY <2>3, <2>4
<1>3. ASSUME NEW m \in Ok \cap (0 .. Cardinality(S) - 1)
      PROVE  m + 1 \in Ok
  <2>1. \A s \in SUBSET S : Cardinality(s) <= m => d[s \cap R] <= g[s]
    OBVIOUS
  <2>2. ASSUME NEW s \in SUBSET S, Cardinality(s) <= m + 1, s # {}
        PROVE  d[s \cap R] <= g[s]
    <3>1. PICK x \in s : TRUE
      BY <2>2
    <3>2. s \ {x} \in SUBSET S /\ Cardinality(s \ {x}) <= m
      <4>1. s \ {x} \in SUBSET S /\ Cardinality(s \ {x}) = Cardinality(s) - 1
        BY SubsetsAre
      <4>2. Cardinality(s) \in Nat /\ m \in Nat
        BY SubsetsAre
      <4>3. QED
        BY <2>2, <4>1, <4>2
    <3>3. d[(s \ {x}) \cap R] <= g[s \ {x}]
      BY <2>1, <3>2
    <3>4. PICK r \in SUBSET R : r = (s \ {x}) \cap R
      OBVIOUS
    <3>5. g[s] = f[x] + g[s \ {x}] /\ f[x] \in Nat /\ g[s \ {x}] \in Nat /\ d[r] \in Nat /\ d[r] <= g[s \ {x}]
      BY <1>1, <3>2, <3>3, <3>4
    <3>6. CASE x \in R
      <4>1. s \cap R \in SUBSET R /\ x \in s \cap R /\ (s \cap R) \ {x} = r
        BY <3>4, <3>6
      <4>2. d[s \cap R] = e[x] + d[r]
        BY <1>1, <4>1
      <4>3. e[x] \in Nat /\ e[x] <= f[x]
        BY <3>6
      <4>4. QED
        BY <3>5, <4>2, <4>3
    <3>7. CASE x \notin R
      <4>1. s \cap R = r
        BY <3>4, <3>7
      <4>2. d[r] <= f[x] + g[s \ {x}]
        BY <3>5
      <4>3. QED
        BY <3>5, <4>1, <4>2
    <3>8. QED
      BY <3>6, <3>7
  <2>3. d[{} \cap R] <= g[{}]
    <3>1. g[{}] = 0 /\ d[{}] = 0 /\ {} \cap R = {}
      BY DEF AddsUp
    <3>2. QED
      BY <3>1
  <2>4. m + 1 \in 0 .. Cardinality(S)
    BY SubsetsAre
  <2>5. QED
    BY <2>2, <2>3, <2>4
<1>4. Cardinality(S) \in Ok
  <2> HIDE DEF Ok
  <2>1. Cardinality(S) \in Nat /\ Cardinality(S) \in 0 .. Cardinality(S)
    BY SubsetsAre
  <2>2. QED
    BY <1>2, <1>3, <2>1, RangeInduction
<1>5. S \in SUBSET S /\ Cardinality(S) <= Cardinality(S) /\ S \cap R = R
  BY SubsetsAre
<1>6. QED
  BY <1>4, <1>5

LEMMA SumBelow ==
  ASSUME NEW S, IsFiniteSet(S), NEW f, \A x \in S : f[x] \in Nat,
         NEW R, R \subseteq S, NEW e, \A x \in R : e[x] \in Nat /\ e[x] <= f[x]
  PROVE  SumFunctionOnSet(e, R) <= SumFunctionOnSet(f, S)
<1>1. PICK g : AddsUp(g, f, S) /\ SumFunctionOnSet(f, S) = g[S]
  BY SumAddsUp
<1>2. IsFiniteSet(R)
  BY FS_Subset
<1>3. PICK d : AddsUp(d, e, R) /\ SumFunctionOnSet(e, R) = d[R]
  BY <1>2, SumAddsUp
<1>4. d[R] <= g[S]
  BY <1>1, <1>3, LessAddsUp
<1>5. QED
  BY <1>1, <1>3, <1>4

LEMMA SumIs ==
  ASSUME NEW S, IsFiniteSet(S), NEW f, \A x \in S : f[x] \in Nat
  PROVE  /\ SumFunctionOnSet(f, S) \in Nat
         /\ \A x \in S : SumFunctionOnSet(f, S) = f[x] + SumFunctionOnSet(f, S \ {x})
<1>1. PICK g : AddsUp(g, f, S) /\ SumFunctionOnSet(f, S) = g[S]
  BY SumAddsUp
<1>2. g[S] \in Nat /\ \A x \in S : g[S] = f[x] + g[S \ {x}]
  BY <1>1, AnyOrder
<1>3. ASSUME NEW x \in S
      PROVE  SumFunctionOnSet(f, S \ {x}) = g[S \ {x}]
  <2>1. PICK R : R = S \ {x} /\ R \subseteq S /\ IsFiniteSet(R)
    BY FS_RemoveElement
  <2>2. PICK d : AddsUp(d, f, R) /\ SumFunctionOnSet(f, R) = d[R]
    BY <2>1, SumAddsUp
  <2>3. AddsUp(g, f, R)
    BY <1>1, <2>1 DEF AddsUp
  <2>4. \A y \in R : f[y] \in Nat /\ f[y] <= f[y]
    BY <2>1
  <2>5. d[R] <= g[R] /\ g[R] <= d[R]
    <3>1. R \subseteq R
      OBVIOUS
    <3>2. QED
      BY <2>1, <2>2, <2>3, <2>4, <3>1, LessAddsUp
  <2>6. d[R] \in Nat /\ g[R] \in Nat
    <3>1. R \in SUBSET R
      OBVIOUS
    <3>2. QED
      BY <2>1, <2>2, <2>3, <2>4, <3>1, AnyOrder
  <2>7. QED
    BY <2>1, <2>2, <2>5, <2>6
<1>4. QED
  BY <1>1, <1>2, <1>3

LEMMA NoSum == \A f : SumFunctionOnSet(f, {}) = 0
<1> SUFFICES ASSUME NEW f
             PROVE  SumFunctionOnSet(f, {}) = 0
  OBVIOUS
<1>1. IsFiniteSet({})
  BY FS_EmptySet
<1>2. PICK g : AddsUp(g, f, {}) /\ SumFunctionOnSet(f, {}) = g[{}]
  BY <1>1, SumAddsUp
<1> QED
  BY <1>2 DEF AddsUp

\* One element more, or worth more.
LEMMA SumGrows ==
  ASSUME NEW S, IsFiniteSet(S), NEW f, \A x \in S : f[x] \in Nat,
         NEW x, NEW a \in Nat, NEW R, R \subseteq S \cup {x}, NEW e,
         \A y \in R \ {x} : e[y] \in Nat /\ e[y] <= f[y],
         x \in R => e[x] \in Nat /\ e[x] <= (IF x \in S THEN f[x] + a ELSE a)
  PROVE  SumFunctionOnSet(e, R) <= SumFunctionOnSet(f, S) + a
<1>1. PICK Q : Q = R \ {x} /\ Q \subseteq S \ {x} /\ Q \subseteq S
  OBVIOUS
<1>2. IsFiniteSet(S \cup {x}) /\ IsFiniteSet(R) /\ IsFiniteSet(S \ {x})
  BY FS_AddElement, FS_RemoveElement, FS_Subset
<1>3. \A y \in Q : e[y] \in Nat /\ e[y] <= f[y]
  BY <1>1
<1>4. SumFunctionOnSet(f, S) \in Nat
  BY SumIs
<1>5. CASE x \notin R
  <2>1. Q = R
    BY <1>1, <1>5
  <2>2. SumFunctionOnSet(e, R) <= SumFunctionOnSet(f, S)
    BY <1>1, <1>3, <2>1, SumBelow
  <2>3. SumFunctionOnSet(e, R) \in Nat
    BY <1>2, <1>3, <2>1, SumIs
  <2>4. QED
    BY <1>4, <2>2, <2>3
<1>6. CASE x \in R
  <2>1. \A y \in R : e[y] \in Nat
    BY <1>1, <1>3, <1>6
  <2>2. /\ SumFunctionOnSet(e, R) \in Nat
        /\ SumFunctionOnSet(e, R) = e[x] + SumFunctionOnSet(e, Q)
    <3>1. \A y \in R : SumFunctionOnSet(e, R) = e[y] + SumFunctionOnSet(e, R \ {y})
      BY <1>2, <2>1, SumIs
    <3>2. SumFunctionOnSet(e, R) \in Nat
      BY <1>2, <2>1, SumIs
    <3>3. QED
      BY <1>1, <1>6, <3>1, <3>2
  <2>3. SumFunctionOnSet(e, Q) \in Nat
    <3>1. IsFiniteSet(Q)
      BY <1>1, <1>2, FS_Subset
    <3>2. QED
      BY <1>3, <3>1, SumIs
  <2>4. CASE x \in S
    <3>1. \A y \in S \ {x} : f[y] \in Nat
      OBVIOUS
    <3>2. SumFunctionOnSet(e, Q) <= SumFunctionOnSet(f, S \ {x}) /\ SumFunctionOnSet(f, S \ {x}) \in Nat
      BY <1>1, <1>2, <1>3, <3>1, SumBelow, SumIs
    <3>3. SumFunctionOnSet(f, S) = f[x] + SumFunctionOnSet(f, S \ {x})
      BY <2>4, SumIs
    <3>4. e[x] \in Nat /\ e[x] <= f[x] + a /\ f[x] \in Nat
      BY <1>6, <2>4
    <3>5. QED
      BY <2>2, <2>3, <3>2, <3>3, <3>4
  <2>5. CASE x \notin S
    <3>1. SumFunctionOnSet(e, Q) <= SumFunctionOnSet(f, S)
      BY <1>1, <1>3, SumBelow
    <3>2. e[x] \in Nat /\ e[x] <= a
      BY <1>6, <2>5
    <3>3. QED
      BY <1>4, <2>2, <2>3, <3>1, <3>2
  <2>6. QED
    BY <2>4, <2>5
<1>7. QED
  BY <1>5, <1>6

\* One element less.
LEMMA SumShrinks ==
  ASSUME NEW S, IsFiniteSet(S), NEW f, \A y \in S : f[y] \in Nat,
         NEW x \in S, NEW R, R \subseteq S \ {x}, NEW e, \A y \in R : e[y] \in Nat /\ e[y] <= f[y]
  PROVE  SumFunctionOnSet(e, R) + f[x] <= SumFunctionOnSet(f, S)
<1>1. IsFiniteSet(S \ {x}) /\ IsFiniteSet(R) /\ \A y \in S \ {x} : f[y] \in Nat
  BY FS_RemoveElement, FS_Subset
<1>2. SumFunctionOnSet(e, R) <= SumFunctionOnSet(f, S \ {x})
  BY <1>1, SumBelow
<1>3. SumFunctionOnSet(e, R) \in Nat /\ SumFunctionOnSet(f, S \ {x}) \in Nat
  BY <1>1, SumIs
<1>4. SumFunctionOnSet(f, S) = f[x] + SumFunctionOnSet(f, S \ {x}) /\ f[x] \in Nat
  BY SumIs
<1>5. QED
  BY <1>2, <1>3, <1>4

-----------------------------------------------------------------------------
(* The recursive definitions of the tree, unfolded.                        *)

Depths == 0 .. LEVELS

LEMMA DepthsAre ==
  /\ LEVELS \in Nat /\ LEVELS \in Depths /\ 0 \in Depths
  /\ \A i \in Level : i \in Depths /\ i + 1 \in Depths /\ i + 1 # 0 /\ i + 1 - 1 = i
  /\ \A i \in Depths : i # 0 => i - 1 \in Level
BY TreeAssumption DEF Depths, Level

LEMMA ShiftUnfolds ==
  shift = [i \in Depths |-> IF i = 0 THEN 1 ELSE 2 * shift[i - 1]]
<1> DEFINE Ok == {n \in Depths : \E g : g = [i \in 0 .. n |-> IF i = 0 THEN 1 ELSE 2 * g[i - 1]]}
<1>1. 0 \in Ok
  <2> DEFINE g == [i \in 0 .. 0 |-> 1]
  <2>1. g = [i \in 0 .. 0 |-> IF i = 0 THEN 1 ELSE 2 * g[i - 1]]
    OBVIOUS
  <2>2. QED
    BY <2>1, DepthsAre
<1>2. ASSUME NEW n \in Ok \cap (0 .. LEVELS - 1)
      PROVE  n + 1 \in Ok
  <2>1. PICK g : g = [i \in 0 .. n |-> IF i = 0 THEN 1 ELSE 2 * g[i - 1]]
    OBVIOUS
  <2> DEFINE h == [i \in 0 .. n + 1 |-> IF i = n + 1 THEN 2 * g[n] ELSE g[i]]
  <2>2. n \in Nat /\ n + 1 \in Depths
    BY DepthsAre DEF Depths
  <2>3. \A i \in 0 .. n + 1 : h[i] = IF i = 0 THEN 1 ELSE 2 * h[i - 1]
    BY <2>1, <2>2
  <2>4. h = [i \in 0 .. n + 1 |-> IF i = 0 THEN 1 ELSE 2 * h[i - 1]]
    BY <2>3
  <2>5. QED
    BY <2>2, <2>4
<1>3. LEVELS \in Ok
  <2> HIDE DEF Ok
  <2>1. QED
    BY <1>1, <1>2, DepthsAre, RangeInduction
<1>4. QED
  BY <1>3 DEF shift, Depths

LEMMA ShiftIs ==
  /\ shift[0] = 1 /\ \A i \in Level : shift[i + 1] = 2 * shift[i]
  /\ \A i \in Depths : shift[i] \in Nat \ {0}
  /\ Capacity \in Nat \ {0}
<1>1. shift[0] = 1 /\ \A i \in Level : shift[i + 1] = 2 * shift[i]
  <2>1. \A i \in Depths : shift[i] = IF i = 0 THEN 1 ELSE 2 * shift[i - 1]
    BY ShiftUnfolds
  <2>2. ASSUME NEW i \in Level
        PROVE  shift[i + 1] = 2 * shift[i]
    <3>1. i + 1 \in Depths /\ i + 1 # 0 /\ i + 1 - 1 = i /\ i \in Nat
      BY DepthsAre DEF Level
    <3>2. shift[i + 1] = 2 * shift[i + 1 - 1]
      BY <2>1, <3>1
    <3>3. QED
      BY <3>1, <3>2
  <2>3. QED
    BY <2>1, <2>2, DepthsAre
<1> DEFINE Ok == {i \in Depths : shift[i] \in Nat \ {0}}
<1>2. 0 \in Ok
  BY <1>1, DepthsAre
<1>3. \A i \in Ok \cap (0 .. LEVELS - 1) : i + 1 \in Ok
  BY <1>1, DepthsAre DEF Level
<1>4. Depths \subseteq Ok
  <2> HIDE DEF Ok
  <2>1. QED
    BY <1>2, <1>3, DepthsAre, RangeInduction DEF Depths
<1>5. QED
  BY <1>1, <1>4, DepthsAre DEF Capacity

LEMMA ZerosUnfold ==
  /\ zeros[0] = Zero
  /\ \A i \in Level : zeros[i + 1] = poseidon(zeros[i], zeros[i])
<1> DEFINE Ok == {n \in Depths : \E g : g = [i \in 0 .. n |-> IF i = 0 THEN Zero ELSE poseidon(g[i - 1], g[i - 1])]}
<1>1. 0 \in Ok
  <2> DEFINE g == [i \in 0 .. 0 |-> Zero]
  <2>1. g = [i \in 0 .. 0 |-> IF i = 0 THEN Zero ELSE poseidon(g[i - 1], g[i - 1])]
    OBVIOUS
  <2>2. QED
    BY <2>1, DepthsAre
<1>2. ASSUME NEW n \in Ok \cap (0 .. LEVELS - 1)
      PROVE  n + 1 \in Ok
  <2>1. PICK g : g = [i \in 0 .. n |-> IF i = 0 THEN Zero ELSE poseidon(g[i - 1], g[i - 1])]
    OBVIOUS
  <2> DEFINE h == [i \in 0 .. n + 1 |-> IF i = n + 1 THEN poseidon(g[n], g[n]) ELSE g[i]]
  <2>2. n \in Nat /\ n + 1 \in Depths
    BY DepthsAre DEF Depths
  <2>3. \A i \in 0 .. n + 1 : h[i] = IF i = 0 THEN Zero ELSE poseidon(h[i - 1], h[i - 1])
    BY <2>1, <2>2
  <2>4. h = [i \in 0 .. n + 1 |-> IF i = 0 THEN Zero ELSE poseidon(h[i - 1], h[i - 1])]
    BY <2>3
  <2>5. QED
    BY <2>2, <2>4
<1>3. LEVELS \in Ok
  <2> HIDE DEF Ok
  <2>1. QED
    BY <1>1, <1>2, DepthsAre, RangeInduction
<1>4. zeros = [i \in Depths |-> IF i = 0 THEN Zero ELSE poseidon(zeros[i - 1], zeros[i - 1])]
  BY <1>3 DEF zeros, Depths
<1>5. \A i \in Depths : zeros[i] = IF i = 0 THEN Zero ELSE poseidon(zeros[i - 1], zeros[i - 1])
  BY <1>4
<1>6. ASSUME NEW i \in Level
      PROVE  zeros[i + 1] = poseidon(zeros[i], zeros[i])
  <2>1. i + 1 \in Depths /\ i + 1 # 0 /\ i + 1 - 1 = i /\ i \in Nat
    BY DepthsAre DEF Level
  <2>2. zeros[i + 1] = poseidon(zeros[i + 1 - 1], zeros[i + 1 - 1])
    BY <1>5, <2>1
  <2>3. QED
    BY <2>1, <2>2
<1>7. QED
  BY <1>5, <1>6, DepthsAre

LEMMA PathUnfolds ==
  ASSUME NEW leaf
  PROVE  /\ PathOf(leaf)[0] = leaf
         /\ \A i \in Level : PathOf(leaf)[i + 1] = IF IsLeft(nextLeafIndex, i)
                                                   THEN poseidon(PathOf(leaf)[i], zeros[i])
                                                   ELSE poseidon(filledSubtrees[i], PathOf(leaf)[i])
<1> DEFINE Up(hash, i) == IF IsLeft(nextLeafIndex, i) THEN poseidon(hash, zeros[i])
                          ELSE poseidon(filledSubtrees[i], hash)
           Ok == {n \in Depths : \E g : g = [i \in 0 .. n |-> IF i = 0 THEN leaf ELSE Up(g[i - 1], i - 1)]}
<1>1. 0 \in Ok
  <2> DEFINE g == [i \in 0 .. 0 |-> leaf]
  <2>1. g = [i \in 0 .. 0 |-> IF i = 0 THEN leaf ELSE Up(g[i - 1], i - 1)]
    OBVIOUS
  <2>2. QED
    BY <2>1, DepthsAre
<1>2. ASSUME NEW n \in Ok \cap (0 .. LEVELS - 1)
      PROVE  n + 1 \in Ok
  <2>1. PICK g : g = [i \in 0 .. n |-> IF i = 0 THEN leaf ELSE Up(g[i - 1], i - 1)]
    OBVIOUS
  <2> DEFINE h == [i \in 0 .. n + 1 |-> IF i = n + 1 THEN Up(g[n], n) ELSE g[i]]
  <2>2. n \in Nat /\ n + 1 \in Depths
    BY DepthsAre DEF Depths
  <2> HIDE DEF Up
  <2>3. \A i \in 0 .. n + 1 : h[i] = IF i = 0 THEN leaf ELSE Up(h[i - 1], i - 1)
    BY <2>1, <2>2
  <2>4. h = [i \in 0 .. n + 1 |-> IF i = 0 THEN leaf ELSE Up(h[i - 1], i - 1)]
    BY <2>3
  <2> USE DEF Up
  <2>5. QED
    BY <2>2, <2>4
<1>3. LEVELS \in Ok
  <2> HIDE DEF Ok
  <2>1. QED
    BY <1>1, <1>2, DepthsAre, RangeInduction
<1>4. PathOf(leaf) = [i \in Depths |-> IF i = 0 THEN leaf
                                       ELSE IF IsLeft(nextLeafIndex, i - 1)
                                            THEN poseidon(PathOf(leaf)[i - 1], zeros[i - 1])
                                            ELSE poseidon(filledSubtrees[i - 1], PathOf(leaf)[i - 1])]
  BY <1>3 DEF PathOf, Depths
<1>5. \A i \in Depths : PathOf(leaf)[i] = IF i = 0 THEN leaf ELSE Up(PathOf(leaf)[i - 1], i - 1)
  BY <1>4
<1>6. ASSUME NEW i \in Level
      PROVE  PathOf(leaf)[i + 1] = Up(PathOf(leaf)[i], i)
  <2>1. i + 1 \in Depths /\ i + 1 # 0 /\ i + 1 - 1 = i /\ i \in Nat
    BY DepthsAre DEF Level
  <2> HIDE DEF Up
  <2>2. PathOf(leaf)[i + 1] = Up(PathOf(leaf)[i + 1 - 1], i + 1 - 1)
    BY <1>5, <2>1
  <2>3. QED
    BY <2>1, <2>2
<1>7. QED
  BY <1>5, <1>6, DepthsAre

\* The nodes of level i.
Width(i) == 0 .. shift[LEVELS - i] - 1

LEMMA TreeUnfolds ==
  ASSUME NEW leaves
  PROVE  LET node == MerkleTree(leaves)
         IN  /\ \A k \in Width(0) : node[0][k] = IF k < Len(leaves) THEN leaves[k + 1] ELSE Zero
             /\ \A i \in Level : \A k \in Width(i + 1) :
                  node[i + 1][k] = poseidon(node[i][2 * k], node[i][2 * k + 1])
<1> DEFINE Leaf(k) == IF k < Len(leaves) THEN leaves[k + 1] ELSE Zero
           Row(g, i) == [k \in 0 .. shift[LEVELS - i] - 1 |->
                          IF i = 0 THEN Leaf(k) ELSE poseidon(g[i - 1][2 * k], g[i - 1][2 * k + 1])]
           Ok == {n \in Depths : \E g : g = [i \in 0 .. n |-> Row(g, i)]}
<1>1. 0 \in Ok
  <2> DEFINE g == [i \in 0 .. 0 |-> [k \in 0 .. shift[LEVELS - i] - 1 |-> Leaf(k)]]
  <2>1. g = [i \in 0 .. 0 |-> Row(g, i)]
    OBVIOUS
  <2>2. QED
    BY <2>1, DepthsAre
<1>2. ASSUME NEW n \in Ok \cap (0 .. LEVELS - 1)
      PROVE  n + 1 \in Ok
  <2>1. PICK g : g = [i \in 0 .. n |-> Row(g, i)]
    OBVIOUS
  <2> DEFINE h == [i \in 0 .. n + 1 |-> IF i = n + 1 THEN Row(g, n + 1) ELSE g[i]]
  <2>2. n \in Nat /\ n + 1 \in Depths
    BY DepthsAre DEF Depths
  <2>3. \A i \in 0 .. n + 1 : h[i] = Row(h, i)
    <3> SUFFICES ASSUME NEW i \in 0 .. n + 1 PROVE h[i] = Row(h, i)
      OBVIOUS
    <3>1. i # 0 => h[i - 1] = g[i - 1]
      BY <2>2
    <3>2. Row(h, i) = Row(g, i)
      BY <3>1
    <3> HIDE DEF Row
    <3>3. h[i] = Row(g, i)
      BY <2>1, <2>2
    <3>4. QED
      BY <3>2, <3>3
  <2> HIDE DEF Row
  <2>4. h = [i \in 0 .. n + 1 |-> Row(h, i)]
    BY <2>3
  <2>5. QED
    BY <2>2, <2>4
<1>3. LEVELS \in Ok
  <2> HIDE DEF Ok
  <2>1. QED
    BY <1>1, <1>2, DepthsAre, RangeInduction
<1> DEFINE node == MerkleTree(leaves)
<1>4. node = [i \in Depths |-> Row(node, i)]
  BY <1>3 DEF MerkleTree, Depths
<1>5. \A i \in Depths : node[i] = Row(node, i)
  <2> HIDE DEF Row, node
  <2>1. QED
    BY <1>4
<1>6. ASSUME NEW k \in Width(0)
      PROVE  node[0][k] = Leaf(k)
  <2>1. node[0] = Row(node, 0)
    BY <1>5, DepthsAre
  <2> HIDE DEF node
  <2>2. QED
    BY <2>1 DEF Width
<1>7. ASSUME NEW i \in Level, NEW k \in Width(i + 1)
      PROVE  node[i + 1][k] = poseidon(node[i][2 * k], node[i][2 * k + 1])
  <2>1. i + 1 \in Depths /\ i + 1 # 0 /\ i + 1 - 1 = i /\ i \in Nat
    BY DepthsAre DEF Level
  <2>2. node[i + 1] = Row(node, i + 1)
    BY <1>5, <2>1
  <2> HIDE DEF node
  <2>3. QED
    BY <2>1, <2>2 DEF Width
<1>8. QED
  BY <1>6, <1>7

-----------------------------------------------------------------------------
(* The reference tree.                                                     *)

LEMMA WidthsAre ==
  /\ Width(0) = 0 .. Capacity - 1 /\ Width(LEVELS) = 0 .. 0
  /\ \A i \in Depths : Width(i) \subseteq Nat
  /\ \A i \in Level : /\ shift[LEVELS - i] = 2 * shift[LEVELS - (i + 1)]
                      /\ \A k \in Width(i + 1) : 2 * k \in Width(i) /\ 2 * k + 1 \in Width(i)
<1>1. LEVELS - 0 = LEVELS /\ LEVELS - LEVELS = 0
  BY DepthsAre
<1>2. Width(0) = 0 .. Capacity - 1 /\ Width(LEVELS) = 0 .. 0
  BY <1>1, ShiftIs DEF Width, Capacity
<1>3. \A i \in Depths : Width(i) \subseteq Nat
  BY DEF Width
<1>4. ASSUME NEW i \in Level
      PROVE  /\ shift[LEVELS - i] = 2 * shift[LEVELS - (i + 1)]
             /\ \A k \in Width(i + 1) : 2 * k \in Width(i) /\ 2 * k + 1 \in Width(i)
  <2>1. /\ LEVELS - (i + 1) \in Level /\ LEVELS - (i + 1) \in Depths
        /\ (LEVELS - (i + 1)) + 1 = LEVELS - i
    BY DepthsAre DEF Level, Depths
  <2>2. shift[LEVELS - i] = 2 * shift[LEVELS - (i + 1)] /\ shift[LEVELS - (i + 1)] \in Nat
    BY <2>1, ShiftIs
  <2>3. QED
    BY <2>2 DEF Width
<1>5. QED
  BY <1>2, <1>3, <1>4

LEMMA Multiples ==
  ASSUME NEW k \in Nat, NEW s \in Nat \ {0}, NEW n \in Nat
  PROVE  /\ k * (2 * s) = (2 * k) * s
         /\ (2 * k) * s <= (2 * k + 1) * s
         /\ (k + 1) * (2 * s) = (2 * k + 1 + 1) * s
         /\ (2 * k + 1) * s <= (2 * k + 1 + 1) * s
         /\ (2 * k) * s \in Nat /\ (2 * k + 1) * s \in Nat /\ (2 * k + 1 + 1) * s \in Nat
<1>1. \A a, b \in Nat : a * b \in Nat /\ (a + 1) * b = a * b + b
  OBVIOUS
<1>2. k * (2 * s) = (2 * k) * s
  OBVIOUS
<1>3. (k + 1) * (2 * s) = (2 * k + 2) * s
  OBVIOUS
<1>4. (2 * k + 1) * s = (2 * k) * s + s /\ (2 * k + 1 + 1) * s = (2 * k + 1) * s + s
  BY <1>1
<1>5. QED
  BY <1>1, <1>2, <1>3, <1>4

\* Beyond the leaves the tree is that of no leaf.
LEMMA TreeBeyond ==
  ASSUME NEW leaves, Len(leaves) \in Nat
  PROVE  \A i \in Depths : \A k \in Width(i) :
           k * shift[i] >= Len(leaves) => MerkleTree(leaves)[i][k] = zeros[i]
<1> DEFINE node == MerkleTree(leaves)
           Ok == {i \in Depths : \A k \in Width(i) : k * shift[i] >= Len(leaves) => node[i][k] = zeros[i]}
<1>1. 0 \in Ok
  <2>1. \A k \in Width(0) : k \in Nat /\ k * 1 = k
    BY WidthsAre, ShiftIs
  <2>2. \A k \in Width(0) : node[0][k] = IF k < Len(leaves) THEN leaves[k + 1] ELSE Zero
    BY TreeUnfolds
  <2> HIDE DEF node
  <2>3. QED
    BY <2>1, <2>2, ShiftIs, ZerosUnfold, DepthsAre
<1>2. ASSUME NEW i \in Ok \cap (0 .. LEVELS - 1)
      PROVE  i + 1 \in Ok
  <2>1. i \in Level /\ i \in Depths /\ i + 1 \in Depths
    BY DepthsAre DEF Level
  <2>2. shift[i] \in Nat \ {0} /\ shift[i + 1] = 2 * shift[i] /\ zeros[i + 1] = poseidon(zeros[i], zeros[i])
    BY <2>1, ShiftIs, ZerosUnfold
  <2>3. ASSUME NEW k \in Width(i + 1), k * shift[i + 1] >= Len(leaves)
        PROVE  node[i + 1][k] = zeros[i + 1]
    <3>1. k \in Nat /\ 2 * k \in Width(i) /\ 2 * k + 1 \in Width(i)
      BY <2>1, WidthsAre
    <3>2. (2 * k) * shift[i] >= Len(leaves) /\ (2 * k + 1) * shift[i] >= Len(leaves)
      <4>1. /\ k * (2 * shift[i]) = (2 * k) * shift[i]
            /\ (2 * k) * shift[i] <= (2 * k + 1) * shift[i]
        BY <2>2, <3>1, Multiples
      <4>2. (2 * k) * shift[i] \in Nat /\ (2 * k + 1) * shift[i] \in Nat
        BY <2>2, <3>1, Multiples
      <4>3. QED
        BY <2>2, <2>3, <4>1, <4>2
    <3>3. node[i][2 * k] = zeros[i] /\ node[i][2 * k + 1] = zeros[i]
      BY <3>1, <3>2
    <3>4. node[i + 1][k] = poseidon(node[i][2 * k], node[i][2 * k + 1])
      BY <2>1, TreeUnfolds
    <3> HIDE DEF node
    <3>5. QED
      BY <2>2, <3>3, <3>4
  <2>4. QED
    BY <2>1, <2>3
<1>3. Depths \subseteq Ok
  <2> HIDE DEF Ok
  <2>1. QED
    BY <1>1, <1>2, DepthsAre, RangeInduction DEF Depths
<1>4. QED
  BY <1>3

\* A node whose leaves are all there stays as it is.
LEMMA TreeStable ==
  ASSUME NEW old, NEW new, Len(old) \in Nat, Len(new) \in Nat, Len(old) <= Len(new),
         \A k \in 1 .. Len(old) : new[k] = old[k]
  PROVE  \A i \in Depths : \A k \in Width(i) :
           (k + 1) * shift[i] <= Len(old) => MerkleTree(new)[i][k] = MerkleTree(old)[i][k]
<1> DEFINE m == MerkleTree(new)
           n == MerkleTree(old)
           Ok == {i \in Depths : \A k \in Width(i) : (k + 1) * shift[i] <= Len(old) => m[i][k] = n[i][k]}
<1>1. 0 \in Ok
  <2>1. \A k \in Width(0) : k \in Nat /\ (k + 1) * 1 = k + 1
    BY WidthsAre, ShiftIs
  <2>2. \A k \in Width(0) : /\ m[0][k] = IF k < Len(new) THEN new[k + 1] ELSE Zero
                            /\ n[0][k] = IF k < Len(old) THEN old[k + 1] ELSE Zero
    BY TreeUnfolds
  <2> HIDE DEF m, n
  <2>3. ASSUME NEW k \in Width(0), k + 1 <= Len(old)
        PROVE  m[0][k] = n[0][k]
    <3>1. k + 1 \in 1 .. Len(old) /\ k < Len(old) /\ k < Len(new)
      BY <2>1, <2>3
    <3>2. QED
      BY <2>2, <3>1
  <2>4. QED
    BY <2>1, <2>3, ShiftIs, DepthsAre
<1>2. ASSUME NEW i \in Ok \cap (0 .. LEVELS - 1)
      PROVE  i + 1 \in Ok
  <2>1. i \in Level /\ i \in Depths /\ i + 1 \in Depths
    BY DepthsAre DEF Level
  <2>2. shift[i] \in Nat \ {0} /\ shift[i + 1] = 2 * shift[i]
    BY <2>1, ShiftIs
  <2>3. ASSUME NEW k \in Width(i + 1), (k + 1) * shift[i + 1] <= Len(old)
        PROVE  m[i + 1][k] = n[i + 1][k]
    <3>1. k \in Nat /\ 2 * k \in Width(i) /\ 2 * k + 1 \in Width(i)
      BY <2>1, WidthsAre
    <3>2. (2 * k + 1) * shift[i] <= Len(old) /\ (2 * k + 1 + 1) * shift[i] <= Len(old)
      <4>1. /\ (k + 1) * (2 * shift[i]) = (2 * k + 1 + 1) * shift[i]
            /\ (2 * k + 1) * shift[i] <= (2 * k + 1 + 1) * shift[i]
        BY <2>2, <3>1, Multiples
      <4>2. (2 * k + 1 + 1) * shift[i] \in Nat /\ (2 * k + 1) * shift[i] \in Nat
        BY <2>2, <3>1, Multiples
      <4>3. QED
        BY <2>2, <2>3, <4>1, <4>2
    <3>3. m[i][2 * k] = n[i][2 * k] /\ m[i][2 * k + 1] = n[i][2 * k + 1]
      BY <3>1, <3>2
    <3>4. /\ m[i + 1][k] = poseidon(m[i][2 * k], m[i][2 * k + 1])
          /\ n[i + 1][k] = poseidon(n[i][2 * k], n[i][2 * k + 1])
      BY <2>1, TreeUnfolds
    <3> HIDE DEF m, n
    <3>5. QED
      BY <3>3, <3>4
  <2>4. QED
    BY <2>1, <2>3
<1>3. Depths \subseteq Ok
  <2> HIDE DEF Ok
  <2>1. QED
    BY <1>1, <1>2, DepthsAre, RangeInduction DEF Depths
<1>4. QED
  BY <1>3

\* The tree of no leaf is that of zeros, and two lists of notes that differ
\* in length have different roots.
LEMMA EmptyRoot == MerkleRoot(<<>>) = zeros[LEVELS]
<1>1. Len(<<>>) \in Nat /\ LEVELS \in Depths /\ 0 \in Width(LEVELS)
  BY WidthsAre, DepthsAre
<1>2. shift[LEVELS] \in Nat /\ 0 * shift[LEVELS] >= Len(<<>>)
  BY ShiftIs, DepthsAre
<1>3. MerkleTree(<<>>)[LEVELS][0] = zeros[LEVELS]
  BY <1>1, <1>2, TreeBeyond
<1>4. QED
  BY <1>3 DEF MerkleRoot

LEMMA RootsDiffer ==
  ASSUME NEW a, NEW b, Len(a) \in Nat, Len(b) \in Nat, Len(a) < Len(b), Len(b) <= Capacity,
         \A k \in 1 .. Len(b) : b[k] \in Note
  PROVE  MerkleRoot(a) # MerkleRoot(b)
<1> SUFFICES ASSUME MerkleRoot(a) = MerkleRoot(b) PROVE FALSE
  OBVIOUS
<1> DEFINE m == MerkleTree(a)
           n == MerkleTree(b)
           Ok == {j \in Depths : \A k \in Width(LEVELS - j) : m[LEVELS - j][k] = n[LEVELS - j][k]}
<1>1. 0 \in Ok
  <2>1. Width(LEVELS - 0) = 0 .. 0 /\ LEVELS - 0 = LEVELS
    BY WidthsAre, DepthsAre
  <2>2. m[LEVELS][0] = n[LEVELS][0]
    BY DEF MerkleRoot
  <2> HIDE DEF m, n
  <2>3. QED
    BY <2>1, <2>2, DepthsAre
<1>2. ASSUME NEW j \in Ok \cap (0 .. LEVELS - 1)
      PROVE  j + 1 \in Ok
  <2>1. PICK i \in Level : i = LEVELS - (j + 1) /\ i + 1 = LEVELS - j /\ j + 1 \in Depths
    BY DepthsAre DEF Depths, Level
  <2>2. \A k \in Width(i + 1) : m[i + 1][k] = n[i + 1][k]
    BY <2>1
  <2>3. ASSUME NEW k \in Width(i)
        PROVE  m[i][k] = n[i][k]
    <3>1. shift[LEVELS - i] = 2 * shift[LEVELS - (i + 1)] /\ shift[LEVELS - (i + 1)] \in Nat
      <4>1. LEVELS - (i + 1) \in Depths
        BY DepthsAre DEF Depths, Level
      <4>2. QED
        BY <4>1, WidthsAre, ShiftIs
    <3>2. PICK q : q = k \div 2 /\ q \in Width(i + 1) /\ (k = 2 * q \/ k = 2 * q + 1)
      <4>1. k \in Nat /\ k < 2 * shift[LEVELS - (i + 1)]
        BY <3>1 DEF Width
      <4>2. k \div 2 \in 0 .. shift[LEVELS - (i + 1)] - 1
        BY <3>1, <4>1
      <4>3. k = 2 * (k \div 2) \/ k = 2 * (k \div 2) + 1
        BY <4>1
      <4>4. QED
        BY <4>2, <4>3 DEF Width
    <3>3. /\ m[i + 1][q] = <<m[i][2 * q], m[i][2 * q + 1]>>
          /\ n[i + 1][q] = <<n[i][2 * q], n[i][2 * q + 1]>>
      BY <3>2, TreeUnfolds DEF poseidon
    <3> HIDE DEF m, n
    <3>4. m[i][2 * q] = n[i][2 * q] /\ m[i][2 * q + 1] = n[i][2 * q + 1]
      BY <2>2, <3>2, <3>3
    <3>5. QED
      BY <3>2, <3>4
  <2> HIDE DEF m, n
  <2>4. QED
    BY <2>1, <2>3
<1>3. LEVELS \in Ok
  <2> HIDE DEF Ok
  <2>1. QED
    BY <1>1, <1>2, DepthsAre, RangeInduction
<1>4. Len(a) \in Width(0) /\ LEVELS - LEVELS = 0
  BY WidthsAre, ShiftIs, DepthsAre
<1>5. m[0][Len(a)] = n[0][Len(a)]
  BY <1>3, <1>4
<1>6. m[0][Len(a)] = Zero /\ n[0][Len(a)] = b[Len(a) + 1]
  BY <1>4, TreeUnfolds
<1>7. b[Len(a) + 1] \in Note
  OBVIOUS
<1>8. QED
  BY <1>5, <1>6, <1>7, NoteAssumption

-----------------------------------------------------------------------------
(* The path of a new leaf.                                                 *)

LEMMA DivIs ==
  ASSUME NEW n \in Nat, NEW s \in Nat \ {0}
  PROVE  /\ n \div s \in Nat
         /\ (n \div s) * s <= n /\ n < (n \div s + 1) * s
         /\ n \div (2 * s) = (n \div s) \div 2
         /\ (n + 1) \div s \in {n \div s, n \div s + 1}
<1>1. n \div s \in Nat
  OBVIOUS
<1>2. (n \div s) * s <= n
  OBVIOUS
<1>3. n < (n \div s + 1) * s
  OBVIOUS
<1>4. n \div (2 * s) = (n \div s) \div 2
  OBVIOUS
<1>5. (n + 1) \div s \in {n \div s, n \div s + 1}
  OBVIOUS
<1>6. QED
  BY <1>1, <1>2, <1>3, <1>4, <1>5

LEMMA PlaceIs ==
  ASSUME NEW n \in 0 .. Capacity - 1
  PROVE  \A i \in Depths : n \div shift[i] \in Width(i)
<1> DEFINE Ok == {i \in Depths : n \div shift[i] \in Width(i)}
<1>0. n \in Nat
  BY ShiftIs
<1>1. 0 \in Ok
  BY <1>0, ShiftIs, WidthsAre, DepthsAre
<1>2. ASSUME NEW i \in Ok \cap (0 .. LEVELS - 1)
      PROVE  i + 1 \in Ok
  <2>1. i \in Level /\ i \in Depths /\ i + 1 \in Depths /\ LEVELS - (i + 1) \in Depths
    BY DepthsAre DEF Level, Depths
  <2>2. /\ shift[i] \in Nat \ {0} /\ shift[i + 1] = 2 * shift[i]
        /\ shift[LEVELS - i] = 2 * shift[LEVELS - (i + 1)] /\ shift[LEVELS - (i + 1)] \in Nat
    BY <2>1, ShiftIs, WidthsAre
  <2>3. n \div shift[i + 1] = (n \div shift[i]) \div 2 /\ n \div shift[i] \in Nat
    BY <1>0, <2>2, DivIs
  <2>4. n \div shift[i] < 2 * shift[LEVELS - (i + 1)]
    BY <2>1, <2>2 DEF Width
  <2>5. (n \div shift[i]) \div 2 \in Width(i + 1)
    BY <2>2, <2>3, <2>4 DEF Width
  <2>6. QED
    BY <2>1, <2>3, <2>5
<1>3. Depths \subseteq Ok
  <2> HIDE DEF Ok
  <2>1. QED
    BY <1>1, <1>2, DepthsAre, RangeInduction DEF Depths
<1>4. QED
  BY <1>3

\* What the cached left siblings are worth: where the next leaf goes right,
\* the root of the complete subtree to its left.
FilledFor(filled, leaves) ==
  \A i \in Level : (Len(leaves) \div shift[i]) % 2 = 1 =>
    filled[i] = MerkleTree(leaves)[i][Len(leaves) \div shift[i] - 1]

LEMMA PathIsTree ==
  ASSUME NEW old, NEW new, NEW leaf, Len(old) = nextLeafIndex, nextLeafIndex \in 0 .. Capacity - 1,
         Len(new) = nextLeafIndex + 1, new[nextLeafIndex + 1] = leaf,
         \A k \in 1 .. Len(old) : new[k] = old[k],
         FilledFor(filledSubtrees, old)
  PROVE  \A i \in Depths : PathOf(leaf)[i] = MerkleTree(new)[i][nextLeafIndex \div shift[i]]
<1> DEFINE n == nextLeafIndex
           path == PathOf(leaf)
           node == MerkleTree(new)
           Ok == {i \in Depths : path[i] = node[i][n \div shift[i]]}
<1>0. n \in Nat /\ Len(old) \in Nat /\ Len(new) \in Nat /\ Len(old) <= Len(new)
  BY ShiftIs
<1>1. 0 \in Ok
  <2>1. n \div shift[0] = n /\ n \in Width(0)
    BY <1>0, ShiftIs, WidthsAre
  <2>2. node[0][n] = leaf
    BY <1>0, <2>1, TreeUnfolds
  <2>3. path[0] = leaf
    BY PathUnfolds
  <2> HIDE DEF n, path, node
  <2>4. QED
    BY <2>1, <2>2, <2>3, DepthsAre
<1>2. ASSUME NEW i \in Ok \cap (0 .. LEVELS - 1)
      PROVE  i + 1 \in Ok
  <2>1. i \in Level /\ i \in Depths /\ i + 1 \in Depths
    BY DepthsAre DEF Level
  <2>2. shift[i] \in Nat \ {0} /\ shift[i + 1] = 2 * shift[i]
    BY <2>1, ShiftIs
  <2>3. PICK q \in Nat : q = n \div shift[i]
    BY <1>0, <2>2, DivIs
  <2>4. q * shift[i] <= n /\ n < (q + 1) * shift[i] /\ n \div shift[i + 1] = q \div 2
    <3>1. PICK d \in Nat \ {0} : d = shift[i] /\ shift[i + 1] = 2 * d
      BY <2>2
    <3> HIDE DEF n
    <3>2. /\ n \div (2 * d) = (n \div d) \div 2
          /\ (n \div d) * d <= n /\ n < ((n \div d) + 1) * d
      BY <1>0, DivIs
    <3>3. QED
      BY <2>3, <3>1, <3>2
  <2>5. q \in Width(i) /\ q \div 2 \in Width(i + 1)
    <3>1. n \in 0 .. Capacity - 1
      OBVIOUS
    <3>2. \A d \in Depths : n \div shift[d] \in Width(d)
      BY <3>1, PlaceIs
    <3>3. QED
      BY <2>1, <2>3, <2>4, <3>2
  <2>6. node[i + 1][q \div 2] = poseidon(node[i][2 * (q \div 2)], node[i][2 * (q \div 2) + 1])
    BY <2>1, <2>5, TreeUnfolds
  <2>7. path[i] = node[i][q]
    BY <2>3
  <2>8. CASE q % 2 = 0
    <3>1. 2 * (q \div 2) = q /\ q + 1 \in Width(i)
      <4>1. 2 * (q \div 2) = q
        BY <2>8
      <4>2. 2 * (q \div 2) + 1 \in Width(i)
        BY <2>1, <2>5, WidthsAre
      <4>3. QED
        BY <4>1, <4>2
    <3>2. node[i][q + 1] = zeros[i]
      <4>1. (q + 1) * shift[i] \in Nat
        BY <2>2
      <4>2. (q + 1) * shift[i] >= Len(new)
        BY <1>0, <2>4, <4>1
      <4>3. QED
        BY <1>0, <2>1, <3>1, <4>2, TreeBeyond
    <3>3. path[i + 1] = poseidon(path[i], zeros[i])
      <4>1. IsLeft(nextLeafIndex, i)
        BY <2>3, <2>8 DEF IsLeft
      <4>2. QED
        BY <2>1, <4>1, PathUnfolds
    <3> HIDE DEF n, path, node
    <3>4. path[i + 1] = node[i + 1][q \div 2]
      BY <2>6, <2>7, <3>1, <3>2, <3>3
    <3>5. QED
      BY <2>1, <2>4, <3>4
  <2>9. CASE q % 2 = 1
    <3>1. q - 1 \in Nat /\ 2 * (q \div 2) = q - 1 /\ 2 * (q \div 2) + 1 = q /\ q - 1 \in Width(i)
      <4>1. q - 1 \in Nat /\ 2 * (q \div 2) = q - 1 /\ 2 * (q \div 2) + 1 = q
        BY <2>9
      <4>2. 2 * (q \div 2) \in Width(i)
        BY <2>1, <2>5, WidthsAre
      <4>3. QED
        BY <4>1, <4>2
    <3>2. filledSubtrees[i] = MerkleTree(old)[i][q - 1]
      BY <2>1, <2>3, <2>9 DEF FilledFor
    <3>3. node[i][q - 1] = MerkleTree(old)[i][q - 1]
      <4>1. q - 1 + 1 = q
        BY <3>1
      <4>2. (q - 1 + 1) * shift[i] <= Len(old)
        BY <2>4, <4>1
      <4>3. QED
        BY <1>0, <2>1, <3>1, <4>2, TreeStable
    <3>4. path[i + 1] = poseidon(filledSubtrees[i], path[i])
      <4>1. ~ IsLeft(nextLeafIndex, i)
        BY <2>3, <2>9 DEF IsLeft
      <4>2. QED
        BY <2>1, <4>1, PathUnfolds
    <3> HIDE DEF n, path, node
    <3>5. path[i + 1] = node[i + 1][q \div 2]
      BY <2>6, <2>7, <3>1, <3>2, <3>3, <3>4
    <3>6. QED
      BY <2>1, <2>4, <3>5
  <2>10. QED
    BY <2>8, <2>9
<1>3. Depths \subseteq Ok
  <2> HIDE DEF Ok
  <2>1. QED
    BY <1>1, <1>2, DepthsAre, RangeInduction DEF Depths
<1>4. QED
  BY <1>3

-----------------------------------------------------------------------------
(* The inductive invariant.                                                *)

Prefix(k) == [j \in 1 .. k |-> deposits[j].commitment]

\* One leaf per deposit, siblings cached for the next one, and the root of
\* every deposit that of the complete tree by then.
TreeInv ==
  /\ Len(deposits) = nextLeafIndex
  /\ FilledFor(filledSubtrees, Leaves)
  /\ \A k \in 0 .. Len(deposits) : RootAfter(k) = MerkleRoot(Prefix(k))

\* A root is in its slot until ROOT_HISTORY later ones; a slot holds nothing
\* else.
RingInv ==
  /\ currentRootIndex = Len(deposits) % ROOT_HISTORY
  /\ \A k \in 0 .. Len(deposits) : k > Len(deposits) - ROOT_HISTORY =>
       roots[k % ROOT_HISTORY] = RootAfter(k)
  /\ \A s \in Slot : \/ roots[s] = Zero
                     \/ \E k \in 0 .. Len(deposits) :
                          k > Len(deposits) - ROOT_HISTORY /\ k % ROOT_HISTORY = s /\ roots[s] = RootAfter(k)

PoolInv ==
  /\ TypeOK
  /\ TreeInv
  /\ RingInv

-----------------------------------------------------------------------------
(* Types.                                                                  *)

LEMMA SpentAre == \A n \in Note : NullifierOf[n] \in Range(NullifierOf)
BY NoteAssumption DEF Range

LEMMA FeesAre ==
  ASSUME NEW amount \in Nat
  PROVE  FeeOf(amount) \in 0 .. amount
<1>1. WITHDRAW_FEE_BPS \in Nat /\ WITHDRAW_FEE_BPS <= 10000
  BY FeeAssumption DEF BPS_DENOMINATOR
<1>2. amount * WITHDRAW_FEE_BPS \in Nat /\ amount * WITHDRAW_FEE_BPS <= amount * 10000
  BY <1>1
<1>3. \A x \in Nat : x <= amount * 10000 => x \div 10000 \in 0 .. amount
  OBVIOUS
<1>4. QED
  BY <1>2, <1>3 DEF FeeOf, BPS_DENOMINATOR

\* What a depositor pays in.
LEMMA PaidInIs ==
  ASSUME owned \in [Holder -> [Token -> Nat]], NEW from \in Holder, from # Pool,
         NEW t \in Token, NEW amount \in Nat, Transfer(from, Pool, t, amount)
  PROVE  /\ owned' \in [Holder -> [Token -> Nat]]
         /\ owned'[Pool] = [owned[Pool] EXCEPT ![t] = @ + amount]
<1> DEFINE less == [owned EXCEPT ![from][t] = @ - amount]
<1>1. /\ Pool \in Holder /\ owned[from] \in [Token -> Nat] /\ owned[Pool] \in [Token -> Nat]
      /\ owned[from][t] \in Nat
  BY DEF Holder
<1>2. owned[from][t] >= amount /\ owned' = [less EXCEPT ![Pool][t] = @ + amount]
  BY DEF Transfer, Moved
<1>3. less \in [Holder -> [Token -> Nat]] /\ less[Pool] = owned[Pool]
  <2>1. [owned[from] EXCEPT ![t] = @ - amount] \in [Token -> Nat]
    BY <1>1, <1>2
  <2>2. QED
    BY <1>1, <2>1
<1> HIDE DEF less
<1>4. [less[Pool] EXCEPT ![t] = @ + amount] \in [Token -> Nat]
  BY <1>1, <1>3
<1>5. QED
  BY <1>1, <1>2, <1>3, <1>4

\* new are the balances after the pool of old paid a holder, perhaps itself.
PaidTo(old, new, to, t, amount) ==
  /\ new \in [Holder -> [Token -> Nat]]
  /\ to = Pool => new[Pool] = old[Pool]
  /\ to # Pool => new[Pool] = [old[Pool] EXCEPT ![t] = @ - amount]

LEMMA PaidIs ==
  ASSUME NEW old \in [Holder -> [Token -> Nat]], NEW to \in Holder, NEW t \in Token,
         NEW amount \in Nat, old[Pool][t] >= amount
  PROVE  PaidTo(old, Moved(old, Pool, to, t, amount), to, t, amount)
<1> DEFINE paid == Moved(old, Pool, to, t, amount)
           less == [old EXCEPT ![Pool][t] = @ - amount]
<1>1. Pool \in Holder /\ old[Pool] \in [Token -> Nat] /\ old[Pool][t] \in Nat
  BY DEF Holder
<1>2. paid = [less EXCEPT ![to][t] = @ + amount]
  BY DEF Moved
<1>3. /\ less \in [Holder -> [Token -> Nat]]
      /\ less[Pool] = [old[Pool] EXCEPT ![t] = @ - amount]
  <2>1. [old[Pool] EXCEPT ![t] = @ - amount] \in [Token -> Nat]
    BY <1>1
  <2>2. QED
    BY <1>1, <2>1
<1> HIDE DEF less, paid
<1>4. [less[to] EXCEPT ![t] = @ + amount] \in [Token -> Nat]
  BY <1>3
<1>5. paid \in [Holder -> [Token -> Nat]] /\ paid[to] = [less[to] EXCEPT ![t] = @ + amount]
      /\ (to # Pool => paid[Pool] = less[Pool])
  BY <1>1, <1>2, <1>3, <1>4
<1>6. ASSUME to = Pool
      PROVE  paid[Pool] = old[Pool]
  <2>1. paid[Pool] = [[old[Pool] EXCEPT ![t] = @ - amount] EXCEPT ![t] = @ + amount]
    BY <1>3, <1>5, <1>6
  <2>2. \A u \in Token : [[old[Pool] EXCEPT ![t] = @ - amount] EXCEPT ![t] = @ + amount][u] = old[Pool][u]
    BY <1>1
  <2>3. QED
    BY <1>1, <1>5, <2>1, <2>2
<1>7. QED
  BY <1>3, <1>5, <1>6 DEF paid, PaidTo

\* A withdrawal takes at most the amount of the note from the pool.
LEMMA PayOutIs ==
  ASSUME owned \in [Holder -> [Token -> Nat]], feeRecipient \in Holder, NEW to \in Holder,
         NEW t \in Token, NEW amount \in Nat, NEW fee \in 0 .. amount, PayOut(to, t, amount, fee)
  PROVE  /\ owned' \in [Holder -> [Token -> Nat]]
         /\ \E spent \in 0 .. amount : /\ spent <= owned[Pool][t]
                                       /\ owned'[Pool] = [owned[Pool] EXCEPT ![t] = @ - spent]
<1> DEFINE paid == Moved(owned, Pool, to, t, amount - fee)
<1>1. /\ Pool \in Holder /\ feeRecipient \in Holder
      /\ owned[Pool] \in [Token -> Nat] /\ owned[Pool][t] \in Nat
  BY DEF Holder
<1>2. amount - fee \in Nat /\ amount - fee <= amount /\ fee \in Nat
  OBVIOUS
<1>3. /\ owned[Pool][t] >= amount - fee /\ paid[Pool][t] >= fee
      /\ fee > 0 => owned' = Moved(paid, Pool, feeRecipient, t, fee)
      /\ fee = 0 => owned' = paid
  BY <1>2 DEF PayOut
<1>4. /\ paid \in [Holder -> [Token -> Nat]]
      /\ to = Pool => paid[Pool] = owned[Pool]
      /\ to # Pool => paid[Pool] = [owned[Pool] EXCEPT ![t] = @ - (amount - fee)]
  <2>1. PaidTo(owned, paid, to, t, amount - fee)
    BY <1>1, <1>2, <1>3, PaidIs
  <2>2. QED
    BY <2>1 DEF PaidTo
<1> HIDE DEF paid
<1>5. PICK first \in 0 .. amount - fee : /\ first <= owned[Pool][t]
                                         /\ paid[Pool] = [owned[Pool] EXCEPT ![t] = @ - first]
  <2>1. CASE to = Pool
    <3>1. owned[Pool] = [owned[Pool] EXCEPT ![t] = @ - 0]
      BY <1>1
    <3>2. QED
      BY <1>1, <1>2, <1>4, <2>1, <3>1
  <2>2. CASE to # Pool
    <3>1. amount - fee \in 0 .. amount - fee /\ amount - fee <= owned[Pool][t]
      BY <1>1, <1>2, <1>3
    <3>2. paid[Pool] = [owned[Pool] EXCEPT ![t] = @ - (amount - fee)]
      BY <1>4, <2>2
    <3>3. QED
      BY <3>1, <3>2
  <2>3. QED
    BY <2>1, <2>2
<1>6. CASE fee = 0
  <2>1. first \in 0 .. amount /\ owned' = paid
    BY <1>2, <1>3, <1>5, <1>6
  <2>2. owned'[Pool] = [owned[Pool] EXCEPT ![t] = @ - first]
    BY <1>5, <2>1
  <2>3. QED
    BY <1>4, <1>5, <2>1, <2>2
<1>7. CASE fee > 0
  <2>1. paid[Pool] \in [Token -> Nat] /\ paid[Pool][t] \in Nat
    BY <1>1, <1>4
  <2>2. /\ owned' \in [Holder -> [Token -> Nat]]
        /\ feeRecipient = Pool => owned'[Pool] = paid[Pool]
        /\ feeRecipient # Pool => owned'[Pool] = [paid[Pool] EXCEPT ![t] = @ - fee]
    <3>1. owned' = Moved(paid, Pool, feeRecipient, t, fee)
      BY <1>3, <1>7
    <3>2. PaidTo(paid, owned', feeRecipient, t, fee)
      BY <1>1, <1>2, <1>3, <1>4, <3>1, PaidIs
    <3>3. QED
      BY <3>2 DEF PaidTo
  <2>3. CASE feeRecipient = Pool
    <3>1. first \in 0 .. amount /\ first <= owned[Pool][t]
      BY <1>2, <1>5
    <3>2. owned'[Pool] = [owned[Pool] EXCEPT ![t] = @ - first]
      BY <1>5, <2>2, <2>3
    <3>3. QED
      BY <2>2, <3>1, <3>2
  <2>4. CASE feeRecipient # Pool
    <3>1. paid[Pool][t] = owned[Pool][t] - first /\ first + fee \in 0 .. amount
      BY <1>1, <1>5
    <3>2. first + fee <= owned[Pool][t]
      BY <1>1, <1>3, <3>1
    <3>3. owned'[Pool] = [owned[Pool] EXCEPT ![t] = @ - (first + fee)]
      <4> DEFINE new == [owned[Pool] EXCEPT ![t] = @ - (first + fee)]
      <4>1. \A u \in Token : [paid[Pool] EXCEPT ![t] = @ - fee][u] = new[u]
        BY <1>1, <1>5, <3>1
      <4>2. QED
        BY <1>1, <1>5, <2>1, <2>2, <2>4, <4>1
    <3>4. QED
      BY <2>2, <3>1, <3>2, <3>3
  <2>5. QED
    BY <2>3, <2>4
<1>8. fee = 0 \/ fee > 0
  BY <1>2
<1>9. QED
  BY <1>6, <1>7, <1>8, Zenon

-----------------------------------------------------------------------------
(* The slots of the ring.                                                  *)

LEMMA ModIs ==
  ASSUME NEW H \in Nat \ {0}, NEW q \in Nat, NEW r \in 0 .. H - 1
  PROVE  (q * H + r) % H = r
OBVIOUS

LEMMA RemainderIs ==
  ASSUME NEW H \in Nat \ {0}, NEW N \in Nat
  PROVE  \E q \in Nat : N = q * H + (N % H) /\ N % H \in 0 .. H - 1
<1>1. N = (N \div H) * H + (N % H)
  OBVIOUS
<1>2. N \div H \in Nat
  OBVIOUS
<1>3. N % H \in 0 .. H - 1
  OBVIOUS
<1>4. QED
  BY <1>1, <1>2, <1>3

LEMMA NextMod ==
  ASSUME NEW H \in Nat \ {0}, NEW N \in Nat
  PROVE  ((N % H) + 1) % H = (N + 1) % H
<1>1. PICK q \in Nat, r \in 0 .. H - 1 : N = q * H + r /\ N % H = r
  BY RemainderIs
<1>2. CASE r + 1 = H
  <2>1. (q + 1) \in Nat /\ N + 1 = (q + 1) * H + 0 /\ r + 1 = 0 * H + H /\ 0 \in 0 .. H - 1 /\ r + 1 = 1 * H + 0
    BY <1>1, <1>2
  <2>2. (N + 1) % H = 0 /\ (r + 1) % H = 0
    BY <2>1, ModIs
  <2>3. QED
    BY <1>1, <2>2
<1>3. CASE r + 1 # H
  <2>1. r + 1 \in 0 .. H - 1 /\ N + 1 = q * H + (r + 1) /\ r + 1 = 0 * H + (r + 1)
    BY <1>1, <1>3
  <2>2. (N + 1) % H = r + 1 /\ (r + 1) % H = r + 1
    <3>1. \A p \in Nat : (p * H + (r + 1)) % H = r + 1
      BY <2>1, ModIs
    <3>2. QED
      BY <2>1, <3>1
  <2>3. QED
    BY <1>1, <2>2
<1>4. QED
  BY <1>2, <1>3

LEMMA SameSlot ==
  ASSUME NEW H \in Nat \ {0}, NEW a \in Nat, NEW b \in Nat, a % H = b % H, a < b
  PROVE  a <= b - H
<1>1. PICK q \in Nat, r \in 0 .. H - 1 : a = q * H + r /\ a % H = r
  BY RemainderIs
<1>2. PICK p \in Nat, s \in 0 .. H - 1 : b = p * H + s /\ b % H = s
  BY RemainderIs
<1>3. q * H \in Nat /\ p * H \in Nat /\ q * H < p * H
  BY <1>1, <1>2
<1>4. p >= q + 1
  BY <1>3
<1>5. p * H >= (q + 1) * H /\ (q + 1) * H = q * H + H
  BY <1>4
<1>6. QED
  BY <1>1, <1>2, <1>3, <1>5

LEMMA OldSlot ==
  ASSUME NEW H \in Nat \ {0}, NEW b \in Nat, b - H \in Nat
  PROVE  (b - H) % H = b % H
<1>1. PICK q \in Nat, r \in 0 .. H - 1 : b - H = q * H + r /\ (b - H) % H = r
  BY RemainderIs
<1>2. b = (q + 1) * H + r /\ q + 1 \in Nat
  BY <1>1
<1>3. b % H = r
  BY <1>2, ModIs
<1>4. QED
  BY <1>1, <1>3

-----------------------------------------------------------------------------
(* A deposit keeps the tree and the ring.                                  *)

LEMMA FilledKept ==
  ASSUME NEW old, NEW new, NEW leaf, Len(old) = nextLeafIndex, nextLeafIndex \in 0 .. Capacity - 1,
         Len(new) = nextLeafIndex + 1, new[nextLeafIndex + 1] = leaf,
         \A k \in 1 .. Len(old) : new[k] = old[k],
         FilledFor(filledSubtrees, old),
         NEW filled, \A i \in Level : filled[i] = IF IsLeft(nextLeafIndex, i) THEN PathOf(leaf)[i]
                                                  ELSE filledSubtrees[i]
  PROVE  FilledFor(filled, new)
<1>0. nextLeafIndex \in Nat /\ Len(old) \in Nat /\ Len(new) \in Nat /\ Len(old) <= Len(new)
  BY ShiftIs
<1>1. SUFFICES ASSUME NEW i \in Level, (Len(new) \div shift[i]) % 2 = 1
               PROVE  filled[i] = MerkleTree(new)[i][Len(new) \div shift[i] - 1]
  BY DEF FilledFor
<1>2. i \in Depths /\ shift[i] \in Nat \ {0}
  BY DepthsAre, ShiftIs
<1>3. PICK p \in Nat : p = nextLeafIndex \div shift[i]
  BY <1>0, <1>2, DivIs
<1>4. Len(new) \div shift[i] \in {p, p + 1} /\ p * shift[i] <= nextLeafIndex /\ p \in Width(i)
  BY <1>0, <1>2, <1>3, DivIs, PlaceIs
<1>5. CASE p % 2 = 0
  <2>1. Len(new) \div shift[i] - 1 = p
    BY <1>1, <1>4, <1>5
  <2>2. filled[i] = PathOf(leaf)[i]
    BY <1>3, <1>5 DEF IsLeft
  <2>3. PathOf(leaf)[i] = MerkleTree(new)[i][p]
    BY <1>2, <1>3, PathIsTree
  <2>4. QED
    BY <2>1, <2>2, <2>3
<1>6. CASE p % 2 = 1
  <2>1. Len(new) \div shift[i] = p
    BY <1>1, <1>4, <1>6
  <2>2. filled[i] = filledSubtrees[i]
    BY <1>3, <1>6 DEF IsLeft
  <2>3. filledSubtrees[i] = MerkleTree(old)[i][p - 1]
    BY <1>3, <1>6 DEF FilledFor
  <2>4. p - 1 \in Nat /\ p - 1 + 1 = p
    BY <1>6
  <2>5. p - 1 \in Width(i) /\ (p - 1 + 1) * shift[i] <= Len(old)
    <3>1. LEVELS - i \in Depths
      BY DepthsAre DEF Level, Depths
    <3>2. shift[LEVELS - i] \in Nat
      BY <3>1, ShiftIs
    <3>3. p - 1 \in Width(i)
      BY <1>4, <2>4, <3>2 DEF Width
    <3>4. (p - 1 + 1) * shift[i] = p * shift[i]
      BY <2>4
    <3>5. QED
      BY <1>4, <3>3, <3>4
  <2>6. MerkleTree(new)[i][p - 1] = MerkleTree(old)[i][p - 1]
    BY <1>0, <1>2, <2>5, TreeStable
  <2>7. QED
    BY <2>1, <2>2, <2>3, <2>6
<1>7. QED
  BY <1>5, <1>6

LEMMA SeqOf ==
  ASSUME NEW S, NEW s \in Seq(S)
  PROVE  s \in Seq(Range(s))
<1>1. s \in [1 .. Len(s) -> S] /\ Len(s) \in Nat
  OBVIOUS
<1>2. s \in [1 .. Len(s) -> Range(s)]
  BY <1>1 DEF Range
<1>3. QED
  BY <1>1, <1>2

\* The events of a deposit.
LEMMA EventsAre ==
  ASSUME TypeOK, NEW n \in Note, NEW r, NEW N, N = Len(deposits),
         deposits' = Append(deposits, [commitment |-> n, merkleRoot |-> r])
  PROVE  /\ Len(deposits) \in Nat /\ Len(deposits') = N + 1
         /\ \A k \in 1 .. N : deposits'[k] = deposits[k]
         /\ deposits'[N + 1] = [commitment |-> n, merkleRoot |-> r]
         /\ deposits' \in Seq(Range(deposits'))
         /\ \A k \in 0 .. N : RootAfter(k)' = RootAfter(k) /\ Prefix(k)' = Prefix(k)
         /\ RootAfter(N + 1)' = r
         /\ Prefix(N + 1)' = Leaves'
<1> DEFINE event == [commitment |-> n, merkleRoot |-> r]
<1>1. deposits \in Seq(Range(deposits) \cup {event})
  BY DEF TypeOK, Range
<1>2. /\ Len(deposits) \in Nat /\ Len(deposits') = N + 1
      /\ \A k \in 1 .. N : deposits'[k] = deposits[k]
      /\ deposits'[N + 1] = event
      /\ deposits' \in Seq(Range(deposits) \cup {event})
  BY <1>1
<1>3. deposits' \in Seq(Range(deposits'))
  <2>1. PICK d, S : d = deposits' /\ S = Range(deposits) \cup {event} /\ d \in Seq(S)
    BY <1>2
  <2>2. d \in Seq(Range(d))
    BY <2>1, SeqOf
  <2>3. QED
    BY <2>1, <2>2
<1>4. ASSUME NEW k \in 0 .. N
      PROVE  RootAfter(k)' = RootAfter(k) /\ Prefix(k)' = Prefix(k)
  <2>1. \A j \in 1 .. k : deposits'[j] = deposits[j]
    BY <1>2
  <2>2. k # 0 => deposits'[k] = deposits[k]
    BY <1>2
  <2>3. QED
    BY <2>1, <2>2 DEF RootAfter, Prefix
<1>5. RootAfter(N + 1)' = r
  <2>1. N + 1 # 0 /\ deposits'[N + 1].merkleRoot = r
    BY <1>2
  <2>2. QED
    BY <2>1 DEF RootAfter
<1>6. QED
  BY <1>2, <1>3, <1>4, <1>5 DEF Prefix, Leaves

LEMMA TreeKept ==
  ASSUME TypeOK, TreeInv, NEW n \in Note, Insert(n),
         deposits' = Append(deposits, [commitment |-> n, merkleRoot |-> roots'[currentRootIndex']])
  PROVE  TreeInv' /\ Len(deposits') <= Capacity
<1>1. PICK N, r, path : N = Len(deposits) /\ r = roots'[currentRootIndex'] /\ path = PathOf(n)
  OBVIOUS
<1>2. /\ N = nextLeafIndex /\ N \in 0 .. Capacity - 1 /\ nextLeafIndex' = N + 1
      /\ filledSubtrees' = [i \in Level |-> IF IsLeft(nextLeafIndex, i) THEN PathOf(n)[i]
                                            ELSE filledSubtrees[i]]
  <2>1. nextLeafIndex < Capacity /\ nextLeafIndex' = nextLeafIndex + 1
    BY DEF Insert
  <2>2. QED
    BY <1>1, <2>1, ShiftIs DEF Insert, TypeOK, TreeInv
<1>3. /\ Len(deposits) \in Nat /\ Len(deposits') = N + 1
      /\ \A k \in 1 .. N : deposits'[k] = deposits[k]
      /\ deposits'[N + 1] = [commitment |-> n, merkleRoot |-> r]
      /\ \A k \in 0 .. N : RootAfter(k)' = RootAfter(k) /\ Prefix(k)' = Prefix(k)
      /\ RootAfter(N + 1)' = r
      /\ Prefix(N + 1)' = Leaves'
  <2>1. deposits' = Append(deposits, [commitment |-> n, merkleRoot |-> r])
    BY <1>1
  <2>2. QED
    BY <1>1, <2>1, EventsAre
<1>4. PICK old, new : old = Leaves /\ new = Leaves'
  OBVIOUS
<1>5. /\ Len(old) = nextLeafIndex /\ nextLeafIndex \in 0 .. Capacity - 1
      /\ Len(new) = nextLeafIndex + 1 /\ new[nextLeafIndex + 1] = n
      /\ \A k \in 1 .. Len(old) : new[k] = old[k]
      /\ FilledFor(filledSubtrees, old)
  <2>1. old = [k \in 1 .. N |-> deposits[k].commitment] /\ Len(old) = N
    BY <1>1, <1>3, <1>4 DEF Leaves
  <2>2. new = [k \in 1 .. N + 1 |-> deposits'[k].commitment] /\ Len(new) = N + 1
    BY <1>1, <1>3, <1>4 DEF Leaves
  <2>3. N \in Nat /\ new[N + 1] = n
    BY <1>1, <1>3, <2>2
  <2>4. FilledFor(filledSubtrees, old)
    BY <1>4 DEF TreeInv
  <2>5. \A k \in 1 .. N : new[k] = old[k]
    <3>1. SUFFICES ASSUME NEW k \in 1 .. N PROVE new[k] = old[k]
      OBVIOUS
    <3>2. k \in 1 .. N + 1 /\ deposits'[k] = deposits[k]
      BY <1>3, <2>3
    <3>3. QED
      BY <2>1, <2>2, <3>2
  <2>6. QED
    BY <1>2, <2>1, <2>2, <2>3, <2>4, <2>5
<1>6. FilledFor(filledSubtrees', new)
  <2>1. PICK filled : filled = filledSubtrees'
    OBVIOUS
  <2>2. \A i \in Level : filled[i] = IF IsLeft(nextLeafIndex, i) THEN PathOf(n)[i]
                                   ELSE filledSubtrees[i]
    BY <1>2, <2>1
  <2>3. FilledFor(filled, new)
    BY <1>5, <2>2, FilledKept
  <2>4. QED
    BY <2>1, <2>3
<1>7. r = MerkleRoot(new)
  <2>1. path[LEVELS] = MerkleTree(new)[LEVELS][nextLeafIndex \div shift[LEVELS]]
    BY <1>1, <1>5, DepthsAre, PathIsTree
  <2>2. nextLeafIndex \div shift[LEVELS] = 0
    BY <1>5, DepthsAre, PlaceIs, WidthsAre
  <2>3. roots' = [roots EXCEPT ![currentRootIndex'] = path[LEVELS]] /\ currentRootIndex' \in Slot
    BY <1>1, TreeAssumption DEF Insert, TypeOK, Slot
  <2>4. DOMAIN roots = Slot
    BY DEF TypeOK
  <2>5. roots'[currentRootIndex'] = path[LEVELS]
    BY <2>3, <2>4
  <2>6. QED
    BY <1>1, <2>1, <2>2, <2>5 DEF MerkleRoot
<1>8. ASSUME NEW k \in 0 .. N + 1
      PROVE  RootAfter(k)' = MerkleRoot(Prefix(k)')
  <2>1. CASE k = N + 1
    BY <1>3, <1>4, <1>7, <2>1
  <2>2. CASE k # N + 1
    <3>1. k \in 0 .. N
      BY <1>1, <1>3, <2>2
    <3>2. RootAfter(k) = MerkleRoot(Prefix(k))
      BY <1>1, <3>1 DEF TreeInv
    <3>3. QED
      BY <1>3, <3>1, <3>2
  <2>3. QED
    BY <2>1, <2>2
<1>9. TreeInv'
  BY <1>2, <1>3, <1>4, <1>6, <1>8 DEF TreeInv
<1>10. QED
  BY <1>2, <1>3, <1>9, ShiftIs

LEMMA RingKept ==
  ASSUME TypeOK, RingInv, NEW n \in Note, Insert(n),
         deposits' = Append(deposits, [commitment |-> n, merkleRoot |-> roots'[currentRootIndex']])
  PROVE  RingInv'
<1>1. PICK N, M, r, H : /\ N = Len(deposits) /\ M = N + 1
                        /\ r = roots'[currentRootIndex'] /\ H = ROOT_HISTORY
  OBVIOUS
<1>2. /\ Len(deposits) \in Nat /\ N \in Nat /\ M \in Nat /\ M = N + 1
      /\ Len(deposits') = M /\ H \in Nat \ {0}
      /\ \A k \in 0 .. N : RootAfter(k)' = RootAfter(k)
      /\ RootAfter(M)' = r
  <2>1. deposits' = Append(deposits, [commitment |-> n, merkleRoot |-> r])
    BY <1>1
  <2>2. QED
    BY <1>1, <2>1, EventsAre, TreeAssumption
<1>3. PICK c : c = currentRootIndex' /\ c = M % H /\ c \in Slot
  <2>1. currentRootIndex' = ((N % H) + 1) % H
    BY <1>1 DEF Insert, RingInv
  <2>2. ((N % H) + 1) % H = M % H
    BY <1>2, NextMod
  <2>3. M % H \in Slot
    <3>1. M \in Nat
      BY <1>2
    <3>2. M % H \in 0 .. H - 1
      BY <1>2, <3>1, RemainderIs
    <3>3. QED
      BY <1>1, <3>2 DEF Slot
  <2>4. QED
    BY <2>1, <2>2, <2>3
<1>4. DOMAIN roots = Slot /\ roots' = [roots EXCEPT ![c] = r]
  BY <1>1, <1>3 DEF Insert, TypeOK
<1>5. ASSUME NEW k \in 0 .. M, k > M - H
      PROVE  roots'[k % H] = RootAfter(k)'
  <2>1. CASE k = M
    BY <1>2, <1>3, <1>4, <2>1
  <2>2. CASE k # M
    <3>1. k \in 0 .. N /\ k > N - H
      BY <1>2, <1>5, <2>2
    <3>2. k % H # c /\ k % H \in Slot
      <4>1. k \in Nat /\ M \in Nat /\ k < M /\ ~ (k <= M - H)
        BY <1>2, <1>5, <3>1
      <4>2. k % H # M % H
        BY <1>2, <4>1, SameSlot
      <4>3. k % H \in 0 .. H - 1
        BY <1>2, <4>1, RemainderIs
      <4>4. QED
        BY <1>1, <1>3, <4>2, <4>3 DEF Slot
    <3>3. roots[k % H] = RootAfter(k)
      BY <1>1, <3>1 DEF RingInv
    <3>4. QED
      BY <1>2, <1>4, <3>1, <3>2, <3>3
  <2>3. QED
    BY <2>1, <2>2
<1>6. ASSUME NEW s \in Slot, roots'[s] # Zero
      PROVE  \E k \in 0 .. M : k > M - H /\ k % H = s /\ roots'[s] = RootAfter(k)'
  <2>1. CASE s = c
    <3>1. M \in 0 .. M /\ M > M - H
      BY <1>2
    <3>2. QED
      BY <1>2, <1>3, <1>4, <2>1, <3>1
  <2>2. CASE s # c
    <3>1. roots'[s] = roots[s]
      BY <1>4, <2>2
    <3>2. PICK k \in 0 .. N : k > N - H /\ k % H = s /\ roots[s] = RootAfter(k)
      BY <1>1, <1>6, <3>1 DEF RingInv
    <3>3. CASE k > M - H
      <4>1. k \in 0 .. M
        BY <1>2
      <4>2. QED
        BY <1>2, <3>1, <3>2, <3>3, <4>1
    <3>4. CASE ~ (k > M - H)
      <4>1. k = M - H /\ M \in Nat
        BY <1>2, <3>2, <3>4
      <4>2. (M - H) % H = M % H
        <5>1. M - H \in Nat
          BY <3>2, <4>1
        <5>2. QED
          BY <1>2, <4>1, <5>1, OldSlot
      <4>3. QED
        BY <1>3, <2>2, <3>2, <4>1, <4>2
    <3>5. QED
      BY <3>3, <3>4
  <2>3. QED
    BY <2>1, <2>2
<1>7. /\ currentRootIndex' = M % H /\ Len(deposits') = M
      /\ \A k \in 0 .. M : k > M - H => roots'[k % H] = RootAfter(k)'
  BY <1>2, <1>3, <1>5
<1>8. \A s \in Slot : \/ roots'[s] = Zero
                     \/ \E k \in 0 .. M : k > M - H /\ k % H = s /\ roots'[s] = RootAfter(k)'
  BY <1>6
<1>9. QED
  BY <1>1, <1>7, <1>8 DEF RingInv

LEMMA DepositKeeps ==
  ASSUME PoolInv, NEW from \in Account, NEW n \in Note, Deposit(from, n)
  PROVE  PoolInv'
<1>1. PICK N, r : N = Len(deposits) /\ r = roots'[currentRootIndex']
  OBVIOUS
<1>2. /\ TypeOK /\ TreeInv /\ RingInv /\ Insert(n) /\ Transfer(from, Pool, TokenOf[n], AmountOf[n])
      /\ deposits' = Append(deposits, [commitment |-> n, merkleRoot |-> r])
      /\ UNCHANGED <<nullifierSpent, feeRecipient, paused, withdrawals>>
  BY <1>1 DEF Deposit, PoolInv
<1>3. TreeInv' /\ RingInv'
  BY <1>1, <1>2, TreeKept, RingKept
<1>4. /\ from \in Holder /\ Pool \in Holder /\ from # Pool
      /\ TokenOf[n] \in Token /\ AmountOf[n] \in Nat
  BY AccountAssumption, NoteAssumption DEF Holder
<1>5. owned' \in [Holder -> [Token -> Nat]]
  BY <1>2, <1>4, PaidInIs DEF TypeOK
<1>6. /\ DOMAIN filledSubtrees' = Level /\ DOMAIN roots' = Slot /\ currentRootIndex' \in Slot
      /\ nextLeafIndex' \in 0 .. Capacity
  <2>1. currentRootIndex' \in Slot
    <3>1. currentRootIndex \in Nat /\ currentRootIndex + 1 \in Nat
      BY <1>2 DEF TypeOK, Slot
    <3>2. (currentRootIndex + 1) % ROOT_HISTORY \in 0 .. ROOT_HISTORY - 1
      BY <3>1, TreeAssumption, RemainderIs
    <3>3. QED
      BY <1>2, <3>2 DEF Insert, Slot
  <2>2. DOMAIN filledSubtrees' = Level /\ DOMAIN roots' = Slot
    BY <1>2, <2>1 DEF Insert, TypeOK
  <2>3. nextLeafIndex' \in 0 .. Capacity
    BY <1>2, ShiftIs DEF Insert, TypeOK
  <2>4. QED
    BY <2>1, <2>2, <2>3
<1>7. deposits' \in Seq(Range(deposits'))
  BY <1>1, <1>2, EventsAre
<1>8. \A k \in 1 .. Len(deposits') : deposits'[k].commitment \in Note
  <2>1. /\ Len(deposits) \in Nat /\ Len(deposits') = N + 1
        /\ \A k \in 1 .. N : deposits'[k] = deposits[k]
        /\ deposits'[N + 1] = [commitment |-> n, merkleRoot |-> r]
    BY <1>1, <1>2, EventsAre
  <2>2. SUFFICES ASSUME NEW k \in 1 .. N + 1 PROVE deposits'[k].commitment \in Note
    BY <2>1
  <2>3. CASE k = N + 1
    BY <2>1, <2>3
  <2>4. CASE k # N + 1
    BY <1>1, <1>2, <2>1, <2>4 DEF TypeOK
  <2>5. QED
    BY <2>3, <2>4
<1>9. TypeOK'
  BY <1>2, <1>5, <1>6, <1>7, <1>8 DEF TypeOK
<1>10. QED
  BY <1>3, <1>9 DEF PoolInv

\* What a withdrawal leaves of the books.
LEMMA RedeemedIs ==
  ASSUME TypeOK, NEW n \in Note, NEW root, NEW to \in Holder, Withdraw(n, root, to)
  PROVE  /\ TypeOK'
         /\ AmountOf[n] \in Nat /\ TokenOf[n] \in Token
         /\ \E spent \in 0 .. AmountOf[n] :
              /\ spent <= owned[Pool][TokenOf[n]]
              /\ owned'[Pool] = [owned[Pool] EXCEPT ![TokenOf[n]] = @ - spent]
<1>1. TokenOf[n] \in Token /\ AmountOf[n] \in Nat /\ NullifierOf[n] \in Range(NullifierOf)
  BY NoteAssumption, SpentAre
<1>2. PICK fee \in 0 .. AmountOf[n] : fee = FeeOf(AmountOf[n])
  BY <1>1, FeesAre
<1>3. /\ PayOut(to, TokenOf[n], AmountOf[n], fee)
      /\ nullifierSpent' = nullifierSpent \cup {NullifierOf[n]}
      /\ withdrawals' = Append(withdrawals, [nullifierHash |-> NullifierOf[n], note |-> n, fee |-> fee])
      /\ UNCHANGED <<tree, feeRecipient, paused, deposits>>
  BY <1>2 DEF Withdraw
<1>4. /\ owned' \in [Holder -> [Token -> Nat]]
      /\ \E spent \in 0 .. AmountOf[n] :
           /\ spent <= owned[Pool][TokenOf[n]]
           /\ owned'[Pool] = [owned[Pool] EXCEPT ![TokenOf[n]] = @ - spent]
  <2>1. PICK t \in Token, amount \in Nat : t = TokenOf[n] /\ amount = AmountOf[n]
    BY <1>1
  <2>2. PayOut(to, t, amount, fee) /\ fee \in 0 .. amount
    BY <1>3, <2>1
  <2>3. owned \in [Holder -> [Token -> Nat]] /\ feeRecipient \in Holder
    BY DEF TypeOK
  <2>4. owned' \in [Holder -> [Token -> Nat]]
    BY <2>2, <2>3, PayOutIs
  <2>5. PICK spent \in 0 .. amount : /\ spent <= owned[Pool][t]
                                     /\ owned'[Pool] = [owned[Pool] EXCEPT ![t] = @ - spent]
    BY <2>2, <2>3, PayOutIs
  <2>6. QED
    BY <2>1, <2>4, <2>5
<1>5. withdrawals' \in Seq([nullifierHash : Range(NullifierOf), note : Note, fee : Nat])
  <2>1. [nullifierHash |-> NullifierOf[n], note |-> n, fee |-> fee]
          \in [nullifierHash : Range(NullifierOf), note : Note, fee : Nat]
    BY <1>1
  <2>2. QED
    BY <1>3, <2>1 DEF TypeOK
<1>6. TypeOK'
  BY <1>1, <1>3, <1>4, <1>5 DEF TypeOK, tree
<1>7. QED
  BY <1>1, <1>4, <1>6

LEMMA TreeUnchanged ==
  ASSUME TreeInv, RingInv, UNCHANGED <<tree, deposits>>
  PROVE  TreeInv' /\ RingInv'
<1>1. /\ filledSubtrees' = filledSubtrees /\ nextLeafIndex' = nextLeafIndex /\ roots' = roots
      /\ currentRootIndex' = currentRootIndex /\ deposits' = deposits
  BY DEF tree
<1>2. Leaves' = Leaves /\ \A k : RootAfter(k)' = RootAfter(k) /\ Prefix(k)' = Prefix(k)
  BY <1>1 DEF Leaves, RootAfter, Prefix
<1>3. TreeInv'
  BY <1>1, <1>2 DEF TreeInv
<1>4. RingInv'
  BY <1>1, <1>2 DEF RingInv
<1>5. QED
  BY <1>3, <1>4

LEMMA InitPool == Init => PoolInv
<1> SUFFICES ASSUME Init PROVE PoolInv
  OBVIOUS
<1>1. TypeOK
  <2>1. feeRecipient \in Holder /\ owned \in [Holder -> [Token -> Nat]]
    BY AccountAssumption, FeeAssumption DEF Init, Holder
  <2>2. deposits \in Seq(Range(deposits)) /\ \A k \in 1 .. Len(deposits) : deposits[k].commitment \in Note
    BY DEF Init
  <2>3. withdrawals \in Seq([nullifierHash : Range(NullifierOf), note : Note, fee : Nat])
    BY DEF Init
  <2>4. currentRootIndex \in Slot /\ nextLeafIndex \in 0 .. Capacity
    BY ShiftIs, TreeAssumption DEF Init, Slot
  <2>5. QED
    BY <2>1, <2>2, <2>3, <2>4 DEF Init, TypeOK
<1>2. Len(deposits) = 0 /\ Leaves = <<>> /\ RootAfter(0) = zeros[LEVELS] /\ Prefix(0) = <<>>
  BY DEF Init, Leaves, RootAfter, Prefix
<1>3. FilledFor(filledSubtrees, <<>>)
  <2>1. ASSUME NEW i \in Level
        PROVE  0 \div shift[i] = 0
    <3>1. shift[i] \in Nat \ {0}
      BY ShiftIs, DepthsAre
    <3>2. QED
      BY <3>1
  <2>2. QED
    BY <2>1 DEF FilledFor
<1>4. TreeInv
  BY <1>2, <1>3, EmptyRoot DEF Init, TreeInv
<1>5. 0 % ROOT_HISTORY = 0 /\ 0 > 0 - ROOT_HISTORY /\ 0 \in Slot
  BY TreeAssumption DEF Slot
<1>6. RingInv
  BY <1>2, <1>5 DEF Init, RingInv
<1>7. QED
  BY <1>1, <1>4, <1>6 DEF PoolInv

LEMMA NextPool == PoolInv /\ [Next]_vars => PoolInv'
<1> SUFFICES ASSUME PoolInv, [Next]_vars PROVE PoolInv'
  OBVIOUS
<1>1. TypeOK /\ TreeInv /\ RingInv
  BY DEF PoolInv
<1>2. ASSUME NEW a \in Account, NEW n \in Note, Deposit(a, n)
      PROVE  PoolInv'
  BY <1>2, DepositKeeps
<1>3. ASSUME NEW n \in Note, NEW k \in 0 .. Len(deposits), NEW to \in Holder, Withdraw(n, RootAfter(k), to)
      PROVE  PoolInv'
  <2>1. TypeOK'
    BY <1>1, <1>3, RedeemedIs
  <2>2. TreeInv' /\ RingInv'
    <3>1. UNCHANGED <<tree, deposits>>
      BY <1>3 DEF Withdraw
    <3>2. QED
      BY <1>1, <3>1, TreeUnchanged
  <2>3. QED
    BY <2>1, <2>2 DEF PoolInv
<1>4. ASSUME NEW on \in BOOLEAN, SetPaused(on)
      PROVE  PoolInv'
  <2>1. TypeOK' /\ UNCHANGED <<tree, deposits>>
    BY <1>1, <1>4 DEF SetPaused, TypeOK, tree, events
  <2>2. QED
    BY <1>1, <2>1, TreeUnchanged DEF PoolInv
<1>5. ASSUME NEW a \in Holder, UpdateFeeRecipient(a)
      PROVE  PoolInv'
  <2>1. TypeOK' /\ UNCHANGED <<tree, deposits>>
    BY <1>1, <1>5 DEF UpdateFeeRecipient, TypeOK, tree, events
  <2>2. QED
    BY <1>1, <2>1, TreeUnchanged DEF PoolInv
<1>6. CASE UNCHANGED vars
  <2>1. TypeOK' /\ UNCHANGED <<tree, deposits>>
    BY <1>1, <1>6 DEF vars, TypeOK, tree, events
  <2>2. QED
    BY <1>1, <2>1, TreeUnchanged DEF PoolInv
<1>7. QED
  BY <1>2, <1>3, <1>4, <1>5, <1>6 DEF Next

\* The tree, its cached siblings, the ring and the events fit together in every
\* reachable state of the contract.
THEOREM Invariance == Spec => []PoolInv
<1>1. QED
  BY InitPool, NextPool, PTL DEF Spec

\* The ring, the siblings, the balances and the events keep their types.
THEOREM TypeCorrect == Spec => []TypeOK
<1>1. PoolInv => TypeOK
  BY DEF PoolInv
<1>2. QED
  BY <1>1, Invariance, PTL

LEMMA CurrentRoot == PoolInv => RootIsTreeRoot
<1> SUFFICES ASSUME PoolInv PROVE RootIsTreeRoot
  OBVIOUS
<1>1. PICK N \in Nat : N = Len(deposits)
  BY DEF PoolInv, TypeOK
<1>2. N \in 0 .. N /\ N > N - ROOT_HISTORY
  BY TreeAssumption
<1>3. roots[currentRootIndex] = RootAfter(N)
  BY <1>1, <1>2 DEF PoolInv, RingInv
<1>4. RootAfter(N) = MerkleRoot(Prefix(N))
  BY <1>1, <1>2 DEF PoolInv, TreeInv
<1>5. Prefix(N) = Leaves
  BY <1>1 DEF Prefix, Leaves
<1>6. QED
  BY <1>3, <1>4, <1>5 DEF RootIsTreeRoot

\* insert() and the off-chain trees agree: the root kept from one cached
\* sibling a level is the root of the complete tree over all commitments, for
\* every depth and every number of deposits.
THEOREM RootAgrees == Spec => []RootIsTreeRoot
<1>1. QED
  BY CurrentRoot, Invariance, PTL

LEMMA KnownRoots ==
  ASSUME \A l, r : poseidon(l, r) # Zero, PoolInv
  PROVE  RecentRootsKnown
<1>1. PICK N, H : N = Len(deposits) /\ H = ROOT_HISTORY
  OBVIOUS
<1>2. N \in Nat /\ H \in Nat \ {0} /\ N <= Capacity /\ Capacity \in Nat
  BY <1>1, ShiftIs, TreeAssumption DEF PoolInv, TypeOK, TreeInv
<1>3. ASSUME NEW k \in 0 .. N
      PROVE  /\ RootAfter(k) = MerkleRoot(Prefix(k)) /\ RootAfter(k) # Zero
             /\ Len(Prefix(k)) = k /\ \A j \in 1 .. k : Prefix(k)[j] \in Note
  <2>1. RootAfter(k) = MerkleRoot(Prefix(k))
    BY <1>1 DEF PoolInv, TreeInv
  <2>2. PICK i \in Level : i + 1 = LEVELS /\ 0 \in Width(i + 1)
    BY DepthsAre, WidthsAre, TreeAssumption DEF Level
  <2>3. PICK l, r : MerkleTree(Prefix(k))[i + 1][0] = poseidon(l, r)
    BY <2>2, TreeUnfolds
  <2>4. MerkleRoot(Prefix(k)) # Zero
    BY <2>2, <2>3 DEF MerkleRoot
  <2>5. Len(Prefix(k)) = k /\ \A j \in 1 .. k : Prefix(k)[j] \in Note
    BY <1>1, <1>2 DEF PoolInv, TypeOK, Prefix
  <2>6. QED
    BY <2>1, <2>4, <2>5
<1>4. ASSUME NEW j \in 0 .. N, NEW k \in 0 .. N, j < k
      PROVE  RootAfter(j) # RootAfter(k)
  <2>1. PICK a, b : a = Prefix(j) /\ b = Prefix(k)
    OBVIOUS
  <2>2. /\ Len(a) \in Nat /\ Len(b) \in Nat /\ Len(a) < Len(b) /\ Len(b) <= Capacity
        /\ \A i \in 1 .. Len(b) : b[i] \in Note
    BY <1>2, <1>3, <1>4, <2>1
  <2>3. MerkleRoot(a) # MerkleRoot(b)
    BY <2>2, RootsDiffer
  <2>4. QED
    BY <1>3, <2>1, <2>3
<1>5. ASSUME NEW k \in 0 .. N, k > N - H
      PROVE  IsKnownRoot(RootAfter(k))
  <2>1. k \in Nat /\ roots[k % H] = RootAfter(k)
    BY <1>1, <1>5 DEF PoolInv, RingInv
  <2>2. k % H \in 0 .. H - 1
    BY <1>2, <2>1, RemainderIs
  <2>3. QED
    BY <1>1, <1>3, <2>1, <2>2 DEF IsKnownRoot, Slot
<1>6. ASSUME NEW k \in 0 .. N, IsKnownRoot(RootAfter(k))
      PROVE  k > N - H
  <2>1. PICK s \in Slot : roots[s] = RootAfter(k) /\ RootAfter(k) # Zero
    BY <1>6 DEF IsKnownRoot
  <2>2. PICK j \in 0 .. N : j > N - H /\ roots[s] = RootAfter(j)
    BY <1>1, <2>1 DEF PoolInv, RingInv
  <2>3. ~ (j < k) /\ ~ (k < j)
    BY <1>4, <2>1, <2>2
  <2>4. QED
    BY <2>2, <2>3
<1>7. QED
  BY <1>1, <1>5, <1>6 DEF RecentRootsKnown

\* isKnownRoot() holds of the last ROOT_HISTORY roots and of no older one, if
\* no hash is zero: two numbers of deposits never have the same root.
THEOREM RootsExpire ==
  ASSUME \A l, r : poseidon(l, r) # Zero
  PROVE  Spec => []RecentRootsKnown
<1>1. PoolInv => RecentRootsKnown
  BY KnownRoots
<1>2. QED
  BY <1>1, Invariance, PTL

-----------------------------------------------------------------------------
(* The refinement of ShieldedPool.                                         *)

LEMMA CommittedIs ==
  ASSUME TypeOK, NEW n \in Note, NEW r,
         deposits' = Append(deposits, [commitment |-> n, merkleRoot |-> r])
  PROVE  Committed' = Committed \cup {n}
<1>1. PICK N : N = Len(deposits)
  OBVIOUS
<1>2. /\ Len(deposits) \in Nat /\ Len(deposits') = N + 1
      /\ \A k \in 1 .. N : deposits'[k] = deposits[k]
      /\ deposits'[N + 1] = [commitment |-> n, merkleRoot |-> r]
  BY <1>1, EventsAre
<1>3. Committed' = {deposits'[k].commitment : k \in 1 .. N + 1}
  BY <1>2 DEF Committed
<1>4. Committed = {deposits[k].commitment : k \in 1 .. N}
  BY <1>1 DEF Committed
<1>5. 1 .. N + 1 = (1 .. N) \cup {N + 1}
  BY <1>1, <1>2
<1>6. QED
  BY <1>2, <1>3, <1>4, <1>5

LEMMA CommittedAre == TypeOK => Committed \subseteq Note
BY DEF TypeOK, Committed

LEMMA OpensIs ==
  ASSUME TypeOK, NEW root, NEW n, Opens(root, n)
  PROVE  n \in Committed
<1>1. PICK k \in 1 .. Len(deposits) : \E j \in 1 .. k : Leaves[j] = n
  BY DEF Opens
<1>2. PICK j \in 1 .. k : Leaves[j] = n
  BY <1>1
<1>3. j \in 1 .. Len(deposits)
  BY <1>1, <1>2 DEF TypeOK
<1>4. QED
  BY <1>2, <1>3 DEF Committed, Leaves

LEMMA DepositPaysIn ==
  ASSUME TypeOK, NEW from \in Account, NEW n \in Note, Deposit(from, n)
  PROVE  owned'[Pool] = [owned[Pool] EXCEPT ![TokenOf[n]] = @ + AmountOf[n]]
<1>1. PICK t \in Token, amount \in Nat : t = TokenOf[n] /\ amount = AmountOf[n]
  BY NoteAssumption
<1>2. /\ owned \in [Holder -> [Token -> Nat]] /\ from \in Holder /\ from # Pool
      /\ Transfer(from, Pool, t, amount)
  BY <1>1, AccountAssumption DEF TypeOK, Holder, Deposit
<1>3. owned'[Pool] = [owned[Pool] EXCEPT ![t] = @ + amount]
  BY <1>2, PaidInIs
<1>4. QED
  BY <1>1, <1>3

LEMMA InitRefines == Init => Abstract!Init
<1> SUFFICES ASSUME Init PROVE Abstract!Init
  OBVIOUS
<1>1. Committed = {}
  BY DEF Init, Committed
<1>2. owned[Pool] = [t \in Token |-> 0]
  BY DEF Init, Holder
<1>3. QED
  BY <1>1, <1>2 DEF Init, Abstract!Init

LEMMA NextRefines == PoolInv /\ [Next]_vars => [Abstract!Next]_(Abstract!vars)
<1> SUFFICES ASSUME PoolInv, [Next]_vars PROVE [Abstract!Next]_(Abstract!vars)
  OBVIOUS
<1>1. TypeOK
  BY DEF PoolInv
<1>2. ASSUME NEW a \in Account, NEW n \in Note, Deposit(a, n)
      PROVE  Abstract!Deposit(n)
  <2>1. Committed' = Committed \cup {n}
    <3>1. PICK r : r = roots'[currentRootIndex']
      OBVIOUS
    <3>2. deposits' = Append(deposits, [commitment |-> n, merkleRoot |-> r])
      BY <1>2, <3>1 DEF Deposit
    <3>3. QED
      BY <1>1, <3>2, CommittedIs
  <2>2. owned'[Pool] = [owned[Pool] EXCEPT ![TokenOf[n]] = @ + AmountOf[n]]
    BY <1>1, <1>2, DepositPaysIn
  <2>3. QED
    BY <1>2, <2>1, <2>2 DEF Deposit, Abstract!Deposit
<1>3. ASSUME NEW n \in Note, NEW root, NEW to \in Holder, Withdraw(n, root, to)
      PROVE  Abstract!Redeem(n)
  <2>1. n \in Committed
    BY <1>1, <1>3, OpensIs DEF Withdraw, Withdrawable
  <2>2. /\ NullifierOf[n] \notin nullifierSpent
        /\ nullifierSpent' = nullifierSpent \cup {NullifierOf[n]}
        /\ Committed' = Committed
    BY <1>3 DEF Withdraw, Withdrawable, Committed
  <2>3. \E spent \in 0 .. AmountOf[n] : /\ spent <= owned[Pool][TokenOf[n]]
                                        /\ owned'[Pool] = [owned[Pool] EXCEPT ![TokenOf[n]] = @ - spent]
    BY <1>1, <1>3, RedeemedIs
  <2>4. QED
    BY <2>1, <2>2, <2>3 DEF Abstract!Redeem
<1>4. ASSUME NEW on \in BOOLEAN, SetPaused(on)
      PROVE  UNCHANGED Abstract!vars
  BY <1>4 DEF SetPaused, events, Committed, Abstract!vars
<1>5. ASSUME NEW a \in Holder, UpdateFeeRecipient(a)
      PROVE  UNCHANGED Abstract!vars
  BY <1>5 DEF UpdateFeeRecipient, events, Committed, Abstract!vars
<1>6. CASE UNCHANGED vars
  BY <1>6 DEF vars, events, Committed, Abstract!vars
<1>7. QED
  BY <1>2, <1>3, <1>4, <1>5, <1>6 DEF Next, Abstract!Next

\* deposit() and withdraw() implement the abstract pool: a nullifier is
\* published once, for a commitment that was paid for, and at most what the
\* note is worth leaves the pool; nothing else moves its money.
THEOREM PoolRefines == Spec => ImplementsShieldedPool
<1>1. QED
  BY InitRefines, NextRefines, Invariance, PTL DEF Spec, ImplementsShieldedPool, Abstract!Spec

-----------------------------------------------------------------------------
(* Solvency.                                                               *)

\* The commitments are finitely many and range-checked.
AmountsInv == IsFiniteSet(Committed) /\ \A n \in Committed : AmountOf[n] < AmountBound

LEMMA MaxIs ==
  ASSUME NEW S, S \subseteq Nat, S # {}, NEW b \in Nat, \A y \in S : y < b
  PROVE  Max(S) \in S /\ \A y \in S : y <= Max(S)
<1> DEFINE T == {b - y : y \in S}
<1>1. T \subseteq Nat /\ T # {}
  <2>1. \A y \in S : b - y \in Nat
    OBVIOUS
  <2>2. T # {}
    OBVIOUS
  <2>3. QED
    BY <2>1, <2>2
<1>2. PICK d \in T : \A z \in T : d <= z
  BY <1>1, LeastNumber
<1>3. PICK x \in S : d = b - x
  OBVIOUS
<1>4. \A y \in S : x >= y
  <2>1. \A y \in S : d <= b - y
    BY <1>2
  <2>2. QED
    BY <1>3, <2>1
<1>5. Max(S) \in S /\ \A y \in S : Max(S) >= y
  BY <1>4 DEF Max
<1>6. QED
  BY <1>5

\* A nullifier can take what the dearest of its notes is worth.
LEMMA WorthIs ==
  ASSUME NEW U, U \subseteq Note, IsFiniteSet(U), \A n \in U : AmountOf[n] < AmountBound
  PROVE  /\ IsFiniteSet(DOMAIN Worth(U))
         /\ \A x \in DOMAIN Worth(U) :
              Worth(U)[x] \in Nat /\ \E n \in U : NullifierOf[n] = x /\ Worth(U)[x] = AmountOf[n]
         /\ \A n \in U : NullifierOf[n] \in DOMAIN Worth(U) /\ AmountOf[n] <= Worth(U)[NullifierOf[n]]
<1> DEFINE D == {NullifierOf[n] : n \in U}
           Of(x) == {m \in U : NullifierOf[m] = x}
           Amounts(x) == {AmountOf[n] : n \in Of(x)}
<1>1. Worth(U) = [x \in D |-> Max(Amounts(x))]
  BY DEF Worth
<1>2. IsFiniteSet(D)
  <2> DEFINE f == [n \in U |-> NullifierOf[n]]
  <2>1. f \in Surjection(U, D)
    BY DEF Surjection
  <2>2. QED
    BY <2>1, FS_Surjection
<1>3. ASSUME NEW x \in D
      PROVE  Max(Amounts(x)) \in Amounts(x) /\ \A y \in Amounts(x) : y <= Max(Amounts(x))
  <2>1. Amounts(x) \subseteq Nat /\ Amounts(x) # {} /\ \A y \in Amounts(x) : y < AmountBound
    BY NoteAssumption
  <2>2. AmountBound \in Nat
    BY NoteAssumption
  <2> HIDE DEF Amounts
  <2>3. QED
    BY <2>1, <2>2, MaxIs
<1>4. ASSUME NEW x \in D
      PROVE  Worth(U)[x] \in Nat /\ \E n \in U : NullifierOf[n] = x /\ Worth(U)[x] = AmountOf[n]
  <2>1. Worth(U)[x] \in Amounts(x)
    BY <1>1, <1>3
  <2>2. QED
    BY <2>1, NoteAssumption
<1>5. ASSUME NEW n \in U
      PROVE  NullifierOf[n] \in D /\ AmountOf[n] <= Worth(U)[NullifierOf[n]]
  <2>1. PICK x \in D : x = NullifierOf[n]
    OBVIOUS
  <2>2. AmountOf[n] \in Amounts(x)
    BY <2>1
  <2>3. Worth(U)[x] = Max(Amounts(x))
    BY <1>1
  <2>4. QED
    BY <1>3, <2>1, <2>2, <2>3
<1>6. DOMAIN Worth(U) = D
  BY <1>1
<1> HIDE DEF D
<1>7. QED
  BY <1>2, <1>4, <1>5, <1>6

LEMMA WorthGrows ==
  ASSUME NEW U, U \subseteq Note, IsFiniteSet(U), \A m \in U : AmountOf[m] < AmountBound,
         NEW n \in Note, AmountOf[n] < AmountBound, NEW V, V \subseteq U \cup {n}
  PROVE  SumFunction(Worth(V)) <= SumFunction(Worth(U)) + AmountOf[n]
<1>1. PICK f, S, e, R, x, a :
        /\ f = Worth(U) /\ S = DOMAIN Worth(U) /\ e = Worth(V) /\ R = DOMAIN Worth(V)
        /\ x = NullifierOf[n] /\ a = AmountOf[n] /\ a \in Nat
  BY NoteAssumption
<1>2. /\ IsFiniteSet(S)
      /\ \A y \in S : f[y] \in Nat /\ \E m \in U : NullifierOf[m] = y /\ f[y] = AmountOf[m]
      /\ \A m \in U : NullifierOf[m] \in S /\ AmountOf[m] <= f[NullifierOf[m]]
  BY <1>1, WorthIs
<1>3. V \subseteq Note /\ IsFiniteSet(V) /\ \A m \in V : AmountOf[m] < AmountBound
  <2>1. IsFiniteSet(U \cup {n})
    BY FS_AddElement
  <2>2. IsFiniteSet(V)
    BY <2>1, FS_Subset
  <2>3. QED
    BY <2>2
<1>4. \A y \in R : e[y] \in Nat /\ \E m \in V : NullifierOf[m] = y /\ e[y] = AmountOf[m]
  BY <1>1, <1>3, WorthIs
<1>5. R \subseteq S \cup {x}
  BY <1>1, <1>2, <1>4
<1>6. ASSUME NEW y \in R \ {x}
      PROVE  e[y] \in Nat /\ e[y] <= f[y]
  <2>1. PICK m \in V : NullifierOf[m] = y /\ e[y] = AmountOf[m]
    BY <1>4
  <2>2. m \in U
    BY <1>1, <2>1
  <2>3. QED
    BY <1>2, <1>4, <2>1, <2>2
<1>7. ASSUME x \in R
      PROVE  e[x] \in Nat /\ e[x] <= (IF x \in S THEN f[x] + a ELSE a)
  <2>1. PICK m \in V : NullifierOf[m] = x /\ e[x] = AmountOf[m] /\ e[x] \in Nat
    BY <1>4, <1>7
  <2>2. CASE m \in U
    <3>1. x \in S /\ e[x] <= f[x] /\ f[x] \in Nat
      BY <1>2, <2>1, <2>2
    <3>2. QED
      BY <1>1, <2>1, <3>1
  <2>3. CASE m = n
    <3>1. e[x] = a /\ a \in Nat
      BY <1>1, <2>1, <2>3
    <3>2. x \in S => f[x] \in Nat
      BY <1>2
    <3>3. QED
      BY <3>1, <3>2
  <2>4. QED
    BY <2>2, <2>3
<1>8. SumFunctionOnSet(e, R) <= SumFunctionOnSet(f, S) + a
  <2>1. a \in Nat /\ \A y \in S : f[y] \in Nat
    BY <1>1, <1>2
  <2>2. QED
    BY <1>2, <1>5, <1>6, <1>7, <2>1, SumGrows
<1>9. QED
  BY <1>1, <1>8 DEF SumFunction

LEMMA WorthShrinks ==
  ASSUME NEW U, U \subseteq Note, IsFiniteSet(U), \A m \in U : AmountOf[m] < AmountBound,
         NEW V, V \subseteq U
  PROVE  /\ SumFunction(Worth(U)) \in Nat /\ SumFunction(Worth(V)) \in Nat
         /\ SumFunction(Worth(V)) <= SumFunction(Worth(U))
         /\ \A n \in U : (\A m \in V : NullifierOf[m] # NullifierOf[n]) =>
              SumFunction(Worth(V)) + AmountOf[n] <= SumFunction(Worth(U))
<1>1. PICK f, S, e, R :
        f = Worth(U) /\ S = DOMAIN Worth(U) /\ e = Worth(V) /\ R = DOMAIN Worth(V)
  OBVIOUS
<1>2. /\ IsFiniteSet(S)
      /\ \A y \in S : f[y] \in Nat /\ \E m \in U : NullifierOf[m] = y /\ f[y] = AmountOf[m]
      /\ \A m \in U : NullifierOf[m] \in S /\ AmountOf[m] <= f[NullifierOf[m]]
  BY <1>1, WorthIs
<1>3. V \subseteq Note /\ IsFiniteSet(V) /\ \A m \in V : AmountOf[m] < AmountBound
  BY FS_Subset
<1>4. /\ IsFiniteSet(R)
      /\ \A y \in R : e[y] \in Nat /\ \E m \in V : NullifierOf[m] = y /\ e[y] = AmountOf[m]
  BY <1>1, <1>3, WorthIs
<1>5. R \subseteq S /\ \A y \in R : e[y] \in Nat /\ e[y] <= f[y]
  BY <1>2, <1>4
<1>6. SumFunctionOnSet(f, S) \in Nat /\ SumFunctionOnSet(e, R) \in Nat
  <2>1. SumFunctionOnSet(f, S) \in Nat
    BY <1>2, SumIs
  <2>2. SumFunctionOnSet(e, R) \in Nat
    BY <1>4, SumIs
  <2>3. QED
    BY <2>1, <2>2
<1>7. SumFunctionOnSet(e, R) <= SumFunctionOnSet(f, S)
  BY <1>2, <1>5, SumBelow
<1>8. ASSUME NEW n \in U, \A m \in V : NullifierOf[m] # NullifierOf[n]
      PROVE  SumFunctionOnSet(e, R) + AmountOf[n] <= SumFunctionOnSet(f, S)
  <2>1. PICK x \in S : x = NullifierOf[n] /\ AmountOf[n] <= f[x] /\ f[x] \in Nat /\ AmountOf[n] \in Nat
    BY <1>2, NoteAssumption
  <2>2. R \subseteq S \ {x}
    BY <1>4, <1>5, <1>8, <2>1
  <2>3. SumFunctionOnSet(e, R) + f[x] <= SumFunctionOnSet(f, S)
    BY <1>2, <1>5, <2>2, SumShrinks
  <2>4. QED
    BY <1>6, <2>1, <2>3
<1>9. QED
  BY <1>1, <1>6, <1>7, <1>8 DEF SumFunction

SolventInv == PoolInv /\ AmountsInv /\ Solvent

LEMMA UnspentIs ==
  ASSUME PoolInv, AmountsInv, NEW t
  PROVE  /\ Unspent(t) \subseteq Note /\ IsFiniteSet(Unspent(t))
         /\ \A n \in Unspent(t) : AmountOf[n] < AmountBound
<1>1. Unspent(t) \subseteq Committed
  BY DEF Unspent
<1>2. Committed \subseteq Note
  BY CommittedAre DEF PoolInv
<1>3. IsFiniteSet(Unspent(t))
  BY <1>1, FS_Subset DEF AmountsInv
<1>4. QED
  BY <1>1, <1>2, <1>3 DEF AmountsInv

LEMMA DepositSolvent ==
  ASSUME SolventInv, NEW from \in Account, NEW n \in Note, Deposit(from, n)
  PROVE  AmountsInv' /\ Solvent'
<1>1. /\ TypeOK /\ Pool \in Holder /\ owned[Pool] \in [Token -> Nat]
      /\ AmountOf[n] \in Nat /\ TokenOf[n] \in Token /\ AmountOf[n] < AmountBound
  BY NoteAssumption DEF SolventInv, PoolInv, TypeOK, Holder, Deposit, IsAmount
<1>2. Committed' = Committed \cup {n} /\ nullifierSpent' = nullifierSpent
  <2>1. PICK r : r = roots'[currentRootIndex']
    OBVIOUS
  <2>2. deposits' = Append(deposits, [commitment |-> n, merkleRoot |-> r])
    BY <2>1 DEF Deposit
  <2>3. QED
    BY <1>1, <2>2, CommittedIs DEF Deposit
<1>3. AmountsInv'
  <2>1. IsFiniteSet(Committed \cup {n})
    BY FS_AddElement DEF SolventInv, AmountsInv
  <2>2. QED
    BY <1>1, <1>2, <2>1 DEF SolventInv, AmountsInv
<1>4. owned'[Pool] = [owned[Pool] EXCEPT ![TokenOf[n]] = @ + AmountOf[n]]
  BY DepositPaysIn DEF SolventInv, PoolInv
<1>5. ASSUME NEW t \in Token
      PROVE  owned'[Pool][t] >= SumFunction(Worth(Unspent(t)'))
  <2>1. PICK U, V : U = Unspent(t) /\ V = Unspent(t)'
    OBVIOUS
  <2>2. U \subseteq Note /\ IsFiniteSet(U) /\ \A m \in U : AmountOf[m] < AmountBound
    BY <2>1, UnspentIs DEF SolventInv
  <2>3. owned[Pool][t] \in Nat /\ owned[Pool][t] >= SumFunction(Worth(U))
    BY <1>1, <2>1 DEF SolventInv, Solvent
  <2>4. CASE t = TokenOf[n]
    <3>1. V \subseteq U \cup {n}
      BY <1>2, <2>1 DEF Unspent
    <3>2. SumFunction(Worth(V)) <= SumFunction(Worth(U)) + AmountOf[n]
      BY <1>1, <2>2, <3>1, WorthGrows
    <3>3. SumFunction(Worth(U)) \in Nat /\ SumFunction(Worth(V)) \in Nat
      <4>1. U \subseteq U /\ V \subseteq V
        OBVIOUS
      <4>2. IsFiniteSet(U \cup {n}) /\ U \cup {n} \subseteq Note
        BY <2>2, FS_AddElement
      <4>3. \A m \in U \cup {n} : AmountOf[m] < AmountBound
        BY <1>1, <2>2
      <4>4. SumFunction(Worth(V)) \in Nat
        BY <3>1, <4>2, <4>3, WorthShrinks
      <4>5. SumFunction(Worth(U)) \in Nat
        BY <2>2, <4>1, WorthShrinks
      <4>6. QED
        BY <4>4, <4>5
    <3>4. owned'[Pool][t] = owned[Pool][t] + AmountOf[n]
      BY <1>1, <1>4, <2>4
    <3>5. owned'[Pool][t] >= SumFunction(Worth(V))
      BY <1>1, <2>3, <3>2, <3>3, <3>4
    <3>6. QED
      BY <2>1, <3>5
  <2>5. CASE t # TokenOf[n]
    <3>1. V = U
      BY <1>2, <2>1, <2>5 DEF Unspent
    <3>2. owned'[Pool][t] = owned[Pool][t]
      BY <1>1, <1>4, <2>5
    <3>3. QED
      BY <2>1, <2>3, <3>1, <3>2
  <2>6. QED
    BY <2>4, <2>5
<1>6. Solvent'
  BY <1>5 DEF Solvent
<1>7. QED
  BY <1>3, <1>6

LEMMA WithdrawSolvent ==
  ASSUME SolventInv, NEW n \in Note, NEW root, NEW to \in Holder, Withdraw(n, root, to)
  PROVE  AmountsInv' /\ Solvent'
<1>1. TypeOK /\ Pool \in Holder /\ owned[Pool] \in [Token -> Nat]
  BY DEF SolventInv, PoolInv, TypeOK, Holder
<1>2. PICK t0 \in Token, a \in Nat : t0 = TokenOf[n] /\ a = AmountOf[n]
  BY NoteAssumption
<1>3. PICK spent \in 0 .. a : /\ spent <= owned[Pool][t0]
                              /\ owned'[Pool] = [owned[Pool] EXCEPT ![t0] = @ - spent]
  BY <1>1, <1>2, RedeemedIs
<1>4. /\ Committed' = Committed /\ n \in Committed
      /\ NullifierOf[n] \notin nullifierSpent
      /\ nullifierSpent' = nullifierSpent \cup {NullifierOf[n]}
  <2>1. n \in Committed
    BY <1>1, OpensIs DEF Withdraw, Withdrawable
  <2>2. QED
    BY <2>1 DEF Withdraw, Withdrawable, Committed
<1>5. AmountsInv'
  BY <1>4 DEF SolventInv, AmountsInv
<1>6. ASSUME NEW t \in Token
      PROVE  owned'[Pool][t] >= SumFunction(Worth(Unspent(t)'))
  <2>1. PICK U, V : U = Unspent(t) /\ V = Unspent(t)'
    OBVIOUS
  <2>2. U \subseteq Note /\ IsFiniteSet(U) /\ \A m \in U : AmountOf[m] < AmountBound
    BY <2>1, UnspentIs DEF SolventInv
  <2>3. owned[Pool][t] \in Nat /\ owned[Pool][t] >= SumFunction(Worth(U))
    BY <1>1, <2>1 DEF SolventInv, Solvent
  <2>4. V \subseteq U /\ \A m \in V : NullifierOf[m] # NullifierOf[n]
    BY <1>4, <2>1 DEF Unspent
  <2>5. /\ SumFunction(Worth(U)) \in Nat /\ SumFunction(Worth(V)) \in Nat
        /\ SumFunction(Worth(V)) <= SumFunction(Worth(U))
        /\ n \in U => SumFunction(Worth(V)) + AmountOf[n] <= SumFunction(Worth(U))
    BY <2>2, <2>4, WorthShrinks
  <2>6. CASE t = t0
    <3>1. n \in U
      BY <1>2, <1>4, <2>1, <2>6 DEF Unspent
    <3>2. SumFunction(Worth(V)) + a <= SumFunction(Worth(U))
      BY <1>2, <2>5, <3>1
    <3>3. owned'[Pool][t] = owned[Pool][t] - spent
      BY <1>1, <1>3, <2>6
    <3>4. owned'[Pool][t] >= SumFunction(Worth(V))
      BY <2>3, <2>5, <3>2, <3>3
    <3>5. QED
      BY <2>1, <3>4
  <2>7. CASE t # t0
    <3>1. owned'[Pool][t] = owned[Pool][t]
      BY <1>1, <1>3, <2>7
    <3>2. owned'[Pool][t] >= SumFunction(Worth(V))
      BY <2>3, <2>5, <3>1
    <3>3. QED
      BY <2>1, <3>2
  <2>8. QED
    BY <2>6, <2>7
<1>7. Solvent'
  BY <1>6 DEF Solvent
<1>8. QED
  BY <1>5, <1>7

LEMMA BooksUnchanged ==
  ASSUME AmountsInv, Solvent, UNCHANGED <<owned, deposits, nullifierSpent>>
  PROVE  AmountsInv' /\ Solvent'
<1>1. Committed' = Committed
  BY DEF Committed
<1>2. \A t : Unspent(t)' = Unspent(t)
  BY <1>1 DEF Unspent
<1>3. QED
  BY <1>1, <1>2 DEF AmountsInv, Solvent

LEMMA InitSolvent == Init => SolventInv
<1> SUFFICES ASSUME Init PROVE AmountsInv /\ Solvent
  BY InitPool DEF SolventInv
<1>1. Committed = {}
  BY DEF Init, Committed
<1>2. AmountsInv
  BY <1>1, FS_EmptySet DEF AmountsInv
<1>3. ASSUME NEW t \in Token
      PROVE  owned[Pool][t] >= SumFunction(Worth(Unspent(t)))
  <2>1. Unspent(t) = {} /\ owned[Pool][t] = 0
    BY <1>1 DEF Init, Holder, Unspent
  <2>2. DOMAIN Worth({}) = {}
    BY DEF Worth
  <2>3. PICK f : f = Worth({})
    OBVIOUS
  <2>4. PICK g : AddsUp(g, f, {}) /\ SumFunctionOnSet(f, {}) = g[{}]
    BY FS_EmptySet, SumAddsUp
  <2>5. SumFunctionOnSet(f, {}) = 0
    BY <2>4 DEF AddsUp
  <2>6. QED
    BY <2>1, <2>2, <2>3, <2>5 DEF SumFunction
<1>4. QED
  BY <1>2, <1>3 DEF Solvent

LEMMA NextSolvent == SolventInv /\ [Next]_vars => SolventInv'
<1> SUFFICES ASSUME SolventInv, [Next]_vars PROVE AmountsInv' /\ Solvent'
  BY NextPool DEF SolventInv
<1>1. AmountsInv /\ Solvent
  BY DEF SolventInv
<1>2. ASSUME NEW a \in Account, NEW n \in Note, Deposit(a, n)
      PROVE  AmountsInv' /\ Solvent'
  BY <1>2, DepositSolvent
<1>3. ASSUME NEW n \in Note, NEW k \in 0 .. Len(deposits), NEW to \in Holder, Withdraw(n, RootAfter(k), to)
      PROVE  AmountsInv' /\ Solvent'
  BY <1>3, WithdrawSolvent
<1>4. ASSUME NEW on \in BOOLEAN, SetPaused(on)
      PROVE  AmountsInv' /\ Solvent'
  <2>1. UNCHANGED <<owned, deposits, nullifierSpent>>
    BY <1>4 DEF SetPaused, events
  <2>2. QED
    BY <1>1, <2>1, BooksUnchanged
<1>5. ASSUME NEW a \in Holder, UpdateFeeRecipient(a)
      PROVE  AmountsInv' /\ Solvent'
  <2>1. UNCHANGED <<owned, deposits, nullifierSpent>>
    BY <1>5 DEF UpdateFeeRecipient, events
  <2>2. QED
    BY <1>1, <2>1, BooksUnchanged
<1>6. CASE UNCHANGED vars
  <2>1. UNCHANGED <<owned, deposits, nullifierSpent>>
    BY <1>6 DEF vars, events
  <2>2. QED
    BY <1>1, <2>1, BooksUnchanged
<1>7. QED
  BY <1>2, <1>3, <1>4, <1>5, <1>6 DEF Next

\* The pool always holds what its unspent notes can take, whatever the fee,
\* whoever receives it, and also when a withdrawal pays the pool itself.
THEOREM PoolSolvent == Spec => []Solvent
<1>1. SolventInv => Solvent
  BY DEF SolventInv
<1>2. QED
  BY <1>1, InitSolvent, NextSolvent, PTL DEF Spec

-----------------------------------------------------------------------------
(* The private notes: the inductive invariant.                             *)

NoteId == {Recover} \cup {Dep(o) : o \in Op} \cup {Chg(o) : o \in Op}
Plans == UNION {[D -> NoteRecord] : D \in SUBSET Nat}
OpCall ==
  [pc : {"idle", "planned", "commit", "save", "index", "done"}, amount : Nat, items : Plans,
   note : NoteRecord \cup {None}, seen : SUBSET NoteId]
RecoveryCall ==
  [pc : {"idle", "sync", "save", "index"}, real : BOOLEAN, local : Nat, native : Nat,
   note : NoteRecord \cup {None}, seen : SUBSET NoteId, alone : BOOLEAN]

Stored == Range(store)

\* A record per id.
StoreInv ==
  /\ pool \in Nat /\ mixed \in BOOLEAN /\ upsets \in 0 .. MaxUpsets
  /\ store \in Seq(NoteRecord)
  /\ \A i, j \in DOMAIN store : store[i].id = store[j].id => i = j
  /\ index \subseteq Ids(Stored)

CallsInv == ops \in [Op -> OpCall] /\ recovery \in RecoveryCall

\* A plan covers what is still to be paid with notes of different ids.
PlanOk(plan, amount) ==
  /\ IsFiniteSet(DOMAIN plan) /\ amount > 0
  /\ SumOf(Range(plan)) >= amount
  /\ \A i, j \in DOMAIN plan : plan[i].id = plan[j].id => i = j

PlanInv == \A o \in Op : ops[o].pc \in {"planned", "commit"} => PlanOk(ops[o].items, ops[o].amount)

\* What a call is about to save or list is its own note, which nobody else
\* has saved before.
OwnNotes(o) == {Dep(o), Chg(o)}
OwnNoteInv(o) ==
  /\ ops[o].pc \in {"save", "index"} =>
       ops[o].note \in NoteRecord /\ ops[o].note.id \in OwnNotes(o) /\ ~ ops[o].note.spent
  /\ ops[o].pc = "index" => ops[o].note.id \in Ids(Stored) /\ ops[o].seen \subseteq Ids(Stored)
  /\ \A n \in Stored : n.id \in OwnNotes(o) => ops[o].pc \in {"index", "done"}

RowInv ==
  /\ recovery.pc \in {"save", "index"} =>
       recovery.note \in NoteRecord /\ recovery.note.id = Recover /\ ~ recovery.note.spent
  /\ recovery.pc = "index" => Recover \in Ids(Stored) /\ recovery.seen \subseteq Ids(Stored)

NoteInv == RowInv /\ \A o \in Op : OwnNoteInv(o)

\* A recovery with which no other call has overlapped knows the notes.
RecoveryInv ==
  Recovering /\ (~ mixed \/ recovery.alone) =>
    /\ \A o \in Op : ~ Running(o)
    /\ recovery.pc = "sync" =>
         recovery.local = Local /\ (recovery.real <=> \E n \in Shown : IsReal(n))
    /\ recovery.pc = "save" /\ recovery.real => Local + recovery.note.amount = recovery.native
    /\ recovery.pc = "save" /\ ~ recovery.real =>
         recovery.note.amount = recovery.native /\ \A n \in Shown : ~ IsReal(n)
    /\ recovery.pc = "index" =>
         /\ recovery.seen = index /\ recovery.note \in Stored /\ Recover \notin index
         /\ Local + recovery.note.amount = recovery.native

\* As long as no calls have overlapped, the notes and what the one call has in
\* hand are no more than the balance.
OpFits(o) ==
  /\ ops[o].pc = "planned" => Range(ops[o].items) \subseteq Shown /\ Local <= pool
  /\ ops[o].pc = "commit" => Range(ops[o].items) \subseteq Shown /\ Local <= pool + ops[o].amount
  /\ ops[o].pc = "save" => Local + ops[o].note.amount <= pool
  /\ ops[o].pc = "index" =>
       /\ ops[o].seen = index /\ ops[o].note \in Stored /\ ops[o].note.id \notin index
       /\ Local + ops[o].note.amount <= pool

CalmInv ==
  ~ mixed =>
    /\ \A o, p \in Op : Running(o) /\ Running(p) => o = p
    /\ Quiet \/ recovery.pc = "sync" => Local <= pool
    /\ recovery.pc \in {"save", "index"} => recovery.native <= pool
    /\ \A o \in Op : OpFits(o)

NotesInv ==
  /\ StoreInv /\ CallsInv
  /\ PlanInv /\ NoteInv /\ RecoveryInv /\ CalmInv

-----------------------------------------------------------------------------
(* Sums of notes.                                                          *)

LEMMA SumOfIs ==
  ASSUME NEW S \in SUBSET NoteRecord, IsFiniteSet(S)
  PROVE  /\ SumOf(S) \in Nat
         /\ \A R \in SUBSET S : SumOf(R) <= SumOf(S)
         /\ \A x \in S : SumOf(S) = x.amount + SumOf(S \ {x})
<1> DEFINE worth(R) == [n \in R |-> n.amount]
<1>1. \A R \in SUBSET S : \A n \in R : worth(R)[n] = n.amount /\ n.amount \in Nat
  BY DEF NoteRecord
<1>2. \A R : SumOf(R) = SumFunctionOnSet(worth(R), R)
  BY DEF SumOf, SumFunction
<1> HIDE DEF worth
<1>3. SumOf(S) \in Nat
  BY <1>1, <1>2, SumIs
<1>4. ASSUME NEW R \in SUBSET S
      PROVE  SumOf(R) <= SumOf(S)
  <2>1. \A n \in R : worth(R)[n] \in Nat /\ worth(R)[n] <= worth(S)[n]
    BY <1>1
  <2>2. SumFunctionOnSet(worth(R), R) <= SumFunctionOnSet(worth(S), S)
    BY <1>1, <2>1, SumBelow
  <2> QED
    BY <1>2, <2>2
<1>5. ASSUME NEW x \in S
      PROVE  SumOf(S) = x.amount + SumOf(S \ {x})
  <2>1. PICK R \in SUBSET S : R = S \ {x}
    OBVIOUS
  <2>2. IsFiniteSet(R)
    BY FS_Subset
  <2>3. \A n \in R : worth(R)[n] = worth(S)[n] /\ worth(S)[n] \in Nat /\ worth(S)[n] <= worth(S)[n]
    BY <1>1
  <2>4. /\ SumFunctionOnSet(worth(R), R) <= SumFunctionOnSet(worth(S), R)
        /\ SumFunctionOnSet(worth(S), R) <= SumFunctionOnSet(worth(R), R)
    <3>1. R \subseteq R
      OBVIOUS
    <3>2. \A n \in R : worth(R)[n] \in Nat /\ worth(R)[n] <= worth(S)[n] /\ worth(S)[n] <= worth(R)[n]
      BY <2>3
    <3> QED
      BY <2>2, <2>3, <3>1, <3>2, SumBelow
  <2>5. SumFunctionOnSet(worth(R), R) \in Nat /\ SumFunctionOnSet(worth(S), R) \in Nat
    BY <2>2, <2>3, SumIs
  <2>6. SumFunctionOnSet(worth(R), R) = SumFunctionOnSet(worth(S), R)
    BY <2>4, <2>5
  <2>7. \A y \in S : SumFunctionOnSet(worth(S), S) = worth(S)[y] + SumFunctionOnSet(worth(S), S \ {y})
    BY <1>1, SumIs
  <2>8. worth(S)[x] = x.amount
    BY <1>1
  <2> QED
    BY <1>2, <2>1, <2>6, <2>7, <2>8
<1> QED
  BY <1>3, <1>4, <1>5

LEMMA NoNotes == SumOf({}) = 0
<1>1. SumOf({}) = SumFunctionOnSet([n \in {} |-> n.amount], {})
  BY DEF SumOf, SumFunction
<1> QED
  BY <1>1, NoSum, Zenon

\* A note more, and one less.
LEMMA SumOfMore ==
  ASSUME NEW S \in SUBSET NoteRecord, IsFiniteSet(S), NEW n \in NoteRecord, n \notin S
  PROVE  SumOf(S \cup {n}) = SumOf(S) + n.amount
<1>1. PICK T \in SUBSET NoteRecord : T = S \cup {n}
  OBVIOUS
<1>2. IsFiniteSet(T) /\ n \in T /\ T \ {n} = S
  BY <1>1, FS_AddElement
<1>3. SumOf(T) = n.amount + SumOf(S) /\ SumOf(S) \in Nat /\ n.amount \in Nat
  BY <1>2, SumOfIs DEF NoteRecord
<1> QED
  BY <1>1, <1>3

-----------------------------------------------------------------------------
(* The store.                                                              *)

LEMMA RangeFinite ==
  ASSUME NEW f, IsFiniteSet(DOMAIN f)
  PROVE  IsFiniteSet(Range(f))
<1> DEFINE g == [x \in DOMAIN f |-> f[x]]
<1>1. g \in Surjection(DOMAIN f, Range(f))
  BY DEF Surjection, Range
<1> HIDE DEF g
<1> QED
  BY <1>1, FS_Surjection

LEMMA RecordIs ==
  \A n \in NoteRecord : n.id \in NoteId /\ n.amount \in Nat /\ n.spent \in BOOLEAN
BY DEF NoteRecord, NoteId

LEMMA StoreIs ==
  ASSUME StoreInv
  PROVE  /\ DOMAIN store = 1 .. Len(store) /\ Len(store) \in Nat
         /\ Stored \subseteq NoteRecord /\ IsFiniteSet(Stored)
         /\ Shown \subseteq Stored /\ IsFiniteSet(Shown) /\ Shown \subseteq NoteRecord
         /\ \A n, m \in Stored : n.id = m.id => n = m
         /\ Local \in Nat
<1>1. DOMAIN store = 1 .. Len(store) /\ Len(store) \in Nat /\ \A i \in DOMAIN store : store[i] \in NoteRecord
  BY DEF StoreInv
<1>2. Stored \subseteq NoteRecord
  BY <1>1 DEF Stored, Range
<1>3. IsFiniteSet(Stored)
  <2>1. 1 \in Int /\ Len(store) \in Int
    BY <1>1
  <2>2. IsFiniteSet(DOMAIN store)
    BY <1>1, <2>1, FS_Interval
  <2> QED
    BY <2>2, RangeFinite DEF Stored
<1>4. Shown \subseteq Stored
  BY DEF Shown, Stored
<1>5. IsFiniteSet(Shown)
  BY <1>3, <1>4, FS_Subset
<1>6. \A n, m \in Stored : n.id = m.id => n = m
  BY DEF StoreInv, Stored, Range
<1>7. Local \in Nat
  BY <1>2, <1>4, <1>5, SumOfIs DEF Local
<1> QED
  BY <1>1, <1>2, <1>3, <1>4, <1>5, <1>6, <1>7

LEMMA NotePlaceIs ==
  ASSUME StoreInv, NEW id \in Ids(Stored)
  PROVE  Place(id) \in DOMAIN store /\ store[Place(id)].id = id
<1>1. \E i \in DOMAIN store : store[i].id = id
  BY DEF Ids, Stored, Range
<1> QED
  BY <1>1 DEF Place

LEMMA SliceIs ==
  ASSUME NEW S, NEW s \in Seq(S), NEW u \in Nat, NEW k \in Nat, u >= 1, u <= k + 1, k <= Len(s)
  PROVE  LET part == SubSeq(s, u, k)
         IN /\ part \in Seq(S) /\ Len(part) = k - u + 1
            /\ \A j \in 1 .. k - u + 1 : part[j] = s[u + j - 1]
OBVIOUS

LEMMA FiniteBounded ==
  ASSUME NEW S, S \subseteq Nat, IsFiniteSet(S)
  PROVE  \E b \in Nat : \A y \in S : y < b
<1> DEFINE Ok == {m \in 0 .. Cardinality(S) : \A s \in SUBSET S :
                    Cardinality(s) <= m => \E b \in Nat : \A y \in s : y < b}
<1>1. 0 \in Ok
  <2>1. \A s \in SUBSET S : Cardinality(s) <= 0 => s = {}
    <3> HIDE DEF Ok
    <3> SUFFICES ASSUME NEW s \in SUBSET S, Cardinality(s) <= 0
                 PROVE  s = {}
      OBVIOUS
    <3>1. Cardinality(s) \in 0 .. Cardinality(S) /\ Cardinality(S) \in Nat
      BY SubsetsAre
    <3>2. Cardinality(s) = 0
      BY <3>1
    <3> QED
      BY <3>2, SubsetsAre
  <2>2. 0 \in 0 .. Cardinality(S)
    BY SubsetsAre
  <2>3. \A y \in {} : y < 0
    OBVIOUS
  <2> QED
    BY <2>1, <2>2, <2>3
<1>2. ASSUME NEW m \in Ok \cap (0 .. Cardinality(S) - 1)
      PROVE  m + 1 \in Ok
  <2>1. ASSUME NEW s \in SUBSET S, Cardinality(s) <= m + 1
        PROVE  \E b \in Nat : \A y \in s : y < b
    <3>1. CASE s = {}
      <4>1. \A y \in s : y < 0
        BY <3>1
      <4> QED
        BY <4>1
    <3>2. CASE s # {}
      <4>1. PICK x \in s : TRUE
        BY <3>2
      <4>2. s \ {x} \in SUBSET S /\ Cardinality(s \ {x}) = Cardinality(s) - 1 /\ Cardinality(s) \in Nat
        BY SubsetsAre
      <4>3. Cardinality(s \ {x}) <= m
        BY <2>1, <4>2
      <4>4. PICK b \in Nat : \A y \in s \ {x} : y < b
        BY <4>2, <4>3
      <4>5. b + x + 1 \in Nat /\ \A y \in s : y < b + x + 1
        BY <4>4
      <4> QED
        BY <4>5
    <3> QED
      BY <3>1, <3>2
  <2>2. m + 1 \in 0 .. Cardinality(S)
    BY SubsetsAre
  <2> QED
    BY <2>1, <2>2
<1>3. Cardinality(S) \in Ok
  <2> HIDE DEF Ok
  <2>1. Cardinality(S) \in Nat /\ Cardinality(S) \in 0 .. Cardinality(S)
    BY SubsetsAre
  <2> QED
    BY <1>1, <1>2, <2>1, RangeInduction
<1>4. S \in SUBSET S /\ Cardinality(S) <= Cardinality(S)
  BY SubsetsAre
<1> QED
  BY <1>3, <1>4

\* The records but one, in their order.
LEMMA OthersAre ==
  ASSUME StoreInv, NEW id \in NoteId
  PROVE  /\ Others(id) \in Seq(NoteRecord)
         /\ \A i, j \in DOMAIN Others(id) : Others(id)[i].id = Others(id)[j].id => i = j
         /\ Range(Others(id)) = {m \in Stored : m.id # id}
<1> DEFINE n == Len(store)
           new == Others(id)
<1>1. store \in Seq(NoteRecord) /\ DOMAIN store = 1 .. n /\ n \in Nat
  BY StoreIs DEF StoreInv
<1>2. CASE id \notin Ids(Stored)
  <2>1. new = store
    BY <1>2 DEF Others, Stored
  <2>2. \A m \in Stored : m.id # id
    BY <1>2 DEF Ids
  <2> QED
    BY <2>1, <2>2 DEF StoreInv, Stored
<1>3. CASE id \in Ids(Stored)
  <2>1. PICK p \in 1 .. n : store[p].id = id /\ Place(id) = p
    BY <1>1, <1>3, NotePlaceIs
  <2> DEFINE front == SubSeq(store, 1, p - 1)
             back == SubSeq(store, p + 1, n)
  <2>2. /\ front \in Seq(NoteRecord) /\ Len(front) = p - 1
        /\ \A j \in 1 .. p - 1 : front[j] = store[j]
    <3>1. PICK k \in Nat : k = p - 1
      BY <1>1
    <3>2. front = SubSeq(store, 1, k)
      BY <3>1
    <3> HIDE DEF front
    <3>3. /\ front \in Seq(NoteRecord) /\ Len(front) = k - 1 + 1
          /\ \A j \in 1 .. k - 1 + 1 : front[j] = store[1 + j - 1]
      BY <1>1, <3>1, <3>2, SliceIs
    <3>4. \A j \in 1 .. k : j \in 1 .. k - 1 + 1 /\ 1 + j - 1 = j
      OBVIOUS
    <3> QED
      BY <3>1, <3>3, <3>4
  <2>3. /\ back \in Seq(NoteRecord) /\ Len(back) = n - p
        /\ \A j \in 1 .. n - p : back[j] = store[p + j]
    <3>1. PICK u \in Nat : u = p + 1
      BY <1>1
    <3>2. back = SubSeq(store, u, n)
      BY <3>1
    <3> HIDE DEF back
    <3>3. /\ back \in Seq(NoteRecord) /\ Len(back) = n - u + 1
          /\ \A j \in 1 .. n - u + 1 : back[j] = store[u + j - 1]
      <4>1. n \in Nat /\ u >= 1 /\ u <= n + 1 /\ n <= Len(store)
        BY <1>1, <3>1
      <4> HIDE DEF n
      <4> QED
        BY <1>1, <3>2, <4>1, SliceIs
    <3>4. \A j \in 1 .. n - p : j \in 1 .. n - u + 1 /\ u + j - 1 = p + j
      BY <1>1, <3>1
    <3> QED
      BY <1>1, <3>1, <3>3, <3>4
  <2>4. new = front \o back
    BY <1>3, <2>1 DEF Others, Stored
  <2> HIDE DEF front, back, new
  <2>5. new \in Seq(NoteRecord) /\ Len(new) = n - 1 /\ DOMAIN new = 1 .. n - 1
    <3>1. new \in Seq(NoteRecord) /\ Len(new) = Len(front) + Len(back)
      BY <2>2, <2>3, <2>4, ConcatProperties
    <3> QED
      BY <1>1, <2>1, <2>2, <2>3, <3>1
  <2>6. \A j \in 1 .. n - 1 : new[j] = IF j < p THEN store[j] ELSE store[j + 1]
    <3> SUFFICES ASSUME NEW j \in 1 .. n - 1
                 PROVE  new[j] = IF j < p THEN store[j] ELSE store[j + 1]
      OBVIOUS
    <3>1. CASE j < p
      BY <1>1, <2>2, <2>3, <2>4, <3>1
    <3>2. CASE ~ (j < p)
      <4>1. j - (p - 1) \in 1 .. n - p /\ p + (j - (p - 1)) = j + 1
        BY <1>1, <3>2
      <4>2. new[j] = back[j - (p - 1)]
        BY <1>1, <2>2, <2>3, <2>4, <3>2
      <4> QED
        BY <2>3, <3>2, <4>1, <4>2
    <3> QED
      BY <3>1, <3>2
  <2> DEFINE from == [j \in 1 .. n - 1 |-> IF j < p THEN j ELSE j + 1]
  <2>7. /\ \A j \in 1 .. n - 1 : from[j] \in (1 .. n) \ {p} /\ new[j] = store[from[j]]
        /\ \A i, j \in 1 .. n - 1 : from[i] = from[j] => i = j
    BY <1>1, <2>6
  <2>8. \A i \in (1 .. n) \ {p} : \E j \in 1 .. n - 1 : from[j] = i
    <3> SUFFICES ASSUME NEW i \in (1 .. n) \ {p}
                 PROVE  \E j \in 1 .. n - 1 : from[j] = i
      OBVIOUS
    <3>1. CASE i < p
      BY <1>1, <3>1
    <3>2. CASE i > p
      <4>1. i - 1 \in 1 .. n - 1 /\ from[i - 1] = i
        BY <1>1, <3>2
      <4> QED
        BY <4>1
    <3> QED
      BY <1>1, <3>1, <3>2
  <2> HIDE DEF from
  <2>9. \A i, j \in 1 .. n : store[i].id = store[j].id => i = j
    BY <1>1 DEF StoreInv
  <2>10. ASSUME NEW i \in DOMAIN new, NEW j \in DOMAIN new, new[i].id = new[j].id
         PROVE  i = j
    <3>1. /\ from[i] \in 1 .. n /\ new[i] = store[from[i]]
          /\ from[j] \in 1 .. n /\ new[j] = store[from[j]]
      BY <2>5, <2>7
    <3>2. from[i] = from[j]
      BY <2>9, <2>10, <3>1
    <3> QED
      BY <2>5, <2>7, <3>2
  <2>11. Range(new) \subseteq {m \in Stored : m.id # id}
    <3> SUFFICES ASSUME NEW j \in 1 .. n - 1
                 PROVE  new[j] \in Stored /\ new[j].id # id
      BY <2>5 DEF Range
    <3>1. from[j] \in 1 .. n /\ from[j] # p /\ new[j] = store[from[j]]
      BY <2>7
    <3> QED
      BY <1>1, <2>1, <2>9, <3>1 DEF Stored, Range
  <2>12. {m \in Stored : m.id # id} \subseteq Range(new)
    <3> SUFFICES ASSUME NEW i \in 1 .. n, store[i].id # id
                 PROVE  store[i] \in Range(new)
      BY <1>1 DEF Stored, Range
    <3>1. i \in (1 .. n) \ {p}
      BY <2>1
    <3>2. PICK j \in 1 .. n - 1 : from[j] = i
      BY <2>8, <3>1
    <3>3. new[j] = store[i] /\ j \in DOMAIN new
      BY <2>5, <2>7, <3>2
    <3> QED
      BY <3>3 DEF Range
  <2> QED
    BY <2>5, <2>10, <2>11, <2>12 DEF new
<1> QED
  BY <1>2, <1>3

LEMMA PutIs ==
  ASSUME StoreInv, NEW n \in NoteRecord
  PROVE  /\ Put(n) \in Seq(NoteRecord)
         /\ \A i, j \in DOMAIN Put(n) : Put(n)[i].id = Put(n)[j].id => i = j
         /\ Range(Put(n)) = {m \in Stored : m.id # n.id} \cup {n}
<1>1. n.id \in NoteId
  BY RecordIs
<1>2. PICK q \in Seq(NoteRecord) :
        /\ q = Others(n.id)
        /\ \A i, j \in DOMAIN q : q[i].id = q[j].id => i = j
        /\ Range(q) = {m \in Stored : m.id # n.id}
  BY <1>1, OthersAre
<1>3. Put(n) = Append(q, n)
  BY <1>2 DEF Put
<1>4. /\ Append(q, n) \in Seq(NoteRecord) /\ DOMAIN Append(q, n) = 1 .. Len(q) + 1
      /\ DOMAIN q = 1 .. Len(q) /\ Len(q) \in Nat
      /\ \A i \in 1 .. Len(q) : Append(q, n)[i] = q[i]
      /\ Append(q, n)[Len(q) + 1] = n
  OBVIOUS
<1>5. \A i \in 1 .. Len(q) : q[i].id # n.id
  BY <1>2, <1>4 DEF Range
<1> DEFINE p == Append(q, n)
<1>6. \A i \in 1 .. Len(q) + 1 : i = Len(q) + 1 \/ i \in 1 .. Len(q)
  BY <1>4
<1>7. ASSUME NEW i \in DOMAIN p, NEW j \in DOMAIN p, p[i].id = p[j].id
      PROVE  i = j
  BY <1>2, <1>4, <1>5, <1>6, <1>7
<1>8. Range(p) = Range(q) \cup {n}
  <2>1. Range(p) \subseteq Range(q) \cup {n}
    BY <1>4, <1>6 DEF Range
  <2>2. Range(q) \subseteq Range(p)
    BY <1>4 DEF Range
  <2>3. Len(q) + 1 \in DOMAIN p
    BY <1>4
  <2>4. n \in Range(p)
    BY <1>4, <2>3 DEF Range
  <2> QED
    BY <2>1, <2>2, <2>4
<1> QED
  BY <1>2, <1>3, <1>4, <1>7, <1>8

-----------------------------------------------------------------------------
(* What the writes leave in the store, and what is shown of it.            *)

LEMMA IdsDiffer ==
  /\ \A o \in Op : Dep(o) \in NoteId /\ Chg(o) \in NoteId /\ Recover \notin OwnNotes(o)
  /\ \A o, p \in Op : o # p => OwnNotes(o) \cap OwnNotes(p) = {}
  /\ Recover \in NoteId
BY DEF Recover, Dep, Chg, OwnNotes, NoteId

LEMMA IdsAre ==
  ASSUME StoreInv
  PROVE  Ids(Stored) \subseteq NoteId /\ \A n \in Stored : n.id \in Ids(Stored)
BY StoreIs, RecordIs DEF Ids

\* Nothing is written.
LEMMA NotesStay ==
  ASSUME StoreInv, UNCHANGED <<store, index>>
  PROVE  Stored' = Stored /\ Shown' = Shown /\ Local' = Local
<1>1. Stored' = Stored
  BY DEF Stored
<1>2. Shown' = Shown
  BY DEF Shown
<1> QED
  BY <1>1, <1>2 DEF Local

LEMMA PutStored ==
  ASSUME StoreInv, NEW n \in NoteRecord, ~ n.spent, store' = Put(n), index' = index,
         pool' \in Nat, mixed' \in BOOLEAN, upsets' \in 0 .. MaxUpsets
  PROVE  /\ StoreInv'
         /\ Stored' = {m \in Stored : m.id # n.id} \cup {n}
         /\ Ids(Stored') = Ids(Stored) \cup {n.id}
         /\ n.id \in index => Shown' = {m \in Shown : m.id # n.id} \cup {n}
         /\ n.id \notin index => Shown' = Shown
<1>1. /\ store' \in Seq(NoteRecord)
      /\ \A i, j \in DOMAIN store' : store'[i].id = store'[j].id => i = j
      /\ Range(store') = {m \in Stored : m.id # n.id} \cup {n}
  BY PutIs
<1>2. Stored' = {m \in Stored : m.id # n.id} \cup {n}
  BY <1>1 DEF Stored
<1>3. Ids(Stored') = Ids(Stored) \cup {n.id}
  BY <1>2 DEF Ids
<1>4. StoreInv'
  <2>1. index \subseteq Ids(Stored)
    BY DEF StoreInv
  <2>2. index' \subseteq Ids(Stored')
    BY <1>3, <2>1
  <2> QED
    BY <1>1, <2>2 DEF StoreInv
<1>5. Shown' = {m \in Stored' : m.id \in index /\ ~ m.spent}
  BY DEF Shown, Stored
<1>6. Shown = {m \in Stored : m.id \in index /\ ~ m.spent}
  BY DEF Shown, Stored
<1>7. n.id \in index => Shown' = {m \in Shown : m.id # n.id} \cup {n}
  BY <1>2, <1>5, <1>6
<1>8. n.id \notin index => Shown' = Shown
  BY <1>2, <1>5, <1>6
<1> QED
  BY <1>2, <1>3, <1>4, <1>7, <1>8

LEMMA ListStored ==
  ASSUME StoreInv, NEW seen, seen \subseteq Ids(Stored), NEW id \in Ids(Stored),
         index' = seen \cup {id}, store' = store,
         pool' \in Nat, mixed' \in BOOLEAN, upsets' \in 0 .. MaxUpsets
  PROVE  /\ StoreInv' /\ Stored' = Stored
         /\ seen = index => Shown \subseteq Shown'
         /\ \A n \in Stored : seen = index /\ n.id = id /\ id \notin index /\ ~ n.spent =>
              Shown' = Shown \cup {n} /\ n \notin Shown
<1>1. Stored' = Stored
  BY DEF Stored
<1>2. StoreInv'
  BY <1>1 DEF StoreInv
<1>3. Shown' = {m \in Stored : m.id \in seen \cup {id} /\ ~ m.spent}
  BY DEF Shown, Stored
<1>4. Shown = {m \in Stored : m.id \in index /\ ~ m.spent}
  BY DEF Shown, Stored
<1>5. seen = index => Shown \subseteq Shown'
  BY <1>3, <1>4
<1>6. ASSUME NEW n \in Stored, seen = index, n.id = id, id \notin index, ~ n.spent
      PROVE  Shown' = Shown \cup {n} /\ n \notin Shown
  <2>1. \A m \in Stored : m.id = id => m = n
    BY <1>6, StoreIs
  <2> QED
    BY <1>3, <1>4, <1>6, <2>1
<1> QED
  BY <1>1, <1>2, <1>5, <1>6

Marked(id) == [i \in DOMAIN store |-> [store[i] EXCEPT !.spent = @ \/ store[i].id = id]]

LEMMA MarkStored ==
  ASSUME StoreInv, NEW id \in NoteId, store' = Marked(id), index' = index \cup ({id} \cap Ids(Stored)),
         pool' \in Nat, mixed' \in BOOLEAN, upsets' \in 0 .. MaxUpsets
  PROVE  /\ StoreInv' /\ Ids(Stored') = Ids(Stored)
         /\ Shown' = {m \in Shown : m.id # id}
<1>1. /\ store \in Seq(NoteRecord) /\ DOMAIN store = 1 .. Len(store) /\ Len(store) \in Nat
      /\ \A i \in DOMAIN store : store[i] \in NoteRecord
  BY StoreIs DEF StoreInv
<1>2. \A i \in DOMAIN store :
        LET r == [store[i] EXCEPT !.spent = @ \/ store[i].id = id]
        IN /\ r \in NoteRecord /\ r.id = store[i].id /\ r.amount = store[i].amount
           /\ r.spent <=> store[i].spent \/ store[i].id = id
           /\ store[i].id # id => r = store[i]
  BY <1>1 DEF NoteRecord
<1>3. /\ store' \in [DOMAIN store -> NoteRecord] /\ DOMAIN store' = DOMAIN store
      /\ \A i \in DOMAIN store :
           /\ store'[i] \in NoteRecord /\ store'[i].id = store[i].id
           /\ store'[i].spent <=> store[i].spent \/ store[i].id = id
           /\ store[i].id # id => store'[i] = store[i]
  BY <1>2 DEF Marked
<1>4. store' \in Seq(NoteRecord)
  BY <1>1, <1>3
<1>5. Ids(Stored') = Ids(Stored)
  <2>1. Ids(Stored) = {store[i].id : i \in DOMAIN store}
    BY DEF Ids, Stored, Range
  <2>2. Ids(Stored') = {store'[i].id : i \in DOMAIN store'}
    BY DEF Ids, Stored, Range
  <2> QED
    BY <1>3, <2>1, <2>2
<1>6. StoreInv'
  BY <1>3, <1>4, <1>5 DEF StoreInv
<1>7. Shown' \subseteq {m \in Shown : m.id # id}
  <2> SUFFICES ASSUME NEW i \in DOMAIN store, store'[i].id \in index', ~ store'[i].spent
               PROVE  store'[i] \in Shown /\ store'[i].id # id
    BY <1>3 DEF Shown, Range
  <2>1. store[i].id # id /\ store'[i] = store[i] /\ ~ store[i].spent
    BY <1>3
  <2>2. store[i].id \in index
    BY <2>1
  <2> QED
    BY <2>1, <2>2 DEF Shown, Range
<1>8. {m \in Shown : m.id # id} \subseteq Shown'
  <2> SUFFICES ASSUME NEW i \in DOMAIN store, store[i].id \in index, ~ store[i].spent, store[i].id # id
               PROVE  store[i] \in Shown'
    BY DEF Shown, Range
  <2>1. store'[i] = store[i] /\ i \in DOMAIN store' /\ store[i].id \in index'
    BY <1>3
  <2> QED
    BY <2>1 DEF Shown, Range
<1> QED
  BY <1>5, <1>6, <1>7, <1>8

-----------------------------------------------------------------------------
(* Plans.                                                                  *)

LEMMA CoveringIs ==
  ASSUME StoreInv, NEW a \in Nat, a > 0, Local >= a
  PROVE  /\ Covering(a) \in Plans /\ PlanOk(Covering(a), a)
         /\ Range(Covering(a)) \subseteq Shown
<1> DEFINE newer(i) == {n \in Shown : \E j \in DOMAIN store : j > i /\ store[j] = n}
           free == {i \in DOMAIN store : store[i] \in Shown}
           taken == {i \in DOMAIN store : store[i] \in Shown /\ SumOf(newer(i)) < a}
           rest == free \ taken
           plan == [i \in taken |-> store[i]]
           range == {store[i] : i \in taken}
<1>1. /\ DOMAIN store = 1 .. Len(store) /\ Len(store) \in Nat
      /\ Shown \subseteq Stored /\ IsFiniteSet(Shown) /\ Shown \subseteq NoteRecord
  BY StoreIs
<1>2. Covering(a) = plan /\ Range(plan) = range
  BY DEF Covering, Range
<1>3. range \subseteq Shown /\ IsFiniteSet(range) /\ range \subseteq NoteRecord
  <2>1. range \subseteq Shown
    OBVIOUS
  <2> HIDE DEF range
  <2> QED
    BY <1>1, <2>1, FS_Subset
<1>4. SumOf(range) >= a
  <2>1. CASE rest = {}
    <3>1. Shown \subseteq range
      BY <1>1, <2>1 DEF Stored, Range
    <3>2. range = Shown
      BY <1>3, <3>1
    <3> QED
      BY <3>2 DEF Local
  <2>2. CASE rest # {}
    <3>1. rest \subseteq Nat /\ \A y \in rest : y < Len(store) + 1
      BY <1>1
    <3> HIDE DEF rest
    <3>2. PICK i \in rest : \A y \in rest : y <= i
      <4>1. Len(store) + 1 \in Nat
        BY <1>1
      <4> QED
        BY <2>2, <3>1, <4>1, MaxIs
    <3> USE DEF rest
    <3>3. newer(i) \subseteq range
      <4> SUFFICES ASSUME NEW j \in DOMAIN store, j > i, store[j] \in Shown
                   PROVE  store[j] \in range
        OBVIOUS
      <4>1. j \notin rest
        <5> HIDE DEF rest
        <5>1. i \in Nat /\ j \in Nat
          BY <1>1, <3>1
        <5> QED
          BY <3>2, <5>1
      <4>2. j \in taken
        BY <4>1
      <4> QED
        BY <4>2
    <3>4. ~ (SumOf(newer(i)) < a)
      BY <3>2
    <3> HIDE DEF newer, rest, range
    <3>5. IsFiniteSet(newer(i)) /\ newer(i) \subseteq NoteRecord
      BY <1>3, <3>3, FS_Subset
    <3>6. SumOf(newer(i)) \in Nat /\ SumOf(newer(i)) <= SumOf(range) /\ SumOf(range) \in Nat
      BY <1>3, <3>3, <3>5, SumOfIs
    <3> QED
      BY <3>4, <3>6
  <2> QED
    BY <2>1, <2>2
<1>5. taken \subseteq DOMAIN store /\ DOMAIN plan = taken /\ taken \subseteq Nat
  BY <1>1
<1>6. IsFiniteSet(taken)
  <2>1. IsFiniteSet(DOMAIN store)
    <3>1. 1 \in Int /\ Len(store) \in Int
      BY <1>1
    <3> QED
      BY <1>1, <3>1, FS_Interval
  <2> HIDE DEF taken
  <2> QED
    BY <1>5, <2>1, FS_Subset
<1>7. plan \in [taken -> NoteRecord]
  BY <1>1
<1>8. \A i, j \in taken : plan[i] = store[i] /\ (plan[i].id = plan[j].id => i = j)
  BY DEF StoreInv
<1> HIDE DEF taken, plan, range
<1>9. plan \in Plans
  BY <1>5, <1>7 DEF Plans
<1> QED
  BY <1>2, <1>3, <1>4, <1>5, <1>6, <1>8, <1>9 DEF PlanOk

LEMMA RestIs ==
  ASSUME NEW plan \in Plans, NEW amount \in Nat, PlanOk(plan, amount)
  PROVE  /\ Newest(plan) \in DOMAIN plan /\ plan[Newest(plan)] \in NoteRecord
         /\ plan[Newest(plan)] \in Range(plan)
         /\ Rest(plan) \in Plans /\ Rest(plan) # plan
         /\ Range(Rest(plan)) \subseteq {m \in Range(plan) : m.id # plan[Newest(plan)].id}
         /\ \A left \in Nat \ {0} :
              amount = plan[Newest(plan)].amount + left => PlanOk(Rest(plan), left)
<1> DEFINE k == Newest(plan)
           n == plan[k]
           rest == Rest(plan)
<1>1. PICK D \in SUBSET Nat : plan \in [D -> NoteRecord] /\ DOMAIN plan = D
  BY DEF Plans
<1>2. Range(plan) \subseteq NoteRecord /\ IsFiniteSet(Range(plan)) /\ IsFiniteSet(D)
  BY <1>1, RangeFinite DEF PlanOk, Range
<1>3. D # {}
  <2> SUFFICES ASSUME D = {}
               PROVE  FALSE
    OBVIOUS
  <2>1. Range(plan) = {}
    BY <1>1 DEF Range
  <2>2. SumOf(Range(plan)) = 0
    BY <2>1, NoNotes
  <2> QED
    BY <2>2 DEF PlanOk
<1>4. k \in D
  <2>1. PICK b \in Nat : \A y \in D : y < b
    BY <1>1, <1>2, FiniteBounded
  <2>2. Max(D) \in D
    BY <1>1, <1>3, <2>1, MaxIs
  <2> QED
    BY <1>1, <2>2 DEF Newest
<1>5. n \in NoteRecord /\ n \in Range(plan)
  BY <1>1, <1>4 DEF Range
<1>6. rest = [i \in D \ {k} |-> plan[i]]
  <2>1. D \cap (D \ {k}) = D \ {k}
    OBVIOUS
  <2> QED
    BY <1>1, <2>1 DEF Rest, Restrict
<1> HIDE DEF k, rest
<1>7. rest \in [D \ {k} -> NoteRecord] /\ DOMAIN rest = D \ {k} /\ \A i \in D \ {k} : rest[i] = plan[i]
  BY <1>1, <1>6
<1>8. rest \in Plans /\ rest # plan
  BY <1>1, <1>4, <1>7 DEF Plans
<1>9. \A i \in D \ {k} : plan[i].id # n.id
  BY <1>1, <1>4 DEF PlanOk
<1>10. Range(rest) \subseteq {m \in Range(plan) : m.id # n.id}
  BY <1>1, <1>7, <1>9 DEF Range
<1>11. Range(rest) = Range(plan) \ {n}
  <2>1. Range(plan) \ {n} \subseteq Range(rest)
    BY <1>1, <1>7 DEF Range
  <2> QED
    BY <1>10, <2>1
<1>12. SumOf(Range(plan)) = n.amount + SumOf(Range(rest))
  BY <1>2, <1>5, <1>11, SumOfIs
<1>13. SumOf(Range(rest)) \in Nat
  <2>1. Range(rest) \subseteq Range(plan)
    BY <1>11
  <2>2. IsFiniteSet(Range(rest)) /\ Range(rest) \subseteq NoteRecord
    BY <1>2, <2>1, FS_Subset
  <2> QED
    BY <2>2, SumOfIs
<1>14. ASSUME NEW left \in Nat \ {0}, amount = n.amount + left
       PROVE  PlanOk(rest, left)
  <2>1. IsFiniteSet(DOMAIN rest)
    BY <1>2, <1>7, FS_Subset
  <2>2. SumOf(Range(rest)) >= left
    <3>1. SumOf(Range(plan)) >= amount
      BY DEF PlanOk
    <3>2. n.amount \in Nat
      BY <1>5, RecordIs
    <3> QED
      BY <1>12, <1>13, <1>14, <3>1, <3>2
  <2>3. \A i, j \in DOMAIN rest : rest[i].id = rest[j].id => i = j
    BY <1>1, <1>7 DEF PlanOk
  <2> QED
    BY <2>1, <2>2, <2>3 DEF PlanOk
<1> QED
  BY <1>1, <1>4, <1>5, <1>8, <1>10, <1>14 DEF k, rest

-----------------------------------------------------------------------------
(* One call moves.                                                         *)

LEMMA CallsAre ==
  /\ IdleOp \in OpCall /\ [IdleOp EXCEPT !.pc = "done"] \in OpCall
  /\ \A n \in NoteRecord : [IdleOp EXCEPT !.pc = "save", !.note = n] \in OpCall
  /\ \A a \in Nat, plan \in Plans :
       [IdleOp EXCEPT !.pc = "planned", !.amount = a, !.items = plan] \in OpCall
<1>1. <<>> \in Plans
  <2>1. <<>> \in Seq(NoteRecord) /\ Len(<<>>) = 0
    OBVIOUS
  <2>2. <<>> \in [1 .. 0 -> NoteRecord]
    BY <2>1
  <2>3. 1 .. 0 \in SUBSET Nat
    OBVIOUS
  <2> QED
    BY <2>2, <2>3 DEF Plans
<1> HIDE DEF Plans
<1>2. None \in NoteRecord \cup {None} /\ {} \in SUBSET NoteId /\ 0 \in Nat
  OBVIOUS
<1> QED
  BY <1>1, <1>2 DEF IdleOp, OpCall

\* What a call writes disturbs no other call.
LEMMA OpWrites ==
  ASSUME NotesInv, NEW o \in Op, NEW v \in OpCall, ops' = [ops EXCEPT ![o] = v],
         recovery' = recovery \/ recovery' = [recovery EXCEPT !.alone = FALSE],
         Ids(Stored) \subseteq Ids(Stored'), Ids(Stored') \subseteq Ids(Stored) \cup OwnNotes(o),
         v.pc \in {"planned", "commit"} => PlanOk(v.items, v.amount),
         OwnNoteInv(o)'
  PROVE  CallsInv' /\ PlanInv' /\ NoteInv'
<1>1. /\ ops \in [Op -> OpCall] /\ recovery \in RecoveryCall
      /\ ops'[o] = v /\ \A p \in Op : p # o => ops'[p] = ops[p]
  BY DEF NotesInv, CallsInv
<1>2. /\ recovery' \in RecoveryCall /\ recovery'.pc = recovery.pc
      /\ recovery'.note = recovery.note /\ recovery'.seen = recovery.seen
  BY <1>1 DEF RecoveryCall
<1>3. CallsInv'
  BY <1>1, <1>2 DEF CallsInv
<1>4. PlanInv'
  BY <1>1 DEF NotesInv, PlanInv
<1>5. RowInv'
  BY <1>2 DEF NotesInv, NoteInv, RowInv
<1>6. ASSUME NEW p \in Op, p # o
      PROVE  OwnNoteInv(p)'
  <2>1. OwnNoteInv(p) /\ ops'[p] = ops[p]
    BY <1>1, <1>6 DEF NotesInv, NoteInv
  <2>2. ASSUME NEW n \in Stored', n.id \in OwnNotes(p)
        PROVE  ops[p].pc \in {"index", "done"}
    <3>1. n.id \in Ids(Stored') /\ n.id \notin OwnNotes(o)
      BY <1>6, <2>2, IdsDiffer DEF Ids
    <3>2. PICK m \in Stored : m.id = n.id
      BY <3>1 DEF Ids
    <3> QED
      BY <2>1, <2>2, <3>2 DEF OwnNoteInv
  <2> QED
    BY <2>1, <2>2 DEF OwnNoteInv
<1> QED
  BY <1>3, <1>4, <1>5, <1>6 DEF NoteInv

\* A running call goes on, or ends.
LEMMA OpStep ==
  ASSUME NotesInv, NEW o \in Op, NEW v \in OpCall, Running(o), ops' = [ops EXCEPT ![o] = v],
         v.pc # "idle", UNCHANGED <<recovery, mixed, upsets>>, StoreInv',
         Ids(Stored) \subseteq Ids(Stored'), Ids(Stored') \subseteq Ids(Stored) \cup OwnNotes(o),
         v.pc \in {"planned", "commit"} => PlanOk(v.items, v.amount),
         OwnNoteInv(o)',
         ~ mixed => OpFits(o)' /\ (v.pc = "done" => Local' <= pool')
  PROVE  NotesInv'
<1>1. CallsInv' /\ PlanInv' /\ NoteInv'
  BY OpWrites
<1>2. /\ ops'[o] = v /\ \A p \in Op : p # o => ops'[p] = ops[p]
      /\ recovery' = recovery /\ mixed' = mixed
  BY DEF NotesInv, CallsInv
<1>3. RecoveryInv'
  <2>1. ~ (Recovering /\ (~ mixed \/ recovery.alone))
    BY DEF NotesInv, RecoveryInv
  <2> QED
    BY <1>2, <2>1 DEF RecoveryInv, Recovering
<1>4. CalmInv'
  <2> SUFFICES ASSUME ~ mixed
               PROVE  CalmInv'
    BY <1>2 DEF CalmInv
  <2>1. \A p \in Op : p # o => ~ Running(p)
    BY DEF NotesInv, CalmInv
  <2>2. \A p \in Op : p # o => ~ Running(p)'
    BY <1>2, <2>1 DEF Running
  <2>3. recovery.pc = "idle"
    BY DEF NotesInv, RecoveryInv, Recovering
  <2>4. \A p \in Op : OpFits(p)'
    BY <1>2, <2>2 DEF OpFits, Running
  <2>5. Quiet' => Local' <= pool'
    BY <1>2 DEF Quiet, Running
  <2> QED
    BY <1>2, <2>2, <2>3, <2>4, <2>5 DEF CalmInv
<1> QED
  BY <1>1, <1>3, <1>4 DEF NotesInv

\* A call begins.
LEMMA OpBegins ==
  ASSUME NotesInv, NEW o \in Op, NEW v \in OpCall, Begins, ops' = [ops EXCEPT ![o] = v],
         v.pc \notin {"idle", "done"}, recovery' = [recovery EXCEPT !.alone = FALSE],
         UNCHANGED <<store, index>>, pool' \in Nat,
         v.pc \in {"planned", "commit"} => PlanOk(v.items, v.amount),
         OwnNoteInv(o)',
         ~ mixed /\ Quiet => OpFits(o)'
  PROVE  NotesInv'
<1>1. Stored' = Stored /\ StoreInv'
  BY NotesStay DEF NotesInv, StoreInv, Begins
<1>2. CallsInv' /\ PlanInv' /\ NoteInv'
  BY <1>1, OpWrites
<1>3. /\ ops'[o] = v /\ \A p \in Op : p # o => ops'[p] = ops[p]
      /\ recovery'.pc = recovery.pc /\ recovery'.alone = FALSE /\ mixed' = (mixed \/ ~ Quiet)
  BY DEF NotesInv, CallsInv, RecoveryCall, Begins
<1>4. RecoveryInv'
  <2>1. Recovering' => mixed'
    BY <1>3 DEF Recovering, Quiet
  <2> QED
    BY <1>3, <2>1 DEF RecoveryInv
<1>5. CalmInv'
  <2> SUFFICES ASSUME ~ mixed, Quiet
               PROVE  CalmInv'
    BY <1>3 DEF CalmInv
  <2>1. \A p \in Op : p # o => ~ Running(p)'
    BY <1>3 DEF Quiet, Running
  <2>2. Running(o)'
    BY <1>3 DEF Running
  <2>3. recovery'.pc = "idle"
    BY <1>3 DEF Quiet, Recovering
  <2>4. \A p \in Op : OpFits(p)'
    BY <2>1 DEF OpFits, Running
  <2> QED
    BY <2>1, <2>2, <2>3, <2>4 DEF CalmInv, Quiet
<1> QED
  BY <1>1, <1>2, <1>4, <1>5 DEF NotesInv

-----------------------------------------------------------------------------
(* Deposits and spends.                                                    *)

LEMMA DepositImplKeeps ==
  ASSUME NotesInv, NEW o \in Op, NEW a \in Amount, DepositImpl(o, a)
  PROVE  NotesInv'
<1> DEFINE n == NewNote(Dep(o), a)
           v == [IdleOp EXCEPT !.pc = "save", !.note = n]
<1>1. a \in Nat /\ pool \in Nat
  BY NotesAssumption DEF NotesInv, StoreInv
<1>2. n \in NoteRecord /\ n.id = Dep(o) /\ n.amount = a /\ ~ n.spent
  BY <1>1 DEF NewNote, NoteRecord
<1> HIDE DEF n
<1>3. v \in OpCall /\ v.pc = "save" /\ v.note = n
  BY <1>2, CallsAre DEF IdleOp
<1> HIDE DEF v
<1>4. /\ ops' = [ops EXCEPT ![o] = v] /\ ops[o].pc = "idle" /\ Begins /\ pool' = pool + a
      /\ recovery' = [recovery EXCEPT !.alone = FALSE] /\ UNCHANGED <<store, index>>
  BY DEF DepositImpl, v, n
<1>5. ops'[o] = v
  BY <1>4 DEF NotesInv, CallsInv
<1>6. Stored' = Stored /\ Local' = Local /\ Local \in Nat
  BY <1>4, NotesStay, StoreIs DEF NotesInv
<1>7. OwnNoteInv(o)'
  <2>1. \A m \in Stored : m.id \notin OwnNotes(o)
    BY <1>4 DEF NotesInv, NoteInv, OwnNoteInv
  <2> QED
    BY <1>2, <1>3, <1>5, <1>6, <2>1 DEF OwnNoteInv, OwnNotes
<1>8. ~ mixed /\ Quiet => OpFits(o)'
  <2>1. ~ mixed /\ Quiet => Local <= pool
    BY DEF NotesInv, CalmInv
  <2> QED
    BY <1>1, <1>2, <1>3, <1>4, <1>5, <1>6, <2>1 DEF OpFits
<1>9. pool' \in Nat
  BY <1>1, <1>4
<1> QED
  BY <1>3, <1>4, <1>7, <1>8, <1>9, OpBegins

LEMMA PlanKeeps ==
  ASSUME NotesInv, NEW o \in Op, NEW a \in Amount, PlanSpend(o, a)
  PROVE  NotesInv'
<1> DEFINE plan == Covering(a)
           v == [IdleOp EXCEPT !.pc = "planned", !.amount = a, !.items = plan]
<1>1. a \in Nat /\ a > 0 /\ Local >= a /\ StoreInv
  BY NotesAssumption DEF PlanSpend, NotesInv
<1>2. plan \in Plans /\ PlanOk(plan, a) /\ Range(plan) \subseteq Shown
  BY <1>1, CoveringIs
<1> HIDE DEF plan
<1>3. v \in OpCall /\ v.pc = "planned" /\ v.amount = a /\ v.items = plan
  BY <1>1, <1>2, CallsAre DEF IdleOp
<1> HIDE DEF v
<1>4. /\ ops' = [ops EXCEPT ![o] = v] /\ ops[o].pc = "idle" /\ Begins /\ pool' = pool
      /\ recovery' = [recovery EXCEPT !.alone = FALSE] /\ UNCHANGED <<store, index>>
  BY DEF PlanSpend, v, plan
<1>5. ops'[o] = v
  BY <1>4 DEF NotesInv, CallsInv
<1>6. Stored' = Stored /\ Local' = Local /\ Shown' = Shown
  BY <1>1, <1>4, NotesStay
<1>7. OwnNoteInv(o)'
  <2>1. \A m \in Stored : m.id \notin OwnNotes(o)
    BY <1>4 DEF NotesInv, NoteInv, OwnNoteInv
  <2> QED
    BY <1>3, <1>5, <1>6, <2>1 DEF OwnNoteInv
<1>8. ~ mixed /\ Quiet => OpFits(o)'
  <2>1. ~ mixed /\ Quiet => Local <= pool
    BY DEF NotesInv, CalmInv
  <2> QED
    BY <1>2, <1>3, <1>4, <1>5, <1>6, <2>1 DEF OpFits
<1>9. pool' \in Nat
  BY <1>1, <1>4 DEF StoreInv
<1> QED
  BY <1>2, <1>3, <1>4, <1>7, <1>8, <1>9, OpBegins

\* The fields of a call, and one of them replaced.
LEMMA CallIs ==
  \A c \in OpCall :
    /\ c.pc \in {"idle", "planned", "commit", "save", "index", "done"}
    /\ c.amount \in Nat /\ c.items \in Plans /\ c.note \in NoteRecord \cup {None} /\ c.seen \in SUBSET NoteId
    /\ [c EXCEPT !.pc = "commit"] \in OpCall
    /\ \A a \in Nat, plan \in Plans : [c EXCEPT !.amount = a, !.items = plan] \in OpCall
    /\ \A seen \in SUBSET NoteId : [c EXCEPT !.pc = "index", !.seen = seen] \in OpCall
BY DEF OpCall

LEMMA NativeKeeps ==
  ASSUME NotesInv, NEW o \in Op, NativeSpend(o)
  PROVE  NotesInv'
<1> DEFINE v == [ops[o] EXCEPT !.pc = "commit"]
<1>1. ops[o] \in OpCall /\ ops[o].amount \in Nat /\ pool \in Nat /\ StoreInv
  BY CallIs DEF NotesInv, CallsInv, StoreInv
<1>2. v \in OpCall /\ v.pc = "commit" /\ v.amount = ops[o].amount /\ v.items = ops[o].items
  BY <1>1, CallIs DEF OpCall
<1>3. /\ ops[o].pc = "planned" /\ ops[o].amount <= pool /\ pool' = pool - ops[o].amount
      /\ ops' = [ops EXCEPT ![o] = v] /\ UNCHANGED <<store, index, recovery, mixed, upsets>>
  BY DEF NativeSpend
<1> HIDE DEF v
<1>4. ops'[o] = v
  BY <1>3 DEF NotesInv, CallsInv
<1>5. Stored' = Stored /\ Local' = Local /\ Shown' = Shown /\ Local \in Nat
  BY <1>1, <1>3, NotesStay, StoreIs
<1>6. OwnNoteInv(o)'
  <2>1. \A m \in Stored : m.id \notin OwnNotes(o)
    BY <1>3 DEF NotesInv, NoteInv, OwnNoteInv
  <2> QED
    BY <1>2, <1>4, <1>5, <2>1 DEF OwnNoteInv
<1>7. PlanOk(v.items, v.amount)
  BY <1>2, <1>3 DEF NotesInv, PlanInv
<1>8. ~ mixed => OpFits(o)'
  <2>1. ~ mixed => Range(ops[o].items) \subseteq Shown /\ Local <= pool
    BY <1>3 DEF NotesInv, CalmInv, OpFits
  <2> QED
    BY <1>1, <1>2, <1>3, <1>4, <1>5, <2>1 DEF OpFits
<1>9. StoreInv'
  BY <1>1, <1>3, <1>5 DEF StoreInv
<1> QED
  BY <1>2, <1>3, <1>5, <1>6, <1>7, <1>8, <1>9, OpStep DEF Running

LEMMA FailKeeps ==
  ASSUME NotesInv, NEW o \in Op, SpendFails(o)
  PROVE  NotesInv'
<1> DEFINE v == [IdleOp EXCEPT !.pc = "done"]
<1>1. /\ ops[o].pc = "planned" /\ ops' = [ops EXCEPT ![o] = v]
      /\ UNCHANGED <<pool, store, index, recovery, mixed, upsets>>
  BY DEF SpendFails
<1>2. v \in OpCall /\ v.pc = "done"
  BY CallsAre DEF IdleOp
<1> HIDE DEF v
<1>3. ops'[o] = v
  BY <1>1 DEF NotesInv, CallsInv
<1>4. Stored' = Stored /\ Local' = Local
  BY <1>1, NotesStay DEF NotesInv
<1>5. OwnNoteInv(o)'
  BY <1>2, <1>3 DEF OwnNoteInv
<1>6. ~ mixed => OpFits(o)' /\ Local' <= pool'
  BY <1>1, <1>2, <1>3, <1>4 DEF NotesInv, CalmInv, OpFits
<1>7. StoreInv'
  BY <1>1, <1>4 DEF NotesInv, StoreInv
<1> QED
  BY <1>1, <1>2, <1>4, <1>5, <1>6, <1>7, OpStep DEF Running

LEMMA SaveKeeps ==
  ASSUME NotesInv, NEW o \in Op, SaveNote(o)
  PROVE  NotesInv'
<1> DEFINE n == ops[o].note
           v == [ops[o] EXCEPT !.pc = "index", !.seen = index]
<1>1. /\ ops[o].pc = "save" /\ store' = Put(n)
      /\ UNCHANGED <<pool, index, recovery, mixed, upsets>>
  BY DEF SaveNote
<1>2. ops' = [ops EXCEPT ![o] = v]
  BY DEF SaveNote, NotesInv, CallsInv
<1>3. n \in NoteRecord /\ n.id \in OwnNotes(o) /\ ~ n.spent /\ \A m \in Stored : m.id \notin OwnNotes(o)
  BY <1>1 DEF NotesInv, NoteInv, OwnNoteInv
<1>4. ops[o] \in OpCall /\ StoreInv /\ index \subseteq Ids(Stored) /\ Ids(Stored) \subseteq NoteId
  BY IdsAre DEF NotesInv, CallsInv, StoreInv
<1>5. v \in OpCall /\ v.pc = "index" /\ v.note = n /\ v.seen = index
  BY <1>4, CallIs DEF OpCall
<1>6. n.id \notin Ids(Stored)
  BY <1>3 DEF Ids
<1> HIDE DEF n, v
<1>7. ops'[o] = v
  BY <1>2 DEF NotesInv, CallsInv
<1>8. /\ StoreInv' /\ Ids(Stored') = Ids(Stored) \cup {n.id} /\ n \in Stored' /\ Shown' = Shown
  <2>1. pool' \in Nat /\ mixed' \in BOOLEAN /\ upsets' \in 0 .. MaxUpsets
    BY <1>1, <1>4 DEF StoreInv
  <2> QED
    BY <1>1, <1>3, <1>4, <1>6, <2>1, PutStored
<1>9. OwnNoteInv(o)'
  BY <1>3, <1>4, <1>5, <1>7, <1>8 DEF OwnNoteInv
<1>10. ~ mixed => OpFits(o)'
  <2>1. ~ mixed => Local + n.amount <= pool
    BY <1>1 DEF NotesInv, CalmInv, OpFits, n
  <2>2. Local' = Local
    BY <1>8 DEF Local
  <2> QED
    BY <1>1, <1>4, <1>5, <1>6, <1>7, <1>8, <2>1, <2>2 DEF OpFits
<1>11. Running(o) /\ v.pc \notin {"idle", "done", "planned", "commit"}
  BY <1>1, <1>5 DEF Running
<1> QED
  BY <1>1, <1>2, <1>3, <1>5, <1>8, <1>9, <1>10, <1>11, OpStep

LEMMA ListKeeps ==
  ASSUME NotesInv, NEW o \in Op, ListNote(o)
  PROVE  NotesInv'
<1> DEFINE n == ops[o].note
           seen == ops[o].seen
           v == [IdleOp EXCEPT !.pc = "done"]
<1>1. /\ ops[o].pc = "index" /\ index' = seen \cup {n.id} /\ ops' = [ops EXCEPT ![o] = v]
      /\ UNCHANGED <<pool, store, recovery, mixed, upsets>>
  BY DEF ListNote
<1>2. n \in NoteRecord /\ ~ n.spent /\ n.id \in Ids(Stored) /\ seen \subseteq Ids(Stored)
  BY <1>1 DEF NotesInv, NoteInv, OwnNoteInv
<1>3. ~ mixed => seen = index /\ n \in Stored /\ n.id \notin index /\ Local + n.amount <= pool
  BY <1>1 DEF NotesInv, CalmInv, OpFits
<1>4. v \in OpCall /\ v.pc = "done"
  BY CallsAre DEF IdleOp
<1> HIDE DEF n, seen, v
<1>5. ops'[o] = v
  BY <1>1 DEF NotesInv, CallsInv
<1>6. /\ StoreInv' /\ Stored' = Stored
      /\ ~ mixed => Shown' = Shown \cup {n} /\ n \notin Shown
  <2>1. StoreInv /\ pool' \in Nat /\ mixed' \in BOOLEAN /\ upsets' \in 0 .. MaxUpsets
    BY <1>1 DEF NotesInv, StoreInv
  <2> QED
    BY <1>1, <1>2, <1>3, <2>1, ListStored
<1>7. OwnNoteInv(o)'
  BY <1>4, <1>5 DEF OwnNoteInv
<1>8. ~ mixed => OpFits(o)' /\ Local' <= pool'
  <2> SUFFICES ASSUME ~ mixed
               PROVE  OpFits(o)' /\ Local' <= pool'
    OBVIOUS
  <2>1. Local' = Local + n.amount
    BY <1>2, <1>6, StoreIs, SumOfMore DEF Local, NotesInv
  <2> QED
    BY <1>1, <1>3, <1>4, <1>5, <2>1 DEF OpFits
<1> QED
  BY <1>1, <1>4, <1>6, <1>7, <1>8, OpStep DEF Running

\* A note of the plan is written down.
LEMMA CommitKeeps ==
  ASSUME NotesInv, NEW o \in Op, CommitNote(o)
  PROVE  NotesInv'
<1> DEFINE plan == ops[o].items
           amount == ops[o].amount
           n == plan[Newest(plan)]
           left == amount - n.amount
           v == IF left < 0 THEN [IdleOp EXCEPT !.pc = "save", !.note = NewNote(Chg(o), - left)]
                ELSE IF left = 0 THEN [IdleOp EXCEPT !.pc = "done"]
                ELSE [ops[o] EXCEPT !.amount = left, !.items = Rest(plan)]
<1>1. /\ ops[o].pc = "commit" /\ UNCHANGED <<pool, recovery, mixed, upsets>>
      /\ store' = Marked(n.id) /\ index' = index \cup ({n.id} \cap Ids(Stored))
  BY DEF CommitNote, Marked, Stored
<1>2. ops' = [ops EXCEPT ![o] = v]
  BY DEF CommitNote, NotesInv, CallsInv
<1>3. ops[o] \in OpCall /\ plan \in Plans /\ amount \in Nat /\ StoreInv /\ pool \in Nat
  BY CallIs DEF NotesInv, CallsInv, StoreInv
<1>4. PlanOk(plan, amount) /\ \A m \in Stored : m.id \notin OwnNotes(o)
  BY <1>1 DEF NotesInv, PlanInv, NoteInv, OwnNoteInv
<1>5. ~ mixed => Range(plan) \subseteq Shown /\ Local <= pool + amount
  BY <1>1 DEF NotesInv, CalmInv, OpFits
<1> HIDE DEF plan, amount
<1>6. /\ n \in NoteRecord /\ n \in Range(plan) /\ Rest(plan) \in Plans
      /\ Range(Rest(plan)) \subseteq {m \in Range(plan) : m.id # n.id}
      /\ \A l \in Nat \ {0} : amount = n.amount + l => PlanOk(Rest(plan), l)
  BY <1>3, <1>4, RestIs
<1> HIDE DEF n
<1>7. n.id \in NoteId /\ n.amount \in Nat /\ left \in Int
  BY <1>3, <1>6, RecordIs
<1>8. /\ StoreInv' /\ Ids(Stored') = Ids(Stored)
      /\ Shown' = {m \in Shown : m.id # n.id}
  <2>1. pool' \in Nat /\ mixed' \in BOOLEAN /\ upsets' \in 0 .. MaxUpsets
    BY <1>1, <1>3 DEF StoreInv
  <2> QED
    BY <1>1, <1>3, <1>7, <2>1, MarkStored
<1>9. ~ mixed => Local' \in Nat /\ Local' <= pool + left /\ Range(Rest(plan)) \subseteq Shown'
  <2> SUFFICES ASSUME ~ mixed
               PROVE  Local' \in Nat /\ Local' <= pool + left /\ Range(Rest(plan)) \subseteq Shown'
    OBVIOUS
  <2>1. n \in Shown /\ \A m \in Shown : m.id = n.id => m = n
    BY <1>3, <1>5, <1>6, StoreIs
  <2>2. Shown' = Shown \ {n}
    BY <1>8, <2>1
  <2>3. SumOf(Shown) = n.amount + SumOf(Shown \ {n}) /\ Local \in Nat
    BY <1>3, <2>1, StoreIs, SumOfIs
  <2>4. Local = n.amount + Local'
    BY <2>2, <2>3 DEF Local
  <2>5. Local' \in Nat
    <3>1. IsFiniteSet(Shown \ {n}) /\ Shown \ {n} \subseteq NoteRecord
      BY <1>3, StoreIs, FS_Subset
    <3>2. SumOf(Shown \ {n}) \in Nat
      BY <3>1, SumOfIs
    <3> QED
      BY <2>2, <3>2 DEF Local
  <2>6. Local' <= pool + left
    BY <1>3, <1>5, <1>7, <2>3, <2>4, <2>5
  <2> QED
    BY <1>5, <1>6, <1>8, <2>5, <2>6
<1>10. CASE left < 0
  <2> DEFINE change == NewNote(Chg(o), - left)
  <2>1. change \in NoteRecord /\ change.id = Chg(o) /\ change.amount = - left /\ ~ change.spent
    BY <1>7, <1>10 DEF NewNote, NoteRecord
  <2> HIDE DEF change
  <2>2. v = [IdleOp EXCEPT !.pc = "save", !.note = change]
    BY <1>10 DEF change
  <2>3. v \in OpCall /\ v.pc = "save" /\ v.note = change
    BY <2>1, <2>2, CallsAre DEF IdleOp
  <2> HIDE DEF v, left
  <2>4. ops'[o] = v
    BY <1>2 DEF NotesInv, CallsInv
  <2>5. OwnNoteInv(o)'
    <3>1. \A m \in Stored' : m.id \notin OwnNotes(o)
      BY <1>4, <1>8 DEF Ids
    <3> QED
      BY <2>1, <2>3, <2>4, <3>1 DEF OwnNoteInv, OwnNotes
  <2>6. ~ mixed => OpFits(o)'
    <3>1. ~ mixed => Local' + change.amount <= pool'
      BY <1>1, <1>3, <1>7, <1>9, <2>1
    <3> QED
      BY <2>3, <2>4, <3>1 DEF OpFits
  <2> QED
    BY <1>1, <1>2, <1>8, <2>3, <2>5, <2>6, OpStep DEF Running
<1>11. CASE left = 0
  <2>1. v = [IdleOp EXCEPT !.pc = "done"]
    BY <1>11
  <2>2. v \in OpCall /\ v.pc = "done"
    BY <2>1, CallsAre DEF IdleOp
  <2> HIDE DEF v
  <2>3. ops'[o] = v
    BY <1>2 DEF NotesInv, CallsInv
  <2>4. OwnNoteInv(o)'
    BY <2>2, <2>3 DEF OwnNoteInv
  <2>5. ~ mixed => OpFits(o)' /\ Local' <= pool'
    BY <1>1, <1>3, <1>9, <1>11, <2>2, <2>3 DEF OpFits
  <2> QED
    BY <1>1, <1>2, <1>8, <2>2, <2>4, <2>5, OpStep DEF Running
<1>12. CASE left > 0
  <2>1. left \in Nat \ {0} /\ amount = n.amount + left
    BY <1>3, <1>7, <1>12
  <2>2. v = [ops[o] EXCEPT !.amount = left, !.items = Rest(plan)]
    BY <1>7, <1>12
  <2> HIDE DEF left, v
  <2>3. v \in OpCall /\ v.pc = "commit" /\ v.amount = left /\ v.items = Rest(plan)
    BY <1>1, <1>3, <1>6, <2>1, <2>2, CallIs DEF OpCall
  <2>4. ops'[o] = v
    BY <1>2 DEF NotesInv, CallsInv
  <2>5. OwnNoteInv(o)'
    <3>1. \A m \in Stored' : m.id \notin OwnNotes(o)
      BY <1>4, <1>8 DEF Ids
    <3> QED
      BY <2>3, <2>4, <3>1 DEF OwnNoteInv
  <2>6. PlanOk(v.items, v.amount)
    BY <1>6, <2>1, <2>3
  <2>7. ~ mixed => OpFits(o)'
    BY <1>1, <1>9, <2>3, <2>4 DEF OpFits
  <2> QED
    BY <1>1, <1>2, <1>8, <2>3, <2>5, <2>6, <2>7, OpStep DEF Running
<1> QED
  BY <1>7, <1>10, <1>11, <1>12

-----------------------------------------------------------------------------
(* Recovery.                                                               *)

LEMMA RecoveryIs ==
  /\ IdleRecovery \in RecoveryCall
  /\ \A r \in RecoveryCall :
       /\ r.pc \in {"idle", "sync", "save", "index"} /\ r.real \in BOOLEAN /\ r.local \in Nat
       /\ r.native \in Nat /\ r.note \in NoteRecord \cup {None} /\ r.seen \in SUBSET NoteId
       /\ \A native \in Nat, n \in NoteRecord :
            [r EXCEPT !.pc = "save", !.native = native, !.note = n] \in RecoveryCall
       /\ \A seen \in SUBSET NoteId : [r EXCEPT !.pc = "index", !.seen = seen] \in RecoveryCall
BY DEF IdleRecovery, RecoveryCall

\* A recovery that goes on, or ends, disturbs no call.
LEMMA RecoveryStep ==
  ASSUME NotesInv, Recovering, recovery' \in RecoveryCall, UNCHANGED <<pool, ops, mixed, upsets>>,
         StoreInv', Ids(Stored) \subseteq Ids(Stored'), Ids(Stored') \subseteq Ids(Stored) \cup {Recover},
         RowInv', RecoveryInv',
         ~ mixed => /\ recovery'.pc \in {"idle", "sync"} => Local' <= pool
                    /\ recovery'.pc \in {"save", "index"} => recovery'.native <= pool
  PROVE  NotesInv'
<1>1. CallsInv' /\ PlanInv'
  BY DEF NotesInv, CallsInv, PlanInv
<1>2. ASSUME NEW o \in Op
      PROVE  OwnNoteInv(o)'
  <2>1. OwnNoteInv(o)
    BY DEF NotesInv, NoteInv
  <2>2. ASSUME NEW n \in Stored', n.id \in OwnNotes(o)
        PROVE  ops[o].pc \in {"index", "done"}
    <3>1. n.id \in Ids(Stored') /\ n.id # Recover
      BY <2>2, IdsDiffer DEF Ids
    <3>2. PICK m \in Stored : m.id = n.id
      BY <3>1 DEF Ids
    <3> QED
      BY <2>1, <2>2, <3>2 DEF OwnNoteInv
  <2> QED
    BY <2>1, <2>2 DEF OwnNoteInv
<1>3. CalmInv'
  <2> SUFFICES ASSUME ~ mixed
               PROVE  CalmInv'
    BY DEF CalmInv
  <2>1. \A o \in Op : ~ Running(o)
    BY DEF NotesInv, RecoveryInv
  <2>2. \A o \in Op : ~ Running(o)' /\ OpFits(o)'
    BY <2>1 DEF Running, OpFits
  <2> QED
    BY <2>2 DEF CalmInv, Quiet, Recovering
<1> QED
  BY <1>1, <1>2, <1>3 DEF NotesInv, NoteInv

LEMMA BeginKeeps ==
  ASSUME NotesInv, BeginRecover
  PROVE  NotesInv'
<1>1. /\ ~ Recovering /\ mixed' = (mixed \/ ~ Quiet) /\ UNCHANGED <<pool, store, index, ops, upsets>>
      /\ recovery' = [IdleRecovery EXCEPT !.pc = "sync", !.real = \E n \in Shown : IsReal(n),
                                          !.local = Local, !.alone = Quiet]
  BY DEF BeginRecover, Begins
<1>2. StoreInv /\ Local \in Nat /\ mixed \in BOOLEAN
  BY StoreIs DEF NotesInv, StoreInv
<1> DEFINE real == \E n \in Shown : IsReal(n)
           quiet == Quiet
<1>3. real \in BOOLEAN /\ quiet \in BOOLEAN
  BY Zenon DEF Quiet
<1> HIDE DEF real, quiet
<1>4. /\ recovery' \in RecoveryCall /\ recovery'.pc = "sync" /\ recovery'.local = Local
      /\ recovery'.real = real /\ recovery'.alone = quiet
  <2>1. recovery' = [IdleRecovery EXCEPT !.pc = "sync", !.real = real, !.local = Local, !.alone = quiet]
    BY <1>1 DEF real, quiet
  <2>2. None \in NoteRecord \cup {None} /\ {} \in SUBSET NoteId /\ 0 \in Nat
    OBVIOUS
  <2> QED
    BY <1>2, <1>3, <2>1, <2>2 DEF IdleRecovery, RecoveryCall
<1>5. Stored' = Stored /\ Shown' = Shown /\ Local' = Local
  BY <1>1, <1>2, NotesStay
<1>6. StoreInv'
  BY <1>1, <1>2, <1>3, <1>5 DEF StoreInv, quiet
<1>7. CallsInv' /\ PlanInv'
  BY <1>1, <1>4 DEF NotesInv, CallsInv, PlanInv
<1>8. NoteInv'
  BY <1>1, <1>4, <1>5 DEF NotesInv, NoteInv, RowInv, OwnNoteInv
<1>9. (~ mixed' \/ recovery'.alone) => \A o \in Op : ~ Running(o)'
  BY <1>1, <1>4 DEF Quiet, Running, quiet
<1>10. RecoveryInv'
  BY <1>4, <1>5, <1>9 DEF RecoveryInv, real
<1>11. CalmInv'
  <2> SUFFICES ASSUME ~ mixed'
               PROVE  CalmInv'
    BY DEF CalmInv
  <2>1. Local <= pool
    BY <1>1 DEF NotesInv, CalmInv
  <2>2. \A o \in Op : OpFits(o)'
    BY <1>9 DEF OpFits, Running
  <2> QED
    BY <1>1, <1>4, <1>5, <1>9, <2>1, <2>2 DEF CalmInv
<1> QED
  BY <1>6, <1>7, <1>8, <1>10, <1>11 DEF NotesInv

LEMMA ReadKeeps ==
  ASSUME NotesInv, ReadNative
  PROVE  NotesInv'
<1> DEFINE n == NewNote(Recover, Missing(recovery))
<1>1. /\ recovery.pc = "sync" /\ pool > 0 /\ (recovery.real => pool > recovery.local)
      /\ recovery' = [recovery EXCEPT !.pc = "save", !.native = pool, !.note = n]
      /\ UNCHANGED <<pool, store, index, ops, mixed, upsets>>
  BY DEF ReadNative
<1>2. recovery \in RecoveryCall /\ recovery.local \in Nat /\ pool \in Nat /\ StoreInv
  BY RecoveryIs DEF NotesInv, CallsInv, StoreInv
<1>3. /\ n \in NoteRecord /\ n.id = Recover /\ ~ n.spent
      /\ recovery.real => n.amount = pool - recovery.local
      /\ ~ recovery.real => n.amount = pool
  BY <1>1, <1>2 DEF NewNote, NoteRecord, Missing
<1> HIDE DEF n
<1>4. /\ recovery' \in RecoveryCall /\ recovery'.pc = "save" /\ recovery'.native = pool
      /\ recovery'.note = n /\ recovery'.real = recovery.real /\ recovery'.alone = recovery.alone
  BY <1>1, <1>2, <1>3, RecoveryIs DEF RecoveryCall
<1>5. Stored' = Stored /\ Shown' = Shown /\ Local' = Local /\ Local \in Nat
  BY <1>1, <1>2, NotesStay, StoreIs
<1>6. StoreInv'
  BY <1>1, <1>2, <1>5 DEF StoreInv
<1>7. RowInv'
  BY <1>3, <1>4 DEF RowInv
<1>8. RecoveryInv'
  <2> SUFFICES ASSUME ~ mixed \/ recovery.alone
               PROVE  RecoveryInv'
    BY <1>1, <1>4 DEF RecoveryInv
  <2>1. /\ \A o \in Op : ~ Running(o)
        /\ recovery.local = Local /\ (recovery.real <=> \E m \in Shown : IsReal(m))
    BY <1>1 DEF NotesInv, RecoveryInv, Recovering
  <2>2. \A o \in Op : ~ Running(o)'
    BY <1>1, <2>1 DEF Running
  <2>3. recovery.real => Local' + n.amount = pool
    BY <1>2, <1>3, <1>5, <2>1
  <2> QED
    BY <1>3, <1>4, <1>5, <2>1, <2>2, <2>3 DEF RecoveryInv
<1> QED
  BY <1>1, <1>2, <1>4, <1>5, <1>6, <1>7, <1>8, RecoveryStep DEF Recovering

LEMMA EndKeeps ==
  ASSUME NotesInv, EndRecover
  PROVE  NotesInv'
<1>1. /\ recovery.pc = "sync" /\ recovery' = IdleRecovery
      /\ UNCHANGED <<pool, store, index, ops, mixed, upsets>>
  BY DEF EndRecover
<1>2. recovery' \in RecoveryCall /\ recovery'.pc = "idle"
  BY <1>1, RecoveryIs DEF IdleRecovery
<1>3. Stored' = Stored /\ Local' = Local
  BY <1>1, NotesStay DEF NotesInv
<1>4. StoreInv' /\ RowInv' /\ RecoveryInv'
  BY <1>1, <1>2, <1>3 DEF NotesInv, StoreInv, RowInv, RecoveryInv, Recovering
<1>5. ~ mixed => Local' <= pool
  BY <1>1, <1>3 DEF NotesInv, CalmInv
<1> QED
  BY <1>1, <1>2, <1>3, <1>4, <1>5, RecoveryStep DEF Recovering

\* What is shown once the row of a recovery nobody overlaps is saved.
LEMMA RowSaved ==
  ASSUME NotesInv, SaveRow, ~ mixed \/ recovery.alone
  PROVE  /\ Recover \in index => Local' \in Nat /\ Local' <= recovery.native
         /\ Recover \in index /\ (~ recovery.real \/ ~ \E n \in Shown : n.id = Recover) =>
              Local' = recovery.native
         /\ Recover \notin index => Local' + recovery.note.amount = recovery.native
<1> DEFINE n == recovery.note
           rest == {m \in Shown : m.id # n.id}
<1>1. /\ recovery.pc = "save" /\ store' = Put(n) /\ UNCHANGED <<pool, index, ops, mixed, upsets>>
  BY DEF SaveRow
<1>2. n \in NoteRecord /\ n.id = Recover /\ ~ n.spent /\ n.amount \in Nat
  BY <1>1, RecordIs DEF NotesInv, NoteInv, RowInv
<1>3. /\ recovery.real => Local + n.amount = recovery.native
      /\ ~ recovery.real => n.amount = recovery.native /\ \A m \in Shown : ~ IsReal(m)
  BY <1>1 DEF NotesInv, RecoveryInv, Recovering
<1>4. StoreInv /\ Local \in Nat /\ IsFiniteSet(Shown) /\ Shown \subseteq NoteRecord
  BY StoreIs DEF NotesInv
<1>5. /\ Recover \in index => Shown' = rest \cup {n}
      /\ Recover \notin index => Shown' = Shown
  <2>1. pool' \in Nat /\ mixed' \in BOOLEAN /\ upsets' \in 0 .. MaxUpsets
    BY <1>1, <1>4 DEF StoreInv
  <2> HIDE DEF n
  <2> QED
    BY <1>1, <1>2, <1>4, <2>1, PutStored
<1> HIDE DEF n
<1>6. IsFiniteSet(rest) /\ rest \subseteq NoteRecord /\ n \notin rest /\ rest \subseteq Shown
  BY <1>4, FS_Subset
<1> HIDE DEF rest
<1>7. SumOf(rest) \in Nat /\ SumOf(rest) <= Local /\ SumOf(rest \cup {n}) = SumOf(rest) + n.amount
  <2>1. SumOf(rest) \in Nat
    BY <1>6, SumOfIs
  <2>2. SumOf(rest) <= Local
    BY <1>4, <1>6, SumOfIs DEF Local
  <2>3. SumOf(rest \cup {n}) = SumOf(rest) + n.amount
    BY <1>2, <1>6, SumOfMore
  <2> QED
    BY <2>1, <2>2, <2>3
<1>8. ~ recovery.real => SumOf(rest) = 0
  <2>1. ~ recovery.real => rest = {}
    BY <1>2, <1>3 DEF rest, IsReal
  <2> QED
    BY <2>1, NoNotes
<1>9. ASSUME Recover \in index
      PROVE  /\ Local' \in Nat /\ Local' <= recovery.native
             /\ (~ recovery.real \/ ~ \E m \in Shown : m.id = Recover) => Local' = recovery.native
  <2>1. Local' = SumOf(rest) + n.amount
    BY <1>5, <1>7, <1>9 DEF Local
  <2>2. CASE recovery.real
    <3>1. Local' \in Nat /\ Local' <= recovery.native
      BY <1>2, <1>3, <1>4, <1>7, <2>1, <2>2
    <3>2. (~ \E m \in Shown : m.id = Recover) => rest = Shown
      BY <1>2 DEF rest
    <3> QED
      BY <1>3, <2>1, <2>2, <3>1, <3>2 DEF Local
  <2>3. CASE ~ recovery.real
    BY <1>2, <1>3, <1>8, <2>1, <2>3
  <2> QED
    BY <2>2, <2>3
<1>10. ASSUME Recover \notin index
       PROVE  Local' + n.amount = recovery.native
  <2>1. Local' = Local
    BY <1>5, <1>10 DEF Local
  <2>2. CASE recovery.real
    BY <1>3, <2>1, <2>2
  <2>3. CASE ~ recovery.real
    <3>1. rest = Shown
      BY <1>2, <1>10 DEF rest, Shown
    <3>2. Local = 0
      BY <1>8, <2>3, <3>1 DEF Local
    <3> QED
      BY <1>2, <1>3, <2>1, <2>3, <3>2
  <2> QED
    BY <2>2, <2>3
<1> QED
  BY <1>9, <1>10 DEF n

LEMMA SaveRowKeeps ==
  ASSUME NotesInv, SaveRow
  PROVE  NotesInv'
<1> DEFINE n == recovery.note
<1>1. /\ recovery.pc = "save" /\ store' = Put(n) /\ UNCHANGED <<pool, index, ops, mixed, upsets>>
      /\ recovery' = IF Recover \in index THEN IdleRecovery
                     ELSE [recovery EXCEPT !.pc = "index", !.seen = index]
  BY DEF SaveRow
<1>2. n \in NoteRecord /\ n.id = Recover /\ ~ n.spent
  BY <1>1 DEF NotesInv, NoteInv, RowInv
<1>3. /\ StoreInv /\ recovery \in RecoveryCall /\ recovery.native \in Nat /\ pool \in Nat
      /\ index \subseteq Ids(Stored) /\ Ids(Stored) \subseteq NoteId
  BY IdsAre, RecoveryIs DEF NotesInv, CallsInv, StoreInv
<1> HIDE DEF n
<1>4. /\ StoreInv' /\ Ids(Stored') = Ids(Stored) \cup {Recover} /\ n \in Stored'
      /\ Recover \notin index => Shown' = Shown
  <2>1. pool' \in Nat /\ mixed' \in BOOLEAN /\ upsets' \in 0 .. MaxUpsets
    BY <1>1, <1>3 DEF StoreInv
  <2> QED
    BY <1>1, <1>2, <1>3, <2>1, PutStored
<1>5. ~ mixed => recovery.native <= pool
  BY <1>1 DEF NotesInv, CalmInv
<1>6. CASE Recover \in index
  <2>1. recovery' \in RecoveryCall /\ recovery'.pc = "idle"
    BY <1>1, <1>6, RecoveryIs DEF IdleRecovery
  <2>2. RowInv' /\ RecoveryInv'
    BY <2>1 DEF RowInv, RecoveryInv, Recovering
  <2>3. ~ mixed => Local' <= pool
    BY <1>3, <1>5, <1>6, RowSaved
  <2> QED
    BY <1>1, <1>4, <2>1, <2>2, <2>3, RecoveryStep DEF Recovering
<1>7. CASE Recover \notin index
  <2>1. recovery' = [recovery EXCEPT !.pc = "index", !.seen = index]
    BY <1>1, <1>7
  <2>2. /\ recovery' \in RecoveryCall /\ recovery'.pc = "index" /\ recovery'.seen = index
        /\ recovery'.note = n /\ recovery'.native = recovery.native /\ recovery'.alone = recovery.alone
    BY <1>3, <2>1, RecoveryIs DEF RecoveryCall, n
  <2>3. RowInv'
    BY <1>2, <1>3, <1>4, <2>2 DEF RowInv
  <2>4. RecoveryInv'
    <3> SUFFICES ASSUME ~ mixed \/ recovery.alone
                 PROVE  RecoveryInv'
      BY <1>1, <2>2 DEF RecoveryInv
    <3>1. \A o \in Op : ~ Running(o)
      BY <1>1 DEF NotesInv, RecoveryInv, Recovering
    <3>2. \A o \in Op : ~ Running(o)'
      BY <1>1, <3>1 DEF Running
    <3>3. Local' + n.amount = recovery.native
      BY <1>7, RowSaved DEF n
    <3> QED
      BY <1>1, <1>4, <1>7, <2>2, <3>2, <3>3 DEF RecoveryInv
  <2> QED
    BY <1>1, <1>4, <1>5, <2>2, <2>3, <2>4, RecoveryStep DEF Recovering
<1> QED
  BY <1>6, <1>7

\* What is shown once that row is listed.
LEMMA RowIsListed ==
  ASSUME NotesInv, ListRow
  PROVE  /\ StoreInv' /\ Stored' = Stored
         /\ ~ mixed \/ recovery.alone => Local' = recovery.native
<1> DEFINE n == recovery.note
           seen == recovery.seen
<1>1. /\ recovery.pc = "index" /\ index' = seen \cup {Recover} /\ UNCHANGED <<pool, store, mixed, upsets>>
  BY DEF ListRow
<1>2. /\ n \in NoteRecord /\ n.id = Recover /\ ~ n.spent
      /\ Recover \in Ids(Stored) /\ seen \subseteq Ids(Stored) /\ StoreInv
  BY <1>1 DEF NotesInv, NoteInv, RowInv
<1>3. ~ mixed \/ recovery.alone =>
        seen = index /\ n \in Stored /\ Recover \notin index /\ Local + n.amount = recovery.native
  BY <1>1 DEF NotesInv, RecoveryInv, Recovering
<1> HIDE DEF n, seen
<1>4. /\ StoreInv' /\ Stored' = Stored
      /\ ~ mixed \/ recovery.alone => Shown' = Shown \cup {n} /\ n \notin Shown
  <2>1. pool' \in Nat /\ mixed' \in BOOLEAN /\ upsets' \in 0 .. MaxUpsets
    BY <1>1, <1>2 DEF StoreInv
  <2> QED
    BY <1>1, <1>2, <1>3, <2>1, ListStored
<1>5. ASSUME ~ mixed \/ recovery.alone
      PROVE  Local' = recovery.native
  <2>1. Local' = Local + n.amount
    BY <1>2, <1>4, <1>5, StoreIs, SumOfMore DEF Local
  <2> QED
    BY <1>3, <1>5, <2>1
<1> QED
  BY <1>4, <1>5

LEMMA ListRowKeeps ==
  ASSUME NotesInv, ListRow
  PROVE  NotesInv'
<1>1. /\ recovery.pc = "index" /\ recovery' = IdleRecovery /\ UNCHANGED <<pool, ops, mixed, upsets>>
  BY DEF ListRow
<1>2. recovery' \in RecoveryCall /\ recovery'.pc = "idle"
  BY <1>1, RecoveryIs DEF IdleRecovery
<1>3. StoreInv' /\ Stored' = Stored /\ (~ mixed => Local' <= pool)
  <2>1. ~ mixed => recovery.native <= pool
    BY <1>1 DEF NotesInv, CalmInv
  <2> QED
    BY <2>1, RowIsListed
<1>4. RowInv' /\ RecoveryInv'
  BY <1>2 DEF RowInv, RecoveryInv, Recovering
<1> QED
  BY <1>1, <1>2, <1>3, <1>4, RecoveryStep DEF Recovering

-----------------------------------------------------------------------------
(* The world.                                                              *)

LEMMA ReceiveKeeps ==
  ASSUME NotesInv, NEW a \in Amount, Receive(a)
  PROVE  NotesInv'
<1>1. a \in Nat /\ pool \in Nat /\ upsets \in 0 .. MaxUpsets /\ MaxUpsets \in Nat
  BY NotesAssumption DEF NotesInv, StoreInv
<1>2. /\ pool' = pool + a /\ upsets < MaxUpsets /\ upsets' = upsets + 1
      /\ UNCHANGED <<store, index, ops, recovery, mixed>>
  BY DEF Receive, Upset
<1>3. Stored' = Stored /\ Shown' = Shown /\ Local' = Local /\ Local \in Nat
  BY <1>2, NotesStay, StoreIs DEF NotesInv
<1>4. StoreInv'
  BY <1>1, <1>2, <1>3 DEF NotesInv, StoreInv
<1>5. CallsInv' /\ PlanInv' /\ NoteInv'
  BY <1>2, <1>3 DEF NotesInv, CallsInv, PlanInv, NoteInv, RowInv, OwnNoteInv
<1>6. RecoveryInv'
  BY <1>2, <1>3 DEF NotesInv, RecoveryInv, Recovering, Running
<1>7. CalmInv'
  <2> SUFFICES ASSUME ~ mixed
               PROVE  CalmInv'
    BY <1>2 DEF CalmInv
  <2>1. \A o \in Op : ops[o] \in OpCall
    BY DEF NotesInv, CallsInv
  <2>2. \A o \in Op : OpFits(o)'
    <3> SUFFICES ASSUME NEW o \in Op
                 PROVE  OpFits(o)'
      OBVIOUS
    <3>1. OpFits(o) /\ ops'[o] = ops[o] /\ ops[o].amount \in Nat
      BY <1>2, <2>1, CallIs DEF NotesInv, CalmInv
    <3>2. ops[o].pc \in {"save", "index"} => ops[o].note.amount \in Nat
      BY RecordIs DEF NotesInv, NoteInv, OwnNoteInv
    <3> QED
      BY <1>1, <1>2, <1>3, <3>1, <3>2 DEF OpFits
  <2>3. recovery.native \in Nat
    BY RecoveryIs DEF NotesInv, CallsInv
  <2>4. /\ \A o, p \in Op : Running(o) /\ Running(p) => o = p
        /\ Quiet \/ recovery.pc = "sync" => Local <= pool
        /\ recovery.pc \in {"save", "index"} => recovery.native <= pool
    BY DEF NotesInv, CalmInv
  <2>5. Quiet' = Quiet /\ \A o \in Op : Running(o)' = Running(o)
    BY <1>2 DEF Quiet, Recovering, Running
  <2> QED
    BY <1>1, <1>2, <1>3, <2>2, <2>3, <2>4, <2>5 DEF CalmInv
<1> QED
  BY <1>4, <1>5, <1>6, <1>7 DEF NotesInv

\* The app stops: no call is left, of what is stored all or nothing.
LEMMA StopKeeps ==
  ASSUME NotesInv, Stop, UNCHANGED <<store, index>> \/ (store' = <<>> /\ index' = {})
  PROVE  NotesInv'
<1>1. pool \in Nat /\ upsets \in 0 .. MaxUpsets /\ MaxUpsets \in Nat /\ StoreInv
  BY NotesAssumption DEF NotesInv, StoreInv
<1>2. /\ upsets < MaxUpsets /\ upsets' = upsets + 1 /\ pool' = pool
      /\ recovery' = IdleRecovery /\ mixed' = (mixed \/ ~ Quiet)
      /\ ops' = [o \in Op |-> IF Running(o) THEN [IdleOp EXCEPT !.pc = "done"] ELSE ops[o]]
  BY DEF Stop, Upset
<1>3. Local \in Nat
  BY <1>1, StoreIs
<1>4. \/ Stored' = Stored /\ Local' = Local /\ index' = index /\ store' = store
      \/ Stored' = {} /\ Local' = 0 /\ index' = {} /\ store' = <<>>
  <2>1. CASE UNCHANGED <<store, index>>
    BY <1>1, <2>1, NotesStay
  <2>2. CASE store' = <<>> /\ index' = {}
    <3>1. Stored' = {}
      BY <2>2 DEF Stored, Range
    <3>2. Shown' = {}
      BY <3>1 DEF Shown, Stored
    <3> QED
      BY <2>2, <3>1, <3>2, NoNotes DEF Local
  <2> QED
    BY <2>1, <2>2
<1>5. StoreInv'
  <2>1. mixed' \in BOOLEAN /\ upsets' \in 0 .. MaxUpsets
    <3>1. mixed \in BOOLEAN /\ Quiet \in BOOLEAN
      BY <1>1, Zenon DEF StoreInv, Quiet
    <3> QED
      BY <1>1, <1>2, <3>1
  <2>2. CASE Stored' = Stored /\ index' = index /\ store' = store
    BY <1>1, <1>2, <2>1, <2>2 DEF StoreInv
  <2>3. CASE index' = {} /\ store' = <<>>
    <3>1. <<>> \in Seq(NoteRecord) /\ DOMAIN <<>> = {}
      OBVIOUS
    <3> QED
      BY <1>1, <1>2, <2>1, <2>3, <3>1 DEF StoreInv
  <2> QED
    BY <1>4, <2>2, <2>3
<1>6. /\ recovery' \in RecoveryCall /\ recovery'.pc = "idle"
      /\ [IdleOp EXCEPT !.pc = "done"] \in OpCall /\ [IdleOp EXCEPT !.pc = "done"].pc = "done"
  BY <1>2, RecoveryIs, CallsAre DEF IdleRecovery, IdleOp
<1>7. \A o \in Op :
        /\ ops[o] \in OpCall
        /\ \/ ops'[o] = ops[o] /\ ~ Running(o)
           \/ ops'[o] \in OpCall /\ ops'[o].pc = "done"
  BY <1>2, <1>6 DEF NotesInv, CallsInv
<1>8. CallsInv'
  BY <1>2, <1>6, <1>7 DEF CallsInv
<1>9. \A o \in Op : ~ Running(o)'
  BY <1>7 DEF Running
<1>10. PlanInv' /\ RecoveryInv' /\ RowInv'
  BY <1>6, <1>9 DEF PlanInv, RecoveryInv, Recovering, RowInv, Running
<1>11. \A o \in Op : OwnNoteInv(o)'
  <2> SUFFICES ASSUME NEW o \in Op
               PROVE  OwnNoteInv(o)'
    OBVIOUS
  <2>1. OwnNoteInv(o)
    BY DEF NotesInv, NoteInv
  <2>2. Stored' \subseteq Stored
    BY <1>4
  <2>3. CASE ops'[o] = ops[o] /\ ~ Running(o)
    BY <2>1, <2>2, <2>3 DEF OwnNoteInv, Running
  <2>4. CASE ops'[o].pc = "done"
    BY <2>4 DEF OwnNoteInv
  <2> QED
    BY <1>7, <2>3, <2>4
<1>12. CalmInv'
  <2> SUFFICES ASSUME ~ mixed, Quiet
               PROVE  CalmInv'
    BY <1>2 DEF CalmInv
  <2>1. Local <= pool
    BY DEF NotesInv, CalmInv
  <2>2. Local' <= pool'
    BY <1>1, <1>2, <1>4, <2>1
  <2>3. \A o \in Op : OpFits(o)'
    BY <1>9 DEF OpFits, Running
  <2> QED
    BY <1>6, <1>9, <2>2, <2>3 DEF CalmInv
<1> QED
  BY <1>5, <1>8, <1>10, <1>11, <1>12 DEF NotesInv, NoteInv

LEMMA NotesBegin == NotesInit => NotesInv
<1> SUFFICES ASSUME NotesInit
             PROVE  NotesInv
  OBVIOUS
<1>1. /\ pool \in Nat /\ store = <<>> /\ index = {} /\ mixed = FALSE /\ upsets = 0
      /\ ops = [o \in Op |-> IdleOp] /\ recovery = IdleRecovery /\ MaxUpsets \in Nat
  BY NotesAssumption DEF NotesInit
<1>2. IdleOp \in OpCall /\ IdleOp.pc = "idle" /\ IdleRecovery \in RecoveryCall /\ IdleRecovery.pc = "idle"
  BY CallsAre, RecoveryIs DEF IdleOp, IdleRecovery
<1>3. Stored = {} /\ Shown = {}
  BY <1>1 DEF Stored, Shown, Range
<1>4. StoreInv
  <2>1. <<>> \in Seq(NoteRecord) /\ DOMAIN <<>> = {} /\ FALSE \in BOOLEAN
    OBVIOUS
  <2>2. store \in Seq(NoteRecord) /\ DOMAIN store = {} /\ mixed \in BOOLEAN
    BY <1>1, <2>1
  <2>3. upsets \in 0 .. MaxUpsets
    BY <1>1
  <2> QED
    BY <1>1, <2>2, <2>3 DEF StoreInv
<1>5. CallsInv /\ PlanInv /\ NoteInv /\ RecoveryInv
  BY <1>1, <1>2, <1>3 DEF CallsInv, PlanInv, NoteInv, RowInv, OwnNoteInv, RecoveryInv, Recovering
<1>6. CalmInv
  <2>1. Local = 0
    BY <1>3, NoNotes DEF Local
  <2>2. 0 <= pool
    BY <1>1
  <2> QED
    BY <1>1, <1>2, <2>1, <2>2 DEF CalmInv, OpFits, Running
<1> QED
  BY <1>4, <1>5, <1>6 DEF NotesInv

LEMMA NotesStutter ==
  ASSUME NotesInv, UNCHANGED notesVars
  PROVE  NotesInv'
<1>1. /\ pool' = pool /\ store' = store /\ index' = index /\ ops' = ops
      /\ recovery' = recovery /\ mixed' = mixed /\ upsets' = upsets
  BY DEF notesVars
<1>2. Stored' = Stored /\ Shown' = Shown /\ Local' = Local
  BY <1>1, NotesStay DEF NotesInv
<1>3. StoreInv' /\ CallsInv' /\ PlanInv' /\ NoteInv'
  BY <1>1, <1>2 DEF NotesInv, StoreInv, CallsInv, PlanInv, NoteInv, RowInv, OwnNoteInv
<1>4. RecoveryInv'
  BY <1>1, <1>2 DEF NotesInv, RecoveryInv, Recovering, Running
<1>5. CalmInv'
  BY <1>1, <1>2 DEF NotesInv, CalmInv, OpFits, Quiet, Recovering, Running
<1> QED
  BY <1>3, <1>4, <1>5 DEF NotesInv

\* The notes are always as the parts of NotesInv say, whatever the operations,
\* their number, their amounts and the upsets.
THEOREM NotesInvariance == NotesSpec => []NotesInv
<1>1. NotesInv /\ [NotesNext]_notesVars => NotesInv'
  <2> SUFFICES ASSUME NotesInv, [NotesNext]_notesVars
               PROVE  NotesInv'
    OBVIOUS
  <2>1. ASSUME NEW o \in Op, NEW a \in Amount, DepositImpl(o, a) \/ PlanSpend(o, a)
        PROVE  NotesInv'
    BY <2>1, DepositImplKeeps, PlanKeeps
  <2>2. ASSUME NEW o \in Op,
               NativeSpend(o) \/ SpendFails(o) \/ CommitNote(o) \/ SaveNote(o) \/ ListNote(o)
        PROVE  NotesInv'
    BY <2>2, NativeKeeps, FailKeeps, CommitKeeps, SaveKeeps, ListKeeps
  <2>3. CASE BeginRecover \/ ReadNative \/ EndRecover \/ SaveRow \/ ListRow
    BY <2>3, BeginKeeps, ReadKeeps, EndKeeps, SaveRowKeeps, ListRowKeeps
  <2>4. ASSUME NEW a \in Amount, Receive(a)
        PROVE  NotesInv'
    BY <2>4, ReceiveKeeps
  <2>5. CASE Restart \/ Reinstall
    BY <2>5, StopKeeps DEF Restart, Reinstall
  <2>6. CASE UNCHANGED notesVars
    BY <2>6, NotesStutter
  <2> QED
    BY <2>1, <2>2, <2>3, <2>4, <2>5, <2>6 DEF NotesNext
<1> QED
  BY <1>1, NotesBegin, PTL DEF NotesSpec

-----------------------------------------------------------------------------
(* What the runs check, for every instance.                                *)

\* The types of the private notes.
THEOREM NotesTypes == NotesSpec => []NotesTypeOK
<1>1. NotesInv => NotesTypeOK
  <2> SUFFICES ASSUME NotesInv
               PROVE  NotesTypeOK
    OBVIOUS
  <2>1. StoreInv
    BY DEF NotesInv
  <2>2. \A i \in DOMAIN store : store[i] \in NoteRecord
    BY <2>1 DEF StoreInv
  <2>3. IsInjective([i \in DOMAIN store |-> store[i].id])
    BY <2>1 DEF StoreInv, IsInjective
  <2>4. \A o \in Op : ops[o].pc \in {"idle", "planned", "commit", "save", "index", "done"}
    BY CallIs DEF NotesInv, CallsInv
  <2>5. recovery.pc \in {"idle", "sync", "save", "index"}
    BY RecoveryIs DEF NotesInv, CallsInv
  <2> QED
    BY <2>1, <2>2, <2>3, <2>4, <2>5 DEF NotesTypeOK, StoreInv, Stored
<1> QED
  BY <1>1, NotesInvariance, PTL

\* Between calls that have not overlapped and that no restart has cut, the app
\* shows no more than the native wallet can spend.
THEOREM ShownIsThere == NotesSpec => []NothingTwice
<1>1. NotesInv => NothingTwice
  BY DEF NotesInv, CalmInv, NothingTwice
<1> QED
  BY <1>1, NotesInvariance, PTL

\* A recovery nobody overlaps leaves the native balance shown, unless a row of
\* an earlier one stands beside notes.
THEOREM RecoveryIsExact == NotesSpec => RecoveryReconciles
<1> DEFINE Exact ==
      (recovery.pc \in {"save", "index"} /\ recovery'.pc = "idle" /\ recovery.alone /\ upsets' = upsets) =>
        \/ Local' = recovery.native
        \/ RowListed /\ recovery.real
<1>1. NotesInv /\ [NotesNext]_notesVars => Exact
  <2> SUFFICES ASSUME NotesInv, [NotesNext]_notesVars,
                      recovery.pc \in {"save", "index"}, recovery'.pc = "idle", recovery.alone,
                      upsets' = upsets
               PROVE  Local' = recovery.native \/ (RowListed /\ recovery.real)
    OBVIOUS
  <2>1. recovery \in RecoveryCall /\ upsets \in Int
    BY DEF NotesInv, CallsInv, StoreInv
  <2>2. recovery'.pc # recovery.pc /\ upsets' # upsets + 1
    BY <2>1
  <2>3. CASE SaveRow
    <3>1. (\E n \in Shown : n.id = Recover) => RowListed
      BY DEF RowListed, IsReal
    <3>2. Recover \in index
      BY <2>1, <2>3 DEF SaveRow, RecoveryCall
    <3> QED
      BY <2>3, <3>1, <3>2, RowSaved
  <2>4. CASE ListRow
    BY <2>4, RowIsListed
  <2>5. CASE BeginRecover \/ ReadNative \/ EndRecover
    BY <2>5 DEF BeginRecover, Recovering, ReadNative, EndRecover
  <2>6. ASSUME NEW o \in Op, NEW a \in Amount, DepositImpl(o, a) \/ PlanSpend(o, a)
        PROVE  FALSE
    BY <2>1, <2>2, <2>6 DEF DepositImpl, PlanSpend, RecoveryCall
  <2>7. ASSUME NEW o \in Op,
               NativeSpend(o) \/ SpendFails(o) \/ CommitNote(o) \/ SaveNote(o) \/ ListNote(o)
        PROVE  FALSE
    <3>1. recovery' = recovery
      BY <2>7 DEF NativeSpend, SpendFails, CommitNote, SaveNote, ListNote
    <3> QED
      BY <2>2, <3>1
  <2>8. ASSUME NEW a \in Amount, Receive(a)
        PROVE  FALSE
    BY <2>2, <2>8 DEF Receive, Upset
  <2>9. CASE Restart \/ Reinstall
    BY <2>2, <2>9 DEF Restart, Reinstall, Stop, Upset
  <2>10. CASE UNCHANGED notesVars
    BY <2>2, <2>10 DEF notesVars
  <2> QED
    BY <2>3, <2>4, <2>5, <2>6, <2>7, <2>8, <2>9, <2>10 DEF NotesNext
<1>2. NotesInv /\ [NotesNext]_notesVars => [Exact]_notesVars
  BY <1>1
<1>3. NotesSpec => [][Exact]_notesVars
  BY <1>2, NotesInvariance, PTL DEF NotesSpec
<1> QED
  BY <1>3 DEF RecoveryReconciles, Exact

\* More notes are never worth less.
LEMMA MoreIsMore ==
  ASSUME StoreInv, Shown \subseteq Shown', IsFiniteSet(Shown'), Shown' \subseteq NoteRecord
  PROVE  ~ (Local' < Local)
<1>1. SumOf(Shown) <= SumOf(Shown') /\ SumOf(Shown') \in Nat
  BY SumOfIs
<1>2. Local \in Nat
  BY StoreIs
<1> QED
  BY <1>1, <1>2 DEF Local

\* What is shown shrinks only for one of the causes.
THEOREM LossIsExplained == NotesSpec => LossHasCause
<1> DEFINE Cause ==
      \/ \E o \in Op : ops[o].pc = "commit" /\ ops'[o].pc # "commit"
      \/ \E o \in Op : ops[o].pc = "commit" /\ ops'[o].items # ops[o].items
      \/ recovery.pc = "save" /\ RowListed
      \/ \E o \in Op : ops[o].pc = "index" /\ ops[o].seen # index
      \/ recovery.pc = "index" /\ recovery.seen # index
      \/ upsets' # upsets /\ store' = <<>>
<1>1. NotesInv /\ [NotesNext]_notesVars /\ Local' < Local => Cause
  <2> SUFFICES ASSUME NotesInv, [NotesNext]_notesVars, Local' < Local
               PROVE  Cause
    OBVIOUS
  <2>1. /\ StoreInv /\ Local \in Nat /\ IsFiniteSet(Stored) /\ Stored \subseteq NoteRecord
        /\ IsFiniteSet(Shown) /\ Shown \subseteq NoteRecord /\ Ids(Stored) \subseteq NoteId
    BY StoreIs, IdsAre DEF NotesInv
  <2>2. Local' # Local
    BY <2>1
  <2>3. ~ UNCHANGED <<store, index>>
    BY <2>1, <2>2, NotesStay
  <2>4. Shown' # Shown
    BY <2>2 DEF Local
  <2>5. pool \in Nat /\ mixed \in BOOLEAN /\ upsets \in 0 .. MaxUpsets /\ upsets \in Int
    BY <2>1 DEF StoreInv
  <2>6. ASSUME NEW o \in Op, CommitNote(o)
        PROVE  Cause
    <3>1. /\ ops[o].pc = "commit" /\ ops \in [Op -> OpCall] /\ ops[o] \in OpCall
          /\ PlanOk(ops[o].items, ops[o].amount) /\ ops[o].items \in Plans /\ ops[o].amount \in Nat
      BY <2>6, CallIs DEF CommitNote, NotesInv, CallsInv, PlanInv
    <3>2. Rest(ops[o].items) # ops[o].items
      BY <3>1, RestIs
    <3>3. \/ ops'[o].pc \in {"save", "done"}
          \/ ops'[o].items = Rest(ops[o].items)
      BY <2>6, <3>1 DEF CommitNote, IdleOp, OpCall
    <3> QED
      BY <3>1, <3>2, <3>3
  <2>7. ASSUME NEW o \in Op, SaveNote(o)
        PROVE  FALSE
    <3>1. /\ ops[o].pc = "save" /\ store' = Put(ops[o].note)
          /\ UNCHANGED <<pool, index, recovery, mixed, upsets>>
      BY <2>7 DEF SaveNote
    <3>2. /\ ops[o].note \in NoteRecord /\ ~ ops[o].note.spent
          /\ \A m \in Stored : m.id # ops[o].note.id
      BY <3>1 DEF NotesInv, NoteInv, OwnNoteInv
    <3>3. ops[o].note.id \notin index
      BY <2>1, <3>2 DEF StoreInv, Ids
    <3>4. Shown' = Shown
      BY <2>1, <2>5, <3>1, <3>2, <3>3, PutStored
    <3> QED
      BY <2>4, <3>4
  <2>8. ASSUME NEW o \in Op, ListNote(o)
        PROVE  Cause
    <3>1. /\ ops[o].pc = "index" /\ index' = ops[o].seen \cup {ops[o].note.id} /\ store' = store
          /\ UNCHANGED <<pool, mixed, upsets>>
      BY <2>8 DEF ListNote
    <3>2. ops[o].seen \subseteq Ids(Stored) /\ ops[o].note.id \in Ids(Stored)
      BY <3>1 DEF NotesInv, NoteInv, OwnNoteInv
    <3>3. Stored' = Stored /\ (ops[o].seen = index => Shown \subseteq Shown')
      BY <2>1, <2>5, <3>1, <3>2, ListStored
    <3>4. Shown' \subseteq Stored
      BY <3>3 DEF Shown, Stored
    <3>5. ops[o].seen # index
      BY <2>1, <3>3, <3>4, FS_Subset, MoreIsMore
    <3> QED
      BY <3>1, <3>5
  <2>9. CASE SaveRow
    <3> SUFFICES ASSUME ~ RowListed
                 PROVE  FALSE
      BY <2>9 DEF SaveRow
    <3> DEFINE n == recovery.note
    <3>1. recovery.pc = "save" /\ store' = Put(n) /\ UNCHANGED <<pool, index, ops, mixed, upsets>>
      BY <2>9 DEF SaveRow
    <3>2. n \in NoteRecord /\ n.id = Recover /\ ~ n.spent
      BY <3>1 DEF NotesInv, NoteInv, RowInv
    <3> HIDE DEF n
    <3>3. {m \in Shown : m.id # n.id} = Shown
      BY <3>2 DEF RowListed, IsReal
    <3>4. Shown' = Shown \cup {n}
      BY <2>1, <2>4, <2>5, <3>1, <3>2, <3>3, PutStored
    <3>5. IsFiniteSet(Shown') /\ Shown' \subseteq NoteRecord /\ Shown \subseteq Shown'
      BY <2>1, <3>2, <3>4, FS_AddElement
    <3> QED
      BY <2>1, <3>5, MoreIsMore
  <2>10. CASE ListRow
    <3>1. /\ recovery.pc = "index" /\ index' = recovery.seen \cup {Recover} /\ store' = store
          /\ UNCHANGED <<pool, mixed, upsets>>
      BY <2>10 DEF ListRow
    <3>2. recovery.seen \subseteq Ids(Stored) /\ Recover \in Ids(Stored)
      BY <3>1 DEF NotesInv, NoteInv, RowInv
    <3>3. Stored' = Stored /\ (recovery.seen = index => Shown \subseteq Shown')
      BY <2>1, <2>5, <3>1, <3>2, ListStored
    <3>4. Shown' \subseteq Stored
      BY <3>3 DEF Shown, Stored
    <3>5. recovery.seen # index
      BY <2>1, <3>3, <3>4, FS_Subset, MoreIsMore
    <3> QED
      BY <3>1, <3>5
  <2>11. ASSUME NEW o \in Op, NEW a \in Amount, DepositImpl(o, a) \/ PlanSpend(o, a)
         PROVE  FALSE
    BY <2>3, <2>11 DEF DepositImpl, PlanSpend
  <2>12. ASSUME NEW o \in Op, NativeSpend(o) \/ SpendFails(o)
         PROVE  FALSE
    BY <2>3, <2>12 DEF NativeSpend, SpendFails
  <2>13. CASE BeginRecover \/ ReadNative \/ EndRecover
    BY <2>3, <2>13 DEF BeginRecover, ReadNative, EndRecover
  <2>14. ASSUME NEW a \in Amount, Receive(a)
         PROVE  FALSE
    BY <2>3, <2>14 DEF Receive
  <2>15. CASE Restart
    BY <2>3, <2>15 DEF Restart
  <2>16. CASE Reinstall
    BY <2>5, <2>16 DEF Reinstall, Stop, Upset
  <2>17. CASE UNCHANGED notesVars
    BY <2>3, <2>17 DEF notesVars
  <2> HIDE DEF Cause
  <2> QED
    BY <2>6, <2>7, <2>8, <2>9, <2>10, <2>11, <2>12, <2>13, <2>14, <2>15, <2>16, <2>17 DEF NotesNext
<1> HIDE DEF Cause
<1>2. NotesInv /\ [NotesNext]_notesVars => [Local' < Local => Cause]_notesVars
  BY <1>1
<1>3. NotesSpec => [][Local' < Local => Cause]_notesVars
  BY <1>2, NotesInvariance, PTL DEF NotesSpec
<1> QED
  BY <1>3 DEF LossHasCause, Cause

=============================================================================
