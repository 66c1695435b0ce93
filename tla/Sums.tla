-------------------------------- MODULE Sums --------------------------------
(***************************************************************************)
(* Sums of natural numbers over a finite set, as MapThenSumSet defines     *)
(* them: a fold that picks the elements in an unknown order.  The lemmas   *)
(* say that the order does not matter, and what adding to, comparing and   *)
(* scaling such sums gives.                                                *)
(***************************************************************************)
EXTENDS Integers, FiniteSets, FiniteSetsExt, FiniteSetTheorems, WellFoundedInduction, TLAPS

NatOn(f, S) == \A x \in S : f[x] \in Nat
SumOver(f, S) == MapThenSumSet(LAMBDA x : f[x], S)

(* Induction on the natural numbers, over a set rather than a predicate. *)
LEMMA NatSet ==
    ASSUME NEW S, S \subseteq Nat, 0 \in S, \A n \in S : n + 1 \in S
    PROVE  S = Nat
  <1> SUFFICES ASSUME Nat \ S # {} PROVE FALSE
    OBVIOUS
  <1>1. IsWellFoundedOn(OpToRel(<, Nat), Nat)
    BY NatLessThanWellFounded
  <1> DEFINE R == OpToRel(<, Nat)
  <1>2. \A x, y \in Nat : <<x, y>> \in R <=> x < y
    BY DEF OpToRel
  <1>3. IsWellFoundedOn(R, Nat)
    BY <1>1
  <1> HIDE DEF R
  <1>4. PICK x \in Nat \ S : \A y \in Nat \ S : ~ (<<y, x>> \in R)
    BY <1>3, WFMin
  <1>5. x # 0 /\ x - 1 \in Nat
    BY <1>4
  <1>6. x \in Nat /\ x - 1 < x
    BY <1>4
  <1>7. <<x - 1, x>> \in R
    BY <1>2, <1>5, <1>6
  <1>8. x - 1 \in S
    BY <1>4, <1>5, <1>7
  <1> QED
    BY <1>4, <1>5, <1>8

-----------------------------------------------------------------------------
(* The recursive function inside the fold, on the subsets in Q. *)
Pick(s) == CHOOSE x \in s : TRUE
Tally(g, f, Q) == g = [s \in Q |-> IF s = {} THEN 0 ELSE f[Pick(s)] + g[s \ {Pick(s)}]]

Fold(g, f, S) == Tally(g, f, SUBSET S)

Small(S, n) == {s \in SUBSET S : Cardinality(s) <= n}

LEMMA Shrinks ==
    ASSUME NEW S, IsFiniteSet(S), NEW s \in SUBSET S, NEW x \in s
    PROVE  /\ IsFiniteSet(s) /\ Cardinality(s) \in Nat /\ Cardinality(s) > 0
           /\ s \ {x} \in SUBSET S /\ Cardinality(s \ {x}) = Cardinality(s) - 1
  <1>1. IsFiniteSet(s)
    BY FS_Subset
  <1>2. Cardinality(s) \in Nat /\ (Cardinality(s) = 0 <=> s = {})
    BY <1>1, FS_CardinalityType, FS_EmptySet
  <1>3. Cardinality(s \ {x}) = Cardinality(s) - 1
    BY <1>1, FS_RemoveElement
  <1> QED
    BY <1>1, <1>2, <1>3

LEMMA Picked ==
    ASSUME NEW s, s # {}
    PROVE  Pick(s) \in s
  BY DEF Pick

LEMMA TallyExists ==
    ASSUME NEW S, IsFiniteSet(S), NEW f
    PROVE  \E g : Fold(g, f, S)
  <1> DEFINE I == {n \in Nat : \E g : Tally(g, f, Small(S, n))}
  <1>1. 0 \in I
    <2> PICK g : g = [s \in Small(S, 0) |-> 0]
      OBVIOUS
    <2>1. ASSUME NEW s \in Small(S, 0) PROVE s = {}
      <3>1. IsFiniteSet(s) /\ Cardinality(s) <= 0 /\ s \in SUBSET S
        BY FS_Subset DEF Small
      <3>2. Cardinality(s) \in Nat
        BY <3>1, FS_CardinalityType
      <3> QED
        BY <3>1, <3>2, FS_EmptySet
    <2>2. Tally(g, f, Small(S, 0))
      BY <2>1 DEF Tally
    <2> QED
      BY <2>2
  <1>2. ASSUME NEW n \in I PROVE n + 1 \in I
    <2>1. PICK g : Tally(g, f, Small(S, n))
      OBVIOUS
    <2> PICK P, Q : P = Small(S, n) /\ Q = Small(S, n + 1)
      OBVIOUS
    <2>2. g = [s \in P |-> IF s = {} THEN 0 ELSE f[Pick(s)] + g[s \ {Pick(s)}]]
      BY <2>1 DEF Tally
    <2> PICK h : h = [s \in Q |-> IF s = {} THEN 0 ELSE f[Pick(s)] + g[s \ {Pick(s)}]]
      OBVIOUS
    <2>3. ASSUME NEW s \in Q, s # {} PROVE s \ {Pick(s)} \in P
      <3>1. s \in SUBSET S /\ Cardinality(s) <= n + 1 /\ Pick(s) \in s /\ n \in Nat
        BY <2>3, Picked DEF Small
      <3>2. /\ s \ {Pick(s)} \in SUBSET S /\ Cardinality(s \ {Pick(s)}) = Cardinality(s) - 1
            /\ Cardinality(s) \in Nat
        BY <3>1, Shrinks
      <3>3. Cardinality(s) - 1 <= n
        BY <3>1, <3>2
      <3> QED
        BY <3>2, <3>3 DEF Small
    <2>4. ASSUME NEW s \in P PROVE s \in Q /\ h[s] = g[s]
      <3>1. s \in SUBSET S /\ Cardinality(s) <= n /\ n \in Nat
        BY DEF Small
      <3>2. Cardinality(s) \in Nat
        BY <3>1, FS_Subset, FS_CardinalityType
      <3>3. s \in Q
        BY <3>1, <3>2 DEF Small
      <3> QED
        BY <2>2, <3>3
    <2>5. h = [s \in Q |-> IF s = {} THEN 0 ELSE f[Pick(s)] + h[s \ {Pick(s)}]]
      BY <2>3, <2>4
    <2>6. Tally(h, f, Small(S, n + 1))
      BY <2>5 DEF Tally
    <2>7. n + 1 \in Nat
      OBVIOUS
    <2> QED
      BY <2>6, <2>7
  <1> HIDE DEF I
  <1>3. I \subseteq Nat
    BY DEF I
  <1>4. I = Nat
    BY <1>1, <1>2, <1>3, NatSet
  <1>5. Cardinality(S) \in Nat
    BY FS_CardinalityType
  <1>6. Small(S, Cardinality(S)) = SUBSET S
    <2>1. ASSUME NEW s \in SUBSET S PROVE Cardinality(s) <= Cardinality(S)
      BY FS_Subset
    <2> QED
      BY <2>1 DEF Small
  <1> QED
    BY <1>4, <1>5, <1>6 DEF I, Fold

LEMMA SumIsTally ==
    ASSUME NEW S, IsFiniteSet(S), NEW f
    PROVE  \E g : Fold(g, f, S) /\ SumOver(f, S) = g[S]
  <1>1. \E g : Fold(g, f, S)
    BY TallyExists
  <1> QED
    BY <1>1 DEF Fold, Tally, Pick, SumOver, MapThenSumSet, MapThenFoldSet

(* The order in which the fold picks the elements does not matter. *)
Steady(g, f, s) == g[s] \in Nat /\ \A x \in s : g[s] = f[x] + g[s \ {x}]

LEMMA SteadyStep ==
    ASSUME NEW S, IsFiniteSet(S), NEW f, NatOn(f, S), NEW g,
           NEW n \in Nat, \A s \in SUBSET S : Cardinality(s) <= n => Steady(g, f, s),
           NEW t \in SUBSET S, t # {}, Cardinality(t) <= n + 1,
           g[t] = f[Pick(t)] + g[t \ {Pick(t)}]
    PROVE  Steady(g, f, t)
  <1> PICK c : c = Pick(t)
    OBVIOUS
  <1>1. c \in t
    BY Picked
  <1>2. ASSUME NEW x \in t
        PROVE  /\ t \ {x} \in SUBSET S /\ Cardinality(t \ {x}) <= n
               /\ g[t \ {x}] \in Nat
               /\ \A y \in t \ {x} : g[t \ {x}] = f[y] + g[(t \ {x}) \ {y}]
    <2>1. /\ t \ {x} \in SUBSET S /\ Cardinality(t \ {x}) = Cardinality(t) - 1
          /\ Cardinality(t) \in Nat
      BY Shrinks
    <2>2. Cardinality(t \ {x}) <= n
      BY <2>1
    <2>3. Steady(g, f, t \ {x})
      BY <2>1, <2>2
    <2> QED
      BY <2>1, <2>2, <2>3 DEF Steady
  <1>3. g[t] = f[c] + g[t \ {c}] /\ f[c] \in Nat
    BY <1>1 DEF NatOn
  <1>4. g[t] \in Nat
    <2>1. g[t \ {c}] \in Nat
      BY <1>1, <1>2
    <2> QED
      BY <1>3, <2>1
  <1>5. ASSUME NEW x \in t PROVE g[t] = f[x] + g[t \ {x}]
    <2>1. CASE x = c
      BY <1>3, <2>1
    <2>2. CASE x # c
      <3>0. PICK u, v, w : u = (t \ {c}) \ {x} /\ v = t \ {c} /\ w = t \ {x}
        OBVIOUS
      <3>1. x \in v /\ c \in w /\ u = v \ {x} /\ u = w \ {c}
        BY <1>1, <2>2, <3>0
      <3>2. g[v] = f[x] + g[u] /\ v \in SUBSET S /\ Cardinality(v) <= n
        BY <1>1, <1>2, <3>0, <3>1
      <3>3. g[w] = f[c] + g[u]
        BY <1>2, <3>0, <3>1
      <3>4. u \in SUBSET S /\ Cardinality(u) <= n
        <4>1. /\ v \ {x} \in SUBSET S /\ Cardinality(v \ {x}) = Cardinality(v) - 1
              /\ Cardinality(v) \in Nat
          <5>1. v \in SUBSET S /\ x \in v
            BY <3>1, <3>2
          <5> QED
            BY <5>1, Shrinks
        <4> QED
          BY <3>1, <3>2, <4>1
      <3>5. g[u] \in Nat /\ f[x] \in Nat
        BY <3>4 DEF Steady, NatOn
      <3> QED
        BY <1>3, <3>0, <3>2, <3>3, <3>5
    <2> QED
      BY <2>1, <2>2
  <1> QED
    BY <1>4, <1>5 DEF Steady

LEMMA TallySteady ==
    ASSUME NEW S, IsFiniteSet(S), NEW f, NatOn(f, S),
           NEW g, Fold(g, f, S)
    PROVE  \A s \in SUBSET S : Steady(g, f, s)
  <1> DEFINE I == {n \in Nat : \A s \in SUBSET S : Cardinality(s) <= n => Steady(g, f, s)}
  <1>0. \A s \in SUBSET S : g[s] = IF s = {} THEN 0 ELSE f[Pick(s)] + g[s \ {Pick(s)}]
    BY DEF Fold, Tally
  <1>1. ASSUME NEW s \in SUBSET S, s = {} PROVE Steady(g, f, s)
    <2>1. g[s] = 0
      BY <1>0, <1>1
    <2> QED
      BY <1>1, <2>1 DEF Steady
  <1>2. 0 \in I
    <2>1. ASSUME NEW s \in SUBSET S, Cardinality(s) <= 0 PROVE s = {}
      <3>1. IsFiniteSet(s)
        BY FS_Subset
      <3> QED
        BY <2>1, <3>1, FS_CardinalityType, FS_EmptySet
    <2> QED
      BY <1>1, <2>1
  <1>3. ASSUME NEW n \in I PROVE n + 1 \in I
    <2>1. n \in Nat /\ n + 1 \in Nat
          /\ \A s \in SUBSET S : Cardinality(s) <= n => Steady(g, f, s)
      OBVIOUS
    <2>2. ASSUME NEW s \in SUBSET S, Cardinality(s) <= n + 1 PROVE Steady(g, f, s)
      <3>1. CASE s = {}
        BY <1>1, <3>1
      <3>2. CASE s # {}
        <4>1. g[s] = f[Pick(s)] + g[s \ {Pick(s)}]
          BY <1>0, <3>2
        <4> QED
          BY <2>1, <2>2, <3>2, <4>1, SteadyStep
      <3> QED
        BY <3>1, <3>2
    <2> QED
      BY <2>1, <2>2
  <1> HIDE DEF I
  <1>4. I \subseteq Nat
    BY DEF I
  <1>5. I = Nat
    BY <1>2, <1>3, <1>4, NatSet
  <1> SUFFICES ASSUME NEW s \in SUBSET S PROVE Steady(g, f, s)
    OBVIOUS
  <1>6. Cardinality(s) \in Nat
    BY FS_Subset, FS_CardinalityType
  <1> QED
    BY <1>5, <1>6 DEF I

Part(T, S) == T \subseteq S

(* Folds over two sets agree on what they share. *)
LEMMA TalliesAgree ==
    ASSUME NEW S, IsFiniteSet(S), NEW T, Part(T, S), NEW f,
           NEW g, Fold(g, f, S), NEW h, Fold(h, f, T)
    PROVE  g[T] = h[T]
  <1> DEFINE I == {n \in Nat : \A s \in SUBSET T : Cardinality(s) <= n => g[s] = h[s]}
  <1>0. \A s \in SUBSET T :
           /\ s \in SUBSET S
           /\ g[s] = IF s = {} THEN 0 ELSE f[Pick(s)] + g[s \ {Pick(s)}]
           /\ h[s] = IF s = {} THEN 0 ELSE f[Pick(s)] + h[s \ {Pick(s)}]
    BY DEF Fold, Tally, Part
  <1>1. 0 \in I
    <2>1. ASSUME NEW s \in SUBSET T, Cardinality(s) <= 0 PROVE s = {}
      <3>1. IsFiniteSet(s)
        BY FS_Subset DEF Part
      <3> QED
        BY <2>1, <3>1, FS_CardinalityType, FS_EmptySet
    <2> QED
      BY <1>0, <2>1
  <1>2. ASSUME NEW n \in I PROVE n + 1 \in I
    <2>1. n \in Nat /\ n + 1 \in Nat
          /\ \A s \in SUBSET T : Cardinality(s) <= n => g[s] = h[s]
      OBVIOUS
    <2>2. ASSUME NEW s \in SUBSET T, Cardinality(s) <= n + 1 PROVE g[s] = h[s]
      <3>1. CASE s = {}
        BY <1>0, <3>1
      <3>2. CASE s # {}
        <4>1. Pick(s) \in s /\ s \in SUBSET S
          BY <1>0, <3>2, Picked
        <4>2. Cardinality(s \ {Pick(s)}) = Cardinality(s) - 1 /\ Cardinality(s) \in Nat
          BY <4>1, Shrinks
        <4>3. s \ {Pick(s)} \in SUBSET T /\ Cardinality(s \ {Pick(s)}) <= n
          BY <2>1, <2>2, <4>2
        <4> QED
          BY <1>0, <2>1, <3>2, <4>3
      <3> QED
        BY <3>1, <3>2
    <2> QED
      BY <2>1, <2>2
  <1> HIDE DEF I
  <1>3. I \subseteq Nat
    BY DEF I
  <1>4. I = Nat
    BY <1>1, <1>2, <1>3, NatSet
  <1>5. Cardinality(T) \in Nat
    BY FS_Subset, FS_CardinalityType DEF Part
  <1> QED
    BY <1>4, <1>5 DEF I

-----------------------------------------------------------------------------
LEMMA SumOfNone ==
    ASSUME NEW f
    PROVE  SumOver(f, {}) = 0
  <1>1. PICK g : Fold(g, f, {}) /\ SumOver(f, {}) = g[{}]
    BY FS_EmptySet, SumIsTally
  <1> QED
    BY <1>1 DEF Fold, Tally

LEMMA SumStep ==
    ASSUME NEW S, IsFiniteSet(S), NEW f, NatOn(f, S)
    PROVE  /\ SumOver(f, S) \in Nat
           /\ \A x \in S : SumOver(f, S) = f[x] + SumOver(f, S \ {x})
  <1>1. PICK g : Fold(g, f, S) /\ SumOver(f, S) = g[S]
    BY SumIsTally
  <1>2. Steady(g, f, S)
    BY <1>1, TallySteady
  <1>3. ASSUME NEW x \in S PROVE SumOver(f, S) = f[x] + SumOver(f, S \ {x})
    <2>0. PICK T : T = S \ {x}
      OBVIOUS
    <2>1. IsFiniteSet(T) /\ T \subseteq S
      BY <2>0, FS_Subset
    <2>2. PICK h : Fold(h, f, T) /\ SumOver(f, T) = h[T]
      BY <2>1, SumIsTally
    <2>3. g[T] = h[T]
      <3>1. Fold(g, f, S) /\ Fold(h, f, T) /\ Part(T, S)
        BY <1>1, <2>1, <2>2 DEF Part
      <3> QED
        BY <3>1, TalliesAgree
    <2>4. g[S] = f[x] + g[T]
      BY <1>2, <2>0 DEF Steady
    <2> QED
      BY <1>1, <2>0, <2>2, <2>3, <2>4
  <1> QED
    BY <1>1, <1>2, <1>3 DEF Steady

(* Functions that agree on the set have the same sum. *)
Same(f, g, S) == \A x \in S : f[x] = g[x]

LEMMA SumSame ==
    ASSUME NEW S, IsFiniteSet(S), NEW f, NEW g, Same(f, g, S)
    PROVE  SumOver(f, S) = SumOver(g, S)
  <1>1. PICK h : Fold(h, f, S) /\ SumOver(f, S) = h[S]
    BY SumIsTally
  <1>2. PICK k : Fold(k, g, S) /\ SumOver(g, S) = k[S]
    BY SumIsTally
  <1>3. \A s \in SUBSET S : s # {} => f[Pick(s)] = g[Pick(s)]
    <2> TAKE s \in SUBSET S
    <2>1. s # {} => Pick(s) \in s
      BY Picked
    <2> QED
      BY <2>1 DEF Same
  <1>4. Fold(h, g, S)
    BY <1>1, <1>3 DEF Fold, Tally
  <1>5. Part(S, S)
    BY DEF Part
  <1>6. h[S] = k[S]
    BY <1>2, <1>4, <1>5, TalliesAgree
  <1> QED
    BY <1>1, <1>2, <1>6

-----------------------------------------------------------------------------
(* Induction on a finite set, over a set of its subsets. *)
LEMMA SetInduction ==
    ASSUME NEW S, IsFiniteSet(S), NEW C, {} \in C,
           \A s \in SUBSET S : \A x \in s : s \ {x} \in C => s \in C
    PROVE  S \in C
  <1> DEFINE I == {n \in Nat : \A s \in SUBSET S : Cardinality(s) <= n => s \in C}
  <1>1. 0 \in I
    <2>1. ASSUME NEW s \in SUBSET S, Cardinality(s) <= 0 PROVE s = {}
      <3>1. IsFiniteSet(s)
        BY FS_Subset
      <3> QED
        BY <2>1, <3>1, FS_CardinalityType, FS_EmptySet
    <2> QED
      BY <2>1
  <1>2. ASSUME NEW n \in I PROVE n + 1 \in I
    <2>1. n \in Nat /\ n + 1 \in Nat /\ \A s \in SUBSET S : Cardinality(s) <= n => s \in C
      OBVIOUS
    <2>2. ASSUME NEW s \in SUBSET S, Cardinality(s) <= n + 1 PROVE s \in C
      <3>1. CASE s = {}
        BY <3>1
      <3>2. CASE s # {}
        <4>1. PICK x \in s : TRUE
          BY <3>2
        <4>2. /\ s \ {x} \in SUBSET S /\ Cardinality(s \ {x}) = Cardinality(s) - 1
              /\ Cardinality(s) \in Nat
          BY Shrinks
        <4>3. s \ {x} \in C
          BY <2>1, <2>2, <4>2
        <4> QED
          BY <4>3
      <3> QED
        BY <3>1, <3>2
    <2> QED
      BY <2>1, <2>2
  <1> HIDE DEF I
  <1>3. I \subseteq Nat
    BY DEF I
  <1>4. I = Nat
    BY <1>1, <1>2, <1>3, NatSet
  <1>5. Cardinality(S) \in Nat
    BY FS_CardinalityType
  <1> QED
    BY <1>4, <1>5 DEF I

(* A sum over a part of the set, and one element more. *)
LEMMA PartStep ==
    ASSUME NEW S, IsFiniteSet(S), NEW f, NatOn(f, S), NEW s \in SUBSET S, NEW x \in s
    PROVE  /\ SumOver(f, s) = f[x] + SumOver(f, s \ {x})
           /\ f[x] \in Nat /\ SumOver(f, s) \in Nat /\ SumOver(f, s \ {x}) \in Nat
  <1>1. IsFiniteSet(s) /\ NatOn(f, s)
    BY FS_Subset DEF NatOn
  <1>2. SumOver(f, s) \in Nat /\ SumOver(f, s) = f[x] + SumOver(f, s \ {x})
    BY <1>1, SumStep
  <1>r. PICK R : R = s \ {x}
    OBVIOUS
  <1>3. IsFiniteSet(R) /\ NatOn(f, R)
    BY <1>r, <1>1, FS_Subset DEF NatOn
  <1>4. SumOver(f, R) \in Nat
    BY <1>3, SumStep
  <1>5. f[x] \in Nat
    BY <1>1 DEF NatOn
  <1> QED
    BY <1>r, <1>2, <1>4, <1>5

LEMMA PartOf ==
    ASSUME NEW S, IsFiniteSet(S), NEW f, NatOn(f, S), NEW x \in S
    PROVE  f[x] \in Nat /\ f[x] <= SumOver(f, S)
  <1>s. PICK s : s = S
    OBVIOUS
  <1>1. s \in SUBSET S /\ x \in s
    BY <1>s
  <1>2. /\ SumOver(f, s) = f[x] + SumOver(f, s \ {x})
        /\ f[x] \in Nat /\ SumOver(f, s) \in Nat /\ SumOver(f, s \ {x}) \in Nat
    BY <1>1, PartStep
  <1> QED
    BY <1>s, <1>2

Adds(h, f, g, S) == \A x \in S : h[x] = f[x] + g[x]

LEMMA SumAdds ==
    ASSUME NEW S, IsFiniteSet(S), NEW f, NatOn(f, S), NEW g, NatOn(g, S),
           NEW h, Adds(h, f, g, S)
    PROVE  SumOver(h, S) = SumOver(f, S) + SumOver(g, S)
  <1> DEFINE C == {s \in SUBSET S : SumOver(h, s) = SumOver(f, s) + SumOver(g, s)}
  <1>0. NatOn(h, S)
    BY DEF NatOn, Adds
  <1>1. {} \in C
    BY SumOfNone
  <1>2. ASSUME NEW s \in SUBSET S, NEW x \in s, s \ {x} \in C PROVE s \in C
    <2>r. PICK R : R = s \ {x}
      OBVIOUS
    <2>1. /\ SumOver(f, s) = f[x] + SumOver(f, R) /\ SumOver(g, s) = g[x] + SumOver(g, R)
          /\ SumOver(h, s) = h[x] + SumOver(h, R)
          /\ f[x] \in Nat /\ g[x] \in Nat /\ SumOver(f, R) \in Nat /\ SumOver(g, R) \in Nat
      BY <1>0, <2>r, PartStep
    <2>2. h[x] = f[x] + g[x]
      BY DEF Adds
    <2>3. SumOver(h, R) = SumOver(f, R) + SumOver(g, R)
      BY <1>2, <2>r
    <2>4. SumOver(h, s) = SumOver(f, s) + SumOver(g, s)
      BY <2>1, <2>2, <2>3
    <2> QED
      BY <2>4
  <1> HIDE DEF C
  <1>3. S \in C
    BY <1>1, <1>2, SetInduction
  <1> QED
    BY <1>3 DEF C

Multiple(h, c, f, S) == \A x \in S : h[x] = c * f[x]

LEMMA SumScales ==
    ASSUME NEW S, IsFiniteSet(S), NEW f, NatOn(f, S), NEW c \in Nat,
           NEW h, Multiple(h, c, f, S)
    PROVE  SumOver(h, S) = c * SumOver(f, S)
  <1> DEFINE C == {s \in SUBSET S : SumOver(h, s) = c * SumOver(f, s)}
  <1>0. NatOn(h, S)
    BY DEF NatOn, Multiple
  <1>1. {} \in C
    BY SumOfNone
  <1>2. ASSUME NEW s \in SUBSET S, NEW x \in s, s \ {x} \in C PROVE s \in C
    <2>r. PICK R : R = s \ {x}
      OBVIOUS
    <2>1. /\ SumOver(f, s) = f[x] + SumOver(f, R) /\ SumOver(h, s) = h[x] + SumOver(h, R)
          /\ f[x] \in Nat /\ SumOver(f, R) \in Nat
      BY <1>0, <2>r, PartStep
    <2>2. h[x] = c * f[x]
      BY DEF Multiple
    <2>3. SumOver(h, R) = c * SumOver(f, R)
      BY <1>2, <2>r
    <2>4. SumOver(h, s) = c * SumOver(f, s)
      BY <2>1, <2>2, <2>3
    <2> QED
      BY <2>4
  <1> HIDE DEF C
  <1>3. S \in C
    BY <1>1, <1>2, SetInduction
  <1> QED
    BY <1>3 DEF C

Below(f, g, S) == \A x \in S : f[x] <= g[x]

LEMMA SumBelow ==
    ASSUME NEW S, IsFiniteSet(S), NEW f, NatOn(f, S), NEW g, NatOn(g, S), Below(f, g, S)
    PROVE  SumOver(f, S) <= SumOver(g, S)
  <1> DEFINE C == {s \in SUBSET S : SumOver(f, s) <= SumOver(g, s)}
  <1> HIDE DEF C
  <1>1. {} \in C
    BY SumOfNone DEF C
  <1>2. ASSUME NEW s \in SUBSET S, NEW x \in s, s \ {x} \in C PROVE s \in C
    <2>r. PICK R : R = s \ {x}
      OBVIOUS
    <2>0. /\ SumOver(f, s) = f[x] + SumOver(f, s \ {x})
          /\ f[x] \in Nat /\ SumOver(f, s \ {x}) \in Nat
      BY PartStep
    <2>1. /\ SumOver(g, s) = g[x] + SumOver(g, s \ {x})
          /\ g[x] \in Nat /\ SumOver(g, s \ {x}) \in Nat
      BY PartStep
    <2>2. f[x] <= g[x]
      BY DEF Below
    <2>3. SumOver(f, R) <= SumOver(g, R)
      BY <1>2, <2>r DEF C
    <2>4. SumOver(f, s) <= SumOver(g, s)
      BY <2>r, <2>0, <2>1, <2>2, <2>3
    <2> QED
      BY <2>4 DEF C
  <1>3. S \in C
    BY <1>1, <1>2, SetInduction
  <1> QED
    BY <1>3 DEF C

Constant(f, c, S) == \A x \in S : f[x] = c

LEMMA SumConstant ==
    ASSUME NEW S, IsFiniteSet(S), NEW c \in Nat, NEW f, Constant(f, c, S)
    PROVE  SumOver(f, S) = c * Cardinality(S)
  <1> DEFINE C == {s \in SUBSET S : SumOver(f, s) = c * Cardinality(s)}
  <1>0. NatOn(f, S)
    BY DEF NatOn, Constant
  <1>1. {} \in C
    BY SumOfNone, FS_EmptySet
  <1>2. ASSUME NEW s \in SUBSET S, NEW x \in s, s \ {x} \in C PROVE s \in C
    <2>r. PICK R : R = s \ {x}
      OBVIOUS
    <2>1. SumOver(f, s) = f[x] + SumOver(f, R)
      BY <1>0, <2>r, PartStep
    <2>2. f[x] = c
      BY DEF Constant
    <2>3. SumOver(f, R) = c * Cardinality(R)
      BY <1>2, <2>r
    <2>4. Cardinality(R) = Cardinality(s) - 1 /\ Cardinality(s) \in Nat /\ Cardinality(s) > 0
      BY <2>r, Shrinks
    <2>5. SumOver(f, s) = c * Cardinality(s)
      <3> PICK n, m : n = Cardinality(s) /\ m = Cardinality(R)
        OBVIOUS
      <3>1. n \in Nat /\ m \in Nat /\ n = m + 1
        BY <2>4
      <3>2. c * n = c + c * m
        BY <3>1
      <3> QED
        BY <2>1, <2>2, <2>3, <3>2
    <2> QED
      BY <2>5
  <1> HIDE DEF C
  <1>3. S \in C
    BY <1>1, <1>2, SetInduction
  <1> QED
    BY <1>3 DEF C

(* A table: R holds its rows, C its columns, row and col their sums. *)
Table(R, C, S, K) == \A i \in S : \A k \in K : R[i][k] \in Nat /\ C[k][i] = R[i][k]
Totals(t, f, S, K) == \A i \in S : t[i] = SumOver(f[i], K)

LEMMA SumOfSums ==
    ASSUME NEW S, IsFiniteSet(S), NEW K, IsFiniteSet(K), NEW R, NEW C, Table(R, C, S, K),
           NEW row, Totals(row, R, S, K), NEW col, Totals(col, C, K, S)
    PROVE  SumOver(row, S) = SumOver(col, K)
  <1> DEFINE part(s) == [k \in K |-> SumOver(C[k], s)]
             D == {s \in SUBSET S : SumOver(row, s) = SumOver(part(s), K)}
  <1>0. \A k \in K : NatOn(C[k], S)
    BY DEF NatOn, Table
  <1>1. \A i \in S : NatOn(R[i], K)
    BY DEF NatOn, Table
  <1>2. NatOn(row, S)
    <2> SUFFICES ASSUME NEW i \in S PROVE row[i] \in Nat
      BY DEF NatOn
    <2>1. PICK f : f = R[i]
      OBVIOUS
    <2>2. NatOn(f, K)
      BY <1>1, <2>1
    <2>3. SumOver(f, K) \in Nat
      BY <2>2, SumStep
    <2> QED
      BY <2>1, <2>3 DEF Totals
  <1> HIDE DEF part, D
  <1>3. ASSUME NEW s \in SUBSET S PROVE \A k \in K : part(s)[k] = SumOver(C[k], s)
    BY DEF part
  <1>4. ASSUME NEW s \in SUBSET S PROVE NatOn(part(s), K)
    <2> SUFFICES ASSUME NEW k \in K PROVE part(s)[k] \in Nat
      BY DEF NatOn
    <2>1. PICK f : f = C[k]
      OBVIOUS
    <2>2. NatOn(f, s)
      <3>1. NatOn(f, S)
        BY <1>0, <2>1
      <3> QED
        BY <3>1 DEF NatOn
    <2>3. IsFiniteSet(s)
      BY FS_Subset
    <2>4. SumOver(f, s) \in Nat
      BY <2>2, <2>3, SumStep
    <2> QED
      BY <1>3, <2>1, <2>4
  <1>5. {} \in D
    <2>1. PICK p : p = part({})
      OBVIOUS
    <2>2. \A k \in K : p[k] = 0
      <3> SUFFICES ASSUME NEW k \in K PROVE p[k] = 0
        OBVIOUS
      <3>1. p[k] = SumOver(C[k], {})
        BY <2>1, <1>3
      <3> QED
        BY <3>1, SumOfNone
    <2>3. Constant(p, 0, K)
      BY <2>2 DEF Constant
    <2>4. SumOver(p, K) = 0 * Cardinality(K)
      BY <2>3, SumConstant
    <2>5. Cardinality(K) \in Nat
      BY FS_CardinalityType
    <2>6. SumOver(p, K) = 0
      BY <2>4, <2>5
    <2> QED
      BY <2>1, <2>6, SumOfNone DEF D
  <1>6. ASSUME NEW s \in SUBSET S, NEW x \in s, s \ {x} \in D PROVE s \in D
    <2>v. PICK u, p, q, f : u = s \ {x} /\ p = part(s) /\ q = part(u) /\ f = R[x]
      OBVIOUS
    <2>1. u \in SUBSET S /\ x \in S
      BY <2>v
    <2>2. NatOn(f, K) /\ NatOn(q, K)
      BY <1>1, <1>4, <2>1, <2>v
    <2>3. Adds(p, f, q, K)
      <3> SUFFICES ASSUME NEW k \in K PROVE p[k] = f[k] + q[k]
        BY DEF Adds
      <3>c. PICK c : c = C[k]
        OBVIOUS
      <3>1. NatOn(c, S)
        BY <1>0, <3>c
      <3>2. SumOver(c, s) = c[x] + SumOver(c, s \ {x})
        BY <3>1, PartStep
      <3>3. p[k] = SumOver(c, s) /\ q[k] = SumOver(c, u)
        BY <1>3, <2>1, <2>v, <3>c
      <3>4. c[x] = f[k]
        BY <2>1, <2>v, <3>c DEF Table
      <3> QED
        BY <2>v, <3>2, <3>3, <3>4
    <2>4. SumOver(p, K) = SumOver(f, K) + SumOver(q, K)
      BY <2>2, <2>3, SumAdds
    <2>5. row[x] = SumOver(f, K)
      BY <2>1, <2>v DEF Totals
    <2>6. SumOver(row, s) = row[x] + SumOver(row, s \ {x})
      BY <1>2, PartStep
    <2>7. SumOver(row, u) = SumOver(q, K)
      BY <1>6, <2>v DEF D
    <2>8. SumOver(row, s) = SumOver(p, K)
      BY <2>v, <2>4, <2>5, <2>6, <2>7
    <2> QED
      BY <2>v, <2>8 DEF D
  <1>7. S \in D
    BY <1>5, <1>6, SetInduction
  <1>8. Same(part(S), col, K)
    BY DEF Same, Totals, part
  <1>p. PICK p : p = part(S)
    OBVIOUS
  <1>9. SumOver(p, K) = SumOver(col, K)
    BY <1>8, <1>p, SumSame
  <1> QED
    BY <1>7, <1>9, <1>p DEF D
=============================================================================
