----------------------------- MODULE SumProofs -----------------------------
(***************************************************************************)
(* Facts about sums over finite sets, for SumFunctionOnSet of the          *)
(* community modules (Functions).  The fold is a recursive function over   *)
(* the subsets of a set, so each fact is shown by looking at a smallest    *)
(* subset for which it would fail.                                         *)
(***************************************************************************)
EXTENDS FiniteSetsExt, FiniteSetTheorems, TLAPS

\* A non-empty set of subsets of a finite set has a smallest member.
LEMMA SmallestSubset ==
    ASSUME NEW S, IsFiniteSet(S), NEW B, B \subseteq SUBSET S, B # {}
    PROVE  \E T \in B : \A U \in B : U \subseteq T => U = T
<1>1. IsWellFoundedOn(StrictSubsetOrdering(S), SUBSET S)
  BY FS_StrictSubsetOrderingWellFounded, FS_FiniteSubsetsOfFinite
<1>2. PICK T \in B : \A U \in B : <<U, T>> \notin StrictSubsetOrdering(S)
  BY <1>1, WFMin
<1>3. \A U \in B : U \subseteq T => U = T
  BY <1>2 DEF StrictSubsetOrdering
<1> QED
  BY <1>3

\* A function has finitely many values on a finite set.
LEMMA ImageFinite ==
    ASSUME NEW f, NEW S, IsFiniteSet(S)
    PROVE  IsFiniteSet({f[x] : x \in S})
<1> DEFINE T == {f[x] : x \in S}
           g == [x \in S |-> f[x]]
<1>1. g \in Surjection(S, T)
  BY DEF Surjection
<1> QED
  BY <1>1, FS_Surjection

\* A finite set of natural numbers that is not empty has a maximum.
LEMMA MaxExists ==
    ASSUME NEW S, S \subseteq Nat, IsFiniteSet(S), S # {}
    PROVE  Max(S) \in S /\ \A y \in S : y <= Max(S)
<1> DEFINE bounded(T) == \E m \in T : \A y \in T : y <= m
           B == {T \in SUBSET S : T # {} /\ ~bounded(T)}
<1>1. B = {}
  <2> SUFFICES ASSUME B # {} PROVE FALSE
    OBVIOUS
  <2>1. PICK T \in B : \A U \in B : U \subseteq T => U = T
    <3>1. IsFiniteSet(S) /\ B \subseteq SUBSET S /\ B # {}
      OBVIOUS
    <3> HIDE DEF B
    <3> QED
      BY ONLY <3>1, SmallestSubset
  <2>2. PICK x \in T : TRUE
    BY <2>1
  <2>3. CASE T \ {x} = {}
    BY <2>1, <2>2, <2>3
  <2>4. CASE T \ {x} # {}
    <3>1. bounded(T \ {x})
      <4>1. T \ {x} \in SUBSET S /\ T \ {x} \subseteq T /\ T \ {x} # T
        BY <2>1, <2>2
      <4>2. T \ {x} \notin B
        BY <2>1, <4>1
      <4> QED
        BY <2>4, <4>1, <4>2
    <3>2. PICK m \in T \ {x} : \A y \in T \ {x} : y <= m
      BY <3>1
    <3>3. T \subseteq Nat
      BY <2>1
    <3>4. bounded(T)
      BY <2>2, <3>2, <3>3
    <3> QED
      BY <2>1, <3>4
  <2> QED
    BY <2>3, <2>4
<1>2. \E x \in S : \A y \in S : x >= y
  BY <1>1
<1> QED
  BY <1>2 DEF Max

----------------------------------------------------------------------------
(* The fold behind SumFunctionOnSet *)

\* The element a fold takes next.
First(s) == CHOOSE x \in s : TRUE

\* g is the function that a fold of f over S computes with.
Accumulates(g, f, S) ==
    g = [s \in SUBSET S |-> IF s = {} THEN 0 ELSE f[First(s)] + g[s \ {First(s)}]]

\* The element a fold takes next is one of the set.
LEMMA FirstIn ==
    ASSUME NEW s, s # {}
    PROVE  First(s) \in s
BY DEF First

\* A sum is the value of an accumulating function at the set.
LEMMA SumUnfolds ==
    ASSUME NEW f, NEW S
    PROVE  SumFunctionOnSet(f, S) = (CHOOSE g : Accumulates(g, f, S))[S]
BY Zenon DEF SumFunctionOnSet, FoldFunctionOnSet, MapThenFoldSet, Accumulates, First

\* Two of them agree where both are defined.
LEMMA AccumulatorsAgree ==
    ASSUME NEW f, NEW S, NEW T, IsFiniteSet(S), NEW g, NEW h,
           Accumulates(g, f, S), Accumulates(h, f, T)
    PROVE  \A u \in SUBSET (S \cap T) : g[u] = h[u]
<1> DEFINE B == {u \in SUBSET (S \cap T) : g[u] # h[u]}
<1>1. B = {}
  <2> SUFFICES ASSUME B # {} PROVE FALSE
    OBVIOUS
  <2>1. PICK u \in B : \A v \in B : v \subseteq u => v = u
    <3>1. B \subseteq SUBSET S
      OBVIOUS
    <3> HIDE DEF B
    <3> QED
      BY <3>1, SmallestSubset
  <2>2. /\ u \in SUBSET S /\ u \in SUBSET T
        /\ g[u] = IF u = {} THEN 0 ELSE f[First(u)] + g[u \ {First(u)}]
        /\ h[u] = IF u = {} THEN 0 ELSE f[First(u)] + h[u \ {First(u)}]
    BY <2>1 DEF Accumulates
  <2>3. u # {}
    BY <2>1, <2>2
  <2>4. First(u) \in u
    BY <2>3, FirstIn
  <2>5. g[u \ {First(u)}] = h[u \ {First(u)}]
    BY <2>1, <2>2, <2>4
  <2> QED
    BY <2>1, <2>2, <2>3, <2>5
<1> QED
  BY <1>1

\* There is one for every finite set.
LEMMA AccumulatorExists ==
    ASSUME NEW f, NEW S, IsFiniteSet(S)
    PROVE  \E g : Accumulates(g, f, S)
<1> DEFINE B == {T \in SUBSET S : ~\E g : Accumulates(g, f, T)}
<1>1. B = {}
  <2> SUFFICES ASSUME B # {} PROVE FALSE
    OBVIOUS
  <2>1. PICK T \in B : \A U \in B : U \subseteq T => U = T
    <3>1. B \subseteq SUBSET S
      OBVIOUS
    <3> HIDE DEF B
    <3> QED
      BY <3>1, SmallestSubset
  <2> DEFINE acc(U) == CHOOSE g : Accumulates(g, f, U)
             new == [u \in SUBSET T |-> IF u = {} THEN 0
                       ELSE f[First(u)] + acc(u \ {First(u)})[u \ {First(u)}]]
  <2>2. ASSUME NEW U \in SUBSET T, U # T
        PROVE  Accumulates(acc(U), f, U) /\ IsFiniteSet(U)
    <3>1. \E g : Accumulates(g, f, U)
      BY <2>1, <2>2
    <3>2. IsFiniteSet(U)
      BY <2>1, FS_Subset
    <3> QED
      BY <3>1, <3>2
  <2>3. ASSUME NEW v \in SUBSET T, v # T
        PROVE  new[v] = acc(v)[v]
    <3>1. acc(v)[v] = IF v = {} THEN 0 ELSE f[First(v)] + acc(v)[v \ {First(v)}]
      <4>1. Accumulates(acc(v), f, v)
        BY <2>2, <2>3
      <4> HIDE DEF acc
      <4> QED
        BY <4>1 DEF Accumulates
    <3>2. CASE v = {}
      BY <3>1, <3>2
    <3>3. CASE v # {}
      <4> DEFINE w == v \ {First(v)}
      <4>1. w \in SUBSET T /\ w # T /\ w \in SUBSET (v \cap w)
        BY <2>3
      <4>2. /\ Accumulates(acc(v), f, v) /\ IsFiniteSet(v)
            /\ Accumulates(acc(w), f, w)
        BY <2>2, <2>3, <4>1
      <4>3. acc(v)[w] = acc(w)[w]
        <5> HIDE DEF acc, w
        <5> QED
          BY <4>1, <4>2, AccumulatorsAgree
      <4>4. new[v] = f[First(v)] + acc(w)[w]
        BY <3>3
      <4>5. acc(v)[v] = f[First(v)] + acc(v)[w]
        BY <3>1, <3>3
      <4> QED
        BY <4>3, <4>4, <4>5
    <3> QED
      BY <3>2, <3>3
  <2>4. \A u \in SUBSET T :
          new[u] = IF u = {} THEN 0 ELSE f[First(u)] + new[u \ {First(u)}]
    <3>1. ASSUME NEW u \in SUBSET T, u # {}
          PROVE  new[u] = f[First(u)] + new[u \ {First(u)}]
      <4>1. u \ {First(u)} \in SUBSET T /\ u \ {First(u)} # T
        BY <3>1, FirstIn
      <4>2. new[u \ {First(u)}] = acc(u \ {First(u)})[u \ {First(u)}]
        BY <2>3, <4>1
      <4>3. new[u] = f[First(u)] + acc(u \ {First(u)})[u \ {First(u)}]
        BY <3>1, Zenon
      <4> QED
        BY <4>2, <4>3
    <3>2. new[{}] = 0
      OBVIOUS
    <3> HIDE DEF new
    <3> QED
      BY <3>1, <3>2
  <2>5. Accumulates(new, f, T)
    <3>1. new = [u \in SUBSET T |-> new[u]]
      OBVIOUS
    <3> HIDE DEF new
    <3> QED
      BY <2>4, <3>1 DEF Accumulates
  <2> QED
    BY <2>1, <2>5
<1> QED
  BY <1>1

----------------------------------------------------------------------------
(* Sums *)

\* The recursion equation of a sum.
LEMMA SumStep ==
    ASSUME NEW f, NEW S, IsFiniteSet(S)
    PROVE  SumFunctionOnSet(f, S) =
             IF S = {} THEN 0
             ELSE f[First(S)] + SumFunctionOnSet(f, S \ {First(S)})
<1> DEFINE acc(U) == CHOOSE g : Accumulates(g, f, U)
           rest == S \ {First(S)}
<1>1. /\ Accumulates(acc(S), f, S) /\ IsFiniteSet(rest)
      /\ Accumulates(acc(rest), f, rest)
  <2>1. IsFiniteSet(rest)
    BY FS_Subset
  <2>2. (\E g : Accumulates(g, f, S)) /\ (\E g : Accumulates(g, f, rest))
    BY <2>1, AccumulatorExists
  <2> QED
    BY <2>1, <2>2
<1>2. SumFunctionOnSet(f, S) = acc(S)[S] /\ SumFunctionOnSet(f, rest) = acc(rest)[rest]
  BY SumUnfolds
<1> HIDE DEF acc
<1>3. acc(S)[S] = IF S = {} THEN 0 ELSE f[First(S)] + acc(S)[rest]
  BY <1>1 DEF Accumulates
<1>4. acc(S)[rest] = acc(rest)[rest]
  <2>1. rest \in SUBSET (S \cap rest)
    OBVIOUS
  <2> HIDE DEF rest
  <2> QED
    BY <1>1, <2>1, AccumulatorsAgree
<1> QED
  BY <1>2, <1>3, <1>4

\* A sum of natural numbers is one.
LEMMA SumNat ==
    ASSUME NEW f, NEW S, IsFiniteSet(S), \A x \in S : f[x] \in Nat
    PROVE  SumFunctionOnSet(f, S) \in Nat
<1> DEFINE B == {T \in SUBSET S : SumFunctionOnSet(f, T) \notin Nat}
<1>1. B = {}
  <2> SUFFICES ASSUME B # {} PROVE FALSE
    OBVIOUS
  <2>1. PICK T \in B : \A U \in B : U \subseteq T => U = T
    <3>1. IsFiniteSet(S) /\ B \subseteq SUBSET S /\ B # {}
      OBVIOUS
    <3> HIDE DEF B
    <3> QED
      BY ONLY <3>1, SmallestSubset
  <2>2. IsFiniteSet(T) /\ T \subseteq S
    BY <2>1, FS_Subset
  <2>3. SumFunctionOnSet(f, T) = IF T = {} THEN 0
          ELSE f[First(T)] + SumFunctionOnSet(f, T \ {First(T)})
    BY <2>2, SumStep
  <2>4. T # {}
    BY <2>1, <2>3
  <2>5. First(T) \in T
    BY <2>4, FirstIn
  <2>6. SumFunctionOnSet(f, T \ {First(T)}) \in Nat
    <3>1. T \ {First(T)} \in SUBSET S /\ T \ {First(T)} \subseteq T /\ T \ {First(T)} # T
      BY <2>2, <2>5
    <3> QED
      BY <2>1, <3>1
  <2>7. f[First(T)] \in Nat
    BY <2>2, <2>5
  <2>8. SumFunctionOnSet(f, T) \in Nat
    BY <2>3, <2>4, <2>6, <2>7
  <2> QED
    BY <2>1, <2>8
<1> QED
  BY <1>1

\* The order in which a fold takes the elements does not matter.
LEMMA SumTakesAny ==
    ASSUME NEW f, NEW S, IsFiniteSet(S), \A x \in S : f[x] \in Nat, NEW x \in S
    PROVE  SumFunctionOnSet(f, S) = f[x] + SumFunctionOnSet(f, S \ {x})
<1> DEFINE sum(T) == SumFunctionOnSet(f, T)
           B == {T \in SUBSET S : \E y \in T : sum(T) # f[y] + sum(T \ {y})}
<1>0. \A T \in SUBSET S : IsFiniteSet(T) /\ sum(T) \in Nat
  <2> SUFFICES ASSUME NEW T \in SUBSET S PROVE IsFiniteSet(T) /\ sum(T) \in Nat
    OBVIOUS
  <2>1. IsFiniteSet(T)
    BY FS_Subset
  <2>2. \A y \in T : f[y] \in Nat
    OBVIOUS
  <2> QED
    BY <2>1, <2>2, SumNat
<1>1. B = {}
  <2> SUFFICES ASSUME B # {} PROVE FALSE
    OBVIOUS
  <2>1. PICK T \in B : \A U \in B : U \subseteq T => U = T
    <3>1. IsFiniteSet(S) /\ B \subseteq SUBSET S /\ B # {}
      OBVIOUS
    <3> HIDE DEF B
    <3> QED
      BY ONLY <3>1, SmallestSubset
  <2>2. T \in SUBSET S /\ \E y \in T : sum(T) # f[y] + sum(T \ {y})
    BY <2>1
  <2>3. PICK y \in T : sum(T) # f[y] + sum(T \ {y})
    BY <2>2
  <2>4. ASSUME NEW U \in SUBSET T, U # T, NEW u \in U
        PROVE  sum(U) = f[u] + sum(U \ {u})
    <3>1. U \in SUBSET S /\ U \notin B
      BY <2>1, <2>2, <2>4
    <3> HIDE DEF sum
    <3> QED
      BY <3>1
  <2> DEFINE z == First(T)
  <2>5. z \in T /\ sum(T) = f[z] + sum(T \ {z})
    <3>1. IsFiniteSet(T) /\ T # {}
      BY <1>0, <2>2, <2>3
    <3> QED
      BY <3>1, SumStep, FirstIn
  <2>6. z # y
    BY <2>3, <2>5
  <2> HIDE DEF z, sum
  <2>7. sum(T \ {z}) = f[y] + sum((T \ {z}) \ {y})
    BY <2>3, <2>4, <2>5, <2>6
  <2>8. sum(T \ {y}) = f[z] + sum((T \ {y}) \ {z})
    BY <2>3, <2>4, <2>5, <2>6
  <2>9. (T \ {z}) \ {y} = (T \ {y}) \ {z}
    OBVIOUS
  <2>10. PICK n \in Nat : n = sum((T \ {y}) \ {z})
    BY <1>0, <2>2
  <2>11. f[y] \in Nat /\ f[z] \in Nat
    BY <2>2, <2>3, <2>5
  <2>12. sum(T) = f[z] + (f[y] + n) /\ sum(T \ {y}) = f[z] + n
    BY <2>5, <2>7, <2>8, <2>9, <2>10
  <2>13. f[z] + (f[y] + n) = f[y] + (f[z] + n)
    BY <2>10, <2>11
  <2> QED
    BY <2>3, <2>12, <2>13
<1> HIDE DEF sum
<1>2. sum(S) = f[x] + sum(S \ {x})
  BY <1>1
<1> QED
  BY <1>2 DEF sum

\* What is in A but not in C is made up for by g: the sum over A is covered.
LEMMA SumCovered ==
    ASSUME NEW f, NEW g, NEW S, IsFiniteSet(S),
           \A x \in S : f[x] \in Nat /\ g[x] \in Nat,
           NEW A, A \subseteq S, NEW C, C \subseteq S,
           \A x \in A \ C : f[x] <= g[x]
    PROVE  SumFunctionOnSet(f, A) <= SumFunctionOnSet(f, C) + SumFunctionOnSet(g, S)
<1> DEFINE fs(T) == SumFunctionOnSet(f, T)
           gs(T) == SumFunctionOnSet(g, T)
           B == {T \in SUBSET S : ~(fs(A \cap T) <= fs(C \cap T) + gs(T))}
<1>0. ASSUME NEW T \in SUBSET S
      PROVE  IsFiniteSet(T) /\ fs(T) \in Nat /\ gs(T) \in Nat
  <2>1. IsFiniteSet(T)
    BY FS_Subset
  <2> QED
    BY <2>1, SumNat
<1>1. ASSUME NEW T \in SUBSET S, NEW x \in T
      PROVE  fs(T) = f[x] + fs(T \ {x}) /\ gs(T) = g[x] + gs(T \ {x})
  BY <1>0, SumTakesAny
<1>2. fs({}) = 0 /\ gs({}) = 0
  BY SumStep, FS_EmptySet
<1> HIDE DEF fs, gs
<1>3. B = {}
  <2> SUFFICES ASSUME B # {} PROVE FALSE
    OBVIOUS
  <2>1. PICK T \in B : \A U \in B : U \subseteq T => U = T
    <3>1. IsFiniteSet(S) /\ B \subseteq SUBSET S /\ B # {}
      OBVIOUS
    <3> HIDE DEF B
    <3> QED
      BY ONLY <3>1, SmallestSubset
  <2>2. T \in SUBSET S /\ ~(fs(A \cap T) <= fs(C \cap T) + gs(T))
    BY <2>1
  <2>3. T # {}
    <3>1. SUFFICES ASSUME T = {} PROVE FALSE
      OBVIOUS
    <3>2. A \cap T = {} /\ C \cap T = {}
      BY <3>1
    <3>3. fs(A \cap T) = 0 /\ fs(C \cap T) = 0 /\ gs(T) = 0
      BY <1>2, <3>1, <3>2
    <3> QED
      BY <2>2, <3>3
  <2>4. PICK x \in T : TRUE
    BY <2>3
  <2> DEFINE U == T \ {x}
  <2>5. U \in SUBSET S /\ fs(A \cap U) <= fs(C \cap U) + gs(U)
    <3>1. U \in SUBSET S /\ U # T /\ U \subseteq T
      BY <2>2, <2>4
    <3>2. U \notin B
      BY <2>1, <3>1
    <3> QED
      BY <3>1, <3>2
  <2>6. gs(T) = g[x] + gs(U)
    BY <1>1, <2>2, <2>4
  <2>7. fs(A \cap T) = IF x \in A THEN f[x] + fs(A \cap U) ELSE fs(A \cap U)
    <3>1. (A \cap T) \ {x} = A \cap U /\ A \cap T \in SUBSET S
      BY <2>2
    <3>2. x \notin A => A \cap T = A \cap U
      OBVIOUS
    <3> QED
      BY <1>1, <2>4, <3>1, <3>2
  <2>8. fs(C \cap T) = IF x \in C THEN f[x] + fs(C \cap U) ELSE fs(C \cap U)
    <3>1. (C \cap T) \ {x} = C \cap U /\ C \cap T \in SUBSET S
      BY <2>2
    <3>2. x \notin C => C \cap T = C \cap U
      OBVIOUS
    <3> QED
      BY <1>1, <2>4, <3>1, <3>2
  <2>9. /\ fs(A \cap U) \in Nat /\ fs(C \cap U) \in Nat /\ gs(U) \in Nat
        /\ f[x] \in Nat /\ g[x] \in Nat
    <3>1. A \cap U \in SUBSET S /\ C \cap U \in SUBSET S
      OBVIOUS
    <3> QED
      BY <1>0, <2>2, <2>4, <2>5, <3>1
  <2>10. x \in A /\ x \notin C => f[x] <= g[x]
    OBVIOUS
  <2> HIDE DEF U
  <2> QED
    BY <2>2, <2>5, <2>6, <2>7, <2>8, <2>9, <2>10
<1>4. S \notin B /\ A \cap S = A /\ C \cap S = C
  BY <1>3
<1>5. fs(A) <= fs(C) + gs(S)
  BY <1>4
<1> QED
  BY <1>5 DEF fs, gs

\* A sum of zeros is zero.
LEMMA SumZero ==
    ASSUME NEW f, NEW S, IsFiniteSet(S), \A x \in S : f[x] = 0
    PROVE  SumFunctionOnSet(f, S) = 0
<1>1. SumFunctionOnSet(f, {}) = 0 /\ {} \subseteq S
  BY SumStep, FS_EmptySet
<1> DEFINE B == {T \in SUBSET S : SumFunctionOnSet(f, T) # 0}
<1>2. B = {}
  <2> SUFFICES ASSUME B # {} PROVE FALSE
    OBVIOUS
  <2>1. PICK T \in B : \A U \in B : U \subseteq T => U = T
    <3>1. IsFiniteSet(S) /\ B \subseteq SUBSET S /\ B # {}
      OBVIOUS
    <3> HIDE DEF B
    <3> QED
      BY ONLY <3>1, SmallestSubset
  <2>2. T \subseteq S /\ T # {} /\ IsFiniteSet(T)
    BY <1>1, <2>1, FS_Subset
  <2>3. First(T) \in T
    BY <2>2, FirstIn
  <2>4. T \ {First(T)} \in SUBSET S /\ T \ {First(T)} \subseteq T /\ T \ {First(T)} # T
    BY <2>2, <2>3
  <2>5. SumFunctionOnSet(f, T \ {First(T)}) = 0 /\ f[First(T)] = 0
    BY <2>1, <2>2, <2>3, <2>4
  <2>6. SumFunctionOnSet(f, T) = 0 + 0
    BY <2>2, <2>5, SumStep
  <2> QED
    BY <2>1, <2>6
<1> QED
  BY <1>2

\* A sum over fewer elements is not larger.
LEMMA SumMonotone ==
    ASSUME NEW f, NEW S, IsFiniteSet(S), \A x \in S : f[x] \in Nat,
           NEW A, A \subseteq S
    PROVE  SumFunctionOnSet(f, A) <= SumFunctionOnSet(f, S)
<1> DEFINE g == [x \in S |-> 0]
<1>1. \A x \in S : g[x] = 0
  OBVIOUS
<1> HIDE DEF g
<1>2. SumFunctionOnSet(g, S) = 0
  BY <1>1, SumZero
<1>3. SumFunctionOnSet(f, A) <= SumFunctionOnSet(f, S) + SumFunctionOnSet(g, S)
  BY <1>1, SumCovered
<1>4. SumFunctionOnSet(f, S) \in Nat
  BY SumNat
<1> QED
  BY <1>2, <1>3, <1>4
=============================================================================
