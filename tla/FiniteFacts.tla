---------------------------- MODULE FiniteFacts ----------------------------
(***************************************************************************)
(* What the proofs need of finite sets: a greatest element, induction over *)
(* the subsets, and with it the value of a fold and the laws of a sum      *)
(* (MapThenFoldSet, SumFunctionOnSet), step by step.                       *)
(***************************************************************************)
EXTENDS Integers, FiniteSets, FiniteSetsExt, Functions, Folds, FiniteSetTheorems,
        WellFoundedInduction, TLAPS

\* The greatest element of a finite set of numbers is one of them, and none is
\* above it.
LEMMA MaxOfFinite ==
  ASSUME NEW S \in SUBSET Int, IsFiniteSet(S), S # {}
  PROVE  Max(S) \in S /\ \A y \in S : y <= Max(S)
<1> DEFINE Above(x) == {y \in S : y >= x}
<1> DEFINE Tails == {Above(x) : x \in S}
<1>1. IsWellFoundedOn(StrictSubsetOrdering(S), FiniteSubsetsOf(S))
  BY FS_StrictSubsetOrderingWellFounded
<1>2. Tails \subseteq FiniteSubsetsOf(S)
  BY FS_Subset DEF FiniteSubsetsOf
<1>3. Tails # {}
  OBVIOUS
<1>4. PICK t \in Tails : \A u \in Tails : ~(<<u, t>> \in StrictSubsetOrdering(S))
  <2> HIDE DEF Tails
  <2> QED BY <1>1, <1>2, <1>3, WFMin
<1>5. PICK top \in S : t = Above(top)
  OBVIOUS
<1>6. \A y \in S : top >= y
  <2> SUFFICES ASSUME NEW y \in S, ~(top >= y) PROVE FALSE
    OBVIOUS
  <2>0. S \subseteq Int /\ y \in Int /\ top \in Int /\ y > top
    OBVIOUS
  <2>1. Above(y) \subseteq Above(top)
    <3> SUFFICES ASSUME NEW z \in Above(y) PROVE z \in Above(top)
      OBVIOUS
    <3>1. z \in S /\ z \in Int /\ z >= y
      BY <2>0
    <3>2. z >= top
      BY <2>0, <3>1
    <3> QED BY <3>1, <3>2
  <2>4. top \in Above(top)
    BY <2>0
  <2>5. top \notin Above(y)
    BY <2>0
  <2>2. Above(y) # Above(top) /\ Above(y) \in SUBSET S /\ Above(top) \in SUBSET S
    BY <2>1, <2>4, <2>5
  <2>3. <<Above(y), Above(top)>> \in StrictSubsetOrdering(S)
    <3> HIDE DEF Above
    <3> QED BY <2>1, <2>2 DEF StrictSubsetOrdering
  <2> QED BY <2>3, <1>4, <1>5
<1>7. Max(S) \in S /\ \A y \in S : Max(S) >= y
  BY <1>6 DEF Max
<1> QED BY <1>7

\* The least of some natural numbers is one of them.
LEMMA LeastNat ==
  ASSUME NEW S \in SUBSET Nat, S # {}
  PROVE  Min(S) \in S /\ \A y \in S : Min(S) <= y
<1> DEFINE R == {ss \in Nat \X Nat : ss[1] < ss[2]}
<1>1. IsWellFoundedOn(R, Nat)
  BY NatLessThanWellFounded DEF OpToRel
<1> HIDE DEF R
<1>2. \E x \in S : \A y \in S : ~ (<<y, x>> \in R)
  BY <1>1, WFMin
<1>3. \A x, y \in S : y < x => <<y, x>> \in R
  BY DEF R
<1>4. \A x, y \in S : ~(y < x) => x <= y
  OBVIOUS
<1>5. \E x \in S : \A y \in S : x <= y
  BY <1>2, <1>3, <1>4
<1> QED BY <1>5 DEF Min

-----------------------------------------------------------------------------
(* Folds.  Induction over the subsets of a finite set gives a fold its     *)
(* value, step by step.                                                    *)

\* Among subsets of a finite set one contains no other.
LEMMA LeastOfSubsets ==
  ASSUME NEW S, IsFiniteSet(S), NEW Bad \in SUBSET SUBSET S, Bad # {}
  PROVE  \E t \in Bad : \A u \in Bad : u \subseteq t => u = t
<1>1. IsWellFoundedOn(StrictSubsetOrdering(S), FiniteSubsetsOf(S))
  BY FS_StrictSubsetOrderingWellFounded
<1>2. Bad \subseteq FiniteSubsetsOf(S)
  BY FS_FiniteSubsetsOfFinite
<1>3. PICK t \in Bad : \A u \in Bad : ~(<<u, t>> \in StrictSubsetOrdering(S))
  BY <1>1, <1>2, WFMin
<1>4. ASSUME NEW u \in Bad, u \subseteq t, u # t PROVE FALSE
  <2>1. <<u, t>> \in StrictSubsetOrdering(S)
    BY <1>4 DEF StrictSubsetOrdering
  <2> QED BY <2>1, <1>3
<1> QED BY <1>4

\* What holds of the empty set and survives putting the picked element back
\* holds of every subset.
LEMMA OnSubsets ==
  ASSUME NEW S, IsFiniteSet(S), NEW pick, NEW Good,
         \A s \in SUBSET S : s # {} => pick[s] \in s,
         {} \in Good,
         \A s \in SUBSET S : s # {} /\ s \ {pick[s]} \in Good => s \in Good
  PROVE  \A s \in SUBSET S : s \in Good
<1> DEFINE Bad == {s \in SUBSET S : s \notin Good}
<1> SUFFICES ASSUME Bad # {} PROVE FALSE
  OBVIOUS
<1>1. PICK t \in Bad : \A u \in Bad : u \subseteq t => u = t
  <2>1. Bad \in SUBSET SUBSET S
    OBVIOUS
  <2> HIDE DEF Bad
  <2> QED BY <2>1, LeastOfSubsets
<1>2. t # {} /\ pick[t] \in t
  OBVIOUS
<1>3. /\ t \ {pick[t]} \in SUBSET S /\ t \ {pick[t]} # t
      /\ t \ {pick[t]} \subseteq t /\ t \in SUBSET S /\ t \notin Good
  BY <1>2
<1>4. t \ {pick[t]} \in Good
  BY <1>1, <1>3
<1> QED BY <1>2, <1>3, <1>4

\* A fold over the subsets of S that takes out one picked element at a time.
FoldsBy(f, S, pick, base, op) ==
    \A s \in SUBSET S :
        f[s] = IF s = {} THEN base ELSE op[<<pick[s], f[s \ {pick[s]}]>>]

HasFold(S, pick, base, op) == \E f : FoldsBy(f, S, pick, base, op)

\* There is such a fold: the families of subsets it can be given on grow, one
\* set at a time, to all of them.
LEMMA FoldExists ==
  ASSUME NEW S, IsFiniteSet(S), NEW pick,
         \A s \in SUBSET S : s # {} => pick[s] \in s,
         NEW base, NEW op
  PROVE  HasFold(S, pick, base, op)
<1> DEFINE E(f, s) == IF s = {} THEN base ELSE op[<<pick[s], f[s \ {pick[s]}]>>]
<1> DEFINE Solves(f, D) == /\ \A s \in D : f[s] = E(f, s)
                           /\ \A s \in D : s # {} => s \ {pick[s]} \in D
<1> DEFINE Open == {M \in SUBSET SUBSET S : \E f : Solves(f, (SUBSET S) \ M)}
<1>1. Open # {}
  <2> DEFINE nil == [s \in {} |-> 0]
  <2>1. Solves(nil, {})
    OBVIOUS
  <2>2. (SUBSET S) \ (SUBSET S) = {}
    OBVIOUS
  <2>3. Solves(nil, (SUBSET S) \ (SUBSET S))
    <3> HIDE DEF Solves, nil
    <3> QED BY <2>1, <2>2
  <2>4. SUBSET S \in Open
    <3> HIDE DEF Solves, nil
    <3> QED BY <2>3
  <2> QED BY <2>4
<1>2. PICK M \in Open : \A u \in Open : u \subseteq M => u = M
  <2>1. IsFiniteSet(SUBSET S)
    BY FS_SUBSET
  <2>2. Open \in SUBSET SUBSET (SUBSET S)
    OBVIOUS
  <2> HIDE DEF Open
  <2> QED BY <2>1, <2>2, <1>1, LeastOfSubsets
<1> DEFINE D == (SUBSET S) \ M
<1>3. PICK f : Solves(f, D)
  <2> HIDE DEF Solves
  <2> QED BY <1>2
<1>4. M = {}
  <2> SUFFICES ASSUME M # {} PROVE FALSE
    OBVIOUS
  <2>1. PICK t \in M : \A u \in M : u \subseteq t => u = t
    <3>1. M \in SUBSET SUBSET S
      OBVIOUS
    <3> QED BY <3>1, LeastOfSubsets
  <2>2. t \in SUBSET S /\ t \notin D
    OBVIOUS
  <2>3. t # {} => t \ {pick[t]} \in D
    <3> SUFFICES ASSUME t # {} PROVE t \ {pick[t]} \in D
      OBVIOUS
    <3>1. pick[t] \in t
      BY <2>2
    <3>2. t \ {pick[t]} \in SUBSET S /\ t \ {pick[t]} # t /\ t \ {pick[t]} \subseteq t
      BY <2>2, <3>1
    <3> QED BY <3>2, <2>1
  <2> DEFINE g == [s \in D \union {t} |-> IF s = t THEN E(f, t) ELSE f[s]]
  <2>4. Solves(g, D \union {t})
    <3>2. \A s \in D \union {t} : s # {} => s \ {pick[s]} \in D
      BY <2>3, <1>3
    <3>3. \A s \in D : g[s] = f[s]
      BY <2>2
    <3>4. ASSUME NEW s \in D \union {t} PROVE g[s] = E(g, s)
      <4>1. E(g, s) = E(f, s)
        <5> HIDE DEF g, D
        <5> QED BY <3>2, <3>3
      <4>2. CASE s = t
        BY <4>1, <4>2
      <4>3. CASE s \in D
        BY <4>1, <4>3, <3>3, <1>3
      <4> QED BY <4>2, <4>3
    <3> HIDE DEF g, E
    <3> QED BY <3>2, <3>4
  <2>5. D \union {t} = (SUBSET S) \ (M \ {t})
    BY <2>2
  <2>6. M \ {t} \in Open
    <3>1. Solves(g, (SUBSET S) \ (M \ {t}))
      <4> HIDE DEF Solves, g
      <4> QED BY <2>4, <2>5
    <3> HIDE DEF Solves, g
    <3> QED BY <3>1
  <2>7. M \ {t} \subseteq M /\ M \ {t} # M
    OBVIOUS
  <2> HIDE DEF Open
  <2> QED BY <2>6, <2>7, <1>2
<1>5. D = SUBSET S
  BY <1>4
<1>6. \A s \in SUBSET S : f[s] = E(f, s)
  BY <1>3, <1>5
<1> QED BY <1>6 DEF HasFold, FoldsBy

-----------------------------------------------------------------------------
(* Sums.  SumFunctionOnSet takes out one element after the other, so what  *)
(* holds of a sum is shown on the subsets, one element at a time.          *)
Some(s) == CHOOSE x \in s : TRUE

Summed(f, S) == IsFiniteSet(S) /\ \A x \in S : f[x] \in Int

\* Induction over the subsets, by the element a sum takes out next.
LEMMA BySome ==
  ASSUME NEW S, IsFiniteSet(S), NEW Good, {} \in Good,
         \A s \in SUBSET S : s # {} /\ s \ {Some(s)} \in Good => s \in Good
  PROVE  S \in Good
<1> DEFINE pick == [s \in SUBSET S |-> Some(s)]
<1>1. \A s \in SUBSET S : s # {} => pick[s] \in s
  BY DEF Some
<1>2. \A s \in SUBSET S : s # {} /\ s \ {pick[s]} \in Good => s \in Good
  OBVIOUS
<1> HIDE DEF pick
<1>3. \A s \in SUBSET S : s \in Good
  BY <1>1, <1>2, OnSubsets
<1> QED BY <1>3

\* The running sums of f over the subsets of S.
Tallies(g, f, S) ==
    \A s \in SUBSET S :
        /\ g[s] \in Int
        /\ g[s] = IF s = {} THEN 0 ELSE f[Some(s)] + g[s \ {Some(s)}]

LEMMA TalliesExist ==
  ASSUME NEW f, NEW S, Summed(f, S)
  PROVE  \E g : Tallies(g, f, S) /\ SumFunctionOnSet(f, S) = g[S]
<1> DEFINE pick == [s \in SUBSET S |-> Some(s)]
<1> DEFINE plus == [p \in S \X Int |-> f[p[1]] + p[2]]
<1> DEFINE Sums(g) == g = [s \in SUBSET S |->
                       IF s = {} THEN 0
                       ELSE f[CHOOSE x \in s : TRUE]
                            + g[s \ {CHOOSE x \in s : TRUE}]]
<1> DEFINE iter == CHOOSE g : g = [s \in SUBSET S |->
                       IF s = {} THEN 0
                       ELSE f[CHOOSE x \in s : TRUE]
                            + g[s \ {CHOOSE x \in s : TRUE}]]
<1>1. SumFunctionOnSet(f, S) = iter[S]
  BY DEF SumFunctionOnSet, FoldFunctionOnSet, MapThenFoldSet
<1>2. /\ IsFiniteSet(S) /\ \A x \in S : f[x] \in Int
      /\ \A s \in SUBSET S : s # {} => pick[s] \in s
      /\ \A s \in SUBSET S : pick[s] = Some(s) /\ s \ {pick[s]} \in SUBSET S
  BY DEF Summed, Some
<1>3. PICK h : \A s \in SUBSET S : h[s] = IF s = {} THEN 0
                       ELSE plus[<<pick[s], h[s \ {pick[s]}]>>]
  <2> HIDE DEF pick, plus
  <2>1. HasFold(S, pick, 0, plus)
    BY <1>2, FoldExists
  <2> QED BY <2>1 DEF HasFold, FoldsBy
<1>4. \A s \in SUBSET S : s # {} /\ h[s \ {pick[s]}] \in Int =>
            h[s] = f[pick[s]] + h[s \ {pick[s]}] /\ h[s] \in Int
  <2> SUFFICES ASSUME NEW s \in SUBSET S, s # {}, h[s \ {pick[s]}] \in Int
               PROVE  h[s] = f[pick[s]] + h[s \ {pick[s]}] /\ h[s] \in Int
    OBVIOUS
  <2>1. pick[s] \in S /\ f[pick[s]] \in Int
    BY <1>2
  <2>2. h[s] = plus[<<pick[s], h[s \ {pick[s]}]>>]
    <3> HIDE DEF pick, plus
    <3> QED BY <1>3
  <2> HIDE DEF pick
  <2> QED BY <2>1, <2>2
<1> DEFINE Good == {s \in SUBSET S : h[s] \in Int}
<1>5. \A s \in SUBSET S : s \in Good
  <2>1. {} \in Good
    <3>1. h[{}] = 0
      <4> HIDE DEF pick, plus
      <4> QED BY <1>3
    <3> QED BY <3>1
  <2>2. \A s \in SUBSET S : s # {} /\ s \ {pick[s]} \in Good => s \in Good
    <3> HIDE DEF pick
    <3> QED BY <1>4
  <2> HIDE DEF Good, pick
  <2> QED BY <2>1, <2>2, <1>2, OnSubsets
<1> DEFINE g == [s \in SUBSET S |-> h[s]]
<1>6. Tallies(g, f, S)
  <2>1. ASSUME NEW s \in SUBSET S, s # {}
        PROVE  h[s] = f[Some(s)] + h[s \ {Some(s)}] /\ s \ {Some(s)} \in SUBSET S
    <3> HIDE DEF pick, Good
    <3>1. h[s \ {pick[s]}] \in Int
      BY <1>2, <1>5 DEF Good
    <3> QED BY <1>2, <1>4, <2>1, <3>1
  <2>2. h[{}] = 0
    <3> HIDE DEF pick, plus
    <3> QED BY <1>3
  <2> QED BY <1>5, <2>1, <2>2 DEF Tallies
<1>7. Sums(g)
  <2>1. g = [s \in SUBSET S |-> IF s = {} THEN 0
                       ELSE f[Some(s)] + g[s \ {Some(s)}]]
    <3>1. \A s \in SUBSET S : g[s] = IF s = {} THEN 0 ELSE f[Some(s)] + g[s \ {Some(s)}]
      <4> HIDE DEF g
      <4> QED BY <1>6 DEF Tallies
    <3> QED BY <3>1
  <2> HIDE DEF g
  <2> QED BY <2>1 DEF Some
<1>8. Sums(iter)
  <2> HIDE DEF g
  <2> QED BY <1>7
<1>9. Tallies(iter, f, S)
  <2> HIDE DEF iter
  <2>1. iter = [s \in SUBSET S |-> IF s = {} THEN 0
                       ELSE f[Some(s)] + iter[s \ {Some(s)}]]
    BY <1>8 DEF Some
  <2>2. \A s \in SUBSET S : s # {} =>
           Some(s) \in S /\ f[Some(s)] \in Int /\ s \ {Some(s)} \in SUBSET S
    BY <1>2
  <2> DEFINE Settled == {s \in SUBSET S : iter[s] \in Int}
  <2>3. S \in SUBSET S
    OBVIOUS
  <2>4. \A s \in SUBSET S : s \in Settled
    <3>1. {} \in Settled
      BY <2>1
    <3>2. ASSUME NEW s \in SUBSET S, s # {}, s \ {pick[s]} \in Settled PROVE s \in Settled
      <4>1. iter[s] = f[Some(s)] + iter[s \ {Some(s)}]
        BY <2>1, <3>2
      <4>2. iter[s \ {Some(s)}] \in Int
        BY <3>2
      <4> QED BY <2>2, <3>2, <4>1, <4>2
    <3> HIDE DEF pick
    <3> HIDE DEF Settled
    <3> QED BY <3>1, <3>2, <1>2, OnSubsets
  <2> QED BY <2>1, <2>4 DEF Tallies
<1> HIDE DEF iter
<1> QED BY <1>1, <1>9

\* A sum and the sum without the element taken out first.
LEMMA SumStep ==
  ASSUME NEW f, NEW S, Summed(f, S)
  PROVE  /\ SumFunctionOnSet(f, S) \in Int
         /\ S = {} => SumFunctionOnSet(f, S) = 0
         /\ S # {} => SumFunctionOnSet(f, S)
                          = f[Some(S)] + SumFunctionOnSet(f, S \ {Some(S)})
<1>1. PICK g : Tallies(g, f, S) /\ SumFunctionOnSet(f, S) = g[S]
  BY TalliesExist
<1>2. /\ SumFunctionOnSet(f, S) \in Int
      /\ S = {} => SumFunctionOnSet(f, S) = 0
  BY <1>1 DEF Tallies
<1>3. ASSUME S # {} PROVE SumFunctionOnSet(f, S) = f[Some(S)] + SumFunctionOnSet(f, S \ {Some(S)})
  <2> DEFINE T == S \ {Some(S)}
  <2>1. IsFiniteSet(T)
    BY FS_Subset DEF Summed
  <2>2. Summed(f, T)
    BY <2>1 DEF Summed
  <2>3. PICK h : Tallies(h, f, T) /\ SumFunctionOnSet(f, T) = h[T]
    <3> HIDE DEF T
    <3> QED BY <2>2, TalliesExist
  <2> DEFINE Good == {s \in SUBSET T : g[s] = h[s]}
  <2>4. T \in Good
    <3>1. {} \in Good
      BY <1>1, <2>3 DEF Tallies
    <3>2. ASSUME NEW s \in SUBSET T, s # {}, s \ {Some(s)} \in Good PROVE s \in Good
      <4>1. s \in SUBSET S
        OBVIOUS
      <4>2. g[s] = f[Some(s)] + g[s \ {Some(s)}]
        BY <1>1, <4>1, <3>2 DEF Tallies
      <4>3. h[s] = f[Some(s)] + h[s \ {Some(s)}]
        <5> HIDE DEF T
        <5> QED BY <2>3, <3>2 DEF Tallies
      <4> QED BY <3>2, <4>2, <4>3
    <3> HIDE DEF Good, T
    <3> QED BY <2>1, <3>1, <3>2, BySome
  <2>5. g[S] = f[Some(S)] + g[T]
    BY <1>1, <1>3 DEF Tallies
  <2> QED BY <1>1, <2>3, <2>4, <2>5
<1> QED BY <1>2, <1>3

LEMMA SumEmpty == ASSUME NEW f PROVE Summed(f, {}) /\ SumFunctionOnSet(f, {}) = 0
<1>1. Summed(f, {})
  BY FS_EmptySet DEF Summed
<1>2. {} = {} => SumFunctionOnSet(f, {}) = 0
  BY <1>1, SumStep
<1> QED BY <1>1, <1>2

LEMMA SummedPart ==
  ASSUME NEW f, NEW S, Summed(f, S), NEW T \in SUBSET S
  PROVE  Summed(f, T)
<1>1. IsFiniteSet(T)
  BY FS_Subset DEF Summed
<1> QED BY <1>1 DEF Summed

\* Sums are monotone.
LEMMA SumMonotone ==
  ASSUME NEW S, NEW f, NEW g, Summed(f, S), Summed(g, S), \A x \in S : f[x] <= g[x]
  PROVE  SumFunctionOnSet(f, S) <= SumFunctionOnSet(g, S)
<1> DEFINE Good == {s \in SUBSET S : SumFunctionOnSet(f, s) <= SumFunctionOnSet(g, s)}
<1>1. {} \in Good
  BY SumEmpty
<1>2. ASSUME NEW s \in SUBSET S, s # {}, s \ {Some(s)} \in Good PROVE s \in Good
  <2>1. Summed(f, s) /\ Summed(g, s) /\ Summed(f, s \ {Some(s)}) /\ Summed(g, s \ {Some(s)})
    BY SummedPart
  <2>2. /\ f[Some(s)] \in Int /\ g[Some(s)] \in Int /\ f[Some(s)] <= g[Some(s)]
    BY <1>2 DEF Summed, Some
  <2>3. /\ SumFunctionOnSet(f, s) = f[Some(s)] + SumFunctionOnSet(f, s \ {Some(s)})
        /\ SumFunctionOnSet(g, s) = g[Some(s)] + SumFunctionOnSet(g, s \ {Some(s)})
    BY <1>2, <2>1, SumStep
  <2>4. SumFunctionOnSet(f, s \ {Some(s)}) \in Int /\ SumFunctionOnSet(g, s \ {Some(s)}) \in Int
    BY <2>1, SumStep
  <2> QED BY <1>2, <2>2, <2>3, <2>4
<1>3. IsFiniteSet(S)
  BY DEF Summed
<1> HIDE DEF Good
<1>4. S \in Good
  BY <1>1, <1>2, <1>3, BySome
<1> QED BY <1>4 DEF Good

\* The sum of pointwise sums.
LEMMA SumPlus ==
  ASSUME NEW S, NEW f, NEW g, NEW h, Summed(f, S), Summed(g, S),
         \A x \in S : h[x] = f[x] + g[x]
  PROVE  /\ Summed(h, S)
         /\ SumFunctionOnSet(h, S) = SumFunctionOnSet(f, S) + SumFunctionOnSet(g, S)
<1> DEFINE Good == {s \in SUBSET S :
                       SumFunctionOnSet(h, s) = SumFunctionOnSet(f, s) + SumFunctionOnSet(g, s)}
<1>0. Summed(h, S)
  BY DEF Summed
<1>1. {} \in Good
  BY SumEmpty
<1>2. ASSUME NEW s \in SUBSET S, s # {}, s \ {Some(s)} \in Good PROVE s \in Good
  <2>1. /\ Summed(f, s) /\ Summed(g, s) /\ Summed(h, s)
        /\ Summed(f, s \ {Some(s)}) /\ Summed(g, s \ {Some(s)})
    BY <1>0, SummedPart
  <2>2. /\ f[Some(s)] \in Int /\ g[Some(s)] \in Int /\ h[Some(s)] = f[Some(s)] + g[Some(s)]
    BY <1>2 DEF Summed, Some
  <2>3. /\ SumFunctionOnSet(f, s) = f[Some(s)] + SumFunctionOnSet(f, s \ {Some(s)})
        /\ SumFunctionOnSet(g, s) = g[Some(s)] + SumFunctionOnSet(g, s \ {Some(s)})
        /\ SumFunctionOnSet(h, s) = h[Some(s)] + SumFunctionOnSet(h, s \ {Some(s)})
    BY <1>2, <2>1, SumStep
  <2>4. SumFunctionOnSet(f, s \ {Some(s)}) \in Int /\ SumFunctionOnSet(g, s \ {Some(s)}) \in Int
    BY <2>1, SumStep
  <2> QED BY <1>2, <2>2, <2>3, <2>4
<1>3. IsFiniteSet(S)
  BY DEF Summed
<1> HIDE DEF Good
<1>4. S \in Good
  BY <1>1, <1>2, <1>3, BySome
<1> QED BY <1>0, <1>4 DEF Good

\* A factor can be taken out.
LEMMA SumTimes ==
  ASSUME NEW S, NEW f, NEW h, NEW k \in Int, Summed(f, S), \A x \in S : h[x] = k * f[x]
  PROVE  /\ Summed(h, S)
         /\ SumFunctionOnSet(h, S) = k * SumFunctionOnSet(f, S)
<1> DEFINE Good == {s \in SUBSET S : SumFunctionOnSet(h, s) = k * SumFunctionOnSet(f, s)}
<1>0. Summed(h, S)
  BY DEF Summed
<1>1. {} \in Good
  BY SumEmpty
<1>2. ASSUME NEW s \in SUBSET S, s # {}, s \ {Some(s)} \in Good PROVE s \in Good
  <2>1. Summed(f, s) /\ Summed(h, s) /\ Summed(f, s \ {Some(s)})
    BY <1>0, SummedPart
  <2>2. /\ f[Some(s)] \in Int /\ h[Some(s)] = k * f[Some(s)]
    BY <1>2 DEF Summed, Some
  <2>3. /\ SumFunctionOnSet(f, s) = f[Some(s)] + SumFunctionOnSet(f, s \ {Some(s)})
        /\ SumFunctionOnSet(h, s) = h[Some(s)] + SumFunctionOnSet(h, s \ {Some(s)})
    BY <1>2, <2>1, SumStep
  <2>4. PICK a \in Int, b \in Int : a = f[Some(s)] /\ b = SumFunctionOnSet(f, s \ {Some(s)})
    BY <2>1, <2>2, SumStep
  <2>5. k * (a + b) = k * a + k * b
    OBVIOUS
  <2> QED BY <1>2, <2>2, <2>3, <2>4, <2>5
<1>3. IsFiniteSet(S)
  BY DEF Summed
<1> HIDE DEF Good
<1>4. S \in Good
  BY <1>1, <1>2, <1>3, BySome
<1> QED BY <1>0, <1>4 DEF Good

\* The sum of one number is the number times the size of the set.
LEMMA SumConstant ==
  ASSUME NEW S, IsFiniteSet(S), NEW f, NEW k \in Int, \A x \in S : f[x] = k
  PROVE  Summed(f, S) /\ SumFunctionOnSet(f, S) = k * Cardinality(S)
<1> DEFINE Good == {s \in SUBSET S : SumFunctionOnSet(f, s) = k * Cardinality(s)}
<1>0. Summed(f, S)
  BY DEF Summed
<1>1. {} \in Good
  <2>1. Cardinality({}) = 0 /\ SumFunctionOnSet(f, {}) = 0
    BY FS_EmptySet, SumEmpty
  <2> QED BY <2>1
<1>2. ASSUME NEW s \in SUBSET S, s # {}, s \ {Some(s)} \in Good PROVE s \in Good
  <2>1. Summed(f, s) /\ IsFiniteSet(s) /\ IsFiniteSet(s \ {Some(s)})
    BY <1>0, SummedPart DEF Summed
  <2>2. Some(s) \in s /\ f[Some(s)] = k
    BY <1>2 DEF Some
  <2>3. SumFunctionOnSet(f, s) = f[Some(s)] + SumFunctionOnSet(f, s \ {Some(s)})
    BY <1>2, <2>1, SumStep
  <2>4. Cardinality(s \ {Some(s)}) = Cardinality(s) - 1 /\ Cardinality(s) \in Nat
    BY <2>1, <2>2, FS_RemoveElement, FS_CardinalityType
  <2>5. PICK a \in Int : a = Cardinality(s) - 1 /\ Cardinality(s \ {Some(s)}) = a
    BY <2>4
  <2>6. k * (1 + a) = k + k * a
    OBVIOUS
  <2> QED BY <1>2, <2>2, <2>3, <2>4, <2>5, <2>6
<1> HIDE DEF Good
<1>4. S \in Good
  BY <1>1, <1>2, BySome
<1> QED BY <1>0, <1>4 DEF Good

\* A sum of natural numbers is one.
LEMMA SumNat ==
  ASSUME NEW S, IsFiniteSet(S), NEW f, \A x \in S : f[x] \in Nat
  PROVE  SumFunctionOnSet(f, S) \in Nat
<1> DEFINE Good == {s \in SUBSET S : SumFunctionOnSet(f, s) \in Nat}
<1>0. Summed(f, S)
  BY DEF Summed
<1>1. {} \in Good
  BY SumEmpty
<1>2. ASSUME NEW s \in SUBSET S, s # {}, s \ {Some(s)} \in Good PROVE s \in Good
  <2>1. Summed(f, s)
    BY <1>0, SummedPart
  <2>2. f[Some(s)] \in Nat
    BY <1>2 DEF Some
  <2>3. SumFunctionOnSet(f, s) = f[Some(s)] + SumFunctionOnSet(f, s \ {Some(s)})
    BY <1>2, <2>1, SumStep
  <2> QED BY <1>2, <2>2, <2>3
<1> HIDE DEF Good
<1>3. S \in Good
  BY <1>1, <1>2, BySome
<1> QED BY <1>3 DEF Good

\* The order does not matter: any element can be taken out first.
LEMMA SumPoint ==
  ASSUME NEW f, NEW S, Summed(f, S), NEW c \in S
  PROVE  SumFunctionOnSet(f, S) = f[c] + SumFunctionOnSet(f, S \ {c})
<1> DEFINE Split(s, x) == SumFunctionOnSet(f, s) = f[x] + SumFunctionOnSet(f, s \ {x})
<1> DEFINE Bad == {s \in SUBSET S : \E x \in s : ~Split(s, x)}
<1>1. Bad = {}
  <2> SUFFICES ASSUME Bad # {} PROVE FALSE
    OBVIOUS
  <2>1. PICK t \in Bad : \A u \in Bad : u \subseteq t => u = t
    <3>1. IsFiniteSet(S) /\ Bad \in SUBSET SUBSET S
      BY DEF Summed
    <3> HIDE DEF Bad
    <3> QED BY <3>1, LeastOfSubsets
  <2>2. t \in SUBSET S /\ \E x \in t : ~Split(t, x)
    OBVIOUS
  <2>3. PICK x \in t : ~Split(t, x)
    BY <2>2
  <2>4. PICK a : a = Some(t)
    OBVIOUS
  <2>5. a \in t /\ SumFunctionOnSet(f, t) = f[a] + SumFunctionOnSet(f, t \ {a})
    <3>1. Summed(f, t)
      BY <2>2, SummedPart
    <3> QED BY <2>3, <2>4, <3>1, SumStep DEF Some
  <2>6. a # x
    BY <2>3, <2>5
  <2>7. Split(t \ {a}, x) /\ Split(t \ {x}, a)
    <3>1. t \ {a} \in SUBSET S /\ t \ {x} \in SUBSET S /\ t \ {a} # t /\ t \ {x} # t
      BY <2>2, <2>3, <2>5
    <3>2. t \ {a} \notin Bad /\ t \ {x} \notin Bad
      <4> HIDE DEF Bad
      <4> QED BY <2>1, <3>1
    <3> QED BY <2>3, <2>5, <2>6, <3>1, <3>2
  <2>8. (t \ {a}) \ {x} = (t \ {x}) \ {a}
    OBVIOUS
  <2>9. PICK rest \in Int : rest = SumFunctionOnSet(f, (t \ {x}) \ {a})
    <3>1. (t \ {x}) \ {a} \in SUBSET S
      BY <2>2
    <3>2. Summed(f, (t \ {x}) \ {a})
      BY <3>1, SummedPart
    <3> QED BY <3>2, SumStep
  <2>10. f[a] \in Int /\ f[x] \in Int
    BY <2>2, <2>3, <2>5 DEF Summed
  <2>11. /\ SumFunctionOnSet(f, t) = f[a] + SumFunctionOnSet(f, t \ {a})
         /\ SumFunctionOnSet(f, t \ {a}) = f[x] + rest
         /\ SumFunctionOnSet(f, t \ {x}) = f[a] + rest
    BY <2>5, <2>7, <2>8, <2>9
  <2>12. Split(t, x)
    BY <2>10, <2>11
  <2> QED BY <2>3, <2>12
<1>2. Split(S, c)
  BY <1>1
<1> QED BY <1>2

\* A sum over two sets with nothing in common.
LEMMA SumUnion ==
  ASSUME NEW f, NEW A, NEW B, Summed(f, A \union B), A \intersect B = {}
  PROVE  SumFunctionOnSet(f, A \union B) = SumFunctionOnSet(f, A) + SumFunctionOnSet(f, B)
<1> DEFINE Good == {s \in SUBSET B : SumFunctionOnSet(f, A \union s)
                                       = SumFunctionOnSet(f, A) + SumFunctionOnSet(f, s)}
<1>0. Summed(f, A) /\ Summed(f, B)
  <2>1. A \in SUBSET (A \union B) /\ B \in SUBSET (A \union B)
    OBVIOUS
  <2> QED BY <2>1, SummedPart
<1>1. {} \in Good
  <2>1. A \union {} = A
    OBVIOUS
  <2>2. SumFunctionOnSet(f, A) \in Int /\ SumFunctionOnSet(f, {}) = 0
    BY <1>0, SumStep, SumEmpty
  <2> QED BY <2>1, <2>2
<1>2. ASSUME NEW s \in SUBSET B, s # {}, s \ {Some(s)} \in Good PROVE s \in Good
  <2>1. PICK c : c = Some(s) /\ c \in s
    BY <1>2 DEF Some
  <2>2. (A \union s) \ {c} = A \union (s \ {c})
    BY <2>1
  <2>3. Summed(f, A \union s) /\ Summed(f, s)
    <3>1. A \union s \in SUBSET (A \union B)
      OBVIOUS
    <3> QED BY <1>0, <3>1, SummedPart
  <2>4. /\ SumFunctionOnSet(f, A \union s) = f[c] + SumFunctionOnSet(f, (A \union s) \ {c})
        /\ SumFunctionOnSet(f, s) = f[c] + SumFunctionOnSet(f, s \ {c})
    BY <2>1, <2>3, SumPoint
  <2>5. SumFunctionOnSet(f, A \union (s \ {c}))
            = SumFunctionOnSet(f, A) + SumFunctionOnSet(f, s \ {c})
    BY <1>2, <2>1
  <2>6. /\ f[c] \in Int /\ SumFunctionOnSet(f, A) \in Int
        /\ SumFunctionOnSet(f, s \ {c}) \in Int
    <3>1. s \ {c} \in SUBSET B /\ c \in B
      BY <2>1
    <3>2. Summed(f, s \ {c})
      BY <1>0, <3>1, SummedPart
    <3> QED BY <1>0, <3>1, <3>2, SumStep DEF Summed
  <2>7. SumFunctionOnSet(f, A \union s) = SumFunctionOnSet(f, A) + SumFunctionOnSet(f, s)
    <3>1. SumFunctionOnSet(f, (A \union s) \ {c}) = SumFunctionOnSet(f, A \union (s \ {c}))
      BY <2>2
    <3>2. PICK u, v, w : /\ u = SumFunctionOnSet(f, A \union s)
                         /\ v = SumFunctionOnSet(f, (A \union s) \ {c})
                         /\ w = SumFunctionOnSet(f, s)
      OBVIOUS
    <3>3. u = f[c] + v /\ w = f[c] + SumFunctionOnSet(f, s \ {c})
      BY <2>4, <3>2
    <3>4. v = SumFunctionOnSet(f, A) + SumFunctionOnSet(f, s \ {c})
      BY <2>5, <3>1, <3>2
    <3>5. u = SumFunctionOnSet(f, A) + w
      BY ONLY <2>6, <3>3, <3>4
    <3> QED BY <3>2, <3>5
  <2> QED BY <2>7
<1>3. IsFiniteSet(B)
  BY <1>0 DEF Summed
<1> HIDE DEF Good
<1>4. B \in Good
  BY <1>1, <1>2, <1>3, BySome
<1> QED BY <1>4 DEF Good
=============================================================================
