---------------------------- MODULE DataInduction -----------------------------
(***************************************************************************)
(* Induction over the data of the models: numbers, finite sets and the     *)
(* sums that the specifications take over them.                            *)
(*                                                                         *)
(* The induction theorems of the library are about an operator; these are  *)
(* about a set, which holds whatever the induction is about.               *)
(***************************************************************************)
EXTENDS Integers, FiniteSets, SequencesExt, FiniteSetTheorems, SequenceTheorems,
        WellFoundedInduction, TLAPS

\* A set of numbers with 0 in it that each number leads on to the next.
LEMMA NatSetInduction ==
    ASSUME NEW T, 0 \in T, \A n \in Nat : n \in T => n + 1 \in T
    PROVE  Nat \subseteq T
<1>. DEFINE R == OpToRel(<, Nat)
            Missing == Nat \ T
<1>1. SUFFICES ASSUME Missing # {} PROVE FALSE
  OBVIOUS
<1>2. IsWellFoundedOn(R, Nat)
  BY NatLessThanWellFounded, Zenon DEF OpToRel
<1>3. \A m, n \in Nat : m < n => <<m, n>> \in R
  BY DEF OpToRel
<1>4. Missing \subseteq Nat
  OBVIOUS
<1>. HIDE DEF R
<1>5. PICK n \in Missing : \A m \in Missing : ~(<<m, n>> \in R)
  <2>. HIDE DEF Missing
  <2>. QED
    BY <1>1, <1>2, <1>4, WFMin
<1>6. n \in Nat \ {0} /\ n - 1 \in Nat /\ n - 1 < n /\ n = (n - 1) + 1
  BY SMT
<1>7. n - 1 \in T
  BY <1>3, <1>5, <1>6
<1>. QED
  BY <1>6, <1>7

\* What holds of the empty set, and of a finite set when it holds of all the
\* sets with one element less, holds of every finite set.
LEMMA FiniteSetInduction ==
    ASSUME NEW S, IsFiniteSet(S), NEW T, {} \in T,
           \A s \in SUBSET S : s # {} /\ (\A x \in s : s \ {x} \in T) => s \in T
    PROVE  SUBSET S \subseteq T
<1>. DEFINE Sizes == {n \in Nat : \A s \in SUBSET S : Cardinality(s) = n => s \in T}
<1>1. \A s \in SUBSET S : IsFiniteSet(s) /\ Cardinality(s) \in Nat
  BY FS_Subset, FS_CardinalityType
<1>2. 0 \in Sizes
  BY <1>1, FS_EmptySet
<1>3. ASSUME NEW n \in Nat, n \in Sizes
      PROVE  n + 1 \in Sizes
  <2>. SUFFICES ASSUME NEW s \in SUBSET S, Cardinality(s) = n + 1 PROVE s \in T
    OBVIOUS
  <2>1. s # {}
    <3>1. Cardinality({}) = 0 /\ n + 1 # 0
      BY FS_EmptySet
    <3>. QED
      BY <3>1
  <2>2. \A x \in s : Cardinality(s \ {x}) = n
    BY <1>1, FS_RemoveElement, SMT
  <2>. QED
    BY <1>3, <2>1, <2>2
<1>. HIDE DEF Sizes
<1>4. Nat \subseteq Sizes
  BY <1>2, <1>3, NatSetInduction
<1>. SUFFICES ASSUME NEW s \in SUBSET S PROVE s \in T
  OBVIOUS
<1>5. Cardinality(s) \in Sizes
  BY <1>1, <1>4
<1>. QED
  BY <1>5 DEF Sizes

\* Some element of a finite set is valued at least as high as all the others.
LEMMA HighestExists ==
    ASSUME NEW S, IsFiniteSet(S), S # {}, NEW f, \A x \in S : f[x] \in Int
    PROVE  \E x \in S : \A y \in S : f[y] <= f[x]
<1>. DEFINE T == {s \in SUBSET S : s # {} => \E x \in s : \A y \in s : f[y] <= f[x]}
<1>1. {} \in T
  OBVIOUS
<1>2. ASSUME NEW s \in SUBSET S, s # {}, \A x \in s : s \ {x} \in T
      PROVE  s \in T
  <2>1. PICK x \in s : TRUE
    BY <1>2
  <2>2. CASE s \ {x} = {}
    BY <2>2, <2>1, SMT
  <2>3. CASE s \ {x} # {}
    <3>1. PICK z \in s \ {x} : \A y \in s \ {x} : f[y] <= f[z]
      BY <1>2, <2>3
    <3>2. f[x] <= f[z] \/ f[z] <= f[x]
      BY SMT
    <3>. QED
      BY <3>1, <3>2, SMT
  <2>. QED
    BY <2>2, <2>3
<1>. HIDE DEF T
<1>3. SUBSET S \subseteq T
  BY <1>1, <1>2, FiniteSetInduction
<1>. QED
  BY <1>3 DEF T

-----------------------------------------------------------------------------
(* Sums over a finite set, in the order that CHOOSE takes its elements in,   *)
(* as the sums of the community modules are taken.                           *)

First(s) == CHOOSE x \in s : TRUE

SumsOf(f, S, sum) ==
    sum = [s \in SUBSET S |->
              IF s = {} THEN 0 ELSE f[First(s)] + sum[s \ {First(s)}]]

\* A recursive sum exists, and is a number.
LEMMA SumsExist ==
    ASSUME NEW S, IsFiniteSet(S), NEW f, \A x \in S : f[x] \in Int
    PROVE  \E sum \in [SUBSET S -> Int] : SumsOf(f, S, sum)
<1>. DEFINE Upto(n) == {s \in SUBSET S : Cardinality(s) <= n}
            Next(sum, s) == IF s = {} THEN 0 ELSE f[First(s)] + sum[s \ {First(s)}]
            Sums(n, sum) == \A s \in Upto(n) : sum[s] = Next(sum, s)
            Known == {n \in Nat : \E sum \in [Upto(n) -> Int] : Sums(n, sum)}
<1>1. \A s \in SUBSET S : IsFiniteSet(s) /\ Cardinality(s) \in Nat
  BY FS_Subset, FS_CardinalityType
<1>2. \A s \in SUBSET S : s # {} => First(s) \in s
  BY DEF First
<1>3. ASSUME NEW n \in Nat, NEW s \in Upto(n + 1), s # {}
      PROVE  s \ {First(s)} \in Upto(n)
  <2>1. First(s) \in s
    BY <1>2, <1>3
  <2>2. Cardinality(s \ {First(s)}) = Cardinality(s) - 1
    BY <1>1, <2>1, FS_RemoveElement
  <2>. QED
    BY <1>1, <2>2, SMT
<1>4. 0 \in Known
  <2>. DEFINE sum == [s \in Upto(0) |-> 0]
  <2>1. \A s \in Upto(0) : s = {}
    BY <1>1, FS_EmptySet, SMT
  <2>2. sum \in [Upto(0) -> Int] /\ Sums(0, sum)
    BY <2>1
  <2>3. \E some \in [Upto(0) -> Int] : Sums(0, some)
    <3>. HIDE DEF sum, Sums
    <3>. QED
      BY <2>2
  <2>. QED
    BY <2>3
<1>5. ASSUME NEW n \in Nat, n \in Known
      PROVE  n + 1 \in Known
  <2>1. PICK sum \in [Upto(n) -> Int] : Sums(n, sum)
    BY <1>5
  <2>. DEFINE more == [s \in Upto(n + 1) |-> Next(sum, s)]
  <2>2. \A s \in Upto(n + 1) : Next(sum, s) \in Int
    BY <1>2, <1>3, SMT
  <2>3. \A s \in Upto(n) : s \in Upto(n + 1) /\ more[s] = sum[s]
    BY <1>1, <2>1, SMT
  <2>4. \A s \in Upto(n + 1) : more[s] = Next(more, s)
    BY <1>3, <2>3
  <2>5. more \in [Upto(n + 1) -> Int]
    BY <2>2
  <2>6. Sums(n + 1, more)
    BY <2>4
  <2>7. \E some \in [Upto(n + 1) -> Int] : Sums(n + 1, some)
    <3>. HIDE DEF more, Sums
    <3>. QED
      BY <2>5, <2>6
  <2>8. n + 1 \in Nat
    OBVIOUS
  <2>. HIDE DEF Sums, Upto
  <2>. QED
    BY <2>7, <2>8
<1>6. Cardinality(S) \in Nat /\ Upto(Cardinality(S)) = SUBSET S
  BY <1>1, FS_Subset
<1>. HIDE DEF Known
<1>7. Cardinality(S) \in Known
  BY <1>4, <1>5, <1>6, NatSetInduction
<1>8. PICK sum \in [SUBSET S -> Int] : \A s \in SUBSET S : sum[s] = Next(sum, s)
  BY <1>6, <1>7 DEF Known
<1>. QED
  BY <1>8 DEF SumsOf

LEMMA SumsAreNumbers ==
    ASSUME NEW S, IsFiniteSet(S), NEW f, \A x \in S : f[x] \in Int,
           NEW sum, SumsOf(f, S, sum)
    PROVE  sum \in [SUBSET S -> Int]
<1>. DEFINE T == {s \in SUBSET S : sum[s] \in Int}
<1>1. {} \in T
  BY DEF SumsOf
<1>2. ASSUME NEW s \in SUBSET S, s # {}, \A x \in s : s \ {x} \in T
      PROVE  s \in T
  <2>1. First(s) \in s
    BY <1>2 DEF First
  <2>2. sum[s] = f[First(s)] + sum[s \ {First(s)}]
    BY <1>2 DEF SumsOf
  <2>3. s \ {First(s)} \in T /\ f[First(s)] \in Int
    BY <1>2, <2>1
  <2>. QED
    BY <2>2, <2>3
<1>. HIDE DEF T
<1>3. SUBSET S \subseteq T
  BY <1>1, <1>2, FiniteSetInduction
<1>4. \A s \in SUBSET S : sum[s] \in Int
  BY <1>3 DEF T
<1>. QED
  BY <1>4 DEF SumsOf

\* Where no term grows but one, by no more than d, the sum grows by no more.
LEMMA SumGrowsBy ==
    ASSUME NEW S, IsFiniteSet(S), NEW d \in Nat, NEW r,
           NEW f, \A x \in S : f[x] \in Int,
           NEW g, \A x \in S : g[x] \in Int /\ g[x] <= f[x] + (IF x = r THEN d ELSE 0),
           NEW sumf, SumsOf(f, S, sumf),
           NEW sumg, SumsOf(g, S, sumg)
    PROVE  sumg[S] <= sumf[S] + d
<1>. sumf \in [SUBSET S -> Int] /\ sumg \in [SUBSET S -> Int]
  BY SumsAreNumbers
<1>. DEFINE T == {s \in SUBSET S : sumg[s] <= sumf[s] + (IF r \in s THEN d ELSE 0)}
<1>1. {} \in T
  BY DEF SumsOf
<1>2. ASSUME NEW s \in SUBSET S, s # {}, \A x \in s : s \ {x} \in T
      PROVE  s \in T
  <2>. DEFINE x == First(s)
  <2>1. x \in s
    BY <1>2 DEF First
  <2>2. sumf[s] = f[x] + sumf[s \ {x}] /\ sumg[s] = g[x] + sumg[s \ {x}]
    BY <1>2 DEF SumsOf
  <2>3. /\ f[x] \in Int /\ g[x] \in Int
        /\ sumf[s \ {x}] \in Int /\ sumg[s \ {x}] \in Int
        /\ g[x] <= f[x] + (IF x = r THEN d ELSE 0)
    BY <2>1
  <2>4. sumg[s \ {x}] <= sumf[s \ {x}] + (IF r \in s \ {x} THEN d ELSE 0)
    BY <1>2, <2>1
  <2>. HIDE DEF x
  <2>5. CASE x = r
    BY <2>1, <2>2, <2>3, <2>4, <2>5, SMT
  <2>6. CASE x # r
    BY <2>1, <2>2, <2>3, <2>4, <2>6, SMT
  <2>. QED
    BY <2>5, <2>6
<1>. HIDE DEF T
<1>3. S \in T
  BY <1>1, <1>2, FiniteSetInduction
<1>. QED
  BY <1>3, SMT DEF T

\* A sum of zeros is zero.
LEMMA SumOfZeros ==
    ASSUME NEW S, IsFiniteSet(S), NEW f, \A x \in S : f[x] = 0,
           NEW sum, SumsOf(f, S, sum)
    PROVE  sum[S] = 0
<1>. DEFINE T == {s \in SUBSET S : sum[s] = 0}
<1>1. {} \in T
  BY DEF SumsOf
<1>2. ASSUME NEW s \in SUBSET S, s # {}, \A x \in s : s \ {x} \in T
      PROVE  s \in T
  <2>1. First(s) \in s
    BY <1>2 DEF First
  <2>2. sum[s] = f[First(s)] + sum[s \ {First(s)}]
    BY <1>2 DEF SumsOf
  <2>. QED
    BY <1>2, <2>1, <2>2
<1>. HIDE DEF T
<1>3. S \in T
  BY <1>1, <1>2, FiniteSetInduction
<1>. QED
  BY <1>3 DEF T

\* The sum of differences is the difference of the sums.
LEMMA SumsDiffer ==
    ASSUME NEW S, IsFiniteSet(S),
           NEW f, \A x \in S : f[x] \in Int,
           NEW g, \A x \in S : g[x] \in Int,
           NEW h, \A x \in S : h[x] = f[x] - g[x],
           NEW sumf, SumsOf(f, S, sumf),
           NEW sumg, SumsOf(g, S, sumg),
           NEW sumh, SumsOf(h, S, sumh)
    PROVE  sumh[S] = sumf[S] - sumg[S]
<1>. DEFINE T == {s \in SUBSET S : sumh[s] = sumf[s] - sumg[s]}
<1>1. {} \in T
  <2>1. sumf[{}] = 0 /\ sumg[{}] = 0
    BY DEF SumsOf
  <2>2. sumh[{}] = 0
    BY DEF SumsOf
  <2>. QED
    BY <2>1, <2>2
<1>2. sumf \in [SUBSET S -> Int] /\ sumg \in [SUBSET S -> Int]
  BY SumsAreNumbers
<1>3. ASSUME NEW s \in SUBSET S, s # {}, \A x \in s : s \ {x} \in T
      PROVE  s \in T
  <2>1. First(s) \in s
    BY <1>3 DEF First
  <2>2. /\ sumf[s] = f[First(s)] + sumf[s \ {First(s)}]
        /\ sumg[s] = g[First(s)] + sumg[s \ {First(s)}]
        /\ sumh[s] = h[First(s)] + sumh[s \ {First(s)}]
    BY <1>3 DEF SumsOf
  <2>. DEFINE rest == s \ {First(s)}
  <2>3. rest \in SUBSET S /\ sumh[rest] = sumf[rest] - sumg[rest]
    BY <1>3, <2>1
  <2>4. sumf[rest] \in Int /\ sumg[rest] \in Int
    BY <1>2, <2>3
  <2>5. h[First(s)] = f[First(s)] - g[First(s)] /\ f[First(s)] \in Int /\ g[First(s)] \in Int
    BY <2>1
  <2>. HIDE DEF rest
  <2>6. sumh[s] = sumf[s] - sumg[s]
    BY <2>2, <2>3, <2>4, <2>5 DEF rest
  <2>. QED
    BY <2>6
<1>. HIDE DEF T
<1>4. SUBSET S \subseteq T
  BY <1>1, <1>3, FiniteSetInduction
<1>. QED
  BY <1>4 DEF T

-----------------------------------------------------------------------------
(* Sequences laid end to end.                                               *)

LEMMA ElementsOfConcat ==
    ASSUME NEW T, NEW s \in Seq(T), NEW t \in Seq(T)
    PROVE  s \o t \in Seq(T) /\ ToSet(s \o t) = ToSet(s) \cup ToSet(t)
<1>1. /\ s \o t \in Seq(T) /\ Len(s \o t) = Len(s) + Len(t)
      /\ \A i \in 1 .. Len(s) + Len(t) :
            (s \o t)[i] = IF i <= Len(s) THEN s[i] ELSE t[i - Len(s)]
  BY ConcatProperties
<1>. DEFINE both == s \o t
<1>2. /\ DOMAIN s = 1 .. Len(s) /\ DOMAIN t = 1 .. Len(t) /\ DOMAIN both = 1 .. Len(s) + Len(t)
      /\ Len(s) \in Nat /\ Len(t) \in Nat
  BY <1>1
<1>. HIDE DEF both
<1>3. \A i \in 1 .. Len(s) : s[i] = both[i] /\ i \in 1 .. Len(s) + Len(t)
  BY <1>1, <1>2 DEF both
<1>4. \A i \in 1 .. Len(t) : t[i] = both[Len(s) + i] /\ Len(s) + i \in 1 .. Len(s) + Len(t)
  BY <1>1, <1>2 DEF both
<1>5. \A i \in 1 .. Len(s) + Len(t) : both[i] \in ToSet(s) \cup ToSet(t)
  BY <1>1, <1>2 DEF both, ToSet
<1>6. ToSet(both) = ToSet(s) \cup ToSet(t)
  <2>1. ToSet(s) \subseteq ToSet(both)
    BY <1>2, <1>3 DEF ToSet
  <2>2. ToSet(t) \subseteq ToSet(both)
    BY <1>2, <1>4 DEF ToSet
  <2>3. ToSet(both) \subseteq ToSet(s) \cup ToSet(t)
    <3>1. \A e \in ToSet(both) : \E i \in 1 .. Len(s) + Len(t) : e = both[i]
      BY <1>2 DEF ToSet
    <3>. QED
      BY <1>5, <3>1
  <2>. QED
    BY <2>1, <2>2, <2>3
<1>. QED
  BY <1>1, <1>6 DEF both

FlattensUpto(f, ss, n) ==
    f = [i \in 1 .. n |-> IF i = 1 THEN ss[i] ELSE f[i - 1] \o ss[i]]

LEMMA FlatteningExists ==
    ASSUME NEW T, NEW ss \in Seq(Seq(T)), Len(ss) # 0
    PROVE  \E f : FlattensUpto(f, ss, Len(ss))
<1>. DEFINE Reached == {n \in Nat : n <= Len(ss) => \E f : FlattensUpto(f, ss, n)}
<1>1. 0 \in Reached
  <2>. DEFINE none == [i \in 1 .. 0 |-> ss[i]]
  <2>1. FlattensUpto(none, ss, 0)
    BY DEF FlattensUpto
  <2>. HIDE DEF none
  <2>. QED
    BY <2>1
<1>2. ASSUME NEW n \in Nat, n \in Reached
      PROVE  n + 1 \in Reached
  <2>. SUFFICES ASSUME n + 1 <= Len(ss)
                PROVE  \E f : FlattensUpto(f, ss, n + 1)
    OBVIOUS
  <2>1. PICK f : FlattensUpto(f, ss, n)
    <3>1. n <= Len(ss)
      OBVIOUS
    <3>. QED
      BY <1>2, <3>1
  <2>. DEFINE more == [i \in 1 .. n + 1 |-> IF i = 1 THEN ss[i] ELSE f[i - 1] \o ss[i]]
  <2>2. \A i \in 1 .. n : more[i] = f[i]
    <3>1. \A i \in 1 .. n : f[i] = IF i = 1 THEN ss[i] ELSE f[i - 1] \o ss[i]
      BY <2>1 DEF FlattensUpto
    <3>2. \A i \in 1 .. n + 1 : more[i] = IF i = 1 THEN ss[i] ELSE f[i - 1] \o ss[i]
      OBVIOUS
    <3>3. 1 .. n \subseteq 1 .. n + 1
      OBVIOUS
    <3>. HIDE DEF more
    <3>. QED
      BY <3>1, <3>2, <3>3
  <2>3. \A i \in 1 .. n + 1 : i # 1 => more[i - 1] = f[i - 1]
    <3>1. \A i \in 1 .. n + 1 : i # 1 => i - 1 \in 1 .. n
      OBVIOUS
    <3>. HIDE DEF more
    <3>. QED
      BY <2>2, <3>1
  <2>4. more = [i \in 1 .. n + 1 |-> IF i = 1 THEN ss[i] ELSE more[i - 1] \o ss[i]]
    <3>1. more = [i \in 1 .. n + 1 |-> IF i = 1 THEN ss[i] ELSE f[i - 1] \o ss[i]]
      OBVIOUS
    <3>. HIDE DEF more
    <3>2. \A i \in 1 .. n + 1 : (IF i = 1 THEN ss[i] ELSE f[i - 1] \o ss[i])
                                  = (IF i = 1 THEN ss[i] ELSE more[i - 1] \o ss[i])
      BY <2>3
    <3>. QED
      BY <3>1, <3>2
  <2>5. FlattensUpto(more, ss, n + 1)
    <3>. HIDE DEF more
    <3>. QED
      BY <2>4 DEF FlattensUpto
  <2>. HIDE DEF more
  <2>. QED
    BY <2>5
<1>3. Len(ss) \in Reached
  <2>. HIDE DEF Reached
  <2>1. \A n \in Nat : n \in Reached => n + 1 \in Reached
    BY <1>2
  <2>2. Nat \subseteq Reached
    BY <1>1, <2>1, NatSetInduction, Zenon
  <2>. QED
    BY <2>2
<1>. QED
  BY <1>3

\* Laid end to end, sequences of one kind are a sequence of that kind, in
\* which every element of each of them is found.
LEMMA FlattenedIsSequence ==
    ASSUME NEW T, NEW ss \in Seq(Seq(T))
    PROVE  /\ FlattenSeq(ss) \in Seq(T)
           /\ \A k \in DOMAIN ss : ToSet(ss[k]) \subseteq ToSet(FlattenSeq(ss))
<1>1. CASE Len(ss) = 0
  BY <1>1 DEF FlattenSeq
<1>2. CASE Len(ss) # 0
  <2>. DEFINE f == CHOOSE g : FlattensUpto(g, ss, Len(ss))
  <2>1. FlattensUpto(f, ss, Len(ss))
    BY <1>2, FlatteningExists
  <2>2. FlattenSeq(ss) = f[Len(ss)]
    BY <1>2 DEF FlattenSeq, FlattensUpto
  <2>. DEFINE Reached == {n \in Nat : 1 <= n /\ n <= Len(ss) =>
                           /\ f[n] \in Seq(T)
                           /\ \A k \in 1 .. n : ToSet(ss[k]) \subseteq ToSet(f[n])}
  <2>. HIDE DEF f
  <2>3. \A i \in 1 .. Len(ss) : f[i] = IF i = 1 THEN ss[i] ELSE f[i - 1] \o ss[i]
    BY <2>1 DEF FlattensUpto
  <2>4. 0 \in Reached
    OBVIOUS
  <2>5. ASSUME NEW n \in Nat, n \in Reached
        PROVE  n + 1 \in Reached
    <3>. SUFFICES ASSUME n + 1 <= Len(ss)
                  PROVE  /\ f[n + 1] \in Seq(T)
                         /\ \A k \in 1 .. n + 1 : ToSet(ss[k]) \subseteq ToSet(f[n + 1])
      OBVIOUS
    <3>1. ss[n + 1] \in Seq(T) /\ n + 1 \in 1 .. Len(ss)
      OBVIOUS
    <3>2. CASE n = 0
      BY <2>3, <3>1, <3>2
    <3>3. CASE n # 0
      <4>1. f[n + 1] = f[n] \o ss[n + 1]
        <5>1. n + 1 # 1 /\ (n + 1) - 1 = n
          BY <3>3
        <5>. QED
          BY <2>3, <3>1, <5>1
      <4>2. f[n] \in Seq(T) /\ \A k \in 1 .. n : ToSet(ss[k]) \subseteq ToSet(f[n])
        BY <2>5, <3>3
      <4>3. ToSet(f[n + 1]) = ToSet(f[n]) \cup ToSet(ss[n + 1]) /\ f[n + 1] \in Seq(T)
        BY <3>1, <4>1, <4>2, ElementsOfConcat
      <4>. QED
        BY <4>2, <4>3
    <3>. QED
      BY <3>2, <3>3
  <2>. HIDE DEF Reached
  <2>6. Len(ss) \in Reached
    BY <2>4, <2>5, NatSetInduction
  <2>7. Len(ss) >= 1 /\ DOMAIN ss = 1 .. Len(ss)
    BY <1>2
  <2>. QED
    BY <2>2, <2>6, <2>7 DEF Reached
<1>. QED
  BY <1>1, <1>2

\* One after the other, the sequences are appended to those before.
LEMMA FlattenSteps ==
    ASSUME NEW T, NEW ss \in Seq(Seq(T)), ss # <<>>
    PROVE  \E f : /\ \A i \in 1 .. Len(ss) : f[i] = IF i = 1 THEN ss[i] ELSE f[i - 1] \o ss[i]
                  /\ \A i \in 1 .. Len(ss) : f[i] \in Seq(T)
                  /\ FlattenSeq(ss) = f[Len(ss)]
<1>. DEFINE f == CHOOSE g : FlattensUpto(g, ss, Len(ss))
<1>1. Len(ss) # 0 /\ Len(ss) \in Nat
  OBVIOUS
<1>2. FlattensUpto(f, ss, Len(ss))
  BY <1>1, FlatteningExists
<1>3. FlattenSeq(ss) = f[Len(ss)]
  BY <1>1 DEF FlattenSeq, FlattensUpto
<1>. HIDE DEF f
<1>4. \A i \in 1 .. Len(ss) : f[i] = IF i = 1 THEN ss[i] ELSE f[i - 1] \o ss[i]
  BY <1>2 DEF FlattensUpto
<1>. DEFINE Reached == {n \in Nat : 1 <= n /\ n <= Len(ss) => f[n] \in Seq(T)}
<1>5. 0 \in Reached
  OBVIOUS
<1>6. ASSUME NEW n \in Nat, n \in Reached
      PROVE  n + 1 \in Reached
  <2>. SUFFICES ASSUME n + 1 <= Len(ss) PROVE f[n + 1] \in Seq(T)
    OBVIOUS
  <2>1. ss[n + 1] \in Seq(T) /\ n + 1 \in 1 .. Len(ss)
    OBVIOUS
  <2>2. CASE n = 0
    BY <1>4, <2>1, <2>2
  <2>3. CASE n # 0
    <3>1. f[n + 1] = f[n] \o ss[n + 1]
      <4>1. n + 1 # 1 /\ (n + 1) - 1 = n
        BY <2>3
      <4>. QED
        BY <1>4, <2>1, <4>1
    <3>2. f[n] \in Seq(T)
      BY <1>6, <2>3
    <3>. QED
      BY <2>1, <3>1, <3>2, ConcatProperties
  <2>. QED
    BY <2>2, <2>3
<1>. HIDE DEF Reached
<1>7. Nat \subseteq Reached
  BY <1>5, <1>6, NatSetInduction
<1>8. \A i \in 1 .. Len(ss) : f[i] \in Seq(T)
  BY <1>7 DEF Reached
<1>. QED
  BY <1>3, <1>4, <1>8

LEMMA FlattenConcat ==
    ASSUME NEW T, NEW a \in Seq(Seq(T)), NEW b \in Seq(Seq(T))
    PROVE  FlattenSeq(a \o b) = FlattenSeq(a) \o FlattenSeq(b)
<1>1. FlattenSeq(<<>>) = <<>>
  BY DEF FlattenSeq
<1>2. FlattenSeq(a) \in Seq(T) /\ FlattenSeq(b) \in Seq(T)
  BY FlattenedIsSequence
<1>3. CASE a = <<>>
  <2>1. a \o b = b
    BY <1>3, ConcatEmptySeq
  <2>. QED
    BY <1>1, <1>2, <1>3, <2>1, ConcatEmptySeq
<1>4. CASE b = <<>>
  <2>1. a \o b = a
    BY <1>4, ConcatEmptySeq
  <2>. QED
    BY <1>1, <1>2, <1>4, <2>1, ConcatEmptySeq
<1>5. CASE a # <<>> /\ b # <<>>
  <2>. DEFINE both == a \o b
              m == Len(a)
              n == Len(b)
  <2>1. /\ both \in Seq(Seq(T)) /\ Len(both) = m + n
        /\ \A i \in 1 .. m + n : both[i] = IF i <= m THEN a[i] ELSE b[i - m]
        /\ m \in Nat \ {0} /\ n \in Nat \ {0}
    BY <1>5, ConcatProperties
  <2>. HIDE DEF both
  <2>2. both # <<>>
    BY <2>1
  <2>. DEFINE Recurs(h, ss) ==
                  \A i \in 1 .. Len(ss) : h[i] = IF i = 1 THEN ss[i] ELSE h[i - 1] \o ss[i]
  <2>3. PICK f : /\ \A i \in 1 .. m : f[i] = IF i = 1 THEN a[i] ELSE f[i - 1] \o a[i]
                 /\ \A i \in 1 .. m : f[i] \in Seq(T)
                 /\ FlattenSeq(a) = f[m]
    BY <1>5, FlattenSteps
  <2>4. PICK g : /\ \A i \in 1 .. n : g[i] = IF i = 1 THEN b[i] ELSE g[i - 1] \o b[i]
                 /\ \A i \in 1 .. n : g[i] \in Seq(T)
                 /\ FlattenSeq(b) = g[n]
    BY <1>5, FlattenSteps
  <2>5. PICK h : /\ \A i \in 1 .. m + n :
                        h[i] = IF i = 1 THEN both[i] ELSE h[i - 1] \o both[i]
                 /\ FlattenSeq(both) = h[m + n]
    <3>1. PICK h : /\ Recurs(h, both) /\ FlattenSeq(both) = h[Len(both)]
      BY <2>1, <2>2, FlattenSteps
    <3>. QED
      BY <2>1, <3>1
  <2>. HIDE DEF m, n
  <2>. DEFINE Same == {k \in Nat : 1 <= k /\ k <= m => h[k] = f[k]}
  <2>6. 0 \in Same
    OBVIOUS
  <2>7. ASSUME NEW k \in Nat, k \in Same PROVE k + 1 \in Same
    <3>. DEFINE j == k + 1
    <3>. SUFFICES ASSUME j <= m PROVE h[j] = f[j]
      OBVIOUS
    <3>1. j \in 1 .. m /\ j \in 1 .. m + n /\ j - 1 = k
      BY <2>1
    <3>. HIDE DEF j
    <3>2. both[j] = a[j]
      BY <2>1, <3>1
    <3>3. CASE k = 0
      <4>1. j = 1
        BY <3>3 DEF j
      <4>. QED
        BY <2>3, <2>5, <3>1, <3>2, <4>1
    <3>4. CASE k # 0
      <4>1. 1 <= k /\ k <= m /\ j # 1
        BY <2>1, <3>1, <3>4
      <4>2. h[k] = f[k]
        BY <2>7, <4>1
      <4>. QED
        BY <2>3, <2>5, <3>1, <3>2, <4>1, <4>2
    <3>. QED
      BY <3>3, <3>4
  <2>8. h[m] = f[m]
    <3>. HIDE DEF Same
    <3>1. m \in Same
      BY <2>1, <2>6, <2>7, NatSetInduction
    <3>. QED
      BY <2>1, <3>1 DEF Same
  <2>. DEFINE More == {k \in Nat : \A j : 1 <= k /\ k <= n /\ j = m + k
                                              => h[j] = f[m] \o g[k]}
  <2>9. 0 \in More
    OBVIOUS
  <2>10. ASSUME NEW k \in Nat, k \in More PROVE k + 1 \in More
    <3>. DEFINE i == k + 1
    <3>1. i \in Nat
      OBVIOUS
    <3>. SUFFICES ASSUME i <= n, NEW j, j = m + i PROVE h[j] = f[m] \o g[i]
      BY <3>1
    <3>. DEFINE before == m + k
    <3>2. i \in 1 .. n /\ j \in 1 .. m + n /\ j # 1 /\ j - 1 = before /\ j - m = i /\ ~(j <= m)
      BY <2>1
    <3>3. i - 1 = k
      OBVIOUS
    <3>. HIDE DEF i
    <3>4. both[j] = b[i] /\ b[i] \in Seq(T) /\ f[m] \in Seq(T)
      <4>1. m \in 1 .. m
        BY <2>1
      <4>2. b[i] \in Seq(T)
        BY <3>2 DEF n
      <4>. QED
        BY <2>1, <2>3, <3>2, <4>1, <4>2
    <3>5. h[j] = h[before] \o b[i]
      BY <2>5, <3>2, <3>4
    <3>6. CASE k = 0
      <4>1. i = 1 /\ before = m
        BY <2>1, <3>6 DEF i
      <4>2. g[i] = b[i]
        BY <2>4, <3>2, <4>1
      <4>. QED
        BY <2>8, <3>5, <4>1, <4>2
    <3>7. CASE k # 0
      <4>1. 1 <= k /\ k <= n /\ i # 1 /\ k \in 1 .. n
        BY <2>1, <3>2, <3>3, <3>7
      <4>2. h[before] = f[m] \o g[k]
        BY <2>10, <4>1
      <4>. HIDE DEF before
      <4>3. g[i] = g[k] \o b[i] /\ g[k] \in Seq(T)
        BY <2>4, <3>2, <3>3, <4>1
      <4>4. \A x, y, z \in Seq(T) : (x \o y) \o z = x \o (y \o z)
        OBVIOUS
      <4>5. (f[m] \o g[k]) \o b[i] = f[m] \o (g[k] \o b[i])
        BY <3>4, <4>3, <4>4, Zenon
      <4>6. h[j] = (f[m] \o g[k]) \o b[i] /\ g[i] = g[k] \o b[i]
        BY <3>5, <4>2, <4>3, Zenon
      <4>. QED
        BY <4>5, <4>6, Zenon
    <3>. QED
      BY <3>6, <3>7
  <2>11. \A j : j = m + n => h[j] = f[m] \o g[n]
    <3>. HIDE DEF More
    <3>1. n \in More
      BY <2>1, <2>9, <2>10, NatSetInduction
    <3>2. 1 <= n /\ n <= n
      BY <2>1
    <3>. QED
      BY <3>1, <3>2, Zenon DEF More
  <2>. QED
    BY <2>3, <2>4, <2>5, <2>11 DEF both, m, n
<1>. QED
  BY <1>3, <1>4, <1>5

\* The last element of a sum may be any.
LEMMA SumWithout ==
    ASSUME NEW S, IsFiniteSet(S), NEW f, \A x \in S : f[x] \in Int,
           NEW sum, SumsOf(f, S, sum)
    PROVE  \A s \in SUBSET S, r \in SUBSET S : \A x \in s :
               r = s \ {x} => sum[s] = f[x] + sum[r]
<1>. DEFINE T == {u \in SUBSET S : \A y \in u : sum[u] = f[y] + sum[u \ {y}]}
<1>0. sum \in [SUBSET S -> Int]
  BY SumsAreNumbers
<1>1. {} \in T
  OBVIOUS
<1>2. ASSUME NEW u \in SUBSET S, u # {}, \A y \in u : u \ {y} \in T
      PROVE  u \in T
  <2>. SUFFICES ASSUME NEW y \in u PROVE sum[u] = f[y] + sum[u \ {y}]
    OBVIOUS
  <2>. DEFINE z == First(u)
  <2>1. z \in u /\ sum[u] = f[z] + sum[u \ {z}]
    BY <1>2 DEF First, SumsOf
  <2>. HIDE DEF z
  <2>2. CASE y = z
    BY <2>1, <2>2
  <2>3. CASE y # z
    <3>1. sum[u \ {z}] = f[y] + sum[(u \ {z}) \ {y}]
      BY <1>2, <2>1, <2>3
    <3>2. sum[u \ {y}] = f[z] + sum[(u \ {y}) \ {z}]
      BY <1>2, <2>1, <2>3
    <3>. DEFINE rest == (u \ {y}) \ {z}
    <3>3. (u \ {z}) \ {y} = rest /\ rest \in SUBSET S
      OBVIOUS
    <3>4. f[y] \in Int /\ f[z] \in Int /\ sum[rest] \in Int
      BY <1>0, <2>1, <3>3
    <3>. HIDE DEF rest
    <3>5. sum[u] = f[z] + (f[y] + sum[rest])
      BY <2>1, <3>1, <3>3, Zenon
    <3>6. sum[u \ {y}] = f[z] + sum[rest]
      BY <3>2, Zenon DEF rest
    <3>7. f[z] + (f[y] + sum[rest]) = f[y] + (f[z] + sum[rest])
      BY <3>4
    <3>. QED
      BY <3>5, <3>6, <3>7, Zenon
  <2>. QED
    BY <2>2, <2>3
<1>. HIDE DEF T
<1>3. SUBSET S \subseteq T
  BY <1>1, <1>2, FiniteSetInduction
<1>4. ASSUME NEW s \in SUBSET S, NEW x \in s PROVE sum[s] = f[x] + sum[s \ {x}]
  BY <1>3 DEF T
<1>. QED
  BY <1>4
=============================================================================
