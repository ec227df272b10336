------------------------------ MODULE DataLemmas ----------------------------
(***************************************************************************)
(* Facts about the data the models are built from, which the proofs of     *)
(* several components need: what joining at the rear, leaving from the     *)
(* front and being unlinked from the middle do to a queue without          *)
(* repetitions; that an array has one sorted rearrangement and no other;   *)
(* and how a sum changes with its terms.  An operator cannot be passed to  *)
(* a theorem here, so induction takes the set of the instances it proves.  *)
(***************************************************************************)
EXTENDS Integers, Sequences, SequencesExt, SequenceTheorems, FunctionTheorems,
        FiniteSetTheorems, WellFoundedInduction, TLAPS

\* A sequence to which a new element is appended stays free of repetitions and
\* gains exactly that element.
LEMMA AppendFacts ==
  ASSUME NEW S, NEW q \in Seq(S), NEW e \in S, IsInjective(q), e \notin ToSet(q)
  PROVE  /\ Append(q, e) \in Seq(S)
         /\ IsInjective(Append(q, e))
         /\ ToSet(Append(q, e)) = ToSet(q) \cup {e}
         /\ Len(Append(q, e)) = Len(q) + 1
<1> DEFINE a == Append(q, e)
<1>1. /\ a \in Seq(S) /\ Len(a) = Len(q) + 1 /\ DOMAIN a = 1 .. Len(q) + 1
      /\ Len(q) \in Nat /\ DOMAIN q = 1 .. Len(q)
      /\ \A i \in 1 .. Len(q) : a[i] = q[i]
      /\ a[Len(q) + 1] = e
  OBVIOUS
<1>2. \A i \in DOMAIN q : q[i] # e
  BY DEF ToSet
<1>3. IsInjective(a)
  BY <1>1, <1>2 DEF IsInjective
<1>4. ToSet(a) = ToSet(q) \cup {e}
  BY <1>1 DEF ToSet
<1> QED
  BY <1>1, <1>3, <1>4

\* Taking the head off removes exactly the head.
LEMMA TailFacts ==
  ASSUME NEW S, NEW q \in Seq(S), IsInjective(q), q # <<>>
  PROVE  /\ Tail(q) \in Seq(S)
         /\ IsInjective(Tail(q))
         /\ Head(q) \in S
         /\ Head(q) \in ToSet(q)
         /\ ToSet(Tail(q)) = ToSet(q) \ {Head(q)}
<1> DEFINE t == Tail(q)
<1>1. /\ t \in Seq(S) /\ Len(q) \in Nat /\ Len(q) > 0 /\ Len(t) = Len(q) - 1
      /\ DOMAIN q = 1 .. Len(q) /\ DOMAIN t = 1 .. Len(q) - 1
      /\ \A i \in 1 .. Len(q) - 1 : t[i] = q[i + 1]
      /\ Head(q) = q[1] /\ 1 \in DOMAIN q /\ q[1] \in S
  BY EmptySeq
<1> HIDE DEF t
<1>2. ASSUME NEW j \in DOMAIN t, NEW k \in DOMAIN t, t[j] = t[k] PROVE j = k
  <2>1. /\ j \in Int /\ k \in Int /\ j + 1 \in DOMAIN q /\ k + 1 \in DOMAIN q
        /\ q[j + 1] = q[k + 1]
    BY <1>1, <1>2
  <2>2. j + 1 = k + 1
    BY <2>1 DEF IsInjective
  <2> QED
    BY <2>1, <2>2
<1>3. ASSUME NEW x PROVE x \in ToSet(t) <=> x \in ToSet(q) /\ x # q[1]
  <2>1. ASSUME x \in ToSet(t) PROVE x \in ToSet(q) /\ x # q[1]
    BY <2>1, <1>1 DEF ToSet, IsInjective
  <2>2. ASSUME x \in ToSet(q), x # q[1] PROVE x \in ToSet(t)
    <3>1. PICK i \in 1 .. Len(q) : q[i] = x
      BY <2>2, <1>1 DEF ToSet
    <3>2. i - 1 \in 1 .. Len(q) - 1 /\ t[i - 1] = x
      BY <3>1, <2>2, <1>1
    <3> QED
      BY <3>2, <1>1 DEF ToSet
  <2> QED
    BY <2>1, <2>2
<1> QED
  BY <1>1, <1>2, <1>3 DEF t, ToSet, IsInjective

\* The elements of a sequence with one place removed, by position.
LEMMA RemoveAtElements ==
  ASSUME NEW S, NEW q \in Seq(S), NEW i \in DOMAIN q
  PROVE  /\ RemoveAt(q, i) \in Seq(S)
         /\ Len(RemoveAt(q, i)) = Len(q) - 1
         /\ \A j \in 1 .. Len(q) - 1 :
              RemoveAt(q, i)[j] = IF j < i THEN q[j] ELSE q[j + 1]
<1> DEFINE l == SubSeq(q, 1, i - 1)
           r == SubSeq(q, i + 1, Len(q))
<1>1. /\ Len(q) \in Nat /\ i \in 1 .. Len(q) /\ DOMAIN q = 1 .. Len(q)
      /\ \A j \in 1 .. Len(q) : q[j] \in S
  OBVIOUS
<1>2. /\ l \in Seq(S) /\ Len(l) = i - 1
      /\ \A j \in 1 .. i - 1 : l[j] = q[j]
  BY <1>1, SubSeqProperties
<1>3. /\ r \in Seq(S) /\ Len(r) = Len(q) - i
      /\ \A j \in 1 .. Len(q) - i : r[j] = q[i + j]
  BY <1>1, SubSeqProperties
<1>4. RemoveAt(q, i) = l \o r
  BY DEF RemoveAt
<1> HIDE DEF l, r
<1>5. /\ l \o r \in Seq(S) /\ Len(l \o r) = Len(l) + Len(r)
      /\ \A j \in 1 .. Len(l) + Len(r) :
           (l \o r)[j] = IF j <= Len(l) THEN l[j] ELSE r[j - Len(l)]
  BY <1>2, <1>3, ConcatProperties
<1>6. Len(l) + Len(r) = Len(q) - 1
  BY <1>1, <1>2, <1>3
<1>7. ASSUME NEW j \in 1 .. Len(q) - 1
      PROVE  (l \o r)[j] = IF j < i THEN q[j] ELSE q[j + 1]
  <2>1. CASE j < i
    BY <2>1, <1>1, <1>2, <1>5, <1>6
  <2>2. CASE j >= i
    <3>1. j - Len(l) \in 1 .. Len(q) - i /\ i + (j - Len(l)) = j + 1 /\ ~(j <= Len(l))
      BY <2>2, <1>1, <1>2
    <3>2. (l \o r)[j] = r[j - Len(l)]
      BY <3>1, <1>5, <1>6
    <3>3. r[j - Len(l)] = q[j + 1]
      BY <3>1, <1>3
    <3>4. ~(j < i)
      BY <2>2, <1>1
    <3> QED
      BY <3>2, <3>3, <3>4
  <2>3. j < i \/ j >= i
    BY <1>1
  <2> QED
    BY <2>1, <2>2, <2>3
<1> QED
  BY <1>4, <1>5, <1>6, <1>7

\* Unlinking a place of a sequence without repetitions removes exactly the
\* element that stood there.
LEMMA RemoveAtFacts ==
  ASSUME NEW S, NEW q \in Seq(S), IsInjective(q), NEW i \in DOMAIN q
  PROVE  /\ RemoveAt(q, i) \in Seq(S)
         /\ IsInjective(RemoveAt(q, i))
         /\ q[i] \in S
         /\ q[i] \in ToSet(q)
         /\ ToSet(RemoveAt(q, i)) = ToSet(q) \ {q[i]}
<1> DEFINE t == RemoveAt(q, i)
<1>1. /\ t \in Seq(S) /\ Len(q) \in Nat /\ i \in 1 .. Len(q) /\ Len(t) = Len(q) - 1
      /\ DOMAIN q = 1 .. Len(q) /\ DOMAIN t = 1 .. Len(q) - 1
      /\ \A j \in 1 .. Len(q) - 1 : t[j] = IF j < i THEN q[j] ELSE q[j + 1]
      /\ q[i] \in S
  BY RemoveAtElements
<1> HIDE DEF t
<1> DEFINE src(j) == IF j < i THEN j ELSE j + 1
<1>2. ASSUME NEW j \in DOMAIN t, NEW k \in DOMAIN t, t[j] = t[k] PROVE j = k
  <2>1. /\ src(j) \in DOMAIN q /\ src(k) \in DOMAIN q
        /\ q[src(j)] = t[j] /\ q[src(k)] = t[k]
    BY <1>1
  <2>2. src(j) = src(k)
    BY <2>1, <1>2 DEF IsInjective
  <2> QED
    BY <2>2, <1>1
<1>3. ASSUME NEW x PROVE x \in ToSet(t) <=> x \in ToSet(q) /\ x # q[i]
  <2>1. ASSUME x \in ToSet(t) PROVE x \in ToSet(q) /\ x # q[i]
    BY <2>1, <1>1 DEF ToSet, IsInjective
  <2>2. ASSUME x \in ToSet(q), x # q[i] PROVE x \in ToSet(t)
    <3>1. PICK j \in 1 .. Len(q) : q[j] = x
      BY <2>2, <1>1 DEF ToSet
    <3>2. CASE j < i
      BY <3>1, <3>2, <1>1 DEF ToSet
    <3>3. CASE j > i
      <4>1. j - 1 \in 1 .. Len(q) - 1 /\ t[j - 1] = x
        BY <3>1, <3>3, <1>1
      <4> QED
        BY <4>1, <1>1 DEF ToSet
    <3> QED
      BY <3>1, <3>2, <3>3, <2>2, <1>1
  <2> QED
    BY <2>1, <2>2
<1> QED
  BY <1>1, <1>2, <1>3 DEF t, ToSet, IsInjective

\* A queue of distinct elements of 1 .. n that has n places holds them all.
LEMMA FullQueue ==
  ASSUME NEW n \in Nat, NEW q \in Seq(1 .. n), IsInjective(q), Len(q) >= n
  PROVE  ToSet(q) = 1 .. n
<1>1. Len(q) \in Nat /\ DOMAIN q = 1 .. Len(q) /\ q \in [1 .. Len(q) -> 1 .. n]
  OBVIOUS
<1>2. \A m \in Nat : IsFiniteSet(1 .. m) /\ Cardinality(1 .. m) = m
  <2> TAKE m \in Nat
  <2>1. 1 \in Int /\ m \in Int /\ (IF 1 > m THEN 0 ELSE m - 1 + 1) = m
    OBVIOUS
  <2> QED
    BY <2>1, FS_Interval
<1>3. q \in Injection(1 .. Len(q), 1 .. n)
  BY <1>1 DEF Injection, IsInjective
<1>4. /\ Cardinality(1 .. Len(q)) <= Cardinality(1 .. n)
      /\ Cardinality(1 .. Len(q)) = Cardinality(1 .. n) <=> q \in Surjection(1 .. Len(q), 1 .. n)
  BY <1>2, <1>3, FS_Injection
<1>5. q \in Surjection(1 .. Len(q), 1 .. n)
  BY <1>1, <1>2, <1>4
<1> QED
  BY <1>1, <1>5 DEF Surjection, ToSet

-----------------------------------------------------------------------------
(* Sorting.                                                                *)

LEMMA IntervalFacts ==
  ASSUME NEW n \in Nat
  PROVE  IsFiniteSet(1 .. n) /\ Cardinality(1 .. n) = n
<1>1. 1 \in Int /\ n \in Int /\ (IF 1 > n THEN 0 ELSE n - 1 + 1) = n
  OBVIOUS
<1> QED
  BY <1>1, FS_Interval

LEMMA BijectionFacts ==
  ASSUME NEW n, NEW p \in Bijection(1 .. n, 1 .. n)
  PROVE  /\ \A i \in 1 .. n : p[i] \in 1 .. n
         /\ \A i, j \in 1 .. n : p[i] = p[j] => i = j
         /\ \A j \in 1 .. n : \E i \in 1 .. n : p[i] = j
  BY DEF Bijection, Injection, Surjection, IsInjective

LEMMA InjectionByElements ==
  ASSUME NEW S, NEW T, NEW f \in [S -> T], \A x, y \in S : f[x] = f[y] => x = y
  PROVE  f \in Injection(S, T)
  BY DEF Injection, IsInjective

\* Every array can be sorted: the place of a cell is the number of cells that
\* are not to stand behind it.
LEMMA SortingExists ==
  ASSUME NEW n \in Nat, NEW a \in [1 .. n -> Int]
  PROVE  \E f \in Bijection(1 .. n, 1 .. n) :
           \A i, j \in 1 .. n : i < j => a[f[i]] <= a[f[j]]
<1> DEFINE Precedes(j, i) == a[j] < a[i] \/ (a[j] = a[i] /\ j <= i)
           Upto(i) == { j \in 1 .. n : Precedes(j, i) }
           rank == [i \in 1 .. n |-> Cardinality(Upto(i))]
<1>1. IsFiniteSet(1 .. n) /\ Cardinality(1 .. n) = n
  BY IntervalFacts
<1>2. \A i \in 1 .. n : a[i] \in Int
  OBVIOUS
<1>3. ASSUME NEW i \in 1 .. n PROVE IsFiniteSet(Upto(i)) /\ rank[i] \in 1 .. n
  <2>1. /\ IsFiniteSet(Upto(i)) /\ Cardinality(Upto(i)) <= n
    BY <1>1, FS_Subset
  <2>2. i \in Upto(i)
    BY <1>2
  <2>3. Cardinality(Upto(i)) \in Nat /\ Cardinality(Upto(i)) # 0
    BY <2>1, <2>2, FS_CardinalityType, FS_EmptySet
  <2> QED
    BY <2>1, <2>3
<1>4. ASSUME NEW i \in 1 .. n, NEW j \in 1 .. n, Precedes(i, j), i # j PROVE rank[i] < rank[j]
  <2>1. Upto(i) \subseteq Upto(j)
    <3>1. ASSUME NEW k \in 1 .. n, Precedes(k, i) PROVE Precedes(k, j)
      BY <1>2, <1>4, <3>1
    <3> QED
      BY <3>1
  <2>2. j \in Upto(j) /\ j \notin Upto(i)
    BY <1>2, <1>4
  <2>3. Cardinality(Upto(i)) <= Cardinality(Upto(j)) /\ Cardinality(Upto(i)) # Cardinality(Upto(j))
    BY <1>3, <2>1, <2>2, FS_Subset
  <2>4. Cardinality(Upto(i)) \in Nat /\ Cardinality(Upto(j)) \in Nat
    BY <1>3, FS_CardinalityType
  <2> HIDE DEF Upto
  <2> QED
    BY <2>3, <2>4
<1>5. ASSUME NEW i \in 1 .. n, NEW j \in 1 .. n, i # j PROVE Precedes(i, j) \/ Precedes(j, i)
  BY <1>2
<1> HIDE DEF Upto, rank
<1>6. rank \in Injection(1 .. n, 1 .. n)
  <2>1. rank \in [1 .. n -> 1 .. n]
    BY <1>3 DEF rank
  <2>2. \A i, j \in 1 .. n : rank[i] = rank[j] => i = j
    BY <1>3, <1>4, <1>5
  <2> QED
    BY <2>1, <2>2, InjectionByElements
<1>7. rank \in Bijection(1 .. n, 1 .. n)
  BY <1>1, <1>6, FS_Injection DEF Bijection
<1> DEFINE f == Inverse(rank, 1 .. n, 1 .. n)
<1>8. f \in Bijection(1 .. n, 1 .. n) /\ \A i \in 1 .. n : f[rank[i]] = i
  BY <1>7, Fun_BijInverse
<1> HIDE DEF f
<1>9. \A k \in 1 .. n : f[k] \in 1 .. n /\ rank[f[k]] = k
  <2>1. /\ \A k \in 1 .. n : f[k] \in 1 .. n
        /\ \A k \in 1 .. n : \E i \in 1 .. n : rank[i] = k
    BY <1>7, <1>8, BijectionFacts
  <2> QED
    BY <1>8, <2>1
<1>10. ASSUME NEW i \in 1 .. n, NEW j \in 1 .. n, i < j PROVE a[f[i]] <= a[f[j]]
  <2>1. ~(rank[f[j]] < rank[f[i]]) /\ f[i] # f[j]
    BY <1>9, <1>10
  <2>2. ~Precedes(f[j], f[i])
    BY <1>4, <1>9, <2>1
  <2> QED
    BY <1>2, <1>9, <2>2
<1> QED
  BY <1>8, <1>10

\* A sorted rearrangement is nowhere below another one: the k cells up to k
\* would have to come from the k - 1 cells that are low enough.
LEMMA SortedNotBelow ==
  ASSUME NEW n \in Nat, NEW b \in [1 .. n -> Int], NEW c \in [1 .. n -> Int],
         NEW f \in Bijection(1 .. n, 1 .. n), \A i \in 1 .. n : b[i] = c[f[i]],
         \A i, j \in 1 .. n : i < j => b[i] <= b[j],
         \A i, j \in 1 .. n : i < j => c[i] <= c[j]
  PROVE  \A k \in 1 .. n : b[k] >= c[k]
<1> SUFFICES ASSUME NEW k \in 1 .. n, ~(b[k] >= c[k]) PROVE FALSE
  OBVIOUS
<1>1. \A i \in 1 .. n : f[i] \in 1 .. n /\ b[i] \in Int /\ c[i] \in Int
  BY BijectionFacts
<1>2. ASSUME NEW i \in 1 .. k PROVE f[i] \in 1 .. k - 1
  <2>1. i \in 1 .. n /\ (i = k \/ i < k)
    OBVIOUS
  <2>2. b[i] <= b[k] /\ b[i] = c[f[i]]
    BY <1>1, <2>1
  <2>3. c[f[i]] < c[k]
    BY <1>1, <2>1, <2>2
  <2>4. ~(k < f[i]) /\ k # f[i]
    BY <1>1, <2>1, <2>3
  <2> QED
    BY <1>1, <2>1, <2>4
<1> DEFINE g == [i \in 1 .. k |-> f[i]]
<1>3. g \in Injection(1 .. k, 1 .. k - 1)
  <2>1. g \in [1 .. k -> 1 .. k - 1]
    BY <1>2
  <2>2. \A i, j \in 1 .. n : f[i] = f[j] => i = j
    BY BijectionFacts
  <2>3. \A i, j \in 1 .. k : g[i] = g[j] => i = j
    BY <2>2
  <2> HIDE DEF g
  <2> QED
    BY <2>1, <2>3, InjectionByElements
<1>4. /\ IsFiniteSet(1 .. k - 1) /\ Cardinality(1 .. k - 1) = k - 1
      /\ Cardinality(1 .. k) = k
  BY IntervalFacts
<1>5. k <= k - 1
  BY <1>3, <1>4, FS_Injection
<1> QED
  BY <1>5

\* An array has no two sorted rearrangements.
LEMMA SortedIsUnique ==
  ASSUME NEW n \in Nat, NEW b \in [1 .. n -> Int], NEW c \in [1 .. n -> Int],
         NEW f \in Bijection(1 .. n, 1 .. n), \A i \in 1 .. n : b[i] = c[f[i]],
         \A i, j \in 1 .. n : i < j => b[i] <= b[j],
         \A i, j \in 1 .. n : i < j => c[i] <= c[j]
  PROVE  b = c
<1> DEFINE g == Inverse(f, 1 .. n, 1 .. n)
<1>1. g \in Bijection(1 .. n, 1 .. n) /\ \A i \in 1 .. n : g[f[i]] = i
  BY Fun_BijInverse
<1> HIDE DEF g
<1>2. \A k \in 1 .. n : g[k] \in 1 .. n /\ f[g[k]] = k
  <2>1. /\ \A k \in 1 .. n : g[k] \in 1 .. n
        /\ \A k \in 1 .. n : \E i \in 1 .. n : f[i] = k
    BY <1>1, BijectionFacts
  <2> QED
    BY <1>1, <2>1
<1>3. \A k \in 1 .. n : b[k] >= c[k]
  BY SortedNotBelow
<1>4. \A i \in 1 .. n : c[i] = b[g[i]]
  BY <1>2
<1>5. \A k \in 1 .. n : c[k] >= b[k]
  BY <1>1, <1>4, SortedNotBelow
<1>6. \A k \in 1 .. n : b[k] = c[k]
  BY <1>3, <1>5
<1> QED
  BY <1>6

-----------------------------------------------------------------------------
(* Induction, with the property given as the set of its instances.         *)

\* A nonempty set of naturals has a least element.
LEMMA LeastElement ==
  ASSUME NEW T \in SUBSET Nat, T # {}
  PROVE  \E x \in T : \A y \in T : ~(y < x)
<1> DEFINE R == OpToRel(<, Nat)
<1>1. \A x, y \in Nat : y < x => <<y, x>> \in R
  BY DEF OpToRel
<1>2. IsWellFoundedOn(R, Nat)
  BY NatLessThanWellFounded DEF OpToRel
<1> HIDE DEF R
<1>3. \E x \in T : \A y \in T : ~(<<y, x>> \in R)
  BY <1>2, WFMin
<1> QED
  BY <1>1, <1>3

\* A set that holds 0 and the successor of each of its naturals holds them all.
LEMMA InductionOnNat ==
  ASSUME NEW A, 0 \in A, \A n \in Nat : n \in A => n + 1 \in A
  PROVE  Nat \subseteq A
<1> DEFINE T == Nat \ A
<1> SUFFICES ASSUME T # {} PROVE FALSE
  OBVIOUS
<1>1. PICK x \in T : \A y \in T : ~(y < x)
  BY LeastElement
<1>2. x # 0 /\ x \in Nat /\ x - 1 \in Nat /\ x - 1 + 1 = x /\ x - 1 < x
  OBVIOUS
<1> QED
  BY <1>1, <1>2

\* A family of sets that holds the empty set, and a subset of S once it holds
\* it less any one element, holds every subset of S.
LEMMA InductionOnSubsets ==
  ASSUME NEW S, IsFiniteSet(S), NEW A, {} \in A,
         \A s \in SUBSET S : s # {} /\ (\A x \in s : s \ {x} \in A) => s \in A
  PROVE  SUBSET S \subseteq A
<1> DEFINE T == { n \in Nat : \A s \in SUBSET S : Cardinality(s) = n => s \in A }
<1>1. \A s \in SUBSET S : IsFiniteSet(s) /\ Cardinality(s) \in Nat
  BY FS_Subset, FS_CardinalityType
<1>2. 0 \in T
  BY <1>1, FS_EmptySet
<1>3. ASSUME NEW n \in Nat, n \in T PROVE n + 1 \in T
  <2> SUFFICES ASSUME NEW s \in SUBSET S, Cardinality(s) = n + 1 PROVE s \in A
    OBVIOUS
  <2>1. s # {}
    BY FS_EmptySet
  <2>2. \A x \in s : Cardinality(s \ {x}) = n /\ s \ {x} \in SUBSET S
    BY <1>1, FS_RemoveElement
  <2>3. \A x \in s : s \ {x} \in A
    BY <1>3, <2>2
  <2> QED
    BY <2>1, <2>3
<1>4. Nat \subseteq T
  <2> HIDE DEF T
  <2> QED
    BY <1>2, <1>3, InductionOnNat
<1> QED
  BY <1>1, <1>4

-----------------------------------------------------------------------------
(* Sums over a finite set.                                                 *)

Chosen(s) == CHOOSE x \in s : TRUE
PartialStep(f, g, s) == IF s = {} THEN 0 ELSE f[Chosen(s)] + g[s \ {Chosen(s)}]
Partial(f, S) == CHOOSE g : g = [s \in SUBSET S |-> PartialStep(f, g, s)]

\* SumFunctionOnSet is defined by a recursive function on the subsets.
LEMMA SumIsPartial ==
  ASSUME NEW f, NEW S
  PROVE  SumFunctionOnSet(f, S) = Partial(f, S)[S]
  BY DEF SumFunctionOnSet, FoldFunctionOnSet, MapThenFoldSet, Partial, PartialStep, Chosen

\* That function exists: it is built up by the number of elements.
LEMMA PartialExists ==
  ASSUME NEW S, IsFiniteSet(S), NEW f
  PROVE  \E g : g = [s \in SUBSET S |-> PartialStep(f, g, s)]
<1> DEFINE Small(n) == { s \in SUBSET S : Cardinality(s) <= n }
           T == { n \in Nat : \E g : g = [s \in Small(n) |-> PartialStep(f, g, s)] }
<1>1. \A s \in SUBSET S : IsFiniteSet(s) /\ Cardinality(s) \in Nat
  BY FS_Subset, FS_CardinalityType
<1>2. 0 \in T
  <2>1. \A s \in Small(0) : s = {}
    BY <1>1, FS_EmptySet
  <2>2. [s \in Small(0) |-> 0] = [s \in Small(0) |-> PartialStep(f, [t \in Small(0) |-> 0], s)]
    BY <2>1 DEF PartialStep
  <2> QED
    BY <2>2
<1>3. ASSUME NEW n \in Nat, n \in T PROVE n + 1 \in T
  <2>1. PICK g : g = [s \in Small(n) |-> PartialStep(f, g, s)]
    BY <1>3
  <2> DEFINE h == [s \in Small(n + 1) |-> PartialStep(f, g, s)]
  <2>2. \A s \in Small(n) : s \in Small(n + 1) /\ h[s] = g[s]
    BY <1>1, <2>1
  <2>3. ASSUME NEW s \in Small(n + 1), s # {} PROVE s \ {Chosen(s)} \in Small(n)
    <3>1. Chosen(s) \in s
      BY <2>3 DEF Chosen
    <3>2. Cardinality(s \ {Chosen(s)}) = Cardinality(s) - 1
      BY <1>1, <3>1, FS_RemoveElement
    <3> QED
      BY <1>1, <3>2
  <2>4. \A s \in Small(n + 1) : PartialStep(f, g, s) = PartialStep(f, h, s)
    BY <2>2, <2>3 DEF PartialStep
  <2>5. h = [s \in Small(n + 1) |-> PartialStep(f, h, s)]
    BY <2>4
  <2> HIDE DEF h, Small
  <2>6. \E k : k = [s \in Small(n + 1) |-> PartialStep(f, k, s)]
    BY <2>5
  <2> QED
    BY <2>6
<1>4. Nat \subseteq T
  <2> HIDE DEF T
  <2> QED
    BY <1>2, <1>3, InductionOnNat
<1>5. Cardinality(S) \in T
  BY <1>4, FS_CardinalityType
<1>6. Small(Cardinality(S)) = SUBSET S
  BY FS_Subset
<1> QED
  BY <1>5, <1>6

\* What that function computes.
LEMMA PartialFacts ==
  ASSUME NEW S, IsFiniteSet(S), NEW f, \A x \in S : f[x] \in Int
  PROVE  /\ Partial(f, S) \in [SUBSET S -> Int]
         /\ \A s \in SUBSET S : Partial(f, S)[s] = PartialStep(f, Partial(f, S), s)
<1> DEFINE g == Partial(f, S)
           A == { s \in SUBSET S : g[s] \in Int }
<1>1. g = [s \in SUBSET S |-> PartialStep(f, g, s)]
  BY PartialExists DEF Partial
<1> HIDE DEF g
<1>2. \A s \in SUBSET S : g[s] = PartialStep(f, g, s)
  BY <1>1
<1>3. {} \in A
  BY <1>2 DEF PartialStep
<1>4. ASSUME NEW s \in SUBSET S, s # {}, \A x \in s : s \ {x} \in A PROVE s \in A
  <2>1. Chosen(s) \in s
    BY <1>4 DEF Chosen
  <2>2. f[Chosen(s)] \in Int /\ g[s \ {Chosen(s)}] \in Int
    BY <1>4, <2>1
  <2>3. g[s] = f[Chosen(s)] + g[s \ {Chosen(s)}]
    BY <1>2, <1>4 DEF PartialStep
  <2> QED
    BY <2>2, <2>3
<1>5. SUBSET S \subseteq A
  <2> HIDE DEF A
  <2> QED
    BY <1>3, <1>4, InductionOnSubsets
<1> QED
  BY <1>1, <1>2, <1>5 DEF g

\* The part of the function below a subset is that subset's own function.
LEMMA PartialBelow ==
  ASSUME NEW S, IsFiniteSet(S), NEW U \in SUBSET S, NEW f, \A x \in S : f[x] \in Int
  PROVE  \A s \in SUBSET U : Partial(f, S)[s] = Partial(f, U)[s]
<1> DEFINE A == { s \in SUBSET U : Partial(f, S)[s] = Partial(f, U)[s] }
<1>1. IsFiniteSet(U)
  BY FS_Subset
<1>2. /\ \A s \in SUBSET S : Partial(f, S)[s] = PartialStep(f, Partial(f, S), s)
      /\ \A s \in SUBSET U : Partial(f, U)[s] = PartialStep(f, Partial(f, U), s)
  BY <1>1, PartialFacts
<1>3. {} \in A
  BY <1>2 DEF PartialStep
<1>4. ASSUME NEW s \in SUBSET U, s # {}, \A x \in s : s \ {x} \in A PROVE s \in A
  <2>1. Chosen(s) \in s
    BY <1>4 DEF Chosen
  <2> QED
    BY <1>2, <1>4, <2>1 DEF PartialStep
<1>5. SUBSET U \subseteq A
  <2> HIDE DEF A
  <2> QED
    BY <1>1, <1>3, <1>4, InductionOnSubsets
<1> QED
  BY <1>5

\* A sum is an integer.
LEMMA SumType ==
  ASSUME NEW S, IsFiniteSet(S), NEW f, \A x \in S : f[x] \in Int
  PROVE  SumFunctionOnSet(f, S) \in Int
  BY SumIsPartial, PartialFacts

\* The sum over nothing.
LEMMA SumEmpty == ASSUME NEW f PROVE SumFunctionOnSet(f, {}) = 0
<1>1. IsFiniteSet({}) /\ {} \in SUBSET {}
  BY FS_EmptySet
<1>2. Partial(f, {})[{}] = PartialStep(f, Partial(f, {}), {})
  BY <1>1, PartialFacts
<1> QED
  BY <1>2, SumIsPartial DEF PartialStep

\* In whatever order the elements are taken, each counts once.
LEMMA SumRemove ==
  ASSUME NEW S, IsFiniteSet(S), NEW f, \A x \in S : f[x] \in Int, NEW r \in S
  PROVE  SumFunctionOnSet(f, S) = f[r] + SumFunctionOnSet(f, S \ {r})
<1> DEFINE g == Partial(f, S)
           A == { s \in SUBSET S : \A x \in s : g[s] = f[x] + g[s \ {x}] }
<1>1. g \in [SUBSET S -> Int] /\ \A s \in SUBSET S : g[s] = PartialStep(f, g, s)
  BY PartialFacts
<1>2. \A s \in SUBSET S : g[s] = SumFunctionOnSet(f, s)
  <2> TAKE s \in SUBSET S
  <2>1. g[s] = Partial(f, s)[s]
    BY PartialBelow
  <2> QED
    BY <2>1, SumIsPartial
<1> HIDE DEF g
<1>3. {} \in A
  OBVIOUS
<1>4. ASSUME NEW s \in SUBSET S, s # {}, \A x \in s : s \ {x} \in A PROVE s \in A
  <2> PICK c : c = Chosen(s)
    OBVIOUS
  <2>1. c \in s /\ g[s] = f[c] + g[s \ {c}]
    BY <1>1, <1>4 DEF Chosen, PartialStep
  <2>2. ASSUME NEW x \in s, x # c PROVE g[s] = f[x] + g[s \ {x}]
    <3>1. g[s \ {c}] = f[x] + g[(s \ {c}) \ {x}]
      BY <1>4, <2>1, <2>2
    <3>2. g[s \ {x}] = f[c] + g[(s \ {x}) \ {c}]
      BY <1>4, <2>1, <2>2
    <3>3. (s \ {x}) \ {c} = (s \ {c}) \ {x}
      OBVIOUS
    <3>4. f[x] \in Int /\ f[c] \in Int /\ g[(s \ {c}) \ {x}] \in Int
      BY <1>1, <2>1
    <3>5. PICK m \in Int : m = g[(s \ {c}) \ {x}]
      BY <3>4
    <3>6. g[s \ {c}] = f[x] + m /\ g[s \ {x}] = f[c] + m
      BY <3>1, <3>2, <3>3, <3>5
    <3>7. g[s] = f[c] + (f[x] + m)
      BY <2>1, <3>6
    <3> QED
      BY <3>4, <3>6, <3>7
  <2> QED
    BY <2>1, <2>2
<1>5. SUBSET S \subseteq A
  <2> HIDE DEF A
  <2> QED
    BY <1>3, <1>4, InductionOnSubsets
<1>6. g[S] = f[r] + g[S \ {r}]
  BY <1>5
<1> QED
  BY <1>2, <1>6

\* A sum of smaller terms is not larger.
LEMMA SumMonotone ==
  ASSUME NEW S, IsFiniteSet(S), NEW f, NEW g,
         \A x \in S : f[x] \in Int /\ g[x] \in Int /\ f[x] <= g[x]
  PROVE  SumFunctionOnSet(f, S) <= SumFunctionOnSet(g, S)
<1> DEFINE A == { s \in SUBSET S : SumFunctionOnSet(f, s) <= SumFunctionOnSet(g, s) }
<1>1. {} \in A
  BY SumEmpty
<1>2. ASSUME NEW s \in SUBSET S, s # {}, \A x \in s : s \ {x} \in A PROVE s \in A
  <2>1. PICK x \in s : s \ {x} \in A
    BY <1>2
  <2>2. IsFiniteSet(s) /\ IsFiniteSet(s \ {x})
    BY FS_Subset
  <2>3. /\ SumFunctionOnSet(f, s) = f[x] + SumFunctionOnSet(f, s \ {x})
        /\ SumFunctionOnSet(g, s) = g[x] + SumFunctionOnSet(g, s \ {x})
    BY <2>2, SumRemove
  <2>4. SumFunctionOnSet(f, s \ {x}) \in Int /\ SumFunctionOnSet(g, s \ {x}) \in Int
    BY <2>2, SumType
  <2>5. SumFunctionOnSet(f, s \ {x}) <= SumFunctionOnSet(g, s \ {x})
    BY <2>1
  <2> QED
    BY <2>3, <2>4, <2>5
<1>3. SUBSET S \subseteq A
  <2> HIDE DEF A
  <2> QED
    BY <1>1, <1>2, InductionOnSubsets
<1> QED
  BY <1>3

\* A sum depends on its terms only.
LEMMA SumSame ==
  ASSUME NEW S, IsFiniteSet(S), NEW f, NEW g, \A x \in S : f[x] \in Int /\ f[x] = g[x]
  PROVE  SumFunctionOnSet(f, S) = SumFunctionOnSet(g, S)
<1>1. /\ SumFunctionOnSet(f, S) <= SumFunctionOnSet(g, S)
      /\ SumFunctionOnSet(g, S) <= SumFunctionOnSet(f, S)
  BY SumMonotone
<1> QED
  BY <1>1, SumType

\* Changing one term changes a sum by as much.
LEMMA SumUpdate ==
  ASSUME NEW S, IsFiniteSet(S), NEW f, NEW g, NEW r \in S,
         \A x \in S : f[x] \in Int /\ g[x] \in Int, \A x \in S : x # r => f[x] = g[x]
  PROVE  SumFunctionOnSet(g, S) = SumFunctionOnSet(f, S) - f[r] + g[r]
<1>1. IsFiniteSet(S \ {r})
  BY FS_Subset
<1>2. SumFunctionOnSet(f, S \ {r}) = SumFunctionOnSet(g, S \ {r})
  BY <1>1, SumSame
<1>3. /\ SumFunctionOnSet(f, S) = f[r] + SumFunctionOnSet(f, S \ {r})
      /\ SumFunctionOnSet(g, S) = g[r] + SumFunctionOnSet(g, S \ {r})
  BY SumRemove
<1>4. SumFunctionOnSet(f, S \ {r}) \in Int
  BY <1>1, SumType
<1> QED
  BY <1>2, <1>3, <1>4

\* A sum of zeros.
LEMMA SumZero ==
  ASSUME NEW S, IsFiniteSet(S), NEW f, \A x \in S : f[x] = 0
  PROVE  SumFunctionOnSet(f, S) = 0
<1> DEFINE A == { s \in SUBSET S : SumFunctionOnSet(f, s) = 0 }
<1>1. {} \in A
  BY SumEmpty
<1>2. ASSUME NEW s \in SUBSET S, s # {}, \A x \in s : s \ {x} \in A PROVE s \in A
  <2>1. PICK x \in s : s \ {x} \in A
    BY <1>2
  <2>2. SumFunctionOnSet(f, s) = f[x] + SumFunctionOnSet(f, s \ {x})
    BY FS_Subset, SumRemove
  <2> QED
    BY <2>1, <2>2
<1>3. SUBSET S \subseteq A
  <2> HIDE DEF A
  <2> QED
    BY <1>1, <1>2, InductionOnSubsets
<1> QED
  BY <1>3

\* Leaving out terms that are not negative makes no sum larger.
LEMMA SumOfPart ==
  ASSUME NEW S, IsFiniteSet(S), NEW U \in SUBSET S, NEW f,
         \A x \in S : f[x] \in Int, \A x \in S \ U : f[x] >= 0
  PROVE  SumFunctionOnSet(f, U) <= SumFunctionOnSet(f, S)
<1> DEFINE A == { s \in SUBSET S :
                   SumFunctionOnSet(f, s \cap U) <= SumFunctionOnSet(f, s) }
<1>1. {} \in A
  <2>1. {} \cap U = {}
    OBVIOUS
  <2> QED
    BY <2>1, SumEmpty
<1>2. ASSUME NEW s \in SUBSET S, s # {}, \A x \in s : s \ {x} \in A PROVE s \in A
  <2>1. PICK x \in s : s \ {x} \in A
    BY <1>2
  <2>2. IsFiniteSet(s) /\ IsFiniteSet(s \ {x}) /\ IsFiniteSet(s \cap U)
        /\ IsFiniteSet((s \ {x}) \cap U)
    BY FS_Subset
  <2>3. SumFunctionOnSet(f, s) = f[x] + SumFunctionOnSet(f, s \ {x})
    BY <2>2, SumRemove
  <2>4. SumFunctionOnSet(f, (s \ {x}) \cap U) \in Int /\ SumFunctionOnSet(f, s \ {x}) \in Int
    BY <2>2, SumType
  <2>5. SumFunctionOnSet(f, (s \ {x}) \cap U) <= SumFunctionOnSet(f, s \ {x})
    BY <2>1
  <2> PICK m \in Int, n \in Int : /\ m = SumFunctionOnSet(f, (s \ {x}) \cap U)
                                /\ n = SumFunctionOnSet(f, s \ {x})
    BY <2>4
  <2>6. CASE x \in U
    <3>1. (s \cap U) \ {x} = (s \ {x}) \cap U /\ x \in s \cap U
      BY <2>6
    <3>2. SumFunctionOnSet(f, s \cap U) = f[x] + SumFunctionOnSet(f, (s \cap U) \ {x})
      BY <2>2, <3>1, SumRemove
    <3>3. SumFunctionOnSet(f, s \cap U) = f[x] + m
      BY <3>1, <3>2
    <3> QED
      BY <2>3, <2>5, <3>3
  <2>7. CASE x \notin U
    <3>1. (s \ {x}) \cap U = s \cap U
      BY <2>7
    <3>2. SumFunctionOnSet(f, s \cap U) = m
      BY <3>1
    <3> QED
      BY <2>3, <2>5, <2>7, <3>2
  <2> QED
    BY <2>6, <2>7
<1>3. SUBSET S \subseteq A
  <2> HIDE DEF A
  <2> QED
    BY <1>1, <1>2, InductionOnSubsets
<1>4. SumFunctionOnSet(f, S \cap U) <= SumFunctionOnSet(f, S) /\ S \cap U = U
  BY <1>3
<1> QED
  BY <1>4

\* A sum over the images of distinct elements.
LEMMA SumReindexed ==
  ASSUME NEW S, IsFiniteSet(S), NEW T, IsFiniteSet(T), NEW b \in [S -> T],
         \A x, y \in S : b[x] = b[y] => x = y,
         NEW f, NEW g, \A y \in T : f[y] \in Int, \A x \in S : g[x] = f[b[x]]
  PROVE  SumFunctionOnSet(g, S) = SumFunctionOnSet(f, { b[x] : x \in S })
<1> DEFINE Img(s) == { b[x] : x \in s }
           A == { s \in SUBSET S : SumFunctionOnSet(g, s) = SumFunctionOnSet(f, Img(s)) }
<1>1. {} \in A
  <2>1. Img({}) = {}
    OBVIOUS
  <2> QED
    BY <2>1, SumEmpty
<1>2. ASSUME NEW s \in SUBSET S, s # {}, \A x \in s : s \ {x} \in A PROVE s \in A
  <2>1. PICK x \in s : s \ {x} \in A
    BY <1>2
  <2>2. Img(s) \in SUBSET T /\ IsFiniteSet(Img(s)) /\ IsFiniteSet(s) /\ b[x] \in Img(s)
    BY FS_Subset
  <2>3. Img(s \ {x}) = Img(s) \ {b[x]}
    OBVIOUS
  <2> HIDE DEF Img
  <2>4. SumFunctionOnSet(g, s) = g[x] + SumFunctionOnSet(g, s \ {x})
    BY <2>2, SumRemove
  <2>5. SumFunctionOnSet(f, Img(s)) = f[b[x]] + SumFunctionOnSet(f, Img(s) \ {b[x]})
    BY <2>2, SumRemove
  <2> QED
    BY <2>1, <2>3, <2>4, <2>5
<1>3. SUBSET S \subseteq A
  <2> HIDE DEF A
  <2> QED
    BY <1>1, <1>2, InductionOnSubsets
<1> QED
  BY <1>3
=============================================================================
