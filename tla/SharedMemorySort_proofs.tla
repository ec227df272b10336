------------------------ MODULE SharedMemorySort_proofs ------------------------
(***************************************************************************)
(* Proofs about SharedMemorySort, for any number of sessions in any        *)
(* overlap and arrays of any length: no session that comes to its end      *)
(* leaves a segment behind, and one that shares its segment with nobody    *)
(* else that runs shows its array sorted.                                  *)
(***************************************************************************)
EXTENDS SharedMemorySort, DataLemmas

-----------------------------------------------------------------------------
(* The loops of sortArrayAscending over cells that nobody else touches.    *)
(* The cells may be more than the array: an earlier session left them.     *)

\* The first cells hold the array a in some order.
Rearranges(c, a) ==
  \E f \in Bijection(1 .. Len(a), 1 .. Len(a)) : \A k \in 1 .. Len(a) : c[k] = a[f[k]]

\* After o passes the last o of n cells are in place, and cell i + 1 is the
\* greatest so far.
InPlace(c, n, o, i) ==
  /\ \A k, l \in 1 .. n : k < l /\ l > n - o => c[k] <= c[l]
  /\ o < n - 1 => i <= n - o - 1 /\ \A k \in 1 .. i + 1 : c[k] <= c[i + 1]

Swapped(c, d, i) ==
  /\ Len(d) = Len(c)
  /\ \A k \in 1 .. Len(c) :
       d[k] = IF c[i + 1] > c[i + 2]
              THEN IF k = i + 1 THEN c[i + 2] ELSE IF k = i + 2 THEN c[i + 1] ELSE c[k]
              ELSE c[k]

LEMMA SwapRearranges ==
  ASSUME NEW c \in Seq(Int), NEW d \in Seq(Int), NEW a \in Seq(Int), Len(a) <= Len(c),
         NEW i \in Nat, i + 2 <= Len(a), Swapped(c, d, i), Rearranges(c, a)
  PROVE  Rearranges(d, a)
<1> DEFINE n == Len(a)
<1>1. n \in Nat /\ Len(c) \in Nat
  OBVIOUS
<1>2. PICK f \in Bijection(1 .. n, 1 .. n) : \A k \in 1 .. n : c[k] = a[f[k]]
  BY DEF Rearranges
<1>3. /\ \A k \in 1 .. n : f[k] \in 1 .. n
      /\ \A k, l \in 1 .. n : f[k] = f[l] => k = l
      /\ \A l \in 1 .. n : \E k \in 1 .. n : f[k] = l
  BY BijectionFacts
<1>4. CASE c[i + 1] > c[i + 2]
  <2> DEFINE g == [k \in 1 .. n |-> IF k = i + 1 THEN f[i + 2] ELSE IF k = i + 2 THEN f[i + 1] ELSE f[k]]
  <2>1. i + 1 \in 1 .. n /\ i + 2 \in 1 .. n /\ i + 1 # i + 2
    BY <1>1
  <2> HIDE DEF n
  <2>2. g \in [1 .. n -> 1 .. n]
    BY <1>3, <2>1
  <2>3. \A k, l \in 1 .. n : g[k] = g[l] => k = l
    BY <1>3, <2>1
  <2>4. ASSUME NEW l \in 1 .. n PROVE \E k \in 1 .. n : g[k] = l
    <3>1. PICK k \in 1 .. n : f[k] = l
      BY <1>3
    <3>2. g[IF k = i + 1 THEN i + 2 ELSE IF k = i + 2 THEN i + 1 ELSE k] = l
      BY <2>1, <3>1
    <3> QED
      BY <2>1, <3>2
  <2>5. \A k \in 1 .. n : d[k] = a[g[k]]
    <3>1. \A k \in 1 .. n : k \in 1 .. Len(c)
      BY <1>1 DEF n
    <3>2. \A k \in 1 .. n : d[k] = IF k = i + 1 THEN c[i + 2] ELSE IF k = i + 2 THEN c[i + 1] ELSE c[k]
      BY <1>4, <3>1 DEF Swapped
    <3> QED
      BY <1>2, <2>1, <3>2
  <2>6. g \in Bijection(1 .. n, 1 .. n)
    <3> HIDE DEF g
    <3> QED
      BY <2>2, <2>3, <2>4 DEF Bijection, Injection, Surjection, IsInjective
  <2> QED
    BY <2>5, <2>6 DEF Rearranges, n
<1>5. CASE ~(c[i + 1] > c[i + 2])
  BY <1>1, <1>2, <1>5 DEF Swapped, Rearranges
<1> QED
  BY <1>4, <1>5

LEMMA SwapInPlace ==
  ASSUME NEW c \in Seq(Int), NEW d \in Seq(Int), NEW n \in Nat, n <= Len(c),
         NEW o \in Nat, NEW i \in Nat, o < n - 1, i < n - o - 1,
         Swapped(c, d, i), InPlace(c, n, o, i)
  PROVE  InPlace(d, n, o, i + 1)
<1>1. /\ \A k, l \in 1 .. n : k < l /\ l > n - o => c[k] <= c[l]
      /\ \A k \in 1 .. i + 1 : c[k] <= c[i + 1]
      /\ Len(c) \in Nat
  BY DEF InPlace
<1>2. \A k \in 1 .. n : k \in 1 .. Len(c) /\ c[k] \in Int
  BY <1>1
<1>3. i + 1 \in 1 .. n /\ i + 2 \in 1 .. n /\ i + 1 <= n - o - 1 /\ i + 1 + 1 = i + 2
  OBVIOUS
<1>4. \A k \in 1 .. n :
       d[k] = IF c[i + 1] > c[i + 2]
              THEN IF k = i + 1 THEN c[i + 2] ELSE IF k = i + 2 THEN c[i + 1] ELSE c[k]
              ELSE c[k]
  BY <1>2 DEF Swapped
<1>5. ASSUME NEW k \in 1 .. n, NEW l \in 1 .. n, k < l, l > n - o
      PROVE  d[k] <= d[l]
  <2>1. d[l] = c[l]
    BY <1>3, <1>4, <1>5
  <2>2. /\ c[k] <= c[l]
        /\ c[i + 1] <= c[l] /\ c[i + 2] <= c[l]
    BY <1>1, <1>3, <1>5
  <2> QED
    BY <1>4, <2>1, <2>2
<1>6. ASSUME NEW k \in 1 .. i + 2
      PROVE  d[k] <= d[i + 2]
  <2>1. k \in 1 .. n /\ (k = i + 2 \/ k = i + 1 \/ k < i + 1)
    BY <1>3
  <2>2. k <= i + 1 => c[k] <= c[i + 1]
    BY <1>1, <2>1
  <2>3. c[k] \in Int /\ c[i + 1] \in Int /\ c[i + 2] \in Int
    BY <1>2, <1>3, <2>1
  <2>4. d[i + 2] = IF c[i + 1] > c[i + 2] THEN c[i + 1] ELSE c[i + 2]
    BY <1>3, <1>4
  <2>5. CASE k = i + 2
    BY <2>3, <2>4, <2>5
  <2>6. CASE k = i + 1
    <3>1. d[i + 1] = IF c[i + 1] > c[i + 2] THEN c[i + 2] ELSE c[i + 1]
      BY <1>3, <1>4
    <3> QED
      BY <2>3, <2>4, <2>6, <3>1
  <2>7. CASE k < i + 1
    <3>1. d[k] = c[k]
      BY <1>3, <1>4, <2>1, <2>7
    <3> QED
      BY <2>2, <2>3, <2>4, <2>7, <3>1
  <2> QED
    BY <2>1, <2>5, <2>6, <2>7
<1> QED
  BY <1>3, <1>5, <1>6 DEF InPlace

LEMMA PassInPlace ==
  ASSUME NEW c \in Seq(Int), NEW n \in Nat, n <= Len(c),
         NEW o \in Nat, NEW i \in Nat, o < n - 1, ~(i < n - o - 1), InPlace(c, n, o, i)
  PROVE  InPlace(c, n, o + 1, 0)
<1>1. /\ \A k, l \in 1 .. n : k < l /\ l > n - o => c[k] <= c[l]
      /\ i + 1 = n - o /\ \A k \in 1 .. i + 1 : c[k] <= c[i + 1]
      /\ Len(c) \in Nat
  BY DEF InPlace
<1>2. \A k \in 1 .. n : c[k] \in Int
  BY <1>1
<1>3. ASSUME NEW k \in 1 .. n, NEW l \in 1 .. n, k < l, l > n - (o + 1) PROVE c[k] <= c[l]
  <2>1. CASE l > n - o
    BY <1>1, <1>3, <2>1
  <2>2. CASE ~(l > n - o)
    <3>1. l = i + 1 /\ k \in 1 .. i + 1
      BY <1>1, <1>3, <2>2
    <3> QED
      BY <1>1, <3>1
  <2> QED
    BY <2>1, <2>2
<1>4. /\ 0 <= n - (o + 1) - 1
      /\ \A k \in 1 .. 0 + 1 : c[k] <= c[0 + 1]
  BY <1>2
<1> QED
  BY <1>3, <1>4 DEF InPlace

\* When the outer loop ends, the first cells are the sorted array.
LEMMA SortedAtTheEnd ==
  ASSUME NEW c \in Seq(Int), NEW a \in Seq(Int), Len(a) <= Len(c),
         NEW o \in Nat, NEW i \in Nat, ~(o < Len(a) - 1),
         InPlace(c, Len(a), o, i), Rearranges(c, a)
  PROVE  SubSeq(c, 1, Len(a)) = Service!sortArrayAscending(a)
<1> DEFINE I == 1 .. Len(a)
           up(b) == \A k, l \in I : k < l => b[k] <= b[l]
           p == SubSeq(c, 1, Len(a))
<1>1. DOMAIN a = I /\ Len(a) \in Nat /\ a \in [I -> Int] /\ Len(c) \in Nat
  OBVIOUS
<1>2. p \in [I -> Int] /\ \A k \in I : p[k] = c[k]
  <2>1. Len(a) - 1 + 1 = Len(a) /\ \A k \in I : k \in 1 .. Len(c) /\ 1 + k - 1 = k
    BY <1>1
  <2>2. /\ 1 \in Int /\ Len(a) \in Int /\ \A k \in I : c[k] \in Int
        /\ (IF 1 <= Len(a) THEN Len(a) - 1 + 1 ELSE 0) = Len(a)
    BY <1>1, <2>1
  <2>3. p \in Seq(Int) /\ Len(p) = Len(a) /\ \A k \in I : p[k] = c[1 + k - 1]
    BY <2>1, <2>2, SubSeqProperties
  <2> HIDE DEF p
  <2> QED
    BY <1>1, <2>1, <2>3
<1>3. Service!Bijection(I, I) = Bijection(I, I)
  BY DEF Service!Bijection, Service!Injection, Service!Surjection, Service!IsInjective,
         Bijection, Injection, Surjection, IsInjective
<1> HIDE DEF p
<1>4. up(p)
  <2>1. \A k, l \in I : k < l => c[k] <= c[l]
    BY <1>1 DEF InPlace
  <2> QED
    BY <1>2, <2>1
<1>5. PICK f \in Bijection(I, I) : \A k \in I : c[k] = a[f[k]]
  BY DEF Rearranges
<1>6. p \in Service!Rearranged(a)
  <2>1. \A k \in I : p[k] = a[f[k]]
    BY <1>2, <1>5
  <2>2. p = [k \in I |-> a[f[k]]]
    BY <1>2, <2>1
  <2> QED
    BY <1>1, <1>3, <1>5, <2>2 DEF Service!Rearranged
<1>7. Service!sortArrayAscending(a) = CHOOSE b \in Service!Rearranged(a) : up(b)
  BY <1>1 DEF Service!sortArrayAscending
<1> DEFINE q == Service!sortArrayAscending(a)
<1>8. q \in Service!Rearranged(a) /\ up(q)
  BY <1>4, <1>6, <1>7
<1> HIDE DEF q
<1>9. PICK g \in Bijection(I, I) : q = [k \in I |-> a[g[k]]]
  BY <1>1, <1>3, <1>8 DEF Service!Rearranged
<1>10. q \in [I -> Int] /\ \A k \in I : q[k] = a[g[k]] /\ g[k] \in I
  <2>1. \A k \in I : g[k] \in I
    BY BijectionFacts
  <2> QED
    BY <1>1, <1>9, <2>1
<1> DEFINE h == Inverse(g, I, I)
           e == [k \in I |-> h[f[k]]]
<1>11. h \in Bijection(I, I) /\ \A k \in I : g[h[k]] = k
  BY Fun_BijInverse
<1> HIDE DEF h
<1>12. e \in Bijection(I, I)
  BY <1>5, <1>11, Fun_BijTransitive
<1>13. \A k \in I : p[k] = q[e[k]]
  <2>1. \A k \in I : f[k] \in I /\ h[k] \in I
    BY <1>5, <1>11, BijectionFacts
  <2>2. ASSUME NEW k \in I PROVE p[k] = q[e[k]]
    <3>1. /\ f[k] \in I /\ e[k] = h[f[k]] /\ h[f[k]] \in I
          /\ g[h[f[k]]] = f[k]
      BY <1>11, <2>1
    <3>2. q[e[k]] = a[g[e[k]]]
      BY <1>10, <3>1
    <3>3. p[k] = a[f[k]]
      BY <1>2, <1>5
    <3> QED
      BY <3>1, <3>2, <3>3
  <2> QED
    BY <2>2
<1> HIDE DEF e
<1>14. p = q
  <2>1. /\ Len(a) \in Nat /\ p \in [1 .. Len(a) -> Int] /\ q \in [1 .. Len(a) -> Int]
        /\ e \in Bijection(1 .. Len(a), 1 .. Len(a))
        /\ \A k \in 1 .. Len(a) : p[k] = q[e[k]]
        /\ \A k, l \in 1 .. Len(a) : k < l => p[k] <= p[l]
        /\ \A k, l \in 1 .. Len(a) : k < l => q[k] <= q[l]
    BY <1>1, <1>2, <1>4, <1>8, <1>10, <1>12, <1>13
  <2> QED
    BY <2>1, SortedIsUnique
<1> QED
  BY <1>14 DEF p, q

-----------------------------------------------------------------------------
(* The inductive invariant.                                                *)

\* The variables that belong to sessions have a value for each of them.
OfSessions ==
  /\ index \in [Sessions -> Int] /\ sharedMemoryId \in [Sessions -> Int]
  /\ outerIndex \in [Sessions -> Int] /\ innerIndex \in [Sessions -> Int]
  /\ printed = [s \in Sessions |-> printed[s]]

\* A session that runs has a segment with room for its array.
Attached(s) ==
  Running(s) => sharedMemoryId[s] # 0 /\ elementCount(s) <= Len(Cells(s))

\* Nothing is typed before there is a segment, and the child has not begun
\* before the fork.
NotBegun(s) ==
  /\ pc[s] = "new" => index[s] = 0
  /\ pc[s] \in {"new", "input"} => outerIndex[s] = 0 /\ innerIndex[s] = 0

\* How far a session that nobody disturbs has come.
Undisturbed(s) ==
  s \notin disturbed =>
    /\ pc[s] = "input" => \A k \in 1 .. index[s] : Cells(s)[k] = typed[s][k]
    /\ pc[s] = "sort" =>
         /\ Rearranges(Cells(s), typed[s])
         /\ InPlace(Cells(s), elementCount(s), outerIndex[s], innerIndex[s])
    /\ pc[s] = "sorted" =>
         SubSeq(Cells(s), 1, elementCount(s)) = Service!sortArrayAscending(typed[s])

\* disturbed holds every session that has to share its segment.
Alone ==
  \A s \in Sessions \ disturbed, r \in Sessions :
    Running(s) /\ Running(r) /\ sharedMemoryId[r] = sharedMemoryId[s] => r = s

ShmInv ==
  /\ TypeOK /\ OfSessions /\ NoStraySegment /\ Alone /\ UndisturbedIsSorted
  /\ \A s \in Sessions : Attached(s) /\ NotBegun(s) /\ Undisturbed(s)

-----------------------------------------------------------------------------
(* Facts the steps share.                                                  *)

\* What is typed.
LEMMA TypedFacts ==
  ASSUME TypeOK, NEW s \in Sessions
  PROVE  /\ typed[s] \in Seq(Int) /\ elementCount(s) = Len(typed[s]) /\ elementCount(s) \in Nat
         /\ index[s] \in Nat /\ outerIndex[s] \in Nat /\ innerIndex[s] \in Nat
  BY SharedMemoryAssumption DEF TypeOK, elementCount

\* The cells of a session that runs.
LEMMA CellFacts ==
  ASSUME TypeOK, NEW s \in Sessions, Running(s), Attached(s)
  PROVE  /\ sharedMemoryId[s] \in DOMAIN segments
         /\ Cells(s) \in Seq(Int) /\ Len(Cells(s)) \in Nat /\ elementCount(s) <= Len(Cells(s))
<1>1. sharedMemoryId[s] \in 1 .. Len(segments)
  BY DEF TypeOK, Attached
<1> QED
  BY <1>1 DEF TypeOK, Attached, Cells

\* Another session keeps what it has while its segment stays as it is.
LEMMA OtherStays ==
  ASSUME NEW r \in Sessions, Attached(r), NotBegun(r), Undisturbed(r),
         pc'[r] = pc[r], typed' = typed, index'[r] = index[r], sharedMemoryId'[r] = sharedMemoryId[r],
         outerIndex'[r] = outerIndex[r], innerIndex'[r] = innerIndex[r],
         disturbed \subseteq disturbed',
         Running(r) => Len(Cells(r))' = Len(Cells(r)),
         Running(r) /\ r \notin disturbed => Cells(r)' = Cells(r)
  PROVE  Attached(r)' /\ NotBegun(r)' /\ Undisturbed(r)'
<1>1. Attached(r)'
  BY DEF Attached, Running, elementCount
<1>2. NotBegun(r)'
  BY DEF NotBegun
<1>3. Undisturbed(r)'
  <2> SUFFICES ASSUME r \notin disturbed', Running(r)
               PROVE  Undisturbed(r)'
    BY DEF Undisturbed, Running
  <2>1. Cells(r)' = Cells(r) /\ r \notin disturbed
    OBVIOUS
  <2> QED
    BY <2>1 DEF Undisturbed, elementCount
<1> QED
  BY <1>1, <1>2, <1>3

\* A step of a session that runs, in which it writes to its own segment only.
Works(s) ==
  /\ Running(s) /\ pc'[s] \in {"input", "aborted", "sort", "sorted"}
  /\ \A r \in Sessions \ {s} :
       /\ pc'[r] = pc[r] /\ index'[r] = index[r]
       /\ outerIndex'[r] = outerIndex[r] /\ innerIndex'[r] = innerIndex[r]
  /\ UNCHANGED <<typed, sharedMemoryId, keyed, disturbed, printed>>
  /\ segments' \in Seq(Seq(Int)) /\ Len(segments') = Len(segments)
  /\ \A i \in DOMAIN segments :
       Len(segments'[i]) = Len(segments[i]) /\ (i # sharedMemoryId[s] => segments'[i] = segments[i])

LEMMA WorkKeeps ==
  ASSUME ShmInv, NEW s \in Sessions, Works(s)
  PROVE  /\ NoStraySegment' /\ Alone' /\ UndisturbedIsSorted' /\ Attached(s)'
         /\ \A r \in Sessions \ {s} : Attached(r)' /\ NotBegun(r)' /\ Undisturbed(r)'
<1>1. /\ TypeOK /\ NoStraySegment /\ Alone /\ UndisturbedIsSorted
      /\ \A r \in Sessions : Attached(r) /\ NotBegun(r) /\ Undisturbed(r)
  BY DEF ShmInv
<1>2. /\ \A r \in Sessions : Running(r)' => Running(r)
      /\ \A r \in Sessions :
           Running(r) \/ pc[r] = "aborted" => Running(r)' \/ pc'[r] = "aborted"
  BY DEF Works, Running
<1>3. NoStraySegment'
  BY <1>1, <1>2 DEF NoStraySegment, Works
<1>4. Alone'
  BY <1>1, <1>2 DEF Alone, Works
<1>5. UndisturbedIsSorted'
  BY <1>1 DEF UndisturbedIsSorted, Works
<1>6. Attached(s)'
  <2>1. sharedMemoryId[s] \in DOMAIN segments /\ elementCount(s) <= Len(Cells(s))
        /\ sharedMemoryId[s] # 0
    BY <1>1, CellFacts DEF Works, Attached
  <2>2. Len(Cells(s))' = Len(Cells(s))
    BY <2>1 DEF Works, Cells
  <2> QED
    BY <2>1, <2>2 DEF Attached, Works, elementCount
<1>7. ASSUME NEW r \in Sessions \ {s}
      PROVE  Attached(r)' /\ NotBegun(r)' /\ Undisturbed(r)'
  <2>1. ASSUME Running(r)
        PROVE  /\ Len(Cells(r))' = Len(Cells(r))
               /\ r \notin disturbed => Cells(r)' = Cells(r)
    <3>1. sharedMemoryId[r] \in DOMAIN segments
      BY <1>1, <2>1, CellFacts
    <3>2. r \notin disturbed => sharedMemoryId[r] # sharedMemoryId[s]
      BY <1>1, <2>1 DEF Alone, Works
    <3> QED
      BY <3>1, <3>2 DEF Works, Cells
  <2> QED
    BY <1>1, <2>1, OtherStays DEF Works
<1> QED
  BY <1>3, <1>4, <1>5, <1>6, <1>7

\* A step that leaves all segments as they are.
LEMMA NoWrite ==
  ASSUME TypeOK, UNCHANGED segments
  PROVE  /\ segments' \in Seq(Seq(Int)) /\ Len(segments') = Len(segments)
         /\ \A i \in DOMAIN segments :
              Len(segments'[i]) = Len(segments[i]) /\ segments'[i] = segments[i]
  BY DEF TypeOK

\* A segment that gets other cells.
LEMMA Written ==
  ASSUME NEW g \in Seq(Seq(Int)), NEW i \in DOMAIN g, NEW d \in Seq(Int), Len(d) = Len(g[i]),
         NEW h, h = [g EXCEPT ![i] = d]
  PROVE  /\ h \in Seq(Seq(Int)) /\ Len(h) = Len(g) /\ h[i] = d
         /\ \A j \in DOMAIN g : Len(h[j]) = Len(g[j]) /\ (j # i => h[j] = g[j])
  OBVIOUS

-----------------------------------------------------------------------------
(* The steps of a session that runs.                                       *)

LEMMA ReadKeeps ==
  ASSUME ShmInv, NEW s \in Sessions, readElement(s)
  PROVE  ShmInv'
<1>1. /\ TypeOK /\ OfSessions /\ Running(s) /\ Attached(s) /\ NotBegun(s) /\ Undisturbed(s)
      /\ pc[s] = "input" /\ index[s] < elementCount(s)
  BY DEF ShmInv, readElement, Running
<1> DEFINE i == index[s] + 1
           m == sharedMemoryId[s]
           c == Cells(s)
           d == [c EXCEPT ![i] = typed[s][i]]
<1>2. /\ typed[s] \in Seq(Int) /\ elementCount(s) = Len(typed[s]) /\ elementCount(s) \in Nat
      /\ index[s] \in Nat /\ i \in 1 .. elementCount(s)
  BY <1>1, TypedFacts
<1>3. m \in DOMAIN segments /\ c \in Seq(Int) /\ Len(c) \in Nat /\ elementCount(s) <= Len(c)
  BY <1>1, CellFacts
<1>4. d \in Seq(Int) /\ Len(d) = Len(c)
      /\ \A k \in 1 .. Len(c) : d[k] = IF k = i THEN typed[s][i] ELSE c[k]
  <2>1. typed[s][i] \in Int
    BY <1>2
  <2> HIDE DEF c, i
  <2> QED
    BY <1>2, <1>3, <2>1
<1>5. segments' = [segments EXCEPT ![m] = d]
  BY <1>1 DEF readElement, Stored, Cells
<1> HIDE DEF d
<1>6. /\ segments' \in Seq(Seq(Int)) /\ Len(segments') = Len(segments) /\ segments'[m] = d
      /\ \A j \in DOMAIN segments :
           Len(segments'[j]) = Len(segments[j]) /\ (j # m => segments'[j] = segments[j])
  BY <1>1, <1>3, <1>4, <1>5, Written DEF TypeOK, Cells
<1>7. /\ UNCHANGED <<pc, typed, outerIndex, innerIndex, sharedMemoryId, keyed, disturbed, printed>>
      /\ index' = [index EXCEPT ![s] = i] /\ Cells(s)' = d
  BY <1>6 DEF readElement, loops, Cells
<1>8. Works(s)
  BY <1>1, <1>6, <1>7 DEF Works, OfSessions, Running
<1>9. TypeOK'
  <2>1. \A r \in Sessions : index'[r] \in 0 .. elementCount(r)
    BY <1>1, <1>2, <1>7 DEF TypeOK, OfSessions
  <2> QED
    BY <1>1, <1>6, <1>7, <2>1 DEF TypeOK, elementCount
<1>10. OfSessions'
  BY <1>1, <1>2, <1>7 DEF OfSessions
<1>11. NotBegun(s)'
  BY <1>1, <1>7 DEF NotBegun
<1>12. Undisturbed(s)'
  <2> SUFFICES ASSUME s \notin disturbed, NEW k \in 1 .. index'[s]
               PROVE  d[k] = typed[s][k]
    BY <1>1, <1>7 DEF Undisturbed
  <2>1. k \in 1 .. i
    BY <1>1, <1>7 DEF OfSessions
  <2>2. CASE k = i
    <3>1. i \in 1 .. Len(c)
      BY <1>2, <1>3
    <3> QED
      BY <1>4, <2>2, <3>1
  <2>3. CASE k # i
    <3>1. k \in 1 .. index[s] /\ k \in 1 .. Len(c)
      BY <1>2, <1>3, <2>1, <2>3
    <3>2. c[k] = typed[s][k]
      BY <1>1, <3>1 DEF Undisturbed
    <3> QED
      BY <1>4, <2>3, <3>1, <3>2
  <2> QED
    BY <2>2, <2>3
<1> QED
  BY <1>8, <1>9, <1>10, <1>11, <1>12, WorkKeeps DEF ShmInv

LEMMA GiveUpKeeps ==
  ASSUME ShmInv, NEW s \in Sessions, giveUp(s)
  PROVE  ShmInv'
<1>1. /\ TypeOK /\ OfSessions /\ pc[s] = "input" /\ pc' = [pc EXCEPT ![s] = "aborted"]
      /\ UNCHANGED <<typed, index, outerIndex, innerIndex, sharedMemoryId, segments, keyed, disturbed,
                     printed>>
  BY DEF ShmInv, giveUp, Goto, loops, kernel
<1>2. pc'[s] = "aborted" /\ \A r \in Sessions \ {s} : pc'[r] = pc[r]
  BY <1>1 DEF TypeOK
<1>3. Works(s)
  BY <1>1, <1>2, NoWrite DEF Works, Running
<1>4. TypeOK' /\ OfSessions'
  BY <1>1 DEF TypeOK, OfSessions, elementCount
<1>5. NotBegun(s)' /\ Undisturbed(s)'
  BY <1>2 DEF NotBegun, Undisturbed
<1> QED
  BY <1>3, <1>4, <1>5, WorkKeeps DEF ShmInv

\* The array as it was typed is a rearrangement of itself.
LEMMA TypedIsRearranged ==
  ASSUME NEW a \in Seq(Int), NEW c \in Seq(Int), Len(a) <= Len(c),
         \A k \in 1 .. Len(a) : c[k] = a[k]
  PROVE  Rearranges(c, a) /\ InPlace(c, Len(a), 0, 0)
<1>1. Len(a) \in Nat /\ \A k \in 1 .. Len(a) : c[k] \in Int
  OBVIOUS
<1> DEFINE f == [k \in 1 .. Len(a) |-> k]
<1>2. f \in Bijection(1 .. Len(a), 1 .. Len(a))
  BY DEF Bijection, Injection, Surjection, IsInjective
<1>3. Rearranges(c, a)
  BY <1>2 DEF Rearranges
<1>4. InPlace(c, Len(a), 0, 0)
  BY <1>1 DEF InPlace
<1> QED
  BY <1>3, <1>4

LEMMA ForkKeeps ==
  ASSUME ShmInv, NEW s \in Sessions, fork(s)
  PROVE  ShmInv'
<1>1. /\ TypeOK /\ OfSessions /\ Running(s) /\ Attached(s) /\ NotBegun(s) /\ Undisturbed(s)
      /\ pc[s] = "input" /\ index[s] = elementCount(s) /\ pc' = [pc EXCEPT ![s] = "sort"]
      /\ UNCHANGED <<typed, index, outerIndex, innerIndex, sharedMemoryId, segments, keyed, disturbed,
                     printed>>
  BY DEF ShmInv, fork, Goto, loops, kernel, Running
<1>2. pc'[s] = "sort" /\ \A r \in Sessions \ {s} : pc'[r] = pc[r]
  BY <1>1 DEF TypeOK
<1>3. Works(s)
  BY <1>1, <1>2, NoWrite DEF Works
<1>4. TypeOK' /\ OfSessions'
  BY <1>1 DEF TypeOK, OfSessions, elementCount
<1>5. NotBegun(s)'
  BY <1>2 DEF NotBegun
<1>6. Undisturbed(s)'
  <2> SUFFICES ASSUME s \notin disturbed
               PROVE  /\ Rearranges(Cells(s), typed[s])
                      /\ InPlace(Cells(s), elementCount(s), outerIndex[s], innerIndex[s])
    BY <1>1, <1>2 DEF Undisturbed, Cells, elementCount
  <2>1. /\ typed[s] \in Seq(Int) /\ elementCount(s) = Len(typed[s])
        /\ Cells(s) \in Seq(Int) /\ elementCount(s) <= Len(Cells(s))
    BY <1>1, TypedFacts, CellFacts
  <2>2. \A k \in 1 .. Len(typed[s]) : Cells(s)[k] = typed[s][k]
    BY <1>1, <2>1 DEF Undisturbed
  <2>3. outerIndex[s] = 0 /\ innerIndex[s] = 0
    BY <1>1 DEF NotBegun
  <2> QED
    BY <2>1, <2>2, <2>3, TypedIsRearranged
<1> QED
  BY <1>3, <1>4, <1>5, <1>6, WorkKeeps DEF ShmInv

LEMMA CompareKeeps ==
  ASSUME ShmInv, NEW s \in Sessions, Compare(s)
  PROVE  ShmInv'
<1>1. /\ TypeOK /\ OfSessions /\ Running(s) /\ Attached(s) /\ Undisturbed(s)
      /\ pc[s] = "sort" /\ OuterRuns(s) /\ InnerRuns(s)
  BY DEF ShmInv, Compare, Running
<1> DEFINE i == innerIndex[s]
           o == outerIndex[s]
           n == elementCount(s)
           m == sharedMemoryId[s]
           c == Cells(s)
           d == IF c[i + 1] > c[i + 2]
                THEN [c EXCEPT ![i + 1] = c[i + 2], ![i + 2] = c[i + 1]] ELSE c
<1>2. /\ typed[s] \in Seq(Int) /\ n = Len(typed[s]) /\ n \in Nat /\ o \in Nat /\ i \in Nat
      /\ o < n - 1 /\ i < n - o - 1
  BY <1>1, TypedFacts DEF OuterRuns, InnerRuns
<1>3. m \in DOMAIN segments /\ c \in Seq(Int) /\ Len(c) \in Nat /\ n <= Len(c)
  BY <1>1, CellFacts
<1>4. d \in Seq(Int) /\ Swapped(c, d, i)
  <2> HIDE DEF n, c, i, o
  <2>1. i + 1 \in 1 .. Len(c) /\ i + 2 \in 1 .. Len(c) /\ i + 1 # i + 2
    BY <1>2, <1>3
  <2>2. c[i + 1] \in Int /\ c[i + 2] \in Int
    BY <1>3, <2>1
  <2>3. CASE c[i + 1] > c[i + 2]
    <3>1. d = [c EXCEPT ![i + 1] = c[i + 2], ![i + 2] = c[i + 1]]
      BY <2>3
    <3>2. d \in Seq(Int) /\ Len(d) = Len(c)
      BY <1>3, <2>1, <2>2, <3>1
    <3> QED
      BY <1>3, <2>1, <2>2, <2>3, <3>1, <3>2 DEF Swapped
  <2>4. CASE ~(c[i + 1] > c[i + 2])
    BY <1>3, <2>4 DEF Swapped
  <2> QED
    BY <2>3, <2>4
<1>5. segments' = [segments EXCEPT ![m] = d]
  <2>1. segments \in Seq(Seq(Int)) /\ segments[m] = c
    BY <1>1 DEF TypeOK, Cells
  <2>2. CASE c[i + 1] > c[i + 2]
    <3>1. segments' = [segments EXCEPT ![m][i + 1] = c[i + 2], ![m][i + 2] = c[i + 1]]
      BY <2>2 DEF Compare
    <3>2. [segments EXCEPT ![m][i + 1] = c[i + 2], ![m][i + 2] = c[i + 1]]
          = [segments EXCEPT ![m] = [c EXCEPT ![i + 1] = c[i + 2], ![i + 2] = c[i + 1]]]
      <4> HIDE DEF c, m, i
      <4> QED
        BY <1>3, <2>1
    <3> QED
      BY <2>2, <3>1, <3>2
  <2>3. CASE ~(c[i + 1] > c[i + 2])
    BY <1>3, <2>1, <2>3 DEF Compare
  <2> QED
    BY <2>2, <2>3
<1> HIDE DEF d
<1>6. /\ segments' \in Seq(Seq(Int)) /\ Len(segments') = Len(segments) /\ segments'[m] = d
      /\ \A j \in DOMAIN segments :
           Len(segments'[j]) = Len(segments[j]) /\ (j # m => segments'[j] = segments[j])
  BY <1>1, <1>3, <1>4, <1>5, Written DEF TypeOK, Cells, Swapped
<1>7. /\ UNCHANGED <<pc, typed, index, outerIndex, sharedMemoryId, keyed, disturbed, printed>>
      /\ innerIndex' = [innerIndex EXCEPT ![s] = i + 1] /\ Cells(s)' = d
  BY <1>6 DEF Compare, Cells
<1>8. Works(s)
  BY <1>1, <1>6, <1>7 DEF Works, OfSessions, Running
<1>9. TypeOK'
  <2>1. i + 1 \in 0 .. n
    <3> HIDE DEF i, o, n
    <3> QED
      BY <1>2
  <2>2. \A r \in Sessions :
          outerIndex[r] \in 0 .. elementCount(r) /\ innerIndex[r] \in 0 .. elementCount(r)
    BY <1>1 DEF TypeOK
  <2>3. \A r \in Sessions : innerIndex'[r] = IF r = s THEN i + 1 ELSE innerIndex[r]
    <3> HIDE DEF i
    <3> QED
      BY <1>1, <1>7 DEF OfSessions
  <2>4. \A r \in Sessions :
          outerIndex'[r] \in 0 .. elementCount(r) /\ innerIndex'[r] \in 0 .. elementCount(r)
    <3> HIDE DEF i
    <3> QED
      BY <1>7, <2>1, <2>2, <2>3
  <2> HIDE DEF i, o, n, m, c
  <2> QED
    BY <1>1, <1>6, <1>7, <2>4 DEF TypeOK, elementCount
<1>10. OfSessions'
  <2>1. i + 1 \in Int
    BY <1>2
  <2> HIDE DEF i
  <2> QED
    BY <1>1, <1>7, <2>1 DEF OfSessions
<1>11. NotBegun(s)'
  BY <1>1, <1>7 DEF NotBegun
<1>12. Undisturbed(s)'
  <2> SUFFICES ASSUME s \notin disturbed
               PROVE  Rearranges(d, typed[s]) /\ InPlace(d, n, o, i + 1)
    BY <1>1, <1>7 DEF Undisturbed, OfSessions, elementCount
  <2>1. Rearranges(c, typed[s]) /\ InPlace(c, n, o, i)
    BY <1>1 DEF Undisturbed
  <2> HIDE DEF n, o, i, c
  <2>2. i + 2 <= n
    BY <1>2
  <2> QED
    BY <1>2, <1>3, <1>4, <2>1, <2>2, SwapRearranges, SwapInPlace
<1> QED
  BY <1>8, <1>9, <1>10, <1>11, <1>12, WorkKeeps DEF ShmInv

LEMMA NextPassKeeps ==
  ASSUME ShmInv, NEW s \in Sessions, NextPass(s)
  PROVE  ShmInv'
<1>1. /\ TypeOK /\ OfSessions /\ Running(s) /\ Attached(s) /\ Undisturbed(s)
      /\ pc[s] = "sort" /\ OuterRuns(s) /\ ~InnerRuns(s)
      /\ UNCHANGED <<pc, typed, index, sharedMemoryId, segments, keyed, disturbed, printed>>
      /\ outerIndex' = [outerIndex EXCEPT ![s] = outerIndex[s] + 1]
      /\ innerIndex' = [innerIndex EXCEPT ![s] = 0]
  BY DEF ShmInv, NextPass, Running, kernel
<1>2. /\ typed[s] \in Seq(Int) /\ elementCount(s) = Len(typed[s]) /\ elementCount(s) \in Nat
      /\ outerIndex[s] \in Nat /\ innerIndex[s] \in Nat
      /\ outerIndex[s] < elementCount(s) - 1
      /\ ~(innerIndex[s] < elementCount(s) - outerIndex[s] - 1)
      /\ Cells(s) \in Seq(Int) /\ elementCount(s) <= Len(Cells(s))
  BY <1>1, TypedFacts, CellFacts DEF OuterRuns, InnerRuns
<1>3. Works(s)
  BY <1>1, NoWrite DEF Works, OfSessions, Running
<1>4. TypeOK'
  <2>1. outerIndex[s] + 1 \in 0 .. elementCount(s) /\ 0 \in 0 .. elementCount(s)
    <3>1. PICK n, o : n = elementCount(s) /\ o = outerIndex[s]
      OBVIOUS
    <3>2. n \in Nat /\ o \in Nat /\ o < n - 1
      BY <1>2, <3>1
    <3>3. o + 1 \in 0 .. n /\ 0 \in 0 .. n
      BY <3>2
    <3> QED
      BY <3>1, <3>3
  <2>2. \A r \in Sessions :
          outerIndex[r] \in 0 .. elementCount(r) /\ innerIndex[r] \in 0 .. elementCount(r)
    BY <1>1 DEF TypeOK
  <2>3. \A r \in Sessions :
          /\ outerIndex'[r] = IF r = s THEN outerIndex[s] + 1 ELSE outerIndex[r]
          /\ innerIndex'[r] = IF r = s THEN 0 ELSE innerIndex[r]
    BY <1>1 DEF OfSessions
  <2>4. \A r \in Sessions :
          outerIndex'[r] \in 0 .. elementCount(r) /\ innerIndex'[r] \in 0 .. elementCount(r)
    BY <2>1, <2>2, <2>3
  <2> QED
    BY <1>1, <2>4 DEF TypeOK, elementCount
<1>5. OfSessions'
  <2>1. outerIndex[s] + 1 \in Int /\ 0 \in Int
    BY <1>2
  <2> QED
    BY <1>1, <2>1 DEF OfSessions
<1>6. NotBegun(s)'
  BY <1>1 DEF NotBegun
<1>7. Undisturbed(s)'
  <2> SUFFICES ASSUME s \notin disturbed
               PROVE  /\ Rearranges(Cells(s), typed[s])
                      /\ InPlace(Cells(s), elementCount(s), outerIndex[s] + 1, 0)
    BY <1>1 DEF Undisturbed, OfSessions, elementCount, Cells
  <2>1. /\ Rearranges(Cells(s), typed[s])
        /\ InPlace(Cells(s), elementCount(s), outerIndex[s], innerIndex[s])
    BY <1>1 DEF Undisturbed
  <2> QED
    BY <1>2, <2>1, PassInPlace
<1> QED
  BY <1>3, <1>4, <1>5, <1>6, <1>7, WorkKeeps DEF ShmInv

LEMMA ChildExitsKeeps ==
  ASSUME ShmInv, NEW s \in Sessions, childExits(s)
  PROVE  ShmInv'
<1>1. /\ TypeOK /\ OfSessions /\ Running(s) /\ Attached(s) /\ Undisturbed(s)
      /\ pc[s] = "sort" /\ ~OuterRuns(s) /\ pc' = [pc EXCEPT ![s] = "sorted"]
      /\ UNCHANGED <<typed, index, outerIndex, innerIndex, sharedMemoryId, segments, keyed, disturbed,
                     printed>>
  BY DEF ShmInv, childExits, Goto, loops, kernel, Running
<1>2. pc'[s] = "sorted" /\ \A r \in Sessions \ {s} : pc'[r] = pc[r]
  BY <1>1 DEF TypeOK
<1>3. Works(s)
  BY <1>1, <1>2, NoWrite DEF Works
<1>4. TypeOK' /\ OfSessions'
  BY <1>1 DEF TypeOK, OfSessions, elementCount
<1>5. NotBegun(s)'
  BY <1>2 DEF NotBegun
<1>6. Undisturbed(s)'
  <2> SUFFICES ASSUME s \notin disturbed
               PROVE  SubSeq(Cells(s), 1, elementCount(s)) = Service!sortArrayAscending(typed[s])
    <3>1. (Service!sortArrayAscending(typed[s]))' = Service!sortArrayAscending(typed[s])
      BY <1>1 DEF Service!sortArrayAscending, Service!Rearranged
    <3> QED
      BY <1>1, <1>2, <3>1 DEF Undisturbed, Cells, elementCount
  <2>1. /\ typed[s] \in Seq(Int) /\ elementCount(s) = Len(typed[s])
        /\ outerIndex[s] \in Nat /\ innerIndex[s] \in Nat
        /\ ~(outerIndex[s] < Len(typed[s]) - 1)
        /\ Cells(s) \in Seq(Int) /\ Len(typed[s]) <= Len(Cells(s))
    BY <1>1, TypedFacts, CellFacts DEF OuterRuns
  <2>2. /\ Rearranges(Cells(s), typed[s])
        /\ InPlace(Cells(s), Len(typed[s]), outerIndex[s], innerIndex[s])
    BY <1>1, <2>1 DEF Undisturbed
  <2> QED
    BY <2>1, <2>2, SortedAtTheEnd
<1> QED
  BY <1>3, <1>4, <1>5, <1>6, WorkKeeps DEF ShmInv

-----------------------------------------------------------------------------
(* The first and the last step of a session.                               *)

\* A new segment stands behind the ones there are.
LEMMA SegmentAppended ==
  ASSUME NEW g \in Seq(Seq(Int)), NEW z \in Seq(Int), NEW h, h = Append(g, z)
  PROVE  /\ h \in Seq(Seq(Int)) /\ Len(h) = Len(g) + 1 /\ Len(g) \in Nat
         /\ h[Len(g) + 1] = z
         /\ \A j \in DOMAIN g : h[j] = g[j]
  OBVIOUS

LEMMA AttachKeeps ==
  ASSUME ShmInv, NEW s \in Sessions, shmget(s)
  PROVE  ShmInv'
<1>1. /\ TypeOK /\ OfSessions /\ NoStraySegment /\ Alone /\ UndisturbedIsSorted
      /\ pc[s] = "new" /\ UNCHANGED <<typed, index, outerIndex, innerIndex, printed>>
      /\ \A r \in Sessions : Attached(r) /\ NotBegun(r) /\ Undisturbed(r)
  BY DEF ShmInv, shmget, loops
<1>2. elementCount(s) \in Nat /\ outerIndex[s] = 0 /\ innerIndex[s] = 0
  BY <1>1, TypedFacts DEF NotBegun
<1>3. CASE keyed # 0 /\ Len(segments[keyed]) < elementCount(s)
  <2>1. pc' = [pc EXCEPT ![s] = "refused"] /\ UNCHANGED <<segments, keyed, sharedMemoryId, disturbed>>
    BY <1>3 DEF shmget, Goto, kernel
  <2>2. pc'[s] = "refused" /\ \A r \in Sessions \ {s} : pc'[r] = pc[r]
    BY <1>1, <2>1 DEF TypeOK
  <2>3. TypeOK' /\ OfSessions'
    BY <1>1, <2>1 DEF TypeOK, OfSessions, elementCount
  <2>4. NoStraySegment' /\ Alone' /\ UndisturbedIsSorted'
    <3>1. \A r \in Sessions :
            Running(r)' = Running(r) /\ (pc[r] = "aborted" => pc'[r] = "aborted")
      BY <1>1, <2>2 DEF Running
    <3> QED
      BY <1>1, <2>1, <3>1 DEF NoStraySegment, Alone, UndisturbedIsSorted
  <2>5. Attached(s)' /\ NotBegun(s)' /\ Undisturbed(s)'
    BY <2>2 DEF Attached, NotBegun, Undisturbed, Running
  <2>6. ASSUME NEW r \in Sessions \ {s} PROVE Attached(r)' /\ NotBegun(r)' /\ Undisturbed(r)'
    BY <1>1, <2>1, <2>2, OtherStays DEF Cells
  <2> QED
    BY <2>3, <2>4, <2>5, <2>6 DEF ShmInv
<1>4. CASE ~(keyed # 0 /\ Len(segments[keyed]) < elementCount(s))
  <2> DEFINE users == { r \in Sessions : Running(r) /\ sharedMemoryId[r] = keyed' }
  <2>1. /\ pc' = [pc EXCEPT ![s] = "input"] /\ sharedMemoryId' = [sharedMemoryId EXCEPT ![s] = keyed']
        /\ IF keyed # 0 THEN UNCHANGED <<segments, keyed>>
           ELSE /\ segments' = Append(segments, [i \in 1 .. elementCount(s) |-> 0])
                /\ keyed' = Len(segments) + 1
        /\ disturbed' = IF users = {} THEN disturbed ELSE disturbed \cup users \cup {s}
    BY <1>4 DEF shmget, Goto, kernel
  <2>2. /\ pc'[s] = "input" /\ \A r \in Sessions \ {s} : pc'[r] = pc[r]
        /\ sharedMemoryId'[s] = keyed'
        /\ \A r \in Sessions \ {s} : sharedMemoryId'[r] = sharedMemoryId[r]
    BY <1>1, <2>1 DEF TypeOK, OfSessions
  <2>3. /\ segments' \in Seq(Seq(Int)) /\ keyed' \in 1 .. Len(segments') /\ Len(segments) <= Len(segments')
        /\ \A j \in DOMAIN segments : segments'[j] = segments[j]
        /\ elementCount(s) <= Len(segments'[keyed'])
    <3>1. CASE keyed # 0
      <4>1. keyed \in 1 .. Len(segments) /\ segments[keyed] \in Seq(Int)
        BY <1>1, <3>1 DEF TypeOK
      <4> QED
        BY <1>1, <1>2, <1>4, <2>1, <3>1, <4>1 DEF TypeOK
    <3>2. CASE keyed = 0
      <4>1. PICK g, h, z :
               g = segments /\ h = segments' /\ z = [i \in 1 .. elementCount(s) |-> 0]
        OBVIOUS
      <4>2. z \in Seq(Int) /\ Len(z) = elementCount(s)
        BY <1>2, <4>1
      <4>3. h = Append(g, z) /\ keyed' = Len(g) + 1 /\ g \in Seq(Seq(Int))
        BY <1>1, <2>1, <3>2, <4>1 DEF TypeOK
      <4>4. /\ h \in Seq(Seq(Int)) /\ Len(h) = Len(g) + 1 /\ Len(g) \in Nat
            /\ h[Len(g) + 1] = z /\ \A j \in DOMAIN g : h[j] = g[j]
        BY <4>2, <4>3, SegmentAppended
      <4> QED
        BY <1>2, <4>1, <4>2, <4>3, <4>4
    <3> QED
      BY <3>1, <3>2
  <2>4. disturbed \subseteq disturbed'
    BY <2>1
  <2>5. TypeOK'
    <3>1. \A r \in Sessions : sharedMemoryId'[r] \in 0 .. Len(segments')
      <4>1. \A r \in Sessions : sharedMemoryId[r] \in 0 .. Len(segments)
        BY <1>1 DEF TypeOK
      <4>2. Len(segments) \in Nat /\ Len(segments') \in Nat
        BY <1>1, <2>3 DEF TypeOK
      <4> QED
        BY <2>2, <2>3, <4>1, <4>2
    <3>2. keyed' \in 0 .. Len(segments')
      BY <2>3
    <3> QED
      BY <1>1, <2>1, <2>3, <3>1, <3>2 DEF TypeOK, elementCount
  <2>6. OfSessions'
    <3>1. keyed' \in Int
      BY <2>3
    <3> QED
      BY <1>1, <2>1, <3>1 DEF OfSessions
  <2>7. NoStraySegment'
    BY <2>2 DEF NoStraySegment, Running
  <2>8. Alone'
    <3> SUFFICES ASSUME NEW q \in Sessions \ disturbed', NEW r \in Sessions,
                        Running(q)', Running(r)', sharedMemoryId'[r] = sharedMemoryId'[q], r # q
                 PROVE  FALSE
      BY DEF Alone
    <3>1. CASE q # s /\ r # s
      <4>1. Running(q) /\ Running(r) /\ sharedMemoryId[r] = sharedMemoryId[q] /\ q \notin disturbed
        BY <2>2, <2>4, <3>1 DEF Running
      <4> QED
        BY <1>1, <4>1 DEF Alone
    <3>2. CASE q = s
      <4>1. r \in users
        BY <2>2, <3>2 DEF Running
      <4> QED
        BY <2>1, <3>2, <4>1
    <3>3. CASE r = s
      <4>1. q \in users
        BY <2>2, <3>3 DEF Running
      <4> QED
        BY <2>1, <4>1
    <3> QED
      BY <3>1, <3>2, <3>3
  <2>9. UndisturbedIsSorted'
    <3>1. \A r \in Sessions :
            (Service!sortArrayAscending(typed[r]))' = Service!sortArrayAscending(typed[r])
      BY <1>1 DEF Service!sortArrayAscending, Service!Rearranged
    <3> QED
      BY <1>1, <2>4, <3>1 DEF UndisturbedIsSorted
  <2>10. Attached(s)'
    BY <1>1, <2>2, <2>3 DEF Attached, Cells, elementCount
  <2>11. NotBegun(s)'
    BY <1>1, <1>2 DEF NotBegun
  <2>12. Undisturbed(s)'
    <3>1. index[s] = 0 /\ index'[s] = index[s]
      BY <1>1 DEF NotBegun
    <3> QED
      BY <1>1, <2>2, <3>1 DEF Undisturbed
  <2>13. ASSUME NEW r \in Sessions \ {s} PROVE Attached(r)' /\ NotBegun(r)' /\ Undisturbed(r)'
    <3>1. Running(r) => Cells(r)' = Cells(r)
      <4>1. Running(r) => sharedMemoryId[r] \in DOMAIN segments
        BY <1>1, CellFacts
      <4> QED
        BY <2>2, <2>3, <4>1 DEF Cells
    <3> QED
      BY <1>1, <2>2, <2>4, <3>1, OtherStays
  <2> QED
    BY <2>5, <2>6, <2>7, <2>8, <2>9, <2>10, <2>11, <2>12, <2>13 DEF ShmInv
<1> QED
  BY <1>3, <1>4

LEMMA DisplayKeeps ==
  ASSUME ShmInv, NEW s \in Sessions, displayAfter(s)
  PROVE  ShmInv'
<1>1. /\ TypeOK /\ OfSessions /\ NoStraySegment /\ Alone /\ UndisturbedIsSorted
      /\ Running(s) /\ pc[s] = "sorted" /\ pc' = [pc EXCEPT ![s] = "done"]
      /\ printed' = [printed EXCEPT ![s] = SubSeq(Cells(s), 1, elementCount(s))]
      /\ keyed' = IF keyed = sharedMemoryId[s] THEN 0 ELSE keyed
      /\ UNCHANGED <<typed, index, outerIndex, innerIndex, sharedMemoryId, segments, disturbed>>
      /\ \A r \in Sessions : Attached(r) /\ NotBegun(r) /\ Undisturbed(r)
  BY DEF ShmInv, displayAfter, Goto, loops, Waited, Removed, Running
<1>2. /\ pc'[s] = "done" /\ \A r \in Sessions \ {s} : pc'[r] = pc[r]
      /\ printed'[s] = SubSeq(Cells(s), 1, elementCount(s))
      /\ \A r \in Sessions \ {s} : printed'[r] = printed[r]
  BY <1>1 DEF TypeOK, OfSessions
<1>3. SubSeq(Cells(s), 1, elementCount(s)) \in Seq(Int)
  <2>1. /\ Cells(s) \in Seq(Int) /\ elementCount(s) <= Len(Cells(s)) /\ elementCount(s) \in Nat
    BY <1>1, TypedFacts, CellFacts
  <2>2. 1 \in Int /\ elementCount(s) \in Int /\ \A i \in 1 .. elementCount(s) : Cells(s)[i] \in Int
    BY <2>1
  <2> QED
    BY <2>2, SubSeqProperties
<1>4. TypeOK'
  <2>1. keyed' \in 0 .. Len(segments)
    BY <1>1 DEF TypeOK
  <2> QED
    BY <1>1, <1>2, <1>3, <2>1 DEF TypeOK, elementCount
<1>5. OfSessions'
  BY <1>1 DEF OfSessions
<1>6. \A r \in Sessions : Running(r)' => Running(r) /\ r # s
  BY <1>2 DEF Running
<1>7. NoStraySegment'
  <2> SUFFICES ASSUME keyed' # 0
               PROVE  \E r \in Sessions : sharedMemoryId[r] = keyed /\ (Running(r)' \/ pc'[r] = "aborted")
    BY <1>1 DEF NoStraySegment
  <2>1. PICK r \in Sessions : sharedMemoryId[r] = keyed /\ (Running(r) \/ pc[r] = "aborted")
    BY <1>1 DEF NoStraySegment
  <2>2. r # s
    BY <1>1, <2>1
  <2> QED
    BY <1>2, <2>1, <2>2 DEF Running
<1>8. Alone'
  BY <1>1, <1>6 DEF Alone
<1>9. UndisturbedIsSorted'
  <2>1. \A r \in Sessions :
          (Service!sortArrayAscending(typed[r]))' = Service!sortArrayAscending(typed[r])
    BY <1>1 DEF Service!sortArrayAscending, Service!Rearranged
  <2>2. s \notin disturbed => printed'[s] = Service!sortArrayAscending(typed[s])
    BY <1>1, <1>2 DEF Undisturbed
  <2> QED
    BY <1>1, <1>2, <2>1, <2>2 DEF UndisturbedIsSorted
<1>10. Attached(s)' /\ NotBegun(s)' /\ Undisturbed(s)'
  BY <1>2 DEF Attached, NotBegun, Undisturbed, Running
<1>11. ASSUME NEW r \in Sessions \ {s} PROVE Attached(r)' /\ NotBegun(r)' /\ Undisturbed(r)'
  BY <1>1, <1>2, OtherStays DEF Cells
<1> QED
  BY <1>4, <1>5, <1>7, <1>8, <1>9, <1>10, <1>11 DEF ShmInv

-----------------------------------------------------------------------------
(* The theorem.                                                            *)

LEMMA InitShm == Init => ShmInv
<1> SUFFICES ASSUME Init PROVE ShmInv
  OBVIOUS
<1>1. \A s \in Sessions : elementCount(s) \in Nat
  BY SharedMemoryAssumption DEF Init, elementCount
<1>2. TypeOK
  <2>1. segments \in Seq(Seq(Int)) /\ keyed \in 0 .. Len(segments)
        /\ \A s \in Sessions : sharedMemoryId[s] \in 0 .. Len(segments)
    BY DEF Init
  <2> QED
    BY <1>1, <2>1 DEF Init, TypeOK
<1>3. OfSessions
  BY DEF Init, OfSessions
<1>4. NoStraySegment /\ Alone /\ UndisturbedIsSorted
  BY DEF Init, NoStraySegment, Alone, UndisturbedIsSorted, Running
<1>5. \A s \in Sessions : Attached(s) /\ NotBegun(s) /\ Undisturbed(s)
  BY DEF Init, Attached, NotBegun, Undisturbed, Running
<1> QED
  BY <1>2, <1>3, <1>4, <1>5 DEF ShmInv

LEMMA NextShm == ShmInv /\ [Next]_vars => ShmInv'
<1> SUFFICES ASSUME ShmInv, [Next]_vars PROVE ShmInv'
  OBVIOUS
<1>1. ASSUME NEW s \in Sessions,
             \/ shmget(s) \/ readElement(s) \/ giveUp(s) \/ fork(s)
             \/ Compare(s) \/ NextPass(s) \/ childExits(s) \/ displayAfter(s)
      PROVE  ShmInv'
  BY <1>1, AttachKeeps, ReadKeeps, GiveUpKeeps, ForkKeeps, CompareKeeps, NextPassKeeps,
     ChildExitsKeeps, DisplayKeeps
<1>2. CASE UNCHANGED vars
  <2>1. UNCHANGED <<pc, typed, index, outerIndex, innerIndex, sharedMemoryId, segments, keyed,
                    disturbed, printed>>
    BY <1>2 DEF vars, loops, kernel
  <2>2. TypeOK' /\ OfSessions' /\ NoStraySegment' /\ Alone' /\ UndisturbedIsSorted'
    <3>1. \A s \in Sessions :
            (Service!sortArrayAscending(typed[s]))' = Service!sortArrayAscending(typed[s])
      BY <2>1 DEF Service!sortArrayAscending, Service!Rearranged
    <3> QED
      BY <2>1, <3>1 DEF ShmInv, TypeOK, OfSessions, NoStraySegment, Alone, UndisturbedIsSorted,
         elementCount, Running
  <2>3. \A s \in Sessions : Attached(s)' /\ NotBegun(s)' /\ Undisturbed(s)'
    BY <2>1, OtherStays DEF ShmInv, Cells
  <2> QED
    BY <2>2, <2>3 DEF ShmInv
<1> QED
  BY <1>1, <1>2 DEF Next

\* However many sessions of shared_memory_ipc.c overlap, and whatever is typed:
\* the segment under the key belongs to a session that runs or was aborted, so
\* a session that ends leaves none behind; and a session whose segment no other
\* one attached while it ran shows its own array sorted, also in a segment that
\* an aborted session had left with more cells and old contents.
THEOREM SegmentsCorrect == Spec => []SegmentsOK
<1>1. ShmInv => SegmentsOK
  BY DEF ShmInv, SegmentsOK
<1> QED
  BY <1>1, InitShm, NextShm, PTL DEF Spec
=============================================================================
