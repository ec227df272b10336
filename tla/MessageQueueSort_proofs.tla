------------------------ MODULE MessageQueueSort_proofs ------------------------
(***************************************************************************)
(* Proofs about MessageQueueSort, for any number of sessions that start,   *)
(* stop and take each other's messages in any order: an array is in one    *)
(* hand at a time and answered once, and who is alone with the queue gets  *)
(* his own array back, sorted.  Before them, proofs about BubbleSort: what *)
(* the child does to the array sorts it.                                   *)
(***************************************************************************)
EXTENDS MessageQueueSort, BubbleSort, DataLemmas

-----------------------------------------------------------------------------
(* sortArrayAscending returns a sorted rearrangement of any array.         *)
(* SuffixInPlace carries the proof: it becomes inductive once the types    *)
(* bound the two indexes.                                                  *)

\* The elements are integers.
LEMMA IntElements ==
  ASSUME arrayData \in [Indexes -> IntValues]
  PROVE  arrayData \in [0 .. elementCount - 1 -> Int]
<1>1. \A i \in Indexes : arrayData[i] \in Int
  BY ElementsAssumption
<1> QED BY <1>1 DEF Indexes

\* The types are kept: the indexes of the two loops stay inside the array.
THEOREM TypeCorrect == SortSpec => []SortTypeOK
<1>1. SortInit => SortTypeOK
  BY ElementsAssumption DEF SortInit, SortTypeOK, Indexes
<1>2. SortTypeOK /\ [SortNext]_sortVars => SortTypeOK'
  <2> SUFFICES ASSUME SortTypeOK, [SortNext]_sortVars PROVE SortTypeOK'
    OBVIOUS
  <2> USE ElementsAssumption
  <2>1. CASE Compare
    BY <2>1 DEF Compare, InnerRuns, SortTypeOK, Indexes, swapIntegers
  <2>2. CASE NextPass
    BY <2>2 DEF NextPass, InnerRuns, SortTypeOK, Indexes
  <2>3. CASE UNCHANGED sortVars
    BY <2>3 DEF sortVars, SortTypeOK, Indexes
  <2> QED BY <2>1, <2>2, <2>3 DEF SortNext
<1> QED BY <1>1, <1>2, PTL DEF SortSpec

\* A swap of two neighbours of a rearrangement is a rearrangement.
LEMMA SwapRearranges ==
  ASSUME SortTypeOK, IsRearrangement, Compare
  PROVE  IsRearrangement'
<1> DEFINE k == innerIndex
<1>0. k \in Indexes /\ k + 1 \in Indexes /\ Indexes' = Indexes /\ Rearrangements' = Rearrangements
      /\ inputArray' = inputArray /\ inputArray \in [Indexes -> IntValues]
      /\ arrayData \in [Indexes -> IntValues]
  BY ElementsAssumption DEF Compare, InnerRuns, SortTypeOK, Indexes, Rearrangements
<1>1. PICK f \in Rearrangements : \A i \in Indexes : arrayData[i] = inputArray[f[i]]
  BY DEF IsRearrangement
<1>2. CASE arrayData[k] > arrayData[k + 1]
  <2> DEFINE g == [f EXCEPT ![k] = f[k + 1], ![k + 1] = f[k]]
  <2>1. f \in [Indexes -> Indexes] /\ \A i, j \in Indexes : f[i] = f[j] => i = j
    BY <1>1 DEF Rearrangements
  <2>2. g \in [Indexes -> Indexes]
    BY <1>0, <2>1
  <2>3. \A i, j \in Indexes : g[i] = g[j] => i = j
    BY <1>0, <2>1
  <2>4. arrayData' = [arrayData EXCEPT ![k] = arrayData[k + 1], ![k + 1] = arrayData[k]]
    BY <1>2 DEF Compare, swapIntegers
  <2>5. \A i \in Indexes : arrayData'[i] = inputArray[g[i]]
    BY <1>0, <1>1, <2>1, <2>4
  <2>6. g \in Rearrangements
    BY <2>2, <2>3 DEF Rearrangements
  <2> QED BY <1>0, <2>5, <2>6 DEF IsRearrangement
<1>3. CASE ~(arrayData[k] > arrayData[k + 1])
  <2>1. arrayData' = arrayData
    BY <1>3 DEF Compare
  <2> QED BY <1>0, <1>1, <2>1 DEF IsRearrangement
<1> QED BY <1>2, <1>3

\* The array is always a rearrangement of the input.
THEOREM RearrangementCorrect == SortSpec => []IsRearrangement
<1>1. SortInit => IsRearrangement
  <2> SUFFICES ASSUME SortInit PROVE IsRearrangement
    OBVIOUS
  <2> DEFINE f == [i \in Indexes |-> i]
  <2>1. f \in Rearrangements
    BY DEF Rearrangements
  <2>2. \A i \in Indexes : arrayData[i] = inputArray[f[i]]
    BY DEF SortInit
  <2> QED BY <2>1, <2>2 DEF IsRearrangement
<1>2. SortTypeOK /\ IsRearrangement /\ [SortNext]_sortVars => IsRearrangement'
  <2> SUFFICES ASSUME SortTypeOK, IsRearrangement, [SortNext]_sortVars PROVE IsRearrangement'
    OBVIOUS
  <2>1. CASE Compare
    BY <2>1, SwapRearranges
  <2>2. CASE NextPass
    BY <2>2 DEF NextPass, IsRearrangement, Rearrangements, Indexes
  <2>3. CASE UNCHANGED sortVars
    BY <2>3 DEF sortVars, IsRearrangement, Rearrangements, Indexes
  <2> QED BY <2>1, <2>2, <2>3 DEF SortNext
<1> QED BY <1>1, <1>2, TypeCorrect, PTL DEF SortSpec

\* One comparison keeps the suffix in place and moves the largest value on.
LEMMA CompareKeepsSuffix ==
  ASSUME SortTypeOK, SuffixInPlace, Compare
  PROVE  SuffixInPlace'
<1> DEFINE k == innerIndex
           a == arrayData
           n == elementCount
<1>0. /\ n \in Nat /\ outerIndex \in Nat /\ k \in Nat /\ k + 1 < n - outerIndex
      /\ outerIndex < n - 1 /\ n' = n /\ outerIndex' = outerIndex /\ innerIndex' = k + 1
      /\ a \in [0 .. n - 1 -> Int]
  <2>1. arrayData \in [0 .. elementCount - 1 -> Int]
    BY IntElements DEF SortTypeOK
  <2> QED BY <2>1, ElementsAssumption DEF Compare, InnerRuns, SortTypeOK
<1>1. /\ \A i, j \in 0 .. n - 1 : i < j /\ j >= n - outerIndex => a[i] <= a[j]
      /\ \A i \in 0 .. k : a[i] <= a[k]
  BY <1>0 DEF SuffixInPlace, Indexes
<1>2. a' \in [0 .. n - 1 -> Int]
      /\ \A i \in 0 .. n - 1 :
           a'[i] = IF a[k] > a[k + 1] /\ i = k THEN a[k + 1]
                   ELSE IF a[k] > a[k + 1] /\ i = k + 1 THEN a[k] ELSE a[i]
  BY <1>0 DEF Compare, swapIntegers
<1>3. ASSUME NEW i \in 0 .. n - 1, NEW j \in 0 .. n - 1, i < j, j >= n - outerIndex
      PROVE  a'[i] <= a'[j]
  <2>1. a'[j] = a[j]
    BY <1>0, <1>2, <1>3
  <2>2. a[k] <= a[j] /\ a[k + 1] <= a[j] /\ a[i] <= a[j]
    BY <1>0, <1>1, <1>3
  <2> QED BY <1>0, <1>2, <2>1, <2>2
<1>4. ASSUME NEW i \in 0 .. k + 1
      PROVE  a'[i] <= a'[k + 1]
  <2>1. i <= k => a[i] <= a[k]
    BY <1>0, <1>1
  <2>2. a'[k + 1] = IF a[k] > a[k + 1] THEN a[k] ELSE a[k + 1]
    BY <1>0, <1>2
  <2>3. i \in 0 .. n - 1 /\ k \in 0 .. n - 1 /\ k + 1 \in 0 .. n - 1
    BY <1>0
  <2>4. a[i] \in Int /\ a[k] \in Int /\ a[k + 1] \in Int
    BY <1>0, <2>3
  <2>5. CASE i = k + 1
    BY <2>5, <2>2, <2>4
  <2>6. CASE i = k
    BY <2>6, <2>2, <2>4, <1>2, <2>3
  <2>7. CASE i < k
    <3>1. a'[i] = a[i]
      BY <2>7, <1>2, <2>3
    <3> QED BY <3>1, <2>1, <2>2, <2>4, <2>7, <1>4, <1>0
  <2> QED BY <2>5, <2>6, <2>7, <1>0
<1> QED BY <1>0, <1>3, <1>4 DEF SuffixInPlace, Indexes

\* At the end of a pass one more value is in place.
LEMMA NextPassKeepsSuffix ==
  ASSUME SortTypeOK, SuffixInPlace, NextPass
  PROVE  SuffixInPlace'
<1> DEFINE a == arrayData
           n == elementCount
<1>0. /\ n \in Nat /\ outerIndex \in Nat /\ innerIndex \in Nat
      /\ innerIndex = n - 1 - outerIndex /\ outerIndex < n - 1
      /\ n' = n /\ outerIndex' = outerIndex + 1 /\ innerIndex' = 0 /\ a' = a
      /\ a \in [0 .. n - 1 -> Int]
  <2>1. arrayData \in [0 .. elementCount - 1 -> Int]
    BY IntElements DEF SortTypeOK
  <2> QED BY <2>1, ElementsAssumption DEF NextPass, InnerRuns, SortTypeOK
<1>1. /\ \A i, j \in 0 .. n - 1 : i < j /\ j >= n - outerIndex => a[i] <= a[j]
      /\ \A i \in 0 .. innerIndex : a[i] <= a[innerIndex]
  BY <1>0 DEF SuffixInPlace, Indexes
<1>2. ASSUME NEW i \in 0 .. n - 1, NEW j \in 0 .. n - 1, i < j, j >= n - (outerIndex + 1)
      PROVE  a[i] <= a[j]
  <2>1. CASE j = innerIndex
    BY <1>0, <1>1, <1>2, <2>1
  <2>2. CASE j >= n - outerIndex
    BY <1>1, <1>2, <2>2
  <2> QED BY <1>0, <1>2, <2>1, <2>2
<1>3. \A i \in 0 .. 0 : a[i] <= a[0]
  BY <1>0
<1> QED BY <1>0, <1>2, <1>3 DEF SuffixInPlace, Indexes

\* The loop invariant of the two loops.
THEOREM SuffixCorrect == SortSpec => []SuffixInPlace
<1>1. SortInit => SuffixInPlace
  <2> SUFFICES ASSUME SortInit PROVE SuffixInPlace
    OBVIOUS
  <2>1. elementCount \in Nat /\ arrayData \in [0 .. elementCount - 1 -> Int]
        /\ outerIndex = 0 /\ innerIndex = 0
    BY ElementsAssumption, IntElements DEF SortInit
  <2> QED BY <2>1 DEF SuffixInPlace, Indexes
<1>2. SortTypeOK /\ SuffixInPlace /\ [SortNext]_sortVars => SuffixInPlace'
  <2> SUFFICES ASSUME SortTypeOK, SuffixInPlace, [SortNext]_sortVars PROVE SuffixInPlace'
    OBVIOUS
  <2>1. CASE Compare
    BY <2>1, CompareKeepsSuffix
  <2>2. CASE NextPass
    BY <2>2, NextPassKeepsSuffix
  <2>3. CASE UNCHANGED sortVars
    BY <2>3 DEF sortVars, SuffixInPlace, Indexes
  <2> QED BY <2>1, <2>2, <2>3 DEF SortNext
<1> QED BY <1>1, <1>2, TypeCorrect, PTL DEF SortSpec

\* The invariant of the two loops of sortArrayAscending holds throughout.
THEOREM LoopInvCorrect == SortSpec => []LoopInv
<1>1. SortTypeOK /\ IsRearrangement /\ SuffixInPlace => LoopInv
  BY DEF LoopInv
<1> QED BY <1>1, TypeCorrect, RearrangementCorrect, SuffixCorrect, PTL

\* What sortArrayAscending returns is sorted, whatever the array.
THEOREM SortedCorrect == SortSpec => []SortedAtReturn
<1>1. SortTypeOK /\ SuffixInPlace => SortedAtReturn
  <2> SUFFICES ASSUME SortTypeOK, SuffixInPlace, Done,
                      NEW i \in Indexes, NEW j \in Indexes, i < j
               PROVE  arrayData[i] <= arrayData[j]
    BY DEF SortedAtReturn
  <2>1. j >= elementCount - outerIndex
    BY ElementsAssumption DEF SortTypeOK, Done, Indexes
  <2> QED BY <2>1 DEF SuffixInPlace
<1> QED BY <1>1, TypeCorrect, SuffixCorrect, PTL DEF SortSpec

-----------------------------------------------------------------------------
(* The inductive invariant.                                                *)

Sorted(a) == Service!sortArrayAscending(a)
Held(r) == received[r] # NONE

\* No session has two arrays among the messages ms, what the children hold (rc)
\* and what was answered (an), and none is answered twice.
OneHand(ms, rc, an) ==
  /\ \A i, j \in DOMAIN ms : ms[i].from = ms[j].from => i = j
  /\ \A q, r \in Sessions : rc[q] # NONE /\ rc[r] # NONE /\ rc[q].from = rc[r].from => q = r
  /\ \A q, r \in Sessions : an[q] # NONE /\ an[q] = an[r] => q = r
  /\ \A i \in DOMAIN ms, r \in Sessions : rc[r] # NONE => ms[i].from # rc[r].from
  /\ \A i \in DOMAIN ms, r \in Sessions : ms[i].from # an[r]
  /\ \A q, r \in Sessions : rc[q] # NONE => rc[q].from # an[r]

\* The sessions that have sent their array.
Begun == { s \in Sessions : parent[s] \notin {"new", "input", "refused", "aborted"} }

\* A message carries the array of a session that has sent it, and sorted if it
\* is an answer.
Genuine(m, begun, ty) ==
  m.from \in begun /\ m.array = IF m.type = ParentToChild THEN ty[m.from] ELSE Sorted(ty[m.from])

\* What is on its way, and what was answered.
OnTheWay(ms, rc, an, begun, ty) ==
  /\ \A i \in DOMAIN ms : Genuine(ms[i], begun, ty)
  /\ \A r \in Sessions : rc[r] # NONE => rc[r].type = ParentToChild /\ Genuine(rc[r], begun, ty)
  /\ \A r \in Sessions : an[r] # NONE => an[r] \in begun

\* A session has no child before it starts, and nothing is shown before the
\* parent has received.
NotShownYet(s) ==
  /\ parent[s] = "new" => child[s] = "none"
  /\ parent[s] \in {"new", "input", "receive"} => printed[s] = NONE /\ answeredBy[s] = NONE

\* Nothing but the array of s is under way.
OnlyOf(s, ms, rc) ==
  (\A i \in DOMAIN ms : ms[i].from = s) /\ \A r \in Sessions : rc[r] # NONE => rc[r].from = s

\* A session that nobody disturbs finds its queue as long as it runs, and in it
\* nothing but its own array.
Lone(s) ==
  s \notin disturbed /\ Running(s) =>
    Alive(s) /\ OnlyOf(s, messages, received) /\ \A r \in Sessions : Running(r) => r = s

\* Every queue was made for a session that has started.
QueuesCounted == created <= Cardinality({ s \in Sessions : parent[s] # "new" })

\* The variables that belong to sessions have a value for each of them.
OfSessions ==
  printed = [s \in Sessions |-> printed[s]] /\ answeredBy = [s \in Sessions |-> answeredBy[s]]

MsgInv ==
  /\ TypeOK /\ OfSessions /\ QueuesCounted
  /\ OneHand(messages, received, answeredBy)
  /\ OnTheWay(messages, received, answeredBy, Begun, typed)
  /\ \A s \in Sessions : NotShownYet(s) /\ Lone(s)
  /\ ShownFromSomeone /\ UndisturbedIsSorted

-----------------------------------------------------------------------------
(* Facts about messages.                                                   *)

\* A message is a message.
LEMMA MessageFacts ==
  ASSUME NEW m \in Message
  PROVE  m # NONE /\ m.from \in Sessions /\ m.from # NONE /\ m.array \in Seq(Int)
         /\ m.type \in {ParentToChild, ChildToParent}
BY MessageQueueAssumption DEF Message

\* A sequence without one of its messages.
LEMMA TakenOut ==
  ASSUME NEW ms \in Seq(Message), NEW i \in DOMAIN ms
  PROVE  /\ RemoveAt(ms, i) \in Seq(Message)
         /\ \E src \in [DOMAIN RemoveAt(ms, i) -> DOMAIN ms \ {i}] :
              /\ \A j \in DOMAIN RemoveAt(ms, i) : RemoveAt(ms, i)[j] = ms[src[j]]
              /\ \A j, k \in DOMAIN RemoveAt(ms, i) : src[j] = src[k] => j = k
<1> DEFINE t == RemoveAt(ms, i)
           src == [j \in DOMAIN t |-> IF j < i THEN j ELSE j + 1]
<1>1. /\ t \in Seq(Message) /\ Len(ms) \in Nat /\ i \in 1 .. Len(ms) /\ Len(t) = Len(ms) - 1
      /\ DOMAIN ms = 1 .. Len(ms) /\ DOMAIN t = 1 .. Len(ms) - 1
      /\ \A j \in 1 .. Len(ms) - 1 : t[j] = IF j < i THEN ms[j] ELSE ms[j + 1]
  BY RemoveAtElements
<1> HIDE DEF t
<1>2. src \in [DOMAIN t -> DOMAIN ms \ {i}] /\ \A j, k \in DOMAIN t : src[j] = src[k] => j = k
  BY <1>1
<1>3. \A j \in DOMAIN t : t[j] = ms[src[j]]
  BY <1>1
<1> HIDE DEF src
<1> QED
  BY <1>1, <1>2, <1>3 DEF t

\* The session f has no array anywhere.
Absent(ms, rc, an, f) ==
  /\ \A i \in DOMAIN ms : ms[i].from # f
  /\ \A r \in Sessions : rc[r] # NONE => rc[r].from # f
  /\ \A r \in Sessions : an[r] # f

\* Taking a message out.
LEMMA HandRemoved ==
  ASSUME NEW ms \in Seq(Message), NEW rc, NEW an, NEW i \in DOMAIN ms, OneHand(ms, rc, an)
  PROVE  /\ OneHand(RemoveAt(ms, i), rc, an) /\ Absent(RemoveAt(ms, i), rc, an, ms[i].from)
<1> DEFINE t == RemoveAt(ms, i)
<1>1. PICK src \in [DOMAIN t -> DOMAIN ms \ {i}] :
        /\ \A j \in DOMAIN t : t[j] = ms[src[j]]
        /\ \A j, k \in DOMAIN t : src[j] = src[k] => j = k
  BY TakenOut
<1> HIDE DEF t
<1>2. \A j \in DOMAIN t : src[j] \in DOMAIN ms /\ src[j] # i
  BY <1>1
<1>3. OneHand(t, rc, an)
  BY <1>1, <1>2 DEF OneHand
<1>4. Absent(t, rc, an, ms[i].from)
  BY <1>1, <1>2 DEF OneHand, Absent
<1> QED
  BY <1>3, <1>4 DEF t

\* Sending a message.
LEMMA HandSent ==
  ASSUME NEW ms \in Seq(Message), NEW rc, NEW an, NEW m \in Message,
         OneHand(ms, rc, an), Absent(ms, rc, an, m.from)
  PROVE  OneHand(Append(ms, m), rc, an)
<1> DEFINE t == Append(ms, m)
<1>1. /\ DOMAIN t = DOMAIN ms \cup {Len(ms) + 1} /\ \A j \in DOMAIN ms : t[j] = ms[j]
      /\ t[Len(ms) + 1] = m
  OBVIOUS
<1> HIDE DEF t
<1> QED
  BY <1>1 DEF OneHand, Absent, t

\* Receiving, in the child.
LEMMA HandHeld ==
  ASSUME NEW ms, NEW rc \in [Sessions -> Message \cup {NONE}], NEW an, NEW s \in Sessions, NEW m \in Message,
         OneHand(ms, rc, an), Absent(ms, rc, an, m.from)
  PROVE  OneHand(ms, [rc EXCEPT ![s] = m], an)
BY DEF OneHand, Absent

\* Receiving, in the parent.
LEMMA HandAnswered ==
  ASSUME NEW ms, NEW rc, NEW an, an = [r \in Sessions |-> an[r]], NEW s \in Sessions, NEW f,
         OneHand(ms, rc, an), Absent(ms, rc, an, f)
  PROVE  OneHand(ms, rc, [an EXCEPT ![s] = f])
BY DEF OneHand, Absent

\* What a child holds is lost, or sent on.
LEMMA HandLost ==
  ASSUME NEW ms, NEW rc \in [Sessions -> Message \cup {NONE}], NEW an, NEW s \in Sessions, OneHand(ms, rc, an)
  PROVE  /\ OneHand(ms, [rc EXCEPT ![s] = NONE], an)
         /\ rc[s] # NONE => Absent(ms, [rc EXCEPT ![s] = NONE], an, rc[s].from)
BY DEF OneHand, Absent

\* The queue is removed.
LEMMA HandEmptied ==
  ASSUME NEW ms, NEW rc, NEW an, OneHand(ms, rc, an)
  PROVE  OneHand(<<>>, rc, an)
BY DEF OneHand

-----------------------------------------------------------------------------
(* What the invariant says of counts.                                      *)

\* A set without two elements.
LEMMA AtMostOne ==
  ASSUME NEW S, \A x, y \in S : x = y
  PROVE  Cardinality(S) \in {0, 1} /\ (S = {} => Cardinality(S) = 0)
<1>1. CASE S = {}
  BY <1>1, FS_EmptySet
<1>2. CASE S # {}
  <2>1. PICK x : x \in S
    BY <1>2
  <2>2. S = {x}
    BY <2>1
  <2> QED
    BY <1>2, <2>2, FS_Singleton
<1> QED
  BY <1>1, <1>2

LEMMA OnePlace ==
  ASSUME MsgInv
  PROVE  EachArrayOnce
<1> SUFFICES ASSUME NEW s \in Sessions
             PROVE  Cardinality({ i \in DOMAIN messages : messages[i].from = s })
                      + Cardinality({ r \in Sessions : received[r] # NONE /\ received[r].from = s })
                      + Cardinality({ r \in Sessions : answeredBy[r] = s })
                    <= IF parent[s] \in {"new", "input", "refused", "aborted"} THEN 0 ELSE 1
  BY DEF EachArrayOnce
<1> DEFINE A == { i \in DOMAIN messages : messages[i].from = s }
           B == { r \in Sessions : received[r] # NONE /\ received[r].from = s }
           C == { r \in Sessions : answeredBy[r] = s }
<1>1. OneHand(messages, received, answeredBy) /\ OnTheWay(messages, received, answeredBy, Begun, typed)
  BY DEF MsgInv
<1>2. s # NONE
  BY MessageQueueAssumption
<1>3. /\ \A x, y \in A : x = y
      /\ \A x, y \in B : x = y
      /\ \A x, y \in C : x = y
      /\ (A = {} /\ B = {}) \/ (A = {} /\ C = {}) \/ (B = {} /\ C = {})
  BY <1>1, <1>2 DEF OneHand
<1>4. parent[s] \in {"new", "input", "refused", "aborted"} => A = {} /\ B = {} /\ C = {}
  BY <1>1, <1>2 DEF OnTheWay, Genuine, Begun
<1> HIDE DEF A, B, C
<1>5. /\ Cardinality(A) \in {0, 1} /\ (A = {} => Cardinality(A) = 0)
      /\ Cardinality(B) \in {0, 1} /\ (B = {} => Cardinality(B) = 0)
      /\ Cardinality(C) \in {0, 1} /\ (C = {} => Cardinality(C) = 0)
  BY <1>3, AtMostOne
<1>6. Cardinality(A) + Cardinality(B) + Cardinality(C)
        <= IF parent[s] \in {"new", "input", "refused", "aborted"} THEN 0 ELSE 1
  BY <1>3, <1>4, <1>5
<1> QED
  BY <1>6 DEF A, B, C

-----------------------------------------------------------------------------
(* What is on its way.                                                     *)

LEMMA WayGrows ==
  ASSUME NEW ms, NEW rc, NEW an, NEW ty, NEW begun, NEW more, begun \subseteq more,
         OnTheWay(ms, rc, an, begun, ty)
  PROVE  OnTheWay(ms, rc, an, more, ty)
BY DEF OnTheWay, Genuine

LEMMA WayRemoved ==
  ASSUME NEW ms \in Seq(Message), NEW rc, NEW an, NEW ty, NEW begun, NEW i \in DOMAIN ms,
         OnTheWay(ms, rc, an, begun, ty)
  PROVE  OnTheWay(RemoveAt(ms, i), rc, an, begun, ty) /\ Genuine(ms[i], begun, ty)
<1> DEFINE t == RemoveAt(ms, i)
<1>1. PICK src \in [DOMAIN t -> DOMAIN ms \ {i}] : \A j \in DOMAIN t : t[j] = ms[src[j]]
  BY TakenOut
<1> HIDE DEF t
<1>2. \A j \in DOMAIN t : src[j] \in DOMAIN ms
  BY <1>1
<1>3. OnTheWay(t, rc, an, begun, ty)
  BY <1>1, <1>2 DEF OnTheWay
<1> QED
  BY <1>3 DEF OnTheWay, t

LEMMA WaySent ==
  ASSUME NEW ms \in Seq(Message), NEW rc, NEW an, NEW ty, NEW begun, NEW m \in Message,
         OnTheWay(ms, rc, an, begun, ty), Genuine(m, begun, ty)
  PROVE  OnTheWay(Append(ms, m), rc, an, begun, ty)
<1> DEFINE t == Append(ms, m)
<1>1. /\ DOMAIN t = DOMAIN ms \cup {Len(ms) + 1} /\ \A j \in DOMAIN ms : t[j] = ms[j]
      /\ t[Len(ms) + 1] = m
  OBVIOUS
<1> HIDE DEF t
<1> QED
  BY <1>1 DEF OnTheWay, t

LEMMA WayHeld ==
  ASSUME NEW ms, NEW rc \in [Sessions -> Message \cup {NONE}], NEW an, NEW ty, NEW begun,
         NEW s \in Sessions, NEW m, m = NONE \/ (m.type = ParentToChild /\ Genuine(m, begun, ty)),
         OnTheWay(ms, rc, an, begun, ty)
  PROVE  OnTheWay(ms, [rc EXCEPT ![s] = m], an, begun, ty)
BY DEF OnTheWay

LEMMA WayAnswered ==
  ASSUME NEW ms, NEW rc, NEW an, an = [r \in Sessions |-> an[r]], NEW ty, NEW begun,
         NEW s \in Sessions, NEW f \in begun, OnTheWay(ms, rc, an, begun, ty)
  PROVE  OnTheWay(ms, rc, [an EXCEPT ![s] = f], begun, ty)
BY DEF OnTheWay

LEMMA WayEmptied ==
  ASSUME NEW ms, NEW rc, NEW an, NEW ty, NEW begun, OnTheWay(ms, rc, an, begun, ty)
  PROVE  OnTheWay(<<>>, rc, an, begun, ty)
BY DEF OnTheWay

LEMMA OnlyRemoved ==
  ASSUME NEW ms \in Seq(Message), NEW rc, NEW s, NEW i \in DOMAIN ms, OnlyOf(s, ms, rc)
  PROVE  OnlyOf(s, RemoveAt(ms, i), rc) /\ ms[i].from = s
<1> DEFINE t == RemoveAt(ms, i)
<1>1. PICK src \in [DOMAIN t -> DOMAIN ms \ {i}] : \A j \in DOMAIN t : t[j] = ms[src[j]]
  BY TakenOut
<1> HIDE DEF t
<1>2. \A j \in DOMAIN t : src[j] \in DOMAIN ms
  BY <1>1
<1>3. OnlyOf(s, t, rc)
  BY <1>1, <1>2 DEF OnlyOf
<1> QED
  BY <1>3 DEF OnlyOf, t

LEMMA OnlySent ==
  ASSUME NEW ms \in Seq(Message), NEW rc, NEW s, NEW m \in Message, OnlyOf(s, ms, rc), m.from = s
  PROVE  OnlyOf(s, Append(ms, m), rc)
<1> DEFINE t == Append(ms, m)
<1>1. /\ DOMAIN t = DOMAIN ms \cup {Len(ms) + 1} /\ \A j \in DOMAIN ms : t[j] = ms[j]
      /\ t[Len(ms) + 1] = m
  OBVIOUS
<1> HIDE DEF t
<1> QED
  BY <1>1 DEF OnlyOf, t

LEMMA OnlyHeld ==
  ASSUME NEW ms, NEW rc \in [Sessions -> Message \cup {NONE}], NEW r \in Sessions, NEW s, NEW m,
         m = NONE \/ m.from = s, OnlyOf(s, ms, rc)
  PROVE  OnlyOf(s, ms, [rc EXCEPT ![r] = m])
BY DEF OnlyOf

-----------------------------------------------------------------------------
(* What the steps share.                                                   *)

LEMMA InvFacts ==
  ASSUME MsgInv
  PROVE  /\ TypeOK /\ OfSessions /\ messages \in Seq(Message) /\ received \in [Sessions -> Message \cup {NONE}]
         /\ answeredBy = [r \in Sessions |-> answeredBy[r]] /\ typed \in [Sessions -> Arrays]
         /\ OneHand(messages, received, answeredBy)
         /\ OnTheWay(messages, received, answeredBy, Begun, typed)
BY DEF MsgInv, TypeOK, OfSessions

\* A parent goes to another place.
LEMMA ParentMoves ==
  ASSUME TypeOK, NEW s \in Sessions, NEW there, ParentAt(s, there),
         s \in Begun => there \notin {"new", "input", "refused", "aborted"}
  PROVE  /\ parent'[s] = there /\ \A r \in Sessions \ {s} : parent'[r] = parent[r]
         /\ Begun \subseteq Begun'
         /\ there \notin {"new", "input", "refused", "aborted"} => s \in Begun'
BY DEF TypeOK, ParentAt, Begun

\* What a step of a session that has started leaves as it is: the arrays typed,
\* the queues there have been, and who disturbs whom.
Frame ==
  /\ UNCHANGED <<typed, messageQueueId, created, disturbed>>
  /\ \A r \in Sessions : (Running(r)' => Running(r)) /\ (parent'[r] = "new" <=> parent[r] = "new")

\* Such a step keeps the invariant if it keeps what is on its way, and what is
\* shown.
LEMMA FrameKeeps ==
  ASSUME MsgInv, Frame, TypeOK', OfSessions',
         OneHand(messages', received', answeredBy'),
         OnTheWay(messages', received', answeredBy', Begun', typed),
         \A r \in Sessions : NotShownYet(r)',
         \A r \in Sessions \ disturbed :
           Running(r)' /\ OnlyOf(r, messages, received) /\ (\A q \in Sessions : Running(q) => q = r)
             => keyed' = keyed /\ OnlyOf(r, messages', received'),
         ShownFromSomeone', UndisturbedIsSorted'
  PROVE  MsgInv'
<1>1. QueuesCounted'
  BY DEF MsgInv, Frame, QueuesCounted
<1>2. ASSUME NEW r \in Sessions PROVE Lone(r)'
  <2> SUFFICES ASSUME r \notin disturbed, Running(r)'
               PROVE  Alive(r)' /\ OnlyOf(r, messages', received') /\ \A q \in Sessions : Running(q)' => q = r
    BY DEF Lone, Frame, OnlyOf
  <2>1. Running(r) /\ Lone(r)
    BY DEF Frame, MsgInv
  <2>2. Alive(r) /\ OnlyOf(r, messages, received) /\ \A q \in Sessions : Running(q) => q = r
    BY <2>1 DEF Lone
  <2>3. keyed' = keyed /\ OnlyOf(r, messages', received')
    BY <2>2
  <2> QED
    BY <2>2, <2>3 DEF Frame, Alive
<1>3. OnTheWay(messages, received, answeredBy, Begun, typed)'
  BY DEF Frame, OnTheWay, Genuine
<1>4. OneHand(messages, received, answeredBy)'
  BY DEF OneHand
<1> QED
  BY <1>1, <1>2, <1>3, <1>4 DEF MsgInv

\* Who is shown nothing new.
LEMMA ShownStays ==
  ASSUME MsgInv, UNCHANGED <<typed, printed, answeredBy>>, disturbed \subseteq disturbed'
  PROVE  ShownFromSomeone' /\ UndisturbedIsSorted'
<1>1. \A s \in Sessions : (Service!sortArrayAscending(typed[s]))' = Service!sortArrayAscending(typed[s])
  BY DEF Service!sortArrayAscending, Service!Rearranged
<1> QED
  BY <1>1 DEF MsgInv, ShownFromSomeone, UndisturbedIsSorted, Displayed

-----------------------------------------------------------------------------
(* The steps of the parent.                                                *)

\* Removing the queue.
LEMMA RemovedFacts ==
  ASSUME MsgInv, NEW s \in Sessions, Removed(s)
  PROVE  /\ keyed' \in {0, keyed} /\ messages' \in {<<>>, messages} /\ messages' \in Seq(Message)
         /\ OneHand(messages', received, answeredBy)
         /\ OnTheWay(messages', received, answeredBy, Begun, typed)
<1>1. /\ messages \in Seq(Message) /\ <<>> \in Seq(Message)
      /\ OneHand(messages, received, answeredBy)
      /\ OnTheWay(messages, received, answeredBy, Begun, typed)
  BY InvFacts
<1>2. OneHand(<<>>, received, answeredBy) /\ OnTheWay(<<>>, received, answeredBy, Begun, typed)
  BY <1>1, HandEmptied, WayEmptied
<1>3. keyed' \in {0, keyed} /\ messages' \in {<<>>, messages}
  BY DEF Removed
<1> QED
  BY <1>1, <1>2, <1>3

\* Sending: the message stands at the end of the queue, or nowhere.
LEMMA SentFacts ==
  ASSUME NEW s \in Sessions, NEW type \in {ParentToChild, ChildToParent}, NEW from \in Sessions,
         NEW array \in Seq(Int), Sent(s, type, from, array), messages \in Seq(Message)
  PROVE  \E m \in Message :
           /\ m.type = type /\ m.from = from /\ m.array = array
           /\ messages' \in {messages, Append(messages, m)} /\ messages' \in Seq(Message)
<1> DEFINE m == [type |-> type, from |-> from, array |-> array]
<1>1. m \in Message /\ m.type = type /\ m.from = from /\ m.array = array
  BY DEF Message
<1>2. messages' \in {messages, Append(messages, m)}
  BY DEF Sent
<1> HIDE DEF m
<1>3. messages' \in Seq(Message)
  BY <1>1, <1>2
<1> QED
  BY <1>1, <1>2, <1>3

LEMMA RefuseKeeps ==
  ASSUME MsgInv, NEW s \in Sessions, refuse(s) \/ removeQueue(s)
  PROVE  MsgInv'
<1>1. /\ Removed(s)
      /\ UNCHANGED <<child, typed, messageQueueId, created, received, printed, answeredBy, disturbed>>
  BY DEF refuse, removeQueue, history
<1>2. PICK there \in {"refused", "done"} :
        /\ ParentAt(s, there)
        /\ (there = "refused" => parent[s] = "input") /\ (there = "done" => parent[s] = "wait")
  BY DEF refuse, removeQueue, Waited
<1>3. /\ keyed' \in {0, keyed} /\ messages' \in Seq(Message)
      /\ OneHand(messages', received, answeredBy)
      /\ OnTheWay(messages', received, answeredBy, Begun, typed)
  BY <1>1, RemovedFacts
<1>4. /\ parent'[s] = there /\ (\A r \in Sessions \ {s} : parent'[r] = parent[r]) /\ Begun \subseteq Begun'
  BY <1>2, ParentMoves, InvFacts DEF Begun
<1>5. Frame
  BY <1>1, <1>2, <1>4 DEF Frame, Running
<1>6. TypeOK' /\ OfSessions'
  <2>1. keyed' \in 0 .. created
    BY <1>3, InvFacts DEF TypeOK
  <2> QED
    BY <1>1, <1>2, <1>3, <2>1, InvFacts DEF TypeOK, OfSessions, ParentAt
<1>7. /\ OneHand(messages', received', answeredBy')
      /\ OnTheWay(messages', received', answeredBy', Begun', typed)
  BY <1>1, <1>3, <1>4, WayGrows
<1>8. \A r \in Sessions : NotShownYet(r)'
  BY <1>1, <1>2, <1>4 DEF MsgInv, NotShownYet
<1>9. \A r \in Sessions : ~(Running(r)' /\ \A q \in Sessions : Running(q) => q = r)
  BY <1>2, <1>4 DEF Running
<1>10. ShownFromSomeone' /\ UndisturbedIsSorted'
  BY <1>1, ShownStays
<1> QED
  BY <1>5, <1>6, <1>7, <1>8, <1>9, <1>10, FrameKeeps

LEMMA GiveUpKeeps ==
  ASSUME MsgInv, NEW s \in Sessions, giveUp(s)
  PROVE  MsgInv'
<1>1. /\ parent[s] = "input" /\ ParentAt(s, "aborted")
      /\ UNCHANGED <<child, typed, messageQueueId, keyed, created, messages, received, printed, answeredBy,
                     disturbed>>
  BY DEF giveUp, history
<1>2. /\ parent'[s] = "aborted" /\ (\A r \in Sessions \ {s} : parent'[r] = parent[r]) /\ Begun \subseteq Begun'
  BY <1>1, ParentMoves, InvFacts DEF Begun
<1>3. Frame
  BY <1>1, <1>2 DEF Frame, Running
<1>4. TypeOK' /\ OfSessions'
  BY <1>1, InvFacts DEF TypeOK, OfSessions, ParentAt
<1>5. /\ OneHand(messages', received', answeredBy')
      /\ OnTheWay(messages', received', answeredBy', Begun', typed)
  BY <1>1, <1>2, InvFacts, WayGrows
<1>6. \A r \in Sessions : NotShownYet(r)'
  BY <1>1, <1>2 DEF MsgInv, NotShownYet
<1>7. ShownFromSomeone' /\ UndisturbedIsSorted'
  BY <1>1, ShownStays
<1> QED
  BY <1>1, <1>3, <1>4, <1>5, <1>6, <1>7, FrameKeeps

LEMMA SendArrayKeeps ==
  ASSUME MsgInv, NEW s \in Sessions, sendArray(s)
  PROVE  MsgInv'
<1>1. /\ parent[s] = "input" /\ ParentAt(s, "receive") /\ Sent(s, ParentToChild, s, typed[s])
      /\ UNCHANGED <<child, typed, messageQueueId, keyed, created, received, printed, answeredBy, disturbed>>
  BY DEF sendArray, history
<1>2. /\ parent'[s] = "receive" /\ (\A r \in Sessions \ {s} : parent'[r] = parent[r])
      /\ Begun \subseteq Begun' /\ s \in Begun'
  BY <1>1, ParentMoves, InvFacts DEF Begun
<1>3. typed[s] \in Seq(Int)
  BY InvFacts, MessageQueueAssumption
<1>4. PICK m \in Message :
        /\ m.type = ParentToChild /\ m.from = s /\ m.array = typed[s]
        /\ messages' \in {messages, Append(messages, m)} /\ messages' \in Seq(Message)
  BY <1>1, <1>3, InvFacts, SentFacts
<1>5. Frame
  BY <1>1, <1>2 DEF Frame, Running
<1>6. TypeOK' /\ OfSessions'
  BY <1>1, <1>4, InvFacts DEF TypeOK, OfSessions, ParentAt
<1>7. OneHand(messages', received', answeredBy')
  <2>1. s \notin Begun
    BY <1>1 DEF Begun
  <2>2. Absent(messages, received, answeredBy, m.from)
    <3>1. s # NONE
      BY MessageQueueAssumption
    <3> QED
      BY <1>4, <2>1, <3>1, InvFacts DEF Absent, OnTheWay, Genuine
  <2> QED
    BY <1>1, <1>4, <2>2, InvFacts, HandSent
<1>8. OnTheWay(messages', received', answeredBy', Begun', typed)
  <2>1. OnTheWay(messages, received, answeredBy, Begun', typed)
    BY <1>2, InvFacts, WayGrows
  <2>2. Genuine(m, Begun', typed)
    BY <1>2, <1>4 DEF Genuine
  <2> QED
    BY <1>1, <1>4, <2>1, <2>2, InvFacts, WaySent
<1>9. \A r \in Sessions : NotShownYet(r)'
  BY <1>1, <1>2 DEF MsgInv, NotShownYet
<1>10. ShownFromSomeone' /\ UndisturbedIsSorted'
  BY <1>1, ShownStays
<1>11. ASSUME NEW r \in Sessions, OnlyOf(r, messages, received), \A q \in Sessions : Running(q) => q = r
       PROVE  OnlyOf(r, messages', received')
  <2>1. r = s
    BY <1>1, <1>11 DEF Running
  <2> QED
    BY <1>1, <1>4, <1>11, <2>1, InvFacts, OnlySent
<1> QED
  BY <1>1, <1>5, <1>6, <1>7, <1>8, <1>9, <1>10, <1>11, FrameKeeps

\* An array is displayed in full by who has typed as many elements.
LEMMA DisplayedAll ==
  ASSUME NEW s \in Sessions, NEW a \in Seq(Int), Len(a) = Len(typed[s])
  PROVE  Displayed(s, a) = a
BY DEF Displayed

\* sortArrayAscending keeps the length.
LEMMA SortedLength ==
  ASSUME NEW a \in Seq(Int)
  PROVE  Sorted(a) \in Seq(Int) /\ Len(Sorted(a)) = Len(a)
<1> DEFINE I == 1 .. Len(a)
           up(b) == \A i, j \in I : i < j => b[i] <= b[j]
<1>1. DOMAIN a = I /\ Len(a) \in Nat /\ a \in [I -> Int]
  OBVIOUS
<1>2. Service!Bijection(I, I) = Bijection(I, I)
  BY DEF Service!Bijection, Service!Injection, Service!Surjection, Service!IsInjective,
         Bijection, Injection, Surjection, IsInjective
<1>3. PICK f \in Bijection(I, I) : \A i, j \in I : i < j => a[f[i]] <= a[f[j]]
  BY <1>1, SortingExists
<1>4. Sorted(a) = CHOOSE b \in Service!Rearranged(a) : up(b)
  BY <1>1 DEF Sorted, Service!sortArrayAscending
<1>5. \E b \in Service!Rearranged(a) : up(b)
  <2>1. [i \in I |-> a[f[i]]] \in Service!Rearranged(a)
    BY <1>1, <1>2 DEF Service!Rearranged
  <2> QED
    BY <1>3, <2>1
<1>6. Sorted(a) \in Service!Rearranged(a)
  BY <1>4, <1>5
<1>7. PICK g \in Bijection(I, I) : Sorted(a) = [i \in I |-> a[g[i]]]
  BY <1>1, <1>2, <1>6 DEF Service!Rearranged
<1>8. \A i \in I : g[i] \in I
  BY BijectionFacts
<1>9. Sorted(a) \in [I -> Int]
  BY <1>1, <1>7, <1>8
<1> QED
  BY <1>1, <1>9

LEMMA ReceiveSortedKeeps ==
  ASSUME MsgInv, NEW s \in Sessions, receiveSorted(s)
  PROVE  MsgInv'
<1>1. /\ parent[s] = "receive" /\ ParentAt(s, "wait")
      /\ UNCHANGED <<child, typed, messageQueueId, keyed, created, received, disturbed>>
  BY DEF receiveSorted
<1>2. PICK i \in DOMAIN messages :
        /\ messages[i].type = ChildToParent /\ messages' = RemoveAt(messages, i)
        /\ printed' = [printed EXCEPT ![s] = Displayed(s, messages[i].array)]
        /\ answeredBy' = [answeredBy EXCEPT ![s] = messages[i].from]
  BY DEF receiveSorted, Takes
<1> DEFINE f == messages[i].from
           Remaining == RemoveAt(messages, i)
<1>3. /\ parent'[s] = "wait" /\ (\A r \in Sessions \ {s} : parent'[r] = parent[r]) /\ Begun \subseteq Begun'
  BY <1>1, ParentMoves, InvFacts DEF Begun
<1>4. /\ messages[i] \in Message /\ f \in Sessions /\ f # NONE /\ Remaining \in Seq(Message)
      /\ OneHand(Remaining, received, answeredBy) /\ Absent(Remaining, received, answeredBy, f)
      /\ OnTheWay(Remaining, received, answeredBy, Begun, typed)
      /\ f \in Begun /\ messages[i].array = Sorted(typed[f])
  <2>1. messages[i] \in Message
    BY InvFacts
  <2>2. Genuine(messages[i], Begun, typed)
    BY InvFacts DEF OnTheWay
  <2>3. f \in Begun /\ messages[i].array = Sorted(typed[f])
    BY <1>2, <2>2 DEF Genuine, ParentToChild, ChildToParent
  <2> QED
    BY <2>1, <2>3, MessageFacts, InvFacts, TakenOut, HandRemoved, WayRemoved
<1> HIDE DEF f, Remaining
<1>5. /\ messages' = Remaining /\ answeredBy' = [answeredBy EXCEPT ![s] = f]
      /\ printed' = [printed EXCEPT ![s] = Displayed(s, Sorted(typed[f]))]
  BY <1>2, <1>4 DEF f, Remaining
<1>6. Frame
  BY <1>1, <1>3 DEF Frame, Running
<1>7. TypeOK' /\ OfSessions'
  BY <1>1, <1>4, <1>5, InvFacts DEF TypeOK, OfSessions, ParentAt
<1>8. OneHand(messages', received', answeredBy')
  BY <1>1, <1>4, <1>5, InvFacts, HandAnswered
<1>9. OnTheWay(messages', received', answeredBy', Begun', typed)
  <2>1. OnTheWay(Remaining, received, answeredBy', Begun, typed)
    BY <1>4, <1>5, InvFacts, WayAnswered
  <2> QED
    BY <1>1, <1>3, <1>5, <2>1, WayGrows
<1>10. /\ printed'[s] = Displayed(s, Sorted(typed[f])) /\ answeredBy'[s] = f
       /\ \A r \in Sessions \ {s} : printed'[r] = printed[r] /\ answeredBy'[r] = answeredBy[r]
  BY <1>5, InvFacts DEF OfSessions
<1>11. \A r \in Sessions : NotShownYet(r)'
  BY <1>1, <1>3, <1>10 DEF MsgInv, NotShownYet
<1>12. ShownFromSomeone'
  <2> SUFFICES ASSUME NEW r \in Sessions, printed'[r] # NONE
               PROVE  printed'[r] = IF answeredBy'[r] = NONE THEN typed[r]
                                    ELSE Displayed(r, Sorted(typed[answeredBy'[r]]))
    BY <1>1 DEF ShownFromSomeone, Displayed, Sorted
  <2>1. CASE r = s
    BY <1>4, <1>10, <2>1
  <2>2. CASE r # s
    BY <1>10, <2>2 DEF MsgInv, ShownFromSomeone, Sorted
  <2> QED
    BY <2>1, <2>2
<1>13. s \notin disturbed => Displayed(s, Sorted(typed[f])) = Sorted(typed[s])
  <2> SUFFICES ASSUME s \notin disturbed PROVE Displayed(s, Sorted(typed[f])) = Sorted(typed[s])
    OBVIOUS
  <2>1. OnlyOf(s, messages, received)
    BY <1>1 DEF MsgInv, Lone, Running
  <2>2. f = s
    BY <2>1 DEF OnlyOf, f
  <2>3. typed[s] \in Seq(Int)
    BY InvFacts, MessageQueueAssumption
  <2> QED
    BY <2>2, <2>3, SortedLength, DisplayedAll
<1>14. UndisturbedIsSorted'
  BY <1>1, <1>10, <1>13 DEF MsgInv, UndisturbedIsSorted, Sorted
<1>15. ASSUME NEW r \in Sessions, OnlyOf(r, messages, received)
       PROVE  OnlyOf(r, messages', received')
  BY <1>1, <1>2, <1>15, InvFacts, OnlyRemoved
<1> QED
  BY <1>1, <1>6, <1>7, <1>8, <1>9, <1>11, <1>12, <1>14, <1>15, FrameKeeps

LEMMA ReceiveFailsKeeps ==
  ASSUME MsgInv, NEW s \in Sessions, receiveFails(s)
  PROVE  MsgInv'
<1>1. /\ parent[s] = "receive" /\ ~Alive(s) /\ ParentAt(s, "wait")
      /\ printed' = [printed EXCEPT ![s] = typed[s]]
      /\ UNCHANGED <<child, typed, messageQueueId, keyed, created, messages, received, answeredBy, disturbed>>
  BY DEF receiveFails
<1>2. /\ parent'[s] = "wait" /\ (\A r \in Sessions \ {s} : parent'[r] = parent[r]) /\ Begun \subseteq Begun'
  BY <1>1, ParentMoves, InvFacts DEF Begun
<1>3. Frame
  BY <1>1, <1>2 DEF Frame, Running
<1>4. TypeOK' /\ OfSessions'
  BY <1>1, InvFacts DEF TypeOK, OfSessions, ParentAt
<1>5. /\ OneHand(messages', received', answeredBy')
      /\ OnTheWay(messages', received', answeredBy', Begun', typed)
  BY <1>1, <1>2, InvFacts, WayGrows
<1>6. /\ printed'[s] = typed[s] /\ answeredBy[s] = NONE
      /\ \A r \in Sessions \ {s} : printed'[r] = printed[r]
  BY <1>1, InvFacts DEF MsgInv, NotShownYet, OfSessions
<1>7. \A r \in Sessions : NotShownYet(r)'
  BY <1>1, <1>2, <1>6 DEF MsgInv, NotShownYet
<1>8. ShownFromSomeone'
  BY <1>1, <1>6 DEF MsgInv, ShownFromSomeone, Displayed
<1>9. s \in disturbed
  BY <1>1 DEF MsgInv, Lone, Running
<1>10. UndisturbedIsSorted'
  BY <1>1, <1>6, <1>9 DEF MsgInv, UndisturbedIsSorted
<1> QED
  BY <1>1, <1>3, <1>4, <1>5, <1>7, <1>8, <1>10, FrameKeeps

-----------------------------------------------------------------------------
(* The steps of the child, and of both.                                    *)

\* A child goes to another place.
LEMMA ChildMoves ==
  ASSUME TypeOK, NEW s \in Sessions, NEW there, ChildAt(s, there), UNCHANGED parent
  PROVE  /\ child'[s] = there /\ (\A r \in Sessions \ {s} : child'[r] = child[r])
         /\ Begun' = Begun
BY DEF TypeOK, ChildAt, Begun

LEMMA ReceiveArrayKeeps ==
  ASSUME MsgInv, NEW s \in Sessions, receiveArray(s)
  PROVE  MsgInv'
<1>1. /\ child[s] = "receive" /\ ChildAt(s, "send")
      /\ UNCHANGED <<parent, typed, messageQueueId, keyed, created, printed, answeredBy, disturbed>>
  BY DEF receiveArray, history
<1>2. PICK i \in DOMAIN messages :
        /\ messages[i].type = ParentToChild /\ messages' = RemoveAt(messages, i)
        /\ received' = [received EXCEPT ![s] = messages[i]]
  BY DEF receiveArray, Takes
<1>3. PICK m, ms : m = messages[i] /\ ms = RemoveAt(messages, i)
  OBVIOUS
<1>4. /\ m \in Message /\ m # NONE /\ m.type = ParentToChild /\ ms \in Seq(Message)
      /\ OneHand(ms, received, answeredBy) /\ Absent(ms, received, answeredBy, m.from)
      /\ OnTheWay(ms, received, answeredBy, Begun, typed) /\ Genuine(m, Begun, typed)
  <2>1. /\ messages \in Seq(Message) /\ OneHand(messages, received, answeredBy)
        /\ OnTheWay(messages, received, answeredBy, Begun, typed)
    BY InvFacts
  <2>2. m \in Message /\ m # NONE /\ m.type = ParentToChild
    BY <1>2, <1>3, <2>1, MessageFacts
  <2>3. ms \in Seq(Message)
    BY <1>3, <2>1, TakenOut
  <2>4. OneHand(ms, received, answeredBy) /\ Absent(ms, received, answeredBy, m.from)
    BY <1>3, <2>1, HandRemoved
  <2>5. OnTheWay(ms, received, answeredBy, Begun, typed) /\ Genuine(m, Begun, typed)
    BY <1>3, <2>1, WayRemoved
  <2> QED
    BY <2>2, <2>3, <2>4, <2>5
<1>5. messages' = ms /\ received' = [received EXCEPT ![s] = m]
  BY <1>2, <1>3
<1>6. /\ child'[s] = "send" /\ (\A r \in Sessions \ {s} : child'[r] = child[r]) /\ Begun' = Begun
  BY <1>1, ChildMoves, InvFacts
<1>7. Frame
  BY <1>1 DEF Frame, Running
<1>8. TypeOK' /\ OfSessions'
  <2>1. received' \in [Sessions -> Message \cup {NONE}]
        /\ \A r \in Sessions : received'[r] = IF r = s THEN m ELSE received[r]
    BY <1>4, <1>5, InvFacts
  <2>2. \A r \in Sessions : child'[r] = "send" <=> received'[r] # NONE
    BY <1>4, <1>6, <2>1, InvFacts DEF TypeOK
  <2> QED
    BY <1>1, <1>4, <1>5, <2>1, <2>2, InvFacts DEF TypeOK, OfSessions, ChildAt
<1>9. OneHand(messages', received', answeredBy')
  BY <1>1, <1>4, <1>5, InvFacts, HandHeld
<1>10. OnTheWay(messages', received', answeredBy', Begun', typed)
  BY <1>1, <1>4, <1>5, <1>6, InvFacts, WayHeld
<1>11. \A r \in Sessions : NotShownYet(r)'
  BY <1>1, <1>6 DEF MsgInv, NotShownYet
<1>12. ShownFromSomeone' /\ UndisturbedIsSorted'
  BY <1>1, ShownStays
<1>13. ASSUME NEW r \in Sessions, OnlyOf(r, messages, received)
       PROVE  OnlyOf(r, messages', received')
  <2>1. OnlyOf(r, ms, received) /\ m.from = r
    BY <1>3, <1>13, InvFacts, OnlyRemoved
  <2> QED
    BY <1>5, <2>1, InvFacts, OnlyHeld
<1> QED
  BY <1>1, <1>7, <1>8, <1>9, <1>10, <1>11, <1>12, <1>13, FrameKeeps

LEMMA ReceiveArrayFailsKeeps ==
  ASSUME MsgInv, NEW s \in Sessions, receiveArrayFails(s)
  PROVE  MsgInv'
<1>1. /\ child[s] = "receive" /\ ChildAt(s, "ended")
      /\ UNCHANGED <<parent, typed, messageQueueId, keyed, created, messages, received, printed, answeredBy,
                     disturbed>>
  BY DEF receiveArrayFails, history
<1>2. /\ child'[s] = "ended" /\ (\A r \in Sessions \ {s} : child'[r] = child[r]) /\ Begun' = Begun
  BY <1>1, ChildMoves, InvFacts
<1>3. Frame
  BY <1>1 DEF Frame, Running
<1>4. TypeOK' /\ OfSessions'
  <2>1. \A r \in Sessions : child'[r] = "send" <=> received'[r] # NONE
    BY <1>1, <1>2, InvFacts DEF TypeOK
  <2> QED
    BY <1>1, <2>1, InvFacts DEF TypeOK, OfSessions, ChildAt
<1>5. /\ OneHand(messages', received', answeredBy')
      /\ OnTheWay(messages', received', answeredBy', Begun', typed)
  BY <1>1, <1>2, InvFacts
<1>6. \A r \in Sessions : NotShownYet(r)'
  BY <1>1, <1>2 DEF MsgInv, NotShownYet
<1>7. ShownFromSomeone' /\ UndisturbedIsSorted'
  BY <1>1, ShownStays
<1> QED
  BY <1>1, <1>3, <1>4, <1>5, <1>6, <1>7, FrameKeeps

LEMMA SendSortedKeeps ==
  ASSUME MsgInv, NEW s \in Sessions, sendSorted(s)
  PROVE  MsgInv'
<1>1. /\ child[s] = "send" /\ ChildAt(s, "ended")
      /\ Sent(s, ChildToParent, received[s].from, Sorted(received[s].array))
      /\ received' = [received EXCEPT ![s] = NONE]
      /\ UNCHANGED <<parent, typed, messageQueueId, keyed, created, printed, answeredBy, disturbed>>
  BY DEF sendSorted, history, Sorted
<1>2. /\ received[s] \in Message /\ received[s] # NONE /\ received[s].type = ParentToChild
      /\ Genuine(received[s], Begun, typed)
  BY <1>1, InvFacts DEF TypeOK, OnTheWay
<1>3. /\ received[s].from \in Sessions /\ received[s].from \in Begun
      /\ received[s].array = typed[received[s].from] /\ Sorted(received[s].array) \in Seq(Int)
  BY <1>2, MessageFacts, SortedLength DEF Genuine
<1>4. PICK m \in Message :
        /\ m.type = ChildToParent /\ m.from = received[s].from /\ m.array = Sorted(received[s].array)
        /\ messages' \in {messages, Append(messages, m)} /\ messages' \in Seq(Message)
  BY <1>1, <1>3, InvFacts, SentFacts
<1>5. /\ child'[s] = "ended" /\ (\A r \in Sessions \ {s} : child'[r] = child[r]) /\ Begun' = Begun
  BY <1>1, ChildMoves, InvFacts
<1>6. Frame
  BY <1>1 DEF Frame, Running
<1>7. TypeOK' /\ OfSessions'
  <2>1. received' \in [Sessions -> Message \cup {NONE}]
        /\ \A r \in Sessions : received'[r] = IF r = s THEN NONE ELSE received[r]
    BY <1>1, InvFacts
  <2>2. \A r \in Sessions : child'[r] = "send" <=> received'[r] # NONE
    BY <1>5, <2>1, InvFacts DEF TypeOK
  <2> QED
    BY <1>1, <1>4, <2>1, <2>2, InvFacts DEF TypeOK, OfSessions, ChildAt
<1>8. OneHand(messages, received', answeredBy) /\ Absent(messages, received', answeredBy, m.from)
  BY <1>1, <1>2, <1>4, InvFacts, HandLost
<1>9. OneHand(messages', received', answeredBy')
  BY <1>1, <1>4, <1>8, InvFacts, HandSent
<1>10. OnTheWay(messages, received', answeredBy, Begun, typed)
  BY <1>1, InvFacts, WayHeld
<1>11. Genuine(m, Begun, typed)
  BY <1>3, <1>4 DEF Genuine, ParentToChild, ChildToParent
<1>12. OnTheWay(messages', received', answeredBy', Begun', typed)
  <2>1. OnTheWay(Append(messages, m), received', answeredBy, Begun, typed)
    BY <1>10, <1>11, InvFacts, WaySent
  <2> QED
    BY <1>1, <1>4, <1>5, <1>10, <2>1
<1>13. \A r \in Sessions : NotShownYet(r)'
  BY <1>1, <1>5 DEF MsgInv, NotShownYet
<1>14. ShownFromSomeone' /\ UndisturbedIsSorted'
  BY <1>1, ShownStays
<1>15. ASSUME NEW r \in Sessions, OnlyOf(r, messages, received)
       PROVE  OnlyOf(r, messages', received')
  <2>1. m.from = r
    BY <1>2, <1>4, <1>15 DEF OnlyOf
  <2>2. OnlyOf(r, messages, received')
    BY <1>1, <1>15, InvFacts, OnlyHeld
  <2> QED
    BY <1>4, <2>1, <2>2, InvFacts, OnlySent
<1> QED
  BY <1>1, <1>6, <1>7, <1>9, <1>12, <1>13, <1>14, <1>15, FrameKeeps

LEMMA KillKeeps ==
  ASSUME MsgInv, NEW s \in Sessions, kill(s)
  PROVE  MsgInv'
<1>1. /\ Running(s) /\ ParentAt(s, "killed") /\ ChildAt(s, "ended")
      /\ received' = [received EXCEPT ![s] = NONE]
      /\ UNCHANGED <<typed, messageQueueId, keyed, created, messages, printed, answeredBy, disturbed>>
  BY DEF kill, history
<1>2. /\ parent'[s] = "killed" /\ (\A r \in Sessions \ {s} : parent'[r] = parent[r]) /\ Begun \subseteq Begun'
  BY <1>1, ParentMoves, InvFacts
<1>3. child'[s] = "ended" /\ \A r \in Sessions \ {s} : child'[r] = child[r]
  BY <1>1, InvFacts DEF TypeOK, ChildAt
<1>4. Frame
  BY <1>1, <1>2 DEF Frame, Running
<1>5. TypeOK' /\ OfSessions'
  <2>1. received' \in [Sessions -> Message \cup {NONE}]
        /\ \A r \in Sessions : received'[r] = IF r = s THEN NONE ELSE received[r]
    BY <1>1, InvFacts
  <2>2. \A r \in Sessions : child'[r] = "send" <=> received'[r] # NONE
    BY <1>3, <2>1, InvFacts DEF TypeOK
  <2> QED
    BY <1>1, <2>1, <2>2, InvFacts DEF TypeOK, OfSessions, ChildAt, ParentAt
<1>6. OneHand(messages', received', answeredBy')
  BY <1>1, InvFacts, HandLost
<1>7. OnTheWay(messages', received', answeredBy', Begun', typed)
  <2>1. OnTheWay(messages, received', answeredBy, Begun, typed)
    BY <1>1, InvFacts, WayHeld
  <2> QED
    BY <1>1, <1>2, <2>1, WayGrows
<1>8. \A r \in Sessions : NotShownYet(r)'
  BY <1>1, <1>2, <1>3 DEF MsgInv, NotShownYet
<1>9. ShownFromSomeone' /\ UndisturbedIsSorted'
  BY <1>1, ShownStays
<1>10. ASSUME NEW r \in Sessions, OnlyOf(r, messages, received)
       PROVE  OnlyOf(r, messages', received')
  BY <1>1, <1>10, InvFacts, OnlyHeld
<1> QED
  BY <1>1, <1>4, <1>5, <1>6, <1>7, <1>8, <1>9, <1>10, FrameKeeps

-----------------------------------------------------------------------------
(* The first step of a session.                                            *)

LEMMA StartKeeps ==
  ASSUME MsgInv, NEW s \in Sessions, start(s)
  PROVE  MsgInv'
<1> DEFINE others == { r \in Sessions : Running(r) }
           started == { r \in Sessions : parent[r] # "new" }
<1>1. /\ parent[s] = "new" /\ ParentAt(s, "input") /\ ChildAt(s, "receive")
      /\ IF keyed = 0 THEN created' = created + 1 /\ keyed' = created + 1
                      ELSE UNCHANGED <<created, keyed>>
      /\ messageQueueId' = [messageQueueId EXCEPT ![s] = keyed']
      /\ disturbed' = IF Quiet /\ others = {} THEN disturbed ELSE disturbed \cup others \cup {s}
      /\ UNCHANGED <<typed, messages, received, printed, answeredBy>>
  BY DEF start
<1>2. /\ parent'[s] = "input" /\ (\A r \in Sessions \ {s} : parent'[r] = parent[r]) /\ Begun \subseteq Begun'
  BY <1>1, ParentMoves, InvFacts DEF Begun
<1>3. child'[s] = "receive" /\ \A r \in Sessions \ {s} : child'[r] = child[r]
  BY <1>1, InvFacts DEF TypeOK, ChildAt
<1>4. /\ created \in Nat /\ keyed \in 0 .. created /\ created' \in Nat /\ keyed' \in 0 .. created'
      /\ created' \in {created, created + 1}
  <2>1. Cardinality(Sessions) \in Nat
    BY MessageQueueAssumption, FS_CardinalityType
  <2> QED
    BY <1>1, <2>1, InvFacts DEF TypeOK
<1>5. created' <= Cardinality(started') /\ Cardinality(started') <= Cardinality(Sessions)
      /\ Cardinality(started') \in Nat /\ Cardinality(Sessions) \in Nat
  <2>1. started' = started \cup {s} /\ s \notin started
    BY <1>1, <1>2
  <2>2. /\ IsFiniteSet(started) /\ IsFiniteSet(started') /\ Cardinality(started') <= Cardinality(Sessions)
        /\ Cardinality(Sessions) \in Nat
    BY MessageQueueAssumption, FS_Subset, FS_CardinalityType
  <2>3. created <= Cardinality(started)
    BY DEF MsgInv, QueuesCounted
  <2> HIDE DEF started
  <2>4. Cardinality(started \cup {s}) = Cardinality(started) + 1
    BY <2>1, <2>2, FS_AddElement
  <2>5. Cardinality(started) \in Nat /\ Cardinality(started') \in Nat
    BY <2>2, FS_CardinalityType
  <2> QED
    BY <1>4, <2>1, <2>2, <2>3, <2>4, <2>5
<1>6. QueuesCounted'
  BY <1>5 DEF QueuesCounted
<1>7. TypeOK' /\ OfSessions'
  <2>1. created' \in 0 .. Cardinality(Sessions)
    BY <1>4, <1>5
  <2>2. messageQueueId' \in [Sessions -> 0 .. created']
    <3>1. messageQueueId \in [Sessions -> 0 .. created] /\ 0 .. created \subseteq 0 .. created'
      BY <1>4, InvFacts DEF TypeOK
    <3> QED
      BY <1>1, <1>4, <3>1
  <2>3. \A r \in Sessions : child'[r] = "send" <=> received'[r] # NONE
    BY <1>1, <1>3, InvFacts DEF TypeOK, MsgInv, NotShownYet
  <2> QED
    BY <1>1, <1>4, <2>1, <2>2, <2>3, InvFacts DEF TypeOK, OfSessions, ChildAt, ParentAt
<1>8. OneHand(messages', received', answeredBy')
  BY <1>1, InvFacts
<1>9. OnTheWay(messages', received', answeredBy', Begun', typed')
  BY <1>1, <1>2, InvFacts, WayGrows
<1>10. \A r \in Sessions : NotShownYet(r)'
  BY <1>1, <1>2, <1>3 DEF MsgInv, NotShownYet
<1>11. ShownFromSomeone' /\ UndisturbedIsSorted'
  BY <1>1, ShownStays
<1>12. ASSUME NEW r \in Sessions PROVE Lone(r)'
  <2> SUFFICES ASSUME r \notin disturbed', Running(r)'
               PROVE  Alive(r)' /\ OnlyOf(r, messages', received')
                      /\ \A q \in Sessions : Running(q)' => q = r
    BY DEF Lone, OnlyOf
  <2>1. r # s => Running(r)
    BY <1>2 DEF Running
  <2>2. Quiet /\ others = {}
    BY <1>1, <2>1
  <2>3. r = s /\ \A q \in Sessions : Running(q)' => q = s
    BY <1>2, <2>1, <2>2 DEF Running
  <2>4. Alive(s)'
    BY <1>1, InvFacts DEF TypeOK, Alive
  <2>5. OnlyOf(s, messages', received')
    BY <1>1, <2>2, InvFacts DEF TypeOK, Quiet, OnlyOf
  <2> QED
    BY <2>3, <2>4, <2>5
<1> QED
  BY <1>6, <1>7, <1>8, <1>9, <1>10, <1>11, <1>12 DEF MsgInv

-----------------------------------------------------------------------------
(* The theorem.                                                            *)

LEMMA InitMsg == Init => MsgInv
<1> SUFFICES ASSUME Init PROVE MsgInv
  OBVIOUS
<1>1. Cardinality({ s \in Sessions : parent[s] # "new" }) = 0 /\ Cardinality(Sessions) \in Nat
  <2>1. { s \in Sessions : parent[s] # "new" } = {}
    BY DEF Init
  <2> QED
    BY <2>1, FS_EmptySet, FS_CardinalityType, MessageQueueAssumption
<1>2. TypeOK /\ OfSessions /\ QueuesCounted
  BY <1>1 DEF Init, TypeOK, OfSessions, QueuesCounted
<1>3. OneHand(messages, received, answeredBy) /\ OnTheWay(messages, received, answeredBy, Begun, typed)
  BY MessageQueueAssumption DEF Init, OneHand, OnTheWay
<1>4. \A s \in Sessions : NotShownYet(s) /\ Lone(s)
  BY DEF Init, NotShownYet, Lone, Running
<1>5. ShownFromSomeone /\ UndisturbedIsSorted
  BY DEF Init, ShownFromSomeone, UndisturbedIsSorted
<1> QED
  BY <1>2, <1>3, <1>4, <1>5 DEF MsgInv

LEMMA NextMsg == MsgInv /\ [Next]_vars => MsgInv'
<1> SUFFICES ASSUME MsgInv, [Next]_vars PROVE MsgInv'
  OBVIOUS
<1>1. ASSUME NEW s \in Sessions, start(s) \/ Parent(s) \/ Child(s) \/ kill(s)
      PROVE  MsgInv'
  BY <1>1, StartKeeps, RefuseKeeps, GiveUpKeeps, SendArrayKeeps, ReceiveSortedKeeps, ReceiveFailsKeeps,
     ReceiveArrayKeeps, ReceiveArrayFailsKeeps, SendSortedKeeps, KillKeeps DEF Parent, Child
<1>2. CASE UNCHANGED vars
  <2>1. UNCHANGED <<parent, child, typed, messageQueueId, keyed, created, messages, received, printed,
                    answeredBy, disturbed>>
    BY <1>2 DEF vars, history
  <2>2. ShownFromSomeone' /\ UndisturbedIsSorted'
    BY <2>1, ShownStays
  <2>3. TypeOK' /\ OfSessions' /\ Begun' = Begun /\ Frame
    BY <2>1, InvFacts DEF TypeOK, OfSessions, Begun, Frame, Running
  <2>4. /\ OneHand(messages', received', answeredBy')
        /\ OnTheWay(messages', received', answeredBy', Begun', typed)
        /\ \A r \in Sessions : NotShownYet(r)'
    BY <2>1, <2>3, InvFacts DEF MsgInv, NotShownYet
  <2> QED
    BY <2>1, <2>2, <2>3, <2>4, FrameKeeps
<1> QED
  BY <1>1, <1>2 DEF Next

\* However many sessions of message_queue_ipc.c start, stop, give up or are
\* killed, and whichever child takes whichever message: an array is in one
\* place at most and is answered once; what a user is shown was typed by
\* somebody and sorted, or is his own when the queue was removed under him; and
\* a session that runs alone, after sessions that left no array behind, shows
\* its own array sorted.
THEOREM ArraysCorrect == Spec => []ArraysOK
<1>1. MsgInv => ArraysOK
  BY OnePlace DEF MsgInv, ArraysOK
<1> QED
  BY <1>1, InitMsg, NextMsg, PTL DEF Spec
=============================================================================
