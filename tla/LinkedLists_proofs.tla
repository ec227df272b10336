--------------------------- MODULE LinkedLists_proofs ---------------------------
(***************************************************************************)
(* Proofs about the two components built of linked lists.                  *)
(*                                                                         *)
(* ProcessQueues, for any finite set of records and any pids: the links of *)
(* the records always spell three sequences, and every step of the pointer *)
(* code is a step of these sequences or none.                              *)
(*                                                                         *)
(* LruCache, for any keys, buckets and capacities: list, hash table and    *)
(* heap agree after every command, and the commands are those of the       *)
(* policy that evicts the key least recently used.                         *)
(***************************************************************************)
EXTENDS ProcessQueues, LruCache, DataLemmas

-----------------------------------------------------------------------------
(* When links and ends spell a sequence.                                   *)

Spells(s, next, front, rear) ==
  /\ front = (IF Len(s) = 0 THEN NoProcess ELSE s[1])
  /\ rear = (IF Len(s) = 0 THEN NoProcess ELSE s[Len(s)])
  /\ \A i \in DOMAIN s : next[s[i]] = (IF i = Len(s) THEN NoProcess ELSE s[i + 1])

\* No record is in two queues or twice in one.
Apart(c) ==
  \A q, r \in Queues : \A i \in DOMAIN c[q], j \in DOMAIN c[r] :
    c[q][i] = c[r][j] => q = r /\ i = j

\* The pointers hold the queues c.
Represents(c, next, front, rear) ==
  /\ c \in [Queues -> Seq(Processes)] /\ Apart(c)
  /\ \A q \in Queues : Spells(c[q], next, front[q], rear[q])

\* Where a loop stands in the queues c.
InPlace(c, l, q, pid, previous, current, done) ==
  l # "none" =>
    LET s == c[IF l = "move" THEN "waiting" ELSE q]
        wanted(p) == IF l = "move" THEN p \in done ELSE PidOf[p] = pid
    IN \E i \in 0 .. Len(s) :
         /\ previous = (IF i = 0 THEN NoProcess ELSE s[i])
         /\ current = (IF i = Len(s) THEN NoProcess ELSE s[i + 1])
         /\ \A j \in 1 .. i : ~wanted(s[j])

Holding(c) ==
  /\ Represents(c, next_process, front_process, rear_process)
  /\ InPlace(c, loop, queue, process_id, previous_process, current_process, io_done)

QueueInv == TypeOK /\ \E c : Holding(c)

-----------------------------------------------------------------------------
(* The walk along the links of a queue meets its records.                  *)

WalkStep(next, front, w, n) ==
  IF n = 1 THEN front ELSE IF w[n - 1] = NoProcess THEN NoProcess ELSE next[w[n - 1]]
Walk(next, front) ==
  CHOOSE w : w = [n \in 1 .. Cardinality(Processes) + 1 |-> WalkStep(next, front, w, n)]
Met(next, front) ==
  [n \in { m \in DOMAIN Walk(next, front) : Walk(next, front)[m] # NoProcess } |-> Walk(next, front)[n]]

LEMMA LinkedIsMet ==
  ASSUME NEW q
  PROVE  Linked(q) = Met(next_process, front_process[q])
  BY DEF Linked, Met, Walk, WalkStep

\* A queue without repetitions is no longer than there are records.
LEMMA QueueFits ==
  ASSUME NEW s \in Seq(Processes), IsInjective(s)
  PROVE  Cardinality(Processes) \in Nat /\ Len(s) <= Cardinality(Processes)
<1>1. Len(s) \in Nat /\ s \in [1 .. Len(s) -> Processes] /\ DOMAIN s = 1 .. Len(s)
  OBVIOUS
<1>2. IsFiniteSet(Processes) /\ IsFiniteSet(1 .. Len(s)) /\ Cardinality(1 .. Len(s)) = Len(s)
  BY <1>1, IntervalFacts, PointerAssumption
<1>3. s \in Injection(1 .. Len(s), Processes)
  BY <1>1, InjectionByElements DEF IsInjective
<1> QED
  BY <1>2, <1>3, FS_Injection, FS_CardinalityType

LEMMA MetIsSpelt ==
  ASSUME NEW s \in Seq(Processes), IsInjective(s), NEW next, NEW front, NEW rear,
         Spells(s, next, front, rear)
  PROVE  Met(next, front) = s
<1> DEFINE C == Cardinality(Processes)
           e == [n \in 1 .. C + 1 |-> IF n <= Len(s) THEN s[n] ELSE NoProcess]
           w == Walk(next, front)
           T == { n \in Nat : n + 1 \in 1 .. C + 1 => w[n + 1] = e[n + 1] }
<1>1. /\ Len(s) \in Nat /\ DOMAIN s = 1 .. Len(s) /\ C \in Nat /\ Len(s) <= C
      /\ \A n \in 1 .. Len(s) : s[n] \in Processes /\ s[n] # NoProcess
  BY QueueFits, PointerAssumption
<1>2. \A n \in 1 .. Len(s) : next[s[n]] = IF n = Len(s) THEN NoProcess ELSE s[n + 1]
  BY <1>1 DEF Spells
<1> HIDE DEF C
<1>3. \A n \in 1 .. C + 1 : e[n] = IF n <= Len(s) THEN s[n] ELSE NoProcess
  OBVIOUS
<1>4. ASSUME NEW n \in 1 .. C + 1 PROVE e[n] = WalkStep(next, front, e, n)
  <2>1. CASE n = 1
    BY <1>1, <1>3, <2>1 DEF WalkStep, Spells
  <2>2. CASE n # 1 /\ n - 1 <= Len(s)
    <3>1. n - 1 \in 1 .. Len(s) /\ n - 1 \in 1 .. C + 1 /\ n - 1 + 1 = n
      BY <1>1, <2>2
    <3>2. e[n - 1] = s[n - 1] /\ s[n - 1] # NoProcess
      BY <1>1, <1>3, <3>1
    <3>3. next[s[n - 1]] = IF n - 1 = Len(s) THEN NoProcess ELSE s[n]
      BY <1>2, <3>1
    <3>4. e[n] = IF n - 1 = Len(s) THEN NoProcess ELSE s[n]
      BY <1>1, <1>3, <3>1
    <3> QED
      BY <2>2, <3>2, <3>3, <3>4 DEF WalkStep
  <2>3. CASE n # 1 /\ n - 1 > Len(s)
    <3>1. n - 1 \in 1 .. C + 1 /\ ~(n - 1 <= Len(s)) /\ ~(n <= Len(s))
      BY <1>1, <2>3
    <3>2. e[n - 1] = NoProcess /\ e[n] = NoProcess
      BY <1>3, <3>1
    <3> QED
      BY <2>3, <3>2 DEF WalkStep
  <2> QED
    BY <1>1, <2>1, <2>2, <2>3
<1>5. e = [n \in 1 .. C + 1 |-> WalkStep(next, front, e, n)]
  BY <1>4
<1> HIDE DEF e
<1>6. w = [n \in 1 .. C + 1 |-> WalkStep(next, front, w, n)]
  <2>1. \E g : g = [n \in 1 .. C + 1 |-> WalkStep(next, front, g, n)]
    BY <1>5
  <2> QED
    BY <2>1 DEF Walk, C
<1> HIDE DEF w
<1>7. DOMAIN w = 1 .. C + 1 /\ \A n \in 1 .. C + 1 : w[n] = WalkStep(next, front, w, n)
  BY <1>6
<1>8. 0 \in T
  <2>1. 1 \in 1 .. C + 1
    BY <1>1
  <2>2. w[1] = front /\ e[1] = front
    BY <2>1, <1>4, <1>7 DEF WalkStep
  <2> QED
    BY <2>2
<1>9. ASSUME NEW n \in Nat, n \in T PROVE n + 1 \in T
  <2> SUFFICES ASSUME n + 1 + 1 \in 1 .. C + 1 PROVE w[n + 1 + 1] = e[n + 1 + 1]
    OBVIOUS
  <2>1. n + 1 \in 1 .. C + 1 /\ n + 1 + 1 # 1 /\ n + 1 + 1 - 1 = n + 1
    BY <1>1
  <2>2. w[n + 1] = e[n + 1]
    BY <1>9, <2>1
  <2>3. PICK m : m = n + 1 + 1
    OBVIOUS
  <2>4. m \in 1 .. C + 1 /\ m # 1 /\ m - 1 = n + 1
    BY <2>1, <2>3
  <2>5. w[m] = WalkStep(next, front, w, m) /\ e[m] = WalkStep(next, front, e, m)
    BY <1>4, <1>7, <2>4
  <2>6. w[m] = e[m]
    BY <2>2, <2>4, <2>5 DEF WalkStep
  <2> QED
    BY <2>3, <2>6
<1>10. Nat \subseteq T
  <2> HIDE DEF T
  <2> QED
    BY <1>8, <1>9, InductionOnNat
<1>11. ASSUME NEW n \in 1 .. C + 1 PROVE w[n] = e[n]
  <2>1. n - 1 \in Nat /\ n - 1 + 1 = n
    BY <1>1
  <2>2. n - 1 \in T
    BY <1>10, <2>1
  <2> QED
    BY <2>1, <2>2
<1>12. { m \in DOMAIN w : w[m] # NoProcess } = 1 .. Len(s)
  BY <1>1, <1>3, <1>7, <1>11
<1>13. \A n \in 1 .. Len(s) : w[n] = s[n]
  BY <1>1, <1>3, <1>11
<1>14. Met(next, front) = [n \in 1 .. Len(s) |-> s[n]]
  BY <1>12, <1>13 DEF Met, w
<1> QED
  BY <1>1, <1>14

LEMMA RepresentsFacts ==
  ASSUME NEW c, NEW next, NEW front, NEW rear, Represents(c, next, front, rear),
         NEW q \in Queues
  PROVE  /\ c[q] \in Seq(Processes) /\ IsInjective(c[q])
         /\ Len(c[q]) \in Nat /\ DOMAIN c[q] = 1 .. Len(c[q])
         /\ \A i \in 1 .. Len(c[q]) : c[q][i] \in Processes /\ c[q][i] # NoProcess
         /\ Met(next, front[q]) = c[q]
<1>1. c[q] \in Seq(Processes) /\ Spells(c[q], next, front[q], rear[q]) /\ Apart(c)
  BY DEF Represents
<1>2. IsInjective(c[q])
  BY <1>1 DEF IsInjective, Apart
<1>3. /\ Len(c[q]) \in Nat /\ DOMAIN c[q] = 1 .. Len(c[q])
      /\ \A i \in 1 .. Len(c[q]) : c[q][i] \in Processes
  BY <1>1
<1>4. Met(next, front[q]) = c[q]
  BY <1>1, <1>2, MetIsSpelt
<1> QED
  BY <1>1, <1>2, <1>3, <1>4, PointerAssumption

-----------------------------------------------------------------------------
(* What the operations on pointers do to the sequences.                    *)

\* The links of records that are in no queue do not matter.
LEMMA OtherLinks ==
  ASSUME NEW c, NEW next \in [Processes -> Pointers], NEW front, NEW rear,
         Represents(c, next, front, rear),
         NEW p \in Processes, \A q \in Queues : \A i \in DOMAIN c[q] : c[q][i] # p,
         NEW x
  PROVE  Represents(c, [next EXCEPT ![p] = x], front, rear)
<1>1. ASSUME NEW q \in Queues PROVE Spells(c[q], [next EXCEPT ![p] = x], front[q], rear[q])
  <2>1. c[q] \in Seq(Processes) /\ Spells(c[q], next, front[q], rear[q])
    BY DEF Represents
  <2>2. \A i \in DOMAIN c[q] : c[q][i] \in Processes /\ [next EXCEPT ![p] = x][c[q][i]] = next[c[q][i]]
    BY <2>1
  <2> QED
    BY <2>1, <2>2 DEF Spells
<1> QED
  BY <1>1 DEF Represents

\* enqueue puts the record at the rear.
LEMMA EnqueueSpells ==
  ASSUME NEW c, NEW next \in [Processes -> Pointers], NEW front \in [Queues -> Pointers],
         NEW rear \in [Queues -> Pointers], Represents(c, next, front, rear),
         NEW q \in Queues, NEW p \in Processes,
         \A r \in Queues : \A i \in DOMAIN c[r] : c[r][i] # p,
         NEW next2, NEW front2, NEW rear2,
         next2 = IF rear[q] = NoProcess THEN [next EXCEPT ![p] = NoProcess]
                 ELSE [next EXCEPT ![p] = NoProcess, ![rear[q]] = p],
         front2 = IF rear[q] = NoProcess THEN [front EXCEPT ![q] = p] ELSE front,
         rear2 = [rear EXCEPT ![q] = p]
  PROVE  Represents([c EXCEPT ![q] = Append(@, p)], next2, front2, rear2)
<1> DEFINE s == c[q]
           t == Append(s, p)
           d == [c EXCEPT ![q] = Append(@, p)]
<1>1. /\ c \in [Queues -> Seq(Processes)] /\ Apart(c) /\ s \in Seq(Processes)
      /\ \A r \in Queues : Spells(c[r], next, front[r], rear[r])
  BY DEF Represents
<1>2. /\ Len(s) \in Nat /\ DOMAIN s = 1 .. Len(s)
      /\ \A i \in 1 .. Len(s) : s[i] \in Processes /\ s[i] # NoProcess
      /\ \A i, j \in 1 .. Len(s) : s[i] = s[j] => i = j
      /\ \A i \in 1 .. Len(s) : s[i] # p
  BY RepresentsFacts DEF IsInjective
<1>3. /\ t \in Seq(Processes) /\ Len(t) = Len(s) + 1 /\ DOMAIN t = 1 .. Len(s) + 1
      /\ t[Len(s) + 1] = p /\ \A i \in 1 .. Len(s) : t[i] = s[i]
  BY <1>1, <1>2
<1>4. rear[q] = NoProcess <=> Len(s) = 0
  <2>1. rear[q] = IF Len(s) = 0 THEN NoProcess ELSE s[Len(s)]
    BY <1>1 DEF Spells
  <2>2. Len(s) # 0 => Len(s) \in 1 .. Len(s)
    BY <1>2
  <2> QED
    BY <1>2, <2>1, <2>2
<1>5. next2[p] = NoProcess /\ \A x \in Processes : x # p /\ x # rear[q] => next2[x] = next[x]
  <2>1. rear[q] # NoProcess => rear[q] # p
    BY <1>1, <1>2 DEF Spells
  <2> QED
    BY <2>1
<1>6. rear[q] # NoProcess => next2[rear[q]] = p
  BY DEF Pointers
<1> HIDE DEF t
<1>7. Spells(t, next2, front2[q], rear2[q])
  <2>1. Len(t) # 0 /\ front2[q] = t[1] /\ rear2[q] = t[Len(t)]
    <3>1. Len(t) # 0 /\ rear2[q] = t[Len(t)]
      BY <1>2, <1>3
    <3>2. CASE Len(s) = 0
      BY <1>3, <1>4, <3>2
    <3>3. CASE Len(s) # 0
      <4>1. front2[q] = s[1] /\ 1 \in 1 .. Len(s)
        BY <1>1, <1>2, <1>4, <3>3 DEF Spells
      <4> QED
        BY <1>3, <3>1, <4>1
    <3> QED
      BY <3>1, <3>2, <3>3
  <2>2. ASSUME NEW i \in 1 .. Len(s) + 1
        PROVE  next2[t[i]] = IF i = Len(t) THEN NoProcess ELSE t[i + 1]
    <3>1. CASE i = Len(s) + 1
      BY <1>3, <1>5, <3>1
    <3>2. CASE i = Len(s)
      <4>1. rear[q] = s[i] /\ t[i] = s[i] /\ t[i + 1] = p /\ rear[q] # NoProcess /\ i # Len(t)
        BY <1>1, <1>2, <1>3, <1>4, <3>2 DEF Spells
      <4> QED
        BY <1>6, <4>1
    <3>3. CASE i < Len(s)
      <4>1. i \in 1 .. Len(s) /\ i + 1 \in 1 .. Len(s) /\ i # Len(t) /\ i # Len(s)
        BY <1>2, <1>3, <3>3
      <4>2. rear[q] = s[Len(s)] /\ Len(s) \in 1 .. Len(s)
        BY <1>1, <1>2, <3>3 DEF Spells
      <4>3. s[i] # rear[q] /\ s[i] # p
        BY <1>2, <4>1, <4>2
      <4>4. next2[s[i]] = next[s[i]]
        BY <1>2, <1>5, <4>1, <4>3
      <4>5. next[s[i]] = s[i + 1]
        BY <1>1, <1>2, <4>1 DEF Spells
      <4> QED
        BY <1>3, <4>1, <4>4, <4>5
    <3> QED
      BY <1>2, <3>1, <3>2, <3>3
  <2> QED
    BY <1>3, <2>1, <2>2 DEF Spells
<1>8. ASSUME NEW r \in Queues, r # q PROVE Spells(c[r], next2, front2[r], rear2[r])
  <2>1. front2[r] = front[r] /\ rear2[r] = rear[r]
    BY <1>8
  <2>2. \A i \in DOMAIN c[r] : c[r][i] \in Processes
    BY RepresentsFacts
  <2>3. \A i \in DOMAIN c[r] : c[r][i] # p /\ c[r][i] # rear[q]
    <3>1. CASE rear[q] = NoProcess
      BY <2>2, <3>1, PointerAssumption
    <3>2. CASE rear[q] # NoProcess
      <4>1. rear[q] = s[Len(s)] /\ Len(s) \in DOMAIN s
        BY <1>1, <1>2, <1>4, <3>2 DEF Spells
      <4> QED
        BY <1>1, <1>8, <4>1 DEF Apart
    <3> QED
      BY <3>1, <3>2
  <2>4. \A i \in DOMAIN c[r] : next2[c[r][i]] = next[c[r][i]]
    BY <1>5, <2>2, <2>3
  <2> QED
    BY <1>1, <2>1, <2>4 DEF Spells
<1>9. d \in [Queues -> Seq(Processes)] /\ d[q] = t /\ \A r \in Queues : r # q => d[r] = c[r]
  BY <1>1, <1>3 DEF t
<1>10. Apart(d)
  <2>1. \A r, u \in Queues : \A i \in DOMAIN c[r], j \in DOMAIN c[u] :
          c[r][i] = c[u][j] => r = u /\ i = j
    BY <1>1 DEF Apart
  <2>2. ASSUME NEW i \in DOMAIN t, NEW j \in DOMAIN t, t[i] = t[j] PROVE i = j
    <3>1. \A k \in DOMAIN t : k = Len(s) + 1 \/ k \in 1 .. Len(s)
      BY <1>2, <1>3
    <3> QED
      BY <1>2, <1>3, <2>2, <3>1
  <2>3. ASSUME NEW r \in Queues, r # q, NEW i \in DOMAIN t, NEW j \in DOMAIN c[r]
        PROVE  t[i] # c[r][j]
    <3>1. i = Len(s) + 1 \/ i \in 1 .. Len(s)
      BY <1>2, <1>3
    <3>2. CASE i = Len(s) + 1
      BY <1>3, <3>2
    <3>3. CASE i \in 1 .. Len(s)
      BY <1>2, <1>3, <2>1, <2>3, <3>3
    <3> QED
      BY <3>1, <3>2, <3>3
  <2> HIDE DEF d
  <2> SUFFICES ASSUME NEW r \in Queues, NEW u \in Queues, NEW i \in DOMAIN d[r],
                      NEW j \in DOMAIN d[u], d[r][i] = d[u][j]
               PROVE  r = u /\ i = j
    BY DEF Apart
  <2>4. CASE r = q /\ u = q
    BY <1>9, <2>2, <2>4
  <2>5. CASE r = q /\ u # q
    <3>1. d[r] = t /\ d[u] = c[u]
      BY <1>9, <2>5
    <3>2. t[i] # c[u][j]
      BY <2>3, <2>5, <3>1
    <3> QED
      BY <3>1, <3>2
  <2>6. CASE r # q /\ u = q
    <3>1. d[r] = c[r] /\ d[u] = t
      BY <1>9, <2>6
    <3>2. t[j] # c[r][i]
      BY <2>3, <2>6, <3>1
    <3> QED
      BY <3>1, <3>2
  <2>7. CASE r # q /\ u # q
    <3>1. d[r] = c[r] /\ d[u] = c[u]
      BY <1>9, <2>7
    <3> QED
      BY <2>1, <3>1
  <2> QED
    BY <2>4, <2>5, <2>6, <2>7
<1> HIDE DEF d
<1>11. Represents(d, next2, front2, rear2)
  BY <1>7, <1>8, <1>9, <1>10 DEF Represents
<1> QED
  BY <1>11 DEF d

\* A sequence with more than one element has a first, a second and a last.
LEMMA PlaceFacts ==
  ASSUME NEW n \in Nat, n # 0, n # 1
  PROVE  /\ 1 \in 1 .. n /\ 2 \in 1 .. n /\ 1 \in 1 .. n - 1
         /\ n - 1 \in 1 .. n - 1 /\ n - 1 # 0 /\ n - 1 + 1 = n
  OBVIOUS

\* dequeue takes the front off.
LEMMA DequeueSpells ==
  ASSUME NEW c, NEW next \in [Processes -> Pointers], NEW front \in [Queues -> Pointers],
         NEW rear \in [Queues -> Pointers], Represents(c, next, front, rear),
         NEW q \in Queues, front[q] # NoProcess,
         NEW front2, NEW rear2,
         front2 = [front EXCEPT ![q] = next[front[q]]],
         rear2 = IF next[front[q]] = NoProcess THEN [rear EXCEPT ![q] = NoProcess] ELSE rear
  PROVE  /\ c[q] # <<>>
         /\ Represents([c EXCEPT ![q] = Tail(@)], next, front2, rear2)
<1> DEFINE s == c[q]
           t == Tail(s)
           d == [c EXCEPT ![q] = Tail(@)]
<1>1. /\ c \in [Queues -> Seq(Processes)] /\ Apart(c) /\ s \in Seq(Processes)
      /\ \A r \in Queues : Spells(c[r], next, front[r], rear[r])
  BY DEF Represents
<1>2. /\ Len(s) \in Nat /\ DOMAIN s = 1 .. Len(s)
      /\ \A i \in 1 .. Len(s) : s[i] \in Processes /\ s[i] # NoProcess
  BY RepresentsFacts
<1>3. Len(s) # 0 /\ s # <<>> /\ front[q] = s[1]
  BY <1>1, <1>2 DEF Spells
<1>4. /\ t \in Seq(Processes) /\ Len(t) = Len(s) - 1 /\ DOMAIN t = 1 .. Len(s) - 1
      /\ \A i \in 1 .. Len(s) - 1 : t[i] = s[i + 1]
  BY <1>1, <1>2, <1>3
<1> HIDE DEF t
<1>0. \A n \in Nat : n # 0 => 1 \in 1 .. n
  OBVIOUS
<1>5. next[s[1]] = IF Len(s) = 1 THEN NoProcess ELSE s[2]
  <2>1. 1 \in DOMAIN s
    BY <1>0, <1>2, <1>3
  <2>2. next[s[1]] = IF 1 = Len(s) THEN NoProcess ELSE s[1 + 1]
    BY <1>1, <2>1 DEF Spells
  <2> QED
    BY <2>2
<1>6. Len(s) # 1 => next[s[1]] # NoProcess
  <2>1. Len(s) # 1 => 2 \in 1 .. Len(s)
    BY <1>2, <1>3, PlaceFacts
  <2> QED
    BY <1>2, <1>5, <2>1
<1>7. Spells(t, next, front2[q], rear2[q])
  <2>0. front2[q] = next[s[1]]
    BY <1>3
  <2>1. front2[q] = IF Len(t) = 0 THEN NoProcess ELSE t[1]
    <3>1. CASE Len(s) = 1
      BY <1>4, <1>5, <2>0, <3>1
    <3>2. CASE Len(s) # 1
      <4>1. 1 \in 1 .. Len(s) - 1 /\ Len(t) # 0
        <5>1. 1 \in 1 .. Len(s) - 1 /\ Len(s) - 1 # 0
          BY <1>2, <1>3, <3>2, PlaceFacts
        <5>2. Len(t) = Len(s) - 1
          BY <1>4
        <5> HIDE DEF s
        <5> QED
          BY <5>1, <5>2
      <4>2. t[1] = s[2]
        BY <1>4, <4>1
      <4> QED
        BY <1>5, <2>0, <3>2, <4>1, <4>2
    <3> QED
      BY <3>1, <3>2
  <2>2. rear2[q] = IF Len(t) = 0 THEN NoProcess ELSE t[Len(t)]
    <3>1. rear[q] = s[Len(s)]
      BY <1>1, <1>3 DEF Spells
    <3>2. CASE Len(s) = 1
      <4>1. rear2[q] = NoProcess
        BY <1>3, <1>5, <3>2
      <4> QED
        BY <1>4, <3>2, <4>1
    <3>3. CASE Len(s) # 1
      <4>1. rear2 = rear
        BY <1>3, <1>6, <3>3
      <4>2. Len(t) \in 1 .. Len(s) - 1 /\ Len(t) + 1 = Len(s) /\ Len(t) # 0
        <5>1. Len(s) - 1 \in 1 .. Len(s) - 1 /\ Len(s) - 1 # 0 /\ Len(s) - 1 + 1 = Len(s)
          BY <1>2, <1>3, <3>3, PlaceFacts
        <5>2. Len(t) = Len(s) - 1
          BY <1>4
        <5> HIDE DEF s
        <5> QED
          BY <5>1, <5>2
      <4>3. t[Len(t)] = s[Len(s)]
        BY <1>4, <4>2
      <4> QED
        BY <3>1, <4>1, <4>2, <4>3
    <3> QED
      BY <3>2, <3>3
  <2>3. ASSUME NEW i \in 1 .. Len(s) - 1
        PROVE  next[t[i]] = IF i = Len(t) THEN NoProcess ELSE t[i + 1]
    <3>1. i + 1 \in 1 .. Len(s)
      BY <1>2
    <3>2. next[s[i + 1]] = IF i + 1 = Len(s) THEN NoProcess ELSE s[i + 1 + 1]
      BY <1>1, <1>2, <3>1 DEF Spells
    <3> QED
      BY <1>2, <1>4, <3>1, <3>2
  <2> QED
    BY <1>4, <2>1, <2>2, <2>3 DEF Spells
<1>8. ASSUME NEW r \in Queues, r # q PROVE Spells(c[r], next, front2[r], rear2[r])
  BY <1>1, <1>8
<1>9. d \in [Queues -> Seq(Processes)] /\ d[q] = t /\ \A r \in Queues : r # q => d[r] = c[r]
  BY <1>1, <1>4 DEF t
<1>10. Apart(d)
  <2>1. \A r, u \in Queues : \A i \in DOMAIN c[r], j \in DOMAIN c[u] :
          c[r][i] = c[u][j] => r = u /\ i = j
    BY <1>1 DEF Apart
  <2> DEFINE from(r, i) == IF r = q THEN i + 1 ELSE i
  <2>2. \A r \in Queues : \A i \in DOMAIN d[r] :
          i \in Int /\ from(r, i) \in DOMAIN c[r] /\ d[r][i] = c[r][from(r, i)]
    <3> HIDE DEF d
    <3>1. \A r \in Queues : DOMAIN c[r] = 1 .. Len(c[r]) /\ Len(c[r]) \in Nat
      BY <1>1
    <3> TAKE r \in Queues
    <3> TAKE i \in DOMAIN d[r]
    <3>2. CASE r = q
      <4>1. i \in 1 .. Len(s) - 1 /\ i + 1 \in 1 .. Len(s)
        BY <1>2, <1>4, <1>9, <3>2
      <4> QED
        BY <1>2, <1>4, <1>9, <3>2, <4>1
    <3>3. CASE r # q
      BY <1>9, <3>1, <3>3
    <3> QED
      BY <3>2, <3>3
  <2> HIDE DEF d
  <2> SUFFICES ASSUME NEW r \in Queues, NEW u \in Queues, NEW i \in DOMAIN d[r],
                      NEW j \in DOMAIN d[u], d[r][i] = d[u][j]
               PROVE  r = u /\ i = j
    BY DEF Apart
  <2>3. r = u /\ from(r, i) = from(u, j)
    BY <2>1, <2>2
  <2>4. i \in Int /\ j \in Int
    BY <2>2
  <2> QED
    BY <2>3, <2>4
<1> HIDE DEF d
<1>11. Represents(d, next, front2, rear2)
  BY <1>7, <1>8, <1>9, <1>10 DEF Represents
<1> QED
  BY <1>3, <1>11 DEF d

\* The pointers next2, front2 and rear2 are next, front and rear without the
\* i-th record of q, and d is c without it.
Without(c, next, front, rear, q, i, previous, d, next2, front2, rear2) ==
  /\ previous = (IF i = 1 THEN NoProcess ELSE c[q][i - 1])
  /\ d \in [Queues -> Seq(Processes)]
  /\ d[q] = RemoveAt(c[q], i) /\ \A r \in Queues : r # q => d[r] = c[r]
  /\ \A x \in Processes : next2[x] = IF x = previous THEN next[c[q][i]] ELSE next[x]
  /\ front2[q] = (IF previous = NoProcess THEN next[c[q][i]] ELSE front[q])
  /\ \A r \in Queues : r # q => front2[r] = front[r]
  /\ rear2[q] = (IF c[q][i] = rear[q] THEN previous ELSE rear[q])
  /\ \A r \in Queues : r # q => rear2[r] = rear[r]

\* Unlinking takes the i-th record out.
LEMMA UnlinkSpells ==
  ASSUME NEW c, NEW next, NEW front, NEW rear, Represents(c, next, front, rear),
         NEW q \in Queues, NEW i \in DOMAIN c[q],
         NEW previous, NEW d, NEW next2, NEW front2, NEW rear2,
         Without(c, next, front, rear, q, i, previous, d, next2, front2, rear2)
  PROVE  Represents(d, next2, front2, rear2)
<1> DEFINE s == c[q]
           t == RemoveAt(s, i)
<1>1. /\ c \in [Queues -> Seq(Processes)] /\ Apart(c) /\ s \in Seq(Processes)
      /\ \A r \in Queues : Spells(c[r], next, front[r], rear[r])
  BY DEF Represents
<1>0. /\ previous = (IF i = 1 THEN NoProcess ELSE s[i - 1])
      /\ d \in [Queues -> Seq(Processes)]
      /\ d[q] = t /\ \A r \in Queues : r # q => d[r] = c[r]
      /\ \A x \in Processes : next2[x] = IF x = previous THEN next[s[i]] ELSE next[x]
      /\ front2[q] = (IF previous = NoProcess THEN next[s[i]] ELSE front[q])
      /\ \A r \in Queues : r # q => front2[r] = front[r]
      /\ rear2[q] = (IF s[i] = rear[q] THEN previous ELSE rear[q])
      /\ \A r \in Queues : r # q => rear2[r] = rear[r]
  BY DEF Without
<1>2. /\ Len(s) \in Nat /\ DOMAIN s = 1 .. Len(s) /\ i \in 1 .. Len(s)
      /\ \A j \in 1 .. Len(s) : s[j] \in Processes /\ s[j] # NoProcess
      /\ \A j, k \in 1 .. Len(s) : s[j] = s[k] => j = k
  BY RepresentsFacts DEF IsInjective
<1>3. /\ t \in Seq(Processes) /\ Len(t) = Len(s) - 1 /\ DOMAIN t = 1 .. Len(s) - 1
      /\ \A j \in 1 .. Len(s) - 1 : t[j] = IF j < i THEN s[j] ELSE s[j + 1]
  <2>1. /\ t \in Seq(Processes) /\ Len(t) = Len(s) - 1
        /\ \A j \in 1 .. Len(s) - 1 : t[j] = IF j < i THEN s[j] ELSE s[j + 1]
    BY <1>1, RemoveAtElements
  <2> HIDE DEF t
  <2> QED
    BY <2>1
<1> HIDE DEF t
<1>4. \A j \in 1 .. Len(s) : next[s[j]] = IF j = Len(s) THEN NoProcess ELSE s[j + 1]
  <2>1. Spells(s, next, front[q], rear[q])
    BY <1>1
  <2> QED
    BY <1>2, <2>1 DEF Spells
<1>5. /\ front[q] = s[1] /\ rear[q] = s[Len(s)] /\ Len(s) # 0
      /\ s[i] = rear[q] <=> i = Len(s)
  <2>1. Len(s) # 0 /\ Len(s) \in 1 .. Len(s)
    BY <1>2
  <2> QED
    BY <1>1, <1>2, <2>1 DEF Spells
<1>6. previous = NoProcess <=> i = 1
  BY <1>0, <1>2
<1>7. i # 1 => previous = s[i - 1] /\ i - 1 \in 1 .. Len(s)
  BY <1>0, <1>2
<1>8. /\ i # 1 => next2[s[i - 1]] = IF i = Len(s) THEN NoProcess ELSE s[i + 1]
      /\ \A x \in Processes : x # previous => next2[x] = next[x]
  BY <1>0, <1>2, <1>4, <1>6, <1>7
<1>9. Spells(t, next2, front2[q], rear2[q])
  <2>1. front2[q] = IF Len(t) = 0 THEN NoProcess ELSE t[1]
    <3>1. CASE i = 1
      <4>1. front2[q] = next[s[1]]
        BY <1>0, <1>6, <3>1
      <4>0. 1 \in 1 .. Len(s) /\ Len(s) \in Nat
        BY <1>2, <3>1
      <4>2. next[s[1]] = IF Len(s) = 1 THEN NoProcess ELSE s[2]
        <5>1. next[s[1]] = IF 1 = Len(s) THEN NoProcess ELSE s[1 + 1]
          BY <1>4, <4>0
        <5> QED
          BY <5>1
      <4>3. Len(s) # 1 => 1 \in 1 .. Len(s) - 1 /\ ~(1 < i) /\ t[1] = s[2]
        <5>1. Len(s) # 1 => 1 \in 1 .. Len(s) - 1
          BY <1>5, <4>0, PlaceFacts
        <5>2. 1 \in 1 .. Len(s) - 1 => t[1] = s[1 + 1]
          BY <1>3, <3>1
        <5> QED
          BY <3>1, <5>1, <5>2
      <4> QED
        BY <1>3, <1>2, <4>1, <4>2, <4>3
    <3>2. CASE i # 1
      <4>1. front2[q] = s[1]
        BY <1>0, <1>5, <1>6, <3>2
      <4>2. 1 \in 1 .. Len(s) - 1 /\ 1 < i
        BY <1>2, <3>2
      <4>3. t[1] = s[1] /\ Len(t) # 0
        BY <1>2, <1>3, <4>2
      <4> QED
        BY <4>1, <4>3
    <3> QED
      BY <3>1, <3>2
  <2>2. rear2[q] = IF Len(t) = 0 THEN NoProcess ELSE t[Len(t)]
    <3>1. CASE i = Len(s)
      <4>1. rear2[q] = previous
        BY <1>0, <1>5, <3>1
      <4> QED
        BY <1>2, <1>3, <1>6, <1>7, <3>1, <4>1
    <3>2. CASE i # Len(s)
      <4>1. rear2[q] = s[Len(s)]
        BY <1>0, <1>5, <3>2
      <4>2. Len(s) - 1 \in 1 .. Len(s) - 1 /\ ~(Len(s) - 1 < i) /\ Len(s) - 1 + 1 = Len(s)
        BY <1>2, <3>2
      <4> QED
        BY <1>2, <1>3, <4>1, <4>2
    <3> QED
      BY <3>1, <3>2
  <2>3. ASSUME NEW j \in 1 .. Len(s) - 1
        PROVE  next2[t[j]] = IF j = Len(t) THEN NoProcess ELSE t[j + 1]
    <3>0. j \in 1 .. Len(s) /\ j + 1 \in 1 .. Len(s) /\ j \in Int
      BY <1>2
    <3>1. CASE j + 1 = i
      <4>1. t[j] = s[i - 1] /\ i # 1 /\ j = i - 1 /\ j < i
        BY <1>2, <1>3, <3>0, <3>1
      <4>2. i # Len(s) => j + 1 \in 1 .. Len(s) - 1 /\ t[j + 1] = s[i + 1]
        <5>1. i # Len(s) => i \in 1 .. Len(s) - 1 /\ ~(i < i)
          BY <1>2
        <5> QED
          BY <1>3, <3>1, <5>1
      <4>3. j = Len(t) <=> i = Len(s)
        BY <1>2, <1>3, <3>1, <3>0
      <4> QED
        BY <1>8, <4>1, <4>2, <4>3
    <3>2. CASE j + 1 < i
      <4>0. j \in 1 .. Len(s) - 1 /\ j + 1 \in 1 .. Len(s) - 1 /\ j < i
            /\ j # Len(s) - 1 /\ j # Len(s) /\ j # i - 1 /\ i # 1
        BY <1>2, <3>0, <3>2
      <4>1. t[j] = s[j] /\ t[j + 1] = s[j + 1] /\ j # Len(t) /\ j # Len(s) /\ j # i - 1 /\ i # 1
        BY <1>3, <3>2, <4>0
      <4>2. s[j] # previous
        BY <1>2, <1>7, <3>0, <4>1
      <4>3. s[j] \in Processes
        BY <1>2, <3>0
      <4>4. next2[s[j]] = next[s[j]]
        BY <1>8, <4>2, <4>3
      <4>5. next[s[j]] = s[j + 1]
        BY <1>4, <3>0, <4>1
      <4> QED
        BY <4>1, <4>4, <4>5
    <3>3. CASE j + 1 > i
      <4>1. ~(j < i) /\ t[j] = s[j + 1] /\ j + 1 # i - 1
        BY <1>2, <1>3, <3>0, <3>3
      <4>2. s[j + 1] # previous
        BY <1>2, <1>6, <1>7, <3>0, <4>1
      <4>3. next2[t[j]] = IF j + 1 = Len(s) THEN NoProcess ELSE s[j + 1 + 1]
        <5>1. s[j + 1] \in Processes
          BY <1>2, <3>0
        <5>2. next2[s[j + 1]] = next[s[j + 1]]
          BY <1>8, <4>2, <5>1
        <5>3. next[s[j + 1]] = IF j + 1 = Len(s) THEN NoProcess ELSE s[j + 1 + 1]
          BY <1>4, <3>0
        <5> QED
          BY <4>1, <5>2, <5>3
      <4>4. j # Len(t) => t[j + 1] = s[j + 1 + 1]
        BY <1>2, <1>3, <3>0, <3>3
      <4>5. j = Len(t) <=> j + 1 = Len(s)
        BY <1>2, <1>3, <3>0
      <4> QED
        BY <4>3, <4>4, <4>5
    <3> QED
      BY <1>2, <3>0, <3>1, <3>2, <3>3
  <2> QED
    BY <1>3, <2>1, <2>2, <2>3 DEF Spells
<1>10. ASSUME NEW r \in Queues, r # q PROVE Spells(c[r], next2, front2[r], rear2[r])
  <2>1. front2[r] = front[r] /\ rear2[r] = rear[r]
    BY <1>0, <1>10
  <2>2. \A j \in DOMAIN c[r] : c[r][j] \in Processes
    BY <1>1
  <2>3. \A j \in DOMAIN c[r] : c[r][j] # previous
    <3>1. CASE i = 1
      BY <1>6, <2>2, <3>1, PointerAssumption
    <3>2. CASE i # 1
      BY <1>1, <1>2, <1>7, <1>10, <3>2 DEF Apart
    <3> QED
      BY <3>1, <3>2
  <2>4. \A j \in DOMAIN c[r] : next2[c[r][j]] = next[c[r][j]]
    BY <1>8, <2>2, <2>3
  <2> QED
    BY <1>1, <2>1, <2>4 DEF Spells
<1>11. d \in [Queues -> Seq(Processes)] /\ d[q] = t /\ \A r \in Queues : r # q => d[r] = c[r]
  BY <1>0
<1>12. Apart(d)
  <2>1. \A r, u \in Queues : \A j \in DOMAIN c[r], k \in DOMAIN c[u] :
          c[r][j] = c[u][k] => r = u /\ j = k
    BY <1>1 DEF Apart
  <2> DEFINE from(r, j) == IF r = q /\ j >= i THEN j + 1 ELSE j
  <2>2. \A r \in Queues : \A j \in DOMAIN d[r] :
          j \in Int /\ from(r, j) \in DOMAIN c[r] /\ d[r][j] = c[r][from(r, j)]
    <3>1. \A r \in Queues : DOMAIN c[r] = 1 .. Len(c[r]) /\ Len(c[r]) \in Nat
      BY <1>1
    <3> QED
      BY <1>2, <1>3, <1>11, <3>1
  <2> SUFFICES ASSUME NEW r \in Queues, NEW u \in Queues, NEW j \in DOMAIN d[r],
                      NEW k \in DOMAIN d[u], d[r][j] = d[u][k]
               PROVE  r = u /\ j = k
    BY DEF Apart
  <2>3. r = u /\ from(r, j) = from(u, k)
    BY <2>1, <2>2
  <2> QED
    BY <1>2, <2>2, <2>3
<1> QED
  BY <1>9, <1>10, <1>11, <1>12 DEF Represents

-----------------------------------------------------------------------------
(* Every step of the pointers is a step of the sequences or none.          *)

\* What a step of the code may do to the three sequences: an operation between
\* two loops ...
IdleStep(c, d) ==
  /\ loop = "none" /\ loop' = "none"
  /\ \E q \in Queues :
       \/ c[q] # <<>> /\ d = [c EXCEPT ![q] = Tail(@)]
       \/ \E p \in Processes :
            /\ \A r \in Queues : \A i \in DOMAIN c[r] : c[r][i] # p
            /\ d = [c EXCEPT ![q] = Append(@, p)]

\* ... the beginning of a loop ...
StartStep(c, d) ==
  /\ loop = "none" /\ d = c
  /\ \/ loop' = "remove" /\ queue' \in Queues /\ \E p \in Processes : process_id' = PidOf[p]
     \/ loop' = "move" /\ io_done' \subseteq ToSet(c["waiting"])

\* ... an iteration that passes a record ...
PassStep(c, d) == d = c /\ UNCHANGED <<loop, queue, process_id, io_done>>

\* ... one that takes the first record it should ...
RemoveStep(c, d) ==
  /\ loop = "remove" /\ loop' = "none"
  /\ \E i \in DOMAIN c[queue] :
       /\ PidOf[c[queue][i]] = process_id
       /\ \A j \in 1 .. i - 1 : PidOf[c[queue][j]] # process_id
       /\ d = [c EXCEPT ![queue] = RemoveAt(@, i)]
MoveStep(c, d) ==
  /\ loop = "move" /\ loop' = "move" /\ io_done' = io_done
  /\ \E i \in DOMAIN c["waiting"] :
       /\ c["waiting"][i] \in io_done
       /\ \A j \in 1 .. i - 1 : c["waiting"][j] \notin io_done
       /\ d = [c EXCEPT !["waiting"] = RemoveAt(@, i), !["ready"] = Append(@, c["waiting"][i])]

\* ... and the end of a loop that leaves none of them behind.
EndStep(c, d) ==
  /\ loop' = "none" /\ d = c
  /\ \/ loop = "remove" /\ \A i \in DOMAIN c[queue] : PidOf[c[queue][i]] # process_id
     \/ loop = "move" /\ \A i \in DOMAIN c["waiting"] : c["waiting"][i] \notin io_done

FifoStep(c, d) ==
  \/ IdleStep(c, d) \/ StartStep(c, d) \/ PassStep(c, d)
  \/ RemoveStep(c, d) \/ MoveStep(c, d) \/ EndStep(c, d)

Stepped(c, d) ==
  /\ Represents(d, next_process', front_process', rear_process')
  /\ InPlace(d, loop', queue', process_id', previous_process', current_process', io_done')
  /\ FifoStep(c, d)

LEMMA HeldFacts ==
  ASSUME NEW c, Holding(c)
  PROVE  /\ c \in [Queues -> Seq(Processes)]
         /\ \A q \in Queues : Linked(q) = c[q]
         /\ \A p : p \notin Everywhere <=>
                     \A r \in Queues : \A i \in DOMAIN c[r] : c[r][i] # p
<1>1. c \in [Queues -> Seq(Processes)]
  BY DEF Holding, Represents
<1>2. \A q \in Queues : Linked(q) = c[q]
  BY LinkedIsMet, RepresentsFacts DEF Holding
<1>3. Everywhere = UNION { ToSet(c[q]) : q \in Queues }
  BY <1>2 DEF Everywhere
<1> QED
  BY <1>1, <1>2, <1>3 DEF ToSet

\* The record a loop looks at is the next one of its queue.
LEMMA LoopFacts ==
  ASSUME TypeOK, NEW c, Holding(c), loop # "none", current_process # NoProcess,
         NEW q, q = IF loop = "move" THEN "waiting" ELSE queue
  PROVE  \E i \in DOMAIN c[q] :
           /\ q \in Queues
           /\ current_process = c[q][i]
           /\ previous_process = IF i = 1 THEN NoProcess ELSE c[q][i - 1]
           /\ next_process[current_process] = IF i = Len(c[q]) THEN NoProcess ELSE c[q][i + 1]
           /\ \A j \in 1 .. i - 1 :
                IF loop = "move" THEN c[q][j] \notin io_done ELSE PidOf[c[q][j]] # process_id
<1>1. q \in Queues
  BY DEF TypeOK, Queues
<1>2. /\ Len(c[q]) \in Nat /\ DOMAIN c[q] = 1 .. Len(c[q])
      /\ Spells(c[q], next_process, front_process[q], rear_process[q])
  BY <1>1, RepresentsFacts DEF Holding, Represents
<1>3. PICK k \in 0 .. Len(c[q]) :
        /\ previous_process = (IF k = 0 THEN NoProcess ELSE c[q][k])
        /\ current_process = (IF k = Len(c[q]) THEN NoProcess ELSE c[q][k + 1])
        /\ \A j \in 1 .. k :
             IF loop = "move" THEN c[q][j] \notin io_done ELSE PidOf[c[q][j]] # process_id
  BY DEF Holding, InPlace
<1>4. PICK i : i = k + 1
  OBVIOUS
<1>5. i \in 1 .. Len(c[q]) /\ i - 1 = k /\ (k = 0 <=> i = 1)
  BY <1>2, <1>3, <1>4
<1>6. next_process[c[q][i]] = IF i = Len(c[q]) THEN NoProcess ELSE c[q][i + 1]
  BY <1>2, <1>5 DEF Spells
<1>7. current_process = c[q][i]
  BY <1>3, <1>4
<1> QED
  BY <1>1, <1>2, <1>3, <1>5, <1>6, <1>7

LEMMA IdleSteps ==
  ASSUME TypeOK, NEW c, Holding(c),
         \/ \E q \in Queues : \/ \E p \in Processes : enqueue(q, p)
                              \/ dequeue(q)
         \/ LoopEnds
         \/ UNCHANGED vars
  PROVE  TypeOK' /\ \E d : Stepped(c, d)
<1>1. Represents(c, next_process, front_process, rear_process)
  BY DEF Holding
<1>2. /\ next_process \in [Processes -> Pointers]
      /\ front_process \in [Queues -> Pointers] /\ rear_process \in [Queues -> Pointers]
  BY DEF TypeOK
<1>3. ASSUME NEW q \in Queues, NEW p \in Processes, enqueue(q, p)
      PROVE  TypeOK' /\ \E d : Stepped(c, d)
  <2>1. /\ \A r \in Queues : \A i \in DOMAIN c[r] : c[r][i] # p
        /\ Appended(q, p, next_process, front_process, rear_process)
        /\ loop = "none" /\ loop' = loop
    BY <1>3, HeldFacts DEF enqueue, locals
  <2> DEFINE d == [c EXCEPT ![q] = Append(@, p)]
  <2>2. Represents(d, next_process', front_process', rear_process')
    BY <1>1, <1>2, <2>1, EnqueueSpells DEF Appended
  <2>3. FifoStep(c, d)
    BY <2>1 DEF FifoStep, IdleStep
  <2>4. TypeOK'
    BY <1>2, <1>3, <2>1 DEF enqueue, locals, Appended, TypeOK, Pointers
  <2> HIDE DEF d
  <2>5. Stepped(c, d)
    BY <2>1, <2>2, <2>3 DEF Stepped, InPlace
  <2> QED
    BY <2>4, <2>5
<1>4. ASSUME NEW q \in Queues, dequeue(q)
      PROVE  TypeOK' /\ \E d : Stepped(c, d)
  <2>1. loop = "none" /\ loop' = loop /\ front_process[q] # NoProcess
    BY <1>4 DEF dequeue, locals
  <2> DEFINE d == [c EXCEPT ![q] = Tail(@)]
  <2>2. c[q] # <<>> /\ Represents(d, next_process', front_process', rear_process')
    <3>1. c[q] # <<>> /\ Represents(d, next_process, front_process', rear_process')
      BY <1>1, <1>2, <1>4, DequeueSpells DEF dequeue
    <3> QED
      BY <1>4, <3>1 DEF dequeue
  <2>3. FifoStep(c, d)
    BY <2>1, <2>2 DEF FifoStep, IdleStep
  <2>4. TypeOK'
    <3>1. front_process[q] \in Processes /\ NoProcess \in Pointers
      BY <1>2, <2>1 DEF Pointers
    <3> QED
      BY <1>2, <1>4, <3>1 DEF dequeue, locals, TypeOK
  <2> HIDE DEF d
  <2>5. Stepped(c, d)
    BY <2>1, <2>2, <2>3 DEF Stepped, InPlace
  <2> QED
    BY <2>4, <2>5
<1>5. CASE LoopEnds
  <2>1. TypeOK'
    BY <1>5 DEF LoopEnds, Return, lists, TypeOK, Queues, Pointers
  <2>2. PICK q : q = IF loop = "move" THEN "waiting" ELSE queue
    OBVIOUS
  <2>3. PICK i \in 0 .. Len(c[q]) :
          /\ current_process = (IF i = Len(c[q]) THEN NoProcess ELSE c[q][i + 1])
          /\ \A j \in 1 .. i :
               IF loop = "move" THEN c[q][j] \notin io_done ELSE PidOf[c[q][j]] # process_id
    BY <1>5, <2>2 DEF LoopEnds, Holding, InPlace
  <2>4. DOMAIN c[q] = 1 .. i
    <3>1. /\ Len(c[q]) \in Nat /\ DOMAIN c[q] = 1 .. Len(c[q])
          /\ \A j \in 1 .. Len(c[q]) : c[q][j] # NoProcess
      BY <1>1, <2>2, RepresentsFacts DEF TypeOK, Queues
    <3>2. i = Len(c[q])
      BY <1>5, <2>3, <3>1 DEF LoopEnds
    <3> QED
      BY <3>1, <3>2
  <2>5. EndStep(c, c)
    BY <1>5, <2>2, <2>3, <2>4 DEF LoopEnds, Return, EndStep, TypeOK
  <2>6. Stepped(c, c)
    BY <1>1, <1>5, <2>5 DEF LoopEnds, Return, lists, Stepped, InPlace, FifoStep
  <2> QED
    BY <2>1, <2>6
<1>6. CASE UNCHANGED vars
  <2>1. TypeOK'
    BY <1>6 DEF vars, lists, locals, TypeOK
  <2>2. Stepped(c, c)
    BY <1>1, <1>6 DEF vars, lists, locals, Stepped, Holding, FifoStep, PassStep
  <2> QED
    BY <2>1, <2>2
<1> QED
  BY <1>3, <1>4, <1>5, <1>6

LEMMA LoopStarts ==
  ASSUME TypeOK, NEW c, Holding(c),
         \/ \E q \in Queues : \E p \in Processes : remove_from_queue_by_pid(q, PidOf[p])
         \/ \E done \in SUBSET ToSet(Linked("waiting")) : move_completed_io_to_ready(done)
  PROVE  TypeOK' /\ \E d : Stepped(c, d)
<1>1. /\ Represents(c, next_process, front_process, rear_process)
      /\ \A q \in Queues : Spells(c[q], next_process, front_process[q], rear_process[q])
      /\ c \in [Queues -> Seq(Processes)]
  BY DEF Holding, Represents
<1>2. ASSUME NEW q \in Queues
      PROVE  /\ Len(c[q]) \in Nat /\ front_process[q] \in Pointers /\ NoProcess \in Pointers
             /\ \E i \in 0 .. Len(c[q]) :
                  /\ NoProcess = (IF i = 0 THEN NoProcess ELSE c[q][i])
                  /\ front_process[q] = (IF i = Len(c[q]) THEN NoProcess ELSE c[q][i + 1])
                  /\ 1 .. i = {}
  <2>1. Len(c[q]) \in Nat /\ front_process[q] = (IF Len(c[q]) = 0 THEN NoProcess ELSE c[q][1])
    BY <1>1 DEF Spells
  <2>2. 0 \in 0 .. Len(c[q]) /\ 1 .. 0 = {} /\ 0 + 1 = 1
    BY <2>1
  <2>3. front_process[q] = (IF 0 = Len(c[q]) THEN NoProcess ELSE c[q][0 + 1])
    BY <2>1, <2>2
  <2>4. front_process[q] \in Pointers /\ NoProcess \in Pointers
    BY DEF TypeOK, Pointers
  <2> QED
    BY <2>1, <2>2, <2>3, <2>4
<1>3. ASSUME NEW q \in Queues, NEW p \in Processes, remove_from_queue_by_pid(q, PidOf[p])
      PROVE  TypeOK' /\ \E d : Stepped(c, d)
  <2>1. TypeOK'
    <3>1. PidOf[p] \in Int /\ front_process[q] \in Pointers /\ NoProcess \in Pointers
      BY <1>2, PointerAssumption
    <3> QED
      BY <1>3, <3>1 DEF remove_from_queue_by_pid, lists, TypeOK
  <2>2. Represents(c, next_process', front_process', rear_process')
    BY <1>1, <1>3 DEF remove_from_queue_by_pid, lists
  <2>3. InPlace(c, loop', queue', process_id', previous_process', current_process', io_done')
    <3>1. loop' = "remove" /\ queue' = q /\ previous_process' = NoProcess
          /\ current_process' = front_process[q]
      BY <1>3 DEF remove_from_queue_by_pid
    <3>2. PICK i \in 0 .. Len(c[q]) :
                  /\ NoProcess = (IF i = 0 THEN NoProcess ELSE c[q][i])
                  /\ front_process[q] = (IF i = Len(c[q]) THEN NoProcess ELSE c[q][i + 1])
                  /\ 1 .. i = {}
      BY <1>2
    <3> QED
      BY <3>1, <3>2 DEF InPlace
  <2>4. FifoStep(c, c)
    BY <1>3 DEF remove_from_queue_by_pid, FifoStep, StartStep
  <2> QED
    BY <2>1, <2>2, <2>3, <2>4 DEF Stepped
<1>4. ASSUME NEW done \in SUBSET ToSet(Linked("waiting")), move_completed_io_to_ready(done)
      PROVE  TypeOK' /\ \E d : Stepped(c, d)
  <2>0. "waiting" \in Queues
    BY DEF Queues
  <2>1. TypeOK'
    <3>1. done \subseteq Processes
      <4>1. Linked("waiting") \in Seq(Processes)
        BY <1>1, <2>0, HeldFacts
      <4> QED
        BY <4>1 DEF ToSet
    <3>2. front_process["waiting"] \in Pointers /\ NoProcess \in Pointers
      BY <1>2, <2>0
    <3> QED
      BY <1>4, <3>1, <3>2 DEF move_completed_io_to_ready, lists, TypeOK
  <2>2. Represents(c, next_process', front_process', rear_process')
    BY <1>1, <1>4 DEF move_completed_io_to_ready, lists
  <2>3. InPlace(c, loop', queue', process_id', previous_process', current_process', io_done')
    <3>1. loop' = "move" /\ previous_process' = NoProcess
          /\ current_process' = front_process["waiting"]
      BY <1>4 DEF move_completed_io_to_ready
    <3>2. PICK i \in 0 .. Len(c["waiting"]) :
                  /\ NoProcess = (IF i = 0 THEN NoProcess ELSE c["waiting"][i])
                  /\ front_process["waiting"] = (IF i = Len(c["waiting"]) THEN NoProcess ELSE c["waiting"][i + 1])
                  /\ 1 .. i = {}
      BY <1>2, <2>0
    <3> QED
      BY <3>1, <3>2 DEF InPlace
  <2>4. FifoStep(c, c)
    <3>1. Linked("waiting") = c["waiting"]
      BY <2>0, HeldFacts
    <3> QED
      BY <1>4, <3>1 DEF move_completed_io_to_ready, FifoStep, StartStep
  <2> QED
    BY <2>1, <2>2, <2>3, <2>4 DEF Stepped
<1> QED
  BY <1>3, <1>4

\* A loop passes a record that stays where it is.
LEMMA LoopPasses ==
  ASSUME TypeOK, NEW c, Holding(c), RemovePasses \/ StaysWaiting
  PROVE  TypeOK' /\ \E d : Stepped(c, d)
<1>1. PICK q : q = IF loop = "move" THEN "waiting" ELSE queue
  OBVIOUS
<1>2. /\ loop # "none" /\ current_process # NoProcess /\ current_process \in Processes
      /\ IF loop = "move" THEN current_process \notin io_done
         ELSE PidOf[current_process] # process_id
      /\ previous_process' = current_process
      /\ current_process' = next_process[current_process]
      /\ UNCHANGED <<lists, loop, queue, process_id, io_done>>
  BY DEF RemovePasses, StaysWaiting, TypeOK, Pointers
<1>3. PICK i \in DOMAIN c[q] :
           /\ q \in Queues
           /\ current_process = c[q][i]
           /\ previous_process = IF i = 1 THEN NoProcess ELSE c[q][i - 1]
           /\ next_process[current_process] = IF i = Len(c[q]) THEN NoProcess ELSE c[q][i + 1]
           /\ \A j \in 1 .. i - 1 :
                IF loop = "move" THEN c[q][j] \notin io_done ELSE PidOf[c[q][j]] # process_id
  BY <1>1, <1>2, LoopFacts
<1>4. TypeOK'
  <2>1. next_process[current_process] \in Pointers /\ current_process \in Pointers
    BY <1>2 DEF TypeOK, Pointers
  <2> QED
    BY <1>2, <2>1 DEF lists, TypeOK
<1>5. Represents(c, next_process', front_process', rear_process')
  BY <1>2 DEF lists, Holding
<1>6. i \in 1 .. Len(c[q]) /\ Len(c[q]) \in Nat
  BY <1>3, RepresentsFacts DEF Holding
<1>7. i \in 0 .. Len(c[q]) /\ i # 0 /\ \A j \in 1 .. i : j = i \/ j \in 1 .. i - 1
  BY <1>6
<1>8. \A j \in 1 .. i :
        IF loop = "move" THEN c[q][j] \notin io_done ELSE PidOf[c[q][j]] # process_id
  BY <1>2, <1>3, <1>7
<1>9. InPlace(c, loop', queue', process_id', previous_process', current_process', io_done')
  <2>1. /\ loop' = loop /\ queue' = queue /\ process_id' = process_id /\ io_done' = io_done
        /\ previous_process' = c[q][i]
        /\ current_process' = IF i = Len(c[q]) THEN NoProcess ELSE c[q][i + 1]
    BY <1>2, <1>3
  <2>2. previous_process' = IF i = 0 THEN NoProcess ELSE c[q][i]
    BY <1>7, <2>1
  <2> QED
    BY <1>1, <1>7, <1>8, <2>1, <2>2 DEF InPlace
<1>10. FifoStep(c, c)
  BY <1>2 DEF FifoStep, PassStep
<1> QED
  BY <1>4, <1>5, <1>9, <1>10 DEF Stepped

\* A record that was unlinked is in no queue any more.
LEMMA UnlinkedIsNowhere ==
  ASSUME NEW c, NEW next, NEW front, NEW rear, Represents(c, next, front, rear),
         NEW q \in Queues, NEW i \in DOMAIN c[q],
         NEW d, d[q] = RemoveAt(c[q], i), \A r \in Queues : r # q => d[r] = c[r]
  PROVE  \A r \in Queues : \A j \in DOMAIN d[r] : d[r][j] # c[q][i]
<1>1. c \in [Queues -> Seq(Processes)] /\ Apart(c)
  BY DEF Represents
<1>2. d[q] = RemoveAt(c[q], i) /\ \A r \in Queues : r # q => d[r] = c[r]
  OBVIOUS
<1>3. c[q] \in Seq(Processes) /\ IsInjective(c[q])
  BY RepresentsFacts
<1>4. ToSet(RemoveAt(c[q], i)) = ToSet(c[q]) \ {c[q][i]}
  BY <1>3, RemoveAtFacts
<1>5. \A j \in DOMAIN d[q] : d[q][j] # c[q][i]
  BY <1>2, <1>4 DEF ToSet
<1>6. ASSUME NEW r \in Queues, r # q, NEW j \in DOMAIN d[r] PROVE d[r][j] # c[q][i]
  <2>1. j \in DOMAIN c[r] /\ d[r][j] = c[r][j]
    BY <1>2, <1>6
  <2> QED
    BY <1>1, <1>6, <2>1 DEF Apart
<1> QED
  BY <1>2, <1>5, <1>6

\* What either loop takes out of its queue.
LEMMA LoopUnlinks ==
  ASSUME TypeOK, NEW c, Holding(c), loop # "none", current_process # NoProcess,
         NEW q, q = IF loop = "move" THEN "waiting" ELSE queue,
         NEW i \in DOMAIN c[q], q \in Queues,
         current_process = c[q][i],
         previous_process = IF i = 1 THEN NoProcess ELSE c[q][i - 1]
  PROVE  /\ Represents([c EXCEPT ![q] = RemoveAt(@, i)], Unlinked(q), FrontWithout(q), RearWithout(q))
         /\ Unlinked(q) \in [Processes -> Pointers]
         /\ FrontWithout(q) \in [Queues -> Pointers]
         /\ RearWithout(q) \in [Queues -> Pointers]
<1>1. /\ next_process \in [Processes -> Pointers]
      /\ front_process \in [Queues -> Pointers] /\ rear_process \in [Queues -> Pointers]
      /\ current_process \in Processes /\ previous_process \in Pointers
      /\ next_process[current_process] \in Pointers
  BY DEF TypeOK, Pointers
<1>2. Represents(c, next_process, front_process, rear_process)
  BY DEF Holding
<1>3. PICK n, f, r, v :
        n = Unlinked(q) /\ f = FrontWithout(q) /\ r = RearWithout(q) /\ v = previous_process
  OBVIOUS
<1>4. PICK d : d = [c EXCEPT ![q] = RemoveAt(@, i)]
  OBVIOUS
<1>5. Unlinked(q) \in [Processes -> Pointers]
      /\ \A x \in Processes :
           Unlinked(q)[x] = IF x = previous_process THEN next_process[c[q][i]] ELSE next_process[x]
  BY <1>1, PointerAssumption DEF Unlinked
<1>6. FrontWithout(q) \in [Queues -> Pointers]
      /\ FrontWithout(q)[q] = (IF previous_process = NoProcess THEN next_process[c[q][i]] ELSE front_process[q])
      /\ \A u \in Queues : u # q => FrontWithout(q)[u] = front_process[u]
  BY <1>1 DEF FrontWithout
<1>7. RearWithout(q) \in [Queues -> Pointers]
      /\ RearWithout(q)[q] = (IF c[q][i] = rear_process[q] THEN previous_process ELSE rear_process[q])
      /\ \A u \in Queues : u # q => RearWithout(q)[u] = rear_process[u]
  BY <1>1 DEF RearWithout
<1>8. d \in [Queues -> Seq(Processes)] /\ d[q] = RemoveAt(c[q], i)
      /\ \A u \in Queues : u # q => d[u] = c[u]
  <2>1. c \in [Queues -> Seq(Processes)]
    BY <1>2 DEF Represents
  <2>2. RemoveAt(c[q], i) \in Seq(Processes)
    BY <2>1, RemoveAtElements
  <2> QED
    BY <1>4, <2>1, <2>2
<1>9. v = IF i = 1 THEN NoProcess ELSE c[q][i - 1]
  BY <1>3
<1>10. /\ \A x \in Processes : n[x] = IF x = v THEN next_process[c[q][i]] ELSE next_process[x]
       /\ f[q] = (IF v = NoProcess THEN next_process[c[q][i]] ELSE front_process[q])
       /\ \A u \in Queues : u # q => f[u] = front_process[u]
       /\ r[q] = (IF c[q][i] = rear_process[q] THEN v ELSE rear_process[q])
       /\ \A u \in Queues : u # q => r[u] = rear_process[u]
  BY <1>3, <1>5, <1>6, <1>7
<1>11. Represents(d, n, f, r)
  <2>1. Without(c, next_process, front_process, rear_process, q, i, v, d, n, f, r)
    BY <1>8, <1>9, <1>10 DEF Without
  <2> QED
    BY <1>2, <2>1, UnlinkSpells
<1> QED
  BY <1>3, <1>4, <1>5, <1>6, <1>7, <1>11

LEMMA FoundLeaves ==
  ASSUME TypeOK, NEW c, Holding(c), RemoveFound
  PROVE  TypeOK' /\ \E d : Stepped(c, d)
<1>1. /\ loop = "remove" /\ current_process # NoProcess /\ current_process \in Processes
      /\ next_process' = [Unlinked(queue) EXCEPT ![current_process] = NoProcess]
      /\ front_process' = FrontWithout(queue) /\ rear_process' = RearWithout(queue)
      /\ Return
  BY DEF RemoveFound, TypeOK, Pointers
<1>2. PICK q : q = queue
  OBVIOUS
<1>3. PICK i \in DOMAIN c[q] :
           /\ q \in Queues
           /\ current_process = c[q][i]
           /\ previous_process = IF i = 1 THEN NoProcess ELSE c[q][i - 1]
           /\ \A j \in 1 .. i - 1 : PidOf[c[q][j]] # process_id
  <2>1. q = IF loop = "move" THEN "waiting" ELSE queue
    BY <1>1, <1>2
  <2> QED
    BY <1>1, <2>1, LoopFacts
<1>4. PICK d : d = [c EXCEPT ![q] = RemoveAt(@, i)]
  OBVIOUS
<1>a. d[q] = RemoveAt(c[q], i) /\ \A u \in Queues : u # q => d[u] = c[u]
  BY <1>3, <1>4 DEF Holding, Represents
<1>5. /\ Represents(d, Unlinked(q), FrontWithout(q), RearWithout(q))
      /\ Unlinked(q) \in [Processes -> Pointers]
      /\ FrontWithout(q) \in [Queues -> Pointers]
      /\ RearWithout(q) \in [Queues -> Pointers]
  BY <1>1, <1>2, <1>3, <1>4, LoopUnlinks
<1>6. Represents(d, next_process', front_process', rear_process')
  <2>1. \A r \in Queues : \A j \in DOMAIN d[r] : d[r][j] # current_process
    <3>1. Represents(c, next_process, front_process, rear_process)
      BY DEF Holding
    <3>2. \A r \in Queues : \A j \in DOMAIN d[r] : d[r][j] # c[q][i]
      BY <1>3, <1>a, <3>1, UnlinkedIsNowhere
    <3> QED
      BY <1>3, <3>2
  <2>2. PICK n, f, r, p : n = Unlinked(q) /\ f = FrontWithout(q) /\ r = RearWithout(q) /\ p = current_process
    OBVIOUS
  <2>3. Represents(d, [n EXCEPT ![p] = NoProcess], f, r)
    BY <1>1, <1>5, <2>1, <2>2, OtherLinks
  <2> QED
    BY <1>1, <1>2, <2>2, <2>3
<1>7. TypeOK'
  <2>1. next_process' \in [Processes -> Pointers]
    BY <1>1, <1>2, <1>5 DEF Pointers
  <2> QED
    BY <1>1, <1>2, <1>5, <2>1 DEF Return, TypeOK, Queues, Pointers
<1>8. FifoStep(c, d)
  <2>1. PidOf[current_process] = process_id
    BY DEF RemoveFound
  <2> QED
    BY <1>1, <1>2, <1>3, <1>4, <2>1 DEF FifoStep, RemoveStep, Return
<1>9. InPlace(d, loop', queue', process_id', previous_process', current_process', io_done')
  BY <1>1 DEF Return, InPlace
<1> QED
  BY <1>6, <1>7, <1>8, <1>9 DEF Stepped

LEMMA MovedGoesToReady ==
  ASSUME TypeOK, NEW c, Holding(c), MoveToReady
  PROVE  TypeOK' /\ \E d : Stepped(c, d)
<1>0. "waiting" \in Queues /\ "ready" \in Queues /\ "ready" # "waiting"
  BY DEF Queues
<1>1. /\ loop = "move" /\ current_process \in io_done /\ current_process \in Processes
      /\ current_process # NoProcess
      /\ Appended("ready", current_process, Unlinked("waiting"), FrontWithout("waiting"),
                  RearWithout("waiting"))
      /\ current_process' = next_process[current_process]
      /\ UNCHANGED <<loop, queue, process_id, previous_process, io_done>>
  BY PointerAssumption DEF MoveToReady, TypeOK
<1>2. PICK w, p : w = "waiting" /\ p = current_process
  OBVIOUS
<1>3. PICK i \in DOMAIN c[w] :
           /\ current_process = c[w][i]
           /\ previous_process = IF i = 1 THEN NoProcess ELSE c[w][i - 1]
           /\ next_process[current_process] = IF i = Len(c[w]) THEN NoProcess ELSE c[w][i + 1]
           /\ \A j \in 1 .. i - 1 : c[w][j] \notin io_done
  <2>1. w = IF loop = "move" THEN "waiting" ELSE queue
    BY <1>1, <1>2
  <2> QED
    BY <1>1, <2>1, LoopFacts
<1>4. PICK e : e = [c EXCEPT ![w] = RemoveAt(@, i)]
  OBVIOUS
<1>5. PICK n, f, r : n = Unlinked(w) /\ f = FrontWithout(w) /\ r = RearWithout(w)
  OBVIOUS
<1>a. e[w] = RemoveAt(c[w], i) /\ \A q \in Queues : q # w => e[q] = c[q]
  BY <1>0, <1>2, <1>3, <1>4 DEF Holding, Represents
<1>6. /\ Represents(e, n, f, r)
      /\ n \in [Processes -> Pointers] /\ f \in [Queues -> Pointers] /\ r \in [Queues -> Pointers]
  BY <1>0, <1>1, <1>2, <1>3, <1>4, <1>5, LoopUnlinks
<1>7. /\ \A q \in Queues : \A j \in DOMAIN e[q] : e[q][j] # p
      /\ e[w] = RemoveAt(c[w], i) /\ e["ready"] = c["ready"]
  <2>1. Represents(c, next_process, front_process, rear_process)
    BY DEF Holding
  <2>2. w \in Queues
    BY <1>0, <1>2
  <2>3. \A q \in Queues : \A j \in DOMAIN e[q] : e[q][j] # c[w][i]
    BY <1>a, <2>1, <2>2, UnlinkedIsNowhere
  <2> QED
    BY <1>0, <1>2, <1>3, <1>a, <2>3
<1>8. PICK d : d = [e EXCEPT !["ready"] = Append(@, p)]
  OBVIOUS
<1>9. Represents(d, next_process', front_process', rear_process')
  <2>1. p \in Processes /\ Appended("ready", p, n, f, r)
    BY <1>1, <1>2, <1>5
  <2> QED
    BY <1>0, <1>6, <1>7, <1>8, <2>1, EnqueueSpells DEF Appended
<1>10. d = [c EXCEPT !["waiting"] = RemoveAt(@, i), !["ready"] = Append(@, c["waiting"][i])]
  BY <1>0, <1>2, <1>3, <1>4, <1>8
<1>11. FifoStep(c, d)
  BY <1>1, <1>2, <1>3, <1>10 DEF FifoStep, MoveStep
<1>12. TypeOK'
  <2>1. next_process[current_process] \in Pointers
    BY <1>1 DEF TypeOK
  <2>2. Appended("ready", p, n, f, r)
    BY <1>1, <1>2, <1>5
  <2>3. p \in Pointers /\ p \in Processes /\ NoProcess \in Pointers
    BY <1>1, <1>2 DEF Pointers
  <2>4. /\ next_process' \in [Processes -> Pointers]
        /\ front_process' \in [Queues -> Pointers] /\ rear_process' \in [Queues -> Pointers]
    BY <1>6, <2>2, <2>3 DEF Appended
  <2> QED
    BY <1>1, <2>1, <2>4 DEF TypeOK
<1>13. /\ Len(c[w]) \in Nat /\ i \in 1 .. Len(c[w]) /\ c[w] \in Seq(Processes)
       /\ Len(d[w]) = Len(c[w]) - 1
       /\ \A j \in 1 .. Len(c[w]) - 1 : d[w][j] = IF j < i THEN c[w][j] ELSE c[w][j + 1]
  <2>1. c[w] \in Seq(Processes) /\ Len(c[w]) \in Nat /\ i \in 1 .. Len(c[w])
    BY <1>0, <1>2, <1>3, RepresentsFacts DEF Holding
  <2>2. d[w] = RemoveAt(c[w], i)
    BY <1>0, <1>2, <1>7, <1>8
  <2> QED
    BY <1>3, <2>1, <2>2, RemoveAtElements
<1>14. InPlace(d, loop', queue', process_id', previous_process', current_process', io_done')
  <2>1. PICK k : k = i - 1
    OBVIOUS
  <2>2. k \in 0 .. Len(d[w]) /\ (k = 0 <=> i = 1) /\ k \in Int
        /\ \A j \in 1 .. k : j < i /\ j \in 1 .. Len(c[w]) - 1
    BY <1>13, <2>1
  <2>3. \A j \in 1 .. k : d[w][j] = c[w][j]
    BY <1>13, <2>2
  <2>4. previous_process' = IF k = 0 THEN NoProcess ELSE d[w][k]
    <3>1. previous_process' = IF k = 0 THEN NoProcess ELSE c[w][k]
      BY <1>1, <1>3, <2>1, <2>2
    <3>2. k # 0 => k \in 1 .. k
      BY <2>2
    <3> QED
      BY <2>3, <3>1, <3>2
  <2>5. current_process' = IF k = Len(d[w]) THEN NoProcess ELSE d[w][k + 1]
    <3>1. current_process' = IF i = Len(c[w]) THEN NoProcess ELSE c[w][i + 1]
      BY <1>1, <1>3
    <3>2. k = Len(d[w]) <=> i = Len(c[w])
      BY <1>13, <2>1
    <3>3. i # Len(c[w]) => i \in 1 .. Len(c[w]) - 1 /\ ~(i < i) /\ k + 1 = i
      BY <1>13, <2>1
    <3>4. i # Len(c[w]) => d[w][k + 1] = c[w][i + 1]
      BY <1>13, <3>3
    <3> QED
      BY <3>1, <3>2, <3>4
  <2>6. \A j \in 1 .. k : d[w][j] \notin io_done
    BY <1>3, <2>1, <2>3
  <2>7. loop' = "move" /\ io_done' = io_done
    BY <1>1
  <2> QED
    BY <1>2, <2>2, <2>4, <2>5, <2>6, <2>7 DEF InPlace
<1> QED
  BY <1>9, <1>11, <1>12, <1>14 DEF Stepped

LEMMA StepHolds ==
  ASSUME TypeOK, NEW c, Holding(c), [Next]_vars
  PROVE  TypeOK' /\ \E d : Stepped(c, d)
<1>1. CASE \E q \in Queues : \/ \E p \in Processes : enqueue(q, p)
                             \/ dequeue(q)
  BY <1>1, IdleSteps
<1>2. CASE LoopEnds \/ UNCHANGED vars
  BY <1>2, IdleSteps
<1>3. CASE \/ \E q \in Queues : \E p \in Processes : remove_from_queue_by_pid(q, PidOf[p])
           \/ \E done \in SUBSET ToSet(Linked("waiting")) : move_completed_io_to_ready(done)
  BY <1>3, LoopStarts
<1>4. CASE RemovePasses \/ StaysWaiting
  BY <1>4, LoopPasses
<1>5. CASE RemoveFound
  BY <1>5, FoundLeaves
<1>6. CASE MoveToReady
  BY <1>6, MovedGoesToReady
<1> QED
  BY <1>1, <1>2, <1>3, <1>4, <1>5, <1>6 DEF Next

LEMMA InitQueues == Init => QueueInv
<1> SUFFICES ASSUME Init PROVE QueueInv
  OBVIOUS
<1>1. TypeOK
  BY DEF Init, TypeOK, Pointers, Queues
<1> DEFINE c == [q \in Queues |-> <<>>]
<1>2. /\ c \in [Queues -> Seq(Processes)]
      /\ \A q \in Queues : c[q] = <<>> /\ Len(c[q]) = 0 /\ DOMAIN c[q] = {}
  OBVIOUS
<1> HIDE DEF c
<1>3. Represents(c, next_process, front_process, rear_process)
  BY <1>2 DEF Init, Represents, Apart, Spells
<1>4. Holding(c)
  BY <1>3 DEF Holding, InPlace, Init
<1> QED
  BY <1>1, <1>4 DEF QueueInv

LEMMA NextQueues == QueueInv /\ [Next]_vars => QueueInv'
<1> SUFFICES ASSUME QueueInv, [Next]_vars PROVE QueueInv'
  OBVIOUS
<1>1. PICK c : Holding(c)
  BY DEF QueueInv
<1>2. TypeOK' /\ \E d : Stepped(c, d)
  BY <1>1, StepHolds DEF QueueInv
<1>3. PICK d : Stepped(c, d)
  BY <1>2
<1>4. Holding(d)'
  BY <1>3 DEF Stepped, Holding
<1> QED
  BY <1>2, <1>4 DEF QueueInv

LEMMA SoundPointers == QueueInv => PointersOK
<1> SUFFICES ASSUME QueueInv PROVE PointersOK
  OBVIOUS
<1>1. PICK c : Holding(c)
  BY DEF QueueInv
<1>2. /\ c \in [Queues -> Seq(Processes)] /\ Apart(c)
      /\ \A q \in Queues : Spells(c[q], next_process, front_process[q], rear_process[q])
  BY <1>1 DEF Holding, Represents
<1>3. \A q \in Queues : Linked(q) = c[q]
  BY <1>1, HeldFacts
<1>4. WellLinked
  <2>1. ASSUME NEW q \in Queues
        PROVE  /\ rear_process[q] = (IF Linked(q) = <<>> THEN NoProcess ELSE Last(Linked(q)))
               /\ rear_process[q] # NoProcess => next_process[rear_process[q]] = NoProcess
    <3>1. /\ Len(c[q]) \in Nat /\ DOMAIN c[q] = 1 .. Len(c[q]) /\ c[q] \in Seq(Processes)
      BY <1>2
    <3>2. c[q] = <<>> <=> Len(c[q]) = 0
      BY <3>1, EmptySeq
    <3>3. rear_process[q] = IF Len(c[q]) = 0 THEN NoProcess ELSE c[q][Len(c[q])]
      BY <1>2 DEF Spells
    <3>4. Len(c[q]) # 0 => Len(c[q]) \in DOMAIN c[q]
      BY <3>1
    <3>5. Len(c[q]) # 0 => next_process[c[q][Len(c[q])]] = NoProcess
      BY <1>2, <3>4 DEF Spells
    <3> QED
      BY <1>3, <3>2, <3>3, <3>5 DEF Last
  <2>2. \A q, r \in Queues : \A i \in DOMAIN Linked(q), j \in DOMAIN Linked(r) :
          Linked(q)[i] = Linked(r)[j] => q = r /\ i = j
    BY <1>2, <1>3 DEF Apart
  <2> QED
    BY <2>1, <2>2 DEF WellLinked
<1>5. LoopInPlace
  <2>1. PICK q : q = IF loop = "move" THEN "waiting" ELSE queue
    OBVIOUS
  <2>2. q \in Queues /\ Linked(q) = c[q]
    BY <1>3, <2>1 DEF QueueInv, TypeOK, Queues
  <2> QED
    BY <1>1, <2>1, <2>2 DEF Holding, InPlace, LoopInPlace
<1> QED
  BY <1>4, <1>5 DEF PointersOK, QueueInv

\* Through every iteration of remove_from_queue_by_pid and
\* move_completed_io_to_ready the links of every queue end, its rear is its last
\* record, no record is in two queues, and the loop stands where it should: for
\* any finite set of records, also when several have the same pid.
THEOREM PointersCorrect == Spec => []PointersOK
  BY InitQueues, NextQueues, SoundPointers, PTL DEF Spec

\* The calls that the loops stand for are different ones.
LEMMA CallFacts ==
  /\ loop = "none" => Call = Fifo!NoCall
  /\ loop = "remove" => Call = Fifo!Removal(queue, process_id)
  /\ loop = "move" => Call = Fifo!WakeUp(io_done \cap ToSet(Linked("waiting")))
  BY DEF Call, Fifo!NoCall, Fifo!Removal, Fifo!WakeUp

LEMMA StepIsFifo ==
  ASSUME QueueInv, [Next]_vars
  PROVE  [Fifo!Next]_(<<[q \in Queues |-> Linked(q)], Call>>)
<1>1. PICK c : Holding(c)
  BY DEF QueueInv
<1>2. PICK d : Stepped(c, d)
  BY <1>1, StepHolds DEF QueueInv
<1>3. c \in [Queues -> Seq(Processes)] /\ [q \in Queues |-> Linked(q)] = c
  BY <1>1, HeldFacts
<1>4. [q \in Queues |-> Linked(q)]' = d /\ \A q \in Queues : Linked(q)' = d[q]
  <2>1. Represents(d, next_process', front_process', rear_process')
    BY <1>2 DEF Stepped
  <2>2. d \in [Queues -> Seq(Processes)]
    BY <2>1 DEF Represents
  <2>3. ASSUME NEW q \in Queues PROVE Linked(q)' = d[q]
    <3>1. Linked(q)' = Met(next_process', front_process'[q])
      BY DEF Linked, Met, Walk, WalkStep
    <3> QED
      BY <2>1, <3>1, RepresentsFacts
  <2> QED
    BY <2>2, <2>3
<1>5. \A q \in Queues : Linked(q) = c[q]
  BY <1>1, HeldFacts
<1>6. /\ "waiting" \in Queues /\ "ready" \in Queues
      /\ queue \in Queues
  BY DEF QueueInv, TypeOK, Queues
<1>7. /\ \A s, i : Fifo!RemoveAt(s, i) = RemoveAt(s, i)
      /\ \A s : Fifo!ToSet(s) = ToSet(s)
  BY DEF Fifo!RemoveAt, RemoveAt, Fifo!ToSet, ToSet
<1>8. /\ loop = "none" => Call = Fifo!NoCall
      /\ loop = "remove" => Call = Fifo!Removal(queue, process_id)
      /\ loop = "move" => Call = Fifo!WakeUp(io_done \cap ToSet(c["waiting"]))
  BY <1>5, <1>6, CallFacts
<1>9. /\ loop' = "none" => Call' = Fifo!NoCall
      /\ loop' = "remove" => Call' = Fifo!Removal(queue', process_id')
      /\ loop' = "move" => Call' = Fifo!WakeUp(io_done' \cap ToSet(d["waiting"]))
  BY <1>4, <1>6 DEF Call, Fifo!NoCall, Fifo!Removal, Fifo!WakeUp
<1>10. CASE IdleStep(c, d)
  <2>1. Call = Fifo!NoCall /\ Call' = Call
    BY <1>8, <1>9, <1>10 DEF IdleStep
  <2>2. ASSUME NEW q \in Queues, c[q] # <<>>, d = [c EXCEPT ![q] = Tail(@)]
        PROVE  Fifo!Next
    <3>1. Fifo!Dequeue(q)
      BY <1>3, <1>4, <2>1, <2>2 DEF Fifo!Dequeue
    <3> QED
      BY <3>1 DEF Fifo!Next
  <2>3. ASSUME NEW q \in Queues, NEW p \in Processes,
               \A r \in Queues : \A i \in DOMAIN c[r] : c[r][i] # p,
               d = [c EXCEPT ![q] = Append(@, p)]
        PROVE  Fifo!Next
    <3>1. p \notin Fifo!Queued
      BY <1>3, <2>3 DEF Fifo!Queued, Fifo!ToSet
    <3>2. Fifo!Enqueue(q, p)
      BY <1>3, <1>4, <2>1, <2>3, <3>1 DEF Fifo!Enqueue
    <3> QED
      BY <3>2 DEF Fifo!Next
  <2> QED
    BY <1>10, <2>2, <2>3 DEF IdleStep
<1>11. CASE StartStep(c, d)
  <2>1. Call = Fifo!NoCall /\ d = c
    BY <1>8, <1>11 DEF StartStep
  <2>2. ASSUME loop' = "remove", queue' \in Queues, NEW p \in Processes, process_id' = PidOf[p]
        PROVE  Fifo!Next
    <3>1. Fifo!CallRemove(queue', PidOf[p])
      BY <1>3, <1>4, <1>9, <2>1, <2>2 DEF Fifo!CallRemove
    <3> QED
      BY <2>2, <3>1 DEF Fifo!Next
  <2>3. ASSUME loop' = "move", io_done' \subseteq ToSet(c["waiting"])
        PROVE  Fifo!Next
    <3>1. Call' = Fifo!WakeUp(io_done')
      <4>1. io_done' \cap ToSet(d["waiting"]) = io_done'
        BY <2>1, <2>3
      <4> QED
        BY <1>9, <2>3, <4>1
    <3>2. Fifo!CallWakeUp(io_done')
      BY <1>3, <1>4, <2>1, <3>1 DEF Fifo!CallWakeUp
    <3> QED
      BY <1>3, <1>7, <2>3, <3>2 DEF Fifo!Next
  <2> QED
    BY <1>11, <2>2, <2>3 DEF StartStep
<1>12. CASE PassStep(c, d)
  <2>1. Call' = Call
    BY <1>4, <1>5, <1>6, <1>12 DEF PassStep, Call
  <2> QED
    BY <1>3, <1>4, <1>12, <2>1 DEF PassStep
<1>13. CASE RemoveStep(c, d)
  <2>1. Call = Fifo!Removal(queue, process_id) /\ Call' = Fifo!NoCall
    BY <1>8, <1>9, <1>13 DEF RemoveStep
  <2>2. Call.op = "remove" /\ Call.queue = queue /\ Call.pid = process_id
    BY <2>1 DEF Fifo!Removal
  <2>3. PICK i \in DOMAIN c[queue] :
          /\ PidOf[c[queue][i]] = process_id
          /\ \A j \in 1 .. i - 1 : PidOf[c[queue][j]] # process_id
          /\ d = [c EXCEPT ![queue] = RemoveAt(@, i)]
    BY <1>13 DEF RemoveStep
  <2>4. Fifo!IsFirst(queue, i, Fifo!Under(process_id))
    <3>1. c[queue][i] \in Processes
      BY <1>3, <1>6
    <3> QED
      BY <1>3, <2>3, <3>1 DEF Fifo!IsFirst, Fifo!Under
  <2>5. Fifo!RemoveByPid
    <3>1. d = [c EXCEPT ![queue] = Fifo!RemoveAt(@, i)]
      BY <1>7, <2>3
    <3>2. \E j \in DOMAIN c[queue] :
            /\ Fifo!IsFirst(queue, j, Fifo!Under(process_id))
            /\ d = [c EXCEPT ![queue] = Fifo!RemoveAt(@, j)]
      BY <2>4, <3>1
    <3> QED
      BY <1>3, <1>4, <2>1, <2>2, <3>2 DEF Fifo!RemoveByPid
  <2> QED
    BY <2>5 DEF Fifo!Next
<1>14. CASE MoveStep(c, d)
  <2> PICK due : due = io_done \cap ToSet(c["waiting"])
    OBVIOUS
  <2>1. /\ Call = Fifo!WakeUp(due) /\ Call' = Fifo!WakeUp(io_done \cap ToSet(d["waiting"]))
        /\ Call.op = "wake" /\ Call.due = due
    <3>1. loop = "move" /\ loop' = "move" /\ io_done' = io_done
      BY <1>14 DEF MoveStep
    <3>2. io_done' \cap ToSet(d["waiting"]) = io_done \cap ToSet(d["waiting"])
      BY <3>1
    <3>3. Call = Fifo!WakeUp(due)
      BY <1>8, <3>1
    <3>4. Call' = Fifo!WakeUp(io_done \cap ToSet(d["waiting"]))
      BY <1>9, <3>1, <3>2, Zenon
    <3> QED
      BY <3>3, <3>4 DEF Fifo!WakeUp
  <2>2. PICK i \in DOMAIN c["waiting"] :
          /\ c["waiting"][i] \in io_done
          /\ \A j \in 1 .. i - 1 : c["waiting"][j] \notin io_done
          /\ d = [c EXCEPT !["waiting"] = RemoveAt(@, i), !["ready"] = Append(@, c["waiting"][i])]
    BY <1>14 DEF MoveStep
  <2>3. ToSet(d["waiting"]) = ToSet(c["waiting"]) \ {c["waiting"][i]}
    <3>1. c["waiting"] \in Seq(Processes) /\ IsInjective(c["waiting"])
      BY <1>1, <1>6, RepresentsFacts DEF Holding
    <3>2. d["waiting"] = RemoveAt(c["waiting"], i)
      BY <1>3, <1>6, <2>2
    <3> QED
      BY <2>2, <3>1, <3>2, RemoveAtFacts
  <2>4. Call' = Fifo!WakeUp(due \ {c["waiting"][i]})
    <3>1. io_done \cap ToSet(d["waiting"]) = due \ {c["waiting"][i]}
      BY <2>3
    <3> QED
      BY <2>1, <3>1
  <2>5. Fifo!IsFirst("waiting", i, due)
    <3>1. c["waiting"][i] \in due
      BY <2>2 DEF ToSet
    <3> QED
      BY <1>3, <2>2, <3>1 DEF Fifo!IsFirst
  <2>6. Fifo!WakeNext
    BY <1>3, <1>4, <1>7, <2>1, <2>2, <2>4, <2>5 DEF Fifo!WakeNext
  <2> QED
    BY <2>6 DEF Fifo!Next
<1>15. CASE EndStep(c, d)
  <2>1. Call' = Fifo!NoCall /\ d = c
    BY <1>9, <1>15 DEF EndStep
  <2>2. ASSUME loop = "remove", \A i \in DOMAIN c[queue] : PidOf[c[queue][i]] # process_id
        PROVE  Fifo!Next
    <3>1. Call.op = "remove" /\ Call.queue = queue /\ Call.pid = process_id
      BY <1>8, <2>2 DEF Fifo!Removal
    <3>2. ToSet(c[queue]) \cap Fifo!Under(process_id) = {}
      BY <2>2 DEF ToSet, Fifo!Under
    <3>3. Fifo!RemoveNobody
      BY <1>3, <1>4, <1>7, <2>1, <3>1, <3>2 DEF Fifo!RemoveNobody
    <3> QED
      BY <3>3 DEF Fifo!Next
  <2>3. ASSUME loop = "move", \A i \in DOMAIN c["waiting"] : c["waiting"][i] \notin io_done
        PROVE  Fifo!Next
    <3>1. io_done \cap ToSet(c["waiting"]) = {}
      BY <2>3 DEF ToSet
    <3>2. Call = Fifo!WakeUp({})
      BY <1>8, <2>3, <3>1
    <3>3. Fifo!EndWakeUp
      BY <1>3, <1>4, <2>1, <3>2 DEF Fifo!EndWakeUp
    <3> QED
      BY <3>3 DEF Fifo!Next
  <2> QED
    BY <1>15, <2>2, <2>3 DEF EndStep
<1> QED
  BY <1>2, <1>10, <1>11, <1>12, <1>13, <1>14, <1>15 DEF Stepped, FifoStep

\* The pointer code implements three first-in first-out queues: enqueue puts a
\* record behind all others, dequeue takes the one in front, a removal by pid
\* takes the first one under that pid or there is none, and a wake-up moves all
\* records whose I/O is over to the end of ready, one by one, in the order in
\* which they wait, and ends when none of them waits any more.
THEOREM PointersImplementQueues == Spec => RefinesFifo
<1>1. Init => Fifo!Init
  <2> SUFFICES ASSUME Init PROVE Fifo!Init
    OBVIOUS
  <2>1. PICK c : Holding(c)
    BY InitQueues DEF QueueInv
  <2>2. \A q \in Queues : c[q] = <<>>
    <3> TAKE q \in Queues
    <3>1. c[q] \in Seq(Processes) /\ Spells(c[q], next_process, front_process[q], rear_process[q])
          /\ front_process[q] = NoProcess
      BY <2>1 DEF Holding, Represents, Init
    <3>2. Len(c[q]) = 0
      BY <3>1, PointerAssumption DEF Spells
    <3> QED
      BY <3>1, <3>2, EmptySeq
  <2>3. \A q \in Queues : Linked(q) = c[q]
    BY <2>1, HeldFacts
  <2>4. Call = Fifo!NoCall
    BY CallFacts DEF Init
  <2> QED
    BY <2>2, <2>3, <2>4 DEF Fifo!Init
<1>2. QueueInv /\ [Next]_vars => [Fifo!Next]_(<<[q \in Queues |-> Linked(q)], Call>>)
  BY StepIsFifo
<1> QED
  BY <1>1, <1>2, InitQueues, NextQueues, PTL DEF Spec, RefinesFifo, Fifo!Spec, Fifo!vars

-----------------------------------------------------------------------------
(* The list of LruCache.                                                   *)

Lists ==
  [head : NodePointers, tail : NodePointers,
   previous : [Nodes -> NodePointers], next : [Nodes -> NodePointers]]

\* The nodes c hang in the list l, in that order.
Hung(c, l) ==
  /\ c \in Seq(Nodes) /\ IsInjective(c) /\ l \in Lists
  /\ l.head = (IF Len(c) = 0 THEN NULL ELSE c[1])
  /\ l.tail = (IF Len(c) = 0 THEN NULL ELSE c[Len(c)])
  /\ \A i \in 1 .. Len(c) :
       /\ l.next[c[i]] = (IF i = Len(c) THEN NULL ELSE c[i + 1])
       /\ l.previous[c[i]] = (IF i = 1 THEN NULL ELSE c[i - 1])

\* A list of different nodes is no longer than there are nodes.
LEMMA NodesFit ==
  ASSUME NEW s \in Seq(Nodes), IsInjective(s)
  PROVE  Cardinality(Nodes) \in Nat /\ Len(s) <= Cardinality(Nodes)
<1>1. Len(s) \in Nat /\ s \in [1 .. Len(s) -> Nodes] /\ DOMAIN s = 1 .. Len(s)
  OBVIOUS
<1>2. IsFiniteSet(Nodes) /\ IsFiniteSet(1 .. Len(s)) /\ Cardinality(1 .. Len(s)) = Len(s)
  BY <1>1, IntervalFacts, CacheAssumption
<1>3. s \in Injection(1 .. Len(s), Nodes)
  BY <1>1, InjectionByElements DEF IsInjective
<1> QED
  BY <1>2, <1>3, FS_Injection, FS_CardinalityType

\* From start, the links lead through s to its end.
Leads(start, links, s) ==
  /\ start = (IF Len(s) = 0 THEN NULL ELSE s[1])
  /\ \A i \in 1 .. Len(s) : links[s[i]] = (IF i = Len(s) THEN NULL ELSE s[i + 1])

\* A walk that the links lead through s meets just that, and ends in time.
LEMMA FollowSpelt ==
  ASSUME NEW s \in Seq(Nodes), IsInjective(s), NEW start, NEW links, Leads(start, links, s)
  PROVE  Follow(start, links) = s
<1> PICK C : C = Cardinality(Nodes)
  OBVIOUS
<1> DEFINE after == [p \in NodePointers |-> IF p = NULL THEN NULL ELSE links[p]]
           w == CHOOSE f : f = [n \in 1 .. C + 1 |-> IF n = 1 THEN start ELSE after[f[n - 1]]]
           e == [n \in 1 .. C + 1 |-> IF n <= Len(s) THEN s[n] ELSE NULL]
           T == { n \in Nat : n + 1 \in 1 .. C + 1 => w[n + 1] = e[n + 1] }
<1>1. /\ Len(s) \in Nat /\ DOMAIN s = 1 .. Len(s) /\ C \in Nat /\ Len(s) <= C
      /\ \A n \in 1 .. Len(s) : s[n] \in Nodes /\ s[n] # NULL
  BY NodesFit, CacheAssumption
<1>2. after[NULL] = NULL /\ \A n \in 1 .. Len(s) : after[s[n]] = IF n = Len(s) THEN NULL ELSE s[n + 1]
  BY <1>1 DEF NodePointers, Leads
<1>3. Follow(start, links) = SubSeq([n \in DOMAIN w |-> w[n]], 1, Cardinality({ n \in DOMAIN w : w[n] # NULL }))
  BY DEF Follow
<1> HIDE DEF after, w, e, T
<1>4. \A n \in 1 .. C + 1 : e[n] = IF n <= Len(s) THEN s[n] ELSE NULL
  BY DEF e
<1>5. ASSUME NEW n \in 1 .. C + 1 PROVE e[n] = IF n = 1 THEN start ELSE after[e[n - 1]]
  <2>1. CASE n = 1
    <3>1. 1 \in 1 .. C + 1 /\ e[1] = IF 1 <= Len(s) THEN s[1] ELSE NULL
      BY <1>1, <1>4
    <3>2. 1 <= Len(s) <=> Len(s) # 0
      BY <1>1
    <3> QED
      BY <2>1, <3>1, <3>2 DEF Leads
  <2>2. CASE n # 1
    <3>1. n - 1 \in 1 .. C + 1 /\ n - 1 + 1 = n
      BY <1>1, <2>2
    <3>2. CASE n - 1 <= Len(s)
      <4>1. n - 1 \in 1 .. Len(s) /\ e[n - 1] = s[n - 1]
        BY <1>1, <1>4, <3>1, <3>2
      <4>2. after[s[n - 1]] = IF n - 1 = Len(s) THEN NULL ELSE s[n]
        BY <1>2, <3>1, <4>1
      <4>3. e[n] = IF n - 1 = Len(s) THEN NULL ELSE s[n]
        BY <1>1, <1>4, <3>1, <4>1
      <4> QED
        BY <2>2, <4>1, <4>2, <4>3
    <3>3. CASE ~(n - 1 <= Len(s))
      <4>1. e[n - 1] = NULL /\ e[n] = NULL
        BY <1>1, <1>4, <3>1, <3>3
      <4> QED
        BY <1>2, <2>2, <4>1
    <3> QED
      BY <3>2, <3>3
  <2> QED
    BY <2>1, <2>2
<1>6. e = [n \in 1 .. C + 1 |-> IF n = 1 THEN start ELSE after[e[n - 1]]]
  <2>1. e = [n \in 1 .. C + 1 |-> e[n]]
    BY DEF e
  <2> QED
    BY <1>5, <2>1
<1>7. w = [n \in 1 .. C + 1 |-> IF n = 1 THEN start ELSE after[w[n - 1]]]
  <2>1. \E g : g = [n \in 1 .. C + 1 |-> IF n = 1 THEN start ELSE after[g[n - 1]]]
    BY <1>6
  <2> QED
    BY <2>1 DEF w
<1>8. DOMAIN w = 1 .. C + 1 /\ \A n \in 1 .. C + 1 : w[n] = IF n = 1 THEN start ELSE after[w[n - 1]]
  BY <1>7
<1>9. 0 \in T
  <2>1. 1 \in 1 .. C + 1
    BY <1>1
  <2>2. w[1] = start /\ e[1] = start
    BY <2>1, <1>5, <1>8
  <2> QED
    BY <2>2 DEF T
<1>10. ASSUME NEW n \in Nat, n \in T PROVE n + 1 \in T
  <2> SUFFICES ASSUME n + 1 + 1 \in 1 .. C + 1 PROVE w[n + 1 + 1] = e[n + 1 + 1]
    BY DEF T
  <2>1. n + 1 \in 1 .. C + 1 /\ n + 1 + 1 # 1 /\ n + 1 + 1 - 1 = n + 1
    BY <1>1
  <2>2. w[n + 1] = e[n + 1]
    BY <1>10, <2>1 DEF T
  <2>3. PICK m : m = n + 1 + 1
    OBVIOUS
  <2>4. m \in 1 .. C + 1 /\ m # 1 /\ m - 1 = n + 1
    BY <2>1, <2>3
  <2>5. w[m] = after[w[m - 1]] /\ e[m] = after[e[m - 1]]
    BY <1>5, <1>8, <2>4
  <2> QED
    BY <2>2, <2>3, <2>4, <2>5
<1>11. Nat \subseteq T
  <2> QED
    BY <1>9, <1>10, InductionOnNat
<1>12. ASSUME NEW n \in 1 .. C + 1 PROVE w[n] = e[n]
  <2>1. n - 1 \in Nat /\ n - 1 + 1 = n
    BY <1>1
  <2>2. n - 1 \in T
    BY <1>11, <2>1
  <2> QED
    BY <2>1, <2>2 DEF T
<1>13. { n \in DOMAIN w : w[n] # NULL } = 1 .. Len(s)
  BY <1>1, <1>4, <1>8, <1>12
<1>14. Cardinality(1 .. Len(s)) = Len(s)
  BY <1>1, IntervalFacts
<1>15. SubSeq([n \in 1 .. C + 1 |-> w[n]], 1, Len(s)) = s
  <2> PICK x : x = [n \in 1 .. C + 1 |-> w[n]]
    OBVIOUS
  <2>1. \A n \in 1 .. Len(s) : n \in 1 .. C + 1
    BY <1>1
  <2>2. \A n \in 1 .. Len(s) : x[n] = s[n] /\ x[n] \in Nodes
    BY <1>1, <1>4, <1>12, <2>1
  <2>3. /\ 1 \in Int /\ Len(s) \in Int /\ (IF 1 <= Len(s) THEN Len(s) - 1 + 1 ELSE 0) = Len(s)
        /\ Len(s) - 1 + 1 = Len(s) /\ \A n \in 1 .. Len(s) : 1 + n - 1 = n
    BY <1>1
  <2>4. /\ SubSeq(x, 1, Len(s)) \in Seq(Nodes) /\ Len(SubSeq(x, 1, Len(s))) = Len(s)
        /\ \A n \in 1 .. Len(s) : SubSeq(x, 1, Len(s))[n] = s[n]
    BY <2>2, <2>3, SubSeqProperties
  <2>5. SubSeq(x, 1, Len(s)) = s
    <3> PICK y : y = SubSeq(x, 1, Len(s))
      OBVIOUS
    <3>1. y \in Seq(Nodes) /\ Len(y) = Len(s) /\ \A n \in 1 .. Len(s) : y[n] = s[n]
      BY <2>4
    <3>2. y = [n \in 1 .. Len(s) |-> y[n]] /\ s = [n \in 1 .. Len(s) |-> s[n]]
      BY <1>1, <3>1
    <3> QED
      BY <3>1, <3>2
  <2> QED
    BY <2>5
<1> QED
  BY <1>3, <1>8, <1>13, <1>14, <1>15

-----------------------------------------------------------------------------
\* What is known of the nodes of a list.
LEMMA HungFacts ==
  ASSUME NEW c, NEW l, Hung(c, l)
  PROVE  /\ c \in Seq(Nodes) /\ l \in Lists /\ Len(c) \in Nat /\ DOMAIN c = 1 .. Len(c)
         /\ \A i \in 1 .. Len(c) : c[i] \in Nodes /\ c[i] # NULL
         /\ \A i, j \in 1 .. Len(c) : c[i] = c[j] => i = j
<1>1. c \in Seq(Nodes) /\ l \in Lists /\ IsInjective(c)
  BY DEF Hung
<1>2. /\ Len(c) \in Nat /\ DOMAIN c = 1 .. Len(c)
      /\ \A i \in 1 .. Len(c) : c[i] \in Nodes
  BY <1>1
<1> QED
  BY <1>1, <1>2, CacheAssumption DEF IsInjective

\* What a walk from either end of the list meets.
LEMMA WalkHung ==
  ASSUME NEW c, NEW l, Hung(c, l)
  PROVE  Follow(l.head, l.next) = c /\ Follow(l.tail, l.previous) = Reverse(c)
<1>1. /\ c \in Seq(Nodes) /\ Len(c) \in Nat /\ DOMAIN c = 1 .. Len(c) /\ IsInjective(c)
      /\ \A i \in 1 .. Len(c) : c[i] \in Nodes
      /\ \A i, j \in 1 .. Len(c) : c[i] = c[j] => i = j
  BY HungFacts DEF Hung
<1>2. Leads(l.head, l.next, c)
  BY DEF Hung, Leads
<1>3. Follow(l.head, l.next) = c
  BY <1>1, <1>2, FollowSpelt
<1>4. PICK r : r = Reverse(c)
  OBVIOUS
<1>5. PICK n : n = Len(c)
  OBVIOUS
<1>6. /\ r \in Seq(Nodes) /\ Len(r) = n /\ n \in Nat
      /\ \A i \in 1 .. n : r[i] = c[n - i + 1] /\ n - i + 1 \in 1 .. n
  <2>1. r = [i \in 1 .. n |-> c[n - i + 1]]
    BY <1>4, <1>5 DEF Reverse
  <2>2. \A i \in 1 .. n : n - i + 1 \in 1 .. n
    BY <1>1, <1>5
  <2> QED
    BY <1>1, <1>5, <2>1, <2>2
<1>7. IsInjective(r)
  <2>1. ASSUME NEW i \in 1 .. n, NEW j \in 1 .. n, r[i] = r[j] PROVE i = j
    <3>1. n - i + 1 = n - j + 1
      BY <1>1, <1>5, <1>6, <2>1
    <3> QED
      BY <1>6, <3>1
  <2> QED
    BY <1>6, <2>1 DEF IsInjective
<1>8. Leads(l.tail, l.previous, r)
  <2>1. l.tail = IF n = 0 THEN NULL ELSE r[1]
    <3>1. l.tail = IF n = 0 THEN NULL ELSE c[n]
      BY <1>5 DEF Hung
    <3>2. n # 0 => 1 \in 1 .. n /\ n - 1 + 1 = n
      BY <1>6
    <3> QED
      BY <1>6, <3>1, <3>2
  <2>2. ASSUME NEW i \in 1 .. n
        PROVE  l.previous[r[i]] = IF i = n THEN NULL ELSE r[i + 1]
    <3>1. PICK k : k = n - i + 1
      OBVIOUS
    <3>2. k \in 1 .. n /\ r[i] = c[k] /\ (k = 1 <=> i = n)
      BY <1>6, <3>1
    <3>3. l.previous[c[k]] = IF k = 1 THEN NULL ELSE c[k - 1]
      BY <1>5, <3>2 DEF Hung
    <3>4. i # n => i + 1 \in 1 .. n /\ n - (i + 1) + 1 = k - 1
      BY <1>6, <3>1
    <3> QED
      BY <1>6, <3>2, <3>3, <3>4
  <2> QED
    BY <1>6, <2>1, <2>2 DEF Leads
<1>9. Follow(l.tail, l.previous) = r
  BY <1>6, <1>7, <1>8, FollowSpelt
<1> QED
  BY <1>3, <1>4, <1>9

\* The fields of a list after insert_node_front.
LEMMA InsertFields ==
  ASSUME NEW l \in Lists, NEW n \in Nodes, NEW r, r = insert_node_front(l, n)
  PROVE  /\ r \in Lists /\ r.head = n /\ r.tail = (IF l.tail = NULL THEN n ELSE l.tail)
         /\ \A m \in Nodes :
              /\ r.next[m] = (IF m = n THEN l.head ELSE l.next[m])
              /\ r.previous[m] = (IF m = l.head THEN n ELSE IF m = n THEN NULL ELSE l.previous[m])
<1> DEFINE linked == [l EXCEPT !.previous[n] = NULL, !.next[n] = l.head]
           back == IF l.head = NULL THEN linked ELSE [linked EXCEPT !.previous[l.head] = n]
<1>1. /\ linked \in Lists /\ linked.head = l.head /\ linked.tail = l.tail
      /\ \A m \in Nodes :
           /\ linked.next[m] = (IF m = n THEN l.head ELSE l.next[m])
           /\ linked.previous[m] = (IF m = n THEN NULL ELSE l.previous[m])
  BY DEF Lists, NodePointers
<1> HIDE DEF linked
<1>2. /\ back \in Lists /\ back.head = l.head /\ back.tail = l.tail /\ back.next = linked.next
      /\ \A m \in Nodes :
           back.previous[m] = (IF m = l.head THEN n ELSE linked.previous[m])
  <2>1. CASE l.head = NULL
    BY <1>1, <2>1, CacheAssumption
  <2>2. CASE l.head # NULL
    BY <1>1, <2>2 DEF Lists, NodePointers
  <2> QED
    BY <2>1, <2>2
<1>3. r = [back EXCEPT !.head = n, !.tail = IF l.tail = NULL THEN n ELSE @]
  BY DEF insert_node_front, linked
<1> HIDE DEF back
<1>4. /\ r \in Lists /\ r.head = n /\ r.tail = (IF l.tail = NULL THEN n ELSE l.tail)
      /\ r.next = back.next /\ r.previous = back.previous
  BY <1>2, <1>3 DEF Lists, NodePointers
<1> QED
  BY <1>1, <1>2, <1>4

\* An element in front of a sequence.
LEMMA ConsFacts ==
  ASSUME NEW S, NEW c \in Seq(S), NEW n \in S
  PROVE  /\ <<n>> \o c \in Seq(S) /\ Len(<<n>> \o c) = Len(c) + 1
         /\ (<<n>> \o c)[1] = n /\ \A i \in 1 .. Len(c) : (<<n>> \o c)[i + 1] = c[i]
         /\ ToSet(<<n>> \o c) = ToSet(c) \cup {n}
         /\ IsInjective(c) /\ n \notin ToSet(c) => IsInjective(<<n>> \o c)
<1> PICK d : d = <<n>> \o c
  OBVIOUS
<1>1. /\ d \in Seq(S) /\ Len(d) = Len(c) + 1 /\ Len(c) \in Nat
      /\ DOMAIN c = 1 .. Len(c) /\ DOMAIN d = 1 .. Len(c) + 1
      /\ d[1] = n /\ \A i \in 1 .. Len(c) : d[i + 1] = c[i]
  OBVIOUS
<1>2. \A i \in 1 .. Len(c) + 1 : i = 1 \/ (i - 1 \in 1 .. Len(c) /\ i - 1 + 1 = i)
  BY <1>1
<1>3. \A i \in 1 .. Len(c) : i + 1 \in 1 .. Len(c) + 1
  BY <1>1
<1>4. ToSet(d) = ToSet(c) \cup {n}
  <2>1. 1 \in 1 .. Len(c) + 1
    BY <1>1
  <2>2. ASSUME NEW x \in ToSet(d) PROVE x \in ToSet(c) \cup {n}
    <3>1. PICK i \in 1 .. Len(c) + 1 : d[i] = x
      BY <1>1 DEF ToSet
    <3>2. i = 1 \/ (i - 1 \in 1 .. Len(c) /\ d[i] = c[i - 1])
      BY <1>1, <1>2
    <3> QED
      BY <1>1, <3>1, <3>2 DEF ToSet
  <2>3. ASSUME NEW x \in ToSet(c) PROVE x \in ToSet(d)
    <3>1. PICK i \in 1 .. Len(c) : c[i] = x
      BY <1>1 DEF ToSet
    <3> QED
      BY <1>1, <1>3, <3>1 DEF ToSet
  <2>4. n \in ToSet(d)
    BY <1>1, <2>1 DEF ToSet
  <2> QED
    BY <2>2, <2>3, <2>4
<1>5. ASSUME IsInjective(c), n \notin ToSet(c) PROVE IsInjective(d)
  <2>1. ASSUME NEW i \in 1 .. Len(c) + 1, NEW j \in 1 .. Len(c) + 1, d[i] = d[j] PROVE i = j
    <3>1. \A k \in 1 .. Len(c) : c[k] # n
      BY <1>1, <1>5 DEF ToSet
    <3>2. CASE i = 1 \/ j = 1
      BY <1>1, <1>2, <2>1, <3>1, <3>2
    <3>3. CASE i # 1 /\ j # 1
      <4>1. i - 1 \in 1 .. Len(c) /\ j - 1 \in 1 .. Len(c) /\ c[i - 1] = c[j - 1]
        BY <1>1, <1>2, <2>1, <3>3
      <4>2. i - 1 = j - 1
        BY <1>1, <1>5, <4>1 DEF IsInjective
      <4> QED
        BY <1>1, <4>2
    <3> QED
      BY <3>2, <3>3
  <2> QED
    BY <1>1, <2>1 DEF IsInjective
<1> QED
  BY <1>1, <1>4, <1>5

\* insert_node_front puts a node before the others.
LEMMA InsertHangs ==
  ASSUME NEW c, NEW l, Hung(c, l), NEW n \in Nodes, n \notin ToSet(c)
  PROVE  Hung(<<n>> \o c, insert_node_front(l, n))
<1> PICK r : r = insert_node_front(l, n)
  OBVIOUS
<1> PICK d : d = <<n>> \o c
  OBVIOUS
<1>1. /\ c \in Seq(Nodes) /\ Len(c) \in Nat /\ DOMAIN c = 1 .. Len(c) /\ l \in Lists
      /\ \A i \in 1 .. Len(c) : c[i] \in Nodes /\ c[i] # NULL
      /\ \A i, j \in 1 .. Len(c) : c[i] = c[j] => i = j
  BY HungFacts
<1>2. /\ r \in Lists /\ r.head = n /\ r.tail = (IF l.tail = NULL THEN n ELSE l.tail)
      /\ \A m \in Nodes :
           /\ r.next[m] = (IF m = n THEN l.head ELSE l.next[m])
           /\ r.previous[m] = (IF m = l.head THEN n ELSE IF m = n THEN NULL ELSE l.previous[m])
  BY <1>1, InsertFields
<1>3. /\ d \in Seq(Nodes) /\ Len(d) = Len(c) + 1 /\ d[1] = n
      /\ \A i \in 1 .. Len(c) : d[i + 1] = c[i]
      /\ IsInjective(d)
  <2>1. IsInjective(c)
    BY DEF Hung
  <2> QED
    BY <1>1, <2>1, ConsFacts
<1>4. \A i \in 1 .. Len(c) : c[i] # n
  BY <1>1 DEF ToSet
<1>5. /\ l.head = (IF Len(c) = 0 THEN NULL ELSE c[1])
      /\ l.tail = (IF Len(c) = 0 THEN NULL ELSE c[Len(c)])
  BY DEF Hung
<1>6. r.tail = d[Len(d)]
  <2>1. CASE Len(c) = 0
    BY <1>2, <1>3, <1>5, <2>1
  <2>2. CASE Len(c) # 0
    <3>1. Len(c) \in 1 .. Len(c)
      BY <1>1, <2>2
    <3> QED
      BY <1>1, <1>2, <1>3, <1>5, <2>2, <3>1
  <2> QED
    BY <2>1, <2>2
<1>7. /\ r.next[d[1]] = (IF 1 = Len(d) THEN NULL ELSE d[1 + 1])
      /\ r.previous[d[1]] = NULL
  <2>1. Len(c) # 0 => 1 \in 1 .. Len(c)
    BY <1>1
  <2>2. 1 = Len(d) <=> Len(c) = 0
    BY <1>1, <1>3
  <2>3. n # l.head
    BY <1>1, <1>4, <1>5, <2>1, CacheAssumption
  <2> QED
    BY <1>2, <1>3, <1>5, <2>1, <2>2, <2>3
<1>8. ASSUME NEW i \in 1 .. Len(c)
      PROVE  /\ r.next[d[i + 1]] = (IF i + 1 = Len(d) THEN NULL ELSE d[i + 1 + 1])
             /\ r.previous[d[i + 1]] = d[i]
  <2>1. /\ l.next[c[i]] = (IF i = Len(c) THEN NULL ELSE c[i + 1])
        /\ l.previous[c[i]] = (IF i = 1 THEN NULL ELSE c[i - 1])
    BY DEF Hung
  <2>9. PICK N : N = Len(c)
    OBVIOUS
  <2>10. N \in Nat /\ i \in 1 .. N /\ Len(d) = N + 1
    BY <1>1, <1>3, <2>9
  <2>2. r.next[c[i]] = l.next[c[i]]
    BY <1>1, <1>2, <1>4
  <2>3. i + 1 = Len(d) <=> i = Len(c)
    BY <2>9, <2>10
  <2>4. i # Len(c) => i + 1 \in 1 .. Len(c)
    <3>1. i # N => i + 1 \in 1 .. N
      BY <2>10
    <3> QED
      BY <2>9, <3>1
  <2>5. d[i + 1] = c[i] /\ (i # Len(c) => d[i + 1 + 1] = c[i + 1])
    BY <1>3, <2>4
  <2>6. c[i] = l.head <=> i = 1
    <3>1. N # 0 /\ 1 \in 1 .. N
      BY <2>10
    <3> QED
      BY <1>1, <1>5, <2>9, <3>1
  <2>7. i # 1 => i - 1 \in 1 .. Len(c) /\ i - 1 + 1 = i
    <3>1. i # 1 => i - 1 \in 1 .. N /\ i - 1 + 1 = i
      BY <2>10
    <3> QED
      BY <2>9, <3>1
  <2>8. i # 1 => d[i] = c[i - 1]
    BY <1>3, <2>7
  <2>11. r.next[d[i + 1]] = (IF i + 1 = Len(d) THEN NULL ELSE d[i + 1 + 1])
    BY <2>1, <2>2, <2>3, <2>5
  <2>12. r.previous[c[i]] = IF i = 1 THEN n ELSE l.previous[c[i]]
    BY <1>1, <1>2, <1>4, <2>6
  <2>13. r.previous[d[i + 1]] = d[i]
    BY <1>3, <2>1, <2>5, <2>8, <2>12
  <2> QED
    BY <2>11, <2>13
<1>9. ASSUME NEW i \in 1 .. Len(d)
      PROVE  /\ r.next[d[i]] = (IF i = Len(d) THEN NULL ELSE d[i + 1])
             /\ r.previous[d[i]] = (IF i = 1 THEN NULL ELSE d[i - 1])
  <2>1. CASE i = 1
    BY <1>7, <2>1
  <2>2. CASE i # 1
    <3>1. PICK k : k = i - 1
      OBVIOUS
    <3>2. k \in 1 .. Len(c) /\ k + 1 = i
      <4>1. i \in 1 .. Len(c) + 1 /\ Len(c) \in Nat
        BY <1>1, <1>3
      <4> QED
        BY <2>2, <3>1, <4>1
    <3>3. /\ r.next[d[k + 1]] = (IF k + 1 = Len(d) THEN NULL ELSE d[k + 1 + 1])
          /\ r.previous[d[k + 1]] = d[k]
      BY <1>8, <3>2
    <3>4. /\ r.next[d[i]] = (IF i = Len(d) THEN NULL ELSE d[i + 1])
          /\ r.previous[d[i]] = d[k]
      BY <3>2, <3>3, Zenon
    <3> QED
      BY <2>2, <3>1, <3>4, Zenon
  <2> QED
    BY <2>1, <2>2
<1>10. Len(d) # 0
  BY <1>1, <1>3
<1> QED
  BY <1>2, <1>3, <1>6, <1>9, <1>10 DEF Hung

-----------------------------------------------------------------------------
\* move_node_to_front's own part: the list l without its node n, which is not
\* the first.
TakenOut(l, n) ==
  LET p == l.previous[n]
      q == l.next[n]
      before == IF p = NULL THEN l ELSE [l EXCEPT !.next[p] = q]
      after == IF q = NULL THEN before ELSE [before EXCEPT !.previous[q] = p]
  IN IF l.tail = n THEN [after EXCEPT !.tail = p] ELSE after

\* move_node_to_front takes a node out and puts it in front.
LEMMA MoveIsTakenOut ==
  ASSUME NEW l, NEW n
  PROVE  move_node_to_front(l, n) = IF l.head = n THEN l ELSE insert_node_front(TakenOut(l, n), n)
  BY DEF move_node_to_front, TakenOut

\* The fields of a list after its node n was taken out.
LEMMA TakenOutFields ==
  ASSUME NEW l \in Lists, NEW n \in Nodes, NEW r, r = TakenOut(l, n)
  PROVE  /\ r \in Lists /\ r.head = l.head
         /\ r.tail = (IF l.tail = n THEN l.previous[n] ELSE l.tail)
         /\ \A m \in Nodes :
              /\ r.next[m] = (IF m = l.previous[n] THEN l.next[n] ELSE l.next[m])
              /\ r.previous[m] = (IF m = l.next[n] THEN l.previous[n] ELSE l.previous[m])
<1> DEFINE p == l.previous[n]
           q == l.next[n]
           before == IF p = NULL THEN l ELSE [l EXCEPT !.next[p] = q]
           after == IF q = NULL THEN before ELSE [before EXCEPT !.previous[q] = p]
<1>1. p \in NodePointers /\ q \in NodePointers /\ \A m \in Nodes : m # NULL
  BY CacheAssumption DEF Lists
<1>2. r = IF l.tail = n THEN [after EXCEPT !.tail = p] ELSE after
  BY DEF TakenOut
<1> HIDE DEF p, q
<1>3. /\ before \in Lists /\ before.head = l.head /\ before.tail = l.tail
      /\ before.previous = l.previous
      /\ \A m \in Nodes : before.next[m] = (IF m = p THEN q ELSE l.next[m])
  <2>1. CASE p = NULL
    BY <1>1, <2>1
  <2>2. CASE p # NULL
    BY <1>1, <2>2 DEF Lists, NodePointers
  <2> QED
    BY <2>1, <2>2
<1> HIDE DEF before
<1>4. /\ after \in Lists /\ after.head = l.head /\ after.tail = l.tail
      /\ after.next = before.next
      /\ \A m \in Nodes : after.previous[m] = (IF m = q THEN p ELSE l.previous[m])
  <2>1. CASE q = NULL
    BY <1>1, <1>3, <2>1
  <2>2. CASE q # NULL
    BY <1>1, <1>3, <2>2 DEF Lists, NodePointers
  <2> QED
    BY <2>1, <2>2
<1> HIDE DEF after
<1>5. /\ r \in Lists /\ r.head = l.head /\ r.tail = (IF l.tail = n THEN p ELSE l.tail)
      /\ r.next = after.next /\ r.previous = after.previous
  BY <1>1, <1>2, <1>4 DEF Lists
<1> QED
  BY <1>3, <1>4, <1>5 DEF p, q

\* Taking a node out closes the list over the gap.
LEMMA TakenOutHangs ==
  ASSUME NEW c, NEW l, Hung(c, l), NEW i \in 1 .. Len(c), i # 1
  PROVE  Hung(RemoveAt(c, i), TakenOut(l, c[i]))
<1> PICK n : n = c[i]
  OBVIOUS
<1> PICK N : N = Len(c)
  OBVIOUS
<1> PICK r : r = TakenOut(l, n)
  OBVIOUS
<1> PICK d : d = RemoveAt(c, i)
  OBVIOUS
<1>1. /\ c \in Seq(Nodes) /\ N \in Nat /\ DOMAIN c = 1 .. N /\ l \in Lists
      /\ \A j \in 1 .. N : c[j] \in Nodes /\ c[j] # NULL
      /\ \A j, k \in 1 .. N : c[j] = c[k] => j = k
  BY HungFacts
<1>2. /\ i \in 1 .. N /\ i - 1 \in 1 .. N /\ N # 0 /\ 1 \in 1 .. N /\ N \in 1 .. N
      /\ (i # N => i + 1 \in 1 .. N)
  <2>1. i \in 1 .. N
    OBVIOUS
  <2> QED
    BY <1>1, <2>1
<1>3. /\ l.head = c[1] /\ l.tail = c[N]
  BY <1>2 DEF Hung
<1>4. ASSUME NEW j \in 1 .. N
      PROVE  /\ l.next[c[j]] = (IF j = N THEN NULL ELSE c[j + 1])
             /\ l.previous[c[j]] = (IF j = 1 THEN NULL ELSE c[j - 1])
  BY DEF Hung
<1>5. n \in Nodes /\ l.previous[n] = c[i - 1] /\ l.next[n] = (IF i = N THEN NULL ELSE c[i + 1])
  BY <1>1, <1>2, <1>4
<1>6. /\ r \in Lists /\ r.head = l.head
      /\ r.tail = (IF l.tail = n THEN l.previous[n] ELSE l.tail)
      /\ \A m \in Nodes :
           /\ r.next[m] = (IF m = l.previous[n] THEN l.next[n] ELSE l.next[m])
           /\ r.previous[m] = (IF m = l.next[n] THEN l.previous[n] ELSE l.previous[m])
  <2>1. l \in Lists /\ n \in Nodes
    BY <1>1, <1>5
  <2> QED
    BY <2>1, TakenOutFields, SMTT(30)
<1>7. /\ d \in Seq(Nodes) /\ IsInjective(d) /\ Len(d) = N - 1
      /\ \A j \in 1 .. N - 1 : d[j] = IF j < i THEN c[j] ELSE c[j + 1]
  <2>1. IsInjective(c) /\ i \in DOMAIN c
    BY <1>1, <1>2 DEF Hung
  <2>2. /\ d \in Seq(Nodes) /\ Len(d) = Len(c) - 1
        /\ \A j \in 1 .. Len(c) - 1 : d[j] = IF j < i THEN c[j] ELSE c[j + 1]
    BY <1>1, <2>1, RemoveAtElements, Zenon
  <2>3. IsInjective(d)
    BY <1>1, <2>1, RemoveAtFacts, Zenon
  <2> QED
    BY <2>2, <2>3
<1>8. r.head = d[1] /\ r.tail = d[N - 1] /\ N - 1 # 0
  <2>1. 1 \in 1 .. N - 1 /\ 1 < i /\ N - 1 \in 1 .. N - 1 /\ N - 1 # 0 /\ N - 1 + 1 = N
    BY <1>1, <1>2
  <2>2. d[1] = c[1] /\ d[N - 1] = IF N - 1 < i THEN c[N - 1] ELSE c[N]
    BY <1>7, <2>1
  <2>3. l.tail = n <=> i = N
    BY <1>1, <1>2, <1>3
  <2>4. N - 1 < i <=> i = N
    BY <1>1, <1>2
  <2> QED
    BY <1>3, <1>5, <1>6, <2>1, <2>2, <2>3, <2>4
<1>9. ASSUME NEW j \in 1 .. N - 1
      PROVE  /\ r.next[d[j]] = (IF j = N - 1 THEN NULL ELSE d[j + 1])
             /\ r.previous[d[j]] = (IF j = 1 THEN NULL ELSE d[j - 1])
  <2>1. CASE j < i
    <3>1. j \in 1 .. N /\ d[j] = c[j]
      BY <1>1, <1>7, <2>1
    <3>2. c[j] = l.previous[n] <=> j = i - 1
      BY <1>1, <1>2, <1>5, <3>1
    <3>3. c[j] # l.next[n]
      <4>1. i # N => i + 1 # j
        BY <1>1, <1>2, <2>1, <3>1
      <4> QED
        BY <1>1, <1>2, <1>5, <3>1, <4>1
    <3>4. r.next[c[j]] = (IF j = i - 1 THEN l.next[n] ELSE l.next[c[j]])
      BY <1>1, <1>6, <3>1, <3>2
    <3>5. r.previous[c[j]] = l.previous[c[j]]
      BY <1>1, <1>6, <3>1, <3>3
    <3>6. j # 1 => j - 1 \in 1 .. N - 1 /\ j - 1 < i
      BY <1>1, <2>1, <3>1
    <3>7. j # 1 => d[j - 1] = c[j - 1]
      BY <1>7, <3>6
    <3>8. CASE j = i - 1
      <4>1. (j = N - 1 <=> i = N) /\ j + 1 = i /\ ~(i < i)
        BY <1>1, <1>2, <3>8
      <4>2. i # N => i \in 1 .. N - 1
        BY <1>1, <1>2
      <4>3. i # N => d[j + 1] = c[i + 1]
        BY <1>7, <4>1, <4>2
      <4> QED
        BY <1>5, <1>4, <3>1, <3>4, <3>5, <3>7, <3>8, <4>1, <4>3
    <3>9. CASE j # i - 1
      <4>1. j + 1 < i /\ j # N - 1 /\ j # N /\ j + 1 \in 1 .. N - 1
        BY <1>1, <1>2, <2>1, <3>1, <3>9
      <4>2. d[j + 1] = c[j + 1]
        BY <1>7, <4>1
      <4> QED
        BY <1>4, <3>1, <3>4, <3>5, <3>7, <3>9, <4>1, <4>2
    <3> QED
      BY <3>8, <3>9
  <2>2. CASE ~(j < i)
    <3> PICK k : k = j + 1
      OBVIOUS
    <3>1. k \in 1 .. N /\ d[j] = c[k] /\ k - 1 = j /\ k # 1 /\ j # 1
      BY <1>1, <1>2, <1>7, <2>2
    <3>2. c[k] # l.previous[n]
      <4>1. k # i - 1
        BY <1>1, <1>2, <2>2
      <4> QED
        BY <1>1, <1>2, <1>5, <3>1, <4>1
    <3>3. c[k] = l.next[n] <=> j = i
      <4>1. k = i + 1 <=> j = i
        BY <1>1, <1>2
      <4>2. j = i => i # N
        BY <1>1, <1>2
      <4> QED
        BY <1>1, <1>2, <1>5, <3>1, <4>1, <4>2
    <3>4. r.next[c[k]] = l.next[c[k]]
      BY <1>1, <1>6, <3>1, <3>2
    <3>5. r.previous[c[k]] = (IF j = i THEN l.previous[n] ELSE l.previous[c[k]])
      BY <1>1, <1>6, <3>1, <3>3
    <3>6. (k = N <=> j = N - 1) /\ (j # N - 1 => k \in 1 .. N - 1 /\ ~(k < i))
      BY <1>1, <1>2, <2>2
    <3>7. j # N - 1 => d[k] = c[k + 1]
      BY <1>7, <3>6
    <3>8. r.next[d[j]] = (IF j = N - 1 THEN NULL ELSE d[k])
      BY <1>4, <3>1, <3>4, <3>6, <3>7
    <3>9. j - 1 \in 1 .. N - 1 /\ j - 1 + 1 = j /\ (j - 1 < i <=> j = i)
      BY <1>1, <1>2, <2>2, <3>1
    <3>10. d[j - 1] = IF j = i THEN c[j - 1] ELSE c[j]
      BY <1>7, <3>9
    <3>11. l.previous[c[k]] = c[j]
      BY <1>4, <3>1
    <3>12. r.previous[d[j]] = d[j - 1]
      BY <1>5, <3>1, <3>5, <3>10, <3>11
    <3> QED
      BY <3>1, <3>8, <3>12
  <2> QED
    BY <2>1, <2>2
<1>10. \A j \in 1 .. Len(d) :
         /\ r.next[d[j]] = (IF j = Len(d) THEN NULL ELSE d[j + 1])
         /\ r.previous[d[j]] = (IF j = 1 THEN NULL ELSE d[j - 1])
  <2>1. Len(d) = N - 1
    BY <1>7
  <2> QED
    BY <1>9, <2>1
<1> QED
  BY <1>6, <1>7, <1>8, <1>10 DEF Hung

-----------------------------------------------------------------------------
\* The nodes after the i-th of them was used.
Moved(c, i) == IF i = 1 THEN c ELSE <<c[i]>> \o RemoveAt(c, i)

\* move_node_to_front leaves the nodes in the order of their use.
LEMMA MoveHangs ==
  ASSUME NEW c, NEW l, Hung(c, l), NEW i \in 1 .. Len(c)
  PROVE  Hung(Moved(c, i), move_node_to_front(l, c[i]))
<1>1. /\ c \in Seq(Nodes) /\ Len(c) \in Nat /\ DOMAIN c = 1 .. Len(c) /\ c[i] \in Nodes
      /\ \A j, k \in 1 .. Len(c) : c[j] = c[k] => j = k
  BY HungFacts
<1>2. l.head = c[1] /\ 1 \in 1 .. Len(c)
  <2>1. Len(c) # 0 /\ 1 \in 1 .. Len(c)
    BY <1>1
  <2> QED
    BY <2>1 DEF Hung
<1>3. l.head = c[i] <=> i = 1
  BY <1>1, <1>2
<1>4. CASE i = 1
  BY <1>3, <1>4, MoveIsTakenOut DEF Moved
<1>5. CASE i # 1
  <2>1. Hung(RemoveAt(c, i), TakenOut(l, c[i]))
    BY <1>5, TakenOutHangs
  <2>2. c[i] \notin ToSet(RemoveAt(c, i))
    <3>1. IsInjective(c) /\ i \in DOMAIN c
      BY <1>1 DEF Hung
    <3> QED
      BY <1>1, <3>1, RemoveAtFacts
  <2>3. Hung(<<c[i]>> \o RemoveAt(c, i), insert_node_front(TakenOut(l, c[i]), c[i]))
    BY <1>1, <2>1, <2>2, InsertHangs
  <2> QED
    BY <1>3, <1>5, <2>3, MoveIsTakenOut DEF Moved
<1> QED
  BY <1>4, <1>5

FirstOthersAfter(c, i, d) ==
  /\ d \in Seq(Nodes) /\ IsInjective(d) /\ Len(d) = Len(c) /\ ToSet(d) = ToSet(c)
  /\ d[1] = c[i]
  /\ \A j \in 1 .. Len(c) : 1 < j /\ j <= i => d[j] = c[j - 1]
  /\ \A j \in 1 .. Len(c) : i < j => d[j] = c[j]

\* A use changes the order of the nodes only.
LEMMA MovedFacts ==
  ASSUME NEW c \in Seq(Nodes), IsInjective(c), NEW i \in 1 .. Len(c), NEW d, d = Moved(c, i)
  PROVE  FirstOthersAfter(c, i, d)
<1> USE DEF FirstOthersAfter
<1>1. Len(c) \in Nat /\ DOMAIN c = 1 .. Len(c) /\ i \in Nat /\ 1 <= i /\ i <= Len(c)
  OBVIOUS
<1>2. CASE i = 1
  BY <1>1, <1>2 DEF Moved
<1>3. CASE i # 1
  <2> PICK r : r = RemoveAt(c, i)
    OBVIOUS
  <2> PICK N : N = Len(c)
    OBVIOUS
  <2>1. /\ r \in Seq(Nodes) /\ Len(r) = N - 1 /\ c[i] \in Nodes
        /\ \A j \in 1 .. N - 1 : r[j] = IF j < i THEN c[j] ELSE c[j + 1]
        /\ IsInjective(r) /\ c[i] \in ToSet(c) /\ ToSet(r) = ToSet(c) \ {c[i]}
    <3>1. i \in DOMAIN c
      BY <1>1
    <3>2. /\ r \in Seq(Nodes) /\ Len(r) = Len(c) - 1
          /\ \A j \in 1 .. Len(c) - 1 : r[j] = IF j < i THEN c[j] ELSE c[j + 1]
      BY <3>1, RemoveAtElements, Zenon
    <3>3. /\ IsInjective(r) /\ c[i] \in Nodes /\ c[i] \in ToSet(c) /\ ToSet(r) = ToSet(c) \ {c[i]}
      BY <3>1, RemoveAtFacts, Zenon
    <3> QED
      BY <3>2, <3>3
  <2>2. d = <<c[i]>> \o r
    BY <1>3 DEF Moved
  <2>3. /\ d \in Seq(Nodes) /\ Len(d) = Len(r) + 1 /\ d[1] = c[i]
        /\ \A j \in 1 .. Len(r) : d[j + 1] = r[j]
        /\ ToSet(d) = ToSet(r) \cup {c[i]}
    BY <2>1, <2>2, ConsFacts
  <2>4. IsInjective(d)
    <3>1. c[i] \notin ToSet(r)
      BY <2>1
    <3> QED
      BY <2>1, <2>2, <3>1, ConsFacts
  <2>5. ToSet(d) = ToSet(c)
    BY <2>1, <2>3
  <2>6. N \in Nat /\ i \in 1 .. N /\ Len(d) = N
    BY <1>1, <2>1, <2>3
  <2>7. ASSUME NEW j \in 1 .. N, 1 < j PROVE d[j] = IF j <= i THEN c[j - 1] ELSE c[j]
    <3> PICK k : k = j - 1
      OBVIOUS
    <3>1. k \in 1 .. N - 1 /\ k + 1 = j /\ k \in 1 .. Len(r)
      BY <2>1, <2>6, <2>7
    <3>2. d[j] = r[k]
      BY <2>3, <3>1
    <3>3. r[k] = IF k < i THEN c[k] ELSE c[j]
      BY <2>1, <3>1
    <3>4. k < i <=> j <= i
      BY <2>6, <3>1
    <3> QED
      BY <3>2, <3>3, <3>4
  <2>8. \A j \in 1 .. N : 1 < j /\ j <= i => d[j] = c[j - 1]
    BY <2>7
  <2>9. \A j \in 1 .. N : i < j => 1 < j /\ ~(j <= i)
    BY <2>6
  <2>10. \A j \in 1 .. N : i < j => d[j] = c[j]
    BY <2>7, <2>9
  <2> QED
    BY <2>3, <2>4, <2>5, <2>6, <2>8, <2>10
<1> QED
  BY <1>2, <1>3

\* The fields of a list after remove_tail_node.
LEMMA RemoveTailFields ==
  ASSUME NEW l \in Lists, l.tail \in Nodes, NEW r, r = remove_tail_node(l)
  PROVE  /\ r \in Lists
         /\ r.tail = l.previous[l.tail]
         /\ r.head = (IF l.previous[l.tail] = NULL THEN NULL ELSE l.head)
         /\ \A m \in Nodes :
              /\ r.next[m] = (IF m = l.tail \/ m = l.previous[l.tail] THEN NULL ELSE l.next[m])
              /\ r.previous[m] = (IF m = l.tail THEN NULL ELSE l.previous[m])
<1> PICK n : n = l.tail
  OBVIOUS
<1> PICK p : p = l.previous[n]
  OBVIOUS
<1> DEFINE out == IF p = NULL THEN [l EXCEPT !.head = NULL, !.tail = NULL]
                  ELSE [l EXCEPT !.tail = p, !.next[p] = NULL]
<1>1. n \in Nodes /\ p \in NodePointers /\ \A m \in Nodes : m # NULL
  BY CacheAssumption DEF Lists
<1>2. r = [out EXCEPT !.previous[n] = NULL, !.next[n] = NULL]
  BY DEF remove_tail_node
<1>3. /\ out \in Lists /\ out.tail = p /\ out.head = (IF p = NULL THEN NULL ELSE l.head)
      /\ out.previous = l.previous
      /\ \A m \in Nodes : out.next[m] = (IF m = p THEN NULL ELSE l.next[m])
  <2>1. CASE p = NULL
    BY <1>1, <2>1 DEF Lists, NodePointers
  <2>2. CASE p # NULL
    BY <1>1, <2>2 DEF Lists, NodePointers
  <2> QED
    BY <2>1, <2>2
<1> HIDE DEF out
<1>4. /\ r \in Lists /\ r.tail = p /\ r.head = (IF p = NULL THEN NULL ELSE l.head)
      /\ \A m \in Nodes :
           /\ r.next[m] = (IF m = n THEN NULL ELSE out.next[m])
           /\ r.previous[m] = (IF m = n THEN NULL ELSE out.previous[m])
  <2>1. PICK previous : previous = [out.previous EXCEPT ![n] = NULL]
    OBVIOUS
  <2>2. PICK next : next = [out.next EXCEPT ![n] = NULL]
    OBVIOUS
  <2>3. /\ out.previous \in [Nodes -> NodePointers] /\ out.next \in [Nodes -> NodePointers]
        /\ out.head \in NodePointers /\ out.tail \in NodePointers
        /\ out = [head |-> out.head, tail |-> out.tail, previous |-> out.previous, next |-> out.next]
    BY <1>3 DEF Lists
  <2>4. r = [head |-> out.head, tail |-> out.tail, previous |-> previous, next |-> next]
    BY <1>2, <2>1, <2>2, <2>3
  <2>5. /\ previous \in [Nodes -> NodePointers] /\ next \in [Nodes -> NodePointers]
        /\ \A m \in Nodes : /\ previous[m] = (IF m = n THEN NULL ELSE out.previous[m])
                            /\ next[m] = (IF m = n THEN NULL ELSE out.next[m])
    BY <1>1, <2>1, <2>2, <2>3 DEF NodePointers
  <2>6. r \in Lists
    BY <2>3, <2>4, <2>5 DEF Lists
  <2>7. r.tail = out.tail /\ r.head = out.head /\ r.previous = previous /\ r.next = next
    BY <2>4
  <2> QED
    BY <1>3, <2>5, <2>6, <2>7
<1> QED
  BY <1>3, <1>4

\* TakenOut its last node the list holds the others.
LEMMA RemoveTailHangs ==
  ASSUME NEW c, NEW l, Hung(c, l), Len(c) # 0
  PROVE  Hung(RemoveAt(c, Len(c)), remove_tail_node(l))
<1> PICK N : N = Len(c)
  OBVIOUS
<1> PICK n : n = c[N]
  OBVIOUS
<1> PICK r : r = remove_tail_node(l)
  OBVIOUS
<1> PICK d : d = RemoveAt(c, N)
  OBVIOUS
<1>1. /\ c \in Seq(Nodes) /\ N \in Nat /\ DOMAIN c = 1 .. N /\ l \in Lists
      /\ \A j \in 1 .. N : c[j] \in Nodes /\ c[j] # NULL
      /\ \A j, k \in 1 .. N : c[j] = c[k] => j = k
  BY HungFacts
<1>2. N # 0 /\ 1 \in 1 .. N /\ N \in 1 .. N /\ (N # 1 => N - 1 \in 1 .. N)
  BY <1>1
<1>3. l.head = c[1] /\ l.tail = n
  BY <1>2 DEF Hung
<1>4. ASSUME NEW j \in 1 .. N
      PROVE  /\ l.next[c[j]] = (IF j = N THEN NULL ELSE c[j + 1])
             /\ l.previous[c[j]] = (IF j = 1 THEN NULL ELSE c[j - 1])
  BY DEF Hung
<1>5. n \in Nodes /\ l.previous[n] = (IF N = 1 THEN NULL ELSE c[N - 1])
  BY <1>1, <1>2, <1>4
<1>6. /\ r \in Lists
      /\ r.tail = l.previous[n]
      /\ r.head = (IF l.previous[n] = NULL THEN NULL ELSE l.head)
      /\ \A m \in Nodes :
           /\ r.next[m] = (IF m = n \/ m = l.previous[n] THEN NULL ELSE l.next[m])
           /\ r.previous[m] = (IF m = n THEN NULL ELSE l.previous[m])
  <2>1. l \in Lists /\ l.tail \in Nodes
    BY <1>1, <1>3, <1>5
  <2> QED
    BY <1>3, <2>1, RemoveTailFields, SMTT(30)
<1>7. /\ d \in Seq(Nodes) /\ IsInjective(d) /\ Len(d) = N - 1
      /\ \A j \in 1 .. N - 1 : d[j] = c[j]
  <2>1. IsInjective(c) /\ N \in DOMAIN c
    BY <1>1, <1>2 DEF Hung
  <2>2. /\ d \in Seq(Nodes) /\ Len(d) = Len(c) - 1
        /\ \A j \in 1 .. Len(c) - 1 : d[j] = IF j < N THEN c[j] ELSE c[j + 1]
    BY <1>1, <2>1, RemoveAtElements, Zenon
  <2>3. IsInjective(d)
    BY <1>1, <2>1, RemoveAtFacts, Zenon
  <2>4. \A j \in 1 .. N - 1 : j < N
    BY <1>1
  <2> QED
    BY <2>2, <2>3, <2>4
<1>8. /\ r.head = (IF N - 1 = 0 THEN NULL ELSE d[1])
      /\ r.tail = (IF N - 1 = 0 THEN NULL ELSE d[N - 1])
  <2>1. N # 1 => 1 \in 1 .. N - 1 /\ N - 1 \in 1 .. N - 1 /\ c[N - 1] # NULL
    BY <1>1, <1>2
  <2>2. N - 1 = 0 <=> N = 1
    BY <1>1
  <2> QED
    BY <1>3, <1>5, <1>6, <1>7, <2>1, <2>2
<1>9. ASSUME NEW j \in 1 .. N - 1
      PROVE  /\ r.next[d[j]] = (IF j = N - 1 THEN NULL ELSE d[j + 1])
             /\ r.previous[d[j]] = (IF j = 1 THEN NULL ELSE d[j - 1])
  <2>1. /\ j \in 1 .. N /\ j # N /\ N # 1
        /\ (j # N - 1 => j + 1 \in 1 .. N - 1) /\ (j # 1 => j - 1 \in 1 .. N - 1)
    BY <1>1
  <2>2. d[j] = c[j] /\ (j # N - 1 => d[j + 1] = c[j + 1]) /\ (j # 1 => d[j - 1] = c[j - 1])
    BY <1>7, <2>1
  <2>3. c[j] # n /\ (c[j] = c[N - 1] <=> j = N - 1) /\ c[j] \in Nodes
    BY <1>1, <1>2, <2>1
  <2>4. /\ r.next[c[j]] = (IF j = N - 1 THEN NULL ELSE l.next[c[j]])
        /\ r.previous[c[j]] = l.previous[c[j]]
    BY <1>5, <1>6, <2>1, <2>3
  <2> QED
    BY <1>4, <2>1, <2>2, <2>4
<1>10. \A j \in 1 .. Len(d) :
         /\ r.next[d[j]] = (IF j = Len(d) THEN NULL ELSE d[j + 1])
         /\ r.previous[d[j]] = (IF j = 1 THEN NULL ELSE d[j - 1])
  <2>1. Len(d) = N - 1
    BY <1>7
  <2> QED
    BY <1>9, <2>1
<1> QED
  BY <1>6, <1>7, <1>8, <1>10 DEF Hung

-----------------------------------------------------------------------------
\* The hash table t holds the nodes in S under their keys.
Entry == [key : Keys, node : Nodes]
Holds(t, S, kf) ==
  /\ t \in [Buckets -> Seq(Entry)] /\ S \subseteq Nodes
  /\ \A b \in Buckets : \A i \in 1 .. Len(t[b]) :
       BucketOf[t[b][i].key] = b /\ t[b][i].node \in S /\ kf[t[b][i].node] = t[b][i].key
  /\ \A n \in S : \E b \in Buckets : \E i \in 1 .. Len(t[b]) : t[b][i].node = n
  /\ \A b \in Buckets : \A i, j \in 1 .. Len(t[b]) : t[b][i].key = t[b][j].key => i = j

\* What is known of a table that holds nodes: no two of them have one key.
LEMMA HoldsFacts ==
  ASSUME NEW t, NEW S, NEW kf, Holds(t, S, kf)
  PROVE  /\ t \in [Buckets -> Seq(Entry)] /\ S \subseteq Nodes
         /\ \A b \in Buckets : /\ t[b] \in Seq(Entry) /\ Len(t[b]) \in Nat
                               /\ DOMAIN t[b] = 1 .. Len(t[b])
                               /\ \A i \in 1 .. Len(t[b]) : t[b][i] \in Entry
         /\ \A n \in S : kf[n] \in Keys
         /\ \A m, n \in S : kf[m] = kf[n] => m = n
<1>1. t \in [Buckets -> Seq(Entry)] /\ S \subseteq Nodes
  BY DEF Holds
<1>2. ASSUME NEW b \in Buckets
      PROVE  /\ t[b] \in Seq(Entry) /\ Len(t[b]) \in Nat /\ DOMAIN t[b] = 1 .. Len(t[b])
             /\ \A i \in 1 .. Len(t[b]) : t[b][i] \in Entry
  <2>1. t[b] \in Seq(Entry)
    BY <1>1
  <2> QED
    BY <2>1
<1>3. ASSUME NEW n \in S
      PROVE  \E b \in Buckets : \E i \in 1 .. Len(t[b]) :
               t[b][i].node = n /\ t[b][i].key = kf[n] /\ b = BucketOf[kf[n]] /\ kf[n] \in Keys
  <2>1a. PICK b \in Buckets : \E i \in 1 .. Len(t[b]) : t[b][i].node = n
    BY DEF Holds
  <2>1. PICK i \in 1 .. Len(t[b]) : t[b][i].node = n
    BY <2>1a
  <2>2. BucketOf[t[b][i].key] = b /\ kf[t[b][i].node] = t[b][i].key
    BY DEF Holds
  <2>3. t[b][i].key \in Keys
    BY <1>2 DEF Entry
  <2> QED
    BY <2>1, <2>2, <2>3
<1>4. ASSUME NEW m \in S, NEW n \in S, kf[m] = kf[n] PROVE m = n
  <2>1a. PICK b \in Buckets : \E i \in 1 .. Len(t[b]) :
          t[b][i].node = m /\ t[b][i].key = kf[m] /\ b = BucketOf[kf[m]]
    BY <1>3
  <2>1. PICK i \in 1 .. Len(t[b]) :
          t[b][i].node = m /\ t[b][i].key = kf[m] /\ b = BucketOf[kf[m]]
    BY <2>1a
  <2>2a. PICK d \in Buckets : \E j \in 1 .. Len(t[d]) :
          t[d][j].node = n /\ t[d][j].key = kf[n] /\ d = BucketOf[kf[n]]
    BY <1>3
  <2>2. PICK j \in 1 .. Len(t[d]) :
          t[d][j].node = n /\ t[d][j].key = kf[n] /\ d = BucketOf[kf[n]]
    BY <2>2a
  <2>3. b = d
    BY <1>4, <2>1, <2>2
  <2>4. i = j
    BY <1>4, <2>1, <2>2, <2>3 DEF Holds
  <2> QED
    BY <2>1, <2>2, <2>3, <2>4
<1>5. \A n \in S : kf[n] \in Keys
  BY <1>3
<1> QED
  BY <1>1, <1>2, <1>4, <1>5

\* hash_find_entry, in any table.
Hits(chain, k) == { i \in DOMAIN chain : chain[i].key = k }
FirstOf(hits) == CHOOSE i \in hits : \A j \in hits : i <= j
Found(t, k) ==
  IF Hits(t[BucketOf[k]], k) = {} THEN NULL
  ELSE t[BucketOf[k]][FirstOf(Hits(t[BucketOf[k]], k))].node

\* hash_find_entry is Found of the table there is.
LEMMA FindIsFound == ASSUME NEW k PROVE hash_find_entry(k) = Found(buckets, k)
  BY DEF hash_find_entry, Found, Hits, FirstOf

\* The first entry of a key is its only one.
LEMMA FirstIsOnly ==
  ASSUME NEW t, NEW S, NEW kf, Holds(t, S, kf), NEW b \in Buckets, NEW k,
         NEW i \in 1 .. Len(t[b]), t[b][i].key = k
  PROVE  Hits(t[b], k) # {} /\ FirstOf(Hits(t[b], k)) = i
<1>1. DOMAIN t[b] = 1 .. Len(t[b]) /\ Len(t[b]) \in Nat
  BY HoldsFacts
<1>2. \A j \in 1 .. Len(t[b]) : t[b][j].key = k => j = i
  BY DEF Holds
<1>3. Hits(t[b], k) = {i}
  BY <1>1, <1>2 DEF Hits
<1>4. i <= i
  BY <1>1
<1>5. FirstOf({i}) = i
  BY <1>4 DEF FirstOf
<1> QED
  BY <1>3, <1>5

\* hash_find_entry finds the node of a key if there is one, and else NULL.
LEMMA FoundFacts ==
  ASSUME NEW t, NEW S, NEW kf, Holds(t, S, kf), NEW k \in Keys
  PROVE  /\ Found(t, k) # NULL => Found(t, k) \in S /\ kf[Found(t, k)] = k
         /\ \A n \in S : kf[n] = k => Found(t, k) = n
         /\ Found(t, k) = NULL <=> Hits(t[BucketOf[k]], k) = {}
<1> PICK b : b = BucketOf[k]
  OBVIOUS
<1>1. b \in Buckets /\ DOMAIN t[b] = 1 .. Len(t[b])
  BY HoldsFacts DEF Buckets
<1>2. ASSUME Hits(t[b], k) # {}
      PROVE  Found(t, k) \in S /\ kf[Found(t, k)] = k /\ Found(t, k) # NULL
  <2>1. PICK i \in 1 .. Len(t[b]) : t[b][i].key = k
    BY <1>1, <1>2 DEF Hits
  <2>2. Found(t, k) = t[b][i].node
    BY <1>1, <1>2, <2>1, FirstIsOnly DEF Found
  <2>3. t[b][i].node \in S /\ kf[t[b][i].node] = k /\ t[b][i].node \in Nodes
    BY <1>1, <2>1 DEF Holds
  <2> QED
    BY <2>2, <2>3, CacheAssumption
<1>3. ASSUME Hits(t[b], k) = {} PROVE Found(t, k) = NULL
  BY <1>3 DEF Found
<1>4. ASSUME NEW n \in S, kf[n] = k PROVE Found(t, k) = n
  <2>1a. PICK d \in Buckets : \E i \in 1 .. Len(t[d]) : t[d][i].node = n
    BY DEF Holds
  <2>1. PICK i \in 1 .. Len(t[d]) : t[d][i].node = n
    BY <2>1a
  <2>2. BucketOf[t[d][i].key] = d /\ kf[n] = t[d][i].key
    BY <2>1 DEF Holds
  <2>3. d = b /\ t[b][i].key = k /\ i \in 1 .. Len(t[b])
    BY <1>4, <2>1, <2>2
  <2>4. Hits(t[b], k) # {} /\ FirstOf(Hits(t[b], k)) = i
    <3>1. \A x \in Buckets : \A y \in 1 .. Len(t[x]) : \A z :
            t[x][y].key = z => Hits(t[x], z) # {} /\ FirstOf(Hits(t[x], z)) = y
      BY FirstIsOnly
    <3> QED
      BY <1>1, <2>3, <3>1
  <2> QED
    BY <2>1, <2>3, <2>4 DEF Found
<1> QED
  BY <1>2, <1>3, <1>4

\* A new key gets an entry of its own.
LEMMA InsertHolds ==
  ASSUME NEW t, NEW S, NEW kf, Holds(t, S, kf), NEW k \in Keys, Found(t, k) = NULL,
         NEW n \in Nodes, n \notin S, NEW lf, lf[n] = k, \A m \in S : lf[m] = kf[m]
  PROVE  Holds(hash_insert_entry(t, k, n), S \cup {n}, lf)
<1> PICK b : b = BucketOf[k]
  OBVIOUS
<1> PICK e : e = [key |-> k, node |-> n]
  OBVIOUS
<1> PICK u : u = hash_insert_entry(t, k, n)
  OBVIOUS
<1>1. b \in Buckets /\ e \in Entry /\ Hits(t[b], k) = {}
  BY FoundFacts DEF Buckets, Entry
<1>2. /\ t \in [Buckets -> Seq(Entry)] /\ S \subseteq Nodes
      /\ \A d \in Buckets : /\ t[d] \in Seq(Entry) /\ Len(t[d]) \in Nat
                            /\ DOMAIN t[d] = 1 .. Len(t[d])
  BY HoldsFacts
<1>3. u = [t EXCEPT ![b] = <<e>> \o @]
  BY <1>1 DEF hash_insert_entry, Hits
<1> PICK s : s = <<e>> \o t[b]
  OBVIOUS
<1>4. /\ s \in Seq(Entry) /\ Len(s) = Len(t[b]) + 1 /\ s[1] = e
      /\ \A i \in 1 .. Len(t[b]) : s[i + 1] = t[b][i]
  BY <1>1, <1>2, ConsFacts
<1>5. u \in [Buckets -> Seq(Entry)] /\ u[b] = s /\ \A d \in Buckets \ {b} : u[d] = t[d]
  BY <1>1, <1>2, <1>3, <1>4
<1>6. \A i \in 1 .. Len(t[b]) : t[b][i].key # k
  BY <1>1, <1>2 DEF Hits
<1>7. ASSUME NEW i \in 1 .. Len(s)
      PROVE  (i = 1 /\ s[i] = e) \/ (i # 1 /\ i - 1 \in 1 .. Len(t[b]) /\ s[i] = t[b][i - 1])
  <2>1. Len(t[b]) \in Nat /\ i \in 1 .. Len(t[b]) + 1
    BY <1>1, <1>2, <1>4
  <2>2. i # 1 => i - 1 \in 1 .. Len(t[b]) /\ i - 1 + 1 = i
    BY <2>1
  <2> QED
    BY <1>4, <2>2
<1>8. ASSUME NEW d \in Buckets, NEW i \in 1 .. Len(u[d])
      PROVE  BucketOf[u[d][i].key] = d /\ u[d][i].node \in S \cup {n}
             /\ lf[u[d][i].node] = u[d][i].key
  <2>1. \A x \in 1 .. Len(t[d]) :
          BucketOf[t[d][x].key] = d /\ t[d][x].node \in S /\ kf[t[d][x].node] = t[d][x].key
    BY DEF Holds
  <2>2. CASE d # b
    <3>1. u[d] = t[d]
      BY <1>5, <2>2
    <3>2. t[d][i].node \in S
      BY <2>1, <3>1
    <3>3. lf[t[d][i].node] = kf[t[d][i].node]
      BY <3>2
    <3> QED
      BY <2>1, <3>1, <3>2, <3>3
  <2>3. CASE d = b
    <3>1. e.key = k /\ e.node = n /\ BucketOf[k] = b /\ lf[n] = k
      OBVIOUS
    <3>2. i \in 1 .. Len(s) /\ u[d][i] = s[i]
      BY <1>5, <2>3
    <3>3. CASE s[i] = e
      BY <2>3, <3>1, <3>2, <3>3
    <3>4. CASE s[i] # e
      <4>1. PICK x \in 1 .. Len(t[b]) : s[i] = t[b][x]
        BY <1>7, <3>2, <3>4
      <4>2. t[b][x].node \in S
        BY <2>1, <2>3
      <4>3. lf[t[b][x].node] = kf[t[b][x].node]
        BY <4>2
      <4> QED
        BY <2>1, <2>3, <3>2, <4>1, <4>2, <4>3
    <3> QED
      BY <3>3, <3>4
  <2> QED
    BY <2>2, <2>3
<1>9. ASSUME NEW m \in S \cup {n}
      PROVE  \E d \in Buckets : \E i \in 1 .. Len(u[d]) : u[d][i].node = m
  <2>1. CASE m = n
    <3>1. 1 \in 1 .. Len(s) /\ s[1].node = n
      <4>1. Len(t[b]) \in Nat
        BY <1>1, <1>2
      <4> QED
        BY <1>4, <4>1
    <3> QED
      BY <1>1, <1>5, <2>1, <3>1
  <2>2. CASE m \in S
    <3>1a. PICK d \in Buckets : \E i \in 1 .. Len(t[d]) : t[d][i].node = m
      BY <2>2 DEF Holds
    <3>1. PICK i \in 1 .. Len(t[d]) : t[d][i].node = m
      BY <3>1a
    <3>2. CASE d = b
      <4>1. i + 1 \in 1 .. Len(s) /\ s[i + 1].node = m
        <5>1. Len(t[b]) \in Nat
          BY <1>1, <1>2
        <5>2. i \in 1 .. Len(t[b])
          BY <3>1, <3>2
        <5> QED
          BY <1>4, <3>1, <3>2, <5>1, <5>2
      <4> QED
        BY <1>1, <1>5, <4>1
    <3>3. CASE d # b
      BY <1>5, <3>1, <3>3
    <3> QED
      BY <3>2, <3>3
  <2> QED
    BY <2>1, <2>2
<1>10. ASSUME NEW d \in Buckets, NEW i \in 1 .. Len(u[d]), NEW j \in 1 .. Len(u[d]),
              u[d][i].key = u[d][j].key
       PROVE  i = j
  <2>1. \A x, y \in 1 .. Len(t[d]) : t[d][x].key = t[d][y].key => x = y
    BY DEF Holds
  <2>2. CASE d # b
    BY <1>5, <1>10, <2>1, <2>2
  <2>3. CASE d = b
    <3>1. i \in 1 .. Len(s) /\ j \in 1 .. Len(s) /\ s[i].key = s[j].key
      BY <1>5, <1>10, <2>3
    <3>2. e.key = k
      OBVIOUS
    <3>3. CASE i = 1
      BY <1>6, <1>7, <3>1, <3>2, <3>3
    <3>4. CASE j = 1
      BY <1>6, <1>7, <3>1, <3>2, <3>4
    <3>5. CASE i # 1 /\ j # 1
      <4>1. i - 1 \in 1 .. Len(t[b]) /\ j - 1 \in 1 .. Len(t[b]) /\ t[b][i - 1].key = t[b][j - 1].key
        BY <1>7, <3>1, <3>5
      <4>2. i - 1 = j - 1
        BY <2>1, <2>3, <4>1
      <4> QED
        BY <1>4, <3>1, <4>2
    <3> QED
      BY <3>3, <3>4, <3>5
  <2> QED
    BY <2>2, <2>3
<1>11. S \cup {n} \subseteq Nodes
  BY <1>2
<1> QED
  BY <1>5, <1>8, <1>9, <1>10, <1>11 DEF Holds

\* With a node its entry goes.
LEMMA RemoveHolds ==
  ASSUME NEW t, NEW S, NEW kf, Holds(t, S, kf), NEW n \in S, NEW lf,
         \A m \in S \ {n} : lf[m] = kf[m]
  PROVE  Holds(hash_remove_entry(t, kf[n]), S \ {n}, lf)
<1>0. \A x \in Buckets : \A y \in 1 .. Len(t[x]) : \A z :
        t[x][y].key = z => Hits(t[x], z) # {} /\ FirstOf(Hits(t[x], z)) = y
  BY FirstIsOnly
<1> PICK k : k = kf[n]
  OBVIOUS
<1> PICK b : b = BucketOf[k]
  OBVIOUS
<1> PICK u : u = hash_remove_entry(t, k)
  OBVIOUS
<1>1. k \in Keys /\ b \in Buckets
  BY HoldsFacts DEF Buckets
<1>2. /\ t \in [Buckets -> Seq(Entry)] /\ S \subseteq Nodes
      /\ \A d \in Buckets : /\ t[d] \in Seq(Entry) /\ Len(t[d]) \in Nat
                            /\ DOMAIN t[d] = 1 .. Len(t[d])
  BY HoldsFacts
<1>3. PICK i \in 1 .. Len(t[b]) : t[b][i].node = n /\ t[b][i].key = k
  <2>1a. PICK d \in Buckets : \E i \in 1 .. Len(t[d]) : t[d][i].node = n
    BY DEF Holds
  <2>1. PICK i \in 1 .. Len(t[d]) : t[d][i].node = n
    BY <2>1a
  <2>2. BucketOf[t[d][i].key] = d /\ kf[n] = t[d][i].key
    BY <2>1 DEF Holds
  <2> QED
    BY <2>1, <2>2
<1>4. Hits(t[b], k) # {} /\ FirstOf(Hits(t[b], k)) = i
  <2>1. i \in 1 .. Len(t[b]) /\ t[b][i].key = k /\ b \in Buckets
    BY <1>1, <1>3
  <2> QED
    BY <1>0, <2>1
<1> PICK s : s = RemoveAt(t[b], i)
  OBVIOUS
<1>5. u = [t EXCEPT ![b] = s]
  BY <1>4 DEF hash_remove_entry, Hits, FirstOf
<1> PICK N : N = Len(t[b])
  OBVIOUS
<1>6. /\ s \in Seq(Entry) /\ Len(s) = N - 1
      /\ \A j \in 1 .. N - 1 : s[j] = IF j < i THEN t[b][j] ELSE t[b][j + 1]
  <2>1. t[b] \in Seq(Entry) /\ i \in DOMAIN t[b]
    BY <1>1, <1>2
  <2> QED
    BY <2>1, RemoveAtElements, SMTT(30)
<1>7. u \in [Buckets -> Seq(Entry)] /\ u[b] = s /\ \A d \in Buckets \ {b} : u[d] = t[d]
  BY <1>1, <1>2, <1>5, <1>6
<1>8. N \in Nat /\ i \in 1 .. N
  BY <1>1, <1>2
<1>9. ASSUME NEW j \in 1 .. N - 1
      PROVE  \E x \in 1 .. N : x # i /\ s[j] = t[b][x] /\ x = IF j < i THEN j ELSE j + 1
  <2>1. CASE j < i
    <3>1. j \in 1 .. N /\ j # i
      BY <1>8, <2>1
    <3> QED
      BY <1>6, <2>1, <3>1
  <2>2. CASE ~(j < i)
    <3>1. j + 1 \in 1 .. N /\ j + 1 # i
      BY <1>8, <2>2
    <3> QED
      BY <1>6, <2>2, <3>1
  <2> QED
    BY <2>1, <2>2
<1>10. ASSUME NEW d \in Buckets, NEW x \in 1 .. Len(t[d]), t[d][x].node = n
       PROVE  d = b /\ x = i
  <2>1. BucketOf[t[d][x].key] = d /\ t[d][x].key = k
    BY <1>10 DEF Holds
  <2>2. d = b /\ t[b][x].key = t[b][i].key
    BY <1>3, <2>1
  <2> QED
    BY <1>1, <2>2 DEF Holds
<1>11. ASSUME NEW d \in Buckets, NEW j \in 1 .. Len(u[d])
       PROVE  \E x \in 1 .. Len(t[d]) : u[d][j] = t[d][x] /\ t[d][x].node # n
  <2>1. CASE d = b
    <3>0. j \in 1 .. N - 1
      BY <1>6, <1>7, <2>1
    <3>1. PICK x \in 1 .. N : x # i /\ s[j] = t[b][x]
      BY <1>9, <3>0
    <3> QED
      BY <1>7, <1>10, <2>1, <3>1
  <2>2. CASE d # b
    BY <1>7, <1>10, <2>2
  <2> QED
    BY <2>1, <2>2
<1>12. ASSUME NEW d \in Buckets, NEW j \in 1 .. Len(u[d])
       PROVE  BucketOf[u[d][j].key] = d /\ u[d][j].node \in S \ {n}
              /\ lf[u[d][j].node] = u[d][j].key
  <2>1. PICK x \in 1 .. Len(t[d]) : u[d][j] = t[d][x] /\ t[d][x].node # n
    BY <1>11
  <2>2. BucketOf[t[d][x].key] = d /\ t[d][x].node \in S /\ kf[t[d][x].node] = t[d][x].key
    BY DEF Holds
  <2> QED
    BY <2>1, <2>2
<1>13. ASSUME NEW m \in S \ {n}
       PROVE  \E d \in Buckets : \E j \in 1 .. Len(u[d]) : u[d][j].node = m
  <2>1a. PICK d \in Buckets : \E x \in 1 .. Len(t[d]) : t[d][x].node = m
    BY DEF Holds
  <2>1. PICK x \in 1 .. Len(t[d]) : t[d][x].node = m
    BY <2>1a
  <2>2. CASE d = b
    <3>1. x # i /\ x \in 1 .. N
      BY <1>3, <2>1, <2>2
    <3>2. CASE x < i
      <4>1. x \in 1 .. N - 1
        BY <1>8, <3>1, <3>2
      <4>2. s[x] = t[b][x]
        BY <1>6, <3>2, <4>1
      <4> QED
        BY <1>1, <1>6, <1>7, <2>1, <2>2, <4>1, <4>2
    <3>3. CASE ~(x < i)
      <4>1. x - 1 \in 1 .. N - 1 /\ ~(x - 1 < i) /\ x - 1 + 1 = x
        BY <1>8, <3>1, <3>3
      <4>2. s[x - 1] = t[b][x]
        BY <1>6, <4>1
      <4> QED
        BY <1>1, <1>6, <1>7, <2>1, <2>2, <4>1, <4>2
    <3> QED
      BY <3>2, <3>3
  <2>3. CASE d # b
    BY <1>7, <2>1, <2>3
  <2> QED
    BY <2>2, <2>3
<1>14. ASSUME NEW d \in Buckets, NEW j \in 1 .. Len(u[d]), NEW q \in 1 .. Len(u[d]),
              u[d][j].key = u[d][q].key
       PROVE  j = q
  <2>1. \A x, y \in 1 .. Len(t[d]) : t[d][x].key = t[d][y].key => x = y
    BY DEF Holds
  <2>2. CASE d # b
    BY <1>7, <1>14, <2>1, <2>2
  <2>3. CASE d = b
    <3>1. j \in 1 .. N - 1 /\ q \in 1 .. N - 1 /\ s[j].key = s[q].key
      BY <1>6, <1>7, <1>14, <2>3
    <3>2. PICK x \in 1 .. N : x # i /\ s[j] = t[b][x] /\ x = IF j < i THEN j ELSE j + 1
      BY <1>9, <3>1
    <3>3. PICK y \in 1 .. N : y # i /\ s[q] = t[b][y] /\ y = IF q < i THEN q ELSE q + 1
      BY <1>9, <3>1
    <3>4. x = y
      BY <2>1, <2>3, <3>1, <3>2, <3>3
    <3> QED
      BY <1>8, <3>1, <3>2, <3>3, <3>4
  <2> QED
    BY <2>2, <2>3
<1>15. S \ {n} \subseteq Nodes
  BY <1>2
<1> QED
  BY <1>7, <1>12, <1>13, <1>14, <1>15 DEF Holds
-----------------------------------------------------------------------------
\* The inductive invariant: the links hang up one sequence of nodes, the table
\* holds these nodes under their keys, and they are what is allocated.
CacheInv ==
  /\ state \in {"running", "ended", "failed"} /\ (state # "running" => capacity = 0)
  /\ capacity \in 0 .. MAX_CAPACITY /\ size \in 0 .. capacity
  /\ key \in [Nodes -> Keys \cup {NULL}] /\ value \in [Nodes -> Values \cup {NULL}]
  /\ printed \in Values \cup {NULL}
  /\ Hung(Forward, list) /\ Holds(buckets, ToSet(Forward), key)
  /\ size = Len(Forward) /\ allocated = ToSet(Forward)

\* Of no nodes: a list, and a table.
LEMMA EmptySequence ==
  /\ <<>> \in Seq(Nodes) /\ Len(<<>>) = 0 /\ IsInjective(<<>>) /\ ToSet(<<>>) = {}
  /\ Hung(<<>>, NoList) /\ \A kf : Holds([b \in Buckets |-> <<>>], {}, kf)
<1>1. <<>> \in Seq(Nodes) /\ Len(<<>>) = 0 /\ DOMAIN <<>> = {} /\ 1 .. 0 = {}
  OBVIOUS
<1>2. IsInjective(<<>>) /\ ToSet(<<>>) = {}
  BY <1>1 DEF IsInjective, ToSet
<1>3. /\ NoList \in Lists /\ NoList.head = NULL /\ NoList.tail = NULL
  BY DEF NoList, Lists, NodePointers
<1>4. Hung(<<>>, NoList)
  BY <1>1, <1>2, <1>3 DEF Hung
<1>5. ASSUME NEW kf PROVE Holds([b \in Buckets |-> <<>>], {}, kf)
  <2>1. <<>> \in Seq(Entry)
    OBVIOUS
  <2>2. /\ [b \in Buckets |-> <<>>] \in [Buckets -> Seq(Entry)]
        /\ \A d \in Buckets : [b \in Buckets |-> <<>>][d] = <<>>
    BY <2>1
  <2> QED
    BY <1>1, <2>2 DEF Holds
<1> QED
  BY <1>1, <1>2, <1>4, <1>5

\* A walk from the head and one from the tail meet the nodes of the list.
LEMMA ForwardIs ==
  ASSUME NEW c, Hung(c, list)
  PROVE  Forward = c /\ Backward = Reverse(c)
  BY WalkHung DEF Forward, Backward

\* The same after a step.
LEMMA ForwardIsNext ==
  ASSUME NEW c, Hung(c, list')
  PROVE  Forward' = c
  BY WalkHung DEF Forward

\* What the next state must be made of.
LEMMA InvNext ==
  ASSUME NEW c, Hung(c, list'), Holds(buckets', ToSet(c), key'),
         size' = Len(c), allocated' = ToSet(c),
         state' \in {"running", "ended", "failed"}, state' # "running" => capacity' = 0,
         capacity' \in 0 .. MAX_CAPACITY, size' \in 0 .. capacity',
         key' \in [Nodes -> Keys \cup {NULL}], value' \in [Nodes -> Values \cup {NULL}],
         printed' \in Values \cup {NULL}
  PROVE  CacheInv'
<1>1. Forward' = c
  BY ForwardIsNext
<1> QED
  BY <1>1 DEF CacheInv

\* lru_free leaves nothing.
LEMMA FreeEmpties ==
  ASSUME CacheInv, lru_free
  PROVE  /\ Hung(<<>>, list') /\ Holds(buckets', ToSet(<<>>), key')
         /\ size' = Len(<<>>) /\ allocated' = ToSet(<<>>) /\ size' = 0
         /\ key' \in [Nodes -> Keys \cup {NULL}] /\ value' \in [Nodes -> Values \cup {NULL}]
<1>1. /\ allocated' = allocated \ ToSet(Forward) /\ allocated = ToSet(Forward)
      /\ list' = NoList /\ buckets' = [b \in Buckets |-> <<>>] /\ size' = 0
  BY DEF CacheInv, lru_free, Freed
<1>2. /\ key' = [n \in Nodes |-> IF n \in ToSet(Forward) THEN NULL ELSE key[n]]
      /\ value' = [n \in Nodes |-> IF n \in ToSet(Forward) THEN NULL ELSE value[n]]
      /\ key \in [Nodes -> Keys \cup {NULL}] /\ value \in [Nodes -> Values \cup {NULL}]
  BY DEF CacheInv, lru_free, Freed
<1>3. key' \in [Nodes -> Keys \cup {NULL}] /\ value' \in [Nodes -> Values \cup {NULL}]
  BY <1>2
<1>4. Hung(<<>>, list') /\ ToSet(<<>>) = {} /\ Len(<<>>) = 0
  BY <1>1, EmptySequence
<1>5. Holds(buckets', {}, key')
  BY <1>1, EmptySequence
<1> QED
  BY <1>1, <1>3, <1>4, <1>5

\* The invariant holds at first.
LEMMA InvInit == CacheInit => CacheInv
<1> SUFFICES ASSUME CacheInit PROVE CacheInv
  OBVIOUS
<1>1. Hung(<<>>, list) /\ Holds(buckets, {}, key) /\ ToSet(<<>>) = {} /\ Len(<<>>) = 0
  BY EmptySequence DEF CacheInit
<1>2. Forward = <<>>
  BY <1>1, ForwardIs
<1>3. 0 \in 0 .. MAX_CAPACITY /\ 0 \in 0 .. 0
  BY CacheAssumption
<1>4. key \in [Nodes -> Keys \cup {NULL}] /\ value \in [Nodes -> Values \cup {NULL}]
  BY DEF CacheInit
<1> QED
  BY <1>1, <1>2, <1>3, <1>4 DEF CacheInit, CacheInv

\* A key found in the table is that of a node of the list.
LEMMA FindFacts ==
  ASSUME CacheInv, NEW k \in Keys
  PROVE  /\ hash_find_entry(k) # NULL =>
              \E i \in 1 .. Len(Forward) : hash_find_entry(k) = Forward[i] /\ key[Forward[i]] = k
         /\ \A n \in ToSet(Forward) : key[n] = k => hash_find_entry(k) = n
<1> PICK c : c = Forward
  OBVIOUS
<1>1. Hung(c, list) /\ Holds(buckets, ToSet(c), key)
  BY DEF CacheInv
<1>2. DOMAIN c = 1 .. Len(c)
  BY <1>1, HungFacts
<1>3. hash_find_entry(k) = Found(buckets, k)
  BY FindIsFound
<1>4. /\ Found(buckets, k) # NULL => Found(buckets, k) \in ToSet(c) /\ key[Found(buckets, k)] = k
      /\ \A n \in ToSet(c) : key[n] = k => Found(buckets, k) = n
  BY <1>1, FoundFacts
<1> QED
  BY <1>2, <1>3, <1>4 DEF ToSet

\* A use of the i-th node.
LEMMA UseSafe ==
  ASSUME CacheInv, NEW i \in 1 .. Len(Forward), list' = move_node_to_front(list, Forward[i]),
         UNCHANGED <<state, capacity, size, key, buckets, allocated>>,
         value' \in [Nodes -> Values \cup {NULL}], printed' \in Values \cup {NULL}
  PROVE  CacheInv' /\ Forward' = Moved(Forward, i)
<1> PICK c : c = Forward
  OBVIOUS
<1> PICK d : d = Moved(c, i)
  OBVIOUS
<1>1. Hung(c, list) /\ Holds(buckets, ToSet(c), key) /\ c \in Seq(Nodes) /\ IsInjective(c)
  BY DEF CacheInv, Hung
<1>2. Hung(d, list')
  BY <1>1, MoveHangs
<1>3. Len(d) = Len(c) /\ ToSet(d) = ToSet(c)
  BY <1>1, MovedFacts DEF FirstOthersAfter
<1>4. Forward' = d
  BY <1>2, ForwardIsNext
<1>5. CacheInv'
  BY <1>1, <1>2, <1>3, InvNext DEF CacheInv
<1> QED
  BY <1>4, <1>5

\* A new key while there is room.
LEMMA AddSafe ==
  ASSUME CacheInv, NEW k \in Keys, hash_find_entry(k) = NULL, size + 1 <= capacity,
         NEW n \in Nodes \ allocated, NEW copy \in Values \cup {NULL},
         list' = insert_node_front(list, n), buckets' = hash_insert_entry(buckets, k, n),
         key' = [key EXCEPT ![n] = k], value' = [value EXCEPT ![n] = copy],
         allocated' = allocated \cup {n}, size' = size + 1,
         UNCHANGED <<state, capacity, printed>>
  PROVE  CacheInv' /\ Forward' = <<n>> \o Forward
<1> PICK c : c = Forward
  OBVIOUS
<1> PICK d : d = <<n>> \o c
  OBVIOUS
<1>1. /\ Hung(c, list) /\ Holds(buckets, ToSet(c), key) /\ c \in Seq(Nodes) /\ IsInjective(c)
      /\ allocated = ToSet(c) /\ size = Len(c)
  BY DEF CacheInv, Hung
<1>2. Hung(d, list')
  BY <1>1, InsertHangs
<1>3. Len(d) = Len(c) + 1 /\ ToSet(d) = ToSet(c) \cup {n}
  BY <1>1, ConsFacts
<1>4. Holds(buckets', ToSet(c) \cup {n}, key')
  <2>1. Found(buckets, k) = NULL
    BY FindIsFound
  <2>2. n \notin ToSet(c) /\ ToSet(c) \subseteq Nodes
    BY <1>1, HoldsFacts
  <2>3. key'[n] = k /\ \A m \in ToSet(c) : key'[m] = key[m]
    BY <2>2 DEF CacheInv
  <2> QED
    BY <1>1, <2>1, <2>2, <2>3, InsertHolds
<1>5. /\ key' \in [Nodes -> Keys \cup {NULL}] /\ value' \in [Nodes -> Values \cup {NULL}]
  BY DEF CacheInv
<1>6. size' \in 0 .. capacity'
  BY CacheAssumption DEF CacheInv
<1>7. CacheInv'
  BY <1>1, <1>2, <1>3, <1>4, <1>5, <1>6, InvNext DEF CacheInv
<1> QED
  BY <1>2, <1>7, ForwardIsNext

\* A sequence with one element taken out.
LEMMA OneOut ==
  ASSUME NEW d \in Seq(Nodes), IsInjective(d), NEW m \in DOMAIN d
  PROVE  Len(RemoveAt(d, m)) = Len(d) - 1 /\ ToSet(RemoveAt(d, m)) = ToSet(d) \ {d[m]}
  BY RemoveAtElements, RemoveAtFacts

\* A new key in a full cache: the last node goes.
LEMMA EvictSafe ==
  ASSUME CacheInv, NEW k \in Keys, hash_find_entry(k) = NULL, capacity > 0, size + 1 > capacity,
         NEW n \in Nodes \ allocated, NEW copy \in Values \cup {NULL},
         NEW front, front = insert_node_front(list, n),
         list' = remove_tail_node(front),
         buckets' = hash_remove_entry(hash_insert_entry(buckets, k, n), [key EXCEPT ![n] = k][front.tail]),
         key' = [[key EXCEPT ![n] = k] EXCEPT ![front.tail] = NULL],
         value' = [[value EXCEPT ![n] = copy] EXCEPT ![front.tail] = NULL],
         allocated' = (allocated \cup {n}) \ {front.tail},
         UNCHANGED <<state, capacity, size, printed>>
  PROVE  /\ CacheInv' /\ Forward' = RemoveAt(<<n>> \o Forward, Len(Forward) + 1)
         /\ Len(Forward) = capacity /\ front.tail = Forward[Len(Forward)]
<1> PICK c : c = Forward
  OBVIOUS
<1> PICK d : d = <<n>> \o c
  OBVIOUS
<1> PICK N : N = Len(c)
  OBVIOUS
<1> PICK e : e = RemoveAt(d, N + 1)
  OBVIOUS
<1> PICK z : z = c[N]
  OBVIOUS
<1>1. /\ Hung(c, list) /\ Holds(buckets, ToSet(c), key) /\ c \in Seq(Nodes) /\ IsInjective(c)
      /\ allocated = ToSet(c) /\ size = N /\ n \notin ToSet(c)
  BY DEF CacheInv, Hung
<1>2. N = capacity /\ N \in Nat /\ N # 0 /\ N \in 1 .. N
  <2>1. capacity \in 0 .. MAX_CAPACITY /\ size \in 0 .. capacity /\ MAX_CAPACITY \in Nat
    BY CacheAssumption DEF CacheInv
  <2> QED
    BY <1>1, <2>1
<1>3. Hung(d, front)
  BY <1>1, InsertHangs
<1>4. /\ d \in Seq(Nodes) /\ IsInjective(d) /\ Len(d) = N + 1 /\ ToSet(d) = ToSet(c) \cup {n}
      /\ d[N + 1] = z /\ N + 1 # 0 /\ N + 1 \in DOMAIN d
  <2>1. /\ d \in Seq(Nodes) /\ Len(d) = N + 1 /\ ToSet(d) = ToSet(c) \cup {n}
        /\ d[N + 1] = z
    <3>1. n \in Nodes
      OBVIOUS
    <3>2. /\ d \in Seq(Nodes) /\ Len(d) = Len(c) + 1 /\ ToSet(d) = ToSet(c) \cup {n}
          /\ \A i \in 1 .. Len(c) : d[i + 1] = c[i]
      BY <1>1, <3>1, ConsFacts
    <3> QED
      BY <1>2, <3>2
  <2>2. IsInjective(d)
    BY <1>3 DEF Hung
  <2>3. DOMAIN d = 1 .. N + 1 /\ N + 1 \in 1 .. N + 1 /\ N + 1 # 0
    BY <1>2, <2>1
  <2> QED
    BY <2>1, <2>2, <2>3
<1>5. front.tail = z
  BY <1>3, <1>4 DEF Hung
<1>6. Hung(e, list')
  BY <1>3, <1>4, RemoveTailHangs
<1>7. Len(e) = N /\ ToSet(e) = (ToSet(c) \cup {n}) \ {z}
  <2>1. Len(e) = Len(d) - 1 /\ ToSet(e) = ToSet(d) \ {d[N + 1]}
    BY <1>4, OneOut, Zenon
  <2>2. N + 1 - 1 = N
    BY <1>2
  <2> QED
    BY <1>2, <1>4, <2>1, <2>2
<1>8. ToSet(c) \subseteq Nodes /\ z \in ToSet(c)
  <2>1. DOMAIN c = 1 .. N
    BY <1>1
  <2> QED
    BY <1>1, <1>2, <2>1, HoldsFacts DEF ToSet
<1> PICK kf : kf = [key EXCEPT ![n] = k]
  OBVIOUS
<1>9. kf \in [Nodes -> Keys \cup {NULL}] /\ kf[n] = k /\ \A m \in ToSet(c) : kf[m] = key[m]
  <2>1. key \in [Nodes -> Keys \cup {NULL}]
    BY DEF CacheInv
  <2> QED
    BY <1>1, <1>8, <2>1
<1>10. Holds(hash_insert_entry(buckets, k, n), ToSet(c) \cup {n}, kf)
  <2>1. Found(buckets, k) = NULL
    BY FindIsFound
  <2> QED
    BY <1>1, <1>9, <2>1, InsertHolds
<1>11. key' = [kf EXCEPT ![z] = NULL] /\ buckets' = hash_remove_entry(hash_insert_entry(buckets, k, n), kf[z])
  BY <1>5
<1>12. \A m \in (ToSet(c) \cup {n}) \ {z} : key'[m] = kf[m]
  BY <1>8, <1>9, <1>11
<1>13. Holds(buckets', ToSet(e), key')
  <2>1. z \in ToSet(c) \cup {n}
    BY <1>8
  <2>2. Holds(hash_remove_entry(hash_insert_entry(buckets, k, n), kf[z]), (ToSet(c) \cup {n}) \ {z}, key')
    <3>1. PICK t : t = hash_insert_entry(buckets, k, n)
      OBVIOUS
    <3>2. PICK S : S = ToSet(c) \cup {n}
      OBVIOUS
    <3>3. PICK lf : lf = key'
      OBVIOUS
    <3>4. Holds(t, S, kf) /\ z \in S /\ \A m \in S \ {z} : lf[m] = kf[m]
      BY <1>10, <1>12, <2>1, <3>1, <3>2, <3>3
    <3>5. Holds(hash_remove_entry(t, kf[z]), S \ {z}, lf)
      BY ONLY <3>4, RemoveHolds
    <3> QED
      BY <3>1, <3>2, <3>3, <3>5
  <2> QED
    BY <1>7, <1>11, <2>2
<1>14. /\ key' \in [Nodes -> Keys \cup {NULL}] /\ value' \in [Nodes -> Values \cup {NULL}]
  <2>1. value \in [Nodes -> Values \cup {NULL}] /\ z \in Nodes
    BY <1>8 DEF CacheInv
  <2> QED
    BY <1>5, <1>9, <1>11, <2>1
<1>15. allocated' = ToSet(e)
  BY <1>1, <1>5, <1>7
<1>16. CacheInv'
  BY <1>1, <1>6, <1>7, <1>13, <1>14, <1>15, InvNext DEF CacheInv
<1>17. Forward' = e
  BY <1>6, ForwardIsNext
<1> QED
  BY <1>2, <1>5, <1>16, <1>17

-----------------------------------------------------------------------------
\* Every command keeps the invariant.
LEMMA InvStep == CacheInv /\ [CacheNext]_cacheVars => CacheInv'
<1> SUFFICES ASSUME CacheInv, [CacheNext]_cacheVars PROVE CacheInv'
  OBVIOUS
<1>1. ASSUME NEW x \in CapacityInputs, createCache(x) PROVE CacheInv'
  <2>1. lru_free /\ x >= 1 /\ x <= MAX_CAPACITY /\ UNCHANGED printed
        /\ ((capacity' = x /\ UNCHANGED state) \/ (capacity' = 0 /\ state' = "failed"))
        /\ state = "running"
    BY <1>1 DEF createCache, Lines
  <2>2. capacity' \in 0 .. MAX_CAPACITY /\ 0 \in 0 .. capacity'
    BY <2>1, CacheAssumption
  <2> QED
    BY <2>1, <2>2, FreeEmpties, InvNext DEF CacheInv
<1>2. ASSUME NEW k \in Keys, getHit(k) PROVE CacheInv'
  <2>1. PICK i \in 1 .. Len(Forward) : hash_find_entry(k) = Forward[i]
    BY <1>2, FindFacts DEF getHit
  <2>2. Forward[i] \in Nodes
    BY HungFacts DEF CacheInv
  <2>3. printed' \in Values \cup {NULL} /\ value' \in [Nodes -> Values \cup {NULL}]
    BY <1>2, <2>1, <2>2 DEF getHit, CacheInv
  <2> QED
    BY <1>2, <2>1, <2>3, UseSafe DEF getHit
<1>3. ASSUME NEW k \in Keys, getMiss(k) PROVE CacheInv'
  <2>1. Hung(Forward, list')
    BY <1>3 DEF getMiss, CacheInv
  <2> QED
    BY <1>3, <2>1, InvNext DEF getMiss, CacheInv
<1>4. ASSUME NEW k \in Keys, putFails(k) PROVE CacheInv'
  <2>1. 0 \in 0 .. MAX_CAPACITY /\ 0 \in 0 .. 0
    BY CacheAssumption
  <2> QED
    BY <1>4, <2>1, FreeEmpties, InvNext DEF putFails, CacheInv
<1>5. ASSUME NEW k \in Keys, NEW v \in Values, putExisting(k, v) PROVE CacheInv'
  <2>1. PICK i \in 1 .. Len(Forward) : hash_find_entry(k) = Forward[i]
    BY <1>5, FindFacts DEF putExisting
  <2>2. Forward[i] \in Nodes
    BY HungFacts DEF CacheInv
  <2>3. value' \in [Nodes -> Values \cup {NULL}]
    <3>1. PICK copy \in Values \cup {NULL} :
            value' = IF copy = NULL THEN value ELSE [value EXCEPT ![Forward[i]] = copy]
      BY <1>5, <2>1 DEF putExisting, string_duplicate
    <3> QED
      BY <2>2, <3>1 DEF CacheInv
  <2>4. printed' \in Values \cup {NULL}
    BY <1>5 DEF putExisting, CacheInv
  <2> QED
    BY <1>5, <2>1, <2>3, <2>4, UseSafe DEF putExisting
<1>6. ASSUME NEW k \in Keys, NEW v \in Values, putNew(k, v) PROVE CacheInv'
  <2>1. /\ capacity > 0 /\ hash_find_entry(k) = NULL /\ UNCHANGED <<state, capacity, printed>>
        /\ capacity \in Nat /\ size \in Nat
    BY <1>6, CacheAssumption DEF putNew, CacheInv
  <2>2. PICK copy \in string_duplicate(v), n \in Nodes \ allocated :
          LET front == insert_node_front(list, n)
              table == hash_insert_entry(buckets, k, n)
              keys == [key EXCEPT ![n] = k]
              values == [value EXCEPT ![n] = copy]
          IN IF size + 1 > capacity
             THEN /\ list' = remove_tail_node(front)
                  /\ buckets' = hash_remove_entry(table, keys[front.tail])
                  /\ key' = [keys EXCEPT ![front.tail] = NULL]
                  /\ value' = [values EXCEPT ![front.tail] = NULL]
                  /\ allocated' = (allocated \cup {n}) \ {front.tail}
                  /\ UNCHANGED size
             ELSE /\ list' = front /\ buckets' = table /\ key' = keys /\ value' = values
                  /\ allocated' = allocated \cup {n}
                  /\ size' = size + 1
    BY <1>6 DEF putNew
  <2>3. copy \in Values \cup {NULL}
    BY DEF string_duplicate
  <2>4. CASE size + 1 > capacity
    BY <2>1, <2>2, <2>3, <2>4, EvictSafe
  <2>5. CASE ~(size + 1 > capacity)
    <3>1. size + 1 <= capacity
      BY <2>1, <2>5
    <3> QED
      BY <2>1, <2>2, <2>3, <2>5, <3>1, AddSafe
  <2> QED
    BY <2>4, <2>5
<1>7. ASSUME exit PROVE CacheInv'
  <2>1. 0 \in 0 .. MAX_CAPACITY /\ 0 \in 0 .. 0
    BY CacheAssumption
  <2> QED
    BY <1>7, <2>1, FreeEmpties, InvNext DEF exit, CacheInv
<1>8. ASSUME UNCHANGED cacheVars PROVE CacheInv'
  <2>1. Hung(Forward, list')
    BY <1>8 DEF cacheVars, CacheInv
  <2> QED
    BY <1>8, <2>1, InvNext DEF cacheVars, CacheInv
<1> QED
  BY <1>1, <1>2, <1>3, <1>4, <1>5, <1>6, <1>7, <1>8 DEF CacheNext

\* The invariant holds always.
LEMMA InvAlways == CacheSpec => []CacheInv
  BY InvInit, InvStep, PTL DEF CacheSpec

\* What the invariant says of the property's parts.
LEMMA InvGivesOK == CacheInv => CacheOK
<1> SUFFICES ASSUME CacheInv PROVE CacheOK
  OBVIOUS
<1> PICK c : c = Forward
  OBVIOUS
<1>1. /\ Hung(c, list) /\ Holds(buckets, ToSet(c), key)
      /\ allocated = ToSet(c) /\ size = Len(c)
  BY DEF CacheInv
<1>2. /\ c \in Seq(Nodes) /\ Len(c) \in Nat /\ DOMAIN c = 1 .. Len(c) /\ list \in Lists
      /\ \A i, j \in 1 .. Len(c) : c[i] = c[j] => i = j
  BY <1>1, HungFacts
<1>3. Backward = Reverse(c)
  BY <1>1, ForwardIs
<1>4. ListWellLinked
  BY <1>1, <1>2, <1>3 DEF ListWellLinked
<1>5. NothingLostNorDangling
  <2>1. ASSUME state = "ended" PROVE allocated = {}
    <3>1. Len(c) = 0
      BY <1>1, <2>1 DEF CacheInv
    <3> QED
      BY <1>1, <1>2, <3>1 DEF ToSet
  <2> QED
    BY <1>1, <2>1 DEF NothingLostNorDangling
<1>6. /\ \A b \in Buckets : /\ buckets[b] \in Seq(Entry) /\ DOMAIN buckets[b] = 1 .. Len(buckets[b])
      /\ ToSet(c) \subseteq Nodes
  BY <1>1, HoldsFacts
<1>7. CacheTypeOK
  BY <1>1, <1>2, <1>6 DEF CacheInv, CacheTypeOK, Lists, Entry
<1>8. TableMatchesList
  <2> DEFINE entries == UNION { {b} \X DOMAIN buckets[b] : b \in Buckets }
             entry(e) == buckets[e[1]][e[2]]
  <2>1. \A e : e \in entries <=> \E b \in Buckets : \E i \in 1 .. Len(buckets[b]) : e = <<b, i>>
    BY <1>6
  <2> HIDE DEF entries
  <2>2. \A b \in Buckets : \A i \in 1 .. Len(buckets[b]) :
          /\ BucketOf[buckets[b][i].key] = b /\ buckets[b][i].node \in ToSet(c)
          /\ key[buckets[b][i].node] = buckets[b][i].key
    BY <1>1 DEF Holds
  <2>3. \A e \in entries : /\ BucketOf[entry(e).key] = e[1] /\ key[entry(e).node] = entry(e).key
                           /\ entry(e).node \in ToSet(c)
    BY <2>1, <2>2
  <2>4. ToSet(c) \subseteq { entry(e).node : e \in entries }
    <3>1. ASSUME NEW n \in ToSet(c) PROVE \E e \in entries : entry(e).node = n
      <4>1. PICK b \in Buckets : \E i \in 1 .. Len(buckets[b]) : buckets[b][i].node = n
        BY <1>1 DEF Holds
      <4>2. PICK i \in 1 .. Len(buckets[b]) : buckets[b][i].node = n
        BY <4>1
      <4>3. <<b, i>> \in entries
        BY <2>1
      <4> QED
        BY <4>2, <4>3
    <3> QED
      BY <3>1
  <2>5. ASSUME NEW e \in entries, NEW f \in entries,
               entry(e).node = entry(f).node \/ entry(e).key = entry(f).key
        PROVE  e = f
    <3>1. entry(e).key = entry(f).key
      BY <2>3, <2>5
    <3>2. e[1] = f[1]
      BY <2>3, <3>1
    <3>3. PICK b \in Buckets : \E i \in 1 .. Len(buckets[b]) : e = <<b, i>>
      BY <2>1
    <3>4. PICK i \in 1 .. Len(buckets[b]) : e = <<b, i>>
      BY <3>3
    <3>5. PICK d \in Buckets : \E j \in 1 .. Len(buckets[d]) : f = <<d, j>>
      BY <2>1
    <3>6. PICK j \in 1 .. Len(buckets[d]) : f = <<d, j>>
      BY <3>5
    <3>7. b = d
      BY <3>2, <3>4, <3>6
    <3>8. i = j
      <4>1. buckets[b][i].key = buckets[b][j].key
        BY <3>1, <3>4, <3>6, <3>7
      <4> QED
        BY <1>1, <3>6, <3>7, <4>1 DEF Holds
    <3> QED
      BY <3>4, <3>6, <3>7, <3>8
  <2>6. { entry(e).node : e \in entries } = ToSet(c)
    BY <2>3, <2>4
  <2> HIDE DEF entry
  <2> QED
    BY <2>3, <2>5, <2>6 DEF TableMatchesList, entries, entry
<1> QED
  BY <1>4, <1>5, <1>7, <1>8 DEF CacheOK

\* The list, the hash table and the heap describe one and the same set of
\* nodes after every command of lru_cache.c, also where malloc fails in the
\* middle: the list reads the same from both ends and size counts it, every
\* bucket holds entries of its own keys, each leading to the node of its key,
\* and no node is lost or left dangling.
THEOREM CacheCorrect == CacheSpec => []CacheOK
  BY InvAlways, InvGivesOK, PTL
-----------------------------------------------------------------------------
\* The keys used before the q-th of a sequence of keys, most recent first.
Ahead(s, q) == { s[j] : j \in 1 .. q - 1 }
Recent(s) == [k \in ToSet(s) |-> Ahead(s, CHOOSE i \in DOMAIN s : s[i] = k)]

\* The policy's Used, of any such function.
UsedIn(before, k, room) ==
  LET other == [j \in DOMAIN before \ {k} |-> before[j] \cup {k}]
      kept == { j \in DOMAIN other : Cardinality(other[j]) < room }
  IN [j \in {k} \cup kept |-> IF j = k THEN {} ELSE other[j]]

\* The keys of a sequence are the domain of Recent, each with those ahead of it.
LEMMA RecentFacts ==
  ASSUME NEW s \in Seq(Keys), IsInjective(s)
  PROVE  /\ DOMAIN Recent(s) = ToSet(s) /\ Len(s) \in Nat /\ DOMAIN s = 1 .. Len(s)
         /\ \A q \in 1 .. Len(s) : s[q] \in ToSet(s) /\ Recent(s)[s[q]] = Ahead(s, q)
         /\ \A q, r \in 1 .. Len(s) : s[q] = s[r] => q = r
<1>1. /\ DOMAIN Recent(s) = ToSet(s) /\ Len(s) \in Nat /\ DOMAIN s = 1 .. Len(s)
      /\ \A q, r \in 1 .. Len(s) : s[q] = s[r] => q = r
  BY DEF Recent, IsInjective
<1>2. ASSUME NEW q \in 1 .. Len(s) PROVE s[q] \in ToSet(s) /\ Recent(s)[s[q]] = Ahead(s, q)
  <2>1. s[q] \in ToSet(s)
    BY <1>1 DEF ToSet
  <2>2. (CHOOSE i \in DOMAIN s : s[i] = s[q]) = q
    BY <1>1
  <2> QED
    BY <2>1, <2>2 DEF Recent
<1> QED
  BY <1>1, <1>2

\* As many keys are ahead of a key as its place says.
LEMMA AheadSize ==
  ASSUME NEW s \in Seq(Keys), IsInjective(s), NEW q \in 1 .. Len(s)
  PROVE  /\ IsFiniteSet(Ahead(s, q)) /\ Cardinality(Ahead(s, q)) = q - 1
         /\ IsFiniteSet(ToSet(s)) /\ Cardinality(ToSet(s)) = Len(s)
         /\ Ahead(s, q) \subseteq ToSet(s) \ {s[q]}
<1>1. /\ Len(s) \in Nat /\ DOMAIN s = 1 .. Len(s)
      /\ \A i, j \in 1 .. Len(s) : s[i] = s[j] => i = j
  BY RecentFacts
<1>2. ASSUME NEW n \in Nat, n <= Len(s)
      PROVE  IsFiniteSet({ s[j] : j \in 1 .. n }) /\ Cardinality({ s[j] : j \in 1 .. n }) = n
  <2> PICK T : T = { s[j] : j \in 1 .. n }
    OBVIOUS
  <2> PICK f : f = [j \in 1 .. n |-> s[j]]
    OBVIOUS
  <2>1. \A j \in 1 .. n : j \in 1 .. Len(s)
    BY <1>1, <1>2
  <2>2. f \in [1 .. n -> T] /\ \A i, j \in 1 .. n : f[i] = f[j] => i = j
    BY <1>1, <2>1
  <2>3. \A x \in T : \E j \in 1 .. n : f[j] = x
    OBVIOUS
  <2>4. f \in Bijection(1 .. n, T)
    BY <2>2, <2>3 DEF Bijection, Injection, Surjection, IsInjective
  <2>5. IsFiniteSet(1 .. n) /\ Cardinality(1 .. n) = n
    BY IntervalFacts
  <2> QED
    <3>1. ExistsBijection(1 .. n, T)
      BY <2>4 DEF ExistsBijection
    <3> QED
      BY <2>5, <3>1, FS_Bijection
<1>3. q - 1 \in Nat /\ q - 1 <= Len(s) /\ Len(s) <= Len(s)
  BY <1>1
<1>4. IsFiniteSet(Ahead(s, q)) /\ Cardinality(Ahead(s, q)) = q - 1
  BY <1>2, <1>3 DEF Ahead
<1>5. ToSet(s) = { s[j] : j \in 1 .. Len(s) }
  BY <1>1 DEF ToSet
<1>6. IsFiniteSet(ToSet(s)) /\ Cardinality(ToSet(s)) = Len(s)
  BY <1>1, <1>2, <1>3, <1>5
<1>7. \A j \in 1 .. q - 1 : j \in 1 .. Len(s) /\ j # q
  BY <1>1
<1>8. Ahead(s, q) \subseteq ToSet(s) \ {s[q]}
  BY <1>1, <1>5, <1>7 DEF Ahead
<1> QED
  BY <1>4, <1>6, <1>8

\* In t the key k is in front of those of s, one of which may be left out:
\* k itself, that stood at i, or some behind them all.
Shifted(s, t, k, i) ==
  /\ s \in Seq(Keys) /\ IsInjective(s) /\ t \in Seq(Keys) /\ IsInjective(t) /\ i \in Nat
  /\ Len(t) # 0 /\ t[1] = k
  /\ \A m \in 1 .. Len(t) : 1 < m /\ m <= i => m - 1 \in 1 .. Len(s) /\ t[m] = s[m - 1]
  /\ \A m \in 1 .. Len(t) : 1 < m /\ ~(m <= i) =>
       m \in 1 .. Len(s) /\ t[m] = s[m] /\ i \in 1 .. Len(s) /\ s[i] = k

\* With k in front, k is ahead of every other key, and the rest as before.
LEMMA ShiftedAhead ==
  ASSUME NEW s, NEW t, NEW k, NEW i, Shifted(s, t, k, i), NEW m \in 1 .. Len(t), 1 < m
  PROVE  \E q \in 1 .. Len(s) :
           q = (IF m <= i THEN m - 1 ELSE m) /\ t[m] = s[q] /\ Ahead(t, m) = Ahead(s, q) \cup {k}
<1> PICK q : q = IF m <= i THEN m - 1 ELSE m
  OBVIOUS
<1>1. /\ s \in Seq(Keys) /\ t \in Seq(Keys) /\ Len(s) \in Nat /\ Len(t) \in Nat /\ i \in Nat
      /\ t[1] = k /\ m \in 1 .. Len(t) /\ 1 \in 1 .. m - 1
  BY DEF Shifted
<1>2. ASSUME NEW j \in 1 .. Len(t), 1 < j, j <= i PROVE j - 1 \in 1 .. Len(s) /\ t[j] = s[j - 1]
  BY <1>2 DEF Shifted
<1>3. ASSUME NEW j \in 1 .. Len(t), 1 < j, ~(j <= i)
      PROVE  j \in 1 .. Len(s) /\ t[j] = s[j] /\ i \in 1 .. Len(s) /\ s[i] = k
  BY <1>3 DEF Shifted
<1>4. q \in 1 .. Len(s) /\ t[m] = s[q]
  BY <1>2, <1>3
<1>5. ASSUME NEW x \in Ahead(t, m) PROVE x \in Ahead(s, q) \cup {k}
  <2>1. PICK j \in 1 .. m - 1 : x = t[j]
    BY DEF Ahead
  <2>2. j \in 1 .. Len(t)
    BY <1>1
  <2>3. CASE j = 1
    BY <1>1, <2>1, <2>3
  <2>4. CASE 1 < j /\ j <= i
    <3>1. x = s[j - 1]
      BY <1>2, <2>1, <2>2, <2>4
    <3>2. j - 1 \in 1 .. q - 1
      BY <1>1, <2>4
    <3> QED
      BY <3>1, <3>2 DEF Ahead
  <2>5. CASE ~(j <= i)
    <3>1. 1 < j \/ j = 1
      BY <1>1
    <3>2. 1 < j => x = s[j]
      BY <1>3, <2>1, <2>2, <2>5
    <3>3. j \in 1 .. q - 1
      BY <1>1, <2>5
    <3> QED
      BY <2>3, <3>1, <3>2, <3>3 DEF Ahead
  <2>6. j = 1 \/ 1 < j
    BY <1>1
  <2> QED
    BY <2>3, <2>4, <2>5, <2>6
<1>6. k \in Ahead(t, m)
  BY <1>1 DEF Ahead
<1>7. ASSUME NEW x \in Ahead(s, q) PROVE x \in Ahead(t, m)
  <2>1. PICK j \in 1 .. q - 1 : x = s[j]
    BY DEF Ahead
  <2>2. CASE j < i
    <3>1. j + 1 \in 1 .. m - 1 /\ j + 1 \in 1 .. Len(t) /\ 1 < j + 1 /\ j + 1 <= i /\ j + 1 - 1 = j
      BY <1>1, <1>4, <2>2
    <3>2. t[j + 1] = s[j]
      BY <1>2, <3>1
    <3> QED
      BY <2>1, <3>1, <3>2 DEF Ahead
  <2>3. CASE j = i
    <3>1. ~(m <= i)
      BY <1>1, <1>4, <2>3
    <3>2. s[i] = k
      BY <1>3, <3>1
    <3> QED
      BY <1>6, <2>1, <2>3, <3>2
  <2>4. CASE j > i
    <3>1. j \in 1 .. m - 1 /\ j \in 1 .. Len(t) /\ ~(j <= i)
      BY <1>1, <1>4, <2>4
    <3>2. i # 0 /\ 1 < j
      <4>1. ~(m <= i)
        BY <1>1, <1>4, <2>4
      <4>2. i \in 1 .. Len(s)
        BY <1>3, <4>1
      <4> QED
        BY <1>1, <2>4, <4>2
    <3>3. t[j] = s[j]
      BY <1>3, <3>1, <3>2
    <3> QED
      BY <2>1, <3>1, <3>3 DEF Ahead
  <2>5. j < i \/ j = i \/ j > i
    BY <1>1, <1>4
  <2> QED
    BY <2>2, <2>3, <2>4, <2>5
<1> QED
  BY <1>4, <1>5, <1>6, <1>7

\* The policy's function after a use is that of the shifted keys, if the same
\* keys stay.
LEMMA UsedShifted ==
  ASSUME NEW s, NEW t, NEW k, NEW i, Shifted(s, t, k, i), NEW room,
         \A q \in 1 .. Len(s) : s[q] # k =>
            (s[q] \in ToSet(t) <=> Cardinality(Ahead(s, q) \cup {k}) < room)
  PROVE  UsedIn(Recent(s), k, room) = Recent(t)
<1> PICK u : u = UsedIn(Recent(s), k, room)
  OBVIOUS
<1> DEFINE other == [j \in DOMAIN Recent(s) \ {k} |-> Recent(s)[j] \cup {k}]
           kept == { j \in DOMAIN other : Cardinality(other[j]) < room }
<1>1. /\ s \in Seq(Keys) /\ IsInjective(s) /\ t \in Seq(Keys) /\ IsInjective(t)
      /\ Len(t) # 0 /\ t[1] = k /\ i \in Nat
  BY DEF Shifted
<1>2. /\ DOMAIN Recent(s) = ToSet(s) /\ Len(s) \in Nat /\ DOMAIN s = 1 .. Len(s)
      /\ \A q \in 1 .. Len(s) : s[q] \in ToSet(s) /\ Recent(s)[s[q]] = Ahead(s, q)
      /\ \A q, r \in 1 .. Len(s) : s[q] = s[r] => q = r
  BY <1>1, RecentFacts
<1>3. /\ DOMAIN Recent(t) = ToSet(t) /\ Len(t) \in Nat /\ DOMAIN t = 1 .. Len(t)
      /\ \A q \in 1 .. Len(t) : t[q] \in ToSet(t) /\ Recent(t)[t[q]] = Ahead(t, q)
      /\ \A q, r \in 1 .. Len(t) : t[q] = t[r] => q = r
  BY <1>1, RecentFacts
<1>4. u = [j \in {k} \cup kept |-> IF j = k THEN {} ELSE other[j]]
  BY DEF UsedIn
<1>5. /\ DOMAIN other = ToSet(s) \ {k}
      /\ \A q \in 1 .. Len(s) : s[q] # k => other[s[q]] = Ahead(s, q) \cup {k}
  BY <1>2
<1> HIDE DEF other
<1>6. 1 \in 1 .. Len(t) /\ k \in ToSet(t)
  <2>1. 1 \in 1 .. Len(t)
    BY <1>1, <1>3
  <2> QED
    BY <1>1, <1>3, <2>1
<1>7. \A x \in ToSet(s) : \E q \in 1 .. Len(s) : x = s[q]
  BY <1>2 DEF ToSet
<1>8. \A x \in ToSet(t) : \E m \in 1 .. Len(t) : x = t[m]
  BY <1>3 DEF ToSet
<1>9. ASSUME NEW m \in 1 .. Len(t), 1 < m
      PROVE  t[m] # k /\ \E q \in 1 .. Len(s) : t[m] = s[q] /\ Ahead(t, m) = Ahead(s, q) \cup {k}
  <2>1. t[m] # k
    BY <1>1, <1>3, <1>6, <1>9
  <2> QED
    BY <1>9, <2>1, ShiftedAhead
<1>10. \A m \in 1 .. Len(t) : m = 1 \/ 1 < m
  BY <1>3
<1>11. ASSUME NEW x \in ToSet(t), x # k PROVE x \in kept /\ other[x] = Recent(t)[x]
  <2>1. PICK m \in 1 .. Len(t) : x = t[m]
    BY <1>8
  <2>2. 1 < m
    BY <1>1, <1>10, <1>11, <2>1
  <2>3. PICK q \in 1 .. Len(s) : t[m] = s[q] /\ Ahead(t, m) = Ahead(s, q) \cup {k}
    BY <1>9, <2>2
  <2>4. s[q] # k /\ s[q] \in ToSet(t)
    BY <1>11, <2>1, <2>3
  <2>5. Cardinality(Ahead(s, q) \cup {k}) < room
    BY <2>4
  <2>6. x \in DOMAIN other /\ other[x] = Ahead(s, q) \cup {k}
    BY <1>2, <1>5, <2>1, <2>3, <2>4
  <2> QED
    BY <1>3, <2>1, <2>3, <2>5, <2>6
<1>12. ASSUME NEW x \in kept PROVE x \in ToSet(t)
  <2>1. x \in ToSet(s) /\ x # k /\ Cardinality(other[x]) < room
    BY <1>5
  <2>2. PICK q \in 1 .. Len(s) : x = s[q]
    BY <1>7, <2>1
  <2> QED
    BY <1>5, <2>1, <2>2
<1> HIDE DEF kept
<1>13. Recent(t)[k] = {}
  <2>1. Recent(t)[k] = Ahead(t, 1)
    BY <1>1, <1>3, <1>6
  <2>2. 1 .. 1 - 1 = {}
    OBVIOUS
  <2> QED
    BY <2>1, <2>2 DEF Ahead
<1>14. {k} \cup kept = ToSet(t)
  BY <1>6, <1>11, <1>12
<1>15. \A x \in ToSet(t) : u[x] = Recent(t)[x]
  BY <1>4, <1>11, <1>13, <1>14
<1>16. u = [x \in ToSet(t) |-> u[x]] /\ Recent(t) = [x \in ToSet(t) |-> Recent(t)[x]]
  BY <1>4, <1>14 DEF Recent
<1> QED
  BY <1>15, <1>16

\* A use of a cached key drops none.
LEMMA UsedHit ==
  ASSUME NEW s, NEW t, NEW k, NEW i \in 1 .. Len(s), Shifted(s, t, k, i), s[i] = k,
         ToSet(t) = ToSet(s), NEW room \in Nat, Len(s) <= room
  PROVE  UsedIn(Recent(s), k, room) = Recent(t)
<1>1. /\ s \in Seq(Keys) /\ IsInjective(s)
  BY DEF Shifted
<1>2. /\ Len(s) \in Nat /\ \A q \in 1 .. Len(s) : s[q] \in ToSet(s)
  BY <1>1, RecentFacts
<1>3. ASSUME NEW q \in 1 .. Len(s), s[q] # k PROVE Cardinality(Ahead(s, q) \cup {k}) < room
  <2>1. /\ IsFiniteSet(ToSet(s)) /\ Cardinality(ToSet(s)) = Len(s)
        /\ Ahead(s, q) \subseteq ToSet(s) \ {s[q]}
    BY <1>1, AheadSize
  <2>2. Ahead(s, q) \cup {k} \subseteq ToSet(s) \ {s[q]}
    BY <1>2, <1>3, <2>1
  <2>3. IsFiniteSet(ToSet(s) \ {s[q]}) /\ Cardinality(ToSet(s) \ {s[q]}) = Len(s) - 1
    BY <1>2, <2>1, FS_RemoveElement
  <2>4. /\ Cardinality(Ahead(s, q) \cup {k}) <= Cardinality(ToSet(s) \ {s[q]})
        /\ IsFiniteSet(Ahead(s, q) \cup {k})
    BY <2>2, <2>3, FS_Subset
  <2>5. Cardinality(Ahead(s, q) \cup {k}) \in Nat
    BY <2>4, FS_CardinalityType
  <2> QED
    BY <1>2, <2>3, <2>4, <2>5
<1> QED
  BY <1>2, <1>3, UsedShifted

\* A new key drops the last one, and only where there is no room for it.
LEMMA UsedNew ==
  ASSUME NEW s, NEW t, NEW k, NEW i, Shifted(s, t, k, i), k \notin ToSet(s),
         NEW room \in Nat, Len(s) <= room,
         ToSet(t) = (IF Len(s) = room THEN ToSet(s) \ {s[Len(s)]} ELSE ToSet(s)) \cup {k}
  PROVE  UsedIn(Recent(s), k, room) = Recent(t)
<1>1. /\ s \in Seq(Keys) /\ IsInjective(s)
  BY DEF Shifted
<1>2. /\ Len(s) \in Nat /\ \A q \in 1 .. Len(s) : s[q] \in ToSet(s)
      /\ \A q, r \in 1 .. Len(s) : s[q] = s[r] => q = r
  BY <1>1, RecentFacts
<1>3. ASSUME NEW q \in 1 .. Len(s), s[q] # k
      PROVE  s[q] \in ToSet(t) <=> Cardinality(Ahead(s, q) \cup {k}) < room
  <2>1. /\ IsFiniteSet(Ahead(s, q)) /\ Cardinality(Ahead(s, q)) = q - 1
        /\ Ahead(s, q) \subseteq ToSet(s) \ {s[q]}
    BY <1>1, AheadSize
  <2>2. k \notin Ahead(s, q)
    BY <2>1
  <2>3. Cardinality(Ahead(s, q) \cup {k}) = q - 1 + 1
    BY <2>1, <2>2, FS_AddElement
  <2>4. Len(s) \in 1 .. Len(s)
    BY <1>2
  <2>5. CASE Len(s) = room
    <3>1. s[q] \in ToSet(t) <=> q # Len(s)
      BY <1>2, <1>3, <2>4, <2>5
    <3>2. q - 1 + 1 < room <=> q # Len(s)
      BY <1>2, <2>5
    <3> QED
      BY <2>3, <3>1, <3>2
  <2>6. CASE Len(s) # room
    <3>1. s[q] \in ToSet(t)
      BY <1>2, <2>6
    <3>2. q - 1 + 1 < room
      BY <1>2, <2>6
    <3> QED
      BY <2>3, <3>1, <3>2
  <2> QED
    BY <2>5, <2>6
<1> QED
  BY <1>3, UsedShifted
-----------------------------------------------------------------------------
KeySeq(c, kf) == [i \in 1 .. Len(c) |-> kf[c[i]]]

\* The keys of the nodes of a list, in its order.
LEMMA KeySeqFacts ==
  ASSUME NEW c, NEW l, Hung(c, l), NEW t, NEW kf, Holds(t, ToSet(c), kf),
         NEW s, s = KeySeq(c, kf)
  PROVE  /\ s \in Seq(Keys) /\ Len(s) = Len(c) /\ IsInjective(s)
         /\ \A i \in 1 .. Len(c) : s[i] = kf[c[i]] /\ s[i] \in Keys
         /\ ToSet(s) = { kf[n] : n \in ToSet(c) }
<1>1. /\ c \in Seq(Nodes) /\ Len(c) \in Nat /\ DOMAIN c = 1 .. Len(c)
      /\ \A i, j \in 1 .. Len(c) : c[i] = c[j] => i = j
  BY HungFacts
<1>2. /\ \A n \in ToSet(c) : kf[n] \in Keys
      /\ \A m, n \in ToSet(c) : kf[m] = kf[n] => m = n
  BY HoldsFacts
<1>3. ToSet(c) = { c[i] : i \in 1 .. Len(c) }
  BY <1>1 DEF ToSet
<1>4. \A i \in 1 .. Len(c) : s[i] = kf[c[i]] /\ s[i] \in Keys
  BY <1>2, <1>3 DEF KeySeq
<1>5. s \in Seq(Keys) /\ Len(s) = Len(c) /\ DOMAIN s = 1 .. Len(c)
  BY <1>1, <1>4 DEF KeySeq
<1>6. \A i, j \in 1 .. Len(c) : s[i] = s[j] => i = j
  BY <1>1, <1>2, <1>3, <1>4
<1>7. IsInjective(s)
  BY <1>5, <1>6 DEF IsInjective
<1>8. ToSet(s) = { s[i] : i \in 1 .. Len(c) }
  BY <1>5 DEF ToSet
<1>9. ToSet(s) = { kf[n] : n \in ToSet(c) }
  BY <1>3, <1>4, <1>8
<1> QED
  BY <1>4, <1>5, <1>7, <1>9

\* The refinement mapping in these terms.
BeforeOf(c, kf) ==
  [k \in { kf[n] : n \in ToSet(c) } |->
     LET at == CHOOSE i \in DOMAIN c : kf[c[i]] = k
     IN { kf[c[j]] : j \in 1 .. at - 1 }]

\* The keys before a key among the nodes, and among their keys, are the same.
LEMMA BeforeIs ==
  ASSUME NEW c \in Seq(Nodes), NEW kf,
         NEW s, s = KeySeq(c, kf), ToSet(s) = { kf[n] : n \in ToSet(c) },
         IsInjective(s), s \in Seq(Keys)
  PROVE  BeforeOf(c, kf) = Recent(s)
<1>1. /\ Len(c) \in Nat /\ DOMAIN c = 1 .. Len(c) /\ DOMAIN s = 1 .. Len(c)
      /\ \A i \in 1 .. Len(c) : s[i] = kf[c[i]]
  BY DEF KeySeq
<1>2. ASSUME NEW k \in ToSet(s)
      PROVE  { kf[c[j]] : j \in 1 .. (CHOOSE i \in DOMAIN c : kf[c[i]] = k) - 1 }
               = Ahead(s, CHOOSE i \in DOMAIN s : s[i] = k)
  <2>1. PICK i \in 1 .. Len(c) : s[i] = k
    BY <1>1 DEF ToSet
  <2>2. \A j \in 1 .. Len(c) : s[j] = k => j = i
    BY <1>1, <2>1 DEF IsInjective
  <2>3. (CHOOSE x \in DOMAIN s : s[x] = k) = i
    BY <1>1, <2>1, <2>2
  <2>4. (CHOOSE x \in DOMAIN c : kf[c[x]] = k) = i
    BY <1>1, <2>1, <2>2
  <2>5. \A j \in 1 .. i - 1 : j \in 1 .. Len(c)
    BY <1>1
  <2>6. \A j \in 1 .. i - 1 : kf[c[j]] = s[j]
    BY <1>1, <2>5
  <2>7. { kf[c[j]] : j \in 1 .. i - 1 } = { s[j] : j \in 1 .. i - 1 }
    BY <2>6
  <2> QED
    BY <2>3, <2>4, <2>7 DEF Ahead
<1> QED
  BY <1>2 DEF Recent, BeforeOf

\* The mapping's function since is Recent of the keys of the list.
LEMMA SinceIs == CacheInv => Since = Recent(KeySeq(Forward, key))
<1> SUFFICES ASSUME CacheInv PROVE Since = Recent(KeySeq(Forward, key))
  OBVIOUS
<1> PICK c : c = Forward
  OBVIOUS
<1> PICK s : s = KeySeq(c, key)
  OBVIOUS
<1> PICK kf : kf = key
  OBVIOUS
<1>1. Hung(c, list) /\ Holds(buckets, ToSet(c), key) /\ c \in Seq(Nodes)
  BY DEF CacheInv, Hung
<1>2. s \in Seq(Keys) /\ IsInjective(s) /\ ToSet(s) = { kf[n] : n \in ToSet(c) }
  BY <1>1, KeySeqFacts
<1>3. Since = BeforeOf(c, kf)
  BY <1>1 DEF Since, Before, BeforeOf
<1>4. BeforeOf(c, kf) = Recent(s)
  BY <1>1, <1>2, BeforeIs
<1> QED
  BY <1>3, <1>4, Zenon

\* The mapping's function stored has the value of each node under its key.
LEMMA StoredIs ==
  CacheInv =>
    /\ DOMAIN Stored = ToSet(KeySeq(Forward, key))
    /\ \A n \in ToSet(Forward) : key[n] \in DOMAIN Stored /\ Stored[key[n]] = value[n]
<1> SUFFICES ASSUME CacheInv
             PROVE  /\ DOMAIN Stored = ToSet(KeySeq(Forward, key))
                    /\ \A n \in ToSet(Forward) : key[n] \in DOMAIN Stored /\ Stored[key[n]] = value[n]
  OBVIOUS
<1> PICK c : c = Forward
  OBVIOUS
<1> PICK s : s = KeySeq(c, key)
  OBVIOUS
<1>1. Hung(c, list) /\ Holds(buckets, ToSet(c), key) /\ c \in Seq(Nodes)
  BY DEF CacheInv, Hung
<1>2. ToSet(s) = { key[n] : n \in ToSet(c) }
  BY <1>1, KeySeqFacts
<1>3. ASSUME NEW n \in ToSet(c)
      PROVE  key[n] \in Keys /\ hash_find_entry(key[n]) = n /\ n # NULL
  <2>1. key[n] \in Keys /\ n \in Nodes
    BY <1>1, HoldsFacts
  <2> QED
    BY <2>1, FindFacts, CacheAssumption
<1>4. ASSUME NEW k \in Keys, hash_find_entry(k) # NULL PROVE k \in ToSet(s)
  <2>1. PICK i \in 1 .. Len(c) : key[c[i]] = k
    BY <1>4, FindFacts
  <2>2. c[i] \in ToSet(c)
    BY <1>1 DEF ToSet
  <2> QED
    BY <1>2, <2>1, <2>2
<1>5. { k \in Keys : hash_find_entry(k) # NULL } = ToSet(s)
  BY <1>2, <1>3, <1>4
<1>6. DOMAIN Stored = ToSet(s) /\ \A k \in ToSet(s) : Stored[k] = value[hash_find_entry(k)]
  BY <1>5 DEF Stored
<1> QED
  BY <1>2, <1>3, <1>6

\* What the mapping says of a list and a table that agree.
Mapped ==
  /\ Since = Recent(KeySeq(Forward, key))
  /\ DOMAIN Stored = ToSet(KeySeq(Forward, key))
  /\ \A n \in ToSet(Forward) : key[n] \in DOMAIN Stored /\ Stored[key[n]] = value[n]

\* Under the invariant the mapping says so.
LEMMA MappedAlways == CacheInv => Mapped
  BY SinceIs, StoredIs DEF Mapped

\* Used, of the policy.
LEMMA SameSize == ASSUME NEW S PROVE Policy!Cardinality(S) = Cardinality(S)
  BY DEF Policy!Cardinality, Cardinality

\* The policy's Used is UsedIn of the mapping.
LEMMA PolicyUsed == ASSUME NEW k PROVE Policy!Used(k) = UsedIn(Since, k, capacity)
  BY SameSize DEF Policy!Used, UsedIn

\* Moving a node to the front puts its key in front.
LEMMA MoveShifts ==
  ASSUME NEW c, NEW l, Hung(c, l), NEW i \in 1 .. Len(c), NEW d, d = Moved(c, i),
         NEW t, NEW kf, Holds(t, ToSet(c), kf)
  PROVE  /\ Shifted(KeySeq(c, kf), KeySeq(d, kf), kf[c[i]], i)
         /\ ToSet(KeySeq(d, kf)) = ToSet(KeySeq(c, kf))
         /\ Len(KeySeq(c, kf)) = Len(c) /\ KeySeq(c, kf)[i] = kf[c[i]]
<1> PICK s : s = KeySeq(c, kf)
  OBVIOUS
<1> PICK r : r = KeySeq(d, kf)
  OBVIOUS
<1> PICK N : N = Len(c)
  OBVIOUS
<1>1. c \in Seq(Nodes) /\ IsInjective(c)
  BY DEF Hung
<1>2. /\ d \in Seq(Nodes) /\ IsInjective(d) /\ Len(d) = N /\ ToSet(d) = ToSet(c)
      /\ d[1] = c[i]
      /\ \A j \in 1 .. N : 1 < j /\ j <= i => d[j] = c[j - 1]
      /\ \A j \in 1 .. N : i < j => d[j] = c[j]
  <2>1. FirstOthersAfter(c, i, d)
    BY <1>1, MovedFacts
  <2> QED
    BY <2>1 DEF FirstOthersAfter
<1>3. Hung(d, move_node_to_front(l, c[i]))
  BY MoveHangs
<1>4. /\ s \in Seq(Keys) /\ Len(s) = N /\ IsInjective(s)
      /\ \A j \in 1 .. N : s[j] = kf[c[j]]
      /\ ToSet(s) = { kf[n] : n \in ToSet(c) }
  BY KeySeqFacts
<1>5. Holds(t, ToSet(d), kf)
  BY <1>2
<1>6. /\ r \in Seq(Keys) /\ Len(r) = N /\ IsInjective(r)
      /\ \A j \in 1 .. N : r[j] = kf[d[j]]
      /\ ToSet(r) = { kf[n] : n \in ToSet(d) }
  BY <1>2, <1>3, <1>5, KeySeqFacts
<1>7. N \in Nat /\ i \in 1 .. N /\ i \in Nat /\ N # 0 /\ 1 \in 1 .. N
  BY <1>1
<1>8. r[1] = kf[c[i]] /\ s[i] = kf[c[i]]
  BY <1>2, <1>4, <1>6, <1>7
<1>9. ASSUME NEW m \in 1 .. N, 1 < m, m <= i PROVE m - 1 \in 1 .. N /\ r[m] = s[m - 1]
  <2>1. m - 1 \in 1 .. N
    BY <1>7, <1>9
  <2>2. d[m] = c[m - 1]
    BY <1>2, <1>9
  <2>3. r[m] = kf[d[m]]
    BY <1>6
  <2>4. s[m - 1] = kf[c[m - 1]]
    BY <1>4, <2>1
  <2> QED
    BY <2>1, <2>2, <2>3, <2>4
<1>10. ASSUME NEW m \in 1 .. N, 1 < m, ~(m <= i) PROVE r[m] = s[m]
  <2>1. i < m
    BY <1>7, <1>10
  <2>2. d[m] = c[m]
    BY <1>2, <2>1
  <2>3. r[m] = kf[d[m]] /\ s[m] = kf[c[m]]
    BY <1>4, <1>6
  <2> QED
    BY <2>2, <2>3
<1>11. Shifted(s, r, kf[c[i]], i)
  BY <1>4, <1>6, <1>7, <1>8, <1>9, <1>10 DEF Shifted
<1>12. ToSet(r) = ToSet(s)
  BY <1>2, <1>4, <1>6
<1> QED
  BY <1>4, <1>8, <1>11, <1>12

\* A use, as the policy sees it.
LEMMA UseRefines ==
  ASSUME CacheInv, CacheInv', NEW i \in 1 .. Len(Forward), Forward' = Moved(Forward, i),
         key' = key
  PROVE  /\ Since' = Policy!Used(key[Forward[i]])
         /\ DOMAIN Since' = DOMAIN Since /\ key[Forward[i]] \in DOMAIN Since
         /\ DOMAIN Stored' = DOMAIN Stored
         /\ DOMAIN Since = DOMAIN Stored
<1> PICK c : c = Forward
  OBVIOUS
<1> PICK d : d = Moved(c, i)
  OBVIOUS
<1> PICK kf : kf = key
  OBVIOUS
<1> PICK s : s = KeySeq(c, kf)
  OBVIOUS
<1> PICK r : r = KeySeq(d, kf)
  OBVIOUS
<1>1. Hung(c, list) /\ Holds(buckets, ToSet(c), kf) /\ Len(c) <= capacity /\ capacity \in Nat
  BY CacheAssumption DEF CacheInv
<1>2. /\ Shifted(s, r, kf[c[i]], i) /\ ToSet(r) = ToSet(s)
      /\ Len(s) = Len(c) /\ s[i] = kf[c[i]]
  BY <1>1, MoveShifts
<1>3. Since = Recent(s) /\ DOMAIN Stored = ToSet(s)
  BY SinceIs, StoredIs
<1>4. Since' = Recent(r) /\ DOMAIN Stored' = ToSet(r)
  <2>1. Mapped'
    BY MappedAlways, PTL
  <2> QED
    BY <2>1 DEF Mapped
<1>5. UsedIn(Recent(s), kf[c[i]], capacity) = Recent(r)
  BY <1>1, <1>2, UsedHit
<1>6. DOMAIN Recent(s) = ToSet(s) /\ DOMAIN Recent(r) = ToSet(r) /\ s[i] \in ToSet(s)
  BY <1>1, <1>2, RecentFacts DEF Shifted
<1> QED
  BY <1>2, <1>3, <1>4, <1>5, <1>6, PolicyUsed
-----------------------------------------------------------------------------
\* A new node in front puts its key in front.
LEMMA NewShifts ==
  ASSUME NEW c, NEW l, Hung(c, l), NEW kf, NEW t, Holds(t, ToSet(c), kf),
         NEW e, NEW g, Hung(e, g), NEW lf, NEW u, Holds(u, ToSet(e), lf),
         NEW n, NEW k, Len(e) # 0, e[1] = n, lf[n] = k, Len(e) <= Len(c) + 1,
         \A j \in 1 .. Len(e) : 1 < j => e[j] = c[j - 1],
         \A x \in ToSet(e) \ {n} : lf[x] = kf[x]
  PROVE  Shifted(KeySeq(c, kf), KeySeq(e, lf), k, Len(c) + 1)
<1> PICK s : s = KeySeq(c, kf)
  OBVIOUS
<1> PICK r : r = KeySeq(e, lf)
  OBVIOUS
<1> PICK N : N = Len(c)
  OBVIOUS
<1> PICK M : M = Len(e)
  OBVIOUS
<1>1. /\ s \in Seq(Keys) /\ Len(s) = N /\ IsInjective(s)
      /\ \A j \in 1 .. N : s[j] = kf[c[j]]
  BY KeySeqFacts
<1>2. /\ r \in Seq(Keys) /\ Len(r) = M /\ IsInjective(r)
      /\ \A j \in 1 .. M : r[j] = lf[e[j]]
  BY KeySeqFacts
<1>3. N \in Nat /\ M \in Nat /\ M # 0 /\ M <= N + 1 /\ N + 1 \in Nat /\ 1 \in 1 .. M
  <2>1. N \in Nat /\ M \in Nat
    BY HungFacts
  <2> QED
    BY <2>1
<1>4. r[1] = k
  BY <1>2, <1>3
<1>5. ASSUME NEW j \in 1 .. M, 1 < j PROVE j - 1 \in 1 .. N /\ r[j] = s[j - 1] /\ j <= N + 1
  <2>1. j - 1 \in 1 .. N /\ j <= N + 1
    BY <1>3, <1>5
  <2>2. e[j] = c[j - 1]
    BY <1>5
  <2>3. e[j] \in ToSet(e) /\ e[j] # n
    <3>1. /\ DOMAIN e = 1 .. M /\ \A x, y \in 1 .. M : e[x] = e[y] => x = y
      BY HungFacts
    <3> QED
      BY <1>3, <1>5, <3>1 DEF ToSet
  <2>4. lf[e[j]] = kf[c[j - 1]]
    BY <2>2, <2>3
  <2> QED
    BY <1>1, <1>2, <2>1, <2>4
<1> QED
  BY <1>1, <1>2, <1>3, <1>4, <1>5 DEF Shifted

\* A new key, as the policy sees it.
LEMMA NewRefines ==
  ASSUME CacheInv, CacheInv', NEW k \in Keys, hash_find_entry(k) = NULL,
         NEW n \in Nodes, n \notin ToSet(Forward), NEW copy,
         NEW e, Forward' = e, Len(e) # 0, e[1] = n, Len(e) <= Len(Forward) + 1,
         \A j \in 1 .. Len(e) : 1 < j => e[j] = Forward[j - 1],
         ToSet(e) = (IF Len(Forward) = capacity
                     THEN ToSet(Forward) \ {Forward[Len(Forward)]} ELSE ToSet(Forward)) \cup {n},
         capacity > 0, key'[n] = k, value'[n] = copy,
         \A x \in ToSet(e) \ {n} : key'[x] = key[x] /\ value'[x] = value[x]
  PROVE  /\ Since' = Policy!Used(k) /\ k \notin DOMAIN Stored
         /\ Stored' = [j \in DOMAIN Policy!Used(k) |-> IF j = k THEN copy ELSE Stored[j]]
<1> PICK c : c = Forward
  OBVIOUS
<1> PICK kf : kf = key
  OBVIOUS
<1> PICK lf : lf = key'
  OBVIOUS
<1> PICK s : s = KeySeq(c, kf)
  OBVIOUS
<1> PICK r : r = KeySeq(e, lf)
  OBVIOUS
<1>1. /\ Hung(c, list) /\ Holds(buckets, ToSet(c), kf) /\ Len(c) <= capacity /\ capacity \in Nat
      /\ Len(c) \in Nat
  BY CacheAssumption DEF CacheInv
<1>2. Hung(e, list') /\ Holds(buckets', ToSet(e), lf)
  BY DEF CacheInv
<1>3. /\ s \in Seq(Keys) /\ Len(s) = Len(c) /\ IsInjective(s)
      /\ \A i \in 1 .. Len(c) : s[i] = kf[c[i]]
      /\ ToSet(s) = { kf[x] : x \in ToSet(c) }
  BY <1>1, KeySeqFacts
<1>4. /\ r \in Seq(Keys) /\ Len(r) = Len(e) /\ IsInjective(r)
      /\ ToSet(r) = { lf[x] : x \in ToSet(e) }
  <2>1. PICK l : l = list'
    OBVIOUS
  <2>2. PICK t : t = buckets'
    OBVIOUS
  <2>3. Hung(e, l) /\ Holds(t, ToSet(e), lf)
    BY <1>2, <2>1, <2>2
  <2>4. r = KeySeq(e, lf)
    OBVIOUS
  <2> QED
    BY ONLY <2>3, <2>4, KeySeqFacts
<1>5. Shifted(s, r, k, Len(c) + 1)
  <2>1. PICK l : l = list'
    OBVIOUS
  <2>2. PICK t : t = buckets'
    OBVIOUS
  <2>3. Hung(e, l) /\ Holds(t, ToSet(e), lf) /\ lf[n] = k
    BY <1>2, <2>1, <2>2
  <2>4. /\ Len(e) <= Len(c) + 1 /\ \A j \in 1 .. Len(e) : 1 < j => e[j] = c[j - 1]
        /\ \A x \in ToSet(e) \ {n} : lf[x] = kf[x]
    OBVIOUS
  <2> QED
    BY <1>1, <2>3, <2>4, NewShifts
<1>6. ASSUME NEW x \in ToSet(c) PROVE kf[x] # k
  <2>1. x # NULL
    BY <1>1, HoldsFacts, CacheAssumption
  <2> QED
    BY <2>1, FindFacts
<1>7. k \notin ToSet(s)
  BY <1>3, <1>6
<1>8. ToSet(r) = (IF Len(s) = capacity THEN ToSet(s) \ {s[Len(s)]} ELSE ToSet(s)) \cup {k}
  <2>1. ToSet(e) \ {n} \subseteq ToSet(c) /\ n \in ToSet(e) /\ lf[n] = k
    OBVIOUS
  <2>2. \A x \in ToSet(e) \ {n} : lf[x] = kf[x]
    OBVIOUS
  <2>3. ToSet(r) = { kf[x] : x \in ToSet(e) \ {n} } \cup {k}
    BY <1>4, <2>1, <2>2
  <2>4. CASE Len(c) = capacity
    <3>1. Len(c) \in 1 .. Len(c) /\ c[Len(c)] \in ToSet(c)
      <4>1. Len(c) \in 1 .. Len(c) /\ DOMAIN c = 1 .. Len(c)
        BY <1>1, <2>4, HungFacts
      <4> QED
        BY <4>1 DEF ToSet
    <3>2. ToSet(e) \ {n} = ToSet(c) \ {c[Len(c)]}
      BY <2>4
    <3>3. \A x, y \in ToSet(c) : kf[x] = kf[y] => x = y
      BY <1>1, HoldsFacts
    <3>4. { kf[x] : x \in ToSet(c) \ {c[Len(c)]} } = ToSet(s) \ {kf[c[Len(c)]]}
      BY <1>3, <3>1, <3>3
    <3>5. s[Len(s)] = kf[c[Len(c)]]
      BY <1>3, <3>1
    <3> QED
      BY <1>3, <2>3, <2>4, <3>2, <3>4, <3>5
  <2>5. CASE Len(c) # capacity
    <3>1. ToSet(e) \ {n} = ToSet(c)
      BY <2>5
    <3> QED
      BY <1>3, <2>3, <2>5, <3>1
  <2> QED
    BY <2>4, <2>5
<1>9. UsedIn(Recent(s), k, capacity) = Recent(r)
  BY <1>1, <1>3, <1>5, <1>7, <1>8, UsedNew
<1>10. /\ Since = Recent(s) /\ DOMAIN Stored = ToSet(s)
       /\ \A x \in ToSet(c) : kf[x] \in DOMAIN Stored /\ Stored[kf[x]] = value[x]
  BY SinceIs, StoredIs
<1> PICK st : st = Stored'
  OBVIOUS
<1>11. /\ Since' = Recent(r) /\ DOMAIN st = ToSet(r)
       /\ \A x \in ToSet(e) : lf[x] \in DOMAIN st /\ st[lf[x]] = value'[x]
  <2>1. Mapped'
    BY MappedAlways, PTL
  <2> QED
    BY <2>1 DEF Mapped
<1>12. Since' = Policy!Used(k) /\ DOMAIN Policy!Used(k) = ToSet(r)
  BY <1>4, <1>9, <1>10, <1>11, PolicyUsed, RecentFacts
<1>13. ASSUME NEW j \in ToSet(r) PROVE st[j] = IF j = k THEN copy ELSE Stored[j]
  <2>1. PICK x \in ToSet(e) : j = lf[x]
    BY <1>4
  <2>2. st[j] = value'[x]
    BY <1>11, <2>1
  <2>3. CASE x = n
    BY <2>1, <2>2, <2>3
  <2>4. CASE x # n
    <3>1. x \in ToSet(c) /\ lf[x] = kf[x] /\ value'[x] = value[x]
      BY <2>4
    <3>2. j # k
      BY <1>6, <2>1, <3>1
    <3> QED
      BY <1>10, <2>1, <2>2, <3>1, <3>2
  <2> QED
    BY <2>3, <2>4
<1>14. st = [j \in ToSet(r) |-> st[j]]
  <2>1. Stored' = [j \in DOMAIN Stored' |-> Stored'[j]]
    BY DEF Stored
  <2> QED
    BY <1>11, <2>1
<1>15. st = [j \in ToSet(r) |-> IF j = k THEN copy ELSE Stored[j]]
  BY <1>13, <1>14
<1> QED
  BY <1>7, <1>10, <1>12, <1>15

\* After lru_free nothing is cached.
LEMMA EmptyRefines ==
  ASSUME CacheInv, CacheInv', lru_free
  PROVE  Policy!Empty'
<1>1. Forward' = <<>>
  BY FreeEmpties, ForwardIsNext
<1>2. KeySeq(Forward, key)' = <<>>
  <2>1. KeySeq(<<>>, key') = <<>>
    BY DEF KeySeq
  <2> QED
    BY <1>1, <2>1
<1>3. /\ Since' = Recent(KeySeq(Forward, key)')
      /\ DOMAIN Stored' = ToSet(KeySeq(Forward, key)')
  <2>1. Mapped'
    BY MappedAlways, PTL
  <2> QED
    BY <2>1 DEF Mapped
<1>4. ToSet(<<>>) = {}
  BY EmptySequence
<1>5. Since' = [j \in {} |-> {}]
  <2>1. Recent(<<>>) = [j \in {} |-> {}]
    BY <1>4 DEF Recent
  <2> QED
    BY <1>2, <1>3, <2>1
<1>6. Stored' = [j \in {} |-> NULL]
  <2>1. DOMAIN Stored' = {}
    BY <1>2, <1>3, <1>4
  <2>2. Stored' = [j \in DOMAIN Stored' |-> Stored'[j]]
    BY DEF Stored
  <2> QED
    BY <2>1, <2>2
<1> QED
  BY <1>5, <1>6 DEF Policy!Empty

-----------------------------------------------------------------------------
\* Every command is a step of the policy, or none.
LEMMA RefineInit == CacheInit => Policy!Init
<1> SUFFICES ASSUME CacheInit PROVE Policy!Init
  OBVIOUS
<1>1. CacheInv
  BY InvInit
<1>2. Forward = <<>>
  BY EmptySequence, ForwardIs DEF CacheInit
<1>3. KeySeq(Forward, key) = <<>> /\ ToSet(<<>>) = {}
  BY <1>2, EmptySequence DEF KeySeq
<1>4. Since = Recent(<<>>) /\ DOMAIN Stored = {}
  BY <1>1, <1>3, MappedAlways DEF Mapped
<1>5. Since = [j \in {} |-> {}]
  BY <1>3, <1>4 DEF Recent
<1>6. Stored = [j \in DOMAIN Stored |-> Stored[j]]
  BY DEF Stored
<1>7. Stored = [j \in {} |-> NULL]
  BY <1>4, <1>6
<1> QED
  BY <1>5, <1>7 DEF Policy!Init, Policy!Empty, CacheInit

\* A command that frees the cache empties it for the policy.
LEMMA FreeRefines ==
  ASSUME CacheInv, CacheInv', lru_free, UNCHANGED printed,
         capacity' = 0 \/ capacity' \in Nat \ {0}
  PROVE  Policy!Next
<1>1. Policy!Empty'
  BY EmptyRefines
<1>2. CASE capacity' = 0
  <2>1. Policy!Discard
    BY <1>1, <1>2 DEF Policy!Discard
  <2> QED
    BY <2>1 DEF Policy!Next
<1>3. CASE capacity' \in Nat \ {0}
  <2>1. Policy!Create
    BY <1>1, <1>3 DEF Policy!Create
  <2> QED
    BY <2>1 DEF Policy!Next
<1> QED
  BY <1>2, <1>3

\* The mapping's stored depends on the table and the values only.
LEMMA StoredStays ==
  ASSUME UNCHANGED <<buckets, value>>
  PROVE  Stored' = Stored
  BY DEF Stored, hash_find_entry

\* A get that finds its key is a Hit.
LEMMA HitRefines ==
  ASSUME CacheInv, CacheInv', NEW k \in Keys, getHit(k)
  PROVE  Policy!Hit(k)
<1>1. PICK i \in 1 .. Len(Forward) : hash_find_entry(k) = Forward[i] /\ key[Forward[i]] = k
  BY FindFacts DEF getHit
<1>2. Forward' = Moved(Forward, i)
  <2>1. value' \in [Nodes -> Values \cup {NULL}] /\ printed' \in Values \cup {NULL}
    BY DEF CacheInv
  <2> QED
    BY <1>1, <2>1, UseSafe DEF getHit
<1>3. /\ Since' = Policy!Used(k) /\ k \in DOMAIN Since
  BY <1>1, <1>2, UseRefines DEF getHit
<1>4. Stored' = Stored
  BY StoredStays DEF getHit
<1>5. printed' = Stored[k]
  <2>1. Forward[i] \in ToSet(Forward)
    <3>1. DOMAIN Forward = 1 .. Len(Forward)
      BY HungFacts DEF CacheInv
    <3> QED
      BY <3>1 DEF ToSet
  <2>2. Stored[k] = value[Forward[i]]
    BY <1>1, <2>1, MappedAlways DEF Mapped
  <2> QED
    BY <1>1, <2>2 DEF getHit
<1>6. UNCHANGED capacity
  BY DEF getHit
<1> QED
  BY <1>3, <1>4, <1>5, <1>6 DEF Policy!Hit, Policy!Cached

\* A get that finds none is a Miss.
LEMMA MissRefines ==
  ASSUME CacheInv, CacheInv', NEW k \in Keys, getMiss(k)
  PROVE  Policy!Miss(k)
<1>1. Stored' = Stored /\ Since' = Since
  BY StoredStays DEF getMiss, Since, Before, Forward
<1>2. k \notin DOMAIN Stored
  BY DEF Stored, getMiss
<1>3. DOMAIN Since = DOMAIN Stored
  <2>1. /\ KeySeq(Forward, key) \in Seq(Keys) /\ IsInjective(KeySeq(Forward, key))
    BY KeySeqFacts DEF CacheInv
  <2> QED
    BY <2>1, MappedAlways, RecentFacts DEF Mapped
<1> QED
  BY <1>1, <1>2, <1>3 DEF Policy!Miss, Policy!Cached, getMiss

\* A put of a cached key is a Put that drops none.
LEMMA PutExistingRefines ==
  ASSUME CacheInv, CacheInv', NEW k \in Keys, NEW v \in Values, putExisting(k, v)
  PROVE  Policy!Put(k, v)
<1>1. PICK i \in 1 .. Len(Forward) : hash_find_entry(k) = Forward[i] /\ key[Forward[i]] = k
  BY FindFacts DEF putExisting
<1> PICK c : c = Forward
  OBVIOUS
<1> PICK st : st = Stored'
  OBVIOUS
<1>2. Forward' = Moved(c, i)
  <2>1. value' \in [Nodes -> Values \cup {NULL}] /\ printed' \in Values \cup {NULL}
    BY DEF CacheInv, putExisting
  <2> QED
    BY <1>1, <2>1, UseSafe DEF putExisting
<1>3. /\ Since' = Policy!Used(k) /\ DOMAIN Since' = DOMAIN Since /\ k \in DOMAIN Since
      /\ DOMAIN Stored' = DOMAIN Stored /\ DOMAIN Since = DOMAIN Stored
  BY <1>1, <1>2, UseRefines DEF putExisting
<1>4. /\ DOMAIN c = 1 .. Len(c) /\ c[i] \in Nodes
      /\ \A j, m \in 1 .. Len(c) : c[j] = c[m] => j = m
      /\ Hung(c, list) /\ Holds(buckets, ToSet(c), key)
  BY HungFacts DEF CacheInv
<1>5. PICK x : x \in {v, NULL} /\ value' = IF x = NULL THEN value ELSE [value EXCEPT ![c[i]] = x]
  BY <1>1 DEF putExisting, string_duplicate
<1>6. value \in [Nodes -> Values \cup {NULL}] /\ v # NULL
  BY CacheAssumption DEF CacheInv
<1> PICK copy : copy = IF x = NULL THEN Stored[k] ELSE x
  OBVIOUS
<1>7. \A n \in ToSet(c) : key[n] \in DOMAIN Stored /\ Stored[key[n]] = value[n]
  BY MappedAlways DEF Mapped
<1>8. DOMAIN Stored = { key[n] : n \in ToSet(c) }
  <2>1. ToSet(KeySeq(c, key)) = { key[n] : n \in ToSet(c) }
    BY <1>4, KeySeqFacts
  <2> QED
    BY <2>1, MappedAlways DEF Mapped
<1>9. ToSet(Moved(c, i)) = ToSet(c)
  <2>1. c \in Seq(Nodes) /\ IsInjective(c)
    BY <1>4 DEF Hung
  <2>2. FirstOthersAfter(c, i, Moved(c, i))
    BY <2>1, MovedFacts
  <2> QED
    BY <2>2 DEF FirstOthersAfter
<1>10. \A n \in ToSet(c) : key[n] \in DOMAIN st /\ st[key[n]] = value'[n]
  <2>1. Mapped'
    BY MappedAlways, PTL
  <2>2. key' = key
    BY DEF putExisting
  <2> QED
    BY <1>2, <1>9, <2>1, <2>2 DEF Mapped
<1>11. c[i] \in ToSet(c) /\ key[c[i]] = k
  BY <1>1, <1>4 DEF ToSet
<1>12. ASSUME NEW j \in DOMAIN Stored PROVE st[j] = IF j = k THEN copy ELSE Stored[j]
  <2>1. PICK n \in ToSet(c) : j = key[n]
    BY <1>8
  <2>2. n \in Nodes /\ (j = k <=> n = c[i])
    <3>1. ToSet(c) \subseteq Nodes /\ \A m, y \in ToSet(c) : key[m] = key[y] => m = y
      BY <1>4, HoldsFacts
    <3> QED
      BY <1>11, <2>1, <3>1
  <2>3. st[j] = value'[n] /\ Stored[j] = value[n]
    BY <1>7, <1>10, <2>1
  <2>4. CASE x = NULL
    BY <1>5, <2>3, <2>4
  <2>5. CASE x # NULL
    <3>1. value'[n] = IF n = c[i] THEN x ELSE value[n]
      BY <1>4, <1>5, <1>6, <2>2, <2>5
    <3> QED
      BY <2>2, <2>3, <2>5, <3>1
  <2> QED
    BY <2>4, <2>5
<1>13. st = [j \in DOMAIN Stored |-> st[j]]
  <2>1. Stored' = [j \in DOMAIN Stored' |-> Stored'[j]]
    BY DEF Stored
  <2> QED
    BY <1>3, <2>1
<1>14. st = [j \in DOMAIN Policy!Used(k) |-> IF j = k THEN copy ELSE Stored[j]]
  BY <1>3, <1>12, <1>13
<1>15. copy \in {v, IF k \in DOMAIN Stored THEN Stored[k] ELSE NULL}
  BY <1>3, <1>5
<1>16. UNCHANGED <<capacity, printed>> /\ capacity > 0
  <2>1. Len(c) # 0 /\ Len(c) \in Nat /\ Len(c) <= capacity /\ capacity \in Nat
    <3>1. Len(c) \in Nat
      BY <1>4, HungFacts
    <3>2. Len(c) # 0
      BY <3>1
    <3>3. capacity \in 0 .. MAX_CAPACITY /\ size \in 0 .. capacity /\ size = Len(c)
      BY DEF CacheInv
    <3> QED
      BY <3>1, <3>2, <3>3, CacheAssumption
  <2> QED
    BY <2>1 DEF putExisting
<1> QED
  BY <1>3, <1>14, <1>15, <1>16 DEF Policy!Put

\* A put of a new key is a Put, which drops the key the code evicts.
LEMMA PutNewRefines ==
  ASSUME CacheInv, CacheInv', NEW k \in Keys, NEW v \in Values, putNew(k, v)
  PROVE  Policy!Put(k, v)
<1>1. /\ capacity > 0 /\ hash_find_entry(k) = NULL /\ UNCHANGED <<capacity, printed>>
      /\ UNCHANGED state
  BY DEF putNew
<1>2. PICK copy \in string_duplicate(v), n \in Nodes \ allocated :
        LET front == insert_node_front(list, n)
            table == hash_insert_entry(buckets, k, n)
            keys == [key EXCEPT ![n] = k]
            values == [value EXCEPT ![n] = copy]
        IN IF size + 1 > capacity
           THEN /\ list' = remove_tail_node(front)
                /\ buckets' = hash_remove_entry(table, keys[front.tail])
                /\ key' = [keys EXCEPT ![front.tail] = NULL]
                /\ value' = [values EXCEPT ![front.tail] = NULL]
                /\ allocated' = (allocated \cup {n}) \ {front.tail}
                /\ UNCHANGED size
           ELSE /\ list' = front /\ buckets' = table /\ key' = keys /\ value' = values
                /\ allocated' = allocated \cup {n}
                /\ size' = size + 1
  BY DEF putNew
<1> PICK c : c = Forward
  OBVIOUS
<1> PICK N : N = Len(c)
  OBVIOUS
<1> PICK d : d = <<n>> \o c
  OBVIOUS
<1>3. copy \in {v, NULL} /\ copy \in Values \cup {NULL}
  BY DEF string_duplicate
<1>4. /\ Hung(c, list) /\ c \in Seq(Nodes) /\ IsInjective(c) /\ n \notin ToSet(c)
      /\ N \in Nat /\ size = N /\ N <= capacity /\ capacity \in Nat /\ ToSet(c) \subseteq Nodes
  <2>1. /\ Hung(c, list) /\ n \notin ToSet(c) /\ size = N /\ Holds(buckets, ToSet(c), key)
        /\ capacity \in 0 .. MAX_CAPACITY /\ size \in 0 .. capacity
    BY DEF CacheInv
  <2> QED
    BY <2>1, HoldsFacts, CacheAssumption DEF Hung
<1>5. /\ key \in [Nodes -> Keys \cup {NULL}] /\ value \in [Nodes -> Values \cup {NULL}]
  BY DEF CacheInv
<1>6. /\ d \in Seq(Nodes) /\ Len(d) = N + 1 /\ d[1] = n /\ ToSet(d) = ToSet(c) \cup {n}
      /\ \A j \in 1 .. N : d[j + 1] = c[j]
      /\ IsInjective(d)
  <2>1. n \in Nodes
    OBVIOUS
  <2>2. /\ d \in Seq(Nodes) /\ Len(d) = Len(c) + 1 /\ d[1] = n /\ ToSet(d) = ToSet(c) \cup {n}
        /\ \A j \in 1 .. Len(c) : d[j + 1] = c[j]
    BY <1>4, <2>1, ConsFacts
  <2>3. IsInjective(d)
    BY <1>4, <2>1, ConsFacts
  <2> QED
    BY <2>2, <2>3
<1>7. ASSUME NEW j \in 1 .. N + 1, 1 < j PROVE d[j] = c[j - 1]
  <2>1. j - 1 \in 1 .. N /\ j - 1 + 1 = j
    BY <1>4, <1>7
  <2> QED
    BY <1>6, <2>1
<1>8. \E e : /\ Forward' = e /\ Len(e) # 0 /\ e[1] = n /\ Len(e) <= N + 1
             /\ \A j \in 1 .. Len(e) : 1 < j => e[j] = c[j - 1]
             /\ ToSet(e) = (IF N = capacity THEN ToSet(c) \ {c[N]} ELSE ToSet(c)) \cup {n}
             /\ key'[n] = k /\ value'[n] = copy
             /\ \A x \in ToSet(e) \ {n} : key'[x] = key[x] /\ value'[x] = value[x]
  <2>1. CASE size + 1 > capacity
    <3> PICK front : front = insert_node_front(list, n)
      OBVIOUS
    <3> PICK z : z = front.tail
      OBVIOUS
    <3> PICK e : e = RemoveAt(d, N + 1)
      OBVIOUS
    <3>1. /\ list' = remove_tail_node(front)
          /\ buckets' = hash_remove_entry(hash_insert_entry(buckets, k, n), [key EXCEPT ![n] = k][front.tail])
          /\ key' = [[key EXCEPT ![n] = k] EXCEPT ![front.tail] = NULL]
          /\ value' = [[value EXCEPT ![n] = copy] EXCEPT ![front.tail] = NULL]
          /\ allocated' = (allocated \cup {n}) \ {front.tail}
          /\ UNCHANGED size
      BY <1>2, <2>1
    <3>2. Forward' = e /\ N = capacity /\ z = c[N]
      BY <1>1, <1>3, <2>1, <3>1, EvictSafe
    <3>3. N \in 1 .. N /\ N + 1 \in DOMAIN d /\ d[N + 1] = z
      <4>1. N \in 1 .. N
        BY <1>1, <1>4, <3>2
      <4> QED
        BY <1>6, <3>2, <4>1
    <3>4. Len(e) = N /\ ToSet(e) = (ToSet(c) \cup {n}) \ {z}
      <4>1. Len(e) = Len(d) - 1 /\ ToSet(e) = ToSet(d) \ {d[N + 1]}
        BY <1>6, <3>3, OneOut
      <4>2. Len(d) = N + 1 /\ ToSet(d) = ToSet(c) \cup {n} /\ N \in Nat /\ d[N + 1] = z
        BY <1>4, <1>6, <3>3
      <4> QED
        BY <4>1, <4>2
    <3>5. z \in ToSet(c) /\ z # n /\ z \in Nodes
      <4>1. DOMAIN c = 1 .. N
        BY <1>4
      <4> QED
        BY <1>4, <3>2, <3>3, <4>1 DEF ToSet
    <3>6. \A j \in 1 .. N : e[j] = d[j]
      <4>1. \A j \in 1 .. Len(d) - 1 : e[j] = IF j < N + 1 THEN d[j] ELSE d[j + 1]
        <5>1. d \in Seq(Nodes) /\ N + 1 \in DOMAIN d /\ e = RemoveAt(d, N + 1)
          BY <1>6, <3>3
        <5> QED
          BY ONLY <5>1, RemoveAtElements, SMTT(30)
      <4>2. \A j \in 1 .. N : j \in 1 .. Len(d) - 1 /\ j < N + 1
        BY <1>4, <1>6
      <4> QED
        BY <4>1, <4>2
    <3>7. /\ Len(e) # 0 /\ e[1] = n /\ Len(e) <= N + 1
          /\ \A j \in 1 .. Len(e) : 1 < j => e[j] = c[j - 1]
      <4>1. 1 \in 1 .. N /\ N # 0 /\ \A j \in 1 .. N : j \in 1 .. N + 1
        BY <1>4, <3>3
      <4>2. Len(e) = N /\ Len(e) <= N + 1
        BY <1>4, <3>4
      <4>3. e[1] = n
        BY <1>6, <3>6, <4>1
      <4>4. ASSUME NEW j \in 1 .. N, 1 < j PROVE e[j] = c[j - 1]
        <5>1. e[j] = d[j] /\ j \in 1 .. N + 1
          BY <3>6, <4>1
        <5> QED
          BY <1>7, <4>4, <5>1
      <4> QED
        BY <4>1, <4>2, <4>3, <4>4
    <3>8. /\ key'[n] = k /\ value'[n] = copy
          /\ \A x \in ToSet(c) \ {z} : key'[x] = key[x] /\ value'[x] = value[x]
      BY <1>4, <1>5, <3>1, <3>5
    <3>9. ToSet(e) = (ToSet(c) \ {c[N]}) \cup {n} /\ ToSet(e) \ {n} \subseteq ToSet(c) \ {z}
      BY <3>2, <3>4, <3>5
    <3> QED
      BY <3>2, <3>7, <3>8, <3>9
  <2>2. CASE ~(size + 1 > capacity)
    <3>1. size + 1 <= capacity /\ N # capacity
      BY <1>4, <2>2
    <3>2. /\ list' = insert_node_front(list, n) /\ buckets' = hash_insert_entry(buckets, k, n)
          /\ key' = [key EXCEPT ![n] = k] /\ value' = [value EXCEPT ![n] = copy]
          /\ allocated' = allocated \cup {n} /\ size' = size + 1
      BY <1>2, <2>2
    <3>3. Forward' = d
      BY <1>1, <1>3, <3>1, <3>2, AddSafe
    <3>4. /\ key'[n] = k /\ value'[n] = copy
          /\ \A x \in ToSet(c) : key'[x] = key[x] /\ value'[x] = value[x]
      BY <1>4, <1>5, <3>2
    <3>5. Len(d) # 0 /\ Len(d) <= N + 1 /\ \A j \in 1 .. Len(d) : 1 < j => d[j] = c[j - 1]
      BY <1>4, <1>6, <1>7
    <3> QED
      BY <1>6, <3>1, <3>3, <3>4, <3>5
  <2> QED
    BY <2>1, <2>2
<1>9. /\ Since' = Policy!Used(k) /\ k \notin DOMAIN Stored
      /\ Stored' = [j \in DOMAIN Policy!Used(k) |-> IF j = k THEN copy ELSE Stored[j]]
  <2>1. PICK e :
             /\ Forward' = e /\ Len(e) # 0 /\ e[1] = n /\ Len(e) <= N + 1
             /\ \A j \in 1 .. Len(e) : 1 < j => e[j] = c[j - 1]
             /\ ToSet(e) = (IF N = capacity THEN ToSet(c) \ {c[N]} ELSE ToSet(c)) \cup {n}
             /\ key'[n] = k /\ value'[n] = copy
             /\ \A x \in ToSet(e) \ {n} : key'[x] = key[x] /\ value'[x] = value[x]
    BY <1>8
  <2>2. /\ Forward' = e /\ Len(e) # 0 /\ e[1] = n /\ Len(e) <= Len(Forward) + 1
        /\ \A j \in 1 .. Len(e) : 1 < j => e[j] = Forward[j - 1]
        /\ ToSet(e) = (IF Len(Forward) = capacity
                       THEN ToSet(Forward) \ {Forward[Len(Forward)]} ELSE ToSet(Forward)) \cup {n}
        /\ key'[n] = k /\ value'[n] = copy
        /\ \A x \in ToSet(e) \ {n} : key'[x] = key[x] /\ value'[x] = value[x]
    BY <2>1, Zenon
  <2>3. n \in Nodes /\ n \notin ToSet(Forward)
    BY <1>4
  <2> QED
    BY <1>1, <2>2, <2>3, NewRefines
<1>10. copy \in {v, IF k \in DOMAIN Stored THEN Stored[k] ELSE NULL}
  BY <1>3, <1>9
<1> QED
  BY <1>1, <1>9, <1>10 DEF Policy!Put

\* Every step of the cache is a step of the policy or none.
LEMMA RefineStep ==
  CacheInv /\ CacheInv' /\ [CacheNext]_cacheVars => [Policy!Next]_Policy!vars
<1> SUFFICES ASSUME CacheInv, CacheInv', [CacheNext]_cacheVars PROVE [Policy!Next]_Policy!vars
  OBVIOUS
<1>1. ASSUME NEW x \in CapacityInputs, createCache(x) PROVE Policy!Next
  <2>1. lru_free /\ UNCHANGED printed /\ (capacity' = 0 \/ capacity' \in Nat \ {0})
    <3>1. x \in Int /\ x >= 1 /\ x <= MAX_CAPACITY /\ MAX_CAPACITY \in Nat
      BY <1>1, CacheAssumption DEF createCache
    <3>2. x \in Nat \ {0}
      BY <3>1
    <3> QED
      BY <1>1, <3>2 DEF createCache
  <2> QED
    BY <2>1, FreeRefines
<1>2. ASSUME NEW k \in Keys, getHit(k) PROVE Policy!Next
  BY <1>2, HitRefines DEF Policy!Next
<1>3. ASSUME NEW k \in Keys, getMiss(k) PROVE Policy!Next
  BY <1>3, MissRefines DEF Policy!Next
<1>4. ASSUME NEW k \in Keys, putFails(k) PROVE Policy!Next
  BY <1>4, FreeRefines DEF putFails
<1>5. ASSUME NEW k \in Keys, NEW v \in Values, putExisting(k, v) PROVE Policy!Next
  BY <1>5, PutExistingRefines DEF Policy!Next
<1>6. ASSUME NEW k \in Keys, NEW v \in Values, putNew(k, v) PROVE Policy!Next
  BY <1>6, PutNewRefines DEF Policy!Next
<1>7. ASSUME exit PROVE Policy!Next
  BY <1>7, FreeRefines DEF exit
<1>8. ASSUME UNCHANGED cacheVars PROVE UNCHANGED Policy!vars
  <2>1. Stored' = Stored /\ Since' = Since
    BY <1>8, StoredStays DEF cacheVars, Since, Before, Forward
  <2> QED
    BY <1>8, <2>1 DEF cacheVars, Policy!vars
<1> QED
  BY <1>1, <1>2, <1>3, <1>4, <1>5, <1>6, <1>7, <1>8 DEF CacheNext

\* The cache evicts by least recent use: a key stays as long as fewer than
\* capacity other keys were used since, a get answers with the value last
\* stored for a cached key and with none for another.
THEOREM CacheImplementsPolicy == CacheSpec => RefinesPolicy
<1>1. CacheInit => Policy!Init
  BY RefineInit
<1>2. CacheInv /\ CacheInv' /\ [CacheNext]_cacheVars => [Policy!Next]_Policy!vars
  BY RefineStep
<1> QED
  BY <1>1, <1>2, InvAlways, PTL DEF CacheSpec, RefinesPolicy, Policy!Spec
=============================================================================
