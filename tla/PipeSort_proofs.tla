---------------------------- MODULE PipeSort_proofs ----------------------------
(***************************************************************************)
(* Proofs about PipeSort: for pipes of any capacity and arrays of any      *)
(* length, what is read and what is still in a pipe is what was written;   *)
(* no process ends early but because the other did; and the session        *)
(* implements SortService.                                                 *)
(***************************************************************************)
EXTENDS PipeSort, DataLemmas

Other(p) == IF p = "parent" THEN "child" ELSE "parent"

\* The array the child sends back.
Sorted(a) == Service!sortArrayAscending(a)

-----------------------------------------------------------------------------
(* Streams: what was read, followed by what is in the pipe.                *)

LEMMA Associative ==
  ASSUME NEW r \in Seq(Int), NEW u \in Seq(Int), NEW v \in Seq(Int)
  PROVE  (r \o u) \o v = r \o (u \o v)
  BY ConcatAssociative

\* r and u together are the first k of s.
Begins(r, u, s, k) == r \o u = SubSeq(s, 1, k)

\* A chunk that follows what was written goes to the end of the stream.
LEMMA ChunkWritten ==
  ASSUME NEW s \in Seq(Int), NEW r \in Seq(Int), NEW u \in Seq(Int),
         NEW k \in Nat, NEW n \in Nat, k + n <= Len(s), Begins(r, u, s, k),
         NEW v, v = u \o SubSeq(s, k + 1, k + n)
  PROVE  v \in Seq(Int) /\ Len(v) = Len(u) + n /\ Begins(r, v, s, k + n)
<1> DEFINE chunk == SubSeq(s, k + 1, k + n)
<1>1. chunk \in Seq(Int) /\ Len(chunk) = n
  <2>1. /\ k + 1 \in Int /\ k + n \in Int /\ \A i \in k + 1 .. k + n : s[i] \in Int
    OBVIOUS
  <2>2. (IF k + 1 <= k + n THEN k + n - (k + 1) + 1 ELSE 0) = n
    OBVIOUS
  <2> QED
    BY <2>1, <2>2, SubSeqProperties
<1>2. SubSeq(s, 1, k) \o chunk = SubSeq(s, 1, k + n)
  <2>1. 1 \in 1 .. Len(s) + 1 /\ k \in 1 - 1 .. Len(s) /\ k + n \in k .. Len(s)
    OBVIOUS
  <2> QED
    BY <2>1, ConcatAdjacentSubSeq
<1>3. v = u \o chunk
  OBVIOUS
<1> HIDE DEF chunk
<1>4. (r \o u) \o chunk = r \o (u \o chunk)
  BY <1>1, Associative
<1>5. u \o chunk \in Seq(Int) /\ Len(u \o chunk) = Len(u) + n
  BY <1>1, ConcatProperties
<1> QED
  BY <1>2, <1>3, <1>4, <1>5 DEF Begins

\* Reading moves the front of the pipe, and leaves the stream as it is.
LEMMA ChunkRead ==
  ASSUME NEW r \in Seq(Int), NEW u \in Seq(Int), NEW n \in 1 .. Len(u)
  PROVE  LET taken == SubSeq(u, 1, n)
             left == SubSeq(u, n + 1, Len(u)) IN
         /\ r \o taken \in Seq(Int) /\ Len(r \o taken) = Len(r) + n
         /\ left \in Seq(Int) /\ Len(left) = Len(u) - n
         /\ (r \o taken) \o left = r \o u
<1> DEFINE taken == SubSeq(u, 1, n)
           left == SubSeq(u, n + 1, Len(u))
<1>1. taken \in Seq(Int) /\ Len(taken) = n
  <2>1. 1 \in Int /\ n \in Int /\ (\A i \in 1 .. n : u[i] \in Int)
        /\ (IF 1 <= n THEN n - 1 + 1 ELSE 0) = n
    OBVIOUS
  <2> QED
    BY <2>1, SubSeqProperties
<1>2. left \in Seq(Int) /\ Len(left) = Len(u) - n
  <2>1. n + 1 \in Int /\ Len(u) \in Int /\ (\A i \in n + 1 .. Len(u) : u[i] \in Int)
        /\ (IF n + 1 <= Len(u) THEN Len(u) - (n + 1) + 1 ELSE 0) = Len(u) - n
    OBVIOUS
  <2> QED
    BY <2>1, SubSeqProperties
<1>3. taken \o left = u
  <2>1. 1 \in 1 .. Len(u) + 1 /\ n \in 1 - 1 .. Len(u) /\ Len(u) \in n .. Len(u)
    OBVIOUS
  <2>2. taken \o left = SubSeq(u, 1, Len(u))
    BY <2>1, ConcatAdjacentSubSeq
  <2> QED
    BY <2>2, SubSeqFull
<1> HIDE DEF taken, left
<1>4. (r \o taken) \o left = r \o (taken \o left)
  BY <1>1, <1>2, Associative
<1>5. r \o taken \in Seq(Int) /\ Len(r \o taken) = Len(r) + n
  BY <1>1, ConcatProperties
<1> QED
  BY <1>2, <1>3, <1>4, <1>5 DEF taken, left

\* What can be told of the reader's end of a stream of which k were written.
LEMMA StreamFacts ==
  ASSUME NEW s \in Seq(Int), NEW r \in Seq(Int), NEW u \in Seq(Int),
         NEW k \in Nat, k <= Len(s), r \o u = SubSeq(s, 1, k)
  PROVE  /\ Len(r) + Len(u) = k
         /\ r # <<>> => r[1] = s[1] /\ Len(s) > 0
         /\ Len(r) = Len(s) => r = s /\ k = Len(s)
<1>1. /\ Len(SubSeq(s, 1, k)) = k /\ \A i \in 1 .. k : SubSeq(s, 1, k)[i] = s[i]
  <2>1. 1 \in Int /\ k \in Int /\ (\A i \in 1 .. k : s[i] \in Int)
        /\ (IF 1 <= k THEN k - 1 + 1 ELSE 0) = k /\ 1 .. k - 1 + 1 = 1 .. k
        /\ \A i \in 1 .. k : 1 + i - 1 = i
    OBVIOUS
  <2> QED
    BY <2>1, SubSeqProperties
<1>2. /\ Len(r \o u) = Len(r) + Len(u) /\ Len(r) \in Nat /\ Len(u) \in Nat
      /\ \A i \in 1 .. Len(r) : (r \o u)[i] = r[i]
  <2>1. \A i \in 1 .. Len(r) : i \in 1 .. Len(r) + Len(u) /\ i <= Len(r)
    OBVIOUS
  <2> QED
    BY <2>1, ConcatProperties
<1>3. \A i \in 1 .. Len(r) : i \in 1 .. k /\ r[i] = s[i]
  BY <1>1, <1>2
<1>4. r # <<>> => Len(r) > 0
  BY EmptySeq
<1>5. ASSUME Len(r) = Len(s) PROVE r = s /\ k = Len(s)
  BY <1>1, <1>2, <1>3, <1>5, SeqEqual
<1> QED
  BY <1>1, <1>2, <1>3, <1>4, <1>5

-----------------------------------------------------------------------------
(* Sorting in the child.                                                   *)

\* sortArrayAscending keeps the length, and what it returns is ascending.
LEMMA SortedFacts ==
  ASSUME NEW a \in Seq(Int)
  PROVE  /\ Sorted(a) \in Seq(Int) /\ Len(Sorted(a)) = Len(a)
         /\ \A i, j \in 1 .. Len(a) : i < j => Sorted(a)[i] <= Sorted(a)[j]
<1> DEFINE I == 1 .. Len(a)
           up(b) == \A i, j \in I : i < j => b[i] <= b[j]
<1>1. DOMAIN a = I /\ Len(a) \in Nat /\ a \in [I -> Int]
  OBVIOUS
<1>0. Service!Bijection(I, I) = Bijection(I, I)
  BY DEF Service!Bijection, Service!Injection, Service!Surjection, Service!IsInjective,
         Bijection, Injection, Surjection, IsInjective
<1>2. PICK f \in Bijection(I, I) : \A i, j \in I : i < j => a[f[i]] <= a[f[j]]
  BY <1>1, SortingExists
<1>3. Sorted(a) = CHOOSE b \in Service!Rearranged(a) : up(b)
  BY <1>1 DEF Sorted, Service!sortArrayAscending
<1>4. \E b \in Service!Rearranged(a) : up(b)
  <2>1. [i \in I |-> a[f[i]]] \in Service!Rearranged(a)
    BY <1>0, <1>1 DEF Service!Rearranged
  <2> QED
    BY <1>2, <2>1
<1>5. Sorted(a) \in Service!Rearranged(a) /\ up(Sorted(a))
  BY <1>3, <1>4
<1>6. PICK g \in Bijection(I, I) : Sorted(a) = [i \in I |-> a[g[i]]]
  BY <1>0, <1>1, <1>5 DEF Service!Rearranged
<1>7. \A i \in I : g[i] \in I
  BY BijectionFacts
<1>8. Sorted(a) \in [I -> Int]
  BY <1>1, <1>6, <1>7
<1>9. Sorted(a) \in Seq(Int) /\ Len(Sorted(a)) = Len(a)
  BY <1>1, <1>8
<1> QED
  BY <1>5, <1>9

-----------------------------------------------------------------------------
(* The inductive invariant.                                                *)

\* A process holds all ends before it closes what it does not use, its own two
\* until it has finished with them, and none afterwards.
Holding(p) ==
  IF pc[p] = "start" THEN Ends
  ELSE IF pc[p] \in {"input", "send", "receive", "close"}
  THEN {<<Out(p), "write">>, <<In(p), "read">>} ELSE {}
EndsFollowPc == \A p \in Processes : ends[p] = Holding(p)

\* What a process has, and has finished with, at each of its steps.
ParentKnows ==
  /\ pc["parent"] \in {"start", "input"} => arrayData["parent"] = NONE
  /\ pc["parent"] \in {"send", "receive", "close", "wait", "done", "killed"} =>
       arrayData["parent"] # NONE
  /\ pc["parent"] \in {"start", "input", "send", "receive"} => printed = NONE
  /\ pc["parent"] \in {"receive", "close", "wait", "done"} =>
       sent["parent"] = Len(arrayData["parent"]) + 1
  /\ pc["parent"] \in {"close", "wait", "done"} =>
       Len(received["parent"]) = Len(arrayData["parent"])
ChildKnows ==
  /\ pc["child"] \notin {"input", "wait"}
  /\ pc["child"] \in {"start", "receive"} => arrayData["child"] = NONE
  /\ pc["child"] \in {"send", "close", "done", "killed"} => arrayData["child"] # NONE
  /\ pc["child"] \in {"close", "done"} => sent["child"] = Len(arrayData["child"])
  /\ arrayData["child"] # NONE =>
       /\ arrayData["parent"] # NONE /\ arrayData["child"] = Sorted(arrayData["parent"])
       /\ Len(received["child"]) = Len(arrayData["parent"]) + 1

\* What p has sent is with its reader or in the pipe.
Stream(p) ==
  IF arrayData[p] = NONE
  THEN sent[p] = 0 /\ received[Other(p)] = <<>> /\ pipe[Out(p)] = <<>>
  ELSE /\ sent[p] <= Len(Outgoing(p))
       /\ received[Other(p)] \o pipe[Out(p)] = SubSeq(Outgoing(p), 1, sent[p])

PipeInv ==
  /\ TypeOK /\ EndsFollowPc /\ ParentKnows /\ ChildKnows
  /\ Stream("parent") /\ Stream("child")
  /\ FailTogether

-----------------------------------------------------------------------------
(* Facts the steps share.                                                  *)

LEMMA ProcessFacts ==
  ASSUME NEW p \in Processes
  PROVE  /\ Other(p) \in Processes /\ Other(Other(p)) = p /\ Other(p) # p
         /\ Out(p) \in Pipes /\ In(p) \in Pipes /\ In(p) = Out(Other(p)) /\ In(p) # Out(p)
         /\ \A q \in Processes : p # q <=> q = Other(p)
         /\ p = "parent" \/ p = "child"
  BY DEF Processes, Other, Pipes, In, Out

LEMMA CountedArray ==
  ASSUME NEW a \in Seq(Int)
  PROVE  /\ <<Len(a)>> \o a \in Seq(Int) /\ Len(<<Len(a)>> \o a) = Len(a) + 1
         /\ (<<Len(a)>> \o a)[1] = Len(a) /\ Tail(<<Len(a)>> \o a) = a
<1> DEFINE c == <<Len(a)>>
           t == c \o a
<1>1. c \in Seq(Int) /\ Len(c) = 1 /\ c[1] = Len(a) /\ Len(a) \in Nat
  OBVIOUS
<1> HIDE DEF c
<1>2. /\ t \in Seq(Int) /\ Len(t) = Len(c) + Len(a)
      /\ \A i \in 1 .. Len(c) + Len(a) : t[i] = IF i <= Len(c) THEN c[i] ELSE a[i - Len(c)]
  BY <1>1, ConcatProperties
<1> HIDE DEF t
<1>3. t[1] = Len(a)
  BY <1>1, <1>2
<1>4. ASSUME NEW i \in 1 .. Len(a) PROVE t[i + 1] = a[i]
  <2>1. i + 1 \in 1 .. Len(c) + Len(a) /\ ~(i + 1 <= Len(c)) /\ i + 1 - Len(c) = i
    BY <1>1
  <2> QED
    BY <1>2, <2>1
<1>5. t # <<>> /\ Len(t) = Len(a) + 1
  BY <1>1, <1>2, EmptySeq
<1>6. Tail(t) \in Seq(Int) /\ Len(Tail(t)) = Len(a) /\ \A i \in 1 .. Len(a) : Tail(t)[i] = a[i]
  BY <1>1, <1>2, <1>4, <1>5, HeadTailProperties
<1>7. Tail(t) = a
  BY <1>6, SeqEqual
<1> QED
  BY <1>2, <1>3, <1>5, <1>7 DEF t, c

LEMMA OutgoingFacts ==
  ASSUME TypeOK, NEW p \in Processes, arrayData[p] # NONE
  PROVE  /\ arrayData[p] \in Seq(Int) /\ Len(arrayData[p]) \in Nat
         /\ Outgoing(p) \in Seq(Int)
         /\ Len(Outgoing(p)) = Len(arrayData[p]) + (IF p = "parent" THEN 1 ELSE 0)
         /\ p = "parent" => Outgoing(p)[1] = Len(arrayData[p]) /\ Tail(Outgoing(p)) = arrayData[p]
<1>1. arrayData[p] \in Seq(Int) /\ Len(arrayData[p]) \in Nat
  BY DEF TypeOK
<1>2. CASE p = "parent"
  <2>1. Outgoing(p) = <<Len(arrayData[p])>> \o arrayData[p]
    BY <1>2 DEF Outgoing
  <2> QED
    BY <1>1, <1>2, <2>1, CountedArray
<1>3. CASE p # "parent"
  BY <1>1, <1>3 DEF Outgoing
<1> QED
  BY <1>2, <1>3

\* A step that leaves the data alone leaves the streams alone.
LEMMA StreamsStay ==
  ASSUME UNCHANGED <<pipe, sent, received, arrayData>>, NEW p \in Processes, Stream(p)
  PROVE  Stream(p)'
  BY DEF Stream, Outgoing

\* What a reader knows of the stream.
LEMMA ReaderFacts ==
  ASSUME TypeOK, NEW p \in Processes, Stream(p)
  PROVE  LET r == received[Other(p)]
             u == pipe[Out(p)] IN
         /\ r \in Seq(Int) /\ u \in Seq(Int) /\ sent[p] \in Nat
         /\ Len(r) + Len(u) = sent[p]
         /\ r # <<>> => arrayData[p] # NONE /\ r[1] = Outgoing(p)[1]
         /\ arrayData[p] # NONE =>
              /\ sent[p] <= Len(Outgoing(p))
              /\ Len(r) = Len(Outgoing(p)) => r = Outgoing(p) /\ sent[p] = Len(Outgoing(p))
<1> DEFINE r == received[Other(p)]
           u == pipe[Out(p)]
<1>1. r \in Seq(Int) /\ u \in Seq(Int) /\ sent[p] \in Nat
  BY ProcessFacts DEF TypeOK
<1> HIDE DEF r, u
<1>2. CASE arrayData[p] = NONE
  <2>1. sent[p] = 0 /\ r = <<>> /\ u = <<>>
    BY <1>2 DEF Stream, r, u
  <2>2. Len(r) + Len(u) = sent[p]
    BY <2>1, EmptySeq
  <2> QED
    BY <1>1, <1>2, <2>1, <2>2 DEF r, u
<1>3. CASE arrayData[p] # NONE
  <2>1. Outgoing(p) \in Seq(Int) /\ sent[p] <= Len(Outgoing(p))
        /\ r \o u = SubSeq(Outgoing(p), 1, sent[p])
    BY <1>3, OutgoingFacts DEF Stream, r, u
  <2> DEFINE o == Outgoing(p)
             k == sent[p]
  <2>2. o \in Seq(Int) /\ k \in Nat /\ k <= Len(o) /\ r \o u = SubSeq(o, 1, k)
    BY <1>1, <2>1
  <2> HIDE DEF o, k
  <2>3. Len(r) + Len(u) = k /\ (r # <<>> => r[1] = o[1]) /\ (Len(r) = Len(o) => r = o /\ k = Len(o))
    BY <1>1, <2>2, StreamFacts
  <2> QED
    BY <1>1, <1>3, <2>1, <2>3 DEF r, u, o, k
<1> QED
  BY <1>2, <1>3

\* A process that goes on without an error, or is interrupted, makes nobody
\* fail alone.
LEMMA FailureStays ==
  ASSUME TypeOK, FailTogether, NEW p \in Processes, NEW there, Goto(p, there), ~Ended(p),
         there \notin {"failed", "killed"},
         arrayData'["parent"] = arrayData["parent"] \/ pc["parent"] = "input"
  PROVE  FailTogether'
<1>1. /\ pc'[p] = there /\ \A q \in Processes : q # p => pc'[q] = pc[q]
      /\ pc[p] \notin {"failed", "interrupted"}
  BY DEF TypeOK, Goto, Ended
<1>2. GaveUp => GaveUp'
  <2>1. ASSUME GaveUp PROVE p # "parent" /\ arrayData'["parent"] = arrayData["parent"]
    BY <1>1, <2>1 DEF GaveUp
  <2> QED
    BY <1>1, <2>1 DEF GaveUp, Processes
<1> QED
  BY <1>1, <1>2 DEF FailTogether

\* The ends follow where a process is.
LEMMA EndsStay ==
  ASSUME TypeOK, EndsFollowPc, NEW p \in Processes, NEW there, Goto(p, there), UNCHANGED ends,
         \/ pc[p] \in {"input", "send", "receive"} /\ there \in {"send", "receive", "close"}
         \/ pc[p] = "wait" /\ there = "done"
  PROVE  EndsFollowPc'
<1>1. pc'[p] = there /\ \A q \in Processes : q # p => pc'[q] = pc[q]
  BY DEF TypeOK, Goto
<1> QED
  BY <1>1 DEF EndsFollowPc, Holding

LEMMA EndsClosed ==
  ASSUME TypeOK, EndsFollowPc, NEW p \in Processes, NEW there, Exit(p, there),
         there \in {"wait", "done", "failed", "killed", "interrupted"}
  PROVE  EndsFollowPc'
<1>1. /\ pc'[p] = there /\ \A q \in Processes : q # p => pc'[q] = pc[q]
      /\ ends'[p] = {} /\ \A q \in Processes : q # p => ends'[q] = ends[q]
  BY DEF TypeOK, Exit, Goto
<1> QED
  BY <1>1 DEF EndsFollowPc, Holding

\* Nobody at the other end of a pipe: the other process has closed its ends.
LEMMA NobodyThere ==
  ASSUME EndsFollowPc, NEW p \in Processes, NEW q \in Processes, q = Other(p),
         \/ Holders(<<In(p), "write">>) = {}
         \/ Holders(<<Out(p), "read">>) = {}
  PROVE  pc[q] \notin {"start", "input", "send", "receive", "close"}
<1>1. \/ <<In(p), "write">> \notin ends[q]
      \/ <<Out(p), "read">> \notin ends[q]
  BY DEF Holders
<1>2. /\ <<In(p), "write">> = <<Out(q), "write">> /\ <<Out(p), "read">> = <<In(q), "read">>
      /\ <<Out(q), "write">> \in Ends /\ <<In(q), "read">> \in Ends
  BY DEF Processes, Other, In, Out, Ends, Pipes
<1>3. ends[q] = Holding(q)
  BY DEF EndsFollowPc
<1> QED
  BY <1>1, <1>2, <1>3 DEF Holding

-----------------------------------------------------------------------------
(* The steps.                                                              *)

data == <<pipe, sent, received, arrayData, printed>>

\* A step that only moves a process on keeps what is known of the data, if the
\* process is as far as its next step asks for.
LEMMA MoveKnows ==
  ASSUME PipeInv, NEW p \in Processes, NEW there, Goto(p, there), UNCHANGED data,
         \/ pc[p] = "start" /\ there = (IF p = "parent" THEN "input" ELSE "receive")
         \/ pc[p] = "send" /\ sent[p] = Len(Outgoing(p))
            /\ there = (IF p = "parent" THEN "receive" ELSE "close")
         \/ pc[p] = "send" /\ there = "killed"
         \/ pc[p] = "close" /\ there = (IF p = "parent" THEN "wait" ELSE "done")
         \/ p = "parent" /\ pc[p] = "wait" /\ there = "done"
         \/ there \in {"failed", "interrupted"}
  PROVE  ParentKnows' /\ ChildKnows' /\ Stream("parent")' /\ Stream("child")'
<1>1. /\ pc'[p] = there /\ \A q \in Processes : q # p => pc'[q] = pc[q]
      /\ UNCHANGED data
  BY DEF PipeInv, TypeOK, Goto
<1>2. Stream("parent")' /\ Stream("child")'
  BY StreamsStay DEF PipeInv, Processes, data
<1>3. TypeOK /\ ParentKnows /\ ChildKnows
  BY DEF PipeInv
<1>4. CASE p = "parent"
  <2>1. pc'["parent"] = there /\ pc'["child"] = pc["child"]
    BY <1>1, <1>4 DEF Processes
  <2>2. ChildKnows'
    BY <1>1, <1>3, <2>1 DEF ChildKnows, data
  <2>3. arrayData["parent"] # NONE => Len(Outgoing("parent")) = Len(arrayData["parent"]) + 1
    BY <1>3, OutgoingFacts DEF Processes
  <2>4. ParentKnows'
    BY <1>1, <1>3, <1>4, <2>1, <2>3 DEF ParentKnows, data
  <2> QED
    BY <1>2, <2>2, <2>4
<1>5. CASE p = "child"
  <2>1. pc'["child"] = there /\ pc'["parent"] = pc["parent"]
    BY <1>1, <1>5 DEF Processes
  <2>2. ParentKnows'
    BY <1>1, <1>3, <2>1 DEF ParentKnows, data
  <2>3. Outgoing("child") = arrayData["child"]
    BY DEF Outgoing
  <2>4. ChildKnows'
    BY <1>1, <1>3, <1>5, <2>1, <2>3 DEF ChildKnows, data
  <2> QED
    BY <1>2, <2>2, <2>4
<1> QED
  BY <1>4, <1>5, ProcessFacts

LEMMA MoveType ==
  ASSUME TypeOK, NEW p \in Processes, NEW there, Goto(p, there), UNCHANGED data,
         there \in {"input", "send", "receive", "close", "wait", "done", "failed", "killed",
                    "interrupted"},
         ends' \in [Processes -> SUBSET Ends]
  PROVE  TypeOK'
<1>1. pc' \in [Processes -> {"start", "input", "send", "receive", "close", "wait", "done",
                             "failed", "killed", "interrupted"}]
  BY DEF TypeOK, Goto
<1>2. UNCHANGED data
  OBVIOUS
<1> QED
  BY <1>1, <1>2 DEF TypeOK, data

\* A process that leaves with an error does so because the other one is gone.
LEMMA FailsTogether ==
  ASSUME PipeInv, NEW p \in Processes, NEW how, how \in {"failed", "killed"}, Goto(p, how),
         UNCHANGED data, pc[p] \in {"send", "receive"},
         pc[Other(p)] = "interrupted" \/ GaveUp
  PROVE  FailTogether'
<1>1. /\ pc'[p] = how /\ \A q \in Processes : q # p => pc'[q] = pc[q]
      /\ arrayData' = arrayData
  BY DEF PipeInv, TypeOK, Goto, data
<1>2. FailTogether
  BY DEF PipeInv
<1>3. GaveUp => GaveUp'
  <2>1. GaveUp => p # "parent"
    BY DEF GaveUp
  <2> QED
    BY <1>1, <2>1 DEF GaveUp, Processes
<1>4. ASSUME NEW r \in Processes, NEW q \in Processes, r # q, pc'[r] \in {"failed", "killed"}
      PROVE  GaveUp' \/ pc'[q] = "interrupted"
  <2>1. CASE r = p
    BY <1>1, <1>3, <1>4, <2>1, ProcessFacts
  <2>2. CASE r # p
    <3>1. pc[r] \in {"failed", "killed"} /\ pc[p] # "interrupted" /\ q = p
      BY <1>1, <1>4, <2>2 DEF Processes
    <3>2. GaveUp
      BY <1>2, <1>4, <3>1 DEF FailTogether
    <3> QED
      BY <1>3, <3>2
  <2> QED
    BY <2>1, <2>2
<1> QED
  BY <1>4 DEF FailTogether

\* After fork each process keeps one end of each pipe.
LEMMA CloseUnusedStep == ASSUME PipeInv, NEW p \in Processes, closeUnused(p) PROVE PipeInv'
<1> DEFINE there == IF p = "parent" THEN "input" ELSE "receive"
<1>1. /\ TypeOK /\ EndsFollowPc /\ FailTogether
      /\ pc[p] = "start" /\ Goto(p, there) /\ UNCHANGED data
      /\ ends' = [ends EXCEPT ![p] = @ \ {<<Out(p), "read">>, <<In(p), "write">>}]
  BY DEF PipeInv, closeUnused, data
<1>2. ends \in [Processes -> SUBSET Ends] /\ ends[p] = Ends
  BY <1>1 DEF TypeOK, EndsFollowPc, Holding
<1>3. Ends \ {<<Out(p), "read">>, <<In(p), "write">>} = {<<Out(p), "write">>, <<In(p), "read">>}
  BY DEF Ends, Pipes, Out, In
<1>4. ends' \in [Processes -> SUBSET Ends]
  BY <1>1, <1>2
<1>5. TypeOK'
  BY <1>1, <1>4, MoveType
<1>6. EndsFollowPc'
  <2>1. /\ pc'[p] = there /\ \A q \in Processes : q # p => pc'[q] = pc[q] /\ ends'[q] = ends[q]
        /\ ends'[p] = {<<Out(p), "write">>, <<In(p), "read">>}
    BY <1>1, <1>2, <1>3 DEF TypeOK, Goto
  <2> QED
    BY <1>1, <2>1 DEF EndsFollowPc, Holding
<1>7. FailTogether'
  BY <1>1, FailureStays DEF data, Ended
<1>8. ParentKnows' /\ ChildKnows' /\ Stream("parent")' /\ Stream("child")'
  BY <1>1, MoveKnows
<1> QED
  BY <1>5, <1>6, <1>7, <1>8 DEF PipeInv

LEMMA TooFew ==
  ASSUME NEW a \in Nat, NEW b \in Nat, NEW k, NEW m \in Nat, a + b = k, k < m
  PROVE  a # m
  OBVIOUS

\* Steps that end a process, or lead the parent to wait.
LEMMA LeaveStep ==
  ASSUME PipeInv, NEW p \in Processes,
         \/ p = "parent" /\ giveUp
         \/ writeFails(p) \/ readEnds(p) \/ closeUsed(p) \/ Interrupt(p)
  PROVE  PipeInv'
<1>1. /\ TypeOK /\ EndsFollowPc /\ FailTogether /\ ParentKnows /\ ChildKnows
      /\ Stream("parent") /\ Stream("child")
  BY DEF PipeInv
<1>2. ASSUME NEW how, Exit(p, how), UNCHANGED data,
             how \in {"wait", "done", "failed", "killed", "interrupted"}
      PROVE  TypeOK' /\ EndsFollowPc'
  <2>1. ends' \in [Processes -> SUBSET Ends]
    BY <1>1, <1>2 DEF TypeOK, Exit
  <2> QED
    BY <1>1, <1>2, <2>1, MoveType, EndsClosed DEF Exit
<1>3. ASSUME NEW how, Exit(p, how), UNCHANGED data, FailTogether',
             \/ how \in {"failed", "interrupted"}
             \/ how = "killed" /\ pc[p] = "send"
             \/ how = (IF p = "parent" THEN "wait" ELSE "done") /\ pc[p] = "close"
      PROVE  PipeInv'
  <2>1. Goto(p, how)
    BY <1>3 DEF Exit
  <2>2. ParentKnows' /\ ChildKnows' /\ Stream("parent")' /\ Stream("child")'
    BY <1>3, <2>1, MoveKnows
  <2> QED
    BY <1>2, <1>3, <2>2 DEF PipeInv
<1>4. CASE p = "parent" /\ giveUp
  <2>1. /\ Exit(p, "failed") /\ UNCHANGED data /\ pc["parent"] = "input" /\ Goto(p, "failed")
        /\ arrayData' = arrayData
    BY <1>4 DEF giveUp, data, Exit
  <2>2. GaveUp'
    BY <1>1, <1>4, <2>1 DEF ParentKnows, GaveUp, Goto, TypeOK
  <2>3. FailTogether'
    BY <2>2 DEF FailTogether
  <2> QED
    BY <1>3, <2>1, <2>3
<1>5. CASE writeFails(p)
  <2>1. /\ Exit(p, "killed") /\ UNCHANGED data /\ pc[p] = "send" /\ Goto(p, "killed")
        /\ Holders(<<Out(p), "read">>) = {} /\ sent[p] < Len(Outgoing(p))
    BY <1>5 DEF writeFails, data, Exit
  <2>2. /\ Other(p) \in Processes /\ Other(p) # p
        /\ pc[Other(p)] \notin {"start", "input", "send", "receive", "close"}
    BY <1>1, <2>1, NobodyThere, ProcessFacts
  <2>3. pc[Other(p)] \notin {"wait", "done"}
    <3>1. CASE p = "parent"
      <4>1. Other(p) = "child" /\ arrayData["parent"] # NONE
        BY <1>1, <2>1, <3>1 DEF Other, ParentKnows
      <4>2. /\ Len(received["child"]) + Len(pipe[Out("parent")]) = sent["parent"]
            /\ Len(Outgoing("parent")) = Len(arrayData["parent"]) + 1
            /\ received["child"] \in Seq(Int) /\ pipe[Out("parent")] \in Seq(Int)
            /\ sent["parent"] \in Nat
        BY <1>1, <3>1, <4>1, ReaderFacts, OutgoingFacts
      <4>3. Len(received["child"]) \in Nat /\ Len(pipe[Out("parent")]) \in Nat
        BY <4>2
      <4>4. Len(received["child"]) # Len(arrayData["parent"]) + 1
        <5>1. /\ sent["parent"] < Len(arrayData["parent"]) + 1
              /\ Len(arrayData["parent"]) + 1 \in Nat
          BY <1>1, <2>1, <3>1, <4>1, <4>2, OutgoingFacts
        <5> QED
          BY <4>2, <4>3, <5>1, TooFew
      <4> QED
        BY <1>1, <4>1, <4>4 DEF ChildKnows
    <3>2. CASE p = "child"
      <4>1. Other(p) = "parent" /\ arrayData["child"] # NONE
        BY <1>1, <2>1, <3>2 DEF Other, ChildKnows
      <4>2. /\ Len(received["parent"]) + Len(pipe[Out("child")]) = sent["child"]
            /\ Len(Outgoing("child")) = Len(arrayData["child"])
            /\ received["parent"] \in Seq(Int) /\ pipe[Out("child")] \in Seq(Int)
            /\ sent["child"] \in Nat
        <5>1. "child" \in Processes /\ Other("child") = "parent" /\ "child" # "parent"
          BY <3>2, <4>1
        <5>2. /\ Len(received["parent"]) + Len(pipe[Out("child")]) = sent["child"]
              /\ received["parent"] \in Seq(Int) /\ pipe[Out("child")] \in Seq(Int)
              /\ sent["child"] \in Nat
          BY <1>1, <5>1, ReaderFacts
        <5>3. Len(Outgoing("child")) = Len(arrayData["child"])
          BY <4>1 DEF Outgoing
        <5> QED
          BY <5>2, <5>3
      <4>3. Len(received["parent"]) \in Nat /\ Len(pipe[Out("child")]) \in Nat
        BY <4>2
      <4>4. Len(arrayData["child"]) = Len(arrayData["parent"])
        <5>1. arrayData["parent"] # NONE /\ arrayData["child"] = Sorted(arrayData["parent"])
          BY <1>1, <4>1 DEF ChildKnows
        <5>2. arrayData["parent"] \in Seq(Int)
          BY <1>1, <5>1 DEF TypeOK, Processes
        <5> QED
          BY <5>1, <5>2, SortedFacts
      <4>5. Len(received["parent"]) # Len(arrayData["parent"])
        <5>1. sent["child"] < Len(arrayData["parent"]) /\ Len(arrayData["parent"]) \in Nat
          BY <1>1, <2>1, <3>2, <4>1, <4>2, <4>4, OutgoingFacts
        <5> QED
          BY <4>2, <4>3, <5>1, TooFew
      <4> QED
        BY <1>1, <4>1, <4>5 DEF ParentKnows
    <3> QED
      BY <3>1, <3>2, ProcessFacts
  <2>4. pc[Other(p)] = "interrupted" \/ GaveUp
    BY <1>1, <2>1, <2>2, <2>3 DEF FailTogether, TypeOK
  <2>5. FailTogether'
    BY <2>1, <2>4, FailsTogether
  <2> QED
    BY <1>3, <2>1, <2>5
<1>6. CASE readEnds(p)
  <2>1. /\ Exit(p, "failed") /\ UNCHANGED data /\ pc[p] = "receive" /\ Goto(p, "failed")
        /\ Holders(<<In(p), "write">>) = {} /\ Wanted(p) > 0 /\ pipe[In(p)] = <<>>
    BY <1>6 DEF readEnds, data, Exit
  <2>2. /\ Other(p) \in Processes /\ Other(p) # p
        /\ pc[Other(p)] \notin {"start", "input", "send", "receive", "close"}
    BY <1>1, <2>1, NobodyThere, ProcessFacts
  <2>3. pc[Other(p)] \notin {"wait", "done"}
    <3>1. CASE p = "parent"
      <4>1. Other(p) = "child" /\ In(p) = Out("child") /\ Other("child") = "parent"
            /\ arrayData["parent"] # NONE
        BY <1>1, <2>1, <3>1 DEF Other, In, Out, ParentKnows
      <4>2. SUFFICES ASSUME pc["child"] = "done" PROVE FALSE
        BY <1>1, <4>1 DEF ChildKnows
      <4>3. /\ arrayData["child"] # NONE /\ sent["child"] = Len(arrayData["child"])
            /\ arrayData["child"] = Sorted(arrayData["parent"])
        BY <1>1, <4>2 DEF ChildKnows
      <4>4. arrayData["parent"] \in Seq(Int)
        BY <1>1, <4>1 DEF TypeOK, Processes
      <4>5. Len(received["parent"]) + Len(pipe[Out("child")]) = sent["child"]
            /\ Len(pipe[Out("child")]) = 0 /\ received["parent"] \in Seq(Int)
        BY <1>1, <2>1, <4>1, ReaderFacts, EmptySeq DEF Processes
      <4>6. Len(received["parent"]) = Len(arrayData["parent"])
        BY <4>3, <4>4, <4>5, SortedFacts
      <4>7. Wanted("parent") = 0
        BY <4>4, <4>6 DEF Wanted
      <4> QED
        BY <2>1, <3>1, <4>7
    <3>2. CASE p = "child"
      <4>1. Other(p) = "parent" /\ In(p) = Out("parent") /\ Other("parent") = "child"
        BY <3>2 DEF Other, In, Out
      <4>2. SUFFICES ASSUME pc["parent"] \in {"wait", "done"} PROVE FALSE
        BY <4>1
      <4>3. arrayData["parent"] # NONE /\ sent["parent"] = Len(arrayData["parent"]) + 1
        BY <1>1, <4>2 DEF ParentKnows
      <4>4. /\ Len(Outgoing("parent")) = Len(arrayData["parent"]) + 1
            /\ Len(arrayData["parent"]) \in Nat /\ Outgoing("parent")[1] = Len(arrayData["parent"])
        BY <1>1, <4>3, OutgoingFacts DEF Processes
      <4>5. /\ Len(received["child"]) + Len(pipe[Out("parent")]) = sent["parent"]
            /\ Len(pipe[Out("parent")]) = 0 /\ received["child"] \in Seq(Int)
            /\ received["child"] # <<>> => received["child"][1] = Outgoing("parent")[1]
        BY <1>1, <2>1, <4>1, ReaderFacts, EmptySeq DEF Processes
      <4>6. Len(received["child"]) = Len(arrayData["parent"]) + 1
        BY <4>3, <4>5
      <4>7. received["child"] # <<>> /\ received["child"][1] = Len(arrayData["parent"])
        BY <4>4, <4>5, <4>6, EmptySeq
      <4>8. Wanted("child") = 0
        BY <4>4, <4>6, <4>7 DEF Wanted
      <4> QED
        BY <2>1, <3>2, <4>8
    <3> QED
      BY <3>1, <3>2, ProcessFacts
  <2>4. pc[Other(p)] = "interrupted" \/ GaveUp
    BY <1>1, <2>1, <2>2, <2>3 DEF FailTogether, TypeOK
  <2>5. FailTogether'
    BY <2>1, <2>4, FailsTogether
  <2> QED
    BY <1>3, <2>1, <2>5
<1>7. CASE closeUsed(p)
  <2> DEFINE how == IF p = "parent" THEN "wait" ELSE "done"
  <2>1. Exit(p, how) /\ UNCHANGED data /\ pc[p] = "close" /\ Goto(p, how)
    BY <1>7 DEF closeUsed, data, Exit
  <2>2. FailTogether'
    BY <1>1, <2>1, FailureStays DEF data, Ended
  <2> QED
    BY <1>3, <2>1, <2>2
<1>8. CASE Interrupt(p)
  <2>1. Exit(p, "interrupted") /\ UNCHANGED data /\ ~Ended(p) /\ Goto(p, "interrupted")
    BY <1>8 DEF Interrupt, data, Exit
  <2>2. FailTogether'
    BY <1>1, <2>1, FailureStays DEF data
  <2> QED
    BY <1>3, <2>1, <2>2
<1> QED
  BY <1>4, <1>5, <1>6, <1>7, <1>8

LEMMA WaitStep == ASSUME PipeInv, waitForChild PROVE PipeInv'
<1>1. /\ TypeOK /\ EndsFollowPc /\ FailTogether
      /\ pc["parent"] = "wait" /\ Goto("parent", "done") /\ UNCHANGED data /\ UNCHANGED ends
      /\ "parent" \in Processes /\ ~Ended("parent")
  BY DEF PipeInv, waitForChild, data, Processes, Ended
<1>2. ends' \in [Processes -> SUBSET Ends]
  BY <1>1 DEF TypeOK
<1>3. TypeOK' /\ EndsFollowPc'
  BY <1>1, <1>2, MoveType, EndsStay
<1>4. FailTogether'
  BY <1>1, FailureStays DEF data
<1>5. ParentKnows' /\ ChildKnows' /\ Stream("parent")' /\ Stream("child")'
  BY <1>1, MoveKnows
<1> QED
  BY <1>3, <1>4, <1>5 DEF PipeInv

\* A stream of which nothing has been written.
LEMMA FreshStream == ASSUME NEW s \in Seq(Int) PROVE <<>> \o <<>> = SubSeq(s, 1, 0)
<1>1. SubSeq(s, 1, 0) = <<>>
  BY SubSeqEmpty
<1>2. <<>> \o <<>> = <<>>
  BY ConcatEmptySeq, EmptySeq
<1> QED
  BY <1>1, <1>2

LEMMA InputStep == ASSUME PipeInv, readInput PROVE PipeInv'
<1>1. /\ TypeOK /\ EndsFollowPc /\ FailTogether /\ ParentKnows /\ ChildKnows
      /\ Stream("parent") /\ Stream("child")
      /\ pc["parent"] = "input" /\ Goto("parent", "send")
      /\ UNCHANGED <<ends, pipe, sent, received, printed>>
  BY DEF PipeInv, readInput
<1>2. PICK a \in Arrays : arrayData' = [arrayData EXCEPT !["parent"] = a]
  BY DEF readInput
<1>3. /\ a \in Seq(Int) /\ a # NONE
      /\ arrayData'["parent"] = a /\ arrayData'["child"] = arrayData["child"]
      /\ arrayData["parent"] = NONE /\ arrayData["child"] = NONE
      /\ pc'["parent"] = "send" /\ pc'["child"] = pc["child"]
  BY <1>1, <1>2, PipeAssumption DEF TypeOK, Goto, Processes, ParentKnows, ChildKnows
<1>4. TypeOK'
  <2>1. arrayData' \in [Processes -> Seq(Int) \cup {NONE}]
    BY <1>1, <1>2, <1>3 DEF TypeOK
  <2>2. pc' \in [Processes -> {"start", "input", "send", "receive", "close", "wait", "done",
                               "failed", "killed", "interrupted"}]
    BY <1>1 DEF TypeOK, Goto
  <2> QED
    BY <1>1, <1>3, <2>1, <2>2 DEF TypeOK
<1>5. EndsFollowPc' /\ FailTogether'
  BY <1>1, EndsStay, FailureStays DEF Processes, Ended
<1>6. ParentKnows' /\ ChildKnows'
  BY <1>1, <1>3 DEF ParentKnows, ChildKnows
<1>7. Stream("parent")'
  <2>1. sent["parent"] = 0 /\ received[Other("parent")] = <<>> /\ pipe[Out("parent")] = <<>>
    BY <1>1, <1>3 DEF Stream
  <2>2. Outgoing("parent")' \in Seq(Int)
    BY <1>3, <1>4, CountedArray DEF Outgoing
  <2>3. 0 <= Len(Outgoing("parent")') /\ <<>> \o <<>> = SubSeq(Outgoing("parent")', 1, 0)
    BY <2>2, FreshStream
  <2> QED
    BY <1>1, <1>3, <2>1, <2>3 DEF Stream
<1>8. Stream("child")'
  BY <1>1, <1>3 DEF Stream
<1> QED
  BY <1>4, <1>5, <1>6, <1>7, <1>8 DEF PipeInv

LEMMA WriteStep == ASSUME PipeInv, NEW p \in Processes, writeAll(p) PROVE PipeInv'
<1>1. /\ TypeOK /\ EndsFollowPc /\ FailTogether /\ ParentKnows /\ ChildKnows
      /\ Stream("parent") /\ Stream("child")
      /\ pc[p] = "send" /\ UNCHANGED <<received, arrayData, printed>>
  BY DEF PipeInv, writeAll
<1>2. arrayData[p] # NONE /\ Stream(p)
  BY <1>1, ProcessFacts DEF ParentKnows, ChildKnows
<1> DEFINE q == Other(p)
<1>3. /\ q \in Processes /\ q # p /\ Out(p) \in Pipes /\ Out(q) \in Pipes /\ Out(q) # Out(p)
      /\ Other(q) = p /\ Stream(q)
  BY <1>1, ProcessFacts DEF Processes, Other, Pipes, Out
<1>4. Outgoing(p) \in Seq(Int) /\ Len(Outgoing(p)) \in Nat /\ sent[p] \in Nat
  BY <1>1, <1>2, OutgoingFacts DEF TypeOK
<1>5. ASSUME NEW n \in 1 .. Room(p), n <= Remaining(p), sent[p] < Len(Outgoing(p)),
             pipe' = [pipe EXCEPT ![Out(p)] = @ \o Chunk(p, n)],
             sent' = [sent EXCEPT ![p] = @ + n], UNCHANGED <<pc, ends>>
      PROVE  PipeInv'
  <2>1. n \in Nat /\ sent[p] + n <= Len(Outgoing(p))
    BY <1>4, <1>5, PipeAssumption DEF Remaining, Room, TypeOK
  <2>2. /\ sent'[p] = sent[p] + n /\ sent'[q] = sent[q]
        /\ pipe'[Out(p)] = pipe[Out(p)] \o Chunk(p, n)
        /\ \A c \in Pipes : c # Out(p) => pipe'[c] = pipe[c]
        /\ received[q] \in Seq(Int) /\ pipe[Out(p)] \in Seq(Int)
    BY <1>1, <1>3, <1>5 DEF TypeOK
  <2>3. /\ pipe'[Out(p)] \in Seq(Int) /\ Len(pipe'[Out(p)]) = Len(pipe[Out(p)]) + n
        /\ received[q] \o pipe'[Out(p)] = SubSeq(Outgoing(p), 1, sent[p] + n)
    <3> DEFINE o == Outgoing(p)
               k == sent[p]
               r == received[q]
               u == pipe[Out(p)]
    <3>1. /\ o \in Seq(Int) /\ k \in Nat /\ n \in Nat /\ k + n <= Len(o)
          /\ r \in Seq(Int) /\ u \in Seq(Int)
          /\ r \o u = SubSeq(o, 1, k)
      BY <1>2, <1>4, <2>1, <2>2 DEF Stream
    <3> DEFINE v == pipe'[Out(p)]
    <3>2. v = u \o SubSeq(o, k + 1, k + n) /\ Begins(r, u, o, k)
      BY <2>2, <3>1 DEF Chunk, Begins
    <3> HIDE DEF o, k, r, u, v
    <3>3. v \in Seq(Int)
      BY <3>1, <3>2, ChunkWritten
    <3>4. Len(v) = Len(u) + n
      BY <3>1, <3>2, ChunkWritten
    <3>5. Begins(r, v, o, k + n)
      BY <3>1, <3>2, ChunkWritten
    <3> QED
      BY <3>3, <3>4, <3>5 DEF o, k, r, u, v, Begins
  <2>4. TypeOK'
    <3>1. Len(pipe'[Out(p)]) <= PIPE_CAPACITY
      <4>1. Len(pipe[Out(p)]) \in Nat /\ PIPE_CAPACITY \in Nat /\ n <= PIPE_CAPACITY - Len(pipe[Out(p)])
        BY <1>5, <2>2, PipeAssumption DEF Room
      <4> QED
        BY <2>1, <2>3, <4>1
    <3>2. pipe' \in [Pipes -> Seq(Int)] /\ \A c \in Pipes : Len(pipe'[c]) <= PIPE_CAPACITY
      BY <1>1, <1>3, <1>5, <2>2, <2>3, <3>1 DEF TypeOK
    <3>3. sent' \in [Processes -> Nat]
      BY <1>1, <1>5, <2>1 DEF TypeOK
    <3> QED
      BY <1>1, <1>5, <3>2, <3>3 DEF TypeOK
  <2>5. Stream(p)'
    BY <1>1, <1>2, <2>1, <2>2, <2>3 DEF Stream, Outgoing
  <2>6. Stream(q)'
    BY <1>1, <1>3, <2>2 DEF Stream, Outgoing
  <2>7. EndsFollowPc' /\ FailTogether'
    BY <1>1, <1>5 DEF EndsFollowPc, Holding, FailTogether, GaveUp
  <2>8. \A r \in Processes : pc[r] # "send" => sent'[r] = sent[r]
    BY <1>1, <1>3, <2>2, ProcessFacts
  <2>9. ParentKnows' /\ ChildKnows'
    BY <1>1, <1>5, <2>8 DEF ParentKnows, ChildKnows, Processes
  <2>10. Stream("parent")' /\ Stream("child")'
    BY <2>5, <2>6, ProcessFacts DEF Other
  <2> QED
    BY <2>4, <2>7, <2>9, <2>10 DEF PipeInv
<1>6. ASSUME sent[p] = Len(Outgoing(p)), UNCHANGED <<ends, pipe, sent>>,
             Goto(p, IF p = "parent" THEN "receive" ELSE "close")
      PROVE  PipeInv'
  <2> DEFINE there == IF p = "parent" THEN "receive" ELSE "close"
  <2>1. UNCHANGED data /\ ends' \in [Processes -> SUBSET Ends]
    BY <1>1, <1>6 DEF data, TypeOK
  <2>2. TypeOK' /\ EndsFollowPc'
    BY <1>1, <1>6, <2>1, MoveType, EndsStay
  <2>3. FailTogether'
    BY <1>1, <1>6, FailureStays DEF Ended
  <2>4. ParentKnows' /\ ChildKnows' /\ Stream("parent")' /\ Stream("child")'
    BY <1>1, <1>6, <2>1, MoveKnows
  <2> QED
    BY <2>2, <2>3, <2>4 DEF PipeInv
<1> QED
  BY <1>5, <1>6 DEF writeAll

\* Reading takes from the front of the pipe what it adds to the end of what
\* was read.
LEMMA ReadStep == ASSUME PipeInv, NEW p \in Processes, readAll(p) PROVE PipeInv'
<1>1. /\ TypeOK /\ EndsFollowPc /\ FailTogether /\ ParentKnows /\ ChildKnows
      /\ Stream("parent") /\ Stream("child")
      /\ pc[p] = "receive" /\ UNCHANGED <<pc, ends, sent, arrayData, printed>>
  BY DEF PipeInv, readAll
<1> DEFINE q == Other(p)
<1>2. /\ q \in Processes /\ q # p /\ Out(p) \in Pipes /\ Out(q) \in Pipes /\ Out(q) # Out(p)
      /\ Other(q) = p /\ In(p) = Out(q) /\ Stream(q) /\ Stream(p)
  BY <1>1, ProcessFacts DEF Processes, Other, Pipes, Out
<1>3. PICK n \in 1 .. Len(pipe[In(p)]) :
        /\ received' = [received EXCEPT ![p] = @ \o SubSeq(pipe[In(p)], 1, n)]
        /\ pipe' = [pipe EXCEPT ![In(p)] = SubSeq(@, n + 1, Len(@))]
  BY DEF readAll
<1>4. /\ received'[p] = received[p] \o SubSeq(pipe[Out(q)], 1, n)
      /\ received'[q] = received[q]
      /\ pipe'[Out(q)] = SubSeq(pipe[Out(q)], n + 1, Len(pipe[Out(q)]))
      /\ \A c \in Pipes : c # Out(q) => pipe'[c] = pipe[c]
      /\ received[p] \in Seq(Int) /\ pipe[Out(q)] \in Seq(Int)
  BY <1>1, <1>2, <1>3 DEF TypeOK
<1>5. /\ received'[p] \in Seq(Int) /\ pipe'[Out(q)] \in Seq(Int)
      /\ Len(pipe'[Out(q)]) = Len(pipe[Out(q)]) - n
      /\ received'[p] \o pipe'[Out(q)] = received[p] \o pipe[Out(q)]
  <2> DEFINE r == received[p]
             u == pipe[Out(q)]
  <2>1. r \in Seq(Int) /\ u \in Seq(Int) /\ n \in 1 .. Len(u)
    BY <1>2, <1>3, <1>4
  <2>2. received'[p] = r \o SubSeq(u, 1, n) /\ pipe'[Out(q)] = SubSeq(u, n + 1, Len(u))
    BY <1>4
  <2> HIDE DEF r, u
  <2>3. LET taken == SubSeq(u, 1, n)
            left == SubSeq(u, n + 1, Len(u)) IN
        /\ r \o taken \in Seq(Int) /\ left \in Seq(Int) /\ Len(left) = Len(u) - n
        /\ (r \o taken) \o left = r \o u
    BY <2>1, ChunkRead
  <2> QED
    BY <2>2, <2>3 DEF r, u
<1>6. arrayData[q] # NONE
  <2>1. pipe[Out(q)] # <<>>
    BY <1>2, <1>3, <1>4, EmptySeq
  <2> QED
    BY <1>2, <2>1 DEF Stream
<1>7. TypeOK'
  <2>1. received' \in [Processes -> Seq(Int)]
    BY <1>1, <1>2, <1>3, <1>4, <1>5 DEF TypeOK
  <2>2. Len(pipe'[Out(q)]) <= PIPE_CAPACITY
    <3>1. Len(pipe[Out(q)]) <= PIPE_CAPACITY /\ n \in Nat /\ Len(pipe[Out(q)]) \in Nat
          /\ PIPE_CAPACITY \in Nat
      BY <1>1, <1>2, <1>3, <1>4, PipeAssumption DEF TypeOK
    <3> QED
      BY <1>5, <3>1
  <2>3. pipe' \in [Pipes -> Seq(Int)] /\ \A c \in Pipes : Len(pipe'[c]) <= PIPE_CAPACITY
    BY <1>1, <1>2, <1>3, <1>4, <1>5, <2>2 DEF TypeOK
  <2> QED
    BY <1>1, <2>1, <2>3 DEF TypeOK
<1>8. Stream(q)' /\ Stream(p)'
  <2>1. Stream(q)'
    BY <1>1, <1>2, <1>5, <1>6 DEF Stream, Outgoing
  <2>2. Stream(p)'
    BY <1>1, <1>2, <1>4 DEF Stream, Outgoing
  <2> QED
    BY <2>1, <2>2
<1>9. EndsFollowPc' /\ FailTogether'
  BY <1>1 DEF EndsFollowPc, Holding, FailTogether, GaveUp
<1>10. ParentKnows'
  BY <1>1, <1>2, <1>4, ProcessFacts DEF ParentKnows
<1>11. ChildKnows'
  BY <1>1, <1>2, <1>4, ProcessFacts DEF ChildKnows
<1> QED
  BY <1>2, <1>7, <1>8, <1>9, <1>10, <1>11, ProcessFacts DEF PipeInv, Other

\* The child has all of the array when it sorts it.
LEMMA AllReceived ==
  ASSUME PipeInv, pc["child"] = "receive", Wanted("child") = 0
  PROVE  /\ arrayData["parent"] # NONE /\ arrayData["parent"] \in Seq(Int)
         /\ Tail(received["child"]) = arrayData["parent"]
         /\ Len(received["child"]) = Len(arrayData["parent"]) + 1
<1>1. /\ TypeOK /\ Stream("parent") /\ "parent" \in Processes
      /\ Other("parent") = "child"
  BY DEF PipeInv, Processes, Other
<1>2. /\ received["child"] # <<>>
      /\ received["child"][1] + 1 - Len(received["child"]) = 0
  BY DEF Wanted
<1>3. /\ arrayData["parent"] # NONE /\ received["child"][1] = Outgoing("parent")[1]
      /\ received["child"] \in Seq(Int)
      /\ Len(received["child"]) = Len(Outgoing("parent")) => received["child"] = Outgoing("parent")
  BY <1>1, <1>2, ReaderFacts
<1>4. /\ arrayData["parent"] \in Seq(Int) /\ Len(arrayData["parent"]) \in Nat
      /\ Len(Outgoing("parent")) = Len(arrayData["parent"]) + 1
      /\ Outgoing("parent")[1] = Len(arrayData["parent"])
      /\ Tail(Outgoing("parent")) = arrayData["parent"]
  BY <1>1, <1>3, OutgoingFacts
<1>5. Len(received["child"]) = Len(arrayData["parent"]) + 1
  <2>1. Len(received["child"]) \in Nat
    BY <1>3
  <2> QED
    BY <1>2, <1>3, <1>4, <2>1
<1> QED
  BY <1>3, <1>4, <1>5

LEMMA SortStep == ASSUME PipeInv, sortReceived PROVE PipeInv'
<1>1. /\ TypeOK /\ EndsFollowPc /\ FailTogether /\ ParentKnows /\ ChildKnows
      /\ Stream("parent") /\ Stream("child")
      /\ pc["child"] = "receive" /\ Goto("child", "send") /\ Wanted("child") = 0
      /\ UNCHANGED <<ends, pipe, sent, received, printed>>
  BY DEF PipeInv, sortReceived
<1> DEFINE a == arrayData["parent"]
<1>2. /\ a # NONE /\ a \in Seq(Int)
      /\ Tail(received["child"]) = a /\ Len(received["child"]) = Len(a) + 1
  BY <1>1, AllReceived
<1>3. arrayData' = [arrayData EXCEPT !["child"] = Sorted(a)]
  BY <1>2 DEF sortReceived, Sorted
<1>4. Sorted(a) \in Seq(Int) /\ Sorted(a) # NONE /\ Len(Sorted(a)) = Len(a)
  BY <1>2, SortedFacts, PipeAssumption
<1>5. /\ arrayData'["child"] = Sorted(a) /\ arrayData'["parent"] = a
      /\ pc'["child"] = "send" /\ pc'["parent"] = pc["parent"] /\ arrayData["child"] = NONE
  BY <1>1, <1>3 DEF TypeOK, Goto, Processes, ChildKnows
<1>6. TypeOK'
  <2>1. arrayData' \in [Processes -> Seq(Int) \cup {NONE}]
    BY <1>1, <1>3, <1>4 DEF TypeOK
  <2>2. pc' \in [Processes -> {"start", "input", "send", "receive", "close", "wait", "done",
                               "failed", "killed", "interrupted"}]
    BY <1>1 DEF TypeOK, Goto
  <2> QED
    BY <1>1, <1>5, <2>1, <2>2 DEF TypeOK
<1>7. EndsFollowPc' /\ FailTogether'
  BY <1>1, <1>5, EndsStay, FailureStays DEF Processes, Ended
<1>8. ParentKnows' /\ ChildKnows'
  BY <1>1, <1>2, <1>4, <1>5 DEF ParentKnows, ChildKnows
<1>9. Stream("parent")'
  BY <1>1, <1>2, <1>5 DEF Stream, Outgoing
<1>10. Stream("child")'
  <2>1. sent["child"] = 0 /\ received[Other("child")] = <<>> /\ pipe[Out("child")] = <<>>
    BY <1>1, <1>5 DEF Stream
  <2>2. Outgoing("child")' = Sorted(a)
    BY <1>5 DEF Outgoing
  <2>3. 0 <= Len(Sorted(a)) /\ <<>> \o <<>> = SubSeq(Sorted(a), 1, 0)
    BY <1>4, FreshStream
  <2> QED
    BY <1>1, <1>4, <1>5, <2>1, <2>2, <2>3 DEF Stream
<1> QED
  BY <1>6, <1>7, <1>8, <1>9, <1>10 DEF PipeInv

LEMMA DisplayStep == ASSUME PipeInv, displayArray PROVE PipeInv'
<1>1. /\ TypeOK /\ EndsFollowPc /\ FailTogether /\ ParentKnows /\ ChildKnows
      /\ Stream("parent") /\ Stream("child")
      /\ pc["parent"] = "receive" /\ Goto("parent", "close") /\ Wanted("parent") = 0
      /\ UNCHANGED <<ends, pipe, sent, received, arrayData>>
  BY DEF PipeInv, displayArray
<1>2. Len(received["parent"]) = Len(arrayData["parent"])
  <2>1. arrayData["parent"] \in Seq(Int) /\ received["parent"] \in Seq(Int)
    BY <1>1 DEF TypeOK, Processes, ParentKnows
  <2>2. Len(arrayData["parent"]) \in Nat /\ Len(received["parent"]) \in Nat
        /\ Len(arrayData["parent"]) - Len(received["parent"]) = 0
    BY <1>1, <2>1 DEF Wanted
  <2> QED
    BY <2>2
<1>3. pc'["parent"] = "close" /\ pc'["child"] = pc["child"]
  BY <1>1 DEF TypeOK, Goto, Processes
<1>4. TypeOK'
  BY <1>1 DEF TypeOK, Goto
<1>5. EndsFollowPc' /\ FailTogether'
  BY <1>1, EndsStay, FailureStays DEF Processes, Ended
<1>6. ParentKnows' /\ ChildKnows'
  BY <1>1, <1>2, <1>3 DEF ParentKnows, ChildKnows
<1>7. Stream("parent")' /\ Stream("child")'
  BY <1>1, StreamsStay DEF Processes
<1> QED
  BY <1>4, <1>5, <1>6, <1>7 DEF PipeInv

-----------------------------------------------------------------------------
(* The specification.                                                      *)

LEMMA InitPipe == Init => PipeInv
<1> SUFFICES ASSUME Init PROVE PipeInv
  OBVIOUS
<1>1. TypeOK
  <2>1. pipe \in [Pipes -> Seq(Int)] /\ \A c \in Pipes : Len(pipe[c]) <= PIPE_CAPACITY
    BY PipeAssumption, EmptySeq DEF Init
  <2> QED
    BY <2>1 DEF Init, TypeOK, Processes
<1>2. EndsFollowPc /\ ParentKnows /\ ChildKnows /\ FailTogether
  BY DEF Init, EndsFollowPc, Holding, ParentKnows, ChildKnows, FailTogether, Processes
<1>3. Stream("parent") /\ Stream("child")
  BY DEF Init, Stream, Processes, Other, Pipes, Out
<1> QED
  BY <1>1, <1>2, <1>3 DEF PipeInv

LEMMA NextPipe == PipeInv /\ [Next]_vars => PipeInv'
<1> SUFFICES ASSUME PipeInv, [Next]_vars PROVE PipeInv'
  OBVIOUS
<1>1. CASE UNCHANGED vars
  BY <1>1 DEF vars, PipeInv, TypeOK, EndsFollowPc, Holding, ParentKnows, ChildKnows, Stream,
              Outgoing, FailTogether, GaveUp
<1>2. ASSUME NEW p \in Processes, Steps(p) PROVE PipeInv'
  BY <1>2, CloseUnusedStep, WriteStep, ReadStep, LeaveStep DEF Steps
<1>3. CASE readInput \/ giveUp \/ displayArray \/ waitForChild
  BY <1>3, InputStep, LeaveStep, DisplayStep, WaitStep DEF Processes
<1>4. CASE sortReceived
  BY <1>4, SortStep
<1>5. ASSUME NEW p \in Processes, Interrupt(p) PROVE PipeInv'
  BY <1>5, LeaveStep
<1> QED
  BY <1>1, <1>2, <1>3, <1>4, <1>5 DEF Next, Parent, Child, Processes

LEMMA PipeAlways == Spec => []PipeInv
  BY InitPipe, NextPipe, PTL DEF Spec

\* The two ends of a pipe agree, whatever its capacity and the arrays: what the
\* reader has, followed by what is in the pipe, is what the writer has written
\* so far, in order, however write and read cut it; and writeAll or readAll
\* fails, or a write is hit by SIGPIPE, only when the parent gave up before it
\* sent anything or the other process was interrupted.
THEOREM StreamsCorrect == Spec => []StreamsOK
<1>1. PipeInv => StreamsOK
  <2> SUFFICES ASSUME PipeInv PROVE StreamsOK
    OBVIOUS
  <2>1. TypeOK /\ FailTogether /\ Stream("parent") /\ Stream("child")
    BY DEF PipeInv
  <2>2. ASSUME NEW p \in Processes, NEW q \in Processes, p # q, arrayData[p] # NONE
        PROVE  received[q] \o pipe[Out(p)] = SubSeq(Outgoing(p), 1, sent[p])
    <3>1. Stream(p) /\ q = Other(p)
      BY <2>1, <2>2 DEF Processes, Other
    <3> QED
      BY <2>2, <3>1 DEF Stream
  <2> QED
    BY <2>1, <2>2 DEF StreamsOK, StreamIntact
<1> QED
  BY <1>1, PipeAlways, PTL

\* What the parent shows is the sorted array.
LEMMA DisplaysSorted ==
  ASSUME PipeInv, displayArray
  PROVE  /\ arrayData["parent"] # NONE /\ printed = NONE
         /\ printed' = Sorted(arrayData["parent"])
<1>1. /\ TypeOK /\ ParentKnows /\ ChildKnows /\ Stream("child")
      /\ pc["parent"] = "receive" /\ Wanted("parent") = 0 /\ printed' = received["parent"]
  BY DEF PipeInv, displayArray
<1> DEFINE a == arrayData["parent"]
           r == received["parent"]
<1>2. a # NONE /\ printed = NONE /\ a \in Seq(Int) /\ r \in Seq(Int)
  BY <1>1 DEF ParentKnows, TypeOK, Processes
<1>3. Len(r) = Len(a)
  <2>1. Len(a) \in Nat /\ Len(r) \in Nat /\ Len(a) - Len(r) = 0
    BY <1>1, <1>2 DEF Wanted
  <2> QED
    BY <2>1
<1>4. Sorted(a) \in Seq(Int) /\ Len(Sorted(a)) = Len(a)
  BY <1>2, SortedFacts
<1>5. CASE arrayData["child"] = NONE
  <2>1. r = <<>>
    BY <1>1, <1>5 DEF Stream, Other
  <2>2. Sorted(a) = <<>>
    BY <1>3, <1>4, <2>1, EmptySeq
  <2> QED
    BY <1>1, <1>2, <2>1, <2>2
<1>6. CASE arrayData["child"] # NONE
  <2>1. Outgoing("child") = Sorted(a)
    BY <1>1, <1>6 DEF ChildKnows, Outgoing
  <2>2. Len(r) = Len(Outgoing("child")) => r = Outgoing("child")
    <3>1. "child" \in Processes /\ Other("child") = "parent"
      BY DEF Processes, Other
    <3> QED
      BY <1>1, <1>6, <3>1, ReaderFacts
  <2> QED
    BY <1>1, <1>2, <1>3, <1>4, <2>1, <2>2
<1> QED
  BY <1>5, <1>6

LEMMA StepRefines ==
  ASSUME PipeInv, [Next]_vars
  PROVE  [Service!Next]_<<[s \in {"session"} |-> arrayData["parent"]],
                          [s \in {"session"} |-> printed]>>
<1>1. TypeOK /\ ParentKnows
  BY DEF PipeInv
<1>2. CASE readInput
  <2>1. PICK a \in Arrays : arrayData' = [arrayData EXCEPT !["parent"] = a]
    BY <1>2 DEF readInput
  <2>2. arrayData["parent"] = NONE /\ arrayData'["parent"] = a /\ UNCHANGED printed
    BY <1>1, <1>2, <2>1 DEF readInput, ParentKnows, TypeOK, Processes
  <2>3. Service!Ask("session")
    BY <2>2 DEF Service!Ask
  <2> QED
    BY <2>3 DEF Service!Next
<1>3. CASE displayArray
  <2>1. /\ arrayData["parent"] # NONE /\ printed = NONE
        /\ printed' = Service!sortArrayAscending(arrayData["parent"]) /\ UNCHANGED arrayData
    BY <1>3, DisplaysSorted DEF Sorted, displayArray
  <2>2. Service!Answer("session")
    BY <2>1 DEF Service!Answer
  <2> QED
    BY <2>2 DEF Service!Next
<1>4. CASE sortReceived
  <2>1. arrayData'["parent"] = arrayData["parent"] /\ UNCHANGED printed
    BY <1>1, <1>4 DEF sortReceived, TypeOK, Processes
  <2> QED
    BY <2>1
<1>5. CASE UNCHANGED <<arrayData, printed>>
  BY <1>5
<1>6. ASSUME NEW p \in Processes, Steps(p) \/ Interrupt(p) PROVE UNCHANGED <<arrayData, printed>>
  BY <1>6 DEF Steps, closeUnused, writeAll, writeFails, readAll, readEnds, closeUsed, Interrupt
<1>7. ASSUME giveUp \/ waitForChild \/ UNCHANGED vars PROVE UNCHANGED <<arrayData, printed>>
  BY <1>7 DEF giveUp, waitForChild, vars
<1> QED
  BY <1>2, <1>3, <1>4, <1>5, <1>6, <1>7 DEF Next, Parent, Child, Processes

\* A session of the pipe program is one of SortService: the array the user typed
\* in is printed back sorted, at most once, whatever the pipes hold, however the
\* transfers are cut, and whoever is interrupted.
THEOREM SessionRefines == Spec => RefinesService
<1>1. Init => Service!Init
  BY DEF Init, Service!Init, Processes
<1>2. PipeInv /\ [Next]_vars => [Service!Next]_<<[s \in {"session"} |-> arrayData["parent"]],
                                                [s \in {"session"} |-> printed]>>
  BY StepRefines
<1> QED
  BY <1>1, <1>2, PipeAlways, PTL DEF Spec, RefinesService, Service!Spec
=============================================================================
