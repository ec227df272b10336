------------------------------- MODULE PipeSort -------------------------------
(***************************************************************************)
(* pipe_ipc.c: parent and child joined by two pipes.                       *)
(*                                                                         *)
(* A pipe is a bounded queue of integers; write and read may transfer      *)
(* fewer than asked for.  The child learns that the parent has given up    *)
(* only from the end of the file, which it sees when no process holds the  *)
(* writing end any more: hence the ends each process holds are modelled.   *)
(***************************************************************************)
EXTENDS Integers, Sequences, SequencesExt, FiniteSets

CONSTANTS
  Arrays,        \* what can be typed in; at most MAX_ELEMENTS integers
  PIPE_CAPACITY, \* what a pipe holds before write blocks
  NONE

ASSUME PipeAssumption ==
  /\ PIPE_CAPACITY \in Nat \ {0}
  /\ Arrays \subseteq Seq(Int) /\ NONE \notin Seq(Int)

VARIABLES
  pc,          \* process -> where it is
  ends,        \* process -> the pipe ends it holds
  pipe,        \* pipe -> what was written and not yet read
  sent,        \* process -> bytesWritten of the array (and count) it sends
  received,    \* process -> what it has read
  arrayData,   \* process -> inputArray or receivedArray, once complete
  printed      \* what "Array After Sorting" shows

vars == <<pc, ends, pipe, sent, received, arrayData, printed>>

Service ==
  INSTANCE SortService
    WITH Sessions <- {"session"}, inputArray <- [s \in {"session"} |-> arrayData["parent"]],
         printed <- [s \in {"session"} |-> printed]

Processes == {"parent", "child"}
Pipes == {"toChild", "toParent"}
Ends == Pipes \X {"read", "write"}
Out(p) == IF p = "parent" THEN "toChild" ELSE "toParent"
In(p) == IF p = "parent" THEN "toParent" ELSE "toChild"
Holders(end) == { p \in Processes : end \in ends[p] }
Ended(p) == pc[p] \in {"done", "failed", "killed", "interrupted"}

\* After fork both processes hold all four ends.
Init ==
  /\ pc = [p \in Processes |-> "start"]
  /\ ends = [p \in Processes |-> Ends]
  /\ pipe = [c \in Pipes |-> <<>>]
  /\ sent = [p \in Processes |-> 0] /\ received = [p \in Processes |-> <<>>]
  /\ arrayData = [p \in Processes |-> NONE] /\ printed = NONE

Goto(p, there) == pc' = [pc EXCEPT ![p] = there]
\* exit() and the return from main close what is still open.
Exit(p, how) == Goto(p, how) /\ ends' = [ends EXCEPT ![p] = {}]

\* Mutant: a process keeps the writing end of the pipe it reads from.
closeUnused_keeps(p) ==
  /\ pc[p] = "start"
  /\ ends' = [ends EXCEPT ![p] = @ \ {<<Out(p), "read">>}]
  /\ Goto(p, IF p = "parent" THEN "input" ELSE "receive")
  /\ UNCHANGED <<pipe, sent, received, arrayData, printed>>

\* The two calls of close at the start.
closeUnused(p) ==
  /\ pc[p] = "start"
  /\ ends' = [ends EXCEPT ![p] = @ \ {<<Out(p), "read">>, <<In(p), "write">>}]
  /\ Goto(p, IF p = "parent" THEN "input" ELSE "receive")
  /\ UNCHANGED <<pipe, sent, received, arrayData, printed>>

\* readIntegerArray; input lines that are no integers are asked for again.
readInput ==
  /\ pc["parent"] = "input"
  /\ \E a \in Arrays : arrayData' = [arrayData EXCEPT !["parent"] = a]
  /\ Goto("parent", "send")
  /\ UNCHANGED <<ends, pipe, sent, received, printed>>

\* The input ends, or the count is above MAX_ELEMENTS.
giveUp ==
  /\ pc["parent"] = "input"
  /\ Exit("parent", "failed")
  /\ UNCHANGED <<pipe, sent, received, arrayData, printed>>

\* What a process writes: the parent the count and the array, the child the
\* sorted array.
Outgoing(p) == IF p = "parent" THEN <<Len(arrayData[p])>> \o arrayData[p] ELSE arrayData[p]

\* Mutant: after a short write the rest is written from the start again.
Chunk_restart(p, n) == SubSeq(Outgoing(p), 1, n)

\* The n integers from currentPointer + bytesWritten on.
Chunk(p, n) == SubSeq(Outgoing(p), sent[p] + 1, sent[p] + n)

\* What is left of the current call: the parent writes the count by itself.
Remaining(p) ==
  IF p = "parent" /\ sent[p] = 0 THEN 1 ELSE Len(Outgoing(p)) - sent[p]

\* Mutant: a write never blocks, however full the pipe is.
Room_unbounded(p) == PIPE_CAPACITY

Room(p) == PIPE_CAPACITY - Len(pipe[Out(p)])

\* write() may put its bytes into the pipe piece by piece.
writeAll(p) ==
  /\ pc[p] = "send"
  /\ \/ /\ sent[p] < Len(Outgoing(p)) /\ Holders(<<Out(p), "read">>) # {}
        /\ \E n \in 1 .. Room(p) :
             /\ n <= Remaining(p)
             /\ pipe' = [pipe EXCEPT ![Out(p)] = @ \o Chunk(p, n)]
             /\ sent' = [sent EXCEPT ![p] = @ + n]
        /\ UNCHANGED <<pc, ends>>
     \/ /\ sent[p] = Len(Outgoing(p))
        /\ Goto(p, IF p = "parent" THEN "receive" ELSE "close")
        /\ UNCHANGED <<ends, pipe, sent>>
  /\ UNCHANGED <<received, arrayData, printed>>

\* SIGPIPE: nobody holds the reading end any more.
writeFails(p) ==
  /\ pc[p] = "send" /\ sent[p] < Len(Outgoing(p)) /\ Holders(<<Out(p), "read">>) = {}
  /\ Exit(p, "killed")
  /\ UNCHANGED <<pipe, sent, received, arrayData, printed>>

\* How many integers p still wants: the child asks for the count alone first.
Wanted(p) ==
  IF p = "parent" THEN Len(arrayData[p]) - Len(received[p])
  ELSE IF received[p] = <<>> THEN 1 ELSE received[p][1] + 1 - Len(received[p])

\* Mutant: a short read is taken for an error.
readAll_strict(p) ==
  /\ pc[p] = "receive" /\ Wanted(p) > 0 /\ pipe[In(p)] # <<>>
  /\ IF Len(pipe[In(p)]) < Wanted(p)
     THEN Exit(p, "failed") /\ UNCHANGED <<pipe, received>>
     ELSE /\ received' = [received EXCEPT ![p] = @ \o SubSeq(pipe[In(p)], 1, Wanted(p))]
          /\ pipe' = [pipe EXCEPT ![In(p)] = SubSeq(@, Wanted(p) + 1, Len(@))]
          /\ UNCHANGED <<pc, ends>>
  /\ UNCHANGED <<sent, arrayData, printed>>

readAll(p) ==
  /\ pc[p] = "receive" /\ Wanted(p) > 0
  /\ \E n \in 1 .. Len(pipe[In(p)]) :
       /\ n <= Wanted(p)
       /\ received' = [received EXCEPT ![p] = @ \o SubSeq(pipe[In(p)], 1, n)]
       /\ pipe' = [pipe EXCEPT ![In(p)] = SubSeq(@, n + 1, Len(@))]
  /\ UNCHANGED <<pc, ends, sent, arrayData, printed>>

\* read returns 0: the pipe is empty and nobody holds its writing end.
readEnds(p) ==
  /\ pc[p] = "receive" /\ Wanted(p) > 0
  /\ pipe[In(p)] = <<>> /\ Holders(<<In(p), "write">>) = {}
  /\ Exit(p, "failed")
  /\ UNCHANGED <<pipe, sent, received, arrayData, printed>>

\* Mutant: the array goes back as it came.
sortReceived_not ==
  /\ pc["child"] = "receive" /\ Wanted("child") = 0
  /\ arrayData' = [arrayData EXCEPT !["child"] = Tail(received["child"])]
  /\ Goto("child", "send")
  /\ UNCHANGED <<ends, pipe, sent, received, printed>>

sortReceived ==
  /\ pc["child"] = "receive" /\ Wanted("child") = 0
  /\ arrayData' = [arrayData EXCEPT
                     !["child"] = Service!sortArrayAscending(Tail(received["child"]))]
  /\ Goto("child", "send")
  /\ UNCHANGED <<ends, pipe, sent, received, printed>>

displayArray ==
  /\ pc["parent"] = "receive" /\ Wanted("parent") = 0
  /\ printed' = received["parent"]
  /\ Goto("parent", "close")
  /\ UNCHANGED <<ends, pipe, sent, received, arrayData>>

\* The parent waits for the child after closing its ends; the child exits.
closeUsed(p) ==
  /\ pc[p] = "close"
  /\ Exit(p, IF p = "parent" THEN "wait" ELSE "done")
  /\ UNCHANGED <<pipe, sent, received, arrayData, printed>>

waitForChild ==
  /\ pc["parent"] = "wait" /\ Ended("child")
  /\ Goto("parent", "done")
  /\ UNCHANGED <<ends, pipe, sent, received, arrayData, printed>>

\* The process is stopped from outside, at any moment.
Interrupt(p) ==
  /\ ~Ended(p)
  /\ Exit(p, "interrupted")
  /\ UNCHANGED <<pipe, sent, received, arrayData, printed>>

Steps(p) ==
  closeUnused(p) \/ writeAll(p) \/ writeFails(p) \/ readAll(p) \/ readEnds(p) \/ closeUsed(p)
Parent == Steps("parent") \/ readInput \/ giveUp \/ displayArray \/ waitForChild
Child == Steps("child") \/ sortReceived
Next == Parent \/ Child \/ \E p \in Processes : Interrupt(p)

Spec == Init /\ [][Next]_vars
\* The system runs both processes, and the user types or ends the input.
FairSpec == Spec /\ WF_vars(Parent) /\ WF_vars(Child)

-----------------------------------------------------------------------------
\* The type invariant.
TypeOK ==
  /\ pc \in [Processes -> {"start", "input", "send", "receive", "close", "wait", "done",
                           "failed", "killed", "interrupted"}]
  /\ ends \in [Processes -> SUBSET Ends]
  /\ pipe \in [Pipes -> Seq(Int)] /\ \A c \in Pipes : Len(pipe[c]) <= PIPE_CAPACITY
  /\ sent \in [Processes -> Nat] /\ received \in [Processes -> Seq(Int)]
  /\ arrayData \in [Processes -> Seq(Int) \cup {NONE}]
  /\ arrayData["parent"] \in Arrays \cup {NONE}

\* However the transfers are cut, what was read and what is still in the pipe
\* is what was written so far, in order.
StreamIntact ==
  \A p, q \in Processes :
    p # q /\ arrayData[p] # NONE =>
      received[q] \o pipe[Out(p)] = SubSeq(Outgoing(p), 1, sent[p])

\* The parent gives up before it sends anything, never in the middle.  A read
\* ends early or a write meets a pipe without a reader only because of that, or
\* because the other process was interrupted.
GaveUp == pc["parent"] = "failed" /\ arrayData["parent"] = NONE
FailTogether ==
  \A p, q \in Processes :
    p # q /\ pc[p] \in {"failed", "killed"} => GaveUp \/ pc[q] = "interrupted"

\* The two ends of a pipe agree on what went through it, and on whether
\* anything will.
StreamsOK == TypeOK /\ StreamIntact /\ FailTogether

\* Both processes end, also when the parent gives up or one of them is
\* interrupted: nobody waits for data, or for room in a pipe, that cannot come.
BothEnd == <>(Ended("parent") /\ Ended("child"))

\* The session implements SortService.
RefinesService == Service!Spec
=============================================================================
