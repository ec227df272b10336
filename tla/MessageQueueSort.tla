--------------------------- MODULE MessageQueueSort ---------------------------
(***************************************************************************)
(* message_queue_ipc.c: the parent sends the array to its child through a  *)
(* System V message queue and gets it back sorted.                         *)
(*                                                                         *)
(* The queue is found under a fixed key and outlives the processes, and a  *)
(* message names its direction, not its session: runs of the program       *)
(* (sessions) may take each other's messages.  No call of msgsnd or msgrcv *)
(* is checked.  The queue has room for all messages of a few sessions.     *)
(***************************************************************************)
EXTENDS Integers, Sequences, SequencesExt, FiniteSets

CONSTANTS
  Sessions,
  Arrays,  \* what the users type, at most MAX_ELEMENTS integers each
  JUNK,    \* an uninitialised element
  NONE

ParentToChild == 1
ChildToParent == 2
Message == [type : {ParentToChild, ChildToParent}, from : Sessions, array : Seq(Int)]

ASSUME MessageQueueAssumption ==
  /\ Arrays \subseteq Seq(Int) /\ IsFiniteSet(Sessions)
  /\ NONE \notin Arrays /\ NONE \notin Sessions /\ NONE \notin Message

VARIABLES
  parent, child,  \* session -> where the process is
  typed,          \* session -> the array its user types
  messageQueueId, \* session -> the queue its processes use
  keyed,          \* the queue found under MESSAGE_QUEUE_KEY, or 0
  created,        \* how many queues there have been
  messages,       \* the messages in the queue keyed
  received,       \* session -> the message its child holds, or NONE
  printed,        \* session -> what "Array After Sorting" shows, or NONE
  answeredBy,     \* session -> whose array that was, and
  disturbed       \* the sessions that ran while another one, or what a killed one
                  \* left behind, was under way (both only for the properties)

history == <<answeredBy, disturbed>>
vars == <<parent, child, typed, messageQueueId, keyed, created, messages, received, printed, history>>

Service == INSTANCE SortService WITH inputArray <- typed

Init ==
  /\ parent = [s \in Sessions |-> "new"] /\ child = [s \in Sessions |-> "none"]
  /\ typed \in [Sessions -> Arrays]
  /\ messageQueueId = [s \in Sessions |-> 0]
  /\ keyed = 0 /\ created = 0 /\ messages = <<>>
  /\ received = [s \in Sessions |-> NONE]
  /\ printed = [s \in Sessions |-> NONE] /\ answeredBy = [s \in Sessions |-> NONE]
  /\ disturbed = {}

ParentAt(s, there) == parent' = [parent EXCEPT ![s] = there]
ChildAt(s, there) == child' = [child EXCEPT ![s] = there]
Running(s) == parent[s] \notin {"new", "done", "refused", "aborted", "killed"}
Alive(s) == messageQueueId[s] = keyed

\* No array is on its way, in the queue or with a child.
Quiet == messages = <<>> /\ \A r \in Sessions : child[r] # "send"

\* msgget and fork.
start(s) ==
  /\ parent[s] = "new"
  /\ IF keyed = 0 THEN created' = created + 1 /\ keyed' = created + 1
                  ELSE UNCHANGED <<created, keyed>>
  /\ messageQueueId' = [messageQueueId EXCEPT ![s] = keyed']
  /\ ParentAt(s, "input") /\ ChildAt(s, "receive")
  /\ LET others == { r \in Sessions : Running(r) }
     IN disturbed' = IF Quiet /\ others = {} THEN disturbed ELSE disturbed \cup others \cup {s}
  /\ UNCHANGED <<typed, messages, received, printed, answeredBy>>

\* msgctl(IPC_RMID): the messages go with the queue, and whoever waits in
\* msgrcv fails.
Removed(s) ==
  IF Alive(s) THEN keyed' = 0 /\ messages' = <<>> ELSE UNCHANGED <<keyed, messages>>

\* msgsnd fails when the queue is gone.
Sent(s, type, from, array) ==
  messages' = IF Alive(s) THEN Append(messages, [type |-> type, from |-> from, array |-> array])
              ELSE messages

\* Mutant: the type asked for is 0, which stands for any message.
Takes_any(s, type, i) == Alive(s) /\ i = 1 /\ messages # <<>>

\* msgrcv takes the first message of that type.
Takes(s, type, i) ==
  /\ Alive(s) /\ i \in DOMAIN messages /\ messages[i].type = type
  /\ \A j \in 1 .. i - 1 : messages[j].type # type

-----------------------------------------------------------------------------
\* The parent.

\* The count is above MAX_ELEMENTS.
refuse(s) ==
  /\ parent[s] = "input"
  /\ Removed(s)
  /\ ParentAt(s, "refused")
  /\ UNCHANGED <<child, typed, messageQueueId, created, received, printed, history>>

\* The input ends: exit, and the child goes on waiting for a message.
giveUp(s) ==
  /\ parent[s] = "input"
  /\ ParentAt(s, "aborted")
  /\ UNCHANGED <<child, typed, messageQueueId, keyed, created, messages, received, printed, history>>

sendArray(s) ==
  /\ parent[s] = "input"
  /\ Sent(s, ParentToChild, s, typed[s])
  /\ ParentAt(s, "receive")
  /\ UNCHANGED <<child, typed, messageQueueId, keyed, created, received, printed, history>>

\* The first elementCount integers of the buffer that holds array.
Displayed(s, array) ==
  [i \in 1 .. Len(typed[s]) |-> IF i <= Len(array) THEN array[i] ELSE JUNK]

receiveSorted(s) ==
  /\ parent[s] = "receive"
  /\ \E i \in 1 .. Len(messages) :
       /\ Takes(s, ChildToParent, i)
       /\ messages' = RemoveAt(messages, i)
       /\ printed' = [printed EXCEPT ![s] = Displayed(s, messages[i].array)]
       /\ answeredBy' = [answeredBy EXCEPT ![s] = messages[i].from]
  /\ ParentAt(s, "wait")
  /\ UNCHANGED <<child, typed, messageQueueId, keyed, created, received, disturbed>>

\* The queue is gone: messageData is what the parent had sent.
receiveFails(s) ==
  /\ parent[s] = "receive" /\ ~Alive(s)
  /\ printed' = [printed EXCEPT ![s] = typed[s]]
  /\ ParentAt(s, "wait")
  /\ UNCHANGED <<child, typed, messageQueueId, keyed, created, messages, received, answeredBy, disturbed>>

Waited(s) == parent[s] = "wait" /\ child[s] = "ended"

removeQueue(s) ==
  /\ Waited(s)
  /\ Removed(s)
  /\ ParentAt(s, "done")
  /\ UNCHANGED <<child, typed, messageQueueId, created, received, printed, history>>

Parent(s) ==
  refuse(s) \/ giveUp(s) \/ sendArray(s) \/ receiveSorted(s) \/ receiveFails(s) \/ removeQueue(s)

-----------------------------------------------------------------------------
\* The child.

\* Mutant: the message stays in the queue.
receiveArray_copy(s) ==
  /\ child[s] = "receive"
  /\ \E i \in 1 .. Len(messages) :
       /\ Takes(s, ParentToChild, i)
       /\ received' = [received EXCEPT ![s] = messages[i]]
  /\ ChildAt(s, "send")
  /\ UNCHANGED <<parent, typed, messageQueueId, keyed, created, messages, printed, history>>

receiveArray(s) ==
  /\ child[s] = "receive"
  /\ \E i \in 1 .. Len(messages) :
       /\ Takes(s, ParentToChild, i)
       /\ messages' = RemoveAt(messages, i)
       /\ received' = [received EXCEPT ![s] = messages[i]]
  /\ ChildAt(s, "send")
  /\ UNCHANGED <<parent, typed, messageQueueId, keyed, created, printed, history>>

\* Mutant: the child goes on to answer.
receiveArrayFails_answers(s) ==
  /\ child[s] = "receive" /\ ~Alive(s)
  /\ ChildAt(s, "send")
  /\ UNCHANGED <<parent, typed, messageQueueId, keyed, created, messages, received, printed, history>>

\* The queue is gone.  The child sorts an uninitialised buffer, which may
\* crash it, and what it sends is lost: it ends either way.
receiveArrayFails(s) ==
  /\ child[s] = "receive" /\ ~Alive(s)
  /\ ChildAt(s, "ended")
  /\ UNCHANGED <<parent, typed, messageQueueId, keyed, created, messages, received, printed, history>>

\* Mutant: the child sends its answer with the type it received.
sendSorted_type(s) ==
  /\ child[s] = "send"
  /\ Sent(s, ParentToChild, received[s].from, Service!sortArrayAscending(received[s].array))
  /\ received' = [received EXCEPT ![s] = NONE]
  /\ ChildAt(s, "ended")
  /\ UNCHANGED <<parent, typed, messageQueueId, keyed, created, printed, history>>

\* Mutant: the child sends the array back as it came.
sendSorted_unsorted(s) ==
  /\ child[s] = "send"
  /\ Sent(s, ChildToParent, received[s].from, received[s].array)
  /\ received' = [received EXCEPT ![s] = NONE]
  /\ ChildAt(s, "ended")
  /\ UNCHANGED <<parent, typed, messageQueueId, keyed, created, printed, history>>

sendSorted(s) ==
  /\ child[s] = "send"
  /\ Sent(s, ChildToParent, received[s].from, Service!sortArrayAscending(received[s].array))
  /\ received' = [received EXCEPT ![s] = NONE]
  /\ ChildAt(s, "ended")
  /\ UNCHANGED <<parent, typed, messageQueueId, keyed, created, printed, history>>

Child(s) == receiveArray(s) \/ receiveArrayFails(s) \/ sendSorted(s)

\* The user interrupts the session: both processes die where they are.
kill(s) ==
  /\ Running(s)
  /\ ParentAt(s, "killed") /\ ChildAt(s, "ended")
  /\ received' = [received EXCEPT ![s] = NONE]
  /\ UNCHANGED <<typed, messageQueueId, keyed, created, messages, printed, history>>

Next == \E s \in Sessions : start(s) \/ Parent(s) \/ Child(s) \/ kill(s)

Spec == Init /\ [][Next]_vars
\* The system runs every process, and every user types or ends the input.
FairSpec == Spec /\ \A s \in Sessions : WF_vars(Parent(s)) /\ WF_vars(Child(s))

-----------------------------------------------------------------------------
\* The type invariant.
TypeOK ==
  /\ parent \in [Sessions -> {"new", "input", "receive", "wait", "done", "refused", "aborted",
                              "killed"}]
  /\ child \in [Sessions -> {"none", "receive", "send", "ended"}]
  /\ typed \in [Sessions -> Arrays]
  /\ created \in 0 .. Cardinality(Sessions) /\ keyed \in 0 .. created
  /\ messageQueueId \in [Sessions -> 0 .. created]
  /\ messages \in Seq(Message) /\ received \in [Sessions -> Message \cup {NONE}]
  /\ \A s \in Sessions : child[s] = "send" <=> received[s] # NONE

\* The array of a session is in one place at most: in the queue, with a child,
\* or answered; it is never answered twice, whoever takes part.
EachArrayOnce ==
  \A s \in Sessions :
    Cardinality({ i \in DOMAIN messages : messages[i].from = s })
      + Cardinality({ r \in Sessions : received[r] # NONE /\ received[r].from = s })
      + Cardinality({ r \in Sessions : answeredBy[r] = s })
    <= IF parent[s] \in {"new", "input", "refused", "aborted"} THEN 0 ELSE 1

\* With sessions at the same time, aborted or killed, what is shown is an array
\* somebody typed, sorted as far as it is shown; or, when the queue was
\* removed under the session, its own array as it was typed.
ShownFromSomeone ==
  \A s \in Sessions : printed[s] # NONE =>
    printed[s] = IF answeredBy[s] = NONE THEN typed[s]
                 ELSE Displayed(s, Service!sortArrayAscending(typed[answeredBy[s]]))

\* A session that nobody disturbs is answered with what its user typed, sorted,
\* although children of sessions that gave up are still waiting and may take
\* its array.
UndisturbedIsSorted ==
  \A s \in Sessions \ disturbed :
    printed[s] # NONE => printed[s] = Service!sortArrayAscending(typed[s])

\* Through all the queues that are made and removed no array gets into two
\* hands, and a user is shown his own when nobody interferes, somebody's in any
\* case.
ArraysOK == TypeOK /\ EachArrayOnce /\ ShownFromSomeone /\ UndisturbedIsSorted

\* A session that is started ends, unless some session gave up or was killed
\* and left an unequal number of arrays and children behind.
EndsUnlessAborted ==
  \A s \in Sessions :
    parent[s] = "input" ~>
      ~Running(s) \/ \E r \in Sessions : parent[r] \in {"aborted", "killed"}
=============================================================================
