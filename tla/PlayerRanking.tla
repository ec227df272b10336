----------------------------- MODULE PlayerRanking -----------------------------
(***************************************************************************)
(* The menu of icc_odi_players.c over its teams and players.  The command  *)
(* that lists the players of all teams, showAllPlayersByRoleAcrossTeams,   *)
(* merges the role lists over a heap with at most one player of each team, *)
(* a comparison and swap at a time; the other commands are a step each.    *)
(*                                                                         *)
(* Positions in the heap count from 0 as in C.                             *)
(***************************************************************************)
EXTENDS Squads

CONSTANT NOBODY \* what malloc leaves in the heap

VARIABLES
  listing,   \* what the listing is about to do, or "idle"
  role,      \* the role that is listed
  mergeHeap, heapSize, \* the array, as long as there are teams, and its use
  current,   \* the position that is being sifted
  teamLoop,  \* the team whose best player is inserted next
  bestNode,  \* the node that was popped last
  printed    \* the players printed, as indexes

heapVars == <<listing, role, mergeHeap, heapSize, current, teamLoop, bestNode, printed>>

Slots == 0 .. teamCount - 1
Nodes == [playerIndex : 1 .. Len(players), team : 1 .. teamCount, indexInRoleList : 1 .. Len(players)]

HeapInit ==
  /\ listing = "idle" /\ role = "Batsman" /\ heapSize = 0 /\ mergeHeap = [k \in Slots |-> NOBODY]
  /\ current = 0 /\ teamLoop = 1 /\ bestNode = NOBODY /\ printed = <<>>

roleList(t) == teams[t].roleIndexes[role]
Score(k) == players[mergeHeap[k].playerIndex].performanceScore

startListing ==
  /\ listing = "idle" /\ \E r \in Roles : role' = r
  /\ listing' = "fill" /\ teamLoop' = 1 /\ printed' = <<>>
  /\ heapSize' = 0 /\ mergeHeap' = [k \in Slots |-> NOBODY]
  /\ current' = 0 /\ bestNode' = NOBODY

\* heapInsertNode up to its loop.
insert(node) ==
  /\ mergeHeap' = [mergeHeap EXCEPT ![heapSize] = node]
  /\ heapSize' = heapSize + 1 /\ current' = heapSize
  /\ listing' = "siftUp"

\* Mutant: a team without players of the role is not passed over.
fill_stuck ==
  /\ listing = "fill"
  /\ IF teamLoop > teamCount
     THEN listing' = "print" /\ UNCHANGED <<mergeHeap, heapSize, current, teamLoop>>
     ELSE IF roleList(teamLoop) = <<>>
          THEN UNCHANGED <<listing, mergeHeap, heapSize, current, teamLoop>>
          ELSE /\ teamLoop' = teamLoop + 1
               /\ insert([playerIndex |-> roleList(teamLoop)[1], team |-> teamLoop,
                          indexInRoleList |-> 1])
  /\ UNCHANGED <<role, bestNode, printed>>

\* The best player of the next team goes into the heap.
fill ==
  /\ listing = "fill"
  /\ IF teamLoop > teamCount
     THEN listing' = "print" /\ UNCHANGED <<mergeHeap, heapSize, current, teamLoop>>
     ELSE /\ teamLoop' = teamLoop + 1
          /\ IF roleList(teamLoop) = <<>>
             THEN UNCHANGED <<listing, mergeHeap, heapSize, current>>
             ELSE insert([playerIndex |-> roleList(teamLoop)[1], team |-> teamLoop,
                          indexInRoleList |-> 1])
  /\ UNCHANGED <<role, bestNode, printed>>

\* Where the program goes on after an insertion.
Resume == IF teamLoop <= teamCount THEN "fill" ELSE "print"

swapHeapNodes(a, b) == [mergeHeap EXCEPT ![a] = mergeHeap[b], ![b] = mergeHeap[a]]

parent(k) == (k - 1) \div 2

\* Mutant: a node moves up one level only.
siftUp_once ==
  /\ listing = "siftUp" /\ listing' = Resume
  /\ IF current > 0 /\ Score(current) > Score(parent(current))
     THEN mergeHeap' = swapHeapNodes(current, parent(current))
     ELSE UNCHANGED mergeHeap
  /\ UNCHANGED <<role, heapSize, current, teamLoop, bestNode, printed>>

\* One iteration of the loop of heapInsertNode.
siftUp ==
  /\ listing = "siftUp"
  /\ IF current > 0 /\ Score(current) > Score(parent(current))
     THEN /\ mergeHeap' = swapHeapNodes(current, parent(current))
          /\ current' = parent(current) /\ UNCHANGED listing
     ELSE listing' = Resume /\ UNCHANGED <<mergeHeap, current>>
  /\ UNCHANGED <<role, heapSize, teamLoop, bestNode, printed>>

\* heapPopMaxNode up to heapSiftDown, and the line that is printed.
popMaxNode ==
  /\ listing = "print" /\ heapSize > 0
  /\ bestNode' = mergeHeap[0] /\ printed' = Append(printed, mergeHeap[0].playerIndex)
  /\ mergeHeap' = [mergeHeap EXCEPT ![0] = mergeHeap[heapSize - 1]]
  /\ heapSize' = heapSize - 1 /\ current' = 0
  /\ listing' = IF heapSize > 1 THEN "siftDown" ELSE "refill"
  /\ UNCHANGED <<role, teamLoop>>

\* Mutant: the right child is compared with the parent only.
largest_parent(k) ==
  LET left == 2 * k + 1
      right == 2 * k + 2
  IN  IF right < heapSize /\ Score(right) > Score(k) THEN right
      ELSE IF left < heapSize /\ Score(left) > Score(k) THEN left ELSE k

\* The larger child if it is larger than k, else k.
largest(k) ==
  LET left == 2 * k + 1
      right == 2 * k + 2
      first == IF left < heapSize /\ Score(left) > Score(k) THEN left ELSE k
  IN  IF right < heapSize /\ Score(right) > Score(first) THEN right ELSE first

\* One call of heapSiftDown.
siftDown ==
  /\ listing = "siftDown"
  /\ IF largest(current) # current
     THEN /\ mergeHeap' = swapHeapNodes(current, largest(current))
          /\ current' = largest(current) /\ UNCHANGED listing
     ELSE listing' = "refill" /\ UNCHANGED <<mergeHeap, current>>
  /\ UNCHANGED <<role, heapSize, teamLoop, bestNode, printed>>

\* Mutant: the last player of a list is left out.
HasNext_short(node) == node.indexInRoleList + 1 < Len(roleList(node.team))

HasNext(node) == node.indexInRoleList + 1 <= Len(roleList(node.team))

\* The next player of the team that was printed.
refill ==
  /\ listing = "refill"
  /\ IF HasNext(bestNode)
     THEN LET next == bestNode.indexInRoleList + 1 IN
          insert([playerIndex |-> roleList(bestNode.team)[next], team |-> bestNode.team,
                  indexInRoleList |-> next])
     ELSE listing' = "print" /\ UNCHANGED <<mergeHeap, heapSize, current>>
  /\ UNCHANGED <<role, teamLoop, bestNode, printed>>

\* The heap is empty and freed, and the locals of the function are gone.
finish ==
  /\ listing = "print" /\ heapSize = 0
  /\ listing' = "idle" /\ role' = "Batsman" /\ mergeHeap' = [k \in Slots |-> NOBODY]
  /\ current' = 0 /\ teamLoop' = 1 /\ bestNode' = NOBODY /\ printed' = <<>>
  /\ UNCHANGED heapSize

ListingStep == fill \/ siftUp \/ popMaxNode \/ siftDown \/ refill \/ finish

-----------------------------------------------------------------------------
\* The type invariant.
HeapTypeOK ==
  /\ listing \in {"idle", "fill", "siftUp", "print", "siftDown", "refill"} /\ role \in Roles
  /\ mergeHeap \in [Slots -> Nodes \cup {NOBODY}]
  /\ heapSize \in 0 .. teamCount /\ current \in {0} \cup 0 .. heapSize
  /\ teamLoop \in 1 .. teamCount + 1 /\ bestNode \in Nodes \cup {NOBODY}

Used == 0 .. heapSize - 1

\* The heap never needs more than its one place for each team, because no team
\* is in it twice.
OneNodePerTeam ==
  \A a, b \in Used :
    /\ mergeHeap[a] # NOBODY
    /\ mergeHeap[a].playerIndex = roleList(mergeHeap[a].team)[mergeHeap[a].indexInRoleList]
    /\ mergeHeap[a].team = mergeHeap[b].team => a = b

\* No child is better than its parent, but for the node that moves: up, then
\* its children are below its parent too, or down, then its parent is above
\* its children.
HeapOrdered ==
  \A k \in Used \ {0} :
    /\ (listing = "siftUp" /\ k = current) \/ (listing = "siftDown" /\ parent(k) = current)
         \/ Score(k) <= Score(parent(k))
    /\ listing \in {"siftUp", "siftDown"} /\ parent(k) = current /\ current > 0 =>
         Score(k) <= Score(parent(parent(k)))

\* Of the list of a team the heap holds the best player not printed yet, those
\* before it have been printed, and those behind it have not: nobody is printed
\* twice, or forgotten.
NobodyForgotten ==
  \A t \in 1 .. teamLoop - 1 :
    LET In == { k \in Used : mergeHeap[k].team = t }
        Printed == { n \in 1 .. Len(roleList(t)) : roleList(t)[n] \in ToSet(printed) }
        done == IF In # {} THEN mergeHeap[Min(In)].indexInRoleList - 1
                ELSE IF listing \in {"siftDown", "refill"} /\ bestNode.team = t
                     THEN bestNode.indexInRoleList
                ELSE Len(roleList(t))
    IN  listing # "idle" => Printed = 1 .. done

\* When the lists it starts from are ranked, so is what is printed, and nobody
\* still to come is better than who was printed last.
PrintedInOrder ==
  (\A t \in 1 .. teamCount : <<t, role>> \notin unsorted) =>
    \A a \in 1 .. Len(printed) :
      LET score == players[printed[a]].performanceScore IN
      /\ a > 1 => players[printed[a - 1]].performanceScore >= score
      /\ listing # "idle" => \A k \in Used : score >= Score(k)

\* Once the listing has ended, it names the players of the role, each once.
ListingComplete ==
  listing = "print" /\ heapSize = 0 =>
    /\ ToSet(printed) = { k \in 1 .. Len(players) : players[k].role = role /\ players[k].team \in ToSet(TeamNames) }
    /\ Len(printed) = Cardinality(ToSet(printed))

-----------------------------------------------------------------------------
(* The menu.                                                               *)

VARIABLES
  shown,  \* what the last command has listed of teams or of a team, or <<>>
  running

vars == <<squadVars, heapVars, shown, running>>

Init == SquadsInit /\ HeapInit /\ shown = <<>> /\ running = TRUE

\* The menu waits for a choice.
AtMenu == running /\ built = teamCount /\ listing = "idle"

addPlayer ==
  /\ AtMenu /\ addNewPlayerToTeam
  /\ shown' = <<>> /\ UNCHANGED <<heapVars, running>>

\* The order of teams by their averages.
byStrikeRate(list) ==
  { <<a, b>> \in ToSet(list) \X ToSet(list) :
      a.average[1] * b.average[2] >= b.average[1] * a.average[2] }

\* Mutant: the teams themselves are sorted, not a copy.
showTeamsOrderedByStrikeRate_inPlace ==
  /\ AtMenu
  /\ \E sorted \in sortOutcomes(teams, byStrikeRate(teams)) :
       teams' = sorted.array /\ shown' = [complete |-> sorted.complete, teams |-> sorted.array]
  /\ UNCHANGED <<players, built, unsorted, heapVars, running>>

\* A copy of the teams is sorted; without memory for it nothing is shown.
showTeamsOrderedByStrikeRate ==
  /\ AtMenu
  /\ \/ shown' = <<>>
     \/ \E sorted \in sortOutcomes(teams, byStrikeRate(teams)) :
          shown' = [complete |-> sorted.complete, teams |-> sorted.array]
  /\ UNCHANGED <<squadVars, heapVars, running>>

showPlayersForTeamId ==
  /\ AtMenu
  /\ \E id \in 0 .. teamCount + 1 :
       LET t == findTeamIndexById(id) IN
       shown' = IF t = 0 THEN <<>> ELSE [team |-> id, players |-> teams[t].playerIndexes]
  /\ UNCHANGED <<squadVars, heapVars, running>>


\* Nothing is shown when there are fewer players than asked for.
TopK(list, number) == IF number > Len(list) THEN <<>> ELSE SubSeq(list, 1, number)

showTopKPlayersForRoleInTeam ==
  /\ AtMenu
  /\ \E id \in 1 .. teamCount + 1, r \in Roles, number \in 0 .. MAX_PLAYERS_PER_TEAM :
       LET t == findTeamIndexById(id) IN
       shown' = IF t = 0 THEN <<>>
                ELSE [team |-> id, role |-> r, number |-> number,
                      players |-> TopK(teams[t].roleIndexes[r], number)]
  /\ UNCHANGED <<squadVars, heapVars, running>>

\* Without memory for the heap nothing is listed.
showAllPlayersByRole ==
  /\ AtMenu /\ (startListing \/ UNCHANGED heapVars)
  /\ shown' = <<>> /\ UNCHANGED <<squadVars, running>>

exit ==
  /\ AtMenu
  /\ running' = FALSE /\ shown' = <<>>
  /\ UNCHANGED <<squadVars, heapVars>>

Next ==
  \/ buildTeam /\ UNCHANGED <<heapVars, shown, running>>
  \/ addPlayer \/ showTeamsOrderedByStrikeRate \/ showPlayersForTeamId
  \/ showTopKPlayersForRoleInTeam \/ showAllPlayersByRole \/ exit
  \/ ListingStep /\ UNCHANGED <<squadVars, shown, running>>

Spec == Init /\ [][Next]_vars
\* A listing that has been asked for goes on by itself.
FairSpec == Spec /\ WF_vars(ListingStep /\ UNCHANGED <<squadVars, shown, running>>)

-----------------------------------------------------------------------------
\* Teams are shown from the highest average down, among equals in the order of
\* their ids, when there was memory for the sort, and all of them in any case.
TeamsShown ==
  shown # <<>> /\ "teams" \in DOMAIN shown =>
    LET ids == [k \in 1 .. Len(shown.teams) |-> shown.teams[k].id]
        Rate(k) == shown.teams[k].average
    IN  /\ ToSet(ids) = 1 .. teamCount /\ Len(ids) = teamCount
        /\ shown.complete => \A a, b \in 1 .. Len(ids) : a < b =>
             \/ Rate(a)[1] * Rate(b)[2] > Rate(b)[1] * Rate(a)[2]
             \/ Rate(a)[1] * Rate(b)[2] = Rate(b)[1] * Rate(a)[2] /\ ids[a] < ids[b]

\* The best k players of a role are as many as were asked for, and nobody of the
\* team and role who is left out is better than one of them.
BestShown ==
  shown # <<>> /\ "role" \in DOMAIN shown =>
    LET Best == ToSet(shown.players)
        All == { k \in 1 .. Len(players) : /\ players[k].team = TeamNames[shown.team]
                                           /\ players[k].role = shown.role }
    IN  /\ Best \subseteq All
        /\ Cardinality(Best) = IF shown.number > Cardinality(All) THEN 0 ELSE shown.number
        /\ <<shown.team, shown.role>> \notin unsorted =>
             \A b \in Best, k \in All \ Best :
               players[b].performanceScore >= players[k].performanceScore


\* The merge over the heap lists all players of a role, each once and from the
\* best down, with no more than one place for each team.
MergeOK ==
  HeapTypeOK /\ OneNodePerTeam /\ HeapOrdered /\ NobodyForgotten /\ PrintedInOrder /\ ListingComplete

\* A listing ends: neither a team without players of the role, nor equal scores,
\* nor the refilling of the heap keep it going for ever.
ListingEnds == listing = "fill" ~> listing = "idle"
=============================================================================
