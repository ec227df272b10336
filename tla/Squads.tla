-------------------------------- MODULE Squads --------------------------------
(***************************************************************************)
(* The players and teams of icc_odi_players.c: loading them from the data, *)
(* the merge sorts, the binary search, and adding a player to a team.      *)
(*                                                                         *)
(* Arrays are sequences, so an index is one more than in C.  A merge for   *)
(* which malloc fails leaves its two segments side by side: sorting has a  *)
(* set of outcomes.  Scores are scaled by 100 and averages are fractions,  *)
(* both exact; the code rounds them to floats.                             *)
(***************************************************************************)
EXTENDS Integers, Sequences, SequencesExt

CONSTANTS
  MAX_PLAYERS_PER_TEAM, \* 50 in the code
  TeamNames, \* teams of Players_data.h, in order
  Data,      \* players of Players_data.h: team, role, battingAverage,
             \* strikeRate, wickets and economyRate
  NewPlayers, \* what can be typed for a player: the same but for the team
  MaxPlayers  \* bound of the model: no player is added beyond it

Roles == {"Batsman", "Bowler", "All-rounder"}
teamCount == Len(TeamNames)

ASSUME SquadsAssumption ==
  /\ MAX_PLAYERS_PER_TEAM \in Nat /\ MaxPlayers \in Nat
  /\ \A k, m \in 1 .. teamCount : TeamNames[k] = TeamNames[m] => k = m
  /\ \A t \in 1 .. teamCount :
       Cardinality({ k \in 1 .. Len(Data) : Data[k].team = TeamNames[t] }) <= MAX_PLAYERS_PER_TEAM
  /\ \A p \in ToSet(Data) \cup NewPlayers :
       /\ p.role \in Roles
       /\ {p.battingAverage, p.strikeRate, p.wickets, p.economyRate} \subseteq Int

VARIABLES
  players, \* playersList: team, role, strikeRate and performanceScore
  teams,   \* teamsList
  built,   \* the teams that buildTeamsFromPlayers has finished
  unsorted \* the <<team, role>> whose last sort has met a failing malloc

squadVars == <<players, teams, built, unsorted>>

-----------------------------------------------------------------------------
(* Sorting.                                                                *)

\* Mutant: of two equal elements the right one goes first.
GoesFirst_strict(atLeast, a, b) == <<b, a>> \notin atLeast

GoesFirst(atLeast, a, b) == <<a, b>> \in atLeast

\* The loops of mergeRoleIndexSegments and mergeTeamSegmentsByAverage.
merged(left, right, atLeast) ==
  LET rest[l \in 1 .. Len(left) + 1, r \in 1 .. Len(right) + 1] ==
        IF l > Len(left) THEN SubSeq(right, r, Len(right))
        ELSE IF r > Len(right) THEN SubSeq(left, l, Len(left))
        ELSE IF GoesFirst(atLeast, left[l], right[r]) THEN <<left[l]>> \o rest[l + 1, r]
        ELSE <<right[r]>> \o rest[l, r + 1]
  IN  rest[1, 1]

\* What sortRoleIndexArrayByPerformance and sortTeamsByAverageStrikeRate may
\* leave in an array, and whether every merge got its memory.
sortOutcomes(array, atLeast) ==
  LET sort[start \in 1 .. Len(array), end \in 1 .. Len(array)] ==
        LET middle == start + (end - start) \div 2 IN
        IF start >= end THEN {[array |-> SubSeq(array, start, end), complete |-> TRUE]}
        ELSE UNION { { [array |-> merged(left.array, right.array, atLeast),
                        complete |-> left.complete /\ right.complete],
                       [array |-> left.array \o right.array, complete |-> FALSE] } :
                     left \in sort[start, middle], right \in sort[middle + 1, end] }
  IN  IF array = <<>> THEN {[array |-> <<>>, complete |-> TRUE]} ELSE sort[1, Len(array)]

\* The order of players, given as indexes into ps.
byPerformance(ps) ==
  { <<a, b>> \in (1 .. Len(ps)) \X (1 .. Len(ps)) :
      ps[a].performanceScore >= ps[b].performanceScore }

-----------------------------------------------------------------------------
(* Loading.                                                                *)

performanceScore(p) ==
  CASE p.role = "Batsman" -> p.battingAverage * p.strikeRate
    [] p.role = "Bowler" -> 100 * (2 * p.wickets + 100 - p.economyRate)
    [] OTHER -> p.battingAverage * p.strikeRate + 100 * 2 * p.wickets

Player(p, team) ==
  [team |-> team, role |-> p.role, strikeRate |-> p.strikeRate,
   performanceScore |-> performanceScore(p)]

populatePlayersFromData == [k \in 1 .. Len(Data) |-> Player(Data[k], Data[k].team)]

\* Mutant: bowlers count as well.
Eligible_all(p) == TRUE

Eligible(p) == p.role \in {"Batsman", "All-rounder"}

\* averageBattingStrikeRate as numerator and denominator.
averageOf(ps, indexes) ==
  LET eligible == SelectSeq(indexes, LAMBDA k : Eligible(ps[k])) IN
  IF eligible = <<>> THEN <<0, 1>>
  ELSE <<FoldLeft(LAMBDA sum, k : sum + ps[k].strikeRate, 0, eligible), Len(eligible)>>

\* The indexes of the first players of the data who belong to S.
Loaded(S) ==
  LET all == SetToSortSeq(S \cap 1 .. Len(Data), <)
  IN  SubSeq(all, 1, Min({Len(all), MAX_PLAYERS_PER_TEAM}))

\* The first two loops of buildTeamsFromPlayers: a player whose team is unknown
\* belongs to none.
SquadsInit ==
  /\ players = populatePlayersFromData
  /\ teams = [t \in 1 .. teamCount |->
               LET Own == { k \in 1 .. Len(Data) : Data[k].team = TeamNames[t] } IN
               [id |-> t, average |-> <<0, 1>>, playerIndexes |-> Loaded(Own),
                roleIndexes |-> [r \in Roles |-> Loaded({ k \in Own : Data[k].role = r })]]]
  /\ built = 0 /\ unsorted = {}

\* Its last loop: the average and the three lists of one team.
buildTeam ==
  /\ built < teamCount /\ built' = built + 1
  /\ LET team == teams[built + 1]
         Outcomes(r) == sortOutcomes(team.roleIndexes[r], byPerformance(players))
     IN  \E batsmen \in Outcomes("Batsman"), bowlers \in Outcomes("Bowler"),
            allrounders \in Outcomes("All-rounder") :
           LET sorted == [r \in Roles |-> CASE r = "Batsman" -> batsmen
                                            [] r = "Bowler" -> bowlers
                                            [] OTHER -> allrounders]
           IN  /\ teams' = [teams EXCEPT
                              ![built + 1].average = averageOf(players, team.playerIndexes),
                              ![built + 1].roleIndexes = [r \in Roles |-> sorted[r].array]]
               /\ unsorted' = unsorted \cup
                    { <<built + 1, r>> : r \in { q \in Roles : ~sorted[q].complete } }
  /\ UNCHANGED players

-----------------------------------------------------------------------------
(* Adding a player.                                                        *)

\* Mutant: the search gives up when two teams are left.
findTeamIndexById_early(id) ==
  LET search[low \in 1 .. teamCount + 1, high \in 0 .. teamCount] ==
        LET middle == low + (high - low) \div 2 IN
        IF low >= high THEN 0
        ELSE IF teams[middle].id = id THEN middle
        ELSE IF teams[middle].id < id THEN search[middle + 1, high]
        ELSE search[low, middle - 1]
  IN  search[1, teamCount]

\* The binary search, 0 for -1.
findTeamIndexById(id) ==
  LET search[low \in 1 .. teamCount + 1, high \in 0 .. teamCount] ==
        LET middle == low + (high - low) \div 2 IN
        IF low > high THEN 0
        ELSE IF teams[middle].id = id THEN middle
        ELSE IF teams[middle].id < id THEN search[middle + 1, high]
        ELSE search[low, middle - 1]
  IN  search[1, teamCount]

\* Mutant: a full team takes one player more.
HasRoom_full(t) == Len(teams[t].playerIndexes) <= MAX_PLAYERS_PER_TEAM

HasRoom(t) == Len(teams[t].playerIndexes) < MAX_PLAYERS_PER_TEAM

\* Mutant: the new player is put at the end of the role list.
Resorted_not(array) == {[array |-> array, complete |-> TRUE]}

Resorted(array) == sortOutcomes(array, byPerformance(players'))

\* The list of the role is sorted again and the average computed again.
addNewPlayerToTeam ==
  /\ Len(players) < MAX_PLAYERS_PER_TEAM * teamCount /\ Len(players) < MaxPlayers
  /\ \E id \in 1 .. teamCount, p \in NewPlayers :
       LET t == findTeamIndexById(id)
           indexes == Append(teams[t].playerIndexes, Len(players) + 1)
       IN  /\ t # 0 /\ HasRoom(t)
           /\ players' = Append(players, Player(p, TeamNames[t]))
           /\ \E sorted \in Resorted(Append(teams[t].roleIndexes[p.role], Len(players) + 1)) :
                /\ teams' = [teams EXCEPT ![t].playerIndexes = indexes,
                                          ![t].roleIndexes[p.role] = sorted.array,
                                          ![t].average = averageOf(players', indexes)]
                /\ unsorted' = IF sorted.complete THEN unsorted \ {<<t, p.role>>}
                               ELSE unsorted \cup {<<t, p.role>>}
  /\ UNCHANGED built

-----------------------------------------------------------------------------
\* The type invariant.
SquadsTypeOK ==
  /\ \A k \in 1 .. Len(players) : players[k].role \in Roles /\ players[k].performanceScore \in Int
  /\ Len(players) <= MaxPlayers \/ Len(players) = Len(Data)
  /\ built \in 0 .. teamCount /\ unsorted \subseteq (1 .. teamCount) \X Roles
  /\ Len(teams) = teamCount

\* Every player of a known team is listed once in it and once under its role,
\* and nowhere else; nothing is written behind the end of an array.
EachPlayerListed ==
  \A t \in 1 .. teamCount :
    LET Own == { k \in 1 .. Len(players) : players[k].team = TeamNames[t] }
        Lists(S, list) == ToSet(list) = S /\ Len(list) = Cardinality(S)
    IN  /\ Lists(Own, teams[t].playerIndexes) /\ Cardinality(Own) <= MAX_PLAYERS_PER_TEAM
        /\ \A r \in Roles : Lists({ k \in Own : players[k].role = r }, teams[t].roleIndexes[r])

\* A role list whose sort had its memory goes from the best player down, and
\* among equals in the order of loading.
ListsRanked ==
  \A t \in 1 .. built, r \in Roles : <<t, r>> \notin unsorted =>
    LET list == teams[t].roleIndexes[r] IN
    \A a, b \in 1 .. Len(list) : a < b =>
      LET x == players[list[a]].performanceScore
          y == players[list[b]].performanceScore
      IN  x > y \/ (x = y /\ list[a] < list[b])

\* The average of a team is the one of its batsmen and all-rounders, also after
\* players were added.
AveragesCurrent ==
  \A t \in 1 .. built :
    LET Bats == { k \in ToSet(teams[t].playerIndexes) : players[k].role # "Bowler" } IN
    teams[t].average = IF Bats = {} THEN <<0, 1>>
                       ELSE <<SumFunction([k \in Bats |-> players[k].strikeRate]), Cardinality(Bats)>>

\* The binary search finds every team and nothing else.
TeamsFound ==
  \A id \in 0 .. teamCount + 1 :
    findTeamIndexById(id) = IF id \in 1 .. teamCount THEN id ELSE 0
=============================================================================
