------------------------------- MODULE MCRanking -------------------------------
(***************************************************************************)
(* Four teams, so that the heap has three levels, with a full team, equal  *)
(* scores in one team and across teams, roles that a team does not have,   *)
(* and a player of a team that is not known.                               *)
(***************************************************************************)
EXTENDS PlayerRanking

Typed(role_, average, rate, wickets_) ==
  [role |-> role_, battingAverage |-> average, strikeRate |-> rate, wickets |-> wickets_,
   economyRate |-> 5]
Of(team_, p) ==
  [team |-> team_, role |-> p.role, battingAverage |-> p.battingAverage,
   strikeRate |-> p.strikeRate, wickets |-> p.wickets, economyRate |-> p.economyRate]

FourTeams == <<"Afghanistan", "Australia", "Bangladesh", "England">>
SomePlayers ==
  << Of("Australia", Typed("Batsman", 2, 110, 0)), Of("Afghanistan", Typed("Batsman", 1, 100, 0)),
     Of("Afghanistan", Typed("Batsman", 2, 90, 1)), Of("Afghanistan", Typed("Batsman", 2, 90, 0)),
     Of("England", Typed("Batsman", 4, 90, 0)), Of("England", Typed("Batsman", 2, 90, 0)),
     Of("Bangladesh", Typed("Batsman", 3, 80, 0)), Of("Afghanistan", Typed("Bowler", 1, 50, 3)),
     Of("Australia", Typed("All-rounder", 2, 90, 3)), Of("Ireland", Typed("Batsman", 9, 200, 0)) >>
TypedPlayers ==
  {Typed("Batsman", 3, 80, 0), Typed("Bowler", 1, 60, 3), Typed("All-rounder", 3, 100, 1)}
=============================================================================
