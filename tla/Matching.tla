------------------------------- MODULE Matching -------------------------------
(***************************************************************************)
(* When two reports are of one game (domain/matching.py): event_match_score *)
(* in ten-thousandths, and the threshold both callers compare it with.     *)
(*                                                                         *)
(* A report is [team, opponent, home, venue, start]: the opponent is the   *)
(* set of tokens normalize_opponent leaves of its name (a nickname of the  *)
(* league, or what the label says), home says that it is a home game and   *)
(* not parking, start is in minutes of UTC.                                *)
(***************************************************************************)
EXTENDS Rounding, FiniteSets

CONSTANT HomeVenues   \* HOME_VENUES: the venues of each team, normalized

MaxKickoffDifference == 12 * 60
Threshold == 8500

IsSupportedHomeGame(e) == e.home /\ e.venue \in HomeVenues[e.team]

Day(e) == e.start \div (24 * 60)
Apart(e, f) == IF e.start <= f.start THEN f.start - e.start ELSE e.start - f.start

\* Same team, supported home games, the same date of UTC and twelve hours.
Comparable(e, f) == /\ e.team = f.team
                    /\ IsSupportedHomeGame(e) /\ IsSupportedHomeGame(f)
                    /\ Day(e) = Day(f)
                    /\ Apart(e, f) <= MaxKickoffDifference

Shared(e, f) == Cardinality(e.opponent \cap f.opponent)
\* An opponent without a token is like no other.
Either(e, f) == IF e.opponent = {} \/ f.opponent = {} THEN 1
                ELSE Cardinality(e.opponent \cup f.opponent)

\* 20 % for the team and 10 % for the venue, which comparable reports share,
\* 50 % for the opponent's tokens and 20 % for the kickoff.
Score(e, f) ==
  IF ~Comparable(e, f) THEN 0
  ELSE RoundHalfUp(
         (3000 + 2000) * MaxKickoffDifference * Either(e, f)
           + 5000 * MaxKickoffDifference * Shared(e, f)
           - 2000 * Apart(e, f) * Either(e, f),
         MaxKickoffDifference * Either(e, f))

Matches(e, f) == Score(e, f) >= Threshold
===============================================================================
