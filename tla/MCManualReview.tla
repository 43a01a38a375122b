--------------------------- MODULE MCManualReview ---------------------------
(***************************************************************************)
(* An instance of ManualReview.  The reports are of one home game at noon, *)
(* five and ten hours later: the one in the middle matches both others,    *)
(* which do not match each other.  Matching computes which are alike.      *)
(***************************************************************************)
EXTENDS ManualReview, TLC

CONSTANTS u1, u2, u3

M == INSTANCE Matching WITH HomeVenues <- [team \in {"texans"} |-> {"nrg stadium"}]

MCGames == {"noon", "five", "ten"}
Report(g) == [team |-> "texans", opponent |-> {"titans"}, home |-> TRUE,
              venue |-> "nrg stadium",
              start |-> 60 * (CASE g = "noon" -> 12 [] g = "five" -> 17 [] OTHER -> 22)]
MCAlike == {p \in MCGames \X MCGames : M!Matches(Report(p[1]), Report(p[2]))}

MCSymmetry == Permutations(Uploads)
MCScanKeys == {<<"market", 1>>}
MCKeys == MCScanKeys \cup {<<"manual", i>> : i \in 1..Cardinality(Uploads)}

\* The third upload is there for purges that meet several rows.  Marks only
\* matter to NewPairsStartAfresh, which has a run of its own.
MCBound == /\ marked = {} /\ Cardinality(receiving) <= 1
           /\ Len(events) <= 2 /\ Len(opps) <= 2
           /\ Cardinality(drawn) = 3 => (Len(opps) <= 1 /\ Len(events) <= 1)
=============================================================================
