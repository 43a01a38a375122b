------------------------------ MODULE MCScanner ------------------------------
(***************************************************************************)
(* Two connectors.  The first shows pairs of two events, the second an     *)
(* aggregate of one of them, which is not a pair.  Room for two scans in   *)
(* which every start of a run may fail.                                    *)
(***************************************************************************)
EXTENDS Scanner, TLC

MCConnectors == <<"stubhub", "seatgeek">>
MCSnapshots == {"s1", "s2", "g1"}
MCSourceOf == ("s1" :> "stubhub") @@ ("s2" :> "stubhub") @@ ("g1" :> "seatgeek")
MCEventOf == ("s1" :> "texans") @@ ("s2" :> "aggies") @@ ("g1" :> "texans")
MCPairs == {"s1", "s2"}
===============================================================================
