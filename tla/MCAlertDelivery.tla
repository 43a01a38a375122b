--------------------------- MODULE MCAlertDelivery ---------------------------
(***************************************************************************)
(* Instances of AlertDelivery.  Profits are in units of ten dollars, so    *)
(* that the improvement of $20 is 2; they fall, rise by less than the      *)
(* improvement and rise by exactly the improvement.                        *)
(***************************************************************************)
EXTENDS AlertDelivery, TLC

\* Snapshots of one listing.
MCOneListing == {"listing"}
MCOne2 == (1 :> "listing") @@ (2 :> "listing")
MCOne3 == MCOne2 @@ (3 :> "listing")
MCProfit2 == (1 :> 5) @@ (2 :> 6)
MCProfit3 == (1 :> 5) @@ (2 :> 4) @@ (3 :> 6)
===============================================================================
