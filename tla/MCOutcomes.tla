------------------------------ MODULE MCOutcomes ------------------------------
(***************************************************************************)
(* Three snapshots of one listing and one of another: a cost recorded on   *)
(* one snapshot is corrected or used on another, and a third is saved      *)
(* after an earlier one was marked again.                                  *)
(***************************************************************************)
EXTENDS Outcomes

MCLineage == (1 :> "listing") @@ (2 :> "listing") @@ (3 :> "other") @@ (4 :> "listing")
===============================================================================
