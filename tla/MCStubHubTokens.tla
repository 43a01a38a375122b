---------------------------- MODULE MCStubHubTokens ----------------------------
(* Instances of StubHubTokens. *)
EXTENDS StubHubTokens, TLC
CONSTANTS t1, t2, t3
MCThree == {t1, t2, t3}
\* The third asks so late that a short-lived token of the others is over.
MCTimes == (t1 :> {0}) @@ (t2 :> {0}) @@ (t3 :> {2})
\* Not reusable at all, or good for every caller.
MCLifetimes == {0, 1}
===============================================================================
