------------------------------ MODULE AlertLedger ------------------------------
(***************************************************************************)
(* What alert delivery promises about one fingerprint, without locks,      *)
(* threads, flights or restarts (README section 10: "Before any live       *)
(* publication, the app commits a unique pending fingerprint reservation   *)
(* ... restart will not publish that ambiguous fingerprint again").        *)
(*                                                                         *)
(* A fingerprint is reserved, its request goes out at most once per        *)
(* reservation, and a new reservation is possible only after a failure     *)
(* that is known to have come before acceptance.                           *)
(***************************************************************************)
EXTENDS Naturals

CONSTANT Alerts      \* alert fingerprints

VARIABLES
  book,     \* book[a]: what is on record for the fingerprint
  wire,     \* requests sent and not yet taken, refused or lost
  accepts   \* accepts[a]: how often the provider accepted it

Entry == {"none",      \* never tried
          "reserved",  \* reserved, the request has not gone out
          "open",      \* the request may have gone out, its result is not on record
          "delivered", "simulated", "retry", "rejected"}

Init == /\ book = [a \in Alerts |-> "none"]
        /\ wire = {}
        /\ accepts = [a \in Alerts |-> 0]

Reserve(a) == /\ book[a] \in {"none", "retry"}
              /\ book' = [book EXCEPT ![a] = "reserved"]
              /\ UNCHANGED <<wire, accepts>>

Send(a) == /\ book[a] = "reserved"
           /\ book' = [book EXCEPT ![a] = "open"]
           /\ wire' = wire \cup {a}
           /\ UNCHANGED accepts

\* Reservations whose request will never go out: a crash, a dry run.
Abandon(S) == /\ \A a \in S : book[a] = "reserved"
              /\ book' = [a \in Alerts |-> IF a \in S THEN "open" ELSE book[a]]
              /\ UNCHANGED <<wire, accepts>>

Take(a) == /\ a \in wire
           /\ wire' = wire \ {a}
           /\ accepts' = [accepts EXCEPT ![a] = @ + 1]
           /\ UNCHANGED book

Lose(a) == /\ a \in wire
           /\ wire' = wire \ {a}
           /\ UNCHANGED <<book, accepts>>

\* The result goes on record, and only a true one does.
Confirm(a) == /\ book[a] = "open" /\ accepts[a] = 1
              /\ book' = [book EXCEPT ![a] = "delivered"]
              /\ UNCHANGED <<wire, accepts>>

Refute(a, result) == /\ book[a] = "open" /\ accepts[a] = 0 /\ a \notin wire
                     /\ book' = [book EXCEPT ![a] = result]
                     /\ UNCHANGED <<wire, accepts>>

Next == \/ \E a \in Alerts : \/ Reserve(a) \/ Send(a) \/ Take(a) \/ Lose(a)
                             \/ Confirm(a)
                             \/ \E r \in {"simulated", "retry", "rejected"} :
                                  Refute(a, r)
        \/ \E S \in SUBSET Alerts : Abandon(S)

vars == <<book, wire, accepts>>

Spec == Init /\ [][Next]_vars
===============================================================================
