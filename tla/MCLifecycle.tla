----------------------------- MODULE MCLifecycle -----------------------------
(***************************************************************************)
(* Two processes on one database; an engine, the ntfy client and one       *)
(* connector, so that construction fails with nothing, something and       *)
(* nearly everything open.                                                 *)
(***************************************************************************)
EXTENDS Lifecycle

MCResources == <<"engine", "publisher", "connector">>
===============================================================================
