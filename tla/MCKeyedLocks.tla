---------------------------- MODULE MCKeyedLocks ----------------------------
(***************************************************************************)
(* Three threads and two keys: the smallest instance in which one thread   *)
(* leaves a key, one waits for it and one arrives at it while another key  *)
(* is in use.  Every entry the table or a thread refers to has a user, so  *)
(* as many entries as threads are enough.                                  *)
(***************************************************************************)
EXTENDS KeyedLocks

MCThreads == {"t1", "t2", "t3"}
MCKeys == {"k1", "k2"}
MCEntries == {"e1", "e2", "e3"}
===============================================================================
