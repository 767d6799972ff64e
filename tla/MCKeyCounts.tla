---------------------------- MODULE MCKeyCounts ----------------------------
(* A small instance of KeyCounts. *)
EXTENDS KeyCounts
CONSTANTS k, l     \* two keys
=============================================================================
