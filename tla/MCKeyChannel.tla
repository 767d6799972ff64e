---------------------------- MODULE MCKeyChannel ----------------------------
(* A small instance of KeyChannel. *)
EXTENDS KeyChannel
CONSTANTS a, b, hid, focus     \* keys, and the threads of the macOS daemon
=============================================================================
