--------------------------- MODULE MCLinuxDaemon ---------------------------
(* A small instance of LinuxDaemon. *)
EXTENDS LinuxDaemon
CONSTANTS a, media     \* a key that is mapped and one that is not
=============================================================================
