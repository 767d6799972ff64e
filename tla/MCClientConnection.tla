------------------------- MODULE MCClientConnection -------------------------
(* Two connections: one of two lines that end in a line feed, one of one line *)
(* that ends in a carriage return and a line feed.                           *)
EXTENDS ClientConnection
CONSTANTS c1, c2

MCSays == c1 :> {"pause", "resume", "load_malformed"}
            @@ c2 :> {"load_good", "log_on", "load_fatal"}
MCMaxLines == c1 :> 2 @@ c2 :> 1
=============================================================================
