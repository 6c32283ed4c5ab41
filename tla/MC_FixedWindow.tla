--------------------------- MODULE MC_FixedWindow ---------------------------
(* One client of the limiter over three windows, entries of the map being   *)
(* independent; three connections and a timeout of two units.               *)
EXTENDS Goroutines

CONSTANTS c1

MC_Clients == {c1}
MC_Conns == 1..3
=============================================================================
