--------------------------- MODULE MCDrainAnalysis ---------------------------
(* Four samples of two nodes, of which the main node always reaches Redis. *)
EXTENDS DrainAnalysis

CONSTANTS main, worker
=============================================================================
