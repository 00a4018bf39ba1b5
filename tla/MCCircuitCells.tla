--------------------------- MODULE MCCircuitCells ---------------------------
(* Model-checking instance of CircuitCells: three relays, a two-hop build  *)
(* that a cannibalization can grow to three.                               *)
EXTENDS CircuitCells
=============================================================================
