---------------------------- MODULE MCCellQueue -----------------------------
(* Small instances of CellQueue for TLC.                                    *)
EXTENDS CellQueue

CONSTANTS c1, c2, s1, s2

\* Every exit stream on the first circuit; the second carries relayed cells.
MCStreamCirc == [st \in Streams |-> c1]

\* s1 is already connected, s2 connects during the run and sends its
\* CONNECTED cell on a possibly blocked circuit.
MCOpenAtStart == {s1}
=============================================================================
