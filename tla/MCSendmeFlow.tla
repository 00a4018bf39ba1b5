---------------------------- MODULE MCSendmeFlow ----------------------------
(* Model-checking instances of SendmeFlow.                                 *)
EXTENDS SendmeFlow

CONSTANTS h1, h2, s1, s2

\* Both streams exit at the last hop, as client streams do
\* (conn->cpath_layer is circ->cpath->prev).
MCStreamHopOne == [s \in Streams |-> h1]

\* One stream exits at each of two hops.
MCStreamHopTwo == [s \in Streams |-> IF s = s1 THEN h1 ELSE h2]
=============================================================================
