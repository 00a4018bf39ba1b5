---------------------------- MODULE MCPathBias ---------------------------------
(* PathBias for TLC: circuits are slots that are reused after a close.     *)
EXTENDS PathBias

CONSTANTS c1, c2

\* Circuit slots are interchangeable.
Symmetry == Permutations(Slots)
\* Without DROPGUARDS nothing reads the rate flags or the timeouts counter
\* (they feed only logs), so states that differ in them alone behave alike.
CountsView == <<path_state, phase, known, launched,
                [f \in PbFields \ {"timeouts"} |-> pb[f]]>>
\* With DROPGUARDS only path_bias_disabled of the flags is read (by
\* entry_guard_inc_circ_attempt_count and the choice of guard).
DropView == <<path_state, phase, known, launched, pb.path_bias_disabled,
              [f \in PbFields \ {"timeouts"} |-> pb[f]]>>
=============================================================================
