---------------------------- MODULE MCMctsSearch ----------------------------
(***************************************************************************)
(* Two actions, descents of three, and weights that prefer either action,  *)
(* or each in one half of the tree.                                        *)
(***************************************************************************)
EXTENDS MctsSearch

MCNoises ==
  {[p \in Position |-> 1],
   [p \in Position |-> IF p # Root /\ Last(p) = 1 THEN 2 ELSE 1],
   [p \in Position |-> IF p # Root /\ Last(p) = Head(p) THEN 3 ELSE 2]}

MCIndefinite == -1000

MCOutcomes == {[delay |-> 2, area |-> 3], [delay |-> 3, area |-> 1]}
=============================================================================
