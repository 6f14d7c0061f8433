----------------------------- MODULE LutMapping -----------------------------
(***************************************************************************)
(* What exact LUT mapping promises its caller, whatever way it finds the   *)
(* sub-networks: every LUT of the network that has too many fanins is      *)
(* replaced, once and for good, by a sub-network that computes the same    *)
(* function, and when the mapping ends no such LUT is left.  The order of  *)
(* the replacements, the search behind them and its threads are not        *)
(* visible here; ExactLutMapping implements this specification.            *)
(***************************************************************************)
CONSTANTS
  WideLUTs,   \* the nodes with more fanins than the mapping allows
  Meaning     \* the function each node computes over its fanins

VARIABLES
  computes,   \* what now stands for each node computes this function
  replaced,   \* the nodes a sub-network stands for
  finished    \* the mapping has returned

vars == <<computes, replaced, finished>>

Init ==
  /\ computes = Meaning
  /\ replaced = {}
  /\ finished = FALSE

Replace(x) ==
  /\ ~finished
  /\ x \notin replaced
  /\ replaced' = replaced \cup {x}
  /\ UNCHANGED <<computes, finished>>

Finish ==
  /\ ~finished
  /\ replaced = WideLUTs
  /\ finished' = TRUE
  /\ UNCHANGED <<computes, replaced>>

Next == Finish \/ \E x \in WideLUTs : Replace(x)

Spec == Init /\ [][Next]_vars
=============================================================================
