------------------------------ MODULE Sublists ------------------------------
(***************************************************************************)
(* Filtering a sequence.                                                   *)
(***************************************************************************)
EXTENDS Sequences, SequencesExt

(* The elements of s that are in S, in the order of s. *)
Sublist(s, S) ==
  FoldLeft(LAMBDA q, x : IF x \in S THEN Append(q, x) ELSE q, <<>>, s)

=============================================================================
