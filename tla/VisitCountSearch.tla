-------------------------- MODULE VisitCountSearch --------------------------
(***************************************************************************)
(* A tree search that never hears of a reward.  It descends from the root, *)
(* takes the child with the largest exploration term among those it has    *)
(* not visited, or among all of them once each was visited, and starts     *)
(* over.  A position is the sequence of actions that leads to it.          *)
(*                                                                         *)
(* MctsSearch implements it: what the mapper answers has no influence on   *)
(* where its search goes next.                                             *)
(***************************************************************************)
EXTENDS Integers, Sequences, SequencesExt, FiniteSets

CONSTANTS
  ActionSize,       \* action_size
  SequenceLength,   \* sequence_length
  Noises            \* the functions that may give each position its P

Action   == 0 .. ActionSize - 1
Position == BoundedSeq(Action, SequenceLength + 1)
Root     == <<>>

VARIABLES
  visits,    \* how often each position was entered
  P,         \* the weight of a position in the exploration term
  at,        \* where the descent is
  walking    \* a descent is under way

vars == <<visits, P, at, walking>>

Child(p, a) == Append(p, a)

(* The square of U: P * sqrt(father.visited / (child.visited + 1)), the     *)
(* division being one of integers.                                          *)
Exploration(count, weight, p, a) ==
  LET c == Child(p, a)
  IN  weight[c] * weight[c] * (count[p] \div (count[c] + 1))

Fresh(p) == {a \in Action : visits[Child(p, a)] = 0}

Candidates(p) == IF Fresh(p) = {} THEN Action ELSE Fresh(p)

Choice(p) ==
  LET U(a) == Exploration(visits, P, p, a)
      best == {a \in Candidates(p) : \A b \in Candidates(p) : U(b) <= U(a)}
  IN  CHOOSE a \in best : \A b \in best : a <= b

Init ==
  /\ visits = [p \in Position |-> IF p = Root THEN 1 ELSE 0]
  /\ P \in Noises
  /\ at = Root
  /\ walking = FALSE

Begin ==
  /\ ~walking
  /\ walking' = TRUE
  /\ visits' = [visits EXCEPT ![Root] = @ + 1]
  /\ UNCHANGED <<P, at>>

Descend ==
  LET c == Child(at, Choice(at))
  IN  /\ walking
      /\ Len(at) < SequenceLength
      /\ at' = c
      /\ visits' = [visits EXCEPT ![c] = @ + 1]
      /\ UNCHANGED <<P, walking>>

End ==
  /\ walking
  /\ walking' = FALSE
  /\ at' = Root
  /\ UNCHANGED <<visits, P>>

Next == Begin \/ Descend \/ End

Spec == Init /\ [][Next]_vars
=============================================================================
