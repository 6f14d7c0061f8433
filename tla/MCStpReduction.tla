--------------------------- MODULE MCStpReduction ---------------------------
(***************************************************************************)
(* Networks of two inputs and six gates for StpReduction, each with the    *)
(* class file and the patterns that lead it into another corner:           *)
(*                                                                         *)
(*   Cascade   4 gives way to 5, and then 5 to 3: 7 turns out equal to 8,  *)
(*             but 8 is replaced by 3 before the turn of 7 comes           *)
(*   Revived   a member of a class is substituted, and its walk goes on    *)
(*             to nodes that died with it                                  *)
(*   AllFlat   one pattern that every gate answers with 0, all of them     *)
(*             handled as constants, some wrongly                          *)
(*   Refuted   a wrong class file and two patterns: counter-examples come  *)
(*             while the classes are iterated                              *)
(*   Waited    4 turns out constant; 6 has died with 8 when 7 is to be     *)
(*             replaced by it, and brings 4 back, which 5 still reads      *)
(*   Skipped   7 is substituted, and asked about again when a block of     *)
(*             patterns has gone by: its table agrees with that of 3 by    *)
(*             the zeros it was not computed on, and the answer is a       *)
(*             pattern the simulator has                                   *)
(***************************************************************************)
EXTENDS StpReduction

P(n) == Lit(n)
N(n) == FlipIf(Lit(n), TRUE)

Kids(s) == [g \in Gate |-> s[g - NumPis]]

Cascade ==
  [kids |-> Kids(<<<<P(1), P(2)>>, <<P(1), P(3)>>, <<P(2), P(3)>>,
                   <<P(3), P(4)>>, <<P(5), P(6)>>, <<P(3), P(6)>>>>),
   outs |-> <<P(7), N(8)>>,
   classes |-> [k \in {4, 5} |-> <<>>],
   pats |-> <<{}, {1}, {2}, {1, 2}>>]

Revived ==
  [kids |-> Kids(<<<<P(1), P(2)>>, <<P(2), P(3)>>, <<P(1), P(3)>>,
                   <<P(3), P(4)>>, <<N(5), N(6)>>, <<N(2), P(7)>>>>),
   outs |-> <<P(8)>>,
   classes |-> [k \in {3, 5} |-> IF k = 3 THEN <<4, 6, 7>> ELSE <<8>>],
   pats |-> <<{}, {1}, {2}, {1, 2}>>]

AllFlat ==
  [kids |-> Kids(<<<<N(1), P(2)>>, <<P(1), N(3)>>, <<N(2), P(3)>>,
                   <<P(4), N(5)>>, <<P(3), P(6)>>, <<N(5), P(6)>>>>),
   outs |-> <<P(7), N(8)>>,
   classes |-> [k \in {6, 8} |-> <<>>],
   pats |-> <<{}>>]

Refuted ==
  [kids |-> Kids(<<<<P(1), P(2)>>, <<P(1), N(2)>>, <<N(3), N(4)>>,
                   <<P(2), N(3)>>, <<P(1), N(6)>>, <<N(5), N(7)>>>>),
   outs |-> <<N(8), P(6)>>,
   classes |-> [k \in {1, 5, 7} |-> IF k = 5 THEN <<7, 1>> ELSE <<8, 3>>],
   pats |-> <<{2}, {1, 2}>>]

Waited ==
  [kids |-> Kids(<<<<P(1), N(2)>>, <<P(2), P(3)>>, <<P(2), P(4)>>,
                   <<N(1), P(4)>>, <<N(4), P(6)>>, <<P(4), P(7)>>>>),
   outs |-> <<P(5), N(8)>>,
   classes |-> [k \in {7} |-> <<>>],
   pats |-> <<{}>>]

Skipped ==
  [kids |-> Kids(<<<<N(1), P(2)>>, <<P(1), P(2)>>, <<P(2), N(3)>>,
                   <<P(1), P(3)>>, <<N(1), N(4)>>, <<P(4), N(7)>>>>),
   outs |-> <<P(5), P(6), N(8)>>,
   classes |-> [k \in {5} |-> <<7, 3, 7>>],
   pats |-> <<{2}>>]

MCDesigns == {Cascade, Revived, AllFlat, Refuted, Waited, Skipped}
=============================================================================
