------------------------- MODULE MCDsdDecomposition -------------------------
(* LUTs of five to seven inputs for the decomposition. *)
EXTENDS DsdDecomposition

Lut(inputs, Holds(_)) ==
  [inputs |-> inputs, on |-> {a \in SUBSET (0 .. inputs - 1) : Holds(a)}]

\* Only how many inputs are 1 matters: splits, xors and the two constants.
Symmetric == {Lut(5, LAMBDA a : Cardinality(a) \in s) : s \in SUBSET (0 .. 5)}

\* LUTs that do not depend on all of their inputs.
Literals == {Lut(5, LAMBDA a : 2 \in a), Lut(5, LAMBDA a : 2 \notin a)}

\* One input beside a function of the others, by every operator.
Pairwise == {And2, Or2, Lt2, Le2, Xor2}
Of(table, functions) == {p \in DOMAIN functions : functions[p]} \in table
Topped == {Lut(5, LAMBDA a : Of(t, <<3 \in a, Cardinality(a \ {3}) = 2>>)) : t \in Pairwise}

\* Gates of two and of three inputs below an ite or a majority.
Composed ==
  {Lut(6, LAMBDA a : Of(t, <<0 \in a, Of(b, <<1 \in a, 2 \in a>>),
                             Of(c, <<3 \in a, 4 \in a, 5 \in a>>)>>)) :
     t \in {Ite3, Maj3}, b \in Pairwise, c \in {Ite3, Maj3}}

\* Two majorities below a xor, an input of the first inverted or none.
Majorities ==
  {Lut(6, LAMBDA a : Of(Maj3, <<(0 \in a) # (p = 0), (1 \in a) # (p = 1), (2 \in a) # (p = 2)>>)
                       # (Cardinality(a \cap {3, 4, 5}) >= 2)) : p \in 0 .. 3}

\* Weights tell the inputs apart: nothing but splits, and cofactors that
\* lose variables.
Weighted(inputs, m, Weight(_)) ==
  Lut(inputs, LAMBDA a : FoldSet(LAMBDA v, s : s + Weight(v), 0, a) % m < m \div 2)
Scrambled ==
  {Weighted(6, m, LAMBDA v : v * v + 1) : m \in 3 .. 9} \cup {Weighted(7, 5, LAMBDA v : v + 1)}

\* Without input 0 the neighbours 1 and 2 do not count, which leaves one of
\* them in the support.
Stale ==
  {Lut(7, LAMBDA a : IF 0 \in a THEN Cardinality(a) % 3 = 1
                     ELSE IF 4 \in a THEN 3 \in a ELSE (5 \in a) # (6 \in a))}

MCFunctions ==
  Symmetric \cup Literals \cup Topped \cup Composed \cup Majorities \cup Scrambled \cup Stale
=============================================================================
