---------------------------- MODULE MCStpVector -----------------------------
(* Matrix chains of trees with up to three LUTs and four leaves.             *)
EXTENDS StpVector

Lut(n) == {<<2>> \o c : c \in [1 .. 2 ^ n -> 0 .. 1]}

(* x /\ ~y, x # y, x => y and a projection, as LUTs of two inputs. *)
SomeLuts == {<<2, 1, 0, 1, 1>>, <<2, 1, 0, 0, 1>>, <<2, 0, 1, 0, 0>>, <<2, 0, 1, 0, 1>>}

V(x) == <<x>>

(* Variables are numbered by their first occurrence. *)
Numbering(n) ==
  {v \in [1 .. n -> 1 .. n] :
     \A i \in 1 .. n : v[i] = 1 \/ \E j \in 1 .. i - 1 : v[j] >= v[i] - 1}

OneLut == {<<f, V(v[1]), V(v[2])>> : f \in Lut(2), v \in Numbering(2)}
Buffers == {<<f, g, V(1)>> : f, g \in Lut(1)}

TwoLuts ==
  {<<f, g, V(v[1]), V(v[2]), V(v[3])>> : f, g \in Lut(2), v \in Numbering(3)} \cup
  {<<f, V(v[1]), g, V(v[2]), V(v[3])>> : f, g \in Lut(2), v \in Numbering(3)}

ThreeLuts ==
  UNION {
    {<<f, g, h, V(v[1]), V(v[2]), V(v[3]), V(v[4])>>,
     <<f, g, V(v[1]), h, V(v[2]), V(v[3]), V(v[4])>>,
     <<f, g, V(v[1]), V(v[2]), h, V(v[3]), V(v[4])>>,
     <<f, V(v[1]), g, h, V(v[2]), V(v[3]), V(v[4])>>,
     <<f, V(v[1]), g, V(v[2]), h, V(v[3]), V(v[4])>>} :
    f, g, h \in SomeLuts, v \in Numbering(4)}

MCChains == OneLut \cup Buffers \cup TwoLuts \cup ThreeLuts
=============================================================================
