--------------------------- MODULE MCLutSimulator ---------------------------
(* Files for LutSimulator, in the order of write_bench.                      *)
EXTENDS LutSimulator

Input(l)  == [kind |-> "input", name |-> l, ins |-> <<>>, fn |-> {}]
OutputDecl(l) == [kind |-> "output", name |-> l, ins |-> <<>>, fn |-> {}]
Lut(l, ins, fn) == [kind |-> "lut", name |-> l, ins |-> ins, fn |-> fn]
Gnd(l)    == [kind |-> "other", name |-> l, ins |-> <<>>, fn |-> {}]

AndNot == {1}     \* the first input and not the second

Declare(ins, outs) ==
  [i \in 1 .. Len(ins) |-> Input(ins[i])] \o [i \in 1 .. Len(outs) |-> OutputDecl(outs[i])]

(* Lines 1 and 2 are inputs; 3, 4 and 5 are LUTs of any two earlier lines, up *)
(* to exchanging the two inputs.                                             *)
AllThreeGates ==
  {Declare(<<1, 2>>, outs) \o <<Lut(3, a, AndNot), Lut(4, b, AndNot), Lut(5, c, AndNot)>> :
     outs \in {<<5>>, <<4, 5>>, <<3, 5>>, <<3, 4, 5>>},
     a \in {<<1, 1>>, <<1, 2>>}, b \in (1 .. 3) \X (1 .. 3), c \in (1 .. 4) \X (1 .. 4)}

SmallFiles == {f \in AllThreeGates : Written(f)}

-----------------------------------------------------------------------------
(* Larger files, one for each thing that can make a file special.            *)

Names12 == 1 .. 12
Maj == {3, 5, 6, 7}
Not == {0}

(* A complete tree of two-input LUTs behind one output, as write_bench has it. *)
Tree == Declare(<<1, 2, 3, 4, 5>>, <<12>>) \o <<
  Lut(6, <<1, 2>>, AndNot), Lut(7, <<3, 4>>, AndNot), Lut(8, <<5, 1>>, AndNot),
  Lut(9, <<6, 7>>, AndNot), Lut(10, <<8, 2>>, {0, 2}), Lut(11, <<9, 10>>, {1, 2}),
  Lut(12, <<11>>, Not)>>

(* Lines read more than once by a gate, by several gates and as an output. *)
Shared == Declare(<<1, 2, 3>>, <<8, 9, 10>>) \o <<
  Gnd(11), Lut(4, <<1, 1>>, {3}), Lut(5, <<4, 4, 2>>, Maj), Lut(6, <<5, 4, 3>>, Maj),
  Lut(7, <<6, 6>>, {3}), Lut(8, <<7, 5, 1>>, Maj), Lut(9, <<8, 7>>, AndNot),
  Lut(10, <<1>>, Not)>>

(* The statements of Tree from the last to the first, and with the LUTs between
   the inputs and the outputs. *)
Backwards == Reversed(Tree)
Mixed == <<Input(1), Input(2), Lut(4, <<1, 2>>, AndNot), OutputDecl(5), Lut(5, <<4, 1>>, {1, 2})>>

(* An output write_bench finds to be constant. *)
ConstantOutput == Declare(<<1, 2>>, <<4, 5>>) \o <<
  Gnd(3), Lut(6, <<1, 2>>, AndNot), Lut(4, <<6>>, Not), Gnd(5)>>

(* A LUT that drives nothing, a line driven twice, a network of one input, and
   what is left of a file that cannot be opened. *)
Dangling == Declare(<<1, 2>>, <<4>>) \o <<
  Lut(3, <<1, 2>>, AndNot), Lut(4, <<1, 2>>, Maj)>>
DrivenTwice == Declare(<<1, 2>>, <<4>>) \o <<
  Lut(3, <<1, 2>>, {3}), Lut(4, <<3, 1>>, AndNot), Lut(4, <<3, 2>>, {1, 2})>>
Inverter == Declare(<<1>>, <<2>>) \o <<Lut(2, <<1>>, Not)>>
NoFile == <<>>

SpecialFiles == {Tree, Shared, Backwards, Mixed, ConstantOutput, Dangling, DrivenTwice,
                 Inverter, NoFile}

MCFiles == SmallFiles \cup SpecialFiles
=============================================================================
