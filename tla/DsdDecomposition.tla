-------------------------- MODULE DsdDecomposition --------------------------
(***************************************************************************)
(* The decomposition of a LUT that has too many inputs, as elm --dec, elm  *)
(* --mix after a timeout, and lutmap --dec call it: dsd_impl::run of       *)
(* src/src/core/flow_detail.hpp with the tests of decomp_func.hpp and of   *)
(* kitty's decomposition.hpp, and the copy of its network into the caller's*)
(* (exact_lut_mapping.hpp, run_dec).                                       *)
(*                                                                         *)
(* run calls itself; its locals live on `stack`, the members it shares     *)
(* with the calls it makes (_remainder, support, pis, s_num) are variables.*)
(* The options are the defaults, the only ones a caller uses.              *)
(*                                                                         *)
(* A Boolean function is the set of the assignments it is true of, an      *)
(* assignment the set of the variables that are 1.                         *)
(***************************************************************************)
EXTENDS Integers, FiniteSets, Sequences, SequencesExt, Sublists

CONSTANT Functions    \* the LUTs: records [inputs, on]

ASSUME FunctionsAssumption ==
  \A f \in Functions : f.inputs \in Nat /\ f.on \subseteq SUBSET (0 .. f.inputs - 1)

VARIABLES
  goal,        \* the function of the LUT
  nodes,       \* the gates of the network under construction, in order
  remainder,   \* _remainder: what is still to be decomposed
  support,     \* the variables it is taken to depend on
  pis,         \* the signal that stands for each variable
  s_num,       \* the least sum of supports met so far
  stack,       \* the calls of run that wait for another
  result,      \* what the last call returned
  phase        \* where the running call is

vars == <<goal, nodes, remainder, support, pis, s_num, stack, result, phase>>

Vars == 0 .. goal.inputs - 1
Assignments == SUBSET Vars

----------------------------------------------------------------------------
(* kitty's operations on truth tables. *)

Cofactor0(f, v) == {a \in Assignments : a \ {v} \in f}
Cofactor1(f, v) == {a \in Assignments : a \cup {v} \in f}
Difference(f, g) == (f \ g) \cup (g \ f)
Derivative(f, v) == Difference(Cofactor0(f, v), Cofactor1(f, v))
HasVar(f, v) == Cofactor0(f, v) # Cofactor1(f, v)
Mux(v, f, g) == {a \in f : v \in a} \cup {a \in g : v \notin a}
Projection(v) == {a \in Assignments : v \in a}
Complement(f) == Assignments \ f
SupportOf(f) == {v \in Vars : HasVar(f, v)}

----------------------------------------------------------------------------
(* The network: signal 0 and 1 are the constants, v + 2 is input v, the    *)
(* gates follow. A gate is [fanins, table], table being the sets of the    *)
(* positions of its fanins for which it is 1; equal gates are shared.      *)

Not1 == {{}}
And2 == {{1, 2}}
Or2 == {{1}, {2}, {1, 2}}
Lt2 == {{2}}
Le2 == {{}, {2}, {1, 2}}
Xor2 == {{1}, {2}}
Maj3 == {{1, 2}, {1, 3}, {2, 3}, {1, 2, 3}}
Ite3 == {{1, 2}, {1, 2, 3}, {3}, {2, 3}}

NumPi == goal.inputs + 1      \* the last signal that is no gate

\* MUTANT: the index is taken after the gate was appended.
Built_IndexAfterPush(network, fanins, table) ==
  [nodes |-> Append(network, [fanins |-> fanins, table |-> table]), signal |-> NumPi + Len(network) + 2]

\* _create_node: the gate, found in the hash table or appended.
Built(network, fanins, table) ==
  LET node == [fanins |-> fanins, table |-> table] IN
  IF \E i \in DOMAIN network : network[i] = node
  THEN [nodes |-> network, signal |-> NumPi + (CHOOSE i \in DOMAIN network : network[i] = node)]
  ELSE [nodes |-> Append(network, node), signal |-> NumPi + Len(network) + 1]

----------------------------------------------------------------------------
(* The tests. Each is the set of the places where it succeeds, places      *)
(* being tuples of positions in support in the order of the loops.         *)

InLoopOrder(p, q) ==
  \E n \in DOMAIN p : p[n] < q[n] /\ \A m \in 1 .. n - 1 : p[m] = q[m]
FirstOf(places) == CHOOSE p \in places : \A q \in places \ {p} : InLoopOrder(p, q)

\* is_top_decomposable: the operators by which v may leave f, in the order
\* tried.
TopTables(f, v) ==
  LET co0 == Cofactor0(f, v)
      co1 == Cofactor1(f, v)
  IN << [table |-> And2, rest |-> co1, holds |-> co0 = {}],
        [table |-> Or2, rest |-> co0, holds |-> co1 = Assignments],
        [table |-> Lt2, rest |-> co0, holds |-> co1 = {}],
        [table |-> Le2, rest |-> co1, holds |-> co0 = Assignments],
        [table |-> Xor2, rest |-> co0, holds |-> co0 = Complement(co1)] >>
TopCases(f, v) == {n \in 1 .. 5 : TopTables(f, v)[n].holds}

\* is_bottom_decomposable without xor: one of the four cofactors is unlike
\* the three others.
BottomTables(f, a, b) ==
  LET tt00 == Cofactor0(Cofactor0(f, a), b)
      tt01 == Cofactor1(Cofactor0(f, a), b)
      tt10 == Cofactor0(Cofactor1(f, a), b)
      tt11 == Cofactor1(Cofactor1(f, a), b)
      Odd(one, others) == Cardinality(others) = 1 /\ one \notin others
  IN {t \in { [table |-> Or2, rest |-> Mux(a, tt11, tt00), holds |-> Odd(tt00, {tt01, tt10, tt11})],
              [table |-> Lt2, rest |-> Mux(a, tt01, tt10), holds |-> Odd(tt01, {tt00, tt10, tt11})],
              [table |-> Le2, rest |-> Mux(a, tt01, tt10), holds |-> Odd(tt10, {tt00, tt01, tt11})],
              [table |-> And2, rest |-> Mux(a, tt11, tt00), holds |-> Odd(tt11, {tt00, tt01, tt10})] } :
        t.holds}

\* bottom_xor_decomposition and what it leaves of f.
XorDecomposes(f, a, b) == Derivative(f, a) = Derivative(f, b)
XorRest(f, a, b) ==
  Difference(Mux(a, Derivative(f, a), {}), Cofactor0(Cofactor0(f, a), b))

\* bottom_mux_decomposition: f knows x and y only as the one sel chooses.
MuxDecomposes(f, sel, x, y) ==
  LET difx == Derivative(f, x)
      dify == Derivative(f, y)
  IN /\ difx # dify
     /\ Cofactor1(difx, sel) = {}
     /\ Cofactor0(dify, sel) = {}
     /\ ~HasVar(difx, y)
     /\ ~HasVar(Cofactor0(Cofactor0(f, x), y), sel)
     /\ ~HasVar(Cofactor1(Cofactor1(f, x), y), sel)
MuxRest(f, sel, x, y) ==
  Difference(Mux(sel, Cofactor0(Derivative(f, x), sel), {}), Cofactor0(Cofactor0(f, x), y))

\* maj_bottom_decomposition: which of the three is complemented, 0 for none
\* and -1 when f is no majority of them.
MajCase(f, x, y, z) ==
  LET At0(g, u, v) == Cofactor0(Cofactor0(g, u), v)
      dx == At0(Derivative(f, x), y, z)
      dy == At0(Derivative(f, y), x, z)
      dz == At0(Derivative(f, z), x, y)
      Twice == /\ Derivative(Derivative(f, x), y) = Assignments
               /\ Derivative(Derivative(f, x), z) = Assignments
               /\ Derivative(Derivative(f, y), z) = Assignments
  IN CASE Twice /\ dx = {} /\ dy = {} /\ dz = {} -> 0
       [] Twice /\ dx = {} /\ dy = Assignments /\ dz = Assignments -> 1
       [] Twice /\ dx = Assignments /\ dy = {} /\ dz = Assignments -> 2
       [] Twice /\ dx = Assignments /\ dy = Assignments /\ dz = {} -> 3
       [] OTHER -> -1
MajRest(f, x, y, z) ==
  LET case == MajCase(f, x, y, z)
      on == CASE case \in {0, 1} -> Cofactor1(Cofactor0(Derivative(f, x), y), z)
              [] case = 2 -> Cofactor0(Cofactor1(Derivative(f, y), x), z)
              [] case = 3 -> Cofactor0(Cofactor1(Derivative(f, z), x), y)
      off == CASE case \in {0, 3} -> Cofactor0(Cofactor0(f, x), y)
               [] case = 1 -> Cofactor0(Cofactor0(f, y), z)
               [] case = 2 -> Cofactor0(Cofactor0(f, x), z)
  IN Difference(Mux(x, on, {}), off)

----------------------------------------------------------------------------
(* run: the terminal cases. *)

\* The loop that drops what the remainder no longer depends on erases from
\* the vector it walks: it skips the element after an erased one, and reads
\* at the end what the vector no longer holds.
Visit(s, p) ==
  IF HasVar(remainder, s.memory[p]) THEN s
  ELSE LET live == Sublist(SubSeq(s.memory, 1, s.size), Vars \ {s.memory[p]})
       IN [memory |-> live \o SubSeq(s.memory, Len(live) + 1, Len(s.memory)), size |-> Len(live)]
Pruned ==
  LET end == FoldLeft(Visit, [memory |-> support, size |-> Len(support)],
                      [p \in DOMAIN support |-> p])
  IN SubSeq(end.memory, 1, end.size)

Return(signal) ==
  /\ result' = signal
  /\ phase' = "return"

ReturnConstant ==
  /\ phase = "run"
  /\ remainder \in {{}, Assignments}
  /\ support' = Pruned
  /\ Return(IF remainder = {} THEN 0 ELSE 1)
  /\ UNCHANGED <<goal, nodes, remainder, pis, s_num, stack>>

ReturnLiteral ==
  /\ phase = "run"
  /\ remainder \notin {{}, Assignments}
  /\ Len(Pruned) = 1
  /\ LET signal == pis[Pruned[1]]
         built == IF remainder = Projection(Pruned[1])
                  THEN [nodes |-> nodes, signal |-> signal]
                  ELSE Built(nodes, <<signal>>, Not1)
     IN /\ nodes' = built.nodes
        /\ Return(built.signal)
  /\ support' = Pruned
  /\ UNCHANGED <<goal, remainder, pis, s_num, stack>>

\* At most four variables are left: one gate of those that count.
ReturnGate ==
  /\ phase = "run"
  /\ remainder \notin {{}, Assignments}
  /\ Len(Pruned) \in 2 .. 4
  /\ LET used == Sublist(Pruned, SupportOf(remainder))
         built == Built(nodes, [p \in DOMAIN used |-> pis[used[p]]],
                        {{p \in DOMAIN used : used[p] \in a} : a \in remainder})
     IN /\ nodes' = built.nodes
        /\ Return(built.signal)
  /\ support' = Pruned
  /\ UNCHANGED <<goal, remainder, pis, s_num, stack>>

Decompose ==
  /\ phase = "run"
  /\ remainder \notin {{}, Assignments}
  /\ Len(Pruned) > 4
  /\ support' = Pruned
  /\ phase' = "top"
  /\ UNCHANGED <<goal, nodes, remainder, pis, s_num, stack, result>>

----------------------------------------------------------------------------
(* run: the decompositions, tried one after the other. *)

\* A decomposition is taken at the first place where its test succeeds;
\* one that fails everywhere is followed by the next.
Try(test, places, Take(_), next) ==
  /\ phase = test
  /\ IF places # {}
     THEN Take(FirstOf(places)) /\ phase' = "run"
     ELSE /\ phase' = next
          /\ UNCHANGED <<nodes, remainder, support, pis, stack>>
  /\ UNCHANGED <<goal, s_num, result>>

Places == DOMAIN support

TakeTop(p) ==
  /\ LET v == support[p[1]]
         first == CHOOSE n \in TopCases(remainder, v) : \A m \in TopCases(remainder, v) : n <= m
         top == TopTables(remainder, v)[first]
     IN /\ stack' = Append(stack, [at |-> "top", var |-> v, table |-> top.table])
        /\ support' = Sublist(support, Vars \ {v})
        /\ remainder' = top.rest
  /\ UNCHANGED <<nodes, pis>>

TryTop ==
  Try("top", {<<p>> : p \in {q \in Places : TopCases(remainder, support[q]) # {}}},
      TakeTop, "bottom")

\* The pairs and triples of the loops; j comes first in all of them.
Pairs == {p \in Places \X Places : p[2] < p[1]}
Triples == {p \in Places \X Places \X Places : Cardinality({p[1], p[2], p[3]}) = 3}

\* The variable at position `kept` now stands for a gate, which those at
\* the other positions leave for.
Replace(kept, dropped, built, rest) ==
  /\ nodes' = built.nodes
  /\ pis' = [pis EXCEPT ![support[kept]] = built.signal]
  /\ support' = Sublist(support, Vars \ {support[p] : p \in dropped})
  /\ remainder' = rest
  /\ UNCHANGED stack

TakeBottom(p) ==
  LET a == support[p[2]]
      b == support[p[1]]
      bottom == CHOOSE t \in BottomTables(remainder, a, b) : TRUE
  IN Replace(p[2], {p[1]}, Built(nodes, <<pis[a], pis[b]>>, bottom.table), bottom.rest)

TryBottom ==
  Try("bottom", {p \in Pairs : BottomTables(remainder, support[p[2]], support[p[1]]) # {}},
      TakeBottom, "xor")

TakeXor(p) ==
  LET a == support[p[2]]
      b == support[p[1]]
  IN Replace(p[2], {p[1]}, Built(nodes, <<pis[a], pis[b]>>, Xor2), XorRest(remainder, a, b))

TryXor ==
  Try("xor", {p \in Pairs : XorDecomposes(remainder, support[p[2]], support[p[1]])},
      TakeXor, "mux")

TakeMux(p) ==
  LET sel == support[p[1]]
      x == support[p[2]]
      y == support[p[3]]
  IN Replace(p[1], {p[2], p[3]}, Built(nodes, <<pis[sel], pis[y], pis[x]>>, Ite3),
             MuxRest(remainder, sel, x, y))

TryMux ==
  Try("mux", {p \in Triples : MuxDecomposes(remainder, support[p[1]], support[p[2]], support[p[3]])},
      TakeMux, "maj")

TakeMaj(p) ==
  LET x == <<support[p[3]], support[p[2]], support[p[1]]>>
      case == MajCase(remainder, x[1], x[2], x[3])
      inverted == IF case = 0 THEN [nodes |-> nodes] ELSE Built(nodes, <<pis[x[case]]>>, Not1)
      fanins == [n \in 1 .. 3 |-> IF n = case THEN inverted.signal ELSE pis[x[n]]]
  IN Replace(p[3], {p[2], p[1]}, Built(inverted.nodes, fanins, Maj3),
             MajRest(remainder, x[1], x[2], x[3]))

TryMaj ==
  Try("maj", {p \in Triples : /\ p[3] < p[2] /\ p[2] < p[1]
                              /\ MajCase(remainder, support[p[3]], support[p[2]], support[p[1]]) # -1},
      TakeMaj, "split")

----------------------------------------------------------------------------
(* run: no decomposition, the function is split on a variable. *)

Sum(f, v) == Cardinality(SupportOf(Cofactor0(f, v))) + Cardinality(SupportOf(Cofactor1(f, v)))

\* The variable whose cofactors depend on least, among those that beat every
\* sum met before, in this call or an earlier one; else the first.
Least ==
  FoldLeft(LAMBDA m, v : IF Sum(remainder, v) < m.sum
                         THEN [var |-> v, sum |-> Sum(remainder, v)] ELSE m,
           [var |-> support[1], sum |-> s_num], support)

\* ite of the cofactors: the split by top_mux_decomposition and Shannon's
\* expansion are this step. maj_top_decomposition is never taken: it compares
\* the supports of the cofactors as the mux test before it does, so that it
\* needs a mux test that failed on what it read past the end of the smaller
\* support; then they are disjoint, and cofactors of disjoint supports of
\* which one implies the other are constants, which the top test removed.
Split ==
  /\ phase = "split"
  /\ stack' = Append(stack, [at |-> "first", var |-> Least.var,
                             other |-> Cofactor1(remainder, Least.var),
                             support |-> Sublist(support, Vars \ {Least.var}), pis |-> pis])
  /\ remainder' = Cofactor0(remainder, Least.var)
  /\ support' = Sublist(support, Vars \ {Least.var})
  /\ s_num' = Least.sum
  /\ phase' = "run"
  /\ UNCHANGED <<goal, nodes, pis, result>>

----------------------------------------------------------------------------
(* run: the rest of a call, once the one it waits for has returned. *)

Waiting(at) == phase = "return" /\ stack # <<>> /\ Last(stack).at = at

FinishTop ==
  /\ Waiting("top")
  /\ LET frame == Last(stack)
         built == Built(nodes, <<pis[frame.var], result>>, frame.table)
     IN /\ nodes' = built.nodes
        /\ Return(built.signal)
  /\ stack' = Front(stack)
  /\ UNCHANGED <<goal, remainder, support, pis, s_num>>

\* MUTANT: the signals of the first half stand for the variables of the second.
SecondHalf_PisNotRestored ==
  /\ Waiting("first")
  /\ LET frame == Last(stack)
     IN /\ remainder' = frame.other
        /\ support' = frame.support
        /\ stack' = Append(Front(stack), [at |-> "second", var |-> frame.var, first |-> result])
  /\ phase' = "run"
  /\ UNCHANGED <<goal, nodes, pis, s_num, result>>

\* MUTANT: the call returns to where it was made.
SecondHalf_FirstAgain ==
  /\ Waiting("first")
  /\ remainder' = Last(stack).other
  /\ support' = Last(stack).support
  /\ pis' = Last(stack).pis
  /\ phase' = "run"
  /\ UNCHANGED <<goal, nodes, stack, s_num, result>>

SecondHalf ==
  /\ Waiting("first")
  /\ LET frame == Last(stack)
     IN /\ remainder' = frame.other
        /\ support' = frame.support
        /\ pis' = frame.pis
        /\ stack' = Append(Front(stack), [at |-> "second", var |-> frame.var, first |-> result])
  /\ phase' = "run"
  /\ UNCHANGED <<goal, nodes, s_num, result>>

FinishSplit ==
  /\ Waiting("second")
  /\ LET frame == Last(stack)
         built == Built(nodes, <<pis[frame.var], result, frame.first>>, Ite3)
     IN /\ nodes' = built.nodes
        /\ Return(built.signal)
  /\ stack' = Front(stack)
  /\ UNCHANGED <<goal, remainder, support, pis, s_num>>

----------------------------------------------------------------------------
(* run_dec: the gates are copied in order, constants are no fanins it can  *)
(* copy, and the last gate takes the LUT's place, whatever run returned.   *)

Copyable == nodes # <<>> /\ \A i \in DOMAIN nodes : \A p \in DOMAIN nodes[i].fanins : nodes[i].fanins[p] >= 2

\* MUTANT: the gate before the last takes the place of the LUT.
CopyBack_LastButOne ==
  /\ phase = "return"
  /\ stack = <<>>
  /\ phase' = IF Copyable THEN "copied" ELSE "undefined"
  /\ result' = NumPi + Len(nodes) - 1
  /\ UNCHANGED <<goal, nodes, remainder, support, pis, s_num, stack>>

CopyBack ==
  /\ phase = "return"
  /\ stack = <<>>
  /\ phase' = IF Copyable THEN "copied" ELSE "undefined"
  /\ result' = NumPi + Len(nodes)
  /\ UNCHANGED <<goal, nodes, remainder, support, pis, s_num, stack>>

Ended ==
  /\ phase \in {"copied", "undefined"}
  /\ UNCHANGED vars

----------------------------------------------------------------------------

Init ==
  /\ goal \in Functions
  /\ nodes = <<>>
  /\ remainder = goal.on
  /\ support = Sublist([i \in 1 .. goal.inputs |-> i - 1], SupportOf(goal.on))
  /\ pis = [v \in Vars |-> v + 2]
  /\ s_num = 50
  /\ stack = <<>>
  /\ result = 0
  /\ phase = "run"

Step ==
  \/ ReturnConstant \/ ReturnLiteral \/ ReturnGate \/ Decompose
  \/ TryTop \/ TryBottom \/ TryXor \/ TryMux \/ TryMaj \/ Split
  \/ FinishTop \/ SecondHalf \/ FinishSplit \/ CopyBack

Next == Step \/ Ended

Spec == Init /\ [][Next]_vars

\* run is never interrupted: until it is copied a step is always taken.
\* (WF_vars(Step) of a program that is never blocked, written out.)
Progress == []<>(phase \in {"copied", "undefined"}) \/ []<><<TRUE>>_vars
FairSpec == Spec /\ Progress

----------------------------------------------------------------------------

\* "decomposition stops when the number of variables <= 4"
StopsAtFour ==
  phase \in {"top", "bottom", "xor", "mux", "maj", "split"} => Cardinality(SupportOf(remainder)) > 4

Phases == {"run", "top", "bottom", "xor", "mux", "maj", "split", "return", "copied", "undefined"}

\* Every variable has values of the kind its name says; gates have at most
\* four fanins, which are signals that exist before them.
TypeOK ==
  /\ goal \in Functions
  /\ \A i \in DOMAIN nodes : LET node == nodes[i] IN
       /\ Len(node.fanins) \in 1 .. 4
       /\ \A p \in DOMAIN node.fanins : node.fanins[p] \in 0 .. NumPi + i - 1
       /\ node.table \subseteq SUBSET DOMAIN node.fanins
  /\ remainder \subseteq Assignments
  /\ ToSet(support) \subseteq Vars
  /\ \A p, q \in DOMAIN support : p < q => support[p] < support[q]
  /\ \A v \in Vars : pis[v] \in 2 .. NumPi + Len(nodes)
  /\ s_num \in 0 .. 50
  /\ \A d \in DOMAIN stack : stack[d].at \in {"top", "first", "second"} /\ stack[d].var \in Vars
  /\ result \in 0 .. NumPi + Len(nodes)
  /\ phase \in Phases

\* The function of each signal, over the inputs of the LUT: Value[s + 1].
Value ==
  FoldLeft(LAMBDA values, node :
             Append(values, {a \in Assignments :
               {p \in DOMAIN node.fanins : a \in values[node.fanins[p] + 1]} \in node.table}),
           <<{}, Assignments>> \o [n \in 1 .. goal.inputs |-> Projection(n - 1)], nodes)

\* A remainder f, read over the signals p that stand for its variables.
Read(f, p, value) == {a \in Assignments : {v \in Vars : a \in value[p[v] + 1]} \in f}

Apply(table, functions) ==
  {a \in Assignments : {p \in DOMAIN functions : a \in functions[p]} \in table}

\* What the outermost call will return, given what the innermost is about.
Owed ==
  LET value == Value
      Wait(f, frame) ==
        LET v == value[pis[frame.var] + 1]
        IN CASE frame.at = "top" -> Apply(frame.table, <<v, f>>)
             [] frame.at = "first" -> Apply(Ite3, <<v, Read(frame.other, frame.pis, value), f>>)
             [] frame.at = "second" -> Apply(Ite3, <<v, f, value[frame.first + 1]>>)
  IN FoldLeft(Wait, IF phase = "return" THEN value[result + 1] ELSE Read(remainder, pis, value),
              Reverse(stack))

\* After every step of the recursion, what is built, what is left and what
\* the waiting calls will add make up the function of the LUT: no test that
\* overwrites the remainder it reads, no gate that replaces a variable and
\* no member restored between the halves of a split loses any of it.
FunctionKept == phase \notin {"copied", "undefined"} => Owed = goal.on

\* run_dec takes the last gate for the result and every fanin for an input
\* or a gate copied before: it computes the function of the LUT unless the
\* LUT is a constant or one of its inputs, where no gate exists to take. A
\* LUT of ten inputs or more may leave a single variable of a support of
\* nine, of which Pruned keeps more than four: the top test then takes a
\* constant for what is left, and the gate gets it for a fanin.
CopySound ==
  /\ phase = "copied" => Value[result + 1] = goal.on
  /\ phase = "undefined" /\ goal.inputs <= 9 =>
       goal.on \in {{}, Assignments} \cup {Projection(v) : v \in Vars}

\* The recursion ends: no order of decompositions and splits goes on
\* without using up the support.
Ends == <>(phase \in {"copied", "undefined"})

=============================================================================
