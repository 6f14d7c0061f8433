---------------------------- MODULE LutSimulator ----------------------------
(***************************************************************************)
(* The command simulator: simulation of the LUT network of a BENCH file by *)
(* semi-tensor products.  After the graph is read and levelled, the gates  *)
(* that must be simulated are flagged: those that drive an output or more  *)
(* than one gate, and where a tree of other gates below one of these grows *)
(* too wide, gates inside it (cut_tree).  The flagged gates are simulated  *)
(* by level; for each, the tree of unflagged gates below it is multiplied  *)
(* out to a single LUT over the flagged lines it reaches.                  *)
(*                                                                         *)
(* Multiplying a tree out is modelled by what it computes, one gate of the *)
(* tree at a time from the end of the matrix chain, the way                *)
(* normalize_matrix works through it; StpVector has the multiplication.    *)
(***************************************************************************)
EXTENDS CircuitGraph, Sublists

CONSTANTS
  MaxBranch,    \* max_branch, 8 in the code
  Modes,        \* subset of {"random", "full"}: simulate, full_simulate
  PatternNum    \* pattern_num of simulate, 10000 in the code

FanoutLimit == 1

ASSUME SimulatorAssumption ==
  /\ MaxBranch \in Nat
  /\ Modes \subseteq {"random", "full"}
  /\ PatternNum \in Nat \ {0}

VARIABLES
  mode,       \* which of the two simulations runs
  sim,        \* sim_info of each line: its value under each pattern
  flag,       \* the lines with lines_flag set
  todo,       \* gates the loop of the phase has yet to reach
  nodes,      \* cut_tree: the roots left, a queue
  temp,       \* cut_tree: the frontier of the tree being cut, a queue
  count,      \* cut_tree: the leaves of that tree, less one
  root,       \* single_node_sim: the gate simulated
  stack,      \* get_node_matrix: inputs left, innermost call first
  leaves,     \* get_node_matrix: the variables, in order of their numbers
  chain,      \* get_node_matrix: the LUTs of the matrix chain
  local,      \* values of the LUTs multiplied out so far
  tables      \* the truth tables full_simulate prints

simVars == <<mode, sim, flag, todo, nodes, temp, count, root, stack, leaves, chain,
             local, tables>>

vars == <<phase, graphVars, simVars>>

NotSimulated == <<>>      \* an empty line_sim_info
NoGate == 0

Init ==
  /\ GraphInit
  /\ mode \in Modes
  /\ sim = [l \in Names |-> NotSimulated]
  /\ flag = {}
  /\ todo = {}
  /\ nodes = <<>> /\ temp = <<>> /\ count = 0
  /\ root = NoGate /\ stack = <<>> /\ leaves = <<>> /\ chain = <<>>
  /\ local = [g \in {} |-> NotSimulated]
  /\ tables = <<>>

OutOfBounds == phase' = "outOfBounds" /\ UNCHANGED <<graphVars, simVars>>

-----------------------------------------------------------------------------
(* The stimuli: random bits, or every assignment of the inputs, where the    *)
(* index of the line, not its rank among the inputs, selects the bit         *)

IndexOf(l) == CHOOSE i \in DOMAIN lines : lines[i] = l

(* pattern_num *)
Patterns == 1 .. IF mode = "full" THEN 2 ^ Len(inputs) ELSE PatternNum

Bit(p, i) == (p \div 2 ^ i) % 2

RandomStimuli ==
  /\ phase = "stimuli"
  /\ mode = "random"
  /\ \E bits \in [SetOf(inputs) -> [Patterns -> 0 .. 1]] :
       sim' = [l \in Names |-> IF IsInput(l) THEN bits[l] ELSE sim[l]]
  /\ flag' = SetOf(inputs)
  /\ phase' = "depth"
  /\ UNCHANGED <<graphVars, mode, todo, nodes, temp, count, root, stack, leaves,
                 chain, local, tables>>

FullStimuli_LowestFirst ==
  /\ phase = "stimuli"
  /\ mode = "full"
  /\ \A l \in SetOf(inputs) : IndexOf(l) <= Len(inputs)
  /\ sim' = [l \in Names |->
               IF IsInput(l) THEN [p \in Patterns |-> Bit(p - 1, IndexOf(l) - 1)] ELSE sim[l]]
  /\ flag' = SetOf(inputs)
  /\ phase' = "depth"
  /\ UNCHANGED <<graphVars, mode, todo, nodes, temp, count, root, stack, leaves,
                 chain, local, tables>>

FullStimuli ==
  /\ phase = "stimuli"
  /\ mode = "full"
  /\ \A l \in SetOf(inputs) : IndexOf(l) <= Len(inputs)
  /\ sim' = [l \in Names |->
               IF IsInput(l)
               THEN [p \in Patterns |-> Bit(p - 1, Len(inputs) - IndexOf(l))]
               ELSE sim[l]]
  /\ flag' = SetOf(inputs)
  /\ phase' = "depth"
  /\ UNCHANGED <<graphVars, mode, todo, nodes, temp, count, root, stack, leaves,
                 chain, local, tables>>

(* nbitBinary[i][line_id] with an index beyond the number of inputs. *)
NoSuchBit ==
  /\ phase = "stimuli"
  /\ mode = "full"
  /\ \E l \in SetOf(inputs) : IndexOf(l) > Len(inputs)
  /\ OutOfBounds

Stimuli == RandomStimuli \/ FullStimuli \/ NoSuchBit

-----------------------------------------------------------------------------
(* get_need_nodes: the loop over the levels, and cut_tree                    *)

First_ByIndex(S) == CHOOSE g \in S : \A h \in S : g <= h

(* m_node_level lists the gates by level, those of a level by index. *)
First(S) ==
  CHOOSE g \in S : \A h \in S : level[g] < level[h] \/ (level[g] = level[h] /\ g <= h)

MustSimulate_OutputsOnly(g) == IsOutput(gates[g].out)

MustSimulate(g) ==
  IsOutput(gates[g].out) \/ Cardinality(Destinations(gates[g].out)) > FanoutLimit

StartMarking ==
  /\ phase = "depth"
  /\ GroupByLevel
  /\ todo' = DOMAIN gates
  /\ UNCHANGED <<mode, sim, flag, nodes, temp, count, root, stack, leaves, chain,
                 local, tables>>

Mark_NeverAdvances ==
  /\ phase = "mark" /\ nodes = <<>> /\ temp = <<>>
  /\ todo # {}
  /\ LET g == First(todo) IN
       IF MustSimulate(g)
       THEN flag' = flag \cup {gates[g].out} /\ nodes' = <<g>>
       ELSE UNCHANGED <<flag, nodes>>
  /\ UNCHANGED <<phase, graphVars, mode, sim, todo, temp, count, root, stack, leaves, chain,
                 local, tables>>

Mark ==
  /\ phase = "mark" /\ nodes = <<>> /\ temp = <<>>
  /\ todo # {}
  /\ LET g == First(todo) IN
       /\ todo' = todo \ {g}
       /\ IF MustSimulate(g)
          THEN flag' = flag \cup {gates[g].out} /\ nodes' = <<g>>
          ELSE UNCHANGED <<flag, nodes>>
  /\ UNCHANGED <<phase, graphVars, mode, sim, temp, count, root, stack, leaves, chain,
                 local, tables>>

(* The next tree to cut. *)
CutNext ==
  /\ phase = "mark" /\ nodes # <<>> /\ temp = <<>>
  /\ temp' = <<Head(nodes)>>
  /\ nodes' = Tail(nodes)
  /\ count' = 0
  /\ UNCHANGED <<phase, graphVars, mode, sim, flag, todo, root, stack, leaves, chain,
                 local, tables>>

UnflaggedDrivers(g) ==
  LET unflagged == Sublist(gates[g].ins, Names \ flag)
  IN  [i \in DOMAIN unflagged |-> source[unflagged[i]]]

(* The first gate of the frontier gives way to its drivers.  Once the tree is
   too wide, what is left of the frontier is flagged and cut in turn. *)
CutStep ==
  /\ phase = "mark" /\ temp # <<>>
  /\ LET g == Head(temp)
         rest == Tail(temp) \o UnflaggedDrivers(g)
         leafCount == count + Len(gates[g].ins) - 1
     IN  /\ count' = leafCount
         /\ IF leafCount > MaxBranch \/ rest = <<>>
            THEN /\ flag' = flag \cup {gates[rest[i]].out : i \in DOMAIN rest}
                 /\ nodes' = nodes \o rest
                 /\ temp' = <<>>
            ELSE temp' = rest /\ UNCHANGED <<flag, nodes>>
  /\ UNCHANGED <<phase, graphVars, mode, sim, todo, root, stack, leaves, chain, local,
                 tables>>

(* The flagged gates, in the order of m_node_level.  Without outputs the loop
   runs on: the depth, -1, is compared as an unsigned number. *)
Order ==
  /\ phase = "mark" /\ nodes = <<>> /\ temp = <<>>
  /\ todo = {}
  /\ outputs # <<>>
  /\ todo' = {g \in DOMAIN gates : gates[g].out \in flag}
  /\ phase' = "simulate"
  /\ UNCHANGED <<graphVars, mode, sim, flag, nodes, temp, count, root, stack, leaves,
                 chain, local, tables>>

NoDepth ==
  /\ phase = "mark" /\ todo = {} /\ nodes = <<>> /\ temp = <<>>
  /\ outputs = <<>>
  /\ OutOfBounds

NeedNodes == StartMarking \/ Mark \/ CutNext \/ CutStep \/ Order \/ NoDepth

-----------------------------------------------------------------------------
(* single_node_sim                                                           *)

Simulate ==
  /\ phase = "simulate" /\ root = NoGate
  /\ todo # {}
  /\ root' = First(todo)
  /\ todo' = todo \ {root'}
  /\ stack' = gates[root'].ins
  /\ chain' = <<root'>>
  /\ leaves' = <<>>
  /\ local' = [g \in {} |-> NotSimulated]
  /\ UNCHANGED <<phase, graphVars, mode, sim, flag, nodes, temp, count, tables>>

(* get_node_matrix meets a flagged line: a variable. *)
TakeLeaf ==
  /\ phase = "simulate" /\ stack # <<>>
  /\ Head(stack) \in flag
  /\ stack' = Tail(stack)
  /\ leaves' = EnsureLine(leaves, Head(stack))
  /\ UNCHANGED <<phase, graphVars, mode, sim, flag, todo, nodes, temp, count, root, chain,
                 local, tables>>

(* Any other line is replaced by the LUT that drives it. *)
TakeGate ==
  /\ phase = "simulate" /\ stack # <<>>
  /\ Head(stack) \notin flag
  /\ LET g == source[Head(stack)] IN
       /\ stack' = gates[g].ins \o Tail(stack)
       /\ chain' = Append(chain, g)
  /\ UNCHANGED <<phase, graphVars, mode, sim, flag, todo, nodes, temp, count, root, leaves,
                 local, tables>>

ValueOf(l) == IF l \in flag THEN sim[l] ELSE local[source[l]]

(* The number the inputs of g spell, the first one its highest bit. *)
Minterm(g, p) ==
  LET n == Len(gates[g].ins)
      term[i \in 0 .. n] == IF i = 0 THEN 0
        ELSE 2 * term[i - 1] + ValueOf(gates[g].ins[i])[p]
  IN  term[n]

Output(g) == [p \in Patterns |-> IF Minterm(g, p) \in gates[g].fn THEN 1 ELSE 0]

(* The last LUT of the chain is multiplied out. *)
MultiplyOut ==
  /\ phase = "simulate" /\ root # NoGate /\ stack = <<>>
  /\ Len(chain) > 1
  /\ LET g == chain[Len(chain)] IN
       local' = [h \in DOMAIN local \cup {g} |-> IF h = g THEN Output(g) ELSE local[h]]
  /\ chain' = SubSeq(chain, 1, Len(chain) - 1)
  /\ UNCHANGED <<phase, graphVars, mode, sim, flag, todo, nodes, temp, count, root, stack,
                 leaves, tables>>

(* The value of the root is read off for every pattern. *)
SetSimInfo ==
  /\ phase = "simulate" /\ root # NoGate /\ stack = <<>>
  /\ Len(chain) = 1
  /\ sim' = [sim EXCEPT ![gates[root].out] = Output(root)]
  /\ flag' = flag \cup {gates[root].out}
  /\ root' = NoGate
  /\ chain' = <<>>
  /\ UNCHANGED <<phase, graphVars, mode, todo, nodes, temp, count, stack, leaves, local,
                 tables>>

SingleNodeSim == Simulate \/ TakeLeaf \/ TakeGate \/ MultiplyOut \/ SetSimInfo

-----------------------------------------------------------------------------
(* The end: full_simulate prints, for output i, the line whose index is the  *)
(* number of inputs plus i                                                   *)

Report ==
  /\ phase = "simulate" /\ root = NoGate
  /\ todo = {}
  /\ mode = "full" => Len(inputs) >= 2
  /\ tables' = IF mode = "full"
               THEN [i \in DOMAIN outputs |-> sim[lines[Len(inputs) + i]]]
               ELSE tables
  /\ phase' = "done"
  /\ UNCHANGED <<graphVars, mode, sim, flag, todo, nodes, temp, count, root, stack, leaves,
                 chain, local>>

(* A table of one or two bits is printed as a digit made of four. *)
ShortTable ==
  /\ phase = "simulate" /\ root = NoGate
  /\ todo = {}
  /\ mode = "full" /\ Len(inputs) < 2
  /\ OutOfBounds

Stopped == phase \in {"done", "outOfBounds"} /\ UNCHANGED vars

Step ==
  \/ Parse /\ UNCHANGED simVars
  \/ (\E l \in Names : CallNothing(l) \/ Call(l)) /\ UNCHANGED simVars
  \/ (\E g \in DOMAIN gates : ReturnFrom(g)) /\ UNCHANGED simVars
  \/ Stimuli \/ NeedNodes \/ SingleNodeSim \/ Report \/ ShortTable

Next == Step \/ Stopped

Spec == Init /\ [][Next]_vars

(* One thread runs the command to its end. *)
FairSpec == Spec /\ WF_vars(Step)

-----------------------------------------------------------------------------
(* Correctness                                                             *)

(* The types of the variables. *)
TypeOK ==
  /\ GraphTypeOK
  /\ phase \in {"parse", "stimuli", "depth", "mark", "simulate", "done", "outOfBounds"}
  /\ mode \in Modes
  /\ sim \in [Names -> {NotSimulated} \cup [Patterns -> 0 .. 1]]
  /\ flag \subseteq Names
  /\ todo \subseteq DOMAIN gates
  /\ nodes \in Seq(DOMAIN gates)
  /\ temp \in Seq(DOMAIN gates)
  /\ count \in Int
  /\ root \in {NoGate} \cup DOMAIN gates
  /\ stack \in Seq(Names)
  /\ leaves \in Seq(Names)
  /\ chain \in Seq(DOMAIN gates)
  /\ DOMAIN local \subseteq DOMAIN gates
  /\ \A g \in DOMAIN local : local[g] \in [Patterns -> 0 .. 1]

(* What write_bench makes of a network without constants and without gates
   that drive nothing: inputs, outputs and LUTs in this order. *)
Written(f) ==
  /\ Driven(f)
  /\ Statements(f, "output") # {}
  /\ \A i \in Statements(f, "lut") :
       \/ f[i].name \in Declared(f, "output")
       \/ \E j \in Statements(f, "lut") : f[i].name \in SetOf(f[j].ins)
  /\ \A i, j \in DOMAIN f : i < j =>
       /\ f[j].kind = "input" => f[i].kind = "input"
       /\ f[j].kind = "output" => f[i].kind \in {"input", "output"}
       /\ f[i].kind = f[j].kind /\ f[i].kind # "other" => f[i].name # f[j].name

(* No vector is read outside of its bounds for a file of write_bench, except
   for the truth tables of a network with fewer than two inputs. *)
InBounds ==
  phase = "outOfBounds" =>
    ~(Written(file) /\ (mode = "full" => Cardinality(Declared(file, "input")) >= 2))

(* The lines a tree is multiplied out over have their values when it is,
   because gates are simulated by levels that lie above those of their drivers,
   whatever order cut_tree flagged them in. *)
OperandsReady ==
  /\ LevelsAboveDrivers
  /\ phase = "simulate" => \A l \in SetOf(leaves) : sim[l] # NotSimulated

Fanin == {Len(gates[g].ins) : g \in DOMAIN gates}

(* A tree never gets much wider than max_branch allows, whatever the network:
   its normal form has a column for every assignment of its leaves. *)
CutBound ==
  phase = "simulate" => Len(leaves) <= MaxBranch + Highest(Fanin)

(* Only logic read at one place is multiplied out: whatever is shared or read
   from outside is simulated once and then a leaf. *)
SharedLogicIsLeaf ==
  \A g \in SetOf(chain) :
    g # root => ~IsOutput(gates[g].out) /\ Cardinality(Destinations(gates[g].out)) = 1

(* What the cutting promises of the trees it leaves, for any flags it met. *)
TreesWellCut == CutBound /\ SharedLogicIsLeaf

Sum(s) == LET t[i \in 0 .. Len(s)] == IF i = 0 THEN 0 ELSE t[i - 1] + s[i] IN t[Len(s)]

(* v gives every line the value it has under pattern p, by the statements of
   the file: the first input of a LUT is the lowest bit of the minterm. *)
Valuation(v, p) ==
  /\ \A l \in SetOf(inputs) : v[l] = sim[l][p]
  /\ \A i \in Statements(file, "lut") :
       LET ins == file[i].ins
       IN  v[file[i].name] =
             IF Sum([k \in DOMAIN ins |-> v[ins[k]] * 2 ^ (k - 1)]) \in file[i].fn
             THEN 1 ELSE 0

(* When the command is done every output has been simulated, and every line
   that was has the value the network gives it under every pattern.  An input
   that is driven too is read with one value before its LUT is simulated and
   with another one after. *)
ValuesCorrect ==
  phase = "done" =>
    /\ \A o \in SetOf(outputs) : sim[o] # NotSimulated
    /\ InputsUndriven(file) =>
         \A p \in Patterns, v \in [SetOf(lines) -> 0 .. 1] : Valuation(v, p) =>
           \A l \in SetOf(lines) : sim[l] # NotSimulated => sim[l][p] = v[l]

(* The truth table printed for output i is that of output i, over all
   assignments of the inputs in their order. *)
TablesCorrect ==
  phase = "done" /\ mode = "full" /\ Written(file) =>
    /\ \A i \in DOMAIN outputs : tables[i] = sim[outputs[i]]
    /\ \A i, j \in DOMAIN inputs : \A p \in Patterns :
         sim[inputs[i]][p] = Bit(p - 1, Len(inputs) - i)

(* The command ends for every file, well formed or not, whose LUTs do not
   depend on themselves. *)
Ends == <>(phase \in {"done", "outOfBounds"})
=============================================================================
