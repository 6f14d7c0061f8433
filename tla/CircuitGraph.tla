---------------------------- MODULE CircuitGraph ----------------------------
(***************************************************************************)
(* The circuit graph of the STP-based simulator: LutParser reads a BENCH   *)
(* file line by line into a CircuitGraph of lines and gates, and           *)
(* match_logic_depth gives every gate its level.                           *)
(*                                                                         *)
(* A line of the file is an INPUT or OUTPUT declaration, a LUT with its    *)
(* truth table, or anything else ("n0 = gnd"), which the parser skips.     *)
(* The name of a line stands for the line; its index is its place in       *)
(* lines.  A truth table is the set of minterms it is true for, the first  *)
(* input of the LUT being the least significant bit.                       *)
(***************************************************************************)
EXTENDS Integers, Sequences, SequencesExt, FiniteSets

CONSTANTS
  Names,      \* the names that occur in the files
  Files       \* the files that may be read, each a sequence of statements

Kinds == {"input", "output", "lut", "other"}

Statement == [kind : Kinds, name : Names, ins : Seq(Names), fn : SUBSET Nat]

ASSUME FilesAssumption == Files \subseteq Seq(Statement)

VARIABLES
  phase,      \* what simulator_command is doing
  file,       \* the file being read
  at,         \* the statement read next
  lines,      \* m_lines, by name
  inputs,     \* m_inputs
  outputs,    \* m_outputs
  gates,      \* m_gates
  source,     \* Line::source of each line
  called,     \* gates compute_node_depth was called for
  level       \* Gate::m_level of each gate

graphVars == <<file, at, lines, inputs, outputs, gates, source, called, level>>

NULL_INDEX == -1
NO_LEVEL == -10000

SetOf(s) == {s[i] : i \in DOMAIN s}

IsInput(l)  == l \in SetOf(inputs)
IsOutput(l) == l \in SetOf(outputs)

(* Line::destination_gates, filled by connect_as_input: a set, so a gate that
   reads a line twice counts once. *)
Destinations(l) == {g \in DOMAIN gates : l \in SetOf(gates[g].ins)}

GraphInit ==
  /\ phase = "parse"
  /\ file \in Files
  /\ at = 1
  /\ lines = <<>>
  /\ inputs = <<>>
  /\ outputs = <<>>
  /\ gates = <<>>
  /\ source = [l \in Names |-> NULL_INDEX]
  /\ called = {}
  /\ level = <<>>

-----------------------------------------------------------------------------
(* LutParser::parse                                                        *)

Reading(kind) ==
  /\ phase = "parse"
  /\ at \in DOMAIN file
  /\ file[at].kind = kind
  /\ at' = at + 1
  /\ UNCHANGED <<phase, file, called>>

EnsureLine(ls, name) == IF name \in SetOf(ls) THEN ls ELSE Append(ls, name)

AddInput ==
  /\ Reading("input")
  /\ LET l == file[at].name IN
       /\ lines' = EnsureLine(lines, l)
       /\ inputs' = IF IsInput(l) THEN inputs ELSE Append(inputs, l)
  /\ UNCHANGED <<outputs, gates, source, level>>

AddOutput ==
  /\ Reading("output")
  /\ LET l == file[at].name IN
       /\ lines' = EnsureLine(lines, l)
       /\ outputs' = IF IsOutput(l) THEN outputs ELSE Append(outputs, l)
  /\ UNCHANGED <<inputs, gates, source, level>>

Reversed_InFileOrder(s) == s

(* add_gate walks the inputs of the statement from the last to the first. *)
Reversed(s) == [i \in DOMAIN s |-> s[Len(s) + 1 - i]]

AddGate_IndexBeforePush ==
  /\ Reading("lut")
  /\ LET s == file[at]
         ins == Reversed(s.ins)
     IN  /\ lines' = EnsureLine(FoldLeft(EnsureLine, lines, ins), s.name)
         /\ gates' = Append(gates, [out |-> s.name, ins |-> ins, fn |-> s.fn])
         /\ source' = [source EXCEPT ![s.name] = Len(gates)]
  /\ level' = Append(level, NO_LEVEL)
  /\ UNCHANGED <<inputs, outputs>>

(* A second LUT for the same line takes the line over. *)
AddGate ==
  /\ Reading("lut")
  /\ LET s == file[at]
         ins == Reversed(s.ins)
     IN  /\ lines' = EnsureLine(FoldLeft(EnsureLine, lines, ins), s.name)
         /\ gates' = Append(gates, [out |-> s.name, ins |-> ins, fn |-> s.fn])
         /\ source' = [source EXCEPT ![s.name] = Len(gates) + 1]
  /\ level' = Append(level, NO_LEVEL)
  /\ UNCHANGED <<inputs, outputs>>

SkipLine ==
  /\ Reading("other")
  /\ UNCHANGED <<lines, inputs, outputs, gates, source, level>>

Parsed ==
  /\ phase = "parse"
  /\ at > Len(file)
  /\ phase' = "stimuli"
  /\ UNCHANGED graphVars

Parse == AddInput \/ AddOutput \/ AddGate \/ SkipLine \/ Parsed

-----------------------------------------------------------------------------
(* match_logic_depth.  compute_node_depth calls itself for the drivers of a *)
(* gate before it sets the level of the gate; the order among the drivers   *)
(* does not matter and is left open.                                        *)

Unlevelled(g) == level[g] = NO_LEVEL

WantedLines_InputsToo ==
  SetOf(outputs) \cup UNION {SetOf(gates[g].ins) : g \in called}

(* The calls open: for each output, and for each driver of a gate called. *)
WantedLines ==
  SetOf(outputs) \cup
  UNION {{l \in SetOf(gates[g].ins) : ~IsInput(l)} : g \in called}

(* A line no gate drives: m_gates[-1] is read, outside of the vector. *)
CallNothing(l) ==
  /\ phase = "depth"
  /\ l \in WantedLines
  /\ source[l] = NULL_INDEX
  /\ phase' = "outOfBounds"
  /\ UNCHANGED graphVars

Call(l) ==
  /\ phase = "depth"
  /\ l \in WantedLines
  /\ source[l] \in DOMAIN gates \ called
  /\ called' = called \cup {source[l]}
  /\ UNCHANGED <<phase, file, at, lines, inputs, outputs, gates, source, level>>

Drivers(g) == {source[l] : l \in {k \in SetOf(gates[g].ins) : ~IsInput(k)}}

Highest(S) == IF S = {} THEN -1 ELSE CHOOSE x \in S : \A y \in S : y <= x

ReturnFrom(g) ==
  /\ phase = "depth"
  /\ g \in called
  /\ Unlevelled(g)
  /\ \A d \in Drivers(g) : d \in called /\ ~Unlevelled(d)
  /\ level' = [level EXCEPT ![g] = 1 + Highest({level[d] : d \in Drivers(g)})]
  /\ UNCHANGED <<phase, file, at, lines, inputs, outputs, gates, source, called>>

(* m_node_level is filled for every gate of the file: one outside of the
   cones of the outputs has no level, and -10000 is no index. *)
GroupByLevel ==
  /\ phase = "depth"
  /\ \A o \in SetOf(outputs) : source[o] \in called /\ ~Unlevelled(source[o])
  /\ phase' = IF \E g \in DOMAIN gates : Unlevelled(g) THEN "outOfBounds" ELSE "mark"
  /\ UNCHANGED graphVars

Depth ==
  \/ \E l \in Names : CallNothing(l) \/ Call(l)
  \/ \E g \in DOMAIN gates : ReturnFrom(g)
  \/ GroupByLevel

-----------------------------------------------------------------------------
(* Files write_bench can write: every name is declared once, as an input or *)
(* by one LUT, what a LUT reads is declared, and no LUT depends on itself.  *)
(* That every gate is in the cone of an output is CleanedUp.                *)

Statements(f, kind) == {i \in DOMAIN f : f[i].kind = kind}
Declared(f, kind)   == {f[i].name : i \in Statements(f, kind)}

Reads(f, name) == UNION {SetOf(f[i].ins) : i \in {j \in Statements(f, "lut") : f[j].name = name}}

InputsUndriven(f) == Declared(f, "input") \cap Declared(f, "lut") = {}

Driven(f) ==
  /\ InputsUndriven(f)
  /\ \A i, j \in Statements(f, "lut") : f[i].name = f[j].name => i = j
  /\ Declared(f, "output") \subseteq Declared(f, "lut")
  /\ \A i \in Statements(f, "lut") :
       SetOf(f[i].ins) \subseteq Declared(f, "input") \cup Declared(f, "lut")
  /\ \A S \in SUBSET Statements(f, "lut") :
       S # {} => \E i \in S : \A j \in S : f[i].name \notin SetOf(f[j].ins)

-----------------------------------------------------------------------------
Gate == [out : Names, ins : Seq(Names), fn : SUBSET Nat]

(* The types of the variables of the graph. *)
GraphTypeOK ==
  /\ file \in Seq(Statement)
  /\ at \in 1 .. Len(file) + 1
  /\ lines \in Seq(Names)
  /\ inputs \in Seq(Names)
  /\ outputs \in Seq(Names)
  /\ gates \in Seq(Gate)
  /\ source \in [Names -> {NULL_INDEX} \cup 1 .. Len(gates)]
  /\ called \subseteq DOMAIN gates
  /\ level \in Seq({NO_LEVEL} \cup Nat)
  /\ Len(level) = Len(gates)

(* A gate lies strictly above every gate that drives it: computing the gates
   level by level computes operands first. *)
LevelsAboveDrivers ==
  \A g \in DOMAIN gates : level[g] # NO_LEVEL =>
    \A d \in Drivers(g) : d \in called /\ level[d] # NO_LEVEL /\ level[d] < level[g]
=============================================================================
