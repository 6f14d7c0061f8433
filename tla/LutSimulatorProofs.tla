------------------------- MODULE LutSimulatorProofs -------------------------
(***************************************************************************)
(* Proofs about the command simulator, for any files.                      *)
(***************************************************************************)
EXTENDS LutSimulator, FoldLemmas

-----------------------------------------------------------------------------
(***************************************************************************)
(* The graph.  source[l] is a gate that drives l, whenever one does.       *)
(***************************************************************************)
SourceInv ==
  /\ \A l \in Names : source[l] # NULL_INDEX => gates[source[l]].out = l
  /\ \A g \in DOMAIN gates : source[gates[g].out] # NULL_INDEX

LevelInv ==
  /\ LevelsAboveDrivers
  /\ phase = "parse" => \A g \in DOMAIN gates : Unlevelled(g)
  /\ phase \in {"mark", "simulate", "done"} =>
       /\ \A g \in DOMAIN gates : ~Unlevelled(g)
       /\ \A o \in SetOf(outputs) : source[o] \in DOMAIN gates

(***************************************************************************)
(* Before the graph is complete nothing is known of the simulation.        *)
(***************************************************************************)
BlankInv ==
  /\ phase \in {"parse", "stimuli", "depth"} => todo = {} /\ nodes = <<>> /\ temp = <<>>
  /\ phase \in {"parse", "stimuli", "depth", "mark"} => leaves = <<>> /\ DOMAIN local = {}
  /\ phase \in {"parse", "stimuli"} => flag = {} /\ sim = [l \in Names |-> NotSimulated]
  /\ phase # "simulate" => root = NoGate
  /\ root = NoGate => stack = <<>> /\ chain = <<>>

(***************************************************************************)
(* The lines that are flagged are inputs or driven, and each of those that *)
(* no gate still to be simulated drives has a value.                       *)
(***************************************************************************)
Pending == todo \cup {root}

FlagInv ==
  /\ flag \subseteq SetOf(inputs) \cup {gates[g].out : g \in DOMAIN gates}
  /\ phase \in {"depth", "mark", "simulate", "done"} =>
       \A l \in SetOf(inputs) : l \in flag /\ sim[l] # NotSimulated
  /\ phase = "simulate" =>
       /\ \A g \in Pending \ {NoGate} : gates[g].out \in flag
       /\ \A g \in DOMAIN gates \ Pending :
            gates[g].out \in flag => sim[gates[g].out] # NotSimulated

(***************************************************************************)
(* What is left of a tree lies below its root, and has its operands in the *)
(* chain behind it, among those multiplied out, or among the leaves.       *)
(***************************************************************************)
Reader(l) == \E g \in DOMAIN gates : l \in SetOf(gates[g].ins)

OperandIn(i, l) ==
  \/ l \in SetOf(stack)
  \/ l \in flag /\ l \in SetOf(leaves)
  \/ l \notin flag /\ source[l] \in DOMAIN local
  \/ l \notin flag /\ \E j \in i + 1 .. Len(chain) : chain[j] = source[l]

TreeInv ==
  phase = "simulate" =>
    /\ root # NoGate => /\ \A g \in todo : level[g] >= level[root]
                        /\ chain # <<>> /\ chain[1] = root
    /\ \A l \in SetOf(stack) :
         /\ Reader(l)
         /\ ~IsInput(l) => source[l] \in DOMAIN gates /\ level[source[l]] < level[root]
    /\ \A l \in SetOf(leaves) : l \in flag /\ sim[l] # NotSimulated
    /\ \A i \in DOMAIN chain : \A l \in SetOf(gates[chain[i]].ins) : OperandIn(i, l)

(***************************************************************************)
(* Logic that is read from several places is flagged.                      *)
(***************************************************************************)
SharedInv ==
  /\ phase = "mark" => \A g \in DOMAIN gates \ todo : MustSimulate(g) => gates[g].out \in flag
  /\ phase \in {"simulate", "done"} =>
       \A g \in DOMAIN gates : MustSimulate(g) => gates[g].out \in flag
  /\ SharedLogicIsLeaf

(***************************************************************************)
(* The graph is what the statements read so far say.                       *)
(***************************************************************************)
Before(kind) == {i \in Statements(file, kind) : i < at}
GateOf(s) == [out |-> s.name, ins |-> Reversed(s.ins), fn |-> s.fn]
Distinct(s) == \A i, j \in DOMAIN s : s[i] = s[j] => i = j

ReadInv ==
  /\ phase # "parse" => at = Len(file) + 1
  /\ SetOf(inputs) = {file[i].name : i \in Before("input")}
  /\ SetOf(outputs) = {file[i].name : i \in Before("output")}
  /\ \A i \in Before("lut") : \E g \in DOMAIN gates : gates[g] = GateOf(file[i])
  /\ \A g \in DOMAIN gates : \E i \in Before("lut") : gates[g] = GateOf(file[i])
  /\ Distinct(lines) /\ Distinct(inputs) /\ Distinct(outputs)
  /\ SetOf(inputs) \cup SetOf(outputs) \subseteq SetOf(lines)
  /\ \A g \in DOMAIN gates : {gates[g].out} \cup SetOf(gates[g].ins) \subseteq SetOf(lines)
  /\ Driven(file) => \A g \in DOMAIN gates : source[gates[g].out] = g

(***************************************************************************)
(* In a file that was written, lines are numbered inputs first, then       *)
(* outputs.                                                                *)
(***************************************************************************)
OrderInv ==
  Written(file) =>
    /\ \A i \in DOMAIN inputs : i \in DOMAIN lines /\ lines[i] = inputs[i]
    /\ \A i \in DOMAIN outputs :
         Len(inputs) + i \in DOMAIN lines /\ lines[Len(inputs) + i] = outputs[i]
    /\ Before("lut") = {} => Len(lines) = Len(inputs) + Len(outputs)

FullInv ==
  mode = "full" /\ Written(file) /\ phase \in {"depth", "mark", "simulate", "done"} =>
    \A i \in DOMAIN inputs : \A p \in Patterns :
      sim[inputs[i]][p] = Bit(p - 1, Len(inputs) - i)

(***************************************************************************)
(* Every value computed is that of the network.                            *)
(***************************************************************************)
ValueInv ==
  InputsUndriven(file) /\ phase \in {"depth", "mark", "simulate", "done"} =>
    \A p \in Patterns, v \in [SetOf(lines) -> 0 .. 1] : Valuation(v, p) =>
      /\ \A l \in SetOf(lines) : sim[l] # NotSimulated => sim[l][p] = v[l]
      /\ \A g \in DOMAIN local : local[g][p] = v[gates[g].out]

(***************************************************************************)
(* The command ends with a value for every output.                         *)
(***************************************************************************)
FinalInv == phase = "done" => \A o \in SetOf(outputs) : sim[o] # NotSimulated

Invariant ==
  /\ TypeOK /\ SourceInv /\ LevelInv /\ BlankInv /\ FlagInv /\ TreeInv /\ SharedInv
  /\ ReadInv /\ OrderInv /\ FullInv /\ ValueInv /\ FinalInv
  /\ InBounds /\ TablesCorrect

-----------------------------------------------------------------------------
(***************************************************************************)
(* Numbers                                                                 *)
(***************************************************************************)
(* Highest finds the greatest of the levels of some gates.                 *)
LEMMA HighestFacts ==
  ASSUME NEW n \in Nat, NEW D \in SUBSET (1 .. n), NEW f, \A d \in D : f[d] \in Nat
  PROVE  /\ Highest({f[d] : d \in D}) \in Nat \cup {-1}
         /\ \A d \in D : f[d] <= Highest({f[d2] : d2 \in D})
<1> DEFINE S == {f[d] : d \in D}
           T == {m \in Nat : \A d \in D : f[d] <= m}
<1>1. CASE D = {}
  BY <1>1 DEF Highest
<1>2. CASE D # {}
  <2>1. T # {} /\ T \in SUBSET Nat
    BY Bounded
  <2>2. PICK m \in T : \A k \in T : m <= k
    BY <2>1, LeastNumber
  <2>3. \E d \in D : f[d] = m
    <3> SUFFICES ASSUME \A d \in D : f[d] # m PROVE FALSE
      OBVIOUS
    <3>1. m # 0 /\ m \in Nat
      <4>1. PICK d \in D : TRUE
        BY <1>2
      <4> QED BY <2>2, <4>1
    <3>2. m - 1 \in T
      BY <2>2, <3>1
    <3> QED BY <2>2, <3>1, <3>2
  <2>4. m \in S /\ \A y \in S : y <= m
    BY <2>2, <2>3
  <2>5. S # {} /\ \E x \in S : \A y \in S : y <= x
    BY <2>4
  <2>6. Highest(S) = CHOOSE x \in S : \A y \in S : y <= x
    BY <2>5 DEF Highest
  <2>7. Highest(S) \in S /\ \A y \in S : y <= Highest(S)
    <3> HIDE DEF S
    <3> QED BY <2>5, <2>6
  <2> QED BY <2>7
<1> QED BY <1>1, <1>2

(* First takes a gate of the lowest level.                                 *)
LEMMA FirstFacts ==
  ASSUME NEW S \in SUBSET DOMAIN gates, S # {}, gates \in Seq(Gate),
         \A g \in S : level[g] \in Nat
  PROVE  First(S) \in S /\ \A g \in S : level[First(S)] <= level[g]
<1>1. DOMAIN gates = 1 .. Len(gates) /\ Len(gates) \in Nat
  OBVIOUS
<1> DEFINE L == {level[g] : g \in S}
<1>2. L \in SUBSET Nat /\ L # {}
  OBVIOUS
<1>3. PICK m \in L : \A k \in L : m <= k
  BY <1>2, LeastNumber
<1> DEFINE G == {g \in S : level[g] = m}
<1>4. G \in SUBSET Nat /\ G # {}
  BY <1>1, <1>3
<1>5. PICK g \in G : \A h \in G : g <= h
  BY <1>4, LeastNumber
<1>6. g \in S /\ \A h \in S : level[g] < level[h] \/ (level[g] = level[h] /\ g <= h)
  <2>1. g \in S /\ level[g] = m
    BY <1>5
  <2>2. ASSUME NEW h \in S
        PROVE  level[g] < level[h] \/ (level[g] = level[h] /\ g <= h)
    <3>1. m <= level[h] /\ m \in Nat /\ level[h] \in Nat
      BY <1>2, <1>3
    <3>2. level[h] = m => g <= h
      BY <1>5
    <3> QED BY <2>1, <3>1, <3>2
  <2> QED BY <2>1, <2>2
<1>7. /\ First(S) \in S
      /\ \A h \in S : \/ level[First(S)] < level[h]
                      \/ level[First(S)] = level[h] /\ First(S) <= h
  BY <1>6 DEF First
<1> QED BY <1>7

-----------------------------------------------------------------------------
(***************************************************************************)
(* Sequences                                                               *)
(***************************************************************************)
(* t is s with more behind it.                                             *)
Extends(s, t) ==
  Len(s) <= Len(t) /\ \A i \in DOMAIN s : i \in DOMAIN t /\ t[i] = s[i]

(* EnsureLine appends a name that is new.                                  *)
LEMMA EnsureFacts ==
  ASSUME NEW ls \in Seq(Names), NEW name \in Names
  PROVE  /\ EnsureLine(ls, name) \in Seq(Names)
         /\ SetOf(EnsureLine(ls, name)) = SetOf(ls) \cup {name}
         /\ Distinct(ls) => Distinct(EnsureLine(ls, name))
         /\ Extends(ls, EnsureLine(ls, name))
         /\ name \notin SetOf(ls) => /\ Len(EnsureLine(ls, name)) = Len(ls) + 1
                                     /\ EnsureLine(ls, name)[Len(ls) + 1] = name
<1>1. CASE name \in SetOf(ls)
  BY <1>1 DEF EnsureLine, Extends
<1>2. CASE name \notin SetOf(ls)
  <2> DEFINE w == Append(ls, name)
  <2>1. /\ w \in Seq(Names) /\ Len(w) = Len(ls) + 1
        /\ DOMAIN ls = 1 .. Len(ls) /\ Len(ls) \in Nat
        /\ DOMAIN w = 1 .. Len(ls) + 1
        /\ \A k \in 1 .. Len(ls) : w[k] = ls[k]
        /\ w[Len(ls) + 1] = name
    BY AppendFacts
  <2>2. EnsureLine(ls, name) = w
    BY <1>2 DEF EnsureLine
  <2> HIDE DEF w
  <2>3. SetOf(w) = SetOf(ls) \cup {name}
    BY <2>1 DEF SetOf
  <2>4. Distinct(ls) => Distinct(w)
    BY <1>2, <2>1 DEF Distinct, SetOf
  <2>5. Extends(ls, w)
    BY <2>1 DEF Extends
  <2> QED BY <2>1, <2>2, <2>3, <2>4, <2>5
<1> QED BY <1>1, <1>2

(* Reversing a sequence keeps its elements.                                *)
LEMMA ReversedFacts ==
  ASSUME NEW s \in Seq(Names)
  PROVE  /\ Reversed(s) \in Seq(Names) /\ Len(Reversed(s)) = Len(s)
         /\ SetOf(Reversed(s)) = SetOf(s)
         /\ \A i \in 1 .. Len(s) : Reversed(s)[i] = s[Len(s) + 1 - i]
<1>1. DOMAIN s = 1 .. Len(s) /\ Len(s) \in Nat
  OBVIOUS
<1>2. \A i \in 1 .. Len(s) : Len(s) + 1 - i \in 1 .. Len(s) /\ Len(s) + 1 - (Len(s) + 1 - i) = i
  BY <1>1
<1>3. Reversed(s) = [i \in 1 .. Len(s) |-> s[Len(s) + 1 - i]]
  BY <1>1 DEF Reversed
<1>4. Reversed(s) \in Seq(Names) /\ Len(Reversed(s)) = Len(s) /\ DOMAIN Reversed(s) = 1 .. Len(s)
  BY <1>1, <1>2, <1>3
<1>5. SetOf(Reversed(s)) = SetOf(s)
  <2> DEFINE r == Reversed(s)
  <2>1. DOMAIN r = 1 .. Len(s) /\ \A i \in 1 .. Len(s) : r[i] = s[Len(s) + 1 - i]
    BY <1>3
  <2> HIDE DEF r
  <2>2. \A x : (\E i \in DOMAIN r : x = r[i]) <=> (\E i \in DOMAIN s : x = s[i])
    <3>1. \A i \in DOMAIN s : r[Len(s) + 1 - i] = s[i] /\ Len(s) + 1 - i \in DOMAIN r
      BY <1>1, <1>2, <2>1
    <3>2. \A i \in DOMAIN r : r[i] = s[Len(s) + 1 - i] /\ Len(s) + 1 - i \in DOMAIN s
      BY <1>1, <1>2, <2>1
    <3> HIDE DEF r
    <3> QED BY <3>1, <3>2
  <2>3. SetOf(r) = SetOf(s)
    BY <2>2 DEF SetOf
  <2> QED BY <2>3 DEF r
<1> QED BY <1>3, <1>4, <1>5

(* A sequence extended by one that extends it is extended by both.         *)
LEMMA ExtendsTwice ==
  ASSUME NEW s \in Seq(Names), NEW t \in Seq(Names), NEW u \in Seq(Names),
         Extends(s, t), Extends(t, u)
  PROVE  Extends(s, u)
<1>1. Len(s) \in Nat /\ Len(t) \in Nat /\ Len(u) \in Nat
  OBVIOUS
<1> QED BY <1>1 DEF Extends

(* EnsureLine for one name after the other.                                *)
LEMMA EnsureAll ==
  ASSUME NEW ls \in Seq(Names), NEW ins \in Seq(Names)
  PROVE  /\ FoldLeft(EnsureLine, ls, ins) \in Seq(Names)
         /\ SetOf(FoldLeft(EnsureLine, ls, ins)) = SetOf(ls) \cup SetOf(ins)
         /\ Distinct(ls) => Distinct(FoldLeft(EnsureLine, ls, ins))
         /\ Extends(ls, FoldLeft(EnsureLine, ls, ins))
<1> DEFINE n == Len(ins)
           D == {q \in Seq(Names) : Extends(ls, q) /\ (Distinct(ls) => Distinct(q))}
           F == [p \in D \X (1 .. n) |-> EnsureLine(p[1], ins[p[2]])]
           Eq(h) == h = [t \in SUBSET (1 .. n) |->
                           IF t = {} THEN ls
                           ELSE EnsureLine(h[t \ {Max(t)}], ins[Max(t)])]
           h == CHOOSE g : Eq(g)
<1>1. n \in Nat /\ DOMAIN ins = 1 .. n /\ ls \in D
  BY DEF Extends
<1>2. \A q \in D, i \in 1 .. n : EnsureLine(q, ins[i]) \in D
  <2> SUFFICES ASSUME NEW q \in D, NEW i \in 1 .. n PROVE EnsureLine(q, ins[i]) \in D
    OBVIOUS
  <2>1. q \in Seq(Names) /\ ins[i] \in Names
    OBVIOUS
  <2>2. /\ EnsureLine(q, ins[i]) \in Seq(Names)
        /\ Distinct(q) => Distinct(EnsureLine(q, ins[i]))
        /\ Extends(q, EnsureLine(q, ins[i]))
    BY <2>1, EnsureFacts
  <2>3. Extends(ls, EnsureLine(q, ins[i]))
    BY <2>1, <2>2, ExtendsTwice
  <2> QED BY <2>2, <2>3
<1>3. F \in [D \X (1 .. n) -> D]
  <2> HIDE DEF D
  <2> QED BY <1>2
<1>4. PICK g \in [SUBSET (1 .. n) -> D] : FoldEquation(g, n, F, ls)
  <2> HIDE DEF D, F
  <2> QED BY <1>1, <1>3, FoldExists
<1>5. Eq(g)
  <2> SUFFICES ASSUME NEW t \in SUBSET (1 .. n)
               PROVE  g[t] = IF t = {} THEN ls
                             ELSE EnsureLine(g[t \ {Max(t)}], ins[Max(t)])
    BY <1>4
  <2>1. CASE t = {}
    BY <1>4, <2>1 DEF FoldEquation
  <2>2. CASE t # {}
    <3>1. Max(t) \in 1 .. n
      BY <1>1, <2>2, MaxOfInterval
    <3>2. g[t \ {Max(t)}] \in D
      BY <1>4
    <3>3. g[t] = F[<<g[t \ {Max(t)}], Max(t)>>]
      BY <1>4, <2>2 DEF FoldEquation
    <3> HIDE DEF D
    <3> QED BY <2>2, <3>1, <3>2, <3>3
  <2> QED BY <2>1, <2>2
<1>6. Eq(h)
  <2> HIDE DEF Eq
  <2> QED BY <1>5
<1>7. FoldLeft(EnsureLine, ls, ins) = h[1 .. n]
  BY <1>1 DEF FoldLeft, MapThenFoldSet
<1> HIDE DEF h
<1>8. \A t \in SUBSET (1 .. n) : h[t] \in D
  <2>1. h[{}] \in D
    <3> HIDE DEF D
    <3> QED BY <1>1, <1>6
  <2>2. ASSUME NEW t \in SUBSET (1 .. n), t # {}, h[t \ {Max(t)}] \in D
        PROVE  h[t] \in D
    <3>1. Max(t) \in 1 .. n
      BY <1>1, <2>2, MaxOfInterval
    <3> HIDE DEF D
    <3> QED BY <1>2, <1>6, <2>2, <3>1
  <2> HIDE DEF D
  <2> QED BY <1>1, <2>1, <2>2, FoldRange
<1>9. FoldEquation(h, n, F, ls)
  <2> SUFFICES ASSUME NEW t \in SUBSET (1 .. n)
               PROVE  h[t] = IF t = {} THEN ls ELSE F[<<h[t \ {Max(t)}], Max(t)>>]
    BY DEF FoldEquation
  <2>1. CASE t = {}
    BY <1>6, <2>1
  <2>2. CASE t # {}
    <3>1. Max(t) \in 1 .. n /\ h[t \ {Max(t)}] \in D
      BY <1>1, <1>8, <2>2, MaxOfInterval
    <3> HIDE DEF D
    <3> QED BY <1>6, <2>2, <3>1
  <2> QED BY <2>1, <2>2
<1>10. /\ h[1 .. 0] = ls
       /\ \A i \in 1 .. n : h[1 .. i] = F[<<h[1 .. i - 1], i>>]
  <2> HIDE DEF n, F, D
  <2> QED BY <1>1, <1>9, FoldRun
<1> DEFINE T == {i \in 0 .. n : SetOf(h[1 .. i]) = SetOf(ls) \cup {ins[j] : j \in 1 .. i}}
<1>11. 0 \in T
  BY <1>10
<1>12. ASSUME NEW i \in 0 .. n - 1, i \in T PROVE i + 1 \in T
  <2> DEFINE q == h[1 .. i]
  <2>1. i + 1 \in 1 .. n /\ (i + 1) - 1 = i /\ i + 1 \in 0 .. n /\ ins[i + 1] \in Names
    BY <1>1
  <2>2. q \in D /\ q \in Seq(Names)
    <3>1. 1 .. i \in SUBSET (1 .. n)
      BY <1>1
    <3>2. q \in D
      <4> HIDE DEF D
      <4> QED BY <1>8, <3>1
    <3> QED BY <3>2
  <2>3. SetOf(q) = SetOf(ls) \cup {ins[j] : j \in 1 .. i}
    BY <1>12
  <2>4. h[1 .. i + 1] = EnsureLine(q, ins[i + 1])
    <3>1. h[1 .. i + 1] = F[<<q, i + 1>>]
      BY <1>10, <2>1
    <3> HIDE DEF D, q
    <3> QED BY <2>1, <2>2, <3>1
  <2> HIDE DEF q
  <2>5. SetOf(EnsureLine(q, ins[i + 1])) = SetOf(q) \cup {ins[i + 1]}
    BY <2>1, <2>2, EnsureFacts
  <2>6. 1 .. i + 1 = (1 .. i) \cup {i + 1}
    BY <1>1
  <2>7. {ins[j] : j \in 1 .. i + 1} = {ins[j] : j \in 1 .. i} \cup {ins[i + 1]}
    BY <2>6
  <2>8. SetOf(h[1 .. i + 1]) = SetOf(ls) \cup {ins[j] : j \in 1 .. i + 1}
    BY <2>3, <2>4, <2>5, <2>7
  <2> QED BY <2>1, <2>8
<1>13. n \in T
  <2> HIDE DEF T, n
  <2>1. \A i \in 0 .. n : i \in T
    BY <1>1, <1>11, <1>12, UpTo
  <2> QED BY <1>1, <2>1
<1>14. SetOf(h[1 .. n]) = SetOf(ls) \cup SetOf(ins)
  BY <1>1, <1>13 DEF SetOf
<1>15. h[1 .. n] \in D
  <2>1. 1 .. n \in SUBSET (1 .. n)
    OBVIOUS
  <2> HIDE DEF D
  <2> QED BY <1>8, <2>1
<1> QED BY <1>7, <1>14, <1>15

(* The head and the tail of a sequence.                                    *)
LEMMA TailFacts ==
  ASSUME NEW X, NEW s \in Seq(X), s # <<>>
  PROVE  /\ Head(s) \in X /\ Tail(s) \in Seq(X) /\ Len(Tail(s)) = Len(s) - 1
         /\ Head(s) = s[1] /\ \A i \in 1 .. Len(s) - 1 : Tail(s)[i] = s[i + 1]
         /\ DOMAIN Tail(s) = 1 .. Len(s) - 1
OBVIOUS

-----------------------------------------------------------------------------
(***************************************************************************)
(* Stimuli and values                                                      *)
(***************************************************************************)
(* There is a pattern, and no values over all of them are no values.       *)
LEMMA PatternsFacts ==
  ASSUME TypeOK
  PROVE  /\ 1 \in Patterns /\ Patterns \subseteq Nat \ {0}
         /\ \A f \in [Patterns -> 0 .. 1] : f # NotSimulated
         /\ mode = "full" => Patterns = 1 .. 2 ^ Len(inputs)
<1>1. Len(inputs) \in Nat /\ mode \in Modes
  BY DEF TypeOK, GraphTypeOK
<1>2. 2 ^ Len(inputs) \in Nat \ {0}
  BY <1>1, PowerPositive
<1>3. 1 \in Patterns /\ Patterns \subseteq Nat \ {0}
  BY <1>2, SimulatorAssumption DEF Patterns
<1>4. \A f \in [Patterns -> 0 .. 1] : f # NotSimulated
  <2> SUFFICES ASSUME NEW f \in [Patterns -> 0 .. 1], f = NotSimulated PROVE FALSE
    OBVIOUS
  <2>1. DOMAIN f = Patterns /\ DOMAIN NotSimulated = {}
    BY DEF NotSimulated
  <2> QED BY <1>3, <2>1
<1>5. mode = "full" => Patterns = 1 .. 2 ^ Len(inputs)
  BY DEF Patterns
<1> QED BY <1>3, <1>4, <1>5

(* A bit is 0 or 1.                                                        *)
LEMMA BitType == \A p \in Nat, i \in Nat : Bit(p, i) \in 0 .. 1
<1> SUFFICES ASSUME NEW p \in Nat, NEW i \in Nat PROVE Bit(p, i) \in 0 .. 1
  OBVIOUS
<1>1. 2 ^ i \in Nat \ {0}
  BY PowerPositive
<1>2. p \div 2 ^ i \in Nat
  <2> DEFINE d == 2 ^ i
  <2> HIDE DEF d
  <2> SUFFICES ASSUME d \in Nat \ {0} PROVE p \div d \in Nat
    BY <1>1 DEF d
  <2> QED OBVIOUS
<1>3. (p \div 2 ^ i) % 2 \in 0 .. 1
  <2> DEFINE q == p \div 2 ^ i
  <2> HIDE DEF q
  <2> SUFFICES ASSUME q \in Nat PROVE q % 2 \in 0 .. 1
    BY <1>2 DEF q
  <2> QED OBVIOUS
<1> QED BY <1>3 DEF Bit

(* The driver of a line that is not an input.                              *)
LEMMA DriverFacts ==
  ASSUME TypeOK, LevelsAboveDrivers, NEW g \in DOMAIN gates, level[g] # NO_LEVEL,
         NEW l \in SetOf(gates[g].ins), ~IsInput(l)
  PROVE  /\ source[l] \in called /\ source[l] \in DOMAIN gates
         /\ level[source[l]] # NO_LEVEL /\ level[source[l]] < level[g]
<1>1. source[l] \in Drivers(g)
  BY DEF Drivers
<1>2. source[l] \in called /\ level[source[l]] # NO_LEVEL /\ level[source[l]] < level[g]
  BY <1>1 DEF LevelsAboveDrivers
<1> QED BY <1>2 DEF TypeOK, GraphTypeOK

(* The names of a gate.                                                    *)
LEMMA GateFacts ==
  ASSUME TypeOK, NEW g \in DOMAIN gates
  PROVE  /\ gates[g].out \in Names /\ gates[g].ins \in Seq(Names)
         /\ SetOf(gates[g].ins) \subseteq Names
         /\ level[g] \in {NO_LEVEL} \cup Nat
<1>1. gates[g] \in Gate
  BY DEF TypeOK, GraphTypeOK
<1>2. gates[g].out \in Names /\ gates[g].ins \in Seq(Names)
  BY <1>1 DEF Gate
<1>3. SetOf(gates[g].ins) \subseteq Names
  BY <1>2 DEF SetOf
<1>4. level[g] \in {NO_LEVEL} \cup Nat
  BY DEF TypeOK, GraphTypeOK
<1> QED BY <1>2, <1>3, <1>4

(* The tree of a gate grows by gates that drive it.                        *)
LEMMA UnflaggedType ==
  ASSUME TypeOK, LevelInv, FlagInv, phase = "mark", NEW g \in DOMAIN gates
  PROVE  UnflaggedDrivers(g) \in Seq(DOMAIN gates)
<1> DEFINE u == Sublist(gates[g].ins, Names \ flag)
           S == SetOf(gates[g].ins)
<1>1. gates[g].ins \in Seq(S)
  BY GateFacts DEF SetOf
<1>2. u \in Seq(S \cap (Names \ flag))
  <2> HIDE DEF S
  <2> QED BY <1>1, SublistType
<1>3. \A l \in S \cap (Names \ flag) : source[l] \in DOMAIN gates
  <2> SUFFICES ASSUME NEW l \in S, l \notin flag PROVE source[l] \in DOMAIN gates
    OBVIOUS
  <2>1. ~IsInput(l)
    BY DEF FlagInv, IsInput
  <2>2. level[g] # NO_LEVEL
    BY DEF LevelInv, Unlevelled
  <2> QED BY <2>1, <2>2, DriverFacts DEF LevelInv
<1> HIDE DEF S
<1>4. \A i \in DOMAIN u : source[u[i]] \in DOMAIN gates
  BY <1>2, <1>3
<1>5. DOMAIN u = 1 .. Len(u) /\ Len(u) \in Nat
  BY <1>2
<1>6. UnflaggedDrivers(g) = [i \in DOMAIN u |-> source[u[i]]]
  BY DEF UnflaggedDrivers
<1> HIDE DEF u
<1> QED BY <1>4, <1>5, <1>6

-----------------------------------------------------------------------------
(***************************************************************************)
(* Types                                                                   *)
(***************************************************************************)
(* The phases that leave the graph alone.                                  *)
Run == Stimuli \/ NeedNodes \/ SingleNodeSim \/ Report \/ ShortTable

(* They leave all of it alone.                                             *)
LEMMA RunKeepsGraph == Run => UNCHANGED graphVars
BY DEF Run, Stimuli, RandomStimuli, FullStimuli, NoSuchBit, NeedNodes, StartMarking, Mark,
       CutNext, CutStep, Order, NoDepth, SingleNodeSim, Simulate, TakeLeaf, TakeGate,
       MultiplyOut, SetSimInfo, Report, ShortTable, OutOfBounds, GroupByLevel

(* The statement read is one of the file.                                  *)
LEMMA ReadFacts ==
  ASSUME TypeOK, NEW kind, Reading(kind)
  PROVE  /\ phase = "parse" /\ phase' = phase /\ file' = file /\ called' = called
         /\ at \in 1 .. Len(file) /\ at' = at + 1
         /\ file[at] \in Statement /\ file[at].kind = kind
         /\ file[at].name \in Names /\ file[at].ins \in Seq(Names)
         /\ at' \in 1 .. Len(file') + 1
<1>1. file \in Seq(Statement) /\ at \in 1 .. Len(file) + 1
  BY DEF TypeOK, GraphTypeOK
<1>2. /\ phase = "parse" /\ phase' = phase /\ file' = file /\ called' = called
      /\ at \in DOMAIN file /\ at' = at + 1 /\ file[at].kind = kind
  BY DEF Reading
<1>3. at \in 1 .. Len(file)
  BY <1>1, <1>2
<1>4. file[at] \in Statement
  BY <1>1, <1>3
<1>5. file[at].name \in Names /\ file[at].ins \in Seq(Names)
  BY <1>4 DEF Statement
<1>6. at' \in 1 .. Len(file') + 1
  BY <1>1, <1>2, <1>3
<1> QED BY <1>1, <1>2, <1>3, <1>4, <1>5, <1>6

(* What reading a LUT adds: a gate, its lines, and it as their driver.     *)
LEMMA AddGateFacts ==
  ASSUME TypeOK, AddGate
  PROVE  /\ gates' \in Seq(Gate) /\ Len(gates') = Len(gates) + 1
         /\ Len(gates) \in Nat /\ DOMAIN gates' = 1 .. Len(gates) + 1
         /\ DOMAIN gates = 1 .. Len(gates)
         /\ \A g \in DOMAIN gates : gates'[g] = gates[g]
         /\ gates'[Len(gates) + 1] = GateOf(file[at])
         /\ source' = [source EXCEPT ![file[at].name] = Len(gates) + 1]
         /\ level' \in Seq({NO_LEVEL} \cup Nat) /\ Len(level') = Len(level) + 1
         /\ \A g \in DOMAIN gates : level'[g] = level[g]
         /\ level'[Len(gates) + 1] = NO_LEVEL
         /\ lines' \in Seq(Names)
         /\ SetOf(lines') = SetOf(lines) \cup SetOf(file[at].ins) \cup {file[at].name}
         /\ Distinct(lines) => Distinct(lines')
         /\ Extends(lines, lines')
<1> DEFINE s == file[at]
           ins == Reversed(s.ins)
           all == FoldLeft(EnsureLine, lines, ins)
           G == GateOf(s)
<1>1. s \in Statement /\ s.name \in Names /\ s.ins \in Seq(Names)
  BY ReadFacts DEF AddGate
<1>2. /\ gates \in Seq(Gate) /\ level \in Seq({NO_LEVEL} \cup Nat) /\ lines \in Seq(Names)
      /\ Len(level) = Len(gates)
  BY DEF TypeOK, GraphTypeOK
<1>3. ins \in Seq(Names) /\ SetOf(ins) = SetOf(s.ins)
  BY <1>1, ReversedFacts
<1>4. G \in Gate
  BY <1>1, <1>3 DEF GateOf, Gate, Statement
<1>5. /\ gates' = Append(gates, G) /\ level' = Append(level, NO_LEVEL)
      /\ lines' = EnsureLine(all, s.name)
      /\ source' = [source EXCEPT ![s.name] = Len(gates) + 1]
  BY DEF AddGate, GateOf
<1>6. /\ all \in Seq(Names) /\ SetOf(all) = SetOf(lines) \cup SetOf(ins)
      /\ Distinct(lines) => Distinct(all)
      /\ Extends(lines, all)
  BY <1>2, <1>3, EnsureAll
<1> HIDE DEF all, ins, G, s
<1>7. /\ lines' \in Seq(Names)
      /\ SetOf(lines') = SetOf(lines) \cup SetOf(s.ins) \cup {s.name}
      /\ Distinct(lines) => Distinct(lines')
      /\ Extends(all, lines')
  BY <1>1, <1>3, <1>5, <1>6, EnsureFacts
<1>8. Extends(lines, lines')
  BY <1>2, <1>6, <1>7, ExtendsTwice
<1>9. /\ gates' \in Seq(Gate) /\ Len(gates') = Len(gates) + 1
      /\ Len(gates) \in Nat /\ DOMAIN gates' = 1 .. Len(gates) + 1
      /\ DOMAIN gates = 1 .. Len(gates)
      /\ \A g \in 1 .. Len(gates) : gates'[g] = gates[g]
      /\ gates'[Len(gates) + 1] = G
  BY <1>2, <1>4, <1>5, AppendFacts
<1>10. NO_LEVEL \in {NO_LEVEL} \cup Nat
  OBVIOUS
<1>11. /\ level' \in Seq({NO_LEVEL} \cup Nat) /\ Len(level') = Len(level) + 1
       /\ \A g \in 1 .. Len(gates) : level'[g] = level[g]
       /\ level'[Len(gates) + 1] = NO_LEVEL
  <2> DEFINE X == {NO_LEVEL} \cup Nat
             nl == NO_LEVEL
  <2>1. level \in Seq(X) /\ nl \in X /\ level' = Append(level, nl) /\ Len(level) = Len(gates)
    BY <1>2, <1>5
  <2> HIDE DEF X, nl
  <2>2. /\ level' \in Seq(X) /\ Len(level') = Len(level) + 1
        /\ \A g \in 1 .. Len(level) : level'[g] = level[g]
        /\ level'[Len(level) + 1] = nl
    BY <2>1, AppendFacts
  <2> QED BY <2>1, <2>2 DEF X, nl
<1> QED BY <1>5, <1>7, <1>8, <1>9, <1>11 DEF G, s

(* The graph keeps its types.                                              *)
LEMMA GraphTypeStep ==
  ASSUME TypeOK, LevelInv, Next
  PROVE  GraphTypeOK'
<1> USE DEF TypeOK, GraphTypeOK
<1>1. CASE AddInput
  <2> DEFINE l == file[at].name
  <2>1. l \in Names /\ at' \in 1 .. Len(file') + 1 /\ file' = file /\ called' = called
    BY <1>1, ReadFacts DEF AddInput
  <2>2. /\ lines' = EnsureLine(lines, l)
        /\ inputs' = IF IsInput(l) THEN inputs ELSE Append(inputs, l)
        /\ UNCHANGED <<outputs, gates, source, level>>
    BY <1>1 DEF AddInput
  <2> HIDE DEF l
  <2>3. lines' \in Seq(Names) /\ inputs' \in Seq(Names)
    BY <2>1, <2>2, EnsureFacts
  <2> QED BY <2>1, <2>2, <2>3
<1>2. CASE AddOutput
  <2> DEFINE l == file[at].name
  <2>1. l \in Names /\ at' \in 1 .. Len(file') + 1 /\ file' = file /\ called' = called
    BY <1>2, ReadFacts DEF AddOutput
  <2>2. /\ lines' = EnsureLine(lines, l)
        /\ outputs' = IF IsOutput(l) THEN outputs ELSE Append(outputs, l)
        /\ UNCHANGED <<inputs, gates, source, level>>
    BY <1>2 DEF AddOutput
  <2> HIDE DEF l
  <2>3. lines' \in Seq(Names) /\ outputs' \in Seq(Names)
    BY <2>1, <2>2, EnsureFacts
  <2> QED BY <2>1, <2>2, <2>3
<1>3. CASE AddGate
  <2>1. at' \in 1 .. Len(file') + 1 /\ file' = file /\ called' = called
    BY <1>3, ReadFacts DEF AddGate
  <2>2. UNCHANGED <<inputs, outputs>>
    BY <1>3 DEF AddGate
  <2>3. /\ gates' \in Seq(Gate) /\ Len(gates') = Len(gates) + 1
        /\ Len(gates) \in Nat /\ DOMAIN gates' = 1 .. Len(gates) + 1
        /\ DOMAIN gates = 1 .. Len(gates)
        /\ source' = [source EXCEPT ![file[at].name] = Len(gates) + 1]
        /\ level' \in Seq({NO_LEVEL} \cup Nat) /\ Len(level') = Len(level) + 1
        /\ lines' \in Seq(Names)
    BY <1>3, AddGateFacts
  <2>4. source' \in [Names -> {NULL_INDEX} \cup 1 .. Len(gates')]
    <3> DEFINE n == Len(gates)
               R == {NULL_INDEX} \cup 1 .. n + 1
    <3>1. source \in [Names -> {NULL_INDEX} \cup 1 .. n] /\ n \in Nat
      BY <2>3
    <3>2. \A l \in Names : source[l] \in R
      BY <3>1
    <3>3. source \in [Names -> R] /\ n + 1 \in R
      BY <3>1, <3>2
    <3>4. source' = [source EXCEPT ![file[at].name] = n + 1] /\ Len(gates') = n + 1
      BY <2>3
    <3> HIDE DEF R, TypeOK, GraphTypeOK
    <3>5. source' \in [Names -> R]
      BY <3>3, <3>4
    <3> QED BY <3>4, <3>5 DEF R
  <2>5. called' \subseteq DOMAIN gates'
    <3>1. called \subseteq DOMAIN gates
      OBVIOUS
    <3>2. DOMAIN gates \subseteq DOMAIN gates'
      BY <2>3
    <3> QED BY <2>1, <3>1, <3>2
  <2>6. /\ file' \in Seq(Statement) /\ inputs' \in Seq(Names) /\ outputs' \in Seq(Names)
        /\ Len(level') = Len(gates')
    BY <2>1, <2>2, <2>3
  <2> HIDE DEF TypeOK
  <2> QED BY <2>1, <2>3, <2>4, <2>5, <2>6
<1>4. CASE SkipLine
  <2>1. at' \in 1 .. Len(file') + 1 /\ file' = file /\ called' = called
    BY <1>4, ReadFacts DEF SkipLine
  <2> QED BY <1>4, <2>1 DEF SkipLine
<1>5. ASSUME NEW l \in Names, Call(l) PROVE GraphTypeOK'
  BY <1>5 DEF Call
<1>6. ASSUME NEW g \in DOMAIN gates, ReturnFrom(g) PROVE GraphTypeOK'
  <2> DEFINE D == Drivers(g)
             h == Highest({level[d] : d \in Drivers(g)})
  <2>1. \A d \in D : d \in called /\ level[d] # NO_LEVEL
    BY <1>6 DEF ReturnFrom, Unlevelled
  <2> DEFINE n == Len(gates)
  <2>2. D \in SUBSET (1 .. n) /\ n \in Nat /\ \A d \in D : level[d] \in Nat
    BY <2>1
  <2>3. h \in Nat \cup {-1}
    <3> HIDE DEF D, n, TypeOK, GraphTypeOK
    <3>1. Highest({level[d] : d \in D}) \in Nat \cup {-1}
      BY <2>2, HighestFacts
    <3> QED BY <3>1 DEF D
  <2>4. level' = [level EXCEPT ![g] = 1 + h]
    BY <1>6 DEF ReturnFrom
  <2>5. 1 + h \in {NO_LEVEL} \cup Nat
    BY <2>3
  <2> HIDE DEF h
  <2>6. level' \in Seq({NO_LEVEL} \cup Nat) /\ Len(level') = Len(level)
    BY <2>4, <2>5
  <2> QED BY <1>6, <2>6 DEF ReturnFrom
<1>7. CASE UNCHANGED graphVars
  BY <1>7 DEF graphVars
<1>8. Run \/ Parsed \/ (\E l \in Names : CallNothing(l)) \/ Stopped => UNCHANGED graphVars
  BY RunKeepsGraph DEF Parsed, CallNothing, Stopped, vars
<1> QED BY <1>1, <1>2, <1>3, <1>4, <1>5, <1>6, <1>7, <1>8 DEF Next, Step, Parse, Run

(* Nothing is simulated while the file is read.                            *)
LEMMA BlankFacts ==
  ASSUME BlankInv, phase = "parse"
  PROVE  /\ todo = {} /\ nodes = <<>> /\ temp = <<>> /\ leaves = <<>> /\ DOMAIN local = {}
         /\ flag = {} /\ sim = [l \in Names |-> NotSimulated]
         /\ root = NoGate /\ stack = <<>> /\ chain = <<>>
BY DEF BlankInv

(* Output(g) has a bit for every pattern.                                  *)
LEMMA OutputType == \A g : Output(g) \in [Patterns -> 0 .. 1]
BY DEF Output

(* The gate taken next is one of those left.                               *)
LEMMA FirstType ==
  ASSUME TypeOK, LevelInv, phase \in {"mark", "simulate"}, todo # {}
  PROVE  /\ First(todo) \in todo /\ First(todo) \in DOMAIN gates
         /\ \A g \in todo : level[First(todo)] <= level[g]
<1>1. todo \in SUBSET DOMAIN gates /\ gates \in Seq(Gate)
  BY DEF TypeOK, GraphTypeOK
<1>2. \A g \in todo : level[g] \in Nat
  <2> SUFFICES ASSUME NEW g \in todo PROVE level[g] \in Nat
    OBVIOUS
  <2>1. g \in DOMAIN gates
    BY <1>1
  <2>2. level[g] # NO_LEVEL
    BY <2>1 DEF LevelInv, Unlevelled
  <2> QED BY <2>1, <2>2, GateFacts
<1> QED BY <1>1, <1>2, FirstFacts

(* The variables keep their types.                                         *)
LEMMA TypeStep ==
  ASSUME TypeOK, LevelInv, BlankInv, FlagInv, TreeInv, ReadInv, Next
  PROVE  TypeOK'
<1>0. GraphTypeOK'
  BY GraphTypeStep
<1>1. ASSUME Parse, UNCHANGED simVars PROVE TypeOK'
  <2>1. phase = "parse" /\ phase' \in {"parse", "stimuli"}
    BY <1>1 DEF Parse, AddInput, AddOutput, AddGate, SkipLine, Parsed, Reading
  <2>2. /\ todo' = {} /\ nodes' = <<>> /\ temp' = <<>> /\ leaves' = <<>> /\ DOMAIN local' = {}
        /\ flag' = {} /\ sim' = [l \in Names |-> NotSimulated]
        /\ root' = NoGate /\ stack' = <<>> /\ chain' = <<>>
        /\ mode' = mode /\ count' = count
    BY <1>1, <2>1, BlankFacts DEF simVars
  <2>3. mode \in Modes /\ count \in Int
    BY DEF TypeOK
  <2>4. \A S : <<>> \in Seq(S)
    OBVIOUS
  <2> QED BY <1>0, <2>1, <2>2, <2>3, <2>4 DEF TypeOK
<1>2. ASSUME UNCHANGED simVars, gates' = gates, inputs' = inputs,
             phase' \in {phase, "outOfBounds", "mark"}
      PROVE  TypeOK'
  <2>1. Patterns' = Patterns
    BY <1>2 DEF Patterns, simVars
  <2> QED BY <1>0, <1>2, <2>1 DEF TypeOK, simVars
<1>3. ASSUME Run PROVE Patterns' = Patterns /\ gates' = gates /\ inputs' = inputs
  <2>1. mode' = mode
    BY <1>3 DEF Run, Stimuli, RandomStimuli, FullStimuli, NoSuchBit, NeedNodes, StartMarking,
       Mark, CutNext, CutStep, Order, NoDepth, SingleNodeSim, Simulate, TakeLeaf, TakeGate,
       MultiplyOut, SetSimInfo, Report, ShortTable, OutOfBounds, simVars
  <2>2. inputs' = inputs /\ gates' = gates
    BY <1>3, RunKeepsGraph DEF graphVars
  <2> QED BY <2>1, <2>2 DEF Patterns
<1>4. SetOf(inputs) \subseteq Names
  BY DEF TypeOK, GraphTypeOK, SetOf
<1>5. CASE RandomStimuli
  <2>1. Patterns' = Patterns /\ gates' = gates /\ inputs' = inputs
    BY <1>3, <1>5 DEF Run, Stimuli
  <2>2. PICK bits \in [SetOf(inputs) -> [Patterns -> 0 .. 1]] :
          sim' = [l \in Names |-> IF IsInput(l) THEN bits[l] ELSE sim[l]]
    BY <1>5 DEF RandomStimuli
  <2>3. sim' \in [Names -> {NotSimulated} \cup [Patterns -> 0 .. 1]]
    BY <2>2 DEF TypeOK, IsInput
  <2> QED BY <1>0, <1>4, <1>5, <2>1, <2>3 DEF TypeOK, RandomStimuli
<1>6. CASE FullStimuli
  <2>1. Patterns' = Patterns /\ gates' = gates /\ inputs' = inputs
    BY <1>3, <1>6 DEF Run, Stimuli
  <2>2. \A l \in SetOf(inputs) :
          [p \in Patterns |-> Bit(p - 1, Len(inputs) - IndexOf(l))] \in [Patterns -> 0 .. 1]
    <3> SUFFICES ASSUME NEW l \in SetOf(inputs), NEW p \in Patterns
                 PROVE  Bit(p - 1, Len(inputs) - IndexOf(l)) \in 0 .. 1
      OBVIOUS
    <3>1. p - 1 \in Nat
      BY PatternsFacts
    <3>2. l \in SetOf(lines)
      BY DEF ReadInv
    <3>3. \E i \in DOMAIN lines : lines[i] = l
      BY <3>2 DEF SetOf
    <3>4. IndexOf(l) \in DOMAIN lines
      BY <3>3 DEF IndexOf
    <3>5. IndexOf(l) \in Nat /\ Len(inputs) \in Nat
      BY <3>4 DEF TypeOK, GraphTypeOK
    <3>6. IndexOf(l) <= Len(inputs)
      BY <1>6 DEF FullStimuli
    <3>7. Len(inputs) - IndexOf(l) \in Nat
      BY <3>5, <3>6
    <3> QED BY <3>1, <3>7, BitType
  <2>3. sim' = [l \in Names |->
               IF IsInput(l)
               THEN [p \in Patterns |-> Bit(p - 1, Len(inputs) - IndexOf(l))]
               ELSE sim[l]]
    BY <1>6 DEF FullStimuli
  <2>4. sim' \in [Names -> {NotSimulated} \cup [Patterns -> 0 .. 1]]
    BY <2>2, <2>3 DEF TypeOK, IsInput
  <2> QED BY <1>0, <1>4, <1>6, <2>1, <2>4 DEF TypeOK, FullStimuli
<1>7. CASE OutOfBounds
  BY <1>2, <1>7 DEF OutOfBounds, graphVars
<1>8. CASE StartMarking
  <2>1. Patterns' = Patterns /\ gates' = gates
    BY <1>3, <1>8 DEF Run, NeedNodes
  <2> QED BY <1>0, <1>8, <2>1 DEF TypeOK, StartMarking, GroupByLevel
<1>9. CASE Mark
  <2>1. Patterns' = Patterns /\ gates' = gates
    BY <1>3, <1>9 DEF Run, NeedNodes
  <2>2. First(todo) \in DOMAIN gates
    BY <1>9, FirstType DEF Mark
  <2>3. gates[First(todo)].out \in Names
    BY <2>2, GateFacts
  <2> DEFINE g == First(todo)
  <2>4. /\ todo' = todo \ {g} /\ flag' \in {flag, flag \cup {gates[g].out}}
        /\ nodes' \in {nodes, <<g>>}
    BY <1>9 DEF Mark
  <2> HIDE DEF g
  <2>5. g \in DOMAIN gates /\ gates[g].out \in Names
    BY <2>2, <2>3 DEF g
  <2>6. nodes' \in Seq(DOMAIN gates)
    <3> DEFINE D == DOMAIN gates
    <3>1. nodes \in Seq(D) /\ g \in D
      BY <2>5 DEF TypeOK
    <3> HIDE DEF D
    <3>2. <<g>> \in Seq(D)
      BY <3>1
    <3>3. nodes' \in Seq(D)
      BY <2>4, <3>1, <3>2
    <3> QED BY <3>3 DEF D
  <2> QED BY <1>0, <1>9, <2>1, <2>4, <2>5, <2>6 DEF TypeOK, Mark
<1>10. CASE CutNext
  <2>1. Patterns' = Patterns /\ gates' = gates
    BY <1>3, <1>10 DEF Run, NeedNodes
  <2>2. Head(nodes) \in DOMAIN gates /\ Tail(nodes) \in Seq(DOMAIN gates)
    BY <1>10, TailFacts DEF CutNext, TypeOK
  <2>3. temp' = <<Head(nodes)>> /\ nodes' = Tail(nodes)
    BY <1>10 DEF CutNext
  <2>4. temp' \in Seq(DOMAIN gates)
    BY <2>2, <2>3
  <2> QED BY <1>0, <1>10, <2>1, <2>2, <2>3, <2>4 DEF TypeOK, CutNext
<1>11. CASE CutStep
  <2> DEFINE g == Head(temp)
             rest == Tail(temp) \o UnflaggedDrivers(g)
             D == DOMAIN gates
  <2>1. Patterns' = Patterns /\ gates' = gates
    BY <1>3, <1>11 DEF Run, NeedNodes
  <2>2. temp # <<>> /\ phase = "mark" /\ temp \in Seq(D) /\ nodes \in Seq(D)
    BY <1>11 DEF CutStep, TypeOK
  <2>3. g \in D /\ Tail(temp) \in Seq(D)
    BY <2>2, TailFacts
  <2>4. UnflaggedDrivers(g) \in Seq(D)
    BY <2>2, <2>3, UnflaggedType
  <2>5. rest \in Seq(D) /\ nodes \o rest \in Seq(D)
    <3> HIDE DEF g, D
    <3> QED BY <2>2, <2>3, <2>4
  <2>6. \A i \in DOMAIN rest : rest[i] \in D
    <3> HIDE DEF D, rest
    <3> QED BY <2>5
  <2>7. {gates[rest[i]].out : i \in DOMAIN rest} \subseteq Names
    BY <2>6, GateFacts
  <2>8. count + Len(gates[g].ins) - 1 \in Int
    BY <2>3, GateFacts DEF TypeOK
  <2>9. /\ count' = count + Len(gates[g].ins) - 1
        /\ flag' \in {flag, flag \cup {gates[rest[i]].out : i \in DOMAIN rest}}
        /\ nodes' \in {nodes, nodes \o rest}
        /\ temp' \in {<<>>, rest}
        /\ UNCHANGED <<phase, graphVars, mode, sim, todo, root, stack, leaves, chain, local,
                 tables>>
    BY <1>11 DEF CutStep
  <2> HIDE DEF g, rest
  <2>10. /\ flag' \subseteq Names /\ nodes' \in Seq(D) /\ temp' \in Seq(D) /\ count' \in Int
    <3>1. flag \subseteq Names
      BY DEF TypeOK
    <3> HIDE DEF D
    <3>2. <<>> \in Seq(D)
      OBVIOUS
    <3> QED BY <2>2, <2>5, <2>7, <2>8, <2>9, <3>1, <3>2
  <2> QED BY <1>0, <2>1, <2>9, <2>10 DEF TypeOK
<1>12. CASE Order
  <2>1. Patterns' = Patterns /\ gates' = gates
    BY <1>3, <1>12 DEF Run, NeedNodes
  <2> QED BY <1>0, <1>12, <2>1 DEF TypeOK, Order
<1>13. CASE Simulate
  <2>1. Patterns' = Patterns /\ gates' = gates
    BY <1>3, <1>13 DEF Run, SingleNodeSim
  <2>2. root' \in DOMAIN gates /\ root' = First(todo)
    BY <1>13, FirstType DEF Simulate
  <2>3. stack' \in Seq(Names)
    <3>1. stack' = gates[root'].ins
      BY <1>13 DEF Simulate
    <3>2. \A g \in DOMAIN gates : gates[g].ins \in Seq(Names)
      BY GateFacts
    <3> QED BY <2>2, <3>1, <3>2
  <2>4. chain' \in Seq(DOMAIN gates)
    BY <1>13, <2>2 DEF Simulate
  <2> QED BY <1>0, <1>13, <2>1, <2>2, <2>3, <2>4 DEF TypeOK, Simulate
<1>14. CASE TakeLeaf
  <2>1. Patterns' = Patterns /\ gates' = gates
    BY <1>3, <1>14 DEF Run, SingleNodeSim
  <2>2. Head(stack) \in Names /\ Tail(stack) \in Seq(Names) /\ leaves \in Seq(Names)
    BY <1>14, TailFacts DEF TypeOK, TakeLeaf
  <2>3. leaves' \in Seq(Names) /\ stack' \in Seq(Names)
    BY <1>14, <2>2, EnsureFacts DEF TakeLeaf
  <2> QED BY <1>0, <1>14, <2>1, <2>3 DEF TypeOK, TakeLeaf
<1>15. CASE TakeGate
  <2> DEFINE l == Head(stack)
             g == source[l]
  <2>1. Patterns' = Patterns /\ gates' = gates
    BY <1>3, <1>15 DEF Run, SingleNodeSim
  <2>2. l \in SetOf(stack) /\ l \notin flag /\ phase = "simulate" /\ Tail(stack) \in Seq(Names)
    <3>1. stack # <<>> /\ stack \in Seq(Names)
      BY <1>15 DEF TypeOK, TakeGate
    <3>2. stack[1] \in SetOf(stack) /\ Head(stack) = stack[1]
      BY <3>1 DEF SetOf
    <3> QED BY <1>15, <3>1, <3>2, TailFacts DEF TakeGate
  <2>3. g \in DOMAIN gates
    BY <2>2 DEF TreeInv, FlagInv, IsInput
  <2>4. gates[g].ins \in Seq(Names)
    BY <2>3, GateFacts
  <2>5. stack' = gates[g].ins \o Tail(stack) /\ chain' = Append(chain, g)
    BY <1>15 DEF TakeGate
  <2>6. stack' \in Seq(Names) /\ chain' \in Seq(DOMAIN gates)
    <3> HIDE DEF g
    <3> QED BY <2>2, <2>3, <2>4, <2>5 DEF TypeOK
  <2> QED BY <1>0, <1>15, <2>1, <2>6 DEF TypeOK, TakeGate
<1>16. CASE MultiplyOut
  <2> DEFINE g == chain[Len(chain)]
  <2>1. Patterns' = Patterns /\ gates' = gates
    BY <1>3, <1>16 DEF Run, SingleNodeSim
  <2>2. chain \in Seq(DOMAIN gates) /\ Len(chain) > 1 /\ Len(chain) \in Nat
    BY <1>16 DEF TypeOK, MultiplyOut
  <2>3. g \in DOMAIN gates /\ chain' \in Seq(DOMAIN gates)
    <3>1. g \in DOMAIN gates /\ SubSeq(chain, 1, Len(chain) - 1) \in Seq(DOMAIN gates)
      BY <2>2
    <3> QED BY <1>16, <3>1 DEF MultiplyOut
  <2>4. local' = [h \in DOMAIN local \cup {g} |-> IF h = g THEN Output(g) ELSE local[h]]
    BY <1>16 DEF MultiplyOut
  <2> HIDE DEF g
  <2>5. DOMAIN local' \subseteq DOMAIN gates /\ \A h \in DOMAIN local' : local'[h] \in [Patterns -> 0 .. 1]
    BY <2>3, <2>4, OutputType DEF TypeOK
  <2> QED BY <1>0, <1>16, <2>1, <2>3, <2>5 DEF TypeOK, MultiplyOut
<1>17. CASE SetSimInfo
  <2>1. Patterns' = Patterns /\ gates' = gates
    BY <1>3, <1>17 DEF Run, SingleNodeSim
  <2>2. root \in DOMAIN gates
    BY <1>17 DEF TypeOK, SetSimInfo
  <2>3. gates[root].out \in Names
    BY <2>2, GateFacts
  <2>4. sim' = [sim EXCEPT ![gates[root].out] = Output(root)] /\ Output(root) \in [Patterns -> 0 .. 1]
    BY <1>17, OutputType DEF SetSimInfo
  <2>5. sim' \in [Names -> {NotSimulated} \cup [Patterns -> 0 .. 1]]
    BY <2>4 DEF TypeOK
  <2>6. chain' \in Seq(DOMAIN gates)
    BY <1>17 DEF SetSimInfo
  <2> QED BY <1>0, <1>17, <2>1, <2>3, <2>5, <2>6 DEF TypeOK, SetSimInfo
<1>18. CASE Report
  <2>1. Patterns' = Patterns /\ gates' = gates
    BY <1>3, <1>18 DEF Run
  <2> QED BY <1>0, <1>18, <2>1 DEF TypeOK, Report
<1>19. CASE Stopped
  BY <1>2, <1>19 DEF Stopped, vars, graphVars, simVars
<1>20. ASSUME NEW l \in Names, CallNothing(l) \/ Call(l), UNCHANGED simVars PROVE TypeOK'
  BY <1>2, <1>20 DEF CallNothing, Call, graphVars
<1>21. ASSUME NEW g \in DOMAIN gates, ReturnFrom(g), UNCHANGED simVars PROVE TypeOK'
  BY <1>2, <1>21 DEF ReturnFrom
<1> QED
  BY <1>1, <1>5, <1>6, <1>7, <1>8, <1>9, <1>10, <1>11, <1>12, <1>13, <1>14, <1>15, <1>16, <1>17,
     <1>18, <1>19, <1>20, <1>21
  DEF Next, Step, Stimuli, NoSuchBit, NeedNodes, NoDepth, SingleNodeSim, ShortTable

-----------------------------------------------------------------------------
(***************************************************************************)
(* The graph                                                               *)
(***************************************************************************)
(* The steps that change the graph.                                        *)
LEMMA GraphSteps ==
  ASSUME Next
  PROVE  \/ AddInput \/ AddOutput \/ AddGate \/ SkipLine
         \/ UNCHANGED <<file, at, lines, inputs, outputs, gates, source>>
BY RunKeepsGraph
DEF Next, Step, Parse, Parsed, Run, CallNothing, Call, ReturnFrom, Stopped, vars, graphVars

(* The steps that change the gates, their levels or the gates called.      *)
LEMMA LevelSteps ==
  ASSUME Next
  PROVE  \/ AddInput \/ AddOutput \/ AddGate \/ SkipLine
         \/ (\E l \in Names : Call(l)) \/ (\E g \in DOMAIN gates : ReturnFrom(g))
         \/ UNCHANGED graphVars
BY RunKeepsGraph
DEF Next, Step, Parse, Parsed, Run, CallNothing, Stopped, vars

(* How the phases follow each other.                                       *)
LEMMA PhaseSteps ==
  ASSUME TypeOK, Next
  PROVE  /\ phase' = "parse" => phase = "parse"
         /\ phase' = "stimuli" => phase \in {"parse", "stimuli"}
         /\ phase' = "depth" => phase \in {"stimuli", "depth"}
         /\ phase' = "mark" => phase = "mark" \/ StartMarking
         /\ phase' = "simulate" => phase = "simulate" \/ Order
         /\ phase' = "done" => phase = "done" \/ Report
<1> USE DEF Reading, OutOfBounds
<1>1. CASE Parse
  BY <1>1 DEF Parse, AddInput, AddOutput, AddGate, SkipLine, Parsed
<1>2. CASE Stimuli
  BY <1>2 DEF Stimuli, RandomStimuli, FullStimuli, NoSuchBit
<1>3. CASE NeedNodes
  BY <1>3 DEF NeedNodes, StartMarking, Mark, CutNext, CutStep, Order, NoDepth, GroupByLevel
<1>4. CASE SingleNodeSim
  BY <1>4 DEF SingleNodeSim, Simulate, TakeLeaf, TakeGate, MultiplyOut, SetSimInfo
<1>5. CASE Report \/ ShortTable
  BY <1>5 DEF Report, ShortTable
<1>6. ASSUME NEW l \in Names, CallNothing(l) \/ Call(l)
      PROVE  phase = "depth" /\ phase' \in {"depth", "outOfBounds"}
  BY <1>6 DEF CallNothing, Call
<1>7. ASSUME NEW g \in DOMAIN gates, ReturnFrom(g) PROVE phase = "depth" /\ phase' = "depth"
  BY <1>7 DEF ReturnFrom
<1>8. CASE Stopped
  BY <1>8 DEF Stopped, vars
<1> QED BY <1>1, <1>2, <1>3, <1>4, <1>5, <1>6, <1>7, <1>8 DEF Next, Step

(* A line is driven by the gate its source names.                          *)
LEMMA SourceStep ==
  ASSUME TypeOK, SourceInv, Next
  PROVE  SourceInv'
<1>1. CASE AddGate
  <2> DEFINE n == Len(gates)
             s == file[at]
  <2>1. /\ n \in Nat /\ DOMAIN gates' = 1 .. n + 1 /\ DOMAIN gates = 1 .. n
        /\ \A g \in 1 .. n : gates'[g] = gates[g]
        /\ gates'[n + 1] = GateOf(s)
        /\ source' = [source EXCEPT ![s.name] = n + 1]
    BY <1>1, AddGateFacts
  <2>2. gates'[n + 1].out = s.name /\ s.name \in Names
    BY <1>1, <2>1, ReadFacts DEF GateOf, AddGate
  <2>3. source \in [Names -> {NULL_INDEX} \cup 1 .. n] /\ \A g \in 1 .. n : gates[g].out \in Names
    BY <2>1, GateFacts DEF TypeOK, GraphTypeOK
  <2>4. /\ \A l \in Names : source[l] # NULL_INDEX => gates[source[l]].out = l
        /\ \A g \in 1 .. n : source[gates[g].out] # NULL_INDEX
    BY <2>1 DEF SourceInv
  <2> HIDE DEF n, s
  <2>5. ASSUME NEW l \in Names, source'[l] # NULL_INDEX PROVE gates'[source'[l]].out = l
    <3>1. CASE l = s.name
      BY <2>1, <2>2, <2>3, <3>1
    <3>2. CASE l # s.name
      <4>1. source'[l] = source[l] /\ source[l] \in 1 .. n
        BY <2>1, <2>3, <2>5, <3>2
      <4> QED BY <2>1, <2>4, <2>5, <4>1
    <3> QED BY <3>1, <3>2
  <2>6. ASSUME NEW g \in 1 .. n + 1 PROVE source'[gates'[g].out] # NULL_INDEX
    <3>1. n + 1 # NULL_INDEX
      BY <2>1 DEF NULL_INDEX
    <3>2. CASE g = n + 1
      BY <2>1, <2>2, <2>3, <3>1, <3>2
    <3>3. CASE g \in 1 .. n
      BY <2>1, <2>3, <2>4, <3>1, <3>3
    <3> QED BY <2>1, <3>2, <3>3
  <2> QED BY <2>1, <2>5, <2>6 DEF SourceInv
<1>2. CASE UNCHANGED <<source, gates>>
  BY <1>2 DEF SourceInv
<1> QED BY <1>1, <1>2, GraphSteps DEF AddInput, AddOutput, SkipLine

(* A gate with a level lies above its drivers.                             *)
LEMMA LevelStep ==
  ASSUME TypeOK, LevelInv, Next
  PROVE  LevelInv'
<1>1. ASSUME AddInput \/ AddOutput \/ AddGate \/ SkipLine PROVE LevelInv'
  <2>1. phase = "parse" /\ phase' = "parse"
    BY <1>1 DEF AddInput, AddOutput, AddGate, SkipLine, Reading
  <2>2. \A g \in DOMAIN gates' : level'[g] = NO_LEVEL
    <3>1. \A g \in DOMAIN gates : level[g] = NO_LEVEL
      BY <2>1 DEF LevelInv, Unlevelled
    <3>2. CASE AddGate
      BY <3>1, <3>2, AddGateFacts
    <3>3. CASE UNCHANGED <<gates, level>>
      BY <3>1, <3>3
    <3> QED BY <1>1, <3>2, <3>3 DEF AddInput, AddOutput, SkipLine
  <2> QED BY <2>1, <2>2 DEF LevelInv, LevelsAboveDrivers, Unlevelled
<1>2. ASSUME NEW l \in Names, Call(l) PROVE LevelInv'
  <2>1. /\ called \subseteq called' /\ phase = "depth" /\ phase' = "depth"
        /\ UNCHANGED <<level, gates, source, inputs>>
    BY <1>2 DEF Call
  <2>2. \A g : Drivers(g)' = Drivers(g)
    BY <2>1 DEF Drivers, IsInput
  <2> QED BY <2>1, <2>2 DEF LevelInv, LevelsAboveDrivers
<1>3. ASSUME NEW g \in DOMAIN gates, ReturnFrom(g) PROVE LevelInv'
  <2> DEFINE n == Len(gates)
             D == Drivers(g)
             h == Highest({level[d] : d \in Drivers(g)})
  <2>1. /\ phase = "depth" /\ phase' = "depth" /\ level[g] = NO_LEVEL
        /\ \A d \in D : d \in called /\ level[d] # NO_LEVEL
        /\ level' = [level EXCEPT ![g] = 1 + h]
        /\ UNCHANGED <<gates, source, inputs, called>>
    BY <1>3 DEF ReturnFrom, Unlevelled
  <2>2. \A x : Drivers(x)' = Drivers(x)
    BY <2>1 DEF Drivers, IsInput
  <2>3. /\ level \in Seq({NO_LEVEL} \cup Nat) /\ DOMAIN level = 1 .. n /\ n \in Nat
        /\ DOMAIN gates = 1 .. n /\ called \subseteq 1 .. n
    BY DEF TypeOK, GraphTypeOK
  <2>4. D \in SUBSET (1 .. n) /\ \A d \in D : level[d] \in Nat
    <3> HIDE DEF D, n
    <3>1. \A d \in 1 .. n : level[d] \in {NO_LEVEL} \cup Nat
      BY <2>3
    <3>2. \A d \in D : d \in 1 .. n /\ level[d] # NO_LEVEL
      BY <2>1, <2>3
    <3> QED BY <3>1, <3>2
  <2>5. h \in Nat \cup {-1} /\ \A d \in D : level[d] <= h
    <3> HIDE DEF D, n
    <3>1. /\ Highest({level[d] : d \in D}) \in Nat \cup {-1}
          /\ \A d \in D : level[d] <= Highest({level[d2] : d2 \in D})
      BY <2>3, <2>4, HighestFacts
    <3> QED BY <3>1 DEF D
  <2> HIDE DEF D, n, h
  <2>6. g \in 1 .. n /\ level'[g] = 1 + h /\ \A x \in 1 .. n : x # g => level'[x] = level[x]
    BY <2>1, <2>3
  <2>7. ASSUME NEW x \in 1 .. n, level'[x] # NO_LEVEL, NEW d \in Drivers(x)
        PROVE  d \in called /\ level'[d] # NO_LEVEL /\ level'[d] < level'[x]
    <3>1. CASE x = g
      <4>1. d \in D
        BY <2>7, <3>1 DEF D
      <4>2. d # g /\ d \in 1 .. n /\ d \in called
        BY <2>1, <2>4, <4>1
      <4>3. level'[d] = level[d] /\ level[d] \in Nat /\ level[d] <= h
        BY <2>4, <2>5, <2>6, <4>1, <4>2
      <4> QED BY <2>1, <2>5, <2>6, <3>1, <4>1, <4>2, <4>3
    <3>2. CASE x # g
      <4>1. level'[x] = level[x]
        BY <2>6, <3>2
      <4>2. d \in called /\ level[d] # NO_LEVEL /\ level[d] < level[x]
        BY <2>3, <2>7, <4>1 DEF LevelInv, LevelsAboveDrivers
      <4>3. d # g /\ d \in 1 .. n
        BY <2>1, <2>3, <4>2
      <4> QED BY <2>6, <4>1, <4>2, <4>3
    <3> QED BY <3>1, <3>2
  <2>8. LevelsAboveDrivers'
    <3> SUFFICES ASSUME NEW x \in DOMAIN gates', level'[x] # NO_LEVEL, NEW d \in Drivers(x)'
                 PROVE  d \in called' /\ level'[d] # NO_LEVEL /\ level'[d] < level'[x]
      BY DEF LevelsAboveDrivers
    <3>1. x \in 1 .. n /\ d \in Drivers(x) /\ called' = called
      BY <2>1, <2>2, <2>3
    <3> QED BY <2>7, <3>1
  <2> QED BY <2>1, <2>8 DEF LevelInv
<1>4. ASSUME UNCHANGED graphVars PROVE LevelInv'
  <2>1. \A x : Drivers(x)' = Drivers(x) /\ Unlevelled(x)' = Unlevelled(x)
    BY <1>4 DEF Drivers, IsInput, graphVars, Unlevelled
  <2>2. ASSUME StartMarking, phase' = "mark"
        PROVE  /\ \A g \in DOMAIN gates : ~Unlevelled(g)
               /\ \A o \in SetOf(outputs) : source[o] \in DOMAIN gates
    BY <2>2 DEF StartMarking, GroupByLevel, TypeOK, GraphTypeOK
  <2>3. /\ phase' = "parse" => phase = "parse"
        /\ phase' \in {"mark", "simulate", "done"} =>
             phase \in {"mark", "simulate", "done"} \/ (StartMarking /\ phase' = "mark")
    <3>1. (Order => phase = "mark") /\ (Report => phase = "simulate")
      BY DEF Order, Report
    <3>2. /\ phase' = "parse" => phase = "parse"
          /\ phase' = "mark" => phase = "mark" \/ StartMarking
          /\ phase' = "simulate" => phase = "simulate" \/ Order
          /\ phase' = "done" => phase = "done" \/ Report
      BY PhaseSteps
    <3> QED BY <3>1, <3>2
  <2>4. LevelsAboveDrivers'
    BY <1>4, <2>1 DEF LevelInv, LevelsAboveDrivers, graphVars
  <2>5. gates' = gates /\ outputs' = outputs /\ source' = source
    BY <1>4 DEF graphVars
  <2>6. ASSUME phase' \in {"mark", "simulate", "done"}
        PROVE  /\ \A g \in DOMAIN gates : ~Unlevelled(g)
               /\ \A o \in SetOf(outputs) : source[o] \in DOMAIN gates
    <3>1. CASE phase \in {"mark", "simulate", "done"}
      BY <3>1 DEF LevelInv
    <3>2. CASE StartMarking /\ phase' = "mark"
      BY <2>2, <3>2
    <3> QED BY <2>3, <2>6, <3>1, <3>2
  <2>7. level' = level
    BY <1>4 DEF graphVars
  <2>8. phase' = "parse" => \A g \in DOMAIN gates : level[g] = NO_LEVEL
    BY <2>3 DEF LevelInv, Unlevelled
  <2> QED BY <2>4, <2>5, <2>6, <2>7, <2>8 DEF LevelInv, Unlevelled
<1> QED BY <1>1, <1>2, <1>3, <1>4, LevelSteps

(* Nothing is simulated before its turn.                                   *)
LEMMA BlankStep ==
  ASSUME TypeOK, LevelInv, BlankInv, Next
  PROVE  BlankInv'
<1> USE DEF BlankInv
<1>1. ASSUME Parse, UNCHANGED simVars PROVE BlankInv'
  BY <1>1 DEF Parse, AddInput, AddOutput, AddGate, SkipLine, Parsed, Reading, simVars
<1>2. CASE RandomStimuli
  BY <1>2 DEF RandomStimuli
<1>3. CASE FullStimuli
  BY <1>3 DEF FullStimuli
<1>4. CASE OutOfBounds /\ (phase # "simulate" \/ root = NoGate)
  BY <1>4 DEF OutOfBounds, simVars
<1>5. CASE StartMarking
  BY <1>5 DEF StartMarking, GroupByLevel
<1>6. CASE Mark
  <2>1. phase = "mark" /\ UNCHANGED <<phase, root, stack, chain, leaves, local>>
    BY <1>6 DEF Mark
  <2> QED BY <2>1
<1>7. CASE CutNext \/ CutStep \/ Order
  BY <1>7 DEF CutNext, CutStep, Order
<1>8. CASE Simulate
  <2>1. root' # NoGate
    <3>1. First(todo) \in DOMAIN gates
      BY <1>8, FirstType DEF Simulate
    <3>2. First(todo) \in 1 .. Len(gates)
      BY <3>1 DEF TypeOK, GraphTypeOK
    <3>3. root' = First(todo)
      BY <1>8 DEF Simulate
    <3> QED BY <3>2, <3>3 DEF NoGate
  <2> QED BY <1>8, <2>1 DEF Simulate
<1>9. CASE TakeLeaf \/ TakeGate \/ MultiplyOut
  BY <1>9 DEF TakeLeaf, TakeGate, MultiplyOut
<1>10. CASE SetSimInfo
  BY <1>10 DEF SetSimInfo
<1>11. CASE Report
  BY <1>11 DEF Report
<1>12. CASE Stopped
  BY <1>12 DEF Stopped, vars, simVars
<1>13. ASSUME NEW l \in Names, CallNothing(l) \/ Call(l), UNCHANGED simVars PROVE BlankInv'
  BY <1>13 DEF CallNothing, Call, simVars
<1>14. ASSUME NEW g \in DOMAIN gates, ReturnFrom(g), UNCHANGED simVars PROVE BlankInv'
  BY <1>14 DEF ReturnFrom, simVars
<1> QED
  BY <1>1, <1>2, <1>3, <1>4, <1>5, <1>6, <1>7, <1>8, <1>9, <1>10, <1>11, <1>12, <1>13, <1>14
  DEF Next, Step, Stimuli, NoSuchBit, NeedNodes, NoDepth, SingleNodeSim, ShortTable

-----------------------------------------------------------------------------
(***************************************************************************)
(* Flags and values                                                        *)
(***************************************************************************)
(* What the steps do to the flags and to the values.                       *)
LEMMA FlagSteps ==
  ASSUME Next
  PROVE  \/ phase = "parse" /\ flag' = flag
         \/ Stimuli
         \/ StartMarking \/ Mark \/ CutStep \/ Order \/ Simulate \/ SetSimInfo
         \/ UNCHANGED <<gates, inputs, flag, sim, todo, root>>
<1>1. Run => UNCHANGED <<gates, inputs>>
  BY RunKeepsGraph DEF graphVars
<1>2. CutNext => UNCHANGED <<flag, sim, todo, root>>
  BY DEF CutNext
<1>3. NoDepth \/ ShortTable \/ Stopped => UNCHANGED <<gates, inputs, flag, sim, todo, root>>
  BY DEF NoDepth, ShortTable, OutOfBounds, Stopped, vars, graphVars, simVars
<1>4. TakeLeaf \/ TakeGate \/ MultiplyOut \/ Report => UNCHANGED <<flag, sim, todo, root>>
  BY DEF TakeLeaf, TakeGate, MultiplyOut, Report
<1>5. Parse /\ UNCHANGED simVars => phase = "parse" /\ flag' = flag
  BY DEF Parse, AddInput, AddOutput, AddGate, SkipLine, Parsed, Reading, simVars
<1>6. ASSUME NEW l \in Names, CallNothing(l) \/ Call(l), UNCHANGED simVars
      PROVE  UNCHANGED <<gates, inputs, flag, sim, todo, root>>
  BY <1>6 DEF CallNothing, Call, simVars, graphVars
<1>7. ASSUME NEW g \in DOMAIN gates, ReturnFrom(g), UNCHANGED simVars
      PROVE  UNCHANGED <<gates, inputs, flag, sim, todo, root>>
  BY <1>7 DEF ReturnFrom, simVars
<1> QED BY <1>1, <1>2, <1>3, <1>4, <1>5, <1>6, <1>7 DEF Next, Step, NeedNodes, SingleNodeSim, Run

(* Stimuli flags the inputs and gives them values.                         *)
LEMMA StimuliFacts ==
  ASSUME TypeOK, Stimuli, phase' # "outOfBounds"
  PROVE  /\ phase = "stimuli" /\ phase' = "depth" /\ flag' = SetOf(inputs)
         /\ UNCHANGED <<gates, inputs>>
         /\ \A l \in SetOf(inputs) : sim'[l] \in [Patterns -> 0 .. 1] \/ mode = "full"
         /\ \A l \in SetOf(inputs) : mode = "full" =>
              sim'[l] = [p \in Patterns |-> Bit(p - 1, Len(inputs) - IndexOf(l))]
         /\ \A l \in SetOf(inputs) : sim'[l] # NotSimulated
         /\ \A l \in Names : ~IsInput(l) => sim'[l] = sim[l]
<1>0. ~NoSuchBit
  BY DEF NoSuchBit, OutOfBounds
<1>1. SetOf(inputs) \subseteq Names
  BY DEF TypeOK, GraphTypeOK, SetOf
<1>2. /\ phase = "stimuli" /\ phase' = "depth" /\ flag' = SetOf(inputs)
      /\ UNCHANGED <<gates, inputs>>
  BY <1>0 DEF Stimuli, RandomStimuli, FullStimuli, graphVars
<1>3. CASE RandomStimuli
  <2>1. PICK bits \in [SetOf(inputs) -> [Patterns -> 0 .. 1]] :
          sim' = [l \in Names |-> IF IsInput(l) THEN bits[l] ELSE sim[l]]
    BY <1>3 DEF RandomStimuli
  <2>2. \A l \in SetOf(inputs) : sim'[l] \in [Patterns -> 0 .. 1]
    BY <1>1, <2>1 DEF IsInput
  <2>3. \A l \in Names : ~IsInput(l) => sim'[l] = sim[l]
    BY <2>1
  <2>4. mode # "full"
    BY <1>3 DEF RandomStimuli
  <2> QED BY <1>2, <2>2, <2>3, <2>4, PatternsFacts
<1>4. CASE FullStimuli
  <2>1. sim' = [l \in Names |->
               IF IsInput(l)
               THEN [p \in Patterns |-> Bit(p - 1, Len(inputs) - IndexOf(l))]
               ELSE sim[l]]
    BY <1>4 DEF FullStimuli
  <2>2. \A l \in SetOf(inputs) :
          sim'[l] = [p \in Patterns |-> Bit(p - 1, Len(inputs) - IndexOf(l))]
    BY <1>1, <2>1 DEF IsInput
  <2>3. \A l \in SetOf(inputs) : sim'[l] # NotSimulated
    <3> SUFFICES ASSUME NEW l \in SetOf(inputs) PROVE sim'[l] # NotSimulated
      OBVIOUS
    <3>1. DOMAIN sim'[l] = Patterns
      BY <2>2
    <3>2. DOMAIN NotSimulated = {} /\ Patterns # {}
      BY PatternsFacts DEF NotSimulated
    <3> QED BY <3>1, <3>2
  <2>4. \A l \in Names : ~IsInput(l) => sim'[l] = sim[l]
    BY <2>1
  <2>5. mode = "full"
    BY <1>4 DEF FullStimuli
  <2> QED BY <1>2, <2>2, <2>3, <2>4, <2>5
<1> QED BY <1>0, <1>3, <1>4 DEF Stimuli

(* What cut_tree flags are lines gates drive.                              *)
LEMMA CutStepFacts ==
  ASSUME TypeOK, LevelInv, FlagInv, CutStep
  PROVE  /\ flag \subseteq flag' /\ phase' = phase /\ phase = "mark"
         /\ UNCHANGED <<gates, inputs, sim, todo, root>>
         /\ \A l \in flag' : l \in flag \/ \E g \in DOMAIN gates : l = gates[g].out
<1> DEFINE g == Head(temp)
           rest == Tail(temp) \o UnflaggedDrivers(g)
           D == DOMAIN gates
<1>1. temp # <<>> /\ phase = "mark" /\ temp \in Seq(D)
  BY DEF CutStep, TypeOK
<1>2. g \in D /\ Tail(temp) \in Seq(D)
  BY <1>1, TailFacts
<1>3. UnflaggedDrivers(g) \in Seq(D)
  BY <1>1, <1>2, UnflaggedType
<1>4. rest \in Seq(D)
  <2> HIDE DEF g, D
  <2> QED BY <1>2, <1>3
<1>5. \A i \in DOMAIN rest : rest[i] \in D
  <2> HIDE DEF D, rest
  <2> QED BY <1>4
<1>6. /\ flag' \in {flag, flag \cup {gates[rest[i]].out : i \in DOMAIN rest}}
      /\ UNCHANGED <<phase, graphVars, sim, todo, root>>
  BY DEF CutStep
<1> HIDE DEF rest, g
<1> QED BY <1>1, <1>5, <1>6 DEF graphVars

(* What the loop over the levels flags.                                    *)
LEMMA MarkFacts ==
  ASSUME TypeOK, LevelInv, Mark
  PROVE  /\ First(todo) \in DOMAIN gates /\ First(todo) \in todo
         /\ todo' = todo \ {First(todo)}
         /\ IF MustSimulate(First(todo)) THEN flag' = flag \cup {gates[First(todo)].out}
                                         ELSE flag' = flag
         /\ UNCHANGED <<phase, graphVars, gates, inputs, outputs, sim, root, chain>>
         /\ phase = "mark"
<1>1. First(todo) \in DOMAIN gates /\ First(todo) \in todo
  BY FirstType DEF Mark
<1>2. phase = "mark" /\ UNCHANGED <<phase, graphVars, sim, root, chain>>
  BY DEF Mark
<1>3. todo' = todo \ {First(todo)}
  BY DEF Mark
<1>4. IF MustSimulate(First(todo)) THEN flag' = flag \cup {gates[First(todo)].out}
                                   ELSE flag' = flag
  BY DEF Mark
<1> QED BY <1>1, <1>2, <1>3, <1>4 DEF graphVars

(* Every line flagged has or gets its value.                               *)
LEMMA FlagStep ==
  ASSUME TypeOK, LevelInv, BlankInv, FlagInv, Next
  PROVE  FlagInv'
<1>0. NoGate \notin DOMAIN gates
  BY DEF TypeOK, GraphTypeOK, NoGate
<1>1. ASSUME phase = "parse", flag' = flag PROVE FlagInv'
  <2>1. flag' = {}
    BY <1>1 DEF BlankInv
  <2>2. phase' \notin {"depth", "mark", "simulate", "done"}
    BY <1>1, PhaseSteps DEF StartMarking, GroupByLevel, Order, Report
  <2> QED BY <2>1, <2>2 DEF FlagInv
<1>2. ASSUME Stimuli PROVE FlagInv'
  <2>1. CASE phase' = "outOfBounds"
    <3>1. NoSuchBit
      BY <1>2, <2>1 DEF Stimuli, RandomStimuli, FullStimuli
    <3> QED BY <2>1, <3>1 DEF NoSuchBit, OutOfBounds, FlagInv, graphVars, simVars
  <2>2. CASE phase' # "outOfBounds"
    <3>1. /\ phase' = "depth" /\ flag' = SetOf(inputs) /\ inputs' = inputs
          /\ \A l \in SetOf(inputs) : sim'[l] # NotSimulated
      BY <1>2, <2>2, StimuliFacts
    <3> QED BY <3>1 DEF FlagInv
  <2> QED BY <2>1, <2>2
<1>3. ASSUME StartMarking PROVE FlagInv'
  <2>1. phase = "depth" /\ phase' \in {"mark", "outOfBounds"} /\ UNCHANGED <<gates, inputs, flag, sim>>
    BY <1>3 DEF StartMarking, GroupByLevel, graphVars
  <2> QED BY <2>1 DEF FlagInv
<1>4. ASSUME Mark \/ CutStep PROVE FlagInv'
  <2>1. /\ phase = "mark" /\ phase' = "mark" /\ flag \subseteq flag'
        /\ UNCHANGED <<gates, inputs, sim>>
        /\ \A l \in flag' : l \in flag \/ \E g \in DOMAIN gates : l = gates[g].out
    <3>1. CASE Mark
      <4> DEFINE g == First(todo)
      <4>1. /\ g \in DOMAIN gates /\ UNCHANGED <<phase, gates, inputs, sim>> /\ phase = "mark"
            /\ IF MustSimulate(g) THEN flag' = flag \cup {gates[g].out} ELSE flag' = flag
        BY <3>1, MarkFacts
      <4> HIDE DEF g
      <4> QED BY <4>1
    <3>2. CASE CutStep
      BY <3>2, CutStepFacts
    <3> QED BY <1>4, <3>1, <3>2
  <2>2. flag' \subseteq SetOf(inputs) \cup {gates[g].out : g \in DOMAIN gates}
    BY <2>1 DEF FlagInv
  <2> QED BY <2>1, <2>2 DEF FlagInv
<1>5. ASSUME Order PROVE FlagInv'
  <2>1. /\ phase = "mark" /\ phase' = "simulate" /\ UNCHANGED <<gates, inputs, flag, sim, root>>
        /\ todo' = {g \in DOMAIN gates : gates[g].out \in flag}
    BY <1>5 DEF Order, graphVars
  <2>2. root = NoGate
    BY <2>1 DEF BlankInv
  <2> QED BY <2>1, <2>2 DEF FlagInv, Pending
<1>6. ASSUME Simulate PROVE FlagInv'
  <2>1. /\ phase = "simulate" /\ phase' = "simulate" /\ root = NoGate
        /\ UNCHANGED <<gates, inputs, flag, sim>>
        /\ root' = First(todo) /\ todo' = todo \ {root'} /\ todo # {}
    BY <1>6 DEF Simulate, graphVars
  <2>2. root' \in todo /\ root' \in DOMAIN gates
    BY <2>1, FirstType
  <2>3. Pending' = todo
    BY <2>1, <2>2 DEF Pending
  <2>4. Pending \ {NoGate} = todo \ {NoGate}
    BY <2>1 DEF Pending
  <2>5. DOMAIN gates \ Pending' = DOMAIN gates \ Pending
    BY <1>0, <2>1, <2>3 DEF Pending
  <2> QED BY <2>1, <2>3, <2>4, <2>5 DEF FlagInv
<1>7. ASSUME SetSimInfo PROVE FlagInv'
  <2> DEFINE o == gates[root].out
             v == Output(root)
  <2>1. /\ phase = "simulate" /\ phase' = "simulate" /\ root # NoGate /\ root' = NoGate
        /\ UNCHANGED <<gates, inputs, todo>>
        /\ flag' = flag \cup {o} /\ sim' = [sim EXCEPT ![o] = v]
    BY <1>7 DEF SetSimInfo, graphVars
  <2>2. root \in DOMAIN gates
    BY <2>1 DEF TypeOK
  <2>3. o \in Names /\ v # NotSimulated
    BY <2>2, GateFacts, OutputType, PatternsFacts
  <2>4. /\ flag \subseteq SetOf(inputs) \cup {gates[g].out : g \in DOMAIN gates}
        /\ \A l \in SetOf(inputs) : l \in flag /\ sim[l] # NotSimulated
        /\ \A g \in Pending \ {NoGate} : gates[g].out \in flag
        /\ \A g \in DOMAIN gates \ Pending :
             gates[g].out \in flag => sim[gates[g].out] # NotSimulated
    BY <2>1 DEF FlagInv
  <2>5. root \in Pending \ {NoGate}
    BY <2>1 DEF Pending
  <2> HIDE DEF v
  <2>6. o \in flag /\ flag' = flag
    BY <2>1, <2>4, <2>5
  <2>7. \A l \in Names : sim'[l] = IF l = o THEN v ELSE sim[l]
    BY <2>1, <2>3 DEF TypeOK
  <2>8. SetOf(inputs) \subseteq Names /\ \A g \in DOMAIN gates : gates[g].out \in Names
    <3>1. SetOf(inputs) \subseteq Names
      BY DEF TypeOK, GraphTypeOK, SetOf
    <3>2. \A g \in DOMAIN gates : gates[g].out \in Names
      BY GateFacts
    <3> QED BY <3>1, <3>2
  <2>9. \A l \in Names : sim[l] # NotSimulated => sim'[l] # NotSimulated
    BY <2>3, <2>7
  <2>10. Pending' \ {NoGate} \subseteq Pending \ {NoGate}
    BY <2>1 DEF Pending
  <2>11. \A g \in DOMAIN gates \ Pending' :
           gates[g].out \in flag => sim'[gates[g].out] # NotSimulated
    <3> SUFFICES ASSUME NEW g \in DOMAIN gates \ Pending', gates[g].out \in flag
                 PROVE  sim'[gates[g].out] # NotSimulated
      OBVIOUS
    <3>1. CASE g = root
      BY <2>3, <2>7, <3>1
    <3>2. CASE g # root
      <4>1. g \in DOMAIN gates \ Pending
        BY <2>1, <3>2 DEF Pending
      <4> QED BY <2>4, <2>8, <2>9, <4>1
    <3> QED BY <3>1, <3>2
  <2> HIDE DEF o
  <2> QED BY <2>1, <2>4, <2>6, <2>8, <2>9, <2>10, <2>11 DEF FlagInv
<1>8. ASSUME UNCHANGED <<gates, inputs, flag, sim, todo, root>> PROVE FlagInv'
  <2>1. Pending' = Pending
    BY <1>8 DEF Pending
  <2>2. (Stimuli => FlagInv') /\ (StartMarking => FlagInv') /\ (Order => FlagInv')
    BY <1>2, <1>3, <1>5
  <2>3. phase' \in {"depth", "mark", "simulate", "done"} =>
          phase \in {"depth", "mark", "simulate", "done"} \/ Stimuli
    <3>1. phase' = "depth" /\ phase = "stimuli" => Stimuli
      BY PhaseSteps
      DEF Next, Step, Parse, AddInput, AddOutput, AddGate, SkipLine, Parsed, Reading, CallNothing,
          Call, ReturnFrom, NeedNodes, StartMarking, GroupByLevel, Mark, CutNext, CutStep, Order,
          NoDepth, SingleNodeSim, Simulate, TakeLeaf, TakeGate, MultiplyOut, SetSimInfo, Report,
          ShortTable, OutOfBounds, Stopped
    <3>2. (StartMarking => phase = "depth") /\ (Order => phase = "mark") /\ (Report => phase = "simulate")
      BY DEF StartMarking, GroupByLevel, Order, Report
    <3> QED BY <3>1, <3>2, PhaseSteps
  <2>4. phase' = "simulate" => phase = "simulate" \/ Order
    BY PhaseSteps
  <2> QED BY <1>8, <2>1, <2>2, <2>3, <2>4 DEF FlagInv
<1> QED BY <1>1, <1>2, <1>3, <1>4, <1>5, <1>6, <1>7, <1>8, FlagSteps

-----------------------------------------------------------------------------
(***************************************************************************)
(* The trees                                                               *)
(***************************************************************************)
(* What the steps do to the tree that is multiplied out.                   *)
LEMMA TreeSteps ==
  ASSUME Next
  PROVE  \/ phase' # "simulate"
         \/ Order \/ Simulate \/ TakeLeaf \/ TakeGate \/ MultiplyOut \/ SetSimInfo
         \/ phase = "simulate" /\ UNCHANGED <<graphVars, simVars>>
<1>1. Parse => phase' # "simulate"
  BY DEF Parse, AddInput, AddOutput, AddGate, SkipLine, Parsed, Reading
<1>2. Stimuli => phase' # "simulate"
  BY DEF Stimuli, RandomStimuli, FullStimuli, NoSuchBit, OutOfBounds
<1>3. StartMarking \/ Mark \/ CutNext \/ CutStep \/ NoDepth => phase' # "simulate"
  BY DEF StartMarking, GroupByLevel, Mark, CutNext, CutStep, NoDepth, OutOfBounds
<1>4. Report \/ ShortTable => phase' # "simulate"
  BY DEF Report, ShortTable, OutOfBounds
<1>5. ASSUME NEW l \in Names, CallNothing(l) \/ Call(l) PROVE phase' # "simulate"
  BY <1>5 DEF CallNothing, Call
<1>6. ASSUME NEW g \in DOMAIN gates, ReturnFrom(g) PROVE phase' # "simulate"
  BY <1>6 DEF ReturnFrom
<1>7. Stopped => phase' # "simulate"
  BY DEF Stopped, vars
<1> QED BY <1>1, <1>2, <1>3, <1>4, <1>5, <1>6, <1>7 DEF Next, Step, NeedNodes, SingleNodeSim

(* The line met next.                                                      *)
LEMMA StackFacts ==
  ASSUME TypeOK, stack # <<>>
  PROVE  /\ Head(stack) \in SetOf(stack) /\ Head(stack) \in Names
         /\ Tail(stack) \in Seq(Names)
         /\ \A l : l \in SetOf(stack) <=> l = Head(stack) \/ l \in SetOf(Tail(stack))
<1>1. stack \in Seq(Names) /\ Len(stack) \in Nat /\ DOMAIN stack = 1 .. Len(stack)
  BY DEF TypeOK
<1>2. /\ Head(stack) = stack[1] /\ Head(stack) \in Names /\ Tail(stack) \in Seq(Names)
      /\ DOMAIN Tail(stack) = 1 .. Len(stack) - 1
      /\ \A i \in 1 .. Len(stack) - 1 : Tail(stack)[i] = stack[i + 1]
  BY <1>1, TailFacts
<1>3. 1 \in DOMAIN stack
  BY <1>1
<1>4. \A i \in DOMAIN stack : i = 1 \/ (i - 1 \in 1 .. Len(stack) - 1 /\ (i - 1) + 1 = i)
  BY <1>1
<1>5. \A i \in 1 .. Len(stack) - 1 : i + 1 \in DOMAIN stack
  BY <1>1
<1> DEFINE t == Tail(stack)
           h == Head(stack)
<1> HIDE DEF t, h
<1>6. \A l : l \in SetOf(stack) <=> l = h \/ l \in SetOf(t)
  <2>1. ASSUME NEW l, l \in SetOf(stack) PROVE l = h \/ l \in SetOf(t)
    <3>1. PICK i \in DOMAIN stack : l = stack[i]
      BY <2>1 DEF SetOf
    <3>2. CASE i = 1
      BY <1>2, <3>1, <3>2 DEF h
    <3>3. CASE i # 1
      <4>1. t[i - 1] = l /\ i - 1 \in DOMAIN t
        BY <1>2, <1>4, <3>1, <3>3 DEF t
      <4> QED BY <4>1 DEF SetOf
    <3> QED BY <3>2, <3>3
  <2>2. ASSUME NEW l, l = h \/ l \in SetOf(t) PROVE l \in SetOf(stack)
    <3>1. CASE l = h
      BY <1>2, <1>3, <3>1 DEF SetOf, h
    <3>2. CASE l \in SetOf(t)
      <4>1. PICK i \in DOMAIN t : l = t[i]
        BY <3>2 DEF SetOf
      <4>2. i \in 1 .. Len(stack) - 1
        BY <1>2 DEF t
      <4>3. l = stack[i + 1] /\ i + 1 \in DOMAIN stack
        BY <1>2, <1>5, <4>1, <4>2 DEF t
      <4> QED BY <4>3 DEF SetOf
    <3> QED BY <2>2, <3>1, <3>2
  <2> QED BY <2>1, <2>2
<1> QED BY <1>2, <1>3, <1>6 DEF SetOf, t, h

(* The elements of two sequences, one after the other.                     *)
LEMMA JoinFacts ==
  ASSUME NEW X, NEW s \in Seq(X), NEW t \in Seq(X)
  PROVE  /\ s \o t \in Seq(X) /\ Len(s \o t) = Len(s) + Len(t)
         /\ SetOf(s \o t) = SetOf(s) \cup SetOf(t)
<1> DEFINE w == s \o t
<1>1. /\ w \in Seq(X) /\ Len(w) = Len(s) + Len(t)
      /\ \A i \in 1 .. Len(s) + Len(t) :
           w[i] = IF i <= Len(s) THEN s[i] ELSE t[i - Len(s)]
      /\ Len(s) \in Nat /\ Len(t) \in Nat
      /\ DOMAIN w = 1 .. Len(s) + Len(t) /\ DOMAIN s = 1 .. Len(s) /\ DOMAIN t = 1 .. Len(t)
  OBVIOUS
<1> HIDE DEF w
<1>2. \A i \in DOMAIN s : i \in DOMAIN w /\ w[i] = s[i]
  BY <1>1
<1>3. \A i \in DOMAIN t : Len(s) + i \in DOMAIN w /\ w[Len(s) + i] = t[i]
  BY <1>1
<1>4. \A i \in DOMAIN w : \/ i \in DOMAIN s /\ w[i] = s[i]
                          \/ i - Len(s) \in DOMAIN t /\ w[i] = t[i - Len(s)]
  BY <1>1
<1>5. SetOf(w) = SetOf(s) \cup SetOf(t)
  BY <1>2, <1>3, <1>4 DEF SetOf
<1> QED BY <1>1, <1>5 DEF w

(* A line of the tree that is flagged has its value: the gate that drives  *)
(* it lies below the root, so its turn has been.                           *)
LEMMA LeafHasValue ==
  ASSUME TypeOK, SourceInv, LevelInv, FlagInv, TreeInv, BlankInv, phase = "simulate",
         NEW l \in SetOf(stack), l \in flag, l \in Names
  PROVE  sim[l] # NotSimulated
<1>1. CASE IsInput(l)
  BY <1>1 DEF FlagInv, IsInput
<1>2. CASE ~IsInput(l)
  <2> DEFINE d == source[l]
  <2>1. d \in DOMAIN gates /\ level[d] < level[root]
    BY <1>2 DEF TreeInv
  <2>2. root # NoGate
    <3> SUFFICES ASSUME root = NoGate PROVE FALSE
      OBVIOUS
    <3>1. SetOf(stack) = {}
      BY DEF BlankInv, SetOf
    <3> QED BY <3>1
  <2>3. \A g \in todo : level[g] >= level[root]
    BY <2>2 DEF TreeInv
  <2>4. root \in DOMAIN gates
    BY <2>2 DEF TypeOK
  <2>5. \A g \in DOMAIN gates : level[g] \in Nat
    BY GateFacts DEF LevelInv, Unlevelled
  <2>6. d \notin Pending
    <3>1. todo \subseteq DOMAIN gates
      BY DEF TypeOK
    <3>2. d # root
      BY <2>1, <2>4, <2>5
    <3>3. d \notin todo
      BY <2>1, <2>3, <2>4, <2>5
    <3> QED BY <3>2, <3>3 DEF Pending
  <2>7. d # NULL_INDEX
    BY <2>1 DEF TypeOK, GraphTypeOK, NULL_INDEX
  <2>8. gates[d].out = l
    BY <2>7 DEF SourceInv
  <2> QED BY <2>1, <2>6, <2>8 DEF FlagInv
<1> QED BY <1>1, <1>2

(* The lines a gate of the chain reads are there when it is multiplied out.*)
LEMMA TreeStep ==
  ASSUME TypeOK, SourceInv, LevelInv, BlankInv, FlagInv, TreeInv, Next
  PROVE  TreeInv'
<1>1. ASSUME phase' # "simulate" PROVE TreeInv'
  BY <1>1 DEF TreeInv
<1>2. ASSUME Order PROVE TreeInv'
  <2>1. phase = "mark" /\ UNCHANGED <<root, stack, chain, leaves>>
    BY <1>2 DEF Order
  <2>2. root' = NoGate /\ stack' = <<>> /\ chain' = <<>> /\ leaves' = <<>>
    BY <2>1 DEF BlankInv
  <2> QED BY <2>2 DEF TreeInv, SetOf
<1>3. ASSUME Simulate PROVE TreeInv'
  <2> DEFINE g == First(todo)
  <2>1. /\ phase = "simulate" /\ todo # {} /\ root' = g /\ todo' = todo \ {g}
        /\ stack' = gates[g].ins /\ chain' = <<g>> /\ leaves' = <<>>
        /\ UNCHANGED <<gates, inputs, source, level, flag, sim>>
    BY <1>3 DEF Simulate, graphVars
  <2>2. /\ g \in todo /\ g \in DOMAIN gates
        /\ \A h \in todo : level[g] <= level[h]
    BY <2>1, FirstType
  <2> HIDE DEF g
  <2>3. \A h \in DOMAIN gates : level[h] \in Nat /\ level[h] # NO_LEVEL
    BY <2>1, GateFacts DEF LevelInv, Unlevelled
  <2>4. todo \subseteq DOMAIN gates
    BY DEF TypeOK
  <2>5. \A h \in todo' : level'[h] >= level'[root']
    BY <2>1, <2>2, <2>3, <2>4
  <2>6. chain' # <<>> /\ chain'[1] = root' /\ DOMAIN chain' = {1}
    BY <2>1
  <2>7. ASSUME NEW l \in SetOf(stack')
        PROVE  /\ \E h \in DOMAIN gates : l \in SetOf(gates[h].ins)
               /\ ~IsInput(l) => source[l] \in DOMAIN gates /\ level[source[l]] < level[root']
    <3>1. l \in SetOf(gates[g].ins)
      BY <2>1
    <3> QED BY <2>1, <2>2, <2>3, <3>1, DriverFacts DEF LevelInv
  <2>8. \A l \in SetOf(leaves') : FALSE
    BY <2>1 DEF SetOf
  <2>9. \A i \in DOMAIN chain' : \A l \in SetOf(gates[chain'[i]].ins) : l \in SetOf(stack')
    BY <2>1, <2>6
  <2>10. \A i \in DOMAIN chain' : \A l \in SetOf(gates'[chain'[i]].ins) : OperandIn(i, l)'
    BY <2>1, <2>9 DEF OperandIn
  <2> QED BY <2>1, <2>5, <2>6, <2>7, <2>8, <2>10 DEF TreeInv, Reader, IsInput
<1>4. ASSUME TakeLeaf PROVE TreeInv'
  <2> DEFINE l0 == Head(stack)
             t == Tail(stack)
  <2>1. /\ phase = "simulate" /\ stack # <<>> /\ l0 \in flag /\ stack' = t
        /\ leaves' = EnsureLine(leaves, l0)
        /\ UNCHANGED <<gates, inputs, source, level, flag, sim, todo, root, chain, local>>
    BY <1>4 DEF TakeLeaf, graphVars
  <2>2. /\ l0 \in SetOf(stack) /\ l0 \in Names
        /\ \A l : l \in SetOf(stack) <=> l = l0 \/ l \in SetOf(t)
    BY <2>1, StackFacts
  <2>3. sim[l0] # NotSimulated
    BY <2>1, <2>2, LeafHasValue
  <2>4. leaves \in Seq(Names)
    BY DEF TypeOK
  <2>5. SetOf(leaves') = SetOf(leaves) \cup {l0}
    BY <2>1, <2>2, <2>4, EnsureFacts
  <2> HIDE DEF l0, t
  <2>6. \A i, l : OperandIn(i, l) => OperandIn(i, l)'
    BY <2>1, <2>2, <2>5 DEF OperandIn
  <2>7. \A i \in DOMAIN chain' : \A l \in SetOf(gates'[chain'[i]].ins) : OperandIn(i, l)'
    BY <2>1, <2>6 DEF TreeInv
  <2>8. \A l \in SetOf(leaves') : l \in flag' /\ sim'[l] # NotSimulated
    BY <2>1, <2>3, <2>5 DEF TreeInv
  <2>9. \A l \in SetOf(stack') :
          /\ Reader(l)'
          /\ ~IsInput(l)' => source'[l] \in DOMAIN gates' /\ level'[source'[l]] < level'[root']
    BY <2>1, <2>2 DEF TreeInv, Reader, IsInput
  <2> QED BY <2>1, <2>7, <2>8, <2>9 DEF TreeInv
<1>5. ASSUME TakeGate PROVE TreeInv'
  <2> DEFINE l0 == Head(stack)
             t == Tail(stack)
             g == source[l0]
             n == Len(chain)
  <2>1. /\ phase = "simulate" /\ stack # <<>> /\ l0 \notin flag
        /\ stack' = gates[g].ins \o t /\ chain' = Append(chain, g)
        /\ UNCHANGED <<gates, inputs, source, level, flag, sim, todo, root, leaves, local>>
    BY <1>5 DEF TakeGate, graphVars
  <2>2. /\ l0 \in SetOf(stack) /\ l0 \in Names /\ t \in Seq(Names)
        /\ \A l : l \in SetOf(stack) <=> l = l0 \/ l \in SetOf(t)
    BY <2>1, StackFacts
  <2>3. ~IsInput(l0)
    BY <2>1 DEF FlagInv, IsInput
  <2>4. g \in DOMAIN gates /\ level[g] < level[root]
    BY <2>1, <2>2, <2>3 DEF TreeInv
  <2>5. gates[g].ins \in Seq(Names)
    BY <2>4, GateFacts
  <2>6. SetOf(stack') = SetOf(gates[g].ins) \cup SetOf(t)
    <3> HIDE DEF g, t
    <3> QED BY <2>1, <2>2, <2>5, JoinFacts
  <2>7. /\ n \in Nat /\ DOMAIN chain = 1 .. n /\ DOMAIN chain' = 1 .. n + 1 /\ Len(chain') = n + 1
        /\ \A i \in 1 .. n : chain'[i] = chain[i]
        /\ chain'[n + 1] = g
    <3> DEFINE D == DOMAIN gates
    <3>1. chain \in Seq(D) /\ g \in D
      BY <2>4 DEF TypeOK
    <3> HIDE DEF D, g
    <3> QED BY <2>1, <3>1, AppendFacts
  <2>8. \A h \in DOMAIN gates : level[h] \in Nat /\ level[h] # NO_LEVEL
    BY <2>1, GateFacts DEF LevelInv, Unlevelled
  <2>9. root \in DOMAIN gates
    <3>1. root # NoGate
      BY <2>1 DEF BlankInv
    <3> QED BY <3>1 DEF TypeOK
  <2>10. \A l \in SetOf(gates[g].ins) :
          ~IsInput(l) => source[l] \in DOMAIN gates /\ level[source[l]] < level[root]
    <3> SUFFICES ASSUME NEW l \in SetOf(gates[g].ins), ~IsInput(l)
                 PROVE  source[l] \in DOMAIN gates /\ level[source[l]] < level[root]
      OBVIOUS
    <3>1. source[l] \in DOMAIN gates /\ level[source[l]] < level[g]
      BY <2>4, <2>8, DriverFacts DEF LevelInv
    <3>2. level[source[l]] \in Nat /\ level[g] \in Nat /\ level[root] \in Nat
      BY <2>4, <2>8, <2>9, <3>1
    <3> QED BY <2>4, <3>1, <3>2
  <2>11. g = source[l0]
    OBVIOUS
  <2> HIDE DEF l0, t, g, n
  <2>12. \A l \in SetOf(stack') :
          /\ Reader(l)'
          /\ ~IsInput(l)' => source'[l] \in DOMAIN gates' /\ level'[source'[l]] < level'[root']
    BY <2>1, <2>2, <2>4, <2>6, <2>10 DEF TreeInv, Reader, IsInput
  <2>13. \A i \in 1 .. n : \A l : OperandIn(i, l) => OperandIn(i, l)'
    <3> SUFFICES ASSUME NEW i \in 1 .. n, NEW l, OperandIn(i, l) PROVE OperandIn(i, l)'
      OBVIOUS
    <3>1. CASE l \in SetOf(stack)
      <4>1. CASE l = l0
        <5>1. n + 1 \in i + 1 .. Len(chain') /\ chain'[n + 1] = source'[l]
          BY <2>1, <2>7, <2>11, <4>1
        <5> QED BY <2>1, <4>1, <5>1 DEF OperandIn
      <4>2. CASE l # l0
        BY <2>2, <2>6, <3>1, <4>2 DEF OperandIn
      <4> QED BY <4>1, <4>2
    <3>2. CASE l \in flag /\ l \in SetOf(leaves)
      BY <2>1, <3>2 DEF OperandIn
    <3>3. CASE l \notin flag /\ source[l] \in DOMAIN local
      BY <2>1, <3>3 DEF OperandIn
    <3>4. CASE l \notin flag /\ \E j \in i + 1 .. n : chain[j] = source[l]
      <4>1. PICK j \in i + 1 .. n : chain[j] = source[l]
        BY <3>4
      <4>2. j \in i + 1 .. Len(chain') /\ chain'[j] = source'[l]
        BY <2>1, <2>7, <4>1
      <4> QED BY <2>1, <3>4, <4>2 DEF OperandIn
    <3> QED BY <3>1, <3>2, <3>3, <3>4 DEF OperandIn, n
  <2>14. \A i \in DOMAIN chain' : \A l \in SetOf(gates'[chain'[i]].ins) : OperandIn(i, l)'
    <3> SUFFICES ASSUME NEW i \in 1 .. n + 1, NEW l \in SetOf(gates[chain'[i]].ins)
                 PROVE  OperandIn(i, l)'
      BY <2>1, <2>7
    <3>1. CASE i = n + 1
      BY <2>6, <2>7, <3>1 DEF OperandIn
    <3>2. CASE i \in 1 .. n
      <4>1. OperandIn(i, l)
        BY <2>1, <2>7, <3>2 DEF TreeInv
      <4> QED BY <2>13, <3>2, <4>1
    <3> QED BY <2>7, <3>1, <3>2
  <2>15. root' # NoGate => /\ \A h \in todo' : level'[h] >= level'[root']
                           /\ chain' # <<>> /\ chain'[1] = root'
    <3> SUFFICES ASSUME root # NoGate
                 PROVE  /\ \A h \in todo : level[h] >= level[root]
                        /\ chain' # <<>> /\ chain'[1] = root
      BY <2>1
    <3>1. /\ \A h \in todo : level[h] >= level[root]
          /\ chain # <<>> /\ chain[1] = root
      BY <2>1 DEF TreeInv
    <3>2. 1 \in 1 .. n
      <4>1. n # 0
        BY <3>1 DEF n, TypeOK
      <4> QED BY <2>7, <4>1
    <3>3. chain'[1] = root /\ 1 \in DOMAIN chain'
      BY <2>7, <3>1, <3>2
    <3>4. chain' # <<>>
      BY <3>3
    <3> QED BY <3>1, <3>3, <3>4
  <2>16. \A l \in SetOf(leaves') : l \in flag' /\ sim'[l] # NotSimulated
    BY <2>1 DEF TreeInv
  <2> QED BY <2>12, <2>14, <2>15, <2>16 DEF TreeInv
<1>6. ASSUME MultiplyOut PROVE TreeInv'
  <2> DEFINE n == Len(chain)
             g == chain[n]
  <2>1. /\ phase = "simulate" /\ stack = <<>> /\ n > 1
        /\ local' = [h \in DOMAIN local \cup {g} |-> IF h = g THEN Output(g) ELSE local[h]]
        /\ chain' = SubSeq(chain, 1, n - 1)
        /\ UNCHANGED <<gates, inputs, source, level, flag, sim, todo, root, leaves, stack>>
    BY <1>6 DEF MultiplyOut, graphVars
  <2>2. chain \in Seq(DOMAIN gates) /\ n \in Nat /\ DOMAIN chain = 1 .. n
    BY DEF TypeOK
  <2>3. /\ DOMAIN chain' = 1 .. n - 1 /\ Len(chain') = n - 1
        /\ \A i \in 1 .. n - 1 : chain'[i] = chain[i]
    <3> HIDE DEF n
    <3> QED BY <2>1, <2>2
  <2> HIDE DEF n
  <2>4. DOMAIN local' = DOMAIN local \cup {g}
    BY <2>1
  <2>5. \A i \in 1 .. n - 1 : \A l : OperandIn(i, l) => OperandIn(i, l)'
    <3> SUFFICES ASSUME NEW i \in 1 .. n - 1, NEW l, OperandIn(i, l) PROVE OperandIn(i, l)'
      OBVIOUS
    <3>1. CASE \/ l \in SetOf(stack)
               \/ l \in flag /\ l \in SetOf(leaves)
               \/ l \notin flag /\ source[l] \in DOMAIN local
      BY <2>1, <2>4, <3>1 DEF OperandIn
    <3>2. CASE l \notin flag /\ \E j \in i + 1 .. n : chain[j] = source[l]
      <4>1. PICK j \in i + 1 .. n : chain[j] = source[l]
        BY <3>2
      <4>2. CASE j = n
        <5>1. source'[l] \in DOMAIN local'
          BY <2>1, <2>4, <4>1, <4>2
        <5> QED BY <2>1, <3>2, <5>1 DEF OperandIn
      <4>3. CASE j # n
        <5>1. j \in i + 1 .. Len(chain') /\ chain'[j] = source'[l]
          BY <2>1, <2>2, <2>3, <4>1, <4>3
        <5> QED BY <2>1, <3>2, <5>1 DEF OperandIn
      <4> QED BY <4>2, <4>3
    <3> QED BY <3>1, <3>2 DEF OperandIn, n
  <2>6. \A i \in DOMAIN chain' : \A l \in SetOf(gates'[chain'[i]].ins) : OperandIn(i, l)'
    <3> SUFFICES ASSUME NEW i \in 1 .. n - 1, NEW l \in SetOf(gates[chain[i]].ins)
                 PROVE  OperandIn(i, l)'
      BY <2>1, <2>3
    <3>1. i \in DOMAIN chain
      BY <2>2
    <3>2. OperandIn(i, l)
      BY <2>1, <3>1 DEF TreeInv
    <3> QED BY <2>5, <3>2
  <2>7. chain' # <<>> /\ chain'[1] = chain[1]
    <3>1. 1 \in 1 .. n - 1
      BY <2>1, <2>2
    <3>2. 1 \in DOMAIN chain' /\ chain'[1] = chain[1]
      BY <2>3, <3>1
    <3> QED BY <3>2
  <2>8. \A l \in SetOf(stack') : FALSE
    BY <2>1 DEF SetOf
  <2>9. \A l \in SetOf(leaves') : l \in flag' /\ sim'[l] # NotSimulated
    BY <2>1 DEF TreeInv
  <2>10. root' # NoGate => /\ \A h \in todo' : level'[h] >= level'[root']
                           /\ chain' # <<>> /\ chain'[1] = root'
    BY <2>1, <2>7 DEF TreeInv
  <2> QED BY <2>6, <2>8, <2>9, <2>10 DEF TreeInv
<1>7. ASSUME SetSimInfo PROVE TreeInv'
  <2> DEFINE o == gates[root].out
             v == Output(root)
  <2>1. /\ phase = "simulate" /\ root # NoGate /\ root' = NoGate /\ stack' = <<>> /\ chain' = <<>>
        /\ sim' = [sim EXCEPT ![o] = v] /\ flag' = flag \cup {o} /\ leaves' = leaves
    BY <1>7 DEF SetSimInfo
  <2>2. v # NotSimulated
    BY OutputType, PatternsFacts
  <2>3. \A l \in SetOf(leaves) : l \in Names
    BY DEF TypeOK, SetOf
  <2> HIDE DEF v, o
  <2>4. \A l \in Names : sim'[l] = sim[l] \/ sim'[l] = v
    BY <2>1 DEF TypeOK
  <2>5. \A l \in SetOf(leaves') : l \in flag' /\ sim'[l] # NotSimulated
    BY <2>1, <2>2, <2>3, <2>4 DEF TreeInv
  <2>6. SetOf(stack') = {} /\ DOMAIN chain' = {}
    BY <2>1 DEF SetOf
  <2> QED BY <2>1, <2>5, <2>6 DEF TreeInv
<1>8. ASSUME phase = "simulate", UNCHANGED <<graphVars, simVars>> PROVE TreeInv'
  <2>1. \A i, l : OperandIn(i, l)' = OperandIn(i, l)
    BY <1>8 DEF OperandIn, graphVars, simVars
  <2>2. \A l : Reader(l)' = Reader(l) /\ IsInput(l)' = IsInput(l)
    BY <1>8 DEF Reader, IsInput, graphVars, simVars
  <2> QED BY <1>8, <2>1, <2>2 DEF TreeInv, graphVars, simVars
<1> QED BY <1>1, <1>2, <1>3, <1>4, <1>5, <1>6, <1>7, <1>8, TreeSteps

-----------------------------------------------------------------------------
(***************************************************************************)
(* Shared logic                                                            *)
(***************************************************************************)
(* A line that is read and need not be simulated has a single reader.      *)
LEMMA SingleReader ==
  ASSUME TypeOK, NEW g \in DOMAIN gates, Reader(gates[g].out), ~MustSimulate(g)
  PROVE  ~IsOutput(gates[g].out) /\ Cardinality(Destinations(gates[g].out)) = 1
<1> DEFINE D == Destinations(gates[g].out)
<1>1. D \subseteq DOMAIN gates /\ D # {}
  BY DEF Destinations, Reader
<1>2. DOMAIN gates = 1 .. Len(gates) /\ Len(gates) \in Nat
  BY DEF TypeOK, GraphTypeOK
<1>3. IsFiniteSet(DOMAIN gates)
  BY <1>2, FS_Interval
<1>4. IsFiniteSet(D)
  BY <1>1, <1>3, FS_Subset
<1>5. Cardinality(D) \in Nat
  BY <1>4, FS_CardinalityType
<1>6. Cardinality(D) # 0
  BY <1>1, <1>4, FS_EmptySet
<1>7. ~IsOutput(gates[g].out) /\ ~(Cardinality(D) > 1)
  BY DEF MustSimulate, FanoutLimit
<1> QED BY <1>5, <1>6, <1>7

(* Whatever is read from several places gets flagged.                      *)
LEMMA SharedStep ==
  ASSUME TypeOK, SourceInv, LevelInv, BlankInv, FlagInv, TreeInv, SharedInv, Next
  PROVE  SharedInv'
<1> DEFINE Marked == phase = "mark" =>
                       \A g \in DOMAIN gates \ todo : MustSimulate(g) => gates[g].out \in flag
           AllMarked == phase \in {"simulate", "done"} =>
                          \A g \in DOMAIN gates : MustSimulate(g) => gates[g].out \in flag
<1>1. ASSUME UNCHANGED <<gates, outputs>>
      PROVE  /\ \A g : MustSimulate(g)' = MustSimulate(g)
             /\ \A l : IsOutput(l)' = IsOutput(l) /\ Destinations(l)' = Destinations(l)
  <2>1. \A l : IsOutput(l)' = IsOutput(l) /\ Destinations(l)' = Destinations(l)
    BY <1>1 DEF IsOutput, Destinations
  <2>2. \A g : MustSimulate(g)' = MustSimulate(g)
    BY <1>1, <2>1 DEF MustSimulate
  <2> QED BY <2>1, <2>2
<1>2. ASSUME phase' \in {"parse", "stimuli", "depth", "outOfBounds"},
             chain = <<>>, chain' = chain
      PROVE  SharedInv'
  <2>1. SetOf(chain') = {}
    BY <1>2 DEF SetOf
  <2> QED BY <1>2, <2>1 DEF SharedInv, SharedLogicIsLeaf
<1>3. ASSUME Parse, UNCHANGED simVars PROVE SharedInv'
  <2>1. phase = "parse" /\ phase' \in {"parse", "stimuli"}
    BY <1>3 DEF Parse, AddInput, AddOutput, AddGate, SkipLine, Parsed, Reading
  <2>2. chain = <<>> /\ chain' = chain
    BY <1>3, <2>1, BlankFacts DEF simVars
  <2> QED BY <1>2, <2>1, <2>2
<1>4. ASSUME Stimuli PROVE SharedInv'
  <2>1. phase = "stimuli" /\ phase' \in {"depth", "outOfBounds"} /\ chain' = chain
    BY <1>4 DEF Stimuli, RandomStimuli, FullStimuli, NoSuchBit, OutOfBounds, simVars
  <2>2. chain = <<>>
    BY <2>1 DEF BlankInv
  <2> QED BY <1>2, <2>1, <2>2
<1>5. ASSUME NEW l \in Names, CallNothing(l) \/ Call(l), UNCHANGED simVars PROVE SharedInv'
  <2>1. phase = "depth" /\ phase' \in {"depth", "outOfBounds"} /\ chain' = chain
    BY <1>5 DEF CallNothing, Call, simVars
  <2>2. chain = <<>>
    BY <2>1 DEF BlankInv
  <2> QED BY <1>2, <2>1, <2>2
<1>6. ASSUME NEW g \in DOMAIN gates, ReturnFrom(g), UNCHANGED simVars PROVE SharedInv'
  <2>1. phase = "depth" /\ phase' = "depth" /\ chain' = chain
    BY <1>6 DEF ReturnFrom, simVars
  <2>2. chain = <<>>
    BY <2>1 DEF BlankInv
  <2> QED BY <1>2, <2>1, <2>2
<1>7. ASSUME OutOfBounds, phase # "simulate" \/ root = NoGate PROVE SharedInv'
  <2>1. chain = <<>> /\ chain' = chain /\ phase' = "outOfBounds"
    BY <1>7 DEF OutOfBounds, BlankInv, simVars
  <2> QED BY <1>2, <2>1
<1>8. ASSUME phase = "mark", phase' \in {"mark", "simulate"}, UNCHANGED <<gates, outputs, root, chain>>,
             Marked', AllMarked'
      PROVE  SharedInv'
  <2>1. chain' = <<>>
    BY <1>8 DEF BlankInv
  <2>2. SetOf(chain') = {}
    BY <2>1 DEF SetOf
  <2> QED BY <1>8, <2>2 DEF SharedInv, SharedLogicIsLeaf
<1>9. ASSUME StartMarking PROVE SharedInv'
  <2>1. /\ phase = "depth" /\ phase' \in {"mark", "outOfBounds"} /\ chain' = chain
        /\ todo' = DOMAIN gates /\ gates' = gates
    BY <1>9 DEF StartMarking, GroupByLevel, graphVars
  <2>2. chain' = <<>>
    BY <2>1 DEF BlankInv
  <2>3. SetOf(chain') = {}
    BY <2>2 DEF SetOf
  <2>4. DOMAIN gates' \ todo' = {}
    BY <2>1
  <2> QED BY <2>1, <2>3, <2>4 DEF SharedInv, SharedLogicIsLeaf
<1>10. ASSUME Mark PROVE SharedInv'
  <2> DEFINE g == First(todo)
  <2>1. /\ g \in DOMAIN gates /\ todo' = todo \ {g}
        /\ IF MustSimulate(g) THEN flag' = flag \cup {gates[g].out} ELSE flag' = flag
        /\ UNCHANGED <<phase, gates, outputs, root, chain>> /\ phase = "mark"
    BY <1>10, MarkFacts
  <2> HIDE DEF g
  <2>2. \A h \in DOMAIN gates \ todo : MustSimulate(h) => gates[h].out \in flag
    BY <2>1 DEF SharedInv
  <2>3. \A h \in DOMAIN gates \ todo' : MustSimulate(h) => gates[h].out \in flag'
    BY <2>1, <2>2
  <2>4. Marked' /\ AllMarked'
    BY <1>1, <2>1, <2>3
  <2> HIDE DEF Marked, AllMarked
  <2> QED BY <1>8, <2>1, <2>4
<1>11. ASSUME CutNext PROVE SharedInv'
  <2>1. UNCHANGED <<phase, gates, outputs, todo, flag, root, chain>> /\ phase = "mark"
    BY <1>11 DEF CutNext, graphVars
  <2>2. Marked' /\ AllMarked'
    BY <1>1, <2>1 DEF SharedInv
  <2> HIDE DEF Marked, AllMarked
  <2> QED BY <1>8, <2>1, <2>2
<1>12. ASSUME CutStep PROVE SharedInv'
  <2>1. flag \subseteq flag' /\ phase' = phase /\ phase = "mark" /\ UNCHANGED <<gates, todo, root>>
    BY <1>12, CutStepFacts
  <2>2. UNCHANGED <<outputs, chain>>
    BY <1>12 DEF CutStep, graphVars
  <2>3. Marked' /\ AllMarked'
    BY <1>1, <2>1, <2>2 DEF SharedInv
  <2> HIDE DEF Marked, AllMarked
  <2> QED BY <1>8, <2>1, <2>2, <2>3
<1>13. ASSUME Order PROVE SharedInv'
  <2>1. /\ UNCHANGED <<gates, outputs, flag, root, chain>> /\ phase = "mark" /\ todo = {}
        /\ phase' = "simulate"
    BY <1>13 DEF Order, graphVars
  <2>2. Marked' /\ AllMarked'
    BY <1>1, <2>1 DEF SharedInv
  <2> HIDE DEF Marked, AllMarked
  <2> QED BY <1>8, <2>1, <2>2
<1>14. ASSUME phase = "simulate", phase' \in {"simulate", "done"}, UNCHANGED <<gates, outputs>>,
              flag \subseteq flag', SharedLogicIsLeaf'
       PROVE  SharedInv'
  <2>1. AllMarked'
    BY <1>1, <1>14 DEF SharedInv
  <2> QED BY <1>14, <2>1 DEF SharedInv
<1>15. ASSUME Simulate PROVE SharedInv'
  <2>1. /\ phase = "simulate" /\ phase' = "simulate" /\ UNCHANGED <<gates, outputs, flag>>
        /\ chain' = <<root'>>
    BY <1>15 DEF Simulate, graphVars
  <2>2. SetOf(chain') = {root'}
    BY <2>1 DEF SetOf
  <2>3. SharedLogicIsLeaf'
    BY <2>2 DEF SharedLogicIsLeaf
  <2> QED BY <1>14, <2>1, <2>3
<1>16. ASSUME TakeLeaf PROVE SharedInv'
  <2>1. /\ phase = "simulate" /\ phase' = "simulate" /\ UNCHANGED <<gates, outputs, flag, chain, root>>
    BY <1>16 DEF TakeLeaf, graphVars
  <2>2. SharedLogicIsLeaf'
    BY <1>1, <2>1 DEF SharedInv, SharedLogicIsLeaf
  <2> QED BY <1>14, <2>1, <2>2
<1>17. ASSUME TakeGate PROVE SharedInv'
  <2> DEFINE l0 == Head(stack)
             g == source[l0]
  <2>1. /\ phase = "simulate" /\ phase' = "simulate" /\ UNCHANGED <<gates, outputs, flag, root>>
        /\ stack # <<>> /\ l0 \notin flag /\ chain' = Append(chain, g)
    BY <1>17 DEF TakeGate, graphVars
  <2>2. l0 \in SetOf(stack) /\ l0 \in Names
    BY <2>1, StackFacts
  <2>3. ~IsInput(l0)
    BY <2>1 DEF FlagInv, IsInput
  <2>4. g \in DOMAIN gates /\ Reader(l0)
    BY <2>1, <2>2, <2>3 DEF TreeInv
  <2>5. g # NULL_INDEX
    BY <2>4 DEF TypeOK, GraphTypeOK, NULL_INDEX
  <2>6. gates[g].out = l0
    BY <2>2, <2>5 DEF SourceInv
  <2>7. ~MustSimulate(g)
    BY <2>1, <2>4, <2>6 DEF SharedInv
  <2>8. ~IsOutput(gates[g].out) /\ Cardinality(Destinations(gates[g].out)) = 1
    BY <2>4, <2>6, <2>7, SingleReader
  <2>9. \A h \in SetOf(chain') : h \in SetOf(chain) \/ h = g
    <3> DEFINE D == DOMAIN gates
    <3>1. chain \in Seq(D) /\ g \in D
      BY <2>4 DEF TypeOK
    <3> HIDE DEF D, g
    <3>2. /\ DOMAIN chain = 1 .. Len(chain) /\ Len(chain) \in Nat
          /\ DOMAIN chain' = 1 .. Len(chain) + 1
          /\ \A i \in 1 .. Len(chain) : chain'[i] = chain[i]
          /\ chain'[Len(chain) + 1] = g
      BY <2>1, <3>1, AppendFacts
    <3> QED BY <3>2 DEF SetOf
  <2> HIDE DEF g
  <2>10. \A h \in SetOf(chain') :
           h # root => ~IsOutput(gates[h].out) /\ Cardinality(Destinations(gates[h].out)) = 1
    BY <2>8, <2>9 DEF SharedInv, SharedLogicIsLeaf
  <2>11. SharedLogicIsLeaf'
    BY <1>1, <2>1, <2>10 DEF SharedLogicIsLeaf
  <2> QED BY <1>14, <2>1, <2>11
<1>18. ASSUME MultiplyOut PROVE SharedInv'
  <2>1. /\ phase = "simulate" /\ phase' = "simulate" /\ UNCHANGED <<gates, outputs, flag, root>>
        /\ chain' = SubSeq(chain, 1, Len(chain) - 1) /\ Len(chain) > 1
    BY <1>18 DEF MultiplyOut, graphVars
  <2>2. \A h \in SetOf(chain') : h \in SetOf(chain)
    <3>1. chain \in Seq(DOMAIN gates) /\ Len(chain) \in Nat /\ DOMAIN chain = 1 .. Len(chain)
      BY DEF TypeOK
    <3>2. DOMAIN chain' = 1 .. Len(chain) - 1 /\ \A i \in DOMAIN chain' : chain'[i] = chain[i]
      BY <2>1, <3>1
    <3>3. \A i \in DOMAIN chain' : i \in DOMAIN chain
      BY <3>1, <3>2
    <3> QED BY <3>2, <3>3 DEF SetOf
  <2>3. SharedLogicIsLeaf'
    BY <1>1, <2>1, <2>2 DEF SharedInv, SharedLogicIsLeaf
  <2> QED BY <1>14, <2>1, <2>3
<1>19. ASSUME SetSimInfo PROVE SharedInv'
  <2>1. /\ phase = "simulate" /\ phase' = "simulate" /\ UNCHANGED <<gates, outputs>>
        /\ chain' = <<>> /\ flag \subseteq flag'
    BY <1>19 DEF SetSimInfo, graphVars
  <2>2. SetOf(chain') = {}
    BY <2>1 DEF SetOf
  <2>3. SharedLogicIsLeaf'
    BY <2>2 DEF SharedLogicIsLeaf
  <2> QED BY <1>14, <2>1, <2>3
<1>20. ASSUME Report PROVE SharedInv'
  <2>1. /\ phase = "simulate" /\ phase' = "done" /\ UNCHANGED <<gates, outputs, flag, chain, root>>
    BY <1>20 DEF Report, graphVars
  <2>2. SharedLogicIsLeaf'
    BY <1>1, <2>1 DEF SharedInv, SharedLogicIsLeaf
  <2> QED BY <1>14, <2>1, <2>2
<1>21. ASSUME Stopped PROVE SharedInv'
  <2>1. UNCHANGED <<phase, gates, outputs, flag, todo, chain, root>>
    BY <1>21 DEF Stopped, vars, graphVars, simVars
  <2>2. SharedLogicIsLeaf'
    BY <1>1, <2>1 DEF SharedInv, SharedLogicIsLeaf
  <2>3. Marked' /\ AllMarked'
    BY <1>1, <2>1 DEF SharedInv
  <2> QED BY <2>2, <2>3 DEF SharedInv
<1>22. /\ NoSuchBit => Stimuli
       /\ NoDepth => OutOfBounds /\ phase = "mark"
       /\ ShortTable => OutOfBounds /\ root = NoGate
  BY DEF Stimuli, NoDepth, ShortTable
<1> QED
  BY <1>3, <1>4, <1>5, <1>6, <1>7, <1>9, <1>10, <1>11, <1>12, <1>13, <1>15, <1>16, <1>17, <1>18,
     <1>19, <1>20, <1>21, <1>22
  DEF Next, Step, NeedNodes, SingleNodeSim

-----------------------------------------------------------------------------
(***************************************************************************)
(* Reading the file                                                        *)
(***************************************************************************)
(* One more statement has been read.                                       *)
LEMMA BeforeStep ==
  ASSUME TypeOK, NEW kind, Reading(kind)
  PROVE  \A k : Before(k)' = IF k = kind THEN Before(k) \cup {at} ELSE Before(k)
<1>1. /\ file' = file /\ at' = at + 1 /\ at \in 1 .. Len(file) /\ file[at].kind = kind
      /\ DOMAIN file = 1 .. Len(file) /\ Len(file) \in Nat
  <2>1. file \in Seq(Statement)
    BY DEF TypeOK, GraphTypeOK
  <2>2. DOMAIN file = 1 .. Len(file) /\ Len(file) \in Nat
    BY <2>1
  <2>3. /\ file' = file /\ at' = at + 1
        /\ at \in 1 .. Len(file) /\ file[at].kind = kind
    BY ReadFacts
  <2> QED BY <2>2, <2>3
<1>2. ASSUME NEW k PROVE Before(k)' = IF k = kind THEN Before(k) \cup {at} ELSE Before(k)
  <2>1. Before(k)' = {i \in 1 .. Len(file) : file[i].kind = k /\ i < at + 1}
    BY <1>1 DEF Before, Statements
  <2>2. Before(k) = {i \in 1 .. Len(file) : file[i].kind = k /\ i < at}
    BY <1>1 DEF Before, Statements
  <2>3. \A i \in 1 .. Len(file) : i < at + 1 <=> i < at \/ i = at
    BY <1>1
  <2> QED BY <1>1, <2>1, <2>2, <2>3
<1> QED BY <1>2

(* No statement is left out when the file has been read.                   *)
LEMMA AllRead ==
  ASSUME TypeOK, ReadInv, phase # "parse"
  PROVE  \A k : Before(k) = Statements(file, k)
<1>1. file \in Seq(Statement)
  BY DEF TypeOK, GraphTypeOK
<1>2. at = Len(file) + 1 /\ DOMAIN file = 1 .. Len(file) /\ Len(file) \in Nat
  BY <1>1 DEF ReadInv
<1> QED BY <1>2 DEF Before, Statements

(* A name that is declared again changes nothing.                          *)
LEMMA DeclareFacts ==
  ASSUME NEW s \in Seq(Names), NEW l \in Names, Distinct(s),
         NEW t, t = IF l \in SetOf(s) THEN s ELSE Append(s, l)
  PROVE  SetOf(t) = SetOf(s) \cup {l} /\ Distinct(t)
<1>1. t = EnsureLine(s, l)
  BY DEF EnsureLine
<1> QED BY <1>1, EnsureFacts

(* The graph keeps to the statements read.                                 *)
LEMMA ReadStep ==
  ASSUME TypeOK, SourceInv, ReadInv, Next
  PROVE  ReadInv'
<1>1. ASSUME NEW kind, Reading(kind)
      PROVE  /\ Before("input")' = IF kind = "input" THEN Before("input") \cup {at} ELSE Before("input")
             /\ Before("output")' = IF kind = "output" THEN Before("output") \cup {at} ELSE Before("output")
             /\ Before("lut")' = IF kind = "lut" THEN Before("lut") \cup {at} ELSE Before("lut")
             /\ file' = file /\ phase' = "parse" /\ file[at].name \in Names
             /\ at \in DOMAIN file /\ file[at].kind = kind /\ file[at].ins \in Seq(Names)
  <2>1. \A k : Before(k)' = IF k = kind THEN Before(k) \cup {at} ELSE Before(k)
    BY <1>1, BeforeStep
  <2>2. file \in Seq(Statement)
    BY DEF TypeOK, GraphTypeOK
  <2> QED BY <1>1, <2>1, <2>2, ReadFacts
<1>2. lines \in Seq(Names) /\ inputs \in Seq(Names) /\ outputs \in Seq(Names)
  BY DEF TypeOK, GraphTypeOK
<1>3. Distinct(lines) /\ Distinct(inputs) /\ Distinct(outputs)
  BY DEF ReadInv
<1>4. ASSUME AddInput PROVE ReadInv'
  <2> DEFINE l == file[at].name
  <2>1. /\ Before("input")' = Before("input") \cup {at}
        /\ Before("output")' = Before("output") /\ Before("lut")' = Before("lut")
        /\ file' = file /\ phase' = "parse" /\ l \in Names
    BY <1>1, <1>4 DEF AddInput
  <2>2. /\ lines' = EnsureLine(lines, l)
        /\ inputs' = IF l \in SetOf(inputs) THEN inputs ELSE Append(inputs, l)
        /\ UNCHANGED <<outputs, gates, source>>
    BY <1>4 DEF AddInput, IsInput
  <2>3. SetOf(lines') = SetOf(lines) \cup {l} /\ Distinct(lines')
    BY <1>2, <1>3, <2>1, <2>2, EnsureFacts
  <2>4. SetOf(inputs') = SetOf(inputs) \cup {l} /\ Distinct(inputs')
    BY <1>2, <1>3, <2>1, <2>2, DeclareFacts
  <2>5. {file[i].name : i \in Before("input") \cup {at}} =
          {file[i].name : i \in Before("input")} \cup {l}
    OBVIOUS
  <2>6. SetOf(inputs') = {file'[i].name : i \in Before("input")'}
    BY <2>1, <2>4, <2>5 DEF ReadInv
  <2>7. /\ SetOf(inputs') \cup SetOf(outputs') \subseteq SetOf(lines')
        /\ \A g \in DOMAIN gates' : {gates'[g].out} \cup SetOf(gates'[g].ins) \subseteq SetOf(lines')
    BY <2>2, <2>3, <2>4 DEF ReadInv
  <2> HIDE DEF l
  <2> QED BY <2>1, <2>2, <2>3, <2>4, <2>6, <2>7 DEF ReadInv
<1>5. ASSUME AddOutput PROVE ReadInv'
  <2> DEFINE l == file[at].name
  <2>1. /\ Before("output")' = Before("output") \cup {at}
        /\ Before("input")' = Before("input") /\ Before("lut")' = Before("lut")
        /\ file' = file /\ phase' = "parse" /\ l \in Names
    BY <1>1, <1>5 DEF AddOutput
  <2>2. /\ lines' = EnsureLine(lines, l)
        /\ outputs' = IF l \in SetOf(outputs) THEN outputs ELSE Append(outputs, l)
        /\ UNCHANGED <<inputs, gates, source>>
    BY <1>5 DEF AddOutput, IsOutput
  <2>3. SetOf(lines') = SetOf(lines) \cup {l} /\ Distinct(lines')
    BY <1>2, <1>3, <2>1, <2>2, EnsureFacts
  <2>4. SetOf(outputs') = SetOf(outputs) \cup {l} /\ Distinct(outputs')
    BY <1>2, <1>3, <2>1, <2>2, DeclareFacts
  <2>5. {file[i].name : i \in Before("output") \cup {at}} =
          {file[i].name : i \in Before("output")} \cup {l}
    OBVIOUS
  <2>6. SetOf(outputs') = {file'[i].name : i \in Before("output")'}
    BY <2>1, <2>4, <2>5 DEF ReadInv
  <2>7. /\ SetOf(inputs') \cup SetOf(outputs') \subseteq SetOf(lines')
        /\ \A g \in DOMAIN gates' : {gates'[g].out} \cup SetOf(gates'[g].ins) \subseteq SetOf(lines')
    BY <2>2, <2>3, <2>4 DEF ReadInv
  <2> HIDE DEF l
  <2> QED BY <2>1, <2>2, <2>3, <2>4, <2>6, <2>7 DEF ReadInv
<1>6. ASSUME AddGate PROVE ReadInv'
  <2> DEFINE s == file[at]
             n == Len(gates)
             B == Before("lut")
  <2>1. /\ B' = B \cup {at}
        /\ Before("input")' = Before("input") /\ Before("output")' = Before("output")
        /\ file' = file /\ phase' = "parse" /\ s.name \in Names /\ s.ins \in Seq(Names)
        /\ at \in DOMAIN file /\ s.kind = "lut"
    BY <1>1, <1>6 DEF AddGate
  <2>2. UNCHANGED <<inputs, outputs>>
    BY <1>6 DEF AddGate
  <2>3. /\ n \in Nat /\ DOMAIN gates' = 1 .. n + 1 /\ DOMAIN gates = 1 .. n
        /\ \A g \in 1 .. n : gates'[g] = gates[g]
        /\ gates'[n + 1] = GateOf(s)
        /\ source' = [source EXCEPT ![s.name] = n + 1]
        /\ SetOf(lines') = SetOf(lines) \cup SetOf(s.ins) \cup {s.name}
        /\ Distinct(lines')
    BY <1>3, <1>6, AddGateFacts
  <2>4. /\ gates'[n + 1].out = s.name /\ gates'[n + 1].ins = Reversed(s.ins)
        /\ SetOf(Reversed(s.ins)) = SetOf(s.ins)
    BY <2>1, <2>3, ReversedFacts DEF GateOf
  <2>5. /\ \A i \in B : \E g \in 1 .. n : gates[g] = GateOf(file[i])
        /\ \A g \in 1 .. n : \E i \in B : gates[g] = GateOf(file[i])
        /\ \A g \in 1 .. n : {gates[g].out} \cup SetOf(gates[g].ins) \subseteq SetOf(lines)
    BY <2>3 DEF ReadInv
  <2>6. \A i \in B' : \E g \in DOMAIN gates' : gates'[g] = GateOf(file'[i])
    <3> SUFFICES ASSUME NEW i \in B' PROVE \E g \in DOMAIN gates' : gates'[g] = GateOf(file[i])
      BY <2>1
    <3> HIDE DEF n, B, s
    <3>1. CASE i = at
      <4>1. n + 1 \in DOMAIN gates'
        BY <2>3
      <4> QED BY <2>3, <3>1, <4>1 DEF s
    <3>2. CASE i \in B
      <4>1. PICK g \in 1 .. n : gates[g] = GateOf(file[i])
        BY <2>5, <3>2
      <4>2. g \in DOMAIN gates' /\ gates'[g] = GateOf(file[i])
        BY <2>3, <4>1
      <4> QED BY <4>2
    <3> QED BY <2>1, <3>1, <3>2
  <2>7. \A g \in DOMAIN gates' : \E i \in B' : gates'[g] = GateOf(file'[i])
    <3> SUFFICES ASSUME NEW g \in 1 .. n + 1 PROVE \E i \in B' : gates'[g] = GateOf(file[i])
      BY <2>1, <2>3
    <3>1. CASE g = n + 1
      BY <2>1, <2>3, <3>1
    <3>2. CASE g \in 1 .. n
      <4>1. PICK i \in B : gates[g] = GateOf(file[i])
        BY <2>5, <3>2
      <4>2. i \in B' /\ gates'[g] = GateOf(file[i])
        BY <2>1, <2>3, <3>2, <4>1
      <4> QED BY <4>2
    <3> QED BY <2>3, <3>1, <3>2
  <2>8. \A g \in DOMAIN gates' : {gates'[g].out} \cup SetOf(gates'[g].ins) \subseteq SetOf(lines')
    <3> SUFFICES ASSUME NEW g \in 1 .. n + 1
                 PROVE  {gates'[g].out} \cup SetOf(gates'[g].ins) \subseteq SetOf(lines')
      BY <2>3
    <3>1. CASE g = n + 1
      BY <2>3, <2>4, <3>1
    <3>2. CASE g \in 1 .. n
      BY <2>3, <2>5, <3>2
    <3> QED BY <2>3, <3>1, <3>2
  <2>9. ASSUME Driven(file) PROVE \A g \in DOMAIN gates' : source'[gates'[g].out] = g
    <3> SUFFICES ASSUME NEW g \in 1 .. n + 1 PROVE source'[gates'[g].out] = g
      BY <2>3
    <3>1. source \in [Names -> {NULL_INDEX} \cup 1 .. n]
      BY DEF TypeOK, GraphTypeOK
    <3>2. CASE g = n + 1
      BY <2>1, <2>3, <2>4, <3>1, <3>2
    <3>3. CASE g \in 1 .. n
      <4>1. PICK i \in B : gates[g] = GateOf(file[i])
        BY <2>5, <3>3
      <4>2. i \in Statements(file, "lut") /\ i < at /\ at \in Statements(file, "lut")
        BY <2>1 DEF Before, Statements
      <4>3. i # at
        BY <4>2 DEF TypeOK, GraphTypeOK
      <4>4. file[i].name # s.name
        BY <2>9, <4>2, <4>3 DEF Driven
      <4>5. gates'[g].out = file[i].name /\ gates'[g].out = gates[g].out
        BY <2>3, <3>3, <4>1 DEF GateOf
      <4>6. source[gates[g].out] = g
        BY <2>3, <2>9, <3>3 DEF ReadInv
      <4>7. gates[g].out \in Names
        BY <2>3, <3>3, GateFacts
      <4> HIDE DEF s
      <4> QED BY <2>3, <3>1, <4>4, <4>5, <4>6, <4>7
    <3> QED BY <2>3, <3>2, <3>3
  <2>10. SetOf(inputs') \cup SetOf(outputs') \subseteq SetOf(lines')
    BY <2>2, <2>3 DEF ReadInv
  <2>11. /\ SetOf(inputs') = {file'[i].name : i \in Before("input")'}
         /\ SetOf(outputs') = {file'[i].name : i \in Before("output")'}
    BY <2>1, <2>2 DEF ReadInv
  <2>12. Distinct(inputs') /\ Distinct(outputs')
    BY <1>3, <2>2
  <2> HIDE DEF s, n
  <2> QED BY <2>1, <2>3, <2>6, <2>7, <2>8, <2>9, <2>10, <2>11, <2>12 DEF ReadInv
<1>7. ASSUME SkipLine PROVE ReadInv'
  <2>1. /\ Before("input")' = Before("input") /\ Before("lut")' = Before("lut")
        /\ Before("output")' = Before("output") /\ file' = file /\ phase' = "parse"
    BY <1>1, <1>7 DEF SkipLine
  <2>2. UNCHANGED <<lines, inputs, outputs, gates, source>>
    BY <1>7 DEF SkipLine
  <2> QED BY <2>1, <2>2 DEF ReadInv
<1>8. ASSUME UNCHANGED <<file, at, lines, inputs, outputs, gates, source>> PROVE ReadInv'
  <2>1. \A k : Before(k)' = Before(k)
    BY <1>8 DEF Before
  <2>2. phase' # "parse" => at = Len(file) + 1
    <3>1. CASE phase # "parse"
      BY <3>1 DEF ReadInv
    <3>2. CASE phase = "parse" /\ phase' # "parse"
      <4>1. Parsed
        BY <3>2 DEF Next, Step, Parse, AddInput, AddOutput, AddGate, SkipLine, Reading, CallNothing,
             Call, ReturnFrom, Stimuli, RandomStimuli, FullStimuli, NoSuchBit, NeedNodes,
             StartMarking, GroupByLevel, Mark, CutNext, CutStep, Order, NoDepth, SingleNodeSim,
             Simulate, TakeLeaf, TakeGate, MultiplyOut, SetSimInfo, Report, ShortTable, Stopped
      <4>2. at > Len(file) /\ at \in 1 .. Len(file) + 1 /\ Len(file) \in Nat
        BY <4>1 DEF Parsed, TypeOK, GraphTypeOK
      <4> QED BY <4>2
    <3> QED BY <3>1, <3>2
  <2> QED BY <1>8, <2>1, <2>2 DEF ReadInv
<1> QED BY <1>4, <1>5, <1>6, <1>7, <1>8, GraphSteps

-----------------------------------------------------------------------------
(***************************************************************************)
(* Files of write_bench                                                    *)
(***************************************************************************)
(* Whatever comes before an input, before an output, and what names twice. *)
LEMMA WrittenFacts ==
  ASSUME TypeOK, Written(file), NEW i \in DOMAIN file, NEW j \in DOMAIN file, i < j
  PROVE  /\ file[j].kind = "input" => file[i].kind = "input"
         /\ file[j].kind = "output" => file[i].kind \in {"input", "output"}
         /\ file[i].kind = file[j].kind /\ file[i].kind # "other" => file[i].name # file[j].name
         /\ file[i].kind = "input" /\ file[j].kind = "output" => file[i].name # file[j].name
<1>1. /\ file[j].kind = "input" => file[i].kind = "input"
      /\ file[j].kind = "output" => file[i].kind \in {"input", "output"}
      /\ file[i].kind = file[j].kind /\ file[i].kind # "other" => file[i].name # file[j].name
  BY DEF Written
<1>2. ASSUME file[i].kind = "input", file[j].kind = "output", file[i].name = file[j].name
      PROVE  FALSE
  <2>1. file[i].name \in Declared(file, "input") /\ file[j].name \in Declared(file, "output")
    BY <1>2 DEF Declared, Statements
  <2>2. file[j].name \in Declared(file, "lut")
    BY <2>1 DEF Written, Driven
  <2> QED BY <1>2, <2>1, <2>2 DEF Written, Driven, InputsUndriven
<1> QED BY <1>1, <1>2

(* A sequence without elements, or with all of them new.                   *)
LEMMA EmptySetOf == \A s \in Seq(Names) : SetOf(s) = {} => s = <<>> /\ Len(s) = 0
<1> SUFFICES ASSUME NEW s \in Seq(Names), SetOf(s) = {} PROVE s = <<>> /\ Len(s) = 0
  OBVIOUS
<1>1. DOMAIN s = 1 .. Len(s) /\ Len(s) \in Nat
  OBVIOUS
<1>2. Len(s) = 0
  <2> SUFFICES ASSUME Len(s) # 0 PROVE FALSE
    OBVIOUS
  <2>1. s[1] \in SetOf(s)
    BY <1>1 DEF SetOf
  <2> QED BY <2>1
<1> QED BY <1>2

(* Lines are numbered in the order of their declarations.                  *)
LEMMA OrderStep ==
  ASSUME TypeOK, ReadInv, OrderInv, Next
  PROVE  OrderInv'
<1>0. /\ lines \in Seq(Names) /\ inputs \in Seq(Names) /\ outputs \in Seq(Names)
      /\ DOMAIN lines = 1 .. Len(lines) /\ DOMAIN inputs = 1 .. Len(inputs)
      /\ DOMAIN outputs = 1 .. Len(outputs)
      /\ Len(lines) \in Nat /\ Len(inputs) \in Nat /\ Len(outputs) \in Nat
      /\ DOMAIN file = 1 .. Len(file) /\ Len(file) \in Nat
  BY DEF TypeOK, GraphTypeOK
<1> DEFINE a == Len(inputs)
           b == Len(outputs)
           l == file[at].name
<1>1. ASSUME Written(file)
      PROVE  /\ \A i \in 1 .. a : i \in DOMAIN lines /\ lines[i] = inputs[i]
             /\ \A i \in 1 .. b : a + i \in DOMAIN lines /\ lines[a + i] = outputs[i]
             /\ Before("lut") = {} => Len(lines) = a + b
  BY <1>0, <1>1 DEF OrderInv
<1>2. ASSUME AddInput, Written(file)
      PROVE  OrderInv'
  <2>1. /\ at \in DOMAIN file /\ file[at].kind = "input" /\ l \in Names /\ file' = file
        /\ Before("lut")' = Before("lut")
    BY <1>0, <1>2, ReadFacts, BeforeStep DEF AddInput
  <2>2. \A i \in DOMAIN file : i < at => file[i].kind = "input" /\ file[i].name # l
    BY <1>2, <2>1, WrittenFacts
  <2>3. Before("lut") = {} /\ Before("output") = {}
    BY <2>2 DEF Before, Statements
  <2>4. SetOf(outputs) = {}
    BY <2>3 DEF ReadInv
  <2>5. b = 0 /\ outputs = <<>>
    BY <1>0, <2>4, EmptySetOf
  <2>6. l \notin SetOf(inputs)
    BY <2>2 DEF ReadInv, Before, Statements
  <2>7. Len(lines) = a /\ \A i \in 1 .. a : lines[i] = inputs[i]
    <3>1. Len(lines) = a + b /\ \A i \in 1 .. a : lines[i] = inputs[i]
      BY <1>1, <1>2, <2>3
    <3>2. a \in Nat
      BY <1>0
    <3> HIDE DEF a, b
    <3> QED BY <2>5, <3>1, <3>2
  <2>8. l \notin SetOf(lines)
    BY <1>0, <2>6, <2>7 DEF SetOf
  <2>9. inputs' = Append(inputs, l) /\ lines' = Append(lines, l) /\ outputs' = outputs
    BY <1>2, <2>6, <2>8 DEF AddInput, IsInput, EnsureLine
  <2> HIDE DEF a, b, l
  <2>10. /\ DOMAIN inputs' = 1 .. a + 1 /\ Len(inputs') = a + 1
         /\ \A i \in 1 .. a : inputs'[i] = inputs[i]
         /\ inputs'[a + 1] = l
    BY <1>0, <2>1, <2>9, AppendFacts DEF a
  <2>11. /\ DOMAIN lines' = 1 .. a + 1 /\ Len(lines') = a + 1
         /\ \A i \in 1 .. a : lines'[i] = lines[i]
         /\ lines'[a + 1] = l
    BY <1>0, <2>1, <2>7, <2>9, AppendFacts
  <2>12. a \in Nat
    BY <1>0 DEF a
  <2>13. \A i \in DOMAIN inputs' : i \in DOMAIN lines' /\ lines'[i] = inputs'[i]
    <3> SUFFICES ASSUME NEW i \in 1 .. a + 1 PROVE i \in DOMAIN lines' /\ lines'[i] = inputs'[i]
      BY <2>10
    <3>1. CASE i = a + 1
      BY <2>10, <2>11, <3>1
    <3>2. CASE i \in 1 .. a
      BY <2>7, <2>10, <2>11, <3>2
    <3> QED BY <2>12, <3>1, <3>2
  <2>14. Len(outputs') = 0 /\ DOMAIN outputs' = {}
    BY <2>5, <2>9
  <2>15. Len(lines') = Len(inputs') + Len(outputs')
    BY <2>10, <2>11, <2>12, <2>14
  <2> QED BY <2>13, <2>14, <2>15 DEF OrderInv
<1>3. ASSUME AddOutput, Written(file)
      PROVE  OrderInv'
  <2>1. /\ at \in DOMAIN file /\ file[at].kind = "output" /\ l \in Names /\ file' = file
        /\ Before("lut")' = Before("lut")
    BY <1>0, <1>3, ReadFacts, BeforeStep DEF AddOutput
  <2>2. \A i \in DOMAIN file : i < at =>
          file[i].kind \in {"input", "output"} /\ file[i].name # l
    BY <1>3, <2>1, WrittenFacts
  <2>3. Before("lut") = {}
    BY <2>2 DEF Before, Statements
  <2>4. l \notin SetOf(inputs) /\ l \notin SetOf(outputs)
    BY <2>2 DEF ReadInv, Before, Statements
  <2>5. /\ Len(lines) = a + b
        /\ \A i \in 1 .. a : lines[i] = inputs[i]
        /\ \A i \in 1 .. b : lines[a + i] = outputs[i]
    BY <1>1, <1>3, <2>3
  <2>6. l \notin SetOf(lines)
    <3> SUFFICES ASSUME NEW i \in 1 .. a + b PROVE lines[i] # l
      BY <1>0, <2>5 DEF SetOf
    <3>1. CASE i \in 1 .. a
      BY <1>0, <2>4, <2>5, <3>1 DEF SetOf
    <3>2. CASE i \notin 1 .. a
      <4>1. i - a \in 1 .. b /\ a + (i - a) = i
        BY <1>0, <3>2
      <4>2. lines[i] = outputs[i - a]
        BY <2>5, <4>1
      <4> QED BY <1>0, <2>4, <4>1, <4>2 DEF SetOf
    <3> QED BY <3>1, <3>2
  <2>7. outputs' = Append(outputs, l) /\ lines' = Append(lines, l) /\ inputs' = inputs
    BY <1>3, <2>4, <2>6 DEF AddOutput, IsOutput, EnsureLine
  <2> HIDE DEF a, b, l
  <2>8. /\ DOMAIN outputs' = 1 .. b + 1 /\ Len(outputs') = b + 1
        /\ \A i \in 1 .. b : outputs'[i] = outputs[i]
        /\ outputs'[b + 1] = l
    BY <1>0, <2>1, <2>7, AppendFacts DEF b
  <2>9. /\ DOMAIN lines' = 1 .. (a + b) + 1 /\ Len(lines') = (a + b) + 1
        /\ \A i \in 1 .. (a + b) : lines'[i] = lines[i]
        /\ lines'[(a + b) + 1] = l
    BY <1>0, <2>1, <2>5, <2>7, AppendFacts
  <2>10. a \in Nat /\ b \in Nat /\ Len(inputs') = a /\ DOMAIN inputs' = 1 .. a
    BY <1>0, <2>7 DEF a, b
  <2>11. \A i \in DOMAIN inputs' : i \in DOMAIN lines' /\ lines'[i] = inputs'[i]
    BY <2>5, <2>7, <2>9, <2>10
  <2>12. \A i \in DOMAIN outputs' :
           Len(inputs') + i \in DOMAIN lines' /\ lines'[Len(inputs') + i] = outputs'[i]
    <3> SUFFICES ASSUME NEW i \in 1 .. b + 1
                 PROVE  a + i \in DOMAIN lines' /\ lines'[a + i] = outputs'[i]
      BY <2>8, <2>10
    <3>1. CASE i = b + 1
      <4>1. a + i = (a + b) + 1 /\ (a + b) + 1 \in 1 .. (a + b) + 1
        BY <2>10, <3>1
      <4> QED BY <2>8, <2>9, <3>1, <4>1
    <3>2. CASE i \in 1 .. b
      <4>1. a + i \in 1 .. a + b /\ a + i \in 1 .. (a + b) + 1
        BY <2>10, <3>2
      <4> QED BY <2>5, <2>8, <2>9, <3>2, <4>1
    <3> QED BY <2>10, <3>1, <3>2
  <2>13. Len(lines') = Len(inputs') + Len(outputs')
    BY <2>8, <2>9, <2>10
  <2> QED BY <2>11, <2>12, <2>13 DEF OrderInv
<1>4. ASSUME AddGate, Written(file)
      PROVE  OrderInv'
  <2>1. /\ at \in Before("lut")' /\ UNCHANGED <<inputs, outputs>>
    BY <1>4, BeforeStep DEF AddGate
  <2>2. Extends(lines, lines')
    BY <1>4, AddGateFacts
  <2>3. \A i \in DOMAIN lines : i \in DOMAIN lines' /\ lines'[i] = lines[i]
    BY <2>2 DEF Extends
  <2>4. /\ \A i \in DOMAIN inputs : i \in DOMAIN lines' /\ lines'[i] = inputs[i]
        /\ \A i \in DOMAIN outputs : a + i \in DOMAIN lines' /\ lines'[a + i] = outputs[i]
    BY <1>0, <1>1, <1>4, <2>3
  <2> QED BY <2>1, <2>4 DEF OrderInv
<1>5. ASSUME SkipLine PROVE OrderInv'
  <2>1. /\ Before("lut")' = Before("lut") /\ UNCHANGED <<file, lines, inputs, outputs>>
    BY <1>5, BeforeStep DEF SkipLine, Reading
  <2> QED BY <2>1 DEF OrderInv
<1>6. ASSUME UNCHANGED <<file, at, lines, inputs, outputs, gates, source>> PROVE OrderInv'
  <2>1. Before("lut")' = Before("lut")
    BY <1>6 DEF Before
  <2> QED BY <1>6, <2>1 DEF OrderInv
<1>7. AddInput \/ AddOutput \/ AddGate => file' = file
  BY DEF AddInput, AddOutput, AddGate, Reading
<1>8. (AddInput \/ AddOutput \/ AddGate) /\ ~Written(file) => OrderInv'
  BY <1>7 DEF OrderInv
<1> QED BY <1>2, <1>3, <1>4, <1>5, <1>6, <1>8, GraphSteps

(* The place of an input among the lines is that among the inputs.         *)
LEMMA IndexFacts ==
  ASSUME TypeOK, ReadInv, OrderInv, Written(file), NEW i \in DOMAIN inputs
  PROVE  IndexOf(inputs[i]) = i
<1> DEFINE l == inputs[i]
<1>1. i \in DOMAIN lines /\ lines[i] = l
  BY DEF OrderInv
<1>2. IndexOf(l) \in DOMAIN lines /\ lines[IndexOf(l)] = l
  BY <1>1 DEF IndexOf
<1> QED BY <1>1, <1>2 DEF ReadInv, Distinct

(* No gate drives an input.                                                *)
LEMMA InputsNotDriven ==
  ASSUME TypeOK, ReadInv, InputsUndriven(file), NEW g \in DOMAIN gates
  PROVE  gates[g].out \notin SetOf(inputs)
<1>1. PICK i \in Before("lut") : gates[g] = GateOf(file[i])
  BY DEF ReadInv
<1>2. gates[g].out = file[i].name /\ i \in Statements(file, "lut")
  BY <1>1 DEF GateOf, Before
<1>3. gates[g].out \in Declared(file, "lut")
  BY <1>2 DEF Declared
<1>4. SetOf(inputs) \subseteq Declared(file, "input")
  BY DEF ReadInv, Declared, Before
<1> QED BY <1>3, <1>4 DEF InputsUndriven

(* Once they have their values nothing changes those of the inputs.        *)
LEMMA InputsKeepValues ==
  ASSUME TypeOK, ReadInv, BlankInv, InputsUndriven(file), Next,
         phase' \in {"depth", "mark", "simulate", "done"}
  PROVE  \/ Stimuli /\ phase' # "outOfBounds"
         \/ /\ phase \in {"depth", "mark", "simulate", "done"}
            /\ UNCHANGED <<file, lines, inputs, outputs, gates, mode>>
            /\ \A l \in SetOf(inputs) : sim'[l] = sim[l]
<1>0. SetOf(inputs) \subseteq Names
  BY DEF TypeOK, GraphTypeOK, SetOf
<1>1. phase' # "parse" /\ phase' # "stimuli" /\ phase' # "outOfBounds"
  OBVIOUS
<1>2. ~Parse
  BY DEF Parse, AddInput, AddOutput, AddGate, SkipLine, Parsed, Reading
<1>3. ~NoDepth /\ ~ShortTable /\ ~\E l \in Names : CallNothing(l)
  BY DEF NoDepth, ShortTable, OutOfBounds, CallNothing
<1>4. ASSUME NEW l \in Names, Call(l), UNCHANGED simVars
      PROVE  phase = "depth" /\ UNCHANGED <<file, lines, inputs, outputs, gates, mode, sim>>
  BY <1>4 DEF Call, simVars
<1>5. ASSUME NEW g \in DOMAIN gates, ReturnFrom(g), UNCHANGED simVars
      PROVE  phase = "depth" /\ UNCHANGED <<file, lines, inputs, outputs, gates, mode, sim>>
  BY <1>5 DEF ReturnFrom, simVars
<1>6. ASSUME Run, ~Stimuli
      PROVE  /\ phase \in {"depth", "mark", "simulate"}
             /\ UNCHANGED <<file, lines, inputs, outputs, gates, mode>>
  <2>1. UNCHANGED <<file, lines, inputs, outputs, gates>>
    BY <1>6, RunKeepsGraph DEF graphVars
  <2>2. mode' = mode /\ phase \in {"depth", "mark", "simulate"}
    BY <1>3, <1>6 DEF Run, NeedNodes, StartMarking, GroupByLevel, Mark, CutNext, CutStep, Order,
      SingleNodeSim, Simulate, TakeLeaf, TakeGate, MultiplyOut, SetSimInfo, Report
  <2> QED BY <2>1, <2>2
<1>7. ASSUME Run, ~Stimuli, ~SetSimInfo PROVE sim' = sim
  BY <1>3, <1>7 DEF Run, NeedNodes, StartMarking, GroupByLevel, Mark, CutNext, CutStep, Order,
      SingleNodeSim, Simulate, TakeLeaf, TakeGate, MultiplyOut, Report
<1>8. ASSUME SetSimInfo PROVE \A l \in SetOf(inputs) : sim'[l] = sim[l]
  <2>1. root \in DOMAIN gates /\ sim' = [sim EXCEPT ![gates[root].out] = Output(root)]
    BY <1>8 DEF SetSimInfo, TypeOK
  <2>2. gates[root].out \notin SetOf(inputs)
    BY <2>1, InputsNotDriven
  <2> QED BY <1>0, <2>1, <2>2 DEF TypeOK
<1>9. ASSUME Stopped
      PROVE  phase' = phase /\ UNCHANGED <<file, lines, inputs, outputs, gates, mode, sim>>
  BY <1>9 DEF Stopped, vars, graphVars, simVars
<1>10. CASE Run
  <2>1. CASE Stimuli
    BY <1>1, <2>1
  <2>2. CASE ~Stimuli
    BY <1>6, <1>7, <1>8, <1>10, <2>2
  <2> QED BY <2>1, <2>2
<1> QED BY <1>2, <1>3, <1>4, <1>5, <1>9, <1>10 DEF Next, Step, Run

(* full_simulate gives the inputs of a written file every assignment.      *)
LEMMA FullStep ==
  ASSUME TypeOK, ReadInv, BlankInv, OrderInv, FullInv, Next
  PROVE  FullInv'
<1> SUFFICES ASSUME mode' = "full", Written(file'), phase' \in {"depth", "mark", "simulate", "done"}
             PROVE  (\A i \in DOMAIN inputs : \A p \in Patterns :
                       sim[inputs[i]][p] = Bit(p - 1, Len(inputs) - i))'
  BY DEF FullInv
<1>1. file' = file
  <2>1. Reading("input") \/ Reading("output") \/ Reading("lut") \/ Reading("other") => file' = file
    BY DEF Reading
  <2> QED BY <2>1, GraphSteps DEF AddInput, AddOutput, AddGate, SkipLine
<1>2. InputsUndriven(file) /\ Written(file)
  BY <1>1 DEF Written, Driven
<1>3. CASE Stimuli /\ phase' # "outOfBounds"
  <2>1. inputs' = inputs /\ mode' = mode
    BY <1>3 DEF Stimuli, RandomStimuli, FullStimuli, NoSuchBit, OutOfBounds, graphVars
  <2>2. \A l \in SetOf(inputs) :
          sim'[l] = [p \in Patterns |-> Bit(p - 1, Len(inputs) - IndexOf(l))]
    BY <1>3, <2>1, StimuliFacts
  <2>3. Patterns' = Patterns
    BY <2>1 DEF Patterns
  <2>4. ASSUME NEW i \in DOMAIN inputs, NEW p \in Patterns
        PROVE  sim'[inputs[i]][p] = Bit(p - 1, Len(inputs) - i)
    <3>1. inputs[i] \in SetOf(inputs)
      BY DEF SetOf
    <3>2. IndexOf(inputs[i]) = i
      BY <1>2, IndexFacts
    <3>3. sim'[inputs[i]] = [q \in Patterns |-> Bit(q - 1, Len(inputs) - IndexOf(inputs[i]))]
      BY <2>2, <3>1
    <3>4. sim'[inputs[i]][p] = Bit(p - 1, Len(inputs) - IndexOf(inputs[i]))
      BY <3>3, Zenon
    <3> QED BY <3>2, <3>4, Zenon
  <2> QED BY <2>1, <2>3, <2>4
<1>4. CASE /\ phase \in {"depth", "mark", "simulate", "done"}
           /\ UNCHANGED <<file, lines, inputs, outputs, gates, mode>>
           /\ \A l \in SetOf(inputs) : sim'[l] = sim[l]
  <2>1. \A i \in DOMAIN inputs : sim'[inputs[i]] = sim[inputs[i]]
    BY <1>4 DEF SetOf
  <2>2. Patterns' = Patterns
    BY <1>4 DEF Patterns
  <2>3. \A i \in DOMAIN inputs : \A p \in Patterns :
          sim[inputs[i]][p] = Bit(p - 1, Len(inputs) - i)
    BY <1>2, <1>4 DEF FullInv
  <2> QED BY <1>4, <2>1, <2>2, <2>3
<1> QED BY <1>2, <1>3, <1>4, InputsKeepValues

-----------------------------------------------------------------------------
(***************************************************************************)
(* No vector is read outside of its bounds                                 *)
(***************************************************************************)
(* In a written file, the LUTs of the file and the gates correspond.       *)
LEMMA GateOfLut ==
  ASSUME TypeOK, SourceInv, ReadInv, Driven(file), phase # "parse", NEW i \in Statements(file, "lut")
  PROVE  /\ source[file[i].name] \in DOMAIN gates
         /\ gates[source[file[i].name]] = GateOf(file[i])
         /\ file[i].name \notin SetOf(inputs)
<1>1. Before("lut") = Statements(file, "lut")
  BY AllRead
<1>2. PICK g \in DOMAIN gates : gates[g] = GateOf(file[i])
  BY <1>1 DEF ReadInv
<1>3. gates[g].out = file[i].name
  BY <1>2 DEF GateOf
<1>4. source[file[i].name] = g
  BY <1>3 DEF ReadInv
<1>5. file[i].name \notin SetOf(inputs)
  BY <1>3, InputsNotDriven DEF Driven
<1> QED BY <1>2, <1>4, <1>5

(* A line that is not an input and that is read or put out is driven.      *)
LEMMA WantedDriven ==
  ASSUME TypeOK, SourceInv, ReadInv, Driven(file), phase # "parse", NEW l,
         \/ IsOutput(l)
         \/ ~IsInput(l) /\ \E g \in DOMAIN gates : l \in SetOf(gates[g].ins)
  PROVE  l \in Declared(file, "lut") /\ source[l] \in DOMAIN gates
<1>1. \A k : Before(k) = Statements(file, k)
  BY AllRead
<1>2. l \in Declared(file, "lut")
  <2>1. CASE IsOutput(l)
    <3>1. l \in Declared(file, "output")
      BY <1>1, <2>1 DEF ReadInv, IsOutput, Declared
    <3> QED BY <3>1 DEF Driven
  <2>2. CASE ~IsInput(l) /\ \E g \in DOMAIN gates : l \in SetOf(gates[g].ins)
    <3>1. PICK g \in DOMAIN gates : l \in SetOf(gates[g].ins)
      BY <2>2
    <3>2. PICK i \in Statements(file, "lut") : gates[g] = GateOf(file[i])
      BY <1>1 DEF ReadInv
    <3>3. file[i].ins \in Seq(Names)
      <4>1. file \in Seq(Statement) /\ i \in DOMAIN file
        BY DEF TypeOK, GraphTypeOK, Statements
      <4>2. file[i] \in Statement
        BY <4>1
      <4> QED BY <4>2 DEF Statement
    <3>4. l \in SetOf(file[i].ins)
      BY <3>1, <3>2, <3>3, ReversedFacts DEF GateOf
    <3>5. l \notin Declared(file, "input")
      BY <1>1, <2>2 DEF ReadInv, IsInput, Declared
    <3> QED BY <3>4, <3>5 DEF Driven
  <2> QED BY <2>1, <2>2
<1>3. PICK i \in Statements(file, "lut") : l = file[i].name
  BY <1>2 DEF Declared
<1> QED BY <1>2, <1>3, GateOfLut

(* In a written file every gate is in the cone of an output.               *)
LEMMA AllLevelled ==
  ASSUME TypeOK, SourceInv, LevelInv, ReadInv, Written(file), phase # "parse",
         \A o \in SetOf(outputs) : source[o] \in called /\ ~Unlevelled(source[o])
  PROVE  \A g \in DOMAIN gates : ~Unlevelled(g)
<1> DEFINE L == Statements(file, "lut")
           driver(i) == source[file[i].name]
           S == {i \in L : Unlevelled(driver(i))}
<1>1. Driven(file) /\ \A k : Before(k) = Statements(file, k)
  BY AllRead DEF Written
<1>2. S = {}
  <2> SUFFICES ASSUME S # {} PROVE FALSE
    OBVIOUS
  <2>1. PICK i \in S : \A j \in S : file[i].name \notin SetOf(file[j].ins)
    BY <1>1 DEF Driven
  <2>2. i \in L /\ Unlevelled(driver(i))
    OBVIOUS
  <2>3. CASE file[i].name \in Declared(file, "output")
    <3>1. file[i].name \in SetOf(outputs)
      BY <1>1, <2>3 DEF ReadInv, Declared
    <3> QED BY <2>2, <3>1
  <2>4. CASE \E j \in L : file[i].name \in SetOf(file[j].ins)
    <3>1. PICK j \in L : file[i].name \in SetOf(file[j].ins)
      BY <2>4
    <3>2. ~Unlevelled(driver(j))
      BY <2>1, <3>1
    <3>3. driver(j) \in DOMAIN gates /\ gates[driver(j)] = GateOf(file[j])
      BY <1>1, <3>1, GateOfLut
    <3>4. file[j].ins \in Seq(Names)
      <4>1. file \in Seq(Statement) /\ j \in DOMAIN file
        BY <3>1 DEF TypeOK, GraphTypeOK, Statements
      <4>2. file[j] \in Statement
        BY <4>1
      <4> QED BY <4>2 DEF Statement
    <3>5. file[i].name \in SetOf(gates[driver(j)].ins)
      BY <3>1, <3>3, <3>4, ReversedFacts DEF GateOf
    <3>6. ~IsInput(file[i].name)
      BY <1>1, <2>2, GateOfLut DEF IsInput
    <3>7. level[driver(i)] # NO_LEVEL
      BY <3>2, <3>3, <3>5, <3>6, DriverFacts DEF LevelInv, Unlevelled
    <3> QED BY <2>2, <3>7 DEF Unlevelled
  <2> QED BY <2>2, <2>3, <2>4 DEF Written
<1>3. ASSUME NEW g \in DOMAIN gates PROVE ~Unlevelled(g)
  <2>1. PICK i \in L : gates[g] = GateOf(file[i])
    BY <1>1 DEF ReadInv
  <2>2. driver(i) = g
    BY <1>1, <2>1 DEF ReadInv, GateOf
  <2> HIDE DEF driver
  <2> QED BY <1>2, <2>1, <2>2
<1> QED BY <1>3

(* Fewer than two inputs are fewer than two names.                         *)
LEMMA FewNames ==
  ASSUME NEW s \in Seq(Names), Len(s) < 2
  PROVE  Cardinality(SetOf(s)) \in {0, 1}
<1>1. DOMAIN s = 1 .. Len(s) /\ Len(s) \in Nat
  OBVIOUS
<1>2. CASE Len(s) = 0
  <2>1. SetOf(s) = {}
    BY <1>1, <1>2 DEF SetOf
  <2> QED BY <2>1, FS_EmptySet
<1>3. CASE Len(s) = 1
  <2>1. DOMAIN s = {1}
    BY <1>1, <1>3
  <2>2. SetOf(s) = {s[1]}
    BY <2>1 DEF SetOf
  <2> QED BY <2>2, FS_Singleton
<1> QED BY <1>1, <1>2, <1>3

(* For a file of write_bench nothing is read out of bounds.                *)
LEMMA BoundsStep ==
  ASSUME TypeOK, SourceInv, LevelInv, ReadInv, OrderInv, InBounds, Next
  PROVE  InBounds'
<1> SUFFICES ASSUME phase' = "outOfBounds", Written(file'),
                    mode' = "full" => Cardinality(Declared(file', "input")) >= 2
             PROVE  FALSE
  BY DEF InBounds
<1>0. Written(file') => Driven(file')
  BY DEF Written
<1>1. ~Parse
  BY DEF Parse, AddInput, AddOutput, AddGate, SkipLine, Parsed, Reading
<1>2. ASSUME UNCHANGED <<file, mode>>, phase # "parse"
      PROVE  /\ Written(file) /\ Driven(file) /\ \A k : Before(k) = Statements(file, k)
             /\ mode = "full" => Cardinality(Declared(file, "input")) >= 2
  BY <1>0, <1>2, AllRead
<1>3. ASSUME NEW l \in Names, CallNothing(l), UNCHANGED simVars PROVE FALSE
  <2>1. phase = "depth" /\ l \in WantedLines /\ source[l] = NULL_INDEX /\ UNCHANGED <<file, mode>>
    BY <1>3 DEF CallNothing, graphVars, simVars
  <2>2. \/ IsOutput(l)
        \/ ~IsInput(l) /\ \E g \in DOMAIN gates : l \in SetOf(gates[g].ins)
    BY <2>1 DEF WantedLines, IsOutput, TypeOK, GraphTypeOK
  <2>3. source[l] \in DOMAIN gates
    BY <1>2, <2>1, <2>2, WantedDriven
  <2> QED BY <2>1, <2>3 DEF TypeOK, GraphTypeOK, NULL_INDEX
<1>4. ASSUME NoSuchBit PROVE FALSE
  <2>1. phase = "stimuli" /\ UNCHANGED <<file, mode>>
    BY <1>4 DEF NoSuchBit, OutOfBounds, graphVars, simVars
  <2>2. PICK l \in SetOf(inputs) : IndexOf(l) > Len(inputs)
    BY <1>4 DEF NoSuchBit
  <2>3. PICK i \in DOMAIN inputs : l = inputs[i]
    BY DEF SetOf
  <2>4. IndexOf(l) = i
    BY <1>2, <2>1, <2>3, IndexFacts
  <2>5. i \in 1 .. Len(inputs) /\ Len(inputs) \in Nat
    BY DEF TypeOK, GraphTypeOK
  <2> QED BY <2>2, <2>4, <2>5
<1>5. ASSUME StartMarking PROVE FALSE
  <2>1. /\ phase = "depth" /\ UNCHANGED <<file, mode>>
        /\ \A o \in SetOf(outputs) : source[o] \in called /\ ~Unlevelled(source[o])
        /\ \E g \in DOMAIN gates : Unlevelled(g)
    BY <1>5 DEF StartMarking, GroupByLevel, graphVars
  <2> QED BY <1>2, <2>1, AllLevelled
<1>6. ASSUME NoDepth PROVE FALSE
  <2>1. phase = "mark" /\ outputs = <<>> /\ UNCHANGED <<file, mode>>
    BY <1>6 DEF NoDepth, OutOfBounds, graphVars, simVars
  <2>2. SetOf(outputs) = {}
    BY <2>1 DEF SetOf
  <2>3. Statements(file, "output") = {}
    <3>1. Before("output") = Statements(file, "output")
      BY <1>2, <2>1
    <3>2. SetOf(outputs) = {file[i].name : i \in Before("output")}
      BY DEF ReadInv
    <3> QED BY <2>2, <3>1, <3>2
  <2> QED BY <1>2, <2>1, <2>3 DEF Written
<1>7. ASSUME ShortTable PROVE FALSE
  <2>1. phase = "simulate" /\ mode = "full" /\ Len(inputs) < 2 /\ UNCHANGED <<file, mode>>
    BY <1>7 DEF ShortTable, OutOfBounds, graphVars, simVars
  <2>2. SetOf(inputs) = Declared(file, "input")
    <3>1. Before("input") = Statements(file, "input")
      BY <1>2, <2>1
    <3>2. SetOf(inputs) = {file[i].name : i \in Before("input")}
      BY DEF ReadInv
    <3> QED BY <3>1, <3>2 DEF Declared
  <2>3. inputs \in Seq(Names)
    BY DEF TypeOK, GraphTypeOK
  <2>4. Cardinality(SetOf(inputs)) \in {0, 1}
    BY <2>1, <2>3, FewNames
  <2>5. Cardinality(SetOf(inputs)) >= 2
    BY <1>2, <2>1, <2>2
  <2> QED BY <2>4, <2>5
<1>8. ASSUME Stopped PROVE FALSE
  BY <1>8 DEF Stopped, vars, graphVars, simVars, InBounds
<1>9. ~RandomStimuli /\ ~FullStimuli
  BY DEF RandomStimuli, FullStimuli
<1>10. ~Mark /\ ~CutNext /\ ~CutStep /\ ~Order
  <2>1. ~Mark /\ ~CutNext
    BY DEF Mark, CutNext, TypeOK
  <2>2. ~CutStep /\ ~Order
    BY DEF CutStep, Order, TypeOK
  <2> QED BY <2>1, <2>2
<1>11. ~SingleNodeSim /\ ~Report
  <2>1. ~Simulate /\ ~TakeLeaf /\ ~TakeGate
    BY DEF Simulate, TakeLeaf, TakeGate, TypeOK
  <2>2. ~MultiplyOut /\ ~SetSimInfo /\ ~Report
    BY DEF MultiplyOut, SetSimInfo, Report, TypeOK
  <2> QED BY <2>1, <2>2 DEF SingleNodeSim
<1>12. ASSUME NEW l \in Names, Call(l) PROVE FALSE
  BY <1>12 DEF Call
<1>13. ASSUME NEW g \in DOMAIN gates, ReturnFrom(g) PROVE FALSE
  BY <1>13 DEF ReturnFrom
<1> QED
  BY <1>1, <1>3, <1>4, <1>5, <1>6, <1>7, <1>8, <1>9, <1>10, <1>11, <1>12, <1>13
  DEF Next, Step, Stimuli, NeedNodes

(* The tables printed are those of the outputs.                            *)
LEMMA TablesStep ==
  ASSUME TypeOK, OrderInv, FullInv, FullInv', TablesCorrect, Next
  PROVE  TablesCorrect'
<1> SUFFICES ASSUME phase' = "done", mode' = "full", Written(file')
             PROVE  /\ \A i \in DOMAIN outputs' : tables'[i] = sim'[outputs'[i]]
                    /\ (\A i, j \in DOMAIN inputs : \A p \in Patterns :
                          sim[inputs[i]][p] = Bit(p - 1, Len(inputs) - i))'
  BY DEF TablesCorrect
<1>1. (\A i, j \in DOMAIN inputs : \A p \in Patterns :
         sim[inputs[i]][p] = Bit(p - 1, Len(inputs) - i))'
  BY DEF FullInv
<1>2. CASE Report
  <2>1. /\ UNCHANGED <<file, mode, sim, lines, inputs, outputs>>
        /\ mode = "full" => tables' = [i \in DOMAIN outputs |-> sim[lines[Len(inputs) + i]]]
    BY <1>2 DEF Report, graphVars
  <2>2. \A i \in DOMAIN outputs : lines[Len(inputs) + i] = outputs[i]
    BY <2>1 DEF OrderInv
  <2> QED BY <1>1, <2>1, <2>2
<1>3. CASE phase = "done"
  <2>1. UNCHANGED <<file, mode, sim, tables, outputs>>
    BY <1>3 DEF Next, Step, Parse, AddInput, AddOutput, AddGate, SkipLine, Parsed, Reading, CallNothing,
             Call, ReturnFrom, Stimuli, RandomStimuli, FullStimuli, NoSuchBit, NeedNodes,
             StartMarking, GroupByLevel, Mark, CutNext, CutStep, Order, NoDepth, SingleNodeSim,
             Simulate, TakeLeaf, TakeGate, MultiplyOut, SetSimInfo, Report, ShortTable, Stopped,
             vars, graphVars, simVars
  <2> QED BY <1>1, <1>3, <2>1 DEF TablesCorrect
<1> QED BY <1>2, <1>3, PhaseSteps

(* When all gates flagged have been simulated all outputs have been.       *)
LEMMA FinalStep ==
  ASSUME TypeOK, SourceInv, LevelInv, FlagInv, SharedInv, FinalInv, Next
  PROVE  FinalInv'
<1>1. CASE Report
  <2>1. /\ phase = "simulate" /\ root = NoGate /\ todo = {} /\ UNCHANGED <<sim, outputs>>
    BY <1>1 DEF Report, graphVars
  <2>2. ASSUME NEW o \in SetOf(outputs) PROVE sim[o] # NotSimulated
    <3> DEFINE g == source[o]
    <3>1. g \in DOMAIN gates
      BY <2>1 DEF LevelInv
    <3>2. g # NULL_INDEX /\ g # NoGate /\ o \in Names
      <4>1. DOMAIN gates = 1 .. Len(gates) /\ Len(gates) \in Nat /\ outputs \in Seq(Names)
        BY DEF TypeOK, GraphTypeOK
      <4>2. o \in Names
        BY <4>1 DEF SetOf
      <4> HIDE DEF g
      <4> QED BY <3>1, <4>1, <4>2 DEF NULL_INDEX, NoGate
    <3>3. gates[g].out = o
      BY <3>2 DEF SourceInv
    <3> HIDE DEF g
    <3>4. MustSimulate(g)
      BY <3>3 DEF MustSimulate, IsOutput
    <3>5. o \in flag
      BY <2>1, <3>1, <3>3, <3>4 DEF SharedInv
    <3>6. g \notin Pending
      BY <2>1, <3>2 DEF Pending
    <3> QED BY <2>1, <3>1, <3>3, <3>5, <3>6 DEF FlagInv
  <2> QED BY <2>1, <2>2 DEF FinalInv
<1>2. CASE phase = "done"
  <2>1. UNCHANGED <<sim, outputs>>
    BY <1>2 DEF Next, Step, Parse, AddInput, AddOutput, AddGate, SkipLine, Parsed, Reading, CallNothing,
             Call, ReturnFrom, Stimuli, RandomStimuli, FullStimuli, NoSuchBit, NeedNodes,
             StartMarking, GroupByLevel, Mark, CutNext, CutStep, Order, NoDepth, SingleNodeSim,
             Simulate, TakeLeaf, TakeGate, MultiplyOut, SetSimInfo, Report, ShortTable, Stopped,
             vars, graphVars, simVars
  <2> QED BY <1>2, <2>1 DEF FinalInv
<1>3. CASE phase' # "done"
  BY <1>3 DEF FinalInv
<1> QED BY <1>1, <1>2, <1>3, PhaseSteps

-----------------------------------------------------------------------------
(***************************************************************************)
(* Values                                                                  *)
(***************************************************************************)
(* The same for numbers, from 0.                                           *)
LEMMA NumberRecursion ==
  ASSUME NEW n \in Nat, NEW F \in [Nat \X (1 .. n) -> Nat]
  PROVE  \E h : Recursion(h, Nat, n, 0, F)
<1>1. F \in StepsOver(Nat, n) /\ 0 \in Nat
  BY DEF StepsOver
<1> QED BY <1>1, RecursionExists

(* Shifting a number by one place and adding a bit.                        *)
LEMMA ShiftBit ==
  ASSUME NEW a \in Nat, NEW y \in Nat, NEW P \in Nat, NEW b \in Nat
  PROVE  (b + y * P) + a * (2 * P) = b + (2 * a + y) * P
<1>1. (2 * a + y) * P = (2 * a) * P + y * P
  OBVIOUS
<1>2. (2 * a) * P = a * (2 * P)
  OBVIOUS
<1>3. y * P \in Nat /\ a * (2 * P) \in Nat
  OBVIOUS
<1> QED BY <1>1, <1>2, <1>3

(* The number that bits spell, read from either end.  t adds up the bits   *)
(* from the lowest to the highest, h shifts them in from the highest.      *)
LEMMA SameNumber ==
  ASSUME NEW n \in Nat, NEW x \in [1 .. n -> 0 .. 1],
         NEW t \in [0 .. n -> Nat], t[0] = 0,
         \A i \in 1 .. n : t[i] = t[i - 1] + x[i] * 2 ^ (i - 1),
         NEW h \in [0 .. n -> Nat], h[0] = 0,
         \A i \in 1 .. n : h[i] = 2 * h[i - 1] + x[n + 1 - i]
  PROVE  h[n] = t[n]
<1> DEFINE T == {k \in 0 .. n : t[n] = t[n - k] + h[k] * 2 ^ (n - k)}
<1>0. \A k \in Nat : 2 ^ k \in Nat
  BY PowerPositive
<1>1. 0 \in T
  <2>1. 2 ^ (n - 0) \in Nat /\ t[n] \in Nat
    BY <1>0
  <2> DEFINE P == 2 ^ (n - 0)
  <2> HIDE DEF P
  <2>2. t[n] = t[n - 0] + h[0] * P
    <3>1. h[0] * P = 0
      BY <2>1 DEF P
    <3> QED BY <2>1, <3>1
  <2> QED BY <2>2 DEF P
<1>2. ASSUME NEW k \in 0 .. n - 1, k \in T PROVE k + 1 \in T
  <2> DEFINE m == n - (k + 1)
             P == 2 ^ m
             a == h[k]
             y == x[n - k]
             b == t[m]
  <2>1. /\ m \in Nat /\ n - k = m + 1 /\ n - k \in 1 .. n /\ (n - k) - 1 = m
        /\ k + 1 \in 1 .. n /\ (k + 1) - 1 = k /\ n + 1 - (k + 1) = n - k /\ m \in 0 .. n
        /\ k + 1 \in 0 .. n /\ n - k \in 0 .. n
    OBVIOUS
  <2>2. P \in Nat /\ a \in Nat /\ b \in Nat /\ y \in Nat
    <3>1. y \in 0 .. 1
      BY <2>1
    <3>2. P \in Nat
      <4> HIDE DEF m
      <4> QED BY <1>0, <2>1
    <3>3. a \in Nat
      OBVIOUS
    <3>4. b \in Nat
      BY <2>1
    <3> HIDE DEF P, a, b, y
    <3> QED BY <3>1, <3>2, <3>3, <3>4
  <2>3. 2 ^ (n - k) = 2 * P
    <3>1. 2 ^ (m + 1) = 2 * 2 ^ m
      <4> HIDE DEF m
      <4> QED BY <2>1, PowerDoubles
    <3> HIDE DEF m
    <3> QED BY <2>1, <3>1
  <2>4. t[n - k] = b + y * P
    <3>1. t[n - k] = t[(n - k) - 1] + x[n - k] * 2 ^ ((n - k) - 1)
      <4> DEFINE j == n - k
      <4>1. j \in 1 .. n
        BY <2>1
      <4> HIDE DEF j
      <4>2. t[j] = t[j - 1] + x[j] * 2 ^ (j - 1)
        BY <4>1
      <4> QED BY <4>2 DEF j
    <3> HIDE DEF m
    <3> QED BY <2>1, <3>1, Zenon
  <2>5. h[k + 1] = 2 * a + y
    <3> DEFINE j == k + 1
    <3>1. j \in 1 .. n
      BY <2>1
    <3> HIDE DEF j
    <3>2. h[j] = 2 * h[j - 1] + x[n + 1 - j]
      BY <3>1
    <3>3. h[k + 1] = 2 * h[(k + 1) - 1] + x[n + 1 - (k + 1)]
      BY <3>2 DEF j
    <3> QED BY <2>1, <3>3, Zenon
  <2>6. t[n] = t[n - k] + h[k] * 2 ^ (n - k)
    BY <1>2
  <2>7. t[n] = (b + y * P) + a * (2 * P)
    BY <2>3, <2>4, <2>6, Zenon
  <2>8. t[n] = t[n - (k + 1)] + h[k + 1] * 2 ^ (n - (k + 1))
    <3> HIDE DEF P, a, b, y
    <3>1. t[n] = b + (2 * a + y) * P
      BY <2>2, <2>7, ShiftBit
    <3>2. t[n] = b + h[k + 1] * P
      BY <2>5, <3>1, Zenon
    <3> QED BY <3>2, Zenon DEF b, P
  <2> QED BY <2>1, <2>8
<1>3. n \in T
  <2> HIDE DEF T
  <2>1. \A i \in 0 .. n : i \in T
    BY <1>1, <1>2, UpTo
  <2>2. n \in 0 .. n
    OBVIOUS
  <2> QED BY <2>1, <2>2
<1>4. t[n] = t[n - n] + h[n] * 2 ^ (n - n)
  BY <1>3
<1>5. n - n = 0 /\ h[n] \in Nat
  OBVIOUS
<1>6. t[n] = 0 + h[n] * 1
  BY <1>4, <1>5, PowerZero, Zenon
<1> QED BY <1>5, <1>6

(* t adds up s.                                                            *)
SumRun(t, s) ==
  /\ t \in [0 .. Len(s) -> Nat] /\ t[0] = 0
  /\ \A i \in 1 .. Len(s) : t[i] = t[i - 1] + s[i]
  /\ Sum(s) = t[Len(s)]

(* Sum adds one element after the other.                                   *)
LEMMA SumFacts ==
  ASSUME NEW s \in Seq(Nat)
  PROVE  \E t : SumRun(t, s)
<1> DEFINE n == Len(s)
           F == [q \in Nat \X (1 .. n) |-> q[1] + s[q[2]]]
           Eq(h) == h = [i \in 0 .. n |-> IF i = 0 THEN 0 ELSE h[i - 1] + s[i]]
           h == CHOOSE g : Eq(g)
<1>1. n \in Nat /\ DOMAIN s = 1 .. n /\ \A i \in 1 .. n : s[i] \in Nat
  OBVIOUS
<1>2. F \in [Nat \X (1 .. n) -> Nat]
  BY <1>1
<1>3. PICK g \in [0 .. n -> Nat] : g[0] = 0 /\ \A i \in 1 .. n : g[i] = F[<<g[i - 1], i>>]
  <2>1. \E g : Recursion(g, Nat, n, 0, F)
    <3> HIDE DEF F, n, Eq, h
    <3> QED BY <1>1, <1>2, NumberRecursion
  <2> HIDE DEF F, n, Eq, h
  <2> QED BY <2>1, Zenon DEF Recursion
<1>4. Eq(g)
  <2> SUFFICES ASSUME NEW i \in 0 .. n
               PROVE  g[i] = IF i = 0 THEN 0 ELSE g[i - 1] + s[i]
    BY <1>3
  <2>1. CASE i = 0
    BY <1>3, <2>1
  <2>2. CASE i # 0
    <3>1. i \in 1 .. n /\ i - 1 \in 0 .. n
      BY <2>2
    <3>2. g[i - 1] \in Nat /\ g[i] = F[<<g[i - 1], i>>]
      BY <1>3, <3>1
    <3> QED BY <2>2, <3>1, <3>2
  <2> QED BY <2>1, <2>2
<1>5. Eq(h)
  <2> HIDE DEF Eq
  <2> QED BY <1>4
<1>6. Sum(s) = h[n]
  BY DEF Sum
<1> HIDE DEF h
<1>7. h[0] = 0 /\ \A i \in 1 .. n : h[i] = h[i - 1] + s[i]
  BY <1>1, <1>5
<1> DEFINE T == {i \in 0 .. n : h[i] \in Nat}
<1>8. 0 \in T
  BY <1>1, <1>7
<1>9. ASSUME NEW i \in 0 .. n - 1, i \in T PROVE i + 1 \in T
  <2>1. i + 1 \in 1 .. n /\ (i + 1) - 1 = i /\ i + 1 \in 0 .. n
    BY <1>1
  <2>2. h[i + 1] = h[i] + s[i + 1]
    BY <1>7, <2>1
  <2>3. s[i + 1] \in Nat
    BY <1>1, <2>1
  <2> QED BY <1>9, <2>1, <2>2, <2>3
<1>10. \A i \in 0 .. n : h[i] \in Nat
  <2> HIDE DEF T
  <2>1. \A i \in 0 .. n : i \in T
    BY <1>1, <1>8, <1>9, UpTo
  <2> QED BY <2>1 DEF T
<1>11. h \in [0 .. n -> Nat]
  BY <1>5, <1>10
<1>12. SumRun(h, s)
  BY <1>6, <1>7, <1>11 DEF SumRun
<1> QED BY <1>12

(* h spells the number of the inputs of gate g.                            *)
MintermRun(h, g, p) ==
  LET ins == gates[g].ins IN
    /\ h \in [0 .. Len(ins) -> Nat] /\ h[0] = 0
    /\ \A i \in 1 .. Len(ins) : h[i] = 2 * h[i - 1] + ValueOf(ins[i])[p]
    /\ Minterm(g, p) = h[Len(ins)]

(* Minterm shifts in one value after the other.                            *)
LEMMA MintermFacts ==
  ASSUME NEW g, NEW p, gates[g].ins \in Seq(Names),
         \A l \in SetOf(gates[g].ins) : ValueOf(l)[p] \in 0 .. 1
  PROVE  \E h : MintermRun(h, g, p)
<1> DEFINE n == Len(gates[g].ins)
           y(i) == ValueOf(gates[g].ins[i])[p]
           F == [q \in Nat \X (1 .. n) |-> 2 * q[1] + y(q[2])]
           Eq(h) == h = [i \in 0 .. n |-> IF i = 0 THEN 0
                           ELSE 2 * h[i - 1] + ValueOf(gates[g].ins[i])[p]]
           h == CHOOSE f : Eq(f)
<1>1. n \in Nat /\ \A i \in 1 .. n : y(i) \in Nat
  <2>1. n \in Nat /\ DOMAIN gates[g].ins = 1 .. n
    OBVIOUS
  <2>2. \A i \in 1 .. n : gates[g].ins[i] \in SetOf(gates[g].ins)
    BY <2>1 DEF SetOf
  <2> QED BY <2>1, <2>2
<1>2. F \in [Nat \X (1 .. n) -> Nat]
  <2> HIDE DEF y, n
  <2> QED BY <1>1
<1>3. PICK f \in [0 .. n -> Nat] : f[0] = 0 /\ \A i \in 1 .. n : f[i] = F[<<f[i - 1], i>>]
  <2>1. \E f : Recursion(f, Nat, n, 0, F)
    <3> HIDE DEF F, n, Eq, h
    <3> QED BY <1>1, <1>2, NumberRecursion
  <2> HIDE DEF F, n, Eq, h
  <2> QED BY <2>1, Zenon DEF Recursion
<1>4. Eq(f)
  <2> SUFFICES ASSUME NEW i \in 0 .. n
               PROVE  f[i] = IF i = 0 THEN 0 ELSE 2 * f[i - 1] + y(i)
    BY <1>3
  <2> HIDE DEF y, n
  <2>1. CASE i = 0
    BY <1>3, <2>1
  <2>2. CASE i # 0
    <3>1. i \in 1 .. n /\ i - 1 \in 0 .. n
      BY <1>1, <2>2
    <3>2. f[i - 1] \in Nat /\ f[i] = F[<<f[i - 1], i>>]
      BY <1>3, <3>1
    <3> QED BY <2>2, <3>1, <3>2
  <2> QED BY <2>1, <2>2
<1>5. Eq(h)
  <2> HIDE DEF Eq
  <2> QED BY <1>4
<1>6. Minterm(g, p) = h[n]
  BY DEF Minterm
<1> HIDE DEF h
<1>7. h[0] = 0 /\ \A i \in 1 .. n : h[i] = 2 * h[i - 1] + y(i)
  <2>1. h = [i \in 0 .. n |-> IF i = 0 THEN 0 ELSE 2 * h[i - 1] + y(i)]
    BY <1>5
  <2> HIDE DEF y, n
  <2>2. 0 \in 0 .. n /\ \A i \in 1 .. n : i \in 0 .. n /\ i # 0
    BY <1>1
  <2> QED BY <2>1, <2>2
<1> DEFINE T == {i \in 0 .. n : h[i] \in Nat}
<1>8. 0 \in T
  BY <1>1, <1>7
<1>9. ASSUME NEW i \in 0 .. n - 1, i \in T PROVE i + 1 \in T
  <2>1. i + 1 \in 1 .. n /\ (i + 1) - 1 = i /\ i + 1 \in 0 .. n
    BY <1>1
  <2>2. h[i + 1] = 2 * h[i] + y(i + 1) /\ y(i + 1) \in Nat
    <3> DEFINE j == i + 1
    <3>1. j \in 1 .. n
      BY <2>1
    <3> HIDE DEF j, y
    <3>2. h[j] = 2 * h[j - 1] + y(j) /\ y(j) \in Nat
      BY <1>1, <1>7, <3>1
    <3> QED BY <2>1, <3>2 DEF j
  <2> HIDE DEF y
  <2> QED BY <1>9, <2>1, <2>2
<1>10. \A i \in 0 .. n : h[i] \in Nat
  <2> HIDE DEF T
  <2>1. \A i \in 0 .. n : i \in T
    BY <1>1, <1>8, <1>9, UpTo
  <2> QED BY <2>1 DEF T
<1>11. h \in [0 .. n -> Nat]
  BY <1>5, <1>10
<1>12. MintermRun(h, g, p)
  BY <1>6, <1>7, <1>11 DEF MintermRun
<1> QED BY <1>12

(* A LUT whose inputs have the values of the network has that of its line. *)
LEMMA OutputCorrect ==
  ASSUME TypeOK, ReadInv, NEW g \in DOMAIN gates, NEW p \in Patterns,
         NEW v \in [SetOf(lines) -> 0 .. 1], Valuation(v, p),
         \A l \in SetOf(gates[g].ins) : ValueOf(l)[p] = v[l]
  PROVE  Output(g)[p] = v[gates[g].out]
<1>1. PICK k \in Before("lut") : gates[g] = GateOf(file[k])
  BY DEF ReadInv
<1> DEFINE s == file[k]
           ins == s.ins
           n == Len(ins)
           rev == gates[g].ins
           x == [i \in 1 .. n |-> v[ins[i]]]
           w == [i \in 1 .. n |-> v[ins[i]] * 2 ^ (i - 1)]
<1>2. k \in Statements(file, "lut") /\ s \in Statement /\ ins \in Seq(Names)
  <2>1. k \in Statements(file, "lut") /\ k \in DOMAIN file /\ file \in Seq(Statement)
    BY DEF Before, Statements, TypeOK, GraphTypeOK
  <2>2. s \in Statement
    BY <2>1
  <2> QED BY <2>1, <2>2 DEF Statement
<1>3. gates[g].out = s.name /\ rev = Reversed(ins) /\ gates[g].fn = s.fn
  BY <1>1 DEF GateOf
<1>4. /\ rev \in Seq(Names) /\ Len(rev) = n /\ SetOf(rev) = SetOf(ins)
      /\ \A i \in 1 .. n : rev[i] = ins[n + 1 - i]
      /\ n \in Nat /\ DOMAIN ins = 1 .. n /\ DOMAIN rev = 1 .. n
  BY <1>2, <1>3, ReversedFacts
<1>5. SetOf(rev) \subseteq SetOf(lines)
  BY DEF ReadInv
<1>6. \A l \in SetOf(rev) : v[l] \in 0 .. 1 /\ ValueOf(l)[p] \in 0 .. 1
  BY <1>5
<1>7. x \in [1 .. n -> 0 .. 1]
  <2>1. \A i \in 1 .. n : ins[i] \in SetOf(ins)
    BY <1>4 DEF SetOf
  <2>2. \A i \in 1 .. n : v[ins[i]] \in 0 .. 1
    BY <1>4, <1>6, <2>1
  <2> QED BY <2>2
<1>8. PICK h : MintermRun(h, g, p)
  BY <1>4, <1>6, MintermFacts
<1>9. /\ h \in [0 .. n -> Nat] /\ h[0] = 0 /\ Minterm(g, p) = h[n]
      /\ \A i \in 1 .. n : h[i] = 2 * h[i - 1] + ValueOf(rev[i])[p]
  BY <1>4, <1>8 DEF MintermRun
<1>10. \A i \in 1 .. n : ValueOf(rev[i])[p] = x[n + 1 - i]
  <2> SUFFICES ASSUME NEW i \in 1 .. n PROVE ValueOf(rev[i])[p] = x[n + 1 - i]
    OBVIOUS
  <2>3. n + 1 - i \in 1 .. n
    BY <1>4
  <2>4. rev[i] = ins[n + 1 - i]
    BY <1>4
  <2>5. rev[i] \in SetOf(rev)
    <3>1. i \in DOMAIN rev
      BY <1>4
    <3> HIDE DEF rev
    <3> QED BY <3>1 DEF SetOf
  <2>1. rev[i] \in SetOf(rev) /\ rev[i] = ins[n + 1 - i] /\ n + 1 - i \in 1 .. n
    BY <2>3, <2>4, <2>5
  <2>2. ValueOf(rev[i])[p] = v[ins[n + 1 - i]]
    BY <2>1
  <2> QED BY <2>1, <2>2
<1>11. \A i \in 1 .. n : h[i] = 2 * h[i - 1] + x[n + 1 - i]
  <2> HIDE DEF x, rev, n
  <2> QED BY <1>9, <1>10
<1>12. w \in Seq(Nat) /\ Len(w) = n /\ \A i \in 1 .. n : w[i] = x[i] * 2 ^ (i - 1)
  <2>1. \A i \in 1 .. n : 2 ^ (i - 1) \in Nat
    BY PowerPositive
  <2>2. \A i \in 1 .. n : v[ins[i]] * 2 ^ (i - 1) \in Nat
    <3> SUFFICES ASSUME NEW i \in 1 .. n PROVE v[ins[i]] * 2 ^ (i - 1) \in Nat
      OBVIOUS
    <3> DEFINE a == v[ins[i]]
               b == 2 ^ (i - 1)
    <3>1. a \in Nat /\ b \in Nat
      BY <1>7, <2>1
    <3> HIDE DEF a, b
    <3> QED BY <3>1 DEF a, b
  <2>3. w \in Seq(Nat) /\ Len(w) = n
    BY <1>4, <2>2
  <2> QED BY <2>3
<1>13. PICK t : SumRun(t, w)
  BY <1>12, SumFacts
<1>14. /\ t \in [0 .. n -> Nat] /\ t[0] = 0 /\ Sum(w) = t[n]
       /\ \A i \in 1 .. n : t[i] = t[i - 1] + x[i] * 2 ^ (i - 1)
  <2> HIDE DEF w, x
  <2> QED BY <1>12, <1>13 DEF SumRun
<1>15. h[n] = t[n]
  <2> HIDE DEF x, n
  <2> QED BY <1>4, <1>7, <1>9, <1>11, <1>14, SameNumber
<1>16. w = [i \in DOMAIN ins |-> v[ins[i]] * 2 ^ (i - 1)]
  BY <1>4
<1>17. v[s.name] = IF Sum(w) \in s.fn THEN 1 ELSE 0
  <2>1. v[file[k].name] =
          IF Sum([i \in DOMAIN file[k].ins |-> v[file[k].ins[i]] * 2 ^ (i - 1)]) \in file[k].fn
          THEN 1 ELSE 0
    BY <1>2 DEF Valuation
  <2> QED BY <1>16, <2>1, Zenon
<1>18. Output(g)[p] = IF Minterm(g, p) \in gates[g].fn THEN 1 ELSE 0
  BY DEF Output
<1>19. Minterm(g, p) = Sum(w)
  <2> HIDE DEF w, n
  <2> QED BY <1>9, <1>14, <1>15
<1> HIDE DEF w, s
<1> QED BY <1>3, <1>17, <1>18, <1>19, Zenon

(* The steps that change the values.                                       *)
LEMMA ValueSteps ==
  ASSUME Next
  PROVE  Stimuli \/ Simulate \/ MultiplyOut \/ SetSimInfo \/ UNCHANGED <<sim, local>>
<1>1. ASSUME NeedNodes PROVE UNCHANGED <<sim, local>>
  BY <1>1 DEF NeedNodes, StartMarking, Mark, CutNext, CutStep, Order, NoDepth, OutOfBounds, simVars
<1>2. ASSUME TakeLeaf \/ TakeGate PROVE UNCHANGED <<sim, local>>
  BY <1>2 DEF TakeLeaf, TakeGate
<1>3. ASSUME Report \/ ShortTable PROVE UNCHANGED <<sim, local>>
  BY <1>3 DEF Report, ShortTable, OutOfBounds, simVars
<1>4. ASSUME Stopped PROVE UNCHANGED <<sim, local>>
  BY <1>4 DEF Stopped, vars, simVars
<1>5. ASSUME UNCHANGED simVars PROVE UNCHANGED <<sim, local>>
  BY <1>5 DEF simVars
<1> QED BY <1>1, <1>2, <1>3, <1>4, <1>5 DEF Next, Step, SingleNodeSim

(* The LUT multiplied out next has the values of its inputs at hand.       *)
LEMMA OperandsAtHand ==
  ASSUME TypeOK, SourceInv, TreeInv, ReadInv, ValueInv, InputsUndriven(file),
         phase = "simulate", root # NoGate, stack = <<>>,
         NEW p \in Patterns, NEW v \in [SetOf(lines) -> 0 .. 1], Valuation(v, p)
  PROVE  /\ chain[Len(chain)] \in DOMAIN gates
         /\ \A l \in SetOf(gates[chain[Len(chain)]].ins) : ValueOf(l)[p] = v[l]
<1> DEFINE k == Len(chain)
           g == chain[k]
<1>1. chain # <<>> /\ chain \in Seq(DOMAIN gates)
  BY DEF TreeInv, TypeOK
<1>2. k \in DOMAIN chain /\ k \in Nat /\ g \in DOMAIN gates
  BY <1>1
<1>3. /\ \A l \in SetOf(lines) : sim[l] # NotSimulated => sim[l][p] = v[l]
      /\ \A h \in DOMAIN local : local[h][p] = v[gates[h].out]
  BY DEF ValueInv
<1>4. ASSUME NEW l \in SetOf(gates[g].ins) PROVE ValueOf(l)[p] = v[l]
  <2>1. OperandIn(k, l)
    <3> HIDE DEF k
    <3> QED BY <1>2, <1>4 DEF TreeInv
  <2>2. l \notin SetOf(stack)
    BY DEF SetOf
  <2>3. ~\E j \in k + 1 .. Len(chain) : chain[j] = source[l]
    BY <1>2
  <2>4. l \in SetOf(lines) /\ l \in Names
    <3>1. SetOf(gates[g].ins) \subseteq SetOf(lines)
      BY <1>2 DEF ReadInv
    <3>2. SetOf(lines) \subseteq Names
      BY DEF TypeOK, GraphTypeOK, SetOf
    <3> HIDE DEF g
    <3> QED BY <1>4, <3>1, <3>2
  <2>5. CASE l \in flag /\ l \in SetOf(leaves)
    <3>1. sim[l] # NotSimulated
      BY <2>5 DEF TreeInv
    <3> QED BY <1>3, <2>4, <2>5, <3>1 DEF ValueOf
  <2>6. CASE l \notin flag /\ source[l] \in DOMAIN local
    <3>1. source[l] \in DOMAIN gates
      BY <2>6 DEF TypeOK
    <3>2. source[l] # NULL_INDEX
      BY <3>1 DEF TypeOK, GraphTypeOK, NULL_INDEX
    <3>3. gates[source[l]].out = l
      BY <2>4, <3>2 DEF SourceInv
    <3>4. local[source[l]][p] = v[l]
      BY <1>3, <2>6, <3>3, Zenon
    <3> QED BY <2>6, <3>4 DEF ValueOf
  <2> HIDE DEF k, g
  <2> QED BY <2>1, <2>2, <2>3, <2>5, <2>6 DEF OperandIn
<1> QED BY <1>2, <1>4

(* Every value computed is that of the network.                            *)
LEMMA ValueStep ==
  ASSUME TypeOK, SourceInv, BlankInv, TreeInv, ReadInv, ValueInv, Next
  PROVE  ValueInv'
<1> SUFFICES ASSUME InputsUndriven(file'), phase' \in {"depth", "mark", "simulate", "done"},
                    NEW p \in Patterns', NEW v \in [SetOf(lines') -> 0 .. 1], Valuation(v, p)'
             PROVE  /\ \A l \in SetOf(lines') : sim'[l] # NotSimulated => sim'[l][p] = v[l]
                    /\ \A g \in DOMAIN local' : local'[g][p] = v[gates'[g].out]
  BY DEF ValueInv
<1>1. file' = file
  <2>1. Reading("input") \/ Reading("output") \/ Reading("lut") \/ Reading("other") => file' = file
    BY DEF Reading
  <2> QED BY <2>1, GraphSteps DEF AddInput, AddOutput, AddGate, SkipLine
<1>2. InputsUndriven(file)
  BY <1>1
<1>3. SetOf(inputs) \subseteq Names /\ SetOf(lines) \subseteq Names
  BY DEF TypeOK, GraphTypeOK, SetOf
<1>4. CASE Stimuli /\ phase' # "outOfBounds"
  <2>1. UNCHANGED <<lines, inputs, local>>
    BY <1>4 DEF Stimuli, RandomStimuli, FullStimuli, NoSuchBit, OutOfBounds, graphVars
  <2>2. DOMAIN local = {} /\ \A l \in Names : sim[l] = NotSimulated
    BY <1>4, StimuliFacts DEF BlankInv
  <2>3. \A l \in Names : ~IsInput(l) => sim'[l] = NotSimulated
    BY <1>4, <2>2, StimuliFacts
  <2>4. \A l \in SetOf(inputs) : v[l] = sim'[l][p]
    BY <2>1 DEF Valuation
  <2>5. ASSUME NEW l \in SetOf(lines), sim'[l] # NotSimulated PROVE sim'[l][p] = v[l]
    <3>1. l \in SetOf(inputs)
      BY <1>3, <2>3, <2>5 DEF IsInput
    <3> QED BY <2>4, <3>1
  <2> QED BY <2>1, <2>2, <2>5
<1>5. CASE /\ phase \in {"depth", "mark", "simulate", "done"}
           /\ UNCHANGED <<file, lines, inputs, outputs, gates, mode>>
           /\ \A l \in SetOf(inputs) : sim'[l] = sim[l]
  <2>1. p \in Patterns /\ v \in [SetOf(lines) -> 0 .. 1]
    BY <1>5 DEF Patterns
  <2>2. Valuation(v, p)
    <3>1. /\ \A l \in SetOf(inputs') : v[l] = sim'[l][p]
          /\ \A i \in Statements(file', "lut") :
               v[file'[i].name] =
                 IF Sum([k \in DOMAIN file'[i].ins |-> v[file'[i].ins[k]] * 2 ^ (k - 1)])
                      \in file'[i].fn
                 THEN 1 ELSE 0
      BY DEF Valuation
    <3>2. \A l \in SetOf(inputs) : v[l] = sim[l][p]
      BY <1>5, <3>1
    <3>3. \A i \in Statements(file, "lut") :
            v[file[i].name] =
              IF Sum([k \in DOMAIN file[i].ins |-> v[file[i].ins[k]] * 2 ^ (k - 1)])
                   \in file[i].fn
              THEN 1 ELSE 0
      BY <1>1, <3>1, Zenon
    <3> QED BY <3>2, <3>3, Zenon DEF Valuation
  <2>3. /\ \A l \in SetOf(lines) : sim[l] # NotSimulated => sim[l][p] = v[l]
        /\ \A h \in DOMAIN local : local[h][p] = v[gates[h].out]
    BY <1>2, <1>5, <2>1, <2>2 DEF ValueInv
  <2>4. ~Stimuli
    BY <1>5 DEF Stimuli, RandomStimuli, FullStimuli, NoSuchBit
  <2>5. CASE UNCHANGED <<sim, local>>
    BY <1>5, <2>3, <2>5
  <2>6. CASE Simulate
    <3>1. sim' = sim /\ DOMAIN local' = {}
      BY <2>6 DEF Simulate
    <3> QED BY <1>5, <2>3, <3>1
  <2>7. CASE MultiplyOut
    <3> DEFINE g == chain[Len(chain)]
    <3>1. /\ sim' = sim /\ root # NoGate /\ stack = <<>> /\ phase = "simulate"
          /\ local' = [h \in DOMAIN local \cup {g} |-> IF h = g THEN Output(g) ELSE local[h]]
      BY <2>7 DEF MultiplyOut
    <3>2. g \in DOMAIN gates /\ \A l \in SetOf(gates[g].ins) : ValueOf(l)[p] = v[l]
      BY <1>2, <2>1, <2>2, <3>1, OperandsAtHand
    <3> HIDE DEF g
    <3>3. Output(g)[p] = v[gates[g].out]
      BY <2>1, <2>2, <3>2, OutputCorrect
    <3>4. ASSUME NEW h \in DOMAIN local' PROVE local'[h][p] = v[gates[h].out]
      BY <2>3, <3>1, <3>3
    <3> QED BY <1>5, <2>3, <3>1, <3>4
  <2>8. CASE SetSimInfo
    <3>1. /\ root # NoGate /\ stack = <<>> /\ phase = "simulate" /\ Len(chain) = 1
          /\ sim' = [sim EXCEPT ![gates[root].out] = Output(root)] /\ local' = local
      BY <2>8 DEF SetSimInfo
    <3>2. chain[Len(chain)] = root
      BY <3>1 DEF TreeInv
    <3>3. root \in DOMAIN gates /\ \A l \in SetOf(gates[root].ins) : ValueOf(l)[p] = v[l]
      BY <1>2, <2>1, <2>2, <3>1, <3>2, OperandsAtHand
    <3>4. Output(root)[p] = v[gates[root].out]
      BY <2>1, <2>2, <3>3, OutputCorrect
    <3>5. sim \in [Names -> {NotSimulated} \cup [Patterns -> 0 .. 1]]
      BY DEF TypeOK
    <3>6. ASSUME NEW l \in SetOf(lines), sim'[l] # NotSimulated PROVE sim'[l][p] = v[l]
      <4>1. l \in Names
        BY <1>3
      <4>2. CASE l = gates[root].out
        <5>1. sim'[l] = Output(root)
          BY <3>1, <3>5, <4>1, <4>2
        <5> QED BY <3>4, <4>2, <5>1, Zenon
      <4>3. CASE l # gates[root].out
        <5>1. sim'[l] = sim[l]
          BY <3>1, <3>5, <4>1, <4>3
        <5> QED BY <2>3, <3>6, <5>1, Zenon
      <4> QED BY <4>2, <4>3
    <3> QED BY <1>5, <2>3, <3>1, <3>6
  <2> QED BY <2>4, <2>5, <2>6, <2>7, <2>8, ValueSteps
<1> QED BY <1>2, <1>4, <1>5, InputsKeepValues

-----------------------------------------------------------------------------
(***************************************************************************)
(* The invariant                                                           *)
(***************************************************************************)
(* The types of the initial states.                                        *)
LEMMA InitType == Init => TypeOK
<1> SUFFICES ASSUME Init PROVE TypeOK
  OBVIOUS
<1> USE DEF Init, GraphInit
<1>1. file \in Seq(Statement)
  BY FilesAssumption
<1>2. GraphTypeOK
  <2>1. at \in 1 .. Len(file) + 1
    BY <1>1
  <2>2. Len(level) = Len(gates) /\ DOMAIN gates = {}
    OBVIOUS
  <2>3. source \in [Names -> {NULL_INDEX} \cup 1 .. Len(gates)]
    OBVIOUS
  <2> QED BY <1>1, <2>1, <2>2, <2>3 DEF GraphTypeOK
<1>3. sim \in [Names -> {NotSimulated} \cup [Patterns -> 0 .. 1]]
  OBVIOUS
<1>4. DOMAIN local = {} /\ DOMAIN gates = {} /\ count \in Int
  OBVIOUS
<1>5. nodes \in Seq(DOMAIN gates) /\ temp \in Seq(DOMAIN gates) /\ chain \in Seq(DOMAIN gates)
  OBVIOUS
<1> QED BY <1>2, <1>3, <1>4, <1>5 DEF TypeOK

(* The invariant holds at the start: nothing has been read.                *)
LEMMA InvariantInit == Init => Invariant
<1> SUFFICES ASSUME Init PROVE Invariant
  OBVIOUS
<1>1. TypeOK
  BY InitType
<1>2. /\ phase = "parse" /\ at = 1 /\ called = {} /\ flag = {} /\ todo = {}
      /\ lines = <<>> /\ inputs = <<>> /\ outputs = <<>> /\ gates = <<>> /\ level = <<>>
      /\ source = [l \in Names |-> NULL_INDEX] /\ sim = [l \in Names |-> NotSimulated]
      /\ nodes = <<>> /\ temp = <<>> /\ root = NoGate /\ stack = <<>>
      /\ leaves = <<>> /\ chain = <<>> /\ DOMAIN local = {}
  BY DEF Init, GraphInit
<1>3. DOMAIN gates = {} /\ SetOf(inputs) = {} /\ SetOf(outputs) = {} /\ SetOf(chain) = {}
      /\ SetOf(lines) = {} /\ DOMAIN inputs = {} /\ DOMAIN outputs = {} /\ DOMAIN lines = {}
  BY <1>2 DEF SetOf
<1>4. \A k : Before(k) = {}
  <2>1. DOMAIN file = 1 .. Len(file) /\ Len(file) \in Nat
    BY <1>1 DEF TypeOK, GraphTypeOK
  <2>2. \A i \in DOMAIN file : ~(i < at)
    BY <1>2, <2>1
  <2> QED BY <2>2 DEF Before, Statements
<1>5. SourceInv /\ LevelInv /\ LevelsAboveDrivers
  BY <1>2, <1>3 DEF SourceInv, LevelInv, LevelsAboveDrivers
<1>6. BlankInv
  BY <1>2 DEF BlankInv
<1>7. FlagInv /\ TreeInv
  BY <1>2, <1>3 DEF FlagInv, TreeInv
<1>8. SharedInv
  BY <1>2, <1>3 DEF SharedInv, SharedLogicIsLeaf
<1>9. ReadInv
  BY <1>2, <1>3, <1>4 DEF ReadInv, Distinct
<1>10. OrderInv
  BY <1>2, <1>3, <1>4 DEF OrderInv
<1>11. FullInv /\ ValueInv /\ FinalInv /\ InBounds /\ TablesCorrect
  BY <1>2 DEF FullInv, ValueInv, FinalInv, InBounds, TablesCorrect
<1> QED BY <1>1, <1>5, <1>6, <1>7, <1>8, <1>9, <1>10, <1>11 DEF Invariant

(* The values are those of the network as long as nothing changes.         *)
LEMMA ValueKept ==
  ASSUME ValueInv, UNCHANGED <<phase, file, lines, inputs, gates, mode, sim, local>>
  PROVE  ValueInv'
<1> SUFFICES ASSUME InputsUndriven(file), phase \in {"depth", "mark", "simulate", "done"},
                    NEW p \in Patterns', NEW v \in [SetOf(lines) -> 0 .. 1], Valuation(v, p)'
             PROVE  /\ \A l \in SetOf(lines) : sim[l] # NotSimulated => sim[l][p] = v[l]
                    /\ \A g \in DOMAIN local : local[g][p] = v[gates[g].out]
  BY DEF ValueInv
<1>1. p \in Patterns
  BY DEF Patterns
<1>2. Valuation(v, p)
  BY Zenon DEF Valuation
<1> QED BY <1>1, <1>2 DEF ValueInv

(* Every step keeps the invariant.                                         *)
LEMMA InvariantStep == Invariant /\ [Next]_vars => Invariant'
<1> SUFFICES ASSUME Invariant, [Next]_vars PROVE Invariant'
  OBVIOUS
<1>0. /\ TypeOK /\ SourceInv /\ LevelInv /\ BlankInv /\ FlagInv /\ TreeInv /\ SharedInv
      /\ ReadInv /\ OrderInv /\ FullInv /\ ValueInv /\ FinalInv
      /\ InBounds /\ TablesCorrect
  BY DEF Invariant
<1>1. CASE Next
  <2>1. TypeOK' /\ SourceInv' /\ LevelInv' /\ BlankInv'
    BY <1>0, <1>1, TypeStep, SourceStep, LevelStep, BlankStep
  <2>2. FlagInv' /\ TreeInv' /\ SharedInv'
    BY <1>0, <1>1, FlagStep, TreeStep, SharedStep
  <2>3. ReadInv' /\ OrderInv' /\ FullInv'
    BY <1>0, <1>1, ReadStep, OrderStep, FullStep
  <2>4. ValueInv' /\ FinalInv' /\ InBounds' /\ TablesCorrect'
    BY <1>0, <1>1, <2>3, ValueStep, FinalStep, BoundsStep, TablesStep
  <2> QED BY <2>1, <2>2, <2>3, <2>4 DEF Invariant
<1>2. CASE UNCHANGED vars
  <2>1. UNCHANGED <<phase, file, lines, inputs, gates, mode, sim, local>>
    BY <1>2 DEF vars, graphVars, simVars
  <2>10. ValueInv'
    BY <1>0, <2>1, ValueKept
  <2> USE <1>2 DEF vars, graphVars, simVars
  <2>2. TypeOK'
    BY <1>0 DEF TypeOK, GraphTypeOK, Patterns
  <2>3. SourceInv' /\ BlankInv'
    BY <1>0 DEF SourceInv, BlankInv
  <2>4. LevelInv'
    BY <1>0 DEF LevelInv, LevelsAboveDrivers, Drivers, IsInput, Unlevelled
  <2>5. FlagInv'
    BY <1>0 DEF FlagInv, Pending
  <2>6. TreeInv'
    BY <1>0 DEF TreeInv, Reader, OperandIn, IsInput
  <2>7. SharedInv'
    BY <1>0 DEF SharedInv, SharedLogicIsLeaf, MustSimulate, IsOutput, Destinations
  <2>8. ReadInv' /\ OrderInv'
    BY <1>0 DEF ReadInv, OrderInv, Before
  <2>9. FullInv' /\ TablesCorrect'
    BY <1>0 DEF FullInv, TablesCorrect, Patterns
  <2>11. FinalInv' /\ InBounds'
    BY <1>0 DEF FinalInv, InBounds
  <2> QED BY <2>2, <2>3, <2>4, <2>5, <2>6, <2>7, <2>8, <2>9, <2>10, <2>11 DEF Invariant
<1> QED BY <1>1, <1>2

(* The invariant of the simulator holds in every state.                    *)
THEOREM InvariantHolds == Spec => []Invariant
<1>1. Init => Invariant
  BY InvariantInit
<1>2. Invariant /\ [Next]_vars => Invariant'
  BY InvariantStep
<1> QED BY <1>1, <1>2, PTL DEF Spec

-----------------------------------------------------------------------------
(***************************************************************************)
(* What the simulator promises                                             *)
(***************************************************************************)
(* Every variable keeps its type: no step indexes a gate, a line or a      *)
(* queue that does not exist without the command being said to do so.      *)
THEOREM TypeCorrect == Spec => []TypeOK
<1>1. Invariant => TypeOK
  BY DEF Invariant
<1> QED BY <1>1, InvariantHolds, PTL

(* No vector is read outside of its bounds for a file that write_bench can *)
(* have written, the tables of fewer than two inputs excepted.             *)
THEOREM NeverOutOfBounds == Spec => []InBounds
<1>1. Invariant => InBounds
  BY DEF Invariant
<1> QED BY <1>1, InvariantHolds, PTL

(* The leaves a tree is multiplied out over have been simulated before,    *)
(* in whatever order cut_tree flagged them.                                *)
THEOREM OperandsSimulated == Spec => []OperandsReady
<1>1. Invariant => OperandsReady
  <2> SUFFICES ASSUME Invariant PROVE OperandsReady
    OBVIOUS
  <2>1. LevelsAboveDrivers
    BY DEF Invariant, LevelInv
  <2>2. phase = "simulate" => \A l \in SetOf(leaves) : sim[l] # NotSimulated
    BY DEF Invariant, TreeInv
  <2> QED BY <2>1, <2>2 DEF OperandsReady
<1> QED BY <1>1, InvariantHolds, PTL

(* No logic that is shared, or read from outside, is multiplied out.       *)
THEOREM SharedLogicNotDuplicated == Spec => []SharedLogicIsLeaf
<1>1. Invariant => SharedLogicIsLeaf
  BY DEF Invariant, SharedInv
<1> QED BY <1>1, InvariantHolds, PTL

(* Every line simulated has the value the network gives it, under every    *)
(* pattern, and at the end every output is.                                *)
THEOREM ValuesAreCorrect == Spec => []ValuesCorrect
<1>1. Invariant => ValuesCorrect
  <2> SUFFICES ASSUME Invariant, phase = "done" PROVE
        /\ \A o \in SetOf(outputs) : sim[o] # NotSimulated
        /\ InputsUndriven(file) =>
             \A p \in Patterns, v \in [SetOf(lines) -> 0 .. 1] : Valuation(v, p) =>
               \A l \in SetOf(lines) : sim[l] # NotSimulated => sim[l][p] = v[l]
    BY DEF ValuesCorrect
  <2>1. \A o \in SetOf(outputs) : sim[o] # NotSimulated
    BY DEF Invariant, FinalInv
  <2>2. InputsUndriven(file) =>
          \A p \in Patterns, v \in [SetOf(lines) -> 0 .. 1] : Valuation(v, p) =>
            \A l \in SetOf(lines) : sim[l] # NotSimulated => sim[l][p] = v[l]
    BY DEF Invariant, ValueInv
  <2> QED BY <2>1, <2>2
<1> QED BY <1>1, InvariantHolds, PTL

(* The truth tables printed are those of the outputs, over the assignments *)
(* of the inputs in their order.                                           *)
THEOREM TablesAreCorrect == Spec => []TablesCorrect
<1>1. Invariant => TablesCorrect
  BY DEF Invariant
<1> QED BY <1>1, InvariantHolds, PTL

-----------------------------------------------------------------------------
(***************************************************************************)
(* Trees.  The trees cut_tree leaves are narrow.  It counts inputs in the  *)
(* order it meets gates, with the flags of that time; get_node_matrix      *)
(* walks the tree later, in another order.  CutInv says to which tree each *)
(* gate belongs, and counts lines.                                         *)
(***************************************************************************)

(***************************************************************************)
(* Counting                                                                *)
(***************************************************************************)
(* A sequence has no more elements than places, and as many when they are  *)
(* different.                                                              *)
LEMMA SetOfFinite ==
  ASSUME NEW X, NEW s \in Seq(X)
  PROVE  /\ IsFiniteSet(SetOf(s)) /\ Cardinality(SetOf(s)) \in Nat
         /\ Cardinality(SetOf(s)) <= Len(s)
         /\ Distinct(s) => Cardinality(SetOf(s)) = Len(s)
<1> DEFINE n == Len(s)
<1>1. n \in Nat /\ DOMAIN s = 1 .. n
  OBVIOUS
<1>2. IsFiniteSet(1 .. n) /\ Cardinality(1 .. n) = n
  BY <1>1, FS_Interval
<1>3. s \in [1 .. n -> SetOf(s)]
  BY <1>1 DEF SetOf
<1>4. \A l \in SetOf(s) : \E i \in 1 .. n : s[i] = l
  BY <1>1 DEF SetOf
<1>5. s \in Surjection(1 .. n, SetOf(s))
  BY <1>3, <1>4, Fun_IsSurj
<1>6. /\ IsFiniteSet(SetOf(s)) /\ Cardinality(SetOf(s)) <= Cardinality(1 .. n)
      /\ Cardinality(SetOf(s)) = Cardinality(1 .. n) <=> s \in Injection(1 .. n, SetOf(s))
  <2> HIDE DEF n
  <2> QED BY <1>2, <1>5, FS_Surjection
<1>7. Distinct(s) => s \in Injection(1 .. n, SetOf(s))
  <2>1. Distinct(s) => \A i, j \in 1 .. n : s[i] = s[j] => i = j
    BY <1>1 DEF Distinct
  <2> HIDE DEF n
  <2> QED BY <1>3, <2>1, Fun_IsInj
<1>8. Cardinality(SetOf(s)) \in Nat
  BY <1>6, FS_CardinalityType
<1> QED BY <1>2, <1>6, <1>7, <1>8

(* Sublist keeps what is in S; what it leaves out and what it keeps are    *)
(* together no more than what there was.                                   *)
LEMMA SublistCount ==
  ASSUME NEW X, NEW s \in Seq(X), NEW S
  PROVE  /\ SetOf(Sublist(s, S)) = SetOf(s) \cap S
         /\ IsFiniteSet({l \in SetOf(s) : l \notin S})
         /\ Cardinality({l \in SetOf(s) : l \notin S}) + Len(Sublist(s, S)) <= Len(s)
<1>1. PICK run \in [0 .. Len(s) -> Seq(X \cap S)] : SublistOf(run, s, S)
  BY SublistRun
<1> DEFINE n == Len(s)
           Begun(i) == {s[j] : j \in 1 .. i}
           Out(i) == {l \in Begun(i) : l \notin S}
           Good(i) == /\ IsFiniteSet(Out(i)) /\ Cardinality(Out(i)) + Len(run[i]) <= i
                      /\ SetOf(run[i]) = Begun(i) \cap S
           T == {i \in 0 .. n : Good(i)}
<1>2. n \in Nat /\ DOMAIN s = 1 .. n
  OBVIOUS
<1>3. /\ run[0] = <<>> /\ run[n] = Sublist(s, S)
      /\ \A i \in 1 .. n : run[i] = IF s[i] \in S THEN Append(run[i - 1], s[i]) ELSE run[i - 1]
      /\ \A i \in 0 .. n : run[i] \in Seq(X \cap S)
  BY <1>1 DEF SublistOf
<1>4. 0 \in T
  <2>1. Out(0) = {} /\ Begun(0) = {}
    OBVIOUS
  <2>2. IsFiniteSet(Out(0)) /\ Cardinality(Out(0)) = 0 /\ Len(run[0]) = 0
    BY <1>3, <2>1, FS_EmptySet
  <2>4. SetOf(run[0]) = Begun(0) \cap S
    <3>1. SetOf(<<>>) = {}
      BY DEF SetOf
    <3> QED BY <1>3, <2>1, <3>1
  <2>3. 0 \in 0 .. n
    BY <1>2
  <2> HIDE DEF Out, Begun, n
  <2> QED BY <2>2, <2>3, <2>4
<1>5. ASSUME NEW i \in 0 .. n - 1, i \in T PROVE i + 1 \in T
  <2> DEFINE x == s[i + 1]
             q == run[i]
  <2>1. i + 1 \in 1 .. n /\ i + 1 \in 0 .. n /\ (i + 1) - 1 = i
    BY <1>2
  <2>2. Begun(i + 1) = Begun(i) \cup {x}
    <3>1. 1 .. i + 1 = (1 .. i) \cup {i + 1}
      BY <1>2
    <3> QED BY <3>1
  <2>3. /\ IsFiniteSet(Out(i)) /\ Cardinality(Out(i)) + Len(q) <= i
        /\ SetOf(q) = Begun(i) \cap S
    BY <1>5
  <2>4. Cardinality(Out(i)) \in Nat
    BY <2>3, FS_CardinalityType
  <2>5. q \in Seq(X \cap S) /\ x \in X
    BY <1>2, <1>3, <2>1
  <2>6. CASE x \in S
    <3>1. Out(i + 1) = Out(i)
      BY <2>2, <2>6
    <3>2. run[i + 1] = Append(q, x)
      BY <1>3, <2>1, <2>6
    <3>3. /\ Len(Append(q, x)) = Len(q) + 1 /\ Len(q) \in Nat
          /\ SetOf(Append(q, x)) = SetOf(q) \cup {x}
      <4> HIDE DEF q, x
      <4>1. /\ Len(Append(q, x)) = Len(q) + 1 /\ Len(q) \in Nat
            /\ ToSet(Append(q, x)) = ToSet(q) \cup {x}
        BY <2>5, <2>6, AppendFacts
      <4> QED BY <4>1 DEF SetOf, ToSet
    <3> HIDE DEF Out, Begun, x, q, n
    <3>4. SetOf(run[i + 1]) = Begun(i + 1) \cap S
      BY <2>2, <2>3, <2>6, <3>2, <3>3
    <3>5. Cardinality(Out(i + 1)) + Len(run[i + 1]) <= i + 1
      BY <2>3, <2>4, <3>1, <3>2, <3>3
    <3>6. Good(i + 1)
      BY <2>3, <3>1, <3>4, <3>5
    <3> HIDE DEF Good
    <3> QED BY <2>1, <3>6
  <2>7. CASE x \notin S
    <3>1. Out(i + 1) = Out(i) \cup {x}
      BY <2>2, <2>7
    <3>2. run[i + 1] = q
      BY <1>3, <2>1, <2>7
    <3> HIDE DEF Out, Begun, x, q, n
    <3>3. IsFiniteSet(Out(i + 1)) /\ Cardinality(Out(i + 1)) <= Cardinality(Out(i)) + 1
      <4> DEFINE A == Out(i)
      <4>1. IsFiniteSet(A) /\ Cardinality(A) \in Nat
        BY <2>3, <2>4
      <4> HIDE DEF A
      <4>2. /\ IsFiniteSet(A \cup {x})
            /\ Cardinality(A \cup {x}) =
                 IF x \in A THEN Cardinality(A) ELSE Cardinality(A) + 1
        BY <4>1, FS_AddElement
      <4>3. IsFiniteSet(A \cup {x}) /\ Cardinality(A \cup {x}) <= Cardinality(A) + 1
        BY <4>1, <4>2
      <4> QED BY <3>1, <4>3 DEF A
    <3>4. Cardinality(Out(i + 1)) \in Nat
      BY <3>3, FS_CardinalityType
    <3>5. Len(q) \in Nat
      BY <2>5
    <3>6. Cardinality(Out(i + 1)) + Len(run[i + 1]) <= i + 1
      BY <2>3, <2>4, <3>2, <3>3, <3>4, <3>5
    <3>7. SetOf(run[i + 1]) = Begun(i + 1) \cap S
      BY <2>2, <2>3, <2>7, <3>2
    <3>8. Good(i + 1)
      BY <3>3, <3>6, <3>7
    <3> HIDE DEF Good
    <3> QED BY <2>1, <3>8
  <2> QED BY <2>6, <2>7
<1>6. n \in T
  <2> HIDE DEF T, n
  <2> QED BY <1>2, <1>4, <1>5, UpTo
<1>7. Out(n) = {l \in SetOf(s) : l \notin S} /\ Begun(n) = SetOf(s)
  BY <1>2 DEF SetOf
<1> QED BY <1>3, <1>6, <1>7

(* The head of a queue and what is behind it.                              *)
LEMMA QueueFacts ==
  ASSUME NEW X, NEW s \in Seq(X), s # <<>>
  PROVE  /\ Head(s) \in SetOf(s) /\ Tail(s) \in Seq(X) /\ Len(Tail(s)) = Len(s) - 1
         /\ SetOf(Tail(s)) \subseteq SetOf(s)
         /\ \A x \in SetOf(s) : x = Head(s) \/ x \in SetOf(Tail(s))
<1> DEFINE t == Tail(s)
<1>1. /\ Head(s) = s[1] /\ t \in Seq(X) /\ Len(t) = Len(s) - 1
      /\ \A i \in 1 .. Len(s) - 1 : t[i] = s[i + 1]
      /\ DOMAIN t = 1 .. Len(s) - 1
  BY TailFacts
<1>2. Len(s) \in Nat \ {0} /\ DOMAIN s = 1 .. Len(s)
  OBVIOUS
<1>3. Head(s) \in SetOf(s)
  BY <1>1, <1>2 DEF SetOf
<1>4. \A x \in SetOf(s) : x = Head(s) \/ x \in SetOf(t)
  <2>1. ASSUME NEW i \in DOMAIN s PROVE s[i] = Head(s) \/ s[i] \in SetOf(t)
    <3>1. CASE i = 1
      BY <1>1, <3>1
    <3>2. CASE i # 1
      <4>1. i - 1 \in 1 .. Len(s) - 1 /\ (i - 1) + 1 = i
        BY <1>2, <3>2
      <4>2. t[i - 1] = s[i] /\ i - 1 \in DOMAIN t
        BY <1>1, <4>1
      <4> QED BY <4>2 DEF SetOf
    <3> QED BY <3>1, <3>2
  <2> QED BY <2>1 DEF SetOf
<1>5. SetOf(t) \subseteq SetOf(s)
  <2>1. \A i \in DOMAIN t : i + 1 \in DOMAIN s /\ t[i] = s[i + 1]
    BY <1>1, <1>2
  <2> QED BY <2>1 DEF SetOf
<1> QED BY <1>1, <1>3, <1>4, <1>5

(* The lines flagged are finitely many.                                    *)
LEMMA FlagFinite ==
  ASSUME TypeOK, FlagInv
  PROVE  IsFiniteSet(flag)
<1> DEFINE outs == [g \in DOMAIN gates |-> gates[g].out]
<1>1. gates \in Seq(Gate) /\ inputs \in Seq(Names)
  BY DEF TypeOK, GraphTypeOK
<1>2. outs \in Seq(Names)
  <2>1. \A g \in DOMAIN gates : gates[g].out \in Names
    BY GateFacts
  <2>2. DOMAIN gates = 1 .. Len(gates) /\ Len(gates) \in Nat
    BY <1>1
  <2> QED BY <2>1, <2>2
<1>3. SetOf(outs) = {gates[g].out : g \in DOMAIN gates}
  BY DEF SetOf
<1>4. IsFiniteSet(SetOf(inputs)) /\ IsFiniteSet(SetOf(outs))
  <2> HIDE DEF outs
  <2> QED BY <1>1, <1>2, SetOfFinite
<1>5. IsFiniteSet(SetOf(inputs) \cup SetOf(outs))
  BY <1>4, FS_Union
<1>6. flag \subseteq SetOf(inputs) \cup SetOf(outs)
  BY <1>3 DEF FlagInv
<1> QED BY <1>5, <1>6, FS_Subset

-----------------------------------------------------------------------------
(***************************************************************************)
(* The gates called drive the line they were called for, and of the gates  *)
(* only those that drive outputs are flagged before the marking.           *)
(***************************************************************************)
CalledInv ==
  /\ phase \in {"parse", "stimuli"} => called = {}
  /\ phase = "depth" => flag = SetOf(inputs)
  /\ \A g \in called : /\ source[gates[g].out] = g
                       /\ IsInput(gates[g].out) => IsOutput(gates[g].out)
  /\ \A g \in DOMAIN gates : ~Unlevelled(g) => g \in called

(***************************************************************************)
(* The gates the loop has yet to reach lie at or above those it has met,   *)
(* and the trees are those of gates it has met.                            *)
(***************************************************************************)
MarkInv ==
  phase = "mark" =>
    /\ \A h \in DOMAIN gates \ todo, g \in todo : level[h] <= level[g]
    /\ \A g \in todo : gates[g].out \in flag => MustSimulate(g)
    /\ \A g \in SetOf(nodes) : g \notin todo /\ gates[g].out \in flag
    /\ \A g \in SetOf(temp) : g \notin todo

(***************************************************************************)
(* o says for each gate to which tree it belongs: that of the flagged gate *)
(* o[g], or none that is known.                                            *)
(***************************************************************************)
Owners == [DOMAIN gates -> DOMAIN gates \cup {NoGate}]

WidthBound == MaxBranch + Highest(Fanin)

(* The flagged lines the tree of q reads: its leaves.                      *)
LeafLines(o, q) ==
  {l \in flag : \E g \in DOMAIN gates : o[g] = q /\ l \in SetOf(gates[g].ins)}

(* What else the tree of q reads is in the tree or in S.                   *)
Closed(o, q, S) ==
  \A g \in DOMAIN gates : o[g] = q => \A l \in SetOf(gates[g].ins) :
    l \in flag \/ (source[l] \in DOMAIN gates /\ (o[source[l]] = q \/ source[l] \in S))

(* Trees have flagged roots, and what is inside one is not read by another. *)
Apart(o) ==
  \A g \in DOMAIN gates :
    /\ o[g] = g => gates[g].out \in flag
    /\ o[g] \notin {g, NoGate} =>
         /\ gates[g].out \notin flag
         /\ \A h \in Destinations(gates[g].out) : o[h] \in {o[g], NoGate}

CutDone(o, q) ==
  o[q] = q /\ Closed(o, q, {}) /\ Cardinality(LeafLines(o, q)) <= WidthBound

(* The tree of q while it grows: the leaves counted are those it reads and *)
(* those its frontier S may become.                                        *)
Growing(o, q, S) ==
  /\ o[q] = q
  /\ \A x \in S : /\ gates[x].out \notin flag
                  /\ \E h \in Destinations(gates[x].out) : o[h] = q

InCut(o, q) ==
  /\ q \in DOMAIN gates /\ gates[q].out \in flag /\ q \notin todo
  /\ Closed(o, q, SetOf(temp))
  /\ Cardinality(LeafLines(o, q)) + Len(temp) <= count + 1 /\ count <= MaxBranch
  /\ temp = <<q>> \/ Growing(o, q, SetOf(temp))

(* The trees while the gates are marked, q being the root of the one that  *)
(* is cut.                                                                 *)
Cutting(o, q) ==
  /\ Apart(o)
  /\ \A g \in todo : o[g] = NoGate
  /\ \A g \in DOMAIN gates \ (todo \cup SetOf(nodes)) :
       gates[g].out \in flag => CutDone(o, g) \/ (temp # <<>> /\ g = q)
  /\ temp # <<>> => InCut(o, q)

(* The trees while they are multiplied out.                                *)
Multiplying(o) ==
  /\ \A g \in DOMAIN gates : gates[g].out \in flag => CutDone(o, g)
  /\ root # NoGate =>
       /\ \A g \in SetOf(chain) : o[g] = root
       /\ SetOf(leaves) \subseteq LeafLines(o, root)
       /\ \A l \in SetOf(stack) : \E g \in DOMAIN gates : o[g] = root /\ l \in SetOf(gates[g].ins)
       /\ Distinct(leaves)

(* Between two trees the variables of the last one are still there.        *)
RestInv == phase = "simulate" /\ root = NoGate => Len(leaves) <= WidthBound

CutInv ==
  /\ CalledInv /\ MarkInv /\ RestInv
  /\ phase = "mark" => \E o \in Owners, q \in DOMAIN gates \cup {NoGate} : Cutting(o, q)
  /\ phase = "simulate" => \E o \in Owners : Multiplying(o)

-----------------------------------------------------------------------------
(* Gates are called for the lines they drive.                              *)
LEMMA CalledStep ==
  ASSUME Invariant, CalledInv, Next, LevelInv'
  PROVE  CalledInv'
<1>0. TypeOK /\ SourceInv /\ LevelInv /\ BlankInv
  BY DEF Invariant
<1> USE DEF CalledInv
<1>1. CASE AddInput \/ AddOutput \/ AddGate \/ SkipLine
  <2>1. phase = "parse" /\ phase' = "parse" /\ called' = {}
    BY <1>1 DEF AddInput, AddOutput, AddGate, SkipLine, Reading
  <2>2. \A g \in DOMAIN gates' : Unlevelled(g)'
    BY <2>1 DEF LevelInv
  <2> QED BY <2>1, <2>2
<1>2. ASSUME UNCHANGED <<inputs, outputs, gates, source, called, level>>,
             phase' \in {"parse", "stimuli"} => phase \in {"parse", "stimuli"},
             phase' = "depth" => flag' = SetOf(inputs)
      PROVE  CalledInv'
  BY <1>2 DEF IsInput, IsOutput, Unlevelled
<1>3. CASE Parsed /\ UNCHANGED simVars
  <2>1. phase = "parse" /\ phase' = "stimuli"
    BY <1>3 DEF Parsed
  <2> QED BY <1>2, <1>3, <2>1 DEF Parsed, graphVars
<1>4. CASE Run \/ Stopped
  <2>1. UNCHANGED graphVars
    BY <1>4, RunKeepsGraph DEF Stopped, vars
  <2>2. phase' \in {"parse", "stimuli"} => phase \in {"parse", "stimuli"}
    BY <1>0, PhaseSteps
  <2>3. phase' = "depth" => flag' = SetOf(inputs)
    <3>1. CASE Stimuli
      BY <1>0, <3>1, StimuliFacts
    <3>2. CASE ~Stimuli
      <4>1. phase' # "depth"
        BY <1>4, <3>2
        DEF Run, NeedNodes, StartMarking, Mark, CutNext, CutStep, Order, NoDepth,
            SingleNodeSim, Simulate, TakeLeaf, TakeGate, MultiplyOut, SetSimInfo, Report,
            ShortTable, OutOfBounds, GroupByLevel, Stopped, vars
      <4> QED BY <4>1
    <3> QED BY <3>1, <3>2
  <2> QED BY <1>2, <2>1, <2>2, <2>3 DEF graphVars
<1>5. ASSUME NEW l \in Names, CallNothing(l), UNCHANGED simVars PROVE CalledInv'
  <2>1. phase' = "outOfBounds" /\ UNCHANGED graphVars
    BY <1>5 DEF CallNothing
  <2> QED BY <1>2, <2>1 DEF graphVars
<1>6. ASSUME NEW l \in Names, Call(l), UNCHANGED simVars PROVE CalledInv'
  <2> DEFINE n == source[l]
  <2>1. /\ phase = "depth" /\ l \in WantedLines /\ n \in DOMAIN gates
        /\ called' = called \cup {n}
        /\ UNCHANGED <<phase, inputs, outputs, gates, source, level, flag>>
    BY <1>6 DEF Call, simVars
  <2>2. gates[n].out = l
    <3>1. n # NULL_INDEX
      BY <1>0, <2>1 DEF TypeOK, GraphTypeOK, NULL_INDEX
    <3> QED BY <1>0, <3>1 DEF SourceInv
  <2>3. IsInput(l) => IsOutput(l)
    BY <2>1 DEF WantedLines, IsOutput
  <2> QED BY <2>1, <2>2, <2>3 DEF IsInput, IsOutput, Unlevelled
<1>7. ASSUME NEW g \in DOMAIN gates, ReturnFrom(g), UNCHANGED simVars PROVE CalledInv'
  <2>1. /\ g \in called /\ level' = [level EXCEPT ![g] = 1 + Highest({level[d] : d \in Drivers(g)})]
        /\ UNCHANGED <<phase, inputs, outputs, gates, source, called, flag>>
    BY <1>7 DEF ReturnFrom, simVars
  <2>2. \A h \in DOMAIN gates : h # g => level'[h] = level[h]
    <3>1. DOMAIN level = DOMAIN gates
      BY <1>0 DEF TypeOK, GraphTypeOK
    <3> QED BY <2>1, <3>1
  <2> QED BY <2>1, <2>2 DEF IsInput, IsOutput, Unlevelled
<1> QED
  BY <1>1, <1>3, <1>4, <1>5, <1>6, <1>7 DEF Next, Step, Parse, Run

-----------------------------------------------------------------------------
(***************************************************************************)
(* The graph as cut_tree finds it                                          *)
(***************************************************************************)
(* Once every gate has a level, each drives the line it names.             *)
LEMMA GateOfLine ==
  ASSUME Invariant, CalledInv, phase \in {"mark", "simulate"}
  PROVE  /\ \A g \in DOMAIN gates : source[gates[g].out] = g /\ level[g] \in Nat
         /\ \A g, h \in DOMAIN gates : gates[g].out = gates[h].out => g = h
<1>1. TypeOK /\ LevelInv
  BY DEF Invariant
<1>2. \A g \in DOMAIN gates : ~Unlevelled(g)
  BY <1>1 DEF LevelInv
<1>3. \A g \in DOMAIN gates : source[gates[g].out] = g
  BY <1>2 DEF CalledInv
<1>4. \A g \in DOMAIN gates : level[g] \in Nat
  BY <1>1, <1>2, GateFacts DEF Unlevelled
<1> QED BY <1>3, <1>4

(* A line that is not flagged is driven from below.                        *)
LEMMA DriverBelow ==
  ASSUME Invariant, CalledInv, phase \in {"mark", "simulate"},
         NEW g \in DOMAIN gates, NEW l \in SetOf(gates[g].ins), l \notin flag
  PROVE  /\ source[l] \in DOMAIN gates /\ gates[source[l]].out = l
         /\ level[source[l]] < level[g]
<1>1. TypeOK /\ SourceInv /\ LevelInv /\ FlagInv
  BY DEF Invariant
<1>2. ~IsInput(l)
  BY <1>1 DEF FlagInv, IsInput
<1>3. level[g] # NO_LEVEL
  BY <1>1 DEF LevelInv, Unlevelled
<1>4. source[l] \in DOMAIN gates /\ level[source[l]] < level[g]
  BY <1>1, <1>2, <1>3, DriverFacts DEF LevelInv
<1>5. l \in Names
  BY <1>1, GateFacts
<1>6. source[l] # NULL_INDEX
  <2>1. DOMAIN gates = 1 .. Len(gates) /\ Len(gates) \in Nat
    BY <1>1 DEF TypeOK, GraphTypeOK
  <2> QED BY <1>4, <2>1 DEF NULL_INDEX
<1> QED BY <1>1, <1>4, <1>5, <1>6 DEF SourceInv

(* A gate that was met and not flagged has at most one reader.             *)
LEMMA OneReader ==
  ASSUME Invariant, phase = "mark",
         NEW x \in DOMAIN gates, x \notin todo, gates[x].out \notin flag,
         NEW h \in Destinations(gates[x].out), NEW k \in Destinations(gates[x].out)
  PROVE  h = k
<1> DEFINE D == Destinations(gates[x].out)
<1>1. TypeOK /\ SharedInv
  BY DEF Invariant
<1>2. ~MustSimulate(x)
  BY <1>1 DEF SharedInv
<1>3. Reader(gates[x].out)
  BY DEF Reader, Destinations
<1>4. Cardinality(D) = 1
  BY <1>1, <1>2, <1>3, SingleReader
<1>5. IsFiniteSet(D)
  <2>1. DOMAIN gates = 1 .. Len(gates) /\ Len(gates) \in Nat
    BY <1>1 DEF TypeOK, GraphTypeOK
  <2>2. IsFiniteSet(DOMAIN gates) /\ D \subseteq DOMAIN gates
    BY <2>1, FS_Interval DEF Destinations
  <2> QED BY <2>2, FS_Subset
<1> HIDE DEF D
<1>6. \E z : D = {z}
  BY <1>4, <1>5, FS_Singleton
<1> QED BY <1>6 DEF D

(* The frontier after a gate gave way to its drivers.                      *)
Frontier == Tail(temp) \o UnflaggedDrivers(Head(temp))

(* What is in it, where that comes from, and how many gates there are.     *)
LEMMA FrontierFacts ==
  ASSUME Invariant, CalledInv, MarkInv, CutStep
  PROVE  /\ phase = "mark" /\ temp # <<>>
         /\ Head(temp) \in DOMAIN gates /\ Head(temp) \in SetOf(temp)
         /\ Head(temp) \notin todo
         /\ Frontier \in Seq(DOMAIN gates)
         /\ \A x \in SetOf(temp) : x = Head(temp) \/ x \in SetOf(Frontier)
         /\ \A l \in SetOf(gates[Head(temp)].ins) \ flag : source[l] \in SetOf(Frontier)
         /\ \A x \in SetOf(Frontier) :
              /\ x \in DOMAIN gates /\ x \notin todo
              /\ \/ x \in SetOf(Tail(temp)) /\ x \in SetOf(temp)
                 \/ /\ gates[x].out \in SetOf(gates[Head(temp)].ins)
                    /\ gates[x].out \notin flag
         /\ Len(Frontier) = Len(temp) - 1 + Len(Sublist(gates[Head(temp)].ins, Names \ flag))
<1>0. TypeOK /\ LevelInv /\ FlagInv
  BY DEF Invariant
<1> DEFINE g == Head(temp)
           t == Tail(temp)
           D == DOMAIN gates
           ins == gates[g].ins
           s == Sublist(ins, Names \ flag)
           u == UnflaggedDrivers(g)
<1>1. phase = "mark" /\ temp # <<>> /\ temp \in Seq(D)
  BY <1>0 DEF CutStep, TypeOK
<1>2. g \in D /\ t \in Seq(D) /\ Len(t) = Len(temp) - 1
  BY <1>1, TailFacts
<1>3. Len(temp) \in Nat
  BY <1>1
<1>4. /\ g \in SetOf(temp) /\ SetOf(t) \subseteq SetOf(temp)
      /\ \A x \in SetOf(temp) : x = g \/ x \in SetOf(t)
  BY <1>1, QueueFacts
<1>7. u \in Seq(D)
  <2>1. phase = "mark" /\ g \in DOMAIN gates
    BY <1>1, <1>2
  <2> QED BY <1>0, <2>1, UnflaggedType
<1>8. ins \in Seq(Names) /\ SetOf(ins) \subseteq Names
  <2>1. g \in DOMAIN gates
    BY <1>2
  <2> QED BY <1>0, <2>1, GateFacts
<1>9. s \in Seq(Names) /\ SetOf(s) = SetOf(ins) \ flag
  <2>1. s \in Seq(Names \cap (Names \ flag))
    <3> HIDE DEF ins
    <3> QED BY <1>8, SublistType
  <2>2. SetOf(s) = SetOf(ins) \cap (Names \ flag)
    <3> HIDE DEF ins
    <3> QED BY <1>8, SublistCount
  <2> HIDE DEF s, ins
  <2>3. s \in Seq(Names)
    BY <2>1
  <2>4. SetOf(ins) \cap (Names \ flag) = SetOf(ins) \ flag
    BY <1>8
  <2> QED BY <2>2, <2>3, <2>4 DEF s
<1>10. u = [i \in DOMAIN s |-> source[s[i]]] /\ DOMAIN s = 1 .. Len(s) /\ Len(s) \in Nat
  BY <1>9 DEF UnflaggedDrivers
<1> HIDE DEF g, t, D, s, u, ins
<1>11. Len(u) = Len(s)
  BY <1>10
<1>12. SetOf(u) = {source[l] : l \in SetOf(s)}
  BY <1>10 DEF SetOf
<1>13. Frontier = t \o u
  BY DEF Frontier, t, u, g
<1>14. /\ Frontier \in Seq(D) /\ Len(Frontier) = Len(t) + Len(u)
       /\ SetOf(Frontier) = SetOf(t) \cup SetOf(u)
  <2>1. t \in Seq(D) /\ u \in Seq(D)
    BY <1>2, <1>7
  <2>2. t \o u \in Seq(D) /\ Len(t \o u) = Len(t) + Len(u)
        /\ SetOf(t \o u) = SetOf(t) \cup SetOf(u)
    BY <2>1, JoinFacts
  <2> QED BY <1>13, <2>2
<1>15. g \notin todo
  BY <1>1, <1>4 DEF MarkInv
<1>16. ASSUME NEW x \in SetOf(u)
       PROVE  /\ x \in D /\ x \notin todo
              /\ gates[x].out \in SetOf(ins) /\ gates[x].out \notin flag
  <2>1. PICK l \in SetOf(ins) : l \notin flag /\ x = source[l]
    BY <1>9, <1>12
  <2>2. x \in D /\ gates[x].out = l /\ level[x] < level[g]
    BY <1>1, <1>2, <2>1, DriverBelow DEF ins, D
  <2>3. x \notin todo
    <3>1. level[x] \in Nat /\ level[g] \in Nat
      BY <1>1, <1>2, <2>2, GateOfLine DEF D
    <3> QED BY <1>1, <1>2, <1>15, <2>2, <3>1 DEF MarkInv, D
  <2> QED BY <2>1, <2>2, <2>3
<1>17. \A x \in SetOf(t) : x \in D /\ x \notin todo
  <2>1. \A x \in SetOf(t) : x \notin todo
    BY <1>1, <1>4 DEF MarkInv
  <2>2. \A x \in SetOf(t) : x \in D
    BY <1>2 DEF SetOf
  <2> QED BY <2>1, <2>2
<1> QED
  BY <1>1, <1>2, <1>3, <1>4, <1>9, <1>11, <1>12, <1>14, <1>15, <1>16, <1>17
  DEF g, t, D, ins, s

(* The steps of get_need_nodes, and how each leaves the marking.           *)
LEMMA MarkSteps ==
  ASSUME Next, phase' = "mark"
  PROVE  StartMarking \/ Mark \/ CutNext \/ CutStep
<1>1. ~(Parse \/ Stimuli \/ SingleNodeSim \/ Report \/ ShortTable \/ Order \/ NoDepth)
  BY DEF Parse, AddInput, AddOutput, AddGate, SkipLine, Parsed, Reading, Stimuli, RandomStimuli,
         FullStimuli, NoSuchBit, OutOfBounds, SingleNodeSim, Simulate, TakeLeaf, TakeGate,
         MultiplyOut, SetSimInfo, Report, ShortTable, Order, NoDepth
<1>2. \A l \in Names : ~(CallNothing(l) \/ Call(l))
  BY DEF CallNothing, Call
<1>3. \A g \in DOMAIN gates : ~ReturnFrom(g)
  BY DEF ReturnFrom
<1>4. ~Stopped
  BY DEF Stopped, vars
<1> QED BY <1>1, <1>2, <1>3, <1>4 DEF Next, Step, NeedNodes

(* What must be simulated depends on the graph alone.                      *)
LEMMA MustKept ==
  ASSUME UNCHANGED <<gates, outputs>>
  PROVE  \A g : MustSimulate(g)' = MustSimulate(g)
BY DEF MustSimulate, IsOutput, Destinations

(* The loop over the levels and cut_tree meet gates from below.            *)
LEMMA MarkStep ==
  ASSUME Invariant, CalledInv, MarkInv, Next
  PROVE  MarkInv'
<1> SUFFICES ASSUME phase' = "mark" PROVE MarkInv'
  BY DEF MarkInv
<1>0. TypeOK /\ LevelInv /\ BlankInv /\ SharedInv
  BY DEF Invariant
<1>1. CASE StartMarking
  <2>1. /\ phase = "depth" /\ UNCHANGED <<gates, outputs, called, flag, nodes, temp>>
        /\ todo' = DOMAIN gates /\ inputs' = inputs
        /\ \A g \in DOMAIN gates : ~Unlevelled(g)
    BY <1>1 DEF StartMarking, GroupByLevel, graphVars
  <2>2. nodes = <<>> /\ temp = <<>> /\ flag = SetOf(inputs)
    BY <1>0, <2>1 DEF BlankInv, CalledInv
  <2>3. \A g \in DOMAIN gates : gates[g].out \in flag => MustSimulate(g)
    BY <2>1, <2>2 DEF CalledInv, IsInput, MustSimulate
  <2>4. \A g \in todo' : gates'[g].out \in flag' => MustSimulate(g)'
    BY <2>1, <2>3, MustKept
  <2>5. DOMAIN gates' \ todo' = {} /\ SetOf(nodes') = {} /\ SetOf(temp') = {}
    BY <2>1, <2>2 DEF SetOf
  <2> QED BY <2>4, <2>5 DEF MarkInv
<1>2. CASE Mark
  <2> DEFINE g == First(todo)
  <2>1. /\ phase = "mark" /\ nodes = <<>> /\ temp = <<>> /\ todo # {} /\ temp' = temp
        /\ nodes' = IF MustSimulate(g) THEN <<g>> ELSE nodes
    BY <1>2 DEF Mark
  <2>2. /\ g \in todo /\ todo' = todo \ {g} /\ UNCHANGED <<gates, outputs, level>>
        /\ IF MustSimulate(g) THEN flag' = flag \cup {gates[g].out} ELSE flag' = flag
    BY <1>0, <1>2, MarkFacts DEF graphVars
  <2>3. g \in DOMAIN gates /\ \A h \in todo : level[g] <= level[h]
    BY <1>0, <2>1, FirstType
  <2>4. \A g2, h \in DOMAIN gates : gates[g2].out = gates[h].out => g2 = h
    BY <2>1, GateOfLine
  <2>5. todo \subseteq DOMAIN gates
    BY <1>0 DEF TypeOK
  <2> HIDE DEF g
  <2>6. \A h \in DOMAIN gates' \ todo', k \in todo' : level'[h] <= level'[k]
    BY <2>1, <2>2, <2>3 DEF MarkInv
  <2>7. \A h \in todo' : gates'[h].out \in flag' => MustSimulate(h)'
    BY <2>1, <2>2, <2>3, <2>4, <2>5, MustKept DEF MarkInv
  <2>8. \A h \in SetOf(nodes') : h \notin todo' /\ gates'[h].out \in flag'
    BY <2>1, <2>2 DEF SetOf
  <2>9. SetOf(temp') = {}
    BY <2>1 DEF SetOf
  <2> QED BY <2>6, <2>7, <2>8, <2>9 DEF MarkInv
<1>3. CASE CutNext
  <2>1. /\ phase = "mark" /\ nodes # <<>> /\ temp' = <<Head(nodes)>> /\ nodes' = Tail(nodes)
        /\ UNCHANGED <<gates, outputs, level, todo, flag>>
    BY <1>3 DEF CutNext, graphVars
  <2>2. nodes \in Seq(DOMAIN gates)
    BY <1>0 DEF TypeOK
  <2>3. Head(nodes) \in SetOf(nodes) /\ SetOf(Tail(nodes)) \subseteq SetOf(nodes)
    BY <2>1, <2>2, QueueFacts
  <2>4. SetOf(temp') = {Head(nodes)}
    BY <2>1 DEF SetOf
  <2>5. \A g : MustSimulate(g)' = MustSimulate(g)
    BY <2>1, MustKept
  <2> QED BY <2>1, <2>3, <2>4, <2>5 DEF MarkInv
<1>4. CASE CutStep
  <2>1. /\ phase = "mark"
        /\ \/ /\ flag' = flag \cup {gates[Frontier[i]].out : i \in DOMAIN Frontier}
              /\ nodes' = nodes \o Frontier /\ temp' = <<>>
           \/ temp' = Frontier /\ UNCHANGED <<flag, nodes>>
        /\ UNCHANGED <<gates, outputs, level, todo>>
    BY <1>4, Zenon DEF CutStep, Frontier, graphVars
  <2>2. /\ Frontier \in Seq(DOMAIN gates)
        /\ \A x \in SetOf(Frontier) : x \in DOMAIN gates /\ x \notin todo
    BY <1>4, FrontierFacts
  <2>3. {gates[Frontier[i]].out : i \in DOMAIN Frontier} = {gates[x].out : x \in SetOf(Frontier)}
    BY DEF SetOf
  <2>4. SetOf(nodes \o Frontier) = SetOf(nodes) \cup SetOf(Frontier)
    <3>1. nodes \in Seq(DOMAIN gates)
      BY <1>0 DEF TypeOK
    <3> QED BY <2>2, <3>1, JoinFacts
  <2>5. \A g : MustSimulate(g)' = MustSimulate(g)
    BY <2>1, MustKept
  <2>6. todo \subseteq DOMAIN gates
    BY <1>0 DEF TypeOK
  <2>7. \A g, h \in DOMAIN gates : gates[g].out = gates[h].out => g = h
    BY <2>1, GateOfLine
  <2>8. CASE temp' = Frontier /\ UNCHANGED <<flag, nodes>>
    BY <2>1, <2>2, <2>5, <2>8 DEF MarkInv
  <2>9. CASE /\ flag' = flag \cup {gates[x].out : x \in SetOf(Frontier)}
             /\ nodes' = nodes \o Frontier /\ temp' = <<>>
    <3>1. \A h \in todo' : gates'[h].out \in flag' => MustSimulate(h)'
      BY <2>1, <2>2, <2>5, <2>6, <2>7, <2>9 DEF MarkInv
    <3>2. \A h \in SetOf(nodes') : h \notin todo' /\ gates'[h].out \in flag'
      BY <2>1, <2>2, <2>4, <2>9 DEF MarkInv
    <3>3. SetOf(temp') = {}
      BY <2>9 DEF SetOf
    <3> QED BY <2>1, <3>1, <3>2, <3>3 DEF MarkInv
  <2> QED BY <2>1, <2>3, <2>8, <2>9
<1> QED BY <1>1, <1>2, <1>3, <1>4, MarkSteps

(* A tree may have MaxBranch leaves and those of one gate more.            *)
LEMMA WidthType ==
  ASSUME TypeOK
  PROVE  /\ WidthBound \in Int
         /\ \A g \in DOMAIN gates :
              Len(gates[g].ins) \in Nat /\ MaxBranch + Len(gates[g].ins) <= WidthBound
<1> DEFINE w == [g \in DOMAIN gates |-> Len(gates[g].ins)]
<1>1. DOMAIN gates = 1 .. Len(gates) /\ Len(gates) \in Nat
  BY DEF TypeOK, GraphTypeOK
<1>2. \A g \in DOMAIN gates : Len(gates[g].ins) \in Nat
  BY GateFacts
<1>3. \A g \in DOMAIN gates : w[g] \in Nat /\ w[g] = Len(gates[g].ins)
  BY <1>2
<1>4. Fanin = {w[g] : g \in DOMAIN gates}
  BY DEF Fanin
<1> HIDE DEF w
<1>5. /\ Highest({w[g] : g \in DOMAIN gates}) \in Nat \cup {-1}
      /\ \A g \in DOMAIN gates : w[g] <= Highest({w[g2] : g2 \in DOMAIN gates})
  <2> DEFINE D == DOMAIN gates
             m == Len(gates)
  <2>1. D \in SUBSET (1 .. m) /\ m \in Nat /\ \A g \in D : w[g] \in Nat
    BY <1>1, <1>3
  <2> HIDE DEF D, m
  <2>2. /\ Highest({w[g] : g \in D}) \in Nat \cup {-1}
        /\ \A g \in D : w[g] <= Highest({w[g2] : g2 \in D})
    BY <2>1, HighestFacts
  <2> QED BY <2>2 DEF D
<1>6. /\ Highest(Fanin) \in Int
      /\ \A g \in DOMAIN gates : Len(gates[g].ins) <= Highest(Fanin)
  BY <1>3, <1>4, <1>5
<1>7. MaxBranch \in Nat
  BY SimulatorAssumption
<1> QED BY <1>2, <1>6, <1>7 DEF WidthBound

(* Fewer leaves than those of a tree that is narrow are few enough.        *)
LEMMA LeavesFewer ==
  ASSUME TypeOK, FlagInv, NEW o, NEW q, Cardinality(LeafLines(o, q)) <= WidthBound,
         NEW S \in SUBSET LeafLines(o, q)
  PROVE  IsFiniteSet(S) /\ Cardinality(S) \in Nat /\ Cardinality(S) <= WidthBound
<1>1. IsFiniteSet(flag) /\ LeafLines(o, q) \subseteq flag
  BY FlagFinite DEF LeafLines
<1>2. IsFiniteSet(LeafLines(o, q))
  BY <1>1, FS_Subset
<1>3. IsFiniteSet(S) /\ Cardinality(S) <= Cardinality(LeafLines(o, q))
  BY <1>2, FS_Subset
<1>4. Cardinality(S) \in Nat /\ Cardinality(LeafLines(o, q)) \in Nat
  BY <1>2, <1>3, FS_CardinalityType
<1> QED BY <1>3, <1>4, WidthType

-----------------------------------------------------------------------------
(***************************************************************************)
(* One step of cut_tree: the first gate of the frontier joins the tree of  *)
(* q, and its drivers leave any other tree.                                *)
(***************************************************************************)
Grown(o, q) ==
  [x \in DOMAIN gates |->
     IF x = Head(temp) THEN q
     ELSE IF x \in SetOf(Frontier) /\ o[x] # q THEN NoGate
     ELSE o[x]]

(* No gate is NoGate.                                                      *)
LEMMA NoGateFacts ==
  ASSUME TypeOK
  PROVE  NoGate \notin DOMAIN gates
<1>1. DOMAIN gates = 1 .. Len(gates) /\ Len(gates) \in Nat
  BY DEF TypeOK, GraphTypeOK
<1> QED BY <1>1 DEF NoGate

(* The gate that joins is the root, or inside the tree as a gate of the    *)
(* frontier.                                                               *)
LEMMA HeadFacts ==
  ASSUME Invariant, CalledInv, MarkInv, CutStep, NEW o, NEW q, InCut(o, q)
  PROVE  /\ q \in DOMAIN gates /\ gates[q].out \in flag /\ q \notin todo
         /\ \/ Head(temp) = q /\ SetOf(Tail(temp)) = {}
            \/ Growing(o, q, SetOf(temp)) /\ gates[Head(temp)].out \notin flag
<1>1. q \in DOMAIN gates /\ gates[q].out \in flag /\ q \notin todo
  BY DEF InCut
<1>2. CASE temp = <<q>>
  <2>1. Head(temp) = q /\ Tail(temp) = <<>>
    BY <1>2
  <2> QED BY <1>1, <2>1 DEF SetOf
<1>3. CASE Growing(o, q, SetOf(temp))
  <2>1. Head(temp) \in SetOf(temp)
    BY FrontierFacts
  <2> QED BY <1>1, <1>3, <2>1 DEF Growing
<1> QED BY <1>2, <1>3 DEF InCut

(* To which trees the gates belong then, and that what the tree of q reads *)
(* is in it or in the frontier.                                            *)
LEMMA GrownFacts ==
  ASSUME Invariant, CalledInv, MarkInv, CutStep, NEW o \in Owners, NEW q, InCut(o, q),
         NEW n, n = Grown(o, q)
  PROVE  /\ n \in Owners
         /\ \A x \in DOMAIN gates : n[x] = q <=> x = Head(temp) \/ o[x] = q
         /\ \A x \in DOMAIN gates : n[x] \notin {q, NoGate} =>
              n[x] = o[x] /\ x # Head(temp) /\ x \notin SetOf(Frontier)
         /\ \A x \in DOMAIN gates :
              x # Head(temp) /\ x \notin SetOf(Frontier) => n[x] = o[x]
         /\ \A x \in DOMAIN gates : x # Head(temp) => n[x] \in {o[x], NoGate}
         /\ Growing(n, q, SetOf(Frontier))
         /\ Closed(n, q, SetOf(Frontier))
<1> DEFINE g == Head(temp)
           F == SetOf(Frontier)
           D == DOMAIN gates
<1>0. TypeOK
  BY DEF Invariant
<1>1. /\ g \in D /\ q \in D /\ NoGate \notin D /\ o \in [D -> D \cup {NoGate}]
      /\ gates[q].out \in flag
  BY <1>0, FrontierFacts, HeadFacts, NoGateFacts DEF Owners
<1>2. n = [x \in D |-> IF x = g THEN q
                       ELSE IF x \in F /\ o[x] # q THEN NoGate ELSE o[x]]
  BY DEF Grown
<1> HIDE DEF g, F, D
<1>3. n \in [D -> D \cup {NoGate}]
  BY <1>1, <1>2
<1>4. \A x \in D : n[x] = q <=> x = g \/ o[x] = q
  BY <1>1, <1>2
<1>5. \A x \in D : n[x] \notin {q, NoGate} => n[x] = o[x] /\ x # g /\ x \notin F
  BY <1>1, <1>2
<1>6. \A x \in D : x # g /\ x \notin F => n[x] = o[x]
  BY <1>2
<1>7. \A x \in D : x # g => n[x] \in {o[x], NoGate}
  BY <1>2
<1>8. Growing(n, q, F)
  <2>1. n[q] = q
    BY <1>1, <1>4, HeadFacts DEF Growing, g
  <2>2. ASSUME NEW x \in F
        PROVE  gates[x].out \notin flag /\ \E h \in Destinations(gates[x].out) : n[h] = q
    <3>1. CASE x \in SetOf(Tail(temp)) /\ x \in SetOf(temp)
      <4>1. Growing(o, q, SetOf(temp))
        BY <3>1, HeadFacts
      <4>2. gates[x].out \notin flag
        BY <3>1, <4>1 DEF Growing
      <4>3. PICK h \in Destinations(gates[x].out) : o[h] = q
        BY <3>1, <4>1 DEF Growing
      <4>4. n[h] = q
        BY <1>4, <4>3 DEF Destinations, D
      <4> QED BY <4>2, <4>4
    <3>2. CASE gates[x].out \in SetOf(gates[g].ins) /\ gates[x].out \notin flag
      <4>1. g \in Destinations(gates[x].out) /\ n[g] = q
        BY <1>1, <1>4, <3>2 DEF Destinations, D
      <4> QED BY <3>2, <4>1
    <3> QED BY <3>1, <3>2, FrontierFacts DEF F, g
  <2> QED BY <2>1, <2>2 DEF Growing
<1>9. Closed(n, q, F)
  <2> SUFFICES ASSUME NEW h \in D, n[h] = q, NEW l \in SetOf(gates[h].ins), l \notin flag
               PROVE  source[l] \in D /\ (n[source[l]] = q \/ source[l] \in F)
    BY DEF Closed, D
  <2>1. CASE h = g
    <3>1. source[l] \in F
      BY <2>1, FrontierFacts DEF F, g
    <3>2. source[l] \in D
      BY <3>1, FrontierFacts DEF F, D
    <3> QED BY <3>1, <3>2
  <2>2. CASE h # g
    <3>1. o[h] = q
      BY <1>4, <2>2
    <3>2. source[l] \in D /\ (o[source[l]] = q \/ source[l] \in SetOf(temp))
      BY <3>1 DEF InCut, Closed, D
    <3>3. CASE o[source[l]] = q
      BY <1>4, <3>2, <3>3
    <3>4. CASE source[l] \in SetOf(temp)
      <4>1. source[l] = g \/ source[l] \in F
        BY <3>4, FrontierFacts DEF g, F
      <4> QED BY <1>4, <3>2, <4>1
    <3> QED BY <3>2, <3>3, <3>4
  <2> QED BY <2>1, <2>2
<1> QED BY <1>3, <1>4, <1>5, <1>6, <1>7, <1>8, <1>9 DEF Owners, g, F, D

(* The leaves of the tree and its frontier are counted.                    *)
LEMMA GrownCount ==
  ASSUME Invariant, CalledInv, MarkInv, CutStep, NEW o \in Owners, NEW q, InCut(o, q),
         NEW n, n = Grown(o, q)
  PROVE  /\ IsFiniteSet(LeafLines(n, q)) /\ Cardinality(LeafLines(n, q)) \in Nat
         /\ Len(Frontier) \in Nat /\ Len(gates[Head(temp)].ins) \in Nat
         /\ Cardinality(LeafLines(n, q)) + Len(Frontier) <= count + Len(gates[Head(temp)].ins)
<1> DEFINE g == Head(temp)
           ins == gates[g].ins
           S == Names \ flag
           A == LeafLines(o, q)
           B == {l \in SetOf(ins) : l \notin S}
<1>0. TypeOK /\ FlagInv
  BY DEF Invariant
<1>1. /\ g \in DOMAIN gates
      /\ Frontier \in Seq(DOMAIN gates)
      /\ Len(Frontier) = Len(temp) - 1 + Len(Sublist(ins, S))
  BY FrontierFacts
<1>2. ins \in Seq(Names) /\ SetOf(ins) \subseteq Names /\ Len(ins) \in Nat
  <2>1. ins \in Seq(Names) /\ SetOf(ins) \subseteq Names
    BY <1>0, <1>1, GateFacts
  <2> HIDE DEF ins
  <2> QED BY <2>1
<1>3. IsFiniteSet(B) /\ Cardinality(B) + Len(Sublist(ins, S)) <= Len(ins)
  <2> HIDE DEF ins, S
  <2> QED BY <1>2, SublistCount
<1>4. IsFiniteSet(A) /\ Cardinality(A) + Len(temp) <= count + 1
  <2>1. IsFiniteSet(flag) /\ A \subseteq flag
    BY <1>0, FlagFinite DEF LeafLines
  <2> QED BY <2>1, FS_Subset DEF InCut
<1>5. LeafLines(n, q) \subseteq A \cup B
  <2> SUFFICES ASSUME NEW l \in flag, NEW h \in DOMAIN gates, n[h] = q, l \in SetOf(gates[h].ins)
               PROVE  l \in A \/ l \in B
    BY DEF LeafLines
  <2>1. h = g \/ o[h] = q
    BY GrownFacts
  <2> QED BY <2>1 DEF LeafLines
<1> HIDE DEF A, B
<1>6. /\ IsFiniteSet(A \cup B)
      /\ Cardinality(A \cup B) = Cardinality(A) + Cardinality(B) - Cardinality(A \cap B)
  BY <1>3, <1>4, FS_Union
<1>7. /\ Cardinality(A) \in Nat /\ Cardinality(B) \in Nat /\ Cardinality(A \cap B) \in Nat
  <2>1. IsFiniteSet(A \cap B)
    BY <1>3, FS_Intersection
  <2> QED BY <1>3, <1>4, <2>1, FS_CardinalityType
<1>8. /\ IsFiniteSet(LeafLines(n, q))
      /\ Cardinality(LeafLines(n, q)) <= Cardinality(A \cup B)
  BY <1>5, <1>6, FS_Subset
<1>9. Cardinality(LeafLines(n, q)) \in Nat
  BY <1>8, FS_CardinalityType
<1>10. Len(temp) \in Nat /\ count \in Int /\ Len(Frontier) \in Nat
  <2>1. temp \in Seq(DOMAIN gates) /\ count \in Int
    BY <1>0 DEF TypeOK
  <2> QED BY <1>1, <2>1
<1>11. Len(Sublist(ins, S)) \in Nat
  <2> HIDE DEF S, ins
  <2>1. Sublist(ins, S) \in Seq(Names \cap S)
    BY <1>2, SublistType
  <2> QED BY <2>1
<1> DEFINE a == Cardinality(A)
           b == Cardinality(B)
           c == Cardinality(A \cap B)
           m == Cardinality(LeafLines(n, q))
           lf == Len(Frontier)
           ls == Len(Sublist(ins, S))
           lt == Len(temp)
           li == Len(ins)
<1>12. m + lf <= count + li
  <2>1. m <= a + b - c /\ b + ls <= li /\ a + lt <= count + 1 /\ lf = lt - 1 + ls
    BY <1>1, <1>3, <1>4, <1>6, <1>8
  <2>2. /\ a \in Nat /\ b \in Nat /\ c \in Nat /\ m \in Nat /\ lf \in Nat /\ ls \in Nat
        /\ lt \in Nat /\ li \in Nat /\ count \in Int
    BY <1>2, <1>7, <1>9, <1>10, <1>11
  <2> HIDE DEF a, b, c, m, lf, ls, lt, li
  <2> QED BY <2>1, <2>2
<1> QED BY <1>2, <1>8, <1>9, <1>10, <1>12

(* The trees stay apart.                                                   *)
LEMMA GrownApart ==
  ASSUME Invariant, CalledInv, MarkInv, CutStep, NEW o \in Owners, NEW q, InCut(o, q),
         Apart(o), NEW n, n = Grown(o, q)
  PROVE  Apart(n)
<1> DEFINE g == Head(temp)
           F == SetOf(Frontier)
<1>1. /\ phase = "mark" /\ g \in DOMAIN gates /\ g \notin todo
      /\ \A l \in SetOf(gates[g].ins) \ flag : source[l] \in F
  BY FrontierFacts
<1>2. /\ n \in Owners
      /\ \A x \in DOMAIN gates : n[x] = q <=> x = g \/ o[x] = q
      /\ \A x \in DOMAIN gates : n[x] \notin {q, NoGate} => n[x] = o[x] /\ x # g /\ x \notin F
      /\ \A x \in DOMAIN gates : x # g => n[x] \in {o[x], NoGate}
  BY GrownFacts
<1>3. /\ q \in DOMAIN gates /\ gates[q].out \in flag /\ q # NoGate
      /\ g = q \/ (Growing(o, q, SetOf(temp)) /\ gates[g].out \notin flag)
  BY HeadFacts, NoGateFacts DEF Invariant
<1>4. g \in SetOf(temp) /\ NoGate \notin DOMAIN gates
  BY FrontierFacts, NoGateFacts DEF Invariant
<1> HIDE DEF g, F
<1>5. ASSUME NEW x \in DOMAIN gates, n[x] = x PROVE gates[x].out \in flag
  <2>1. CASE x = q
    BY <1>3, <2>1
  <2>2. CASE x # q
    <3>1. n[x] = o[x]
      BY <1>2, <1>4, <1>5, <2>2
    <3> QED BY <1>5, <3>1 DEF Apart
  <2> QED BY <2>1, <2>2
<1>6. ASSUME NEW x \in DOMAIN gates, n[x] \notin {x, NoGate}
      PROVE  /\ gates[x].out \notin flag
             /\ \A k \in Destinations(gates[x].out) : n[k] \in {n[x], NoGate}
  <2>0. \A k \in Destinations(gates[x].out) : k \in DOMAIN gates
    BY DEF Destinations
  <2>1. CASE n[x] = q /\ x = g
    <3>1. Growing(o, q, SetOf(temp)) /\ gates[x].out \notin flag
      BY <1>3, <1>6, <2>1
    <3>2. PICK h \in Destinations(gates[x].out) : o[h] = q
      BY <1>4, <2>1, <3>1 DEF Growing
    <3>3. \A k \in Destinations(gates[x].out) : k = h
      BY <1>1, <2>1, <3>1, OneReader
    <3>4. n[h] = q
      BY <1>2, <2>0, <3>2
    <3> QED BY <2>1, <3>1, <3>3, <3>4
  <2>2. CASE n[x] = q /\ x # g
    <3>1. o[x] = q /\ q \notin {x, NoGate}
      BY <1>2, <1>3, <1>6, <2>2
    <3>2. gates[x].out \notin flag /\ \A k \in Destinations(gates[x].out) : o[k] \in {q, NoGate}
      BY <3>1 DEF Apart
    <3>3. ASSUME NEW k \in Destinations(gates[x].out) PROVE n[k] \in {q, NoGate}
      <4>1. k \in DOMAIN gates /\ o[k] \in {q, NoGate}
        BY <2>0, <3>2
      <4> QED BY <1>2, <4>1
    <3> QED BY <2>2, <3>2, <3>3
  <2>3. CASE n[x] # q
    <3>1. n[x] = o[x] /\ x \notin F
      BY <1>2, <1>6, <2>3
    <3>2. gates[x].out \notin flag /\ \A k \in Destinations(gates[x].out) : o[k] \in {o[x], NoGate}
      BY <1>6, <3>1 DEF Apart
    <3>3. ASSUME NEW k \in Destinations(gates[x].out) PROVE n[k] \in {n[x], NoGate}
      <4>1. k \in DOMAIN gates /\ o[k] \in {n[x], NoGate}
        BY <2>0, <3>1, <3>2
      <4>2. k # g
        <5>1. SUFFICES ASSUME k = g PROVE FALSE
          OBVIOUS
        <5>2. gates[x].out \in SetOf(gates[g].ins)
          BY <5>1 DEF Destinations
        <5>3. source[gates[x].out] = x
          BY <1>1, GateOfLine
        <5> QED BY <1>1, <3>1, <3>2, <5>2, <5>3
      <4> QED BY <1>2, <4>1, <4>2
    <3> QED BY <3>2, <3>3
  <2> QED BY <2>1, <2>2, <2>3
<1> QED BY <1>5, <1>6 DEF Apart

(* The trees cut before lose no gate to the tree that grows.               *)
LEMMA GrownDone ==
  ASSUME Invariant, CalledInv, MarkInv, CutStep, NEW o \in Owners, NEW q, InCut(o, q),
         Apart(o), NEW n, n = Grown(o, q),
         NEW h \in DOMAIN gates, h # q, gates[h].out \in flag, CutDone(o, h)
  PROVE  CutDone(n, h)
<1> DEFINE g == Head(temp)
           F == SetOf(Frontier)
<1>1. /\ phase = "mark" /\ g \in DOMAIN gates /\ g \notin todo /\ g \in SetOf(temp)
      /\ \A x \in F : x \in DOMAIN gates /\ x \notin todo
  BY FrontierFacts
<1>2. /\ n \in Owners
      /\ \A x \in DOMAIN gates : n[x] = q <=> x = g \/ o[x] = q
      /\ \A x \in DOMAIN gates : n[x] \notin {q, NoGate} => n[x] = o[x] /\ x # g /\ x \notin F
      /\ \A x \in DOMAIN gates : x # g /\ x \notin F => n[x] = o[x]
      /\ Growing(n, q, F)
  BY GrownFacts
<1>3. /\ q \in DOMAIN gates /\ gates[q].out \in flag /\ q # NoGate /\ h # NoGate
      /\ g = q \/ (Growing(o, q, SetOf(temp)) /\ gates[g].out \notin flag)
  BY HeadFacts, NoGateFacts DEF Invariant
<1>4. o[h] = h /\ Closed(o, h, {}) /\ Cardinality(LeafLines(o, h)) <= WidthBound
  BY DEF CutDone
<1>5. \A k \in DOMAIN gates : n[k] = h => o[k] = h /\ k # g /\ k \notin F
  BY <1>2, <1>3
<1> HIDE DEF g, F
<1>6. n[h] = h
  <2>1. h # g /\ h \notin F
    BY <1>2, <1>3 DEF Growing
  <2> QED BY <1>2, <1>4, <2>1
<1>7. Closed(n, h, {})
  <2> SUFFICES ASSUME NEW k \in DOMAIN gates, n[k] = h,
                      NEW l \in SetOf(gates[k].ins), l \notin flag
               PROVE  source[l] \in DOMAIN gates /\ n[source[l]] = h
    BY DEF Closed
  <2> DEFINE y == source[l]
  <2>1. o[k] = h /\ k # g /\ k \notin F
    BY <1>5
  <2>2. y \in DOMAIN gates /\ o[y] = h
    BY <1>4, <2>1 DEF Closed
  <2>3. gates[y].out = l /\ k \in Destinations(gates[y].out)
    BY <1>1, DriverBelow DEF Destinations
  <2> HIDE DEF y
  <2>4. y # g
    <3>1. SUFFICES ASSUME y = g PROVE FALSE
      OBVIOUS
    <3>2. CASE g = q
      BY <1>3, <2>2, <3>1, <3>2 DEF Apart
    <3>3. CASE Growing(o, q, SetOf(temp)) /\ gates[g].out \notin flag
      <4>1. PICK k2 \in Destinations(gates[g].out) : o[k2] = q
        BY <1>1, <3>3 DEF Growing
      <4>2. k2 = k
        BY <1>1, <2>3, <3>1, <3>3, OneReader
      <4> QED BY <2>1, <4>1, <4>2
    <3> QED BY <1>3, <3>2, <3>3
  <2>5. y \notin F
    <3>1. SUFFICES ASSUME y \in F PROVE FALSE
      OBVIOUS
    <3>2. PICK k2 \in Destinations(gates[y].out) : n[k2] = q
      BY <1>2, <3>1 DEF Growing
    <3>3. gates[y].out \notin flag /\ y \notin todo
      BY <1>1, <1>2, <3>1 DEF Growing
    <3>4. k2 = k
      BY <1>1, <2>2, <2>3, <3>3, OneReader
    <3> QED BY <3>2, <3>4
  <2>6. n[y] = h
    BY <1>2, <2>2, <2>4, <2>5
  <2> QED BY <2>2, <2>6 DEF y
<1>8. LeafLines(n, h) \subseteq LeafLines(o, h)
  BY <1>5 DEF LeafLines
<1>9. Cardinality(LeafLines(n, h)) <= WidthBound
  BY <1>4, <1>8, LeavesFewer DEF Invariant
<1> QED BY <1>6, <1>7, <1>9 DEF CutDone

-----------------------------------------------------------------------------
(***************************************************************************)
(* The steps of get_need_nodes                                             *)
(***************************************************************************)
(* The trees depend on the graph and the flags alone.                      *)
LEMMA TreesKept ==
  ASSUME UNCHANGED <<gates, source, flag>>
  PROVE  /\ \A o : Apart(o)' = Apart(o)
         /\ \A o, q : LeafLines(o, q)' = LeafLines(o, q) /\ CutDone(o, q)' = CutDone(o, q)
         /\ \A o, q, S : Closed(o, q, S)' = Closed(o, q, S) /\ Growing(o, q, S)' = Growing(o, q, S)
<1>1. \A o : Apart(o)' = Apart(o)
  BY DEF Apart, Destinations
<1>2. \A o, q : LeafLines(o, q)' = LeafLines(o, q)
  BY DEF LeafLines
<1>3. \A o, q, S : Closed(o, q, S)' = Closed(o, q, S)
  BY DEF Closed
<1>4. \A o, q, S : Growing(o, q, S)' = Growing(o, q, S)
  BY DEF Growing, Destinations
<1>5. WidthBound' = WidthBound
  BY DEF WidthBound, Fanin
<1>6. \A o, q : CutDone(o, q)' = CutDone(o, q)
  BY <1>2, <1>3, <1>5 DEF CutDone
<1> QED BY <1>1, <1>2, <1>3, <1>4, <1>6

(* What CutStep does, by the frontier.                                     *)
LEMMA CutStepCases ==
  ASSUME TypeOK, CutStep
  PROVE  /\ count' = count + Len(gates[Head(temp)].ins) - 1
         /\ \/ /\ flag' = flag \cup {gates[x].out : x \in SetOf(Frontier)}
               /\ nodes' = nodes \o Frontier /\ temp' = <<>>
            \/ /\ count' <= MaxBranch /\ Frontier # <<>>
               /\ temp' = Frontier /\ UNCHANGED <<flag, nodes>>
         /\ UNCHANGED <<phase, gates, source, todo>>
<1> DEFINE g == Head(temp)
           rest == Tail(temp) \o UnflaggedDrivers(g)
           n == count + Len(gates[g].ins) - 1
<1>1. /\ count' = n
      /\ IF n > MaxBranch \/ rest = <<>>
         THEN /\ flag' = flag \cup {gates[rest[i]].out : i \in DOMAIN rest}
              /\ nodes' = nodes \o rest
              /\ temp' = <<>>
         ELSE temp' = rest /\ UNCHANGED <<flag, nodes>>
      /\ UNCHANGED <<phase, gates, source, todo>>
  BY DEF CutStep, graphVars
<1>2. rest = Frontier
  BY DEF Frontier
<1>3. \A s : {gates[s[i]].out : i \in DOMAIN s} = {gates[x].out : x \in SetOf(s)}
  BY DEF SetOf
<1>4. ~(n > MaxBranch) => n <= MaxBranch
  <2>1. temp \in Seq(DOMAIN gates) /\ temp # <<>> /\ count \in Int
    BY DEF TypeOK, CutStep
  <2>2. g \in DOMAIN gates
    BY <2>1, TailFacts
  <2>3. Len(gates[g].ins) \in Nat
    BY <2>2, WidthType
  <2> HIDE DEF g
  <2> QED BY <2>1, <2>3, SimulatorAssumption
<1> HIDE DEF g, rest, n
<1>5. CASE n > MaxBranch \/ rest = <<>>
  BY <1>1, <1>2, <1>3, <1>5 DEF n, g
<1>6. CASE ~(n > MaxBranch \/ rest = <<>>)
  BY <1>1, <1>2, <1>4, <1>6 DEF n, g
<1> QED BY <1>5, <1>6

(* The tree goes on growing.                                               *)
LEMMA CutGoesOn ==
  ASSUME Invariant, CalledInv, MarkInv, CutStep, NEW o \in Owners, NEW q, Cutting(o, q),
         count' <= MaxBranch, Frontier # <<>>, temp' = Frontier, UNCHANGED <<flag, nodes>>
  PROVE  q \in DOMAIN gates /\ \E n \in Owners' : Cutting(n, q)'
<1>0. TypeOK
  BY DEF Invariant
<1>1. /\ phase = "mark" /\ temp # <<>> /\ Head(temp) \notin todo
      /\ Head(temp) \in DOMAIN gates
  BY FrontierFacts
<1>2. InCut(o, q) /\ Apart(o)
  BY <1>1 DEF Cutting
<1>3. /\ count' = count + Len(gates[Head(temp)].ins) - 1
      /\ UNCHANGED <<gates, source, todo>>
  BY <1>0, CutStepCases
<1>4. q \in DOMAIN gates /\ gates[q].out \in flag /\ q \notin todo
  BY <1>2, HeadFacts
<1>5. PICK n : n = Grown(o, q)
  OBVIOUS
<1>6. /\ n \in Owners
      /\ \A x \in DOMAIN gates : x # Head(temp) => n[x] \in {o[x], NoGate}
      /\ Growing(n, q, SetOf(Frontier)) /\ Closed(n, q, SetOf(Frontier))
  BY <1>2, <1>5, GrownFacts
<1>7. Apart(n)
  BY <1>2, <1>5, GrownApart
<1>8. Cardinality(LeafLines(n, q)) + Len(Frontier) <= count' + 1
  <2>1. Cardinality(LeafLines(n, q)) + Len(Frontier) <= count + Len(gates[Head(temp)].ins)
    BY <1>2, <1>5, GrownCount
  <2>2. count' + 1 = count + Len(gates[Head(temp)].ins)
    <3>1. count \in Int /\ Len(gates[Head(temp)].ins) \in Nat
      BY <1>0, <1>1, WidthType DEF TypeOK
    <3> QED BY <1>3, <3>1
  <2> QED BY <2>1, <2>2
<1>9. InCut(n, q)'
  BY <1>3, <1>4, <1>6, <1>8, TreesKept DEF InCut
<1>10. \A g \in todo' : n[g] = NoGate
  <2>1. todo \subseteq DOMAIN gates /\ \A g \in todo : o[g] = NoGate
    BY <1>0 DEF TypeOK, Cutting
  <2> QED BY <1>1, <1>3, <1>6, <2>1
<1>11. ASSUME NEW h \in DOMAIN gates \ (todo \cup SetOf(nodes)), gates[h].out \in flag, h # q
       PROVE  CutDone(n, h)
  <2>1. CutDone(o, h)
    BY <1>11 DEF Cutting
  <2> QED BY <1>2, <1>5, <1>11, <2>1, GrownDone
<1>12. Cutting(n, q)'
  BY <1>3, <1>7, <1>9, <1>10, <1>11, TreesKept DEF Cutting
<1> QED BY <1>3, <1>4, <1>6, <1>12 DEF Owners

(* The tree is cut: its frontier is flagged, and each gate of it leaves    *)
(* whatever tree it belonged to.                                           *)
LEMMA CutEnds ==
  ASSUME Invariant, CalledInv, MarkInv, CutStep, NEW o \in Owners, NEW q, Cutting(o, q),
         flag' = flag \cup {gates[x].out : x \in SetOf(Frontier)},
         nodes' = nodes \o Frontier, temp' = <<>>
  PROVE  q \in DOMAIN gates /\ \E n \in Owners' : Cutting(n, q)'
<1> DEFINE F == SetOf(Frontier)
<1>0. TypeOK /\ FlagInv
  BY DEF Invariant
<1>1. /\ phase = "mark" /\ temp # <<>> /\ Head(temp) \notin todo
      /\ Head(temp) \in DOMAIN gates /\ Frontier \in Seq(DOMAIN gates)
      /\ \A x \in F : x \in DOMAIN gates /\ x \notin todo
  BY FrontierFacts
<1>2. InCut(o, q) /\ Apart(o)
  BY <1>1 DEF Cutting
<1>3. UNCHANGED <<gates, source, todo>>
  BY <1>0, CutStepCases
<1>4. q \in DOMAIN gates /\ gates[q].out \in flag /\ q \notin todo
  BY <1>2, HeadFacts
<1>5. PICK m : m = Grown(o, q)
  OBVIOUS
<1>6. /\ m \in Owners
      /\ \A x \in DOMAIN gates : x # Head(temp) => m[x] \in {o[x], NoGate}
      /\ Growing(m, q, F) /\ Closed(m, q, F)
  BY <1>2, <1>5, GrownFacts
<1>7. Apart(m)
  BY <1>2, <1>5, GrownApart
<1>8. SetOf(nodes') = SetOf(nodes) \cup F /\ flag' = flag \cup {gates[x].out : x \in F}
  <2>1. nodes \in Seq(DOMAIN gates)
    BY <1>0 DEF TypeOK
  <2> QED BY <1>1, <2>1, JoinFacts
<1>9. PICK n : n = [x \in DOMAIN gates |-> IF x \in F THEN NoGate ELSE m[x]]
  OBVIOUS
<1>10. /\ \A x \in DOMAIN gates : x \in F => n[x] = NoGate
       /\ \A x \in DOMAIN gates : x \notin F => n[x] = m[x]
       /\ n \in Owners /\ NoGate \notin DOMAIN gates
  BY <1>0, <1>6, <1>9, NoGateFacts DEF Owners
<1>11. \A x \in F : gates[x].out \notin flag /\ \E h \in Destinations(gates[x].out) : m[h] = q
  BY <1>6 DEF Growing
<1>12. /\ \A g, h \in DOMAIN gates : gates[g].out = gates[h].out => g = h
       /\ \A g \in DOMAIN gates : source[gates[g].out] = g
       /\ \A g \in DOMAIN gates : g \notin F /\ gates[g].out \in flag' => gates[g].out \in flag
  <2>1. \A g, h \in DOMAIN gates : gates[g].out = gates[h].out => g = h
    BY <1>1, GateOfLine
  <2>2. \A g \in DOMAIN gates : source[gates[g].out] = g
    BY <1>1, GateOfLine
  <2>3. ASSUME NEW g \in DOMAIN gates, g \notin F, gates[g].out \in flag', gates[g].out \notin flag
        PROVE  FALSE
    <3>1. PICK x \in F : gates[g].out = gates[x].out
      BY <1>8, <2>3
    <3>2. x \in DOMAIN gates
      BY <1>1
    <3>3. g = x
      BY <2>1, <3>1, <3>2
    <3> QED BY <2>3, <3>3
  <2> QED BY <2>1, <2>2, <2>3
<1> HIDE DEF F
<1>13. Apart(n)'
  <2>1. ASSUME NEW x \in DOMAIN gates, n[x] = x PROVE gates[x].out \in flag'
    <3>1. m[x] = x
      BY <1>10, <2>1
    <3> QED BY <1>7, <1>8, <3>1 DEF Apart
  <2>2. ASSUME NEW x \in DOMAIN gates, n[x] \notin {x, NoGate}
        PROVE  /\ gates[x].out \notin flag'
               /\ \A k \in Destinations(gates[x].out) : n[k] \in {n[x], NoGate}
    <3>1. x \notin F /\ n[x] = m[x]
      BY <1>10, <2>2
    <3>2. /\ gates[x].out \notin flag
          /\ \A k \in Destinations(gates[x].out) : m[k] \in {m[x], NoGate}
      BY <1>7, <2>2, <3>1 DEF Apart
    <3>3. gates[x].out \notin flag'
      BY <1>12, <3>1, <3>2
    <3>4. \A k \in Destinations(gates[x].out) : k \in DOMAIN gates
      BY DEF Destinations
    <3> QED BY <1>10, <3>1, <3>2, <3>3, <3>4
  <2> QED BY <1>3, <2>1, <2>2 DEF Apart, Destinations
<1>14. \A g \in todo' : n[g] = NoGate
  <2>1. todo \subseteq DOMAIN gates /\ \A g \in todo : o[g] = NoGate
    BY <1>0 DEF TypeOK, Cutting
  <2>2. \A g \in todo : m[g] = NoGate
    BY <1>1, <1>6, <2>1
  <2> QED BY <1>3, <1>10, <2>1, <2>2
<1>15. ASSUME NEW h \in DOMAIN gates, m[h] = h, Closed(m, h, {}) \/ (h = q /\ Closed(m, h, F)),
              gates[h].out \in flag
       PROVE  n[h] = h /\ Closed(n, h, {})'
  <2>1. h \notin F
    BY <1>11, <1>15
  <2>2. ASSUME NEW k \in DOMAIN gates, n[k] = h, NEW l \in SetOf(gates[k].ins), l \notin flag'
        PROVE  source[l] \in DOMAIN gates /\ n[source[l]] = h
    <3>1. m[k] = h /\ l \notin flag
      BY <1>10, <2>2
    <3>2. source[l] \in DOMAIN gates /\ gates[source[l]].out = l
      BY <1>1, <3>1, DriverBelow
    <3>3. source[l] \notin F
      BY <1>8, <2>2, <3>2
    <3>4. m[source[l]] = h
      BY <1>15, <3>1, <3>3 DEF Closed
    <3> QED BY <1>10, <3>2, <3>3, <3>4
  <2> QED BY <1>3, <1>10, <1>15, <2>1, <2>2 DEF Closed
<1>16. ASSUME NEW h \in DOMAIN gates, h # q
       PROVE  LeafLines(n, h)' \subseteq LeafLines(m, h)
  <2> SUFFICES ASSUME NEW l \in flag', NEW k \in DOMAIN gates, n[k] = h, l \in SetOf(gates[k].ins)
               PROVE  l \in LeafLines(m, h)
    BY <1>3 DEF LeafLines
  <2>0. h # NoGate
    BY <1>10
  <2>1. m[k] = h
    BY <1>10, <2>0
  <2>2. l \in flag
    <3>1. SUFFICES ASSUME NEW x \in F, l = gates[x].out PROVE FALSE
      BY <1>8
    <3>2. PICK k2 \in Destinations(gates[x].out) : m[k2] = q
      BY <1>11
    <3>3. k \in Destinations(gates[x].out)
      BY <3>1 DEF Destinations
    <3>4. k2 = k
      BY <1>1, <1>11, <3>3, OneReader
    <3> QED BY <1>16, <2>1, <3>2, <3>4
  <2> QED BY <2>1, <2>2 DEF LeafLines
<1>17. WidthBound' = WidthBound
  BY <1>3 DEF WidthBound, Fanin
<1>18. ASSUME NEW h \in DOMAIN gates \ (todo \cup SetOf(nodes)), gates[h].out \in flag, h # q
       PROVE  CutDone(n, h)'
  <2>1. CutDone(o, h)
    BY <1>18 DEF Cutting
  <2>2. CutDone(m, h)
    BY <1>2, <1>5, <1>18, <2>1, GrownDone
  <2>3. n[h] = h /\ Closed(n, h, {})'
    BY <1>15, <1>18, <2>2 DEF CutDone
  <2>4. Cardinality(LeafLines(n, h)') <= WidthBound
    BY <1>0, <1>16, <1>18, <2>2, LeavesFewer DEF CutDone
  <2> QED BY <1>17, <2>3, <2>4 DEF CutDone
<1>19. CutDone(n, q)'
  <2>1. m[q] = q
    BY <1>6 DEF Growing
  <2>2. n[q] = q /\ Closed(n, q, {})'
    BY <1>4, <1>6, <1>15, <2>1
  <2>3. Cardinality(LeafLines(n, q)') <= WidthBound
    <3> DEFINE A == LeafLines(m, q)
               outs == [i \in DOMAIN Frontier |-> gates[Frontier[i]].out]
               B == SetOf(outs)
    <3>1. IsFiniteSet(A) /\ Cardinality(A) \in Nat
      BY <1>2, <1>5, GrownCount
    <3>2. B = {gates[x].out : x \in F}
      BY DEF SetOf, F
    <3>3. IsFiniteSet(B) /\ Cardinality(B) \in Nat /\ Cardinality(B) <= Len(Frontier)
      <4>1. DOMAIN Frontier = 1 .. Len(Frontier) /\ Len(Frontier) \in Nat
        BY <1>1
      <4>2. \A i \in DOMAIN Frontier : gates[Frontier[i]].out \in Names
        BY <1>0, <1>1, GateFacts
      <4>3. outs \in Seq(Names) /\ Len(outs) = Len(Frontier)
        BY <4>1, <4>2
      <4> HIDE DEF outs
      <4> QED BY <4>3, SetOfFinite
    <3>4. LeafLines(n, q)' \subseteq A \cup B
      <4> SUFFICES ASSUME NEW l \in flag', NEW k \in DOMAIN gates, n[k] = q,
                          l \in SetOf(gates[k].ins)
                   PROVE  l \in A \/ l \in B
        BY <1>3 DEF LeafLines
      <4>1. m[k] = q
        BY <1>4, <1>10
      <4> HIDE DEF B
      <4> QED BY <1>8, <3>2, <4>1 DEF LeafLines
    <3>5. Cardinality(A) + Len(Frontier) <= count + Len(gates[Head(temp)].ins)
      BY <1>2, <1>5, GrownCount
    <3> HIDE DEF A, B
    <3>6. /\ IsFiniteSet(A \cup B) /\ Cardinality(A \cap B) \in Nat
          /\ Cardinality(A \cup B) = Cardinality(A) + Cardinality(B) - Cardinality(A \cap B)
      <4>1. IsFiniteSet(A \cap B)
        BY <3>1, FS_Intersection
      <4> QED BY <3>1, <3>3, <4>1, FS_Union, FS_CardinalityType
    <3>7. Cardinality(LeafLines(n, q)') <= Cardinality(A \cup B)
      BY <3>4, <3>6, FS_Subset
    <3>8. Cardinality(LeafLines(n, q)') \in Nat
      <4>1. IsFiniteSet(LeafLines(n, q)')
        BY <3>4, <3>6, FS_Subset
      <4> QED BY <4>1, FS_CardinalityType
    <3>9. count <= MaxBranch
      BY <1>2 DEF InCut
    <3>10. /\ Len(gates[Head(temp)].ins) \in Nat /\ WidthBound \in Int
           /\ MaxBranch + Len(gates[Head(temp)].ins) <= WidthBound
      BY <1>0, <1>1, WidthType
    <3>11. count \in Int /\ MaxBranch \in Nat /\ Len(Frontier) \in Nat
      BY <1>0, <1>1, SimulatorAssumption DEF TypeOK
    <3> DEFINE a == Cardinality(A)
               b == Cardinality(B)
               c == Cardinality(A \cap B)
               u == Cardinality(A \cup B)
               z == Cardinality(LeafLines(n, q)')
               lf == Len(Frontier)
               li == Len(gates[Head(temp)].ins)
               w == WidthBound
    <3>12. /\ b <= lf /\ a + lf <= count + li /\ u = a + b - c /\ z <= u /\ count <= MaxBranch
           /\ MaxBranch + li <= w
      BY <3>3, <3>5, <3>6, <3>7, <3>9, <3>10
    <3>13. /\ a \in Nat /\ b \in Nat /\ c \in Nat /\ z \in Nat /\ lf \in Nat /\ li \in Nat
           /\ w \in Int /\ count \in Int /\ MaxBranch \in Nat
      BY <3>1, <3>3, <3>6, <3>8, <3>10, <3>11
    <3> HIDE DEF a, b, c, u, z, lf, li, w
    <3>14. u <= a + b /\ u \in Int
      BY <3>12, <3>13
    <3>15. a + b <= count + li /\ count + li <= w
      BY <3>12, <3>13
    <3>16. z <= w
      BY <3>12, <3>13, <3>14, <3>15
    <3> QED BY <3>16 DEF z, w
  <2> QED BY <1>17, <2>2, <2>3 DEF CutDone
<1>20. ASSUME NEW h \in DOMAIN gates \ (todo \cup SetOf(nodes')), gates[h].out \in flag'
       PROVE  CutDone(n, h)'
  <2>1. h \notin F /\ h \notin SetOf(nodes)
    BY <1>8, <1>20
  <2>2. gates[h].out \in flag
    BY <1>12, <1>20, <2>1
  <2> QED BY <1>18, <1>19, <1>20, <2>1, <2>2
<1>21. Cutting(n, q)'
  BY <1>3, <1>13, <1>14, <1>20 DEF Cutting
<1> QED BY <1>3, <1>4, <1>10, <1>21 DEF Owners

(* The next tree to cut starts with its root; what belonged to an older    *)
(* tree of that root no longer does.                                       *)
LEMMA CutStarts ==
  ASSUME Invariant, CalledInv, MarkInv, CutNext, NEW o \in Owners, NEW q0, Cutting(o, q0)
  PROVE  \E n \in Owners', q \in DOMAIN gates' : Cutting(n, q)'
<1>0. TypeOK
  BY DEF Invariant
<1>1. PICK q : q = Head(nodes)
  OBVIOUS
<1>2. /\ phase = "mark" /\ nodes # <<>> /\ temp = <<>> /\ temp' = <<q>>
      /\ nodes' = Tail(nodes) /\ count' = 0
      /\ UNCHANGED <<gates, source, flag, todo>>
  BY <1>1 DEF CutNext, graphVars
<1>3. nodes \in Seq(DOMAIN gates)
  BY <1>0 DEF TypeOK
<1>4. q \in SetOf(nodes) /\ \A x \in SetOf(nodes) : x = q \/ x \in SetOf(nodes')
  BY <1>1, <1>2, <1>3, QueueFacts
<1>5. q \in DOMAIN gates
  BY <1>3, <1>4 DEF SetOf
<1>6. gates[q].out \in flag /\ q \notin todo
  BY <1>2, <1>4 DEF MarkInv
<1>7. PICK n : n = [x \in DOMAIN gates |-> IF o[x] = q THEN NoGate ELSE o[x]]
  OBVIOUS
<1>8. /\ n \in Owners /\ q # NoGate /\ NoGate \notin DOMAIN gates
      /\ \A x \in DOMAIN gates : n[x] # q
      /\ \A x \in DOMAIN gates : n[x] # NoGate => n[x] = o[x]
      /\ \A x \in DOMAIN gates : n[x] \in {o[x], NoGate}
      /\ \A x \in DOMAIN gates : o[x] # q => n[x] = o[x]
  BY <1>0, <1>5, <1>7, NoGateFacts DEF Owners
<1>9. Apart(o)
  BY DEF Cutting
<1>10. Apart(n)
  <2>1. ASSUME NEW x \in DOMAIN gates, n[x] = x PROVE gates[x].out \in flag
    <3>1. o[x] = x
      BY <1>8, <2>1
    <3> QED BY <1>9, <3>1 DEF Apart
  <2>2. ASSUME NEW x \in DOMAIN gates, n[x] \notin {x, NoGate}
        PROVE  /\ gates[x].out \notin flag
               /\ \A k \in Destinations(gates[x].out) : n[k] \in {n[x], NoGate}
    <3>1. o[x] = n[x]
      BY <1>8, <2>2
    <3>2. /\ gates[x].out \notin flag
          /\ \A k \in Destinations(gates[x].out) : o[k] \in {n[x], NoGate}
      BY <1>9, <2>2, <3>1 DEF Apart
    <3>3. \A k \in Destinations(gates[x].out) : k \in DOMAIN gates
      BY DEF Destinations
    <3> QED BY <1>8, <3>2, <3>3
  <2> QED BY <2>1, <2>2 DEF Apart
<1>11. \A g \in todo' : n[g] = NoGate
  <2>1. todo \subseteq DOMAIN gates /\ \A g \in todo : o[g] = NoGate
    BY <1>0 DEF TypeOK, Cutting
  <2> QED BY <1>2, <1>8, <2>1
<1>12. ASSUME NEW h \in DOMAIN gates \ (todo \cup SetOf(nodes')), gates[h].out \in flag, h # q
       PROVE  CutDone(n, h)
  <2>1. CutDone(o, h)
    BY <1>2, <1>4, <1>12 DEF Cutting
  <2>2. h # NoGate /\ \A k \in DOMAIN gates : n[k] = h <=> o[k] = h
    BY <1>8, <1>12
  <2>3. n[h] = h
    BY <2>1, <2>2 DEF CutDone
  <2>4. Closed(n, h, {})
    BY <2>1, <2>2 DEF CutDone, Closed
  <2>5. LeafLines(n, h) = LeafLines(o, h)
    BY <2>2 DEF LeafLines
  <2> QED BY <2>1, <2>3, <2>4, <2>5 DEF CutDone
<1>13. InCut(n, q)'
  <2>1. Closed(n, q, SetOf(temp'))
    BY <1>8 DEF Closed
  <2>2. LeafLines(n, q) = {}
    BY <1>8 DEF LeafLines
  <2>3. Cardinality(LeafLines(n, q)) + Len(temp') <= count' + 1 /\ count' <= MaxBranch
    BY <1>2, <2>2, FS_EmptySet, SimulatorAssumption
  <2> QED BY <1>2, <1>5, <1>6, <2>1, <2>3, TreesKept DEF InCut
<1>14. Cutting(n, q)'
  BY <1>2, <1>10, <1>11, <1>12, <1>13, TreesKept DEF Cutting
<1> QED BY <1>2, <1>5, <1>8, <1>14 DEF Owners

(* The loop over the levels meets a gate that belongs to no tree.          *)
LEMMA MarkKeepsTrees ==
  ASSUME Invariant, CalledInv, MarkInv, Mark, NEW o \in Owners, NEW q, Cutting(o, q)
  PROVE  Cutting(o, q)'
<1> DEFINE g == First(todo)
<1>0. TypeOK /\ LevelInv /\ FlagInv
  BY DEF Invariant
<1>1. /\ phase = "mark" /\ nodes = <<>> /\ temp = <<>> /\ temp' = temp
      /\ nodes' = IF MustSimulate(g) THEN <<g>> ELSE nodes
  BY DEF Mark
<1>2. /\ g \in DOMAIN gates /\ g \in todo /\ todo' = todo \ {g} /\ UNCHANGED <<gates, source>>
      /\ IF MustSimulate(g) THEN flag' = flag \cup {gates[g].out} ELSE flag' = flag
  BY <1>0, MarkFacts DEF graphVars
<1>3. SetOf(nodes) = {}
  BY <1>1 DEF SetOf
<1>4. /\ \A h, k \in DOMAIN gates : gates[h].out = gates[k].out => h = k
      /\ \A h \in DOMAIN gates : source[gates[h].out] = h /\ level[h] \in Nat
  BY <1>1, GateOfLine
<1> HIDE DEF g
<1>5. /\ Apart(o) /\ o[g] = NoGate /\ NoGate \notin DOMAIN gates
      /\ \A h \in todo' : o[h] = NoGate
      /\ \A h \in DOMAIN gates \ todo : gates[h].out \in flag => CutDone(o, h)
  BY <1>0, <1>1, <1>2, <1>3, NoGateFacts DEF Cutting
<1>6. CASE ~MustSimulate(g)
  <2>1. flag' = flag /\ nodes' = nodes /\ gates[g].out \notin flag
    BY <1>1, <1>2, <1>6 DEF MarkInv
  <2>2. \A h \in DOMAIN gates \ todo' : gates[h].out \in flag => CutDone(o, h)
    BY <1>2, <1>5, <2>1
  <2> QED BY <1>1, <1>2, <1>5, <2>1, <2>2, TreesKept DEF Cutting
<1>7. CASE MustSimulate(g)
  <2>1. flag' = flag \cup {gates[g].out} /\ SetOf(nodes') = {g}
    BY <1>1, <1>2, <1>7 DEF SetOf
  <2>2. Apart(o)'
    <3>1. ASSUME NEW x \in DOMAIN gates, o[x] = x PROVE gates[x].out \in flag'
      BY <1>5, <2>1, <3>1 DEF Apart
    <3>2. ASSUME NEW x \in DOMAIN gates, o[x] \notin {x, NoGate}
          PROVE  /\ gates[x].out \notin flag'
                 /\ \A k \in Destinations(gates[x].out) : o[k] \in {o[x], NoGate}
      <4>1. /\ gates[x].out \notin flag
            /\ \A k \in Destinations(gates[x].out) : o[k] \in {o[x], NoGate}
        BY <1>5, <3>2 DEF Apart
      <4>2. gates[x].out # gates[g].out
        BY <1>2, <1>4, <1>5, <3>2
      <4> QED BY <2>1, <4>1, <4>2
    <3> QED BY <1>2, <3>1, <3>2 DEF Apart, Destinations
  <2>3. ASSUME NEW h \in DOMAIN gates \ (todo' \cup SetOf(nodes')), gates[h].out \in flag'
        PROVE  CutDone(o, h)'
    <3>1. h \in DOMAIN gates \ todo /\ h # g
      BY <1>2, <2>1, <2>3
    <3>2. gates[h].out \in flag
      BY <1>2, <1>4, <2>1, <2>3, <3>1
    <3>3. CutDone(o, h)
      BY <1>5, <3>1, <3>2
    <3>4. ASSUME NEW k \in DOMAIN gates, o[k] = h, gates[g].out \notin flag
          PROVE  gates[g].out \notin SetOf(gates[k].ins)
      <4>1. SUFFICES ASSUME gates[g].out \in SetOf(gates[k].ins) PROVE FALSE
        OBVIOUS
      <4>2. k \notin todo
        BY <1>5, <2>3, <3>4 DEF Cutting
      <4>3. level[k] <= level[g]
        BY <1>1, <1>2, <4>2 DEF MarkInv
      <4>4. level[g] < level[k]
        BY <1>1, <1>2, <1>4, <3>4, <4>1, DriverBelow
      <4> QED BY <1>2, <1>4, <4>3, <4>4
    <3>5. LeafLines(o, h)' \subseteq LeafLines(o, h)
      BY <1>2, <2>1, <3>4 DEF LeafLines
    <3>6. Closed(o, h, {})'
      BY <1>2, <2>1, <3>3 DEF CutDone, Closed
    <3>7. Cardinality(LeafLines(o, h)') <= WidthBound
      BY <1>0, <3>3, <3>5, LeavesFewer DEF CutDone
    <3>8. WidthBound' = WidthBound
      BY <1>2 DEF WidthBound, Fanin
    <3> QED BY <3>3, <3>6, <3>7, <3>8 DEF CutDone
  <2> QED BY <1>1, <1>2, <1>5, <2>2, <2>3 DEF Cutting
<1> QED BY <1>6, <1>7

(* The trees while gates are marked.                                       *)
LEMMA CuttingStep ==
  ASSUME Invariant, CalledInv, MarkInv, Next, BlankInv', phase' = "mark",
         phase = "mark" => \E o \in Owners, q \in DOMAIN gates \cup {NoGate} : Cutting(o, q)
  PROVE  \E o \in Owners', q \in DOMAIN gates' \cup {NoGate} : Cutting(o, q)'
<1>0. TypeOK /\ LevelInv /\ BlankInv
  BY DEF Invariant
<1>1. CASE StartMarking
  <2>1. /\ phase = "depth" /\ UNCHANGED <<gates, source, nodes, temp>> /\ todo' = DOMAIN gates
    BY <1>1 DEF StartMarking, GroupByLevel, graphVars
  <2>2. temp' = <<>>
    BY <1>0, <2>1 DEF BlankInv
  <2>3. PICK o : o = [x \in DOMAIN gates |-> NoGate]
    OBVIOUS
  <2>4. o \in Owners' /\ NoGate \notin DOMAIN gates /\ \A x \in DOMAIN gates : o[x] = NoGate
    BY <1>0, <2>1, <2>3, NoGateFacts DEF Owners
  <2>5. Apart(o)'
    BY <2>1, <2>4 DEF Apart
  <2>6. Cutting(o, NoGate)'
    BY <2>1, <2>2, <2>4, <2>5 DEF Cutting
  <2> QED BY <2>4, <2>6
<1>2. ASSUME phase = "mark", ~StartMarking
      PROVE  \E o \in Owners', q \in DOMAIN gates' \cup {NoGate} : Cutting(o, q)'
  <2>1. PICK o \in Owners, q \in DOMAIN gates \cup {NoGate} : Cutting(o, q)
    BY <1>2
  <2>2. CASE Mark
    <3>1. Cutting(o, q)'
      BY <2>1, <2>2, MarkKeepsTrees
    <3>2. gates' = gates
      BY <2>2 DEF Mark, graphVars
    <3> QED BY <2>1, <3>1, <3>2 DEF Owners
  <2>3. CASE CutNext
    BY <2>1, <2>3, CutStarts
  <2>4. CASE CutStep
    <3>1. gates' = gates
      BY <2>4 DEF CutStep, graphVars
    <3>2. q \in DOMAIN gates /\ \E n \in Owners' : Cutting(n, q)'
      BY <1>0, <2>1, <2>4, CutStepCases, CutGoesOn, CutEnds
    <3> QED BY <3>1, <3>2
  <2> QED BY <1>2, <2>2, <2>3, <2>4, MarkSteps
<1>3. phase = "mark" \/ StartMarking
  BY <1>0, PhaseSteps
<1> QED BY <1>1, <1>2, <1>3

-----------------------------------------------------------------------------
(***************************************************************************)
(* The steps of single_node_sim                                            *)
(***************************************************************************)
(* When the trees have been cut, all of them are.                          *)
LEMMA OrderKeepsTrees ==
  ASSUME Invariant, Order, NEW o \in Owners, NEW q, Cutting(o, q)
  PROVE  o \in Owners' /\ Multiplying(o)'
<1>1. /\ nodes = <<>> /\ temp = <<>> /\ todo = {} /\ phase = "mark" /\ root' = root
      /\ UNCHANGED <<gates, source, flag>>
  BY DEF Order, graphVars
<1>2. root' = NoGate
  BY <1>1 DEF Invariant, BlankInv
<1>3. \A g \in DOMAIN gates : gates[g].out \in flag => CutDone(o, g)
  BY <1>1 DEF Cutting, SetOf
<1> QED BY <1>1, <1>2, <1>3, TreesKept DEF Multiplying, Owners

(* A tree is multiplied out over its leaves.                               *)
LEMMA MultiplyingStep ==
  ASSUME Invariant, CalledInv, Next, phase = "simulate", phase' = "simulate",
         NEW o \in Owners, Multiplying(o)
  PROVE  o \in Owners' /\ Multiplying(o)'
<1>0. TypeOK /\ BlankInv /\ FlagInv
  BY DEF Invariant
<1> DEFINE InTree(l) == \E g \in DOMAIN gates : o[g] = root /\ l \in SetOf(gates[g].ins)
<1>1. \A g \in DOMAIN gates : gates[g].out \in flag => CutDone(o, g)
  BY DEF Multiplying
<1>2. root # NoGate => /\ \A g \in SetOf(chain) : o[g] = root
                       /\ SetOf(leaves) \subseteq LeafLines(o, root)
                       /\ \A l \in SetOf(stack) : InTree(l)
                       /\ Distinct(leaves)
  BY DEF Multiplying
<1>3. root # NoGate => root \in DOMAIN gates /\ gates[root].out \in flag
  BY <1>0 DEF TypeOK, FlagInv, Pending
<1>4. CASE Simulate
  <2>1. /\ root' = First(todo) /\ chain' = <<root'>> /\ stack' = gates[root'].ins
        /\ leaves' = <<>> /\ todo # {} /\ UNCHANGED <<gates, source, flag>>
    BY <1>4 DEF Simulate, graphVars
  <2>2. root' \in DOMAIN gates /\ root' \in todo
    BY <1>0, <2>1, FirstType DEF Invariant
  <2>3. gates[root'].out \in flag
    <3>1. root' # NoGate
      BY <1>0, <2>2, NoGateFacts
    <3> QED BY <1>0, <2>2, <3>1 DEF FlagInv, Pending
  <2>4. o[root'] = root'
    BY <1>1, <2>2, <2>3 DEF CutDone
  <2>5. SetOf(chain') = {root'} /\ SetOf(leaves') = {} /\ Distinct(leaves')
    BY <2>1 DEF SetOf, Distinct
  <2>6. \A l \in SetOf(stack') : \E g \in DOMAIN gates : o[g] = root' /\ l \in SetOf(gates[g].ins)
    BY <2>1, <2>2, <2>4
  <2> QED BY <1>1, <2>1, <2>4, <2>5, <2>6, TreesKept DEF Multiplying, Owners
<1>5. CASE TakeLeaf
  <2>1. /\ stack # <<>> /\ Head(stack) \in flag /\ stack' = Tail(stack)
        /\ leaves' = EnsureLine(leaves, Head(stack))
        /\ UNCHANGED <<gates, source, flag, root, chain>>
    BY <1>5 DEF TakeLeaf, graphVars
  <2>2. root # NoGate
    BY <1>0, <2>1 DEF BlankInv
  <2>3. /\ Head(stack) \in SetOf(stack) /\ Head(stack) \in Names
        /\ SetOf(stack') \subseteq SetOf(stack)
    BY <1>0, <2>1, StackFacts
  <2>4. leaves \in Seq(Names)
    BY <1>0 DEF TypeOK
  <2>5. SetOf(leaves') = SetOf(leaves) \cup {Head(stack)} /\ Distinct(leaves')
    BY <1>2, <2>1, <2>2, <2>3, <2>4, EnsureFacts
  <2>6. Head(stack) \in LeafLines(o, root)
    BY <1>2, <2>1, <2>2, <2>3 DEF LeafLines
  <2>7. SetOf(leaves') \subseteq LeafLines(o, root)
    BY <1>2, <2>2, <2>5, <2>6
  <2>8. \A l \in SetOf(stack') : InTree(l)
    BY <1>2, <2>2, <2>3
  <2> QED BY <1>1, <1>2, <2>1, <2>2, <2>5, <2>7, <2>8, TreesKept DEF Multiplying, Owners
<1>6. CASE TakeGate
  <2> DEFINE l0 == Head(stack)
             g0 == source[l0]
             D == DOMAIN gates
  <2>1. /\ stack # <<>> /\ l0 \notin flag /\ stack' = gates[g0].ins \o Tail(stack)
        /\ chain' = Append(chain, g0)
        /\ UNCHANGED <<gates, source, flag, root, leaves>>
    BY <1>6 DEF TakeGate, graphVars
  <2>2. root # NoGate
    BY <1>0, <2>1 DEF BlankInv
  <2>3. /\ l0 \in SetOf(stack) /\ Tail(stack) \in Seq(Names)
        /\ SetOf(Tail(stack)) \subseteq SetOf(stack)
    BY <1>0, <2>1, StackFacts
  <2>4. Closed(o, root, {})
    BY <1>1, <1>3, <2>2 DEF CutDone
  <2>5. g0 \in DOMAIN gates /\ o[g0] = root
    BY <1>2, <2>1, <2>2, <2>3, <2>4 DEF Closed
  <2>6. SetOf(stack') = SetOf(gates[g0].ins) \cup SetOf(Tail(stack))
    <3>1. gates[g0].ins \in Seq(Names)
      BY <1>0, <2>5, GateFacts
    <3> DEFINE new == gates[g0].ins
               old == Tail(stack)
    <3>2. new \in Seq(Names) /\ old \in Seq(Names) /\ stack' = new \o old
      BY <2>1, <2>3, <3>1
    <3> HIDE DEF new, old
    <3>3. SetOf(new \o old) = SetOf(new) \cup SetOf(old)
      BY <3>2, JoinFacts
    <3> QED BY <3>2, <3>3 DEF new, old
  <2>7. SetOf(chain') = SetOf(chain) \cup {g0}
    <3>1. chain \in Seq(D) /\ g0 \in D
      BY <1>0, <2>5 DEF TypeOK
    <3> HIDE DEF g0, D
    <3>2. ToSet(Append(chain, g0)) = ToSet(chain) \cup {g0}
      BY <3>1, AppendFacts
    <3> QED BY <2>1, <3>2 DEF ToSet, SetOf
  <2> HIDE DEF g0, l0, D
  <2>8. \A l \in SetOf(stack') : InTree(l)
    BY <1>2, <2>2, <2>3, <2>5, <2>6
  <2>9. \A g \in SetOf(chain') : o[g] = root
    BY <1>2, <2>2, <2>5, <2>7
  <2> QED BY <1>1, <1>2, <2>1, <2>2, <2>8, <2>9, TreesKept DEF Multiplying, Owners
<1>7. CASE MultiplyOut
  <2> DEFINE D == DOMAIN gates
  <2>1. /\ chain' = SubSeq(chain, 1, Len(chain) - 1) /\ Len(chain) > 1
        /\ UNCHANGED <<gates, source, flag, root, leaves, stack>>
    BY <1>7 DEF MultiplyOut, graphVars
  <2>2. SetOf(chain') \subseteq SetOf(chain)
    <3>1. chain \in Seq(D) /\ Len(chain) \in Nat /\ DOMAIN chain = 1 .. Len(chain)
      BY <1>0 DEF TypeOK
    <3> HIDE DEF D
    <3>2. Len(chain) - 1 \in 0 .. Len(chain)
      BY <2>1, <3>1
    <3>3. /\ SubSeq(chain, 1, Len(chain) - 1) \in Seq(D)
          /\ Len(SubSeq(chain, 1, Len(chain) - 1)) = Len(chain) - 1
          /\ \A i \in 1 .. Len(chain) - 1 : SubSeq(chain, 1, Len(chain) - 1)[i] = chain[i]
      BY <3>1, <3>2, FrontPartFacts
    <3>4. DOMAIN chain' = 1 .. Len(chain) - 1
      BY <2>1, <3>3
    <3>5. \A i \in DOMAIN chain' : i \in DOMAIN chain /\ chain'[i] = chain[i]
      BY <2>1, <3>1, <3>3, <3>4
    <3> QED BY <3>5 DEF SetOf
  <2> QED BY <1>1, <1>2, <2>1, <2>2, TreesKept DEF Multiplying, Owners
<1>8. CASE SetSimInfo
  <2>1. /\ root # NoGate /\ root' = NoGate /\ flag' = flag \cup {gates[root].out}
        /\ UNCHANGED <<gates, source>>
    BY <1>8 DEF SetSimInfo, graphVars
  <2>2. flag' = flag
    BY <1>3, <2>1
  <2> QED BY <1>1, <2>1, <2>2, TreesKept DEF Multiplying, Owners
<1>9. CASE UNCHANGED <<graphVars, simVars>>
  <2>1. UNCHANGED <<gates, source, flag, root, chain, leaves, stack>>
    BY <1>9 DEF graphVars, simVars
  <2> QED BY <1>1, <1>2, <2>1, TreesKept DEF Multiplying, Owners
<1>10. ~Order
  BY DEF Order
<1> QED BY <1>4, <1>5, <1>6, <1>7, <1>8, <1>9, <1>10, TreeSteps

(* The variables of a matrix chain are no more than the leaves of the tree.*)
LEMMA NarrowLeaves ==
  ASSUME Invariant, phase = "simulate", root # NoGate, NEW o \in Owners, Multiplying(o)
  PROVE  Len(leaves) <= WidthBound
<1>0. TypeOK /\ FlagInv
  BY DEF Invariant
<1>1. root \in DOMAIN gates /\ gates[root].out \in flag
  BY <1>0 DEF TypeOK, FlagInv, Pending
<1>2. Cardinality(LeafLines(o, root)) <= WidthBound
  BY <1>1 DEF Multiplying, CutDone
<1>3. SetOf(leaves) \subseteq LeafLines(o, root) /\ Distinct(leaves)
  BY DEF Multiplying
<1>4. Cardinality(SetOf(leaves)) <= WidthBound
  BY <1>0, <1>2, <1>3, LeavesFewer
<1>5. Cardinality(SetOf(leaves)) = Len(leaves)
  <2>1. leaves \in Seq(Names)
    BY <1>0 DEF TypeOK
  <2> QED BY <1>3, <2>1, SetOfFinite
<1> QED BY <1>4, <1>5

(* The variables of the last chain are still there when the next one is    *)
(* not begun.                                                              *)
LEMMA RestStep ==
  ASSUME Invariant, RestInv, Next, BlankInv',
         phase = "simulate" => \E o \in Owners : Multiplying(o)
  PROVE  RestInv'
<1> SUFFICES ASSUME phase' = "simulate", root' = NoGate PROVE Len(leaves') <= WidthBound'
  BY DEF RestInv
<1>0. TypeOK /\ BlankInv /\ LevelInv
  BY DEF Invariant
<1>1. CASE Order
  <2>1. phase = "mark" /\ outputs # <<>> /\ UNCHANGED <<gates, leaves>>
    BY <1>1 DEF Order, graphVars
  <2>2. leaves' = <<>>
    BY <1>0, <2>1 DEF BlankInv
  <2>3. PICK g : g \in DOMAIN gates
    <3>1. outputs \in Seq(Names)
      BY <1>0 DEF TypeOK, GraphTypeOK
    <3>2. Head(outputs) \in SetOf(outputs)
      BY <2>1, <3>1, QueueFacts
    <3> QED BY <1>0, <2>1, <3>2 DEF LevelInv
  <2>4. Len(gates[g].ins) \in Nat /\ WidthBound \in Int /\ MaxBranch + Len(gates[g].ins) <= WidthBound
    BY <1>0, <2>3, WidthType
  <2>5. 0 <= WidthBound
    <3> DEFINE n == Len(gates[g].ins)
               w == WidthBound
    <3> HIDE DEF n, w
    <3>1. n \in Nat /\ w \in Int /\ MaxBranch + n <= w
      BY <2>4 DEF n, w
    <3>2. 0 <= w
      BY <3>1, SimulatorAssumption
    <3> QED BY <3>2 DEF w
  <2>6. WidthBound' = WidthBound /\ Len(leaves') = 0
    BY <2>1, <2>2 DEF WidthBound, Fanin
  <2> QED BY <2>5, <2>6
<1>2. CASE Simulate
  <2>1. root' = First(todo) /\ todo # {} /\ phase = "simulate"
    BY <1>2 DEF Simulate
  <2>2. root' \in DOMAIN gates
    BY <1>0, <2>1, FirstType
  <2> QED BY <1>0, <2>2, NoGateFacts
<1>3. CASE TakeLeaf \/ TakeGate \/ MultiplyOut
  <2>1. root # NoGate /\ root' = root
    BY <1>0, <1>3 DEF TakeLeaf, TakeGate, MultiplyOut, BlankInv
  <2> QED BY <2>1
<1>4. CASE SetSimInfo
  <2>1. phase = "simulate" /\ root # NoGate /\ UNCHANGED <<gates, leaves>>
    BY <1>4 DEF SetSimInfo, graphVars
  <2>2. Len(leaves) <= WidthBound
    BY <2>1, NarrowLeaves
  <2> QED BY <2>1, <2>2 DEF WidthBound, Fanin
<1>5. CASE phase = "simulate" /\ UNCHANGED <<graphVars, simVars>>
  <2>1. UNCHANGED <<gates, leaves, root>>
    BY <1>5 DEF graphVars, simVars
  <2> QED BY <1>5, <2>1 DEF RestInv, WidthBound, Fanin
<1> QED BY <1>1, <1>2, <1>3, <1>4, <1>5, TreeSteps

-----------------------------------------------------------------------------
(* The trees are those the marking leaves, in every step.                  *)
LEMMA CutInvStep == Invariant /\ Invariant' /\ CutInv /\ [Next]_vars => CutInv'
<1> SUFFICES ASSUME Invariant, Invariant', CutInv, [Next]_vars PROVE CutInv'
  OBVIOUS
<1>0. /\ TypeOK /\ LevelInv' /\ BlankInv' /\ CalledInv /\ MarkInv /\ RestInv
      /\ phase = "mark" => \E o \in Owners, q \in DOMAIN gates \cup {NoGate} : Cutting(o, q)
      /\ phase = "simulate" => \E o \in Owners : Multiplying(o)
  BY DEF Invariant, CutInv
<1>1. CASE Next
  <2>1. CalledInv' /\ MarkInv'
    BY <1>0, <1>1, CalledStep, MarkStep
  <2>2. RestInv'
    BY <1>0, <1>1, RestStep
  <2>3. phase' = "mark" => \E o \in Owners', q \in DOMAIN gates' \cup {NoGate} : Cutting(o, q)'
    BY <1>0, <1>1, CuttingStep
  <2>4. ASSUME phase' = "simulate" PROVE \E o \in Owners' : Multiplying(o)'
    <3>1. CASE Order
      <4>1. phase = "mark"
        BY <3>1 DEF Order
      <4> QED BY <1>0, <3>1, <4>1, OrderKeepsTrees
    <3>2. CASE phase = "simulate"
      BY <1>0, <1>1, <2>4, <3>2, MultiplyingStep
    <3> QED BY <1>0, <1>1, <2>4, <3>1, <3>2, PhaseSteps
  <2> QED BY <2>1, <2>2, <2>3, <2>4 DEF CutInv
<1>2. CASE UNCHANGED vars
  <2> USE <1>2 DEF vars, graphVars, simVars
  <2>1. CalledInv' /\ MarkInv'
    BY <1>0 DEF CalledInv, MarkInv, IsInput, IsOutput, Unlevelled, MustSimulate, Destinations
  <2>2. RestInv'
    BY <1>0 DEF RestInv, WidthBound, Fanin
  <2>3. \A o, q : Cutting(o, q)' = Cutting(o, q)
    BY TreesKept DEF Cutting, InCut
  <2>4. \A o : Multiplying(o)' = Multiplying(o)
    BY TreesKept DEF Multiplying
  <2>5. Owners' = Owners
    BY DEF Owners
  <2> QED BY <1>0, <2>1, <2>2, <2>3, <2>4, <2>5 DEF CutInv
<1> QED BY <1>1, <1>2

(* The trees cut_tree leaves have no more leaves than the limit and the    *)
(* inputs of one LUT together, whatever the network; and what is shared or *)
(* read from outside is a leaf.                                            *)
THEOREM TreesCut == Spec => []TreesWellCut
<1>1. Init => CutInv
  <2> SUFFICES ASSUME Init PROVE CutInv
    OBVIOUS
  <2>1. phase = "parse" /\ called = {} /\ gates = <<>>
    BY DEF Init, GraphInit
  <2>2. DOMAIN gates = {}
    BY <2>1
  <2> QED BY <2>1, <2>2 DEF CutInv, CalledInv, MarkInv, RestInv
<1>2. Invariant /\ Invariant' /\ CutInv /\ [Next]_vars => CutInv'
  BY CutInvStep
<1>3. Invariant /\ CutInv => TreesWellCut
  <2> SUFFICES ASSUME Invariant, CutInv PROVE TreesWellCut
    OBVIOUS
  <2>1. SharedLogicIsLeaf
    BY DEF Invariant, SharedInv
  <2>2. ASSUME phase = "simulate" PROVE Len(leaves) <= MaxBranch + Highest(Fanin)
    <3>1. CASE root = NoGate
      BY <2>2, <3>1 DEF CutInv, RestInv, WidthBound
    <3>2. CASE root # NoGate
      BY <2>2, <3>2, NarrowLeaves DEF CutInv, WidthBound
    <3> QED BY <3>1, <3>2
  <2> QED BY <2>1, <2>2 DEF TreesWellCut, CutBound
<1> QED BY <1>1, <1>2, <1>3, InvariantHolds, PTL DEF Spec

=============================================================================
