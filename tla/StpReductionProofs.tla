------------------------- MODULE StpReductionProofs -------------------------
(***************************************************************************)
(* Proofs about stp_functional_reduction.  Whatever network, classes and   *)
(* patterns the command is given and whatever the solver answers in time:  *)
(*                                                                         *)
(*   TypeCorrect           every variable keeps its type                   *)
(*   FunctionsPreserved    every gate and every output keeps its function, *)
(*                         also between two turns of a substitution        *)
(*   CounterexamplesTell   a counter-example separates the two nodes that  *)
(*                         were asked about, though it need not be new     *)
(*   LookupsAreSound       the hash and the lists of the fanouts find only *)
(*                         gates in use, by the fanins they have           *)
(*   MirrorsAreKept        the counters, the lists and the dead gates      *)
(*                         agree with the fanins, and no step ends that    *)
(*                         but the one that MirrorsKept names              *)
(*                                                                         *)
(* FunctionsKept alone is not inductive.  What the loop of substitute_node *)
(* still has to do must be an equality of functions as well: TruthInv says *)
(* so of each entry of the stack, of each pair of the table of moved nodes *)
(* and of each entry of the structural hash.  CounterexamplesSeparate      *)
(* needs that the root of a search has a complete table, SimInv, and that  *)
(* a table is wrong in zeros of missed blocks only, TableInv.              *)
(* LookupsSound needs LookInv, of the turn that is under way, MirrorsExact *)
(* needs FallExact, of the gates that fall when one is taken out.          *)
(***************************************************************************)
EXTENDS StpReduction, FoldLemmas

(* Functions that are defined on some of the elements of S.                *)
Partial(S, T) == UNION {[K -> T] : K \in SUBSET S}

Key == Literal \X Literal

Network ==
  [kids   : [Gate -> Key],
   outs   : Seq(Literal),
   dead   : SUBSET Gate,
   hash   : Partial(Key, Gate),
   refs   : [Node -> Nat],
   fanout : [Node -> Seq(Gate)]]

Entry == [old : Node, new : Literal, follow : BOOLEAN]

Job == [old : Node, new : Literal, parents : Seq(Gate), on : BOOLEAN]

Walk == [root : Node, items : Seq(Node), tfi : Seq(Node), j : Nat \ {0},
         k : Nat \ {0}, keep : BOOLEAN, member : BOOLEAN]

(* The tables have no more values than there are patterns.                 *)
Fits(t, ps) ==
  t \in [Node -> Seq(BOOLEAN)] /\ \A n \in Node : Len(t[n]) <= Len(ps)

(***************************************************************************)
(* The types of the variables, in the form the proofs need: TypeOK and     *)
(* what it does not say of todo, moved, job, walk and the class file.      *)
(***************************************************************************)
AlgoTypes ==
  /\ phase \in {"select", "consts", "classes", "fanins", "fanouts", "members",
                "done"}
  /\ pats \in Seq(InputVector)
  /\ Fits(tts, pats)
  /\ const0 \in Seq(Gate)
  /\ file \in Partial(Node, Seq(Node))
  /\ classes \in Partial(Node, Seq(Node))
  /\ stale \in BOOLEAN
  /\ kept \in BOOLEAN
  /\ walk \in Walk
  /\ members \in Seq(Node)

SubstTypes ==
  /\ net \in Network
  /\ todo \in Seq(Entry)
  /\ moved \in Partial(Node, Literal)
  /\ job \in Job

HistTypes ==
  /\ func \in [Node -> SUBSET InputVector]
  /\ func[0] = {}
  /\ want \in [DOMAIN net.outs -> SUBSET InputVector]

TypeInv == AlgoTypes /\ SubstTypes /\ HistTypes

(***************************************************************************)
(* Every equality the network and the loop rely on is one of functions.    *)
(***************************************************************************)
NetTruth(n) ==
  /\ \A g \in Gate : func[g] = AndFunc(func, n.kids[g])
  /\ \A k \in DOMAIN n.hash : func[n.hash[k]] = AndFunc(func, k)
  /\ \A o \in DOMAIN want : want[o] = LitFunc(func, n.outs[o])

Same(old, new) == func[old] = LitFunc(func, new)

TruthInv ==
  /\ NetTruth(net)
  /\ \A i \in DOMAIN todo : Same(todo[i].old, todo[i].new)
  /\ \A n \in DOMAIN moved : Same(n, moved[n])
  /\ job.on => Same(job.old, job.new)

(***************************************************************************)
(* While a substitute is looked for, the table of its root is complete:    *)
(* only a node with a complete table can look like it.                     *)
(***************************************************************************)
SimInv == phase \in {"fanins", "fanouts"} => Len(tts[walk.root]) = Len(pats)

-----------------------------------------------------------------------------
(* The numbers of the nodes.                                               *)
LEMMA NodeFacts ==
  /\ Gate \subseteq Node
  /\ Pi \subseteq Node
  /\ 0 \in Node /\ 0 \notin Pi
  /\ Node \subseteq Nat
  /\ \A n \in Node : n = 0 \/ n \in Pi \/ n \in Gate
  /\ \A n \in Gate : n # 0 /\ n \notin Pi
  /\ NumGates \in Nat
  BY SizesAssumption DEF Gate, Node, Pi

(* A literal is a node and a sign, and FlipIf keeps the node.              *)
LEMMA LiteralFacts ==
  /\ \A l \in Literal, b \in BOOLEAN :
       /\ FlipIf(l, b) \in Literal
       /\ FlipIf(l, b).node = l.node
       /\ FlipIf(l, b).neg = (l.neg # b)
  /\ \A n \in Node : Lit(n) \in Literal /\ Lit(n).node = n /\ Lit(n).neg = FALSE
  /\ \A b \in BOOLEAN :
       Constant(b) \in Literal /\ Constant(b).node = 0 /\ Constant(b).neg = b
  BY NodeFacts DEF Literal, FlipIf, Lit, Constant

(* What a flipped literal computes.                                        *)
LEMMA FlipFunc ==
  ASSUME NEW f \in [Node -> SUBSET InputVector], NEW l \in Literal,
         NEW b \in BOOLEAN
  PROVE  /\ LitFunc(f, l) \in SUBSET InputVector
         /\ LitFunc(f, FlipIf(l, b)) =
              IF b THEN InputVector \ LitFunc(f, l) ELSE LitFunc(f, l)
<1>1. f[l.node] \subseteq InputVector /\ l.neg \in BOOLEAN
  BY DEF Literal
<1>2. FlipIf(l, b).node = l.node /\ FlipIf(l, b).neg = (l.neg # b)
  BY LiteralFacts
<1>3. LitFunc(f, l) = IF l.neg THEN InputVector \ f[l.node] ELSE f[l.node]
  BY DEF LitFunc
<1>4. LitFunc(f, FlipIf(l, b)) = IF l.neg # b THEN InputVector \ f[l.node]
                                            ELSE f[l.node]
  BY <1>2 DEF LitFunc
<1>5. InputVector \ (InputVector \ f[l.node]) = f[l.node]
  BY <1>1
<1>6. CASE l.neg = TRUE
  BY <1>1, <1>3, <1>4, <1>5, <1>6
<1>7. CASE l.neg = FALSE
  BY <1>1, <1>3, <1>4, <1>7
<1> QED BY <1>1, <1>6, <1>7

-----------------------------------------------------------------------------
(***************************************************************************)
(* The folds of AigNetwork.                                                *)
(***************************************************************************)
(* The fanins of a gate are nodes.                                         *)
LEMMA FaninTypes ==
  ASSUME NEW net1, net1.kids \in [Gate -> Key]
  PROVE  /\ \A n : FaninSeq(net1, n) \in Seq(Node)
         /\ \A n : Fanins(net1, n) \in SUBSET Node
<1>1. \A n \in Gate : /\ net1.kids[n][1].node \in Node
                      /\ net1.kids[n][2].node \in Node
  BY DEF Key, Literal
<1> QED BY <1>1 DEF FaninSeq, Fanins

(* One round of the depth-first walk, and what it works on.                *)
VisitNext(net1, s) ==
  IF s.stack = <<>> THEN s
  ELSE LET m == Head(s.stack)
       IN  IF m \in s.seen
             THEN [s EXCEPT !.stack = Tail(@)]
             ELSE [stack |-> FaninSeq(net1, m) \o Tail(s.stack),
                   seen  |-> s.seen \cup {m},
                   order |-> Append(s.order, m)]

Walking(seen) ==
  [stack : Seq(Node), seen : {S \in SUBSET Node : seen \subseteq S},
   order : Seq(Node \ seen)]

PreorderOf(run, net1, start, seen) ==
  LET n == 2 * NumGates + Len(start)
  IN  /\ run[0] = [stack |-> start, seen |-> seen, order |-> <<>>]
      /\ \A i \in 1 .. n : run[i] = VisitNext(net1, run[i - 1])
      /\ Preorder(net1, start, seen) = run[n].order

(* A depth-first walk goes on round by round.                              *)
LEMMA PreorderRun ==
  ASSUME NEW net1, net1.kids \in [Gate -> Key], NEW start \in Seq(Node),
         NEW seen \in SUBSET Node
  PROVE  \E run \in [0 .. 2 * NumGates + Len(start) -> Walking(seen)] :
           PreorderOf(run, net1, start, seen)
<1> DEFINE n == 2 * NumGates + Len(start)
           D == Walking(seen)
           Visit(s) == VisitNext(net1, s)
           base == [stack |-> start, seen |-> seen, order |-> <<>>]
           F == [p \in D \X (1 .. n) |-> Visit(p[1])]
           Eq(h) == h = [t \in SUBSET (1 .. n) |->
                           IF t = {} THEN base ELSE Visit(h[t \ {Max(t)}])]
           h == CHOOSE g : Eq(g)
<1>1. n \in Nat /\ base \in D
  BY NodeFacts DEF Walking
<1>2. ASSUME NEW s \in D PROVE Visit(s) \in D
  <2> USE DEF Walking, VisitNext
  <2>1. CASE s.stack = <<>>
    BY <2>1
  <2>2. CASE s.stack # <<>>
    <3>1. Head(s.stack) \in Node /\ Tail(s.stack) \in Seq(Node)
      BY <2>2
    <3>2. CASE Head(s.stack) \in s.seen
      BY <2>2, <3>1, <3>2
    <3>3. CASE Head(s.stack) \notin s.seen
      <4>1. Head(s.stack) \in Node \ seen
        BY <3>1, <3>3
      <4>2. FaninSeq(net1, Head(s.stack)) \o Tail(s.stack) \in Seq(Node)
        BY <3>1, FaninTypes
      <4>3. Append(s.order, Head(s.stack)) \in Seq(Node \ seen)
        BY <4>1
      <4> QED BY <2>2, <3>3, <4>1, <4>2, <4>3
    <3> QED BY <3>2, <3>3
  <2> QED BY <2>1, <2>2
<1>3. F \in [D \X (1 .. n) -> D]
  <2> HIDE DEF D, n, Visit
  <2> QED BY <1>2
<1>4. PICK g \in [SUBSET (1 .. n) -> D] : FoldEquation(g, n, F, base)
  <2> HIDE DEF D, F, n, base
  <2> QED BY <1>1, <1>3, FoldExists
<1>5. Eq(g)
  <2> HIDE DEF D, n, base, Visit
  <2> SUFFICES ASSUME NEW t \in SUBSET (1 .. n)
               PROVE  g[t] = IF t = {} THEN base ELSE Visit(g[t \ {Max(t)}])
    BY <1>4
  <2>1. CASE t = {}
    BY <1>4, <2>1 DEF FoldEquation
  <2>2. CASE t # {}
    <3>1. Max(t) \in 1 .. n
      BY <1>1, <2>2, MaxOfInterval
    <3>2. g[t \ {Max(t)}] \in D
      BY <1>4
    <3> QED BY <1>4, <2>2, <3>1, <3>2 DEF FoldEquation
  <2> QED BY <2>1, <2>2
<1>6. Eq(h)
  <2> HIDE DEF Eq
  <2> QED BY <1>5
<1>7. Preorder(net1, start, seen) = h[1 .. n].order
  BY <1>1 DEF Preorder, FoldLeft, MapThenFoldSet, VisitNext
<1> HIDE DEF h, D, n, base, Visit
<1>8. \A t \in SUBSET (1 .. n) : h[t] \in D
  <2>1. h[{}] \in D
    BY <1>1, <1>6
  <2>2. ASSUME NEW t \in SUBSET (1 .. n), t # {}, h[t \ {Max(t)}] \in D
        PROVE  h[t] \in D
    BY <1>2, <1>6, <2>2
  <2> QED BY <1>1, <2>1, <2>2, FoldRange
<1> DEFINE run == [i \in 0 .. n |-> h[1 .. i]]
<1>9. \A i \in 0 .. n : 1 .. i \in SUBSET (1 .. n)
  BY <1>1
<1>10. run \in [0 .. n -> D]
  BY <1>8, <1>9
<1>11. run[0] = base /\ run[n] = h[1 .. n]
  <2>1. 1 .. 0 = {} /\ 0 \in 0 .. n /\ n \in 0 .. n
    BY <1>1
  <2>2. h[{}] = base
    BY <1>6
  <2> QED BY <2>1, <2>2
<1>12. ASSUME NEW i \in 1 .. n PROVE run[i] = Visit(run[i - 1])
  <2>1. 1 .. i \in SUBSET (1 .. n) /\ 1 .. i # {} /\ i \in 1 .. i
        /\ (1 .. i) \ {i} = 1 .. i - 1 /\ i \in 0 .. n /\ i - 1 \in 0 .. n
    <3>1. i \in Nat /\ 1 <= i /\ i <= n /\ n \in Nat
      BY <1>1
    <3>2. 1 .. i \in SUBSET (1 .. n)
      BY <3>1
    <3>3. i \in 1 .. i /\ i \in 0 .. n /\ i - 1 \in 0 .. n
      BY <3>1
    <3>4. (1 .. i) \ {i} = 1 .. i - 1
      BY <3>1
    <3> QED BY <3>2, <3>3, <3>4
  <2>2. Max(1 .. i) = i
    <3>1. Max(1 .. i) \in 1 .. i /\ \A y \in 1 .. i : Max(1 .. i) >= y
      BY <1>1, <2>1, MaxOfInterval
    <3> QED BY <2>1, <3>1
  <2>3. h[1 .. i] = Visit(h[(1 .. i) \ {Max(1 .. i)}])
    BY <1>6, <2>1
  <2> QED BY <2>1, <2>2, <2>3
<1> HIDE DEF run
<1>13. PreorderOf(run, net1, start, seen)
  BY <1>7, <1>11, <1>12 DEF PreorderOf, n, base, Visit
<1> QED BY <1>10, <1>13 DEF D, n

(* It meets nodes that were not seen before.                               *)
LEMMA PreorderType ==
  ASSUME NEW net1, net1.kids \in [Gate -> Key], NEW start \in Seq(Node),
         NEW seen \in SUBSET Node
  PROVE  Preorder(net1, start, seen) \in Seq(Node \ seen)
<1> DEFINE n == 2 * NumGates + Len(start)
<1>1. n \in 0 .. n
  BY NodeFacts
<1>2. PICK run \in [0 .. n -> Walking(seen)] : PreorderOf(run, net1, start, seen)
  BY PreorderRun
<1>3. run[n] \in Walking(seen)
  BY <1>1, <1>2
<1> QED BY <1>2, <1>3 DEF PreorderOf, Walking

(* One round of the fall of the gates that lose their last reference, and  *)
(* what it works on.                                                       *)
LastUses(net1, s) ==
  Sublist(FaninSeq(net1, Head(s.stack)), {m \in Node : s.refs[m] = 1})

FewerRefs(net1, s) ==
  [m \in Node |->
     CASE m = Head(s.stack) -> 0
       [] m \in Fanins(net1, Head(s.stack)) \ {Head(s.stack)} /\ s.refs[m] > 0 ->
            s.refs[m] - 1
       [] OTHER -> s.refs[m]]

FallNext(net1, s) ==
  IF s.stack = <<>> THEN s
  ELSE IF Head(s.stack) \notin Gate \ (net1.dead \cup s.dying)
         THEN [s EXCEPT !.stack = Tail(@)]
         ELSE [stack |-> LastUses(net1, s) \o Tail(s.stack),
               dying |-> s.dying \cup {Head(s.stack)},
               refs  |-> FewerRefs(net1, s)]

FallStates == [stack : Seq(Node), dying : SUBSET Gate, refs : [Node -> Nat]]

FallingOf(run, net1, n1) ==
  LET n == 2 * NumGates + 1
  IN  /\ run[0] = [stack |-> <<n1>>, dying |-> {}, refs |-> net1.refs]
      /\ \A i \in 1 .. n : run[i] = FallNext(net1, run[i - 1])
      /\ Falling(net1, n1) = run[n]

(* What a round of the fall does, with the gates it meets next.            *)
FallsBy(net1, s, g) ==
  /\ g \in Node /\ Tail(s.stack) \in Seq(Node)
  /\ LastUses(net1, s) \in Seq(Node)
  /\ ToSet(LastUses(net1, s)) = Fanins(net1, g) \cap {m \in Node : s.refs[m] = 1}
  /\ FewerRefs(net1, s) \in [Node -> Nat]
  /\ g \notin Gate \ (net1.dead \cup s.dying) =>
       FallNext(net1, s) =
         [stack |-> Tail(s.stack), dying |-> s.dying, refs |-> s.refs]
  /\ g \in Gate \ (net1.dead \cup s.dying) =>
       FallNext(net1, s) = [stack |-> LastUses(net1, s) \o Tail(s.stack),
                            dying |-> s.dying \cup {g},
                            refs  |-> FewerRefs(net1, s)]

LEMMA FallStep ==
  ASSUME NEW net1, net1.kids \in [Gate -> Key], NEW s \in FallStates,
         s.stack # <<>>, NEW g, g = Head(s.stack)
  PROVE  FallsBy(net1, s, g)
<1>1. g \in Node /\ Tail(s.stack) \in Seq(Node) /\ s.refs \in [Node -> Nat]
  BY DEF FallStates
<1>2. FaninSeq(net1, g) \in Seq(Node)
  BY FaninTypes
<1>3. ToSet(FaninSeq(net1, g)) = Fanins(net1, g)
  <2>1. CASE g \in Gate
    <3>1. PICK a, b : a = net1.kids[g][1].node /\ b = net1.kids[g][2].node
      OBVIOUS
    <3>2. FaninSeq(net1, g) = <<a, b>> /\ Fanins(net1, g) = {a, b}
      BY <2>1, <3>1 DEF FaninSeq, Fanins
    <3>3. ToSet(<<a, b>>) = {a, b}
      BY DEF ToSet
    <3> QED BY <3>2, <3>3
  <2>2. CASE g \notin Gate
    <3>1. FaninSeq(net1, g) = <<>> /\ Fanins(net1, g) = {}
      BY <2>2 DEF FaninSeq, Fanins
    <3>2. ToSet(<<>>) = {}
      BY DEF ToSet
    <3> QED BY <3>1, <3>2
  <2> QED BY <2>1, <2>2
<1> DEFINE T == {m \in Node : s.refs[m] = 1}
<1>4. LastUses(net1, s) = Sublist(FaninSeq(net1, g), T)
  BY DEF LastUses
<1> HIDE DEF T
<1>5. LastUses(net1, s) \in Seq(Node)
  <2>1. Sublist(FaninSeq(net1, g), T) \in Seq(Node \cap T)
    BY <1>2, SublistType
  <2> QED BY <1>4, <2>1
<1>6. ToSet(LastUses(net1, s)) = Fanins(net1, g) \cap T
  BY <1>2, <1>3, <1>4, SublistOnce
<1>7. FewerRefs(net1, s) \in [Node -> Nat]
  BY <1>1 DEF FewerRefs
<1>8. g \notin Gate \ (net1.dead \cup s.dying) =>
        FallNext(net1, s) =
          [stack |-> Tail(s.stack), dying |-> s.dying, refs |-> s.refs]
  BY DEF FallNext, FallStates
<1>9. g \in Gate \ (net1.dead \cup s.dying) =>
        FallNext(net1, s) = [stack |-> LastUses(net1, s) \o Tail(s.stack),
                             dying |-> s.dying \cup {g},
                             refs  |-> FewerRefs(net1, s)]
  BY Zenon DEF FallNext
<1> QED BY <1>1, <1>5, <1>6, <1>7, <1>8, <1>9 DEF T, FallsBy

(* The gates fall round by round, and no counter becomes negative.         *)
LEMMA FallingRun ==
  ASSUME NEW net1, net1.kids \in [Gate -> Key], net1.refs \in [Node -> Nat],
         NEW n1 \in Node
  PROVE  \E run \in [0 .. 2 * NumGates + 1 -> FallStates] : FallingOf(run, net1, n1)
<1> DEFINE n == 2 * NumGates + 1
           D == FallStates
           Fall(s) == FallNext(net1, s)
           base == [stack |-> <<n1>>, dying |-> {}, refs |-> net1.refs]
           F == [p \in D \X (1 .. n) |-> Fall(p[1])]
           Eq(h) == h = [t \in SUBSET (1 .. n) |->
                           IF t = {} THEN base ELSE Fall(h[t \ {Max(t)}])]
           h == CHOOSE g : Eq(g)
<1>1. n \in Nat /\ base \in D
  BY NodeFacts DEF FallStates
<1>2. ASSUME NEW s \in D PROVE Fall(s) \in D
  <2>1. CASE s.stack = <<>>
    BY <2>1 DEF FallNext
  <2>2. CASE s.stack # <<>>
    <3>0. PICK g : g = Head(s.stack)
      OBVIOUS
    <3>1. /\ Tail(s.stack) \in Seq(Node) /\ LastUses(net1, s) \in Seq(Node)
          /\ FewerRefs(net1, s) \in [Node -> Nat]
          /\ g \notin Gate \ (net1.dead \cup s.dying) =>
               Fall(s) = [stack |-> Tail(s.stack), dying |-> s.dying, refs |-> s.refs]
          /\ g \in Gate \ (net1.dead \cup s.dying) =>
               Fall(s) = [stack |-> LastUses(net1, s) \o Tail(s.stack),
                          dying |-> s.dying \cup {g}, refs |-> FewerRefs(net1, s)]
      <4>1. FallsBy(net1, s, g)
        BY <2>2, <3>0, FallStep
      <4> QED BY <4>1 DEF FallsBy
    <3>2. LastUses(net1, s) \o Tail(s.stack) \in Seq(Node)
      BY <3>1
    <3>3. s.dying \in SUBSET Gate /\ s.refs \in [Node -> Nat]
      BY DEF FallStates
    <3> HIDE DEF Fall
    <3>4. CASE g \notin Gate \ (net1.dead \cup s.dying)
      <4>1. Fall(s) = [stack |-> Tail(s.stack), dying |-> s.dying, refs |-> s.refs]
        BY <3>1, <3>4
      <4> QED BY <3>1, <3>3, <4>1 DEF FallStates
    <3>5. CASE g \in Gate \ (net1.dead \cup s.dying)
      <4>1. Fall(s) = [stack |-> LastUses(net1, s) \o Tail(s.stack),
                       dying |-> s.dying \cup {g}, refs |-> FewerRefs(net1, s)]
        BY <3>1, <3>5
      <4>2. s.dying \cup {g} \in SUBSET Gate
        BY <3>3, <3>5
      <4> QED BY <3>1, <3>2, <4>1, <4>2 DEF FallStates
    <3> QED BY <3>4, <3>5
  <2> QED BY <2>1, <2>2
<1>3. F \in [D \X (1 .. n) -> D]
  <2> HIDE DEF D, n, Fall
  <2> QED BY <1>2
<1>4. PICK g \in [SUBSET (1 .. n) -> D] : FoldEquation(g, n, F, base)
  <2> HIDE DEF D, F, n, base
  <2> QED BY <1>1, <1>3, FoldExists
<1>5. Eq(g)
  <2> HIDE DEF D, n, base, Fall
  <2> SUFFICES ASSUME NEW t \in SUBSET (1 .. n)
               PROVE  g[t] = IF t = {} THEN base ELSE Fall(g[t \ {Max(t)}])
    BY <1>4
  <2>1. CASE t = {}
    BY <1>4, <2>1 DEF FoldEquation
  <2>2. CASE t # {}
    <3>1. Max(t) \in 1 .. n
      BY <1>1, <2>2, MaxOfInterval
    <3>2. g[t \ {Max(t)}] \in D
      BY <1>4
    <3> QED BY <1>4, <2>2, <3>1, <3>2 DEF FoldEquation
  <2> QED BY <2>1, <2>2
<1>6. Eq(h)
  <2> HIDE DEF Eq
  <2> QED BY <1>5
<1>7. Falling(net1, n1) = h[1 .. n]
  BY <1>1 DEF Falling, FoldLeft, MapThenFoldSet, FallNext, LastUses, FewerRefs
<1> HIDE DEF h, D, n, base, Fall
<1>8. \A t \in SUBSET (1 .. n) : h[t] \in D
  <2>1. h[{}] \in D
    BY <1>1, <1>6
  <2>2. ASSUME NEW t \in SUBSET (1 .. n), t # {}, h[t \ {Max(t)}] \in D
        PROVE  h[t] \in D
    BY <1>2, <1>6, <2>2
  <2> QED BY <1>1, <2>1, <2>2, FoldRange
<1> DEFINE run == [i \in 0 .. n |-> h[1 .. i]]
<1>9. \A i \in 0 .. n : 1 .. i \in SUBSET (1 .. n)
  BY <1>1
<1>10. run \in [0 .. n -> D]
  BY <1>8, <1>9
<1>11. run[0] = base /\ run[n] = h[1 .. n]
  <2>1. 1 .. 0 = {} /\ 0 \in 0 .. n /\ n \in 0 .. n
    BY <1>1
  <2>2. h[{}] = base
    BY <1>6
  <2> QED BY <2>1, <2>2
<1>12. ASSUME NEW i \in 1 .. n PROVE run[i] = Fall(run[i - 1])
  <2>1. 1 .. i \in SUBSET (1 .. n) /\ 1 .. i # {} /\ i \in 1 .. i
        /\ (1 .. i) \ {i} = 1 .. i - 1 /\ i \in 0 .. n /\ i - 1 \in 0 .. n
    <3>1. i \in Nat /\ 1 <= i /\ i <= n /\ n \in Nat
      BY <1>1
    <3>2. 1 .. i \in SUBSET (1 .. n)
      BY <3>1
    <3>3. i \in 1 .. i /\ i \in 0 .. n /\ i - 1 \in 0 .. n
      BY <3>1
    <3>4. (1 .. i) \ {i} = 1 .. i - 1
      BY <3>1
    <3> QED BY <3>2, <3>3, <3>4
  <2>2. Max(1 .. i) = i
    <3>1. Max(1 .. i) \in 1 .. i /\ \A y \in 1 .. i : Max(1 .. i) >= y
      BY <1>1, <2>1, MaxOfInterval
    <3> QED BY <2>1, <3>1
  <2>3. h[1 .. i] = Fall(h[(1 .. i) \ {Max(1 .. i)}])
    BY <1>6, <2>1
  <2> QED BY <2>1, <2>2, <2>3
<1> HIDE DEF run
<1>13. FallingOf(run, net1, n1)
  BY <1>7, <1>11, <1>12 DEF FallingOf, n, base, Fall
<1> QED BY <1>10, <1>13 DEF D, n

(* What take_out_node takes out are gates.                                 *)
LEMMA FallingType ==
  ASSUME NEW net1, net1.kids \in [Gate -> Key], net1.refs \in [Node -> Nat],
         NEW n1 \in Node
  PROVE  /\ Falling(net1, n1).dying \in SUBSET Gate
         /\ Falling(net1, n1).refs \in [Node -> Nat]
<1> DEFINE n == 2 * NumGates + 1
<1>1. n \in 0 .. n
  BY NodeFacts
<1>2. PICK run \in [0 .. n -> FallStates] : FallingOf(run, net1, n1)
  BY FallingRun
<1>3. run[n] \in FallStates
  BY <1>1, <1>2
<1> QED BY <1>2, <1>3 DEF FallingOf, FallStates

(* The cone of some nodes holds them.                                      *)
LEMMA ConeHolds ==
  ASSUME NEW net1, net1.kids \in [Gate -> Key], NEW S \in SUBSET Node
  PROVE  S \subseteq Cone(net1, S)
<1> DEFINE n == NumGates
           D == {C \in SUBSET Node : S \subseteq C}
           Grow(C) == C \cup UNION {Fanins(net1, m) : m \in C}
           F == [p \in D \X (1 .. n) |-> Grow(p[1])]
           Eq(h) == h = [t \in SUBSET (1 .. n) |->
                           IF t = {} THEN S ELSE Grow(h[t \ {Max(t)}])]
           h == CHOOSE g : Eq(g)
<1>1. n \in Nat /\ S \in D
  BY NodeFacts
<1>2. ASSUME NEW C \in D PROVE Grow(C) \in D
  BY FaninTypes
<1>3. F \in [D \X (1 .. n) -> D]
  <2> HIDE DEF D, n, Grow
  <2> QED BY <1>2
<1>4. PICK g \in [SUBSET (1 .. n) -> D] : FoldEquation(g, n, F, S)
  <2> HIDE DEF D, F, n
  <2> QED BY <1>1, <1>3, FoldExists
<1>5. Eq(g)
  <2> HIDE DEF D, n, Grow
  <2> SUFFICES ASSUME NEW t \in SUBSET (1 .. n)
               PROVE  g[t] = IF t = {} THEN S ELSE Grow(g[t \ {Max(t)}])
    BY <1>4
  <2>1. CASE t = {}
    BY <1>4, <2>1 DEF FoldEquation
  <2>2. CASE t # {}
    <3>1. Max(t) \in 1 .. n
      BY <1>1, <2>2, MaxOfInterval
    <3>2. g[t \ {Max(t)}] \in D
      BY <1>4
    <3> QED BY <1>4, <2>2, <3>1, <3>2 DEF FoldEquation
  <2> QED BY <2>1, <2>2
<1>6. Eq(h)
  <2> HIDE DEF Eq
  <2> QED BY <1>5
<1>7. Cone(net1, S) = h[1 .. n]
  BY <1>1 DEF Cone, FoldLeft, MapThenFoldSet
<1> HIDE DEF h, D, n, Grow
<1>8. \A t \in SUBSET (1 .. n) : h[t] \in D
  <2>1. h[{}] \in D
    BY <1>1, <1>6
  <2>2. ASSUME NEW t \in SUBSET (1 .. n), t # {}, h[t \ {Max(t)}] \in D
        PROVE  h[t] \in D
    BY <1>2, <1>6, <2>2
  <2> QED BY <1>1, <2>1, <2>2, FoldRange
<1>9. h[1 .. n] \in D
  BY <1>8
<1> QED BY <1>7, <1>9 DEF D

-----------------------------------------------------------------------------
(***************************************************************************)
(* The functions of the network that is given exist: its gates come after  *)
(* their fanins.                                                           *)
(***************************************************************************)
LEMMA FunctionsOfNetwork ==
  ASSUME NEW d, IsDesign(d)
  PROVE  /\ FunctionsOf(d.kids) \in [Node -> SUBSET InputVector]
         /\ FunctionsOf(d.kids)[0] = {}
         /\ \A g \in Gate :
              FunctionsOf(d.kids)[g] = AndFunc(FunctionsOf(d.kids), d.kids[g])
<1> DEFINE kids == d.kids
           Value(f, n) ==
             CASE n = 0    -> {}
               [] n \in Pi -> {v \in InputVector : n \in v}
               [] OTHER    -> LitFunc(f, kids[n][1]) \cap LitFunc(f, kids[n][2])
           Funcs == [Node -> SUBSET InputVector]
           P(m) == \E f \in Funcs : \A n \in Node : n <= m => f[n] = Value(f, n)
           last == NumPis + NumGates
           T == {m \in Nat : m <= last /\ ~P(m)}
<1>1. \A n \in Gate : /\ kids[n][1] \in Literal
                      /\ kids[n][2] \in Literal
                      /\ kids[n][1].node \in Node
                      /\ kids[n][2].node \in Node
                      /\ kids[n][1].node < n
                      /\ kids[n][2].node < n
  <2>1. \A n \in Gate : /\ kids[n] \in Literal \X Literal
                        /\ kids[n][1].node < kids[n][2].node
                        /\ kids[n][2].node < n
    BY DEF IsDesign
  <2>2. \A n \in Gate : n \in Nat
    BY NodeFacts
  <2>3. \A l \in Literal : l.node \in Node /\ l.node \in Nat
    BY NodeFacts DEF Literal
  <2> QED BY <2>1, <2>2, <2>3
<1>2. \A f \in Funcs, n \in Node : Value(f, n) \in SUBSET InputVector
  <2> SUFFICES ASSUME NEW f \in Funcs, NEW n \in Node
               PROVE  Value(f, n) \in SUBSET InputVector
    OBVIOUS
  <2>1. CASE n = 0
    BY <2>1
  <2>2. CASE n \in Pi
    BY <2>2, NodeFacts
  <2>3. CASE n \in Gate
    <3>1. LitFunc(f, kids[n][1]) \in SUBSET InputVector
      BY <1>1, <2>3, FlipFunc
    <3>2. Value(f, n) = LitFunc(f, kids[n][1]) \cap LitFunc(f, kids[n][2])
      BY <2>3, NodeFacts
    <3> QED BY <3>1, <3>2
  <2> QED BY <2>1, <2>2, <2>3, NodeFacts
<1>3. ASSUME NEW f, NEW g, NEW n \in Node,
             \A k \in Node : k < n => f[k] = g[k]
      PROVE  Value(f, n) = Value(g, n)
  <2>1. CASE n = 0
    BY <2>1
  <2>2. CASE n \in Pi
    BY <2>2, NodeFacts
  <2>3. CASE n \in Gate
    <3>1. f[kids[n][1].node] = g[kids[n][1].node]
      BY <1>1, <1>3, <2>3
    <3>2. f[kids[n][2].node] = g[kids[n][2].node]
      BY <1>1, <1>3, <2>3
    <3>3. /\ Value(f, n) = LitFunc(f, kids[n][1]) \cap LitFunc(f, kids[n][2])
          /\ Value(g, n) = LitFunc(g, kids[n][1]) \cap LitFunc(g, kids[n][2])
      BY <2>3, NodeFacts
    <3> QED BY <3>1, <3>2, <3>3 DEF LitFunc
  <2> QED BY <2>1, <2>2, <2>3, NodeFacts
<1>4. last \in Nat /\ Node = 0 .. last
  BY SizesAssumption DEF Node
<1> HIDE DEF Value, kids
<1>5. P(last)
  <2> SUFFICES ASSUME T # {} PROVE FALSE
    <3> HIDE DEF P
    <3> QED BY <1>4
  <2>1. PICK m \in T : \A k \in T : m <= k
    BY LeastNumber
  <2>2. P(0)
    <3> DEFINE f0 == [n \in Node |-> {}]
               f1 == [n \in Node |-> IF n = 0 THEN Value(f0, 0) ELSE {}]
    <3>1. f0 \in Funcs /\ 0 \in Node
      BY <1>4
    <3>2. f1 \in Funcs
      BY <1>2, <3>1
    <3>3. \A k \in Node : k < 0 => f0[k] = f1[k]
      BY <1>4
    <3>4. Value(f0, 0) = Value(f1, 0)
      <4> HIDE DEF f0, f1
      <4> QED BY <1>3, <3>1, <3>3
    <3>5. \A n \in Node : n <= 0 => f1[n] = Value(f1, n)
      BY <1>4, <3>4
    <3> QED BY <3>2, <3>5
  <2>3. m \in Nat /\ m # 0 /\ m <= last /\ m - 1 \in Nat /\ ~P(m)
    <3> HIDE DEF P
    <3> QED BY <2>1, <2>2
  <2>4. P(m - 1)
    <3> HIDE DEF P
    <3> QED BY <2>1, <2>3, <1>4
  <2>5. PICK f \in Funcs : \A n \in Node : n <= m - 1 => f[n] = Value(f, n)
    BY <2>4
  <2> DEFINE h == [n \in Node |-> IF n = m THEN Value(f, m) ELSE f[n]]
  <2>6. h \in Funcs
    BY <1>2, <1>4, <2>3
  <2>7. \A n \in Node : n <= m => h[n] = Value(h, n)
    <3> SUFFICES ASSUME NEW n \in Node, n <= m PROVE h[n] = Value(h, n)
      OBVIOUS
    <3>1. \A k \in Node : k < n => f[k] = h[k]
      BY <1>4, <2>3
    <3>2. Value(f, n) = Value(h, n)
      <4> HIDE DEF h
      <4> QED BY <1>3, <3>1
    <3> QED BY <1>4, <2>3, <2>5, <3>2
  <2>8. P(m)
    <3> HIDE DEF h
    <3> QED BY <2>6, <2>7
  <2> QED BY <2>3, <2>8
<1> DEFINE Eq(f) == f = [n \in Node |-> Value(f, n)]
           func0 == CHOOSE f : Eq(f)
<1>6. Eq(func0)
  <2>1. PICK f \in Funcs : \A n \in Node : n <= last => f[n] = Value(f, n)
    BY <1>5
  <2>2. Eq(f)
    BY <1>4, <2>1
  <2> HIDE DEF Eq
  <2> QED BY <2>2
<1>7. FunctionsOf(d.kids) = [n \in Node |-> func0[n]]
  BY DEF FunctionsOf, Value, kids
<1> HIDE DEF func0
<1>8. FunctionsOf(d.kids) = func0
  BY <1>6, <1>7
<1>9. func0 \in Funcs
  <2> DEFINE T2 == {n \in Nat : n \in Node /\ func0[n] \notin SUBSET InputVector}
  <2> SUFFICES ASSUME T2 # {} PROVE FALSE
    BY <1>4, <1>6
  <2>1. PICK m \in T2 : \A k \in T2 : m <= k
    BY LeastNumber
  <2> DEFINE f == [n \in Node |-> IF n < m THEN func0[n] ELSE {}]
  <2>2. f \in Funcs
    BY <1>4, <2>1
  <2>3. \A k \in Node : k < m => f[k] = func0[k]
    OBVIOUS
  <2>4. Value(f, m) = Value(func0, m)
    <3> HIDE DEF f
    <3> QED BY <1>3, <2>1, <2>3
  <2>5. func0[m] = Value(func0, m)
    BY <1>6, <2>1
  <2>6. Value(f, m) \in SUBSET InputVector
    <3> HIDE DEF f
    <3> QED BY <1>2, <2>1, <2>2
  <2> QED BY <2>1, <2>4, <2>5, <2>6
<1>10. func0[0] = {}
  <2>1. Value(func0, 0) = {}
    BY NodeFacts, Zenon DEF Value
  <2> QED BY <1>6, <2>1, NodeFacts
<1>11. \A g \in Gate : func0[g] = AndFunc(func0, kids[g])
  BY <1>6, NodeFacts DEF Value, AndFunc
<1> QED BY <1>8, <1>9, <1>10, <1>11 DEF kids

-----------------------------------------------------------------------------
(***************************************************************************)
(* What the operations on the network do to its type and to its functions. *)
(***************************************************************************)
(* Partial functions.                                                      *)
LEMMA PartialFacts ==
  /\ \A S, T : \A K \in SUBSET S : \A f \in [K -> T] : f \in Partial(S, T)
  /\ \A S, T : \A f \in Partial(S, T) :
       /\ DOMAIN f \in SUBSET S
       /\ \A x \in DOMAIN f : f[x] \in T
       /\ f \in [DOMAIN f -> T]
  BY DEF Partial

(* The number of elements of a part of an interval, or of a sequence.      *)
LEMMA CardinalityNat ==
  ASSUME NEW a \in Nat, NEW b \in Nat, NEW S \in SUBSET (a .. b)
  PROVE  Cardinality(S) \in Nat /\ Cardinality(S) <= Cardinality(a .. b)
<1>1. IsFiniteSet(a .. b)
  BY FS_Interval
<1> QED BY <1>1, FS_Subset, FS_CardinalityType

(* The turn that is none.                                                  *)
LEMMA NoJobType == NoJob \in Job /\ NoJob.on = FALSE
<1>1. Constant(FALSE) \in Literal
  BY LiteralFacts
<1>2. <<>> \in Seq(Gate) /\ 0 \in Node
  BY NodeFacts
<1> QED BY <1>1, <1>2, Zenon DEF NoJob, Job

(* A network that is built has the type of one.                            *)
LEMMA CreatedType ==
  ASSUME NEW d, IsDesign(d)
  PROVE  Created(d.kids, d.outs) \in Network
<1> DEFINE bare == [kids |-> d.kids, outs |-> d.outs, dead |-> {}]
           keys == {d.kids[g] : g \in Gate}
           gates == [i \in 1 .. NumGates |-> NumPis + i]
           hash == [k \in keys |-> CHOOSE g \in Gate : d.kids[g] = k]
           refs == [n \in Node |-> References(bare, n)]
           fanout == [n \in Node |-> Sublist(gates, Parents(bare, n))]
<1>1. d.kids \in [Gate -> Key] /\ d.outs \in Seq(Literal)
  BY DEF IsDesign, Key
<1>2. hash \in Partial(Key, Gate)
  <2>1. keys \in SUBSET Key
    BY <1>1
  <2>2. \A k \in keys : \E g \in Gate : d.kids[g] = k
    OBVIOUS
  <2>3. hash \in [keys -> Gate]
    <3> HIDE DEF keys
    <3> QED BY <2>2
  <2> QED BY <2>1, <2>3, PartialFacts
<1>3. refs \in [Node -> Nat]
  <2> SUFFICES ASSUME NEW n \in Node PROVE References(bare, n) \in Nat
    OBVIOUS
  <2>1. Parents(bare, n) \in SUBSET (NumPis + 1 .. NumPis + NumGates)
    BY DEF Parents, Gate
  <2>2. Cardinality(Parents(bare, n)) \in Nat
    <3> HIDE DEF bare
    <3>1. NumPis + 1 \in Nat /\ NumPis + NumGates \in Nat
      BY SizesAssumption
    <3> QED BY <2>1, <3>1, CardinalityNat
  <2>3. DOMAIN bare.outs = 1 .. Len(d.outs) /\ Len(d.outs) \in Nat
    BY <1>1
  <2>4. Cardinality({o \in DOMAIN bare.outs : bare.outs[o].node = n}) \in Nat
    BY <2>3, CardinalityNat
  <2> QED BY <2>2, <2>4 DEF References
<1>4. fanout \in [Node -> Seq(Gate)]
  <2> SUFFICES ASSUME NEW n \in Node
               PROVE  Sublist(gates, Parents(bare, n)) \in Seq(Gate)
    OBVIOUS
  <2>1. gates \in Seq(Gate)
    BY SizesAssumption DEF Gate
  <2>2. Sublist(gates, Parents(bare, n)) \in Seq(Gate \cap Parents(bare, n))
    BY <2>1, SublistType
  <2> QED BY <2>2
<1>5. Created(d.kids, d.outs) =
        [kids |-> d.kids, outs |-> d.outs, dead |-> {}, hash |-> hash,
         refs |-> refs, fanout |-> fanout]
  BY DEF Created
<1> HIDE DEF hash, refs, fanout
<1> QED BY <1>1, <1>2, <1>3, <1>4, <1>5 DEF Network

(* The fanins a gate gets when one of them is replaced.                    *)
LEMMA NewFaninsType ==
  ASSUME NEW net1 \in Network, NEW g \in Gate, NEW old \in Node,
         NEW new \in Literal
  PROVE  NewFanins(net1, g, old, new) \in Key
<1>1. net1.kids[g][1] \in Literal /\ net1.kids[g][2] \in Literal
  BY DEF Network, Key
<1>2. /\ FlipIf(new, net1.kids[g][1].neg) \in Literal
      /\ FlipIf(new, net1.kids[g][2].neg) \in Literal
  BY <1>1, LiteralFacts DEF Literal
<1>3. CASE net1.kids[g][1].node = old
  BY <1>1, <1>2, <1>3 DEF NewFanins, Key
<1>4. CASE net1.kids[g][1].node # old
  BY <1>1, <1>2, <1>4 DEF NewFanins, Key
<1> QED BY <1>3, <1>4

(* They compute what the old fanins did, if old and new are the same.      *)
LEMMA NewFaninsSame ==
  ASSUME NEW net1 \in Network, NEW g \in Gate, NEW old \in Node,
         NEW new \in Literal, HistTypes, Same(old, new), old \in Fanins(net1, g)
  PROVE  AndFunc(func, NewFanins(net1, g, old, new)) = AndFunc(func, net1.kids[g])
<1> DEFINE k1 == net1.kids[g][1]
           k2 == net1.kids[g][2]
<1>1. k1 \in Literal /\ k2 \in Literal /\ k1.neg \in BOOLEAN /\ k2.neg \in BOOLEAN
  BY DEF Network, Key, Literal
<1>2. k1.node = old \/ k2.node = old
  BY DEF Fanins
<1>3. func \in [Node -> SUBSET InputVector]
  BY DEF HistTypes
<1>4. ASSUME NEW k \in {k1, k2}, k.node = old
      PROVE  LitFunc(func, FlipIf(new, k.neg)) = LitFunc(func, k)
  <2>1. LitFunc(func, FlipIf(new, k.neg)) =
          IF k.neg THEN InputVector \ LitFunc(func, new) ELSE LitFunc(func, new)
    <3>1. k.neg \in BOOLEAN
      BY <1>1, <1>4
    <3> QED BY <3>1, <1>3, FlipFunc
  <2>2. func[k.node] = LitFunc(func, new)
    BY <1>4 DEF Same
  <2>3. LitFunc(func, k) = IF k.neg THEN InputVector \ func[k.node] ELSE func[k.node]
    BY DEF LitFunc
  <2> QED BY <2>1, <2>2, <2>3
<1>5. CASE k1.node = old
  <2>1. NewFanins(net1, g, old, new) \in {<<FlipIf(new, k1.neg), k2>>,
                                          <<k2, FlipIf(new, k1.neg)>>}
    BY <1>5 DEF NewFanins
  <2>2. LitFunc(func, FlipIf(new, k1.neg)) = LitFunc(func, k1)
    BY <1>4, <1>5
  <2> QED BY <2>1, <2>2 DEF AndFunc
<1>6. CASE k1.node # old
  <2>1. NewFanins(net1, g, old, new) \in {<<FlipIf(new, k2.neg), k1>>,
                                          <<k1, FlipIf(new, k2.neg)>>}
    BY <1>6 DEF NewFanins
  <2>2. LitFunc(func, FlipIf(new, k2.neg)) = LitFunc(func, k2)
    BY <1>2, <1>4, <1>6
  <2> QED BY <2>1, <2>2 DEF AndFunc
<1> QED BY <1>5, <1>6

(* A gate that is not changed but replaced is replaced by what it computes. *)
LEMMA SimplifiedSame ==
  ASSUME NEW net1 \in Network, NEW g \in Gate, NEW old \in Node,
         NEW new \in Literal, NEW l \in Simplified(net1, g, old, new)
  PROVE  /\ l \in Literal
         /\ (/\ HistTypes /\ NetTruth(net1) /\ Same(old, new)
             /\ old \in Fanins(net1, g)) => Same(g, l)
<1> DEFINE key == NewFanins(net1, g, old, new)
<1>1. key \in Key /\ key[1] \in Literal /\ key[2] \in Literal
  BY NewFaninsType DEF Key
<1>2. (/\ HistTypes /\ NetTruth(net1) /\ Same(old, new)
       /\ old \in Fanins(net1, g)) =>
        func[g] = LitFunc(func, key[1]) \cap LitFunc(func, key[2])
  <2> SUFFICES ASSUME HistTypes, NetTruth(net1), Same(old, new),
                      old \in Fanins(net1, g)
               PROVE  func[g] = LitFunc(func, key[1]) \cap LitFunc(func, key[2])
    OBVIOUS
  <2>1. func[g] = AndFunc(func, net1.kids[g])
    BY DEF NetTruth
  <2>2. AndFunc(func, key) = AndFunc(func, net1.kids[g])
    BY NewFaninsSame
  <2> QED BY <2>1, <2>2 DEF AndFunc
<1>3. HistTypes => /\ LitFunc(func, key[1]) \subseteq InputVector
                   /\ LitFunc(func, key[2]) \subseteq InputVector
  BY <1>1, FlipFunc DEF HistTypes
<1>4. HistTypes => LitFunc(func, Constant(FALSE)) = {}
  BY DEF HistTypes, LitFunc, Constant
<1>5. \A i \in {1, 2} : HistTypes /\ key[i].node = 0 =>
        LitFunc(func, key[i]) = IF key[i].neg THEN InputVector ELSE {}
  BY DEF HistTypes, LitFunc
<1>6. Constant(FALSE) \in Literal
  BY LiteralFacts
<1> HIDE DEF key
<1>7. CASE key[1].node = key[2].node
  <2>1. l = IF key[1].neg # key[2].neg THEN Constant(FALSE) ELSE key[2]
    BY <1>7, Zenon DEF Simplified, key
  <2>2. key[1].neg \in BOOLEAN /\ key[2].neg \in BOOLEAN
    BY <1>1 DEF Literal
  <2>3. LitFunc(func, key[1]) \cap LitFunc(func, key[2]) =
          IF key[1].neg # key[2].neg THEN {} ELSE LitFunc(func, key[2])
    BY <1>7, <2>2 DEF LitFunc
  <2> QED BY <1>1, <1>2, <1>4, <1>6, <2>1, <2>3 DEF Same
<1>8. CASE key[1].node # key[2].node /\ key[1].node = 0
  <2>1. l = IF key[1].neg THEN key[2] ELSE Constant(FALSE)
    BY <1>8, Zenon DEF Simplified, key
  <2> QED BY <1>1, <1>2, <1>3, <1>4, <1>5, <1>6, <1>8, <2>1 DEF Same
<1>9. CASE key[1].node # key[2].node /\ key[1].node # 0
  <2>1. key \in DOMAIN net1.hash /\ l = Lit(net1.hash[key])
    <3>1. l \in IF key \in DOMAIN net1.hash /\ net1.hash[key] # old
                 THEN {Lit(net1.hash[key])} ELSE {}
      BY <1>9, Zenon DEF Simplified, key
    <3> QED BY <3>1
  <2>2. net1.hash[key] \in Gate
    BY <2>1, PartialFacts DEF Network
  <2>3. l \in Literal
    BY <2>1, <2>2, NodeFacts, LiteralFacts
  <2>4. LitFunc(func, l) = func[net1.hash[key]]
    BY <2>1, <2>2, NodeFacts, LiteralFacts DEF LitFunc
  <2> QED BY <1>2, <2>1, <2>3, <2>4 DEF Same, NetTruth, AndFunc
<1> QED BY <1>7, <1>8, <1>9

(* replace_in_node, when it changes the gate.                              *)
LEMMA ReplaceInNodeKeeps ==
  ASSUME NEW net1 \in Network, NEW g \in Gate, NEW old \in Node,
         NEW new \in Literal
  PROVE  /\ ReplaceInNode(net1, g, old, new) \in Network
         /\ ReplaceInNode(net1, g, old, new).outs = net1.outs
         /\ (/\ HistTypes /\ NetTruth(net1) /\ Same(old, new)
             /\ old \in Fanins(net1, g)) =>
              NetTruth(ReplaceInNode(net1, g, old, new))
<1> DEFINE key == NewFanins(net1, g, old, new)
           kids == [net1.kids EXCEPT ![g] = key]
           hash == Rehashed(net1, g, key)
           refs == [net1.refs EXCEPT ![new.node] = @ + 1]
           fanout == Refanned(net1, g, key)
<1>1. key \in Key
  BY NewFaninsType
<1>2. ReplaceInNode(net1, g, old, new) =
        [kids |-> kids, outs |-> net1.outs, dead |-> net1.dead, hash |-> hash,
         refs |-> refs, fanout |-> fanout]
  <2>1. ReplaceInNode(net1, g, old, new) =
          [net1 EXCEPT !.kids[g] = key, !.hash = hash, !.refs[new.node] = @ + 1,
                       !.fanout = fanout]
    BY Zenon DEF ReplaceInNode
  <2> HIDE DEF key, hash, fanout
  <2> QED BY <2>1 DEF Network
<1> HIDE DEF key
<1>3. kids \in [Gate -> Key]
  BY <1>1 DEF Network
<1>4. hash \in Partial(Key, Gate)
  <2> DEFINE K == (DOMAIN net1.hash \ {net1.kids[g]}) \cup {key}
  <2>1. K \in SUBSET Key
    BY <1>1, PartialFacts DEF Network
  <2>2. \A k \in DOMAIN net1.hash : net1.hash[k] \in Gate
    BY PartialFacts DEF Network
  <2>3. hash \in [K -> Gate]
    BY <2>2 DEF Rehashed
  <2> QED BY <2>1, <2>3, PartialFacts
<1>5. refs \in [Node -> Nat]
  BY DEF Network, Literal
<1>6. fanout \in [Node -> Seq(Gate)]
  <2>1. \A m \in Node : net1.fanout[m] \in Seq(Gate)
    BY DEF Network
  <2>2. \A m \in Node : Sublist(net1.fanout[m], Gate \ {g}) \in Seq(Gate)
    <3> SUFFICES ASSUME NEW m \in Node
                 PROVE  Sublist(net1.fanout[m], Gate \ {g}) \in Seq(Gate)
      OBVIOUS
    <3>1. Sublist(net1.fanout[m], Gate \ {g}) \in Seq(Gate \cap (Gate \ {g}))
      BY <2>1, SublistType
    <3> QED BY <3>1
  <2>3. ASSUME NEW m \in Node, NEW q \in Seq(Gate)
        PROVE  Append(q, g) \in Seq(Gate)
    OBVIOUS
  <2>4. \A m \in Node :
          (IF m \in Fanins(net1, g) THEN Sublist(net1.fanout[m], Gate \ {g})
                                    ELSE net1.fanout[m]) \in Seq(Gate)
    BY <2>1, <2>2, Zenon
  <2> QED BY <2>3, <2>4, Zenon DEF Refanned
<1>7. ReplaceInNode(net1, g, old, new) \in Network
  <2> HIDE DEF kids, hash, refs, fanout
  <2> QED BY <1>2, <1>3, <1>4, <1>5, <1>6 DEF Network
<1>8. ASSUME HistTypes, NetTruth(net1), Same(old, new), old \in Fanins(net1, g)
      PROVE  NetTruth(ReplaceInNode(net1, g, old, new))
  <2>1. AndFunc(func, key) = func[g]
    BY <1>8, NewFaninsSame DEF key, NetTruth
  <2>2. \A h \in Gate : func[h] = AndFunc(func, kids[h])
    BY <1>8, <2>1 DEF NetTruth, Network
  <2>3. \A k \in DOMAIN hash : func[hash[k]] = AndFunc(func, k)
    BY <1>8, <2>1 DEF NetTruth, Rehashed
  <2> HIDE DEF kids, hash
  <2> QED BY <1>2, <1>8, <2>2, <2>3 DEF NetTruth
<1> QED BY <1>2, <1>7, <1>8

(* replace_in_outputs                                                      *)
LEMMA ReplaceInOutputsKeeps ==
  ASSUME NEW net1 \in Network, NEW old \in Node, NEW new \in Literal
  PROVE  /\ ReplaceInOutputs(net1, old, new) \in Network
         /\ DOMAIN ReplaceInOutputs(net1, old, new).outs = DOMAIN net1.outs
         /\ (/\ HistTypes /\ NetTruth(net1) /\ Same(old, new)
             /\ DOMAIN want = DOMAIN net1.outs) =>
              NetTruth(ReplaceInOutputs(net1, old, new))
<1> DEFINE hit == {o \in DOMAIN net1.outs : net1.outs[o].node = old}
           add == IF old = new.node THEN 0 ELSE Cardinality(hit)
           outs == [o \in DOMAIN net1.outs |->
                      IF o \in hit THEN FlipIf(new, net1.outs[o].neg)
                                   ELSE net1.outs[o]]
           refs == [net1.refs EXCEPT ![new.node] = @ + add]
<1>1. CASE old \in net1.dead
  BY <1>1 DEF ReplaceInOutputs
<1>2. CASE old \notin net1.dead
  <2>1. ReplaceInOutputs(net1, old, new) =
          [kids |-> net1.kids, outs |-> outs, dead |-> net1.dead,
           hash |-> net1.hash, refs |-> refs, fanout |-> net1.fanout]
    BY <1>2 DEF ReplaceInOutputs, Network
  <2>2. /\ net1.outs \in Seq(Literal)
        /\ DOMAIN net1.outs = 1 .. Len(net1.outs)
        /\ Len(net1.outs) \in Nat
    BY DEF Network
  <2>3. \A o \in DOMAIN net1.outs :
          net1.outs[o] \in Literal /\ net1.outs[o].neg \in BOOLEAN
    <3>1. \A o \in DOMAIN net1.outs : net1.outs[o] \in Literal
      <4> HIDE DEF outs, refs, hit, add
      <4> QED BY <2>2
    <3> QED BY <3>1 DEF Literal
  <2>4. \A o \in DOMAIN net1.outs : FlipIf(new, net1.outs[o].neg) \in Literal
    BY <2>3, LiteralFacts
  <2>5. outs \in Seq(Literal) /\ DOMAIN outs = DOMAIN net1.outs
    BY <2>2, <2>3, <2>4
  <2>6. refs \in [Node -> Nat]
    <3>1. Cardinality(hit) \in Nat
      BY <2>2, CardinalityNat
    <3>2. add \in Nat
      BY <3>1
    <3> HIDE DEF add
    <3> QED BY <3>2 DEF Network, Literal
  <2>7. ReplaceInOutputs(net1, old, new) \in Network
    <3> HIDE DEF outs, refs
    <3> QED BY <2>1, <2>5, <2>6 DEF Network
  <2>8. ASSUME HistTypes, NetTruth(net1), Same(old, new),
               DOMAIN want = DOMAIN net1.outs
        PROVE  NetTruth(ReplaceInOutputs(net1, old, new))
    <3>1. ASSUME NEW o \in DOMAIN want PROVE want[o] = LitFunc(func, outs[o])
      <4>1. want[o] = LitFunc(func, net1.outs[o])
        BY <2>8, <3>1 DEF NetTruth
      <4>2. CASE o \in hit
        <5>1. net1.outs[o].neg \in BOOLEAN /\ net1.outs[o].node = old
          BY <2>3, <2>8, <3>1, <4>2
        <5>2. LitFunc(func, FlipIf(new, net1.outs[o].neg)) =
                IF net1.outs[o].neg THEN InputVector \ LitFunc(func, new)
                                    ELSE LitFunc(func, new)
          BY <2>8, <5>1, FlipFunc DEF HistTypes
        <5>3. LitFunc(func, net1.outs[o]) =
                IF net1.outs[o].neg THEN InputVector \ func[old] ELSE func[old]
          BY <5>1 DEF LitFunc
        <5>4. outs[o] = FlipIf(new, net1.outs[o].neg)
          BY <2>8, <3>1, <4>2
        <5> QED BY <2>8, <4>1, <5>2, <5>3, <5>4 DEF Same
      <4>3. CASE o \notin hit
        BY <2>8, <3>1, <4>1, <4>3
      <4> QED BY <4>2, <4>3
    <3> HIDE DEF outs, refs
    <3> QED BY <2>1, <2>8, <3>1 DEF NetTruth
  <2> QED BY <2>1, <2>5, <2>7, <2>8
<1> QED BY <1>1, <1>2

(* take_out_node                                                           *)
LEMMA TakeOutNodeKeeps ==
  ASSUME NEW net1 \in Network, NEW n \in Node
  PROVE  /\ TakeOutNode(net1, n) \in Network
         /\ TakeOutNode(net1, n).outs = net1.outs
         /\ NetTruth(net1) => NetTruth(TakeOutNode(net1, n))
<1> DEFINE fall == Falling(net1, n)
           dying == fall.dying
           Gone(m) == {p \in dying : m \in Fanins(net1, p)}
           hash == [k \in DOMAIN net1.hash \ {net1.kids[g] : g \in dying} |->
                      net1.hash[k]]
           fanout == [m \in Node |-> IF m \in dying THEN <<>>
                                     ELSE Sublist(net1.fanout[m], Gate \ Gone(m))]
<1>1. dying \in SUBSET Gate /\ fall.refs \in [Node -> Nat]
  BY FallingType DEF Network
<1>2. TakeOutNode(net1, n) =
        [kids |-> net1.kids, outs |-> net1.outs, dead |-> net1.dead \cup dying,
         hash |-> hash, refs |-> fall.refs, fanout |-> fanout]
  <2>1. TakeOutNode(net1, n) =
          [net1 EXCEPT !.dead = @ \cup dying, !.refs = fall.refs, !.hash = hash,
                       !.fanout = fanout]
    BY Zenon DEF TakeOutNode
  <2> HIDE DEF fall, dying, hash, fanout
  <2> QED BY <2>1 DEF Network
<1>3. hash \in Partial(Key, Gate)
  <2> DEFINE K == DOMAIN net1.hash \ {net1.kids[g] : g \in dying}
  <2>0. DOMAIN net1.hash \in SUBSET Key
    BY PartialFacts DEF Network
  <2>1. K \in SUBSET Key
    BY <2>0
  <2>2. \A k \in DOMAIN net1.hash : net1.hash[k] \in Gate
    BY PartialFacts DEF Network
  <2>3. hash \in [K -> Gate]
    <3> HIDE DEF dying
    <3> QED BY <2>2
  <2> HIDE DEF K, hash
  <2> QED BY <2>1, <2>3, PartialFacts
<1>4. fanout \in [Node -> Seq(Gate)]
  <2>1. ASSUME NEW m \in Node
        PROVE  Sublist(net1.fanout[m], Gate \ Gone(m)) \in Seq(Gate)
    <3>1. net1.fanout[m] \in Seq(Gate)
      BY DEF Network
    <3>2. Sublist(net1.fanout[m], Gate \ Gone(m)) \in Seq(Gate \cap (Gate \ Gone(m)))
      BY <3>1, SublistType
    <3> QED BY <3>2
  <2>2. <<>> \in Seq(Gate)
    OBVIOUS
  <2> HIDE DEF Gone, dying
  <2> QED BY <2>1, <2>2, Zenon
<1>5. \A k \in DOMAIN hash : k \in DOMAIN net1.hash /\ hash[k] = net1.hash[k]
  OBVIOUS
<1> HIDE DEF fall, dying, hash, fanout
<1>6. TakeOutNode(net1, n) \in Network
  BY <1>1, <1>2, <1>3, <1>4 DEF Network
<1> QED BY <1>2, <1>5, <1>6 DEF NetTruth

(* revive_node                                                             *)
LEMMA ReviveNodeKeeps ==
  ASSUME NEW net1 \in Network, NEW n \in Node
  PROVE  /\ ReviveNode(net1, n) \in Network
         /\ ReviveNode(net1, n).outs = net1.outs
         /\ NetTruth(net1) => NetTruth(ReviveNode(net1, n))
<1> DEFINE back == Preorder(net1, <<n>>, Node \ net1.dead)
           alive == ToSet(back)
           Latest(k) == CHOOSE i \in DOMAIN back :
                          /\ net1.kids[back[i]] = k
                          /\ \A j \in DOMAIN back : net1.kids[back[j]] = k => j <= i
           keys == {net1.kids[g] : g \in alive}
           Uses(m) == Sublist(back, {g \in Gate : m \in Fanins(net1, g)})
           hash == [k \in DOMAIN net1.hash \cup keys |->
                      IF k \in keys THEN back[Latest(k)] ELSE net1.hash[k]]
           refs == [m \in Node |-> net1.refs[m] + Len(Uses(m))]
           fanout == [m \in Node |-> net1.fanout[m] \o Uses(m)]
<1>1. back \in Seq(Gate)
  <2>1. back \in Seq(Node \ (Node \ net1.dead))
    <3>1. /\ net1.kids \in [Gate -> Key]
          /\ <<n>> \in Seq(Node)
          /\ Node \ net1.dead \in SUBSET Node
      BY DEF Network
    <3> QED BY <3>1, PreorderType
  <2>2. Node \ (Node \ net1.dead) \subseteq Gate
    BY DEF Network
  <2> HIDE DEF back
  <2> QED BY <2>1, <2>2
<1>2. ReviveNode(net1, n) =
        [kids |-> net1.kids, outs |-> net1.outs, dead |-> net1.dead \ alive,
         hash |-> hash, refs |-> refs, fanout |-> fanout]
  <2>1. ReviveNode(net1, n) =
          [net1 EXCEPT !.dead = @ \ alive, !.hash = hash, !.refs = refs,
                       !.fanout = fanout]
    BY Zenon DEF ReviveNode
  <2> HIDE DEF alive, hash, refs, fanout
  <2> QED BY <2>1 DEF Network
<1> HIDE DEF back
<1>3. alive \in SUBSET Gate /\ DOMAIN back = 1 .. Len(back) /\ Len(back) \in Nat
  BY <1>1 DEF ToSet
<1>4. ASSUME NEW k \in keys
      PROVE  Latest(k) \in DOMAIN back /\ net1.kids[back[Latest(k)]] = k
  <2> DEFINE S == {i \in DOMAIN back : net1.kids[back[i]] = k}
  <2>1. S # {}
    BY <1>4 DEF ToSet
  <2>2. Max(S) \in S /\ \A i \in S : Max(S) >= i
    BY <1>3, <2>1, MaxOfInterval
  <2>3. \A i \in DOMAIN back : i \in Nat
    BY <1>3
  <2>4. \E i \in DOMAIN back :
          /\ net1.kids[back[i]] = k
          /\ \A j \in DOMAIN back : net1.kids[back[j]] = k => j <= i
    BY <2>2, <2>3
  <2> QED BY <2>4
<1>5. \A k \in keys : k \in Key
  BY <1>3 DEF Network
<1>6. hash \in Partial(Key, Gate)
  <2>1. (DOMAIN net1.hash \cup keys) \in SUBSET Key
    BY <1>5, PartialFacts DEF Network
  <2>2. \A k \in DOMAIN net1.hash : net1.hash[k] \in Gate
    BY PartialFacts DEF Network
  <2>3. \A k \in keys : back[Latest(k)] \in Gate
    <3> HIDE DEF keys, Latest
    <3> QED BY <1>1, <1>4
  <2>4. hash \in [DOMAIN net1.hash \cup keys -> Gate]
    <3> HIDE DEF keys, Latest
    <3> QED BY <2>2, <2>3
  <2> HIDE DEF keys, hash
  <2> QED BY <2>1, <2>4, PartialFacts
<1>7. \A m \in Node : Uses(m) \in Seq(Gate)
  <2> SUFFICES ASSUME NEW m \in Node PROVE Uses(m) \in Seq(Gate)
    OBVIOUS
  <2>1. Uses(m) \in Seq(Gate \cap {g \in Gate : m \in Fanins(net1, g)})
    BY <1>1, SublistType
  <2> HIDE DEF Uses
  <2> QED BY <2>1
<1>8. refs \in [Node -> Nat] /\ fanout \in [Node -> Seq(Gate)]
  <2> HIDE DEF Uses
  <2> QED BY <1>7 DEF Network
<1>9. ReviveNode(net1, n) \in Network
  <2> HIDE DEF alive, hash, refs, fanout
  <2> QED BY <1>2, <1>6, <1>8 DEF Network
<1>10. ASSUME NetTruth(net1) PROVE NetTruth(ReviveNode(net1, n))
  <2>1. ASSUME NEW k \in DOMAIN hash PROVE func[hash[k]] = AndFunc(func, k)
    <3>1. CASE k \in keys
      <4>1. hash[k] = back[Latest(k)]
        <5> HIDE DEF keys, Latest
        <5> QED BY <2>1, <3>1
      <4>2. back[Latest(k)] \in Gate /\ net1.kids[back[Latest(k)]] = k
        <5> HIDE DEF keys, Latest
        <5> QED BY <1>1, <1>4, <3>1
      <4> QED BY <1>10, <4>1, <4>2 DEF NetTruth
    <3>2. CASE k \notin keys
      <4>1. k \in DOMAIN net1.hash /\ hash[k] = net1.hash[k]
        <5> HIDE DEF keys, Latest
        <5> QED BY <2>1, <3>2
      <4> QED BY <1>10, <4>1 DEF NetTruth
    <3> QED BY <3>1, <3>2
  <2> HIDE DEF alive, hash, refs, fanout
  <2> QED BY <1>2, <1>10, <2>1 DEF NetTruth
<1> QED BY <1>2, <1>9, <1>10

-----------------------------------------------------------------------------
(***************************************************************************)
(* The queries of the solver.                                              *)
(***************************************************************************)
(* A pattern more, and the classes that are left of it.                    *)
LEMMA RefinedType ==
  ASSUME classes \in Partial(Node, Seq(Node)), NEW t
  PROVE  Refined(t) \in Partial(Node, Seq(Node))
<1> DEFINE Left(k) == Sublist(classes[k], {y \in Node : t[k] = t[y]})
           K == {h \in DOMAIN classes : Left(h) # <<>>}
<1>1. ASSUME NEW k \in K PROVE Left(k) \in Seq(Node)
  <2> DEFINE S == {y \in Node : t[k] = t[y]}
  <2>1. classes[k] \in Seq(Node)
    BY PartialFacts
  <2> HIDE DEF S
  <2>2. Sublist(classes[k], S) \in Seq(Node \cap S)
    BY <2>1, SublistType
  <2>3. Sublist(classes[k], S) \in Seq(Node)
    BY <2>2
  <2> QED BY <2>3 DEF S
<1>2. K \in SUBSET Node
  BY PartialFacts
<1>3. Refined(t) = [k \in K |-> Left(k)]
  BY DEF Refined
<1> HIDE DEF K, Left
<1>4. Refined(t) \in [K -> Seq(Node)]
  BY <1>1, <1>3
<1> QED BY <1>2, <1>4, PartialFacts

(* What is simulated again are the nodes that lag, those of S among them.  *)
LEMMA LaggingConeHolds ==
  ASSUME NEW t, NEW ps, NEW S
  PROVE  /\ S \cap Lagging(t, ps) \subseteq LaggingCone(t, ps, S)
         /\ LaggingCone(t, ps, S) \subseteq Lagging(t, ps)
<1> DEFINE n == NumGates
           L == Lagging(t, ps)
           R == S \cap L
           D == {C \in SUBSET L : R \subseteq C}
           Grow(C) == C \cup (L \cap UNION {Fanins(net, m) : m \in C})
           F == [p \in D \X (1 .. n) |-> Grow(p[1])]
           Eq(h) == h = [s \in SUBSET (1 .. n) |->
                           IF s = {} THEN R ELSE Grow(h[s \ {Max(s)}])]
           h == CHOOSE g : Eq(g)
<1>1. n \in Nat /\ R \in D
  <2> HIDE DEF L
  <2> QED BY NodeFacts
<1>2. ASSUME NEW C \in D PROVE Grow(C) \in D
  <2> HIDE DEF L, R
  <2> QED OBVIOUS
<1>3. F \in [D \X (1 .. n) -> D]
  <2> HIDE DEF D, n, Grow
  <2> QED BY <1>2
<1>4. PICK g \in [SUBSET (1 .. n) -> D] : FoldEquation(g, n, F, R)
  <2> HIDE DEF D, F, n, R
  <2> QED BY <1>1, <1>3, FoldExists
<1>5. Eq(g)
  <2> HIDE DEF D, n, Grow, R
  <2> SUFFICES ASSUME NEW s \in SUBSET (1 .. n)
               PROVE  g[s] = IF s = {} THEN R ELSE Grow(g[s \ {Max(s)}])
    BY <1>4
  <2>1. CASE s = {}
    BY <1>4, <2>1 DEF FoldEquation
  <2>2. CASE s # {}
    <3>1. Max(s) \in 1 .. n
      BY <1>1, <2>2, MaxOfInterval
    <3>2. g[s \ {Max(s)}] \in D
      BY <1>4
    <3> QED BY <1>4, <2>2, <3>1, <3>2 DEF FoldEquation
  <2> QED BY <2>1, <2>2
<1>6. Eq(h)
  <2> HIDE DEF Eq
  <2> QED BY <1>5
<1>7. LaggingCone(t, ps, S) = h[1 .. n]
  BY <1>1 DEF LaggingCone, FoldLeft, MapThenFoldSet
<1> HIDE DEF h, D, n, Grow, R
<1>8. \A s \in SUBSET (1 .. n) : h[s] \in D
  <2>1. h[{}] \in D
    BY <1>1, <1>6
  <2>2. ASSUME NEW s \in SUBSET (1 .. n), s # {}, h[s \ {Max(s)}] \in D
        PROVE  h[s] \in D
    BY <1>2, <1>6, <2>2
  <2> QED BY <1>1, <2>1, <2>2, FoldRange
<1>9. h[1 .. n] \in D
  BY <1>8
<1> QED BY <1>7, <1>9 DEF D, R

(* The new table of a node.                                                *)
LEMMA ResimulatedFacts ==
  ASSUME NEW t \in [Node -> Seq(BOOLEAN)], NEW ps \in Seq(InputVector),
         NEW n \in Node
  PROVE  LET u == Resimulated(t, ps, n)
         IN  /\ u \in Seq(BOOLEAN) /\ Len(u) = Len(ps)
             /\ \A i \in 1 .. Len(ps) :
                  u[i] <=> IF InLastBlock(i, Len(ps)) THEN ps[i] \in func[n]
                           ELSE i <= Len(t[n]) /\ t[n][i]
<1> DEFINE V(i) == IF InLastBlock(i, Len(ps)) THEN ps[i] \in func[n]
                   ELSE i <= Len(t[n]) /\ t[n][i]
           u == [i \in 1 .. Len(ps) |-> V(i)]
<1>1. Resimulated(t, ps, n) = u
  BY DEF Resimulated
<1>2. ASSUME NEW i \in 1 .. Len(ps) PROVE V(i) \in BOOLEAN
  <2>1. CASE InLastBlock(i, Len(ps))
    BY <2>1
  <2>2. CASE ~InLastBlock(i, Len(ps))
    BY <2>2
  <2> QED BY <2>1, <2>2
<1>3. Len(ps) \in Nat
  OBVIOUS
<1> HIDE DEF V
<1>4. u \in Seq(BOOLEAN) /\ Len(u) = Len(ps)
  BY <1>2, <1>3
<1>5. \A i \in 1 .. Len(ps) : u[i] = V(i)
  BY Zenon
<1> HIDE DEF u
<1>6. \A i \in 1 .. Len(ps) :
        u[i] <=> IF InLastBlock(i, Len(ps)) THEN ps[i] \in func[n]
                 ELSE i <= Len(t[n]) /\ t[n][i]
  BY <1>5 DEF V
<1> QED BY <1>1, <1>4, <1>6, Zenon

(* The tables after a simulation of S, whose nodes catch up.               *)
LEMMA SimulatedFits ==
  ASSUME NEW ps \in Seq(InputVector), NEW t, Fits(t, ps), NEW S
  PROVE  /\ Fits(Simulated(t, ps, S), ps)
         /\ \A n \in Node \cap S : Len(Simulated(t, ps, S)[n]) = Len(ps)
         /\ \A n \in Node : Len(t[n]) = Len(ps) => Simulated(t, ps, S)[n] = t[n]
<1> DEFINE C == LaggingCone(t, ps, S)
           u == Simulated(t, ps, S)
<1>1. t \in [Node -> Seq(BOOLEAN)] /\ Len(ps) \in Nat
  BY DEF Fits
<1>2. \A n \in Node : u[n] = IF n \in C THEN Resimulated(t, ps, n) ELSE t[n]
  BY DEF Simulated
<1>3. \A n \in Node : /\ Resimulated(t, ps, n) \in Seq(BOOLEAN)
                      /\ Len(Resimulated(t, ps, n)) = Len(ps)
  BY <1>1, ResimulatedFacts
<1>4. /\ S \cap Lagging(t, ps) \subseteq C
      /\ \A n \in C : Len(t[n]) # Len(ps)
  BY LaggingConeHolds DEF Lagging
<1>5. \A n \in Node \cap S : n \in C \/ Len(t[n]) = Len(ps)
  BY <1>4 DEF Lagging
<1>6. u = [n \in Node |-> u[n]]
  BY DEF Simulated
<1> HIDE DEF C, u
<1>7. \A n \in Node : u[n] \in Seq(BOOLEAN) /\ Len(u[n]) <= Len(ps)
  BY <1>1, <1>2, <1>3 DEF Fits
<1>8. Fits(u, ps)
  BY <1>6, <1>7 DEF Fits
<1>9. \A n \in Node \cap S : Len(u[n]) = Len(ps)
  BY <1>2, <1>3, <1>5
<1>10. \A n \in Node : Len(t[n]) = Len(ps) => u[n] = t[n]
  BY <1>2, <1>4
<1> QED BY <1>8, <1>9, <1>10 DEF u

(* check_tts leaves the node simulated on all patterns.                    *)
LEMMA CheckTtsType ==
  ASSUME AlgoTypes, NEW n \in Node
  PROVE  /\ Fits(CheckTts(n), pats)
         /\ Len(CheckTts(n)[n]) = Len(pats)
         /\ \A m \in Node : Len(tts[m]) = Len(pats) => CheckTts(n)[m] = tts[m]
<1>1. pats \in Seq(InputVector) /\ Fits(tts, pats) /\ n \in Node \cap {n}
  BY DEF AlgoTypes
<1> DEFINE S == {n}
<1>2. n \in Node \cap S
  OBVIOUS
<1>3. CheckTts(n) = Simulated(tts, pats, S)
  BY DEF CheckTts
<1> HIDE DEF S
<1> QED BY <1>1, <1>2, <1>3, SimulatedFits

(* What a query leaves behind: types, and only true equalities.            *)
Answered ==
  /\ pats' \in Seq(InputVector)
  /\ Fits(tts', pats')
  /\ classes' \in Partial(Node, Seq(Node))
  /\ stale' \in BOOLEAN
  /\ SubstTypes'
  /\ net' = net
  /\ TruthInv'

(* A counter-example: found_cex.                                           *)
LEMMA FoundCexAnswers ==
  ASSUME TypeInv, TruthInv, UNCHANGED hist, NEW a \in InputVector,
         NEW t, Fits(t, pats), NEW S \in SUBSET Node, FoundCex(a, t, S)
  PROVE  /\ Answered
         /\ \A n \in S : Len(tts'[n]) = Len(pats')
<1> DEFINE ps == Append(pats, a)
           sim == Simulated(t, ps, AliveNodes)
<1>1. /\ pats \in Seq(InputVector) /\ Len(pats) \in Nat
      /\ classes \in Partial(Node, Seq(Node))
  BY DEF TypeInv, AlgoTypes
<1>2. ps \in Seq(InputVector) /\ Len(ps) = Len(pats) + 1
  BY <1>1
<1>3. /\ pats' = ps
      /\ classes' = Refined(sim)
      /\ tts' = Simulated(sim, ps, S)
      /\ stale' = TRUE
      /\ UNCHANGED subst
  BY DEF FoundCex
<1> HIDE DEF ps
<1>4. Fits(t, ps)
  <2>1. \A n \in Node : Len(t[n]) \in Nat
    BY DEF Fits
  <2> QED BY <1>1, <1>2, <2>1 DEF Fits
<1>5. Fits(sim, ps)
  BY <1>2, <1>4, SimulatedFits
<1> HIDE DEF sim
<1>6. /\ Fits(tts', ps)
      /\ \A n \in S : Len(tts'[n]) = Len(ps)
  BY <1>2, <1>3, <1>5, SimulatedFits
<1>7. classes' \in Partial(Node, Seq(Node))
  BY <1>1, <1>3, RefinedType
<1>8. SubstTypes' /\ TruthInv' /\ net' = net
  BY <1>3 DEF TypeInv, SubstTypes, TruthInv, NetTruth, Same, AndFunc, LitFunc,
              subst, hist
<1> QED BY <1>2, <1>3, <1>6, <1>7, <1>8 DEF Answered

(* validator.validate                                                      *)
LEMMA ValidateAnswers ==
  ASSUME TypeInv, TruthInv, UNCHANGED hist, NEW root \in Node,
         NEW g \in Literal, NEW t, Fits(t, pats),
         NEW S \in SUBSET Node, NEW proved \in BOOLEAN,
         Validate(root, g, t, S, proved)
  PROVE  /\ Answered
         /\ \A n \in S : Len(t[n]) = Len(pats) => Len(tts'[n]) = Len(pats')
<1> USE DEF TypeInv
<1>1. func \in [Node -> SUBSET InputVector] /\ LitFunc(func, g) \subseteq InputVector
  BY FlipFunc DEF HistTypes
<1>2. CASE tts' = t /\ UNCHANGED <<pats, classes, stale, subst>>
  <2>1. SubstTypes' /\ TruthInv' /\ net' = net
    BY <1>2 DEF SubstTypes, TruthInv, NetTruth, Same, AndFunc, LitFunc, subst, hist
  <2> QED BY <1>2, <2>1 DEF Answered, AlgoTypes
<1>3. CASE \E a \in (func[root] \ LitFunc(func, g)) \cup (LitFunc(func, g) \ func[root]) :
             FoundCex(a, t, S)
  <2>1. PICK a \in InputVector : FoundCex(a, t, S)
    BY <1>1, <1>3
  <2> QED BY <2>1, FoundCexAnswers
<1>4. CASE /\ func[root] = LitFunc(func, g)
           /\ tts' = t
           /\ BeginSubstitution(root, g)
           /\ UNCHANGED <<pats, classes, stale>>
  <2>1. /\ todo' = <<[old |-> root, new |-> g, follow |-> FALSE]>>
        /\ moved' = <<>>
        /\ UNCHANGED <<net, job>>
    BY <1>4 DEF BeginSubstitution
  <2>2. todo' \in Seq(Entry)
    BY <2>1 DEF Entry
  <2>3. moved' \in Partial(Node, Literal)
    <3>1. moved' \in [{} -> Literal]
      BY <2>1
    <3> QED BY <3>1, PartialFacts
  <2>4. SubstTypes'
    BY <2>1, <2>2, <2>3 DEF SubstTypes
  <2>5. /\ func' = func /\ want' = want
    BY DEF hist
  <2>6. NetTruth(net)' /\ (job.on => Same(job.old, job.new))'
    BY <2>1, <2>5 DEF TruthInv, NetTruth, Same, AndFunc, LitFunc
  <2>7. (\A i \in DOMAIN todo : Same(todo[i].old, todo[i].new))'
    <3> DEFINE e == [old |-> root, new |-> g, follow |-> FALSE]
    <3>1. \A i \in DOMAIN todo' : todo'[i] = e
      <4>1. todo' = <<e>>
        BY <2>1
      <4> HIDE DEF e
      <4> QED BY <4>1
    <3>2. \A i \in DOMAIN todo' : todo'[i].old = root /\ todo'[i].new = g
      BY <3>1
    <3>3. func'[root] = LitFunc(func', g)
      BY <1>4, <2>5
    <3> QED BY <3>2, <3>3, Zenon DEF Same
  <2>8. (\A n \in DOMAIN moved : Same(n, moved[n]))'
    BY <2>1
  <2>9. TruthInv'
    BY <2>6, <2>7, <2>8 DEF TruthInv
  <2> QED BY <1>4, <2>1, <2>4, <2>9 DEF Answered, AlgoTypes
<1> QED BY <1>2, <1>3, <1>4 DEF Validate

(* try_node                                                                *)
LEMMA TryNodeAnswers ==
  ASSUME TypeInv, TruthInv, UNCHANGED hist, NEW root \in Node, NEW n \in Node,
         NEW t, Fits(t, pats), NEW keep \in BOOLEAN,
         TryNode(root, n, t, keep)
  PROVE  /\ Answered
         /\ Len(t[root]) = Len(pats) => Len(tts'[root]) = Len(pats')
<1> DEFINE r == t[root]
           s == t[n]
<1>1. CASE tts' = t /\ UNCHANGED <<pats, classes, stale, subst>>
  <2>1. SubstTypes' /\ TruthInv' /\ net' = net
    BY <1>1 DEF TypeInv, SubstTypes, TruthInv, NetTruth, Same, AndFunc, LitFunc,
                subst, hist
  <2> QED BY <1>1, <2>1 DEF Answered, TypeInv, AlgoTypes
<1>2. CASE Validate(root, FlipIf(Lit(n), r # s), t, {root}, ~keep)
  <2>1. FlipIf(Lit(n), r # s) \in Literal
    BY LiteralFacts
  <2>2. {root} \in SUBSET Node /\ (~keep) \in BOOLEAN
    OBVIOUS
  <2> HIDE DEF r, s
  <2>3. PICK g \in Literal, S \in SUBSET Node, proved \in BOOLEAN :
          S = {root} /\ Validate(root, g, t, S, proved)
    BY <1>2, <2>1, <2>2
  <2>4. Answered /\ \A m \in S : Len(t[m]) = Len(pats) => Len(tts'[m]) = Len(pats')
    BY <2>3, ValidateAnswers
  <2> QED BY <2>3, <2>4
<1> QED BY <1>1, <1>2 DEF TryNode

-----------------------------------------------------------------------------
(***************************************************************************)
(* The inductive invariant.                                                *)
(***************************************************************************)
Invariant == TypeInv /\ TruthInv /\ SimInv

(* The network a run is given satisfies it.                                *)
LEMMA InvariantInit == Init => Invariant
<1> SUFFICES ASSUME Init PROVE Invariant
  OBVIOUS
<1>1. PICK d \in Designs :
        LET f == FunctionsOf(d.kids)
        IN  /\ phase = "select"
            /\ net = Created(d.kids, d.outs)
            /\ todo = <<>>
            /\ moved = <<>>
            /\ job = NoJob
            /\ pats = d.pats
            /\ tts = [n \in Node |-> <<>>]
            /\ const0 = <<>>
            /\ file = d.classes
            /\ classes = <<>>
            /\ cursor = -1
            /\ stale = FALSE
            /\ kept = TRUE
            /\ walk = NoWalk
            /\ members = <<>>
            /\ func = f
            /\ want = [o \in DOMAIN d.outs |-> LitFunc(f, d.outs[o])]
  BY DEF Init
<1>2. IsDesign(d)
  BY DesignsAssumption
<1>3. /\ func \in [Node -> SUBSET InputVector]
      /\ func[0] = {}
      /\ \A g \in Gate : func[g] = AndFunc(func, d.kids[g])
  BY <1>1, <1>2, FunctionsOfNetwork
<1>4. net \in Network
  BY <1>1, <1>2, CreatedType
<1>5. /\ net.kids = d.kids /\ net.outs = d.outs
      /\ net.hash = [k \in {d.kids[g] : g \in Gate} |->
                       CHOOSE g \in Gate : d.kids[g] = k]
  BY <1>1 DEF Created
<1>6. d.outs \in Seq(Literal) /\ want = [o \in DOMAIN d.outs |-> LitFunc(func, d.outs[o])]
  BY <1>1, <1>2 DEF IsDesign
<1>7. \A o \in DOMAIN d.outs : d.outs[o] \in Literal
  BY <1>6
<1>8. \A o \in DOMAIN d.outs : LitFunc(func, d.outs[o]) \in SUBSET InputVector
  BY <1>3, <1>7, FlipFunc
<1>9. HistTypes
  BY <1>3, <1>5, <1>6, <1>8 DEF HistTypes
<1>10. AlgoTypes
  <2>1. /\ pats \in Seq(InputVector) /\ Len(pats) \in Nat
        /\ d.classes \in Partial(Node, Seq(Node))
    <3>1. d.pats \in Seq(InputVector) /\ DOMAIN d.classes \in SUBSET Node
      BY <1>2 DEF IsDesign
    <3>2. d.classes \in [DOMAIN d.classes -> Seq(Node)]
      BY <1>2 DEF IsDesign
    <3>3. d.classes \in Partial(Node, Seq(Node))
      BY <3>1, <3>2, PartialFacts
    <3> QED BY <1>1, <3>1, <3>3
  <2>2. <<>> \in Partial(Node, Seq(Node))
    <3>1. <<>> \in [{} -> Seq(Node)]
      OBVIOUS
    <3> QED BY <3>1, PartialFacts
  <2>3. Fits(tts, pats)
    BY <1>1, <2>1 DEF Fits
  <2>4. walk \in Walk
    BY <1>1, NodeFacts DEF NoWalk, Walk
  <2>5. <<>> \in Seq(Gate) /\ <<>> \in Seq(Node)
    OBVIOUS
  <2>6. /\ phase = "select" /\ const0 = <<>> /\ file = d.classes /\ classes = <<>>
        /\ stale = FALSE /\ kept = TRUE /\ members = <<>>
    BY <1>1
  <2> QED BY <2>1, <2>2, <2>3, <2>4, <2>5, <2>6 DEF AlgoTypes
<1>11. SubstTypes
  <2>1. <<>> \in Partial(Node, Literal)
    <3>1. <<>> \in [{} -> Literal]
      OBVIOUS
    <3> QED BY <3>1, PartialFacts
  <2>2. job \in Job
    BY <1>1, NoJobType
  <2> QED BY <1>1, <1>4, <2>1, <2>2 DEF SubstTypes
<1>12. TruthInv
  <2>1. ASSUME NEW k \in DOMAIN net.hash
        PROVE  func[net.hash[k]] = AndFunc(func, k)
    <3>1. PICK g \in Gate : d.kids[g] = k
      BY <1>5, <2>1
    <3>2. net.hash[k] = CHOOSE h \in Gate : d.kids[h] = k
      BY <1>5, <2>1
    <3>3. net.hash[k] \in Gate /\ d.kids[net.hash[k]] = k
      BY <3>1, <3>2
    <3> QED BY <1>3, <3>3
  <2>2. NetTruth(net)
    BY <1>3, <1>5, <1>6, <2>1 DEF NetTruth
  <2>3. todo = <<>> /\ moved = <<>> /\ job.on = FALSE
    BY <1>1 DEF NoJob
  <2> QED BY <2>2, <2>3 DEF TruthInv
<1>13. SimInv
  BY <1>1 DEF SimInv
<1> QED BY <1>9, <1>10, <1>11, <1>12, <1>13 DEF Invariant, TypeInv

(* Steps that leave the network and the substitution alone.                *)
LEMMA SubstUntouched ==
  ASSUME TypeInv, TruthInv, UNCHANGED <<subst, hist>>
  PROVE  SubstTypes' /\ HistTypes' /\ TruthInv'
  BY DEF TypeInv, SubstTypes, HistTypes, TruthInv, NetTruth, Same, AndFunc,
         LitFunc, subst, hist

(* Steps of the substitution leave the rest alone.                         *)
LEMMA AlgoUntouched ==
  ASSUME TypeInv, SimInv, UNCHANGED <<algo, hist>>,
         DOMAIN net'.outs = DOMAIN net.outs
  PROVE  AlgoTypes' /\ HistTypes' /\ SimInv' /\ func' = func /\ want' = want
  BY DEF TypeInv, AlgoTypes, HistTypes, SimInv, algo, hist

(* What an answered query leaves, with the function of each node.          *)
LEMMA AnsweredKeeps ==
  ASSUME TypeInv, Answered, UNCHANGED hist
  PROVE  SubstTypes' /\ HistTypes' /\ TruthInv'
  BY DEF Answered, TypeInv, HistTypes, hist

(* The walk that is started is one over nodes.                             *)
LEMMA StartWalkType ==
  ASSUME net \in Network, NEW root \in Node, NEW member \in BOOLEAN
  PROVE  StartWalk(root, member) \in Walk /\ StartWalk(root, member).root = root
<1>1. WalkOrder(root) \in Seq(Node)
  <2>1. CASE root \notin Gate
    BY <2>1 DEF WalkOrder
  <2>2. CASE root \in Gate
    <3> DEFINE f == FaninSeq(net, root)
               below1 == Preorder(net, <<f[1]>>, {root})
               met == {root, f[2]} \cup ToSet(below1)
               below2 == Preorder(net, FaninSeq(net, f[2]), met)
    <3>1. net.kids \in [Gate -> Key]
      BY DEF Network
    <3>2. f[1] \in Node /\ f[2] \in Node
      BY <2>2, <3>1 DEF FaninSeq, Key, Literal
    <3>3. <<f[1]>> \in Seq(Node) /\ FaninSeq(net, f[2]) \in Seq(Node)
      <4>1. FaninSeq(net, f[2]) \in Seq(Node)
        BY <3>1, FaninTypes
      <4> HIDE DEF f
      <4> QED BY <3>2, <4>1
    <3> HIDE DEF f
    <3>4. below1 \in Seq(Node \ {root})
      <4>1. {root} \in SUBSET Node
        OBVIOUS
      <4> QED BY <3>1, <3>3, <4>1, PreorderType
    <3>5. below1 \in Seq(Node)
      <4> HIDE DEF below1
      <4> QED BY <3>4
    <3>6. met \in SUBSET Node
      <4> HIDE DEF below1
      <4> QED BY <3>2, <3>5 DEF ToSet
    <3> HIDE DEF below1, met
    <3>7. below2 \in Seq(Node \ met)
      BY <3>1, <3>3, <3>6, PreorderType
    <3>8. below2 \in Seq(Node)
      <4> HIDE DEF below2
      <4> QED BY <3>7
    <3> HIDE DEF below2
    <3>9. WalkOrder(root) = below1 \o <<f[2]>> \o below2
      BY <2>2 DEF WalkOrder, f, below1, met, below2
    <3> QED BY <3>2, <3>5, <3>8, <3>9
  <2> QED BY <2>1, <2>2
<1>2. NoWalk \in Walk
  BY NodeFacts DEF NoWalk, Walk
<1> QED BY <1>1, <1>2 DEF StartWalk, Walk

(***************************************************************************)
(* The steps that try nothing.                                             *)
(***************************************************************************)
(* The selection of the gates that simulate to 0.                          *)
LEMMA SelectConstantsStep ==
  ASSUME Invariant, SelectConstants
  PROVE  Invariant'
<1>1. /\ tts' = [n \in Node |-> Values(pats, n)]
      /\ phase' = "consts"
      /\ UNCHANGED <<pats, file, classes, cursor, stale, kept, walk, members>>
      /\ UNCHANGED <<subst, hist>>
  BY DEF SelectConstants
<1>2. const0' \in Seq(Gate)
  <2> DEFINE zeros == {g \in Gate : \A h \in Gate : h <= g =>
                         Flat([n \in Node |-> Values(pats, n)], h, FALSE)}
  <2>1. zeros \in SUBSET (NumPis + 1 .. NumPis + NumGates)
    BY DEF Gate
  <2>2. const0' = [i \in 1 .. Cardinality(zeros) |-> NumPis + i]
    BY DEF SelectConstants
  <2> HIDE DEF zeros
  <2>3. NumPis \in Nat /\ NumGates \in Nat
    BY SizesAssumption
  <2>4. Cardinality(NumPis + 1 .. NumPis + NumGates) = NumGates
    BY <2>3, FS_Interval
  <2>5. Cardinality(zeros) \in Nat /\ Cardinality(zeros) <= NumGates
    BY <2>1, <2>3, <2>4, CardinalityNat
  <2>6. \A i \in 1 .. Cardinality(zeros) : NumPis + i \in Gate
    BY <2>3, <2>5 DEF Gate
  <2> QED BY <2>2, <2>5, <2>6
<1>3. AlgoTypes'
  <2>1. pats \in Seq(InputVector)
    BY DEF Invariant, TypeInv, AlgoTypes
  <2>2. ASSUME NEW n \in Node
        PROVE  Values(pats, n) \in Seq(BOOLEAN) /\ Len(Values(pats, n)) <= Len(pats)
    BY <2>1 DEF Values
  <2>3. Fits(tts, pats)'
    BY <1>1, <2>2 DEF Fits
  <2> QED BY <1>1, <1>2, <2>3 DEF Invariant, TypeInv, AlgoTypes
<1>4. SubstTypes' /\ HistTypes' /\ TruthInv'
  BY <1>1, SubstUntouched DEF Invariant
<1>5. SimInv'
  BY <1>1 DEF SimInv
<1> QED BY <1>3, <1>4, <1>5 DEF Invariant, TypeInv

(* The walk of the key of a class is started on a root that is simulated.   *)
LEMMA NextKeyStep ==
  ASSUME Invariant, NextKey
  PROVE  Invariant'
<1>1. PICK k \in DOMAIN classes :
        /\ members' = classes[k]
        /\ tts' = CheckTts(k)
        /\ walk' = StartWalk(k, FALSE)
  BY DEF NextKey
<1>2. /\ stale' = FALSE
      /\ kept' = TRUE
      /\ phase' = "fanins"
      /\ UNCHANGED <<pats, const0, file, classes>>
      /\ UNCHANGED <<subst, hist>>
  BY DEF NextKey
<1>3. AlgoTypes /\ net \in Network
  BY DEF Invariant, TypeInv, SubstTypes
<1>4. k \in Node /\ classes[k] \in Seq(Node)
  BY <1>3, PartialFacts DEF AlgoTypes
<1>5. Fits(tts', pats) /\ Len(tts'[k]) = Len(pats)
  BY <1>1, <1>3, <1>4, CheckTtsType
<1>6. walk' \in Walk /\ walk'.root = k
  BY <1>1, <1>3, <1>4, StartWalkType
<1>7. AlgoTypes'
  BY <1>1, <1>2, <1>3, <1>4, <1>5, <1>6 DEF AlgoTypes
<1>8. SubstTypes' /\ HistTypes' /\ TruthInv'
  BY <1>2, SubstUntouched DEF Invariant
<1>9. SimInv'
  BY <1>2, <1>5, <1>6 DEF SimInv
<1> QED BY <1>7, <1>8, <1>9 DEF Invariant, TypeInv

(* So is the walk of a member.                                             *)
LEMMA NextMemberStep ==
  ASSUME Invariant, NextMember
  PROVE  Invariant'
<1> DEFINE n == Head(members)
<1>1. /\ members # <<>>
      /\ members' = Tail(members)
      /\ tts' = CheckTts(n)
      /\ walk' = StartWalk(n, TRUE)
      /\ phase' = "fanins"
      /\ UNCHANGED <<pats, const0, file, classes, stale, kept>>
      /\ UNCHANGED <<subst, hist>>
  BY DEF NextMember
<1>2. AlgoTypes /\ net \in Network
  BY DEF Invariant, TypeInv, SubstTypes
<1>3. n \in Node /\ members' \in Seq(Node)
  BY <1>1, <1>2 DEF AlgoTypes
<1> HIDE DEF n
<1>4. Fits(tts', pats) /\ Len(tts'[n]) = Len(pats)
  BY <1>1, <1>2, <1>3, CheckTtsType
<1>5. walk' \in Walk /\ walk'.root = n
  BY <1>1, <1>2, <1>3, StartWalkType
<1>6. AlgoTypes'
  BY <1>1, <1>2, <1>3, <1>4, <1>5 DEF AlgoTypes
<1>7. SubstTypes' /\ HistTypes' /\ TruthInv'
  BY <1>1, SubstUntouched DEF Invariant
<1>8. SimInv'
  BY <1>1, <1>4, <1>5 DEF SimInv
<1> QED BY <1>6, <1>7, <1>8 DEF Invariant, TypeInv

(* The steps that query nothing and substitute nothing.                    *)
LEMMA QuietStep ==
  ASSUME Invariant,
         LoadClasses \/ EndFanins \/ NextNode \/ EndFanouts \/ EndClass
           \/ EndClasses \/ Returned \/ UNCHANGED vars
  PROVE  Invariant'
<1> USE DEF Invariant, TypeInv
<1>1. UNCHANGED <<subst, hist>>
  BY DEF LoadClasses, EndFanins, NextNode, EndFanouts, EndClass, EndClasses,
         Returned, vars
<1>2. SubstTypes' /\ HistTypes' /\ TruthInv'
  BY <1>1, SubstUntouched
<1>3. CASE LoadClasses
  <2>1. AlgoTypes'
    BY <1>3 DEF LoadClasses, AlgoTypes
  <2>2. SimInv'
    BY <1>3 DEF LoadClasses, SimInv
  <2> QED BY <1>2, <2>1, <2>2
<1>4. CASE EndFanins
  <2>1. AlgoTypes'
    BY <1>4 DEF EndFanins, AlgoTypes
  <2>2. SimInv'
    BY <1>4 DEF EndFanins, SimInv
  <2> QED BY <1>2, <2>1, <2>2
<1>5. CASE NextNode
  <2>1. walk' = [walk EXCEPT !.j = @ + 1, !.k = 1]
    BY <1>5 DEF NextNode
  <2>2. walk \in Walk
    BY DEF AlgoTypes
  <2>3. walk' \in Walk /\ walk'.root = walk.root
    <3>1. walk.j + 1 \in Nat \ {0} /\ 1 \in Nat \ {0}
      BY <2>2 DEF Walk
    <3>2. walk' = [root |-> walk.root, items |-> walk.items, tfi |-> walk.tfi,
                   j |-> walk.j + 1, k |-> 1, keep |-> walk.keep,
                   member |-> walk.member]
      BY <2>1, <2>2 DEF Walk
    <3> QED BY <2>2, <3>1, <3>2 DEF Walk
  <2>4. AlgoTypes'
    BY <1>5, <2>3 DEF NextNode, AlgoTypes
  <2>5. SimInv'
    BY <1>5, <2>3 DEF NextNode, SimInv
  <2> QED BY <1>2, <2>4, <2>5
<1>6. CASE EndFanouts
  <2>1. AlgoTypes'
    BY <1>6 DEF EndFanouts, AlgoTypes
  <2>2. SimInv'
    BY <1>6 DEF EndFanouts, SimInv
  <2> QED BY <1>2, <2>1, <2>2
<1>7. CASE EndClass
  <2>1. NoWalk \in Walk
    BY NodeFacts DEF NoWalk, Walk
  <2>2. AlgoTypes'
    BY <1>7, <2>1 DEF EndClass, AlgoTypes
  <2>3. SimInv'
    BY <1>7 DEF EndClass, SimInv
  <2> QED BY <1>2, <2>2, <2>3
<1>8. CASE EndClasses
  <2>1. AlgoTypes'
    BY <1>8 DEF EndClasses, AlgoTypes
  <2>2. SimInv'
    BY <1>8 DEF EndClasses, SimInv
  <2> QED BY <1>2, <2>1, <2>2
<1>9. CASE Returned \/ UNCHANGED vars
  <2>1. AlgoTypes'
    BY <1>9 DEF Returned, vars, algo, AlgoTypes
  <2>2. SimInv'
    BY <1>9 DEF Returned, vars, algo, SimInv
  <2> QED BY <1>2, <2>1, <2>2
<1> QED BY <1>3, <1>4, <1>5, <1>6, <1>7, <1>8, <1>9

(***************************************************************************)
(* The steps that ask the solver.                                          *)
(***************************************************************************)
(* A gate that looks constant is handed to the solver.                     *)
LEMMA TryConstantStep ==
  ASSUME Invariant, TryConstant
  PROVE  Invariant'
<1> DEFINE n == Head(const0)
           t == CheckTts(n)
<1>1. /\ const0 # <<>>
      /\ const0' = Tail(const0)
      /\ phase = "consts"
      /\ UNCHANGED <<phase, file, kept, walk, members>>
      /\ UNCHANGED hist
  BY DEF TryConstant
<1>2. TypeInv /\ TruthInv /\ AlgoTypes /\ net \in Network
  BY DEF Invariant, TypeInv, SubstTypes
<1>3. n \in Node /\ const0' \in Seq(Gate)
  <2>1. n \in Gate /\ const0' \in Seq(Gate)
    BY <1>1, <1>2 DEF AlgoTypes
  <2> HIDE DEF n
  <2> QED BY <2>1, NodeFacts
<1> HIDE DEF n
<1>4. Fits(t, pats)
  BY <1>2, <1>3, CheckTtsType
<1>5. Answered
  <2>1. CASE tts' = t /\ UNCHANGED <<pats, classes, stale, subst>>
    <3>1. SubstTypes' /\ TruthInv'
      BY <1>1, <1>2, <2>1, SubstUntouched
    <3> QED BY <1>2, <1>4, <2>1, <3>1 DEF Answered, AlgoTypes, subst
  <2>2. CASE \E v \in BOOLEAN, proved \in BOOLEAN :
               Validate(n, Constant(v), t, {}, proved)
    <3>1. PICK v \in BOOLEAN, proved \in BOOLEAN :
            Validate(n, Constant(v), t, {}, proved)
      BY <2>2
    <3>2. Constant(v) \in Literal /\ {} \in SUBSET Node
      BY LiteralFacts
    <3> HIDE DEF t
    <3> QED BY <1>1, <1>2, <1>3, <1>4, <3>1, <3>2, ValidateAnswers
  <2> QED BY <2>1, <2>2 DEF TryConstant, n
<1>6. SubstTypes' /\ HistTypes' /\ TruthInv'
  BY <1>1, <1>2, <1>5, AnsweredKeeps
<1>7. AlgoTypes'
  BY <1>1, <1>2, <1>3, <1>5 DEF Answered, AlgoTypes
<1>8. SimInv'
  BY <1>1 DEF SimInv
<1> QED BY <1>6, <1>7, <1>8 DEF Invariant, TypeInv

(* A node of the cone is compared with the root.                           *)
LEMMA TryFaninStep ==
  ASSUME Invariant, TryFanin
  PROVE  Invariant'
<1> DEFINE n == Head(walk.items)
           tfi == Append(walk.tfi, n)
<1>1. /\ phase = "fanins"
      /\ walk.items # <<>>
      /\ UNCHANGED <<phase, const0, file, members>>
      /\ UNCHANGED hist
  BY DEF TryFanin
<1>2. TypeInv /\ TruthInv /\ AlgoTypes /\ net \in Network /\ walk \in Walk
  BY DEF Invariant, TypeInv, SubstTypes, AlgoTypes
<1>3. n \in Node /\ Tail(walk.items) \in Seq(Node) /\ walk.root \in Node
      /\ walk.tfi \in Seq(Node)
  BY <1>1, <1>2 DEF Walk
<1> HIDE DEF n
<1>4. tfi \in Seq(Node) /\ <<>> \in Seq(Node)
  BY <1>3
<1> HIDE DEF tfi
<1>5. Fits(tts, pats) /\ Len(tts[walk.root]) = Len(pats)
  BY <1>1, <1>2 DEF AlgoTypes, SimInv, Invariant
<1>6. CASE /\ walk' = [walk EXCEPT !.tfi = tfi, !.items = <<>>]
           /\ UNCHANGED <<pats, tts, classes, stale, kept, subst>>
  <2>1. walk' \in Walk /\ walk'.root = walk.root
    BY <1>2, <1>4, <1>6 DEF Walk
  <2>2. SubstTypes' /\ HistTypes' /\ TruthInv'
    BY <1>1, <1>2, <1>6, SubstUntouched
  <2>3. AlgoTypes' /\ SimInv'
    BY <1>1, <1>2, <1>5, <1>6, <2>1 DEF AlgoTypes, SimInv
  <2> QED BY <2>2, <2>3 DEF Invariant, TypeInv
<1>7. CASE \E keep \in BOOLEAN :
             /\ TryNode(walk.root, n, tts, keep)
             /\ kept' = IF walk.member THEN kept ELSE keep
             /\ walk' = [walk EXCEPT !.tfi = tfi, !.keep = keep,
                                     !.items = IF kept' THEN Tail(@) ELSE <<>>]
  <2>1. PICK keep \in BOOLEAN :
          /\ TryNode(walk.root, n, tts, keep)
          /\ kept' = IF walk.member THEN kept ELSE keep
          /\ walk' = [walk EXCEPT !.tfi = tfi, !.keep = keep,
                                  !.items = IF kept' THEN Tail(@) ELSE <<>>]
    BY <1>7
  <2>2. Answered /\ Len(tts'[walk.root]) = Len(pats')
    BY <1>1, <1>2, <1>3, <1>5, <2>1, TryNodeAnswers
  <2>3. kept' \in BOOLEAN
    BY <1>2, <2>1 DEF AlgoTypes
  <2>4. walk' \in Walk /\ walk'.root = walk.root
    <3> DEFINE items == IF kept' THEN Tail(walk.items) ELSE <<>>
    <3>1. items \in Seq(Node)
      BY <1>3, <1>4, Zenon
    <3>2. walk' = [walk EXCEPT !.tfi = tfi, !.keep = keep, !.items = items]
      BY <2>1
    <3> HIDE DEF items
    <3> QED BY <1>2, <1>4, <3>1, <3>2 DEF Walk
  <2>5. SubstTypes' /\ HistTypes' /\ TruthInv'
    BY <1>1, <1>2, <2>2, AnsweredKeeps
  <2>6. AlgoTypes'
    BY <1>1, <1>2, <2>2, <2>3, <2>4 DEF AlgoTypes, Answered
  <2>7. SimInv'
    BY <2>2, <2>4 DEF SimInv
  <2> QED BY <2>5, <2>6, <2>7 DEF Invariant, TypeInv
<1> QED BY <1>6, <1>7 DEF TryFanin, n, tfi

(* A fanout of the cone is compared with the root.                         *)
LEMMA TryFanoutStep ==
  ASSUME Invariant, TryFanout
  PROVE  Invariant'
<1> DEFINE p == net.fanout[Spread][walk.k]
           t == CheckTts(p)
<1>1. /\ phase = "fanouts" /\ Exploring /\ ~NodeDone
      /\ UNCHANGED <<phase, const0, file, members>>
      /\ UNCHANGED hist
  BY DEF TryFanout
<1>2. TypeInv /\ TruthInv /\ AlgoTypes /\ net \in Network /\ walk \in Walk
  BY DEF Invariant, TypeInv, SubstTypes, AlgoTypes
<1>3. walk.root \in Node /\ walk.tfi \in Seq(Node)
      /\ walk.j \in Nat \ {0} /\ walk.k \in Nat \ {0}
  BY <1>2 DEF Walk
<1>4. p \in Node
  <2>1. Spread \in Node
    BY <1>1, <1>3 DEF Exploring, Spread
  <2>2. walk.k <= Len(net.fanout[Spread]) /\ net.fanout[Spread] \in Seq(Gate)
    BY <1>1, <1>2, <1>3, <2>1 DEF NodeDone, Network
  <2>3. p \in Gate
    BY <1>3, <2>2
  <2> HIDE DEF p
  <2> QED BY <2>3, NodeFacts
<1> HIDE DEF p
<1>5. Append(walk.tfi, p) \in Seq(Node) /\ walk.k + 1 \in Nat \ {0}
  BY <1>3, <1>4
<1>6. Len(tts[walk.root]) = Len(pats)
  BY <1>1 DEF SimInv, Invariant
<1>7. Fits(t, pats) /\ Len(t[walk.root]) = Len(pats)
  BY <1>2, <1>3, <1>4, <1>6, CheckTtsType
<1> HIDE DEF t
<1>8. CASE /\ walk' = [walk EXCEPT !.k = @ + 1]
           /\ UNCHANGED <<pats, tts, classes, stale, kept, subst>>
  <2>1. walk' \in Walk /\ walk'.root = walk.root
    BY <1>2, <1>5, <1>8 DEF Walk
  <2>2. SubstTypes' /\ HistTypes' /\ TruthInv'
    BY <1>1, <1>2, <1>8, SubstUntouched
  <2>3. AlgoTypes' /\ SimInv'
    BY <1>1, <1>2, <1>6, <1>8, <2>1 DEF AlgoTypes, SimInv
  <2> QED BY <2>2, <2>3 DEF Invariant, TypeInv
<1>9. CASE \E keep \in BOOLEAN :
             /\ TryNode(walk.root, p, t, keep)
             /\ kept' = IF walk.member THEN kept ELSE keep
             /\ walk' = [walk EXCEPT !.tfi = Append(@, p), !.keep = keep,
                                     !.k = @ + 1]
  <2>1. PICK keep \in BOOLEAN :
          /\ TryNode(walk.root, p, t, keep)
          /\ kept' = IF walk.member THEN kept ELSE keep
          /\ walk' = [walk EXCEPT !.tfi = Append(@, p), !.keep = keep,
                                  !.k = @ + 1]
    BY <1>9
  <2>2. Answered /\ Len(tts'[walk.root]) = Len(pats')
    BY <1>1, <1>2, <1>3, <1>4, <1>7, <2>1, TryNodeAnswers
  <2>3. kept' \in BOOLEAN
    BY <1>2, <2>1 DEF AlgoTypes
  <2>4. walk' \in Walk /\ walk'.root = walk.root
    BY <1>2, <1>5, <2>1 DEF Walk
  <2>5. SubstTypes' /\ HistTypes' /\ TruthInv'
    BY <1>1, <1>2, <2>2, AnsweredKeeps
  <2>6. AlgoTypes'
    BY <1>1, <1>2, <2>2, <2>3, <2>4 DEF AlgoTypes, Answered
  <2>7. SimInv'
    BY <2>2, <2>4 DEF SimInv
  <2> QED BY <2>5, <2>6, <2>7 DEF Invariant, TypeInv
<1> QED BY <1>8, <1>9 DEF TryFanout, p, t

(***************************************************************************)
(* The steps of substitute_node.                                           *)
(***************************************************************************)
(* The parts of TruthInv, when no function changes.                        *)
LEMMA TruthParts ==
  ASSUME func' = func, want' = want, NetTruth(net'),
         \A i \in DOMAIN todo' : Same(todo'[i].old, todo'[i].new),
         \A n \in DOMAIN moved' : Same(n, moved'[n]),
         job'.on => Same(job'.old, job'.new)
  PROVE  TruthInv'
<1>1. NetTruth(net)'
  BY DEF NetTruth, AndFunc, LitFunc
<1>2. /\ (\A i \in DOMAIN todo : Same(todo[i].old, todo[i].new))'
      /\ (\A n \in DOMAIN moved : Same(n, moved[n]))'
      /\ (job.on => Same(job.old, job.new))'
  BY DEF Same, LitFunc
<1> QED BY <1>1, <1>2 DEF TruthInv

(* The literal to put in is itself replaced: an equality is composed.       *)
LEMMA FollowMovedStep ==
  ASSUME Invariant, FollowMoved
  PROVE  Invariant'
<1> DEFINE top == Head(todo)
           new == FlipIf(moved[top.new.node], top.new.neg)
           entry == [top EXCEPT !.new = new, !.follow = TRUE]
<1>1. /\ todo # <<>>
      /\ top.new.node \in DOMAIN moved
      /\ todo' = <<entry>> \o Tail(todo)
      /\ UNCHANGED <<net, moved, job>>
      /\ UNCHANGED <<algo, hist>>
  BY DEF FollowMoved, Turn
<1>2. SubstTypes /\ HistTypes /\ TruthInv /\ TypeInv /\ SimInv
  BY DEF Invariant, TypeInv
<1>3. /\ todo \in Seq(Entry) /\ Len(todo) \in Nat /\ DOMAIN todo = 1 .. Len(todo)
      /\ 1 \in DOMAIN todo /\ top = todo[1]
  BY <1>1, <1>2 DEF SubstTypes
<1>4. top \in Entry /\ Tail(todo) \in Seq(Entry)
  BY <1>1, <1>3
<1>5. top.old \in Node /\ top.new \in Literal /\ top.new.neg \in BOOLEAN
      /\ top.new.node \in Node
  BY <1>4 DEF Entry, Literal
<1>6. moved[top.new.node] \in Literal
  BY <1>1, <1>2, PartialFacts DEF SubstTypes
<1>7. Same(top.old, top.new)
  BY <1>2, <1>3 DEF TruthInv
<1>8. Same(top.new.node, moved[top.new.node])
  BY <1>1, <1>2 DEF TruthInv
<1> HIDE DEF top
<1>9. new \in Literal
  BY <1>5, <1>6, LiteralFacts
<1>10. Same(top.old, new)
  <2> DEFINE l == moved[top.new.node]
             neg == top.new.neg
  <2>1. l \in Literal /\ neg \in BOOLEAN /\ func \in [Node -> SUBSET InputVector]
    BY <1>2, <1>5, <1>6 DEF HistTypes
  <2>2. new = FlipIf(l, neg) /\ func[top.new.node] = LitFunc(func, l)
    BY <1>8 DEF Same
  <2>3. func[top.old] = IF neg THEN InputVector \ func[top.new.node]
                               ELSE func[top.new.node]
    BY <1>7 DEF Same, LitFunc
  <2> HIDE DEF l, neg, new
  <2>4. LitFunc(func, FlipIf(l, neg)) =
          IF neg THEN InputVector \ LitFunc(func, l) ELSE LitFunc(func, l)
    BY <2>1, FlipFunc
  <2> QED BY <2>2, <2>3, <2>4 DEF Same
<1> HIDE DEF new
<1>11. entry \in Entry /\ entry.old = top.old /\ entry.new = new
  BY <1>4, <1>9 DEF Entry
<1> HIDE DEF entry
<1>12. todo' \in Seq(Entry)
  BY <1>1, <1>4, <1>11
<1>13. \A i \in DOMAIN todo' : todo'[i] = entry \/ \E j \in DOMAIN todo : todo'[i] = todo[j]
  BY <1>1, <1>3, <1>4, <1>11
<1>14. AlgoTypes' /\ HistTypes' /\ SimInv' /\ func' = func /\ want' = want
  BY <1>1, <1>2, AlgoUntouched
<1>15. SubstTypes'
  BY <1>1, <1>2, <1>12 DEF SubstTypes
<1>16. TruthInv'
  <2>1. \A i \in DOMAIN todo' : Same(todo'[i].old, todo'[i].new)
    BY <1>2, <1>10, <1>11, <1>13 DEF TruthInv
  <2>2. /\ NetTruth(net') /\ \A n \in DOMAIN moved' : Same(n, moved'[n])
        /\ job'.on => Same(job'.old, job'.new)
    BY <1>1, <1>2 DEF TruthInv
  <2> QED BY <1>14, <2>1, <2>2, TruthParts
<1> QED BY <1>14, <1>15, <1>16 DEF Invariant, TypeInv

(* The literal to put in is known, and brought back if it is dead.          *)
LEMMA TakeTurnStep ==
  ASSUME Invariant, TakeTurn
  PROVE  Invariant'
<1> DEFINE top == Head(todo)
           live == IF IsDead(top.new) THEN ReviveNode(net, top.new.node) ELSE net
<1>1. /\ todo # <<>>
      /\ net' = live
      /\ job' = IF top.new = Lit(top.old) THEN NoJob
                ELSE [old |-> top.old, new |-> top.new, on |-> TRUE,
                      parents |-> live.fanout[top.old]]
      /\ todo' = Tail(todo)
      /\ moved' = moved
      /\ UNCHANGED <<algo, hist>>
  BY DEF TakeTurn, Turn
<1>2. SubstTypes /\ HistTypes /\ TruthInv /\ TypeInv /\ SimInv /\ net \in Network
  BY DEF Invariant, TypeInv, SubstTypes
<1>3. /\ todo \in Seq(Entry) /\ Len(todo) \in Nat /\ DOMAIN todo = 1 .. Len(todo)
      /\ 1 \in DOMAIN todo /\ top = todo[1]
  BY <1>1, <1>2 DEF SubstTypes
<1>4. top \in Entry /\ Tail(todo) \in Seq(Entry)
  BY <1>1, <1>3
<1>5. top.old \in Node /\ top.new \in Literal /\ top.new.node \in Node
  BY <1>4 DEF Entry, Literal
<1>6. Same(top.old, top.new)
  BY <1>2, <1>3 DEF TruthInv
<1> HIDE DEF top
<1>7. live \in Network /\ live.outs = net.outs /\ NetTruth(live)
  BY <1>2, <1>5, ReviveNodeKeeps DEF TruthInv
<1> HIDE DEF live
<1>8. live.fanout[top.old] \in Seq(Gate)
  BY <1>5, <1>7 DEF Network
<1>9. AlgoTypes' /\ HistTypes' /\ SimInv' /\ func' = func /\ want' = want
  BY <1>1, <1>2, <1>7, AlgoUntouched
<1>10. /\ job' \in Job
       /\ job'.on => Same(job'.old, job'.new)
  <2>1. CASE top.new = Lit(top.old)
    BY <1>1, <2>1, NoJobType
  <2>2. CASE top.new # Lit(top.old)
    <3>1. job' = [old |-> top.old, new |-> top.new, on |-> TRUE,
                  parents |-> live.fanout[top.old]]
      BY <1>1, <2>2
    <3> QED BY <1>5, <1>6, <1>8, <3>1 DEF Job
  <2> QED BY <2>1, <2>2
<1>11. \A i \in DOMAIN todo' : \E j \in DOMAIN todo : todo'[i] = todo[j]
  BY <1>1, <1>3
<1>12. SubstTypes'
  BY <1>1, <1>2, <1>4, <1>7, <1>10 DEF SubstTypes
<1>13. TruthInv'
  <2>1. \A i \in DOMAIN todo' : Same(todo'[i].old, todo'[i].new)
    BY <1>2, <1>11 DEF TruthInv
  <2>2. NetTruth(net') /\ \A n \in DOMAIN moved' : Same(n, moved'[n])
    BY <1>1, <1>2, <1>7 DEF TruthInv
  <2> QED BY <1>9, <1>10, <2>1, <2>2, TruthParts
<1> QED BY <1>9, <1>12, <1>13 DEF Invariant, TypeInv

(* A parent is changed, or becomes a node to substitute.                   *)
LEMMA ReplaceParentStep ==
  ASSUME Invariant, ReplaceParent
  PROVE  Invariant'
<1> DEFINE p == Head(job.parents)
           simple == Simplified(net, p, job.old, job.new)
<1>1. /\ job.on
      /\ job.parents # <<>>
      /\ job.old \in Fanins(net, p)
      /\ job' = [job EXCEPT !.parents = Tail(@)]
      /\ moved' = moved
      /\ UNCHANGED <<algo, hist>>
  BY DEF ReplaceParent
<1>2. SubstTypes /\ HistTypes /\ TruthInv /\ TypeInv /\ SimInv /\ net \in Network
      /\ NetTruth(net) /\ job \in Job /\ todo \in Seq(Entry)
  BY DEF Invariant, TypeInv, SubstTypes, TruthInv
<1>3. /\ p \in Gate /\ Tail(job.parents) \in Seq(Gate)
      /\ job.old \in Node /\ job.new \in Literal
  BY <1>1, <1>2 DEF Job
<1> HIDE DEF p
<1>4. Same(job.old, job.new)
  BY <1>1, <1>2 DEF TruthInv
<1>5. job' \in Job /\ job'.old = job.old /\ job'.new = job.new
  BY <1>1, <1>2, <1>3 DEF Job
<1>6. CASE net' = ReplaceInNode(net, p, job.old, job.new) /\ UNCHANGED todo
  <2>1. net' \in Network /\ net'.outs = net.outs /\ NetTruth(net')
    BY <1>1, <1>2, <1>3, <1>4, <1>6, ReplaceInNodeKeeps
  <2>2. AlgoTypes' /\ HistTypes' /\ SimInv' /\ func' = func /\ want' = want
    BY <1>1, <1>2, <2>1, AlgoUntouched
  <2>3. SubstTypes'
    BY <1>1, <1>2, <1>5, <1>6, <2>1 DEF SubstTypes
  <2>4. TruthInv'
    <3>1. job'.on => Same(job'.old, job'.new)
      BY <1>4, <1>5
    <3>2. /\ \A i \in DOMAIN todo' : Same(todo'[i].old, todo'[i].new)
          /\ \A n \in DOMAIN moved' : Same(n, moved'[n])
      BY <1>1, <1>2, <1>6 DEF TruthInv
    <3> QED BY <2>1, <2>2, <3>1, <3>2, TruthParts
  <2> QED BY <2>2, <2>3, <2>4 DEF Invariant, TypeInv
<1>7. CASE \E l \in simple :
             /\ todo' = <<[old |-> p, new |-> l, follow |-> FALSE]>> \o todo
             /\ UNCHANGED net
  <2>1. PICK l \in simple :
          /\ todo' = <<[old |-> p, new |-> l, follow |-> FALSE]>> \o todo
          /\ UNCHANGED net
    BY <1>7
  <2>2. l \in Literal /\ Same(p, l)
    BY <1>1, <1>2, <1>3, <1>4, SimplifiedSame
  <2> DEFINE e == [old |-> p, new |-> l, follow |-> FALSE]
  <2>3. p \in Node
    BY <1>3, NodeFacts
  <2>4. e \in Entry /\ e.old = p /\ e.new = l
    BY <2>2, <2>3 DEF Entry
  <2>5. todo' = <<e>> \o todo
    BY <2>1
  <2> HIDE DEF e
  <2>6. todo' \in Seq(Entry)
    BY <1>2, <2>4, <2>5
  <2>7. \A i \in DOMAIN todo' : todo'[i] = e \/ \E j \in DOMAIN todo : todo'[i] = todo[j]
    BY <1>2, <2>4, <2>5
  <2>8. AlgoTypes' /\ HistTypes' /\ SimInv' /\ func' = func /\ want' = want
    BY <1>1, <1>2, <2>1, AlgoUntouched
  <2>9. SubstTypes'
    BY <1>1, <1>2, <1>5, <2>1, <2>6 DEF SubstTypes
  <2>10. TruthInv'
    <3>1. \A i \in DOMAIN todo' : Same(todo'[i].old, todo'[i].new)
      BY <1>2, <2>2, <2>4, <2>7 DEF TruthInv
    <3>2. job'.on => Same(job'.old, job'.new)
      BY <1>4, <1>5
    <3>3. NetTruth(net') /\ \A n \in DOMAIN moved' : Same(n, moved'[n])
      BY <1>1, <1>2, <2>1 DEF TruthInv
    <3> QED BY <2>8, <3>1, <3>2, <3>3, TruthParts
  <2> QED BY <2>8, <2>9, <2>10 DEF Invariant, TypeInv
<1> QED BY <1>6, <1>7 DEF ReplaceParent, p

(* The outputs are changed and the old node is taken out.                   *)
LEMMA FinishTurnStep ==
  ASSUME Invariant, FinishTurn
  PROVE  Invariant'
<1> DEFINE out == ReplaceInOutputs(net, job.old, job.new)
<1>1. /\ job.on
      /\ net' = IF job.old = job.new.node THEN out ELSE TakeOutNode(out, job.old)
      /\ moved' = IF job.old = job.new.node \/ job.old \in DOMAIN moved THEN moved
                  ELSE [n \in DOMAIN moved \cup {job.old} |->
                          IF n = job.old THEN job.new ELSE moved[n]]
      /\ job' = NoJob
      /\ todo' = todo
      /\ UNCHANGED <<algo, hist>>
  BY DEF FinishTurn
<1>2. SubstTypes /\ HistTypes /\ TruthInv /\ TypeInv /\ SimInv /\ net \in Network
      /\ NetTruth(net) /\ job \in Job
  BY DEF Invariant, TypeInv, SubstTypes, TruthInv
<1>3. job.old \in Node /\ job.new \in Literal /\ Same(job.old, job.new)
  BY <1>1, <1>2 DEF Job, TruthInv
<1>4. out \in Network /\ DOMAIN out.outs = DOMAIN net.outs /\ NetTruth(out)
  BY <1>2, <1>3, ReplaceInOutputsKeeps DEF HistTypes
<1> HIDE DEF out
<1>5. net' \in Network /\ DOMAIN net'.outs = DOMAIN net.outs /\ NetTruth(net')
  BY <1>1, <1>3, <1>4, TakeOutNodeKeeps
<1>6. moved' \in Partial(Node, Literal) /\ \A n \in DOMAIN moved' : Same(n, moved'[n])
  <2>1. /\ moved \in Partial(Node, Literal) /\ DOMAIN moved \in SUBSET Node
        /\ \A n \in DOMAIN moved : moved[n] \in Literal /\ Same(n, moved[n])
    BY <1>2, PartialFacts DEF SubstTypes, TruthInv
  <2>2. CASE moved' = moved
    BY <2>1, <2>2
  <2>3. CASE moved' = [n \in DOMAIN moved \cup {job.old} |->
                         IF n = job.old THEN job.new ELSE moved[n]]
    <3>1. moved' \in [DOMAIN moved \cup {job.old} -> Literal]
      BY <1>3, <2>1, <2>3
    <3>2. DOMAIN moved \cup {job.old} \in SUBSET Node
      BY <1>3, <2>1
    <3>3. moved' \in Partial(Node, Literal)
      BY <3>1, <3>2, PartialFacts
    <3>4. \A n \in DOMAIN moved' : Same(n, moved'[n])
      BY <1>3, <2>1, <2>3
    <3> QED BY <3>3, <3>4
  <2> QED BY <1>1, <2>2, <2>3
<1>7. job' \in Job /\ job'.on = FALSE
  BY <1>1, NoJobType
<1>8. AlgoTypes' /\ HistTypes' /\ SimInv' /\ func' = func /\ want' = want
  BY <1>1, <1>2, <1>5, AlgoUntouched
<1>9. SubstTypes'
  BY <1>1, <1>2, <1>5, <1>6, <1>7 DEF SubstTypes
<1>10. TruthInv'
  <2>1. \A i \in DOMAIN todo' : Same(todo'[i].old, todo'[i].new)
    BY <1>1, <1>2 DEF TruthInv
  <2> QED BY <1>5, <1>6, <1>7, <1>8, <2>1, TruthParts
<1> QED BY <1>8, <1>9, <1>10 DEF Invariant, TypeInv

(* Every step keeps it.                                                    *)
LEMMA InvariantStep == Invariant /\ [Next]_vars => Invariant'
<1> SUFFICES ASSUME Invariant, [Next]_vars PROVE Invariant'
  OBVIOUS
<1> QED BY SelectConstantsStep, TryConstantStep, NextKeyStep, TryFaninStep,
           TryFanoutStep, NextMemberStep, QuietStep, FollowMovedStep, TakeTurnStep,
           ReplaceParentStep, FinishTurnStep DEF Next, SubstitutionStep

(* So it holds in every state that is reached.                             *)
LEMMA InvariantHolds == Spec => []Invariant
  BY InvariantInit, InvariantStep, PTL DEF Spec

(* Every variable keeps its type, whatever was substituted for what.       *)
THEOREM TypeCorrect == Spec => []TypeOK
<1>1. ASSUME Invariant PROVE TypeOK
  <2>1. AlgoTypes /\ SubstTypes /\ net \in Network
    BY <1>1 DEF Invariant, TypeInv, SubstTypes
  <2>2. /\ net.kids \in [Gate -> Literal \X Literal]
        /\ net.dead \subseteq Gate
        /\ net.refs \in [Node -> Nat]
    BY <2>1 DEF Network, Key
  <2>3. \A k \in DOMAIN net.hash : net.hash[k] \in Gate
    BY <2>1, PartialFacts DEF Network
  <2>4. \A n \in Node : ToSet(net.fanout[n]) \subseteq Gate
    BY <2>1 DEF Network, ToSet
  <2>5. \A i \in DOMAIN todo : todo[i].old \in Node /\ todo[i].new \in Literal
    <3>1. \A i \in DOMAIN todo : todo[i] \in Entry
      BY <2>1 DEF SubstTypes
    <3> QED BY <3>1 DEF Entry
  <2>6. walk.root \in Node
    BY <2>1 DEF AlgoTypes, Walk
  <2> QED BY <2>1, <2>2, <2>3, <2>4, <2>5, <2>6 DEF TypeOK, AlgoTypes, Fits
<1> QED BY <1>1, InvariantHolds, PTL

(* In every state, between two turns of a substitution too, each gate and  *)
(* each output computes what it did in the network the command was given.  *)
THEOREM FunctionsPreserved == Spec => []FunctionsKept
<1>1. Invariant => FunctionsKept
  BY DEF Invariant, TruthInv, NetTruth, FunctionsKept
<1> QED BY <1>1, InvariantHolds, PTL

-----------------------------------------------------------------------------
(***************************************************************************)
(* Counter-examples separate.  A table may be wrong where it has a zero of *)
(* a block the node missed, and only there: its ones are right, and so is  *)
(* the last block it was computed on.                                      *)
(***************************************************************************)
RightAt(t, ps, n, i) ==
  /\ t[n][i] => ps[i] \in func[n]
  /\ InLastBlock(i, Len(t[n])) => (ps[i] \in func[n] => t[n][i])

Right(t, ps) == \A n \in Node : \A i \in 1 .. Len(t[n]) : RightAt(t, ps, n, i)

(* Before the first simulation there are no tables; while the constants    *)
(* are tried, that of the constant is complete.                            *)
TableInv ==
  /\ Right(tts, pats)
  /\ pats # <<>>
  /\ phase = "select" => \A n \in Node : tts[n] = <<>>
  /\ phase = "consts" => Len(tts[0]) = Len(pats)

(* What the tables t say, the tables u say too.                            *)
Extends(t, u) ==
  \A n \in Node : /\ Len(t[n]) <= Len(u[n])
                  /\ \A i \in 1 .. Len(t[n]) : u[n][i] = t[n][i]

Continues(qs, ps) ==
  Len(qs) <= Len(ps) /\ \A i \in 1 .. Len(qs) : ps[i] = qs[i]

LEMMA ExtendsTwice ==
  ASSUME NEW t, NEW u, NEW w, Extends(t, u), Extends(u, w),
         \A n \in Node : Len(t[n]) \in Nat /\ Len(u[n]) \in Nat /\ Len(w[n]) \in Nat
  PROVE  Extends(t, w)
  BY DEF Extends

LEMMA ExtendsIsPrefix ==
  ASSUME NEW t \in [Node -> Seq(BOOLEAN)], NEW u \in [Node -> Seq(BOOLEAN)],
         Extends(t, u), NEW n \in Node
  PROVE  IsPrefix(t[n], u[n])
<1> DEFINE r == t[n]
           s == u[n]
<1>1. /\ r \in Seq(BOOLEAN) /\ s \in Seq(BOOLEAN) /\ Len(r) <= Len(s)
      /\ \A i \in 1 .. Len(r) : s[i] = r[i]
  BY DEF Extends
<1> HIDE DEF r, s
<1>2. SubSeq(r, 1, Len(r)) = SubSeq(s, 1, Len(r))
  <2> DEFINE k == Len(r)
  <2>1. k \in Nat /\ \A i \in 1 .. k : s[i] = r[i]
    BY <1>1
  <2>2. SubSeq(r, 1, k) = [i \in 1 .. k |-> r[i]]
    BY <1>1
  <2>3. SubSeq(s, 1, k) = [i \in 1 .. k |-> s[i]]
    BY <1>1
  <2> HIDE DEF k
  <2> QED BY <2>1, <2>2, <2>3 DEF k
<1>3. IsPrefix(r, s)
  BY <1>1, <1>2 DEF IsPrefix
<1> QED BY <1>3 DEF r, s

(* A block that is the last of a longer table is the last of a shorter one. *)
LEMMA LastBlockShorter ==
  ASSUME NEW k \in Nat, NEW m \in Nat, k <= m, NEW i \in Nat, InLastBlock(i, m)
  PROVE  InLastBlock(i, k)
  BY DEF InLastBlock

(* A simulation leaves the tables right, and takes nothing back.           *)
LEMMA SimulatedGrows ==
  ASSUME NEW qs \in Seq(InputVector), NEW ps \in Seq(InputVector),
         Continues(qs, ps), NEW t, Fits(t, qs), Right(t, qs), NEW S
  PROVE  Right(Simulated(t, ps, S), ps) /\ Extends(t, Simulated(t, ps, S))
<1> DEFINE C == LaggingCone(t, ps, S)
           u == Simulated(t, ps, S)
<1>1. /\ t \in [Node -> Seq(BOOLEAN)] /\ Len(ps) \in Nat /\ Len(qs) \in Nat
      /\ \A n \in Node : Len(t[n]) \in Nat /\ Len(t[n]) <= Len(qs)
  BY DEF Fits
<1>2. \A n \in Node : u[n] = IF n \in C THEN Resimulated(t, ps, n) ELSE t[n]
  BY DEF Simulated
<1> HIDE DEF C, u
<1> SUFFICES ASSUME NEW n \in Node
             PROVE  /\ \A i \in 1 .. Len(u[n]) : RightAt(u, ps, n, i)
                    /\ Len(t[n]) <= Len(u[n])
                    /\ \A i \in 1 .. Len(t[n]) : u[n][i] = t[n][i]
  BY DEF Right, Extends, u
<1>3. \A i \in 1 .. Len(t[n]) : RightAt(t, qs, n, i) /\ ps[i] = qs[i]
  BY <1>1 DEF Right, Continues
<1>4. \A i \in 1 .. Len(t[n]) : RightAt(t, ps, n, i)
  BY <1>3, Zenon DEF RightAt
<1>5. CASE n \notin C
  <2>1. u[n] = t[n]
    BY <1>2, <1>5
  <2>2. \A i \in 1 .. Len(u[n]) : RightAt(u, ps, n, i)
    BY <1>4, <2>1 DEF RightAt
  <2> QED BY <1>1, <2>1, <2>2
<1>6. CASE n \in C
  <2>1. u[n] = Resimulated(t, ps, n)
    BY <1>2, <1>6
  <2>2. /\ u[n] \in Seq(BOOLEAN) /\ Len(u[n]) = Len(ps)
        /\ \A i \in 1 .. Len(ps) :
             u[n][i] <=> IF InLastBlock(i, Len(ps)) THEN ps[i] \in func[n]
                         ELSE i <= Len(t[n]) /\ t[n][i]
    BY <1>1, <2>1, ResimulatedFacts
  <2>3. Len(t[n]) <= Len(ps)
    BY <1>1 DEF Continues
  <2>4. ASSUME NEW i \in 1 .. Len(u[n]) PROVE RightAt(u, ps, n, i)
    <3>1. CASE InLastBlock(i, Len(ps))
      BY <2>2, <3>1 DEF RightAt
    <3>2. CASE ~InLastBlock(i, Len(ps))
      <4>1. u[n][i] => i \in 1 .. Len(t[n]) /\ t[n][i]
        BY <1>1, <2>2, <3>2
      <4>2. u[n][i] => ps[i] \in func[n]
        BY <1>4, <4>1 DEF RightAt
      <4> QED BY <2>2, <3>2, <4>2 DEF RightAt
    <3> QED BY <3>1, <3>2
  <2>5. ASSUME NEW i \in 1 .. Len(t[n]) PROVE u[n][i] = t[n][i]
    <3>1. t[n][i] \in BOOLEAN /\ u[n][i] \in BOOLEAN
      BY <1>1, <2>2, <2>3
    <3>2. i \in 1 .. Len(ps) /\ i \in Nat /\ i <= Len(t[n])
      BY <1>1, <2>3
    <3>3. CASE InLastBlock(i, Len(ps))
      <4>1. InLastBlock(i, Len(t[n]))
        BY <1>1, <2>3, <3>2, <3>3, LastBlockShorter
      <4>2. t[n][i] <=> ps[i] \in func[n]
        BY <1>4, <4>1 DEF RightAt
      <4>3. u[n][i] <=> ps[i] \in func[n]
        BY <2>2, <3>2, <3>3
      <4> QED BY <3>1, <4>2, <4>3
    <3>4. CASE ~InLastBlock(i, Len(ps))
      <4>1. u[n][i] <=> t[n][i]
        BY <2>2, <3>2, <3>4
      <4> QED BY <3>1, <4>1
    <3> QED BY <3>3, <3>4
  <2> QED BY <2>2, <2>3, <2>4, <2>5
<1> QED BY <1>5, <1>6

(* check_tts simulates on the patterns there are.                          *)
LEMMA CheckTtsGrows ==
  ASSUME AlgoTypes, Right(tts, pats), NEW n
  PROVE  Right(CheckTts(n), pats) /\ Extends(tts, CheckTts(n))
<1> DEFINE S == {n}
<1>1. pats \in Seq(InputVector) /\ Fits(tts, pats) /\ Continues(pats, pats)
  BY DEF AlgoTypes, Continues
<1>2. CheckTts(n) = Simulated(tts, pats, S)
  BY DEF CheckTts
<1> HIDE DEF S
<1> QED BY <1>1, <1>2, SimulatedGrows

(* The answer to a question about m and n, whose tables are complete and   *)
(* agree, or disagree everywhere if b.                                     *)
Alike(t, m, n, b) ==
  \A i \in DOMAIN pats : t[m][i] <=> IF b THEN ~t[n][i] ELSE t[n][i]

TellsApart(a, m, n, b) ==
  a \in func[m] <=> IF b THEN a \in func[n] ELSE a \notin func[n]

(* A step that asks leaves the tables right and takes nothing back, and    *)
(* what it adds separates the nodes it asks about.                         *)
Separates(m, n) ==
  /\ pats' # pats =>
       /\ ToldApart(m, n)
       /\ \A i \in DOMAIN pats : pats[i] = NewPattern => HasWrong(m, i) \/ HasWrong(n, i)
  /\ Right(tts', pats') /\ Extends(tts, tts') /\ pats' # <<>>

(* found_cex.                                                              *)
LEMMA FoundCexSeparates ==
  ASSUME TypeInv, TableInv, UNCHANGED hist, NEW a \in InputVector,
         NEW t, Fits(t, pats), Right(t, pats), Extends(tts, t),
         NEW S \in SUBSET Node, FoundCex(a, t, S),
         NEW m \in Node, NEW n \in Node, NEW b \in BOOLEAN,
         Len(t[m]) = Len(pats), Len(t[n]) = Len(pats),
         m \in S \/ n \in AliveNodes,
         Alike(t, m, n, b), TellsApart(a, m, n, b)
  PROVE  /\ Separates(m, n)
         /\ \A x \in AliveNodes : Len(tts'[x]) = Len(pats')
<1> DEFINE ps == Append(pats, a)
           L == Len(pats) + 1
           sim == Simulated(t, ps, AliveNodes)
<1>1. /\ pats \in Seq(InputVector) /\ Len(pats) \in Nat \ {0}
      /\ tts \in [Node -> Seq(BOOLEAN)] /\ DOMAIN pats = 1 .. Len(pats)
      /\ func' = func
  BY DEF TypeInv, TableInv, AlgoTypes, Fits, hist
<1>2. /\ ps \in Seq(InputVector) /\ Len(ps) = L /\ ps[L] = a
      /\ \A i \in 1 .. Len(pats) : ps[i] = pats[i]
      /\ L \in Nat /\ Len(pats) < L
  BY <1>1
<1>3. pats' = ps /\ tts' = Simulated(sim, ps, S)
  BY DEF FoundCex
<1> HIDE DEF ps
<1>4. Continues(pats, ps) /\ Continues(ps, ps)
  BY <1>1, <1>2 DEF Continues
<1>5. Fits(t, ps) /\ t \in [Node -> Seq(BOOLEAN)]
  <2>1. \A x \in Node : Len(t[x]) \in Nat
    BY DEF Fits
  <2> QED BY <1>1, <1>2, <2>1 DEF Fits
<1>6. /\ Right(sim, ps) /\ Extends(t, sim) /\ Fits(sim, ps)
      /\ \A x \in Node \cap AliveNodes : Len(sim[x]) = Len(ps)
  BY <1>1, <1>2, <1>4, <1>5, SimulatedGrows, SimulatedFits
<1> HIDE DEF sim
<1>7. /\ Right(tts', ps) /\ Extends(sim, tts') /\ Fits(tts', ps)
      /\ \A x \in Node \cap S : Len(tts'[x]) = Len(ps)
      /\ \A x \in Node \cap AliveNodes : Len(tts'[x]) = Len(ps)
  <2>1. \A x \in Node : Len(sim[x]) = Len(ps) => tts'[x] = sim[x]
    BY <1>2, <1>3, <1>6, SimulatedFits
  <2> QED BY <1>2, <1>3, <1>4, <1>6, <2>1, SimulatedGrows, SimulatedFits
<1>8. /\ \A x \in Node : tts[x] \in Seq(BOOLEAN) /\ t[x] \in Seq(BOOLEAN)
      /\ \A x \in Node : sim[x] \in Seq(BOOLEAN) /\ tts'[x] \in Seq(BOOLEAN)
  BY <1>1, <1>5, <1>6, <1>7 DEF Fits
<1>9. Extends(t, tts') /\ Extends(tts, tts')
  <2>1. \A x \in Node : /\ Len(tts[x]) \in Nat /\ Len(t[x]) \in Nat
                        /\ Len(sim[x]) \in Nat /\ Len(tts'[x]) \in Nat
    BY <1>8
  <2>2. Extends(t, tts')
    BY <1>6, <1>7, <2>1, ExtendsTwice
  <2> QED BY <2>1, <2>2, ExtendsTwice
<1>10. \A x \in AliveNodes : x \in Node /\ Len(tts'[x]) = Len(pats')
  BY <1>3, <1>7 DEF AliveNodes
<1>11. m \in S \/ n \in AliveNodes => Len(tts'[m]) = L \/ Len(tts'[n]) = L
  BY <1>2, <1>7
<1> DEFINE r == tts'[m]
           s == tts'[n]
<1>12. /\ r \in Seq(BOOLEAN) /\ s \in Seq(BOOLEAN)
       /\ \A i \in 1 .. Len(pats) : r[i] = t[m][i] /\ s[i] = t[n][i]
  BY <1>8, <1>9 DEF Extends
<1>13. ASSUME NEW x \in Node, Len(tts'[x]) = L
       PROVE  tts'[x][L] <=> a \in func[x]
  <2>1. L \in 1 .. Len(tts'[x]) /\ InLastBlock(L, Len(tts'[x]))
    BY <1>1, <1>2, <1>13 DEF InLastBlock
  <2>2. RightAt(tts', ps, x, L)
    BY <1>7, <2>1 DEF Right
  <2> QED BY <1>2, <2>1, <2>2 DEF RightAt
<1> HIDE DEF L
<1>14. /\ Len(r) = L => (r[L] <=> a \in func[m])
       /\ Len(s) = L => (s[L] <=> a \in func[n])
  BY <1>13
<1> HIDE DEF r, s
<1>15. 1 \in DOMAIN pats
  BY <1>1
<1>16. \A i \in DOMAIN pats : r[i] <=> IF b THEN ~s[i] ELSE s[i]
  BY <1>1, <1>12 DEF Alike
<1>17. Len(r) = Len(s) => Len(r) = L /\ Len(s) = L
  BY <1>11 DEF r, s
<1>18. r # s
  <2> SUFFICES ASSUME r = s PROVE FALSE
    OBVIOUS
  <2>1. Len(r) = L /\ Len(s) = L
    BY <1>17
  <2>2. b = FALSE
    BY <1>15, <1>16
  <2>3. a \in func[m] <=> a \in func[n]
    BY <1>14, <2>1
  <2> QED BY <2>2, <2>3 DEF TellsApart
<1>19. r # Opposite(s)
  <2> SUFFICES ASSUME r = Opposite(s) PROVE FALSE
    OBVIOUS
  <2>1. r = [i \in DOMAIN s |-> ~s[i]]
    BY DEF Opposite
  <2>2. DOMAIN r = DOMAIN s /\ \A i \in DOMAIN s : r[i] <=> ~s[i]
    BY <2>1
  <2>3. Len(r) = Len(s)
    BY <1>12, <2>2
  <2>4. Len(r) = L /\ Len(s) = L
    BY <1>17, <2>3
  <2>5. 1 \in DOMAIN s /\ L \in DOMAIN s
    BY <1>1, <1>2, <1>12, <2>4 DEF L
  <2>6. b = TRUE
    BY <1>15, <1>16, <2>2, <2>5
  <2>7. a \in func[m] <=> a \notin func[n]
    BY <1>14, <2>2, <2>4, <2>5
  <2> QED BY <2>6, <2>7 DEF TellsApart
<1>20. ToldApart(m, n)
  BY <1>18, <1>19 DEF ToldApart, r, s
<1>21. ASSUME NEW i \in DOMAIN pats, pats[i] = NewPattern
       PROVE  HasWrong(m, i) \/ HasWrong(n, i)
  <2> SUFFICES ASSUME ~HasWrong(m, i), ~HasWrong(n, i) PROVE FALSE
    OBVIOUS
  <2>1. pats[i] = a
    BY <1>2, <1>3, <1>21 DEF NewPattern, L
  <2>2. r[i] = (a \in func[m]) /\ s[i] = (a \in func[n])
    BY <2>1, Zenon DEF HasWrong, r, s
  <2>3. (r[i] <=> a \in func[m]) /\ (s[i] <=> a \in func[n])
    BY <2>2
  <2> QED BY <1>16, <2>3 DEF TellsApart
<1>22. pats' # <<>>
  BY <1>2, <1>3 DEF L
<1> QED BY <1>3, <1>7, <1>9, <1>10, <1>20, <1>21, <1>22 DEF Separates

(* A query is answered by no pattern, or by one that separates.            *)
LEMMA ValidateSeparates ==
  ASSUME TypeInv, TableInv, UNCHANGED hist,
         NEW m \in Node, NEW n \in Node, NEW b \in BOOLEAN, NEW g \in Literal,
         g.node = n, g.neg = b,
         NEW t, Fits(t, pats), Right(t, pats), Extends(tts, t),
         Len(t[m]) = Len(pats), Len(t[n]) = Len(pats), Alike(t, m, n, b),
         NEW S \in SUBSET Node, m \in S \/ n \in AliveNodes,
         NEW proved, Validate(m, g, t, S, proved)
  PROVE  /\ Separates(m, n)
         /\ pats' # pats => \A x \in AliveNodes : Len(tts'[x]) = Len(pats')
         /\ pats' = pats => tts' = t
<1>1. /\ func \in [Node -> SUBSET InputVector] /\ pats \in Seq(InputVector)
      /\ pats # <<>>
  BY DEF TypeInv, AlgoTypes, HistTypes, TableInv
<1>2. CASE tts' = t /\ pats' = pats
  BY <1>1, <1>2 DEF Separates
<1>3. CASE \E a \in (func[m] \ LitFunc(func, g)) \cup (LitFunc(func, g) \ func[m]) :
             FoundCex(a, t, S)
  <2>1. PICK a \in (func[m] \ LitFunc(func, g)) \cup (LitFunc(func, g) \ func[m]) :
               FoundCex(a, t, S)
    BY <1>3
  <2>2. a \in InputVector
    BY <1>1, <2>1, FlipFunc
  <2>3. TellsApart(a, m, n, b)
    <3>1. LitFunc(func, g) = IF b THEN InputVector \ func[n] ELSE func[n]
      BY DEF LitFunc
    <3>2. CASE b = TRUE
      BY <2>1, <2>2, <3>1, <3>2 DEF TellsApart
    <3>3. CASE b = FALSE
      BY <2>1, <2>2, <3>1, <3>3 DEF TellsApart
    <3> QED BY <3>2, <3>3
  <2>4. /\ Separates(m, n)
        /\ \A x \in AliveNodes : Len(tts'[x]) = Len(pats')
    BY <2>1, <2>2, <2>3, FoundCexSeparates
  <2>5. pats' # pats
    BY <1>1, <2>1 DEF FoundCex
  <2> QED BY <2>4, <2>5
<1> QED BY <1>2, <1>3 DEF Validate

(* try_node asks about nodes with the same table, or opposite ones.        *)
LEMMA TryNodeSeparates ==
  ASSUME TypeInv, TableInv, UNCHANGED hist, NEW m \in Node, NEW n \in Node,
         NEW t, Fits(t, pats), Right(t, pats), Extends(tts, t),
         Len(t[m]) = Len(pats), NEW keep, TryNode(m, n, t, keep)
  PROVE  Separates(m, n)
<1> DEFINE r == t[m]
           s == t[n]
<1>1. /\ pats \in Seq(InputVector) /\ pats # <<>>
      /\ DOMAIN pats = 1 .. Len(pats)
      /\ r \in Seq(BOOLEAN) /\ s \in Seq(BOOLEAN) /\ Len(r) = Len(pats)
  BY DEF TypeInv, AlgoTypes, TableInv, Fits
<1>2. CASE tts' = t /\ pats' = pats
  BY <1>1, <1>2 DEF Separates
<1>3. ASSUME r \in {s, Opposite(s)}, NEW b \in BOOLEAN, b <=> r # s,
             Validate(m, FlipIf(Lit(n), b), t, {m}, ~keep)
      PROVE  Separates(m, n)
  <2>1. PICK g \in Literal, S \in SUBSET Node, proved \in BOOLEAN :
          /\ g.node = n /\ g.neg = b
          /\ m \in S
          /\ Validate(m, g, t, S, proved)
    <3>1. FlipIf(Lit(n), b) \in Literal /\ FlipIf(Lit(n), b).node = n
      BY LiteralFacts
    <3>2. FlipIf(Lit(n), b).neg = b
      <4>1. FlipIf(Lit(n), b).neg = (Lit(n).neg # b) /\ Lit(n).neg = FALSE
        BY LiteralFacts
      <4> QED BY <4>1
    <3>3. {m} \in SUBSET Node /\ m \in {m}
      OBVIOUS
    <3>4. (~keep) \in BOOLEAN
      OBVIOUS
    <3> QED BY <1>3, <3>1, <3>2, <3>3, <3>4, Zenon
  <2>2. CASE r = s
    <3>1. b = FALSE
      BY <1>3, <2>2
    <3>2. Alike(t, m, n, b)
      BY <2>2, <3>1 DEF Alike
    <3> QED BY <1>1, <2>1, <2>2, <3>2, ValidateSeparates
  <2>3. CASE r # s
    <3>1. b = TRUE /\ r = [i \in DOMAIN s |-> ~s[i]]
      BY <1>3, <2>3 DEF Opposite
    <3> HIDE DEF r, s
    <3>2. DOMAIN r = DOMAIN s /\ \A i \in DOMAIN s : r[i] <=> ~s[i]
      BY <3>1
    <3>3. Len(s) = Len(pats) /\ DOMAIN s = DOMAIN pats
      BY <1>1, <3>2
    <3>4. Alike(t, m, n, b)
      BY <3>1, <3>2, <3>3 DEF Alike, r, s
    <3> QED BY <2>1, <3>3, <3>4, ValidateSeparates DEF s
  <2> QED BY <2>2, <2>3
<1>4. CASE r \in {s, Opposite(s)} /\ Validate(m, FlipIf(Lit(n), r # s), t, {m}, ~keep)
  <2>1. (r # s) \in BOOLEAN
    OBVIOUS
  <2> QED BY <1>3, <1>4, <2>1
<1> QED BY <1>2, <1>4 DEF TryNode

(* A gate with a flat table is asked about with the constant, whose table  *)
(* is all zeros and complete.                                              *)
LEMMA TryConstantSeparates ==
  ASSUME TypeInv, TableInv, TryConstant
  PROVE  /\ Separates(Asked, AskedWith)
         /\ Len(tts'[0]) = Len(pats')
<1> DEFINE m == Head(const0)
           t == CheckTts(m)
<1>1. /\ pats \in Seq(InputVector) /\ pats # <<>> /\ DOMAIN pats = 1 .. Len(pats)
      /\ func[0] = {} /\ AlgoTypes /\ const0 \in Seq(Gate) /\ Right(tts, pats)
      /\ net.dead \in SUBSET Gate
  BY DEF TypeInv, AlgoTypes, HistTypes, TableInv, SubstTypes, Network
<1>2. phase = "consts" /\ const0 # <<>> /\ UNCHANGED hist
  BY DEF TryConstant
<1>3. m \in Node
  <2>1. m \in Gate
    BY <1>1, <1>2
  <2> HIDE DEF m
  <2> QED BY <2>1, NodeFacts
<1>4. Asked = m /\ AskedWith = 0
  BY <1>2 DEF Asked, AskedWith
<1> HIDE DEF m
<1>5. 0 \in Node /\ 0 \in AliveNodes
  BY <1>1, NodeFacts DEF AliveNodes
<1>6. /\ Fits(t, pats) /\ Right(t, pats) /\ Extends(tts, t)
      /\ Len(t[m]) = Len(pats) /\ Len(t[0]) = Len(pats)
  <2>1. Len(tts[0]) = Len(pats)
    BY <1>2 DEF TableInv
  <2> QED BY <1>1, <1>3, <1>5, <2>1, CheckTtsType, CheckTtsGrows
<1>7. \A i \in DOMAIN pats : t[0][i] = FALSE
  <2> SUFFICES ASSUME NEW i \in DOMAIN pats PROVE t[0][i] = FALSE
    OBVIOUS
  <2>1. i \in 1 .. Len(t[0]) /\ t[0][i] \in BOOLEAN
    BY <1>1, <1>5, <1>6 DEF Fits
  <2>2. t[0][i] => pats[i] \in func[0]
    BY <1>5, <1>6, <2>1, Zenon DEF Right, RightAt
  <2> QED BY <1>1, <2>1, <2>2
<1> HIDE DEF t
<1>8. CASE tts' = t /\ pats' = pats
  BY <1>1, <1>4, <1>6, <1>8 DEF Separates
<1>9. CASE \E v \in BOOLEAN, proved \in BOOLEAN :
             Flat(t, m, v) /\ Validate(m, Constant(v), t, {}, proved)
  <2>1. PICK v \in BOOLEAN, proved \in BOOLEAN :
             Flat(t, m, v) /\ Validate(m, Constant(v), t, {}, proved)
    BY <1>9
  <2>2. Constant(v) \in Literal /\ Constant(v).node = 0 /\ Constant(v).neg = v
    BY LiteralFacts
  <2>3. \A i \in DOMAIN pats : t[m][i] = v
    BY <1>1, <2>1 DEF Flat
  <2>4. Alike(t, m, 0, v)
    BY <1>7, <2>3 DEF Alike
  <2>5. PICK S \in SUBSET Node : S = {} /\ Validate(m, Constant(v), t, S, proved)
    BY <2>1
  <2>6. /\ Separates(m, 0)
        /\ pats' # pats => \A x \in AliveNodes : Len(tts'[x]) = Len(pats')
        /\ pats' = pats => tts' = t
    BY <1>2, <1>3, <1>5, <1>6, <2>2, <2>4, <2>5, ValidateSeparates
  <2> QED BY <1>4, <1>5, <1>6, <2>6
<1> QED BY <1>8, <1>9 DEF TryConstant, t, m

(* The steps of the searches.                                              *)
LEMMA SearchSeparates ==
  ASSUME Invariant, TableInv, TryFanin \/ TryFanout
  PROVE  Separates(Asked, AskedWith)
<1>1. /\ TypeInv /\ AlgoTypes /\ net \in Network /\ walk \in Walk
      /\ Right(tts, pats) /\ Fits(tts, pats) /\ pats # <<>>
      /\ Extends(tts, tts) /\ pats \in Seq(InputVector)
  <2>1. Fits(tts, pats)
    BY DEF Invariant, TypeInv, AlgoTypes
  <2>2. \A n \in Node : Len(tts[n]) \in Nat
    BY <2>1 DEF Fits
  <2> QED BY <2>1, <2>2 DEF Invariant, TypeInv, SubstTypes, AlgoTypes, TableInv, Extends
<1>2. walk.root \in Node /\ walk.items \in Seq(Node) /\ walk.tfi \in Seq(Node)
      /\ walk.j \in Nat \ {0} /\ walk.k \in Nat \ {0}
  BY <1>1 DEF Walk
<1>3. /\ phase \in {"fanins", "fanouts"} /\ Asked = walk.root /\ UNCHANGED hist
      /\ Len(tts[walk.root]) = Len(pats)
  BY DEF TryFanin, TryFanout, Asked, SimInv, Invariant
<1>4. \A n \in Node : walk'.tfi = Append(walk.tfi, n) => AskedWith = n
  <2> SUFFICES ASSUME NEW n \in Node, walk'.tfi = Append(walk.tfi, n)
               PROVE  Last(walk'.tfi) = n
    BY <1>3 DEF AskedWith
  <2>1. Append(walk.tfi, n)[Len(Append(walk.tfi, n))] = n
    BY <1>2
  <2> QED BY <2>1 DEF Last
<1>5. CASE tts' = tts /\ pats' = pats
  BY <1>1, <1>5 DEF Separates
<1>6. CASE TryFanin
  <2> DEFINE n == Head(walk.items)
             tfi == Append(walk.tfi, n)
  <2>1. n \in Node
    <3>1. walk.items # <<>>
      BY <1>6 DEF TryFanin
    <3> QED BY <1>2, <3>1
  <2>2. CASE \E keep \in BOOLEAN :
               /\ TryNode(walk.root, n, tts, keep)
               /\ walk' = [walk EXCEPT !.tfi = tfi, !.keep = keep,
                                       !.items = IF kept' THEN Tail(@) ELSE <<>>]
    <3> HIDE DEF n
    <3>1. PICK keep \in BOOLEAN :
               /\ TryNode(walk.root, n, tts, keep)
               /\ walk' = [walk EXCEPT !.tfi = tfi, !.keep = keep,
                                       !.items = IF kept' THEN Tail(@) ELSE <<>>]
      BY <2>2
    <3>2. walk'.tfi = tfi
      BY <1>1, <3>1 DEF Walk
    <3>3. Separates(walk.root, n)
      BY <1>1, <1>2, <1>3, <2>1, <3>1, TryNodeSeparates DEF Invariant
    <3> QED BY <1>3, <1>4, <2>1, <3>2, <3>3
  <2>3. \/ tts' = tts /\ pats' = pats
        \/ \E keep \in BOOLEAN :
               /\ TryNode(walk.root, n, tts, keep)
               /\ walk' = [walk EXCEPT !.tfi = tfi, !.keep = keep,
                                       !.items = IF kept' THEN Tail(@) ELSE <<>>]
    BY <1>6 DEF TryFanin
  <2> QED BY <1>5, <2>2, <2>3
<1>7. CASE TryFanout
  <2> DEFINE p == net.fanout[Spread][walk.k]
             t == CheckTts(p)
  <2>1. Exploring /\ ~NodeDone
    BY <1>7 DEF TryFanout
  <2>2. p \in Node
    <3>1. Spread \in Node
      BY <1>2, <2>1 DEF Exploring, Spread
    <3>2. walk.k <= Len(net.fanout[Spread]) /\ net.fanout[Spread] \in Seq(Gate)
      BY <1>1, <1>2, <2>1, <3>1 DEF NodeDone, Network
    <3>3. p \in Gate
      BY <1>2, <3>2
    <3> HIDE DEF p
    <3> QED BY <3>3, NodeFacts
  <2>3. \/ tts' = tts /\ pats' = pats
        \/ \E keep \in BOOLEAN :
             /\ TryNode(walk.root, p, t, keep)
             /\ walk' = [walk EXCEPT !.tfi = Append(@, p), !.keep = keep,
                                     !.k = @ + 1]
    BY <1>7 DEF TryFanout
  <2> HIDE DEF p
  <2>4. /\ Fits(t, pats) /\ Right(t, pats) /\ Extends(tts, t)
        /\ Len(t[walk.root]) = Len(pats)
    BY <1>1, <1>2, <1>3, <2>2, CheckTtsType, CheckTtsGrows
  <2> HIDE DEF t
  <2>5. CASE \E keep \in BOOLEAN :
               /\ TryNode(walk.root, p, t, keep)
               /\ walk' = [walk EXCEPT !.tfi = Append(@, p), !.keep = keep,
                                       !.k = @ + 1]
    <3>1. PICK keep \in BOOLEAN :
               /\ TryNode(walk.root, p, t, keep)
               /\ walk' = [walk EXCEPT !.tfi = Append(@, p), !.keep = keep,
                                       !.k = @ + 1]
      BY <2>5
    <3>2. walk'.tfi = Append(walk.tfi, p)
      BY <1>1, <3>1 DEF Walk
    <3>3. Separates(walk.root, p)
      BY <1>1, <1>2, <1>3, <2>2, <2>4, <3>1, TryNodeSeparates DEF Invariant
    <3> QED BY <1>3, <1>4, <2>2, <3>2, <3>3
  <2> QED BY <1>5, <2>3, <2>5
<1> QED BY <1>6, <1>7

(* What one step of the pass adds, and that the tables stay right.         *)
LEMMA TablesStep ==
  ASSUME Invariant, TableInv, [Next]_vars
  PROVE  /\ TableInv'
         /\ Extends(tts, tts')
         /\ pats' # pats => Separates(Asked, AskedWith)
<1>1. /\ TypeInv /\ AlgoTypes /\ Right(tts, pats) /\ Fits(tts, pats)
      /\ Extends(tts, tts) /\ pats \in Seq(InputVector) /\ pats # <<>>
  <2>1. Fits(tts, pats)
    BY DEF Invariant, TypeInv, AlgoTypes
  <2>2. \A n \in Node : Len(tts[n]) \in Nat
    BY <2>1 DEF Fits
  <2> QED BY <2>1, <2>2 DEF Invariant, TypeInv, AlgoTypes, TableInv, Extends
<1>2. UNCHANGED hist
  BY DEF Next, SelectConstants, TryConstant, LoadClasses, NextKey, TryFanin,
         EndFanins, NextNode, TryFanout, EndFanouts, NextMember, EndClass,
         EndClasses, SubstitutionStep, FollowMoved, TakeTurn, ReplaceParent,
         FinishTurn, Returned, vars
<1>3. ASSUME pats' = pats, Right(tts', pats), Extends(tts, tts'),
             phase' \notin {"select", "consts"}
      PROVE  TableInv' /\ Extends(tts, tts')
  <2>1. Right(tts, pats)'
    BY <1>2, <1>3 DEF Right, RightAt, hist
  <2> QED BY <1>1, <1>3, <2>1 DEF TableInv
<1>4. CASE SelectConstants
  <2>1. /\ phase = "select" /\ phase' = "consts" /\ pats' = pats
        /\ tts' = [n \in Node |-> Values(pats, n)]
    BY <1>4 DEF SelectConstants
  <2>2. \A n \in Node : /\ Len(tts'[n]) = Len(pats)
                        /\ \A i \in 1 .. Len(pats) : tts'[n][i] = (pats[i] \in func[n])
    <3> SUFFICES ASSUME NEW n \in Node
                 PROVE  /\ Len(tts'[n]) = Len(pats)
                        /\ \A i \in 1 .. Len(pats) : tts'[n][i] = (pats[i] \in func[n])
      OBVIOUS
    <3>1. tts'[n] = [i \in 1 .. Len(pats) |-> pats[i] \in func[n]]
      BY <2>1 DEF Values
    <3>2. Len(tts'[n]) = Len(pats)
      BY <1>1, <3>1
    <3> QED BY <3>1, <3>2, Zenon
  <2>3. Right(tts, pats)'
    BY <1>2, <2>1, <2>2, Zenon DEF Right, RightAt, hist
  <2>4. \A n \in Node : Len(tts[n]) = 0
    BY <2>1 DEF TableInv
  <2>5. Extends(tts, tts')
    BY <1>1, <2>2, <2>4 DEF Extends
  <2> QED BY <1>1, <2>1, <2>2, <2>3, <2>5, NodeFacts DEF TableInv
<1>5. CASE TryConstant
  <2>1. /\ Separates(Asked, AskedWith) /\ Len(tts'[0]) = Len(pats')
    BY <1>1, <1>5, TryConstantSeparates
  <2>2. phase' = "consts"
    BY <1>5 DEF TryConstant
  <2>3. Right(tts, pats)'
    BY <1>2, <2>1 DEF Separates, Right, RightAt, hist
  <2> QED BY <2>1, <2>2, <2>3 DEF TableInv, Separates
<1>6. CASE TryFanin \/ TryFanout
  <2>1. Separates(Asked, AskedWith)
    BY <1>6, SearchSeparates
  <2>2. phase' \in {"fanins", "fanouts"}
    BY <1>6 DEF TryFanin, TryFanout
  <2>3. Right(tts, pats)'
    BY <1>2, <2>1 DEF Separates, Right, RightAt, hist
  <2> QED BY <2>1, <2>2, <2>3 DEF TableInv, Separates
<1>7. CASE NextKey \/ NextMember
  <2>1. \E n : tts' = CheckTts(n)
    BY <1>7 DEF NextKey, NextMember
  <2>2. pats' = pats /\ phase' = "fanins"
    BY <1>7 DEF NextKey, NextMember
  <2>3. Right(tts', pats) /\ Extends(tts, tts')
    BY <1>1, <2>1, CheckTtsGrows
  <2> QED BY <1>3, <2>2, <2>3
<1>8. CASE LoadClasses \/ EndFanins \/ NextNode \/ EndFanouts \/ EndClass \/ EndClasses
  <2>1. tts' = tts /\ pats' = pats /\ phase' \notin {"select", "consts"}
    BY <1>8 DEF LoadClasses, EndFanins, NextNode, EndFanouts, EndClass, EndClasses
  <2> QED BY <1>1, <1>3, <2>1
<1>9. CASE SubstitutionStep \/ Returned \/ UNCHANGED vars
  <2>1. tts' = tts /\ pats' = pats /\ phase' = phase
    BY <1>9 DEF SubstitutionStep, FollowMoved, TakeTurn, ReplaceParent,
                FinishTurn, Returned, vars, algo
  <2>2. Right(tts, pats)'
    BY <1>1, <1>2, <2>1 DEF Right, RightAt, hist
  <2> QED BY <1>1, <2>1, <2>2 DEF TableInv
<1> QED BY <1>4, <1>5, <1>6, <1>7, <1>8, <1>9 DEF Next

(* What a table says is never taken back, and a pattern that is added      *)
(* separates the two nodes that were asked about; when the simulator has   *)
(* the pattern, one of their tables has it wrong.                          *)
THEOREM CounterexamplesTell == Spec => CounterexamplesSeparate
<1>1. Init => TableInv
  <2> SUFFICES ASSUME Init PROVE TableInv
    OBVIOUS
  <2>1. PICK d \in Designs : /\ phase = "select" /\ pats = d.pats
                             /\ tts = [n \in Node |-> <<>>]
    BY DEF Init
  <2>2. pats # <<>>
    BY <2>1, DesignsAssumption DEF IsDesign
  <2> QED BY <2>1, <2>2 DEF TableInv, Right
<1>2. Invariant /\ TableInv /\ [Next]_vars => TableInv'
  BY TablesStep
<1>3. Invariant /\ Invariant' /\ TableInv /\ [Next]_vars =>
        [/\ \A n \in Node : IsPrefix(tts[n], tts'[n])
         /\ pats' # pats =>
              /\ ToldApart(Asked, AskedWith)
              /\ \A i \in DOMAIN pats : pats[i] = NewPattern =>
                   HasWrong(Asked, i) \/ HasWrong(AskedWith, i)]_vars
  <2> SUFFICES ASSUME Invariant, Invariant', TableInv, [Next]_vars
               PROVE  /\ \A n \in Node : IsPrefix(tts[n], tts'[n])
                      /\ pats' # pats =>
                           /\ ToldApart(Asked, AskedWith)
                           /\ \A i \in DOMAIN pats : pats[i] = NewPattern =>
                                HasWrong(Asked, i) \/ HasWrong(AskedWith, i)
    OBVIOUS
  <2>1. /\ tts \in [Node -> Seq(BOOLEAN)] /\ tts' \in [Node -> Seq(BOOLEAN)]
        /\ Extends(tts, tts')
    BY TablesStep DEF Invariant, TypeInv, AlgoTypes, Fits
  <2>2. \A n \in Node : IsPrefix(tts[n], tts'[n])
    BY <2>1, ExtendsIsPrefix
  <2>3. pats' # pats => Separates(Asked, AskedWith)
    BY TablesStep
  <2> QED BY <2>2, <2>3 DEF Separates
<1> QED BY <1>1, <1>2, <1>3, InvariantHolds, PTL DEF Spec, CounterexamplesSeparate

-----------------------------------------------------------------------------
(***************************************************************************)
(* What the walk and the fall have found when they end.                    *)
(***************************************************************************)
(* The numbers of gates, as many as NumGates.                              *)
LEMMA GateCount ==
  /\ IsFiniteSet(Gate) /\ Cardinality(Gate) = NumGates
  /\ \A S \in SUBSET Gate :
       IsFiniteSet(S) /\ Cardinality(S) \in Nat /\ Cardinality(S) <= NumGates
<1>1. NumPis \in Nat /\ NumGates \in Nat
  BY SizesAssumption
<1>2. IsFiniteSet(Gate) /\ Cardinality(Gate) = NumGates
  <2>1. PICK a \in Int, b \in Int : a = NumPis + 1 /\ b = NumPis + NumGates
    BY <1>1
  <2>2. /\ IsFiniteSet(a .. b)
        /\ Cardinality(a .. b) = IF a > b THEN 0 ELSE b - a + 1
    BY FS_Interval
  <2> QED BY <1>1, <2>1, <2>2 DEF Gate
<1>3. \A S \in SUBSET Gate : IsFiniteSet(S) /\ Cardinality(S) <= Cardinality(Gate)
  BY <1>2, FS_Subset
<1> QED BY <1>2, <1>3, FS_CardinalityType

(* A node that is met has its fanins met as well, or still to be met.      *)
WalkSound(net1, n1, seen, s) ==
  /\ IsInjective(s.order)
  /\ s.seen = seen \cup ToSet(s.order)
  /\ ToSet(s.order) \cap seen = {}
  /\ n1 \in s.seen \cup ToSet(s.stack)
  /\ \A g \in ToSet(s.order) : Fanins(net1, g) \subseteq s.seen \cup ToSet(s.stack)

(* A round of the walk keeps that, and takes a node off the stack or puts  *)
(* two there for one that is met for the first time.                       *)
LEMMA VisitKeeps ==
  ASSUME NEW net1, net1.kids \in [Gate -> Key], NEW n1 \in Node,
         NEW seen \in SUBSET Node, NEW s \in Walking(seen),
         WalkSound(net1, n1, seen, s), s.stack # <<>>
  PROVE  /\ WalkSound(net1, n1, seen, VisitNext(net1, s))
         /\ \/ /\ Len(VisitNext(net1, s).stack) = Len(s.stack) - 1
               /\ Len(VisitNext(net1, s).order) = Len(s.order)
            \/ /\ Len(VisitNext(net1, s).stack) <= Len(s.stack) + 1
               /\ Len(VisitNext(net1, s).order) = Len(s.order) + 1
<1> DEFINE m == Head(s.stack)
           rest == Tail(s.stack)
           next == VisitNext(net1, s)
<1>1. /\ s.stack \in Seq(Node) /\ s.order \in Seq(Node \ seen)
      /\ s.seen \in SUBSET Node
  BY DEF Walking
<1>2. /\ m \in Node /\ rest \in Seq(Node) /\ Len(rest) = Len(s.stack) - 1
      /\ ToSet(s.stack) = {m} \cup ToSet(rest)
      /\ Len(s.stack) \in Nat /\ Len(s.order) \in Nat
  BY <1>1, TailParts
<1>3. CASE m \in s.seen
  <2>1. next = [stack |-> rest, seen |-> s.seen, order |-> s.order]
    BY <1>3 DEF VisitNext, Walking
  <2> HIDE DEF m, rest, next
  <2>2. WalkSound(net1, n1, seen, next)
    BY <1>2, <1>3, <2>1 DEF WalkSound
  <2> QED BY <1>2, <2>1, <2>2 DEF next
<1>4. CASE m \notin s.seen
  <2> DEFINE fs == FaninSeq(net1, m)
  <2>1. next = [stack |-> fs \o rest, seen |-> s.seen \cup {m},
                order |-> Append(s.order, m)]
    BY <1>4, Zenon DEF VisitNext
  <2>2. /\ fs \in Seq(Node) /\ ToSet(fs) = Fanins(net1, m) /\ Len(fs) <= 2
        /\ Len(fs) \in Nat
    <3>1. fs \in Seq(Node) /\ Len(fs) \in Nat
      BY FaninTypes
    <3>2. CASE m \in Gate
      <4> DEFINE a == net1.kids[m][1].node
                 b == net1.kids[m][2].node
      <4>1. fs = <<a, b>> /\ Fanins(net1, m) = {a, b}
        BY <3>2 DEF FaninSeq, Fanins
      <4> HIDE DEF a, b, fs
      <4>2. Len(fs) <= 2 /\ ToSet(fs) = {a, b}
        BY <4>1 DEF ToSet
      <4> QED BY <3>1, <4>1, <4>2, Zenon
    <3>3. CASE m \notin Gate
      <4>1. fs = <<>> /\ Fanins(net1, m) = {}
        BY <3>3 DEF FaninSeq, Fanins
      <4>2. ToSet(<<>>) = {} /\ Len(<<>>) <= 2
        BY DEF ToSet
      <4> HIDE DEF fs
      <4> QED BY <3>1, <4>1, <4>2, Zenon
    <3> QED BY <3>2, <3>3
  <2> HIDE DEF m, rest, next, fs
  <2>3. ToSet(fs \o rest) = Fanins(net1, m) \cup ToSet(rest)
        /\ Len(fs \o rest) = Len(fs) + Len(rest)
    BY <1>2, <2>2, ConcatParts
  <2>4. m \notin seen /\ m \notin ToSet(s.order)
    BY <1>4 DEF WalkSound
  <2>5. /\ IsInjective(Append(s.order, m))
        /\ ToSet(Append(s.order, m)) = ToSet(s.order) \cup {m}
        /\ Len(Append(s.order, m)) = Len(s.order) + 1
    <3> DEFINE X == Node \ seen
    <3>1. s.order \in Seq(X) /\ m \in X /\ IsInjective(s.order)
      BY <1>1, <1>2, <2>4 DEF WalkSound
    <3> HIDE DEF X
    <3> QED BY <2>4, <3>1, AppendOnce, AppendFacts
  <2>6. WalkSound(net1, n1, seen, next)
    <3>1. /\ next.order = Append(s.order, m) /\ next.seen = s.seen \cup {m}
          /\ next.stack = fs \o rest
      BY <2>1
    <3>2. next.seen = seen \cup ToSet(next.order)
      BY <2>5, <3>1 DEF WalkSound
    <3>3. ToSet(next.order) \cap seen = {}
      BY <2>4, <2>5, <3>1 DEF WalkSound
    <3>4. n1 \in next.seen \cup ToSet(next.stack)
      BY <1>2, <2>3, <3>1 DEF WalkSound
    <3>5. ASSUME NEW g \in ToSet(next.order)
          PROVE  Fanins(net1, g) \subseteq next.seen \cup ToSet(next.stack)
      <4>1. CASE g = m
        BY <2>3, <3>1, <4>1
      <4>2. CASE g \in ToSet(s.order)
        BY <1>2, <2>3, <3>1, <4>2 DEF WalkSound
      <4> QED BY <2>5, <3>1, <3>5, <4>1, <4>2
    <3> QED BY <2>5, <3>1, <3>2, <3>3, <3>4, <3>5 DEF WalkSound
  <2>7. Len(next.stack) <= Len(s.stack) + 1 /\ Len(next.order) = Len(s.order) + 1
    <3>1. Len(next.stack) = Len(fs) + Len(rest)
      BY <2>1, <2>3
    <3>2. Len(next.order) = Len(s.order) + 1
      BY <2>1, <2>5
    <3> QED BY <1>2, <2>2, <3>1, <3>2
  <2> QED BY <2>6, <2>7 DEF next
<1> QED BY <1>3, <1>4

(* When only gates are unseen, the walk has rounds enough to end: it meets *)
(* the node it starts from and, with each node, the fanins not seen before. *)
LEMMA PreorderFinds ==
  ASSUME NEW net1, net1.kids \in [Gate -> Key], NEW n1 \in Node,
         NEW seen \in SUBSET Node, Node \ seen \subseteq Gate,
         NEW back, back = Preorder(net1, <<n1>>, seen)
  PROVE  /\ back \in Seq(Gate) /\ IsInjective(back)
         /\ ToSet(back) \cap seen = {}
         /\ n1 \in seen \cup ToSet(back)
         /\ \A g \in ToSet(back) : Fanins(net1, g) \subseteq seen \cup ToSet(back)
<1> DEFINE n == 2 * NumGates + 1
           start == <<n1>>
           Fuel(s, i) == s.stack = <<>> \/ Len(s.stack) + i <= 1 + 2 * Len(s.order)
<1>1. start \in Seq(Node) /\ Len(start) = 1 /\ ToSet(start) = {n1}
  BY DEF ToSet
<1> HIDE DEF start
<1>2. n \in Nat /\ NumGates \in Nat
  BY NodeFacts
<1>3. PICK run \in [0 .. n -> Walking(seen)] : PreorderOf(run, net1, start, seen)
  BY <1>1, PreorderRun
<1> DEFINE T == {i \in 0 .. n : WalkSound(net1, n1, seen, run[i]) /\ Fuel(run[i], i)}
<1>4. /\ run[0] = [stack |-> start, seen |-> seen, order |-> <<>>]
      /\ \A i \in 1 .. n : run[i] = VisitNext(net1, run[i - 1])
      /\ back = run[n].order
  BY <1>1, <1>3 DEF PreorderOf, start
<1>5. 0 \in T
  <2>1. WalkSound(net1, n1, seen, run[0])
    <3>1. IsInjective(<<>>) /\ ToSet(<<>>) = {}
      BY DEF IsInjective, ToSet
    <3> QED BY <1>1, <1>4, <3>1 DEF WalkSound
  <2>2. Fuel(run[0], 0)
    <3>1. run[0].stack = start /\ run[0].order = <<>>
      BY <1>4
    <3>2. Len(run[0].stack) = 1 /\ Len(run[0].order) = 0
      BY <1>1, <3>1
    <3>3. 1 + 0 <= 1 + 2 * 0
      OBVIOUS
    <3> QED BY <3>2, <3>3, Zenon
  <2> QED BY <1>2, <2>1, <2>2
<1>6. ASSUME NEW i \in 0 .. n - 1, i \in T PROVE i + 1 \in T
  <2> DEFINE s == run[i]
  <2>1. /\ s \in Walking(seen) /\ run[i + 1] = VisitNext(net1, s) /\ i + 1 \in 0 .. n
        /\ i \in Nat
    <3>1. i + 1 \in 1 .. n /\ i + 1 \in 0 .. n /\ (i + 1) - 1 = i /\ i \in 0 .. n
          /\ i \in Nat
      BY <1>2
    <3> QED BY <1>3, <1>4, <3>1
  <2>2. WalkSound(net1, n1, seen, s) /\ Fuel(s, i)
    BY <1>6
  <2> HIDE DEF s
  <2>3. Len(s.stack) \in Nat /\ Len(s.order) \in Nat
    BY <2>1 DEF Walking
  <2>4. CASE s.stack = <<>>
    <3>1. VisitNext(net1, s) = s
      BY <2>4 DEF VisitNext
    <3> QED BY <2>1, <2>2, <2>4, <3>1
  <2>5. CASE s.stack # <<>>
    <3> DEFINE t == VisitNext(net1, s)
    <3>1. /\ WalkSound(net1, n1, seen, t)
          /\ \/ Len(t.stack) = Len(s.stack) - 1 /\ Len(t.order) = Len(s.order)
             \/ Len(t.stack) <= Len(s.stack) + 1 /\ Len(t.order) = Len(s.order) + 1
      BY <2>1, <2>2, <2>5, VisitKeeps
    <3>2. t \in Walking(seen)
      <4>1. run[i + 1] \in Walking(seen)
        BY <1>3, <2>1
      <4> QED BY <2>1, <4>1
    <3> HIDE DEF t
    <3>3. Len(t.stack) \in Nat /\ Len(t.order) \in Nat
      BY <3>2 DEF Walking
    <3>4. Len(t.stack) + (i + 1) <= 1 + 2 * Len(t.order)
      <4>1. Len(s.stack) + i <= 1 + 2 * Len(s.order)
        BY <2>2, <2>5
      <4>2. PICK a \in Nat, b \in Nat, c \in Nat, e \in Nat :
              /\ a = Len(s.stack) /\ b = Len(s.order)
              /\ c = Len(t.stack) /\ e = Len(t.order)
        BY <2>3, <3>3
      <4>3. i \in Nat /\ a + i <= 1 + 2 * b
            /\ \/ c = a - 1 /\ e = b
               \/ c <= a + 1 /\ e = b + 1
        BY <2>1, <3>1, <4>1, <4>2
      <4>4. c + (i + 1) <= 1 + 2 * e
        <5> HIDE DEF s, t, n, Fuel, T
        <5> QED BY <4>3
      <4> QED BY <4>2, <4>4
    <3>5. run[i + 1] = t
      BY <2>1 DEF t
    <3> QED BY <2>1, <3>1, <3>4, <3>5
  <2> QED BY <2>4, <2>5
<1>7. n \in T
  <2> HIDE DEF T, n
  <2>1. \A i \in 0 .. n : i \in T
    BY <1>2, <1>5, <1>6, UpTo
  <2> QED BY <1>2, <2>1
<1> DEFINE s == run[n]
<1>8. WalkSound(net1, n1, seen, s) /\ Fuel(s, n) /\ s \in Walking(seen)
  BY <1>2, <1>3, <1>7
<1>9. back = s.order
  BY <1>4
<1> HIDE DEF s, T
<1>10. back \in Seq(Gate) /\ IsInjective(back)
  <2>1. s.order \in Seq(Node \ seen)
    BY <1>8 DEF Walking
  <2> QED BY <1>8, <1>9, <2>1 DEF WalkSound
<1>11. Len(back) <= NumGates /\ Len(back) \in Nat
  <2>1. ToSet(back) \in SUBSET Gate
    BY <1>10 DEF ToSet
  <2>2. Cardinality(ToSet(back)) = Len(back)
    BY <1>10, InjectiveLength
  <2> QED BY <2>1, <2>2, GateCount
<1>12. s.stack = <<>>
  <2>1. s.stack \in Seq(Node)
    BY <1>8 DEF Walking
  <2> SUFFICES ASSUME s.stack # <<>> PROVE FALSE
    OBVIOUS
  <2>2. Len(s.stack) + n <= 1 + 2 * Len(s.order)
    BY <1>8
  <2>3. PICK a \in Nat, b \in Nat : a = Len(s.stack) /\ b = Len(s.order) /\ a # 0
    BY <1>9, <1>11, <2>1
  <2>4. a + (2 * NumGates + 1) <= 1 + 2 * b /\ b <= NumGates /\ a # 0
    BY <1>9, <1>11, <2>2, <2>3
  <2>5. NumGates \in Nat
    BY <1>2
  <2> HIDE DEF n, Fuel
  <2> QED BY <2>4, <2>5
<1>13. ToSet(s.stack) = {}
  BY <1>12 DEF ToSet
<1> QED BY <1>8, <1>9, <1>10, <1>13 DEF WalkSound

-----------------------------------------------------------------------------
(***************************************************************************)
(* What finds the gates: the hash, and the lists of the parents.           *)
(***************************************************************************)
(* LookupsSound of a network, and two more facts that it rests on.         *)
NetSound(n) ==
  /\ \A k \in DOMAIN n.hash : n.hash[k] \notin n.dead /\ n.kids[n.hash[k]] = k
  /\ \A m \in Node :
       ToSet(n.fanout[m]) \subseteq Parents(n, m) /\ IsInjective(n.fanout[m])
  /\ \A g \in Gate : n.kids[g][1].node # n.kids[g][2].node
  /\ \A m \in n.dead : n.refs[m] = 0

(* The gates of a walk that have m as a fanin, in the order they are met.  *)
UsesIn(net1, back, m) == Sublist(back, {g \in Gate : m \in Fanins(net1, g)})

UsesAre(net1, back, m) ==
  /\ UsesIn(net1, back, m) \in Seq(Gate)
  /\ Len(UsesIn(net1, back, m)) \in Nat
  /\ IsInjective(UsesIn(net1, back, m))
  /\ ToSet(UsesIn(net1, back, m)) = {g \in ToSet(back) : m \in Fanins(net1, g)}

LEMMA UsesInFacts ==
  ASSUME NEW net1, NEW back \in Seq(Gate), IsInjective(back), NEW m
  PROVE  UsesAre(net1, back, m)
<1> DEFINE S == {g \in Gate : m \in Fanins(net1, g)}
<1>1. UsesIn(net1, back, m) = Sublist(back, S)
  BY DEF UsesIn
<1>2. ToSet(back) \subseteq Gate
  BY DEF ToSet
<1>3. ToSet(back) \cap S = {g \in ToSet(back) : m \in Fanins(net1, g)}
  BY <1>2
<1> HIDE DEF S
<1>4. Sublist(back, S) \in Seq(Gate)
  <2>1. Sublist(back, S) \in Seq(Gate \cap S)
    BY SublistType
  <2> QED BY <2>1
<1> QED BY <1>1, <1>3, <1>4, SublistOnce DEF UsesAre

(* The gates revive_node brings back, in the order they come.              *)
Returning(net1, n1) == Preorder(net1, <<n1>>, Node \ net1.dead)

(* What it does to each part of the network.                               *)
RevivedBy(net1, n1, new, back) ==
  /\ back \in Seq(Gate) /\ IsInjective(back) /\ ToSet(back) \subseteq net1.dead
  /\ n1 \in ToSet(back)
  /\ \A g \in ToSet(back) : Fanins(net1, g) \cap net1.dead \subseteq ToSet(back)
  /\ new.kids = net1.kids /\ new.outs = net1.outs
  /\ new.dead = net1.dead \ ToSet(back)
  /\ \A m \in Node :
       /\ new.refs[m] = net1.refs[m] + Len(UsesIn(net1, back, m))
       /\ new.fanout[m] = net1.fanout[m] \o UsesIn(net1, back, m)
  /\ \A k \in DOMAIN new.hash :
       \/ k \in DOMAIN net1.hash /\ new.hash[k] = net1.hash[k]
       \/ new.hash[k] \in ToSet(back) /\ net1.kids[new.hash[k]] = k

LEMMA ReviveFacts ==
  ASSUME NEW net1 \in Network, NEW n1 \in net1.dead
  PROVE  RevivedBy(net1, n1, ReviveNode(net1, n1), Returning(net1, n1))
<1>0. PICK new, back : new = ReviveNode(net1, n1) /\ back = Returning(net1, n1)
  OBVIOUS
<1> DEFINE seen == Node \ net1.dead
           alive == ToSet(back)
           Latest(k) == CHOOSE i \in DOMAIN back :
                          /\ net1.kids[back[i]] = k
                          /\ \A j \in DOMAIN back : net1.kids[back[j]] = k => j <= i
           keys == {net1.kids[g] : g \in alive}
           hash == [k \in DOMAIN net1.hash \cup keys |->
                      IF k \in keys THEN back[Latest(k)] ELSE net1.hash[k]]
           refs == [m \in Node |-> net1.refs[m] + Len(UsesIn(net1, back, m))]
           fanout == [m \in Node |-> net1.fanout[m] \o UsesIn(net1, back, m)]
<1>1. net1.kids \in [Gate -> Key] /\ net1.dead \in SUBSET Gate /\ n1 \in Node
      /\ Node \ seen = net1.dead
  BY NodeFacts DEF Network
<1>2. /\ back \in Seq(Gate) /\ IsInjective(back)
      /\ ToSet(back) \cap seen = {}
      /\ n1 \in seen \cup ToSet(back)
      /\ \A g \in ToSet(back) : Fanins(net1, g) \subseteq seen \cup ToSet(back)
  <2>1. seen \in SUBSET Node /\ Node \ seen \subseteq Gate
    BY <1>1
  <2>2. back = Preorder(net1, <<n1>>, seen)
    BY <1>0 DEF Returning
  <2> HIDE DEF seen
  <2> QED BY <1>1, <2>1, <2>2, PreorderFinds
<1>3. ToSet(back) \subseteq Gate /\ Gate \subseteq Node
  BY <1>2, NodeFacts DEF ToSet
<1>4. new = [kids |-> net1.kids, outs |-> net1.outs, dead |-> net1.dead \ alive,
             hash |-> hash, refs |-> refs, fanout |-> fanout]
  <2>1. new = [net1 EXCEPT !.dead = @ \ alive, !.hash = hash, !.refs = refs,
                           !.fanout = fanout]
    BY <1>0 DEF ReviveNode, UsesIn, Returning
  <2> HIDE DEF alive, hash, refs, fanout
  <2> QED BY <2>1 DEF Network
<1>5. ASSUME NEW k \in DOMAIN hash
      PROVE  \/ k \in DOMAIN net1.hash /\ hash[k] = net1.hash[k]
             \/ hash[k] \in ToSet(back) /\ net1.kids[hash[k]] = k
  <2>1. CASE k \in keys
    <3> DEFINE S == {i \in DOMAIN back : net1.kids[back[i]] = k}
    <3>1. DOMAIN back = 1 .. Len(back) /\ Len(back) \in Nat
      BY <1>2
    <3>2. S # {}
      BY <2>1 DEF ToSet
    <3>3. Max(S) \in S /\ \A i \in S : Max(S) >= i
      BY <3>1, <3>2, MaxOfInterval
    <3>4. \E i \in DOMAIN back :
            /\ net1.kids[back[i]] = k
            /\ \A j \in DOMAIN back : net1.kids[back[j]] = k => j <= i
      BY <3>1, <3>3
    <3>5. Latest(k) \in DOMAIN back /\ net1.kids[back[Latest(k)]] = k
      BY <3>4
    <3> HIDE DEF Latest, keys, S
    <3>6. hash[k] = back[Latest(k)]
      BY <2>1
    <3>7. hash[k] \in ToSet(back)
      BY <3>5, <3>6 DEF ToSet
    <3> QED BY <3>5, <3>6, <3>7
  <2>2. CASE k \notin keys
    <3> HIDE DEF Latest, keys
    <3> QED BY <1>5, <2>2
  <2> QED BY <2>1, <2>2
<1>6. /\ new.kids = net1.kids /\ new.outs = net1.outs
      /\ new.dead = net1.dead \ alive /\ new.hash = hash
      /\ new.refs = refs /\ new.fanout = fanout
  <2> HIDE DEF alive, hash, refs, fanout
  <2> QED BY <1>4
<1>7. \A m \in Node :
        /\ refs[m] = net1.refs[m] + Len(UsesIn(net1, back, m))
        /\ fanout[m] = net1.fanout[m] \o UsesIn(net1, back, m)
  OBVIOUS
<1> HIDE DEF hash, refs, fanout
<1>8. ToSet(back) \subseteq net1.dead /\ n1 \in ToSet(back)
      /\ \A g \in ToSet(back) : Fanins(net1, g) \cap net1.dead \subseteq ToSet(back)
  BY <1>1, <1>2, <1>3
<1>9. RevivedBy(net1, n1, new, back)
  BY <1>2, <1>5, <1>6, <1>7, <1>8 DEF RevivedBy
<1> QED BY <1>0, <1>9

(* What comes back is found again, by those that have it as a fanin.       *)
LEMMA ReviveSound ==
  ASSUME NEW net1 \in Network, NEW n1 \in net1.dead, NetSound(net1)
  PROVE  NetSound(ReviveNode(net1, n1)) /\ n1 \notin ReviveNode(net1, n1).dead
<1>0. PICK new, back : new = ReviveNode(net1, n1) /\ back = Returning(net1, n1)
  OBVIOUS
<1> DEFINE Uses(m) == UsesIn(net1, back, m)
<1>1. RevivedBy(net1, n1, new, back)
  BY <1>0, ReviveFacts
<1>2. ASSUME NEW m \in Node
      PROVE  /\ Uses(m) \in Seq(Gate) /\ IsInjective(Uses(m))
             /\ ToSet(Uses(m)) = {g \in ToSet(back) : m \in Fanins(net1, g)}
  <2>1. back \in Seq(Gate) /\ IsInjective(back)
    BY <1>1 DEF RevivedBy
  <2>2. UsesAre(net1, back, m)
    BY <2>1, UsesInFacts
  <2> QED BY <2>2 DEF UsesAre
<1> HIDE DEF Uses
<1>3. \A k \in DOMAIN new.hash : new.hash[k] \notin new.dead /\ new.kids[new.hash[k]] = k
  BY <1>1 DEF NetSound, RevivedBy
<1>4. ASSUME NEW m \in Node
      PROVE  ToSet(new.fanout[m]) \subseteq Parents(new, m) /\ IsInjective(new.fanout[m])
  <2>1. /\ net1.fanout[m] \in Seq(Gate) /\ IsInjective(net1.fanout[m])
        /\ ToSet(net1.fanout[m]) \subseteq Parents(net1, m)
    BY DEF NetSound, Network
  <2>2. ToSet(net1.fanout[m]) \cap ToSet(Uses(m)) = {}
    BY <1>1, <1>2, <2>1 DEF Parents, RevivedBy
  <2>3. /\ ToSet(new.fanout[m]) = ToSet(net1.fanout[m]) \cup ToSet(Uses(m))
        /\ IsInjective(new.fanout[m])
    <3>1. new.fanout[m] = net1.fanout[m] \o Uses(m)
      BY <1>1 DEF RevivedBy, Uses
    <3>2. Uses(m) \in Seq(Gate) /\ IsInjective(Uses(m))
      BY <1>2
    <3> QED BY <2>1, <2>2, <3>1, <3>2, ConcatParts
  <2>4. Parents(net1, m) \subseteq Parents(new, m)
    BY <1>1 DEF Parents, Fanins, RevivedBy
  <2>5. ToSet(Uses(m)) \subseteq Parents(new, m)
    <3>1. ToSet(back) \subseteq Gate
      BY <1>1 DEF ToSet, RevivedBy
    <3> QED BY <1>1, <1>2, <3>1 DEF Parents, Fanins, RevivedBy
  <2> QED BY <2>1, <2>3, <2>4, <2>5
<1>5. \A g \in Gate : new.kids[g][1].node # new.kids[g][2].node
  BY <1>1 DEF NetSound, RevivedBy
<1>6. ASSUME NEW m \in new.dead PROVE new.refs[m] = 0
  <2>1. m \in net1.dead /\ m \notin ToSet(back) /\ m \in Node
    BY <1>1, NodeFacts DEF Network, RevivedBy
  <2>2. ToSet(Uses(m)) = {}
    BY <1>1, <1>2, <2>1 DEF RevivedBy
  <2>3. Uses(m) \in Seq(Gate)
    BY <1>2, <2>1
  <2>4. Uses(m) = <<>>
    <3> SUFFICES ASSUME Uses(m) # <<>> PROVE FALSE
      OBVIOUS
    <3>1. Head(Uses(m)) \in ToSet(Uses(m))
      BY <2>3, TailParts
    <3> QED BY <2>2, <3>1
  <2>5. net1.refs[m] = 0
    BY <2>1 DEF NetSound
  <2>6. Len(Uses(m)) = 0
    BY <2>4
  <2>7. new.refs[m] = net1.refs[m] + Len(Uses(m))
    BY <1>1, <2>1 DEF RevivedBy, Uses
  <2> QED BY <2>5, <2>6, <2>7
<1>7. NetSound(new)
  BY <1>3, <1>4, <1>5, <1>6 DEF NetSound
<1> QED BY <1>0, <1>1, <1>7 DEF RevivedBy

-----------------------------------------------------------------------------
(* The new fanins of a gate are the literal put in and the one that stays. *)
Exchanged(net1, g, old, new) ==
  \E s \in Node \ {old} :
    /\ Fanins(net1, g) = {old, s}
    /\ {NewFanins(net1, g, old, new)[1].node,
        NewFanins(net1, g, old, new)[2].node} = {new.node, s}

LEMMA NewFaninsNodes ==
  ASSUME NEW net1 \in Network, NEW g \in Gate, NEW old \in Fanins(net1, g),
         NEW new \in Literal, net1.kids[g][1].node # net1.kids[g][2].node
  PROVE  Exchanged(net1, g, old, new)
<1> DEFINE k1 == net1.kids[g][1]
           k2 == net1.kids[g][2]
           key == NewFanins(net1, g, old, new)
<1>1. k1 \in Literal /\ k2 \in Literal /\ k1.neg \in BOOLEAN /\ k2.neg \in BOOLEAN
      /\ k1.node \in Node /\ k2.node \in Node
  BY DEF Network, Key, Literal
<1>2. Fanins(net1, g) = {k1.node, k2.node} /\ k1.node # k2.node
  BY DEF Fanins
<1>3. /\ FlipIf(new, k1.neg).node = new.node
      /\ FlipIf(new, k2.neg).node = new.node
  BY <1>1, LiteralFacts
<1>4. CASE k1.node = old
  <2>1. key \in {<<FlipIf(new, k1.neg), k2>>, <<k2, FlipIf(new, k1.neg)>>}
    BY <1>4 DEF NewFanins
  <2> HIDE DEF key
  <2>2. {key[1].node, key[2].node} = {new.node, k2.node}
    BY <1>3, <2>1
  <2> QED BY <1>1, <1>2, <1>4, <2>2 DEF key, Exchanged
<1>5. CASE k2.node = old
  <2>1. key \in {<<FlipIf(new, k2.neg), k1>>, <<k1, FlipIf(new, k2.neg)>>}
    BY <1>2, <1>5 DEF NewFanins
  <2> HIDE DEF key
  <2>2. {key[1].node, key[2].node} = {new.node, k1.node}
    BY <1>3, <2>1
  <2> QED BY <1>1, <1>2, <1>5, <2>2 DEF key, Exchanged
<1> QED BY <1>2, <1>4, <1>5

(* What replace_in_node does to each part of the network.                  *)
RefannedBy(net1, g, old, new, net2) ==
  /\ net2.outs = net1.outs /\ net2.dead = net1.dead
  /\ \A h \in Gate \ {g} : net2.kids[h] = net1.kids[h]
  /\ net2.refs = [net1.refs EXCEPT ![new.node] = @ + 1]
  /\ \E s \in Node \ {old, new.node} :
       Fanins(net1, g) = {old, s} /\ Fanins(net2, g) = {new.node, s}
  /\ \A m \in Node :
       ToSet(net2.fanout[m]) =
         (ToSet(net1.fanout[m]) \ {g}) \cup {h \in {g} : m \in Fanins(net2, g)}

(* A gate that gets another fanin is found by its new fanins, and listed   *)
(* with them.                                                              *)
LEMMA ReplaceInNodeSound ==
  ASSUME NEW net1 \in Network, NetSound(net1), NEW g \in Gate \ net1.dead,
         NEW old \in Fanins(net1, g), NEW new \in Literal, new.node \notin net1.dead,
         Simplified(net1, g, old, new) = {}
  PROVE  /\ NetSound(ReplaceInNode(net1, g, old, new))
         /\ RefannedBy(net1, g, old, new, ReplaceInNode(net1, g, old, new))
<1>0. PICK net2, key : /\ net2 = ReplaceInNode(net1, g, old, new)
                       /\ key = NewFanins(net1, g, old, new)
  OBVIOUS
<1>1. PICK s \in Node \ {old} :
        Fanins(net1, g) = {old, s} /\ {key[1].node, key[2].node} = {new.node, s}
  <2>1. net1.kids[g][1].node # net1.kids[g][2].node /\ g \in Gate
    BY DEF NetSound
  <2>2. \E s \in Node \ {old} :
          /\ Fanins(net1, g) = {old, s}
          /\ {NewFanins(net1, g, old, new)[1].node,
              NewFanins(net1, g, old, new)[2].node} = {new.node, s}
    <3>1. Exchanged(net1, g, old, new)
      BY <2>1, NewFaninsNodes
    <3> QED BY <3>1 DEF Exchanged
  <2> QED BY <1>0, <2>2
<1>2. /\ net2.kids = [net1.kids EXCEPT ![g] = key]
      /\ net2.outs = net1.outs /\ net2.dead = net1.dead
      /\ net2.hash = Rehashed(net1, g, key)
      /\ net2.refs = [net1.refs EXCEPT ![new.node] = @ + 1]
      /\ net2.fanout = Refanned(net1, g, key)
  <2>1. net2 =
          [net1 EXCEPT !.kids[g] = key, !.hash = Rehashed(net1, g, key),
                       !.refs[new.node] = @ + 1, !.fanout = Refanned(net1, g, key)]
    BY <1>0, Zenon DEF ReplaceInNode
  <2> QED BY <2>1 DEF Network
<1>3. net2.kids[g] = key /\ \A h \in Gate \ {g} : net2.kids[h] = net1.kids[h]
  BY <1>2 DEF Network
<1>4. key[1].node # key[2].node
  BY <1>0, Zenon DEF Simplified
<1>5. Fanins(net2, g) = {new.node, s} /\ s # new.node
  BY <1>1, <1>3, <1>4 DEF Fanins
<1>6. \A h \in Gate \ {g} : Fanins(net2, h) = Fanins(net1, h)
  BY <1>3 DEF Fanins
<1>7. ASSUME NEW m \in Node
      PROVE  /\ ToSet(net2.fanout[m]) =
                  (ToSet(net1.fanout[m]) \ {g}) \cup {h \in {g} : m \in Fanins(net2, g)}
             /\ IsInjective(net2.fanout[m])
  <2> DEFINE was == net1.fanout[m]
             rest == IF m \in Fanins(net1, g) THEN Sublist(was, Gate \ {g}) ELSE was
  <2>1. /\ was \in Seq(Gate) /\ IsInjective(was)
        /\ ToSet(was) \subseteq Parents(net1, m)
    BY DEF NetSound, Network
  <2>2. /\ rest \in Seq(Gate) /\ IsInjective(rest)
        /\ ToSet(rest) = ToSet(was) \ {g}
    <3> DEFINE S == Gate \ {g}
    <3>1. ToSet(was) \subseteq Gate
      BY <2>1 DEF Parents
    <3>2. ToSet(was) \cap S = ToSet(was) \ {g}
      BY <3>1
    <3> HIDE DEF S, was
    <3>3. CASE m \in Fanins(net1, g)
      <4>1. rest = Sublist(was, S)
        BY <3>3 DEF S, was
      <4>2. Sublist(was, S) \in Seq(Gate)
        <5>1. Sublist(was, S) \in Seq(Gate \cap S)
          BY <2>1, SublistType
        <5> QED BY <5>1
      <4> HIDE DEF rest
      <4> QED BY <2>1, <3>2, <4>1, <4>2, SublistOnce
    <3>4. CASE m \notin Fanins(net1, g)
      <4>1. rest = was /\ g \notin ToSet(was)
        BY <2>1, <3>4 DEF was, Parents
      <4> QED BY <2>1, <4>1
    <3> QED BY <3>3, <3>4
  <2>3. net2.fanout[m] = IF m \in {key[1].node, key[2].node} THEN Append(rest, g)
                                                             ELSE rest
    BY <1>2 DEF Refanned
  <2>4. net2.fanout[m] = IF m \in Fanins(net2, g) THEN Append(rest, g) ELSE rest
    BY <1>1, <1>5, <2>3
  <2> HIDE DEF rest, was
  <2>5. CASE m \in Fanins(net2, g)
    <3>1. /\ ToSet(Append(rest, g)) = ToSet(rest) \cup {g}
          /\ IsInjective(Append(rest, g))
      BY <2>2, AppendFacts, AppendOnce
    <3>2. net2.fanout[m] = Append(rest, g)
      BY <2>4, <2>5
    <3> QED BY <2>2, <2>5, <3>1, <3>2 DEF was
  <2>6. CASE m \notin Fanins(net2, g)
    <3>1. net2.fanout[m] = rest
      BY <2>4, <2>6
    <3> QED BY <2>2, <2>6, <3>1 DEF was
  <2> QED BY <2>5, <2>6
<1>8. ASSUME NEW m \in Node PROVE ToSet(net2.fanout[m]) \subseteq Parents(net2, m)
  <2>1. ToSet(net1.fanout[m]) \subseteq Parents(net1, m)
    BY DEF NetSound
  <2>2. ASSUME NEW h \in Parents(net1, m), h # g PROVE h \in Parents(net2, m)
    BY <1>2, <1>6, <2>2 DEF Parents
  <2>3. m \in Fanins(net2, g) => g \in Parents(net2, m)
    BY <1>2 DEF Parents
  <2> QED BY <1>7, <2>1, <2>2, <2>3
<1>9. ASSUME NEW k \in DOMAIN net2.hash
      PROVE  net2.hash[k] \notin net2.dead /\ net2.kids[net2.hash[k]] = k
  <2>1. CASE k = key
    BY <1>2, <1>3, <1>9, <2>1 DEF Rehashed
  <2>2. CASE k # key
    <3>1. /\ k \in DOMAIN net1.hash /\ k # net1.kids[g]
          /\ net2.hash[k] = net1.hash[k]
      BY <1>2, <1>9, <2>2 DEF Rehashed
    <3>2. /\ net1.hash[k] \notin net1.dead /\ net1.kids[net1.hash[k]] = k
          /\ net1.hash[k] \in Gate
      BY <3>1, PartialFacts DEF NetSound, Network
    <3> QED BY <1>2, <1>3, <3>1, <3>2
  <2> QED BY <2>1, <2>2
<1>10. \A h \in Gate : net2.kids[h][1].node # net2.kids[h][2].node
  BY <1>3, <1>4 DEF NetSound
<1>11. \A m \in net2.dead : net2.refs[m] = 0
  BY <1>2 DEF NetSound, Network
<1>12. NetSound(net2)
  BY <1>7, <1>8, <1>9, <1>10, <1>11 DEF NetSound
<1>13. RefannedBy(net1, g, old, new, net2)
  <2>1. s \in Node \ {old, new.node}
    BY <1>5
  <2> QED BY <1>1, <1>2, <1>3, <1>5, <1>7, <2>1 DEF RefannedBy
<1> QED BY <1>0, <1>12, <1>13

-----------------------------------------------------------------------------
(* replace_in_outputs, unless the node is dead: what drives each output.   *)
RedrivenBy(net1, old, new, net2) ==
  LET Uses == {o \in DOMAIN net1.outs : net1.outs[o].node = old}
  IN  /\ net2.kids = net1.kids /\ net2.dead = net1.dead
      /\ net2.hash = net1.hash /\ net2.fanout = net1.fanout
      /\ net2.refs = [net1.refs EXCEPT ![new.node] = @ + Cardinality(Uses)]
      /\ DOMAIN net2.outs = DOMAIN net1.outs
      /\ \A o \in DOMAIN net1.outs :
           net2.outs[o].node = IF net1.outs[o].node = old THEN new.node
                                                          ELSE net1.outs[o].node

LEMMA ReplaceInOutputsSound ==
  ASSUME NEW net1 \in Network, NetSound(net1), NEW old \in Node,
         NEW new \in Literal, new.node \notin net1.dead, new.node # old
  PROVE  /\ NetSound(ReplaceInOutputs(net1, old, new))
         /\ old \in net1.dead => ReplaceInOutputs(net1, old, new) = net1
         /\ old \notin net1.dead =>
              RedrivenBy(net1, old, new, ReplaceInOutputs(net1, old, new))
<1> DEFINE net2 == ReplaceInOutputs(net1, old, new)
<1>1. CASE old \in net1.dead
  BY <1>1 DEF ReplaceInOutputs
<1>2. CASE old \notin net1.dead
  <2> DEFINE Uses == {o \in DOMAIN net1.outs : net1.outs[o].node = old}
             outs == [o \in DOMAIN net1.outs |->
                        IF o \in Uses THEN FlipIf(new, net1.outs[o].neg)
                                      ELSE net1.outs[o]]
             refs == [net1.refs EXCEPT ![new.node] = @ + Cardinality(Uses)]
  <2>1. /\ net2.kids = net1.kids /\ net2.dead = net1.dead /\ net2.hash = net1.hash
        /\ net2.fanout = net1.fanout /\ net2.refs = refs /\ net2.outs = outs
    <3>1. net2 = [net1 EXCEPT !.outs = outs, !.refs[new.node] = @ + Cardinality(Uses)]
      BY <1>2 DEF ReplaceInOutputs
    <3> HIDE DEF net2, outs
    <3> QED BY <3>1 DEF Network
  <2>2. ASSUME NEW o \in DOMAIN net1.outs
        PROVE  outs[o].node = IF net1.outs[o].node = old THEN new.node
                                                         ELSE net1.outs[o].node
    <3>1. net1.outs[o] \in Literal /\ net1.outs[o].neg \in BOOLEAN
      <4>1. net1.outs \in Seq(Literal) /\ o \in DOMAIN net1.outs
        BY <2>2 DEF Network
      <4>2. net1.outs[o] \in Literal
        <5> HIDE DEF outs, refs, net2, Uses
        <5> QED BY <4>1
      <4> QED BY <4>2 DEF Literal
    <3>2. FlipIf(new, net1.outs[o].neg).node = new.node
      BY <3>1, LiteralFacts
    <3> QED BY <3>2
  <2> HIDE DEF net2
  <2>3. RedrivenBy(net1, old, new, net2)
    BY <2>1, <2>2 DEF RedrivenBy
  <2>4. NetSound(net2)
    <3>1. \A m \in Node : Parents(net2, m) = Parents(net1, m)
      BY <2>1 DEF Parents, Fanins
    <3>2. \A m \in net1.dead : m \in Node /\ m # new.node
      BY NodeFacts DEF Network
    <3>3. \A m \in net1.dead : refs[m] = net1.refs[m]
      BY <3>2 DEF Network
    <3> HIDE DEF refs, outs
    <3> QED BY <2>1, <3>1, <3>3 DEF NetSound
  <2> QED BY <1>2, <2>3, <2>4 DEF net2
<1> QED BY <1>1, <1>2

(* What the first round of a fall establishes and each round keeps.        *)
LEMMA FallInduct ==
  ASSUME NEW net1, net1.kids \in [Gate -> Key], net1.refs \in [Node -> Nat],
         NEW n1 \in Node, NEW T \in SUBSET FallStates,
         FallNext(net1, [stack |-> <<n1>>, dying |-> {}, refs |-> net1.refs]) \in T,
         \A s \in T : FallNext(net1, s) \in T
  PROVE  Falling(net1, n1) \in T
<1> DEFINE n == 2 * NumGates + 1
<1>1. n \in Nat /\ n >= 1
  BY NodeFacts
<1>2. PICK run \in [0 .. n -> FallStates] : FallingOf(run, net1, n1)
  BY FallingRun
<1>3. /\ run[0] = [stack |-> <<n1>>, dying |-> {}, refs |-> net1.refs]
      /\ \A i \in 1 .. n : run[i] = FallNext(net1, run[i - 1])
      /\ Falling(net1, n1) = run[n]
  BY <1>2 DEF FallingOf
<1> HIDE DEF n
<1> DEFINE U == {i \in 0 .. n : i = 0 \/ run[i] \in T}
<1>4. 0 \in U
  BY <1>1
<1>5. ASSUME NEW i \in 0 .. n - 1, i \in U PROVE i + 1 \in U
  <2>1. i + 1 \in 1 .. n /\ i + 1 \in 0 .. n /\ (i + 1) - 1 = i
    BY <1>1
  <2>2. run[i + 1] = FallNext(net1, run[i])
    BY <1>3, <2>1
  <2>3. run[i + 1] \in T
    BY <1>3, <1>5, <2>2
  <2> QED BY <2>1, <2>3
<1>6. \A i \in 0 .. n : i \in U
  <2> HIDE DEF U
  <2> QED BY <1>1, <1>4, <1>5, UpTo
<1> QED BY <1>1, <1>3, <1>6

(* What is taken out is counted no more.                                   *)
LEMMA FallZero ==
  ASSUME NEW net1 \in Network, NEW n1 \in Node, \A m \in net1.dead : net1.refs[m] = 0
  PROVE  \A m \in net1.dead \cup Falling(net1, n1).dying : Falling(net1, n1).refs[m] = 0
<1> DEFINE Zero(s) == \A m \in net1.dead \cup s.dying : s.refs[m] = 0
           T == {s \in FallStates : Zero(s)}
           base == [stack |-> <<n1>>, dying |-> {}, refs |-> net1.refs]
<1>0. net1.kids \in [Gate -> Key]
  BY DEF Network
<1>1. net1.kids \in [Gate -> Key] /\ net1.refs \in [Node -> Nat]
      /\ net1.dead \in SUBSET Gate /\ Gate \subseteq Node
  BY NodeFacts DEF Network
<1>2. base \in T
  BY <1>1 DEF FallStates
<1>3. ASSUME NEW s \in T PROVE FallNext(net1, s) \in T
  <2>1. CASE s.stack = <<>>
    BY <2>1 DEF FallNext
  <2>2. CASE s.stack # <<>>
    <3>0. s \in FallStates /\ Zero(s)
      OBVIOUS
    <3>7. s \in FallStates
      BY <3>0
    <3> HIDE DEF T
    <3>6. PICK g : g = Head(s.stack)
      OBVIOUS
    <3>1. /\ g \in Node /\ Tail(s.stack) \in Seq(Node)
          /\ LastUses(net1, s) \in Seq(Node) /\ FewerRefs(net1, s) \in [Node -> Nat]
          /\ g \notin Gate \ (net1.dead \cup s.dying) =>
               FallNext(net1, s) =
                 [stack |-> Tail(s.stack), dying |-> s.dying, refs |-> s.refs]
          /\ g \in Gate \ (net1.dead \cup s.dying) =>
               FallNext(net1, s) = [stack |-> LastUses(net1, s) \o Tail(s.stack),
                                    dying |-> s.dying \cup {g},
                                    refs  |-> FewerRefs(net1, s)]
      <4>1. FallsBy(net1, s, g)
        BY <1>0, <2>2, <3>7, <3>6, FallStep
      <4> QED BY <4>1 DEF FallsBy
    <3>2. s.dying \in SUBSET Gate /\ s.refs \in [Node -> Nat] /\ Zero(s)
      BY <3>0 DEF FallStates
    <3>3. LastUses(net1, s) \o Tail(s.stack) \in Seq(Node)
      BY <3>1
    <3>4. CASE g \notin Gate \ (net1.dead \cup s.dying)
      <4> DEFINE t == FallNext(net1, s)
      <4>1. t = [stack |-> Tail(s.stack), dying |-> s.dying, refs |-> s.refs]
        BY <3>1, <3>4
      <4> HIDE DEF t
      <4> QED BY <3>1, <3>2, <4>1 DEF FallStates, t, T
    <3>5. CASE g \in Gate \ (net1.dead \cup s.dying)
      <4> DEFINE t == FallNext(net1, s)
      <4>1. t = [stack |-> LastUses(net1, s) \o Tail(s.stack),
                 dying |-> s.dying \cup {g}, refs |-> FewerRefs(net1, s)]
        BY <3>1, <3>5
      <4>2. s.dying \cup {g} \in SUBSET Gate
        BY <3>2, <3>5
      <4>3. ASSUME NEW m \in net1.dead \cup (s.dying \cup {g})
            PROVE  FewerRefs(net1, s)[m] = 0
        <5>1. m \in Node
          BY <1>1, <4>2
        <5>2. m = g \/ s.refs[m] = 0
          BY <3>2
        <5> HIDE DEF Zero
        <5> QED BY <3>6, <5>1, <5>2 DEF FewerRefs
      <4> HIDE DEF t
      <4> QED BY <3>1, <3>2, <3>3, <4>1, <4>2, <4>3 DEF FallStates, t, T
    <3> QED BY <3>4, <3>5
  <2> QED BY <2>1, <2>2
<1>4. Falling(net1, n1) \in T
  <2>1. T \in SUBSET FallStates /\ FallNext(net1, base) \in T
    BY <1>2, <1>3
  <2> HIDE DEF T
  <2> QED BY <1>1, <1>3, <2>1, FallInduct
<1> QED BY <1>4

-----------------------------------------------------------------------------
(* What take_out_node does to the network but for the counters.            *)
TakenOut(net1, dying, net2) ==
  /\ net2.kids = net1.kids /\ net2.outs = net1.outs
  /\ net2.dead = net1.dead \cup dying
  /\ \A m \in Node : ToSet(net2.fanout[m]) =
                       IF m \in dying THEN {} ELSE ToSet(net1.fanout[m]) \ dying

LEMMA TakeOutNodeSound ==
  ASSUME NEW net1 \in Network, NetSound(net1), NEW n1 \in Node
  PROVE  /\ NetSound(TakeOutNode(net1, n1))
         /\ TakenOut(net1, Falling(net1, n1).dying, TakeOutNode(net1, n1))
         /\ TakeOutNode(net1, n1).refs = Falling(net1, n1).refs
<1>0. PICK net2, dying : net2 = TakeOutNode(net1, n1) /\ dying = Falling(net1, n1).dying
  OBVIOUS
<1> DEFINE Gone(m) == {p \in dying : m \in Fanins(net1, p)}
           hash == [k \in DOMAIN net1.hash \ {net1.kids[g] : g \in dying} |->
                      net1.hash[k]]
           fanout == [m \in Node |-> IF m \in dying THEN <<>>
                                     ELSE Sublist(net1.fanout[m], Gate \ Gone(m))]
<1>1. dying \in SUBSET Gate
  BY <1>0, FallingType DEF Network
<1>2. /\ net2.kids = net1.kids /\ net2.outs = net1.outs
      /\ net2.dead = net1.dead \cup dying /\ net2.hash = hash
      /\ net2.refs = Falling(net1, n1).refs /\ net2.fanout = fanout
  <2>1. net2 = [net1 EXCEPT !.dead = @ \cup dying, !.refs = Falling(net1, n1).refs,
                            !.hash = hash, !.fanout = fanout]
    BY <1>0 DEF TakeOutNode
  <2> HIDE DEF hash, fanout
  <2> QED BY <2>1 DEF Network
<1>3. ASSUME NEW m \in Node
      PROVE  /\ ToSet(fanout[m]) = IF m \in dying THEN {}
                                   ELSE ToSet(net1.fanout[m]) \ dying
             /\ IsInjective(fanout[m])
  <2> DEFINE was == net1.fanout[m]
  <2>1. CASE m \in dying
    <3>1. fanout[m] = <<>>
      BY <2>1
    <3>2. ToSet(<<>>) = {} /\ IsInjective(<<>>)
      BY DEF ToSet, IsInjective
    <3> QED BY <2>1, <3>1, <3>2
  <2>2. CASE m \notin dying
    <3> DEFINE S == Gate \ Gone(m)
    <3>1. fanout[m] = Sublist(was, S)
      BY <2>2
    <3>2. /\ was \in Seq(Gate) /\ IsInjective(was)
          /\ ToSet(was) \subseteq Parents(net1, m)
      BY DEF NetSound, Network
    <3>3. ToSet(was) \cap S = ToSet(was) \ dying
      BY <3>2 DEF Parents
    <3> HIDE DEF S, was, fanout
    <3>4. ToSet(Sublist(was, S)) = ToSet(was) \cap S /\ IsInjective(Sublist(was, S))
      BY <3>2, SublistOnce
    <3> QED BY <2>2, <3>1, <3>3, <3>4 DEF was
  <2> QED BY <2>1, <2>2
<1>4. ASSUME NEW k \in DOMAIN hash
      PROVE  hash[k] \notin net2.dead /\ net2.kids[hash[k]] = k
  <2>1. /\ k \in DOMAIN net1.hash /\ hash[k] = net1.hash[k]
        /\ \A g \in dying : net1.kids[g] # k
    BY <1>4
  <2> HIDE DEF hash
  <2>2. net1.hash[k] \notin net1.dead /\ net1.kids[net1.hash[k]] = k
    BY <2>1 DEF NetSound
  <2> QED BY <1>2, <2>1, <2>2
<1> HIDE DEF hash, fanout
<1>5. TakenOut(net1, dying, net2)
  BY <1>2, <1>3 DEF TakenOut
<1>6. NetSound(net2)
  <2>1. ASSUME NEW m \in Node
        PROVE  ToSet(net2.fanout[m]) \subseteq Parents(net2, m)
    <3>1. ToSet(net1.fanout[m]) \subseteq Parents(net1, m)
      BY DEF NetSound
    <3>2. Parents(net1, m) \ dying = Parents(net2, m)
      BY <1>2 DEF Parents, Fanins
    <3> QED BY <1>2, <1>3, <3>1, <3>2
  <2>2. \A m \in Node : IsInjective(net2.fanout[m])
    BY <1>2, <1>3
  <2>3. \A m \in net2.dead : net2.refs[m] = 0
    <3>1. \A m \in net1.dead : net1.refs[m] = 0
      BY DEF NetSound
    <3>2. \A m \in net1.dead \cup Falling(net1, n1).dying : Falling(net1, n1).refs[m] = 0
      BY <3>1, FallZero
    <3> QED BY <1>0, <1>2, <3>2
  <2>4. \A g \in Gate : net2.kids[g][1].node # net2.kids[g][2].node
    BY <1>2 DEF NetSound
  <2> QED BY <1>2, <1>4, <2>1, <2>2, <2>3, <2>4 DEF NetSound
<1> QED BY <1>0, <1>2, <1>5, <1>6

(* A network that is built has exact counters and lists.                   *)
LEMMA CreatedSound ==
  ASSUME NEW d, IsDesign(d)
  PROVE  /\ NetSound(Created(d.kids, d.outs))
         /\ \A m \in Node :
              /\ Created(d.kids, d.outs).refs[m] = References(Created(d.kids, d.outs), m)
              /\ ToSet(Created(d.kids, d.outs).fanout[m]) =
                   Parents(Created(d.kids, d.outs), m)
<1>0. PICK net2 : net2 = Created(d.kids, d.outs)
  OBVIOUS
<1> DEFINE bare == [kids |-> d.kids, outs |-> d.outs, dead |-> {}]
           gates == [i \in 1 .. NumGates |-> NumPis + i]
<1>1. /\ net2.kids = d.kids /\ net2.outs = d.outs /\ net2.dead = {}
      /\ net2.hash = [k \in {d.kids[g] : g \in Gate} |->
                        CHOOSE g \in Gate : d.kids[g] = k]
      /\ net2.refs = [n \in Node |-> References(bare, n)]
      /\ net2.fanout = [n \in Node |-> Sublist(gates, Parents(bare, n))]
  BY <1>0 DEF Created
<1>2. /\ gates \in Seq(Gate) /\ IsInjective(gates) /\ ToSet(gates) = Gate
  <2>1. NumPis \in Nat /\ NumGates \in Nat
    BY SizesAssumption
  <2>2. gates \in Seq(Gate) /\ DOMAIN gates = 1 .. NumGates
        /\ \A i \in 1 .. NumGates : gates[i] = NumPis + i
    BY <2>1 DEF Gate
  <2>3. IsInjective(gates)
    BY <2>1, <2>2 DEF IsInjective
  <2>4. ASSUME NEW g \in Gate PROVE g \in ToSet(gates)
    <3>1. g - NumPis \in 1 .. NumGates /\ NumPis + (g - NumPis) = g
      BY <2>1 DEF Gate
    <3>2. gates[g - NumPis] = g
      BY <2>2, <3>1
    <3> HIDE DEF gates
    <3> QED BY <2>2, <3>1, <3>2 DEF ToSet
  <2>5. ToSet(gates) \subseteq Gate
    <3>1. gates \in Seq(Gate)
      BY <2>2
    <3> HIDE DEF gates
    <3>2. \A i \in DOMAIN gates : gates[i] \in Gate
      BY <3>1
    <3> QED BY <3>2 DEF ToSet
  <2> QED BY <2>2, <2>3, <2>4, <2>5
<1> HIDE DEF gates
<1>3. bare.outs = net2.outs /\ \A m \in Node : Parents(bare, m) = Parents(net2, m)
  BY <1>1 DEF Parents, Fanins
<1> HIDE DEF bare
<1>4. ASSUME NEW m \in Node
      PROVE  ToSet(net2.fanout[m]) = Parents(net2, m) /\ IsInjective(net2.fanout[m])
  <2>1. net2.fanout[m] = Sublist(gates, Parents(net2, m))
    BY <1>1, <1>3
  <2>2. Gate \cap Parents(net2, m) = Parents(net2, m)
    BY DEF Parents
  <2>3. /\ ToSet(Sublist(gates, Parents(net2, m))) = ToSet(gates) \cap Parents(net2, m)
        /\ IsInjective(Sublist(gates, Parents(net2, m)))
    BY <1>2, SublistOnce
  <2> QED BY <1>2, <2>1, <2>2, <2>3
<1>5. ASSUME NEW m \in Node PROVE net2.refs[m] = References(net2, m)
  <2>1. net2.refs[m] = References(bare, m)
    BY <1>1
  <2>2. Parents(bare, m) = Parents(net2, m) /\ bare.outs = net2.outs
    BY <1>3
  <2> QED BY <2>1, <2>2 DEF References
<1>6. ASSUME NEW k \in DOMAIN net2.hash PROVE net2.kids[net2.hash[k]] = k
  <2>1. PICK g \in Gate : d.kids[g] = k
    BY <1>1, <1>6
  <2>2. net2.hash[k] = CHOOSE h \in Gate : d.kids[h] = k
    BY <1>1, <1>6
  <2> QED BY <1>1, <2>1, <2>2
<1>7. \A g \in Gate : net2.kids[g][1].node # net2.kids[g][2].node
  <2>1. ASSUME NEW g \in Gate PROVE net2.kids[g][1].node # net2.kids[g][2].node
    <3>1. d.kids[g][1].node < d.kids[g][2].node /\ d.kids[g] \in Literal \X Literal
      BY DEF IsDesign
    <3>2. d.kids[g][1].node \in Nat /\ d.kids[g][2].node \in Nat
      BY <3>1, NodeFacts DEF Literal
    <3> QED BY <1>1, <3>1, <3>2
  <2> QED BY <2>1
<1>8. NetSound(net2)
  BY <1>1, <1>4, <1>6, <1>7 DEF NetSound
<1> QED BY <1>0, <1>4, <1>5, <1>8

-----------------------------------------------------------------------------
(***************************************************************************)
(* LookupsSound is kept with what the loop of substitute_node still holds: *)
(* the gate being replaced and the list of its parents, fetched before the *)
(* first of them was changed.                                              *)
(***************************************************************************)
TurnSound ==
  /\ \A i \in DOMAIN todo : todo[i].old \in Gate
  /\ job.on => /\ job.old \in Gate
               /\ job.new.node # job.old
               /\ job.new.node \notin net.dead
               /\ IsInjective(job.parents)
               /\ \A p \in ToSet(job.parents) :
                    p \notin net.dead /\ job.old \in Fanins(net, p)

(* Only gates are searched a substitute for: a walk from an input is empty. *)
RootIsGate == walk.items # <<>> \/ walk.tfi # <<>> => walk.root \in Gate

LookInv == NetSound(net) /\ TurnSound /\ RootIsGate

(* The search leaves the network alone, or finds a gate to substitute when  *)
(* no substitution is under way.                                           *)
Begins == AtRest /\ \E root \in Gate, g \in Literal : BeginSubstitution(root, g)

LEMMA ValidateBegins ==
  ASSUME AtRest, NEW root \in Gate, NEW g \in Literal, NEW t, NEW S, NEW proved,
         Validate(root, g, t, S, proved)
  PROVE  UNCHANGED subst \/ Begins
<1>1. CASE UNCHANGED subst
  BY <1>1
<1>2. CASE \E a : FoundCex(a, t, S)
  BY <1>2 DEF FoundCex
<1>3. CASE BeginSubstitution(root, g)
  BY <1>3 DEF Begins
<1> QED BY <1>1, <1>2, <1>3 DEF Validate

LEMMA TryNodeBegins ==
  ASSUME AtRest, NEW root \in Gate, NEW n \in Node, NEW t, NEW keep \in BOOLEAN,
         TryNode(root, n, t, keep)
  PROVE  UNCHANGED subst \/ Begins
<1> DEFINE r == t[root]
           s == t[n]
<1>1. CASE UNCHANGED subst
  BY <1>1
<1>2. CASE Validate(root, FlipIf(Lit(n), r # s), t, {root}, ~keep)
  <2>1. FlipIf(Lit(n), r # s) \in Literal
    BY LiteralFacts
  <2> HIDE DEF r, s
  <2> QED BY <1>2, <2>1, ValidateBegins
<1> QED BY <1>1, <1>2 DEF TryNode

(* A walk begins without nodes, and from an input with none to come.       *)
LEMMA StartWalkRoot ==
  ASSUME NEW root, NEW member
  PROVE  LET w == StartWalk(root, member)
         IN  w.items # <<>> \/ w.tfi # <<>> => w.root \in Gate
<1> DEFINE w == StartWalk(root, member)
<1>1. /\ w.root = root /\ w.items = WalkOrder(root) /\ w.tfi = <<>>
  BY DEF StartWalk, NoWalk
<1>2. root \notin Gate => WalkOrder(root) = <<>>
  BY DEF WalkOrder
<1> HIDE DEF w
<1> QED BY <1>1, <1>2 DEF w

LEMMA SearchSteps ==
  ASSUME Invariant, RootIsGate, [Next]_vars, ~SubstitutionStep
  PROVE  RootIsGate' /\ (UNCHANGED subst \/ Begins)
<1>0. /\ const0 \in Seq(Gate) /\ walk \in Walk /\ net \in Network
  BY DEF Invariant, TypeInv, AlgoTypes, SubstTypes
<1>1. CASE SelectConstants \/ LoadClasses \/ EndFanins \/ EndFanouts \/ EndClasses
             \/ Returned \/ UNCHANGED vars
  BY <1>1 DEF SelectConstants, LoadClasses, EndFanins, EndFanouts, EndClasses,
              Returned, vars, algo, RootIsGate
<1>2. CASE EndClass
  BY <1>2 DEF EndClass, RootIsGate, NoWalk
<1>3. CASE NextNode
  <2>1. walk' = [walk EXCEPT !.j = @ + 1, !.k = 1] /\ UNCHANGED subst
    BY <1>3 DEF NextNode
  <2> QED BY <1>0, <2>1 DEF RootIsGate, Walk
<1>4. CASE NextKey \/ NextMember
  <2>1. PICK root, member : walk' = StartWalk(root, member)
    BY <1>4 DEF NextKey, NextMember
  <2>2. UNCHANGED subst
    BY <1>4 DEF NextKey, NextMember
  <2>3. RootIsGate'
    BY <2>1, StartWalkRoot DEF RootIsGate
  <2> QED BY <2>2, <2>3
<1>5. CASE TryConstant
  <2> DEFINE n == Head(const0)
             t == CheckTts(n)
  <2>1. AtRest /\ const0 # <<>> /\ walk' = walk
    BY <1>5 DEF TryConstant
  <2>2. n \in Gate
    BY <1>0, <2>1
  <2>3. \/ UNCHANGED subst
        \/ \E v \in BOOLEAN, proved \in BOOLEAN :
             Validate(n, Constant(v), t, {}, proved)
    BY <1>5 DEF TryConstant
  <2> HIDE DEF n, t
  <2>4. UNCHANGED subst \/ Begins
    BY <2>1, <2>2, <2>3, ValidateBegins, LiteralFacts
  <2> QED BY <2>1, <2>4 DEF RootIsGate
<1>6. CASE TryFanin
  <2> DEFINE n == Head(walk.items)
             tfi == Append(walk.tfi, n)
  <2>1. AtRest /\ walk.items # <<>> /\ walk.root \in Gate
    BY <1>6 DEF TryFanin, RootIsGate
  <2>2. n \in Node
    BY <1>0, <2>1 DEF Walk
  <2>3. \/ /\ walk' = [walk EXCEPT !.tfi = tfi, !.items = <<>>]
           /\ UNCHANGED subst
        \/ \E keep \in BOOLEAN :
             /\ TryNode(walk.root, n, tts, keep)
             /\ walk' = [walk EXCEPT !.tfi = tfi, !.keep = keep,
                                     !.items = IF kept' THEN Tail(@) ELSE <<>>]
    BY <1>6 DEF TryFanin
  <2> HIDE DEF n, tfi
  <2>4. walk'.root = walk.root
    BY <1>0, <2>3 DEF Walk
  <2>5. UNCHANGED subst \/ Begins
    <3>1. CASE UNCHANGED subst
      BY <3>1
    <3>2. CASE \E keep \in BOOLEAN : TryNode(walk.root, n, tts, keep)
      BY <2>1, <2>2, <3>2, TryNodeBegins
    <3> QED BY <2>3, <3>1, <3>2
  <2> QED BY <2>1, <2>4, <2>5 DEF RootIsGate
<1>7. CASE TryFanout
  <2> DEFINE p == net.fanout[Spread][walk.k]
             t == CheckTts(p)
  <2>1. AtRest /\ Exploring /\ ~NodeDone
    BY <1>7 DEF TryFanout
  <2>2. /\ walk.tfi \in Seq(Node) /\ walk.j \in Nat \ {0} /\ walk.k \in Nat \ {0}
        /\ walk.j <= Len(walk.tfi)
    BY <1>0, <2>1 DEF Walk, Exploring
  <2>3. walk.root \in Gate
    <3>1. walk.tfi # <<>>
      BY <2>2
    <3> QED BY <3>1 DEF RootIsGate
  <2>4. p \in Node
    <3>1. Spread \in Node
      BY <2>2 DEF Spread
    <3>2. walk.k <= Len(net.fanout[Spread]) /\ net.fanout[Spread] \in Seq(Gate)
      BY <1>0, <2>1, <2>2, <3>1 DEF NodeDone, Network
    <3>3. p \in Gate
      BY <2>2, <3>2
    <3> HIDE DEF p
    <3> QED BY <3>3, NodeFacts
  <2>5. \/ /\ walk' = [walk EXCEPT !.k = @ + 1]
           /\ UNCHANGED subst
        \/ \E keep \in BOOLEAN :
             /\ TryNode(walk.root, p, t, keep)
             /\ walk' = [walk EXCEPT !.tfi = Append(@, p), !.keep = keep,
                                     !.k = @ + 1]
    BY <1>7 DEF TryFanout
  <2>6. UNCHANGED subst \/ \E keep \in BOOLEAN : TryNode(walk.root, p, t, keep)
    BY <1>7 DEF TryFanout
  <2> HIDE DEF p, t
  <2>7. walk'.root = walk.root
    BY <1>0, <2>5 DEF Walk
  <2>8. UNCHANGED subst \/ Begins
    <3>1. CASE UNCHANGED subst
      BY <3>1
    <3>2. CASE \E keep \in BOOLEAN : TryNode(walk.root, p, t, keep)
      BY <2>1, <2>3, <2>4, <3>2, TryNodeBegins
    <3> QED BY <2>6, <3>1, <3>2
  <2> QED BY <2>3, <2>7, <2>8 DEF RootIsGate
<1> QED BY <1>1, <1>2, <1>3, <1>4, <1>5, <1>6, <1>7 DEF Next

-----------------------------------------------------------------------------
(* A node does not compute the opposite of what it computes.               *)
LEMMA NotItsOpposite ==
  ASSUME HistTypes, NEW old \in Node, NEW new \in Literal, Same(old, new),
         new # Lit(old)
  PROVE  new.node # old
<1> SUFFICES ASSUME new.node = old PROVE FALSE
  OBVIOUS
<1>1. new = [node |-> new.node, neg |-> new.neg] /\ new.neg \in BOOLEAN
  BY DEF Literal
<1>2. new.neg = TRUE
  BY <1>1 DEF Lit
<1>3. func[old] = InputVector \ func[old]
  BY <1>2 DEF Same, LitFunc
<1>4. {} \in InputVector
  BY DEF InputVector
<1> QED BY <1>3, <1>4

(* The gate to put in is in use when a turn begins.                        *)
LEMMA TakeTurnLooks ==
  ASSUME Invariant, LookInv, TakeTurn
  PROVE  NetSound(net') /\ TurnSound'
<1> DEFINE top == Head(todo)
           live == IF IsDead(top.new) THEN ReviveNode(net, top.new.node) ELSE net
<1>1. /\ todo # <<>>
      /\ net' = live
      /\ job' = IF top.new = Lit(top.old) THEN NoJob
                ELSE [old |-> top.old, new |-> top.new, on |-> TRUE,
                      parents |-> live.fanout[top.old]]
      /\ todo' = Tail(todo)
  BY DEF TakeTurn, Turn
<1>2. /\ net \in Network /\ todo \in Seq(Entry) /\ HistTypes /\ NetSound(net)
      /\ TurnSound /\ TruthInv
  BY DEF Invariant, TypeInv, SubstTypes, LookInv
<1>3. /\ Len(todo) \in Nat /\ DOMAIN todo = 1 .. Len(todo)
      /\ 1 \in DOMAIN todo /\ top = todo[1]
  BY <1>1, <1>2
<1>4. top.old \in Gate /\ top.old \in Node /\ top.new \in Literal /\ top.new.node \in Node
  <2>1. todo[1] \in Entry
    BY <1>2, <1>3
  <2> QED BY <1>2, <1>3, <2>1 DEF Entry, Literal, TurnSound
<1>5. Same(top.old, top.new)
  BY <1>2, <1>3 DEF TruthInv
<1> HIDE DEF top
<1>6. NetSound(live) /\ top.new.node \notin live.dead
  <2>1. CASE IsDead(top.new)
    BY <1>2, <2>1, ReviveSound DEF IsDead
  <2>2. CASE ~IsDead(top.new)
    BY <1>2, <2>2 DEF IsDead
  <2> QED BY <2>1, <2>2
<1> HIDE DEF live
<1>7. \A i \in DOMAIN todo' : todo'[i].old \in Gate
  <2>1. \A i \in DOMAIN todo' : \E j \in DOMAIN todo : todo'[i] = todo[j]
    BY <1>1, <1>2, <1>3
  <2> QED BY <1>2, <2>1 DEF TurnSound
<1>8. CASE top.new = Lit(top.old)
  <2>1. job'.on = FALSE
    BY <1>1, <1>8, NoJobType
  <2> QED BY <1>1, <1>6, <1>7, <2>1 DEF TurnSound
<1>9. CASE top.new # Lit(top.old)
  <2>1. /\ job'.old = top.old /\ job'.new = top.new
        /\ job'.parents = live.fanout[top.old]
    BY <1>1, <1>9
  <2>2. top.new.node # top.old
    BY <1>2, <1>4, <1>5, <1>9, NotItsOpposite
  <2>3. /\ ToSet(live.fanout[top.old]) \subseteq Parents(live, top.old)
        /\ IsInjective(live.fanout[top.old])
    BY <1>4, <1>6 DEF NetSound
  <2>4. \A p \in ToSet(live.fanout[top.old]) :
          p \notin live.dead /\ top.old \in Fanins(live, p)
    BY <2>3 DEF Parents
  <2>5. net' = live
    BY <1>1
  <2> QED BY <1>4, <1>6, <1>7, <2>1, <2>2, <2>3, <2>4, <2>5 DEF TurnSound
<1> QED BY <1>8, <1>9

(* A parent that is changed is not listed again among those to come.       *)
LEMMA ReplaceParentLooks ==
  ASSUME Invariant, LookInv, ReplaceParent
  PROVE  NetSound(net') /\ TurnSound'
<1> DEFINE p == Head(job.parents)
           simple == Simplified(net, p, job.old, job.new)
<1>1. /\ job.on
      /\ job.parents # <<>>
      /\ job.old \in Fanins(net, p)
      /\ job' = [job EXCEPT !.parents = Tail(@)]
      /\ \/ /\ simple = {}
            /\ net' = ReplaceInNode(net, p, job.old, job.new)
            /\ UNCHANGED todo
         \/ \E l \in simple :
              /\ todo' = <<[old |-> p, new |-> l, follow |-> FALSE]>> \o todo
              /\ UNCHANGED net
  BY DEF ReplaceParent
<1>2. /\ net \in Network /\ todo \in Seq(Entry) /\ NetSound(net) /\ TurnSound
      /\ job \in Job
  BY DEF Invariant, TypeInv, SubstTypes, LookInv
<1>3. job.parents \in Seq(Gate) /\ job.new \in Literal
  BY <1>2 DEF Job
<1>4. /\ p \in Gate /\ p \in ToSet(job.parents) /\ p \notin ToSet(Tail(job.parents))
      /\ ToSet(Tail(job.parents)) \subseteq ToSet(job.parents)
      /\ IsInjective(Tail(job.parents)) /\ Tail(job.parents) \in Seq(Gate)
  BY <1>1, <1>2, <1>3, TailParts DEF TurnSound
<1>5. /\ job.old \in Gate /\ job.new.node # job.old /\ job.new.node \notin net.dead
      /\ p \notin net.dead
      /\ \A q \in ToSet(Tail(job.parents)) : q \notin net.dead /\ job.old \in Fanins(net, q)
  BY <1>1, <1>2, <1>4 DEF TurnSound
<1>6. /\ job'.old = job.old /\ job'.new = job.new
      /\ job'.parents = Tail(job.parents)
  BY <1>1, <1>2 DEF Job
<1> HIDE DEF p, simple
<1>7. CASE /\ simple = {}
           /\ net' = ReplaceInNode(net, p, job.old, job.new)
           /\ UNCHANGED todo
  <2>1. /\ NetSound(net')
        /\ RefannedBy(net, p, job.old, job.new, net')
    BY <1>1, <1>2, <1>3, <1>4, <1>5, <1>7, ReplaceInNodeSound DEF simple
  <2>2. ASSUME NEW q \in ToSet(Tail(job.parents))
        PROVE  q \notin net'.dead /\ job.old \in Fanins(net', q)
    <3>1. q \in Gate /\ q # p
      BY <1>4, <2>2 DEF ToSet
    <3>2. net'.dead = net.dead /\ net'.kids[q] = net.kids[q]
      BY <2>1, <3>1 DEF RefannedBy
    <3> QED BY <1>5, <3>2 DEF Fanins
  <2>3. net'.dead = net.dead /\ todo' = todo
    BY <1>7, <2>1 DEF RefannedBy
  <2> QED BY <1>2, <1>4, <1>5, <1>6, <2>1, <2>2, <2>3 DEF TurnSound
<1>8. CASE \E l \in simple :
             /\ todo' = <<[old |-> p, new |-> l, follow |-> FALSE]>> \o todo
             /\ UNCHANGED net
  <2>0. PICK l \in simple :
          todo' = <<[old |-> p, new |-> l, follow |-> FALSE]>> \o todo
    BY <1>8
  <2> DEFINE f == [old |-> p, new |-> l, follow |-> FALSE]
  <2>5. f.old = p /\ todo' = <<f>> \o todo
    BY <2>0
  <2> HIDE DEF f
  <2>1. PICK e : todo' = <<e>> \o todo /\ e.old = p
    BY <2>5
  <2>2. \A i \in DOMAIN todo' : todo'[i] = e \/ \E j \in DOMAIN todo : todo'[i] = todo[j]
    BY <1>2, <2>1
  <2>3. \A i \in DOMAIN todo' : todo'[i].old \in Gate
    BY <1>2, <1>4, <2>1, <2>2 DEF TurnSound
  <2>4. net' = net
    BY <1>8
  <2> QED BY <1>2, <1>4, <1>5, <1>6, <2>3, <2>4 DEF TurnSound
<1> QED BY <1>1, <1>7, <1>8

LEMMA FinishTurnLooks ==
  ASSUME Invariant, LookInv, FinishTurn
  PROVE  NetSound(net') /\ TurnSound'
<1> DEFINE out == ReplaceInOutputs(net, job.old, job.new)
<1>1. /\ job.on
      /\ net' = IF job.old = job.new.node THEN out ELSE TakeOutNode(out, job.old)
      /\ job' = NoJob
      /\ todo' = todo
  BY DEF FinishTurn
<1>2. net \in Network /\ NetSound(net) /\ TurnSound /\ job \in Job
  BY DEF Invariant, TypeInv, SubstTypes, LookInv
<1>3. /\ job.old \in Node /\ job.new \in Literal
      /\ job.new.node # job.old /\ job.new.node \notin net.dead
  BY <1>1, <1>2 DEF Job, TurnSound
<1>4. out \in Network /\ NetSound(out)
  BY <1>2, <1>3, ReplaceInOutputsKeeps, ReplaceInOutputsSound
<1>5. NetSound(net')
  <2> HIDE DEF out
  <2> QED BY <1>1, <1>3, <1>4, TakeOutNodeSound
<1>6. job'.on = FALSE
  BY <1>1, NoJobType
<1> QED BY <1>1, <1>2, <1>5, <1>6 DEF TurnSound

LEMMA FollowMovedLooks ==
  ASSUME Invariant, LookInv, FollowMoved
  PROVE  NetSound(net') /\ TurnSound'
<1> DEFINE top == Head(todo)
<1>1. /\ todo # <<>> /\ UNCHANGED <<net, job>>
      /\ todo' = <<[top EXCEPT !.new = FlipIf(moved[@.node], @.neg),
                               !.follow = TRUE]>> \o Tail(todo)
  BY DEF FollowMoved, Turn
<1>2. todo \in Seq(Entry) /\ NetSound(net) /\ TurnSound
  BY DEF Invariant, TypeInv, SubstTypes, LookInv
<1>3. /\ Len(todo) \in Nat /\ DOMAIN todo = 1 .. Len(todo)
      /\ 1 \in DOMAIN todo /\ top = todo[1] /\ Tail(todo) \in Seq(Entry)
      /\ top \in Entry
  BY <1>1, <1>2
<1>4. top.old \in Gate
  BY <1>2, <1>3 DEF TurnSound
<1> DEFINE f == [top EXCEPT !.new = FlipIf(moved[@.node], @.neg), !.follow = TRUE]
<1>8. f.old = top.old /\ todo' = <<f>> \o Tail(todo)
  BY <1>1, <1>3 DEF Entry
<1> HIDE DEF top, f
<1>5. PICK e : todo' = <<e>> \o Tail(todo) /\ e.old = top.old
  BY <1>8
<1>6. \A i \in DOMAIN todo' : todo'[i] = e \/ \E j \in DOMAIN todo : todo'[i] = todo[j]
  BY <1>3, <1>5
<1>7. \A i \in DOMAIN todo' : todo'[i].old \in Gate
  BY <1>2, <1>4, <1>5, <1>6 DEF TurnSound
<1> QED BY <1>1, <1>2, <1>7 DEF TurnSound

LEMMA LookInit == Init => LookInv
<1> SUFFICES ASSUME Init PROVE LookInv
  OBVIOUS
<1>1. PICK d \in Designs :
        /\ net = Created(d.kids, d.outs) /\ todo = <<>> /\ job = NoJob /\ walk = NoWalk
  BY DEF Init
<1>2. NetSound(net)
  BY <1>1, CreatedSound, DesignsAssumption
<1>3. TurnSound
  BY <1>1 DEF TurnSound, NoJob
<1>4. RootIsGate
  BY <1>1 DEF RootIsGate, NoWalk
<1> QED BY <1>2, <1>3, <1>4 DEF LookInv

LEMMA LookStep == Invariant /\ LookInv /\ [Next]_vars => LookInv'
<1> SUFFICES ASSUME Invariant, LookInv, [Next]_vars PROVE LookInv'
  OBVIOUS
<1>1. CASE SubstitutionStep
  <2>1. NetSound(net') /\ TurnSound'
    BY <1>1, FollowMovedLooks, TakeTurnLooks, ReplaceParentLooks, FinishTurnLooks
       DEF SubstitutionStep
  <2>2. walk' = walk
    BY <1>1 DEF SubstitutionStep, FollowMoved, TakeTurn, ReplaceParent, FinishTurn, algo
  <2>3. RootIsGate'
    BY <2>2 DEF LookInv, RootIsGate
  <2>4. NetSound(net)'
    BY <2>1 DEF NetSound, Parents, Fanins
  <2> QED BY <2>1, <2>3, <2>4 DEF LookInv
<1>2. CASE ~SubstitutionStep
  <2>1. RootIsGate' /\ (UNCHANGED subst \/ Begins)
    BY <1>2, SearchSteps DEF LookInv
  <2>2. CASE UNCHANGED subst
    BY <2>1, <2>2 DEF LookInv, TurnSound, NetSound, Parents, Fanins, subst
  <2>3. CASE Begins
    <3>1. PICK root \in Gate, g \in Literal : BeginSubstitution(root, g)
      BY <2>3 DEF Begins
    <3>2. /\ todo' = <<[old |-> root, new |-> g, follow |-> FALSE]>>
          /\ UNCHANGED <<net, job>>
      BY <3>1 DEF BeginSubstitution
    <3>3. \A i \in DOMAIN todo' : todo'[i].old \in Gate
      <4> DEFINE e == [old |-> root, new |-> g, follow |-> FALSE]
      <4>1. e.old = root /\ todo' = <<e>>
        BY <3>2
      <4> HIDE DEF e
      <4> QED BY <4>1
    <3> QED BY <2>1, <3>2, <3>3 DEF LookInv, TurnSound, NetSound, Parents, Fanins
  <2> QED BY <2>1, <2>2, <2>3
<1> QED BY <1>1, <1>2

LEMMA LookHolds == Spec => [](Invariant /\ LookInv)
<1>1. Init => Invariant /\ LookInv
  BY InvariantInit, LookInit
<1>2. Invariant /\ LookInv /\ [Next]_vars => (Invariant /\ LookInv)'
  BY InvariantStep, LookStep
<1> QED BY <1>1, <1>2, PTL DEF Spec

(* Between any two steps, within a substitution too, the hash finds only   *)
(* gates in use by the fanins they have, and the lists of the fanouts hold *)
(* only parents in use, each of them once.                                 *)
THEOREM LookupsAreSound == Spec => []LookupsSound
<1>1. Invariant /\ LookInv => LookupsSound
  BY DEF LookInv, NetSound, LookupsSound
<1> QED BY <1>1, LookHolds, PTL

-----------------------------------------------------------------------------
(***************************************************************************)
(* The counters, the lists and the dead gates: MirrorsExact of a network,  *)
(* of the gates that wait and of the turn that is under way.               *)
(***************************************************************************)
OutsOf(net1, m) == {o \in DOMAIN net1.outs : net1.outs[o].node = m}

Mirrored(n, w, j) ==
  /\ \A m \in Node \ n.dead : ~(j.on /\ m = j.old) => n.refs[m] = References(n, m)
  /\ \A m \in Node \ n.dead : Parents(n, m) \subseteq ToSet(n.fanout[m])
  /\ \A g \in Gate \ n.dead : Fanins(n, g) \cap n.dead # {} => g \in w
  /\ \A o \in DOMAIN n.outs : n.outs[o].node \notin n.dead
  /\ j.on => Parents(n, j.old) \subseteq ToSet(j.parents) \cup w

(* References are gates in use and outputs, of which there are finitely    *)
(* many.                                                                   *)
LEMMA ReferencesParts ==
  ASSUME NEW net1, net1.outs \in Seq(Literal), NEW m
  PROVE  /\ IsFiniteSet(Parents(net1, m)) /\ Cardinality(Parents(net1, m)) \in Nat
         /\ IsFiniteSet(OutsOf(net1, m)) /\ Cardinality(OutsOf(net1, m)) \in Nat
         /\ References(net1, m) =
              Cardinality(Parents(net1, m)) + Cardinality(OutsOf(net1, m))
<1>1. IsFiniteSet(Parents(net1, m)) /\ Cardinality(Parents(net1, m)) \in Nat
  <2>1. Parents(net1, m) \in SUBSET Gate
    BY DEF Parents
  <2> QED BY <2>1, GateCount
<1>2. IsFiniteSet(OutsOf(net1, m)) /\ Cardinality(OutsOf(net1, m)) \in Nat
  <2>1. DOMAIN net1.outs = 1 .. Len(net1.outs) /\ Len(net1.outs) \in Nat
    OBVIOUS
  <2>2. IsFiniteSet(1 .. Len(net1.outs))
    BY <2>1, FS_Interval
  <2>3. OutsOf(net1, m) \in SUBSET (1 .. Len(net1.outs))
    BY <2>1 DEF OutsOf
  <2> QED BY <2>2, <2>3, FS_Subset, FS_CardinalityType
<1>3. References(net1, m) = Cardinality(Parents(net1, m)) + Cardinality(OutsOf(net1, m))
  BY DEF References, OutsOf
<1> QED BY <1>1, <1>2, <1>3

(* Parts that have nothing in common are counted one after the other.      *)
LEMMA CountApart ==
  ASSUME NEW S, NEW T, IsFiniteSet(S), IsFiniteSet(T), S \cap T = {}
  PROVE  /\ IsFiniteSet(S \cup T)
         /\ Cardinality(S \cup T) = Cardinality(S) + Cardinality(T)
<1>1. /\ IsFiniteSet(S \cup T)
      /\ Cardinality(S \cup T) = Cardinality(S) + Cardinality(T) - Cardinality(S \cap T)
  BY FS_Union
<1>2. Cardinality(S \cap T) = 0
  BY FS_EmptySet
<1>3. Cardinality(S) \in Nat /\ Cardinality(T) \in Nat
  BY FS_CardinalityType
<1> QED BY <1>1, <1>2, <1>3

(* What the names of the module say of the variables, before a step and    *)
(* after it.                                                               *)
LEMMA MirrorsParts ==
  /\ MirrorsExact <=> Mirrored(net, Waiting, job)
  /\ MirrorsExact' <=> Mirrored(net', Waiting', job')
<1>1. MirrorsExact <=> Mirrored(net, Waiting, job)
  BY DEF MirrorsExact, Mirrored, CountersExact, FanoutsExact, DeadUnread,
         ParentsVisited, Replaced
<1>2. MirrorsExact' <=> Mirrored(net', Waiting', job')
  BY DEF MirrorsExact, Mirrored, CountersExact, FanoutsExact, DeadUnread,
         ParentsVisited, Replaced, References, Parents, Fanins
<1> QED BY <1>1, <1>2

LEMMA CreatedMirrored ==
  ASSUME NEW d, IsDesign(d)
  PROVE  Mirrored(Created(d.kids, d.outs), {}, NoJob)
<1>1. Created(d.kids, d.outs).dead = {}
  BY DEF Created
<1>2. NoJob.on = FALSE
  BY NoJobType
<1> QED BY <1>1, <1>2, CreatedSound DEF Mirrored

-----------------------------------------------------------------------------
(* A gate that comes back counts with those that come back with it, if no  *)
(* gate in use has it as a fanin.                                          *)
LEMMA ReviveMirrored ==
  ASSUME NEW net1 \in Network, NEW n1 \in net1.dead, NetSound(net1),
         NEW w, NEW j, j.on = FALSE, Mirrored(net1, w, j),
         ~ \E g \in Gate \ net1.dead :
             Fanins(net1, g) \cap (net1.dead \ ReviveNode(net1, n1).dead) # {}
  PROVE  Mirrored(ReviveNode(net1, n1), w, j)
<1>0. PICK new, back : new = ReviveNode(net1, n1) /\ back = Returning(net1, n1)
  OBVIOUS
<1> DEFINE In(m) == {g \in ToSet(back) : m \in Fanins(net1, g)}
<1>1. RevivedBy(net1, n1, new, back)
  BY <1>0, ReviveFacts
<1>2. /\ back \in Seq(Gate) /\ IsInjective(back) /\ ToSet(back) \subseteq net1.dead
      /\ \A g \in ToSet(back) : Fanins(net1, g) \cap net1.dead \subseteq ToSet(back)
      /\ new.kids = net1.kids /\ new.outs = net1.outs
      /\ new.dead = net1.dead \ ToSet(back)
      /\ \A m \in Node :
           /\ new.refs[m] = net1.refs[m] + Len(UsesIn(net1, back, m))
           /\ new.fanout[m] = net1.fanout[m] \o UsesIn(net1, back, m)
  BY <1>1 DEF RevivedBy
<1>3. \A g \in Gate \ net1.dead : Fanins(net1, g) \cap ToSet(back) = {}
  BY <1>0, <1>2
<1>4. ToSet(back) \subseteq Gate /\ net1.dead \subseteq Gate /\ Gate \subseteq Node
  BY <1>2, NodeFacts DEF ToSet, Network
<1>5. \A m : Parents(new, m) = Parents(net1, m) \cup In(m)
  BY <1>2, <1>4 DEF Parents, Fanins
<1>6. \A m : Parents(net1, m) \cap In(m) = {}
  BY <1>2 DEF Parents
<1>7. ASSUME NEW m \in Node
      PROVE  /\ UsesIn(net1, back, m) \in Seq(Gate)
             /\ ToSet(UsesIn(net1, back, m)) = In(m)
             /\ IsFiniteSet(In(m)) /\ Cardinality(In(m)) = Len(UsesIn(net1, back, m))
             /\ Cardinality(In(m)) \in Nat
  <2>1. /\ UsesIn(net1, back, m) \in Seq(Gate) /\ IsInjective(UsesIn(net1, back, m))
        /\ ToSet(UsesIn(net1, back, m)) = In(m)
        /\ Len(UsesIn(net1, back, m)) \in Nat
    <3>1. back \in Seq(Gate) /\ IsInjective(back)
      BY <1>2
    <3>2. UsesAre(net1, back, m)
      BY <3>1, UsesInFacts
    <3> QED BY <3>2 DEF UsesAre
  <2> HIDE DEF In
  <2> QED BY <2>1, InjectiveLength
<1> HIDE DEF In
<1>8. ASSUME NEW m \in Node \ new.dead PROVE new.refs[m] = References(new, m)
  <2>1. /\ IsFiniteSet(Parents(net1, m)) /\ Cardinality(Parents(net1, m)) \in Nat
        /\ Cardinality(OutsOf(net1, m)) \in Nat /\ IsFiniteSet(OutsOf(net1, m))
        /\ References(net1, m) =
             Cardinality(Parents(net1, m)) + Cardinality(OutsOf(net1, m))
    BY ReferencesParts DEF Network
  <2>2. References(new, m) = Cardinality(Parents(new, m)) + Cardinality(OutsOf(new, m))
    BY <1>2, ReferencesParts DEF Network
  <2>3. OutsOf(new, m) = OutsOf(net1, m)
    BY <1>2 DEF OutsOf
  <2>4. Cardinality(Parents(new, m)) =
          Cardinality(Parents(net1, m)) + Cardinality(In(m))
    BY <1>5, <1>6, <1>7, <2>1, CountApart
  <2>5. net1.refs[m] = References(net1, m)
    <3>1. CASE m \notin net1.dead
      BY <3>1 DEF Mirrored
    <3>2. CASE m \in net1.dead
      <4>1. m \in ToSet(back) /\ net1.refs[m] = 0
        BY <1>2, <3>2 DEF NetSound
      <4>2. Parents(net1, m) = {}
        BY <1>3, <4>1 DEF Parents
      <4>3. OutsOf(net1, m) = {}
        BY <3>2 DEF OutsOf, Mirrored
      <4>4. Cardinality(Parents(net1, m)) = 0 /\ Cardinality(OutsOf(net1, m)) = 0
        BY <2>1, <4>2, <4>3, FS_EmptySet
      <4> QED BY <2>1, <4>1, <4>4
    <3> QED BY <3>1, <3>2
  <2>6. new.refs[m] = net1.refs[m] + Cardinality(In(m))
    BY <1>2, <1>7
  <2>7. Cardinality(In(m)) \in Nat
    BY <1>7
  <2> QED BY <2>1, <2>2, <2>3, <2>4, <2>5, <2>6, <2>7
<1>9. ASSUME NEW m \in Node \ new.dead PROVE Parents(new, m) \subseteq ToSet(new.fanout[m])
  <2>1. ToSet(new.fanout[m]) = ToSet(net1.fanout[m]) \cup In(m)
    <3>1. net1.fanout[m] \in Seq(Gate)
      BY DEF Network
    <3>2. UsesIn(net1, back, m) \in Seq(Gate) /\ ToSet(UsesIn(net1, back, m)) = In(m)
      BY <1>7
    <3>3. new.fanout[m] = net1.fanout[m] \o UsesIn(net1, back, m)
      BY <1>2
    <3> QED BY <3>1, <3>2, <3>3, ConcatParts
  <2>2. CASE m \notin net1.dead
    BY <1>5, <2>1, <2>2 DEF Mirrored
  <2>3. CASE m \in net1.dead
    <3>1. Parents(net1, m) = {}
      BY <1>2, <1>3, <2>3 DEF Parents
    <3> QED BY <1>5, <2>1, <3>1
  <2> QED BY <2>2, <2>3
<1>10. ASSUME NEW g \in Gate \ new.dead, Fanins(new, g) \cap new.dead # {} PROVE g \in w
  <2>1. Fanins(new, g) = Fanins(net1, g)
    BY <1>2 DEF Fanins
  <2>2. CASE g \in ToSet(back)
    BY <1>2, <1>10, <2>1, <2>2
  <2>3. CASE g \notin ToSet(back)
    BY <1>2, <1>10, <2>1, <2>3 DEF Mirrored
  <2> QED BY <2>2, <2>3
<1>11. \A o \in DOMAIN new.outs : new.outs[o].node \notin new.dead
  BY <1>2 DEF Mirrored
<1>12. Mirrored(new, w, j)
  BY <1>8, <1>9, <1>10, <1>11 DEF Mirrored
<1> QED BY <1>0, <1>12

(* A gate that gets another fanin counts for that one, and the counter of  *)
(* the one it leaves is not looked at any more.                            *)
LEMMA ReplaceInNodeMirrored ==
  ASSUME NEW net1 \in Network, NEW g \in Gate \ net1.dead, NEW old \in Node,
         NEW new \in Literal, new.node \notin net1.dead, new.node # old,
         NEW net2, RefannedBy(net1, g, old, new, net2),
         NEW w, NEW j, j.on, j.old = old, Mirrored(net1, w, j),
         NEW k, k.on, k.old = old, ToSet(j.parents) \subseteq {g} \cup ToSet(k.parents)
  PROVE  Mirrored(net2, w, k)
<1>1. PICK s \in Node \ {old, new.node} :
        Fanins(net1, g) = {old, s} /\ Fanins(net2, g) = {new.node, s}
  BY DEF RefannedBy
<1>2. /\ net2.outs = net1.outs /\ net2.dead = net1.dead
      /\ \A h \in Gate \ {g} : Fanins(net2, h) = Fanins(net1, h)
      /\ net2.refs = [net1.refs EXCEPT ![new.node] = @ + 1]
      /\ \A m \in Node :
           ToSet(net2.fanout[m]) =
             (ToSet(net1.fanout[m]) \ {g}) \cup {h \in {g} : m \in Fanins(net2, g)}
  BY DEF RefannedBy, Fanins
<1>3. \A m : Parents(net2, m) = (Parents(net1, m) \ {g})
                                  \cup {h \in {g} : m \in Fanins(net2, g)}
  BY <1>2 DEF Parents
<1>4. ASSUME NEW m \in Node \ net2.dead, m # old PROVE net2.refs[m] = References(net2, m)
  <2>1. /\ IsFiniteSet(Parents(net1, m)) /\ Cardinality(Parents(net1, m)) \in Nat
        /\ Cardinality(OutsOf(net1, m)) \in Nat
        /\ References(net1, m) =
             Cardinality(Parents(net1, m)) + Cardinality(OutsOf(net1, m))
    BY ReferencesParts DEF Network
  <2>2. References(net2, m) = Cardinality(Parents(net2, m)) + Cardinality(OutsOf(net2, m))
    BY <1>2, ReferencesParts DEF Network
  <2>3. OutsOf(net2, m) = OutsOf(net1, m)
    BY <1>2 DEF OutsOf
  <2>4. net1.refs[m] = References(net1, m)
    BY <1>2, <1>4 DEF Mirrored
  <2>5. CASE m = new.node
    <3>1. Parents(net2, m) = Parents(net1, m) \cup {g} /\ g \notin Parents(net1, m)
      BY <1>1, <1>3, <2>5 DEF Parents
    <3>2. Cardinality(Parents(net2, m)) = Cardinality(Parents(net1, m)) + 1
      <4>1. PICK A : A = Parents(net1, m)
        OBVIOUS
      <4>2. IsFiniteSet(A) /\ g \notin A /\ Parents(net2, m) = A \cup {g}
        BY <2>1, <3>1, <4>1
      <4>3. Cardinality(A \cup {g}) = Cardinality(A) + 1
        BY <4>2, FS_AddElement
      <4> QED BY <4>1, <4>2, <4>3
    <3>3. net2.refs[m] = net1.refs[m] + 1
      BY <1>2, <2>5 DEF Network
    <3> QED BY <2>1, <2>2, <2>3, <2>4, <3>2, <3>3
  <2>6. CASE m # new.node
    <3>1. Parents(net2, m) = Parents(net1, m)
      BY <1>1, <1>3, <1>4, <2>6 DEF Parents
    <3>2. net2.refs[m] = net1.refs[m]
      BY <1>2, <2>6 DEF Network
    <3> QED BY <2>1, <2>2, <2>3, <2>4, <3>1, <3>2
  <2> QED BY <2>5, <2>6
<1>5. \A m \in Node \ net2.dead : Parents(net2, m) \subseteq ToSet(net2.fanout[m])
  BY <1>2, <1>3 DEF Mirrored
<1>6. ASSUME NEW h \in Gate \ net2.dead, Fanins(net2, h) \cap net2.dead # {}
      PROVE  h \in w
  <2>1. CASE h = g
    <3>1. s \in net1.dead
      BY <1>1, <1>2, <1>6, <2>1
    <3> QED BY <1>1, <2>1, <3>1 DEF Mirrored
  <2>2. CASE h # g
    BY <1>2, <1>6, <2>2 DEF Mirrored
  <2> QED BY <2>1, <2>2
<1>7. \A o \in DOMAIN net2.outs : net2.outs[o].node \notin net2.dead
  BY <1>2 DEF Mirrored
<1>8. Parents(net2, k.old) \subseteq ToSet(k.parents) \cup w
  <2>1. g \notin Parents(net2, old)
    BY <1>1, <1>2 DEF Parents
  <2>2. Parents(net2, old) \subseteq Parents(net1, old) \ {g}
    BY <1>3, <2>1
  <2>3. Parents(net1, old) \subseteq ToSet(j.parents) \cup w
    BY DEF Mirrored
  <2> QED BY <2>2, <2>3
<1> QED BY <1>4, <1>5, <1>6, <1>7, <1>8 DEF Mirrored

-----------------------------------------------------------------------------
(***************************************************************************)
(* While gates fall, a counter says how many gates and outputs are left    *)
(* that refer to the node, a gate that fell is left without any, and so is *)
(* one that is to fall.  Not so n1, which falls whatever refers to it.     *)
(***************************************************************************)
FallExact(net1, n1, s) ==
  /\ \A m \in Node \ (net1.dead \cup s.dying \cup {n1}) :
       s.refs[m] = Cardinality(Parents(net1, m) \ s.dying) + Cardinality(OutsOf(net1, m))
  /\ \A m \in s.dying \ {n1} : Parents(net1, m) \subseteq s.dying /\ OutsOf(net1, m) = {}
  /\ \A m \in ToSet(s.stack) \ (net1.dead \cup s.dying \cup {n1}) : s.refs[m] = 0

LEMMA FallKeeps ==
  ASSUME NEW net1 \in Network, NEW n1 \in Gate \ net1.dead,
         NEW s \in FallStates, FallExact(net1, n1, s)
  PROVE  FallExact(net1, n1, FallNext(net1, s))
<1>0. /\ net1.kids \in [Gate -> Key] /\ net1.outs \in Seq(Literal)
      /\ Gate \subseteq Node /\ s.stack \in Seq(Node) /\ s.dying \in SUBSET Gate
      /\ s.refs \in [Node -> Nat]
  BY NodeFacts DEF Network, FallStates
<1>1. CASE s.stack = <<>>
  BY <1>1 DEF FallNext
<1>2. CASE s.stack # <<>>
  <2>0. PICK g : g = Head(s.stack)
    OBVIOUS
  <2>6. /\ g \in Node /\ Tail(s.stack) \in Seq(Node)
        /\ LastUses(net1, s) \in Seq(Node)
        /\ ToSet(LastUses(net1, s)) = Fanins(net1, g) \cap {m \in Node : s.refs[m] = 1}
        /\ FewerRefs(net1, s) \in [Node -> Nat]
        /\ g \notin Gate \ (net1.dead \cup s.dying) =>
             FallNext(net1, s) =
               [stack |-> Tail(s.stack), dying |-> s.dying, refs |-> s.refs]
        /\ g \in Gate \ (net1.dead \cup s.dying) =>
             FallNext(net1, s) = [stack |-> LastUses(net1, s) \o Tail(s.stack),
                                  dying |-> s.dying \cup {g},
                                  refs  |-> FewerRefs(net1, s)]
    <3>1. FallsBy(net1, s, g)
      BY <1>0, <1>2, <2>0, FallStep
    <3> QED BY <3>1 DEF FallsBy
  <2>1. PICK t, last, rest, fewer :
          /\ t = FallNext(net1, s)
          /\ last = LastUses(net1, s) /\ rest = Tail(s.stack)
          /\ fewer = FewerRefs(net1, s)
    OBVIOUS
  <2>2. /\ g \in Node /\ rest \in Seq(Node)
        /\ last \in Seq(Node)
        /\ ToSet(last) = Fanins(net1, g) \cap {m \in Node : s.refs[m] = 1}
        /\ fewer \in [Node -> Nat]
        /\ g \notin Gate \ (net1.dead \cup s.dying) =>
             t = [stack |-> rest, dying |-> s.dying, refs |-> s.refs]
        /\ g \in Gate \ (net1.dead \cup s.dying) =>
             t = [stack |-> last \o rest, dying |-> s.dying \cup {g}, refs  |-> fewer]
    BY <2>1, <2>6
  <2>3. ToSet(s.stack) = {g} \cup ToSet(rest)
    BY <1>0, <1>2, <2>0, <2>1, TailParts
  <2>4. CASE g \notin Gate \ (net1.dead \cup s.dying)
    <3>1. t.stack = rest /\ t.dying = s.dying /\ t.refs = s.refs
      BY <2>2, <2>4
    <3>2. FallExact(net1, n1, t)
      BY <2>3, <3>1 DEF FallExact
    <3> QED BY <2>1, <3>2
  <2>5. CASE g \in Gate \ (net1.dead \cup s.dying)
    <3> DEFINE dying == s.dying \cup {g}
    <3>1. t.stack = last \o rest /\ t.dying = dying /\ t.refs = fewer
      BY <2>2, <2>5
    <3>2. \A m \in Node :
            fewer[m] = IF m = g THEN 0
                       ELSE IF m \in Fanins(net1, g) /\ s.refs[m] > 0
                              THEN s.refs[m] - 1 ELSE s.refs[m]
      BY <2>0, <2>1, Zenon DEF FewerRefs
    <3>3. ASSUME NEW m \in Node \ (net1.dead \cup dying \cup {n1})
          PROVE  fewer[m] = Cardinality(Parents(net1, m) \ dying)
                              + Cardinality(OutsOf(net1, m))
      <4> DEFINE left == Parents(net1, m) \ s.dying
      <4>1. s.refs[m] = Cardinality(left) + Cardinality(OutsOf(net1, m))
        BY <3>3 DEF FallExact
      <4>2. /\ IsFiniteSet(left) /\ Cardinality(left) \in Nat
            /\ Cardinality(OutsOf(net1, m)) \in Nat
        <5>1. left \in SUBSET Gate
          BY DEF Parents
        <5> HIDE DEF left
        <5> QED BY <1>0, <5>1, GateCount, ReferencesParts
      <4>3. Cardinality(Parents(net1, m) \ dying) = Cardinality(left \ {g})
        <5>1. Parents(net1, m) \ dying = left \ {g}
          OBVIOUS
        <5> QED BY <5>1, Zenon
      <4>4. g \in left <=> m \in Fanins(net1, g)
        BY <2>5 DEF Parents
      <4>5. Cardinality(left \ {g}) =
              IF g \in left THEN Cardinality(left) - 1 ELSE Cardinality(left)
        BY <4>2, FS_RemoveElement
      <4>6. g \in left => Cardinality(left) # 0
        BY <4>2, FS_EmptySet
      <4>7. m # g /\ m \in Node /\ s.refs[m] \in Nat
        BY <1>0, <3>3
      <4> HIDE DEF left, dying
      <4>8. fewer[m] = IF m \in Fanins(net1, g) /\ s.refs[m] > 0
                         THEN s.refs[m] - 1 ELSE s.refs[m]
        BY <3>2, <4>7
      <4>9. CASE m \in Fanins(net1, g)
        <5>1. s.refs[m] > 0 /\ fewer[m] = s.refs[m] - 1
          BY <4>1, <4>2, <4>4, <4>6, <4>7, <4>8, <4>9
        <5>2. Cardinality(left \ {g}) = Cardinality(left) - 1
          BY <4>4, <4>5, <4>9
        <5> QED BY <4>1, <4>2, <4>3, <5>1, <5>2
      <4>10. CASE m \notin Fanins(net1, g)
        <5>1. fewer[m] = s.refs[m]
          BY <4>8, <4>10
        <5>2. Cardinality(left \ {g}) = Cardinality(left)
          BY <4>4, <4>5, <4>10
        <5> QED BY <4>1, <4>2, <4>3, <5>1, <5>2
      <4> QED BY <4>9, <4>10
    <3>4. ASSUME NEW m \in dying \ {n1}
          PROVE  Parents(net1, m) \subseteq dying /\ OutsOf(net1, m) = {}
      <4>1. CASE m \in s.dying
        BY <4>1, <3>4 DEF FallExact
      <4>2. CASE m = g
        <5>1. /\ m \in Node \ (net1.dead \cup s.dying \cup {n1})
              /\ m \in ToSet(s.stack) \ (net1.dead \cup s.dying \cup {n1})
          BY <2>2, <2>3, <2>5, <3>4, <4>2
        <5>2. 0 = Cardinality(Parents(net1, m) \ s.dying) + Cardinality(OutsOf(net1, m))
          BY <5>1 DEF FallExact
        <5>3. /\ IsFiniteSet(OutsOf(net1, m)) /\ Cardinality(OutsOf(net1, m)) \in Nat
              /\ IsFiniteSet(Parents(net1, m) \ s.dying)
              /\ Cardinality(Parents(net1, m) \ s.dying) \in Nat
          <6>1. Parents(net1, m) \ s.dying \in SUBSET Gate
            BY DEF Parents
          <6> QED BY <1>0, <6>1, GateCount, ReferencesParts
        <5>4. /\ Cardinality(Parents(net1, m) \ s.dying) = 0
              /\ Cardinality(OutsOf(net1, m)) = 0
          BY <5>2, <5>3
        <5>5. Parents(net1, m) \ s.dying = {} /\ OutsOf(net1, m) = {}
          BY <5>3, <5>4, FS_EmptySet
        <5> QED BY <5>5
      <4> QED BY <3>4, <4>1, <4>2
    <3>5. ASSUME NEW m \in ToSet(last \o rest) \ (net1.dead \cup dying \cup {n1})
          PROVE  fewer[m] = 0
      <4>1. ToSet(last \o rest) = ToSet(last) \cup ToSet(rest)
        BY <2>2, ConcatParts
      <4>2. m # g
        BY <3>5
      <4>3. m \in Node
        <5>1. \A k \in ToSet(rest) : k \in Node
          BY <2>2 DEF ToSet
        <5> QED BY <2>2, <3>5, <4>1, <5>1
      <4>4. CASE m \in ToSet(last)
        <5>1. m \in Fanins(net1, g) /\ s.refs[m] = 1
          BY <2>2, <4>4
        <5> HIDE DEF dying
        <5> QED BY <3>2, <4>2, <4>3, <5>1
      <4>5. CASE m \in ToSet(rest)
        <5>1. s.refs[m] = 0
          BY <2>3, <3>5, <4>5 DEF FallExact
        <5> HIDE DEF dying
        <5> QED BY <3>2, <4>2, <4>3, <5>1
      <4> QED BY <3>5, <4>1, <4>4, <4>5
    <3>6. FallExact(net1, n1, t)
      <4> HIDE DEF dying
      <4> QED BY <3>1, <3>3, <3>4, <3>5 DEF FallExact
    <3> QED BY <2>1, <3>6
  <2> QED BY <2>4, <2>5
<1> QED BY <1>1, <1>2

(* The first round takes n1 out, and no round brings a gate back.          *)
LEMMA FallTakes ==
  ASSUME NEW net1 \in Network, NEW n1 \in Gate \ net1.dead,
         \A m \in Node \ (net1.dead \cup {n1}) : net1.refs[m] = References(net1, m)
  PROVE  /\ n1 \in Falling(net1, n1).dying
         /\ FallExact(net1, n1, Falling(net1, n1))
<1> DEFINE T == {s \in FallStates : n1 \in s.dying /\ FallExact(net1, n1, s)}
           base == [stack |-> <<n1>>, dying |-> {}, refs |-> net1.refs]
<1>1. /\ net1.kids \in [Gate -> Key] /\ net1.refs \in [Node -> Nat] /\ n1 \in Node
      /\ net1.outs \in Seq(Literal)
  BY NodeFacts DEF Network
<1>2. ASSUME NEW s \in FallStates
      PROVE  /\ FallNext(net1, s) \in FallStates
             /\ s.dying \subseteq FallNext(net1, s).dying
             /\ s.stack # <<>> /\ Head(s.stack) = n1 => n1 \in FallNext(net1, s).dying
  <2>1. CASE s.stack = <<>>
    BY <2>1 DEF FallNext
  <2>2. CASE s.stack # <<>>
    <3>1. PICK g, t : g = Head(s.stack) /\ t = FallNext(net1, s)
      OBVIOUS
    <3>2. /\ g \in Node /\ Tail(s.stack) \in Seq(Node)
          /\ LastUses(net1, s) \in Seq(Node) /\ FewerRefs(net1, s) \in [Node -> Nat]
          /\ g \notin Gate \ (net1.dead \cup s.dying) =>
               t = [stack |-> Tail(s.stack), dying |-> s.dying, refs |-> s.refs]
          /\ g \in Gate \ (net1.dead \cup s.dying) =>
               t = [stack |-> LastUses(net1, s) \o Tail(s.stack),
                    dying |-> s.dying \cup {g}, refs  |-> FewerRefs(net1, s)]
      <4>1. FallsBy(net1, s, g)
        BY <1>1, <2>2, <3>1, FallStep
      <4> QED BY <3>1, <4>1 DEF FallsBy
    <3>3. s.dying \in SUBSET Gate /\ s.refs \in [Node -> Nat]
      BY DEF FallStates
    <3>4. LastUses(net1, s) \o Tail(s.stack) \in Seq(Node)
      BY <3>2
    <3>5. CASE g \notin Gate \ (net1.dead \cup s.dying)
      <4>1. t = [stack |-> Tail(s.stack), dying |-> s.dying, refs |-> s.refs]
        BY <3>2, <3>5
      <4>2. g = n1 => n1 \in s.dying
        BY <3>5
      <4> QED BY <3>1, <3>2, <3>3, <4>1, <4>2 DEF FallStates
    <3>6. CASE g \in Gate \ (net1.dead \cup s.dying)
      <4>1. t = [stack |-> LastUses(net1, s) \o Tail(s.stack),
                 dying |-> s.dying \cup {g}, refs  |-> FewerRefs(net1, s)]
        BY <3>2, <3>6
      <4> QED BY <3>1, <3>2, <3>3, <3>4, <3>6, <4>1 DEF FallStates
    <3> QED BY <3>5, <3>6
  <2> QED BY <2>1, <2>2
<1>3. base \in FallStates /\ FallExact(net1, n1, base)
  <2>1. /\ base.stack = <<n1>> /\ base.dying = {} /\ base.refs = net1.refs
    OBVIOUS
  <2>2. <<n1>> \in Seq(Node) /\ ToSet(<<n1>>) = {n1}
    BY <1>1 DEF ToSet
  <2>3. base \in FallStates
    BY <1>1, <2>2 DEF FallStates
  <2>4. \A m \in Node \ (net1.dead \cup {n1}) :
          net1.refs[m] = Cardinality(Parents(net1, m) \ {}) + Cardinality(OutsOf(net1, m))
    <3>1. \A m : Parents(net1, m) \ {} = Parents(net1, m)
      OBVIOUS
    <3> QED BY <1>1, <3>1, ReferencesParts
  <2> HIDE DEF base
  <2> QED BY <2>1, <2>2, <2>3, <2>4 DEF FallExact
<1>4. FallNext(net1, base) \in T
  <2>1. base.stack # <<>> /\ Head(base.stack) = n1
    OBVIOUS
  <2> HIDE DEF base
  <2> QED BY <1>2, <1>3, <2>1, FallKeeps
<1>5. ASSUME NEW s \in T PROVE FallNext(net1, s) \in T
  BY <1>2, FallKeeps
<1>6. T \in SUBSET FallStates
  OBVIOUS
<1>7. Falling(net1, n1) \in T
  <2> HIDE DEF T
  <2> QED BY <1>1, <1>4, <1>5, <1>6, FallInduct
<1> QED BY <1>7

(* Nothing falls when n1 was taken out before.                             *)
LEMMA FallNone ==
  ASSUME NEW net1 \in Network, NEW n1 \in net1.dead
  PROVE  Falling(net1, n1).dying = {} /\ Falling(net1, n1).refs = net1.refs
<1> DEFINE none == [stack |-> <<>>, dying |-> {}, refs |-> net1.refs]
           base == [stack |-> <<n1>>, dying |-> {}, refs |-> net1.refs]
           T == {none}
<1>1. /\ net1.kids \in [Gate -> Key] /\ net1.refs \in [Node -> Nat] /\ n1 \in Node
  BY NodeFacts DEF Network
<1>2. FallNext(net1, base) = none
  <2>1. base.stack = <<n1>> /\ base.stack # <<>> /\ Head(base.stack) = n1
    OBVIOUS
  <2>2. FallNext(net1, base) = [base EXCEPT !.stack = Tail(@)]
    BY <2>1 DEF FallNext
  <2>3. Tail(<<n1>>) = <<>>
    OBVIOUS
  <2> QED BY <2>1, <2>2, <2>3
<1>3. FallNext(net1, none) = none
  BY DEF FallNext
<1>4. none \in FallStates
  BY <1>1 DEF FallStates
<1>5. Falling(net1, n1) \in T
  <2>1. T \in SUBSET FallStates /\ FallNext(net1, base) \in T
        /\ \A s \in T : FallNext(net1, s) \in T
    BY <1>2, <1>3, <1>4
  <2> HIDE DEF T
  <2> QED BY <1>1, <2>1, FallInduct
<1> QED BY <1>5

-----------------------------------------------------------------------------
(* What drove the outputs leaves them to the new node, with their count.   *)
LEMMA RedrivenCounts ==
  ASSUME NEW net1 \in Network, NEW old \in Gate \ net1.dead, NEW new \in Literal,
         new.node # old, new.node \notin net1.dead,
         NEW net2 \in Network, RedrivenBy(net1, old, new, net2),
         \A m \in Node \ (net1.dead \cup {old}) : net1.refs[m] = References(net1, m)
  PROVE  \A m \in Node \ (net2.dead \cup {old}) : net2.refs[m] = References(net2, m)
<1>1. /\ net2.kids = net1.kids /\ net2.dead = net1.dead
      /\ net2.refs = [net1.refs EXCEPT ![new.node] = @ + Cardinality(OutsOf(net1, old))]
      /\ DOMAIN net2.outs = DOMAIN net1.outs
      /\ \A o \in DOMAIN net1.outs :
           net2.outs[o].node = IF net1.outs[o].node = old THEN new.node
                                                          ELSE net1.outs[o].node
  BY DEF RedrivenBy, OutsOf
<1>2. net1.outs \in Seq(Literal) /\ net2.outs \in Seq(Literal)
      /\ net1.refs \in [Node -> Nat] /\ new.node \in Node
  BY DEF Network, Literal
<1>3. SUFFICES ASSUME NEW m \in Node \ (net2.dead \cup {old})
               PROVE  net2.refs[m] = References(net2, m)
  OBVIOUS
<1>4. Cardinality(Parents(net2, m)) = Cardinality(Parents(net1, m))
  <2>1. Parents(net2, m) = Parents(net1, m)
    BY <1>1 DEF Parents, Fanins
  <2> QED BY <2>1, Zenon
<1>5. /\ IsFiniteSet(OutsOf(net1, m)) /\ Cardinality(OutsOf(net1, m)) \in Nat
      /\ IsFiniteSet(OutsOf(net1, old)) /\ Cardinality(OutsOf(net1, old)) \in Nat
      /\ Cardinality(Parents(net1, m)) \in Nat
      /\ References(net1, m) =
           Cardinality(Parents(net1, m)) + Cardinality(OutsOf(net1, m))
      /\ References(net2, m) =
           Cardinality(Parents(net2, m)) + Cardinality(OutsOf(net2, m))
  BY <1>2, ReferencesParts
<1>6. net1.refs[m] = References(net1, m)
  BY <1>1
<1>7. CASE m = new.node
  <2>1. OutsOf(net2, m) = OutsOf(net1, m) \cup OutsOf(net1, old)
    BY <1>1, <1>7 DEF OutsOf
  <2>2. OutsOf(net1, m) \cap OutsOf(net1, old) = {}
    BY <1>3 DEF OutsOf
  <2>3. Cardinality(OutsOf(net1, m) \cup OutsOf(net1, old)) =
          Cardinality(OutsOf(net1, m)) + Cardinality(OutsOf(net1, old))
    BY <1>5, <2>2, CountApart
  <2>4. Cardinality(OutsOf(net2, m)) =
          Cardinality(OutsOf(net1, m)) + Cardinality(OutsOf(net1, old))
    BY <2>1, <2>3, Zenon
  <2>5. net2.refs[m] = net1.refs[m] + Cardinality(OutsOf(net1, old))
    BY <1>1, <1>2, <1>7
  <2> QED BY <1>4, <1>5, <1>6, <2>4, <2>5
<1>8. CASE m # new.node
  <2>1. OutsOf(net2, m) = OutsOf(net1, m)
    BY <1>1, <1>3, <1>8 DEF OutsOf
  <2>2. Cardinality(OutsOf(net2, m)) = Cardinality(OutsOf(net1, m))
    BY <2>1, Zenon
  <2>3. net2.refs[m] = net1.refs[m]
    BY <1>1, <1>2, <1>8
  <2> QED BY <1>4, <1>5, <1>6, <2>2, <2>3
<1> QED BY <1>7, <1>8

(* A replaced gate that was taken out before is taken out once.            *)
LEMMA TakeOutAgain ==
  ASSUME NEW net1 \in Network, NetSound(net1), NEW old \in net1.dead,
         NEW w, NEW v, w \subseteq {old} \cup v, NEW j, j.old = old,
         Mirrored(net1, w, j), NEW k, k.on = FALSE
  PROVE  Mirrored(TakeOutNode(net1, old), v, k)
<1>0. PICK net2 : net2 = TakeOutNode(net1, old)
  OBVIOUS
<1>1. old \in Node
  BY NodeFacts DEF Network
<1>2. /\ net2.kids = net1.kids /\ net2.outs = net1.outs /\ net2.dead = net1.dead
      /\ net2.refs = net1.refs
      /\ \A m \in Node : ToSet(net2.fanout[m]) = ToSet(net1.fanout[m])
  <2>1. Falling(net1, old).dying = {} /\ Falling(net1, old).refs = net1.refs
    BY FallNone
  <2>2. /\ TakenOut(net1, Falling(net1, old).dying, net2)
        /\ net2.refs = Falling(net1, old).refs
    BY <1>0, <1>1, TakeOutNodeSound
  <2>3. TakenOut(net1, {}, net2)
    BY <2>1, <2>2, Zenon
  <2> QED BY <2>1, <2>2, <2>3 DEF TakenOut
<1>3. \A m : Parents(net2, m) = Parents(net1, m)
  BY <1>2 DEF Parents, Fanins
<1>4. ASSUME NEW m \in Node \ net2.dead PROVE net2.refs[m] = References(net2, m)
  <2>1. net1.refs[m] = References(net1, m)
    BY <1>2 DEF Mirrored
  <2>2. References(net2, m) = References(net1, m)
    <3>1. Parents(net2, m) = Parents(net1, m)
      BY <1>3
    <3> QED BY <1>2, <3>1, Zenon DEF References
  <2> QED BY <1>2, <2>1, <2>2
<1>5. \A m \in Node \ net2.dead : Parents(net2, m) \subseteq ToSet(net2.fanout[m])
  BY <1>2, <1>3 DEF Mirrored
<1>6. ASSUME NEW g \in Gate \ net2.dead, Fanins(net2, g) \cap net2.dead # {} PROVE g \in v
  <2>1. Fanins(net1, g) \cap net1.dead # {} /\ g \in Gate \ net1.dead
    BY <1>2, <1>6 DEF Fanins
  <2> QED BY <2>1 DEF Mirrored
<1>7. \A o \in DOMAIN net2.outs : net2.outs[o].node \notin net2.dead
  BY <1>2 DEF Mirrored
<1> QED BY <1>0, <1>4, <1>5, <1>6, <1>7 DEF Mirrored

(* A replaced gate that no gate has as a fanin but those that wait, and no *)
(* output: what falls with it leaves no reference behind.                  *)
LEMMA TakeOutMirrored ==
  ASSUME NEW net1 \in Network, NetSound(net1), NEW old \in Gate \ net1.dead,
         NEW w, NEW v, w \subseteq {old} \cup v, NEW j, j.on, j.old = old,
         Mirrored(net1, w, j), Parents(net1, old) \subseteq w,
         OutsOf(net1, old) = {}, NEW k, k.on = FALSE
  PROVE  Mirrored(TakeOutNode(net1, old), v, k)
<1>0. PICK net2, fall, dying : /\ net2 = TakeOutNode(net1, old)
                               /\ fall = Falling(net1, old) /\ dying = fall.dying
  OBVIOUS
<1>1. old \in Node
  BY NodeFacts
<1>2. /\ net2.kids = net1.kids /\ net2.outs = net1.outs
      /\ net2.dead = net1.dead \cup dying /\ net2.refs = fall.refs
      /\ \A m \in Node \ dying : ToSet(net2.fanout[m]) = ToSet(net1.fanout[m]) \ dying
  <2>1. TakenOut(net1, dying, net2) /\ net2.refs = fall.refs
    BY <1>0, <1>1, TakeOutNodeSound
  <2> QED BY <2>1 DEF TakenOut
<1>3. old \in dying /\ FallExact(net1, old, fall)
  <2>1. \A m \in Node \ (net1.dead \cup {old}) : net1.refs[m] = References(net1, m)
    BY DEF Mirrored
  <2> QED BY <1>0, <2>1, FallTakes
<1>4. \A m : Parents(net2, m) = Parents(net1, m) \ dying
  BY <1>2 DEF Parents, Fanins
<1>5. ASSUME NEW m \in Node \ net2.dead PROVE net2.refs[m] = References(net2, m)
  <2>1. fall.refs[m] = Cardinality(Parents(net1, m) \ dying)
                         + Cardinality(OutsOf(net1, m))
    BY <1>0, <1>2, <1>3 DEF FallExact
  <2>2. References(net2, m) = Cardinality(Parents(net2, m)) + Cardinality(OutsOf(net2, m))
    BY <1>2, ReferencesParts DEF Network
  <2>3. Cardinality(Parents(net2, m)) = Cardinality(Parents(net1, m) \ dying)
    <3>1. Parents(net2, m) = Parents(net1, m) \ dying
      BY <1>4
    <3> QED BY <3>1, Zenon
  <2>4. OutsOf(net2, m) = OutsOf(net1, m)
    BY <1>2 DEF OutsOf
  <2>5. Cardinality(OutsOf(net2, m)) = Cardinality(OutsOf(net1, m))
    BY <2>4, Zenon
  <2> QED BY <1>2, <2>1, <2>2, <2>3, <2>5
<1>6. \A m \in Node \ net2.dead : Parents(net2, m) \subseteq ToSet(net2.fanout[m])
  BY <1>2, <1>4 DEF Mirrored
<1>7. ASSUME NEW g \in Gate \ net2.dead, Fanins(net2, g) \cap net2.dead # {} PROVE g \in v
  <2>1. g \notin dying /\ g \notin net1.dead /\ g # old
    BY <1>2, <1>3, <1>7
  <2>2. PICK m \in Fanins(net1, g) : m \in net1.dead \cup dying
    BY <1>2, <1>7 DEF Fanins
  <2>3. g \in Parents(net1, m)
    BY <2>1, <2>2, <1>7 DEF Parents
  <2>4. CASE m \in net1.dead
    BY <2>1, <2>2, <2>4 DEF Mirrored
  <2>5. CASE m = old
    BY <2>1, <2>3, <2>5
  <2>6. CASE m \in dying \ {old}
    BY <1>0, <1>3, <2>1, <2>3, <2>6 DEF FallExact
  <2> QED BY <2>2, <2>4, <2>5, <2>6
<1>8. ASSUME NEW o \in DOMAIN net2.outs PROVE net2.outs[o].node \notin net2.dead
  <2>1. /\ o \in DOMAIN net1.outs /\ net2.outs[o] = net1.outs[o]
        /\ o \in OutsOf(net1, net1.outs[o].node)
    BY <1>2, <1>8 DEF OutsOf
  <2>2. net1.outs[o].node \notin net1.dead
    BY <2>1 DEF Mirrored
  <2>3. net1.outs[o].node \notin dying
    BY <1>0, <1>3, <2>1 DEF FallExact
  <2> QED BY <1>2, <2>1, <2>2, <2>3
<1> QED BY <1>0, <1>5, <1>6, <1>7, <1>8 DEF Mirrored

-----------------------------------------------------------------------------
(* The gates that wait, before and after a step.                           *)
Olds(seq) == {seq[i].old : i \in DOMAIN seq}

LEMMA WaitingParts ==
  /\ Waiting = (IF job.on THEN {job.old} ELSE {}) \cup Olds(todo)
  /\ Waiting' = (IF job'.on THEN {job'.old} ELSE {}) \cup Olds(todo')
BY DEF Waiting, Replaced, Olds

LEMMA OldsParts ==
  ASSUME NEW e, NEW s \in Seq(Entry)
  PROVE  /\ Olds(<<e>> \o s) = {e.old} \cup Olds(s)
         /\ s # <<>> => Olds(s) = {Head(s).old} \cup Olds(Tail(s))
<1>1. Len(s) \in Nat /\ DOMAIN s = 1 .. Len(s)
  OBVIOUS
<1>2. Olds(<<e>> \o s) = {e.old} \cup Olds(s)
  <2> DEFINE w == <<e>> \o s
  <2>1. DOMAIN w = 1 .. Len(s) + 1 /\ w[1] = e
        /\ \A i \in 1 .. Len(s) : i + 1 \in 1 .. Len(s) + 1 /\ w[i + 1] = s[i]
    BY <1>1
  <2>2. \A i \in 1 .. Len(s) + 1 : i = 1 \/ (i - 1 \in 1 .. Len(s) /\ w[i] = s[i - 1])
    BY <1>1
  <2> HIDE DEF w
  <2>3. ASSUME NEW x \in Olds(w) PROVE x \in {e.old} \cup Olds(s)
    <3>1. PICK i \in 1 .. Len(s) + 1 : x = w[i].old
      BY <2>1, <2>3 DEF Olds
    <3>2. CASE i = 1
      BY <2>1, <3>1, <3>2
    <3>3. CASE i # 1
      <4>1. i - 1 \in DOMAIN s /\ x = s[i - 1].old
        BY <1>1, <2>2, <3>1, <3>3
      <4> QED BY <4>1 DEF Olds
    <3> QED BY <3>2, <3>3
  <2>4. ASSUME NEW x \in {e.old} \cup Olds(s) PROVE x \in Olds(w)
    <3>1. CASE x = e.old
      <4>1. 1 \in DOMAIN w
        BY <1>1, <2>1
      <4> QED BY <2>1, <3>1, <4>1 DEF Olds
    <3>2. CASE x \in Olds(s)
      <4>1. PICK i \in 1 .. Len(s) : x = s[i].old
        BY <1>1, <3>2 DEF Olds
      <4> QED BY <2>1, <4>1 DEF Olds
    <3> QED BY <2>4, <3>1, <3>2
  <2>5. Olds(w) = {e.old} \cup Olds(s)
    BY <2>3, <2>4
  <2> QED BY <2>5 DEF w
<1>3. ASSUME s # <<>> PROVE Olds(s) = {Head(s).old} \cup Olds(Tail(s))
  <2> DEFINE t == Tail(s)
  <2>1. /\ Len(s) >= 1 /\ DOMAIN t = 1 .. Len(s) - 1 /\ Head(s) = s[1]
        /\ \A i \in 1 .. Len(s) - 1 : t[i] = s[i + 1] /\ i + 1 \in 1 .. Len(s)
        /\ 1 \in 1 .. Len(s)
    BY <1>1, <1>3
  <2>2. \A i \in 1 .. Len(s) : i = 1 \/ (i - 1 \in 1 .. Len(s) - 1 /\ s[i] = t[i - 1])
    BY <1>1, <1>3
  <2> HIDE DEF t
  <2>3. ASSUME NEW x \in Olds(s) PROVE x \in {s[1].old} \cup Olds(t)
    <3>1. PICK i \in 1 .. Len(s) : x = s[i].old
      BY <1>1, <2>3 DEF Olds
    <3>2. CASE i = 1
      BY <3>1, <3>2
    <3>3. CASE i # 1
      <4>1. i - 1 \in DOMAIN t /\ x = t[i - 1].old
        BY <2>1, <2>2, <3>1, <3>3
      <4> QED BY <4>1 DEF Olds
    <3> QED BY <3>2, <3>3
  <2>4. ASSUME NEW x \in {s[1].old} \cup Olds(t) PROVE x \in Olds(s)
    <3>1. CASE x = s[1].old
      BY <1>1, <2>1, <3>1 DEF Olds
    <3>2. CASE x \in Olds(t)
      <4>1. PICK i \in 1 .. Len(s) - 1 : x = t[i].old
        BY <2>1, <3>2 DEF Olds
      <4> QED BY <1>1, <2>1, <4>1 DEF Olds
    <3> QED BY <2>4, <3>1, <3>2
  <2>5. Olds(s) = {s[1].old} \cup Olds(t)
    BY <2>3, <2>4
  <2> QED BY <2>1, <2>5 DEF t
<1> QED BY <1>2, <1>3

-----------------------------------------------------------------------------
(* A turn begins with all the parents there are of the gate it replaces,   *)
(* but for those that wait, as the parents of a gate taken out do.         *)
LEMMA TakeTurnMirrors ==
  ASSUME Invariant, LookInv, MirrorsExact, TakeTurn, ~RevivesFanin, ~StaysItself
  PROVE  MirrorsExact'
<1> DEFINE live == IF IsDead(Head(todo).new) THEN ReviveNode(net, Head(todo).new.node)
                                              ELSE net
<1>1. /\ todo # <<>> /\ ~job.on
      /\ net' = live
      /\ job' = IF Head(todo).new = Lit(Head(todo).old) THEN NoJob
                ELSE [old |-> Head(todo).old, new |-> Head(todo).new, on |-> TRUE,
                      parents |-> live.fanout[Head(todo).old]]
      /\ todo' = Tail(todo)
  BY DEF TakeTurn, Turn
<1>2. PICK top : top = Head(todo)
  OBVIOUS
<1>3. /\ net \in Network /\ todo \in Seq(Entry) /\ NetSound(net) /\ TurnSound
      /\ job \in Job
  BY DEF Invariant, TypeInv, SubstTypes, LookInv
<1>4. top \in Entry /\ top.old \in Node /\ top.new.node \in Node
  <2> HIDE DEF live
  <2>1. todo # <<>>
    BY <1>1
  <2>2. top \in Entry
    BY <1>2, <1>3, <2>1
  <2> QED BY <2>2 DEF Entry, Literal
<1>5. job' = [old |-> top.old, new |-> top.new, on |-> TRUE,
              parents |-> live.fanout[top.old]]
  <2>1. job'.on /\ NoJob.on = FALSE
    BY <1>1, NoJobType DEF StaysItself
  <2> HIDE DEF live
  <2> QED BY <1>1, <1>2, <2>1
<1>6. job.on = FALSE
  BY <1>1, <1>3 DEF Job
<1> DEFINE w == Olds(todo)
<1>7. Waiting = w /\ Waiting' = w
  <2>1. Olds(todo) = {top.old} \cup Olds(todo')
    BY <1>1, <1>2, <1>3, OldsParts
  <2>2. job'.on /\ job'.old = top.old
    BY <1>5
  <2> QED BY <1>1, <2>1, <2>2, WaitingParts
<1> HIDE DEF w
<1>8. Mirrored(net, w, job)
  BY <1>7, MirrorsParts
<1>9. Mirrored(live, w, job)
  <2>1. CASE IsDead(top.new)
    <3>1. live = ReviveNode(net, top.new.node) /\ top.new.node \in net.dead
      BY <1>2, <2>1 DEF IsDead
    <3>2. ~ \E g \in Gate \ net.dead :
              Fanins(net, g)
                \cap (net.dead \ ReviveNode(net, top.new.node).dead) # {}
      BY <1>1, <3>1 DEF RevivesFanin
    <3> HIDE DEF live
    <3> QED BY <1>3, <1>6, <1>8, <3>1, <3>2, ReviveMirrored
  <2>2. CASE ~IsDead(top.new)
    BY <1>2, <1>8, <2>2
  <2> QED BY <2>1, <2>2
<1> HIDE DEF live
<1>10. Parents(live, top.old) \subseteq ToSet(live.fanout[top.old]) \cup w
  <2>1. CASE top.old \notin live.dead
    BY <1>4, <1>9, <2>1 DEF Mirrored
  <2>2. CASE top.old \in live.dead
    <3>1. ASSUME NEW g \in Parents(live, top.old) PROVE g \in w
      BY <1>9, <2>2, <3>1 DEF Mirrored, Parents
    <3> QED BY <3>1
  <2> QED BY <2>1, <2>2
<1>11. PICK k : k = job'
  OBVIOUS
<1>12. k.old = top.old /\ k.parents = live.fanout[top.old]
  BY <1>5, <1>11
<1>13. Mirrored(live, w, k)
  BY <1>6, <1>9, <1>10, <1>12 DEF Mirrored
<1> QED BY <1>1, <1>7, <1>11, <1>13, MirrorsParts

LEMMA ReplaceParentMirrors ==
  ASSUME Invariant, LookInv, MirrorsExact, ReplaceParent
  PROVE  MirrorsExact'
<1> DEFINE simple == Simplified(net, Head(job.parents), job.old, job.new)
<1>1. /\ job.on /\ job.parents # <<>>
      /\ job.old \in Fanins(net, Head(job.parents))
      /\ job' = [job EXCEPT !.parents = Tail(@)]
      /\ \/ /\ simple = {}
            /\ net' = ReplaceInNode(net, Head(job.parents), job.old, job.new)
            /\ UNCHANGED todo
         \/ \E l \in simple :
              /\ todo' = <<[old |-> Head(job.parents), new |-> l, follow |-> FALSE]>>
                           \o todo
              /\ UNCHANGED net
  BY DEF ReplaceParent
<1>2. /\ net \in Network /\ todo \in Seq(Entry) /\ NetSound(net) /\ TurnSound
      /\ job \in Job
  BY DEF Invariant, TypeInv, SubstTypes, LookInv
<1>3. /\ job.parents \in Seq(Gate) /\ job.new \in Literal /\ job.old \in Node
      /\ job.new.node # job.old /\ job.new.node \notin net.dead
  BY <1>1, <1>2 DEF Job, TurnSound
<1>4. PICK p : p = Head(job.parents)
  OBVIOUS
<1>5. /\ p \in Gate \ net.dead
      /\ ToSet(job.parents) = {p} \cup ToSet(Tail(job.parents))
  <2>1. p \in Gate /\ ToSet(job.parents) = {p} \cup ToSet(Tail(job.parents))
    BY <1>1, <1>3, <1>4, TailParts
  <2> QED BY <1>1, <1>2, <2>1 DEF TurnSound
<1>6. PICK k : k = job'
  OBVIOUS
<1>7. k.on /\ k.old = job.old /\ k.parents = Tail(job.parents)
  BY <1>1, <1>2, <1>6 DEF Job
<1>8. Mirrored(net, Waiting, job)
  BY MirrorsParts
<1>9. CASE simple = {} /\ net' = ReplaceInNode(net, p, job.old, job.new) /\ UNCHANGED todo
  <2>1. RefannedBy(net, p, job.old, job.new, net')
    <3>1. Simplified(net, p, job.old, job.new) = {} /\ job.old \in Fanins(net, p)
      BY <1>1, <1>4, <1>9
    <3> HIDE DEF simple
    <3> QED BY <1>2, <1>3, <1>5, <1>9, <3>1, ReplaceInNodeSound
  <2>2. Waiting' = Waiting
    BY <1>1, <1>6, <1>7, <1>9, WaitingParts
  <2>3. PICK net2, w : net2 = net' /\ w = Waiting
    OBVIOUS
  <2>4. Mirrored(net2, w, k)
    <3>1. /\ RefannedBy(net, p, job.old, job.new, net2) /\ Mirrored(net, w, job)
          /\ ToSet(job.parents) \subseteq {p} \cup ToSet(k.parents)
      BY <1>5, <1>7, <1>8, <2>1, <2>3
    <3>2. job.on /\ k.on /\ k.old = job.old /\ p \in Gate \ net.dead
          /\ net \in Network
      BY <1>1, <1>2, <1>5, <1>7
    <3> HIDE DEF simple
    <3> QED BY <1>3, <3>1, <3>2, ReplaceInNodeMirrored
  <2> QED BY <1>6, <2>2, <2>3, <2>4, MirrorsParts
<1>10. CASE /\ UNCHANGED net
            /\ \E l \in simple :
                 todo' = <<[old |-> p, new |-> l, follow |-> FALSE]>> \o todo
  <2>1. PICK e : todo' = <<e>> \o todo /\ e.old = p
    <3>1. PICK l \in simple :
            todo' = <<[old |-> p, new |-> l, follow |-> FALSE]>> \o todo
      BY <1>10
    <3> DEFINE f == [old |-> p, new |-> l, follow |-> FALSE]
    <3>2. todo' = <<f>> \o todo /\ f.old = p
      BY <3>1
    <3> HIDE DEF f
    <3> QED BY <3>2
  <2>2. Waiting' = Waiting \cup {p}
    <3>1. Olds(todo') = {p} \cup Olds(todo)
      BY <1>2, <2>1, OldsParts
    <3> QED BY <1>1, <1>6, <1>7, <3>1, WaitingParts
  <2>3. PICK w : w = Waiting
    OBVIOUS
  <2>4. Mirrored(net, w \cup {p}, k)
    <3>1. Mirrored(net, w, job)
      BY <1>8, <2>3
    <3>2. Parents(net, k.old) \subseteq ToSet(k.parents) \cup (w \cup {p})
      BY <1>1, <1>5, <1>7, <3>1 DEF Mirrored
    <3> QED BY <1>7, <3>1, <3>2 DEF Mirrored
  <2> QED BY <1>6, <1>10, <2>2, <2>3, <2>4, MirrorsParts
<1> QED BY <1>1, <1>4, <1>9, <1>10

LEMMA FinishTurnMirrors ==
  ASSUME Invariant, LookInv, MirrorsExact, FinishTurn
  PROVE  MirrorsExact'
<1> DEFINE out == ReplaceInOutputs(net, job.old, job.new)
<1>1. /\ job.on /\ job.parents = <<>>
      /\ net' = IF job.old = job.new.node THEN out ELSE TakeOutNode(out, job.old)
      /\ job' = NoJob
      /\ todo' = todo
  BY DEF FinishTurn
<1>2. net \in Network /\ NetSound(net) /\ TurnSound /\ job \in Job
  BY DEF Invariant, TypeInv, SubstTypes, LookInv
<1>3. /\ job.old \in Gate /\ job.new \in Literal /\ job.new.node \in Node
      /\ job.new.node # job.old /\ job.new.node \notin net.dead
      /\ job.old \in Node
  BY <1>1, <1>2 DEF Job, TurnSound, Literal
<1> DEFINE v == Olds(todo)
           w == {job.old} \cup v
<1>4. Waiting = w /\ Waiting' = v
  <2>1. job'.on = FALSE /\ job.on
    BY <1>1, NoJobType
  <2> QED BY <1>1, <2>1, WaitingParts
<1> HIDE DEF v
<1>5. Mirrored(net, w, job)
  BY <1>4, MirrorsParts
<1>6. Parents(net, job.old) \subseteq w
  <2>1. ToSet(job.parents) = {}
    BY <1>1 DEF ToSet
  <2> QED BY <1>1, <1>5, <2>1 DEF Mirrored
<1>7. /\ NetSound(out) /\ out \in Network
      /\ job.old \in net.dead => out = net
      /\ job.old \notin net.dead => RedrivenBy(net, job.old, job.new, out)
  BY <1>2, <1>3, ReplaceInOutputsSound, ReplaceInOutputsKeeps
<1>8. net' = TakeOutNode(out, job.old)
  BY <1>1, <1>3
<1>9. PICK k : k = NoJob /\ k.on = FALSE
  BY NoJobType
<1> HIDE DEF out
<1>10. CASE job.old \in net.dead
  <2>1. out = net
    BY <1>7, <1>10
  <2>2. Mirrored(TakeOutNode(net, job.old), v, k)
    <3>1. w \subseteq {job.old} \cup v
      OBVIOUS
    <3> HIDE DEF w
    <3> QED BY <1>2, <1>5, <1>9, <1>10, <3>1, TakeOutAgain
  <2> QED BY <1>1, <1>4, <1>8, <1>9, <2>1, <2>2, MirrorsParts
<1>11. CASE job.old \notin net.dead
  <2>1. RedrivenBy(net, job.old, job.new, out)
    BY <1>7, <1>11
  <2>2. /\ out.kids = net.kids /\ out.dead = net.dead /\ out.fanout = net.fanout
        /\ DOMAIN out.outs = DOMAIN net.outs
        /\ \A o \in DOMAIN net.outs :
             out.outs[o].node = IF net.outs[o].node = job.old THEN job.new.node
                                                              ELSE net.outs[o].node
    BY <2>1 DEF RedrivenBy
  <2>3. \A m \in Node \ (out.dead \cup {job.old}) : out.refs[m] = References(out, m)
    <3>1. \A m \in Node \ (net.dead \cup {job.old}) : net.refs[m] = References(net, m)
      BY <1>5 DEF Mirrored
    <3> QED BY <1>2, <1>3, <1>7, <1>11, <2>1, <3>1, RedrivenCounts
  <2>4. \A m : Parents(out, m) = Parents(net, m) /\ Fanins(out, m) = Fanins(net, m)
    BY <2>2 DEF Parents, Fanins
  <2>5. \A o \in DOMAIN out.outs : out.outs[o].node \notin out.dead
    BY <1>3, <1>5, <2>2 DEF Mirrored
  <2>6. Mirrored(out, w, job)
    <3>1. \A m \in Node \ out.dead : Parents(out, m) \subseteq ToSet(out.fanout[m])
      BY <1>5, <2>2, <2>4 DEF Mirrored
    <3>2. \A g \in Gate \ out.dead : Fanins(out, g) \cap out.dead # {} => g \in w
      BY <1>5, <2>2, <2>4 DEF Mirrored
    <3>3. Parents(out, job.old) \subseteq ToSet(job.parents) \cup w
      BY <1>6, <2>4
    <3> HIDE DEF w
    <3>4. job.on
      BY <1>1
    <3> QED BY <2>3, <2>5, <3>1, <3>2, <3>3, <3>4 DEF Mirrored
  <2>7. OutsOf(out, job.old) = {}
    BY <1>3, <2>2 DEF OutsOf
  <2>8. Parents(out, job.old) \subseteq w
    BY <1>6, <2>4
  <2>9. job.old \in Gate \ out.dead /\ w \subseteq {job.old} \cup v
    BY <1>3, <1>11, <2>2
  <2>10. Mirrored(TakeOutNode(out, job.old), v, k)
    <3> HIDE DEF w
    <3> QED BY <1>1, <1>7, <1>9, <2>6, <2>7, <2>8, <2>9, TakeOutMirrored
  <2> QED BY <1>1, <1>4, <1>8, <1>9, <2>10, MirrorsParts
<1> QED BY <1>10, <1>11

LEMMA FollowMovedMirrors ==
  ASSUME Invariant, LookInv, MirrorsExact, FollowMoved
  PROVE  MirrorsExact'
<1>1. /\ todo # <<>> /\ UNCHANGED <<net, job>>
      /\ todo' = <<[Head(todo) EXCEPT !.new = FlipIf(moved[@.node], @.neg),
                                      !.follow = TRUE]>> \o Tail(todo)
  BY DEF FollowMoved, Turn
<1>2. todo \in Seq(Entry) /\ Head(todo) \in Entry /\ Tail(todo) \in Seq(Entry)
  BY <1>1 DEF Invariant, TypeInv, SubstTypes
<1> DEFINE f == [Head(todo) EXCEPT !.new = FlipIf(moved[@.node], @.neg),
                                   !.follow = TRUE]
<1>3. f.old = Head(todo).old /\ todo' = <<f>> \o Tail(todo)
  BY <1>1, <1>2 DEF Entry
<1> HIDE DEF f
<1>4. Olds(todo') = Olds(todo)
  <2>1. Olds(<<f>> \o Tail(todo)) = {f.old} \cup Olds(Tail(todo))
    BY <1>2, OldsParts
  <2>2. Olds(todo) = {Head(todo).old} \cup Olds(Tail(todo))
    <3>1. todo # <<>> /\ todo \in Seq(Entry)
      BY <1>1, <1>2
    <3> QED BY <3>1, OldsParts
  <2>3. Olds(todo') = Olds(<<f>> \o Tail(todo))
    BY <1>3, Zenon
  <2> QED BY <1>3, <2>1, <2>2, <2>3
<1>5. Waiting' = Waiting
  BY <1>1, <1>4, WaitingParts
<1> QED BY <1>1, <1>5, MirrorsParts

LEMMA MirrorsInit == Init => MirrorsExact
<1> SUFFICES ASSUME Init PROVE MirrorsExact
  OBVIOUS
<1>1. PICK d \in Designs : net = Created(d.kids, d.outs) /\ todo = <<>> /\ job = NoJob
  BY DEF Init
<1>2. Mirrored(net, {}, job)
  BY <1>1, CreatedMirrored, DesignsAssumption
<1>3. Waiting = {}
  <2>1. Olds(<<>>) = {} /\ ~NoJob.on
    BY NoJobType DEF Olds
  <2> QED BY <1>1, <2>1, WaitingParts
<1> QED BY <1>2, <1>3, MirrorsParts

LEMMA MirrorsStep ==
  ASSUME Invariant, LookInv, MirrorsExact, [Next]_vars, ~RevivesFanin, ~StaysItself
  PROVE  MirrorsExact'
<1>1. CASE SubstitutionStep
  BY <1>1, FollowMovedMirrors, TakeTurnMirrors, ReplaceParentMirrors, FinishTurnMirrors
     DEF SubstitutionStep
<1>2. CASE ~SubstitutionStep
  <2>1. UNCHANGED subst \/ Begins
    BY <1>2, SearchSteps DEF LookInv
  <2>2. CASE UNCHANGED subst
    <3>1. net' = net /\ todo' = todo /\ job' = job
      BY <2>2 DEF subst
    <3>2. Waiting' = Waiting
      BY <3>1, WaitingParts
    <3> QED BY <3>1, <3>2, MirrorsParts
  <2>3. CASE Begins
    <3>1. PICK root \in Gate, g \in Literal : BeginSubstitution(root, g)
      BY <2>3 DEF Begins
    <3>2. /\ todo = <<>> /\ ~job.on
          /\ todo' = <<[old |-> root, new |-> g, follow |-> FALSE]>>
          /\ net' = net /\ job' = job
      BY <2>3, <3>1 DEF Begins, AtRest, BeginSubstitution
    <3>3. Waiting = {}
      <4>1. Olds(<<>>) = {}
        BY DEF Olds
      <4> QED BY <3>2, <4>1, WaitingParts
    <3>4. PICK w : w = Waiting'
      OBVIOUS
    <3>5. Mirrored(net, w, job)
      <4>1. Mirrored(net, {}, job)
        BY <3>3, MirrorsParts
      <4> QED BY <3>2, <4>1 DEF Mirrored
    <3> QED BY <3>2, <3>4, <3>5, MirrorsParts
  <2> QED BY <2>1, <2>2, <2>3
<1> QED BY <1>1, <1>2

(* The hash and the lists are sound throughout.  The counters, the lists   *)
(* and the dead gates agree with the fanins when the pass begins, and      *)
(* every step keeps that, but one that revives a gate which a waiting gate *)
(* still has as a fanin.                                                   *)
THEOREM MirrorsAreKept == Spec => MirrorsKept
<1>1. Init => MirrorsExact
  BY MirrorsInit
<1>2. Invariant /\ LookInv /\ [Next]_vars =>
        [MirrorsExact /\ ~RevivesFanin /\ ~StaysItself => MirrorsExact']_vars
  BY MirrorsStep
<1> QED BY <1>1, <1>2, LookHolds, LookupsAreSound, PTL DEF Spec, MirrorsKept
=============================================================================
