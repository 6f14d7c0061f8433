----------------------------- MODULE AigNetwork -----------------------------
(***************************************************************************)
(* An AIG as mockturtle stores it, and what substitute_node is made of.    *)
(* Node 0 is the constant, the nodes after it the inputs, the others AND   *)
(* gates, whose fanins are two literals.  A network also keeps             *)
(*                                                                         *)
(*   hash    the gate found for a pair of fanins (structural hashing)      *)
(*   refs    the reference counter of each node                            *)
(*   dead    the gates taken out: their fanins stay readable               *)
(*   fanout  the lists of fanout_view, in the order of the pushes          *)
(*                                                                         *)
(* A gate never moves in the array, so after a substitution a fanin may    *)
(* have a larger index than its gate.                                      *)
(***************************************************************************)
EXTENDS Integers, Sequences, SequencesExt, Sublists

CONSTANTS NumPis, NumGates

ASSUME SizesAssumption == NumPis \in Nat /\ NumGates \in Nat

Pi   == 1 .. NumPis
Gate == NumPis + 1 .. NumPis + NumGates
Node == 0 .. NumPis + NumGates

Literal == [node : Node, neg : BOOLEAN]

Lit(n)      == [node |-> n, neg |-> FALSE]
FlipIf(l, b) == [node |-> l.node, neg |-> l.neg # b]
Constant(b) == [node |-> 0, neg |-> b]

Fanins(net, n) ==
  IF n \in Gate THEN {net.kids[n][1].node, net.kids[n][2].node} ELSE {}

Parents(net, n) == {g \in Gate \ net.dead : n \in Fanins(net, g)}

(***************************************************************************)
(* The network create_and builds, kids being ordered, hashed and without   *)
(* trivial gates, seen through a new fanout_view.                          *)
(***************************************************************************)
References(net, n) ==
  LET Uses == {o \in DOMAIN net.outs : net.outs[o].node = n}
  IN  Cardinality(Parents(net, n)) + Cardinality(Uses)

Created(kids, outs) ==
  LET bare == [kids |-> kids, outs |-> outs, dead |-> {}]
      keys == {kids[g] : g \in Gate}
      gates == [i \in 1 .. NumGates |-> NumPis + i]
  IN  [kids   |-> kids,
       outs   |-> outs,
       dead   |-> {},
       hash   |-> [k \in keys |-> CHOOSE g \in Gate : kids[g] = k],
       refs   |-> [n \in Node |-> References(bare, n)],
       fanout |-> [n \in Node |-> Sublist(gates, Parents(bare, n))]]

(***************************************************************************)
(* Nodes in the cone of S, by as many rounds as a path can have edges, and *)
(* the order in which a depth-first walk from a sequence of nodes meets    *)
(* the nodes outside seen: a node is left out when it was met before.      *)
(***************************************************************************)
Cone(net, S) ==
  FoldLeft(LAMBDA C, i : C \cup UNION {Fanins(net, n) : n \in C},
           S, [i \in 1 .. NumGates |-> i])

FaninSeq(net, n) ==
  IF n \in Gate THEN <<net.kids[n][1].node, net.kids[n][2].node>> ELSE <<>>

Preorder(net, start, seen) ==
  LET Visit(s, i) ==
        IF s.stack = <<>> THEN s
        ELSE LET n == Head(s.stack)
             IN  IF n \in s.seen
                   THEN [s EXCEPT !.stack = Tail(@)]
                   ELSE [stack |-> FaninSeq(net, n) \o Tail(s.stack),
                         seen  |-> s.seen \cup {n},
                         order |-> Append(s.order, n)]
  IN  FoldLeft(Visit, [stack |-> start, seen |-> seen, order |-> <<>>],
               [i \in 1 .. 2 * NumGates + Len(start) |-> i]).order

(***************************************************************************)
(* replace_in_node: gate n gets literal new for its fanin old.  When the   *)
(* new pair of fanins is trivial, or is that of another gate, n is left as *)
(* it is and repl says which literal is to replace n itself.               *)
(***************************************************************************)
NewFanins_PolarityLost(net, n, old, new) ==
  LET side  == IF net.kids[n][1].node = old THEN 1 ELSE 2
      stays == net.kids[n][3 - side]
  IN  IF stays.node > new.node THEN <<new, stays>> ELSE <<stays, new>>

NewFanins(net, n, old, new) ==
  LET side  == IF net.kids[n][1].node = old THEN 1 ELSE 2
      moved == FlipIf(new, net.kids[n][side].neg)
      stays == net.kids[n][3 - side]
  IN  IF stays.node > moved.node THEN <<moved, stays>> ELSE <<stays, moved>>

Simplified(net, n, old, new) ==
  LET key == NewFanins(net, n, old, new)
  IN  CASE key[1].node = key[2].node ->
             {IF key[1].neg # key[2].neg THEN Constant(FALSE) ELSE key[2]}
        [] key[1].node # key[2].node /\ key[1].node = 0 ->
             {IF key[1].neg THEN key[2] ELSE Constant(FALSE)}
        [] OTHER ->
             IF key \in DOMAIN net.hash /\ net.hash[key] # old
               THEN {Lit(net.hash[key])} ELSE {}

Rehashed_OldKept(net, n, key) ==
  [k \in DOMAIN net.hash \cup {key} |-> IF k = key THEN n ELSE net.hash[k]]

Rehashed(net, n, key) ==
  LET kept == DOMAIN net.hash \ {net.kids[n]}
  IN  [k \in kept \cup {key} |-> IF k = key THEN n ELSE net.hash[k]]

Refanned(net, n, key) ==
  LET Without(m) == IF m \in Fanins(net, n)
                      THEN Sublist(net.fanout[m], Gate \ {n})
                      ELSE net.fanout[m]
  IN  [m \in Node |-> IF m \in {key[1].node, key[2].node}
                        THEN Append(Without(m), n) ELSE Without(m)]

ReplaceInNode(net, n, old, new) ==
  LET key == NewFanins(net, n, old, new)
  IN  [net EXCEPT !.kids[n] = key,
                  !.hash    = Rehashed(net, n, key),
                  !.refs[new.node] = @ + 1,
                  !.fanout  = Refanned(net, n, key)]

(***************************************************************************)
(* replace_in_outputs, which does nothing for a dead node.                 *)
(***************************************************************************)
ReplaceInOutputs_NotCounted(net, old, new) ==
  LET hit == {o \in DOMAIN net.outs : net.outs[o].node = old}
  IN  [net EXCEPT !.outs = [o \in DOMAIN @ |->
                              IF o \in hit THEN FlipIf(new, @[o].neg) ELSE @[o]]]

ReplaceInOutputs(net, old, new) ==
  LET hit == {o \in DOMAIN net.outs : net.outs[o].node = old}
      add == IF old = new.node THEN 0 ELSE Cardinality(hit)
  IN  IF old \in net.dead THEN net
      ELSE [net EXCEPT
              !.outs = [o \in DOMAIN @ |->
                          IF o \in hit THEN FlipIf(new, @[o].neg) ELSE @[o]],
              !.refs[new.node] = @ + add]

(***************************************************************************)
(* take_out_node: n dies whatever its counter says, and so does each fanin *)
(* whose counter falls to zero.  Falling holds the gates that die and the  *)
(* counters after it.                                                      *)
(***************************************************************************)
Falling(net, n) ==
  LET Fall(s, i) ==
        IF s.stack = <<>> THEN s
        ELSE LET g == Head(s.stack)
                 last == Sublist(FaninSeq(net, g), {m \in Node : s.refs[m] = 1})
             IN  IF g \notin Gate \ (net.dead \cup s.dying)
                   THEN [s EXCEPT !.stack = Tail(@)]
                   ELSE [stack |-> last \o Tail(s.stack),
                         dying |-> s.dying \cup {g},
                         refs  |-> [m \in Node |->
                           CASE m = g -> 0
                             [] m \in Fanins(net, g) \ {g} /\ s.refs[m] > 0 ->
                                  s.refs[m] - 1
                             [] OTHER -> s.refs[m]]]
  IN  FoldLeft(Fall, [stack |-> <<n>>, dying |-> {}, refs |-> net.refs],
               [i \in 1 .. 2 * NumGates + 1 |-> i])

TakeOutNode(net, n) ==
  LET fall  == Falling(net, n)
      dying == fall.dying
      Gone(m) == {p \in dying : m \in Fanins(net, p)}
  IN  [net EXCEPT
         !.dead = @ \cup dying,
         !.refs = fall.refs,
         !.hash = [k \in DOMAIN @ \ {net.kids[g] : g \in dying} |-> @[k]],
         !.fanout = [m \in Node |->
           IF m \in dying THEN <<>>
           ELSE Sublist(@[m], Gate \ Gone(m))]]

(***************************************************************************)
(* revive_node: n and the dead gates of its cone come back, with the       *)
(* fanins they had, in depth-first order.                                  *)
(***************************************************************************)
ReviveNode(net, n) ==
  LET back  == Preorder(net, <<n>>, Node \ net.dead)
      alive == ToSet(back)
      Latest(k) == CHOOSE i \in DOMAIN back :
                   /\ net.kids[back[i]] = k
                   /\ \A j \in DOMAIN back : net.kids[back[j]] = k => j <= i
      keys  == {net.kids[g] : g \in alive}
      Uses(m) == Sublist(back, {g \in Gate : m \in Fanins(net, g)})
  IN  [net EXCEPT
         !.dead = @ \ alive,
         !.hash = [k \in DOMAIN @ \cup keys |->
                     IF k \in keys THEN back[Latest(k)] ELSE @[k]],
         !.refs   = [m \in Node |-> @[m] + Len(Uses(m))],
         !.fanout = [m \in Node |-> @[m] \o Uses(m)]]
=============================================================================
