---------------------------- MODULE StpReduction ----------------------------
(***************************************************************************)
(* stp_functional_reduction, the pass behind the command stpfr.  Nodes of  *)
(* an AIG are simulated on a growing list of patterns; a gate that looks   *)
(* constant, or that looks like a node of its cone or like a fanout of its *)
(* cone, is handed to circuit_validator, whose SAT solver answers with a   *)
(* proof, with a counter-example or not at all.  A proof substitutes the   *)
(* gate; a counter-example becomes a new pattern.  Which gates are tried   *)
(* is decided by a file of equivalence classes: first the key of a class,  *)
(* then each of its members.                                               *)
(*                                                                         *)
(* Substituting a node is a loop of its own (fanout_view::substitute_node) *)
(* with a stack of nodes that structural hashing makes equal: it is split  *)
(* here into its turns, so that a state between two turns is seen.         *)
(*                                                                         *)
(* refine_classes assigns equ_classes while run iterates over it, which    *)
(* destroys or reuses the node of the map the loop stands on.  The model   *)
(* lets the loop go on with any key of the new map, or end.                *)
(*                                                                         *)
(* func is a history variable: what each node computed in the network the  *)
(* command was given, as the set of input vectors that make it true.       *)
(* What simulation computes and the solver answers is modelled by it,      *)
(* which FunctionsKept and Acyclic justify: a node still computes what it  *)
(* did.                                                                    *)
(*                                                                         *)
(* A design is an AIG as it was read or as cleanup_dangling copied it, in  *)
(* topological order and with no dead gate: that is what every command     *)
(* that makes an AIG leaves as the current element.  An element that an    *)
(* earlier command optimised through a copied handle, and that the user    *)
(* selects again or uncovers by a pop, may be neither.  For it the module  *)
(* says nothing: stp_constant_select visits gates by index and would read  *)
(* tables that are not there yet (Shell!Stpfr).                            *)
(***************************************************************************)
EXTENDS AigNetwork

CONSTANTS
  Designs,          \* the inputs of a run: [kids, outs, classes, pats], the
                    \* network, the class file and the pattern file
  BlockSize,        \* patterns in a block of a table: 64
  MaxTfiNodes,      \* max_TFI_nodes
  SkipFanoutLimit   \* skip_fanout_limit

InputVector == SUBSET Pi           \* the inputs that are 1

IsDesign(d) ==
  /\ d.kids \in [Gate -> Literal \X Literal]
  /\ \A g \in Gate : /\ d.kids[g][1].node < d.kids[g][2].node
                     /\ d.kids[g][2].node < g
                     /\ d.kids[g][1].node # 0
  /\ \A g, h \in Gate : d.kids[g] = d.kids[h] => g = h
  /\ d.outs \in Seq(Literal)
  /\ DOMAIN d.classes \subseteq Node
  /\ d.classes \in [DOMAIN d.classes -> Seq(Node)]
  /\ d.pats \in Seq(InputVector) /\ d.pats # <<>>

ASSUME DesignsAssumption ==
  /\ \A d \in Designs : IsDesign(d)
  /\ BlockSize \in Nat \ {0}
  /\ MaxTfiNodes \in Nat
  /\ SkipFanoutLimit \in Nat

VARIABLES
  phase,    \* select, consts, classes, fanins, fanouts, members or done
  net,      \* the network, as AigNetwork describes it
  todo,     \* to_substitute, the top first
  moved,    \* old_to_new of the running substitution
  job,      \* the turn of the substitution loop that is under way
  pats,     \* the patterns of sim
  tts,      \* the table of each node: its values on the first of them
  const0,   \* nodes that simulate to 0, still to be handled
  file,     \* what the class file holds
  classes,  \* equ_classes
  cursor,   \* x.first, the key the loop stands on
  stale,    \* equ_classes was assigned since that key was reached
  kept,     \* keep_trying
  walk,     \* the search for a substitute of one root
  members,  \* the members of the class that are still to come
  func,     \* history: the function of each node
  want      \* history: the function of each output

algo  == <<phase, pats, tts, const0, file, classes, cursor, stale, kept,
           walk, members>>
subst == <<net, todo, moved, job>>
hist  == <<func, want>>
vars  == <<algo, subst, hist>>

NoJob == [old |-> 0, new |-> Constant(FALSE), parents |-> <<>>, on |-> FALSE]

NoWalk == [root |-> 0, items |-> <<>>, tfi |-> <<>>, j |-> 1, k |-> 1,
           keep |-> TRUE, member |-> FALSE]

LitFunc(f, l) == IF l.neg THEN InputVector \ f[l.node] ELSE f[l.node]

AndFunc(f, key) == LitFunc(f, key[1]) \cap LitFunc(f, key[2])

FunctionsOf(kids) ==
  LET f[n \in Node] ==
        CASE n = 0     -> {}
          [] n \in Pi  -> {v \in InputVector : n \in v}
          [] OTHER     -> LitFunc(f, kids[n][1]) \cap LitFunc(f, kids[n][2])
  IN  [n \in Node |-> f[n]]

Init ==
  \E d \in Designs :
    LET f == FunctionsOf(d.kids)
    IN  /\ phase = "select"
        /\ net = Created(d.kids, d.outs)
        /\ todo = <<>>
        /\ moved = <<>>
        /\ job = NoJob
        /\ pats = d.pats
        /\ tts = [n \in Node |-> <<>>]
        /\ const0 = <<>>
        /\ file = d.classes
        /\ classes = <<>>
        /\ cursor = -1
        /\ stale = FALSE
        /\ kept = TRUE
        /\ walk = NoWalk
        /\ members = <<>>
        /\ func = f
        /\ want = [o \in DOMAIN d.outs |-> LitFunc(f, d.outs[o])]

(***************************************************************************)
(* Tables.  A table is brought up to date in its last block only: after    *)
(* resize has filled it with zeros, the last block is computed anew from   *)
(* the fanins, which were brought up to date before.  What the node missed *)
(* of earlier blocks stays zero.  (An assertion forbids to miss a whole    *)
(* block; a build with assertions stops there.)                            *)
(***************************************************************************)
InLastBlock(i, len) == \A j \in i .. len - 1 : j % BlockSize # 0

Values(ps, n) == [i \in 1 .. Len(ps) |-> ps[i] \in func[n]]

Resimulated(t, ps, n) ==
  [i \in 1 .. Len(ps) |->
     IF InLastBlock(i, Len(ps)) THEN ps[i] \in func[n]
     ELSE i <= Len(t[n]) /\ t[n][i]]

Lagging(t, ps) == {n \in Node : Len(t[n]) # Len(ps)}

(* re_simulate_fanin_cone goes from a node to the fanins that lag, and no  *)
(* further where one does not.                                             *)
LaggingCone(t, ps, S) ==
  FoldLeft(LAMBDA C, i :
             C \cup (Lagging(t, ps) \cap UNION {Fanins(net, n) : n \in C}),
           S \cap Lagging(t, ps), [i \in 1 .. NumGates |-> i])

Simulated(t, ps, S) ==
  [n \in Node |->
     IF n \in LaggingCone(t, ps, S) THEN Resimulated(t, ps, n) ELSE t[n]]

CheckTts(n) == Simulated(tts, pats, {n})

Flat(t, n, value) == t[n] = [i \in 1 .. Len(pats) |-> value]

Opposite(s) == [i \in DOMAIN s |-> ~s[i]]

AliveNodes == Node \ net.dead

(***************************************************************************)
(* The substitution loop.  AtRest holds when none is running.              *)
(***************************************************************************)
AtRest == todo = <<>> /\ ~job.on

BeginSubstitution(root, new) ==
  /\ todo' = <<[old |-> root, new |-> new, follow |-> FALSE]>>
  /\ moved' = <<>>
  /\ UNCHANGED <<net, job>>

Turn == todo # <<>> /\ ~job.on

IsDead_NotAsked(l) == FALSE

IsDead(l) == l.node \in net.dead

(* One hop of the loop that finds the real new node. *)
FollowMoved ==
  LET top == Head(todo)
  IN  /\ Turn
      /\ IsDead(top.new) \/ top.follow
      /\ top.new.node \in DOMAIN moved
      /\ todo' = <<[top EXCEPT !.new = FlipIf(moved[@.node], @.neg),
                               !.follow = TRUE]>> \o Tail(todo)
      /\ UNCHANGED <<net, moved, job, algo, hist>>

(* The real new node is known: it is revived if it is dead, and the parents *)
(* of the old node are fetched.  A node is not replaced by itself.          *)
TakeTurn ==
  LET top == Head(todo)
  IN  /\ Turn
      /\ ~(/\ IsDead(top.new) \/ top.follow
           /\ top.new.node \in DOMAIN moved)
      /\ LET live == IF IsDead(top.new) THEN ReviveNode(net, top.new.node)
                                        ELSE net
         IN  /\ net' = live
             /\ job' = IF top.new = Lit(top.old) THEN NoJob
                       ELSE [old |-> top.old, new |-> top.new, on |-> TRUE,
                             parents |-> live.fanout[top.old]]
      /\ todo' = Tail(todo)
      /\ UNCHANGED <<moved, algo, hist>>

(* replace_in_node for the next parent: it is changed, or is itself to be   *)
(* substituted.                                                             *)
ReplaceParent ==
  LET p   == Head(job.parents)
      key == NewFanins(net, p, job.old, job.new)
      simple == Simplified(net, p, job.old, job.new)
  IN  /\ job.on
      /\ job.parents # <<>>
      /\ job.old \in Fanins(net, p)
      /\ \/ /\ simple = {}
            /\ net' = ReplaceInNode(net, p, job.old, job.new)
            /\ UNCHANGED todo
         \/ \E l \in simple :
              /\ todo' = <<[old |-> p, new |-> l, follow |-> FALSE]>> \o todo
              /\ UNCHANGED net
      /\ job' = [job EXCEPT !.parents = Tail(@)]
      /\ UNCHANGED <<moved, algo, hist>>

(* replace_in_outputs, then the old node is taken out. *)
FinishTurn ==
  /\ job.on
  /\ job.parents = <<>>
  /\ net' = LET out == ReplaceInOutputs(net, job.old, job.new)
            IN  IF job.old = job.new.node THEN out
                ELSE TakeOutNode(out, job.old)
  /\ moved' = IF job.old = job.new.node \/ job.old \in DOMAIN moved THEN moved
              ELSE [n \in DOMAIN moved \cup {job.old} |->
                      IF n = job.old THEN job.new ELSE moved[n]]
  /\ job' = NoJob
  /\ UNCHANGED <<todo, algo, hist>>

SubstitutionStep == FollowMoved \/ TakeTurn \/ ReplaceParent \/ FinishTurn

(***************************************************************************)
(* found_cex: the counter-example a is added, the nodes in use are         *)
(* simulated again, the classes are refined, and then the cone of S.       *)
(***************************************************************************)
Refined(t) ==
  LET Same(k) == Sublist(classes[k], {y \in Node : t[k] = t[y]})
  IN  [k \in {h \in DOMAIN classes : Same(h) # <<>>} |-> Same(k)]

FoundCex_NotSimulated(a, t, S) ==
  /\ pats' = Append(pats, a)
  /\ tts' = t
  /\ classes' = Refined(t)
  /\ stale' = TRUE
  /\ UNCHANGED subst

FoundCex_NotAdded(a, t, S) ==
  LET ps  == Append(pats, a)
      sim == Simulated(t, ps, AliveNodes)
  IN  /\ classes' = Refined(sim)
      /\ tts' = Simulated(sim, ps, S)
      /\ stale' = TRUE
      /\ UNCHANGED <<pats, subst>>

FoundCex(a, t, S) ==
  LET ps  == Append(pats, a)
      sim == Simulated(t, ps, AliveNodes)
  IN  /\ pats' = ps
      /\ classes' = Refined(sim)
      /\ tts' = Simulated(sim, ps, S)
      /\ stale' = TRUE
      /\ UNCHANGED subst

(***************************************************************************)
(* validator.validate(root, g): a proof, a counter-example, or a timeout,  *)
(* which the conflict limit allows for every query.                        *)
(***************************************************************************)
Validate(root, g, t, S, proved) ==
  LET f == LitFunc(func, g)
  IN  \/ /\ ~proved
         /\ tts' = t
         /\ UNCHANGED <<pats, classes, stale, subst>>
      \/ /\ ~proved
         /\ \E a \in (func[root] \ f) \cup (f \ func[root]) :
              FoundCex(a, t, S)
      \/ /\ proved
         /\ func[root] = f
         /\ tts' = t
         /\ BeginSubstitution(root, g)
         /\ UNCHANGED <<pats, classes, stale>>

(***************************************************************************)
(* stp_constant_select never sets target back to true: it selects the      *)
(* gates before the first one that does not simulate to 0.                 *)
(***************************************************************************)
SelectConstants ==
  LET t == [n \in Node |-> Values(pats, n)]
      zeros == {g \in Gate : \A h \in Gate : h <= g => Flat(t, h, FALSE)}
  IN  /\ phase = "select"
      /\ tts' = t
      /\ const0' = [i \in 1 .. Cardinality(zeros) |-> NumPis + i]
      /\ phase' = "consts"
      /\ UNCHANGED <<pats, file, classes, cursor, stale, kept, walk, members,
                     subst, hist>>

TryConstant ==
  LET n == Head(const0)
      t == CheckTts(n)
  IN  /\ phase = "consts"
      /\ AtRest
      /\ const0 # <<>>
      /\ \/ /\ \A v \in BOOLEAN : ~Flat(t, n, v)
            /\ tts' = t
            /\ UNCHANGED <<pats, classes, stale, subst>>
         \/ \E v \in BOOLEAN, proved \in BOOLEAN :
              /\ Flat(t, n, v)
              /\ Validate(n, Constant(v), t, {}, proved)
      /\ const0' = Tail(const0)
      /\ UNCHANGED <<phase, file, cursor, kept, walk, members, hist>>

(***************************************************************************)
(* stp_substitute_equivalent_nodes                                         *)
(***************************************************************************)
LoadClasses ==
  /\ phase = "consts"
  /\ AtRest
  /\ const0 = <<>>
  /\ classes' = file
  /\ cursor' = -1
  /\ stale' = FALSE
  /\ phase' = "classes"
  /\ UNCHANGED <<pats, tts, const0, file, kept, walk, members, subst, hist>>

(* foreach_transitive_fanin visits the second fanin of the root even when  *)
(* the walk has met it below the first.                                    *)
WalkOrder(root) ==
  IF root \notin Gate THEN <<>>
  ELSE LET f == FaninSeq(net, root)
           below1 == Preorder(net, <<f[1]>>, {root})
           met    == {root, f[2]} \cup ToSet(below1)
       IN  below1 \o <<f[2]>> \o Preorder(net, FaninSeq(net, f[2]), met)

StartWalk(root, member) ==
  [NoWalk EXCEPT !.root = root, !.items = WalkOrder(root), !.member = member]

NextKey ==
  /\ phase = "classes"
  /\ \E k \in DOMAIN classes :
       /\ ~stale => /\ k > cursor
                    /\ \A h \in DOMAIN classes : h > cursor => k <= h
       /\ cursor' = k
       /\ members' = classes[k]
       /\ tts' = CheckTts(k)
       /\ walk' = StartWalk(k, FALSE)
  /\ stale' = FALSE
  /\ kept' = TRUE
  /\ phase' = "fanins"
  /\ UNCHANGED <<pats, const0, file, classes, subst, hist>>

EndClasses ==
  /\ phase = "classes"
  /\ stale \/ \A k \in DOMAIN classes : k <= cursor
  /\ phase' = "done"
  /\ UNCHANGED <<pats, tts, const0, file, classes, cursor, stale, kept, walk,
                 members, subst, hist>>

(* try_node(root, n): keep is what it returns. *)
TryNode(root, n, t, keep) ==
  LET r == t[root]
      s == t[n]
  IN  \/ /\ r # s
         /\ r # Opposite(s)
         /\ keep
         /\ tts' = t
         /\ UNCHANGED <<pats, classes, stale, subst>>
      \/ /\ r \in {s, Opposite(s)}
         /\ Validate(root, FlipIf(Lit(n), r # s), t, {root}, ~keep)

(* One node of the cone.  The walk of a member asks keep_trying, what the  *)
(* search for the key returned, whether to go on.                          *)
TryFanin ==
  LET n   == Head(walk.items)
      tfi == Append(walk.tfi, n)
  IN  /\ phase = "fanins"
      /\ AtRest
      /\ walk.items # <<>>
      /\ \/ /\ Len(tfi) > MaxTfiNodes
            /\ walk' = [walk EXCEPT !.tfi = tfi, !.items = <<>>]
            /\ UNCHANGED <<pats, tts, classes, stale, kept, subst>>
         \/ /\ Len(tfi) <= MaxTfiNodes
            /\ \E keep \in BOOLEAN :
                 /\ TryNode(walk.root, n, tts, keep)
                 /\ kept' = IF walk.member THEN kept ELSE keep
                 /\ walk' = [walk EXCEPT
                      !.tfi = tfi,
                      !.keep = keep,
                      !.items = IF kept' THEN Tail(@) ELSE <<>>]
      /\ UNCHANGED <<phase, const0, file, cursor, members, hist>>

EndFanins ==
  /\ phase = "fanins"
  /\ AtRest
  /\ walk.items = <<>>
  /\ phase' = IF walk.keep THEN "fanouts" ELSE "members"
  /\ UNCHANGED <<pats, tts, const0, file, classes, cursor, stale, kept, walk,
                 members, subst, hist>>

(***************************************************************************)
(* The fanouts of the cone: a gate joins when all its fanins were visited  *)
(* and the root is not one of them.  The size limit is looked at before    *)
(* the fanouts of the next node, not between two fanouts of one node.      *)
(***************************************************************************)
Visited == {walk.root} \cup ToSet(walk.tfi)

Exploring ==
  /\ walk.keep
  /\ walk.j <= Len(walk.tfi)
  /\ walk.k = 1 => Len(walk.tfi) <= MaxTfiNodes

Spread == walk.tfi[walk.j]

NodeDone ==
  \/ walk.k = 1 /\ net.refs[Spread] > SkipFanoutLimit
  \/ walk.k > Len(net.fanout[Spread])

Joins_FromRoot(p) ==
  /\ p \notin Visited
  /\ Fanins(net, p) \subseteq Visited

Joins(p) ==
  /\ p \notin Visited
  /\ Fanins(net, p) \subseteq Visited
  /\ walk.root \notin Fanins(net, p)

NextNode_StartsAgain ==
  /\ phase = "fanouts"
  /\ AtRest
  /\ Exploring
  /\ NodeDone
  /\ walk' = [walk EXCEPT !.j = (@ % Len(walk.tfi)) + 1, !.k = 1]
  /\ UNCHANGED <<phase, pats, tts, const0, file, classes, cursor, stale, kept,
                 members, subst, hist>>

NextNode ==
  /\ phase = "fanouts"
  /\ AtRest
  /\ Exploring
  /\ NodeDone
  /\ walk' = [walk EXCEPT !.j = @ + 1, !.k = 1]
  /\ UNCHANGED <<phase, pats, tts, const0, file, classes, cursor, stale, kept,
                 members, subst, hist>>

TryFanout ==
  LET p == net.fanout[Spread][walk.k]
  IN  /\ phase = "fanouts"
      /\ AtRest
      /\ Exploring
      /\ ~NodeDone
      /\ \/ /\ ~Joins(p)
            /\ walk' = [walk EXCEPT !.k = @ + 1]
            /\ UNCHANGED <<pats, tts, classes, stale, kept, subst>>
         \/ /\ Joins(p)
            /\ \E keep \in BOOLEAN :
                 /\ TryNode(walk.root, p, CheckTts(p), keep)
                 /\ kept' = IF walk.member THEN kept ELSE keep
                 /\ walk' = [walk EXCEPT !.tfi = Append(@, p),
                                         !.keep = keep,
                                         !.k = @ + 1]
      /\ UNCHANGED <<phase, const0, file, cursor, members, hist>>

EndFanouts ==
  /\ phase = "fanouts"
  /\ AtRest
  /\ ~Exploring
  /\ phase' = "members"
  /\ UNCHANGED <<pats, tts, const0, file, classes, cursor, stale, kept, walk,
                 members, subst, hist>>

NextMember ==
  /\ phase = "members"
  /\ AtRest
  /\ members # <<>>
  /\ members' = Tail(members)
  /\ tts' = CheckTts(Head(members))
  /\ walk' = StartWalk(Head(members), TRUE)
  /\ phase' = "fanins"
  /\ UNCHANGED <<pats, const0, file, classes, cursor, stale, kept, subst, hist>>

EndClass ==
  /\ phase = "members"
  /\ AtRest
  /\ members = <<>>
  /\ walk' = NoWalk
  /\ phase' = "classes"
  /\ UNCHANGED <<pats, tts, const0, file, classes, cursor, stale, kept,
                 members, subst, hist>>

Returned == phase = "done" /\ UNCHANGED vars

(***************************************************************************)
(* run repeats the classes while ntk.size() changes.  size() counts dead   *)
(* nodes and no node is added, so the loop ends before its first turn:     *)
(* EndClasses goes straight to done.                                       *)
(***************************************************************************)
Next ==
  \/ SelectConstants \/ TryConstant \/ LoadClasses
  \/ NextKey \/ TryFanin \/ EndFanins
  \/ NextNode \/ TryFanout \/ EndFanouts
  \/ NextMember \/ EndClass \/ EndClasses
  \/ SubstitutionStep
  \/ Returned

Spec == Init /\ [][Next]_vars

(* A step is taken as long as there is one.  Deadlock is checked, so that   *)
(* this is WF_vars(Next), with phase # "done" for ENABLED <<Next>>_vars,    *)
(* which is too costly to evaluate.                                         *)
Progress == []<>(phase = "done") \/ []<><<TRUE>>_vars

FairSpec == Spec /\ Progress

-----------------------------------------------------------------------------
TypeOK ==
  /\ phase \in {"select", "consts", "classes", "fanins", "fanouts", "members",
                "done"}
  /\ net.kids \in [Gate -> Literal \X Literal]
  /\ net.dead \subseteq Gate
  /\ net.refs \in [Node -> Nat]
  /\ \A k \in DOMAIN net.hash : net.hash[k] \in Gate
  /\ \A n \in Node : ToSet(net.fanout[n]) \subseteq Gate
  /\ \A i \in DOMAIN todo : todo[i].old \in Node /\ todo[i].new \in Literal
  /\ tts \in [Node -> Seq(BOOLEAN)]
  /\ \A n \in Node : Len(tts[n]) <= Len(pats)
  /\ stale \in BOOLEAN /\ kept \in BOOLEAN
  /\ walk.root \in Node

(***************************************************************************)
(* Whatever was substituted, and even between two turns of a substitution, *)
(* every gate still computes the function it had in the network the        *)
(* command was given, and so does every output.                            *)
(***************************************************************************)
FunctionsKept ==
  /\ \A g \in Gate : func[g] = AndFunc(func, net.kids[g])
  /\ \A o \in DOMAIN want : want[o] = LitFunc(func, net.outs[o])

(***************************************************************************)
(* No gate becomes part of its own cone: the substitutes are taken from    *)
(* the cone of the root, or from fanouts that do not depend on it.         *)
(***************************************************************************)
Acyclic == \A g \in Gate : g \notin Cone(net, Fanins(net, g))

(***************************************************************************)
(* The structural hash finds only gates in use, by the fanins they have,   *)
(* and the lists of fanout_view, from which the parents of a substituted   *)
(* node are read, hold only gates in use that have the node as a fanin,    *)
(* each of them once: even between two turns of a substitution.            *)
(***************************************************************************)
LookupsSound ==
  /\ \A k \in DOMAIN net.hash :
       net.hash[k] \notin net.dead /\ net.kids[net.hash[k]] = k
  /\ \A n \in Node :
       /\ ToSet(net.fanout[n]) \subseteq Parents(net, n)
       /\ IsInjective(net.fanout[n])

(***************************************************************************)
(* The node a turn is replacing, and the gates that turns to come replace. *)
(***************************************************************************)
Replaced == IF job.on THEN {job.old} ELSE {}
Waiting  == Replaced \cup {todo[i].old : i \in DOMAIN todo}

(* The counters, which decide what dies, count the references there are. *)
CountersExact ==
  \A n \in Node \ (net.dead \cup Replaced) : net.refs[n] = References(net, n)

(* No parent is missing in the list of a node in use. *)
FanoutsExact == \A n \in Node \ net.dead : Parents(net, n) \subseteq ToSet(net.fanout[n])

(* What was taken out is read by gates only that are to be replaced. *)
DeadUnread ==
  /\ \A g \in Gate \ net.dead : Fanins(net, g) \cap net.dead # {} => g \in Waiting
  /\ \A o \in DOMAIN net.outs : net.outs[o].node \notin net.dead

(* The node being replaced is left by each of its parents. *)
ParentsVisited ==
  job.on => Parents(net, job.old) \subseteq ToSet(job.parents) \cup Waiting

MirrorsExact == CountersExact /\ FanoutsExact /\ DeadUnread /\ ParentsVisited

(* A gate comes back that a gate in use has as a fanin, from before it died. *)
RevivesFanin ==
  \E g \in Gate \ net.dead : Fanins(net, g) \cap (net.dead \ net.dead') # {}

(* A turn that would replace a gate by itself. *)
StaysItself == todo # <<>> /\ todo' = Tail(todo) /\ ~job'.on

(***************************************************************************)
(* What is kept beside the fanins of the gates says what the fanins say.   *)
(* The hash and the lists find only what is there, whatever happens.  The  *)
(* counters are exact, the lists complete and nothing in use depends on a  *)
(* gate taken out when the substitution has ended: every step keeps that   *)
(* but one.  When a gate is revived that a waiting gate still has as a     *)
(* fanin, it comes back without that reference, which is dropped again     *)
(* when the waiting gate dies, so that a gate may die that is in use.      *)
(* (Of a turn that skips a gate, since it would become itself, nothing is  *)
(* said: it may revive the gate and leave it unread.)                      *)
(***************************************************************************)
MirrorsKept ==
  /\ []LookupsSound
  /\ MirrorsExact
  /\ [][MirrorsExact /\ ~RevivesFanin /\ ~StaysItself => MirrorsExact']_vars

(***************************************************************************)
(* A counter-example tells the two nodes apart that were taken for equal,  *)
(* or for opposite, and for good: afterwards their tables are neither the  *)
(* same nor opposite, and what a table says of a pattern never changes.    *)
(* The solver may repeat a pattern, but only one that a table of the two   *)
(* has wrong, since its node missed that pattern's block.                  *)
(***************************************************************************)
Asked == IF phase = "consts" THEN Head(const0) ELSE walk.root

AskedWith == IF phase = "consts" THEN 0 ELSE Last(walk'.tfi)

NewPattern == pats'[Len(pats')]

ToldApart(m, n) == tts'[m] \notin {tts'[n], Opposite(tts'[n])}

HasWrong(n, i) == tts'[n][i] # (pats[i] \in func[n])

CounterexamplesSeparate ==
  [][/\ \A n \in Node : IsPrefix(tts[n], tts'[n])
     /\ pats' # pats =>
          /\ ToldApart(Asked, AskedWith)
          /\ \A i \in DOMAIN pats : pats[i] = NewPattern =>
               HasWrong(Asked, i) \/ HasWrong(AskedWith, i)]_vars

(***************************************************************************)
(* The pass ends: there are only so many pairs to tell apart, and only so  *)
(* many gates to take out, even when the loop over the classes is thrown   *)
(* back.                                                                   *)
(***************************************************************************)
Returns == <>(phase = "done")
=============================================================================
