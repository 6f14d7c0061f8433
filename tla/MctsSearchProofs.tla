-------------------------- MODULE MctsSearchProofs --------------------------
(***************************************************************************)
(* Proofs about the tree search of imap.  Whatever the mapper measures:    *)
(*                                                                         *)
(*   TypeCorrect       every variable keeps its type                       *)
(*   NothingThrown     forward never throws                                *)
(*   VisitsBalance     the visits of the tree add up                       *)
(*   BestIsSaved       the best values are those of first visits, and the  *)
(*                     file of results holds the netlist of one            *)
(*   SearchIsBlind     the search implements VisitCountSearch: nothing the *)
(*                     mapper answers has an influence on where it goes    *)
(*                                                                         *)
(* The visit counts alone decide because of two facts that hold together:  *)
(* the conversion gives every visited state the same R, and backpropagate  *)
(* compares a multiple of that value, which is negative, with a Q that is  *)
(* 0 (WorthInv).  VisitsAddUp holds between iterations only: SumInv says   *)
(* what is missing while a descent is under way, and needs to know that a  *)
(* descent ends where PathInv and OverInv say.                             *)
(***************************************************************************)
EXTENDS MctsSearch, FoldLemmas

State ==
  [Q : Int, R : Int, reward : Nat, visited : Nat, terminal : BOOLEAN]

Taken == known \cup {Root}

TypeInv ==
  /\ phase \in {"between", "search", "back", "done", "ended"}
  /\ iteration \in 0 .. SearchIteration
  /\ P \in Noises
  /\ strategy \in Strategies
  /\ tree \in [DOMAIN tree -> State]
  /\ measured \in [known -> Outcomes]
  /\ over \subseteq known
  /\ best \in [reward : Nat, mulReward : Nat]

(***************************************************************************)
(* The tree consists of the root, what was visited, and their children.    *)
(***************************************************************************)
ShapeInv ==
  /\ DOMAIN tree \subseteq Position
  /\ Root \in DOMAIN tree /\ Root \notin known
  /\ known \subseteq DOMAIN tree
  /\ \A p \in known : Len(p) <= SequenceLength
  /\ \A p \in Position, a \in Action : Child(p, a) \in DOMAIN tree <=> p \in Taken
  /\ \A p \in DOMAIN tree \ {Root} : p \in known <=> tree[p].visited > 0

(***************************************************************************)
(* The descent is at a position it may be at, and r is the one above.      *)
(***************************************************************************)
PathInv ==
  /\ phase \in {"search", "back"} => iteration < SearchIteration
  /\ res \in Taken
  /\ r \in Taken \cup {NoPosition}
  /\ phase = "search" => \/ r = NoPosition /\ res = Root
                         \/ r \in Taken /\ \E a \in Action : res = Child(r, a)

WorthInv ==
  \A p \in DOMAIN tree :
    tree[p].Q = 0 /\ tree[p].R = IF p \in known THEN Indefinite ELSE 0

(***************************************************************************)
(* A state is terminal when the mapper said so, and so is what is below.   *)
(***************************************************************************)
OverInv ==
  /\ \A p \in DOMAIN tree : tree[p].terminal <=> p \in over
  /\ \A p \in over, a \in Action : Child(p, a) \in known => Child(p, a) \in over

At(p)   == IF phase = "search" /\ p = res THEN 1 ELSE 0
Started == IF phase \in {"search", "back", "ended"} THEN 1 ELSE 0
Moved   == IF phase = "back" \/ (phase = "search" /\ res # Root) THEN 1 ELSE 0

SumInv ==
  /\ \A p \in known : Len(p) < SequenceLength /\ p \notin over =>
       Visits[p] = Below(Visits, p) + At(p)
  /\ Visits[Root] = 1 + iteration + Started
  /\ Below(Visits, Root) <= iteration + Moved

SavedInv ==
  /\ saved \in known \cup {NoPosition}
  /\ known = {} => best.reward = Infinity /\ best.mulReward = Infinity
  /\ FirstVisitsBest

Invariant ==
  TypeInv /\ ShapeInv /\ PathInv /\ WorthInv /\ OverInv /\ SumInv /\ SavedInv

-----------------------------------------------------------------------------
(* Positions are short sequences of actions.                               *)
LEMMA PositionSet ==
  Position = {p \in Seq(Action) : Len(p) <= SequenceLength + 1}
<1>1. SequenceLength + 1 \in Nat
  BY MctsAssumption
<1>2. Position = UNION {[1 .. m -> Action] : m \in 0 .. SequenceLength + 1}
  BY Zenon DEF Position, BoundedSeq, SeqOf
<1>3. ASSUME NEW p \in Seq(Action), Len(p) <= SequenceLength + 1
      PROVE  p \in Position
  <2>1. Len(p) \in 0 .. SequenceLength + 1 /\ p \in [1 .. Len(p) -> Action]
    BY <1>1, <1>3
  <2> QED BY <1>2, <2>1
<1>4. ASSUME NEW p \in Position
      PROVE  p \in Seq(Action) /\ Len(p) <= SequenceLength + 1
  <2>1. PICK m \in 0 .. SequenceLength + 1 : p \in [1 .. m -> Action]
    BY <1>2
  <2>2. m \in Nat /\ m <= SequenceLength + 1
    BY <1>1, <2>1
  <2>3. p \in Seq(Action) /\ Len(p) = m
    BY <2>1, <2>2
  <2> QED BY <2>2, <2>3
<1> QED BY <1>3, <1>4

(* A child is one longer than its father, whom it determines.              *)
LEMMA ChildFacts ==
  /\ Root \in Position /\ Len(Root) = 0
  /\ NoPosition \notin Position
  /\ \A p \in Position : Len(p) \in Nat
  /\ \A p \in Position, a \in Action :
       /\ Len(Child(p, a)) = Len(p) + 1
       /\ Child(p, a) # Root
       /\ Child(p, a) # p
       /\ Front(Child(p, a)) = p
       /\ Len(p) <= SequenceLength => Child(p, a) \in Position
  /\ \A p, q \in Position : \A a, b \in Action :
       Child(p, a) = Child(q, b) => p = q /\ a = b
  /\ \A p \in Position \ {Root} :
       Front(p) \in Position /\ \E a \in Action : p = Child(Front(p), a)
<1>1. SequenceLength \in Nat
  BY MctsAssumption
<1>2. Root \in Position /\ Len(Root) = 0
  <2>1. Root \in Seq(Action) /\ Len(Root) = 0
    BY DEF Root
  <2> QED BY <1>1, <2>1, PositionSet
<1>3. NoPosition \notin Position
  <2>1. -1 \notin Action
    BY MctsAssumption DEF Action
  <2>2. NoPosition[1] = -1 /\ Len(NoPosition) = 1
    BY DEF NoPosition
  <2>3. NoPosition \in Seq(Action) => NoPosition[1] \in Action
    BY <2>2
  <2> QED BY <2>1, <2>2, <2>3, PositionSet
<1>4. \A p \in Position : Len(p) \in Nat
  BY PositionSet
<1>5. ASSUME NEW p \in Position, NEW a \in Action
      PROVE  /\ Len(Child(p, a)) = Len(p) + 1
             /\ Child(p, a) # Root
             /\ Child(p, a) # p
             /\ Front(Child(p, a)) = p
             /\ Len(p) <= SequenceLength => Child(p, a) \in Position
             /\ Child(p, a)[Len(p) + 1] = a
  <2>1. p \in Seq(Action) /\ Len(p) \in Nat
    BY PositionSet
  <2>2. /\ Child(p, a) \in Seq(Action) /\ Len(Child(p, a)) = Len(p) + 1
        /\ \A i \in 1 .. Len(p) : Child(p, a)[i] = p[i]
        /\ Child(p, a)[Len(p) + 1] = a
    BY <2>1 DEF Child
  <2>3. Front(Child(p, a)) = SubSeq(Child(p, a), 1, Len(p))
    BY <2>1, <2>2 DEF Front
  <2>4. SubSeq(Child(p, a), 1, Len(p)) = [i \in 1 .. Len(p) |-> Child(p, a)[i]]
    BY <2>1, <2>2
  <2>5. p = [i \in 1 .. Len(p) |-> p[i]]
    BY <2>1
  <2>6. Front(Child(p, a)) = p
    BY <2>2, <2>3, <2>4, <2>5
  <2>7. Child(p, a) # Root /\ Child(p, a) # p
    BY <1>2, <2>1, <2>2
  <2>8. Len(p) <= SequenceLength => Child(p, a) \in Position
    BY <1>1, <2>1, <2>2, PositionSet
  <2> QED BY <2>2, <2>6, <2>7, <2>8
<1>6. ASSUME NEW p \in Position, NEW q \in Position, NEW a \in Action,
             NEW b \in Action, Child(p, a) = Child(q, b)
      PROVE  p = q /\ a = b
  <2>1. p = q
    BY <1>5, <1>6
  <2>2. Child(p, a)[Len(p) + 1] = a /\ Child(q, b)[Len(q) + 1] = b
    BY <1>5
  <2> QED BY <1>6, <2>1, <2>2
<1>7. ASSUME NEW p \in Position \ {Root}
      PROVE  Front(p) \in Position /\ \E a \in Action : p = Child(Front(p), a)
  <2>1. p \in Seq(Action) /\ Len(p) \in Nat \ {0} /\ Len(p) <= SequenceLength + 1
    BY PositionSet DEF Root
  <2>2. Front(p) = SubSeq(p, 1, Len(p) - 1)
    BY DEF Front
  <2>3. /\ Front(p) \in Seq(Action) /\ Len(Front(p)) = Len(p) - 1
        /\ \A i \in 1 .. Len(p) - 1 : Front(p)[i] = p[i]
    <3> DEFINE m == Len(p) - 1
    <3>1. m \in Nat /\ m <= Len(p)
      BY <2>1
    <3>2. \A i \in 1 .. m : p[i] \in Action
      BY <2>1
    <3>3. SubSeq(p, 1, m) = [i \in 1 .. m |-> p[i]]
      BY <2>1, <3>1
    <3> HIDE DEF m
    <3>4. /\ SubSeq(p, 1, m) \in Seq(Action) /\ Len(SubSeq(p, 1, m)) = m
          /\ \A i \in 1 .. m : SubSeq(p, 1, m)[i] = p[i]
      BY <3>1, <3>2, <3>3
    <3> QED BY <2>2, <3>4 DEF m
  <2>4. p[Len(p)] \in Action
    BY <2>1
  <2>5. p = Child(Front(p), p[Len(p)])
    BY <2>1, <2>3, <2>4 DEF Child
  <2> QED BY <1>1, <2>1, <2>3, <2>4, <2>5, PositionSet
<1> QED BY <1>2, <1>3, <1>4, <1>5, <1>6, <1>7

-----------------------------------------------------------------------------
(***************************************************************************)
(* What is chosen: the greatest of finitely many numbers, the least index. *)
(***************************************************************************)
LEMMA GreatestExists ==
  ASSUME NEW n \in Nat, NEW S \in SUBSET (0 .. n - 1), S # {},
         NEW f \in [S -> Int]
  PROVE  \E a \in S : \A b \in S : f[b] <= f[a]
<1> DEFINE Has(m) == \A T \in SUBSET S :
              T # {} /\ (\A x \in T : x < m) => \E a \in T : \A b \in T : f[b] <= f[a]
           Bad == {m \in Nat : ~Has(m)}
<1> SUFFICES Bad = {}
  <2>1. Has(n)
    <3> HIDE DEF Has
    <3> QED OBVIOUS
  <2>2. \A x \in S : x < n
    OBVIOUS
  <2> QED BY <2>1, <2>2
<1> SUFFICES ASSUME Bad # {} PROVE FALSE
  OBVIOUS
<1>1. PICK m \in Bad : \A k \in Bad : m <= k
  <2> HIDE DEF Has
  <2> QED BY LeastNumber
<1>0. \A x \in S : x \in Nat /\ x < n
  OBVIOUS
<1>2. Has(0)
  <2> SUFFICES ASSUME NEW T \in SUBSET S, T # {}, \A x \in T : x < 0 PROVE FALSE
    OBVIOUS
  <2>1. PICK x \in T : x \in Nat /\ x < 0
    BY <1>0
  <2> QED BY <2>1
<1>3. m \in Nat \ {0} /\ Has(m - 1)
  <2> HIDE DEF Has
  <2> QED BY <1>1, <1>2
<1>4. Has(m)
  <2> SUFFICES ASSUME NEW T \in SUBSET S, T # {}, \A x \in T : x < m
               PROVE  \E a \in T : \A b \in T : f[b] <= f[a]
    OBVIOUS
  <2>1. CASE m - 1 \notin T
    <3>1. \A x \in T : x < m - 1
      BY <1>0, <1>3, <2>1
    <3> QED BY <1>3, <3>1
  <2>2. CASE m - 1 \in T /\ T = {m - 1}
    BY <2>2
  <2>3. CASE m - 1 \in T /\ T # {m - 1}
    <3> DEFINE L == T \ {m - 1}
    <3>1. L # {} /\ L \in SUBSET S /\ \A x \in L : x < m - 1
      BY <1>0, <1>3, <2>3
    <3>2. PICK a \in L : \A b \in L : f[b] <= f[a]
      BY <1>3, <3>1
    <3>3. f[a] \in Int /\ f[m - 1] \in Int /\ \A b \in T : f[b] \in Int
      BY <2>3
    <3>4. CASE f[m - 1] <= f[a]
      BY <3>2, <3>4
    <3>5. CASE f[a] < f[m - 1]
      <4>1. \A b \in T : f[b] <= f[m - 1]
        BY <3>2, <3>3, <3>5
      <4> QED BY <2>3, <4>1
    <3> QED BY <3>3, <3>4, <3>5
  <2> QED BY <2>1, <2>2, <2>3
<1> QED
  <2> HIDE DEF Has
  <2> QED BY <1>1, <1>4

LeastOf(S) == CHOOSE a \in S : \A b \in S : a <= b

(* The least action of some.                                               *)
LEMMA LeastAction ==
  ASSUME NEW S \in SUBSET Action, S # {}
  PROVE  LeastOf(S) \in S
<1>1. S \in SUBSET Nat
  BY MctsAssumption DEF Action
<1> QED BY <1>1, LeastNumber DEF LeastOf

(* The weights and counts of the exploration term are numbers.             *)
LEMMA ExplorationInt ==
  ASSUME TypeInv, ShapeInv, NEW p \in Position, NEW a \in Action,
         Len(p) <= SequenceLength
  PROVE  U(p, a) \in Int
<1>1. Child(p, a) \in Position
  BY ChildFacts
<1>2. P[Child(p, a)] \in Int
  BY <1>1, MctsAssumption DEF TypeInv
<1>3. \A q \in Position : Visits[q] \in Nat
  BY DEF Visits, TypeInv, State
<1> DEFINE w == P[Child(p, a)]
           x == Visits[p]
           y == Visits[Child(p, a)] + 1
<1>4. x \in Nat /\ y \in Nat \ {0}
  BY <1>1, <1>3
<1>5. U(p, a) = w * w * (x \div y)
  BY DEF U, Search!Exploration, Search!Child, Child
<1> HIDE DEF w, x, y
<1>6. x \div y \in Int
  BY <1>4
<1> QED BY <1>2, <1>5, <1>6 DEF w

(***************************************************************************)
(* Where the search and the blind one are, the same child is chosen: an    *)
(* unvisited one as long as there is one, by U; then any, by U.            *)
(***************************************************************************)
LEMMA ChoiceSame ==
  ASSUME TypeInv, ShapeInv, WorthInv, NEW p \in Taken, Len(p) <= SequenceLength
  PROVE  /\ BestAction(p) \in Action
         /\ BestAction(p) = Blind!Choice(p)
<1> DEFINE fresh == {a \in Action : Visits[Child(p, a)] = 0}
           cand == IF fresh = {} THEN Action ELSE fresh
           top == {a \in Action : \A b \in Action : ~Better(p, b, a)}
           best2 == {a \in cand : \A b \in cand : U(p, b) <= U(p, a)}
<1>1. p \in Position /\ \A a \in Action : Child(p, a) \in DOMAIN tree
  BY ChildFacts DEF ShapeInv, Taken
<1>2. \A a \in Action : U(p, a) \in Int
  BY <1>1, ExplorationInt
<1>3. Indefinite \in Int /\ Indefinite < 0
  BY MctsAssumption
<1>4. \A a \in Action :
        Worth(Child(p, a)) = IF Visits[Child(p, a)] = 0 THEN 0 ELSE Indefinite
  <2> SUFFICES ASSUME NEW a \in Action
               PROVE  Worth(Child(p, a)) =
                        IF Visits[Child(p, a)] = 0 THEN 0 ELSE Indefinite
    OBVIOUS
  <2> DEFINE c == Child(p, a)
  <2>1. c \in DOMAIN tree \ {Root}
    BY <1>1, ChildFacts
  <2>2. c \in known <=> tree[c].visited > 0
    BY <2>1 DEF ShapeInv
  <2>3. tree[c].visited \in Nat /\ Visits[c] = tree[c].visited
    BY <2>1 DEF TypeInv, ShapeInv, State, Visits
  <2>4. Worth(c) = IF c \in known THEN Indefinite ELSE 0
    BY <1>3, <2>1 DEF Worth, WorthInv
  <2> HIDE DEF c
  <2> QED BY <2>2, <2>3, <2>4 DEF c
<1> DEFINE Over(b, a) ==
             \/ Worth(Child(p, b)) > Worth(Child(p, a))
             \/ Worth(Child(p, b)) = Worth(Child(p, a)) /\ U(p, b) > U(p, a)
<1>5. top = {a \in Action : \A b \in Action : ~Over(b, a)}
  BY DEF Better
<1>6. top = best2
  <2>1. CASE fresh = {}
    BY <1>2, <1>3, <1>4, <1>5, <2>1
  <2>2. CASE fresh # {}
    <3>1. cand = fresh
      BY <2>2
    <3>2. ASSUME NEW a \in top PROVE a \in best2
      <4>1. a \in fresh
        BY <1>3, <1>4, <1>5, <2>2
      <4>2. \A b \in fresh : U(p, b) <= U(p, a)
        BY <1>2, <1>4, <1>5, <4>1
      <4> QED BY <3>1, <4>1, <4>2
    <3>3. ASSUME NEW a \in best2 PROVE a \in top
      <4>1. a \in fresh /\ \A b \in fresh : U(p, b) <= U(p, a)
        BY <3>1
      <4> QED BY <1>2, <1>3, <1>4, <1>5, <4>1
    <3> QED BY <3>2, <3>3
  <2> QED BY <2>1, <2>2
<1>7. best2 # {} /\ best2 \subseteq Action
  <2>1. cand # {} /\ cand \subseteq Action
    <3>1. 0 \in Action
      BY MctsAssumption DEF Action
    <3> QED BY <3>1
  <2> DEFINE f == [a \in cand |-> U(p, a)]
  <2>2. f \in [cand -> Int]
    BY <1>2, <2>1
  <2>3. cand \in SUBSET (0 .. ActionSize - 1) /\ ActionSize \in Nat
    BY <2>1, MctsAssumption DEF Action
  <2>4. \E a \in cand : \A b \in cand : f[b] <= f[a]
    <3> HIDE DEF f, cand
    <3> QED BY <2>1, <2>2, <2>3, GreatestExists
  <2> QED BY <2>1, <2>4
<1>8. BestAction(p) = LeastOf(top)
  BY DEF BestAction, LeastOf
<1>9. Blind!Choice(p) = LeastOf(best2)
  <2>1. Blind!Action = Action /\ \A a \in Action : Blind!Child(p, a) = Child(p, a)
    BY DEF Blind!Action, Action, Blind!Child, Child
  <2>3. Blind!Fresh(p) = fresh
    BY <2>1 DEF Blind!Fresh
  <2>4. Blind!Candidates(p) = cand
    BY <2>1, <2>3 DEF Blind!Candidates
  <2>5. \A a : Blind!Exploration(Visits, P, p, a) = U(p, a)
    BY DEF U, Search!Exploration, Search!Child, Blind!Exploration, Blind!Child
  <2>6. best2 = {a \in Blind!Candidates(p) : \A b \in Blind!Candidates(p) :
                   Blind!Exploration(Visits, P, p, b) <=
                     Blind!Exploration(Visits, P, p, a)}
    BY <2>4, <2>5
  <2> HIDE DEF fresh, cand, top
  <2> QED BY <2>6, Zenon DEF Blind!Choice, LeastOf
<1> HIDE DEF top, best2
<1> QED BY <1>6, <1>7, <1>8, <1>9, LeastAction

-----------------------------------------------------------------------------
(***************************************************************************)
(* Sums over the children of a position.                                   *)
(***************************************************************************)
(* f lists the partial sums of v.                                          *)
Sums(f, v, n) ==
  /\ f \in [0 .. n -> Nat]
  /\ f[0] = 0
  /\ \A i \in 1 .. n : f[i] = f[i - 1] + v[i]

(* w is v, but for d more in term k.                                       *)
Shifted(v, w, n, k, d) ==
  \A i \in 1 .. n : v[i] \in Nat /\ w[i] = v[i] + IF i = k THEN d ELSE 0

(* Below is what adding up one child after the other gives.                *)
LEMMA BelowSums ==
  ASSUME NEW count \in [Position -> Nat], NEW p \in Position,
         Len(p) <= SequenceLength
  PROVE  \E f : /\ Sums(f, [i \in 1 .. ActionSize |-> count[Child(p, i - 1)]],
                          ActionSize)
               /\ Below(count, p) = f[ActionSize]
<1> DEFINE n == ActionSize
           D == Nat
           s == [i \in 1 .. n |-> i - 1]
           F == [x \in D \X (1 .. n) |-> x[1] + count[Child(p, x[2] - 1)]]
           Eq(g) == g = [t \in SUBSET (1 .. n) |->
                          IF t = {} THEN 0
                          ELSE g[t \ {Max(t)}] + count[Child(p, s[Max(t)])]]
           h == CHOOSE g : Eq(g)
<1>1. n \in Nat
  BY MctsAssumption
<1>2. s \in Seq(Nat) /\ Len(s) = n
  BY <1>1
<1>3. \A i \in 1 .. n : i - 1 \in Action /\ count[Child(p, i - 1)] \in Nat
  BY <1>1, ChildFacts DEF Action
<1>4. F \in [D \X (1 .. n) -> D]
  BY <1>3
<1>5. PICK g \in [SUBSET (1 .. n) -> D] : FoldEquation(g, n, F, 0)
  <2> HIDE DEF F, D, n
  <2>1. 0 \in D
    BY DEF D
  <2> QED BY <1>1, <1>4, <2>1, FoldExists
<1>6. \A t \in SUBSET (1 .. n) : t # {} => Max(t) \in 1 .. n
  BY <1>1, MaxOfInterval
<1>7. Eq(g)
  <2>1. ASSUME NEW t \in SUBSET (1 .. n), t # {}
        PROVE  g[t] = g[t \ {Max(t)}] + count[Child(p, s[Max(t)])]
    <3>1. g[t] = F[<<g[t \ {Max(t)}], Max(t)>>]
      BY <1>5, <2>1 DEF FoldEquation
    <3>2. Max(t) \in 1 .. n /\ g[t \ {Max(t)}] \in D
      BY <1>5, <1>6, <2>1
    <3> QED BY <3>1, <3>2
  <2>2. g[{}] = 0
    BY <1>5 DEF FoldEquation
  <2> HIDE DEF s, n, D
  <2> QED BY <1>5, <2>1, <2>2
<1>8. Eq(h)
  <2> HIDE DEF Eq
  <2> QED BY <1>7
<1>9. Below(count, p) = h[1 .. n]
  BY <1>2, Zenon DEF Below, FoldLeft, MapThenFoldSet
<1> HIDE DEF h
<1>10. /\ h[{}] = 0
       /\ \A t \in SUBSET (1 .. n) : t # {} =>
            h[t] = h[t \ {Max(t)}] + count[Child(p, Max(t) - 1)]
  <2>1. h[{}] = 0
    BY <1>8
  <2>2. ASSUME NEW t \in SUBSET (1 .. n), t # {}
        PROVE  h[t] = h[t \ {Max(t)}] + count[Child(p, Max(t) - 1)]
    <3>1. h[t] = h[t \ {Max(t)}] + count[Child(p, s[Max(t)])]
      BY <1>8, <2>2
    <3>2. s[Max(t)] = Max(t) - 1
      BY <1>6, <2>2
    <3> QED BY <3>1, <3>2
  <2> QED BY <2>1, <2>2
<1> HIDE DEF Eq, s
<1>11. \A t \in SUBSET (1 .. n) : h[t] \in Nat
  <2>1. ASSUME NEW t \in SUBSET (1 .. n), t # {}, h[t \ {Max(t)}] \in Nat
        PROVE  h[t] \in Nat
    <3> DEFINE x == h[t \ {Max(t)}]
               y == count[Child(p, Max(t) - 1)]
    <3>1. x \in Nat /\ y \in Nat
      BY <1>3, <1>6, <2>1
    <3>2. h[t] = x + y
      BY <1>10, <2>1
    <3> HIDE DEF x, y
    <3> QED BY <3>1, <3>2
  <2>2. h[{}] \in Nat
    BY <1>10
  <2> HIDE DEF n
  <2> QED BY <1>1, <2>1, <2>2, FoldRange
<1> DEFINE f == [i \in 0 .. n |-> h[1 .. i]]
<1>12. f \in [0 .. n -> Nat]
  <2>1. \A i \in 0 .. n : 1 .. i \in SUBSET (1 .. n)
    BY <1>1
  <2> QED BY <1>11, <2>1
<1>13. f[0] = 0 /\ f[n] = h[1 .. n]
  <2>1. 1 .. 0 = {}
    OBVIOUS
  <2> QED BY <1>1, <1>10, <2>1
<1>14. ASSUME NEW i \in 1 .. n
       PROVE  f[i] = f[i - 1] + count[Child(p, i - 1)]
  <2>1. i \in Nat /\ i - 1 \in 0 .. n /\ i \in 0 .. n /\ i \in 1 .. i
    BY <1>1
  <2>2. 1 .. i \in SUBSET (1 .. n) /\ 1 .. i # {}
    <3>1. \A j \in 1 .. i : j \in 1 .. n
      BY <1>1, <2>1
    <3> QED BY <2>1, <3>1
  <2>3. Max(1 .. i) \in 1 .. i /\ Max(1 .. i) >= i
    BY <2>1, <2>2, MaxOfInterval
  <2>4. Max(1 .. i) = i
    BY <2>1, <2>3
  <2>5. (1 .. i) \ {i} = 1 .. (i - 1)
    BY <2>1
  <2>6. h[1 .. i] = h[1 .. (i - 1)] + count[Child(p, i - 1)]
    BY <1>10, <2>2, <2>4, <2>5
  <2> QED BY <2>1, <2>6
<1> DEFINE v == [i \in 1 .. n |-> count[Child(p, i - 1)]]
<1>15. \A i \in 1 .. n : f[i] = f[i - 1] + v[i]
  BY <1>14
<1> HIDE DEF f, v, n
<1>16. Sums(f, v, n)
  BY <1>12, <1>13, <1>15 DEF Sums
<1>17. Below(count, p) = f[n]
  BY <1>9, <1>13
<1> QED BY <1>16, <1>17 DEF v, n

(* A sum of which one term grows by d, which may be 0, grows by d.         *)
LEMMA SumShift ==
  ASSUME NEW n \in Nat, NEW f, NEW g, NEW v, NEW w, NEW d \in Nat,
         NEW k \in 1 .. n, Sums(f, v, n), Sums(g, w, n), Shifted(v, w, n, k, d)
  PROVE  g[n] = f[n] + d
<1> DEFINE Good(m) == g[m] = f[m] + IF k <= m THEN d ELSE 0
           Bad == {m \in 0 .. n : ~Good(m)}
<1>0. /\ f \in [0 .. n -> Nat] /\ f[0] = 0 /\ g \in [0 .. n -> Nat] /\ g[0] = 0
      /\ \A i \in 1 .. n : /\ f[i] = f[i - 1] + v[i]
                           /\ g[i] = g[i - 1] + w[i]
                           /\ v[i] \in Nat
                           /\ w[i] = v[i] + IF i = k THEN d ELSE 0
  BY DEF Sums, Shifted
<1>a. Bad = {} => g[n] = f[n] + d
  <2> HAVE Bad = {}
  <2>1. n \in 0 .. n /\ k <= n
    OBVIOUS
  <2>2. Good(n)
    <3> HIDE DEF Good
    <3> QED BY <2>1
  <2> QED BY <2>1, <2>2
<1> SUFFICES ASSUME Bad # {} PROVE FALSE
  BY <1>a
<1>1. PICK m \in Bad : \A j \in Bad : m <= j
  <2>1. Bad \in SUBSET Nat
    OBVIOUS
  <2> HIDE DEF Bad
  <2> QED BY <2>1, LeastNumber
<1>2. Good(0)
  BY <1>0
<1>3. m \in 1 .. n /\ m - 1 \in 0 .. n /\ m - 1 \notin Bad
  <2> HIDE DEF Good
  <2> QED BY <1>1, <1>2
<1>4. Good(m - 1)
  BY <1>3
<1> DEFINE x == f[m - 1]
           y == g[m - 1]
           z == v[m]
<1>5. /\ f[m] = x + z /\ g[m] = y + w[m]
      /\ w[m] = z + IF m = k THEN d ELSE 0
      /\ x \in Nat /\ y \in Nat /\ z \in Nat
      /\ y = x + IF k <= m - 1 THEN d ELSE 0
  BY <1>0, <1>3, <1>4
<1> HIDE DEF x, y, z
<1>6. Good(m)
  <2>1. k \in Nat /\ m \in Nat
    BY <1>3
  <2>2. CASE m = k
    <3>1. y = x /\ w[m] = z + d
      BY <1>5, <2>1, <2>2
    <3>2. g[m] = f[m] + d
      BY <1>5, <3>1
    <3> QED BY <2>1, <2>2, <3>2
  <2>3. CASE m < k
    <3>1. y = x /\ w[m] = z
      BY <1>5, <2>1, <2>3
    <3>2. g[m] = f[m] + 0
      BY <1>5, <3>1
    <3> QED BY <2>1, <2>3, <3>2
  <2>4. CASE k < m
    <3>1. y = x + d /\ w[m] = z
      BY <1>5, <2>1, <2>4
    <3>2. g[m] = f[m] + d
      BY <1>5, <3>1
    <3> QED BY <2>1, <2>4, <3>2
  <2> QED BY <2>1, <2>2, <2>3, <2>4
<1> QED
  <2> HIDE DEF Good
  <2> QED BY <1>1, <1>6

(* One visit more of one child is one more below its father, and below no  *)
(* other position.                                                         *)
LEMMA BelowShift ==
  ASSUME NEW count \in [Position -> Nat], NEW p \in Position,
         Len(p) <= SequenceLength, NEW a \in Action,
         NEW q \in Position, Len(q) <= SequenceLength
  PROVE  LET c == Child(p, a)
         IN  Below([count EXCEPT ![c] = @ + 1], q) =
               Below(count, q) + IF q = p THEN 1 ELSE 0
<1> DEFINE c == Child(p, a)
           more == [count EXCEPT ![c] = @ + 1]
           n == ActionSize
           d == IF q = p THEN 1 ELSE 0
           v == [i \in 1 .. n |-> count[Child(q, i - 1)]]
           w == [i \in 1 .. n |-> more[Child(q, i - 1)]]
<1>1. n \in Nat /\ a + 1 \in 1 .. n /\ \A i \in 1 .. n : i - 1 \in Action
  BY MctsAssumption DEF Action
<1>2. c \in Position /\ more \in [Position -> Nat]
  BY ChildFacts
<1>3. \A i \in 1 .. n : Child(q, i - 1) \in Position
  BY <1>1, ChildFacts
<1>4. \A i \in 1 .. n : v[i] \in Nat
  BY <1>3
<1>5. \A i \in 1 .. n : Child(q, i - 1) = c <=> q = p /\ i = a + 1
  <2> SUFFICES ASSUME NEW i \in 1 .. n
               PROVE  Child(q, i - 1) = c <=> q = p /\ i = a + 1
    OBVIOUS
  <2>1. Child(q, i - 1) = c <=> q = p /\ i - 1 = a
    <3> DEFINE b == i - 1
    <3>1. b \in Action
      BY <1>1
    <3> HIDE DEF b
    <3>2. Child(q, b) = Child(p, a) => q = p /\ b = a
      BY <3>1, ChildFacts
    <3> QED BY <3>2 DEF b
  <2>2. i - 1 = a <=> i = a + 1
    BY <1>1 DEF Action
  <2> QED BY <2>1, <2>2
<1>6. \A i \in 1 .. n : v[i] \in Nat /\ w[i] = v[i] + IF i = a + 1 THEN d ELSE 0
  BY <1>2, <1>3, <1>4, <1>5
<1>7. PICK f : Sums(f, v, n) /\ Below(count, q) = f[n]
  BY BelowSums
<1> HIDE DEF more
<1>8. PICK g : Sums(g, w, n) /\ Below(more, q) = g[n]
  BY <1>2, BelowSums
<1>9. g[n] = f[n] + d
  <2>1. d \in Nat /\ Shifted(v, w, n, a + 1, d)
    BY <1>6 DEF Shifted
  <2> HIDE DEF v, w, d, n
  <2> QED BY <1>1, <1>7, <1>8, <2>1, SumShift
<1> QED BY <1>7, <1>8, <1>9 DEF more

(* Below a position of which no child was visited there is no visit.       *)
LEMMA BelowZero ==
  ASSUME NEW count \in [Position -> Nat], NEW p \in Position,
         Len(p) <= SequenceLength, \A a \in Action : count[Child(p, a)] = 0
  PROVE  Below(count, p) = 0
<1>1. ActionSize \in Nat \ {0} /\ 1 \in 1 .. ActionSize
      /\ \A i \in 1 .. ActionSize : i - 1 \in Action
  BY MctsAssumption DEF Action
<1> DEFINE n == ActionSize
           v == [i \in 1 .. n |-> count[Child(p, i - 1)]]
           z == [i \in 0 .. n |-> 0]
           w == [i \in 1 .. n |-> 0]
<1>2. PICK f : Sums(f, v, n) /\ Below(count, p) = f[n]
  BY BelowSums
<1>3. \A i \in 1 .. n : v[i] = 0
  BY <1>1
<1>4. PICK g : Sums(g, w, n) /\ g[n] = 0
  <2>1. Sums(z, w, n) /\ z[n] = 0
    BY <1>1 DEF Sums
  <2> HIDE DEF z
  <2> QED BY <2>1
<1>5. Shifted(w, v, n, 1, 0)
  BY <1>3 DEF Shifted
<1>6. n \in Nat /\ 0 \in Nat /\ 1 \in 1 .. n
  BY <1>1
<1> HIDE DEF v, w, n
<1>7. f[n] = g[n] + 0
  <2>1. Sums(g, w, n)
    BY <1>4
  <2> QED BY <1>2, <1>5, <1>6, <2>1, SumShift
<1> QED BY <1>2, <1>4, <1>7

(* The visits of other positions than the children do not matter.          *)
LEMMA BelowSame ==
  ASSUME NEW count \in [Position -> Nat], NEW more \in [Position -> Nat],
         NEW p \in Position, Len(p) <= SequenceLength,
         \A a \in Action : more[Child(p, a)] = count[Child(p, a)]
  PROVE  Below(more, p) = Below(count, p) /\ Below(count, p) \in Nat
<1>1. ActionSize \in Nat \ {0} /\ 1 \in 1 .. ActionSize
      /\ \A i \in 1 .. ActionSize : i - 1 \in Action
  BY MctsAssumption DEF Action
<1> DEFINE n == ActionSize
           v == [i \in 1 .. n |-> count[Child(p, i - 1)]]
           w == [i \in 1 .. n |-> more[Child(p, i - 1)]]
<1>2. PICK f : Sums(f, v, n) /\ Below(count, p) = f[n]
  BY BelowSums
<1>3. PICK g : Sums(g, w, n) /\ Below(more, p) = g[n]
  BY BelowSums
<1>4. \A i \in 1 .. n : v[i] \in Nat /\ w[i] = v[i]
  BY <1>1, ChildFacts
<1>5. Shifted(v, w, n, 1, 0)
  BY <1>4 DEF Shifted
<1>6. n \in Nat /\ 0 \in Nat /\ 1 \in 1 .. n
  BY <1>1
<1> HIDE DEF v, w, n
<1>7. g[n] = f[n] + 0
  BY <1>2, <1>3, <1>5, <1>6, SumShift
<1>8. f[n] \in Nat
  BY <1>2, <1>6 DEF Sums
<1> QED BY <1>2, <1>3, <1>7, <1>8

-----------------------------------------------------------------------------
(***************************************************************************)
(* The steps.                                                              *)
(***************************************************************************)
(* The counts of the search are numbers, and those of unknown positions 0. *)
LEMMA VisitsFacts ==
  ASSUME TypeInv, ShapeInv
  PROVE  /\ Visits \in [Position -> Nat]
         /\ \A p \in DOMAIN tree : Visits[p] = tree[p].visited
         /\ \A p \in Position \ {Root} : p \in known <=> Visits[p] > 0
         /\ \A p \in Taken : p \in Position /\ Len(p) <= SequenceLength
         /\ \A p \in Taken : Below(Visits, p) \in Nat
<1>1. \A p \in DOMAIN tree : p \in Position /\ tree[p].visited \in Nat
  BY DEF TypeInv, ShapeInv, State
<1>2. Visits \in [Position -> Nat]
  BY <1>1 DEF Visits
<1>3. \A p \in DOMAIN tree : Visits[p] = tree[p].visited
  BY <1>1 DEF Visits
<1>4. \A p \in Position \ {Root} : p \in known <=> Visits[p] > 0
  <2> SUFFICES ASSUME NEW p \in Position \ {Root}
               PROVE  p \in known <=> Visits[p] > 0
    OBVIOUS
  <2>1. CASE p \in DOMAIN tree
    BY <1>3, <2>1 DEF ShapeInv
  <2>2. CASE p \notin DOMAIN tree
    BY <2>2 DEF Visits, ShapeInv
  <2> QED BY <2>1, <2>2
<1>5. \A p \in Taken : p \in Position /\ Len(p) <= SequenceLength
  <2>1. Len(Root) <= SequenceLength /\ Root \in Position
    BY ChildFacts, MctsAssumption
  <2> QED BY <2>1 DEF Taken, ShapeInv
<1>6. \A p \in Taken : Below(Visits, p) \in Nat
  BY <1>2, <1>5, BelowSame
<1> QED BY <1>2, <1>3, <1>4, <1>5, <1>6

(* The invariant holds initially, and both searches begin alike ...        *)
LEMMA InvariantInit == Init => Invariant /\ Blind!Init
<1> SUFFICES ASSUME Init PROVE Invariant /\ Blind!Init
  OBVIOUS
<1> DEFINE e == [NewState EXCEPT !.visited = 1]
           t0 == [q \in {Root} |-> e]
<1>1. /\ phase = "between" /\ iteration = 0 /\ res = Root /\ r = NoPosition
      /\ tree = WithChildren(t0, Root) /\ known = {} /\ P \in Noises
      /\ measured = <<>> /\ over = {} /\ strategy \in Strategies
      /\ best = [reward |-> Infinity, mulReward |-> Infinity]
      /\ saved = NoPosition
  BY DEF Init
<1>2. /\ DOMAIN tree = {Root} \cup {Child(Root, a) : a \in Action}
      /\ tree[Root] = e
      /\ \A q \in DOMAIN tree \ {Root} : tree[q] = NewState
  BY <1>1 DEF WithChildren
<1>3. /\ NewState \in State /\ e \in State
      /\ NewState.visited = 0 /\ NewState.Q = 0 /\ NewState.R = 0
      /\ NewState.terminal = FALSE
      /\ e.visited = 1 /\ e.Q = 0 /\ e.R = 0 /\ e.terminal = FALSE
  <2>1. NewState \in State
    BY DEF NewState, State
  <2>2. NewState.visited = 0 /\ NewState.Q = 0 /\ NewState.R = 0
    BY DEF NewState
  <2>3. NewState.terminal = FALSE
    BY DEF NewState
  <2>4. /\ e \in State /\ e.visited = 1 /\ e.Q = NewState.Q /\ e.R = NewState.R
        /\ e.terminal = NewState.terminal
    BY <2>1 DEF State
  <2> HIDE DEF e
  <2> QED BY <2>1, <2>2, <2>3, <2>4
<1> HIDE DEF e
<1>4. SequenceLength \in Nat /\ SearchIteration \in Nat /\ Infinity \in Nat
  <2>1. Infinity \in Nat
    BY SMT DEF Infinity
  <2> QED BY <2>1, MctsAssumption
<1>5. TypeInv
  <2>1. tree \in [DOMAIN tree -> State]
    <3>1. \A q \in DOMAIN tree : tree[q] \in State
      BY <1>2, <1>3
    <3>2. tree = [q \in DOMAIN tree |-> tree[q]]
      BY <1>1 DEF WithChildren
    <3> QED BY <3>1, <3>2
  <2>2. measured \in [known -> Outcomes]
    BY <1>1
  <2>3. best \in [reward : Nat, mulReward : Nat]
    BY <1>1, <1>4
  <2> QED BY <1>1, <1>4, <2>1, <2>2, <2>3 DEF TypeInv
<1>6. ShapeInv
  <2>1. DOMAIN tree \subseteq Position
    BY <1>2, <1>4, ChildFacts
  <2>2. ASSUME NEW p \in Position, NEW a \in Action
        PROVE  Child(p, a) \in DOMAIN tree <=> p = Root
    BY <1>2, ChildFacts
  <2>3. \A p \in DOMAIN tree \ {Root} : ~(tree[p].visited > 0)
    BY <1>2, <1>3
  <2> QED BY <1>1, <1>2, <2>1, <2>2, <2>3 DEF ShapeInv, Taken
<1>7. PathInv /\ WorthInv /\ OverInv
  <2>1. PathInv
    BY <1>1 DEF PathInv, Taken
  <2>2. WorthInv
    BY <1>1, <1>2, <1>3 DEF WorthInv
  <2>3. OverInv
    BY <1>1, <1>2, <1>3 DEF OverInv
  <2> QED BY <2>1, <2>2, <2>3
<1>8. Visits = [p \in Position |-> IF p = Root THEN 1 ELSE 0]
  <2> SUFFICES ASSUME NEW p \in Position
               PROVE  (IF p \in DOMAIN tree THEN tree[p].visited ELSE 0) =
                        IF p = Root THEN 1 ELSE 0
    BY DEF Visits
  <2> QED BY <1>2, <1>3
<1>9. SumInv
  <2>1. \A a \in Action : Child(Root, a) \in Position \ {Root}
    BY <1>4, ChildFacts
  <2>2. Below(Visits, Root) = 0 /\ Visits[Root] = 1
    BY <1>4, <1>5, <1>6, <1>8, <2>1, BelowZero, ChildFacts, VisitsFacts
  <2> QED BY <1>1, <2>2 DEF SumInv, Started, Moved
<1>10. SavedInv
  BY <1>1 DEF SavedInv, FirstVisitsBest
<1>11. Blind!Init
  BY <1>1, <1>8 
     DEF Blind!Init, Blind!Position, Blind!Root, Blind!Action, Blind!BoundedSeq,
         Blind!SeqOf, Position, Root, Action, BoundedSeq, SeqOf
<1> QED BY <1>5, <1>6, <1>7, <1>9, <1>10, <1>11 DEF Invariant

(* Steps that leave the tree and the mapper alone.                         *)
LEMMA TreeUntouched ==
  ASSUME Invariant, UNCHANGED <<tree, known, P, mapper>>,
         phase' \in {"between", "search", "back", "done", "ended"},
         iteration' \in 0 .. SearchIteration
  PROVE  /\ TypeInv' /\ ShapeInv' /\ WorthInv' /\ OverInv' /\ SavedInv'
         /\ Visits' = Visits /\ Taken' = Taken
<1>1. /\ tree' = tree /\ known' = known /\ P' = P /\ measured' = measured
      /\ over' = over /\ strategy' = strategy /\ best' = best /\ saved' = saved
  BY DEF mapper
<1>2. TypeInv'
  BY <1>1 DEF Invariant, TypeInv
<1>3. Taken' = Taken
  BY <1>1 DEF Taken
<1>4. ShapeInv'
  BY <1>1, <1>3 DEF Invariant, ShapeInv
<1>5. WorthInv' /\ OverInv'
  BY <1>1 DEF Invariant, WorthInv, OverInv
<1>6. SavedInv'
  BY <1>1 DEF Invariant, SavedInv, FirstVisitsBest, Product
<1>7. Visits' = Visits
  BY <1>1 DEF Visits
<1> QED BY <1>2, <1>3, <1>4, <1>5, <1>6, <1>7

(* A descent begins at the root, which is visited once more.               *)
LEMMA StartIterationStep ==
  ASSUME Invariant, StartIteration
  PROVE  Invariant' /\ Blind!Begin
<1>1. /\ phase = "between" /\ iteration < SearchIteration /\ phase' = "search"
      /\ tree' = [tree EXCEPT ![Root].visited = @ + 1]
      /\ res' = Root /\ r' = NoPosition
      /\ iteration' = iteration /\ known' = known /\ P' = P
      /\ measured' = measured /\ over' = over /\ strategy' = strategy
      /\ best' = best /\ saved' = saved
  BY DEF StartIteration, mapper
<1>2. TypeInv /\ ShapeInv /\ WorthInv /\ OverInv /\ SumInv /\ SavedInv
  BY DEF Invariant
<1>3. Root \in DOMAIN tree /\ Root \in Position /\ tree[Root] \in State
  BY <1>2 DEF TypeInv, ShapeInv
<1> DEFINE new == [tree[Root] EXCEPT !.visited = @ + 1]
<1>4. /\ new \in State /\ new.visited = tree[Root].visited + 1
      /\ new.Q = tree[Root].Q /\ new.R = tree[Root].R
      /\ new.terminal = tree[Root].terminal
  BY <1>3 DEF State
<1>5. tree' = [tree EXCEPT ![Root] = new]
  BY <1>1
<1> HIDE DEF new
<1>6. /\ DOMAIN tree' = DOMAIN tree
      /\ \A q \in DOMAIN tree : tree'[q] = IF q = Root THEN new ELSE tree[q]
      /\ tree' \in [DOMAIN tree -> State]
  BY <1>2, <1>4, <1>5 DEF TypeInv
<1>7. TypeInv'
  BY <1>1, <1>2, <1>6 DEF TypeInv
<1>8. Taken' = Taken /\ ShapeInv'
  <2>1. Taken' = Taken
    BY <1>1 DEF Taken
  <2> QED BY <1>1, <1>2, <1>6, <2>1 DEF ShapeInv
<1>9. PathInv'
  BY <1>1 DEF PathInv, Taken
<1>10. WorthInv' /\ OverInv'
  <2>1. \A q \in DOMAIN tree : /\ tree'[q].Q = tree[q].Q /\ tree'[q].R = tree[q].R
                               /\ tree'[q].terminal = tree[q].terminal
    BY <1>4, <1>6
  <2>2. WorthInv'
    BY <1>1, <1>2, <1>6, <2>1 DEF WorthInv
  <2>3. OverInv'
    BY <1>1, <1>2, <1>6, <2>1 DEF OverInv
  <2> QED BY <2>2, <2>3
<1>11. SavedInv'
  BY <1>1, <1>2 DEF SavedInv, FirstVisitsBest, Product
<1>12. Visits' = [Visits EXCEPT ![Root] = @ + 1]
  <2>1. \A p \in Position :
          (IF p \in DOMAIN tree' THEN tree'[p].visited ELSE 0) =
            IF p = Root THEN Visits[Root] + 1 ELSE Visits[p]
    BY <1>3, <1>4, <1>6 DEF Visits
  <2>2. Visits' = [p \in Position |-> IF p = Root THEN Visits[Root] + 1 ELSE Visits[p]]
    BY <2>1 DEF Visits
  <2> QED BY <1>3, <2>2 DEF Visits
<1>13. SumInv'
  <2>1. Visits \in [Position -> Nat] /\ Visits' \in [Position -> Nat]
    BY <1>2, <1>3, <1>12, VisitsFacts
  <2>2. \A p \in Taken : \A a \in Action : Visits'[Child(p, a)] = Visits[Child(p, a)]
    BY <1>2, <1>12, <2>1, VisitsFacts, ChildFacts
  <2>3. \A p \in Taken : Below(Visits', p) = Below(Visits, p) /\ Below(Visits, p) \in Nat
    BY <1>2, <2>1, <2>2, VisitsFacts, BelowSame
  <2>4. \A p \in known : Visits'[p] = Visits[p] /\ At(p)' = 0 /\ At(p) = 0
    BY <1>1, <1>2, <1>12, <2>1, VisitsFacts DEF ShapeInv, At
  <2>5. Started' = 1 /\ Started = 0 /\ Moved' = 0 /\ Moved = 0
    BY <1>1 DEF Started, Moved
  <2>6. Visits'[Root] = 1 + iteration + 1
    <3>1. iteration \in Int /\ Visits[Root] = 1 + iteration
      BY <1>2, <2>5 DEF SumInv, TypeInv
    <3> QED BY <1>3, <1>12, <2>1, <3>1
  <2> HIDE DEF Started, Moved, At
  <2>7. \A p \in known : Len(p) < SequenceLength /\ p \notin over =>
          Visits'[p] = Below(Visits', p) + At(p)'
    BY <1>2, <2>3, <2>4 DEF SumInv, Taken
  <2>8. Below(Visits', Root) <= iteration + 0
    BY <1>2, <2>3, <2>5 DEF SumInv, Taken
  <2> QED BY <1>1, <2>5, <2>6, <2>7, <2>8 DEF SumInv
<1>14. Blind!Begin
  BY <1>1, <1>12 DEF Blind!Begin, Blind!Root, Root
<1> QED BY <1>7, <1>8, <1>9, <1>10, <1>11, <1>13, <1>14 DEF Invariant

(* Where a descent ends, no visit is missing.                              *)
LEMMA LeaveLoopStep ==
  ASSUME Invariant, LeaveLoop
  PROVE  Invariant' /\ Blind!End
<1>1. /\ phase = "search" /\ Left /\ phase' = "back"
      /\ iteration' = iteration /\ res' = res /\ r' = r
      /\ UNCHANGED <<tree, known, P, mapper>> /\ P' = P
      /\ known' = known /\ over' = over
  BY DEF LeaveLoop, mapper
<1>2. TypeInv /\ ShapeInv /\ PathInv /\ OverInv /\ SumInv
  BY DEF Invariant
<1>3. /\ TypeInv' /\ ShapeInv' /\ WorthInv' /\ OverInv' /\ SavedInv'
      /\ Visits' = Visits /\ Taken' = Taken
  BY <1>1, <1>2, TreeUntouched DEF TypeInv
<1>4. PathInv'
  BY <1>1, <1>2, <1>3 DEF PathInv
<1>5. ~(res \in known /\ Len(res) < SequenceLength /\ res \notin over)
  <2> SUFFICES ASSUME res \in known, Len(res) < SequenceLength, res \notin over
               PROVE  FALSE
    OBVIOUS
  <2>1. Len(res) \in Nat /\ SequenceLength \in Nat /\ res # Root
    BY <1>2, VisitsFacts, ChildFacts, MctsAssumption DEF Taken, ShapeInv
  <2>2. r \in Taken /\ \E a \in Action : res = Child(r, a)
    BY <1>1, <1>2, <2>1 DEF PathInv
  <2>3. r \in DOMAIN tree
    BY <1>2, <2>2 DEF Taken, ShapeInv
  <2>4. tree[r].terminal
    BY <1>1, <2>1, <2>3 DEF Left
  <2>5. r \in over
    BY <1>2, <2>3, <2>4 DEF OverInv
  <2> QED BY <1>2, <2>2, <2>5 DEF OverInv
<1>6. SumInv'
  <2>1. \A p \in known : Len(p) < SequenceLength /\ p \notin over => At(p) = 0
    BY <1>5 DEF At
  <2>2. \A p \in known : At(p)' = 0
    BY <1>1 DEF At
  <2>3. Started' = Started /\ Moved' = 1 /\ Moved \in {0, 1}
    BY <1>1 DEF Started, Moved
  <2>4. Below(Visits, Root) <= iteration + 1
    <3>1. Below(Visits, Root) \in Nat /\ iteration \in Nat
      BY <1>2, VisitsFacts DEF Taken, TypeInv
    <3> QED BY <1>2, <2>3, <3>1 DEF SumInv
  <2> HIDE DEF Started, Moved, At
  <2> QED BY <1>1, <1>2, <1>3, <2>1, <2>2, <2>3, <2>4 DEF SumInv
<1>7. Blind!End
  BY <1>1, <1>3 DEF Blind!End, Blind!Root, Root
<1> QED BY <1>3, <1>4, <1>6, <1>7 DEF Invariant

(* The value that is given back is negative, and no Q is.                  *)
LEMMA BackpropagateStep ==
  ASSUME Invariant, Backpropagate
  PROVE  Invariant' /\ UNCHANGED Blind!vars
<1> DEFINE father == Front(res)
           given == (2 * Worth(res)) \div 5
<1>1. /\ phase = "back" /\ res # Root /\ phase' = "back"
      /\ tree' = IF given > tree[father].Q
                   THEN [tree EXCEPT ![father].Q = given] ELSE tree
      /\ res' = father /\ iteration' = iteration /\ r' = r
      /\ known' = known /\ P' = P /\ UNCHANGED mapper
      /\ over' = over
  BY DEF Backpropagate, mapper
<1>2. TypeInv /\ ShapeInv /\ PathInv /\ WorthInv /\ SumInv
  BY DEF Invariant
<1>3. res \in known /\ res \in Position /\ res \in DOMAIN tree
  BY <1>1, <1>2 DEF PathInv, Taken, ShapeInv
<1>4. father \in Taken
  <2>1. father \in Position /\ \E a \in Action : res = Child(father, a)
    BY <1>1, <1>3, ChildFacts
  <2> HIDE DEF father
  <2> QED BY <1>2, <1>3, <2>1 DEF ShapeInv
<1>5. tree' = tree
  <2>1. Worth(res) = Indefinite /\ Indefinite \in Int /\ Indefinite < 0
    BY <1>2, <1>3, MctsAssumption DEF Worth, WorthInv
  <2>2. given < 0 /\ given \in Int
    BY <2>1
  <2>3. tree[father].Q = 0
    BY <1>2, <1>4 DEF WorthInv, Taken, ShapeInv
  <2> HIDE DEF given, father
  <2> QED BY <1>1, <2>2, <2>3
<1> HIDE DEF father, given
<1>6. /\ TypeInv' /\ ShapeInv' /\ WorthInv' /\ OverInv' /\ SavedInv'
      /\ Visits' = Visits /\ Taken' = Taken
  BY <1>1, <1>2, <1>5, TreeUntouched DEF TypeInv
<1>7. PathInv'
  BY <1>1, <1>2, <1>4, <1>6 DEF PathInv
<1>8. SumInv'
  <2>1. \A p \in known : At(p) = 0 /\ At(p)' = 0
    BY <1>1 DEF At
  <2>2. Started' = Started /\ Moved' = Moved
    BY <1>1 DEF Started, Moved
  <2> HIDE DEF Started, Moved, At
  <2> QED BY <1>1, <1>2, <1>6, <2>1, <2>2 DEF SumInv
<1>9. UNCHANGED Blind!vars
  BY <1>1, <1>6 DEF Blind!vars
<1> QED BY <1>6, <1>7, <1>8, <1>9 DEF Invariant

(* The end of an iteration and of the search, and the one r may bring.     *)
LEMMA EndStep ==
  ASSUME Invariant, EndIteration \/ EndSearch \/ ReadsGarbage
  PROVE  Invariant' /\ UNCHANGED Blind!vars
<1>1. /\ UNCHANGED <<tree, known, P, mapper>> /\ P' = P
      /\ res' = res /\ r' = r /\ known' = known /\ over' = over
  BY DEF EndIteration, EndSearch, ReadsGarbage, mapper
<1>2. TypeInv /\ ShapeInv /\ PathInv /\ SumInv /\ SearchIteration \in Nat
  BY MctsAssumption DEF Invariant
<1>3. \/ /\ phase = "back" /\ res = Root /\ phase' = "between"
         /\ iteration' = iteration + 1
      \/ phase = "between" /\ phase' = "done" /\ iteration' = iteration
      \/ /\ phase = "search" /\ r = NoPosition /\ phase' = "ended"
         /\ iteration' = iteration
  BY DEF EndIteration, EndSearch, ReadsGarbage
<1>4. iteration' \in 0 .. SearchIteration
  <2>1. iteration \in 0 .. SearchIteration
    BY <1>2 DEF TypeInv
  <2>2. phase = "back" => iteration < SearchIteration
    BY <1>2 DEF PathInv
  <2> QED BY <1>2, <1>3, <2>1, <2>2
<1>5. /\ TypeInv' /\ ShapeInv' /\ WorthInv' /\ OverInv' /\ SavedInv'
      /\ Visits' = Visits /\ Taken' = Taken
  BY <1>1, <1>3, <1>4, TreeUntouched
<1>6. PathInv'
  BY <1>1, <1>2, <1>3, <1>5 DEF PathInv
<1>7. phase = "search" => res = Root
  <2>1. NoPosition \notin Taken
    BY <1>2, ChildFacts, VisitsFacts
  <2> QED BY <1>2, <1>3, <2>1 DEF PathInv
<1>8. SumInv'
  <2>1. \A p \in known : At(p) = 0 /\ At(p)' = 0
    BY <1>2, <1>3, <1>7 DEF At, ShapeInv
  <2>2. \/ iteration' = iteration /\ Started' = Started /\ Moved' = Moved
        \/ iteration' = iteration + 1 /\ Started = 1 /\ Started' = 0
             /\ Moved = 1 /\ Moved' = 0
    BY <1>3, <1>7 DEF Started, Moved
  <2>3. iteration \in Nat
    BY <1>2 DEF TypeInv
  <2> HIDE DEF Started, Moved, At
  <2>4. Visits[Root] = 1 + iteration' + Started'
    BY <1>2, <2>2, <2>3 DEF SumInv
  <2>5. Below(Visits, Root) <= iteration' + Moved'
    BY <1>2, <2>2, <2>3 DEF SumInv
  <2> QED BY <1>1, <1>2, <1>5, <2>1, <2>4, <2>5 DEF SumInv
<1>9. UNCHANGED Blind!vars
  BY <1>1, <1>3, <1>5, <1>7 DEF Blind!vars, Blind!Root, Root
<1> QED BY <1>5, <1>6, <1>8, <1>9 DEF Invariant

-----------------------------------------------------------------------------
(***************************************************************************)
(* A turn of the loop.                                                     *)
(***************************************************************************)
Turned(c, first) ==
  /\ c = Child(res, Blind!Choice(res))
  /\ c = Child(res, BestAction(res))
  /\ c \in Position \ {Root} /\ c \in DOMAIN tree /\ Len(c) <= SequenceLength
  /\ Len(c) = Len(res) + 1
  /\ first <=> c \notin known

(* Where the search goes: to a child in the tree, unvisited or known.      *)
LEMMA ForwardTurns ==
  ASSUME Invariant, Forward
  PROVE  LET c == Child(res, BestAction(res))
         IN  Turned(c, tree[c].visited = 0)
<1> DEFINE a == BestAction(res)
           c == Child(res, a)
<1>1. TypeInv /\ ShapeInv /\ WorthInv /\ PathInv
  BY DEF Invariant
<1>2. phase = "search" /\ Len(res) < SequenceLength
  BY DEF Forward, Entered
<1>3. res \in Taken /\ res \in Position /\ Len(res) <= SequenceLength
      /\ Len(res) \in Nat /\ SequenceLength \in Nat
  BY <1>1, VisitsFacts, ChildFacts, MctsAssumption DEF PathInv
<1>4. a \in Action /\ a = Blind!Choice(res)
  BY <1>1, <1>3, ChoiceSame
<1> HIDE DEF a
<1>5. c \in Position \ {Root} /\ Len(c) = Len(res) + 1 /\ Len(c) <= SequenceLength
  BY <1>2, <1>3, <1>4, ChildFacts
<1>6. c \in DOMAIN tree
  BY <1>1, <1>3, <1>4 DEF ShapeInv
<1>7. tree[c].visited = 0 <=> c \notin known
  <2>1. tree[c].visited \in Nat
    BY <1>1, <1>6 DEF TypeInv, State
  <2> QED BY <1>1, <1>5, <1>6, <2>1 DEF ShapeInv
<1> QED BY <1>4, <1>5, <1>6, <1>7 DEF Turned, a

(* What is remembered of a first visit, and what is over from then on.     *)
LEMMA TakeActionFacts ==
  ASSUME TypeInv, NEW c, NEW m \in Outcomes, TakeAction(c, m)
  PROVE  /\ measured' \in [known \cup {c} -> Outcomes]
         /\ c \notin known => measured'[c] = m
         /\ \A p \in known : measured'[p] = measured[p]
         /\ over' \subseteq known \cup {c}
         /\ \A p : p # c => (p \in over' <=> p \in over)
         /\ c \in known => over' = over
         /\ c \notin known /\ res \in over => c \in over'
<1>1. measured \in [known -> Outcomes] /\ DOMAIN measured = known /\ over \subseteq known
  BY DEF TypeInv
<1>2. CASE c \in DOMAIN measured /\ UNCHANGED <<measured, over>>
  <2>1. known \cup {c} = known /\ measured' = measured /\ over' = over
    BY <1>1, <1>2
  <2> QED BY <1>1, <1>2, <2>1
<1>3. CASE /\ c \notin DOMAIN measured
           /\ measured' = [q \in DOMAIN measured \cup {c} |->
                             IF q = c THEN m ELSE measured[q]]
           /\ \/ over' = over \cup {c}
              \/ res \notin over /\ over' = over
  BY <1>1, <1>3
<1> QED BY <1>2, <1>3 DEF TakeAction

(* The file of results and the best values, after a first visit.           *)
LEMMA RecordBestKeeps ==
  ASSUME TypeInv, SavedInv, NEW c, c \notin known, strategy' = strategy,
         known' = known \cup {c}, measured' \in [known \cup {c} -> Outcomes],
         \A p \in known : measured'[p] = measured[p],
         RecordBest(c, measured'[c])
  PROVE  SavedInv' /\ best' \in [reward : Nat, mulReward : Nat]
<1> DEFINE m == measured'[c]
           area == m.delay * m.area
           better == m.delay < best.reward
           smaller == area < best.mulReward
           New(p) == measured'[p].delay * measured'[p].area
<1>1. /\ best' = [reward    |-> IF better THEN m.delay ELSE best.reward,
                  mulReward |-> IF smaller THEN area ELSE best.mulReward]
      /\ saved' = IF \/ better /\ strategy = "d_only"
                     \/ smaller /\ strategy = "amd"
                  THEN c ELSE saved
  BY DEF RecordBest
<1>2. m \in Outcomes /\ m.delay \in Nat /\ m.area \in Nat /\ m.delay < Infinity
      /\ area \in Nat /\ area < Infinity
  <2>1. m \in Outcomes
    OBVIOUS
  <2> HIDE DEF m
  <2>2. /\ m.delay \in 1 .. Infinity - 1 /\ m.area \in Nat
        /\ m.delay * m.area < Infinity
    BY <2>1, MctsAssumption
  <2>3. Infinity \in Nat
    BY SMT DEF Infinity
  <2>4. m.delay \in Nat /\ m.delay < Infinity
    BY <2>2, <2>3
  <2> QED BY <2>1, <2>2, <2>4
<1>3. /\ best.reward \in Nat /\ best.mulReward \in Nat
      /\ measured \in [known -> Outcomes]
  BY DEF TypeInv
<1> HIDE DEF area
<1>4. /\ best'.reward = IF better THEN m.delay ELSE best.reward
      /\ best'.mulReward = IF smaller THEN area ELSE best.mulReward
      /\ best' \in [reward : Nat, mulReward : Nat]
  BY <1>1, <1>2, <1>3
<1>5. \A p \in known : New(p) = Product(p)
  BY DEF Product
<1>6. New(c) = area
  BY DEF area
<1>7. /\ \A p \in known : best.reward <= measured[p].delay /\ best.mulReward <= Product(p)
      /\ known # {} => /\ \E p \in known : best.reward = measured[p].delay
                       /\ \E p \in known : best.mulReward = Product(p)
      /\ strategy = "d_only" /\ known # {} =>
           saved \in known /\ measured[saved].delay = best.reward
      /\ strategy = "amd" /\ known # {} =>
           saved \in known /\ Product(saved) = best.mulReward
      /\ saved \in known \cup {NoPosition}
      /\ known = {} => best.reward = Infinity /\ best.mulReward = Infinity
  BY DEF SavedInv, FirstVisitsBest
<1>8. \A p \in known : /\ measured[p].delay \in Int /\ Product(p) \in Int
                       /\ measured'[p].delay = measured[p].delay
  <2> SUFFICES ASSUME NEW p \in known
               PROVE  measured[p].delay \in Int /\ Product(p) \in Int
    OBVIOUS
  <2> DEFINE o == measured[p]
  <2>1. o \in Outcomes
    BY <1>3
  <2>2. Infinity \in Nat
    BY SMT DEF Infinity
  <2> HIDE DEF o
  <2>3. o.delay \in Int /\ o.area \in Int
    BY <2>1, <2>2, MctsAssumption
  <2>4. o.delay * o.area \in Int
    BY <2>3
  <2> QED BY <2>3, <2>4 DEF o, Product
<1> HIDE DEF New
<1>9. \A p \in known \cup {c} : best'.reward <= measured'[p].delay
  BY <1>2, <1>3, <1>4, <1>7, <1>8
<1>10. \A p \in known \cup {c} : best'.mulReward <= New(p)
  BY <1>2, <1>3, <1>4, <1>5, <1>6, <1>7, <1>8
<1>11. saved' \in known \cup {c} \cup {NoPosition}
  BY <1>1, <1>7
<1>12. strategy = "d_only" =>
         saved' \in known \cup {c} /\ measured'[saved'].delay = best'.reward
  BY <1>1, <1>2, <1>4, <1>7, <1>8
<1>13. strategy = "amd" =>
         saved' \in known \cup {c} /\ New(saved') = best'.mulReward
  BY <1>1, <1>2, <1>4, <1>5, <1>6, <1>7
<1>14. \E p \in known \cup {c} : best'.reward = measured'[p].delay
  BY <1>2, <1>4, <1>7, <1>8
<1>15. \E p \in known \cup {c} : best'.mulReward = New(p)
  BY <1>2, <1>4, <1>5, <1>6, <1>7
<1>16. FirstVisitsBest'
  BY <1>9, <1>10, <1>12, <1>13, <1>14, <1>15 DEF FirstVisitsBest, Product, New
<1> QED BY <1>4, <1>11, <1>16 DEF SavedInv

(* What is done to the tree.                                               *)
Grown(c, first) ==
  /\ DOMAIN tree' = DOMAIN tree \cup
                      IF first THEN {Child(c, a) : a \in Action} ELSE {}
  /\ tree' \in [DOMAIN tree' -> State]
  /\ tree'[c].Q = tree[c].Q /\ tree'[c].R = Indefinite
  /\ tree'[c].visited = tree[c].visited + 1
  /\ tree'[c].terminal <=> c \in over'
  /\ \A q \in DOMAIN tree : q # c => tree'[q] = tree[q]
  /\ \A q \in DOMAIN tree' \ DOMAIN tree : tree'[q] = NewState

(* What the step makes of the tree.                                        *)
LEMMA ForwardGrows ==
  ASSUME Invariant, Forward
  PROVE  LET c == Child(res, BestAction(res))
         IN  Grown(c, tree[c].visited = 0)
<1> DEFINE c == Child(res, BestAction(res))
           first == tree[c].visited = 0
           Reward(m) == IF first THEN m.delay ELSE Returned(m)
           made == IF first THEN WithChildren(tree, c) ELSE tree
           over2 == c \in over'
<1>1. PICK m \in Outcomes :
        tree' = [made EXCEPT ![c].terminal = over2, ![c].reward = Reward(m),
                             ![c].R = ConvertedR(tree[res].reward, Reward(m)),
                             ![c].visited = @ + 1]
  BY Zenon DEF Forward
<1> DEFINE reward == Reward(m)
           R2 == ConvertedR(tree[res].reward, reward)
           new == [made[c] EXCEPT !.terminal = over2, !.reward = reward,
                                  !.R = R2, !.visited = @ + 1]
<1>0. tree' = [made EXCEPT ![c].terminal = over2, ![c].reward = reward,
                           ![c].R = R2, ![c].visited = @ + 1]
  BY <1>1
<1>2. TypeInv /\ c \in DOMAIN tree
  BY ForwardTurns DEF Invariant, Turned
<1> HIDE DEF c
<1>3. m \in Outcomes
  BY <1>1
<1>4. reward \in Nat
  <2>1. Infinity \in Nat
    BY SMT DEF Infinity
  <2>2. m.delay \in Nat /\ m.area \in Nat
    BY <1>3, <2>1, MctsAssumption
  <2>3. m.delay * m.area \in Nat
    BY <2>2
  <2> QED BY <2>2, <2>3 DEF Returned
<1>5. NewState \in State
  BY DEF NewState, State
<1>6. /\ DOMAIN made = DOMAIN tree \cup IF first THEN {Child(c, a) : a \in Action} ELSE {}
      /\ \A q \in DOMAIN tree : made[q] = tree[q]
      /\ \A q \in DOMAIN made \ DOMAIN tree : made[q] = NewState
      /\ made \in [DOMAIN made -> State]
  <2>1. tree \in [DOMAIN tree -> State]
    BY <1>2 DEF TypeInv
  <2>2. CASE first
    BY <1>5, <2>1, <2>2 DEF WithChildren
  <2>3. CASE ~first
    BY <2>1, <2>3
  <2> QED BY <2>2, <2>3
<1>7. R2 = Indefinite /\ Indefinite \in Int /\ over2 \in BOOLEAN
  BY MctsAssumption DEF ConvertedR
<1> HIDE DEF made, reward, over2, R2
<1>8. made[c] = tree[c] /\ made[c] \in State /\ c \in DOMAIN made
  BY <1>2, <1>6
<1>9. new \in State /\ new.Q = tree[c].Q /\ new.R = Indefinite
      /\ new.visited = tree[c].visited + 1 /\ new.terminal = over2
  <2> DEFINE st == tree[c]
             n == st.visited + 1
  <2>1. st \in State /\ made[c] = st /\ st.visited \in Nat
    BY <1>8 DEF State
  <2>2. n \in Nat
    BY <2>1
  <2>3. new = [st EXCEPT !.terminal = over2, !.reward = reward, !.R = R2,
                         !.visited = n]
    BY <2>1
  <2> HIDE DEF st, n, new
  <2>4. new \in State
    BY <1>4, <1>7, <2>1, <2>2, <2>3 DEF State
  <2>5. new.Q = st.Q /\ new.R = Indefinite /\ new.visited = n
    BY <1>7, <2>1, <2>3 DEF State
  <2>6. new.terminal = over2
    BY <2>1, <2>3 DEF State
  <2> QED BY <2>4, <2>5, <2>6 DEF st, n
<1>10. tree' = [made EXCEPT ![c] = new]
  BY <1>0, <1>8
<1> HIDE DEF new, first
<1>11. /\ DOMAIN tree' = DOMAIN made /\ tree'[c] = new
       /\ \A q \in DOMAIN made : q # c => tree'[q] = made[q]
       /\ tree' \in [DOMAIN made -> State]
  BY <1>6, <1>8, <1>9, <1>10
<1>12. tree'[c].terminal <=> c \in over'
  BY <1>9, <1>11 DEF over2
<1>13. Grown(c, first)
  BY <1>2, <1>6, <1>9, <1>11, <1>12 DEF Grown
<1> QED BY <1>13 DEF c, first

(* One visit more of one child; every part of the invariant is kept.       *)
LEMMA ForwardStep ==
  ASSUME Invariant, Forward
  PROVE  Invariant' /\ Blind!Descend
<1> DEFINE c == Child(res, BestAction(res))
           first == tree[c].visited = 0
<1>1. /\ phase = "search" /\ phase' = "search" /\ Len(res) < SequenceLength
      /\ known' = IF first THEN known \cup {c} ELSE known
      /\ r' = res /\ res' = c
      /\ iteration' = iteration /\ P' = P /\ strategy' = strategy
  BY Zenon DEF Forward, Entered
<1>0. PICK m \in Outcomes :
      /\ TakeAction(c, m)
      /\ IF first THEN RecordBest(c, m) ELSE UNCHANGED <<best, saved>>
  BY Zenon DEF Forward
<1>2. Turned(c, first) /\ Grown(c, first)
  BY ForwardTurns, ForwardGrows
<1> HIDE DEF c, first
<1>3. TypeInv /\ ShapeInv /\ PathInv /\ WorthInv /\ OverInv /\ SumInv /\ SavedInv
  BY DEF Invariant
<1>4. /\ c \in Position \ {Root} /\ c \in DOMAIN tree /\ Len(c) <= SequenceLength
      /\ c = Child(res, Blind!Choice(res))
      /\ first <=> c \notin known
      /\ res \in Taken /\ res \in Position /\ Len(res) <= SequenceLength
  BY <1>2, <1>3, VisitsFacts DEF Turned, PathInv
<1>5. known' = known \cup {c} /\ Taken' = Taken \cup {c}
  BY <1>1, <1>4 DEF Taken
<1>6. \E a \in Action : c = Child(res, a) /\ a = Blind!Choice(res)
  <2>1. BestAction(res) \in Action /\ BestAction(res) = Blind!Choice(res)
    BY <1>3, <1>4, ChoiceSame
  <2> QED BY <2>1 DEF c
<1>7. /\ measured' \in [known' -> Outcomes]
      /\ \A p \in known : measured'[p] = measured[p]
      /\ over' \subseteq known'
      /\ \A p : p # c => (p \in over' <=> p \in over)
      /\ c \in known => over' = over
      /\ c \notin known /\ res \in over => c \in over'
  BY <1>0, <1>3, <1>5, TakeActionFacts
<1>8. SavedInv' /\ best' \in [reward : Nat, mulReward : Nat]
  <2>1. CASE first
    <3>1. c \notin known /\ RecordBest(c, m) /\ known' = known \cup {c}
      BY <1>0, <1>4, <1>5, <2>1
    <3>2. measured'[c] = m
      BY <1>0, <1>3, <3>1, TakeActionFacts
    <3> QED BY <1>1, <1>3, <1>7, <3>1, <3>2, <1>5, RecordBestKeeps
  <2>2. CASE ~first
    <3>1. known' = known /\ best' = best /\ saved' = saved
      BY <1>0, <1>1, <2>2
    <3>2. measured' = measured
      BY <1>3, <1>7, <3>1 DEF TypeInv
    <3> QED BY <1>1, <1>3, <3>1, <3>2 DEF SavedInv, FirstVisitsBest, Product, TypeInv
  <2> QED BY <2>1, <2>2
<1> DEFINE kids == IF first THEN {Child(c, a) : a \in Action} ELSE {}
<1>9. /\ DOMAIN tree' = DOMAIN tree \cup kids
      /\ tree' \in [DOMAIN tree' -> State]
      /\ tree'[c].Q = tree[c].Q /\ tree'[c].R = Indefinite
      /\ tree'[c].visited = tree[c].visited + 1
      /\ tree'[c].terminal <=> c \in over'
      /\ \A q \in DOMAIN tree : q # c => tree'[q] = tree[q]
      /\ \A q \in DOMAIN tree' \ DOMAIN tree : tree'[q] = NewState
  BY <1>2 DEF Grown
<1>10. TypeInv'
  BY <1>1, <1>3, <1>7, <1>8, <1>9 DEF TypeInv
<1>11. NewState.visited = 0 /\ NewState.Q = 0 /\ NewState.R = 0
  BY DEF NewState
<1>12. NewState.terminal = FALSE
  BY DEF NewState
<1>13. tree[c].visited \in Nat
  BY <1>3, <1>4 DEF TypeInv, State
<1>14. ShapeInv'
  <2>1. DOMAIN tree' \subseteq Position
    BY <1>3, <1>4, <1>9, ChildFacts DEF ShapeInv
  <2>2. Root \in DOMAIN tree' /\ Root \notin known' /\ known' \subseteq DOMAIN tree'
    BY <1>3, <1>4, <1>5, <1>9 DEF ShapeInv
  <2>3. \A p \in known' : Len(p) <= SequenceLength
    BY <1>3, <1>4, <1>5 DEF ShapeInv
  <2>4. ASSUME NEW p \in Position, NEW a \in Action
        PROVE  Child(p, a) \in DOMAIN tree' <=> p \in Taken'
    <3>1. Child(p, a) \in kids <=> first /\ p = c
      BY <1>4, ChildFacts
    <3>2. Child(p, a) \in DOMAIN tree <=> p \in Taken
      BY <1>3 DEF ShapeInv
    <3>3. ~first => c \in Taken
      BY <1>4 DEF Taken
    <3> HIDE DEF kids
    <3> QED BY <1>5, <1>9, <3>1, <3>2, <3>3
  <2>5. ASSUME NEW p \in DOMAIN tree' \ {Root}
        PROVE  p \in known' <=> tree'[p].visited > 0
    <3>1. CASE p = c
      BY <1>5, <1>9, <1>13, <3>1
    <3>2. CASE p # c /\ p \in DOMAIN tree
      BY <1>3, <1>5, <1>9, <3>2 DEF ShapeInv
    <3>3. CASE p \notin DOMAIN tree
      BY <1>3, <1>4, <1>5, <1>9, <1>11, <3>3 DEF ShapeInv
    <3> QED BY <3>1, <3>2, <3>3
  <2> QED BY <2>1, <2>2, <2>3, <2>4, <2>5 DEF ShapeInv
<1>15. PathInv'
  <2>1. res \in Taken' /\ c \in Taken'
    BY <1>4, <1>5
  <2> QED BY <1>1, <1>3, <1>6, <2>1 DEF PathInv
<1>16. WorthInv'
  <2> SUFFICES ASSUME NEW p \in DOMAIN tree'
               PROVE  tree'[p].Q = 0 /\ tree'[p].R = IF p \in known' THEN Indefinite ELSE 0
    BY DEF WorthInv
  <2>1. CASE p = c
    BY <1>3, <1>4, <1>5, <1>9, <2>1 DEF WorthInv
  <2>2. CASE p # c /\ p \in DOMAIN tree
    BY <1>3, <1>5, <1>9, <2>2 DEF WorthInv
  <2>3. CASE p \notin DOMAIN tree
    BY <1>3, <1>4, <1>5, <1>9, <1>11, <2>3 DEF ShapeInv
  <2> QED BY <2>1, <2>2, <2>3
<1>17. OverInv'
  <2>1. ASSUME NEW p \in DOMAIN tree' PROVE tree'[p].terminal <=> p \in over'
    <3>1. CASE p = c
      BY <1>9, <3>1
    <3>2. CASE p # c /\ p \in DOMAIN tree
      BY <1>3, <1>7, <1>9, <3>2 DEF OverInv
    <3>3. CASE p \notin DOMAIN tree
      <4>1. p \notin over' /\ tree'[p] = NewState
        BY <1>3, <1>4, <1>7, <1>9, <3>3 DEF TypeInv, ShapeInv
      <4> QED BY <1>12, <4>1
    <3> QED BY <3>1, <3>2, <3>3
  <2>2. ASSUME NEW p \in over', NEW a \in Action, Child(p, a) \in known'
        PROVE  Child(p, a) \in over'
    <3>1. p \in Position
      BY <1>5, <1>7, <1>10, <1>14 DEF ShapeInv
    <3>2. CASE c \in known
      BY <1>3, <1>5, <1>7, <2>2, <3>2 DEF OverInv
    <3>3. CASE c \notin known /\ Child(p, a) = c
      <4>1. p = res
        BY <1>4, <1>6, <3>1, <3>3, ChildFacts
      <4>2. res \in over
        BY <1>4, <1>7, <4>1, <1>3, <3>3 DEF Taken
      <4> QED BY <1>7, <3>3, <4>2
    <3>4. CASE c \notin known /\ Child(p, a) # c
      <4>1. Child(p, a) \in known
        BY <1>5, <2>2, <3>4
      <4>2. p \in Taken
        BY <1>3, <3>1, <4>1 DEF ShapeInv
      <4>3. p # c
        BY <1>4, <3>4, <4>2 DEF Taken
      <4>4. p \in over
        BY <1>7, <4>3
      <4> QED BY <1>3, <1>7, <3>4, <4>1, <4>4 DEF OverInv
    <3> QED BY <3>2, <3>3, <3>4
  <2> QED BY <2>1, <2>2 DEF OverInv
<1>18. Visits' = [Visits EXCEPT ![c] = @ + 1]
  <2>1. ASSUME NEW p \in Position
        PROVE  (IF p \in DOMAIN tree' THEN tree'[p].visited ELSE 0) =
                 IF p = c THEN Visits[c] + 1 ELSE Visits[p]
    <3>1. CASE p = c
      BY <1>4, <1>9, <3>1 DEF Visits
    <3>2. CASE p # c /\ p \in DOMAIN tree
      BY <1>9, <3>2 DEF Visits
    <3>3. CASE p # c /\ p \notin DOMAIN tree
      BY <1>9, <1>11, <3>3 DEF Visits
    <3> QED BY <3>1, <3>2, <3>3
  <2>2. Visits' = [p \in Position |-> IF p = c THEN Visits[c] + 1 ELSE Visits[p]]
    BY <2>1 DEF Visits
  <2>3. Visits = [p \in Position |-> Visits[p]]
    BY DEF Visits
  <2> QED BY <1>4, <2>2, <2>3
<1>19. SumInv'
  <2>1. /\ Visits \in [Position -> Nat] /\ Visits' \in [Position -> Nat]
        /\ Visits[c] = tree[c].visited /\ Visits'[c] = Visits[c] + 1
        /\ \A p \in Position : p # c => Visits'[p] = Visits[p]
    BY <1>3, <1>4, <1>10, <1>14, <1>18, VisitsFacts
  <2>2. \A q \in Position : Len(q) <= SequenceLength =>
          Below(Visits', q) = Below(Visits, q) + IF q = res THEN 1 ELSE 0
    <3> SUFFICES ASSUME NEW q \in Position, Len(q) <= SequenceLength
                 PROVE  Below(Visits', q) = Below(Visits, q) + IF q = res THEN 1 ELSE 0
      OBVIOUS
    <3>1. PICK a \in Action : c = Child(res, a)
      BY <1>6
    <3>2. Below([Visits EXCEPT ![Child(res, a)] = @ + 1], q) =
            Below(Visits, q) + IF q = res THEN 1 ELSE 0
      <4>1. ASSUME NEW p \in Position, Len(p) <= SequenceLength
            PROVE  Below([Visits EXCEPT ![Child(p, a)] = @ + 1], q) =
                     Below(Visits, q) + IF q = p THEN 1 ELSE 0
        <5>1. Visits \in [Position -> Nat]
          BY <2>1
        <5> HIDE DEF Visits
        <5> QED BY ONLY <4>1, <5>1, BelowShift, a \in Action, q \in Position,
                        Len(q) <= SequenceLength
      <4>2. res \in Position /\ Len(res) <= SequenceLength
        BY <1>4
      <4> QED BY ONLY <4>1, <4>2
    <3> HIDE DEF c
    <3> QED BY <1>18, <3>1, <3>2
  <2>3. \A q \in Taken : q \in Position /\ Len(q) <= SequenceLength
                           /\ Below(Visits, q) \in Nat
    BY <1>3, VisitsFacts
  <2>4. c # res
    BY <1>4, <1>6, ChildFacts
  <2>5. \A p \in known : Len(p) < SequenceLength /\ p \notin over =>
          Visits[p] = Below(Visits, p) + At(p)
    BY <1>3 DEF SumInv
  <2>6. ASSUME NEW p \in known', Len(p) < SequenceLength, p \notin over'
        PROVE  Visits'[p] = Below(Visits', p) + At(p)'
    <3>1. CASE p = c /\ c \notin known
      <4>1. Visits[c] = 0
        BY <1>3, <1>4, <2>1, <3>1, VisitsFacts
      <4>2. \A a \in Action : Visits[Child(c, a)] = 0
        <5> SUFFICES ASSUME NEW a \in Action PROVE Visits[Child(c, a)] = 0
          OBVIOUS
        <5>1. Child(c, a) \in Position /\ Child(c, a) \notin DOMAIN tree
          BY <1>3, <1>4, <3>1, ChildFacts DEF ShapeInv, Taken
        <5> QED BY <5>1 DEF Visits
      <4>3. Below(Visits, c) = 0
        BY <1>4, <2>1, <4>2, BelowZero
      <4>4. Below(Visits', c) = 0
        BY <1>4, <2>2, <2>4, <4>3
      <4>5. At(p)' = 1
        BY <1>1, <3>1 DEF At
      <4> QED BY <2>1, <3>1, <4>1, <4>4, <4>5
    <3>2. CASE p = c /\ c \in known
      <4>1. At(p) = 0 /\ At(p)' = 1
        <5>1. p # res
          BY <2>4, <3>2
        <5>2. phase' = "search" /\ p = res'
          BY <1>1, <3>2
        <5> QED BY <5>1, <5>2 DEF At
      <4>2. p \notin over
        BY <1>7, <2>6, <3>2
      <4>3. Visits[c] = Below(Visits, c) /\ Below(Visits', c) = Below(Visits, c)
        BY <1>4, <2>2, <2>3, <2>4, <2>5, <2>6, <3>2, <4>1, <4>2 DEF Taken
      <4> QED BY <2>1, <3>2, <4>1, <4>3
    <3>3. CASE p # c
      <4>1. p \in known /\ p \notin over /\ p \in Taken /\ p \in Position
        BY <1>5, <1>7, <2>3, <2>6, <3>3 DEF Taken
      <4>2. At(p)' = 0 /\ At(p) = IF p = res THEN 1 ELSE 0
        BY <1>1, <3>3 DEF At
      <4>3. Below(Visits', p) = Below(Visits, p) + IF p = res THEN 1 ELSE 0
        BY <2>2, <2>3, <4>1
      <4>4. Visits'[p] = Visits[p] /\ Visits[p] = Below(Visits, p) + At(p)
        BY <2>1, <2>5, <2>6, <3>3, <4>1
      <4>5. Below(Visits', p) \in Nat
        BY <2>3, <4>1, <4>3
      <4> HIDE DEF At
      <4> QED BY <4>2, <4>3, <4>4, <4>5
    <3> QED BY <3>1, <3>2, <3>3
  <2>7. Visits'[Root] = 1 + iteration + Started'
    BY <1>1, <1>3, <1>4, <2>1, ChildFacts DEF SumInv, Started
  <2>8. Below(Visits', Root) <= iteration + Moved'
    <3>1. Root \in Taken /\ iteration \in Nat
      BY <1>3 DEF Taken, TypeInv
    <3>2. Moved' = 1 /\ Moved = IF res = Root THEN 0 ELSE 1
      BY <1>1, <1>4 DEF Moved
    <3>3. Below(Visits', Root) = Below(Visits, Root) + IF res = Root THEN 1 ELSE 0
      BY <2>2, <2>3, <3>1
    <3>4. Below(Visits, Root) <= iteration + Moved
      BY <1>3 DEF SumInv
    <3> HIDE DEF Moved
    <3> QED BY <2>3, <3>1, <3>2, <3>3, <3>4
  <2> QED BY <1>1, <2>6, <2>7, <2>8 DEF SumInv
<1>20. Blind!Descend
  BY <1>1, <1>4, <1>18 DEF Blind!Descend, Blind!Child, Child
<1> QED BY <1>8, <1>10, <1>14, <1>15, <1>16, <1>17, <1>19, <1>20 DEF Invariant

-----------------------------------------------------------------------------
(***************************************************************************)
(* The theorems.                                                           *)
(***************************************************************************)
LEMMA InvariantStep ==
  ASSUME Invariant, [Next]_vars
  PROVE  Invariant' /\ [Blind!Next]_(Blind!vars)
<1>1. CASE StartIteration
  BY <1>1, StartIterationStep DEF Blind!Next
<1>2. CASE Forward
  BY <1>2, ForwardStep DEF Blind!Next
<1>3. CASE LeaveLoop
  BY <1>3, LeaveLoopStep DEF Blind!Next
<1>4. CASE Backpropagate
  BY <1>4, BackpropagateStep
<1>5. CASE EndIteration \/ EndSearch \/ ReadsGarbage
  BY <1>5, EndStep
<1>6. CASE UNCHANGED vars
  <2>1. /\ UNCHANGED <<tree, known, P, mapper>> /\ phase' = phase /\ P' = P
        /\ iteration' = iteration /\ res' = res /\ r' = r
        /\ known' = known /\ over' = over
    BY <1>6 DEF vars, mapper
  <2>2. TypeInv /\ PathInv /\ SumInv
    BY DEF Invariant
  <2>3. /\ TypeInv' /\ ShapeInv' /\ WorthInv' /\ OverInv' /\ SavedInv'
        /\ Visits' = Visits /\ Taken' = Taken
    BY <2>1, <2>2, TreeUntouched DEF TypeInv
  <2>4. PathInv'
    BY <2>1, <2>2, <2>3 DEF PathInv
  <2>5. SumInv'
    BY <2>1, <2>2, <2>3 DEF SumInv, At, Started, Moved
  <2>6. UNCHANGED Blind!vars
    BY <2>1, <2>3 DEF Blind!vars
  <2> QED BY <2>3, <2>4, <2>5, <2>6 DEF Invariant
<1> QED BY <1>1, <1>2, <1>3, <1>4, <1>5, <1>6 DEF Next

(* ... so that it holds in every state.                                     *)
LEMMA InvariantHolds == Spec => []Invariant
<1>1. Init => Invariant
  BY InvariantInit
<1>2. Invariant /\ [Next]_vars => Invariant'
  BY InvariantStep
<1> QED BY <1>1, <1>2, PTL DEF Spec

(* Every variable keeps its type: no position is deeper than the limit, and *)
(* what is known, measured and over are positions of the tree.             *)
THEOREM TypeCorrect == Spec => []TypeOK
<1>1. Invariant => TypeOK
  BY DEF Invariant, TypeInv, ShapeInv, PathInv, SavedInv, Taken, TypeOK
<1> QED BY <1>1, InvariantHolds, PTL

(* forward never finds a state it counts as unvisited in its table.        *)
THEOREM NothingThrown == Spec => []NeverThrows
<1>1. Invariant => NeverThrows
  BY DEF Invariant, ShapeInv, NeverThrows, Throws
<1> QED BY <1>1, InvariantHolds, PTL

(* Between iterations the visits of a position are those of its children,  *)
(* unless descents may end there.                                          *)
THEOREM VisitsBalance == Spec => []VisitsAddUp
<1>1. Invariant => VisitsAddUp
  <2> SUFFICES ASSUME Invariant, phase \in {"between", "done"} PROVE
               /\ \A p \in known : Len(p) < SequenceLength /\ p \notin over =>
                    Visits[p] = Below(Visits, p)
               /\ Visits[Root] = 1 + iteration
               /\ Below(Visits, Root) <= iteration
    BY DEF VisitsAddUp
  <2>1. TypeInv /\ ShapeInv /\ SumInv
    BY DEF Invariant
  <2>2. Started = 0 /\ Moved = 0 /\ \A p \in known : At(p) = 0
    BY DEF Started, Moved, At
  <2>3. iteration \in Nat /\ \A p \in known : Below(Visits, p) \in Nat
    BY <2>1, VisitsFacts DEF TypeInv, Taken
  <2> HIDE DEF Started, Moved, At
  <2> QED BY <2>1, <2>2, <2>3 DEF SumInv
<1> QED BY <1>1, InvariantHolds, PTL

(* The best values are the least that first visits measured, whatever later *)
(* visits measure, and the netlist that was saved has such a value.        *)
THEOREM BestIsSaved == Spec => []FirstVisitsBest
<1>1. Invariant => FirstVisitsBest
  BY DEF Invariant, SavedInv
<1> QED BY <1>1, InvariantHolds, PTL

(* What the mapper answers has no influence on where the search goes: it   *)
(* implements the search that hears of no reward.                          *)
THEOREM SearchIsBlind == Spec => BlindToRewards
<1>1. Init => Blind!Init
  BY InvariantInit
<1>2. Invariant /\ [Next]_vars => [Blind!Next]_(Blind!vars)
  BY InvariantStep
<1> QED BY <1>1, <1>2, InvariantHolds, PTL DEF Spec, BlindToRewards, Blind!Spec
=============================================================================
