----------------------------- MODULE MctsSearch -----------------------------
(***************************************************************************)
(* The Monte Carlo tree search of the command imap (MCTS_impl), and what   *)
(* it asks of the incremental mapper.  A State of the code is a position;  *)
(* the string that names it spells the actions that lead to it.            *)
(*                                                                         *)
(* The mapper answers each action with the delay and area of a netlist.    *)
(* They need not be those of an earlier visit of the position: reinit does *)
(* not reset the mapper's own iteration, which weighs the references that  *)
(* decide between matches of the same arrival.  Whether every gate is set  *)
(* depends on the sequence of actions alone, since reinit clears the flags *)
(* and fills the queues again, and stays so until reinit.                  *)
(*                                                                         *)
(* The local variable baseline of initialize_MCTS hides the member of that *)
(* name, which stays 0.0.  So get_R divides by zero, and converting its    *)
(* infinite or undefined result to int gives whatever the processor makes  *)
(* of it: the constant Indefinite, INT_MIN on x86-64.  Against a value of  *)
(* that size U counts only between children that are equal otherwise.      *)
(*                                                                         *)
(* iter reads the pointer r before it is assigned: the first test of the   *)
(* loop may go either way, or end the process.                             *)
(***************************************************************************)
EXTENDS Integers, Sequences, SequencesExt, FiniteSets

CONSTANTS
  ActionSize,        \* action_size
  SequenceLength,    \* sequence_length
  SearchIteration,   \* search_iteration
  Noises,            \* the functions that may give each position its P
  Outcomes,          \* what a netlist may measure: records [delay, area]
  Strategies,        \* values of ps.strategy: def, d_only, amd
  Indefinite         \* the int a NaN or an infinity is converted to

Search == INSTANCE VisitCountSearch WITH
            visits <- 0, P <- 0, at <- 0, walking <- 0

Action   == 0 .. ActionSize - 1
Position == BoundedSeq(Action, SequenceLength + 1)
Root     == <<>>
Child(p, a) == Append(p, a)

(* numeric_limits<double>::max(), which no netlist measures.                *)
Infinity == 1000000

ASSUME MctsAssumption ==
  /\ ActionSize \in Nat \ {0}
  /\ SequenceLength \in Nat
  /\ SearchIteration \in Nat
  /\ \A f \in Noises : f \in [Position -> Nat \ {0}]
  /\ \A o \in Outcomes : /\ o.delay \in 1 .. Infinity - 1
                          /\ o.area \in Nat \ {0}
                          /\ o.delay * o.area < Infinity
  /\ Strategies \subseteq {"def", "d_only", "amd"}
  /\ Indefinite \in Int /\ Indefinite < 0

VARIABLES
  phase,      \* between, search, back, done or ended (the process died)
  iteration,  \* finished calls of iter
  res, r,     \* the pointers of iter; r may hold no position yet
  tree,       \* the States, as far as init_node has made them
  known,      \* the positions in state_ntk
  P,          \* P of every State
  measured,   \* history: what each position measured at its first visit
  over,       \* the positions after which imple.terminal() holds
  strategy,   \* ps.strategy
  best,       \* best_reward and best_mulReward
  saved       \* the position whose netlist is in the file of results

vars == <<phase, iteration, res, r, tree, known, P, measured, over, strategy,
          best, saved>>

mapper == <<measured, over, strategy, best, saved>>

NoPosition == <<-1>>

NewState == [Q |-> 0, R |-> 0, reward |-> 0, visited |-> 0, terminal |-> FALSE]

(* init_node gives p its children.                                          *)
WithChildren(t, p) ==
  [q \in DOMAIN t \cup {Child(p, a) : a \in Action} |->
     IF q \in DOMAIN t THEN t[q] ELSE NewState]

Init ==
  /\ phase = "between"
  /\ iteration = 0
  /\ res = Root
  /\ r = NoPosition
  /\ tree = WithChildren([q \in {Root} |-> [NewState EXCEPT !.visited = 1]], Root)
  /\ known = {}
  /\ P \in Noises
  /\ measured = <<>>
  /\ over = {}
  /\ strategy \in Strategies
  /\ best = [reward |-> Infinity, mulReward |-> Infinity]
  /\ saved = NoPosition

-----------------------------------------------------------------------------
(***************************************************************************)
(* bestAction: the first child with the greatest R + Q + U.                *)
(***************************************************************************)
Worth(p) == tree[p].R + tree[p].Q

(* How often each position was entered.                                     *)
Visits ==
  [p \in Position |-> IF p \in DOMAIN tree THEN tree[p].visited ELSE 0]

U(p, a) == Search!Exploration(Visits, P, p, a)

Better(p, a, b) ==
  \/ Worth(Child(p, a)) > Worth(Child(p, b))
  \/ Worth(Child(p, a)) = Worth(Child(p, b)) /\ U(p, a) > U(p, b)

BestAction(p) ==
  LET top == {a \in Action : \A b \in Action : ~Better(p, b, a)}
  IN  CHOOSE a \in top : \A b \in top : a <= b

ConvertedR_BaselineSet(father, child) == 10 * (father - child)

(* get_R, converted to the int R of a State.                                *)
ConvertedR(father, child) == Indefinite

(* What take_action returns.                                                *)
Returned(m) == IF strategy = "amd" THEN m.delay * m.area ELSE m.delay

StartIteration_RootNotCounted ==
  /\ phase = "between"
  /\ iteration < SearchIteration
  /\ phase' = "search"
  /\ res' = Root
  /\ r' = NoPosition
  /\ UNCHANGED <<iteration, tree, known, P, mapper>>

StartIteration_NewTree ==
  /\ phase = "between"
  /\ iteration < SearchIteration
  /\ phase' = "search"
  /\ tree' = WithChildren([q \in {Root} |-> [NewState EXCEPT !.visited = iteration + 2]], Root)
  /\ res' = Root
  /\ r' = NoPosition
  /\ UNCHANGED <<iteration, known, P, mapper>>

(***************************************************************************)
(* run: the root is visited once more, and iter resets the mapper but for  *)
(* the first time.                                                         *)
(***************************************************************************)
StartIteration ==
  /\ phase = "between"
  /\ iteration < SearchIteration
  /\ phase' = "search"
  /\ tree' = [tree EXCEPT ![Root].visited = @ + 1]
  /\ res' = Root
  /\ r' = NoPosition
  /\ UNCHANGED <<iteration, known, P, mapper>>

Entered_OneDeeper ==
  (r \in DOMAIN tree => ~tree[r].terminal) /\ Len(res) <= SequenceLength

(* The while loop of iter; i is Len(res).                                   *)
Entered == (r \in DOMAIN tree => ~tree[r].terminal) /\ Len(res) < SequenceLength

Left == (r \in DOMAIN tree => tree[r].terminal) \/ Len(res) >= SequenceLength

(***************************************************************************)
(* The mapper takes the action that leads to position c and measures m.    *)
(***************************************************************************)
TakeAction(c, m) ==
  \/ /\ c \in DOMAIN measured
     /\ UNCHANGED <<measured, over>>
  \/ /\ c \notin DOMAIN measured
     /\ measured' = [q \in DOMAIN measured \cup {c} |->
                       IF q = c THEN m ELSE measured[q]]
     /\ \/ over' = over \cup {c}
        \/ res \notin over /\ over' = over

RecordBest_RewardReturned(c, m) ==
  LET better == Returned(m) < best.reward
      smaller == m.delay * m.area < best.mulReward
  IN  /\ best' = [reward    |-> IF better THEN Returned(m) ELSE best.reward,
                  mulReward |-> IF smaller THEN m.delay * m.area ELSE best.mulReward]
      /\ saved' = IF better THEN c ELSE saved

(* Only the netlist of a first visit can become the best one.               *)
RecordBest(c, m) ==
  LET product == m.delay * m.area
      better  == m.delay < best.reward
      smaller == product < best.mulReward
  IN  /\ best' = [reward    |-> IF better THEN m.delay ELSE best.reward,
                  mulReward |-> IF smaller THEN product ELSE best.mulReward]
      /\ saved' = IF \/ better /\ strategy = "d_only"
                     \/ smaller /\ strategy = "amd"
                  THEN c ELSE saved

(* forward throws out_of_range, which nobody catches, when a state it takes  *)
(* to be new is in the table.                                               *)
Throws ==
  LET c == Child(res, BestAction(res))
  IN  phase = "search" /\ Entered /\ tree[c].visited = 0 /\ c \in known

Forward ==
  LET c     == Child(res, BestAction(res))
      first == tree[c].visited = 0
  IN  /\ phase = "search"
      /\ Entered
      /\ ~Throws
      /\ \E m \in Outcomes :
           LET reward == IF first THEN m.delay ELSE Returned(m)
               made   == IF first THEN WithChildren(tree, c) ELSE tree
           IN  /\ TakeAction(c, m)
               /\ tree' = [made EXCEPT
                    ![c].terminal = c \in over',
                    ![c].reward   = reward,
                    ![c].R        = ConvertedR(tree[res].reward, reward),
                    ![c].visited  = @ + 1]
               /\ IF first THEN RecordBest(c, m) ELSE UNCHANGED <<best, saved>>
      /\ known' = IF first THEN known \cup {c} ELSE known
      /\ r' = res
      /\ res' = c
      /\ UNCHANGED <<phase, iteration, P, strategy>>

(* Reading r before it has a value may also crash.                          *)
ReadsGarbage ==
  /\ phase = "search"
  /\ r = NoPosition
  /\ phase' = "ended"
  /\ UNCHANGED <<iteration, res, r, tree, known, P, mapper>>

LeaveLoop ==
  /\ phase = "search"
  /\ Left
  /\ phase' = "back"
  /\ UNCHANGED <<iteration, res, r, tree, known, P, mapper>>

(***************************************************************************)
(* backpropagate, with lambda = 0.4                                        *)
(***************************************************************************)
Backpropagate ==
  LET father == Front(res)
      given  == (2 * Worth(res)) \div 5
  IN  /\ phase = "back"
      /\ res # Root
      /\ tree' = IF given > tree[father].Q
                   THEN [tree EXCEPT ![father].Q = given] ELSE tree
      /\ res' = father
      /\ UNCHANGED <<phase, iteration, r, known, P, mapper>>

EndIteration ==
  /\ phase = "back"
  /\ res = Root
  /\ iteration' = iteration + 1
  /\ phase' = "between"
  /\ UNCHANGED <<res, r, tree, known, P, mapper>>

EndSearch ==
  /\ phase = "between"
  /\ iteration = SearchIteration
  /\ phase' = "done"
  /\ UNCHANGED <<iteration, res, r, tree, known, P, mapper>>

Next ==
  \/ StartIteration \/ Forward \/ ReadsGarbage \/ LeaveLoop
  \/ Backpropagate \/ EndIteration \/ EndSearch

Spec == Init /\ [][Next]_vars

-----------------------------------------------------------------------------
TypeOK ==
  /\ phase \in {"between", "search", "back", "done", "ended"}
  /\ iteration \in 0 .. SearchIteration
  /\ res \in DOMAIN tree
  /\ r \in DOMAIN tree \cup {NoPosition}
  /\ DOMAIN tree \subseteq Position
  /\ known \subseteq DOMAIN tree
  /\ over \subseteq known
  /\ DOMAIN measured = known
  /\ saved \in known \cup {NoPosition}

(***************************************************************************)
(* The rewards do not matter: the search goes where one goes that counts   *)
(* its visits and nothing else.                                            *)
(***************************************************************************)
Blind == INSTANCE VisitCountSearch WITH
  visits  <- Visits,
  at      <- IF phase = "search" THEN res ELSE Root,
  walking <- phase \in {"search", "ended"}

BlindToRewards == Blind!Spec

(***************************************************************************)
(* The search never finds a state that it counts as unvisited in the table *)
(* of those it has visited, so that forward does not throw.                *)
(***************************************************************************)
NeverThrows == ~Throws

(* The sum of count over the children of p.                                 *)
Below(count, p) ==
  FoldLeft(LAMBDA n, a : n + count[Child(p, a)], 0,
           [i \in 1 .. ActionSize |-> i - 1])

(***************************************************************************)
(* Each visit of a position is one of its parent: what a position was      *)
(* entered more often than its children are the descents that ended there, *)
(* and no descent ends above the depth limit but at or one below a state   *)
(* the mapper called terminal, or at the root, when r was garbage.         *)
(***************************************************************************)
VisitsAddUp ==
  LET Inside == {p \in known : Len(p) < SequenceLength /\ p \notin over}
  IN  phase \in {"between", "done"} =>
        /\ \A p \in Inside : Visits[p] = Below(Visits, p)
        /\ Visits[Root] = 1 + iteration
        /\ Below(Visits, Root) <= iteration

(***************************************************************************)
(* In whatever order positions are visited, and whatever they measure when *)
(* they are visited again, the best values are the least that any position *)
(* measured at its first visit, and the file holds the netlist of such a   *)
(* visit.                                                                  *)
(***************************************************************************)
Product(p) == measured[p].delay * measured[p].area

FirstVisitsBest ==
  known # {} =>
    /\ \A p \in known : best.reward <= measured[p].delay
    /\ \A p \in known : best.mulReward <= Product(p)
    /\ \E p \in known : best.reward = measured[p].delay
    /\ \E p \in known : best.mulReward = Product(p)
    /\ strategy = "d_only" => saved \in known /\ measured[saved].delay = best.reward
    /\ strategy = "amd" => saved \in known /\ Product(saved) = best.mulReward

=============================================================================
