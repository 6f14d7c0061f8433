# Verification of phyLS in TLA+

phyLS is a logic synthesis shell: commands read Boolean networks, optimise,
map, convert and simulate them. It is one process; every command runs to its
end before the next one is read, and one command (`elm`) starts threads. This
directory holds TLA+ modules translated from the C++ under `src/src`, the TLC
configurations that check them on small instances, and proofs checked by TLAPS.
`PROJECT.json` lists the components, the runs, the lines each definition
translates, the disagreements found and the hazards.

Paths below are relative to `src/src` unless they start with `lib/`.

## 1. The system

### 1.1 Components, their state and their operations

| component | code | state | operations | status |
|---|---|---|---|---|
| shell and stores | `phyLS.cpp`, `store.hpp`, `commands/`, `lib/alice/include/alice/store.hpp` | one store per type of network: `_data`, `_current` | about 60 commands; `store --pop/--clear`, `current` | partly: `NetworkStores`, `LogicCommands`, `Shell` |
| ABC bridge | `core/abc.hpp`, `core/abc_api.hpp`, `core/abc_gia.hpp`, `core/abc2mockturtle.hpp`, `commands/abc`, `commands/convert` | the global name tables `pi_names`, `po_names`; the frame of ABC with its library | the `a*` and `&*` commands, `convert`, `read_genlib` | partly: `AbcCommands` |
| exact LUT mapping | `core/exact/exact_lut_mapping.hpp`, `core/flow_detail.hpp`, `commands/exact/exactlut.hpp` | `threads`, `futures`, `t_num`, the cache `exact_lut_results`, one `mgr` per visit | `run`, `run_mix`, `run_dec` | partly: `ExactLutMapping` |
| STP LUT simulator | `core/simulator/{lut_parser,circuit_graph,simulator}` | lines, gates, levels, flags, simulation words | parse, level, cut, simulate, print tables | modelled: `CircuitGraph`, `LutSimulator` |
| STP vectors | `core/simulator/stp_vector.hpp` | a chain of logic matrices and the ranks of its variables | swap, Kronecker and semi-tensor product, `normalize_matrix` | modelled: `StpVector` |
| STP functional reduction | `core/stp_functional_reduction.hpp`, with `aig.hpp` and `fanout_view.hpp` of mockturtle | patterns and signatures, candidate classes, the network with its hash table, counters and fanout lists | simulate, ask the solver, substitute, refine | modelled: `AigNetwork`, `StpReduction` |
| technology mapping with MCTS | `core/MCTS.hpp`, `core/mapper_MCTS.hpp` | the search tree with visits and rewards, the table of states, the best netlist | select, expand, measure, back-propagate | partly: `VisitCountSearch`, `MctsSearch`; the mapper is floating point |
| DSD decomposition | `core/decomp_func.hpp`, `core/flow_detail.hpp`, kitty's `decomposition.hpp` | remainder, support, signals, the calls that wait | recursive decomposition, copy into the LUT network | modelled: `DsdDecomposition` |
| optimum-function store | `commands/load.hpp`, `commands/exprsim.hpp`, `commands/exact` | the `opt` store | `load`, `exprsim`, `exact*`, `create_graph` | not modelled |
| command options | `lib/alice/include/alice/command.hpp` | variables bound to options, which survive a command | every command with options | not modelled |
| STP SAT solver | `core/stp_sat.hpp` | clauses as matrices | multiply clauses out | not modelled |
| LUT rewriting | `core/exact/lut_rewriting.hpp` | best realisation per cut, network | choose by cost, substitute | not modelled |
| exact synthesis engine | `core/exact/exact_lut.hpp`, `exact_dag.hpp` | fences, DAGs, tables | enumerate and solve | not modelled; a search over large tables |
| XAG and XMG rewriting, multiplicative complexity | `core/xag_rewriting.hpp`, `xmg_rewriting.hpp`, `xmginv.hpp`, `rm.hpp`, ... | the network | local rules | not modelled |
| placement-aware mapping, LUT mapper, resynthesis tables, statistics | `core/phymap.hpp`, `mapper_RUDY.hpp`, `lut_mapper.hpp`, `networks/`, `ps2.hpp` | floats, tables, reports | | not modelled, see section 7 |
| vendored libraries | `lib/` | | | only as `src/src` uses them |

### 1.2 How they interact

* Every command takes the current element of a store and, if it makes
  something new, calls `extend()` and assigns `current()`. An element is a
  *handle*: mockturtle networks are shared pointers, ABC networks and GIAs raw
  pointers. A copied element is a copied handle; what is optimised through the
  copy is the network the store still holds.
* The conversions between mockturtle and ABC go through global tables of the
  names of inputs and outputs, filled by one of them and read by five.
* `elm` calls the mapper on the current k-LUT network; the mapper starts one
  thread per synthesis, and communicates with it through an object in a stack
  frame and a future.
* The mapper hands the LUTs it cannot or may not synthesise to `dsd_impl`,
  which builds a network of its own; `run_dec` copies that network's gates into
  the LUT network by their numbers.
* `stpfr` reads a file of equivalence classes and one of patterns, and rewrites
  the network behind the current element, a gate at a time, while its loops
  walk through that network and through the classes.
* `imap` drives the incremental mapper with the actions a tree search chooses;
  the mapper answers with the delay and area of a netlist and writes the
  netlists to files when the search says so.
* `simulator` parses a file of its own, and shares nothing with the stores.
  Within it, the gate simulation hands matrix chains to `normalize_matrix`.

### 1.3 What is hard here

* *Threads that outlive the frame they write to* (`exact_lut_mapping.hpp:127`),
  a 100 ms wait racing the end of a search, a thread index counted separately
  from the threads, and a cache filled by a second read of a shared object.
* *Aliasing through handles* over long sequences of legal commands: what a
  command keeps as "the original" is rewritten by the command; two elements
  might stand for one network; a stale element of another store is taken for
  the origin of this one.
* *Engines that fail half way*: an ABC network rewritten in place before it is
  known whether the rewriting succeeds; NULL pushed as an element.
* *Flags read while they are set* in the simulator's tree cutting, levels and
  indices for lines that nothing drives or that reach no output, and tables
  indexed by line number where rank is meant.
* *Loops whose position stands still in some cases* while the sequence they
  walk changes its length (`normalize_matrix`).

* *Members that every call of a recursion overwrites* (`dsd_impl`), restored by
  hand between the halves of a split, and a support erased from while it is
  iterated over.
* *Substitution while walking*: merging a gate may make others equal, trivial
  or dead, a gate may be substituted by one that died on the way, and a
  counter-example replaces the map of classes that is being iterated over.
* *A search that divides by a member its initialisation hides*, and reads a
  pointer before it is assigned.

`PROJECT.json` lists each hazard at its line with the properties that watch it;
those without a property say why.

### 1.4 What makes each component correct

* Mapper: every LUT that is too wide is replaced once, by a network that
  computes its function, and none is left; no thread is forgotten; it returns
  without relying on the searches.
* Simulator: a gate is simulated after its operands, only unshared logic is
  multiplied out, trees stay narrow, and the values and tables are those of
  the file.
* STP vectors: the normal form is the function of the tree.
* Shell: a store that is not empty has a current element, elements do not share
  networks, commands change the element they were given and no other, and what
  a command says of its result is true.
* Functional reduction: whatever the solver answers, every gate keeps its
  function through every turn of a substitution; no gate becomes part of its own
  cone; a counter-example separates what was asked about; the hash table and the fanout lists find only what is there, and with the
  counters say all that the fanins say, but for the case of section 4; the pass
  ends.
* Decomposition: what is built, what is left and what the waiting calls will
  add make up the function; what is copied back is the LUT; it ends.
* Tree search: states are entered in the table once, visits add up, the file
  holds the best of the netlists that were measured at first visits.

## 2. Modules

| module | models | extends / instantiates |
|---|---|---|
| `LutMapping` | what a mapper promises: each wide LUT replaced once, by its own function | |
| `ExactLutMapping` | `exact_lut_mapping_manager` | instantiates `LutMapping` |
| `ExactLutMappingProofs` | its theorems | `ExactLutMapping` |
| `MCExactLutMapping` | a network of seven nodes | `ExactLutMapping` |
| `CircuitGraph` | BENCH parser, lines and gates, `compute_node_depth` | |
| `LutSimulator` | stimuli, `get_need_nodes`, `cut_tree`, `single_node_sim`, the tables | `CircuitGraph`, `Sublists` |
| `LutSimulatorProofs` | its theorems | `LutSimulator`, `FoldLemmas` |
| `MCLutSimulator` | BENCH files | `LutSimulator` |
| `StpVector` | logic matrices and `normalize_matrix` | |
| `StpVectorProofs` | its theorems | `StpVector`, `FoldLemmas` |
| `MCStpVector` | matrix chains | `StpVector` |
| `NetworkStores` | the stores, the networks behind the handles, and the effects commands are made of | |
| `LogicCommands` | commands on AIG, MIG, XMG, XAG and k-LUT stores | `NetworkStores` |
| `AbcCommands` | commands on ABC networks and GIAs, `convert` | `NetworkStores` |
| `AigNetwork` | an AIG as it is stored, and what `substitute_node` is made of | |
| `StpReduction` | `stp_functional_reduction_impl` and the loop of `fanout_view::substitute_node` | `AigNetwork` |
| `StpReductionProofs` | its theorems | `StpReduction`, `FoldLemmas` |
| `MCStpReduction` | six networks with class files and patterns | `StpReduction` |
| `VisitCountSearch` | a tree search that counts visits and never hears of a reward | |
| `MctsSearch` | `MCTS_impl` and what it asks of the mapper | instantiates `VisitCountSearch` |
| `MctsSearchProofs` | its theorems | `MctsSearch`, `FoldLemmas` |
| `MCMctsSearch` | answers of the mapper and weights | `MctsSearch` |
| `DsdDecomposition` | `dsd_impl`, the tests on truth tables, the copy by `run_dec` | |
| `DsdDecompositionProofs` | its theorems | `DsdDecomposition`, `FoldLemmas` |
| `MCDsdDecomposition` | LUTs of five to seven inputs | `DsdDecomposition` |
| `Shell` | all commands, in any order | `LogicCommands`, `AbcCommands` |
| `ShellProofs` | its theorems | `Shell` |
| `MCShell` | designs and selections of stores | `Shell` |
| `Sublists` | the elements of a sequence that are in a set, in order | |
| `FoldLemmas` | what proofs need of folds and recursive functions | `Sublists` |

### 2.1 ExactLutMapping

`n` is the node `foreach_node` is at, `result` is `mgr.exact_lut_result` of the
current visit, `copied` the node, inputs and truth tables read from it, `cache`
is `exact_lut_results`, `threads` the two vectors `threads` and `futures` (which
grow together), `tNum` is `t_num`, and `repl` says what stands for each node. A
visit is one step (`Skip`, `UseCached`, `Decompose`), or several when a search
is involved: `Start`, then `Join` or `Timeout`, then `CopyResult` and
`StoreResult`, which are two steps because `mgr` is read twice. `Finish(t)` is
the only step of a thread: the assignment that ends its search. If the frame it
was started from is gone this is undefined behaviour; `FreedWrite` names the
outcomes considered: the write is lost, or it lands in the `mgr` of a later
visit, whose frame is at the same address. Searches and decompositions are
reduced to the function they compute and the widest LUT they use.

### 2.2 CircuitGraph and LutSimulator

A file is a sequence of statements. `Parse` reads one at a time, as
`lut_parser` does; lines exist once they are mentioned, `source` and the gates
that read a line are set statement by statement. `compute_node_depth` is
recursive: `CallNothing`, `Call` and `ReturnFrom` are its calls and returns, with
the gates it has been called for as a variable. `LutSimulator` follows with the
stimuli, the marking of gates (`Mark`, `CutNext`, `CutStep` are the loops of `get_need_nodes` and
`cut_tree`), and one gate at a time, `single_node_sim`: `TakeLeaf` and
`TakeGate` walk the tree as `get_node_matrix` does, `MultiplyOut` computes a LUT
of the chain from its end and `SetSimInfo` reads the value off. An index out of
a vector's bounds ends in `phase = "outOfBounds"` wherever the code has one.

`Driven` and `Written` describe the files `write_bench` writes. Two of their
conditions were found by proving: LUTs that depend on each other and that no
output reaches are not levelled (`Driven` asks that no LUT depends on itself),
and an input that a LUT also drives has one value before that LUT is simulated
and another one after, so that no valuation is right for all its readers;
`ValuesCorrect` asks for files without such inputs (`InputsUndriven`).

### 2.3 StpVector

Matrices are sequences, as `stp_vec` stores them. The steps of `Next` are the
passes of the loop of `normalize_matrix`, one action per case, and of the loop
that restores the order of the variables. The reference it is compared with is
the value of the tree of LUTs itself, `TreeValue`.

`Chains` are the chains `normalize_matrix` is given. `ChainsAssumption` says of
them what their only producer, `get_node_matrix` of `simulator.cpp`, makes sure
of: the root comes first, every LUT is followed by its inputs, each a variable
or a LUT with its own inputs, LUTs have two rows and one column per assignment
(`get_stp_vec`), and a line that has no number yet gets the next one.

### 2.4 The shell

`net` is the storage behind the handles: for each network the design it
computes, or that it computes none of the user's designs ("garbled"), and its
form. The form says what later commands look at: whether node order is
topological ("plain" or "rewired" in place), which type of ABC network it is,
whether its rewriting was broken off ("partial"), how a GIA is mapped.
`store[t]` and `current[t]` are `_data` and `_current` plus one. A command is
one action; commands are built from effects that stand for the lines they
share:

* `InPlace`, `InPlaceThenPush`: copy the handle, optimise through it, push what
  `cleanup_dangling` makes of it;
* `PushBuilt`: build a new network and push it;
* `PushAgain`: ABC rewrites in place and the same pointer is pushed again;
* `PushNull`, `Replace`, `Terminate`.

What an engine computes is `Results(command, f)`: the function it was given
or, for the commands in `Faulty`, any other. This is what makes the commands'
own checks mean something. `said` is the message of the last command when it
claims something about its result. `names` counts the entries of the tables of
names. The shell has no threads, so there is nothing to interleave: what is
checked is sequences of commands, including those that end the process
(`up = FALSE`), by an exception nobody catches, an assertion, a read through
NULL, or a read past the end of a vector: `stpfr` and the conversion to a GIA
visit gates by index, and may end that way on an AIG that an earlier command
rewired in place.

### 2.5 AigNetwork and StpReduction

`net` is the storage of the AIG and of the view on it: `kids` the fanins, which
stay readable in dead gates, `hash`, `refs`, `dead`, `fanout` (in the order of
the pushes, which is the order parents are replaced in), `outs`. `todo`,
`moved` and `job` are `to_substitute`, `old_to_new` and the turn of the loop
under way: `FollowMoved` is one hop to the real new node, `TakeTurn` revives it
and fetches the parents, `ReplaceParent` is one `replace_in_node`, `FinishTurn`
the outputs and `take_out_node`. The steps of the pass itself wait for
`AtRest`. They are one per query: `TryConstant`, `TryFanin` and `TryFanout`
with the answer of `Validate`, which may be a proof if the functions agree, a
counter-example if they do not, and a timeout always.

`tts` holds the table of each node. A table is not kept up to date: a node that
is dead or is being substituted when a pattern is added lags behind, and is
brought up to date when it is next looked at (`CheckTts`), together with the
nodes of its cone that lag (`LaggingCone`). What is then computed is the last
block of patterns only (`Resimulated`, `InLastBlock`); the patterns of a block
that went by in the meantime keep the zeros that `resize` filled in. The code
compares such tables as if they were right, and so does the model. After a counter-example `stale` holds until the loop over the classes
takes its next step, which may then reach any key of the new map or the end.

The code has turns one would not expect, and the model has them too. `target`
(line 184) is never set back to true, so that only the gates before the first
one that is not constant are tried as constants. The walk over a member's cone
asks whether the search for the key goes on (line 330), so that it continues
after the member itself was substituted, although line 418 says that the
answer ends the walk: it may then merge the member, dead by now, with a gate
that died with it, which is revived. And `ntk.size()` counts dead
nodes, so that the loop of `--max_iterations` (line 163) never repeats. None of
these breaks a property. What is particular about `substitute_node` does: a gate
that comes back while a waiting gate still reads it is not counted rightly
(`RevivesFanin`, section 4). `MirrorsKept` therefore has three parts:
`LookupsSound` in every state, `MirrorsExact` (`CountersExact`, `FanoutsExact`,
`DeadUnread`, `ParentsVisited`) at the start, and that every other step keeps
`MirrorsExact`. While a turn is under way the node it replaces is excepted from
the counters, and gates in `Waiting` may still read what was taken out.

### 2.6 VisitCountSearch and MctsSearch

A position is the sequence of actions that leads to it, as in the strings the
code uses for keys. `Forward` is one pass of the loop of `iter`: it takes the
best child, asks the mapper (`TakeAction`: one of `Outcomes`, and whether all
gates are set), records the netlist of a first visit (`RecordBest`) and updates
the child. Whether all gates are set (`over`) depends on the sequence alone:
`reinit` (`mapper_MCTS.hpp:837`) resets the flags and the queues it follows
from. What is measured does not: `reinit` leaves the member `iteration` running
(line 1557), which weighs the old estimates of fanouts against the new ones
(lines 1423, 1542) and so decides between matches of equal arrival (lines
1940-1957). A repeated sequence is therefore measured anew, with any of
`Outcomes`; `measured` is a history variable that keeps the first measures. `r` is read before it is
assigned, so that the first test may go either way (`Entered` and `Left` both
hold) or end the process (`ReadsGarbage`). Since `r` trails `res`, the search
goes one action past a terminal state. The baseline that `get_R` divides by is
0 (line 137 assigns a local of that name), and what becomes of an infinity
converted to `int` is the constant `Indefinite`. `BlindToRewards` is what that
amounts to: the search implements one that counts visits only. That is a
refinement, and it is also the most important thing to know about this search.
`Visits` is the number of visits of each position, which is all that
`VisitCountSearch` keeps of the table. `MctsAssumption` puts the measures of
netlists below `Infinity`, which stands for the greatest value of the type a
reward is kept in.

### 2.7 DsdDecomposition

A truth table is the set of its assignments that are 1, a call of `run` that
waits for another is an element of `stack`, holding the locals it still needs;
`remainder`, `support`, `pis` and `s_num` are the members all calls share. The
phases are the decompositions in the order they are tried, and within one the
first place in the order of its loops is taken. `Pruned` follows the loop that
erases from the vector it ranges over: `Visit` is one pass, and the passes over
positions past the new end, which read what the vector no longer holds, are
included. `TopCases` are the operators by which a variable may leave a
function, of which the first is taken. `top_mux_decomposition` computes what Shannon's expansion
does, so that `Split` is both, and `maj_top_decomposition` is never taken (the
comment at `Split` says why). `s_num` is never reset: a later call splits on
the first variable unless one beats the best sum of all the calls before it,
although line 325 says "find min support var".

What that loop leaves can become more than a matter of size. From ten inputs
on, the second half of a split may be a function of one variable and still
find nine in the support. The loop then keeps at least five of them, so that
the terminal cases are passed over, the top test takes the one variable and a
constant remains: a gate is built that has a constant for a fanin, and `run_dec`
looks that constant up at a negative index. `CopySound` says that the copy is
defined, except for LUTs that are constant or a single input, for up to nine
inputs; `CopyBack` ends in "undefined" whenever a fanin is a constant.

## 3. Runs

| run | instance | distinct states | shows |
|---|---|---|---|
| `elm_flows` | 7 nodes, 4 wide LUTs of 3 functions, one unsolvable; cut size 4; late writes lost; all flows | 182 | `TypeOK`, `FunctionPreserved`, `CacheSound`, `KFeasible`, `ImplementsLutMapping`, `Returns` |
| `elm_freed` | the same, all solvable, late writes lost or landing | 844 | `NeverTerminated`, `NewestThreadOnly`, `RepeatedOnlyAfterTimeout` |
| `elm_clobbered` | the same | | violation of `FunctionPreserved` |
| `sim_files` | every well-formed file of two inputs and three LUTs, up to exchanging the inputs, and nine special files; cut bound 1; both modes | 159 841 | `TypeOK`, `InBounds`, `OperandsReady`, `TreesWellCut`, `ValuesCorrect`, `TablesCorrect`, `Ends` |
| `stp_chains` | every tree of one or two LUTs with at most two inputs each, all functions; the five shapes of three LUTs, four functions; all numberings of the leaves | 99 408 | `TypeOK`, `MeaningKept`, `NormalFormCorrect`, `ScanAdvances` |
| `shell_all` | all seven stores, two networks, two elements, every engine may be wrong | 76 704 | `TypeOK`, `CurrentIsSome`, `HandlesUnshared` |
| `shell_current` | AIG and XMG; four networks, three elements | 52 253 | `OnlyCurrentChanges` |
| `shell_selfcheck` | XMG, two designs | | violation of `SelfCheckIsReal` |
| `stpfr_classes` | two inputs, six gates; six networks, each with a class file and patterns; blocks of two patterns; every answer of the solver | 21 636 | `TypeOK`, `FunctionsKept`, `Acyclic`, `CounterexamplesSeparate`, `MirrorsKept`, `Returns` |
| `mcts_search` | two actions, three deep, three descents; two measures, two strategies | 827 460 | `TypeOK`, `NeverThrows`, `VisitsAddUp`, `FirstVisitsBest`, `BlindToRewards` |
| `dsd_luts` | 104 LUTs of five to seven inputs | 1 373 | `TypeOK`, `FunctionKept`, `CopySound`, `Ends` |
| `dsd_four` | the same | | violation of `StopsAtFour` |

### 3.1 Bounds and why they are enough

* *Mapper*: two LUTs of one function make the cache and a repeated search
  possible; two other functions give a late write a wrong place to land in; the
  two LUTs that are small enough come before and after the wide ones. All
  interleavings of four threads with the visits occur. The theorems lift the
  safety properties to any network.
* *Simulator*: with two-input LUTs and a bound of 1 every tree of more than two
  gates is cut. Three LUTs over all choices of fanins and outputs contain every
  pattern of sharing that decides whether a line is flagged: read once, twice
  by one gate, by two gates, as an output, or both. The special files have what
  three LUTs cannot: trees of seven gates that are cut several times, gates of
  one and three inputs, statements in any order, a line driven twice, an output
  that is constant, a gate nothing reads, one input only, no content at all.
  `max_branch` (8 in the code), `pattern_num` (10 000) are constants of the
  module and only their relation to the widths of trees matters.
* *STP*: with four leaves every case of the loop occurs with matrices before
  and behind the variable and with ranks at both ends and in the middle.
* *Shell*: two elements are needed for the last and the current one to differ;
  three, with room to push one more, for a command to run while they do
  (`shell_current`). Two designs are enough to tell a result from another
  network. `MaxNetworks` and `MaxStored` are guards (`Room`); the theorems hold
  for all values.
* *Functional reduction*: what can happen depends on the network, the classes
  and the patterns given, so the six networks are chosen for it: one where a
  substitution makes a chain of parents equal or trivial; one where the walk of
  a member goes on after its proof, so that a dead gate comes back; one where
  everything simulates to the same signature and only the solver tells gates
  apart; one whose classes are refuted, so that the map changes under the loop;
  one where a gate is revived that a waiting gate still reads; one (`Skipped`)
  where a block of patterns goes by while a node is out of use, so that its table
  is wrong when it is looked at again. `MaxTfiNodes` and `SkipFanoutLimit` are
  small enough to cut walks short. `BlockSize` is 2, for 64 in the code: with four
  patterns there are two blocks, one of which can be missed. In a build with
  assertions the one of `aig.hpp:1176` stops the process where a whole block was
  missed; the model follows a build without.
* *Tree search*: three descents are the least in which a position is unvisited,
  visited once and visited again, and three actions the least that leave one
  beyond a terminal state. Every visit measures either of two netlists, so that
  a revisit may be better or worse than the visits before it.
* *Decomposition*: five inputs are the least for which `run` decomposes at all.
  The LUTs are all symmetric functions of five inputs, every operator on top of
  a function, every pair of a bottom gate of two and one of three inputs below
  an `ite` and a majority, majorities with each input inverted or none, functions that
  only split, and one that leaves a vanished variable in the support.

### 3.2 Fairness and deadlock

* `ExactLutMapping!FairSpec` is weak fairness of the manager's own steps. The
  manager is a thread that is never blocked for longer than the 100 ms of
  `wait_for`. Nothing is assumed of the synthesis threads: `Returns` holds for
  `run_mix` and `run_dec` although a search may never end, and says nothing of
  `run`, which waits for it.
* `LutSimulator!FairSpec` is weak fairness of `Step`: one thread runs the
  command.
* `StpReduction!Progress` and `DsdDecomposition!Progress` are weak fairness of
  the one thread that runs the command, written out: a step is taken as long as
  there is one. No answer of the solver is assumed.
* `MctsSearch` has no liveness property: it ends by its loop counters.
* `StpVector` states termination as a measure that every step lowers
  (`ScanAdvances`), without fairness. The shell has no liveness property: it
  waits for its user.
* Deadlock is checked everywhere but in the shell and the tree search, where
  the process may end. The other modules have an explicit last step (`Ended`,
  `Stopped`, `Done`, `Returned`).

## 4. What the runs refute

Three statements of the program about itself are runs that TLC refutes;
`PROJECT.json` quotes the line.

1. `elm_clobbered`: a thread whose wait timed out may write its result into the
   `mgr` of a later visit; the LUT there is replaced by another function.
2. `shell_selfcheck`: `--cec` of `xmgrs` compares the rewritten network with
   itself, since the network kept as the original is a handle to it; likewise
   `elm`, `lutrw`, `xagopt`, `xagopt2`, `xagrw`.
3. `dsd_four`: "decomposition stops when the number of variables <= 4" does not
   hold of a support that kept a variable which vanished. The result is still
   the right function, only larger than it need be.

Seven more do not hold and have no run of their own. Three are stated in
`Shell`; each is refuted by a few steps with the stores it is about and two
designs, which `MCShell` defines.

* `OriginalRestored`: after "An error occurred during computation. The original
  network is restored." (`commands/abc/rewrite.hpp:86`, `refactor.hpp`) the half
  rewritten network is pushed: the call that restores it is commented out.
* `ConversionKeepsFunction`: converting an AIG that was read from a file to ABC
  gives every input the same empty name, and inputs of one name share a net
  (`core/abc2mockturtle.hpp:132`).
* `CecIsTrue`: `cec` prints "Networks are equivalent." whenever the checker has
  an answer (`commands/cec.hpp:55`).
* `KFeasible` with a cut size below four: `elm -k 3` can return LUTs of four
  inputs, because the decomposition stops at four variables whatever the cut
  size is (`core/flow_detail.hpp:151`).
* `MirrorsExact` as an invariant. The library's tests expect that no output
  refers to a dead gate after a substitution
  (`lib/mockturtle/test/views/fanout_view.cpp:244`,
  `test/networks/aig.cpp:986`), and `check_fanouts`
  (`utils/debugging_utils.hpp`) that the counters agree with the lists. With the
  `substitute_node` of `fanout_view` both may fail: `FollowMoved` and the revival
  (`views/fanout_view.hpp:195`) bring a gate back with a counter of 0 while a gate
  that waits in `to_substitute` still reads it; that reference was never counted,
  but is dropped when the waiting gate is taken out. An AIG with inputs 1 and 2
  and the gates `3=1&2`, `4=1&3`, `5=3&!4`, `6=2&5`, `7=1&6`, `8=!2&5`, `9=5&!7`,
  `10=!7&8`, `11=7&!10`, the outputs `!9` and `11`, all four patterns and the one
  class 1: 6, 4 ends with an output on the dead gate 5. It has nine gates, too
  many for the run, in which `Waited` takes the step alone. Functions are right
  even then (`FunctionsPreserved`), because a dead gate keeps its fanins, and
  `cleanup_dangling`, which follows fanins only, copies it back: the result is
  larger than it need be.
* That a counter-example is a pattern the simulator has not. The pass counts on
  it: after `sim.add_pattern` it is to "re-simulate the whole circuit"
  (`core/stp_functional_reduction.hpp:426`), but nodes out of use are left out,
  and when they come back only their last block is computed, as
  `simulation.hpp:785-788` of mockturtle warns. Two nodes may then agree by zeros
  that were never computed, and the solver's answer is a pattern that is there
  already (network `Skipped`). What does hold is `CounterexamplesSeparate`: the
  new column separates the two all the same, since it is computed for both; and
  where the pattern was there before, one of the two tables has it wrong. A query
  is lost, never a function.
* "file path to save the best reward result" (`commands/ic_map.hpp:43`):
  `MCTS.hpp:262-280` compares the netlists of first visits only. A position
  that is visited again may measure a better one, and the file never gets it.
  `FirstVisitsBest` states what the file does hold.

Two more are in the models without a run of their own. An output that
`write_bench` prints as a constant has no driver, and the levels are computed
by reading `m_gates[-1]` for it (`CircuitGraph`, the step to "outOfBounds" that
`InBounds` excludes for files in which every line is driven). `elm
--best_result` compares with the mapping of the current AIG, which need not be
the origin of the LUT network (`Elm`).

## 5. What is proved

The proofs hold for every value of the constants, from the assumptions the
modules state: `ConstantsAssumption` (the mapper's constants have their
types), `StoresAssumption` and `InterfaceAssumption` (those of the shell, with
"garbled" not the name of a design), `SizesAssumption` and `DesignsAssumption`
(the networks given to the functional reduction are networks, its limits
numbers), `FilesAssumption` and `SimulatorAssumption` (files are sequences of
statements, at least one pattern is simulated), `MctsAssumption` (sizes and
measures are positive, measures below `Infinity`), `FunctionsAssumption`
(the LUTs to decompose are functions of their inputs) and `ChainsAssumption`
(section 2.3). TLC evaluates them in every run of those modules.

### 5.1 ExactLutMappingProofs

| theorem | statement | needs |
|---|---|---|
| `TypeCorrect` | `Spec => []TypeOK` | |
| `ThreadsAccountedFor` | `Spec => []NewestThreadOnly` | |
| `NoTermination` | `Spec => []NeverTerminated` | |
| `NoNeedlessSearch` | `Spec => []RepeatedOnlyAfterTimeout` | |
| `MappingPreservesFunctions` | `Spec => []FunctionPreserved` | `WritesLost` |
| `CacheHoldsItsKeys` | `Spec => []CacheSound` | `WritesLost` |
| `ResultIsNarrow` | `Spec => []KFeasible` | `WritesLost`, `CutSize >= DsdLeaf` |
| `Refinement` | `Spec => ImplementsLutMapping` | `WritesLost` |

The first four hold whatever a late write does. `ThreadInv` adds to the types
that `result` is assigned whenever it is about to be used: without this
`CopyResult` would not be typed. `RepeatInv` adds that a thread that was joined
leaves an entry in the cache or is about to. `MapInv` adds that what is in
`result` and `copied` is the function of the node being visited, which is
exactly what a write that lands destroys: run `elm_clobbered` is the
counterexample when `WritesLost` (`"clobber" \notin FreedWrite`) is dropped. The
bound on `CutSize` is needed too, see section 4. The refinement maps a node to the
function of what stands for it and the set of replaced nodes to those that no
longer stand for themselves; only the steps that substitute, and the return,
are not stutters. `MapInv` gives that when the mapping returns the replaced
nodes are exactly the wide ones.

### 5.2 ShellProofs

| theorem | statement |
|---|---|
| `TypeCorrect` | `Spec => []TypeOK` |
| `CurrentExists` | `Spec => []CurrentIsSome` |
| `NoSharing` | `Spec => []HandlesUnshared` |
| `OthersKept` | `Spec => OnlyCurrentChanges` |

There are some fifty commands, so the argument goes through what a command can
do to the stores. `Effect` lists it: nothing; push one element that is a new
network or, in the stores of pointers, NULL or the current pointer again;
replace the current element; rewrite the current network; pop, clear, select.
One lemma per building block shows that commands made of it have such an effect
(`EveryCommand` collects them), and `EffectKeeps` shows that every effect keeps
`Inv`, which consists of the types, `CurrentIsSome` and `HandlesUnshared`
together: that a command only changes the current network is needed for the
handles to stay unshared, and that they are unshared is what turns "one network
changes" into "one element changes". A command that is added later needs one
line in `EveryCommand`.

### 5.3 LutSimulatorProofs

| theorem | statement |
|---|---|
| `TypeCorrect` | `Spec => []TypeOK` |
| `NeverOutOfBounds` | `Spec => []InBounds` |
| `OperandsSimulated` | `Spec => []OperandsReady` |
| `SharedLogicNotDuplicated` | `Spec => []SharedLogicIsLeaf` |
| `ValuesAreCorrect` | `Spec => []ValuesCorrect` |
| `TablesAreCorrect` | `Spec => []TablesCorrect` |
| `TreesCut` | `Spec => []TreesWellCut` |

They hold for every set of files, every number of inputs and patterns, and
every `max_branch`. One invariant carries them all; its parts are lemmas of
their own (`SourceStep`, `LevelStep`, ...), each of which uses only the parts it
needs.

* `ReadInv`, `SourceInv`, `OrderInv` tie the graph to the file: every LUT read is
  a gate, in a file with one LUT per line `source` is that gate, and in a file
  of `write_bench` the lines are numbered inputs first, then outputs. That is
  what makes the tables those of the outputs (`TablesCorrect`), and what
  `full_simulate` silently relies on.
* `LevelInv` and `BlankInv` follow the phases. `AllLevelled` shows that in a
  written file every gate gets a level: otherwise the unlevelled LUTs would have
  one that none of them reads, by acyclicity, and that one is an output or is
  read by a gate with a level.
* `FlagInv` and `TreeInv` are about the order of simulation. `cut_tree` flags
  gates in an order that has nothing to do with levels, so that the flags alone do
  not say that a leaf has a value; but the stack only ever holds lines whose
  drivers lie below the root, and whatever is flagged below the root and not
  still to come has been simulated (`LeafHasValue`). `TreeInv` also says where
  each operand of the chain is: on the stack, among the leaves, multiplied out,
  or in the chain further back.
* `SharedInv` follows the marking: what is left unmarked has one reader, no
  matter how often `cut_tree` flagged what.
* `ValueInv` is what is computed. `OutputCorrect` compares the two ways of
  spelling a minterm, `Minterm`, which shifts the reversed inputs in, and
  `Sum`, which adds the weights of the file's order; both are recursive
  functions, shown to exist by `RecursionExists`, and `SameNumber` is the
  induction that makes them equal. `2 ^ n` has no law in the provers used but
  the number of subsets of a set, from which `PowerDoubles` is taken.

`TreesCut` has an invariant of its own, `CutInv`, since the difficulty is of
another kind: `cut_tree` counts inputs in the order it meets gates, with the flags of
that time, and `get_node_matrix` walks the tree later, in another order and with
all flags set. What relates the two counts is which gates and lines belong to
the tree. The invariant therefore says to which tree each gate belongs, by a
function from gates to roots that exists in every state and that no variable
holds.

* A gate that was met and is not flagged has one reader (`OneReader`), so that
  what is inside one tree is not read by another (`Apart`).
* While the tree of `q` grows, its leaf lines and the queue of gates together are
  at most `count + 1` (`InCut`). A gate that joins takes itself off the queue and
  adds at most as many as it has inputs, which is what `cut_tree` adds to
  `count` (`GrownCount`). When the queue is flagged, its gates turn to leaves.
* Flags set later leave the trees cut before as they are (`GrownDone`). Only the
  tree that grows may be split by its own cut: a LUT that reads a line twice
  queues its driver twice, which joins the tree the first time and is flagged
  the second (`CutEnds`). For the same reason a root may be queued twice, and is
  cut again with the flags of its first cut (`CutStarts`).
* During the simulation the chain stays inside the tree and the leaves taken are
  distinct leaf lines of it (`Multiplying`), which bounds them by the count at the
  time of the cut, and that by `max_branch` and the inputs of the widest LUT.

### 5.4 StpReductionProofs

| theorem | statement | needs |
|---|---|---|
| `TypeCorrect` | `Spec => []TypeOK` | |
| `FunctionsPreserved` | `Spec => []FunctionsKept` | |
| `CounterexamplesTell` | `Spec => CounterexamplesSeparate` | |
| `LookupsAreSound` | `Spec => []LookupsSound` | |
| `MirrorsAreKept` | `Spec => MirrorsKept` | |

`FunctionsKept` is not inductive: a turn of `substitute_node` that replaces a
fanin keeps the functions only if the two literals are equal, and what it does
next was decided many turns ago. `TruthInv` says that everything the network
and the loop rely on is an equality of functions: each fanin pair, each
entry of the structural hash (a gate found there is merged with its parent,
even a dead one), each entry of `to_substitute`, each hop of `old_to_new` and
the turn under way. `func` and `want` are history variables of the model that
say what the gates and outputs computed at the start. Every query the solver
answers enters the argument at one place only: a proof that two nodes are equal
puts a true pair on `todo`. No assumption is made on the class file, on timeouts,
or on the order of fanouts.

`CounterexamplesSeparate` needs to know what a table is worth. `Right` says it:
where a table has a 1 the node is true; where it has a 0 and the position is in
the last block that was computed for it, the node is false; other zeros may be
wrong (`TableInv`). Two nodes that were asked about had complete tables that
agreed or were
opposite, the root's by `SimInv` and the other because it was just looked at. The
counter-example is a vector on which their functions differ, and it lands in the
last block of both, hence separates them; and if a pattern given or found before
is the same vector, the tables agreed there although the functions do not. Tables
only grow (`Extends`): what `resize` and the last block do to a table never takes
back what it said. No assumption is made on the patterns given, which may repeat.

`LookupsAreSound` rests on `LookInv`: the network's hash and lists are sound
(`NetSound`), the parents that the turn under way has still to visit are
distinct (`TurnSound`), and the root of a walk is a gate (`RootIsGate`), for an
input is never substituted. Each operation of the network is shown to keep
`NetSound` by itself.

`MirrorsAreKept` is about `Mirrored(n, w, j)`, `MirrorsExact` of a network `n`
with the gates `w` waiting and the turn `j`. The difficulty is `take_out_node`,
which recurs: one step may take out a cone of any size, and change the counters
of all its fanins. `Falling` does it in rounds, and `FallExact` holds after each:
the counter of a gate that stays says how many gates and outputs still refer to
it, only the first gate falls while something refers to it, and a gate that is to
fall has a counter of 0. `PreorderFinds` says of the walk that finds the cone to
revive that its rounds suffice: every node puts at most two more on the stack,
and none is met twice. `References` is a sum of cardinalities, of the parents and
of the outputs that refer to a node, and each operation changes it by what one
gate contributes; that is where the lemmas on finite sets go.

The hypothesis `~RevivesFanin` is needed where a revived gate comes back with a
counter of 0, which is right only if no gate in use reads it. `~StaysItself`
excepts the `continue` of line 200 of `fanout_view.hpp`, behind the revival; no
state was seen in which it skips a gate it has just revived, but nothing proved
rules it out.

### 5.5 MctsSearchProofs

| theorem | statement |
|---|---|
| `TypeCorrect` | `Spec => []TypeOK` |
| `NothingThrown` | `Spec => []NeverThrows` |
| `VisitsBalance` | `Spec => []VisitsAddUp` |
| `BestIsSaved` | `Spec => []FirstVisitsBest` |
| `SearchIsBlind` | `Spec => BlindToRewards` |

The refinement holds because of `WorthInv`: every state that was visited has
the same `R`, which is what an infinity converts to, and no state ever has a
`Q` other than 0, because `backpropagate` compares a multiple of that `R`,
which is negative, with it. So the values that `bestAction` compares differ by
a function of the visits and of the noise alone, and `Better` of the code is
`Better` of `VisitCountSearch`. `StartIteration`, `Forward` and `LeaveLoop` map
to `Begin`, `Descend` and `End`, all other steps to stutters. `VisitsAddUp` holds between
descents only; `SumInv` says by how much the sums are off at the position
where a descent is, and needs `PathInv` (the descent is one action below
the position whose children are in the table) and `OverInv` (what is below a
terminal state is terminal, so that a descent leaves it after one action).
`FirstVisitsBest` holds whatever later visits measure, because a position is
compared exactly once: a node of the tree has visits exactly when its state is
in the table (`ShapeInv`), so that `measured` is extended at the visits that are
compared and at no other.

### 5.6 DsdDecompositionProofs

| theorem | statement |
|---|---|
| `TypeCorrect` | `Spec => []TypeOK` |
| `FunctionPreserved` | `Spec => []FunctionKept` |

Three parts. First the tests: `TopSound`, `BottomSound`, `XorSound`,
`MuxSound` and `MajSound` say of a function that passes a test that it is the
gate applied to the remainder, at every assignment; they are about sets of sets
of variables and hold for any number of them. Then the network: a gate that is
built, or found, computes its table of its fanins and disturbs no other
signal. Last the recursion.
`FunctionKept` says that the gates, the remainder and the stack make up the LUT,
and is not inductive: whether a call that waits gets what it needs depends on
what the calls it makes leave alone. `Shape` adds which variables a call
may touch: the supports on the stack shrink strictly, so that a variable split
on, or taken by a top gate, is out of every call below it, and its signal
in `pis` stays what it was; for the half that is still to come `Split` saves
signals and support. `Due` is what a call owes as a predicate on assignments,
and `Kept` that it agrees with the LUT. At the end `ValueIs` and `OwedIs` show that
the folds `Value` and `Owed`, by which TLC evaluates the property, are what these
predicates describe.

### 5.7 StpVectorProofs

| theorem | statement |
|---|---|
| `SpecTypeOK` | `Spec => []TypeOK` |
| `SpecMeaningKept` | `Spec => []MeaningKept` |
| `SpecNormalFormCorrect` | `Spec => []NormalFormCorrect` |
| `SpecScanAdvances` | `Spec => ScanAdvances` |

They hold for trees of any size, LUTs of any width, and any number of variables
and occurrences. Products of matrices are awkward to reason about, what they do
is not. A state is a vector with a single 1, known by its width and the
position of the 1, and a logic matrix acts on it (`Acts`): a variable puts a
digit in front of the position (`Push`), a LUT takes off the digits of its
inputs and puts its output there (`LutActs`). The product that the code takes
acts as its factors do one after the other, and its dimensions fit
(`ProductActs`), so that a chain may be multiplied out from any place. What is
left has three parts.

* *The chain is the tree.* `TreeGives`: read from its end, a chain in prefix
  notation does to the state of width 1 what the value of the tree says. It is
  an induction over the length of the chain, with the stack of the values of
  the trees read so far.
* *The steps are equations between actions.* A variable passes matrices
  (`ChainPasses`), two neighbouring occurrences are one and `Mr`
  (`ChainReduces`), a swap matrix exchanges variables (`ChainSwaps`). The ranks
  in `idx` follow: `Ranked` says that they are the places of the variables in an
  arrangement, `RankNew` and `RankPromoted` that a new variable, or one that is
  moved to the front, keeps them so.
* *The invariant.* `IInv` says that some arrangement of the variables met stands
  behind the chain, that `idx` is its ranks, and that the chain followed by it is
  worth what the tree is worth. While scanning, `Scan` adds that behind `p` there
  are only matrices and that the variables not met are still to come; hence all
  are met at the end, and as ranks are a bijection (`AllRanked`) the arrangement
  holds each variable once. While restoring, `Restoring` adds that the last
  variables are in order already. `MeaningKept` alone is not inductive: it says
  nothing of where variables are, so that a step that looks a rank up could move
  the wrong one.

The shortcut for a chain that is in normal form already (`AlreadyNormal`) looks
at the length of the chain only. It is right because the `n` places behind the
root must hold each of the `n` variables, hence nothing else, and because these
are numbered as they occur (`NormalAlready`); numbered otherwise, the code would
return the LUT with its inputs in the wrong order. `ScanAdvances` needs that what a step
puts in the place of variables holds none (`FewerOccurrences`). `IInv` speaks
of all states and of an arrangement no variable holds; TLC checks it through
`MeaningKept` and `TypeOK`.

### 5.8 FoldLemmas

`FoldLeft` and recursive functions are defined by CHOOSE: a proof must first
show that some function satisfies the equation. `FoldExists` does so for a fold
over an interval, `FoldRange` shows that its values stay in a set `D` when
the base and the step do. `D` is a set and not a predicate because a lemma about
an arbitrary predicate cannot be instantiated by the provers used. `Sublist`
(in place of `SelectSeq`) is such a fold, and its lemmas say which elements it has,
and that it keeps the order and takes no element twice. Others are about the
head and tail of sequences, concatenations, and the length of an injective
sequence. The module also has what two of the proofs share:
the laws of powers of 2, and that finitely many numbers have a bound and a
maximum.

### 5.9 Only model-checked

* Liveness: `Returns`, `Ends`. They need fairness and ENABLED, which the
  provers used do not treat.
* `StpReduction`: `Acyclic`. The natural invariant is that the fanins, with an edge
  from each waiting and each moved gate to its substitute, have no cycle. Every step
  keeps it but two: a gate that the hash finds for a parent may itself wait, and
  nothing says that it does not lead back to that parent; and the walk of a member
  goes on after the member was substituted, for which the member would have to stay
  dead. Random sequences of substitutions broke neither, but an inductive
  invariant that implies both was not found. No theorem above assumes `Acyclic`.
* `DsdDecomposition`: `CopySound`. That every gate has fanins above the constants
  up to nine inputs depends on how many variables of a support can vanish at
  once; and which gate comes last, on sharing.
* The three statements of section 4: a counterexample is all there is to show.

## 6. Plan

Done: the mapper with its abstract specification, the simulator, the shell,
functional reduction, the tree search with its abstract specification, the
decomposition and the STP vectors, all with proofs.

Next, in order of importance:

1. `Acyclic` of the functional reduction: what a waiting gate and the gate the hash
   finds for a parent have to do with each other.
2. The opt and genlib stores, and the variables that options are bound to,
   beside the shell.
3. The rewriting of inverters in XMGs (`xmginv`) and the STP SAT solver.

## 7. What is not modelled, and why

* *Commands that change no store*: `sim`, `stime`, the writers, `ps2`,
  `techmap`, `ic_map`, `lutmap`, `to_npz`, `write_dot`, `acec`, `stpsat`,
  `exact_klut`; they read the current element and print. `simulator` has modules
  of its own.
* *Values of options and the opt and genlib stores*: section 6 (2).
* *Names and numbers in the conversion to ABC*: how many there are is modelled,
  not which.
* *The engines themselves* (resubstitution, rewriting, balancing, ABC): third
  party code; a command is modelled with any function the engine may return.
* *Exact synthesis*: a search over fences and DAGs with large tables. In
  `ExactLutMapping` the networks found for a LUT are known by their function and
  width only.
* *LUT rewriting, XAG and XMG rewriting, multiplicative complexity, the STP SAT
  solver*: pure functions of a node or formula, or built on exact synthesis;
  what their commands do with the stores is modelled.
* *The options of `ic_map` beyond the strategy*: the parameters of the search
  given on the command line are read and then not used.
* *`stpfr` on an AIG that was rewired in place*: `IsDesign` describes what the
  commands push, an AIG in topological order without dead gates. An element that
  was optimised through a copied handle, and that the user selects again or
  uncovers by `store --pop`, may be neither; `StpReduction` says nothing of it,
  and `Shell` only that the process may end there.
* *Files for `simulator` of another origin*: that indices stay in bounds is
  checked and proved for files of `write_bench` (`Written`); lines that nothing
  drives, gates that no output reaches and networks of fewer than two inputs are
  outside of `InBounds`. The model has what the code does with them, the step to
  "outOfBounds".
* *Placement, congestion, the delay and area of mapped cells*: floating-point
  estimates that no finite model tells apart.
* *Sizes of networks*, and with them the loop of `--gain`, which stores the
  pass that did not gain.
* *Parsing below the level of statements, and printing*.

## 8. Running it

In this directory,

    tlc -workers 2 -config Shell_all.cfg MCShell
    tlapm ShellProofs.tla

`PROJECT.json` names the configuration and the module of each run. The longest
run, `mcts_search`, takes about two minutes.
