-------------------------- MODULE ExactLutMapping ---------------------------
(***************************************************************************)
(* exact_lut_mapping_manager: the mapper behind the command elm.  It       *)
(* visits the LUTs of a klut_network in index order and replaces each one  *)
(* that has more than CutSize fanins.  The replacement comes from exact    *)
(* synthesis (run), from disjoint-support decomposition (run_dec), or from *)
(* both (run_mix): run_mix starts the synthesis on a thread of its own,    *)
(* waits 100 milliseconds for it, and decomposes when the wait times out.  *)
(* The thread is then detached and keeps running.                          *)
(*                                                                         *)
(* The thread works on mgr, an object in the stack frame of the visit that *)
(* started it, by reference.  After a timeout that frame is gone while the *)
(* thread still assigns mgr.exact_lut_result: undefined behaviour.  The    *)
(* frame of every visit lies at the same address, so the write may hit the *)
(* object of a later visit.  FreedWrite names the outcomes considered.     *)
(*                                                                         *)
(* A function is an opaque value and a sub-network is the function it      *)
(* computes with the largest fanin count it uses: the search and the       *)
(* decomposition themselves are not modelled here.                         *)
(***************************************************************************)
EXTENDS Integers, Sequences

CONSTANTS
  NumNodes,     \* nodes of the network when the mapping starts
  Functions,    \* the functions that occur in it
  Width,        \* fanin count of each node, 0 for constants and inputs
  Function,     \* node_function of each node
  CutSize,      \* exact_lut_mapping_params::cut_size
  Modes,        \* which of run, run_mix and run_dec may be called
  Solvable,     \* functions whose exact synthesis ends
  FreedWrite    \* what assigning a destroyed mgr can do

Node == 1 .. NumNodes

ASSUME ConstantsAssumption ==
  /\ NumNodes \in Nat
  /\ Width \in [Node -> Nat]
  /\ Function \in [Node -> Functions]
  /\ CutSize \in Nat
  /\ Modes \subseteq {"run", "run_mix", "run_dec"}
  /\ Solvable \subseteq Functions
  /\ FreedWrite \subseteq {"lost", "clobber"}

VARIABLES
  mode,      \* the flow the command has called
  pc,        \* where the mapping stands: visit, search, wait, copy, ...
  n,         \* the node foreach_node is at
  result,    \* mgr.exact_lut_result of the current visit
  copied,    \* node, inputs and tt, filled from that result
  cache,     \* exact_lut_results: function -> result of its synthesis
  threads,   \* threads and futures, which grow together
  tNum,      \* t_num, the number of threads started and dealt with
  repl       \* what stands for each node in the network

vars == <<mode, pc, n, result, copied, cache, threads, tNum, repl>>

Wide == {x \in Node : Width[x] > CutSize}

Empty == <<>>            \* an exact_lut_result nothing was assigned to

(***************************************************************************)
(* dsd_impl::run makes one LUT of a remainder with at most four variables, *)
(* whatever the cut size is, and LUTs of two or three inputs above that.   *)
(***************************************************************************)
DsdLeaf_FiveInputs == 5

DsdLeaf == 4

SubNetwork(o, f, w) == [origin |-> o, func |-> f, width |-> w]

Itself(x)    == SubNetwork("itself", Function[x], Width[x])
FromExact(r) == SubNetwork("exact", r[1], CutSize)
FromDsd(x)   == SubNetwork("dsd", Function[x],
                           IF Width[x] < DsdLeaf THEN Width[x] ELSE DsdLeaf)

Init ==
  /\ mode \in Modes
  /\ pc = "visit"
  /\ n = 1
  /\ result = Empty
  /\ copied = Empty
  /\ cache = [k \in {} |-> Empty]
  /\ threads = <<>>
  /\ tNum = 0
  /\ repl = [x \in Node |-> Itself(x)]

-----------------------------------------------------------------------------
(* The visits, shared by the three flows                                   *)

Visiting(x) == pc = "visit" /\ n = x /\ x \in Node

Leave_SkipsANode == pc' = "visit" /\ n' = n + 2 /\ result' = Empty /\ copied' = Empty

(* The lambda of foreach_node returns: its mgr is destroyed. *)
Leave == /\ pc' = "visit"
         /\ n' = n + 1
         /\ result' = Empty
         /\ copied' = Empty

Substitute(x, sub) == repl' = [repl EXCEPT ![x] = sub]

Skip_WideToo(x) == Visiting(x) /\ Leave /\ UNCHANGED <<cache, threads, tNum, repl>>

(* Constants, primary inputs and LUTs that are small enough stay. *)
Skip(x) ==
  /\ Visiting(x)
  /\ x \notin Wide
  /\ Leave
  /\ UNCHANGED <<cache, threads, tNum, repl>>

UseCached_KeyIsWidth(x) ==
  /\ Visiting(x) /\ mode # "run_dec" /\ x \in Wide
  /\ \E y \in 1 .. x - 1 :
       /\ Width[y] = Width[x] /\ Function[y] \in DOMAIN cache
       /\ Substitute(x, FromExact(cache[Function[y]]))
  /\ Leave /\ UNCHANGED <<cache, threads, tNum>>

UseCached_CountsAThread(x) ==
  /\ Visiting(x) /\ mode # "run_dec" /\ x \in Wide /\ Function[x] \in DOMAIN cache
  /\ Substitute(x, FromExact(cache[Function[x]]))
  /\ tNum' = tNum + 1
  /\ Leave /\ UNCHANGED <<cache, threads>>

(* A function met before: its result is taken from the cache. *)
UseCached(x) ==
  /\ Visiting(x)
  /\ mode # "run_dec"
  /\ x \in Wide
  /\ Function[x] \in DOMAIN cache
  /\ Substitute(x, FromExact(cache[Function[x]]))
  /\ Leave
  /\ UNCHANGED <<cache, threads, tNum>>

Decompose(x) ==
  /\ Visiting(x)
  /\ mode = "run_dec"
  /\ x \in Wide
  /\ Substitute(x, FromDsd(x))
  /\ Leave
  /\ UNCHANGED <<cache, threads, tNum>>

-----------------------------------------------------------------------------
(* run: the synthesis runs in the visit itself, for as long as it takes    *)

Search(x) ==
  /\ Visiting(x)
  /\ mode = "run"
  /\ x \in Wide
  /\ Function[x] \notin DOMAIN cache
  /\ pc' = "search"
  /\ UNCHANGED <<n, result, copied, cache, threads, tNum, repl>>

SearchEnds ==
  /\ pc = "search"
  /\ Function[n] \in Solvable
  /\ result' = <<Function[n]>>
  /\ pc' = "copy"
  /\ UNCHANGED <<n, copied, cache, threads, tNum, repl>>

(* exactLutMapping has no bound on the number of nodes it tries. *)
SearchGoesOn ==
  /\ pc = "search"
  /\ Function[n] \notin Solvable
  /\ UNCHANGED vars

-----------------------------------------------------------------------------
(* run_mix: the synthesis runs on a thread                                 *)

Start(x) ==
  /\ Visiting(x)
  /\ mode = "run_mix"
  /\ x \in Wide
  /\ Function[x] \notin DOMAIN cache
  /\ threads' = Append(threads, [node |-> x, handle |-> "joinable", running |-> TRUE])
  /\ pc' = "wait"
  /\ UNCHANGED <<n, result, copied, cache, tNum, repl>>

(* wait_for finds the future of the thread just started ready: join it. *)
Join ==
  /\ pc = "wait"
  /\ ~threads[tNum + 1].running
  /\ threads' = [threads EXCEPT ![tNum + 1].handle = "joined"]
  /\ tNum' = tNum + 1
  /\ pc' = "copy"
  /\ UNCHANGED <<n, result, copied, cache, repl>>

Timeout_WaitsForever == pc = "wait" /\ FALSE

Timeout_NotDetached ==
  /\ pc = "wait" /\ threads[tNum + 1].running
  /\ tNum' = tNum + 1
  /\ Substitute(n, FromDsd(n))
  /\ Leave /\ UNCHANGED <<cache, threads>>

Timeout_CachesResult ==
  /\ pc = "wait" /\ threads[tNum + 1].running
  /\ threads' = [threads EXCEPT ![tNum + 1].handle = "detached"]
  /\ tNum' = tNum + 1
  /\ cache' = [k \in DOMAIN cache \cup {Function[n]} |->
                 IF k = Function[n] THEN result ELSE cache[k]]
  /\ Substitute(n, FromDsd(n))
  /\ Leave

(* The 100 milliseconds pass first: detach it and decompose the LUT. *)
Timeout ==
  /\ pc = "wait"
  /\ threads[tNum + 1].running
  /\ threads' = [threads EXCEPT ![tNum + 1].handle = "detached"]
  /\ tNum' = tNum + 1
  /\ Substitute(n, FromDsd(n))
  /\ Leave
  /\ UNCHANGED cache

-----------------------------------------------------------------------------
(* Using the result: it is read from mgr twice, to build the replacement   *)
(* and to fill the cache                                                   *)

CopyResult ==
  /\ pc = "copy"
  /\ copied' = result
  /\ pc' = "store"
  /\ UNCHANGED <<n, result, cache, threads, tNum, repl>>

StoreResult_NotCached ==
  pc = "store" /\ Substitute(n, FromExact(copied)) /\ Leave /\ UNCHANGED <<cache, threads, tNum>>

StoreResult ==
  /\ pc = "store"
  /\ cache' = [k \in DOMAIN cache \cup {Function[n]} |->
                 IF k = Function[n] THEN result ELSE cache[k]]
  /\ Substitute(n, FromExact(copied))
  /\ Leave
  /\ UNCHANGED <<threads, tNum>>

-----------------------------------------------------------------------------
(* foreach_node is through: the manager and its vector of threads are      *)
(* destroyed; destroying a joinable thread ends the program                *)
Return ==
  /\ pc = "visit"
  /\ n > NumNodes
  /\ pc' = IF \E t \in DOMAIN threads : threads[t].handle = "joinable"
           THEN "terminated" ELSE "returned"
  /\ UNCHANGED <<n, result, copied, cache, threads, tNum, repl>>

-----------------------------------------------------------------------------
(* The threads                                                             *)

FrameAlive(t) == pc = "wait" /\ t = tNum + 1
SomeFrameAlive == pc \in {"wait", "copy", "store"}

(* exactLutMapping finds a network and assigns mgr.exact_lut_result. *)
Finish(t) ==
  /\ t \in DOMAIN threads
  /\ threads[t].running
  /\ Function[threads[t].node] \in Solvable
  /\ threads' = [threads EXCEPT ![t].running = FALSE]
  /\ \/ FrameAlive(t) /\ result' = <<Function[threads[t].node]>>
     \/ ~FrameAlive(t) /\ "lost" \in FreedWrite /\ UNCHANGED result
     \/ /\ ~FrameAlive(t) /\ "clobber" \in FreedWrite /\ SomeFrameAlive
        /\ result' = <<Function[threads[t].node]>>
  /\ UNCHANGED <<mode, pc, n, copied, cache, tNum, repl>>

Ended == pc \in {"returned", "terminated"} /\ UNCHANGED vars

Manager ==
  \/ \E x \in Node : Skip(x) \/ UseCached(x) \/ Decompose(x) \/ Search(x) \/ Start(x)
  \/ SearchEnds \/ Join \/ Timeout \/ CopyResult \/ StoreResult \/ Return

Next ==
  \/ Manager /\ UNCHANGED mode
  \/ SearchGoesOn
  \/ \E t \in DOMAIN threads : Finish(t)
  \/ Ended

Spec == Init /\ [][Next]_vars

(***************************************************************************)
(* The manager's own code always goes on.  Nothing is assumed of the       *)
(* synthesis threads: a search may take arbitrarily long.                  *)
(***************************************************************************)
FairSpec == Spec /\ WF_vars(Manager /\ UNCHANGED mode)

-----------------------------------------------------------------------------
(* Correctness                                                             *)

Results == {Empty} \cup {<<k>> : k \in Functions}

Thread == [node : Node, handle : {"joinable", "joined", "detached"},
           running : BOOLEAN]

(* The types of the variables. *)
TypeOK ==
  /\ mode \in Modes
  /\ pc \in {"visit", "search", "wait", "copy", "store", "returned", "terminated"}
  /\ n \in 1 .. NumNodes + 1
  /\ result \in Results
  /\ copied \in Results
  /\ DOMAIN cache \subseteq Functions
  /\ \A k \in DOMAIN cache : cache[k] \in Results
  /\ threads \in Seq(Thread)
  /\ tNum \in Nat
  /\ repl \in [Node -> [origin : {"itself", "exact", "dsd"},
                       func : Functions, width : Nat]]

(* Whatever a visit put in the place of a LUT computes that LUT's function
   (exact_lut_mapping.hpp:171, rewrite origin LUT by local exact LUT mapping):
   no step of another visit, of a cached result or of a left-over thread gets
   between a LUT and its replacement. *)
FunctionPreserved == \A x \in Node : repl[x].func = Function[x]

(* An entry of exact_lut_results is a finished synthesis of its own key: a
   function whose search timed out never gets an entry. *)
CacheSound == \A k \in DOMAIN cache : cache[k] = <<k>> /\ k \in Solvable

(* t_num stays the index of the newest thread although visits served by the
   cache start none: every thread before it has been joined or detached, at
   most one is joinable, and then the manager is waiting for exactly that one. *)
NewestThreadOnly ==
  /\ Len(threads) = IF pc = "wait" THEN tNum + 1 ELSE tNum
  /\ \A t \in 1 .. tNum : threads[t].handle # "joinable"
  /\ pc = "wait" => threads[tNum + 1].node = n

(* Destroying the vector of threads never ends the program. *)
NeverTerminated == pc # "terminated"

(* A second synthesis of one function starts only because every earlier one
   timed out and was left running or ended too late: none was ever joined. *)
RepeatedOnlyAfterTimeout ==
  \A s, t \in DOMAIN threads :
    s < t /\ Function[threads[s].node] = Function[threads[t].node]
      => threads[s].handle = "detached"

(* When the mapping returns, no LUT of the result has more than CutSize inputs
   (exactlut.hpp:39, "the number of LUT inputs form 2 to 8"). *)
KFeasible == pc = "returned" => \A x \in Node : repl[x].width <= CutSize

(* The mapping returns even if no search ever ends: run_mix and run_dec wait
   for nothing but a bounded time. *)
Returns == (mode # "run") ~> (pc = "returned")

(* The mapping implements its promise. *)
Abstract == INSTANCE LutMapping WITH
  WideLUTs <- Wide, Meaning <- Function,
  computes <- [x \in Node |-> repl[x].func],
  replaced <- {x \in Node : repl[x].origin # "itself"},
  finished <- pc = "returned"

ImplementsLutMapping == Abstract!Spec
=============================================================================
