----------------------- MODULE ExactLutMappingProofs ------------------------
(***************************************************************************)
(* Theorems about ExactLutMapping, for every network, every set of         *)
(* functions the search can finish and every cut size.  What the threads   *)
(* and the types are like holds whatever a write to a destroyed mgr does;  *)
(* that the mapping is correct needs such writes to be lost.               *)
(***************************************************************************)
EXTENDS ExactLutMapping, TLAPS

(* The types, with what makes them inductive: a result is only used after
   it was assigned, and the newest thread is the one waited for. *)
HandOver ==
  /\ pc \in {"search", "wait", "copy", "store"} => n \in Wide
  /\ pc = "wait" /\ ~threads[tNum + 1].running => result # Empty
  /\ pc \in {"copy", "store"} => result # Empty
  /\ pc = "store" => copied # Empty
  /\ \A k \in DOMAIN cache : cache[k] # Empty

ThreadInv == TypeOK /\ HandOver /\ NewestThreadOnly /\ NeverTerminated

(* A result that was assigned is told apart from Empty, and holds its function. *)
LEMMA EmptyIsNoResult == \A k \in Functions : <<k>> # Empty /\ <<k>>[1] = k
BY DEF Empty

(* What a replacement is. *)
LEMMA SubNetworkType ==
  ASSUME NEW x \in Node
  PROVE  /\ Itself(x) = [origin |-> "itself", func |-> Function[x], width |-> Width[x]]
         /\ FromDsd(x) \in [origin : {"dsd"}, func : {Function[x]}, width : Nat]
         /\ Itself(x).func = Function[x] /\ Function[x] \in Functions
         /\ Width[x] \in Nat
BY ConstantsAssumption DEF Itself, FromDsd, SubNetwork, DsdLeaf, ConstantsAssumption

(* What from_exact gives has the function and the width of the cut.        *)
LEMMA FromExactType ==
  ASSUME NEW r \in Results, r # Empty
  PROVE  FromExact(r) \in [origin : {"exact"}, func : Functions, width : {CutSize}]
         /\ FromExact(r).func = r[1]
BY ConstantsAssumption DEF FromExact, SubNetwork, Results, ConstantsAssumption

(* The invariant about the threads holds initially ...                      *)
LEMMA ThreadInvInit == Init => ThreadInv
<1> SUFFICES ASSUME Init PROVE ThreadInv
  OBVIOUS
<1>1. TypeOK
  BY SubNetworkType, ConstantsAssumption
  DEF Init, TypeOK, Results, Thread, Itself, SubNetwork, ConstantsAssumption
<1>2. HandOver
  BY DEF Init, HandOver
<1>3. NewestThreadOnly /\ NeverTerminated
  BY DEF Init, NewestThreadOnly, NeverTerminated
<1> QED BY <1>1, <1>2, <1>3 DEF ThreadInv

(* ... and every step keeps it.                                             *)
LEMMA ThreadInvStep == ThreadInv /\ [Next]_vars => ThreadInv'
<1> SUFFICES ASSUME ThreadInv, [Next]_vars PROVE ThreadInv'
  OBVIOUS
<1> USE ConstantsAssumption DEF ConstantsAssumption
<1>0. CASE UNCHANGED vars
  BY <1>0 DEF vars, ThreadInv, TypeOK, HandOver, NewestThreadOnly, NeverTerminated
<1>1. ASSUME NEW x \in Node, Skip(x), UNCHANGED mode PROVE ThreadInv'
  BY <1>1 DEF Skip, Visiting, Leave, ThreadInv, TypeOK, HandOver, NewestThreadOnly,
     NeverTerminated, Results, Node
<1>2. ASSUME NEW x \in Node, UseCached(x), UNCHANGED mode PROVE ThreadInv'
  <2>1. cache[Function[x]] \in Results /\ cache[Function[x]] # Empty
    BY <1>2 DEF UseCached, ThreadInv, TypeOK, HandOver
  <2>2. repl' \in [Node -> [origin : {"itself", "exact", "dsd"}, func : Functions, width : Nat]]
    BY <1>2, <2>1, FromExactType DEF UseCached, Substitute, ThreadInv, TypeOK
  <2> QED
    BY <1>2, <2>2 DEF UseCached, Visiting, Leave, ThreadInv, TypeOK, HandOver,
       NewestThreadOnly, NeverTerminated, Results, Node
<1>3. ASSUME NEW x \in Node, Decompose(x), UNCHANGED mode PROVE ThreadInv'
  <2>2. repl' \in [Node -> [origin : {"itself", "exact", "dsd"}, func : Functions, width : Nat]]
    BY <1>3, SubNetworkType DEF Decompose, Substitute, ThreadInv, TypeOK
  <2> QED
    BY <1>3, <2>2 DEF Decompose, Visiting, Leave, ThreadInv, TypeOK, HandOver,
       NewestThreadOnly, NeverTerminated, Results, Node
<1>4. ASSUME NEW x \in Node, Search(x), UNCHANGED mode PROVE ThreadInv'
  BY <1>4 DEF Search, Visiting, ThreadInv, TypeOK, HandOver, NewestThreadOnly,
     NeverTerminated
<1>5. ASSUME NEW x \in Node, Start(x), UNCHANGED mode PROVE ThreadInv'
  <2> DEFINE th == [node |-> x, handle |-> "joinable", running |-> TRUE]
  <2>1. th \in Thread
    BY DEF Thread
  <2>2. /\ threads \in Seq(Thread) /\ Len(threads) = tNum /\ tNum \in Nat
        /\ threads' = Append(threads, th)
        /\ \A t \in 1 .. tNum : threads[t].handle # "joinable"
    BY <1>5 DEF Start, Visiting, ThreadInv, TypeOK, NewestThreadOnly
  <2>3. /\ threads' \in Seq(Thread) /\ Len(threads') = tNum + 1
        /\ threads'[tNum + 1] = th
        /\ \A t \in 1 .. tNum : threads'[t].handle # "joinable"
    BY <2>1, <2>2
  <2> QED
    BY <1>5, <2>3 DEF Start, Visiting, ThreadInv, TypeOK, HandOver, NewestThreadOnly,
       NeverTerminated
<1>6. ASSUME SearchEnds, UNCHANGED mode PROVE ThreadInv'
  BY <1>6, SubNetworkType DEF SearchEnds, ThreadInv, TypeOK, HandOver, NewestThreadOnly,
     NeverTerminated, Results, Empty, Wide
<1>7. ASSUME Join, UNCHANGED mode PROVE ThreadInv'
  <2>1. /\ threads \in Seq(Thread) /\ Len(threads) = tNum + 1 /\ tNum \in Nat
        /\ threads' = [threads EXCEPT ![tNum + 1].handle = "joined"]
    BY <1>7 DEF Join, ThreadInv, TypeOK, NewestThreadOnly
  <2>2. threads[tNum + 1] \in Thread
    BY <2>1
  <2>3. [threads[tNum + 1] EXCEPT !.handle = "joined"] \in Thread
    BY <2>2 DEF Thread
  <2>4. threads' \in Seq(Thread) /\ Len(threads') = tNum + 1
    BY <2>1, <2>3
  <2>5. \A t \in 1 .. tNum + 1 : threads'[t].handle # "joinable"
    BY <1>7, <2>1, <2>2 DEF Thread, ThreadInv, NewestThreadOnly
  <2> QED
    BY <1>7, <2>4, <2>5 DEF Join, ThreadInv, TypeOK, HandOver, NewestThreadOnly,
       NeverTerminated
<1>8. ASSUME Timeout, UNCHANGED mode PROVE ThreadInv'
  <2>1. /\ threads \in Seq(Thread) /\ Len(threads) = tNum + 1 /\ tNum \in Nat
        /\ threads' = [threads EXCEPT ![tNum + 1].handle = "detached"]
        /\ n \in Node
    BY <1>8 DEF Timeout, ThreadInv, TypeOK, NewestThreadOnly, HandOver, Wide
  <2>2. threads[tNum + 1] \in Thread
    BY <2>1
  <2>3. [threads[tNum + 1] EXCEPT !.handle = "detached"] \in Thread
    BY <2>2 DEF Thread
  <2>4. threads' \in Seq(Thread) /\ Len(threads') = tNum + 1
    BY <2>1, <2>3
  <2>5. \A t \in 1 .. tNum + 1 : threads'[t].handle # "joinable"
    BY <1>8, <2>1, <2>2 DEF Thread, ThreadInv, NewestThreadOnly
  <2>6. repl' \in [Node -> [origin : {"itself", "exact", "dsd"}, func : Functions, width : Nat]]
    BY <1>8, <2>1, SubNetworkType DEF Timeout, Substitute, ThreadInv, TypeOK
  <2> QED
    BY <1>8, <2>1, <2>4, <2>5, <2>6 DEF Timeout, Leave, ThreadInv, TypeOK, HandOver,
       NewestThreadOnly, NeverTerminated, Results, Node
<1>9. ASSUME CopyResult, UNCHANGED mode PROVE ThreadInv'
  BY <1>9 DEF CopyResult, ThreadInv, TypeOK, HandOver, NewestThreadOnly, NeverTerminated
<1>10. ASSUME StoreResult, UNCHANGED mode PROVE ThreadInv'
  <2>1. n \in Node /\ Function[n] \in Functions
    BY <1>10 DEF StoreResult, ThreadInv, HandOver, Wide
  <2>2. /\ DOMAIN cache' \subseteq Functions
        /\ \A k \in DOMAIN cache' : cache'[k] \in Results /\ cache'[k] # Empty
    BY <1>10, <2>1 DEF StoreResult, ThreadInv, TypeOK, HandOver
  <2>3. repl' \in [Node -> [origin : {"itself", "exact", "dsd"}, func : Functions, width : Nat]]
    BY <1>10, FromExactType DEF StoreResult, Substitute, ThreadInv, TypeOK, HandOver
  <2> QED
    BY <1>10, <2>1, <2>2, <2>3 DEF StoreResult, Leave, ThreadInv, TypeOK, HandOver,
       NewestThreadOnly, NeverTerminated, Results, Node
<1>11. ASSUME Return, UNCHANGED mode PROVE ThreadInv'
  <2>1. ~ \E t \in DOMAIN threads : threads[t].handle = "joinable"
    BY <1>11 DEF Return, ThreadInv, TypeOK, NewestThreadOnly
  <2> QED
    BY <1>11, <2>1 DEF Return, ThreadInv, TypeOK, HandOver, NewestThreadOnly,
       NeverTerminated
<1>12. ASSUME NEW t \in DOMAIN threads, Finish(t) PROVE ThreadInv'
  <2>1. /\ threads \in Seq(Thread) /\ t \in 1 .. Len(threads) /\ tNum \in Nat
        /\ threads' = [threads EXCEPT ![t].running = FALSE]
        /\ threads[t] \in Thread
    BY <1>12 DEF Finish, ThreadInv, TypeOK
  <2>2. [threads[t] EXCEPT !.running = FALSE] \in Thread
    BY <2>1 DEF Thread
  <2>3. /\ threads' \in Seq(Thread) /\ Len(threads') = Len(threads)
        /\ threads'[t] = [threads[t] EXCEPT !.running = FALSE]
        /\ \A s \in 1 .. Len(threads) : s # t => threads'[s] = threads[s]
    BY <2>1, <2>2
  <2>4. \A s \in 1 .. Len(threads) : /\ threads'[s].handle = threads[s].handle
                                     /\ threads'[s].node = threads[s].node
    BY <2>1, <2>3 DEF Thread
  <2>5. Function[threads[t].node] \in Functions
    BY <2>1 DEF Thread
  <2>6. result' \in Results /\ (result # Empty => result' # Empty)
    BY <1>12, <2>5 DEF Finish, Results, Empty, ThreadInv, TypeOK
  <2>7. pc' = "wait" /\ ~threads'[tNum' + 1].running => result' # Empty
    <3>1. CASE FrameAlive(t)
      BY <1>12, <3>1, <2>5, EmptyIsNoResult DEF Finish
    <3>2. CASE ~FrameAlive(t)
      BY <1>12, <3>2, <2>3, <2>6 DEF Finish, FrameAlive, ThreadInv, HandOver,
         NewestThreadOnly
    <3> QED BY <3>1, <3>2
  <2>8. NewestThreadOnly' /\ NeverTerminated'
    BY <1>12, <2>1, <2>3, <2>4 DEF Finish, ThreadInv, NewestThreadOnly, NeverTerminated
  <2> QED
    BY <1>12, <2>3, <2>6, <2>7, <2>8 DEF Finish, ThreadInv, TypeOK, HandOver
<1> QED
  BY <1>0, <1>1, <1>2, <1>3, <1>4, <1>5, <1>6, <1>7, <1>8, <1>9, <1>10, <1>11, <1>12
  DEF Next, Manager, SearchGoesOn, Ended

(* Every variable keeps its type in every behaviour of the code, whatever
   a write to a destroyed mgr does. *)
THEOREM TypeCorrect == Spec => []TypeOK
BY ThreadInvInit, ThreadInvStep, PTL DEF Spec, ThreadInv

(* Every thread run_mix starts is joined or detached in the visit that started
   it, for t_num is its index, however many visits the cache served. *)
THEOREM ThreadsAccountedFor == Spec => []NewestThreadOnly
BY ThreadInvInit, ThreadInvStep, PTL DEF Spec, ThreadInv

(* So destroying the vector of threads never ends the program. *)
THEOREM NoTermination == Spec => []NeverTerminated
BY ThreadInvInit, ThreadInvStep, PTL DEF Spec, ThreadInv

-----------------------------------------------------------------------------
(* A thread was joined only if its function is in the cache or is about to be *)

JoinedIsCached ==
  \A t \in 1 .. Len(threads) :
    threads[t].handle = "joined" =>
      \/ Function[threads[t].node] \in DOMAIN cache
      \/ pc \in {"copy", "store"} /\ threads[t].node = n

RepeatInv == JoinedIsCached /\ RepeatedOnlyAfterTimeout

(* A step repeats no search whose result was joined, but for a timeout.    *)
LEMMA RepeatInvStep ==
  ThreadInv /\ ThreadInv' /\ RepeatInv /\ [Next]_vars => RepeatInv'
<1> SUFFICES ASSUME ThreadInv, ThreadInv', RepeatInv, [Next]_vars PROVE RepeatInv'
  OBVIOUS
<1>0. CASE UNCHANGED vars
  BY <1>0 DEF vars, RepeatInv, JoinedIsCached, RepeatedOnlyAfterTimeout
<1>a. threads \in Seq(Thread) /\ tNum \in Nat
  BY DEF ThreadInv, TypeOK
<1>1. ASSUME NEW x \in Node, Skip(x) \/ UseCached(x) \/ Decompose(x) \/ Search(x)
      PROVE  RepeatInv'
  <2>1. threads' = threads /\ cache' = cache /\ pc = "visit"
    BY <1>1 DEF Skip, UseCached, Decompose, Search, Visiting
  <2> QED BY <2>1 DEF RepeatInv, JoinedIsCached, RepeatedOnlyAfterTimeout
<1>2. ASSUME NEW x \in Node, Start(x) PROVE RepeatInv'
  <2> DEFINE th == [node |-> x, handle |-> "joinable", running |-> TRUE]
  <2>1. /\ threads' = Append(threads, th) /\ Len(threads) = tNum
        /\ \A t \in 1 .. tNum : threads[t].handle # "joinable"
        /\ pc = "visit" /\ cache' = cache /\ Function[x] \notin DOMAIN cache
    BY <1>2 DEF Start, Visiting, ThreadInv, NewestThreadOnly
  <2>2. /\ Len(threads') = tNum + 1 /\ threads'[tNum + 1] = th
        /\ \A t \in 1 .. tNum : threads'[t] = threads[t] /\ threads[t] \in Thread
    BY <1>a, <2>1
  <2>3. JoinedIsCached'
    BY <1>a, <2>1, <2>2 DEF RepeatInv, JoinedIsCached
  <2>4. ASSUME NEW s \in DOMAIN threads', NEW t \in DOMAIN threads', s < t,
               Function[threads'[s].node] = Function[threads'[t].node]
        PROVE  threads'[s].handle = "detached"
    <3>1. DOMAIN threads = 1 .. tNum /\ DOMAIN threads' = 1 .. tNum + 1
      BY <1>a, <2>1, <2>2
    <3>2. CASE t = tNum + 1
      <4>1. s \in 1 .. tNum /\ Function[threads[s].node] = Function[x]
        BY <1>a, <3>1, <3>2, <2>2, <2>4
      <4>2. threads[s].handle # "joined"
        BY <4>1, <2>1 DEF RepeatInv, JoinedIsCached
      <4> QED BY <4>1, <4>2, <2>1, <2>2 DEF Thread
    <3>3. CASE t # tNum + 1
      BY <1>a, <3>1, <3>3, <2>2, <2>4 DEF RepeatInv, RepeatedOnlyAfterTimeout
    <3> QED BY <3>2, <3>3
  <2> QED BY <2>3, <2>4 DEF RepeatInv, RepeatedOnlyAfterTimeout
<1>3. ASSUME SearchEnds \/ CopyResult PROVE RepeatInv'
  BY <1>3 DEF SearchEnds, CopyResult, RepeatInv, JoinedIsCached, RepeatedOnlyAfterTimeout,
     NewestThreadOnly
<1>4. ASSUME NEW h \in {"joined", "detached"}, pc = "wait",
             threads' = [threads EXCEPT ![tNum + 1].handle = h],
             h = "joined" => pc' = "copy" /\ n' = n, cache' = cache
      PROVE  RepeatInv'
  <2>1. Len(threads) = tNum + 1 /\ threads[tNum + 1].node = n
    BY <1>4 DEF ThreadInv, NewestThreadOnly
  <2>2. /\ Len(threads') = tNum + 1 /\ threads'[tNum + 1].node = n
        /\ threads'[tNum + 1].handle = h
        /\ \A t \in 1 .. tNum : threads'[t] = threads[t]
        /\ DOMAIN threads' = DOMAIN threads /\ DOMAIN threads = 1 .. tNum + 1
    BY <1>a, <1>4, <2>1 DEF Thread
  <2>3. JoinedIsCached'
    BY <1>a, <1>4, <2>1, <2>2 DEF RepeatInv, JoinedIsCached
  <2>4. RepeatedOnlyAfterTimeout'
    BY <1>a, <2>1, <2>2 DEF RepeatInv, RepeatedOnlyAfterTimeout
  <2> QED BY <2>3, <2>4 DEF RepeatInv
<1>5. ASSUME StoreResult PROVE RepeatInv'
  BY <1>5 DEF StoreResult, Leave, RepeatInv, JoinedIsCached, RepeatedOnlyAfterTimeout
<1>6. ASSUME Return PROVE RepeatInv'
  BY <1>6 DEF Return, RepeatInv, JoinedIsCached, RepeatedOnlyAfterTimeout
<1>7. ASSUME NEW t \in DOMAIN threads, Finish(t) PROVE RepeatInv'
  <2>1. /\ DOMAIN threads' = DOMAIN threads /\ Len(threads') = Len(threads)
        /\ \A s \in DOMAIN threads : /\ threads'[s].handle = threads[s].handle
                                     /\ threads'[s].node = threads[s].node
    BY <1>a, <1>7 DEF Finish, Thread
  <2> QED
    BY <1>a, <1>7, <2>1 DEF Finish, RepeatInv, JoinedIsCached, RepeatedOnlyAfterTimeout
<1> QED
  <2>1. CASE Join
    BY <2>1, <1>4 DEF Join
  <2>2. CASE Timeout
    BY <2>2, <1>4 DEF Timeout
  <2> QED
    BY <2>1, <2>2, <1>0, <1>1, <1>2, <1>3, <1>5, <1>6, <1>7
    DEF Next, Manager, SearchGoesOn, Ended, vars

(* One function is searched for a second time only after every earlier search
   for it had timed out: the cache saves all other repetitions. *)
THEOREM NoNeedlessSearch == Spec => []RepeatedOnlyAfterTimeout
<1>1. Init => RepeatInv
  BY DEF Init, RepeatInv, JoinedIsCached, RepeatedOnlyAfterTimeout
<1> QED
  BY <1>1, RepeatInvStep, ThreadInvInit, ThreadInvStep, PTL DEF Spec, RepeatInv

-----------------------------------------------------------------------------
(* What is true of the mapping itself, when writes to a destroyed mgr are
   lost: then result and copied only ever hold the function being visited *)

WritesLost == FreedWrite \subseteq {"lost"}

ResultIsOwn ==
  /\ pc = "wait" /\ ~threads[tNum + 1].running =>
       result = <<Function[n]>> /\ Function[n] \in Solvable
  /\ pc \in {"copy", "store"} => result = <<Function[n]>> /\ Function[n] \in Solvable
  /\ pc = "store" => copied = <<Function[n]>>

(* The nodes visited so far are those below n; the others are as they were. *)
VisitedInOrder ==
  \A x \in Node : /\ repl[x].origin # "itself" <=> x \in Wide /\ x < n
                  /\ repl[x].origin = "itself" => repl[x].width = Width[x]

(* What is left in place, and what replaces it, is narrow enough. *)
NarrowSoFar ==
  \A x \in Node : x < n /\ CutSize >= DsdLeaf => repl[x].width <= CutSize

AllVisited == pc \in {"returned", "terminated"} => n > NumNodes

MapInv ==
  ResultIsOwn /\ CacheSound /\ FunctionPreserved /\ VisitedInOrder /\ NarrowSoFar
  /\ AllVisited

(* The invariant about the mapping holds initially ...                      *)
LEMMA MapInvInit == Init => MapInv
<1> SUFFICES ASSUME Init PROVE MapInv
  OBVIOUS
<1>1. \A x \in Node : repl[x] = [origin |-> "itself", func |-> Function[x], width |-> Width[x]]
  BY SubNetworkType DEF Init
<1> QED
  BY <1>1, ConstantsAssumption
  DEF Init, MapInv, ResultIsOwn, CacheSound, FunctionPreserved, VisitedInOrder,
      NarrowSoFar, AllVisited, Node, ConstantsAssumption

(* The three ways a visit may end, each followed by the next visit. *)
LEMMA Replaced ==
  ASSUME ThreadInv, MapInv, NEW x \in Node, x = n, n' = n + 1, NEW sub,
         repl' = [repl EXCEPT ![x] = sub], x \in Wide,
         sub.origin # "itself", sub.func = Function[x],
         CutSize >= DsdLeaf => sub.width <= CutSize
  PROVE  FunctionPreserved' /\ VisitedInOrder' /\ NarrowSoFar'
<1>1. repl \in [Node -> [origin : {"itself", "exact", "dsd"}, func : Functions, width : Nat]]
  BY DEF ThreadInv, TypeOK
<1>2. repl'[x] = sub /\ \A y \in Node : y # x => repl'[y] = repl[y]
  BY <1>1
<1> QED
  BY <1>2, ConstantsAssumption DEF MapInv, FunctionPreserved, VisitedInOrder, NarrowSoFar,
     Node, ConstantsAssumption

(* ... and every step keeps it, when late writes are lost.                 *)
LEMMA MapInvStep ==
  WritesLost /\ ThreadInv /\ ThreadInv' /\ MapInv /\ [Next]_vars => MapInv'
<1> SUFFICES ASSUME WritesLost, ThreadInv, ThreadInv', MapInv, [Next]_vars PROVE MapInv'
  OBVIOUS
<1> USE ConstantsAssumption DEF ConstantsAssumption
<1>0. CASE UNCHANGED vars
  BY <1>0 DEF vars, MapInv, ResultIsOwn, CacheSound, FunctionPreserved, VisitedInOrder,
     NarrowSoFar, AllVisited
<1>a. threads \in Seq(Thread) /\ tNum \in Nat /\ n \in Nat
  BY DEF ThreadInv, TypeOK
<1>1. ASSUME NEW x \in Node, Skip(x) PROVE MapInv'
  <2>1. Width[x] \in Nat /\ Width[x] <= CutSize /\ x \notin Wide /\ n = x
    BY <1>1 DEF Skip, Visiting, Wide
  <2>2. repl[x].width <= CutSize
    BY <2>1 DEF MapInv, VisitedInOrder
  <2> QED
    BY <1>1, <2>1, <2>2 DEF Skip, Visiting, Leave, MapInv, ResultIsOwn, CacheSound,
       FunctionPreserved, VisitedInOrder, NarrowSoFar, AllVisited, Node
<1>2. ASSUME NEW x \in Node, UseCached(x) PROVE MapInv'
  <2>1. cache[Function[x]] = <<Function[x]>> /\ x = n /\ x \in Wide
    BY <1>2 DEF UseCached, Visiting, MapInv, CacheSound
  <2> DEFINE sub == FromExact(cache[Function[x]])
  <2>2. sub.origin = "exact" /\ sub.func = Function[x] /\ sub.width <= CutSize
    BY <2>1, SubNetworkType, EmptyIsNoResult DEF FromExact, SubNetwork
  <2>3. FunctionPreserved' /\ VisitedInOrder' /\ NarrowSoFar'
    <3>1. repl' = [repl EXCEPT ![x] = sub] /\ n' = n + 1
      BY <1>2 DEF UseCached, Substitute, Leave
    <3> HIDE DEF sub
    <3> QED BY <2>1, <2>2, <3>1, Replaced
  <2> QED
    BY <1>2, <2>3 DEF UseCached, Leave, MapInv, ResultIsOwn, CacheSound, AllVisited
<1>3. ASSUME NEW x \in Node, x = n, x \in Wide, Substitute(x, FromDsd(x)), Leave, cache' = cache
      PROVE MapInv'
  <2>1. FromDsd(x).origin = "dsd" /\ FromDsd(x).func = Function[x]
    BY SubNetworkType
  <2>2. CutSize >= DsdLeaf => FromDsd(x).width <= CutSize
    BY DEF FromDsd, SubNetwork, DsdLeaf
  <2>3. FunctionPreserved' /\ VisitedInOrder' /\ NarrowSoFar'
    BY <1>3, <2>1, <2>2, Replaced DEF Substitute, Leave
  <2> QED
    BY <1>3, <2>3 DEF Leave, MapInv, ResultIsOwn, CacheSound, AllVisited
<1>4. ASSUME NEW x \in Node, Search(x) \/ Start(x) PROVE MapInv'
  <2>1. CASE Search(x)
    BY <2>1 DEF Search, MapInv, ResultIsOwn, CacheSound, FunctionPreserved,
       VisitedInOrder, NarrowSoFar, AllVisited
  <2>2. CASE Start(x)
    <3>1. threads'[tNum + 1].running
      BY <1>a, <2>2 DEF Start, Visiting, ThreadInv, NewestThreadOnly
    <3> QED
      BY <2>2, <3>1 DEF Start, MapInv, ResultIsOwn, CacheSound, FunctionPreserved,
         VisitedInOrder, NarrowSoFar, AllVisited
  <2> QED BY <1>4, <2>1, <2>2
<1>5. ASSUME SearchEnds \/ Join \/ CopyResult PROVE MapInv'
  BY <1>5 DEF SearchEnds, Join, CopyResult, MapInv, ResultIsOwn, CacheSound,
     FunctionPreserved, VisitedInOrder, NarrowSoFar, AllVisited
<1>6. ASSUME StoreResult PROVE MapInv'
  <2>1. /\ result = <<Function[n]>> /\ copied = <<Function[n]>>
        /\ Function[n] \in Solvable /\ n \in Node /\ n \in Wide
    BY <1>6 DEF StoreResult, MapInv, ResultIsOwn, ThreadInv, HandOver, Wide
  <2> DEFINE sub == FromExact(copied)
  <2>2. sub.origin = "exact" /\ sub.func = Function[n] /\ sub.width <= CutSize
    BY <2>1, SubNetworkType, EmptyIsNoResult DEF FromExact, SubNetwork
  <2>3. FunctionPreserved' /\ VisitedInOrder' /\ NarrowSoFar'
    <3>1. repl' = [repl EXCEPT ![n] = sub] /\ n' = n + 1
      BY <1>6 DEF StoreResult, Substitute, Leave
    <3> HIDE DEF sub
    <3> QED BY <2>1, <2>2, <3>1, Replaced
  <2>4. CacheSound'
    BY <1>6, <2>1 DEF StoreResult, MapInv, CacheSound
  <2> QED
    BY <1>6, <2>3, <2>4 DEF StoreResult, Leave, MapInv, ResultIsOwn, AllVisited
<1>7. ASSUME Return PROVE MapInv'
  BY <1>7 DEF Return, MapInv, ResultIsOwn, CacheSound, FunctionPreserved, VisitedInOrder,
     NarrowSoFar, AllVisited
<1>8. ASSUME NEW t \in DOMAIN threads, Finish(t) PROVE MapInv'
  <2>1. /\ threads[t].running /\ threads'[t] = [threads[t] EXCEPT !.running = FALSE]
        /\ \A s \in DOMAIN threads : s # t => threads'[s] = threads[s]
        /\ Function[threads[t].node] \in Solvable
    BY <1>a, <1>8 DEF Finish
  <2>2. ResultIsOwn'
    <3>1. CASE FrameAlive(t)
      <4>1. threads[t].node = n
        BY <3>1 DEF FrameAlive, ThreadInv, NewestThreadOnly
      <4> QED
        BY <1>8, <2>1, <3>1, <4>1 DEF Finish, FrameAlive, MapInv, ResultIsOwn
    <3>2. CASE ~FrameAlive(t)
      <4>1. result' = result
        BY <1>8, <3>2 DEF Finish, WritesLost
      <4>2. pc = "wait" => threads'[tNum + 1] = threads[tNum + 1]
        BY <1>a, <2>1, <3>2 DEF FrameAlive, ThreadInv, NewestThreadOnly
      <4> QED
        BY <1>8, <4>1, <4>2 DEF Finish, MapInv, ResultIsOwn
    <3> QED BY <3>1, <3>2
  <2> QED
    BY <1>8, <2>2 DEF Finish, MapInv, CacheSound, FunctionPreserved, VisitedInOrder,
       NarrowSoFar, AllVisited
<1> QED
  <2>1. ASSUME NEW x \in Node, Decompose(x) PROVE MapInv'
    BY <2>1, <1>3 DEF Decompose, Visiting
  <2>2. CASE Timeout
    BY <2>2, <1>3 DEF Timeout, ThreadInv, HandOver, Wide
  <2> QED
    BY <2>1, <2>2, <1>0, <1>1, <1>2, <1>4, <1>5, <1>6, <1>7, <1>8
    DEF Next, Manager, SearchGoesOn, Ended, vars

(* Every replacement computes the function of the LUT it stands for, in every
   network and under every schedule of the searches, if no write to a
   destroyed mgr lands in a later one. *)
THEOREM MappingPreservesFunctions == WritesLost => (Spec => []FunctionPreserved)
<1> SUFFICES ASSUME WritesLost PROVE Spec => []FunctionPreserved
  OBVIOUS
<1>1. Init => ThreadInv /\ MapInv
  BY ThreadInvInit, MapInvInit
<1>2. ThreadInv /\ MapInv /\ [Next]_vars => (ThreadInv /\ MapInv)'
  BY ThreadInvStep, MapInvStep
<1>3. ThreadInv /\ MapInv => FunctionPreserved
  BY DEF MapInv
<1> QED BY <1>1, <1>2, <1>3, PTL DEF Spec

(* An entry of the cache is the finished synthesis of its own key. *)
THEOREM CacheHoldsItsKeys == WritesLost => (Spec => []CacheSound)
<1> SUFFICES ASSUME WritesLost PROVE Spec => []CacheSound
  OBVIOUS
<1>1. Init => ThreadInv /\ MapInv
  BY ThreadInvInit, MapInvInit
<1>2. ThreadInv /\ MapInv /\ [Next]_vars => (ThreadInv /\ MapInv)'
  BY ThreadInvStep, MapInvStep
<1>3. ThreadInv /\ MapInv => CacheSound
  BY DEF MapInv
<1> QED BY <1>1, <1>2, <1>3, PTL DEF Spec

(* From a cut size of four, the DSD leaf, on, the result has no wider LUT. *)
THEOREM ResultIsNarrow ==
  WritesLost /\ CutSize >= DsdLeaf => (Spec => []KFeasible)
<1> SUFFICES ASSUME WritesLost, CutSize >= DsdLeaf PROVE Spec => []KFeasible
  OBVIOUS
<1>1. Init => ThreadInv /\ MapInv
  BY ThreadInvInit, MapInvInit
<1>2. ThreadInv /\ MapInv /\ [Next]_vars => (ThreadInv /\ MapInv)'
  BY ThreadInvStep, MapInvStep
<1>3. ThreadInv /\ MapInv => KFeasible
  <2>1. ASSUME ThreadInv, MapInv, pc = "returned", NEW x \in Node
        PROVE  repl[x].width <= CutSize
    <3>1. n > NumNodes /\ n \in Nat /\ x < n
      BY <2>1, ConstantsAssumption
      DEF MapInv, AllVisited, ThreadInv, TypeOK, Node, ConstantsAssumption
    <3> QED BY <2>1, <3>1 DEF MapInv, NarrowSoFar
  <2> QED BY <2>1 DEF KFeasible
<1> QED BY <1>1, <1>2, <1>3, PTL DEF Spec

-----------------------------------------------------------------------------
(* The implementation of LutMapping                                        *)

(* A visit goes on to the next node or stays at its own, and only the last
   step of the mapping makes pc "returned". *)
LEMMA VisitSteps ==
  ASSUME ThreadInv, NEW x \in Node,
         \/ Skip(x) \/ UseCached(x) \/ Decompose(x) \/ Search(x) \/ Start(x)
         \/ SearchEnds \/ Join \/ Timeout \/ CopyResult \/ StoreResult
  PROVE  /\ pc # "returned" /\ pc' # "returned"
         /\ n' = n \/ (n' = n + 1 /\ n \in Node)
BY DEF Skip, UseCached, Decompose, Search, Start, SearchEnds, Join, Timeout, CopyResult,
   StoreResult, Visiting, Leave, ThreadInv, HandOver, Wide

(* Every step of the code is a step of the abstract mapping or a stutter.  *)
LEMMA RefinedStep ==
  ThreadInv /\ MapInv /\ MapInv' /\ [Next]_vars => [Abstract!Next]_(Abstract!vars)
<1> SUFFICES ASSUME ThreadInv, MapInv, MapInv', [Next]_vars
             PROVE  [Abstract!Next]_(Abstract!vars)
  OBVIOUS
<1> DEFINE computes == [x \in Node |-> repl[x].func]
           replaced == {x \in Node : repl[x].origin # "itself"}
           finished == pc = "returned"
<1>1. computes' = computes
  <2>1. \A x \in Node : repl[x].func = Function[x] /\ repl'[x].func = Function[x]
    BY DEF MapInv, FunctionPreserved
  <2> QED BY <2>1
<1>2. /\ replaced = {x \in Node : x \in Wide /\ x < n}
      /\ replaced' = {x \in Node : x \in Wide /\ x < n'}
  <2>1. \A x \in Node : repl[x].origin # "itself" <=> x \in Wide /\ x < n
    BY DEF MapInv, VisitedInOrder
  <2>2. \A x \in Node : repl'[x].origin # "itself" <=> x \in Wide /\ x < n'
    BY DEF MapInv, VisitedInOrder
  <2>3. replaced = {x \in Node : x \in Wide /\ x < n}
    BY <2>1
  <2>4. replaced' = {x \in Node : x \in Wide /\ x < n'}
    BY <2>2
  <2> QED BY <2>3, <2>4
<1>3. n \in Nat
  BY ConstantsAssumption DEF ThreadInv, TypeOK, ConstantsAssumption
<1>4. ASSUME n' = n, finished' = finished PROVE [Abstract!Next]_(Abstract!vars)
  BY <1>1, <1>2, <1>4 DEF Abstract!vars
<1>5. ASSUME n' = n + 1, n \in Node, ~finished, ~finished'
      PROVE  [Abstract!Next]_(Abstract!vars)
  <2>1. CASE n \in Wide
    <3> PICK x \in Wide : x = n
      BY <2>1
    <3>1. replaced' = replaced \cup {x} /\ x \notin replaced
      BY <1>2, <1>3, <1>5, <2>1 DEF Wide, Node
    <3>2. Abstract!Replace(x)
      BY <1>1, <1>5, <3>1 DEF Abstract!Replace
    <3> QED BY <3>2 DEF Abstract!Next
  <2>2. CASE n \notin Wide
    <3>1. replaced' = replaced
      BY <1>2, <1>3, <1>5, <2>2 DEF Wide, Node
    <3> QED BY <1>1, <1>5, <3>1 DEF Abstract!vars
  <2> QED BY <2>1, <2>2
<1>6. CASE Return
  <2>1. pc' = "returned" /\ pc = "visit" /\ n > NumNodes /\ n' = n
    BY <1>6 DEF Return, ThreadInv, TypeOK, NewestThreadOnly
  <2>2. replaced = Wide /\ replaced' = replaced
    BY <1>2, <1>3, <2>1, ConstantsAssumption DEF Wide, Node, ConstantsAssumption
  <2>3. Abstract!Finish
    BY <1>1, <2>1, <2>2 DEF Abstract!Finish
  <2> QED BY <2>3 DEF Abstract!Next
<1>7. ASSUME NEW x \in Node,
             \/ Skip(x) \/ UseCached(x) \/ Decompose(x) \/ Search(x) \/ Start(x)
             \/ SearchEnds \/ Join \/ Timeout \/ CopyResult \/ StoreResult
      PROVE  [Abstract!Next]_(Abstract!vars)
  <2>1. ~finished /\ ~finished' /\ (n' = n \/ (n' = n + 1 /\ n \in Node))
    BY <1>7, VisitSteps
  <2> QED BY <2>1, <1>4, <1>5
<1>8. CASE UNCHANGED vars \/ \E t \in DOMAIN threads : Finish(t)
  BY <1>4, <1>8 DEF vars, Finish
<1>9. CASE SearchEnds \/ Join \/ Timeout \/ CopyResult \/ StoreResult
  <2>1. n \in Node
    BY <1>9 DEF ThreadInv, HandOver, Wide, SearchEnds, Join, Timeout, CopyResult,
       StoreResult
  <2> QED BY <2>1, <1>7, <1>9
<1> QED
  BY <1>6, <1>7, <1>8, <1>9 DEF Next, Manager, SearchGoesOn, Ended

(* The mapper implements LutMapping: every wide LUT is replaced once, by a
   sub-network that computes its function, before the mapping returns. *)
THEOREM Refinement == WritesLost => (Spec => ImplementsLutMapping)
<1> SUFFICES ASSUME WritesLost PROVE Spec => ImplementsLutMapping
  OBVIOUS
<1>1. Init => ThreadInv /\ MapInv
  BY ThreadInvInit, MapInvInit
<1>2. ThreadInv /\ MapInv /\ [Next]_vars => (ThreadInv /\ MapInv)'
  BY ThreadInvStep, MapInvStep
<1>3. Init => Abstract!Init
  <2> SUFFICES ASSUME Init PROVE Abstract!Init
    OBVIOUS
  <2>1. \A x \in Node : repl[x].func = Function[x] /\ repl[x].origin = "itself"
    BY SubNetworkType DEF Init
  <2>2. [x \in Node |-> repl[x].func] = Function
    BY <2>1, ConstantsAssumption DEF ConstantsAssumption
  <2>3. {x \in Node : repl[x].origin # "itself"} = {}
    BY <2>1
  <2> QED BY <2>2, <2>3 DEF Init, Abstract!Init
<1>4. ThreadInv /\ MapInv /\ (ThreadInv /\ MapInv)' /\ [Next]_vars
        => [Abstract!Next]_(Abstract!vars)
  BY RefinedStep
<1> QED BY <1>1, <1>2, <1>3, <1>4, PTL DEF Spec, ImplementsLutMapping, Abstract!Spec
=============================================================================
