--------------------------- MODULE NetworkStores ---------------------------
(***************************************************************************)
(* The stores of the shell and the networks their elements stand for.      *)
(*                                                                         *)
(* An element of a store is a handle, not a network: a mockturtle network  *)
(* is a shared pointer to its storage, an ABC network and a GIA are raw    *)
(* pointers.  Copying an element copies the handle, so a command that      *)
(* optimises "a copy" of the current element changes the storage the       *)
(* element still refers to.  This module has the storage (net), the stores *)
(* of handles, and the effects that commands are made of.                  *)
(***************************************************************************)
EXTENDS Integers, Sequences, SequencesExt

CONSTANTS
  Designs,       \* the functions of the files and expressions the user has
  Types,         \* the stores in use
  Faulty,        \* the commands whose engine may return a network of another function
  MaxNetworks,   \* bound: networks built
  MaxStored      \* bound: elements of a store

LogicTypes == {"aig", "mig", "xmg", "xag", "lut"}
StoreTypes == LogicTypes \cup {"abc", "gia"}

ASSUME StoresAssumption ==
  /\ Types \subseteq StoreTypes
  /\ MaxNetworks \in Nat /\ MaxStored \in Nat
  /\ "garbled" \notin Designs

VARIABLES
  net,       \* the networks built: what each computes and its form
  store,     \* _data of each store: handles, that is indices of net, or NULL
  current,   \* _current of each store plus one: 0 when there is none
  up,        \* FALSE once the process has ended
  said       \* what the last command reported, <<>> if nothing that matters here

storeVars == <<net, store, current>>

NULL == 0

\* plain: a mockturtle network in topological order; rewired: one whose nodes
\* were substituted in place; strash, logic: an ABC network of that type;
\* partial: an ABC AIG whose rewriting was broken off; gia, mapped, cells: a
\* GIA without mapping, with a LUT mapping, with a cell mapping.
Forms == {"plain", "rewired", "strash", "logic", "partial", "gia", "mapped", "cells"}

\* A network that computes no design of the user's is garbled.
Functions == Designs \cup {"garbled"}

Network == [computes : Functions, form : Forms]

StoresInit ==
  /\ net = <<>>
  /\ store = [t \in StoreTypes |-> <<>>]
  /\ current = [t \in StoreTypes |-> 0]
  /\ up = TRUE
  /\ said = <<>>

Quiet == said' = <<>>

Empty(t) == store[t] = <<>>

\* Mutant: the last element instead of the current one.
HandleLast(t) == store[t][Len(store[t])]

Handle(t) == store[t][current[t]]

\* The current element of t is there and is no NULL pointer.
Present(t) == ~Empty(t) /\ Handle(t) # NULL

Computes(t) == net[Handle(t)].computes

Form(t) == net[Handle(t)].form

\* What the engine behind a command may return for a network computing f.
Results(cmd, f) == IF cmd \in Faulty THEN Designs \cup {f} ELSE {f}

Room(t) == Len(net) < MaxNetworks /\ Len(store[t]) < MaxStored

\* Mutant: the element extend() made is never assigned.
PushUnassigned(t, h) ==
  /\ store' = [store EXCEPT ![t] = Append(@, NULL)]
  /\ current' = [current EXCEPT ![t] = Len(store[t]) + 1]
  /\ UNCHANGED up

\* extend() and the assignment to current() that follows it everywhere
Push(t, h) ==
  /\ store' = [store EXCEPT ![t] = Append(@, h)]
  /\ current' = [current EXCEPT ![t] = Len(store[t]) + 1]
  /\ UNCHANGED up

\* A new network becomes the last and current element.
PushBuilt(t, f, form) ==
  /\ Room(t)
  /\ net' = Append(net, [computes |-> f, form |-> form])
  /\ Push(t, Len(net) + 1)

\* Mutant: no cleanup_dangling, the handle itself is pushed.
InPlaceNoCopy(t, g, f) ==
  /\ Room(t)
  /\ net' = [net EXCEPT ![Handle(t)] = [computes |-> g, form |-> "rewired"]]
  /\ Push(t, Handle(t))

\* The storage of the current element comes to compute g, its nodes rewired,
\* and a network built from it that computes f is pushed.
InPlaceThenPush(t, g, f) ==
  /\ Room(t)
  /\ net' = Append([net EXCEPT ![Handle(t)] = [computes |-> g, form |-> "rewired"]],
                   [computes |-> f, form |-> "plain"])
  /\ Push(t, Len(net) + 1)

\* What is pushed is the copy that cleanup_dangling makes.
InPlace(t, f) == InPlaceThenPush(t, f, f)

\* The current element is rewritten and its own pointer pushed again.
PushAgain(t, form) ==
  /\ Room(t)
  /\ net' = [net EXCEPT ![Handle(t)] = [computes |-> Computes(t), form |-> form]]
  /\ Push(t, Handle(t))

PushNull(t) == Room(t) /\ Push(t, NULL) /\ UNCHANGED net

\* An uncaught exception, a failed assertion or a read through NULL.
Terminate == up' = FALSE /\ Quiet /\ UNCHANGED storeVars

\* current() of an empty store throws a string nobody catches.
NoCurrent(t) == Empty(t) /\ Terminate

----------------------------------------------------------------------------
(* The shell's own commands on stores. *)

\* current -t i
SetCurrent(t, i) ==
  /\ i \in 1 .. Len(store[t])
  /\ current' = [current EXCEPT ![t] = i]
  /\ Quiet /\ UNCHANGED <<net, store, up>>

\* Mutant: _current keeps pointing behind the last element.
PopKeepsIndex(t) ==
  /\ ~Empty(t) /\ current[t] # 0
  /\ store' = [store EXCEPT ![t] = RemoveAt(@, current[t])]
  /\ Quiet /\ UNCHANGED <<net, current, up>>

\* store --pop -t
Pop(t) ==
  /\ ~Empty(t) /\ current[t] # 0
  /\ store' = [store EXCEPT ![t] = RemoveAt(@, current[t])]
  /\ current' = [current EXCEPT ![t] = IF @ = Len(store[t]) THEN @ - 1 ELSE @]
  /\ Quiet /\ UNCHANGED <<net, up>>

\* store --clear -t
Clear(t) ==
  /\ store' = [store EXCEPT ![t] = <<>>]
  /\ current' = [current EXCEPT ![t] = 0]
  /\ Quiet /\ UNCHANGED <<net, up>>

\* read_aiger, read_verilog, read_bench, read_blif, read_gia: with --new or
\* into an empty store the network is pushed, else it takes the place of the
\* current element.
Replace(t, h) ==
  /\ Room(t)
  /\ store' = [store EXCEPT ![t][current[t]] = h]
  /\ UNCHANGED <<current, up>>

ReadIo(t, f, form, asNew) ==
  /\ Quiet
  /\ \/ (asNew \/ Empty(t)) /\ PushBuilt(t, f, form)
     \/ /\ ~asNew /\ ~Empty(t)
        /\ net' = Append(net, [computes |-> f, form |-> form])
        /\ Replace(t, Len(net) + 1)

\* Gia_AigerRead returns NULL for a file that is no AIGER file.
ReadNothing(t, asNew) ==
  /\ Quiet
  /\ \/ (asNew \/ Empty(t)) /\ PushNull(t)
     \/ ~asNew /\ ~Empty(t) /\ Replace(t, NULL) /\ UNCHANGED net
=============================================================================
