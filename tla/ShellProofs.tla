---------------------------- MODULE ShellProofs ----------------------------
(***************************************************************************)
(* For any designs, stores, engines and bounds: the stores stay what       *)
(* TypeOK says, their current elements exist, and no network is reached    *)
(* through two elements, except in the abc store.                          *)
(*                                                                         *)
(* The argument goes by what a command can do to the stores: nothing, push *)
(* one element, replace or rewrite the current one, or one of the commands *)
(* on stores.                                                              *)
(* Effect says so, one lemma per building block of the commands shows it,  *)
(* and the invariant is preserved by Effect alone.                         *)
(***************************************************************************)
EXTENDS Shell, SequenceTheorems, TLAPS

Inv ==
  /\ net \in Seq(Network) /\ Len(net) <= MaxNetworks
  /\ store \in [StoreTypes -> Seq(Nat)]
  /\ current \in [StoreTypes -> Nat]
  /\ up \in BOOLEAN
  /\ \A t \in StoreTypes : Len(store[t]) <= MaxStored
  /\ \A t \in StoreTypes : \A i \in 1 .. Len(store[t]) :
       store[t][i] \in 0 .. Len(net) /\ (t \in LogicTypes => store[t][i] # NULL)
  /\ CurrentIsSome
  /\ HandlesUnshared

AbcInv ==
  /\ names \in [pis : Nat, pos : Nat]
  /\ library \in BOOLEAN

\* h becomes the last and current element of t: a new network, or, in the
\* stores of pointers, one that is there or NULL.
Pushes(t, h) ==
  /\ Len(store[t]) < MaxStored
  /\ store' = [store EXCEPT ![t] = Append(@, h)]
  /\ current' = [current EXCEPT ![t] = Len(store[t]) + 1]
  /\ up' = up
  /\ net' \in Seq(Network) /\ Len(net') <= MaxNetworks
  /\ \/ h = Len(net) + 1 /\ Len(net') = Len(net) + 1
     \/ /\ t \in {"abc", "gia"} /\ Len(net') = Len(net)
        /\ h = NULL \/ (t = "abc" /\ ~Empty(t) /\ h = Handle(t))
  /\ \A k \in 1 .. Len(net) : net'[k] # net[k] => ~Empty(t) /\ k = Handle(t)

Replaces(t, h) ==
  /\ ~Empty(t)
  /\ store' = [store EXCEPT ![t][current[t]] = h]
  /\ current' = current /\ up' = up
  /\ net' \in Seq(Network) /\ Len(net') <= MaxNetworks
  /\ \/ h = Len(net) + 1 /\ Len(net') = Len(net) + 1
     \/ t = "gia" /\ h = NULL /\ Len(net') = Len(net)
  /\ \A k \in 1 .. Len(net) : net'[k] = net[k]

\* The network of the current element of t changes, and no store.
Rewires(t) ==
  /\ ~Empty(t)
  /\ store' = store /\ current' = current /\ up' = up
  /\ net' \in Seq(Network) /\ Len(net') = Len(net)
  /\ \A k \in 1 .. Len(net) : net'[k] # net[k] => k = Handle(t)

Effect ==
  \/ up' \in BOOLEAN /\ UNCHANGED storeVars
  \/ \E t \in StoreTypes :
       \/ \E h \in Nat : Pushes(t, h) \/ Replaces(t, h)
       \/ Rewires(t)
       \/ Pop(t) \/ Clear(t)
       \/ \E i \in Nat : SetCurrent(t, i)

----------------------------------------------------------------------------
(* The current element of a store that has one is a network that was built. *)
LEMMA CurrentIsBuilt ==
  ASSUME Inv, NEW t \in StoreTypes, Present(t)
  PROVE  /\ Handle(t) \in 1 .. Len(net)
         /\ Computes(t) \in Functions
         /\ Form(t) \in Forms
<1>1. current[t] \in 1 .. Len(store[t])
  BY DEF Inv, CurrentIsSome, Present, Empty
<1>2. Handle(t) \in 1 .. Len(net)
  BY <1>1 DEF Inv, Handle, Present, NULL
<1>3. net[Handle(t)] \in Network
  BY <1>2, ElementOfSeq DEF Inv
<1> QED
  BY <1>2, <1>3 DEF Computes, Form, Network

(* In the stores of mockturtle networks every element is one.               *)
LEMMA LogicIsPresent ==
  ASSUME Inv, NEW t \in LogicTypes, ~Empty(t)
  PROVE  t \in StoreTypes /\ Present(t)
<1>1. t \in StoreTypes
  BY DEF StoreTypes
<1>2. current[t] \in 1 .. Len(store[t])
  BY <1>1 DEF Inv, CurrentIsSome, Empty
<1> QED
  BY <1>1, <1>2 DEF Inv, Present, Handle

(* Engines return functions.                                                *)
LEMMA ResultsAreFunctions ==
  ASSUME NEW cmd, NEW f \in Functions
  PROVE  Results(cmd, f) \subseteq Functions
BY DEF Results, Functions
----------------------------------------------------------------------------
(* The building blocks of the commands. *)

(* A new network is pushed.                                                 *)
LEMMA BuiltEffect ==
  ASSUME Inv, NEW t \in StoreTypes, NEW f \in Functions, NEW form \in Forms,
         PushBuilt(t, f, form)
  PROVE  Effect
<1> DEFINE new == [computes |-> f, form |-> form]
<1>1. new \in Network
  BY DEF Network
<1>2. net \in Seq(Network) /\ net' = Append(net, new)
  BY DEF Inv, PushBuilt
<1>3. /\ net' \in Seq(Network) /\ Len(net') = Len(net) + 1
      /\ \A i \in 1 .. Len(net) : net'[i] = net[i]
      /\ net'[Len(net) + 1] = new
  BY <1>1, <1>2, AppendProperties
<1>4. Len(net) \in Nat
  BY <1>2, LenProperties
<1>5. Len(net') <= MaxNetworks
  BY <1>3, <1>4, StoresAssumption DEF PushBuilt, Room
<1>6. Pushes(t, Len(net) + 1)
  BY <1>3, <1>5 DEF PushBuilt, Room, Push, Pushes
<1> QED
  BY <1>4, <1>6 DEF Effect

(* The current network is rewritten, and one built from it is pushed.       *)
LEMMA InPlaceEffect ==
  ASSUME Inv, NEW t \in LogicTypes, ~Empty(t), NEW g \in Functions, NEW f \in Functions,
         InPlaceThenPush(t, g, f)
  PROVE  Effect
<1> DEFINE old == [net EXCEPT ![Handle(t)] = [computes |-> g, form |-> "rewired"]]
           new == [computes |-> f, form |-> "plain"]
<1>1. t \in StoreTypes
  BY DEF StoreTypes
<1>2. Handle(t) \in 1 .. Len(net)
  BY LogicIsPresent, CurrentIsBuilt
<1>3. new \in Network /\ [computes |-> g, form |-> "rewired"] \in Network
  BY DEF Network, Forms
<1>4. net \in Seq(Network) /\ net' = Append(old, new)
  BY DEF Inv, InPlaceThenPush
<1>5. /\ old \in Seq(Network) /\ Len(old) = Len(net)
      /\ \A i \in 1 .. Len(net) : old[i] # net[i] => i = Handle(t)
  <2> DEFINE r == [computes |-> g, form |-> "rewired"]
  <2>1. /\ [net EXCEPT ![Handle(t)] = r] \in Seq(Network)
        /\ Len([net EXCEPT ![Handle(t)] = r]) = Len(net)
        /\ \A j \in 1 .. Len(net) : [net EXCEPT ![Handle(t)] = r][j] = IF j = Handle(t) THEN r ELSE net[j]
    BY <1>2, <1>3, <1>4, ExceptSeq
  <2> QED
    BY <2>1
<1>6. /\ net' \in Seq(Network) /\ Len(net') = Len(net) + 1
      /\ \A i \in 1 .. Len(net) : net'[i] = old[i]
      /\ net'[Len(net) + 1] = new
  <2> HIDE DEF old, new
  <2> QED
    BY <1>3, <1>4, <1>5, AppendProperties
<1>7. Len(net) \in Nat
  BY <1>4, LenProperties
<1>8. Len(net') <= MaxNetworks
  BY <1>6, <1>7, StoresAssumption DEF InPlaceThenPush, Room
<1>9. \A k \in 1 .. Len(net) : net'[k] # net[k] => k = Handle(t)
  BY <1>5, <1>6
<1>10. Pushes(t, Len(net) + 1)
  BY <1>6, <1>8, <1>9 DEF InPlaceThenPush, Room, Push, Pushes
<1> QED
  BY <1>1, <1>7, <1>10 DEF Effect

(* The pointer of an ABC network is pushed once more.                       *)
LEMMA PushAgainEffect ==
  ASSUME Inv, Present("abc"), NEW form \in Forms, PushAgain("abc", form)
  PROVE  Effect
<1> DEFINE h == Handle("abc")
           r == [computes |-> Computes("abc"), form |-> form]
<1>1. "abc" \in StoreTypes
  BY DEF StoreTypes
<1>2. h \in 1 .. Len(net) /\ net \in Seq(Network) /\ Len(net) \in Nat
  BY <1>1, CurrentIsBuilt, LenProperties DEF Inv
<1>3. r \in Network
  BY <1>1, CurrentIsBuilt DEF Network
<1>4. net' = [net EXCEPT ![h] = r]
  BY DEF PushAgain
<1>5. /\ net' \in Seq(Network) /\ Len(net') = Len(net)
      /\ \A k \in 1 .. Len(net) : net'[k] # net[k] => k = h
  <2> HIDE DEF r, h
  <2> QED
    BY <1>2, <1>3, <1>4, ExceptSeq
<1>6. Len(net') <= MaxNetworks
  BY <1>5 DEF Inv
<1>7. ~Empty("abc") /\ "abc" \notin LogicTypes /\ h \in 0 .. Len(net)
  BY <1>2 DEF Present, LogicTypes
<1>8. Pushes("abc", h)
  BY <1>5, <1>6, <1>7 DEF PushAgain, Room, Push, Pushes
<1> QED
  BY <1>1, <1>2, <1>8 DEF Effect

(* A rewritten network that fails ABC's check stays in its store.           *)
LEMMA FailsCheckEffect ==
  ASSUME Inv, Present("abc"), FailsCheck
  PROVE  Effect
<1> DEFINE h == Handle("abc")
           r == [computes |-> "garbled", form |-> "partial"]
<1>1. "abc" \in StoreTypes
  BY DEF StoreTypes
<1>2. h \in 1 .. Len(net) /\ net \in Seq(Network)
  BY <1>1, CurrentIsBuilt DEF Inv
<1>3. r \in Network
  BY DEF Network, Functions, Forms
<1>4. net' = [net EXCEPT ![h] = r]
  BY DEF FailsCheck
<1>5. /\ net' \in Seq(Network) /\ Len(net') = Len(net)
      /\ \A k \in 1 .. Len(net) : net'[k] # net[k] => k = h
  <2> HIDE DEF r, h
  <2> QED
    BY <1>2, <1>3, <1>4, ExceptSeq
<1>6. Rewires("abc")
  BY <1>5 DEF FailsCheck, Present, Rewires
<1> QED
  BY <1>1, <1>6 DEF Effect

(* NULL is pushed.                                                          *)
LEMMA PushNullEffect ==
  ASSUME Inv, NEW t \in {"abc", "gia"}, PushNull(t)
  PROVE  Effect
<1>1. t \in StoreTypes /\ Len(net) \in Nat
  BY LenProperties DEF StoreTypes, Inv
<1>2. Pushes(t, NULL)
  BY <1>1 DEF PushNull, Room, Push, Pushes, Inv, NULL, LogicTypes
<1> QED
  BY <1>1, <1>2 DEF Effect, NULL

(* The process ends.                                                        *)
LEMMA EndEffect ==
  ASSUME Terminate
  PROVE  Effect
BY DEF Terminate, Effect

(* Files are read into the current element or a new one.                    *)
LEMMA ReadEffect ==
  ASSUME Inv, NEW t \in StoreTypes, NEW f \in Functions, NEW form \in Forms,
         NEW asNew, ReadIo(t, f, form, asNew)
  PROVE  Effect
<1>1. CASE PushBuilt(t, f, form)
  BY <1>1, BuiltEffect
<1>2. CASE /\ ~Empty(t)
           /\ net' = Append(net, [computes |-> f, form |-> form])
           /\ Replace(t, Len(net) + 1)
  <2> DEFINE new == [computes |-> f, form |-> form]
  <2>1. new \in Network /\ net \in Seq(Network)
    BY DEF Network, Inv
  <2>2. /\ net' \in Seq(Network) /\ Len(net') = Len(net) + 1
        /\ \A i \in 1 .. Len(net) : net'[i] = net[i]
    BY <1>2, <2>1, AppendProperties
  <2>3. Len(net) \in Nat
    BY <2>1, LenProperties
  <2>4. Len(net') <= MaxNetworks
    BY <1>2, <2>2, <2>3, StoresAssumption DEF Replace, Room
  <2>5. Replaces(t, Len(net) + 1)
    BY <1>2, <2>2, <2>4 DEF Replace, Replaces
  <2> QED
    BY <2>3, <2>5 DEF Effect
<1> QED
  BY <1>1, <1>2 DEF ReadIo

(* A GIA file that is none is read.                                         *)
LEMMA ReadNothingEffect ==
  ASSUME Inv, NEW asNew, ReadNothing("gia", asNew)
  PROVE  Effect
<1>1. CASE PushNull("gia")
  BY <1>1, PushNullEffect
<1>2. CASE ~Empty("gia") /\ Replace("gia", NULL) /\ UNCHANGED net
  <2>1. Replaces("gia", NULL)
    BY <1>2 DEF Replace, Replaces, Inv
  <2> QED
    BY <2>1 DEF Effect, NULL, StoreTypes
<1> QED
  BY <1>1, <1>2 DEF ReadNothing
----------------------------------------------------------------------------
(* The commands on mockturtle networks. *)

(* Two passes: the first rewrites the current element.                      *)
LEMMA RepeatedEffect ==
  ASSUME Inv, NEW cmd, NEW t \in LogicTypes, Repeated(cmd, t)
  PROVE  Effect
<1>1. ~Empty(t) /\ Computes(t) \in Functions
  BY LogicIsPresent, CurrentIsBuilt DEF Repeated
<1>2. PICK g \in Results(cmd, Computes(t)) :
        \E f \in Results(cmd, g) : InPlaceThenPush(t, g, f)
  BY DEF Repeated
<1> PICK f \in Results(cmd, g) : InPlaceThenPush(t, g, f)
  BY <1>2
<1>3. g \in Functions /\ f \in Functions
  BY <1>1, <1>2, ResultsAreFunctions
<1> QED
  BY <1>1, <1>2, <1>3, InPlaceEffect

(* One pass.                                                                *)
LEMMA OptimiseEffect ==
  ASSUME Inv, NEW cmd, NEW t \in LogicTypes, Optimise(cmd, t)
  PROVE  Effect
<1>1. ~Empty(t) /\ Computes(t) \in Functions
  BY LogicIsPresent, CurrentIsBuilt DEF Optimise
<1>2. PICK f \in Results(cmd, Computes(t)) : InPlaceThenPush(t, f, f)
  BY DEF Optimise, InPlace
<1> QED
  BY <1>1, <1>2, ResultsAreFunctions, InPlaceEffect

(* One pass with a check of the result.                                     *)
LEMMA SelfCheckedEffect ==
  ASSUME Inv, NEW cmd, NEW t \in LogicTypes, SelfChecked(cmd, t)
  PROVE  Effect
<1>1. ~Empty(t) /\ Computes(t) \in Functions
  BY LogicIsPresent, CurrentIsBuilt DEF SelfChecked
<1>2. PICK f \in Results(cmd, Computes(t)) : InPlaceThenPush(t, f, f)
  BY DEF SelfChecked, InPlace
<1> QED
  BY <1>1, <1>2, ResultsAreFunctions, InPlaceEffect

(* A network of another type, or another one of the same, is built.         *)
LEMMA RebuildEffect ==
  ASSUME Inv, NEW cmd, NEW s \in StoreTypes, NEW t \in StoreTypes, Rebuild(cmd, s, t, "plain")
  PROVE  Effect
<1>1. Computes(s) \in Functions
  BY CurrentIsBuilt DEF Rebuild
<1>2. PICK f \in Results(cmd, Computes(s)) : PushBuilt(t, f, "plain")
  BY DEF Rebuild
<1> QED
  BY <1>1, <1>2, ResultsAreFunctions, BuiltEffect DEF Forms

(* A design is read or synthesised.                                         *)
LEMMA DesignEffect ==
  ASSUME Inv, NEW t \in StoreTypes, NEW f \in Designs, PushBuilt(t, f, "plain")
  PROVE  Effect
BY BuiltEffect DEF Forms, Functions

(* current() of an empty store.                                             *)
LEMMA NoCurrentEffect ==
  ASSUME NEW t, NoCurrent(t)
  PROVE  Effect
BY EndEffect DEF NoCurrent

(* The two passes of xmgrw.                                                 *)
LEMMA XmgrwEffect ==
  ASSUME Inv, Xmgrw
  PROVE  Effect
<1>1. CASE Optimise("xmgrw", "xmg")
  BY <1>1, OptimiseEffect DEF LogicTypes
<1>2. CASE Terminate
  BY <1>2, EndEffect
<1>3. ASSUME ~Empty("xmg"),
             NEW g \in Results("xmgrw", Computes("xmg")), NEW f \in Results("xmgrw", g),
             InPlaceThenPush("xmg", g, f)
      PROVE  Effect
  <2>1. "xmg" \in LogicTypes
    BY DEF LogicTypes
  <2>2. Computes("xmg") \in Functions
    BY <1>3, <2>1, LogicIsPresent, CurrentIsBuilt
  <2>3. g \in Functions /\ f \in Functions
    BY <2>2, ResultsAreFunctions
  <2> QED
    BY <1>3, <2>1, <2>3, InPlaceEffect
<1> QED
  BY <1>1, <1>2, <1>3 DEF Xmgrw

(* Exact LUT mapping, with and without --best_result.                       *)
LEMMA ElmEffect ==
  ASSUME Inv, Elm
  PROVE  Effect
<1> "lut" \in LogicTypes /\ "aig" \in LogicTypes
  BY DEF LogicTypes
<1>1. CASE SelfChecked("elm", "lut")
  BY <1>1, SelfCheckedEffect
<1>2. CASE NoCurrent("lut") \/ NoCurrent("aig")
  BY <1>2, NoCurrentEffect
<1>3. ASSUME ~Empty("lut"), ~Empty("aig"),
             NEW g \in Results("elm", Computes("lut")), NEW f \in {g, Computes("aig")},
             InPlaceThenPush("lut", g, f)
      PROVE  Effect
  <2>1. Computes("lut") \in Functions /\ Computes("aig") \in Functions
    BY <1>3, LogicIsPresent, CurrentIsBuilt
  <2>2. g \in Functions /\ f \in Functions
    BY <2>1, ResultsAreFunctions
  <2> QED
    BY <1>3, <2>2, InPlaceEffect
<1> QED
  BY <1>1, <1>2, <1>3 DEF Elm

(* Every command on mockturtle networks.                                    *)
LEMMA LogicEffect ==
  ASSUME Inv, LogicCommand
  PROVE  Effect
<1> USE DEF LogicTypes, StoreTypes
<1>1. CASE Refactor
  BY <1>1, OptimiseEffect, RepeatedEffect DEF Refactor
<1>2. CASE Resub
  BY <1>2, OptimiseEffect DEF Resub
<1>3. CASE Aw
  BY <1>3, OptimiseEffect DEF Aw
<1>4. CASE Balance
  BY <1>4, OptimiseEffect, RebuildEffect, NoCurrentEffect DEF Balance
<1>5. CASE Rewrite
  BY <1>5, OptimiseEffect, RebuildEffect, NoCurrentEffect DEF Rewrite
<1>6. CASE Wr
  BY <1>6, OptimiseEffect, RepeatedEffect, NoCurrentEffect DEF Wr
<1>7. CASE Fr
  BY <1>7, OptimiseEffect, NoCurrentEffect DEF Fr
<1>8. CASE Stpfr
  BY <1>8, OptimiseEffect, NoCurrentEffect, EndEffect DEF Stpfr
<1>9. CASE Xagrs \/ Xmginv
  BY <1>9, OptimiseEffect DEF Xagrs, Xmginv
<1>10. CASE Resyn
  BY <1>10, RebuildEffect DEF Resyn
<1>11. CASE LutMappingCommand
  BY <1>11, RebuildEffect, NoCurrentEffect DEF LutMappingCommand
<1>12. CASE CreateGraph \/ Exact \/ ExactWindow
  BY <1>12, DesignEffect DEF CreateGraph, Exact, ExactWindow
<1>13. CASE Xagopt \/ Xagopt2 \/ Xagrw \/ Xmgrs
  BY <1>13, SelfCheckedEffect DEF Xagopt, Xagopt2, Xagrw, Xmgrs
<1>14. CASE Xmgrw
  BY <1>14, XmgrwEffect
<1>15. CASE Lutrw
  BY <1>15, SelfCheckedEffect, NoCurrentEffect DEF Lutrw
<1>16. CASE Elm
  BY <1>16, ElmEffect
<1>17. CASE Cec
  BY <1>17 DEF Cec, Effect, storeVars, Inv
<1> QED
  BY <1>1, <1>2, <1>3, <1>4, <1>5, <1>6, <1>7, <1>8, <1>9, <1>10, <1>11, <1>12,
     <1>13, <1>14, <1>15, <1>16, <1>17 DEF LogicCommand
----------------------------------------------------------------------------
(* The commands on ABC networks and GIAs, and the conversions. *)

(* A new network is derived from the current one of some store.             *)
LEMMA DeriveEffect ==
  ASSUME Inv, NEW s \in StoreTypes, NEW forms, NEW t \in StoreTypes, NEW form \in Forms,
         Derive(s, forms, t, form)
  PROVE  Effect
<1>1. Computes(s) \in Functions
  BY CurrentIsBuilt DEF Derive
<1> QED
  BY <1>1, BuiltEffect DEF Derive

(* Reading through NULL, or a form that an engine does not accept.          *)
LEMMA FailureEffect ==
  ASSUME NEW t, NEW forms, NullElement(t) \/ Asserts(t, forms)
  PROVE  Effect
BY EndEffect DEF NullElement, Asserts

(* The networks that are read, and the commands that push NULL or a pointer *)
(* that is there.                                                           *)
LEMMA PointerEffect ==
  ASSUME Inv, ARead \/ AFraig \/ AMap \/ ARewrite \/ ARefactor \/ AResub \/ ASop
  PROVE  Effect
<1> USE DEF StoreTypes, LogicTypes, Forms, Functions, Strashed, AbcForms
<1>1. CASE ARead
  BY <1>1, BuiltEffect, PushNullEffect DEF ARead
<1>2. CASE AFraig
  BY <1>2, FailureEffect, DeriveEffect, PushNullEffect DEF AFraig
<1>3. CASE AMap
  BY <1>3, FailureEffect, DeriveEffect, PushNullEffect DEF AMap
<1>4. CASE ARewrite \/ ARefactor
  BY <1>4, PushAgainEffect, FailsCheckEffect DEF ARewrite, ARefactor, InPlaceAbc
<1>5. CASE AResub
  BY <1>5, FailureEffect, PushAgainEffect DEF AResub
<1>6. CASE ASop
  BY <1>6, PushAgainEffect DEF ASop
<1> QED
  BY <1>1, <1>2, <1>3, <1>4, <1>5, <1>6

(* Every command on ABC networks and GIAs.                                  *)
LEMMA AbcEffect ==
  ASSUME Inv, AbcCommand
  PROVE  Effect
<1> USE DEF StoreTypes, LogicTypes, Forms, Strashed, AbcForms, GiaForms
<1>1. CASE ARead \/ AFraig \/ AMap \/ ARewrite \/ ARefactor \/ AResub \/ ASop
  BY <1>1, PointerEffect
<1>2. CASE AComb \/ AStrash \/ AIf
  BY <1>2, FailureEffect, DeriveEffect DEF AComb, AStrash, AIf
<1>3. CASE AAmap \/ ABalance \/ ADc2 \/ ACompress2rs \/ AResyn2rs
  BY <1>3, FailureEffect, DeriveEffect DEF AAmap, ABalance, ADc2, ACompress2rs, AResyn2rs
<1>4. CASE AGet \/ APut
  BY <1>4, FailureEffect, DeriveEffect DEF AGet, APut
<1>5. CASE AIfGia \/ ANf \/ AFraigGia \/ GiaOpt
  BY <1>5, FailureEffect, DeriveEffect DEF AIfGia, ANf, AFraigGia, GiaOpt
<1> QED
  BY <1>1, <1>2, <1>3, <1>4, <1>5 DEF AbcCommand

(* Every conversion but the one that remembers the names.                   *)
LEMMA ConvertEffect ==
  ASSUME Inv, Convert
  PROVE  Effect
<1> USE DEF StoreTypes, LogicTypes, Forms
<1>1. ASSUME NEW p \in LogicPairs, ConvertLogic(p[1], p[2])
      PROVE  Effect
  <2>1. p[1] \in LogicTypes /\ p[2] \in LogicTypes
    BY <1>1 DEF LogicPairs
  <2>2. Computes(p[1]) \in Functions
    BY <1>1, <2>1, LogicIsPresent, CurrentIsBuilt DEF ConvertLogic
  <2> QED
    BY <1>1, <2>1, <2>2, BuiltEffect DEF ConvertLogic
<1>2. ASSUME NEW s \in LogicTypes, ConvertToAbc(s)
      PROVE  Effect
  <2>1. Computes(s) \in Functions
    BY <1>2, LogicIsPresent, CurrentIsBuilt DEF ConvertToAbc
  <2>2. PICK f \in Functions : PushBuilt("abc", f, "logic") \/ Terminate
    BY <1>2, <2>1 DEF ConvertToAbc, Functions
  <2> QED
    BY <2>2, BuiltEffect, EndEffect
<1>3. CASE ConvertAigToGia
  <2>1. Computes("aig") \in Functions
    BY <1>3, LogicIsPresent, CurrentIsBuilt DEF ConvertAigToGia
  <2> QED
    BY <1>3, <2>1, BuiltEffect, EndEffect DEF ConvertAigToGia
<1>4. CASE ConvertGiaToAig
  BY <1>4, FailureEffect, DeriveEffect DEF ConvertGiaToAig, GiaForms
<1> QED
  BY <1>1, <1>2, <1>3, <1>4 DEF Convert

(* Every command has one of the effects.                                    *)
LEMMA EveryCommand ==
  ASSUME Inv, Next
  PROVE  Effect
<1> USE DEF StoreTypes, LogicTypes, Forms
<1>1. CASE ReadFile
  BY <1>1, ReadEffect, ReadNothingEffect DEF ReadFile, Functions
<1>2. CASE StoreCommand
  BY <1>2, StoresAssumption DEF StoreCommand, Effect
<1>3. CASE LogicCommand
  BY <1>3, LogicEffect
<1>4. CASE AbcCommand
  BY <1>4, AbcEffect
<1>5. CASE Convert
  BY <1>5, ConvertEffect
<1>6. CASE ConvertAbcToAig
  BY <1>6, FailureEffect, DeriveEffect DEF ConvertAbcToAig, Strashed
<1>7. CASE ReadGenlib
  BY <1>7 DEF ReadGenlib, Effect, storeVars, Inv
<1> QED
  BY <1>1, <1>2, <1>3, <1>4, <1>5, <1>6, <1>7 DEF Next

----------------------------------------------------------------------------
(* The invariant. *)

(* Taking an element out of a sequence keeps the others in their order.     *)
LEMMA RemoveAtLemma ==
  ASSUME NEW S, NEW s \in Seq(S), NEW i \in 1 .. Len(s)
  PROVE  /\ RemoveAt(s, i) \in Seq(S)
         /\ Len(RemoveAt(s, i)) = Len(s) - 1
         /\ \A j \in 1 .. Len(s) - 1 :
              RemoveAt(s, i)[j] = IF j < i THEN s[j] ELSE s[j + 1]
<1> DEFINE left == SubSeq(s, 1, i - 1)
           right == SubSeq(s, i + 1, Len(s))
<1>1. Len(s) \in Nat
  BY LenProperties
<1>2. left \in Seq(S) /\ Len(left) = i - 1 /\ \A j \in 1 .. i - 1 : left[j] = s[j]
  BY <1>1 DEF left
<1>3. /\ right \in Seq(S) /\ Len(right) = Len(s) - i
      /\ \A j \in 1 .. Len(s) - i : right[j] = s[i + j]
  BY <1>1 DEF right
<1>4. RemoveAt(s, i) = left \o right
  BY DEF RemoveAt, left, right
<1> HIDE DEF left, right
<1>5. /\ left \o right \in Seq(S)
      /\ Len(left \o right) = Len(left) + Len(right)
      /\ \A j \in 1 .. Len(left) + Len(right) :
           (left \o right)[j] = IF j <= Len(left) THEN left[j] ELSE right[j - Len(left)]
  BY <1>2, <1>3, ConcatProperties
<1> QED
  BY <1>1, <1>2, <1>3, <1>4, <1>5

(* Pushing keeps the invariant: a new network is nowhere else yet.          *)
LEMMA PushesKeeps ==
  ASSUME Inv, NEW t \in StoreTypes, NEW h \in Nat, Pushes(t, h)
  PROVE  Inv'
<1> DEFINE n == Len(store[t])
<1>1. /\ store[t] \in Seq(Nat) /\ n \in Nat /\ Len(net) \in Nat
      /\ store' \in [StoreTypes -> Seq(Nat)]
      /\ current' \in [StoreTypes -> Nat]
  BY LenProperties, AppendProperties DEF Inv, Pushes
<1>2. /\ Len(store'[t]) = n + 1
      /\ store'[t][n + 1] = h
      /\ \A i \in 1 .. n : store'[t][i] = store[t][i]
      /\ current'[t] = n + 1
  BY <1>1, AppendProperties DEF Inv, Pushes
<1>3. \A u \in StoreTypes \ {t} : store'[u] = store[u] /\ current'[u] = current[u]
  BY DEF Inv, Pushes
<1>4. net' \in Seq(Network) /\ Len(net') <= MaxNetworks /\ up' \in BOOLEAN
  BY DEF Inv, Pushes
<1>5. \A u \in StoreTypes : Len(store'[u]) <= MaxStored
  BY <1>1, <1>2, <1>3, StoresAssumption DEF Inv, Pushes
<1>6. Len(net') >= Len(net) /\ h \in 0 .. Len(net') /\ (t \in LogicTypes => h # NULL)
  <2>1. ~Empty(t) => Handle(t) \in 0 .. Len(net)
    BY <1>1 DEF Inv, CurrentIsSome, Handle, Empty
  <2> QED
    BY <1>1, <2>1 DEF Pushes, NULL, LogicTypes
<1> DEFINE New(w, k) == w = t /\ k = n + 1 /\ store'[w][k] = h
           Old(w, k) == k \in 1 .. Len(store[w]) /\ store'[w][k] = store[w][k]
<1>7. \A u \in StoreTypes : \A i \in 1 .. Len(store'[u]) : New(u, i) \/ Old(u, i)
  <2> SUFFICES ASSUME NEW u \in StoreTypes, NEW i \in 1 .. Len(store'[u])
               PROVE  New(u, i) \/ Old(u, i)
    OBVIOUS
  <2>1. CASE u = t
    <3>1. i \in 1 .. n + 1
      BY <1>2, <2>1
    <3>2. CASE i = n + 1
      BY <1>2, <2>1, <3>2
    <3>3. CASE i \in 1 .. n
      <4>1. store'[t][i] = store[t][i]
        BY <1>2, <3>3
      <4> QED BY <2>1, <3>3, <4>1
    <3>4. i = n + 1 \/ i \in 1 .. n
      <4>1. n \in Nat
        BY <1>1
      <4> HIDE DEF n
      <4> QED BY <3>1, <4>1
    <3> HIDE DEF New, Old
    <3> QED BY <3>2, <3>3, <3>4
  <2>2. CASE u # t
    BY <1>3, <2>2
  <2> QED
    BY <2>1, <2>2
<1>8. Len(net') \in Nat
  BY <1>4, LenProperties
<1>9. \A u \in StoreTypes : \A i \in 1 .. Len(store'[u]) :
        store'[u][i] \in 0 .. Len(net') /\ (u \in LogicTypes => store'[u][i] # NULL)
  <2> SUFFICES ASSUME NEW u \in StoreTypes, NEW i \in 1 .. Len(store'[u])
               PROVE  store'[u][i] \in 0 .. Len(net') /\ (u \in LogicTypes => store'[u][i] # NULL)
    OBVIOUS
  <2>1. CASE New(u, i)
    BY <1>6, <2>1
  <2>2. CASE Old(u, i)
    <3>1. store[u][i] \in 0 .. Len(net) /\ (u \in LogicTypes => store[u][i] # NULL)
      BY <2>2 DEF Inv
    <3>2. store'[u][i] = store[u][i]
      BY <2>2
    <3> DEFINE k == store[u][i]
               m == Len(net)
               w == Len(net')
    <3>3. k \in 0 .. m /\ m \in Nat /\ w \in Nat /\ w >= m
      BY <1>1, <1>6, <1>8, <3>1
    <3> HIDE DEF k, m, w
    <3>4. k \in 0 .. w
      BY <3>3
    <3> QED BY <3>1, <3>2, <3>4 DEF k, w
  <2> QED
    BY <1>7, <2>1, <2>2
<1>10. CurrentIsSome'
  <2> SUFFICES ASSUME NEW u \in StoreTypes
               PROVE  IF store'[u] = <<>> THEN current'[u] = 0
                      ELSE current'[u] \in 1 .. Len(store'[u])
    BY DEF CurrentIsSome, Empty
  <2>1. CASE u = t
    BY <1>1, <1>2, <2>1
  <2>2. CASE u # t
    BY <1>3, <2>2 DEF Inv, CurrentIsSome, Empty
  <2> QED
    BY <2>1, <2>2
<1>11. HandlesUnshared'
  <2> SUFFICES ASSUME NEW u \in StoreTypes \ {"abc"}, NEW v \in StoreTypes,
                      NEW i \in 1 .. Len(store'[u]), NEW j \in 1 .. Len(store'[v]),
                      store'[u][i] = store'[v][j], store'[u][i] # NULL
               PROVE  u = v /\ i = j
    BY DEF HandlesUnshared
  <2>1. (New(u, i) \/ Old(u, i)) /\ (New(v, j) \/ Old(v, j))
    BY <1>7
  <2>2. CASE Old(u, i) /\ Old(v, j)
    <3>1. store[u][i] = store[v][j] /\ store[u][i] # NULL
      BY <2>2
    <3>2. /\ i \in 1 .. Len(store[u]) /\ j \in 1 .. Len(store[v])
          /\ HandlesUnshared
      BY <2>2 DEF Inv
    <3> HIDE DEF New, Old
    <3> QED
      BY <3>1, <3>2 DEF HandlesUnshared
  <2>3. CASE New(u, i) /\ New(v, j)
    BY <2>3
  <2>4. CASE New(u, i) /\ Old(v, j)
    <3>1. h = Len(net) + 1
      BY <1>2, <2>4 DEF Pushes, NULL
    <3>2. store[v][j] \in 0 .. Len(net)
      BY <2>1, <2>4 DEF Inv
    <3>3. store[v][j] = Len(net) + 1
      BY <2>4, <3>1
    <3> QED
      BY <1>1, <3>2, <3>3
  <2>5. CASE Old(u, i) /\ New(v, j)
    <3>1. store[u][i] \in 0 .. Len(net) /\ store[u][i] = h /\ h # NULL
      BY <1>2, <2>1, <2>5 DEF Inv
    <3>2. h # Len(net) + 1
      BY <1>1, <3>1
    <3>3. t = "abc" /\ ~Empty(t) /\ h = Handle(t)
      BY <3>1, <3>2 DEF Pushes
    <3>4. current[t] \in 1 .. n /\ store[t][current[t]] = store[u][i]
      BY <3>1, <3>3 DEF Inv, CurrentIsSome, Empty, Handle
    <3> QED
      BY <2>1, <2>5, <3>1, <3>3, <3>4 DEF Inv, HandlesUnshared
  <2> QED
    BY <2>1, <2>2, <2>3, <2>4, <2>5
<1> QED
  BY <1>1, <1>4, <1>5, <1>9, <1>10, <1>11 DEF Inv

(* So does replacing the current element.                                   *)
LEMMA ReplacesKeeps ==
  ASSUME Inv, NEW t \in StoreTypes, NEW h \in Nat, Replaces(t, h)
  PROVE  Inv'
<1> DEFINE c == current[t]
           New(w, k) == w = t /\ k = c /\ store'[w][k] = h
           Old(w, k) == k \in 1 .. Len(store[w]) /\ store'[w][k] = store[w][k]
<1>1. /\ store[t] \in Seq(Nat) /\ Len(net) \in Nat /\ Len(net') \in Nat
      /\ c \in 1 .. Len(store[t])
  BY LenProperties DEF Inv, Replaces, CurrentIsSome, Empty
<1>2. store' = [store EXCEPT ![t] = [store[t] EXCEPT ![c] = h]]
  BY DEF Replaces
<1>3. /\ [store[t] EXCEPT ![c] = h] \in Seq(Nat)
      /\ Len([store[t] EXCEPT ![c] = h]) = Len(store[t])
      /\ \A j \in 1 .. Len(store[t]) :
           [store[t] EXCEPT ![c] = h][j] = IF j = c THEN h ELSE store[t][j]
  <2> HIDE DEF c
  <2> QED
    BY <1>1, ExceptSeq
<1>4. /\ store' \in [StoreTypes -> Seq(Nat)]
      /\ \A u \in StoreTypes : Len(store'[u]) = Len(store[u])
      /\ \A u \in StoreTypes : \A i \in 1 .. Len(store[u]) : New(u, i) \/ Old(u, i)
  <2> HIDE DEF c
  <2>1. store'[t] = [store[t] EXCEPT ![c] = h] /\ \A u \in StoreTypes \ {t} : store'[u] = store[u]
    BY <1>2 DEF Inv
  <2>2. store' \in [StoreTypes -> Seq(Nat)]
    BY <1>2, <1>3 DEF Inv
  <2> QED
    BY <1>3, <2>1, <2>2
<1>5. /\ net' \in Seq(Network) /\ Len(net') <= MaxNetworks /\ up' \in BOOLEAN
      /\ current' = current
  BY DEF Inv, Replaces
<1>6. h = Len(net) + 1 \/ (t = "gia" /\ h = NULL)
  BY DEF Replaces
<1>7. h \in 0 .. Len(net') /\ Len(net) <= Len(net') /\ (t \in LogicTypes => h # NULL)
  BY <1>1 DEF Replaces, NULL, LogicTypes
<1>8. \A u \in StoreTypes : \A i \in 1 .. Len(store'[u]) :
        store'[u][i] \in 0 .. Len(net') /\ (u \in LogicTypes => store'[u][i] # NULL)
  <2> SUFFICES ASSUME NEW u \in StoreTypes, NEW i \in 1 .. Len(store'[u])
               PROVE  store'[u][i] \in 0 .. Len(net') /\ (u \in LogicTypes => store'[u][i] # NULL)
    OBVIOUS
  <2>1. CASE New(u, i)
    BY <1>7, <2>1
  <2>2. CASE Old(u, i)
    <3>1. store[u][i] \in 0 .. Len(net) /\ (u \in LogicTypes => store[u][i] # NULL)
      BY <2>2 DEF Inv
    <3> QED
      BY <1>1, <1>7, <2>2, <3>1
  <2> QED
    BY <1>4, <2>1, <2>2
<1>9. CurrentIsSome'
  <2> SUFFICES ASSUME NEW u \in StoreTypes
               PROVE  IF store'[u] = <<>> THEN current'[u] = 0
                      ELSE current'[u] \in 1 .. Len(store'[u])
    BY DEF CurrentIsSome, Empty
  <2>1. store'[u] = <<>> <=> store[u] = <<>>
    BY <1>4, EmptySeq DEF Inv
  <2> QED
    BY <1>4, <1>5, <2>1 DEF Inv, CurrentIsSome, Empty
<1>10. HandlesUnshared'
  <2> SUFFICES ASSUME NEW u \in StoreTypes \ {"abc"}, NEW v \in StoreTypes,
                      NEW i \in 1 .. Len(store'[u]), NEW j \in 1 .. Len(store'[v]),
                      store'[u][i] = store'[v][j], store'[u][i] # NULL
               PROVE  u = v /\ i = j
    BY DEF HandlesUnshared
  <2>1. (New(u, i) \/ Old(u, i)) /\ (New(v, j) \/ Old(v, j))
    BY <1>4
  <2>2. CASE Old(u, i) /\ Old(v, j)
    <3>1. store[u][i] = store[v][j] /\ store[u][i] # NULL
      BY <2>2
    <3>2. /\ i \in 1 .. Len(store[u]) /\ j \in 1 .. Len(store[v])
          /\ HandlesUnshared
      BY <2>2 DEF Inv
    <3> HIDE DEF New, Old
    <3> QED
      BY <3>1, <3>2 DEF HandlesUnshared
  <2>3. CASE New(u, i) /\ New(v, j)
    BY <2>3
  <2>4. CASE New(u, i) /\ Old(v, j)
    <3>1. store[v][j] \in 0 .. Len(net) /\ store[v][j] = h /\ h # NULL
      BY <2>4 DEF Inv
    <3> QED
      BY <1>1, <1>6, <3>1
  <2>5. CASE Old(u, i) /\ New(v, j)
    <3>1. store[u][i] \in 0 .. Len(net) /\ store[u][i] = h /\ h # NULL
      BY <2>5 DEF Inv
    <3> QED
      BY <1>1, <1>6, <3>1
  <2> QED
    BY <2>1, <2>2, <2>3, <2>4, <2>5
<1> QED
  BY <1>4, <1>5, <1>8, <1>9, <1>10 DEF Inv

(* Popping moves the elements behind the current one up by one.             *)
LEMMA PopKeeps ==
  ASSUME Inv, NEW t \in StoreTypes, Pop(t)
  PROVE  Inv'
<1> DEFINE c == current[t]
           n == Len(store[t])
           At(w, k) == IF w # t \/ k < c THEN k ELSE k + 1
<1>1. /\ store[t] \in Seq(Nat) /\ n \in Nat /\ c \in 1 .. n
  BY LenProperties DEF Inv, Pop, CurrentIsSome, Empty
<1>2. store' = [store EXCEPT ![t] = RemoveAt(store[t], c)]
  BY DEF Pop
<1>3. /\ RemoveAt(store[t], c) \in Seq(Nat)
      /\ Len(RemoveAt(store[t], c)) = n - 1
      /\ \A j \in 1 .. n - 1 : RemoveAt(store[t], c)[j] = IF j < c THEN store[t][j] ELSE store[t][j + 1]
  <2> HIDE DEF c
  <2> QED
    BY <1>1, RemoveAtLemma
<1>4. /\ store' \in [StoreTypes -> Seq(Nat)]
      /\ store'[t] = RemoveAt(store[t], c)
      /\ \A u \in StoreTypes \ {t} : store'[u] = store[u]
  BY <1>2, <1>3 DEF Inv
<1>5. \A u \in StoreTypes : \A i \in 1 .. Len(store'[u]) :
        At(u, i) \in 1 .. Len(store[u]) /\ store'[u][i] = store[u][At(u, i)]
  <2> SUFFICES ASSUME NEW u \in StoreTypes, NEW i \in 1 .. Len(store'[u])
               PROVE  At(u, i) \in 1 .. Len(store[u]) /\ store'[u][i] = store[u][At(u, i)]
    OBVIOUS
  <2>1. CASE u = t
    <3>1. i \in 1 .. n - 1
      BY <1>3, <1>4, <2>1
    <3>2. store'[u][i] = IF i < c THEN store[t][i] ELSE store[t][i + 1]
      BY <1>3, <1>4, <2>1, <3>1
    <3>3. At(u, i) = (IF i < c THEN i ELSE i + 1) /\ At(u, i) \in 1 .. n
      BY <1>1, <2>1, <3>1
    <3> QED
      BY <2>1, <3>2, <3>3
  <2>2. CASE u # t
    BY <1>4, <2>2
  <2> QED
    BY <2>1, <2>2
<1>6. /\ net' = net /\ up' = up
      /\ current' = [current EXCEPT ![t] = IF c = n THEN c - 1 ELSE c]
  BY DEF Pop
<1>7. current' \in [StoreTypes -> Nat] /\ current'[t] = IF c = n THEN c - 1 ELSE c
  BY <1>1, <1>6 DEF Inv
<1>8. \A u \in StoreTypes \ {t} : current'[u] = current[u]
  BY <1>6 DEF Inv
<1>9. \A u \in StoreTypes : Len(store'[u]) <= MaxStored
  <2>1. Len(store'[t]) = n - 1 /\ n <= MaxStored
    BY <1>3, <1>4 DEF Inv
  <2>2. Len(store'[t]) <= MaxStored
    BY <1>1, <2>1, StoresAssumption
  <2> QED
    BY <1>4, <2>2 DEF Inv
<1>10. \A u \in StoreTypes : \A i \in 1 .. Len(store'[u]) :
        store'[u][i] \in 0 .. Len(net') /\ (u \in LogicTypes => store'[u][i] # NULL)
  <2> HIDE DEF At
  <2> SUFFICES ASSUME NEW u \in StoreTypes, NEW i \in 1 .. Len(store'[u])
               PROVE  store'[u][i] \in 0 .. Len(net') /\ (u \in LogicTypes => store'[u][i] # NULL)
    OBVIOUS
  <2>1. At(u, i) \in 1 .. Len(store[u]) /\ store'[u][i] = store[u][At(u, i)]
    BY <1>5
  <2> QED
    BY <1>6, <2>1 DEF Inv
<1>11. CurrentIsSome'
  <2> SUFFICES ASSUME NEW u \in StoreTypes
               PROVE  IF store'[u] = <<>> THEN current'[u] = 0
                      ELSE current'[u] \in 1 .. Len(store'[u])
    BY DEF CurrentIsSome, Empty
  <2>1. CASE u # t
    BY <1>4, <1>8, <2>1 DEF Inv, CurrentIsSome, Empty
  <2>2. CASE u = t
    <3>1. store'[t] \in Seq(Nat) /\ Len(store'[t]) = n - 1
      BY <1>3, <1>4
    <3>2. store'[t] = <<>> <=> n = 1
      <4>1. store'[t] = <<>> <=> Len(store'[t]) = 0
        BY <3>1, EmptySeq
      <4> QED
        BY <1>1, <3>1, <4>1
    <3>3. store'[u] = <<>> <=> n = 1
      BY <2>2, <3>2
    <3>4. Len(store'[u]) = n - 1 /\ current'[u] = IF c = n THEN c - 1 ELSE c
      BY <1>7, <2>2, <3>1
    <3>5. n \in Nat /\ c \in 1 .. n
      BY <1>1
    <3> HIDE DEF n, c
    <3> QED
      BY <3>3, <3>4, <3>5
  <2> QED
    BY <2>1, <2>2
<1>12. HandlesUnshared'
  <2> SUFFICES ASSUME NEW u \in StoreTypes \ {"abc"}, NEW v \in StoreTypes,
                      NEW i \in 1 .. Len(store'[u]), NEW j \in 1 .. Len(store'[v]),
                      store'[u][i] = store'[v][j], store'[u][i] # NULL
               PROVE  u = v /\ i = j
    BY DEF HandlesUnshared
  <2>1. u = v /\ At(u, i) = At(v, j)
    <3> HIDE DEF At
    <3>1. /\ At(u, i) \in 1 .. Len(store[u]) /\ At(v, j) \in 1 .. Len(store[v])
          /\ store[u][At(u, i)] = store[v][At(v, j)] /\ store[u][At(u, i)] # NULL
      BY <1>5
    <3>2. HandlesUnshared
      BY DEF Inv
    <3> QED
      BY <3>1, <3>2 DEF HandlesUnshared
  <2>2. i \in Nat /\ j \in Nat /\ c \in Nat
    BY <1>1
  <2> QED
    BY <2>1, <2>2
<1> QED
  BY <1>4, <1>6, <1>7, <1>9, <1>10, <1>11, <1>12 DEF Inv

(* Emptying a store, and moving the current index, add no handle.           *)
LEMMA SelectionKeeps ==
  ASSUME Inv, NEW t \in StoreTypes, Clear(t) \/ \E i \in Nat : SetCurrent(t, i)
  PROVE  Inv'
<1>1. CASE Clear(t)
  <2>1. /\ store' = [store EXCEPT ![t] = <<>>] /\ current' = [current EXCEPT ![t] = 0]
        /\ net' = net /\ up' = up
    BY <1>1 DEF Clear
  <2>2. store' \in [StoreTypes -> Seq(Nat)] /\ current' \in [StoreTypes -> Nat]
    BY <2>1, EmptySeq DEF Inv
  <2>3. /\ store'[t] = <<>> /\ current'[t] = 0 /\ Len(store'[t]) = 0
        /\ \A u \in StoreTypes \ {t} : store'[u] = store[u] /\ current'[u] = current[u]
    BY <2>1 DEF Inv
  <2>4. CurrentIsSome'
    BY <2>3 DEF Inv, CurrentIsSome, Empty
  <2>5. HandlesUnshared'
    <3> SUFFICES ASSUME NEW u \in StoreTypes \ {"abc"}, NEW v \in StoreTypes,
                        NEW i \in 1 .. Len(store'[u]), NEW j \in 1 .. Len(store'[v]),
                        store'[u][i] = store'[v][j], store'[u][i] # NULL
                 PROVE  u = v /\ i = j
      BY DEF HandlesUnshared
    <3>1. u # t /\ v # t
      BY <2>3
    <3>2. store'[u] = store[u] /\ store'[v] = store[v]
      BY <2>3, <3>1
    <3>3. HandlesUnshared
      BY DEF Inv
    <3> QED
      BY <3>2, <3>3 DEF HandlesUnshared
  <2>6. \A u \in StoreTypes : Len(store'[u]) <= MaxStored
    BY <2>3, StoresAssumption DEF Inv
  <2>7. \A u \in StoreTypes : \A i \in 1 .. Len(store'[u]) :
          store'[u][i] \in 0 .. Len(net') /\ (u \in LogicTypes => store'[u][i] # NULL)
    BY <2>1, <2>3 DEF Inv
  <2> QED
    BY <2>1, <2>2, <2>4, <2>5, <2>6, <2>7 DEF Inv
<1>2. ASSUME NEW i \in Nat, SetCurrent(t, i)
      PROVE  Inv'
  <2>1. /\ i \in 1 .. Len(store[t]) /\ current' = [current EXCEPT ![t] = i]
        /\ store' = store /\ net' = net /\ up' = up
    BY <1>2 DEF SetCurrent
  <2>2. store[t] # <<>>
    BY <2>1
  <2>3. current' \in [StoreTypes -> Nat] /\ CurrentIsSome'
    BY <2>1, <2>2 DEF Inv, CurrentIsSome, Empty
  <2> QED
    BY <2>1, <2>3 DEF Inv, HandlesUnshared
<1> QED
  BY <1>1, <1>2

(* Whatever a command does to the stores, the invariant holds afterwards.   *)
LEMMA EffectKeeps ==
  ASSUME Inv, Effect
  PROVE  Inv'
<1>1. CASE up' \in BOOLEAN /\ UNCHANGED storeVars
  BY <1>1 DEF Inv, CurrentIsSome, Empty, HandlesUnshared, storeVars
<1>2. ASSUME NEW t \in StoreTypes,
             \/ \E h \in Nat : Pushes(t, h) \/ Replaces(t, h)
             \/ Pop(t) \/ Clear(t)
             \/ \E i \in Nat : SetCurrent(t, i)
      PROVE  Inv'
  BY <1>2, PushesKeeps, ReplacesKeeps, PopKeeps, SelectionKeeps
<1>3. ASSUME NEW t \in StoreTypes, Rewires(t)
      PROVE  Inv'
  <2>1. /\ store' = store /\ current' = current /\ up' = up
        /\ net' \in Seq(Network) /\ Len(net') = Len(net)
    BY <1>3 DEF Rewires
  <2>2. CurrentIsSome' /\ HandlesUnshared'
    BY <2>1 DEF Inv, CurrentIsSome, Empty, HandlesUnshared
  <2> QED
    BY <2>1, <2>2 DEF Inv
<1> QED
  BY <1>1, <1>2, <1>3 DEF Effect

(* The stores are empty at the start.                                       *)
LEMMA InitKeeps ==
  ASSUME Init
  PROVE  Inv /\ AbcInv
<1>1. /\ net = <<>> /\ up = TRUE
      /\ store = [t \in StoreTypes |-> <<>>] /\ current = [t \in StoreTypes |-> 0]
  BY DEF Init, StoresInit
<1>2. net \in Seq(Network) /\ Len(net) = 0 /\ \A t \in StoreTypes : store[t] = <<>> /\ Len(store[t]) = 0
  BY <1>1, EmptySeq
<1>3. store \in [StoreTypes -> Seq(Nat)] /\ current \in [StoreTypes -> Nat]
  BY <1>1, EmptySeq
<1>4. CurrentIsSome /\ HandlesUnshared
  BY <1>1, <1>2 DEF CurrentIsSome, Empty, HandlesUnshared
<1>5. AbcInv
  BY DEF Init, AbcInv
<1> QED
  BY <1>1, <1>2, <1>3, <1>4, <1>5, StoresAssumption DEF Inv

(* The names are those of some design, and the library only comes.          *)
LEMMA AbcKeeps ==
  ASSUME AbcInv, Next
  PROVE  AbcInv'
<1>1. CASE UNCHANGED abcVars
  BY <1>1 DEF AbcInv, abcVars
<1>2. CASE ConvertAbcToAig /\ UNCHANGED library
  <2>1. ASSUME NEW f, NEW nm \in NamesOf(f)
        PROVE  nm \in [pis : Nat, pos : Nat]
    BY <2>1, InterfaceAssumption DEF NamesOf
  <2> QED
    BY <1>2, <2>1 DEF ConvertAbcToAig, AbcInv
<1>3. CASE ReadGenlib
  BY <1>3 DEF ReadGenlib, AbcInv
<1> QED
  BY <1>1, <1>2, <1>3 DEF Next

(* Every step keeps the invariant.                                          *)
LEMMA NextKeeps ==
  ASSUME Inv, AbcInv, [Next]_vars
  PROVE  Inv' /\ AbcInv'
<1>1. CASE Next
  BY <1>1, EveryCommand, EffectKeeps, AbcKeeps
<1>2. CASE UNCHANGED vars
  BY <1>2 DEF vars, Inv, AbcInv, CurrentIsSome, Empty, HandlesUnshared
<1> QED
  BY <1>1, <1>2

(* The invariant holds in every state.                                      *)
LEMMA InvHolds == Spec => [](Inv /\ AbcInv)
<1>1. Init => Inv /\ AbcInv
  BY InitKeeps
<1>2. Inv /\ AbcInv /\ [Next]_vars => (Inv /\ AbcInv)'
  BY NextKeeps
<1> QED
  BY <1>1, <1>2, PTL DEF Spec

----------------------------------------------------------------------------
(* Every handle of every store is a network that was built or, in the abc   *)
(* and gia stores only, NULL: no mockturtle command meets a missing network.*)
THEOREM TypeCorrect == Spec => []TypeOK
<1>1. Inv /\ AbcInv => TypeOK
  <2> SUFFICES ASSUME Inv, AbcInv
               PROVE  TypeOK
    OBVIOUS
  <2>1. \A t \in StoreTypes :
          /\ Len(store[t]) <= MaxStored
          /\ Handles(t) \subseteq 0 .. Len(net)
          /\ t \in LogicTypes => NULL \notin Handles(t)
    BY DEF Inv, Handles
  <2> QED
    BY <2>1 DEF Inv, AbcInv, TypeOK
<1> QED
  BY <1>1, InvHolds, PTL

(* A store is empty exactly when it has no current element, so that the     *)
(* guards of the commands, which ask for the one, guard the other.          *)
THEOREM CurrentExists == Spec => []CurrentIsSome
<1>1. Inv => CurrentIsSome
  BY DEF Inv
<1> QED
  BY <1>1, InvHolds, PTL

(* No network of a mockturtle or GIA store is shared between elements.      *)
THEOREM NoSharing == Spec => []HandlesUnshared
<1>1. Inv => HandlesUnshared
  BY DEF Inv
<1> QED
  BY <1>1, InvHolds, PTL

(* Only the current element of a store is changed by a command, although    *)
(* the commands rewrite networks through copied handles.                    *)
THEOREM OthersKept == Spec => OnlyCurrentChanges
<1> DEFINE A == \A t \in StoreTypes \ {"abc"} : \A i \in 1 .. Len(store[t]) :
                  /\ store[t][i] # NULL
                  /\ net'[store[t][i]] # net[store[t][i]]
                  => i = current[t]
<1>1. Inv /\ Next => A
  <2> SUFFICES ASSUME Inv, Next,
                      NEW t \in StoreTypes \ {"abc"}, NEW i \in 1 .. Len(store[t]),
                      store[t][i] # NULL,
                      net'[store[t][i]] # net[store[t][i]]
               PROVE  i = current[t]
    OBVIOUS
  <2> DEFINE k == store[t][i]
  <2>1. k \in 1 .. Len(net)
    BY DEF Inv, NULL
  <2>2. PICK s \in StoreTypes : ~Empty(s) /\ k = Handle(s)
    <3>1. Effect
      BY EveryCommand
    <3>2. ASSUME NEW s \in StoreTypes, NEW h \in Nat, Pushes(s, h)
          PROVE  ~Empty(s) /\ k = Handle(s)
      BY <2>1, <3>2 DEF Pushes
    <3>3. ASSUME NEW s \in StoreTypes, NEW h \in Nat
          PROVE  ~Replaces(s, h)
      BY <2>1, <3>3 DEF Replaces
    <3>4. net' # net
      OBVIOUS
    <3>5. ASSUME NEW s \in StoreTypes, Rewires(s)
          PROVE  ~Empty(s) /\ k = Handle(s)
      BY <2>1, <3>5 DEF Rewires
    <3> HIDE DEF k
    <3> QED
      BY <3>1, <3>2, <3>3, <3>4, <3>5 DEF Effect, storeVars, Pop, Clear, SetCurrent
  <2>3. current[s] \in 1 .. Len(store[s]) /\ store[s][current[s]] = k
    BY <2>2 DEF Inv, CurrentIsSome, Empty, Handle
  <2>4. HandlesUnshared
    BY DEF Inv
  <2> QED
    BY <2>3, <2>4 DEF HandlesUnshared
<1>2. Inv /\ UNCHANGED vars => A
  BY DEF vars
<1>3. Inv /\ [Next]_vars => [A]_vars
  BY <1>1, <1>2
<1> HIDE DEF A
<1>4. Spec => [][A]_vars
  BY <1>3, InvHolds, PTL DEF Spec
<1> QED
  BY <1>4 DEF OnlyCurrentChanges, A

=============================================================================
