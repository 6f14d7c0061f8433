------------------------------- MODULE Shell -------------------------------
(***************************************************************************)
(* The phyLS shell: one command at a time on the stores, in any order the  *)
(* user or a script likes.                                                 *)
(***************************************************************************)
EXTENDS LogicCommands, AbcCommands

vars == <<net, store, current, up, said, names, library>>

Init ==
  /\ StoresInit
  /\ names = [pis |-> 0, pos |-> 0]
  /\ library = FALSE

\* alice: read_aiger and read_verilog for the AIGs, and so on; a parse error
\* is a warning, and what was read by then is stored.
ReadFile ==
  \/ \E t \in Types \cap LogicTypes, f \in Functions, asNew \in BOOLEAN :
       ReadIo(t, f, "plain", asNew)
  \/ \E f \in Designs, asNew \in BOOLEAN : Gia /\ ReadIo("gia", f, "gia", asNew)
  \/ \E asNew \in BOOLEAN : Gia /\ ReadNothing("gia", asNew)

StoreCommand ==
  \E t \in Types : Pop(t) \/ Clear(t) \/ \E i \in 1 .. MaxStored : SetCurrent(t, i)

LogicCommand ==
  \/ Refactor \/ Resub \/ Aw \/ Balance \/ Rewrite \/ Wr \/ Fr \/ Stpfr
  \/ Xagrs \/ Xmginv \/ Resyn \/ LutMappingCommand \/ CreateGraph
  \/ Exact \/ ExactWindow
  \/ Xagopt \/ Xagopt2 \/ Xagrw \/ Xmgrs \/ Xmgrw \/ Lutrw \/ Elm \/ Cec

AbcCommand ==
  \/ ARead \/ AComb \/ AStrash \/ AFraig \/ AIf \/ AAmap \/ AMap
  \/ ABalance \/ ADc2 \/ ACompress2rs \/ AResyn2rs
  \/ ARewrite \/ ARefactor \/ AResub \/ ASop
  \/ AGet \/ AIfGia \/ ANf \/ AFraigGia \/ APut \/ GiaOpt

Convert ==
  \/ \E p \in LogicPairs : ConvertLogic(p[1], p[2])
  \/ \E s \in LogicTypes : ConvertToAbc(s)
  \/ ConvertAigToGia
  \/ ConvertGiaToAig

Next ==
  /\ up
  /\ \/ (ReadFile \/ StoreCommand \/ LogicCommand \/ AbcCommand \/ Convert) /\ UNCHANGED abcVars
     \/ ConvertAbcToAig /\ UNCHANGED library
     \/ ReadGenlib

Spec == Init /\ [][Next]_vars

----------------------------------------------------------------------------
Handles(t) == {store[t][i] : i \in 1 .. Len(store[t])}

(* Every handle is NULL or a network that was built, and only the stores of *)
(* raw pointers hold NULL; the names and the library are what they look     *)
(* like.                                                                    *)
TypeOK ==
  /\ net \in Seq(Network) /\ Len(net) <= MaxNetworks
  /\ \A t \in StoreTypes :
       /\ Len(store[t]) <= MaxStored
       /\ Handles(t) \subseteq 0 .. Len(net)
       /\ t \in LogicTypes => NULL \notin Handles(t)
  /\ DOMAIN current = StoreTypes /\ DOMAIN store = StoreTypes
  /\ up \in BOOLEAN /\ library \in BOOLEAN
  /\ names.pis \in Nat /\ names.pos \in Nat

(* A store that is not empty has a current element and an empty one has     *)
(* none: the commands guard current() with size() or empty(), and would     *)
(* throw or read outside _data if the two disagreed.                        *)
CurrentIsSome ==
  \A t \in StoreTypes :
    IF Empty(t) THEN current[t] = 0 ELSE current[t] \in 1 .. Len(store[t])

(* A network of a mockturtle or GIA store is in no other store and there    *)
(* only once: optimising one element cannot change another.                 *)
HandlesUnshared ==
  \A t \in StoreTypes \ {"abc"}, u \in StoreTypes :
    \A i \in 1 .. Len(store[t]), j \in 1 .. Len(store[u]) :
      store[t][i] = store[u][j] /\ store[t][i] # NULL => t = u /\ i = j

(* A command changes no element but the current one of its store, outside   *)
(* the abc store, in which one pointer may be pushed many times.            *)
OnlyCurrentChanges ==
  [][\A t \in StoreTypes \ {"abc"} : \A i \in 1 .. Len(store[t]) :
       /\ store[t][i] # NULL
       /\ net'[store[t][i]] # net[store[t][i]]
       => i = current[t]]_vars

----------------------------------------------------------------------------
(* Statements of the program about itself. *)

(* With --cec the message or the passed assertion stands for "the result    *)
(* computes what the network before the command computed".                  *)
SelfCheckIsReal ==
  [][\A t \in LogicTypes :
       said' = <<"equivalent", t>> /\ Len(store'[t]) > Len(store[t])
       => net'[store'[t][current'[t]]].computes = Computes(t)]_vars

(* The three that follow do not hold either. No run of their own shows it,  *)
(* but the instance of SelfCheckIsReal with the stores they are about does. *)

(* "The original network is restored": the current element is as it was.    *)
OriginalRestored ==
  [][said' = <<"restored", "abc">> /\ Len(store'["abc"]) > Len(store["abc"])
     => net'[store'["abc"][current'["abc"]]] = net[Handle("abc")]]_vars

(* Converting a network to ABC gives a network that computes the same.      *)
ConversionKeepsFunction ==
  [][\A t \in LogicTypes :
       said' = <<"converted", t>> /\ Len(store'["abc"]) > Len(store["abc"])
       => net'[store'["abc"][current'["abc"]]].computes = Computes(t)]_vars

(* cec calls two networks equivalent only if they compute the same.         *)
CecIsTrue ==
  Len(said) = 3 /\ said[1] = "files are equivalent" => said[2] = said[3]
=============================================================================
