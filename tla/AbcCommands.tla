---------------------------- MODULE AbcCommands ----------------------------
(***************************************************************************)
(* The commands on ABC networks and GIAs, and the conversions between the  *)
(* stores.  An element of the abc or the gia store may be NULL: some       *)
(* commands push the pointer an engine returned without looking at it, and *)
(* only some of the commands look at it when they take it.  Reading        *)
(* through NULL ends the process.                                          *)
(***************************************************************************)
EXTENDS NetworkStores

CONSTANT
  Interface      \* the numbers of inputs and outputs of each design

ASSUME InterfaceAssumption == Interface \in [Designs -> [pis : Nat, pos : Nat]]

VARIABLES
  names,         \* how many entries pi_names and po_names have
  library        \* a genlib library has been read

abcVars == <<names, library>>

Abc == "abc" \in Types
Gia == "gia" \in Types

\* The commands look at the size of the store only.
NullElement(t) == ~Empty(t) /\ Handle(t) = NULL /\ Terminate

\* A new network from the current element of s, which has one of the forms.
Derive(s, forms, t, form) ==
  /\ Quiet
  /\ Present(s) /\ Form(s) \in forms
  /\ PushBuilt(t, Computes(s), form)

\* An engine that asserts the form it expects.
Asserts(s, forms) == Present(s) /\ Form(s) \notin forms /\ Terminate

\* A rewritten AIG may be in the partial state and is an AIG all the same.
Strashed == {"strash", "partial"}
AbcForms == Strashed \cup {"logic"}

ARead ==
  /\ Abc /\ Quiet
  /\ \/ \E f \in Designs, form \in {"strash", "logic"} : PushBuilt("abc", f, form)
     \/ PushNull("abc")

AComb ==
  Abc /\ (NullElement("abc") \/ \E form \in AbcForms : Derive("abc", {form}, "abc", form))

AStrash == Abc /\ (NullElement("abc") \/ Derive("abc", AbcForms, "abc", "strash"))

\* A failed sweep is reported, and its NULL pushed.
AFraig ==
  Abc /\ \/ NullElement("abc")
         \/ Derive("abc", AbcForms, "abc", "strash")
         \/ Present("abc") /\ Quiet /\ PushNull("abc")

AIf == Abc /\ (NullElement("abc") \/ Derive("abc", AbcForms, "abc", "logic"))

AAmap == Abc /\ (NullElement("abc") \/ (library /\ Derive("abc", AbcForms, "abc", "logic")))

\* Without a library the mapper returns NULL, which is pushed.
AMap ==
  Abc /\ \/ NullElement("abc")
         \/ Asserts("abc", Strashed)
         \/ library /\ Derive("abc", Strashed, "abc", "logic")
         \/ ~library /\ Present("abc") /\ Form("abc") \in Strashed /\ Quiet /\ PushNull("abc")

\* These four look for NULL themselves and report it.
ABalance == Abc /\ Derive("abc", AbcForms, "abc", "strash")

ADc2 == Abc /\ Derive("abc", Strashed, "abc", "strash")

ACompress2rs == Abc /\ Derive("abc", Strashed, "abc", "strash")

AResyn2rs == Abc /\ Derive("abc", Strashed, "abc", "strash")

\* A network that fails ABC's own check after the rewriting is not pushed; it
\* is the current element all the same.
FailsCheck ==
  /\ net' = [net EXCEPT ![Handle("abc")] = [computes |-> "garbled", form |-> "partial"]]
  /\ Quiet /\ UNCHANGED <<store, current, up>>

\* The element is rewritten in place and its pointer pushed once more.  When
\* the rewriting is broken off the message says that the original is restored.
InPlaceAbc ==
  /\ Present("abc") /\ Form("abc") \in Strashed
  /\ \/ PushAgain("abc", "strash") /\ Quiet
     \/ PushAgain("abc", "partial") /\ said' = <<"restored", "abc">>
     \/ FailsCheck

ARewrite == Abc /\ InPlaceAbc

ARefactor == Abc /\ InPlaceAbc

AResub ==
  Abc /\ \/ NullElement("abc")
         \/ Asserts("abc", Strashed)
         \/ Present("abc") /\ Form("abc") \in Strashed /\ Quiet /\ PushAgain("abc", "strash")

ASop == Abc /\ Present("abc") /\ Form("abc") = "logic" /\ Quiet /\ PushAgain("abc", "logic")

ReadGenlib ==
  /\ Abc \/ Gia
  /\ library' = TRUE /\ Quiet /\ UNCHANGED <<net, store, current, up, names>>

----------------------------------------------------------------------------
(* GIA commands. *)

GiaForms == {"gia", "mapped", "cells"}

AGet ==
  Abc /\ Gia /\ \/ NullElement("abc")
                \/ Asserts("abc", Strashed)
                \/ Derive("abc", Strashed, "gia", "gia")

AIfGia == Gia /\ (NullElement("gia") \/ Derive("gia", {"gia", "cells"}, "gia", "mapped"))

ANf ==
  Gia /\ library /\ (NullElement("gia") \/ Derive("gia", GiaForms, "gia", "cells"))

AFraigGia == Gia /\ (NullElement("gia") \/ Derive("gia", GiaForms, "gia", "gia"))

APut ==
  Abc /\ Gia /\ \/ NullElement("gia")
                \/ Derive("gia", {"gia"}, "abc", "strash")
                \/ Derive("gia", {"mapped", "cells"}, "abc", "logic")

\* The script runs on a duplicate that the frame of ABC owns; what the frame
\* holds at the end is handed over to the store.
GiaOpt ==
  Gia /\ \/ NullElement("gia")
         \/ \E form \in GiaForms : Derive("gia", GiaForms, "gia", form)

----------------------------------------------------------------------------
(* convert: without a source the command warns; the mockturtle networks    *)
(* are mapped into LUTs and resynthesised.                                 *)
LogicPairs ==
  {<<"aig", "mig">>, <<"aig", "xag">>, <<"xmg", "aig">>,
   <<"aig", "xmg">>, <<"mig", "xmg">>, <<"xmg", "mig">>}

ConvertLogic(s, t) ==
  /\ <<s, t>> \in LogicPairs /\ {s, t} \subseteq Types
  /\ Quiet
  /\ ~Empty(s) /\ PushBuilt(t, Computes(s), "plain")

\* A garbled network may have any names, empty ones among them.
NamesOf(f) ==
  IF f \in Designs THEN {Interface[f]}
  ELSE {Interface[d] : d \in Designs} \cup {[pis |-> 0, pos |-> 0]}

\* abc to aig reads the network as an AIG, asserting that it is one, and
\* remembers the names of its inputs and outputs.
ConvertAbcToAig ==
  /\ {"abc", "aig"} \subseteq Types
  /\ \/ /\ NullElement("abc") \/ Asserts("abc", Strashed)
        /\ UNCHANGED names
     \/ /\ Derive("abc", Strashed, "aig", "plain")
        /\ names' \in NamesOf(Computes("abc"))

\* The node of the first input: a k-LUT network has two constant nodes.
FirstInput(s) == IF s = "lut" THEN 2 ELSE 1

\* The inputs and outputs of the ABC network get the names remembered for
\* their indices.  One that has none gets the empty name; two such inputs, or
\* outputs, share a net.
Named(s, f) ==
  /\ f \in Designs
  /\ Interface[f].pis + FirstInput(s) <= names.pis + 2
  /\ Interface[f].pos <= names.pos + 1

\* For a LUT of more than three inputs the array of names is written past its end.
ConvertToAbc(s) ==
  /\ s \in LogicTypes /\ {s, "abc"} \subseteq Types
  /\ ~Empty(s)
  /\ \/ /\ PushBuilt("abc", IF Named(s, Computes(s)) THEN Computes(s) ELSE "garbled", "logic")
        /\ said' = <<"converted", s>>
     \/ s = "lut" /\ Terminate

\* Nodes are visited in index order; after an optimisation in place a fanin
\* may come after the node, and its signal is NULL when it is used.
ConvertAigToGia ==
  /\ {"aig", "gia"} \subseteq Types
  /\ ~Empty("aig")
  /\ \/ Quiet /\ PushBuilt("gia", Computes("aig"), "gia")
     \/ Form("aig") = "rewired" /\ Terminate

ConvertGiaToAig ==
  {"aig", "gia"} \subseteq Types /\ (NullElement("gia") \/ Derive("gia", GiaForms, "aig", "plain"))
=============================================================================
