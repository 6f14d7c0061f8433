--------------------------- MODULE LogicCommands ---------------------------
(***************************************************************************)
(* The commands on mockturtle networks: AIGs, MIGs, XMGs, XAGs and k-LUT   *)
(* networks.  One operator per command; the option that picks the network  *)
(* is the quantified t.  Results(command, f) stands for what the engine of *)
(* a command computes; what the commands do with the stores, their order   *)
(* and their checks are as in the source.                                  *)
(***************************************************************************)
EXTENDS NetworkStores

\* "auto ntk = store.current(); optimise(ntk); ntk = cleanup_dangling(ntk);
\*  store.extend(); store.current() = ntk": the handle was copied, not the
\* network.
Optimise(cmd, t) ==
  /\ Quiet
  /\ ~Empty(t)
  /\ \E f \in Results(cmd, Computes(t)) : InPlace(t, f)

\* With --gain the pass is repeated on the copies until one is no smaller than
\* before; only the first pass works on the element itself.
Repeated(cmd, t) ==
  /\ Quiet
  /\ ~Empty(t)
  /\ \E g \in Results(cmd, Computes(t)) :
       \E f \in Results(cmd, g) : InPlaceThenPush(t, g, f)

\* A new network of type t is built from the current one of type s.
Rebuild(cmd, s, t, form) ==
  /\ Quiet
  /\ Present(s)
  /\ \E f \in Results(cmd, Computes(s)) : PushBuilt(t, f, form)

Refactor ==
  \/ \E t \in Types \cap {"mig", "xag", "xmg", "aig"} : Optimise("refactor", t)
  \/ "xmg" \in Types /\ Repeated("refactor", "xmg")

Resub == \E t \in Types \cap {"xmg", "mig", "xag", "aig"} : Optimise("resub", t)

Aw == \E t \in Types \cap {"xag", "xmg", "mig"} : Optimise("aw", t)

\* Only the AIG is guarded against an empty store.
Balance ==
  \/ "aig" \in Types /\ Optimise("balance", "aig")
  \/ \E t \in Types \cap {"xmg", "xag"} :
       Rebuild("balance", t, t, "plain") \/ NoCurrent(t)

\* --compatibility_graph works in place, the other variants rebuild; the
\* *_npn variants do not look whether there is a network.
Rewrite ==
  \/ \E t \in Types \cap {"xmg", "mig", "xag", "lut"} : Optimise("rewrite", t)
  \/ \E t \in Types \cap {"xmg", "mig", "xag", "lut", "aig"} : Rebuild("rewrite", t, t, "plain")
  \/ \E t \in Types \cap {"xag", "lut"} : NoCurrent(t)

Wr ==
  \/ \E t \in Types \cap {"aig", "xag"} : Optimise("wr", t) \/ Repeated("wr", t)
  \/ "xag" \in Types /\ NoCurrent("xag")

Fr ==
  \E t \in Types \cap {"mig", "xmg", "xag", "aig"} : Optimise("fr", t) \/ NoCurrent(t)

\* The constants are looked for by simulating the gates in the order of their
\* indices, which after an optimisation in place meets tables that are not
\* there yet.
Stpfr ==
  /\ "aig" \in Types
  /\ \/ Optimise("stpfr", "aig")
     \/ NoCurrent("aig")
     \/ Present("aig") /\ Form("aig") = "rewired" /\ Terminate

Xagrs == "xag" \in Types /\ Optimise("xagrs", "xag")

Xmginv == "xmg" \in Types /\ Optimise("xmginv", "xmg")

Resyn ==
  /\ "lut" \in Types
  /\ \E t \in Types \cap {"xmg", "xag", "aig", "mig"} : Rebuild("resyn", "lut", t, "plain")

\* An empty store fails an assertion.
LutMappingCommand ==
  /\ "lut" \in Types
  /\ \E s \in Types \cap {"mig", "xag", "lut", "aig"} :
       Rebuild("lut_mapping", s, "lut", "plain") \/ NoCurrent(s)

CreateGraph ==
  /\ Quiet
  /\ \E t \in Types \cap {"mig", "xmg", "xag", "aig"}, f \in Designs : PushBuilt(t, f, "plain")

Exact == Quiet /\ "lut" \in Types /\ \E f \in Designs : PushBuilt("lut", f, "plain")

ExactWindow == Quiet /\ "aig" \in Types /\ \E f \in Designs : PushBuilt("aig", f, "plain")

----------------------------------------------------------------------------
(* Commands with --cec.  The network kept for the comparison is a copy of  *)
(* the handle, made before the optimisation.                               *)

\* The miter of the kept handle and the result is checked by an assertion;
\* g and f are what the two compute when it is built.
Checked(cec, g, f, t) ==
  IF cec THEN g = f /\ said' = <<"equivalent", t>> ELSE Quiet

SelfChecked(cmd, t) ==
  /\ ~Empty(t)
  /\ \E f \in Results(cmd, Computes(t)), cec \in BOOLEAN :
       InPlace(t, f) /\ Checked(cec, f, f, t)

Xagopt == \E t \in Types \cap {"xag", "xmg"} : SelfChecked("xagopt", t)

Xagopt2 == \E t \in Types \cap {"xag", "xmg"} : SelfChecked("xagopt2", t)

Xagrw == "xag" \in Types /\ SelfChecked("xagrw", "xag")

Xmgrs == "xmg" \in Types /\ SelfChecked("xmgrs", "xmg")

\* The default variant makes two passes; the second works on a network of its
\* own, so that the check does compare what the first and the second computed.
Xmgrw ==
  /\ "xmg" \in Types
  /\ \/ Optimise("xmgrw", "xmg")
     \/ /\ ~Empty("xmg")
        /\ \E g \in Results("xmgrw", Computes("xmg")) :
           \E f \in Results("xmgrw", g), cec \in BOOLEAN :
             \/ InPlaceThenPush("xmg", g, f) /\ Checked(cec, g, f, "xmg")
             \/ cec /\ g # f /\ Terminate

Lutrw == "lut" \in Types /\ (SelfChecked("lutrw", "lut") \/ NoCurrent("lut"))

\* --best_result compares with the LUT mapping of the current AIG and pushes
\* the smaller of the two; the network in the store has been rewritten by then.
Elm ==
  /\ "lut" \in Types
  /\ \/ SelfChecked("elm", "lut")
     \/ NoCurrent("lut")
     \/ /\ ~Empty("lut") /\ "aig" \in Types
        /\ \/ NoCurrent("aig")
           \/ /\ ~Empty("aig")
              /\ \E g \in Results("elm", Computes("lut")) :
                   \E f \in {g, Computes("aig")} : InPlaceThenPush("lut", g, f)
              /\ Quiet

----------------------------------------------------------------------------
(* cec compares two AIGER files.  The engine's answer is an optional that  *)
(* holds a value unless the solver ran out of resources; the command looks *)
(* whether there is a value, not at the value.                             *)
Cec ==
  /\ \E f \in Designs, g \in Designs, answered \in BOOLEAN :
       said' = <<IF answered THEN "files are equivalent" ELSE "files are not", f, g>>
  /\ UNCHANGED <<net, store, current, up>>
=============================================================================
