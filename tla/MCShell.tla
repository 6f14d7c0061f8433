------------------------------ MODULE MCShell ------------------------------
(***************************************************************************)
(* Two designs, one of one input and one of three, with one output each:   *)
(* after an import of the small one the large one has inputs without a     *)
(* name, and not the other way round.                                      *)
(***************************************************************************)
EXTENDS Shell

MCDesigns == {"small", "large"}

OneDesign == {"large"}

InterfaceOf(designs) ==
  [d \in designs |-> [pis |-> IF d = "small" THEN 1 ELSE 3, pos |-> 1]]

MCInterface == InterfaceOf(MCDesigns)
OneInterface == InterfaceOf(OneDesign)

AllTypes == StoreTypes
BridgeTypes == {"aig", "abc", "gia"}
LogicPairTypes == {"aig", "xmg"}
XmgTypes == {"xmg"}

AllCommands ==
  {"refactor", "resub", "aw", "balance", "rewrite", "wr", "fr", "stpfr", "xagrs", "xmginv",
   "resyn", "lut_mapping", "xagopt", "xagopt2", "xagrw", "xmgrs", "xmgrw", "lutrw", "elm"}
OnlyXmgrs == {"xmgrs"}
NoCommands == {}
=============================================================================
