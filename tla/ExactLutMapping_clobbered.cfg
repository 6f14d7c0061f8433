SPECIFICATION Spec
CONSTANTS
  f = f
  g = g
  h = h
  and2 = and2
  NumNodes = 7
  Functions <- MCFunctions
  Function <- MCFunction
  Width <- MCWidth
  CutSize = 4
  Modes = {"run", "run_mix", "run_dec"}
  Solvable = {f, g, h}
  FreedWrite = {"lost", "clobber"}
INVARIANT FunctionPreserved
