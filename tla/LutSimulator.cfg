SPECIFICATION FairSpec
CONSTANTS
  Names <- Names12
  Files <- MCFiles
  MaxBranch = 1
  Modes = {"random", "full"}
  PatternNum = 1
INVARIANTS TypeOK InBounds OperandsReady TreesWellCut ValuesCorrect TablesCorrect
PROPERTIES Ends
