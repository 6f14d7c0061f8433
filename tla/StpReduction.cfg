SPECIFICATION FairSpec
CONSTANTS
  NumPis = 2
  NumGates = 6
  Designs <- MCDesigns
  BlockSize = 2
  MaxTfiNodes = 6
  SkipFanoutLimit = 3
INVARIANTS TypeOK FunctionsKept Acyclic
PROPERTIES CounterexamplesSeparate MirrorsKept Returns
