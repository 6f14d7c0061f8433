SPECIFICATION Spec
CONSTANTS
  Designs <- OneDesign
  Interface <- OneInterface
  Types <- AllTypes
  Faulty <- AllCommands
  MaxNetworks = 2
  MaxStored = 2
INVARIANTS TypeOK CurrentIsSome HandlesUnshared
CHECK_DEADLOCK FALSE
