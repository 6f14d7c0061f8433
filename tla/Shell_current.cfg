SPECIFICATION Spec
CONSTANTS
  Designs <- OneDesign
  Interface <- OneInterface
  Types <- LogicPairTypes
  Faulty <- AllCommands
  MaxNetworks = 4
  MaxStored = 3
PROPERTIES OnlyCurrentChanges
CHECK_DEADLOCK FALSE
