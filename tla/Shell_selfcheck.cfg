SPECIFICATION Spec
CONSTANTS
  Designs <- MCDesigns
  Interface <- MCInterface
  Types <- XmgTypes
  Faulty <- OnlyXmgrs
  MaxNetworks = 2
  MaxStored = 2
PROPERTIES SelfCheckIsReal
CHECK_DEADLOCK FALSE
