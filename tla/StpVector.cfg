SPECIFICATION Spec
CONSTANT Chains <- MCChains
INVARIANTS TypeOK MeaningKept NormalFormCorrect
PROPERTY ScanAdvances
