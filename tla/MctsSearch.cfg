SPECIFICATION Spec
CONSTANTS
  ActionSize = 2
  SequenceLength = 3
  SearchIteration = 3
  Noises <- MCNoises
  Outcomes <- MCOutcomes
  Strategies = {"d_only", "amd"}
  Indefinite <- MCIndefinite
INVARIANTS TypeOK NeverThrows VisitsAddUp FirstVisitsBest
PROPERTIES BlindToRewards
CHECK_DEADLOCK FALSE
