SPECIFICATION FairSpec
CONSTANTS
  Calls = {"c1", "c2"}
  GateKinds <- MCGateKinds
  MaxGates = 1
  Capacity = 1
INVARIANTS
  OnlyAuthorised
  OutcomeMatchesRow
  NoMissedDecision
PROPERTIES
  EveryCallEnds
CHECK_DEADLOCK FALSE
