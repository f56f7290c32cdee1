\* Every table three jobs can give on three nodes, with both plugins and
\* reservations mixed; the jobs have slots of 1, 2 and 3.
CONSTANTS
  NbNodes = 3
  Jobs = {1, 2, 3}
  Walls <- MCWalls
  Horizon = 3
SPECIFICATION Spec
INVARIANTS
  FindASlotMatches
  SelectNSlotsMatches
  PlannedDisjoint
  FindASlotEarliest
CHECK_DEADLOCK FALSE
