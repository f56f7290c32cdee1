CONSTANTS
  NbNodes = 2
  J1 = J1
  J2 = J2
  J3 = J3
  J4 = J4
  Jobs = {J1, J2, J3, J4}
  NoJob = NoJob
  NbQueues = 2
  Plugin = "cbf"
  Workloads <- CbfWorkloads
  Load <- Load3
  Requests <- CbfRequests
  NbSups = 4
SPECIFICATION Spec
INVARIANTS
  TypeOK
  PlannedDisjoint
  ChartFollowsTrace
  AckTraced
  ReservationHonoured
  WaitsOnlyInCircle
  EndClean
PROPERTIES
  DoneJobFirst
  StartsOnPlan
  NodeExclusive
  ImplementsCluster
CHECK_DEADLOCK FALSE
