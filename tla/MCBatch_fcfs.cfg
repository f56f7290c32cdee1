CONSTANTS
  NbNodes = 2
  J1 = J1
  J2 = J2
  J3 = J3
  J4 = J4
  Jobs = {J1, J2, J3}
  NoJob = NoJob
  NbQueues = 2
  Plugin = "fcfs"
  Workloads <- FcfsWorkloads
  Load <- Load3
  Requests = {}
  NbSups = 3
SPECIFICATION FairSpec
INVARIANTS
  PlannedDisjoint
  ChartFollowsTrace
PROPERTIES
  OnTime
  NodeExclusive
  SubmittedOnTime
  ImplementsCluster
  JobsComplete
CHECK_DEADLOCK FALSE
