CONSTANTS
  NbNodes = 2
  J1 = J1
  J2 = J2
  J3 = J3
  J4 = J4
  Jobs = {J1, J2, J3, J4}
  NoJob = NoJob
  NbQueues = 2
  Plugin = "cbf"
  Workloads <- FaultWorkloads
  Load <- Load4
  Requests <- FaultRequests
  NbSups = 4
SPECIFICATION Spec
INVARIANTS
  SupervisorIntegrity
  JobHeldOnce
  PlannedDisjoint
PROPERTIES
  Lifecycle
  OnTime
CHECK_DEADLOCK FALSE
