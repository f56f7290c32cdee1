CONSTANTS
  NbNodes = 2
  J1 = J1
  J2 = J2
  J3 = J3
  J4 = J4
  Jobs = {J1, J2, J3}
  NoJob = NoJob
  NbQueues = 1
  Plugin = "cbf"
  Workloads <- CancelWorkloads
  Load <- Load3
  Requests <- CancelRequests
  NbSups = 3
SPECIFICATION Spec
INVARIANT TimerHasTask
CHECK_DEADLOCK FALSE
