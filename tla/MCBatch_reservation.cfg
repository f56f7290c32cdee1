CONSTANTS
  NbNodes = 2
  J1 = J1
  J2 = J2
  J3 = J3
  J4 = J4
  Jobs = {J1, J2, J3, J4}
  NoJob = NoJob
  NbQueues = 1
  Plugin = "cbf"
  Workloads <- ReservationWorkloads
  Load <- Load3
  Requests <- CbfRequests
  NbSups = 4
SPECIFICATION Spec
INVARIANT ReservationHonoured
