CONSTANTS
  NbNodes = 2
  J1 = J1
  J2 = J2
  J3 = J3
  J4 = J4
  Jobs = {J1, J2, J3}
  NoJob = NoJob
  NbQueues = 1
  Plugin = "fcfs"
  Workloads <- TransferWorkloads
  Load <- Load3
  Requests = {}
  NbSups = 3
SPECIFICATION Spec
PROPERTY DoneJobFirst
