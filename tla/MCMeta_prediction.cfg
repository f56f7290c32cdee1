CONSTANTS
  J1 = J1
  J2 = J2
  J3 = J3
  J4 = J4
  Jobs = {J1, J2, J3, J4}
  NoJob = NoJob
  JobList <- List4
  NbClusters = 2
  Size <- TwoSizes
  Levels <- TwoLevels
  Plugins <- TwoPlugins
  Speed <- TwoSpeeds
  Services <- TwoServices
  Workloads <- MetaWorkloads
  MaxLate = 0
SPECIFICATION Spec
INVARIANT FirstCompleted
