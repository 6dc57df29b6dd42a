\* The scan limit covers the bucket, as in the example configurations.
SPECIFICATION FairSpec
CONSTANTS
  MaxNumber = 4
  MaxGap = 1
  MaxTime = 3
  Lookback = 2
  Overlap = 1
  Margin = 0
  FirstStep = 2
  MaxProbes = 3
  MaxObjectScan = 10
  PageSize = 2
  MaxFilesPerRun = 2
  MaxZeroYieldFiles = 2
  MaxConsecutiveObjectFailures = 2
  MaxRunTime = 1
  AskedFor = {1}
  MaxRequests = 1
  MaxFaults = 1
INVARIANTS
  TypeOK
  SeekSkipsNothingRecent
  NoReportLeftBehind
PROPERTY ReportsGetIngested
