\* The scan limit covers the bucket, and OCI leaves out two numbers between reports.
SPECIFICATION Spec
CONSTANTS
  MaxNumber = 5
  MaxGap = 2
  MaxTime = 5
  Lookback = 3
  Overlap = 1
  Margin = 1
  FirstStep = 2
  MaxProbes = 32
  MaxObjectScan = 10
  PageSize = 2
  MaxFilesPerRun = 5
  MaxZeroYieldFiles = 2
  MaxConsecutiveObjectFailures = 2
  MaxRunTime = 1
  AskedFor = {1}
  MaxRequests = 0
  MaxFaults = 0
INVARIANT NoReportLeftBehind
