\* OCI reports under every fault: errors, lost acknowledgements and crashes.
SPECIFICATION Spec
CONSTANTS
  o1 = o1
  o2 = o2
  a1 = a1
  scheduler = scheduler
  http = http
  NoRun = NoRun
  Callers = {scheduler, http}
  OciObjects = {o1}
  AwsObjects = {}
  MaxVersion = 2
  MaxDay = 2
  Content <- OciContent1
  Lookback = 0
  Retention = 1
  DaysPerPeriod = 2
  MaxFilesPerRun = 2
  BufferRecords = 1
  MaxConsecutiveObjectFailures = 1
  MayFail = TRUE
  MayLoseAck = TRUE
  MayCrash = TRUE
SYMMETRY CallerSymmetry
INVARIANTS
  ProcessedComplete
  TypeOK
  NoDoubleCount
  SingleVersion
PROPERTY ReplacesExports
