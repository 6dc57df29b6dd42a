\* One CUR export whose stream may break: does every run end?
SPECIFICATION FairSpec
CONSTANTS
  o1 = o1
  o2 = o2
  a1 = a1
  scheduler = scheduler
  http = http
  NoRun = NoRun
  Callers = {scheduler}
  OciObjects = {}
  AwsObjects = {a1}
  MaxVersion = 1
  MaxDay = 1
  Content <- OneCurExport
  Lookback = 1
  Retention = 1
  DaysPerPeriod = 2
  MaxFilesPerRun = 1
  BufferRecords = 1
  MaxConsecutiveObjectFailures = 2
  MayFail = TRUE
  MayLoseAck = FALSE
  MayCrash = TRUE
PROPERTY RuntimeIsLimited
