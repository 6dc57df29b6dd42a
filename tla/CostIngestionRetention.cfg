\* Months of CUR exports and no fault at all: are raw records retained?
SPECIFICATION Spec
CONSTANTS
  o1 = o1
  o2 = o2
  a1 = a1
  scheduler = scheduler
  http = http
  NoRun = NoRun
  Callers = {scheduler}
  OciObjects = {}
  AwsObjects = {a1}
  MaxVersion = 2
  MaxDay = 3
  Content <- CurContent
  Lookback = 1
  Retention = 2
  DaysPerPeriod = 2
  MaxFilesPerRun = 1
  BufferRecords = 1
  MaxConsecutiveObjectFailures = 2
  MayFail = FALSE
  MayLoseAck = FALSE
  MayCrash = FALSE
INVARIANT RawRecordsRetained
