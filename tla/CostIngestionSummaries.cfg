\* Both providers in one run: the join, the summaries, the end of the run.
SPECIFICATION FairSpec
CONSTANTS
  o1 = o1
  o2 = o2
  a1 = a1
  scheduler = scheduler
  http = http
  NoRun = NoRun
  Callers = {scheduler}
  OciObjects = {o1}
  AwsObjects = {a1}
  MaxVersion = 1
  MaxDay = 2
  Content <- BothContent
  Lookback = 1
  Retention = 1
  DaysPerPeriod = 2
  MaxFilesPerRun = 1
  BufferRecords = 2
  MaxConsecutiveObjectFailures = 2
  MayFail = TRUE
  MayLoseAck = TRUE
  MayCrash = TRUE
INVARIANT SummariesCoverStore
PROPERTY RunEnds
