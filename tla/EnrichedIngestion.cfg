\* Two jobs and the scheduler, two anomalies, one failed call, panic, crash or shutdown.
SPECIFICATION Spec
CONSTANTS
  MaxJobs = 2
  MaxStored = 1
  MaxMishaps = 1
  MaxId = 2
  MaxInput = 2
  QueueSize = 1
  MaxErrors = 1
  MaxItems = 1
  MaxFaults = 1
INVARIANTS
  TypeOK
  UnfinishedIsActive
  UnfinishedIsWorkedOn
  NeverAsksAgain
  NoSendOnClosed
  CloseNeverStuck
  TextFitsAnomaly
PROPERTY TasksEndWithText
