\* Both schedulers, an HTTP client and a fault: what is recorded and repeated, and
\* whether due reports get through.
SPECIFICATION FairSpec
CONSTANTS
  Destinations = {"slack"}
  Clients = {"client"}
  AskedFor = {"daily"}
  MaxHalf = 6
  Week = 2
  StartDay = 2
  LagDays = 1
  Lookback = 1
  MaxFaults = 1
  MaxRequests = 1
INVARIANTS
  TypeOK
  RecordedWasSent
  RepeatsExplained
  OnlyReplacedDaysMissing
PROPERTY DueReportSent
