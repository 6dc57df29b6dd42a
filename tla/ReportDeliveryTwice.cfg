\* No fault, no client: can ingestion runs repeat a daily report?
SPECIFICATION Spec
CONSTANTS
  Destinations = {"slack"}
  Clients = {}
  AskedFor = {"daily"}
  MaxHalf = 7
  Week = 2
  StartDay = 3
  LagDays = 1
  Lookback = 1
  MaxFaults = 0
  MaxRequests = 0
INVARIANT DailyReportOnce
