SPECIFICATION Spec
CONSTANTS
  Lines <- MCLines
  Price <- MCPrice
  Content <- MCContent
  MaxVersion = 2
  MaxDay = 3
  PayerCurrency = "USD"
  Modes = {"cost_explorer", "cur_s3", "oci"}
  Lookback = 2
  CeLookback = 2
  Retention = 2
  DaysPerWeek = 2
  BaselineDays = 2
  MaxFaults = 1
  MaxSwitches = 1
INVARIANTS
  TypeOK
  NothingCountedTwice
  ReadersAgree
  RegionTotalsMatch
  RegionFilterAgrees
  WeeklyAgreesWithReports
  AnomaliesFit
  ReportsFlagWhatDashboardsFlag
  MovementsCompareWholeDays
PROPERTY ImplementsView
CHECK_DEADLOCK FALSE
