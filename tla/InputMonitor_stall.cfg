SPECIFICATION InFairSpec
CONSTANTS
  StallTimeout = 1
  HistorySize = 2
  SeeksToEnd = TRUE
  MaxReports = 1
PROPERTY StallExits
