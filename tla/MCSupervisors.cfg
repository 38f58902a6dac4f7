SPECIFICATION AnySpec
CONSTANTS
  Timeout = 1
  StallTimeout = 1
  HistorySize = 2
  SeeksToEnd = TRUE
  MaxReports = 3
  MaxStopSignals = 3
INVARIANTS SupervisorsTypeOK ExitsAreClean InTypeOK HistoryIsLatest InExitIsClean
PROPERTIES FfmpegIsRestarted StopsEnd StallIsReal InKillEnds
