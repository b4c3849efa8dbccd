SPECIFICATION SamplerSpec
CONSTANTS
  MinuteLen = 2
  Jitter = 1
  Retentions = {2, 5}
  Geometries <- Ranges
  StoreFails = TRUE
  Starts = {0, 1}
  MaxTime = 8
  MaxRequests = 2
INVARIANTS
  SeriesSound
  ChartReaches
