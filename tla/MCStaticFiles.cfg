SPECIFICATION Spec
CONSTANTS
  Ull = 64
  Sizes = {1, 2}
  Second = 2
  Ranges <- MCRanges
  Configs <- MCConfigs
  MaxClock = 4
  MaxWrites = 2
  MaxRequests = 2
PROPERTIES
  AnswersWhatIsThere
  NotModifiedIsTrue
CHECK_DEADLOCK FALSE
