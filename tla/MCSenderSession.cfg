\* Two taps; two disturbances by the user; a service that accepts the consent.
CONSTANTS
  ResultOk = 0
  MaxStarts = 2
  MaxBreaks = 2
  MaxPosted = 1
SPECIFICATION SenderLiveSpec
INVARIANTS UiReturnsToIdle
PROPERTIES ConnectingEnds
CHECK_DEADLOCK FALSE
