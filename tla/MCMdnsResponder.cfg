\* One service, its name contested, renamed, updated and withdrawn.
CONSTANTS
  s1 = s1
  s2 = s2
  A = A
  B = B
  Service = {s1}
  Base = {A, B}
  MaxSuffix = 1
  MaxTxt = 1
  MaxAnswers = 2
  MaxEvents = 3
SPECIFICATION LiveSpec
INVARIANTS OnlyVerifiedSaid LiveNamesAreHeld SaidIsCurrent
PROPERTIES GoesLiveWithHost AllGoLive
CHECK_DEADLOCK FALSE
