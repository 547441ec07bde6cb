\* Safety: frames of two packets, frame IDs that wrap, one loss entry per report.
CONSTANTS
  Video = TRUE
  Modulus = 6
  MaxAhead = 2
  AckBits = 2
  MaxLosses = 1
  Packets = 2
  Lifetime = 3
  MaxFrame = 7
SPECIFICATION Spec
INVARIANTS ChunksFiledRight SenderHoldsWhatIsMissing
PROPERTIES ResumesAtKeyFrame ImplementsStream
CHECK_DEADLOCK FALSE
