\* Liveness: one packet per frame, so that frame IDs come near their wrap.
CONSTANTS
  Video = TRUE
  Modulus = 6
  MaxAhead = 2
  AckBits = 2
  MaxLosses = 1
  Packets = 1
  Lifetime = 3
  MaxFrame = 4
SPECIFICATION Spec
PROPERTIES WindowReopens HolesClose
CHECK_DEADLOCK FALSE
