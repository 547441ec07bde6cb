\* Safety: three sources.
CONSTANTS
  a = a
  b = b
  c = c
  Source = {a, b, c}
  NoSource = NoSource
SYMMETRY MCSymmetry
SPECIFICATION Spec
INVARIANTS NegotiatedWithPeer HudFollowsStream
