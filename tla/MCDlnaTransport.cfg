\* Safety: three threads of the pool, two URIs.
CONSTANTS
  w1 = w1
  w2 = w2
  w3 = w3
  u1 = u1
  u2 = u2
  Worker = {w1, w2, w3}
  Uri = {u1, u2}
  NoUri = NoUri
  CastUri = CastUri
  Desired = {50, 150}
  MaxPosted = 2
SYMMETRY MCSymmetry
SPECIFICATION Spec
INVARIANTS TransportIsPipeline HudShowsPlaying
