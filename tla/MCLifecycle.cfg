\* Two AirPlay connections with different codecs, one libupnp thread.
CONSTANTS
  c1 = c1
  c2 = c2
  w1 = w1
  Conn = {c1, c2}
  NoConn = NoConn
  Off = Off
  CodecOf <- MCCodecOf
  Handlers <- MCHandlers
  Worker = {w1}
  MaxFailed = 1
SPECIFICATION LiveSpec
INVARIANTS HudSettles AudioFitsSession CallersFindHandlers CleanExit
PROPERTIES ShutdownCompletes
CHECK_DEADLOCK FALSE
