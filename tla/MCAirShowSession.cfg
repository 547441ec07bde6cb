\* Two clients, two frames each, the second with sound.
CONSTANTS
  c1 = c1
  c2 = c2
  Client = {c1, c2}
  NoClient = NoClient
  Other = Other
  Audio = {2}
  MaxFrames = 2
SPECIFICATION LiveSpec
INVARIANTS FramesAreWhole NothingStranded OpenIsServed 
PROPERTIES GreetingIsAnswered
CHECK_DEADLOCK FALSE
