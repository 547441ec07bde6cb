\* Two connections, two gated messages each.
CONSTANTS
  s1 = s1
  s2 = s2
  Session = {s1, s2}
  NoSession = NoSession
  MaxGated = 2
  MaxEvents = 1
SPECIFICATION Spec
INVARIANTS GatedInOrder NothingBeforeConsent NoOrphanPipeline
PROPERTIES EndedIsRemoved
CHECK_DEADLOCK FALSE
