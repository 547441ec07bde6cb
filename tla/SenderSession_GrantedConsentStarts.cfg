\* Statement of the repository the code does not keep.
CONSTANTS
  ResultOk <- AndroidResultOk
  MaxStarts = 1
  MaxBreaks = 1
  MaxPosted = 1
SPECIFICATION SenderSpec
PROPERTIES GrantedConsentStarts
CHECK_DEADLOCK FALSE
