SPECIFICATION FairSpec
CONSTANTS
  MaxMessages = 2
  MaxHooks = 2
  MaxQueue = 2
  Limits <- Cases
INVARIANTS PresentedIsRecorded NoDuplicateAdds
PROPERTIES ReturnedAsPromised WakeNotLost RecordedIsTold
CHECK_DEADLOCK FALSE
