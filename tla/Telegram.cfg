SPECIFICATION FairSpec
CONSTANTS
  KindOf <- PrivateAndGroup
  MaxItems = 2
  MaxFaults = 2
INVARIANTS SentOnce NoReplyLost
PROPERTIES OwnerTextPassed UpdatesPass
CHECK_DEADLOCK FALSE
