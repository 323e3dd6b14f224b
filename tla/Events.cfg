SPECIFICATION FairSpec
CONSTANTS
  NotifyChSize = 1
  EventsSize = 1
  StreamSize = 1
  MaxChanges = 3
  MaxBreaks = 1
INVARIANTS ViewFollows  NoPanic 
 
CONSTRAINT OneAtATime
CHECK_DEADLOCK FALSE
