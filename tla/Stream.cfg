CONSTANTS
  MaxEvents = 5
  Limit = 2
  MaxFaults = 2
SPECIFICATION FairSpec
INVARIANTS TypeOK FramesIncrease
PROPERTIES ImplementsEventFeed 
