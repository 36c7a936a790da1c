SPECIFICATION FairSpec
CONSTANTS
  a1 = a1
  a2 = a2
  Alarm = {a1, a2}
  MaxEvents <- Lives
  MaxFaults = 1
INVARIANTS TicketFollowsAlarm NotifiedIsTrue SecondTicketExplained
PROPERTIES TicketEnds
CHECK_DEADLOCK FALSE
