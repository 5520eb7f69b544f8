CONSTANTS
  Slots = {s1, s2}
  Addresses <- MCAddresses
  Requests <- MCRequests
  Limit <- MCLimit
  Window = 1
  MaxClock = 2
  MaxArrivals = 4
  MaxFaults = 1
SYMMETRY Symmetry
SPECIFICATION Spec
INVARIANTS
  RateBounded
  AnswersTrue
  AlertsUsable
PROPERTIES
  RefusalJustified
CHECK_DEADLOCK FALSE
