SPECIFICATION Spec
CONSTANTS
  Users = {"u"}
  UserKinds = {"market_ideas"}
  Calendar <- MCCalendar
  Backends = {"http", "cli"}
  Budget = 3
  Headroom <- MCHeadroom
  ReplyCosts = {2}
  MaxIterations = 2
  MaxAttempts = 2
  Members = {"a"}
  Markets <- MCMarkets
  FirstMarket <- MCFirstMarket
  Answers <- MCAnswers
  MaxRuns = 2
  MaxFaults = 1
  MaxTurns = 1
INVARIANTS RunsRecorded ScheduledOnce GroundedOnly
PROPERTIES StartsWithinBudget RunsEnd
CHECK_DEADLOCK FALSE
