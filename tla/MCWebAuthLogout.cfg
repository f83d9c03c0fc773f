SPECIFICATION MCShippedSpec
CONSTANTS
  p1 = p1
  s1 = s1
  s2 = s2
  Pages <- MCPages
  Slots <- MCSlots
  Exchanges <- MCExchanges
  PageOf <- MCPageOf
  MaxSessions = 2
  MaxFailures = 0
INVARIANT
  LogoutSticks
