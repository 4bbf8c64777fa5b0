\* Two workers drain two events for one subscription that is paused, resumed and deleted, under
\* a filter that drops one of two origins.
SPECIFICATION FairApartSpec
CONSTANTS
  s1 = s1
  w1 = w1
  w2 = w2
  a1 = a1
  a2 = a2
  own = own
  other = other
  third = third
  NoLease = NoLease
  NoDelivery = NoDelivery
  Origins = {own, other, third}
  Types = {"task"}
  Unused = Unused
  Gone = Gone
  Subs = {s1}
  Settings <- MCPicky
  Patches <- MCPause
  Kinds <- MCKinds
  Workers = {w1, w2}
  Admins = {a1}
  MaxAttempts = 2
  MaxEvents = 2
  MaxFaults = 1
INVARIANTS
  OneInFlight
  AttemptsBounded
  
PROPERTIES
  IsAtLeastOnce
  DeliveriesSettle
CHECK_DEADLOCK FALSE
