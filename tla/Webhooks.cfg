SPECIFICATION FairSpec
CONSTANTS
  e1 = e1
  e2 = e2
  all = all
  paid = paid
  other = other
  w1 = w1
  w2 = w2
  b1 = b1
  b2 = b2
  Events = {e1}
  Endpoints = {all, paid}
  Dispatchers = {w1, w2}
  EventOwner <- Owners
  EventType <- Types
  EndpointOwner <- EndpointOwners
  EventTypes <- Filters
  MaxAttempts = 2
  Batch = 2
  MaxRedelivers = 1
  MaxFaults = 1
INVARIANTS
  TypeOK
  NotStranded
  SucceededIsTrue
  DeadForCause
PROPERTIES
  EventuallySettled
  EventuallyDelivered
