SPECIFICATION Spec
CONSTANTS
  e1 = e1
  e2 = e2
  all = all
  paid = paid
  other = other
  w1 = w1
  w2 = w2
  b1 = b1
  b2 = b2
  Events = {e1, e2}
  Endpoints = {all, paid, other}
  Dispatchers = {w1}
  EventOwner <- Owners
  EventType <- Types
  EndpointOwner <- EndpointOwners
  EventTypes <- Filters
  MaxAttempts = 2
  Batch = 2
  MaxRedelivers = 0
  MaxFaults = 1
PROPERTIES
  NoEventLost
