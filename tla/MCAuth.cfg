CONSTANTS
  a1 = a1
  a2 = a2
  here = here
  there = there
  u1 = u1
  good = good
  bad = bad
  k1 = k1
  k2 = k2
  Nobody = Nobody
  AnyKey = AnyKey
  Auths = {a1}
  Addresses = {here, there}
  Users = {u1}
  Passwords = {good, bad}
  Keys = {k1}
  Requests <- SomeRequests
  MaxPending = 1
  Uses <- ThreeKinds
CHECK_DEADLOCK FALSE
SPECIFICATION Spec
INVARIANTS
  InForce
PROPERTY
  AnswersAsDocumented
