CONSTANTS
  a1 = a1
  a2 = a2
  here = here
  there = there
  u1 = u1
  good = good
  bad = bad
  k1 = k1
  k2 = k2
  Nobody = Nobody
  AnyKey = AnyKey
  Auths = {a1, a2}
  Addresses = {here}
  Users = {u1}
  Passwords = {}
  Keys = {}
  Requests <- OneRequest
  MaxPending = 1
  Uses <- OnlyPlain
CHECK_DEADLOCK FALSE
SPECIFICATION FairSpec
INVARIANTS
  MembersOutliveUse
PROPERTY
  ServiceAnswers
