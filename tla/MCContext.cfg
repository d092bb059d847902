CONSTANTS
  o1 = o1
  o2 = o2
  h1 = h1
  h2 = h2
  req = req
  rep = rep
  c1 = c1
  c2 = c2
  z1 = z1
  z2 = z2
  Owners = {c1, c2}
  Contexts = {z1, z2}
  Objects = {o1, o2}
  Handles = {h1, h2}
  Types = {req, rep}
  Ints <- AroundZero
  TwoTo64 = 4
  Texts = {"abc", "nul", "long"}
  Uses <- PlainSharedAndContexts
CHECK_DEADLOCK FALSE
SYMMETRY Symmetric
SPECIFICATION ContextSpec
INVARIANTS
  HandlesAreOwned
  GetsWhatWasSet
  ReadsBack
  ContextsAreOwned
