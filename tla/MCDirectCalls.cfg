SPECIFICATION FairSpec
CONSTANTS
  u1 = u1  u2 = u2
  None = None
  Users = {u1, u2}
  Calls = {c1}
  Handlers = {h1, h2}
  Disputes <- Dispute12
INVARIANTS TypeOK
PROPERTIES LifeSpec RingSettles LeaseFreed BlockCutsCall
CHECK_DEADLOCK FALSE
