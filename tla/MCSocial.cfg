SPECIFICATION FairSpec
CONSTANTS
  Users = {ann, bob}
  MaxRequests = 3
  Workloads <- All
  Staff = {s1, s2}
  SanctionIds = {x1}
  Types = {"contact_restriction"}
  Rank <- Ranks
  Clients = {c1, c2}
  None = None
INVARIANTS TypeOK BlockSettles RequestsAgree NoCollision SomeoneIsTold
PROPERTIES SettledStays RetentionRuns
CHECK_DEADLOCK FALSE
