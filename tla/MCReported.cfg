SPECIFICATION FairSpec
CONSTANTS
  Users = {ann, bob}
  MaxRequests = 1
  Workloads <- JustReports
  Staff = {s1, s2}
  SanctionIds = {x1}
  Types = {"contact_restriction"}
  Rank <- Ranks
  Clients = {c1, c2}
  None = None
PROPERTIES ReportedAreDeleted
CHECK_DEADLOCK FALSE
