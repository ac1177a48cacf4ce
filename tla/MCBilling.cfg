SPECIFICATION FairSpec
CONSTANTS
  Subs = {s1, s2}
  Manual = {g1}
  Plans = {loaded}
  Handlers = {h1}
  Worker = worker
  Statuses = {"past_due", "canceled"}
  Period = 1
  Grace = 1
  MaxTime = 1
  Workloads <- Mixes
  None = None
INVARIANTS TypeOK
PROPERTIES NewestKept FollowsStripe AccessEnds
CHECK_DEADLOCK FALSE
