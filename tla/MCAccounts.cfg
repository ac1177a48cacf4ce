SPECIFICATION FairSpec
CONSTANTS
  p1 = p1  p2 = p2  a1 = a1  a2 = a2
  None = None
  Rows = {r1}
  Exports = {e1}
  Uploads = {a1, a2}
  Handlers = {h1, h2}
  Passes = {p1, p2}
  Steps = {"birth_date", "policies"}
  Workloads <- Mixes
  MaxCrashes = 1
INVARIANTS TypeOK DeletionAgrees ContactIsOnboarded DownloadWorks AvatarShown
PROPERTIES LifeKept DeletionFinishes ExportSettles
CHECK_DEADLOCK FALSE
