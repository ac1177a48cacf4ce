SPECIFICATION Spec
CONSTANTS
  u1 = u1  u2 = u2  u3 = u3  teen = teen  adult = adult
  None = None  Queued = Queued
  Users = {u1, u2, u3}
  Cohort <- OneCohort
  Adult = adult
  Modes = {"text"}
  MatchIds = {m1}
  CallIds = {c1}
  Handlers = {h1, h2}
  Requests = {"join", "ack", "call"}
  Window = 2
  Priority = {}
  Clash = {}
  Friends <- Everyone
  Disputes = {}
  Offenders = {}
  Unreliable = {h1, h2}
SYMMETRY AllSymmetry
INVARIANTS MutualLeases
PROPERTIES KeepsPromise
