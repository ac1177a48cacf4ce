SPECIFICATION Spec
CONSTANTS
  u1 = u1  u2 = u2  u3 = u3  teen = teen  adult = adult
  None = None  Queued = Queued
  Users = {u1, u2, u3}
  Cohort <- TwoCohorts
  Adult = adult
  Modes = {"text"}
  MatchIds = {m1, m2}
  CallIds = {c1}
  Handlers = {h1}
  Requests = {"join", "ack", "leave", "call", "renew", "release", "report", "reconnect", "block", "sanction"}
  Window = 2
  Priority = {u1}
  Clash = {}
  Friends <- Pair12
  Disputes <- Dispute12
  Offenders = {u1}
  Unreliable = {h1}
SYMMETRY IdSymmetry
INVARIANTS TypeOK CohortsNeverMix
PROPERTIES KeepsPromise BlockedNeverMatched
