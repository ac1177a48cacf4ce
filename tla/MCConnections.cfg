SPECIFICATION FairSpec
CONSTANTS
  u1 = u1  s1 = s1
  None = None
  Users = {u1}
  Sessions = {s1}
  Attempts = {k1, k2}
  Owner <- Owners
  CountryOf <- Countries
  GlobalCeiling = 1
  CountryCeiling <- Ceilings
INVARIANTS TypeOK TicketOnce CeilingHolds
PROPERTIES RevokedAreCut SlotsReturn PresenceEnds
CHECK_DEADLOCK FALSE
