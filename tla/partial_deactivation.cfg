SPECIFICATION Spec
CONSTANTS
  Null = Null
  u1 = u1  u2 = u2  u3 = u3  u4 = u4  u5 = u5
  ta = ta  tb = tb  p1 = p1  p2 = p2
  r1 = r1  r2 = r2  r3 = r3
  UserIds = {u1, u2, u3, u4, u5}
  TeamNames = {ta, tb}
  PRIds = {p1, p2}
  Requests = {r1, r2}
  Calls <- OnlyDeactivate
  MaxInFlight = 1
  Limits = {2}
  ReviewerCap = 2
  Faults = {"DBError"}
  SeedUsers <- OneTeam
  SeedPRs <- OneOpenPR
INVARIANTS DeactivationAllOrNothing
