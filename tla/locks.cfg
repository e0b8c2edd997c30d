SPECIFICATION Spec
CONSTANTS
  Null = Null
  u1 = u1  u2 = u2  u3 = u3  ta = ta  tb = tb
  p1 = p1  p2 = p2  p3 = p3  x1 = x1  x2 = x2  x3 = x3
  UserIds = {u1, u2, u3}
  TeamNames = {ta, tb}
  PRIds = {p1, p2, p3}
  Txns = {x1, x2, x3}
  WriteCalls <- AnyWrites
  SeedUsers <- Users3
  SeedPRs <- PRs3
  MaxConns = 2
  Faults = {"Deadline", "Crash"}
INVARIANTS RowLocksTypeOK PoolBalanced
PROPERTIES ImplementsAtomicWrites
SYMMETRY Symmetry
