SPECIFICATION TableSpec
CONSTANTS
  Users = {u1, u2, u3}
  u1 = u1
  u2 = u2
  u3 = u3
  Dummy = Dummy
  Null = Null
  NumOfObject = 4
  Interrupts = TRUE
  MaxCount = 12
SYMMETRY UserSymmetry
INVARIANTS SlotExclusive CountsTrue
