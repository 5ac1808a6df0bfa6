CONSTANTS
  u1 = u1
  u2 = u2
  Users <- MC_TwoUsers
  Tasks <- MC_Tasks
  Parent <- MC_Parent
  LineLen <- MC_LineLen
  Inputs <- MC_Inputs
  MaxOps = 3
SYMMETRY Perms
SPECIFICATION Spec
INVARIANT MemorySafe
