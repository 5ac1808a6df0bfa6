CONSTANTS
  u1 = u1
  u2 = u2
  Users <- MC_OneUser
  Tasks <- MC_Tasks
  Parent <- MC_Parent
  LineLen <- MC_LineLen
  Inputs <- MC_Inputs
  MaxOps = 4
SPECIFICATION Spec
INVARIANT TypeOK OutputIsAncestry
