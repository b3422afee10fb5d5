CONSTANTS
  i1 = i1
  i2 = i2
  i3 = i3
  Ids = {i1, i2, i3}
  First = i1
  Null = Null
  MaxVersion = 2
SYMMETRY Symmetry
SPECIFICATION Spec
INVARIANT StoreTypeOK
INVARIANT SavedSurvives
 
INVARIANT EnvFollowsId
