SPECIFICATION Spec
CONSTANTS
  j1 = j1  p1 = p1
  Jobs = {j1}
  Workers = {w1, w2}
  Direct = {d1}
  Places = {p1, p2}
  PlaceOf <- MCPlaceOf
  Contents = {c1, c2}
  MaxToken = 3
  MaxDirect = 1
  None = None
PROPERTIES LostLeaseExposesNothing
