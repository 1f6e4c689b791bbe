\* One instance and four orders on pages of one: orders ship between the
\* pages of a listing.
CONSTANTS
  n1 = n1  n2 = n2
  Node = {n1}
  Mortal = {}
  LastId = 4
  BatchSize = 1
  NoOne = NoOne
SPECIFICATION NotifierSpec
PROPERTIES NoneSkipped
