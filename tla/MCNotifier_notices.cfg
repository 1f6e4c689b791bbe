\* Two instances, one of which may die; two orders on pages of one.
CONSTANTS
  n1 = n1  n2 = n2
  Node = {n1, n2}
  Mortal = {n1}
  LastId = 2
  BatchSize = 1
  NoOne = NoOne
SPECIFICATION FairNotifier
PROPERTIES ExactlyOnce NeverMissed
