SPECIFICATION RuntimeFair
CONSTANTS
  a = a
  b = b
  k = k
  child = child
  Runtime = {a, b}
  Key = {k, child}
  Scenes <- MCScenes
  MaxIds = 3
  MaxOwners = 9
CHECK_DEADLOCK FALSE
INVARIANTS CheckpointKept OwnedInUse OneActiveRecord
PROPERTIES NoLostUpdate 
