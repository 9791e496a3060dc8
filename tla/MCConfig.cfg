SPECIFICATION Spec
CONSTANTS
  NumParams = 2
  NumSlots = 5
  Values = {"factory", "tuned"}
  Default = "factory"
  Odd = "odd"
  Binds = {"tx1", "tx2"}
  None = NONE
  MaxChanges = 2
  MaxSaves = 2
  MaxStores = 2
  MaxFaults = 1
  MaxBoots = 1
INVARIANTS TypeOK  
PROPERTIES BootsOneSave
