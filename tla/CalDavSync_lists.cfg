SPECIFICATION Spec
CONSTANTS
  None = None
  Hub = Hub
  Items = {1, 2}
  Collections = {1, 2}
  Bodies = {1, 2}
  Foreign = {}
  MaxEdits = 3
  MaxFaults = 0
  MidPassEdits = FALSE
  Setups <- MCTwoLists
PROPERTIES
  DeletesWhatWasThere
