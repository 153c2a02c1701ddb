SPECIFICATION Spec
CONSTANTS
  None = None
  Hub = Hub
  Items = {1, 2}
  Collections = {1, 2}
  Bodies = {1, 2, 3}
  Foreign = {3}
  MaxEdits = 4
  MaxFaults = 2
  MidPassEdits = FALSE
  Setups <- MCSetups
INVARIANTS
  PassServes
PROPERTIES
  ServerFilesStand
  NewFilesStay
