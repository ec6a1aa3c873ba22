SPECIFICATION ControllerSpec
CONSTANTS
  r1 = r1
  r2 = r2
  Controllers = {r1, r2}
  Fences = {0, 1, 2, 3, 4}
  Selectable = {1}
  Deadlines = {0, 2}
  MaxGen = 4
  MaxNow = 2
INVARIANTS ControllerTypeOK FenceHasOneOwner ConsentScoped
PROPERTY SettledNeedsNewFence
