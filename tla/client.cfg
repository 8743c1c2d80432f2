\* Enough objects for a list of every row beside the ones held.
SPECIFICATION Spec
CONSTANTS
  MaxRow = 2
  MaxUser = 2
  Objects = {1, 2, 3, 4}
  MaxHeld = 2
  MaxLost = 1
INVARIANTS TypeOK NoStrays OwnChangesShown
PROPERTIES StaleIsHarmless
