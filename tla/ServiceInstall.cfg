SPECIFICATION Spec
CONSTANTS
  Name = {n1, n2}
  Setting = {x, y}
  None = None
SYMMETRY Symmetry
INVARIANTS InstalledIsLoaded
