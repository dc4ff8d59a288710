SPECIFICATION Spec
CONSTANTS
  a = a
  b = b
  t = t
  Packages <- MCPackages
  MaxVersion = 3
  Unfrozen = {b}
  Torch <- MCTorch
  Twins <- MCTwins
  Indexes <- MCIndexes
  StartVenvs <- MCStartVenvs
  NoFreeze = NoFreeze
INVARIANTS
  SafeTypeOK
  RollbackRestores
  QuietRunIsSound
  PlanIsSound
CHECK_DEADLOCK FALSE
