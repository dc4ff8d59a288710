SPECIFICATION Spec
CONSTANTS
  Packages = {p, q}
  MaxLevel = 2
  Protected = {q}
  Syncs = {s1, s2}
  WriteBacks = {w}
  Saves = {e}
  SaveTexts <- Texts
  NoFile = NoFile
  MaxCrashes = 1
INVARIANTS
  ManifestTypeOK
  SyncKeepsFloors
  DoneMeansCopied
CHECK_DEADLOCK FALSE
SYMMETRY SyncSymmetry
