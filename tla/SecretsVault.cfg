SPECIFICATION Spec
CONSTANTS
  k = k
  g = g
  t1 = t1
  t2 = t2
  Ids = {k, g}
  Tokens = {t1, t2}
  NoToken = NoToken
  NoFile = NoFile
  Torn = Torn
  Payloads <- MCPayloads
  Seeds <- MCSeeds
  MaxSaves = 2
INVARIANTS
  VaultTypeOK
  BackupIsOneBack
  KaggleFollowsVault
  ResaveKeepsTokens
PROPERTIES
  ImplementsStore
CHECK_DEADLOCK FALSE
