SPECIFICATION Spec
CONSTANTS
  Managed <- MCManaged
  Self = "manager"
  Nodes = {"gui"}
  NpmManifest = {"manager", "gui"}
  Dists = {"lib", "lib2", "contrib", "opencv", "old"}
  OpenCV = {"contrib", "opencv"}
  Central <- MCCentral
  Pulled <- MCPulled
  Preferred <- MCPreferred
  Cases <- MCCases
  Hosts <- MCHosts
  Spaces <- MCSpaces
  MaxFaults = 2
  MaxRuns = 1
INVARIANTS
  StepsTypeOK
  SuccessIsHealthy
  VerifiedMeansChecked
PROPERTIES
  ValidVenvKept
CHECK_DEADLOCK FALSE
