SPECIFICATION Spec
CONSTANTS
  Managed <- MCManaged
  Self = "manager"
  Nodes = {"gui"}
  NpmManifest = {"manager", "gui"}
  Dists = {"lib", "lib2", "contrib", "opencv", "old"}
  OpenCV = {"contrib", "opencv"}
  Central <- MCCentral
  Pulled <- MCPulled
  Preferred <- MCPreferred
  Cases <- MCCases
  Hosts <- MCHosts
  Spaces <- MCSpaces
  MaxFaults = 0
  MaxRuns = 1
PROPERTIES
  RunningVenvKept
CHECK_DEADLOCK FALSE
