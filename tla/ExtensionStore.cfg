SPECIFICATION FairSpec
CONSTANTS
  core = core
  extra = extra
  NoBuild = NoBuild
  Torn = Torn
  NoId = NoId
  NoOp = NoOp
  Ids <- MCBoth
  Builds <- MCBuilds
  Version <- MCVersion
  Broken <- MCBroken
  Bundled <- MCBundled
  MaxOps = 3
  MaxCrashes = 2
  MaxFaults = 2
INVARIANTS LoadsWhatIsThere RemovalFailsClosed NeverLeftWithout
PROPERTIES StagedWorkApplied
