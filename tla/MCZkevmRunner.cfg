SPECIFICATION Spec
CONSTANTS
  Root = "root"
  SubDirs = {".d", "a", "a-"}
  Files <- MCFiles
  Single = "a/1"
  Above <- MCAbove
  WalkOrder <- MCWalkOrder
  PathRank <- MCPathRank
  Hidden = {"root", ".d"}
  Json = {"h", "a/1", "a/3", "a-/2"}
  MaxBlocks = 2
  MayHold <- MCMayHold
  Unreadables <- MCUnreadables
  MaxSuitesShown = 1
  BenchOpts <- MCBenchOpts
  RunnerOpts <- MCRunnerOpts
  Names = {"x/t", "y/t"}
  TestName <- MCTestName
  NameRank <- MCNameRank
  SafeBase <- MCSafeBase
INVARIANTS
  DiscoveryIsComplete
  RunnerFindsWhatBenchFinds
  TalliesAgree
  DumpsKept
  CrashesOnlyWithoutJobs
PROPERTIES
  ImplementsParallelMap
  Ends
