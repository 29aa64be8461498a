SPECIFICATION RegionSpec
CONSTANTS
  RegionLoops <- MCConditions
  Workspaces <- MCWorkspaces
  LoopRanges <- MCLoopRanges
  Backends = {"auto", "portable", "native"}
INVARIANT LoopMeansTheSame
CHECK_DEADLOCK FALSE
