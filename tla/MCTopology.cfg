CONSTANTS
  CpuInfos <- MCCpuInfos
  TakeSizes = {1, 2, 3, 5}

SPECIFICATION Spec

INVARIANT TypeOK
INVARIANT NumAvailableConsistent

PROPERTY TakeIsCompact
PROPERTY PoolRefinement
