\* The default allocator on the root cpuset "0-2": two concurrent callers,
\* cgroup writes that may fail.
CONSTANTS
  CpuInfos <- MCCpuInfos
  RootCpuset <- MCRootCpuset
  CgroupWriteCanFail = TRUE
  MemoryPinning = FALSE
  Allocator = "default"
  NumBuckets = 1
  Clients = {c1, c2}
  PodIds = {"p1", "p2"}
  PodNamespace <- MCPodNamespace
  PodContainerIds <- MCPodContainerIds
  ResourceSpecs <- MCDefaultResourceSpecs
  MaxRequests = 3
  SaveCanFail = FALSE
  MaxCrashes = 0

SPECIFICATION Spec

INVARIANT DefaultCpusDisjoint
INVARIANT RootCpusetParsed
INVARIANT PinnedContainersHoldTheirCpus
INVARIANT GuaranteedAllocationSize

CHECK_DEADLOCK FALSE
