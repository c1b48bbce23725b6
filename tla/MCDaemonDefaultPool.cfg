\* The default allocator, one caller, cgroup writes that succeed: pods are
\* created and all deleted again.
CONSTANTS
  CpuInfos <- MCCpuInfos
  RootCpuset <- MCRootCpuset
  CgroupWriteCanFail = FALSE
  MemoryPinning = FALSE
  Allocator = "default"
  NumBuckets = 1
  Clients = {c1}
  PodIds = {"p1", "p2"}
  PodNamespace <- MCPodNamespace
  PodContainerIds <- MCPodContainerIds
  ResourceSpecs <- MCResourceSpecs
  MaxRequests = 4
  SaveCanFail = FALSE
  MaxCrashes = 0

SPECIFICATION Spec

INVARIANT PoolRestoredWhenEmpty

CHECK_DEADLOCK FALSE
