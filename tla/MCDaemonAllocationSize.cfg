\* One caller, cgroup writes that may fail: an assign fails on a failed
\* write or when too few CPUs are free, and later calls may assign again.
CONSTANTS
  CpuInfos <- MCCpuInfos
  RootCpuset <- MCRootCpuset
  CgroupWriteCanFail = TRUE
  MemoryPinning = FALSE
  Allocator = "numa"
  NumBuckets = 1
  Clients = {c1}
  PodIds = {"p1", "p2"}
  PodNamespace <- MCPodNamespace
  PodContainerIds <- MCPodContainerIds
  ResourceSpecs <- MCResourceSpecs
  MaxRequests = 3
  SaveCanFail = FALSE
  MaxCrashes = 0

SPECIFICATION Spec

INVARIANT GuaranteedAllocationSize

CHECK_DEADLOCK FALSE
