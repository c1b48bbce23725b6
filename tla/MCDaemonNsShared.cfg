\* Shared (non-exclusive) mode, one bucket holding the whole machine, one
\* caller, cgroup writes that succeed.
CONSTANTS
  CpuInfos <- MCCpuInfos
  RootCpuset <- MCRootCpuset
  CgroupWriteCanFail = FALSE
  MemoryPinning = FALSE
  Allocator = "numa-namespace"
  NumBuckets = 1
  Clients = {c1}
  PodIds = {"p1", "p2"}
  PodNamespace <- MCPodNamespace
  PodContainerIds <- MCPodContainerIds
  ResourceSpecs <- MCNsResourceSpecs
  MaxRequests = 3
  SaveCanFail = FALSE
  MaxCrashes = 0

SPECIFICATION Spec

INVARIANT GuaranteedCpusExclusive

CHECK_DEADLOCK FALSE
