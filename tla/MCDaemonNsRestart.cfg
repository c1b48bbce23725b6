\* Exclusive mode, one caller, cgroup writes that succeed, and a pod whose
\* containers restart under new ids, so that one update adds a shared and a
\* Guaranteed container.
CONSTANTS
  CpuInfos <- MCCpuInfos
  RootCpuset <- MCRootCpuset
  CgroupWriteCanFail = FALSE
  MemoryPinning = FALSE
  Allocator = "numa-namespace-exclusive"
  NumBuckets = 2
  Clients = {c1}
  PodIds = {"p1", "p2"}
  PodNamespace <- MCPodNamespace
  PodContainerIds <- MCNsRestartContainerIds
  ResourceSpecs <- MCNsResourceSpecs
  MaxRequests = 3
  SaveCanFail = FALSE
  MaxCrashes = 0

SPECIFICATION Spec

INVARIANT SharedPoolExcludesGuaranteed

CHECK_DEADLOCK FALSE
