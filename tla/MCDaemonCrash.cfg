\* One caller, cgroup writes and state saves that succeed, NUMA allocator,
\* and one crash of the daemon at any point, followed by a restart.
CONSTANTS
  CpuInfos <- MCCpuInfos
  RootCpuset <- MCRootCpuset
  CgroupWriteCanFail = FALSE
  MemoryPinning = FALSE
  Allocator = "numa"
  NumBuckets = 1
  Clients = {c1}
  PodIds = {"p1", "p2"}
  PodNamespace <- MCPodNamespace
  PodContainerIds <- MCPodContainerIds
  ResourceSpecs <- MCResourceSpecs
  MaxRequests = 3
  SaveCanFail = FALSE
  MaxCrashes = 1

SPECIFICATION CrashSpec

INVARIANT PinnedContainersHoldTheirCpus

CHECK_DEADLOCK FALSE
