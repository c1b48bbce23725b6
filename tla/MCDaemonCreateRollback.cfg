\* One caller, cgroup writes that succeed: a CreatePod fails only because
\* the machine has too few free CPUs for one of its containers.
CONSTANTS
  CpuInfos <- MCCpuInfos
  RootCpuset <- MCRootCpuset
  CgroupWriteCanFail = FALSE
  MemoryPinning = FALSE
  Allocator = "numa"
  NumBuckets = 1
  Clients = {c1}
  PodIds = {"p1", "p2"}
  PodNamespace <- MCPodNamespace
  PodContainerIds <- MCPodContainerIds
  ResourceSpecs <- MCResourceSpecs
  MaxRequests = 2
  SaveCanFail = FALSE
  MaxCrashes = 0

SPECIFICATION Spec

PROPERTY CreateFailureRestoresState

CHECK_DEADLOCK FALSE
