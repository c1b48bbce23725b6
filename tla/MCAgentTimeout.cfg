\* The agent with timeouts and two server goroutines; cgroup writes and
\* state saves succeed, the daemon does not crash; NUMA allocator.
CONSTANTS
  CpuInfos <- MCCpuInfos
  RootCpuset <- MCRootCpuset
  CgroupWriteCanFail = FALSE
  MemoryPinning = FALSE
  Allocator = "numa"
  NumBuckets = 1
  Clients = {c1, c2}
  PodIds = {"p1", "p2"}
  PodNamespace <- MCPodNamespace
  PodContainerIds <- MCPodContainerIds
  ResourceSpecs <- MCAgentResourceSpecs
  MaxRequests = 3
  SaveCanFail = FALSE
  MaxCrashes = 0
  CallsCanTimeOut = TRUE
  PodSpecs <- MCAgentPodSpecs

SPECIFICATION AgentSpec

INVARIANT DeletedPodsForgotten

CHECK_DEADLOCK FALSE
