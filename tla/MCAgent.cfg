\* The agent with timeouts, a pod whose int32 cpu totals overflow, two
\* server goroutines, state saves that may fail and one
\* daemon crash; NUMA allocator.
CONSTANTS
  CpuInfos <- MCCpuInfos
  RootCpuset <- MCRootCpuset
  CgroupWriteCanFail = FALSE
  MemoryPinning = FALSE
  Allocator = "numa"
  NumBuckets = 1
  Clients = {c1, c2}
  PodIds = {"p1", "p2"}
  PodNamespace <- MCPodNamespace
  PodContainerIds <- MCAgentOverflowContainerIds
  ResourceSpecs <- MCAgentOverflowResourceSpecs
  MaxRequests = 4
  SaveCanFail = TRUE
  MaxCrashes = 1
  CallsCanTimeOut = TRUE
  PodSpecs <- MCAgentOverflowPodSpecs

SPECIFICATION AgentSpec

INVARIANT TypeOK
INVARIANT AgentTypeOK
INVARIANT ExclusiveAllocation
INVARIANT RequestTotalsExact

PROPERTY RequestsComplete
PROPERTY AgentCallsReturn
CHECK_DEADLOCK FALSE
