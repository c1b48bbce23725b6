\* The per-namespace allocator in exclusive mode: two buckets ({0} and
\* {1, 2}), two concurrent callers, cgroup writes that may fail.
CONSTANTS
  CpuInfos <- MCCpuInfos
  RootCpuset <- MCRootCpuset
  CgroupWriteCanFail = TRUE
  MemoryPinning = TRUE
  Allocator = "numa-namespace-exclusive"
  NumBuckets = 2
  Clients = {c1, c2}
  PodIds = {"p1", "p2"}
  PodNamespace <- MCPodNamespace
  PodContainerIds <- MCPodContainerIds
  ResourceSpecs <- MCNsResourceSpecs
  MaxRequests = 3
  SaveCanFail = FALSE
  MaxCrashes = 0

SPECIFICATION Spec

INVARIANT BucketLocality
INVARIANT PinnedContainersHoldTheirCpus
INVARIANT GuaranteedCpusExclusive
INVARIANT NsCountCoversContainers

CHECK_DEADLOCK FALSE
