# TLA+ models of the CPU control plane plugin

This directory holds TLA+ models of the CPU control plane plugin for
Kubernetes. It also holds the TLC configurations that check the models.

## The system

The system is built from the following parts:

- **Agent** (`pkg/agent`): watches the pods of its node. For each ready pod it
  calls the daemon over gRPC: CreatePod, UpdatePod or DeletePod. Each call has
  a 5 s timeout. The agent remembers the pods it sent in `addedPods`. It exits
  after 3 consecutive failures.
- **gRPC server** (`ctlplaneapi`): forwards each call to the daemon. It runs in
  its own goroutine.
- **Daemon** (`cpudaemon/daemon.go`): `DaemonState` holds `Pods`, `Allocated`
  and `Topology`. The three handlers validate the request, then take
  `stateMu`. They call the policy once per container and save the state as
  JSON. UpdatePod checks that the pod exists *before* it takes the lock.
- **Static policy** (`static_policy.go`): forwards each call to the configured
  allocator.
- **Allocators**, chosen by `--allocator`:
  - `default`: ranges of CPUs.
  - `numa`: the topology tree.
  - `numa-namespace[-exclusive]=N`: buckets per namespace.
- **Topology tree** (`numautils`):
  - It has one node per machine/node/package/die/core/cpu. Every node keeps
    `NumAvailable`.
  - `Take(n)` picks the deepest node that has `n` free leaves.
  - `Return(cpu)` increments the counts on the leaf's path.
- **Cgroup controller** (`daemon_allocators.go`): writes `cpuset.cpus`
  (and `cpuset.mems`) of the container's cgroup. The write can fail.
- **CPUSet utilities** (`daemon_cpuset.go`): the allocators format the CPUs
  they write as a cpu list string (`ToCpuString`, or `strings.Join` of the
  ids), and `newState` parses the root `cpuset.cpus` the kernel prints
  (`LoadCpuSetFromString`) into the default allocator's `AvailableCPUs`.

## Modules

| Module | Models | State / actions |
|---|---|---|
| `TopologyTree` | `topology.go`, `numa.go` | Constant operators: the tree built from `CpuInfos` (`UsedTopoTypes`, `Nodes`, `Children`), `GetLeafs` (BFS), `FindLowest`, `TakeLeaves`, `Take`, `Return`. `NumAvailable` is a function from node to count. |
| `Topology` | `NumaTopology` | Variable `numAvailable`. Actions: `TakeStep(n)` and `ReturnStep(cpu)` in any order. |
| `CpuPool` | (abstract) | The promise of the tree: a set `free`. `Take(n)` removes any `n` free CPUs, or fails and changes nothing. `Return` adds a CPU back. |
| `CpuSet` | `daemon_cpuset.go` | Constant operators over strings of tokens: `LoadCpuSetFromString` (with `Split`, `Trim`, `TrimSpace` and Atoi), `CPUSetFromString`, `CPUSetFromBucketList`, `ToBucketList`, `Sorted`, `ToCpuString`, `JoinCpus`. Two reference definitions of the kernel's side: `KernelCpuList` (what `cpuset.cpus` reads as) and `KernelParse` (the set a written list denotes, or EINVAL). |
| `Cgroup` | `UpdateCPUSet` | The outcomes of one write of a string: the kernel keeps the set `KernelParse` gives, or rejects the list; or an error leaves the file as it was; or, with memory pinning (`MemoryPinning`, `MemSet`), an error comes after the new CPUs are in place (the cpuset.mems or memory_migrate write fails). |
| `NumaAllocator` | `daemon_numa_allocator.go` | `takeCpus`, `freeCpus`, `clearCpus`. Each maps a world record `[pods, allocated, topology, cgroup]` to the set of its possible outcomes `[world, err]`. |
| `PerNamespaceAllocator` | `unnamed/part_003` (`NumaPerNamespaceAllocator`) | Its maps `NamespaceToBucket`, `BucketToNumContainers` and `globalBucket` are a field `ns` of the world record. `getBucket` (`Bucket`), `newNamespace`, `freeNamespace`, `takeCpus` (`NsTakeCpus`), `freeCpus` (`NsFreeCpus`), `clearCpus`, and the exclusive re-pinning loop (`Repin`, one iteration `RepinOne`, in any map order, stopping at the first failed write). |
| `DefaultAllocator` | `daemon_allocators.go` (`DefaultAllocator`) | `AvailableCPUs` is a field `avail` of the world record (a list of `[start, end]` ranges, initially `CgroupCpus`, the parse of the constant string `RootCpuset`). `takeCpus`, `freeCpus`, `clearCpus`. |
| `Policy` | `static_policy.go` | `AssignContainer`, `DeleteContainer`, `ClearContainer`, dispatched on the constant `Allocator` (`default`, `numa`, `numa-namespace`, `numa-namespace-exclusive`). |
| `Daemon` | `daemon.go`, `daemon_state.go`, `ctlplaneapi` server | The variables are the `DaemonState` fields (`available` is AvailableCPUs, `nsState` the per-namespace maps), `cgroup`, the holder of `stateMu`, per-client `pc`, `req` and `loc` (handler locals) and `reply` (the answer the server sends), the state file `saved` and the count of `crashes`. See the list below. |
| `Resources` | `pkg/agent/agent.go` (createPodResources and its helpers) | Constant operators. A cpu `Quantity` is what `AsInt64` tells apart: `Q(n)` (a whole number), `Huge` (a whole number above 2^31-1), `Frac` (not whole); a memory `Quantity` is an integer in a unit dividing every quantity of the pod, since the code only adds memory exactly and compares it, and the marshalled bytes are the value `Unmarshal` reads back. `getContainerResources` (cpus refused unless whole, within int32 and not negative; memory passed on), `getContainerInfo`, `AddInt32` (Go's wrapping int32 `+`), `addContainerMemoryToPod` (negative memory is `CountingOverflow`, else exact addition), `AddContainer` (one loop iteration: the two cpu sums and their `< 0` tests, then the memory) and `createPodResources` (a `FoldLeft`). Reference: `BoundedSum` (the exact sum, or -1 past 2^31-1), `ExactSum` and `PodTotalsAgree`. The older copy of these builders in `resources.go` converts memory to int32 as well; the proto (memory as `bytes`), `resources_test.go` (128G and 256Gi succeed) and the code the agent links agree with the copy in `agent.go`, which is the one modelled. |
| `Validation` | `pkg/ctlplaneapi` validation | `ValidateResourceInfo`, `ValidateContainers`, `ValidateCreatePodRequest`, `ValidateUpdatePodRequest`, `ValidateDeletePodRequest` as predicates (TRUE when the function returns nil). |
| `Agent` | `pkg/agent/agent.go` | Extends `Daemon`. Variables `kube` (each pod's phase in the API server), `addedPods`, `failures` (numConsecutiveUnsuccessfulAttempts) and `agent` (the call in progress). Kubernetes actions `PodReady`, `PodDeleting`, `PodRemoved`; the handlers `AgentUpdate` (CreatePod or UpdatePod) and `AgentDelete`; `AgentReply` and `AgentTimeout` end a call; `Attempt` counts failures and models the exit at the third. The constant `PodSpecs` gives each container's requests and limits; `PodResources` is `createPodResources` of each pod, and a pod it rejects is a failed attempt without a call. |
| `MCDaemon`, `MCAgent`, `MCTopology` | | The constants of the runs: machines, pods, resource specs. |

The Daemon actions:

- `Receive` is a gRPC call. A request that fails `RequestValid` gets an
  error at once (PodSpecError, before the lock) and changes nothing else.
- `CreateLock`, `CreateAssign` and `CreateRollback` are one container each.
- `DeleteLock`, `DeleteFree` and `DeleteFinish`.
- `UpdateCheck` is the unlocked existence check.
- `UpdateLock` takes the lock and computes the diff.
- `UpdateDelete`, `UpdateChange`, `UpdateAdd` and `UpdateFinish`.
- `Save` covers saveState and the deferred Unlock. With `SaveCanFail` the
  write may fail and leave the file as it was; the handler then returns an
  error (`HandlerError`: CreatePod and UpdatePod report a failed save,
  DeletePod only a failed free).
- `Restart` is a crash at any point and the daemon started again: `newState`
  loads `Pods`, `Allocated`, `Topology` and `AvailableCPUs` from the last
  saved file; the per-namespace maps start empty (they are not in
  `DaemonState`); the cgroups keep what was written; every call in flight
  returns an error. At most `MaxCrashes` crashes. `CrashSpec` is `Spec` with
  `Restart`; the agent model always includes it.

Every step that holds the lock makes at most one policy call, with all of its
effects. One client runs one call at a time. Several clients model the
server's goroutines. They also model a call the agent abandoned on timeout
while the daemon still runs it.

### Abstractions

- An `Allocated` entry, a list of one-CPU buckets, is kept as the set of CPUs
  it covers.
- `cpuset.mems` is left out: it is a function of the CPUs written.
- The cgroup write either succeeds or leaves the file as it was, except
  with memory pinning, where it can also fail after cpuset.cpus was
  rewritten. Only the `ns` run turns pinning on; the default allocator
  never pins (`getAllocator` exits), and in the numa runs the write faults
  are those of the numa allocator without pinning.
- A string is a sequence of tokens: `Num(n)` is the decimal digits of `n`,
  `Ch(c)` one separator character (`,`, `-`, blank, newline). Atoi succeeds
  on a single number token; digits are never built character by character.
  The kernel's list parser (`bitmap_parselist`) is `KernelParse`: commas
  separate regions, empty regions are skipped, a region is `a` or `a-b` with
  `a <= b`. Blanks inside a region are not modelled.
- The parses of the lists the numa takes and `clearCpus` write are constant
  tables (`JoinParseCache`, `ClearParse`) computed once from `KernelParse`;
  they change no outcome, and keep the fairness checks of the agent run
  (which evaluate `ENABLED` of the handler steps on every transition) fast.
- Container and pod names are their ids; the agent's ContainerIDs are never
  empty, as every container of a ready pod has one.
- `ResourceSpecs` gives, per container id, the specs its requests may carry,
  so a container keeps its QoS class across updates, as Kubernetes requires.
  Under `numa` every container is Guaranteed with 1 or 2 CPUs (other QoS
  classes take no CPUs from that allocator).
- A container restart is a new container id: the agent sends the current
  `ContainerID`s of a pod whose containers are all ready (`agent.go`
  lines 120-129), so an UpdatePod may drop one id and add others.
- `Take` is evaluated through a table (`TakeCached`) over every consistent
  tree. The values are the same; TLC just does not re-run the recursion inside
  `ENABLED`. The recursive operators of `TopologyTree` name each recursive
  call once and pass its result to a small helper (`Deeper`, `NextChild`,
  `AfterChildren`, `TakeAt`), which keeps TLC's coverage statistics cheap.
- The per-namespace allocator's `globalBucket` is kept modulo `NumBuckets`:
  the code only reads it modulo `NumBuckets`.

## Runs

| Run | Expect | What it shows |
|---|---|---|
| `topology` (MCTopology.cfg) | pass | The 8-CPU, two-node machine under every sequence of `Take(1,2,3,5)` and `Return`. `NumAvailableConsistent` (every inner count is the sum of its children). `TakeIsCompact`: every take equals a reference "deepest node, first k free leaves". `PoolRefinement`: the tree implements `CpuPool` with `free <- FreeCpus`. |
| `agent` (MCAgent.cfg) | pass | The agent driving the daemon (NUMA allocator): 2 pods through their whole life, 2 server goroutines, calls that may time out, a pod whose cpu totals overflow int32 (p2: b1 asks for 2^31-1 CPUs, b2 for 1, as in `TestResourceCountingOverflow`), saves that may fail and one daemon crash, up to 4 calls. `ExclusiveAllocation`: no CPU is in two entries and every allocated CPU is taken in the tree. `RequestsComplete`: every call the daemon receives returns. `AgentCallsReturn`: every call the agent waits on ends, by reply, by a crash's error, or by the deadline, so the informer is never blocked. `AgentTypeOK` is the agent's type invariant. `RequestTotalsExact`: the request built for every pod carries the exact totals (memory unbounded), or the error of the first container that fails: its own error for a cpu quantity that cannot be represented, `CountingOverflow` when a cpu total passes 2^31-1 (p2) or its memory is negative; the same for every list of up to 3 containers at the boundaries (cpus 0, 1, 2^31-2, 2^31-1, a fraction, a value above int32; a negative memory request or limit). |
| `agent_timeout` | violation | `DeletedPodsForgotten`: the CreatePod of p2 times out, p2 is deleted, DeletePod overtakes the still-running create and fails with PodNotFound, then the create completes. The daemon keeps p2 and its CPUs forever; the agent has already forgotten it. |
| `daemon_crash` | violation | `PinnedContainersHoldTheirCpus`: a crash after UpdatePod wrote a cgroup but before it saved; the restarted daemon's `Allocated` entry and the cgroup disagree. |
| `create_rollback` | violation | A failing CreatePod does not restore `Allocated` and the tree: the rollback only re-pins the cgroups. |
| `allocation_size` | violation | A failed cgroup write leaves an entry behind. Re-creating the container appends to it, so it holds 2 CPUs for 1. |
| `ns` (MCDaemonNs.cfg) | pass | `PinnedContainersHoldTheirCpus`: between handlers, a listed Guaranteed container has an entry with its CPUs and its cgroup pinned inside it. The exclusive per-namespace allocator with memory pinning, buckets {0} and {1,2}, 2 clients, writes that fail before or after the CPUs are set. `BucketLocality` (spec I4): a listed Guaranteed container's namespace is bound and its CPUs lie in that bucket. `GuaranteedCpusExclusive`: no CPU belongs to two Guaranteed containers and each is taken. `NsCountCoversContainers`: every namespace with a container in `Allocated` is bound, and its bucket's count is at least the number of such containers, so no free releases a namespace that still has containers. The count can be larger: a take that fails after counting the container in is never counted out. |
| `ns_restart` | violation | Same property, with a pod whose containers restart under new ids. One UpdatePod adds a shared and a Guaranteed container; the re-pin looks the shared one up in `Pods`, misses it, and it keeps the Guaranteed CPU. |
| `ns_shared_free` | violation | Shared mode, one bucket. Removing a shared container returns the whole bucket to the tree, a Guaranteed container's CPU included. |
| `default` (MCDaemonDefault.cfg) | pass | The default allocator on the root cpuset `0-2`, 2 clients, failing writes. `DefaultCpusDisjoint`: no CPU is both in an available range and held, or held twice, and no range is empty. `GuaranteedAllocationSize` holds here, unlike under `numa`: takeCpus overwrites a stale entry. `RootCpusetParsed`: for every set of CPUs 0..4, `CPUSetFromString` of the list the kernel prints for it (ranges, commas, a trailing newline) is that set without an error, so `newState` reads the root cpuset as the kernel means it; and every CPU the allocator keeps available, records in `Allocated` or writes to a cgroup is a CPU of the root cpuset. b1 may also ask for a CPU and memory without limits, which validation rejects. |
| `default_pool` | violation | `PoolRestoredWhenEmpty` (spec I5 and its open question): CreatePod of p1 with two 1-CPU containers, then DeletePod. The first free abuts no range, so CPU 0 is gone although no container holds CPUs. |
| `update_race` | violation | UpdatePod passes its unlocked check, then a CreatePod rollback removes the pod. UpdatePod then stores a pod with empty id and namespace. |

The findings in `PROJECT.json` say what each violation means for the code.

### Bounds

- **Topology.** 8 CPUs on 2 NUMA nodes × 2 cores × 2 threads. This is enough for
  scattered free CPUs, ties between subtrees, and takes that span a node.
- **Daemon.**
  - 3 CPUs on 2 cores, so a 2-CPU request can fit a core or spread.
  - Pod p1 has 2 containers, so there are partial creates and rollbacks.
  - Pod p2 has 1 container.
  - 2 clients, to get races.
  - `MaxRequests = 3` calls in total (named in the cfg). Every trace found
    above needs at most 3 calls. 4 calls pass as well, but take over 6 minutes.
- **Per-namespace.** The same machine cut into 2 buckets, {0} and {1,2}, so
  one bucket can be exhausted and the round-robin counter wraps. a1 (and a3)
  are BestEffort, a2 asks for 1 or 2 CPUs (2 do not fit bucket {0}), b1 for
  1. p1 and p2 are in different namespaces, so binding, release and rebinding
  of buckets all happen. `ns_shared_free` uses 1 bucket, so that a shared and
  a Guaranteed container share it.
- **Default.** The same 3 CPUs as one range `0-2`: with the strict `>`, two
  1-CPU takes exhaust it, and a 2-CPU take fits only the idle machine.
  `RootCpusetParsed` ranges over all 32 subsets of 0..4: single CPUs,
  ranges, several runs, the empty list.
  `default_pool` has one client and `MaxRequests = 4`.
- **Agent.** The NUMA machine above; p1 (containers a1, a2 with 1 CPU each)
  and p2 (b1, 2 CPUs; in `agent`, b1 and b2 with an overflowing memory
  total, so p2 is never sent); 2 server goroutines, so an abandoned call and the next
  one overlap; `MaxRequests = 4`, enough for create, timeout, delete and the
  late completion, or for three failures and the exit; `MaxCrashes = 1`.
  Cgroup writes do not fail in this run (that case is the daemon runs'):
  with them the state space grows past 1.3 million states.
- `CHECK_DEADLOCK FALSE` in the daemon and agent runs: once the call budget is spent, the
  daemon idles. That is the real system waiting for calls.

### Fairness

- **Weak fairness** on each client's steps that do not take the lock. A
  running handler goroutine is never descheduled forever.
- **Strong fairness** on taking `stateMu`. Go's `sync.Mutex` switches to
  starvation mode and hands the lock to a waiter that has waited more than
  1 ms, so a goroutine waiting on it gets it.
- No fairness on `Receive`: calls need not arrive.
- **Weak fairness** on `AgentReply`: the agent's goroutine blocked in the
  call runs once the reply is there. No fairness on Kubernetes events, on
  timeouts or on crashes: they may or may not happen.

## Not modelled yet (plan)

1. The torn state file: `os.WriteFile` truncates before it writes, so a crash
   in between leaves a file `LoadState` cannot parse. The model's save is
   atomic. The symlink check in `LoadState` is not modelled.
2. A crash combined with the per-namespace allocator (its maps are not
   saved, although the spec says they are). The restart empties them, which
   breaks `NsCountCoversContainers`.
3. What should become of a pod whose containers request CPU or memory with
   no limit. Validation rejects it on every event (limit 0 < request), and
   three such events in a row make the agent exit. The default run sends
   such a request; no property says what the system should do with it.

Out of reach, and left out:

- discovery from sysfs and the cgroup file paths (I/O), and `LoadCpuSet`'s
  file read;
- what the cgroups library does with an empty cpu list: an exclusive repin
  of a bucket whose CPUs are all taken writes `""`; the model lets the
  kernel read it as the empty set;
- flag parsing;
- the logging.
