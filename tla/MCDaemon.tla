------------------------------ MODULE MCDaemon ------------------------------
(***************************************************************************)
(* The daemon on a 3-CPU machine (one node; CPUs 0 and 1 on core 0, CPU 2  *)
(* on core 1) with two pods: p1 (namespace ns1) with containers a1, a2 and *)
(* p2 (namespace ns2) with container b1.  Under the NUMA allocator a       *)
(* container asks for 1 or 2 exclusive CPUs, so that two pods can exhaust  *)
(* the machine and a later take fails; under the per-namespace allocators  *)
(* a1 (and a3) are BestEffort and share their bucket, a2 asks for 1 or 2  *)
(* CPUs and b1 for 1.                                                      *)
(***************************************************************************)
EXTENDS Daemon

MCCpuInfos ==
  << [cpu |-> 0, node |-> 0, package |-> 0, die |-> 0, core |-> 0],
     [cpu |-> 1, node |-> 0, package |-> 0, die |-> 0, core |-> 0],
     [cpu |-> 2, node |-> 0, package |-> 0, die |-> 0, core |-> 1] >>

\* The root cpuset.cpus of the machine, "0-2".
MCRootCpuset == KernelCpuList(0..2)

MCPodNamespace == ("p1" :> "ns1") @@ ("p2" :> "ns2")

MCPodContainerIds == ("p1" :> <<"a1", "a2">>) @@ ("p2" :> <<"b1">>)

Res(rc, lc, rm, lm) == [requestedCpus |-> rc, limitCpus |-> lc, requestedMemory |-> rm, limitMemory |-> lm]

\* Every container is Guaranteed, with 1 or 2 CPUs.
MCResourceSpecs == [id \in {"a1", "a2", "b1"} |-> {Res(1, 1, 1, 1), Res(2, 2, 1, 1)}]

\* As MCResourceSpecs, and b1 may also come with a CPU and memory request
\* and no limits, which reads as limits of zero.
MCDefaultResourceSpecs == [MCResourceSpecs EXCEPT !["b1"] = @ \cup {Res(1, 0, 1, 0)}]

\* a1 is BestEffort, a2 Guaranteed with 1 or 2 CPUs, b1 Guaranteed with 1:
\* a container keeps its QoS class across updates, as Kubernetes requires.
MCNsResourceSpecs ==
  ("a1" :> {Res(0, 0, 0, 0)}) @@ ("a2" :> {Res(1, 1, 1, 1), Res(2, 2, 1, 1)}) @@ ("b1" :> {Res(1, 1, 1, 1)}) @@ ("a3" :> {Res(0, 0, 0, 0)})

\* p1 as the agent sees it across a container restart: a restarted
\* container comes back under a new ContainerID, so an update may drop a3
\* and bring in a1 and a2 at once.
MCNsRestartContainerIds == ("p1" :> <<"a1", "a2", "a3">>) @@ ("p2" :> <<"b1">>)


\* The CPU ids of the root cpusets newState is checked on: every subset of
\* 0..4 has runs of one, two and three CPUs, and gaps.
CpuListIds == 0..4

\* newState (getValues, LoadCpuSetFromString) reads the root cgroup's
\* cpuset.cpus, as the kernel prints it, as exactly the CPUs it lists, for
\* every list the kernel prints for CPUs of 0..4; and whatever the default
\* allocator's range cutting and extending does, every CPU it keeps
\* available, records in Allocated or writes to a cgroup is one the kernel
\* lists in the root cpuset.
RootCpusetParsed ==
  /\ \A X \in SUBSET CpuListIds : CPUSetFromString(KernelCpuList(X)) = [err |-> FALSE, cpus |-> X]
  /\ CPUSetFromBucketList(available) \cup UNION {allocated[x] : x \in DOMAIN allocated}
       \cup UNION {cgroup[x] : x \in DOMAIN cgroup} \subseteq KernelParse(RootCpuset).cpus

========================================================================
