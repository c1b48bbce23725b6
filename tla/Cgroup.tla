------------------------------ MODULE Cgroup --------------------------------
(***************************************************************************)
(* CgroupControllerImpl.UpdateCPUSet (daemon_allocators.go): write a       *)
(* container's cpuset.cpus.  The kernel side is a function from container *)
(* id to the CPU set written last; a container never written has the       *)
(* cpuset it inherited, which the model does not track.  The write can     *)
(* fail: the runtime prefix of the container id may not match the          *)
(* configured runtime (ConfigurationError), the slice path may leave the   *)
(* cgroup root, or the cgroups library may fail; on each of these paths    *)
(* the cpuset file is left as it was.  With memory pinning the NUMA nodes  *)
(* of the CPUs are written after cpuset.cpus (cpuset.mems, then under      *)
(* cgroup v1 cpuset.memory_migrate), and a failure there returns an error  *)
(* with the new CPUs already in place.  The cpuset is written as a string  *)
(* (CpuSet); the kernel keeps the set it denotes, or rejects the write.    *)
(***************************************************************************)
EXTENDS CpuSet, TLC

CONSTANTS
  CgroupWriteCanFail,  \* whether UpdateCPUSet may return an error
  MemoryPinning        \* the daemon's memory pinning option

ASSUME CgroupWriteCanFail \in BOOLEAN /\ MemoryPinning \in BOOLEAN

\* getMemoryPinningIfEnabled: whether a NUMA node list goes with the CPUs
\* cpus, that is whether memSet is not ResourceNotSet.
MemSet(cpus) == MemoryPinning /\ cpus # {}

\* The outcomes of a write the kernel reads as k (KernelParse), with a node
\* list if mems: the new cpuset file contents and the error returned.
WriteOutcomes(cgroup, cid, k, mems) ==
  (IF k.err THEN {[cgroup |-> cgroup, err |-> "RuntimeError"]}
   ELSE {[cgroup |-> (cid :> k.cpus) @@ cgroup, err |-> "nil"]})
  \cup (IF CgroupWriteCanFail THEN {[cgroup |-> cgroup, err |-> "RuntimeError"]} ELSE {})
  \cup (IF CgroupWriteCanFail /\ mems /\ ~k.err
        THEN {[cgroup |-> (cid :> k.cpus) @@ cgroup, err |-> "RuntimeError"]} ELSE {})

\* The possible outcomes of writing the string cSet into the cpuset of
\* container cid, with a node list if mems.
UpdateCPUSet(cgroup, cid, cSet, mems) == WriteOutcomes(cgroup, cid, KernelParse(cSet), mems)

=============================================================================
