------------------------------ MODULE Resources ------------------------------
(***************************************************************************)
(* The agent's request builders (pkg/agent, the generation in agent.go    *)
(* whose memory fields are marshalled Quantities): the ResourceInfo of     *)
(* each container from the quantities of its pod spec, and the pod's       *)
(* totals, the cpus summed in int32 with the sign test for overflow and    *)
(* the memory summed exactly with Quantity.Add.                            *)
(*                                                                         *)
(* A cpu Quantity is abstracted to what Quantity.AsInt64 tells apart:      *)
(* whether it is a whole number that fits in int64 (whole), whether it     *)
(* fits in int32 (fits; the value of one that does not is not needed) and  *)
(* its value.  A memory Quantity is an integer in a unit that divides      *)
(* every quantity of a pod: the code only adds memory exactly, compares it *)
(* with zero and with other quantities, and all of these are unchanged by  *)
(* a change of unit.  The bytes of Marshal are abstracted to the value     *)
(* Unmarshal reads back from them, the only use the code makes of them.    *)
(***************************************************************************)
EXTENDS Integers, Sequences, SequencesExt

MaxInt32 == 2147483647

\* A cpu quantity with the whole value n, one above 2^31-1, one with a
\* fraction.
Q(n) == [whole |-> TRUE, fits |-> TRUE, val |-> n]
Huge == [whole |-> TRUE, fits |-> FALSE, val |-> 0]
Frac == [whole |-> FALSE, fits |-> TRUE, val |-> 0]

\* corev1.ResourceList: a missing resource reads as the zero quantity.
RL(cpu, memory) == [cpu |-> cpu, memory |-> memory]
NoResources == RL(Q(0), 0)

\* Go's int32 addition: the sum modulo 2^32 in [-2^31, 2^31), computed
\* without leaving TLC's 32-bit integers.
AddInt32(a, b) ==
  CASE b > 0 /\ a > MaxInt32 - b      -> (a - MaxInt32 - 1) + (b - MaxInt32 - 1)
    [] b < 0 /\ a < -MaxInt32 - 1 - b -> (a + MaxInt32 + 1) + (b + MaxInt32 + 1)
    [] OTHER                          -> a + b

\* getContainerResources: the cpus of a ResourceList as int32, refused
\* unless whole, within int32 and not negative; the memory marshalled
\* whatever its value (Marshal of a Quantity has no error path).
getContainerResources(rl) ==
  IF ~rl.cpu.whole \/ ~rl.cpu.fits \/ rl.cpu.val < 0
  THEN [err |-> "NotRepresentable", cpus |-> 0, memory |-> 0]
  ELSE [err |-> "nil", cpus |-> rl.cpu.val, memory |-> rl.memory]

\* getContainerInfo: requests then limits; spec is [requests, limits].
getContainerInfo(spec) ==
  LET r == getContainerResources(spec.requests)
      l == getContainerResources(spec.limits)
  IN [err |-> IF r.err # "nil" THEN r.err ELSE l.err,
      res |-> [requestedCpus |-> r.cpus, limitCpus |-> l.cpus,
               requestedMemory |-> r.memory, limitMemory |-> l.memory]]

ResourceFields == <<"requestedCpus", "limitCpus", "requestedMemory", "limitMemory">>

ZeroResources == [f \in ToSet(ResourceFields) |-> 0]

CpuFields == {"requestedCpus", "limitCpus"}
MemoryFields == {"requestedMemory", "limitMemory"}

\* addContainerMemoryToPod: a negative request or limit is an overflow,
\* otherwise both are added exactly to the pod's memory totals.
addContainerMemoryToPod(res, info) ==
  IF \E f \in MemoryFields : info.res[f] < 0 THEN [err |-> "CountingOverflow", res |-> res]
  ELSE [err |-> "nil", res |-> [f \in DOMAIN res |-> IF f \in MemoryFields THEN res[f] + info.res[f] ELSE res[f]]]

\* Mutant: the pod's cpu totals summed without the podX < 0 checks.
AddContainerNoCheck(acc, info) ==
  IF acc.err # "nil" THEN acc
  ELSE IF info.err # "nil" THEN [acc EXCEPT !.err = info.err]
  ELSE addContainerMemoryToPod([f \in DOMAIN acc.res |->
         IF f \in CpuFields THEN AddInt32(acc.res[f], info.res[f]) ELSE acc.res[f]], info)

\* One iteration of createPodResources' loop: a container whose info
\* cannot be built ends the loop with its error; a cpu total that turns
\* negative in int32, or a negative memory quantity, ends it with
\* CountingOverflow; otherwise the container's values are added.
AddContainer(acc, info) ==
  IF acc.err # "nil" THEN acc
  ELSE IF info.err # "nil" THEN [acc EXCEPT !.err = info.err]
  ELSE LET cpus == [f \in DOMAIN acc.res |->
                     IF f \in CpuFields THEN AddInt32(acc.res[f], info.res[f]) ELSE acc.res[f]]
       IN IF \E f \in CpuFields : cpus[f] < 0 THEN [acc EXCEPT !.err = "CountingOverflow"]
          ELSE addContainerMemoryToPod(cpus, info)

\* createPodResources: the pod's totals from its containers' infos.
createPodResources(infos) ==
  FoldLeft(AddContainer, [err |-> "nil", res |-> ZeroResources], infos)

(***************************************************************************)
(* References: the exact sum of a sequence, and the sum of a sequence of   *)
(* non-negative values, or -1 once it exceeds 2^31-1, both from the right. *)
(***************************************************************************)
RECURSIVE ExactSum(_)
ExactSum(s) == IF s = << >> THEN 0 ELSE Head(s) + ExactSum(Tail(s))

RECURSIVE BoundedSum(_)
BoundedSum(s) ==
  IF s = << >> THEN 0
  ELSE LET rest == BoundedSum(Tail(s))
       IN IF rest < 0 \/ Head(s) > MaxInt32 - rest THEN -1 ELSE Head(s) + rest

\* What createPodResources must return for infos.  The first container that
\* fails is one whose info could not be built, one after which a cpu total
\* exceeds int32, or one with a negative memory quantity: the pod's result
\* is that info's error, or CountingOverflow for the other two.  When none
\* fails, the totals are the exact sums: the memory ones unbounded.
PodTotalsAgree(infos) ==
  LET r == createPodResources(infos)
      column(f) == [k \in DOMAIN infos |-> infos[k].res[f]]
      fails(k) == \/ infos[k].err # "nil"
                  \/ \E f \in CpuFields : BoundedSum(SubSeq(column(f), 1, k)) < 0
                  \/ \E f \in MemoryFields : infos[k].res[f] < 0
      failing == {k \in DOMAIN infos : fails(k)}
  IN IF failing # {}
     THEN r.err = IF infos[Min(failing)].err # "nil" THEN infos[Min(failing)].err
                  ELSE "CountingOverflow"
     ELSE r = [err |-> "nil",
               res |-> [f \in ToSet(ResourceFields) |->
                          IF f \in CpuFields THEN BoundedSum(column(f)) ELSE ExactSum(column(f))]]

=============================================================================
