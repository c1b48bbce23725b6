------------------------------ MODULE CpuPool ------------------------------
(***************************************************************************)
(* What the topology tree promises its allocators: a pool of free CPUs     *)
(* from which Take(n) removes n of them, or fails and removes none when    *)
(* fewer than n are free, and into which Return(cpu) puts one back.        *)
(***************************************************************************)
EXTENDS Integers, FiniteSets, FiniteSetsExt

CONSTANTS Cpus, TakeSizes

VARIABLE free

Init == free = Cpus

TakeCpus(n) ==
  \/ /\ n <= Cardinality(free)
     /\ \E taken \in kSubset(n, free) : free' = free \ taken
  \/ /\ n > Cardinality(free)
     /\ UNCHANGED free

ReturnCpu(cpu) == free' = free \cup {cpu}

Next ==
  \/ \E n \in TakeSizes : TakeCpus(n)
  \/ \E cpu \in Cpus : ReturnCpu(cpu)

Spec == Init /\ [][Next]_free

=============================================================================
