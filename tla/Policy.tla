------------------------------ MODULE Policy --------------------------------
(***************************************************************************)
(* StaticPolicy (static_policy.go): AssignContainer, DeleteContainer and   *)
(* ClearContainer forward to the configured allocator's takeCpus,          *)
(* freeCpus and clearCpus.  Allocator names the allocator the daemon was   *)
(* started with (the --allocator flag of cmd/ctlplane.go): default, numa,  *)
(* or the per-namespace allocator, shared or exclusive.                    *)
(***************************************************************************)
EXTENDS PerNamespaceAllocator, DefaultAllocator

CONSTANT Allocator

ASSUME Allocator \in {"default", "numa", "numa-namespace", "numa-namespace-exclusive"}

\* getAllocator (cmd/ctlplane.go) exits when memory pinning is asked of the
\* default allocator.
ASSUME MemoryPinning => Allocator # "default"

\* getAllocator: the exclusive flag of NewNumaPerNamespaceAllocator.
Exclusive == Allocator = "numa-namespace-exclusive"

AssignContainer(c, w) ==
  CASE Allocator = "default" -> DefaultTakeCpus(c, w)
    [] Allocator = "numa"    -> NumaTakeCpus(c, w)
    [] OTHER                 -> NsTakeCpus(c, w, Exclusive)

DeleteContainer(c, w) ==
  CASE Allocator = "default" -> DefaultFreeCpus(c, w)
    [] Allocator = "numa"    -> NumaFreeCpus(c, w)
    [] OTHER                 -> NsFreeCpus(c, w, Exclusive)

ClearContainer(c, w) ==
  CASE Allocator = "default" -> DefaultClearCpus(c, w)
    [] Allocator = "numa"    -> NumaClearCpus(c, w)
    [] OTHER                 -> NsClearCpus(c, w)

=============================================================================
