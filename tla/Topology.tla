------------------------------ MODULE Topology ------------------------------
(***************************************************************************)
(* The topology tree on its own: NumAvailable as a variable, changed by   *)
(* any Take(n) or Return(cpu) in any order, as the allocators may issue    *)
(* them.  The tree operators are in TopologyTree.                          *)
(***************************************************************************)
EXTENDS TopologyTree

CONSTANT TakeSizes   \* the sizes n that Take(n) is called with

ASSUME TakeSizes \subseteq Nat

VARIABLE numAvailable

Init == numAvailable = InitialNumAvailable

TakeStep(n) == numAvailable' = Take(n, numAvailable).na

ReturnStep(cpu) == numAvailable' = Return(cpu, numAvailable).na

Next ==
  \/ \E n \in TakeSizes : TakeStep(n)
  \/ \E cpu \in Cpus : ReturnStep(cpu)

Spec == Init /\ [][Next]_numAvailable

(***************************************************************************)
(* Properties.                                                             *)
(***************************************************************************)
\* No node ever counts more free CPUs than the machine has, nor fewer than none.
TypeOK == numAvailable \in [Nodes -> 0..Cardinality(Cpus)]

FreeCpus == {Value(l) : l \in {x \in Leaves : numAvailable[x] > 0}}

\* I2 of the spec: every leaf is 0 or 1 and every inner node's NumAvailable
\* is the sum over its children, whatever sequence of Take and Return the
\* allocators issue; Take patches the ancestors of the chosen node separately
\* from takeLeaves, Return walks the find() path.
NumAvailableConsistent ==
  \A t \in Nodes :
    IF IsLeaf(t) THEN numAvailable[t] \in {0, 1}
    ELSE numAvailable[t] = FoldSeq(LAMBDA c, s : numAvailable[c] + s, 0, Children(t))

\* Reference for Take: the leaves a step takes are the first k free leaves,
\* in GetLeafs order, below the first deepest node that has k free leaves.
FreeUnder(t, f) == SelectSeq(GetLeafs, LAMBDA l : IsUnder(t, l) /\ f[l] > 0)

FirstLeafIndex(t) == Min({i \in 1..Len(GetLeafs) : IsUnder(t, GetLeafs[i])})

CompactChoice(k, f) ==
  LET fits    == {t \in Nodes : Len(FreeUnder(t, f)) >= k}
      deepest == {t \in fits : \A u \in fits : Len(u) <= Len(t)}
      first   == CHOOSE t \in deepest : \A u \in deepest : FirstLeafIndex(t) <= FirstLeafIndex(u)
  IN ToSet(SubSeq(FreeUnder(first, f), 1, k))

\* Take minimises the topology distance (numa.go Take comment): every step
\* that takes leaves takes exactly the reference choice.
TakeIsCompact ==
  [][LET taken == {l \in Leaves : numAvailable[l] > 0 /\ numAvailable'[l] = 0}
     IN taken # {} => taken = CompactChoice(Cardinality(taken), numAvailable)]_numAvailable

\* The tree implements the abstract pool of free CPUs.
Pool == INSTANCE CpuPool WITH free <- FreeCpus

PoolRefinement == Pool!Spec

=============================================================================
