---------------------------- MODULE TopologyTree ----------------------------
(***************************************************************************)
(* The NUMA topology tree of pkg/numautils (topology.go, numa.go).         *)
(*                                                                         *)
(* The tree is built once from the CpuInfo records read from sysfs: a      *)
(* level (node, package, die, core, cpu) is kept only if it discriminates  *)
(* CPUs, and children appear in the order their first CPU is listed.  A    *)
(* tree node is identified by its path from the machine root, a sequence   *)
(* of <<level, value>> pairs; the root is <<>>.                            *)
(*                                                                         *)
(* The only mutable state is NumAvailable of every node.  Take(n) and      *)
(* Return(cpu) are pure operators from one NumAvailable function to the    *)
(* next, so that the allocators and the daemon can use them inside their  *)
(* own actions; module Topology gives the tree a behaviour of its own.     *)
(***************************************************************************)
EXTENDS Integers, Sequences, SequencesExt, FiniteSets

CONSTANT CpuInfos   \* sequence of [cpu, node, package, die, core] as read from sysfs

ASSUME CpuInfos \in Seq([cpu : Nat, node : Nat, package : Nat, die : Nat, core : Nat])

Nil == <<"nil">>   \* a path that is no node of the tree

(***************************************************************************)
(* Building the tree: getUsedTopoTypes, cpuInfoToNodeInfoList, append.     *)
(***************************************************************************)
TopoTypeByImportance == <<"node", "package", "die", "core", "cpu">>

UsedTopoTypes ==
  SelectSeq(TopoTypeByImportance,
            LAMBDA t : \E i, j \in DOMAIN CpuInfos : CpuInfos[i][t] # CpuInfos[j][t])

NodeInfoList(c) == [k \in 1..Len(UsedTopoTypes) |-> <<UsedTopoTypes[k], c[UsedTopoTypes[k]]>>]

Depth == Len(UsedTopoTypes)

Nodes == {SubSeq(NodeInfoList(CpuInfos[i]), 1, k) : i \in DOMAIN CpuInfos, k \in 0..Depth}

IsLeaf(t) == Len(t) = Depth

Leaves == {t \in Nodes : IsLeaf(t)}

Value(t) == t[Len(t)][2]

Cpus == {c.cpu : c \in ToSet(CpuInfos)}

IsUnder(t, l) == Len(t) <= Len(l) /\ SubSeq(l, 1, Len(t)) = t

\* Children of t in the order append creates them: by first CPU listed below
\* each.  The tree is fixed once loaded, so the child lists are a constant.
ChildList(t) ==
  LET firsts == SelectSeq([i \in 1..Len(CpuInfos) |-> i],
                  LAMBDA i : /\ Len(t) < Depth
                             /\ IsUnder(t, NodeInfoList(CpuInfos[i]))
                             /\ \A j \in 1..(i - 1) :
                                  SubSeq(NodeInfoList(CpuInfos[j]), 1, Len(t) + 1)
                                    # SubSeq(NodeInfoList(CpuInfos[i]), 1, Len(t) + 1))
  IN [k \in 1..Len(firsts) |-> SubSeq(NodeInfoList(CpuInfos[firsts[k]]), 1, Len(t) + 1)]

ChildrenOf == [t \in Nodes |-> ChildList(t)]

Children(t) == ChildrenOf[t]

\* Strict ancestors of l, the nodes the Go find() path holds after l itself.
AncestorsOf == [l \in Nodes |-> {SubSeq(l, 1, k) : k \in 0..(Len(l) - 1)}]

Ancestors(l) == AncestorsOf[l]

\* NumAvailable after loading: a leaf has 1, an inner node counts its CPUs.
InitialNumAvailable ==
  [t \in Nodes |-> IF IsLeaf(t) THEN 1
                   ELSE Cardinality({i \in DOMAIN CpuInfos : IsUnder(t, NodeInfoList(CpuInfos[i]))})]

(***************************************************************************)
(* GetLeafs: breadth-first walk with a queue, leaves in child precedence.  *)
(***************************************************************************)
RECURSIVE Bfs(_, _)
Bfs(queue, acc) ==
  IF queue = <<>> THEN acc
  ELSE LET t == Head(queue)
       IN IF IsLeaf(t) THEN Bfs(Tail(queue), Append(acc, t))
          ELSE Bfs(Tail(queue) \o Children(t), acc)

GetLeafs == Bfs(<<<<>>>>, <<>>)

(***************************************************************************)
(* findLowestNodeWithEnoughAvailability(n, level): the deepest node with   *)
(* NumAvailable >= n, ties to the first child; <<Nil, -1>> if none.        *)
(***************************************************************************)
\* Mutant: a search that never descends and settles for the first node that fits.
FindLowestNoDescend(t, n, level, f) == IF f[t] < n THEN <<Nil, -1>> ELSE <<t, level>>

\* The better of a child's result r and the best so far: a deeper node wins,
\* a tie keeps the earlier child.
Deeper(r, best) == IF r[1] # Nil /\ r[2] > best[2] THEN r ELSE best

\* t itself when none of its children has n available.
LowestOf(t, level, best) == IF best[1] = Nil THEN <<t, level>> ELSE best

RECURSIVE FindLowest(_, _, _, _), BestOfChildren(_, _, _, _, _, _)
FindLowest(t, n, level, f) ==
  IF f[t] < n THEN <<Nil, -1>>
  ELSE LowestOf(t, level, BestOfChildren(Children(t), 1, n, level + 1, f, <<Nil, 0>>))

BestOfChildren(cs, i, n, level, f, best) ==
  IF i > Len(cs) THEN best
  ELSE BestOfChildren(cs, i + 1, n, level, f, Deeper(FindLowest(cs[i], n, level, f), best))

(***************************************************************************)
(* takeLeaves(n): take n leaves depth first in child order, decrementing   *)
(* NumAvailable from t down to every taken leaf.  A result is a record     *)
(* [leaves, na, err]; the loop over the children is TakeFromChildren.      *)
(***************************************************************************)
\* The end of takeLeaves of an inner node t, its children's loop having returned r.
AfterChildren(t, n, r) ==
  IF r.err THEN [leaves |-> <<t>>, na |-> r.na, err |-> TRUE]
  ELSE [leaves |-> r.leaves, na |-> [r.na EXCEPT ![t] = @ - n], err |-> FALSE]

\* leavesToTake: what is still missing, or all that child c has.
LeavesToTake(c, n, acc, f) == IF f[c] < n - Len(acc) THEN f[c] ELSE n - Len(acc)

RECURSIVE TakeLeaves(_, _, _), TakeFromChildren(_, _, _, _, _), NextChild(_, _, _, _, _, _)
TakeLeaves(t, n, f) ==
  IF n > f[t] THEN [leaves |-> <<>>, na |-> f, err |-> TRUE]
  ELSE IF IsLeaf(t) THEN [leaves |-> <<t>>, na |-> [f EXCEPT ![t] = 0], err |-> FALSE]
  ELSE AfterChildren(t, n, TakeFromChildren(Children(t), 1, n, <<>>, f))

TakeFromChildren(cs, i, n, acc, f) ==
  IF i > Len(cs) THEN [leaves |-> acc, na |-> f, err |-> FALSE]
  ELSE NextChild(cs, i, n, acc, f[cs[i]] = 0,
                 IF f[cs[i]] = 0 THEN [leaves |-> <<>>, na |-> f, err |-> FALSE]
                 ELSE TakeLeaves(cs[i], LeavesToTake(cs[i], n, acc, f), f))

\* After child i returned r: stop on its error, break once n leaves are
\* taken (checked only after a child that was not skipped, the `continue`
\* of a child with nothing available), else go on.
NextChild(cs, i, n, acc, skipped, r) ==
  IF r.err THEN [leaves |-> acc, na |-> r.na, err |-> TRUE]
  ELSE IF ~skipped /\ Len(acc \o r.leaves) = n THEN [leaves |-> acc \o r.leaves, na |-> r.na, err |-> FALSE]
  ELSE TakeFromChildren(cs, i + 1, n, acc \o r.leaves, r.na)

(***************************************************************************)
(* NumaTopology.Take(n): find the lowest node l, take its leaves, then     *)
(* subtract n along the path above l, whether takeLeaves failed or not.    *)
(* Returns the CPU ids taken (in order), the new NumAvailable and an error *)
(* flag.                                                                   *)
(***************************************************************************)
CpuIds(leaves) == [k \in DOMAIN leaves |-> Value(leaves[k])]

\* Mutant: takeLeaves without the path update above the chosen node.
TakeNoPathUpdate(n, f) ==
  LET l == FindLowest(<<>>, n, 0, f)[1]
  IN IF l = Nil THEN [cpus |-> <<>>, na |-> f, err |-> TRUE]
     ELSE LET r == TakeLeaves(l, n, f) IN [cpus |-> CpuIds(r.leaves), na |-> r.na, err |-> r.err]

\* The end of Take once takeLeaves(n) on l has returned r.
TakeAt(l, n, r) ==
  [cpus |-> IF r.err THEN <<>> ELSE CpuIds(r.leaves),
   na   |-> [t \in Nodes |-> IF t \in Ancestors(l) THEN r.na[t] - n ELSE r.na[t]],
   err  |-> r.err]

TakeFrom(l, n, f) ==
  IF l = Nil THEN [cpus |-> <<>>, na |-> f, err |-> TRUE] ELSE TakeAt(l, n, TakeLeaves(l, n, f))

Take(n, f) == TakeFrom(FindLowest(<<>>, n, 0, f)[1], n, f)

\* NumAvailable of a tree whose free leaves are S, as Load and any sequence
\* of Take(n > 0) and Return leave it.
NumAvailableOf(S) == [t \in Nodes |-> Cardinality({l \in S : IsUnder(t, l)})]

ConsistentNumAvailable == {NumAvailableOf(S) : S \in SUBSET Leaves}

\* Take tabulated once over every consistent tree, so that TLC evaluates
\* its recursion once per argument rather than within every ENABLED test.
TakeTable == [n \in 0..Cardinality(Cpus) |-> [f \in ConsistentNumAvailable |-> Take(n, f)]]

TakeCached(n, f) ==
  IF n \in 0..Cardinality(Cpus) /\ f \in ConsistentNumAvailable THEN TakeTable[n][f] ELSE Take(n, f)

(***************************************************************************)
(* FindCpu / Return(cpu): the leaf whose value is cpu; if it is taken,     *)
(* increment it and every ancestor, otherwise leave the tree alone.        *)
(***************************************************************************)
LeafOfCpu == [cpu \in Cpus |-> CHOOSE l \in Leaves : Value(l) = cpu]

LeafOf(cpu) == IF cpu \in Cpus THEN LeafOfCpu[cpu] ELSE Nil

\* Mutant: Return without the check that the leaf is taken.
ReturnUnguarded(cpu, f) ==
  LET l == LeafOf(cpu)
  IN IF l = Nil THEN [na |-> f, err |-> TRUE]
     ELSE [na |-> [t \in Nodes |-> IF t = l \/ t \in Ancestors(l) THEN f[t] + 1 ELSE f[t]],
           err |-> FALSE]

Return(cpu, f) ==
  LET l == LeafOf(cpu)
  IN IF l = Nil THEN [na |-> f, err |-> TRUE]
     ELSE IF f[l] = 0
          THEN [na |-> [t \in Nodes |-> IF t = l \/ t \in Ancestors(l) THEN f[t] + 1 ELSE f[t]],
                err |-> FALSE]
          ELSE [na |-> f, err |-> FALSE]

=============================================================================
