----------------------------- MODULE MCTopology -----------------------------
(***************************************************************************)
(* The 2-node x 2-core x 2-thread machine of spec scenario S2: CPUs 1,3,5,7 *)
(* on node 0 (cores 0,0,1,1) and 2,4,6,8 on node 1, listed node by node as  *)
(* loadNodes/listCpusFromNode read them.  Package and die are the same for *)
(* every CPU, so those levels are elided.                                  *)
(***************************************************************************)
EXTENDS Topology

Cpu(id, nd, cr) == [cpu |-> id, node |-> nd, package |-> 0, die |-> 0, core |-> cr]

MCCpuInfos ==
  << Cpu(1, 0, 0), Cpu(3, 0, 0), Cpu(5, 0, 1), Cpu(7, 0, 1),
     Cpu(2, 1, 0), Cpu(4, 1, 0), Cpu(6, 1, 1), Cpu(8, 1, 1) >>

=============================================================================
