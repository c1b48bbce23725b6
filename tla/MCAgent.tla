------------------------------- MODULE MCAgent -------------------------------
(***************************************************************************)
(* The agent and the daemon on the 3-CPU machine of MCDaemon.  p1's        *)
(* containers a1 and a2 ask for one exclusive CPU each and p2's b1 for     *)
(* two, so while p1 runs p2's CreatePod fails, and succeeds once p1 is     *)
(* deleted.                                                                *)
(***************************************************************************)
EXTENDS Agent, MCDaemon

\* A container whose requests and limits are both cpu and memory (memory
\* in the unit of Resources).
ContainerSpec(cpu, memory) == [requests |-> RL(cpu, memory), limits |-> RL(cpu, memory)]

MCAgentPodSpecs == ("a1" :> ContainerSpec(Q(1), 1)) @@ ("a2" :> ContainerSpec(Q(1), 1)) @@ ("b1" :> ContainerSpec(Q(2), 1))

\* p2 with a second container b2: b1 asks for 2^31-1 CPUs and b2 for one
\* more, so p2's int32 cpu totals overflow (TestResourceCountingOverflow).
MCAgentOverflowContainerIds == [MCPodContainerIds EXCEPT !["p2"] = <<"b1", "b2">>]

MCAgentOverflowPodSpecs ==
  ("a1" :> ContainerSpec(Q(1), 1)) @@ ("a2" :> ContainerSpec(Q(1), 1))
  @@ ("b1" :> ContainerSpec(Q(MaxInt32), 1)) @@ ("b2" :> ContainerSpec(Q(1), 1))

\* The daemon's ResourceSpecs: what getContainerInfo makes of the specs.
MCAgentResourceSpecs == [id \in DOMAIN MCAgentPodSpecs |-> {getContainerInfo(MCAgentPodSpecs[id]).res}]

MCAgentOverflowResourceSpecs ==
  [id \in DOMAIN MCAgentOverflowPodSpecs |-> {getContainerInfo(MCAgentOverflowPodSpecs[id]).res}]

=============================================================================
