-------------------------------- MODULE Agent --------------------------------
(***************************************************************************)
(* The node agent (pkg/agent agent.go) composed with the daemon: the only  *)
(* caller of CreatePod, UpdatePod and DeletePod.                           *)
(*                                                                         *)
(* Kubernetes moves each pod (a UID) through pending, running (every       *)
(* container ready with a ContainerID), terminating (DeletionTimestamp     *)
(* set), deleted (gone from the API server, its delete event not yet       *)
(* handled) and gone.  The informer calls the agent's update and delete    *)
(* handlers one at a time under Agent.mu; a handler makes one call and     *)
(* waits for its reply or for the 5 s context deadline.  A call that       *)
(* timed out keeps running in the daemon, so the next call may overlap it: *)
(* the daemon's Clients are the gRPC goroutines the agent's calls occupy.  *)
(*                                                                         *)
(* A pod's resources are immutable, so every request for pod p carries the *)
(* same containers, built by resources.go from the requests and limits of  *)
(* the pod spec (PodSpecs, see module Resources).  Events of               *)
(* pods outside the namespace prefix, of pods not yet ready and of pods    *)
(* with a DeletionTimestamp return before any call and change nothing, so  *)
(* they are not steps of the model.                                        *)
(***************************************************************************)
EXTENDS Daemon

CONSTANTS
  CallsCanTimeOut,   \* whether a context deadline can expire before the reply
  PodSpecs           \* container id -> [requests, limits]: its ResourceLists in the pod spec

VARIABLES
  kube,        \* pod id -> its phase in the API server
  addedPods,   \* Agent.addedPods: the pods the agent has sent a CreatePod for
  failures,    \* Agent.numConsecutiveUnsuccessfulAttempts
  agent        \* the handler in progress: [st, client, kind, pod]

agentVars == <<kube, addedPods, failures, agent>>

allVars == <<vars, agentVars>>

ASSUME CallsCanTimeOut \in BOOLEAN

maxUnsuccesfullAttempts == 3

Phases == {"pending", "running", "terminating", "deleted", "gone"}

NoCall == [st |-> "idle", client |-> NoClient, kind |-> "none", pod |-> "none"]

\* getContainerInfo of each container of pod p, in spec order.
SpecInfos(p) == [k \in DOMAIN PodContainerIds[p] |-> getContainerInfo(PodSpecs[PodContainerIds[p][k]])]

\* createPodResources for each pod: its totals, or the error that ends it
\* (a pod spec does not change, so neither does the result).
PodResources == [p \in PodIds |-> createPodResources(SpecInfos(p))]

\* GetCreatePodRequest, GetUpdatePodRequest, GetDeletePodRequest: one
\* ContainerInfo per spec container with the ContainerID getContainerID
\* finds among the statuses (of a ready pod, every container has one).
PodRequest(kind, p) ==
  IF kind = "delete" THEN [kind |-> kind, pod |-> p, res |-> ZeroResources, containers |-> <<>>]
  ELSE [kind |-> kind, pod |-> p, res |-> PodResources[p].res,
        containers |-> [k \in DOMAIN PodContainerIds[p] |->
                          [cid |-> PodContainerIds[p][k], name |-> PodContainerIds[p][k],
                           res |-> SpecInfos(p)[k].res]]]

\* Mutant: unsuccessfulAttempt without the klog.Fatal check.
AttemptNoExit(ok, added) ==
  /\ failures' = IF ok THEN 0 ELSE failures + 1
  /\ addedPods' = added
  /\ UNCHANGED kube

\* successfulAttempt, or unsuccessfulAttempt with klog.Fatal at the third
\* consecutive failure: the process exits and is started again with an
\* empty addedPods; its informer lists the pods that still exist, so the
\* delete events of pods removed meanwhile are never delivered.  added is
\* addedPods as the handler left it.
Attempt(ok, added) ==
  IF ok THEN /\ failures' = 0 /\ addedPods' = added /\ UNCHANGED kube
  ELSE IF failures + 1 >= maxUnsuccesfullAttempts
       THEN /\ failures' = 0
            /\ addedPods' = {}
            /\ kube' = [p \in PodIds |-> IF kube[p] = "deleted" THEN "gone" ELSE kube[p]]
       ELSE /\ failures' = failures + 1 /\ addedPods' = added /\ UNCHANGED kube

AgentInit ==
  /\ Init
  /\ kube = [p \in PodIds |-> "pending"]
  /\ addedPods = {}
  /\ failures = 0
  /\ agent = NoCall

(***************************************************************************)
(* Kubernetes.                                                             *)
(***************************************************************************)
PodReady(p) ==
  /\ kube[p] = "pending"
  /\ kube' = [kube EXCEPT ![p] = "running"]
  /\ UNCHANGED <<vars, addedPods, failures, agent>>

PodDeleting(p) ==
  /\ kube[p] \in {"pending", "running"}
  /\ kube' = [kube EXCEPT ![p] = "terminating"]
  /\ UNCHANGED <<vars, addedPods, failures, agent>>

PodRemoved(p) ==
  /\ kube[p] = "terminating"
  /\ kube' = [kube EXCEPT ![p] = "deleted"]
  /\ UNCHANGED <<vars, addedPods, failures, agent>>

(***************************************************************************)
(* The agent's handlers.                                                   *)
(***************************************************************************)
\* update for a running pod: UpdatePod if it is in addedPods, else
\* CreatePod; a request that cannot be built counts as a failed attempt.
AgentUpdate(p) ==
  LET kind == IF p \in addedPods THEN "update" ELSE "create" IN
  /\ agent.st = "idle"
  /\ kube[p] = "running"
  /\ IF PodResources[p].err # "nil"
     THEN /\ Attempt(FALSE, addedPods)
          /\ UNCHANGED <<vars, agent>>
     ELSE /\ \E c \in Clients :
               /\ ReceiveRequest(c, PodRequest(kind, p))
               /\ agent' = [st |-> "wait", client |-> c, kind |-> kind, pod |-> p]
          /\ UNCHANGED <<kube, addedPods, failures>>

\* delete: DeletePod for every deleted pod, created or not.
AgentDelete(p) ==
  /\ agent.st = "idle"
  /\ kube[p] = "deleted"
  /\ kube' = [kube EXCEPT ![p] = "gone"]
  /\ \E c \in Clients :
       /\ ReceiveRequest(c, PodRequest("delete", p))
       /\ agent' = [st |-> "wait", client |-> c, kind |-> "delete", pod |-> p]
  /\ UNCHANGED <<addedPods, failures>>

\* The handler after the call: CreatePod marks the pod added whatever the
\* error (agent.go line 156), DeletePod forgets it whatever the error.
CallReturned(ok) ==
  LET p == agent.pod IN
  /\ Attempt(ok, CASE agent.kind = "create" -> addedPods \cup {p}
                   [] agent.kind = "update" -> addedPods
                   [] agent.kind = "delete" -> addedPods \ {p})
  /\ agent' = NoCall

AgentReply ==
  /\ agent.st = "wait"
  /\ pc[agent.client] = "idle"
  /\ CallReturned(reply[agent.client] = "ok")
  /\ UNCHANGED vars

\* The context deadline expires first: DeadlineExceeded; the daemon's
\* goroutine goes on with the call.
AgentTimeout ==
  /\ CallsCanTimeOut
  /\ agent.st = "wait"
  /\ pc[agent.client] # "idle"
  /\ CallReturned(FALSE)
  /\ UNCHANGED vars

AgentNext ==
  \/ \E p \in PodIds : PodReady(p) \/ PodDeleting(p) \/ PodRemoved(p) \/ AgentUpdate(p) \/ AgentDelete(p)
  \/ AgentReply
  \/ AgentTimeout
  \/ \E c \in Clients : (Acquire(c) \/ Continue(c)) /\ UNCHANGED <<served, agentVars>>
  \/ Restart /\ UNCHANGED agentVars

\* The daemon's fairness, and the agent's goroutine runs once its reply is
\* there.  Kubernetes events and timeouts are not forced to happen.
AgentSpec ==
  /\ AgentInit /\ [][AgentNext]_allVars
  /\ \A c \in Clients : /\ WF_allVars(Continue(c) /\ UNCHANGED <<served, agentVars>>)
                        /\ SF_allVars(Acquire(c) /\ UNCHANGED <<served, agentVars>>)
  /\ WF_allVars(AgentReply)

(***************************************************************************)
(* Properties.                                                             *)
(***************************************************************************)
AgentTypeOK ==
  /\ kube \in [PodIds -> Phases]
  /\ addedPods \subseteq PodIds
  /\ failures \in 0..(maxUnsuccesfullAttempts - 1)
  /\ agent.st \in {"idle", "wait"}
  /\ agent.st = "wait" => agent.client \in Clients /\ agent.kind \in {"create", "update", "delete"}

\* Cpu quantities at the int32 boundary, and the ContainerInfo results they
\* give (requested and limit cpus crossed, memory requests and limits
\* distinct), with a negative memory request or limit, a fractional and an
\* oversized cpu quantity.
BoundaryValues == {0, 1, MaxInt32 - 1, MaxInt32}

BoundaryInfos ==
  {getContainerInfo([requests |-> RL(Q(x), 1), limits |-> RL(Q(y), 2)]) : x, y \in BoundaryValues}
  \cup {getContainerInfo([requests |-> RL(Q(1), -1), limits |-> RL(Q(1), 1)]),
        getContainerInfo([requests |-> RL(Q(1), 1), limits |-> RL(Q(1), -1)]),
        getContainerInfo([requests |-> RL(Frac, 1), limits |-> NoResources]),
        getContainerInfo([requests |-> NoResources, limits |-> RL(Huge, 1)])}

\* createPodResources adds each container's cpus to two int32 totals, taking
\* a negative total for an overflow, and its memory exactly to two Quantity
\* totals, refusing a negative quantity: for every pod past pending, and for
\* every list of up to three containers at the boundaries, the result is
\* the error of the first container that cannot be represented, overflows
\* a cpu total or has negative memory, and otherwise the exact totals.
BoundaryTotalsAgree == \A n \in 0..3 : \A infos \in [1..n -> BoundaryInfos] : PodTotalsAgree(infos)

PodTotalsExact == {p \in PodIds : PodTotalsAgree(SpecInfos(p))}

RequestTotalsExact ==
  /\ BoundaryTotalsAgree
  /\ \A p \in PodIds : kube[p] # "pending" => p \in PodTotalsExact

\* The agent's handler holds Agent.mu until its call returns: every call
\* the agent makes returns (a reply, or an error after a daemon crash), so
\* the informer's next event is handled, without relying on the deadline.
AgentCallsReturn == agent.st = "wait" ~> agent.st = "idle"

\* Once the agent has handled a pod's deletion and no call is running, the
\* daemon no longer lists the pod: DeletePod has released its CPUs.
DeletedPodsForgotten ==
  (agent.st = "idle" /\ \A c \in Clients : pc[c] = "idle") =>
    \A p \in DOMAIN pods : kube[p] # "gone"

=============================================================================
