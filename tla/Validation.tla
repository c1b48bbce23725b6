----------------------------- MODULE Validation -----------------------------
(***************************************************************************)
(* Request validation of the control-plane API (pkg/ctlplaneapi): the      *)
(* checks CreatePod, UpdatePod and DeletePod run before they take the      *)
(* state lock.  Each operator is TRUE when the Go function returns nil;    *)
(* which error it returns is not needed, every one becomes PodSpecError.   *)
(* A request is [pod, res, containers] with containers a sequence of       *)
(* [cid, name, res]; an empty id or name is "".                            *)
(***************************************************************************)
EXTENDS Integers, Sequences

\* ValidateResourceInfo: no value below zero, no limit below its request.
ValidateResourceInfo(info) ==
  /\ \A f \in {"requestedCpus", "limitCpus", "requestedMemory", "limitMemory"} : info[f] >= 0
  /\ info.limitCpus >= info.requestedCpus
  /\ info.limitMemory >= info.requestedMemory

\* ValidateContainers: every container has an id and a name and valid
\* resources.
ValidateContainers(containers) ==
  \A k \in DOMAIN containers :
    /\ containers[k].cid # ""
    /\ containers[k].name # ""
    /\ ValidateResourceInfo(containers[k].res)

\* ValidateCreatePodRequest: at least one container, a pod id, name and
\* namespace, valid pod totals and containers.
ValidateCreatePodRequest(r, name, namespace) ==
  /\ Len(r.containers) > 0
  /\ r.pod # "" /\ name # "" /\ namespace # ""
  /\ ValidateResourceInfo(r.res)
  /\ ValidateContainers(r.containers)

ValidateDeletePodRequest(r) == r.pod # ""

\* ValidateUpdatePodRequest: as for CreatePod, without name and namespace.
ValidateUpdatePodRequest(r) ==
  /\ Len(r.containers) > 0
  /\ r.pod # ""
  /\ ValidateResourceInfo(r.res)
  /\ ValidateContainers(r.containers)

=============================================================================
