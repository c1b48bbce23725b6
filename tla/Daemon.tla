------------------------------- MODULE Daemon -------------------------------
(***************************************************************************)
(* The control-plane daemon (pkg/cpudaemon daemon.go): CreatePod,          *)
(* DeletePod and UpdatePod, called concurrently by the goroutines of the   *)
(* gRPC server, serialised on stateMu, each calling the policy once per    *)
(* container.                                                              *)
(*                                                                         *)
(* The DaemonState fields the handlers change are variables (pods,         *)
(* allocated, topology) beside the kernel's cpuset files (cgroup).  A      *)
(* client c runs one request at a time: pc[c] is where it is in the        *)
(* handler, req[c] the request, loc[c] the handler's local variables.     *)
(* Every step that holds stateMu makes one policy call (or none) and its   *)
(* bookkeeping; the only step outside the lock is UpdatePod's check that   *)
(* the pod exists.                                                         *)
(***************************************************************************)
EXTENDS Policy, Resources, Validation, Integers, Sequences, SequencesExt, FiniteSets

CONSTANTS
  Clients,          \* gRPC server goroutines calling the daemon
  PodIds,           \* pod ids the requests name
  PodNamespace,     \* [PodIds -> namespace] given by CreatePod
  PodContainerIds,  \* [PodIds -> Seq(container id)]: the containers of each pod spec
  ResourceSpecs,    \* [container id -> the ResourceInfo values its requests may carry]
  MaxRequests,      \* bound on the number of calls the clients make in all
  SaveCanFail,      \* whether os.WriteFile of the state file may fail
  MaxCrashes        \* bound on the number of daemon crashes and restarts

VARIABLES
  pods,       \* DaemonState.Pods: pod id -> [pid, ns, containers]
  allocated,  \* DaemonState.Allocated: container id -> its CPUs
  topology,   \* DaemonState.Topology: NumAvailable of every tree node
  cgroup,     \* container id -> the CPUs its cpuset.cpus was last set to
  nsState,    \* the per-namespace allocator's maps (InitNsState under numa)
  available,  \* DaemonState.AvailableCPUs: the default allocator's free ranges
  lock,       \* the holder of Daemon.stateMu, or NoClient
  pc, req, loc,
  served,     \* calls received so far, at most MaxRequests
  reply,      \* the error the last call of each client returned: "none", "ok" or "err"
  saved,      \* the state file: the DaemonState fields SaveState marshals
  crashes     \* crashes so far, at most MaxCrashes

vars == <<pods, allocated, topology, cgroup, nsState, available, lock, pc, req, loc, served,
          reply, saved, crashes>>

ASSUME SaveCanFail \in BOOLEAN /\ MaxCrashes \in Nat

NoClient == "none"
NoRequest == [kind |-> "none", pod |-> "none", res |-> ZeroResources, containers |-> <<>>]

\* PodMetadata zero value: what d.state.Pods[id] reads for a missing id.
ZeroPod == [pid |-> "", ns |-> "", containers |-> <<>>]

\* The handler locals between steps; before is the state a CreatePod found,
\* failed whether a container operation of the handler has returned an error.
EmptyLoc == [todo |-> <<>>, done |-> <<>>, del |-> <<>>, chg |-> <<>>,
             kept |-> <<>>, pod |-> ZeroPod, before |-> <<>>, failed |-> FALSE]

\* json.Marshal(d): the fields of DaemonState the state file holds.  The
\* per-namespace allocator's maps live in the allocator, not in DaemonState.
Snapshot == [pods |-> pods, allocated |-> allocated, topology |-> topology, avail |-> available]

World == [pods |-> pods, allocated |-> allocated, topology |-> topology, cgroup |-> cgroup,
          ns |-> nsState, avail |-> available]

SetWorld(w) ==
  /\ pods' = w.pods
  /\ allocated' = w.allocated
  /\ topology' = w.topology
  /\ cgroup' = w.cgroup
  /\ nsState' = w.ns
  /\ available' = w.avail

(***************************************************************************)
(* Requests and containerFromRequest.                                      *)
(***************************************************************************)
QoSOf(r) ==
  IF r.requestedCpus = r.limitCpus /\ r.requestedMemory = r.limitMemory /\ r.requestedCpus > 0
  THEN "Guaranteed"
  ELSE IF r.requestedCpus < r.limitCpus \/ r.requestedMemory < r.limitMemory
       THEN "Burstable" ELSE "BestEffort"

containerFromRequest(ci, podID) ==
  [cid |-> ci.cid, pid |-> podID, cpus |-> ci.res.requestedCpus, qs |-> QoSOf(ci.res)]

\* ContainerInfo lists for pod p: some of its containers, in pod spec order,
\* each named after its id and with a resource spec.
ContainerInfos(p) ==
  LET lists == {SelectSeq(PodContainerIds[p], LAMBDA id : id \in S) :
                  S \in SUBSET ToSet(PodContainerIds[p]) \ {{}}}
      specs(ids) == {rs \in [DOMAIN ids -> UNION {ResourceSpecs[id] : id \in ToSet(ids)}] :
                       \A k \in DOMAIN ids : rs[k] \in ResourceSpecs[ids[k]]}
  IN UNION {{[k \in DOMAIN ids |-> [cid |-> ids[k], name |-> ids[k], res |-> rs[k]]] : rs \in specs(ids)} : ids \in lists}

\* The requests of a caller that sums the pod's resources as the agent does.
Requests ==
  UNION {{[kind |-> k, pod |-> p, containers |-> cs,
           res |-> createPodResources([i \in DOMAIN cs |-> [err |-> "nil", res |-> cs[i].res]]).res] :
            k \in {"create", "update"}, cs \in ContainerInfos(p)} :
           p \in PodIds}
  \cup {[kind |-> "delete", pod |-> p, res |-> ZeroResources, containers |-> <<>>] : p \in PodIds}

\* The validation each handler runs first (pod name = pod id).
RequestValid(r) ==
  CASE r.kind = "create" -> ValidateCreatePodRequest(r, r.pod, PodNamespace[r.pod])
    [] r.kind = "update" -> ValidateUpdatePodRequest(r)
    [] r.kind = "delete" -> ValidateDeletePodRequest(r)

(***************************************************************************)
(* The UpdatePod diff: getDeletedContainers, getChangedContainers,         *)
(* getNotModifiedContainers, getAddedContainers.                           *)
(***************************************************************************)
HasCid(cs, id) == \E k \in DOMAIN cs : cs[k].cid = id

CurrentOf(cur, id) == cur[CHOOSE k \in DOMAIN cur : cur[k].cid = id]

getDeletedContainers(cur, wanted) == SelectSeq(cur, LAMBDA oc : ~HasCid(wanted, oc.cid))

getChangedContainers(cur, wanted) ==
  LET ch == SelectSeq(wanted, LAMBDA cc : HasCid(cur, cc.cid) /\
                        containerFromRequest(cc, CurrentOf(cur, cc.cid).pid) # CurrentOf(cur, cc.cid))
  IN [k \in DOMAIN ch |-> [current |-> CurrentOf(cur, ch[k].cid),
                           wanted  |-> containerFromRequest(ch[k], CurrentOf(cur, ch[k].cid).pid)]]

getNotModifiedContainers(cur, wanted) ==
  LET nm == SelectSeq(wanted, LAMBDA cc : HasCid(cur, cc.cid) /\
                        containerFromRequest(cc, CurrentOf(cur, cc.cid).pid) = CurrentOf(cur, cc.cid))
  IN [k \in DOMAIN nm |-> CurrentOf(cur, nm[k].cid)]

getAddedContainers(cur, wanted, podID) ==
  LET ad == SelectSeq(wanted, LAMBDA cc : ~HasCid(cur, cc.cid))
  IN [k \in DOMAIN ad |-> containerFromRequest(ad[k], podID)]

\* rollbackContainers: ClearContainer on each container, errors only logged.
RECURSIVE rollbackContainers(_, _)
rollbackContainers(cs, w) ==
  IF cs = <<>> THEN {w}
  ELSE UNION {rollbackContainers(Tail(cs), o.world) : o \in ClearContainer(Head(cs), w)}

RemovePod(ps, id) == Restrict(ps, DOMAIN ps \ {id})

(***************************************************************************)
(* The handlers.  p is the pod of the client's request.                    *)
(***************************************************************************)
Init ==
  /\ pods = << >>
  /\ allocated = << >>
  /\ topology = InitialNumAvailable
  /\ cgroup = << >>
  /\ nsState = InitNsState
  /\ available = CgroupCpus
  /\ lock = NoClient
  /\ pc = [c \in Clients |-> "idle"]
  /\ req = [c \in Clients |-> NoRequest]
  /\ loc = [c \in Clients |-> EmptyLoc]
  /\ served = 0
  /\ reply = [c \in Clients |-> "none"]
  /\ saved = Snapshot
  /\ crashes = 0

\* A gRPC call with request r arrives at a free server goroutine c; one
\* that fails validation returns PodSpecError before the lock is taken.
ReceiveRequest(c, r) ==
  /\ pc[c] = "idle"
  /\ served < MaxRequests
  /\ served' = served + 1
  /\ \/ /\ ~RequestValid(r)
        /\ reply' = [reply EXCEPT ![c] = "err"]
        /\ UNCHANGED <<pc, req>>
     \/ /\ RequestValid(r)
        /\ req' = [req EXCEPT ![c] = r]
        /\ pc' = [pc EXCEPT ![c] = CASE r.kind = "create" -> "createLock"
                                     [] r.kind = "update" -> "updateCheck"
                                     [] r.kind = "delete" -> "deleteLock"]
        /\ reply' = [reply EXCEPT ![c] = "none"]
  /\ UNCHANGED <<pods, allocated, topology, cgroup, nsState, available, lock, loc, saved, crashes>>

\* Any caller: every request of Requests.
Receive(c) == \E r \in Requests : ReceiveRequest(c, r)

\* CreatePod: lock, then d.state.Pods[id] = podMeta with no containers.
CreateLock(c) ==
  LET p == req[c].pod IN
  /\ pc[c] = "createLock"
  /\ lock = NoClient
  /\ lock' = c
  /\ pods' = (p :> [pid |-> p, ns |-> PodNamespace[p], containers |-> <<>>]) @@ pods
  /\ loc' = [loc EXCEPT ![c] = [EmptyLoc EXCEPT
               !.todo = [k \in DOMAIN req[c].containers |-> containerFromRequest(req[c].containers[k], p)],
               !.before = [allocated |-> allocated, topology |-> topology]]]
  /\ pc' = [pc EXCEPT ![c] = "create"]
  /\ UNCHANGED <<allocated, topology, cgroup, nsState, available, req, reply, saved, crashes>>

\* CreatePod loop body: the next container is assigned and added to podMeta.
CreateAssign(c) ==
  LET p == req[c].pod
      C == Head(loc[c].todo)
  IN
  /\ pc[c] = "create"
  /\ loc[c].todo # <<>>
  /\ \E o \in AssignContainer(C, World) :
       /\ o.err = "nil"
       /\ SetWorld([o.world EXCEPT !.pods = (p :> [pid |-> p, ns |-> PodNamespace[p],
                                                   containers |-> Append(loc[c].done, C)]) @@ @])
  /\ loc' = [loc EXCEPT ![c].todo = Tail(@), ![c].done = Append(@, C)]
  /\ pc' = [pc EXCEPT ![c] = IF Tail(loc[c].todo) = <<>> THEN "save" ELSE "create"]
  /\ UNCHANGED <<lock, req, reply, saved, crashes>>

\* CreatePod loop body when AssignContainer fails: rollbackContainers on the
\* containers before it, delete(d.state.Pods, id), return the error.
CreateRollback(c) ==
  LET p == req[c].pod
      C == Head(loc[c].todo)
  IN
  /\ pc[c] = "create"
  /\ loc[c].todo # <<>>
  /\ \E o \in AssignContainer(C, World) :
       /\ o.err # "nil"
       /\ \E w \in rollbackContainers(loc[c].done, o.world) : SetWorld([w EXCEPT !.pods = RemovePod(@, p)])
  /\ lock' = NoClient
  /\ pc' = [pc EXCEPT ![c] = "idle"]
  /\ req' = [req EXCEPT ![c] = NoRequest]
  /\ loc' = [loc EXCEPT ![c] = EmptyLoc]
  /\ reply' = [reply EXCEPT ![c] = "err"]
  /\ UNCHANGED <<saved, crashes>>

\* Mutant: the PodNotFound return made without the deferred Unlock.
DeleteLockKeepLock(c) ==
  LET p == req[c].pod IN
  /\ pc[c] = "deleteLock"
  /\ lock = NoClient
  /\ lock' = c
  /\ IF p \in DOMAIN pods
     THEN /\ loc' = [loc EXCEPT ![c].todo = pods[p].containers]
          /\ pc' = [pc EXCEPT ![c] = "delete"]
          /\ UNCHANGED <<req, reply>>
     ELSE /\ pc' = [pc EXCEPT ![c] = "idle"]
          /\ req' = [req EXCEPT ![c] = NoRequest]
          /\ reply' = [reply EXCEPT ![c] = "err"]
          /\ UNCHANGED loc
  /\ UNCHANGED <<pods, allocated, topology, cgroup, nsState, available, saved, crashes>>

\* DeletePod: lock; a missing pod returns PodNotFound (the deferred unlock).
DeleteLock(c) ==
  LET p == req[c].pod IN
  /\ pc[c] = "deleteLock"
  /\ lock = NoClient
  /\ IF p \in DOMAIN pods
     THEN /\ lock' = c
          /\ loc' = [loc EXCEPT ![c].todo = pods[p].containers]
          /\ pc' = [pc EXCEPT ![c] = "delete"]
          /\ UNCHANGED <<req, reply>>
     ELSE /\ pc' = [pc EXCEPT ![c] = "idle"]
          /\ req' = [req EXCEPT ![c] = NoRequest]
          /\ reply' = [reply EXCEPT ![c] = "err"]
          /\ UNCHANGED <<lock, loc>>
  /\ UNCHANGED <<pods, allocated, topology, cgroup, nsState, available, saved, crashes>>

\* deleteContainers: DeleteContainer on each container, errors collected.
DeleteFree(c) ==
  /\ pc[c] = "delete"
  /\ loc[c].todo # <<>>
  /\ \E o \in DeleteContainer(Head(loc[c].todo), World) :
       /\ SetWorld(o.world)
       /\ loc' = [loc EXCEPT ![c].todo = Tail(@), ![c].failed = @ \/ o.err # "nil"]
  /\ UNCHANGED <<lock, pc, req, reply, saved, crashes>>

\* delete(d.state.Pods, id) whatever the container errors were.
DeleteFinish(c) ==
  /\ pc[c] = "delete"
  /\ loc[c].todo = <<>>
  /\ pods' = RemovePod(pods, req[c].pod)
  /\ pc' = [pc EXCEPT ![c] = "save"]
  /\ UNCHANGED <<allocated, topology, cgroup, nsState, available, lock, req, loc, reply, saved, crashes>>

\* UpdatePod's existence check, made before stateMu.Lock.
UpdateCheck(c) ==
  /\ pc[c] = "updateCheck"
  /\ IF req[c].pod \in DOMAIN pods
     THEN /\ pc' = [pc EXCEPT ![c] = "updateLock"]
          /\ UNCHANGED <<req, reply>>
     ELSE /\ pc' = [pc EXCEPT ![c] = "idle"]
          /\ req' = [req EXCEPT ![c] = NoRequest]
          /\ reply' = [reply EXCEPT ![c] = "err"]
  /\ UNCHANGED <<pods, allocated, topology, cgroup, nsState, available, lock, loc, saved, crashes>>

\* UpdatePod under the lock: pod := d.state.Pods[id] and the diff.
UpdateLock(c) ==
  LET p      == req[c].pod
      pod    == IF p \in DOMAIN pods THEN pods[p] ELSE ZeroPod
      wanted == req[c].containers
  IN
  /\ pc[c] = "updateLock"
  /\ lock = NoClient
  /\ lock' = c
  /\ loc' = [loc EXCEPT ![c] = [EmptyLoc EXCEPT
               !.pod  = pod,
               !.del  = getDeletedContainers(pod.containers, wanted),
               !.chg  = getChangedContainers(pod.containers, wanted),
               !.todo = getAddedContainers(pod.containers, wanted, p),
               !.kept = getNotModifiedContainers(pod.containers, wanted)]]
  /\ pc' = [pc EXCEPT ![c] = "update"]
  /\ UNCHANGED <<pods, allocated, topology, cgroup, nsState, available, req, reply, saved, crashes>>

\* deleteContainers(deleted): errors collected, the loop goes on.
UpdateDelete(c) ==
  /\ pc[c] = "update"
  /\ loc[c].del # <<>>
  /\ \E o \in DeleteContainer(Head(loc[c].del), World) :
       /\ SetWorld(o.world)
       /\ loc' = [loc EXCEPT ![c].del = Tail(@), ![c].failed = @ \/ o.err # "nil"]
  /\ UNCHANGED <<lock, pc, req, reply, saved, crashes>>

\* Mutant: updateContainers without the continue after a failed assign.
UpdateChangeKeepFailed(c) ==
  LET u == Head(loc[c].chg) IN
  /\ pc[c] = "update"
  /\ loc[c].del = <<>>
  /\ loc[c].chg # <<>>
  /\ \E o1 \in DeleteContainer(u.current, World) :
       IF o1.err # "nil"
       THEN /\ SetWorld(o1.world)
            /\ loc' = [loc EXCEPT ![c].chg = Tail(@), ![c].failed = TRUE]
       ELSE \E o2 \in AssignContainer(u.wanted, o1.world) :
              /\ SetWorld(o2.world)
              /\ loc' = [loc EXCEPT ![c].chg = Tail(@), ![c].done = Append(@, u.wanted),
                                    ![c].failed = @ \/ o2.err # "nil"]
  /\ UNCHANGED <<lock, pc, req, reply, saved, crashes>>

\* updateContainers: DeleteContainer(current), then AssignContainer(wanted)
\* if that succeeded; wanted is kept only if both succeeded.
UpdateChange(c) ==
  LET u == Head(loc[c].chg) IN
  /\ pc[c] = "update"
  /\ loc[c].del = <<>>
  /\ loc[c].chg # <<>>
  /\ \E o1 \in DeleteContainer(u.current, World) :
       IF o1.err # "nil"
       THEN /\ SetWorld(o1.world)
            /\ loc' = [loc EXCEPT ![c].chg = Tail(@), ![c].failed = TRUE]
       ELSE \E o2 \in AssignContainer(u.wanted, o1.world) :
              /\ SetWorld(o2.world)
              /\ loc' = [loc EXCEPT ![c].chg = Tail(@),
                                    ![c].done = IF o2.err = "nil" THEN Append(@, u.wanted) ELSE @,
                                    ![c].failed = @ \/ o2.err # "nil"]
  /\ UNCHANGED <<lock, pc, req, reply, saved, crashes>>

\* addContainers: AssignContainer on each added container.
UpdateAdd(c) ==
  LET C == Head(loc[c].todo) IN
  /\ pc[c] = "update"
  /\ loc[c].del = <<>>
  /\ loc[c].chg = <<>>
  /\ loc[c].todo # <<>>
  /\ \E o \in AssignContainer(C, World) :
       /\ SetWorld(o.world)
       /\ loc' = [loc EXCEPT ![c].todo = Tail(@),
                             ![c].done = IF o.err = "nil" THEN Append(@, C) ELSE @,
                             ![c].failed = @ \/ o.err # "nil"]
  /\ UNCHANGED <<lock, pc, req, reply, saved, crashes>>

\* pod.Containers = notModified ++ updated ++ added; d.state.Pods[id] = pod.
UpdateFinish(c) ==
  /\ pc[c] = "update"
  /\ loc[c].del = <<>>
  /\ loc[c].chg = <<>>
  /\ loc[c].todo = <<>>
  /\ pods' = (req[c].pod :> [loc[c].pod EXCEPT !.containers = loc[c].kept \o loc[c].done]) @@ pods
  /\ pc' = [pc EXCEPT ![c] = "save"]
  /\ UNCHANGED <<allocated, topology, cgroup, nsState, available, lock, req, loc, reply, saved, crashes>>

\* SaveState's os.WriteFile either replaces the file or fails and leaves it.
SaveStateOutcomes ==
  {[file |-> Snapshot, ok |-> TRUE]} \cup (IF SaveCanFail THEN {[file |-> saved, ok |-> FALSE]} ELSE {})

\* The error a handler returns after saveState: CreatePod and UpdatePod
\* return the save error; DeletePod only logs it and returns the container
\* errors; UpdatePod also returns the aggregated container errors.
HandlerError(kind, saveOk, failed) ==
  CASE kind = "create" -> ~saveOk
    [] kind = "delete" -> failed
    [] kind = "update" -> ~saveOk \/ failed

\* saveState, then the deferred stateMu.Unlock and the reply.
Save(c) ==
  /\ pc[c] = "save"
  /\ \E o \in SaveStateOutcomes :
       /\ saved' = o.file
       /\ reply' = [reply EXCEPT ![c] = IF HandlerError(req[c].kind, o.ok, loc[c].failed) THEN "err" ELSE "ok"]
  /\ lock' = NoClient
  /\ pc' = [pc EXCEPT ![c] = "idle"]
  /\ req' = [req EXCEPT ![c] = NoRequest]
  /\ loc' = [loc EXCEPT ![c] = EmptyLoc]
  /\ UNCHANGED <<pods, allocated, topology, cgroup, nsState, available, crashes>>

\* LoadState: json.Unmarshal of the state file over the DaemonState that
\* newState built, replacing each field the file holds.
LoadState(file) ==
  /\ pods' = file.pods
  /\ allocated' = file.allocated
  /\ topology' = file.topology
  /\ available' = file.avail

\* The daemon process dies at any point and is started again: newState
\* reads the root cpuset and the topology, finds the state file and loads
\* it; the allocator starts with empty maps.  The kernel keeps every
\* cpuset written; the calls in flight fail.
Restart ==
  /\ crashes < MaxCrashes
  /\ crashes' = crashes + 1
  /\ LoadState(saved)
  /\ nsState' = InitNsState
  /\ lock' = NoClient
  /\ pc' = [c \in Clients |-> "idle"]
  /\ req' = [c \in Clients |-> NoRequest]
  /\ loc' = [c \in Clients |-> EmptyLoc]
  /\ reply' = [c \in Clients |-> IF pc[c] = "idle" THEN reply[c] ELSE "err"]
  /\ UNCHANGED <<cgroup, saved, served>>

\* Taking stateMu.
Acquire(c) == CreateLock(c) \/ DeleteLock(c) \/ UpdateLock(c)

\* Every other step of a started request.
Continue(c) ==
  \/ CreateAssign(c) \/ CreateRollback(c)
  \/ DeleteFree(c) \/ DeleteFinish(c)
  \/ UpdateCheck(c) \/ UpdateDelete(c) \/ UpdateChange(c) \/ UpdateAdd(c) \/ UpdateFinish(c)
  \/ Save(c)

Next ==
  \/ \E c \in Clients :
       \/ Receive(c)
       \/ (Acquire(c) \/ Continue(c)) /\ UNCHANGED served

\* A started handler is never stuck on its own (WF); stateMu hands itself to
\* a goroutine that keeps waiting (sync.Mutex starvation mode: SF).
Spec ==
  /\ Init /\ [][Next]_vars
  /\ \A c \in Clients : WF_vars(Continue(c) /\ UNCHANGED served) /\ SF_vars(Acquire(c) /\ UNCHANGED served)

\* The daemon alone, and a process that may crash and restart at any point.
CrashNext == Next \/ Restart

CrashSpec ==
  /\ Init /\ [][CrashNext]_vars
  /\ \A c \in Clients : WF_vars(Continue(c) /\ UNCHANGED served) /\ SF_vars(Acquire(c) /\ UNCHANGED served)

(***************************************************************************)
(* Properties.                                                             *)
(***************************************************************************)
Containers == UNION {ToSet(pods[p].containers) : p \in DOMAIN pods}

TakenCpus == {Value(l) : l \in {x \in Leaves : topology[x] = 0}}

TypeOK ==
  /\ lock \in Clients \cup {NoClient}
  /\ pc \in [Clients -> {"idle", "createLock", "create", "deleteLock", "delete",
                         "updateCheck", "updateLock", "update", "save"}]
  /\ \A c \in Clients : (lock = c) <=> pc[c] \in {"create", "delete", "update", "save"}
  /\ DOMAIN pods \subseteq PodIds
  /\ \A id \in DOMAIN allocated : (allocated[id]) \subseteq Cpus
  /\ \A id \in DOMAIN cgroup : cgroup[id] \subseteq Cpus
  /\ nsState.next \in 0..(NumBuckets - 1)
  /\ DOMAIN available = DOMAIN CgroupCpus
  /\ \A b \in DOMAIN nsState.count : nsState.count[b] \in Int
  /\ reply \in [Clients -> {"none", "ok", "err"}]
  /\ DOMAIN saved.pods \subseteq PodIds
  /\ crashes \in 0..MaxCrashes

\* Exclusive CPUs (takeCpus / freeCpus): no CPU is in the Allocated entries
\* of two containers, and every allocated CPU is a taken leaf of the tree,
\* whatever the interleaving of handlers and cgroup write failures.
ExclusiveAllocation ==
  /\ \A x, y \in DOMAIN allocated :
       x # y => (allocated[x]) \cap (allocated[y]) = {}
  /\ \A x \in DOMAIN allocated : (allocated[x]) \subseteq TakenCpus

\* Between handlers, a Guaranteed container the daemon lists in a pod holds an Allocated entry
\* of at least its CPUs, and its cgroup is pinned inside that entry: the
\* reply CreatePod/UpdatePod give for it matches what the kernel enforces.
PinnedContainersHoldTheirCpus ==
  lock = NoClient =>
  \A C \in Containers :
    C.qs = "Guaranteed" =>
      /\ C.cid \in DOMAIN allocated
      /\ Cardinality((allocated[C.cid])) >= C.cpus
      /\ C.cid \in DOMAIN cgroup
      /\ cgroup[C.cid] \subseteq (allocated[C.cid])

\* CreatePod is transactional (its doc comment: "either all containers were
\* added successfully or pod creation fails"; spec S5): a CreatePod that
\* fails leaves Allocated and the topology as it found them.
CreateFailureRestoresState ==
  [][\A c \in Clients :
       (pc[c] = "create" /\ pc'[c] = "idle") =>
         /\ allocated' = loc[c].before.allocated
         /\ topology' = loc[c].before.topology]_vars

\* Spec I3: between handlers, every Guaranteed container listed in a pod has
\* exactly the CPUs it asked for in Allocated (takeCpus appends to an entry
\* a failed assign may have left behind).
GuaranteedAllocationSize ==
  lock = NoClient =>
    \A C \in Containers : C.qs = "Guaranteed" => Cardinality(allocated[C.cid]) = C.cpus

\* UpdatePod of a pod that is not in the state returns PodNotFound (spec
\* UpdatePod step 2): every pod in Pods carries the id and namespace its
\* CreatePod gave it, however UpdatePod and DeletePod interleave.
PodsComeFromCreatePod ==
  \A p \in DOMAIN pods : pods[p].pid = p /\ pods[p].ns = PodNamespace[p]

Guaranteed == {C \in Containers : C.qs = "Guaranteed" /\ C.cid \in DOMAIN allocated}

\* Only one Guaranteed container is pinned to each CPU (the comment on
\* NumaPerNamespaceAllocator): between handlers, no CPU is in the Allocated
\* entries of two listed Guaranteed containers, and each of their CPUs is
\* taken in the topology, whatever shared containers come and go.
GuaranteedCpusExclusive ==
  lock = NoClient =>
    /\ \A C, D \in Guaranteed : C # D => allocated[C.cid] \cap allocated[D.cid] = {}
    /\ \A C \in Guaranteed : allocated[C.cid] \subseteq TakenCpus

\* Exclusive mode (spec 4.4, scenario S4): between handlers, no
\* non-Guaranteed container is pinned to a CPU of a Guaranteed container of
\* its own namespace; takeCpus re-pins the common pool after every
\* Guaranteed take, finding the containers through Pods.
SharedPoolExcludesGuaranteed ==
  (Exclusive /\ lock = NoClient) =>
    \A C \in Guaranteed, S \in Containers :
      (S.qs # "Guaranteed" /\ pods[S.pid].ns = pods[C.pid].ns /\ S.cid \in DOMAIN cgroup)
        => cgroup[S.cid] \cap allocated[C.cid] = {}

\* Spec I4: between handlers, the CPUs of a Guaranteed container lie in
\* the bucket its pod's namespace is bound to, though namespaces are bound
\* and released as containers come and go.
BucketLocality ==
  (Allocator # "numa" /\ lock = NoClient) =>
    \A C \in Guaranteed :
      LET ns == pods[C.pid].ns
      IN ns \in DOMAIN nsState.bucketOf /\ allocated[C.cid] \subseteq CpusOf(Bucket(nsState.bucketOf[ns]))

\* BucketToNumContainers keeps namespaces bound (takeCpus counts a container
\* in before it takes its CPUs, freeCpus counts it out and frees the
\* namespace at zero): between handlers, the namespace of every container
\* with an Allocated entry is bound, and each bucket's count is at least the
\* number of such containers of the namespaces bound to it, however
\* failed takes, rollbacks and frees of two callers interleave.
NsCountCoversContainers ==
  (Allocator # "numa" /\ lock = NoClient) =>
    LET held == {C \in Containers : C.cid \in DOMAIN allocated}
    IN /\ \A C \in held : pods[C.pid].ns \in DOMAIN nsState.bucketOf
       /\ \A b \in 0..(NumBuckets - 1) :
            CountOf(nsState, b) >= Cardinality({C \in held : BucketOf(nsState, pods[C.pid].ns) = b})

\* Default allocator: between any two steps no CPU is both in an available
\* range and held, or in two ranges, and every range is non-empty, however
\* takeCpus (cutting a range's head before the cgroup write) and freeCpus
\* (extending a range down to the freed one) interleave.
DefaultCpusDisjoint ==
  Allocator = "default" =>
    /\ \A i \in DOMAIN available : available[i].start <= available[i].end
    /\ \A i, j \in DOMAIN available : i # j => (available[i].start..available[i].end) \cap (available[j].start..available[j].end) = {}
    /\ \A x \in DOMAIN allocated : allocated[x] \cap CPUSetFromBucketList(available) = {}
    /\ \A x, y \in DOMAIN allocated : x # y => allocated[x] \cap allocated[y] = {}

\* Spec I5 leaves open whether freeCpus loses CPUs: between handlers, once
\* no container holds CPUs, the available ranges cover the root cpuset
\* again, so that a request that fitted the idle machine fits it again.
PoolRestoredWhenEmpty ==
  (Allocator = "default" /\ lock = NoClient /\ DOMAIN allocated = {}) =>
    CPUSetFromBucketList(available) = CPUSetFromBucketList(CgroupCpus)

\* Every request the daemon starts is answered (stateMu is always released).
RequestsComplete == \A c \in Clients : pc[c] # "idle" ~> pc[c] = "idle"

=============================================================================
