------------------------ MODULE PerNamespaceAllocator ------------------------
(***************************************************************************)
(* NumaPerNamespaceAllocator (the numa-namespace and                        *)
(* numa-namespace-exclusive allocators).  GetLeafs is cut into NumBuckets  *)
(* contiguous buckets; a namespace is bound round-robin to a bucket the    *)
(* first time one of its containers is assigned, and unbound when the      *)
(* bucket's container count drops to zero.  A Guaranteed container takes   *)
(* the first free leaves of its bucket (TopologyNode.Take on the leaf      *)
(* alone); any other container is pinned to the whole bucket, or, when     *)
(* exclusive, to its still free leaves, and is re-pinned each time a       *)
(* Guaranteed container of its namespace takes or frees CPUs.             *)
(*                                                                         *)
(* The allocator's own fields live in the world record as ns:              *)
(* [bucketOf, count, next], for NamespaceToBucket, BucketToNumContainers   *)
(* and globalBucket.  globalBucket is only read modulo NumBuckets, so next *)
(* keeps it modulo NumBuckets.  A missing map key reads as 0, as in Go.    *)
(***************************************************************************)
EXTENDS NumaAllocator

CONSTANT NumBuckets   \* the N of --allocator numa-namespace[-exclusive]=N

ASSUME NumBuckets \in Nat \ {0}

InitNsState == [bucketOf |-> << >>, count |-> << >>, next |-> 0]

BucketOf(st, ns) == IF ns \in DOMAIN st.bucketOf THEN st.bucketOf[ns] ELSE 0

CountOf(st, b) == IF b \in DOMAIN st.count THEN st.count[b] ELSE 0

\* getBucket: the b-th slice of GetLeafs; the last bucket takes the rest.
Bucket(b) ==
  LET size == Len(GetLeafs) \div NumBuckets
  IN IF b = NumBuckets - 1 THEN SubSeq(GetLeafs, size * b + 1, Len(GetLeafs))
     ELSE SubSeq(GetLeafs, size * b + 1, size * (b + 1))

newNamespace(st, ns) ==
  [st EXCEPT !.bucketOf = (ns :> st.next) @@ @, !.next = (@ + 1) % NumBuckets]

\* freeNamespace once the count of ns's bucket b is zero.
freeNamespace(st, ns, b) ==
  [st EXCEPT !.bucketOf = Restrict(@, DOMAIN @ \ {ns}), !.count = Restrict(@, DOMAIN @ \ {b})]

CpusOf(leaves) == {Value(l) : l \in ToSet(leaves)}

\* The leaves of the bucket a container is pinned to: the first c.cpus
\* available ones for a Guaranteed container (takeGuaranteedCpusFromBucket,
\* which checks first that there are enough), all of them or the available
\* ones for any other (takeAllCpusFromBucket).
\* Mutant: the leaves are taken from the whole machine, not the bucket.
BucketLeavesAnyBucket(c, bucket, f, exclusive) ==
  IF c.qs = "Guaranteed"
  THEN SubSeq(SelectSeq(GetLeafs, LAMBDA l : f[l] > 0), 1, c.cpus)
  ELSE SelectSeq(GetLeafs, LAMBDA l : ~exclusive \/ f[l] > 0)

\* Mutant: a Guaranteed container takes the first leaves, free or not.
BucketLeavesTakenToo(c, bucket, f, exclusive) ==
  IF c.qs = "Guaranteed" THEN SubSeq(bucket, 1, c.cpus)
  ELSE SelectSeq(bucket, LAMBDA l : ~exclusive \/ f[l] > 0)

BucketLeaves(c, bucket, f, exclusive) ==
  IF c.qs = "Guaranteed"
  THEN SubSeq(SelectSeq(bucket, LAMBDA l : f[l] > 0), 1, c.cpus)
  ELSE SelectSeq(bucket, LAMBDA l : ~exclusive \/ f[l] > 0)

NoContainer == [cid |-> "none", pid |-> "none", cpus |-> 0, qs |-> "none"]

\* findContainer: the container of that id listed in some pod of Pods.
findContainer(pods, cid) ==
  LET hits == UNION {{C \in ToSet(pods[p].containers) : C.cid = cid} : p \in DOMAIN pods}
  IN IF hits = {} THEN NoContainer ELSE CHOOSE C \in hits : TRUE

\* One iteration of the re-pinning loop over Allocated for container id x:
\* skipped unless it is a listed non-Guaranteed container of namespace ns,
\* else its cgroup is written with the CPUs removed (or added) and, if the
\* write succeeded, its Allocated entry too.
\* Mutant: the loop does not skip Guaranteed containers.
RepinOneAll(x, ns, cpus, adding, w) ==
  LET C == findContainer(w.pods, x)
      new == IF adding THEN w.allocated[x] \cup cpus ELSE w.allocated[x] \ cpus
  IN IF C = NoContainer \/ w.pods[C.pid].ns # ns
     THEN {Outcome(w, "nil")}
     ELSE {Outcome(IF r.err = "nil" THEN [w EXCEPT !.cgroup = r.cgroup, !.allocated[x] = CPUSetFromBucketList(ToBucketList(new))]
                   ELSE [w EXCEPT !.cgroup = r.cgroup], r.err) :
             r \in UpdateCPUSet(w.cgroup, x, ToCpuString(new), MemSet(new))}

RepinOne(x, ns, cpus, adding, w) ==
  LET C == findContainer(w.pods, x)
      new == IF adding THEN w.allocated[x] \cup cpus ELSE w.allocated[x] \ cpus
  IN IF C = NoContainer \/ w.pods[C.pid].ns # ns \/ C.qs = "Guaranteed"
     THEN {Outcome(w, "nil")}
     ELSE {Outcome(IF r.err = "nil" THEN [w EXCEPT !.cgroup = r.cgroup, !.allocated[x] = CPUSetFromBucketList(ToBucketList(new))]
                   ELSE [w EXCEPT !.cgroup = r.cgroup], r.err) :
             r \in UpdateCPUSet(w.cgroup, x, ToCpuString(new), MemSet(new))}

\* removeCpusFromCommonPool / addCpusToCommonPool: the loop over the ids of
\* Allocated, in any order (Go map iteration), returning at the first error.
RECURSIVE Repin(_, _, _, _, _)
Repin(todo, ns, cpus, adding, w) ==
  IF todo = {} THEN {Outcome(w, "nil")}
  ELSE UNION {UNION {IF o.err # "nil" THEN {o} ELSE Repin(todo \ {x}, ns, cpus, adding, o.world) :
                       o \in RepinOne(x, ns, cpus, adding, w)} :
                x \in todo}

\* The end of takeCpus once Allocated is set: the container's cgroup write,
\* then, for an exclusive Guaranteed take, the re-pin of the common pool.
PinAndRepin(c, ns, ids, exclusive, w) ==
  LET cpus == ToSet(ids) IN
  UNION {IF r.err # "nil" \/ ~(exclusive /\ c.qs = "Guaranteed")
         THEN {Outcome([w EXCEPT !.cgroup = r.cgroup], r.err)}
         ELSE Repin(DOMAIN w.allocated, ns, cpus, FALSE, [w EXCEPT !.cgroup = r.cgroup]) :
           r \in UpdateCPUSetJoined(w.cgroup, c.cid, ids)}

\* Mutant: takeCpus without d.BucketToNumContainers[namespaceBucket]++.
CountInNoop(st, b) == st

\* d.BucketToNumContainers[namespaceBucket]++: the container is counted in
\* its namespace's bucket before the take can fail.
CountIn(st, b) == [st EXCEPT !.count = (b :> CountOf(st, b) + 1) @@ @]

NsTakeCpus(c, w, exclusive) ==
  IF c.qs = "Guaranteed" /\ c.cpus = 0 THEN {Outcome(w, "NotImplemented")}
  ELSE IF c.pid \notin DOMAIN w.pods THEN {Outcome(w, "PodNotFound")}
  ELSE
    LET ns     == w.pods[c.pid].ns
        st     == IF ns \in DOMAIN w.ns.bucketOf THEN w.ns ELSE newNamespace(w.ns, ns)
        b      == st.bucketOf[ns]
        st2    == CountIn(st, b)
        free   == SelectSeq(Bucket(b), LAMBDA l : w.topology[l] > 0)
        leaves == BucketLeaves(c, Bucket(b), w.topology, exclusive)
        taken  == IF c.qs = "Guaranteed" THEN ToSet(leaves) ELSE {}
    IN IF c.qs = "Guaranteed" /\ Len(free) < c.cpus
       THEN {Outcome([w EXCEPT !.ns = st2], "CpusNotAvailable")}
       ELSE PinAndRepin(c, ns, [k \in DOMAIN leaves |-> Value(leaves[k])], exclusive,
              [w EXCEPT !.ns = st2,
                        !.topology = [t \in DOMAIN w.topology |-> IF t \in taken THEN w.topology[t] - 1
                                                                ELSE w.topology[t]],
                        !.allocated = (c.cid :> CpusOf(leaves)) @@ w.allocated])

\* freeCpus: the entry goes first; the bucket count and namespace are then
\* released, the CPUs returned (NumaTopology.Return, the whole path), and
\* an exclusive Guaranteed container's CPUs given back to the common pool.
NsFreeCpus(c, w, exclusive) ==
  IF c.cid \notin DOMAIN w.allocated THEN {Outcome(w, "ContainerNotFound")}
  ELSE
    LET v  == w.allocated[c.cid]
        w1 == [w EXCEPT !.allocated = Restrict(@, DOMAIN @ \ {c.cid})]
    IN IF c.pid \notin DOMAIN w.pods THEN {Outcome(w1, "PodNotFound")}
       ELSE
         LET ns  == w.pods[c.pid].ns
             b   == BucketOf(w.ns, ns)
             st  == [w.ns EXCEPT !.count = (b :> CountOf(w.ns, b) - 1) @@ @]
             st2 == IF CountOf(st, b) = 0 THEN freeNamespace(st, ns, b) ELSE st
             r   == ReturnAll(v, w.topology)
             w2  == [w1 EXCEPT !.ns = st2, !.topology = r.na]
         IN IF r.err THEN {Outcome(w2, "CpusNotAvailable")}
            ELSE IF exclusive /\ c.qs = "Guaranteed" THEN Repin(DOMAIN w2.allocated, ns, v, TRUE, w2)
            ELSE {Outcome(w2, "nil")}

\* clearCpus is NumaAwareAllocator.clearCpus, line for line.
NsClearCpus(c, w) == NumaClearCpus(c, w)

=============================================================================
