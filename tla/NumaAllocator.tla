--------------------------- MODULE NumaAllocator ----------------------------
(***************************************************************************)
(* NumaAwareAllocator (daemon_numa_allocator.go) behind StaticPolicy       *)
(* (static_policy.go).  Only Guaranteed containers get CPUs: takeCpus      *)
(* takes Cpus leaves from the topology tree, appends them as one-CPU       *)
(* buckets to the container's Allocated entry and pins the container's     *)
(* cgroup to them; freeCpus drops the entry and returns every CPU to the   *)
(* tree; clearCpus pins the container to every CPU of the machine.         *)
(*                                                                         *)
(* An Allocated entry, a list of inclusive CPU buckets, is kept as the set *)
(* of CPUs it covers: the order of the buckets is not observed.            *)
(*                                                                         *)
(* Each operation maps the daemon's world, a record of the DaemonState     *)
(* fields it touches (pods, allocated, topology) and the cgroup cpusets,   *)
(* to the SET of its possible outcomes [world, err]: the cgroup write is   *)
(* the only source of nondeterminism.  Memory pinning (cpuset.mems) is a  *)
(* function of the CPUs written and is left out.                           *)
(***************************************************************************)
EXTENDS TopologyTree, Cgroup, Functions

Outcome(world, err) == [world |-> world, err |-> err]

\* KernelParse(JoinCpus(ids)) for every order of every set of CPUs, the
\* lists the takes join and write; a constant table, computed once.
JoinParseCache ==
  [q \in {q \in UNION {[1..n -> Cpus] : n \in 0..Cardinality(Cpus)} : IsInjective(q)} |->
     KernelParse(JoinCpus(q))]

\* UpdateCPUSet(cgroup, cid, strings.Join(ids, ","),
\* getMemoryPinningIfEnabled(ids)).
UpdateCPUSetJoined(cgroup, cid, ids) ==
  WriteOutcomes(cgroup, cid, IF ids \in DOMAIN JoinParseCache THEN JoinParseCache[ids]
                             ELSE KernelParse(JoinCpus(ids)),
                MemSet(ToSet(ids)))

\* takeCpus with the pinned cgroup written only when the write succeeds.
NumaTakeCpus(c, w) ==
  IF c.qs # "Guaranteed" THEN {Outcome(w, "nil")}
  ELSE LET t == TakeCached(c.cpus, w.topology)
       IN IF t.err
          THEN {Outcome([w EXCEPT !.topology = t.na], "CpusNotAvailable")}
          ELSE LET old == IF c.cid \in DOMAIN w.allocated THEN w.allocated[c.cid] ELSE {}
                   w2  == [w EXCEPT !.topology = t.na,
                                    !.allocated = (c.cid :> (old \cup ToSet(t.cpus))) @@ w.allocated]
               IN {Outcome([w2 EXCEPT !.cgroup = r.cgroup], r.err) :
                     r \in UpdateCPUSetJoined(w.cgroup, c.cid, t.cpus)}

\* Return every CPU of an entry to the tree, stopping at the first error.
RECURSIVE ReturnAll(_, _)
ReturnAll(cpus, f) ==
  IF cpus = {} THEN [na |-> f, err |-> FALSE]
  ELSE LET cpu == CHOOSE x \in cpus : \A y \in cpus : x <= y
           r   == Return(cpu, f)
       IN IF r.err THEN r ELSE ReturnAll(cpus \ {cpu}, r.na)

\* Mutant: freeCpus that returns the CPUs but keeps the Allocated entry.
NumaFreeCpusKeepEntry(c, w) ==
  IF c.qs # "Guaranteed" THEN {Outcome(w, "nil")}
  ELSE IF c.cid \notin DOMAIN w.allocated THEN {Outcome(w, "ContainerNotFound")}
  ELSE LET r == ReturnAll(w.allocated[c.cid], w.topology)
       IN {Outcome([w EXCEPT !.topology = r.na], IF r.err THEN "CpusNotAvailable" ELSE "nil")}

NumaFreeCpus(c, w) ==
  IF c.qs # "Guaranteed" THEN {Outcome(w, "nil")}
  ELSE IF c.cid \notin DOMAIN w.allocated THEN {Outcome(w, "ContainerNotFound")}
  ELSE LET r == ReturnAll(w.allocated[c.cid], w.topology)
       IN {Outcome([w EXCEPT !.topology = r.na,
                             !.allocated = Restrict(w.allocated, DOMAIN w.allocated \ {c.cid})],
                   IF r.err THEN "CpusNotAvailable" ELSE "nil")}

\* KernelParse(ToCpuString(Cpus)): the list clearCpus writes, read once.
ClearParse == KernelParse(ToCpuString(Cpus))

\* clearCpus: UpdateCPUSet(cid, ToCpuString(all CPUs), the nodes of all).
NumaClearCpus(c, w) ==
  {Outcome([w EXCEPT !.cgroup = r.cgroup], r.err) : r \in WriteOutcomes(w.cgroup, c.cid, ClearParse, MemSet(Cpus))}

=============================================================================
