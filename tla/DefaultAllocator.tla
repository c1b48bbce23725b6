--------------------------- MODULE DefaultAllocator --------------------------
(***************************************************************************)
(* DefaultAllocator (daemon_allocators.go): no topology.  The free CPUs    *)
(* are DaemonState.AvailableCPUs, a list of inclusive ranges read at       *)
(* start from the root cgroup's cpuset (newState, daemon_state.go).  A     *)
(* Guaranteed container takes the head of the first range strictly longer *)
(* than its request; freeCpus gives a range back only to a range it ends   *)
(* right before; clearCpus pins the container to every CPU the daemon      *)
(* still accounts for.                                                     *)
(*                                                                         *)
(* The world record gains the field avail; a range is [start, end].  An   *)
(* Allocated entry this allocator writes is a single range, kept as the    *)
(* set of its CPUs, so its v[0] is Min(v)..Max(v).                        *)
(***************************************************************************)
EXTENDS NumaAllocator

CONSTANT RootCpuset   \* the cpuset.cpus of the root cgroup, as the kernel prints it

\* newState: AvailableCPUs are the buckets getValues parses from the root
\* cpuset; newState fails, and the daemon does not start, if it cannot.
CgroupCpus == LoadCpuSetFromString(RootCpuset).buckets

ASSUME ~LoadCpuSetFromString(RootCpuset).err

\* The cpuset takeCpus formats: "s" for one CPU, "s-e" for more.
RangeString(s, e) == IF s = e THEN << Num(s) >> ELSE << Num(s), Ch("-"), Num(e) >>

\* Mutant: takeCpus that appends to an entry a failed assign left behind.
DefaultTakeCpusAppend(c, w) ==
  IF c.qs # "Guaranteed" THEN {Outcome(w, "nil")}
  ELSE LET fits == {i \in DOMAIN w.avail : w.avail[i].end - w.avail[i].start + 1 - c.cpus > 0}
       IN IF fits = {} THEN {Outcome(w, "CpusNotAvailable")}
          ELSE LET i    == Min(fits)
                   cpus == w.avail[i].start..(w.avail[i].start + c.cpus - 1)
                   old  == IF c.cid \in DOMAIN w.allocated THEN w.allocated[c.cid] ELSE {}
                   w2   == [w EXCEPT !.avail[i].start = @ + c.cpus,
                                     !.allocated = (c.cid :> old \cup cpus) @@ @]
               IN {Outcome([w2 EXCEPT !.cgroup = r.cgroup], r.err) : r \in UpdateCPUSet(w.cgroup, c.cid, RangeString(w.avail[i].start, w.avail[i].start + c.cpus - 1), FALSE)}

\* takeCpus: the range is cut and the entry overwritten before the write.
DefaultTakeCpus(c, w) ==
  IF c.qs # "Guaranteed" THEN {Outcome(w, "nil")}
  ELSE LET fits == {i \in DOMAIN w.avail : w.avail[i].end - w.avail[i].start + 1 - c.cpus > 0}
       IN IF fits = {} THEN {Outcome(w, "CpusNotAvailable")}
          ELSE LET i    == Min(fits)
                   cpus == w.avail[i].start..(w.avail[i].start + c.cpus - 1)
                   w2   == [w EXCEPT !.avail[i].start = @ + c.cpus,
                                     !.allocated = (c.cid :> cpus) @@ @]
               IN {Outcome([w2 EXCEPT !.cgroup = r.cgroup], r.err) : r \in UpdateCPUSet(w.cgroup, c.cid, RangeString(w.avail[i].start, w.avail[i].start + c.cpus - 1), FALSE)}

\* Mutant: freeCpus that merges a range into any range it lies before.
DefaultFreeCpusAnyGap(c, w) ==
  IF c.qs # "Guaranteed" THEN {Outcome(w, "nil")}
  ELSE IF c.cid \notin DOMAIN w.allocated THEN {Outcome(w, "ContainerNotFound")}
  ELSE LET v == w.allocated[c.cid]
       IN {Outcome([w EXCEPT !.allocated = Restrict(@, DOMAIN @ \ {c.cid}),
                             !.avail = [i \in DOMAIN @ |-> IF Max(v) < @[i].start - 1
                                                           THEN [@[i] EXCEPT !.start = Min(v)]
                                                           ELSE @[i]]], "nil")}

\* freeCpus: the entry goes, and each range that starts right after v[0]
\* is extended down to v[0]'s start; any other CPUs are not given back.
DefaultFreeCpus(c, w) ==
  IF c.qs # "Guaranteed" THEN {Outcome(w, "nil")}
  ELSE IF c.cid \notin DOMAIN w.allocated THEN {Outcome(w, "ContainerNotFound")}
  ELSE LET v == w.allocated[c.cid]
       IN {Outcome([w EXCEPT !.allocated = Restrict(@, DOMAIN @ \ {c.cid}),
                             !.avail = [i \in DOMAIN @ |-> IF Max(v) = @[i].start - 1
                                                           THEN [@[i] EXCEPT !.start = Min(v)]
                                                           ELSE @[i]]], "nil")}

\* clearCpus: the union of the available ranges and every Allocated entry.
DefaultClearCpus(c, w) ==
  LET all == CPUSetFromBucketList(w.avail) \cup UNION {w.allocated[x] : x \in DOMAIN w.allocated}
  IN {Outcome([w EXCEPT !.cgroup = r.cgroup], r.err) : r \in UpdateCPUSet(w.cgroup, c.cid, ToCpuString(all), FALSE)}

=============================================================================
