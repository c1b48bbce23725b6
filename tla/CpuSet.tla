------------------------------- MODULE CpuSet --------------------------------
(***************************************************************************)
(* The cpuset strings of daemon_cpuset.go: parsing the cgroup cpuset list  *)
(* (LoadCpuSetFromString) and formatting a CPUSet (ToCpuString).           *)
(*                                                                         *)
(* A string is a sequence of tokens: Num(n) stands for the decimal digits  *)
(* of n that strconv.Itoa prints and strconv.Atoi reads; Ch(c) is one of   *)
(* the characters the code and the kernel put between numbers.            *)
(* strconv.Atoi succeeds exactly on a string that is one number token.     *)
(*                                                                         *)
(* The kernel side (the cgroup cpuset files) is given by two reference     *)
(* definitions: the list the kernel prints (maximal runs "a-b" or "a",     *)
(* comma-separated, ended by a newline) and the set a written list         *)
(* denotes.                                                                *)
(***************************************************************************)
EXTENDS Naturals, Sequences, SequencesExt

Num(n) == [ch |-> "digits", val |-> n]

Ch(c) == [ch |-> c, val |-> 0]

IsNum(t) == t.ch = "digits"

\* strings.Split(s, sep): the pieces between consecutive separators (and
\* the ends); Split of the empty string is one empty piece.
Split(s, sep) ==
  LET seps == SetToSortSeq({i \in DOMAIN s : s[i] = Ch(sep)}, <)
      bound(k) == IF k = 0 THEN 0 ELSE IF k > Len(seps) THEN Len(s) + 1 ELSE seps[k]
  IN [k \in 1..(Len(seps) + 1) |-> SubSeq(s, bound(k - 1) + 1, bound(k) - 1)]

\* strings.Trim(s, cutset) with a one-character cutset.
RECURSIVE Trim(_, _)
Trim(s, t) ==
  IF s # << >> /\ Head(s) = Ch(t) THEN Trim(Tail(s), t)
  ELSE IF s # << >> /\ Last(s) = Ch(t) THEN Trim(Front(s), t)
  ELSE s

\* strings.TrimSpace: leading and trailing blanks and newlines.
TrimSpace(s) ==
  LET inner == {i \in DOMAIN s : s[i].ch \notin {" ", "\n"}}
  IN IF inner = {} THEN << >>
     ELSE SubSeq(s, CHOOSE i \in inner : \A j \in inner : i <= j,
                    CHOOSE i \in inner : \A j \in inner : j <= i)

AtoiOk(s) == Len(s) = 1 /\ IsNum(s[1])

\* Mutant: LoadCpuSetFromString that reads only the first id of "a-b".
LoadCpuSetFromStringNoEnd(cpuSet) ==
  LET cStr  == Trim(Trim(cpuSet, " "), "\n")
      items == [k \in DOMAIN Split(cStr, ",") |-> Split(TrimSpace(Split(cStr, ",")[k]), "-")]
  IN IF cStr = << >> THEN [err |-> FALSE, buckets |-> << >>]
     ELSE IF \E k \in DOMAIN items : ~AtoiOk(items[k][1])
     THEN [err |-> TRUE, buckets |-> << >>]
     ELSE [err |-> FALSE,
           buckets |-> [k \in DOMAIN items |-> [start |-> items[k][1][1].val, end |-> items[k][1][1].val]]]

\* LoadCpuSetFromString: "" (after trimming) is the empty list; every
\* comma-separated item is "a" or "a-b" (pieces after the second are
\* ignored), an item Atoi rejects makes the whole parse fail.  The result is
\* the CPUBucket list and whether an error was returned.
LoadCpuSetFromString(cpuSet) ==
  LET cStr  == Trim(Trim(cpuSet, " "), "\n")
      items == [k \in DOMAIN Split(cStr, ",") |-> Split(TrimSpace(Split(cStr, ",")[k]), "-")]
  IN IF cStr = << >> THEN [err |-> FALSE, buckets |-> << >>]
     ELSE IF \E k \in DOMAIN items : ~AtoiOk(items[k][1]) \/ (Len(items[k]) > 1 /\ ~AtoiOk(items[k][2]))
     THEN [err |-> TRUE, buckets |-> << >>]
     ELSE [err |-> FALSE,
           buckets |-> [k \in DOMAIN items |->
                          [start |-> items[k][1][1].val,
                           end   |-> IF Len(items[k]) > 1 THEN items[k][2][1].val ELSE items[k][1][1].val]]]

\* CPUSetFromBucketList: every cpu from StartCPU to EndCPU of each bucket.
CPUSetFromBucketList(buckets) == UNION {buckets[k].start..buckets[k].end : k \in DOMAIN buckets}

\* CPUSetFromString.
CPUSetFromString(cpuSet) ==
  LET b == LoadCpuSetFromString(cpuSet)
  IN [err |-> b.err, cpus |-> CPUSetFromBucketList(b.buckets)]

\* CPUSet.Sorted: the ids in increasing order (sort.Ints).
Sorted(cpus) == SetToSortSeq(cpus, <)

\* ToBucketList: one single-cpu bucket per id, sorted.
ToBucketList(cpus) == LET ids == Sorted(cpus) IN [k \in DOMAIN ids |-> [start |-> ids[k], end |-> ids[k]]]

\* strings.Join of the strconv.Itoa of each id, with ",".
JoinCpus(ids) == [i \in 1..(2 * Len(ids) - 1) |-> IF i % 2 = 1 THEN Num(ids[(i + 1) \div 2]) ELSE Ch(",")]

\* ToCpuString: "" for the empty set, else each sorted id followed by ",",
\* with the last character cut: the sorted ids joined by ",".
ToCpuString(cpus) == JoinCpus(Sorted(cpus))

(***************************************************************************)
(* Reference: the kernel's cpu list format (lib/bitmap.c).                                *)
(***************************************************************************)
\* The maximal runs of consecutive ids of a sorted sequence, as [start, end].
RECURSIVE Runs(_)
Runs(ids) ==
  IF ids = << >> THEN << >>
  ELSE LET n == CHOOSE n \in 1..Len(ids) : /\ \A k \in 1..(n - 1) : ids[k + 1] = ids[k] + 1
                                           /\ (n = Len(ids) \/ ids[n + 1] # ids[n] + 1)
       IN << [start |-> ids[1], end |-> ids[n]] >> \o Runs(SubSeq(ids, n + 1, Len(ids)))

RunText(r) == IF r.start = r.end THEN << Num(r.start) >> ELSE << Num(r.start), Ch("-"), Num(r.end) >>

\* What the kernel prints in cpuset.cpus for the set of cpus.
KernelCpuList(cpus) ==
  LET runs == Runs(Sorted(cpus))
  IN FlattenSeq([k \in DOMAIN runs |-> IF k = 1 THEN RunText(runs[k]) ELSE << Ch(",") >> \o RunText(runs[k])])
     \o << Ch("\n") >>

\* The set of cpus a list written to cpuset.cpus denotes, and whether the
\* kernel rejects the write (bitmap_parselist, EINVAL): commas and blanks
\* around them separate regions, empty regions are skipped, a region is "a"
\* or "a-b" with a <= b.  Blanks inside a region are not modelled.
KernelParse(s) ==
  LET pieces    == {TrimSpace(x) : x \in ToSet(Split(s, ","))} \ {<< >>}
      Single(x) == Len(x) = 1 /\ IsNum(x[1])
      Ranged(x) == Len(x) = 3 /\ IsNum(x[1]) /\ x[2] = Ch("-") /\ IsNum(x[3]) /\ x[1].val <= x[3].val
      good      == {x \in pieces : Single(x) \/ Ranged(x)}
  IN [err |-> good # pieces, cpus |-> UNION {x[1].val..Last(x).val : x \in good}]

=============================================================================
