-------------------------- MODULE UnknownRegistry --------------------------
(***************************************************************************)
(* flows/src/unknown.rs: one group per shape of unknown traffic, at most     *)
(* MaxGroups of them, least recently heard first out.  A shape (UnknownKey)  *)
(* is a number, in the order UnknownKey derives.                           *)
(***************************************************************************)
EXTENDS Integers, FiniteSets, SequencesExt, FiniteSetsExt, Functions

CONSTANTS
  MaxGroups,        \* UnknownRegistryConfig::max_groups
  SamplesPerGroup,  \* UnknownRegistryConfig::samples_per_group
  EndpointCap,      \* ACCUMULATE_SET_CAP
  Occurrences       \* the unknown occurrences that may be heard of

NoEndpoint == "no endpoint"
MaxU32 == 2147483647   \* stands for u32::MAX: above every size tried

Shapes == {o.key : o \in Occurrences}
Endpoints == {o.endpoint : o \in Occurrences} \ {NoEndpoint}
Samples == {o.sample : o \in Occurrences}

\* The two sizes of UnknownRegistryConfig and the set cap are usize, the length
\* of a packet is a u32, its timestamp an offset into the capture, a score is a
\* Confidence.
ASSUME RegistryAssumption ==
  /\ MaxGroups \in Nat /\ SamplesPerGroup \in Nat /\ EndpointCap \in Nat
  /\ \A o \in Occurrences :
       /\ o.bytes \in 0..MaxU32 /\ o.ts \in Nat
       /\ o.near # <<>> => o.near[1].score \in Nat

EmptyRegistry == [groups |-> <<>>, seqs |-> <<>>, next |-> 0]

\* or_insert_with
NewGroup(key, ts) ==
  [key |-> key, count |-> 0, bytes |-> 0, least |-> MaxU32, most |-> 0,
   first |-> ts, last |-> ts, endpoints |-> <<>>, overflow |-> FALSE,
   near |-> <<>>, samples |-> <<>>]

\* The score of the best near miss of a list; an empty list is below them all.
Top(near) == IF near = <<>> THEN -1 ELSE near[1].score

\* A slip: the first list is kept unless a later one is better.
KeepsNear(old, new) == new # <<>> /\ Top(new) > Top(old)

\* The new list replaces the old when its best is at least as good.
TakesNear(old, new) == new # <<>> /\ Top(new) >= Top(old)

\* What ingest does to the group of an occurrence.
Heard(g, o) ==
  LET fresh == o.endpoint # NoEndpoint /\ ~Contains(g.endpoints, o.endpoint)
      full == Len(g.endpoints) >= EndpointCap
  IN  [g EXCEPT
         !.count = @ + 1,
         !.bytes = @ + o.bytes,
         !.least = Min({@, o.bytes}),
         !.most = Max({@, o.bytes}),
         !.first = Min({@, o.ts}),
         !.last = Max({@, o.ts}),
         !.endpoints = IF fresh /\ ~full THEN Append(@, o.endpoint) ELSE @,
         !.overflow = @ \/ (fresh /\ full),
         !.near = IF TakesNear(@, o.near) THEN o.near ELSE @,
         !.samples = Append(IF Len(@) >= SamplesPerGroup /\ @ # <<>> THEN Tail(@) ELSE @,
                            o.sample)]

\* enforce_max_groups.  An occurrence adds one group at most, so one group at
\* most is over the cap; it may be the one just heard of, when its packet is
\* stamped before every other group's.
Coldest(groups, seqs) ==
  CHOOSE k \in DOMAIN groups : \A j \in DOMAIN groups \ {k} :
    \/ groups[k].last < groups[j].last
    \/ groups[k].last = groups[j].last /\ seqs[k] < seqs[j]

EnforceMaxGroups(r) ==
  IF Cardinality(DOMAIN r.groups) <= MaxGroups THEN r
  ELSE LET kept == DOMAIN r.groups \ {Coldest(r.groups, r.seqs)}
       IN  [r EXCEPT !.groups = Restrict(@, kept), !.seqs = Restrict(@, kept)]

\* A map with an entry inserted or replaced.
Put(map, k, v) == [x \in DOMAIN map \cup {k} |-> IF x = k THEN v ELSE map[x]]

\* UnknownRegistry::ingest
Ingest(r, o) ==
  LET known == o.key \in DOMAIN r.groups
      group == IF known THEN r.groups[o.key] ELSE NewGroup(o.key, o.ts)
  IN  EnforceMaxGroups(
        [groups |-> Put(r.groups, o.key, Heard(group, o)),
         seqs |-> IF known THEN r.seqs ELSE Put(r.seqs, o.key, r.next),
         next |-> IF known THEN r.next ELSE r.next + 1])

\* groups(): the commonest first, then in the order of the keys.
GroupsInOrder(r) ==
  SetToSortSeq(Range(r.groups), LAMBDA g, h :
    g.count > h.count \/ (g.count = h.count /\ g.key < h.key))

-----------------------------------------------------------------------------
(* What a group has to say of the occurrences it stands for.               *)

BytesOf(since) ==
  LET sum[n \in 0..Len(since)] == IF n = 0 THEN 0 ELSE sum[n - 1] + since[n].bytes
  IN  sum[Len(since)]

\* The best list of near misses, the latest of the equally good ones.
BestNear(since) ==
  LET best == Max({Top(o.near) : o \in Range(since)})
      tops == {i \in DOMAIN since : Top(since[i].near) = best}
  IN  IF best = -1 THEN <<>> ELSE since[Max(tops)].near

\* The last ring of samples; a ring of none still keeps one.
LastSamples(since) ==
  LET n == Min({Max({1, SamplesPerGroup}), Len(since)})
  IN  [i \in 1..n |-> since[Len(since) - n + i].sample]

\* The endpoints kept are among those heard of, each once, and all of them
\* unless there are more than the cap and the group says so.
EndpointsTrue(g, named) ==
  /\ \A i, j \in DOMAIN g.endpoints : g.endpoints[i] = g.endpoints[j] => i = j
  /\ Range(g.endpoints) \subseteq named
  /\ Len(g.endpoints) <= EndpointCap
  /\ g.overflow <=> Range(g.endpoints) # named
  /\ g.overflow => Len(g.endpoints) = EndpointCap

GroupTrue(g, since) ==
  LET all == Range(since)
  IN  /\ g.count = Len(since)
      /\ g.bytes = BytesOf(since)
      /\ g.least = Min({o.bytes : o \in all}) /\ g.most = Max({o.bytes : o \in all})
      /\ g.first = Min({o.ts : o \in all}) /\ g.last = Max({o.ts : o \in all})
      /\ EndpointsTrue(g, {o.endpoint : o \in all} \ {NoEndpoint})
      /\ g.near = BestNear(since)
      /\ g.samples = LastSamples(since)
=============================================================================
