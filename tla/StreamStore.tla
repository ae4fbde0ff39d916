---------------------------- MODULE StreamStore ----------------------------
(***************************************************************************)
(* The stream aggregator of pktflow-flows (store.rs): the single writer    *)
(* that folds dissected packets into a forest of streams kept in a         *)
(* generational arena, with an eviction policy driven by packet time, two  *)
(* lazy heaps that find the streams to evict, and the condensation of      *)
(* high-cardinality fan-out.                                               *)
(*                                                                         *)
(* ingest() and finish() run to completion on one thread.  Each is split   *)
(* here in the steps of its loops: pc says which loop is running, and the  *)
(* next packet is taken only when pc is back at "idle".                    *)
(*                                                                         *)
(* Data that no guard reads is left out: rollups (a component of its own), *)
(* packet counts beside byte counts, the initiator, display fields, stop   *)
(* classes, the unknown registry.  children and roots are sets: the code   *)
(* appends to them on creation and only ever removes, so their order is    *)
(* the order of seq.                                                       *)
(***************************************************************************)
EXTENDS Integers, Sequences, FiniteSets, Bags, FiniteSetsExt

CONSTANTS
  Protocols,          \* protocol names a layer may carry
  Identity,           \* those whose plugin declares a stream identity
  Lifecycle,          \* those whose identity declares a lifecycle
  Condensable,        \* those whose plugin declares a CondenseSpec
  Packets,            \* the dissected packets the parser may deliver
  KeyHash(_),         \* the digest the lookup index is keyed on
  Live,               \* EvictionPolicy::Live, or else EvictionPolicy::None
  IdleTimeout, CloseLinger, MaxStreams,   \* the fields of that policy
  CondenseThreshold,  \* 0 disables condensation
  MemberCap,          \* CONDENSE_MEMBER_CAP
  LruSlack,           \* the 1024 of compact_lru
  GenerationCount,    \* 2^32 in the code: generations wrap
  MaxPackets, MaxTime,  \* bounds of the model
  MaxRegress          \* how far a timestamp may lie behind the clock

Absent == -1          \* a key field the layer does not carry
Never == -1           \* close_eligible_since: None
NoId == [index |-> 0, generation |-> 0]   \* Option::<StreamId>::None

Directions == {"AtoB", "BtoA"}
StreamIds == [index : Nat, generation : Nat]
Keys == [kind : {"flow", "anchor"}, lo : Nat, hi : Nat]
Layers == [protocol : Protocols, a : Nat \cup {Absent}, b : Nat \cup {Absent}, closes : BOOLEAN]

Streams ==
  [id : StreamIds, protocol : Protocols, key : Keys, parent : StreamIds,
   children : SUBSET StreamIds, lastSeen : Nat, stats : [Directions -> Nat],
   opaque : Nat, eligible : BOOLEAN, since : Nat \cup {Never}, seq : Nat,
   condensed : BOOLEAN, members : Nat, overflow : BOOLEAN, closed : BOOLEAN,
   met : SUBSET Nat]   \* history: the members ever folded into the node, read by no guard

Groups == [expanded : Nat, node : StreamIds, members : SUBSET Nat]
Reasons == {"ProtocolClose", "IdleTimeout", "LruEvicted", "CaptureEnd"}

ASSUME ProtocolAssumption ==
  /\ Identity \subseteq Protocols
  /\ Lifecycle \subseteq Identity
  /\ Condensable \subseteq Identity

ASSUME PacketAssumption ==
  \A p \in Packets : p.layers \in Seq(Layers) /\ p.origlen \in Nat /\ p.opaque \in Nat

ASSUME ConfigAssumption ==
  /\ Live \in BOOLEAN
  /\ IdleTimeout \in Nat /\ CloseLinger \in Nat /\ MaxStreams \in Nat
  /\ CondenseThreshold \in Nat /\ MemberCap \in Nat /\ LruSlack \in Nat
  /\ MaxPackets \in Nat /\ MaxTime \in Nat /\ MaxRegress \in Nat
  /\ GenerationCount \in Nat \ {0}

VARIABLES
  generation,   \* slots[i].generation, one per slot ever used
  streams,      \* slots[i].stream, for the occupied slots only
  free,         \* recyclable slot indices, a stack
  index,        \* the lookup index, one element per (bucket, id)
  roots,        \* ids of the streams without a parent
  expiry, lru,  \* the two lazy heaps, as bags of entries
  liveCount,    \* live_count
  perProtocol,  \* created / live / live bytes per protocol
  totals,       \* Totals
  clock, nextSeq,
  condense,     \* the condense groups, keyed by CondenseKey
  sink,         \* what the sink was given, in order
  pc,           \* the loop that is running
  pkt,          \* ingest's packet: [ts, layers, origlen, opaque]
  todo,         \* its layers not yet folded in
  parent,       \* ingest's `parent` cursor
  finishing     \* finish's `order`, what is left of it

arena == <<generation, streams, free, index, roots>>
heaps == <<expiry, lru>>
counts == <<liveCount, perProtocol, totals, nextSeq>>
vars == <<arena, heaps, counts, clock, condense, sink, pc, pkt, todo, parent, finishing>>

----------------------------------------------------------------------------
(* Lookups and small helpers.                                              *)

\* get(): the slot is occupied and the handle's generation is current.
IsLive(id) == id.index \in DOMAIN streams /\ generation[id.index] = id.generation

Bytes(s) == s.stats["AtoB"] + s.stats["BtoA"]
MinusOrZero(m, n) == IF m >= n THEN m - n ELSE 0   \* saturating_sub

Push(heap, e) == heap (+) SetToBag({e})
Pop(heap, e) == heap (-) SetToBag({e})

ExpiryEntry(at, id) == [at |-> at, id |-> id]
LruEntry(s) == [seen |-> s.lastSeen, seq |-> s.seq, id |-> s.id]

IdLeq(x, y) ==
  x.index < y.index \/ (x.index = y.index /\ x.generation <= y.generation)
\* The heaps' orders: the tuples' lexicographic ones.
ExpiryLeq(x, y) == x.at < y.at \/ (x.at = y.at /\ IdLeq(x.id, y.id))
\* Mutant of LruLeq: the oldest stream, not the least recently updated one.
LruLeqBySeq(x, y) == x.seq < y.seq \/ (x.seq = y.seq /\ x.seen <= y.seen)
LruLeq(x, y) ==
  \/ x.seen < y.seen
  \/ x.seen = y.seen /\ x.seq < y.seq
  \/ x.seen = y.seen /\ x.seq = y.seq /\ IdLeq(x.id, y.id)

ExpiryTop == CHOOSE e \in BagToSet(expiry) : \A f \in BagToSet(expiry) : ExpiryLeq(e, f)
LruTop == CHOOSE e \in BagToSet(lru) : \A f \in BagToSet(lru) : LruLeq(e, f)

\* deadline_of(), under the Live policy.
Deadline(s) ==
  LET idle == s.lastSeen + IdleTimeout
      linger == s.since + CloseLinger
  IN  IF s.since # Never /\ linger < idle THEN linger ELSE idle

----------------------------------------------------------------------------
(* flow_key and the condense candidates of a layer.                        *)

\* flow_key fails when a key field is absent.
HasKey(lay) == lay.a # Absent /\ lay.b # Absent

\* Canonicalize::EndpointSort: the two sides in the order of their encodings.
FlowKey(lay) ==
  IF lay.a <= lay.b THEN [kind |-> "flow", lo |-> lay.a, hi |-> lay.b]
                    ELSE [kind |-> "flow", lo |-> lay.b, hi |-> lay.a]
Direction(lay) == IF lay.a <= lay.b THEN "AtoB" ELSE "BtoA"

\* Mutant of AnchorKey: no sentinel keeps the node apart from a self-talk flow.
AnchorKeyPlain(v) == [kind |-> "flow", lo |-> v, hi |-> v]
\* The synthesized key of a condensed node: the sentinel, then the anchor.
AnchorKey(v) == [kind |-> "anchor", lo |-> v, hi |-> v]

\* The flow's anchors in the order they are tried; self-talk has one.
Candidates(lay) ==
  LET first  == [anchor |-> lay.a, varying |-> lay.b, dir |-> "AtoB"]
      second == [anchor |-> lay.b, varying |-> lay.a, dir |-> "BtoA"]
  IN  IF lay.a = lay.b THEN <<first>> ELSE <<first, second>>

GroupKey(par, proto, v) == [parent |-> par, protocol |-> proto, anchor |-> v]
EmptyGroup == [expanded |-> 0, node |-> NoId, members |-> {}]

\* Does the anchor's group fold new flows?
Triggered(par, proto, v) ==
  LET k == GroupKey(par, proto, v)
  IN  /\ k \in DOMAIN condense
      /\ condense[k].node # NoId \/ condense[k].expanded >= CondenseThreshold

Condenses(proto) == proto \in Condensable /\ CondenseThreshold > 0

\* The first candidate of the layer whose group is triggered, as a set.
Folding(lay) ==
  LET c == Candidates(lay)
      hit == {i \in 1..Len(c) : Triggered(parent, lay.protocol, c[i].anchor)}
  IN  IF Condenses(lay.protocol)
        THEN {c[i] : i \in {j \in hit : \A k \in hit : j <= k}}
        ELSE {}

\* get_or_insert tallies an expanded flow toward both its anchors.
Tallied(lay) ==
  LET ks == {GroupKey(parent, lay.protocol, v) : v \in {lay.a, lay.b}}
  IN  IF Condenses(lay.protocol)
        THEN [k \in DOMAIN condense \cup ks |->
                LET g == IF k \in DOMAIN condense THEN condense[k] ELSE EmptyGroup
                IN  IF k \in ks THEN [g EXCEPT !.expanded = @ + 1] ELSE g]
        ELSE condense

\* Mutant of CondenseEvict: the group survives the eviction of its node.
CondenseEvictKeepsNode(s) ==
  LET ks == {GroupKey(s.parent, s.protocol, v) : v \in {s.key.lo, s.key.hi}}
      less(k) == MinusOrZero(condense[k].expanded, 1)
      gone == {k \in ks \cap DOMAIN condense : less(k) = 0 /\ condense[k].node = NoId}
  IN  IF ~Condenses(s.protocol) THEN condense
      ELSE [k \in DOMAIN condense \ gone |->
              IF k \in ks /\ ~s.condensed
                THEN [condense[k] EXCEPT !.expanded = less(k)] ELSE condense[k]]
\* condense_evict(): what the eviction of s leaves of the groups.
CondenseEvict(s) ==
  LET ks == {GroupKey(s.parent, s.protocol, v) : v \in {s.key.lo, s.key.hi}}
      less(k) == MinusOrZero(condense[k].expanded, 1)
      gone == IF s.condensed THEN ks
              ELSE {k \in ks \cap DOMAIN condense : less(k) = 0 /\ condense[k].node = NoId}
  IN  IF ~Condenses(s.protocol) THEN condense
      ELSE [k \in DOMAIN condense \ gone |->
              IF k \in ks THEN [condense[k] EXCEPT !.expanded = less(k)] ELSE condense[k]]

----------------------------------------------------------------------------
(* Creating a stream.                                                      *)

\* The slot create_stream_raw takes: the top of the free stack, or a new one.
FreshIndex == IF free # <<>> THEN free[Len(free)] ELSE Len(generation) + 1
FreshId ==
  [index |-> FreshIndex,
   generation |-> IF free # <<>> THEN generation[FreshIndex] ELSE 0]

NewStream(proto, key, isNode) ==
  [id |-> FreshId, protocol |-> proto, key |-> key, parent |-> parent, children |-> {},
   lastSeen |-> pkt.ts, stats |-> [d \in Directions |-> 0], opaque |-> 0,
   eligible |-> FALSE, since |-> Never, seq |-> nextSeq,
   condensed |-> isNode, members |-> 0, overflow |-> FALSE, closed |-> FALSE, met |-> {}]

\* What ingest does to the record of a stream the layer belongs to.
HasLifecycle(s) == s.protocol \in Lifecycle /\ ~s.condensed
Enters(s, lay) == HasLifecycle(s) /\ lay.closes /\ ~s.eligible
Eligible(s, lay) == IF HasLifecycle(s) THEN lay.closes ELSE s.eligible
Since(s, lay) ==
  IF Enters(s, lay) THEN pkt.ts
  ELSE IF HasLifecycle(s) /\ ~lay.closes THEN Never ELSE s.since
\* Mutant of AddStats: the last packet replaces the sum.
AddStatsLast(s, dir) == [s.stats EXCEPT ![dir] = pkt.origlen]
AddStats(s, dir) == [s.stats EXCEPT ![dir] = @ + pkt.origlen]
Touched(s, lay, dir) ==
  [s EXCEPT !.lastSeen = pkt.ts, !.stats = AddStats(s, dir),
            !.eligible = Eligible(s, lay), !.since = Since(s, lay)]

\* The linger deadline is armed when the closed state is entered.
ArmLinger(heap, s, lay) ==
  IF Live /\ Enters(s, lay) THEN Push(heap, ExpiryEntry(pkt.ts + CloseLinger, s.id)) ELSE heap

\* create_stream_raw: slot, index, hierarchy and heap entries of the new
\* stream `fresh`, whose record is `s` once the layer has been folded in.
Create(fresh, s, lay) ==
  LET id == fresh.id
      linked == IsLive(parent)
  IN  /\ generation' = IF free # <<>> THEN generation ELSE Append(generation, 0)
      /\ free' = IF free # <<>> THEN SubSeq(free, 1, Len(free) - 1) ELSE free
      /\ streams' = [i \in DOMAIN streams \cup {id.index} |->
                       IF i = id.index THEN s
                       ELSE IF linked /\ i = parent.index
                         THEN [streams[i] EXCEPT !.children = @ \cup {id}]
                         ELSE streams[i]]
      /\ index' = index \cup
           {[parent |-> parent, protocol |-> s.protocol, hash |-> KeyHash(s.key), id |-> id]}
      /\ roots' = IF linked THEN roots ELSE roots \cup {id}
      /\ expiry' = IF Live
                     THEN ArmLinger(Push(expiry, ExpiryEntry(pkt.ts + IdleTimeout, id)), fresh, lay)
                     ELSE expiry
      /\ lru' = IF Live THEN Push(lru, LruEntry(fresh)) ELSE lru
      /\ liveCount' = liveCount + 1
      /\ nextSeq' = nextSeq + 1

----------------------------------------------------------------------------
(* Evicting a stream.                                                      *)

\* The parent of an evicted stream may be a leaf now: it is armed again in
\* both heaps.  s is the parent's record, its children already updated.
RearmExpiry(heap, s) == Push(heap, ExpiryEntry(Deadline(s), s.id))
RearmLru(heap, s) == Push(heap, LruEntry(s))

ClosedCopy(s) == [s EXCEPT !.closed = TRUE]

\* Mutant of Uncounted: the evicted bytes stay in the live counter.
UncountedBytesStay(c, s) ==
  [ever |-> c.ever, live |-> MinusOrZero(c.live, 1), bytes |-> c.bytes]
Uncounted(c, s) ==
  [ever |-> c.ever, live |-> MinusOrZero(c.live, 1), bytes |-> MinusOrZero(c.bytes, Bytes(s))]

\* evict(id, reason), the heaps being exp and cand when it is called.
Evict(id, reason, exp, cand) ==
  LET s == streams[id.index]
      linked == s.parent # NoId /\ IsLive(s.parent)
      up == [streams[s.parent.index] EXCEPT !.children = @ \ {id}]
  IN  /\ generation' = [generation EXCEPT ![id.index] = (@ + 1) % GenerationCount]
      /\ free' = Append(free, id.index)
      /\ streams' = [i \in DOMAIN streams \ {id.index} |->
                       IF linked /\ i = s.parent.index THEN up ELSE streams[i]]
      /\ index' = {e \in index : ~ /\ e.parent = s.parent
                                   /\ e.protocol = s.protocol
                                   /\ e.hash = KeyHash(s.key)
                                   /\ e.id = id}
      /\ roots' = IF s.parent = NoId THEN roots \ {id} ELSE roots
      /\ expiry' = IF linked THEN RearmExpiry(exp, up) ELSE exp
      /\ lru' = IF linked THEN RearmLru(cand, up) ELSE cand
      /\ liveCount' = liveCount - 1
      /\ perProtocol' = [perProtocol EXCEPT ![s.protocol] = Uncounted(@, s)]
      /\ condense' = CondenseEvict(s)
      /\ sink' = Append(sink, [stream |-> ClosedCopy(s), reason |-> reason])
      /\ UNCHANGED <<totals, nextSeq>>

----------------------------------------------------------------------------
(* ingest: the packet's clock and totals, then the loops below in order.   *)

Ingest(p, ts) ==
  /\ pc = "idle"
  /\ totals.packets < MaxPackets
  /\ pkt' = [ts |-> ts, layers |-> p.layers, origlen |-> p.origlen, opaque |-> p.opaque]
  /\ clock' = IF ts > clock THEN ts ELSE clock
  /\ totals' = [totals EXCEPT !.packets = @ + 1, !.bytes = @ + p.origlen]
  /\ pc' = "sweep"
  /\ todo' = p.layers
  /\ parent' = NoId
  /\ UNCHANGED <<arena, heaps, liveCount, perProtocol, nextSeq, condense, sink, finishing>>

\* Mutant of Due: an entry due exactly now waits.
DueLater == Live /\ expiry # EmptyBag /\ ExpiryTop.at < clock
\* sweep(): the entries that are due, one at a time.
Due == Live /\ expiry # EmptyBag /\ ExpiryTop.at <= clock

CloseReason(s) ==
  IF s.since # Never /\ s.since + CloseLinger <= clock THEN "ProtocolClose" ELSE "IdleTimeout"

\* Mutant of IsLeaf: parents are evicted under their children.
IsLeafAlways(s) == TRUE
\* Only a leaf is evicted; a parent waits for its last child's eviction.
IsLeaf(s) == s.children = {}

SweepDrop ==
  LET top == ExpiryTop
  IN  /\ pc = "sweep" /\ Due
      /\ IsLive(top.id) => /\ Deadline(streams[top.id.index]) <= clock
                           /\ ~IsLeaf(streams[top.id.index])
      /\ expiry' = Pop(expiry, top)
      /\ UNCHANGED <<arena, lru, counts, clock, condense, sink, pc, pkt, todo, parent, finishing>>

\* Mutant of SweepRepush: the stale deadline is pushed back.
SweepRepushStale ==
  LET top == ExpiryTop
  IN  /\ pc = "sweep" /\ Due
      /\ IsLive(top.id)
      /\ Deadline(streams[top.id.index]) > clock
      /\ expiry' = Push(Pop(expiry, top), ExpiryEntry(top.at, top.id))
      /\ UNCHANGED <<arena, lru, counts, clock, condense, sink, pc, pkt, todo, parent, finishing>>

SweepRepush ==
  LET top == ExpiryTop
      actual == Deadline(streams[top.id.index])
  IN  /\ pc = "sweep" /\ Due
      /\ IsLive(top.id)
      /\ actual > clock
      /\ expiry' = Push(Pop(expiry, top), ExpiryEntry(actual, top.id))
      /\ UNCHANGED <<arena, lru, counts, clock, condense, sink, pc, pkt, todo, parent, finishing>>

SweepEvict ==
  LET top == ExpiryTop
      s == streams[top.id.index]
  IN  /\ pc = "sweep" /\ Due
      /\ IsLive(top.id)
      /\ Deadline(s) <= clock
      /\ IsLeaf(s)
      /\ Evict(top.id, CloseReason(s), Pop(expiry, top), lru)
      /\ UNCHANGED <<clock, pc, pkt, todo, parent, finishing>>

\* compact_lru(): rebuilds an oversized heap from the current leaves.
CompactedLru ==
  IF BagCardinality(lru) <= 2 * liveCount + LruSlack THEN lru
  ELSE SetToBag({LruEntry(streams[i]) : i \in {j \in DOMAIN streams : IsLeaf(streams[j])}})

SweepDone ==
  /\ pc = "sweep" /\ ~Due
  /\ lru' = CompactedLru
  /\ pc' = "layers"
  /\ UNCHANGED <<arena, expiry, counts, clock, condense, sink, pkt, todo, parent, finishing>>

----------------------------------------------------------------------------
(* The layers of the packet, outermost first.                              *)

\* The index lookup: a live stream of the bucket that has the key itself.
Found(proto, key) ==
  {id \in {e.id : e \in {f \in index : /\ f.parent = parent
                                       /\ f.protocol = proto
                                       /\ f.hash = KeyHash(key)}} :
     IsLive(id) /\ streams[id.index].key = key}

\* The protocol's counters after the layer: flows and streams it added.
CountLayer(p, flows, live) ==
  [perProtocol EXCEPT ![p] = [ever |-> @.ever + flows, live |-> @.live + live,
                              bytes |-> @.bytes + pkt.origlen]]

\* A layer without a plugin or an identity forms no stream.
SkipLayer ==
  /\ pc = "layers" /\ todo # <<>>
  /\ Head(todo).protocol \notin Identity
  /\ todo' = Tail(todo)
  /\ UNCHANGED <<arena, heaps, counts, clock, condense, sink, pc, pkt, parent, finishing>>

\* A key error skips the layer; inner layers attach to the same parent.
KeyErrorLayer ==
  /\ pc = "layers" /\ todo # <<>>
  /\ Head(todo).protocol \in Identity /\ ~HasKey(Head(todo))
  /\ totals' = [totals EXCEPT !.keyErrors = @ + 1]
  /\ todo' = Tail(todo)
  /\ UNCHANGED <<arena, heaps, liveCount, perProtocol, nextSeq, clock, condense, sink,
                 pc, pkt, parent, finishing>>

Folds(lay) == lay.protocol \in Identity /\ HasKey(lay)

\* The index has the flow.
HitLayer ==
  LET lay == Head(todo)
      id == CHOOSE x \in Found(lay.protocol, FlowKey(lay)) : TRUE
      s == streams[id.index]
  IN  /\ pc = "layers" /\ todo # <<>> /\ Folds(lay)
      /\ Found(lay.protocol, FlowKey(lay)) # {}
      /\ streams' = [streams EXCEPT ![id.index] = Touched(s, lay, Direction(lay))]
      /\ expiry' = ArmLinger(expiry, s, lay)
      /\ perProtocol' = CountLayer(lay.protocol, 0, 0)
      /\ todo' = Tail(todo)
      /\ parent' = id
      /\ UNCHANGED <<generation, free, index, roots, lru, liveCount, totals, nextSeq, clock,
                     condense, sink, pc, pkt, finishing>>

\* A miss that folds into no group: an ordinary expanded stream.
CreateLayer ==
  LET lay == Head(todo)
      fresh == NewStream(lay.protocol, FlowKey(lay), FALSE)
  IN  /\ pc = "layers" /\ todo # <<>> /\ Folds(lay)
      /\ Found(lay.protocol, FlowKey(lay)) = {}
      /\ Folding(lay) = {}
      /\ Create(fresh, Touched(fresh, lay, Direction(lay)), lay)
      /\ perProtocol' = CountLayer(lay.protocol, 1, 1)
      /\ totals' = [totals EXCEPT !.created = @ + 1]
      /\ condense' = Tallied(lay)
      /\ todo' = Tail(todo)
      /\ parent' = fresh.id
      /\ UNCHANGED <<clock, sink, pc, pkt, finishing>>

\* Membership of the varying side in a group, bounded by MemberCap.
NewMember(g, c) == Cardinality(g.members) < MemberCap /\ c.varying \notin g.members
\* Mutant of Overflows: a member that no longer fits is dropped silently.
OverflowsNever(g, c) == FALSE
Overflows(g, c) == Cardinality(g.members) >= MemberCap /\ c.varying \notin g.members
MemberCount(g, c) == IF NewMember(g, c) THEN 1 ELSE 0
Joined(s, g, c) ==
  [s EXCEPT !.members = @ + MemberCount(g, c), !.overflow = @ \/ Overflows(g, c),
            !.met = @ \cup {c.varying}]
\* Mutant of CountMember: the first member of a node counts twice.
CountMemberTwice(g, c) ==
  [totals EXCEPT !.created = @ + MemberCount(g, c) + (IF g.members = {} THEN 1 ELSE 0),
                 !.condensed = @ + MemberCount(g, c)]
CountMember(g, c) ==
  [totals EXCEPT !.created = @ + MemberCount(g, c), !.condensed = @ + MemberCount(g, c)]
Grown(g, c, id) ==
  [expanded |-> g.expanded, node |-> id,
   members |-> IF NewMember(g, c) THEN g.members \cup {c.varying} ELSE g.members]

\* condense_fold into the group's node.
FoldLayer(c) ==
  LET lay == Head(todo)
      k == GroupKey(parent, lay.protocol, c.anchor)
      g == condense[k]
      s == streams[g.node.index]
  IN  /\ pc = "layers" /\ todo # <<>> /\ Folds(lay)
      /\ Found(lay.protocol, FlowKey(lay)) = {}
      /\ c \in Folding(lay)
      /\ IsLive(g.node)
      /\ streams' = [streams EXCEPT ![g.node.index] = Touched(Joined(s, g, c), lay, c.dir)]
      /\ condense' = [condense EXCEPT ![k] = Grown(g, c, g.node)]
      /\ perProtocol' = CountLayer(lay.protocol, MemberCount(g, c), 0)
      /\ totals' = CountMember(g, c)
      /\ todo' = Tail(todo)
      /\ parent' = g.node
      /\ UNCHANGED <<generation, free, index, roots, heaps, liveCount, nextSeq, clock, sink,
                     pc, pkt, finishing>>

\* condense_fold when the group has no node yet: the node is created, and
\* counts as live but not as a created flow.
FoldNewNode(c) ==
  LET lay == Head(todo)
      k == GroupKey(parent, lay.protocol, c.anchor)
      g == condense[k]
      fresh == NewStream(lay.protocol, AnchorKey(c.anchor), TRUE)
  IN  /\ pc = "layers" /\ todo # <<>> /\ Folds(lay)
      /\ Found(lay.protocol, FlowKey(lay)) = {}
      /\ c \in Folding(lay)
      /\ ~IsLive(g.node)
      /\ Create(fresh, Touched(Joined(fresh, g, c), lay, c.dir), lay)
      /\ condense' = [condense EXCEPT ![k] = Grown(g, c, fresh.id)]
      /\ perProtocol' = CountLayer(lay.protocol, MemberCount(g, c), 1)
      /\ totals' = CountMember(g, c)
      /\ todo' = Tail(todo)
      /\ parent' = fresh.id
      /\ UNCHANGED <<clock, sink, pc, pkt, finishing>>

WithOpaque(s) == [s EXCEPT !.opaque = @ + pkt.opaque]

\* The unparsed payload lands on the innermost stream.
LayersDone ==
  /\ pc = "layers" /\ todo = <<>>
  /\ streams' = IF IsLive(parent)
                  THEN [streams EXCEPT ![parent.index] = WithOpaque(@)]
                  ELSE streams
  /\ pc' = "enforce"
  /\ UNCHANGED <<generation, free, index, roots, heaps, counts, clock, condense, sink, pkt,
                 todo, parent, finishing>>

----------------------------------------------------------------------------
(* enforce_max_streams(): the hard cap, one heap entry at a time.          *)

\* Mutant of OverCap: one stream too many is tolerated.
OverCapLate == Live /\ liveCount > MaxStreams + 1 /\ lru # EmptyBag
OverCap == Live /\ liveCount > MaxStreams /\ lru # EmptyBag

EnforceDrop ==
  LET top == LruTop
  IN  /\ pc = "enforce" /\ OverCap
      /\ IsLive(top.id) => ~IsLeaf(streams[top.id.index])
      /\ lru' = Pop(lru, top)
      /\ UNCHANGED <<arena, expiry, counts, clock, condense, sink, pc, pkt, todo, parent, finishing>>

EnforceRepush ==
  LET top == LruTop
      s == streams[top.id.index]
  IN  /\ pc = "enforce" /\ OverCap
      /\ IsLive(top.id) /\ IsLeaf(s)
      /\ <<s.lastSeen, s.seq>> # <<top.seen, top.seq>>
      /\ lru' = Push(Pop(lru, top), LruEntry(s))
      /\ UNCHANGED <<arena, expiry, counts, clock, condense, sink, pc, pkt, todo, parent, finishing>>

EnforceEvict ==
  LET top == LruTop
      s == streams[top.id.index]
  IN  /\ pc = "enforce" /\ OverCap
      /\ IsLive(top.id) /\ IsLeaf(s)
      /\ <<s.lastSeen, s.seq>> = <<top.seen, top.seq>>
      /\ Evict(top.id, "LruEvicted", expiry, Pop(lru, top))
      /\ UNCHANGED <<clock, pc, pkt, todo, parent, finishing>>

EnforceDone ==
  /\ pc = "enforce" /\ ~OverCap
  /\ pc' = "idle"
  /\ UNCHANGED <<arena, heaps, counts, clock, condense, sink, pkt, todo, parent, finishing>>

----------------------------------------------------------------------------
(* finish(): every remaining stream closes, deeper ones first.             *)

Depth ==
  LET d[i \in DOMAIN streams] ==
        IF streams[i].parent = NoId THEN 0 ELSE 1 + d[streams[i].parent.index]
  IN  d

\* Mutant of Finish: only the streams without children are listed.
FinishLeaves ==
  /\ pc = "idle"
  /\ pc' = "finish"
  /\ finishing' = {[depth |-> Depth[i], seq |-> streams[i].seq, id |-> streams[i].id] :
                     i \in {j \in DOMAIN streams : IsLeaf(streams[j])}}
  /\ UNCHANGED <<arena, heaps, counts, clock, condense, sink, pkt, todo, parent>>
Finish ==
  /\ pc = "idle"
  /\ pc' = "finish"
  /\ finishing' = {[depth |-> Depth[i], seq |-> streams[i].seq, id |-> streams[i].id] :
                     i \in DOMAIN streams}
  /\ UNCHANGED <<arena, heaps, counts, clock, condense, sink, pkt, todo, parent>>

\* Mutant of FinishBefore: creation order alone, parents first.
FinishBeforeBySeq(x, y) == x.seq <= y.seq
\* The order of `order`: Reverse(depth), then created_seq.
FinishBefore(x, y) == x.depth > y.depth \/ (x.depth = y.depth /\ x.seq <= y.seq)
NextToClose == CHOOSE x \in finishing : \A y \in finishing : FinishBefore(x, y)

FinishEvict ==
  /\ pc = "finish" /\ finishing # {} /\ Live
  /\ IsLive(NextToClose.id)
  /\ finishing' = finishing \ {NextToClose}
  /\ Evict(NextToClose.id, "CaptureEnd", expiry, lru)
  /\ UNCHANGED <<clock, pc, pkt, todo, parent>>

\* EvictionPolicy::None keeps the closed stream for the final report.
FinishRetain ==
  LET i == NextToClose.id.index
  IN  /\ pc = "finish" /\ finishing # {} /\ ~Live
      /\ IsLive(NextToClose.id)
      /\ finishing' = finishing \ {NextToClose}
      /\ streams' = [streams EXCEPT ![i] = ClosedCopy(@)]
      /\ sink' = Append(sink, [stream |-> streams'[i], reason |-> "CaptureEnd"])
      /\ UNCHANGED <<generation, free, index, roots, heaps, counts, clock, condense,
                     pc, pkt, todo, parent>>

FinishDone ==
  /\ pc = "finish" /\ finishing = {}
  /\ pc' = "done"
  /\ UNCHANGED <<arena, heaps, counts, clock, condense, sink, pkt, todo, parent, finishing>>

----------------------------------------------------------------------------
Init ==
  /\ generation = <<>> /\ streams = <<>> /\ free = <<>> /\ index = {} /\ roots = {}
  /\ expiry = EmptyBag /\ lru = EmptyBag
  /\ liveCount = 0 /\ nextSeq = 0
  /\ perProtocol = [p \in Protocols |-> [ever |-> 0, live |-> 0, bytes |-> 0]]
  /\ totals = [packets |-> 0, bytes |-> 0, created |-> 0, condensed |-> 0, keyErrors |-> 0]
  /\ clock = 0 /\ condense = <<>> /\ sink = <<>>
  /\ pc = "idle"
  /\ pkt = [ts |-> 0, layers |-> <<>>, origlen |-> 0, opaque |-> 0]
  /\ todo = <<>> /\ parent = NoId /\ finishing = {}

Sweep == SweepDrop \/ SweepRepush \/ SweepEvict \/ SweepDone
FoldAny == \E c \in Folding(Head(todo)) : FoldLayer(c) \/ FoldNewNode(c)
Layer == SkipLayer \/ KeyErrorLayer \/ HitLayer \/ CreateLayer \/ (todo # <<>> /\ FoldAny)
Enforce == EnforceDrop \/ EnforceRepush \/ EnforceEvict \/ EnforceDone
Finishing == FinishEvict \/ FinishRetain \/ FinishDone

\* A capture delivers packets whose timestamps may run behind the clock.
Arrive == \E p \in Packets, ts \in 0..MaxTime : ts + MaxRegress >= clock /\ Ingest(p, ts)

\* The steps of a call that is running.
Step == Sweep \/ Layer \/ LayersDone \/ Enforce \/ Finishing
\* After finish() the pipeline drops the store.
Closed == pc = "done" /\ UNCHANGED vars
Next == Arrive \/ Finish \/ Step \/ Closed

Spec == Init /\ [][Next]_vars
\* The thread that runs a call keeps running it.
FairSpec == Spec /\ WF_vars(Step)

----------------------------------------------------------------------------
(* Properties.                                                             *)

SlotsType ==
  /\ generation \in Seq(Nat)
  /\ free \in Seq(1..Len(generation))
StreamsType ==
  /\ DOMAIN streams \subseteq 1..Len(generation)
  /\ \A i \in DOMAIN streams : streams[i] \in Streams
  /\ roots \subseteq StreamIds
  /\ \A e \in index : e.parent \in StreamIds /\ e.protocol \in Protocols /\ e.id \in StreamIds
IsExpiryHeap(h) == IsABag(h) /\ BagToSet(h) \subseteq [at : Nat, id : StreamIds]
IsLruHeap(h) == IsABag(h) /\ BagToSet(h) \subseteq [seen : Nat, seq : Nat, id : StreamIds]
HeapsType == IsExpiryHeap(expiry) /\ IsLruHeap(lru)
CountsType ==
  /\ liveCount \in Int /\ nextSeq \in Nat /\ clock \in Nat
  /\ perProtocol \in [Protocols -> [ever : Nat, live : Nat, bytes : Nat]]
  /\ totals \in [packets : Nat, bytes : Nat, created : Nat, condensed : Nat, keyErrors : Nat]
GroupsType == \A k \in DOMAIN condense : condense[k] \in Groups
CallType ==
  /\ pc \in {"idle", "sweep", "layers", "enforce", "finish", "done"}
  /\ pkt \in [ts : Nat, layers : Seq(Layers), origlen : Nat, opaque : Nat]
  /\ todo \in Seq(Layers) /\ parent \in StreamIds

\* Every variable has its type; the occupied slots and the free ones exist.
TypeOK ==
  SlotsType /\ StreamsType /\ HeapsType /\ CountsType /\ GroupsType /\ CallType

HandlesCurrent ==
  \A i \in DOMAIN streams : streams[i].id = [index |-> i, generation |-> generation[i]]
ParentsLive ==
  \A i \in DOMAIN streams :
    LET s == streams[i]
    IN  s.parent # NoId => /\ IsLive(s.parent)
                           /\ s.id \in streams[s.parent.index].children
                           /\ streams[s.parent.index].seq < s.seq
ChildrenLive ==
  \A i \in DOMAIN streams : \A c \in streams[i].children :
    IsLive(c) /\ streams[c.index].parent = streams[i].id
RootsExact ==
  /\ \A i \in DOMAIN streams : streams[i].id \in roots <=> streams[i].parent = NoId
  /\ \A r \in roots : IsLive(r)

\* The arena is a forest of live streams: a stream's handle is current, its
\* parent is live and older and lists it, every listed child is live and names
\* its parent, and exactly the parentless streams are roots.  This is what
\* leaf-first eviction and slot recycling must keep (evict, create_stream_raw).
Forest == HandlesCurrent /\ ParentsLive /\ ChildrenLive /\ RootsExact

\* A free slot is unoccupied and listed once: no slot is handed out twice
\* (evict pushes the slot, create_stream_raw pops it).
FreeSlotsExact ==
  /\ \A k \in 1..Len(free) : free[k] \in (1..Len(generation)) \ DOMAIN streams
  /\ \A j, k \in 1..Len(free) : free[j] = free[k] => j = k
  /\ \A i \in (1..Len(generation)) \ DOMAIN streams : \E k \in 1..Len(free) : free[k] = i

\* The index finds every live stream and nothing else, even when digests
\* collide, and no two live streams are the same conversation under the same
\* parent (D10: unique per parent + protocol + key).
IndexExact ==
  /\ index = {[parent |-> streams[i].parent, protocol |-> streams[i].protocol,
               hash |-> KeyHash(streams[i].key), id |-> streams[i].id] : i \in DOMAIN streams}
  /\ \A i, j \in DOMAIN streams :
       /\ streams[i].parent = streams[j].parent
       /\ streams[i].protocol = streams[j].protocol
       /\ streams[i].key = streams[j].key
       => i = j

\* Every leaf is an LRU candidate: the lazy heap never loses the last entry
\* of a stream that could be evicted (enforce_max_streams discards dead and
\* non-leaf entries, evict re-arms, compact_lru rebuilds).
LeavesAreCandidates ==
  Live => \A i \in DOMAIN streams :
            IsLeaf(streams[i]) => \E e \in BagToSet(lru) : e.id = streams[i].id

LiveSet == {streams[i] : i \in DOMAIN streams}
SinkSet == {sink[k].stream : k \in 1..Len(sink)}

\* The counters summary() reads without a scan equal what a scan would find
\* (12.1): live streams and live bytes per protocol, across create, ingest,
\* fold and evict.
CountersExact ==
  /\ liveCount = Cardinality(DOMAIN streams)
  /\ \A p \in Protocols :
       LET mine == {s \in LiveSet : s.protocol = p}
       IN  /\ perProtocol[p].live = Cardinality(mine)
           /\ perProtocol[p].bytes = MapThenSumSet(Bytes, mine)

\* Streams ever created are the flows plus the members of nodes, and a node is
\* not a flow: the totals and the per-protocol counts add up over every stream
\* that is live or was given to the sink (create_stream_raw, condense_fold).
CreatedExact ==
  LET all == LiveSet \cup SinkSet
      members(s) == s.members
      flows(S) == Cardinality({s \in S : ~s.condensed}) + MapThenSumSet(members, S)
  IN  /\ totals.created = flows(all) /\ totals.condensed = MapThenSumSet(members, all)
      /\ \A p \in Protocols : perProtocol[p].ever = flows({s \in all : s.protocol = p})

\* Between packets, every captured byte is in exactly one root stream, live
\* or already given to the sink: eviction and recreation lose and duplicate
\* nothing.  (Every packet of the instance has a layer that forms a stream.)
BytesConserved ==
  pc = "idle" =>
    totals.bytes = MapThenSumSet(Bytes, {s \in LiveSet \cup SinkSet : s.parent = NoId})

\* A handle names one stream for ever: a recycled slot has a new generation,
\* so neither a live stream nor a condense group answers to an old handle.
HandlesUnique ==
  /\ \A s, t \in LiveSet \cup SinkSet : s.id = t.id => s.seq = t.seq
  /\ \A k \in DOMAIN condense : condense[k].node # NoId => IsLive(condense[k].node)

\* What the sink was given is the history of the store: no stream twice, every
\* child before its parent, and once finish() has returned every stream that
\* was ever created, whether evicted before or closed at the end.
SinkOrdered ==
  /\ \A j, k \in 1..Len(sink) :
       j < k => /\ sink[j].stream.seq # sink[k].stream.seq
                /\ sink[j].stream.id # sink[k].stream.parent
  /\ pc = "done" => \A q \in 0..(nextSeq - 1) : \E k \in 1..Len(sink) : sink[k].stream.seq = q

\* A node and the member set of its group, against all that were folded into
\* the node: the set is all of them and the flag is down, or the set is
\* MemberCap of them, at least one more came by and the flag is up.
MembersTrue(n, members) ==
  /\ n.members = Cardinality(members) /\ n.members <= MemberCap
  /\ members \subseteq n.met
  /\ IF n.overflow THEN n.members = MemberCap /\ members # n.met ELSE members = n.met

\* The live expanded flows of the group's anchor.
FlowsOf(k) ==
  {i \in DOMAIN streams : /\ ~streams[i].condensed
                          /\ streams[i].parent = k.parent /\ streams[i].protocol = k.protocol
                          /\ k.anchor \in {streams[i].key.lo, streams[i].key.hi}}

\* A condense group's node stands for its anchor and counts exactly who was
\* folded into it until a member no longer fits, which sets the overflow flag
\* and nothing else does; and the group tallies no expanded flow that is gone
\* (condense_fold, condense_evict).
MembersExact ==
  \A k \in DOMAIN condense :
    LET g == condense[k]
        n == streams[g.node.index]
    IN  /\ g.node # NoId => /\ n.condensed /\ n.key = AnchorKey(k.anchor)
                            /\ MembersTrue(n, g.members)
        /\ g.expanded <= Cardinality(FlowsOf(k))

\* The hard cap: between two packets at most MaxStreams streams are live.
CapHolds == Live /\ pc = "idle" => liveCount <= MaxStreams

\* When sweep() returns no leaf is overdue.
SweepComplete ==
  Live /\ MaxRegress = 0 /\ pc = "layers" /\ todo = pkt.layers =>
    \A i \in DOMAIN streams : IsLeaf(streams[i]) => Deadline(streams[i]) > clock

\* The hard cap evicts the least recently updated leaf, creation order
\* breaking ties: the pick of the reference scan over the live set.  Needs
\* timestamps in order, as an older one moves a stream before its own entry.
LruPick ==
  [][(sink' # sink /\ sink'[Len(sink')].reason = "LruEvicted") =>
       LET v == sink'[Len(sink')].stream
       IN  \A i \in DOMAIN streams :
             IsLeaf(streams[i]) =>
               \/ v.lastSeen < streams[i].lastSeen
               \/ v.lastSeen = streams[i].lastSeen /\ v.seq <= streams[i].seq]_vars

\* Every call to ingest and to finish returns: the loops over the lazy heaps
\* push entries back, but never for ever.
CallsReturn == (pc # "idle") ~> (pc \in {"idle", "done"})
============================================================================
