------------------------ MODULE StreamStoreTheorems ------------------------
(***************************************************************************)
(* What the arena of StreamStore is for, proved for every value of the     *)
(* constants: the index and the condense groups stay exact, handles stay   *)
(* unique, the sink is given children before parents, the lazy heaps       *)
(* overlook nothing, and counters and bytes add up.                        *)
(***************************************************************************)
EXTENDS StreamStoreProofs

----------------------------------------------------------------------------
(* Every step leaves the records alone, touches one, creates one or evicts *)
(* a leaf.                                                                 *)

\* Two records that differ at most in their children.
SameButKin(t, s) ==
  /\ t.id = s.id /\ t.protocol = s.protocol /\ t.key = s.key /\ t.parent = s.parent
  /\ t.lastSeen = s.lastSeen /\ t.stats = s.stats /\ t.opaque = s.opaque
  /\ t.eligible = s.eligible /\ t.since = s.since /\ t.seq = s.seq
  /\ t.condensed = s.condensed /\ t.members = s.members /\ t.overflow = s.overflow
  /\ t.closed = s.closed /\ t.met = s.met

\* Two records of one stream.
SameStream(t, s) ==
  /\ t.id = s.id /\ t.protocol = s.protocol /\ t.key = s.key /\ t.parent = s.parent
  /\ t.children = s.children /\ t.seq = s.seq /\ t.condensed = s.condensed

\* The arena and its counters are left alone.
Quiet == UNCHANGED <<generation, streams, free, index, roots, condense, sink, nextSeq,
                     liveCount, perProtocol>>

\* One record is rewritten.
Touches(i, new) ==
  /\ i \in DOMAIN streams /\ new \in Streams /\ SameStream(new, streams[i])
  /\ streams' = [streams EXCEPT ![i] = new]
  /\ UNCHANGED <<generation, free, index, roots, nextSeq, liveCount>>

\* The stream s is created, its record being fresh before the layer.
Creates(fresh, s, lay) ==
  /\ pc = "layers" /\ todo # <<>> /\ lay = Head(todo) /\ lay \in Layers /\ Folds(lay)
  /\ parent = NoId \/ IsLive(parent)
  /\ fresh \in Streams /\ s \in Streams
  /\ fresh.id = FreshId /\ s.id = FreshId /\ s.parent = parent /\ s.children = {}
  /\ s.seq = nextSeq /\ s.protocol = lay.protocol
  /\ s.key = fresh.key /\ s.condensed = fresh.condensed /\ fresh.protocol = lay.protocol
  /\ Create(fresh, s, lay)
  /\ todo' = Tail(todo) /\ parent' = FreshId
  /\ UNCHANGED <<clock, sink, pc, pkt, finishing>>

\* A live leaf is evicted.
Evicts(id, reason, exp, cand) ==
  /\ Live /\ id \in StreamIds /\ IsLive(id) /\ IsLeaf(streams[id.index])
  /\ IsExpiryHeap(exp) /\ IsLruHeap(cand)
  /\ Evict(id, reason, exp, cand)
  /\ UNCHANGED <<clock, pc, pkt, todo, parent>>

\* What ingest leaves of a record it touches.
LEMMA TouchedSame ==
  ASSUME TypeOK, NEW s \in Streams, NEW lay \in Layers, NEW d \in Directions
  PROVE  /\ Touched(s, lay, d) \in Streams
         /\ SameStream(Touched(s, lay, d), s)
         /\ Touched(s, lay, d).members = s.members
         /\ Touched(s, lay, d).overflow = s.overflow
         /\ Touched(s, lay, d).met = s.met
         /\ Touched(s, lay, d).lastSeen = pkt.ts
         /\ Touched(s, lay, d).since = Since(s, lay)
         /\ Touched(s, lay, d).stats = AddStats(s, d)
<1>1. Touched(s, lay, d) \in Streams
  BY TouchedType
<1>. QED
  BY <1>1 DEF Touched, Streams, SameStream

\* What condense_fold leaves of the node's record.
LEMMA JoinedSame ==
  ASSUME NEW s \in Streams, NEW g, NEW c
  PROVE  /\ SameStream(Joined(s, g, c), s)
         /\ Joined(s, g, c).members = s.members + MemberCount(g, c)
         /\ Joined(s, g, c).overflow = (s.overflow \/ Overflows(g, c))
         /\ Joined(s, g, c).met = s.met \cup {c.varying}
         /\ Joined(s, g, c).lastSeen = s.lastSeen
         /\ Joined(s, g, c).since = s.since
         /\ Joined(s, g, c).eligible = s.eligible
         /\ Joined(s, g, c).stats = s.stats
<1>. DEFINE m == s.members + MemberCount(g, c)
            o == s.overflow \/ Overflows(g, c)
            w == s.met \cup {c.varying}
<1>1. Joined(s, g, c) = [s EXCEPT !.members = m, !.overflow = o, !.met = w]
  BY DEF Joined
<1>. HIDE DEF m, o, w
<1>2. /\ SameStream(Joined(s, g, c), s)
      /\ Joined(s, g, c).members = m /\ Joined(s, g, c).overflow = o /\ Joined(s, g, c).met = w
      /\ Joined(s, g, c).lastSeen = s.lastSeen /\ Joined(s, g, c).since = s.since
      /\ Joined(s, g, c).eligible = s.eligible /\ Joined(s, g, c).stats = s.stats
  BY <1>1 DEF Streams, SameStream
<1>. QED
  BY <1>2 DEF m, o, w

\* The stream a layer hits.
LEMMA HitFacts ==
  ASSUME TypeOK, HandlesCurrent, HitLayer, NEW lay, lay = Head(todo),
         NEW id, id = CHOOSE x \in Found(lay.protocol, FlowKey(lay)) : TRUE
  PROVE  /\ pc = "layers" /\ todo # <<>> /\ lay \in Layers /\ Folds(lay)
         /\ Direction(lay) \in Directions
         /\ id \in Found(lay.protocol, FlowKey(lay))
         /\ id \in StreamIds /\ IsLive(id)
         /\ streams[id.index] \in Streams /\ streams[id.index].id = id
         /\ Touches(id.index, Touched(streams[id.index], lay, Direction(lay)))
         /\ expiry' = ArmLinger(expiry, streams[id.index], lay)
         /\ perProtocol' = CountLayer(lay.protocol, 0, 0)
         /\ todo' = Tail(todo) /\ parent' = id
         /\ UNCHANGED <<lru, totals, clock, condense, sink, pc, pkt, finishing>>
<1>. DEFINE s == streams[id.index]
            new == Touched(s, lay, Direction(lay))
<1>1. /\ pc = "layers" /\ todo # <<>> /\ Folds(lay) /\ Found(lay.protocol, FlowKey(lay)) # {}
      /\ streams' = [streams EXCEPT ![id.index] = new]
      /\ expiry' = ArmLinger(expiry, s, lay)
      /\ perProtocol' = CountLayer(lay.protocol, 0, 0)
      /\ todo' = Tail(todo) /\ parent' = id
      /\ UNCHANGED <<generation, free, index, roots, lru, liveCount, totals, nextSeq, clock,
                     condense, sink, pc, pkt, finishing>>
  BY DEF HitLayer
<1>2. /\ lay \in Layers /\ Direction(lay) \in Directions
  BY <1>1, HeadTypes, KeyTypes DEF Folds
<1>3. /\ id \in Found(lay.protocol, FlowKey(lay)) /\ id \in StreamIds /\ IsLive(id)
      /\ id.index \in DOMAIN streams /\ s \in Streams
  BY <1>1, FoundTypes
<1>4. s.id = id
  BY <1>3, LiveFacts
<1>5. new \in Streams /\ SameStream(new, s)
  BY <1>2, <1>3, TouchedSame
<1>. HIDE DEF new
<1>6. Touches(id.index, new)
  BY <1>1, <1>3, <1>5 DEF Touches
<1>. QED
  BY <1>1, <1>2, <1>3, <1>4, <1>6 DEF new

\* The node a layer folds into.
LEMMA FoldFacts ==
  ASSUME TypeOK, HandlesCurrent, NEW lay, lay = Head(todo), NEW c \in Folding(lay), FoldLayer(c),
         NEW k, k = GroupKey(parent, lay.protocol, c.anchor), NEW g, g = condense[k]
  PROVE  /\ pc = "layers" /\ todo # <<>> /\ lay \in Layers /\ Folds(lay) /\ c.dir \in Directions
         /\ c.varying \in Nat /\ k \in DOMAIN condense
         /\ g \in Groups /\ g.node \in StreamIds /\ IsLive(g.node)
         /\ streams[g.node.index] \in Streams /\ streams[g.node.index].id = g.node
         /\ Joined(streams[g.node.index], g, c) \in Streams
         /\ Touches(g.node.index, Touched(Joined(streams[g.node.index], g, c), lay, c.dir))
         /\ condense' = [condense EXCEPT ![k] = Grown(g, c, g.node)]
         /\ perProtocol' = CountLayer(lay.protocol, MemberCount(g, c), 0)
         /\ todo' = Tail(todo) /\ parent' = g.node
         /\ UNCHANGED <<expiry, lru, clock, sink, pc, pkt, finishing>>
         /\ totals' = CountMember(g, c)
<1>. USE DEF heaps
<1>. DEFINE s == streams[g.node.index]
            mid == Joined(s, g, c)
            new == Touched(mid, lay, c.dir)
<1>1. /\ pc = "layers" /\ todo # <<>> /\ Folds(lay) /\ IsLive(g.node)
      /\ streams' = [streams EXCEPT ![g.node.index] = new]
      /\ condense' = [condense EXCEPT ![k] = Grown(g, c, g.node)]
      /\ perProtocol' = CountLayer(lay.protocol, MemberCount(g, c), 0)
      /\ todo' = Tail(todo) /\ parent' = g.node
      /\ totals' = CountMember(g, c)
      /\ UNCHANGED <<generation, free, index, roots, expiry, lru, liveCount, nextSeq, clock, sink,
                     pc, pkt, finishing>>
  BY DEF FoldLayer
<1>2. /\ lay \in Layers /\ c.dir \in Directions /\ c.varying \in Nat /\ k \in DOMAIN condense
  BY <1>1, HeadTypes, KeyTypes, FoldingTypes DEF Folds
<1>3. g \in Groups /\ g.node \in StreamIds
  BY <1>2 DEF TypeOK, GroupsType, Groups
<1>4. g.node.index \in DOMAIN streams /\ s \in Streams /\ s.id = g.node
  BY <1>1, <1>3, LiveFacts
<1>5. mid \in Streams /\ SameStream(mid, s)
  BY <1>2, <1>4, JoinedSame, JoinedType
<1>. HIDE DEF mid
<1>6. new \in Streams /\ SameStream(new, mid)
  BY <1>2, <1>5, TouchedSame
<1>. HIDE DEF new
<1>7. Touches(g.node.index, new)
  BY <1>1, <1>4, <1>5, <1>6 DEF Touches, SameStream
<1>. QED
  BY <1>1, <1>2, <1>3, <1>4, <1>5, <1>7 DEF new, mid

\* The stream a missing flow creates.
LEMMA CreateFacts ==
  ASSUME TypeOK, CursorLive, CreateLayer, NEW lay, lay = Head(todo),
         NEW fresh, fresh = NewStream(lay.protocol, FlowKey(lay), FALSE)
  PROVE  /\ Creates(fresh, Touched(fresh, lay, Direction(lay)), lay)
         /\ Direction(lay) \in Directions
         /\ Found(lay.protocol, FlowKey(lay)) = {}
         /\ fresh.key = FlowKey(lay) /\ ~fresh.condensed
         /\ condense' = Tallied(lay)
         /\ perProtocol' = CountLayer(lay.protocol, 1, 1)
         /\ totals' = [totals EXCEPT !.created = @ + 1]
<1>. DEFINE new == Touched(fresh, lay, Direction(lay))
<1>1. /\ pc = "layers" /\ todo # <<>> /\ Folds(lay) /\ Create(fresh, new, lay)
      /\ Found(lay.protocol, FlowKey(lay)) = {}
      /\ condense' = Tallied(lay)
      /\ perProtocol' = CountLayer(lay.protocol, 1, 1)
      /\ totals' = [totals EXCEPT !.created = @ + 1]
      /\ todo' = Tail(todo) /\ parent' = fresh.id
      /\ UNCHANGED <<clock, sink, pc, pkt, finishing>>
  BY DEF CreateLayer
<1>2. /\ lay \in Layers /\ lay.protocol \in Protocols
      /\ Direction(lay) \in Directions /\ FlowKey(lay) \in Keys
  BY <1>1, HeadTypes, KeyTypes DEF Folds
<1>3. fresh \in Streams
  BY <1>2, NewStreamType
<1>4. /\ fresh.id = FreshId /\ fresh.parent = parent /\ fresh.children = {} /\ fresh.seq = nextSeq
      /\ fresh.protocol = lay.protocol /\ fresh.key = FlowKey(lay) /\ fresh.condensed = FALSE
  BY DEF NewStream
<1>5. new \in Streams /\ SameStream(new, fresh)
  BY <1>2, <1>3, TouchedSame
<1>. HIDE DEF new
<1>6. parent = NoId \/ IsLive(parent)
  BY <1>1 DEF CursorLive
<1>7. Creates(fresh, new, lay)
  BY <1>1, <1>2, <1>3, <1>4, <1>5, <1>6 DEF Creates, SameStream
<1>. QED
  BY <1>1, <1>2, <1>4, <1>7 DEF new

\* What a step that creates a group's node does.
NodeMade(c, lay, k, g, fresh, mid, s) ==
  /\ k = GroupKey(parent, lay.protocol, c.anchor) /\ g = condense[k]
  /\ fresh = NewStream(lay.protocol, AnchorKey(c.anchor), TRUE)
  /\ mid = Joined(fresh, g, c) /\ mid \in Streams
  /\ s = Touched(mid, lay, c.dir)
  /\ Creates(fresh, s, lay)
  /\ c.dir \in Directions /\ c.varying \in Nat /\ c.anchor \in Nat
  /\ k \in DOMAIN condense /\ g \in Groups /\ ~IsLive(g.node)
  /\ fresh.key = AnchorKey(c.anchor) /\ fresh.condensed
  /\ condense' = [condense EXCEPT ![k] = Grown(g, c, FreshId)]
  /\ perProtocol' = CountLayer(lay.protocol, MemberCount(g, c), 1)
  /\ totals' = CountMember(g, c)

\* The node a fold creates.
LEMMA NodeFacts ==
  ASSUME TypeOK, CursorLive, NEW lay, lay = Head(todo), NEW c \in Folding(lay), FoldNewNode(c)
  PROVE  \E k, g, fresh, mid, s : NodeMade(c, lay, k, g, fresh, mid, s)
<1>. DEFINE k == GroupKey(parent, lay.protocol, c.anchor)
            g == condense[k]
            fresh == NewStream(lay.protocol, AnchorKey(c.anchor), TRUE)
            mid == Joined(fresh, g, c)
            s == Touched(mid, lay, c.dir)
<1>1. /\ pc = "layers" /\ todo # <<>> /\ Folds(lay) /\ Create(fresh, s, lay)
      /\ ~IsLive(g.node)
      /\ condense' = [condense EXCEPT ![k] = Grown(g, c, fresh.id)]
      /\ perProtocol' = CountLayer(lay.protocol, MemberCount(g, c), 1)
      /\ totals' = CountMember(g, c)
      /\ todo' = Tail(todo) /\ parent' = fresh.id
      /\ UNCHANGED <<clock, sink, pc, pkt, finishing>>
  BY DEF FoldNewNode
<1>2. /\ lay \in Layers /\ c.dir \in Directions /\ c.varying \in Nat /\ c.anchor \in Nat
      /\ k \in DOMAIN condense /\ lay.protocol \in Protocols /\ AnchorKey(c.anchor) \in Keys
  BY <1>1, HeadTypes, KeyTypes, FoldingTypes DEF Folds
<1>3. g \in Groups
  BY <1>2 DEF TypeOK, GroupsType, Groups
<1>4. fresh \in Streams
  BY <1>2, NewStreamType
<1>5. /\ fresh.id = FreshId /\ fresh.parent = parent /\ fresh.children = {} /\ fresh.seq = nextSeq
      /\ fresh.protocol = lay.protocol /\ fresh.key = AnchorKey(c.anchor) /\ fresh.condensed = TRUE
  BY DEF NewStream
<1>. HIDE DEF fresh
<1>6. mid \in Streams /\ SameStream(mid, fresh)
  BY <1>2, <1>4, JoinedSame, JoinedType
<1>. HIDE DEF mid
<1>7. s \in Streams /\ SameStream(s, mid)
  BY <1>2, <1>6, TouchedSame
<1>. HIDE DEF s, k, g
<1>8. parent = NoId \/ IsLive(parent)
  BY <1>1 DEF CursorLive
<1>9. Creates(fresh, s, lay)
  BY <1>1, <1>2, <1>4, <1>5, <1>6, <1>7, <1>8 DEF Creates, SameStream
<1>10. condense' = [condense EXCEPT ![k] = Grown(g, c, FreshId)]
  BY <1>1, <1>5
<1>11. /\ k = GroupKey(parent, lay.protocol, c.anchor) /\ g = condense[k]
       /\ fresh = NewStream(lay.protocol, AnchorKey(c.anchor), TRUE)
       /\ mid = Joined(fresh, g, c) /\ s = Touched(mid, lay, c.dir)
  BY DEF k, g, fresh, mid, s
<1>. WITNESS k, g, fresh, mid, s
<1>. QED
  BY <1>1, <1>2, <1>3, <1>5, <1>6, <1>9, <1>10, <1>11 DEF NodeMade

\* Two records that show the same conversation and the same data.
SameData(t, s) ==
  /\ SameStream(t, s)
  /\ t.members = s.members /\ t.overflow = s.overflow /\ t.met = s.met
  /\ t.lastSeen = s.lastSeen /\ t.since = s.since /\ t.stats = s.stats

\* The payload that no layer parsed, and the mark of a retained stream.
LEMMA OpaqueSame ==
  ASSUME TypeOK, NEW s \in Streams
  PROVE  WithOpaque(s) \in Streams /\ SameData(WithOpaque(s), s)
<1>1. pkt.opaque \in Nat
  BY DEF TypeOK, CallType
<1>. QED
  BY <1>1 DEF WithOpaque, Streams, SameData, SameStream

\* The copy on_evicted is given shows the data of the stream it closes.
LEMMA ClosedSame ==
  ASSUME NEW s \in Streams
  PROVE  ClosedCopy(s) \in Streams /\ SameData(ClosedCopy(s), s)
  BY DEF ClosedCopy, Streams, SameData, SameStream

\* The end of a packet only adds its opaque bytes to the innermost stream.
LEMMA DoneFacts ==
  ASSUME TypeOK, LayersDone, IsLive(parent)
  PROVE  /\ Touches(parent.index, WithOpaque(streams[parent.index]))
         /\ SameData(WithOpaque(streams[parent.index]), streams[parent.index])
<1>. USE DEF counts, arena, heaps
<1>. DEFINE i == parent.index
            new == WithOpaque(streams[i])
<1>1. i \in DOMAIN streams /\ streams[i] \in Streams
  BY DEF IsLive, TypeOK, StreamsType
<1>2. new \in Streams /\ SameData(new, streams[i])
  BY <1>1, OpaqueSame
<1>3. /\ streams' = [streams EXCEPT ![i] = new]
      /\ UNCHANGED <<generation, free, index, roots, nextSeq, liveCount>>
  BY DEF LayersDone
<1>. HIDE DEF i, new
<1>4. Touches(i, new) /\ SameData(new, streams[i])
  BY <1>1, <1>2, <1>3 DEF Touches, SameData
<1>. QED
  BY <1>4 DEF i, new

\* finish() without eviction closes the next stream where it is and hands it
\* to the sink.
LEMMA RetainFacts ==
  ASSUME TypeOK, Arena, FinishInv, FinishRetain, NEW i, i = NextToClose.id.index
  PROVE  /\ NextToClose \in finishing /\ \A y \in finishing : FinishBefore(NextToClose, y)
         /\ pc = "finish" /\ ~Live
         /\ Touches(i, ClosedCopy(streams[i]))
         /\ SameData(ClosedCopy(streams[i]), streams[i])
         /\ sink' = Append(sink, [stream |-> ClosedCopy(streams[i]), reason |-> "CaptureEnd"])
         /\ streams[i].id = NextToClose.id
         /\ finishing' = finishing \ {NextToClose}
         /\ UNCHANGED <<condense, perProtocol, totals, clock, expiry, lru, pc, pkt, todo, parent>>
<1>. USE DEF counts, arena, heaps
<1>. DEFINE new == ClosedCopy(streams[i])
<1>0. /\ pc = "finish" /\ ~Live /\ finishing # {} /\ IsLive(NextToClose.id)
  BY DEF FinishRetain
<1>1. NextToClose \in finishing /\ \A y \in finishing : FinishBefore(NextToClose, y)
  BY <1>0, NextFacts
<1>2. NextToClose.id \in StreamIds
  BY <1>0, <1>1 DEF FinishInv
<1>3. i \in DOMAIN streams /\ streams[i] \in Streams /\ streams[i].id = NextToClose.id
  BY <1>0, <1>2, LiveFacts DEF Arena, Forest
<1>4. new \in Streams /\ SameData(new, streams[i])
  BY <1>3, ClosedSame
<1>5. /\ streams' = [streams EXCEPT ![i] = new]
      /\ finishing' = finishing \ {NextToClose}
      /\ UNCHANGED <<generation, free, index, roots, nextSeq, liveCount>>
      /\ UNCHANGED <<condense, perProtocol, totals, clock, expiry, lru, pc, pkt, todo, parent>>
  BY DEF FinishRetain
<1>6. sink' = Append(sink, [stream |-> streams'[i], reason |-> "CaptureEnd"])
  BY DEF FinishRetain
<1>. HIDE DEF new
<1>7. streams'[i] = new
  BY <1>3, <1>5
<1>8. Touches(i, new)
  BY <1>3, <1>4, <1>5 DEF Touches, SameData
<1>. QED
  BY <1>0, <1>1, <1>3, <1>4, <1>5, <1>6, <1>7, <1>8 DEF new

\* Creating a stream changes no other record but the parent's children.
LEMMA CreateRecords ==
  ASSUME TypeOK, Arena, NEW fresh, NEW s, NEW lay, Creates(fresh, s, lay),
         NEW id, id = FreshId
  PROVE  /\ id \in StreamIds /\ id.index \notin DOMAIN streams /\ id # NoId
         /\ DOMAIN streams' = DOMAIN streams \cup {id.index}
         /\ streams'[id.index] = s
         /\ IsLive(id)'
         /\ \A j \in DOMAIN streams : SameButKin(streams'[j], streams[j])
         /\ \A j \in DOMAIN streams : IsLeaf(streams'[j]) => IsLeaf(streams[j])
         /\ \A x \in StreamIds : IsLive(x) => IsLive(x)'
<1>. DEFINE linked == IsLive(parent)
            Adopted(x) == [x EXCEPT !.children = @ \cup {id}]
<1>1. PICK par : par = parent
  OBVIOUS
<1>2. /\ Arena'
      /\ id \in StreamIds /\ id.index \notin DOMAIN streams
      /\ DOMAIN streams' = DOMAIN streams \cup {id.index}
      /\ streams'[id.index] = s
      /\ IsLive(id)'
      /\ \A j \in DOMAIN streams : /\ streams'[j].id = streams[j].id
                                   /\ streams[j].children \subseteq streams'[j].children
  <2>1. /\ par = NoId \/ IsLive(par)
        /\ fresh \in Streams /\ s \in Streams
        /\ fresh.id = id /\ s.id = id /\ s.parent = par /\ s.children = {} /\ s.seq = nextSeq
        /\ Create(fresh, s, lay)
    BY <1>1 DEF Creates
  <2>. QED
    BY <1>1, <2>1, CreateArena
<1>3. \A j \in DOMAIN streams :
        streams'[j] = IF linked /\ j = parent.index THEN Adopted(streams[j]) ELSE streams[j]
  <2>1. Create(fresh, s, lay) /\ fresh.id = id
    BY DEF Creates
  <2>. QED
    BY <1>2, <2>1 DEF Create
<1>4. \A x \in Streams : SameButKin(Adopted(x), x) /\ SameButKin(x, x)
  BY DEF Streams, SameButKin
<1>5. \A j \in DOMAIN streams : streams[j] \in Streams
  BY DEF TypeOK, StreamsType
<1>6. \A j \in DOMAIN streams : SameButKin(streams'[j], streams[j])
  <2>. HIDE DEF Adopted, linked
  <2>. QED
    BY <1>3, <1>4, <1>5
<1>7. \A j \in DOMAIN streams : IsLeaf(streams'[j]) => IsLeaf(streams[j])
  BY <1>2 DEF IsLeaf
<1>8. id # NoId
  BY <1>2, FreshTypes DEF NoId
<1>9. \A x \in StreamIds : IsLive(x) => IsLive(x)'
  <2>1. \A j \in DOMAIN streams : streams[j].id = [index |-> j, generation |-> generation[j]]
    BY DEF Arena, Forest, HandlesCurrent
  <2>2. \A j \in DOMAIN streams' : streams'[j].id = [index |-> j, generation |-> generation'[j]]
    BY <1>2 DEF Arena, Forest, HandlesCurrent
  <2>3. \A j \in DOMAIN streams : generation'[j] = generation[j]
    <3>. SUFFICES ASSUME NEW j \in DOMAIN streams PROVE generation'[j] = generation[j]
      OBVIOUS
    <3>1. [index |-> j, generation |-> generation[j]] = [index |-> j, generation |-> generation'[j]]
      BY <1>2, <2>1, <2>2
    <3>2. [index |-> j, generation |-> generation[j]].generation
            = [index |-> j, generation |-> generation'[j]].generation
      BY <3>1
    <3>. QED
      BY <3>2
  <2>. QED
    BY <1>2, <2>3 DEF IsLive
<1>. QED
  BY <1>2, <1>6, <1>7, <1>8, <1>9

\* Nor does evicting one.
LEMMA EvictRecords ==
  ASSUME TypeOK, Arena, NEW id, NEW reason, NEW exp, NEW cand, Evicts(id, reason, exp, cand)
  PROVE  /\ id.index \in DOMAIN streams /\ streams[id.index] \in Streams
         /\ streams[id.index].id = id
         /\ DOMAIN streams' = DOMAIN streams \ {id.index}
         /\ \A j \in DOMAIN streams' : SameButKin(streams'[j], streams[j])
         /\ \A x \in StreamIds : IsLive(x)' <=> IsLive(x) /\ x.index # id.index
<1>. DEFINE s == streams[id.index]
            up == [streams[s.parent.index] EXCEPT !.children = @ \ {id}]
            linked == s.parent # NoId /\ IsLive(s.parent)
<1>0. /\ id \in StreamIds /\ IsLive(id) /\ IsLeaf(streams[id.index]) /\ IsABag(cand)
      /\ Evict(id, reason, exp, cand)
  BY DEF Evicts, IsLruHeap
<1>1. /\ id.index \in DOMAIN streams /\ s \in Streams /\ s.id = id
  BY <1>0, LiveFacts DEF Arena, Forest
<1>2. /\ DOMAIN streams' = DOMAIN streams \ {id.index}
      /\ \A x \in StreamIds : IsLive(x)' <=> IsLive(x) /\ x.index # id.index
  BY <1>0, EvictFacts
<1>3. \A j \in DOMAIN streams' :
        streams'[j] = IF linked /\ j = s.parent.index THEN up ELSE streams[j]
  BY <1>0 DEF Evict
<1>4. \A x \in Streams : SameButKin([x EXCEPT !.children = @ \ {id}], x) /\ SameButKin(x, x)
  BY DEF Streams, SameButKin
<1>5. \A j \in DOMAIN streams : streams[j] \in Streams
  BY DEF TypeOK, StreamsType
<1>6. \A j \in DOMAIN streams' : SameButKin(streams'[j], streams[j])
  <2>. SUFFICES ASSUME NEW j \in DOMAIN streams' PROVE SameButKin(streams'[j], streams[j])
    OBVIOUS
  <2>1. j \in DOMAIN streams
    BY <1>2
  <2>2. CASE linked /\ j = s.parent.index
    <3>1. streams'[j] = [streams[j] EXCEPT !.children = @ \ {id}]
      BY <1>3, <2>2
    <3>. QED
      BY <1>4, <1>5, <2>1, <3>1
  <2>3. CASE ~(linked /\ j = s.parent.index)
    BY <1>3, <1>4, <1>5, <2>1, <2>3
  <2>. QED
    BY <2>2, <2>3
<1>. QED
  BY <1>1, <1>2, <1>6

\* The actions that leave the streams and the counters alone.
Bookkeeping ==
  \/ Arrive \/ SweepDrop \/ SweepRepush \/ SweepDone \/ SkipLayer \/ KeyErrorLayer
  \/ LayersDone /\ ~IsLive(parent)
  \/ EnforceDrop \/ EnforceRepush \/ EnforceDone
  \/ Finish \/ FinishDone \/ Closed \/ UNCHANGED vars

\* The kinds of steps.
LEMMA StepKinds ==
  ASSUME StoreInv, [Next]_vars
  PROVE  \/ Quiet /\ Bookkeeping
         \/ HitLayer \/ CreateLayer
         \/ \E c \in Folding(Head(todo)) : FoldLayer(c) \/ FoldNewNode(c)
         \/ LayersDone /\ IsLive(parent)
         \/ FinishRetain
         \/ \E id \in StreamIds, reason \in Reasons :
              \E exp, cand : Evicts(id, reason, exp, cand)
<1>. USE DEF counts, arena, heaps
<1>0. TypeOK /\ Arena /\ FinishInv
  BY DEF StoreInv, Shape
<1>1. CASE Arrive
  <2>1. Quiet
    BY <1>1 DEF Arrive, Ingest, Quiet
  <2>. QED
    BY <1>1, <2>1 DEF Bookkeeping
<1>2. CASE SweepDrop \/ SweepRepush \/ SweepDone
  <2>1. Quiet
    BY <1>2 DEF SweepDrop, SweepRepush, SweepDone, Quiet
  <2>. QED
    BY <1>2, <2>1 DEF Bookkeeping
<1>3. CASE SweepEvict
  <2>. DEFINE id == ExpiryTop.id
              reason == CloseReason(streams[id.index])
              exp == Pop(expiry, ExpiryTop)
  <2>1. /\ Due /\ IsLive(id) /\ IsLeaf(streams[id.index])
        /\ Evict(id, reason, exp, lru)
        /\ UNCHANGED <<clock, pc, pkt, todo, parent>>
    BY <1>3 DEF SweepEvict
  <2>2. id \in StreamIds /\ IsExpiryHeap(exp) /\ IsLruHeap(lru)
    BY <1>0, <2>1, ExpiryTopFacts, PopFacts DEF Due, TypeOK, HeapsType, IsExpiryHeap
  <2>3. reason \in Reasons
    BY DEF CloseReason, Reasons
  <2>4. Live
    BY <2>1 DEF Due
  <2>. HIDE DEF id, reason, exp
  <2>5. Evicts(id, reason, exp, lru)
    BY <2>1, <2>2, <2>4 DEF Evicts
  <2>. QED
    BY <2>2, <2>3, <2>5
<1>4. CASE SkipLayer \/ KeyErrorLayer
  <2>1. Quiet
    BY <1>4 DEF SkipLayer, KeyErrorLayer, Quiet
  <2>. QED
    BY <1>4, <2>1 DEF Bookkeeping
<1>5. CASE todo # <<>> /\ FoldAny
  BY <1>5 DEF FoldAny
<1>6. CASE LayersDone /\ ~IsLive(parent)
  <2>1. Quiet
    BY <1>6 DEF LayersDone, Quiet
  <2>. QED
    BY <1>6, <2>1 DEF Bookkeeping
<1>7. CASE EnforceDrop \/ EnforceRepush \/ EnforceDone
  <2>1. Quiet
    BY <1>7 DEF EnforceDrop, EnforceRepush, EnforceDone, Quiet
  <2>. QED
    BY <1>7, <2>1 DEF Bookkeeping
<1>8. CASE EnforceEvict
  <2>. DEFINE id == LruTop.id
              cand == Pop(lru, LruTop)
  <2>1. /\ OverCap /\ IsLive(id) /\ IsLeaf(streams[id.index])
        /\ Evict(id, "LruEvicted", expiry, cand)
        /\ UNCHANGED <<clock, pc, pkt, todo, parent>>
    BY <1>8 DEF EnforceEvict
  <2>2. id \in StreamIds /\ IsExpiryHeap(expiry) /\ IsLruHeap(cand)
    BY <1>0, <2>1, LruTopFacts, PopFacts DEF OverCap, TypeOK, HeapsType, IsLruHeap
  <2>3. Live
    BY <2>1 DEF OverCap
  <2>. HIDE DEF id, cand
  <2>4. Evicts(id, "LruEvicted", expiry, cand) /\ "LruEvicted" \in Reasons
    BY <2>1, <2>2, <2>3 DEF Evicts, Reasons
  <2>. QED
    BY <2>2, <2>4
<1>9. CASE Finish \/ FinishDone \/ Closed \/ UNCHANGED vars
  <2>1. Quiet
    BY <1>9 DEF Finish, FinishDone, Closed, vars, Quiet
  <2>. QED
    BY <1>9, <2>1 DEF Bookkeeping
<1>10. CASE FinishEvict
  <2>. DEFINE id == NextToClose.id
  <2>1. /\ pc = "finish" /\ finishing # {} /\ Live /\ IsLive(id)
        /\ Evict(id, "CaptureEnd", expiry, lru)
        /\ UNCHANGED <<clock, pc, pkt, todo, parent>>
    BY <1>10 DEF FinishEvict
  <2>2. id \in StreamIds /\ IsLeaf(streams[id.index])
    BY <1>0, <2>1, NextFacts, NextIsLeaf DEF FinishInv
  <2>3. IsExpiryHeap(expiry) /\ IsLruHeap(lru)
    BY <1>0 DEF TypeOK, HeapsType
  <2>. HIDE DEF id
  <2>4. Evicts(id, "CaptureEnd", expiry, lru) /\ "CaptureEnd" \in Reasons
    BY <2>1, <2>2, <2>3 DEF Evicts, Reasons
  <2>. QED
    BY <2>2, <2>4
<1>. QED
  BY <1>1, <1>2, <1>3, <1>4, <1>5, <1>6, <1>7, <1>8, <1>9, <1>10
     DEF Next, Step, Sweep, Layer, Enforce, Finishing

----------------------------------------------------------------------------
(* The condense groups.  A group's node is a live stream that carries the  *)
(* group's anchor under the group's parent, and every condensed stream is  *)
(* the node of its group: without the converse a second node could be      *)
(* created beside a live one.                                              *)

NodeOf(k, s) ==
  /\ s.condensed /\ s.parent = k.parent /\ s.protocol = k.protocol
  /\ s.key = AnchorKey(k.anchor)
NodesLive ==
  \A k \in DOMAIN condense :
    /\ k = GroupKey(k.parent, k.protocol, k.anchor)
    /\ condense[k].node # NoId =>
         IsLive(condense[k].node) /\ NodeOf(k, streams[condense[k].node.index])
OwnGroup(s) == GroupKey(s.parent, s.protocol, s.key.lo)
NodesGrouped ==
  \A i \in DOMAIN streams :
    IF streams[i].condensed
    THEN /\ Condenses(streams[i].protocol)
         /\ streams[i].key = AnchorKey(streams[i].key.lo)
         /\ OwnGroup(streams[i]) \in DOMAIN condense
         /\ condense[OwnGroup(streams[i])].node = streams[i].id
    ELSE streams[i].key.kind = "flow"
MembersCounted ==
  \A k \in DOMAIN condense :
    /\ IsFiniteSet(condense[k].members)
    /\ condense[k].node = NoId => condense[k].members = {}
    /\ condense[k].node # NoId =>
         MembersTrue(streams[condense[k].node.index], condense[k].members)
GroupsInv == NodesLive /\ NodesGrouped /\ MembersCounted

\* What the eviction of s leaves of the groups: all that have another node.
LEMMA CondenseEvictFacts ==
  ASSUME TypeOK, HandlesCurrent, GroupsInv, NEW i \in DOMAIN streams, NEW s, s = streams[i]
  PROVE  /\ \A k \in DOMAIN CondenseEvict(s) :
              /\ k \in DOMAIN condense
              /\ CondenseEvict(s)[k].node = condense[k].node
              /\ CondenseEvict(s)[k].members = condense[k].members
              /\ condense[k].node # s.id
         /\ \A k \in DOMAIN condense :
              condense[k].node # NoId /\ condense[k].node # s.id => k \in DOMAIN CondenseEvict(s)
<1>. DEFINE ks == {GroupKey(s.parent, s.protocol, v) : v \in {s.key.lo, s.key.hi}}
            less(k) == MinusOrZero(condense[k].expanded, 1)
            gone == IF s.condensed THEN ks
                    ELSE {k \in ks \cap DOMAIN condense : less(k) = 0 /\ condense[k].node = NoId}
            new == CondenseEvict(s)
<1>0. s.id # NoId /\ s.id.index = i
  BY LiveFacts
<1>1. \A k \in DOMAIN condense : condense[k].node = s.id =>
        s.condensed /\ k = OwnGroup(s) /\ Condenses(s.protocol) /\ s.key = AnchorKey(s.key.lo)
  <2>. SUFFICES ASSUME NEW k \in DOMAIN condense, condense[k].node = s.id
                PROVE  s.condensed /\ k = OwnGroup(s) /\ Condenses(s.protocol)
                       /\ s.key = AnchorKey(s.key.lo)
    OBVIOUS
  <2>1. k = GroupKey(k.parent, k.protocol, k.anchor) /\ NodeOf(k, s)
    BY <1>0 DEF GroupsInv, NodesLive
  <2>2. s.key.lo = k.anchor
    BY <2>1 DEF NodeOf, AnchorKey
  <2>. QED
    BY <2>1, <2>2 DEF NodeOf, OwnGroup, GroupsInv, NodesGrouped
<1>2. s.condensed => Condenses(s.protocol) /\ ks = {OwnGroup(s)} /\ condense[OwnGroup(s)].node = s.id
  <2>. SUFFICES ASSUME s.condensed
                PROVE  Condenses(s.protocol) /\ ks = {OwnGroup(s)} /\ condense[OwnGroup(s)].node = s.id
    OBVIOUS
  <2>1. /\ Condenses(s.protocol) /\ s.key = AnchorKey(s.key.lo)
        /\ condense[OwnGroup(s)].node = s.id
    BY DEF GroupsInv, NodesGrouped
  <2>2. s.key.hi = s.key.lo
    BY <2>1 DEF AnchorKey
  <2>. QED
    BY <2>1, <2>2 DEF OwnGroup
<1>3. \A k \in DOMAIN condense : condense[k] \in Groups
  BY DEF TypeOK, GroupsType
<1>4. CASE ~Condenses(s.protocol)
  <2>1. new = condense
    BY <1>4 DEF CondenseEvict
  <2>. QED
    BY <1>1, <1>4, <2>1
<1>5. CASE Condenses(s.protocol)
  <2>1. /\ DOMAIN new = DOMAIN condense \ gone
        /\ \A k \in DOMAIN new : new[k] = IF k \in ks THEN [condense[k] EXCEPT !.expanded = less(k)]
                                                      ELSE condense[k]
    BY <1>5 DEF CondenseEvict
  <2>2. \A k \in DOMAIN new : /\ k \in DOMAIN condense
                              /\ new[k].node = condense[k].node
                              /\ new[k].members = condense[k].members
    <3>. HIDE DEF new, ks, gone
    <3>. SUFFICES ASSUME NEW k \in DOMAIN new
                  PROVE  /\ k \in DOMAIN condense
                         /\ new[k].node = condense[k].node
                         /\ new[k].members = condense[k].members
      OBVIOUS
    <3>1. PICK e : e = less(k)
      OBVIOUS
    <3>2. k \in DOMAIN condense /\ condense[k] \in Groups
      BY <1>3, <2>1
    <3>3. new[k] = [condense[k] EXCEPT !.expanded = e] \/ new[k] = condense[k]
      BY <2>1, <3>1
    <3>4. /\ [condense[k] EXCEPT !.expanded = e].node = condense[k].node
          /\ [condense[k] EXCEPT !.expanded = e].members = condense[k].members
      BY <3>2 DEF Groups
    <3>. QED
      BY <3>2, <3>3, <3>4
  <2>3. \A k \in DOMAIN condense : k \in gone => condense[k].node = NoId \/ condense[k].node = s.id
    BY <1>2
  <2>4. \A k \in DOMAIN condense : condense[k].node = s.id => k \in gone
    BY <1>1, <1>2
  <2>. HIDE DEF new, ks, gone
  <2>5. \A k \in DOMAIN new : condense[k].node # s.id
    BY <2>1, <2>4
  <2>6. \A k \in DOMAIN condense : condense[k].node # NoId /\ condense[k].node # s.id => k \in DOMAIN new
    BY <2>1, <2>3
  <2>. QED
    BY <2>2, <2>5, <2>6 DEF new
<1>. QED
  BY <1>4, <1>5

\* Evicting a leaf keeps the groups.
LEMMA EvictGroups ==
  ASSUME TypeOK, Arena, GroupsInv, NEW id, NEW reason, NEW exp, NEW cand,
         Evicts(id, reason, exp, cand)
  PROVE  GroupsInv'
<1>. DEFINE s == streams[id.index]
<1>1. /\ id.index \in DOMAIN streams /\ s.id = id
      /\ DOMAIN streams' = DOMAIN streams \ {id.index}
      /\ \A j \in DOMAIN streams' : SameButKin(streams'[j], streams[j])
      /\ \A x \in StreamIds : IsLive(x)' <=> IsLive(x) /\ x.index # id.index
  BY EvictRecords
<1>2. condense' = CondenseEvict(s)
  BY DEF Evicts, Evict
<1>. HIDE DEF s
<1>3. /\ \A k \in DOMAIN condense' :
              /\ k \in DOMAIN condense
              /\ condense'[k].node = condense[k].node
              /\ condense'[k].members = condense[k].members
              /\ condense[k].node # id
      /\ \A k \in DOMAIN condense :
              condense[k].node # NoId /\ condense[k].node # id => k \in DOMAIN condense'
  BY <1>1, <1>2, CondenseEvictFacts DEF Arena, Forest, s
<1>4. \A k \in DOMAIN condense' : \A n : n = condense[k].node /\ n # NoId =>
        n.index \in DOMAIN streams' /\ IsLive(n)'
  <2>. SUFFICES ASSUME NEW k \in DOMAIN condense', NEW n, n = condense[k].node, n # NoId
                PROVE  n.index \in DOMAIN streams' /\ IsLive(n)'
    OBVIOUS
  <2>1. n \in StreamIds /\ IsLive(n) /\ n # id
    BY <1>3 DEF GroupsInv, NodesLive, TypeOK, GroupsType, Groups
  <2>2. n.index # id.index /\ n.index \in DOMAIN streams
    BY <1>1, <2>1, LiveFacts DEF Arena, Forest, s
  <2>3. IsLive(n)'
    BY <1>1, <2>1, <2>2
  <2>. QED
    BY <1>1, <2>2, <2>3
<1>5. NodesLive'
  <2>. SUFFICES ASSUME NEW k \in DOMAIN condense', NEW n, n = condense'[k].node
                PROVE  /\ k = GroupKey(k.parent, k.protocol, k.anchor)
                       /\ n # NoId => IsLive(n)' /\ NodeOf(k, streams'[n.index])
    BY DEF NodesLive, IsLive
  <2>1. k = GroupKey(k.parent, k.protocol, k.anchor) /\ n = condense[k].node
    BY <1>3 DEF GroupsInv, NodesLive
  <2>2. ASSUME n # NoId
        PROVE  NodeOf(k, streams'[n.index])
    <3>1. NodeOf(k, streams[n.index])
      BY <1>3, <2>1, <2>2 DEF GroupsInv, NodesLive
    <3>2. SameButKin(streams'[n.index], streams[n.index])
      BY <1>1, <1>4, <2>1, <2>2
    <3>. QED
      BY <3>1, <3>2 DEF SameButKin, NodeOf
  <2>. QED
    BY <1>4, <2>1, <2>2
<1>6. NodesGrouped'
  <2>. SUFFICES ASSUME NEW i \in DOMAIN streams'
                PROVE  IF streams'[i].condensed
                       THEN /\ Condenses(streams'[i].protocol)
                            /\ streams'[i].key = AnchorKey(streams'[i].key.lo)
                            /\ OwnGroup(streams'[i]) \in DOMAIN condense'
                            /\ condense'[OwnGroup(streams'[i])].node = streams'[i].id
                       ELSE streams'[i].key.kind = "flow"
    BY DEF NodesGrouped
  <2>1. i \in DOMAIN streams /\ SameButKin(streams'[i], streams[i])
    BY <1>1
  <2>2. OwnGroup(streams'[i]) = OwnGroup(streams[i])
    BY <2>1 DEF OwnGroup, SameButKin
  <2>3. streams[i].id # id /\ streams[i].id # NoId
    BY <1>1, LiveFacts DEF Arena, Forest
  <2>4. IF streams[i].condensed
        THEN /\ Condenses(streams[i].protocol)
             /\ streams[i].key = AnchorKey(streams[i].key.lo)
             /\ OwnGroup(streams[i]) \in DOMAIN condense
             /\ condense[OwnGroup(streams[i])].node = streams[i].id
        ELSE streams[i].key.kind = "flow"
    BY <2>1 DEF GroupsInv, NodesGrouped
  <2>5. streams[i].condensed => /\ OwnGroup(streams[i]) \in DOMAIN condense'
                                /\ condense'[OwnGroup(streams[i])].node = streams[i].id
    BY <1>3, <2>3, <2>4
  <2>. QED
    BY <2>1, <2>2, <2>4, <2>5 DEF SameButKin
<1>7. MembersCounted'
  <2>. SUFFICES ASSUME NEW k \in DOMAIN condense'
                PROVE  /\ IsFiniteSet(condense'[k].members)
                       /\ condense'[k].node = NoId => condense'[k].members = {}
                       /\ condense'[k].node # NoId =>
                            MembersTrue(streams'[condense'[k].node.index], condense'[k].members)
    BY DEF MembersCounted, MembersTrue
  <2>1. condense[k].node # NoId =>
          SameButKin(streams'[condense[k].node.index], streams[condense[k].node.index])
    BY <1>1, <1>4
  <2>. QED
    BY <1>3, <2>1 DEF GroupsInv, MembersCounted, MembersTrue, SameButKin
<1>. QED
  BY <1>5, <1>6, <1>7 DEF GroupsInv

\* The fields that name a stream.
Keeps(t, s) ==
  /\ t.id = s.id /\ t.parent = s.parent /\ t.protocol = s.protocol
  /\ t.key = s.key /\ t.condensed = s.condensed
Grouped(s, groups) ==
  IF s.condensed
  THEN /\ Condenses(s.protocol)
       /\ s.key = AnchorKey(s.key.lo)
       /\ OwnGroup(s) \in DOMAIN groups
       /\ groups[OwnGroup(s)].node = s.id
  ELSE s.key.kind = "flow"

\* A step that only adds streams and groups, and gives nodes to groups that
\* have none, keeps the nodes.
LEMMA NodesGrow ==
  ASSUME TypeOK, Arena, GroupsInv,
         DOMAIN streams \subseteq DOMAIN streams',
         \A j \in DOMAIN streams : Keeps(streams'[j], streams[j]),
         \A x \in StreamIds : IsLive(x) => IsLive(x)',
         \A k \in DOMAIN condense : /\ k \in DOMAIN condense'
                                    /\ condense[k].node # NoId => condense'[k].node = condense[k].node,
         \A k \in DOMAIN condense' : \A n : n = condense'[k].node =>
           \/ k \in DOMAIN condense /\ n = condense[k].node
           \/ /\ k = GroupKey(k.parent, k.protocol, k.anchor)
              /\ n # NoId => IsLive(n)' /\ NodeOf(k, streams'[n.index]),
         \A i \in DOMAIN streams' \ DOMAIN streams : Grouped(streams'[i], condense')
  PROVE  NodesLive' /\ NodesGrouped'
<1>1. NodesLive'
  <2>. SUFFICES ASSUME NEW k \in DOMAIN condense', NEW n, n = condense'[k].node
                PROVE  /\ k = GroupKey(k.parent, k.protocol, k.anchor)
                       /\ n # NoId => IsLive(n)' /\ NodeOf(k, streams'[n.index])
    BY DEF NodesLive, IsLive
  <2>1. CASE k \in DOMAIN condense /\ n = condense[k].node
    <3>1. k = GroupKey(k.parent, k.protocol, k.anchor)
      BY <2>1 DEF GroupsInv, NodesLive
    <3>2. ASSUME n # NoId PROVE IsLive(n)' /\ NodeOf(k, streams'[n.index])
      <4>1. IsLive(n) /\ NodeOf(k, streams[n.index]) /\ n \in StreamIds
        BY <2>1, <3>2 DEF GroupsInv, NodesLive, TypeOK, GroupsType, Groups
      <4>2. n.index \in DOMAIN streams
        BY <4>1 DEF IsLive
      <4>3. Keeps(streams'[n.index], streams[n.index]) /\ IsLive(n)'
        BY <4>1, <4>2
      <4>. QED
        BY <4>1, <4>3 DEF Keeps, NodeOf
    <3>. QED
      BY <3>1, <3>2
  <2>. QED
    BY <2>1
<1>2. NodesGrouped'
  <2>. SUFFICES ASSUME NEW i \in DOMAIN streams' PROVE Grouped(streams'[i], condense')
    BY DEF NodesGrouped, Grouped
  <2>1. CASE i \in DOMAIN streams
    <3>1. Keeps(streams'[i], streams[i]) /\ Grouped(streams[i], condense) /\ streams[i].id # NoId
      BY <2>1, LiveFacts DEF GroupsInv, NodesGrouped, Grouped, Arena, Forest
    <3>2. OwnGroup(streams'[i]) = OwnGroup(streams[i])
      BY <3>1 DEF Keeps, OwnGroup
    <3>3. streams[i].condensed =>
            /\ OwnGroup(streams[i]) \in DOMAIN condense'
            /\ condense'[OwnGroup(streams[i])].node = streams[i].id
      BY <3>1 DEF Grouped
    <3>. QED
      BY <3>1, <3>2, <3>3 DEF Keeps, Grouped
  <2>. QED
    BY <2>1
<1>. QED
  BY <1>1, <1>2

\* Rewriting a record touches no group unless the step folds.
LEMMA TouchGroups ==
  ASSUME TypeOK, Arena, GroupsInv, NEW i, NEW new, Touches(i, new),
         new.members = streams[i].members, new.overflow = streams[i].overflow,
         new.met = streams[i].met, condense' = condense
  PROVE  GroupsInv'
<1>1. /\ i \in DOMAIN streams /\ DOMAIN streams' = DOMAIN streams
      /\ SameStream(new, streams[i])
      /\ \A j \in DOMAIN streams : streams'[j] = IF j = i THEN new ELSE streams[j]
      /\ generation' = generation
  BY DEF Touches
<1>2. \A j \in DOMAIN streams : /\ Keeps(streams'[j], streams[j])
                                /\ streams'[j].members = streams[j].members
                                /\ streams'[j].overflow = streams[j].overflow
                                /\ streams'[j].met = streams[j].met
  BY <1>1 DEF SameStream, Keeps
<1>3. \A x \in StreamIds : IsLive(x) => IsLive(x)'
  BY <1>1 DEF IsLive
<1>4. NodesLive' /\ NodesGrouped'
  BY <1>1, <1>2, <1>3, NodesGrow
<1>5. MembersCounted'
  <2>1. \A k \in DOMAIN condense : condense[k].node # NoId => condense[k].node.index \in DOMAIN streams
    BY DEF GroupsInv, NodesLive, IsLive
  <2>. QED
    BY <1>2, <2>1 DEF GroupsInv, MembersCounted, MembersTrue
<1>. QED
  BY <1>4, <1>5 DEF GroupsInv

\* The group and the node's count after a fold.
LEMMA GrownCounts ==
  ASSUME NEW g \in Groups, IsFiniteSet(g.members), NEW c, NEW id, NEW s \in Streams, NEW t,
         MembersTrue(s, g.members),
         t.members = s.members + MemberCount(g, c), t.overflow = (s.overflow \/ Overflows(g, c)),
         t.met = s.met \cup {c.varying}
  PROVE  LET h == Grown(g, c, id)
         IN  h.node = id /\ IsFiniteSet(h.members) /\ MembersTrue(t, h.members)
<1>. DEFINE h == Grown(g, c, id)
<1>0. h.node = id /\ h.members = IF NewMember(g, c) THEN g.members \cup {c.varying} ELSE g.members
  BY DEF Grown
<1>1. /\ s.members = Cardinality(g.members) /\ s.members <= MemberCap /\ g.members \subseteq s.met
      /\ s.overflow => s.members = MemberCap /\ g.members # s.met
      /\ ~s.overflow => g.members = s.met
      /\ s.members \in Nat /\ MemberCap \in Nat
  BY ConfigAssumption DEF MembersTrue, Streams
<1>. HIDE DEF h
<1>2. CASE NewMember(g, c)
  <2>1. c.varying \notin g.members /\ s.members < MemberCap
    BY <1>1, <1>2 DEF NewMember
  <2>2. ~Overflows(g, c) /\ ~s.overflow
    BY <1>1, <2>1 DEF Overflows
  <2>3. t.members = s.members + 1 /\ ~t.overflow /\ h.members = t.met
    BY <1>0, <1>1, <1>2, <2>2 DEF MemberCount
  <2>4. IsFiniteSet(h.members) /\ Cardinality(h.members) = Cardinality(g.members) + 1
    <3>1. h.members = g.members \cup {c.varying}
      BY <1>0, <1>2
    <3>. QED
      BY <2>1, <3>1, FS_AddElement
  <2>5. MembersTrue(t, h.members)
    BY <1>1, <2>1, <2>3, <2>4 DEF MembersTrue
  <2>. QED
    BY <1>0, <2>4, <2>5 DEF h
<1>3. CASE Overflows(g, c)
  <2>1. c.varying \notin g.members /\ s.members = MemberCap /\ ~NewMember(g, c)
    BY <1>1, <1>3 DEF NewMember, Overflows
  <2>2. t.members = s.members /\ h.members = g.members /\ t.overflow
    <3>1. t.members = s.members /\ h.members = g.members
      BY <1>0, <1>1, <2>1 DEF MemberCount
    <3>2. t.overflow = TRUE
      BY <1>3
    <3>. QED
      BY <3>1, <3>2
  <2>3. MembersTrue(t, h.members)
    BY <1>1, <2>1, <2>2 DEF MembersTrue
  <2>. QED
    BY <1>0, <2>2, <2>3 DEF h
<1>4. CASE ~NewMember(g, c) /\ ~Overflows(g, c)
  <2>1. c.varying \in g.members
    BY <1>1, <1>4 DEF NewMember, Overflows
  <2>2. t.members = s.members /\ h.members = g.members /\ t.met = s.met
    BY <1>0, <1>1, <1>4, <2>1 DEF MemberCount
  <2>3. t.overflow <=> s.overflow
    BY <1>4
  <2>4. MembersTrue(t, h.members)
    BY <1>1, <2>2, <2>3 DEF MembersTrue
  <2>. QED
    BY <1>0, <2>2, <2>4 DEF h
<1>. QED
  BY <1>2, <1>3, <1>4

\* Folding into a node keeps the groups.
LEMMA FoldGroups ==
  ASSUME TypeOK, Arena, GroupsInv, NEW lay, lay = Head(todo), NEW c \in Folding(lay), FoldLayer(c)
  PROVE  GroupsInv'
<1>1. PICK k : k = GroupKey(parent, lay.protocol, c.anchor)
  OBVIOUS
<1>2. PICK g : g = condense[k]
  OBVIOUS
<1>. DEFINE i == g.node.index
            mid == Joined(streams[i], g, c)
            new == Touched(mid, lay, c.dir)
<1>3. /\ lay \in Layers /\ c.dir \in Directions /\ k \in DOMAIN condense
      /\ g \in Groups /\ g.node \in StreamIds /\ IsLive(g.node)
      /\ streams[i] \in Streams /\ mid \in Streams /\ Touches(i, new)
      /\ condense' = [condense EXCEPT ![k] = Grown(g, c, g.node)]
  BY <1>1, <1>2, FoldFacts DEF Arena, Forest
<1>4. new.members = mid.members /\ new.overflow = mid.overflow /\ new.met = mid.met
  BY <1>3, TouchedSame
<1>5. /\ mid.members = streams[i].members + MemberCount(g, c)
      /\ mid.overflow = (streams[i].overflow \/ Overflows(g, c))
      /\ mid.met = streams[i].met \cup {c.varying}
  BY <1>3, JoinedSame
<1>. HIDE DEF mid, new
<1>6. g.node # NoId
  BY <1>3, LiveFacts DEF Arena, Forest
<1>. DEFINE h == Grown(g, c, g.node)
<1>7. h.node = g.node /\ IsFiniteSet(h.members) /\ MembersTrue(new, h.members)
  <2>1. IsFiniteSet(g.members) /\ MembersTrue(streams[i], g.members)
    BY <1>2, <1>3, <1>6 DEF GroupsInv, MembersCounted
  <2>2. /\ new.members = streams[i].members + MemberCount(g, c)
        /\ new.overflow = (streams[i].overflow \/ Overflows(g, c))
        /\ new.met = streams[i].met \cup {c.varying}
    BY <1>4, <1>5
  <2>. QED
    BY <1>3, <2>1, <2>2, GrownCounts
<1>8. /\ i \in DOMAIN streams /\ DOMAIN streams' = DOMAIN streams
      /\ SameStream(new, streams[i])
      /\ streams'[i] = new
      /\ \A j \in DOMAIN streams : j # i => streams'[j] = streams[j]
      /\ generation' = generation
  BY <1>3 DEF Touches
<1>9. DOMAIN condense' = DOMAIN condense /\ condense'[k] = h
      /\ \A l \in DOMAIN condense : l # k => condense'[l] = condense[l]
  BY <1>3
<1>. HIDE DEF h
<1>10. NodesLive' /\ NodesGrouped'
  <2>1. \A j \in DOMAIN streams : Keeps(streams'[j], streams[j])
    BY <1>8 DEF SameStream, Keeps
  <2>2. \A x \in StreamIds : IsLive(x) => IsLive(x)'
    BY <1>8 DEF IsLive
  <2>3. \A l \in DOMAIN condense : condense'[l].node = condense[l].node
    BY <1>2, <1>7, <1>9
  <2>. QED
    BY <1>8, <1>9, <2>1, <2>2, <2>3, NodesGrow
<1>11. MembersCounted'
  <2>. SUFFICES ASSUME NEW l \in DOMAIN condense
                PROVE  /\ IsFiniteSet(condense'[l].members)
                       /\ condense'[l].node = NoId => condense'[l].members = {}
                       /\ condense'[l].node # NoId =>
                            MembersTrue(streams'[condense'[l].node.index], condense'[l].members)
    BY <1>9 DEF MembersCounted, MembersTrue
  <2>1. CASE l = k
    <3>1. condense'[l] = h /\ h.node = g.node /\ streams'[g.node.index] = new
      BY <1>7, <1>8, <1>9, <2>1
    <3>. QED
      BY <1>6, <1>7, <3>1
  <2>2. CASE l # k
    <3>1. condense'[l] = condense[l]
      BY <1>9, <2>2
    <3>2. condense[l].node # NoId => /\ condense[l].node.index \in DOMAIN streams
                                     /\ condense[l].node.index # i
      <4>. SUFFICES ASSUME condense[l].node # NoId, condense[l].node.index = i PROVE FALSE
        BY DEF GroupsInv, NodesLive, IsLive
      <4>1. NodeOf(l, streams[i]) /\ NodeOf(k, streams[i])
        BY <1>2, <1>3, <1>6 DEF GroupsInv, NodesLive
      <4>2. l.anchor = k.anchor
        <5>1. AnchorKey(l.anchor) = AnchorKey(k.anchor)
          BY <4>1 DEF NodeOf
        <5>2. AnchorKey(l.anchor).lo = AnchorKey(k.anchor).lo
          BY <5>1
        <5>. QED
          BY <5>2 DEF AnchorKey
      <4>3. l = GroupKey(l.parent, l.protocol, l.anchor) /\ k = GroupKey(k.parent, k.protocol, k.anchor)
        BY <1>3 DEF GroupsInv, NodesLive
      <4>4. l.parent = k.parent /\ l.protocol = k.protocol
        BY <4>1 DEF NodeOf
      <4>. QED
        BY <2>2, <4>2, <4>3, <4>4
    <3>3. condense[l].node # NoId =>
            streams'[condense[l].node.index] = streams[condense[l].node.index]
      BY <1>8, <3>2
    <3>. QED
      BY <3>1, <3>3 DEF GroupsInv, MembersCounted
  <2>. QED
    BY <2>1, <2>2
<1>. QED
  BY <1>10, <1>11 DEF GroupsInv

\* What the tally of a new flow leaves of the groups.
LEMMA TalliedFacts ==
  ASSUME TypeOK, NEW lay, NEW new, new = Tallied(lay)
  PROVE  /\ \A k \in DOMAIN condense : k \in DOMAIN new /\ new[k].node = condense[k].node
                                       /\ new[k].members = condense[k].members
         /\ \A k \in DOMAIN new : k \notin DOMAIN condense =>
              /\ k = GroupKey(k.parent, k.protocol, k.anchor)
              /\ new[k].node = NoId /\ new[k].members = {}
<1>. DEFINE ks == {GroupKey(parent, lay.protocol, v) : v \in {lay.a, lay.b}}
            old(k) == IF k \in DOMAIN condense THEN condense[k] ELSE EmptyGroup
<1>1. CASE ~Condenses(lay.protocol)
  BY <1>1 DEF Tallied
<1>2. CASE Condenses(lay.protocol)
  <2>1. /\ DOMAIN new = DOMAIN condense \cup ks
        /\ \A k \in DOMAIN new :
             new[k] = IF k \in ks THEN [old(k) EXCEPT !.expanded = @ + 1] ELSE old(k)
    BY <1>2 DEF Tallied
  <2>2. \A g \in Groups : /\ [g EXCEPT !.expanded = @ + 1].node = g.node
                          /\ [g EXCEPT !.expanded = @ + 1].members = g.members
    BY DEF Groups
  <2>3. EmptyGroup \in Groups /\ EmptyGroup.node = NoId /\ EmptyGroup.members = {}
    BY DEF EmptyGroup, Groups, NoId, StreamIds
  <2>4. \A k \in DOMAIN new : new[k].node = old(k).node /\ new[k].members = old(k).members
    <3>. SUFFICES ASSUME NEW k \in DOMAIN new
                  PROVE  new[k].node = old(k).node /\ new[k].members = old(k).members
      OBVIOUS
    <3>1. PICK g : g = old(k)
      OBVIOUS
    <3>2. g \in Groups
      BY <2>3, <3>1 DEF TypeOK, GroupsType
    <3>3. new[k] = [g EXCEPT !.expanded = @ + 1] \/ new[k] = g
      <4>. HIDE DEF old, ks
      <4>. QED
        BY <2>1, <3>1
    <3>4. /\ [g EXCEPT !.expanded = @ + 1].node = g.node
          /\ [g EXCEPT !.expanded = @ + 1].members = g.members
      BY <2>2, <3>2
    <3>. HIDE DEF old
    <3>. QED
      BY <3>1, <3>3, <3>4
  <2>5. \A k \in ks : k = GroupKey(k.parent, k.protocol, k.anchor)
    BY DEF GroupKey
  <2>6. \A k \in DOMAIN condense : k \in DOMAIN new /\ old(k) = condense[k]
    BY <2>1
  <2>7. \A k \in DOMAIN new : k \notin DOMAIN condense => k \in ks /\ old(k) = EmptyGroup
    BY <2>1
  <2>. HIDE DEF ks, old
  <2>. QED
    BY <2>3, <2>4, <2>5, <2>6, <2>7
<1>. QED
  BY <1>1, <1>2

\* A flow's key carries no sentinel.
LEMMA FlowKeyKind == \A lay : FlowKey(lay).kind = "flow"
  BY DEF FlowKey

\* A new flow keeps the groups.
LEMMA CreateGroups ==
  ASSUME TypeOK, Arena, CursorLive, GroupsInv, CreateLayer
  PROVE  GroupsInv'
<1>1. PICK lay : lay = Head(todo)
  OBVIOUS
<1>2. PICK fresh : fresh = NewStream(lay.protocol, FlowKey(lay), FALSE)
  OBVIOUS
<1>3. PICK s : s = Touched(fresh, lay, Direction(lay))
  OBVIOUS
<1>4. Creates(fresh, s, lay) /\ fresh.key = FlowKey(lay) /\ ~fresh.condensed /\ condense' = Tallied(lay)
  BY <1>1, <1>2, <1>3, CreateFacts
<1>5. PICK id : id = FreshId
  OBVIOUS
<1>6. /\ DOMAIN streams' = DOMAIN streams \cup {id.index} /\ streams'[id.index] = s
      /\ \A j \in DOMAIN streams : SameButKin(streams'[j], streams[j])
      /\ \A x \in StreamIds : IsLive(x) => IsLive(x)'
  BY <1>4, <1>5, CreateRecords
<1>7. /\ \A k \in DOMAIN condense : k \in DOMAIN condense' /\ condense'[k].node = condense[k].node
                                    /\ condense'[k].members = condense[k].members
      /\ \A k \in DOMAIN condense' : k \notin DOMAIN condense =>
           /\ k = GroupKey(k.parent, k.protocol, k.anchor)
           /\ condense'[k].node = NoId /\ condense'[k].members = {}
  BY <1>4, TalliedFacts
<1>8. NodesLive' /\ NodesGrouped'
  <2>1. \A j \in DOMAIN streams : Keeps(streams'[j], streams[j])
    BY <1>6 DEF SameButKin, Keeps
  <2>2. Grouped(s, condense')
    BY <1>4, FlowKeyKind DEF Creates, Grouped
  <2>3. \A i \in DOMAIN streams' \ DOMAIN streams : Grouped(streams'[i], condense')
    BY <1>6, <2>2
  <2>4. \A k \in DOMAIN condense' : \A n : n = condense'[k].node =>
           \/ k \in DOMAIN condense /\ n = condense[k].node
           \/ /\ k = GroupKey(k.parent, k.protocol, k.anchor)
              /\ n # NoId => IsLive(n)' /\ NodeOf(k, streams'[n.index])
    BY <1>7
  <2>5. \A k \in DOMAIN condense : /\ k \in DOMAIN condense'
                                   /\ condense[k].node # NoId => condense'[k].node = condense[k].node
    BY <1>7
  <2>6. DOMAIN streams \subseteq DOMAIN streams'
    BY <1>6
  <2>. QED
    BY <1>6, <2>1, <2>3, <2>4, <2>5, <2>6, NodesGrow
<1>9. MembersCounted'
  <2>. SUFFICES ASSUME NEW k \in DOMAIN condense'
                PROVE  /\ IsFiniteSet(condense'[k].members)
                       /\ condense'[k].node = NoId => condense'[k].members = {}
                       /\ condense'[k].node # NoId =>
                            MembersTrue(streams'[condense'[k].node.index], condense'[k].members)
    BY DEF MembersCounted, MembersTrue
  <2>1. CASE k \in DOMAIN condense
    <3>1. condense[k].node # NoId =>
            SameButKin(streams'[condense[k].node.index], streams[condense[k].node.index])
      BY <1>6, <2>1 DEF GroupsInv, NodesLive, IsLive
    <3>. QED
      BY <1>7, <2>1, <3>1 DEF GroupsInv, MembersCounted, MembersTrue, SameButKin
  <2>2. CASE k \notin DOMAIN condense
    BY <1>7, <2>2, FS_EmptySet
  <2>. QED
    BY <2>1, <2>2
<1>. QED
  BY <1>8, <1>9 DEF GroupsInv

\* A new node keeps the groups.
LEMMA NodeGroups ==
  ASSUME TypeOK, Arena, CursorLive, GroupsInv, NEW lay, lay = Head(todo),
         NEW c \in Folding(lay), FoldNewNode(c)
  PROVE  GroupsInv'
<1>1. PICK k, g, fresh, mid, s : NodeMade(c, lay, k, g, fresh, mid, s)
  BY NodeFacts
<1>k. k = GroupKey(parent, lay.protocol, c.anchor) /\ k \in DOMAIN condense
  BY <1>1 DEF NodeMade
<1>g. g = condense[k] /\ g \in Groups /\ ~IsLive(g.node)
  BY <1>1 DEF NodeMade
<1>m. /\ mid = Joined(fresh, g, c) /\ mid \in Streams /\ s = Touched(mid, lay, c.dir)
      /\ c.dir \in Directions
  BY <1>1 DEF NodeMade
<1>n. fresh.members = 0 /\ fresh.overflow = FALSE /\ fresh.met = {}
  <2>1. fresh = NewStream(lay.protocol, AnchorKey(c.anchor), TRUE)
    BY <1>1 DEF NodeMade
  <2>. QED
    BY <2>1 DEF NewStream
<1>c. Creates(fresh, s, lay) /\ fresh.key = AnchorKey(c.anchor) /\ fresh.condensed
  BY <1>1 DEF NodeMade
<1>2. PICK id : id = FreshId
  OBVIOUS
<1>3. condense' = [condense EXCEPT ![k] = Grown(g, c, id)]
  BY <1>1, <1>2 DEF NodeMade
<1>4. /\ id \in StreamIds /\ id # NoId
      /\ DOMAIN streams' = DOMAIN streams \cup {id.index} /\ streams'[id.index] = s
      /\ IsLive(id)'
      /\ \A j \in DOMAIN streams : SameButKin(streams'[j], streams[j])
      /\ \A x \in StreamIds : IsLive(x) => IsLive(x)'
  BY <1>c, <1>2, CreateRecords
<1>5. /\ lay \in Layers /\ fresh \in Streams /\ s \in Streams /\ s.id = id /\ s.parent = parent
      /\ s.protocol = lay.protocol /\ s.key = AnchorKey(c.anchor) /\ s.condensed
  BY <1>c, <1>2 DEF Creates
<1>6. g.node = NoId /\ g.members = {}
  BY <1>k, <1>g DEF GroupsInv, NodesLive, MembersCounted
<1>. DEFINE h == Grown(g, c, id)
<1>7. h.node = id /\ IsFiniteSet(h.members) /\ MembersTrue(s, h.members)
  <2>1. IsFiniteSet(g.members) /\ MembersTrue(fresh, g.members)
    BY <1>n, <1>6, FS_EmptySet, ConfigAssumption DEF MembersTrue
  <2>2. s.members = mid.members /\ s.overflow = mid.overflow /\ s.met = mid.met
    BY <1>m, <1>5, TouchedSame
  <2>3. /\ mid.members = fresh.members + MemberCount(g, c)
        /\ mid.overflow = (fresh.overflow \/ Overflows(g, c))
        /\ mid.met = fresh.met \cup {c.varying}
    BY <1>m, <1>5, JoinedSame
  <2>4. /\ s.members = fresh.members + MemberCount(g, c)
        /\ s.overflow = (fresh.overflow \/ Overflows(g, c))
        /\ s.met = fresh.met \cup {c.varying}
    BY <2>2, <2>3
  <2>5. g \in Groups /\ fresh \in Streams
    BY <1>g, <1>5
  <2>. QED
    BY <2>1, <2>4, <2>5, GrownCounts
<1>. HIDE DEF h
<1>9. /\ DOMAIN condense' = DOMAIN condense /\ condense'[k] = h
      /\ \A l \in DOMAIN condense : l # k => condense'[l] = condense[l]
  BY <1>k, <1>3 DEF h
<1>10. k = GroupKey(k.parent, k.protocol, k.anchor) /\ NodeOf(k, s)
  <2>1. k.parent = parent /\ k.protocol = lay.protocol /\ k.anchor = c.anchor
    BY <1>k DEF GroupKey
  <2>. QED
    BY <1>k, <1>5, <2>1 DEF NodeOf
<1>11. NodesLive' /\ NodesGrouped'
  <2>1. \A j \in DOMAIN streams : Keeps(streams'[j], streams[j])
    BY <1>4 DEF SameButKin, Keeps
  <2>2. Grouped(s, condense')
    <3>1. Condenses(lay.protocol)
      BY DEF Folding
    <3>2. s.key.lo = c.anchor
      BY <1>5 DEF AnchorKey
    <3>3. OwnGroup(s) = k
      BY <1>k, <1>5, <3>2 DEF OwnGroup
    <3>. QED
      BY <1>k, <1>5, <1>7, <1>9, <3>1, <3>2, <3>3 DEF Grouped
  <2>3. \A i \in DOMAIN streams' \ DOMAIN streams : Grouped(streams'[i], condense')
    BY <1>4, <2>2
  <2>4. \A l \in DOMAIN condense' : \A m : m = condense'[l].node =>
           \/ l \in DOMAIN condense /\ m = condense[l].node
           \/ /\ l = GroupKey(l.parent, l.protocol, l.anchor)
              /\ m # NoId => IsLive(m)' /\ NodeOf(l, streams'[m.index])
    <3>. SUFFICES ASSUME NEW l \in DOMAIN condense', NEW m, m = condense'[l].node
                  PROVE  \/ l \in DOMAIN condense /\ m = condense[l].node
                         \/ /\ l = GroupKey(l.parent, l.protocol, l.anchor)
                            /\ m # NoId => IsLive(m)' /\ NodeOf(l, streams'[m.index])
      OBVIOUS
    <3>1. CASE l = k
      <4>1. m = id
        BY <1>7, <1>9, <3>1
      <4>. QED
        BY <1>4, <1>10, <3>1, <4>1
    <3>2. CASE l # k
      BY <1>9, <3>2
    <3>. QED
      BY <3>1, <3>2
  <2>5. \A l \in DOMAIN condense : /\ l \in DOMAIN condense'
                                   /\ condense[l].node # NoId => condense'[l].node = condense[l].node
    BY <1>k, <1>g, <1>6, <1>9
  <2>6. DOMAIN streams \subseteq DOMAIN streams'
    BY <1>4
  <2>. QED
    BY <1>4, <2>1, <2>3, <2>4, <2>5, <2>6, NodesGrow
<1>12. MembersCounted'
  <2>. SUFFICES ASSUME NEW l \in DOMAIN condense
                PROVE  /\ IsFiniteSet(condense'[l].members)
                       /\ condense'[l].node = NoId => condense'[l].members = {}
                       /\ condense'[l].node # NoId =>
                            MembersTrue(streams'[condense'[l].node.index], condense'[l].members)
    BY <1>9 DEF MembersCounted, MembersTrue
  <2>1. CASE l = k
    <3>1. condense'[l] = h /\ h.node = id /\ streams'[id.index] = s
      BY <1>4, <1>7, <1>9, <2>1
    <3>. QED
      BY <1>4, <1>7, <3>1
  <2>2. CASE l # k
    <3>1. condense'[l] = condense[l]
      BY <1>9, <2>2
    <3>2. condense[l].node # NoId =>
            SameButKin(streams'[condense[l].node.index], streams[condense[l].node.index])
      BY <1>4 DEF GroupsInv, NodesLive, IsLive
    <3>. QED
      BY <3>1, <3>2 DEF GroupsInv, MembersCounted, MembersTrue, SameButKin
  <2>. QED
    BY <2>1, <2>2
<1>. QED
  BY <1>11, <1>12 DEF GroupsInv

\* Every step keeps the groups.
LEMMA GroupsStep ==
  ASSUME StoreInv, GroupsInv, [Next]_vars
  PROVE  GroupsInv'
<1>0. TypeOK /\ Arena /\ CursorLive /\ FinishInv /\ HandlesCurrent
  BY DEF StoreInv, Shape, Arena, Forest
<1>1. CASE Quiet
  BY <1>1 DEF Quiet, GroupsInv, NodesLive, NodesGrouped, MembersCounted, MembersTrue, IsLive
<1>2. CASE HitLayer
  <2>1. PICK lay : lay = Head(todo)
    OBVIOUS
  <2>2. PICK id : id = CHOOSE x \in Found(lay.protocol, FlowKey(lay)) : TRUE
    OBVIOUS
  <2>3. PICK new : new = Touched(streams[id.index], lay, Direction(lay))
    OBVIOUS
  <2>4. /\ lay \in Layers /\ Direction(lay) \in Directions /\ streams[id.index] \in Streams
        /\ Touches(id.index, Touched(streams[id.index], lay, Direction(lay)))
        /\ condense' = condense
    BY <1>0, <1>2, <2>1, <2>2, HitFacts
  <2>5. /\ new.members = streams[id.index].members /\ new.overflow = streams[id.index].overflow
        /\ new.met = streams[id.index].met
    BY <1>0, <2>3, <2>4, TouchedSame
  <2>. QED
    BY <1>0, <2>3, <2>4, <2>5, TouchGroups
<1>3. CASE CreateLayer
  BY <1>0, <1>3, CreateGroups
<1>4. CASE \E c \in Folding(Head(todo)) : FoldLayer(c) \/ FoldNewNode(c)
  BY <1>0, <1>4, FoldGroups, NodeGroups
<1>5. CASE LayersDone /\ IsLive(parent)
  <2>1. PICK i : i = parent.index
    OBVIOUS
  <2>2. PICK new : new = WithOpaque(streams[i])
    OBVIOUS
  <2>3. Touches(i, new) /\ SameData(new, streams[i])
    BY <1>0, <1>5, <2>1, <2>2, DoneFacts
  <2>4. condense' = condense
    BY <1>5 DEF LayersDone
  <2>. QED
    BY <1>0, <2>3, <2>4, TouchGroups DEF SameData
<1>6. CASE FinishRetain
  <2>1. PICK i : i = NextToClose.id.index
    OBVIOUS
  <2>2. PICK new : new = ClosedCopy(streams[i])
    OBVIOUS
  <2>3. Touches(i, new) /\ SameData(new, streams[i]) /\ condense' = condense
    BY <1>0, <1>6, <2>1, <2>2, RetainFacts
  <2>. QED
    BY <1>0, <2>3, TouchGroups DEF SameData
<1>7. CASE \E id \in StreamIds, reason \in Reasons :
             \E exp, cand : Evicts(id, reason, exp, cand)
  BY <1>0, <1>7, EvictGroups
<1>. QED
  BY <1>1, <1>2, <1>3, <1>4, <1>5, <1>6, <1>7, StepKinds

----------------------------------------------------------------------------
(* The tallies of the condense groups.                                     *)

\* A group belongs to a protocol that condenses and tallies no flow that is
\* gone.
TallyInv ==
  \A k \in DOMAIN condense :
    Condenses(k.protocol) /\ condense[k].expanded <= Cardinality(FlowsOf(k))

\* Only finitely many flows are live.
LEMMA FlowsFinite ==
  ASSUME TypeOK, NEW k
  PROVE  IsFiniteSet(FlowsOf(k)) /\ Cardinality(FlowsOf(k)) \in Nat
<1>1. FlowsOf(k) \subseteq DOMAIN streams
  BY DEF FlowsOf
<1>. QED
  BY <1>1, LiveFinite, FS_Subset, FS_CardinalityType

\* A step that adds and removes no stream and no tally keeps the tallies.
LEMMA KeepTally ==
  ASSUME TallyInv, DOMAIN streams' = DOMAIN streams,
         \A j \in DOMAIN streams : Keeps(streams'[j], streams[j]),
         DOMAIN condense' = DOMAIN condense,
         \A k \in DOMAIN condense : condense'[k].expanded = condense[k].expanded
  PROVE  TallyInv'
<1>1. \A k : FlowsOf(k)' = FlowsOf(k)
  BY DEF FlowsOf, Keeps
<1>. QED
  BY <1>1 DEF TallyInv, Condenses

\* What the tally of a new flow adds.
LEMMA TalliedCounts ==
  ASSUME TypeOK, NEW lay, NEW new, new = Tallied(lay), Condenses(lay.protocol),
         NEW k \in DOMAIN new
  PROVE  IF \E v \in {lay.a, lay.b} : k = GroupKey(parent, lay.protocol, v)
         THEN new[k].expanded = 1 + (IF k \in DOMAIN condense THEN condense[k].expanded ELSE 0)
         ELSE k \in DOMAIN condense /\ new[k].expanded = condense[k].expanded
<1>. DEFINE ks == {GroupKey(parent, lay.protocol, v) : v \in {lay.a, lay.b}}
            old == IF k \in DOMAIN condense THEN condense[k] ELSE EmptyGroup
<1>1. /\ k \in DOMAIN condense \cup ks
      /\ new[k] = IF k \in ks THEN [old EXCEPT !.expanded = @ + 1] ELSE old
  BY DEF Tallied
<1>2. EmptyGroup \in Groups /\ EmptyGroup.expanded = 0
  BY DEF EmptyGroup, Groups, NoId, StreamIds
<1>3. old \in Groups
  BY <1>2 DEF TypeOK, GroupsType
<1>4. [old EXCEPT !.expanded = @ + 1].expanded = 1 + old.expanded /\ old.expanded \in Nat
  <2>. HIDE DEF old
  <2>. QED
    BY <1>3 DEF Groups
<1>5. old.expanded = IF k \in DOMAIN condense THEN condense[k].expanded ELSE 0
  BY <1>2
<1>6. k \in ks <=> \E v \in {lay.a, lay.b} : k = GroupKey(parent, lay.protocol, v)
  OBVIOUS
<1>. HIDE DEF old, ks
<1>. QED
  BY <1>1, <1>4, <1>5, <1>6 DEF old

\* The two ends of a flow's key are the two ends of the layer.
LEMMA FlowKeyEnds == \A lay : {FlowKey(lay).lo, FlowKey(lay).hi} = {lay.a, lay.b}
  BY DEF FlowKey

\* A new stream joins the flows of its own groups, unless it is a node.
LEMMA CreateFlows ==
  ASSUME TypeOK, Arena, NEW fresh, NEW s, NEW lay, Creates(fresh, s, lay), NEW id, id = FreshId,
         NEW k
  PROVE  /\ id.index \notin FlowsOf(k)
         /\ FlowsOf(k)' = IF /\ ~s.condensed /\ k.parent = parent /\ k.protocol = lay.protocol
                             /\ k.anchor \in {s.key.lo, s.key.hi}
                          THEN FlowsOf(k) \cup {id.index} ELSE FlowsOf(k)
<1>1. /\ id.index \notin DOMAIN streams
      /\ DOMAIN streams' = DOMAIN streams \cup {id.index} /\ streams'[id.index] = s
      /\ \A j \in DOMAIN streams : Keeps(streams'[j], streams[j])
  BY CreateRecords DEF SameButKin, Keeps
<1>2. s.parent = parent /\ s.protocol = lay.protocol
  BY DEF Creates
<1>. QED
  BY <1>1, <1>2 DEF FlowsOf, Keeps

\* A new flow is tallied toward both its anchors.
LEMMA CreateTally ==
  ASSUME TypeOK, Arena, CursorLive, TallyInv, CreateLayer
  PROVE  TallyInv'
<1>1. PICK lay : lay = Head(todo)
  OBVIOUS
<1>2. PICK fresh : fresh = NewStream(lay.protocol, FlowKey(lay), FALSE)
  OBVIOUS
<1>3. PICK s : s = Touched(fresh, lay, Direction(lay))
  OBVIOUS
<1>4. /\ Creates(fresh, s, lay) /\ fresh.key = FlowKey(lay) /\ ~fresh.condensed
      /\ condense' = Tallied(lay)
  BY <1>1, <1>2, <1>3, CreateFacts
<1>5. s.key = FlowKey(lay) /\ ~s.condensed
  BY <1>4 DEF Creates
<1>6. PICK id : id = FreshId
  OBVIOUS
<1>. SUFFICES ASSUME NEW k \in DOMAIN condense'
              PROVE  Condenses(k.protocol) /\ condense'[k].expanded <= Cardinality(FlowsOf(k)')
  BY DEF TallyInv, Condenses
<1>. DEFINE mine == \E v \in {lay.a, lay.b} : k = GroupKey(parent, lay.protocol, v)
            old == FlowsOf(k)
            new == FlowsOf(k)'
<1>7. /\ id.index \notin old
      /\ new = IF k.parent = parent /\ k.protocol = lay.protocol /\ k.anchor \in {lay.a, lay.b}
               THEN old \cup {id.index} ELSE old
  BY <1>4, <1>5, <1>6, CreateFlows, FlowKeyEnds
<1>8. IsFiniteSet(old) /\ Cardinality(old) \in Nat
  BY FlowsFinite
<1>9. mine => k.parent = parent /\ k.protocol = lay.protocol /\ k.anchor \in {lay.a, lay.b}
  BY DEF GroupKey
<1>. HIDE DEF old, new
<1>10. /\ Cardinality(new) \in Nat /\ Cardinality(old) <= Cardinality(new)
       /\ mine => Cardinality(new) = Cardinality(old) + 1
  <2>1. IsFiniteSet(old \cup {id.index}) /\ Cardinality(old \cup {id.index}) = Cardinality(old) + 1
    BY <1>7, <1>8, FS_AddElement
  <2>. HIDE DEF mine
  <2>. QED
    BY <1>7, <1>8, <1>9, <2>1
<1>11. k \in DOMAIN condense => /\ Condenses(k.protocol) /\ condense[k].expanded <= Cardinality(old)
                                /\ condense[k].expanded \in Nat
  BY DEF TallyInv, old, TypeOK, GroupsType, Groups
<1>12. CASE ~Condenses(lay.protocol)
  <2>1. condense' = condense
    BY <1>4, <1>12 DEF Tallied
  <2>. QED
    BY <1>8, <1>10, <1>11, <2>1 DEF new
<1>13. CASE Condenses(lay.protocol)
  <2>1. IF mine
        THEN condense'[k].expanded = 1 + (IF k \in DOMAIN condense THEN condense[k].expanded ELSE 0)
        ELSE k \in DOMAIN condense /\ condense'[k].expanded = condense[k].expanded
    BY <1>4, <1>13, TalliedCounts
  <2>2. CASE mine
    <3>1. Condenses(k.protocol)
      BY <1>9, <1>13, <2>2
    <3>2. condense'[k].expanded <= Cardinality(new)
      <4>. HIDE DEF mine
      <4>. QED
        BY <1>8, <1>10, <1>11, <2>1, <2>2
    <3>. QED
      BY <3>1, <3>2 DEF new
  <2>3. CASE ~mine
    <3>1. Condenses(k.protocol) /\ condense'[k].expanded <= Cardinality(new)
      <4>. HIDE DEF mine
      <4>. QED
        BY <1>8, <1>10, <1>11, <2>1, <2>3
    <3>. QED
      BY <3>1 DEF new
  <2>. QED
    BY <2>2, <2>3
<1>. QED
  BY <1>12, <1>13

\* A new node is no flow, and its group keeps its tally.
LEMMA NodeTally ==
  ASSUME TypeOK, Arena, CursorLive, TallyInv, NEW lay, lay = Head(todo),
         NEW c \in Folding(lay), FoldNewNode(c)
  PROVE  TallyInv'
<1>1. PICK k, g, fresh, mid, s : NodeMade(c, lay, k, g, fresh, mid, s)
  BY NodeFacts
<1>2. /\ Creates(fresh, s, lay) /\ fresh.condensed /\ g = condense[k]
      /\ k \in DOMAIN condense /\ condense' = [condense EXCEPT ![k] = Grown(g, c, FreshId)]
  BY <1>1 DEF NodeMade
<1>3. s.condensed
  BY <1>2 DEF Creates
<1>4. PICK id : id = FreshId
  OBVIOUS
<1>5. \A l : FlowsOf(l)' = FlowsOf(l)
  BY <1>2, <1>3, <1>4, CreateFlows
<1>6. DOMAIN condense' = DOMAIN condense
      /\ \A l \in DOMAIN condense : condense'[l].expanded = condense[l].expanded
  <2>1. Grown(g, c, FreshId).expanded = condense[k].expanded
    BY <1>2 DEF Grown
  <2>. QED
    BY <1>2, <2>1
<1>. QED
  BY <1>5, <1>6 DEF TallyInv, Condenses

\* An evicted flow leaves the tallies of its groups.
LEMMA EvictTally ==
  ASSUME TypeOK, Arena, GroupsInv, TallyInv, NEW id, NEW reason, NEW exp, NEW cand,
         Evicts(id, reason, exp, cand)
  PROVE  TallyInv'
<1>. DEFINE i == id.index
            s == streams[i]
            ks == {GroupKey(s.parent, s.protocol, v) : v \in {s.key.lo, s.key.hi}}
            less(k) == MinusOrZero(condense[k].expanded, 1)
<1>1. /\ i \in DOMAIN streams /\ DOMAIN streams' = DOMAIN streams \ {i}
      /\ \A j \in DOMAIN streams' : Keeps(streams'[j], streams[j])
  BY EvictRecords DEF SameButKin, Keeps
<1>2. condense' = CondenseEvict(s)
  BY DEF Evicts, Evict
<1>. SUFFICES ASSUME NEW k \in DOMAIN condense'
              PROVE  Condenses(k.protocol) /\ condense'[k].expanded <= Cardinality(FlowsOf(k)')
  BY DEF TallyInv, Condenses
<1>3. /\ k \in DOMAIN condense
      /\ Condenses(s.protocol) /\ s.condensed => k \notin ks
      /\ condense'[k].expanded = IF Condenses(s.protocol) /\ k \in ks THEN less(k)
                                 ELSE condense[k].expanded
  <2>1. CASE ~Condenses(s.protocol)
    BY <1>2, <2>1 DEF CondenseEvict
  <2>2. CASE Condenses(s.protocol)
    <3>1. /\ k \in DOMAIN condense /\ (s.condensed => k \notin ks)
          /\ condense'[k] = IF k \in ks THEN [condense[k] EXCEPT !.expanded = less(k)] ELSE condense[k]
      BY <1>2, <2>2 DEF CondenseEvict
    <3>2. condense[k] \in Groups
      BY <3>1 DEF TypeOK, GroupsType
    <3>3. [condense[k] EXCEPT !.expanded = less(k)].expanded = less(k)
      BY <3>2 DEF Groups
    <3>. HIDE DEF ks, less
    <3>. QED
      BY <2>2, <3>1, <3>3
  <2>. QED
    BY <2>1, <2>2
<1>4. /\ Condenses(k.protocol) /\ condense[k].expanded <= Cardinality(FlowsOf(k))
      /\ condense[k].expanded \in Nat
  BY <1>3 DEF TallyInv, TypeOK, GroupsType, Groups
<1>5. k = GroupKey(k.parent, k.protocol, k.anchor)
  BY <1>3 DEF GroupsInv, NodesLive
<1>6. i \in FlowsOf(k) <=> ~s.condensed /\ k \in ks
  <2>1. i \in FlowsOf(k) => k \in ks /\ ~s.condensed
    BY <1>5 DEF FlowsOf
  <2>2. k \in ks => k.parent = s.parent /\ k.protocol = s.protocol /\ k.anchor \in {s.key.lo, s.key.hi}
    BY DEF GroupKey
  <2>3. ~s.condensed /\ k \in ks => i \in FlowsOf(k)
    <3>. HIDE DEF ks
    <3>. QED
      BY <1>1, <2>2 DEF FlowsOf
  <2>. QED
    BY <2>1, <2>3
<1>7. FlowsOf(k)' = FlowsOf(k) \ {i}
  BY <1>1 DEF FlowsOf, Keeps
<1>8. k \in ks => k.protocol = s.protocol
  BY DEF GroupKey
<1>. HIDE DEF ks, s, i
<1>9. CASE i \in FlowsOf(k)
  <2>1. Condenses(s.protocol) /\ k \in ks
    BY <1>4, <1>6, <1>8, <1>9
  <2>2. condense'[k].expanded = less(k)
    <3>. HIDE DEF less
    <3>. QED
      BY <1>3, <2>1
  <2>3. Cardinality(FlowsOf(k) \ {i}) = Cardinality(FlowsOf(k)) - 1 /\ Cardinality(FlowsOf(k)) \in Nat
        /\ Cardinality(FlowsOf(k) \ {i}) \in Nat
    <3>1. IsFiniteSet(FlowsOf(k)) /\ Cardinality(FlowsOf(k)) \in Nat
      BY FlowsFinite
    <3>2. IsFiniteSet(FlowsOf(k) \ {i}) /\ Cardinality(FlowsOf(k) \ {i}) = Cardinality(FlowsOf(k)) - 1
      BY <1>9, <3>1, FS_RemoveElement
    <3>. QED
      BY <3>1, <3>2, FS_CardinalityType
  <2>4. less(k) <= Cardinality(FlowsOf(k)) - 1
    BY <1>4, <2>3 DEF MinusOrZero
  <2>. HIDE DEF less
  <2>. QED
    BY <1>4, <1>7, <2>2, <2>3, <2>4
<1>10. CASE i \notin FlowsOf(k)
  <2>1. FlowsOf(k)' = FlowsOf(k)
    BY <1>7, <1>10
  <2>2. condense'[k].expanded = condense[k].expanded
    <3>. HIDE DEF less
    <3>. QED
      BY <1>3, <1>6, <1>10
  <2>. QED
    BY <1>4, <2>1, <2>2
<1>. QED
  BY <1>9, <1>10

\* Every step keeps the tallies.
LEMMA TallyStep ==
  ASSUME StoreInv, GroupsInv, TallyInv, [Next]_vars
  PROVE  TallyInv'
<1>0. TypeOK /\ Arena /\ CursorLive /\ FinishInv /\ HandlesCurrent
  BY DEF StoreInv, Shape, Arena, Forest
<1>1. ASSUME NEW i, NEW new, Touches(i, new), DOMAIN condense' = DOMAIN condense,
             \A k \in DOMAIN condense : condense'[k].expanded = condense[k].expanded
      PROVE  TallyInv'
  <2>1. DOMAIN streams' = DOMAIN streams /\ \A j \in DOMAIN streams : Keeps(streams'[j], streams[j])
    BY <1>1 DEF Touches, SameStream, Keeps
  <2>. QED
    BY <1>1, <2>1, KeepTally
<1>2. CASE Quiet
  <2>1. /\ DOMAIN streams' = DOMAIN streams /\ condense' = condense
        /\ \A j \in DOMAIN streams : Keeps(streams'[j], streams[j])
    BY <1>2 DEF Quiet, Keeps
  <2>. QED
    BY <2>1, KeepTally
<1>3. CASE HitLayer
  <2>1. PICK lay : lay = Head(todo)
    OBVIOUS
  <2>2. PICK id : id = CHOOSE x \in Found(lay.protocol, FlowKey(lay)) : TRUE
    OBVIOUS
  <2>3. Touches(id.index, Touched(streams[id.index], lay, Direction(lay))) /\ condense' = condense
    BY <1>0, <1>3, <2>1, <2>2, HitFacts
  <2>. QED
    BY <1>1, <2>3
<1>4. CASE CreateLayer
  BY <1>0, <1>4, CreateTally
<1>5. ASSUME NEW c \in Folding(Head(todo)), FoldLayer(c) PROVE TallyInv'
  <2>1. PICK lay : lay = Head(todo)
    OBVIOUS
  <2>2. PICK k : k = GroupKey(parent, lay.protocol, c.anchor)
    OBVIOUS
  <2>3. PICK g : g = condense[k]
    OBVIOUS
  <2>4. /\ Touches(g.node.index, Touched(Joined(streams[g.node.index], g, c), lay, c.dir))
        /\ condense' = [condense EXCEPT ![k] = Grown(g, c, g.node)]
    BY <1>0, <1>5, <2>1, <2>2, <2>3, FoldFacts
  <2>5. Grown(g, c, g.node).expanded = condense[k].expanded
    BY <2>3 DEF Grown
  <2>6. DOMAIN condense' = DOMAIN condense
        /\ \A l \in DOMAIN condense : condense'[l].expanded = condense[l].expanded
    BY <2>4, <2>5
  <2>. QED
    BY <1>1, <2>4, <2>6
<1>6. ASSUME NEW c \in Folding(Head(todo)), FoldNewNode(c) PROVE TallyInv'
  BY <1>0, <1>6, NodeTally
<1>7. CASE LayersDone /\ IsLive(parent)
  <2>1. condense' = condense
    BY <1>7 DEF LayersDone
  <2>. QED
    BY <1>0, <1>1, <1>7, <2>1, DoneFacts
<1>8. CASE FinishRetain
  <2>1. PICK i : i = NextToClose.id.index
    OBVIOUS
  <2>2. Touches(i, ClosedCopy(streams[i])) /\ condense' = condense
    BY <1>0, <1>8, <2>1, RetainFacts
  <2>. QED
    BY <1>1, <2>2
<1>9. CASE \E id \in StreamIds, reason \in Reasons :
             \E exp, cand : Evicts(id, reason, exp, cand)
  BY <1>0, <1>9, EvictTally
<1>. QED
  BY <1>2, <1>3, <1>4, <1>5, <1>6, <1>7, <1>8, <1>9, StepKinds

\* A node counts exactly the members that were folded into it until one no
\* longer fits, which alone sets its overflow flag, and a group tallies no
\* expanded flow that is gone (condense_fold, condense_evict).
THEOREM MembersCorrect == Spec => []MembersExact
<1>1. Init => GroupsInv /\ TallyInv
  BY DEF Init, GroupsInv, NodesLive, NodesGrouped, MembersCounted, TallyInv
<1>2. GroupsInv /\ TallyInv => MembersExact
  BY DEF GroupsInv, NodesLive, NodeOf, MembersCounted, MembersExact, TallyInv
<1>. QED
  BY <1>1, <1>2, GroupsStep, TallyStep, StoreCorrect, PTL DEF Spec

----------------------------------------------------------------------------
(* The lookup index.                                                       *)

Entry(s) == [parent |-> s.parent, protocol |-> s.protocol, hash |-> KeyHash(s.key), id |-> s.id]
SameFlow(s, t) == s.parent = t.parent /\ s.protocol = t.protocol /\ s.key = t.key

\* IndexExact, said of slots: the entries are those of the live streams, and no
\* two live streams are one flow.
LEMMA IndexMeaning ==
  IndexExact <=> /\ index = {Entry(streams[i]) : i \in DOMAIN streams}
                 /\ \A i, j \in DOMAIN streams : SameFlow(streams[i], streams[j]) => i = j
  BY DEF IndexExact, Entry, SameFlow

\* The index stays exact when the records keep their names.
LEMMA KeepIndex ==
  ASSUME IndexExact, DOMAIN streams' = DOMAIN streams, index' = index,
         \A j \in DOMAIN streams : Keeps(streams'[j], streams[j])
  PROVE  IndexExact'
<1>1. \A j \in DOMAIN streams : Entry(streams'[j]) = Entry(streams[j])
  BY DEF Keeps, Entry
<1>2. {Entry(streams[i]) : i \in DOMAIN streams} = {Entry(streams'[i]) : i \in DOMAIN streams'}
  <2>. HIDE DEF Entry
  <2>. QED
    BY <1>1
<1>3. index' = {Entry(streams'[i]) : i \in DOMAIN streams'}
  BY <1>2, IndexMeaning
<1>4. \A i, j \in DOMAIN streams' : SameFlow(streams'[i], streams'[j]) => i = j
  BY IndexMeaning DEF Keeps, SameFlow
<1>. QED
  BY <1>3, <1>4 DEF IndexExact, Entry, SameFlow

\* A stream that is created without a twin is found from then on.
LEMMA CreateIndex ==
  ASSUME TypeOK, Arena, IndexExact, NEW fresh, NEW s, NEW lay, Creates(fresh, s, lay),
         \A i \in DOMAIN streams : ~SameFlow(streams[i], s)
  PROVE  IndexExact'
<1>1. PICK id : id = FreshId
  OBVIOUS
<1>2. /\ id.index \notin DOMAIN streams
      /\ DOMAIN streams' = DOMAIN streams \cup {id.index} /\ streams'[id.index] = s
      /\ \A j \in DOMAIN streams : SameButKin(streams'[j], streams[j])
  BY <1>1, CreateRecords
<1>3. index' = index \cup {Entry(s)}
  BY DEF Creates, Create, Entry
<1>4. \A j \in DOMAIN streams : Entry(streams'[j]) = Entry(streams[j])
  BY <1>2 DEF SameButKin, Entry
<1>5. index' = {Entry(streams'[i]) : i \in DOMAIN streams'}
  <2>1. index = {Entry(streams[i]) : i \in DOMAIN streams}
    BY IndexMeaning
  <2>. HIDE DEF Entry
  <2>2. {Entry(streams'[i]) : i \in DOMAIN streams'} = {Entry(streams[i]) : i \in DOMAIN streams} \cup {Entry(s)}
    BY <1>2, <1>4
  <2>. QED
    BY <1>3, <2>1, <2>2
<1>6. \A i, j \in DOMAIN streams' : SameFlow(streams'[i], streams'[j]) => i = j
  <2>1. \A i, j \in DOMAIN streams : SameFlow(streams[i], streams[j]) => i = j
    BY IndexMeaning
  <2>2. \A i, j \in DOMAIN streams : SameFlow(streams'[i], streams'[j]) => i = j
    BY <1>2, <2>1 DEF SameButKin, SameFlow
  <2>3. \A i \in DOMAIN streams : ~SameFlow(streams'[i], s) /\ ~SameFlow(s, streams'[i])
    BY <1>2 DEF SameButKin, SameFlow
  <2>. HIDE DEF SameFlow
  <2>. QED
    BY <1>2, <2>2, <2>3
<1>. QED
  BY <1>5, <1>6 DEF IndexExact, Entry, SameFlow

\* The index forgets exactly the evicted stream, even in a shared bucket.
LEMMA EvictIndex ==
  ASSUME TypeOK, Arena, IndexExact, NEW id, NEW reason, NEW exp, NEW cand,
         Evicts(id, reason, exp, cand)
  PROVE  IndexExact'
<1>1. PICK s : s = streams[id.index]
  OBVIOUS
<1>2. /\ id.index \in DOMAIN streams /\ s.id = id
      /\ DOMAIN streams' = DOMAIN streams \ {id.index}
      /\ \A j \in DOMAIN streams' : SameButKin(streams'[j], streams[j])
  BY <1>1, EvictRecords
<1>3. index' = {e \in index : ~ /\ e.parent = s.parent
                                /\ e.protocol = s.protocol
                                /\ e.hash = KeyHash(s.key)
                                /\ e.id = id}
  BY <1>1 DEF Evicts, Evict
<1>4. index = {Entry(streams[i]) : i \in DOMAIN streams}
  BY IndexMeaning
<1>5. /\ Entry(s).parent = s.parent /\ Entry(s).protocol = s.protocol
      /\ Entry(s).hash = KeyHash(s.key) /\ Entry(s).id = id
  BY <1>2 DEF Entry
<1>6. \A j \in DOMAIN streams : j # id.index => Entry(streams[j]).id # id
  <2>1. \A j \in DOMAIN streams : streams[j].id = [index |-> j, generation |-> generation[j]]
    BY DEF Arena, Forest, HandlesCurrent
  <2>2. ASSUME NEW j \in DOMAIN streams PROVE streams[j].id.index = j
    <3>1. streams[j].id = [index |-> j, generation |-> generation[j]]
      BY <2>1
    <3>. QED
      BY <3>1
  <2>3. \A t : Entry(t).id = t.id
    BY DEF Entry
  <2>. HIDE DEF Entry
  <2>. QED
    BY <2>2, <2>3
<1>7. \A j \in DOMAIN streams' : Entry(streams'[j]) = Entry(streams[j])
  BY <1>2 DEF SameButKin, Entry
<1>8. index' = {Entry(streams'[i]) : i \in DOMAIN streams'}
  <2>. HIDE DEF Entry
  <2>1. index' = {Entry(streams[i]) : i \in DOMAIN streams'}
    BY <1>1, <1>2, <1>3, <1>4, <1>5, <1>6
  <2>. QED
    BY <1>7, <2>1
<1>9. \A i, j \in DOMAIN streams' : SameFlow(streams'[i], streams'[j]) => i = j
  <2>1. \A i, j \in DOMAIN streams : SameFlow(streams[i], streams[j]) => i = j
    BY IndexMeaning
  <2>. QED
    BY <1>2, <2>1 DEF SameButKin, SameFlow
<1>. QED
  BY <1>8, <1>9 DEF IndexExact, Entry, SameFlow

\* The lookup finds every live flow, so a miss creates no twin.
LEMMA MissNoTwin ==
  ASSUME TypeOK, Arena, IndexExact, NEW proto, NEW key, Found(proto, key) = {},
         NEW i \in DOMAIN streams, streams[i].parent = parent, streams[i].protocol = proto,
         streams[i].key = key
  PROVE  FALSE
<1>1. PICK e : e = Entry(streams[i])
  OBVIOUS
<1>2. e \in index
  BY <1>1, IndexMeaning
<1>3. e.parent = parent /\ e.protocol = proto /\ e.hash = KeyHash(key) /\ e.id = streams[i].id
  BY <1>1 DEF Entry
<1>4. streams[i].id.index = i /\ IsLive(streams[i].id)
  <2>1. streams[i].id = [index |-> i, generation |-> generation[i]]
    BY DEF Arena, Forest, HandlesCurrent
  <2>. QED
    BY <2>1 DEF IsLive
<1>5. e.id \in Found(proto, key)
  BY <1>2, <1>3, <1>4 DEF Found
<1>. QED
  BY <1>5

\* Every step keeps the index exact.
LEMMA IndexStep ==
  ASSUME StoreInv, GroupsInv, IndexExact, [Next]_vars
  PROVE  IndexExact'
<1>0. TypeOK /\ Arena /\ CursorLive /\ FinishInv /\ HandlesCurrent
  BY DEF StoreInv, Shape, Arena, Forest
<1>1. ASSUME NEW i, NEW new, Touches(i, new) PROVE IndexExact'
  <2>1. /\ DOMAIN streams' = DOMAIN streams /\ index' = index
        /\ \A j \in DOMAIN streams : Keeps(streams'[j], streams[j])
    BY <1>1 DEF Touches, SameStream, Keeps
  <2>. QED
    BY <2>1, KeepIndex
<1>2. CASE Quiet
  <2>1. /\ DOMAIN streams' = DOMAIN streams /\ index' = index
        /\ \A j \in DOMAIN streams : Keeps(streams'[j], streams[j])
    BY <1>2 DEF Quiet, Keeps
  <2>. QED
    BY <2>1, KeepIndex
<1>3. CASE HitLayer
  <2>1. PICK lay : lay = Head(todo)
    OBVIOUS
  <2>2. PICK id : id = CHOOSE x \in Found(lay.protocol, FlowKey(lay)) : TRUE
    OBVIOUS
  <2>3. Touches(id.index, Touched(streams[id.index], lay, Direction(lay)))
    BY <1>0, <1>3, <2>1, <2>2, HitFacts
  <2>. QED
    BY <1>1, <2>3
<1>4. CASE CreateLayer
  <2>1. PICK lay : lay = Head(todo)
    OBVIOUS
  <2>2. PICK fresh : fresh = NewStream(lay.protocol, FlowKey(lay), FALSE)
    OBVIOUS
  <2>3. PICK s : s = Touched(fresh, lay, Direction(lay))
    OBVIOUS
  <2>4. Creates(fresh, s, lay) /\ fresh.key = FlowKey(lay) /\ Found(lay.protocol, FlowKey(lay)) = {}
    BY <1>0, <1>4, <2>1, <2>2, <2>3, CreateFacts
  <2>5. s.parent = parent /\ s.protocol = lay.protocol /\ s.key = FlowKey(lay)
    BY <2>4 DEF Creates
  <2>6. \A i \in DOMAIN streams : ~SameFlow(streams[i], s)
    BY <1>0, <2>4, <2>5, MissNoTwin DEF SameFlow
  <2>. QED
    BY <1>0, <2>4, <2>6, CreateIndex
<1>5. ASSUME NEW c \in Folding(Head(todo)), FoldLayer(c) PROVE IndexExact'
  <2>1. PICK lay : lay = Head(todo)
    OBVIOUS
  <2>2. PICK k : k = GroupKey(parent, lay.protocol, c.anchor)
    OBVIOUS
  <2>3. PICK g : g = condense[k]
    OBVIOUS
  <2>4. Touches(g.node.index, Touched(Joined(streams[g.node.index], g, c), lay, c.dir))
    BY <1>0, <1>5, <2>1, <2>2, <2>3, FoldFacts
  <2>. QED
    BY <1>1, <2>4
<1>6. ASSUME NEW c \in Folding(Head(todo)), FoldNewNode(c) PROVE IndexExact'
  <2>1. PICK lay : lay = Head(todo)
    OBVIOUS
  <2>2. PICK k, g, fresh, mid, s : NodeMade(c, lay, k, g, fresh, mid, s)
    BY <1>0, <1>6, <2>1, NodeFacts
  <2>3. Creates(fresh, s, lay) /\ fresh.key = AnchorKey(c.anchor)
    BY <2>2 DEF NodeMade
  <2>4. k = GroupKey(parent, lay.protocol, c.anchor) /\ k \in DOMAIN condense
    BY <2>2 DEF NodeMade
  <2>5. g = condense[k] /\ ~IsLive(g.node)
    BY <2>2 DEF NodeMade
  <2>6. s.parent = parent /\ s.protocol = lay.protocol /\ s.key = AnchorKey(c.anchor)
    BY <2>3 DEF Creates
  <2>7. condense[k].node = NoId
    BY <2>4, <2>5 DEF GroupsInv, NodesLive
  <2>8. ASSUME NEW i \in DOMAIN streams, SameFlow(streams[i], s) PROVE FALSE
    <3>1. /\ streams[i].parent = parent /\ streams[i].protocol = lay.protocol
          /\ streams[i].key = AnchorKey(c.anchor)
      BY <2>6, <2>8 DEF SameFlow
    <3>2. streams[i].key.lo = c.anchor /\ streams[i].key.kind = "anchor"
      BY <3>1 DEF AnchorKey
    <3>3. OwnGroup(streams[i]) = k
      BY <2>4, <3>1, <3>2 DEF OwnGroup
    <3>4. streams[i].condensed /\ condense[k].node = streams[i].id
      BY <3>2, <3>3 DEF GroupsInv, NodesGrouped
    <3>5. streams[i].id # NoId
      BY <1>0, LiveFacts DEF Arena, Forest
    <3>. QED
      BY <2>7, <3>4, <3>5
  <2>. QED
    BY <1>0, <2>3, <2>8, CreateIndex
<1>7. CASE LayersDone /\ IsLive(parent)
  BY <1>0, <1>1, <1>7, DoneFacts
<1>8. CASE FinishRetain
  BY <1>0, <1>1, <1>8, RetainFacts
<1>9. CASE \E id \in StreamIds, reason \in Reasons :
             \E exp, cand : Evicts(id, reason, exp, cand)
  BY <1>0, <1>9, EvictIndex
<1>. QED
  BY <1>2, <1>3, <1>4, <1>5, <1>6, <1>7, <1>8, <1>9, StepKinds

\* The groups and the index hold together: the index alone is not inductive,
\* as only NodesGrouped rules out a second node for a triggered anchor.
THEOREM IndexCorrect == Spec => []IndexExact
<1>1. Init => GroupsInv /\ IndexExact
  BY DEF Init, GroupsInv, NodesLive, NodesGrouped, MembersCounted, IndexExact
<1>. QED
  BY <1>1, GroupsStep, IndexStep, StoreCorrect, PTL DEF Spec

----------------------------------------------------------------------------
(* What the sink was given.  A slot's generation counts its evictions, so  *)
(* under the Live policy the handles in the sink are older than their      *)
(* slots as long as no generation has wrapped; without eviction, the sink  *)
(* holds copies of live streams, children first.                           *)

NoWrap == Live => Len(sink) < GenerationCount

SinkType == sink \in Seq([stream : Streams, reason : Reasons])
SeqDistinct == \A i, j \in DOMAIN streams : streams[i].seq = streams[j].seq => i = j
GenerationsBounded == \A i \in 1..Len(generation) : generation[i] <= Len(sink)

\* The handle t.id is older than its slot, and t's number is taken.
Retired(t) ==
  /\ t.seq < nextSeq
  /\ t.id.index \in 1..Len(generation) /\ t.id.generation < generation[t.id.index]
  /\ \A i \in DOMAIN streams : t.seq # streams[i].seq
\* u may come after t in the sink.
After(t, u) == t.seq # u.seq /\ t.id # u.parent /\ t.id # u.id
EvictedInv ==
  /\ GenerationsBounded
  /\ \A k \in 1..Len(sink) : Retired(sink[k].stream)
  /\ \A j, k \in 1..Len(sink) : j < k => After(sink[j].stream, sink[k].stream)

\* t is a copy of a live stream.
Retained(t) ==
  \E i \in DOMAIN streams :
    t.id = streams[i].id /\ t.seq = streams[i].seq /\ t.parent = streams[i].parent
RetainedInv ==
  /\ pc \notin {"finish", "done"} => sink = <<>>
  /\ \A k \in 1..Len(sink) : Retained(sink[k].stream)
  /\ \A j, k \in 1..Len(sink) : j < k => After(sink[j].stream, sink[k].stream)
  /\ pc = "finish" => \A k \in 1..Len(sink) : \A x \in finishing :
       sink[k].stream.id # x.id /\ sink[k].stream.id # streams[x.id.index].parent

SinkInv ==
  /\ SinkType /\ SeqDistinct
  /\ Live /\ NoWrap => EvictedInv
  /\ ~Live => RetainedInv

\* finish() comes after ingest, once.
LEMMA PcSteps ==
  ASSUME [Next]_vars
  PROVE  /\ pc \in {"finish", "done"} => pc' \in {"finish", "done"} /\ finishing' \subseteq finishing
         /\ pc' = "finish" => pc \in {"idle", "finish"}
         /\ pc' = "done" => pc \in {"finish", "done"}
<1>1. CASE Arrive \/ Finish
  BY <1>1 DEF Arrive, Ingest, Finish
<1>2. CASE Sweep
  BY <1>2 DEF Sweep, SweepDrop, SweepRepush, SweepEvict, SweepDone
<1>3. CASE Layer
  BY <1>3 DEF Layer, SkipLayer, KeyErrorLayer, HitLayer, CreateLayer, FoldAny, FoldLayer, FoldNewNode
<1>4. CASE LayersDone \/ Enforce
  BY <1>4 DEF LayersDone, Enforce, EnforceDrop, EnforceRepush, EnforceEvict, EnforceDone
<1>5. CASE Finishing
  BY <1>5 DEF Finishing, FinishEvict, FinishRetain, FinishDone
<1>6. CASE Closed \/ UNCHANGED vars
  BY <1>6 DEF Closed, vars
<1>. QED
  BY <1>1, <1>2, <1>3, <1>4, <1>5, <1>6 DEF Next, Step

\* Appending to the sink.
LEMMA SinkGrows ==
  ASSUME SinkType, NEW t \in Streams, NEW reason \in Reasons,
         sink' = Append(sink, [stream |-> t, reason |-> reason])
  PROVE  /\ SinkType' /\ Len(sink) \in Nat /\ Len(sink') = Len(sink) + 1
         /\ sink'[Len(sink')].stream = t
         /\ \A k \in 1..Len(sink) : sink'[k] = sink[k] /\ sink[k].stream \in Streams
         /\ \A k \in 1..Len(sink') : k \in 1..Len(sink) \/ k = Len(sink')
<1>. DEFINE R == [stream : Streams, reason : Reasons]
            r == [stream |-> t, reason |-> reason]
<1>1. r \in R /\ r.stream = t /\ sink \in Seq(R)
  BY DEF SinkType
<1>2. \A x \in R : x.stream \in Streams
  OBVIOUS
<1>. HIDE DEF R, r
<1>3. /\ sink' = Append(sink, r) /\ Append(sink, r) \in Seq(R)
      /\ Len(Append(sink, r)) = Len(sink) + 1
      /\ Append(sink, r)[Len(sink) + 1] = r
      /\ \A k \in 1..Len(sink) : Append(sink, r)[k] = sink[k] /\ sink[k] \in R
      /\ Len(sink) \in Nat
  BY <1>1 DEF r
<1>4. SinkType'
  BY <1>3 DEF SinkType, R
<1>. QED
  BY <1>1, <1>2, <1>3, <1>4

\* A generation below the wrap is its own residue.
LEMMA SmallMod ==
  ASSUME NEW m \in Nat, NEW n \in Nat, m < n
  PROVE  m % n = m
  OBVIOUS

\* The sink stays ordered when a stream that may come last is appended.
LEMMA OrderGrows ==
  ASSUME SinkType, NEW t \in Streams, NEW reason \in Reasons,
         sink' = Append(sink, [stream |-> t, reason |-> reason]),
         \A j, k \in 1..Len(sink) : j < k => After(sink[j].stream, sink[k].stream),
         \A k \in 1..Len(sink) : After(sink[k].stream, t)
  PROVE  \A j, k \in 1..Len(sink') : j < k => After(sink'[j].stream, sink'[k].stream)
<1>. SUFFICES ASSUME NEW j \in 1..Len(sink'), NEW k \in 1..Len(sink'), j < k
              PROVE  After(sink'[j].stream, sink'[k].stream)
  OBVIOUS
<1>1. /\ Len(sink) \in Nat /\ Len(sink') = Len(sink) + 1
      /\ sink'[Len(sink')].stream = t
      /\ \A i \in 1..Len(sink) : sink'[i] = sink[i]
  BY SinkGrows
<1>2. j \in 1..Len(sink)
  BY <1>1
<1>3. CASE k \in 1..Len(sink)
  BY <1>1, <1>2, <1>3
<1>4. CASE k \notin 1..Len(sink)
  <2>1. k = Len(sink')
    BY <1>1, <1>4
  <2>. QED
    BY <1>1, <1>2, <2>1
<1>. QED
  BY <1>3, <1>4

\* The handle of an evicted leaf is retired, and was not before.
LEMMA EvictSink ==
  ASSUME TypeOK, Arena, SinkInv, NEW id, NEW reason \in Reasons, NEW exp, NEW cand,
         Evicts(id, reason, exp, cand)
  PROVE  SinkInv'
<1>1. PICK s : s = streams[id.index]
  OBVIOUS
<1>2. /\ id.index \in DOMAIN streams /\ s.id = id
      /\ DOMAIN streams' = DOMAIN streams \ {id.index}
      /\ \A j \in DOMAIN streams' : SameButKin(streams'[j], streams[j])
  BY <1>1, EvictRecords
<1>3. PICK t : t = ClosedCopy(s)
  OBVIOUS
<1>4. s \in Streams /\ s.id \in StreamIds /\ s.parent \in StreamIds
  BY <1>1, <1>2 DEF TypeOK, StreamsType, Streams
<1>5. t \in Streams /\ t.id = s.id /\ t.seq = s.seq /\ t.parent = s.parent
  <2>1. t.parent = s.parent
    BY <1>3, <1>4 DEF ClosedCopy, Streams
  <2>. QED
    BY <1>3, <1>4, <2>1, ClosedSame DEF SameData, SameStream
<1>6. /\ Live
      /\ generation' = [generation EXCEPT ![id.index] = (@ + 1) % GenerationCount]
      /\ sink' = Append(sink, [stream |-> t, reason |-> reason])
      /\ nextSeq' = nextSeq
  BY <1>1, <1>3 DEF Evicts, Evict
<1>7. /\ SinkType' /\ Len(sink) \in Nat /\ Len(sink') = Len(sink) + 1
      /\ sink'[Len(sink')].stream = t
      /\ \A k \in 1..Len(sink) : sink'[k] = sink[k] /\ sink[k].stream \in Streams
      /\ \A k \in 1..Len(sink') : k \in 1..Len(sink) \/ k = Len(sink')
  BY <1>5, <1>6, SinkGrows DEF SinkInv
<1>8. SeqDistinct'
  BY <1>2 DEF SinkInv, SeqDistinct, SameButKin
<1>9. ASSUME NoWrap' PROVE EvictedInv'
  <2>1. GenerationCount \in Nat /\ GenerationCount # 0 /\ Len(sink) + 1 < GenerationCount
    BY <1>6, <1>7, <1>9, ConfigAssumption DEF NoWrap
  <2>2. EvictedInv
    BY <1>6, <1>7, <2>1 DEF SinkInv, NoWrap
  <2>3. generation \in Seq(Nat) /\ Len(generation) \in Nat /\ id.index \in 1..Len(generation)
    BY <1>2 DEF TypeOK, SlotsType, StreamsType
  <2>4. \A i \in 1..Len(generation) : generation[i] \in Nat /\ generation[i] <= Len(sink)
    BY <2>2, <2>3 DEF EvictedInv, GenerationsBounded
  <2>5. id.generation = generation[id.index] /\ s.seq < nextSeq /\ s.seq \in Nat /\ nextSeq \in Nat
    BY <1>1, <1>2, <1>4 DEF Evicts, IsLive, Arena, SeqBelow, Streams, TypeOK, CountsType
  <2>6. (generation[id.index] + 1) % GenerationCount = generation[id.index] + 1
    <3>1. generation[id.index] + 1 \in Nat /\ generation[id.index] + 1 < GenerationCount
      BY <1>7, <2>1, <2>3, <2>4
    <3>. QED
      BY <2>1, <3>1, SmallMod
  <2>7. /\ Len(generation') = Len(generation)
        /\ generation'[id.index] = generation[id.index] + 1
        /\ \A i \in 1..Len(generation) : i # id.index => generation'[i] = generation[i]
    BY <1>6, <2>3, <2>6
  <2>8. GenerationsBounded'
    <3>1. ASSUME NEW i \in 1..Len(generation) PROVE generation'[i] <= Len(sink) + 1
      <4>1. generation[i] \in Nat /\ generation[i] <= Len(sink)
        BY <2>4
      <4>2. generation'[i] = generation[i] \/ generation'[i] = generation[i] + 1
        BY <2>7
      <4>. QED
        BY <1>7, <4>1, <4>2
    <3>. QED
      BY <1>7, <2>7, <3>1 DEF GenerationsBounded
  <2>9. ASSUME NEW k \in 1..Len(sink)
        PROVE  /\ After(sink[k].stream, t)
               /\ \A u : u = sink[k].stream => Retired(u)'
    <3>1. PICK u : u = sink[k].stream
      OBVIOUS
    <3>2. u \in Streams /\ Retired(u) /\ u.id \in StreamIds /\ u.id.generation \in Nat
      BY <1>7, <2>2, <3>1 DEF EvictedInv, Streams, StreamIds
    <3>3. u.seq # s.seq
      BY <1>1, <1>2, <3>2 DEF Retired
    <3>4. u.id # s.id
      BY <1>2, <2>3, <2>4, <2>5, <3>2 DEF Retired
    <3>5. u.id # s.parent
      <4>1. s.parent = NoId \/ IsLive(s.parent)
        BY <1>1, <1>2 DEF Arena, Forest, ParentsLive
      <4>2. CASE s.parent = NoId
        BY <3>2, <4>2, <2>3 DEF Retired, NoId
      <4>3. CASE IsLive(s.parent)
        BY <3>2, <4>3, <2>3, <2>4 DEF Retired, IsLive
      <4>. QED
        BY <4>1, <4>2, <4>3
    <3>6. u.id.generation < generation'[u.id.index] /\ u.id.index \in 1..Len(generation')
      <4>1. PICK i \in 1..Len(generation) : i = u.id.index
        BY <3>2 DEF Retired
      <4>2. u.id.generation < generation[i] /\ generation[i] \in Nat
        BY <2>4, <3>2, <4>1 DEF Retired
      <4>3. generation'[i] = generation[i] \/ generation'[i] = generation[i] + 1
        BY <2>7
      <4>. QED
        BY <2>7, <3>2, <4>1, <4>2, <4>3
    <3>7. \A i \in DOMAIN streams' : u.seq # streams'[i].seq
      BY <1>2, <3>2 DEF Retired, SameButKin
    <3>8. After(u, t)
      BY <1>5, <3>3, <3>4, <3>5 DEF After
    <3>9. u.seq < nextSeq'
      BY <1>6, <3>2 DEF Retired
    <3>10. Retired(u)'
      BY <3>6, <3>7, <3>9 DEF Retired
    <3>. QED
      BY <3>1, <3>8, <3>10
  <2>10. Retired(t)'
    <3>1. \A i \in DOMAIN streams' : s.seq # streams'[i].seq
      BY <1>1, <1>2 DEF SinkInv, SeqDistinct, SameButKin
    <3>. QED
      BY <1>2, <1>5, <1>6, <2>3, <2>4, <2>5, <2>7, <3>1 DEF Retired
  <2>11. (\A k \in 1..Len(sink) : Retired(sink[k].stream))'
    <3>. SUFFICES ASSUME NEW k \in 1..Len(sink'), NEW u, u = sink'[k].stream PROVE Retired(u)'
      BY DEF Retired
    <3>. QED
      BY <1>7, <2>9, <2>10
  <2>12. \A j, k \in 1..Len(sink') : j < k => After(sink'[j].stream, sink'[k].stream)
    BY <1>5, <1>6, <2>2, <2>9, OrderGrows DEF SinkInv, EvictedInv
  <2>. QED
    BY <2>8, <2>11, <2>12 DEF EvictedInv, After
<1>. QED
  BY <1>6, <1>7, <1>8, <1>9 DEF SinkInv

\* While packets arrive, nothing is in the sink unless it was evicted.
LEMMA EmptySink ==
  ASSUME sink = <<>>
  PROVE  RetainedInv
  BY DEF RetainedInv

\* A new stream has a number and a handle that the sink has never seen.
LEMMA CreateSink ==
  ASSUME TypeOK, Arena, SinkInv, NEW fresh, NEW s, NEW lay, Creates(fresh, s, lay)
  PROVE  SinkInv'
<1>1. PICK id : id = FreshId
  OBVIOUS
<1>2. /\ id.index \notin DOMAIN streams
      /\ DOMAIN streams' = DOMAIN streams \cup {id.index} /\ streams'[id.index] = s
      /\ \A j \in DOMAIN streams : SameButKin(streams'[j], streams[j])
  BY <1>1, CreateRecords
<1>3. /\ pc = "layers" /\ sink' = sink /\ s.seq = nextSeq
      /\ nextSeq' = nextSeq + 1
      /\ generation' = IF free # <<>> THEN generation ELSE Append(generation, 0)
  BY DEF Creates, Create
<1>4. nextSeq \in Nat /\ \A i \in DOMAIN streams : streams[i].seq \in Nat /\ streams[i].seq < nextSeq
  BY DEF TypeOK, CountsType, StreamsType, Streams, Arena, SeqBelow
<1>5. SinkType' /\ SeqDistinct'
  <2>1. SinkType'
    BY <1>3 DEF SinkInv, SinkType
  <2>2. SeqDistinct'
    BY <1>2, <1>3, <1>4 DEF SinkInv, SeqDistinct, SameButKin
  <2>. QED
    BY <2>1, <2>2
<1>6. ASSUME Live, NoWrap' PROVE EvictedInv'
  <2>1. EvictedInv
    BY <1>3, <1>6 DEF NoWrap, SinkInv
  <2>2. generation \in Seq(Nat) /\ Len(generation) \in Nat
    BY DEF TypeOK, SlotsType
  <2>3. /\ Len(generation') \in Nat /\ Len(generation) <= Len(generation')
        /\ \A i \in 1..Len(generation) : generation'[i] = generation[i]
        /\ \A i \in 1..Len(generation') : i \in 1..Len(generation) \/ generation'[i] = 0
    BY <1>3, <2>2
  <2>4. Len(sink) \in Nat
    BY DEF SinkInv, SinkType
  <2>5. GenerationsBounded'
    BY <1>3, <2>1, <2>3, <2>4 DEF EvictedInv, GenerationsBounded
  <2>6. (\A k \in 1..Len(sink) : Retired(sink[k].stream))'
    <3>. SUFFICES ASSUME NEW k \in 1..Len(sink'), NEW u, u = sink'[k].stream PROVE Retired(u)'
      BY DEF Retired
    <3>1. Retired(u) /\ u \in Streams /\ u.seq \in Nat
      <4>1. Retired(u)
        BY <1>3, <2>1 DEF EvictedInv
      <4>2. PICK R : R = [stream : Streams, reason : Reasons] /\ sink \in Seq(R)
        BY DEF SinkInv, SinkType
      <4>3. k \in 1..Len(sink) /\ u = sink[k].stream
        BY <1>3
      <4>4. sink[k] \in R
        BY <4>2, <4>3, ElementOfSeq
      <4>5. u \in Streams
        BY <4>2, <4>3, <4>4
      <4>. QED
        BY <4>1, <4>5 DEF Streams
    <3>2. u.seq < nextSeq'
      BY <1>3, <1>4, <3>1 DEF Retired
    <3>3. u.id.index \in 1..Len(generation') /\ u.id.generation < generation'[u.id.index]
      BY <2>2, <2>3, <3>1, SMTT(30) DEF Retired
    <3>4. \A i \in DOMAIN streams' : u.seq # streams'[i].seq
      BY <1>2, <1>3, <1>4, <3>1 DEF Retired, SameButKin
    <3>. QED
      BY <3>2, <3>3, <3>4 DEF Retired
  <2>. QED
    BY <1>3, <2>1, <2>5, <2>6 DEF EvictedInv, After
<1>7. ASSUME ~Live PROVE RetainedInv'
  <2>1. sink' = <<>>
    BY <1>3, <1>7 DEF SinkInv, RetainedInv
  <2>. QED
    BY <2>1 DEF RetainedInv
<1>. QED
  BY <1>5, <1>6, <1>7 DEF SinkInv

\* Rewriting a record gives the sink nothing.
LEMMA KeepSink ==
  ASSUME SinkInv, sink' = sink, generation' = generation, nextSeq' = nextSeq,
         DOMAIN streams' = DOMAIN streams,
         \A j \in DOMAIN streams : /\ Keeps(streams'[j], streams[j])
                                   /\ streams'[j].seq = streams[j].seq,
         pc \in {"finish", "done"} => pc' \in {"finish", "done"} /\ finishing' \subseteq finishing,
         pc' = "finish" => pc \in {"idle", "finish"},
         FinishInv
  PROVE  SinkInv'
<1>1. SinkType' /\ SeqDistinct'
  BY DEF SinkInv, SinkType, SeqDistinct
<1>2. ASSUME Live, NoWrap' PROVE EvictedInv'
  <2>1. EvictedInv
    BY <1>2 DEF NoWrap, SinkInv
  <2>2. \A u : Retired(u) => Retired(u)'
    BY DEF Retired
  <2>3. (\A k \in 1..Len(sink) : Retired(sink[k].stream))'
    <3>. SUFFICES ASSUME NEW k \in 1..Len(sink'), NEW u, u = sink'[k].stream PROVE Retired(u)'
      BY DEF Retired
    <3>. QED
      BY <2>1, <2>2 DEF EvictedInv
  <2>. QED
    BY <2>1, <2>3 DEF EvictedInv, GenerationsBounded, After
<1>3. ASSUME ~Live PROVE RetainedInv'
  <2>1. RetainedInv
    BY <1>3 DEF SinkInv
  <2>2. CASE pc \notin {"finish", "done"}
    <3>1. sink' = <<>>
      BY <2>1, <2>2 DEF RetainedInv
    <3>. QED
      BY <3>1 DEF RetainedInv
  <2>3. CASE pc \in {"finish", "done"}
    <3>1. \A u : Retained(u) => Retained(u)'
      BY DEF Retained, Keeps
    <3>2. (\A k \in 1..Len(sink) : Retained(sink[k].stream))'
      <4>. SUFFICES ASSUME NEW k \in 1..Len(sink'), NEW u, u = sink'[k].stream PROVE Retained(u)'
        BY DEF Retained
      <4>. QED
        BY <2>1, <3>1 DEF RetainedInv
    <3>3. ASSUME pc' = "finish", NEW k \in 1..Len(sink), NEW x \in finishing'
          PROVE  sink[k].stream.id # x.id /\ sink[k].stream.id # streams'[x.id.index].parent
      <4>1. pc = "finish" /\ x \in finishing
        BY <2>3, <3>3
      <4>2. x.id.index \in DOMAIN streams
        BY <4>1 DEF FinishInv, IsLive
      <4>3. streams'[x.id.index].parent = streams[x.id.index].parent
        BY <4>2 DEF Keeps
      <4>. QED
        BY <2>1, <4>1, <4>3 DEF RetainedInv
    <3>. QED
      BY <2>1, <2>3, <3>2, <3>3 DEF RetainedInv, After
  <2>. QED
    BY <2>2, <2>3
<1>. QED
  BY <1>1, <1>2, <1>3 DEF SinkInv

\* finish() without eviction: the stream it closes is the deepest left, so
\* its parent is not in the sink yet.
LEMMA RetainSink ==
  ASSUME TypeOK, Arena, FinishInv, SinkInv, FinishRetain, pc' = pc
  PROVE  SinkInv'
<1>1. PICK x : x = NextToClose
  OBVIOUS
<1>2. PICK i : i = x.id.index
  OBVIOUS
<1>3. PICK t : t = ClosedCopy(streams[i])
  OBVIOUS
<1>4. /\ pc = "finish" /\ ~Live /\ Touches(i, t) /\ SameData(t, streams[i])
      /\ sink' = Append(sink, [stream |-> t, reason |-> "CaptureEnd"])
      /\ streams[i].id = x.id /\ finishing' = finishing \ {x}
  BY <1>1, <1>2, <1>3, RetainFacts
<1>5. x \in finishing /\ \A y \in finishing : FinishBefore(x, y)
  BY <1>1, <1>4, NextFacts DEF FinishRetain
<1>6. /\ i \in DOMAIN streams /\ t \in Streams /\ DOMAIN streams' = DOMAIN streams
      /\ \A j \in DOMAIN streams : /\ Keeps(streams'[j], streams[j])
                                   /\ streams'[j].seq = streams[j].seq
  BY <1>4 DEF Touches, SameStream, Keeps
<1>7. t.id = x.id /\ t.seq = streams[i].seq /\ t.parent = streams[i].parent
  BY <1>4 DEF SameData, SameStream
<1>8. "CaptureEnd" \in Reasons
  BY DEF Reasons
<1>9. /\ SinkType' /\ Len(sink) \in Nat /\ Len(sink') = Len(sink) + 1
      /\ sink'[Len(sink')].stream = t
      /\ \A k \in 1..Len(sink) : sink'[k] = sink[k] /\ sink[k].stream \in Streams
      /\ \A k \in 1..Len(sink') : k \in 1..Len(sink) \/ k = Len(sink')
  BY <1>4, <1>6, <1>8, SinkGrows DEF SinkInv
<1>10. SeqDistinct'
  BY <1>6 DEF SinkInv, SeqDistinct
<1>11. RetainedInv
  BY <1>4 DEF SinkInv
<1>12. /\ \A y \in finishing : y.id = x.id => y = x
       /\ \A y \in finishing : streams[y.id.index].parent # x.id
       /\ \A y \in finishing : y.id.index \in DOMAIN streams
  <2>1. \A y \in finishing : y.depth \in Nat /\ y.id.index \in DOMAIN streams
    BY <1>4 DEF FinishInv, IsLive
  <2>2. \A y \in finishing : x.depth > y.depth \/ x.depth = y.depth
    BY <1>5 DEF FinishBefore
  <2>3. \A y \in finishing : streams[y.id.index].parent = x.id => y.depth > x.depth
    BY <1>4, <1>5 DEF FinishInv
  <2>4. \A y \in finishing : y.id = x.id => y = x
    BY <1>4, <1>5 DEF FinishInv
  <2>. QED
    BY <1>5, <2>1, <2>2, <2>3, <2>4
<1>13. \A k \in 1..Len(sink) : After(sink[k].stream, t)
  <2>. SUFFICES ASSUME NEW k \in 1..Len(sink), NEW u, u = sink[k].stream PROVE After(u, t)
    OBVIOUS
  <2>1. u.id # x.id /\ u.id # streams[i].parent
    BY <1>2, <1>4, <1>5, <1>11 DEF RetainedInv
  <2>2. PICK j \in DOMAIN streams : u.id = streams[j].id /\ u.seq = streams[j].seq
    BY <1>11 DEF RetainedInv, Retained
  <2>3. j # i
    BY <1>4, <2>1, <2>2
  <2>4. u.seq # t.seq
    BY <1>6, <1>7, <2>2, <2>3 DEF SinkInv, SeqDistinct
  <2>. QED
    BY <1>7, <2>1, <2>4 DEF After
<1>14. \A j, k \in 1..Len(sink') : j < k => After(sink'[j].stream, sink'[k].stream)
  BY <1>4, <1>6, <1>8, <1>11, <1>13, OrderGrows DEF SinkInv, RetainedInv
<1>15. \A u : Retained(u) => Retained(u)'
  BY <1>6 DEF Retained, Keeps
<1>16. Retained(t)'
  <2>1. t.id = streams'[i].id /\ t.seq = streams'[i].seq /\ t.parent = streams'[i].parent
    BY <1>4, <1>6, <1>7 DEF Keeps
  <2>. QED
    BY <1>6, <2>1 DEF Retained
<1>17. (\A k \in 1..Len(sink) : Retained(sink[k].stream))'
  <2>. SUFFICES ASSUME NEW k \in 1..Len(sink'), NEW u, u = sink'[k].stream PROVE Retained(u)'
    BY DEF Retained
  <2>1. CASE k \in 1..Len(sink)
    BY <1>9, <1>11, <1>15, <2>1 DEF RetainedInv
  <2>. QED
    BY <1>9, <1>16, <2>1
<1>18. ASSUME NEW k \in 1..Len(sink'), NEW y \in finishing'
       PROVE  sink'[k].stream.id # y.id /\ sink'[k].stream.id # streams'[y.id.index].parent
  <2>1. y \in finishing /\ y # x
    BY <1>4
  <2>2. streams'[y.id.index].parent = streams[y.id.index].parent
    BY <1>6, <1>12, <2>1 DEF Keeps
  <2>3. CASE k \in 1..Len(sink)
    BY <1>4, <1>9, <1>11, <2>1, <2>2, <2>3 DEF RetainedInv
  <2>4. CASE k = Len(sink')
    BY <1>7, <1>9, <1>12, <2>1, <2>2, <2>4
  <2>. QED
    BY <1>9, <2>3, <2>4
<1>19. RetainedInv'
  BY <1>4, <1>14, <1>17, <1>18 DEF RetainedInv, After
<1>. QED
  BY <1>4, <1>9, <1>10, <1>19 DEF SinkInv

\* Every step keeps the sink ordered.
LEMMA SinkStep ==
  ASSUME StoreInv, SinkInv, [Next]_vars
  PROVE  SinkInv'
<1>0. TypeOK /\ Arena /\ CursorLive /\ FinishInv /\ HandlesCurrent
  BY DEF StoreInv, Shape, Arena, Forest
<1>1. /\ pc \in {"finish", "done"} => pc' \in {"finish", "done"} /\ finishing' \subseteq finishing
      /\ pc' = "finish" => pc \in {"idle", "finish"}
  BY PcSteps
<1>2. ASSUME NEW i, NEW new, Touches(i, new), sink' = sink PROVE SinkInv'
  <2>1. /\ generation' = generation /\ nextSeq' = nextSeq /\ DOMAIN streams' = DOMAIN streams
        /\ \A j \in DOMAIN streams : /\ Keeps(streams'[j], streams[j])
                                     /\ streams'[j].seq = streams[j].seq
    BY <1>2 DEF Touches, SameStream, Keeps
  <2>. QED
    BY <1>0, <1>1, <1>2, <2>1, KeepSink
<1>3. CASE Quiet
  <2>1. /\ sink' = sink /\ generation' = generation /\ nextSeq' = nextSeq
        /\ DOMAIN streams' = DOMAIN streams
        /\ \A j \in DOMAIN streams : /\ Keeps(streams'[j], streams[j])
                                     /\ streams'[j].seq = streams[j].seq
    BY <1>3 DEF Quiet, Keeps
  <2>. QED
    BY <1>0, <1>1, <2>1, KeepSink
<1>4. CASE HitLayer
  <2>1. PICK lay : lay = Head(todo)
    OBVIOUS
  <2>2. PICK id : id = CHOOSE x \in Found(lay.protocol, FlowKey(lay)) : TRUE
    OBVIOUS
  <2>3. Touches(id.index, Touched(streams[id.index], lay, Direction(lay))) /\ sink' = sink
    BY <1>0, <1>4, <2>1, <2>2, HitFacts
  <2>. QED
    BY <1>2, <2>3
<1>5. CASE CreateLayer
  <2>1. PICK lay : lay = Head(todo)
    OBVIOUS
  <2>2. PICK fresh : fresh = NewStream(lay.protocol, FlowKey(lay), FALSE)
    OBVIOUS
  <2>3. Creates(fresh, Touched(fresh, lay, Direction(lay)), lay)
    BY <1>0, <1>5, <2>1, <2>2, CreateFacts
  <2>. QED
    BY <1>0, <2>3, CreateSink
<1>6. ASSUME NEW c \in Folding(Head(todo)), FoldLayer(c) PROVE SinkInv'
  <2>1. PICK lay : lay = Head(todo)
    OBVIOUS
  <2>2. PICK k : k = GroupKey(parent, lay.protocol, c.anchor)
    OBVIOUS
  <2>3. PICK g : g = condense[k]
    OBVIOUS
  <2>4. /\ Touches(g.node.index, Touched(Joined(streams[g.node.index], g, c), lay, c.dir))
        /\ sink' = sink
    BY <1>0, <1>6, <2>1, <2>2, <2>3, FoldFacts
  <2>. QED
    BY <1>2, <2>4
<1>7. ASSUME NEW c \in Folding(Head(todo)), FoldNewNode(c) PROVE SinkInv'
  <2>1. PICK lay : lay = Head(todo)
    OBVIOUS
  <2>2. PICK k, g, fresh, mid, s : NodeMade(c, lay, k, g, fresh, mid, s)
    BY <1>0, <1>7, <2>1, NodeFacts
  <2>3. Creates(fresh, s, lay)
    BY <2>2 DEF NodeMade
  <2>. QED
    BY <1>0, <2>3, CreateSink
<1>8. CASE LayersDone /\ IsLive(parent)
  <2>1. sink' = sink
    BY <1>8 DEF LayersDone
  <2>. QED
    BY <1>0, <1>2, <1>8, <2>1, DoneFacts
<1>9. CASE FinishRetain
  <2>1. pc' = pc
    BY <1>9 DEF FinishRetain
  <2>. QED
    BY <1>0, <1>9, <2>1, RetainSink
<1>10. CASE \E id \in StreamIds, reason \in Reasons :
             \E exp, cand : Evicts(id, reason, exp, cand)
  BY <1>0, <1>10, EvictSink
<1>. QED
  BY <1>3, <1>4, <1>5, <1>6, <1>7, <1>8, <1>9, <1>10, StepKinds

\* The sink starts empty.
LEMMA SinkInit == Init => SinkInv
<1>. SUFFICES ASSUME Init PROVE SinkInv
  OBVIOUS
<1>1. sink = <<>> /\ streams = <<>> /\ generation = <<>> /\ pc = "idle"
  BY DEF Init
<1>. QED
  BY <1>1 DEF SinkInv, SinkType, SeqDistinct, EvictedInv, GenerationsBounded, RetainedInv

\* The sink is ordered in every state.
LEMMA SinkCorrect == Spec => []SinkInv
  BY SinkInit, SinkStep, StoreCorrect, PTL DEF Spec

\* Nothing is forgotten: every stream ever created is live or was given to the
\* sink, and finish() leaves no live stream that was not given to it.
Given(log, q) == \E k \in 1..Len(log) : log[k].stream.seq = q
ClosingInv ==
  /\ \A q \in 0..(nextSeq - 1) : (\E i \in DOMAIN streams : streams[i].seq = q) \/ Given(sink, q)
  /\ Live /\ pc = "done" => DOMAIN streams = {}
  /\ ~Live /\ pc \in {"finish", "done"} => \A i \in DOMAIN streams :
       Given(sink, streams[i].seq) \/ (pc = "finish" /\ \E x \in finishing : x.id = streams[i].id)

\* A step that neither adds nor removes a stream forgets none.
LEMMA KeepClosing ==
  ASSUME ClosingInv, sink' = sink, nextSeq' = nextSeq, DOMAIN streams' = DOMAIN streams,
         \A j \in DOMAIN streams : streams'[j].seq = streams[j].seq,
         \/ pc' \notin {"finish", "done"}
         \/ pc' = pc /\ finishing' = finishing /\ streams' = streams
  PROVE  ClosingInv'
<1>1. \A q : Given(sink', q) <=> Given(sink, q)
  BY DEF Given
<1>. QED
  BY <1>1 DEF ClosingInv

\* Nor does the creation of one.
LEMMA CreateClosing ==
  ASSUME TypeOK, Arena, ClosingInv, NEW fresh, NEW s, NEW lay, Creates(fresh, s, lay)
  PROVE  ClosingInv'
<1>1. PICK id : id = FreshId
  OBVIOUS
<1>2. /\ DOMAIN streams' = DOMAIN streams \cup {id.index} /\ streams'[id.index] = s
      /\ \A j \in DOMAIN streams : streams'[j].seq = streams[j].seq
  BY <1>1, CreateRecords DEF SameButKin
<1>3. /\ pc' = "layers" /\ sink' = sink /\ s.seq = nextSeq /\ nextSeq' = nextSeq + 1
      /\ nextSeq \in Nat
  BY DEF Creates, Create, TypeOK, CountsType
<1>4. \A q : Given(sink', q) <=> Given(sink, q)
  BY <1>3 DEF Given
<1>5. ASSUME NEW q \in 0..(nextSeq' - 1)
      PROVE  (\E i \in DOMAIN streams' : streams'[i].seq = q) \/ Given(sink', q)
  <2>1. CASE q = nextSeq
    BY <1>2, <1>3, <2>1
  <2>2. CASE q # nextSeq
    <3>1. q \in 0..(nextSeq - 1)
      BY <1>3, <1>5, <2>2
    <3>. QED
      BY <1>2, <1>4, <3>1 DEF ClosingInv
  <2>. QED
    BY <2>1, <2>2
<1>. QED
  BY <1>3, <1>5 DEF ClosingInv

\* An evicted stream is given to the sink in the same step.
LEMMA EvictClosing ==
  ASSUME TypeOK, Arena, SinkInv, ClosingInv, NEW id, NEW reason \in Reasons, NEW exp, NEW cand,
         Evicts(id, reason, exp, cand)
  PROVE  ClosingInv'
<1>. DEFINE s == streams[id.index]
<1>1. /\ id.index \in DOMAIN streams /\ s \in Streams
      /\ DOMAIN streams' = DOMAIN streams \ {id.index}
      /\ \A j \in DOMAIN streams' : streams'[j].seq = streams[j].seq
  BY EvictRecords DEF SameButKin
<1>2. /\ Live /\ pc' = pc /\ nextSeq' = nextSeq
      /\ sink' = Append(sink, [stream |-> ClosedCopy(s), reason |-> reason])
  BY DEF Evicts, Evict
<1>3. ClosedCopy(s) \in Streams /\ ClosedCopy(s).seq = s.seq
  BY <1>1, ClosedSame DEF SameData, SameStream
<1>4. /\ Len(sink) \in Nat /\ Len(sink') = Len(sink) + 1
      /\ sink'[Len(sink')].stream = ClosedCopy(s)
      /\ \A k \in 1..Len(sink) : sink'[k] = sink[k]
  BY <1>2, <1>3, SinkGrows DEF SinkInv
<1>. HIDE DEF s
<1>5. (\A q : Given(sink, q) => Given(sink', q)) /\ Given(sink', s.seq)
  BY <1>3, <1>4 DEF Given
<1>6. ASSUME NEW q \in 0..(nextSeq - 1)
      PROVE  (\E i \in DOMAIN streams' : streams'[i].seq = q) \/ Given(sink', q)
  <2>1. CASE Given(sink, q)
    BY <1>5, <2>1
  <2>2. ASSUME NEW i \in DOMAIN streams, streams[i].seq = q
        PROVE  (\E j \in DOMAIN streams' : streams'[j].seq = q) \/ Given(sink', q)
    <3>1. CASE i = id.index
      BY <1>5, <2>2, <3>1 DEF s
    <3>2. CASE i # id.index
      BY <1>1, <2>2, <3>2
    <3>. QED
      BY <3>1, <3>2
  <2>. QED
    BY <2>1, <2>2 DEF ClosingInv
<1>7. Live' /\ pc' # "done"
  BY <1>1, <1>2 DEF ClosingInv
<1>. QED
  BY <1>2, <1>6, <1>7 DEF ClosingInv

\* finish() without eviction gives the next stream to the sink where it is.
LEMMA RetainClosing ==
  ASSUME TypeOK, Arena, FinishInv, SinkInv, ClosingInv, FinishRetain
  PROVE  ClosingInv'
<1>1. PICK i : i = NextToClose.id.index
  OBVIOUS
<1>. DEFINE t == ClosedCopy(streams[i])
<1>2. /\ pc = "finish" /\ ~Live /\ pc' = pc
      /\ Touches(i, t) /\ SameData(t, streams[i])
      /\ sink' = Append(sink, [stream |-> t, reason |-> "CaptureEnd"])
      /\ streams[i].id = NextToClose.id
      /\ finishing' = finishing \ {NextToClose}
  BY <1>1, RetainFacts
<1>3. t \in Streams /\ t.seq = streams[i].seq /\ i \in DOMAIN streams
  BY <1>2 DEF Touches, SameData, SameStream
<1>4. /\ Len(sink) \in Nat /\ Len(sink') = Len(sink) + 1
      /\ sink'[Len(sink')].stream = t
      /\ \A k \in 1..Len(sink) : sink'[k] = sink[k]
  <2>. HIDE DEF t
  <2>. QED
    BY <1>2, <1>3, SinkGrows DEF SinkInv, Reasons
<1>5. /\ DOMAIN streams' = DOMAIN streams /\ nextSeq' = nextSeq
      /\ \A j \in DOMAIN streams : streams'[j].seq = streams[j].seq /\ streams'[j].id = streams[j].id
  <2>. HIDE DEF t
  <2>. QED
    BY <1>2 DEF Touches, SameStream
<1>. HIDE DEF t
<1>6. (\A q : Given(sink, q) => Given(sink', q)) /\ Given(sink', streams[i].seq)
  BY <1>3, <1>4 DEF Given
<1>7. ASSUME NEW j \in DOMAIN streams
      PROVE  Given(sink', streams'[j].seq) \/ \E x \in finishing' : x.id = streams'[j].id
  <2>1. CASE Given(sink, streams[j].seq)
    BY <1>5, <1>6, <2>1
  <2>2. ASSUME NEW x \in finishing, x.id = streams[j].id
        PROVE  Given(sink', streams'[j].seq) \/ \E y \in finishing' : y.id = streams'[j].id
    <3>1. CASE x = NextToClose
      <4>1. streams[j].id = streams[i].id
        BY <1>2, <2>2, <3>1
      <4>2. j = i
        <5>1. streams[j].id.index = j /\ streams[i].id.index = i
          BY <1>3, LiveFacts DEF Arena, Forest
        <5>. QED
          BY <4>1, <5>1
      <4>. QED
        BY <1>5, <1>6, <4>2
    <3>2. CASE x # NextToClose
      BY <1>2, <1>5, <2>2, <3>2
    <3>. QED
      BY <3>1, <3>2
  <2>. QED
    BY <1>2, <2>1, <2>2 DEF ClosingInv
<1>8. \A q \in 0..(nextSeq' - 1) : (\E j \in DOMAIN streams' : streams'[j].seq = q) \/ Given(sink', q)
  BY <1>5, <1>6 DEF ClosingInv
<1>. QED
  BY <1>2, <1>5, <1>7, <1>8 DEF ClosingInv

\* The steps that touch no stream: finish() lists every stream, and returns
\* when its list is empty.
LEMMA QuietClosing ==
  ASSUME StoreInv, ClosingInv, Quiet, Bookkeeping
  PROVE  ClosingInv'
<1>1. /\ sink' = sink /\ nextSeq' = nextSeq /\ streams' = streams
  BY DEF Quiet
<1>2. \A q : Given(sink', q) <=> Given(sink, q)
  BY <1>1 DEF Given
<1>3. \A q \in 0..(nextSeq' - 1) : (\E j \in DOMAIN streams' : streams'[j].seq = q) \/ Given(sink', q)
  BY <1>1, <1>2 DEF ClosingInv
<1>4. CASE Finish
  <2>1. pc' = "finish" /\ \A i \in DOMAIN streams : \E x \in finishing' : x.id = streams[i].id
    <3>1. pc' = "finish"
          /\ finishing' = {[depth |-> Depth[i], seq |-> streams[i].seq, id |-> streams[i].id] :
                             i \in DOMAIN streams}
      BY <1>4 DEF Finish
    <3>2. \A i \in DOMAIN streams :
            /\ [depth |-> Depth[i], seq |-> streams[i].seq, id |-> streams[i].id] \in finishing'
            /\ [depth |-> Depth[i], seq |-> streams[i].seq, id |-> streams[i].id].id = streams[i].id
      BY <3>1
    <3>. QED
      BY <3>1, <3>2, Zenon
  <2>. QED
    BY <1>1, <1>3, <2>1 DEF ClosingInv
<1>5. CASE FinishDone
  <2>1. pc = "finish" /\ finishing = {} /\ pc' = "done"
    BY <1>5 DEF FinishDone
  <2>2. Live => DOMAIN streams = {}
    BY <2>1 DEF StoreInv, FinishInv
  <2>3. ~Live => \A i \in DOMAIN streams : Given(sink, streams[i].seq)
    BY <2>1 DEF ClosingInv
  <2>. QED
    BY <1>1, <1>2, <1>3, <2>1, <2>2, <2>3 DEF ClosingInv
<1>6. CASE ~Finish /\ ~FinishDone
  <2>1. \/ pc' \notin {"finish", "done"}
        \/ pc' = pc /\ finishing' = finishing
    BY <1>6 DEF Bookkeeping, Arrive, Ingest, SweepDrop, SweepRepush, SweepDone, SkipLayer,
                KeyErrorLayer, LayersDone, EnforceDrop, EnforceRepush, EnforceDone, Closed, vars
  <2>. QED
    BY <1>1, <2>1, KeepClosing
<1>. QED
  BY <1>4, <1>5, <1>6

\* No step forgets a stream.
LEMMA ClosingStep ==
  ASSUME StoreInv, SinkInv, ClosingInv, [Next]_vars
  PROVE  ClosingInv'
<1>0. TypeOK /\ Arena /\ CursorLive /\ FinishInv /\ HandlesCurrent
  BY DEF StoreInv, Shape, Arena, Forest
<1>1. ASSUME NEW i, NEW new, Touches(i, new), sink' = sink, pc' \notin {"finish", "done"}
      PROVE  ClosingInv'
  <2>1. /\ nextSeq' = nextSeq /\ DOMAIN streams' = DOMAIN streams
        /\ \A j \in DOMAIN streams : streams'[j].seq = streams[j].seq
    BY <1>1 DEF Touches, SameStream
  <2>. QED
    BY <1>1, <2>1, KeepClosing
<1>2. CASE HitLayer
  <2>1. PICK lay : lay = Head(todo)
    OBVIOUS
  <2>2. PICK id : id = CHOOSE x \in Found(lay.protocol, FlowKey(lay)) : TRUE
    OBVIOUS
  <2>3. Touches(id.index, Touched(streams[id.index], lay, Direction(lay))) /\ sink' = sink
    BY <1>0, <1>2, <2>1, <2>2, HitFacts
  <2>4. pc' \notin {"finish", "done"}
    BY <1>2 DEF HitLayer
  <2>. QED
    BY <1>1, <2>3, <2>4
<1>3. CASE CreateLayer
  <2>1. PICK lay : lay = Head(todo)
    OBVIOUS
  <2>2. PICK fresh : fresh = NewStream(lay.protocol, FlowKey(lay), FALSE)
    OBVIOUS
  <2>3. Creates(fresh, Touched(fresh, lay, Direction(lay)), lay)
    BY <1>0, <1>3, <2>1, <2>2, CreateFacts
  <2>. QED
    BY <1>0, <2>3, CreateClosing
<1>4. ASSUME NEW c \in Folding(Head(todo)), FoldLayer(c) PROVE ClosingInv'
  <2>1. PICK lay : lay = Head(todo)
    OBVIOUS
  <2>2. PICK k : k = GroupKey(parent, lay.protocol, c.anchor)
    OBVIOUS
  <2>3. PICK g : g = condense[k]
    OBVIOUS
  <2>4. /\ Touches(g.node.index, Touched(Joined(streams[g.node.index], g, c), lay, c.dir))
        /\ sink' = sink
    BY <1>0, <1>4, <2>1, <2>2, <2>3, FoldFacts
  <2>5. pc' \notin {"finish", "done"}
    BY <1>4 DEF FoldLayer
  <2>. QED
    BY <1>1, <2>4, <2>5
<1>5. ASSUME NEW c \in Folding(Head(todo)), FoldNewNode(c) PROVE ClosingInv'
  <2>1. PICK lay : lay = Head(todo)
    OBVIOUS
  <2>2. PICK k, g, fresh, mid, s : NodeMade(c, lay, k, g, fresh, mid, s)
    BY <1>0, <1>5, <2>1, NodeFacts
  <2>3. Creates(fresh, s, lay)
    BY <2>2 DEF NodeMade
  <2>. QED
    BY <1>0, <2>3, CreateClosing
<1>6. CASE LayersDone /\ IsLive(parent)
  <2>1. sink' = sink /\ pc' \notin {"finish", "done"}
    BY <1>6 DEF LayersDone
  <2>. QED
    BY <1>0, <1>1, <1>6, <2>1, DoneFacts
<1>7. CASE FinishRetain
  BY <1>0, <1>7, RetainClosing
<1>8. CASE \E id \in StreamIds, reason \in Reasons :
             \E exp, cand : Evicts(id, reason, exp, cand)
  BY <1>0, <1>8, EvictClosing
<1>9. CASE Quiet /\ Bookkeeping
  BY <1>9, QuietClosing
<1>. QED
  BY <1>2, <1>3, <1>4, <1>5, <1>6, <1>7, <1>8, <1>9, StepKinds

\* The sink is given every stream: no stream twice and children before their
\* parents, by sweep, enforce_max_streams and finish alike, and when finish has
\* returned every stream ever created; up to 2^32 evictions.
THEOREM SinkOrderCorrect == Spec => [](NoWrap => SinkOrdered)
<1>1. Init => ClosingInv
  BY DEF Init, ClosingInv
<1>2. ASSUME SinkInv, ClosingInv, NoWrap PROVE SinkOrdered
  <2>1. \A j, k \in 1..Len(sink) :
          j < k => /\ sink[j].stream.seq # sink[k].stream.seq
                   /\ sink[j].stream.id # sink[k].stream.parent
    BY <1>2 DEF SinkInv, EvictedInv, RetainedInv, After
  <2>2. pc = "done" => \A q \in 0..(nextSeq - 1) : Given(sink, q)
    BY <1>2 DEF ClosingInv
  <2>. QED
    BY <2>1, <2>2 DEF SinkOrdered, Given
<1>. QED
  BY <1>1, <1>2, ClosingStep, SinkCorrect, StoreCorrect, PTL DEF Spec

\* A handle names one stream for ever, up to 2^32 evictions: no live stream,
\* sink record or group node answers to an older stream's handle.
THEOREM HandlesCorrect == Spec => [](NoWrap => HandlesUnique)
<1>1. ASSUME StoreInv, GroupsInv, SinkInv, NoWrap PROVE HandlesUnique
  <2>0. HandlesCurrent
    BY <1>1 DEF StoreInv, Shape, Arena, Forest
  <2>1. \A k \in DOMAIN condense : condense[k].node # NoId => IsLive(condense[k].node)
    BY <1>1 DEF GroupsInv, NodesLive
  <2>2. ASSUME NEW i \in DOMAIN streams, NEW j \in DOMAIN streams, streams[i].id = streams[j].id
        PROVE  i = j
    <3>1. streams[i].id = [index |-> i, generation |-> generation[i]]
          /\ streams[j].id = [index |-> j, generation |-> generation[j]]
      BY <2>0 DEF HandlesCurrent
    <3>2. streams[i].id.index = i
      BY <3>1
    <3>3. streams[j].id.index = j
      BY <3>1
    <3>. QED
      BY <2>2, <3>2, <3>3
  <2>3. ASSUME NEW j \in 1..Len(sink), NEW k \in 1..Len(sink), sink[j].stream.id = sink[k].stream.id
        PROVE  sink[j].stream.seq = sink[k].stream.seq
    <3>1. \A m, n \in 1..Len(sink) : m < n => After(sink[m].stream, sink[n].stream)
      BY <1>1 DEF SinkInv, EvictedInv, RetainedInv
    <3>2. j < k \/ k < j \/ j = k
      BY <1>1 DEF SinkInv, SinkType
    <3>. QED
      BY <2>3, <3>1, <3>2 DEF After
  <2>4. ASSUME NEW i \in DOMAIN streams, NEW k \in 1..Len(sink), sink[k].stream.id = streams[i].id
        PROVE  sink[k].stream.seq = streams[i].seq
    <3>1. CASE Live
      <4>1. Retired(sink[k].stream)
        BY <1>1, <3>1 DEF SinkInv, EvictedInv
      <4>2. streams[i].id = [index |-> i, generation |-> generation[i]]
        BY <2>0 DEF HandlesCurrent
      <4>3. i \in 1..Len(generation) /\ generation[i] \in Nat
        BY <1>1 DEF StoreInv, TypeOK, StreamsType, SlotsType
      <4>. QED
        BY <2>4, <4>1, <4>2, <4>3 DEF Retired
    <3>2. CASE ~Live
      <4>1. Retained(sink[k].stream)
        BY <1>1, <3>2 DEF SinkInv, RetainedInv
      <4>2. PICK j \in DOMAIN streams : /\ sink[k].stream.id = streams[j].id
                                        /\ sink[k].stream.seq = streams[j].seq
        BY <4>1 DEF Retained
      <4>. QED
        BY <2>2, <2>4, <4>2
    <3>. QED
      BY <3>1, <3>2
  <2>. QED
    BY <2>1, <2>2, <2>3, <2>4 DEF HandlesUnique, LiveSet, SinkSet
<1>2. StoreInv /\ GroupsInv /\ SinkInv /\ NoWrap => HandlesUnique
  BY <1>1
<1>3. Init => GroupsInv
  BY DEF Init, GroupsInv, NodesLive, NodesGrouped, MembersCounted
<1>. QED
  BY <1>2, <1>3, GroupsStep, StoreCorrect, SinkCorrect, PTL DEF Spec

----------------------------------------------------------------------------
(* The lazy heaps, when timestamps come in order.  An entry may be stale,  *)
(* but never late: every leaf has an expiry entry that is due no later     *)
(* than its deadline, and a candidate entry that is no younger than it.    *)

Covers(s, exp, cand) ==
  /\ \E e \in BagToSet(exp) : e.id = s.id /\ e.at <= Deadline(s)
  /\ \E e \in BagToSet(cand) : e.id = s.id /\ e.seq = s.seq /\ e.seen <= s.lastSeen
LeavesCovered ==
  Live => \A i \in DOMAIN streams : IsLeaf(streams[i]) => Covers(streams[i], expiry, lru)
OnTime ==
  /\ \A i \in DOMAIN streams : streams[i].lastSeen <= clock
  /\ pc \in {"sweep", "layers"} => pkt.ts = clock
NoneOverdue ==
  Live => \A i \in DOMAIN streams : IsLeaf(streams[i]) => Deadline(streams[i]) > clock
Swept ==
  /\ pc = "sweep" => todo = pkt.layers
  /\ pc = "layers" => \/ todo = pkt.layers /\ NoneOverdue
                      \/ Len(todo) < Len(pkt.layers)
LazyInv == LeavesCovered /\ OnTime /\ Swept

\* A later update, or a reopened stream, has no earlier deadline.
LEMMA DeadlineMono ==
  ASSUME NEW s \in Streams, NEW t \in Streams, s.lastSeen <= t.lastSeen,
         t.since = s.since \/ t.since = Never
  PROVE  Deadline(s) <= Deadline(t)
<1>1. /\ s.lastSeen \in Nat /\ t.lastSeen \in Nat /\ s.since \in Nat \cup {Never}
      /\ IdleTimeout \in Nat /\ CloseLinger \in Nat
  BY ConfigAssumption DEF Streams
<1>. QED
  BY <1>1 DEF Deadline, Never

\* The deadline of the record ingest leaves: no earlier than before, unless
\* the linger deadline it arms.
LEMMA TouchDeadline ==
  ASSUME TypeOK, NEW s \in Streams, NEW lay \in Layers, NEW d \in Directions,
         s.lastSeen <= pkt.ts, NEW t, t = Touched(s, lay, d)
  PROVE  \/ Deadline(s) <= Deadline(t)
         \/ Enters(s, lay) /\ pkt.ts + CloseLinger <= Deadline(t)
<1>1. t \in Streams /\ t.lastSeen = pkt.ts /\ t.since = Since(s, lay)
  BY TouchedSame
<1>2. CASE ~Enters(s, lay)
  <2>1. t.since = s.since \/ t.since = Never
    BY <1>1, <1>2 DEF Since
  <2>. QED
    BY <1>1, <2>1, DeadlineMono
<1>3. CASE Enters(s, lay)
  <2>1. t.since = pkt.ts
    BY <1>1, <1>3 DEF Since
  <2>2. /\ s.lastSeen \in Nat /\ pkt.ts \in Nat /\ s.since \in Nat \cup {Never}
        /\ IdleTimeout \in Nat /\ CloseLinger \in Nat
    BY ConfigAssumption DEF Streams, TypeOK, CallType
  <2>3. Deadline(s) <= s.lastSeen + IdleTimeout
    BY <2>2 DEF Deadline, Never
  <2>4. Deadline(t) = pkt.ts + IdleTimeout \/ Deadline(t) = pkt.ts + CloseLinger
    BY <1>1, <2>1, <2>2 DEF Deadline
  <2>5. Deadline(s) \in Nat
    BY DeadlineType
  <2>. HIDE DEF Deadline
  <2>. QED
    BY <1>3, <2>2, <2>3, <2>4, <2>5
<1>. QED
  BY <1>2, <1>3

\* Entries that stay cover a record whose deadline is no earlier.
LEMMA CoverStays ==
  ASSUME NEW s \in Streams, NEW t \in Streams, NEW exp, NEW cand, NEW exp2, NEW cand2,
         IsExpiryHeap(exp), IsLruHeap(cand),
         Covers(s, exp, cand), t.id = s.id, t.seq = s.seq, s.lastSeen <= t.lastSeen,
         \A e \in BagToSet(cand) : e.id = s.id => e \in BagToSet(cand2),
         \/ /\ Deadline(s) <= Deadline(t)
            /\ \A e \in BagToSet(exp) : e.id = s.id => e \in BagToSet(exp2)
         \/ \E e \in BagToSet(exp2) : e.id = s.id /\ e.at <= Deadline(t)
  PROVE  Covers(t, exp2, cand2)
<1>1. Deadline(s) \in Nat /\ Deadline(t) \in Nat /\ s.lastSeen \in Nat /\ t.lastSeen \in Nat
  BY DeadlineType DEF Streams
<1>. HIDE DEF Deadline
<1>2. PICK e \in BagToSet(exp) : e.id = s.id /\ e.at <= Deadline(s)
  BY DEF Covers
<1>3. PICK f \in BagToSet(cand) : f.id = s.id /\ f.seq = s.seq /\ f.seen <= s.lastSeen
  BY DEF Covers
<1>4. e.at \in Nat /\ f.seen \in Nat
  BY <1>2, <1>3 DEF IsExpiryHeap, IsLruHeap
<1>5. \E g \in BagToSet(exp2) : g.id = t.id /\ g.at <= Deadline(t)
  <2>1. CASE /\ Deadline(s) <= Deadline(t)
             /\ \A g \in BagToSet(exp) : g.id = s.id => g \in BagToSet(exp2)
    <3>1. e \in BagToSet(exp2) /\ e.id = t.id
      BY <1>2, <2>1
    <3>2. e.at <= Deadline(t)
      BY <1>1, <1>2, <1>4, <2>1
    <3>. QED
      BY <3>1, <3>2
  <2>. QED
    BY <2>1
<1>6. f \in BagToSet(cand2) /\ f.id = t.id /\ f.seq = t.seq /\ f.seen <= t.lastSeen
  BY <1>1, <1>3, <1>4
<1>. QED
  BY <1>5, <1>6 DEF Covers

\* Rewriting a record keeps the leaves covered.
LEMMA TouchLazy ==
  ASSUME TypeOK, LeavesCovered, NEW i, NEW new, Touches(i, new),
         streams[i].lastSeen <= new.lastSeen,
         BagToSet(expiry) \subseteq BagToSet(expiry'), BagToSet(lru) \subseteq BagToSet(lru'),
         Live => \/ Deadline(streams[i]) <= Deadline(new)
                 \/ \E e \in BagToSet(expiry') : e.id = streams[i].id /\ e.at <= Deadline(new)
  PROVE  LeavesCovered'
<1>1. /\ i \in DOMAIN streams /\ new \in Streams /\ streams[i] \in Streams
      /\ DOMAIN streams' = DOMAIN streams
      /\ \A j \in DOMAIN streams : streams'[j] = IF j = i THEN new ELSE streams[j]
      /\ new.id = streams[i].id /\ new.seq = streams[i].seq /\ new.children = streams[i].children
  BY DEF Touches, SameStream, TypeOK, StreamsType
<1>2. IsExpiryHeap(expiry) /\ IsLruHeap(lru)
  BY DEF TypeOK, HeapsType
<1>. SUFFICES ASSUME Live, NEW j \in DOMAIN streams', IsLeaf(streams'[j])
              PROVE  Covers(streams'[j], expiry', lru')
  BY DEF LeavesCovered, Covers
<1>3. CASE j = i
  <2>1. Covers(streams[i], expiry, lru)
    BY <1>1, <1>3 DEF LeavesCovered, IsLeaf
  <2>2. Covers(new, expiry', lru')
    BY <1>1, <1>2, <2>1, CoverStays
  <2>. QED
    BY <1>1, <1>3, <2>2
<1>4. CASE j # i
  <2>1. streams'[j] = streams[j] /\ j \in DOMAIN streams
    BY <1>1, <1>4
  <2>2. Covers(streams[j], expiry, lru)
    BY <2>1 DEF LeavesCovered
  <2>. QED
    BY <2>1, <2>2 DEF Covers
<1>. QED
  BY <1>3, <1>4

\* A new stream is armed in both heaps.
LEMMA CreateLazy ==
  ASSUME TypeOK, Arena, LeavesCovered, NEW fresh, NEW s, NEW lay, Creates(fresh, s, lay),
         NEW m \in Streams, NEW d \in Directions, s = Touched(m, lay, d),
         Enters(m, lay) => Enters(fresh, lay),
         fresh.lastSeen = pkt.ts, fresh.seq = nextSeq,
         m.lastSeen = pkt.ts, m.since = Never
  PROVE  LeavesCovered'
<1>0. SUFFICES ASSUME Live PROVE \A j \in DOMAIN streams' : IsLeaf(streams'[j]) => Covers(streams'[j], expiry', lru')
  BY DEF LeavesCovered, Covers
<1>1. PICK id : id = FreshId
  OBVIOUS
<1>2. /\ id.index \notin DOMAIN streams
      /\ DOMAIN streams' = DOMAIN streams \cup {id.index} /\ streams'[id.index] = s
      /\ \A j \in DOMAIN streams : SameButKin(streams'[j], streams[j])
      /\ \A j \in DOMAIN streams : IsLeaf(streams'[j]) => IsLeaf(streams[j])
  BY <1>1, CreateRecords
<1>3. PICK first : first = ExpiryEntry(pkt.ts + IdleTimeout, id)
  OBVIOUS
<1>4. /\ fresh.id = id /\ s.id = id /\ s.seq = nextSeq /\ lay \in Layers
      /\ expiry' = ArmLinger(Push(expiry, first), fresh, lay)
      /\ lru' = Push(lru, LruEntry(fresh))
  BY <1>0, <1>1, <1>3 DEF Creates, Create
<1>5. /\ IsABag(expiry) /\ IsABag(lru) /\ pkt.ts \in Nat
  BY DEF TypeOK, HeapsType, IsExpiryHeap, IsLruHeap, CallType
<1>6. /\ IsABag(Push(expiry, first))
      /\ BagToSet(Push(expiry, first)) = BagToSet(expiry) \cup {first}
      /\ BagToSet(lru') = BagToSet(lru) \cup {LruEntry(fresh)}
  BY <1>4, <1>5, PushFacts
<1>7. BagToSet(expiry) \cup {first} \subseteq BagToSet(expiry')
  BY <1>4, <1>6, PushFacts DEF ArmLinger
<1>8. Covers(s, expiry', lru')
  <2>1. s.lastSeen = pkt.ts
    BY <1>4, TouchedSame
  <2>2. LruEntry(fresh).id = id /\ LruEntry(fresh).seq = s.seq /\ LruEntry(fresh).seen = s.lastSeen
    BY <1>4, <2>1 DEF LruEntry
  <2>3. first.id = id /\ first.at = pkt.ts + IdleTimeout
    BY <1>3 DEF ExpiryEntry
  <2>4. Deadline(m) = pkt.ts + IdleTimeout
    BY DEF Deadline
  <2>5. \/ Deadline(m) <= Deadline(s)
        \/ Enters(m, lay) /\ pkt.ts + CloseLinger <= Deadline(s)
    BY <1>4, <1>5, TouchDeadline
  <2>6. \E e \in BagToSet(expiry') : e.id = id /\ e.at <= Deadline(s)
    <3>1. CASE Deadline(m) <= Deadline(s)
      BY <1>7, <2>3, <2>4, <3>1
    <3>2. CASE Enters(m, lay) /\ pkt.ts + CloseLinger <= Deadline(s)
      <4>1. PICK e : e = ExpiryEntry(pkt.ts + CloseLinger, id)
        OBVIOUS
      <4>2. expiry' = Push(Push(expiry, first), e)
        BY <1>0, <1>4, <3>2, <4>1 DEF ArmLinger
      <4>3. e \in BagToSet(expiry')
        BY <1>6, <4>2, PushFacts
      <4>4. e.id = id /\ e.at = pkt.ts + CloseLinger
        BY <4>1 DEF ExpiryEntry
      <4>. QED
        BY <3>2, <4>3, <4>4
    <3>. QED
      BY <2>5, <3>1, <3>2
  <2>7. s.lastSeen \in Nat
    BY <1>5, <2>1
  <2>. QED
    BY <1>4, <1>6, <2>2, <2>6, <2>7 DEF Covers
<1>9. ASSUME NEW j \in DOMAIN streams, IsLeaf(streams'[j]) PROVE Covers(streams'[j], expiry', lru')
  <2>1. Covers(streams[j], expiry, lru)
    BY <1>0, <1>2, <1>9 DEF LeavesCovered
  <2>2. SameButKin(streams'[j], streams[j])
    BY <1>2
  <2>3. Deadline(streams'[j]) = Deadline(streams[j])
    BY <2>2 DEF SameButKin, Deadline
  <2>. QED
    BY <1>6, <1>7, <2>1, <2>2, <2>3 DEF Covers, SameButKin
<1>. QED
  BY <1>2, <1>8, <1>9

\* The parent that becomes a leaf is armed again; the other leaves keep
\* their entries.
LEMMA EvictLazy ==
  ASSUME TypeOK, Arena, LeavesCovered, NEW id, NEW reason, NEW exp, NEW cand,
         Evicts(id, reason, exp, cand),
         \A e \in BagToSet(expiry) : e.id # id => e \in BagToSet(exp),
         \A e \in BagToSet(lru) : e.id # id => e \in BagToSet(cand)
  PROVE  LeavesCovered'
<1>0. SUFFICES ASSUME Live, NEW j \in DOMAIN streams', IsLeaf(streams'[j])
               PROVE Covers(streams'[j], expiry', lru')
  BY DEF LeavesCovered, Covers
<1>1. PICK s : s = streams[id.index]
  OBVIOUS
<1>2. /\ id.index \in DOMAIN streams /\ s.id = id
      /\ DOMAIN streams' = DOMAIN streams \ {id.index}
      /\ \A i \in DOMAIN streams' : SameButKin(streams'[i], streams[i])
  BY <1>1, EvictRecords
<1>3. IsABag(exp) /\ IsABag(cand)
  BY DEF Evicts, IsExpiryHeap, IsLruHeap
<1>4. PICK up : up = [streams[s.parent.index] EXCEPT !.children = @ \ {id}]
  OBVIOUS
<1>. DEFINE linked == s.parent # NoId /\ IsLive(s.parent)
<1>5. /\ \A i \in DOMAIN streams' :
           streams'[i] = IF linked /\ i = s.parent.index THEN up ELSE streams[i]
      /\ expiry' = IF linked THEN Push(exp, ExpiryEntry(Deadline(up), up.id)) ELSE exp
      /\ lru' = IF linked THEN Push(cand, LruEntry(up)) ELSE cand
  <2>1. Evict(id, reason, exp, cand)
    BY DEF Evicts
  <2>2. streams' = [i \in DOMAIN streams \ {id.index} |->
                      IF linked /\ i = s.parent.index THEN up ELSE streams[i]]
    BY <1>1, <1>4, <2>1 DEF Evict
  <2>3. expiry' = IF linked THEN RearmExpiry(exp, up) ELSE exp
    BY <1>1, <1>4, <2>1 DEF Evict
  <2>4. lru' = IF linked THEN RearmLru(cand, up) ELSE cand
    BY <1>1, <1>4, <2>1 DEF Evict
  <2>. HIDE DEF linked
  <2>5. \A i \in DOMAIN streams' :
           streams'[i] = IF linked /\ i = s.parent.index THEN up ELSE streams[i]
    BY <1>2, <2>2
  <2>. QED
    BY <2>3, <2>4, <2>5 DEF RearmExpiry, RearmLru
<1>6. j \in DOMAIN streams /\ streams[j] \in Streams /\ SameButKin(streams'[j], streams[j])
  BY <1>2 DEF TypeOK, StreamsType
<1>7. streams[j].id # id
  <2>1. streams[j].id = [index |-> j, generation |-> generation[j]]
    BY <1>6 DEF Arena, Forest, HandlesCurrent
  <2>2. streams[j].id.index = j
    BY <2>1
  <2>. QED
    BY <1>2, <2>2
<1>8. CASE IsLeaf(streams[j])
  <2>1. Covers(streams[j], expiry, lru)
    BY <1>0, <1>6, <1>8 DEF LeavesCovered
  <2>2. Deadline(streams'[j]) = Deadline(streams[j])
    BY <1>6 DEF SameButKin, Deadline
  <2>3. BagToSet(exp) \subseteq BagToSet(expiry')
    <3>1. \A e : BagToSet(Push(exp, e)) = BagToSet(exp) \cup {e}
      BY <1>3, PushFacts
    <3>. QED
      BY <1>5, <3>1
  <2>4. BagToSet(cand) \subseteq BagToSet(lru')
    <3>1. \A e : BagToSet(Push(cand, e)) = BagToSet(cand) \cup {e}
      BY <1>3, PushFacts
    <3>. QED
      BY <1>5, <3>1
  <2>5. PICK e \in BagToSet(expiry) : e.id = streams[j].id /\ e.at <= Deadline(streams[j])
    BY <2>1 DEF Covers
  <2>6. PICK f \in BagToSet(lru) : /\ f.id = streams[j].id /\ f.seq = streams[j].seq
                                   /\ f.seen <= streams[j].lastSeen
    BY <2>1 DEF Covers
  <2>7. e \in BagToSet(expiry') /\ f \in BagToSet(lru')
    BY <1>7, <2>3, <2>4, <2>5, <2>6
  <2>8. /\ streams'[j].id = streams[j].id /\ streams'[j].seq = streams[j].seq
        /\ streams'[j].lastSeen = streams[j].lastSeen
    BY <1>6 DEF SameButKin
  <2>. HIDE DEF Deadline
  <2>. QED
    BY <2>2, <2>5, <2>6, <2>7, <2>8 DEF Covers
<1>9. CASE ~IsLeaf(streams[j])
  <2>1. linked /\ j = s.parent.index /\ streams'[j] = up
    BY <1>0, <1>5, <1>9
  <2>2. BagToSet(expiry') = BagToSet(exp) \cup {ExpiryEntry(Deadline(up), up.id)}
    BY <1>3, <1>5, <2>1, PushFacts
  <2>3. BagToSet(lru') = BagToSet(cand) \cup {LruEntry(up)}
    BY <1>3, <1>5, <2>1, PushFacts
  <2>4. /\ ExpiryEntry(Deadline(up), up.id).id = up.id
        /\ ExpiryEntry(Deadline(up), up.id).at = Deadline(up)
    BY DEF ExpiryEntry
  <2>5. LruEntry(up).id = up.id /\ LruEntry(up).seq = up.seq /\ LruEntry(up).seen = up.lastSeen
    BY DEF LruEntry
  <2>6. Deadline(up) \in Nat /\ up.lastSeen \in Nat
    <3>1. up.lastSeen = streams[j].lastSeen /\ up.since = streams[j].since
      BY <1>6, <2>1 DEF SameButKin
    <3>2. Deadline(up) = Deadline(streams[j])
      BY <3>1 DEF Deadline
    <3>. QED
      BY <1>6, <3>1, <3>2, DeadlineType DEF Streams
  <2>. HIDE DEF Deadline
  <2>7. \E e \in BagToSet(expiry') : e.id = up.id /\ e.at <= Deadline(up)
    BY <2>2, <2>4, <2>6
  <2>8. \E e \in BagToSet(lru') : e.id = up.id /\ e.seq = up.seq /\ e.seen <= up.lastSeen
    BY <2>3, <2>5, <2>6
  <2>. QED
    BY <2>1, <2>7, <2>8 DEF Covers
<1>. QED
  BY <1>8, <1>9

\* Discarding a popped entry that belongs to no leaf, or pushing back one
\* that is up to date, keeps the leaves covered.
LEMMA HeapLazy ==
  ASSUME TypeOK, Arena, LeavesCovered, UNCHANGED <<streams, generation>>,
         NEW x,
         \/ expiry' = expiry
         \/ /\ BagToSet(expiry) \ {x} \subseteq BagToSet(expiry')
            /\ \A i \in DOMAIN streams : IsLeaf(streams[i]) /\ x.id = streams[i].id =>
                 \E e \in BagToSet(expiry') : e.id = streams[i].id /\ e.at <= Deadline(streams[i]),
         \/ lru' = lru
         \/ /\ BagToSet(lru) \ {x} \subseteq BagToSet(lru')
            /\ \A i \in DOMAIN streams : IsLeaf(streams[i]) /\ x.id = streams[i].id =>
                 \E e \in BagToSet(lru') : /\ e.id = streams[i].id /\ e.seq = streams[i].seq
                                           /\ e.seen <= streams[i].lastSeen
  PROVE  LeavesCovered'
<1>. SUFFICES ASSUME Live, NEW i \in DOMAIN streams, IsLeaf(streams[i])
              PROVE  Covers(streams[i], expiry', lru')
  BY DEF LeavesCovered, Covers
<1>1. Covers(streams[i], expiry, lru)
  BY DEF LeavesCovered
<1>2. PICK e \in BagToSet(expiry) : e.id = streams[i].id /\ e.at <= Deadline(streams[i])
  BY <1>1 DEF Covers
<1>3. PICK f \in BagToSet(lru) : /\ f.id = streams[i].id /\ f.seq = streams[i].seq
                                 /\ f.seen <= streams[i].lastSeen
  BY <1>1 DEF Covers
<1>. HIDE DEF Deadline
<1>4. \E g \in BagToSet(expiry') : g.id = streams[i].id /\ g.at <= Deadline(streams[i])
  BY <1>2
<1>5. \E g \in BagToSet(lru') : /\ g.id = streams[i].id /\ g.seq = streams[i].seq
                                /\ g.seen <= streams[i].lastSeen
  BY <1>3
<1>. QED
  BY <1>4, <1>5 DEF Covers

\* A layer that is folded in, or skipped, is gone.
LEMMA LayerSwept ==
  ASSUME TypeOK, Swept, pc = "layers", todo # <<>>, todo' = Tail(todo), UNCHANGED <<pc, pkt>>
  PROVE  Swept'
<1>1. todo \in Seq(Layers) /\ pkt.layers \in Seq(Layers)
  BY DEF TypeOK, CallType
<1>2. Len(todo) <= Len(pkt.layers)
  BY <1>1 DEF Swept
<1>3. Len(todo') < Len(pkt.layers)
  BY <1>1, <1>2
<1>. QED
  BY <1>3 DEF Swept

\* An update of an indexed stream leaves no leaf without heap entries: they are
\* no later than what they stand for.
LEMMA HitLazy ==
  ASSUME TypeOK, HandlesCurrent, LazyInv, HitLayer
  PROVE  LazyInv'
<1>1. PICK lay : lay = Head(todo)
  OBVIOUS
<1>2. PICK id : id = CHOOSE x \in Found(lay.protocol, FlowKey(lay)) : TRUE
  OBVIOUS
<1>3. PICK s : s = streams[id.index]
  OBVIOUS
<1>4. PICK new : new = Touched(s, lay, Direction(lay))
  OBVIOUS
<1>5. /\ pc = "layers" /\ todo # <<>> /\ lay \in Layers /\ Direction(lay) \in Directions
      /\ s \in Streams /\ Touches(id.index, new)
      /\ expiry' = ArmLinger(expiry, s, lay)
      /\ todo' = Tail(todo) /\ UNCHANGED <<lru, clock, pc, pkt>>
  BY <1>1, <1>2, <1>3, <1>4, HitFacts
<1>6. id.index \in DOMAIN streams
  BY <1>5 DEF Touches
<1>7. s.lastSeen <= pkt.ts /\ pkt.ts = clock /\ new.lastSeen = pkt.ts
  BY <1>3, <1>4, <1>5, <1>6, TouchedSame DEF LazyInv, OnTime
<1>8. LeavesCovered'
  <2>1. IsABag(expiry) /\ BagToSet(expiry) \subseteq BagToSet(expiry')
    BY <1>5, PushFacts DEF ArmLinger, TypeOK, HeapsType, IsExpiryHeap
  <2>2. \/ Deadline(s) <= Deadline(new)
        \/ Enters(s, lay) /\ pkt.ts + CloseLinger <= Deadline(new)
    BY <1>4, <1>5, <1>7, TouchDeadline
  <2>3. ASSUME Live, Enters(s, lay), pkt.ts + CloseLinger <= Deadline(new)
        PROVE  \E e \in BagToSet(expiry') : e.id = s.id /\ e.at <= Deadline(new)
    <3>1. PICK e : e = ExpiryEntry(pkt.ts + CloseLinger, s.id)
      OBVIOUS
    <3>2. expiry' = Push(expiry, e)
      BY <1>5, <2>3, <3>1 DEF ArmLinger
    <3>3. e \in BagToSet(expiry')
      BY <2>1, <3>2, PushFacts
    <3>4. e.id = s.id /\ e.at = pkt.ts + CloseLinger
      BY <3>1 DEF ExpiryEntry
    <3>. QED
      BY <2>3, <3>3, <3>4
  <2>4. Live => \/ Deadline(s) <= Deadline(new)
                \/ \E e \in BagToSet(expiry') : e.id = s.id /\ e.at <= Deadline(new)
    BY <2>2, <2>3
  <2>5. BagToSet(lru) \subseteq BagToSet(lru') /\ s.lastSeen <= new.lastSeen
    BY <1>5, <1>7
  <2>. HIDE DEF Deadline
  <2>. QED
    BY <1>3, <1>5, <2>1, <2>4, <2>5, TouchLazy DEF LazyInv
<1>9. OnTime'
  <2>1. \A j \in DOMAIN streams' : streams'[j].lastSeen <= clock
    <3>1. clock \in Nat
      BY DEF TypeOK, CountsType
    <3>. QED
      BY <1>5, <1>7, <3>1 DEF Touches, LazyInv, OnTime
  <2>. QED
    BY <1>5, <1>7, <2>1 DEF OnTime
<1>10. Swept'
  BY <1>5, LayerSwept DEF LazyInv
<1>. QED
  BY <1>8, <1>9, <1>10 DEF LazyInv

\* A node has no lifecycle, so folding needs no heap entry.
LEMMA FoldLazy ==
  ASSUME TypeOK, HandlesCurrent, GroupsInv, LazyInv, NEW lay, lay = Head(todo),
         NEW c \in Folding(lay), FoldLayer(c)
  PROVE  LazyInv'
<1>1. PICK k : k = GroupKey(parent, lay.protocol, c.anchor)
  OBVIOUS
<1>2. PICK g : g = condense[k]
  OBVIOUS
<1>3. PICK i : i = g.node.index
  OBVIOUS
<1>4. PICK s : s = streams[i]
  OBVIOUS
<1>5. PICK mid : mid = Joined(s, g, c)
  OBVIOUS
<1>6. PICK new : new = Touched(mid, lay, c.dir)
  OBVIOUS
<1>7. /\ pc = "layers" /\ todo # <<>> /\ lay \in Layers /\ c.dir \in Directions
      /\ s \in Streams /\ mid \in Streams
      /\ k \in DOMAIN condense /\ IsLive(g.node)
      /\ todo' = Tail(todo)
  BY <1>1, <1>2, <1>3, <1>4, <1>5, FoldFacts
<1>8. Touches(i, new)
  BY <1>1, <1>2, <1>3, <1>4, <1>5, <1>6, FoldFacts
<1>9. UNCHANGED <<expiry, lru, clock, pc, pkt>>
  BY <1>1, <1>2, FoldFacts
<1>10. i \in DOMAIN streams
  BY <1>8 DEF Touches
<1>11. s.condensed
  <2>1. g.node # NoId
    BY <1>7, LiveFacts
  <2>. QED
    BY <1>2, <1>3, <1>4, <1>7, <2>1 DEF GroupsInv, NodesLive, NodeOf
<1>12. mid.condensed /\ mid.lastSeen = s.lastSeen /\ mid.since = s.since
  BY <1>5, <1>7, <1>11, JoinedSame DEF SameStream
<1>13. s.lastSeen <= pkt.ts /\ pkt.ts = clock /\ new.lastSeen = pkt.ts
  <2>1. s.lastSeen <= pkt.ts /\ pkt.ts = clock
    BY <1>4, <1>7, <1>10 DEF LazyInv, OnTime
  <2>2. new.lastSeen = pkt.ts
    BY <1>6, <1>7, TouchedSame
  <2>. QED
    BY <2>1, <2>2
<1>14. LeavesCovered'
  <2>1. ~Enters(mid, lay)
    BY <1>12 DEF Enters, HasLifecycle
  <2>2. Deadline(mid) <= Deadline(new)
    BY <1>6, <1>7, <1>12, <1>13, <2>1, TouchDeadline
  <2>3. Deadline(mid) = Deadline(s)
    BY <1>12 DEF Deadline
  <2>. HIDE DEF Deadline
  <2>4. Deadline(s) <= Deadline(new) /\ s.lastSeen <= new.lastSeen
    BY <1>13, <2>2, <2>3
  <2>. QED
    BY <1>4, <1>8, <1>9, <2>4, TouchLazy DEF LazyInv
<1>15. OnTime'
  <2>1. clock \in Nat
    BY DEF TypeOK, CountsType
  <2>2. \A j \in DOMAIN streams' : streams'[j].lastSeen <= clock
    BY <1>8, <1>13, <2>1 DEF Touches, LazyInv, OnTime
  <2>. QED
    BY <1>7, <1>9, <1>13, <2>2 DEF OnTime
<1>16. Swept'
  BY <1>7, <1>9, LayerSwept DEF LazyInv
<1>. QED
  BY <1>14, <1>15, <1>16 DEF LazyInv

\* What a creation does to the clock and the layers.
LEMMA MadeLazy ==
  ASSUME TypeOK, Arena, LazyInv, NEW fresh, NEW s, NEW lay, Creates(fresh, s, lay),
         s.lastSeen = pkt.ts
  PROVE  OnTime' /\ Swept'
<1>1. PICK id : id = FreshId
  OBVIOUS
<1>2. /\ DOMAIN streams' = DOMAIN streams \cup {id.index} /\ streams'[id.index] = s
      /\ \A j \in DOMAIN streams : SameButKin(streams'[j], streams[j])
  BY <1>1, CreateRecords
<1>3. pc = "layers" /\ todo # <<>> /\ todo' = Tail(todo) /\ UNCHANGED <<clock, pc, pkt>>
  BY DEF Creates
<1>4. pkt.ts = clock /\ clock \in Nat
  BY <1>3 DEF LazyInv, OnTime, TypeOK, CountsType
<1>5. \A j \in DOMAIN streams' : streams'[j].lastSeen <= clock
  BY <1>2, <1>4 DEF SameButKin, LazyInv, OnTime
<1>. QED
  BY <1>3, <1>4, <1>5, LayerSwept DEF LazyInv, OnTime

\* A created stream is a leaf and gets its entries.
LEMMA CreateLayerLazy ==
  ASSUME TypeOK, Arena, CursorLive, LazyInv, CreateLayer
  PROVE  LazyInv'
<1>1. PICK lay : lay = Head(todo)
  OBVIOUS
<1>2. PICK fresh : fresh = NewStream(lay.protocol, FlowKey(lay), FALSE)
  OBVIOUS
<1>3. PICK s : s = Touched(fresh, lay, Direction(lay))
  OBVIOUS
<1>4. Creates(fresh, s, lay) /\ Direction(lay) \in Directions
  BY <1>1, <1>2, <1>3, CreateFacts
<1>5. fresh.lastSeen = pkt.ts /\ fresh.seq = nextSeq /\ fresh.since = Never
  BY <1>2 DEF NewStream
<1>6. fresh \in Streams /\ lay \in Layers
  BY <1>4 DEF Creates
<1>7. s.lastSeen = pkt.ts
  BY <1>3, <1>4, <1>6, TouchedSame
<1>8. LeavesCovered'
  BY <1>3, <1>4, <1>5, <1>6, CreateLazy DEF LazyInv
<1>. QED
  BY <1>4, <1>7, <1>8, MadeLazy DEF LazyInv

\* So does the node of a condense group.
LEMMA NodeLazy ==
  ASSUME TypeOK, Arena, CursorLive, LazyInv, NEW lay, lay = Head(todo),
         NEW c \in Folding(lay), FoldNewNode(c)
  PROVE  LazyInv'
<1>1. PICK k, g, fresh, mid, s : NodeMade(c, lay, k, g, fresh, mid, s)
  BY NodeFacts
<1>2. Creates(fresh, s, lay)
  BY <1>1 DEF NodeMade
<1>3. fresh \in Streams /\ lay \in Layers
  BY <1>2 DEF Creates
<1>4. fresh.lastSeen = pkt.ts /\ fresh.seq = nextSeq /\ fresh.since = Never /\ fresh.condensed
  <2>1. fresh = NewStream(lay.protocol, AnchorKey(c.anchor), TRUE)
    BY <1>1 DEF NodeMade
  <2>. QED
    BY <2>1 DEF NewStream
<1>5. mid = Joined(fresh, g, c) /\ mid \in Streams /\ s = Touched(mid, lay, c.dir) /\ c.dir \in Directions
  BY <1>1 DEF NodeMade
<1>6. mid.lastSeen = pkt.ts /\ mid.since = Never /\ mid.condensed
  BY <1>3, <1>4, <1>5, JoinedSame DEF SameStream
<1>7. ~Enters(mid, lay)
  BY <1>6 DEF Enters, HasLifecycle
<1>8. s.lastSeen = pkt.ts
  BY <1>3, <1>5, TouchedSame
<1>9. LeavesCovered'
  BY <1>2, <1>4, <1>5, <1>6, <1>7, CreateLazy DEF LazyInv
<1>. QED
  BY <1>2, <1>8, <1>9, MadeLazy DEF LazyInv

\* An eviction changes no stream's last update.
LEMMA EvictOnTime ==
  ASSUME TypeOK, Arena, OnTime, NEW id, NEW reason, NEW exp, NEW cand,
         Evicts(id, reason, exp, cand)
  PROVE  OnTime'
<1>1. /\ DOMAIN streams' = DOMAIN streams \ {id.index}
      /\ \A j \in DOMAIN streams' : SameButKin(streams'[j], streams[j])
  BY EvictRecords
<1>2. UNCHANGED <<clock, pc, pkt>>
  BY DEF Evicts
<1>. QED
  BY <1>1, <1>2 DEF OnTime, SameButKin

\* The sweep leaves no overdue leaf.
LEMMA SweepLazy ==
  ASSUME TypeOK, Arena, LazyInv, Sweep
  PROVE  LazyInv'
<1>. USE DEF counts, arena, heaps
<1>0. IsExpiryHeap(expiry) /\ IsABag(expiry) /\ IsLruHeap(lru)
  BY DEF TypeOK, HeapsType, IsExpiryHeap
<1>1. PICK top : top = ExpiryTop
  OBVIOUS
<1>2. Due => top \in BagToSet(expiry) /\ \A f \in BagToSet(expiry) : ExpiryLeq(top, f)
  BY <1>0, <1>1, ExpiryTopFacts DEF Due
<1>3. \A i \in DOMAIN streams : IsLive(streams[i].id) /\ streams[i].id.index = i
  <2>. SUFFICES ASSUME NEW i \in DOMAIN streams PROVE IsLive(streams[i].id) /\ streams[i].id.index = i
    OBVIOUS
  <2>1. streams[i].id = [index |-> i, generation |-> generation[i]]
    BY DEF Arena, Forest, HandlesCurrent
  <2>. QED
    BY <2>1 DEF IsLive
<1>4. CASE SweepDrop
  <2>1. /\ IsLive(top.id) => ~IsLeaf(streams[top.id.index])
        /\ expiry' = Pop(expiry, top)
        /\ UNCHANGED <<streams, generation, lru, clock, pc, pkt, todo>>
    BY <1>1, <1>4 DEF SweepDrop
  <2>2. BagToSet(expiry) \ {top} \subseteq BagToSet(expiry')
    BY <1>0, <2>1, PopFacts
  <2>3. \A i \in DOMAIN streams : ~(IsLeaf(streams[i]) /\ top.id = streams[i].id)
    BY <1>3, <2>1
  <2>5. LeavesCovered'
    BY <2>1, <2>2, <2>3, HeapLazy DEF LazyInv
  <2>. QED
    BY <2>1, <2>5 DEF LazyInv, OnTime, Swept, NoneOverdue
<1>5. CASE SweepRepush
  <2>1. PICK e : e = ExpiryEntry(Deadline(streams[top.id.index]), top.id)
    OBVIOUS
  <2>2. /\ expiry' = Push(Pop(expiry, top), e)
        /\ UNCHANGED <<streams, generation, lru, clock, pc, pkt, todo>>
    BY <1>1, <1>5, <2>1 DEF SweepRepush
  <2>3. BagToSet(expiry) \ {top} \subseteq BagToSet(expiry') /\ e \in BagToSet(expiry')
    <3>1. IsABag(Pop(expiry, top)) /\ BagToSet(expiry) \ {top} \subseteq BagToSet(Pop(expiry, top))
      BY <1>0, PopFacts
    <3>2. BagToSet(expiry') = BagToSet(Pop(expiry, top)) \cup {e}
      BY <2>2, <3>1, PushFacts
    <3>. QED
      BY <3>1, <3>2
  <2>4. e.id = top.id /\ e.at = Deadline(streams[top.id.index])
    BY <2>1 DEF ExpiryEntry
  <2>5. \A i \in DOMAIN streams : Deadline(streams[i]) \in Nat
    BY DeadlineType DEF TypeOK, StreamsType
  <2>. HIDE DEF Deadline
  <2>6. ASSUME NEW i \in DOMAIN streams, top.id = streams[i].id
        PROVE  e.id = streams[i].id /\ e.at <= Deadline(streams[i])
    <3>1. top.id.index = i
      BY <1>3, <2>6
    <3>2. e.at = Deadline(streams[i])
      BY <2>4, <3>1
    <3>. QED
      BY <2>4, <2>5, <2>6, <3>2
  <2>7. LeavesCovered'
    BY <2>2, <2>3, <2>6, HeapLazy DEF LazyInv
  <2>. QED
    BY <2>2, <2>7 DEF LazyInv, OnTime, Swept, NoneOverdue
<1>6. CASE SweepEvict
  <2>1. PICK id : id = top.id
    OBVIOUS
  <2>2. PICK reason : reason = CloseReason(streams[id.index])
    OBVIOUS
  <2>3. PICK exp : exp = Pop(expiry, top)
    OBVIOUS
  <2>4. /\ pc = "sweep" /\ Due /\ IsLive(id) /\ IsLeaf(streams[id.index])
        /\ Evict(id, reason, exp, lru)
        /\ UNCHANGED <<clock, pc, pkt, todo, parent>>
    BY <1>1, <1>6, <2>1, <2>2, <2>3 DEF SweepEvict
  <2>5. id \in StreamIds /\ IsExpiryHeap(exp) /\ Live
    BY <1>0, <1>2, <2>1, <2>3, <2>4, PopFacts DEF Due, IsExpiryHeap
  <2>6. Evicts(id, reason, exp, lru)
    BY <1>0, <2>4, <2>5 DEF Evicts
  <2>7. \A e \in BagToSet(expiry) : e.id # id => e \in BagToSet(exp)
    BY <1>0, <2>1, <2>3, PopFacts
  <2>8. LeavesCovered'
    BY <2>6, <2>7, EvictLazy DEF LazyInv
  <2>9. OnTime'
    BY <2>6, EvictOnTime DEF LazyInv
  <2>. QED
    BY <2>4, <2>8, <2>9 DEF LazyInv, Swept
<1>7. CASE SweepDone
  <2>1. /\ pc = "sweep" /\ pc' = "layers" /\ ~Due /\ lru' = CompactedLru
        /\ UNCHANGED <<streams, generation, expiry, clock, pkt, todo>>
    BY <1>7 DEF SweepDone
  <2>2. \A i \in DOMAIN streams : streams[i] \in Streams
    BY DEF TypeOK, StreamsType
  <2>3. LeavesCovered'
    <3>1. CASE lru' = lru
      BY <2>1, <3>1, HeapLazy DEF LazyInv
    <3>2. CASE lru' = SetToBag({LruEntry(streams[i]) : i \in {j \in DOMAIN streams : IsLeaf(streams[j])}})
      <4>1. BagToSet(lru') = {LruEntry(streams[i]) : i \in {j \in DOMAIN streams : IsLeaf(streams[j])}}
        BY <3>2 DEF BagToSet, SetToBag
      <4>. SUFFICES ASSUME Live, NEW i \in DOMAIN streams, IsLeaf(streams[i])
                    PROVE  Covers(streams[i], expiry', lru')
        BY <2>1 DEF LeavesCovered, Covers
      <4>2. Covers(streams[i], expiry, lru)
        BY DEF LazyInv, LeavesCovered
      <4>3. PICK f : f = LruEntry(streams[i])
        OBVIOUS
      <4>4. f \in BagToSet(lru')
        BY <4>1, <4>3
      <4>5. /\ f.id = streams[i].id /\ f.seq = streams[i].seq
            /\ f.seen = streams[i].lastSeen /\ f.seen \in Nat
        BY <2>2, <4>3 DEF LruEntry, Streams
      <4>. QED
        BY <2>1, <4>2, <4>4, <4>5 DEF Covers
    <3>. QED
      BY <2>1, <3>1, <3>2 DEF CompactedLru
  <2>4. NoneOverdue
    <3>. SUFFICES ASSUME Live, NEW i \in DOMAIN streams, IsLeaf(streams[i])
                  PROVE  Deadline(streams[i]) > clock
      BY DEF NoneOverdue
    <3>1. PICK e \in BagToSet(expiry) : e.at <= Deadline(streams[i])
      BY DEF LazyInv, LeavesCovered, Covers
    <3>2. expiry # EmptyBag
      BY <3>1 DEF BagToSet, EmptyBag, SetToBag
    <3>3. top \in BagToSet(expiry) /\ ExpiryLeq(top, e) /\ ~(top.at <= clock)
      BY <1>0, <1>1, <2>1, <3>1, <3>2, ExpiryTopFacts DEF Due
    <3>4. top.at \in Nat /\ e.at \in Nat /\ clock \in Nat
      BY <1>0, <3>1, <3>3 DEF IsExpiryHeap, TypeOK, CountsType
    <3>5. top.at <= e.at
      BY <3>3, <3>4 DEF ExpiryLeq
    <3>6. Deadline(streams[i]) \in Nat
      BY <2>2, DeadlineType
    <3>. HIDE DEF Deadline
    <3>. QED
      BY <3>1, <3>3, <3>4, <3>5, <3>6
  <2>5. NoneOverdue'
    BY <2>1, <2>4 DEF NoneOverdue
  <2>6. OnTime' /\ Swept'
    BY <2>1, <2>5 DEF LazyInv, OnTime, Swept
  <2>. QED
    BY <2>3, <2>6 DEF LazyInv
<1>. QED
  BY <1>4, <1>5, <1>6, <1>7 DEF Sweep

\* enforce_max_streams keeps the leaves covered, and evicts the leaf that was
\* updated least recently.
LEMMA EnforceLazy ==
  ASSUME TypeOK, Arena, LazyInv, Enforce
  PROVE  LazyInv'
<1>. USE DEF counts, arena, heaps
<1>0. IsExpiryHeap(expiry) /\ IsABag(lru) /\ IsLruHeap(lru)
  BY DEF TypeOK, HeapsType, IsLruHeap
<1>1. PICK top : top = LruTop
  OBVIOUS
<1>2. OverCap => top \in BagToSet(lru)
  BY <1>0, <1>1, LruTopFacts DEF OverCap
<1>3. \A i \in DOMAIN streams : IsLive(streams[i].id) /\ streams[i].id.index = i
  <2>. SUFFICES ASSUME NEW i \in DOMAIN streams PROVE IsLive(streams[i].id) /\ streams[i].id.index = i
    OBVIOUS
  <2>1. streams[i].id = [index |-> i, generation |-> generation[i]]
    BY DEF Arena, Forest, HandlesCurrent
  <2>. QED
    BY <2>1 DEF IsLive
<1>4. CASE EnforceDrop
  <2>1. /\ IsLive(top.id) => ~IsLeaf(streams[top.id.index])
        /\ lru' = Pop(lru, top) /\ pc = "enforce"
        /\ UNCHANGED <<streams, generation, expiry, clock, pc, pkt, todo>>
    BY <1>1, <1>4 DEF EnforceDrop
  <2>2. BagToSet(lru) \ {top} \subseteq BagToSet(lru')
    BY <1>0, <2>1, PopFacts
  <2>3. \A i \in DOMAIN streams : ~(IsLeaf(streams[i]) /\ top.id = streams[i].id)
    BY <1>3, <2>1
  <2>4. LeavesCovered'
    BY <2>1, <2>2, <2>3, HeapLazy DEF LazyInv
  <2>. QED
    BY <2>1, <2>4 DEF LazyInv, OnTime, Swept
<1>5. CASE EnforceRepush
  <2>1. PICK e : e = LruEntry(streams[top.id.index])
    OBVIOUS
  <2>2. /\ lru' = Push(Pop(lru, top), e) /\ pc = "enforce"
        /\ UNCHANGED <<streams, generation, expiry, clock, pc, pkt, todo>>
    BY <1>1, <1>5, <2>1 DEF EnforceRepush
  <2>3. BagToSet(lru) \ {top} \subseteq BagToSet(lru') /\ e \in BagToSet(lru')
    <3>1. IsABag(Pop(lru, top)) /\ BagToSet(lru) \ {top} \subseteq BagToSet(Pop(lru, top))
      BY <1>0, PopFacts
    <3>2. BagToSet(lru') = BagToSet(Pop(lru, top)) \cup {e}
      BY <2>2, <3>1, PushFacts
    <3>. QED
      BY <3>1, <3>2
  <2>4. ASSUME NEW i \in DOMAIN streams, top.id = streams[i].id
        PROVE  /\ e.id = streams[i].id /\ e.seq = streams[i].seq
               /\ e.seen <= streams[i].lastSeen
    <3>1. top.id.index = i
      BY <1>3, <2>4
    <3>2. e = LruEntry(streams[i]) /\ streams[i].lastSeen \in Nat
      BY <2>1, <3>1 DEF TypeOK, StreamsType, Streams
    <3>. QED
      BY <3>2 DEF LruEntry
  <2>5. LeavesCovered'
    BY <2>2, <2>3, <2>4, HeapLazy DEF LazyInv
  <2>. QED
    BY <2>2, <2>5 DEF LazyInv, OnTime, Swept
<1>6. CASE EnforceEvict
  <2>1. PICK id : id = top.id
    OBVIOUS
  <2>2. PICK cand : cand = Pop(lru, top)
    OBVIOUS
  <2>3. /\ pc = "enforce" /\ OverCap /\ IsLive(id) /\ IsLeaf(streams[id.index])
        /\ Evict(id, "LruEvicted", expiry, cand)
        /\ UNCHANGED <<clock, pc, pkt, todo, parent>>
    BY <1>1, <1>6, <2>1, <2>2 DEF EnforceEvict
  <2>4. id \in StreamIds /\ IsLruHeap(cand) /\ Live
    BY <1>0, <1>2, <2>1, <2>2, <2>3, PopFacts DEF OverCap, IsLruHeap
  <2>5. Evicts(id, "LruEvicted", expiry, cand)
    BY <1>0, <2>3, <2>4 DEF Evicts
  <2>6. \A e \in BagToSet(lru) : e.id # id => e \in BagToSet(cand)
    BY <1>0, <2>1, <2>2, PopFacts
  <2>7. LeavesCovered' /\ OnTime'
    BY <2>5, <2>6, EvictLazy, EvictOnTime DEF LazyInv
  <2>. QED
    BY <2>3, <2>7 DEF LazyInv, Swept
<1>7. CASE EnforceDone
  BY <1>7 DEF EnforceDone, LazyInv, LeavesCovered, Covers, OnTime, Swept
<1>. QED
  BY <1>4, <1>5, <1>6, <1>7 DEF Enforce

\* Every step keeps the heaps honest, when no timestamp runs behind the clock.
LEMMA LazyStep ==
  ASSUME MaxRegress = 0, StoreInv, GroupsInv, LazyInv, [Next]_vars
  PROVE  LazyInv'
<1>. USE DEF counts, arena, heaps
<1>0. TypeOK /\ Arena /\ CursorLive /\ FinishInv /\ HandlesCurrent
  BY DEF StoreInv, Shape, Arena, Forest
<1>1. CASE Arrive
  <2>1. PICK p \in Packets, ts \in 0..MaxTime : ts + MaxRegress >= clock /\ Ingest(p, ts)
    BY <1>1 DEF Arrive
  <2>2. ts \in Nat /\ clock \in Nat
    BY <1>0, <2>1, ConfigAssumption DEF TypeOK, CountsType
  <2>3. ts >= clock
    BY <2>1, <2>2
  <2>4. /\ pkt' = [ts |-> ts, layers |-> p.layers, origlen |-> p.origlen, opaque |-> p.opaque]
        /\ clock' = IF ts > clock THEN ts ELSE clock
        /\ pc' = "sweep" /\ todo' = p.layers
        /\ UNCHANGED <<streams, expiry, lru>>
    BY <2>1 DEF Ingest
  <2>5. pkt'.ts = ts /\ pkt'.layers = p.layers /\ clock' = ts
    BY <2>2, <2>3, <2>4
  <2>6. \A i \in DOMAIN streams : streams[i].lastSeen \in Nat /\ streams[i].lastSeen <= clock
    BY <1>0 DEF TypeOK, StreamsType, Streams, LazyInv, OnTime
  <2>7. \A i \in DOMAIN streams : streams[i].lastSeen <= ts
    BY <2>2, <2>3, <2>6
  <2>8. OnTime' /\ Swept'
    BY <2>4, <2>5, <2>7 DEF OnTime, Swept
  <2>9. LeavesCovered'
    BY <2>4 DEF LazyInv, LeavesCovered, Covers
  <2>. QED
    BY <2>8, <2>9 DEF LazyInv
<1>2. CASE Sweep
  BY <1>0, <1>2, SweepLazy
<1>3. CASE SkipLayer \/ KeyErrorLayer
  <2>1. /\ pc = "layers" /\ todo # <<>> /\ todo' = Tail(todo)
        /\ UNCHANGED <<streams, expiry, lru, clock, pc, pkt>>
    BY <1>3 DEF SkipLayer, KeyErrorLayer
  <2>2. Swept'
    BY <1>0, <2>1, LayerSwept DEF LazyInv
  <2>. QED
    BY <2>1, <2>2 DEF LazyInv, LeavesCovered, Covers, OnTime
<1>4. CASE HitLayer
  BY <1>0, <1>4, HitLazy
<1>5. CASE CreateLayer
  BY <1>0, <1>5, CreateLayerLazy
<1>6. CASE todo # <<>> /\ FoldAny
  BY <1>0, <1>6, FoldLazy, NodeLazy DEF FoldAny
<1>7. CASE LayersDone
  <2>1. pc' = "enforce" /\ UNCHANGED <<expiry, lru, clock>>
    BY <1>7 DEF LayersDone
  <2>2. CASE ~IsLive(parent)
    <3>1. streams' = streams
      BY <1>7, <2>2 DEF LayersDone
    <3>. QED
      BY <2>1, <3>1 DEF LazyInv, LeavesCovered, Covers, OnTime, Swept
  <2>3. CASE IsLive(parent)
    <3>1. PICK i : i = parent.index
      OBVIOUS
    <3>2. PICK new : new = WithOpaque(streams[i])
      OBVIOUS
    <3>3. Touches(i, new) /\ SameData(new, streams[i])
      BY <1>0, <1>7, <2>3, <3>1, <3>2, DoneFacts
    <3>4. i \in DOMAIN streams /\ streams[i] \in Streams /\ streams[i].lastSeen \in Nat
      BY <1>0, <3>3 DEF Touches, TypeOK, StreamsType, Streams
    <3>5. new.lastSeen = streams[i].lastSeen /\ Deadline(new) = Deadline(streams[i])
      BY <3>3 DEF SameData, Deadline
    <3>6. Deadline(streams[i]) \in Nat
      BY <3>4, DeadlineType
    <3>. HIDE DEF Deadline
    <3>7. Deadline(streams[i]) <= Deadline(new) /\ streams[i].lastSeen <= new.lastSeen
      BY <3>4, <3>5, <3>6
    <3>8. LeavesCovered'
      BY <1>0, <2>1, <3>3, <3>7, TouchLazy DEF LazyInv
    <3>9. OnTime'
      BY <2>1, <3>3, <3>4, <3>5 DEF Touches, LazyInv, OnTime
    <3>. QED
      BY <2>1, <3>8, <3>9 DEF LazyInv, Swept
  <2>. QED
    BY <2>2, <2>3
<1>8. CASE Enforce
  BY <1>0, <1>8, EnforceLazy
<1>9. CASE Finish \/ FinishDone \/ Closed \/ UNCHANGED vars
  <2>1. CASE UNCHANGED vars
    BY <2>1 DEF vars, LazyInv, LeavesCovered, Covers, OnTime, Swept, NoneOverdue
  <2>2. CASE Finish \/ FinishDone
    BY <2>2 DEF Finish, FinishDone, LazyInv, LeavesCovered, Covers, OnTime, Swept
  <2>. QED
    BY <1>9, <2>1, <2>2 DEF Closed
<1>10. CASE FinishEvict
  <2>1. PICK id : id = NextToClose.id
    OBVIOUS
  <2>2. /\ pc = "finish" /\ finishing # {} /\ Live /\ IsLive(id)
        /\ Evict(id, "CaptureEnd", expiry, lru)
        /\ UNCHANGED <<clock, pc, pkt, todo, parent>>
    BY <1>10, <2>1 DEF FinishEvict
  <2>3. id \in StreamIds /\ IsLeaf(streams[id.index])
    BY <1>0, <2>1, <2>2, NextFacts, NextIsLeaf DEF FinishInv
  <2>4. IsExpiryHeap(expiry) /\ IsLruHeap(lru)
    BY <1>0 DEF TypeOK, HeapsType
  <2>5. Evicts(id, "CaptureEnd", expiry, lru)
    BY <2>2, <2>3, <2>4 DEF Evicts
  <2>6. LeavesCovered' /\ OnTime'
    BY <1>0, <2>5, EvictLazy, EvictOnTime DEF LazyInv
  <2>. QED
    BY <2>2, <2>6 DEF LazyInv, Swept
<1>11. CASE FinishRetain
  <2>1. PICK i : i = NextToClose.id.index
    OBVIOUS
  <2>2. PICK new : new = ClosedCopy(streams[i])
    OBVIOUS
  <2>3. /\ pc = "finish" /\ ~Live /\ Touches(i, new) /\ SameData(new, streams[i])
        /\ UNCHANGED <<clock, pc, pkt>>
    BY <1>0, <1>11, <2>1, <2>2, RetainFacts
  <2>4. OnTime'
    BY <2>3 DEF Touches, SameData, LazyInv, OnTime
  <2>. QED
    BY <2>3, <2>4 DEF LazyInv, LeavesCovered, Swept
<1>. QED
  BY <1>1, <1>2, <1>3, <1>4, <1>5, <1>6, <1>7, <1>8, <1>9, <1>10, <1>11
     DEF Next, Step, Layer, Finishing

\* An empty arena has no leaf to cover.
LEMMA LazyInit == Init => LazyInv
  BY DEF Init, LazyInv, LeavesCovered, OnTime, Swept

\* When no timestamp runs behind the clock, no leaf is overdue when sweep()
\* returns: a stale heap entry is early, never late.
THEOREM SweepCorrect == Spec => []SweepComplete
<1>. DEFINE I == MaxRegress = 0 => LazyInv
<1>1. Init => I
  BY LazyInit
<1>2. StoreInv /\ GroupsInv /\ I /\ [Next]_vars => I'
  BY LazyStep
<1>3. Init => GroupsInv
  BY DEF Init, GroupsInv, NodesLive, NodesGrouped, MembersCounted
<1>4. StoreInv /\ I => SweepComplete
  <2>. SUFFICES ASSUME StoreInv, I, Live, MaxRegress = 0, pc = "layers", todo = pkt.layers,
                       NEW i \in DOMAIN streams, IsLeaf(streams[i])
                PROVE  Deadline(streams[i]) > clock
    BY DEF SweepComplete
  <2>1. Swept /\ Len(todo) \in Nat
    BY DEF LazyInv, StoreInv, TypeOK, CallType
  <2>2. NoneOverdue
    BY <2>1 DEF Swept
  <2>. QED
    BY <2>2 DEF NoneOverdue
<1>. HIDE DEF I
<1>. QED
  BY <1>1, <1>2, <1>3, <1>4, GroupsStep, StoreCorrect, PTL DEF Spec

\* The eviction of enforce_max_streams picks the leaf updated least recently,
\* the older one of two: the pick of a scan over the live set.
LEMMA PickStep ==
  ASSUME TypeOK, Arena, LazyInv, SinkInv, EnforceEvict, NEW v, v = sink'[Len(sink')].stream,
         NEW i \in DOMAIN streams, IsLeaf(streams[i])
  PROVE  \/ v.lastSeen < streams[i].lastSeen
         \/ v.lastSeen = streams[i].lastSeen /\ v.seq <= streams[i].seq
<1>1. PICK top : top = LruTop
  OBVIOUS
<1>2. PICK s : s = streams[top.id.index]
  OBVIOUS
<1>3. /\ OverCap /\ IsLive(top.id) /\ <<s.lastSeen, s.seq>> = <<top.seen, top.seq>>
      /\ Evict(top.id, "LruEvicted", expiry, Pop(lru, top))
  BY <1>1, <1>2 DEF EnforceEvict
<1>4. s \in Streams
  BY <1>2, <1>3 DEF IsLive, TypeOK, StreamsType
<1>5. v.lastSeen = top.seen /\ v.seq = top.seq
  <2>1. PICK t : t = ClosedCopy(s)
    OBVIOUS
  <2>2. sink' = Append(sink, [stream |-> t, reason |-> "LruEvicted"])
    BY <1>2, <1>3, <2>1 DEF Evict
  <2>3. t \in Streams /\ t.lastSeen = s.lastSeen /\ t.seq = s.seq
    BY <1>4, <2>1, ClosedSame DEF SameData, SameStream
  <2>4. v = t
    <3>1. "LruEvicted" \in Reasons
      BY DEF Reasons
    <3>. QED
      BY <2>2, <2>3, <3>1, SinkGrows DEF SinkInv
  <2>. QED
    BY <1>3, <2>3, <2>4
<1>6. PICK e \in BagToSet(lru) : /\ e.id = streams[i].id /\ e.seq = streams[i].seq
                                 /\ e.seen <= streams[i].lastSeen
  BY <1>3 DEF LazyInv, LeavesCovered, Covers, OverCap
<1>7. IsLruHeap(lru) /\ lru # EmptyBag
  BY <1>3 DEF TypeOK, HeapsType, OverCap
<1>8. top \in BagToSet(lru) /\ LruLeq(top, e)
  BY <1>1, <1>6, <1>7, LruTopFacts
<1>9. /\ top.seen \in Nat /\ top.seq \in Nat /\ e.seen \in Nat /\ e.seq \in Nat
      /\ streams[i].lastSeen \in Nat
  BY <1>6, <1>7, <1>8 DEF IsLruHeap, TypeOK, StreamsType, Streams
<1>10. top.seen < e.seen \/ (top.seen = e.seen /\ top.seq <= e.seq)
  BY <1>8, <1>9 DEF LruLeq
<1>. QED
  BY <1>5, <1>6, <1>9, <1>10

\* Only enforce_max_streams closes a stream as LruEvicted.
LEMMA LruReason ==
  ASSUME StoreInv, SinkInv, [Next]_vars, sink' # sink, sink'[Len(sink')].reason = "LruEvicted"
  PROVE  EnforceEvict
<1>. USE DEF counts, arena, heaps
<1>1. \A r : Append(sink, r)[Len(Append(sink, r))] = r
  BY DEF SinkInv, SinkType
<1>2. ASSUME NEW id, NEW reason, NEW exp, NEW cand, Evict(id, reason, exp, cand)
      PROVE  reason = "LruEvicted"
  <2>1. PICK r : r = [stream |-> ClosedCopy(streams[id.index]), reason |-> reason]
    OBVIOUS
  <2>2. sink' = Append(sink, r)
    BY <1>2, <2>1 DEF Evict
  <2>3. sink'[Len(sink')] = r
    BY <1>1, <2>2
  <2>. QED
    BY <2>1, <2>3
<1>3. CASE Arrive \/ Finish
  BY <1>3 DEF Arrive, Ingest, Finish
<1>4. CASE Sweep
  <2>1. CASE SweepEvict
    <3>1. PICK reason : reason = CloseReason(streams[ExpiryTop.id.index])
      OBVIOUS
    <3>2. Evict(ExpiryTop.id, reason, Pop(expiry, ExpiryTop), lru)
      BY <2>1, <3>1 DEF SweepEvict
    <3>3. reason # "LruEvicted"
      BY <3>1 DEF CloseReason
    <3>. QED
      BY <1>2, <3>2, <3>3
  <2>. QED
    BY <1>4, <2>1 DEF Sweep, SweepDrop, SweepRepush, SweepDone
<1>5. CASE Layer
  BY <1>5 DEF Layer, SkipLayer, KeyErrorLayer, HitLayer, CreateLayer, FoldAny, FoldLayer, FoldNewNode
<1>6. CASE LayersDone \/ Enforce
  BY <1>6 DEF LayersDone, Enforce, EnforceDrop, EnforceRepush, EnforceDone
<1>7. CASE Finishing
  <2>1. CASE FinishEvict
    BY <1>2, <2>1 DEF FinishEvict
  <2>2. CASE FinishRetain
    <3>1. PICK r : r = [stream |-> streams'[NextToClose.id.index], reason |-> "CaptureEnd"]
      OBVIOUS
    <3>2. sink' = Append(sink, r)
      BY <2>2, <3>1 DEF FinishRetain
    <3>3. sink'[Len(sink')] = r
      BY <1>1, <3>2
    <3>. QED
      BY <3>1, <3>3
  <2>. QED
    BY <1>7, <2>1, <2>2 DEF Finishing, FinishDone
<1>8. CASE Closed \/ UNCHANGED vars
  BY <1>8 DEF Closed, vars
<1>. QED
  BY <1>3, <1>4, <1>5, <1>6, <1>7, <1>8 DEF Next, Step

\* The hard cap evicts the least recently updated leaf, when no timestamp runs
\* behind the clock.
THEOREM LruPickCorrect ==
  ASSUME MaxRegress = 0
  PROVE  Spec => LruPick
<1>1. Init => LazyInv /\ GroupsInv
  BY LazyInit DEF Init, GroupsInv, NodesLive, NodesGrouped, MembersCounted
<1>2. StoreInv /\ GroupsInv /\ LazyInv /\ [Next]_vars => LazyInv'
  BY LazyStep
<1>3. ASSUME StoreInv, LazyInv, SinkInv, [Next]_vars,
             sink' # sink, sink'[Len(sink')].reason = "LruEvicted"
      PROVE  LET v == sink'[Len(sink')].stream
             IN  \A i \in DOMAIN streams :
                   IsLeaf(streams[i]) =>
                     \/ v.lastSeen < streams[i].lastSeen
                     \/ v.lastSeen = streams[i].lastSeen /\ v.seq <= streams[i].seq
  <2>1. EnforceEvict /\ TypeOK /\ Arena
    BY <1>3, LruReason DEF StoreInv, Shape
  <2>. QED
    BY <1>3, <2>1, PickStep
<1>4. StoreInv /\ LazyInv /\ SinkInv /\ [Next]_vars =>
        [(sink' # sink /\ sink'[Len(sink')].reason = "LruEvicted") =>
           LET v == sink'[Len(sink')].stream
           IN  \A i \in DOMAIN streams :
                 IsLeaf(streams[i]) =>
                   \/ v.lastSeen < streams[i].lastSeen
                   \/ v.lastSeen = streams[i].lastSeen /\ v.seq <= streams[i].seq]_vars
  BY <1>3
<1>. QED
  BY <1>1, <1>2, <1>4, GroupsStep, SinkCorrect, StoreCorrect, PTL DEF Spec, LruPick

----------------------------------------------------------------------------
(* The counters.  A sum over a set is a recursive function of the set's    *)
(* subsets: that it exists, and that the order in which it takes the       *)
(* elements does not matter, is shown by the least counterexample.         *)

SumBody(f, s) ==
  IF s = {} THEN 0
  ELSE Bytes(CHOOSE x \in s : TRUE) + f[s \ {CHOOSE x \in s : TRUE}]
IsSum(f, D) == f = [s \in D |-> SumBody(f, s)]
SumBytes(S) == MapThenSumSet(Bytes, S)

\* The sum the folds library computes is the value of a function that satisfies
\* its recursion.
LEMMA SumUnfold ==
  ASSUME NEW S, \E f : IsSum(f, SUBSET S)
  PROVE  \E f : IsSum(f, SUBSET S) /\ SumBytes(S) = f[S]
<1>. DEFINE F == CHOOSE f : f = [s \in SUBSET S |-> SumBody(f, s)]
<1>1. IsSum(F, SUBSET S)
  BY DEF IsSum
<1>2. SumBytes(S) = F[S]
  BY DEF SumBytes, MapThenSumSet, MapThenFoldSet, SumBody
<1>. HIDE DEF F
<1>. QED
  BY <1>1, <1>2

\* The recursion that defines a sum over a finite set has a solution.
LEMMA SumExists ==
  ASSUME NEW S, IsFiniteSet(S)
  PROVE  \E f : IsSum(f, SUBSET S)
<1>. DEFINE Small(n) == {s \in SUBSET S : Cardinality(s) <= n}
            Bad == {n \in Nat : ~ \E f : IsSum(f, Small(n))}
<1>0. /\ Cardinality(S) \in Nat
      /\ \A s \in SUBSET S : /\ IsFiniteSet(s) /\ Cardinality(s) \in Nat
                             /\ Cardinality(s) <= Cardinality(S)
                             /\ Cardinality(s) = 0 <=> s = {}
                             /\ \A x \in s : s \ {x} \in SUBSET S /\ Cardinality(s \ {x}) = Cardinality(s) - 1
  BY FS_Subset, FS_CardinalityType, FS_EmptySet, FS_RemoveElement
<1>1. 0 \notin Bad
  <2>1. \A s \in Small(0) : s = {}
    BY <1>0
  <2>. DEFINE f == [s \in Small(0) |-> 0]
  <2>2. IsSum(f, Small(0))
    <3>. HIDE DEF Small
    <3>1. \A s \in Small(0) : SumBody(f, s) = 0
      BY <2>1 DEF SumBody
    <3>. QED
      BY <3>1 DEF IsSum
  <2>. HIDE DEF f, Small
  <2>. QED
    BY <2>2
<1>2. ASSUME NEW n \in Nat, n \notin Bad PROVE n + 1 \notin Bad
  <2>1. PICK f : IsSum(f, Small(n))
    BY <1>2
  <2>. DEFINE e == [s \in Small(n + 1) |-> SumBody(f, s)]
  <2>2. \A s \in Small(n) : s \in Small(n + 1) /\ e[s] = f[s]
    <3>1. \A s \in Small(n) : s \in Small(n + 1)
      BY <1>0
    <3>2. \A s \in Small(n) : f[s] = SumBody(f, s)
      <4>. HIDE DEF Small
      <4>. QED
        BY <2>1 DEF IsSum
    <3>. HIDE DEF Small
    <3>. QED
      BY <3>1, <3>2
  <2>3. \A s \in Small(n + 1) : SumBody(e, s) = SumBody(f, s)
    <3>. SUFFICES ASSUME NEW s \in Small(n + 1) PROVE SumBody(e, s) = SumBody(f, s)
      OBVIOUS
    <3>1. CASE s = {}
      BY <3>1 DEF SumBody
    <3>2. CASE s # {}
      <4>1. PICK x : x = CHOOSE y \in s : TRUE
        OBVIOUS
      <4>2. x \in s
        BY <3>2, <4>1
      <4>3. s \ {x} \in Small(n)
        BY <1>0, <4>2
      <4>. HIDE DEF e, Small
      <4>4. e[s \ {x}] = f[s \ {x}]
        BY <2>2, <4>3
      <4>5. \A h : SumBody(h, s) = Bytes(x) + h[s \ {x}]
        BY <3>2, <4>1 DEF SumBody
      <4>. QED
        BY <4>4, <4>5
    <3>. QED
      BY <3>1, <3>2
  <2>4. IsSum(e, Small(n + 1))
    <3>. HIDE DEF Small
    <3>. QED
      BY <2>3 DEF IsSum
  <2>. HIDE DEF e, Small
  <2>. QED
    BY <2>4
<1>3. Bad = {}
  <2>. HIDE DEF Small
  <2>. SUFFICES ASSUME Bad # {} PROVE FALSE
    OBVIOUS
  <2>1. PICK n \in Bad : \A m \in Bad : n <= m
    BY LeastNat
  <2>2. n \in Nat /\ n # 0
    BY <1>1
  <2>. HIDE DEF Bad
  <2>3. n - 1 \in Nat /\ n - 1 \notin Bad
    BY <2>1, <2>2
  <2>4. n - 1 + 1 \notin Bad
    BY <1>2, <2>3
  <2>. QED
    BY <2>1, <2>2, <2>4
<1>4. Small(Cardinality(S)) = SUBSET S
  BY <1>0
<1>. HIDE DEF Small
<1>5. \E f : IsSum(f, Small(Cardinality(S)))
  BY <1>0, <1>3
<1>. QED
  BY <1>4, <1>5

\* The sum of a set does not depend on the set it is a part of.
LEMMA SumLocal ==
  ASSUME NEW S, NEW T, IsFiniteSet(S), T \subseteq S,
         NEW f, NEW g, IsSum(f, SUBSET S), IsSum(g, SUBSET T)
  PROVE  f[T] = g[T]
<1>. DEFINE Bad == {n \in Nat : \E s \in SUBSET T : Cardinality(s) = n /\ f[s] # g[s]}
<1>0. \A s \in SUBSET T : /\ s \in SUBSET S /\ Cardinality(s) \in Nat
                          /\ \A x \in s : s \ {x} \in SUBSET T /\ Cardinality(s \ {x}) = Cardinality(s) - 1
  <2>1. \A s \in SUBSET T : IsFiniteSet(s)
    BY FS_Subset
  <2>. QED
    BY <2>1, FS_CardinalityType, FS_RemoveElement
<1>1. \A s \in SUBSET T : f[s] = SumBody(f, s) /\ g[s] = SumBody(g, s)
  BY DEF IsSum
<1>2. Bad = {}
  <2>. SUFFICES ASSUME Bad # {} PROVE FALSE
    OBVIOUS
  <2>1. PICK n \in Bad : \A m \in Bad : n <= m
    BY LeastNat
  <2>2. PICK s \in SUBSET T : Cardinality(s) = n /\ f[s] # g[s]
    BY <2>1
  <2>3. s # {}
    BY <1>1, <2>2 DEF SumBody
  <2>4. PICK x : x = CHOOSE y \in s : TRUE
    OBVIOUS
  <2>5. x \in s
    BY <2>3, <2>4
  <2>6. /\ f[s] = Bytes(x) + f[s \ {x}] /\ g[s] = Bytes(x) + g[s \ {x}]
    BY <1>1, <2>3, <2>4 DEF SumBody
  <2>7. s \ {x} \in SUBSET T /\ Cardinality(s \ {x}) = n - 1 /\ n \in Nat /\ n - 1 \in Nat
    <3>1. s \ {x} \in SUBSET T /\ Cardinality(s \ {x}) = Cardinality(s) - 1
      BY <1>0, <2>5
    <3>2. Cardinality(s \ {x}) \in Nat
      BY <1>0, <3>1
    <3>. QED
      BY <2>1, <2>2, <3>1, <3>2
  <2>8. n - 1 \notin Bad
    <3>. HIDE DEF Bad
    <3>. QED
      BY <2>1, <2>7
  <2>9. f[s \ {x}] = g[s \ {x}]
    BY <2>7, <2>8
  <2>. QED
    BY <2>2, <2>6, <2>9
<1>3. T \in SUBSET T /\ Cardinality(T) \in Nat
  BY <1>0
<1>. QED
  BY <1>2, <1>3

\* The sum of a set takes one of its elements first.
LEMMA SumFirst ==
  ASSUME NEW S, IsFiniteSet(S), S # {}
  PROVE  \E x \in S : SumBytes(S) = Bytes(x) + SumBytes(S \ {x})
<1>1. PICK f : IsSum(f, SUBSET S) /\ SumBytes(S) = f[S]
  BY SumExists, SumUnfold
<1>2. PICK x : x = CHOOSE y \in S : TRUE
  OBVIOUS
<1>3. x \in S
  BY <1>2
<1>4. f[S] = Bytes(x) + f[S \ {x}]
  <2>1. f[S] = SumBody(f, S)
    <3>1. S \in SUBSET S
      OBVIOUS
    <3>. QED
      BY <1>1, <3>1 DEF IsSum
  <2>. QED
    BY <1>2, <2>1 DEF SumBody
<1>5. IsFiniteSet(S \ {x}) /\ S \ {x} \subseteq S
  BY FS_Subset
<1>6. PICK g : IsSum(g, SUBSET (S \ {x})) /\ SumBytes(S \ {x}) = g[S \ {x}]
  BY <1>5, SumExists, SumUnfold
<1>7. f[S \ {x}] = g[S \ {x}]
  <2>1. PICK T : T = S \ {x}
    OBVIOUS
  <2>2. IsSum(f, SUBSET S) /\ IsSum(g, SUBSET T) /\ T \subseteq S
    BY <1>1, <1>5, <1>6, <2>1
  <2>3. f[T] = g[T]
    BY <2>2, SumLocal
  <2>. QED
    BY <2>1, <2>3
<1>. QED
  BY <1>1, <1>3, <1>4, <1>6, <1>7

\* Nothing adds up to nothing.
LEMMA SumEmpty == SumBytes({}) = 0
<1>1. PICK f : IsSum(f, SUBSET {}) /\ SumBytes({}) = f[{}]
  BY SumExists, SumUnfold, FS_EmptySet
<1>2. {} \in SUBSET {}
  OBVIOUS
<1>3. f[{}] = SumBody(f, {})
  BY <1>1, <1>2 DEF IsSum
<1>. QED
  BY <1>1, <1>3 DEF SumBody

\* The sum of a set is that of any one element and the others.
LEMMA SumRemove ==
  ASSUME NEW R, IsFiniteSet(R), R \subseteq Streams, NEW z \in R
  PROVE  /\ SumBytes(R) \in Nat /\ SumBytes(R \ {z}) \in Nat
         /\ SumBytes(R) = Bytes(z) + SumBytes(R \ {z})
<1>. DEFINE Good(S) == /\ SumBytes(S) \in Nat
                       /\ \A y \in S : SumBytes(S) = Bytes(y) + SumBytes(S \ {y})
            Bad == {n \in Nat : \E S \in SUBSET R : Cardinality(S) = n /\ ~Good(S)}
<1>0. \A S \in SUBSET R : /\ IsFiniteSet(S) /\ Cardinality(S) \in Nat
                          /\ \A x \in S : S \ {x} \in SUBSET R /\ Cardinality(S \ {x}) = Cardinality(S) - 1
  <2>1. \A S \in SUBSET R : IsFiniteSet(S)
    BY FS_Subset
  <2>. QED
    BY <2>1, FS_CardinalityType, FS_RemoveElement
<1>b. \A x \in R : Bytes(x) \in Nat
  BY DEF Bytes, Streams, Directions
<1>1. Bad = {}
  <2>. SUFFICES ASSUME Bad # {} PROVE FALSE
    OBVIOUS
  <2>1. PICK n \in Bad : \A m \in Bad : n <= m
    BY LeastNat
  <2>2. PICK S \in SUBSET R : Cardinality(S) = n /\ ~Good(S)
    BY <2>1
  <2>3. S # {}
    BY <2>2, SumEmpty
  <2>4. PICK x \in S : SumBytes(S) = Bytes(x) + SumBytes(S \ {x})
    BY <1>0, <2>3, SumFirst
  <2>5. ASSUME NEW y \in S PROVE Good(S \ {y})
    <3>1. S \ {y} \in SUBSET R /\ Cardinality(S \ {y}) = n - 1
      BY <1>0, <2>2
    <3>2. n \in Nat /\ n - 1 \in Nat
      BY <1>0, <2>1, <3>1
    <3>3. n - 1 \notin Bad
      <4>. HIDE DEF Bad
      <4>. QED
        BY <2>1, <3>2
    <3>. HIDE DEF Good
    <3>. QED
      BY <3>1, <3>2, <3>3
  <2>6. SumBytes(S) \in Nat
    BY <1>b, <2>4, <2>5
  <2>7. ASSUME NEW y \in S PROVE SumBytes(S) = Bytes(y) + SumBytes(S \ {y})
    <3>1. CASE y = x
      BY <2>4, <3>1
    <3>2. CASE y # x
      <4>1. y \in S \ {x} /\ x \in S \ {y} /\ (S \ {x}) \ {y} = (S \ {y}) \ {x}
        BY <3>2
      <4>2. SumBytes(S \ {x}) = Bytes(y) + SumBytes((S \ {x}) \ {y})
        BY <2>5, <4>1
      <4>3. SumBytes(S \ {y}) = Bytes(x) + SumBytes((S \ {y}) \ {x})
        BY <2>5, <4>1
      <4>4. SumBytes((S \ {y}) \ {x}) = SumBytes((S \ {x}) \ {y})
        BY <4>1
      <4>5. PICK r : r = SumBytes((S \ {x}) \ {y})
        OBVIOUS
      <4>6. r \in Nat
        <5>1. Good((S \ {x}) \ {y})
          <6>1. S \ {x} \in SUBSET R /\ Cardinality(S \ {x}) = n - 1
            BY <1>0, <2>2
          <6>2. /\ (S \ {x}) \ {y} \in SUBSET R /\ Cardinality((S \ {x}) \ {y}) = n - 1 - 1
            BY <1>0, <4>1, <6>1
          <6>3. n \in Nat /\ n - 1 - 1 \in Nat
            BY <1>0, <2>1, <6>2
          <6>4. n - 1 - 1 \notin Bad
            <7>. HIDE DEF Bad
            <7>. QED
              BY <2>1, <6>3
          <6>. HIDE DEF Good
          <6>. QED
            BY <6>2, <6>3, <6>4
        <5>. QED
          BY <4>5, <5>1
      <4>7. Bytes(x) \in Nat /\ Bytes(y) \in Nat
        BY <1>b
      <4>. HIDE DEF Good
      <4>8. SumBytes(S) = Bytes(x) + (Bytes(y) + r)
        BY <2>4, <4>2, <4>5
      <4>9. SumBytes(S \ {y}) = Bytes(x) + r
        BY <4>3, <4>4, <4>5
      <4>. QED
        BY <4>6, <4>7, <4>8, <4>9
    <3>. QED
      BY <3>1, <3>2
  <2>. QED
    BY <2>2, <2>6, <2>7
<1>2. \A S \in SUBSET R : Good(S)
  <2>. HIDE DEF Good
  <2>. QED
    BY <1>0, <1>1
<1>3. Good(R) /\ Good(R \ {z})
  BY <1>2
<1>. QED
  BY <1>3

\* A set of n stream records that add up to b bytes.
Tally(S, n, b) ==
  IsFiniteSet(S) /\ S \subseteq Streams /\ n = Cardinality(S) /\ b = SumBytes(S)

\* A stream has counted some number of bytes.
LEMMA BytesNat ==
  ASSUME NEW s \in Streams
  PROVE  Bytes(s) \in Nat
  BY DEF Bytes, Streams, Directions

\* A tally is two numbers.
LEMMA TallyNat ==
  ASSUME NEW S, NEW n, NEW b, Tally(S, n, b)
  PROVE  n \in Nat /\ b \in Nat
<1>1. n \in Nat
  BY FS_CardinalityType DEF Tally
<1>2. CASE S = {}
  BY <1>1, <1>2, SumEmpty DEF Tally
<1>3. CASE S # {}
  <2>1. PICK z : z \in S
    BY <1>3
  <2>2. SumBytes(S) \in Nat
    BY <2>1, SumRemove DEF Tally
  <2>. QED
    BY <1>1, <2>2 DEF Tally
<1>. QED
  BY <1>2, <1>3

\* One record less.
LEMMA TallyDrop ==
  ASSUME NEW S, NEW n, NEW b, Tally(S, n, b), NEW u \in S
  PROVE  /\ Tally(S \ {u}, n - 1, b - Bytes(u))
         /\ n >= 1 /\ b >= Bytes(u)
<1>1. IsFiniteSet(S) /\ S \subseteq Streams /\ n = Cardinality(S) /\ b = SumBytes(S)
  BY DEF Tally
<1>2. n \in Nat /\ b \in Nat /\ Bytes(u) \in Nat
  BY <1>1, TallyNat, BytesNat
<1>3. IsFiniteSet(S \ {u}) /\ Cardinality(S \ {u}) = n - 1
  BY <1>1, FS_RemoveElement
<1>4. Cardinality(S \ {u}) \in Nat
  BY <1>3, FS_CardinalityType
<1>5. SumBytes(S \ {u}) \in Nat /\ b = Bytes(u) + SumBytes(S \ {u})
  BY <1>1, SumRemove
<1>. QED
  BY <1>1, <1>2, <1>3, <1>4, <1>5 DEF Tally

\* One record more.
LEMMA TallyAdd ==
  ASSUME NEW S, NEW n, NEW b, Tally(S, n, b), NEW u \in Streams, u \notin S
  PROVE  Tally(S \cup {u}, n + 1, b + Bytes(u))
<1>1. IsFiniteSet(S) /\ S \subseteq Streams /\ n = Cardinality(S) /\ b = SumBytes(S)
  BY DEF Tally
<1>2. n \in Nat /\ b \in Nat /\ Bytes(u) \in Nat
  BY TallyNat, BytesNat
<1>3. PICK T : T = S \cup {u}
  OBVIOUS
<1>4. IsFiniteSet(T) /\ Cardinality(T) = n + 1 /\ T \subseteq Streams /\ u \in T /\ T \ {u} = S
  BY <1>1, <1>3, FS_AddElement
<1>5. SumBytes(T) = Bytes(u) + SumBytes(T \ {u})
  BY <1>4, SumRemove
<1>6. SumBytes(T) = Bytes(u) + b
  BY <1>1, <1>4, <1>5
<1>7. SumBytes(T) = b + Bytes(u)
  BY <1>2, <1>6
<1>. QED
  BY <1>3, <1>4, <1>7 DEF Tally

\* One record for another.
LEMMA TallySwap ==
  ASSUME NEW S, NEW n, NEW b, Tally(S, n, b), NEW u \in S, NEW v \in Streams, v \notin S \ {u}
  PROVE  Tally((S \ {u}) \cup {v}, n, b - Bytes(u) + Bytes(v))
<1>1. Tally(S \ {u}, n - 1, b - Bytes(u))
  BY TallyDrop
<1>2. Tally((S \ {u}) \cup {v}, n - 1 + 1, b - Bytes(u) + Bytes(v))
  BY <1>1, TallyAdd
<1>3. n \in Nat
  BY TallyNat
<1>4. n - 1 + 1 = n
  BY <1>3
<1>. QED
  BY <1>2, <1>4

\* An arena whose records know their slot, and those of its records that
\* belong to P.
Indexed(f) == \A i \in DOMAIN f : f[i] \in Streams /\ f[i].id.index = i
Part(f, P) == {f[i] : i \in DOMAIN f} \cap P

\* A record of the arena is replaced by one that stays in, or out of, the part.
LEMMA PartPut ==
  ASSUME NEW f, Indexed(f), NEW i \in DOMAIN f, NEW u \in Streams, u.id.index = i,
         NEW P, u \in P <=> f[i] \in P, NEW n, NEW b, Tally(Part(f, P), n, b)
  PROVE  LET g == [f EXCEPT ![i] = u]
         IN  /\ Indexed(g)
             /\ f[i] \in P => Tally(Part(g, P), n, b - Bytes(f[i]) + Bytes(u))
             /\ f[i] \notin P => Tally(Part(g, P), n, b)
<1>. DEFINE g == [f EXCEPT ![i] = u]
<1>0. DOMAIN g = DOMAIN f /\ g[i] = u /\ \A j \in DOMAIN f : j # i => g[j] = f[j]
  OBVIOUS
<1>. HIDE DEF g
<1>1. Indexed(g)
  BY <1>0 DEF Indexed
<1>2. \A j \in DOMAIN f : j # i => f[j] # f[i] /\ f[j] # u
  BY DEF Indexed
<1>3. CASE f[i] \in P
  <2>1. Part(g, P) = (Part(f, P) \ {f[i]}) \cup {u}
    BY <1>0, <1>2, <1>3 DEF Part
  <2>2. f[i] \in Part(f, P) /\ u \notin Part(f, P) \ {f[i]}
    BY <1>2, <1>3 DEF Part
  <2>3. PICK S : S = Part(f, P)
    OBVIOUS
  <2>4. Tally((S \ {f[i]}) \cup {u}, n, b - Bytes(f[i]) + Bytes(u))
    BY <2>2, <2>3, TallySwap
  <2>. QED
    BY <1>1, <1>3, <2>1, <2>3, <2>4 DEF g
<1>4. CASE f[i] \notin P
  <2>1. Part(g, P) = Part(f, P)
    <3>1. \A x : x \in Part(g, P) => x \in Part(f, P)
      BY <1>0, <1>4 DEF Part
    <3>2. \A x : x \in Part(f, P) => x \in Part(g, P)
      BY <1>0, <1>4 DEF Part
    <3>. QED
      BY <3>1, <3>2
  <2>. QED
    BY <1>1, <1>4, <2>1 DEF g
<1>. QED
  BY <1>3, <1>4

\* A record is added to the arena.
LEMMA PartAdd ==
  ASSUME NEW f, Indexed(f), NEW i, i \notin DOMAIN f, NEW u \in Streams, u.id.index = i,
         NEW P, NEW n, NEW b, Tally(Part(f, P), n, b),
         NEW g, g = [j \in DOMAIN f \cup {i} |-> IF j = i THEN u ELSE f[j]]
  PROVE  /\ Indexed(g)
         /\ u \in P => Tally(Part(g, P), n + 1, b + Bytes(u))
         /\ u \notin P => Tally(Part(g, P), n, b)
<1>0. /\ DOMAIN g = DOMAIN f \cup {i} /\ g[i] = u /\ \A j \in DOMAIN f : g[j] = f[j] /\ f[j] # u
  BY DEF Indexed
<1>1. Indexed(g)
  BY <1>0 DEF Indexed
<1>2. CASE u \in P
  <2>1. Part(g, P) = Part(f, P) \cup {u}
    <3>1. \A x : x \in Part(g, P) => x \in Part(f, P) \cup {u}
      BY <1>0 DEF Part
    <3>2. \A x : x \in Part(f, P) \cup {u} => x \in Part(g, P)
      BY <1>0, <1>2 DEF Part
    <3>. QED
      BY <3>1, <3>2
  <2>2. u \notin Part(f, P)
    BY <1>0 DEF Part
  <2>3. PICK S : S = Part(f, P)
    OBVIOUS
  <2>4. Tally(S \cup {u}, n + 1, b + Bytes(u))
    BY <2>2, <2>3, TallyAdd
  <2>. QED
    BY <1>1, <1>2, <2>1, <2>3, <2>4
<1>3. CASE u \notin P
  <2>1. Part(g, P) = Part(f, P)
    <3>1. \A x : x \in Part(g, P) => x \in Part(f, P)
      BY <1>0, <1>3 DEF Part
    <3>2. \A x : x \in Part(f, P) => x \in Part(g, P)
      BY <1>0 DEF Part
    <3>. QED
      BY <3>1, <3>2
  <2>. QED
    BY <1>1, <1>3, <2>1
<1>. QED
  BY <1>2, <1>3

\* A record leaves the arena.
LEMMA PartDrop ==
  ASSUME NEW f, Indexed(f), NEW i \in DOMAIN f, NEW P, NEW n, NEW b, Tally(Part(f, P), n, b),
         NEW g, g = [j \in DOMAIN f \ {i} |-> f[j]]
  PROVE  /\ Indexed(g)
         /\ f[i] \in P => /\ Tally(Part(g, P), n - 1, b - Bytes(f[i]))
                          /\ n >= 1 /\ b >= Bytes(f[i])
         /\ f[i] \notin P => Tally(Part(g, P), n, b)
<1>0. /\ DOMAIN g = DOMAIN f \ {i} /\ \A j \in DOMAIN g : g[j] = f[j] /\ f[j] # f[i]
  BY DEF Indexed
<1>1. Indexed(g)
  BY <1>0 DEF Indexed
<1>2. CASE f[i] \in P
  <2>1. Part(g, P) = Part(f, P) \ {f[i]}
    <3>1. \A x : x \in Part(g, P) => x \in Part(f, P) \ {f[i]}
      BY <1>0 DEF Part
    <3>2. \A x : x \in Part(f, P) \ {f[i]} => x \in Part(g, P)
      BY <1>0, <1>2 DEF Part
    <3>. QED
      BY <3>1, <3>2
  <2>2. f[i] \in Part(f, P)
    BY <1>2 DEF Part
  <2>3. PICK S : S = Part(f, P)
    OBVIOUS
  <2>4. Tally(S \ {f[i]}, n - 1, b - Bytes(f[i])) /\ n >= 1 /\ b >= Bytes(f[i])
    BY <2>2, <2>3, TallyDrop
  <2>. QED
    BY <1>1, <1>2, <2>1, <2>3, <2>4
<1>3. CASE f[i] \notin P
  <2>1. Part(g, P) = Part(f, P)
    <3>1. \A x : x \in Part(g, P) => x \in Part(f, P)
      BY <1>0 DEF Part
    <3>2. \A x : x \in Part(f, P) => x \in Part(g, P)
      BY <1>0, <1>3 DEF Part
    <3>. QED
      BY <3>1, <3>2
  <2>. QED
    BY <1>1, <1>3, <2>1
<1>. QED
  BY <1>2, <1>3

\* The per-protocol counters pp are those of the arena f.
Of(p) == {s \in Streams : s.protocol = p}
Counted(f, pp) ==
  \A p \in Protocols : Tally(Part(f, Of(p)), pp[p].live, pp[p].bytes)

\* What a step does to the counters pp: d bytes more for q, a stream of q
\* with d bytes more, or the stream s less.
MoreBytes(pp, qq, q, d) ==
  \A p \in Protocols :
    /\ qq[p].live = pp[p].live
    /\ qq[p].bytes = IF p = q THEN pp[p].bytes + d ELSE pp[p].bytes
OneMore(pp, qq, q, d) ==
  \A p \in Protocols :
    /\ qq[p].live = IF p = q THEN pp[p].live + 1 ELSE pp[p].live
    /\ qq[p].bytes = IF p = q THEN pp[p].bytes + d ELSE pp[p].bytes
OneLess(pp, qq, s) ==
  \A p \in Protocols :
    /\ qq[p].live = IF p = s.protocol THEN MinusOrZero(pp[p].live, 1) ELSE pp[p].live
    /\ qq[p].bytes = IF p = s.protocol THEN MinusOrZero(pp[p].bytes, Bytes(s)) ELSE pp[p].bytes

\* What it does to the arena: the parent's record gets the children C.
KinOf(f, on, i, C) ==
  [j \in DOMAIN f |-> IF on /\ j = i THEN [f[j] EXCEPT !.children = C] ELSE f[j]]

\* A record is replaced by one of the same protocol with d bytes more.
LEMMA CountPut ==
  ASSUME NEW f, Indexed(f), NEW i \in DOMAIN f, NEW u \in Streams, u.id.index = i,
         u.protocol = f[i].protocol, NEW d \in Nat, Bytes(u) = Bytes(f[i]) + d,
         NEW pp, NEW qq, Counted(f, pp),
         MoreBytes(pp, qq, u.protocol, d),
         NEW g, g = [f EXCEPT ![i] = u]
  PROVE  Indexed(g) /\ Counted(g, qq)
<1>0. f[i] \in Streams /\ Bytes(f[i]) \in Nat /\ Bytes(u) \in Nat
  BY BytesNat DEF Indexed
<1>1. ASSUME NEW p \in Protocols
      PROVE  Indexed(g) /\ Tally(Part(g, Of(p)), qq[p].live, qq[p].bytes)
  <2>1. PICK P : P = Of(p)
    OBVIOUS
  <2>2. u \in P <=> f[i] \in P
    BY <1>0, <2>1 DEF Of
  <2>3. Tally(Part(f, P), pp[p].live, pp[p].bytes)
    BY <2>1 DEF Counted
  <2>4. /\ Indexed(g)
        /\ f[i] \in P => Tally(Part(g, P), pp[p].live, pp[p].bytes - Bytes(f[i]) + Bytes(u))
        /\ f[i] \notin P => Tally(Part(g, P), pp[p].live, pp[p].bytes)
    BY <2>2, <2>3, PartPut, ZenonT(40)
  <2>5. pp[p].bytes \in Nat
    BY <2>3, TallyNat
  <2>6. pp[p].bytes - Bytes(f[i]) + Bytes(u) = pp[p].bytes + d
    BY <1>0, <2>5
  <2>7. f[i] \in P <=> p = u.protocol
    BY <1>0, <2>1 DEF Of
  <2>8. CASE p = u.protocol
    BY <2>1, <2>4, <2>6, <2>7, <2>8 DEF MoreBytes
  <2>9. CASE p # u.protocol
    BY <2>1, <2>4, <2>7, <2>9 DEF MoreBytes
  <2>. QED
    BY <2>8, <2>9
<1>2. u.protocol \in Protocols
  BY DEF Streams
<1>. QED
  BY <1>1, <1>2 DEF Counted

\* A stream is added to the arena and to the counters.
LEMMA CountAdd ==
  ASSUME NEW f, Indexed(f), NEW i, i \notin DOMAIN f, NEW u \in Streams, u.id.index = i,
         NEW pp, NEW qq, Counted(f, pp),
         OneMore(pp, qq, u.protocol, Bytes(u)),
         NEW g, g = [j \in DOMAIN f \cup {i} |-> IF j = i THEN u ELSE f[j]]
  PROVE  Indexed(g) /\ Counted(g, qq)
<1>1. ASSUME NEW p \in Protocols
      PROVE  Indexed(g) /\ Tally(Part(g, Of(p)), qq[p].live, qq[p].bytes)
  <2>1. PICK P : P = Of(p)
    OBVIOUS
  <2>2. Tally(Part(f, P), pp[p].live, pp[p].bytes)
    BY <2>1 DEF Counted
  <2>3. /\ Indexed(g)
        /\ u \in P => Tally(Part(g, P), pp[p].live + 1, pp[p].bytes + Bytes(u))
        /\ u \notin P => Tally(Part(g, P), pp[p].live, pp[p].bytes)
    BY <2>2, PartAdd
  <2>4. u \in P <=> p = u.protocol
    BY <2>1 DEF Of
  <2>5. CASE p = u.protocol
    BY <2>1, <2>3, <2>4, <2>5 DEF OneMore
  <2>6. CASE p # u.protocol
    BY <2>1, <2>3, <2>4, <2>6 DEF OneMore
  <2>. QED
    BY <2>5, <2>6
<1>2. u.protocol \in Protocols
  BY DEF Streams
<1>. QED
  BY <1>1, <1>2 DEF Counted

\* A stream leaves the arena and the counters.
LEMMA CountDrop ==
  ASSUME NEW f, Indexed(f), NEW i \in DOMAIN f, NEW s, s = f[i], NEW pp, NEW qq, Counted(f, pp),
         OneLess(pp, qq, s),
         NEW g, g = [j \in DOMAIN f \ {i} |-> f[j]]
  PROVE  Indexed(g) /\ Counted(g, qq)
<1>0. s \in Streams /\ s.protocol \in Protocols
  BY DEF Indexed, Streams
<1>1. ASSUME NEW p \in Protocols
      PROVE  Indexed(g) /\ Tally(Part(g, Of(p)), qq[p].live, qq[p].bytes)
  <2>1. PICK P : P = Of(p)
    OBVIOUS
  <2>2. Tally(Part(f, P), pp[p].live, pp[p].bytes)
    BY <2>1 DEF Counted
  <2>3. /\ Indexed(g)
        /\ s \in P => /\ Tally(Part(g, P), pp[p].live - 1, pp[p].bytes - Bytes(s))
                      /\ pp[p].live >= 1 /\ pp[p].bytes >= Bytes(s)
        /\ s \notin P => Tally(Part(g, P), pp[p].live, pp[p].bytes)
    BY <2>2, PartDrop
  <2>4. s \in P <=> p = s.protocol
    BY <1>0, <2>1 DEF Of
  <2>5. CASE p = s.protocol
    <3>1. qq[p].live = pp[p].live - 1 /\ qq[p].bytes = pp[p].bytes - Bytes(s)
      BY <2>3, <2>4, <2>5 DEF MinusOrZero, OneLess
    <3>. QED
      BY <2>1, <2>3, <2>4, <2>5, <3>1
  <2>6. CASE p # s.protocol
    BY <2>1, <2>3, <2>4, <2>6 DEF OneLess
  <2>. QED
    BY <2>5, <2>6
<1>. QED
  BY <1>0, <1>1 DEF Counted

\* What the counters of a protocol show after a layer was folded in.
LEMMA CountLayerFacts ==
  ASSUME TypeOK, NEW q \in Protocols, NEW flows, NEW n, NEW qq, qq = CountLayer(q, flows, n)
  PROVE  /\ n = 0 => MoreBytes(perProtocol, qq, q, pkt.origlen)
         /\ n = 1 => OneMore(perProtocol, qq, q, pkt.origlen)
<1>1. /\ DOMAIN perProtocol = Protocols
      /\ \A p \in Protocols : perProtocol[p].live \in Nat
  BY DEF TypeOK, CountsType
<1>2. \A p \in Protocols :
        /\ qq[p].live = IF p = q THEN perProtocol[p].live + n ELSE perProtocol[p].live
        /\ qq[p].bytes = IF p = q THEN perProtocol[p].bytes + pkt.origlen ELSE perProtocol[p].bytes
  BY <1>1 DEF CountLayer
<1>. QED
  BY <1>1, <1>2 DEF MoreBytes, OneMore

\* A packet adds its length to the stream it belongs to.
LEMMA AddedBytes ==
  ASSUME TypeOK, NEW s \in Streams, NEW d \in Directions, NEW u, u.stats = AddStats(s, d)
  PROVE  Bytes(u) = Bytes(s) + pkt.origlen /\ pkt.origlen \in Nat
<1>1. pkt.origlen \in Nat
  BY DEF TypeOK, CallType
<1>2. s.stats \in [Directions -> Nat] /\ "AtoB" \in Directions /\ "BtoA" \in Directions
  BY DEF Streams, Directions
<1>3. s.stats["AtoB"] \in Nat /\ s.stats["BtoA"] \in Nat
  BY <1>2
<1>4. u.stats = [s.stats EXCEPT ![d] = @ + pkt.origlen]
  BY DEF AddStats
<1>5. CASE d = "AtoB"
  <2>1. u.stats["AtoB"] = s.stats["AtoB"] + pkt.origlen /\ u.stats["BtoA"] = s.stats["BtoA"]
    BY <1>2, <1>4, <1>5
  <2>. QED
    BY <1>1, <1>3, <2>1 DEF Bytes
<1>6. CASE d = "BtoA"
  <2>1. u.stats["BtoA"] = s.stats["BtoA"] + pkt.origlen /\ u.stats["AtoB"] = s.stats["AtoB"]
    BY <1>2, <1>4, <1>6
  <2>. QED
    BY <1>1, <1>3, <2>1 DEF Bytes
<1>. QED
  BY <1>5, <1>6 DEF Directions

\* The arena keeps each record in the slot its handle names.
LEMMA ArenaIndexed ==
  ASSUME TypeOK, HandlesCurrent
  PROVE  Indexed(streams)
  BY LiveFacts DEF Indexed, TypeOK, StreamsType

\* The arena once the parent's record is updated.
LEMMA KinCounts ==
  ASSUME NEW f, Indexed(f), NEW pp, Counted(f, pp), NEW i, NEW C, NEW on,
         on => i \in DOMAIN f, C \in SUBSET StreamIds,
         NEW g, g = KinOf(f, on, i, C)
  PROVE  Indexed(g) /\ Counted(g, pp) /\ DOMAIN g = DOMAIN f
<1>0. g = [j \in DOMAIN f |-> IF on /\ j = i THEN [f[j] EXCEPT !.children = C] ELSE f[j]]
  BY DEF KinOf
<1>1. CASE on
  <2>1. PICK u : u = [f[i] EXCEPT !.children = C]
    OBVIOUS
  <2>2. f[i] \in Streams /\ f[i].id.index = i
    BY <1>1 DEF Indexed
  <2>3. u \in Streams /\ u.id = f[i].id /\ u.protocol = f[i].protocol /\ u.stats = f[i].stats
    BY <2>1, <2>2 DEF Streams
  <2>4. Bytes(u) = Bytes(f[i]) + 0 /\ 0 \in Nat
    BY <2>2, <2>3, BytesNat DEF Bytes
  <2>5. [f EXCEPT ![i] = u] = g
    <3>1. \A j \in DOMAIN f : g[j] = IF j = i THEN u ELSE f[j]
      BY <1>0, <1>1, <2>1
    <3>. QED
      BY <1>0, <1>1, <3>1
  <2>6. MoreBytes(pp, pp, u.protocol, 0)
    BY TallyNat DEF Counted, MoreBytes
  <2>7. u.id.index = i
    BY <2>2, <2>3
  <2>8. Indexed(g) /\ Counted(g, pp)
    BY <1>1, <2>3, <2>4, <2>5, <2>6, <2>7, CountPut
  <2>. QED
    BY <1>0, <2>8
<1>2. CASE ~on
  <2>1. Indexed(g)
    BY <1>0, <1>2 DEF Indexed
  <2>2. \A P : Part(g, P) = Part(f, P)
    BY <1>0, <1>2 DEF Part
  <2>. QED
    BY <1>0, <2>1, <2>2 DEF Counted
<1>. QED
  BY <1>1, <1>2

\* A stream that gains d bytes and a counter that gains d bytes agree again.
LEMMA TouchCounts ==
  ASSUME TypeOK, Arena, Counted(streams, perProtocol), NEW i, NEW new, Touches(i, new),
         NEW d \in Nat, Bytes(new) = Bytes(streams[i]) + d,
         NEW qq, qq = perProtocol', MoreBytes(perProtocol, qq, new.protocol, d)
  PROVE  Counted(streams', perProtocol')
<1>1. Indexed(streams)
  BY ArenaIndexed DEF Arena, Forest
<1>2. /\ i \in DOMAIN streams /\ new \in Streams /\ new.id = streams[i].id
      /\ new.protocol = streams[i].protocol /\ streams' = [streams EXCEPT ![i] = new]
  BY DEF Touches, SameStream
<1>3. new.id.index = i
  BY <1>1, <1>2 DEF Indexed
<1>4. PICK g : g = streams'
  OBVIOUS
<1>5. Counted(g, qq)
  BY <1>1, <1>2, <1>3, <1>4, CountPut
<1>. QED
  BY <1>4, <1>5

\* A created stream carries the packet's bytes, as its protocol's counter does.
LEMMA CreateCounts ==
  ASSUME TypeOK, Arena, Counted(streams, perProtocol),
         NEW fresh, NEW s, NEW lay, Creates(fresh, s, lay), Bytes(s) = pkt.origlen,
         NEW flows, perProtocol' = CountLayer(lay.protocol, flows, 1)
  PROVE  Counted(streams', perProtocol')
<1>1. Indexed(streams)
  BY ArenaIndexed DEF Arena, Forest
<1>2. PICK id : id = FreshId
  OBVIOUS
<1>3. /\ id \in StreamIds /\ id.index \notin DOMAIN streams
  BY <1>2, CreateRecords
<1>4. /\ s \in Streams /\ s.id = id /\ s.protocol = lay.protocol /\ fresh.id = id
      /\ lay.protocol \in Protocols
      /\ Create(fresh, s, lay)
  BY <1>2 DEF Creates, Layers
<1>5. PICK on : on = IsLive(parent)
  OBVIOUS
<1>6. PICK i : i = parent.index
  OBVIOUS
<1>7. on => i \in DOMAIN streams
  BY <1>5, <1>6 DEF IsLive
<1>8. PICK C : C = IF on THEN streams[i].children \cup {id} ELSE {}
  OBVIOUS
<1>9. C \in SUBSET StreamIds
  BY <1>3, <1>7, <1>8 DEF TypeOK, StreamsType, Streams
<1>10. PICK g : g = KinOf(streams, on, i, C)
  OBVIOUS
<1>11. Indexed(g) /\ Counted(g, perProtocol) /\ DOMAIN g = DOMAIN streams
  BY <1>1, <1>7, <1>9, <1>10, KinCounts
<1>12. streams' = [j \in DOMAIN g \cup {id.index} |-> IF j = id.index THEN s ELSE g[j]]
  <2>1. streams' = [j \in DOMAIN streams \cup {id.index} |->
                      IF j = id.index THEN s
                      ELSE IF on /\ j = i THEN [streams[j] EXCEPT !.children = @ \cup {id}]
                      ELSE streams[j]]
    BY <1>4, <1>5, <1>6 DEF Create
  <2>2. \A j \in DOMAIN streams :
          g[j] = IF on /\ j = i THEN [streams[j] EXCEPT !.children = @ \cup {id}] ELSE streams[j]
    BY <1>8, <1>10 DEF KinOf
  <2>3. \A j \in DOMAIN streams \cup {id.index} :
          streams'[j] = IF j = id.index THEN s ELSE g[j]
    BY <1>3, <2>1, <2>2
  <2>. QED
    BY <1>11, <2>1, <2>3
<1>13. PICK qq : qq = perProtocol'
  OBVIOUS
<1>14. OneMore(perProtocol, qq, s.protocol, Bytes(s))
  BY <1>4, <1>13, CountLayerFacts
<1>15. s.id.index = id.index /\ id.index \notin DOMAIN g
  BY <1>3, <1>4, <1>11
<1>16. PICK h : h = streams'
  OBVIOUS
<1>17. Counted(h, qq)
  BY <1>4, <1>11, <1>12, <1>14, <1>15, <1>16, CountAdd
<1>. QED
  BY <1>13, <1>16, <1>17

\* Eviction takes from the counters what it takes from the arena.
LEMMA EvictCounts ==
  ASSUME TypeOK, Arena, Counted(streams, perProtocol), NEW id, NEW reason, NEW exp, NEW cand,
         Evicts(id, reason, exp, cand)
  PROVE  Counted(streams', perProtocol')
<1>1. Indexed(streams)
  BY ArenaIndexed DEF Arena, Forest
<1>2. PICK s : s = streams[id.index]
  OBVIOUS
<1>3. /\ id.index \in DOMAIN streams /\ s \in Streams /\ s.id = id /\ id \in StreamIds
      /\ Evict(id, reason, exp, cand)
  BY <1>2, EvictRecords DEF Evicts
<1>4. PICK on : on = (s.parent # NoId /\ IsLive(s.parent))
  OBVIOUS
<1>5. PICK i : i = s.parent.index
  OBVIOUS
<1>6. on => i \in DOMAIN streams /\ i # id.index
  <2>. SUFFICES ASSUME on PROVE i \in DOMAIN streams /\ i # id.index
    OBVIOUS
  <2>1. i \in DOMAIN streams /\ streams[i].seq < s.seq
    BY <1>2, <1>3, <1>4, <1>5 DEF Arena, Forest, ParentsLive, IsLive
  <2>2. s.seq \in Nat
    BY <1>3 DEF Streams
  <2>. QED
    BY <1>2, <2>1, <2>2
<1>7. PICK C : C = IF on THEN streams[i].children \ {id} ELSE {}
  OBVIOUS
<1>8. C \in SUBSET StreamIds
  BY <1>6, <1>7 DEF TypeOK, StreamsType, Streams
<1>9. PICK g : g = KinOf(streams, on, i, C)
  OBVIOUS
<1>10. Indexed(g) /\ Counted(g, perProtocol) /\ DOMAIN g = DOMAIN streams
  BY <1>1, <1>6, <1>8, <1>9, KinCounts
<1>11. g[id.index] = s
  BY <1>2, <1>3, <1>6, <1>9 DEF KinOf
<1>12. streams' = [j \in DOMAIN g \ {id.index} |-> g[j]]
  <2>1. streams' = [j \in DOMAIN streams \ {id.index} |->
                      IF on /\ j = i THEN [streams[i] EXCEPT !.children = @ \ {id}]
                      ELSE streams[j]]
    BY <1>2, <1>3, <1>4, <1>5 DEF Evict
  <2>2. \A j \in DOMAIN streams :
          g[j] = IF on /\ j = i THEN [streams[i] EXCEPT !.children = @ \ {id}] ELSE streams[j]
    BY <1>7, <1>9 DEF KinOf
  <2>3. \A j \in DOMAIN streams \ {id.index} : streams'[j] = g[j]
    BY <2>1, <2>2
  <2>. QED
    BY <1>10, <2>1, <2>3
<1>13. PICK qq : qq = perProtocol'
  OBVIOUS
<1>14. OneLess(perProtocol, qq, s)
  <2>1. qq = [perProtocol EXCEPT ![s.protocol] = Uncounted(@, s)]
    BY <1>2, <1>3, <1>13 DEF Evict
  <2>2. DOMAIN perProtocol = Protocols
    BY DEF TypeOK, CountsType
  <2>. QED
    BY <2>1, <2>2 DEF Uncounted, OneLess
<1>15. PICK h : h = streams'
  OBVIOUS
<1>16. Counted(h, qq)
  BY <1>3, <1>10, <1>11, <1>12, <1>14, <1>15, CountDrop
<1>. QED
  BY <1>13, <1>15, <1>16

\* A hit is a stream of the layer's protocol under the cursor's parent.
LEMMA FoundIsMine ==
  ASSUME TypeOK, HandlesCurrent, IndexExact, NEW p, NEW k, NEW id \in Found(p, k)
  PROVE  streams[id.index].protocol = p /\ streams[id.index].parent = parent
<1>1. PICK e \in index : e.parent = parent /\ e.protocol = p /\ e.id = id
  BY DEF Found
<1>2. PICK i \in DOMAIN streams : e = Entry(streams[i])
  BY IndexMeaning
<1>3. e.parent = streams[i].parent /\ e.protocol = streams[i].protocol /\ e.id = streams[i].id
  BY <1>2 DEF Entry
<1>4. streams[i].id.index = i
  BY LiveFacts
<1>. QED
  BY <1>1, <1>3, <1>4

\* The node a layer folds into is a stream of its protocol under that parent.
LEMMA NodeIsMine ==
  ASSUME TypeOK, HandlesCurrent, NodesLive, NEW k \in DOMAIN condense, IsLive(condense[k].node)
  PROVE  /\ streams[condense[k].node.index].protocol = k.protocol
         /\ streams[condense[k].node.index].parent = k.parent
  BY LiveFacts DEF NodesLive, NodeOf

\* The counters are exact, said of sums rather than of the folds library.
CountersInv == Counted(streams, perProtocol)

\* Every step keeps the counters exact.
LEMMA CountersStep ==
  ASSUME StoreInv, GroupsInv, IndexExact, CountersInv, [Next]_vars
  PROVE  CountersInv'
<1>. USE DEF CountersInv
<1>0. TypeOK /\ Arena /\ CursorLive /\ FinishInv /\ HandlesCurrent
  BY DEF StoreInv, Shape, Arena, Forest
<1>1. CASE Quiet
  BY <1>1 DEF Quiet
<1>2. ASSUME NEW i, NEW new, Touches(i, new), new.stats = streams[i].stats, perProtocol' = perProtocol
      PROVE  CountersInv'
  <2>1. streams[i] \in Streams
    BY <1>0, <1>2 DEF Touches, TypeOK, StreamsType
  <2>2. Bytes(new) = Bytes(streams[i]) + 0 /\ 0 \in Nat
    BY <1>2, <2>1, BytesNat DEF Bytes
  <2>3. PICK qq : qq = perProtocol'
    OBVIOUS
  <2>4. MoreBytes(perProtocol, qq, new.protocol, 0)
    BY <1>2, <2>3, TallyNat DEF Counted, MoreBytes
  <2>. QED
    BY <1>0, <1>2, <2>2, <2>3, <2>4, TouchCounts
<1>3. CASE HitLayer
  <2>1. PICK lay : lay = Head(todo)
    OBVIOUS
  <2>2. PICK id : id = CHOOSE x \in Found(lay.protocol, FlowKey(lay)) : TRUE
    OBVIOUS
  <2>3. PICK new : new = Touched(streams[id.index], lay, Direction(lay))
    OBVIOUS
  <2>4. /\ lay \in Layers /\ Direction(lay) \in Directions /\ streams[id.index] \in Streams
        /\ id \in Found(lay.protocol, FlowKey(lay))
        /\ Touches(id.index, new)
        /\ perProtocol' = CountLayer(lay.protocol, 0, 0)
    BY <1>0, <1>3, <2>1, <2>2, <2>3, HitFacts
  <2>5. new.stats = AddStats(streams[id.index], Direction(lay)) /\ new.protocol = streams[id.index].protocol
    BY <1>0, <2>3, <2>4, TouchedSame DEF SameStream
  <2>6. Bytes(new) = Bytes(streams[id.index]) + pkt.origlen /\ pkt.origlen \in Nat
    BY <1>0, <2>4, <2>5, AddedBytes
  <2>7. new.protocol = lay.protocol /\ lay.protocol \in Protocols
    BY <1>0, <2>4, <2>5, FoundIsMine DEF Layers
  <2>8. PICK qq : qq = perProtocol'
    OBVIOUS
  <2>9. MoreBytes(perProtocol, qq, new.protocol, pkt.origlen)
    BY <1>0, <2>4, <2>7, <2>8, CountLayerFacts
  <2>. QED
    BY <1>0, <2>4, <2>6, <2>8, <2>9, TouchCounts
<1>4. CASE CreateLayer
  <2>1. PICK lay : lay = Head(todo)
    OBVIOUS
  <2>2. PICK fresh : fresh = NewStream(lay.protocol, FlowKey(lay), FALSE)
    OBVIOUS
  <2>3. PICK s : s = Touched(fresh, lay, Direction(lay))
    OBVIOUS
  <2>4. Creates(fresh, s, lay) /\ Direction(lay) \in Directions /\ perProtocol' = CountLayer(lay.protocol, 1, 1)
    BY <1>0, <1>4, <2>1, <2>2, <2>3, CreateFacts
  <2>5. fresh \in Streams /\ lay \in Layers
    BY <2>4 DEF Creates
  <2>6. Bytes(fresh) = 0
    BY <2>2 DEF NewStream, Bytes, Directions
  <2>7. Bytes(s) = Bytes(fresh) + pkt.origlen /\ pkt.origlen \in Nat
    BY <1>0, <2>3, <2>4, <2>5, TouchedSame, AddedBytes
  <2>8. Bytes(s) = pkt.origlen
    BY <2>6, <2>7
  <2>. QED
    BY <1>0, <2>4, <2>8, CreateCounts
<1>5. ASSUME NEW c \in Folding(Head(todo)), FoldLayer(c) PROVE CountersInv'
  <2>1. PICK lay : lay = Head(todo)
    OBVIOUS
  <2>2. PICK k : k = GroupKey(parent, lay.protocol, c.anchor)
    OBVIOUS
  <2>3. PICK g : g = condense[k]
    OBVIOUS
  <2>4. PICK i : i = g.node.index
    OBVIOUS
  <2>5. PICK mid : mid = Joined(streams[i], g, c)
    OBVIOUS
  <2>6. PICK new : new = Touched(mid, lay, c.dir)
    OBVIOUS
  <2>7. /\ lay \in Layers /\ c.dir \in Directions /\ streams[i] \in Streams /\ mid \in Streams
        /\ k \in DOMAIN condense /\ IsLive(g.node)
        /\ Touches(i, new)
        /\ perProtocol' = CountLayer(lay.protocol, MemberCount(g, c), 0)
    BY <1>0, <1>5, <2>1, <2>2, <2>3, <2>4, <2>5, <2>6, FoldFacts, ZenonT(40)
  <2>8. mid.stats = streams[i].stats
    BY <2>5, <2>7, JoinedSame
  <2>9. new.stats = AddStats(mid, c.dir)
    BY <1>0, <2>6, <2>7, TouchedSame
  <2>10. Bytes(new) = Bytes(mid) + pkt.origlen /\ pkt.origlen \in Nat /\ Bytes(mid) = Bytes(streams[i])
    <3>1. Bytes(new) = Bytes(mid) + pkt.origlen /\ pkt.origlen \in Nat
      BY <1>0, <2>7, <2>9, AddedBytes
    <3>. QED
      BY <2>8, <3>1 DEF Bytes
  <2>11. new.protocol = lay.protocol /\ lay.protocol \in Protocols
    <3>1. streams[i].protocol = k.protocol
      BY <1>0, <2>3, <2>4, <2>7, NodeIsMine DEF GroupsInv
    <3>2. k.protocol = lay.protocol
      BY <2>2 DEF GroupKey
    <3>3. new.protocol = streams[i].protocol
      BY <2>7 DEF Touches, SameStream
    <3>. QED
      BY <2>7, <3>1, <3>2, <3>3 DEF Layers
  <2>12. PICK qq : qq = perProtocol'
    OBVIOUS
  <2>13. MoreBytes(perProtocol, qq, new.protocol, pkt.origlen)
    BY <1>0, <2>7, <2>11, <2>12, CountLayerFacts
  <2>. QED
    BY <1>0, <2>7, <2>10, <2>12, <2>13, TouchCounts
<1>6. ASSUME NEW c \in Folding(Head(todo)), FoldNewNode(c) PROVE CountersInv'
  <2>1. PICK lay : lay = Head(todo)
    OBVIOUS
  <2>2. PICK k, g, fresh, mid, s : NodeMade(c, lay, k, g, fresh, mid, s)
    BY <1>0, <1>6, <2>1, NodeFacts
  <2>3. /\ Creates(fresh, s, lay) /\ c.dir \in Directions /\ mid \in Streams
        /\ perProtocol' = CountLayer(lay.protocol, MemberCount(g, c), 1)
    BY <2>2 DEF NodeMade
  <2>4. fresh \in Streams /\ lay \in Layers
    BY <2>3 DEF Creates
  <2>5. mid.stats = fresh.stats
    <3>1. mid = Joined(fresh, g, c)
      BY <2>2 DEF NodeMade
    <3>. QED
      BY <2>4, <3>1, JoinedSame
  <2>6. Bytes(mid) = 0
    <3>1. fresh = NewStream(lay.protocol, AnchorKey(c.anchor), TRUE)
      BY <2>2 DEF NodeMade
    <3>2. fresh.stats["AtoB"] = 0 /\ fresh.stats["BtoA"] = 0
      BY <3>1 DEF NewStream, Directions
    <3>. QED
      BY <2>5, <3>2 DEF Bytes
  <2>7. Bytes(s) = Bytes(mid) + pkt.origlen /\ pkt.origlen \in Nat
    <3>1. s = Touched(mid, lay, c.dir)
      BY <2>2 DEF NodeMade
    <3>2. s.stats = AddStats(mid, c.dir)
      BY <1>0, <2>3, <2>4, <3>1, TouchedSame
    <3>. QED
      BY <1>0, <2>3, <3>2, AddedBytes
  <2>8. Bytes(s) = pkt.origlen
    BY <2>6, <2>7
  <2>. QED
    BY <1>0, <2>3, <2>8, CreateCounts
<1>7. CASE LayersDone /\ IsLive(parent)
  <2>1. perProtocol' = perProtocol
    BY <1>7 DEF LayersDone, counts
  <2>. QED
    BY <1>0, <1>2, <1>7, <2>1, DoneFacts DEF SameData
<1>8. CASE FinishRetain
  BY <1>0, <1>2, <1>8, RetainFacts DEF SameData
<1>9. CASE \E id \in StreamIds, reason \in Reasons :
             \E exp, cand : Evicts(id, reason, exp, cand)
  BY <1>0, <1>9, EvictCounts
<1>. QED
  BY <1>1, <1>3, <1>4, <1>5, <1>6, <1>7, <1>8, <1>9, StepKinds

\* Nothing is live and nothing is counted.
LEMMA CountersInit == Init => CountersInv
<1>. SUFFICES ASSUME Init, NEW p \in Protocols
              PROVE  Tally(Part(streams, Of(p)), perProtocol[p].live, perProtocol[p].bytes)
  BY DEF CountersInv, Counted
<1>1. perProtocol[p].live = 0 /\ perProtocol[p].bytes = 0 /\ streams = <<>>
  BY DEF Init
<1>2. Part(streams, Of(p)) = {}
  BY <1>1 DEF Part
<1>3. Tally({}, 0, 0)
  BY FS_EmptySet, SumEmpty DEF Tally
<1>. QED
  BY <1>1, <1>2, <1>3

\* What the invariant says of one protocol is what CountersExact says.
LEMMA CountersMeaning ==
  ASSUME StoreInv, CountersInv
  PROVE  CountersExact
<1>1. liveCount = Cardinality(DOMAIN streams)
  BY DEF StoreInv, Shape, LiveCounted
<1>2. ASSUME NEW p \in Protocols, NEW mine, mine = {s \in LiveSet : s.protocol = p}
      PROVE  perProtocol[p].live = Cardinality(mine) /\ perProtocol[p].bytes = SumBytes(mine)
  <2>1. LiveSet \subseteq Streams
    BY DEF LiveSet, StoreInv, TypeOK, StreamsType
  <2>2. mine = Part(streams, Of(p))
    BY <1>2, <2>1 DEF Part, Of, LiveSet
  <2>. QED
    BY <2>2 DEF CountersInv, Counted, Tally
<1>. QED
  BY <1>1, <1>2 DEF CountersExact, SumBytes

\* The counters that summary() reads are what a scan of the live streams
\* would find, after every step of ingest and finish: live streams in all,
\* and live streams and live bytes per protocol (get_or_insert,
\* condense_fold, evict).
THEOREM CountersCorrect == Spec => []CountersExact
<1>1. Init => GroupsInv /\ IndexExact /\ CountersInv
  BY CountersInit DEF Init, GroupsInv, NodesLive, NodesGrouped, MembersCounted, IndexExact
<1>. QED
  BY <1>1, GroupsStep, IndexStep, CountersStep, CountersMeaning, StoreCorrect, PTL DEF Spec

----------------------------------------------------------------------------
(* The bytes of the capture.                                               *)

\* Every packet has a layer that forms a stream. ingest counts the bytes of a
\* packet that has none (an unknown link type) in the totals only.
EveryPacketFolds == \A p \in Packets : \E k \in 1..Len(p.layers) : Folds(p.layers[k])

\* Outermost streams, and those of them the sink was given.
RootSet == {s \in Streams : s.parent = NoId}
SinkRoots(q) == {q[k].stream : k \in 1..Len(q)} \cap RootSet
\* The root streams of the arena f and the records R that left it.
Ledger(f, R) == Part(f, RootSet) \cup R
\* None of the records R is of a stream in the arena f.
Apart(R, f) == R \subseteq Streams /\ \A t \in R : \A i \in DOMAIN f : t.seq # f[i].seq

\* An updated record keeps its number.
LEMMA PutApart ==
  ASSUME NEW f, Indexed(f), NEW i \in DOMAIN f, NEW u \in Streams, u.id.index = i,
         u.seq = f[i].seq, NEW R, Apart(R, f), NEW g, g = [f EXCEPT ![i] = u]
  PROVE  Indexed(g) /\ Apart(R, g)
<1>0. DOMAIN g = DOMAIN f /\ g[i] = u /\ \A j \in DOMAIN f : j # i => g[j] = f[j]
  OBVIOUS
<1>. QED
  BY <1>0 DEF Indexed, Apart

\* A record is replaced: the ledger gains what a root gained.
LEMMA LedgerPut ==
  ASSUME NEW f, Indexed(f), NEW i \in DOMAIN f, NEW u \in Streams, u.id.index = i,
         u.seq = f[i].seq, u.parent = f[i].parent, NEW d \in Nat, Bytes(u) = Bytes(f[i]) + d,
         NEW R, Apart(R, f), NEW n, NEW b, Tally(Ledger(f, R), n, b),
         NEW e, u.parent = NoId => e = b + d, u.parent # NoId => e = b,
         NEW g, g = [f EXCEPT ![i] = u]
  PROVE  Tally(Ledger(g, R), n, e)
<1>0. DOMAIN g = DOMAIN f /\ g[i] = u /\ \A j \in DOMAIN f : j # i => g[j] = f[j]
  OBVIOUS
<1>1. f[i] \in Streams /\ \A j \in DOMAIN f : j # i => f[j] # f[i] /\ f[j] # u
  BY DEF Indexed
<1>4. f[i] \notin R /\ u \notin R
  BY DEF Apart
<1>5. CASE u.parent = NoId
  <2>1. f[i] \in RootSet /\ u \in RootSet
    BY <1>1, <1>5 DEF RootSet
  <2>2. PICK S : S = Ledger(f, R)
    OBVIOUS
  <2>3. f[i] \in S /\ u \notin S \ {f[i]}
    BY <1>1, <1>4, <2>1, <2>2 DEF Part, Ledger
  <2>4. Ledger(g, R) = (S \ {f[i]}) \cup {u}
    <3>1. \A x : x \in Part(g, RootSet) => x \in (S \ {f[i]}) \cup {u}
      BY <1>0, <1>1, <2>1, <2>2 DEF Part, Ledger
    <3>2. \A x : x \in R => x \in (S \ {f[i]}) \cup {u}
      BY <1>4, <2>2 DEF Ledger
    <3>3. \A x : x \in S \ {f[i]} => x \in Ledger(g, R)
      BY <1>0, <2>2 DEF Part, Ledger
    <3>4. u \in Ledger(g, R)
      BY <1>0, <2>1 DEF Part, Ledger
    <3>. QED
      BY <3>1, <3>2, <3>3, <3>4 DEF Ledger
  <2>5. Tally((S \ {f[i]}) \cup {u}, n, b - Bytes(f[i]) + Bytes(u))
    BY <2>2, <2>3, TallySwap
  <2>6. Bytes(f[i]) \in Nat /\ b \in Nat
    BY <1>1, BytesNat, TallyNat
  <2>7. b - Bytes(f[i]) + Bytes(u) = e
    BY <1>5, <2>6
  <2>. QED
    BY <2>4, <2>5, <2>7
<1>6. CASE u.parent # NoId
  <2>1. f[i] \notin RootSet /\ u \notin RootSet
    BY <1>6 DEF RootSet
  <2>2. Part(g, RootSet) = Part(f, RootSet)
    <3>1. \A x : x \in Part(g, RootSet) => x \in Part(f, RootSet)
      BY <1>0, <2>1 DEF Part
    <3>2. \A x : x \in Part(f, RootSet) => x \in Part(g, RootSet)
      BY <1>0, <2>1 DEF Part
    <3>. QED
      BY <3>1, <3>2
  <2>. QED
    BY <1>6, <2>2 DEF Ledger
<1>. QED
  BY <1>5, <1>6

\* A change of children moves no bytes.
LEMMA LedgerKin ==
  ASSUME NEW f, Indexed(f), NEW i, NEW C, NEW on,
         on => i \in DOMAIN f, C \in SUBSET StreamIds,
         NEW R, Apart(R, f), NEW n, NEW b, Tally(Ledger(f, R), n, b),
         NEW g, g = KinOf(f, on, i, C)
  PROVE  /\ Indexed(g) /\ Apart(R, g) /\ DOMAIN g = DOMAIN f
         /\ Tally(Ledger(g, R), n, b)
<1>0. g = [j \in DOMAIN f |-> IF on /\ j = i THEN [f[j] EXCEPT !.children = C] ELSE f[j]]
  BY DEF KinOf
<1>1. CASE on
  <2>1. PICK u : u = [f[i] EXCEPT !.children = C]
    OBVIOUS
  <2>2. f[i] \in Streams /\ f[i].id.index = i
    BY <1>1 DEF Indexed
  <2>3. u \in Streams /\ u.id = f[i].id /\ u.stats = f[i].stats /\ u.seq = f[i].seq /\ u.parent = f[i].parent
    BY <2>1, <2>2 DEF Streams
  <2>4. Bytes(u) = Bytes(f[i]) + 0 /\ 0 \in Nat /\ b = b + 0
    BY <2>2, <2>3, BytesNat, TallyNat DEF Bytes
  <2>5. [f EXCEPT ![i] = u] = g
    <3>1. \A j \in DOMAIN f : g[j] = IF j = i THEN u ELSE f[j]
      BY <1>0, <1>1, <2>1
    <3>. QED
      BY <1>0, <1>1, <3>1
  <2>6. u.id.index = i
    BY <2>2, <2>3
  <2>7. Indexed(g) /\ Apart(R, g) /\ Tally(Ledger(g, R), n, b)
    <3>1. PICK d : d = 0
      OBVIOUS
    <3>2. PICK e : e = b
      OBVIOUS
    <3>3. d \in Nat /\ Bytes(u) = Bytes(f[i]) + d
      BY <2>4, <3>1
    <3>4. (u.parent = NoId => e = b + d) /\ (u.parent # NoId => e = b)
      BY <2>4, <3>1, <3>2
    <3>5. u \in Streams /\ u.seq = f[i].seq /\ u.parent = f[i].parent /\ i \in DOMAIN f
      BY <1>1, <2>3
    <3>6. Tally(Ledger(g, R), n, e)
      BY <2>5, <2>6, <3>3, <3>4, <3>5, LedgerPut
    <3>7. Indexed(g) /\ Apart(R, g)
      BY <2>5, <2>6, <3>5, PutApart
    <3>. QED
      BY <3>2, <3>6, <3>7
  <2>. QED
    BY <1>0, <2>7
<1>2. CASE ~on
  <2>1. DOMAIN g = DOMAIN f /\ \A j \in DOMAIN f : g[j] = f[j]
    BY <1>0, <1>2
  <2>2. Part(g, RootSet) = Part(f, RootSet)
    BY <2>1 DEF Part
  <2>3. Indexed(g) /\ Apart(R, g)
    BY <2>1 DEF Indexed, Apart
  <2>. QED
    BY <2>1, <2>2, <2>3 DEF Ledger
<1>. QED
  BY <1>1, <1>2

\* A stream is created: the ledger gains its bytes when it is a root.
LEMMA LedgerAdd ==
  ASSUME NEW f, Indexed(f), NEW i, i \notin DOMAIN f, NEW u \in Streams, u.id.index = i,
         NEW R, Apart(R, f), u \notin R, NEW n, NEW b, Tally(Ledger(f, R), n, b),
         NEW m, NEW e,
         u.parent = NoId => m = n + 1 /\ e = b + Bytes(u), u.parent # NoId => m = n /\ e = b,
         NEW g, g = [j \in DOMAIN f \cup {i} |-> IF j = i THEN u ELSE f[j]]
  PROVE  Tally(Ledger(g, R), m, e)
<1>0. /\ DOMAIN g = DOMAIN f \cup {i} /\ g[i] = u /\ \A j \in DOMAIN f : g[j] = f[j] /\ f[j] # u
  BY DEF Indexed
<1>1. CASE u.parent = NoId
  <2>1. u \in RootSet
    BY <1>1 DEF RootSet
  <2>2. PICK S : S = Ledger(f, R)
    OBVIOUS
  <2>3. Ledger(g, R) = S \cup {u}
    <3>1. \A x : x \in Part(g, RootSet) => x \in S \cup {u}
      BY <1>0, <2>2 DEF Part, Ledger
    <3>2. \A x : x \in Part(f, RootSet) \cup {u} => x \in Part(g, RootSet)
      BY <1>0, <2>1 DEF Part, Ledger
    <3>. QED
      BY <2>2, <3>1, <3>2 DEF Ledger
  <2>4. u \notin S
    BY <1>0, <2>2 DEF Part, Ledger
  <2>5. Tally(S \cup {u}, n + 1, b + Bytes(u))
    BY <2>2, <2>4, TallyAdd
  <2>. QED
    BY <1>1, <2>3, <2>5
<1>2. CASE u.parent # NoId
  <2>1. u \notin RootSet
    BY <1>2 DEF RootSet
  <2>2. Part(g, RootSet) = Part(f, RootSet)
    <3>1. \A x : x \in Part(g, RootSet) => x \in Part(f, RootSet)
      BY <1>0, <2>1 DEF Part, Ledger
    <3>2. \A x : x \in Part(f, RootSet) => x \in Part(g, RootSet)
      BY <1>0 DEF Part, Ledger
    <3>. QED
      BY <3>1, <3>2
  <2>. QED
    BY <1>2, <2>2 DEF Ledger
<1>. QED
  BY <1>1, <1>2

\* A stream leaves the arena and its closed copy joins the sink.
LEMMA LedgerClose ==
  ASSUME NEW f, Indexed(f), NEW i \in DOMAIN f, NEW v \in Streams, v.seq = f[i].seq,
         v.parent = f[i].parent, v.id = f[i].id, v.stats = f[i].stats,
         NEW R, Apart(R, f), NEW n, NEW b, Tally(Ledger(f, R), n, b),
         NEW g, g = [j \in DOMAIN f \ {i} |-> f[j]],
         NEW T, T = R \cup ({v} \cap RootSet)
  PROVE  Tally(Ledger(g, T), n, b)
<1>0. /\ DOMAIN g = DOMAIN f \ {i}
      /\ \A j \in DOMAIN g : g[j] = f[j] /\ f[j] # f[i] /\ f[j] # v
  BY DEF Indexed
<1>1. f[i] \in Streams /\ f[i] \notin R /\ v \notin R
  BY DEF Indexed, Apart
<1>2. CASE v.parent = NoId
  <2>1. f[i] \in RootSet /\ v \in RootSet
    BY <1>1, <1>2 DEF RootSet
  <2>2. PICK S : S = Ledger(f, R)
    OBVIOUS
  <2>3. f[i] \in S /\ v \notin S \ {f[i]}
    BY <1>0, <1>1, <2>1, <2>2 DEF Part, Ledger
  <2>4. Ledger(g, T) = (S \ {f[i]}) \cup {v}
    <3>1. \A x : x \in Part(g, RootSet) => x \in S \ {f[i]}
      BY <1>0, <2>2 DEF Part, Ledger
    <3>2. \A x : x \in R => x \in S \ {f[i]}
      BY <1>1, <2>2 DEF Ledger
    <3>3. \A x : x \in Part(f, RootSet) /\ x # f[i] => x \in Part(g, RootSet)
      BY <1>0 DEF Part, Ledger
    <3>4. T = R \cup {v}
      BY <2>1
    <3>. QED
      BY <2>2, <3>1, <3>2, <3>3, <3>4 DEF Ledger
  <2>5. Tally((S \ {f[i]}) \cup {v}, n, b - Bytes(f[i]) + Bytes(v))
    BY <2>2, <2>3, TallySwap
  <2>6. Bytes(v) = Bytes(f[i]) /\ Bytes(v) \in Nat /\ b \in Nat
    BY BytesNat, TallyNat DEF Bytes
  <2>7. b - Bytes(f[i]) + Bytes(v) = b
    BY <2>6
  <2>. QED
    BY <2>4, <2>5, <2>7
<1>3. CASE v.parent # NoId
  <2>1. f[i] \notin RootSet /\ v \notin RootSet
    BY <1>3 DEF RootSet
  <2>2. T = R
    BY <2>1
  <2>3. Part(g, RootSet) = Part(f, RootSet)
    <3>1. \A x : x \in Part(g, RootSet) => x \in Part(f, RootSet)
      BY <1>0 DEF Part, Ledger
    <3>2. \A x : x \in Part(f, RootSet) => x \in Part(g, RootSet)
      BY <1>0, <2>1 DEF Part, Ledger
    <3>. QED
      BY <3>1, <3>2
  <2>. QED
    BY <2>2, <2>3 DEF Ledger
<1>. QED
  BY <1>2, <1>3

\* The records the sink was given.
SinkRecords(q) == {q[k].stream : k \in 1..Len(q)}
\* ingest has counted the packet in the totals and in no stream yet: its bytes
\* are owed, and a layer ahead will pay them.
Pending == pc = "sweep" \/ (pc = "layers" /\ parent = NoId)
Owed == IF Pending THEN pkt.origlen ELSE 0
FoldAhead == Pending => \E k \in 1..Len(todo) : Folds(todo[k])
\* What was evicted is not live, and its number is not given again; what
\* finish() closes where it is stays live.
SinkApart ==
  /\ Live => \A t \in SinkRecords(sink) : /\ t.seq < nextSeq
                                          /\ \A i \in DOMAIN streams : t.seq # streams[i].seq
  /\ ~Live => \A t \in SinkRecords(sink) : \E i \in DOMAIN streams : t = streams[i]
\* The root streams, live or given to the sink, hold what the totals count but
\* for what is owed.
Balance(f, q, total, owed) ==
  \E n, b : Tally(Ledger(f, SinkRoots(q)), n, b) /\ total = b + owed
Balanced == Balance(streams, sink, totals.bytes, Owed)
ConservedInv == FoldAhead /\ SinkApart /\ Balanced

\* Byte counts are numbers.
LEMMA OwedType ==
  ASSUME TypeOK
  PROVE  Owed \in Nat /\ totals.bytes \in Nat /\ pkt.origlen \in Nat
  BY DEF Owed, TypeOK, CallType, CountsType

\* The sink holds stream records.
LEMMA SinkTyped ==
  ASSUME SinkType
  PROVE  SinkRecords(sink) \subseteq Streams /\ SinkRoots(sink) = SinkRecords(sink) \cap RootSet
<1>1. ASSUME NEW k \in 1..Len(sink) PROVE sink[k].stream \in Streams
  <2>1. sink[k] \in [stream : Streams, reason : Reasons]
    BY ElementOfSeq DEF SinkType
  <2>. QED
    BY <2>1
<1>. QED
  BY <1>1 DEF SinkRecords, SinkRoots

\* What was evicted is not live; before finish() nothing else is in the sink.
LEMMA RootsApart ==
  ASSUME SinkInv, SinkApart, Live \/ pc \notin {"finish", "done"}
  PROVE  Apart(SinkRoots(sink), streams)
<1>1. SinkRoots(sink) \subseteq SinkRecords(sink) /\ SinkRecords(sink) \subseteq Streams
  BY SinkTyped DEF SinkInv
<1>2. CASE Live
  BY <1>1, <1>2 DEF SinkApart, Apart
<1>3. CASE ~Live
  <2>1. sink = <<>>
    BY <1>3 DEF SinkInv, RetainedInv
  <2>2. SinkRecords(sink) = {}
    BY <2>1 DEF SinkRecords
  <2>. QED
    BY <1>1, <2>2 DEF Apart
<1>. QED
  BY <1>2, <1>3 DEF ConfigAssumption

\* A stream is updated and gains d bytes: x of them in a root.
LEMMA TouchBalance ==
  ASSUME TypeOK, Arena, TypeOK', SinkInv, SinkApart, Balanced, Live \/ pc \notin {"finish", "done"},
         NEW i, NEW new, Touches(i, new), NEW d \in Nat, Bytes(new) = Bytes(streams[i]) + d,
         NEW x, new.parent = NoId => x = d, new.parent # NoId => x = 0,
         sink' = sink, totals'.bytes = totals.bytes, Owed = x + Owed'
  PROVE  Balanced'
<1>1. Indexed(streams)
  BY ArenaIndexed DEF Arena, Forest
<1>2. PICK R : R = SinkRoots(sink)
  OBVIOUS
<1>3. Apart(R, streams)
  BY <1>2, RootsApart
<1>4. /\ i \in DOMAIN streams /\ new \in Streams /\ new.id = streams[i].id
      /\ new.seq = streams[i].seq /\ new.parent = streams[i].parent
      /\ streams' = [streams EXCEPT ![i] = new]
  BY DEF Touches, SameStream
<1>5. new.id.index = i
  BY <1>1, <1>4 DEF Indexed
<1>6. PICK n, b : Tally(Ledger(streams, R), n, b) /\ totals.bytes = b + Owed
  BY <1>2 DEF Balanced, Balance
<1>7. PICK g : g = streams'
  OBVIOUS
<1>8. PICK e : e = b + x
  OBVIOUS
<1>9. b \in Nat /\ x \in Nat
  BY <1>6, TallyNat
<1>10. (new.parent = NoId => e = b + d) /\ (new.parent # NoId => e = b)
  BY <1>8, <1>9
<1>11. Tally(Ledger(g, R), n, e)
  BY <1>1, <1>3, <1>4, <1>5, <1>6, <1>7, <1>10, LedgerPut
<1>12. PICK o : o = Owed'
  OBVIOUS
<1>13. o \in Nat
  <2>1. Owed' \in Nat
    BY DEF Owed, TypeOK, CallType
  <2>. QED
    BY <1>12, <2>1
<1>14. totals.bytes = e + o
  BY <1>6, <1>8, <1>9, <1>12, <1>13
<1>15. Balance(g, sink, totals.bytes, o)
  BY <1>2, <1>11, <1>14 DEF Balance
<1>. QED
  BY <1>7, <1>12, <1>15 DEF Balanced

\* A created stream pays what the packet owes, if it is the outermost.
LEMMA CreateBalance ==
  ASSUME TypeOK, Arena, SinkInv, SinkApart, Balanced,
         NEW fresh, NEW s, NEW lay, Creates(fresh, s, lay), Bytes(s) = pkt.origlen,
         totals'.bytes = totals.bytes
  PROVE  Balanced'
<1>1. Indexed(streams)
  BY ArenaIndexed DEF Arena, Forest
<1>2. PICK R : R = SinkRoots(sink)
  OBVIOUS
<1>3. PICK id : id = FreshId
  OBVIOUS
<1>4. id \in StreamIds /\ id.index \notin DOMAIN streams /\ id # NoId
  BY <1>3, CreateRecords
<1>5. /\ s \in Streams /\ s.id = id /\ fresh.id = id /\ s.seq = nextSeq /\ s.parent = parent
      /\ pc = "layers" /\ pc' = "layers" /\ parent' = id /\ sink' = sink
      /\ Create(fresh, s, lay)
  BY <1>3 DEF Creates
<1>6. Apart(R, streams)
  BY <1>2, <1>5, RootsApart
<1>7. s \notin R
  <2>1. R \subseteq SinkRecords(sink)
    BY <1>2, SinkTyped DEF SinkInv
  <2>2. CASE Live
    <3>1. nextSeq \in Nat
      BY DEF TypeOK, CountsType
    <3>. QED
      BY <1>5, <2>1, <2>2, <3>1 DEF SinkApart
  <2>3. CASE ~Live
    <3>1. sink = <<>>
      BY <1>5, <2>3 DEF SinkInv, RetainedInv
    <3>2. SinkRecords(sink) = {}
      BY <3>1 DEF SinkRecords
    <3>. QED
      BY <2>1, <3>2
  <2>. QED
    BY <2>2, <2>3 DEF ConfigAssumption
<1>8. PICK n, b : Tally(Ledger(streams, R), n, b) /\ totals.bytes = b + Owed
  BY <1>2 DEF Balanced, Balance
<1>9. PICK on : on = IsLive(parent)
  OBVIOUS
<1>10. PICK i : i = parent.index
  OBVIOUS
<1>11. on => i \in DOMAIN streams
  BY <1>9, <1>10 DEF IsLive
<1>12. PICK C : C = IF on THEN streams[i].children \cup {id} ELSE {}
  OBVIOUS
<1>13. C \in SUBSET StreamIds
  BY <1>4, <1>11, <1>12 DEF TypeOK, StreamsType, Streams
<1>14. PICK g : g = KinOf(streams, on, i, C)
  OBVIOUS
<1>15. Indexed(g) /\ Apart(R, g) /\ DOMAIN g = DOMAIN streams /\ Tally(Ledger(g, R), n, b)
  BY <1>1, <1>6, <1>8, <1>11, <1>13, <1>14, LedgerKin
<1>16. PICK h : h = streams'
  OBVIOUS
<1>17. h = [j \in DOMAIN g \cup {id.index} |-> IF j = id.index THEN s ELSE g[j]]
  <2>1. h = [j \in DOMAIN streams \cup {id.index} |->
                IF j = id.index THEN s
                ELSE IF on /\ j = i THEN [streams[j] EXCEPT !.children = @ \cup {id}]
                ELSE streams[j]]
    BY <1>5, <1>9, <1>10, <1>16 DEF Create
  <2>2. \A j \in DOMAIN streams :
          g[j] = IF on /\ j = i THEN [streams[j] EXCEPT !.children = @ \cup {id}] ELSE streams[j]
    BY <1>12, <1>14 DEF KinOf
  <2>3. \A j \in DOMAIN streams \cup {id.index} :
          h[j] = IF j = id.index THEN s ELSE g[j]
    BY <1>4, <2>1, <2>2
  <2>. QED
    BY <1>15, <2>1, <2>3
<1>18. b \in Nat /\ pkt.origlen \in Nat
  BY <1>8, TallyNat DEF TypeOK, CallType
<1>19. PICK e : e = IF parent = NoId THEN b + Bytes(s) ELSE b
  OBVIOUS
<1>20. PICK m : m = IF parent = NoId THEN n + 1 ELSE n
  OBVIOUS
<1>21. /\ s.parent = NoId => m = n + 1 /\ e = b + Bytes(s)
       /\ s.parent # NoId => m = n /\ e = b
  BY <1>5, <1>19, <1>20
<1>22. id.index \notin DOMAIN g /\ s.id.index = id.index
  BY <1>4, <1>5, <1>15
<1>23. Tally(Ledger(h, R), m, e)
  <2>1. [j \in DOMAIN g \cup {id.index} |-> IF j = id.index THEN s ELSE g[j]] = h
    BY <1>17
  <2>. QED
    BY <1>5, <1>7, <1>15, <1>21, <1>22, <2>1, LedgerAdd
<1>24. Owed' = 0
  BY <1>4, <1>5 DEF Owed, Pending
<1>25. totals.bytes = e + 0
  <2>1. Owed = IF parent = NoId THEN Bytes(s) ELSE 0
    BY <1>5 DEF Owed, Pending
  <2>. QED
    BY <1>8, <1>18, <1>19, <2>1
<1>26. Balance(h, sink, totals.bytes, 0)
  BY <1>2, <1>23, <1>25 DEF Balance
<1>. QED
  BY <1>5, <1>16, <1>24, <1>26 DEF Balanced

\* The sink gains one record.
LEMMA SinkRootsGrow ==
  ASSUME SinkType, NEW v \in Streams, NEW reason \in Reasons,
         sink' = Append(sink, [stream |-> v, reason |-> reason])
  PROVE  /\ SinkRoots(sink') = SinkRoots(sink) \cup ({v} \cap RootSet)
         /\ SinkRecords(sink') = SinkRecords(sink) \cup {v}
<1>1. /\ SinkType' /\ Len(sink) \in Nat /\ Len(sink') = Len(sink) + 1
      /\ sink'[Len(sink')].stream = v
      /\ \A k \in 1..Len(sink) : sink'[k] = sink[k] /\ sink[k].stream \in Streams
      /\ \A k \in 1..Len(sink') : k \in 1..Len(sink) \/ k = Len(sink')
  BY SinkGrows
<1>2. 1..Len(sink') = 1..Len(sink) \cup {Len(sink')}
  BY <1>1
<1>3. SinkRecords(sink') = SinkRecords(sink) \cup {v}
  BY <1>1, <1>2 DEF SinkRecords
<1>. QED
  BY <1>3 DEF SinkRoots, SinkRecords

\* Eviction moves a record from the arena to the sink.
LEMMA EvictBalance ==
  ASSUME TypeOK, Arena, SinkInv, SinkApart, Balanced,
         NEW id, NEW reason \in Reasons, NEW exp, NEW cand, Evicts(id, reason, exp, cand)
  PROVE  Balanced'
<1>1. Indexed(streams)
  BY ArenaIndexed DEF Arena, Forest
<1>2. PICK s : s = streams[id.index]
  OBVIOUS
<1>3. /\ id.index \in DOMAIN streams /\ s \in Streams /\ s.id = id /\ id \in StreamIds
      /\ Evict(id, reason, exp, cand) /\ Live
      /\ UNCHANGED <<pc, pkt, parent>>
  BY <1>2, EvictRecords DEF Evicts
<1>4. PICK on : on = (s.parent # NoId /\ IsLive(s.parent))
  OBVIOUS
<1>5. PICK i : i = s.parent.index
  OBVIOUS
<1>6. on => i \in DOMAIN streams /\ i # id.index
  <2>. SUFFICES ASSUME on PROVE i \in DOMAIN streams /\ i # id.index
    OBVIOUS
  <2>1. i \in DOMAIN streams /\ streams[i].seq < s.seq
    BY <1>2, <1>3, <1>4, <1>5 DEF Arena, Forest, ParentsLive, IsLive
  <2>2. s.seq \in Nat
    BY <1>3 DEF Streams
  <2>. QED
    BY <1>2, <2>1, <2>2
<1>7. PICK C : C = IF on THEN streams[i].children \ {id} ELSE {}
  OBVIOUS
<1>8. C \in SUBSET StreamIds
  BY <1>6, <1>7 DEF TypeOK, StreamsType, Streams
<1>9. PICK R : R = SinkRoots(sink)
  OBVIOUS
<1>10. Apart(R, streams)
  BY <1>3, <1>9, RootsApart
<1>11. PICK n, b : Tally(Ledger(streams, R), n, b) /\ totals.bytes = b + Owed
  BY <1>9 DEF Balanced, Balance
<1>12. PICK g : g = KinOf(streams, on, i, C)
  OBVIOUS
<1>13. Indexed(g) /\ Apart(R, g) /\ DOMAIN g = DOMAIN streams /\ Tally(Ledger(g, R), n, b)
  BY <1>1, <1>6, <1>8, <1>10, <1>11, <1>12, LedgerKin
<1>14. g[id.index] = s
  BY <1>2, <1>3, <1>6, <1>12 DEF KinOf
<1>15. PICK h : h = streams'
  OBVIOUS
<1>16. h = [j \in DOMAIN g \ {id.index} |-> g[j]]
  <2>1. h = [j \in DOMAIN streams \ {id.index} |->
                IF on /\ j = i THEN [streams[i] EXCEPT !.children = @ \ {id}]
                ELSE streams[j]]
    BY <1>2, <1>3, <1>4, <1>5, <1>15 DEF Evict
  <2>2. \A j \in DOMAIN streams :
          g[j] = IF on /\ j = i THEN [streams[i] EXCEPT !.children = @ \ {id}] ELSE streams[j]
    BY <1>7, <1>12 DEF KinOf
  <2>3. \A j \in DOMAIN streams \ {id.index} : h[j] = g[j]
    BY <2>1, <2>2
  <2>. QED
    BY <1>13, <2>1, <2>3
<1>17. PICK v : v = ClosedCopy(s)
  OBVIOUS
<1>18. v \in Streams /\ v.seq = s.seq /\ v.parent = s.parent /\ v.id = s.id /\ v.stats = s.stats
  BY <1>3, <1>17, ClosedSame DEF SameData, SameStream
<1>19. sink' = Append(sink, [stream |-> v, reason |-> reason])
  BY <1>2, <1>3, <1>17 DEF Evict
<1>20. PICK q : q = sink'
  OBVIOUS
<1>21. SinkRoots(q) = R \cup ({v} \cap RootSet)
  BY <1>9, <1>18, <1>19, <1>20, SinkRootsGrow DEF SinkInv
<1>22. PICK T : T = SinkRoots(q)
  OBVIOUS
<1>23. Tally(Ledger(h, T), n, b)
  BY <1>3, <1>13, <1>14, <1>16, <1>18, <1>21, <1>22, LedgerClose
<1>24. Owed' = Owed /\ totals' = totals
  BY <1>3 DEF Owed, Pending, Evict
<1>25. Balance(h, q, totals.bytes, Owed)
  BY <1>11, <1>22, <1>23 DEF Balance
<1>. QED
  BY <1>15, <1>20, <1>24, <1>25 DEF Balanced

\* A retained stream stays in the ledger: its copy in the sink is its record.
LEMMA RetainBalance ==
  ASSUME TypeOK, Arena, FinishInv, SinkInv, SinkApart, Balanced, FinishRetain
  PROVE  Balanced' /\ SinkApart'
<1>1. Indexed(streams)
  BY ArenaIndexed DEF Arena, Forest
<1>2. PICK x : x = NextToClose
  OBVIOUS
<1>3. PICK i : i = x.id.index
  OBVIOUS
<1>4. PICK v : v = ClosedCopy(streams[i])
  OBVIOUS
<1>5. /\ x \in finishing /\ pc = "finish" /\ ~Live /\ Touches(i, v) /\ SameData(v, streams[i])
      /\ sink' = Append(sink, [stream |-> v, reason |-> "CaptureEnd"])
      /\ streams[i].id = x.id
      /\ UNCHANGED <<totals, pc, pkt, parent>>
  BY <1>2, <1>3, <1>4, RetainFacts
<1>6. /\ i \in DOMAIN streams /\ v \in Streams /\ v.id = streams[i].id /\ v.stats = streams[i].stats
      /\ v.seq = streams[i].seq /\ v.parent = streams[i].parent
      /\ streams' = [streams EXCEPT ![i] = v]
  BY <1>5 DEF Touches, SameData, SameStream
<1>7. v.id.index = i /\ streams[i] \in Streams
  BY <1>1, <1>6 DEF Indexed
<1>8. "CaptureEnd" \in Reasons
  BY DEF Reasons
<1>9. SinkRecords(sink') = SinkRecords(sink) \cup {v}
  BY <1>5, <1>6, <1>8, SinkRootsGrow DEF SinkInv
<1>10. PICK g : g = streams'
  OBVIOUS
<1>11. DOMAIN g = DOMAIN streams /\ g[i] = v /\ \A j \in DOMAIN streams : j # i => g[j] = streams[j]
  BY <1>6, <1>10
<1>12. \A t \in SinkRecords(sink) : t.id # x.id
  <2>1. \A k \in 1..Len(sink) : sink[k].stream.id # x.id
    BY <1>5 DEF SinkInv, RetainedInv
  <2>. QED
    BY <2>1 DEF SinkRecords
<1>13. \A t \in SinkRecords(sink') : \E j \in DOMAIN g : t = g[j]
  <2>. SUFFICES ASSUME NEW t \in SinkRecords(sink') PROVE \E j \in DOMAIN g : t = g[j]
    OBVIOUS
  <2>1. CASE t = v
    BY <1>6, <1>11, <2>1
  <2>2. CASE t \in SinkRecords(sink)
    <3>1. PICK j \in DOMAIN streams : t = streams[j]
      BY <1>5, <2>2 DEF SinkApart
    <3>2. j # i
      BY <1>5, <1>12, <2>2, <3>1
    <3>. QED
      BY <1>11, <3>1, <3>2
  <2>. QED
    BY <1>9, <2>1, <2>2
<1>14. SinkApart'
  BY <1>5, <1>10, <1>13 DEF SinkApart
<1>15. PICK n, b : Tally(Ledger(streams, SinkRoots(sink)), n, b) /\ totals.bytes = b + Owed
  BY DEF Balanced, Balance
<1>16. ASSUME NEW f, NEW q, \A t \in SinkRecords(q) : \E j \in DOMAIN f : t = f[j]
       PROVE  Ledger(f, SinkRoots(q)) = Ledger(f, {})
  BY <1>16 DEF Ledger, SinkRoots, SinkRecords, Part
<1>17. Ledger(streams, SinkRoots(sink)) = Ledger(streams, {})
  BY <1>5, <1>16 DEF SinkApart
<1>18. PICK q : q = sink'
  OBVIOUS
<1>19. Ledger(g, SinkRoots(q)) = Ledger(g, {})
  BY <1>13, <1>16, <1>18
<1>20. Tally(Ledger(g, {}), n, b)
  <2>1. PICK R : R = {}
    OBVIOUS
  <2>2. Apart(R, streams)
    BY <2>1 DEF Apart
  <2>3. PICK d : d = 0
    OBVIOUS
  <2>4. d \in Nat /\ Bytes(v) = Bytes(streams[i]) + d /\ b = b + d
    BY <1>6, <1>7, <1>15, <2>3, BytesNat, TallyNat DEF Bytes
  <2>5. Tally(Ledger(streams, R), n, b)
    BY <1>15, <1>17, <2>1
  <2>6. [streams EXCEPT ![i] = v] = g
    BY <1>6, <1>10
  <2>7. Tally(Ledger(g, R), n, b)
    BY <1>1, <1>6, <1>7, <2>2, <2>4, <2>5, <2>6, LedgerPut
  <2>. QED
    BY <2>1, <2>7
<1>21. Owed' = Owed
  BY <1>5 DEF Owed, Pending
<1>22. Balance(g, q, totals.bytes, Owed)
  BY <1>15, <1>19, <1>20 DEF Balance
<1>. QED
  BY <1>5, <1>10, <1>14, <1>18, <1>21, <1>22 DEF Balanced

\* The records of the sink stay apart from the live ones.
LEMMA EvictApart ==
  ASSUME TypeOK, Arena, SinkInv, SinkApart, NEW id, NEW reason \in Reasons, NEW exp, NEW cand,
         Evicts(id, reason, exp, cand)
  PROVE  SinkApart'
<1>1. PICK s : s = streams[id.index]
  OBVIOUS
<1>2. /\ id.index \in DOMAIN streams /\ s \in Streams
      /\ DOMAIN streams' = DOMAIN streams \ {id.index}
      /\ \A j \in DOMAIN streams' : streams'[j].seq = streams[j].seq
  BY <1>1, EvictRecords DEF SameButKin
<1>3. Live /\ Evict(id, reason, exp, cand)
  BY DEF Evicts
<1>4. PICK v : v = ClosedCopy(s)
  OBVIOUS
<1>5. v \in Streams /\ v.seq = s.seq
  BY <1>2, <1>4, ClosedSame DEF SameData, SameStream
<1>6. sink' = Append(sink, [stream |-> v, reason |-> reason]) /\ nextSeq' = nextSeq
  BY <1>1, <1>3, <1>4 DEF Evict
<1>7. SinkRecords(sink') = SinkRecords(sink) \cup {v}
  BY <1>5, <1>6, SinkRootsGrow DEF SinkInv
<1>8. s.seq < nextSeq /\ \A j \in DOMAIN streams : j # id.index => streams[j].seq # s.seq
  BY <1>1, <1>2 DEF Arena, SeqBelow, SinkInv, SeqDistinct
<1>9. \A t \in SinkRecords(sink') : /\ t.seq < nextSeq'
                                    /\ \A j \in DOMAIN streams' : t.seq # streams'[j].seq
  BY <1>2, <1>3, <1>5, <1>6, <1>7, <1>8 DEF SinkApart
<1>. QED
  BY <1>3, <1>9 DEF SinkApart

\* An update keeps the live streams apart from the evicted ones.
LEMMA TouchApart ==
  ASSUME SinkInv, SinkApart, Live \/ pc \notin {"finish", "done"}, NEW i, NEW new, Touches(i, new),
         sink' = sink
  PROVE  SinkApart'
<1>1. /\ DOMAIN streams' = DOMAIN streams /\ nextSeq' = nextSeq
      /\ \A j \in DOMAIN streams : streams'[j].seq = streams[j].seq
  BY DEF Touches, SameStream
<1>2. CASE Live
  BY <1>1, <1>2 DEF SinkApart
<1>3. CASE ~Live
  <2>1. sink = <<>>
    BY <1>3 DEF SinkInv, RetainedInv
  <2>2. SinkRecords(sink) = {}
    BY <2>1 DEF SinkRecords
  <2>. QED
    BY <1>3, <2>2 DEF SinkApart
<1>. QED
  BY <1>2, <1>3 DEF ConfigAssumption

\* A created stream has a number no evicted stream has.
LEMMA CreateApart ==
  ASSUME TypeOK, Arena, SinkInv, SinkApart, NEW fresh, NEW s, NEW lay, Creates(fresh, s, lay)
  PROVE  SinkApart'
<1>1. PICK id : id = FreshId
  OBVIOUS
<1>2. /\ DOMAIN streams' = DOMAIN streams \cup {id.index} /\ streams'[id.index] = s
      /\ id.index \notin DOMAIN streams
      /\ \A j \in DOMAIN streams : streams'[j].seq = streams[j].seq
  BY <1>1, CreateRecords DEF SameButKin
<1>3. /\ s.seq = nextSeq /\ nextSeq' = nextSeq + 1 /\ sink' = sink /\ nextSeq \in Nat
      /\ pc = "layers"
  BY DEF Creates, Create, TypeOK, CountsType
<1>4. CASE Live
  <2>1. \A t \in SinkRecords(sink) : t \in Streams /\ t.seq \in Nat
    BY SinkTyped DEF SinkInv, Streams
  <2>2. \A t \in SinkRecords(sink) : /\ t.seq < nextSeq'
                                     /\ \A j \in DOMAIN streams' : t.seq # streams'[j].seq
    BY <1>2, <1>3, <1>4, <2>1 DEF SinkApart
  <2>. QED
    BY <1>3, <1>4, <2>2 DEF SinkApart
<1>5. CASE ~Live
  <2>1. sink = <<>>
    BY <1>3, <1>5 DEF SinkInv, RetainedInv
  <2>2. SinkRecords(sink) = {}
    BY <2>1 DEF SinkRecords
  <2>. QED
    BY <1>3, <1>5, <2>2 DEF SinkApart
<1>. QED
  BY <1>4, <1>5 DEF ConfigAssumption

\* What is owed follows the call: the packet's bytes are owed from its arrival
\* until its outermost stream is updated.
LEMMA OwedBooks ==
  ASSUME EveryPacketFolds, StoreInv, FoldAhead, Bookkeeping
  PROVE  FoldAhead' /\ totals'.bytes + Owed = totals.bytes + Owed'
<1>. USE DEF counts, arena, heaps
<1>0. TypeOK /\ CursorLive /\ totals.bytes \in Nat /\ Owed \in Nat /\ pkt.origlen \in Nat
  BY OwedType DEF StoreInv
<1>1. ASSUME UNCHANGED <<pc, parent, pkt, todo>>, totals'.bytes = totals.bytes
      PROVE  FoldAhead' /\ totals'.bytes + Owed = totals.bytes + Owed'
  BY <1>1 DEF FoldAhead, Owed, Pending
<1>2. CASE Arrive
  <2>1. PICK p \in Packets, ts \in 0..MaxTime : Ingest(p, ts)
    BY <1>2 DEF Arrive
  <2>2. /\ pc = "idle" /\ pc' = "sweep" /\ todo' = p.layers /\ pkt'.origlen = p.origlen
        /\ totals' = [totals EXCEPT !.packets = @ + 1, !.bytes = @ + p.origlen]
    BY <2>1 DEF Ingest
  <2>3. totals'.bytes = totals.bytes + p.origlen /\ p.origlen \in Nat
    BY <1>0, <2>2, PacketAssumption DEF TypeOK, CountsType
  <2>4. Owed = 0 /\ Owed' = p.origlen
    BY <2>2 DEF Owed, Pending
  <2>5. FoldAhead'
    <3>1. \E k \in 1..Len(p.layers) : Folds(p.layers[k])
      BY DEF EveryPacketFolds
    <3>. QED
      BY <2>2, <3>1 DEF FoldAhead
  <2>. QED
    BY <1>0, <2>3, <2>4, <2>5
<1>3. CASE SweepDrop \/ SweepRepush \/ EnforceDrop \/ EnforceRepush \/ Closed \/ UNCHANGED vars
  BY <1>1, <1>3 DEF SweepDrop, SweepRepush, EnforceDrop, EnforceRepush, Closed, vars
<1>4. CASE SweepDone
  <2>1. pc = "sweep" /\ pc' = "layers" /\ UNCHANGED <<parent, pkt, todo, totals>> /\ parent = NoId
    BY <1>0, <1>4 DEF SweepDone, CursorLive
  <2>2. Pending /\ Pending'
    BY <2>1 DEF Pending
  <2>. QED
    BY <1>0, <2>1, <2>2 DEF FoldAhead, Owed
<1>5. CASE SkipLayer \/ KeyErrorLayer
  <2>1. /\ todo # <<>> /\ todo' = Tail(todo) /\ ~Folds(Head(todo))
        /\ UNCHANGED <<pc, parent, pkt>>
    BY <1>5 DEF SkipLayer, KeyErrorLayer, Folds
  <2>2. totals'.bytes = totals.bytes
    BY <1>0, <1>5 DEF SkipLayer, KeyErrorLayer, TypeOK, CountsType
  <2>3. Owed' = Owed
    BY <2>1 DEF Owed, Pending
  <2>4. FoldAhead'
    <3>. SUFFICES ASSUME Pending' PROVE (\E k \in 1..Len(todo) : Folds(todo[k]))'
      BY DEF FoldAhead
    <3>1. Pending
      BY <2>1 DEF Pending
    <3>2. PICK k \in 1..Len(todo) : Folds(todo[k])
      BY <3>1 DEF FoldAhead
    <3>3. todo \in Seq(Layers)
      BY <1>0 DEF TypeOK, CallType
    <3>4. k # 1
      BY <2>1, <3>2, <3>3
    <3>5. k - 1 \in 1..Len(Tail(todo)) /\ Tail(todo)[k - 1] = todo[k]
      BY <2>1, <3>2, <3>3, <3>4
    <3>. QED
      BY <2>1, <3>2, <3>5
  <2>. QED
    BY <2>2, <2>3, <2>4
<1>6. CASE LayersDone /\ ~IsLive(parent)
  <2>1. pc = "layers" /\ todo = <<>> /\ pc' = "enforce" /\ totals' = totals
    BY <1>6 DEF LayersDone
  <2>2. ~Pending
    BY <2>1 DEF FoldAhead
  <2>3. ~Pending'
    BY <2>1 DEF Pending
  <2>. QED
    BY <2>1, <2>2, <2>3 DEF FoldAhead, Owed
<1>7. CASE EnforceDone \/ Finish \/ FinishDone
  <2>1. pc \in {"enforce", "idle", "finish"} /\ pc' \in {"idle", "finish", "done"} /\ totals' = totals
    BY <1>7 DEF EnforceDone, Finish, FinishDone
  <2>2. ~Pending /\ ~Pending'
    BY <2>1 DEF Pending
  <2>. QED
    BY <2>1, <2>2 DEF FoldAhead, Owed
<1>. QED
  BY <1>2, <1>3, <1>4, <1>5, <1>6, <1>7 DEF Bookkeeping

\* A new node has no bytes before its first packet.
LEMMA NodeEmpty ==
  ASSUME NEW c, NEW lay, NEW k, NEW g, NEW fresh, NEW mid, NEW s,
         NodeMade(c, lay, k, g, fresh, mid, s), fresh \in Streams
  PROVE  Bytes(mid) = 0
<1>1. mid.stats = fresh.stats
  <2>1. mid = Joined(fresh, g, c)
    BY DEF NodeMade
  <2>. QED
    BY <2>1, JoinedSame
<1>2. fresh = NewStream(lay.protocol, AnchorKey(c.anchor), TRUE)
  BY DEF NodeMade
<1>3. fresh.stats["AtoB"] = 0 /\ fresh.stats["BtoA"] = 0
  BY <1>2 DEF NewStream, Directions
<1>. QED
  BY <1>1, <1>3 DEF Bytes

\* Every step keeps the ledger balanced.
LEMMA ConservedStep ==
  ASSUME EveryPacketFolds, StoreInv, GroupsInv, IndexExact, SinkInv, ConservedInv, [Next]_vars
  PROVE  ConservedInv'
<1>0. /\ TypeOK /\ Arena /\ CursorLive /\ FinishInv /\ HandlesCurrent
      /\ FoldAhead /\ SinkApart /\ Balanced
  BY DEF StoreInv, Shape, Arena, Forest, ConservedInv
<1>1. TypeOK'
  BY <1>0, TypeStep
<1>2. CASE Quiet /\ Bookkeeping
  <2>1. FoldAhead' /\ totals'.bytes + Owed = totals.bytes + Owed'
    BY <1>0, <1>2, OwedBooks
  <2>2. SinkApart'
    BY <1>0, <1>2 DEF Quiet, SinkApart
  <2>3. PICK n, b : Tally(Ledger(streams, SinkRoots(sink)), n, b) /\ totals.bytes = b + Owed
    BY <1>0 DEF Balanced, Balance
  <2>4. PICK o : o = Owed'
    OBVIOUS
  <2>5. PICK w : w = totals'.bytes
    OBVIOUS
  <2>6. b \in Nat /\ Owed \in Nat
    BY <1>0, <2>3, TallyNat, OwedType
  <2>7. o \in Nat /\ w \in Nat
    <3>1. Owed' \in Nat /\ totals'.bytes \in Nat
      BY <1>1 DEF Owed, TypeOK, CallType, CountsType
    <3>. QED
      BY <2>4, <2>5, <3>1
  <2>8. w = b + o
    BY <2>1, <2>3, <2>4, <2>5, <2>6, <2>7
  <2>9. Balance(streams, sink, w, o)
    BY <2>3, <2>8 DEF Balance
  <2>10. Balanced'
    BY <1>2, <2>4, <2>5, <2>9 DEF Balanced, Quiet
  <2>. QED
    BY <2>1, <2>2, <2>10 DEF ConservedInv
<1>3. ASSUME NEW i, NEW new, Touches(i, new), new.stats = streams[i].stats, sink' = sink,
             pc \notin {"finish", "done"}, totals'.bytes = totals.bytes, ~Pending, ~Pending'
      PROVE  ConservedInv'
  <2>1. streams[i] \in Streams
    BY <1>0, <1>3 DEF Touches, TypeOK, StreamsType
  <2>2. Bytes(new) = Bytes(streams[i]) + 0 /\ 0 \in Nat
    BY <1>3, <2>1, BytesNat DEF Bytes
  <2>3. Owed = 0 + Owed'
    BY <1>3 DEF Owed
  <2>4. Balanced'
    BY <1>0, <1>1, <1>3, <2>2, <2>3, TouchBalance
  <2>5. SinkApart'
    BY <1>0, <1>3, TouchApart
  <2>6. FoldAhead'
    BY <1>3 DEF FoldAhead
  <2>. QED
    BY <2>4, <2>5, <2>6 DEF ConservedInv
<1>4. ASSUME NEW i, NEW new, Touches(i, new), Bytes(new) = Bytes(streams[i]) + pkt.origlen,
             new.parent = parent, sink' = sink, pc = "layers", pc' = pc, parent' # NoId,
             totals'.bytes = totals.bytes
      PROVE  ConservedInv'
  <2>1. pkt.origlen \in Nat
    BY <1>0, OwedType
  <2>2. PICK x : x = Owed
    OBVIOUS
  <2>3. (new.parent = NoId => x = pkt.origlen) /\ (new.parent # NoId => x = 0)
    BY <1>4, <2>2 DEF Owed, Pending
  <2>4. Owed' = 0 /\ ~Pending'
    BY <1>4 DEF Owed, Pending
  <2>5. Owed = x + Owed'
    BY <2>1, <2>2, <2>3, <2>4
  <2>6. Balanced'
    BY <1>0, <1>1, <1>4, <2>1, <2>3, <2>5, TouchBalance
  <2>7. SinkApart'
    BY <1>0, <1>4, TouchApart
  <2>8. FoldAhead'
    BY <2>4 DEF FoldAhead
  <2>. QED
    BY <2>6, <2>7, <2>8 DEF ConservedInv
<1>5. ASSUME NEW fresh, NEW s, NEW lay, Creates(fresh, s, lay), Bytes(s) = pkt.origlen,
             totals'.bytes = totals.bytes
      PROVE  ConservedInv'
  <2>1. Balanced'
    BY <1>0, <1>5, CreateBalance
  <2>2. SinkApart'
    BY <1>0, <1>5, CreateApart
  <2>3. PICK id : id = FreshId
    OBVIOUS
  <2>4. id # NoId
    BY <1>0, <1>5, <2>3, CreateRecords
  <2>5. ~Pending'
    BY <1>5, <2>3, <2>4 DEF Pending, Creates
  <2>. QED
    BY <2>1, <2>2, <2>5 DEF ConservedInv, FoldAhead
<1>6. CASE HitLayer
  <2>1. PICK lay : lay = Head(todo)
    OBVIOUS
  <2>2. PICK id : id = CHOOSE x \in Found(lay.protocol, FlowKey(lay)) : TRUE
    OBVIOUS
  <2>3. PICK new : new = Touched(streams[id.index], lay, Direction(lay))
    OBVIOUS
  <2>4. /\ lay \in Layers /\ Direction(lay) \in Directions /\ streams[id.index] \in Streams
        /\ id \in Found(lay.protocol, FlowKey(lay)) /\ id \in StreamIds /\ IsLive(id)
        /\ Touches(id.index, new)
        /\ pc = "layers" /\ parent' = id /\ UNCHANGED <<totals, sink, pc>>
    BY <1>0, <1>6, <2>1, <2>2, <2>3, HitFacts
  <2>5. new.stats = AddStats(streams[id.index], Direction(lay)) /\ new.parent = streams[id.index].parent
    BY <1>0, <2>3, <2>4, TouchedSame DEF SameStream
  <2>6. Bytes(new) = Bytes(streams[id.index]) + pkt.origlen
    BY <1>0, <2>4, <2>5, AddedBytes
  <2>7. new.parent = parent
    BY <1>0, <2>4, <2>5, FoundIsMine
  <2>8. parent' # NoId
    BY <1>0, <2>4, LiveFacts
  <2>. QED
    BY <1>4, <2>4, <2>6, <2>7, <2>8
<1>7. CASE CreateLayer
  <2>1. PICK lay : lay = Head(todo)
    OBVIOUS
  <2>2. PICK fresh : fresh = NewStream(lay.protocol, FlowKey(lay), FALSE)
    OBVIOUS
  <2>3. PICK s : s = Touched(fresh, lay, Direction(lay))
    OBVIOUS
  <2>4. /\ Creates(fresh, s, lay) /\ Direction(lay) \in Directions
        /\ totals' = [totals EXCEPT !.created = @ + 1]
    BY <1>0, <1>7, <2>1, <2>2, <2>3, CreateFacts
  <2>5. fresh \in Streams /\ lay \in Layers
    BY <2>4 DEF Creates
  <2>6. Bytes(fresh) = 0
    BY <2>2 DEF NewStream, Bytes, Directions
  <2>7. Bytes(s) = Bytes(fresh) + pkt.origlen /\ pkt.origlen \in Nat
    BY <1>0, <2>3, <2>4, <2>5, TouchedSame, AddedBytes
  <2>8. Bytes(s) = pkt.origlen
    BY <2>6, <2>7
  <2>9. totals'.bytes = totals.bytes
    BY <1>0, <2>4 DEF TypeOK, CountsType
  <2>. QED
    BY <1>5, <2>4, <2>8, <2>9
<1>8. ASSUME NEW c \in Folding(Head(todo)), FoldLayer(c) PROVE ConservedInv'
  <2>1. PICK lay : lay = Head(todo)
    OBVIOUS
  <2>2. PICK k : k = GroupKey(parent, lay.protocol, c.anchor)
    OBVIOUS
  <2>3. PICK g : g = condense[k]
    OBVIOUS
  <2>4. PICK i : i = g.node.index
    OBVIOUS
  <2>5. PICK mid : mid = Joined(streams[i], g, c)
    OBVIOUS
  <2>6. PICK new : new = Touched(mid, lay, c.dir)
    OBVIOUS
  <2>7. /\ lay \in Layers /\ c.dir \in Directions /\ streams[i] \in Streams /\ mid \in Streams
        /\ k \in DOMAIN condense /\ IsLive(g.node) /\ g.node \in StreamIds
        /\ Touches(i, new)
        /\ pc = "layers" /\ parent' = g.node /\ totals' = CountMember(g, c) /\ UNCHANGED <<sink, pc>>
    <3>1. /\ lay \in Layers /\ c.dir \in Directions /\ streams[i] \in Streams
          /\ k \in DOMAIN condense /\ IsLive(g.node) /\ g.node \in StreamIds
      BY <1>0, <1>8, <2>1, <2>2, <2>3, <2>4, FoldFacts
    <3>2. mid \in Streams
      BY <1>0, <1>8, <2>1, <2>2, <2>3, <2>4, <2>5, FoldFacts
    <3>3. Touches(i, new)
      BY <1>0, <1>8, <2>1, <2>2, <2>3, <2>4, <2>5, <2>6, FoldFacts
    <3>4. pc = "layers" /\ parent' = g.node /\ totals' = CountMember(g, c) /\ UNCHANGED <<sink, pc>>
      BY <1>0, <1>8, <2>1, <2>2, <2>3, FoldFacts
    <3>. QED
      BY <3>1, <3>2, <3>3, <3>4
  <2>8. mid.stats = streams[i].stats
    BY <2>5, <2>7, JoinedSame
  <2>9. new.stats = AddStats(mid, c.dir)
    BY <1>0, <2>6, <2>7, TouchedSame
  <2>10. Bytes(new) = Bytes(streams[i]) + pkt.origlen
    <3>1. Bytes(new) = Bytes(mid) + pkt.origlen
      BY <1>0, <2>7, <2>9, AddedBytes
    <3>2. Bytes(mid) = Bytes(streams[i])
      BY <2>8 DEF Bytes
    <3>. QED
      BY <3>1, <3>2
  <2>11. new.parent = parent
    <3>1. streams[i].parent = k.parent
      BY <1>0, <2>3, <2>4, <2>7, NodeIsMine DEF GroupsInv
    <3>2. k.parent = parent
      BY <2>2 DEF GroupKey
    <3>3. new.parent = streams[i].parent
      BY <2>7 DEF Touches, SameStream
    <3>. QED
      BY <3>1, <3>2, <3>3
  <2>12. parent' # NoId
    BY <1>0, <2>7, LiveFacts
  <2>13. totals'.bytes = totals.bytes
    BY <1>0, <2>7 DEF CountMember, TypeOK, CountsType
  <2>. QED
    BY <1>4, <2>7, <2>10, <2>11, <2>12, <2>13
<1>9. ASSUME NEW c \in Folding(Head(todo)), FoldNewNode(c) PROVE ConservedInv'
  <2>1. PICK lay : lay = Head(todo)
    OBVIOUS
  <2>2. PICK k, g, fresh, mid, s : NodeMade(c, lay, k, g, fresh, mid, s)
    BY <1>0, <1>9, <2>1, NodeFacts
  <2>3. /\ Creates(fresh, s, lay) /\ c.dir \in Directions /\ mid \in Streams
        /\ totals' = CountMember(g, c)
    BY <2>2 DEF NodeMade
  <2>4. fresh \in Streams /\ lay \in Layers
    BY <2>3 DEF Creates
  <2>5. Bytes(mid) = 0
    BY <2>2, <2>4, NodeEmpty
  <2>6. Bytes(s) = Bytes(mid) + pkt.origlen /\ pkt.origlen \in Nat
    <3>1. s = Touched(mid, lay, c.dir)
      BY <2>2 DEF NodeMade
    <3>2. s.stats = AddStats(mid, c.dir)
      BY <1>0, <2>3, <2>4, <3>1, TouchedSame
    <3>. QED
      BY <1>0, <2>3, <3>2, AddedBytes
  <2>7. Bytes(s) = pkt.origlen
    BY <2>5, <2>6
  <2>8. totals'.bytes = totals.bytes
    BY <1>0, <2>3 DEF CountMember, TypeOK, CountsType
  <2>. QED
    BY <1>5, <2>3, <2>7, <2>8
<1>10. CASE LayersDone /\ IsLive(parent)
  <2>1. /\ pc = "layers" /\ todo = <<>> /\ pc' = "enforce" /\ sink' = sink /\ totals' = totals
    BY <1>10 DEF LayersDone, counts
  <2>2. ~Pending
    BY <1>0, <2>1 DEF FoldAhead
  <2>3. ~Pending'
    BY <2>1 DEF Pending
  <2>4. PICK i : i = parent.index
    OBVIOUS
  <2>5. PICK new : new = WithOpaque(streams[i])
    OBVIOUS
  <2>6. Touches(i, new) /\ new.stats = streams[i].stats
    BY <1>0, <1>10, <2>4, <2>5, DoneFacts DEF SameData
  <2>. QED
    BY <1>3, <2>1, <2>2, <2>3, <2>6
<1>11. CASE FinishRetain
  <2>1. Balanced' /\ SinkApart'
    BY <1>0, <1>11, RetainBalance
  <2>2. pc' = "finish"
    BY <1>11 DEF FinishRetain
  <2>3. FoldAhead'
    BY <2>2 DEF FoldAhead, Pending
  <2>. QED
    BY <2>1, <2>3 DEF ConservedInv
<1>12. CASE \E id \in StreamIds, reason \in Reasons :
              \E exp, cand : Evicts(id, reason, exp, cand)
  <2>1. PICK id \in StreamIds, reason \in Reasons : \E exp, cand : Evicts(id, reason, exp, cand)
    BY <1>12
  <2>2. PICK exp, cand : Evicts(id, reason, exp, cand)
    BY <2>1
  <2>3. Balanced' /\ SinkApart'
    BY <1>0, <2>2, EvictBalance, EvictApart
  <2>4. UNCHANGED <<pc, parent, todo>>
    BY <2>2 DEF Evicts
  <2>5. FoldAhead'
    BY <1>0, <2>4 DEF FoldAhead, Pending
  <2>. QED
    BY <2>3, <2>5 DEF ConservedInv
<1>. QED
  BY <1>2, <1>6, <1>7, <1>8, <1>9, <1>10, <1>11, <1>12, StepKinds

\* The empty ledger is balanced.
LEMMA ConservedInit == Init => ConservedInv
<1>. SUFFICES ASSUME Init PROVE ConservedInv
  OBVIOUS
<1>1. pc = "idle" /\ sink = <<>> /\ streams = <<>> /\ totals.bytes = 0
  BY DEF Init
<1>2. ~Pending /\ Owed = 0
  BY <1>1 DEF Pending, Owed
<1>3. SinkRecords(sink) = {} /\ SinkRoots(sink) = {}
  BY <1>1 DEF SinkRecords, SinkRoots
<1>4. Ledger(streams, SinkRoots(sink)) = {}
  BY <1>1, <1>3 DEF Ledger, Part
<1>5. Tally({}, 0, 0)
  BY FS_EmptySet, SumEmpty DEF Tally
<1>6. Balanced
  BY <1>1, <1>2, <1>4, <1>5 DEF Balanced, Balance
<1>. QED
  BY <1>2, <1>3, <1>6 DEF ConservedInv, FoldAhead, SinkApart

\* Between packets nothing is owed.
LEMMA ConservedMeaning ==
  ASSUME TypeOK, SinkInv, ConservedInv
  PROVE  BytesConserved
<1>. SUFFICES ASSUME pc = "idle",
                     NEW all, all = {s \in LiveSet \cup SinkSet : s.parent = NoId}
              PROVE  totals.bytes = SumBytes(all)
  BY DEF BytesConserved, SumBytes
<1>1. Owed = 0
  BY DEF Owed, Pending
<1>2. PICK n, b : Tally(Ledger(streams, SinkRoots(sink)), n, b) /\ totals.bytes = b + Owed
  BY DEF ConservedInv, Balanced, Balance
<1>3. totals.bytes = b
  BY <1>1, <1>2, TallyNat
<1>4. LiveSet \subseteq Streams /\ SinkSet \subseteq Streams
  <2>1. SinkSet = SinkRecords(sink)
    BY DEF SinkSet, SinkRecords
  <2>. QED
    BY <2>1, SinkTyped DEF LiveSet, TypeOK, StreamsType, SinkInv
<1>5. all = Ledger(streams, SinkRoots(sink))
  BY <1>4 DEF Ledger, Part, SinkRoots, RootSet, LiveSet, SinkSet
<1>. QED
  BY <1>2, <1>3, <1>5 DEF Tally

\* Between packets every captured byte is in exactly one root stream, live or
\* already given to the sink, when every packet has a layer that forms a
\* stream: eviction, recreation and folding lose and duplicate nothing.
THEOREM BytesCorrect ==
  ASSUME EveryPacketFolds
  PROVE  Spec => []BytesConserved
<1>1. Init => GroupsInv /\ IndexExact /\ SinkInv /\ ConservedInv
  BY SinkInit, ConservedInit DEF Init, GroupsInv, NodesLive, NodesGrouped, MembersCounted, IndexExact
<1>2. StoreInv /\ GroupsInv /\ IndexExact /\ SinkInv /\ ConservedInv /\ [Next]_vars => ConservedInv'
  BY ConservedStep
<1>3. StoreInv /\ SinkInv /\ ConservedInv => BytesConserved
  BY ConservedMeaning DEF StoreInv
<1>. QED
  BY <1>1, <1>2, <1>3, GroupsStep, IndexStep, SinkStep, StoreCorrect, PTL DEF Spec

============================================================================
