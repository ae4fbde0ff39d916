------------------------- MODULE StreamStoreProofs -------------------------
(***************************************************************************)
(* Type correctness of StreamStore, the facts about its helpers that the   *)
(* other proofs use, and then: the arena stays a forest, its heaps stay    *)
(* complete and the hard cap holds, for every value of the constants.      *)
(***************************************************************************)
EXTENDS StreamStore, TLAPS, FiniteSetTheorems, WellFoundedInduction, SequenceTheorems

----------------------------------------------------------------------------
(* The heaps as bags.                                                      *)

\* A push adds one entry and keeps the heap a bag.
LEMMA PushFacts ==
  ASSUME NEW h, IsABag(h), NEW e
  PROVE  IsABag(Push(h, e)) /\ BagToSet(Push(h, e)) = BagToSet(h) \cup {e}
  BY DEF Push, IsABag, BagToSet, SetToBag, (+)

\* A pop removes at most the popped entry and keeps the heap a bag.
LEMMA PopFacts ==
  ASSUME NEW h, IsABag(h), NEW e
  PROVE  /\ IsABag(Pop(h, e))
         /\ BagToSet(Pop(h, e)) \subseteq BagToSet(h)
         /\ BagToSet(h) \ {e} \subseteq BagToSet(Pop(h, e))
  BY DEF Pop, IsABag, BagToSet, SetToBag, (-)

\* A nonempty set of naturals has a least element.
LEMMA LeastNat ==
  ASSUME NEW S \in SUBSET Nat, S # {}
  PROVE  \E x \in S : \A y \in S : x <= y
<1>. DEFINE R == {q \in Nat \X Nat : q[1] < q[2]}
<1>1. IsWellFoundedOn(R, Nat)
  BY NatLessThanWellFounded DEF OpToRel
<1>2. PICK x \in S : \A y \in S : ~(<<y, x>> \in R)
  <2>. HIDE DEF R
  <2>. QED
    BY <1>1, WFMin
<1>3. \A y \in S : <<y, x>> \in Nat \X Nat /\ <<y, x>>[1] = y /\ <<y, x>>[2] = x
  OBVIOUS
<1>4. \A y \in S : ~(y < x)
  BY <1>2, <1>3
<1>. QED
  BY <1>4

\* The top of a nonempty expiry heap is its least entry.
LEMMA ExpiryTopFacts ==
  ASSUME IsExpiryHeap(expiry), expiry # EmptyBag
  PROVE  /\ ExpiryTop \in BagToSet(expiry)
         /\ \A f \in BagToSet(expiry) : ExpiryLeq(ExpiryTop, f)
<1>. DEFINE H == BagToSet(expiry)
<1>1. /\ H # {}
      /\ \A e \in H : e.at \in Nat /\ e.id.index \in Nat /\ e.id.generation \in Nat
  BY DEF IsExpiryHeap, IsABag, BagToSet, EmptyBag, SetToBag, StreamIds
<1>. HIDE DEF H
<1>2. PICK a \in {e.at : e \in H} : \A b \in {e.at : e \in H} : a <= b
  <2>. {e.at : e \in H} \in SUBSET Nat /\ {e.at : e \in H} # {}
    BY <1>1
  <2>. QED
    BY LeastNat
<1>. DEFINE G == {e \in H : e.at = a}
<1>3. PICK i \in {e.id.index : e \in G} : \A j \in {e.id.index : e \in G} : i <= j
  <2>. {e.id.index : e \in G} \in SUBSET Nat /\ {e.id.index : e \in G} # {}
    BY <1>1, <1>2
  <2>. QED
    BY LeastNat
<1>. DEFINE F == {e \in G : e.id.index = i}
<1>4. PICK g \in {e.id.generation : e \in F} : \A h \in {e.id.generation : e \in F} : g <= h
  <2>. {e.id.generation : e \in F} \in SUBSET Nat /\ {e.id.generation : e \in F} # {}
    BY <1>1, <1>3
  <2>. QED
    BY LeastNat
<1>5. PICK e \in H : e.at = a /\ e.id.index = i /\ e.id.generation = g
  BY <1>4
<1>6. \A f \in H : ExpiryLeq(e, f)
  <2>. SUFFICES ASSUME NEW f \in H PROVE ExpiryLeq(e, f)
    OBVIOUS
  <2>1. a <= f.at /\ (f.at = a => i <= f.id.index)
        /\ (f.at = a /\ f.id.index = i => g <= f.id.generation)
    BY <1>2, <1>3, <1>4
  <2>2. /\ a \in Nat /\ i \in Nat /\ g \in Nat
        /\ f.at \in Nat /\ f.id.index \in Nat /\ f.id.generation \in Nat
    BY <1>1, <1>5
  <2>. QED
    BY <1>5, <2>1, <2>2 DEF ExpiryLeq, IdLeq
<1>. QED
  BY <1>5, <1>6 DEF ExpiryTop, H

\* The top of a nonempty LRU heap is one of its entries, and the least.
LEMMA LruTopFacts ==
  ASSUME IsLruHeap(lru), lru # EmptyBag
  PROVE  /\ LruTop \in BagToSet(lru)
         /\ \A f \in BagToSet(lru) : LruLeq(LruTop, f)
<1>. DEFINE H == BagToSet(lru)
<1>1. /\ H # {}
      /\ \A e \in H : /\ e.seen \in Nat /\ e.seq \in Nat
                      /\ e.id.index \in Nat /\ e.id.generation \in Nat
  BY DEF IsLruHeap, IsABag, BagToSet, EmptyBag, SetToBag, StreamIds
<1>. HIDE DEF H
<1>2. PICK a \in {e.seen : e \in H} : \A b \in {e.seen : e \in H} : a <= b
  <2>. {e.seen : e \in H} \in SUBSET Nat /\ {e.seen : e \in H} # {}
    BY <1>1
  <2>. QED
    BY LeastNat
<1>. DEFINE G == {e \in H : e.seen = a}
<1>3. PICK q \in {e.seq : e \in G} : \A r \in {e.seq : e \in G} : q <= r
  <2>. {e.seq : e \in G} \in SUBSET Nat /\ {e.seq : e \in G} # {}
    BY <1>1, <1>2
  <2>. QED
    BY LeastNat
<1>. DEFINE F == {e \in G : e.seq = q}
<1>4. PICK i \in {e.id.index : e \in F} : \A j \in {e.id.index : e \in F} : i <= j
  <2>. {e.id.index : e \in F} \in SUBSET Nat /\ {e.id.index : e \in F} # {}
    BY <1>1, <1>3
  <2>. QED
    BY LeastNat
<1>. DEFINE D == {e \in F : e.id.index = i}
<1>5. PICK g \in {e.id.generation : e \in D} : \A h \in {e.id.generation : e \in D} : g <= h
  <2>. {e.id.generation : e \in D} \in SUBSET Nat /\ {e.id.generation : e \in D} # {}
    BY <1>1, <1>4
  <2>. QED
    BY LeastNat
<1>6. PICK e \in H : e.seen = a /\ e.seq = q /\ e.id.index = i /\ e.id.generation = g
  BY <1>5
<1>7. \A f \in H : LruLeq(e, f)
  <2>. SUFFICES ASSUME NEW f \in H PROVE LruLeq(e, f)
    OBVIOUS
  <2>1. /\ a <= f.seen
        /\ f.seen = a => q <= f.seq
        /\ f.seen = a /\ f.seq = q => i <= f.id.index
        /\ f.seen = a /\ f.seq = q /\ f.id.index = i => g <= f.id.generation
    BY <1>2, <1>3, <1>4, <1>5
  <2>2. /\ a \in Nat /\ q \in Nat /\ i \in Nat /\ g \in Nat
        /\ f.seen \in Nat /\ f.seq \in Nat /\ f.id.index \in Nat /\ f.id.generation \in Nat
    BY <1>1, <1>6
  <2>. QED
    BY <1>6, <2>1, <2>2 DEF LruLeq, IdLeq
<1>. QED
  BY <1>6, <1>7 DEF LruTop, H

----------------------------------------------------------------------------
(* Types.                                                                  *)

\* A deadline is a time.
LEMMA DeadlineType ==
  ASSUME NEW s \in Streams
  PROVE  Deadline(s) \in Nat
  BY ConfigAssumption DEF Deadline, Streams, Never

\* The keys and directions a layer with both key fields gives.
LEMMA KeyTypes ==
  ASSUME NEW lay \in Layers, HasKey(lay)
  PROVE  /\ lay.a \in Nat /\ lay.b \in Nat /\ lay.protocol \in Protocols
         /\ FlowKey(lay) \in Keys
         /\ Direction(lay) \in Directions
  BY DEF Layers, HasKey, Absent, FlowKey, Keys, Direction, Directions

\* The candidate a layer folds with is one of its two sides.
LEMMA FoldingTypes ==
  ASSUME NEW lay \in Layers, HasKey(lay), NEW c \in Folding(lay)
  PROVE  /\ c.anchor \in Nat /\ c.varying \in Nat /\ c.dir \in Directions
         /\ AnchorKey(c.anchor) \in Keys
         /\ GroupKey(parent, lay.protocol, c.anchor) \in DOMAIN condense
<1>1. /\ c.anchor \in {lay.a, lay.b} /\ c.varying \in {lay.a, lay.b} /\ c.dir \in Directions
      /\ GroupKey(parent, lay.protocol, c.anchor) \in DOMAIN condense
  BY DEF Folding, Candidates, Triggered, Directions
<1>2. lay.a \in Nat /\ lay.b \in Nat
  BY KeyTypes
<1>. QED
  BY <1>1, <1>2 DEF AnchorKey, Keys

\* A new stream's slot and record.
LEMMA FreshTypes ==
  ASSUME TypeOK
  PROVE  /\ FreshIndex \in 1..(Len(generation) + 1)
         /\ FreshId \in StreamIds
         /\ FreshId.index = FreshIndex
<1>1. FreshIndex \in 1..(Len(generation) + 1)
  BY DEF TypeOK, SlotsType, FreshIndex
<1>2. free # <<>> => generation[FreshIndex] \in Nat
  BY DEF TypeOK, SlotsType, FreshIndex
<1>. QED
  BY <1>1, <1>2 DEF FreshId, StreamIds

\* A new stream is a record under the fresh handle.
LEMMA NewStreamType ==
  ASSUME TypeOK, NEW p \in Protocols, NEW k \in Keys, NEW b \in BOOLEAN
  PROVE  /\ NewStream(p, k, b) \in Streams
         /\ NewStream(p, k, b).id = FreshId
<1>1. FreshId \in StreamIds /\ parent \in StreamIds /\ nextSeq \in Nat /\ pkt.ts \in Nat
  BY FreshTypes DEF TypeOK, CountsType, CallType
<1>. QED
  BY <1>1 DEF NewStream, Streams, Never

\* What ingest makes of the record of a stream it touches.
LEMMA TouchedType ==
  ASSUME TypeOK, NEW s \in Streams, NEW lay \in Layers, NEW d \in Directions
  PROVE  /\ Touched(s, lay, d) \in Streams
         /\ Touched(s, lay, d).id = s.id
         /\ Touched(s, lay, d).parent = s.parent
         /\ Touched(s, lay, d).children = s.children
         /\ Touched(s, lay, d).seq = s.seq
<1>1. pkt.ts \in Nat /\ pkt.origlen \in Nat
  BY DEF TypeOK, CallType
<1>2. Eligible(s, lay) \in BOOLEAN
  BY DEF Eligible, Streams, Layers
<1>3. Since(s, lay) \in Nat \cup {Never}
  BY <1>1 DEF Since, Streams, Never
<1>4. AddStats(s, d) \in [Directions -> Nat]
  BY <1>1 DEF AddStats, Streams
<1>. QED
  BY <1>1, <1>2, <1>3, <1>4 DEF Touched, Streams

\* Joining a group changes none of the fields that place a stream.
LEMMA JoinedType ==
  ASSUME NEW s \in Streams, NEW g, NEW c, c.varying \in Nat
  PROVE  /\ Joined(s, g, c) \in Streams
         /\ Joined(s, g, c).id = s.id
         /\ Joined(s, g, c).parent = s.parent
         /\ Joined(s, g, c).children = s.children
         /\ Joined(s, g, c).seq = s.seq
<1>. DEFINE m == s.members + MemberCount(g, c)
            o == s.overflow \/ Overflows(g, c)
            w == s.met \cup {c.varying}
<1>1. m \in Nat
  BY DEF MemberCount, Streams
<1>2. o \in BOOLEAN /\ w \in SUBSET Nat
  BY DEF Streams
<1>3. Joined(s, g, c) = [s EXCEPT !.members = m, !.overflow = o, !.met = w]
  BY DEF Joined
<1>. HIDE DEF m, o, w
<1>. QED
  BY <1>1, <1>2, <1>3 DEF Streams

\* Pushing and popping entries keeps the heaps' types.
LEMMA HeapTypes ==
  ASSUME TypeOK, NEW h, NEW e, NEW s \in Streams
  PROVE  /\ IsExpiryHeap(h) => IsExpiryHeap(Pop(h, e))
         /\ IsLruHeap(h) => IsLruHeap(Pop(h, e))
         /\ IsExpiryHeap(h) => IsExpiryHeap(Push(h, ExpiryEntry(Deadline(s), s.id)))
         /\ IsLruHeap(h) => IsLruHeap(Push(h, LruEntry(s)))
         /\ \A lay : IsExpiryHeap(h) => IsExpiryHeap(ArmLinger(h, s, lay))
<1>1. s.id \in StreamIds /\ s.lastSeen \in Nat /\ s.seq \in Nat /\ pkt.ts \in Nat
  BY DEF TypeOK, CallType, Streams
<1>2. LruEntry(s) \in [seen : Nat, seq : Nat, id : StreamIds]
  BY <1>1 DEF LruEntry
<1>3. \A at \in Nat : ExpiryEntry(at, s.id) \in [at : Nat, id : StreamIds]
  BY <1>1 DEF ExpiryEntry
<1>4. pkt.ts + CloseLinger \in Nat /\ Deadline(s) \in Nat
  BY <1>1, DeadlineType, ConfigAssumption
<1>. QED
  BY <1>2, <1>3, <1>4, PushFacts, PopFacts DEF IsExpiryHeap, IsLruHeap, ArmLinger

\* An eviction keeps the types, whichever heaps it starts from.
LEMMA EvictTypes ==
  ASSUME TypeOK, NEW id, IsLive(id), NEW reason,
         NEW exp, IsExpiryHeap(exp), NEW cand, IsLruHeap(cand),
         Evict(id, reason, exp, cand), UNCHANGED <<clock, pc, pkt, todo, parent>>
  PROVE  TypeOK'
<1>. DEFINE s == streams[id.index]
            linked == s.parent # NoId /\ IsLive(s.parent)
            up == [streams[s.parent.index] EXCEPT !.children = @ \ {id}]
<1>0. id.index \in DOMAIN streams /\ s \in Streams
  BY DEF IsLive, TypeOK, StreamsType
<1>1. linked => /\ up \in Streams
                /\ s.parent.index \in DOMAIN streams
  <2>1. ASSUME linked PROVE streams[s.parent.index] \in Streams
    BY <2>1 DEF IsLive, TypeOK, StreamsType
  <2>. QED
    BY <2>1 DEF IsLive, Streams
<1>. HIDE DEF up
<1>2. SlotsType'
  <2>1. id.index \in 1..Len(generation)
    BY <1>0 DEF TypeOK, StreamsType
  <2>2. (generation[id.index] + 1) % GenerationCount \in Nat
    BY <2>1, ConfigAssumption DEF TypeOK, SlotsType
  <2>3. generation \in Seq(Nat) /\ free \in Seq(1..Len(generation))
    BY DEF TypeOK, SlotsType
  <2>4. /\ generation' = [generation EXCEPT ![id.index] = (generation[id.index] + 1) % GenerationCount]
        /\ free' = Append(free, id.index)
    BY DEF Evict
  <2>5. generation' \in Seq(Nat) /\ Len(generation') = Len(generation)
    BY ONLY <2>1, <2>2, <2>3, <2>4
  <2>6. free' \in Seq(1..Len(generation))
    BY ONLY <2>1, <2>3, <2>4
  <2>. QED
    BY <2>5, <2>6 DEF SlotsType
<1>3. StreamsType'
  <2>1. DOMAIN streams' \subseteq 1..Len(generation')
    <3>1. DOMAIN streams' = DOMAIN streams \ {id.index} /\ DOMAIN generation' = DOMAIN generation
      BY DEF Evict
    <3>2. DOMAIN streams \subseteq 1..Len(generation) /\ generation \in Seq(Nat) /\ generation' \in Seq(Nat)
      BY <1>2 DEF TypeOK, SlotsType, StreamsType
    <3>3. DOMAIN generation = 1..Len(generation) /\ DOMAIN generation' = 1..Len(generation')
      BY ONLY <3>2
    <3>. QED
      BY ONLY <3>1, <3>2, <3>3
  <2>2. \A i \in DOMAIN streams' : streams'[i] \in Streams
    BY <1>1 DEF TypeOK, StreamsType, Evict, up
  <2>3. roots' \subseteq StreamIds
    BY DEF TypeOK, StreamsType, Evict
  <2>4. \A e \in index' : e \in index
    BY DEF Evict
  <2>. QED
    BY <2>1, <2>2, <2>3, <2>4 DEF TypeOK, StreamsType
<1>4. HeapsType'
  BY <1>1, HeapTypes DEF TypeOK, HeapsType, Evict, RearmExpiry, RearmLru, up
<1>5. CountsType'
  <2>1. s.protocol \in Protocols /\ Bytes(s) \in Nat
    BY <1>0 DEF Streams, Bytes, Directions
  <2>2. \A c \in [ever : Nat, live : Nat, bytes : Nat] :
          Uncounted(c, s) \in [ever : Nat, live : Nat, bytes : Nat]
    BY <2>1 DEF Uncounted, MinusOrZero
  <2>3. /\ perProtocol' = [perProtocol EXCEPT ![s.protocol] = Uncounted(@, s)]
        /\ liveCount' = liveCount - 1
        /\ UNCHANGED <<totals, nextSeq, clock>>
    BY DEF Evict
  <2>. QED
    BY <2>1, <2>2, <2>3 DEF TypeOK, CountsType
<1>6. GroupsType'
  <2>1. condense' = CondenseEvict(s)
    BY DEF Evict
  <2>2. \A k \in DOMAIN condense :
          /\ condense[k] \in Groups
          /\ [condense[k] EXCEPT !.expanded = MinusOrZero(condense[k].expanded, 1)] \in Groups
    BY DEF TypeOK, GroupsType, Groups, MinusOrZero
  <2>. QED
    BY <2>1, <2>2 DEF GroupsType, CondenseEvict
<1>7. CallType'
  BY DEF TypeOK, CallType
<1>. QED
  BY <1>2, <1>3, <1>4, <1>5, <1>6, <1>7 DEF TypeOK

\* Creating a stream keeps the arena's and the heaps' types.
LEMMA CreateTypes ==
  ASSUME TypeOK, NEW fresh \in Streams, NEW s \in Streams, NEW lay,
         fresh.id = FreshId, Create(fresh, s, lay)
  PROVE  SlotsType' /\ StreamsType' /\ HeapsType' /\ liveCount' \in Int /\ nextSeq' \in Nat
<1>0. /\ FreshIndex \in 1..(Len(generation) + 1)
      /\ FreshId \in StreamIds
      /\ FreshId.index = FreshIndex
      /\ free # <<>> => FreshIndex \in 1..Len(generation)
  BY FreshTypes DEF TypeOK, SlotsType, FreshIndex
<1>1. /\ SlotsType'
      /\ Len(generation') \in Nat /\ Len(generation') >= Len(generation)
      /\ FreshIndex \in 1..Len(generation')
  <2>1. /\ generation' = IF free # <<>> THEN generation ELSE Append(generation, 0)
        /\ free' = IF free # <<>> THEN SubSeq(free, 1, Len(free) - 1) ELSE free
    BY DEF Create
  <2>2. CASE free = <<>>
    BY <1>0, <2>1, <2>2 DEF TypeOK, SlotsType, FreshIndex
  <2>3. CASE free # <<>>
    BY <1>0, <2>1, <2>3 DEF TypeOK, SlotsType
  <2>. QED
    BY <2>2, <2>3
<1>2. StreamsType'
  <2>. DEFINE Adopted(x) == [x EXCEPT !.children = @ \cup {FreshId}]
  <2>1. /\ DOMAIN streams' = DOMAIN streams \cup {FreshIndex}
        /\ \A i \in DOMAIN streams' :
             \/ streams'[i] = s
             \/ i \in DOMAIN streams /\ streams'[i] = streams[i]
             \/ i \in DOMAIN streams /\ streams'[i] = Adopted(streams[i])
    BY <1>0 DEF Create
  <2>2. \A i \in DOMAIN streams : streams[i] \in Streams /\ Adopted(streams[i]) \in Streams
    BY <1>0 DEF TypeOK, StreamsType, Streams
  <2>. HIDE DEF Adopted
  <2>3. roots' \subseteq roots \cup {FreshId}
    BY DEF Create
  <2>4. s.protocol \in Protocols /\ parent \in StreamIds
    BY DEF Streams, TypeOK, CallType
  <2>5. \A e \in index' : \/ e \in index
                          \/ e.parent = parent /\ e.protocol = s.protocol /\ e.id = FreshId
    BY DEF Create
  <2>6. Len(generation) \in Nat
    BY DEF TypeOK, SlotsType
  <2>7. DOMAIN streams' \subseteq 1..Len(generation')
    BY <1>1, <2>1, <2>6 DEF TypeOK, StreamsType
  <2>. QED
    BY <1>0, <2>1, <2>2, <2>3, <2>4, <2>5, <2>7 DEF TypeOK, StreamsType
<1>3. HeapsType'
  <2>1. IsExpiryHeap(Push(expiry, ExpiryEntry(pkt.ts + IdleTimeout, FreshId)))
    <3>1. ExpiryEntry(pkt.ts + IdleTimeout, FreshId) \in [at : Nat, id : StreamIds]
      BY <1>0, ConfigAssumption DEF TypeOK, CallType, ExpiryEntry
    <3>. QED
      BY <3>1, PushFacts DEF TypeOK, HeapsType, IsExpiryHeap
  <2>2. /\ expiry' = IF Live
                       THEN ArmLinger(Push(expiry, ExpiryEntry(pkt.ts + IdleTimeout, FreshId)), fresh, lay)
                       ELSE expiry
        /\ lru' = IF Live THEN Push(lru, LruEntry(fresh)) ELSE lru
    BY DEF Create
  <2>. QED
    BY <2>1, <2>2, HeapTypes DEF TypeOK, HeapsType
<1>4. liveCount' \in Int /\ nextSeq' \in Nat
  BY DEF Create, TypeOK, CountsType
<1>. QED
  BY <1>1, <1>2, <1>3, <1>4

\* The counters a layer updates.
LEMMA CountLayerType ==
  ASSUME TypeOK, NEW p \in Protocols, NEW flows \in Nat, NEW live \in Nat
  PROVE  CountLayer(p, flows, live) \in [Protocols -> [ever : Nat, live : Nat, bytes : Nat]]
<1>1. pkt.origlen \in Nat
  BY DEF TypeOK, CallType
<1>2. perProtocol[p].ever + flows \in Nat /\ perProtocol[p].live + live \in Nat
      /\ perProtocol[p].bytes + pkt.origlen \in Nat
  BY <1>1 DEF TypeOK, CountsType
<1>. QED
  BY <1>2 DEF TypeOK, CountsType, CountLayer

\* A group after a fold, the totals after a fold, the groups after a tally.
LEMMA FoldTypes ==
  ASSUME TypeOK, NEW g \in Groups, NEW c, c.varying \in Nat, NEW id \in StreamIds
  PROVE  /\ Grown(g, c, id) \in Groups
         /\ MemberCount(g, c) \in Nat
         /\ CountMember(g, c) \in
              [packets : Nat, bytes : Nat, created : Nat, condensed : Nat, keyErrors : Nat]
<1>1. MemberCount(g, c) \in Nat
  BY DEF MemberCount
<1>2. Grown(g, c, id) \in Groups
  BY DEF Grown, Groups
<1>3. totals.created + MemberCount(g, c) \in Nat /\ totals.condensed + MemberCount(g, c) \in Nat
  BY <1>1 DEF TypeOK, CountsType
<1>. QED
  BY <1>1, <1>2, <1>3 DEF CountMember, TypeOK, CountsType

\* Tallying a candidate leaves groups.
LEMMA TalliedType ==
  ASSUME TypeOK, NEW lay
  PROVE  \A k \in DOMAIN Tallied(lay) : Tallied(lay)[k] \in Groups
<1>1. EmptyGroup \in Groups /\ \A g \in Groups : [g EXCEPT !.expanded = @ + 1] \in Groups
  BY DEF EmptyGroup, Groups, NoId, StreamIds
<1>2. \A k \in DOMAIN condense : condense[k] \in Groups
  BY DEF TypeOK, GroupsType
<1>. QED
  BY <1>1, <1>2 DEF Tallied

\* The stream an index lookup finds.
LEMMA FoundTypes ==
  ASSUME TypeOK, NEW p, NEW k, Found(p, k) # {}
  PROVE  LET id == CHOOSE x \in Found(p, k) : TRUE
         IN  /\ id \in Found(p, k) /\ id \in StreamIds /\ IsLive(id)
             /\ id.index \in DOMAIN streams /\ streams[id.index] \in Streams
  BY DEF Found, IsLive, TypeOK, StreamsType

\* A layer that forms a stream.
LEMMA HeadTypes ==
  ASSUME TypeOK, todo # <<>>
  PROVE  Head(todo) \in Layers /\ Tail(todo) \in Seq(Layers)
  BY DEF TypeOK, CallType

\* Folding a layer in keeps the types.
LEMMA LayerTypes ==
  ASSUME TypeOK, Layer
  PROVE  TypeOK'
<1>. DEFINE lay == Head(todo)
<1>. USE DEF counts, arena, heaps
<1>1. CASE SkipLayer
  BY <1>1, HeadTypes DEF SkipLayer, TypeOK, SlotsType, StreamsType, HeapsType, CountsType,
       GroupsType, CallType, IsLive
<1>2. CASE KeyErrorLayer
  <2>1. totals' \in [packets : Nat, bytes : Nat, created : Nat, condensed : Nat, keyErrors : Nat]
    BY <1>2, SMTT(30) DEF KeyErrorLayer, TypeOK, CountsType
  <2>. QED
    BY <1>2, <2>1, HeadTypes DEF KeyErrorLayer, TypeOK, SlotsType, StreamsType, HeapsType, CountsType,
       GroupsType, CallType
<1>3. CASE HitLayer
  <2>. DEFINE id == CHOOSE x \in Found(lay.protocol, FlowKey(lay)) : TRUE
              s == streams[id.index]
              new == Touched(s, lay, Direction(lay))
  <2>1. /\ todo # <<>> /\ Folds(lay) /\ Found(lay.protocol, FlowKey(lay)) # {}
        /\ streams' = [streams EXCEPT ![id.index] = new]
        /\ expiry' = ArmLinger(expiry, s, lay)
        /\ perProtocol' = CountLayer(lay.protocol, 0, 0)
        /\ todo' = Tail(todo) /\ parent' = id
        /\ UNCHANGED <<generation, free, index, roots, lru, liveCount, totals, nextSeq, clock,
                       condense, pc, pkt>>
    BY <1>3 DEF HitLayer
  <2>2. /\ lay \in Layers /\ HasKey(lay) /\ Tail(todo) \in Seq(Layers)
        /\ lay.protocol \in Protocols /\ Direction(lay) \in Directions
    BY <2>1, HeadTypes, KeyTypes DEF Folds
  <2>3. id \in StreamIds /\ id.index \in DOMAIN streams /\ s \in Streams
    BY <2>1, FoundTypes
  <2>4. new \in Streams
    BY <2>2, <2>3, TouchedType
  <2>5. IsExpiryHeap(ArmLinger(expiry, s, lay))
    BY <2>3, HeapTypes DEF TypeOK, HeapsType
  <2>6. CountLayer(lay.protocol, 0, 0) \in [Protocols -> [ever : Nat, live : Nat, bytes : Nat]]
    BY <2>2, CountLayerType
  <2>. HIDE DEF id, s, new, lay
  <2>7. StreamsType'
    BY <2>1, <2>3, <2>4 DEF TypeOK, StreamsType
  <2>. QED
    BY <2>1, <2>2, <2>3, <2>5, <2>6, <2>7
       DEF TypeOK, SlotsType, HeapsType, CountsType, GroupsType, CallType
<1>4. CASE CreateLayer
  <2>. DEFINE fresh == NewStream(lay.protocol, FlowKey(lay), FALSE)
              new == Touched(fresh, lay, Direction(lay))
  <2>1. /\ todo # <<>> /\ Folds(lay)
        /\ Create(fresh, new, lay)
        /\ perProtocol' = CountLayer(lay.protocol, 1, 1)
        /\ totals' = [totals EXCEPT !.created = @ + 1]
        /\ condense' = Tallied(lay)
        /\ todo' = Tail(todo) /\ parent' = fresh.id
        /\ UNCHANGED <<clock, pc, pkt>>
    BY <1>4 DEF CreateLayer
  <2>2. /\ lay \in Layers /\ HasKey(lay) /\ Tail(todo) \in Seq(Layers)
        /\ lay.protocol \in Protocols /\ Direction(lay) \in Directions /\ FlowKey(lay) \in Keys
    BY <2>1, HeadTypes, KeyTypes DEF Folds
  <2>3. fresh \in Streams /\ fresh.id = FreshId /\ FreshId \in StreamIds
    BY <2>2, NewStreamType, FreshTypes
  <2>4. new \in Streams
    BY <2>2, <2>3, TouchedType
  <2>5. CountLayer(lay.protocol, 1, 1) \in [Protocols -> [ever : Nat, live : Nat, bytes : Nat]]
    BY <2>2, CountLayerType
  <2>6. totals' \in [packets : Nat, bytes : Nat, created : Nat, condensed : Nat, keyErrors : Nat]
    <3>1. totals' = [totals EXCEPT !.created = @ + 1]
      BY <2>1
    <3>. QED
      BY <3>1 DEF TypeOK, CountsType
  <2>7. GroupsType'
    BY <2>1, TalliedType DEF GroupsType
  <2>. HIDE DEF fresh, new, lay
  <2>8. SlotsType' /\ StreamsType' /\ HeapsType' /\ liveCount' \in Int /\ nextSeq' \in Nat
    BY <2>1, <2>3, <2>4, CreateTypes
  <2>. QED
    BY <2>1, <2>2, <2>3, <2>5, <2>6, <2>7, <2>8 DEF TypeOK, CountsType, CallType
<1>5. CASE todo # <<>> /\ FoldAny
  <2>1. PICK c \in Folding(lay) : FoldLayer(c) \/ FoldNewNode(c)
    BY <1>5 DEF FoldAny
  <2>. DEFINE k == GroupKey(parent, lay.protocol, c.anchor)
              g == condense[k]
  <2>2. /\ todo # <<>> /\ Folds(lay)
        /\ todo' = Tail(todo) /\ totals' = CountMember(g, c) /\ UNCHANGED <<clock, pc, pkt>>
    BY <2>1 DEF FoldLayer, FoldNewNode
  <2>3. /\ lay \in Layers /\ HasKey(lay) /\ Tail(todo) \in Seq(Layers)
        /\ lay.protocol \in Protocols /\ c.varying \in Nat /\ c.dir \in Directions
        /\ AnchorKey(c.anchor) \in Keys
        /\ k \in DOMAIN condense
    BY <2>2, HeadTypes, KeyTypes, FoldingTypes DEF Folds
  <2>4. g \in Groups /\ g.node \in StreamIds
    BY <2>3 DEF TypeOK, GroupsType, Groups
  <2>5. totals' \in [packets : Nat, bytes : Nat, created : Nat, condensed : Nat, keyErrors : Nat]
    BY <2>2, <2>3, <2>4, FoldTypes
  <2>6. MemberCount(g, c) \in Nat
    BY DEF MemberCount
  <2>7. CASE FoldLayer(c)
    <3>. DEFINE s == streams[g.node.index]
                new == Touched(Joined(s, g, c), lay, c.dir)
    <3>1. /\ IsLive(g.node)
          /\ streams' = [streams EXCEPT ![g.node.index] = new]
          /\ condense' = [condense EXCEPT ![k] = Grown(g, c, g.node)]
          /\ perProtocol' = CountLayer(lay.protocol, MemberCount(g, c), 0)
          /\ parent' = g.node
          /\ UNCHANGED <<generation, free, index, roots, expiry, lru, liveCount, nextSeq>>
      BY <2>7 DEF FoldLayer
    <3>2. s \in Streams /\ g.node.index \in DOMAIN streams
      BY <3>1 DEF IsLive, TypeOK, StreamsType
    <3>3. new \in Streams
      BY <2>3, <3>2, JoinedType, TouchedType
    <3>4. Grown(g, c, g.node) \in Groups
      BY <2>3, <2>4, FoldTypes
    <3>5. CountLayer(lay.protocol, MemberCount(g, c), 0)
            \in [Protocols -> [ever : Nat, live : Nat, bytes : Nat]]
      BY <2>3, <2>6, CountLayerType
    <3>. HIDE DEF lay, k, g, s, new
    <3>6. StreamsType'
      BY <3>1, <3>2, <3>3 DEF TypeOK, StreamsType
    <3>7. GroupsType'
      BY <3>1, <3>4 DEF TypeOK, GroupsType
    <3>. QED
      BY <2>2, <2>3, <2>4, <2>5, <3>1, <3>5, <3>6, <3>7
         DEF TypeOK, SlotsType, HeapsType, CountsType, CallType
  <2>8. CASE FoldNewNode(c)
    <3>. DEFINE fresh == NewStream(lay.protocol, AnchorKey(c.anchor), TRUE)
                new == Touched(Joined(fresh, g, c), lay, c.dir)
    <3>1. /\ Create(fresh, new, lay)
          /\ condense' = [condense EXCEPT ![k] = Grown(g, c, fresh.id)]
          /\ perProtocol' = CountLayer(lay.protocol, MemberCount(g, c), 1)
          /\ parent' = fresh.id
      BY <2>8 DEF FoldNewNode
    <3>2. fresh \in Streams /\ fresh.id = FreshId /\ FreshId \in StreamIds
      BY <2>3, NewStreamType, FreshTypes
    <3>3. new \in Streams
      BY <2>3, <3>2, JoinedType, TouchedType
    <3>4. Grown(g, c, fresh.id) \in Groups
      BY <2>3, <2>4, <3>2, FoldTypes
    <3>5. CountLayer(lay.protocol, MemberCount(g, c), 1)
            \in [Protocols -> [ever : Nat, live : Nat, bytes : Nat]]
      BY <2>3, <2>6, CountLayerType
    <3>. HIDE DEF lay, k, g, fresh, new
    <3>6. SlotsType' /\ StreamsType' /\ HeapsType' /\ liveCount' \in Int /\ nextSeq' \in Nat
      BY <3>1, <3>2, <3>3, CreateTypes
    <3>7. GroupsType'
      BY <3>1, <3>4 DEF TypeOK, GroupsType
    <3>. QED
      BY <2>2, <2>3, <2>5, <3>1, <3>2, <3>5, <3>6, <3>7 DEF TypeOK, CountsType, CallType
  <2>. QED
    BY <2>1, <2>7, <2>8
<1>. QED
  BY <1>1, <1>2, <1>3, <1>4, <1>5 DEF Layer

\* The compacted heap is a heap.
LEMMA CompactedType ==
  ASSUME TypeOK
  PROVE  IsLruHeap(CompactedLru)
<1>1. \A i \in DOMAIN streams : LruEntry(streams[i]) \in [seen : Nat, seq : Nat, id : StreamIds]
  BY DEF TypeOK, StreamsType, Streams, LruEntry
<1>. QED
  BY <1>1 DEF TypeOK, HeapsType, IsLruHeap, CompactedLru, IsABag, SetToBag, BagToSet

\* Every step keeps the types.
LEMMA TypeStep == TypeOK /\ [Next]_vars => TypeOK'
<1>. SUFFICES ASSUME TypeOK, [Next]_vars PROVE TypeOK'
  OBVIOUS
<1>. USE DEF arena, heaps, counts
<1>1. CASE UNCHANGED vars
  BY <1>1 DEF vars, TypeOK, SlotsType, StreamsType, HeapsType, CountsType, GroupsType, CallType
<1>2. CASE Arrive
  <2>1. PICK p \in Packets, ts \in 0..MaxTime : Ingest(p, ts)
    BY <1>2 DEF Arrive
  <2>2. /\ p.layers \in Seq(Layers) /\ p.origlen \in Nat /\ p.opaque \in Nat /\ ts \in Nat
        /\ NoId \in StreamIds
    BY PacketAssumption, ConfigAssumption DEF NoId, StreamIds
  <2>3. /\ totals' \in [packets : Nat, bytes : Nat, created : Nat, condensed : Nat, keyErrors : Nat]
        /\ clock' \in Nat
    <3>1. /\ totals' = [totals EXCEPT !.packets = @ + 1, !.bytes = @ + p.origlen]
          /\ clock' = IF ts > clock THEN ts ELSE clock
      BY <2>1 DEF Ingest
    <3>2. /\ totals.packets + 1 \in Nat /\ totals.bytes + p.origlen \in Nat
      BY <2>2 DEF TypeOK, CountsType
    <3>. QED
      BY <2>2, <3>1, <3>2 DEF TypeOK, CountsType
  <2>. QED
    BY <2>1, <2>2, <2>3 DEF Ingest, TypeOK, SlotsType, StreamsType, HeapsType, CountsType,
         GroupsType, CallType
<1>3. CASE Sweep
  <2>1. CASE SweepDrop
    <3>1. IsExpiryHeap(Pop(expiry, ExpiryTop))
      BY PopFacts DEF TypeOK, HeapsType, IsExpiryHeap
    <3>. QED
      BY <2>1, <3>1 DEF SweepDrop, TypeOK, SlotsType, StreamsType, HeapsType, CountsType,
           GroupsType, CallType
  <2>2. CASE SweepRepush
    <3>. DEFINE s == streams[ExpiryTop.id.index]
    <3>1. s \in Streams /\ Deadline(s) \in Nat
      BY <2>2, DeadlineType DEF SweepRepush, IsLive, TypeOK, StreamsType
    <3>2. ExpiryEntry(Deadline(s), ExpiryTop.id) \in [at : Nat, id : StreamIds]
      <4>1. ExpiryTop.id \in StreamIds
        BY <2>2, ExpiryTopFacts DEF SweepRepush, Due, TypeOK, HeapsType, IsExpiryHeap
      <4>. QED
        BY <3>1, <4>1 DEF ExpiryEntry
    <3>3. IsExpiryHeap(Push(Pop(expiry, ExpiryTop), ExpiryEntry(Deadline(s), ExpiryTop.id)))
      <4>1. IsExpiryHeap(Pop(expiry, ExpiryTop))
        BY PopFacts DEF TypeOK, HeapsType, IsExpiryHeap
      <4>. QED
        BY <3>2, <4>1, PushFacts DEF IsExpiryHeap
    <3>. QED
      BY <2>2, <3>3 DEF SweepRepush, TypeOK, SlotsType, StreamsType, HeapsType, CountsType,
           GroupsType, CallType
  <2>3. CASE SweepEvict
    <3>1. IsExpiryHeap(Pop(expiry, ExpiryTop)) /\ IsLruHeap(lru)
      BY PopFacts DEF TypeOK, HeapsType, IsExpiryHeap
    <3>. QED
      BY <2>3, <3>1, EvictTypes DEF SweepEvict
  <2>4. CASE SweepDone
    BY <2>4, CompactedType DEF SweepDone, TypeOK, SlotsType, StreamsType, HeapsType, CountsType,
         GroupsType, CallType
  <2>. QED
    BY <1>3, <2>1, <2>2, <2>3, <2>4 DEF Sweep
<1>4. CASE Layer
  BY <1>4, LayerTypes
<1>5. CASE LayersDone
  <2>1. IsLive(parent) => /\ parent.index \in DOMAIN streams
                          /\ WithOpaque(streams[parent.index]) \in Streams
    <3>1. ASSUME IsLive(parent) PROVE streams[parent.index] \in Streams /\ pkt.opaque \in Nat
      BY <3>1 DEF IsLive, TypeOK, StreamsType, CallType
    <3>. QED
      BY <3>1 DEF IsLive, WithOpaque, Streams
  <2>2. StreamsType'
    BY <1>5, <2>1 DEF LayersDone, TypeOK, StreamsType
  <2>. QED
    BY <1>5, <2>2 DEF LayersDone, TypeOK, SlotsType, HeapsType, CountsType, GroupsType, CallType
<1>6. CASE Enforce
  <2>1. IsLruHeap(Pop(lru, LruTop)) /\ IsExpiryHeap(expiry)
    BY PopFacts DEF TypeOK, HeapsType, IsLruHeap
  <2>2. CASE EnforceDrop
    BY <2>1, <2>2 DEF EnforceDrop, TypeOK, SlotsType, StreamsType, HeapsType, CountsType,
         GroupsType, CallType
  <2>3. CASE EnforceRepush
    <3>. DEFINE s == streams[LruTop.id.index]
    <3>1. s \in Streams
      BY <2>3 DEF EnforceRepush, IsLive, TypeOK, StreamsType
    <3>2. IsLruHeap(Push(Pop(lru, LruTop), LruEntry(s)))
      BY <2>1, <3>1, HeapTypes
    <3>. QED
      BY <2>3, <3>2 DEF EnforceRepush, TypeOK, SlotsType, StreamsType, HeapsType, CountsType,
           GroupsType, CallType
  <2>4. CASE EnforceEvict
    BY <2>1, <2>4, EvictTypes DEF EnforceEvict
  <2>5. CASE EnforceDone
    BY <2>5 DEF EnforceDone, TypeOK, SlotsType, StreamsType, HeapsType, CountsType,
         GroupsType, CallType
  <2>. QED
    BY <1>6, <2>2, <2>3, <2>4, <2>5 DEF Enforce
<1>7. CASE Finish
  BY <1>7 DEF Finish, TypeOK, SlotsType, StreamsType, HeapsType, CountsType, GroupsType, CallType
<1>8. CASE Finishing
  <2>1. CASE FinishEvict
    BY <2>1, EvictTypes DEF FinishEvict, TypeOK, HeapsType
  <2>2. CASE FinishRetain
    <3>. DEFINE i == NextToClose.id.index
    <3>1. i \in DOMAIN streams /\ ClosedCopy(streams[i]) \in Streams
      <4>1. i \in DOMAIN streams /\ streams[i] \in Streams
        BY <2>2 DEF FinishRetain, IsLive, TypeOK, StreamsType
      <4>. QED
        BY <4>1 DEF ClosedCopy, Streams
    <3>2. StreamsType'
      BY <2>2, <3>1 DEF FinishRetain, TypeOK, StreamsType
    <3>. QED
      BY <2>2, <3>2 DEF FinishRetain, TypeOK, SlotsType, HeapsType, CountsType, GroupsType, CallType
  <2>3. CASE FinishDone
    BY <2>3 DEF FinishDone, TypeOK, SlotsType, StreamsType, HeapsType, CountsType,
         GroupsType, CallType
  <2>. QED
    BY <1>8, <2>1, <2>2, <2>3 DEF Finishing
<1>. QED
  BY <1>1, <1>2, <1>3, <1>4, <1>5, <1>6, <1>7, <1>8 DEF Next, Step, Closed

\* A new store has the types.
LEMMA TypeInit == Init => TypeOK
  BY DEF Init, TypeOK, SlotsType, StreamsType, HeapsType, CountsType, GroupsType, CallType,
       IsExpiryHeap, IsLruHeap, IsABag, BagToSet, EmptyBag, SetToBag, NoId, StreamIds

\* Type correctness, for every policy, threshold, packet set and timing.
THEOREM TypeCorrect == Spec => []TypeOK
  BY TypeInit, TypeStep, PTL DEF Spec

----------------------------------------------------------------------------
(* The inductive invariant.  Forest and the two exactness facts need the   *)
(* ingest cursor to be a live stream, creation numbers below next_seq and  *)
(* live_count to be the number of occupied slots; finish() needs its order   *)
(* to list every live stream once, a child deeper than its parent.         *)

LiveCounted == liveCount = Cardinality(DOMAIN streams)
SeqBelow == \A i \in DOMAIN streams : streams[i].seq < nextSeq
CursorLive == /\ pc = "sweep" => parent = NoId
              /\ pc = "layers" => parent = NoId \/ IsLive(parent)
Arena == Forest /\ FreeSlotsExact /\ SeqBelow
Shape == Arena /\ LeavesAreCandidates /\ LiveCounted

\* What is left of finish()'s order: live streams, each once, and a child
\* deeper than its parent.  Under the Live policy it is all of them.
FinishInv ==
  pc = "finish" =>
    /\ \A x \in finishing :
         /\ x.depth \in Nat /\ x.depth <= nextSeq
         /\ x.id \in StreamIds /\ IsLive(x.id) /\ x.seq = streams[x.id.index].seq
    /\ \A x, y \in finishing : x.id = y.id => x = y
    /\ Live => \A i \in DOMAIN streams : \E x \in finishing : x.id = streams[i].id
    /\ \A x, y \in finishing : streams[y.id.index].parent = x.id => y.depth > x.depth

StoreInv == TypeOK /\ Shape /\ CursorLive /\ FinishInv /\ CapHolds

\* NoId is no stream, and a live handle is its stream's own.
LEMMA LiveFacts ==
  ASSUME TypeOK, HandlesCurrent
  PROVE  /\ ~IsLive(NoId)
         /\ \A id \in StreamIds : IsLive(id) => /\ id.index \in DOMAIN streams
                                                /\ streams[id.index] \in Streams
                                                /\ streams[id.index].id = id
         /\ \A i \in DOMAIN streams : IsLive(streams[i].id) /\ streams[i].id.index = i
<1>1. ~IsLive(NoId)
  BY DEF IsLive, NoId, TypeOK, StreamsType, SlotsType
<1>2. \A id \in StreamIds : IsLive(id) => /\ id.index \in DOMAIN streams
                                          /\ streams[id.index] \in Streams
                                          /\ streams[id.index].id = id
  BY DEF IsLive, TypeOK, StreamsType, HandlesCurrent, StreamIds
<1>3. \A i \in DOMAIN streams : IsLive(streams[i].id) /\ streams[i].id.index = i
  <2>. SUFFICES ASSUME NEW i \in DOMAIN streams
                PROVE  IsLive(streams[i].id) /\ streams[i].id.index = i
    OBVIOUS
  <2>1. streams[i].id = [index |-> i, generation |-> generation[i]]
    BY DEF HandlesCurrent
  <2>2. streams[i].id.index = i /\ streams[i].id.generation = generation[i]
    BY <2>1
  <2>. QED
    BY <2>2 DEF IsLive
<1>. QED
  BY <1>1, <1>2, <1>3

\* The live set is finite.
LEMMA LiveFinite ==
  ASSUME TypeOK
  PROVE  IsFiniteSet(DOMAIN streams)
<1>1. Len(generation) \in Nat /\ DOMAIN streams \subseteq 1..Len(generation)
  BY DEF TypeOK, SlotsType, StreamsType
<1>2. IsFiniteSet(1..Len(generation))
  BY <1>1, FS_Interval
<1>. QED
  BY <1>1, <1>2, FS_Subset

\* A store without a leaf is empty: the youngest stream has no child.
LEMMA SomeLeaf ==
  ASSUME TypeOK, Forest, SeqBelow, DOMAIN streams # {}
  PROVE  \E i \in DOMAIN streams : IsLeaf(streams[i])
<1>1. \A i \in DOMAIN streams : streams[i].seq \in Nat /\ nextSeq - streams[i].seq \in Nat
  <2>1. \A i \in DOMAIN streams : streams[i].seq \in Nat
    BY DEF TypeOK, StreamsType, Streams
  <2>. QED
    BY <2>1 DEF TypeOK, CountsType, SeqBelow
<1>2. PICK i \in DOMAIN streams : \A j \in DOMAIN streams : streams[i].seq >= streams[j].seq
  <2>. DEFINE S == {nextSeq - streams[j].seq : j \in DOMAIN streams}
  <2>1. PICK x \in S : \A y \in S : x <= y
    <3>. S \in SUBSET Nat /\ S # {}
      BY <1>1
    <3>. QED
      BY LeastNat
  <2>2. PICK k \in DOMAIN streams : x = nextSeq - streams[k].seq
    BY <2>1
  <2>3. \A j \in DOMAIN streams : nextSeq - streams[k].seq <= nextSeq - streams[j].seq
    BY <2>1, <2>2
  <2>4. nextSeq \in Nat
    BY DEF TypeOK, CountsType
  <2>. QED
    BY <1>1, <2>3, <2>4
<1>3. ASSUME NEW c \in streams[i].children PROVE FALSE
  <2>1. /\ c.index \in DOMAIN streams
        /\ streams[c.index].parent = streams[i].id
    BY <1>3 DEF Forest, ChildrenLive, IsLive
  <2>2. streams[i].id # NoId /\ streams[i].id.index = i
    BY LiveFacts DEF Forest
  <2>3. streams[i].seq < streams[c.index].seq
    BY <2>1, <2>2 DEF Forest, ParentsLive
  <2>. QED
    BY <1>1, <1>2, <2>1, <2>3
<1>. QED
  BY <1>3 DEF IsLeaf

\* Updating a record's data fields keeps the arena.
LEMMA TouchArena ==
  ASSUME TypeOK, Arena, NEW i \in DOMAIN streams, NEW new,
         streams' = [streams EXCEPT ![i] = new],
         new.id = streams[i].id, new.parent = streams[i].parent,
         new.children = streams[i].children, new.seq = streams[i].seq,
         UNCHANGED <<generation, free, roots, nextSeq>>
  PROVE  /\ Arena'
         /\ DOMAIN streams' = DOMAIN streams
         /\ \A id : IsLive(id)' <=> IsLive(id)
         /\ \A j \in DOMAIN streams : /\ streams'[j].id = streams[j].id
                                      /\ streams'[j].children = streams[j].children
<1>1. DOMAIN streams' = DOMAIN streams
  OBVIOUS
<1>2. \A j \in DOMAIN streams : /\ streams'[j].id = streams[j].id
                                /\ streams'[j].parent = streams[j].parent
                                /\ streams'[j].children = streams[j].children
                                /\ streams'[j].seq = streams[j].seq
  OBVIOUS
<1>3. \A id : IsLive(id)' <=> IsLive(id)
  BY <1>1 DEF IsLive
<1>4. HandlesCurrent'
  BY <1>1, <1>2 DEF Arena, Forest, HandlesCurrent
<1>5. ParentsLive'
  <2>1. \A j \in DOMAIN streams : IsLive(streams[j].parent) => streams[j].parent.index \in DOMAIN streams
    BY DEF IsLive
  <2>. QED
    BY <1>1, <1>2, <1>3, <2>1 DEF Arena, Forest, ParentsLive
<1>6. ChildrenLive'
  <2>1. \A c : IsLive(c) => c.index \in DOMAIN streams
    BY DEF IsLive
  <2>. QED
    BY <1>1, <1>2, <1>3, <2>1 DEF Arena, Forest, ChildrenLive
<1>7. RootsExact'
  BY <1>1, <1>2, <1>3 DEF Arena, Forest, RootsExact
<1>8. FreeSlotsExact' /\ SeqBelow'
  BY <1>1, <1>2 DEF Arena, FreeSlotsExact, SeqBelow
<1>. QED
  BY <1>1, <1>2, <1>3, <1>4, <1>5, <1>6, <1>7, <1>8 DEF Arena, Forest

\* A new stream joins the arena under the cursor.
LEMMA CreateArena ==
  ASSUME TypeOK, Arena, NEW par, par = parent, par = NoId \/ IsLive(par),
         NEW fresh \in Streams, NEW s \in Streams, NEW lay, NEW id, id = FreshId,
         fresh.id = id, s.id = id, s.parent = par, s.children = {}, s.seq = nextSeq,
         Create(fresh, s, lay)
  PROVE  /\ Arena'
         /\ id \in StreamIds /\ id.index \notin DOMAIN streams
         /\ DOMAIN streams' = DOMAIN streams \cup {id.index}
         /\ streams'[id.index] = s
         /\ IsLive(id)'
         /\ \A j \in DOMAIN streams : /\ streams'[j].id = streams[j].id
                                      /\ streams[j].children \subseteq streams'[j].children
<1>. DEFINE f == id.index
            linked == IsLive(par)
            Adopted(x) == [x EXCEPT !.children = @ \cup {id}]
<1>0. f = FreshIndex /\ id \in StreamIds /\ f \in Nat
  BY FreshTypes DEF StreamIds
<1>1. /\ Len(generation) \in Nat /\ generation \in Seq(Nat) /\ free \in Seq(1..Len(generation))
      /\ DOMAIN streams \subseteq 1..Len(generation)
      /\ par \in StreamIds
      /\ nextSeq \in Nat
  BY DEF TypeOK, SlotsType, StreamsType, CallType, CountsType
<1>2. f \notin DOMAIN streams
  <2>1. CASE free = <<>>
    BY <1>0, <1>1, <2>1 DEF FreshIndex
  <2>2. CASE free # <<>>
    BY <1>0, <1>1, <2>2 DEF FreshIndex, Arena, FreeSlotsExact
  <2>. QED
    BY <2>1, <2>2
<1>3. /\ generation' = IF free # <<>> THEN generation ELSE Append(generation, 0)
      /\ free' = IF free # <<>> THEN SubSeq(free, 1, Len(free) - 1) ELSE free
      /\ DOMAIN streams' = DOMAIN streams \cup {f}
      /\ streams'[f] = s
      /\ \A j \in DOMAIN streams :
           streams'[j] = IF linked /\ j = par.index THEN Adopted(streams[j]) ELSE streams[j]
      /\ roots' = IF linked THEN roots ELSE roots \cup {id}
      /\ nextSeq' = nextSeq + 1
  BY <1>0, <1>2 DEF Create
<1>4. \A j \in DOMAIN streams : /\ streams'[j].id = streams[j].id
                                /\ streams'[j].parent = streams[j].parent
                                /\ streams'[j].seq = streams[j].seq
                                /\ streams'[j].children = IF linked /\ j = par.index
                                     THEN streams[j].children \cup {id}
                                     ELSE streams[j].children
  <2>1. \A x \in Streams : /\ Adopted(x).id = x.id
                           /\ Adopted(x).parent = x.parent
                           /\ Adopted(x).seq = x.seq
                           /\ Adopted(x).children = x.children \cup {id}
    BY DEF Streams
  <2>2. \A j \in DOMAIN streams : streams[j] \in Streams
    BY DEF TypeOK, StreamsType
  <2>. HIDE DEF Adopted
  <2>. QED
    BY <1>3, <2>1, <2>2
<1>. HIDE DEF f, linked, Adopted
<1>5. /\ \A j \in DOMAIN streams : generation'[j] = generation[j]
      /\ generation'[f] = id.generation
      /\ Len(generation') \in Nat
      /\ f \in 1..Len(generation')
      /\ 1..Len(generation) \subseteq 1..Len(generation')
      /\ \A j \in 1..Len(generation') : j \in 1..Len(generation) \/ j = f
  <2>1. CASE free = <<>>
    BY <1>0, <1>1, <1>3, <2>1 DEF FreshIndex, FreshId
  <2>2. CASE free # <<>>
    BY <1>0, <1>1, <1>3, <2>2 DEF FreshIndex, FreshId
  <2>. QED
    BY <2>1, <2>2
<1>6. /\ \A x \in StreamIds : IsLive(x) => IsLive(x)'
      /\ IsLive(id)'
      /\ \A x : IsLive(x) => x.index \in DOMAIN streams /\ x.index # f
  <2>1. f = id.index
    BY DEF f
  <2>. QED
    BY <1>2, <1>3, <1>5, <2>1 DEF IsLive
<1>7. HandlesCurrent'
  <2>1. id = [index |-> f, generation |-> generation'[f]]
    BY <1>0, <1>5 DEF StreamIds, f
  <2>. QED
    BY <1>3, <1>4, <1>5, <2>1, ZenonT(40) DEF Arena, Forest, HandlesCurrent
<1>8. linked => /\ streams[par.index].id = par /\ par.index \in DOMAIN streams
                /\ par # NoId
  BY <1>1, LiveFacts DEF linked, Arena, Forest
<1>9. ~linked => par = NoId
  BY DEF linked
<1>10. ParentsLive'
  <2>. SUFFICES ASSUME NEW j \in DOMAIN streams', streams'[j].parent # NoId
                PROVE  /\ IsLive(streams[j].parent)'
                       /\ streams'[j].id \in streams'[streams'[j].parent.index].children
                       /\ streams'[streams'[j].parent.index].seq < streams'[j].seq
    BY DEF ParentsLive
  <2>1. CASE j = f
    <3>1. linked /\ streams'[j].parent = par /\ streams'[j].id = id /\ streams'[j].seq = nextSeq
      BY <1>3, <1>9, <2>1
    <3>2. IsLive(par)'
      BY <1>1, <1>6, <3>1 DEF linked
    <3>3. /\ streams'[par.index].children = streams[par.index].children \cup {id}
          /\ streams'[par.index].seq = streams[par.index].seq
          /\ streams[par.index].seq < nextSeq
      BY <1>4, <1>8, <3>1 DEF Arena, SeqBelow
    <3>. QED
      BY <3>1, <3>2, <3>3 DEF IsLive
  <2>2. CASE j \in DOMAIN streams
    <3>. DEFINE q == streams[j].parent
    <3>1. /\ streams'[j].parent = q /\ q # NoId
          /\ IsLive(q) /\ streams[j].id \in streams[q.index].children
          /\ streams[q.index].seq < streams[j].seq
      BY <1>4, <2>2 DEF Arena, Forest, ParentsLive
    <3>2. q \in StreamIds
      BY <2>2 DEF TypeOK, StreamsType, Streams
    <3>3. q.index \in DOMAIN streams
      BY <1>6, <3>1
    <3>4. /\ streams'[q.index].seq = streams[q.index].seq
          /\ streams[q.index].children \subseteq streams'[q.index].children
      BY <1>4, <3>3
    <3>. QED
      BY <1>4, <1>6, <2>2, <3>1, <3>2, <3>3, <3>4 DEF IsLive
  <2>. QED
    BY <1>3, <2>1, <2>2
<1>11. ChildrenLive'
  <2>. SUFFICES ASSUME NEW j \in DOMAIN streams', NEW c \in streams'[j].children
                PROVE  IsLive(c)' /\ streams'[c.index].parent = streams'[j].id
    BY DEF ChildrenLive
  <2>1. j \in DOMAIN streams
    BY <1>3
  <2>2. CASE c \in streams[j].children
    <3>1. IsLive(c) /\ streams[c.index].parent = streams[j].id
      BY <2>1, <2>2 DEF Arena, Forest, ChildrenLive
    <3>2. c \in StreamIds
      BY <2>1, <2>2 DEF TypeOK, StreamsType, Streams
    <3>. QED
      BY <1>4, <1>6, <2>1, <3>1, <3>2
  <2>3. CASE c \notin streams[j].children
    <3>0. streams'[j].children = IF linked /\ j = par.index THEN streams[j].children \cup {id}
                                                            ELSE streams[j].children
      BY <1>4, <2>1
    <3>1. c = id /\ linked /\ j = par.index
      BY <2>3, <3>0
    <3>. QED
      BY <1>3, <1>4, <1>6, <1>8, <2>1, <3>1 DEF f
  <2>. QED
    BY <2>2, <2>3
<1>12. RootsExact'
  <2>1. \A r \in roots : IsLive(r) /\ r \in StreamIds /\ r.index # f
    BY <1>6 DEF Arena, Forest, RootsExact, TypeOK, StreamsType
  <2>2. \A r \in roots' : IsLive(r)'
    BY <1>3, <1>6, <2>1
  <2>3. \A j \in DOMAIN streams : streams[j].id # id
    BY <1>0, <1>2, LiveFacts DEF Arena, Forest, f
  <2>4. \A j \in DOMAIN streams : streams'[j].id \in roots' <=> streams'[j].parent = NoId
    BY <1>3, <1>4, <2>3, ZenonT(40) DEF Arena, Forest, RootsExact
  <2>5. id \in roots' <=> par = NoId
    BY <1>3, <1>8, <1>9, <2>1 DEF f
  <2>. QED
    BY <1>3, <2>2, <2>4, <2>5 DEF RootsExact
<1>13. FreeSlotsExact'
  <2>1. CASE free = <<>>
    BY <1>1, <1>3, <1>5, <2>1 DEF Arena, FreeSlotsExact
  <2>2. CASE free # <<>>
    <3>1. /\ Len(free) \in Nat /\ Len(free) > 0 /\ f = free[Len(free)]
          /\ generation' = generation
          /\ Len(free') = Len(free) - 1
          /\ \A k \in 1..Len(free') : k \in 1..Len(free) /\ k # Len(free) /\ free'[k] = free[k]
      <4>1. Len(free) \in Nat /\ Len(free) > 0 /\ f = free[Len(free)]
        BY <1>0, <1>1, <2>2 DEF FreshIndex
      <4>2. free' = SubSeq(free, 1, Len(free) - 1) /\ generation' = generation
        BY <1>3, <2>2
      <4>3. \A k \in 1..(Len(free) - 1) : free[k] \in 1..Len(generation)
        BY <1>1, <4>1, SMTT(30)
      <4>4. /\ Len(free') = IF 1 <= Len(free) - 1 THEN Len(free) - 1 - 1 + 1 ELSE 0
            /\ \A k \in 1..(Len(free) - 1 - 1 + 1) : free'[k] = free[1 + k - 1]
        <5>. Len(free) - 1 \in Int /\ 1 \in Int
          BY <4>1
        <5>. QED
          BY <4>2, <4>3, SubSeqProperties
      <4>5. Len(free') = Len(free) - 1
        <5>1. \A n \in Nat : n > 0 => (IF 1 <= n - 1 THEN n - 1 - 1 + 1 ELSE 0) = n - 1
          OBVIOUS
        <5>. QED
          BY <4>1, <4>4, <5>1
      <4>6. \A k \in 1..(Len(free) - 1) : free'[k] = free[k]
        <5>1. 1..(Len(free) - 1 - 1 + 1) = 1..(Len(free) - 1)
          BY <4>1
        <5>2. \A k \in 1..(Len(free) - 1) : 1 + k - 1 = k
          BY <4>1
        <5>. QED
          BY <4>4, <5>1, <5>2
      <4>7. \A k \in 1..(Len(free) - 1) : k \in 1..Len(free) /\ k # Len(free)
        BY <4>1
      <4>. QED
        BY <4>1, <4>2, <4>5, <4>6, <4>7
    <3>2. \A k \in 1..Len(free) : k \in 1..Len(free') \/ k = Len(free)
      BY <3>1
    <3>3. \A k \in 1..Len(free') : free'[k] \in (1..Len(generation')) \ DOMAIN streams'
      BY <1>3, <3>1, SMTT(30) DEF Arena, FreeSlotsExact
    <3>4. \A j, k \in 1..Len(free') : free'[j] = free'[k] => j = k
      BY <3>1 DEF Arena, FreeSlotsExact
    <3>5. \A i \in (1..Len(generation')) \ DOMAIN streams' :
            \E k \in 1..Len(free') : free'[k] = i
      BY <1>3, <3>1, <3>2, SMTT(30) DEF Arena, FreeSlotsExact
    <3>. QED
      BY <3>3, <3>4, <3>5 DEF FreeSlotsExact
  <2>. QED
    BY <2>1, <2>2
<1>14. SeqBelow'
  <2>1. \A j \in DOMAIN streams : streams[j].seq \in Nat
    BY DEF TypeOK, StreamsType, Streams
  <2>. QED
    <3>1. s.seq < nextSeq'
      BY <1>1, <1>3
    <3>2. \A j \in DOMAIN streams : streams'[j].seq < nextSeq'
      <4>1. \A j \in DOMAIN streams : streams'[j].seq = streams[j].seq
        BY <1>4
      <4>2. nextSeq' = nextSeq + 1
        BY <1>3
      <4>3. \A j \in DOMAIN streams : streams[j].seq < nextSeq
        BY DEF Arena, SeqBelow
      <4>. QED
        BY <1>1, <2>1, <4>1, <4>2, <4>3
    <3>. QED
      BY <1>3, <3>1, <3>2 DEF SeqBelow
<1>. QED
  BY <1>0, <1>2, <1>3, <1>4, <1>6, <1>7, <1>10, <1>11, <1>12, <1>13, <1>14 DEF Arena, Forest, f

\* What evicting the leaf id does to the records, the slots and the LRU heap.
LEMMA EvictFacts ==
  ASSUME TypeOK, Arena, NEW id \in StreamIds, IsLive(id), IsLeaf(streams[id.index]),
         NEW reason, NEW exp, NEW cand, IsABag(cand), Evict(id, reason, exp, cand)
  PROVE  /\ DOMAIN streams' = DOMAIN streams \ {id.index}
         /\ \A j \in DOMAIN streams' : /\ streams'[j].id = streams[j].id
                                       /\ streams'[j].parent = streams[j].parent
                                       /\ streams'[j].seq = streams[j].seq
                                       /\ streams'[j].children = streams[j].children \ {id}
         /\ \A x \in StreamIds : IsLive(x)' <=> IsLive(x) /\ x.index # id.index
         /\ BagToSet(cand) \subseteq BagToSet(lru')
         /\ \A j \in DOMAIN streams' : id \in streams[j].children =>
              \E e \in BagToSet(lru') : e.id = streams[j].id
<1>. DEFINE s == streams[id.index]
            up == [streams[s.parent.index] EXCEPT !.children = @ \ {id}]
            linked == s.parent # NoId /\ IsLive(s.parent)
<1>1. /\ id.index \in DOMAIN streams /\ s \in Streams /\ s.id = id
      /\ s.parent \in StreamIds
  BY LiveFacts DEF Arena, Forest, Streams
<1>2. /\ generation' = [generation EXCEPT ![id.index] = (@ + 1) % GenerationCount]
      /\ DOMAIN streams' = DOMAIN streams \ {id.index}
      /\ \A j \in DOMAIN streams' :
           streams'[j] = IF linked /\ j = s.parent.index THEN up ELSE streams[j]
      /\ lru' = IF linked THEN RearmLru(cand, up) ELSE cand
  BY DEF Evict
<1>3. linked => /\ streams[s.parent.index] \in Streams
                /\ streams[s.parent.index].id = s.parent
                /\ s.parent.index \in DOMAIN streams
  BY <1>1, LiveFacts DEF Arena, Forest
<1>4. linked => /\ up.id = streams[s.parent.index].id
                /\ up.parent = streams[s.parent.index].parent
                /\ up.seq = streams[s.parent.index].seq
                /\ up.children = streams[s.parent.index].children \ {id}
  BY <1>3 DEF Streams
<1>5. \A j \in DOMAIN streams : id \in streams[j].children => linked /\ j = s.parent.index
  <2>. SUFFICES ASSUME NEW j \in DOMAIN streams, id \in streams[j].children
                PROVE  linked /\ j = s.parent.index
    OBVIOUS
  <2>1. s.parent = streams[j].id
    BY DEF Arena, Forest, ChildrenLive
  <2>2. IsLive(streams[j].id) /\ streams[j].id.index = j /\ ~IsLive(NoId)
    BY LiveFacts DEF Arena, Forest
  <2>. QED
    BY <2>1, <2>2
<1>. HIDE DEF s, up, linked
<1>6. \A j \in DOMAIN streams' : /\ streams'[j].id = streams[j].id
                                 /\ streams'[j].parent = streams[j].parent
                                 /\ streams'[j].seq = streams[j].seq
                                 /\ streams'[j].children = streams[j].children \ {id}
  BY <1>2, <1>4, <1>5
<1>7. \A x \in StreamIds : IsLive(x)' <=> IsLive(x) /\ x.index # id.index
  BY <1>2 DEF IsLive
<1>8. BagToSet(cand) \subseteq BagToSet(lru')
  BY <1>2, PushFacts DEF RearmLru
<1>9. \A j \in DOMAIN streams' : id \in streams[j].children =>
        \E e \in BagToSet(lru') : e.id = streams[j].id
  <2>. SUFFICES ASSUME NEW j \in DOMAIN streams', id \in streams[j].children
                PROVE  \E e \in BagToSet(lru') : e.id = streams[j].id
    OBVIOUS
  <2>1. linked /\ j = s.parent.index
    BY <1>2, <1>5
  <2>2. LruEntry(up) \in BagToSet(lru')
    BY <1>2, <2>1, PushFacts DEF RearmLru
  <2>3. LruEntry(up).id = streams[j].id
    BY <1>4, <2>1 DEF LruEntry
  <2>. QED
    BY <2>2, <2>3
<1>. QED
  BY <1>2, <1>6, <1>7, <1>8, <1>9

\* Evicting a leaf keeps the arena.
LEMMA EvictArena ==
  ASSUME TypeOK, Arena, NEW id \in StreamIds, IsLive(id), IsLeaf(streams[id.index]),
         NEW reason, NEW exp, NEW cand, IsABag(cand), Evict(id, reason, exp, cand)
  PROVE  Arena'
<1>. DEFINE k == id.index
<1>1. /\ DOMAIN streams' = DOMAIN streams \ {k}
      /\ \A j \in DOMAIN streams' : /\ streams'[j].id = streams[j].id
                                    /\ streams'[j].parent = streams[j].parent
                                    /\ streams'[j].seq = streams[j].seq
                                    /\ streams'[j].children = streams[j].children \ {id}
      /\ \A x \in StreamIds : IsLive(x)' <=> IsLive(x) /\ x.index # k
  BY EvictFacts
<1>2. /\ generation' = [generation EXCEPT ![k] = (@ + 1) % GenerationCount]
      /\ free' = Append(free, k)
      /\ roots' = IF streams[k].parent = NoId THEN roots \ {id} ELSE roots
      /\ nextSeq' = nextSeq
  BY DEF Evict
<1>3. /\ k \in DOMAIN streams /\ streams[k].id = id
      /\ \A x \in StreamIds : IsLive(x) => /\ x.index \in DOMAIN streams
                                           /\ streams[x.index].id = x
      /\ \A j \in DOMAIN streams : streams[j].id.index = j /\ IsLive(streams[j].id)
      /\ ~IsLive(NoId)
  BY LiveFacts DEF Arena, Forest
<1>4. \A j \in DOMAIN streams : /\ streams[j].id \in StreamIds /\ streams[j].parent \in StreamIds
                                /\ streams[j].children \subseteq StreamIds
  BY DEF TypeOK, StreamsType, Streams
<1>5. /\ generation \in Seq(Nat) /\ free \in Seq(1..Len(generation))
      /\ DOMAIN streams \subseteq 1..Len(generation)
      /\ roots \subseteq StreamIds
  BY DEF TypeOK, SlotsType, StreamsType
<1>. HIDE DEF k
<1>6. Len(generation') = Len(generation) /\ \A j \in DOMAIN streams' : generation'[j] = generation[j]
  BY <1>1, <1>2, <1>5
<1>7. HandlesCurrent'
  BY <1>1, <1>6 DEF Arena, Forest, HandlesCurrent
<1>8. ParentsLive'
  <2>. SUFFICES ASSUME NEW j \in DOMAIN streams', streams'[j].parent # NoId
                PROVE  /\ IsLive(streams[j].parent)'
                       /\ streams'[j].id \in streams'[streams'[j].parent.index].children
                       /\ streams'[streams'[j].parent.index].seq < streams'[j].seq
    BY DEF ParentsLive
  <2>. DEFINE q == streams[j].parent
  <2>1. /\ j \in DOMAIN streams /\ j # k /\ streams'[j].parent = q
        /\ q # NoId /\ q \in StreamIds
    BY <1>1, <1>4
  <2>2. /\ IsLive(q) /\ streams[j].id \in streams[q.index].children
        /\ streams[q.index].seq < streams[j].seq
    BY <2>1 DEF Arena, Forest, ParentsLive
  <2>3. q.index # k
    BY <2>2 DEF IsLeaf, k
  <2>4. q.index \in DOMAIN streams'
    BY <1>1, <1>3, <2>1, <2>2, <2>3
  <2>5. streams[j].id # id
    BY <1>3, <2>1
  <2>6. IsLive(q)'
    BY <1>1, <2>1, <2>2, <2>3
  <2>7. /\ streams'[j].id \in streams'[q.index].children
        /\ streams'[q.index].seq < streams'[j].seq
    BY <1>1, <2>2, <2>4, <2>5
  <2>. QED
    BY <2>1, <2>6, <2>7 DEF IsLive
<1>9. ChildrenLive'
  <2>. SUFFICES ASSUME NEW j \in DOMAIN streams', NEW c \in streams'[j].children
                PROVE  IsLive(c)' /\ streams'[c.index].parent = streams'[j].id
    BY DEF ChildrenLive
  <2>1. j \in DOMAIN streams /\ c \in streams[j].children /\ c # id /\ c \in StreamIds
    BY <1>1, <1>4
  <2>2. IsLive(c) /\ streams[c.index].parent = streams[j].id
    BY <2>1 DEF Arena, Forest, ChildrenLive
  <2>3. c.index # k
    BY <1>3, <2>1, <2>2
  <2>4. c.index \in DOMAIN streams'
    BY <1>1, <1>3, <2>1, <2>2, <2>3
  <2>. QED
    BY <1>1, <2>1, <2>2, <2>3, <2>4
<1>10. RootsExact'
  <2>1. \A r \in roots : r \in StreamIds /\ IsLive(r)
    BY <1>5 DEF Arena, Forest, RootsExact
  <2>2. id \in roots <=> streams[k].parent = NoId
    BY <1>3 DEF Arena, Forest, RootsExact
  <2>3. roots' = roots \ {id}
    BY <1>2, <2>2
  <2>4. \A r \in roots' : IsLive(r)'
    BY <1>1, <1>3, <2>1, <2>3
  <2>5. \A j \in DOMAIN streams' : streams[j].id # id
    BY <1>1, <1>3
  <2>6. \A j \in DOMAIN streams' : streams'[j].id \in roots' <=> streams'[j].parent = NoId
    BY <1>1, <2>3, <2>5 DEF Arena, Forest, RootsExact
  <2>. QED
    BY <2>4, <2>6 DEF RootsExact
<1>11. FreeSlotsExact'
  <2>1. /\ Len(free) \in Nat /\ Len(free') = Len(free) + 1 /\ free'[Len(free) + 1] = k
        /\ \A j \in 1..Len(free) : free'[j] = free[j]
    BY <1>2, <1>3, <1>5
  <2>2. \A j \in 1..Len(free') : j \in 1..Len(free) \/ j = Len(free) + 1
    BY <2>1
  <2>3. \A j \in 1..Len(free) : j \in 1..Len(free') /\ j # Len(free) + 1
    BY <2>1
  <2>4. \A j \in 1..Len(free) : free[j] \in (1..Len(generation)) \ DOMAIN streams
    BY DEF Arena, FreeSlotsExact
  <2>5. \A j \in 1..Len(free') : free'[j] \in (1..Len(generation')) \ DOMAIN streams'
    BY <1>1, <1>3, <1>5, <1>6, <2>1, <2>2, <2>4
  <2>6. \A i, j \in 1..Len(free') : free'[i] = free'[j] => i = j
    BY <1>3, <2>1, <2>2, <2>4 DEF Arena, FreeSlotsExact
  <2>7. \A i \in (1..Len(generation')) \ DOMAIN streams' : \E j \in 1..Len(free') : free'[j] = i
    <3>. SUFFICES ASSUME NEW i \in (1..Len(generation')) \ DOMAIN streams'
                  PROVE  \E j \in 1..Len(free') : free'[j] = i
      OBVIOUS
    <3>1. CASE i = k
      BY <2>1, <3>1
    <3>2. CASE i # k
      <4>1. i \in (1..Len(generation)) \ DOMAIN streams
        BY <1>1, <1>6, <3>2
      <4>2. PICK j \in 1..Len(free) : free[j] = i
        BY <4>1 DEF Arena, FreeSlotsExact
      <4>. QED
        BY <2>1, <2>3, <4>2
    <3>. QED
      BY <3>1, <3>2
  <2>. QED
    BY <2>5, <2>6, <2>7 DEF FreeSlotsExact
<1>12. SeqBelow'
  BY <1>1, <1>2 DEF Arena, SeqBelow
<1>. QED
  BY <1>7, <1>8, <1>9, <1>10, <1>11, <1>12 DEF Arena, Forest

\* A step that leaves the arena alone and only adds candidates keeps the shape.
LEMMA SameShape ==
  ASSUME Shape, UNCHANGED <<generation, streams, free, roots, nextSeq, liveCount>>,
         \A i \in DOMAIN streams : IsLeaf(streams[i]) /\
           (\E e \in BagToSet(lru) : e.id = streams[i].id) =>
           (\E e \in BagToSet(lru') : e.id = streams[i].id)
  PROVE  Shape' /\ \A id : IsLive(id)' <=> IsLive(id)
<1>1. Arena'
  BY DEF Shape, Arena, Forest, HandlesCurrent, ParentsLive, ChildrenLive, RootsExact,
       FreeSlotsExact, SeqBelow, IsLive
<1>2. LeavesAreCandidates' /\ LiveCounted'
  BY DEF Shape, LeavesAreCandidates, LiveCounted, IsLeaf
<1>. QED
  BY <1>1, <1>2 DEF Shape, IsLive

\* So does a step that updates one record's data fields.
LEMMA TouchShape ==
  ASSUME TypeOK, Shape, NEW i \in DOMAIN streams, NEW new,
         streams' = [streams EXCEPT ![i] = new],
         new.id = streams[i].id, new.parent = streams[i].parent,
         new.children = streams[i].children, new.seq = streams[i].seq,
         UNCHANGED <<generation, free, roots, nextSeq, lru, liveCount>>
  PROVE  Shape' /\ \A id : IsLive(id)' <=> IsLive(id)
<1>1. /\ Arena'
      /\ DOMAIN streams' = DOMAIN streams
      /\ \A id : IsLive(id)' <=> IsLive(id)
      /\ \A j \in DOMAIN streams : /\ streams'[j].id = streams[j].id
                                   /\ streams'[j].children = streams[j].children
  <2>. Arena
    BY DEF Shape
  <2>. QED
    BY TouchArena
<1>2. LeavesAreCandidates' /\ LiveCounted'
  BY <1>1 DEF Shape, LeavesAreCandidates, LiveCounted, IsLeaf
<1>. QED
  BY <1>1, <1>2 DEF Shape

\* The creation of a stream keeps the shape: the new leaf is a candidate.
LEMMA CreateShape ==
  ASSUME TypeOK, Shape, NEW par, par = parent, par = NoId \/ IsLive(par),
         NEW fresh \in Streams, NEW s \in Streams, NEW lay, NEW id, id = FreshId,
         fresh.id = id, s.id = id, s.parent = par, s.children = {}, s.seq = nextSeq,
         Create(fresh, s, lay)
  PROVE  Shape' /\ IsLive(id)'
<1>0. Arena
  BY DEF Shape
<1>1. /\ Arena'
      /\ id \in StreamIds /\ id.index \notin DOMAIN streams
      /\ DOMAIN streams' = DOMAIN streams \cup {id.index}
      /\ streams'[id.index] = s
      /\ IsLive(id)'
      /\ \A j \in DOMAIN streams : /\ streams'[j].id = streams[j].id
                                   /\ streams[j].children \subseteq streams'[j].children
  BY <1>0, CreateArena
<1>2. liveCount' = liveCount + 1 /\ lru' = IF Live THEN Push(lru, LruEntry(fresh)) ELSE lru
  BY DEF Create
<1>3. LiveCounted'
  BY <1>1, <1>2, LiveFinite, FS_AddElement DEF Shape, LiveCounted
<1>4. LeavesAreCandidates'
  <2>. SUFFICES ASSUME Live, NEW i \in DOMAIN streams', IsLeaf(streams'[i])
                PROVE  \E e \in BagToSet(lru') : e.id = streams'[i].id
    BY DEF LeavesAreCandidates
  <2>1. BagToSet(lru') = BagToSet(lru) \cup {LruEntry(fresh)}
    BY <1>2, PushFacts DEF TypeOK, HeapsType, IsLruHeap
  <2>2. CASE i = id.index
    <3>1. LruEntry(fresh).id = id
      BY DEF LruEntry
    <3>2. streams'[i].id = id
      BY <1>1, <2>2
    <3>. QED
      BY <2>1, <3>1, <3>2
  <2>3. CASE i \in DOMAIN streams
    BY <1>1, <2>1, <2>3 DEF Shape, LeavesAreCandidates, IsLeaf
  <2>. QED
    BY <1>1, <2>2, <2>3
<1>. QED
  BY <1>1, <1>3, <1>4 DEF Shape

\* The eviction of a leaf keeps the shape: a parent that becomes a leaf is a
\* candidate again.
LEMMA EvictShape ==
  ASSUME TypeOK, Shape, NEW id \in StreamIds, IsLive(id), IsLeaf(streams[id.index]),
         NEW reason, NEW exp, NEW cand, IsABag(cand),
         \A i \in DOMAIN streams \ {id.index} :
           (\E e \in BagToSet(lru) : e.id = streams[i].id) =>
           (\E e \in BagToSet(cand) : e.id = streams[i].id),
         Evict(id, reason, exp, cand)
  PROVE  Shape'
<1>0. Arena
  BY DEF Shape
<1>1. Arena'
  BY <1>0, EvictArena
<1>2. /\ DOMAIN streams' = DOMAIN streams \ {id.index}
      /\ \A j \in DOMAIN streams' : /\ streams'[j].id = streams[j].id
                                    /\ streams'[j].children = streams[j].children \ {id}
      /\ BagToSet(cand) \subseteq BagToSet(lru')
      /\ \A j \in DOMAIN streams' : id \in streams[j].children =>
           \E e \in BagToSet(lru') : e.id = streams[j].id
  BY <1>0, EvictFacts
<1>3. id.index \in DOMAIN streams /\ liveCount' = liveCount - 1
  BY DEF IsLive, Evict
<1>4. LiveCounted'
  BY <1>2, <1>3, LiveFinite, FS_RemoveElement DEF Shape, LiveCounted
<1>5. LeavesAreCandidates'
  <2>. SUFFICES ASSUME Live, NEW i \in DOMAIN streams', IsLeaf(streams'[i])
                PROVE  \E e \in BagToSet(lru') : e.id = streams'[i].id
    BY DEF LeavesAreCandidates
  <2>1. CASE id \in streams[i].children
    BY <1>2, <2>1
  <2>2. CASE id \notin streams[i].children
    <3>1. i \in DOMAIN streams \ {id.index} /\ IsLeaf(streams[i])
      BY <1>2, <2>2 DEF IsLeaf
    <3>2. \E e \in BagToSet(cand) : e.id = streams[i].id
      BY <3>1 DEF Shape, LeavesAreCandidates
    <3>. QED
      BY <1>2, <3>2
  <2>. QED
    BY <2>1, <2>2
<1>. QED
  BY <1>1, <1>4, <1>5 DEF Shape

----------------------------------------------------------------------------
(* The steps of ingest.                                                    *)

\* sweep() keeps the shape and the cursor.
LEMMA SweepShape ==
  ASSUME TypeOK, Shape, Sweep
  PROVE  Shape' /\ parent' = parent
<1>. USE DEF counts, arena, heaps
<1>1. CASE SweepDrop \/ SweepRepush
  <2>1. UNCHANGED <<generation, streams, free, roots, nextSeq, liveCount, lru, parent>>
    BY <1>1 DEF SweepDrop, SweepRepush
  <2>. QED
    BY <2>1, SameShape
<1>2. CASE SweepEvict
  <2>. DEFINE id == ExpiryTop.id
              s == streams[id.index]
              exp == Pop(expiry, ExpiryTop)
  <2>1. /\ Due /\ IsLive(id) /\ IsLeaf(s)
        /\ Evict(id, CloseReason(s), exp, lru) /\ parent' = parent
    BY <1>2 DEF SweepEvict
  <2>2. id \in StreamIds /\ IsABag(lru)
    BY <2>1, ExpiryTopFacts DEF Due, TypeOK, HeapsType, IsExpiryHeap, IsLruHeap
  <2>. HIDE DEF id, exp
  <2>. QED
    BY <2>1, <2>2, EvictShape
<1>3. CASE SweepDone
  <2>1. /\ UNCHANGED <<generation, streams, free, roots, nextSeq, liveCount, parent>>
        /\ lru' = CompactedLru
    BY <1>3 DEF SweepDone
  <2>2. \A i \in DOMAIN streams : IsLeaf(streams[i]) /\
          (\E e \in BagToSet(lru) : e.id = streams[i].id) =>
          (\E e \in BagToSet(CompactedLru) : e.id = streams[i].id)
    <3>. DEFINE L == {LruEntry(streams[i]) : i \in {j \in DOMAIN streams : IsLeaf(streams[j])}}
    <3>1. BagToSet(SetToBag(L)) = L
      BY DEF BagToSet, SetToBag
    <3>2. \A i \in DOMAIN streams : IsLeaf(streams[i]) =>
            LruEntry(streams[i]) \in L /\ LruEntry(streams[i]).id = streams[i].id
      BY DEF LruEntry
    <3>3. CompactedLru = lru \/ CompactedLru = SetToBag(L)
      BY DEF CompactedLru
    <3>. HIDE DEF L
    <3>. QED
      BY <3>1, <3>2, <3>3
  <2>. QED
    BY <2>1, <2>2, SameShape
<1>. QED
  BY <1>1, <1>2, <1>3 DEF Sweep

\* Folding a layer in keeps the shape and leaves the cursor on a live stream.
LEMMA LayerShape ==
  ASSUME TypeOK, Shape, CursorLive, Layer
  PROVE  Shape' /\ CursorLive'
<1>. DEFINE lay == Head(todo)
<1>. USE DEF counts, arena, heaps
<1>0. /\ pc = "layers" /\ pc' = "layers" /\ (parent = NoId \/ IsLive(parent))
  BY DEF Layer, SkipLayer, KeyErrorLayer, HitLayer, CreateLayer, FoldAny, FoldLayer, FoldNewNode,
       CursorLive
<1>1. CASE SkipLayer \/ KeyErrorLayer
  <2>1. UNCHANGED <<generation, streams, free, roots, nextSeq, liveCount, lru, parent>>
    BY <1>1 DEF SkipLayer, KeyErrorLayer
  <2>. QED
    BY <1>0, <2>1, SameShape DEF CursorLive, IsLive
<1>2. CASE HitLayer
  <2>. DEFINE x == CHOOSE y \in Found(lay.protocol, FlowKey(lay)) : TRUE
              s == streams[x.index]
              new == Touched(s, lay, Direction(lay))
  <2>1. /\ todo # <<>> /\ Folds(lay) /\ Found(lay.protocol, FlowKey(lay)) # {}
        /\ streams' = [streams EXCEPT ![x.index] = new]
        /\ parent' = x
        /\ UNCHANGED <<generation, free, roots, nextSeq, lru, liveCount>>
    BY <1>2 DEF HitLayer
  <2>2. x.index \in DOMAIN streams /\ s \in Streams /\ IsLive(x)
    BY <2>1, FoundTypes
  <2>3. /\ new.id = s.id /\ new.parent = s.parent
        /\ new.children = s.children /\ new.seq = s.seq
    BY <2>1, <2>2, HeadTypes, KeyTypes, TouchedType DEF Folds
  <2>. HIDE DEF x, new
  <2>4. PICK id : id = x
    OBVIOUS
  <2>5. Shape' /\ IsLive(id)'
    <3>1. Shape' /\ \A y : IsLive(y)' <=> IsLive(y)
      BY <2>1, <2>2, <2>3, TouchShape
    <3>. QED
      BY <2>2, <2>4, <3>1
  <2>. QED
    BY <1>0, <2>1, <2>4, <2>5 DEF CursorLive, IsLive
<1>3. CASE CreateLayer
  <2>. DEFINE fresh == NewStream(lay.protocol, FlowKey(lay), FALSE)
              new == Touched(fresh, lay, Direction(lay))
  <2>1. /\ todo # <<>> /\ Folds(lay) /\ Create(fresh, new, lay) /\ parent' = fresh.id
    BY <1>3 DEF CreateLayer
  <2>2. /\ lay \in Layers /\ lay.protocol \in Protocols
        /\ Direction(lay) \in Directions /\ FlowKey(lay) \in Keys
    BY <2>1, HeadTypes, KeyTypes DEF Folds
  <2>3. /\ fresh \in Streams /\ fresh.id = FreshId /\ fresh.parent = parent
        /\ fresh.children = {} /\ fresh.seq = nextSeq
    BY <2>2, NewStreamType DEF NewStream
  <2>4. /\ new \in Streams /\ new.id = FreshId /\ new.parent = parent
        /\ new.children = {} /\ new.seq = nextSeq
    BY <2>2, <2>3, TouchedType
  <2>. HIDE DEF fresh, new, lay
  <2>5. PICK id : id = FreshId
    OBVIOUS
  <2>6. PICK par : par = parent
    OBVIOUS
  <2>7. par = NoId \/ IsLive(par)
    BY <1>0, <2>6
  <2>8. Shape' /\ IsLive(id)'
    BY <2>1, <2>3, <2>4, <2>5, <2>6, <2>7, CreateShape
  <2>. QED
    BY <1>0, <2>1, <2>3, <2>5, <2>8 DEF CursorLive, IsLive
<1>4. CASE todo # <<>> /\ FoldAny
  <2>1. PICK c \in Folding(lay) : FoldLayer(c) \/ FoldNewNode(c)
    BY <1>4 DEF FoldAny
  <2>. DEFINE k == GroupKey(parent, lay.protocol, c.anchor)
              g == condense[k]
  <2>2. todo # <<>> /\ Folds(lay)
    BY <2>1 DEF FoldLayer, FoldNewNode
  <2>3. /\ lay \in Layers /\ lay.protocol \in Protocols /\ c.dir \in Directions
        /\ AnchorKey(c.anchor) \in Keys /\ k \in DOMAIN condense /\ c.varying \in Nat
    BY <2>2, HeadTypes, KeyTypes, FoldingTypes DEF Folds
  <2>4. CASE FoldLayer(c)
    <3>. DEFINE x == g.node
                s == streams[x.index]
                mid == Joined(s, g, c)
                new == Touched(mid, lay, c.dir)
    <3>1. /\ IsLive(x) /\ parent' = x
          /\ streams' = [streams EXCEPT ![x.index] = new]
          /\ UNCHANGED <<generation, free, roots, nextSeq, lru, liveCount>>
      BY <2>4 DEF FoldLayer
    <3>2. x.index \in DOMAIN streams /\ s \in Streams
      BY <3>1 DEF IsLive, TypeOK, StreamsType
    <3>3. /\ mid \in Streams /\ mid.id = s.id /\ mid.parent = s.parent
          /\ mid.children = s.children /\ mid.seq = s.seq
      BY <2>3, <3>2, JoinedType
    <3>. HIDE DEF mid
    <3>4. /\ new.id = s.id /\ new.parent = s.parent
          /\ new.children = s.children /\ new.seq = s.seq
      BY <2>3, <3>3, TouchedType
    <3>. HIDE DEF x, new
    <3>5. PICK id : id = x
      OBVIOUS
    <3>6. Shape' /\ IsLive(id)'
      <4>1. Shape' /\ \A y : IsLive(y)' <=> IsLive(y)
        BY <3>1, <3>2, <3>4, TouchShape
      <4>. QED
        BY <3>1, <3>5, <4>1
    <3>. QED
      BY <1>0, <3>1, <3>5, <3>6 DEF CursorLive, IsLive
  <2>5. CASE FoldNewNode(c)
    <3>. DEFINE fresh == NewStream(lay.protocol, AnchorKey(c.anchor), TRUE)
                mid == Joined(fresh, g, c)
                new == Touched(mid, lay, c.dir)
    <3>1. Create(fresh, new, lay) /\ parent' = fresh.id
      BY <2>5 DEF FoldNewNode
    <3>2. /\ fresh \in Streams /\ fresh.id = FreshId /\ fresh.parent = parent
          /\ fresh.children = {} /\ fresh.seq = nextSeq
      BY <2>3, NewStreamType DEF NewStream
    <3>. HIDE DEF fresh
    <3>3. /\ mid \in Streams /\ mid.id = FreshId /\ mid.parent = parent
          /\ mid.children = {} /\ mid.seq = nextSeq
      BY <2>3, <3>2, JoinedType
    <3>. HIDE DEF mid
    <3>4. /\ new \in Streams /\ new.id = FreshId /\ new.parent = parent
          /\ new.children = {} /\ new.seq = nextSeq
      BY <2>3, <3>3, TouchedType
    <3>. HIDE DEF new, lay
    <3>5. PICK id : id = FreshId
      OBVIOUS
    <3>6. PICK par : par = parent
      OBVIOUS
    <3>7. par = NoId \/ IsLive(par)
      BY <1>0, <3>6
    <3>8. Shape' /\ IsLive(id)'
      BY <3>1, <3>2, <3>4, <3>5, <3>6, <3>7, CreateShape
    <3>. QED
      BY <1>0, <3>1, <3>2, <3>5, <3>8 DEF CursorLive, IsLive
  <2>. QED
    BY <2>1, <2>4, <2>5
<1>. QED
  BY <1>1, <1>2, <1>3, <1>4 DEF Layer

\* The unparsed payload is added to the cursor's stream.
LEMMA DoneShape ==
  ASSUME TypeOK, Shape, CursorLive, LayersDone
  PROVE  Shape'
<1>. USE DEF counts, arena, heaps
<1>1. /\ streams' = IF IsLive(parent)
                      THEN [streams EXCEPT ![parent.index] = WithOpaque(@)] ELSE streams
      /\ UNCHANGED <<generation, free, roots, nextSeq, liveCount, lru>>
  BY DEF LayersDone
<1>2. CASE ~IsLive(parent)
  <2>. streams' = streams
    BY <1>1, <1>2
  <2>. QED
    BY <1>1, SameShape
<1>3. CASE IsLive(parent)
  <2>. DEFINE i == parent.index
              new == WithOpaque(streams[i])
  <2>1. i \in DOMAIN streams /\ streams[i] \in Streams
    BY <1>3 DEF IsLive, TypeOK, StreamsType
  <2>2. /\ new.id = streams[i].id /\ new.parent = streams[i].parent
        /\ new.children = streams[i].children /\ new.seq = streams[i].seq
    BY <2>1 DEF WithOpaque, Streams
  <2>3. streams' = [streams EXCEPT ![i] = new]
    BY <1>1, <1>3
  <2>. HIDE DEF i, new
  <2>. QED
    BY <1>1, <2>1, <2>2, <2>3, TouchShape
<1>. QED
  BY <1>2, <1>3

\* enforce_max_streams() keeps the shape: an entry it discards is dead, of a
\* stream with children, or replaced by a current one.
LEMMA EnforceShape ==
  ASSUME TypeOK, Shape, Enforce
  PROVE  Shape'
<1>. USE DEF counts, arena, heaps
<1>. DEFINE top == LruTop
            id == top.id
            s == streams[id.index]
            rest == Pop(lru, top)
<1>0. IsABag(lru) /\ IsABag(rest) /\ BagToSet(lru) \ {top} \subseteq BagToSet(rest)
  BY PopFacts DEF TypeOK, HeapsType, IsLruHeap
<1>1. \A j \in DOMAIN streams : streams[j].id # id /\
        (\E e \in BagToSet(lru) : e.id = streams[j].id) =>
        (\E e \in BagToSet(rest) : e.id = streams[j].id)
  BY <1>0
<1>2. CASE EnforceDrop
  <2>1. /\ UNCHANGED <<generation, streams, free, roots, nextSeq, liveCount>> /\ lru' = rest
        /\ IsLive(id) => ~IsLeaf(s)
    BY <1>2 DEF EnforceDrop
  <2>2. \A j \in DOMAIN streams : IsLeaf(streams[j]) => streams[j].id # id
    BY <2>1, LiveFacts DEF Shape, Arena, Forest
  <2>. HIDE DEF id, rest
  <2>. QED
    BY <1>1, <2>1, <2>2, SameShape
<1>3. CASE EnforceRepush
  <2>1. /\ UNCHANGED <<generation, streams, free, roots, nextSeq, liveCount>>
        /\ lru' = Push(rest, LruEntry(s)) /\ OverCap /\ IsLive(id)
    BY <1>3 DEF EnforceRepush
  <2>2. id \in StreamIds
    BY <2>1, LruTopFacts DEF OverCap, TypeOK, HeapsType, IsLruHeap
  <2>3. s.id = id
    BY <2>1, <2>2, LiveFacts DEF Shape, Arena, Forest
  <2>4. BagToSet(lru') = BagToSet(rest) \cup {LruEntry(s)} /\ LruEntry(s).id = id
    BY <1>0, <2>1, <2>3, PushFacts DEF LruEntry
  <2>. HIDE DEF id, rest
  <2>5. \A j \in DOMAIN streams : IsLeaf(streams[j]) /\
          (\E e \in BagToSet(lru) : e.id = streams[j].id) =>
          (\E e \in BagToSet(lru') : e.id = streams[j].id)
    BY <1>1, <2>4
  <2>. QED
    BY <2>1, <2>5, SameShape
<1>4. CASE EnforceEvict
  <2>1. OverCap /\ IsLive(id) /\ IsLeaf(s) /\ Evict(id, "LruEvicted", expiry, rest)
    BY <1>4 DEF EnforceEvict
  <2>2. id \in StreamIds
    BY <2>1, LruTopFacts DEF OverCap, TypeOK, HeapsType, IsLruHeap
  <2>3. \A j \in DOMAIN streams \ {id.index} : streams[j].id # id
    BY LiveFacts DEF Shape, Arena, Forest
  <2>. HIDE DEF id, rest
  <2>. QED
    BY <1>0, <1>1, <2>1, <2>2, <2>3, EvictShape
<1>5. CASE EnforceDone
  BY <1>5, SameShape DEF EnforceDone
<1>. QED
  BY <1>2, <1>3, <1>4, <1>5 DEF Enforce

\* enforce_max_streams() returns under the cap: a store with streams has a
\* leaf, a leaf has an entry, and so the heap does not run dry too early.
LEMMA CapReached ==
  ASSUME TypeOK, Shape, Live, ~OverCap
  PROVE  liveCount <= MaxStreams
<1>1. CASE lru = EmptyBag
  <2>1. BagToSet(lru) = {}
    BY <1>1 DEF BagToSet, EmptyBag, SetToBag
  <2>2. DOMAIN streams = {}
    BY <2>1, SomeLeaf DEF Shape, Arena, LeavesAreCandidates
  <2>3. liveCount = 0
    BY <2>2, FS_EmptySet DEF Shape, LiveCounted
  <2>. QED
    BY <2>3, ConfigAssumption
<1>2. CASE lru # EmptyBag
  BY <1>2, ConfigAssumption DEF OverCap, TypeOK, CountsType
<1>. QED
  BY <1>1, <1>2

----------------------------------------------------------------------------
(* finish(): the depth of a stream.                                        *)

\* The recursion of Depth, over a part of the live set.
DepthBody(d, i) == IF streams[i].parent = NoId THEN 0 ELSE 1 + d[streams[i].parent.index]
IsDepth(d, S) == d = [i \in S |-> DepthBody(d, i)]

\* The recursion that defines Depth has a solution: parents are older.
LEMMA DepthExists ==
  ASSUME TypeOK, Arena
  PROVE  \E d : IsDepth(d, DOMAIN streams)
<1>. DEFINE Older(n) == {i \in DOMAIN streams : streams[i].seq < n}
            Bad == {n \in Nat : ~ \E d : IsDepth(d, Older(n))}
<1>0. /\ nextSeq \in Nat /\ Older(nextSeq) = DOMAIN streams
      /\ \A i \in DOMAIN streams : streams[i].seq \in Nat
  BY DEF TypeOK, CountsType, StreamsType, Streams, Arena, SeqBelow
<1>1. 0 \notin Bad
  <2>1. Older(0) = {}
    BY <1>0
  <2>. DEFINE d == [i \in {} |-> 0]
  <2>2. IsDepth(d, {})
    BY DEF IsDepth
  <2>. QED
    BY <2>1, <2>2
<1>2. ASSUME NEW n \in Nat, n \notin Bad PROVE n + 1 \notin Bad
  <2>1. PICK d : IsDepth(d, Older(n))
    BY <1>2
  <2>. DEFINE e == [i \in Older(n + 1) |-> DepthBody(d, i)]
  <2>2. \A i \in Older(n) : i \in Older(n + 1) /\ e[i] = d[i]
    <3>1. \A i \in Older(n) : i \in Older(n + 1)
      BY <1>0
    <3>2. \A i \in Older(n) : d[i] = DepthBody(d, i)
      <4>. HIDE DEF Older
      <4>. QED
        BY <2>1 DEF IsDepth
    <3>. HIDE DEF Older
    <3>. QED
      BY <3>1, <3>2
  <2>3. \A i \in Older(n + 1) : DepthBody(e, i) = DepthBody(d, i)
    <3>. SUFFICES ASSUME NEW i \in Older(n + 1), streams[i].parent # NoId
                  PROVE  e[streams[i].parent.index] = d[streams[i].parent.index]
      BY DEF DepthBody
    <3>1. streams[i].parent.index \in Older(n)
      <4>. DEFINE j == streams[i].parent.index
      <4>1. j \in DOMAIN streams /\ streams[j].seq < streams[i].seq
        BY DEF Arena, Forest, ParentsLive, IsLive
      <4>. QED
        BY <1>0, <4>1
    <3>. QED
      BY <2>2, <3>1
  <2>4. IsDepth(e, Older(n + 1))
    <3>. HIDE DEF Older
    <3>. QED
      BY <2>3 DEF IsDepth
  <2>. HIDE DEF e, Older
  <2>. QED
    BY <2>4
<1>. HIDE DEF Older
<1>3. Bad = {}
  <2>. SUFFICES ASSUME Bad # {} PROVE FALSE
    OBVIOUS
  <2>1. PICK n \in Bad : \A m \in Bad : n <= m
    BY LeastNat
  <2>2. n \in Nat /\ n # 0
    BY <1>1
  <2>. HIDE DEF Bad
  <2>3. n - 1 \in Nat /\ n - 1 \notin Bad
    BY <2>1, <2>2
  <2>4. n - 1 + 1 \notin Bad
    BY <1>2, <2>3
  <2>. QED
    BY <2>1, <2>2, <2>4
<1>. QED
  BY <1>0, <1>3

\* What Depth computes: the distance to the root, which the creation number bounds.
LEMMA DepthFacts ==
  ASSUME TypeOK, Arena
  PROVE  \A i \in DOMAIN streams :
           /\ Depth[i] \in Nat /\ Depth[i] <= streams[i].seq
           /\ streams[i].parent # NoId => Depth[i] = 1 + Depth[streams[i].parent.index]
<1>1. IsDepth(Depth, DOMAIN streams)
  BY DepthExists DEF Depth, IsDepth, DepthBody
<1>2. \A i \in DOMAIN streams : Depth[i] = DepthBody(Depth, i)
  <2>. HIDE DEF Depth
  <2>. QED
    BY <1>1 DEF IsDepth
<1>. DEFINE Good(i) == Depth[i] \in Nat /\ Depth[i] <= streams[i].seq
            Bad == {streams[i].seq : i \in {j \in DOMAIN streams : ~Good(j)}}
<1>3. \A i \in DOMAIN streams : streams[i].seq \in Nat
  BY DEF TypeOK, StreamsType, Streams
<1>4. Bad = {}
  <2>. SUFFICES ASSUME Bad # {} PROVE FALSE
    OBVIOUS
  <2>1. Bad \in SUBSET Nat
    BY <1>3
  <2>2. PICK n \in Bad : \A m \in Bad : n <= m
    BY <2>1, LeastNat
  <2>3. PICK i \in DOMAIN streams : ~Good(i) /\ n = streams[i].seq
    BY <2>2
  <2>. DEFINE j == streams[i].parent.index
  <2>4. streams[i].parent # NoId
    <3>1. streams[i].parent = NoId => Depth[i] = 0
      BY <1>2 DEF DepthBody
    <3>. QED
      BY <1>3, <2>3, <3>1
  <2>5. j \in DOMAIN streams /\ streams[j].seq < streams[i].seq
    BY <2>4 DEF Arena, Forest, ParentsLive, IsLive
  <2>6. Good(j)
    <3>1. streams[j].seq \notin Bad
      <4>. HIDE DEF Bad, Good
      <4>. QED
        BY <1>3, <2>2, <2>3, <2>5
    <3>. QED
      BY <2>5, <3>1
  <2>7. Depth[i] = 1 + Depth[j]
    BY <1>2, <2>4 DEF DepthBody
  <2>. HIDE DEF Depth, Bad, j
  <2>8. Good(i)
    BY <1>3, <2>5, <2>6, <2>7
  <2>. QED
    BY <2>3, <2>8
<1>5. \A i \in DOMAIN streams : Good(i)
  BY <1>4
<1>. QED
  BY <1>2, <1>5 DEF DepthBody

----------------------------------------------------------------------------
(* finish(): its order is taken once, and followed.                        *)

\* finish() takes its order from a forest.
LEMMA FinishStarts ==
  ASSUME TypeOK, Arena, Finish
  PROVE  FinishInv'
<1>. USE DEF counts, arena, heaps
<1>. DEFINE Entry(i) == [depth |-> Depth[i], seq |-> streams[i].seq, id |-> streams[i].id]
<1>1. /\ finishing' = {Entry(i) : i \in DOMAIN streams}
      /\ UNCHANGED <<generation, streams, nextSeq>>
  BY DEF Finish
<1>2. \A i \in DOMAIN streams :
        /\ Depth[i] \in Nat /\ Depth[i] <= nextSeq
        /\ streams[i].parent # NoId => Depth[i] = 1 + Depth[streams[i].parent.index]
  <2>1. \A i \in DOMAIN streams : streams[i].seq \in Nat /\ nextSeq \in Nat /\ streams[i].seq < nextSeq
    BY DEF TypeOK, StreamsType, Streams, CountsType, Arena, SeqBelow
  <2>. HIDE DEF Depth
  <2>. QED
    BY <2>1, DepthFacts
<1>3. \A i \in DOMAIN streams : /\ streams[i].id \in StreamIds /\ IsLive(streams[i].id)
                                /\ streams[i].id.index = i /\ streams[i].id # NoId
  BY LiveFacts DEF Arena, Forest, TypeOK, StreamsType, Streams
<1>. HIDE DEF Depth
<1>4. \A i \in DOMAIN streams : /\ Entry(i).depth = Depth[i] /\ Entry(i).seq = streams[i].seq
                                /\ Entry(i).id = streams[i].id
  OBVIOUS
<1>. HIDE DEF Entry
<1>5. \A x \in finishing' :
        /\ x.depth \in Nat /\ x.depth <= nextSeq'
        /\ x.id \in StreamIds /\ IsLive(x.id)' /\ x.seq = streams'[x.id.index].seq
  BY <1>1, <1>2, <1>3, <1>4 DEF IsLive
<1>6. \A x, y \in finishing' : x.id = y.id => x = y
  BY <1>1, <1>3, <1>4
<1>7. \A i \in DOMAIN streams' : \E x \in finishing' : x.id = streams'[i].id
  BY <1>1, <1>4
<1>8. \A x, y \in finishing' : streams'[y.id.index].parent = x.id => y.depth > x.depth
  <2>. SUFFICES ASSUME NEW i \in DOMAIN streams, NEW j \in DOMAIN streams,
                       streams[j].parent = streams[i].id
                PROVE  Depth[j] > Depth[i]
    BY <1>1, <1>3, <1>4
  <2>1. Depth[j] = 1 + Depth[i]
    BY <1>2, <1>3
  <2>. QED
    BY <1>2, <2>1
<1>. QED
  BY <1>5, <1>6, <1>7, <1>8 DEF FinishInv

\* The next stream finish() closes is the deepest that is left.
LEMMA NextFacts ==
  ASSUME TypeOK, FinishInv, pc = "finish", finishing # {}
  PROVE  /\ NextToClose \in finishing
         /\ \A y \in finishing : FinishBefore(NextToClose, y)
<1>1. /\ nextSeq \in Nat
      /\ \A x \in finishing : /\ x.depth \in Nat /\ x.depth <= nextSeq /\ x.seq \in Nat
                              /\ nextSeq - x.depth \in Nat
  <2>1. \A x \in finishing : streams[x.id.index].seq \in Nat
    BY DEF FinishInv, IsLive, TypeOK, StreamsType, Streams
  <2>2. nextSeq \in Nat /\ \A x \in finishing : x.depth \in Nat /\ x.depth <= nextSeq /\ x.seq \in Nat
    BY <2>1 DEF FinishInv, TypeOK, CountsType
  <2>. QED
    BY <2>2
<1>2. PICK a \in {nextSeq - x.depth : x \in finishing} :
        \A b \in {nextSeq - x.depth : x \in finishing} : a <= b
  <2>. {nextSeq - x.depth : x \in finishing} \in SUBSET Nat
       /\ {nextSeq - x.depth : x \in finishing} # {}
    BY <1>1
  <2>. QED
    BY LeastNat
<1>. DEFINE Deepest == {x \in finishing : nextSeq - x.depth = a}
<1>3. PICK q \in {x.seq : x \in Deepest} : \A r \in {x.seq : x \in Deepest} : q <= r
  <2>. {x.seq : x \in Deepest} \in SUBSET Nat /\ {x.seq : x \in Deepest} # {}
    BY <1>1, <1>2
  <2>. QED
    BY LeastNat
<1>4. PICK x \in finishing : nextSeq - x.depth = a /\ x.seq = q
  BY <1>3
<1>5. \A y \in finishing : FinishBefore(x, y)
  <2>. SUFFICES ASSUME NEW y \in finishing PROVE FinishBefore(x, y)
    OBVIOUS
  <2>1. a <= nextSeq - y.depth /\ (nextSeq - y.depth = a => q <= y.seq)
    BY <1>2, <1>3
  <2>2. x.depth \in Nat /\ y.depth \in Nat /\ x.seq \in Nat /\ y.seq \in Nat /\ nextSeq \in Nat
    BY <1>1
  <2>3. x.depth > y.depth \/ x.depth = y.depth
    BY <1>4, <2>1, <2>2
  <2>4. x.depth = y.depth => x.seq <= y.seq
    BY <1>4, <2>1, <2>2
  <2>. QED
    BY <2>3, <2>4 DEF FinishBefore
<1>. QED
  BY <1>5 DEF NextToClose

\* Under the Live policy it is a leaf.
LEMMA NextIsLeaf ==
  ASSUME TypeOK, Arena, FinishInv, pc = "finish", finishing # {}, Live
  PROVE  IsLeaf(streams[NextToClose.id.index])
<1>. DEFINE x == NextToClose
<1>1. x \in finishing /\ \A y \in finishing : FinishBefore(x, y)
  BY NextFacts
<1>. HIDE DEF x
<1>2. x.id \in StreamIds /\ IsLive(x.id) /\ x.depth \in Nat
  BY <1>1 DEF FinishInv
<1>. SUFFICES ASSUME NEW c \in streams[x.id.index].children PROVE FALSE
  BY DEF IsLeaf, x
<1>3. x.id.index \in DOMAIN streams /\ streams[x.id.index].id = x.id
  BY <1>2, LiveFacts DEF Arena, Forest
<1>4. /\ IsLive(c) /\ streams[c.index].parent = x.id
  BY <1>3 DEF Arena, Forest, ChildrenLive
<1>5. c.index \in DOMAIN streams /\ streams[c.index].id.index = c.index
  BY <1>4, LiveFacts DEF Arena, Forest, IsLive
<1>6. PICK y \in finishing : y.id = streams[c.index].id
  BY <1>5 DEF FinishInv
<1>7. y.depth > x.depth /\ y.depth \in Nat
  BY <1>1, <1>4, <1>5, <1>6 DEF FinishInv
<1>8. x.depth > y.depth \/ x.depth = y.depth
  BY <1>1, <1>6 DEF FinishBefore
<1>. QED
  BY <1>2, <1>7, <1>8

\* Closing a stream keeps the shape, and the rest of the order as it is.
LEMMA FinishShape ==
  ASSUME TypeOK, Shape, FinishInv, Finishing
  PROVE  Shape' /\ FinishInv'
<1>. USE DEF counts, arena, heaps
<1>. DEFINE x == NextToClose
            id == x.id
            k == id.index
<1>0. Arena
  BY DEF Shape
<1>1. CASE FinishEvict
  <2>1. /\ pc = "finish" /\ finishing # {} /\ Live /\ IsLive(id)
        /\ finishing' = finishing \ {x}
        /\ Evict(id, "CaptureEnd", expiry, lru)
        /\ nextSeq' = nextSeq
    BY <1>1 DEF FinishEvict, Evict
  <2>2. x \in finishing /\ id \in StreamIds /\ IsLeaf(streams[k])
    BY <1>0, <2>1, NextFacts, NextIsLeaf DEF FinishInv
  <2>3. IsABag(lru)
    BY DEF TypeOK, HeapsType, IsLruHeap
  <2>. HIDE DEF x, id
  <2>4. Shape'
    BY <2>1, <2>2, <2>3, EvictShape
  <2>5. /\ DOMAIN streams' = DOMAIN streams \ {k}
        /\ \A j \in DOMAIN streams' : /\ streams'[j].id = streams[j].id
                                      /\ streams'[j].parent = streams[j].parent
                                      /\ streams'[j].seq = streams[j].seq
        /\ \A y \in StreamIds : IsLive(y)' <=> IsLive(y) /\ y.index # k
    BY <1>0, <2>1, <2>2, <2>3, EvictFacts
  <2>6. \A y \in finishing' : /\ y \in finishing /\ y.id \in StreamIds
                              /\ IsLive(y.id) /\ y.id # id
    BY <2>1, <2>2 DEF FinishInv, id
  <2>7. \A y \in finishing' : y.id.index # k /\ y.id.index \in DOMAIN streams'
    BY <1>0, <2>1, <2>2, <2>5, <2>6, LiveFacts DEF Arena, Forest
  <2>8. \A y \in finishing' :
          /\ y.depth \in Nat /\ y.depth <= nextSeq'
          /\ y.id \in StreamIds /\ IsLive(y.id)' /\ y.seq = streams'[y.id.index].seq
    BY <2>1, <2>5, <2>6, <2>7 DEF FinishInv
  <2>9. \A i \in DOMAIN streams' : \E y \in finishing' : y.id = streams'[i].id
    <3>. SUFFICES ASSUME NEW i \in DOMAIN streams'
                  PROVE  \E y \in finishing' : y.id = streams'[i].id
      OBVIOUS
    <3>1. i \in DOMAIN streams /\ i # k /\ streams'[i].id = streams[i].id /\ streams[i].id.index = i
      BY <1>0, <2>5, LiveFacts DEF Arena, Forest
    <3>2. PICK y \in finishing : y.id = streams[i].id
      BY <2>1, <3>1 DEF FinishInv
    <3>3. y # x
      BY <3>1, <3>2 DEF id
    <3>. QED
      BY <2>1, <3>1, <3>2, <3>3
  <2>10. \A y, z \in finishing' : /\ y.id = z.id => y = z
                                  /\ streams'[z.id.index].parent = y.id => z.depth > y.depth
    BY <2>1, <2>5, <2>6, <2>7 DEF FinishInv
  <2>. QED
    BY <2>4, <2>8, <2>9, <2>10 DEF FinishInv
<1>2. CASE FinishRetain
  <2>. DEFINE new == ClosedCopy(streams[k])
  <2>1. /\ pc = "finish" /\ ~Live /\ IsLive(id)
        /\ finishing' = finishing \ {x}
        /\ streams' = [streams EXCEPT ![k] = new]
        /\ UNCHANGED <<generation, free, roots, nextSeq, lru, liveCount>>
    BY <1>2 DEF FinishRetain
  <2>2. k \in DOMAIN streams /\ streams[k] \in Streams
    BY <2>1 DEF IsLive, TypeOK, StreamsType
  <2>3. /\ new.id = streams[k].id /\ new.parent = streams[k].parent
        /\ new.children = streams[k].children /\ new.seq = streams[k].seq
    BY <2>2 DEF ClosedCopy, Streams
  <2>. HIDE DEF x, id, k, new
  <2>4. Shape' /\ \A y : IsLive(y)' <=> IsLive(y)
    BY <2>1, <2>2, <2>3, TouchShape
  <2>5. \A j \in DOMAIN streams : /\ streams'[j].parent = streams[j].parent
                                  /\ streams'[j].seq = streams[j].seq
    BY <2>1, <2>2, <2>3
  <2>6. \A y \in finishing' : y \in finishing /\ y.id.index \in DOMAIN streams
    BY <2>1 DEF FinishInv, IsLive
  <2>. QED
    BY <2>1, <2>4, <2>5, <2>6 DEF FinishInv
<1>3. CASE FinishDone
  <2>1. Shape' /\ pc' = "done"
    BY <1>3, SameShape DEF FinishDone
  <2>. QED
    BY <2>1 DEF FinishInv
<1>. QED
  BY <1>1, <1>2, <1>3 DEF Finishing

----------------------------------------------------------------------------
\* Every step keeps the invariant.
LEMMA StoreStep == StoreInv /\ [Next]_vars => StoreInv'
<1>. SUFFICES ASSUME StoreInv, [Next]_vars PROVE StoreInv'
  OBVIOUS
<1>. USE DEF counts, arena, heaps
<1>0. TypeOK /\ TypeOK' /\ Shape /\ CursorLive /\ FinishInv /\ CapHolds
  BY TypeStep DEF StoreInv
<1>. SUFFICES Shape' /\ CursorLive' /\ FinishInv' /\ CapHolds'
  BY <1>0 DEF StoreInv
<1>1. CASE Arrive
  <2>1. /\ UNCHANGED <<generation, streams, free, roots, nextSeq, liveCount, lru>>
        /\ pc' = "sweep" /\ parent' = NoId
    BY <1>1 DEF Arrive, Ingest
  <2>2. Shape'
    BY <1>0, <2>1, SameShape
  <2>. QED
    BY <2>1, <2>2 DEF CursorLive, CapHolds, FinishInv
<1>2. CASE Sweep
  <2>1. pc = "sweep" /\ pc' \in {"sweep", "layers"}
    BY <1>2 DEF Sweep, SweepDrop, SweepRepush, SweepEvict, SweepDone
  <2>2. Shape' /\ parent' = parent /\ parent = NoId
    BY <1>0, <1>2, <2>1, SweepShape DEF CursorLive
  <2>. QED
    BY <2>1, <2>2 DEF CursorLive, CapHolds, FinishInv
<1>3. CASE Layer
  <2>1. pc = "layers" /\ pc' = "layers"
    BY <1>3 DEF Layer, SkipLayer, KeyErrorLayer, HitLayer, CreateLayer, FoldAny, FoldLayer,
         FoldNewNode
  <2>2. Shape' /\ CursorLive'
    BY <1>0, <1>3, LayerShape
  <2>. QED
    BY <2>1, <2>2 DEF CapHolds, FinishInv
<1>4. CASE LayersDone
  <2>1. pc' = "enforce"
    BY <1>4 DEF LayersDone
  <2>2. Shape'
    BY <1>0, <1>4, DoneShape
  <2>. QED
    BY <2>1, <2>2 DEF CapHolds, CursorLive, FinishInv
<1>5. CASE Enforce
  <2>1. pc' \in {"enforce", "idle"}
    BY <1>5 DEF Enforce, EnforceDrop, EnforceRepush, EnforceEvict, EnforceDone
  <2>2. Shape'
    BY <1>0, <1>5, EnforceShape
  <2>3. CapHolds'
    <3>1. pc' = "idle" => ~OverCap /\ liveCount' = liveCount
      BY <1>5, <2>1 DEF Enforce, EnforceDrop, EnforceRepush, EnforceEvict, EnforceDone
    <3>. QED
      BY <1>0, <3>1, CapReached DEF CapHolds
  <2>. QED
    BY <2>1, <2>2, <2>3 DEF CursorLive, FinishInv
<1>6. CASE Finish
  <2>1. /\ UNCHANGED <<generation, streams, free, roots, nextSeq, liveCount, lru>>
        /\ pc' = "finish"
    BY <1>6 DEF Finish
  <2>2. Shape' /\ FinishInv'
    BY <1>0, <1>6, <2>1, SameShape, FinishStarts DEF Shape
  <2>. QED
    BY <2>1, <2>2 DEF CursorLive, CapHolds
<1>7. CASE Finishing
  <2>1. pc' \in {"finish", "done"}
    BY <1>7 DEF Finishing, FinishEvict, FinishRetain, FinishDone
  <2>2. Shape' /\ FinishInv'
    BY <1>0, <1>7, FinishShape
  <2>. QED
    BY <2>1, <2>2 DEF CursorLive, CapHolds
<1>8. CASE Closed \/ UNCHANGED vars
  <2>1. UNCHANGED vars
    BY <1>8 DEF Closed
  <2>2. Shape'
    BY <1>0, <2>1, SameShape DEF vars
  <2>3. CursorLive' /\ CapHolds' /\ FinishInv'
    BY <1>0, <2>1 DEF vars, CursorLive, CapHolds, FinishInv, IsLive
  <2>. QED
    BY <2>2, <2>3
<1>. QED
  BY <1>1, <1>2, <1>3, <1>4, <1>5, <1>6, <1>7, <1>8 DEF Next, Step

\* The invariant of the store.
THEOREM StoreCorrect == Spec => []StoreInv
<1>1. Init => StoreInv
  <2>. SUFFICES ASSUME Init PROVE StoreInv
    OBVIOUS
  <2>1. TypeOK
    BY TypeInit
  <2>2. LiveCounted /\ CapHolds
    BY FS_EmptySet, ConfigAssumption DEF Init, LiveCounted, CapHolds
  <2>3. Arena /\ CursorLive /\ LeavesAreCandidates /\ FinishInv
    BY DEF Init, Arena, Forest, HandlesCurrent, ParentsLive, ChildrenLive, RootsExact,
         FreeSlotsExact, SeqBelow, CursorLive, LeavesAreCandidates, FinishInv
  <2>. QED
    BY <2>1, <2>2, <2>3 DEF StoreInv, Shape
<1>. QED
  BY <1>1, StoreStep, PTL DEF Spec

\* The hard cap holds between packets, however the lazy heaps have aged.
THEOREM CapCorrect == Spec => []CapHolds
<1>1. StoreInv => CapHolds
  BY DEF StoreInv
<1>. QED
  BY <1>1, StoreCorrect, PTL

\* The arena is a forest of live streams, from the first packet to the last
\* eviction of finish(): no parent is evicted under its children.
THEOREM ForestCorrect == Spec => []Forest
<1>1. StoreInv => Forest
  BY DEF StoreInv, Shape, Arena
<1>. QED
  BY <1>1, StoreCorrect, PTL

\* No slot is lost and none is handed out twice.
THEOREM SlotsCorrect == Spec => []FreeSlotsExact
<1>1. StoreInv => FreeSlotsExact
  BY DEF StoreInv, Shape, Arena
<1>. QED
  BY <1>1, StoreCorrect, PTL

\* No leaf is lost to the LRU heap.
THEOREM CandidatesCorrect == Spec => []LeavesAreCandidates
<1>1. StoreInv => LeavesAreCandidates
  BY DEF StoreInv, Shape
<1>. QED
  BY <1>1, StoreCorrect, PTL

============================================================================
