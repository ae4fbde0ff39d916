------------------------------- MODULE Events -------------------------------
(***************************************************************************)
(* streams --format json: run_live (cli/src/run.rs) drives an aggregator    *)
(* on one thread and watch_json (cli/src/lib.rs) prints what NdjsonTracker  *)
(* (cli/src/views.rs) makes of it: a poll after every packet, and a line    *)
(* from the aggregator's eviction sink for every stream that closes.        *)
(*                                                                         *)
(* Of the aggregator (StreamStore models it whole) this module keeps one    *)
(* address pair with one session below it, the handles of both, and what a  *)
(* stream carries into its records: its lifecycle state and its rollups.    *)
(* Which leaf a timeout or the cap evicts is left open: any leaf may go     *)
(* where the code may evict one.                                           *)
(***************************************************************************)
EXTENDS FiniteSets, Functions, Rollups

CONSTANTS
  Says,         \* for each session protocol, the values a packet may carry
  Times,        \* capture timestamps
  Waits,        \* ticks of 100 ms between two packets
  Slots,        \* slots of the store
  MaxPackets    \* bound on the packets of a run

ASSUME EventsAssumption == \A w \in Waits : w \in Nat

\* A SeriesPoint is exact within 292 years of its base: a capture is shorter.
ASSUME TimesAssumption == \A t, u \in Times : t \in Int /\ t - u <= MaxOffset

ASSUME SaysAssumption == DOMAIN Says \subseteq {"tcp", "sctp", "udp"}

\* One second, in ticks: no age matters above it.
Second == 10

VARIABLES
  pc,           \* where run_live's loop is
  proto,        \* the session protocol of this capture
  evicting,     \* EvictionPolicy::Live, or RetainAll
  packets,      \* packets received
  pkt,          \* the packet being ingested
  live,         \* handle -> stream
  generation,   \* slot -> generation
  nextSeq,      \* created_seq of the next stream
  lastPoll,     \* ticks since the tracker's last poll
  lastEmitted,  \* handle -> ticks since its last stream_new or stream_update
  seqById,      \* handle -> created_seq
  lines,        \* what the last step printed
  told          \* created_seq -> what has been printed of the stream so far:
                \* "unseen", "open" or "closed", and how long ago

agg == <<live, generation, nextSeq>>
tracker == <<lastPoll, lastEmitted, seqById>>
printed == <<lines, told>>
vars == <<pc, proto, evicting, packets, pkt, agg, tracker, printed>>

Root == "address pair"
Session == "session"
NoParent == <<>>

\* A table with new entries put over those it has.
Overlay(new, old) ==
  [x \in DOMAIN new \cup DOMAIN old |-> IF x \in DOMAIN new THEN new[x] ELSE old[x]]

Aged(n, w) == Smaller(Second, n + w)

\* A StreamId: the slot and its generation, so that a recycled slot gives a
\* new handle.
Handle(slot) == <<slot, generation[slot]>>

\* A slip: the slot alone.
TrackerKeySlot(id) == <<id[1], 0>>

\* What the tracker's tables are keyed by.
TrackerKey(id) == id

Lookup(key) == {id \in DOMAIN live : live[id].key = key}

ChildrenOf(id) == {c \in DOMAIN live : live[c].parent = id}

\* A stream that is closed in place, at the end of a run that evicts nothing,
\* no longer counts as something to close.
Unclosed == {id \in DOMAIN live : ~live[id].closed}

Leaves == {id \in Unclosed : ChildrenOf(id) \cap Unclosed = {}}

-----------------------------------------------------------------------------
\* seq_of, as a poll or the sink sees it: the number of a handle, 0 for null.
DisplayOf(id) == IF id # NoParent /\ TrackerKey(id) \in DOMAIN seqById
             THEN seqById[TrackerKey(id)] ELSE 0

\* One printed line.  parent is what the line says, under is the truth; after
\* and gap are what had been printed of the stream before, and how long ago.
Line(kind, s, parent) ==
  [kind |-> kind, seq |-> s.seq, parent |-> parent, under |-> s.parentSeq,
   after |-> told[s.seq].phase, gap |-> told[s.seq].ago]

PrintLines(ls) ==
  /\ lines' = ls
  /\ told' = [s \in DOMAIN told |->
       IF \E l \in ls : l.seq = s
       THEN [phase |-> IF \E l \in ls : l.seq = s /\ l.kind = "closed" THEN "closed"
                       ELSE "open",
             ago |-> 0]
       ELSE told[s]]

PrintNothing == lines' = {} /\ told' = told

NoPacket == [says |-> NoValue, ts |-> 0, session |-> FALSE]

\* A packet of the address pair alone, or of its session.
Packet ==
  [says : {NoValue}, ts : Times, session : {FALSE}]
    \cup [says : Says[proto], ts : Times, session : {TRUE}]

Init ==
  /\ pc = "recv"
  /\ proto \in DOMAIN Says
  /\ evicting \in BOOLEAN
  /\ packets = 0
  /\ pkt = NoPacket
  /\ live = <<>>
  /\ generation = [s \in Slots |-> 0]
  /\ nextSeq = 1
  /\ lastPoll = Second   \* two seconds ago
  /\ lastEmitted = <<>>
  /\ seqById = <<>>
  /\ lines = {}
  /\ told = <<>>

\* The next packet comes out of the channel, some time after the last one.
Receive(w) ==
  /\ pc = "recv" /\ packets < MaxPackets
  /\ pc' = "sweep"
  /\ packets' = packets + 1
  /\ pkt' \in Packet
  /\ lastPoll' = Aged(lastPoll, w)
  /\ lastEmitted' = [id \in DOMAIN lastEmitted |-> Aged(lastEmitted[id], w)]
  /\ told' = [s \in DOMAIN told |->
       IF told[s].phase = "open" THEN [told[s] EXCEPT !.ago = Aged(@, w)] ELSE told[s]]
  /\ lines' = {}
  /\ UNCHANGED <<proto, evicting, agg, seqById>>

\* NdjsonTracker::on_evicted, called by the sink with the departed stream:
\* the tracker forgets when it last spoke of it, and keeps its number.
OnEvicted(id) ==
  /\ lastEmitted' = Restrict(lastEmitted, DOMAIN lastEmitted \ {TrackerKey(id)})
  /\ PrintLines({Line("closed", live[id], DisplayOf(live[id].parent))})
  /\ UNCHANGED <<lastPoll, seqById>>

\* evict: the slot is free under the next generation and the sink is told.
Evict(id) ==
  /\ live' = Restrict(live, DOMAIN live \ {id})
  /\ generation' = [generation EXCEPT ![id[1]] = @ + 1]
  /\ nextSeq' = nextSeq
  /\ OnEvicted(id)

\* ingest begins with the sweep and ends with the cap: each may evict leaves.
SweepOrCap(id) ==
  /\ pc \in {"sweep", "cap"} /\ evicting
  /\ id \in Leaves
  /\ Evict(id)
  /\ UNCHANGED <<pc, proto, evicting, packets, pkt>>

\* The streams of the packet's layers, outermost first: the address pair, and
\* the session when the packet reached one.
NewStream(key, parent, seq) ==
  [key |-> key, parent |-> parent, seq |-> seq, closed |-> FALSE,
   parentSeq |-> IF parent = NoParent THEN 0 ELSE live[parent].seq,
   first |-> IF key = Session THEN pkt.ts ELSE 0, heard |-> <<>>,
   state |-> IF key = Session /\ HasLifecycle(proto) THEN "new" ELSE "none",
   eligible |-> FALSE, since |-> -1,
   rolls |-> IF key = Session THEN EmptyRollups(SessionRollups(proto)) ELSE <<>>]

\* The lifecycle and rollup part of ingest for one stream.  The linger clock
\* starts when the session enters a closed state and stragglers leave it.
Updated(s) ==
  LET next == Advance(proto, s.state, pkt.says)
      over == next \in ClosedStates(proto)
      cycled == IF s.state = "none" THEN s
                ELSE [s EXCEPT !.state = next, !.eligible = over,
                               !.since = CASE over /\ ~s.eligible -> pkt.ts
                                           [] over /\ s.eligible -> @
                                           [] ~over -> -1]
  IN  [cycled EXCEPT !.rolls = ApplyRollups(@, pkt.says, s.first, pkt.ts),
                     !.heard = IF s.key = Session /\ pkt.says # NoValue
                               THEN Append(@, [says |-> pkt.says, ts |-> pkt.ts])
                               ELSE @]

\* get_or_insert and the update of one layer's stream.
FoldInto(key, parent) ==
  \/ /\ \E id \in Lookup(key) : live' = [live EXCEPT ![id] = Updated(@)]
     /\ UNCHANGED <<generation, nextSeq>>
     /\ PrintNothing
  \/ /\ Lookup(key) = {}
     /\ \E slot \in Slots :
          /\ Handle(slot) \notin DOMAIN live
          /\ live' = Overlay([id \in {Handle(slot)} |-> Updated(NewStream(key, parent, nextSeq))],
                             live)
     /\ nextSeq' = nextSeq + 1
     /\ told' = Append(told, [phase |-> "unseen", ago |-> 0])
     /\ lines' = {}
     /\ UNCHANGED generation

FoldRoot ==
  /\ pc = "sweep"
  /\ pc' = IF pkt.session THEN "fold" ELSE "cap"
  /\ FoldInto(Root, NoParent)
  /\ UNCHANGED <<proto, evicting, packets, pkt, tracker>>

FoldSession ==
  /\ pc = "fold"
  /\ pc' = "cap"
  /\ \E parent \in Lookup(Root) : FoldInto(Session, parent)
  /\ UNCHANGED <<proto, evicting, packets, pkt, tracker>>

-----------------------------------------------------------------------------
\* A slip: an update with every poll.
DueAtPoll(id) == TRUE

\* Time for another line about a stream: stream_new the first time, and a
\* stream_update a second after its last line.
Due(id) ==
  \/ TrackerKey(id) \notin DOMAIN lastEmitted
  \/ lastEmitted[TrackerKey(id)] >= Second

Kind(id) == IF TrackerKey(id) \in DOMAIN lastEmitted THEN "update" ELSE "new"

\* NdjsonTracker::poll, once ingest has returned.  It works ten times a
\* second at most; first it learns every number, then it speaks.
Poll ==
  /\ pc = "cap"
  /\ pc' = "recv"
  /\ pkt' = NoPacket
  /\ \/ lastPoll < 1 /\ UNCHANGED tracker /\ PrintNothing
     \/ /\ lastPoll >= 1
        /\ lastPoll' = 0
        /\ seqById' = Overlay([k \in {TrackerKey(id) : id \in DOMAIN live} |->
                                live[CHOOSE id \in DOMAIN live : TrackerKey(id) = k].seq],
                              seqById)
        /\ LET due == {id \in DOMAIN live : Due(id)}
           IN  /\ lastEmitted' = Overlay([k \in {TrackerKey(id) : id \in due} |-> 0], lastEmitted)
               /\ PrintLines({Line(Kind(id), live[id],
                              IF live[id].parent = NoParent THEN 0
                              ELSE seqById'[TrackerKey(live[id].parent)]) : id \in due})
  /\ UNCHANGED <<proto, evicting, packets, agg>>

\* The channel is closed: the capture ended, or a stop was asked for.
End ==
  /\ pc = "recv"
  /\ pc' = "finish"
  /\ UNCHANGED <<proto, evicting, packets, pkt, agg, tracker>> /\ PrintNothing

\* finish: the deepest streams first; evicted, or closed where they are.
Finish(id) ==
  /\ pc = "finish"
  /\ id \in Leaves
  /\ \/ evicting /\ Evict(id)
     \/ /\ ~evicting
        /\ live' = [live EXCEPT ![id].closed = TRUE]
        /\ UNCHANGED <<generation, nextSeq>>
        /\ OnEvicted(id)
  /\ UNCHANGED <<pc, proto, evicting, packets, pkt>>

\* The summary line, once nothing is left to close.
Summary ==
  /\ pc = "finish" /\ Unclosed = {}
  /\ pc' = "done"
  /\ UNCHANGED <<proto, evicting, packets, pkt, agg, tracker>> /\ PrintNothing

Done == pc = "done" /\ UNCHANGED vars

Next ==
  \/ \E w \in Waits : Receive(w)
  \/ \E id \in DOMAIN live : SweepOrCap(id) \/ Finish(id)
  \/ FoldRoot \/ FoldSession \/ Poll \/ End \/ Summary \/ Done

Spec == Init /\ [][Next]_vars

-----------------------------------------------------------------------------
\* NdjsonTracker, "a closure is a one-time event" and "throttles to >= 1 s per
\* stream": of one stream there is at most one stream_new, before everything
\* else; a second or more before every stream_update; and one stream_closed,
\* with nothing after it.  When the summary is printed every stream that ever
\* was has been closed, those no poll ever saw among them.
EventsOrdered ==
  /\ \A l \in lines :
       CASE l.kind = "new"    -> l.after = "unseen"
         [] l.kind = "update" -> l.after = "open" /\ l.gap >= Second
         [] l.kind = "closed" -> l.after # "closed"
  /\ pc = "done" => \A s \in DOMAIN told : told[s].phase = "closed"

\* A record names the stream it is under: seq_by_id outlives the streams in it
\* and a slot is used again, yet no other number is ever printed, and a
\* stream_new or stream_update always has its parent, whichever order a poll
\* goes in.  Only a stream_closed may say null instead, and exactly where the
\* parent is one that no poll has seen: the two were born since the last poll.
ParentsTrue ==
  \A l \in lines :
    l.parent = IF l.kind = "closed" /\ l.under # 0 /\ told[l.under].phase = "unseen"
               THEN 0 ELSE l.under

\* What a rollup shows is what the stream heard: the values of an Accumulate
\* are the first distinct ones and overflow tells whether there were more, a
\* Sample has the ends, and a Series has the last of them, each with the time
\* it was heard at, packets stamped before the stream's first one included.
RollupsTrue ==
  \A id \in Lookup(Session) :
    LET s == live[id]
        heard == s.heard
        firsts == {i \in DOMAIN heard : \A j \in 1..(i - 1) : heard[j].says # heard[i].says}
    IN  \A k \in DOMAIN s.rolls : LET r == s.rolls[k] IN
          CASE r.kind = "accumulate" ->
                 /\ r.count = Len(heard)
                 /\ r.overflow <=> Cardinality(firsts) > AccumulateSetCap
                 /\ ToSet(r.values) =
                      {heard[i].says : i \in {j \in firsts :
                         Cardinality({m \in firsts : m <= j}) <= AccumulateSetCap}}
            [] r.kind = "sample" ->
                 heard # <<>> => r.first = heard[1].says /\ r.last = Last(heard).says
            [] r.kind = "series" ->
                 /\ [i \in DOMAIN r.ring |-> [says |-> r.ring[i].value,
                                              ts |-> PointTime(s.first, r.ring[i])]]
                      = SubSeq(heard, Larger(1, Len(heard) - r.cap + 1), Len(heard))
                 /\ r.truncated <=> Len(heard) > r.cap

\* store.rs, "Linger anchors at closed-state entry; stragglers won't move it":
\* a session that is over stays over, whatever flags or chunks come later in
\* the linger, and its deadline stays where it was.
SessionStaysOver ==
  [][\A id \in DOMAIN live \cap DOMAIN live' :
       live[id].eligible => live'[id].eligible /\ live'[id].since = live[id].since]_vars
=============================================================================
