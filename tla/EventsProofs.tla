---------------------------- MODULE EventsProofs ----------------------------
(***************************************************************************)
(* Proofs about Events, for any packets, waits, slots and any order of     *)
(* evictions: the lines of one stream come in order and at the rate the    *)
(* tracker promises, no line names a wrong parent, a session that is over  *)
(* stays over, and a rollup shows what its stream heard.                   *)
(***************************************************************************)
EXTENDS Events, SequenceTheorems, FiniteSetTheorems, TLAPS

----------------------------------------------------------------------------
(* The invariant.                                                          *)

\* A stream is a record of these fields.
IsStream(s) ==
  s = [key |-> s.key, parent |-> s.parent, seq |-> s.seq, closed |-> s.closed,
       parentSeq |-> s.parentSeq, first |-> s.first, heard |-> s.heard, state |-> s.state,
       eligible |-> s.eligible, since |-> s.since, rolls |-> s.rolls]

IsTable(f) == f = [x \in DOMAIN f |-> f[x]]

\* Handles carry the generation their slot is at, so one slot has one stream.
HandlesCurrent ==
  /\ IsTable(live)
  /\ DOMAIN live \subseteq Slots \X Nat
  /\ generation \in [Slots -> Nat]
  /\ \A id \in DOMAIN live : id[2] = generation[id[1]]

\* Created numbers tell streams apart.
SeqsDistinct ==
  /\ nextSeq \in Nat \ {0}
  /\ \A id \in DOMAIN live : IsStream(live[id]) /\ live[id].seq \in 1..(nextSeq - 1)
  /\ \A id, jd \in DOMAIN live : live[id].seq = live[jd].seq => id = jd

\* A parent outlives its children, and a stream is closed in place only by the
\* end of a run that evicts nothing.
ParentsStay ==
  \A id \in DOMAIN live :
    /\ live[id].parent # NoParent =>
         /\ live[id].parent \in DOMAIN live
         /\ live[live[id].parent].seq = live[id].parentSeq
    /\ live[id].closed \in BOOLEAN
    /\ live[id].closed => ~evicting /\ pc \in {"finish", "done"}

StoreInv == evicting \in BOOLEAN /\ HandlesCurrent /\ SeqsDistinct /\ ParentsStay

\* The tracker's table agrees with what has been printed: a stream it has an
\* entry for is open since exactly that long, one it has none for has not been
\* seen, or is closed; and what is gone has been closed.
ToldInv ==
  /\ told \in Seq([phase : {"unseen", "open", "closed"}, ago : Nat])
  /\ Len(told) = nextSeq - 1
  /\ IsTable(lastEmitted) /\ DOMAIN lastEmitted \subseteq Unclosed
  /\ \A id \in DOMAIN live :
       /\ live[id].closed => told[live[id].seq].phase = "closed"
       /\ id \in DOMAIN lastEmitted => /\ told[live[id].seq].phase = "open"
                                       /\ told[live[id].seq].ago = lastEmitted[id]
       /\ ~live[id].closed /\ id \notin DOMAIN lastEmitted
            => told[live[id].seq].phase = "unseen"
  /\ \A s \in DOMAIN told :
       told[s].phase # "closed" => \E id \in DOMAIN live : live[id].seq = s
  /\ pc = "done" => \A id \in DOMAIN live : live[id].closed

\* seq_by_id is right about the streams that live, and whatever else is in it
\* is about an earlier generation of its slot.
NumbersInv ==
  /\ IsTable(seqById) /\ DOMAIN seqById \subseteq Slots \X Nat
  /\ \A k \in DOMAIN seqById :
       /\ k \in DOMAIN live => seqById[k] = live[k].seq
       /\ k \notin DOMAIN live => k[2] < generation[k[1]]

\* A root is under nothing, and a parent is closed after its children.
FamilyInv ==
  \A id \in DOMAIN live :
    /\ live[id].parent = NoParent => live[id].parentSeq = 0
    /\ live[id].parent # NoParent /\ ~live[id].closed => ~live[live[id].parent].closed

\* The tracker knows the number of a stream once it has spoken of it.
SeenInv ==
  \A id \in DOMAIN live :
    ~live[id].closed => (id \in DOMAIN seqById <=> id \in DOMAIN lastEmitted)

\* A closed state is one the linger clock runs in.
LingerInv ==
  \A id \in DOMAIN live :
    /\ live[id].eligible \in BOOLEAN
    /\ live[id].eligible => live[id].state \in ClosedStates(proto)
----------------------------------------------------------------------------
(* What the operators of ingest do to a stream and to the table of streams. *)

\* The lifecycle and the rollups leave the rest of a stream alone.
LEMMA UpdatedKeeps ==
  ASSUME NEW s, IsStream(s)
  PROVE  LET u == Updated(s)
         IN  /\ IsStream(u)
             /\ u.key = s.key /\ u.parent = s.parent /\ u.seq = s.seq /\ u.closed = s.closed
             /\ u.parentSeq = s.parentSeq /\ u.first = s.first
             /\ u.rolls = ApplyRollups(s.rolls, pkt.says, s.first, pkt.ts)
             /\ u.heard = IF s.key = Session /\ pkt.says # NoValue
                          THEN Append(s.heard, [says |-> pkt.says, ts |-> pkt.ts])
                          ELSE s.heard
<1>. DEFINE next == Advance(proto, s.state, pkt.says)
            over == next \in ClosedStates(proto)
            since == CASE over /\ ~s.eligible -> pkt.ts
                       [] over /\ s.eligible -> s.since
                       [] ~over -> -1
            cycled == IF s.state = "none" THEN s
                      ELSE [s EXCEPT !.state = next, !.eligible = over, !.since = since]
            rolls == ApplyRollups(s.rolls, pkt.says, s.first, pkt.ts)
            heard == IF s.key = Session /\ pkt.says # NoValue
                     THEN Append(s.heard, [says |-> pkt.says, ts |-> pkt.ts]) ELSE s.heard
<1>1. /\ IsStream(cycled)
      /\ cycled.key = s.key /\ cycled.parent = s.parent /\ cycled.seq = s.seq
      /\ cycled.closed = s.closed /\ cycled.parentSeq = s.parentSeq /\ cycled.first = s.first
      /\ cycled.rolls = s.rolls /\ cycled.heard = s.heard
  <2>. HIDE DEF next, over, since
  <2>. QED
    BY DEF IsStream
<1>2. Updated(s) = [cycled EXCEPT !.rolls = ApplyRollups(cycled.rolls, pkt.says, s.first, pkt.ts),
                                  !.heard = IF s.key = Session /\ pkt.says # NoValue
                                            THEN Append(cycled.heard, [says |-> pkt.says, ts |-> pkt.ts])
                                            ELSE cycled.heard]
  BY DEF Updated
<1>3. Updated(s) = [cycled EXCEPT !.rolls = rolls, !.heard = heard]
  <2>. HIDE DEF cycled
  <2>. QED
    BY <1>1, <1>2
<1>. HIDE DEF cycled, rolls, heard
<1>4. /\ IsStream(Updated(s))
      /\ Updated(s).rolls = rolls /\ Updated(s).heard = heard
      /\ Updated(s).key = cycled.key /\ Updated(s).parent = cycled.parent
      /\ Updated(s).seq = cycled.seq /\ Updated(s).closed = cycled.closed
      /\ Updated(s).parentSeq = cycled.parentSeq /\ Updated(s).first = cycled.first
  BY <1>1, <1>3 DEF IsStream
<1>. QED
  BY <1>1, <1>4 DEF rolls, heard

\* A session that is over stays over, and its linger clock is not wound again.
LEMMA UpdatedLingers ==
  ASSUME NEW s, IsStream(s), s.eligible \in BOOLEAN,
         s.eligible => s.state \in ClosedStates(proto)
  PROVE  LET u == Updated(s)
         IN  /\ u.eligible \in BOOLEAN
             /\ u.eligible => u.state \in ClosedStates(proto)
             /\ s.eligible => u.eligible /\ u.since = s.since
<1>. DEFINE next == Advance(proto, s.state, pkt.says)
            over == next \in ClosedStates(proto)
            since == CASE over /\ ~s.eligible -> pkt.ts
                       [] over /\ s.eligible -> s.since
                       [] ~over -> -1
            cycled == IF s.state = "none" THEN s
                      ELSE [s EXCEPT !.state = next, !.eligible = over, !.since = since]
<1>1. s.eligible => over
  <2>. SUFFICES ASSUME s.eligible PROVE over
    OBVIOUS
  <2>1. CASE proto = "tcp"
    <3>1. s.state \in {"closed", "reset"}
      BY <2>1 DEF ClosedStates
    <3>2. TcpStep(s.state, pkt.says) = s.state
      BY <3>1 DEF TcpStep
    <3>. QED
      BY <2>1, <3>1, <3>2 DEF Advance, TcpAdvance, ClosedStates
  <2>2. CASE proto # "tcp"
    <3>1. s.state \in {"closed", "aborted"}
      BY <2>2 DEF ClosedStates
    <3>2. ASSUME NEW chunk PROVE SctpAdvance(s.state, chunk) \in {s.state, "aborted"}
      BY <3>1 DEF SctpAdvance
    <3>. QED
      BY <2>2, <3>1, <3>2 DEF Advance, ClosedStates
  <2>. QED
    BY <2>1, <2>2
<1>2. s.eligible => s.state # "none"
  BY DEF ClosedStates
<1>3. over \in BOOLEAN
  OBVIOUS
<1>4. s.eligible => since = s.since
  <2>. HIDE DEF next
  <2>. QED
    BY <1>1
<1>5. /\ cycled.eligible = IF s.state = "none" THEN s.eligible ELSE over
      /\ cycled.state = IF s.state = "none" THEN s.state ELSE next
      /\ cycled.since = IF s.state = "none" THEN s.since ELSE since
      /\ IsStream(cycled)
  <2>. HIDE DEF next, over, since
  <2>. QED
    BY DEF IsStream
<1>6. PICK r, h : Updated(s) = [cycled EXCEPT !.rolls = r, !.heard = h]
  BY DEF Updated
<1>7. /\ Updated(s).eligible = cycled.eligible
      /\ Updated(s).state = cycled.state /\ Updated(s).since = cycled.since
  <2>. HIDE DEF cycled
  <2>. QED
    BY <1>5, <1>6 DEF IsStream
<1>8. over <=> next \in ClosedStates(proto)
  OBVIOUS
<1>. QED
  <2>. HIDE DEF cycled, next, over, since
  <2>. QED
    BY <1>1, <1>2, <1>3, <1>4, <1>5, <1>7, <1>8
----------------------------------------------------------------------------
(* The steps, as what they do to the tables.                               *)

\* Streams are updated in place.
Kept ==
  /\ IsTable(live') /\ DOMAIN live' = DOMAIN live
  /\ \A id \in DOMAIN live :
       /\ IsStream(live'[id])
       /\ live'[id].seq = live[id].seq /\ live'[id].closed = live[id].closed
       /\ live'[id].parent = live[id].parent /\ live'[id].parentSeq = live[id].parentSeq
  /\ UNCHANGED <<generation, nextSeq>>

\* A stream is created under the handle h.
Born(h) ==
  /\ h \in Slots \X Nat /\ h[2] = generation[h[1]] /\ h \notin DOMAIN live
  /\ IsTable(live') /\ DOMAIN live' = DOMAIN live \cup {h}
  /\ \A id \in DOMAIN live : live'[id] = live[id]
  /\ IsStream(live'[h]) /\ live'[h].seq = nextSeq /\ live'[h].closed = FALSE
  /\ live'[h].parent \in DOMAIN live \cup {NoParent}
  /\ live'[h].parent = NoParent => live'[h].parentSeq = 0
  /\ live'[h].parent # NoParent => live'[h].parentSeq = live[live'[h].parent].seq
  /\ nextSeq' = nextSeq + 1 /\ UNCHANGED generation

\* A stream without children goes.
Gone(id) ==
  /\ id \in DOMAIN live /\ \A c \in DOMAIN live : live[c].parent # id
  /\ IsTable(live') /\ DOMAIN live' = DOMAIN live \ {id}
  /\ \A c \in DOMAIN live' : live'[c] = live[c]
  /\ generation' = [generation EXCEPT ![id[1]] = @ + 1]
  /\ UNCHANGED nextSeq

\* A stream is closed where it is.
ClosedHere(id) ==
  /\ id \in DOMAIN live /\ ~live[id].closed
  /\ IsTable(live') /\ DOMAIN live' = DOMAIN live
  /\ \A c \in DOMAIN live : c # id => live'[c] = live[c]
  /\ IsStream(live'[id]) /\ live'[id].closed = TRUE
  /\ live'[id].seq = live[id].seq
  /\ live'[id].parent = live[id].parent /\ live'[id].parentSeq = live[id].parentSeq
  /\ UNCHANGED <<generation, nextSeq>>

\* A table with one entry replaced.
LEMMA ReplacedEntry ==
  ASSUME NEW f, NEW x \in DOMAIN f, NEW v
  PROVE  LET g == [f EXCEPT ![x] = v]
         IN  /\ DOMAIN g = DOMAIN f /\ IsTable(g) /\ g[x] = v
             /\ \A y \in DOMAIN f : y # x => g[y] = f[y]
  BY DEF IsTable

\* Folding a layer updates streams in place or creates one.
LEMMA FoldEffect ==
  ASSUME NEW key, NEW parent \in DOMAIN live \cup {NoParent}, StoreInv, FoldInto(key, parent)
  PROVE  \/ Kept /\ PrintNothing
         \/ /\ \E h : Born(h)
            /\ told' = Append(told, [phase |-> "unseen", ago |-> 0]) /\ lines' = {}
<1>. USE DEF StoreInv, HandlesCurrent, SeqsDistinct
<1>1. ASSUME NEW id \in Lookup(key), live' = [live EXCEPT ![id] = Updated(@)],
             UNCHANGED <<generation, nextSeq>>
      PROVE  Kept
  <2>1. id \in DOMAIN live /\ IsStream(live[id])
    BY DEF Lookup
  <2>2. /\ DOMAIN live' = DOMAIN live /\ IsTable(live') /\ live'[id] = Updated(live[id])
        /\ \A c \in DOMAIN live : c # id => live'[c] = live[c]
    BY <1>1, <2>1, ReplacedEntry
  <2>3. /\ IsStream(live'[id])
        /\ live'[id].seq = live[id].seq /\ live'[id].closed = live[id].closed
        /\ live'[id].parent = live[id].parent /\ live'[id].parentSeq = live[id].parentSeq
    BY <2>1, <2>2, UpdatedKeeps
  <2>. QED
    BY <1>1, <2>2, <2>3 DEF Kept
<1>2. ASSUME NEW slot \in Slots, Handle(slot) \notin DOMAIN live,
             live' = Overlay([id \in {Handle(slot)} |-> Updated(NewStream(key, parent, nextSeq))], live),
             nextSeq' = nextSeq + 1, UNCHANGED generation
      PROVE  Born(Handle(slot))
  <2>. DEFINE h == Handle(slot)
              new == NewStream(key, parent, nextSeq)
  <2>1. h \in Slots \X Nat /\ h[2] = generation[h[1]]
    BY DEF Handle
  <2>2. /\ IsStream(new) /\ new.seq = nextSeq /\ new.closed = FALSE /\ new.parent = parent
        /\ new.parentSeq = IF parent = NoParent THEN 0 ELSE live[parent].seq
    BY DEF NewStream, IsStream
  <2>. HIDE DEF h, new
  <2>3. live' = [x \in DOMAIN live \cup {h} |-> IF x = h THEN Updated(new) ELSE live[x]]
    BY <1>2 DEF Overlay, h, new
  <2>4. /\ DOMAIN live' = DOMAIN live \cup {h} /\ live'[h] = Updated(new)
        /\ \A c \in DOMAIN live : live'[c] = live[c]
    BY <1>2, <2>3 DEF h
  <2>5. IsTable(live')
    BY <2>3, <2>4 DEF IsTable
  <2>6. /\ IsStream(live'[h]) /\ live'[h].seq = nextSeq /\ live'[h].closed = FALSE
        /\ live'[h].parent = parent /\ live'[h].parentSeq = new.parentSeq
    BY <2>2, <2>4, UpdatedKeeps
  <2>7. h \notin DOMAIN live
    BY <1>2 DEF h
  <2>8. Born(h)
    BY <1>2, <2>1, <2>2, <2>4, <2>5, <2>6, <2>7 DEF Born, h
  <2>. QED
    BY <2>8 DEF h
<1>. QED
  BY <1>1, <1>2 DEF FoldInto

\* While nothing is closed in place, a leaf has no children.
LEMMA EvictEffect ==
  ASSUME NEW id \in Leaves, StoreInv, evicting, Evict(id)
  PROVE  Gone(id)
<1>1. \A c \in DOMAIN live : ~live[c].closed
  BY DEF StoreInv, ParentsStay
<1>2. id \in DOMAIN live /\ \A c \in DOMAIN live : live[c].parent # id
  BY <1>1 DEF Leaves, Unclosed, ChildrenOf
<1>. QED
  BY <1>2 DEF Evict, Restrict, Gone, IsTable, StoreInv, HandlesCurrent

\* finish() closes a leaf where it is.
LEMMA CloseEffect ==
  ASSUME NEW id \in Leaves, StoreInv, live' = [live EXCEPT ![id].closed = TRUE],
         UNCHANGED <<generation, nextSeq>>
  PROVE  ClosedHere(id)
<1>1. id \in DOMAIN live /\ ~live[id].closed /\ IsStream(live[id])
  BY DEF Leaves, Unclosed, StoreInv, SeqsDistinct
<1>2. /\ DOMAIN live' = DOMAIN live /\ IsTable(live')
      /\ live'[id] = [live[id] EXCEPT !.closed = TRUE]
      /\ \A c \in DOMAIN live : c # id => live'[c] = live[c]
  BY <1>1 DEF IsTable, StoreInv, HandlesCurrent
<1>3. /\ IsStream(live'[id]) /\ live'[id].closed = TRUE /\ live'[id].seq = live[id].seq
      /\ live'[id].parent = live[id].parent /\ live'[id].parentSeq = live[id].parentSeq
  BY <1>1, <1>2 DEF IsStream
<1>. QED
  BY <1>1, <1>2, <1>3 DEF ClosedHere

\* Every step is one of these.
LEMMA StepEffect ==
  ASSUME StoreInv, [Next]_vars
  PROVE  /\ UNCHANGED <<proto, evicting>>
         /\ \/ /\ UNCHANGED <<live, generation, nextSeq>>
               /\ pc' = pc \/ pc \in {"recv", "cap"} \/ (pc = "finish" /\ pc' = "done")
            \/ Kept /\ pc \in {"sweep", "fold"}
            \/ (\E h : Born(h)) /\ pc \in {"sweep", "fold"}
            \/ \E id \in Leaves : Gone(id) /\ evicting /\ pc' = pc
            \/ \E id \in Leaves : ClosedHere(id) /\ ~evicting /\ pc = "finish" /\ pc' = pc
<1>1. ASSUME NEW w \in Waits, Receive(w) PROVE UNCHANGED <<proto, evicting, agg>> /\ pc = "recv"
  BY <1>1 DEF Receive
<1>2. ASSUME NEW id \in DOMAIN live, SweepOrCap(id)
      PROVE  UNCHANGED <<proto, evicting, pc>> /\ evicting /\ id \in Leaves /\ Gone(id)
  BY <1>2, EvictEffect DEF SweepOrCap
<1>3. ASSUME NEW id \in DOMAIN live, Finish(id)
      PROVE  /\ UNCHANGED <<proto, evicting, pc>> /\ id \in Leaves /\ pc = "finish"
             /\ (evicting /\ Gone(id)) \/ (~evicting /\ ClosedHere(id))
  BY <1>3, EvictEffect, CloseEffect DEF Finish
<1>4. ASSUME FoldRoot
      PROVE  UNCHANGED <<proto, evicting>> /\ pc = "sweep" /\ (Kept \/ \E h : Born(h))
  BY <1>4, FoldEffect DEF FoldRoot
<1>5. ASSUME FoldSession
      PROVE  UNCHANGED <<proto, evicting>> /\ pc = "fold" /\ (Kept \/ \E h : Born(h))
  BY <1>5, FoldEffect DEF FoldSession, Lookup
<1>6. ASSUME Poll \/ End \/ Summary
      PROVE  UNCHANGED <<proto, evicting, agg>>
             /\ (pc \in {"recv", "cap"} \/ (pc = "finish" /\ pc' = "done"))
  BY <1>6 DEF Poll, End, Summary
<1>7. ASSUME Done \/ UNCHANGED vars PROVE UNCHANGED <<proto, evicting, agg, pc>>
  BY <1>7 DEF Done, vars
<1>. QED
  BY <1>1, <1>2, <1>3, <1>4, <1>5, <1>6, <1>7 DEF Next, agg

\* The store starts empty.
LEMMA StoreInit == Init => StoreInv
  BY DEF Init, StoreInv, HandlesCurrent, SeqsDistinct, ParentsStay, IsTable

\* Every step keeps the store in order.
LEMMA StoreStep == StoreInv /\ [Next]_vars => StoreInv'
<1>. SUFFICES ASSUME StoreInv, [Next]_vars PROVE StoreInv'
  OBVIOUS
<1>. USE DEF StoreInv, HandlesCurrent, SeqsDistinct, ParentsStay
<1>1. UNCHANGED <<proto, evicting>>
  BY StepEffect
<1>2. CASE /\ UNCHANGED <<live, generation, nextSeq>>
           /\ pc' = pc \/ pc \in {"recv", "cap"} \/ (pc = "finish" /\ pc' = "done")
  BY <1>1, <1>2
<1>3. CASE Kept /\ pc \in {"sweep", "fold"}
  BY <1>1, <1>3 DEF Kept
<1>4. ASSUME NEW h, Born(h), pc \in {"sweep", "fold"} PROVE StoreInv'
  <2>1. HandlesCurrent'
    BY <1>4 DEF Born
  <2>2. SeqsDistinct'
    BY <1>4 DEF Born
  <2>3. ParentsStay'
    <3>1. \A c \in DOMAIN live :
            /\ live[c].parent # NoParent =>
                 /\ live[c].parent \in DOMAIN live'
                 /\ live'[live[c].parent].seq = live[c].parentSeq
            /\ live[c].closed = FALSE
      BY <1>4 DEF Born
    <3>2. /\ live'[h].parent # NoParent =>
              /\ live'[h].parent \in DOMAIN live'
              /\ live'[live'[h].parent].seq = live'[h].parentSeq
          /\ live'[h].closed = FALSE
      BY <1>4 DEF Born
    <3>3. DOMAIN live' = DOMAIN live \cup {h} /\ \A c \in DOMAIN live : live'[c] = live[c]
      BY <1>4 DEF Born
    <3>4. ASSUME NEW c \in DOMAIN live'
          PROVE  /\ live'[c].parent # NoParent =>
                      /\ live'[c].parent \in DOMAIN live'
                      /\ live'[live'[c].parent].seq = live'[c].parentSeq
                 /\ live'[c].closed = FALSE
      <4>1. CASE c = h
        BY <3>2, <4>1
      <4>2. CASE c # h
        <5>1. c \in DOMAIN live /\ live'[c] = live[c]
          BY <3>3, <4>2
        <5>. QED
          BY <3>1, <5>1
      <4>. QED
        BY <4>1, <4>2
    <3>. QED
      BY <3>4
  <2>. QED
    BY <1>1, <2>1, <2>2, <2>3
<1>5. ASSUME NEW id \in Leaves, Gone(id), evicting, pc' = pc PROVE StoreInv'
  <2>1. HandlesCurrent'
    BY <1>5 DEF Gone
  <2>2. SeqsDistinct'
    BY <1>5 DEF Gone
  <2>3. ParentsStay'
    BY <1>1, <1>5 DEF Gone
  <2>. QED
    BY <1>1, <2>1, <2>2, <2>3
<1>6. ASSUME NEW id \in Leaves, ClosedHere(id), ~evicting, pc = "finish", pc' = pc PROVE StoreInv'
  <2>1. HandlesCurrent'
    BY <1>6 DEF ClosedHere
  <2>2. SeqsDistinct'
    <3>1. \A c \in DOMAIN live' : live'[c].seq = live[c].seq /\ IsStream(live'[c])
      BY <1>6 DEF ClosedHere
    <3>. QED
      BY <1>6, <3>1 DEF ClosedHere
  <2>3. ParentsStay'
    <3>1. \A c \in DOMAIN live' :
            /\ live'[c].seq = live[c].seq
            /\ live'[c].parent = live[c].parent /\ live'[c].parentSeq = live[c].parentSeq
            /\ live'[c].closed \in BOOLEAN
      BY <1>6 DEF ClosedHere
    <3>. QED
      BY <1>1, <1>6, <3>1 DEF ClosedHere
  <2>. QED
    BY <1>1, <2>1, <2>2, <2>3
<1>. QED
  BY <1>2, <1>3, <1>4, <1>5, <1>6, StepEffect
----------------------------------------------------------------------------
(* What has been printed.                                                  *)

Phases == [phase : {"unseen", "open", "closed"}, ago : Nat]

\* What a batch of lines leaves of the record of a stream.
LEMMA PrintEffect ==
  ASSUME told \in Seq(Phases), NEW ls, PrintLines(ls)
  PROVE  /\ told' \in Seq(Phases) /\ Len(told') = Len(told) /\ DOMAIN told' = DOMAIN told
         /\ \A s \in DOMAIN told :
              /\ (\E l \in ls : l.seq = s) =>
                   /\ told'[s].ago = 0
                   /\ (\E l \in ls : l.seq = s /\ l.kind = "closed") => told'[s].phase = "closed"
                   /\ ~(\E l \in ls : l.seq = s /\ l.kind = "closed") => told'[s].phase = "open"
              /\ ~(\E l \in ls : l.seq = s) => told'[s] = told[s]
<1>. DEFINE mark(s) == [phase |-> IF \E l \in ls : l.seq = s /\ l.kind = "closed" THEN "closed"
                                  ELSE "open",
                        ago |-> 0]
            entry(s) == IF \E l \in ls : l.seq = s THEN mark(s) ELSE told[s]
<1>1. told' = [s \in DOMAIN told |-> entry(s)]
  BY DEF PrintLines
<1>2. DOMAIN told = 1..Len(told) /\ Len(told) \in Nat
  OBVIOUS
<1>3. \A s \in DOMAIN told : entry(s) \in Phases
  <2>1. \A s : mark(s) \in Phases
    BY DEF Phases
  <2>2. \A s \in DOMAIN told : told[s] \in Phases
    BY ElementOfSeq, <1>2
  <2>. QED
    BY <2>1, <2>2
<1>4. told' \in Seq(Phases) /\ Len(told') = Len(told) /\ DOMAIN told' = DOMAIN told
  <2>. HIDE DEF entry
  <2>1. told' \in [1..Len(told) -> Phases]
    BY <1>1, <1>2, <1>3
  <2>. QED
    BY <1>2, <2>1, SeqDef, LenProperties
<1>5. \A s : /\ mark(s).ago = 0
             /\ (\E l \in ls : l.seq = s /\ l.kind = "closed") => mark(s).phase = "closed"
             /\ ~(\E l \in ls : l.seq = s /\ l.kind = "closed") => mark(s).phase = "open"
  OBVIOUS
<1>. QED
  <2>. HIDE DEF mark
  <2>. QED
    BY <1>1, <1>4, <1>5

\* A line of its own for a stream, and none for another.
LEMMA LineFields ==
  ASSUME NEW kind, NEW s, NEW parent
  PROVE  LET l == Line(kind, s, parent)
         IN  /\ l.kind = kind /\ l.seq = s.seq /\ l.parent = parent /\ l.under = s.parentSeq
             /\ l.after = told[s.seq].phase /\ l.gap = told[s.seq].ago
  BY DEF Line

\* Nobody has been told anything.
LEMMA ToldInit == Init => ToldInv
<1>. SUFFICES ASSUME Init PROVE ToldInv
  OBVIOUS
<1>1. told = <<>> /\ live = <<>> /\ lastEmitted = <<>> /\ nextSeq = 1 /\ pc = "recv"
  BY DEF Init
<1>2. told \in Seq(Phases) /\ Len(told) = nextSeq - 1 /\ DOMAIN told = {}
  BY <1>1
<1>. QED
  BY <1>1, <1>2 DEF ToldInv, IsTable, Unclosed, Phases

\* The line that a stream's end prints: the stream is closed from then on, and
\* nothing else changes.
LEMMA EndEffect ==
  ASSUME StoreInv, ToldInv, NEW id \in Unclosed, OnEvicted(id)
  PROVE  /\ told' \in Seq(Phases) /\ Len(told') = Len(told) /\ DOMAIN told' = DOMAIN told
         /\ told'[live[id].seq].phase = "closed"
         /\ \A s \in DOMAIN told : s # live[id].seq => told'[s] = told[s]
         /\ IsTable(lastEmitted') /\ DOMAIN lastEmitted' = DOMAIN lastEmitted \ {id}
         /\ \A c \in DOMAIN lastEmitted' : lastEmitted'[c] = lastEmitted[c]
<1>. DEFINE line == Line("closed", live[id], DisplayOf(live[id].parent))
<1>1. PrintLines({line}) /\ line.seq = live[id].seq /\ line.kind = "closed"
  BY LineFields DEF OnEvicted
<1>2. live[id].seq \in DOMAIN told /\ told \in Seq(Phases)
  BY DEF StoreInv, SeqsDistinct, ToldInv, Unclosed, Phases
<1>3. lastEmitted' = Restrict(lastEmitted, DOMAIN lastEmitted \ {id})
  BY DEF OnEvicted, TrackerKey
<1>. HIDE DEF line
<1>4. /\ told' \in Seq(Phases) /\ Len(told') = Len(told) /\ DOMAIN told' = DOMAIN told
      /\ told'[live[id].seq].phase = "closed"
      /\ \A s \in DOMAIN told : s # live[id].seq => told'[s] = told[s]
  BY <1>1, <1>2, PrintEffect
<1>. QED
  BY <1>3, <1>4 DEF Restrict, IsTable
\* on_evicted tells of an end, and what it tells of is closed from then on.
LEMMA ToldEnd ==
  ASSUME StoreInv, ToldInv, StoreInv', pc' = pc, pc # "done", UNCHANGED evicting,
         NEW id \in Leaves, OnEvicted(id),
         \/ Gone(id)
         \/ ClosedHere(id)
  PROVE  ToldInv'
<1>. USE DEF StoreInv, SeqsDistinct, Phases
<1>1. id \in Unclosed /\ id \in DOMAIN live /\ ~live[id].closed
  BY DEF Leaves, Unclosed
<1>2. /\ told' \in Seq(Phases) /\ Len(told') = Len(told) /\ DOMAIN told' = DOMAIN told
      /\ told'[live[id].seq].phase = "closed"
      /\ \A s \in DOMAIN told : s # live[id].seq => told'[s] = told[s]
      /\ IsTable(lastEmitted') /\ DOMAIN lastEmitted' = DOMAIN lastEmitted \ {id}
      /\ \A c \in DOMAIN lastEmitted' : lastEmitted'[c] = lastEmitted[c]
  BY <1>1, EndEffect
<1>3. /\ DOMAIN live' \subseteq DOMAIN live /\ DOMAIN live \ {id} \subseteq DOMAIN live'
      /\ \A c \in DOMAIN live' : c # id => live'[c] = live[c]
      /\ id \in DOMAIN live' => live'[id].closed /\ live'[id].seq = live[id].seq
      /\ nextSeq' = nextSeq
  BY DEF Gone, ClosedHere
<1>4. \A c \in DOMAIN live' : c # id =>
        live'[c].seq \in DOMAIN told /\ live'[c].seq # live[id].seq
        /\ told'[live'[c].seq] = told[live[c].seq]
  <2>1. DOMAIN told = 1..(nextSeq - 1)
    BY DEF ToldInv
  <2>. QED
    BY <1>1, <1>2, <1>3, <2>1
<1>5. DOMAIN lastEmitted' \subseteq Unclosed'
  BY <1>2, <1>3 DEF ToldInv, Unclosed
<1>6. ASSUME NEW c \in DOMAIN live'
      PROVE  /\ live'[c].closed => told'[live'[c].seq].phase = "closed"
             /\ c \in DOMAIN lastEmitted' => /\ told'[live'[c].seq].phase = "open"
                                             /\ told'[live'[c].seq].ago = lastEmitted'[c]
             /\ ~live'[c].closed /\ c \notin DOMAIN lastEmitted'
                  => told'[live'[c].seq].phase = "unseen"
  <2>1. CASE c = id
    BY <1>2, <1>3, <2>1
  <2>2. CASE c # id
    BY <1>2, <1>3, <1>4, <2>2, ZenonT(40) DEF ToldInv
  <2>. QED
    BY <2>1, <2>2
<1>7. ASSUME NEW s \in DOMAIN told', told'[s].phase # "closed"
      PROVE  \E c \in DOMAIN live' : live'[c].seq = s
  <2>1. s # live[id].seq /\ told[s].phase # "closed" /\ s \in DOMAIN told
    BY <1>2, <1>7
  <2>2. PICK c \in DOMAIN live : live[c].seq = s
    BY <2>1 DEF ToldInv
  <2>. QED
    BY <1>3, <2>1, <2>2
<1>8. told' \in Seq([phase : {"unseen", "open", "closed"}, ago : Nat]) /\ Len(told') = nextSeq' - 1
  BY <1>2, <1>3 DEF ToldInv
<1>. QED
  BY <1>2, <1>5, <1>6, <1>7, <1>8 DEF ToldInv

\* A wait ages what the tracker knows and what has been printed alike.
LEMMA ToldReceive ==
  ASSUME StoreInv, ToldInv, NEW w \in Waits, Receive(w)
  PROVE  ToldInv'
<1>. USE DEF StoreInv, SeqsDistinct, Phases
<1>1. \A n \in Nat : Aged(n, w) \in Nat
  BY EventsAssumption DEF Aged, Smaller, Second
<1>. DEFINE older(t) == IF t.phase = "open" THEN [t EXCEPT !.ago = Aged(@, w)] ELSE t
<1>2. \A t \in Phases : /\ older(t) \in Phases /\ older(t).phase = t.phase
                        /\ t.phase = "open" => older(t).ago = Aged(t.ago, w)
  BY <1>1
<1>3. told' = [s \in DOMAIN told |-> older(told[s])]
  BY DEF Receive
<1>4. DOMAIN told = 1..Len(told) /\ Len(told) \in Nat /\ told \in Seq(Phases)
  BY DEF ToldInv
<1>5. \A s \in DOMAIN told : told[s] \in Phases
  BY <1>4, ElementOfSeq
<1>. HIDE DEF older
<1>6. told' \in Seq(Phases) /\ Len(told') = Len(told) /\ DOMAIN told' = DOMAIN told
  <2>1. told' \in [1..Len(told) -> Phases]
    BY <1>2, <1>3, <1>4, <1>5
  <2>. QED
    BY <1>4, <2>1, SeqDef, LenProperties
<1>7. \A s \in DOMAIN told : /\ told'[s].phase = told[s].phase
                             /\ told[s].phase = "open" => told'[s].ago = Aged(told[s].ago, w)
  BY <1>2, <1>3, <1>5
<1>8. /\ lastEmitted' = [id \in DOMAIN lastEmitted |-> Aged(lastEmitted[id], w)]
      /\ UNCHANGED <<live, nextSeq>> /\ pc' = "sweep"
  BY DEF Receive, agg
<1>9. IsTable(lastEmitted') /\ DOMAIN lastEmitted' \subseteq Unclosed'
  BY <1>8 DEF ToldInv, Unclosed, IsTable
<1>10. \A id \in DOMAIN live : live[id].seq \in DOMAIN told
  BY <1>4 DEF ToldInv
<1>11. ASSUME NEW id \in DOMAIN live'
       PROVE  /\ live'[id].closed => told'[live'[id].seq].phase = "closed"
              /\ id \in DOMAIN lastEmitted' => /\ told'[live'[id].seq].phase = "open"
                                              /\ told'[live'[id].seq].ago = lastEmitted'[id]
              /\ ~live'[id].closed /\ id \notin DOMAIN lastEmitted'
                   => told'[live'[id].seq].phase = "unseen"
  BY <1>7, <1>8, <1>10 DEF ToldInv
<1>12. ASSUME NEW s \in DOMAIN told', told'[s].phase # "closed"
       PROVE  \E c \in DOMAIN live' : live'[c].seq = s
  BY <1>6, <1>7, <1>8, <1>12 DEF ToldInv
<1>13. told' \in Seq([phase : {"unseen", "open", "closed"}, ago : Nat]) /\ Len(told') = nextSeq' - 1
  BY <1>6, <1>8 DEF ToldInv
<1>. QED
  BY <1>8, <1>9, <1>11, <1>12, <1>13 DEF ToldInv

\* A stream is created unseen.
LEMMA ToldFold ==
  ASSUME StoreInv, StoreInv', ToldInv, UNCHANGED tracker, pc' # "done",
         \/ Kept /\ PrintNothing
         \/ /\ \E h : Born(h)
            /\ told' = Append(told, [phase |-> "unseen", ago |-> 0]) /\ lines' = {}
  PROVE  ToldInv'
<1>. USE DEF StoreInv, SeqsDistinct, Phases
<1>1. UNCHANGED lastEmitted
  BY DEF tracker
<1>2. CASE Kept /\ PrintNothing
  <2>1. Unclosed' = Unclosed
    BY <1>2 DEF Kept, Unclosed
  <2>. QED
    BY <1>1, <1>2, <2>1 DEF Kept, PrintNothing, ToldInv
<1>3. ASSUME NEW h, Born(h), told' = Append(told, [phase |-> "unseen", ago |-> 0])
      PROVE  ToldInv'
  <2>. DEFINE new == [phase |-> "unseen", ago |-> 0]
  <2>1. new \in Phases /\ new.phase = "unseen" /\ told \in Seq(Phases) /\ Len(told) = nextSeq - 1
    BY DEF ToldInv
  <2>. HIDE DEF new
  <2>2. /\ told' \in Seq(Phases) /\ Len(told') = nextSeq' - 1
        /\ DOMAIN told' = 1..nextSeq /\ DOMAIN told = 1..(nextSeq - 1)
        /\ \A s \in DOMAIN told : told'[s] = told[s]
        /\ told'[nextSeq] = new
    <3>1. told' = Append(told, new) /\ nextSeq' = nextSeq + 1
      BY <1>3 DEF Born, new
    <3>. QED
      BY <2>1, <3>1, AppendProperties
  <2>3. Unclosed' = Unclosed \cup {h} /\ h \notin DOMAIN lastEmitted
    <3>1. /\ DOMAIN live' = DOMAIN live \cup {h} /\ h \notin DOMAIN live
          /\ \A c \in DOMAIN live : live'[c] = live[c]
          /\ live'[h].closed = FALSE
      BY <1>3 DEF Born
    <3>. QED
      BY <3>1 DEF Unclosed, ToldInv
  <2>4. ASSUME NEW c \in DOMAIN live'
        PROVE  /\ live'[c].closed => told'[live'[c].seq].phase = "closed"
               /\ c \in DOMAIN lastEmitted' => /\ told'[live'[c].seq].phase = "open"
                                               /\ told'[live'[c].seq].ago = lastEmitted'[c]
               /\ ~live'[c].closed /\ c \notin DOMAIN lastEmitted'
                    => told'[live'[c].seq].phase = "unseen"
    <3>1. CASE c = h
      BY <1>1, <1>3, <2>1, <2>2, <2>3, <3>1 DEF Born
    <3>2. CASE c # h
      <4>1. c \in DOMAIN live /\ live'[c] = live[c] /\ live[c].seq \in DOMAIN told
        BY <1>3, <2>2, <3>2 DEF Born
      <4>. QED
        BY <1>1, <2>2, <4>1 DEF ToldInv
    <3>. QED
      BY <3>1, <3>2
  <2>5. ASSUME NEW s \in DOMAIN told', told'[s].phase # "closed"
        PROVE  \E c \in DOMAIN live' : live'[c].seq = s
    <3>1. CASE s = nextSeq
      BY <1>3, <3>1 DEF Born
    <3>2. CASE s # nextSeq
      <4>1. s \in DOMAIN told /\ told[s].phase # "closed"
        BY <2>2, <2>5, <3>2
      <4>2. PICK c \in DOMAIN live : live[c].seq = s
        BY <4>1 DEF ToldInv
      <4>. QED
        BY <1>3, <4>2 DEF Born
    <3>. QED
      BY <3>1, <3>2
  <2>. QED
    BY <1>1, <2>2, <2>3, <2>4, <2>5 DEF ToldInv
<1>. QED
  BY <1>2, <1>3
\* The parent a polled line names.
PolledParent(id) ==
  IF live[id].parent = NoParent THEN 0 ELSE seqById'[TrackerKey(live[id].parent)]

\* A poll that is not throttled, as what it does to the tables: every live
\* stream gets its number, and those that are due a line of their own.
LEMMA PollEffect ==
  ASSUME Poll, ~(UNCHANGED tracker /\ PrintNothing)
  PROVE  LET due == {id \in DOMAIN live : Due(id)}
             ls == {Line(Kind(id), live[id], PolledParent(id)) : id \in due}
         IN  /\ seqById' = [k \in DOMAIN live \cup DOMAIN seqById |->
                              IF k \in DOMAIN live THEN live[k].seq ELSE seqById[k]]
             /\ lastEmitted' = [k \in due \cup DOMAIN lastEmitted |->
                                  IF k \in due THEN 0 ELSE lastEmitted[k]]
             /\ PrintLines(ls)
<1>. DEFINE due == {id \in DOMAIN live : Due(id)}
            ls == {Line(Kind(id), live[id], PolledParent(id)) : id \in due}
            numbers == [k \in DOMAIN live |-> live[k].seq]
            zeros == [k \in due |-> 0]
<1>1. /\ seqById' = Overlay([k \in {TrackerKey(id) : id \in DOMAIN live} |->
                               live[CHOOSE id \in DOMAIN live : TrackerKey(id) = k].seq], seqById)
      /\ lastEmitted' = Overlay([k \in {TrackerKey(id) : id \in due} |-> 0], lastEmitted)
      /\ PrintLines(ls)
  BY Zenon DEF Poll, PolledParent
<1>2. \A S : {TrackerKey(id) : id \in S} = S
  BY DEF TrackerKey
<1>3. \A k \in DOMAIN live : (CHOOSE id \in DOMAIN live : TrackerKey(id) = k) = k
  BY DEF TrackerKey
<1>4. /\ [k \in {TrackerKey(id) : id \in DOMAIN live} |->
            live[CHOOSE id \in DOMAIN live : TrackerKey(id) = k].seq] = numbers
      /\ [k \in {TrackerKey(id) : id \in due} |-> 0] = zeros
  <2>1. \A k \in DOMAIN live :
          live[CHOOSE id \in DOMAIN live : TrackerKey(id) = k].seq = live[k].seq
    BY <1>3, Zenon
  <2>2. {TrackerKey(id) : id \in DOMAIN live} = DOMAIN live /\ {TrackerKey(id) : id \in due} = due
    BY <1>2, Zenon
  <2>. QED
    BY <2>1, <2>2, Zenon
<1>. HIDE DEF ls, due
<1>5. /\ Overlay(numbers, seqById) = [k \in DOMAIN live \cup DOMAIN seqById |->
                                        IF k \in DOMAIN live THEN live[k].seq ELSE seqById[k]]
      /\ Overlay(zeros, lastEmitted) = [k \in due \cup DOMAIN lastEmitted |->
                                          IF k \in due THEN 0 ELSE lastEmitted[k]]
  BY DEF Overlay
<1>6. seqById' = Overlay(numbers, seqById) /\ lastEmitted' = Overlay(zeros, lastEmitted)
  BY <1>1, <1>4
<1>. QED
  BY <1>1, <1>5, <1>6 DEF due, ls

\* A poll tells of what it finds live.
LEMMA ToldPoll ==
  ASSUME StoreInv, ToldInv, Poll
  PROVE  ToldInv'
<1>. USE DEF StoreInv, SeqsDistinct, Phases
<1>1. UNCHANGED <<live, nextSeq, evicting>> /\ pc = "cap" /\ pc' = "recv"
  BY DEF Poll, agg
<1>2. CASE UNCHANGED tracker /\ PrintNothing
  BY <1>1, <1>2 DEF tracker, PrintNothing, ToldInv, Unclosed
<1>3. CASE ~(UNCHANGED tracker /\ PrintNothing)
  <2>. DEFINE due == {id \in DOMAIN live : Due(id)}
              ls == {Line(Kind(id), live[id], PolledParent(id)) : id \in due}
  <2>1. /\ PrintLines(ls)
        /\ lastEmitted' = [k \in due \cup DOMAIN lastEmitted |->
                             IF k \in due THEN 0 ELSE lastEmitted[k]]
    BY <1>3, PollEffect
  <2>2. told \in Seq(Phases) /\ DOMAIN told = 1..(nextSeq - 1)
    BY DEF ToldInv
  <2>3. \A s : (\E l \in ls : l.seq = s) <=> \E id \in due : live[id].seq = s
    BY LineFields
  <2>4. \A l \in ls : l.kind # "closed"
    BY LineFields DEF Kind
  <2>5. \A id \in DOMAIN live : ~live[id].closed /\ live[id].seq \in DOMAIN told
    BY <1>1, <2>2 DEF ParentsStay
  <2>. HIDE DEF ls
  <2>6. /\ told' \in Seq(Phases) /\ Len(told') = Len(told) /\ DOMAIN told' = DOMAIN told
        /\ \A s \in DOMAIN told :
             /\ (\E id \in due : live[id].seq = s) => told'[s].ago = 0 /\ told'[s].phase = "open"
             /\ ~(\E id \in due : live[id].seq = s) => told'[s] = told[s]
    <3>1. /\ told' \in Seq(Phases) /\ Len(told') = Len(told) /\ DOMAIN told' = DOMAIN told
          /\ \A s \in DOMAIN told :
               /\ (\E l \in ls : l.seq = s) =>
                    /\ told'[s].ago = 0
                    /\ ~(\E l \in ls : l.seq = s /\ l.kind = "closed") => told'[s].phase = "open"
               /\ ~(\E l \in ls : l.seq = s) => told'[s] = told[s]
      BY <2>1, <2>2, PrintEffect
    <3>. QED
      BY <2>3, <2>4, <3>1, Zenon
  <2>7. \A id \in DOMAIN live : id \notin due => ~\E c \in due : live[c].seq = live[id].seq
    OBVIOUS
  <2>8. \A id \in DOMAIN live : id \notin due => id \in DOMAIN lastEmitted
    BY DEF Due, TrackerKey
  <2>9. IsTable(lastEmitted') /\ DOMAIN lastEmitted' \subseteq Unclosed'
    <3>1. due \subseteq Unclosed
      BY <2>5 DEF Unclosed
    <3>2. Unclosed' = Unclosed
      BY <1>1 DEF Unclosed
    <3>. QED
      BY <2>1, <3>1, <3>2 DEF IsTable, ToldInv
  <2>10. ASSUME NEW id \in DOMAIN live'
         PROVE  /\ live'[id].closed => told'[live'[id].seq].phase = "closed"
                /\ id \in DOMAIN lastEmitted' => /\ told'[live'[id].seq].phase = "open"
                                                /\ told'[live'[id].seq].ago = lastEmitted'[id]
                /\ ~live'[id].closed /\ id \notin DOMAIN lastEmitted'
                     => told'[live'[id].seq].phase = "unseen"
    <3>1. id \in DOMAIN live /\ live' = live
      BY <1>1
    <3>2. CASE id \in due
      BY <2>1, <2>5, <2>6, <3>1, <3>2
    <3>3. CASE id \notin due
      <4>1. told'[live[id].seq] = told[live[id].seq] /\ lastEmitted'[id] = lastEmitted[id]
            /\ id \in DOMAIN lastEmitted
        BY <2>1, <2>5, <2>6, <2>7, <2>8, <3>1, <3>3
      <4>2. told[live[id].seq].phase = "open" /\ told[live[id].seq].ago = lastEmitted[id]
        BY <3>1, <4>1 DEF ToldInv
      <4>. QED
        BY <2>1, <2>5, <3>1, <4>1, <4>2
    <3>. QED
      BY <3>2, <3>3
  <2>11. ASSUME NEW s \in DOMAIN told', told'[s].phase # "closed"
         PROVE  \E c \in DOMAIN live' : live'[c].seq = s
    <3>1. CASE \E id \in due : live[id].seq = s
      BY <1>1, <3>1
    <3>2. CASE ~\E id \in due : live[id].seq = s
      BY <1>1, <2>6, <2>11, <3>2 DEF ToldInv
    <3>. QED
      BY <3>1, <3>2
  <2>12. told' \in Seq([phase : {"unseen", "open", "closed"}, ago : Nat]) /\ Len(told') = nextSeq' - 1
    BY <1>1, <2>6 DEF ToldInv
  <2>. QED
    BY <1>1, <2>9, <2>10, <2>11, <2>12 DEF ToldInv
<1>. QED
  BY <1>2, <1>3

\* Every step keeps what was told in order.
LEMMA ToldStep == StoreInv /\ ToldInv /\ [Next]_vars => ToldInv'
<1>. SUFFICES ASSUME StoreInv, ToldInv, [Next]_vars PROVE ToldInv'
  OBVIOUS
<1>0. StoreInv'
  BY StoreStep
<1>1. ASSUME NEW w \in Waits, Receive(w) PROVE ToldInv'
  BY <1>1, ToldReceive
<1>2. ASSUME NEW id \in DOMAIN live, SweepOrCap(id) PROVE ToldInv'
  BY <1>0, <1>2, ToldEnd, EvictEffect DEF SweepOrCap, Evict
<1>3. ASSUME NEW id \in DOMAIN live, Finish(id) PROVE ToldInv'
  BY <1>0, <1>3, ToldEnd, EvictEffect, CloseEffect DEF Finish, Evict
<1>4. ASSUME FoldRoot PROVE ToldInv'
  BY <1>0, <1>4, FoldEffect, ToldFold DEF FoldRoot
<1>5. ASSUME FoldSession PROVE ToldInv'
  BY <1>0, <1>5, FoldEffect, ToldFold DEF FoldSession, Lookup
<1>6. ASSUME Poll PROVE ToldInv'
  BY <1>6, ToldPoll
<1>7. ASSUME End PROVE ToldInv'
  BY <1>7 DEF End, agg, tracker, PrintNothing, ToldInv, Unclosed
<1>8. ASSUME Summary PROVE ToldInv'
  BY <1>8 DEF Summary, agg, tracker, PrintNothing, ToldInv, Unclosed
<1>9. ASSUME Done \/ UNCHANGED vars PROVE ToldInv'
  BY <1>9 DEF Done, vars, agg, tracker, printed, ToldInv, Unclosed
<1>. QED
  BY <1>1, <1>2, <1>3, <1>4, <1>5, <1>6, <1>7, <1>8, <1>9 DEF Next
----------------------------------------------------------------------------
(* The numbers the tracker keeps, and the linger clock.                    *)

\* No slot and no tracker number is in use.
LEMMA NumbersInit == Init => NumbersInv
  BY DEF Init, NumbersInv, IsTable

\* Only a poll writes seq_by_id.
LEMMA NumbersWritten ==
  ASSUME [Next]_vars
  PROVE  UNCHANGED seqById \/ (Poll /\ ~(UNCHANGED tracker /\ PrintNothing))
<1>1. ASSUME NEW w \in Waits, Receive(w) PROVE UNCHANGED seqById
  BY <1>1 DEF Receive
<1>2. ASSUME NEW id \in DOMAIN live, SweepOrCap(id) \/ Finish(id) PROVE UNCHANGED seqById
  BY <1>2 DEF SweepOrCap, Finish, Evict, OnEvicted
<1>3. ASSUME FoldRoot \/ FoldSession \/ End \/ Summary PROVE UNCHANGED seqById
  BY <1>3 DEF FoldRoot, FoldSession, End, Summary, tracker
<1>4. ASSUME Done \/ UNCHANGED vars PROVE UNCHANGED seqById
  BY <1>4 DEF Done, vars, tracker
<1>5. UNCHANGED tracker => UNCHANGED seqById
  BY DEF tracker
<1>. QED
  BY <1>1, <1>2, <1>3, <1>4, <1>5 DEF Next

\* Every step keeps trackers behind the slots they are about.
LEMMA NumbersStep == StoreInv /\ NumbersInv /\ [Next]_vars => NumbersInv'
<1>. SUFFICES ASSUME StoreInv, NumbersInv, [Next]_vars PROVE NumbersInv'
  OBVIOUS
<1>. USE DEF StoreInv, HandlesCurrent, SeqsDistinct
<1>1. CASE UNCHANGED seqById
  <2>1. CASE UNCHANGED <<live, generation, nextSeq>>
    BY <1>1, <2>1 DEF NumbersInv
  <2>2. CASE Kept
    BY <1>1, <2>2 DEF NumbersInv, Kept
  <2>3. ASSUME NEW h, Born(h) PROVE NumbersInv'
    <3>1. h \notin DOMAIN seqById
      BY <2>3 DEF NumbersInv, Born
    <3>. QED
      BY <1>1, <2>3, <3>1 DEF NumbersInv, Born
  <2>4. ASSUME NEW id, Gone(id) PROVE NumbersInv'
    <3>1. \A s \in Slots : generation'[s] \in Nat /\ generation'[s] >= generation[s]
      BY <2>4 DEF Gone
    <3>2. id[2] < generation'[id[1]]
      BY <2>4 DEF Gone
    <3>. QED
      BY <1>1, <2>4, <3>1, <3>2 DEF NumbersInv, Gone
  <2>5. ASSUME NEW id, ClosedHere(id) PROVE NumbersInv'
    <3>1. \A c \in DOMAIN live : live'[c].seq = live[c].seq
      BY <2>5 DEF ClosedHere
    <3>. QED
      BY <1>1, <2>5, <3>1 DEF NumbersInv, ClosedHere
  <2>. QED
    BY <2>1, <2>2, <2>3, <2>4, <2>5, StepEffect
<1>2. CASE Poll /\ ~(UNCHANGED tracker /\ PrintNothing)
  <2>1. seqById' = [k \in DOMAIN live \cup DOMAIN seqById |->
                      IF k \in DOMAIN live THEN live[k].seq ELSE seqById[k]]
    BY <1>2, PollEffect
  <2>2. UNCHANGED <<live, generation>>
    BY <1>2 DEF Poll, agg
  <2>. QED
    BY <2>1, <2>2 DEF NumbersInv, IsTable
<1>. QED
  BY <1>1, <1>2, NumbersWritten

\* Every step keeps a parent open as long as a child is.
LEMMA FamilyStep == StoreInv /\ FamilyInv /\ [Next]_vars => FamilyInv'
<1>. SUFFICES ASSUME StoreInv, FamilyInv, [Next]_vars PROVE FamilyInv'
  OBVIOUS
<1>. USE DEF StoreInv, ParentsStay, FamilyInv
<1>1. CASE UNCHANGED <<live, generation, nextSeq>>
  BY <1>1
<1>2. CASE Kept
  BY <1>2 DEF Kept
<1>3. ASSUME NEW h, Born(h), pc \in {"sweep", "fold"} PROVE FamilyInv'
  <2>1. /\ DOMAIN live' = DOMAIN live \cup {h} /\ h \notin DOMAIN live
        /\ \A c \in DOMAIN live : live'[c] = live[c]
        /\ live'[h].closed = FALSE
        /\ live'[h].parent = NoParent => live'[h].parentSeq = 0
        /\ live'[h].parent # NoParent => live'[h].parent \in DOMAIN live
    BY <1>3 DEF Born
  <2>2. \A c \in DOMAIN live : live[c].closed = FALSE
    BY <1>3
  <2>3. \A c \in DOMAIN live' : live'[c].closed = FALSE
    BY <2>1, <2>2
  <2>4. \A c \in DOMAIN live' : live'[c].parent # NoParent => live'[c].parent \in DOMAIN live'
    BY <2>1
  <2>5. \A c \in DOMAIN live' : live'[c].parent = NoParent => live'[c].parentSeq = 0
    BY <2>1
  <2>. QED
    BY <2>3, <2>4, <2>5
<1>4. ASSUME NEW id \in Leaves, Gone(id) PROVE FamilyInv'
  BY <1>4 DEF Gone
<1>5. ASSUME NEW id \in Leaves, ClosedHere(id) PROVE FamilyInv'
  <2>1. \A c \in DOMAIN live : live[c].parent = id => live[c].closed
    BY DEF Leaves, ChildrenOf, Unclosed
  <2>2. /\ DOMAIN live' = DOMAIN live /\ id \in DOMAIN live
        /\ \A c \in DOMAIN live : c # id => live'[c] = live[c]
        /\ live'[id].closed = TRUE
        /\ live'[id].parent = live[id].parent /\ live'[id].parentSeq = live[id].parentSeq
    BY <1>5 DEF ClosedHere
  <2>3. ASSUME NEW c \in DOMAIN live'
        PROVE  /\ live'[c].parent = NoParent => live'[c].parentSeq = 0
               /\ live'[c].parent # NoParent /\ ~live'[c].closed
                    => ~live'[live'[c].parent].closed
    BY <2>1, <2>2
  <2>. QED
    BY <2>3
<1>. QED
  BY <1>1, <1>2, <1>3, <1>4, <1>5, StepEffect

\* A step that is neither a poll nor an end leaves what the tracker knows.
LEMMA TrackerKept ==
  ASSUME [Next]_vars, ~Poll, ~\E id \in DOMAIN live : SweepOrCap(id) \/ Finish(id)
  PROVE  UNCHANGED seqById /\ DOMAIN lastEmitted' = DOMAIN lastEmitted
<1>1. ASSUME NEW w \in Waits, Receive(w)
      PROVE  UNCHANGED seqById /\ DOMAIN lastEmitted' = DOMAIN lastEmitted
  BY <1>1 DEF Receive
<1>2. ASSUME FoldRoot \/ FoldSession \/ End \/ Summary
      PROVE  UNCHANGED seqById /\ DOMAIN lastEmitted' = DOMAIN lastEmitted
  BY <1>2 DEF FoldRoot, FoldSession, End, Summary, tracker
<1>3. ASSUME Done \/ UNCHANGED vars
      PROVE  UNCHANGED seqById /\ DOMAIN lastEmitted' = DOMAIN lastEmitted
  BY <1>3 DEF Done, vars, tracker
<1>. QED
  BY <1>1, <1>2, <1>3 DEF Next

\* A poll that speaks has seen every live stream.
LEMMA SeenPoll ==
  ASSUME SeenInv, Poll
  PROVE  SeenInv'
<1>1. UNCHANGED live
  BY DEF Poll, agg
<1>2. CASE UNCHANGED tracker /\ PrintNothing
  BY <1>1, <1>2 DEF SeenInv, tracker
<1>3. CASE ~(UNCHANGED tracker /\ PrintNothing)
  <2>. DEFINE due == {id \in DOMAIN live : Due(id)}
  <2>1. /\ DOMAIN seqById' = DOMAIN live \cup DOMAIN seqById
        /\ DOMAIN lastEmitted' = due \cup DOMAIN lastEmitted
    BY <1>3, PollEffect
  <2>2. \A id \in DOMAIN live : id \notin due => id \in DOMAIN lastEmitted
    BY DEF Due, TrackerKey
  <2>. QED
    BY <1>1, <2>1, <2>2 DEF SeenInv
<1>. QED
  BY <1>2, <1>3

\* Every step keeps the tracker's two tables about the same open streams.
LEMMA SeenStep ==
  ASSUME StoreInv, ToldInv, NumbersInv, SeenInv, [Next]_vars
  PROVE  SeenInv'
<1>1. CASE Poll
  BY <1>1, SeenPoll
<1>2. ASSUME NEW id \in DOMAIN live, SweepOrCap(id) \/ Finish(id) PROVE SeenInv'
  <2>1. OnEvicted(id) /\ id \in Leaves
    BY <1>2 DEF SweepOrCap, Finish, Evict
  <2>2. DOMAIN lastEmitted' = DOMAIN lastEmitted \ {id} /\ UNCHANGED seqById
    BY <2>1 DEF OnEvicted, Restrict, TrackerKey
  <2>3. Gone(id) \/ ClosedHere(id)
    BY <1>2, EvictEffect, CloseEffect DEF SweepOrCap, Finish
  <2>4. /\ DOMAIN live' \subseteq DOMAIN live
        /\ \A c \in DOMAIN live' : c # id => live'[c] = live[c]
        /\ id \in DOMAIN live' => live'[id].closed
    BY <2>3 DEF Gone, ClosedHere
  <2>. QED
    BY <2>2, <2>4 DEF SeenInv
<1>3. CASE ~Poll /\ ~\E id \in DOMAIN live : SweepOrCap(id) \/ Finish(id)
  <2>1. UNCHANGED seqById /\ DOMAIN lastEmitted' = DOMAIN lastEmitted
    BY <1>3, TrackerKept
  <2>2. CASE UNCHANGED live
    BY <2>1, <2>2 DEF SeenInv
  <2>3. CASE Kept
    BY <2>1, <2>3 DEF SeenInv, Kept
  <2>4. ASSUME NEW h, Born(h) PROVE SeenInv'
    <3>1. /\ h \notin DOMAIN live /\ h[2] = generation[h[1]] /\ h \in Slots \X Nat
          /\ DOMAIN live' = DOMAIN live \cup {h} /\ \A c \in DOMAIN live : live'[c] = live[c]
      BY <2>4 DEF Born
    <3>2. h \notin DOMAIN seqById
      BY <3>1 DEF NumbersInv, StoreInv, HandlesCurrent
    <3>3. h \notin DOMAIN lastEmitted
      BY <3>1 DEF ToldInv, Unclosed
    <3>. QED
      BY <2>1, <3>1, <3>2, <3>3 DEF SeenInv
  <2>5. ASSUME NEW id, Gone(id) PROVE SeenInv'
    BY <2>1, <2>5 DEF SeenInv, Gone
  <2>6. ASSUME NEW id, ClosedHere(id) PROVE SeenInv'
    <3>1. /\ DOMAIN live' = DOMAIN live /\ live'[id].closed = TRUE
          /\ \A c \in DOMAIN live : c # id => live'[c] = live[c]
      BY <2>6 DEF ClosedHere
    <3>. QED
      BY <2>1, <3>1 DEF SeenInv
  <2>. QED
    BY <2>2, <2>3, <2>4, <2>5, <2>6, StepEffect
<1>. QED
  BY <1>1, <1>2, <1>3

\* What one stream's lifecycle may become in a step.
LingersOn(s, u) ==
  /\ u.eligible \in BOOLEAN
  /\ u.eligible => u.state \in ClosedStates(proto)
  /\ s.eligible => u.eligible /\ u.since = s.since

\* Folding never takes a stream out of its linger.
LEMMA LingerFold ==
  ASSUME NEW key, NEW parent, StoreInv, LingerInv, UNCHANGED proto, FoldInto(key, parent)
  PROVE  /\ LingerInv'
         /\ \A id \in DOMAIN live : id \in DOMAIN live' /\ LingersOn(live[id], live'[id])
<1>. USE DEF StoreInv, HandlesCurrent, SeqsDistinct, LingersOn
<1>1. ASSUME NEW id \in Lookup(key), live' = [live EXCEPT ![id] = Updated(@)]
      PROVE  /\ DOMAIN live' = DOMAIN live
             /\ \A c \in DOMAIN live : LingersOn(live[c], live'[c])
  <2>1. id \in DOMAIN live /\ IsStream(live[id]) /\ live[id].eligible \in BOOLEAN
        /\ (live[id].eligible => live[id].state \in ClosedStates(proto))
    BY DEF Lookup, LingerInv
  <2>2. /\ DOMAIN live' = DOMAIN live /\ live'[id] = Updated(live[id])
        /\ \A c \in DOMAIN live : c # id => live'[c] = live[c]
    BY <1>1, <2>1, ReplacedEntry
  <2>3. LingersOn(live[id], live'[id])
    BY <2>1, <2>2, UpdatedLingers
  <2>. QED
    BY <2>2, <2>3 DEF LingerInv
<1>2. ASSUME NEW slot \in Slots, Handle(slot) \notin DOMAIN live,
             live' = Overlay([id \in {Handle(slot)} |-> Updated(NewStream(key, parent, nextSeq))], live)
      PROVE  /\ DOMAIN live' = DOMAIN live \cup {Handle(slot)}
             /\ \A c \in DOMAIN live : live'[c] = live[c]
             /\ live'[Handle(slot)].eligible \in BOOLEAN
             /\ live'[Handle(slot)].eligible => live'[Handle(slot)].state \in ClosedStates(proto)
  <2>. DEFINE h == Handle(slot)
              new == NewStream(key, parent, nextSeq)
  <2>1. IsStream(new) /\ new.eligible = FALSE
    BY DEF NewStream, IsStream
  <2>. HIDE DEF h, new
  <2>2. /\ Updated(new).eligible \in BOOLEAN
        /\ Updated(new).eligible => Updated(new).state \in ClosedStates(proto)
    BY <2>1, UpdatedLingers
  <2>3. live' = [x \in DOMAIN live \cup {h} |-> IF x = h THEN Updated(new) ELSE live[x]]
    BY <1>2 DEF Overlay, h, new
  <2>4. /\ DOMAIN live' = DOMAIN live \cup {h} /\ live'[h] = Updated(new)
        /\ \A c \in DOMAIN live : live'[c] = live[c]
    BY <1>2, <2>3 DEF h
  <2>. QED
    BY <2>2, <2>4 DEF h
<1>3. CASE \E id \in Lookup(key) : live' = [live EXCEPT ![id] = Updated(@)]
  BY <1>1, <1>3 DEF LingerInv
<1>4. CASE \E slot \in Slots :
             /\ Handle(slot) \notin DOMAIN live
             /\ live' = Overlay([id \in {Handle(slot)} |-> Updated(NewStream(key, parent, nextSeq))],
                                live)
  <2>1. PICK h : /\ DOMAIN live' = DOMAIN live \cup {h}
                 /\ \A c \in DOMAIN live : live'[c] = live[c]
                 /\ live'[h].eligible \in BOOLEAN
                 /\ live'[h].eligible => live'[h].state \in ClosedStates(proto)
    BY <1>2, <1>4
  <2>. QED
    BY <2>1 DEF LingerInv
<1>. QED
  BY <1>3, <1>4 DEF FoldInto

\* No stream lingers.
LEMMA LingerInit == Init => LingerInv
  BY DEF Init, LingerInv

\* No step takes a stream out of its linger or restarts its clock.
LEMMA LingerStep ==
  ASSUME StoreInv, LingerInv, [Next]_vars
  PROVE  /\ LingerInv'
         /\ \A id \in DOMAIN live \cap DOMAIN live' :
              live[id].eligible => live'[id].eligible /\ live'[id].since = live[id].since
<1>0. UNCHANGED proto
  BY StepEffect
<1>1. ASSUME UNCHANGED live
      PROVE  /\ LingerInv'
             /\ \A id \in DOMAIN live \cap DOMAIN live' :
                  live[id].eligible => live'[id].eligible /\ live'[id].since = live[id].since
  BY <1>0, <1>1 DEF LingerInv
<1>2. ASSUME NEW id \in Leaves, Evict(id)
      PROVE  /\ LingerInv'
             /\ \A c \in DOMAIN live \cap DOMAIN live' : live'[c] = live[c]
  BY <1>0, <1>2 DEF Evict, Restrict, LingerInv
<1>3. ASSUME NEW id \in Leaves, live' = [live EXCEPT ![id].closed = TRUE]
      PROVE  /\ LingerInv'
             /\ \A c \in DOMAIN live \cap DOMAIN live' :
                  live'[c].eligible = live[c].eligible /\ live'[c].since = live[c].since
  <2>1. id \in DOMAIN live /\ IsStream(live[id])
    BY DEF Leaves, Unclosed, StoreInv, SeqsDistinct
  <2>2. /\ DOMAIN live' = DOMAIN live /\ live'[id] = [live[id] EXCEPT !.closed = TRUE]
        /\ \A c \in DOMAIN live : c # id => live'[c] = live[c]
    BY <1>3, <2>1, ReplacedEntry
  <2>3. /\ live'[id].eligible = live[id].eligible /\ live'[id].since = live[id].since
        /\ live'[id].state = live[id].state
    BY <2>1, <2>2 DEF IsStream
  <2>. QED
    BY <1>0, <2>2, <2>3 DEF LingerInv
<1>4. CASE FoldRoot
  BY <1>0, <1>4, LingerFold DEF FoldRoot, LingersOn
<1>5. CASE FoldSession
  BY <1>0, <1>5, LingerFold DEF FoldSession, LingersOn
<1>6. CASE \E id \in DOMAIN live : SweepOrCap(id) \/ Finish(id)
  BY <1>2, <1>3, <1>6 DEF SweepOrCap, Finish
<1>7. CASE (\E w \in Waits : Receive(w)) \/ Poll \/ End \/ Summary \/ Done \/ UNCHANGED vars
  BY <1>1, <1>7 DEF Receive, Poll, End, Summary, Done, vars, agg
<1>. QED
  BY <1>4, <1>5, <1>6, <1>7 DEF Next
----------------------------------------------------------------------------
(* What a step prints.                                                     *)

\* The parent a line has to name: its stream's own, or null on a stream_closed
\* when no poll has seen the parent.
ParentDue(l) ==
  IF l.kind = "closed" /\ l.under # 0 /\ told[l.under].phase = "unseen" THEN 0 ELSE l.under

\* One line, as the two promises about it state it.
LineTrue(l) ==
  /\ l.kind \in {"new", "update", "closed"}
  /\ l.kind = "new" => l.after = "unseen"
  /\ l.kind = "update" => l.after = "open" /\ l.gap >= Second
  /\ l.kind = "closed" => l.after # "closed"
  /\ l.parent = ParentDue(l)

LinesInv == \A l \in lines : LineTrue(l)

\* The line of an eviction is true.
LEMMA LinesEnd ==
  ASSUME StoreInv, ToldInv, NumbersInv, FamilyInv, SeenInv, NEW id \in Leaves, OnEvicted(id)
  PROVE  LinesInv'
<1>. DEFINE line == Line("closed", live[id], DisplayOf(live[id].parent))
            p == live[id].parent
<1>1. lines' = {line}
  BY DEF OnEvicted, PrintLines
<1>2. id \in DOMAIN live /\ ~live[id].closed /\ id \in Unclosed
  BY DEF Leaves, Unclosed
<1>3. told[live[id].seq].phase # "closed"
  BY <1>2 DEF ToldInv
<1>4. ASSUME p # NoParent
      PROVE  /\ live[id].parentSeq # 0
             /\ DisplayOf(p) = IF told'[live[id].parentSeq].phase = "unseen"
                               THEN 0 ELSE live[id].parentSeq
  <2>1. /\ p \in DOMAIN live /\ live[p].seq = live[id].parentSeq /\ ~live[p].closed
        /\ live[p].seq \in 1..(nextSeq - 1)
    BY <1>2, <1>4 DEF StoreInv, ParentsStay, SeqsDistinct, FamilyInv
  <2>2. p # id
    BY <1>2, <2>1 DEF Leaves, ChildrenOf, Unclosed
  <2>3. live[p].seq # live[id].seq /\ live[p].seq \in DOMAIN told
    BY <1>2, <2>1, <2>2 DEF StoreInv, SeqsDistinct, ToldInv
  <2>4. told'[live[p].seq] = told[live[p].seq]
    BY <1>2, <2>3, EndEffect
  <2>5. p \in DOMAIN seqById <=> told[live[p].seq].phase # "unseen"
    BY <2>1 DEF SeenInv, ToldInv
  <2>6. p \in DOMAIN seqById => seqById[p] = live[p].seq
    BY <2>1 DEF NumbersInv
  <2>7. DisplayOf(p) = IF p \in DOMAIN seqById THEN seqById[p] ELSE 0
    BY <1>4 DEF DisplayOf, TrackerKey
  <2>. HIDE DEF p
  <2>. QED
    BY <2>1, <2>4, <2>5, <2>6, <2>7
<1>5. DisplayOf(p) = IF live[id].parentSeq # 0 /\ told'[live[id].parentSeq].phase = "unseen"
                     THEN 0 ELSE live[id].parentSeq
  <2>1. p = NoParent => DisplayOf(p) = 0 /\ live[id].parentSeq = 0
    BY <1>2 DEF DisplayOf, FamilyInv
  <2>. HIDE DEF p
  <2>. QED
    BY <1>4, <2>1
<1>6. ASSUME NEW l \in lines' PROVE LineTrue(l)'
  <2>1. /\ l.kind = "closed" /\ l.parent = DisplayOf(p)
        /\ l.under = live[id].parentSeq /\ l.after = told[live[id].seq].phase
    BY <1>1, LineFields
  <2>. HIDE DEF line, p
  <2>. QED
    BY <1>3, <1>5, <2>1 DEF LineTrue, ParentDue
<1>. QED
  BY <1>6 DEF LinesInv

\* The lines of a poll are true.
LEMMA LinesPoll ==
  ASSUME StoreInv, ToldInv, FamilyInv, Poll
  PROVE  LinesInv'
<1>1. CASE UNCHANGED tracker /\ PrintNothing
  BY <1>1 DEF PrintNothing, LinesInv
<1>2. CASE ~(UNCHANGED tracker /\ PrintNothing)
  <2>. DEFINE due == {id \in DOMAIN live : Due(id)}
              line(id) == Line(Kind(id), live[id], PolledParent(id))
  <2>1. /\ lines' = {line(id) : id \in due}
        /\ seqById' = [k \in DOMAIN live \cup DOMAIN seqById |->
                         IF k \in DOMAIN live THEN live[k].seq ELSE seqById[k]]
    BY <1>2, PollEffect DEF PrintLines
  <2>2. ASSUME NEW l \in lines' PROVE LineTrue(l)'
    <3>0. PICK id \in due : l = line(id)
      BY <2>1
    <3>1. id \in DOMAIN live /\ ~live[id].closed /\ Due(id)
      BY DEF Poll, StoreInv, ParentsStay
    <3>2. PolledParent(id) = live[id].parentSeq
      BY <2>1, <3>1 DEF PolledParent, TrackerKey, StoreInv, ParentsStay, FamilyInv
    <3>3. /\ l.kind = Kind(id) /\ l.parent = live[id].parentSeq /\ l.under = live[id].parentSeq
          /\ l.after = told[live[id].seq].phase /\ l.gap = told[live[id].seq].ago
      BY <3>0, <3>2, LineFields
    <3>4. CASE id \in DOMAIN lastEmitted
      <4>1. Kind(id) = "update" /\ lastEmitted[id] >= Second
        BY <3>1, <3>4 DEF Kind, Due, TrackerKey
      <4>2. told[live[id].seq].phase = "open" /\ told[live[id].seq].ago >= Second
        BY <3>1, <3>4, <4>1 DEF ToldInv
      <4>. QED
        BY <3>3, <4>1, <4>2 DEF LineTrue, ParentDue
    <3>5. CASE id \notin DOMAIN lastEmitted
      <4>1. Kind(id) = "new"
        BY <3>5 DEF Kind, TrackerKey
      <4>2. told[live[id].seq].phase = "unseen"
        BY <3>1, <3>5 DEF ToldInv
      <4>. QED
        BY <3>3, <4>1, <4>2 DEF LineTrue, ParentDue
    <3>. QED
      BY <3>4, <3>5
  <2>. QED
    BY <2>2 DEF LinesInv
<1>. QED
  BY <1>1, <1>2

\* Every step prints true lines.
LEMMA LinesStep ==
  ASSUME StoreInv, ToldInv, NumbersInv, FamilyInv, SeenInv, LinesInv, [Next]_vars
  PROVE  LinesInv'
<1>1. ASSUME lines' = {} \/ UNCHANGED <<lines, told>> PROVE LinesInv'
  BY <1>1 DEF LinesInv, LineTrue, ParentDue
<1>2. CASE \E id \in DOMAIN live : SweepOrCap(id) \/ Finish(id)
  BY <1>2, LinesEnd DEF SweepOrCap, Finish, Evict
<1>3. CASE Poll
  BY <1>3, LinesPoll
<1>4. CASE (\E w \in Waits : Receive(w)) \/ FoldRoot \/ FoldSession \/ End \/ Summary
  BY <1>1, <1>4 DEF Receive, FoldRoot, FoldSession, FoldInto, End, Summary, PrintNothing
<1>5. CASE Done \/ UNCHANGED vars
  BY <1>1, <1>5 DEF Done, vars, printed
<1>. QED
  BY <1>2, <1>3, <1>4, <1>5 DEF Next
----------------------------------------------------------------------------
(* The theorems.                                                           *)

\* Everything above, of every state of every run.
EventsInv ==
  /\ StoreInv /\ ToldInv /\ NumbersInv /\ FamilyInv /\ SeenInv /\ LingerInv /\ LinesInv

\* The invariant holds in every state of every run.
LEMMA EventsInvariant == Spec => []EventsInv
<1>1. Init => EventsInv
  <2>1. Init => LinesInv /\ FamilyInv /\ SeenInv
    BY DEF Init, LinesInv, FamilyInv, SeenInv
  <2>. QED
    BY <2>1, StoreInit, ToldInit, NumbersInit, LingerInit DEF EventsInv
<1>2. EventsInv /\ [Next]_vars => EventsInv'
  BY StoreStep, ToldStep, NumbersStep, FamilyStep, SeenStep, LingerStep, LinesStep DEF EventsInv
<1>. QED
  BY <1>1, <1>2, PTL DEF Spec

\* NdjsonTracker speaks of a stream in order: one stream_new first, updates at
\* least a second apart, one stream_closed last, and when the summary is
\* printed every stream has been closed, those no poll saw among them.
THEOREM LinesInOrder == Spec => []EventsOrdered
<1>1. EventsInv => EventsOrdered
  <2>. SUFFICES ASSUME EventsInv PROVE EventsOrdered
    OBVIOUS
  <2>1. \A l \in lines :
          CASE l.kind = "new"    -> l.after = "unseen"
            [] l.kind = "update" -> l.after = "open" /\ l.gap >= Second
            [] l.kind = "closed" -> l.after # "closed"
    BY DEF EventsInv, LinesInv, LineTrue
  <2>2. pc = "done" => \A s \in DOMAIN told : told[s].phase = "closed"
    BY DEF EventsInv, ToldInv
  <2>. QED
    BY <2>1, <2>2 DEF EventsOrdered
<1>. QED
  BY <1>1, EventsInvariant, PTL

\* A line names the stream's own parent, although seq_by_id keeps the numbers
\* of streams that are gone and slots are used again; it says null in its place
\* only on a stream_closed, and exactly when no poll has seen the parent.
THEOREM NoWrongParent == Spec => []ParentsTrue
<1>1. EventsInv => ParentsTrue
  BY DEF EventsInv, LinesInv, LineTrue, ParentDue, ParentsTrue
<1>. QED
  BY <1>1, EventsInvariant, PTL

\* A session that reached a closed state stays eligible for its linger, from
\* the moment it entered it, whatever stragglers the capture brings.
THEOREM OverIsOver == Spec => SessionStaysOver
<1>1. EventsInv /\ [Next]_vars =>
        [\A id \in DOMAIN live \cap DOMAIN live' :
           live[id].eligible => live'[id].eligible /\ live'[id].since = live[id].since]_vars
  BY LingerStep DEF EventsInv
<1>. QED
  BY <1>1, EventsInvariant, PTL DEF Spec, SessionStaysOver
----------------------------------------------------------------------------
(* What a rollup shows of what its stream heard.                           *)

Values == UNION {Says[p] : p \in DOMAIN Says}

\* What a stream heard: values, each at a time.
Entry == [says : Values \ {NoValue}, ts : Times]

Heard == Seq(Entry)

\* Where a value was heard for the first time.
Firsts(h) == {i \in DOMAIN h : \A j \in 1..(i - 1) : h[j].says # h[i].says}

\* Whatever was heard was heard a first time.
FirstsCover(h) == \A i \in DOMAIN h : \E f \in Firsts(h) : h[f].says = h[i].says

\* The first distinct values, as many as an Accumulate admits.
Admitted(h) ==
  {h[i].says : i \in {j \in Firsts(h) : Cardinality({m \in Firsts(h) : m <= j}) <= AccumulateSetCap}}

AccumulateTrue(h, r) ==
  /\ r.kind = "accumulate"
  /\ r = [kind |-> "accumulate", values |-> r.values, count |-> r.count, overflow |-> r.overflow]
  /\ r.count = Len(h)
  /\ r.values \in Seq(Values)
  /\ Len(r.values) = Smaller(Cardinality(Firsts(h)), AccumulateSetCap)
  /\ ToSet(r.values) = Admitted(h)
  /\ r.overflow <=> Cardinality(Firsts(h)) > AccumulateSetCap

SampleTrue(h, r) ==
  /\ r.kind = "sample"
  /\ r = [kind |-> "sample", first |-> r.first, last |-> r.last]
  /\ h = <<>> => r.first = NoValue
  /\ h # <<>> => r.first = h[1].says /\ r.last = h[Len(h)].says

SeriesTrue(h, base, r) ==
  /\ r.kind = "series"
  /\ r = [kind |-> "series", ring |-> r.ring, truncated |-> r.truncated, cap |-> r.cap]
  /\ r.cap \in Nat \ {0}
  /\ r.ring \in Seq([offset : Int, value : Values])
  /\ Len(r.ring) = Smaller(Len(h), r.cap)
  /\ \A i \in 1..Len(r.ring) :
       LET p == h[Len(h) - Len(r.ring) + i]
       IN  r.ring[i].value = p.says /\ base + r.ring[i].offset = p.ts
  /\ r.truncated <=> Len(h) > r.cap

RollTrue(h, base, r) == AccumulateTrue(h, r) \/ SampleTrue(h, r) \/ SeriesTrue(h, base, r)

\* Every session's rollups are about what it heard, all of it.
SessionTrue(s) ==
  /\ s.first \in Times /\ s.heard \in Heard /\ FirstsCover(s.heard)
  /\ \A k \in DOMAIN s.rolls : RollTrue(s.heard, s.first, s.rolls[k])

RollsInv ==
  /\ proto \in DOMAIN Says
  /\ pc \in {"sweep", "fold"} => pkt \in Packet
  /\ \A id \in DOMAIN live : live[id].key = Session => SessionTrue(live[id])

\* There are finitely many first hearings.
LEMMA FirstsFinite ==
  ASSUME NEW h \in Heard
  PROVE  /\ IsFiniteSet(Firsts(h)) /\ Cardinality(Firsts(h)) \in Nat
         /\ \A j : /\ IsFiniteSet({m \in Firsts(h) : m <= j})
                   /\ Cardinality({m \in Firsts(h) : m <= j}) \in Nat
                   /\ Cardinality({m \in Firsts(h) : m <= j}) <= Cardinality(Firsts(h))
<1>1. DOMAIN h = 1..Len(h) /\ Len(h) \in Nat
  BY DEF Heard
<1>2. IsFiniteSet(1..Len(h))
  BY <1>1, FS_Interval
<1>3. IsFiniteSet(Firsts(h))
  BY <1>1, <1>2, FS_Subset DEF Firsts
<1>4. \A T \in SUBSET Firsts(h) :
        IsFiniteSet(T) /\ Cardinality(T) \in Nat /\ Cardinality(T) <= Cardinality(Firsts(h))
  BY <1>3, FS_Subset, FS_CardinalityType
<1>5. \A j : {m \in Firsts(h) : m <= j} \in SUBSET Firsts(h)
  OBVIOUS
<1>. QED
  BY <1>3, <1>4, <1>5

\* One more thing heard: a first of its kind, or not.
LEMMA FirstsAppend ==
  ASSUME NEW h \in Heard, NEW x \in Entry, FirstsCover(h)
  PROVE  LET g == Append(h, x)
             known == \E i \in DOMAIN h : h[i].says = x.says
         IN  /\ g \in Heard /\ Len(g) = Len(h) + 1 /\ g[Len(h) + 1] = x
             /\ \A i \in DOMAIN h : g[i] = h[i]
             /\ Firsts(g) = IF known THEN Firsts(h) ELSE Firsts(h) \cup {Len(h) + 1}
             /\ FirstsCover(g)
<1>. DEFINE g == Append(h, x)
            known == \E i \in DOMAIN h : h[i].says = x.says
<1>1. /\ g \in Heard /\ Len(g) = Len(h) + 1 /\ g[Len(h) + 1] = x
      /\ \A i \in 1..Len(h) : g[i] = h[i]
  BY AppendProperties DEF Heard
<1>2. /\ DOMAIN h = 1..Len(h) /\ Len(h) \in Nat /\ DOMAIN g = 1..(Len(h) + 1)
  BY <1>1 DEF Heard
<1>. HIDE DEF g
<1>3. \A i \in 1..Len(h) : i \in Firsts(g) <=> i \in Firsts(h)
  BY <1>1, <1>2 DEF Firsts
<1>4. Len(h) + 1 \in Firsts(g) <=> ~known
  BY <1>1, <1>2 DEF Firsts
<1>5. Firsts(g) \subseteq 1..(Len(h) + 1) /\ Firsts(h) \subseteq 1..Len(h)
  BY <1>1, <1>2 DEF Firsts
<1>6. Firsts(g) = IF known THEN Firsts(h) ELSE Firsts(h) \cup {Len(h) + 1}
  <2>. HIDE DEF known
  <2>1. \A i \in 1..(Len(h) + 1) : i # Len(h) + 1 => i \in 1..Len(h)
    BY <1>2
  <2>2. Len(h) + 1 \notin 1..Len(h) /\ 1..Len(h) \subseteq 1..(Len(h) + 1)
    BY <1>2
  <2>3. \A i \in 1..(Len(h) + 1) : i \in Firsts(g) <=> i \in Firsts(h) \/ (i = Len(h) + 1 /\ ~known)
    BY <1>3, <1>4, <1>5, <2>1, <2>2
  <2>4. Firsts(h) \subseteq 1..(Len(h) + 1)
    BY <1>5, <2>2
  <2>5. Len(h) + 1 \in 1..(Len(h) + 1)
    BY <1>2
  <2>. HIDE DEF g
  <2>6. CASE known
    BY <1>5, <2>3, <2>4, <2>6
  <2>7. CASE ~known
    BY <1>5, <2>3, <2>4, <2>5, <2>7
  <2>. QED
    BY <2>6, <2>7
<1>7. FirstsCover(g)
  <2>. SUFFICES ASSUME NEW i \in DOMAIN g PROVE \E f \in Firsts(g) : g[f].says = g[i].says
    BY DEF FirstsCover
  <2>1. ASSUME NEW j \in DOMAIN h PROVE \E f \in Firsts(g) : g[f].says = h[j].says
    <3>1. PICK f \in Firsts(h) : h[f].says = h[j].says
      BY DEF FirstsCover
    <3>. QED
      BY <1>1, <1>3, <1>5, <3>1
  <2>2. CASE i \in 1..Len(h)
    BY <1>1, <1>2, <2>1, <2>2
  <2>3. CASE i = Len(h) + 1 /\ known
    BY <1>1, <2>1, <2>3
  <2>4. CASE i = Len(h) + 1 /\ ~known
    BY <1>4, <2>4
  <2>. QED
    BY <1>2, <2>2, <2>3, <2>4
<1>. QED
  BY <1>1, <1>2, <1>6, <1>7 DEF g

\* While there is room, an Accumulate has every value heard.
LEMMA RoomForAll ==
  ASSUME NEW h \in Heard, FirstsCover(h)
  PROVE  /\ Admitted(h) \subseteq {h[i].says : i \in DOMAIN h}
         /\ Cardinality(Firsts(h)) <= AccumulateSetCap =>
              Admitted(h) = {h[i].says : i \in DOMAIN h}
<1>1. Firsts(h) \subseteq DOMAIN h
  BY DEF Firsts
<1>2. Admitted(h) \subseteq {h[i].says : i \in DOMAIN h}
  BY <1>1 DEF Admitted
<1>3. ASSUME Cardinality(Firsts(h)) <= AccumulateSetCap, NEW i \in DOMAIN h
      PROVE  h[i].says \in Admitted(h)
  <2>1. PICK f \in Firsts(h) : h[f].says = h[i].says
    BY DEF FirstsCover
  <2>2. Cardinality({m \in Firsts(h) : m <= f}) <= AccumulateSetCap
    BY <1>3, FirstsFinite, RollupsAssumption
  <2>. QED
    BY <2>1, <2>2 DEF Admitted
<1>. QED
  BY <1>2, <1>3

\* What one more value does to the admitted ones.
LEMMA AdmittedAppend ==
  ASSUME NEW h \in Heard, NEW x \in Entry, FirstsCover(h)
  PROVE  LET g == Append(h, x)
             known == \E i \in DOMAIN h : h[i].says = x.says
         IN  /\ known => Admitted(g) = Admitted(h)
             /\ ~known => Admitted(g) = IF Cardinality(Firsts(h)) < AccumulateSetCap
                                        THEN Admitted(h) \cup {x.says} ELSE Admitted(h)
             /\ Cardinality(Firsts(g)) = IF known THEN Cardinality(Firsts(h))
                                         ELSE Cardinality(Firsts(h)) + 1
<1>. DEFINE g == Append(h, x)
            known == \E i \in DOMAIN h : h[i].says = x.says
            n == Len(h) + 1
            upto(f, j) == {m \in Firsts(f) : m <= j}
            within(f) == {j \in Firsts(f) : Cardinality(upto(f, j)) <= AccumulateSetCap}
<1>1. /\ g \in Heard /\ g[n] = x /\ \A i \in DOMAIN h : g[i] = h[i]
      /\ Firsts(g) = IF known THEN Firsts(h) ELSE Firsts(h) \cup {n}
  BY FirstsAppend
<1>2. Firsts(h) \subseteq DOMAIN h /\ DOMAIN h = 1..Len(h) /\ Len(h) \in Nat
  BY DEF Firsts, Heard
<1>3. n \notin Firsts(h) /\ n \in Nat /\ \A j \in Firsts(h) : j \in Nat /\ j < n
  BY <1>2
<1>. HIDE DEF g, known, n
<1>4. \A j \in Firsts(h) : upto(g, j) = upto(h, j)
  <2>. SUFFICES ASSUME NEW j \in Firsts(h) PROVE upto(g, j) = upto(h, j)
    OBVIOUS
  <2>1. ~(n <= j)
    BY <1>3
  <2>. QED
    BY <1>1, <2>1
<1>5. upto(g, n) = Firsts(g)
  BY <1>1, <1>3
<1>6. Cardinality(Firsts(g)) = IF known THEN Cardinality(Firsts(h)) ELSE Cardinality(Firsts(h)) + 1
  <2>1. IsFiniteSet(Firsts(h))
    BY FirstsFinite
  <2>2. Cardinality(Firsts(h) \cup {n}) = Cardinality(Firsts(h)) + 1
    BY <1>3, <2>1, FS_AddElement
  <2>. QED
    BY <1>1, <2>2
<1>7. Cardinality(Firsts(h)) \in Nat /\ AccumulateSetCap \in Nat
  BY FirstsFinite, RollupsAssumption
<1>8. /\ known => within(g) = within(h)
      /\ ~known => within(g) = IF Cardinality(Firsts(h)) < AccumulateSetCap
                               THEN within(h) \cup {n} ELSE within(h)
  <2>. HIDE DEF upto
  <2>1. CASE known
    BY <1>1, <1>4, <2>1
  <2>2. CASE ~known
    <3>1. Cardinality(upto(g, n)) <= AccumulateSetCap
            <=> Cardinality(Firsts(h)) < AccumulateSetCap
      BY <1>5, <1>6, <1>7, <2>2
    <3>. QED
      BY <1>1, <1>3, <1>4, <2>2, <3>1
  <2>. QED
    BY <2>1, <2>2
<1>9. Admitted(h) = {h[i].says : i \in within(h)} /\ Admitted(g) = {g[i].says : i \in within(g)}
  BY DEF Admitted
<1>10. within(h) \subseteq DOMAIN h
  BY <1>2
<1>. HIDE DEF within
<1>11. {g[i].says : i \in within(h)} = Admitted(h)
  BY <1>1, <1>9, <1>10
<1>12. {g[i].says : i \in within(h) \cup {n}} = Admitted(h) \cup {x.says}
  BY <1>1, <1>11
<1>. QED
  BY <1>6, <1>8, <1>9, <1>11, <1>12 DEF g, known

\* A sequence with one more element.
LEMMA AppendSet ==
  ASSUME NEW S, NEW s \in Seq(S), NEW e \in S
  PROVE  /\ Append(s, e) \in Seq(S) /\ Len(Append(s, e)) = Len(s) + 1
         /\ ToSet(Append(s, e)) = ToSet(s) \cup {e}
<1>. DEFINE a == Append(s, e)
<1>1. /\ a \in Seq(S) /\ Len(a) = Len(s) + 1 /\ a[Len(s) + 1] = e
      /\ \A i \in 1..Len(s) : a[i] = s[i]
  BY AppendProperties
<1>2. DOMAIN a = 1..(Len(s) + 1) /\ DOMAIN s = 1..Len(s) /\ Len(s) \in Nat
  BY <1>1
<1>. HIDE DEF a
<1>3. ToSet(a) = ToSet(s) \cup {e}
  BY <1>1, <1>2 DEF ToSet
<1>. QED
  BY <1>1, <1>3 DEF a

\* An Accumulate hears one more value.
LEMMA AccumulateHears ==
  ASSUME NEW h \in Heard, FirstsCover(h), NEW r, AccumulateTrue(h, r), NEW x \in Entry
  PROVE  AccumulateTrue(Append(h, x), AccumulateValue(r, x.says))
<1>. USE DEF Entry
<1>. DEFINE g == Append(h, x)
            known == \E i \in DOMAIN h : h[i].says = x.says
            seen == Cardinality(Firsts(h))
            fresh == ~Contains(r.values, x.says)
            full == Len(r.values) >= AccumulateSetCap
            values == IF fresh /\ ~full THEN Append(r.values, x.says) ELSE r.values
            overflow == r.overflow \/ (fresh /\ full)
            u == AccumulateValue(r, x.says)
<1>1. /\ known => Admitted(g) = Admitted(h)
      /\ ~known => Admitted(g) = IF seen < AccumulateSetCap THEN Admitted(h) \cup {x.says}
                                 ELSE Admitted(h)
      /\ Cardinality(Firsts(g)) = IF known THEN seen ELSE seen + 1
  BY AdmittedAppend
<1>2. Len(g) = Len(h) + 1 /\ Len(h) \in Nat
  BY FirstsAppend DEF Heard
<1>3. seen \in Nat /\ AccumulateSetCap \in Nat
  BY FirstsFinite, RollupsAssumption
<1>4. /\ r.values \in Seq(Values) /\ Len(r.values) = Smaller(seen, AccumulateSetCap)
      /\ ToSet(r.values) = Admitted(h) /\ (r.overflow <=> seen > AccumulateSetCap)
  BY DEF AccumulateTrue
<1>5. full <=> seen >= AccumulateSetCap
  BY <1>3, <1>4 DEF Smaller
<1>6. fresh <=> x.says \notin Admitted(h)
  <2>1. DOMAIN r.values = 1..Len(r.values)
    BY <1>4
  <2>. QED
    BY <1>4, <2>1 DEF ToSet, Contains
<1>7. /\ Admitted(h) \subseteq {h[i].says : i \in DOMAIN h}
      /\ seen <= AccumulateSetCap => Admitted(h) = {h[i].says : i \in DOMAIN h}
  BY RoomForAll
<1>8. /\ ~known => fresh
      /\ known /\ fresh => seen > AccumulateSetCap
  BY <1>3, <1>6, <1>7
<1>9. /\ u.kind = "accumulate" /\ u.values = values /\ u.count = r.count + 1 /\ u.overflow = overflow
      /\ u = [kind |-> "accumulate", values |-> u.values, count |-> u.count, overflow |-> u.overflow]
  <2>1. u = [r EXCEPT !.count = r.count + 1, !.values = values, !.overflow = overflow]
    BY DEF AccumulateValue, AccumulateTrue
  <2>2. r = [kind |-> "accumulate", values |-> r.values, count |-> r.count, overflow |-> r.overflow]
    BY DEF AccumulateTrue
  <2>. HIDE DEF u, values, overflow
  <2>3. DOMAIN u = {"kind", "values", "count", "overflow"} /\ u = [f \in DOMAIN u |-> u[f]]
    BY <2>1, <2>2
  <2>4. u.kind = "accumulate" /\ u.values = values /\ u.count = r.count + 1 /\ u.overflow = overflow
    BY <2>1, <2>2
  <2>5. u = [kind |-> "accumulate", values |-> u.values, count |-> u.count, overflow |-> u.overflow]
    BY <2>3, <2>4
  <2>. QED
    BY <2>4, <2>5
<1>. HIDE DEF u, known, fresh, full, seen
<1>10. u.count = Len(g)
  BY <1>2, <1>9 DEF AccumulateTrue
<1>11. x.says \in Values
  OBVIOUS
<1>12. /\ values \in Seq(Values)
       /\ fresh /\ ~full => /\ Len(values) = Len(r.values) + 1
                            /\ ToSet(values) = ToSet(r.values) \cup {x.says}
  <2>1. CASE fresh /\ ~full
    <3>1. values = Append(r.values, x.says) /\ r.values \in Seq(Values)
      BY <1>4, <2>1
    <3>2. Append(r.values, x.says) \in Seq(Values)
      BY <1>11, <3>1, AppendSet
    <3>3. Len(Append(r.values, x.says)) = Len(r.values) + 1
      BY <1>11, <3>1, AppendSet
    <3>4. ToSet(Append(r.values, x.says)) = ToSet(r.values) \cup {x.says}
      BY <1>11, <3>1, AppendSet
    <3>. HIDE DEF values
    <3>. QED
      BY <3>1, <3>2, <3>3, <3>4
  <2>2. CASE ~(fresh /\ ~full)
    BY <1>4, <2>2
  <2>. QED
    BY <2>1, <2>2
<1>13. ToSet(values) = Admitted(g) /\ Len(values) = Smaller(Cardinality(Firsts(g)), AccumulateSetCap)
  <2>1. CASE known
    BY <1>1, <1>3, <1>4, <1>5, <1>8, <2>1 DEF Smaller
  <2>2. CASE ~known /\ full
    BY <1>1, <1>3, <1>4, <1>5, <1>8, <2>2 DEF Smaller
  <2>3. CASE ~known /\ ~full
    <3>. HIDE DEF values
    <3>1. /\ ToSet(values) = Admitted(h) \cup {x.says} /\ Len(values) = seen + 1
          /\ seen < AccumulateSetCap
      BY <1>3, <1>4, <1>5, <1>8, <1>12, <2>3 DEF Smaller
    <3>. HIDE DEF g
    <3>2. Admitted(g) = Admitted(h) \cup {x.says} /\ Cardinality(Firsts(g)) = seen + 1
      BY <1>1, <2>3, <3>1
    <3>3. Smaller(seen + 1, AccumulateSetCap) = seen + 1
      BY <1>3, <3>1 DEF Smaller
    <3>. QED
      BY <3>1, <3>2, <3>3
  <2>. QED
    BY <2>1, <2>2, <2>3
<1>14. overflow <=> Cardinality(Firsts(g)) > AccumulateSetCap
  BY <1>1, <1>3, <1>4, <1>5, <1>8
<1>. HIDE DEF values, overflow, g
<1>15. AccumulateTrue(g, u)
  BY <1>9, <1>10, <1>12, <1>13, <1>14 DEF AccumulateTrue
<1>. QED
  BY <1>15 DEF g, u

\* A Sample hears one more value.
LEMMA SampleHears ==
  ASSUME NEW h \in Heard, NEW r, SampleTrue(h, r), NEW x \in Entry
  PROVE  SampleTrue(Append(h, x), SampleValue(r, x.says))
<1>. DEFINE g == Append(h, x)
            u == SampleValue(r, x.says)
            first == IF r.first = NoValue THEN x.says ELSE r.first
<1>1. /\ Len(g) = Len(h) + 1 /\ Len(h) \in Nat /\ g[Len(h) + 1] = x /\ g # <<>>
      /\ \A i \in 1..Len(h) : g[i] = h[i]
  BY AppendProperties DEF Heard, Entry
<1>2. /\ u.kind = "sample" /\ u.first = first
      /\ u.last = x.says /\ u = [kind |-> "sample", first |-> u.first, last |-> u.last]
  <2>1. u = [r EXCEPT !.first = first, !.last = x.says]
    BY DEF SampleValue
  <2>2. r = [kind |-> "sample", first |-> r.first, last |-> r.last]
    BY DEF SampleTrue
  <2>. HIDE DEF u, first
  <2>3. DOMAIN u = {"kind", "first", "last"} /\ u = [f \in DOMAIN u |-> u[f]]
    BY <2>1, <2>2
  <2>4. u.kind = "sample" /\ u.first = first /\ u.last = x.says
    BY <2>1, <2>2
  <2>5. u = [kind |-> "sample", first |-> u.first, last |-> u.last]
    BY <2>3, <2>4
  <2>. QED
    BY <2>4, <2>5
<1>3. h # <<>> => Len(h) # 0 /\ h[1].says # NoValue
  <2>1. h # <<>> => Len(h) \in Nat \ {0}
    BY EmptySeq DEF Heard
  <2>2. \A i \in 1..Len(h) : h[i] \in Entry
    BY ElementOfSeq DEF Heard, Entry
  <2>. QED
    BY <2>1, <2>2 DEF Entry
<1>4. h = <<>> => Len(h) = 0
  OBVIOUS
<1>5. u.first = g[1].says /\ u.last = g[Len(g)].says
  <2>. HIDE DEF g, u
  <2>1. CASE h = <<>>
    BY <1>1, <1>2, <1>4, <2>1 DEF SampleTrue
  <2>2. CASE h # <<>>
    BY <1>1, <1>2, <1>3, <2>2 DEF SampleTrue
  <2>. QED
    BY <2>1, <2>2
<1>. HIDE DEF g, u
<1>6. SampleTrue(g, u)
  BY <1>1, <1>2, <1>5 DEF SampleTrue
<1>. QED
  BY <1>6 DEF g, u

\* A Series hears one more value.
LEMMA SeriesHears ==
  ASSUME NEW h \in Heard, NEW base \in Times, NEW r, SeriesTrue(h, base, r), NEW x \in Entry
  PROVE  SeriesTrue(Append(h, x), base, SeriesValue(r, x.says, base, x.ts))
<1>. DEFINE g == Append(h, x)
            u == SeriesValue(r, x.says, base, x.ts)
            P == [offset : Int, value : Values]
            point == [offset |-> OffsetFrom(base, x.ts), value |-> x.says]
            full == Len(r.ring) >= r.cap
            kept == IF full THEN Tail(r.ring) ELSE r.ring
            ring == Append(kept, point)
            truncated == r.truncated \/ full
            n == Len(h)
            c == Len(r.ring)
<1>1. /\ Len(g) = n + 1 /\ n \in Nat /\ g[n + 1] = x
      /\ \A i \in 1..n : g[i] = h[i]
  BY AppendProperties DEF Heard, Entry
<1>2. /\ r.cap \in Nat \ {0} /\ r.ring \in Seq(P) /\ c \in Nat
      /\ c = Smaller(n, r.cap) /\ (r.truncated <=> n > r.cap)
      /\ \A i \in 1..c : r.ring[i].value = h[n - c + i].says /\ base + r.ring[i].offset = h[n - c + i].ts
  BY DEF SeriesTrue
<1>3. point \in P /\ point.value = x.says /\ base + point.offset = x.ts
  <2>1. /\ x.ts \in Times /\ x.says \in Values /\ base \in Int /\ x.ts \in Int
        /\ x.ts - base <= MaxOffset /\ base - x.ts <= MaxOffset /\ MaxOffset \in Nat
    BY TimesAssumption, RollupsAssumption DEF Entry
  <2>2. OffsetFrom(base, x.ts) = x.ts - base
    BY <2>1 DEF OffsetFrom, Larger, Smaller
  <2>. QED
    BY <2>1, <2>2
<1>4. /\ u.kind = "series" /\ u.ring = ring /\ u.cap = r.cap /\ u.truncated = truncated
      /\ u = [kind |-> "series", ring |-> u.ring, truncated |-> u.truncated, cap |-> u.cap]
  <2>1. r = [kind |-> "series", ring |-> r.ring, truncated |-> r.truncated, cap |-> r.cap]
    BY DEF SeriesTrue
  <2>2. u = [r EXCEPT !.ring = ring, !.truncated = truncated]
    BY <2>1 DEF SeriesValue
  <2>. HIDE DEF u, ring, truncated
  <2>3. DOMAIN u = {"kind", "ring", "truncated", "cap"} /\ u = [f \in DOMAIN u |-> u[f]]
    BY <2>1, <2>2
  <2>4. u.kind = "series" /\ u.ring = ring /\ u.cap = r.cap /\ u.truncated = truncated
    BY <2>1, <2>2
  <2>5. u = [kind |-> "series", ring |-> u.ring, truncated |-> u.truncated, cap |-> u.cap]
    BY <2>3, <2>4
  <2>. QED
    BY <2>4, <2>5
<1>5. full <=> n >= r.cap
  BY <1>1, <1>2 DEF Smaller
<1>. DEFINE d == Len(kept)
<1>6. /\ kept \in Seq(P) /\ d \in Nat /\ d = Smaller(n, r.cap - 1)
      /\ \A i \in 1..d : kept[i].value = h[n - d + i].says /\ base + kept[i].offset = h[n - d + i].ts
  <2>1. CASE full
    <3>1. c = r.cap /\ r.ring # <<>> /\ kept = Tail(r.ring)
      BY <1>1, <1>2, <1>5, <2>1 DEF Smaller
    <3>2. kept \in Seq(P) /\ d = c - 1 /\ \A i \in 1..d : kept[i] = r.ring[i + 1]
      BY <1>2, <3>1, HeadTailProperties
    <3>3. d \in Nat /\ d = Smaller(n, r.cap - 1)
      BY <1>1, <1>2, <1>5, <2>1, <3>1, <3>2 DEF Smaller
    <3>. HIDE DEF P, kept, c, d, n
    <3>4. ASSUME NEW i \in 1..d
          PROVE  kept[i].value = h[n - d + i].says /\ base + kept[i].offset = h[n - d + i].ts
      <4>1. i + 1 \in 1..c /\ n - c + (i + 1) = n - d + i
        <5>1. c \in Nat /\ n \in Nat /\ d \in Nat /\ d = c - 1
          BY <1>1, <1>2, <3>2, <3>3
        <5>. QED
          BY <5>1
      <4>2. /\ r.ring[i + 1].value = h[n - c + (i + 1)].says
            /\ base + r.ring[i + 1].offset = h[n - c + (i + 1)].ts
        BY <1>2, <4>1
      <4>. QED
        BY <3>2, <4>1, <4>2
    <3>. QED
      BY <3>2, <3>3, <3>4
  <2>2. CASE ~full
    <3>1. kept = r.ring /\ c = n /\ d = c
      BY <1>1, <1>2, <1>5, <2>2 DEF Smaller
    <3>2. c = Smaller(n, r.cap - 1)
      BY <1>1, <1>2, <1>5, <2>2, <3>1 DEF Smaller
    <3>. HIDE DEF kept, c, d, n, P
    <3>. QED
      BY <1>2, <3>1, <3>2
  <2>. QED
    BY <2>1, <2>2
<1>. HIDE DEF P, kept, n
<1>7. /\ ring \in Seq(P) /\ Len(ring) = d + 1 /\ ring[d + 1] = point
      /\ \A i \in 1..d : ring[i] = kept[i]
  BY <1>3, <1>6, AppendProperties
<1>8. d + 1 = Smaller(n + 1, r.cap)
  BY <1>1, <1>2, <1>6 DEF Smaller
<1>. HIDE DEF ring, point, d, g
<1>9. ASSUME NEW i \in 1..(d + 1)
      PROVE  /\ ring[i].value = g[n + 1 - (d + 1) + i].says
             /\ base + ring[i].offset = g[n + 1 - (d + 1) + i].ts
  <2>0. n - d >= 0 /\ n + 1 - (d + 1) + i = n - d + i
    <3>1. d \in Nat /\ n \in Nat /\ r.cap \in Nat /\ d = Smaller(n, r.cap - 1)
      BY <1>1, <1>2, <1>6
    <3>. QED
      BY <3>1 DEF Smaller
  <2>1. CASE i = d + 1
    <3>1. n - d + i = n + 1
      BY <1>1, <1>6, <2>1
    <3>. QED
      BY <1>1, <1>3, <1>7, <2>0, <2>1, <3>1
  <2>2. CASE i \in 1..d
    <3>1. n - d + i \in 1..n
      BY <1>1, <1>6, <2>0, <2>2
    <3>. QED
      BY <1>1, <1>6, <1>7, <2>0, <2>2, <3>1
  <2>. QED
    BY <1>6, <2>1, <2>2
<1>10. u.truncated <=> n + 1 > r.cap
  <2>1. truncated <=> n + 1 > r.cap
    BY <1>1, <1>2, <1>5
  <2>. HIDE DEF truncated, u
  <2>. QED
    BY <1>4, <2>1, Zenon
<1>. HIDE DEF u, truncated, full
<1>11. SeriesTrue(g, base, u)
  <2>1. /\ u.cap \in Nat \ {0} /\ u.ring \in Seq([offset : Int, value : Values])
        /\ Len(u.ring) = Smaller(Len(g), u.cap)
    BY <1>1, <1>2, <1>4, <1>7, <1>8 DEF P
  <2>2. ASSUME NEW i \in 1..Len(u.ring)
        PROVE  LET p == g[Len(g) - Len(u.ring) + i]
               IN  u.ring[i].value = p.says /\ base + u.ring[i].offset = p.ts
    BY <1>1, <1>4, <1>7, <1>9
  <2>3. u.truncated <=> Len(g) > u.cap
    BY <1>1, <1>4, <1>10
  <2>. QED
    BY <1>4, <2>1, <2>2, <2>3 DEF SeriesTrue
<1>. QED
  BY <1>11 DEF g, u

\* Empty rollups are true of a stream that heard nothing.
LEMMA EmptyTrue ==
  ASSUME proto \in DOMAIN Says, NEW base
  PROVE  LET rolls == EmptyRollups(SessionRollups(proto))
         IN  \A k \in DOMAIN rolls : RollTrue(<<>>, base, rolls[k])
<1>1. Firsts(<<>>) = {} /\ Cardinality(Firsts(<<>>)) = 0 /\ Admitted(<<>>) = {}
  BY FS_EmptySet DEF Firsts, Admitted
<1>2. AccumulateTrue(<<>>, EmptyRollup([kind |-> "accumulate"]))
  <2>. DEFINE r == EmptyRollup([kind |-> "accumulate"])
  <2>1. r = [kind |-> "accumulate", values |-> <<>>, count |-> 0, overflow |-> FALSE]
    BY DEF EmptyRollup
  <2>. HIDE DEF r
  <2>2. /\ r.kind = "accumulate" /\ r.values = <<>> /\ r.count = 0 /\ r.overflow = FALSE
        /\ r = [kind |-> "accumulate", values |-> r.values, count |-> r.count, overflow |-> r.overflow]
    BY <2>1
  <2>3. ToSet(<<>>) = {}
    BY DEF ToSet
  <2>4. Smaller(0, AccumulateSetCap) = 0 /\ ~(0 > AccumulateSetCap)
    BY RollupsAssumption DEF Smaller
  <2>5. Len(<<>>) = 0 /\ <<>> \in Seq(Values)
    OBVIOUS
  <2>6. AccumulateTrue(<<>>, r)
    BY <1>1, <2>2, <2>3, <2>4, <2>5 DEF AccumulateTrue
  <2>. QED
    BY <2>6 DEF r
<1>3. SampleTrue(<<>>, EmptyRollup([kind |-> "sample"]))
  BY DEF EmptyRollup, SampleTrue
<1>4. SeriesTrue(<<>>, base, EmptyRollup([kind |-> "series", cap |-> 1024]))
  <2>. DEFINE r == EmptyRollup([kind |-> "series", cap |-> 1024])
              cap == IF SeriesMaxCap = NoClamp THEN 1024 ELSE Smaller(1024, Larger(1, SeriesMaxCap))
  <2>1. r = [kind |-> "series", ring |-> <<>>, truncated |-> FALSE, cap |-> cap]
    BY DEF EmptyRollup
  <2>2. cap \in Nat \ {0}
    BY RollupsAssumption DEF Smaller, Larger, NoClamp
  <2>. HIDE DEF r, cap
  <2>3. /\ r.kind = "series" /\ r.ring = <<>> /\ r.cap = cap /\ r.truncated = FALSE
        /\ r = [kind |-> "series", ring |-> r.ring, truncated |-> r.truncated, cap |-> r.cap]
    BY <2>1
  <2>4. Smaller(0, cap) = 0 /\ ~(0 > cap)
    BY <2>2 DEF Smaller
  <2>5. Len(<<>>) = 0 /\ <<>> \in Seq([offset : Int, value : Values]) /\ 1..0 = {}
    OBVIOUS
  <2>6. SeriesTrue(<<>>, base, r)
    BY <2>2, <2>3, <2>4, <2>5 DEF SeriesTrue
  <2>. QED
    BY <2>6 DEF r
<1>5. proto \in {"tcp", "sctp", "udp"}
  BY SaysAssumption
<1>. DEFINE specs == SessionRollups(proto)
<1>6. \A k \in DOMAIN specs :
        specs[k] \in {[kind |-> "accumulate"], [kind |-> "sample"], [kind |-> "series", cap |-> 1024]}
  BY <1>5 DEF SessionRollups
<1>. HIDE DEF specs
<1>7. EmptyRollups(specs) = [i \in DOMAIN specs |-> EmptyRollup(specs[i])]
  BY DEF EmptyRollups
<1>8. \A k \in DOMAIN specs : RollTrue(<<>>, base, EmptyRollup(specs[k]))
  BY <1>2, <1>3, <1>4, <1>6 DEF RollTrue
<1>9. \A k \in DOMAIN EmptyRollups(specs) : RollTrue(<<>>, base, EmptyRollups(specs)[k])
  BY <1>7, <1>8
<1>. QED
  BY <1>9 DEF specs

\* RollupSet::apply, one declaration.
LEMMA RollHears ==
  ASSUME NEW h \in Heard, FirstsCover(h), NEW base \in Times, NEW rolls, NEW x \in Entry,
         \A k \in DOMAIN rolls : RollTrue(h, base, rolls[k])
  PROVE  LET u == ApplyRollups(rolls, x.says, base, x.ts)
         IN  \A k \in DOMAIN u : RollTrue(Append(h, x), base, u[k])
<1>. DEFINE one(r) == CASE r.kind = "accumulate" -> AccumulateValue(r, x.says)
                        [] r.kind = "sample" -> SampleValue(r, x.says)
                        [] r.kind = "series" -> SeriesValue(r, x.says, base, x.ts)
            u == ApplyRollups(rolls, x.says, base, x.ts)
<1>1. x.says # NoValue
  BY DEF Entry
<1>2. u = [i \in DOMAIN rolls |-> one(rolls[i])]
  BY <1>1 DEF ApplyRollups
<1>3. ASSUME NEW r, RollTrue(h, base, r) PROVE RollTrue(Append(h, x), base, one(r))
  <2>1. CASE AccumulateTrue(h, r)
    <3>1. r.kind = "accumulate" /\ one(r) = AccumulateValue(r, x.says)
      BY <2>1 DEF AccumulateTrue
    <3>. QED
      BY <2>1, <3>1, AccumulateHears DEF RollTrue
  <2>2. CASE SampleTrue(h, r)
    <3>1. r.kind = "sample" /\ one(r) = SampleValue(r, x.says)
      BY <2>2 DEF SampleTrue
    <3>. QED
      BY <2>2, <3>1, SampleHears DEF RollTrue
  <2>3. CASE SeriesTrue(h, base, r)
    <3>1. r.kind = "series" /\ one(r) = SeriesValue(r, x.says, base, x.ts)
      BY <2>3 DEF SeriesTrue
    <3>. QED
      BY <2>3, <3>1, SeriesHears DEF RollTrue
  <2>. QED
    BY <1>3, <2>1, <2>2, <2>3 DEF RollTrue
<1>. HIDE DEF one, u
<1>4. \A k \in DOMAIN u : RollTrue(Append(h, x), base, u[k])
  BY <1>2, <1>3
<1>. QED
  BY <1>4 DEF u

\* A packet leaves the rollups of a session true.
LEMMA SessionHears ==
  ASSUME proto \in DOMAIN Says, pkt \in Packet, NEW s, IsStream(s), s.key = Session, SessionTrue(s)
  PROVE  SessionTrue(Updated(s))
<1>. DEFINE u == Updated(s)
            x == [says |-> pkt.says, ts |-> pkt.ts]
<1>1. /\ u.first = s.first
      /\ u.rolls = ApplyRollups(s.rolls, pkt.says, s.first, pkt.ts)
      /\ u.heard = IF pkt.says # NoValue THEN Append(s.heard, x) ELSE s.heard
  BY UpdatedKeeps
<1>2. /\ s.first \in Times /\ s.heard \in Heard /\ FirstsCover(s.heard)
      /\ \A k \in DOMAIN s.rolls : RollTrue(s.heard, s.first, s.rolls[k])
  BY DEF SessionTrue
<1>. HIDE DEF u
<1>3. CASE pkt.says = NoValue
  <2>1. ApplyRollups(s.rolls, pkt.says, s.first, pkt.ts) = s.rolls
    BY <1>3 DEF ApplyRollups
  <2>2. u.first = s.first /\ u.rolls = s.rolls /\ u.heard = s.heard
    BY <1>1, <1>3, <2>1
  <2>3. SessionTrue(u)
    BY <1>2, <2>2 DEF SessionTrue
  <2>. QED
    BY <2>3 DEF u
<1>4. CASE pkt.says # NoValue
  <2>1. pkt.says \in Values /\ pkt.ts \in Times
    BY <1>4 DEF Packet, Values
  <2>2. x \in Entry /\ x.says = pkt.says /\ x.ts = pkt.ts
    BY <1>4, <2>1 DEF Entry
  <2>. HIDE DEF x
  <2>3. u.heard = Append(s.heard, x) /\ u.rolls = ApplyRollups(s.rolls, x.says, s.first, x.ts)
    BY <1>1, <1>4, <2>2
  <2>4. u.heard \in Heard /\ FirstsCover(u.heard)
    BY <1>2, <2>2, <2>3, FirstsAppend
  <2>5. \A k \in DOMAIN u.rolls : RollTrue(u.heard, u.first, u.rolls[k])
    BY <1>1, <1>2, <2>2, <2>3, RollHears
  <2>6. SessionTrue(u)
    BY <1>1, <1>2, <2>4, <2>5 DEF SessionTrue
  <2>. QED
    BY <2>6 DEF u
<1>. QED
  BY <1>3, <1>4

\* Folding a layer keeps every rollup of the session true.
LEMMA RollsFold ==
  ASSUME StoreInv, RollsInv, NEW key, NEW parent, pc \in {"sweep", "fold"}, FoldInto(key, parent)
  PROVE  \A id \in DOMAIN live' : live'[id].key = Session => SessionTrue(live'[id])
<1>. USE DEF StoreInv, HandlesCurrent, SeqsDistinct
<1>0. pkt \in Packet /\ proto \in DOMAIN Says
  BY DEF RollsInv
<1>1. ASSUME NEW id \in Lookup(key), live' = [live EXCEPT ![id] = Updated(@)]
      PROVE  \A c \in DOMAIN live' : live'[c].key = Session => SessionTrue(live'[c])
  <2>1. id \in DOMAIN live /\ IsStream(live[id])
    BY DEF Lookup
  <2>2. /\ DOMAIN live' = DOMAIN live /\ live'[id] = Updated(live[id])
        /\ \A c \in DOMAIN live : c # id => live'[c] = live[c]
    BY <1>1, <2>1, ReplacedEntry
  <2>3. live'[id].key = live[id].key
    BY <2>1, <2>2, UpdatedKeeps
  <2>4. live[id].key = Session => SessionTrue(live'[id])
    BY <1>0, <2>1, <2>2, SessionHears DEF RollsInv
  <2>. QED
    BY <2>2, <2>3, <2>4 DEF RollsInv
<1>2. ASSUME NEW slot \in Slots, Handle(slot) \notin DOMAIN live,
             live' = Overlay([id \in {Handle(slot)} |-> Updated(NewStream(key, parent, nextSeq))], live)
      PROVE  \A c \in DOMAIN live' : live'[c].key = Session => SessionTrue(live'[c])
  <2>. DEFINE h == Handle(slot)
              new == NewStream(key, parent, nextSeq)
  <2>1. /\ IsStream(new) /\ new.key = key /\ new.heard = <<>>
        /\ key = Session => new.first = pkt.ts /\ new.rolls = EmptyRollups(SessionRollups(proto))
    BY DEF NewStream, IsStream
  <2>. HIDE DEF h, new
  <2>2. ASSUME key = Session PROVE SessionTrue(new)
    <3>1. new.first \in Times
      BY <1>0, <2>1, <2>2 DEF Packet
    <3>2. <<>> \in Heard /\ FirstsCover(<<>>)
      BY DEF Heard, FirstsCover
    <3>3. \A k \in DOMAIN new.rolls : RollTrue(<<>>, new.first, new.rolls[k])
      BY <1>0, <2>1, <2>2, EmptyTrue
    <3>. QED
      BY <2>1, <3>1, <3>2, <3>3 DEF SessionTrue
  <2>3. live' = [x \in DOMAIN live \cup {h} |-> IF x = h THEN Updated(new) ELSE live[x]]
    BY <1>2 DEF Overlay, h, new
  <2>4. /\ DOMAIN live' = DOMAIN live \cup {h} /\ live'[h] = Updated(new)
        /\ \A c \in DOMAIN live : live'[c] = live[c]
    BY <1>2, <2>3 DEF h
  <2>5. live'[h].key = key
    BY <2>1, <2>4, UpdatedKeeps
  <2>6. key = Session => SessionTrue(live'[h])
    BY <1>0, <2>1, <2>2, <2>4, SessionHears
  <2>. QED
    BY <2>4, <2>5, <2>6 DEF RollsInv
<1>. QED
  BY <1>1, <1>2 DEF FoldInto

\* Every step keeps every rollup of the session true.
LEMMA RollsStep == StoreInv /\ RollsInv /\ [Next]_vars => RollsInv'
<1>. SUFFICES ASSUME StoreInv, RollsInv, [Next]_vars PROVE RollsInv'
  OBVIOUS
<1>0. UNCHANGED proto /\ proto \in DOMAIN Says /\ Packet' = Packet
  BY StepEffect DEF RollsInv, Packet
<1>1. ASSUME \A id \in DOMAIN live' : live'[id].key = Session => SessionTrue(live'[id]),
             pc' \in {"sweep", "fold"} => pkt' \in Packet
      PROVE  RollsInv'
  BY <1>0, <1>1 DEF RollsInv
<1>2. ASSUME NEW w \in Waits, Receive(w) PROVE RollsInv'
  BY <1>0, <1>1, <1>2 DEF Receive, RollsInv, agg
<1>3. ASSUME NEW id \in DOMAIN live, Evict(id) PROVE
        \A c \in DOMAIN live' : live'[c].key = Session => SessionTrue(live'[c])
  BY <1>3 DEF Evict, Restrict, RollsInv
<1>4. ASSUME NEW id \in DOMAIN live, live' = [live EXCEPT ![id].closed = TRUE]
      PROVE  \A c \in DOMAIN live' : live'[c].key = Session => SessionTrue(live'[c])
  <2>1. IsStream(live[id])
    BY DEF StoreInv, SeqsDistinct
  <2>2. /\ DOMAIN live' = DOMAIN live /\ live'[id] = [live[id] EXCEPT !.closed = TRUE]
        /\ \A c \in DOMAIN live : c # id => live'[c] = live[c]
    BY <1>4, ReplacedEntry
  <2>3. /\ live'[id].key = live[id].key /\ live'[id].first = live[id].first
        /\ live'[id].heard = live[id].heard /\ live'[id].rolls = live[id].rolls
    BY <2>1, <2>2 DEF IsStream
  <2>4. live'[id].key = Session => SessionTrue(live'[id])
    BY <2>3 DEF RollsInv, SessionTrue
  <2>. QED
    BY <2>2, <2>4 DEF RollsInv
<1>5. ASSUME NEW id \in DOMAIN live, SweepOrCap(id) \/ Finish(id) PROVE RollsInv'
  BY <1>0, <1>1, <1>3, <1>4, <1>5 DEF SweepOrCap, Finish, RollsInv
<1>6. ASSUME FoldRoot PROVE RollsInv'
  <2>1. \A id \in DOMAIN live' : live'[id].key = Session => SessionTrue(live'[id])
    BY <1>6, RollsFold DEF FoldRoot
  <2>. QED
    BY <1>1, <1>6, <2>1 DEF FoldRoot, RollsInv
<1>7. ASSUME FoldSession PROVE RollsInv'
  <2>1. \A id \in DOMAIN live' : live'[id].key = Session => SessionTrue(live'[id])
    BY <1>7, RollsFold DEF FoldSession
  <2>. QED
    BY <1>1, <1>7, <2>1 DEF FoldSession, RollsInv
<1>8. ASSUME Poll \/ End \/ Summary PROVE RollsInv'
  BY <1>1, <1>8 DEF Poll, End, Summary, agg, RollsInv
<1>9. ASSUME Done \/ UNCHANGED vars PROVE RollsInv'
  BY <1>1, <1>9 DEF Done, vars, agg, RollsInv
<1>. QED
  BY <1>2, <1>5, <1>6, <1>7, <1>8, <1>9 DEF Next

\* What the invariant says of one rollup is what RollupsTrue says of it.
LEMMA RollShown ==
  ASSUME NEW h \in Heard, NEW base, NEW r, RollTrue(h, base, r)
  PROVE  CASE r.kind = "accumulate" ->
                /\ r.count = Len(h)
                /\ r.overflow <=> Cardinality(Firsts(h)) > AccumulateSetCap
                /\ ToSet(r.values) = Admitted(h)
           [] r.kind = "sample" ->
                h # <<>> => r.first = h[1].says /\ r.last = Last(h).says
           [] r.kind = "series" ->
                /\ [i \in DOMAIN r.ring |-> [says |-> r.ring[i].value,
                                             ts |-> PointTime(base, r.ring[i])]]
                     = SubSeq(h, Larger(1, Len(h) - r.cap + 1), Len(h))
                /\ r.truncated <=> Len(h) > r.cap
<1>1. CASE AccumulateTrue(h, r)
  BY <1>1 DEF AccumulateTrue
<1>2. CASE SampleTrue(h, r)
  BY <1>2 DEF SampleTrue, Last
<1>3. CASE SeriesTrue(h, base, r)
  <2>. DEFINE points == [i \in DOMAIN r.ring |-> [says |-> r.ring[i].value,
                                                  ts |-> PointTime(base, r.ring[i])]]
              n == Len(h)
              c == Len(r.ring)
              from == Larger(1, n - r.cap + 1)
              shown == SubSeq(h, from, n)
  <2>1. /\ r.kind = "series" /\ r.cap \in Nat \ {0} /\ c = Smaller(n, r.cap)
        /\ DOMAIN r.ring = 1..c /\ c \in Nat /\ n \in Nat
        /\ r.truncated <=> n > r.cap
    BY <1>3 DEF SeriesTrue, Heard
  <2>2. from = n - c + 1 /\ from \in 1..(n + 1)
    BY <2>1 DEF Larger, Smaller
  <2>3. \A i \in 1..n : h[i] \in Entry
    BY ElementOfSeq DEF Heard
  <2>. HIDE DEF from
  <2>4. /\ shown \in Seq(Entry) /\ Len(shown) = c
        /\ \A i \in 1..c : shown[i] = h[from + i - 1]
    <3>1. \A i \in from..n : h[i] \in Entry
      BY <2>1, <2>2, <2>3
    <3>2. /\ shown \in Seq(Entry) /\ Len(shown) = IF from <= n THEN n - from + 1 ELSE 0
          /\ \A i \in 1..(n - from + 1) : shown[i] = h[from + i - 1]
      BY <2>1, <2>2, <3>1, SubSeqProperties, SMTT(30)
    <3>. QED
      BY <2>1, <2>2, <3>2
  <2>5. ASSUME NEW i \in 1..c PROVE points[i] = shown[i]
    <3>1. shown[i] = h[n - c + i] /\ n - c + i \in 1..n
      <4>1. from + i - 1 = n - c + i /\ n - c + i \in 1..n
        <5>1. c <= n /\ c \in Nat /\ n \in Nat /\ from = n - c + 1
          BY <2>1, <2>2 DEF Smaller
        <5>. HIDE DEF c, n
        <5>. QED
          BY <5>1
      <4>. QED
        BY <2>4, <4>1
    <3>2. r.ring[i].value = h[n - c + i].says /\ base + r.ring[i].offset = h[n - c + i].ts
      BY <1>3, <2>1 DEF SeriesTrue
    <3>3. h[n - c + i] \in Entry
      BY <2>3, <3>1
    <3>4. points[i] = [says |-> h[n - c + i].says, ts |-> h[n - c + i].ts]
      BY <2>1, <3>2 DEF PointTime
    <3>. QED
      BY <3>1, <3>3, <3>4 DEF Entry
  <2>6. points = shown
    <3>1. shown = [i \in 1..c |-> shown[i]]
      BY <2>4
    <3>2. points = [i \in 1..c |-> points[i]]
      BY <2>1
    <3>. HIDE DEF points, shown
    <3>. QED
      BY <2>5, <3>1, <3>2
  <2>. HIDE DEF points, shown
  <2>7. points = shown /\ (r.truncated <=> n > r.cap) /\ r.kind = "series"
    BY <2>1, <2>6
  <2>. QED
    BY <2>7 DEF points, shown, from
<1>. QED
  BY <1>1, <1>2, <1>3 DEF RollTrue

\* The rollups of a session show what it heard, whatever the capture is, as
\* long as it is shorter than the 292 years a SeriesPoint's offset reaches.
THEOREM RollupsShowWhatWasHeard == Spec => []RollupsTrue
<1>1. Init => RollsInv
  BY DEF Init, RollsInv
<1>2. RollsInv => RollupsTrue
  <2>. SUFFICES ASSUME RollsInv, NEW id \in Lookup(Session) PROVE
         \A k \in DOMAIN live[id].rolls :
           LET h == live[id].heard
               r == live[id].rolls[k]
           IN  CASE r.kind = "accumulate" ->
                      /\ r.count = Len(h)
                      /\ r.overflow <=> Cardinality(Firsts(h)) > AccumulateSetCap
                      /\ ToSet(r.values) = Admitted(h)
                 [] r.kind = "sample" ->
                      h # <<>> => r.first = h[1].says /\ r.last = Last(h).says
                 [] r.kind = "series" ->
                      /\ [i \in DOMAIN r.ring |-> [says |-> r.ring[i].value,
                                                   ts |-> PointTime(live[id].first, r.ring[i])]]
                           = SubSeq(h, Larger(1, Len(h) - r.cap + 1), Len(h))
                      /\ r.truncated <=> Len(h) > r.cap
    BY Zenon DEF RollupsTrue, Firsts, Admitted
  <2>1. SessionTrue(live[id])
    BY DEF RollsInv, Lookup
  <2>. QED
    BY <2>1, RollShown DEF SessionTrue
<1>. QED
  BY <1>1, <1>2, EventsInvariant, RollsStep, PTL DEF Spec, EventsInv
=============================================================================
