--------------------------- MODULE SnapshotView ---------------------------
(***************************************************************************)
(* What readers see of one published snapshot: view/src/index.rs, sorted     *)
(* pages for the web client and timeline bins, and the tree of the terminal  *)
(* under a query.  All are functions of the snapshot; what an index caches   *)
(* it computes from the snapshot alone (WebServe and Pipeline model which    *)
(* snapshot an index was built from).                                       *)
(*                                                                         *)
(* A snapshot is a record: streams, the arena in slot order, and roots, the  *)
(* handles of the root streams in creation order.                          *)
(***************************************************************************)
EXTENDS Query

\* SnapshotIndex::order: the largest first, the earliest first for first_seen;
\* ties in creation order.
Order(snap, key) ==
  SortSeq(snap.streams, LAMBDA s, u :
    IF key = "first" THEN s.first < u.first \/ (s.first = u.first /\ s.seq < u.seq)
    ELSE \/ SortValue(key, s) > SortValue(key, u)
         \/ SortValue(key, s) = SortValue(key, u) /\ s.seq < u.seq)

\* query_sets: the matches, and the matches with their ancestors, as created
\* sequence numbers.  A text that does not parse filters nothing.
SeqsOf(streams) == {s.seq : s \in streams}

MatchSet(snap, q) == SeqsOf(IF q.ok THEN Matches(q.e, All(snap)) ELSE All(snap))

VisibleSet(snap, q) == SeqsOf(IF q.ok THEN MatchingWithAncestors(q.e, All(snap)) ELSE All(snap))

InScope(snap, scope, s) ==
  CASE scope.kind = "roots" -> s.parent = NoStream
    [] scope.kind = "children" ->
         \E p \in All(snap) : p.seq = scope.seq /\ s.parent = p.id
    [] scope.kind = "flat" -> TRUE

\* window: the rows in scope that survive the query, in order, and of them the
\* page asked for.  Tree scopes keep the ancestors of a match, the flat table
\* has the matches only.
WindowRows(snap, q, scope, sort, descending) ==
  LET order == IF descending THEN Order(snap, sort) ELSE Reverse(Order(snap, sort))
      keep == IF scope.kind = "flat" THEN MatchSet(snap, q) ELSE VisibleSet(snap, q)
  IN  SelectSeq(order, LAMBDA s : InScope(snap, scope, s) /\ s.seq \in keep)

PageOf(rows, offset, limit) == SubSeq(rows, offset + 1, Min({offset + limit, Len(rows)}))

Window(snap, q, scope, sort, descending, offset, limit) ==
  PageOf(WindowRows(snap, q, scope, sort, descending), offset, limit)

-----------------------------------------------------------------------------
\* capture_span
SpanStart(snap) == Min({s.first : s \in All(snap)})
SpanEnd(snap) == Max({s.last : s \in All(snap)})

\* bin_of, over a span of at least one.
BinOf(start, span, bins, ts) ==
  Min({(Max({0, ts - start}) * bins) \div span, bins - 1})

\* The bins a stream is active in.
ActiveBins(start, span, bins, s) ==
  BinOf(start, span, bins, s.first)..BinOf(start, span, bins, s.last)

\* timeline: lanes for the streams with the most bytes, the last lane for all
\* the others together.  No answer for an empty snapshot, or one whose last
\* packet is stamped before its first.
LanesOf(kept, start, end, bins, lanes) ==
  LET own == Min({lanes - 1, Len(kept)})
      bars == [i \in DOMAIN kept |-> ActiveBins(start, Max({1, end - start}), bins, kept[i])]
      active(lane) == [b \in 0..(bins - 1) |-> Cardinality({i \in lane : b \in bars[i]})]
  IN  [i \in 1..own |-> active({i})]
        \o (IF Len(kept) = own THEN <<>> ELSE <<active((own + 1)..Len(kept))>>)

Timeline(snap, q, askedBins, askedLanes) ==
  LET visible == VisibleSet(snap, q)
  IN  IF snap.streams = <<>> \/ SpanEnd(snap) < SpanStart(snap) THEN <<>>
      ELSE LanesOf(SelectSeq(Order(snap, "bytes"), LAMBDA s : s.seq \in visible),
                   SpanStart(snap), SpanEnd(snap), Max({1, askedBins}), Max({1, askedLanes}))

-----------------------------------------------------------------------------
\* flatten, of the streams a query keeps.
FlattenTo(cap, snap, sort, collapsed, q) ==
  FlattenVisible(cap, snap, sort, collapsed, VisibleSet(snap, q), q.ok)

=============================================================================
