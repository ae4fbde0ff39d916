------------------------------- MODULE Tree -------------------------------
(***************************************************************************)
(* The rows of the terminal's tree: tui/src/tree.rs, and the lookups by      *)
(* handle it shares with the query language.                               *)
(*                                                                         *)
(* A snapshot is a record: streams, the arena in slot order, and roots, the  *)
(* handles of the root streams in creation order.                          *)
(***************************************************************************)
EXTENDS Integers, FiniteSets, SequencesExt, FiniteSetsExt, Functions, TLC

CONSTANT MaxRows    \* MAX_ROWS of tree.rs

ASSUME RowsAssumption == MaxRows \in Nat

All(snap) == Range(snap.streams)

NoStream == 0

\* Streams are looked up by handle; a handle that is not in the snapshot
\* resolves to nothing.
Known(streams, id) == id \in {s.id : s \in streams}
ById(streams, id) == CHOOSE s \in streams : s.id = id

Duration(s) == IF s.last >= s.first THEN s.last - s.first ELSE 0

\* total_bytes, total_packets and the other values rows are ordered by.
SortValue(key, s) ==
  CASE key = "bytes" -> s.bytes
    [] key = "packets" -> s.packets
    [] key = "duration" -> Duration(s)

\* sort_siblings of tree.rs is a stable sort, so ties keep the order given,
\* and its first-seen order is the order of creation.
SortSiblings(siblings, sort) ==
  LET at(s) == CHOOSE i \in DOMAIN siblings : siblings[i] = s
  IN  SortSeq(siblings, LAMBDA s, u :
        IF sort = "first" THEN s.seq < u.seq
        ELSE \/ SortValue(sort, s) > SortValue(sort, u)
             \/ SortValue(sort, s) = SortValue(sort, u) /\ at(s) < at(u))

\* The streams of a list of handles that are in the snapshot and visible.
Resolve(snap, ids, visible) ==
  LET known == SelectSeq(ids, LAMBDA id : Known(All(snap), id))
      found == [i \in DOMAIN known |-> ById(All(snap), known[i])]
  IN  SelectSeq(found, LAMBDA s : s.seq \in visible)

\* push_subtree, one stream at a time: the first of the streams still to be
\* pushed gets its row, and its children, unless it is collapsed, come before
\* the others.
PushRow(w, snap, sort, collapsed, visible, filtered) ==
  LET s == Head(w.todo)
      children == SortSiblings(Resolve(snap, s.children, visible), sort)
      expanded == filtered \/ s.seq \notin collapsed
      row == [seq |-> s.seq, id |-> s.id, parent |-> s.parent,
              hasChildren |-> children # <<>>, expanded |-> expanded]
  IN  IF w.todo = <<>> THEN w
      ELSE [rows |-> Append(w.rows, row),
            todo |-> (IF expanded THEN children ELSE <<>>) \o Tail(w.todo)]

\* flatten: the roots' subtrees, and nothing more once the rows reach the cap.
FlattenVisible(cap, snap, sort, collapsed, visible, filtered) ==
  LET roots == SortSiblings(Resolve(snap, snap.roots, visible), sort)
      walk[n \in 0..cap] ==
        IF n = 0 THEN [rows |-> <<>>, todo |-> roots]
        ELSE PushRow(walk[n - 1], snap, sort, collapsed, visible, filtered)
  IN  walk[cap].rows
=============================================================================
