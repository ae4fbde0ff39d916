------------------------------ MODULE Browser ------------------------------
(***************************************************************************)
(* The terminal application: App::on_key and tick of tui/src/app.rs, the     *)
(* parts of ui::draw that write to App, and the event loop of tui/src/lib.rs *)
(* that runs them in turn, over snapshots that another thread publishes.     *)
(* (Pipeline models the hub and the loop's end.)  Scroll offsets are left    *)
(* out.                                                                     *)
(*                                                                         *)
(* A key is named as in the code.  In the filter box a key stands for a      *)
(* chunk of text, a few characters typed one after the other.               *)
(***************************************************************************)
EXTENDS Tree, UnknownRegistry

CONSTANTS
  ParseText(_),       \* StreamQuery::parse (Query)
  VisibleSeqs(_, _),  \* the streams of a snapshot that a query keeps (SnapshotView)
  Snapshots,     \* the stream snapshots the capture publishes, in order
  Keys,          \* the keys pressed outside the filter box
  Chunks,        \* what is typed into the filter box: sequences of atoms
  Page,          \* rows of a PageUp or PageDown
  Full,          \* the timeline's span, in the units of the three steps below
  Scrub, Coarse, TickStep,
  MaxEffort      \* bound on what is done: see Effort

\* The bound is shared, so that a long filter, many keys and many unknown
\* occurrences are each explored, and fewer of each together.
Effort(pressed, told, typed) == 4 * pressed + 3 * told + 2 * typed

Tabs == <<"Streams", "Timeline", "Unknown", "Summary">>
Sorts == <<"bytes", "packets", "first", "duration">>
NoSelection == 0

VARIABLES
  published,   \* how many snapshots are out
  registry,    \* the aggregator's UnknownRegistry
  heard,       \* every occurrence it was told of, by shape
  told,        \* how many those are
  view,        \* what the loop draws from: [snap, unknowns]
  turn,        \* "draw" or "key": where the loop is
  tab, sort, collapsed, selected,
  filter,      \* the chunks in the filter box
  editing,     \* filter_editing
  query,       \* "none", "ok" or "broken": App::query and query_error
  unknownIndex, unknownOpen, help, paused,
  playhead,    \* timeline_t
  playing,     \* timeline_playing
  quit,
  keys         \* keys pressed so far outside the filter box

capture == <<published, registry, heard, told>>
rowState == <<tab, sort, collapsed, selected>>
filterState == <<filter, editing, query>>
unknownState == <<unknownIndex, unknownOpen>>
timelineState == <<playhead, playing>>
app == <<rowState, filterState, unknownState, help, paused, timelineState, quit>>
vars == <<capture, view, turn, app, keys>>

Latest == [snap |-> Snapshots[published], unknowns |-> GroupsInOrder(registry)]

\* What the next frame is drawn from: a frozen display keeps what it has.
Shown == IF paused THEN view ELSE Latest

FilterText == FlattenSeq(filter)

\* A text of spaces only is no query.
Blank(text) == \A i \in DOMAIN text : text[i] = " "

NoQuery == [ok |-> FALSE]

\* active_query: a broken filter hides nothing.
ActiveQuery == IF query = "ok" /\ ~Blank(FilterText) THEN ParseText(FilterText) ELSE NoQuery

RowsOf(v) ==
  FlattenVisible(MaxRows, v.snap, sort, collapsed, VisibleSeqs(v.snap, ActiveQuery), ActiveQuery.ok)

Rows == RowsOf(view)

Positions(rows) == {i \in DOMAIN rows : rows[i].seq = selected}

\* A slip: the row number of the last frame is kept instead of the stream.
SelectedIndexByRow(rows) ==
  IF Positions(Rows) = {} THEN 1 ELSE Min({CHOOSE i \in Positions(Rows) : TRUE, Len(rows)})

\* selected_index: the row of the selected stream, the first row without one.
SelectedIndex(rows) ==
  IF Positions(rows) = {} THEN 1 ELSE CHOOSE i \in Positions(rows) : TRUE

Init ==
  /\ published = 1
  /\ registry = EmptyRegistry
  /\ heard = [k \in Shapes |-> <<>>]
  /\ told = 0
  /\ view = Latest
  /\ turn = "draw"
  /\ tab = "Streams" /\ sort = "bytes" /\ collapsed = {} /\ selected = NoSelection
  /\ filter = <<>> /\ editing = FALSE /\ query = "none"
  /\ unknownIndex = 0 /\ unknownOpen = FALSE /\ help = FALSE /\ paused = FALSE
  /\ playhead = Full /\ playing = FALSE /\ quit = FALSE
  /\ keys = 0

-----------------------------------------------------------------------------
\* The capture goes on while the terminal shows an earlier snapshot.
Publish ==
  /\ published < Len(Snapshots)
  /\ published' = published + 1
  /\ UNCHANGED <<registry, heard, told, view, turn, app, keys>>

Hear(o) ==
  /\ Effort(keys, told + 1, Len(filter)) <= MaxEffort
  /\ registry' = Ingest(registry, o)
  /\ heard' = [heard EXCEPT ![o.key] = Append(@, o)]
  /\ told' = told + 1
  /\ UNCHANGED <<published, view, turn, app, keys>>

\* The selection anchored to the rows of a frame.
Anchored(rows) == IF rows = <<>> THEN selected ELSE rows[SelectedIndex(rows)].seq

\* One turn of the loop up to the wait for a key: a newer snapshot unless the
\* display is frozen, a frame, and a tick of the playback.  Drawing the rows
\* anchors the selection again, drawing the unknown table clamps its index.
Draw ==
  /\ turn = "draw" /\ ~quit
  /\ turn' = "key"
  /\ view' = Shown
  /\ selected' = IF tab \in {"Streams", "Timeline"} THEN Anchored(RowsOf(Shown)) ELSE selected
  /\ unknownIndex' = IF tab = "Unknown" /\ Shown.unknowns # <<>>
                     THEN Min({unknownIndex, Len(Shown.unknowns) - 1}) ELSE unknownIndex
  /\ LET running == tab = "Timeline" /\ playing
     IN  /\ playhead' = IF running THEN Min({Full, playhead + TickStep}) ELSE playhead
         /\ playing' = (playing /\ ~(running /\ playhead' = Full))
  /\ UNCHANGED <<capture, tab, sort, collapsed, filterState, unknownOpen, help, paused,
                 quit, keys>>

\* 100 ms without a key.
NoKey ==
  /\ turn = "key" /\ turn' = "draw"
  /\ UNCHANGED <<capture, view, app, keys>>

-----------------------------------------------------------------------------
(* The filter box. *)

\* refresh_query
Refreshed(chunks) ==
  LET text == FlattenSeq(chunks)
  IN  IF Blank(text) THEN "none" ELSE IF ParseText(text).ok THEN "ok" ELSE "broken"

Edit(chunks, still) ==
  /\ turn = "key" /\ turn' = "draw"
  /\ editing
  /\ filter' = chunks
  /\ editing' = still
  /\ query' = Refreshed(chunks)
  /\ UNCHANGED <<capture, view, rowState, unknownState, help, paused, timelineState,
                 quit, keys>>

Type(chunk) ==
  /\ Effort(keys, told, Len(filter) + 1) <= MaxEffort
  /\ Edit(Append(filter, chunk), TRUE)

Backspace == Edit(IF filter = <<>> THEN filter ELSE Front(filter), TRUE)

EnterFilter == Edit(filter, FALSE)

EscapeFilter == Edit(<<>>, FALSE)

-----------------------------------------------------------------------------
(* Keys outside the filter box.  An action says what one kind of key does;   *)
(* Press says when it gets there.                                          *)

\* Ctrl-C, before every mode.
CtrlC ==
  /\ turn = "key" /\ turn' = "draw"
  /\ quit' = TRUE
  /\ UNCHANGED <<capture, view, rowState, filterState, unknownState, help, paused,
                 timelineState, keys>>

\* What a key press leaves alone, by the part of the app it is about.
OnlyRows == UNCHANGED <<filterState, unknownState, help, paused, timelineState, quit>>
OnlyTimeline == UNCHANGED <<filterState, unknownState, help, paused, quit>>
OnlyUnknown == UNCHANGED <<rowState, filterState, help, paused, timelineState, quit>>

\* Any key dismisses the help.
DismissHelp ==
  /\ help' = FALSE
  /\ UNCHANGED <<rowState, filterState, unknownState, paused, timelineState, quit>>

\* The open popup takes every key; three of them close it.
PopupKey(k) ==
  /\ unknownOpen' = (unknownOpen /\ k \notin {"Esc", "Enter", "q"})
  /\ unknownIndex' = unknownIndex
  /\ OnlyUnknown

NextOf(ring, x) ==
  LET i == CHOOSE j \in DOMAIN ring : ring[j] = x IN ring[(i % Len(ring)) + 1]

GlobalKeys == {"q", "?", "1", "2", "3", "4", "Tab", "p"}

GlobalKey(k) ==
  /\ quit' = (k = "q" \/ quit)
  /\ help' = (k = "?" \/ help)
  /\ paused' = (IF k = "p" THEN ~paused ELSE paused)
  /\ tab' = CASE k = "1" -> "Streams" [] k = "2" -> "Timeline" [] k = "3" -> "Unknown"
              [] k = "4" -> "Summary" [] k = "Tab" -> NextOf(Tabs, tab) [] OTHER -> tab
  /\ UNCHANGED <<sort, collapsed, selected, filterState, unknownState, timelineState>>

\* "/" on the two tabs that have rows.
OpenFilter ==
  /\ editing' = TRUE
  /\ UNCHANGED <<rowState, filter, query, unknownState, help, paused, timelineState, quit>>

\* select_row, with rows numbered from one.
SelectRow(rows, i) ==
  selected' = IF rows = <<>> THEN NoSelection ELSE rows[Max({1, Min({i, Len(rows)})})].seq

Moves == {"Up", "Down", "PageUp", "PageDown", "Home", "End"}

\* The row a movement key goes to, before it is clamped.
MoveTo(k, rows, i) ==
  CASE k = "Up" -> i - 1 [] k = "Down" -> i + 1 [] k = "PageUp" -> i - Page
    [] k = "PageDown" -> i + Page [] k = "Home" -> 1 [] k = "End" -> Len(rows)

\* on_streams_key, over the rows of the last frame.
StreamsKey(k, rows, i) ==
  LET row == rows[i]
      any == rows # <<>>
      parents == {j \in DOMAIN rows : any /\ rows[j].id = row.parent}
  IN  /\ OnlyRows
      /\ tab' = tab
      /\ \/ k \in Moves /\ SelectRow(rows, MoveTo(k, rows, i)) /\ UNCHANGED <<sort, collapsed>>
         \/ /\ k \in {"Enter", "Space"}
            /\ collapsed' = IF any /\ row.hasChildren
                            THEN SymDiff(collapsed, {row.seq}) ELSE collapsed
            /\ UNCHANGED <<sort, selected>>
         \/ /\ k = "Right"
            /\ collapsed' = IF any THEN collapsed \ {row.seq} ELSE collapsed
            /\ UNCHANGED <<sort, selected>>
         \/ /\ k = "Left"
            /\ LET folds == any /\ row.hasChildren /\ row.expanded /\ Blank(FilterText)
               IN  /\ collapsed' = IF folds THEN collapsed \cup {row.seq} ELSE collapsed
                   /\ IF ~folds /\ parents # {}
                      THEN SelectRow(rows, CHOOSE j \in parents : TRUE)
                      ELSE selected' = selected
            /\ sort' = sort
         \/ k = "e" /\ collapsed' = {} /\ UNCHANGED <<sort, selected>>
         \/ /\ k = "c"
            /\ collapsed' = {s.seq : s \in {u \in All(view.snap) : u.children # <<>>}}
            /\ UNCHANGED <<sort, selected>>
         \/ k = "s" /\ sort' = NextOf(Sorts, sort) /\ UNCHANGED <<collapsed, selected>>

\* on_timeline_key
TimelineKey(k, rows) ==
  LET scrubbed(d) == /\ playing' = FALSE
                     /\ playhead' = Max({0, Min({Full, playhead + d})})
  IN  /\ OnlyTimeline
      /\ UNCHANGED <<sort, collapsed>>
      /\ \/ k = "Left" /\ scrubbed(-Scrub) /\ UNCHANGED <<tab, selected>>
         \/ k = "Right" /\ scrubbed(Scrub) /\ UNCHANGED <<tab, selected>>
         \/ k \in {"[", "PageUp"} /\ scrubbed(-Coarse) /\ UNCHANGED <<tab, selected>>
         \/ k \in {"]", "PageDown"} /\ scrubbed(Coarse) /\ UNCHANGED <<tab, selected>>
         \/ k = "Home" /\ scrubbed(-Full) /\ UNCHANGED <<tab, selected>>
         \/ k = "End" /\ scrubbed(Full) /\ UNCHANGED <<tab, selected>>
         \/ /\ k = "Space"
            /\ playhead' = IF ~playing /\ playhead = Full THEN 0 ELSE playhead
            /\ playing' = ~playing
            /\ UNCHANGED <<tab, selected>>
         \/ /\ k \in {"Up", "Down"}
            /\ SelectRow(rows, MoveTo(k, rows, SelectedIndex(rows)))
            /\ UNCHANGED <<tab, playhead, playing>>
         \/ k = "Enter" /\ tab' = "Streams" /\ UNCHANGED <<selected, playhead, playing>>

\* on_unknown_key
UnknownKey(k) ==
  LET last == Max({0, Len(view.unknowns) - 1})
  IN  /\ OnlyUnknown
      /\ unknownIndex' = CASE k = "Up" -> Max({0, unknownIndex - 1})
                           [] k = "Down" -> Min({unknownIndex + 1, last})
                           [] k = "Home" -> 0
                           [] k = "End" -> last
                           [] OTHER -> unknownIndex
      /\ unknownOpen' = (unknownOpen \/ (k = "Enter" /\ view.unknowns # <<>>))

\* A key that means nothing on the tab it is pressed on.
Idle == UNCHANGED app

StreamsKeys == Moves \cup {"Enter", "Space", "Right", "Left", "e", "c", "s"}
TimelineKeys == Moves \cup {"Left", "Right", "[", "]", "Space", "Enter"}
UnknownKeys == {"Up", "Down", "Home", "End", "Enter"}

\* on_key, in the order of its early returns.
Press(k) ==
  /\ turn = "key" /\ turn' = "draw"
  /\ ~editing
  /\ Effort(keys + 1, told, Len(filter)) <= MaxEffort
  /\ keys' = keys + 1
  /\ \/ help /\ DismissHelp
     \/ ~help /\ unknownOpen /\ PopupKey(k)
     \/ /\ ~help /\ ~unknownOpen
        /\ \/ k \in GlobalKeys /\ GlobalKey(k)
           \/ k = "/" /\ tab \in {"Streams", "Timeline"} /\ OpenFilter
           \/ k \in StreamsKeys /\ tab = "Streams" /\ StreamsKey(k, Rows, SelectedIndex(Rows))
           \/ k \in TimelineKeys /\ tab = "Timeline" /\ TimelineKey(k, Rows)
           \/ k \in UnknownKeys /\ tab = "Unknown" /\ UnknownKey(k)
           \/ /\ k \notin GlobalKeys
              /\ \/ tab = "Streams" /\ k \notin StreamsKeys \cup {"/"}
                 \/ tab = "Timeline" /\ k \notin TimelineKeys \cup {"/"}
                 \/ tab = "Unknown" /\ k \notin UnknownKeys
                 \/ tab = "Summary"
              /\ Idle
  /\ UNCHANGED <<capture, view>>

\* The loop is over once quit is set.
Quitted == quit /\ turn = "draw" /\ UNCHANGED vars

Next ==
  \/ Publish
  \/ \E o \in Occurrences : Hear(o)
  \/ Draw \/ NoKey \/ CtrlC
  \/ \E c \in Chunks : Type(c)
  \/ Backspace \/ EnterFilter \/ EscapeFilter
  \/ \E k \in Keys : Press(k)
  \/ Quitted

Spec == Init /\ [][Next]_vars

-----------------------------------------------------------------------------
\* app.rs, "stable while live updates insert and evict rows around it": a frame
\* keeps the stream selected while that stream has a row, whatever snapshot it
\* is drawn from, and otherwise selects one of the streams it shows.
SelectionStable ==
  [][turn = "draw" /\ turn' = "key" /\ tab \in {"Streams", "Timeline"} =>
       LET shown == {r.seq : r \in Range(RowsOf(Shown))}
       IN  /\ shown # {} => selected' \in shown
           /\ selected \in shown => selected' = selected]_vars

\* unknown.rs, ingest: a group is what the last of its occurrences come to, as
\* many as it counts, since it was last evicted or first heard of; there are at
\* most MaxGroups, and as many as that once a shape that was heard of is out.
RegistryTrue ==
  /\ Cardinality(DOMAIN registry.groups) <= MaxGroups
  /\ \A k \in DOMAIN registry.groups :
       LET n == registry.groups[k].count
       IN  /\ n \in 1..Len(heard[k])
           /\ GroupTrue(registry.groups[k], SubSeq(heard[k], Len(heard[k]) - n + 1, Len(heard[k])))
  /\ \A k \in Shapes \ DOMAIN registry.groups :
       heard[k] # <<>> => Cardinality(DOMAIN registry.groups) = MaxGroups
=============================================================================
