# A TLA+ development of pktflow

pktflow dissects captured packets layer by layer, folds the layers into a tree
of *streams* (an IP pair carries TCP connections, which carry ...), and shows
that tree as text, as JSON events, as a terminal UI or as a web page, for a file
or for a live interface. This directory models that path from the bytes of a
packet to the screen: the dissection engine with its plugins, the stream store
with its lazy heaps and recycled slots, the threads of a run, the shared state of
the web server, and the lenses through which a reader looks at a snapshot that is
replaced under them.

* [1 The system](#1-the-system) - inventory: components, state, operations, interactions
* [2 Modules](#2-modules) - which module models what, and how it corresponds to the code
* [3 Runs](#3-runs) - what each TLC run checks, bounds, fairness
* [4 Where the code and its documentation differ](#4-where-the-code-and-its-documentation-differ)
* [5 Proofs](#5-proofs) - what is proved, from what, along which argument
* [6 What is left out](#6-what-is-left-out)
* [7 Plan](#7-plan)

## 1 The system

### Components

| Component (crate) | State it keeps | Operations that change it | What makes it correct |
|---|---|---|---|
| **Engine, router, layer parser, diagnostics** (pktflow-core) | route table and fallback pool, frozen after `build`; per packet the layers so far, the cursor, the pending hint | `register`, `route`, `unroute`, `build`; `layers`, `next`, `into_packet` | no claim shadows another; headers tile the capture whatever plugins claim; guesses are gated and the best one wins; every walk ends |
| **Protocol plugins** (pktflow-plugins) | none; per packet the context | `parse`, `probe`; `decode_name`; the TCP and SCTP lifecycles | no length is trusted beyond the bytes; flow keys are there at the depth aggregation uses; framing does not depend on the depth |
| **Stream aggregator** (pktflow-flows `store.rs`) | arena of slots with generations, free list, lookup index, roots, two lazy heaps (expiry, LRU), live count, per-protocol counters, totals, clock, condense groups, sink | `ingest`, `finish`; inside them `sweep`, `get_or_insert`, `condense_fold`, `create_stream_raw`, `evict`, `enforce_max_streams`, `compact_lru` | the arena is a forest of live streams; no handle outlives its stream; every leaf stays reachable for eviction; the cap holds; counters equal a scan; every stream reaches the sink once, children first |
| **Flow keys** (`key.rs`) | none | `flow_key`, `condense_candidates` | both directions give one key, different conversations different keys |
| **Rollups** (`rollup.rs`) | one accumulator per declaration of a stream's plugin | `apply` | bounded accumulators agree with the unbounded definition, or say that they overflowed |
| **Unknown-traffic registry** (`unknown.rs`) | groups by signature, sample rings, endpoint sets | `ingest` | caps hold and evict the coldest group; counts are exact or flagged |
| **Capture sources and pump** (pktflow-capture) | position in the source, the live source's stop flag, the report | `next_packet`, `pump` | every packet is delivered once, in order, up to the limit or the stop |
| **Run pipeline** (pktflow-cli `run.rs`) | bounded channel, aggregator, publish timer | open, register, receive, publish, join, finish | nothing captured is lost; the final snapshot is complete; the run ends |
| **Stop flags** (`run.rs`) | master flag, list of registered flags | `trigger`, `register` | a stop reaches every source |
| **Snapshot hub** (pktflow-view `hub.rs`) | snapshot under a lock, generation, finished, error, progress | `publish`, `set_progress`, `mark_finished`, `set_error` | a reader never believes it has seen a snapshot it missed; a failed run never looks complete |
| **Terminal UI** (pktflow-tui) | last generation seen, the view, pause; selection, folds, filter, timeline cursor, popups | a turn of `event_loop`, `on_key`, `draw`, `tick` | quitting ends the process; the final snapshot reaches the screen; the selection stays on its stream |
| **Snapshot index and query** (pktflow-view `index.rs`, `query.rs`; `tree.rs`) | none between requests | parse, evaluate, `window`, `timeline`, `flatten` | a query means what its grammar says; tree, pages and bins show exactly what it selects |
| **NDJSON events** (pktflow-cli `views.rs`) | when each stream was last printed, display numbers by handle | `poll`, the eviction sink, the end of the run | new, update and closed come in order and name the right parent |
| **Web server** (pktflow-web) | current hub, index memo, last upload | `index`, upload handler, ticker | a request never gets an index older than the generation it asked for; uploads leave no stray file |
| **Web page** (`assets/index.html`) | last generation, the snapshot shown | tick handler, refetches in flight | an open page ends up on the newest snapshot, unless a fetch fails or is overtaken |
| **Serve command** (pktflow-cli `lib.rs`) | `active_stop` | upload spawner, shutdown | every pipeline but the active one is told to stop |
| Formatting, command line, JSON builders, test kit | none | - | layout and argument parsing |

### How they interact

One packet is dissected into layers by an engine that does not change after it is
built. One `ingest` call folds those layers into the aggregator and runs to
completion on one thread, the *pipeline thread*, which owns the aggregator. It
receives packets over a bounded channel from the *pump thread*, which owns the
source. It publishes immutable snapshots into a *hub*, which the UI thread or the
web handlers read, by polling a generation counter and then taking the snapshot;
what they show of it is a function of the snapshot, of the query and of the view
state. With `--format json` there is no hub: a tracker polls the aggregator after
every packet, and its eviction sink prints in between. A Ctrl-C handler and the
UI's quit call `StopFlags::trigger`, which sets a master flag (looked at by file
sources) and every registered flag (looked at by live sources). Under `serve`, an
upload starts another pipeline with a hub of its own, stops the active one, swaps
the served hub, and deletes the temporary file of the upload before it: three
critical sections, in concurrent handlers.

### What is hard here

* **Lengths from the wire** (plugins, parser): each of about eighty parsers turns
  length fields into a header length, and the walk trusts it with its cursor.
* **Context between layers** (plugins): a parser may read what an enclosing layer
  extracted, and what was extracted depends on the depth asked for.
* **Who gets the bytes** (router): routes, ranked lists and scored guesses, with
  claims that collide, are overridden or withdrawn.
* **Compressed names** (dns): pointers go backward, labels forward again.
* **Lazy heaps** (store): entries are never updated or removed in place. A
  popped entry may belong to an evicted stream, a recycled slot, a stream that
  has been touched since or one that has become a parent. Each is dropped or
  re-filed, and the last entry of a stream that can be evicted must not be.
* **Recycled slots** (store, events): ids in heaps, index, groups, parents,
  children and in the event tracker must not reach the slot's next owner.
* **Incremental counters** (store): created, live and byte counters are kept
  along five paths instead of being scanned.
* **Condensation** (store): a node and the expanded flows of its anchor are
  evicted in any order, and both directions of one flow look for an anchor.
* **Caps** (rollups, registry, member sets, rows): each bounded thing must be
  exact below its cap and say so above it.
* **Time that runs backwards** (store, pump, rollups, registry, timeline).
* **Lock-free reading** (hub, UI, web): the snapshot, the generation, the error
  and the finished flag are written and read in separate steps.
* **Stop, end and failure** (run): a stop may come before the source exists,
  while the channel is full or after the end; a read may fail with packets in
  flight; the process waits for the pipeline.
* **Memo and swap** (web): a memo keyed by generation, hubs that each count from
  zero, and handlers that overtake each other.
* **Rows that move** (terminal UI): a key acts on rows that a refresh has filtered,
  sorted or evicted from since they were drawn.

`PROJECT.json` lists these as hazards, each at its line and with the properties
that would catch it.

## 2 Modules

| Module | Models | Grain |
|---|---|---|
| `Wire` | the contract between engine and plugins: `plugin.rs`, `bytes.rs`, `route.rs`, `depth.rs`, `stream.rs` | operators |
| `PluginsNetwork`, `PluginsLink`, `PluginsTunnel`, `PluginsServices`, `PluginsApps`, `PluginsText`, `PluginsIndustrial` | the plugins, by family | per plugin: identity, parse, probe, declaration |
| `Headers` | for each plugin, the fields of what it may find in n bytes, with any value | sets of records |
| `Catalogue` | `default_engine`: the plugins in the order of their registration | |
| `Engine` | `engine.rs`, `router.rs`, `diagnostics.rs` | operators, over any plugins |
| `Dissect` | `parser.rs`: build, `layers`, `next` | one action per step of a walk |
| `Suite` | `Dissect` with the plugins that ship, and what is expected of those | |
| `MCDissect`, `DissectProofs` | instance with the catalogue; proofs over any plugins, and over those that ship | |
| `DnsNames` | `decode_name` of `dns.rs` | one action per turn of its loop |
| `MCDnsNames`, `DnsNamesProofs` | instance; proofs | |
| `StreamStore` | `store.rs`, with the key construction of `key.rs` | every loop of `ingest` and `finish`, one action per branch |
| `MCStreamStore` | instances | |
| `StreamStoreProofs`, `StreamStoreTheorems` | proofs about `StreamStore`: types, the arena, the cap, `finish`; index, groups, sink, heaps, counters and bytes | |
| `Lifecycles`, `Rollups` | the TCP and SCTP lifecycles; `rollup.rs` | operators |
| `Events` | `NdjsonTracker` over one address pair and one session | every sweep, fold, poll and line of a packet |
| `MCEvents`, `EventsProofs` | instance; proofs about `Events` and `Rollups` | |
| `CaptureFeed` | *abstract*: what a run promises the readers of its hub | |
| `Pipeline` | `run.rs`, `source.rs`, `live.rs`, `offline.rs`, `hub.rs`, the TUI's event loop | every atomic access and critical section |
| `MCPipeline`, `PipelineProofs` | instances; proofs about `Pipeline` | |
| `WebServe` | pktflow-web `lib.rs`, the upload spawner, the page's tick handler and `refetch` | every lock and atomic access |
| `MCWebServe`, `WebServeProofs` | instances; proofs | |
| `Query` | `query.rs`: lexer, parser, evaluation, ancestors and context | operators |
| `Tree` | `tree.rs` (rows) | operators |
| `SnapshotView` | `index.rs` (pages, timeline) | operators |
| `UnknownRegistry` | `unknown.rs` | operators |
| `Browser` | `app.rs` and what `ui.rs` writes back, over snapshots and unknown traffic that arrive meanwhile | one action per key, draw and publication |
| `Lenses` | what `Browser` shows with the parser and the filter of `Query` and `SnapshotView`, against the documented grammar and the definitions of rows, pages and bins, which share nothing with them | |
| `MCBrowser`, `BrowserProofs` | instances; proofs about `Browser` over any parser and filter | |

`Dissect` produces the layers that `StreamStore` folds; `StreamStore` is what
`Pipeline` leaves out of folding one packet. `Pipeline` implements `CaptureFeed`
(checked and proved as a refinement), and `WebServe` uses of its pipelines what `CaptureFeed`
promises: publications, the last of them final, then the end. `Browser` composes
`Tree` and `UnknownRegistry` and has the parser and the filter as parameters, which
`Lenses` compares, as `Query` and `SnapshotView` give them, with their
definitions. `Events` composes `Lifecycles` and `Rollups` with the part of the
store that its lines depend on. Definitions whose
comment calls them a *mutant* or a *slip* are deliberately wrong variants of the
definition they stand before; nothing refers to them, and each shows that a
property is able to fail.

### Wire, Plugins*, Headers, Catalogue

Bytes are abstracted to a *header*, a record with the number of bytes on offer and
the values of the fields that decide what the plugin does. `Need(h, n, then)` is a
bounds-checked read (`Truncated` if it fails), `Refuse(bad, then)` a
`ParseError::Malformed`, and a parse is the nest of these in the code's order,
ending in a `Layer` of a header length, the fields extracted at this depth that
are part of a key or that a later layer reads, and a hint. Record lists (options,
attributes, TLVs) are sequences of sizes walked by `Walk`, a recursive function of the
record and the offset it starts at. `Headers` gives a length field any value, whatever
is on offer. A probe gives a
confidence or none. A declaration holds claims, predicates, identity and condense
spec.

### Engine and Dissect

| Code | Model |
|---|---|
| `EngineBuilder` and its calls | a record of plugins, overrides and unroutes; `BuildError`, `Build` |
| `Engine::layers` and the forced entry's `assert!` | `Layers(o)`, to phase `walk` or `panic` |
| `LayerIter::next` | `AtCap`, `EnterStep` (entry tiers), `NextStep` (pending hint); each ends in `Emit` or `Halt` |
| `Router::resolve_next` | `ResolveNext`: terminal, by route, by name, ranked candidates, fallback pool |
| `heuristic_fallback` | `HeuristicFallback`: the loop that takes the best candidate left and drops it if it does not parse |
| `diagnose_unknown` | `DiagnoseUnknown`, within the step that halts |

A step chooses a *reading*, one header for each plugin the bytes may be offered
to. So the bytes are decided as the walk comes to them, and the length fields in
them are independent of the length on offer. Three variables, `full`, `guessed`
and `lied`, remember for the properties what depth `Full` makes of the same bytes,
what the pool was last offered, and which plugins claimed more than was there.

### DnsNames

`msg`, `pos`, `jumps`, `consumed`, the length of the name so far and the result.
`RunsPast`, `Terminator`, `Pointer` and `Label` are the branches of the loop, with
a forward pointer, a label past the end, a reserved length byte and either cap as
ways to decline.

### StreamStore

A packet is a sequence of layers. A layer carries a protocol, its two endpoint
values (or `Absent`, where `flow_key` fails) and whether its lifecycle plugin
calls the stream closed after it. Which protocols have an identity, a
lifecycle and a condense spec is a parameter, as it is a plugin's business.

| Code | Model |
|---|---|
| `slots[i].generation`, `slots[i].stream` | `generation`, a sequence; `streams`, a function on the occupied slots |
| `StreamId { index, generation }` | a record; `NoId` has index 0, slots count from 1 |
| `index: HashMap<(parent, protocol, hash), SmallVec<id>>` | the set of its (bucket, id) pairs; `KeyHash` is a parameter and may collide |
| `BinaryHeap<Reverse<..>>` | a bag; the top is the least element in the tuples' order |
| one call of `ingest` / `finish` | a run of `pc` from `idle` through `sweep`, `layers`, `enforce` back to `idle`, or through `finish` to `done` |
| loop iteration of `sweep`, and `compact_lru` after it | `SweepDrop`, `SweepRepush`, `SweepEvict`; `SweepDone` |
| one layer of `ingest` | `SkipLayer`, `KeyErrorLayer`, `HitLayer`, `CreateLayer`, `FoldLayer`, `FoldNewNode` |
| loop iteration of `enforce_max_streams` | `LayersDone`, `EnforceDrop`, `EnforceRepush`, `EnforceEvict`, `EnforceDone` |
| loop of `finish` | `Finish`, `FinishEvict` (live), `FinishRetain` (offline), `FinishDone` |

The steps of a call are separate only so that TLC and the proofs can look at the
states between them; no other actor acts in between. A condensed node's `met`, all
that were ever folded into it, is a history that no guard reads: `MembersExact`
compares the node and its group's bounded member set with it.

### Events, Lifecycles, Rollups

| Code | Model |
|---|---|
| a packet of `run_live`, the time since the last one | `Receive(w)`: what it says, its timestamp, and whether it reaches a session |
| `sweep`, `enforce_max_streams` | `SweepOrCap(id)`: any leaf may go, with a `closed` line from the sink |
| `ingest` of a layer | `FoldRoot`, `FoldSession`: hit or create, advance the lifecycle, `apply` the rollups |
| `NdjsonTracker::poll` | `Poll`: the throttle of 100 ms, display numbers, `new` lines, `update` lines after a second |
| `finish`, and the sink while it runs | `End`, `Finish(id)`, `Summary` |

`lines` are the lines of one step and `told` what had been printed of each stream
before: the properties compare the two. `under` in a line is the stream's true
parent, which the code does not print but looks up. The clock counts tenths of a second
(`Second` is 10).

### Pipeline

One action per step of a thread, a step being one access to shared memory. A
packet is its position in `Input`, which holds the capture timestamps.

| Code | Model |
|---|---|
| `StopFlags::trigger` | `TriggerMaster(c)`, then `TriggerFlags(c)` under the lock of `extra`; callers are the Ctrl-C handler and the thread that ran the UI |
| `StopFlags::register` after `LiveSource::open` | `Register`, between `Open` and the start of the pump |
| `pump` over `next_packet` | `PumpRead`, `PumpSend` (blocks on a full channel), `PumpEnd`, `PumpError`, `PumpDrop` (the sender goes) |
| `run_observed` | `Open`, `Register`, `Recv`, `Observe` (the publish throttle), `SetProgress` (two stores), `RecvEnd`, `Join` |
| `SnapshotHub::publish` | `Publish`, then `Bump` |
| `SnapshotHub::set_error`, `mark_finished` | `SetError`, then `MarkFinished` |
| a turn of `event_loop` | `UiRefresh`, `UiLatest`, `UiFinished`, `UiError`, `UiKey` |
| `dispatch` after the UI | `TriggerMaster("ui")`, `TriggerFlags("ui")`, `UiJoin` |

### WebServe

Each pipeline starts, publishes in two steps and finishes or fails. An upload is
spilled to a file, activated (under the lock of `active_stop`: stop the old,
install the new flags), swapped in, recorded as `last_upload`, and removes the
file recorded before it on the blocking pool. A spawner that fails (`SpawnFails`)
leaves everything but the upload's own file, which goes on the blocking pool too
(`RemoveOwn`).

A page starts with a refetch on its way and gets ticks. A tick whose generation
differs from the page's is taken for seen and starts another refetch (`Tick`), beside
those in flight. The handler reads the hub, its generation, the memo, then the
snapshot, and stores the memo. The answer becomes what the page shows when it
arrives, overtaken or not (`Show`), and a fetch that fails on its way there or back is
not tried again (`FetchFails`). `memo.hub` records where an index came from, and
`slipped` that since its last tick a page lost an answer or was put back by a late
one. The code stores neither: no guard reads them, only properties do.

### Query, Tree, SnapshotView, UnknownRegistry, Browser, Lenses

The text of a filter is a sequence of atoms: names, numbers, spaces, and each symbol,
quote, slash and parenthesis by itself. `Lex` makes tokens of them as `lex` does,
operators inside a word and quotes and regexes that nothing closes included;
`ParseOr`, `ParseAnd`, `ParseUnary` and `ParsePrimary` are the methods of the parser,
`Matches` is `eval` over a snapshot, with `SearchableText` as the row's `protocol #id
endpoints state`, and `KeepUp` adds ancestors. `Flatten` is the
terminal's tree, `Window` a page, `Timeline` the bins and lanes. `Ingest` is the
registry's, with its cap, ring and near misses.

`Lenses` writes down `docs/query-language.md` a second time and not as a parser. A text
is cut into `Pieces` by where a piece may begin and end; `MeansOr`, `MeansAnd`,
`MeansUnary` and `MeansTerm` say, by trying every place to split, whether a run of
pieces is a query and which streams it selects; `MeansComparison` evaluates a
comparison from the snapshot. No lexer, token, tree or evaluation of `Query` occurs
in it. Which operators may stand inside a word is its parameter: those of the code
in `QueryMeaning`, those of the document in `QueryAsDocumented`.

| Code | Model |
|---|---|
| the pipeline thread publishing, unknown traffic it meets | `Publish`, `Hear(o)` |
| a turn of `event_loop` up to the wait | `Draw`: refresh unless paused, re-anchor the selection, clamp, `tick` |
| `on_key`, by mode and tab | `Press(k)`: `CtrlC`, `DismissHelp`, `PopupKey`, the filter box, `GlobalKey`, `StreamsKey`, `TimelineKey`, `UnknownKey` |
| no key within 100 ms | `NoKey` |

## 3 Runs

`tlc -config <cfg> <module>`. Deadlock is checked for all but `Pipeline` and
`WebServe`, whose process ends. The others always have a step: `Closed`, `Done`,
`Returned` and `Quitted` stand for a call that nobody makes again.

| Run (cfg) | Shows | Distinct states |
|---|---|---|
| `dissect` (`MCDissect`) | The default plugins, a third-party plugin that keeps no contract, and seven builders. `LayersTile` and `WalkProgress` whatever lengths are claimed; `NoPhantom`, `BestGuess` for the gate and the scores; `NoShadowing` for the builder; of the plugins that ship: `DefaultsHonest` (none claims more than it was given, no name they hint at is missing), `KeysPresent`, `FramingDepthBlind` | 266,198 |
| `names` (`MCDnsNames`) | Every message of up to five bytes: `ConsumedInside`; `Returns` (liveness: the loop ends whatever pointers say) | 261,375 |
| `store_live` (`MCStoreLive`) | The live policy with linger, idle timeout, cap, recycling and compaction: `Forest`; `CapHolds`, `LruPick` for the LRU heap; `SweepComplete` for the expiry heap; `BytesConserved`; `CallsReturn` (liveness: no call loops for ever) | 197,881 |
| `store_condense` (`MCStoreCondense`) | Condensation under eviction: `MembersExact` against all that were folded in; `IndexExact` with colliding digests, `CountersExact` over all five paths, `CreatedExact` over every stream there ever was, `HandlesUnique`; timestamps may run backwards | 1,330,213 |
| `store_retain` (`MCStoreRetain`) | Offline policy: when `finish` has returned the sink was given every stream, each once and children first (`SinkOrdered`) | 101,010 |
| `events` (`MCEvents`) | A TCP, an SCTP and a UDP session under an address pair, evicted and recycled between polls: `EventsOrdered`; `ParentsTrue`, which says exactly which lines have `null` for a parent; `SessionStaysOver` for the lifecycles; `RollupsTrue` | 5,290,826 |
| `pipeline` (`MCPipeline`) | A file and a live run behind the TUI, with and without `-c`: `FifoNoLoss`, `ViewNotOlder`, `FrameHonest`, refinement `ImplementsFeed`; `StopEnds` (a stop ends the run and a quit the process), on an interface that may stay quiet too; `ViewCatchesUp` | 372,460 |
| `web` (`MCWebServe`) | Two uploads that overtake each other, a page that refetches while a pipeline publishes, a page across an upload, and a shutdown: `OthersStopped`, `TempFilesBounded`, `IndexNotOlder`, `PageCatchesUp` | 695,622 |
| `view` (`MCBrowser`) | Keys, filters and unknown traffic over two snapshots: `QueryMeaning` (lexer, parser and evaluation against the documented grammar), `LensesExact` (tree, pages and timeline against their definition), `RegistryTrue`, `SelectionStable` | 488,807 |
| `pipeline_lost_stop` (`MCPipelineLostStop`) | `QuitExits` is violated: see section 4 | |
| `web_active` (`MCWebActive`) | `ActiveFeedsPage` is violated: see section 4 | |
| `query_hugging` (`MCQueryHugging`) | `QueryAsDocumented` is violated: see section 4 | |

### Bounds, and why they are enough

* *Dissect.* Walks of at most three layers: every rule about a step relates a
  layer to the one before it, and the third shows that a step behind a step is no
  different. Every plugin gets headers whose length fields reach exactly to the
  end, one short of it and one past it, and whose other fields take the values its
  parse tells apart. The options cover each tier of entry, the four depths with and
  without aggregation, caps of zero, two and three, and captures between
  empty and a few hundred bytes.
  `fake` claims any length, none at all, and any hint.
* *Names.* Five bytes over the seven values that matter (end, labels of one to
  four, a reserved length, a pointer): enough for a pointer behind labels, for a
  chain of pointers and for a walk that would go round. Both caps are small
  (three jumps, six characters) so that each ends some walk.
* *Store.* Four or five packets over a clock of two to four ticks, with timeouts
  of one to three ticks and a cap of three: enough for a stream to be created,
  touched, closed, evicted for each of the three reasons, its slot recycled, its
  parent re-armed and evicted in turn, and for the LRU heap to outgrow its
  compaction threshold (`LruSlack` is 2 instead of 1024). `KeyHash` maps every
  key to one digest, so that each lookup must compare keys. `GenerationCount` is
  above the number of recyclings an instance can make: wrapping needs 2^32
  evictions of one slot. In `store_live` `MaxRegress = 0`
  keeps timestamps in order, which `LruPick` and `SweepComplete` need (section 4);
  `store_condense` lets them run one tick backwards. In `store_condense` a
  threshold of one and a member cap of two let a group trigger, fold, overflow,
  lose its node and trigger again within five packets; `store_retain` takes a
  threshold of two.
* *Events.* Four packets, two slots, waits of none and of half a second (an
  update line is due after two), timestamps that repeat and run backwards. Four
  packets open a session, take it through its closing, let it be evicted and its
  slot taken by the next; the caps of two values and two points are each passed.
  An offset is exact within `MaxOffset` (292 years) and no capture is longer. The
  two slots are interchangeable until used: a symmetry set.
* *Pipeline.* Four packets through a channel of two fill the channel with a
  packet in hand and one folded; a limit of two lets the limit and a stop race with
  packets left. The publish throttle is a free choice per packet, after a first
  publication.
* *Web.* Two uploads are the fewest that overtake each other, and two refetches in
  flight (`MaxInFlight`) the fewest that race on the memo and are answered out of
  order. A tick with news waits while both are on their way: TLC's page may have two
  at a time, not any number. `load` keeps apart what hardly meets: two uploads with a
  pipeline of one publication each; a page and three publications, so that a memo is
  stored, hit, missed and stored again out of order; and a page across an upload.
* *View.* Two snapshots of up to five streams, the second with one evicted, its
  slot used again and a stream below it. `MaxEffort` weighs a key four, an
  unknown packet three and a typed chunk two against a budget of twelve, since
  queries, keys and the registry hardly meet: up to three keys, or four unknown
  packets, or the key that opens the filter and four chunks, and mixtures. The twelve
  chunks are a name, `or`, `not`, `(live or`, `)`, the halves of `bytes>2k` and of
  `under==udp`, a `=`, a `!`, a `/` and a `'`. Four of them make `not (live or udp)`,
  whose parentheses change what it means, a comparison beside another term,
  `! udp` and `!udp`, and quotes and regexes closed, empty and unclosed. `and`, `is`,
  `contains`, `has`, `where`, escaped slashes, the other fields and
  suffixes are in the model of the code and of the document and are not typed. `Kilo`
  is 3, so that `2k` lies among the byte counts of the snapshots. Four rows, two groups,
  two samples, one endpoint and pages of one row are below what the instance holds,
  so every cap is met.

### Fairness

* *Names*: `WF` of the loop. Nothing else runs in it.
* *Store*: `WF(Step)`. One thread runs a call; nothing can preempt it for good.
  No packet and no `finish` has to come.
* *Pipeline*: each thread that can take a step takes it: the pump at a send, an
  end or a drop, and at a read if the source is a file; the pipeline thread; the
  UI's loop, which polls with a timeout and so turns without a key; and a
  `trigger` once called. An interface owes nobody a packet, the user neither a
  Ctrl-C nor a key, so those have none: `StopEnds` holds on an interface that
  stays quiet because `PumpEnd` is enabled by the flag alone (the live source
  polls it between read timeouts).
* *Web*: every pipeline (they read files here), every accepted upload's handler,
  every request's handler and its answer, and every open page's ticker. None for
  posting an upload, for the shutdown or for a fetch to fail.
* *Dissect*, *Events*, *View*: none, and no liveness. That a walk ends is the
  action property `WalkProgress` with the cap in `LayersTile`.

## 4 Where the code and its documentation differ

Three runs state what a comment or a document says, and TLC finds a behaviour of the
code in which it is not so:

* `pipeline_lost_stop`: "a single trigger unblocks quiet interfaces too"
  (`run.rs:25`), but a stop before `register` is lost for a live source. `register`
  does not look at the master flag, and the final join waits for ever.
* `web_active`: "`active_stop` always points at the flags of whichever pipeline
  currently feeds the page" (pktflow-cli `lib.rs:169`). The flags are installed under
  the lock of `active_stop` and the hub is swapped later, outside of it: of two uploads
  the first may install its flags, then the second install its own and swap, then the
  first swap. The page is fed by a pipeline that was told to stop, and the one that
  reads on feeds nobody. `OthersStopped` holds all the same: it is about the flags.
* `query_hugging`: `=` is an operator and "operators may hug their operands"
  (`docs/query-language.md:44` and `:48`), but `WORD_OPS` (`query.rs:221`) has no single
  `=`, so `proto=udp` is one word of free text and matches nothing. `!closed` is a word
  too, and the slashes of a regex that hugs its operator (`qname=~/google/`) become
  part of the pattern. `QueryMeaning` takes the operators that hug from the code.

The following were found while modelling; they have no run of their own.

Stream store and registry:

* `member_flows` is "distinct member flows folded in" (`store.rs:120`). A
  conversation between two triggered anchors folds into both nodes, one per
  direction, and counts twice.
* A group's `expanded` is said to be the "live expanded flows this anchor is a
  side of" (`store.rs:287`). Evicting the condensed node drops the whole group,
  so a later tally misses flows that are still live, and their eviction is taken
  off it: an anchor then condenses later than the comment says.
* The cap evicts "the least-recently-updated leaf" (`store.rs:943`) only while
  timestamps are in order. `ingest` overwrites `last_seen` with an older
  timestamp, the stream then sorts before its own heap entry, and another leaf
  may go first. The cap itself holds in any case (`CapCorrect`).
* `tcp.rs:45` says "the other side's FIN(+ACK) completes the teardown"; `advance`
  ignores the direction, so a retransmitted FIN+ACK of the same side completes it
  too. `sctp.rs` is alike.

Dissection:

* Framing is said not to depend on the depth
  (`specs/09-validation/01-plugin-test-kit.md:30`); below `Structural`, `ndp.rs:77`
  and `mld.rs:70` find no message type and take the whole message as their header.
  The probe of `llc.rs:150` reads Ethernet's destination, which is extracted from
  depth `Keys` on (`ethernet.rs:46`), so a guess behind an unknown hint may differ
  below it. `FramingDepthBlind` therefore excepts the first two below `Structural`
  and such a guess below `Keys`; the second came out when the proof did not close.
* Key fields are there whenever the depth is `Keys` or more (`depth.rs:12`,
  `plugin.rs`, rule 4); an 802.11 control frame with one address, a QUIC short
  header and an L2TPv3 control message have none. `KeysPresent` excepts the three.
* `unknown` is `Some` iff diagnosis was asked for and the stop is an unknown one
  (`packet.rs:72`); a stop at the first layer gives `None` (`parser.rs:181`).
* "Each plugin tried at most once on these bytes" (`router.rs:112`): the claimed
  list is not deduplicated, so a plugin that claims two of the candidate routes is
  tried twice, with the same outcome.

Readers:

* "A close event can still resolve its parent's display id" (`views.rs:757`): not if
  the parent was created and the child evicted between two polls; the line then
  says `null`. `ParentsTrue` says that this happens on a `stream_closed` only and
  exactly then. `seq_by_id` never shrinks, and a `stream_closed` may come without a
  `stream_new`.
* A stream record keys its rollups by field name (`json.rs`), so of TCP's two
  rollups of its flags only the series is printed.
* A stream whose `last_seen` is before its `first_seen` is in no bin of the
  timeline unless both are in one (`index.rs:340`).
* First-seen order is by creation in the terminal (`tree.rs:53`) and by
  `first_seen` in the index: they differ when timestamps run backwards.
* The popup of an unknown group belongs to a row number: a new group sorted above
  it changes what the open popup shows. While a filter that does not parse is
  typed, Left does not fold, since it looks at the text and not at the query.

Web server and page:

* "Every handler reads the current hub per request" (pktflow-web `lib.rs:12`);
  after a swap the memo of the old hub answers while the generations are equal.
* "Every open page follows the swap on its next tick"
  (`docs/tui-and-web.md:73`): not a page whose generation equals the new hub's.
* "Full refetch only on generation change" (`index.html:2241`): the page takes the
  generation for seen before it has the data. If that fetch fails (`:721`), or its
  answer arrives before that of an earlier one (`:710`), the page shows an older
  snapshot until the next generation, for ever if that was the last.
  `PageCatchesUp` excepts exactly these two (`slipped`).
* `last_upload` is said to be "the previous upload's temp file" (pktflow-web
  `lib.rs:59`). With two concurrent uploads it may be the newer one's, which is
  then deleted, possibly before its pipeline opens it.

## 5 Proofs

`tlapm <module>` checks them. All hold for every value of the constants that
satisfies the assumptions named in the modules: any plugins, builders, options and
packets for dissection, and for the plugins that ship any headers of the types in
`Headers`; any message and caps for names; any protocols, lifecycles,
packet set, policy, threshold and cap (zero included), any hash and any timing for
the store; any number of slots and any capture for the events; any input, capacity
above zero, limit, kind of source, with or without failures, for the pipeline; any
number of uploads and pages for the server; any parser and filter, snapshots, keys
and unknown occurrences, and any caps for the browser. `MaxPackets`, `MaxTime` and
`MaxRegress` are arbitrary naturals, so the store's theorems cover timestamps that
run backwards unless they say otherwise.

| Theorem | Statement |
|---|---|
| `StreamStoreProofs!TypeCorrect` | `Spec => []TypeOK` |
| `StreamStoreProofs!ForestCorrect` | `Spec => []Forest` |
| `StreamStoreProofs!SlotsCorrect` | `Spec => []FreeSlotsExact` |
| `StreamStoreProofs!CandidatesCorrect` | `Spec => []LeavesAreCandidates` |
| `StreamStoreProofs!CapCorrect` | `Spec => []CapHolds` |
| `StreamStoreTheorems!MembersCorrect` | `Spec => []MembersExact` |
| `StreamStoreTheorems!IndexCorrect` | `Spec => []IndexExact` |
| `StreamStoreTheorems!CountersCorrect` | `Spec => []CountersExact` |
| `StreamStoreTheorems!BytesCorrect` | `Spec => []BytesConserved`, if every packet has a layer that forms a stream |
| `StreamStoreTheorems!SinkOrderCorrect` | `Spec => [](NoWrap => SinkOrdered)`; that no stream is missing in the end is part of it |
| `StreamStoreTheorems!HandlesCorrect` | `Spec => [](NoWrap => HandlesUnique)` |
| `StreamStoreTheorems!SweepCorrect` | `Spec => []SweepComplete` (which speaks of timestamps in order) |
| `StreamStoreTheorems!LruPickCorrect` | `Spec => LruPick`, if timestamps come in order |
| `PipelineProofs!TypeCorrect` | `Spec => [](TypeOK /\ HandHeld)`; the channel's bound is part of it |
| `PipelineProofs!FifoCorrect` | `Spec => []FifoNoLoss` |
| `PipelineProofs!ViewCorrect` | `Spec => []ViewNotOlder` |
| `PipelineProofs!FrameCorrect` | `Spec => []FrameHonest` |
| `PipelineProofs!FeedCorrect` | `Spec => ImplementsFeed`: the refinement of `CaptureFeed` |
| `DissectProofs!TilesCorrect` | `Spec => []LayersTile` |
| `DissectProofs!GateCorrect` | `Spec => []NoPhantom` |
| `DissectProofs!GuessCorrect` | `Spec => []BestGuess` |
| `DissectProofs!RoutesCorrect` | `Spec => []NoShadowing` |
| `DissectProofs!ProgressCorrect` | `Spec => WalkProgress` |
| `DissectProofs!KeysCorrect` | `Spec => []KeysPresent`, with `ShipsDefaults`, `OthersKeyed`; three kinds of frame are excepted (section 4) |
| `DissectProofs!FramingCorrect` | `Spec => []FramingDepthBlind`, with `ShipsDefaults`, `OthersListed`, `OthersDepthBlind` |
| `DissectProofs!HonestCorrect` | `Spec => []DefaultsHonest`, with `ShipsDefaults`, `DefaultBuilder` |
| `DnsNamesProofs!ConsumedCorrect` | `Spec => []ConsumedInside` |
| `DnsNamesProofs!MovesCorrect` | `Spec => [][Moves]_vars` |
| `EventsProofs!LinesInOrder` | `Spec => []EventsOrdered` |
| `EventsProofs!NoWrongParent` | `Spec => []ParentsTrue` |
| `EventsProofs!OverIsOver` | `Spec => SessionStaysOver` |
| `EventsProofs!RollupsShowWhatWasHeard` | `Spec => []RollupsTrue` |
| `WebServeProofs!SupersededStop` | `Spec => []OthersStopped`; it does not say which pipeline feeds the page |
| `WebServeProofs!NoStrayFiles` | `Spec => []TempFilesBounded` |
| `WebServeProofs!FreshIndex` | `Spec => []IndexNotOlder` |
| `BrowserProofs!RegistryCorrect` | `Spec => []RegistryTrue` |
| `BrowserProofs!SelectionCorrect` | `Spec => SelectionStable` |

Some theorems of the store have a hypothesis of their own. `NoWrap` says that
fewer streams were evicted than a slot has generations, 2^32: beyond it a handle
can come back. `MaxRegress = 0` says that no timestamp is behind the clock, and
section 4 says what happens without it. `EveryPacketFolds` says that each packet
has a layer with an identity and a key: the bytes of any other are in the totals
and in no stream.

The theorems about the plugins that ship say which plugins those are, as `Dissect`
takes any. `ShipsDefaults`: under their names stand the catalogue's declarations,
parsers and probes, and what is read for them is a header of their type
(`HeadersTyped` has TLC check the latter of the instance at three lengths). `DefaultBuilder`: the
builder called `default` is the one of `default_engine`. Third-party plugins may be
registered beside them and must keep what the property is about: extract their
keys when asked (`OthersKeyed`, rule 4 of `plugin.rs`), or give their candidates as
a list and frame alike at every depth (`OthersListed`, `OthersDepthBlind`). Nothing is
asked of their lengths. The instance's `fake` satisfies all three.

The assumptions on constants say what the code's types say, with three that
deserve a word. `TimesAssumption`: no capture spans more than the 292 years that
an offset in nanoseconds reaches. `NoUploadAssumption`: the `None` of
`last_upload` is no file. `SaysAssumption`: the sessions are of the three
protocols whose lifecycle is in the model.

**The arena.** The inductive invariant `StoreInv` joins the types, `Forest`,
`FreeSlotsExact`, `SeqBelow`, `LiveCounted` (the live count is the number of
occupied slots), `CursorLive`, `LeavesAreCandidates` and `FinishInv`, with
`CapHolds`. None is inductive by itself. Creating a
stream links it below the ingest cursor, so the cursor must be live
(`CursorLive`) although `sweep` ran in between; a new stream is younger than its
parent only if creation numbers stay below `next_seq`; a slot is free to reuse
only if the free list is exact. `CapHolds` needs that `enforce_max_streams`,
whose loop also ends when the heap is empty, is not over the cap then: a forest
with a live stream has a leaf (the youngest stream is one, since children are
younger), every leaf has an entry, so an empty heap means an empty store.
`finish` takes streams deepest first, so `FinishInv` keeps that a child is deeper
than its parent. Depth is a recursive function over the parents; its defining
equation is shown to hold at every stream by the least counterexample among the
creation numbers, as parents are older.

**Groups and index.** `IndexExact` is inductive only beside `GroupsInv`. A new
condensed node is filed without a lookup, so the index stays free of a second
entry for it only because every condensed stream is the node of its anchor's
group (`NodesGrouped`) and the group of a new node has none; the group's node is
a live stream that carries its anchor (`NodesLive`), and its count, flag and set are
right about all that were folded into it (`MembersCounted`). `TallyInv` says that a
group's `expanded` is at most the number of its anchor's live flows: a creation adds
one to both, and an eviction takes one off both, or off the flows alone when the
tally is at zero.

**Sink and handles.** `SinkInv` has a case for each policy. Live: everything in
the sink has a handle older than its slot (`Retired`), so neither a later stream
nor a later parent has it; a slot's generation is at most the number of
evictions, which is where `NoWrap` comes in. Offline: the sink holds copies of
live streams, none of which is left in `finishing` or a parent of what is.
`ClosingInv` counts the streams in: every creation number below `next_seq` is live or in
the sink, and during `finish` what is not in the sink yet is in `finishing`, which is
empty when `finish` returns.

**The lazy heaps.** With timestamps in order, an entry may be stale but is never
late (`LeavesCovered`): each leaf has an expiry entry due no later than its
deadline and an LRU entry no younger than the stream. A sweep that stops at an
entry in the future has therefore seen every leaf that is due, and the least LRU
entry, if it is current, is the least leaf.

**Counters and bytes.** A sum over a set of streams is the library's fold, a
recursive function of subsets. `Tally(S, n, b)` says that `S` has `n` elements
whose bytes sum to `b`; that a tally exists for every finite set, is unique and
grows by the element added is shown once, by the least counterexample in the
cardinality. With that, each of the five paths that keep a counter moves both sides by
the same amount. `ConservedInv` adds what is owed: from the moment a packet is in
the totals until its first stream has taken it, and `FoldAhead` says that such a
layer is still to come.

**The pipeline.** `TypeInv` adds to the types what the pump holds
(`HandHeld`: a packet exactly while it sends, namely the last one read). With it
`FifoNoLoss` is inductive: reading extends the captured sequence and the hand by
the same packet, sending moves the hand to the end of the channel, receiving
moves the channel's head to the end of what was folded, and nothing else touches
the four. `ScreenInv` relates hub and screen: the generation lags the snapshot by
one exactly while a publication is half done (`HubOrder`), what the UI remembers
was published (`SeenPublished`), and the hub says finished only when the pipeline
thread is done, which it reaches with a final snapshot or an error in the hub
(`EndOrder`). The refinement maps `PumpRead` to `Take`, `Publish` to `Show` or, if
nothing was folded since, to a stutter, `MarkFinished` to `Complete` or `Fail`, and
every other step to a stutter. `FeedInv` is what it needs besides: the thread
reaches its last publication with an empty channel and a pump that is done
(`DrainOrder`), so that `FifoNoLoss` makes what was folded all that was captured
(`ShownOrder`), and no packet is taken once the hub says finished.

**The walk.** A plugin is an arbitrary operator, so nothing is known of
what `Parse` returns but what the router checks: an outcome that is found has
passed `HeaderLenOk`, so its header length is a natural number within what is
left. This is proved once for each way a step resolves (explicit route, name,
ranked list, pool, entry), and with it `LayersTile` is inductive. For `NoPhantom` the
same lemmas carry the heuristic flag: it is set only by the pool, and the pool is
reached only from an unknown hint or the last entry tier. The hint it was reached
from is that of the layer before, which no later step changes. `WalkProgress`
is a property of a step and needs no invariant beyond the shape of an outcome.

`BestGuess` compares the loop of `heuristic_fallback`, which picks the best
candidate left and drops it when its parse fails, with a definition that does not
loop: the best of those that parse. That definition satisfies the loop's
recursion (`PickedRounds`), and no set of candidates is a smallest one on which
the loop ends elsewhere (`FallbackPicks`). `NoShadowing` needs only that a ready engine passed
`build`'s checks (`Accepted`): two claims of one id that no override settles are a
collision, and the table holds the last override of an id.

**The plugins that ship.** For each of the 82 plugins and every header of its
type, three things are read off its parser: the length it returns is within the
bytes on offer (for a list of records because each step of `Walk` stays `Within`
them), its keys are among its fields from depth `Keys` on, and in two contexts that
agree on the layers so far it frames the bytes alike. `KeptInv` carries the first two
along a walk: no plugin that ships has lied, every layer emitted has its keys. `BlindInv`
says that the walk at its own depth and the one at `Full` are in step: the same
layers, lengths and hints, and equal values in the two fields that a later layer
reads back (`Echoes`), unless one of the exceptions has happened, after which it stays
so. Steps in step then resolve to the same plugin, by each of the router's ways and
by the pool's loop. That the default list builds is a table of who holds
each claim (`Holder`): two plugins with one claim would be the same entry; and the
82 names are distinct. That no name hinted at is missing needs the layers of a default walk
to be of plugins that ship (`HonestInv`), since only those hint by name at `Named` ones.

**The name.** `consumed` is fixed once, at the first pointer or at the
terminator, from a position that bounds checks have kept inside the message; the
invariant says that until then the position has only moved forward from the start.
`Moves` is the measure behind termination: a turn goes backward and uses up a
jump, or forward and lengthens the name. Since pointers go strictly backward, any
walk that goes round passes a pointer and a label again and again, so either cap
alone would end it.

**Events.** `EventsInv` ties the tracker to what was printed (`ToldInv`): a stream it
has an entry for is open since exactly that long, one it has none for was not
seen yet or is closed. `NumbersInv` says that `seq_by_id`, which never forgets, is
right about the streams that live, and that all else in it is about an earlier
generation of its slot, so a recycled slot never finds its predecessor's number.
`LingerInv` says that a linger runs only in a closed state; that no message leads
out of those states is read off the lifecycles' tables. For the rollups,
`SessionTrue` states of each accumulator what the session has heard so far
(distinct values in the order of first hearing, a sample, a series of bounded
length with its offsets) and is kept by every `apply`; the counts of distinct
values go through cardinalities of finite sets of first hearings.

**The server.** `StopInv` speaks of every pipeline that was ever *active*, not only
of those running: an upload activates before its pipeline starts. `FileInv` is the
ledger of temporary files: on their way, recorded, or condemned by exactly one
upload. `IndexInv` adds that a hub's snapshot is out before its generation, and
that an entry of the memo is no older than the generation it is filed under,
whatever hub it came from.

**The registry and the selection.** `RegistryInv` says that every group stands for
the last `count` occurrences of its shape (`GroupKept`): its sum, extremes and near
misses are theirs, its samples the last of them, its endpoints distinct ones of
theirs, and it says overflow exactly when there was another and the
cap was reached. A group that comes back
after an eviction stands for fewer, and `enforce_max_groups` can always choose one to
evict because no two groups have the same insertion number. Whatever the parser and
the filter make of the text, `Draw` computes the rows and then looks for the
selected stream among them, so `SelectionStable` follows from the step alone.

**Only model-checked.** Liveness and everything under fairness (`CallsReturn`,
`StopEnds`, `ViewCatchesUp`, `PageCatchesUp`, `Returns`), which the
prover does not reach. `QueryMeaning` and `LensesExact`: the parser, the grammar and
the tree are recursive operators, and what they compute for every input is an
induction over data. `CreatedExact`, whose sums run over live streams and sink
together. Every other property of a run that passes is stated by a theorem.

## 6 What is left out

* Fields no hint, key, length or later layer depends on, in every plugin; the
  bytes themselves; checks of text beyond "reads as the protocol's".
* In `StreamStore`, data no guard reads: rollups and lifecycle states (they are in
  `Events`), display fields, packet counts beside byte counts, stop classes, the
  initiator. `children` and `roots` are sets, since the code appends on creation
  and otherwise only removes: their order is that of the creation numbers.
* The byte encoding and the hash of flow keys: endpoint values are numbers, and
  the digest is an arbitrary function.
* In `Events`, which leaf a sweep or the cap takes: any may go. `StreamStore` has
  the choice.
* Characters inside a name and the regex engine: a name contains nothing but
  itself, and which patterns compile and what they match are parameters.
* Scroll offsets and drawing.
* The second Ctrl-C, which exits the process with 130 at once.
* Progress in bytes: it counts packets, and the file's size is its number of
  packets.
* Kernel drop statistics, link types and capture lengths of sources.
* `run_packets` without a hub: the same loop with a text sink.
* The graceful shutdown of the HTTP server with an open event stream, which
  depends on the HTTP library and the browser: `Shutdown` waits for requests in
  progress only.
* The windowed mode of the page, and the page that uploads, which starts over by
  itself. The source name that a snapshot's answer carries (pktflow-web `lib.rs:180`), which only
  resets what the page has selected.
* Which unknown group `enforce_max_groups` evicts: `RegistryTrue` says that what is
  kept is true and that nothing is missing but from a full registry, not that the
  coldest went.
* Formatting, the rest of the JSON, command line, test kit.

## 7 Plan

Done: dissection with the engine, the router, every default plugin and the
diagnostics, its safety proved for any plugins and for those that ship; name
decompression, proved; the
store with condensation, every safety property of its runs proved; lifecycles,
rollups and NDJSON events, proved; the threads of a run with stop flags, hub and
TUI loop, its safety and its refinement of `CaptureFeed` proved; the web server's
shared state, its safety proved; the registry and the terminal application, proved;
queries and views, model-checked.

Worth doing next, in order:

1. The windowed mode of the page.
2. A composition of `Dissect` and `StreamStore`: that the keys a walk extracts are
   the ones the store looks for, instead of both stating it of their own side.
