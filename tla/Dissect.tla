------------------------------ MODULE Dissect ------------------------------
(***************************************************************************)
(* Dissection of one packet (pktflow-core: parser.rs): the engine is built *)
(* from a builder's calls, layers() starts a lazy walk over the captured   *)
(* bytes, each next() resolves one step, and into_packet drains the walk.  *)
(*                                                                         *)
(* The bytes are chosen as the walk comes to them: a step picks a reading  *)
(* of what is left, one header for each plugin it may be offered to.       *)
(***************************************************************************)
EXTENDS Engine

CONSTANTS Builders,        \* builders by name (see Engine)
          Opts,            \* ParseOpts with the packet's link type and length
          Readings(_, _)   \* readings of n bytes for a set of plugins

\* A builder holds lists of plugins, overrides and unroutes.
ASSUME BuildersAssumption ==
  \A b \in DOMAIN Builders :
    /\ Builders[b].plugins \in Seq(STRING)
    /\ Builders[b].overrides \in Seq(ToSet(Builders[b].overrides))
    /\ \A o \in ToSet(Builders[b].overrides) : o = <<o[1], o[2]>>

ASSUME OptsAssumption ==
  \A o \in Opts : /\ o.caplen \in Nat /\ o.maxLayers \in Nat
                   /\ o.depth \in DepthNone..DepthFull /\ o.aggregation \in BOOLEAN

VARIABLES
  phase,    \* "build", "ready", "walk"; "rejected" and "panic" end the program
  using,    \* the name of the builder
  opts,     \* the parse options, link and caplen of the packet
  layers,   \* the layers emitted, with the hint and the heuristic flag of each
  cursor,   \* the offset of the remaining payload
  stop,     \* why the walk ended
  unknown   \* the diagnostics of an unknown stop

\* What the properties remember of a walk. None of it decides a step.
VARIABLES
  full,     \* the layers that the same bytes give at depth Full
  guessed,  \* the reading that the fallback pool was last offered
  lied      \* the plugins whose last parse claimed more than was there

walkVars == <<layers, cursor, stop, unknown, full, guessed, lied>>
vars == <<phase, using, opts, walkVars>>

NoStop == <<"none">>
NoOpts == [depth |-> DepthNone, aggregation |-> FALSE, maxLayers |-> 0, entry |-> "",
           heuristics |-> FALSE, diagnose |-> FALSE, link |-> 0, caplen |-> 0]
NoReading == [p \in {} |-> 0]

Engines == [b \in DOMAIN Builders |-> Build(Builders[b])]

Left == opts.caplen - cursor
Started == layers # <<>>
Pending == layers[Len(layers)].hint

\* Mutant of EffectiveDepth: aggregation does not raise the depth.
EffectiveDepthAsAsked(o) == o.depth

\* Aggregation needs the flow keys, so it raises the depth to their floor.
EffectiveDepth(o) ==
  IF o.aggregation /\ o.depth < DepthKeys THEN DepthKeys ELSE o.depth

ContextAt(ls, depth) == [layers |-> ls, depth |-> depth]
Context == ContextAt(layers, EffectiveDepth(opts))

----------------------------------------------------------------------------
(* The builder and the start of a walk                                     *)

EmptyWalk ==
  /\ layers = <<>> /\ cursor = 0 /\ stop = NoStop /\ unknown = NoReport
  /\ full = <<>> /\ guessed = NoReading /\ lied = {}

Init ==
  /\ phase = "build" /\ using \in DOMAIN Builders /\ opts = NoOpts
  /\ EmptyWalk

BuildEngine ==
  /\ phase = "build"
  /\ phase' = IF BuildError(Builders[using]) = "" THEN "ready" ELSE "rejected"
  /\ UNCHANGED <<using, opts, walkVars>>

\* A forced entry that names no plugin is a bug of the caller's: it panics.
Layers(o) ==
  /\ phase = "ready"
  /\ opts' = o
  /\ phase' = IF o.entry \in {""} \cup Engines[using].names THEN "walk" ELSE "panic"
  /\ UNCHANGED <<using, walkVars>>

----------------------------------------------------------------------------
(* next()                                                                  *)

\* The cap on layers comes before anything is parsed.
AtCap ==
  /\ phase = "walk" /\ stop = NoStop /\ Len(layers) >= opts.maxLayers
  /\ stop' = IF Left = 0 THEN <<"complete">> ELSE <<"depth_cap">>
  /\ guessed' = NoReading
  /\ UNCHANGED <<phase, using, opts, layers, cursor, unknown, full, lied>>

RecordOf(outcome, at) ==
  [protocol |-> outcome.protocol, offset |-> at, headerLen |-> outcome.parsed.headerLen,
   fields |-> outcome.parsed.fields, hint |-> outcome.parsed.hint, heuristic |-> outcome.heuristic]

Framing(ls) == [i \in DOMAIN ls |-> <<ls[i].protocol, ls[i].headerLen, ls[i].hint>>]

\* The walk at depth Full takes the same step as long as it has come the same way.
FollowAtFull(shadow) ==
  full' = IF Framing(full) = Framing(layers) /\ shadow.found
          THEN Append(full, RecordOf(shadow, cursor)) ELSE full

Liars(answers) == {p \in DOMAIN answers : answers[p].ok /\ ~HeaderLenOk(answers[p], Left)}

\* A layer is emitted, or the walk stops.
Emit(outcome) ==
  /\ outcome.found
  /\ layers' = Append(layers, RecordOf(outcome, cursor))
  /\ cursor' = cursor + outcome.parsed.headerLen
  /\ UNCHANGED <<stop, unknown>>

\* Mutant of Halt: a truncated layer ends the step and not the walk.
HaltOpen(outcome, report) ==
  /\ ~outcome.found
  /\ stop' = IF outcome.stop[1] = "truncated" THEN NoStop ELSE outcome.stop
  /\ unknown' = report
  /\ UNCHANGED <<layers, cursor>>

Halt(outcome, report) ==
  /\ ~outcome.found
  /\ stop' = outcome.stop
  /\ unknown' = report
  /\ UNCHANGED <<layers, cursor>>

Step(outcome, report, shadow, reading, answers, pooled) ==
  /\ Emit(outcome) \/ Halt(outcome, report)
  /\ FollowAtFull(shadow)
  /\ guessed' = IF pooled THEN reading ELSE NoReading
  /\ lied' = Liars(answers)
  /\ UNCHANGED <<phase, using, opts>>

\* The plugins that the first step may be offered to.
EntryTargets(e) ==
  IF opts.entry # "" THEN {opts.entry}
  ELSE IF LinkType(opts.link) \in DOMAIN e.routes THEN {e.routes[LinkType(opts.link)]}
  ELSE IF opts.heuristics THEN PoolNames(e) ELSE {}

EntryPooled(e) ==
  opts.entry = "" /\ LinkType(opts.link) \notin DOMAIN e.routes /\ opts.heuristics /\ Left > 0

\* answers are those at the walk's own depth, atFull those at depth Full.
EnterPacket(e, reading, answers, atFull) ==
  Step(ResolveEntry(e, opts, ScoreFallbackPool(e, reading, Context), answers, Left), NoReport,
       ResolveEntry(e, opts, ScoreFallbackPool(e, reading, ContextAt(full, DepthFull)), atFull, Left),
       reading, answers, EntryPooled(e))

\* A stop after the first layer is diagnosed if the caller asked for it.
Report(e, outcome, scores) ==
  IF opts.diagnose /\ ~outcome.found THEN DiagnoseUnknown(e, outcome.stop, scores, Left, Context)
  ELSE NoReport

ResolveStep(e, outcome, reading, answers, atFull) ==
  Step(outcome, Report(e, outcome, ScoreFallbackPool(e, reading, Context)),
       ResolveNext(e, Pending, ScoreFallbackPool(e, reading, ContextAt(full, DepthFull)), atFull, Left),
       reading, answers, Pending.kind = "unknown" /\ Left > 0)

NextLayer(e, reading, answers, atFull) ==
  ResolveStep(e, ResolveNext(e, Pending, ScoreFallbackPool(e, reading, Context), answers, Left),
              reading, answers, atFull)

\* What the bytes left may be: they have a header for each plugin they may be
\* offered to.
Offered(ps) == {reading \in Readings(ps, Left) : Left > 0 => ps \subseteq DOMAIN reading}

Walking == phase = "walk" /\ stop = NoStop /\ Len(layers) < opts.maxLayers

EnterStep(e) ==
  /\ Walking /\ ~Started
  /\ \E reading \in Offered(EntryTargets(e)) :
       EnterPacket(e, reading, Answers(reading, Context), Answers(reading, ContextAt(full, DepthFull)))

\* Diagnostics offer the bytes to the fallback pool besides.
NextStep(e) ==
  /\ Walking /\ Started
  /\ \E reading \in Offered(Targets(e, Pending)
                              \cup (IF opts.diagnose THEN PoolNames(e) ELSE {})) :
       NextLayer(e, reading, Answers(reading, Context), Answers(reading, ContextAt(full, DepthFull)))

\* The caller has its packet, or the program ended for want of an engine.
Done ==
  /\ stop # NoStop \/ phase \in {"rejected", "panic"}
  /\ UNCHANGED vars

Next ==
  \/ BuildEngine
  \/ \E o \in Opts : Layers(o)
  \/ AtCap
  \/ EnterStep(Engines[using])
  \/ NextStep(Engines[using])
  \/ Done

Spec == Init /\ [][Next]_vars

----------------------------------------------------------------------------
(* Properties                                                              *)

\* No accepted engine shadows a claim silently: an id that two plugins claim
\* goes where an override sends it, or nowhere (engine.rs ClaimCollision).
NoShadowing ==
  phase = "ready" =>
    LET b == Builders[using]
        routes == Engines[using].routes
    IN  \A c, d \in Claims(b) : c # d /\ c[3] = d[3] /\ c[3] \in DOMAIN routes =>
          <<c[3], routes[c[3]]>> \in ToSet(b.overrides)

\* The headers tile the packet: each starts where the one before ended, and
\* none reaches past the captured bytes, whatever lengths plugins claim, so
\* that offsets and opaque_len can be trusted (parser.rs next, rule 3).
LayersTile ==
  /\ \A i \in DOMAIN layers :
       layers[i].offset = IF i = 1 THEN 0 ELSE layers[i - 1].offset + layers[i - 1].headerLen
  /\ Started => cursor = layers[Len(layers)].offset + layers[Len(layers)].headerLen
  /\ ~Started => cursor = 0
  /\ phase = "walk" => cursor <= opts.caplen /\ Len(layers) <= opts.maxLayers

\* No phantom streams: a layer is guessed only where the header before it
\* said it does not know what follows, or as a first layer that the caller
\* allowed to be guessed and no link type claims (router.rs gate).
NoPhantom ==
  \A i \in DOMAIN layers : layers[i].heuristic =>
    IF i > 1 THEN layers[i - 1].hint.kind = "unknown"
    ELSE opts.entry = "" /\ opts.heuristics /\ LinkType(opts.link) \notin DOMAIN Engines[using].routes

\* Of an engine's pool, the winner is the plugin that reaches the floor and
\* parses n bytes with the best score, the earliest registered on ties, and
\* there is none only if no plugin is able.
Wins(e, reading, ctx, winner, n) ==
  LET scores == ScoreFallbackPool(e, reading, ctx)
      able == {i \in e.pool :
                 /\ scores[i] \in MinConfidence..MaxConfidence
                 /\ HeaderLenOk(Parse(e.plugins[i], reading[e.plugins[i]], ctx), n)}
      best == {i \in able : \A j \in able :
                 scores[j] < scores[i] \/ (scores[j] = scores[i] /\ i <= j)}
  IN  winner = {e.plugins[i] : i \in best}

\* The best guess wins: of the pool's plugins that reach the floor and parse
\* the bytes, the layer is that of the best scorer, the earliest registered
\* on ties, and dissection gives up only if there is none (router.rs 03.3).
BestGuess ==
  LET guess == stop = NoStop
      before == SubSeq(layers, 1, Len(layers) - (IF guess THEN 1 ELSE 0))
  IN  guessed # NoReading =>
        Wins(Engines[using], guessed, ContextAt(before, EffectiveDepth(opts)),
             IF guess THEN {layers[Len(layers)].protocol} ELSE {},
             opts.caplen - (IF guess THEN layers[Len(layers)].offset ELSE cursor))

\* Every walk comes to its end, even where plugins take nothing and name
\* each other: a step of it stops it or adds a layer, a stopped walk stays as
\* it is, and the cap on layers (LayersTile) leaves only so many steps.
WalkProgress ==
  [][phase = "walk" => IF stop = NoStop THEN stop' # NoStop \/ Len(layers') = Len(layers) + 1
                                        ELSE UNCHANGED <<layers, cursor, stop, unknown>>]_vars
=============================================================================
