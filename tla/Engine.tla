------------------------------- MODULE Engine -------------------------------
(***************************************************************************)
(* The registry and the router of the dissection engine (pktflow-core:     *)
(* engine.rs, router.rs, diagnostics.rs): how the builder's calls become a *)
(* route table or an error, and how one step of a packet resolves to a     *)
(* layer or to the reason dissection stops.                                *)
(*                                                                         *)
(* Plugins are named by strings. What a plugin declares, parses and probes *)
(* are parameters, so that everything here holds of any set of plugins,    *)
(* third-party ones that break their contract included. A reading gives,   *)
(* for each plugin that a step may offer the bytes to, the header which it *)
(* finds in them.                                                          *)
(***************************************************************************)
EXTENDS Wire, FiniteSets

CONSTANTS Decl(_),         \* what a plugin declares (see Wire)
          Parse(_, _, _),  \* parse of a plugin, a header, a context
          Probe(_, _, _)   \* probe of a plugin, a header, a context

----------------------------------------------------------------------------
(* build(): a builder holds the plugins in registration order and, in call *)
(* order, the overrides (pairs of a route id and a name) and the unroutes. *)

\* Every claim: the place of its plugin, its place in the plugin's list, the id.
Claims(b) ==
  UNION {{<<i, k, Decl(b.plugins[i]).claims[k]>> : k \in DOMAIN Decl(b.plugins[i]).claims} :
           i \in DOMAIN b.plugins}

\* Mutant of Collision: build() lets the first claimer win.
CollisionIgnored(b) == FALSE

\* Two claims of one id collide, unless a manual route or unroute settles it.
Settled(b) == ToSet(b.unroutes) \cup {o[1] : o \in ToSet(b.overrides)}
Unsettled(b) == LET settled == Settled(b) IN {c \in Claims(b) : c[3] \notin settled}
Collision(b) == \E c, d \in Unsettled(b) : c # d /\ c[3] = d[3]

BadIdentity(decl) ==
  \E id \in decl.identity :
    \/ \E k \in DOMAIN id.key : \E i \in DOMAIN id.key[k] : id.key[k][i] = ""
    \/ \E r \in id.rollups : r.field = "" \/ (r.kind = "series" /\ r.cap = 0)

\* The pair that condensation groups by must be a component of a sorted key.
BadCondense(decl) ==
  \E pair \in decl.condense :
    ~\E id \in decl.identity : id.sorted /\ Len(pair) = 2 /\ pair \in ToSet(id.key)

BuildError(b) ==
  IF \E i, j \in DOMAIN b.plugins : i < j /\ b.plugins[i] = b.plugins[j] THEN "duplicate_name"
  ELSE IF \E o \in ToSet(b.overrides) : o[2] \notin ToSet(b.plugins) THEN "dangling_override"
  ELSE IF Collision(b) THEN "claim_collision"
  ELSE IF \E p \in ToSet(b.plugins) : BadIdentity(Decl(p)) \/ BadCondense(Decl(p))
       THEN "invalid_identity"
  ELSE ""

\* A settled id dispatches to its last override, or nowhere with none; an id
\* of the claims kept to its only claimer.
RouteTable(b, kept) ==
  LET manual == {o[1] : o \in ToSet(b.overrides)}
      Latest(id) == CHOOSE i \in DOMAIN b.overrides :
                      /\ b.overrides[i][1] = id
                      /\ \A j \in DOMAIN b.overrides : b.overrides[j][1] = id => j <= i
  IN  [id \in manual \cup {c[3] : c \in kept} |->
         IF id \in manual THEN b.overrides[Latest(id)][2]
         ELSE b.plugins[(CHOOSE c \in kept : c[3] = id)[1]]]

\* The immutable engine. The fallback pool is a list of places in the order of
\* registration: a set, as places are ordered.
Build(b) == [plugins |-> b.plugins, names |-> ToSet(b.plugins),
             routes |-> RouteTable(b, Unsettled(b)),
             pool |-> {i \in DOMAIN b.plugins : Decl(b.plugins[i]).probes}]

PoolNames(e) == {e.plugins[i] : i \in e.pool}

PluginForRoute(e, id) == IF id \in DOMAIN e.routes THEN {e.routes[id]} ELSE {}

----------------------------------------------------------------------------
(* The outcome of a step: a layer, or the reason to stop.                  *)

Found(p, r, heuristic) == [found |-> TRUE, protocol |-> p, parsed |-> r, heuristic |-> heuristic]
StopAt(kind) == [found |-> FALSE, stop |-> <<kind>>]
Unclaimed(id) == [found |-> FALSE, stop |-> <<"unclaimed_route", id>>]

\* Mutant of HeaderLenOk: the parser trusts the length a plugin claims.
HeaderLenTrusted(r, n) == r.ok

\* A parse that claims more bytes than there are is a plugin that lies.
HeaderLenOk(r, n) == r.ok /\ r.headerLen \in 0..n

\* What the plugins make of a reading. The operators below route on answers.
Answers(reading, ctx) == [p \in DOMAIN reading |-> Parse(p, reading[p], ctx)]

DispatchExplicit(p, answers, n) ==
  LET r == answers[p]
  IN  CASE HeaderLenOk(r, n) -> Found(p, r, FALSE)
        [] ~r.ok /\ r.why = "truncated" -> StopAt("truncated")
        [] OTHER -> StopAt("plugin_error")

\* The first plugin of a list, or of some places of one, that parses the bytes;
\* one that fails is not asked again.
FirstParsed(ps, answers, n, heuristic, otherwise) ==
  LET Parsed(i) == answers[ps[i]]
      First(i) == /\ HeaderLenOk(Parsed(i), n)
                  /\ \A j \in DOMAIN ps : j < i => ~HeaderLenOk(Parsed(j), n)
      first == CHOOSE i \in DOMAIN ps : First(i)
  IN  IF \E i \in DOMAIN ps : First(i) THEN Found(ps[first], Parsed(first), heuristic)
                                       ELSE StopAt(otherwise)

----------------------------------------------------------------------------
(* Heuristic fallback                                                      *)

PriorBoost == 15
MinConfidence == 50
MaxConfidence == 100

\* The probe's score, raised if the layer before is one the plugin expects.
PoolScore(p, reading, ctx) ==
  LET score == Probe(p, reading[p], ctx)
  IN  IF score # NoScore /\ Prev(ctx) \in Decl(p).preds THEN Confidence(score + PriorBoost)
      ELSE score

\* One scoring pass over the pool, whatever reads it.
ScoreFallbackPool(e, reading, ctx) == [i \in e.pool |-> PoolScore(e.plugins[i], reading, ctx)]

\* Mutant of Beats: the latest registered wins ties.
BeatsLatest(scores, i, j) == scores[i] > scores[j] \/ (scores[i] = scores[j] /\ i > j)

\* A strictly greater score wins, and the earlier place on ties.
Beats(scores, i, j) == scores[i] > scores[j] \/ (scores[i] = scores[j] /\ i < j)

\* The candidates that reach the floor are offered the bytes, the best that is
\* left first: one whose parse fails is dropped and the next best taken.
HeuristicFallback(e, scores, answers, n) ==
  LET candidates == {i \in e.pool : scores[i] \in MinConfidence..MaxConfidence}
      Best(C) == CHOOSE i \in C : \A j \in C \ {i} : Beats(scores, i, j)
      Parsed(i) == answers[e.plugins[i]]
      offer[C \in SUBSET candidates] ==
        IF C = {} THEN StopAt("unknown_hint")
        ELSE IF HeaderLenOk(Parsed(Best(C)), n)
             THEN Found(e.plugins[Best(C)], Parsed(Best(C)), TRUE)
             ELSE offer[C \ {Best(C)}]
  IN  offer[candidates]

----------------------------------------------------------------------------
(* The decision tables                                                     *)

\* The candidates that a route leads from are tried in order.
ResolveCandidates(e, ids, answers, n) ==
  LET claimed == {i \in DOMAIN ids : ids[i] \in DOMAIN e.routes}
  IN  IF ids = <<>> THEN StopAt("plugin_error")
      ELSE IF claimed = {} THEN Unclaimed(ids[1])
      ELSE FirstParsed([i \in claimed |-> e.routes[ids[i]]], answers, n, FALSE, "plugin_error")

\* Mutant of ResolveNext: a route that nobody claims is guessed at.
ResolveNextGuessing(e, hint, scores, answers, n) ==
  IF n = 0 \/ hint.kind = "terminal" THEN StopAt("terminal")
  ELSE IF hint.kind = "route" /\ hint.id \in DOMAIN e.routes
       THEN DispatchExplicit(e.routes[hint.id], answers, n)
  ELSE IF DOMAIN answers \cap PoolNames(e) = {} THEN StopAt("unknown_hint")
  ELSE FirstParsed(<<CHOOSE p \in DOMAIN answers \cap PoolNames(e) : TRUE>>,
                   answers, n, TRUE, "unknown_hint")

\* After a layer: what its hint says, n bytes of payload left.
ResolveNext(e, hint, scores, answers, n) ==
  IF n = 0 THEN StopAt("complete")
  ELSE CASE hint.kind = "route" ->
              IF hint.id \in DOMAIN e.routes
              THEN DispatchExplicit(e.routes[hint.id], answers, n) ELSE Unclaimed(hint.id)
         [] hint.kind = "candidates" -> ResolveCandidates(e, hint.ids, answers, n)
         [] hint.kind = "by_protocol" ->
              IF hint.name \in e.names
              THEN FirstParsed(<<hint.name>>, answers, n, FALSE, "plugin_error")
              ELSE Unclaimed(Custom(hint.name, 0))
         [] hint.kind = "unknown" -> HeuristicFallback(e, scores, answers, n)
         [] OTHER -> StopAt("terminal")

\* The first layer: the forced entry, then the capture's link type, then
\* heuristics if the caller allows them there.
ResolveEntry(e, o, scores, answers, n) ==
  LET id == LinkType(o.link)
  IN  IF n = 0 THEN StopAt("complete")
      ELSE IF o.entry # "" THEN DispatchExplicit(o.entry, answers, n)
      ELSE IF id \in DOMAIN e.routes THEN DispatchExplicit(e.routes[id], answers, n)
      ELSE IF o.heuristics THEN HeuristicFallback(e, scores, answers, n)
      ELSE Unclaimed(id)

----------------------------------------------------------------------------
(* Diagnostics of an unknown stop: a report, never a layer                 *)

SampleCap == 256
MaxNearMisses == 5

\* error.rs class: bytes that dissection chose not to guess about.
UnknownPayload(stop) == stop[1] \in {"unclaimed_route", "unknown_hint"}

\* The scores of the pool, below the floor too, best first.
NearMisses(e, scores) ==
  LET scored == {i \in e.pool : scores[i] # NoScore}
      Nth(r) == CHOOSE i \in scored : Cardinality({j \in scored : Beats(scores, j, i)}) = r - 1
      count == Cardinality(scored)
  IN  [r \in 1..(IF count < MaxNearMisses THEN count ELSE MaxNearMisses) |->
         <<e.plugins[Nth(r)], scores[Nth(r)]>>]

NoReport == [reported |-> FALSE]

DiagnoseUnknown(e, stop, scores, n, ctx) ==
  IF ~UnknownPayload(stop) \/ ctx.layers = <<>> THEN NoReport
  ELSE [reported |-> TRUE, predecessor |-> Prev(ctx), stop |-> stop,
        nearMisses |-> NearMisses(e, scores),
        sample |-> IF n < SampleCap THEN n ELSE SampleCap]

\* The plugins that a step may offer the bytes to.
Targets(e, hint) ==
  CASE hint.kind = "route" -> PluginForRoute(e, hint.id)
    [] hint.kind = "candidates" -> UNION {PluginForRoute(e, id) : id \in ToSet(hint.ids)}
    [] hint.kind = "by_protocol" -> {hint.name} \cap e.names
    [] hint.kind = "unknown" -> PoolNames(e)
    [] OTHER -> {}
=============================================================================
