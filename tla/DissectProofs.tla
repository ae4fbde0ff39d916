--------------------------- MODULE DissectProofs ---------------------------
(***************************************************************************)
(* Proofs about Dissect. For every set of plugins, whatever they declare,  *)
(* parse and probe, every builder, every options and every bytes: layers   *)
(* tile the captured bytes, no layer is guessed behind a header that named *)
(* what follows, the best guess wins, an accepted engine shadows no claim, *)
(* and every step of a walk brings it nearer to its end.                   *)
(*                                                                         *)
(* For the plugins that ship, whatever headers they find: every layer has  *)
(* its keys, every depth frames a packet alike, the default list builds,   *)
(* and no plugin of it claims bytes that are not there or names a plugin   *)
(* that is not registered.                                                 *)
(***************************************************************************)
EXTENDS Suite, SequenceTheorems, FiniteSetTheorems, WellFoundedInduction, TLAPS

\* A nonempty set of naturals has a least element.
LEMMA LeastNat ==
  ASSUME NEW S \in SUBSET Nat, S # {}
  PROVE  \E x \in S : \A y \in S : x <= y
<1>. DEFINE R == {q \in Nat \X Nat : q[1] < q[2]}
<1>1. IsWellFoundedOn(R, Nat)
  BY NatLessThanWellFounded DEF OpToRel
<1>2. PICK x \in S : \A y \in S : ~(<<y, x>> \in R)
  <2>. HIDE DEF R
  <2>. QED
    BY <1>1, WFMin
<1>3. \A y \in S : <<y, x>> \in Nat \X Nat /\ <<y, x>>[1] = y /\ <<y, x>>[2] = x
  OBVIOUS
<1>4. \A y \in S : ~(y < x)
  BY <1>2, <1>3
<1>. QED
  BY <1>4

----------------------------------------------------------------------------
(* The loop of heuristic_fallback.                                         *)

\* The pool of an engine is finite.
Pooled(e) == e.pool \in SUBSET Nat /\ IsFiniteSet(e.pool)

\* The candidates, and those of them that parse n bytes.
Worth(e, scores) == {i \in e.pool : scores[i] \in MinConfidence..MaxConfidence}
Able(e, scores, answers, n) ==
  {i \in Worth(e, scores) : HeaderLenOk(answers[e.plugins[i]], n)}

\* The best of a set of places.
IsBest(scores, C, i) == i \in C /\ \A j \in C \ {i} : Beats(scores, i, j)
BestOf(scores, C) == CHOOSE i \in C : \A j \in C \ {i} : Beats(scores, i, j)

\* One round of the loop, f being the rounds after it.
Round(e, scores, answers, n, f, C) ==
  LET i == BestOf(scores, C)
      r == answers[e.plugins[i]]
  IN  IF C = {} THEN StopAt("unknown_hint")
      ELSE IF HeaderLenOk(r, n) THEN Found(e.plugins[i], r, TRUE)
      ELSE f[C \ {i}]

\* What the loop is for: the best of the candidates in C that parse.
Picked(e, scores, answers, n, C) ==
  LET A == C \cap Able(e, scores, answers, n)
      i == BestOf(scores, A)
  IN  IF A = {} THEN StopAt("unknown_hint") ELSE Found(e.plugins[i], answers[e.plugins[i]], TRUE)

\* Places with a score have a best, and only one.
LEMMA BestExists ==
  ASSUME NEW scores, NEW C \in SUBSET Nat, C # {},
         \A i \in C : scores[i] \in MinConfidence..MaxConfidence
  PROVE  /\ IsBest(scores, C, BestOf(scores, C))
         /\ \A i : IsBest(scores, C, i) => i = BestOf(scores, C)
<1>1. \A i \in C : scores[i] \in Int /\ scores[i] <= 100 /\ 100 - scores[i] \in Nat
  BY DEF MinConfidence, MaxConfidence
<1>2. PICK i \in C : \A j \in C : 100 - scores[i] <= 100 - scores[j]
  <2>. DEFINE S == {100 - scores[j] : j \in C}
  <2>1. S \in SUBSET Nat /\ S # {}
    BY <1>1
  <2>2. PICK x \in S : \A y \in S : x <= y
    <3>. HIDE DEF S
    <3>. QED
      BY <2>1, LeastNat
  <2>. QED
    BY <2>2
<1>3. PICK k \in {j \in C : scores[j] = scores[i]} : \A j \in {j \in C : scores[j] = scores[i]} : k <= j
  <2>. DEFINE S == {j \in C : scores[j] = scores[i]}
  <2>1. S \in SUBSET Nat /\ S # {}
    OBVIOUS
  <2>. HIDE DEF S
  <2>2. \E x \in S : \A y \in S : x <= y
    BY <2>1, LeastNat
  <2>. QED
    BY <2>2 DEF S
<1>4. ASSUME NEW j \in C \ {k} PROVE Beats(scores, k, j)
  <2>1. scores[k] = scores[i] /\ scores[i] >= scores[j] /\ scores[j] \in Int /\ scores[k] \in Int
    BY <1>1, <1>2, <1>3
  <2>2. k \in Nat /\ j \in Nat /\ k # j
    BY <1>3
  <2>. QED
    BY <1>3, <2>1, <2>2 DEF Beats
<1>5. IsBest(scores, C, BestOf(scores, C))
  BY <1>3, <1>4 DEF IsBest, BestOf
<1>6. ASSUME NEW a, NEW b, IsBest(scores, C, a), IsBest(scores, C, b) PROVE a = b
  <2>1. a \in Nat /\ b \in Nat /\ scores[a] \in Int /\ scores[b] \in Int
    BY <1>1, <1>6 DEF IsBest
  <2>2. a # b => Beats(scores, a, b) /\ Beats(scores, b, a)
    BY <1>6 DEF IsBest
  <2>. QED
    BY <2>1, <2>2 DEF Beats
<1>. QED
  BY <1>5, <1>6

\* Picking the best that parses satisfies the recursion of the loop.
LEMMA PickedRounds ==
  ASSUME NEW e, Pooled(e), NEW scores, NEW answers, NEW n,
         NEW C \in SUBSET Worth(e, scores), NEW f,
         \A D \in SUBSET C : D # C => f[D] = Picked(e, scores, answers, n, D)
  PROVE  Picked(e, scores, answers, n, C) = Round(e, scores, answers, n, f, C)
<1>1. PICK A : A = C \cap Able(e, scores, answers, n)
  OBVIOUS
<1>2. CASE C = {}
  BY <1>2 DEF Picked, Round
<1>3. CASE C # {}
  <2>1. PICK i : i = BestOf(scores, C)
    OBVIOUS
  <2>2. C \in SUBSET Nat /\ \A k \in C : scores[k] \in MinConfidence..MaxConfidence
    BY DEF Worth, Pooled
  <2>3. IsBest(scores, C, i)
    BY <1>3, <2>1, <2>2, BestExists
  <2>4. CASE HeaderLenOk(answers[e.plugins[i]], n)
    <3>1. i \in A /\ A # {}
      BY <1>1, <2>3, <2>4 DEF IsBest, Able
    <3>2. IsBest(scores, A, i)
      BY <1>1, <2>3, <3>1 DEF IsBest
    <3>3. A \in SUBSET Nat /\ \A k \in A : scores[k] \in MinConfidence..MaxConfidence
      BY <1>1, <2>2
    <3>4. i = BestOf(scores, A)
      BY <3>1, <3>2, <3>3, BestExists
    <3>. QED
      BY <1>1, <1>3, <2>1, <2>4, <3>1, <3>4 DEF Picked, Round
  <2>5. CASE ~HeaderLenOk(answers[e.plugins[i]], n)
    <3>1. PICK D : D = C \ {i}
      OBVIOUS
    <3>2. D \cap Able(e, scores, answers, n) = A
      BY <1>1, <2>5, <3>1 DEF Able
    <3>3. Picked(e, scores, answers, n, D) = Picked(e, scores, answers, n, C)
      BY <1>1, <3>2 DEF Picked
    <3>4. D \in SUBSET C /\ D # C
      BY <2>3, <3>1 DEF IsBest
    <3>5. Round(e, scores, answers, n, f, C) = f[D]
      BY <1>3, <2>1, <2>5, <3>1 DEF Round
    <3>. QED
      BY <3>3, <3>4, <3>5
  <2>. QED
    BY <2>4, <2>5
<1>. QED
  BY <1>2, <1>3

\* The loop of heuristic_fallback gives the best candidate that parses.
LEMMA FallbackPicks ==
  ASSUME NEW e, Pooled(e), NEW scores, NEW answers, NEW n
  PROVE  HeuristicFallback(e, scores, answers, n) =
           Picked(e, scores, answers, n, Worth(e, scores))
<1>1. PICK W : W = Worth(e, scores)
  OBVIOUS
<1>. DEFINE Is(f) == f = [C \in SUBSET W |-> Round(e, scores, answers, n, f, C)]
            F == CHOOSE f : Is(f)
            P(C) == Picked(e, scores, answers, n, C)
<1>2. HeuristicFallback(e, scores, answers, n) = F[W]
  BY <1>1 DEF HeuristicFallback, Worth, Round, BestOf
<1>3. Is(F)
  <2>. DEFINE f == [C \in SUBSET W |-> P(C)]
  <2>1. ASSUME NEW C \in SUBSET W PROVE P(C) = Round(e, scores, answers, n, f, C)
    <3>1. \A D \in SUBSET C : D # C => f[D] = P(D)
      OBVIOUS
    <3>. HIDE DEF f
    <3>. QED
      BY <1>1, <3>1, PickedRounds
  <2>2. f = [C \in SUBSET W |-> Round(e, scores, answers, n, f, C)]
    <3>. HIDE DEF P
    <3>1. [C \in SUBSET W |-> P(C)] = [C \in SUBSET W |-> Round(e, scores, answers, n, f, C)]
      <4>. HIDE DEF f
      <4>. QED
        BY <2>1
    <3>. QED
      BY <3>1
  <2>3. Is(f)
    BY <2>2
  <2>. HIDE DEF f, Is
  <2>. QED
    BY <2>3
<1>4. \A C \in SUBSET W : F[C] = Round(e, scores, answers, n, F, C)
  <2>. HIDE DEF F
  <2>. QED
    BY <1>3
<1>. HIDE DEF F, Is, P
<1>. DEFINE Bad == {m \in Nat : \E C \in SUBSET W : Cardinality(C) = m /\ F[C] # P(C)}
<1>5. IsFiniteSet(W)
  BY <1>1, FS_Subset DEF Worth, Pooled
<1>6. Bad = {}
  <2>. SUFFICES ASSUME Bad # {} PROVE FALSE
    OBVIOUS
  <2>1. PICK m \in Bad : \A k \in Bad : m <= k
    BY LeastNat
  <2>2. PICK C \in SUBSET W : Cardinality(C) = m /\ F[C] # P(C)
    BY <2>1
  <2>3. ASSUME NEW D \in SUBSET C, D # C PROVE F[D] = P(D)
    <3>1. IsFiniteSet(C)
      BY <1>5, FS_Subset
    <3>2. IsFiniteSet(D) /\ Cardinality(D) \in Nat /\ Cardinality(D) < m /\ m \in Nat
      BY <2>1, <2>2, <2>3, <3>1, FS_Subset, FS_CardinalityType
    <3>3. Cardinality(D) \notin Bad
      <4>. HIDE DEF Bad
      <4>. QED
        BY <2>1, <3>2
    <3>. QED
      BY <3>2, <3>3
  <2>4. P(C) = Round(e, scores, answers, n, F, C)
    BY <1>1, <2>3, PickedRounds DEF P
  <2>. QED
    BY <1>4, <2>2, <2>4
<1>7. W \in SUBSET W /\ Cardinality(W) \in Nat
  BY <1>5, FS_CardinalityType
<1>8. F[W] = P(W)
  BY <1>6, <1>7
<1>. QED
  BY <1>1, <1>2, <1>8 DEF P

----------------------------------------------------------------------------
(* What a step may resolve to.                                             *)

\* A layer of n bytes at most, flagged as a guess only if guessing is allowed.
Sound(outcome, n, guessing) ==
  outcome.found => /\ outcome.parsed.headerLen \in 0..n
                   /\ outcome.heuristic => guessing

\* Neither kind of stop is a layer.
LEMMA StopsSound ==
  ASSUME NEW kind, NEW id, NEW n, NEW guessing
  PROVE  /\ Sound(StopAt(kind), n, guessing)
         /\ Sound(Unclaimed(id), n, guessing)
  BY DEF Sound, StopAt, Unclaimed

\* A layer whose length was checked.
LEMMA FoundSound ==
  ASSUME NEW p, NEW r, NEW n, NEW heuristic \in BOOLEAN, HeaderLenOk(r, n)
  PROVE  Sound(Found(p, r, heuristic), n, heuristic)
<1>1. Found(p, r, heuristic).parsed = r /\ Found(p, r, heuristic).heuristic = heuristic
  BY DEF Found
<1>2. r.headerLen \in 0..n
  BY DEF HeaderLenOk
<1>. QED
  BY <1>1, <1>2, Zenon DEF Sound

\* dispatch_explicit checks the length that the plugin claims (rule 3).
LEMMA ExplicitSound ==
  ASSUME NEW p, NEW answers, NEW n
  PROVE  Sound(DispatchExplicit(p, answers, n), n, FALSE)
<1>. DEFINE r == answers[p]
<1>1. CASE HeaderLenOk(r, n)
  <2>1. DispatchExplicit(p, answers, n) = Found(p, r, FALSE)
    BY <1>1 DEF DispatchExplicit, HeaderLenOk
  <2>. QED
    BY <1>1, <2>1, FoundSound
<1>2. CASE ~HeaderLenOk(r, n)
  <2>1. \/ DispatchExplicit(p, answers, n) = StopAt("truncated")
        \/ DispatchExplicit(p, answers, n) = StopAt("plugin_error")
    BY <1>2 DEF DispatchExplicit
  <2>. QED
    BY <2>1, StopsSound
<1>. QED
  BY <1>1, <1>2

\* The first plugin of a list that parses: its length was checked as well.
LEMMA FirstSound ==
  ASSUME NEW ps, NEW answers, NEW n, NEW heuristic \in BOOLEAN, NEW otherwise
  PROVE  Sound(FirstParsed(ps, answers, n, heuristic, otherwise), n, heuristic)
<1>. DEFINE Parsed(i) == answers[ps[i]]
            First(i) == /\ HeaderLenOk(Parsed(i), n)
                        /\ \A j \in DOMAIN ps : j < i => ~HeaderLenOk(Parsed(j), n)
            first == CHOOSE i \in DOMAIN ps : First(i)
<1>1. CASE \E i \in DOMAIN ps : First(i)
  <2>1. HeaderLenOk(Parsed(first), n)
    <3>1. First(first)
      BY <1>1
    <3>. QED
      BY <3>1
  <2>2. FirstParsed(ps, answers, n, heuristic, otherwise) = Found(ps[first], Parsed(first), heuristic)
    BY <1>1 DEF FirstParsed
  <2>. QED
    BY <2>1, <2>2, FoundSound
<1>2. CASE ~\E i \in DOMAIN ps : First(i)
  <2>1. FirstParsed(ps, answers, n, heuristic, otherwise) = StopAt(otherwise)
    BY <1>2 DEF FirstParsed
  <2>. QED
    BY <2>1, StopsSound
<1>. QED
  BY <1>1, <1>2

\* A heuristic fallback claims only a header that parsed.
LEMMA FallbackSound ==
  ASSUME NEW e, Pooled(e), NEW scores, NEW answers, NEW n
  PROVE  Sound(HeuristicFallback(e, scores, answers, n), n, TRUE)
<1>1. PICK A : A = Able(e, scores, answers, n)
  OBVIOUS
<1>2. A \in SUBSET Nat /\ \A i \in A : scores[i] \in MinConfidence..MaxConfidence
  BY <1>1 DEF Able, Worth, Pooled
<1>3. Worth(e, scores) \cap A = A
  BY <1>1 DEF Able
<1>4. CASE A = {}
  BY <1>1, <1>3, <1>4, FallbackPicks, StopsSound, ZenonT(40) DEF Picked
<1>5. CASE A # {}
  <2>1. PICK i : i = BestOf(scores, A)
    OBVIOUS
  <2>2. i \in A
    BY <1>2, <1>5, <2>1, BestExists DEF IsBest
  <2>3. HeaderLenOk(answers[e.plugins[i]], n)
    BY <1>1, <2>2 DEF Able
  <2>4. HeuristicFallback(e, scores, answers, n) = Found(e.plugins[i], answers[e.plugins[i]], TRUE)
    BY <1>1, <1>3, <1>5, <2>1, FallbackPicks DEF Picked
  <2>. QED
    BY <2>3, <2>4, FoundSound
<1>. QED
  BY <1>4, <1>5

\* A guess is allowed wherever no guess is.
LEMMA SoundWeaker ==
  ASSUME NEW outcome, NEW n, NEW guessing, Sound(outcome, n, FALSE)
  PROVE  Sound(outcome, n, guessing)
  BY DEF Sound

\* The router's table: the pool opens on an unknown hint only.
LEMMA NextSound ==
  ASSUME NEW e, Pooled(e), NEW hint, NEW scores, NEW answers, NEW n
  PROVE  Sound(ResolveNext(e, hint, scores, answers, n), n, hint.kind = "unknown")
<1>. DEFINE outcome == ResolveNext(e, hint, scores, answers, n)
            guessing == hint.kind = "unknown"
<1>1. CASE n = 0
  BY <1>1, StopsSound DEF ResolveNext
<1>2. CASE n # 0 /\ hint.kind = "route"
  BY <1>2, StopsSound, ExplicitSound, SoundWeaker DEF ResolveNext
<1>3. CASE n # 0 /\ hint.kind = "candidates"
  <2>1. outcome = ResolveCandidates(e, hint.ids, answers, n)
    BY <1>3 DEF ResolveNext
  <2>2. Sound(outcome, n, FALSE)
    BY <2>1, StopsSound, FirstSound DEF ResolveCandidates
  <2>. QED
    BY <2>2, SoundWeaker
<1>4. CASE n # 0 /\ hint.kind = "by_protocol"
  BY <1>4, StopsSound, FirstSound, SoundWeaker DEF ResolveNext
<1>5. CASE n # 0 /\ hint.kind = "unknown"
  BY <1>5, FallbackSound DEF ResolveNext
<1>6. CASE n # 0 /\ hint.kind \notin {"route", "candidates", "by_protocol", "unknown"}
  BY <1>6, StopsSound DEF ResolveNext
<1>. QED
  BY <1>1, <1>2, <1>3, <1>4, <1>5, <1>6

\* Where the first layer may be guessed.
GuessedEntry(e, o) == o.entry = "" /\ o.heuristics /\ LinkType(o.link) \notin DOMAIN e.routes

\* So does resolving an entry protocol.
LEMMA EntrySound ==
  ASSUME NEW e, Pooled(e), NEW o, NEW scores, NEW answers, NEW n
  PROVE  Sound(ResolveEntry(e, o, scores, answers, n), n, GuessedEntry(e, o))
<1>. DEFINE id == LinkType(o.link)
<1>1. CASE n = 0
  BY <1>1, StopsSound DEF ResolveEntry
<1>2. CASE n # 0 /\ (o.entry # "" \/ id \in DOMAIN e.routes)
  BY <1>2, ExplicitSound, SoundWeaker DEF ResolveEntry
<1>3. CASE n # 0 /\ o.entry = "" /\ id \notin DOMAIN e.routes /\ ~o.heuristics
  BY <1>3, StopsSound DEF ResolveEntry
<1>4. CASE n # 0 /\ o.entry = "" /\ id \notin DOMAIN e.routes /\ o.heuristics
  <2>1. GuessedEntry(e, o)
    BY <1>4 DEF GuessedEntry
  <2>2. ResolveEntry(e, o, scores, answers, n) = HeuristicFallback(e, scores, answers, n)
    BY <1>4 DEF ResolveEntry
  <2>. QED
    BY <2>1, <2>2, FallbackSound DEF Sound
<1>. QED
  BY <1>1, <1>2, <1>3, <1>4

----------------------------------------------------------------------------
(* The inductive invariant.                                                *)

\* A sequence of anything: of its own elements.
IsSeq(s) == s \in Seq({s[i] : i \in DOMAIN s})

\* The walk's own data: a sequence of layers with natural offsets and
\* lengths, nothing of it before the walk begins.
WalkType ==
  /\ IsSeq(layers)
  /\ \A i \in DOMAIN layers : layers[i].offset \in Nat /\ layers[i].headerLen \in Nat
  /\ cursor \in Nat /\ opts.caplen \in Nat /\ opts.maxLayers \in Nat
  /\ phase # "walk" => layers = <<>> /\ cursor = 0
  /\ using \in DOMAIN Builders

Inv == WalkType /\ LayersTile /\ NoPhantom

\* A sequence with one more element.
LEMMA AppendAny ==
  ASSUME NEW s, IsSeq(s), NEW x
  PROVE  /\ IsSeq(Append(s, x))
         /\ Len(s) \in Nat /\ DOMAIN s = 1..Len(s)
         /\ Len(Append(s, x)) = Len(s) + 1
         /\ DOMAIN Append(s, x) = 1..(Len(s) + 1)
         /\ \A i \in 1..Len(s) : Append(s, x)[i] = s[i]
         /\ Append(s, x)[Len(s) + 1] = x
<1>. DEFINE T == {s[i] : i \in DOMAIN s} \cup {x}
            a == Append(s, x)
<1>1. s \in Seq(T) /\ x \in T
  BY DEF IsSeq
<1>. HIDE DEF T
<1>2. /\ a \in Seq(T) /\ Len(s) \in Nat /\ DOMAIN s = 1..Len(s)
      /\ Len(a) = Len(s) + 1 /\ DOMAIN a = 1..(Len(s) + 1)
      /\ \A i \in 1..Len(s) : a[i] = s[i]
      /\ a[Len(s) + 1] = x
  BY <1>1
<1>3. a \in [1..Len(a) -> {a[i] : i \in DOMAIN a}]
  <2>. HIDE DEF a
  <2>1. a \in [1..Len(a) -> T]
    BY <1>2, LenProperties
  <2>. QED
    BY <2>1
<1>4. IsSeq(a)
  BY <1>2, <1>3 DEF IsSeq
<1>. QED
  BY <1>2, <1>4

\* The engine a walk uses has a finite pool.
LEMMA EnginePooled ==
  ASSUME using \in DOMAIN Builders
  PROVE  Pooled(Engines[using])
<1>1. PICK b : b = Builders[using]
  OBVIOUS
<1>2. b.plugins \in Seq(STRING)
  BY <1>1, BuildersAssumption
<1>3. DOMAIN b.plugins = 1..Len(b.plugins) /\ Len(b.plugins) \in Nat
  BY <1>2
<1>4. IsFiniteSet(1..Len(b.plugins)) /\ 1..Len(b.plugins) \in SUBSET Nat
  BY <1>3, FS_Interval
<1>5. Engines[using].pool \subseteq DOMAIN b.plugins
  BY <1>1 DEF Engines, Build
<1>. QED
  BY <1>3, <1>4, <1>5, FS_Subset DEF Pooled

\* The walk before its first layer.
LEMMA EmptyWalkInv ==
  ASSUME layers = <<>>, cursor = 0, opts.caplen \in Nat, opts.maxLayers \in Nat,
         using \in DOMAIN Builders
  PROVE  Inv
<1>1. IsSeq(layers) /\ DOMAIN layers = {} /\ Len(layers) = 0
  BY DEF IsSeq
<1>. QED
  BY <1>1 DEF Inv, WalkType, LayersTile, NoPhantom, Started

\* A parse starts in order.
LEMMA InitInv == Init => Inv
<1>. SUFFICES ASSUME Init PROVE Inv
  OBVIOUS
<1>1. /\ layers = <<>> /\ cursor = 0 /\ opts.caplen \in Nat /\ opts.maxLayers \in Nat
      /\ using \in DOMAIN Builders
  BY DEF Init, EmptyWalk, NoOpts
<1>. QED
  BY <1>1, EmptyWalkInv

\* Emitting a layer that fits what is left keeps the tiling.
LEMMA EmitTiles ==
  ASSUME Inv, phase = "walk", Len(layers) < opts.maxLayers, UNCHANGED <<phase, using, opts>>,
         NEW outcome, Emit(outcome), outcome.parsed.headerLen \in 0..Left
  PROVE  WalkType' /\ LayersTile'
<1>. DEFINE new == RecordOf(outcome, cursor)
            k == Len(layers)
<1>1. /\ layers' = Append(layers, new) /\ cursor' = cursor + new.headerLen
      /\ new.offset = cursor /\ new.headerLen \in 0..(opts.caplen - cursor)
  BY DEF Emit, RecordOf, Left
<1>. HIDE DEF new
<1>2. /\ IsSeq(layers') /\ k \in Nat /\ DOMAIN layers = 1..k /\ Len(layers') = k + 1
      /\ DOMAIN layers' = 1..(k + 1) /\ layers'[k + 1] = new
      /\ \A i \in 1..k : layers'[i] = layers[i]
  BY <1>1, AppendAny DEF Inv, WalkType
<1>3. cursor \in Nat /\ opts.caplen \in Nat /\ cursor <= opts.caplen
  BY DEF Inv, WalkType, LayersTile
<1>4. new.offset \in Nat /\ new.headerLen \in Nat /\ cursor' \in Nat /\ cursor' <= opts.caplen
  BY <1>1, <1>3
<1>5. WalkType'
  BY <1>1, <1>2, <1>4 DEF Inv, WalkType
<1>6. k = 0 <=> layers = <<>>
  BY EmptySeq DEF Inv, WalkType, IsSeq
<1>7. ASSUME NEW i \in DOMAIN layers'
      PROVE  layers'[i].offset = IF i = 1 THEN 0 ELSE layers'[i - 1].offset + layers'[i - 1].headerLen
  <2>1. CASE i \in 1..k
    <3>1. layers'[i] = layers[i] /\ (i # 1 => layers'[i - 1] = layers[i - 1])
      BY <1>2, <2>1
    <3>. QED
      BY <1>2, <2>1, <3>1 DEF Inv, LayersTile
  <2>2. CASE i = k + 1 /\ k = 0
    BY <1>1, <1>2, <1>6, <2>2 DEF Inv, LayersTile, Started
  <2>3. CASE i = k + 1 /\ k # 0
    <3>. HIDE DEF k
    <3>1. layers'[i - 1] = layers[k] /\ layers'[i] = new /\ i # 1
      BY <1>2, <2>3
    <3>2. cursor = layers[k].offset + layers[k].headerLen
      BY <1>6, <2>3 DEF Inv, LayersTile, Started, k
    <3>. QED
      BY <1>1, <3>1, <3>2
  <2>. QED
    BY <1>2, <2>1, <2>2, <2>3
<1>8. Len(layers') <= opts'.maxLayers
  BY <1>2 DEF Inv, WalkType
<1>9. Started' /\ cursor' = layers'[Len(layers')].offset + layers'[Len(layers')].headerLen
  BY <1>1, <1>2 DEF Started
<1>. QED
  BY <1>4, <1>5, <1>7, <1>8, <1>9 DEF LayersTile

\* Emitting a guess only where guessing was allowed keeps phantoms out.
LEMMA EmitNamed ==
  ASSUME Inv, UNCHANGED <<opts, using>>, NEW outcome, Emit(outcome),
         outcome.heuristic => IF Started THEN Pending.kind = "unknown"
                              ELSE GuessedEntry(Engines[using], opts)
  PROVE  NoPhantom'
<1>. DEFINE new == RecordOf(outcome, cursor)
            k == Len(layers)
<1>1. layers' = Append(layers, new) /\ new.heuristic = outcome.heuristic
  BY DEF Emit, RecordOf
<1>. HIDE DEF new
<1>2. /\ k \in Nat /\ DOMAIN layers = 1..k /\ DOMAIN layers' = 1..(k + 1)
      /\ layers'[k + 1] = new /\ \A i \in 1..k : layers'[i] = layers[i]
  BY <1>1, AppendAny DEF Inv, WalkType
<1>3. k = 0 <=> ~Started
  BY EmptySeq DEF Inv, WalkType, IsSeq, Started
<1>. SUFFICES ASSUME NEW i \in DOMAIN layers', layers'[i].heuristic
              PROVE  IF i > 1 THEN layers'[i - 1].hint.kind = "unknown"
                     ELSE GuessedEntry(Engines[using], opts)
  BY DEF NoPhantom, GuessedEntry, Engines
<1>4. CASE i \in 1..k
  <2>1. layers'[i] = layers[i] /\ (i > 1 => layers'[i - 1] = layers[i - 1])
    BY <1>2, <1>4
  <2>. QED
    BY <1>2, <1>4, <2>1 DEF Inv, NoPhantom, GuessedEntry
<1>5. CASE i = k + 1 /\ k = 0
  BY <1>1, <1>2, <1>3, <1>5
<1>6. CASE i = k + 1 /\ k # 0
  <2>1. layers'[i - 1] = layers[k] /\ i > 1 /\ Started
    BY <1>2, <1>3, <1>6
  <2>2. Pending.kind = "unknown"
    BY <1>1, <1>2, <1>6, <2>1
  <2>. QED
    BY <2>1, <2>2 DEF Pending
<1>. QED
  BY <1>2, <1>4, <1>5, <1>6

\* One step of next(), with whatever outcome the router gives it.
LEMMA StepInv ==
  ASSUME Inv, Walking, NEW outcome, NEW report, NEW shadow, NEW reading, NEW answers, NEW pooled,
         Step(outcome, report, shadow, reading, answers, pooled), NEW guessing,
         Sound(outcome, Left, guessing),
         guessing => IF Started THEN Pending.kind = "unknown" ELSE GuessedEntry(Engines[using], opts)
  PROVE  Inv'
<1>1. CASE Emit(outcome)
  <2>1. outcome.parsed.headerLen \in 0..Left /\ (outcome.heuristic => guessing)
    BY <1>1 DEF Emit, Sound
  <2>2. WalkType' /\ LayersTile'
    BY <1>1, <2>1, EmitTiles DEF Walking, Step
  <2>3. NoPhantom'
    BY <1>1, <2>1, EmitNamed DEF Step
  <2>. QED
    BY <2>2, <2>3 DEF Inv
<1>2. CASE Halt(outcome, report)
  <2>. UNCHANGED <<layers, cursor, phase, using, opts>>
    BY <1>2 DEF Halt, Step
  <2>. QED
    BY DEF Inv, WalkType, LayersTile, NoPhantom, Started, Engines
<1>. QED
  BY <1>1, <1>2 DEF Step

\* Every step keeps the parse in order.
LEMMA NextInv == Inv /\ [Next]_vars => Inv'
<1>. SUFFICES ASSUME Inv, [Next]_vars PROVE Inv'
  OBVIOUS
<1>1. CASE BuildEngine
  BY <1>1 DEF BuildEngine, walkVars, Inv, WalkType, LayersTile, NoPhantom, Started, Engines
<1>2. ASSUME NEW o \in Opts, Layers(o) PROVE Inv'
  <2>1. layers = <<>> /\ cursor = 0 /\ layers' = layers /\ cursor' = cursor
    BY <1>2 DEF Layers, walkVars, Inv, WalkType
  <2>2. opts'.caplen \in Nat /\ opts'.maxLayers \in Nat /\ using' \in DOMAIN Builders
    BY <1>2, OptsAssumption DEF Layers, Inv, WalkType
  <2>. QED
    BY <2>1, <2>2 DEF Inv, WalkType, LayersTile, NoPhantom, Started, IsSeq
<1>3. CASE AtCap
  BY <1>3 DEF AtCap, Inv, WalkType, LayersTile, NoPhantom, Started, Engines
<1>4. Pooled(Engines[using])
  BY EnginePooled DEF Inv, WalkType
<1>5. CASE EnterStep(Engines[using])
  <2>1. Walking /\ ~Started
    BY <1>5 DEF EnterStep
  <2>2. PICK reading, answers, atFull : EnterPacket(Engines[using], reading, answers, atFull)
    BY <1>5 DEF EnterStep
  <2>. QED
    BY <1>4, <2>1, <2>2, StepInv, EntrySound DEF EnterPacket
<1>6. CASE NextStep(Engines[using])
  <2>1. Walking /\ Started
    BY <1>6 DEF NextStep
  <2>2. PICK reading, answers, atFull : NextLayer(Engines[using], reading, answers, atFull)
    BY <1>6 DEF NextStep
  <2>. QED
    BY <1>4, <2>1, <2>2, StepInv, NextSound DEF NextLayer, ResolveStep
<1>7. CASE Done \/ UNCHANGED vars
  BY <1>7 DEF Done, vars, walkVars, Inv, WalkType, LayersTile, NoPhantom, Started, Engines
<1>. QED
  BY <1>1, <1>2, <1>3, <1>5, <1>6, <1>7 DEF Next

\* The parse is in order in every state.
LEMMA InvCorrect == Spec => []Inv
  BY InitInv, NextInv, PTL DEF Spec

\* The layers of a packet tile its captured bytes (parser.rs), for every set
\* of plugins, honest or not.
THEOREM TilesCorrect == Spec => []LayersTile
  BY InvCorrect, PTL DEF Inv

\* No phantom streams (router.rs), for every set of plugins.
THEOREM GateCorrect == Spec => []NoPhantom
  BY InvCorrect, PTL DEF Inv

----------------------------------------------------------------------------
(* Progress.                                                               *)

\* A step that does not find a layer gives a reason to stop.
Reasoned(outcome) == ~outcome.found => outcome.stop # NoStop

\* Every outcome of the router is one or the other.
LEMMA AllReasoned ==
  ASSUME NEW e, Pooled(e), NEW o, NEW hint, NEW scores, NEW answers, NEW n
  PROVE  Reasoned(ResolveEntry(e, o, scores, answers, n)) /\ Reasoned(ResolveNext(e, hint, scores, answers, n))
<1>1. ASSUME NEW kind \in {"complete", "terminal", "truncated", "plugin_error", "unknown_hint"}
      PROVE  Reasoned(StopAt(kind))
  BY DEF Reasoned, StopAt, NoStop
<1>2. ASSUME NEW id PROVE Reasoned(Unclaimed(id))
  BY DEF Reasoned, Unclaimed, NoStop
<1>3. ASSUME NEW p, NEW r, NEW g PROVE Reasoned(Found(p, r, g))
  BY DEF Reasoned, Found
<1>4. ASSUME NEW p PROVE Reasoned(DispatchExplicit(p, answers, n))
  BY <1>1, <1>3 DEF DispatchExplicit
<1>5. ASSUME NEW ps, NEW g, NEW kind \in {"plugin_error", "unknown_hint"}
      PROVE  Reasoned(FirstParsed(ps, answers, n, g, kind))
  BY <1>1, <1>3, <1>5 DEF FirstParsed
<1>6. Reasoned(HeuristicFallback(e, scores, answers, n))
  BY <1>1, <1>3, FallbackPicks DEF Picked
<1>7. ASSUME NEW ids PROVE Reasoned(ResolveCandidates(e, ids, answers, n))
  BY <1>1, <1>2, <1>5 DEF ResolveCandidates
<1>8. Reasoned(ResolveEntry(e, o, scores, answers, n))
  BY <1>1, <1>2, <1>4, <1>6 DEF ResolveEntry
<1>9. Reasoned(ResolveNext(e, hint, scores, answers, n))
  BY <1>1, <1>2, <1>4, <1>5, <1>6, <1>7 DEF ResolveNext
<1>. QED
  BY <1>8, <1>9

\* What a step of next() does to a walk.
LEMMA StepAdvances ==
  ASSUME Inv, NEW outcome, NEW report, NEW shadow, NEW reading, NEW answers, NEW pooled,
         Step(outcome, report, shadow, reading, answers, pooled), Reasoned(outcome)
  PROVE  stop' # NoStop \/ Len(layers') = Len(layers) + 1
<1>1. CASE Emit(outcome)
  BY <1>1, AppendAny DEF Emit, Inv, WalkType
<1>2. CASE Halt(outcome, report)
  BY <1>2 DEF Halt, Reasoned
<1>. QED
  BY <1>1, <1>2 DEF Step

\* Every step of the walk stops it or adds a layer.
LEMMA NextAdvances ==
  ASSUME Inv, [Next]_vars, phase = "walk"
  PROVE  IF stop = NoStop THEN stop' # NoStop \/ Len(layers') = Len(layers) + 1 \/ UNCHANGED vars
                          ELSE UNCHANGED <<layers, cursor, stop, unknown>>
<1>1. CASE AtCap
  BY <1>1 DEF AtCap, NoStop
<1>2. CASE EnterStep(Engines[using])
  <2>1. stop = NoStop
    BY <1>2 DEF EnterStep, Walking
  <2>2. PICK reading, answers, atFull : EnterPacket(Engines[using], reading, answers, atFull)
    BY <1>2 DEF EnterStep
  <2>. QED
    BY <2>1, <2>2, AllReasoned, StepAdvances, EnginePooled DEF EnterPacket, Inv, WalkType
<1>3. CASE NextStep(Engines[using])
  <2>1. stop = NoStop
    BY <1>3 DEF NextStep, Walking
  <2>2. PICK reading, answers, atFull : NextLayer(Engines[using], reading, answers, atFull)
    BY <1>3 DEF NextStep
  <2>. QED
    BY <2>1, <2>2, AllReasoned, StepAdvances, EnginePooled DEF NextLayer, ResolveStep, Inv, WalkType
<1>4. CASE Done \/ UNCHANGED vars
  BY <1>4 DEF Done, vars, walkVars
<1>. QED
  BY <1>1, <1>2, <1>3, <1>4 DEF Next, BuildEngine, Layers

\* A walk comes to its end (parser.rs next): with the cap of LayersTile, at
\* most max_layers steps and one more, for every set of plugins.
THEOREM ProgressCorrect == Spec => WalkProgress
<1>1. Inv /\ [Next]_vars =>
        [phase = "walk" => IF stop = NoStop THEN stop' # NoStop \/ Len(layers') = Len(layers) + 1
                                            ELSE UNCHANGED <<layers, cursor, stop, unknown>>]_vars
  BY NextAdvances
<1>. QED
  BY <1>1, InvCorrect, PTL DEF Spec, WalkProgress

----------------------------------------------------------------------------
(* The best guess.                                                         *)

\* The loop of heuristic_fallback finds the winner of the pool.
LEMMA FallbackWins ==
  ASSUME NEW e, Pooled(e), NEW reading, PoolNames(e) \subseteq DOMAIN reading, NEW ctx, NEW n,
         NEW outcome,
         outcome = HeuristicFallback(e, ScoreFallbackPool(e, reading, ctx), Answers(reading, ctx), n)
  PROVE  /\ outcome.found => Wins(e, reading, ctx, {outcome.protocol}, n)
         /\ ~outcome.found => Wins(e, reading, ctx, {}, n) /\ outcome.stop # NoStop
<1>1. PICK scores : scores = ScoreFallbackPool(e, reading, ctx)
  OBVIOUS
<1>2. PICK answers : answers = Answers(reading, ctx)
  OBVIOUS
<1>3. PICK A : A = Able(e, scores, answers, n)
  OBVIOUS
<1>4. A = {i \in e.pool : /\ scores[i] \in MinConfidence..MaxConfidence
                          /\ HeaderLenOk(Parse(e.plugins[i], reading[e.plugins[i]], ctx), n)}
  <2>1. \A i \in e.pool : answers[e.plugins[i]] = Parse(e.plugins[i], reading[e.plugins[i]], ctx)
    BY <1>2 DEF Answers, PoolNames
  <2>. QED
    BY <1>3, <2>1 DEF Able, Worth
<1>5. A \in SUBSET Nat /\ \A i \in A : scores[i] \in MinConfidence..MaxConfidence
  BY <1>4 DEF Pooled
<1>6. outcome = Picked(e, scores, answers, n, Worth(e, scores)) /\ Worth(e, scores) \cap A = A
  BY <1>1, <1>2, <1>3, FallbackPicks DEF Able
<1>7. PICK best : best = {i \in A : \A j \in A :
                            scores[j] < scores[i] \/ (scores[j] = scores[i] /\ i <= j)}
  OBVIOUS
<1>8. \A winner : winner = {e.plugins[i] : i \in best} => Wins(e, reading, ctx, winner, n)
  BY <1>1, <1>4, <1>7 DEF Wins
<1>9. CASE A = {}
  <2>1. outcome = StopAt("unknown_hint")
    BY <1>3, <1>6, <1>9 DEF Picked
  <2>2. best = {}
    BY <1>7, <1>9
  <2>3. Wins(e, reading, ctx, {}, n)
    BY <1>8, <2>2
  <2>. QED
    BY <2>1, <2>3 DEF StopAt, NoStop
<1>10. CASE A # {}
  <2>1. PICK k : k = BestOf(scores, A)
    OBVIOUS
  <2>2. outcome.found /\ outcome.protocol = e.plugins[k]
    BY <1>3, <1>6, <1>10, <2>1 DEF Picked, Found
  <2>3. IsBest(scores, A, k)
    BY <1>5, <1>10, <2>1, BestExists
  <2>4. \A i \in A : i \in Nat /\ scores[i] \in Int
    BY <1>5 DEF MinConfidence, MaxConfidence
  <2>5. best = {k}
    <3>1. k \in best
      BY <1>7, <2>3, <2>4 DEF IsBest, Beats
    <3>2. ASSUME NEW i \in best PROVE i = k
      BY <1>7, <2>3, <2>4 DEF IsBest, Beats
    <3>. QED
      BY <3>1, <3>2
  <2>6. Wins(e, reading, ctx, {e.plugins[k]}, n)
    BY <1>8, <2>5
  <2>. QED
    BY <2>2, <2>6
<1>. QED
  BY <1>9, <1>10

\* A sequence without its last element, and all of it.
LEMMA FrontAny ==
  ASSUME NEW s, IsSeq(s), NEW x
  PROVE  /\ SubSeq(s, 1, Len(s)) = s
         /\ SubSeq(Append(s, x), 1, Len(s)) = s
<1>1. /\ Len(s) \in Nat /\ DOMAIN s = 1..Len(s) /\ Len(Append(s, x)) = Len(s) + 1
      /\ \A i \in 1..Len(s) : Append(s, x)[i] = s[i]
  BY AppendAny
<1>2. s = [i \in 1..Len(s) |-> s[i]]
  BY <1>1 DEF IsSeq
<1>3. \A i \in 1..Len(s) : 1 + i - 1 = i
  OBVIOUS
<1>. QED
  BY <1>1, <1>2, <1>3

\* What BestGuess remembers is forgotten outside a walk.
GuessInv == BestGuess /\ (phase # "walk" => guessed = NoReading)

\* A step that asked the pool leaves its winner, or nothing, behind.
LEMMA StepGuess ==
  ASSUME Inv, Walking, NEW e, e = Engines[using], NEW outcome, NEW report, NEW shadow, NEW reading,
         NEW answers, NEW pooled,
         Step(outcome, report, shadow, reading, answers, pooled),
         pooled => /\ outcome = HeuristicFallback(e, ScoreFallbackPool(e, reading, Context),
                                                  Answers(reading, Context), Left)
                   /\ PoolNames(e) \subseteq DOMAIN reading
  PROVE  GuessInv'
<1>1. phase' = "walk" /\ stop = NoStop /\ using' = using /\ opts' = opts
  BY DEF Walking, Step
<1>2. CASE ~pooled
  <2>1. guessed' = NoReading
    BY <1>2 DEF Step
  <2>. QED
    BY <1>1, <2>1 DEF GuessInv, BestGuess
<1>3. CASE pooled
  <2>1. /\ outcome.found => Wins(e, reading, Context, {outcome.protocol}, Left)
        /\ ~outcome.found => Wins(e, reading, Context, {}, Left) /\ outcome.stop # NoStop
    <3>1. Pooled(e)
      BY EnginePooled DEF Inv, WalkType
    <3>. QED
      BY <1>3, <3>1, FallbackWins
  <2>2. IsSeq(layers)
    BY DEF Inv, WalkType
  <2>3. guessed' = reading
    BY <1>3 DEF Step
  <2>4. Engines[using'] = e
    BY <1>1
  <2>5. PICK ctx : ctx = Context
    OBVIOUS
  <2>6. ctx = ContextAt(layers, EffectiveDepth(opts))
    BY <2>5 DEF Context
  <2>7. CASE Emit(outcome)
    <3>1. PICK new : new = RecordOf(outcome, cursor)
      OBVIOUS
    <3>2. layers' = Append(layers, new) /\ stop' = NoStop /\ outcome.found
      BY <1>1, <2>7, <3>1 DEF Emit
    <3>3. new.protocol = outcome.protocol /\ new.offset = cursor
      BY <3>1 DEF RecordOf
    <3>4. Len(layers') - 1 = Len(layers) /\ layers'[Len(layers')] = new
      BY <2>2, <3>2, AppendAny
    <3>5. SubSeq(layers', 1, Len(layers') - 1) = layers
      BY <2>2, <3>2, <3>4, FrontAny
    <3>6. Wins(e, reading, ContextAt(layers, EffectiveDepth(opts)), {new.protocol}, opts.caplen - new.offset)
      BY <2>1, <2>5, <2>6, <3>2, <3>3 DEF Left
    <3>7. BestGuess'
      BY <1>1, <2>3, <2>4, <3>2, <3>4, <3>5, <3>6 DEF BestGuess
    <3>. QED
      BY <1>1, <3>7 DEF GuessInv
  <2>8. CASE Halt(outcome, report)
    <3>1. layers' = layers /\ cursor' = cursor /\ stop' = outcome.stop /\ ~outcome.found
      BY <2>8 DEF Halt
    <3>2. stop' # NoStop
      BY <2>1, <3>1
    <3>3. SubSeq(layers, 1, Len(layers) - 0) = layers
      <4>1. Len(layers) \in Nat
        BY <2>2, AppendAny
      <4>. QED
        BY <2>2, <4>1, FrontAny
    <3>4. Wins(e, reading, ContextAt(layers, EffectiveDepth(opts)), {}, opts.caplen - cursor)
      BY <2>1, <2>5, <2>6, <3>1 DEF Left
    <3>5. BestGuess'
      BY <1>1, <2>3, <2>4, <3>1, <3>2, <3>3, <3>4 DEF BestGuess
    <3>. QED
      BY <1>1, <3>5 DEF GuessInv
  <2>. QED
    BY <2>7, <2>8 DEF Step
<1>. QED
  BY <1>2, <1>3

\* Every step leaves the winner of the pool it asked, if any, behind.
LEMMA NextGuess == Inv /\ GuessInv /\ [Next]_vars => GuessInv'
<1>. SUFFICES ASSUME Inv, GuessInv, [Next]_vars PROVE GuessInv'
  OBVIOUS
<1>1. CASE BuildEngine
  <2>1. guessed' = NoReading
    BY <1>1 DEF BuildEngine, walkVars, GuessInv
  <2>. QED
    BY <2>1 DEF GuessInv, BestGuess
<1>2. ASSUME NEW o \in Opts, Layers(o) PROVE GuessInv'
  <2>1. guessed' = NoReading
    BY <1>2 DEF Layers, walkVars, GuessInv
  <2>. QED
    BY <2>1 DEF GuessInv, BestGuess
<1>3. CASE AtCap
  <2>1. guessed' = NoReading
    BY <1>3 DEF AtCap
  <2>. QED
    BY <2>1 DEF GuessInv, BestGuess
<1>4. PICK e : e = Engines[using]
  OBVIOUS
<1>5. CASE EnterStep(Engines[using])
  <2>1. Walking /\ ~Started
    BY <1>5 DEF EnterStep
  <2>2. PICK reading \in Offered(EntryTargets(e)) :
          EnterPacket(e, reading, Answers(reading, Context), Answers(reading, ContextAt(full, DepthFull)))
    BY <1>4, <1>5 DEF EnterStep
  <2>3. PICK outcome : outcome = ResolveEntry(e, opts, ScoreFallbackPool(e, reading, Context),
                                              Answers(reading, Context), Left)
    OBVIOUS
  <2>4. ASSUME EntryPooled(e)
        PROVE  /\ outcome = HeuristicFallback(e, ScoreFallbackPool(e, reading, Context),
                                              Answers(reading, Context), Left)
               /\ PoolNames(e) \subseteq DOMAIN reading
    <3>1. /\ opts.entry = "" /\ LinkType(opts.link) \notin DOMAIN e.routes /\ opts.heuristics
          /\ Left > 0
      BY <2>4, Zenon DEF EntryPooled
    <3>2. Left # 0
      <4>1. Left \in Int
        BY DEF Left, Inv, WalkType
      <4>. HIDE DEF Left
      <4>2. Left > 0
        BY <3>1
      <4>. QED
        BY <4>1, <4>2
    <3>3. EntryTargets(e) = PoolNames(e)
      BY <3>1 DEF EntryTargets
    <3>4. outcome = HeuristicFallback(e, ScoreFallbackPool(e, reading, Context),
                                      Answers(reading, Context), Left)
      BY <2>3, <3>1, <3>2, Zenon DEF ResolveEntry
    <3>. QED
      BY <2>2, <3>1, <3>3, <3>4 DEF Offered
  <2>. QED
    BY <1>4, <2>1, <2>2, <2>3, <2>4, StepGuess DEF EnterPacket
<1>6. CASE NextStep(Engines[using])
  <2>1. Walking /\ Started
    BY <1>6 DEF NextStep
  <2>2. PICK reading \in Offered(Targets(e, Pending) \cup (IF opts.diagnose THEN PoolNames(e) ELSE {})) :
          NextLayer(e, reading, Answers(reading, Context), Answers(reading, ContextAt(full, DepthFull)))
    BY <1>4, <1>6 DEF NextStep
  <2>3. PICK outcome : outcome = ResolveNext(e, Pending, ScoreFallbackPool(e, reading, Context),
                                             Answers(reading, Context), Left)
    OBVIOUS
  <2>4. ASSUME Pending.kind = "unknown", Left > 0
        PROVE  /\ outcome = HeuristicFallback(e, ScoreFallbackPool(e, reading, Context),
                                              Answers(reading, Context), Left)
               /\ PoolNames(e) \subseteq DOMAIN reading
    <3>1. Left # 0
      BY <2>4
    <3>2. Targets(e, Pending) = PoolNames(e)
      BY <2>4 DEF Targets
    <3>3. outcome = HeuristicFallback(e, ScoreFallbackPool(e, reading, Context),
                                      Answers(reading, Context), Left)
      BY <2>3, <2>4, <3>1 DEF ResolveNext
    <3>. QED
      BY <2>2, <2>4, <3>2, <3>3 DEF Offered
  <2>. QED
    BY <1>4, <2>1, <2>2, <2>3, <2>4, StepGuess DEF NextLayer, ResolveStep
<1>7. CASE Done \/ UNCHANGED vars
  BY <1>7 DEF Done, vars, walkVars, GuessInv, BestGuess, Engines
<1>. QED
  BY <1>1, <1>2, <1>3, <1>5, <1>6, <1>7 DEF Next

\* The best guess wins (router.rs heuristic_fallback), for every set of
\* plugins: the loop that drops a best scorer whose parse fails ends at the
\* best one that parses, the earliest registered on ties, and gives up only
\* if no plugin above the floor parses.
THEOREM GuessCorrect == Spec => []BestGuess
<1>1. Init => GuessInv
  BY DEF Init, EmptyWalk, GuessInv, BestGuess
<1>2. GuessInv => BestGuess
  BY DEF GuessInv
<1>. QED
  BY <1>1, <1>2, NextGuess, InvCorrect, PTL DEF Spec

----------------------------------------------------------------------------
(* Routes.                                                                 *)

\* Of the overrides of an id there is a last one.
LEMMA LatestOverride ==
  ASSUME NEW s, s \in Seq(ToSet(s)), NEW id, \E o \in ToSet(s) : o[1] = id
  PROVE  \E i \in DOMAIN s : s[i][1] = id /\ \A j \in DOMAIN s : s[j][1] = id => j <= i
<1>1. DOMAIN s = 1..Len(s) /\ Len(s) \in Nat
  OBVIOUS
<1>. DEFINE S == {Len(s) - j : j \in {i \in DOMAIN s : s[i][1] = id}}
<1>2. S \in SUBSET Nat /\ S # {}
  BY <1>1 DEF ToSet
<1>3. PICK x \in S : \A y \in S : x <= y
  <2>. HIDE DEF S
  <2>. QED
    BY <1>2, LeastNat
<1>4. PICK i \in DOMAIN s : s[i][1] = id /\ x = Len(s) - i
  BY <1>3
<1>5. ASSUME NEW j \in DOMAIN s, s[j][1] = id PROVE j <= i
  <2>1. Len(s) - i <= Len(s) - j
    BY <1>3, <1>4, <1>5
  <2>. QED
    BY <1>1, <2>1
<1>. QED
  BY <1>4, <1>5

\* An id with an override goes where the last one sends it.
LEMMA ManualRoute ==
  ASSUME NEW b, b.overrides \in Seq(ToSet(b.overrides)),
         \A o \in ToSet(b.overrides) : o = <<o[1], o[2]>>,
         NEW kept, NEW id \in {o[1] : o \in ToSet(b.overrides)}
  PROVE  <<id, RouteTable(b, kept)[id]>> \in ToSet(b.overrides)
<1>1. PICK s : s = b.overrides
  OBVIOUS
<1>2. PICK k : k = CHOOSE i \in DOMAIN s : /\ s[i][1] = id
                                          /\ \A j \in DOMAIN s : s[j][1] = id => j <= i
  OBVIOUS
<1>3. k \in DOMAIN s /\ s[k][1] = id
  BY <1>1, <1>2, LatestOverride, SMTT(30)
<1>4. RouteTable(b, kept)[id] = s[k][2]
  BY <1>1, <1>2 DEF RouteTable
<1>5. s[k] \in ToSet(s)
  BY <1>3 DEF ToSet
<1>. QED
  BY <1>1, <1>3, <1>4, <1>5

\* An engine that was accepted has no collision.
Accepted == phase = "ready" => BuildError(Builders[using]) = ""

\* An accepted engine shadows nothing.
LEMMA AcceptedRoutes ==
  ASSUME using \in DOMAIN Builders, Accepted
  PROVE  NoShadowing
<1>1. PICK b : b = Builders[using]
  OBVIOUS
<1>2. Engines[using].routes = RouteTable(b, Unsettled(b))
  BY <1>1 DEF Engines, Build
<1>. SUFFICES ASSUME phase = "ready", NEW c \in Claims(b), NEW d \in Claims(b), c # d, c[3] = d[3],
                     c[3] \in DOMAIN RouteTable(b, Unsettled(b))
              PROVE  <<c[3], RouteTable(b, Unsettled(b))[c[3]]>> \in ToSet(b.overrides)
  BY <1>1, <1>2 DEF NoShadowing
<1>3. ~Collision(b)
  BY <1>1 DEF Accepted, BuildError
<1>4. c \notin Unsettled(b) \/ d \notin Unsettled(b)
  BY <1>3 DEF Collision
<1>5. c[3] \in Settled(b)
  BY <1>4 DEF Unsettled
<1>6. \A k \in Unsettled(b) : k[3] # c[3]
  BY <1>5 DEF Unsettled
<1>7. DOMAIN RouteTable(b, Unsettled(b)) =
        {o[1] : o \in ToSet(b.overrides)} \cup {k[3] : k \in Unsettled(b)}
  BY DEF RouteTable
<1>8. c[3] \in {o[1] : o \in ToSet(b.overrides)}
  BY <1>6, <1>7
<1>. QED
  BY <1>1, <1>8, BuildersAssumption, ManualRoute

\* No accepted engine shadows a claim silently (engine.rs build), for every
\* set of plugins and every order of the builder's calls: an id that two
\* plugins claim goes where its last override sends it, or nowhere.
THEOREM RoutesCorrect == Spec => []NoShadowing
<1>1. Init => Accepted
  BY DEF Init, Accepted
<1>2. Accepted /\ [Next]_vars => Accepted'
  BY DEF Accepted, Next, vars, walkVars, BuildEngine, Layers, AtCap, EnterStep, EnterPacket, NextStep,
         NextLayer, ResolveStep, Step, Done
<1>3. Inv /\ Accepted => NoShadowing
  BY AcceptedRoutes DEF Inv, WalkType
<1>. QED
  BY <1>1, <1>2, <1>3, InvCorrect, PTL DEF Spec

----------------------------------------------------------------------------
(* What every plugin that ships keeps of its contract.                     *)

\* The plugins that those that ship may name as what follows.
Named == {"template", "ppp", "dot11", "llc", "ipv4", "ipv6", "ethernet", "http2"}

\* Two answers that frame the packet alike.
Alike(r, s) == IF r.ok THEN s.ok /\ s.headerLen = r.headerLen /\ s.hint = r.hint ELSE s = r

\* Candidates are given as a list.
Listed(hint) == hint.kind = "candidates" => DOMAIN hint.ids \in SUBSET Nat

\* A hint that names nothing, or one of the plugins that may be named.
Hints(hint) == Listed(hint) /\ (hint.kind = "by_protocol" => hint.name \in Named)

\* r, given to n bytes in the context c, is honest, has the keys K, and is
\* framed like s.
Keeps(r, s, n, c, K) ==
  /\ Alike(r, s)
  /\ r.ok => /\ r.headerLen \in 0..n
             /\ (c.depth >= DepthKeys => K \subseteq DOMAIN r.fields)
             /\ Hints(r.hint)

\* A refusal takes no bytes.
LEMMA RefusedKeeps ==
  ASSUME NEW n, NEW c, NEW K
  PROVE  Keeps(Truncated, Truncated, n, c, K) /\ Keeps(Malformed, Malformed, n, c, K)
  BY DEF Keeps, Alike, Truncated, Malformed

\* A check that enough bytes are there keeps what it guards.
LEMMA NeedKeeps ==
  ASSUME NEW h, NEW k, NEW r, NEW s, NEW n, NEW c, NEW K, ~(h.len < k) => Keeps(r, s, n, c, K)
  PROVE  Keeps(Need(h, k, r), Need(h, k, s), n, c, K)
  BY RefusedKeeps DEF Need

\* So does a check that refuses a malformed header.
LEMMA RefuseKeeps ==
  ASSUME NEW bad, NEW r, NEW s, NEW n, NEW c, NEW K, ~bad => Keeps(r, s, n, c, K)
  PROVE  Keeps(Refuse(bad, r), Refuse(bad, s), n, c, K)
  BY RefusedKeeps DEF Refuse

\* What the hints of the plugins name.
LEMMA HintsKept ==
  /\ Hints(Terminal) /\ Hints(UnknownNext)
  /\ \A id : Hints(Route(id))
  /\ \A a, b : Hints(Candidates(<<a, b>>))
  /\ \A p \in Named : Hints(ByProtocol(p))
  BY DEF Hints, Listed, Terminal, UnknownNext, Route, Candidates, ByProtocol

\* A layer that gives its keys from depth Keys on is the same layer at any
\* depth.
LEMMA KeyedKeeps ==
  ASSUME NEW n \in Nat, NEW k \in Nat, ~(n < k), NEW hint, Hints(hint), NEW c, NEW d, NEW K
  PROVE  Keeps(Layer(k, AtKeys(c, K), hint), Layer(k, AtKeys(d, K), hint), n, c, K)
<1>1. DOMAIN [f \in K |-> 0] = K
  OBVIOUS
<1>. QED BY <1>1 DEF Keeps, Alike, Layer, AtKeys

\* So is a layer without keys, whatever its other fields.
LEMMA FreeKeeps ==
  ASSUME NEW n \in Nat, NEW k \in Nat, ~(n < k), NEW hint, Hints(hint), NEW c, NEW F, NEW G
  PROVE  Keeps(Layer(k, F, hint), Layer(k, G, hint), n, c, {})
  BY DEF Keeps, Alike, Layer

\* What holds of 0 and of the successor of whatever it holds of holds of all.
LEMMA Induction ==
  ASSUME NEW P \in SUBSET Nat, 0 \in P, \A n \in P : n + 1 \in P
  PROVE  P = Nat
<1>. SUFFICES ASSUME Nat \ P # {} PROVE FALSE
  OBVIOUS
<1>1. PICK x \in Nat \ P : \A y \in Nat \ P : x <= y
  <2>1. Nat \ P \in SUBSET Nat
    OBVIOUS
  <2>. QED
    BY <2>1, LeastNat
<1>2. x - 1 \in P
  BY <1>1
<1>. QED
  BY <1>1, <1>2

----------------------------------------------------------------------------
(* The walk over a list of records.                                        *)

ListRecord == [head : Nat, size : Nat, short : {Truncated, Malformed}, bad : BOOLEAN,
  cut : BOOLEAN]

WalkBody(f, recs, spare, from, limit, i) ==
  IF i = 0 THEN WalkFrom(from) ELSE WalkStep(f[i - 1], recs[i], spare, limit)

IsWalk(f, m, recs, spare, from, limit) ==
  f = [i \in 0..m |-> WalkBody(f, recs, spare, from, limit, i)]

\* The recursion of Walk has a solution.
LEMMA WalkExists ==
  ASSUME NEW m \in Nat, NEW recs, NEW spare, NEW from, NEW limit
  PROVE  \E f : IsWalk(f, m, recs, spare, from, limit)
<1>. DEFINE B(f, i) == WalkBody(f, recs, spare, from, limit, i)
            P == {n \in Nat : \E f : f = [i \in 0..n |-> B(f, i)]}
<1>1. 0 \in P
  <2>. DEFINE f == [i \in 0..0 |-> WalkFrom(from)]
  <2>1. f = [i \in 0..0 |-> B(f, i)]
    BY DEF WalkBody
  <2>. HIDE DEF f
  <2>. QED
    BY <2>1
<1>2. ASSUME NEW n \in P PROVE n + 1 \in P
  <2>1. PICK f : f = [i \in 0..n |-> B(f, i)]
    OBVIOUS
  <2>. DEFINE e == [i \in 0..(n + 1) |-> B(f, i)]
  <2>2. \A i \in 0..n : e[i] = f[i]
    BY <2>1
  <2>3. \A i \in 0..(n + 1) : B(e, i) = B(f, i)
    <3>. HIDE DEF e
    <3>. QED
      BY <2>2 DEF WalkBody
  <2>4. e = [i \in 0..(n + 1) |-> B(e, i)]
    BY <2>3
  <2>. HIDE DEF e
  <2>. QED
    BY <2>4
<1>3. P = Nat
  <2>. HIDE DEF P
  <2>1. P \in SUBSET Nat
    BY DEF P
  <2>. QED
    BY <1>1, <1>2, <2>1, Induction
<1>. QED
  BY <1>3 DEF IsWalk

\* Where a walk may be: not before its start, and not past the limit unless it
\* started there; it has ended with a refusal, or has none.
Within(w, from, limit) ==
  /\ w.pos \in Nat /\ from <= w.pos /\ (from <= limit => w.pos <= limit)
  /\ IF w.end THEN w.result \in {Truncated, Malformed} ELSE w.result = Terminal
WalkState == [pos : Nat, end : BOOLEAN, result : {Truncated, Malformed, Terminal}]

\* One record moves the walk inside its limits, or ends it.
LEMMA StepWithin ==
  ASSUME NEW w \in WalkState, NEW rec \in ListRecord, NEW spare \in Nat, NEW from \in Nat,
         NEW limit \in Int, Within(w, from, limit)
  PROVE  WalkStep(w, rec, spare, limit) \in WalkState /\
           Within(WalkStep(w, rec, spare, limit), from, limit)
<1>1. PICK v : v = WalkStep(w, rec, spare, limit)
  OBVIOUS
<1>2. CASE v = w
  BY <1>1, <1>2
<1>3. ASSUME NEW refusal \in {Truncated, Malformed}, v = Ended(w, refusal)
      PROVE v \in WalkState /\ Within(v, from, limit)
  BY <1>3 DEF Ended, WalkState, Within
<1>4. ASSUME w.pos + rec.size <= limit, ~w.end, v = [w EXCEPT !.pos = @ + rec.size]
      PROVE v \in WalkState /\ Within(v, from, limit)
  <2>1. v.pos = w.pos + rec.size /\ v.end = w.end /\ v.result = w.result
    BY <1>4 DEF WalkState
  <2>2. v.pos \in Nat /\ from <= v.pos /\ v.pos <= limit
    BY <1>4, <2>1 DEF WalkState, ListRecord, Within
  <2>. QED BY <1>4, <2>1, <2>2 DEF Within, WalkState
<1>5. \/ v = w
      \/ \E refusal \in {Truncated, Malformed} : v = Ended(w, refusal)
      \/ w.pos + rec.size <= limit /\ ~w.end /\ v = [w EXCEPT !.pos = @ + rec.size]
  BY <1>1 DEF WalkStep, ListRecord, WalkState
<1>. QED BY <1>1, <1>2, <1>3, <1>4, <1>5

\* A walk over a list stays between its start and its limit.
LEMMA WalkWithin ==
  ASSUME NEW recs \in Seq(ListRecord), NEW spare \in Nat, NEW from \in Nat, NEW limit \in Int
  PROVE  Within(Walk(recs, spare, from, limit), from, limit)
<1>1. Len(recs) \in Nat
  OBVIOUS
<1>. DEFINE F == CHOOSE f : IsWalk(f, Len(recs), recs, spare, from, limit)
<1>2. F = [i \in 0..Len(recs) |-> WalkBody(F, recs, spare, from, limit, i)]
  <2>1. \E f : IsWalk(f, Len(recs), recs, spare, from, limit)
    BY <1>1, WalkExists
  <2>2. IsWalk(F, Len(recs), recs, spare, from, limit)
    BY <2>1, Zenon
  <2>. HIDE DEF F
  <2>. QED
    BY <2>2 DEF IsWalk
<1>3. Walk(recs, spare, from, limit) = F[Len(recs)]
  BY DEF Walk, WalkBody, IsWalk
<1>. HIDE DEF F
<1>. DEFINE P == {n \in Nat : n <= Len(recs) => F[n] \in WalkState /\ Within(F[n], from, limit)}
<1>4. 0 \in P
  <2>1. F[0] = WalkFrom(from)
    BY <1>1, <1>2 DEF WalkBody
  <2>2. F[0].pos = from /\ F[0].end = FALSE /\ F[0].result = Terminal
    BY <2>1 DEF WalkFrom
  <2>3. F[0] \in WalkState
    BY <2>1 DEF WalkFrom, WalkState
  <2>. QED
    BY <2>2, <2>3 DEF Within
<1>5. ASSUME NEW n \in P PROVE n + 1 \in P
  <2>. SUFFICES ASSUME n + 1 <= Len(recs)
       PROVE F[n + 1] \in WalkState /\ Within(F[n + 1], from, limit)
    OBVIOUS
  <2>1. n + 1 \in 0..Len(recs) /\ n + 1 # 0 /\ n + 1 - 1 = n /\ n <= Len(recs)
    BY <1>1
  <2>2. F[n + 1] = WalkStep(F[n], recs[n + 1], spare, limit)
    BY <1>2, <2>1 DEF WalkBody
  <2>3. recs[n + 1] \in ListRecord
    BY <2>1
  <2>. QED
    BY <2>1, <2>2, <2>3, StepWithin
<1>6. P = Nat
  <2>. HIDE DEF P
  <2>1. P \in SUBSET Nat
    BY DEF P
  <2>. QED
    BY <1>4, <1>5, <2>1, Induction
<1>. QED
  BY <1>1, <1>3, <1>6

----------------------------------------------------------------------------
(* Verdicts of checks and walks.                                           *)

\* A check's verdict: nothing to refuse, or a refusal.
Verdicts == {Truncated, Malformed, Terminal}

\* A list made of list records.
LEMMA ListTyped ==
  ASSUME NEW S, NEW s \in Seq(S), NEW t, t = [i \in DOMAIN s |-> t[i]],
         \A i \in DOMAIN s : t[i] \in ListRecord
  PROVE  t \in Seq(ListRecord)
  OBVIOUS

\* A record of a given size.
LEMMA RecordTyped ==
  ASSUME NEW head \in Nat, NEW size \in Nat
  PROVE  Record(head, size) \in ListRecord
  BY DEF Record, ListRecord

\* A record that is malformed where a condition says so.
LEMMA BadTyped ==
  ASSUME NEW r \in ListRecord, NEW bad \in BOOLEAN
  PROVE  /\ [r EXCEPT !.bad = bad] \in ListRecord
         /\ [r EXCEPT !.short = Malformed, !.bad = bad] \in ListRecord
  BY DEF ListRecord

\* The records of given sizes.
LEMMA RecordsTyped ==
  ASSUME NEW head \in Nat, NEW sizes \in Seq(Nat)
  PROVE  Records(head, sizes) \in Seq(ListRecord)
<1>. DEFINE t == Records(head, sizes)
<1>1. t = [i \in DOMAIN sizes |-> t[i]] /\ \A i \in DOMAIN sizes : t[i] = Record(head, sizes[i])
  BY DEF Records
<1>2. \A i \in DOMAIN sizes : sizes[i] \in Nat
  OBVIOUS
<1>3. \A i \in DOMAIN sizes : Record(head, sizes[i]) \in ListRecord
  BY <1>2, RecordTyped
<1>. HIDE DEF t
<1>4. t \in Seq(ListRecord)
  BY <1>1, <1>3, ListTyped
<1>. QED
  BY <1>4 DEF t

\* A walk over records of given sizes stays inside its limits.
LEMMA SizesWithin ==
  ASSUME NEW head \in Nat, NEW sizes \in Seq(Nat), NEW spare \in Nat, NEW from \in Nat,
         NEW limit \in Int
  PROVE  Within(Walk(Records(head, sizes), spare, from, limit), from, limit)
  BY RecordsTyped, WalkWithin

\* So does one that spares nothing.
LEMMA RecordsWithin ==
  ASSUME NEW head \in Nat, NEW sizes \in Seq(Nat), NEW from \in Nat, NEW limit \in Int
  PROVE  Within(WalkRecords(sizes, head, from, limit), from, limit)
  BY SizesWithin DEF WalkRecords

\* A walk that must reach its limit accepts or refuses.
LEMMA EndVerdict ==
  ASSUME NEW w, NEW from, NEW limit, Within(w, from, limit)
  PROVE  ToEnd(w, limit) \in Verdicts
  BY DEF Within, ToEnd, Verdicts

\* The same, over records of given sizes.
LEMMA ToEndVerdict ==
  ASSUME NEW head \in Nat, NEW sizes \in Seq(Nat), NEW from \in Nat, NEW limit \in Int
  PROVE  WalkToEnd(sizes, head, from, limit) \in Verdicts
  BY SizesWithin, EndVerdict DEF WalkToEnd

\* What follows a check that passed.
LEMMA PassedKeeps ==
  ASSUME NEW v \in Verdicts, NEW r, NEW s, NEW n, NEW c, NEW K,
         v = Terminal => Keeps(r, s, n, c, K)
  PROVE  Keeps(Passed(v, r), Passed(v, s), n, c, K)
  BY RefusedKeeps DEF Passed, Verdicts

\* What follows a walk that was not cut short.
LEMMA WalkedKeeps ==
  ASSUME NEW w, NEW from, NEW limit, Within(w, from, limit), NEW r, NEW s, NEW n, NEW c, NEW K,
         ~w.end => Keeps(r, s, n, c, K)
  PROVE  Keeps(IF w.end THEN w.result ELSE r, IF w.end THEN w.result ELSE s, n, c, K)
  BY RefusedKeeps DEF Within

----------------------------------------------------------------------------
(* What the plugins that ship declare.                                     *)

\* The plugins with a kind of frame that has no key.
SeldomKeyed == {"dot11", "quic", "l2tpv3"}

\* The keys that a plugin owes whatever it is given.
MustKeys(p) == IF p \in SeldomKeyed THEN {} ELSE KeyFields(DefaultDecl[p])

\* The fields of a component.
Parts(c) == {c[i] : i \in DOMAIN c}

\* The fields of a pair and of a shared key.
LEMMA PartsOf ==
  /\ \A a, b : Parts(Pair(a, b)) = {a, b}
  /\ \A a : Parts(Shared(a)) = {a}
  BY DEF Parts, Pair, Shared

\* The keys of a plugin with one key component.
LEMMA OneKey ==
  ASSUME NEW p, p \notin SeldomKeyed, NEW id, NEW c, id.key = <<c>>,
         DefaultDecl[p].identity = {id}
  PROVE  MustKeys(p) = Parts(c)
<1>1. {id.key[k] : k \in DOMAIN id.key} = {c}
  OBVIOUS
<1>2. KeyFields(DefaultDecl[p]) = UNION {{x[i] : i \in DOMAIN x} : x \in {c}}
  BY <1>1 DEF KeyFields
<1>. QED
  BY <1>2 DEF MustKeys, Parts

\* A plugin without a stream identity has no keys.
LEMMA NoKey ==
  ASSUME NEW p, DefaultDecl[p].identity = {}
  PROVE  MustKeys(p) = {}
  BY DEF MustKeys, KeyFields

\* How the plugins of the network layer parse.
LEMMA NetworkParse ==
  ASSUME NEW h, NEW c
  PROVE  /\ DefaultParse("template", h, c) = Template(h, c)
         /\ DefaultParse("ethernet", h, c) = Ethernet(h, c)
         /\ DefaultParse("vlan", h, c) = Vlan(h, c)
         /\ DefaultParse("arp", h, c) = Arp(h, c)
         /\ DefaultParse("ipv4", h, c) = Ipv4(h, c)
         /\ DefaultParse("ipv6", h, c) = Ipv6(h, c)
         /\ DefaultParse("udp", h, c) = Udp(h, c)
         /\ DefaultParse("tcp", h, c) = Tcp(h, c)
         /\ DefaultParse("sctp", h, c) = Sctp(h, c)
         /\ DefaultParse("icmpv4", h, c) = Icmpv4(h, c)
         /\ DefaultParse("icmpv6", h, c) = Icmpv6(h, c)
         /\ DefaultParse("igmp", h, c) = Igmp(h, c)
         /\ DefaultParse("vrrp", h, c) = Vrrp(h, c)
         /\ DefaultParse("hsrp", h, c) = Hsrp(h, c)
         /\ DefaultParse("ospf", h, c) = Ospf(h, c)
         /\ DefaultParse("bfd", h, c) = Bfd(h, c)
         /\ DefaultParse("esp", h, c) = Esp(h, c)
         /\ DefaultParse("ndp", h, c) = Ndp(h, c)
         /\ DefaultParse("mld", h, c) = Mld(h, c)
  BY DEF DefaultParse

\* What the plugins of the network layer declare.
LEMMA NetworkDecls ==
         /\ DefaultDecl.template = TemplateDecl
         /\ DefaultDecl.ethernet = EthernetDecl
         /\ DefaultDecl.vlan = VlanDecl
         /\ DefaultDecl.arp = ArpDecl
         /\ DefaultDecl.ipv4 = Ipv4Decl
         /\ DefaultDecl.ipv6 = Ipv6Decl
         /\ DefaultDecl.udp = UdpDecl
         /\ DefaultDecl.tcp = TcpDecl
         /\ DefaultDecl.sctp = SctpDecl
         /\ DefaultDecl.icmpv4 = Icmpv4Decl
         /\ DefaultDecl.icmpv6 = Icmpv6Decl
         /\ DefaultDecl.igmp = IgmpDecl
         /\ DefaultDecl.vrrp = VrrpDecl
         /\ DefaultDecl.hsrp = HsrpDecl
         /\ DefaultDecl.ospf = OspfDecl
         /\ DefaultDecl.bfd = BfdDecl
         /\ DefaultDecl.esp = EspDecl
         /\ DefaultDecl.ndp = NdpDecl
         /\ DefaultDecl.mld = MldDecl
  BY DEF DefaultDecl

\* How the plugins of the link layer parse.
LEMMA LinkParse ==
  ASSUME NEW h, NEW c
  PROVE  /\ DefaultParse("llc", h, c) = Llc(h, c)
         /\ DefaultParse("lldp", h, c) = Lldp(h, c)
         /\ DefaultParse("cdp", h, c) = Cdp(h, c)
         /\ DefaultParse("lacp", h, c) = Lacp(h, c)
         /\ DefaultParse("stp", h, c) = Stp(h, c)
         /\ DefaultParse("pvst_plus", h, c) = PvstPlus(h, c)
         /\ DefaultParse("eapol", h, c) = Eapol(h, c)
         /\ DefaultParse("radiotap", h, c) = Radiotap(h, c)
         /\ DefaultParse("dot11", h, c) = Dot11(h, c)
         /\ DefaultParse("pppoe", h, c) = Pppoe(h, c)
         /\ DefaultParse("ppp", h, c) = Ppp(h, c)
         /\ DefaultParse("mpls", h, c) = Mpls(h, c)
  BY DEF DefaultParse

\* What the plugins of the link layer declare.
LEMMA LinkDecls ==
         /\ DefaultDecl.llc = LlcDecl
         /\ DefaultDecl.lldp = LldpDecl
         /\ DefaultDecl.cdp = CdpDecl
         /\ DefaultDecl.lacp = LacpDecl
         /\ DefaultDecl.stp = StpDecl
         /\ DefaultDecl.pvst_plus = PvstPlusDecl
         /\ DefaultDecl.eapol = EapolDecl
         /\ DefaultDecl.radiotap = RadiotapDecl
         /\ DefaultDecl.dot11 = Dot11Decl
         /\ DefaultDecl.pppoe = PppoeDecl
         /\ DefaultDecl.ppp = PppDecl
         /\ DefaultDecl.mpls = MplsDecl
  BY DEF DefaultDecl

\* How the plugins of tunnels parse.
LEMMA TunnelParse ==
  ASSUME NEW h, NEW c
  PROVE  /\ DefaultParse("gre", h, c) = Gre(h, c)
         /\ DefaultParse("erspan", h, c) = Erspan(h, c)
         /\ DefaultParse("vxlan", h, c) = Vxlan(h, c)
         /\ DefaultParse("geneve", h, c) = Geneve(h, c)
         /\ DefaultParse("ah", h, c) = Ah(h, c)
         /\ DefaultParse("gtp_u", h, c) = GtpU(h, c)
         /\ DefaultParse("gtp_c", h, c) = GtpC(h, c)
         /\ DefaultParse("wireguard", h, c) = Wireguard(h, c)
         /\ DefaultParse("l2tpv3", h, c) = L2tpv3(h, c)
         /\ DefaultParse("quic", h, c) = Quic(h, c)
  BY DEF DefaultParse

\* What the plugins of tunnels declare.
LEMMA TunnelDecls ==
         /\ DefaultDecl.gre = GreDecl
         /\ DefaultDecl.erspan = ErspanDecl
         /\ DefaultDecl.vxlan = VxlanDecl
         /\ DefaultDecl.geneve = GeneveDecl
         /\ DefaultDecl.ah = AhDecl
         /\ DefaultDecl.gtp_u = GtpUDecl
         /\ DefaultDecl.gtp_c = GtpCDecl
         /\ DefaultDecl.wireguard = WireguardDecl
         /\ DefaultDecl.l2tpv3 = L2tpv3Decl
         /\ DefaultDecl.quic = QuicDecl
  BY DEF DefaultDecl

\* How the plugins of services parse.
LEMMA ServiceParse ==
  ASSUME NEW h, NEW c
  PROVE  /\ DefaultParse("dns", h, c) = Dns(h, c)
         /\ DefaultParse("mdns", h, c) = Mdns(h, c)
         /\ DefaultParse("llmnr", h, c) = Llmnr(h, c)
         /\ DefaultParse("netbios_ns", h, c) = NetbiosNs(h, c)
         /\ DefaultParse("dhcp", h, c) = Dhcp(h, c)
         /\ DefaultParse("dhcpv6", h, c) = Dhcpv6(h, c)
         /\ DefaultParse("ntp", h, c) = Ntp(h, c)
         /\ DefaultParse("ptp", h, c) = Ptp(h, c)
         /\ DefaultParse("syslog", h, c) = Syslog(h, c)
         /\ DefaultParse("radius", h, c) = Radius(h, c)
         /\ DefaultParse("snmp", h, c) = Snmp(h, c)
         /\ DefaultParse("kerberos", h, c) = Kerberos(h, c)
         /\ DefaultParse("ldap", h, c) = Ldap(h, c)
  BY DEF DefaultParse

\* What the plugins of services declare.
LEMMA ServiceDecls ==
         /\ DefaultDecl.dns = DnsDecl
         /\ DefaultDecl.mdns = MdnsDecl
         /\ DefaultDecl.llmnr = LlmnrDecl
         /\ DefaultDecl.netbios_ns = NetbiosNsDecl
         /\ DefaultDecl.dhcp = DhcpDecl
         /\ DefaultDecl.dhcpv6 = Dhcpv6Decl
         /\ DefaultDecl.ntp = NtpDecl
         /\ DefaultDecl.ptp = PtpDecl
         /\ DefaultDecl.syslog = SyslogDecl
         /\ DefaultDecl.radius = RadiusDecl
         /\ DefaultDecl.snmp = SnmpDecl
         /\ DefaultDecl.kerberos = KerberosDecl
         /\ DefaultDecl.ldap = LdapDecl
  BY DEF DefaultDecl

\* How the plugins of control networks parse.
LEMMA IndustrialParse ==
  ASSUME NEW h, NEW c
  PROVE  /\ DefaultParse("rocev2", h, c) = Rocev2(h, c)
         /\ DefaultParse("modbus", h, c) = Modbus(h, c)
         /\ DefaultParse("mqtt", h, c) = Mqtt(h, c)
         /\ DefaultParse("dnp3", h, c) = Dnp3(h, c)
         /\ DefaultParse("enip", h, c) = Enip(h, c)
         /\ DefaultParse("bacnet_ip", h, c) = BacnetIp(h, c)
  BY DEF DefaultParse

\* What the plugins of control networks declare.
LEMMA IndustrialDecls ==
         /\ DefaultDecl.rocev2 = Rocev2Decl
         /\ DefaultDecl.modbus = ModbusDecl
         /\ DefaultDecl.mqtt = MqttDecl
         /\ DefaultDecl.dnp3 = Dnp3Decl
         /\ DefaultDecl.enip = EnipDecl
         /\ DefaultDecl.bacnet_ip = BacnetIpDecl
  BY DEF DefaultDecl

\* How the plugins of text protocols parse.
LEMMA TextParse ==
  ASSUME NEW h, NEW c
  PROVE  /\ DefaultParse("ssdp", h, c) = Ssdp(h, c)
         /\ DefaultParse("http", h, c) = Http(h, c)
         /\ DefaultParse("sip", h, c) = Sip(h, c)
         /\ DefaultParse("http2", h, c) = Http2(h, c)
         /\ DefaultParse("websocket", h, c) = WebSocket(h, c)
         /\ DefaultParse("ftp", h, c) = Ftp(h, c)
         /\ DefaultParse("smtp", h, c) = Smtp(h, c)
         /\ DefaultParse("imap", h, c) = Imap(h, c)
         /\ DefaultParse("pop3", h, c) = Pop3(h, c)
         /\ DefaultParse("redis", h, c) = Redis(h, c)
  BY DEF DefaultParse

\* What the plugins of text protocols declare.
LEMMA TextDecls ==
         /\ DefaultDecl.ssdp = SsdpDecl
         /\ DefaultDecl.http = HttpDecl
         /\ DefaultDecl.sip = SipDecl
         /\ DefaultDecl.http2 = Http2Decl
         /\ DefaultDecl.websocket = WebSocketDecl
         /\ DefaultDecl.ftp = FtpDecl
         /\ DefaultDecl.smtp = SmtpDecl
         /\ DefaultDecl.imap = ImapDecl
         /\ DefaultDecl.pop3 = Pop3Decl
         /\ DefaultDecl.redis = RedisDecl
  BY DEF DefaultDecl

\* How the plugins of applications parse.
LEMMA AppParse ==
  ASSUME NEW h, NEW c
  PROVE  /\ DefaultParse("tls", h, c) = Tls(h, c)
         /\ DefaultParse("ssh", h, c) = Ssh(h, c)
         /\ DefaultParse("stun", h, c) = Stun(h, c)
         /\ DefaultParse("tftp", h, c) = Tftp(h, c)
         /\ DefaultParse("smb2", h, c) = Smb2(h, c)
         /\ DefaultParse("nfs", h, c) = Nfs(h, c)
         /\ DefaultParse("rtp", h, c) = Rtp(h, c)
         /\ DefaultParse("rtcp", h, c) = Rtcp(h, c)
         /\ DefaultParse("amqp", h, c) = Amqp(h, c)
         /\ DefaultParse("netflow9", h, c) = Netflow9(h, c)
         /\ DefaultParse("ipfix", h, c) = Ipfix(h, c)
         /\ DefaultParse("bgp", h, c) = Bgp(h, c)
  BY DEF DefaultParse

\* What the plugins of applications declare.
LEMMA AppDecls ==
         /\ DefaultDecl.tls = TlsDecl
         /\ DefaultDecl.ssh = SshDecl
         /\ DefaultDecl.stun = StunDecl
         /\ DefaultDecl.tftp = TftpDecl
         /\ DefaultDecl.smb2 = Smb2Decl
         /\ DefaultDecl.nfs = NfsDecl
         /\ DefaultDecl.rtp = RtpDecl
         /\ DefaultDecl.rtcp = RtcpDecl
         /\ DefaultDecl.amqp = AmqpDecl
         /\ DefaultDecl.netflow9 = Netflow9Decl
         /\ DefaultDecl.ipfix = IpfixDecl
         /\ DefaultDecl.bgp = BgpDecl
  BY DEF DefaultDecl

\* The keys that the plugins of the network layer owe.
LEMMA NetworkKeys ==
         /\ MustKeys("template") = {"src", "dst"}
         /\ MustKeys("ethernet") = {"src_mac", "dst_mac"}
         /\ MustKeys("vlan") = {}
         /\ MustKeys("arp") = {}
         /\ MustKeys("ipv4") = {"src_addr", "dst_addr"}
         /\ MustKeys("ipv6") = {"src_addr", "dst_addr"}
         /\ MustKeys("udp") = {"src_port", "dst_port"}
         /\ MustKeys("tcp") = {"src_port", "dst_port"}
         /\ MustKeys("sctp") = {"src_port", "dst_port"}
         /\ MustKeys("icmpv4") = {}
         /\ MustKeys("icmpv6") = {}
         /\ MustKeys("igmp") = {}
         /\ MustKeys("vrrp") = {"vrid"}
         /\ MustKeys("hsrp") = {"group"}
         /\ MustKeys("ospf") = {}
         /\ MustKeys("bfd") = {"my_discriminator", "your_discriminator"}
         /\ MustKeys("esp") = {"spi"}
         /\ MustKeys("ndp") = {}
         /\ MustKeys("mld") = {}
<1>1. MustKeys("template") = {"src", "dst"}
  <2>1. TemplateDecl.identity = {TemplateIdentity} /\
          TemplateIdentity.key = <<Pair("src", "dst")>>
    BY DEF TemplateDecl, Declares, TemplateIdentity, Identity
  <2>2. MustKeys("template") = Parts(Pair("src", "dst"))
    BY <2>1, NetworkDecls, OneKey DEF SeldomKeyed
  <2>. QED
    BY <2>2, PartsOf
<1>2. MustKeys("ethernet") = {"src_mac", "dst_mac"}
  <2>1. EthernetDecl.identity = {EthernetIdentity} /\
          EthernetIdentity.key = <<Pair("src_mac", "dst_mac")>>
    BY DEF EthernetDecl, Declares, EthernetIdentity, Identity
  <2>2. MustKeys("ethernet") = Parts(Pair("src_mac", "dst_mac"))
    BY <2>1, NetworkDecls, OneKey DEF SeldomKeyed
  <2>. QED
    BY <2>2, PartsOf
<1>3. MustKeys("vlan") = {}
  BY NetworkDecls, NoKey DEF VlanDecl, Declares
<1>4. MustKeys("arp") = {}
  BY NetworkDecls, NoKey DEF ArpDecl, Declares
<1>5. MustKeys("ipv4") = {"src_addr", "dst_addr"}
  <2>1. Ipv4Decl.identity = {Ipv4Identity} /\ Ipv4Identity.key = <<Pair("src_addr", "dst_addr")>>
    BY DEF Ipv4Decl, Declares, Ipv4Identity, Identity
  <2>2. MustKeys("ipv4") = Parts(Pair("src_addr", "dst_addr"))
    BY <2>1, NetworkDecls, OneKey DEF SeldomKeyed
  <2>. QED
    BY <2>2, PartsOf
<1>6. MustKeys("ipv6") = {"src_addr", "dst_addr"}
  <2>1. Ipv6Decl.identity = {Ipv6Identity} /\ Ipv6Identity.key = <<Pair("src_addr", "dst_addr")>>
    BY DEF Ipv6Decl, Declares, Ipv6Identity, Identity
  <2>2. MustKeys("ipv6") = Parts(Pair("src_addr", "dst_addr"))
    BY <2>1, NetworkDecls, OneKey DEF SeldomKeyed
  <2>. QED
    BY <2>2, PartsOf
<1>7. MustKeys("udp") = {"src_port", "dst_port"}
  <2>1. UdpDecl.identity = {UdpIdentity} /\ UdpIdentity.key = <<Pair("src_port", "dst_port")>>
    BY DEF UdpDecl, Declares, UdpIdentity, Identity
  <2>2. MustKeys("udp") = Parts(Pair("src_port", "dst_port"))
    BY <2>1, NetworkDecls, OneKey DEF SeldomKeyed
  <2>. QED
    BY <2>2, PartsOf
<1>8. MustKeys("tcp") = {"src_port", "dst_port"}
  <2>1. TcpDecl.identity = {TcpIdentity} /\ TcpIdentity.key = <<Pair("src_port", "dst_port")>>
    BY DEF TcpDecl, Declares, TcpIdentity, Identity
  <2>2. MustKeys("tcp") = Parts(Pair("src_port", "dst_port"))
    BY <2>1, NetworkDecls, OneKey DEF SeldomKeyed
  <2>. QED
    BY <2>2, PartsOf
<1>9. MustKeys("sctp") = {"src_port", "dst_port"}
  <2>1. SctpDecl.identity = {SctpIdentity} /\ SctpIdentity.key = <<Pair("src_port", "dst_port")>>
    BY DEF SctpDecl, Declares, SctpIdentity, Identity
  <2>2. MustKeys("sctp") = Parts(Pair("src_port", "dst_port"))
    BY <2>1, NetworkDecls, OneKey DEF SeldomKeyed
  <2>. QED
    BY <2>2, PartsOf
<1>10. MustKeys("icmpv4") = {}
  BY NetworkDecls, NoKey DEF Icmpv4Decl, Declares
<1>11. MustKeys("icmpv6") = {}
  BY NetworkDecls, NoKey DEF Icmpv6Decl, Declares
<1>12. MustKeys("igmp") = {}
  BY NetworkDecls, NoKey DEF IgmpDecl, Declares
<1>13. MustKeys("vrrp") = {"vrid"}
  <2>1. VrrpDecl.identity = {VrrpIdentity} /\ VrrpIdentity.key = <<Shared("vrid")>>
    BY DEF VrrpDecl, Declares, VrrpIdentity, Identity
  <2>2. MustKeys("vrrp") = Parts(Shared("vrid"))
    BY <2>1, NetworkDecls, OneKey DEF SeldomKeyed
  <2>. QED
    BY <2>2, PartsOf
<1>14. MustKeys("hsrp") = {"group"}
  <2>1. HsrpDecl.identity = {HsrpIdentity} /\ HsrpIdentity.key = <<Shared("group")>>
    BY DEF HsrpDecl, Declares, HsrpIdentity, Identity
  <2>2. MustKeys("hsrp") = Parts(Shared("group"))
    BY <2>1, NetworkDecls, OneKey DEF SeldomKeyed
  <2>. QED
    BY <2>2, PartsOf
<1>15. MustKeys("ospf") = {}
  BY NetworkDecls, NoKey DEF OspfDecl, Declares
<1>16. MustKeys("bfd") = {"my_discriminator", "your_discriminator"}
  <2>1. BfdDecl.identity = {BfdIdentity} /\
          BfdIdentity.key = <<Pair("my_discriminator", "your_discriminator")>>
    BY DEF BfdDecl, Declares, BfdIdentity, Identity
  <2>2. MustKeys("bfd") = Parts(Pair("my_discriminator", "your_discriminator"))
    BY <2>1, NetworkDecls, OneKey DEF SeldomKeyed
  <2>. QED
    BY <2>2, PartsOf
<1>17. MustKeys("esp") = {"spi"}
  <2>1. EspDecl.identity = {EspIdentity} /\ EspIdentity.key = <<Shared("spi")>>
    BY DEF EspDecl, Declares, EspIdentity, Identity
  <2>2. MustKeys("esp") = Parts(Shared("spi"))
    BY <2>1, NetworkDecls, OneKey DEF SeldomKeyed
  <2>. QED
    BY <2>2, PartsOf
<1>18. MustKeys("ndp") = {}
  BY NetworkDecls, NoKey DEF NdpDecl, Declares
<1>19. MustKeys("mld") = {}
  BY NetworkDecls, NoKey DEF MldDecl, Declares
<1>. QED
  BY <1>1, <1>2, <1>3, <1>4, <1>5, <1>6, <1>7, <1>8, <1>9, <1>10, <1>11, <1>12, <1>13, <1>14,
     <1>15, <1>16, <1>17, <1>18, <1>19

\* The keys that the plugins of the link layer owe.
LEMMA LinkKeys ==
         /\ MustKeys("llc") = {}
         /\ MustKeys("lldp") = {}
         /\ MustKeys("cdp") = {}
         /\ MustKeys("lacp") = {"actor_system", "partner_system"}
         /\ MustKeys("stp") = {}
         /\ MustKeys("pvst_plus") = {}
         /\ MustKeys("eapol") = {}
         /\ MustKeys("radiotap") = {}
         /\ MustKeys("dot11") = {}
         /\ MustKeys("pppoe") = {"session_id"}
         /\ MustKeys("ppp") = {}
         /\ MustKeys("mpls") = {"label"}
<1>1. MustKeys("llc") = {}
  BY LinkDecls, NoKey DEF LlcDecl, Declares
<1>2. MustKeys("lldp") = {}
  BY LinkDecls, NoKey DEF LldpDecl, Declares
<1>3. MustKeys("cdp") = {}
  BY LinkDecls, NoKey DEF CdpDecl, Declares
<1>4. MustKeys("lacp") = {"actor_system", "partner_system"}
  <2>1. LacpDecl.identity = {LacpIdentity} /\
          LacpIdentity.key = <<Pair("actor_system", "partner_system")>>
    BY DEF LacpDecl, Declares, LacpIdentity, Identity
  <2>2. MustKeys("lacp") = Parts(Pair("actor_system", "partner_system"))
    BY <2>1, LinkDecls, OneKey DEF SeldomKeyed
  <2>. QED
    BY <2>2, PartsOf
<1>5. MustKeys("stp") = {}
  BY LinkDecls, NoKey DEF StpDecl, Declares
<1>6. MustKeys("pvst_plus") = {}
  BY LinkDecls, NoKey DEF PvstPlusDecl, Declares
<1>7. MustKeys("eapol") = {}
  BY LinkDecls, NoKey DEF EapolDecl, Declares
<1>8. MustKeys("radiotap") = {}
  BY LinkDecls, NoKey DEF RadiotapDecl, Declares
<1>9. MustKeys("dot11") = {}
  BY DEF MustKeys, SeldomKeyed
<1>10. MustKeys("pppoe") = {"session_id"}
  <2>1. PppoeDecl.identity = {PppoeIdentity} /\ PppoeIdentity.key = <<Shared("session_id")>>
    BY DEF PppoeDecl, Declares, PppoeIdentity, Identity
  <2>2. MustKeys("pppoe") = Parts(Shared("session_id"))
    BY <2>1, LinkDecls, OneKey DEF SeldomKeyed
  <2>. QED
    BY <2>2, PartsOf
<1>11. MustKeys("ppp") = {}
  BY LinkDecls, NoKey DEF PppDecl, Declares
<1>12. MustKeys("mpls") = {"label"}
  <2>1. MplsDecl.identity = {MplsIdentity} /\ MplsIdentity.key = <<Shared("label")>>
    BY DEF MplsDecl, Declares, MplsIdentity, Identity
  <2>2. MustKeys("mpls") = Parts(Shared("label"))
    BY <2>1, LinkDecls, OneKey DEF SeldomKeyed
  <2>. QED
    BY <2>2, PartsOf
<1>. QED
  BY <1>1, <1>2, <1>3, <1>4, <1>5, <1>6, <1>7, <1>8, <1>9, <1>10, <1>11, <1>12

\* The keys that the plugins of tunnels owe.
LEMMA TunnelKeys ==
         /\ MustKeys("gre") = {"key"}
         /\ MustKeys("erspan") = {"session_id"}
         /\ MustKeys("vxlan") = {"vni"}
         /\ MustKeys("geneve") = {"vni"}
         /\ MustKeys("ah") = {"spi"}
         /\ MustKeys("gtp_u") = {"teid"}
         /\ MustKeys("gtp_c") = {"teid"}
         /\ MustKeys("wireguard") = {"app"}
         /\ MustKeys("l2tpv3") = {}
         /\ MustKeys("quic") = {}
<1>1. MustKeys("gre") = {"key"}
  <2>1. GreDecl.identity = {GreIdentity} /\ GreIdentity.key = <<Shared("key")>>
    BY DEF GreDecl, Declares, GreIdentity, Identity
  <2>2. MustKeys("gre") = Parts(Shared("key"))
    BY <2>1, TunnelDecls, OneKey DEF SeldomKeyed
  <2>. QED
    BY <2>2, PartsOf
<1>2. MustKeys("erspan") = {"session_id"}
  <2>1. ErspanDecl.identity = {ErspanIdentity} /\ ErspanIdentity.key = <<Shared("session_id")>>
    BY DEF ErspanDecl, Declares, ErspanIdentity, Identity
  <2>2. MustKeys("erspan") = Parts(Shared("session_id"))
    BY <2>1, TunnelDecls, OneKey DEF SeldomKeyed
  <2>. QED
    BY <2>2, PartsOf
<1>3. MustKeys("vxlan") = {"vni"}
  <2>1. VxlanDecl.identity = {VxlanIdentity} /\ VxlanIdentity.key = <<Shared("vni")>>
    BY DEF VxlanDecl, Declares, VxlanIdentity, Identity
  <2>2. MustKeys("vxlan") = Parts(Shared("vni"))
    BY <2>1, TunnelDecls, OneKey DEF SeldomKeyed
  <2>. QED
    BY <2>2, PartsOf
<1>4. MustKeys("geneve") = {"vni"}
  <2>1. GeneveDecl.identity = {GeneveIdentity} /\ GeneveIdentity.key = <<Shared("vni")>>
    BY DEF GeneveDecl, Declares, GeneveIdentity, Identity
  <2>2. MustKeys("geneve") = Parts(Shared("vni"))
    BY <2>1, TunnelDecls, OneKey DEF SeldomKeyed
  <2>. QED
    BY <2>2, PartsOf
<1>5. MustKeys("ah") = {"spi"}
  <2>1. AhDecl.identity = {AhIdentity} /\ AhIdentity.key = <<Shared("spi")>>
    BY DEF AhDecl, Declares, AhIdentity, Identity
  <2>2. MustKeys("ah") = Parts(Shared("spi"))
    BY <2>1, TunnelDecls, OneKey DEF SeldomKeyed
  <2>. QED
    BY <2>2, PartsOf
<1>6. MustKeys("gtp_u") = {"teid"}
  <2>1. GtpUDecl.identity = {GtpUIdentity} /\ GtpUIdentity.key = <<Shared("teid")>>
    BY DEF GtpUDecl, Declares, GtpUIdentity, Identity
  <2>2. MustKeys("gtp_u") = Parts(Shared("teid"))
    BY <2>1, TunnelDecls, OneKey DEF SeldomKeyed
  <2>. QED
    BY <2>2, PartsOf
<1>7. MustKeys("gtp_c") = {"teid"}
  <2>1. GtpCDecl.identity = {GtpCIdentity} /\ GtpCIdentity.key = <<Shared("teid")>>
    BY DEF GtpCDecl, Declares, GtpCIdentity, Identity
  <2>2. MustKeys("gtp_c") = Parts(Shared("teid"))
    BY <2>1, TunnelDecls, OneKey DEF SeldomKeyed
  <2>. QED
    BY <2>2, PartsOf
<1>8. MustKeys("wireguard") = {"app"}
  <2>1. WireguardDecl.identity = {WireguardIdentity} /\ WireguardIdentity.key = <<Shared("app")>>
    BY DEF WireguardDecl, Declares, WireguardIdentity, Identity
  <2>2. MustKeys("wireguard") = Parts(Shared("app"))
    BY <2>1, TunnelDecls, OneKey DEF SeldomKeyed
  <2>. QED
    BY <2>2, PartsOf
<1>9. MustKeys("l2tpv3") = {}
  BY DEF MustKeys, SeldomKeyed
<1>10. MustKeys("quic") = {}
  BY DEF MustKeys, SeldomKeyed
<1>. QED
  BY <1>1, <1>2, <1>3, <1>4, <1>5, <1>6, <1>7, <1>8, <1>9, <1>10

\* The keys that the plugins of services owe.
LEMMA ServiceKeys ==
         /\ MustKeys("dns") = {"app"}
         /\ MustKeys("mdns") = {"app"}
         /\ MustKeys("llmnr") = {"app"}
         /\ MustKeys("netbios_ns") = {"app"}
         /\ MustKeys("dhcp") = {"app"}
         /\ MustKeys("dhcpv6") = {"app"}
         /\ MustKeys("ntp") = {"app"}
         /\ MustKeys("ptp") = {"domain"}
         /\ MustKeys("syslog") = {"app"}
         /\ MustKeys("radius") = {"app"}
         /\ MustKeys("snmp") = {"app"}
         /\ MustKeys("kerberos") = {"app"}
         /\ MustKeys("ldap") = {"app"}
<1>1. MustKeys("dns") = {"app"}
  <2>1. DnsDecl.identity = {DnsIdentity} /\ DnsIdentity.key = <<Shared("app")>>
    BY DEF DnsDecl, Declares, DnsIdentity, Identity
  <2>2. MustKeys("dns") = Parts(Shared("app"))
    BY <2>1, ServiceDecls, OneKey DEF SeldomKeyed
  <2>. QED
    BY <2>2, PartsOf
<1>2. MustKeys("mdns") = {"app"}
  <2>1. MdnsDecl.identity = {MdnsIdentity} /\ MdnsIdentity.key = <<Shared("app")>>
    BY DEF MdnsDecl, Declares, MdnsIdentity, Identity
  <2>2. MustKeys("mdns") = Parts(Shared("app"))
    BY <2>1, ServiceDecls, OneKey DEF SeldomKeyed
  <2>. QED
    BY <2>2, PartsOf
<1>3. MustKeys("llmnr") = {"app"}
  <2>1. LlmnrDecl.identity = {LlmnrIdentity} /\ LlmnrIdentity.key = <<Shared("app")>>
    BY DEF LlmnrDecl, Declares, LlmnrIdentity, Identity
  <2>2. MustKeys("llmnr") = Parts(Shared("app"))
    BY <2>1, ServiceDecls, OneKey DEF SeldomKeyed
  <2>. QED
    BY <2>2, PartsOf
<1>4. MustKeys("netbios_ns") = {"app"}
  <2>1. NetbiosNsDecl.identity = {NetbiosNsIdentity} /\ NetbiosNsIdentity.key = <<Shared("app")>>
    BY DEF NetbiosNsDecl, Declares, NetbiosNsIdentity, Identity
  <2>2. MustKeys("netbios_ns") = Parts(Shared("app"))
    BY <2>1, ServiceDecls, OneKey DEF SeldomKeyed
  <2>. QED
    BY <2>2, PartsOf
<1>5. MustKeys("dhcp") = {"app"}
  <2>1. DhcpDecl.identity = {DhcpIdentity} /\ DhcpIdentity.key = <<Shared("app")>>
    BY DEF DhcpDecl, Declares, DhcpIdentity, Identity
  <2>2. MustKeys("dhcp") = Parts(Shared("app"))
    BY <2>1, ServiceDecls, OneKey DEF SeldomKeyed
  <2>. QED
    BY <2>2, PartsOf
<1>6. MustKeys("dhcpv6") = {"app"}
  <2>1. Dhcpv6Decl.identity = {Dhcpv6Identity} /\ Dhcpv6Identity.key = <<Shared("app")>>
    BY DEF Dhcpv6Decl, Declares, Dhcpv6Identity, Identity
  <2>2. MustKeys("dhcpv6") = Parts(Shared("app"))
    BY <2>1, ServiceDecls, OneKey DEF SeldomKeyed
  <2>. QED
    BY <2>2, PartsOf
<1>7. MustKeys("ntp") = {"app"}
  <2>1. NtpDecl.identity = {NtpIdentity} /\ NtpIdentity.key = <<Shared("app")>>
    BY DEF NtpDecl, Declares, NtpIdentity, Identity
  <2>2. MustKeys("ntp") = Parts(Shared("app"))
    BY <2>1, ServiceDecls, OneKey DEF SeldomKeyed
  <2>. QED
    BY <2>2, PartsOf
<1>8. MustKeys("ptp") = {"domain"}
  <2>1. PtpDecl.identity = {PtpIdentity} /\ PtpIdentity.key = <<Shared("domain")>>
    BY DEF PtpDecl, Declares, PtpIdentity, Identity
  <2>2. MustKeys("ptp") = Parts(Shared("domain"))
    BY <2>1, ServiceDecls, OneKey DEF SeldomKeyed
  <2>. QED
    BY <2>2, PartsOf
<1>9. MustKeys("syslog") = {"app"}
  <2>1. SyslogDecl.identity = {SyslogIdentity} /\ SyslogIdentity.key = <<Shared("app")>>
    BY DEF SyslogDecl, Declares, SyslogIdentity, Identity
  <2>2. MustKeys("syslog") = Parts(Shared("app"))
    BY <2>1, ServiceDecls, OneKey DEF SeldomKeyed
  <2>. QED
    BY <2>2, PartsOf
<1>10. MustKeys("radius") = {"app"}
  <2>1. RadiusDecl.identity = {RadiusIdentity} /\ RadiusIdentity.key = <<Shared("app")>>
    BY DEF RadiusDecl, Declares, RadiusIdentity, Identity
  <2>2. MustKeys("radius") = Parts(Shared("app"))
    BY <2>1, ServiceDecls, OneKey DEF SeldomKeyed
  <2>. QED
    BY <2>2, PartsOf
<1>11. MustKeys("snmp") = {"app"}
  <2>1. SnmpDecl.identity = {SnmpIdentity} /\ SnmpIdentity.key = <<Shared("app")>>
    BY DEF SnmpDecl, Declares, SnmpIdentity, Identity
  <2>2. MustKeys("snmp") = Parts(Shared("app"))
    BY <2>1, ServiceDecls, OneKey DEF SeldomKeyed
  <2>. QED
    BY <2>2, PartsOf
<1>12. MustKeys("kerberos") = {"app"}
  <2>1. KerberosDecl.identity = {KerberosIdentity} /\ KerberosIdentity.key = <<Shared("app")>>
    BY DEF KerberosDecl, Declares, KerberosIdentity, Identity
  <2>2. MustKeys("kerberos") = Parts(Shared("app"))
    BY <2>1, ServiceDecls, OneKey DEF SeldomKeyed
  <2>. QED
    BY <2>2, PartsOf
<1>13. MustKeys("ldap") = {"app"}
  <2>1. LdapDecl.identity = {LdapIdentity} /\ LdapIdentity.key = <<Shared("app")>>
    BY DEF LdapDecl, Declares, LdapIdentity, Identity
  <2>2. MustKeys("ldap") = Parts(Shared("app"))
    BY <2>1, ServiceDecls, OneKey DEF SeldomKeyed
  <2>. QED
    BY <2>2, PartsOf
<1>. QED
  BY <1>1, <1>2, <1>3, <1>4, <1>5, <1>6, <1>7, <1>8, <1>9, <1>10, <1>11, <1>12, <1>13

\* The keys that the plugins of control networks owe.
LEMMA IndustrialKeys ==
         /\ MustKeys("rocev2") = {"dest_qp"}
         /\ MustKeys("modbus") = {"unit_id"}
         /\ MustKeys("mqtt") = {"app"}
         /\ MustKeys("dnp3") = {"source", "destination"}
         /\ MustKeys("enip") = {"session_handle"}
         /\ MustKeys("bacnet_ip") = {"app"}
<1>1. MustKeys("rocev2") = {"dest_qp"}
  <2>1. Rocev2Decl.identity = {Rocev2Identity} /\ Rocev2Identity.key = <<Shared("dest_qp")>>
    BY DEF Rocev2Decl, Declares, Rocev2Identity, Identity
  <2>2. MustKeys("rocev2") = Parts(Shared("dest_qp"))
    BY <2>1, IndustrialDecls, OneKey DEF SeldomKeyed
  <2>. QED
    BY <2>2, PartsOf
<1>2. MustKeys("modbus") = {"unit_id"}
  <2>1. ModbusDecl.identity = {ModbusIdentity} /\ ModbusIdentity.key = <<Shared("unit_id")>>
    BY DEF ModbusDecl, Declares, ModbusIdentity, Identity
  <2>2. MustKeys("modbus") = Parts(Shared("unit_id"))
    BY <2>1, IndustrialDecls, OneKey DEF SeldomKeyed
  <2>. QED
    BY <2>2, PartsOf
<1>3. MustKeys("mqtt") = {"app"}
  <2>1. MqttDecl.identity = {MqttIdentity} /\ MqttIdentity.key = <<Shared("app")>>
    BY DEF MqttDecl, Declares, MqttIdentity, Identity
  <2>2. MustKeys("mqtt") = Parts(Shared("app"))
    BY <2>1, IndustrialDecls, OneKey DEF SeldomKeyed
  <2>. QED
    BY <2>2, PartsOf
<1>4. MustKeys("dnp3") = {"source", "destination"}
  <2>1. Dnp3Decl.identity = {Dnp3Identity} /\ Dnp3Identity.key = <<Pair("source", "destination")>>
    BY DEF Dnp3Decl, Declares, Dnp3Identity, Identity
  <2>2. MustKeys("dnp3") = Parts(Pair("source", "destination"))
    BY <2>1, IndustrialDecls, OneKey DEF SeldomKeyed
  <2>. QED
    BY <2>2, PartsOf
<1>5. MustKeys("enip") = {"session_handle"}
  <2>1. EnipDecl.identity = {EnipIdentity} /\ EnipIdentity.key = <<Shared("session_handle")>>
    BY DEF EnipDecl, Declares, EnipIdentity, Identity
  <2>2. MustKeys("enip") = Parts(Shared("session_handle"))
    BY <2>1, IndustrialDecls, OneKey DEF SeldomKeyed
  <2>. QED
    BY <2>2, PartsOf
<1>6. MustKeys("bacnet_ip") = {"app"}
  <2>1. BacnetIpDecl.identity = {BacnetIpIdentity} /\ BacnetIpIdentity.key = <<Shared("app")>>
    BY DEF BacnetIpDecl, Declares, BacnetIpIdentity, Identity
  <2>2. MustKeys("bacnet_ip") = Parts(Shared("app"))
    BY <2>1, IndustrialDecls, OneKey DEF SeldomKeyed
  <2>. QED
    BY <2>2, PartsOf
<1>. QED
  BY <1>1, <1>2, <1>3, <1>4, <1>5, <1>6

\* The keys that the plugins of text protocols owe.
LEMMA TextKeys ==
         /\ MustKeys("ssdp") = {"app"}
         /\ MustKeys("http") = {"app"}
         /\ MustKeys("sip") = {"call_id"}
         /\ MustKeys("http2") = {"stream_id"}
         /\ MustKeys("websocket") = {"app"}
         /\ MustKeys("ftp") = {"app"}
         /\ MustKeys("smtp") = {"app"}
         /\ MustKeys("imap") = {"app"}
         /\ MustKeys("pop3") = {"app"}
         /\ MustKeys("redis") = {"app"}
<1>1. MustKeys("ssdp") = {"app"}
  <2>1. SsdpDecl.identity = {SsdpIdentity} /\ SsdpIdentity.key = <<Shared("app")>>
    BY DEF SsdpDecl, Declares, SsdpIdentity, Identity
  <2>2. MustKeys("ssdp") = Parts(Shared("app"))
    BY <2>1, TextDecls, OneKey DEF SeldomKeyed
  <2>. QED
    BY <2>2, PartsOf
<1>2. MustKeys("http") = {"app"}
  <2>1. HttpDecl.identity = {HttpIdentity} /\ HttpIdentity.key = <<Shared("app")>>
    BY DEF HttpDecl, Declares, HttpIdentity, Identity
  <2>2. MustKeys("http") = Parts(Shared("app"))
    BY <2>1, TextDecls, OneKey DEF SeldomKeyed
  <2>. QED
    BY <2>2, PartsOf
<1>3. MustKeys("sip") = {"call_id"}
  <2>1. SipDecl.identity = {SipIdentity} /\ SipIdentity.key = <<Shared("call_id")>>
    BY DEF SipDecl, Declares, SipIdentity, Identity
  <2>2. MustKeys("sip") = Parts(Shared("call_id"))
    BY <2>1, TextDecls, OneKey DEF SeldomKeyed
  <2>. QED
    BY <2>2, PartsOf
<1>4. MustKeys("http2") = {"stream_id"}
  <2>1. Http2Decl.identity = {Http2Identity} /\ Http2Identity.key = <<Shared("stream_id")>>
    BY DEF Http2Decl, Declares, Http2Identity, Identity
  <2>2. MustKeys("http2") = Parts(Shared("stream_id"))
    BY <2>1, TextDecls, OneKey DEF SeldomKeyed
  <2>. QED
    BY <2>2, PartsOf
<1>5. MustKeys("websocket") = {"app"}
  <2>1. WebSocketDecl.identity = {WebSocketIdentity} /\ WebSocketIdentity.key = <<Shared("app")>>
    BY DEF WebSocketDecl, Declares, WebSocketIdentity, Identity
  <2>2. MustKeys("websocket") = Parts(Shared("app"))
    BY <2>1, TextDecls, OneKey DEF SeldomKeyed
  <2>. QED
    BY <2>2, PartsOf
<1>6. MustKeys("ftp") = {"app"}
  <2>1. FtpDecl.identity = {FtpIdentity} /\ FtpIdentity.key = <<Shared("app")>>
    BY DEF FtpDecl, Declares, FtpIdentity, Identity
  <2>2. MustKeys("ftp") = Parts(Shared("app"))
    BY <2>1, TextDecls, OneKey DEF SeldomKeyed
  <2>. QED
    BY <2>2, PartsOf
<1>7. MustKeys("smtp") = {"app"}
  <2>1. SmtpDecl.identity = {SmtpIdentity} /\ SmtpIdentity.key = <<Shared("app")>>
    BY DEF SmtpDecl, Declares, SmtpIdentity, Identity
  <2>2. MustKeys("smtp") = Parts(Shared("app"))
    BY <2>1, TextDecls, OneKey DEF SeldomKeyed
  <2>. QED
    BY <2>2, PartsOf
<1>8. MustKeys("imap") = {"app"}
  <2>1. ImapDecl.identity = {ImapIdentity} /\ ImapIdentity.key = <<Shared("app")>>
    BY DEF ImapDecl, Declares, ImapIdentity, Identity
  <2>2. MustKeys("imap") = Parts(Shared("app"))
    BY <2>1, TextDecls, OneKey DEF SeldomKeyed
  <2>. QED
    BY <2>2, PartsOf
<1>9. MustKeys("pop3") = {"app"}
  <2>1. Pop3Decl.identity = {Pop3Identity} /\ Pop3Identity.key = <<Shared("app")>>
    BY DEF Pop3Decl, Declares, Pop3Identity, Identity
  <2>2. MustKeys("pop3") = Parts(Shared("app"))
    BY <2>1, TextDecls, OneKey DEF SeldomKeyed
  <2>. QED
    BY <2>2, PartsOf
<1>10. MustKeys("redis") = {"app"}
  <2>1. RedisDecl.identity = {RedisIdentity} /\ RedisIdentity.key = <<Shared("app")>>
    BY DEF RedisDecl, Declares, RedisIdentity, Identity
  <2>2. MustKeys("redis") = Parts(Shared("app"))
    BY <2>1, TextDecls, OneKey DEF SeldomKeyed
  <2>. QED
    BY <2>2, PartsOf
<1>. QED
  BY <1>1, <1>2, <1>3, <1>4, <1>5, <1>6, <1>7, <1>8, <1>9, <1>10

\* The keys that the plugins of applications owe.
LEMMA AppKeys ==
         /\ MustKeys("tls") = {"app"}
         /\ MustKeys("ssh") = {"app"}
         /\ MustKeys("stun") = {"app"}
         /\ MustKeys("tftp") = {}
         /\ MustKeys("smb2") = {"session_id"}
         /\ MustKeys("nfs") = {"app"}
         /\ MustKeys("rtp") = {"ssrc"}
         /\ MustKeys("rtcp") = {"ssrc"}
         /\ MustKeys("amqp") = {"app"}
         /\ MustKeys("netflow9") = {"app"}
         /\ MustKeys("ipfix") = {"app"}
         /\ MustKeys("bgp") = {"app"}
<1>1. MustKeys("tls") = {"app"}
  <2>1. TlsDecl.identity = {TlsIdentity} /\ TlsIdentity.key = <<Shared("app")>>
    BY DEF TlsDecl, Declares, TlsIdentity, Identity
  <2>2. MustKeys("tls") = Parts(Shared("app"))
    BY <2>1, AppDecls, OneKey DEF SeldomKeyed
  <2>. QED
    BY <2>2, PartsOf
<1>2. MustKeys("ssh") = {"app"}
  <2>1. SshDecl.identity = {SshIdentity} /\ SshIdentity.key = <<Shared("app")>>
    BY DEF SshDecl, Declares, SshIdentity, Identity
  <2>2. MustKeys("ssh") = Parts(Shared("app"))
    BY <2>1, AppDecls, OneKey DEF SeldomKeyed
  <2>. QED
    BY <2>2, PartsOf
<1>3. MustKeys("stun") = {"app"}
  <2>1. StunDecl.identity = {StunIdentity} /\ StunIdentity.key = <<Shared("app")>>
    BY DEF StunDecl, Declares, StunIdentity, Identity
  <2>2. MustKeys("stun") = Parts(Shared("app"))
    BY <2>1, AppDecls, OneKey DEF SeldomKeyed
  <2>. QED
    BY <2>2, PartsOf
<1>4. MustKeys("tftp") = {}
  BY AppDecls, NoKey DEF TftpDecl, Declares
<1>5. MustKeys("smb2") = {"session_id"}
  <2>1. Smb2Decl.identity = {Smb2Identity} /\ Smb2Identity.key = <<Shared("session_id")>>
    BY DEF Smb2Decl, Declares, Smb2Identity, Identity
  <2>2. MustKeys("smb2") = Parts(Shared("session_id"))
    BY <2>1, AppDecls, OneKey DEF SeldomKeyed
  <2>. QED
    BY <2>2, PartsOf
<1>6. MustKeys("nfs") = {"app"}
  <2>1. NfsDecl.identity = {NfsIdentity} /\ NfsIdentity.key = <<Shared("app")>>
    BY DEF NfsDecl, Declares, NfsIdentity, Identity
  <2>2. MustKeys("nfs") = Parts(Shared("app"))
    BY <2>1, AppDecls, OneKey DEF SeldomKeyed
  <2>. QED
    BY <2>2, PartsOf
<1>7. MustKeys("rtp") = {"ssrc"}
  <2>1. RtpDecl.identity = {RtpIdentity} /\ RtpIdentity.key = <<Shared("ssrc")>>
    BY DEF RtpDecl, Declares, RtpIdentity, Identity
  <2>2. MustKeys("rtp") = Parts(Shared("ssrc"))
    BY <2>1, AppDecls, OneKey DEF SeldomKeyed
  <2>. QED
    BY <2>2, PartsOf
<1>8. MustKeys("rtcp") = {"ssrc"}
  <2>1. RtcpDecl.identity = {RtcpIdentity} /\ RtcpIdentity.key = <<Shared("ssrc")>>
    BY DEF RtcpDecl, Declares, RtcpIdentity, Identity
  <2>2. MustKeys("rtcp") = Parts(Shared("ssrc"))
    BY <2>1, AppDecls, OneKey DEF SeldomKeyed
  <2>. QED
    BY <2>2, PartsOf
<1>9. MustKeys("amqp") = {"app"}
  <2>1. AmqpDecl.identity = {AmqpIdentity} /\ AmqpIdentity.key = <<Shared("app")>>
    BY DEF AmqpDecl, Declares, AmqpIdentity, Identity
  <2>2. MustKeys("amqp") = Parts(Shared("app"))
    BY <2>1, AppDecls, OneKey DEF SeldomKeyed
  <2>. QED
    BY <2>2, PartsOf
<1>10. MustKeys("netflow9") = {"app"}
  <2>1. Netflow9Decl.identity = {Netflow9Identity} /\ Netflow9Identity.key = <<Shared("app")>>
    BY DEF Netflow9Decl, Declares, Netflow9Identity, Identity
  <2>2. MustKeys("netflow9") = Parts(Shared("app"))
    BY <2>1, AppDecls, OneKey DEF SeldomKeyed
  <2>. QED
    BY <2>2, PartsOf
<1>11. MustKeys("ipfix") = {"app"}
  <2>1. IpfixDecl.identity = {IpfixIdentity} /\ IpfixIdentity.key = <<Shared("app")>>
    BY DEF IpfixDecl, Declares, IpfixIdentity, Identity
  <2>2. MustKeys("ipfix") = Parts(Shared("app"))
    BY <2>1, AppDecls, OneKey DEF SeldomKeyed
  <2>. QED
    BY <2>2, PartsOf
<1>12. MustKeys("bgp") = {"app"}
  <2>1. BgpDecl.identity = {BgpIdentity} /\ BgpIdentity.key = <<Shared("app")>>
    BY DEF BgpDecl, Declares, BgpIdentity, Identity
  <2>2. MustKeys("bgp") = Parts(Shared("app"))
    BY <2>1, AppDecls, OneKey DEF SeldomKeyed
  <2>. QED
    BY <2>2, PartsOf
<1>. QED
  BY <1>1, <1>2, <1>3, <1>4, <1>5, <1>6, <1>7, <1>8, <1>9, <1>10, <1>11, <1>12

----------------------------------------------------------------------------
(* Every plugin that ships, one by one.                                    *)

NetworkFamily == {"template", "ethernet", "vlan", "arp", "ipv4", "ipv6", "udp", "tcp", "sctp",
  "icmpv4", "icmpv6", "igmp", "vrrp", "hsrp", "ospf", "bfd", "esp", "ndp", "mld"}

SameMessage(c, d) ==
  /\ FieldOf(c, "icmpv6", "type") = FieldOf(d, "icmpv6", "type")
  /\ FieldOf(c, "icmpv6", "rest") = FieldOf(d, "icmpv6", "rest")
  /\ FieldOf(c, "icmpv6", "rest") \subseteq Nat

\* The records of a DNS message.
LEMMA MessageKeeps ==
  ASSUME NEW n \in Nat, NEW h, NEW c, NEW d, NEW prefix \in Nat, NEW limit \in Nat,
         prefix + limit <= n, h.records \in Seq(EntryHeader)
  PROVE  Keeps(ParseMessage(h, prefix, limit, c), ParseMessage(h, prefix, limit, d), n, c,
           {"app"})
<1>. USE NeedKeeps, RefuseKeeps, KeyedKeeps, FreeKeeps, RefusedKeeps, HintsKept
<1>. DEFINE entry(rec) == [Record(rec.name, rec.name + rec.rest) EXCEPT
                             !.short = Malformed, !.bad = rec.name = 0]
            recs == [i \in DOMAIN h.records |-> entry(h.records[i])]
            walk == Walk(recs, 0, 12, limit)
<1>1. \A rec \in EntryHeader : entry(rec) \in ListRecord
  <2>. SUFFICES ASSUME NEW rec \in EntryHeader PROVE entry(rec) \in ListRecord
    OBVIOUS
  <2>1. rec.name \in Nat /\ rec.rest \in Nat
    BY DEF EntryHeader
  <2>2. Record(rec.name, rec.name + rec.rest) \in ListRecord
    BY <2>1, RecordTyped
  <2>3. PICK bad \in BOOLEAN : bad = (rec.name = 0)
    BY Zenon
  <2>. QED
    BY <2>2, <2>3, BadTyped
<1>2. recs \in Seq(ListRecord)
  <2>. HIDE DEF entry
  <2>1. \A i \in DOMAIN h.records : h.records[i] \in EntryHeader
    OBVIOUS
  <2>2. recs = [i \in DOMAIN h.records |-> recs[i]] /\
          \A i \in DOMAIN h.records : recs[i] \in ListRecord
    BY <1>1, <2>1
  <2>. HIDE DEF recs
  <2>. QED
    BY <2>2, ListTyped
<1>. HIDE DEF recs
<1>3. Within(walk, 12, limit)
  BY <1>2, WalkWithin
<1>. HIDE DEF walk
<1>4. ~(limit < 12) => prefix + walk.pos \in Nat /\ ~(n < prefix + walk.pos)
  BY <1>3 DEF Within
<1>5. ParseMessage(h, prefix, limit, c) =
        Need([len |-> limit], 12, Refuse(h.counts > MaxRecordsPerSection,
      IF walk.end THEN walk.result
      ELSE Layer(prefix + walk.pos, AtKeys(c, {"app"}), Terminal)))
  BY DEF ParseMessage, walk, recs
<1>6. ParseMessage(h, prefix, limit, d) =
        Need([len |-> limit], 12, Refuse(h.counts > MaxRecordsPerSection,
      IF walk.end THEN walk.result
      ELSE Layer(prefix + walk.pos, AtKeys(d, {"app"}), Terminal)))
  BY DEF ParseMessage, walk, recs
<1>7. [len |-> limit].len = limit
  OBVIOUS
<1>. QED
  BY <1>3, <1>4, <1>5, <1>6, <1>7, WalkedKeeps

\* The flow sets of an export packet.
LEMMA SetsVerdict ==
  ASSUME NEW sets \in Seq(SetHeader), NEW from \in Nat, NEW limit \in Nat
  PROVE  WalkSets(sets, from, limit) \in Verdicts
<1>. DEFINE flowset(set) == [Record(4, set.size) EXCEPT !.cut = set.cut]
            recs == [i \in DOMAIN sets |-> flowset(sets[i])]
            walk == Walk(recs, 4, from, limit)
<1>1. \A set \in SetHeader : flowset(set) \in ListRecord
  BY DEF SetHeader, Record, ListRecord
<1>2. recs \in Seq(ListRecord)
  <2>. HIDE DEF flowset
  <2>1. \A i \in DOMAIN sets : sets[i] \in SetHeader
    OBVIOUS
  <2>2. recs = [i \in DOMAIN sets |-> recs[i]] /\ \A i \in DOMAIN sets : recs[i] \in ListRecord
    BY <1>1, <2>1
  <2>. HIDE DEF recs
  <2>. QED
    BY <2>2, ListTyped
<1>. HIDE DEF recs
<1>3. Within(walk, from, limit)
  BY <1>2, WalkWithin
<1>. HIDE DEF walk
<1>4. WalkSets(sets, from, limit) = IF walk.end THEN walk.result
    ELSE IF limit - walk.pos >= 4 THEN Malformed ELSE Terminal
  BY DEF WalkSets, walk, recs
<1>. QED
  BY <1>3, <1>4 DEF Within, Verdicts

\* The prefixes of a BGP update.
LEMMA PrefixesVerdict ==
  ASSUME NEW prefixes \in Seq(Nat), NEW from \in Nat, NEW limit \in Int
  PROVE  ParsePrefixList(prefixes, from, limit) \in Verdicts
<1>. DEFINE prefix(m) == [Record(1, 1 + m) EXCEPT !.bad = m > 4]
            recs == [i \in DOMAIN prefixes |-> prefix(prefixes[i])]
            walk == Walk(recs, 1, from, limit)
<1>1. \A m \in Nat : prefix(m) \in ListRecord
  <2>. SUFFICES ASSUME NEW m \in Nat PROVE prefix(m) \in ListRecord
    OBVIOUS
  <2>1. Record(1, 1 + m) \in ListRecord
    BY RecordTyped
  <2>2. \A bad \in BOOLEAN : [Record(1, 1 + m) EXCEPT !.bad = bad] \in ListRecord
    BY <2>1, BadTyped
  <2>3. (m > 4) \in BOOLEAN
    OBVIOUS
  <2>. QED
    BY <2>2, <2>3, Zenon
<1>2. recs \in Seq(ListRecord)
  <2>. HIDE DEF prefix
  <2>1. \A i \in DOMAIN prefixes : prefixes[i] \in Nat
    OBVIOUS
  <2>2. recs = [i \in DOMAIN prefixes |-> recs[i]] /\
          \A i \in DOMAIN prefixes : recs[i] \in ListRecord
    BY <1>1, <2>1
  <2>. HIDE DEF recs
  <2>. QED
    BY <2>2, ListTyped
<1>. HIDE DEF recs
<1>3. Within(walk, from, limit)
  BY <1>2, WalkWithin
<1>. HIDE DEF walk
<1>4. ParsePrefixList(prefixes, from, limit) = ToEnd(walk, limit)
  BY DEF ParsePrefixList, walk, recs
<1>. QED
  BY <1>3, <1>4, EndVerdict

\* ipv6.rs: the extension headers.
LEMMA Ipv6Keeps ==
  ASSUME NEW n \in Nat, NEW h \in NetworkHeader("ipv6", n), NEW c, NEW d
  PROVE  Keeps(Ipv6(h, c), Ipv6(h, d), n, c, {"src_addr", "dst_addr"})
<1>. USE NeedKeeps, RefuseKeeps, KeyedKeeps, FreeKeeps, RefusedKeeps, HintsKept
<1>. DEFINE walked == SubSeq(h.exts, 1,
              IF Len(h.exts) > MaxExtHeaders THEN MaxExtHeaders ELSE Len(h.exts))
           walk == WalkRecords(walked, 2, 40, h.len)
<1>1. h.len = n /\ h.exts \in Seq(Nat)
  BY DEF NetworkHeader
<1>2. walked \in Seq(Nat)
  <2>1. Len(h.exts) \in Nat
    BY <1>1
  <2>2. ASSUME NEW k \in 0..Len(h.exts) PROVE SubSeq(h.exts, 1, k) \in Seq(Nat)
    BY <1>1, <2>1, <2>2
  <2>. QED
    BY <2>1, <2>2 DEF MaxExtHeaders
<1>. HIDE DEF walked
<1>3. Within(walk, 40, n)
  BY <1>1, <1>2, RecordsWithin
<1>. HIDE DEF walk
<1>4. ~(h.len < 40) => walk.pos \in Nat /\ ~(n < walk.pos)
  BY <1>1, <1>3 DEF Within
<1>. QED
  BY <1>1, <1>3, <1>4, WalkedKeeps DEF Ipv6, walk, walked

\* ospf.rs: the link state advertisements.
LEMMA OspfKeeps ==
  ASSUME NEW n \in Nat, NEW h \in NetworkHeader("ospf", n), NEW c, NEW d
  PROVE  Keeps(Ospf(h, c), Ospf(h, d), n, c, {})
<1>. USE NeedKeeps, RefuseKeeps, KeyedKeeps, FreeKeeps, RefusedKeeps, HintsKept
<1>. DEFINE body == h.packetLen - 4
            common == IF h.version = 2 THEN 20 ELSE 12
            walk == WalkRecords(h.lsas, 20, common + 4, body)
<1>1. h.len = n /\ h.lsas \in Seq(Nat) /\ h.packetLen \in Nat
  BY DEF NetworkHeader
<1>2. Within(walk, common + 4, body)
  BY <1>1, RecordsWithin
<1>. HIDE DEF walk
<1>3. ASSUME ~(h.packetLen < 4), ~(h.len < h.packetLen)
      PROVE  Keeps(OspfBody(h, body), OspfBody(h, body), n, c, {})
  <2>. DEFINE ok == Layer(4 + body, NoFields, Terminal)
  <2>1. Keeps(ok, ok, n, c, {})
    BY <1>1, <1>3
  <2>. HIDE DEF ok
  <2>. QED
    BY <1>2, <2>1, WalkedKeeps DEF OspfBody, walk, ok
<1>. QED
  BY <1>1, <1>3 DEF Ospf

\* lldp.rs: the TLVs behind the mandatory ones.
LEMMA LldpKeeps ==
  ASSUME NEW n \in Nat, NEW h \in LinkHeader("lldp", n), NEW c, NEW d
  PROVE  Keeps(Lldp(h, c), Lldp(h, d), n, c, {})
<1>. USE NeedKeeps, RefuseKeeps, KeyedKeeps, FreeKeeps, RefusedKeeps, HintsKept
<1>. DEFINE walk == WalkRecords(h.rest, 2, 8 + h.chassis + h.port, h.len)
<1>1. h.len = n /\ h.rest \in Seq(Nat) /\ h.chassis \in Nat /\ h.port \in Nat
  BY DEF LinkHeader
<1>2. Within(walk, 8 + h.chassis + h.port, n)
  BY <1>1, RecordsWithin
<1>. HIDE DEF walk
<1>3. LldpMandatory(h) \in Verdicts
  BY DEF LldpMandatory, Need, Refuse, Verdicts
<1>4. walk.pos + 2 \in Nat
  BY <1>2 DEF Within
<1>. QED
  BY <1>1, <1>2, <1>3, <1>4, PassedKeeps, WalkedKeeps DEF Lldp, walk

\* cdp.rs: the TLVs.
LEMMA CdpKeeps ==
  ASSUME NEW n \in Nat, NEW h \in LinkHeader("cdp", n), NEW c, NEW d
  PROVE  Keeps(Cdp(h, c), Cdp(h, d), n, c, {})
<1>. USE NeedKeeps, RefuseKeeps, KeyedKeeps, FreeKeeps, RefusedKeeps, HintsKept
<1>. DEFINE walk == WalkRecords(h.tlvs, 4, 4, h.len)
<1>1. h.len = n /\ h.tlvs \in Seq(Nat)
  BY DEF LinkHeader
<1>2. Within(walk, 4, n)
  BY <1>1, RecordsWithin
<1>. HIDE DEF walk
<1>3. walk.end => Keeps(walk.result, walk.result, n, c, {})
  BY <1>2 DEF Within
<1>4. ~(h.len < 4) => walk.pos \in Nat /\ ~(n < walk.pos)
  BY <1>1, <1>2 DEF Within
<1>. QED
  BY <1>1, <1>3, <1>4 DEF Cdp, walk

\* pppoe.rs: the tags of discovery.
LEMMA PppoeKeeps ==
  ASSUME NEW n \in Nat, NEW h \in LinkHeader("pppoe", n), NEW c, NEW d
  PROVE  Keeps(Pppoe(h, c), Pppoe(h, d), n, c, {"session_id"})
<1>. USE NeedKeeps, RefuseKeeps, KeyedKeeps, FreeKeeps, RefusedKeeps, HintsKept
<1>1. h.len = n /\ h.length \in Nat
  BY DEF LinkHeader
<1>2. Hints(ByProtocol("ppp"))
  BY DEF Named
<1>. QED
  BY <1>1, <1>2 DEF Pppoe

\* gtp_u.rs: the extension headers.
LEMMA GtpUKeeps ==
  ASSUME NEW n \in Nat, NEW h \in TunnelHeader("gtp_u", n), NEW c, NEW d
  PROVE  Keeps(GtpU(h, c), GtpU(h, d), n, c, {"teid"})
<1>. DEFINE sizes == [i \in DOMAIN h.exts |-> 4 * h.exts[i]]
<1>1. h.len = n /\ h.exts \in Seq(Nat)
  BY DEF TunnelHeader
<1>2. sizes \in Seq(Nat)
  <2>1. \A i \in DOMAIN h.exts : 4 * h.exts[i] \in Nat
    BY <1>1
  <2>. QED
    BY <1>1, <2>1
<1>. HIDE DEF sizes
<1>. USE NeedKeeps, RefuseKeeps, KeyedKeeps, FreeKeeps, RefusedKeeps, HintsKept
<1>3. Within(ExtensionChain(h), 12, n)
  BY <1>1, <1>2, RecordsWithin DEF ExtensionChain, sizes
<1>4. ~(h.len < 12) => ExtensionChain(h).pos \in Nat /\ ~(n < ExtensionChain(h).pos)
  BY <1>1, <1>3 DEF Within
<1>5. Hints(GtpUHint(h))
  BY DEF GtpUHint
<1>. QED
  BY <1>1, <1>3, <1>4, <1>5, WalkedKeeps DEF GtpU

\* dns.rs: the message behind a length prefix on TCP.
LEMMA DnsKeeps ==
  ASSUME NEW n \in Nat, NEW h \in ServiceHeader("dns", n), NEW c, NEW d, Prev(c) = Prev(d)
  PROVE  Keeps(Dns(h, c), Dns(h, d), n, c, {"app"})
<1>. USE NeedKeeps, RefuseKeeps, KeyedKeeps, FreeKeeps, RefusedKeeps, HintsKept
<1>1. h.len = n /\ h.records \in Seq(EntryHeader) /\ h.msgLen \in Nat
  BY DEF ServiceHeader
<1>. QED
  BY MessageKeeps, <1>1 DEF Dns

\* mdns.rs: the message.
LEMMA MdnsKeeps ==
  ASSUME NEW n \in Nat, NEW h \in ServiceHeader("mdns", n), NEW c, NEW d
  PROVE  Keeps(Mdns(h, c), Mdns(h, d), n, c, {"app"})
<1>. USE NeedKeeps, RefuseKeeps, KeyedKeeps, FreeKeeps, RefusedKeeps, HintsKept
<1>1. h.len = n /\ h.records \in Seq(EntryHeader)
  BY DEF ServiceHeader
<1>. QED
  BY MessageKeeps, <1>1 DEF Mdns

\* dhcp.rs: the options.
LEMMA DhcpKeeps ==
  ASSUME NEW n \in Nat, NEW h \in ServiceHeader("dhcp", n), NEW c, NEW d
  PROVE  Keeps(Dhcp(h, c), Dhcp(h, d), n, c, {"app"})
<1>. USE NeedKeeps, RefuseKeeps, KeyedKeeps, FreeKeeps, RefusedKeeps, HintsKept
<1>. DEFINE walk == WalkRecords(h.opts, 1, 240, h.len)
<1>1. h.len = n /\ h.opts \in Seq(Nat)
  BY DEF ServiceHeader
<1>2. Within(walk, 240, n)
  BY <1>1, RecordsWithin
<1>. HIDE DEF walk
<1>3. walk.pos + 1 \in Nat
  BY <1>2 DEF Within
<1>. QED
  BY <1>1, <1>2, <1>3, WalkedKeeps DEF Dhcp, walk

\* dhcpv6.rs: the options.
LEMMA Dhcpv6Keeps ==
  ASSUME NEW n \in Nat, NEW h \in ServiceHeader("dhcpv6", n), NEW c, NEW d
  PROVE  Keeps(Dhcpv6(h, c), Dhcpv6(h, d), n, c, {"app"})
<1>. USE NeedKeeps, RefuseKeeps, KeyedKeeps, FreeKeeps, RefusedKeeps, HintsKept
<1>. DEFINE walk == WalkToEnd(h.opts, 4, 4, h.len)
<1>1. h.len = n /\ h.opts \in Seq(Nat)
  BY DEF ServiceHeader
<1>2. walk \in Verdicts
  BY <1>1, ToEndVerdict
<1>. HIDE DEF walk
<1>3. FirstIaAddress(h.ia) \in Verdicts /\ Terminal \in Verdicts
  BY DEF FirstIaAddress, Verdicts
<1>. QED
  BY <1>1, <1>2, <1>3, PassedKeeps DEF Dhcpv6, walk

\* radius.rs: the attributes.
LEMMA RadiusKeeps ==
  ASSUME NEW n \in Nat, NEW h \in ServiceHeader("radius", n), NEW c, NEW d
  PROVE  Keeps(Radius(h, c), Radius(h, d), n, c, {"app"})
<1>. USE NeedKeeps, RefuseKeeps, KeyedKeeps, FreeKeeps, RefusedKeeps, HintsKept
<1>1. h.len = n /\ h.length \in Nat
  BY DEF ServiceHeader
<1>. QED
  BY <1>1 DEF Radius

\* netflow9.rs: the flow sets.
LEMMA Netflow9Keeps ==
  ASSUME NEW n \in Nat, NEW h \in AppHeader("netflow9", n), NEW c, NEW d
  PROVE  Keeps(Netflow9(h, c), Netflow9(h, d), n, c, {"app"})
<1>. USE NeedKeeps, RefuseKeeps, KeyedKeeps, FreeKeeps, RefusedKeeps, HintsKept
<1>1. h.len = n /\ h.sets \in Seq(SetHeader)
  BY DEF AppHeader
<1>2. WalkSets(h.sets, 20, h.len) \in Verdicts
  BY SetsVerdict, <1>1
<1>. QED
  BY <1>1, <1>2, PassedKeeps DEF Netflow9

\* ipfix.rs: the sets.
LEMMA IpfixKeeps ==
  ASSUME NEW n \in Nat, NEW h \in AppHeader("ipfix", n), NEW c, NEW d
  PROVE  Keeps(Ipfix(h, c), Ipfix(h, d), n, c, {"app"})
<1>. USE NeedKeeps, RefuseKeeps, KeyedKeeps, FreeKeeps, RefusedKeeps, HintsKept
<1>1. h.len = n /\ h.sets \in Seq(SetHeader) /\ h.length \in Nat
  BY DEF AppHeader
<1>2. WalkSets(h.sets, 16, h.length) \in Verdicts
  BY SetsVerdict, <1>1
<1>. QED
  BY <1>1, <1>2, PassedKeeps DEF Ipfix

\* bgp.rs: the attributes and prefixes of an update.
LEMMA BgpKeeps ==
  ASSUME NEW n \in Nat, NEW h \in AppHeader("bgp", n), NEW c, NEW d
  PROVE  Keeps(Bgp(h, c), Bgp(h, d), n, c, {"app"})
<1>. USE NeedKeeps, RefuseKeeps, KeyedKeeps, FreeKeeps, RefusedKeeps, HintsKept
<1>. DEFINE body == h.length - 19
            okc == Layer(h.length, AtKeys(c, {"app"}), Terminal)
            okd == Layer(h.length, AtKeys(d, {"app"}), Terminal)
            attrs == 4 + h.withdrawnLen
            nlri == attrs + h.attrLen
<1>1. h.len = n /\ h.length \in Nat
  BY DEF AppHeader
<1>2. h.withdrawnLen \in Nat /\ h.attrLen \in Nat
  BY DEF AppHeader
<1>3. h.withdrawn \in Seq(Nat) /\ h.attrs \in Seq(Nat) /\ h.prefixes \in Seq(Nat)
  BY DEF AppHeader
<1>4. ParsePrefixList(h.withdrawn, 2, 2 + h.withdrawnLen) \in Verdicts
  BY PrefixesVerdict, <1>2, <1>3
<1>5. ParsePrefixList(h.prefixes, nlri, body) \in Verdicts
  BY PrefixesVerdict, <1>1, <1>2, <1>3
<1>6. WalkToEnd(h.attrs, 3, attrs, nlri) \in Verdicts
  BY <1>2, <1>3, ToEndVerdict
<1>7. ASSUME ~(h.len < h.length) PROVE Keeps(okc, okd, n, c, {"app"})
  BY <1>1, <1>7
<1>. HIDE DEF okc, okd
<1>8. ASSUME ~(h.len < h.length)
      PROVE Keeps(BgpUpdate(h, body, okc), BgpUpdate(h, body, okd), n, c, {"app"})
  BY <1>4, <1>5, <1>6, <1>7, <1>8, PassedKeeps DEF BgpUpdate
<1>. QED
  BY <1>7, <1>8 DEF Bgp, okc, okd

\* ethernet.rs: the EtherType or the length.
LEMMA EthernetKeeps ==
  ASSUME NEW n \in Nat, NEW h \in NetworkHeader("ethernet", n), NEW c, NEW d
  PROVE  Keeps(Ethernet(h, c), Ethernet(h, d), n, c, {"src_mac", "dst_mac"})
<1>. USE NeedKeeps, RefuseKeeps, KeyedKeeps, FreeKeeps, RefusedKeeps, HintsKept
<1>1. h.len = n
  BY DEF NetworkHeader
<1>2. ASSUME NEW F, NEW G, c.depth >= DepthKeys => F = [src_mac |-> 0, dst_mac |-> h.dst],
             ~(n < 14), NEW hint, Hints(hint)
      PROVE  Keeps(Layer(14, F, hint), Layer(14, G, hint), n, c, {"src_mac", "dst_mac"})
  BY <1>2 DEF Keeps, Alike, Layer, Hints
<1>. QED
  BY <1>1, <1>2 DEF Ethernet

\* snmp.rs: the elements.
LEMMA SnmpKeeps ==
  ASSUME NEW n \in Nat, NEW h \in ServiceHeader("snmp", n), NEW c, NEW d
  PROVE  Keeps(Snmp(h, c), Snmp(h, d), n, c, {"app"})
<1>. USE NeedKeeps, RefuseKeeps, KeyedKeeps, FreeKeeps, RefusedKeeps, HintsKept
<1>. DEFINE okc == Layer(TlvEnd(0, h.msg), AtKeys(c, {"app"}), Terminal)
            okd == Layer(TlvEnd(0, h.msg), AtKeys(d, {"app"}), Terminal)
<1>1. h.len = n /\ h.msg \in TlvHeader
  BY DEF ServiceHeader
<1>2. TlvEnd(0, h.msg) \in Nat
  BY <1>1 DEF TlvEnd, TlvHeader
<1>3. ~(h.len < TlvEnd(0, h.msg)) => Keeps(okc, okd, n, c, {"app"})
  BY <1>1, <1>2
<1>. HIDE DEF okc, okd
<1>. QED
  BY <1>3 DEF Snmp, ReadTlv, BerLength, okc, okd

\* redis.rs: the value.
LEMMA RedisKeeps ==
  ASSUME NEW n \in Nat, NEW h \in TextHeader("redis", n), NEW c, NEW d
  PROVE  Keeps(Redis(h, c), Redis(h, d), n, c, {"app"})
<1>. USE NeedKeeps, RefuseKeeps, KeyedKeeps, FreeKeeps, RefusedKeeps, HintsKept
<1>1. h.len = n /\ h.line \in Nat /\ h.bulk \in Int /\ h.element \in Nat
  BY DEF TextHeader
<1>2. Keeps(ParseBulkString(h, c), ParseBulkString(h, d), n, c, {"app"})
  BY <1>1 DEF ParseBulkString, UpTo
<1>3. ASSUME NEW end \in Nat, ~(n < end)
      PROVE  Keeps(Layer(end, AtKeys(c, {"app"}), Terminal),
               Layer(end, AtKeys(d, {"app"}), Terminal), n, c, {"app"})
  BY <1>3
<1>. QED
  BY <1>1, <1>2, <1>3 DEF Redis, UpTo

\* ndp.rs: the options, behind the message that icmpv6 left.
LEMMA NdpKeeps ==
  ASSUME NEW n \in Nat, NEW h \in NetworkHeader("ndp", n), NEW c, NEW d,
         FieldOf(c, "icmpv6", "type") = FieldOf(d, "icmpv6", "type")
  PROVE  Keeps(Ndp(h, c), Ndp(h, d), n, c, {})
<1>. USE NeedKeeps, RefuseKeeps, KeyedKeeps, FreeKeeps, RefusedKeeps, HintsKept
<1>1. h.len = n /\ h.opts \in Seq(Nat)
  BY DEF NetworkHeader
<1>2. PICK T : T = FieldOf(c, "icmpv6", "type")
  OBVIOUS
<1>3. ASSUME NEW fixed \in Nat, ~(h.len < fixed)
      PROVE Keeps(NdpWalk(h, fixed), NdpWalk(h, fixed), n, c, {})
  <2>. DEFINE recs == [i \in DOMAIN h.opts |-> Record(2, 8 * h.opts[i])]
              walk == Walk(recs, 2, fixed, h.len)
  <2>1. recs \in Seq(ListRecord)
    <3>1. \A i \in DOMAIN h.opts : 8 * h.opts[i] \in Nat
      BY <1>1
    <3>2. recs = [i \in DOMAIN h.opts |-> recs[i]] /\
            \A i \in DOMAIN h.opts : recs[i] \in ListRecord
      BY <3>1, RecordTyped
    <3>. HIDE DEF recs
    <3>. QED
      BY <1>1, <3>2, ListTyped
  <2>. HIDE DEF recs
  <2>2. Within(walk, fixed, n)
    BY <1>1, <2>1, WalkWithin
  <2>. HIDE DEF walk
  <2>3. walk.pos \in Nat /\ ~(n < walk.pos)
    BY <1>1, <1>3, <2>2 DEF Within
  <2>. QED
    BY <2>2, <2>3, WalkedKeeps DEF NdpWalk, walk, recs
<1>4. NdpFixed(Only(T)) \in Nat
  BY DEF NdpFixed
<1>5. Keeps(Layer(h.len, NoFields, Terminal), Layer(h.len, NoFields, Terminal), n, c, {})
  BY <1>1
<1>6. ASSUME NEW fixed \in Nat
      PROVE Keeps(Need(h, fixed, NdpWalk(h, fixed)), Need(h, fixed, NdpWalk(h, fixed)), n, c, {})
  BY <1>3
<1>7. ASSUME NEW x, FieldOf(x, "icmpv6", "type") = T
      PROVE  Ndp(h, x) = IF T = {} THEN Layer(h.len, NoFields, Terminal)
         ELSE Need(h, NdpFixed(Only(T)), NdpWalk(h, NdpFixed(Only(T))))
  BY <1>7 DEF Ndp
<1>8. Ndp(h, d) = Ndp(h, c)
  BY <1>2, <1>7
<1>. QED
  BY <1>2, <1>4, <1>5, <1>6, <1>7, <1>8

\* mld.rs: the records, behind the message that icmpv6 left.
LEMMA MldKeeps ==
  ASSUME NEW n \in Nat, NEW h \in NetworkHeader("mld", n), NEW c, NEW d,
         FieldOf(c, "icmpv6", "type") = FieldOf(d, "icmpv6", "type"),
         FieldOf(c, "icmpv6", "rest") = FieldOf(d, "icmpv6", "rest"),
         FieldOf(c, "icmpv6", "rest") \subseteq Nat
  PROVE  Keeps(Mld(h, c), Mld(h, d), n, c, {})
<1>. USE NeedKeeps, RefuseKeeps, KeyedKeeps, FreeKeeps, RefusedKeeps, HintsKept
<1>1. h.len = n /\ h.sources \in Nat /\ h.aux \in Nat
  BY DEF NetworkHeader
<1>2. Mld(h, c) = Mld(h, d)
  <2>1. PICK R : R = FieldOf(c, "icmpv6", "rest") /\ R = FieldOf(d, "icmpv6", "rest")
    OBVIOUS
  <2>2. MldReport(h, c) = MldReport(h, d)
    BY <2>1 DEF MldReport
  <2>3. PICK T : T = FieldOf(c, "icmpv6", "type") /\ T = FieldOf(d, "icmpv6", "type")
    OBVIOUS
  <2>. QED
    BY <2>2, <2>3 DEF Mld
<1>3. Keeps(Layer(h.len, NoFields, Terminal), Layer(h.len, NoFields, Terminal), n, c, {})
  BY <1>1
<1>4. ASSUME NEW end \in Nat
      PROVE  Keeps(Need(h, end, Layer(end, NoFields, Terminal)),
               Need(h, end, Layer(end, NoFields, Terminal)), n, c, {})
  BY <1>1
<1>5. Keeps(MldReport(h, c), MldReport(h, c), n, c, {})
  <2>. DEFINE records == FieldOf(c, "icmpv6", "rest")
              m == Only(records)
              size == 20 + 16 * h.sources + 4 * h.aux
  <2>1. records # {} => m \in Nat
    BY DEF Only
  <2>2. size \in Nat
    BY <1>1
  <2>. HIDE DEF m, records, size
  <2>3. records # {} => m * size \in Nat
    BY <2>1, <2>2
  <2>4. MldReport(h, c) = IF records = {} THEN Layer(h.len, NoFields, Terminal)
                          ELSE Need(h, m * size, Layer(m * size, NoFields, Terminal))
    BY DEF MldReport, m, records, size
  <2>. QED
    BY <1>3, <1>4, <2>3, <2>4
<1>6. 20 + 16 * h.sources \in Nat
  BY <1>1
<1>. QED
  BY <1>2, <1>3, <1>4, <1>5, <1>6 DEF Mld

\* llmnr.rs: the message.
LEMMA LlmnrKeeps ==
  ASSUME NEW n \in Nat, NEW h \in ServiceHeader("llmnr", n), NEW c, NEW d
  PROVE  Keeps(Llmnr(h, c), Llmnr(h, d), n, c, {"app"})
<1>. USE NeedKeeps, RefuseKeeps, KeyedKeeps, FreeKeeps, RefusedKeeps, HintsKept
<1>1. h.len = n /\ h.records \in Seq(EntryHeader)
  BY DEF ServiceHeader
<1>. QED
  BY MessageKeeps, <1>1 DEF Llmnr

\* The plugins of the network layer keep their contract.
LEMMA NetworkKeep ==
  ASSUME NEW n \in Nat, NEW p \in NetworkFamily, NEW h \in NetworkHeader(p, n),
         NEW c, NEW d, Prev(c) = Prev(d),
         p \in Untyped => SameMessage(c, d)
  PROVE  Keeps(DefaultParse(p, h, c), DefaultParse(p, h, d), n, c, MustKeys(p))
<1>. USE NeedKeeps, RefuseKeeps, KeyedKeeps, FreeKeeps, RefusedKeeps, HintsKept
<1>1. ASSUME p = "template" PROVE Keeps(Template(h, c), Template(h, d), n, c, {"src", "dst"})
  BY <1>1 DEF NetworkHeader, Template, Named
<1>2. ASSUME p = "ethernet"
      PROVE Keeps(Ethernet(h, c), Ethernet(h, d), n, c, {"src_mac", "dst_mac"})
  BY <1>2, EthernetKeeps
<1>3. ASSUME p = "vlan" PROVE Keeps(Vlan(h, c), Vlan(h, d), n, c, {})
  BY <1>3 DEF NetworkHeader, Vlan, Named
<1>4. ASSUME p = "arp" PROVE Keeps(Arp(h, c), Arp(h, d), n, c, {})
  BY <1>4 DEF NetworkHeader, Arp, Named
<1>5. ASSUME p = "ipv4" PROVE Keeps(Ipv4(h, c), Ipv4(h, d), n, c, {"src_addr", "dst_addr"})
  BY <1>5 DEF NetworkHeader, Ipv4, Named
<1>6. ASSUME p = "ipv6" PROVE Keeps(Ipv6(h, c), Ipv6(h, d), n, c, {"src_addr", "dst_addr"})
  BY <1>6, Ipv6Keeps
<1>7. ASSUME p = "udp" PROVE Keeps(Udp(h, c), Udp(h, d), n, c, {"src_port", "dst_port"})
  BY <1>7 DEF NetworkHeader, Udp, Named
<1>8. ASSUME p = "tcp" PROVE Keeps(Tcp(h, c), Tcp(h, d), n, c, {"src_port", "dst_port"})
  BY <1>8 DEF NetworkHeader, Tcp, Named
<1>9. ASSUME p = "sctp" PROVE Keeps(Sctp(h, c), Sctp(h, d), n, c, {"src_port", "dst_port"})
  BY <1>9 DEF NetworkHeader, Sctp, Named
<1>10. ASSUME p = "icmpv4" PROVE Keeps(Icmpv4(h, c), Icmpv4(h, d), n, c, {})
  BY <1>10 DEF NetworkHeader, Icmpv4, Named
<1>11. ASSUME p = "icmpv6" PROVE Keeps(Icmpv6(h, c), Icmpv6(h, d), n, c, {})
  BY <1>11 DEF NetworkHeader, Icmpv6, Named
<1>12. ASSUME p = "igmp" PROVE Keeps(Igmp(h, c), Igmp(h, d), n, c, {})
  BY <1>12 DEF NetworkHeader, Igmp, Named
<1>13. ASSUME p = "vrrp" PROVE Keeps(Vrrp(h, c), Vrrp(h, d), n, c, {"vrid"})
  BY <1>13 DEF NetworkHeader, Vrrp, AddressLen, Named
<1>14. ASSUME p = "hsrp" PROVE Keeps(Hsrp(h, c), Hsrp(h, d), n, c, {"group"})
  BY <1>14 DEF NetworkHeader, Hsrp, Named
<1>15. ASSUME p = "ospf" PROVE Keeps(Ospf(h, c), Ospf(h, d), n, c, {})
  BY <1>15, OspfKeeps
<1>16. ASSUME p = "bfd" PROVE Keeps(Bfd(h, c), Bfd(h, d), n, c,
                {"my_discriminator", "your_discriminator"})
  BY <1>16 DEF NetworkHeader, Bfd, Named
<1>17. ASSUME p = "esp" PROVE Keeps(Esp(h, c), Esp(h, d), n, c, {"spi"})
  BY <1>17 DEF NetworkHeader, Esp, Named
<1>18. ASSUME p = "ndp" PROVE Keeps(Ndp(h, c), Ndp(h, d), n, c, {})
  BY <1>18, NdpKeeps DEF Untyped, SameMessage
<1>19. ASSUME p = "mld" PROVE Keeps(Mld(h, c), Mld(h, d), n, c, {})
  BY <1>19, MldKeeps DEF Untyped, SameMessage
<1>. HIDE NeedKeeps, RefuseKeeps, KeyedKeeps, FreeKeeps, RefusedKeeps, HintsKept
<1>. QED
  BY <1>1, <1>2, <1>3, <1>4, <1>5, <1>6, <1>7, <1>8, <1>9, <1>10, <1>11, <1>12, <1>13, <1>14,
     <1>15, <1>16, <1>17, <1>18, <1>19, NetworkParse, NetworkKeys, SMTT(30)
     DEF NetworkFamily

\* The plugins of the link layer keep their contract.
LEMMA LinkKeep ==
  ASSUME NEW n \in Nat, NEW p \in LinkFamily, NEW h \in LinkHeader(p, n),
         NEW c, NEW d, Prev(c) = Prev(d)
  PROVE  Keeps(DefaultParse(p, h, c), DefaultParse(p, h, d), n, c, MustKeys(p))
<1>. USE NeedKeeps, RefuseKeeps, KeyedKeeps, FreeKeeps, RefusedKeeps, HintsKept
<1>1. ASSUME p = "llc" PROVE Keeps(Llc(h, c), Llc(h, d), n, c, {})
  BY <1>1 DEF LinkHeader, Llc, Named
<1>2. ASSUME p = "lldp" PROVE Keeps(Lldp(h, c), Lldp(h, d), n, c, {})
  BY <1>2, LldpKeeps
<1>3. ASSUME p = "cdp" PROVE Keeps(Cdp(h, c), Cdp(h, d), n, c, {})
  BY <1>3, CdpKeeps
<1>4. ASSUME p = "lacp" PROVE Keeps(Lacp(h, c), Lacp(h, d), n, c,
               {"actor_system", "partner_system"})
  BY <1>4 DEF LinkHeader, Lacp, Named
<1>5. ASSUME p = "stp" PROVE Keeps(Stp(h, c), Stp(h, d), n, c, {})
  BY <1>5 DEF LinkHeader, Stp, ParseBpdu, BpduEnd, Named
<1>6. ASSUME p = "pvst_plus" PROVE Keeps(PvstPlus(h, c), PvstPlus(h, d), n, c, {})
  BY <1>6 DEF LinkHeader, PvstPlus, ParseBpdu, BpduEnd, Named
<1>7. ASSUME p = "eapol" PROVE Keeps(Eapol(h, c), Eapol(h, d), n, c, {})
  BY <1>7 DEF LinkHeader, Eapol, Named
<1>8. ASSUME p = "radiotap" PROVE Keeps(Radiotap(h, c), Radiotap(h, d), n, c, {})
  BY <1>8 DEF LinkHeader, Radiotap, Named
<1>9. ASSUME p = "dot11" PROVE Keeps(Dot11(h, c), Dot11(h, d), n, c, {})
  BY <1>9 DEF LinkHeader, Dot11, Dot11Control, Dot11Management, Dot11Data, Named
<1>10. ASSUME p = "pppoe" PROVE Keeps(Pppoe(h, c), Pppoe(h, d), n, c, {"session_id"})
  BY <1>10, PppoeKeeps
<1>11. ASSUME p = "ppp" PROVE Keeps(Ppp(h, c), Ppp(h, d), n, c, {})
  BY <1>11 DEF LinkHeader, Ppp, Named
<1>12. ASSUME p = "mpls" PROVE Keeps(Mpls(h, c), Mpls(h, d), n, c, {"label"})
  BY <1>12 DEF LinkHeader, Mpls, Named
<1>. HIDE NeedKeeps, RefuseKeeps, KeyedKeeps, FreeKeeps, RefusedKeeps, HintsKept
<1>. QED
  BY <1>1, <1>2, <1>3, <1>4, <1>5, <1>6, <1>7, <1>8, <1>9, <1>10, <1>11, <1>12, LinkParse,
     LinkKeys
     DEF LinkFamily

\* The plugins of tunnels keep their contract.
LEMMA TunnelKeep ==
  ASSUME NEW n \in Nat, NEW p \in TunnelFamily, NEW h \in TunnelHeader(p, n),
         NEW c, NEW d, Prev(c) = Prev(d)
  PROVE  Keeps(DefaultParse(p, h, c), DefaultParse(p, h, d), n, c, MustKeys(p))
<1>. USE NeedKeeps, RefuseKeeps, KeyedKeeps, FreeKeeps, RefusedKeeps, HintsKept
<1>1. ASSUME p = "gre" PROVE Keeps(Gre(h, c), Gre(h, d), n, c, {"key"})
  BY <1>1 DEF TunnelHeader, Gre, Word, Named
<1>2. ASSUME p = "erspan" PROVE Keeps(Erspan(h, c), Erspan(h, d), n, c, {"session_id"})
  BY <1>2 DEF TunnelHeader, Erspan, Word, Named
<1>3. ASSUME p = "vxlan" PROVE Keeps(Vxlan(h, c), Vxlan(h, d), n, c, {"vni"})
  BY <1>3 DEF TunnelHeader, Vxlan, Named
<1>4. ASSUME p = "geneve" PROVE Keeps(Geneve(h, c), Geneve(h, d), n, c, {"vni"})
  BY <1>4 DEF TunnelHeader, Geneve, Named
<1>5. ASSUME p = "ah" PROVE Keeps(Ah(h, c), Ah(h, d), n, c, {"spi"})
  BY <1>5 DEF TunnelHeader, Ah, Named
<1>6. ASSUME p = "gtp_u" PROVE Keeps(GtpU(h, c), GtpU(h, d), n, c, {"teid"})
  BY <1>6, GtpUKeeps
<1>7. ASSUME p = "gtp_c" PROVE Keeps(GtpC(h, c), GtpC(h, d), n, c, {"teid"})
  BY <1>7 DEF TunnelHeader, GtpC, GtpCEnd, GtpCFixed, Named
<1>8. ASSUME p = "wireguard" PROVE Keeps(Wireguard(h, c), Wireguard(h, d), n, c, {"app"})
  BY <1>8 DEF TunnelHeader, Wireguard, WireguardLen, Named
<1>9. ASSUME p = "l2tpv3" PROVE Keeps(L2tpv3(h, c), L2tpv3(h, d), n, c, {})
  BY <1>9 DEF TunnelHeader, L2tpv3, Word, Named
<1>10. ASSUME p = "quic" PROVE Keeps(Quic(h, c), Quic(h, d), n, c, {})
  BY <1>10 DEF TunnelHeader, Quic, Named
<1>. HIDE NeedKeeps, RefuseKeeps, KeyedKeeps, FreeKeeps, RefusedKeeps, HintsKept
<1>. QED
  BY <1>1, <1>2, <1>3, <1>4, <1>5, <1>6, <1>7, <1>8, <1>9, <1>10, TunnelParse, TunnelKeys
     DEF TunnelFamily

\* The plugins of services keep their contract.
LEMMA ServiceKeep ==
  ASSUME NEW n \in Nat, NEW p \in ServiceFamily, NEW h \in ServiceHeader(p, n),
         NEW c, NEW d, Prev(c) = Prev(d)
  PROVE  Keeps(DefaultParse(p, h, c), DefaultParse(p, h, d), n, c, MustKeys(p))
<1>. USE NeedKeeps, RefuseKeeps, KeyedKeeps, FreeKeeps, RefusedKeeps, HintsKept
<1>1. ASSUME p = "dns" PROVE Keeps(Dns(h, c), Dns(h, d), n, c, {"app"})
  BY <1>1, DnsKeeps
<1>2. ASSUME p = "mdns" PROVE Keeps(Mdns(h, c), Mdns(h, d), n, c, {"app"})
  BY <1>2, MdnsKeeps
<1>3. ASSUME p = "llmnr" PROVE Keeps(Llmnr(h, c), Llmnr(h, d), n, c, {"app"})
  BY <1>3, LlmnrKeeps
<1>4. ASSUME p = "netbios_ns" PROVE Keeps(NetbiosNs(h, c), NetbiosNs(h, d), n, c, {"app"})
  BY <1>4 DEF ServiceHeader, NetbiosNs, Named
<1>5. ASSUME p = "dhcp" PROVE Keeps(Dhcp(h, c), Dhcp(h, d), n, c, {"app"})
  BY <1>5, DhcpKeeps
<1>6. ASSUME p = "dhcpv6" PROVE Keeps(Dhcpv6(h, c), Dhcpv6(h, d), n, c, {"app"})
  BY <1>6, Dhcpv6Keeps
<1>7. ASSUME p = "ntp" PROVE Keeps(Ntp(h, c), Ntp(h, d), n, c, {"app"})
  BY <1>7 DEF ServiceHeader, Ntp, Named
<1>8. ASSUME p = "ptp" PROVE Keeps(Ptp(h, c), Ptp(h, d), n, c, {"domain"})
  BY <1>8 DEF ServiceHeader, Ptp, Named
<1>9. ASSUME p = "syslog" PROVE Keeps(Syslog(h, c), Syslog(h, d), n, c, {"app"})
  BY <1>9 DEF ServiceHeader, Syslog, SyslogHead, TrailingMsg, Named
<1>10. ASSUME p = "radius" PROVE Keeps(Radius(h, c), Radius(h, d), n, c, {"app"})
  BY <1>10, RadiusKeeps
<1>11. ASSUME p = "snmp" PROVE Keeps(Snmp(h, c), Snmp(h, d), n, c, {"app"})
  BY <1>11, SnmpKeeps
<1>12. ASSUME p = "kerberos" PROVE Keeps(Kerberos(h, c), Kerberos(h, d), n, c, {"app"})
  BY <1>12 DEF ServiceHeader, Kerberos, TlvEnd, BerLength, TlvHeader, Named
<1>13. ASSUME p = "ldap" PROVE Keeps(Ldap(h, c), Ldap(h, d), n, c, {"app"})
  BY <1>13 DEF ServiceHeader, Ldap, ReadTlv, TlvEnd, BerLength, TlvHeader, Named
<1>. HIDE NeedKeeps, RefuseKeeps, KeyedKeeps, FreeKeeps, RefusedKeeps, HintsKept
<1>. QED
  BY <1>1, <1>2, <1>3, <1>4, <1>5, <1>6, <1>7, <1>8, <1>9, <1>10, <1>11, <1>12, <1>13,
     ServiceParse, ServiceKeys
     DEF ServiceFamily

\* The plugins of control networks keep their contract.
LEMMA IndustrialKeep ==
  ASSUME NEW n \in Nat, NEW p \in IndustrialFamily, NEW h \in IndustrialHeader(p, n),
         NEW c, NEW d, Prev(c) = Prev(d)
  PROVE  Keeps(DefaultParse(p, h, c), DefaultParse(p, h, d), n, c, MustKeys(p))
<1>. USE NeedKeeps, RefuseKeeps, KeyedKeeps, FreeKeeps, RefusedKeeps, HintsKept
<1>1. ASSUME p = "rocev2" PROVE Keeps(Rocev2(h, c), Rocev2(h, d), n, c, {"dest_qp"})
  BY <1>1 DEF IndustrialHeader, Rocev2, Named
<1>2. ASSUME p = "modbus" PROVE Keeps(Modbus(h, c), Modbus(h, d), n, c, {"unit_id"})
  BY <1>2 DEF IndustrialHeader, Modbus, Named
<1>3. ASSUME p = "mqtt" PROVE Keeps(Mqtt(h, c), Mqtt(h, d), n, c, {"app"})
  BY <1>3 DEF IndustrialHeader, Mqtt, VariableByteInt, Named
<1>4. ASSUME p = "dnp3" PROVE Keeps(Dnp3(h, c), Dnp3(h, d), n, c, {"source", "destination"})
  BY <1>4 DEF IndustrialHeader, Dnp3, Named
<1>5. ASSUME p = "enip" PROVE Keeps(Enip(h, c), Enip(h, d), n, c, {"session_handle"})
  BY <1>5 DEF IndustrialHeader, Enip, Named
<1>6. ASSUME p = "bacnet_ip" PROVE Keeps(BacnetIp(h, c), BacnetIp(h, d), n, c, {"app"})
  BY <1>6 DEF IndustrialHeader, BacnetIp, Named
<1>. HIDE NeedKeeps, RefuseKeeps, KeyedKeeps, FreeKeeps, RefusedKeeps, HintsKept
<1>. QED
  BY <1>1, <1>2, <1>3, <1>4, <1>5, <1>6, IndustrialParse, IndustrialKeys
     DEF IndustrialFamily

\* The plugins of text protocols keep their contract.
LEMMA TextKeep ==
  ASSUME NEW n \in Nat, NEW p \in TextFamily, NEW h \in TextHeader(p, n),
         NEW c, NEW d, Prev(c) = Prev(d)
  PROVE  Keeps(DefaultParse(p, h, c), DefaultParse(p, h, d), n, c, MustKeys(p))
<1>. USE NeedKeeps, RefuseKeeps, KeyedKeeps, FreeKeeps, RefusedKeeps, HintsKept
<1>1. ASSUME p = "ssdp" PROVE Keeps(Ssdp(h, c), Ssdp(h, d), n, c, {"app"})
  BY <1>1 DEF TextHeader, Ssdp, UpTo, Named
<1>2. ASSUME p = "http" PROVE Keeps(Http(h, c), Http(h, d), n, c, {"app"})
  <2>1. h.len = n /\ h.head \in Nat /\ Hints(ByProtocol("http2"))
    BY <1>2 DEF TextHeader, Named
  <2>. QED
    BY <2>1 DEF Http, UpTo, PrefaceLen
<1>3. ASSUME p = "sip" PROVE Keeps(Sip(h, c), Sip(h, d), n, c, {"call_id"})
  BY <1>3 DEF TextHeader, Sip, UpTo, Named
<1>4. ASSUME p = "http2" PROVE Keeps(Http2(h, c), Http2(h, d), n, c, {"stream_id"})
  BY <1>4 DEF TextHeader, Http2, Named
<1>5. ASSUME p = "websocket" PROVE Keeps(WebSocket(h, c), WebSocket(h, d), n, c, {"app"})
  BY <1>5 DEF TextHeader, WebSocket, ReadFrameHeader, Named
<1>6. ASSUME p = "ftp" PROVE Keeps(Ftp(h, c), Ftp(h, d), n, c, {"app"})
  BY <1>6 DEF TextHeader, Ftp, UpTo, Named
<1>7. ASSUME p = "smtp" PROVE Keeps(Smtp(h, c), Smtp(h, d), n, c, {"app"})
  BY <1>7 DEF TextHeader, Smtp, UpTo, Named
<1>8. ASSUME p = "imap" PROVE Keeps(Imap(h, c), Imap(h, d), n, c, {"app"})
  BY <1>8 DEF TextHeader, Imap, UpTo, Named
<1>9. ASSUME p = "pop3" PROVE Keeps(Pop3(h, c), Pop3(h, d), n, c, {"app"})
  BY <1>9 DEF TextHeader, Pop3, UpTo, Named
<1>10. ASSUME p = "redis" PROVE Keeps(Redis(h, c), Redis(h, d), n, c, {"app"})
  BY <1>10, RedisKeeps
<1>. HIDE NeedKeeps, RefuseKeeps, KeyedKeeps, FreeKeeps, RefusedKeeps, HintsKept
<1>. QED
  BY <1>1, <1>2, <1>3, <1>4, <1>5, <1>6, <1>7, <1>8, <1>9, <1>10, TextParse, TextKeys
     DEF TextFamily

\* The plugins of applications keep their contract.
LEMMA AppKeep ==
  ASSUME NEW n \in Nat, NEW p \in AppFamily, NEW h \in AppHeader(p, n),
         NEW c, NEW d, Prev(c) = Prev(d)
  PROVE  Keeps(DefaultParse(p, h, c), DefaultParse(p, h, d), n, c, MustKeys(p))
<1>. USE NeedKeeps, RefuseKeeps, KeyedKeeps, FreeKeeps, RefusedKeeps, HintsKept
<1>1. ASSUME p = "tls" PROVE Keeps(Tls(h, c), Tls(h, d), n, c, {"app"})
  BY <1>1 DEF AppHeader, Tls, Named
<1>2. ASSUME p = "ssh" PROVE Keeps(Ssh(h, c), Ssh(h, d), n, c, {"app"})
  BY <1>2 DEF AppHeader, Ssh, Named
<1>3. ASSUME p = "stun" PROVE Keeps(Stun(h, c), Stun(h, d), n, c, {"app"})
  BY <1>3 DEF AppHeader, Stun, Named
<1>4. ASSUME p = "tftp" PROVE Keeps(Tftp(h, c), Tftp(h, d), n, c, {})
  BY <1>4 DEF AppHeader, Tftp, ReadCstring, Named
<1>5. ASSUME p = "smb2" PROVE Keeps(Smb2(h, c), Smb2(h, d), n, c, {"session_id"})
  BY <1>5 DEF AppHeader, Smb2, Named
<1>6. ASSUME p = "nfs" PROVE Keeps(Nfs(h, c), Nfs(h, d), n, c, {"app"})
  BY <1>6 DEF AppHeader, Nfs, Named
<1>7. ASSUME p = "rtp" PROVE Keeps(Rtp(h, c), Rtp(h, d), n, c, {"ssrc"})
  BY <1>7 DEF AppHeader, Rtp, Named
<1>8. ASSUME p = "rtcp" PROVE Keeps(Rtcp(h, c), Rtcp(h, d), n, c, {"ssrc"})
  BY <1>8 DEF AppHeader, Rtcp, Named
<1>9. ASSUME p = "amqp" PROVE Keeps(Amqp(h, c), Amqp(h, d), n, c, {"app"})
  BY <1>9 DEF AppHeader, Amqp, Named
<1>10. ASSUME p = "netflow9" PROVE Keeps(Netflow9(h, c), Netflow9(h, d), n, c, {"app"})
  BY <1>10, Netflow9Keeps
<1>11. ASSUME p = "ipfix" PROVE Keeps(Ipfix(h, c), Ipfix(h, d), n, c, {"app"})
  BY <1>11, IpfixKeeps
<1>12. ASSUME p = "bgp" PROVE Keeps(Bgp(h, c), Bgp(h, d), n, c, {"app"})
  BY <1>12, BgpKeeps
<1>. HIDE NeedKeeps, RefuseKeeps, KeyedKeeps, FreeKeeps, RefusedKeeps, HintsKept
<1>. QED
  BY <1>1, <1>2, <1>3, <1>4, <1>5, <1>6, <1>7, <1>8, <1>9, <1>10, <1>11, <1>12, AppParse, AppKeys
     DEF AppFamily

\* Every plugin that ships is of a family.
LEMMA ShippedFamilies ==
  ASSUME NEW p \in Shipped
  PROVE  p \in NetworkFamily \cup LinkFamily \cup TunnelFamily \cup ServiceFamily
               \cup IndustrialFamily \cup TextFamily \cup AppFamily
<1>1. PICK i \in DOMAIN DefaultPlugins : p = DefaultPlugins[i]
  BY DEF Shipped, ToSet
<1>. QED
  BY <1>1 DEF DefaultPlugins, NetworkFamily, LinkFamily, TunnelFamily, ServiceFamily,
              IndustrialFamily, TextFamily, AppFamily

\* The headers of a family.
LEMMA FamilyHeaders ==
  ASSUME NEW p, NEW n
  PROVE  /\ p \in NetworkFamily => DefaultHeader(p, n) = NetworkHeader(p, n)
         /\ p \in LinkFamily => DefaultHeader(p, n) = LinkHeader(p, n)
         /\ p \in TunnelFamily => DefaultHeader(p, n) = TunnelHeader(p, n)
         /\ p \in ServiceFamily => DefaultHeader(p, n) = ServiceHeader(p, n)
         /\ p \in IndustrialFamily => DefaultHeader(p, n) = IndustrialHeader(p, n)
         /\ p \in TextFamily => DefaultHeader(p, n) = TextHeader(p, n)
         /\ p \in AppFamily => DefaultHeader(p, n) = AppHeader(p, n)
  BY DEF DefaultHeader, NetworkFamily, LinkFamily, TunnelFamily, ServiceFamily,
         IndustrialFamily, TextFamily, AppFamily

\* Every plugin that ships, in two contexts that come from the same layer and
\* hold the same ICMPv6 message, is honest about its length, gives its keys
\* and frames the bytes alike.
LEMMA ShippedKeep ==
  ASSUME NEW p \in Shipped, NEW n \in Nat, NEW h \in DefaultHeader(p, n), NEW c, NEW d,
         Prev(c) = Prev(d), p \in Untyped => SameMessage(c, d)
  PROVE  Keeps(DefaultParse(p, h, c), DefaultParse(p, h, d), n, c, MustKeys(p))
  BY ShippedFamilies, FamilyHeaders, NetworkKeep, LinkKeep, TunnelKeep, ServiceKeep,
     IndustrialKeep,
     TextKeep, AppKeep

----------------------------------------------------------------------------
(* What the theorems about the plugins that ship take of the constants.    *)

\* The plugins that ship are those of the catalogue, and the headers found in
\* n bytes are of their types.
ShipsDefaults ==
  /\ \A p \in Shipped : Decl(p) = DefaultDecl[p]
  /\ \A p \in Shipped : \A h, ctx : /\ Parse(p, h, ctx) = DefaultParse(p, h, ctx)
                                    /\ Probe(p, h, ctx) = DefaultProbe(p, h, ctx)
  /\ \A ps : \A n \in Nat : \A reading \in Readings(ps, n) :
       \A p \in DOMAIN reading \cap Shipped : reading[p] \in DefaultHeader(p, n)

\* A third-party plugin gives its candidates as a list.
OthersListed ==
  \A ps : \A n \in Nat : \A reading \in Readings(ps, n) : \A p \in DOMAIN reading \ Shipped :
    \A ctx : Parse(p, reading[p], ctx).ok => Listed(Parse(p, reading[p], ctx).hint)

\* A third-party plugin extracts its own keys where it is asked to (rule 4).
OthersKeyed ==
  \A ps : \A n \in Nat : \A reading \in Readings(ps, n) : \A p \in DOMAIN reading \ Shipped :
    \A ctx : ctx.depth >= DepthKeys /\ HeaderLenOk(Parse(p, reading[p], ctx), n) =>
      KeyFields(Decl(p)) \subseteq DOMAIN Parse(p, reading[p], ctx).fields

----------------------------------------------------------------------------
(* Whose answer a step takes.                                              *)

\* A layer found is what one of the plugins ps answered, and fits n bytes.
Answered(outcome, answers, n, ps) ==
  outcome.found => /\ outcome.protocol \in ps
                   /\ outcome.parsed = answers[outcome.protocol]
                   /\ HeaderLenOk(outcome.parsed, n)

\* A step that stops answers for nobody.
LEMMA StopsAnswered ==
  ASSUME NEW answers, NEW n, NEW ps
  PROVE  /\ \A kind : Answered(StopAt(kind), answers, n, ps)
         /\ \A id : Answered(Unclaimed(id), answers, n, ps)
  BY DEF Answered, StopAt, Unclaimed

\* A plugin whose header fits is the one that answered.
LEMMA FoundAnswered ==
  ASSUME NEW answers, NEW n, NEW ps, NEW p \in ps, NEW g, HeaderLenOk(answers[p], n)
  PROVE  Answered(Found(p, answers[p], g), answers, n, ps)
<1>1. Found(p, answers[p], g).protocol = p /\ Found(p, answers[p], g).parsed = answers[p]
  BY DEF Found
<1>. QED
  BY <1>1, Zenon DEF Answered

\* A named plugin answers for itself.
LEMMA ExplicitAnswered ==
  ASSUME NEW answers, NEW n, NEW ps, NEW p \in ps
  PROVE  Answered(DispatchExplicit(p, answers, n), answers, n, ps)
<1>1. CASE HeaderLenOk(answers[p], n)
  <2>1. DispatchExplicit(p, answers, n) = Found(p, answers[p], FALSE)
    BY <1>1 DEF DispatchExplicit, HeaderLenOk
  <2>. QED
    BY <1>1, <2>1, FoundAnswered
<1>2. CASE ~HeaderLenOk(answers[p], n)
  <2>1. \/ DispatchExplicit(p, answers, n) = StopAt("truncated")
        \/ DispatchExplicit(p, answers, n) = StopAt("plugin_error")
    BY <1>2 DEF DispatchExplicit
  <2>. QED
    BY <2>1, StopsAnswered
<1>. QED
  BY <1>1, <1>2

\* The first of a list to parse is one of the list.
LEMMA FirstAnswered ==
  ASSUME NEW ps, NEW answers, NEW n, NEW g, NEW otherwise, NEW list,
         \A i \in DOMAIN list : list[i] \in ps
  PROVE  Answered(FirstParsed(list, answers, n, g, otherwise), answers, n, ps)
<1>. DEFINE Parsed(i) == answers[list[i]]
            First(i) == /\ HeaderLenOk(Parsed(i), n)
                        /\ \A j \in DOMAIN list : j < i => ~HeaderLenOk(Parsed(j), n)
            first == CHOOSE i \in DOMAIN list : First(i)
<1>1. CASE \E i \in DOMAIN list : First(i)
  <2>1. first \in DOMAIN list /\ First(first)
    BY <1>1
  <2>2. FirstParsed(list, answers, n, g, otherwise) = Found(list[first], Parsed(first), g)
    BY <1>1 DEF FirstParsed
  <2>. HIDE DEF first
  <2>3. PICK p \in ps : p = list[first]
    BY <2>1
  <2>. QED
    BY <2>1, <2>2, <2>3, FoundAnswered
<1>2. CASE ~\E i \in DOMAIN list : First(i)
  <2>1. FirstParsed(list, answers, n, g, otherwise) = StopAt(otherwise)
    BY <1>2 DEF FirstParsed
  <2>. QED
    BY <2>1, StopsAnswered
<1>. QED
  BY <1>1, <1>2

\* The guess is a plugin of the pool.
LEMMA FallbackAnswered ==
  ASSUME NEW e, Pooled(e), NEW scores, NEW answers, NEW n
  PROVE  Answered(HeuristicFallback(e, scores, answers, n), answers, n, PoolNames(e))
<1>1. PICK A : A = Able(e, scores, answers, n)
  OBVIOUS
<1>2. A \in SUBSET Nat /\ \A i \in A : scores[i] \in MinConfidence..MaxConfidence
  BY <1>1 DEF Able, Worth, Pooled
<1>3. Worth(e, scores) \cap A = A
  BY <1>1 DEF Able
<1>4. CASE A = {}
  <2>1. HeuristicFallback(e, scores, answers, n) = StopAt("unknown_hint")
    BY <1>1, <1>3, <1>4, FallbackPicks, ZenonT(40) DEF Picked
  <2>. QED
    BY <2>1, StopsAnswered
<1>5. CASE A # {}
  <2>1. PICK i : i = BestOf(scores, A)
    OBVIOUS
  <2>2. i \in A
    BY <1>2, <1>5, <2>1, BestExists DEF IsBest
  <2>3. HeaderLenOk(answers[e.plugins[i]], n) /\ e.plugins[i] \in PoolNames(e)
    BY <1>1, <2>2 DEF Able, Worth, PoolNames
  <2>4. HeuristicFallback(e, scores, answers, n) =
          Found(e.plugins[i], answers[e.plugins[i]], TRUE)
    BY <1>1, <1>3, <1>5, <2>1, FallbackPicks DEF Picked
  <2>. QED
    BY <2>3, <2>4, FoundAnswered
<1>. QED
  BY <1>4, <1>5

\* After a layer, one of the plugins its hint leads to answers.
LEMMA NextAnswered ==
  ASSUME NEW e, Pooled(e), NEW hint, NEW scores, NEW answers, NEW n
  PROVE  Answered(ResolveNext(e, hint, scores, answers, n), answers, n, Targets(e, hint))
<1>. DEFINE outcome == ResolveNext(e, hint, scores, answers, n)
            ps == Targets(e, hint)
<1>1. CASE n = 0
  BY <1>1, StopsAnswered DEF ResolveNext
<1>2. CASE n # 0 /\ hint.kind = "route"
  <2>1. CASE hint.id \in DOMAIN e.routes
    <3>1. e.routes[hint.id] \in ps /\ outcome = DispatchExplicit(e.routes[hint.id], answers, n)
      BY <1>2, <2>1 DEF ResolveNext, Targets, PluginForRoute
    <3>. QED
      BY <3>1, ExplicitAnswered
  <2>. QED
    BY <1>2, <2>1, StopsAnswered DEF ResolveNext
<1>3. CASE n # 0 /\ hint.kind = "candidates"
  <2>. DEFINE ids == hint.ids
              claimed == {i \in DOMAIN ids : ids[i] \in DOMAIN e.routes}
              list == [i \in claimed |-> e.routes[ids[i]]]
  <2>1. outcome = ResolveCandidates(e, ids, answers, n)
    BY <1>3 DEF ResolveNext
  <2>2. ps = UNION {PluginForRoute(e, id) : id \in ToSet(ids)}
    BY <1>3 DEF Targets
  <2>3. \A i \in claimed : ids[i] \in ToSet(ids) /\ e.routes[ids[i]] \in PluginForRoute(e, ids[i])
    BY DEF ToSet, PluginForRoute
  <2>4. \A i \in DOMAIN list : list[i] \in ps
    <3>. HIDE DEF ids, ps
    <3>. QED
      BY <2>2, <2>3
  <2>. HIDE DEF list
  <2>. QED
    BY <2>1, <2>4, StopsAnswered, FirstAnswered DEF ResolveCandidates, list
<1>4. CASE n # 0 /\ hint.kind = "by_protocol"
  <2>1. CASE hint.name \in e.names
    <3>1. hint.name \in ps /\
            outcome = FirstParsed(<<hint.name>>, answers, n, FALSE, "plugin_error")
      BY <1>4, <2>1 DEF ResolveNext, Targets
    <3>2. \A i \in DOMAIN <<hint.name>> : <<hint.name>>[i] \in ps
      BY <3>1
    <3>. QED
      BY <3>1, <3>2, FirstAnswered
  <2>. QED
    BY <1>4, <2>1, StopsAnswered DEF ResolveNext
<1>5. CASE n # 0 /\ hint.kind = "unknown"
  <2>1. ps = PoolNames(e) /\ outcome = HeuristicFallback(e, scores, answers, n)
    BY <1>5 DEF ResolveNext, Targets
  <2>. QED
    BY <2>1, FallbackAnswered
<1>6. CASE n # 0 /\ hint.kind \notin {"route", "candidates", "by_protocol", "unknown"}
  BY <1>6, StopsAnswered DEF ResolveNext
<1>. QED
  BY <1>1, <1>2, <1>3, <1>4, <1>5, <1>6

\* At the first byte, one of the plugins of the entry answers.
LEMMA EntryAnswered ==
  ASSUME Pooled(Engines[using]), NEW scores, NEW answers
  PROVE  Answered(ResolveEntry(Engines[using], opts, scores, answers, Left), answers, Left,
                  EntryTargets(Engines[using]))
<1>. DEFINE e == Engines[using]
            id == LinkType(opts.link)
            ps == EntryTargets(e)
            outcome == ResolveEntry(e, opts, scores, answers, Left)
<1>. HIDE DEF e
<1>1. CASE Left = 0
  BY <1>1, StopsAnswered DEF ResolveEntry
<1>2. CASE Left # 0 /\ opts.entry # ""
  <2>1. opts.entry \in ps /\ outcome = DispatchExplicit(opts.entry, answers, Left)
    BY <1>2 DEF ResolveEntry, EntryTargets
  <2>. QED
    BY <2>1, ExplicitAnswered DEF e
<1>3. CASE Left # 0 /\ opts.entry = "" /\ id \in DOMAIN e.routes
  <2>1. e.routes[id] \in ps /\ outcome = DispatchExplicit(e.routes[id], answers, Left)
    BY <1>3 DEF ResolveEntry, EntryTargets
  <2>. QED
    BY <2>1, ExplicitAnswered DEF e
<1>4. CASE Left # 0 /\ opts.entry = "" /\ id \notin DOMAIN e.routes
  <2>1. CASE opts.heuristics
    <3>1. ps = PoolNames(e) /\ outcome = HeuristicFallback(e, scores, answers, Left)
      BY <1>4, <2>1 DEF ResolveEntry, EntryTargets
    <3>. QED
      BY <3>1, FallbackAnswered DEF e
  <2>2. CASE ~opts.heuristics
    <3>1. outcome = Unclaimed(id)
      BY <1>4, <2>2 DEF ResolveEntry
    <3>. QED
      BY <3>1, StopsAnswered DEF e
  <2>. QED
    BY <2>1, <2>2
<1>. QED
  BY <1>1, <1>2, <1>3, <1>4

----------------------------------------------------------------------------
(* A step, and what it keeps of the keys.                                  *)

\* A step of next() on a reading of the bytes left.
Stepped(reading, outcome, shadow) ==
  /\ \E ps : reading \in Readings(ps, Left)
  /\ \E report, pooled : Step(outcome, report, shadow, reading, Answers(reading, Context), pooled)
  /\ Answered(outcome, Answers(reading, Context), Left, DOMAIN reading)

\* Its outcome, and that of the walk at depth Full, are what the router makes
\* of the answers at the two depths.
Resolved(reading, outcome, shadow) ==
  \/ /\ ~Started /\ (Left # 0 => EntryTargets(Engines[using]) \subseteq DOMAIN reading)
     /\ outcome = ResolveEntry(Engines[using], opts,
          ScoreFallbackPool(Engines[using], reading, Context),
                               Answers(reading, Context), Left)
     /\ shadow = ResolveEntry(Engines[using], opts,
                              ScoreFallbackPool(Engines[using], reading,
                                ContextAt(full, DepthFull)),
                              Answers(reading, ContextAt(full, DepthFull)), Left)
  \/ /\ Started /\ (Left # 0 => Targets(Engines[using], Pending) \subseteq DOMAIN reading)
     /\ outcome = ResolveNext(Engines[using], Pending,
          ScoreFallbackPool(Engines[using], reading, Context),
                              Answers(reading, Context), Left)
     /\ shadow = ResolveNext(Engines[using], Pending,
                             ScoreFallbackPool(Engines[using], reading,
                               ContextAt(full, DepthFull)),
                             Answers(reading, ContextAt(full, DepthFull)), Left)

\* An answer of some plugins is an answer of more.
LEMMA AnsweredMore ==
  ASSUME NEW outcome, NEW answers, NEW n, NEW ps, NEW qs, Answered(outcome, answers, n, ps),
         ps \subseteq qs
  PROVE  Answered(outcome, answers, n, qs)
  BY DEF Answered

\* Every call of next() steps on some reading of the bytes left.
LEMMA WalkStepped ==
  ASSUME Inv, EnterStep(Engines[using]) \/ NextStep(Engines[using])
  PROVE  /\ Walking /\ Left \in Nat
         /\ \E reading, outcome, shadow : /\ Stepped(reading, outcome, shadow)
                                          /\ Resolved(reading, outcome, shadow)
<1>. DEFINE e == Engines[using]
<1>1. Walking /\ Left \in Nat
  BY DEF EnterStep, NextStep, Walking, Inv, WalkType, LayersTile, Left
<1>2. Pooled(e)
  BY EnginePooled DEF Inv, WalkType
<1>3. CASE EnterStep(e)
  <2>1. PICK reading \in Offered(EntryTargets(e)) :
          EnterPacket(e, reading, Answers(reading, Context),
            Answers(reading, ContextAt(full, DepthFull)))
    BY <1>3 DEF EnterStep
  <2>. DEFINE answers == Answers(reading, Context)
              scores == ScoreFallbackPool(e, reading, Context)
              outcome == ResolveEntry(e, opts, scores, answers, Left)
              shadow == ResolveEntry(e, opts,
                ScoreFallbackPool(e, reading, ContextAt(full, DepthFull)),
                                     Answers(reading, ContextAt(full, DepthFull)), Left)
  <2>2. reading \in Readings(EntryTargets(e), Left) /\
          (Left > 0 => EntryTargets(e) \subseteq DOMAIN reading)
    BY DEF Offered
  <2>3. Answered(outcome, answers, Left, EntryTargets(e))
    BY <1>2, EntryAnswered
  <2>4. Left = 0 => Answered(outcome, answers, Left, DOMAIN reading)
    BY StopsAnswered DEF ResolveEntry
  <2>5. \E report, pooled : Step(outcome, report, shadow, reading, answers, pooled)
    BY <2>1 DEF EnterPacket
  <2>6. Resolved(reading, outcome, shadow)
    BY <1>1, <1>3, <2>2 DEF Resolved, EnterStep
  <2>. HIDE DEF outcome, shadow, answers, e
  <2>7. Answered(outcome, answers, Left, DOMAIN reading)
    BY <1>1, <2>2, <2>3, <2>4, AnsweredMore
  <2>. QED
    BY <1>1, <2>2, <2>5, <2>6, <2>7 DEF Stepped, answers
<1>4. CASE NextStep(e)
  <2>. DEFINE ps == Targets(e, Pending) \cup (IF opts.diagnose THEN PoolNames(e) ELSE {})
  <2>1. PICK reading \in Offered(ps) :
          NextLayer(e, reading, Answers(reading, Context),
            Answers(reading, ContextAt(full, DepthFull)))
    BY <1>4 DEF NextStep
  <2>. DEFINE answers == Answers(reading, Context)
              scores == ScoreFallbackPool(e, reading, Context)
              outcome == ResolveNext(e, Pending, scores, answers, Left)
              shadow == ResolveNext(e, Pending,
                ScoreFallbackPool(e, reading, ContextAt(full, DepthFull)),
                                    Answers(reading, ContextAt(full, DepthFull)), Left)
  <2>2. reading \in Readings(ps, Left) /\
          (Left > 0 => Targets(e, Pending) \subseteq DOMAIN reading)
    BY DEF Offered
  <2>3. Answered(outcome, answers, Left, Targets(e, Pending))
    BY <1>2, NextAnswered
  <2>4. Left = 0 => Answered(outcome, answers, Left, DOMAIN reading)
    BY StopsAnswered DEF ResolveNext
  <2>5. \E report, pooled : Step(outcome, report, shadow, reading, answers, pooled)
    BY <2>1 DEF NextLayer, ResolveStep
  <2>6. Resolved(reading, outcome, shadow)
    BY <1>1, <1>4, <2>2 DEF Resolved, NextStep
  <2>. HIDE DEF outcome, shadow, answers, e, ps
  <2>7. Answered(outcome, answers, Left, DOMAIN reading)
    BY <1>1, <2>2, <2>3, <2>4, AnsweredMore
  <2>. QED
    BY <1>1, <2>2, <2>5, <2>6, <2>7 DEF Stepped, answers
<1>. QED
  BY <1>3, <1>4

\* What is kept of a layer: it has its keys, an ICMPv6 message its numbers, and
\* a plugin that ships names only plugins that ship.
Kept(l) ==
  /\ OthersKeyed /\ opts.aggregation /\ ~Keyless(l) =>
       KeyFields(Decl(l.protocol)) \subseteq DOMAIN l.fields
  /\ l.protocol = "icmpv6" /\ "rest" \in DOMAIN l.fields => l.fields["rest"] \in Nat
  /\ l.protocol \in Shipped => Hints(l.hint)
  /\ OthersListed => Listed(l.hint)

KeptInv ==
  /\ opts.depth \in DepthNone..DepthFull /\ opts.aggregation \in BOOLEAN
  /\ \A i \in DOMAIN layers : Kept(layers[i])
  /\ lied \cap Shipped = {}

\* What the layers so far hold of an ICMPv6 message are numbers.
LEMMA ContextMessage ==
  ASSUME KeptInv
  PROVE  SameMessage(Context, Context)
<1>1. Context.layers = layers
  BY DEF Context, ContextAt
<1>2. ASSUME NEW v \in FieldOf(Context, "icmpv6", "rest") PROVE v \in Nat
  <2>1. PICK i \in DOMAIN layers : /\ layers[i].protocol = "icmpv6"
                                   /\ "rest" \in DOMAIN layers[i].fields /\
                                        v = layers[i].fields["rest"]
    BY <1>1 DEF FieldOf
  <2>. QED
    BY <2>1 DEF KeptInv, Kept
<1>. QED
  BY <1>2 DEF SameMessage

\* A plugin that ships keeps its contract in the walk's own context.
LEMMA ParseKept ==
  ASSUME ShipsDefaults, KeptInv, Left \in Nat, NEW ps, NEW reading \in Readings(ps, Left),
         NEW p \in DOMAIN reading \cap Shipped
  PROVE  /\ reading[p] \in DefaultHeader(p, Left)
         /\ Parse(p, reading[p], Context) = DefaultParse(p, reading[p], Context)
         /\ Keeps(Parse(p, reading[p], Context), Parse(p, reading[p], Context), Left, Context,
              MustKeys(p))
<1>1. reading[p] \in DefaultHeader(p, Left)
  BY DEF ShipsDefaults
<1>2. Parse(p, reading[p], Context) = DefaultParse(p, reading[p], Context)
  BY DEF ShipsDefaults
<1>. QED
  BY <1>1, <1>2, ContextMessage, ShippedKeep

\* What icmpv6 leaves for the layers behind it.
LEMMA Icmpv6Fields ==
  ASSUME NEW n \in Nat, NEW h \in DefaultHeader("icmpv6", n), NEW c,
         DefaultParse("icmpv6", h, c).ok
  PROVE  /\ h.rest \in Nat
         /\ DefaultParse("icmpv6", h, c).fields =
              AtStructural(c, [type |-> h.type, rest |-> h.rest])
<1>1. h \in NetworkHeader("icmpv6", n)
  BY FamilyHeaders DEF NetworkFamily
<1>2. h.rest \in Nat
  BY <1>1 DEF NetworkHeader
<1>3. Icmpv6(h, c).ok => Icmpv6(h, c).fields = AtStructural(c, [type |-> h.type, rest |-> h.rest])
  BY DEF Icmpv6, Need, Truncated, Layer
<1>. QED
  BY <1>2, <1>3, NetworkParse

\* The plugin icmpv6 is in the default list.
LEMMA Icmpv6Ships == "icmpv6" \in Shipped
<1>1. 9 \in DOMAIN DefaultPlugins /\ DefaultPlugins[9] = "icmpv6"
  BY DEF DefaultPlugins
<1>. QED
  BY <1>1 DEF Shipped, ToSet

\* 802.11: only a control frame of one address lacks the second.
LEMMA Dot11Keyed ==
  ASSUME NEW h, NEW c, c.depth >= DepthKeys, NEW r, r = Dot11(h, c), r.ok, r.headerLen # 10
  PROVE  {"addr1", "addr2"} \subseteq DOMAIN r.fields
<1>. DEFINE keys == AtKeys(c, {"addr1", "addr2"})
<1>1. DOMAIN keys = {"addr1", "addr2"}
  BY DEF AtKeys
<1>. HIDE DEF keys
<1>2. ASSUME NEW n, NEW hint PROVE Layer(n, keys, hint).fields = keys
  BY DEF Layer
<1>3. CASE h.type = "control"
  <2>1. r = Dot11Control(h, c)
    BY <1>3 DEF Dot11, Need, Truncated
  <2>2. h.addr2
    BY <2>1 DEF Dot11Control, Layer
  <2>3. r = Layer(16, keys, Terminal)
    BY <2>1, <2>2 DEF Dot11Control, Need, Truncated, keys
  <2>. QED
    BY <1>1, <1>2, <2>3
<1>4. CASE h.type = "management"
  <2>1. r = Dot11Management(h, c)
    BY <1>4 DEF Dot11, Need, Truncated
  <2>2. \E n : r = Layer(n, keys, Terminal)
    BY <2>1 DEF Dot11Management, Need, Truncated, keys
  <2>. QED
    BY <1>1, <1>2, <2>2
<1>5. CASE h.type = "data"
  <2>1. r = Dot11Data(h, c)
    BY <1>5 DEF Dot11, Need, Truncated
  <2>2. \E n, hint : r = Layer(n, keys, hint)
    BY <2>1 DEF Dot11Data, Need, Truncated, keys
  <2>. QED
    BY <1>1, <1>2, <2>2
<1>6. CASE h.type \notin {"control", "management", "data"}
  BY <1>6 DEF Dot11, Need, Truncated, Malformed
<1>. QED
  BY <1>3, <1>4, <1>5, <1>6

\* QUIC: only a short header lacks the connection id.
LEMMA QuicKeyed ==
  ASSUME NEW h, NEW c, c.depth >= DepthKeys, NEW r, r = Quic(h, c), r.ok, r.headerLen # 1
  PROVE  {"dcid"} \subseteq DOMAIN r.fields
<1>1. h.long
  BY DEF Quic, Need, Truncated, Layer
<1>2. \E n : r = Layer(n, AtKeys(c, {"dcid"}), Terminal)
  BY <1>1 DEF Quic, Need, Truncated
<1>. QED
  BY <1>2 DEF Layer, AtKeys

\* L2TPv3: only a control message lacks the session.
LEMMA L2tpv3Keyed ==
  ASSUME NEW h, NEW c, c.depth >= DepthKeys, NEW r, r = L2tpv3(h, c), r.ok, r.hint # Terminal
  PROVE  {"session_id"} \subseteq DOMAIN r.fields
<1>1. \/ \E n : r = Layer(n, AtKeys(c, {"session_id"}), ByProtocol("ethernet"))
      \/ r = Layer(12, NoFields, Terminal)
  BY DEF L2tpv3, Need, Refuse, Truncated, Malformed
<1>2. r # Layer(12, NoFields, Terminal)
  BY DEF Layer
<1>. QED
  BY <1>1, <1>2 DEF Layer, AtKeys

\* The keys of the plugins with a kind of frame that has none.
LEMMA SeldomKeys ==
  /\ KeyFields(DefaultDecl["dot11"]) = {"addr1", "addr2"}
  /\ KeyFields(DefaultDecl["quic"]) = {"dcid"}
  /\ KeyFields(DefaultDecl["l2tpv3"]) = {"session_id"}
<1>1. ASSUME NEW d, NEW id, NEW c, id.key = <<c>>, d.identity = {id} PROVE KeyFields(d) = Parts(c)
  <2>1. {id.key[k] : k \in DOMAIN id.key} = {c}
    BY <1>1
  <2>2. KeyFields(d) = UNION {{x[i] : i \in DOMAIN x} : x \in {c}}
    BY <1>1, <2>1 DEF KeyFields
  <2>. QED
    BY <2>2 DEF Parts
<1>2. Dot11Decl.identity = {Dot11Identity} /\ Dot11Identity.key = <<Pair("addr1", "addr2")>>
  BY DEF Dot11Decl, Declares, Dot11Identity, Identity
<1>3. QuicDecl.identity = {QuicIdentity} /\ QuicIdentity.key = <<Shared("dcid")>>
  BY DEF QuicDecl, Declares, QuicIdentity, Identity
<1>4. L2tpv3Decl.identity = {L2tpv3Identity} /\ L2tpv3Identity.key = <<Shared("session_id")>>
  BY DEF L2tpv3Decl, Declares, L2tpv3Identity, Identity
<1>5. /\ KeyFields(Dot11Decl) = Parts(Pair("addr1", "addr2"))
      /\ KeyFields(QuicDecl) = Parts(Shared("dcid"))
      /\ KeyFields(L2tpv3Decl) = Parts(Shared("session_id"))
  BY <1>1, <1>2, <1>3, <1>4
<1>. QED
  BY <1>5, PartsOf, LinkDecls, TunnelDecls

\* A layer of such a plugin has its keys unless it is of that kind.
LEMMA SeldomKept ==
  ASSUME NEW p \in SeldomKeyed, NEW h, NEW c, c.depth >= DepthKeys,
         NEW r, r = DefaultParse(p, h, c), r.ok,
         NEW l, l.protocol = p, l.headerLen = r.headerLen, l.hint = r.hint, ~Keyless(l)
  PROVE  KeyFields(DefaultDecl[p]) \subseteq DOMAIN r.fields
<1>1. CASE p = "dot11"
  BY <1>1, Dot11Keyed, SeldomKeys, LinkParse DEF Keyless
<1>2. CASE p = "quic"
  BY <1>2, QuicKeyed, SeldomKeys, TunnelParse DEF Keyless
<1>3. CASE p = "l2tpv3"
  BY <1>3, L2tpv3Keyed, SeldomKeys, TunnelParse DEF Keyless
<1>. QED
  BY <1>1, <1>2, <1>3 DEF SeldomKeyed

\* The layer of a step is kept.
LEMMA LayerKept ==
  ASSUME ShipsDefaults, KeptInv, Left \in Nat, NEW reading, NEW outcome, NEW shadow,
         Stepped(reading, outcome, shadow), outcome.found
  PROVE  Kept(RecordOf(outcome, cursor))
<1>. DEFINE p == outcome.protocol
            r == outcome.parsed
            l == RecordOf(outcome, cursor)
<1>1. p \in DOMAIN reading /\ r = Parse(p, reading[p], Context) /\ HeaderLenOk(r, Left)
  BY DEF Stepped, Answered, Answers
<1>2. PICK ps : reading \in Readings(ps, Left)
  BY DEF Stepped
<1>3. /\ l.protocol = p /\ l.fields = r.fields /\ l.hint = r.hint /\ r.ok
      /\ l.headerLen = r.headerLen
  BY <1>1 DEF RecordOf, HeaderLenOk
<1>4. opts.aggregation => Context.depth >= DepthKeys
  BY DEF KeptInv, Context, ContextAt, EffectiveDepth, DepthNone, DepthKeys, DepthFull
<1>. HIDE DEF l, p, r
<1>5. CASE p \in Shipped
  <2>1. /\ reading[p] \in DefaultHeader(p, Left) /\ r = DefaultParse(p, reading[p], Context)
        /\ Keeps(r, r, Left, Context, MustKeys(p))
    BY <1>1, <1>2, <1>5, ParseKept
  <2>2. opts.aggregation /\ ~Keyless(l) => KeyFields(Decl(p)) \subseteq DOMAIN r.fields
    <3>1. Decl(p) = DefaultDecl[p]
      BY <1>5 DEF ShipsDefaults
    <3>2. Context.depth >= DepthKeys => MustKeys(p) \subseteq DOMAIN r.fields
      BY <1>3, <2>1 DEF Keeps
    <3>3. CASE p \in SeldomKeyed
      BY <1>3, <1>4, <2>1, <3>1, <3>3, SeldomKept
    <3>4. CASE p \notin SeldomKeyed
      BY <1>4, <3>1, <3>2, <3>4 DEF MustKeys
    <3>. QED
      BY <3>3, <3>4
  <2>3. p = "icmpv6" /\ "rest" \in DOMAIN r.fields => r.fields["rest"] \in Nat
    <3>1. ASSUME p = "icmpv6"
          PROVE  \E h : h.rest \in Nat /\
                   r.fields = AtStructural(Context, [type |-> h.type, rest |-> h.rest])
      <4>1. PICK h : h = reading[p]
        OBVIOUS
      <4>2. h \in DefaultHeader("icmpv6", Left) /\ r = DefaultParse("icmpv6", h, Context) /\ r.ok
        BY <1>3, <2>1, <3>1, <4>1
      <4>3. h.rest \in Nat /\ r.fields = AtStructural(Context, [type |-> h.type, rest |-> h.rest])
        BY <4>2, Icmpv6Fields
      <4>. QED
        BY <4>3
    <3>2. ASSUME NEW h, h.rest \in Nat, NEW F,
                 F = AtStructural(Context, [type |-> h.type, rest |-> h.rest]),
                 "rest" \in DOMAIN F
          PROVE  F["rest"] \in Nat
      BY <3>2 DEF AtStructural, NoFields
    <3>. QED
      BY <3>1, <3>2
  <2>4. Hints(r.hint) /\ Listed(r.hint)
    BY <1>3, <2>1 DEF Keeps, Hints
  <2>. QED
    BY <1>3, <2>2, <2>3, <2>4 DEF Kept, l
<1>6. CASE p \notin Shipped
  <2>1. OthersKeyed /\ opts.aggregation => KeyFields(Decl(p)) \subseteq DOMAIN r.fields
    <3>. SUFFICES ASSUME OthersKeyed, opts.aggregation
         PROVE KeyFields(Decl(p)) \subseteq DOMAIN r.fields
      OBVIOUS
    <3>. QED
      BY <1>1, <1>2, <1>4, <1>6 DEF OthersKeyed
  <2>2. p # "icmpv6"
    BY <1>6, Icmpv6Ships
  <2>3. OthersListed => Listed(r.hint)
    BY <1>1, <1>2, <1>3, <1>6 DEF OthersListed
  <2>. QED
    BY <1>3, <1>6, <2>1, <2>2, <2>3 DEF Kept, l
<1>. QED
  BY <1>5, <1>6

\* A step keeps the layers and catches no plugin that ships in a lie.
LEMMA StepKept ==
  ASSUME ShipsDefaults, Inv, KeptInv, Left \in Nat, NEW reading, NEW outcome, NEW shadow,
         Stepped(reading, outcome, shadow)
  PROVE  KeptInv'
<1>1. PICK ps : reading \in Readings(ps, Left)
  BY DEF Stepped
<1>2. PICK report, pooled :
        Step(outcome, report, shadow, reading, Answers(reading, Context), pooled)
  BY DEF Stepped
<1>3. opts' = opts /\ lied' = Liars(Answers(reading, Context))
  BY <1>2 DEF Step
<1>4. ASSUME NEW p \in lied' \cap Shipped PROVE FALSE
  <2>1. /\ p \in DOMAIN reading /\ Parse(p, reading[p], Context).ok
        /\ ~HeaderLenOk(Parse(p, reading[p], Context), Left)
    BY <1>3 DEF Liars, Answers
  <2>2. Keeps(Parse(p, reading[p], Context), Parse(p, reading[p], Context), Left, Context,
          MustKeys(p))
    BY <1>1, <2>1, ParseKept
  <2>. QED
    BY <2>1, <2>2 DEF Keeps, HeaderLenOk
<1>5. ASSUME NEW i \in DOMAIN layers' PROVE Kept(layers'[i])
  <2>1. CASE Emit(outcome)
    <3>. DEFINE new == RecordOf(outcome, cursor)
    <3>1. layers' = Append(layers, new) /\ outcome.found
      BY <2>1 DEF Emit
    <3>2. Kept(new)
      BY <3>1, LayerKept
    <3>. HIDE DEF new
    <3>3. /\ DOMAIN layers = 1..Len(layers) /\ DOMAIN layers' = 1..(Len(layers) + 1)
          /\ Len(layers) \in Nat /\ layers'[Len(layers) + 1] = new
          /\ \A k \in 1..Len(layers) : layers'[k] = layers[k]
      BY <3>1, AppendAny DEF Inv, WalkType
    <3>4. CASE i = Len(layers) + 1
      BY <3>2, <3>3, <3>4
    <3>5. CASE i \in DOMAIN layers
      <4>1. layers'[i] = layers[i] /\ Kept(layers[i])
        BY <3>3, <3>5 DEF KeptInv
      <4>. QED
        BY <4>1, Zenon
    <3>. QED
      BY <3>3, <3>4, <3>5
  <2>2. CASE Halt(outcome, report)
    <3>1. layers' = layers
      BY <2>2 DEF Halt
    <3>. QED
      BY <3>1 DEF KeptInv
  <2>. QED
    BY <1>2, <2>1, <2>2 DEF Step
<1>6. \A i \in DOMAIN layers' : Kept(layers[i])'
  <2>. SUFFICES ASSUME NEW i \in DOMAIN layers' PROVE Kept(layers[i])'
    OBVIOUS
  <2>1. Kept(layers'[i])
    BY <1>5
  <2>. QED
    BY <1>3, <2>1 DEF Kept
<1>. QED
  BY <1>3, <1>4, <1>6 DEF KeptInv

\* Every action keeps them.
LEMMA NextKept ==
  ASSUME ShipsDefaults, Inv, KeptInv, [Next]_vars
  PROVE  KeptInv'
<1>1. CASE BuildEngine
  BY <1>1 DEF BuildEngine, walkVars, KeptInv, Kept, Keyless
<1>2. ASSUME NEW o \in Opts, Layers(o) PROVE KeptInv'
  <2>1. layers' = <<>> /\ lied' = lied
    BY <1>2 DEF Layers, walkVars, Inv, WalkType
  <2>2. opts'.depth \in DepthNone..DepthFull /\ opts'.aggregation \in BOOLEAN
    BY <1>2, OptsAssumption DEF Layers
  <2>. QED
    BY <2>1, <2>2 DEF KeptInv
<1>3. CASE AtCap
  BY <1>3 DEF AtCap, KeptInv, Kept, Keyless
<1>4. CASE EnterStep(Engines[using]) \/ NextStep(Engines[using])
  BY <1>4, WalkStepped, StepKept
<1>5. CASE Done \/ UNCHANGED vars
  BY <1>5 DEF Done, vars, walkVars, KeptInv, Kept, Keyless
<1>. QED
  BY <1>1, <1>2, <1>3, <1>4, <1>5 DEF Next

\* Nothing is emitted at first.
LEMMA InitKept == Init => KeptInv
<1>1. NoOpts.depth = 0 /\ NoOpts.aggregation = FALSE
  BY DEF NoOpts, DepthNone
<1>2. 0 \in DepthNone..DepthFull
  BY DEF DepthNone, DepthFull
<1>3. Init => opts.depth = 0 /\ opts.aggregation \in BOOLEAN /\ layers = <<>> /\ lied = {}
  BY <1>1, Zenon DEF Init, EmptyWalk
<1>. QED
  BY <1>2, <1>3 DEF KeptInv

\* In every state what is kept of the layers is kept.
LEMMA KeptCorrect == ASSUME ShipsDefaults PROVE Spec => []KeptInv
<1>1. Inv /\ KeptInv /\ [Next]_vars => KeptInv'
  BY NextKept
<1>. QED
  BY <1>1, InitKept, InvCorrect, PTL DEF Spec

\* With aggregation on, every layer has the fields of its stream key whatever
\* depth was asked for (depth.rs effective_depth raises it to Keys; plugin.rs
\* rule 4), with every default plugin, any headers, and any third-party plugin
\* that keeps the rule, but for three kinds of frame that break it: an 802.11
\* control frame of one address, a QUIC short header, an L2TPv3 control message.
THEOREM KeysCorrect == ASSUME ShipsDefaults, OthersKeyed PROVE Spec => []KeysPresent
<1>1. KeptInv => KeysPresent
  BY DEF KeptInv, Kept, KeysPresent
<1>. QED
  BY <1>1, KeptCorrect, PTL

----------------------------------------------------------------------------
(* Plugins of others, at every depth.                                      *)

\* A third-party plugin frames the bytes and scores them alike at every depth
\* (plugin.rs: depth decides what is extracted, and never what follows).
OthersDepthBlind ==
  \A p : p \notin Shipped =>
    \A h, c, d : Framing(c.layers) = Framing(d.layers) =>
      Alike(Parse(p, h, c), Parse(p, h, d)) /\ Probe(p, h, c) = Probe(p, h, d)

----------------------------------------------------------------------------
(* Two walks that agree take the same step.                                *)

\* Answers of the plugins ps that frame n bytes alike, but for those of U.
Agree(answers, others, ps, U, n) ==
  \A p \in ps : Alike(answers[p], others[p]) \/ (p \in U /\ HeaderLenOk(answers[p], n))

\* The outcomes of two such steps.
Match(outcome, shadow, answers, others) ==
  IF outcome.found
  THEN /\ shadow.found /\ shadow.protocol = outcome.protocol
       /\ outcome.parsed = answers[outcome.protocol] /\ shadow.parsed = others[outcome.protocol]
       /\ Alike(outcome.parsed, shadow.parsed) /\ outcome.parsed.ok
  ELSE ~shadow.found

MatchBut(outcome, shadow, answers, others, U) ==
  (outcome.found /\ outcome.protocol \in U) \/ Match(outcome, shadow, answers, others)

\* Headers framed alike fit the same bytes.
LEMMA AlikeOk ==
  ASSUME NEW r, NEW s, NEW n, Alike(r, s)
  PROVE  HeaderLenOk(r, n) <=> HeaderLenOk(s, n)
  BY DEF Alike, HeaderLenOk

\* Steps that stop match.
LEMMA StopsMatch ==
  ASSUME NEW answers, NEW others, NEW U
  PROVE  /\ \A a, b : MatchBut(StopAt(a), StopAt(b), answers, others, U)
         /\ \A a, b : MatchBut(Unclaimed(a), Unclaimed(b), answers, others, U)
  BY DEF MatchBut, Match, StopAt, Unclaimed

\* Steps that find one plugin match when it frames the bytes alike.
LEMMA FoundMatch ==
  ASSUME NEW answers, NEW others, NEW U, NEW p, NEW g, NEW n, HeaderLenOk(answers[p], n),
         Alike(answers[p], others[p]) \/ p \in U
  PROVE  MatchBut(Found(p, answers[p], g), Found(p, others[p], g), answers, others, U)
<1>1. /\ Found(p, answers[p], g).protocol = p /\ Found(p, answers[p], g).parsed = answers[p]
      /\ Found(p, others[p], g).protocol = p /\ Found(p, others[p], g).parsed = others[p]
      /\ Found(p, answers[p], g).found = TRUE /\ Found(p, others[p], g).found = TRUE
  BY DEF Found
<1>2. answers[p].ok
  BY DEF HeaderLenOk
<1>. QED
  BY <1>1, <1>2, Zenon DEF MatchBut, Match

\* A plugin that is excused matches anything.
LEMMA UFound ==
  ASSUME NEW answers, NEW others, NEW U, NEW p \in U, NEW r, NEW g, NEW shadow
  PROVE  MatchBut(Found(p, r, g), shadow, answers, others, U)
<1>1. Found(p, r, g).protocol = p /\ Found(p, r, g).found = TRUE
  BY DEF Found
<1>. QED
  BY <1>1, Zenon DEF MatchBut

\* A named plugin is found, or its failure stops the walk.
LEMMA ExplicitShape ==
  ASSUME NEW p, NEW answers, NEW n
  PROVE  IF HeaderLenOk(answers[p], n) THEN DispatchExplicit(p, answers, n) =
           Found(p, answers[p], FALSE)
         ELSE DispatchExplicit(p, answers, n) \in {StopAt("truncated"), StopAt("plugin_error")}
  BY DEF DispatchExplicit, HeaderLenOk

\* A named plugin answers both walks alike.
LEMMA ExplicitMatch ==
  ASSUME NEW answers, NEW others, NEW U, NEW n, NEW ps, NEW p \in ps,
         Agree(answers, others, ps, U, n)
  PROVE  MatchBut(DispatchExplicit(p, answers, n), DispatchExplicit(p, others, n), answers, others,
           U)
<1>1. CASE Alike(answers[p], others[p])
  <2>1. HeaderLenOk(answers[p], n) <=> HeaderLenOk(others[p], n)
    BY <1>1, AlikeOk
  <2>2. CASE HeaderLenOk(answers[p], n)
    BY <1>1, <2>1, <2>2, ExplicitShape, FoundMatch
  <2>3. CASE ~HeaderLenOk(answers[p], n)
    BY <2>1, <2>3, ExplicitShape, StopsMatch
  <2>. QED
    BY <2>2, <2>3
<1>2. CASE p \in U /\ HeaderLenOk(answers[p], n)
  BY <1>2, ExplicitShape, UFound
<1>. QED
  BY <1>1, <1>2 DEF Agree

\* The place of the first plugin of a list that parses.
IsFirst(list, answers, n, i) ==
  /\ i \in DOMAIN list /\ HeaderLenOk(answers[list[i]], n)
  /\ \A j \in DOMAIN list : j < i => ~HeaderLenOk(answers[list[j]], n)

\* FirstParsed finds the first that parses.
LEMMA FirstShape ==
  ASSUME NEW list, DOMAIN list \in SUBSET Nat, NEW answers, NEW n, NEW g, NEW otherwise
  PROVE  /\ \A i : IsFirst(list, answers, n, i) =>
              FirstParsed(list, answers, n, g, otherwise) = Found(list[i], answers[list[i]], g)
         /\ (~\E i : IsFirst(list, answers, n, i)) =>
              FirstParsed(list, answers, n, g, otherwise) = StopAt(otherwise)
<1>. DEFINE Parsed(i) == answers[list[i]]
            First(i) == /\ HeaderLenOk(Parsed(i), n)
                        /\ \A j \in DOMAIN list : j < i => ~HeaderLenOk(Parsed(j), n)
            first == CHOOSE i \in DOMAIN list : First(i)
<1>1. \A i : IsFirst(list, answers, n, i) <=> i \in DOMAIN list /\ First(i)
  BY DEF IsFirst
<1>2. FirstParsed(list, answers, n, g, otherwise) =
        IF \E i \in DOMAIN list : First(i) THEN Found(list[first], Parsed(first), g)
          ELSE StopAt(otherwise)
  BY DEF FirstParsed
<1>3. ASSUME NEW i \in DOMAIN list, First(i), NEW j \in DOMAIN list, First(j) PROVE i = j
  <2>1. ~(i < j) /\ ~(j < i)
    BY <1>3
  <2>2. i \in Nat /\ j \in Nat
    OBVIOUS
  <2>. QED
    BY <2>1, <2>2
<1>4. (\E i \in DOMAIN list : First(i)) => first \in DOMAIN list /\ First(first)
  OBVIOUS
<1>. HIDE DEF first, First
<1>5. ASSUME NEW i, IsFirst(list, answers, n, i)
      PROVE  FirstParsed(list, answers, n, g, otherwise) = Found(list[i], answers[list[i]], g)
  BY <1>1, <1>2, <1>3, <1>4, <1>5
<1>. QED
  BY <1>1, <1>2, <1>5

\* The first of a list to parse is the same for both walks.
LEMMA FirstMatch ==
  ASSUME NEW answers, NEW others, NEW U, NEW n, NEW ps, Agree(answers, others, ps, U, n),
         NEW list, DOMAIN list \in SUBSET Nat, \A i \in DOMAIN list : list[i] \in ps,
         NEW g, NEW otherwise
  PROVE  MatchBut(FirstParsed(list, answers, n, g, otherwise),
                  FirstParsed(list, others, n, g, otherwise), answers, others, U)
<1>1. ASSUME NEW i \in DOMAIN list
      PROVE  \/ HeaderLenOk(answers[list[i]], n) <=> HeaderLenOk(others[list[i]], n)
             \/ list[i] \in U /\ HeaderLenOk(answers[list[i]], n)
  BY AlikeOk DEF Agree
<1>2. CASE \E i : IsFirst(list, answers, n, i)
  <2>1. PICK i : IsFirst(list, answers, n, i)
    BY <1>2
  <2>2. FirstParsed(list, answers, n, g, otherwise) = Found(list[i], answers[list[i]], g)
    BY <2>1, FirstShape
  <2>3. CASE list[i] \in U
    BY <2>2, <2>3, UFound
  <2>4. CASE list[i] \notin U
    <3>1. Alike(answers[list[i]], others[list[i]]) /\ i \in DOMAIN list /\
            HeaderLenOk(answers[list[i]], n)
      BY <2>1, <2>4 DEF Agree, IsFirst
    <3>2. IsFirst(list, others, n, i)
      BY <1>1, <2>1, <2>4 DEF IsFirst
    <3>3. FirstParsed(list, others, n, g, otherwise) = Found(list[i], others[list[i]], g)
      BY <3>2, FirstShape
    <3>. QED
      BY <2>2, <3>1, <3>3, FoundMatch
  <2>. QED
    BY <2>3, <2>4
<1>3. CASE ~\E i : IsFirst(list, answers, n, i)
  <2>1. ASSUME NEW i \in DOMAIN list PROVE ~HeaderLenOk(answers[list[i]], n)
    <3>. DEFINE S == {k \in DOMAIN list : HeaderLenOk(answers[list[k]], n)}
    <3>1. S \in SUBSET Nat
      OBVIOUS
    <3>2. S # {} => \E x \in S : \A y \in S : x <= y
      <4>. HIDE DEF S
      <4>. QED
        BY <3>1, LeastNat
    <3>3. ASSUME NEW x \in S, \A y \in S : x <= y PROVE IsFirst(list, answers, n, x)
      BY <3>3 DEF IsFirst
    <3>. QED
      BY <1>3, <3>2, <3>3
  <2>2. ~\E i : IsFirst(list, others, n, i)
    BY <1>1, <2>1 DEF IsFirst
  <2>. QED
    BY <1>3, <2>2, FirstShape, StopsMatch
<1>. QED
  BY <1>2, <1>3

\* The pool guesses alike for both walks when it scores alike.
LEMMA FallbackMatch ==
  ASSUME NEW e, Pooled(e), NEW scores, NEW answers, NEW others, NEW n, NEW U,
         Agree(answers, others, PoolNames(e), U, n), PoolNames(e) \cap U = {}
  PROVE  MatchBut(HeuristicFallback(e, scores, answers, n),
           HeuristicFallback(e, scores, others, n),
                  answers, others, U)
<1>1. \A i \in e.pool : Alike(answers[e.plugins[i]], others[e.plugins[i]])
  BY DEF Agree, PoolNames
<1>2. PICK A : A = Able(e, scores, answers, n)
  OBVIOUS
<1>3. A = Able(e, scores, others, n)
  BY <1>1, <1>2, AlikeOk DEF Able, Worth
<1>4. Worth(e, scores) \cap A = A
  BY <1>2 DEF Able
<1>5. CASE A = {}
  <2>1. HeuristicFallback(e, scores, answers, n) = StopAt("unknown_hint")
    BY <1>2, <1>4, <1>5, FallbackPicks, ZenonT(40) DEF Picked
  <2>2. HeuristicFallback(e, scores, others, n) = StopAt("unknown_hint")
    BY <1>3, <1>4, <1>5, FallbackPicks, ZenonT(40) DEF Picked
  <2>. QED
    BY <2>1, <2>2, StopsMatch
<1>6. CASE A # {}
  <2>1. PICK i : i = BestOf(scores, A)
    OBVIOUS
  <2>2. A \in SUBSET Nat /\ \A k \in A : scores[k] \in MinConfidence..MaxConfidence
    BY <1>2 DEF Able, Worth, Pooled
  <2>3. i \in A
    BY <1>6, <2>1, <2>2, BestExists DEF IsBest
  <2>4. HeaderLenOk(answers[e.plugins[i]], n) /\ i \in e.pool
    BY <1>2, <2>3 DEF Able, Worth
  <2>5. HeuristicFallback(e, scores, answers, n) =
          Found(e.plugins[i], answers[e.plugins[i]], TRUE)
    BY <1>2, <1>4, <1>6, <2>1, FallbackPicks DEF Picked
  <2>6. HeuristicFallback(e, scores, others, n) = Found(e.plugins[i], others[e.plugins[i]], TRUE)
    BY <1>3, <1>4, <1>6, <2>1, FallbackPicks DEF Picked
  <2>. QED
    BY <1>1, <2>4, <2>5, <2>6, FoundMatch
<1>. QED
  BY <1>5, <1>6

\* After a layer both walks take matching steps.
LEMMA NextMatch ==
  ASSUME NEW e, Pooled(e), NEW hint, NEW scores, NEW shadows, NEW answers, NEW others, NEW n,
         NEW U,
         hint.kind = "candidates" => DOMAIN hint.ids \in SUBSET Nat,
         n # 0 => Agree(answers, others, Targets(e, hint), U, n), PoolNames(e) \cap U = {},
         hint.kind = "unknown" => shadows = scores
  PROVE  MatchBut(ResolveNext(e, hint, scores, answers, n),
           ResolveNext(e, hint, shadows, others, n),
                  answers, others, U)
<1>. DEFINE outcome == ResolveNext(e, hint, scores, answers, n)
            shadow == ResolveNext(e, hint, shadows, others, n)
            ps == Targets(e, hint)
            Goal == MatchBut(outcome, shadow, answers, others, U)
<1>1. CASE n = 0
  BY <1>1, StopsMatch DEF ResolveNext
<1>2. CASE n # 0 /\ hint.kind = "route"
  <2>1. CASE hint.id \in DOMAIN e.routes
    <3>1. /\ e.routes[hint.id] \in ps
          /\ outcome = DispatchExplicit(e.routes[hint.id], answers, n)
          /\ shadow = DispatchExplicit(e.routes[hint.id], others, n)
      BY <1>2, <2>1 DEF ResolveNext, Targets, PluginForRoute
    <3>. QED
      BY <1>2, <3>1, ExplicitMatch
  <2>. QED
    BY <1>2, <2>1, StopsMatch DEF ResolveNext
<1>3. CASE n # 0 /\ hint.kind = "candidates"
  <2>. DEFINE ids == hint.ids
              claimed == {i \in DOMAIN ids : ids[i] \in DOMAIN e.routes}
              list == [i \in claimed |-> e.routes[ids[i]]]
  <2>1. /\ outcome = ResolveCandidates(e, ids, answers, n)
        /\ shadow = ResolveCandidates(e, ids, others, n)
    BY <1>3 DEF ResolveNext
  <2>2. ps = UNION {PluginForRoute(e, id) : id \in ToSet(ids)}
    BY <1>3 DEF Targets
  <2>3. \A i \in claimed : ids[i] \in ToSet(ids) /\ e.routes[ids[i]] \in PluginForRoute(e, ids[i])
    BY DEF ToSet, PluginForRoute
  <2>4. DOMAIN list \in SUBSET Nat /\ \A i \in DOMAIN list : list[i] \in ps
    <3>. HIDE DEF ps
    <3>. QED
      BY <1>3, <2>2, <2>3
  <2>5. CASE ids = <<>>
    BY <2>1, <2>5, StopsMatch DEF ResolveCandidates
  <2>6. CASE ids # <<>> /\ claimed = {}
    BY <2>1, <2>6, StopsMatch DEF ResolveCandidates
  <2>7. CASE ids # <<>> /\ claimed # {}
    <3>1. /\ outcome = FirstParsed(list, answers, n, FALSE, "plugin_error")
          /\ shadow = FirstParsed(list, others, n, FALSE, "plugin_error")
      BY <2>1, <2>7 DEF ResolveCandidates
    <3>. HIDE DEF list
    <3>. QED
      BY <1>3, <2>4, <3>1, FirstMatch
  <2>. QED
    BY <2>5, <2>6, <2>7
<1>4. CASE n # 0 /\ hint.kind = "by_protocol"
  <2>1. CASE hint.name \in e.names
    <3>1. /\ hint.name \in ps
          /\ outcome = FirstParsed(<<hint.name>>, answers, n, FALSE, "plugin_error")
          /\ shadow = FirstParsed(<<hint.name>>, others, n, FALSE, "plugin_error")
      BY <1>4, <2>1 DEF ResolveNext, Targets
    <3>2. DOMAIN <<hint.name>> \in SUBSET Nat /\
            \A i \in DOMAIN <<hint.name>> : <<hint.name>>[i] \in ps
      BY <3>1
    <3>. QED
      BY <1>4, <3>1, <3>2, FirstMatch
  <2>. QED
    BY <1>4, <2>1, StopsMatch DEF ResolveNext
<1>5. CASE n # 0 /\ hint.kind = "unknown"
  <2>1. /\ ps = PoolNames(e) /\ outcome = HeuristicFallback(e, scores, answers, n)
        /\ shadow = HeuristicFallback(e, scores, others, n)
    BY <1>5 DEF ResolveNext, Targets
  <2>. QED
    BY <1>5, <2>1, FallbackMatch
<1>6. CASE n # 0 /\ hint.kind \notin {"route", "candidates", "by_protocol", "unknown"}
  BY <1>6, StopsMatch DEF ResolveNext
<1>. QED
  BY <1>1, <1>2, <1>3, <1>4, <1>5, <1>6

\* At the first byte both walks take matching steps.
LEMMA EntryMatch ==
  ASSUME Pooled(Engines[using]), NEW scores, NEW shadows, NEW answers, NEW others, NEW U,
         Left # 0 => Agree(answers, others, EntryTargets(Engines[using]), U, Left),
         PoolNames(Engines[using]) \cap U = {}, shadows = scores
  PROVE  MatchBut(ResolveEntry(Engines[using], opts, scores, answers, Left),
                  ResolveEntry(Engines[using], opts, shadows, others, Left), answers, others, U)
<1>. DEFINE e == Engines[using]
            id == LinkType(opts.link)
            ps == EntryTargets(e)
            outcome == ResolveEntry(e, opts, scores, answers, Left)
            shadow == ResolveEntry(e, opts, scores, others, Left)
<1>. HIDE DEF e
<1>1. CASE Left = 0
  BY <1>1, StopsMatch DEF ResolveEntry
<1>2. CASE Left # 0 /\ opts.entry # ""
  <2>1. /\ opts.entry \in ps /\ outcome = DispatchExplicit(opts.entry, answers, Left)
        /\ shadow = DispatchExplicit(opts.entry, others, Left)
    BY <1>2 DEF ResolveEntry, EntryTargets
  <2>. QED
    BY <1>2, <2>1, ExplicitMatch DEF e
<1>3. CASE Left # 0 /\ opts.entry = "" /\ id \in DOMAIN e.routes
  <2>1. /\ e.routes[id] \in ps /\ outcome = DispatchExplicit(e.routes[id], answers, Left)
        /\ shadow = DispatchExplicit(e.routes[id], others, Left)
    BY <1>3 DEF ResolveEntry, EntryTargets
  <2>. QED
    BY <1>3, <2>1, ExplicitMatch DEF e
<1>4. CASE Left # 0 /\ opts.entry = "" /\ id \notin DOMAIN e.routes
  <2>1. CASE opts.heuristics
    <3>1. /\ ps = PoolNames(e) /\ outcome = HeuristicFallback(e, scores, answers, Left)
          /\ shadow = HeuristicFallback(e, scores, others, Left)
      BY <1>4, <2>1 DEF ResolveEntry, EntryTargets
    <3>. QED
      BY <1>4, <3>1, FallbackMatch DEF e
  <2>2. CASE ~opts.heuristics
    <3>1. outcome = Unclaimed(id) /\ shadow = Unclaimed(id)
      BY <1>4, <2>2 DEF ResolveEntry
    <3>. QED
      BY <3>1, StopsMatch DEF e
  <2>. QED
    BY <2>1, <2>2
<1>. QED
  BY <1>1, <1>2, <1>3, <1>4

----------------------------------------------------------------------------
(* The walk at depth Full comes the same way.                              *)

\* A layer has what the plugins read back of it at depth Full, where the walk's
\* own depth extracts it: an ICMPv6 message its type, a frame its address.
Echoes(l, f) ==
  /\ l.protocol = "icmpv6" => IF EffectiveDepth(opts) >= DepthStructural
                              THEN f.fields = l.fields ELSE l.fields = NoFields
  /\ l.protocol = "ethernet" /\ EffectiveDepth(opts) >= DepthKeys => f.fields = l.fields

InStep ==
  /\ Framing(full) = Framing(layers)
  /\ \A i \in DOMAIN layers : Echoes(layers[i], full[i])

\* A plugin read back a field that the walk's depth leaves out.
Blocked ==
  /\ EffectiveDepth(opts) < DepthStructural
  /\ \E i \in DOMAIN layers : layers[i].protocol \in Untyped

BlindInv ==
  /\ IsSeq(full)
  /\ phase # "walk" => full = <<>>
  /\ Blocked \/ Addressless \/ InStep

\* The effective depth is one of the depths.
LEMMA EffectiveRange ==
  ASSUME KeptInv PROVE EffectiveDepth(opts) \in DepthNone..DepthFull
  BY DEF KeptInv, EffectiveDepth, DepthNone, DepthKeys, DepthFull

\* Layers that are framed alike are of the same protocols.
LEMMA SameWay ==
  ASSUME InStep
  PROVE  /\ DOMAIN full = DOMAIN layers
         /\ \A i \in DOMAIN layers : full[i].protocol = layers[i].protocol
<1>1. DOMAIN Framing(full) = DOMAIN full /\ DOMAIN Framing(layers) = DOMAIN layers
  BY DEF Framing
<1>2. \A i \in DOMAIN full : Framing(full)[i][1] = full[i].protocol
  BY DEF Framing
<1>3. \A i \in DOMAIN layers : Framing(layers)[i][1] = layers[i].protocol
  BY DEF Framing
<1>. QED
  BY <1>1, <1>2, <1>3 DEF InStep

\* Both walks come from the same layer.
LEMMA SamePrev ==
  ASSUME Inv, BlindInv, InStep
  PROVE  Prev(Context) = Prev(ContextAt(full, DepthFull))
<1>1. Context.layers = layers /\ ContextAt(full, DepthFull).layers = full
  BY DEF Context, ContextAt
<1>2. Len(full) = Len(layers) /\ DOMAIN layers = 1..Len(layers) /\ Len(layers) \in Nat
  BY SameWay, AppendAny DEF Inv, WalkType, BlindInv
<1>3. full = <<>> <=> layers = <<>>
  BY <1>2 DEF Inv, WalkType, BlindInv, IsSeq
<1>4. layers # <<>> => Len(layers) \in DOMAIN layers
  BY <1>2 DEF Inv, WalkType, IsSeq
<1>. QED
  BY <1>1, <1>2, <1>3, <1>4, SameWay DEF Prev

\* What is read back of the layers of a protocol whose fields are the same.
LEMMA SameField ==
  ASSUME InStep, NEW p, NEW f,
         \A i \in DOMAIN layers : layers[i].protocol = p => full[i].fields = layers[i].fields
  PROVE  FieldOf(Context, p, f) = FieldOf(ContextAt(full, DepthFull), p, f)
<1>1. Context.layers = layers /\ ContextAt(full, DepthFull).layers = full
  BY DEF Context, ContextAt
<1>. DEFINE at == {i \in DOMAIN layers : layers[i].protocol = p}
            nearest == {i \in at : \A j \in at : j <= i}
<1>2. at = {i \in DOMAIN full : full[i].protocol = p}
  BY SameWay
<1>3. \A i \in nearest : full[i].fields = layers[i].fields
  OBVIOUS
<1>4. FieldOf(Context, p, f) =
        {layers[i].fields[f] : i \in {n \in nearest : f \in DOMAIN layers[n].fields}}
  BY <1>1 DEF FieldOf
<1>5. FieldOf(ContextAt(full, DepthFull), p, f) =
        {full[i].fields[f] : i \in {n \in nearest : f \in DOMAIN full[n].fields}}
  BY <1>1, <1>2, Zenon DEF FieldOf
<1>. HIDE DEF at, nearest
<1>. QED
  BY <1>3, <1>4, <1>5

\* From Structural on both walks read back the same ICMPv6 message.
LEMMA SameMessages ==
  ASSUME KeptInv, InStep, EffectiveDepth(opts) >= DepthStructural
  PROVE  SameMessage(Context, ContextAt(full, DepthFull))
<1>1. \A i \in DOMAIN layers : layers[i].protocol = "icmpv6" => full[i].fields = layers[i].fields
  BY DEF InStep, Echoes
<1>2. FieldOf(Context, "icmpv6", "rest") \subseteq Nat
  BY ContextMessage DEF SameMessage
<1>. QED
  BY <1>1, <1>2, SameField DEF SameMessage

\* Below Structural no message type is there to be read.
LEMMA NoMessage ==
  ASSUME InStep, ~(EffectiveDepth(opts) >= DepthStructural)
  PROVE  FieldOf(Context, "icmpv6", "type") = {}
<1>1. \A i \in DOMAIN layers : layers[i].protocol = "icmpv6" => DOMAIN layers[i].fields = {}
  BY DEF InStep, Echoes, NoFields
<1>2. Context.layers = layers
  BY DEF Context, ContextAt
<1>. QED
  BY <1>1, <1>2 DEF FieldOf

\* Where the pool is asked, both walks read back the same address.
LEMMA SameAddress ==
  ASSUME KeptInv, InStep, ~Addressless, \E i \in DOMAIN layers : layers[i].hint.kind = "unknown"
  PROVE  FieldOf(Context, "ethernet", "dst_mac") =
           FieldOf(ContextAt(full, DepthFull), "ethernet", "dst_mac")
<1>1. EffectiveDepth(opts) \in Int /\ DepthKeys \in Int
  BY EffectiveRange DEF DepthNone, DepthKeys, DepthFull
<1>2. EffectiveDepth(opts) >= DepthKeys \/
        ~\E i \in DOMAIN layers : layers[i].protocol = "ethernet"
  BY <1>1 DEF Addressless
<1>3. \A i \in DOMAIN layers : layers[i].protocol = "ethernet" =>
        full[i].fields = layers[i].fields
  BY <1>2 DEF InStep, Echoes
<1>. QED
  BY <1>3, SameField

\* Of the context the probes of the plugins that ship read only an address.
LEMMA ShippedProbe ==
  ASSUME NEW p, NEW h, NEW c, NEW d,
         FieldOf(c, "ethernet", "dst_mac") = FieldOf(d, "ethernet", "dst_mac")
  PROVE  DefaultProbe(p, h, c) = DefaultProbe(p, h, d)
<1>1. LlcProbe(h, c) = LlcProbe(h, d)
  BY DEF LlcProbe
<1>. QED
  BY <1>1 DEF DefaultProbe

\* So the pool is scored alike for both.
LEMMA SameScores ==
  ASSUME ShipsDefaults, OthersDepthBlind, InStep,
         Prev(Context) = Prev(ContextAt(full, DepthFull)),
         FieldOf(Context, "ethernet", "dst_mac") =
           FieldOf(ContextAt(full, DepthFull), "ethernet", "dst_mac"),
         NEW e, NEW reading
  PROVE  ScoreFallbackPool(e, reading, ContextAt(full, DepthFull)) =
           ScoreFallbackPool(e, reading, Context)
<1>. DEFINE c == Context
            d == ContextAt(full, DepthFull)
<1>1. Framing(c.layers) = Framing(d.layers)
  BY DEF InStep, Context, ContextAt
<1>2. \A p : Probe(p, reading[p], c) = Probe(p, reading[p], d)
  <2>. SUFFICES ASSUME NEW p PROVE Probe(p, reading[p], c) = Probe(p, reading[p], d)
    OBVIOUS
  <2>1. CASE p \in Shipped
    BY <2>1, ShippedProbe DEF ShipsDefaults
  <2>2. CASE p \notin Shipped
    BY <1>1, <2>2 DEF OthersDepthBlind
  <2>. QED
    BY <2>1, <2>2
<1>3. Prev(c) = Prev(d)
  OBVIOUS
<1>. HIDE DEF c, d
<1>4. \A p : PoolScore(p, reading, c) = PoolScore(p, reading, d)
  BY <1>2, <1>3 DEF PoolScore
<1>. QED
  BY <1>4 DEF ScoreFallbackPool, c, d

\* Below Structural ndp and mld take what is left whole.
Unread == IF EffectiveDepth(opts) >= DepthStructural THEN {} ELSE Untyped

\* Without a message type ndp and mld take the message whole.
LEMMA UnreadWhole ==
  ASSUME NEW n \in Nat, NEW p \in Untyped, NEW h \in DefaultHeader(p, n), NEW c,
         FieldOf(c, "icmpv6", "type") = {}
  PROVE  HeaderLenOk(DefaultParse(p, h, c), n)
<1>1. p \in NetworkFamily /\ h \in NetworkHeader(p, n)
  BY FamilyHeaders DEF NetworkFamily, Untyped
<1>2. h.len = n
  BY <1>1 DEF NetworkHeader, Untyped
<1>3. HeaderLenOk(Layer(n, NoFields, Terminal), n)
  BY DEF HeaderLenOk, Layer
<1>4. DefaultParse(p, h, c) = Layer(n, NoFields, Terminal)
  BY <1>2, NetworkParse DEF Untyped, Ndp, Mld
<1>. QED
  BY <1>3, <1>4

\* The plugins that are asked frame the bytes alike for both walks, but ndp
\* and mld below Structural.
LEMMA StepAgrees ==
  ASSUME ShipsDefaults, OthersDepthBlind, Inv, KeptInv, BlindInv, InStep, Left \in Nat,
         NEW ps, NEW reading \in Readings(ps, Left), NEW qs, qs \subseteq DOMAIN reading
  PROVE  Agree(Answers(reading, Context), Answers(reading, ContextAt(full, DepthFull)), qs, Unread,
           Left)
<1>. DEFINE c == Context
            d == ContextAt(full, DepthFull)
<1>. SUFFICES ASSUME NEW p \in qs
              PROVE  \/ Alike(Parse(p, reading[p], c), Parse(p, reading[p], d))
                     \/ p \in Unread /\ HeaderLenOk(Parse(p, reading[p], c), Left)
  BY DEF Agree, Answers
<1>1. Framing(c.layers) = Framing(d.layers) /\ Prev(c) = Prev(d)
  BY SamePrev DEF InStep, Context, ContextAt
<1>2. CASE p \notin Shipped
  BY <1>1, <1>2 DEF OthersDepthBlind
<1>3. CASE p \in Shipped
  <2>1. /\ reading[p] \in DefaultHeader(p, Left)
        /\ Parse(p, reading[p], c) = DefaultParse(p, reading[p], c)
        /\ Parse(p, reading[p], d) = DefaultParse(p, reading[p], d)
    BY <1>3 DEF ShipsDefaults
  <2>. HIDE DEF c, d
  <2>2. ASSUME p \in Untyped => SameMessage(c, d)
        PROVE Alike(Parse(p, reading[p], c), Parse(p, reading[p], d))
    BY <1>1, <1>3, <2>1, <2>2, ShippedKeep DEF Keeps
  <2>3. CASE EffectiveDepth(opts) >= DepthStructural
    BY <2>2, <2>3, SameMessages DEF c, d
  <2>4. CASE p \in Untyped /\ ~(EffectiveDepth(opts) >= DepthStructural)
    <3>1. FieldOf(c, "icmpv6", "type") = {}
      BY <2>4, NoMessage DEF c
    <3>. QED
      BY <2>1, <2>4, <3>1, UnreadWhole DEF Unread
  <2>. QED
    BY <2>2, <2>3, <2>4
<1>. QED
  BY <1>2, <1>3

\* Neither of the two is in a fallback pool.
LEMMA UnreadUnpooled ==
  ASSUME ShipsDefaults, using \in DOMAIN Builders
  PROVE  PoolNames(Engines[using]) \cap Unread = {}
<1>. DEFINE e == Engines[using]
<1>1. \A i \in e.pool : Decl(e.plugins[i]).probes
  BY DEF Engines, Build
<1>2. "ndp" \in Shipped /\ "mld" \in Shipped
  <2>1. /\ 10 \in DOMAIN DefaultPlugins /\ DefaultPlugins[10] = "ndp"
        /\ 11 \in DOMAIN DefaultPlugins /\ DefaultPlugins[11] = "mld"
    BY DEF DefaultPlugins
  <2>. QED
    BY <2>1 DEF Shipped, ToSet
<1>3. Decl("ndp") = NdpDecl /\ Decl("mld") = MldDecl
  <2>1. DefaultDecl.ndp = NdpDecl /\ DefaultDecl.mld = MldDecl
    BY DEF DefaultDecl
  <2>. QED
    BY <1>2, <2>1 DEF ShipsDefaults
<1>4. NdpDecl.probes = FALSE /\ MldDecl.probes = FALSE
  BY DEF NdpDecl, MldDecl, Declares
<1>. QED
  BY <1>1, <1>3, <1>4, Zenon DEF PoolNames, Unread, Untyped

\* So both walks take matching steps.
LEMMA StepMatches ==
  ASSUME ShipsDefaults, OthersListed, OthersDepthBlind, Inv, KeptInv, BlindInv, InStep,
         ~Addressless,
         Left \in Nat, NEW reading, NEW outcome, NEW shadow,
         Stepped(reading, outcome, shadow), Resolved(reading, outcome, shadow)
  PROVE  MatchBut(outcome, shadow, Answers(reading, Context),
           Answers(reading, ContextAt(full, DepthFull)), Unread)
<1>. DEFINE e == Engines[using]
            answers == Answers(reading, Context)
            others == Answers(reading, ContextAt(full, DepthFull))
            scores == ScoreFallbackPool(e, reading, Context)
            shadows == ScoreFallbackPool(e, reading, ContextAt(full, DepthFull))
<1>1. Pooled(e) /\ PoolNames(e) \cap Unread = {}
  BY EnginePooled, UnreadUnpooled DEF Inv, WalkType
<1>2. PICK ps : reading \in Readings(ps, Left)
  BY DEF Stepped
<1>3. \A qs : qs \subseteq DOMAIN reading => Agree(answers, others, qs, Unread, Left)
  BY <1>2, StepAgrees
<1>4. CASE ~Started
  <2>1. layers = <<>>
    BY <1>4 DEF Started
  <2>2. FieldOf(Context, "ethernet", "dst_mac") =
          FieldOf(ContextAt(full, DepthFull), "ethernet", "dst_mac")
    BY <2>1, SameField
  <2>3. shadows = scores
    BY <2>2, SamePrev, SameScores
  <2>4. /\ Left # 0 => EntryTargets(e) \subseteq DOMAIN reading
        /\ outcome = ResolveEntry(e, opts, scores, answers, Left)
        /\ shadow = ResolveEntry(e, opts, shadows, others, Left)
    BY <1>4 DEF Resolved
  <2>. HIDE DEF answers, others, scores, shadows
  <2>5. MatchBut(outcome, shadow, answers, others, Unread)
    BY <1>1, <1>3, <2>3, <2>4, EntryMatch
  <2>. QED
    BY <2>5 DEF answers, others
<1>5. CASE Started
  <2>1. Len(layers) \in DOMAIN layers
    BY <1>5, AppendAny DEF Inv, WalkType, Started, IsSeq
  <2>2. Listed(Pending)
    BY <2>1 DEF Pending, KeptInv, Kept
  <2>3. ASSUME Pending.kind = "unknown" PROVE shadows = scores
    <3>1. \E i \in DOMAIN layers : layers[i].hint.kind = "unknown"
      BY <2>1, <2>3 DEF Pending
    <3>. QED
      BY <3>1, SameAddress, SamePrev, SameScores
  <2>4. /\ Left # 0 => Targets(e, Pending) \subseteq DOMAIN reading
        /\ outcome = ResolveNext(e, Pending, scores, answers, Left)
        /\ shadow = ResolveNext(e, Pending, shadows, others, Left)
    BY <1>5 DEF Resolved
  <2>5. Left # 0 => Agree(answers, others, Targets(e, Pending), Unread, Left)
    BY <1>3, <2>4
  <2>. HIDE DEF answers, others, scores, shadows, e
  <2>6. MatchBut(outcome, shadow, answers, others, Unread)
    BY <1>1, <2>2, <2>3, <2>4, <2>5, NextMatch DEF Listed
  <2>. QED
    BY <2>6 DEF answers, others
<1>. QED
  BY <1>4, <1>5

\* A layer that both walks emit is echoed.
LEMMA EthernetFields ==
  ASSUME NEW h, NEW c, NEW d, DefaultParse("ethernet", h, c).ok,
         DefaultParse("ethernet", h, d).ok,
         c.depth >= DepthKeys, d.depth >= DepthKeys
  PROVE  DefaultParse("ethernet", h, d).fields = DefaultParse("ethernet", h, c).fields
<1>1. \A x : Ethernet(h, x).ok /\ x.depth >= DepthKeys =>
        Ethernet(h, x).fields = [src_mac |-> 0, dst_mac |-> h.dst]
  BY DEF Ethernet, Need, Truncated, Layer
<1>. QED
  BY <1>1, NetworkParse

\* The plugin ethernet is in the default list.
LEMMA EthernetShips == "ethernet" \in Shipped
<1>1. 2 \in DOMAIN DefaultPlugins /\ DefaultPlugins[2] = "ethernet"
  BY DEF DefaultPlugins
<1>. QED
  BY <1>1 DEF Shipped, ToSet

\* The layer that matching steps emit has the same fields read back.
LEMMA StepEchoes ==
  ASSUME ShipsDefaults, KeptInv, Left \in Nat, NEW reading, NEW outcome, NEW shadow,
         Stepped(reading, outcome, shadow), outcome.found,
         Match(outcome, shadow, Answers(reading, Context),
           Answers(reading, ContextAt(full, DepthFull)))
  PROVE  Echoes(RecordOf(outcome, cursor), RecordOf(shadow, cursor))
<1>. DEFINE c == Context
            d == ContextAt(full, DepthFull)
            p == outcome.protocol
            r == outcome.parsed
            s == shadow.parsed
            l == RecordOf(outcome, cursor)
            f == RecordOf(shadow, cursor)
<1>1. /\ p \in DOMAIN reading /\ r = Parse(p, reading[p], c) /\ s = Parse(p, reading[p], d)
      /\ r.ok /\ s.ok
  BY DEF Stepped, Answered, Answers, Match, Alike
<1>2. PICK ps : reading \in Readings(ps, Left)
  BY DEF Stepped
<1>3. l.protocol = p /\ l.fields = r.fields /\ f.fields = s.fields
  BY DEF RecordOf
<1>4. c.depth = EffectiveDepth(opts) /\ d.depth >= DepthStructural /\ d.depth >= DepthKeys
  BY DEF Context, ContextAt, DepthFull, DepthStructural, DepthKeys
<1>5. PICK h : h = reading[p]
  OBVIOUS
<1>. HIDE DEF c, d, p, r, s, l, f
<1>6. ASSUME p \in Shipped
      PROVE  /\ h \in DefaultHeader(p, Left) /\ r = DefaultParse(p, h, c) /\
                  s = DefaultParse(p, h, d)
  BY <1>1, <1>2, <1>5, <1>6 DEF ShipsDefaults
<1>7. ASSUME p = "icmpv6"
      PROVE  IF EffectiveDepth(opts) >= DepthStructural THEN s.fields = r.fields
               ELSE r.fields = NoFields
  <2>1. /\ h \in DefaultHeader("icmpv6", Left) /\ r = DefaultParse("icmpv6", h, c)
        /\ s = DefaultParse("icmpv6", h, d)
    BY <1>6, <1>7, Icmpv6Ships
  <2>2. /\ r.fields = AtStructural(c, [type |-> h.type, rest |-> h.rest])
        /\ s.fields = AtStructural(d, [type |-> h.type, rest |-> h.rest])
    BY <1>1, <2>1, Icmpv6Fields
  <2>. QED
    BY <1>4, <2>2 DEF AtStructural
<1>8. ASSUME p = "ethernet", EffectiveDepth(opts) >= DepthKeys PROVE s.fields = r.fields
  <2>1. r = DefaultParse("ethernet", h, c) /\ s = DefaultParse("ethernet", h, d)
    BY <1>6, <1>8, EthernetShips
  <2>. QED
    BY <1>1, <1>4, <1>8, <2>1, EthernetFields
<1>9. Echoes(l, f)
  BY <1>3, <1>7, <1>8 DEF Echoes
<1>. QED
  BY <1>9 DEF l, f

\* What was read back stays read back.
LEMMA ExcusedStays ==
  ASSUME Inv, opts' = opts, NEW new, layers' \in {layers, Append(layers, new)}
  PROVE  (Blocked => Blocked') /\ (Addressless => Addressless')
<1>1. \A i \in DOMAIN layers : i \in DOMAIN layers' /\ layers'[i] = layers[i]
  BY AppendAny DEF Inv, WalkType
<1>. QED
  BY <1>1 DEF Blocked, Addressless, EffectiveDepth

\* Sequences with the same places are of the same length.
LEMMA SameLength ==
  ASSUME NEW s, IsSeq(s), NEW t, IsSeq(t), DOMAIN s = DOMAIN t
  PROVE  Len(s) = Len(t)
<1>1. /\ DOMAIN s = 1..Len(s) /\ Len(s) \in Nat
      /\ DOMAIN t = 1..Len(t) /\ Len(t) \in Nat
  BY AppendAny
<1>2. \A m, k \in Nat : 1..m = 1..k => m = k
  OBVIOUS
<1>. QED
  BY <1>1, <1>2, Zenon

\* Layers framed alike stay so with one more layer that is framed alike.
LEMMA FramingMore ==
  ASSUME NEW s, IsSeq(s), NEW t, IsSeq(t), Framing(s) = Framing(t), NEW x, NEW y,
         x.protocol = y.protocol, x.headerLen = y.headerLen, x.hint = y.hint
  PROVE  Framing(Append(s, x)) = Framing(Append(t, y))
<1>1. /\ DOMAIN s = DOMAIN t /\ \A i \in DOMAIN s : Framing(s)[i] = Framing(t)[i]
  <2>1. DOMAIN Framing(s) = DOMAIN s /\ DOMAIN Framing(t) = DOMAIN t
    BY DEF Framing
  <2>. QED
    BY <2>1
<1>2. /\ Len(s) \in Nat /\ Len(t) \in Nat /\ DOMAIN s = 1..Len(s) /\ DOMAIN t = 1..Len(t)
      /\ DOMAIN Append(s, x) = 1..(Len(s) + 1) /\ DOMAIN Append(t, y) = 1..(Len(t) + 1)
      /\ \A i \in 1..Len(s) : Append(s, x)[i] = s[i]
      /\ \A i \in 1..Len(t) : Append(t, y)[i] = t[i]
      /\ Append(s, x)[Len(s) + 1] = x /\ Append(t, y)[Len(t) + 1] = y
  BY AppendAny
<1>3. Len(s) = Len(t)
  BY <1>1, SameLength
<1>. DEFINE a == Append(s, x)
            b == Append(t, y)
            F(u, i) == <<u[i].protocol, u[i].headerLen, u[i].hint>>
<1>4. \A i \in DOMAIN s : F(s, i) = F(t, i)
  BY <1>1 DEF Framing
<1>. HIDE DEF a, b
<1>5. ASSUME NEW i \in DOMAIN a PROVE F(a, i) = F(b, i)
  <2>1. CASE i = Len(s) + 1
    BY <1>2, <1>3, <2>1 DEF a, b
  <2>2. CASE i \in DOMAIN s
    <3>1. a[i] = s[i] /\ b[i] = t[i]
      BY <1>2, <1>3, <2>2 DEF a, b
    <3>. QED
      BY <1>4, <2>2, <3>1
  <2>. QED
    BY <1>2, <1>5, <2>1, <2>2 DEF a
<1>6. DOMAIN a = DOMAIN b
  BY <1>2, <1>3 DEF a, b
<1>7. Framing(a) = Framing(b)
  BY <1>5, <1>6 DEF Framing
<1>. QED
  BY <1>7 DEF a, b

\* A step leaves the two walks in step, or one was excused.
LEMMA StepBlind ==
  ASSUME ShipsDefaults, OthersListed, OthersDepthBlind, Inv, KeptInv, BlindInv, Walking,
         Left \in Nat,
         NEW reading, NEW outcome, NEW shadow,
         Stepped(reading, outcome, shadow), Resolved(reading, outcome, shadow)
  PROVE  BlindInv'
<1>. DEFINE new == RecordOf(outcome, cursor)
            echo == RecordOf(shadow, cursor)
<1>1. PICK report, pooled :
        Step(outcome, report, shadow, reading, Answers(reading, Context), pooled)
  BY DEF Stepped
<1>2. opts' = opts /\ phase' = phase
  BY <1>1 DEF Step
<1>3. /\ outcome.found => layers' = Append(layers, new)
      /\ ~outcome.found => layers' = layers
  BY <1>1 DEF Step, Emit, Halt
<1>4. full' = IF Framing(full) = Framing(layers) /\ shadow.found THEN Append(full, echo) ELSE full
  BY <1>1 DEF Step, FollowAtFull
<1>. HIDE DEF new, echo
<1>5. IsSeq(full')
  BY <1>4, AppendAny DEF BlindInv
<1>6. phase' = "walk"
  BY <1>2 DEF Walking
<1>7. CASE Blocked \/ Addressless
  <2>1. Blocked' \/ Addressless'
    BY <1>2, <1>3, <1>7, ExcusedStays
  <2>. QED
    BY <1>5, <1>6, <2>1 DEF BlindInv
<1>8. CASE ~Addressless /\ InStep
  <2>1. MatchBut(outcome, shadow, Answers(reading, Context),
          Answers(reading, ContextAt(full, DepthFull)), Unread)
    BY <1>8, StepMatches
  <2>2. CASE outcome.found /\ outcome.protocol \in Unread
    <3>1. /\ DOMAIN layers' = 1..(Len(layers) + 1) /\ Len(layers) \in Nat
          /\ layers'[Len(layers) + 1] = new
      BY <1>3, <2>2, AppendAny DEF Inv, WalkType
    <3>2. new.protocol \in Untyped /\ ~(EffectiveDepth(opts) >= DepthStructural)
      BY <2>2 DEF new, RecordOf, Unread
    <3>3. EffectiveDepth(opts) < DepthStructural
      BY <3>2, EffectiveRange DEF DepthNone, DepthStructural, DepthFull
    <3>4. \E i \in DOMAIN layers' : layers'[i].protocol \in Untyped
      BY <3>1, <3>2
    <3>5. Blocked'
      BY <1>2, <3>3, <3>4 DEF Blocked, EffectiveDepth
    <3>. QED
      BY <1>5, <1>6, <3>5 DEF BlindInv
  <2>3. CASE ~outcome.found /\ ~shadow.found
    <3>1. layers' = layers /\ full' = full
      BY <1>3, <1>4, <2>3
    <3>2. InStep'
      BY <1>2, <1>8, <3>1 DEF InStep, Echoes, EffectiveDepth
    <3>. QED
      BY <1>5, <1>6, <3>2 DEF BlindInv
  <2>4. CASE /\ outcome.found
             /\ Match(outcome, shadow, Answers(reading, Context),
                  Answers(reading, ContextAt(full, DepthFull)))
    <3>1. Framing(full) = Framing(layers)
      BY <1>8 DEF InStep
    <3>2. layers' = Append(layers, new) /\ full' = Append(full, echo)
      BY <1>3, <1>4, <2>4, <3>1 DEF Match
    <3>3. echo.protocol = new.protocol /\ echo.headerLen = new.headerLen /\ echo.hint = new.hint
      BY <2>4 DEF Match, Alike, new, echo, RecordOf
    <3>4. Framing(full') = Framing(layers')
      BY <3>1, <3>2, <3>3, FramingMore DEF BlindInv, Inv, WalkType
    <3>5. Echoes(new, echo)
      BY <2>4, StepEchoes DEF new, echo
    <3>6. Len(full) = Len(layers)
      BY <1>8, SameWay, SameLength DEF BlindInv, Inv, WalkType
    <3>7. \A i \in DOMAIN layers' : Echoes(layers'[i], full'[i])
      <4>. SUFFICES ASSUME NEW i \in DOMAIN layers' PROVE Echoes(layers'[i], full'[i])
        OBVIOUS
      <4>1. /\ Len(layers) \in Nat /\ DOMAIN layers = 1..Len(layers) /\
                 DOMAIN layers' = 1..(Len(layers) + 1)
            /\ layers'[Len(layers) + 1] = new /\ full'[Len(layers) + 1] = echo
            /\ \A k \in 1..Len(layers) : layers'[k] = layers[k] /\ full'[k] = full[k]
        BY <3>2, <3>6, AppendAny DEF BlindInv, Inv, WalkType
      <4>2. CASE i = Len(layers) + 1
        BY <3>5, <4>1, <4>2
      <4>3. CASE i \in DOMAIN layers
        <5>1. layers'[i] = layers[i] /\ full'[i] = full[i] /\ Echoes(layers[i], full[i])
          BY <1>8, <4>1, <4>3 DEF InStep
        <5>. QED
          BY <5>1, Zenon
      <4>. QED
        BY <4>1, <4>2, <4>3
    <3>8. \A i \in DOMAIN layers' : Echoes(layers[i], full[i])'
      <4>. SUFFICES ASSUME NEW i \in DOMAIN layers' PROVE Echoes(layers[i], full[i])'
        OBVIOUS
      <4>1. Echoes(layers'[i], full'[i])
        BY <3>7
      <4>. QED
        BY <1>2, <4>1 DEF Echoes, EffectiveDepth
    <3>9. InStep'
      BY <3>4, <3>8 DEF InStep, Framing
    <3>. QED
      BY <1>5, <1>6, <3>9 DEF BlindInv
  <2>. QED
    BY <2>1, <2>2, <2>3, <2>4 DEF MatchBut, Match
<1>. QED
  BY <1>7, <1>8 DEF BlindInv

\* Every action does.
LEMMA NextBlind ==
  ASSUME ShipsDefaults, OthersListed, OthersDepthBlind, Inv, KeptInv, BlindInv, [Next]_vars
  PROVE  BlindInv'
<1>1. ASSUME layers = <<>>, full = <<>>, layers' = layers, full' = full PROVE BlindInv'
  <2>1. IsSeq(full') /\ DOMAIN layers' = {}
    BY <1>1 DEF IsSeq
  <2>. QED
    BY <1>1, <2>1 DEF BlindInv, InStep, Framing
<1>2. CASE BuildEngine
  <2>1. layers = <<>> /\ full = <<>> /\ layers' = layers /\ full' = full
    BY <1>2 DEF BuildEngine, walkVars, Inv, WalkType, BlindInv
  <2>. QED
    BY <1>1, <2>1
<1>3. ASSUME NEW o \in Opts, Layers(o) PROVE BlindInv'
  <2>1. layers = <<>> /\ full = <<>> /\ layers' = layers /\ full' = full
    BY <1>3 DEF Layers, walkVars, Inv, WalkType, BlindInv
  <2>. QED
    BY <1>1, <2>1
<1>4. CASE AtCap
  BY <1>4, SMTT(30)
     DEF AtCap, BlindInv, Blocked, Addressless, InStep, Echoes, EffectiveDepth, IsSeq, Framing
<1>5. CASE EnterStep(Engines[using]) \/ NextStep(Engines[using])
  BY <1>5, WalkStepped, StepBlind
<1>6. CASE Done \/ UNCHANGED vars
  BY <1>6, SMTT(30)
     DEF Done, vars, walkVars, BlindInv, Blocked, Addressless, InStep, Echoes, EffectiveDepth,
     IsSeq, Framing
<1>. QED
  BY <1>2, <1>3, <1>4, <1>5, <1>6 DEF Next

\* At first both walks are empty.
LEMMA InitBlind == Init => BlindInv
<1>. SUFFICES ASSUME Init PROVE BlindInv
  OBVIOUS
<1>1. layers = <<>> /\ full = <<>>
  BY DEF Init, EmptyWalk
<1>2. IsSeq(full) /\ DOMAIN layers = {}
  BY <1>1 DEF IsSeq
<1>. QED
  BY <1>1, <1>2 DEF BlindInv, InStep, Framing

\* The depth of extraction changes nothing of what a packet is found to be
\* (depth.rs, plugin.rs): at every depth the router takes the same path through
\* the packet as at Full, except behind a field that a plugin reads back and the
\* depth left out (icmpv6's type for ndp and mld, ethernet's address for llc).
THEOREM FramingCorrect ==
  ASSUME ShipsDefaults, OthersListed, OthersDepthBlind PROVE Spec => []FramingDepthBlind
<1>1. Inv /\ KeptInv /\ BlindInv /\ [Next]_vars => BlindInv'
  BY NextBlind
<1>2. BlindInv => FramingDepthBlind
  BY DEF BlindInv, Blocked, InStep, FramingDepthBlind
<1>. QED
  BY <1>1, <1>2, InitBlind, InvCorrect, KeptCorrect, PTL DEF Spec

----------------------------------------------------------------------------
(* The claims of the plugins that ship.                                    *)

LinkHolder(n) ==
  CASE n = 1 -> <<"ethernet", 1>> [] n = 105 -> <<"dot11", 1>> [] n = 127 -> <<"radiotap", 1>>

EtherHolder(n) ==
  CASE n = 2048 -> <<"ipv4", 1>> [] n = 2054 -> <<"arp", 1>> [] n = 8939 -> <<"erspan", 2>>
    [] n = 33024 -> <<"vlan", 1>> [] n = 34525 -> <<"ipv6", 1>> [] n = 34825 -> <<"lacp", 1>>
    [] n = 34887 -> <<"mpls", 1>> [] n = 34888 -> <<"mpls", 2>> [] n = 34915 -> <<"pppoe", 1>>
    [] n = 34916 -> <<"pppoe", 2>> [] n = 34958 -> <<"eapol", 1>> [] n = 34984 -> <<"vlan", 2>>
    [] n = 35006 -> <<"erspan", 1>> [] n = 35020 -> <<"lldp", 1>> [] n = 35063 -> <<"ptp", 3>>

IpHolder(n) ==
  CASE n = 1 -> <<"icmpv4", 1>> [] n = 2 -> <<"igmp", 1>> [] n = 4 -> <<"ipv4", 2>>
    [] n = 6 -> <<"tcp", 1>> [] n = 17 -> <<"udp", 1>> [] n = 41 -> <<"ipv6", 2>>
    [] n = 47 -> <<"gre", 1>> [] n = 50 -> <<"esp", 1>> [] n = 51 -> <<"ah", 1>>
    [] n = 58 -> <<"icmpv6", 1>> [] n = 89 -> <<"ospf", 1>> [] n = 112 -> <<"vrrp", 1>>
    [] n = 115 -> <<"l2tpv3", 2>> [] n = 132 -> <<"sctp", 1>>

UdpHolder(n) ==
  CASE n = 53 -> <<"dns", 1>> [] n = 67 -> <<"dhcp", 1>> [] n = 68 -> <<"dhcp", 2>>
    [] n = 69 -> <<"tftp", 1>> [] n = 88 -> <<"kerberos", 1>> [] n = 123 -> <<"ntp", 1>>
    [] n = 137 -> <<"netbios_ns", 1>> [] n = 161 -> <<"snmp", 1>> [] n = 162 -> <<"snmp", 2>>
    [] n = 319 -> <<"ptp", 1>> [] n = 320 -> <<"ptp", 2>> [] n = 443 -> <<"quic", 1>>
    [] n = 514 -> <<"syslog", 1>> [] n = 546 -> <<"dhcpv6", 2>> [] n = 547 -> <<"dhcpv6", 1>>
    [] n = 1701 -> <<"l2tpv3", 1>> [] n = 1812 -> <<"radius", 1>> [] n = 1813 -> <<"radius", 2>>
    [] n = 1900 -> <<"ssdp", 1>> [] n = 1985 -> <<"hsrp", 1>> [] n = 2049 -> <<"nfs", 1>>
    [] n = 2055 -> <<"netflow9", 1>> [] n = 2123 -> <<"gtp_c", 1>> [] n = 2152 -> <<"gtp_u", 1>>
    [] n = 3478 -> <<"stun", 1>> [] n = 3784 -> <<"bfd", 1>> [] n = 4739 -> <<"ipfix", 1>>
    [] n = 4784 -> <<"bfd", 2>> [] n = 4789 -> <<"vxlan", 1>> [] n = 4791 -> <<"rocev2", 1>>
    [] n = 5060 -> <<"sip", 1>> [] n = 5353 -> <<"mdns", 1>> [] n = 5355 -> <<"llmnr", 1>>
    [] n = 6081 -> <<"geneve", 1>> [] n = 20000 -> <<"dnp3", 2>>
    [] n = 47808 -> <<"bacnet_ip", 1>> [] n = 51820 -> <<"wireguard", 1>>

TcpHolder(n) ==
  CASE n = 21 -> <<"ftp", 1>> [] n = 22 -> <<"ssh", 1>> [] n = 25 -> <<"smtp", 1>>
    [] n = 53 -> <<"dns", 2>> [] n = 80 -> <<"http", 1>> [] n = 88 -> <<"kerberos", 2>>
    [] n = 110 -> <<"pop3", 1>> [] n = 143 -> <<"imap", 1>> [] n = 179 -> <<"bgp", 1>>
    [] n = 389 -> <<"ldap", 1>> [] n = 443 -> <<"tls", 1>> [] n = 445 -> <<"smb2", 1>>
    [] n = 502 -> <<"modbus", 1>> [] n = 1883 -> <<"mqtt", 1>> [] n = 2049 -> <<"nfs", 2>>
    [] n = 3478 -> <<"stun", 2>> [] n = 5060 -> <<"sip", 2>> [] n = 5672 -> <<"amqp", 1>>
    [] n = 6379 -> <<"redis", 1>> [] n = 20000 -> <<"dnp3", 1>> [] n = 44818 -> <<"enip", 1>>

MessageHolder(n) ==
  CASE n = 130 -> <<"mld", 1>> [] n = 131 -> <<"mld", 2>> [] n = 132 -> <<"mld", 3>>
    [] n = 133 -> <<"ndp", 1>> [] n = 134 -> <<"ndp", 2>> [] n = 135 -> <<"ndp", 3>>
    [] n = 136 -> <<"ndp", 4>> [] n = 137 -> <<"ndp", 5>> [] n = 143 -> <<"mld", 4>>

SnapHolder(n) ==
  CASE n = <<CiscoOui, 8192>> -> <<"cdp", 1>> [] n = <<CiscoOui, 267>> -> <<"pvst_plus", 1>>

\* The plugin that claims an id, and the place of the claim in its list.
Holder(id) ==
  CASE id[1] = "link_type" -> LinkHolder(id[2]) [] id[1] = "ethertype" -> EtherHolder(id[2])
    [] id[1] = "ip_protocol" -> IpHolder(id[2]) [] id[1] = "udp_port" -> UdpHolder(id[2])
    [] id[1] = "tcp_port" -> TcpHolder(id[2]) [] id[1] = "icmpv6_type" -> MessageHolder(id[2])
    [] id[1] = "snap_pid" -> SnapHolder(id[2]) [] id[1] = "pktt" -> <<"template", 1>>
    [] id[1] = "eth_llc_frame" -> <<"llc", 1>> [] id[1] = "llc_dsap" -> <<"stp", 1>>

\* The claims of link types.
LEMMA LinkHeld ==
  /\ Holder(LinkType(1)) = <<"ethernet", 1>>
  /\ Holder(LinkType(105)) = <<"dot11", 1>>
  /\ Holder(LinkType(127)) = <<"radiotap", 1>>
  BY DEF Holder, LinkHolder, LinkType

\* The claims of EtherTypes.
LEMMA EtherHeld ==
  /\ Holder(EtherType(2048)) = <<"ipv4", 1>>
  /\ Holder(EtherType(2054)) = <<"arp", 1>>
  /\ Holder(EtherType(8939)) = <<"erspan", 2>>
  /\ Holder(EtherType(33024)) = <<"vlan", 1>>
  /\ Holder(EtherType(34525)) = <<"ipv6", 1>>
  /\ Holder(EtherType(34825)) = <<"lacp", 1>>
  /\ Holder(EtherType(34887)) = <<"mpls", 1>>
  /\ Holder(EtherType(34888)) = <<"mpls", 2>>
  /\ Holder(EtherType(34915)) = <<"pppoe", 1>>
  /\ Holder(EtherType(34916)) = <<"pppoe", 2>>
  /\ Holder(EtherType(34958)) = <<"eapol", 1>>
  /\ Holder(EtherType(34984)) = <<"vlan", 2>>
  /\ Holder(EtherType(35006)) = <<"erspan", 1>>
  /\ Holder(EtherType(35020)) = <<"lldp", 1>>
  /\ Holder(EtherType(35063)) = <<"ptp", 3>>
  BY DEF Holder, EtherHolder, EtherType

\* The claims of IP protocol numbers.
LEMMA IpHeld ==
  /\ Holder(IpProtocol(1)) = <<"icmpv4", 1>>
  /\ Holder(IpProtocol(2)) = <<"igmp", 1>>
  /\ Holder(IpProtocol(4)) = <<"ipv4", 2>>
  /\ Holder(IpProtocol(6)) = <<"tcp", 1>>
  /\ Holder(IpProtocol(17)) = <<"udp", 1>>
  /\ Holder(IpProtocol(41)) = <<"ipv6", 2>>
  /\ Holder(IpProtocol(47)) = <<"gre", 1>>
  /\ Holder(IpProtocol(50)) = <<"esp", 1>>
  /\ Holder(IpProtocol(51)) = <<"ah", 1>>
  /\ Holder(IpProtocol(58)) = <<"icmpv6", 1>>
  /\ Holder(IpProtocol(89)) = <<"ospf", 1>>
  /\ Holder(IpProtocol(112)) = <<"vrrp", 1>>
  /\ Holder(IpProtocol(115)) = <<"l2tpv3", 2>>
  /\ Holder(IpProtocol(132)) = <<"sctp", 1>>
  BY DEF Holder, IpHolder, IpProtocol

\* The claims of UDP ports.
LEMMA UdpHeld ==
  /\ Holder(UdpPort(53)) = <<"dns", 1>>
  /\ Holder(UdpPort(67)) = <<"dhcp", 1>>
  /\ Holder(UdpPort(68)) = <<"dhcp", 2>>
  /\ Holder(UdpPort(69)) = <<"tftp", 1>>
  /\ Holder(UdpPort(88)) = <<"kerberos", 1>>
  /\ Holder(UdpPort(123)) = <<"ntp", 1>>
  /\ Holder(UdpPort(137)) = <<"netbios_ns", 1>>
  /\ Holder(UdpPort(161)) = <<"snmp", 1>>
  /\ Holder(UdpPort(162)) = <<"snmp", 2>>
  /\ Holder(UdpPort(319)) = <<"ptp", 1>>
  /\ Holder(UdpPort(320)) = <<"ptp", 2>>
  /\ Holder(UdpPort(443)) = <<"quic", 1>>
  /\ Holder(UdpPort(514)) = <<"syslog", 1>>
  /\ Holder(UdpPort(546)) = <<"dhcpv6", 2>>
  /\ Holder(UdpPort(547)) = <<"dhcpv6", 1>>
  /\ Holder(UdpPort(1701)) = <<"l2tpv3", 1>>
  /\ Holder(UdpPort(1812)) = <<"radius", 1>>
  /\ Holder(UdpPort(1813)) = <<"radius", 2>>
  /\ Holder(UdpPort(1900)) = <<"ssdp", 1>>
  /\ Holder(UdpPort(1985)) = <<"hsrp", 1>>
  /\ Holder(UdpPort(2049)) = <<"nfs", 1>>
  /\ Holder(UdpPort(2055)) = <<"netflow9", 1>>
  /\ Holder(UdpPort(2123)) = <<"gtp_c", 1>>
  /\ Holder(UdpPort(2152)) = <<"gtp_u", 1>>
  /\ Holder(UdpPort(3478)) = <<"stun", 1>>
  /\ Holder(UdpPort(3784)) = <<"bfd", 1>>
  /\ Holder(UdpPort(4739)) = <<"ipfix", 1>>
  /\ Holder(UdpPort(4784)) = <<"bfd", 2>>
  /\ Holder(UdpPort(4789)) = <<"vxlan", 1>>
  /\ Holder(UdpPort(4791)) = <<"rocev2", 1>>
  /\ Holder(UdpPort(5060)) = <<"sip", 1>>
  /\ Holder(UdpPort(5353)) = <<"mdns", 1>>
  /\ Holder(UdpPort(5355)) = <<"llmnr", 1>>
  /\ Holder(UdpPort(6081)) = <<"geneve", 1>>
  /\ Holder(UdpPort(20000)) = <<"dnp3", 2>>
  /\ Holder(UdpPort(47808)) = <<"bacnet_ip", 1>>
  /\ Holder(UdpPort(51820)) = <<"wireguard", 1>>
  BY DEF Holder, UdpHolder, UdpPort

\* The claims of TCP ports.
LEMMA TcpHeld ==
  /\ Holder(TcpPort(21)) = <<"ftp", 1>>
  /\ Holder(TcpPort(22)) = <<"ssh", 1>>
  /\ Holder(TcpPort(25)) = <<"smtp", 1>>
  /\ Holder(TcpPort(53)) = <<"dns", 2>>
  /\ Holder(TcpPort(80)) = <<"http", 1>>
  /\ Holder(TcpPort(88)) = <<"kerberos", 2>>
  /\ Holder(TcpPort(110)) = <<"pop3", 1>>
  /\ Holder(TcpPort(143)) = <<"imap", 1>>
  /\ Holder(TcpPort(179)) = <<"bgp", 1>>
  /\ Holder(TcpPort(389)) = <<"ldap", 1>>
  /\ Holder(TcpPort(443)) = <<"tls", 1>>
  /\ Holder(TcpPort(445)) = <<"smb2", 1>>
  /\ Holder(TcpPort(502)) = <<"modbus", 1>>
  /\ Holder(TcpPort(1883)) = <<"mqtt", 1>>
  /\ Holder(TcpPort(2049)) = <<"nfs", 2>>
  /\ Holder(TcpPort(3478)) = <<"stun", 2>>
  /\ Holder(TcpPort(5060)) = <<"sip", 2>>
  /\ Holder(TcpPort(5672)) = <<"amqp", 1>>
  /\ Holder(TcpPort(6379)) = <<"redis", 1>>
  /\ Holder(TcpPort(20000)) = <<"dnp3", 1>>
  /\ Holder(TcpPort(44818)) = <<"enip", 1>>
  BY DEF Holder, TcpHolder, TcpPort

\* The claims of ICMPv6 message types.
LEMMA MessageHeld ==
  /\ Holder(Custom("icmpv6_type", 130)) = <<"mld", 1>>
  /\ Holder(Custom("icmpv6_type", 131)) = <<"mld", 2>>
  /\ Holder(Custom("icmpv6_type", 132)) = <<"mld", 3>>
  /\ Holder(Custom("icmpv6_type", 133)) = <<"ndp", 1>>
  /\ Holder(Custom("icmpv6_type", 134)) = <<"ndp", 2>>
  /\ Holder(Custom("icmpv6_type", 135)) = <<"ndp", 3>>
  /\ Holder(Custom("icmpv6_type", 136)) = <<"ndp", 4>>
  /\ Holder(Custom("icmpv6_type", 137)) = <<"ndp", 5>>
  /\ Holder(Custom("icmpv6_type", 143)) = <<"mld", 4>>
  BY DEF Holder, MessageHolder, Custom

\* The claims of SNAP protocol ids.
LEMMA SnapHeld ==
  /\ Holder(Custom("snap_pid", <<CiscoOui, 8192>>)) = <<"cdp", 1>>
  /\ Holder(Custom("snap_pid", <<CiscoOui, 267>>)) = <<"pvst_plus", 1>>
  BY DEF Holder, SnapHolder, Custom, CiscoOui

\* The claims of the remaining spaces.
LEMMA FramesHeld ==
  /\ Holder(Custom("pktt", 0)) = <<"template", 1>>
  /\ Holder(Custom("eth_llc_frame", 0)) = <<"llc", 1>>
  /\ Holder(Custom("llc_dsap", 66)) = <<"stp", 1>>
  BY DEF Holder, Custom

\* A roll-up that build() accepts.
Rolled(r) == r.field # "" /\ ~(r.kind = "series" /\ r.cap = 0)

\* Accumulated and sampled roll-ups are accepted.
LEMMA RollupsAccepted ==
  \A f : f # "" => Rolled(Accumulate(f)) /\ Rolled(Sample(f))
  BY DEF Rolled, Accumulate, Sample

\* So are the series of the plugins that ship, none of which has cap 0.
LEMMA SeriesAccepted ==
  Rolled(Series("flags", 1024)) /\ Rolled(Series("msg_type", 64)) /\
    Rolled(Series("status_code", 64))
  BY DEF Rolled, Series

\* A key component that build() accepts.
Keyed(c) == "" \notin Parts(c)

\* Key components with named fields are accepted.
LEMMA KeysAccepted ==
  /\ \A a, b : a # "" /\ b # "" => Keyed(Pair(a, b))
  /\ \A a, b : Len(Pair(a, b)) = 2
  /\ \A a : a # "" => Keyed(Shared(a))
<1>1. ASSUME NEW a, NEW b, a # "", b # "" PROVE Keyed(Pair(a, b))
  <2>1. Parts(Pair(a, b)) = {a, b}
    BY PartsOf
  <2>. QED
    BY <1>1, <2>1 DEF Keyed
<1>2. ASSUME NEW a, a # "" PROVE Keyed(Shared(a))
  <2>1. Parts(Shared(a)) = {a}
    BY PartsOf
  <2>. QED
    BY <1>2, <2>1 DEF Keyed
<1>3. \A a, b : Len(Pair(a, b)) = 2
  BY DEF Pair
<1>. QED
  BY <1>1, <1>2, <1>3

\* The plugin p holds its claims.
Holds(p, claims) == \A k \in DOMAIN claims : Holder(claims[k]) = <<p, k>>

\* A plugin that can be registered: it holds what it claims, and its identity
\* and its condensing are well formed.
Fit(p) ==
  /\ Holds(p, DefaultDecl[p].claims)
  /\ ~BadIdentity(DefaultDecl[p]) /\ ~BadCondense(DefaultDecl[p])

\* A plugin without a stream identity is fit when it holds its claims.
LEMMA FitBare ==
  ASSUME NEW p, NEW claims, DefaultDecl[p].claims = claims, Holds(p, claims),
         DefaultDecl[p].identity = {}, DefaultDecl[p].condense = {}
  PROVE  Fit(p)
  BY DEF Fit, BadIdentity, BadCondense

\* So is one with one key component that is accepted.
LEMMA FitKeyed ==
  ASSUME NEW p, NEW claims, DefaultDecl[p].claims = claims, Holds(p, claims),
         NEW c, NEW R, DefaultDecl[p].identity = {Identity(<<c>>, R)},
         Keyed(c), \A r \in R : Rolled(r),
         DefaultDecl[p].condense = {} \/ (DefaultDecl[p].condense = {c} /\ Len(c) = 2)
  PROVE  Fit(p)
<1>1. PICK id : id = Identity(<<c>>, R)
  OBVIOUS
<1>2. id.key = <<c>> /\ id.rollups = R /\ id.sorted
  BY <1>1 DEF Identity
<1>3. \A k \in DOMAIN id.key : id.key[k] = c
  BY <1>2
<1>4. c \in ToSet(id.key)
  BY <1>2 DEF ToSet
<1>5. ~BadIdentity(DefaultDecl[p])
  <2>1. ASSUME NEW k \in DOMAIN id.key, NEW i \in DOMAIN id.key[k] PROVE id.key[k][i] # ""
    BY <1>3 DEF Keyed, Parts
  <2>2. \A r \in id.rollups : r.field # "" /\ ~(r.kind = "series" /\ r.cap = 0)
    BY <1>2 DEF Rolled
  <2>3. \A d \in DefaultDecl[p].identity : d = id
    BY <1>1
  <2>. QED
    BY <2>1, <2>2, <2>3, Zenon DEF BadIdentity
<1>6. ~BadCondense(DefaultDecl[p])
  BY <1>1, <1>2, <1>4 DEF BadCondense
<1>. QED
  BY <1>5, <1>6 DEF Fit

\* The plugins of the network layer can be registered.
LEMMA NetworkFit ==
  /\ Fit("template")
  /\ Fit("ethernet")
  /\ Fit("vlan")
  /\ Fit("arp")
  /\ Fit("ipv4")
  /\ Fit("ipv6")
  /\ Fit("udp")
  /\ Fit("tcp")
  /\ Fit("sctp")
  /\ Fit("icmpv4")
  /\ Fit("icmpv6")
  /\ Fit("igmp")
  /\ Fit("vrrp")
  /\ Fit("hsrp")
  /\ Fit("ospf")
  /\ Fit("bfd")
  /\ Fit("esp")
  /\ Fit("ndp")
  /\ Fit("mld")
<1>1. Fit("template")
  <2>1. /\ DefaultDecl.template.claims = <<Custom("pktt", 0)>>
        /\ DefaultDecl.template.condense = {}
        /\ DefaultDecl.template.identity =
             {Identity(<<Pair("src", "dst")>>, {Accumulate("type")})}
    BY NetworkDecls DEF TemplateDecl, Declares, TemplateIdentity
  <2>2. Holds("template", <<Custom("pktt", 0)>>)
    BY FramesHeld DEF Holds
  <2>3. \A r \in {Accumulate("type")} : Rolled(r)
    BY RollupsAccepted
  <2>4. Keyed(Pair("src", "dst"))
    BY KeysAccepted
  <2>. QED
    BY <2>1, <2>2, <2>3, <2>4, FitKeyed
<1>2. Fit("ethernet")
  <2>1. /\ DefaultDecl.ethernet.claims = <<LinkType(1)>>
        /\ DefaultDecl.ethernet.condense = {}
        /\ DefaultDecl.ethernet.identity =
             {Identity(<<Pair("src_mac", "dst_mac")>>, {Accumulate("ethertype")})}
    BY NetworkDecls DEF EthernetDecl, Declares, EthernetIdentity
  <2>2. Holds("ethernet", <<LinkType(1)>>)
    BY LinkHeld DEF Holds
  <2>3. \A r \in {Accumulate("ethertype")} : Rolled(r)
    BY RollupsAccepted
  <2>4. Keyed(Pair("src_mac", "dst_mac"))
    BY KeysAccepted
  <2>. QED
    BY <2>1, <2>2, <2>3, <2>4, FitKeyed
<1>3. Fit("vlan")
  <2>1. /\ VlanDecl.claims = <<EtherType(33024), EtherType(34984)>>
        /\ VlanDecl.identity = {} /\ VlanDecl.condense = {}
    BY DEF VlanDecl, Declares
  <2>2. Holds("vlan", <<EtherType(33024), EtherType(34984)>>)
    <3>1. /\ Holder(EtherType(33024)) = <<"vlan", 1>>
          /\ Holder(EtherType(34984)) = <<"vlan", 2>>
      BY EtherHeld
    <3>. QED
      BY <3>1 DEF Holds
  <2>. QED
    BY <2>1, <2>2, NetworkDecls, FitBare
<1>4. Fit("arp")
  <2>1. /\ ArpDecl.claims = <<EtherType(2054)>>
        /\ ArpDecl.identity = {} /\ ArpDecl.condense = {}
    BY DEF ArpDecl, Declares
  <2>2. Holds("arp", <<EtherType(2054)>>)
    BY EtherHeld DEF Holds
  <2>. QED
    BY <2>1, <2>2, NetworkDecls, FitBare
<1>5. Fit("ipv4")
  <2>1. /\ DefaultDecl.ipv4.claims = <<EtherType(2048), IpProtocol(4)>>
        /\ DefaultDecl.ipv4.condense = {}
        /\ DefaultDecl.ipv4.identity =
             {Identity(<<Pair("src_addr", "dst_addr")>>, {Accumulate("protocol")})}
    BY NetworkDecls DEF Ipv4Decl, Declares, Ipv4Identity
  <2>2. Holds("ipv4", <<EtherType(2048), IpProtocol(4)>>)
    <3>1. /\ Holder(EtherType(2048)) = <<"ipv4", 1>>
          /\ Holder(IpProtocol(4)) = <<"ipv4", 2>>
      BY EtherHeld, IpHeld
    <3>. QED
      BY <3>1 DEF Holds
  <2>3. \A r \in {Accumulate("protocol")} : Rolled(r)
    BY RollupsAccepted
  <2>4. Keyed(Pair("src_addr", "dst_addr"))
    BY KeysAccepted
  <2>. QED
    BY <2>1, <2>2, <2>3, <2>4, FitKeyed
<1>6. Fit("ipv6")
  <2>1. /\ DefaultDecl.ipv6.claims = <<EtherType(34525), IpProtocol(41)>>
        /\ DefaultDecl.ipv6.condense = {}
        /\ DefaultDecl.ipv6.identity =
             {Identity(<<Pair("src_addr", "dst_addr")>>, {Accumulate("next_header")})}
    BY NetworkDecls DEF Ipv6Decl, Declares, Ipv6Identity
  <2>2. Holds("ipv6", <<EtherType(34525), IpProtocol(41)>>)
    <3>1. /\ Holder(EtherType(34525)) = <<"ipv6", 1>>
          /\ Holder(IpProtocol(41)) = <<"ipv6", 2>>
      BY EtherHeld, IpHeld
    <3>. QED
      BY <3>1 DEF Holds
  <2>3. \A r \in {Accumulate("next_header")} : Rolled(r)
    BY RollupsAccepted
  <2>4. Keyed(Pair("src_addr", "dst_addr"))
    BY KeysAccepted
  <2>. QED
    BY <2>1, <2>2, <2>3, <2>4, FitKeyed
<1>7. Fit("udp")
  <2>1. /\ DefaultDecl.udp.claims = <<IpProtocol(17)>>
        /\ DefaultDecl.udp.condense = {Pair("src_port", "dst_port")}
        /\ DefaultDecl.udp.identity =
             {Identity(<<Pair("src_port", "dst_port")>>, {Sample("length")})}
    BY NetworkDecls DEF UdpDecl, Declares, UdpIdentity
  <2>2. Holds("udp", <<IpProtocol(17)>>)
    BY IpHeld DEF Holds
  <2>3. \A r \in {Sample("length")} : Rolled(r)
    BY RollupsAccepted
  <2>4. Keyed(Pair("src_port", "dst_port")) /\ Len(Pair("src_port", "dst_port")) = 2
    BY KeysAccepted
  <2>. QED
    BY <2>1, <2>2, <2>3, <2>4, FitKeyed
<1>8. Fit("tcp")
  <2>1. /\ DefaultDecl.tcp.claims = <<IpProtocol(6)>>
        /\ DefaultDecl.tcp.condense = {Pair("src_port", "dst_port")}
        /\ DefaultDecl.tcp.identity =
             {Identity(<<Pair("src_port", "dst_port")>>,
               {Accumulate("flags"), Series("flags", 1024)})}
    BY NetworkDecls DEF TcpDecl, Declares, TcpIdentity
  <2>2. Holds("tcp", <<IpProtocol(6)>>)
    BY IpHeld DEF Holds
  <2>3. \A r \in {Accumulate("flags"), Series("flags", 1024)} : Rolled(r)
    <3>1. Rolled(Accumulate("flags")) /\ Rolled(Series("flags", 1024))
      BY RollupsAccepted, SeriesAccepted
    <3>. QED
      BY <3>1
  <2>4. Keyed(Pair("src_port", "dst_port")) /\ Len(Pair("src_port", "dst_port")) = 2
    BY KeysAccepted
  <2>. QED
    BY <2>1, <2>2, <2>3, <2>4, FitKeyed
<1>9. Fit("sctp")
  <2>1. /\ DefaultDecl.sctp.claims = <<IpProtocol(132)>>
        /\ DefaultDecl.sctp.condense = {}
        /\ DefaultDecl.sctp.identity =
             {Identity(<<Pair("src_port", "dst_port")>>, {Accumulate("first_chunk_type")})}
    BY NetworkDecls DEF SctpDecl, Declares, SctpIdentity
  <2>2. Holds("sctp", <<IpProtocol(132)>>)
    BY IpHeld DEF Holds
  <2>3. \A r \in {Accumulate("first_chunk_type")} : Rolled(r)
    BY RollupsAccepted
  <2>4. Keyed(Pair("src_port", "dst_port"))
    BY KeysAccepted
  <2>. QED
    BY <2>1, <2>2, <2>3, <2>4, FitKeyed
<1>10. Fit("icmpv4")
  <2>1. /\ Icmpv4Decl.claims = <<IpProtocol(1)>>
        /\ Icmpv4Decl.identity = {} /\ Icmpv4Decl.condense = {}
    BY DEF Icmpv4Decl, Declares
  <2>2. Holds("icmpv4", <<IpProtocol(1)>>)
    BY IpHeld DEF Holds
  <2>. QED
    BY <2>1, <2>2, NetworkDecls, FitBare
<1>11. Fit("icmpv6")
  <2>1. /\ Icmpv6Decl.claims = <<IpProtocol(58)>>
        /\ Icmpv6Decl.identity = {} /\ Icmpv6Decl.condense = {}
    BY DEF Icmpv6Decl, Declares
  <2>2. Holds("icmpv6", <<IpProtocol(58)>>)
    BY IpHeld DEF Holds
  <2>. QED
    BY <2>1, <2>2, NetworkDecls, FitBare
<1>12. Fit("igmp")
  <2>1. /\ IgmpDecl.claims = <<IpProtocol(2)>>
        /\ IgmpDecl.identity = {} /\ IgmpDecl.condense = {}
    BY DEF IgmpDecl, Declares
  <2>2. Holds("igmp", <<IpProtocol(2)>>)
    BY IpHeld DEF Holds
  <2>. QED
    BY <2>1, <2>2, NetworkDecls, FitBare
<1>13. Fit("vrrp")
  <2>1. /\ DefaultDecl.vrrp.claims = <<IpProtocol(112)>>
        /\ DefaultDecl.vrrp.condense = {}
        /\ DefaultDecl.vrrp.identity = {Identity(<<Shared("vrid")>>, {Accumulate("priority")})}
    BY NetworkDecls DEF VrrpDecl, Declares, VrrpIdentity
  <2>2. Holds("vrrp", <<IpProtocol(112)>>)
    BY IpHeld DEF Holds
  <2>3. \A r \in {Accumulate("priority")} : Rolled(r)
    BY RollupsAccepted
  <2>4. Keyed(Shared("vrid"))
    BY KeysAccepted
  <2>. QED
    BY <2>1, <2>2, <2>3, <2>4, FitKeyed
<1>14. Fit("hsrp")
  <2>1. /\ DefaultDecl.hsrp.claims = <<UdpPort(1985)>>
        /\ DefaultDecl.hsrp.condense = {}
        /\ DefaultDecl.hsrp.identity =
             {Identity(<<Shared("group")>>, {Accumulate("state"), Accumulate("priority")})}
    BY NetworkDecls DEF HsrpDecl, Declares, HsrpIdentity
  <2>2. Holds("hsrp", <<UdpPort(1985)>>)
    BY UdpHeld DEF Holds
  <2>3. \A r \in {Accumulate("state"), Accumulate("priority")} : Rolled(r)
    BY RollupsAccepted
  <2>4. Keyed(Shared("group"))
    BY KeysAccepted
  <2>. QED
    BY <2>1, <2>2, <2>3, <2>4, FitKeyed
<1>15. Fit("ospf")
  <2>1. /\ OspfDecl.claims = <<IpProtocol(89)>>
        /\ OspfDecl.identity = {} /\ OspfDecl.condense = {}
    BY DEF OspfDecl, Declares
  <2>2. Holds("ospf", <<IpProtocol(89)>>)
    BY IpHeld DEF Holds
  <2>. QED
    BY <2>1, <2>2, NetworkDecls, FitBare
<1>16. Fit("bfd")
  <2>1. /\ DefaultDecl.bfd.claims = <<UdpPort(3784), UdpPort(4784)>>
        /\ DefaultDecl.bfd.condense = {}
        /\ DefaultDecl.bfd.identity =
             {Identity(<<Pair("my_discriminator", "your_discriminator")>>, {Accumulate("state")})}
    BY NetworkDecls DEF BfdDecl, Declares, BfdIdentity
  <2>2. Holds("bfd", <<UdpPort(3784), UdpPort(4784)>>)
    <3>1. /\ Holder(UdpPort(3784)) = <<"bfd", 1>>
          /\ Holder(UdpPort(4784)) = <<"bfd", 2>>
      BY UdpHeld
    <3>. QED
      BY <3>1 DEF Holds
  <2>3. \A r \in {Accumulate("state")} : Rolled(r)
    BY RollupsAccepted
  <2>4. Keyed(Pair("my_discriminator", "your_discriminator"))
    BY KeysAccepted
  <2>. QED
    BY <2>1, <2>2, <2>3, <2>4, FitKeyed
<1>17. Fit("esp")
  <2>1. /\ DefaultDecl.esp.claims = <<IpProtocol(50)>>
        /\ DefaultDecl.esp.condense = {}
        /\ DefaultDecl.esp.identity = {Identity(<<Shared("spi")>>, {Sample("sequence")})}
    BY NetworkDecls DEF EspDecl, Declares, EspIdentity
  <2>2. Holds("esp", <<IpProtocol(50)>>)
    BY IpHeld DEF Holds
  <2>3. \A r \in {Sample("sequence")} : Rolled(r)
    BY RollupsAccepted
  <2>4. Keyed(Shared("spi"))
    BY KeysAccepted
  <2>. QED
    BY <2>1, <2>2, <2>3, <2>4, FitKeyed
<1>18. Fit("ndp")
  <2>1. /\ NdpDecl.claims =
             <<Custom("icmpv6_type", 133), Custom("icmpv6_type", 134), Custom("icmpv6_type", 135),
               Custom("icmpv6_type", 136), Custom("icmpv6_type", 137)>>
        /\ NdpDecl.identity = {} /\ NdpDecl.condense = {}
    BY DEF NdpDecl, Declares
  <2>2. Holds("ndp",
          <<Custom("icmpv6_type", 133), Custom("icmpv6_type", 134), Custom("icmpv6_type", 135),
            Custom("icmpv6_type", 136), Custom("icmpv6_type", 137)>>)
    <3>1. /\ Holder(Custom("icmpv6_type", 133)) = <<"ndp", 1>>
          /\ Holder(Custom("icmpv6_type", 134)) = <<"ndp", 2>>
          /\ Holder(Custom("icmpv6_type", 135)) = <<"ndp", 3>>
          /\ Holder(Custom("icmpv6_type", 136)) = <<"ndp", 4>>
          /\ Holder(Custom("icmpv6_type", 137)) = <<"ndp", 5>>
      BY MessageHeld
    <3>. QED
      BY <3>1 DEF Holds
  <2>. QED
    BY <2>1, <2>2, NetworkDecls, FitBare
<1>19. Fit("mld")
  <2>1. /\ MldDecl.claims =
             <<Custom("icmpv6_type", 130), Custom("icmpv6_type", 131), Custom("icmpv6_type", 132),
               Custom("icmpv6_type", 143)>>
        /\ MldDecl.identity = {} /\ MldDecl.condense = {}
    BY DEF MldDecl, Declares
  <2>2. Holds("mld",
          <<Custom("icmpv6_type", 130), Custom("icmpv6_type", 131), Custom("icmpv6_type", 132),
            Custom("icmpv6_type", 143)>>)
    <3>1. /\ Holder(Custom("icmpv6_type", 130)) = <<"mld", 1>>
          /\ Holder(Custom("icmpv6_type", 131)) = <<"mld", 2>>
          /\ Holder(Custom("icmpv6_type", 132)) = <<"mld", 3>>
          /\ Holder(Custom("icmpv6_type", 143)) = <<"mld", 4>>
      BY MessageHeld
    <3>. QED
      BY <3>1 DEF Holds
  <2>. QED
    BY <2>1, <2>2, NetworkDecls, FitBare
<1>. QED
  BY <1>1, <1>2, <1>3, <1>4, <1>5, <1>6, <1>7, <1>8, <1>9, <1>10, <1>11, <1>12, <1>13, <1>14,
     <1>15, <1>16, <1>17, <1>18, <1>19

\* The plugins of the link layer can be registered.
LEMMA LinkFit ==
  /\ Fit("llc")
  /\ Fit("lldp")
  /\ Fit("cdp")
  /\ Fit("lacp")
  /\ Fit("stp")
  /\ Fit("pvst_plus")
  /\ Fit("eapol")
  /\ Fit("radiotap")
  /\ Fit("dot11")
  /\ Fit("pppoe")
  /\ Fit("ppp")
  /\ Fit("mpls")
<1>1. Fit("llc")
  <2>1. /\ LlcDecl.claims = <<Custom("eth_llc_frame", 0)>>
        /\ LlcDecl.identity = {} /\ LlcDecl.condense = {}
    BY DEF LlcDecl, Declares
  <2>2. Holds("llc", <<Custom("eth_llc_frame", 0)>>)
    BY FramesHeld DEF Holds
  <2>. QED
    BY <2>1, <2>2, LinkDecls, FitBare
<1>2. Fit("lldp")
  <2>1. /\ LldpDecl.claims = <<EtherType(35020)>>
        /\ LldpDecl.identity = {} /\ LldpDecl.condense = {}
    BY DEF LldpDecl, Declares
  <2>2. Holds("lldp", <<EtherType(35020)>>)
    BY EtherHeld DEF Holds
  <2>. QED
    BY <2>1, <2>2, LinkDecls, FitBare
<1>3. Fit("cdp")
  <2>1. /\ CdpDecl.claims = <<Custom("snap_pid", <<CiscoOui, 8192>>)>>
        /\ CdpDecl.identity = {} /\ CdpDecl.condense = {}
    BY DEF CdpDecl, Declares
  <2>2. Holds("cdp", <<Custom("snap_pid", <<CiscoOui, 8192>>)>>)
    BY SnapHeld DEF Holds
  <2>. QED
    BY <2>1, <2>2, LinkDecls, FitBare
<1>4. Fit("lacp")
  <2>1. /\ DefaultDecl.lacp.claims = <<EtherType(34825)>>
        /\ DefaultDecl.lacp.condense = {}
        /\ DefaultDecl.lacp.identity =
             {Identity(<<Pair("actor_system", "partner_system")>>, {Accumulate("actor_state")})}
    BY LinkDecls DEF LacpDecl, Declares, LacpIdentity
  <2>2. Holds("lacp", <<EtherType(34825)>>)
    BY EtherHeld DEF Holds
  <2>3. \A r \in {Accumulate("actor_state")} : Rolled(r)
    BY RollupsAccepted
  <2>4. Keyed(Pair("actor_system", "partner_system"))
    BY KeysAccepted
  <2>. QED
    BY <2>1, <2>2, <2>3, <2>4, FitKeyed
<1>5. Fit("stp")
  <2>1. /\ StpDecl.claims = <<Custom("llc_dsap", 66)>>
        /\ StpDecl.identity = {} /\ StpDecl.condense = {}
    BY DEF StpDecl, Declares
  <2>2. Holds("stp", <<Custom("llc_dsap", 66)>>)
    BY FramesHeld DEF Holds
  <2>. QED
    BY <2>1, <2>2, LinkDecls, FitBare
<1>6. Fit("pvst_plus")
  <2>1. /\ PvstPlusDecl.claims = <<Custom("snap_pid", <<CiscoOui, 267>>)>>
        /\ PvstPlusDecl.identity = {} /\ PvstPlusDecl.condense = {}
    BY DEF PvstPlusDecl, Declares
  <2>2. Holds("pvst_plus", <<Custom("snap_pid", <<CiscoOui, 267>>)>>)
    BY SnapHeld DEF Holds
  <2>. QED
    BY <2>1, <2>2, LinkDecls, FitBare
<1>7. Fit("eapol")
  <2>1. /\ EapolDecl.claims = <<EtherType(34958)>>
        /\ EapolDecl.identity = {} /\ EapolDecl.condense = {}
    BY DEF EapolDecl, Declares
  <2>2. Holds("eapol", <<EtherType(34958)>>)
    BY EtherHeld DEF Holds
  <2>. QED
    BY <2>1, <2>2, LinkDecls, FitBare
<1>8. Fit("radiotap")
  <2>1. /\ RadiotapDecl.claims = <<LinkType(127)>>
        /\ RadiotapDecl.identity = {} /\ RadiotapDecl.condense = {}
    BY DEF RadiotapDecl, Declares
  <2>2. Holds("radiotap", <<LinkType(127)>>)
    BY LinkHeld DEF Holds
  <2>. QED
    BY <2>1, <2>2, LinkDecls, FitBare
<1>9. Fit("dot11")
  <2>1. /\ DefaultDecl.dot11.claims = <<LinkType(105)>>
        /\ DefaultDecl.dot11.condense = {}
        /\ DefaultDecl.dot11.identity =
             {Identity(<<Pair("addr1", "addr2")>>, {Accumulate("frame_subtype")})}
    BY LinkDecls DEF Dot11Decl, Declares, Dot11Identity
  <2>2. Holds("dot11", <<LinkType(105)>>)
    BY LinkHeld DEF Holds
  <2>3. \A r \in {Accumulate("frame_subtype")} : Rolled(r)
    BY RollupsAccepted
  <2>4. Keyed(Pair("addr1", "addr2"))
    BY KeysAccepted
  <2>. QED
    BY <2>1, <2>2, <2>3, <2>4, FitKeyed
<1>10. Fit("pppoe")
  <2>1. /\ DefaultDecl.pppoe.claims = <<EtherType(34915), EtherType(34916)>>
        /\ DefaultDecl.pppoe.condense = {}
        /\ DefaultDecl.pppoe.identity = {Identity(<<Shared("session_id")>>, {Accumulate("code")})}
    BY LinkDecls DEF PppoeDecl, Declares, PppoeIdentity
  <2>2. Holds("pppoe", <<EtherType(34915), EtherType(34916)>>)
    <3>1. /\ Holder(EtherType(34915)) = <<"pppoe", 1>>
          /\ Holder(EtherType(34916)) = <<"pppoe", 2>>
      BY EtherHeld
    <3>. QED
      BY <3>1 DEF Holds
  <2>3. \A r \in {Accumulate("code")} : Rolled(r)
    BY RollupsAccepted
  <2>4. Keyed(Shared("session_id"))
    BY KeysAccepted
  <2>. QED
    BY <2>1, <2>2, <2>3, <2>4, FitKeyed
<1>11. Fit("ppp")
  <2>1. /\ PppDecl.claims = <<>>
        /\ PppDecl.identity = {} /\ PppDecl.condense = {}
    BY DEF PppDecl, Declares
  <2>2. Holds("ppp", <<>>)
    BY DEF Holds
  <2>. QED
    BY <2>1, <2>2, LinkDecls, FitBare
<1>12. Fit("mpls")
  <2>1. /\ DefaultDecl.mpls.claims = <<EtherType(34887), EtherType(34888)>>
        /\ DefaultDecl.mpls.condense = {}
        /\ DefaultDecl.mpls.identity = {Identity(<<Shared("label")>>, {})}
    BY LinkDecls DEF MplsDecl, Declares, MplsIdentity
  <2>2. Holds("mpls", <<EtherType(34887), EtherType(34888)>>)
    <3>1. /\ Holder(EtherType(34887)) = <<"mpls", 1>>
          /\ Holder(EtherType(34888)) = <<"mpls", 2>>
      BY EtherHeld
    <3>. QED
      BY <3>1 DEF Holds
  <2>3. \A r \in {} : Rolled(r)
    OBVIOUS
  <2>4. Keyed(Shared("label"))
    BY KeysAccepted
  <2>. QED
    BY <2>1, <2>2, <2>3, <2>4, FitKeyed
<1>. QED
  BY <1>1, <1>2, <1>3, <1>4, <1>5, <1>6, <1>7, <1>8, <1>9, <1>10, <1>11, <1>12

\* The plugins of tunnels can be registered.
LEMMA TunnelFit ==
  /\ Fit("gre")
  /\ Fit("erspan")
  /\ Fit("vxlan")
  /\ Fit("geneve")
  /\ Fit("ah")
  /\ Fit("gtp_u")
  /\ Fit("gtp_c")
  /\ Fit("wireguard")
  /\ Fit("l2tpv3")
  /\ Fit("quic")
<1>1. Fit("gre")
  <2>1. /\ DefaultDecl.gre.claims = <<IpProtocol(47)>>
        /\ DefaultDecl.gre.condense = {}
        /\ DefaultDecl.gre.identity = {Identity(<<Shared("key")>>, {})}
    BY TunnelDecls DEF GreDecl, Declares, GreIdentity
  <2>2. Holds("gre", <<IpProtocol(47)>>)
    BY IpHeld DEF Holds
  <2>3. \A r \in {} : Rolled(r)
    OBVIOUS
  <2>4. Keyed(Shared("key"))
    BY KeysAccepted
  <2>. QED
    BY <2>1, <2>2, <2>3, <2>4, FitKeyed
<1>2. Fit("erspan")
  <2>1. /\ DefaultDecl.erspan.claims = <<EtherType(35006), EtherType(8939)>>
        /\ DefaultDecl.erspan.condense = {}
        /\ DefaultDecl.erspan.identity = {Identity(<<Shared("session_id")>>, {})}
    BY TunnelDecls DEF ErspanDecl, Declares, ErspanIdentity
  <2>2. Holds("erspan", <<EtherType(35006), EtherType(8939)>>)
    <3>1. /\ Holder(EtherType(35006)) = <<"erspan", 1>>
          /\ Holder(EtherType(8939)) = <<"erspan", 2>>
      BY EtherHeld
    <3>. QED
      BY <3>1 DEF Holds
  <2>3. \A r \in {} : Rolled(r)
    OBVIOUS
  <2>4. Keyed(Shared("session_id"))
    BY KeysAccepted
  <2>. QED
    BY <2>1, <2>2, <2>3, <2>4, FitKeyed
<1>3. Fit("vxlan")
  <2>1. /\ DefaultDecl.vxlan.claims = <<UdpPort(4789)>>
        /\ DefaultDecl.vxlan.condense = {}
        /\ DefaultDecl.vxlan.identity = {Identity(<<Shared("vni")>>, {})}
    BY TunnelDecls DEF VxlanDecl, Declares, VxlanIdentity
  <2>2. Holds("vxlan", <<UdpPort(4789)>>)
    BY UdpHeld DEF Holds
  <2>3. \A r \in {} : Rolled(r)
    OBVIOUS
  <2>4. Keyed(Shared("vni"))
    BY KeysAccepted
  <2>. QED
    BY <2>1, <2>2, <2>3, <2>4, FitKeyed
<1>4. Fit("geneve")
  <2>1. /\ DefaultDecl.geneve.claims = <<UdpPort(6081)>>
        /\ DefaultDecl.geneve.condense = {}
        /\ DefaultDecl.geneve.identity =
             {Identity(<<Shared("vni")>>, {Accumulate("protocol_type")})}
    BY TunnelDecls DEF GeneveDecl, Declares, GeneveIdentity
  <2>2. Holds("geneve", <<UdpPort(6081)>>)
    BY UdpHeld DEF Holds
  <2>3. \A r \in {Accumulate("protocol_type")} : Rolled(r)
    BY RollupsAccepted
  <2>4. Keyed(Shared("vni"))
    BY KeysAccepted
  <2>. QED
    BY <2>1, <2>2, <2>3, <2>4, FitKeyed
<1>5. Fit("ah")
  <2>1. /\ DefaultDecl.ah.claims = <<IpProtocol(51)>>
        /\ DefaultDecl.ah.condense = {}
        /\ DefaultDecl.ah.identity =
             {Identity(<<Shared("spi")>>, {Sample("sequence"), Accumulate("next_header")})}
    BY TunnelDecls DEF AhDecl, Declares, AhIdentity
  <2>2. Holds("ah", <<IpProtocol(51)>>)
    BY IpHeld DEF Holds
  <2>3. \A r \in {Sample("sequence"), Accumulate("next_header")} : Rolled(r)
    BY RollupsAccepted
  <2>4. Keyed(Shared("spi"))
    BY KeysAccepted
  <2>. QED
    BY <2>1, <2>2, <2>3, <2>4, FitKeyed
<1>6. Fit("gtp_u")
  <2>1. /\ DefaultDecl.gtp_u.claims = <<UdpPort(2152)>>
        /\ DefaultDecl.gtp_u.condense = {}
        /\ DefaultDecl.gtp_u.identity =
             {Identity(<<Shared("teid")>>, {Accumulate("message_type")})}
    BY TunnelDecls DEF GtpUDecl, Declares, GtpUIdentity
  <2>2. Holds("gtp_u", <<UdpPort(2152)>>)
    BY UdpHeld DEF Holds
  <2>3. \A r \in {Accumulate("message_type")} : Rolled(r)
    BY RollupsAccepted
  <2>4. Keyed(Shared("teid"))
    BY KeysAccepted
  <2>. QED
    BY <2>1, <2>2, <2>3, <2>4, FitKeyed
<1>7. Fit("gtp_c")
  <2>1. /\ DefaultDecl.gtp_c.claims = <<UdpPort(2123)>>
        /\ DefaultDecl.gtp_c.condense = {}
        /\ DefaultDecl.gtp_c.identity =
             {Identity(<<Shared("teid")>>, {Accumulate("message_type")})}
    BY TunnelDecls DEF GtpCDecl, Declares, GtpCIdentity
  <2>2. Holds("gtp_c", <<UdpPort(2123)>>)
    BY UdpHeld DEF Holds
  <2>3. \A r \in {Accumulate("message_type")} : Rolled(r)
    BY RollupsAccepted
  <2>4. Keyed(Shared("teid"))
    BY KeysAccepted
  <2>. QED
    BY <2>1, <2>2, <2>3, <2>4, FitKeyed
<1>8. Fit("wireguard")
  <2>1. /\ DefaultDecl.wireguard.claims = <<UdpPort(51820)>>
        /\ DefaultDecl.wireguard.condense = {}
        /\ DefaultDecl.wireguard.identity =
             {Identity(<<Shared("app")>>, {Accumulate("msg_type")})}
    BY TunnelDecls DEF WireguardDecl, Declares, WireguardIdentity
  <2>2. Holds("wireguard", <<UdpPort(51820)>>)
    BY UdpHeld DEF Holds
  <2>3. \A r \in {Accumulate("msg_type")} : Rolled(r)
    BY RollupsAccepted
  <2>4. Keyed(Shared("app"))
    BY KeysAccepted
  <2>. QED
    BY <2>1, <2>2, <2>3, <2>4, FitKeyed
<1>9. Fit("l2tpv3")
  <2>1. /\ DefaultDecl.l2tpv3.claims = <<UdpPort(1701), IpProtocol(115)>>
        /\ DefaultDecl.l2tpv3.condense = {}
        /\ DefaultDecl.l2tpv3.identity = {Identity(<<Shared("session_id")>>, {})}
    BY TunnelDecls DEF L2tpv3Decl, Declares, L2tpv3Identity
  <2>2. Holds("l2tpv3", <<UdpPort(1701), IpProtocol(115)>>)
    <3>1. /\ Holder(UdpPort(1701)) = <<"l2tpv3", 1>>
          /\ Holder(IpProtocol(115)) = <<"l2tpv3", 2>>
      BY IpHeld, UdpHeld
    <3>. QED
      BY <3>1 DEF Holds
  <2>3. \A r \in {} : Rolled(r)
    OBVIOUS
  <2>4. Keyed(Shared("session_id"))
    BY KeysAccepted
  <2>. QED
    BY <2>1, <2>2, <2>3, <2>4, FitKeyed
<1>10. Fit("quic")
  <2>1. /\ DefaultDecl.quic.claims = <<UdpPort(443)>>
        /\ DefaultDecl.quic.condense = {}
        /\ DefaultDecl.quic.identity = {Identity(<<Shared("dcid")>>, {Accumulate("packet_type")})}
    BY TunnelDecls DEF QuicDecl, Declares, QuicIdentity
  <2>2. Holds("quic", <<UdpPort(443)>>)
    BY UdpHeld DEF Holds
  <2>3. \A r \in {Accumulate("packet_type")} : Rolled(r)
    BY RollupsAccepted
  <2>4. Keyed(Shared("dcid"))
    BY KeysAccepted
  <2>. QED
    BY <2>1, <2>2, <2>3, <2>4, FitKeyed
<1>. QED
  BY <1>1, <1>2, <1>3, <1>4, <1>5, <1>6, <1>7, <1>8, <1>9, <1>10

\* The plugins of services can be registered.
LEMMA ServiceFit ==
  /\ Fit("dns")
  /\ Fit("mdns")
  /\ Fit("llmnr")
  /\ Fit("netbios_ns")
  /\ Fit("dhcp")
  /\ Fit("dhcpv6")
  /\ Fit("ntp")
  /\ Fit("ptp")
  /\ Fit("syslog")
  /\ Fit("radius")
  /\ Fit("snmp")
  /\ Fit("kerberos")
  /\ Fit("ldap")
<1>1. Fit("dns")
  <2>1. /\ DefaultDecl.dns.claims = <<UdpPort(53), TcpPort(53)>>
        /\ DefaultDecl.dns.condense = {}
        /\ DefaultDecl.dns.identity =
             {Identity(<<Shared("app")>>, {Accumulate("qname"), Accumulate("rcode")})}
    BY ServiceDecls DEF DnsDecl, Declares, DnsIdentity
  <2>2. Holds("dns", <<UdpPort(53), TcpPort(53)>>)
    <3>1. /\ Holder(UdpPort(53)) = <<"dns", 1>>
          /\ Holder(TcpPort(53)) = <<"dns", 2>>
      BY TcpHeld, UdpHeld
    <3>. QED
      BY <3>1 DEF Holds
  <2>3. \A r \in {Accumulate("qname"), Accumulate("rcode")} : Rolled(r)
    BY RollupsAccepted
  <2>4. Keyed(Shared("app"))
    BY KeysAccepted
  <2>. QED
    BY <2>1, <2>2, <2>3, <2>4, FitKeyed
<1>2. Fit("mdns")
  <2>1. /\ DefaultDecl.mdns.claims = <<UdpPort(5353)>>
        /\ DefaultDecl.mdns.condense = {}
        /\ DefaultDecl.mdns.identity = {Identity(<<Shared("app")>>, {Accumulate("qname")})}
    BY ServiceDecls DEF MdnsDecl, Declares, MdnsIdentity
  <2>2. Holds("mdns", <<UdpPort(5353)>>)
    BY UdpHeld DEF Holds
  <2>3. \A r \in {Accumulate("qname")} : Rolled(r)
    BY RollupsAccepted
  <2>4. Keyed(Shared("app"))
    BY KeysAccepted
  <2>. QED
    BY <2>1, <2>2, <2>3, <2>4, FitKeyed
<1>3. Fit("llmnr")
  <2>1. /\ DefaultDecl.llmnr.claims = <<UdpPort(5355)>>
        /\ DefaultDecl.llmnr.condense = {}
        /\ DefaultDecl.llmnr.identity = {Identity(<<Shared("app")>>, {Accumulate("qname")})}
    BY ServiceDecls DEF LlmnrDecl, Declares, LlmnrIdentity
  <2>2. Holds("llmnr", <<UdpPort(5355)>>)
    BY UdpHeld DEF Holds
  <2>3. \A r \in {Accumulate("qname")} : Rolled(r)
    BY RollupsAccepted
  <2>4. Keyed(Shared("app"))
    BY KeysAccepted
  <2>. QED
    BY <2>1, <2>2, <2>3, <2>4, FitKeyed
<1>4. Fit("netbios_ns")
  <2>1. /\ DefaultDecl.netbios_ns.claims = <<UdpPort(137)>>
        /\ DefaultDecl.netbios_ns.condense = {}
        /\ DefaultDecl.netbios_ns.identity = {Identity(<<Shared("app")>>, {Accumulate("name")})}
    BY ServiceDecls DEF NetbiosNsDecl, Declares, NetbiosNsIdentity
  <2>2. Holds("netbios_ns", <<UdpPort(137)>>)
    BY UdpHeld DEF Holds
  <2>3. \A r \in {Accumulate("name")} : Rolled(r)
    BY RollupsAccepted
  <2>4. Keyed(Shared("app"))
    BY KeysAccepted
  <2>. QED
    BY <2>1, <2>2, <2>3, <2>4, FitKeyed
<1>5. Fit("dhcp")
  <2>1. /\ DefaultDecl.dhcp.claims = <<UdpPort(67), UdpPort(68)>>
        /\ DefaultDecl.dhcp.condense = {}
        /\ DefaultDecl.dhcp.identity =
             {Identity(<<Shared("app")>>, {Series("msg_type", 64), Accumulate("client_mac")})}
    BY ServiceDecls DEF DhcpDecl, Declares, DhcpIdentity
  <2>2. Holds("dhcp", <<UdpPort(67), UdpPort(68)>>)
    <3>1. /\ Holder(UdpPort(67)) = <<"dhcp", 1>>
          /\ Holder(UdpPort(68)) = <<"dhcp", 2>>
      BY UdpHeld
    <3>. QED
      BY <3>1 DEF Holds
  <2>3. \A r \in {Series("msg_type", 64), Accumulate("client_mac")} : Rolled(r)
    <3>1. Rolled(Series("msg_type", 64)) /\ Rolled(Accumulate("client_mac"))
      BY RollupsAccepted, SeriesAccepted
    <3>. QED
      BY <3>1
  <2>4. Keyed(Shared("app"))
    BY KeysAccepted
  <2>. QED
    BY <2>1, <2>2, <2>3, <2>4, FitKeyed
<1>6. Fit("dhcpv6")
  <2>1. /\ DefaultDecl.dhcpv6.claims = <<UdpPort(547), UdpPort(546)>>
        /\ DefaultDecl.dhcpv6.condense = {}
        /\ DefaultDecl.dhcpv6.identity = {Identity(<<Shared("app")>>, {Series("msg_type", 64)})}
    BY ServiceDecls DEF Dhcpv6Decl, Declares, Dhcpv6Identity
  <2>2. Holds("dhcpv6", <<UdpPort(547), UdpPort(546)>>)
    <3>1. /\ Holder(UdpPort(547)) = <<"dhcpv6", 1>>
          /\ Holder(UdpPort(546)) = <<"dhcpv6", 2>>
      BY UdpHeld
    <3>. QED
      BY <3>1 DEF Holds
  <2>3. \A r \in {Series("msg_type", 64)} : Rolled(r)
    <3>1. Rolled(Series("msg_type", 64))
      BY RollupsAccepted, SeriesAccepted
    <3>. QED
      BY <3>1
  <2>4. Keyed(Shared("app"))
    BY KeysAccepted
  <2>. QED
    BY <2>1, <2>2, <2>3, <2>4, FitKeyed
<1>7. Fit("ntp")
  <2>1. /\ DefaultDecl.ntp.claims = <<UdpPort(123)>>
        /\ DefaultDecl.ntp.condense = {}
        /\ DefaultDecl.ntp.identity =
             {Identity(<<Shared("app")>>, {Accumulate("mode"), Sample("stratum")})}
    BY ServiceDecls DEF NtpDecl, Declares, NtpIdentity
  <2>2. Holds("ntp", <<UdpPort(123)>>)
    BY UdpHeld DEF Holds
  <2>3. \A r \in {Accumulate("mode"), Sample("stratum")} : Rolled(r)
    BY RollupsAccepted
  <2>4. Keyed(Shared("app"))
    BY KeysAccepted
  <2>. QED
    BY <2>1, <2>2, <2>3, <2>4, FitKeyed
<1>8. Fit("ptp")
  <2>1. /\ DefaultDecl.ptp.claims = <<UdpPort(319), UdpPort(320), EtherType(35063)>>
        /\ DefaultDecl.ptp.condense = {}
        /\ DefaultDecl.ptp.identity = {Identity(<<Shared("domain")>>, {Accumulate("msg_type")})}
    BY ServiceDecls DEF PtpDecl, Declares, PtpIdentity
  <2>2. Holds("ptp", <<UdpPort(319), UdpPort(320), EtherType(35063)>>)
    <3>1. /\ Holder(UdpPort(319)) = <<"ptp", 1>>
          /\ Holder(UdpPort(320)) = <<"ptp", 2>>
          /\ Holder(EtherType(35063)) = <<"ptp", 3>>
      BY EtherHeld, UdpHeld
    <3>. QED
      BY <3>1 DEF Holds
  <2>3. \A r \in {Accumulate("msg_type")} : Rolled(r)
    BY RollupsAccepted
  <2>4. Keyed(Shared("domain"))
    BY KeysAccepted
  <2>. QED
    BY <2>1, <2>2, <2>3, <2>4, FitKeyed
<1>9. Fit("syslog")
  <2>1. /\ DefaultDecl.syslog.claims = <<UdpPort(514)>>
        /\ DefaultDecl.syslog.condense = {}
        /\ DefaultDecl.syslog.identity = {Identity(<<Shared("app")>>, {Accumulate("severity")})}
    BY ServiceDecls DEF SyslogDecl, Declares, SyslogIdentity
  <2>2. Holds("syslog", <<UdpPort(514)>>)
    BY UdpHeld DEF Holds
  <2>3. \A r \in {Accumulate("severity")} : Rolled(r)
    BY RollupsAccepted
  <2>4. Keyed(Shared("app"))
    BY KeysAccepted
  <2>. QED
    BY <2>1, <2>2, <2>3, <2>4, FitKeyed
<1>10. Fit("radius")
  <2>1. /\ DefaultDecl.radius.claims = <<UdpPort(1812), UdpPort(1813)>>
        /\ DefaultDecl.radius.condense = {}
        /\ DefaultDecl.radius.identity =
             {Identity(<<Shared("app")>>, {Accumulate("code"), Sample("user_name")})}
    BY ServiceDecls DEF RadiusDecl, Declares, RadiusIdentity
  <2>2. Holds("radius", <<UdpPort(1812), UdpPort(1813)>>)
    <3>1. /\ Holder(UdpPort(1812)) = <<"radius", 1>>
          /\ Holder(UdpPort(1813)) = <<"radius", 2>>
      BY UdpHeld
    <3>. QED
      BY <3>1 DEF Holds
  <2>3. \A r \in {Accumulate("code"), Sample("user_name")} : Rolled(r)
    BY RollupsAccepted
  <2>4. Keyed(Shared("app"))
    BY KeysAccepted
  <2>. QED
    BY <2>1, <2>2, <2>3, <2>4, FitKeyed
<1>11. Fit("snmp")
  <2>1. /\ DefaultDecl.snmp.claims = <<UdpPort(161), UdpPort(162)>>
        /\ DefaultDecl.snmp.condense = {}
        /\ DefaultDecl.snmp.identity =
             {Identity(<<Shared("app")>>, {Accumulate("pdu_type"), Sample("community")})}
    BY ServiceDecls DEF SnmpDecl, Declares, SnmpIdentity
  <2>2. Holds("snmp", <<UdpPort(161), UdpPort(162)>>)
    <3>1. /\ Holder(UdpPort(161)) = <<"snmp", 1>>
          /\ Holder(UdpPort(162)) = <<"snmp", 2>>
      BY UdpHeld
    <3>. QED
      BY <3>1 DEF Holds
  <2>3. \A r \in {Accumulate("pdu_type"), Sample("community")} : Rolled(r)
    BY RollupsAccepted
  <2>4. Keyed(Shared("app"))
    BY KeysAccepted
  <2>. QED
    BY <2>1, <2>2, <2>3, <2>4, FitKeyed
<1>12. Fit("kerberos")
  <2>1. /\ DefaultDecl.kerberos.claims = <<UdpPort(88), TcpPort(88)>>
        /\ DefaultDecl.kerberos.condense = {}
        /\ DefaultDecl.kerberos.identity = {Identity(<<Shared("app")>>, {Accumulate("msg_type")})}
    BY ServiceDecls DEF KerberosDecl, Declares, KerberosIdentity
  <2>2. Holds("kerberos", <<UdpPort(88), TcpPort(88)>>)
    <3>1. /\ Holder(UdpPort(88)) = <<"kerberos", 1>>
          /\ Holder(TcpPort(88)) = <<"kerberos", 2>>
      BY TcpHeld, UdpHeld
    <3>. QED
      BY <3>1 DEF Holds
  <2>3. \A r \in {Accumulate("msg_type")} : Rolled(r)
    BY RollupsAccepted
  <2>4. Keyed(Shared("app"))
    BY KeysAccepted
  <2>. QED
    BY <2>1, <2>2, <2>3, <2>4, FitKeyed
<1>13. Fit("ldap")
  <2>1. /\ DefaultDecl.ldap.claims = <<TcpPort(389)>>
        /\ DefaultDecl.ldap.condense = {}
        /\ DefaultDecl.ldap.identity =
             {Identity(<<Shared("app")>>, {Accumulate("protocol_op"), Sample("bind_dn")})}
    BY ServiceDecls DEF LdapDecl, Declares, LdapIdentity
  <2>2. Holds("ldap", <<TcpPort(389)>>)
    BY TcpHeld DEF Holds
  <2>3. \A r \in {Accumulate("protocol_op"), Sample("bind_dn")} : Rolled(r)
    BY RollupsAccepted
  <2>4. Keyed(Shared("app"))
    BY KeysAccepted
  <2>. QED
    BY <2>1, <2>2, <2>3, <2>4, FitKeyed
<1>. QED
  BY <1>1, <1>2, <1>3, <1>4, <1>5, <1>6, <1>7, <1>8, <1>9, <1>10, <1>11, <1>12, <1>13

\* The plugins of control networks can be registered.
LEMMA IndustrialFit ==
  /\ Fit("rocev2")
  /\ Fit("modbus")
  /\ Fit("mqtt")
  /\ Fit("dnp3")
  /\ Fit("enip")
  /\ Fit("bacnet_ip")
<1>1. Fit("rocev2")
  <2>1. /\ DefaultDecl.rocev2.claims = <<UdpPort(4791)>>
        /\ DefaultDecl.rocev2.condense = {}
        /\ DefaultDecl.rocev2.identity = {Identity(<<Shared("dest_qp")>>, {Accumulate("opcode")})}
    BY IndustrialDecls DEF Rocev2Decl, Declares, Rocev2Identity
  <2>2. Holds("rocev2", <<UdpPort(4791)>>)
    BY UdpHeld DEF Holds
  <2>3. \A r \in {Accumulate("opcode")} : Rolled(r)
    BY RollupsAccepted
  <2>4. Keyed(Shared("dest_qp"))
    BY KeysAccepted
  <2>. QED
    BY <2>1, <2>2, <2>3, <2>4, FitKeyed
<1>2. Fit("modbus")
  <2>1. /\ DefaultDecl.modbus.claims = <<TcpPort(502)>>
        /\ DefaultDecl.modbus.condense = {}
        /\ DefaultDecl.modbus.identity =
             {Identity(<<Shared("unit_id")>>, {Accumulate("function_code")})}
    BY IndustrialDecls DEF ModbusDecl, Declares, ModbusIdentity
  <2>2. Holds("modbus", <<TcpPort(502)>>)
    BY TcpHeld DEF Holds
  <2>3. \A r \in {Accumulate("function_code")} : Rolled(r)
    BY RollupsAccepted
  <2>4. Keyed(Shared("unit_id"))
    BY KeysAccepted
  <2>. QED
    BY <2>1, <2>2, <2>3, <2>4, FitKeyed
<1>3. Fit("mqtt")
  <2>1. /\ DefaultDecl.mqtt.claims = <<TcpPort(1883)>>
        /\ DefaultDecl.mqtt.condense = {}
        /\ DefaultDecl.mqtt.identity =
             {Identity(<<Shared("app")>>, {Accumulate("message_type"), Accumulate("topic")})}
    BY IndustrialDecls DEF MqttDecl, Declares, MqttIdentity
  <2>2. Holds("mqtt", <<TcpPort(1883)>>)
    BY TcpHeld DEF Holds
  <2>3. \A r \in {Accumulate("message_type"), Accumulate("topic")} : Rolled(r)
    BY RollupsAccepted
  <2>4. Keyed(Shared("app"))
    BY KeysAccepted
  <2>. QED
    BY <2>1, <2>2, <2>3, <2>4, FitKeyed
<1>4. Fit("dnp3")
  <2>1. /\ DefaultDecl.dnp3.claims = <<TcpPort(20000), UdpPort(20000)>>
        /\ DefaultDecl.dnp3.condense = {}
        /\ DefaultDecl.dnp3.identity =
             {Identity(<<Pair("source", "destination")>>, {Accumulate("function_code")})}
    BY IndustrialDecls DEF Dnp3Decl, Declares, Dnp3Identity
  <2>2. Holds("dnp3", <<TcpPort(20000), UdpPort(20000)>>)
    <3>1. /\ Holder(TcpPort(20000)) = <<"dnp3", 1>>
          /\ Holder(UdpPort(20000)) = <<"dnp3", 2>>
      BY TcpHeld, UdpHeld
    <3>. QED
      BY <3>1 DEF Holds
  <2>3. \A r \in {Accumulate("function_code")} : Rolled(r)
    BY RollupsAccepted
  <2>4. Keyed(Pair("source", "destination"))
    BY KeysAccepted
  <2>. QED
    BY <2>1, <2>2, <2>3, <2>4, FitKeyed
<1>5. Fit("enip")
  <2>1. /\ DefaultDecl.enip.claims = <<TcpPort(44818)>>
        /\ DefaultDecl.enip.condense = {}
        /\ DefaultDecl.enip.identity =
             {Identity(<<Shared("session_handle")>>, {Accumulate("command")})}
    BY IndustrialDecls DEF EnipDecl, Declares, EnipIdentity
  <2>2. Holds("enip", <<TcpPort(44818)>>)
    BY TcpHeld DEF Holds
  <2>3. \A r \in {Accumulate("command")} : Rolled(r)
    BY RollupsAccepted
  <2>4. Keyed(Shared("session_handle"))
    BY KeysAccepted
  <2>. QED
    BY <2>1, <2>2, <2>3, <2>4, FitKeyed
<1>6. Fit("bacnet_ip")
  <2>1. /\ DefaultDecl.bacnet_ip.claims = <<UdpPort(47808)>>
        /\ DefaultDecl.bacnet_ip.condense = {}
        /\ DefaultDecl.bacnet_ip.identity =
             {Identity(<<Shared("app")>>, {Accumulate("service_choice")})}
    BY IndustrialDecls DEF BacnetIpDecl, Declares, BacnetIpIdentity
  <2>2. Holds("bacnet_ip", <<UdpPort(47808)>>)
    BY UdpHeld DEF Holds
  <2>3. \A r \in {Accumulate("service_choice")} : Rolled(r)
    BY RollupsAccepted
  <2>4. Keyed(Shared("app"))
    BY KeysAccepted
  <2>. QED
    BY <2>1, <2>2, <2>3, <2>4, FitKeyed
<1>. QED
  BY <1>1, <1>2, <1>3, <1>4, <1>5, <1>6

\* The plugins of text protocols can be registered.
LEMMA TextFit ==
  /\ Fit("ssdp")
  /\ Fit("http")
  /\ Fit("sip")
  /\ Fit("http2")
  /\ Fit("websocket")
  /\ Fit("ftp")
  /\ Fit("smtp")
  /\ Fit("imap")
  /\ Fit("pop3")
  /\ Fit("redis")
<1>1. Fit("ssdp")
  <2>1. /\ DefaultDecl.ssdp.claims = <<UdpPort(1900)>>
        /\ DefaultDecl.ssdp.condense = {}
        /\ DefaultDecl.ssdp.identity =
             {Identity(<<Shared("app")>>, {Accumulate("nts"), Sample("location")})}
    BY TextDecls DEF SsdpDecl, Declares, SsdpIdentity
  <2>2. Holds("ssdp", <<UdpPort(1900)>>)
    BY UdpHeld DEF Holds
  <2>3. \A r \in {Accumulate("nts"), Sample("location")} : Rolled(r)
    BY RollupsAccepted
  <2>4. Keyed(Shared("app"))
    BY KeysAccepted
  <2>. QED
    BY <2>1, <2>2, <2>3, <2>4, FitKeyed
<1>2. Fit("http")
  <2>1. /\ DefaultDecl.http.claims = <<TcpPort(80)>>
        /\ DefaultDecl.http.condense = {}
        /\ DefaultDecl.http.identity =
             {Identity(<<Shared("app")>>,
               {Accumulate("method"), Accumulate("status_code"), Sample("host")})}
    BY TextDecls DEF HttpDecl, Declares, HttpIdentity
  <2>2. Holds("http", <<TcpPort(80)>>)
    BY TcpHeld DEF Holds
  <2>3. \A r \in {Accumulate("method"), Accumulate("status_code"), Sample("host")} : Rolled(r)
    BY RollupsAccepted
  <2>4. Keyed(Shared("app"))
    BY KeysAccepted
  <2>. QED
    BY <2>1, <2>2, <2>3, <2>4, FitKeyed
<1>3. Fit("sip")
  <2>1. /\ DefaultDecl.sip.claims = <<UdpPort(5060), TcpPort(5060)>>
        /\ DefaultDecl.sip.condense = {}
        /\ DefaultDecl.sip.identity =
             {Identity(<<Shared("call_id")>>, {Accumulate("method"), Series("status_code", 64)})}
    BY TextDecls DEF SipDecl, Declares, SipIdentity
  <2>2. Holds("sip", <<UdpPort(5060), TcpPort(5060)>>)
    <3>1. /\ Holder(UdpPort(5060)) = <<"sip", 1>>
          /\ Holder(TcpPort(5060)) = <<"sip", 2>>
      BY TcpHeld, UdpHeld
    <3>. QED
      BY <3>1 DEF Holds
  <2>3. \A r \in {Accumulate("method"), Series("status_code", 64)} : Rolled(r)
    <3>1. Rolled(Accumulate("method")) /\ Rolled(Series("status_code", 64))
      BY RollupsAccepted, SeriesAccepted
    <3>. QED
      BY <3>1
  <2>4. Keyed(Shared("call_id"))
    BY KeysAccepted
  <2>. QED
    BY <2>1, <2>2, <2>3, <2>4, FitKeyed
<1>4. Fit("http2")
  <2>1. /\ DefaultDecl.http2.claims = <<>>
        /\ DefaultDecl.http2.condense = {}
        /\ DefaultDecl.http2.identity =
             {Identity(<<Shared("stream_id")>>, {Accumulate("frame_type")})}
    BY TextDecls DEF Http2Decl, Declares, Http2Identity
  <2>2. Holds("http2", <<>>)
    BY DEF Holds
  <2>3. \A r \in {Accumulate("frame_type")} : Rolled(r)
    BY RollupsAccepted
  <2>4. Keyed(Shared("stream_id"))
    BY KeysAccepted
  <2>. QED
    BY <2>1, <2>2, <2>3, <2>4, FitKeyed
<1>5. Fit("websocket")
  <2>1. /\ DefaultDecl.websocket.claims = <<>>
        /\ DefaultDecl.websocket.condense = {}
        /\ DefaultDecl.websocket.identity = {Identity(<<Shared("app")>>, {Accumulate("opcode")})}
    BY TextDecls DEF WebSocketDecl, Declares, WebSocketIdentity
  <2>2. Holds("websocket", <<>>)
    BY DEF Holds
  <2>3. \A r \in {Accumulate("opcode")} : Rolled(r)
    BY RollupsAccepted
  <2>4. Keyed(Shared("app"))
    BY KeysAccepted
  <2>. QED
    BY <2>1, <2>2, <2>3, <2>4, FitKeyed
<1>6. Fit("ftp")
  <2>1. /\ DefaultDecl.ftp.claims = <<TcpPort(21)>>
        /\ DefaultDecl.ftp.condense = {}
        /\ DefaultDecl.ftp.identity =
             {Identity(<<Shared("app")>>, {Accumulate("command"), Accumulate("reply_code")})}
    BY TextDecls DEF FtpDecl, Declares, FtpIdentity
  <2>2. Holds("ftp", <<TcpPort(21)>>)
    BY TcpHeld DEF Holds
  <2>3. \A r \in {Accumulate("command"), Accumulate("reply_code")} : Rolled(r)
    BY RollupsAccepted
  <2>4. Keyed(Shared("app"))
    BY KeysAccepted
  <2>. QED
    BY <2>1, <2>2, <2>3, <2>4, FitKeyed
<1>7. Fit("smtp")
  <2>1. /\ DefaultDecl.smtp.claims = <<TcpPort(25)>>
        /\ DefaultDecl.smtp.condense = {}
        /\ DefaultDecl.smtp.identity =
             {Identity(<<Shared("app")>>, {Accumulate("command"), Accumulate("reply_code")})}
    BY TextDecls DEF SmtpDecl, Declares, SmtpIdentity
  <2>2. Holds("smtp", <<TcpPort(25)>>)
    BY TcpHeld DEF Holds
  <2>3. \A r \in {Accumulate("command"), Accumulate("reply_code")} : Rolled(r)
    BY RollupsAccepted
  <2>4. Keyed(Shared("app"))
    BY KeysAccepted
  <2>. QED
    BY <2>1, <2>2, <2>3, <2>4, FitKeyed
<1>8. Fit("imap")
  <2>1. /\ DefaultDecl.imap.claims = <<TcpPort(143)>>
        /\ DefaultDecl.imap.condense = {}
        /\ DefaultDecl.imap.identity = {Identity(<<Shared("app")>>, {Accumulate("command")})}
    BY TextDecls DEF ImapDecl, Declares, ImapIdentity
  <2>2. Holds("imap", <<TcpPort(143)>>)
    BY TcpHeld DEF Holds
  <2>3. \A r \in {Accumulate("command")} : Rolled(r)
    BY RollupsAccepted
  <2>4. Keyed(Shared("app"))
    BY KeysAccepted
  <2>. QED
    BY <2>1, <2>2, <2>3, <2>4, FitKeyed
<1>9. Fit("pop3")
  <2>1. /\ DefaultDecl.pop3.claims = <<TcpPort(110)>>
        /\ DefaultDecl.pop3.condense = {}
        /\ DefaultDecl.pop3.identity = {Identity(<<Shared("app")>>, {Accumulate("command")})}
    BY TextDecls DEF Pop3Decl, Declares, Pop3Identity
  <2>2. Holds("pop3", <<TcpPort(110)>>)
    BY TcpHeld DEF Holds
  <2>3. \A r \in {Accumulate("command")} : Rolled(r)
    BY RollupsAccepted
  <2>4. Keyed(Shared("app"))
    BY KeysAccepted
  <2>. QED
    BY <2>1, <2>2, <2>3, <2>4, FitKeyed
<1>10. Fit("redis")
  <2>1. /\ DefaultDecl.redis.claims = <<TcpPort(6379)>>
        /\ DefaultDecl.redis.condense = {}
        /\ DefaultDecl.redis.identity = {Identity(<<Shared("app")>>, {Accumulate("command")})}
    BY TextDecls DEF RedisDecl, Declares, RedisIdentity
  <2>2. Holds("redis", <<TcpPort(6379)>>)
    BY TcpHeld DEF Holds
  <2>3. \A r \in {Accumulate("command")} : Rolled(r)
    BY RollupsAccepted
  <2>4. Keyed(Shared("app"))
    BY KeysAccepted
  <2>. QED
    BY <2>1, <2>2, <2>3, <2>4, FitKeyed
<1>. QED
  BY <1>1, <1>2, <1>3, <1>4, <1>5, <1>6, <1>7, <1>8, <1>9, <1>10

\* The plugins of applications can be registered.
LEMMA AppFit ==
  /\ Fit("tls")
  /\ Fit("ssh")
  /\ Fit("stun")
  /\ Fit("tftp")
  /\ Fit("smb2")
  /\ Fit("nfs")
  /\ Fit("rtp")
  /\ Fit("rtcp")
  /\ Fit("amqp")
  /\ Fit("netflow9")
  /\ Fit("ipfix")
  /\ Fit("bgp")
<1>1. Fit("tls")
  <2>1. /\ DefaultDecl.tls.claims = <<TcpPort(443)>>
        /\ DefaultDecl.tls.condense = {}
        /\ DefaultDecl.tls.identity =
             {Identity(<<Shared("app")>>,
               {Sample("sni"), Accumulate("handshake_type"), Accumulate("selected_cipher_suite"),
                 Accumulate("tls_version_selected")})}
    BY AppDecls DEF TlsDecl, Declares, TlsIdentity
  <2>2. Holds("tls", <<TcpPort(443)>>)
    BY TcpHeld DEF Holds
  <2>3. \A r \in {Sample("sni"), Accumulate("handshake_type"), Accumulate("selected_cipher_suite"),
          Accumulate("tls_version_selected")} : Rolled(r)
    BY RollupsAccepted
  <2>4. Keyed(Shared("app"))
    BY KeysAccepted
  <2>. QED
    BY <2>1, <2>2, <2>3, <2>4, FitKeyed
<1>2. Fit("ssh")
  <2>1. /\ DefaultDecl.ssh.claims = <<TcpPort(22)>>
        /\ DefaultDecl.ssh.condense = {}
        /\ DefaultDecl.ssh.identity = {Identity(<<Shared("app")>>, {Sample("banner")})}
    BY AppDecls DEF SshDecl, Declares, SshIdentity
  <2>2. Holds("ssh", <<TcpPort(22)>>)
    BY TcpHeld DEF Holds
  <2>3. \A r \in {Sample("banner")} : Rolled(r)
    BY RollupsAccepted
  <2>4. Keyed(Shared("app"))
    BY KeysAccepted
  <2>. QED
    BY <2>1, <2>2, <2>3, <2>4, FitKeyed
<1>3. Fit("stun")
  <2>1. /\ DefaultDecl.stun.claims = <<UdpPort(3478), TcpPort(3478)>>
        /\ DefaultDecl.stun.condense = {}
        /\ DefaultDecl.stun.identity =
             {Identity(<<Shared("app")>>,
               {Accumulate("message_class"), Sample("xor_mapped_address")})}
    BY AppDecls DEF StunDecl, Declares, StunIdentity
  <2>2. Holds("stun", <<UdpPort(3478), TcpPort(3478)>>)
    <3>1. /\ Holder(UdpPort(3478)) = <<"stun", 1>>
          /\ Holder(TcpPort(3478)) = <<"stun", 2>>
      BY TcpHeld, UdpHeld
    <3>. QED
      BY <3>1 DEF Holds
  <2>3. \A r \in {Accumulate("message_class"), Sample("xor_mapped_address")} : Rolled(r)
    BY RollupsAccepted
  <2>4. Keyed(Shared("app"))
    BY KeysAccepted
  <2>. QED
    BY <2>1, <2>2, <2>3, <2>4, FitKeyed
<1>4. Fit("tftp")
  <2>1. /\ TftpDecl.claims = <<UdpPort(69)>>
        /\ TftpDecl.identity = {} /\ TftpDecl.condense = {}
    BY DEF TftpDecl, Declares
  <2>2. Holds("tftp", <<UdpPort(69)>>)
    BY UdpHeld DEF Holds
  <2>. QED
    BY <2>1, <2>2, AppDecls, FitBare
<1>5. Fit("smb2")
  <2>1. /\ DefaultDecl.smb2.claims = <<TcpPort(445)>>
        /\ DefaultDecl.smb2.condense = {}
        /\ DefaultDecl.smb2.identity =
             {Identity(<<Shared("session_id")>>, {Accumulate("command")})}
    BY AppDecls DEF Smb2Decl, Declares, Smb2Identity
  <2>2. Holds("smb2", <<TcpPort(445)>>)
    BY TcpHeld DEF Holds
  <2>3. \A r \in {Accumulate("command")} : Rolled(r)
    BY RollupsAccepted
  <2>4. Keyed(Shared("session_id"))
    BY KeysAccepted
  <2>. QED
    BY <2>1, <2>2, <2>3, <2>4, FitKeyed
<1>6. Fit("nfs")
  <2>1. /\ DefaultDecl.nfs.claims = <<UdpPort(2049), TcpPort(2049)>>
        /\ DefaultDecl.nfs.condense = {}
        /\ DefaultDecl.nfs.identity = {Identity(<<Shared("app")>>, {Accumulate("procedure")})}
    BY AppDecls DEF NfsDecl, Declares, NfsIdentity
  <2>2. Holds("nfs", <<UdpPort(2049), TcpPort(2049)>>)
    <3>1. /\ Holder(UdpPort(2049)) = <<"nfs", 1>>
          /\ Holder(TcpPort(2049)) = <<"nfs", 2>>
      BY TcpHeld, UdpHeld
    <3>. QED
      BY <3>1 DEF Holds
  <2>3. \A r \in {Accumulate("procedure")} : Rolled(r)
    BY RollupsAccepted
  <2>4. Keyed(Shared("app"))
    BY KeysAccepted
  <2>. QED
    BY <2>1, <2>2, <2>3, <2>4, FitKeyed
<1>7. Fit("rtp")
  <2>1. /\ DefaultDecl.rtp.claims = <<>>
        /\ DefaultDecl.rtp.condense = {}
        /\ DefaultDecl.rtp.identity = {Identity(<<Shared("ssrc")>>, {Accumulate("payload_type")})}
    BY AppDecls DEF RtpDecl, Declares, RtpIdentity
  <2>2. Holds("rtp", <<>>)
    BY DEF Holds
  <2>3. \A r \in {Accumulate("payload_type")} : Rolled(r)
    BY RollupsAccepted
  <2>4. Keyed(Shared("ssrc"))
    BY KeysAccepted
  <2>. QED
    BY <2>1, <2>2, <2>3, <2>4, FitKeyed
<1>8. Fit("rtcp")
  <2>1. /\ DefaultDecl.rtcp.claims = <<>>
        /\ DefaultDecl.rtcp.condense = {}
        /\ DefaultDecl.rtcp.identity = {Identity(<<Shared("ssrc")>>, {Accumulate("packet_type")})}
    BY AppDecls DEF RtcpDecl, Declares, RtcpIdentity
  <2>2. Holds("rtcp", <<>>)
    BY DEF Holds
  <2>3. \A r \in {Accumulate("packet_type")} : Rolled(r)
    BY RollupsAccepted
  <2>4. Keyed(Shared("ssrc"))
    BY KeysAccepted
  <2>. QED
    BY <2>1, <2>2, <2>3, <2>4, FitKeyed
<1>9. Fit("amqp")
  <2>1. /\ DefaultDecl.amqp.claims = <<TcpPort(5672)>>
        /\ DefaultDecl.amqp.condense = {}
        /\ DefaultDecl.amqp.identity =
             {Identity(<<Shared("app")>>, {Accumulate("frame_type"), Accumulate("class_id")})}
    BY AppDecls DEF AmqpDecl, Declares, AmqpIdentity
  <2>2. Holds("amqp", <<TcpPort(5672)>>)
    BY TcpHeld DEF Holds
  <2>3. \A r \in {Accumulate("frame_type"), Accumulate("class_id")} : Rolled(r)
    BY RollupsAccepted
  <2>4. Keyed(Shared("app"))
    BY KeysAccepted
  <2>. QED
    BY <2>1, <2>2, <2>3, <2>4, FitKeyed
<1>10. Fit("netflow9")
  <2>1. /\ DefaultDecl.netflow9.claims = <<UdpPort(2055)>>
        /\ DefaultDecl.netflow9.condense = {}
        /\ DefaultDecl.netflow9.identity =
             {Identity(<<Shared("app")>>, {Accumulate("source_id")})}
    BY AppDecls DEF Netflow9Decl, Declares, Netflow9Identity
  <2>2. Holds("netflow9", <<UdpPort(2055)>>)
    BY UdpHeld DEF Holds
  <2>3. \A r \in {Accumulate("source_id")} : Rolled(r)
    BY RollupsAccepted
  <2>4. Keyed(Shared("app"))
    BY KeysAccepted
  <2>. QED
    BY <2>1, <2>2, <2>3, <2>4, FitKeyed
<1>11. Fit("ipfix")
  <2>1. /\ DefaultDecl.ipfix.claims = <<UdpPort(4739)>>
        /\ DefaultDecl.ipfix.condense = {}
        /\ DefaultDecl.ipfix.identity = {Identity(<<Shared("app")>>, {Accumulate("domain_id")})}
    BY AppDecls DEF IpfixDecl, Declares, IpfixIdentity
  <2>2. Holds("ipfix", <<UdpPort(4739)>>)
    BY UdpHeld DEF Holds
  <2>3. \A r \in {Accumulate("domain_id")} : Rolled(r)
    BY RollupsAccepted
  <2>4. Keyed(Shared("app"))
    BY KeysAccepted
  <2>. QED
    BY <2>1, <2>2, <2>3, <2>4, FitKeyed
<1>12. Fit("bgp")
  <2>1. /\ DefaultDecl.bgp.claims = <<TcpPort(179)>>
        /\ DefaultDecl.bgp.condense = {}
        /\ DefaultDecl.bgp.identity =
             {Identity(<<Shared("app")>>, {Accumulate("msg_type"), Sample("my_as")})}
    BY AppDecls DEF BgpDecl, Declares, BgpIdentity
  <2>2. Holds("bgp", <<TcpPort(179)>>)
    BY TcpHeld DEF Holds
  <2>3. \A r \in {Accumulate("msg_type"), Sample("my_as")} : Rolled(r)
    BY RollupsAccepted
  <2>4. Keyed(Shared("app"))
    BY KeysAccepted
  <2>. QED
    BY <2>1, <2>2, <2>3, <2>4, FitKeyed
<1>. QED
  BY <1>1, <1>2, <1>3, <1>4, <1>5, <1>6, <1>7, <1>8, <1>9, <1>10, <1>11, <1>12

----------------------------------------------------------------------------
(* The default engine.                                                     *)

\* The default engine's builder registers the plugins that ship, and routes
\* nothing by hand (lib.rs default_engine).
DefaultBuilder ==
  "default" \in DOMAIN Builders =>
    Builders["default"] = [plugins |-> DefaultPlugins, overrides |-> <<>>, unroutes |-> <<>>]

\* Every plugin that ships can be registered.
LEMMA ShippedFit == \A p \in Shipped : Fit(p)
  BY ShippedFamilies, NetworkFit, LinkFit, TunnelFit, ServiceFit, IndustrialFit, TextFit, AppFit
     DEF NetworkFamily, LinkFamily, TunnelFamily, ServiceFamily, IndustrialFamily, TextFamily,
     AppFamily

\* No two plugins of the default list have one name.
LEMMA NamesDistinct ==
  \A i, j \in DOMAIN DefaultPlugins : DefaultPlugins[i] = DefaultPlugins[j] => i = j
  BY SMTT(60) DEF DefaultPlugins

\* Claims of one id are one claim.
LEMMA ClaimsDistinct ==
  ASSUME ShipsDefaults, NEW b, b.plugins = DefaultPlugins, NEW c \in Claims(b),
         NEW d \in Claims(b), c[3] = d[3]
  PROVE  c = d
<1>1. ASSUME NEW x \in Claims(b)
      PROVE  \E i \in DOMAIN DefaultPlugins : \E k :
               x = <<i, k, x[3]>> /\ Holder(x[3]) = <<DefaultPlugins[i], k>>
  <2>1. PICK i \in DOMAIN DefaultPlugins : \E k \in DOMAIN Decl(DefaultPlugins[i]).claims :
          x = <<i, k, Decl(DefaultPlugins[i]).claims[k]>>
    BY DEF Claims
  <2>2. PICK p : p = DefaultPlugins[i]
    OBVIOUS
  <2>3. p \in Shipped
    BY <2>2 DEF Shipped, ToSet
  <2>4. PICK k \in DOMAIN Decl(p).claims : x = <<i, k, Decl(p).claims[k]>>
    BY <2>1, <2>2
  <2>5. Decl(p) = DefaultDecl[p] /\ Fit(p)
    BY <2>3, ShippedFit DEF ShipsDefaults
  <2>6. Holder(DefaultDecl[p].claims[k]) = <<p, k>>
    BY <2>4, <2>5 DEF Fit, Holds
  <2>7. x[3] = DefaultDecl[p].claims[k] /\ x = <<i, k, x[3]>>
    BY <2>4, <2>5
  <2>. QED
    BY <2>2, <2>6, <2>7
<1>2. PICK i, k : /\ i \in DOMAIN DefaultPlugins /\ c = <<i, k, c[3]>>
                  /\ Holder(c[3]) = <<DefaultPlugins[i], k>>
  BY <1>1
<1>3. PICK j, m : /\ j \in DOMAIN DefaultPlugins /\ d = <<j, m, d[3]>>
                  /\ Holder(d[3]) = <<DefaultPlugins[j], m>>
  BY <1>1
<1>4. DefaultPlugins[i] = DefaultPlugins[j] /\ k = m
  BY <1>2, <1>3
<1>. QED
  BY <1>2, <1>3, <1>4, NamesDistinct

\* The default list builds.
LEMMA DefaultBuilds ==
  ASSUME ShipsDefaults, NEW b,
         b = [plugins |-> DefaultPlugins, overrides |-> <<>>, unroutes |-> <<>>]
  PROVE  BuildError(b) = ""
<1>1. b.plugins = DefaultPlugins /\ ToSet(b.overrides) = {}
  BY DEF ToSet
<1>2. ~\E i, j \in DOMAIN b.plugins : i < j /\ b.plugins[i] = b.plugins[j]
  <2>1. \A i \in DOMAIN DefaultPlugins : ~(i < i)
    BY DEF DefaultPlugins
  <2>. QED
    BY <1>1, <2>1, NamesDistinct
<1>3. ~Collision(b)
  BY <1>1, ClaimsDistinct DEF Collision, Unsettled
<1>4. \A p \in ToSet(b.plugins) : ~BadIdentity(Decl(p)) /\ ~BadCondense(Decl(p))
  BY <1>1, ShippedFit DEF ShipsDefaults, Fit, Shipped
<1>. QED
  BY <1>1, <1>2, <1>3, <1>4, Zenon DEF BuildError

\* Whatever the default engine leads to is a plugin that ships.
LEMMA DefaultTargets ==
  ASSUME DefaultBuilder, using = "default", using \in DOMAIN Builders
  PROVE  /\ Engines[using].names = Shipped
         /\ PoolNames(Engines[using]) \subseteq Shipped
         /\ \A id \in DOMAIN Engines[using].routes : Engines[using].routes[id] \in Shipped
<1>. DEFINE e == Engines[using]
<1>1. PICK b : b = Builders[using]
  OBVIOUS
<1>2. b.plugins = DefaultPlugins /\ ToSet(b.overrides) = {}
  BY <1>1 DEF DefaultBuilder, ToSet
<1>3. /\ e.plugins = DefaultPlugins /\ e.names = Shipped /\ e.pool \subseteq DOMAIN DefaultPlugins
      /\ e.routes = RouteTable(b, Unsettled(b))
  BY <1>1, <1>2 DEF Engines, Build, Shipped
<1>4. \A i \in DOMAIN DefaultPlugins : DefaultPlugins[i] \in Shipped
  BY DEF Shipped, ToSet
<1>5. ASSUME NEW id \in DOMAIN RouteTable(b, Unsettled(b))
      PROVE RouteTable(b, Unsettled(b))[id] \in Shipped
  <2>. DEFINE kept == Unsettled(b)
              claim == CHOOSE c \in kept : c[3] = id
  <2>1. id \in {c[3] : c \in kept} /\ RouteTable(b, kept)[id] = b.plugins[claim[1]]
    BY <1>2, <1>5 DEF RouteTable
  <2>2. claim \in kept
    BY <2>1
  <2>3. \A c \in kept : c[1] \in DOMAIN DefaultPlugins
    BY <1>2 DEF Unsettled, Claims
  <2>. HIDE DEF claim, kept
  <2>4. RouteTable(b, kept)[id] \in Shipped
    BY <1>2, <1>4, <2>1, <2>2, <2>3
  <2>. QED
    BY <2>4 DEF kept
<1>. QED
  BY <1>3, <1>4, <1>5 DEF PoolNames

----------------------------------------------------------------------------
(* Honest from the first byte on.                                          *)

\* With the default engine every layer is of a plugin that ships, and no step
\* stopped at the name of a plugin that is not there.
HonestInv ==
  using = "default" =>
    /\ phase # "rejected"
    /\ phase = "walk" => opts.entry \in {""} \cup Shipped
    /\ \A i \in DOMAIN layers : layers[i].protocol \in Shipped
    /\ Started /\ stop[1] = "unclaimed_route" => Pending.kind # "by_protocol"

\* The plugins that may be named ship.
LEMMA NamedShip == Named \subseteq Shipped
<1>1. /\ {1, 2, 4, 5, 34, 45, 51, 64} \subseteq DOMAIN DefaultPlugins
      /\ DefaultPlugins[1] = "template" /\ DefaultPlugins[2] = "ethernet" /\
           DefaultPlugins[4] = "ipv4"
      /\ DefaultPlugins[5] = "ipv6" /\ DefaultPlugins[34] = "ppp" /\ DefaultPlugins[45] = "llc"
      /\ DefaultPlugins[51] = "dot11" /\ DefaultPlugins[64] = "http2"
  BY DEF DefaultPlugins
<1>. QED
  BY <1>1 DEF Named, Shipped, ToSet

\* A list of plugins none of which parses stops the walk for one reason.
LEMMA FirstEither ==
  ASSUME NEW list, DOMAIN list \in SUBSET Nat, NEW answers, NEW n, NEW g, NEW otherwise
  PROVE  \/ FirstParsed(list, answers, n, g, otherwise) = StopAt(otherwise)
         \/ FirstParsed(list, answers, n, g, otherwise).found
<1>1. CASE \E i : IsFirst(list, answers, n, i)
  <2>1. PICK i : IsFirst(list, answers, n, i)
    BY <1>1
  <2>2. FirstParsed(list, answers, n, g, otherwise) = Found(list[i], answers[list[i]], g)
    BY <2>1, FirstShape
  <2>3. Found(list[i], answers[list[i]], g).found
    BY DEF Found
  <2>. QED
    BY <2>2, <2>3
<1>2. CASE ~\E i : IsFirst(list, answers, n, i)
  BY <1>2, FirstShape
<1>. QED
  BY <1>1, <1>2

\* A step that follows a name to a plugin that is there does not stop for want of it.
LEMMA NameFollowed ==
  ASSUME NEW e, NEW hint, hint.kind = "by_protocol", hint.name \in e.names, NEW scores,
         NEW answers, NEW n,
         ~ResolveNext(e, hint, scores, answers, n).found
  PROVE  ResolveNext(e, hint, scores, answers, n).stop[1] # "unclaimed_route"
<1>1. CASE n = 0
  BY <1>1 DEF ResolveNext, StopAt
<1>2. CASE n # 0
  <2>1. ResolveNext(e, hint, scores, answers, n) =
          FirstParsed(<<hint.name>>, answers, n, FALSE, "plugin_error")
    BY <1>2 DEF ResolveNext
  <2>2. DOMAIN <<hint.name>> \in SUBSET Nat
    OBVIOUS
  <2>3. ResolveNext(e, hint, scores, answers, n) = StopAt("plugin_error")
    BY <2>1, <2>2, FirstEither
  <2>. QED
    BY <2>3 DEF StopAt
<1>. QED
  BY <1>1, <1>2

\* A step of the default engine keeps to the plugins that ship.
LEMMA StepHonest ==
  ASSUME ShipsDefaults, DefaultBuilder, Inv, KeptInv, HonestInv, using = "default", Walking,
         Left \in Nat,
         NEW reading, NEW outcome, NEW shadow,
         Stepped(reading, outcome, shadow), Resolved(reading, outcome, shadow)
  PROVE  HonestInv'
<1>. DEFINE e == Engines[using]
            answers == Answers(reading, Context)
            scores == ScoreFallbackPool(e, reading, Context)
<1>1. Pooled(e)
  BY EnginePooled DEF Inv, WalkType
<1>2. e.names = Shipped /\ PoolNames(e) \subseteq Shipped /\
        \A id \in DOMAIN e.routes : e.routes[id] \in Shipped
  BY DefaultTargets DEF Inv, WalkType
<1>3. PICK report, pooled :
        Step(outcome, report, shadow, reading, Answers(reading, Context), pooled)
  BY DEF Stepped
<1>4. /\ opts' = opts /\ phase' = phase /\ using' = using
      /\ Emit(outcome) \/ Halt(outcome, report)
  BY <1>3 DEF Step
<1>5. outcome.found => outcome.protocol \in Shipped
  <2>1. CASE ~Started
    <3>1. outcome = ResolveEntry(e, opts, scores, answers, Left)
      BY <2>1 DEF Resolved
    <3>2. EntryTargets(e) \subseteq Shipped
      BY <1>2 DEF EntryTargets, HonestInv, Walking
    <3>. QED
      BY <1>1, <3>1, <3>2, EntryAnswered DEF Answered
  <2>2. CASE Started
    <3>1. outcome = ResolveNext(e, Pending, scores, answers, Left)
      BY <2>2 DEF Resolved
    <3>2. Targets(e, Pending) \subseteq Shipped
      BY <1>2 DEF Targets, PluginForRoute
    <3>. QED
      BY <1>1, <3>1, <3>2, NextAnswered DEF Answered
  <2>. QED
    BY <2>1, <2>2
<1>6. CASE Emit(outcome)
  <2>. DEFINE new == RecordOf(outcome, cursor)
  <2>1. layers' = Append(layers, new) /\ outcome.found /\ stop' = stop
    BY <1>6 DEF Emit
  <2>2. new.protocol \in Shipped
    BY <1>5, <2>1 DEF RecordOf
  <2>. HIDE DEF new
  <2>3. \A i \in DOMAIN layers' : layers'[i].protocol \in Shipped
    <3>1. /\ DOMAIN layers = 1..Len(layers) /\ DOMAIN layers' = 1..(Len(layers) + 1) /\
               Len(layers) \in Nat
          /\ layers'[Len(layers) + 1] = new /\ \A k \in 1..Len(layers) : layers'[k] = layers[k]
      BY <2>1, AppendAny DEF Inv, WalkType
    <3>2. \A i \in 1..Len(layers) : layers[i].protocol \in Shipped
      BY <3>1 DEF HonestInv
    <3>3. \A i \in 1..(Len(layers) + 1) : i \in 1..Len(layers) \/ i = Len(layers) + 1
      BY <3>1
    <3>. QED
      BY <2>2, <3>1, <3>2, <3>3
  <2>4. stop'[1] # "unclaimed_route"
    BY <2>1 DEF Walking, NoStop
  <2>. QED
    BY <1>4, <2>3, <2>4 DEF HonestInv
<1>7. CASE Halt(outcome, report)
  <2>1. layers' = layers /\ stop' = outcome.stop /\ ~outcome.found
    BY <1>7 DEF Halt
  <2>2. ASSUME Started, Pending.kind = "by_protocol" PROVE outcome.stop[1] # "unclaimed_route"
    <3>1. Len(layers) \in DOMAIN layers
      BY <2>2, AppendAny DEF Inv, WalkType, Started, IsSeq
    <3>2. Hints(Pending)
      BY <3>1 DEF HonestInv, KeptInv, Kept, Pending
    <3>3. Pending.name \in e.names
      BY <1>2, <2>2, <3>2, NamedShip DEF Hints
    <3>4. outcome = ResolveNext(e, Pending, scores, answers, Left)
      BY <2>2 DEF Resolved
    <3>. HIDE DEF e, scores, answers
    <3>. QED
      BY <2>1, <2>2, <3>3, <3>4, NameFollowed
  <2>. QED
    BY <1>4, <2>1, <2>2 DEF HonestInv, Started, Pending
<1>. QED
  BY <1>4, <1>6, <1>7

\* So does every action.
LEMMA NextHonest ==
  ASSUME ShipsDefaults, DefaultBuilder, Inv, KeptInv, HonestInv, [Next]_vars
  PROVE  HonestInv'
<1>1. CASE BuildEngine
  <2>1. /\ layers' = layers /\ using' = using /\ layers = <<>>
        /\ phase' = IF BuildError(Builders[using]) = "" THEN "ready" ELSE "rejected"
    BY <1>1 DEF BuildEngine, walkVars, Inv, WalkType
  <2>2. using = "default" => BuildError(Builders[using]) = ""
    BY DefaultBuilds DEF DefaultBuilder, Inv, WalkType
  <2>. QED
    BY <2>1, <2>2 DEF HonestInv, Started
<1>2. ASSUME NEW o \in Opts, Layers(o) PROVE HonestInv'
  <2>1. layers' = layers /\ using' = using /\ layers = <<>> /\ opts' = o
    BY <1>2 DEF Layers, walkVars, Inv, WalkType
  <2>2. phase' = IF o.entry \in {""} \cup Engines[using].names THEN "walk" ELSE "panic"
    BY <1>2 DEF Layers
  <2>3. using = "default" => Engines[using].names = Shipped
    BY DefaultTargets DEF Inv, WalkType
  <2>. QED
    BY <2>1, <2>2, <2>3 DEF HonestInv, Started
<1>3. CASE AtCap
  <2>1. stop'[1] # "unclaimed_route" /\ layers' = layers /\ using' = using /\ phase' = phase /\
          opts' = opts
    BY <1>3 DEF AtCap
  <2>. QED
    BY <2>1 DEF HonestInv
<1>4. CASE EnterStep(Engines[using]) \/ NextStep(Engines[using])
  <2>1. PICK reading, outcome, shadow : Stepped(reading, outcome, shadow) /\
          Resolved(reading, outcome, shadow)
    BY <1>4, WalkStepped
  <2>2. using' = using
    BY <2>1 DEF Stepped, Step
  <2>3. CASE using = "default"
    BY <1>4, <2>1, <2>3, WalkStepped, StepHonest
  <2>. QED
    BY <2>2, <2>3 DEF HonestInv
<1>5. CASE Done \/ UNCHANGED vars
  BY <1>5 DEF Done, vars, walkVars, HonestInv, Started, Pending
<1>. QED
  BY <1>1, <1>2, <1>3, <1>4, <1>5 DEF Next

\* The default list builds (lib.rs default_engine's expect), none of its plugins
\* is ever caught claiming more bytes than it was given (plugin.rs rule 3,
\* parser.rs), and none names a plugin that the default engine does not have
\* (router.rs, ByProtocol), for every packet, every options and any layers
\* before.
THEOREM HonestCorrect ==
  ASSUME ShipsDefaults, DefaultBuilder PROVE Spec => []DefaultsHonest
<1>1. Init => HonestInv
  BY DEF Init, EmptyWalk, HonestInv, Started
<1>2. Inv /\ KeptInv /\ HonestInv /\ [Next]_vars => HonestInv'
  BY NextHonest
<1>3. KeptInv /\ HonestInv => DefaultsHonest
  BY DEF KeptInv, HonestInv, DefaultsHonest
<1>. QED
  BY <1>1, <1>2, <1>3, InvCorrect, KeptCorrect, PTL DEF Spec
=============================================================================
