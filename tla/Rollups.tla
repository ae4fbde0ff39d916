------------------------------ MODULE Rollups ------------------------------
(***************************************************************************)
(* flows/src/rollup.rs: what a stream keeps of the fields its plugin        *)
(* nominates.  A rollup is a record; a set of them is a sequence, one slot  *)
(* per declaration, because a plugin may nominate one field twice (tcp does *)
(* with its flags).                                                        *)
(***************************************************************************)
EXTENDS Integers, SequencesExt, Lifecycles

CONSTANTS
  AccumulateSetCap,   \* ACCUMULATE_SET_CAP
  SeriesDefaultCap,   \* AggregatorConfig::series_default_cap
  SeriesMaxCap,       \* AggregatorConfig::series_max_cap, or NoClamp
  MaxOffset           \* i64::MAX, in the model's nanoseconds

NoClamp == -1

ASSUME RollupsAssumption ==
  AccumulateSetCap \in Nat /\ SeriesMaxCap \in Nat \cup {NoClamp} /\ MaxOffset \in Nat

Smaller(m, n) == IF m <= n THEN m ELSE n
Larger(m, n) == IF m >= n THEN m ELSE n

\* A slip: a packet from before the first one is taken to be at the first.
OffsetUnsigned(base, ts) == Larger(0, Smaller(MaxOffset, ts - base))

\* SeriesPoint::new: the signed distance from the stream's first packet.
OffsetFrom(base, ts) == Larger(-MaxOffset, Smaller(MaxOffset, ts - base))

\* SeriesPoint::ts
PointTime(base, point) == base + point.offset

\* RollupSet::new of one declaration.  A cap of 0 asks for the default, and
\* the run's ceiling outranks both, but never below one point.
EmptyRollup(spec) ==
  CASE spec.kind = "accumulate" ->
         [kind |-> "accumulate", values |-> <<>>, count |-> 0, overflow |-> FALSE]
    [] spec.kind = "sample" -> [kind |-> "sample", first |-> NoValue, last |-> NoValue]
    [] spec.kind = "series" ->
         LET asked == IF spec.cap = 0 THEN SeriesDefaultCap ELSE spec.cap
         IN  [kind |-> "series", ring |-> <<>>, truncated |-> FALSE,
              cap |-> IF SeriesMaxCap = NoClamp THEN asked
                      ELSE Smaller(asked, Larger(1, SeriesMaxCap))]

EmptyRollups(specs) == [i \in DOMAIN specs |-> EmptyRollup(specs[i])]

\* The distinct set admits values up to its cap and counts past it.
AccumulateValue(r, v) ==
  LET fresh == ~Contains(r.values, v)
      full == Len(r.values) >= AccumulateSetCap
  IN  [r EXCEPT !.count = @ + 1,
                !.values = IF fresh /\ ~full THEN Append(@, v) ELSE @,
                !.overflow = @ \/ (fresh /\ full)]

SampleValue(r, v) ==
  [r EXCEPT !.first = IF @ = NoValue THEN v ELSE @, !.last = v]

\* The ring drops its oldest point to make room.
SeriesValue(r, v, base, ts) ==
  LET full == Len(r.ring) >= r.cap
  IN  [r EXCEPT !.ring = Append(IF full THEN Tail(@) ELSE @,
                                [offset |-> OffsetFrom(base, ts), value |-> v]),
                !.truncated = @ \/ full]

\* RollupSet::apply; a packet without the field leaves its rollup alone.
ApplyRollups(rolls, v, base, ts) ==
  IF v = NoValue THEN rolls
  ELSE [i \in DOMAIN rolls |->
         CASE rolls[i].kind = "accumulate" -> AccumulateValue(rolls[i], v)
           [] rolls[i].kind = "sample" -> SampleValue(rolls[i], v)
           [] rolls[i].kind = "series" -> SeriesValue(rolls[i], v, base, ts)]
=============================================================================
