------------------------------ MODULE Lenses ------------------------------
(***************************************************************************)
(* What the terminal application shows of the filter typed into it, against  *)
(* the grammar and a direct definition of what the tree, the pages of the    *)
(* web client and the timeline have to show.                               *)
(***************************************************************************)
EXTENDS Browser, SnapshotView

(* The grammar of docs/query-language.md as a relation between a text and    *)
(* the streams it can mean, by cutting the text wherever a rule may.  It is   *)
(* written from the document and not from the lexer and the parser.         *)

\* The operators and how they are spelled.
Spelled ==
  <<"=", "=">> :> "eq" @@ <<"=">> :> "eq" @@ <<"is">> :> "eq" @@ <<"!", "=">> :> "ne"
    @@ <<"=", "~">> :> "re" @@ <<"!", "~">> :> "notre" @@ <<">">> :> "gt" @@ <<">", "=">> :> "ge"
    @@ <<"<">> :> "lt" @@ <<"<", "=">> :> "le"
    @@ <<"contains">> :> "contains" @@ <<"has">> :> "contains"

Conjunctions == {<<"and">>, <<"&&">>}
Disjunctions == {<<"or">>, <<"||">>}
Negations == {<<"not">>, <<"!">>}
Reserved == Conjunctions \cup Disjunctions \cup Negations \cup DOMAIN Spelled

\* The operators that are not words may hug what they compare; a single "=" is
\* one of them in the document, and a letter like any other in the code.
Symbols == DOMAIN Spelled \ {<<"is">>, <<"contains">>, <<"has">>}
Hugging == Symbols \ {<<"=">>}

\* The pieces of a text: a space, a parenthesis, a quoted text, a regex, or a
\* word, which goes as far as it can.
Outside == {" ", "(", ")", "'", "\""}

Enclosed(p, marks) ==
  /\ Len(p) > 1 /\ p[1] \in marks /\ Last(p) = p[1]
  /\ \A i \in 2..(Len(p) - 1) : p[i] # p[1]

Unmarked(p) == p[1] # "/" /\ Range(p) \cap Outside = {}

IsPiece(p, rest) ==
  \/ p \in {<<" ">>, <<"(">>, <<")">>}
  \/ Enclosed(p, {"'", "\"", "/"})
  \/ Unmarked(p) /\ (rest = <<>> \/ rest[1] \in Outside)

\* The ways to cut a text into pieces, without the spaces.
RECURSIVE Pieces(_)
Pieces(text) ==
  LET rest(i) == SubSeq(text, i + 1, Len(text))
      first(i) == IF text[1] = " " THEN <<>> ELSE <<SubSeq(text, 1, i)>>
  IN  IF text = <<>> THEN {<<>>}
      ELSE UNION {{first(i) \o more : more \in Pieces(rest(i))} :
                    i \in {j \in DOMAIN text : IsPiece(SubSeq(text, 1, j), rest(j))}}

\* The ways to read a word around an operator that hugs: nowhere before it does
\* one begin, and there none that is longer.
Begin(word, at, hugs) == {o \in hugs : IsPrefix(o, SubSeq(word, at, Len(word)))}

Around(word, hugs) ==
  UNION {{[f |-> SubSeq(word, 1, at - 1), o |-> o, v |-> SubSeq(word, at + Len(o), Len(word)),
            apart |-> FALSE] :
            o \in {u \in Begin(word, at, hugs) :
                     \A w \in Begin(word, at, hugs) : Len(w) <= Len(u)}} :
          at \in {k \in DOMAIN word :
                    Unmarked(word) /\ \A m \in 1..(k - 1) : Begin(word, m, hugs) = {}}}

\* A word that is a term or the side of a comparison by itself.
IsWord(p, hugs) ==
  p \notin Reserved /\ Unmarked(p) /\ Around(p, hugs) = {}

IsValue(p, hugs) == IsWord(p, hugs) \/ Enclosed(p, Outside \cup {"/"})

IsField(f) == f # <<>> /\ f \notin Reserved

\* The comparisons that pieces can be read as, with and without hugging: field,
\* operator, value, and whether the value is a piece of its own.
Comparisons(ps, hugs) ==
  CASE Len(ps) = 1 -> {c \in Around(ps[1], hugs) : IsField(c.f) /\ c.v # <<>>}
    [] Len(ps) = 2 ->
         {[c EXCEPT !.v = ps[2], !.apart = TRUE] :
            c \in {d \in Around(ps[1], hugs) : IsField(d.f) /\ d.v = <<>> /\ IsValue(ps[2], hugs)}}
         \cup {[c EXCEPT !.f = ps[1]] :
            c \in {d \in Around(ps[2], hugs) : d.f = <<>> /\ d.v # <<>> /\ IsWord(ps[1], hugs)}}
    [] Len(ps) = 3 ->
         {[f |-> ps[1], o |-> o, v |-> ps[3], apart |-> TRUE] :
            o \in {u \in DOMAIN Spelled : u = ps[2] /\ IsWord(ps[1], hugs) /\ IsValue(ps[3], hugs)}}
    [] OTHER -> {}

\* What a stream of a snapshot is under: the smallest set that has its parent
\* and the parent of each of its own.
Under ==
  [snap \in Range(Snapshots) |-> [s \in All(snap) |->
     LET closed(U) == \A u \in All(snap) :
           u.id \in {s.parent} \cup {w.parent : w \in U} => u \in U
     IN  CHOOSE U \in SUBSET All(snap) :
           closed(U) /\ \A V \in SUBSET All(snap) : closed(V) => U \subseteq V]]

\* The names and the numbers a field has on a stream (of the fields that are
\* typed; the others are not told apart).
NamesOf(field, snap, s) ==
  CASE field = <<"proto">> -> {s.proto}
    [] field = <<"under">> -> {u.proto : u \in Under[snap][s]}
    [] OTHER -> {}

NumbersOf(field, s) == IF field = <<"bytes">> THEN {s.bytes} ELSE {}

\* A number with its suffix: a power of a thousand.
Powers == "" :> 0 @@ "k" :> 1 @@ "M" :> 2 @@ "G" :> 3 @@ "T" :> 4

IsAmount(v) == Len(v) = 1 /\ v[1] \in DOMAIN NumberOf
Amount(v) == NumberOf[v[1]].mag * Kilo^Powers[NumberOf[v[1]].suffix]

Ordered(op, x, y) ==
  CASE op = "gt" -> x > y [] op = "ge" -> x >= y [] op = "lt" -> x < y [] op = "le" -> x <= y

\* The streams of a comparison, if it is one: some value of the field compares.
\* Orderings want a number; a regex literal makes any other operator a regex's.
MeansComparison(c, snap) ==
  LET literal == c.apart /\ Enclosed(c.v, {"/"})
      v == IF literal \/ Enclosed(c.v, {"'", "\""}) THEN SubSeq(c.v, 2, Len(c.v) - 1) ELSE c.v
      op == Spelled[c.o]
      some(P(_)) == {{s \in All(snap) : \E x \in NamesOf(c.f, snap, s) : P(x)}}
  IN  CASE literal \/ op \in {"re", "notre"} ->
             IF ~RegexOk(v) THEN {}
             ELSE some(LAMBDA x : RegexMatches(v, <<x>>) # (op \in {"ne", "notre"}))
        [] ~literal /\ op \in {"gt", "ge", "lt", "le"} ->
             IF ~IsAmount(v) THEN {}
             ELSE {{s \in All(snap) : \E x \in NumbersOf(c.f, s) : Ordered(op, x, Amount(v))}}
        [] ~literal /\ op \in {"eq", "ne"} -> some(LAMBDA x : (<<x>> = v) = (op = "eq"))
        [] ~literal /\ op = "contains" -> some(LAMBDA x : v \in {<<>>, <<x>>})

\* A flag, a text that a row shows, or a regex over it.
MeansTerm(p, snap, hugs) ==
  LET shown(part) == {s \in All(snap) : Within(part, SearchableText(s))}
      inside == SubSeq(p, 2, Len(p) - 1)
  IN  CASE p = <<"closed">> -> {{s \in All(snap) : s.closed # "open"}}
        [] p \in {<<"live">>, <<"open">>} -> {{s \in All(snap) : s.closed = "open"}}
        [] p = <<"root">> -> {{s \in All(snap) : Under[snap][s] = {}}}
        [] p = <<"leaf">> -> {{s \in All(snap) : \A u \in All(snap) : s \notin Under[snap][u]}}
        [] p = <<"condensed">> -> {{s \in All(snap) : s.condensed}}
        [] Enclosed(p, {"'", "\""}) -> {shown(inside)}
        [] Enclosed(p, {"/"}) ->
             IF RegexOk(inside)
             THEN {{s \in All(snap) : RegexMatches(inside, SearchableText(s))}} ELSE {}
        [] OTHER -> IF IsWord(p, hugs) THEN {shown(p)} ELSE {}

\* The rules, over pieces.
RECURSIVE MeansOr(_, _, _), MeansAnd(_, _, _), MeansUnary(_, _, _)

MeansUnary(ps, snap, hugs) ==
  CASE ps = <<>> -> {}
    [] ps # <<>> /\ ps[1] \in Negations ->
         {All(snap) \ m : m \in MeansUnary(Tail(ps), snap, hugs)}
    [] ps # <<>> /\ ps[1] = <<"(">> ->
         IF Last(ps) = <<")">> THEN MeansOr(SubSeq(ps, 2, Len(ps) - 1), snap, hugs) ELSE {}
    [] OTHER -> (IF Len(ps) = 1 THEN MeansTerm(ps[1], snap, hugs) ELSE {})
                  \cup UNION {MeansComparison(c, snap) : c \in Comparisons(ps, hugs)}

\* AND binds tighter than OR, and two terms side by side are an AND.
MeansAnd(ps, snap, hugs) ==
  LET right(i) == MeansUnary(SubSeq(ps, i + 1, Len(ps)), snap, hugs)
      left(i) == MeansAnd(SubSeq(ps, 1, IF ps[i] \in Conjunctions THEN i - 1 ELSE i), snap, hugs)
  IN  MeansUnary(ps, snap, hugs) \cup
        UNION {{l \cap r : l \in left(i), r \in right(i)} :
                 i \in {j \in 1..(Len(ps) - 1) : right(j) # {}}}

MeansOr(ps, snap, hugs) ==
  MeansAnd(ps, snap, hugs) \cup
    UNION {{l \cup r : l \in MeansOr(SubSeq(ps, 1, i - 1), snap, hugs),
                      r \in MeansAnd(SubSeq(ps, i + 1, Len(ps)), snap, hugs)} :
             i \in {j \in DOMAIN ps : ps[j] \in Disjunctions}}

\* The filter of a frame is read as the grammar reads it.
ReadAs(hugs) ==
  LET means == UNION {MeansOr(ps, view.snap, hugs) : ps \in Pieces(FilterText)}
      reads == IF Blank(FilterText) THEN "none" ELSE IF means = {} THEN "broken" ELSE "ok"
  IN  /\ query = reads
      /\ query = "ok" => means = {Matches(ParseQuery(FilterText).e, All(view.snap))}

\* query.rs, lex, parse and eval: a filter is accepted exactly when the grammar
\* derives it, in one way, and then it selects the streams the grammar says:
\* operators beside what they compare or hugging it, quotes and regexes closed
\* or not, NOT before AND (written or not) before OR, and parentheses.  The
\* operators that hug are the code's: "=" and "!" inside a word are letters of
\* it, and so are the slashes of a regex that hugs its operator.
\* (Said of every frame drawn while a filter is typed, and so of every filter.)
QueryMeaning == turn = "key" /\ editing => ReadAs(Hugging)

\* docs/query-language.md:44 and 48: "=" is an operator, and "operators may hug
\* their operands".
QueryAsDocumented == turn = "key" /\ editing => ReadAs(Symbols)

-----------------------------------------------------------------------------
\* The streams a filter keeps: the matches, and what a match is under.
KeptBy(hits) == hits \cup UNION {Under[view.snap][s] : s \in hits}

Kept ==
  IF query = "ok"
  THEN KeptBy(Matches(ParseQuery(FilterText).e, All(view.snap)))
  ELSE All(view.snap)

Hidden(s) == query # "ok" /\ \E a \in Under[view.snap][s] : a.seq \in collapsed

\* A frame without the cap on its rows.
Uncapped(folds) ==
  FlattenTo(Cardinality(All(view.snap)) + 1, view.snap, sort, folds, ActiveQuery)

\* The rows of the tree, the cap aside, are the streams kept and not folded
\* away, once each, a subtree right after its parent; capped, they are the
\* first of those.
TreeExact(rows, whole, kept) ==
  LET under(i, j) == \E s \in All(view.snap) : s.seq = whole[i].seq
                       /\ whole[j].seq \in SeqsOf(Under[view.snap][s])
  IN  /\ rows = SubSeq(whole, 1, Min({MaxRows, Len(whole)}))
      /\ Len(whole) = Cardinality({s \in kept : ~Hidden(s)})
      /\ {whole[i].seq : i \in DOMAIN whole} = SeqsOf({s \in kept : ~Hidden(s)})
      /\ \A i \in DOMAIN whole : whole[i].parent # NoStream =>
           \E j \in 1..(i - 1) : /\ whole[j].id = whole[i].parent
                                 /\ \A m \in (j + 1)..i : under(m, j)

\* The pages a web client asks for, one level of the tree at a time, have the
\* same streams in the same order as the terminal's tree unfolded.  (Not so for
\* first-seen, which the terminal orders by creation.)
PagesExact(whole, q) ==
  LET seqs(list) == [i \in DOMAIN list |-> list[i].seq]
      level(id) == seqs(SelectSeq(whole, LAMBDA r : r.parent = id))
      page(scope, n) == Window(view.snap, q, scope, sort, TRUE, n, 1)
      pages(scope) == seqs(FlattenSeq([n \in 1..3 |-> page(scope, n - 1)]))
  IN  sort # "first" =>
        /\ pages([kind |-> "roots"]) = level(NoStream)
        /\ \A s \in All(view.snap) : pages([kind |-> "children", seq |-> s.seq]) = level(s.id)

\* Every bin of the timeline counts the streams kept that were active in it,
\* in their own lane or in the last one, and there are no more lanes than were
\* asked for.  (A stream whose last packet is stamped before its first is in
\* the bin the two share, and in none when they share none.)
LanesExact(drawn, kept, start, span, bins, lanes) ==
  LET overlaps(s, b) == /\ (s.first - start) * bins < (b + 1) * span \/ b = bins - 1
                        /\ Max({0, s.last - start}) * bins >= b * span
  IN  /\ Len(drawn) <= lanes
      /\ \A b \in 0..(bins - 1) :
           FoldLeft(LAMBDA n, lane : lane[b] + n, 0, drawn)
             = Cardinality({s \in kept : overlaps(s, b)})

TimelineExact(kept, q) ==
  \A bins \in {1, 3}, lanes \in {1, 3} :
    LanesExact(Timeline(view.snap, q, bins, lanes), kept, SpanStart(view.snap),
               Max({1, SpanEnd(view.snap) - SpanStart(view.snap)}), bins, lanes)

\* index.rs and tree.rs: whatever the filter, the order and the folds when a
\* frame is drawn, the three ways of looking at its snapshot show the streams
\* that match and those they are under, each of them once.
LensesExact ==
  turn = "key" => /\ TreeExact(Rows, Uncapped(collapsed), Kept)
                  /\ PagesExact(Uncapped({}), ActiveQuery)
                  /\ TimelineExact(Kept, ActiveQuery)
=============================================================================
