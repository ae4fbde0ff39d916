------------------------------- MODULE Query -------------------------------
(***************************************************************************)
(* view/src/query.rs: the stream query language, from the text of the       *)
(* filter box to the streams that match.                                   *)
(*                                                                         *)
(* The text is a sequence of atoms: a space, a parenthesis, a quote, a slash  *)
(* (alone or escaped), one of the symbol characters = ~ ! < > #, or a bare   *)
(* name or number.  Letters inside a name are abstracted: a name contains    *)
(* nothing but itself.                                                     *)
(*                                                                         *)
(* A parser method is an operator that takes the tokens and the position    *)
(* and returns [ok, e, at]: the expression and the position after it.       *)
(***************************************************************************)
EXTENDS Tree

CONSTANTS
  NumberOf,             \* the names that read as numbers -> [mag, suffix]
  Kilo,                 \* what the suffix k stands for, 1000
  RegexOk(_),           \* the regex crate accepts the pattern
  RegexMatches(_, _)    \* the pattern matches somewhere in the text

-----------------------------------------------------------------------------
(* The lexer. *)

\* WORD_OPS: the symbols of an operator inside a word, and what it means.
WordOps ==
  (<<"=", "=">> :> "eq") @@ (<<"!", "=">> :> "ne") @@ (<<"=", "~">> :> "re")
    @@ (<<"!", "~">> :> "notre") @@ (<<">", "=">> :> "ge") @@ (<<"<", "=">> :> "le")
    @@ (<<">">> :> "gt") @@ (<<"<">> :> "lt")

OpsAt(word, p) == {o \in DOMAIN WordOps : IsPrefix(o, SubSeq(word, p, Len(word)))}

Tok(kind, value) == [t |-> kind, v |-> value]

\* push_word: the keywords; a lone "where" is dropped.
PushWord(word) ==
  CASE word \in {<<"and">>, <<"&&">>}           -> <<Tok("And", <<>>)>>
    [] word \in {<<"or">>, <<"||">>}            -> <<Tok("Or", <<>>)>>
    [] word \in {<<"not">>, <<"!">>}            -> <<Tok("Not", <<>>)>>
    [] word = <<"where">>                      -> <<>>
    [] word \in {<<"=">>, <<"=", "=">>, <<"is">>} -> <<Tok("Op", "eq")>>
    [] word \in {<<"contains">>, <<"has">>}     -> <<Tok("Op", "contains")>>
    [] OTHER                                   -> <<Tok("Word", word)>>

\* A word is split at its first operator, the longest one there; what follows
\* the operator is a value, whatever it looks like.
LexWord(word) ==
  LET places == {p \in DOMAIN word : OpsAt(word, p) # {}}
      p == CHOOSE m \in places : \A n \in places : m <= n
      op == CHOOSE o \in OpsAt(word, p) : \A u \in OpsAt(word, p) : Len(u) <= Len(o)
      before == SubSeq(word, 1, p - 1)
      after == SubSeq(word, p + Len(op), Len(word))
  IN  IF places = {} THEN PushWord(word)
      ELSE (IF before = <<>> THEN <<>> ELSE PushWord(before))
             \o <<Tok("Op", WordOps[op])>>
             \o (IF after = <<>> THEN <<>> ELSE <<Tok("Str", after)>>)

Quotes == {"'", "\""}

\* What a word goes on up to.  A slash inside a word is a letter of it.
Breaks == {" ", "(", ")"} \cup Quotes

\* The first place from there on with one of these, or the end of the text.
FirstOf(text, from, atoms) ==
  Min({i \in from..Len(text) : text[i] \in atoms} \cup {Len(text) + 1})

\* An escaped slash is a slash of the pattern.
Pattern(raw) == [i \in DOMAIN raw |-> IF raw[i] = "\\/" THEN "/" ELSE raw[i]]

\* lex.  The error for a quote or a regex that is not closed is a token that
\* ends the list.
RECURSIVE Lex(_)
Lex(text) ==
  LET a == Head(text)
      more(from) == Lex(SubSeq(text, from, Len(text)))
      close == FirstOf(text, 2, {a})
      inside == SubSeq(text, 2, close - 1)
      stop == FirstOf(text, 1, Breaks)
  IN  CASE text = <<>> -> <<>>
        [] a = " " -> more(2)
        [] a = "(" -> <<Tok("LParen", <<>>)>> \o more(2)
        [] a = ")" -> <<Tok("RParen", <<>>)>> \o more(2)
        [] a \in Quotes \cup {"/"} ->
             IF close > Len(text) THEN <<Tok("Unclosed", <<>>)>>
             ELSE <<IF a = "/" THEN Tok("Regex", Pattern(inside)) ELSE Tok("Str", inside)>>
                    \o more(close + 1)
        [] OTHER -> LexWord(SubSeq(text, 1, stop - 1)) \o more(stop)

-----------------------------------------------------------------------------
(* The parser. *)

Kind(toks, at) == IF at \in DOMAIN toks THEN toks[at].t ELSE "End"

Parsed(e, at) == [ok |-> TRUE, e |-> e, at |-> at]
Failed == [ok |-> FALSE]

\* compile
Regex(pattern, at, e) == IF RegexOk(pattern) THEN Parsed(e, at) ELSE Failed

\* parse_number
IsNumber(raw) == Len(raw) = 1 /\ raw[1] \in DOMAIN NumberOf

Flags == {"closed", "live", "open", "root", "leaf", "condensed"}

\* parse_comparison: a regex literal makes any operator a regex match, and the
\* four orderings want a number.
ParseComparison(toks, at) ==
  LET field == toks[at].v
      op == toks[at + 1].v
      value == toks[at + 2].v
      cmp(o) == [k |-> "cmp", field |-> field, op |-> o, raw |-> value]
  IN  CASE Kind(toks, at + 2) = "Regex" ->
             Regex(value, at + 3, cmp(IF op \in {"ne", "notre"} THEN "notre" ELSE "re"))
        [] Kind(toks, at + 2) \in {"Word", "Str"} ->
             IF op \in {"gt", "ge", "lt", "le"} /\ ~IsNumber(value) THEN Failed
             ELSE IF op \in {"re", "notre"} THEN Regex(value, at + 3, cmp(op))
             ELSE Parsed(cmp(op), at + 3)
        [] OTHER -> Failed

RECURSIVE ParseOr(_, _), ParseOrMore(_, _), ParseAnd(_, _), ParseAndMore(_, _),
          ParseUnary(_, _), ParsePrimary(_, _)

\* A slip: no OR in parentheses.
ParseParenTight(toks, at) ==
  LET inner == ParseAnd(toks, at + 1)
  IN  IF inner.ok /\ Kind(toks, inner.at) = "RParen" THEN Parsed(inner.e, inner.at + 1) ELSE Failed

\* parse_primary, at a parenthesis.
ParseParen(toks, at) ==
  LET inner == ParseOr(toks, at + 1)
  IN  IF inner.ok /\ Kind(toks, inner.at) = "RParen" THEN Parsed(inner.e, inner.at + 1) ELSE Failed

ParsePrimary(toks, at) ==
  CASE Kind(toks, at) = "LParen" -> ParseParen(toks, at)
    [] Kind(toks, at) = "Regex" ->
         Regex(toks[at].v, at + 1, [k |-> "regex", v |-> toks[at].v])
    [] Kind(toks, at) = "Str" -> Parsed([k |-> "text", v |-> toks[at].v], at + 1)
    [] Kind(toks, at) = "Word" /\ Kind(toks, at + 1) = "Op" -> ParseComparison(toks, at)
    [] Kind(toks, at) = "Word" /\ Kind(toks, at + 1) # "Op" ->
         IF Len(toks[at].v) = 1 /\ toks[at].v[1] \in Flags
         THEN Parsed([k |-> "flag", v |-> toks[at].v[1]], at + 1)
         ELSE Parsed([k |-> "text", v |-> toks[at].v], at + 1)
    [] OTHER -> Failed

ParseUnary(toks, at) ==
  IF Kind(toks, at) # "Not" THEN ParsePrimary(toks, at)
  ELSE LET inner == ParseUnary(toks, at + 1)
       IN  IF inner.ok THEN Parsed([k |-> "not", e |-> inner.e], inner.at) ELSE Failed

\* parse_and's loop: an AND, or two terms side by side.
ParseAndMore(toks, left) ==
  LET from == IF Kind(toks, left.at) = "And" THEN left.at + 1 ELSE left.at
      right == ParseUnary(toks, from)
  IN  IF ~left.ok THEN Failed
      ELSE IF Kind(toks, left.at) \notin {"And", "Word", "Str", "Regex", "LParen", "Not"}
      THEN left
      ELSE IF ~right.ok THEN Failed
      ELSE ParseAndMore(toks, Parsed([k |-> "and", l |-> left.e, r |-> right.e], right.at))

ParseAnd(toks, at) == ParseAndMore(toks, ParseUnary(toks, at))

\* parse_or's loop.
ParseOrMore(toks, left) ==
  LET right == ParseAnd(toks, left.at + 1)
  IN  IF ~left.ok THEN Failed
      ELSE IF Kind(toks, left.at) # "Or" THEN left
      ELSE IF ~right.ok THEN Failed
      ELSE ParseOrMore(toks, Parsed([k |-> "or", l |-> left.e, r |-> right.e], right.at))

\* A slip: the right side of an OR is one term, and what follows it applies to
\* the whole.
ParseOrTight(toks, at) ==
  LET left == ParseUnary(toks, at)
      right == ParseUnary(toks, left.at + 1)
  IN  IF ~left.ok THEN Failed
      ELSE IF Kind(toks, left.at) # "Or" THEN ParseOrMore(toks, ParseAndMore(toks, left))
      ELSE IF ~right.ok THEN Failed
      ELSE ParseAndMore(toks, Parsed([k |-> "or", l |-> left.e, r |-> right.e], right.at))

ParseOr(toks, at) == ParseOrMore(toks, ParseAnd(toks, at))

\* StreamQuery::parse: the whole text is one expression.
ParseTokens(toks) ==
  LET root == ParseOr(toks, 1)
  IN  IF toks = <<>> \/ Last(toks).t = "Unclosed" THEN Failed
      ELSE IF root.ok /\ root.at = Len(toks) + 1 THEN root ELSE Failed

ParseQuery(text) == ParseTokens(Lex(text))

-----------------------------------------------------------------------------
(* Evaluation of an expression on one stream of a snapshot. *)

\* A candidate value of a field: its text, and the number when it is one.  The
\* digits of a number are not looked into.
NoNumber == -1
Text(t) == [text |-> t, num |-> NoNumber]
Num(n) == [text |-> <<"number">>, num |-> n]

RECURSIVE Ancestors(_, _)
Ancestors(streams, s) ==
  IF ~Known(streams, s.parent) THEN {}
  ELSE {ById(streams, s.parent)} \cup Ancestors(streams, ById(streams, s.parent))

\* Field::resolve and field_candidates.  Anything else is a key field or a
\* rollup of that name (custom_candidates).
FieldCandidates(field, streams, s) ==
  LET up == Ancestors(streams, s)
  IN CASE field \in {<<"proto">>, <<"protocol">>} -> {Text(<<s.proto>>)}
       [] field = <<"id">>                        -> {Num(s.seq)}
       [] field \in {<<"packets">>, <<"pkts">>}   -> {Num(s.packets)}
       [] field = <<"bytes">>                     -> {Num(s.bytes)}
       [] field = <<"opaque">>                    -> {Num(s.opaque)}
       [] field \in {<<"duration">>, <<"dur">>}   ->
            {Num(IF s.last >= s.first THEN s.last - s.first ELSE 0)}
       [] field = <<"depth">>                     -> {Num(Cardinality(up))}
       [] field = <<"children">>                  -> {Num(Len(s.children))}
       [] field = <<"state">>                     -> {Text(<<s.state>>)}
       [] field \in {<<"reason">>, <<"close_reason">>} ->
            {Text(<<IF s.closed = "open" THEN "" ELSE s.closed>>)}
       [] field \in {<<"endpoint">>, <<"ep">>, <<"host">>, <<"addr">>} ->
            {Text(<<e>>) : e \in Range(s.sides \o s.extras)}
       [] field = <<"port">>                      -> {Num(n) : n \in UNION {a.ports : a \in {s} \cup up}}
       [] field = <<"parent">>                    ->
            {IF Known(streams, s.parent) THEN Text(<<ById(streams, s.parent).proto>>)
             ELSE Text(<<"">>)}
       [] field \in {<<"under">>, <<"ancestor">>, <<"in">>} -> {Text(<<a.proto>>) : a \in up}
       [] OTHER -> IF Len(field) = 1 /\ field[1] \in DOMAIN s.fields
                   THEN s.fields[field[1]] ELSE {}

\* suffix_scale: seconds for a duration (the model's unit is the millisecond),
\* decimal multiples elsewhere.
Scales(field) ==
  IF field \in {<<"duration">>, <<"dur">>}
  THEN "" :> 1000 @@ "ms" :> 1 @@ "s" :> 1000 @@ "m" :> 60000 @@ "h" :> 3600000
  ELSE "" :> 1 @@ "k" :> Kilo @@ "kb" :> Kilo @@ "m" :> Kilo^2 @@ "mb" :> Kilo^2
         @@ "g" :> Kilo^3 @@ "gb" :> Kilo^3 @@ "t" :> Kilo^4 @@ "tb" :> Kilo^4

\* The literal as a number of that field, if it is one.
Scaled(field, raw) ==
  IF IsNumber(raw) /\ NumberOf[raw[1]].suffix \in DOMAIN Scales(field)
  THEN NumberOf[raw[1]].mag * Scales(field)[NumberOf[raw[1]].suffix]
  ELSE NoNumber

\* Is it part of the text?
Within(part, text) ==
  \E i \in 0..(Len(text) - Len(part)) : SubSeq(text, i + 1, i + Len(part)) = part

\* compare
Compare(c, op, raw, field) ==
  LET rhs == Scaled(field, raw)
      numeric == c.num # NoNumber /\ rhs # NoNumber
      same == IF numeric THEN c.num = rhs ELSE c.text = raw
  IN  CASE op = "gt" -> numeric /\ c.num > rhs
        [] op = "ge" -> numeric /\ c.num >= rhs
        [] op = "lt" -> numeric /\ c.num < rhs
        [] op = "le" -> numeric /\ c.num <= rhs
        [] op = "eq" -> same
        [] op = "ne" -> ~same
        [] op = "contains" -> Within(raw, c.text)
        [] op = "re" -> RegexMatches(raw, c.text)
        [] op = "notre" -> ~RegexMatches(raw, c.text)

Spaced(words) ==
  IF words = <<>> THEN <<>> ELSE Tail(FlattenSeq([i \in DOMAIN words |-> <<" ", words[i]>>]))

\* endpoints_str: the two sides, unless there are none, and what qualifies them.
EndpointsStr(s) ==
  (IF s.sides[1] = "" THEN <<>> ELSE <<s.sides[1], "<->", s.sides[2]>>) \o s.extras

\* searchable_text: what a row shows, in this order.
SearchableText(s) ==
  <<s.proto, " ", "#", ToString(s.seq), " ">> \o Spaced(EndpointsStr(s))
    \o (IF s.state = "" THEN <<>> ELSE <<" ", s.state>>)

FlagHolds(flag, s) ==
  CASE flag = "closed" -> s.closed # "open"
    [] flag \in {"live", "open"} -> s.closed = "open"
    [] flag = "root" -> s.parent = NoStream
    [] flag = "leaf" -> s.children = <<>>
    [] flag = "condensed" -> s.condensed

\* eval
RECURSIVE Eval(_, _, _)
Eval(e, streams, s) ==
  CASE e.k = "or"  -> Eval(e.l, streams, s) \/ Eval(e.r, streams, s)
    [] e.k = "and" -> Eval(e.l, streams, s) /\ Eval(e.r, streams, s)
    [] e.k = "not" -> ~Eval(e.e, streams, s)
    [] e.k = "text" -> Within(e.v, SearchableText(s))
    [] e.k = "regex" -> RegexMatches(e.v, SearchableText(s))
    [] e.k = "flag" -> FlagHolds(e.v, s)
    [] e.k = "cmp" -> \E c \in FieldCandidates(e.field, streams, s) :
                        Compare(c, e.op, e.raw, e.field)

Matches(e, streams) == {s \in streams : Eval(e, streams, s)}

\* A slip: the walk ends at the parent of a match.
KeepUpOnce(keep, streams, s) ==
  IF Known(streams, s.parent) THEN keep \cup {ById(streams, s.parent)} ELSE keep

\* matching_with_ancestors walks up from every match, in the arena's order,
\* until it meets a stream that is kept already: that one's ancestors are.
RECURSIVE KeepUp(_, _, _)
KeepUp(keep, streams, s) ==
  IF ~Known(streams, s.parent) \/ s.parent \in {k.id : k \in keep} THEN keep
  ELSE LET up == ById(streams, s.parent) IN KeepUp(keep \cup {up}, streams, up)

MatchingWithAncestors(e, streams) ==
  FoldSet(LAMBDA s, keep : KeepUp(keep \cup {s}, streams, s), {}, Matches(e, streams))
=============================================================================
