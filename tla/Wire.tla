-------------------------------- MODULE Wire --------------------------------
(***************************************************************************)
(* The contract between the dissection engine and its protocol plugins     *)
(* (pktflow-core: plugin.rs, bytes.rs, route.rs, depth.rs, stream.rs): what *)
(* a plugin declares about itself, what it is given and what it may answer. *)
(*                                                                         *)
(* Bytes are abstracted to a header: a record with the number of bytes on  *)
(* offer, len, and the values of the fields that decide what the plugin    *)
(* does. A field is there whether or not the bytes that hold it are: every *)
(* use of one stands behind the bounds check that the read makes.          *)
(***************************************************************************)
EXTENDS Integers, Sequences, SequencesExt

----------------------------------------------------------------------------
(* Route identifiers: a number in a space.                                 *)

LinkType(n) == <<"link_type", n>>
EtherType(n) == <<"ethertype", n>>
IpProtocol(n) == <<"ip_protocol", n>>
UdpPort(n) == <<"udp_port", n>>
TcpPort(n) == <<"tcp_port", n>>
Custom(space, n) == <<space, n>>

----------------------------------------------------------------------------
(* What follows a header.                                                  *)

Route(id) == [kind |-> "route", id |-> id]
Candidates(ids) == [kind |-> "candidates", ids |-> ids]
ByProtocol(name) == [kind |-> "by_protocol", name |-> name]
UnknownNext == [kind |-> "unknown"]
Terminal == [kind |-> "terminal"]

----------------------------------------------------------------------------
(* How much a plugin extracts, in the order of the code's enum.            *)

DepthNone == 0
DepthKeys == 1
DepthStructural == 2
DepthFull == 3

\* The empty field map, and the fields inserted under a depth test. A field
\* map is a function from names to values; the value of a flow key, which no
\* plugin reads back, is left out.
NoFields == [f \in {} |-> 0]
AtKeys(ctx, names) == IF ctx.depth >= DepthKeys THEN [f \in names |-> 0] ELSE NoFields
AtStructural(ctx, fields) == IF ctx.depth >= DepthStructural THEN fields ELSE NoFields

----------------------------------------------------------------------------
(* What parse returns.                                                     *)

Layer(headerLen, fields, hint) ==
  [ok |-> TRUE, headerLen |-> headerLen, fields |-> fields, hint |-> hint]
Truncated == [ok |-> FALSE, why |-> "truncated"]
Malformed == [ok |-> FALSE, why |-> "malformed"]

\* A bounds-checked read up to byte n of the input, and a refusal.
Need(h, n, then) == IF h.len < n THEN Truncated ELSE then
Refuse(bad, then) == IF bad THEN Malformed ELSE then

\* A record of a list: its head takes so many bytes, and its size counts the
\* head. short is the refusal of a head that does not fit; bad says that the
\* record is refused before it is read, cut that its content runs past it.
Record(head, size) ==
  [head |-> head, size |-> size, short |-> Truncated, bad |-> FALSE, cut |-> FALSE]

Records(head, sizes) == [i \in DOMAIN sizes |-> Record(head, sizes[i])]

WalkFrom(from) == [pos |-> from, end |-> FALSE, result |-> Terminal]
Ended(w, refusal) == [w EXCEPT !.end = TRUE, !.result = refusal]

\* One record of a walk below limit, which goes on while spare bytes are left.
WalkStep(w, rec, spare, limit) ==
  IF w.end \/ limit - w.pos < spare THEN w
  ELSE IF rec.bad THEN Ended(w, Malformed)
  ELSE IF w.pos + rec.head > limit THEN Ended(w, rec.short)
  ELSE IF w.pos + rec.size > limit THEN Ended(w, Truncated)
  ELSE IF rec.size < rec.head THEN Ended(w, Malformed)
  ELSE IF rec.cut THEN Ended(w, Truncated)
  ELSE [w EXCEPT !.pos = @ + rec.size]

\* A walk over a list: where it stops, and the refusal that ended it, if one did.
Walk(recs, spare, from, limit) ==
  LET walk[i \in 0..Len(recs)] ==
        IF i = 0 THEN WalkFrom(from) ELSE WalkStep(walk[i - 1], recs[i], spare, limit)
  IN  walk[Len(recs)]

WalkRecords(sizes, head, from, limit) == Walk(Records(head, sizes), 0, from, limit)

\* A walk that must come to the limit: what is left after the last of the
\* given records is a record that does not fit.
ToEnd(walk, limit) == IF walk.end \/ walk.pos = limit THEN walk.result ELSE Truncated

WalkToEnd(sizes, head, from, limit) == ToEnd(Walk(Records(head, sizes), 1, from, limit), limit)

\* A check that found nothing to refuse, or the refusal.
Passed(result, then) == IF result = Terminal THEN then ELSE result

\* The parse context: the layers so far, outermost first, and the depth.
Prev(ctx) == IF ctx.layers = <<>> THEN "" ELSE ctx.layers[Len(ctx.layers)].protocol

\* ctx.field: the field of the nearest enclosing layer of a protocol, as a
\* set that is empty when there is no such layer or it has no such field.
FieldOf(ctx, protocol, field) ==
  LET at == {i \in DOMAIN ctx.layers : ctx.layers[i].protocol = protocol}
      nearest == {i \in at : \A j \in at : j <= i}
  IN  {ctx.layers[i].fields[field] :
          i \in {n \in nearest : field \in DOMAIN ctx.layers[n].fields}}

\* The value that such a set holds.
Only(set) == CHOOSE x \in set : TRUE

----------------------------------------------------------------------------
(* What a plugin declares.                                                 *)

\* A probe's answer: no opinion, or a confidence of at most 100.
NoScore == -1
Confidence(n) == IF n > 100 THEN 100 ELSE n
Score(sure, n) == IF sure THEN Confidence(n) ELSE NoScore

\* A key component is a pair of endpoint fields, or one shared field.
Pair(a, b) == <<a, b>>
Shared(a) == <<a>>
Accumulate(f) == [field |-> f, kind |-> "accumulate", cap |-> 1]
Sample(f) == [field |-> f, kind |-> "sample", cap |-> 1]
Series(f, cap) == [field |-> f, kind |-> "series", cap |-> cap]

Identity(key, rollups) == [key |-> key, rollups |-> rollups, sorted |-> TRUE]

\* The trait's defaults: nothing claimed, no probe, no stream, no condensing.
\* identity and condense are sets of at most one element.
Declares == [claims |-> <<>>, preds |-> {}, probes |-> FALSE, identity |-> {}, condense |-> {}]

\* The fields an identity's key is built from.
KeyFields(decl) == UNION {{c[i] : i \in DOMAIN c} :
                            c \in UNION {{id.key[k] : k \in DOMAIN id.key} : id \in decl.identity}}
=============================================================================
