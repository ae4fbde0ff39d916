--------------------------- MODULE BrowserProofs ---------------------------
(***************************************************************************)
(* Proofs about the terminal application and the registry of unknown        *)
(* traffic it shows, for every parser of queries and every set of streams   *)
(* that a query keeps.                                                     *)
(***************************************************************************)
EXTENDS Browser, TLAPS, FiniteSetTheorems, SequenceTheorems, WellFoundedInduction

\* A nonempty set of numbers has a least element.
LEMMA LeastNat ==
  ASSUME NEW S \in SUBSET Nat, S # {}
  PROVE  \E x \in S : \A y \in S : x <= y
<1>. DEFINE R == {q \in Nat \X Nat : q[1] < q[2]}
<1>1. IsWellFoundedOn(R, Nat)
  BY NatLessThanWellFounded DEF OpToRel
<1>2. PICK x \in S : \A y \in S : ~(<<y, x>> \in R)
  <2>. HIDE DEF R
  <2>. QED
    BY <1>1, WFMin
<1>3. \A y \in S : <<y, x>> \in Nat \X Nat /\ <<y, x>>[1] = y /\ <<y, x>>[2] = x
  OBVIOUS
<1>4. \A y \in S : ~(y < x)
  BY <1>2, <1>3
<1>. QED
  BY <1>4

\* A set of numbers that has zero and the successor of each of its members has
\* all the numbers.
LEMMA Induction ==
  ASSUME NEW P \in SUBSET Nat, 0 \in P, \A n \in P : n + 1 \in P
  PROVE  P = Nat
<1>. SUFFICES ASSUME Nat \ P # {} PROVE FALSE
  OBVIOUS
<1>1. PICK x \in Nat \ P : \A y \in Nat \ P : x <= y
  BY LeastNat
<1>2. x - 1 \in Nat /\ x - 1 \in P
  BY <1>1
<1>. QED
  BY <1>1, <1>2

-----------------------------------------------------------------------------
(* The helpers the registry is built from.                                 *)

\* The least member of a set of integers that has one.
LEMMA MinIs ==
  ASSUME NEW S \in SUBSET Int, NEW m \in S, \A y \in S : m <= y
  PROVE  Min(S) = m
<1>1. \E x \in S : \A y \in S : x <= y
  OBVIOUS
<1>2. PICK x : x = Min(S)
  OBVIOUS
<1>3. x \in S /\ \A y \in S : x <= y
  BY <1>1, <1>2 DEF Min
<1>4. x = m
  BY <1>3
<1>. QED
  BY <1>2, <1>4

\* The greatest one.
LEMMA MaxIs ==
  ASSUME NEW S \in SUBSET Int, NEW m \in S, \A y \in S : m >= y
  PROVE  Max(S) = m
<1>1. \E x \in S : \A y \in S : x >= y
  OBVIOUS
<1>2. PICK x : x = Max(S)
  OBVIOUS
<1>3. x \in S /\ \A y \in S : x >= y
  BY <1>1, <1>2 DEF Max
<1>4. x = m
  BY <1>3
<1>. QED
  BY <1>2, <1>4

\* The lesser of two.
LEMMA MinPair ==
  ASSUME NEW a \in Int, NEW b \in Int
  PROVE  Min({a, b}) = IF a <= b THEN a ELSE b
<1>1. CASE a <= b
  BY <1>1, MinIs
<1>2. CASE ~(a <= b)
  BY <1>2, MinIs
<1>. QED
  BY <1>1, <1>2

\* The greater one.
LEMMA MaxPair ==
  ASSUME NEW a \in Int, NEW b \in Int
  PROVE  Max({a, b}) = IF a >= b THEN a ELSE b
<1>1. CASE a >= b
  BY <1>1, MaxIs
<1>2. CASE ~(a >= b)
  BY <1>2, MaxIs
<1>. QED
  BY <1>1, <1>2

-----------------------------------------------------------------------------
(* The bytes of a group: the sum is a recursive function of the position,   *)
(* which exists and does not depend on what comes after.                   *)

SumBody(f, s, n) == IF n = 0 THEN 0 ELSE f[n - 1] + s[n].bytes
IsSum(f, s) == f = [n \in 0..Len(s) |-> SumBody(f, s, n)]

\* Sequences of occurrences.
Lists == Seq(Occurrences)

\* The recursion has a solution.
LEMMA SumExists ==
  ASSUME NEW s \in Lists
  PROVE  \E f : IsSum(f, s)
<1>. DEFINE P == {n \in Nat : n <= Len(s) =>
                   \E f : f = [i \in 0..n |-> SumBody(f, s, i)]}
<1>0. Len(s) \in Nat
  BY DEF Lists
<1>1. 0 \in P
  <2>. DEFINE f == [i \in 0..0 |-> 0]
  <2>1. f = [i \in 0..0 |-> SumBody(f, s, i)]
    BY DEF SumBody
  <2>. HIDE DEF f
  <2>. QED
    BY <2>1
<1>2. ASSUME NEW n \in P PROVE n + 1 \in P
  <2>. SUFFICES ASSUME n + 1 <= Len(s)
                PROVE  \E f : f = [i \in 0..(n + 1) |-> SumBody(f, s, i)]
    OBVIOUS
  <2>1. PICK f : f = [i \in 0..n |-> SumBody(f, s, i)]
    BY <1>0
  <2>. DEFINE e == [i \in 0..(n + 1) |-> SumBody(f, s, i)]
  <2>2. \A i \in 0..n : e[i] = f[i]
    BY <2>1
  <2>3. \A i \in 0..(n + 1) : SumBody(e, s, i) = SumBody(f, s, i)
    <3>. HIDE DEF e
    <3>. QED
      BY <2>2 DEF SumBody
  <2>4. e = [i \in 0..(n + 1) |-> SumBody(e, s, i)]
    BY <2>3
  <2>. HIDE DEF e
  <2>. QED
    BY <2>4
<1>3. P = Nat
  <2>. HIDE DEF P
  <2>1. P \in SUBSET Nat
    BY DEF P
  <2>. QED
    BY <1>1, <1>2, <2>1, Induction
<1>. QED
  BY <1>0, <1>3 DEF IsSum

\* What BytesOf computes is the last value of it.
LEMMA SumIs ==
  ASSUME NEW s \in Lists
  PROVE  \E f : IsSum(f, s) /\ BytesOf(s) = f[Len(s)]
<1>. DEFINE F == CHOOSE f : f = [n \in 0..Len(s) |-> SumBody(f, s, n)]
<1>1. IsSum(F, s)
  BY SumExists DEF IsSum
<1>2. BytesOf(s) = F[Len(s)]
  BY DEF BytesOf, SumBody
<1>. HIDE DEF F
<1>. QED
  BY <1>1, <1>2

\* The sum of an empty sequence is zero.
LEMMA SumEmpty == BytesOf(<<>>) = 0
<1>1. <<>> \in Lists /\ Len(<<>>) = 0
  BY DEF Lists
<1>2. PICK f : IsSum(f, <<>>) /\ BytesOf(<<>>) = f[0]
  BY <1>1, SumIs
<1>3. f[0] = SumBody(f, <<>>, 0)
  BY <1>1, <1>2 DEF IsSum
<1>. QED
  BY <1>2, <1>3 DEF SumBody

\* One more occurrence adds its bytes.
LEMMA SumAppend ==
  ASSUME NEW s \in Lists, NEW o \in Occurrences
  PROVE  BytesOf(Append(s, o)) = BytesOf(s) + o.bytes
<1>. DEFINE t == Append(s, o)
<1>1. /\ t \in Lists /\ Len(s) \in Nat /\ Len(t) = Len(s) + 1
      /\ t[Len(s) + 1] = o /\ \A i \in 1..Len(s) : t[i] = s[i]
  BY DEF Lists
<1>. HIDE DEF t
<1>2. PICK f : IsSum(f, s) /\ BytesOf(s) = f[Len(s)]
  BY SumIs
<1>3. PICK h : IsSum(h, t) /\ BytesOf(t) = h[Len(t)]
  BY <1>1, SumIs
<1>4. /\ \A n \in 0..Len(s) : f[n] = SumBody(f, s, n)
      /\ \A n \in 0..Len(t) : h[n] = SumBody(h, t, n)
  BY <1>2, <1>3 DEF IsSum
<1>. DEFINE P == {n \in Nat : n <= Len(s) => f[n] = h[n]}
<1>5. 0 \in P
  BY <1>1, <1>4 DEF SumBody
<1>6. ASSUME NEW n \in P PROVE n + 1 \in P
  <2>. SUFFICES ASSUME n + 1 <= Len(s) PROVE f[n + 1] = h[n + 1]
    OBVIOUS
  <2>1. f[n] = h[n] /\ n + 1 \in 1..Len(s) /\ n + 1 \in 0..Len(s) /\ n + 1 \in 0..Len(t)
    BY <1>1
  <2>2. f[n + 1] = f[n] + s[n + 1].bytes /\ h[n + 1] = h[n] + t[n + 1].bytes
    BY <1>4, <2>1 DEF SumBody
  <2>. QED
    BY <1>1, <2>1, <2>2
<1>7. Len(s) \in P
  <2>. HIDE DEF P
  <2>1. P \in SUBSET Nat
    BY DEF P
  <2>. QED
    BY <1>1, <1>5, <1>6, <2>1, Induction
<1>8. h[Len(s) + 1] = h[Len(s)] + o.bytes
  BY <1>1, <1>4 DEF SumBody
<1>. QED
  BY <1>1, <1>2, <1>3, <1>7, <1>8 DEF t

-----------------------------------------------------------------------------
(* One occurrence more: a group that was true to the last of its            *)
(* occurrences is true to them and the new one.  What a group keeps is said  *)
(* by position here, so that it can be carried from a sequence to a longer   *)
(* one.                                                                    *)

Nears == {o.near : o \in Occurrences} \cup {<<>>}

Groups ==
  [key : Shapes, count : Nat, bytes : Nat, least : Nat, most : Nat, first : Nat, last : Nat,
   endpoints : Seq(Endpoints), overflow : BOOLEAN, near : Nears, samples : Seq(Samples)]

\* The extremes are reached, by some occurrence each.
ExtremesKept(g, s) ==
  /\ \A i \in 1..Len(s) : /\ g.least <= s[i].bytes /\ s[i].bytes <= g.most
                          /\ g.first <= s[i].ts /\ s[i].ts <= g.last
  /\ \E i \in 1..Len(s) : g.least = s[i].bytes
  /\ \E i \in 1..Len(s) : g.most = s[i].bytes
  /\ \E i \in 1..Len(s) : g.first = s[i].ts
  /\ \E i \in 1..Len(s) : g.last = s[i].ts

\* The near misses are those of the last of the best occurrences.
NearKept(g, s) ==
  \/ g.near = <<>> /\ \A i \in 1..Len(s) : s[i].near = <<>>
  \/ /\ g.near # <<>>
     /\ \E i \in 1..Len(s) : /\ g.near = s[i].near
                             /\ \A j \in 1..Len(s) : Top(s[j].near) <= Top(s[i].near)
                             /\ \A j \in (i + 1)..Len(s) : Top(s[j].near) < Top(s[i].near)

Ring == IF SamplesPerGroup = 0 THEN 1 ELSE SamplesPerGroup

\* The samples are those of the last occurrences.
SamplesKept(g, s) ==
  /\ Len(g.samples) = IF Ring <= Len(s) THEN Ring ELSE Len(s)
  /\ \A i \in 1..Len(g.samples) : g.samples[i] = s[Len(s) - Len(g.samples) + i].sample

\* The endpoints, each once, with all of them there or the cap reached.
EndpointsKept(g, s) ==
  /\ \A i, j \in 1..Len(g.endpoints) : g.endpoints[i] = g.endpoints[j] => i = j
  /\ \A i \in 1..Len(g.endpoints) : \E j \in 1..Len(s) : s[j].endpoint = g.endpoints[i]
  /\ Len(g.endpoints) <= EndpointCap
  /\ g.overflow => /\ Len(g.endpoints) = EndpointCap
                   /\ \E j \in 1..Len(s) : /\ s[j].endpoint # NoEndpoint
                                           /\ \A i \in 1..Len(g.endpoints) :
                                                g.endpoints[i] # s[j].endpoint
  /\ ~g.overflow => \A j \in 1..Len(s) : s[j].endpoint # NoEndpoint =>
                     \E i \in 1..Len(g.endpoints) : g.endpoints[i] = s[j].endpoint

GroupKept(g, s) ==
  /\ g \in Groups /\ s \in Lists /\ Len(s) >= 1
  /\ g.count = Len(s) /\ g.bytes = BytesOf(s)
  /\ ExtremesKept(g, s) /\ NearKept(g, s) /\ SamplesKept(g, s) /\ EndpointsKept(g, s)

\* A group before its first occurrence, or after some of them.
Ready(g, s, o) ==
  \/ g = NewGroup(o.key, o.ts) /\ s = <<>>
  \/ GroupKept(g, s)

\* The least size starts above every size.
LEMMA MaxU32Nat == MaxU32 \in Nat
BY SMT DEF MaxU32

\* A group is typed before an occurrence.
LEMMA ReadyType ==
  ASSUME NEW o \in Occurrences, NEW g, NEW s, Ready(g, s, o)
  PROVE  g \in Groups /\ s \in Lists /\ g.count = Len(s) /\ g.bytes = BytesOf(s)
<1>1. CASE g = NewGroup(o.key, o.ts) /\ s = <<>>
  BY <1>1, RegistryAssumption, SumEmpty, MaxU32Nat
     DEF NewGroup, Groups, Shapes, Nears, Lists
<1>2. CASE GroupKept(g, s)
  BY <1>2 DEF GroupKept
<1>. QED
  BY <1>1, <1>2 DEF Ready

\* A record of such fields is a group.
LEMMA GroupRecord ==
  ASSUME NEW k \in Shapes, NEW c \in Nat, NEW b \in Nat, NEW l \in Nat, NEW m \in Nat,
         NEW f \in Nat, NEW t \in Nat, NEW e \in Seq(Endpoints), NEW v \in BOOLEAN,
         NEW n \in Nears, NEW s \in Seq(Samples)
  PROVE  [key |-> k, count |-> c, bytes |-> b, least |-> l, most |-> m, first |-> f,
          last |-> t, endpoints |-> e, overflow |-> v, near |-> n, samples |-> s] \in Groups
BY DEF Groups

\* The fields of a group after an occurrence.
LEMMA HeardFields ==
  ASSUME NEW o \in Occurrences, NEW g \in Groups
  PROVE  LET h == Heard(g, o)
             fresh == o.endpoint # NoEndpoint
                        /\ \A i \in 1..Len(g.endpoints) : g.endpoints[i] # o.endpoint
             full == Len(g.endpoints) >= EndpointCap
         IN  /\ h \in Groups
             /\ h.key = g.key
             /\ h.count = g.count + 1
             /\ h.bytes = g.bytes + o.bytes
             /\ h.least = IF g.least <= o.bytes THEN g.least ELSE o.bytes
             /\ h.most = IF g.most >= o.bytes THEN g.most ELSE o.bytes
             /\ h.first = IF g.first <= o.ts THEN g.first ELSE o.ts
             /\ h.last = IF g.last >= o.ts THEN g.last ELSE o.ts
             /\ h.endpoints = IF fresh /\ ~full THEN Append(g.endpoints, o.endpoint) ELSE g.endpoints
             /\ h.overflow = (g.overflow \/ (fresh /\ full))
             /\ h.near = IF TakesNear(g.near, o.near) THEN o.near ELSE g.near
             /\ h.samples = Append(IF Len(g.samples) >= SamplesPerGroup /\ g.samples # <<>>
                                   THEN Tail(g.samples) ELSE g.samples, o.sample)
<1>. DEFINE fresh == o.endpoint # NoEndpoint
                       /\ \A i \in 1..Len(g.endpoints) : g.endpoints[i] # o.endpoint
            full == Len(g.endpoints) >= EndpointCap
            least == IF g.least <= o.bytes THEN g.least ELSE o.bytes
            most == IF g.most >= o.bytes THEN g.most ELSE o.bytes
            first == IF g.first <= o.ts THEN g.first ELSE o.ts
            last == IF g.last >= o.ts THEN g.last ELSE o.ts
            endpoints == IF fresh /\ ~full THEN Append(g.endpoints, o.endpoint) ELSE g.endpoints
            overflow == g.overflow \/ (fresh /\ full)
            near == IF TakesNear(g.near, o.near) THEN o.near ELSE g.near
            samples == Append(IF Len(g.samples) >= SamplesPerGroup /\ g.samples # <<>>
                              THEN Tail(g.samples) ELSE g.samples, o.sample)
<1>1. o.bytes \in Nat /\ o.ts \in Nat
  BY RegistryAssumption, MaxU32Nat
<1>2. /\ g.count \in Nat /\ g.bytes \in Nat /\ g.least \in Nat /\ g.most \in Nat
      /\ g.first \in Nat /\ g.last \in Nat /\ g.endpoints \in Seq(Endpoints)
      /\ g.overflow \in BOOLEAN /\ g.near \in Nears /\ g.samples \in Seq(Samples)
      /\ g.key \in Shapes
  BY DEF Groups
<1>3. /\ Min({g.least, o.bytes}) = least /\ Max({g.most, o.bytes}) = most
      /\ Min({g.first, o.ts}) = first /\ Max({g.last, o.ts}) = last
  <2>1. /\ g.least \in Int /\ g.most \in Int /\ g.first \in Int /\ g.last \in Int
        /\ o.bytes \in Int /\ o.ts \in Int
    BY <1>1, <1>2
  <2>2. Min({g.least, o.bytes}) = least
    BY <2>1, MinPair, Zenon
  <2>3. Max({g.most, o.bytes}) = most
    BY <2>1, MaxPair, Zenon
  <2>4. Min({g.first, o.ts}) = first
    BY <2>1, MinPair, Zenon
  <2>5. Max({g.last, o.ts}) = last
    BY <2>1, MaxPair, Zenon
  <2>. QED
    BY <2>2, <2>3, <2>4, <2>5
<1>4. fresh <=> (o.endpoint # NoEndpoint /\ ~Contains(g.endpoints, o.endpoint))
  BY DEF Contains
<1>5. /\ least \in Nat /\ most \in Nat /\ first \in Nat /\ last \in Nat
      /\ overflow \in BOOLEAN
  BY <1>1, <1>2
<1>6. endpoints \in Seq(Endpoints) /\ near \in Nears /\ samples \in Seq(Samples)
  <2>1. o.endpoint # NoEndpoint => o.endpoint \in Endpoints
    BY DEF Endpoints
  <2>2. o.near \in Nears /\ o.sample \in Samples
    BY DEF Nears, Samples
  <2>3. g.samples # <<>> => Tail(g.samples) \in Seq(Samples)
    BY <1>2
  <2>4. samples \in Seq(Samples)
    BY <1>2, <2>2, <2>3
  <2>. QED
    BY <1>2, <2>1, <2>2, <2>4
<1>. DEFINE heardOf(a, b, c, d, e, f) ==
              [g EXCEPT !.count = @ + 1, !.bytes = @ + o.bytes, !.least = a, !.most = b,
                 !.first = c, !.last = d, !.endpoints = e, !.overflow = f, !.near = near,
                 !.samples = samples]
<1>7. Heard(g, o) = heardOf(least, most, first, last, endpoints, overflow)
  <2>. DEFINE f1 == o.endpoint # NoEndpoint /\ ~Contains(g.endpoints, o.endpoint)
  <2>1. Heard(g, o) = heardOf(Min({g.least, o.bytes}), Max({g.most, o.bytes}),
                              Min({g.first, o.ts}), Max({g.last, o.ts}),
                              IF f1 /\ ~full THEN Append(g.endpoints, o.endpoint) ELSE g.endpoints,
                              g.overflow \/ (f1 /\ full))
    BY DEF Heard
  <2>2. /\ endpoints = IF f1 /\ ~full THEN Append(g.endpoints, o.endpoint) ELSE g.endpoints
        /\ overflow = (g.overflow \/ (f1 /\ full))
    <3>. HIDE DEF f1, full, fresh
    <3>1. f1 <=> fresh
      BY <1>4 DEF f1
    <3>. QED
      BY <3>1
  <2>. HIDE DEF heardOf, f1, full, endpoints, overflow, least, most, first, last
  <2>. QED
    BY <1>3, <2>1, <2>2
<1>. HIDE DEF least, most, first, last, endpoints, overflow, near, samples
<1>8. Heard(g, o) = [key |-> g.key, count |-> g.count + 1, bytes |-> g.bytes + o.bytes,
                     least |-> least, most |-> most, first |-> first, last |-> last,
                     endpoints |-> endpoints, overflow |-> overflow, near |-> near,
                     samples |-> samples]
  BY <1>7 DEF Groups
<1>9. /\ Heard(g, o) \in Groups
      /\ Heard(g, o).key = g.key /\ Heard(g, o).count = g.count + 1
      /\ Heard(g, o).bytes = g.bytes + o.bytes
      /\ Heard(g, o).least = least /\ Heard(g, o).most = most
      /\ Heard(g, o).first = first /\ Heard(g, o).last = last
      /\ Heard(g, o).endpoints = endpoints /\ Heard(g, o).overflow = overflow
      /\ Heard(g, o).near = near /\ Heard(g, o).samples = samples
  <2>. HIDE DEF fresh, full, heardOf
  <2>0. g.count + 1 \in Nat /\ g.bytes + o.bytes \in Nat
    BY <1>1, <1>2
  <2>1. Heard(g, o) \in Groups
    <3>1. PICK c, b, v : c = g.count + 1 /\ b = g.bytes + o.bytes /\ v = overflow
      OBVIOUS
    <3>2. c \in Nat /\ b \in Nat /\ v \in BOOLEAN
      BY <1>5, <2>0, <3>1
    <3>3. [key |-> g.key, count |-> c, bytes |-> b, least |-> least, most |-> most,
           first |-> first, last |-> last, endpoints |-> endpoints, overflow |-> v,
           near |-> near, samples |-> samples] \in Groups
      BY <1>2, <1>5, <1>6, <3>2, GroupRecord
    <3>. QED
      BY <1>8, <3>1, <3>3
  <2>. QED
    BY <1>8, <2>1
<1>. QED
  BY <1>9 DEF least, most, first, last, endpoints, overflow, near, samples

\* One element more at the end of a list.
LEMMA Appended ==
  ASSUME NEW s \in Lists, NEW o \in Occurrences
  PROVE  LET t == Append(s, o)
         IN  /\ t \in Lists /\ Len(s) \in Nat /\ Len(t) = Len(s) + 1
             /\ t[Len(s) + 1] = o /\ \A i \in 1..Len(s) : t[i] = s[i] /\ i \in 1..Len(t)
             /\ \A i \in 1..Len(t) : i \in 1..Len(s) \/ i = Len(s) + 1
BY DEF Lists

\* The extremes after an occurrence.
LEMMA ExtremesStep ==
  ASSUME NEW o \in Occurrences, NEW g, NEW s, Ready(g, s, o)
  PROVE  ExtremesKept(Heard(g, o), Append(s, o))
<1>. DEFINE h == Heard(g, o)
            t == Append(s, o)
<1>1. g \in Groups /\ s \in Lists
  BY ReadyType
<1>2. /\ h.least = IF g.least <= o.bytes THEN g.least ELSE o.bytes
      /\ h.most = IF g.most >= o.bytes THEN g.most ELSE o.bytes
      /\ h.first = IF g.first <= o.ts THEN g.first ELSE o.ts
      /\ h.last = IF g.last >= o.ts THEN g.last ELSE o.ts
  BY <1>1, HeardFields
<1>3. /\ o.bytes \in Nat /\ o.ts \in Nat /\ o.bytes <= MaxU32
      /\ g.least \in Nat /\ g.most \in Nat /\ g.first \in Nat /\ g.last \in Nat
      /\ \A i \in 1..Len(s) : s[i].bytes \in Nat /\ s[i].ts \in Nat
  <2>1. \A i \in 1..Len(s) : s[i] \in Occurrences
    BY <1>1 DEF Lists
  <2>. QED
    BY <1>1, <2>1, RegistryAssumption, MaxU32Nat DEF Groups
<1>4. /\ Len(s) \in Nat /\ Len(t) = Len(s) + 1
      /\ t[Len(s) + 1] = o /\ \A i \in 1..Len(s) : t[i] = s[i] /\ i \in 1..Len(t)
      /\ \A i \in 1..Len(t) : i \in 1..Len(s) \/ i = Len(s) + 1
  BY <1>1, Appended
<1>. HIDE DEF h, t
<1>5. CASE g = NewGroup(o.key, o.ts) /\ s = <<>>
  <2>1. /\ g.least = MaxU32 /\ g.most = 0 /\ g.first = o.ts /\ g.last = o.ts
        /\ Len(s) = 0
    BY <1>5 DEF NewGroup
  <2>2. h.least = o.bytes /\ h.most = o.bytes /\ h.first = o.ts /\ h.last = o.ts
    BY <1>2, <1>3, <2>1, MaxU32Nat
  <2>3. 1 \in 1..Len(t) /\ t[1] = o /\ \A i \in 1..Len(t) : i = 1
    BY <1>4, <2>1
  <2>4. \A i \in 1..Len(t) : t[i] = o
    BY <2>3
  <2>. QED
    BY <1>3, <2>2, <2>3, <2>4 DEF ExtremesKept, h, t
<1>6. CASE GroupKept(g, s)
  <2>0. Len(s) + 1 \in 1..Len(t)
    BY <1>4
  <2>1. ExtremesKept(g, s)
    BY <1>6 DEF GroupKept
  <2>2. \A i \in 1..Len(t) : /\ h.least <= t[i].bytes /\ t[i].bytes <= h.most
                              /\ h.first <= t[i].ts /\ t[i].ts <= h.last
    <3>. SUFFICES ASSUME NEW i \in 1..Len(t)
                  PROVE  /\ h.least <= t[i].bytes /\ t[i].bytes <= h.most
                         /\ h.first <= t[i].ts /\ t[i].ts <= h.last
      OBVIOUS
    <3>1. CASE i = Len(s) + 1
      BY <1>2, <1>3, <1>4, <3>1
    <3>2. CASE i \in 1..Len(s)
      <4>1. /\ t[i] = s[i] /\ s[i].bytes \in Nat /\ s[i].ts \in Nat
            /\ g.least <= s[i].bytes /\ s[i].bytes <= g.most
            /\ g.first <= s[i].ts /\ s[i].ts <= g.last
        BY <1>3, <1>4, <2>1, <3>2 DEF ExtremesKept
      <4>2. h.least <= s[i].bytes /\ s[i].bytes <= h.most
        BY <1>2, <1>3, <4>1
      <4>3. h.first <= s[i].ts /\ s[i].ts <= h.last
        BY <1>2, <1>3, <4>1
      <4>. QED
        BY <4>1, <4>2, <4>3
    <3>. QED
      BY <1>4, <3>1, <3>2
  <2>3. /\ \E i \in 1..Len(t) : h.least = t[i].bytes
        /\ \E i \in 1..Len(t) : h.most = t[i].bytes
    BY <1>2, <1>4, <2>0, <2>1 DEF ExtremesKept
  <2>4. /\ \E i \in 1..Len(t) : h.first = t[i].ts
        /\ \E i \in 1..Len(t) : h.last = t[i].ts
    BY <1>2, <1>4, <2>0, <2>1 DEF ExtremesKept
  <2>. QED
    BY <2>2, <2>3, <2>4 DEF ExtremesKept, h, t
<1>. QED
  BY <1>5, <1>6 DEF Ready

\* The near misses after an occurrence.
LEMMA NearStep ==
  ASSUME NEW o \in Occurrences, NEW g, NEW s, Ready(g, s, o)
  PROVE  NearKept(Heard(g, o), Append(s, o))
<1>. DEFINE h == Heard(g, o)
            t == Append(s, o)
            n == Len(s)
<1>1. g \in Groups /\ s \in Lists
  BY ReadyType
<1>2. h.near = IF TakesNear(g.near, o.near) THEN o.near ELSE g.near
  BY <1>1, HeardFields
<1>3. /\ n \in Nat /\ Len(t) = n + 1
      /\ t[n + 1] = o /\ \A i \in 1..n : t[i] = s[i] /\ i \in 1..Len(t)
      /\ \A i \in 1..Len(t) : i \in 1..n \/ i = n + 1
  BY <1>1, Appended
<1>4. \A q \in Occurrences : Top(q.near) \in Int /\ (q.near # <<>> <=> Top(q.near) >= 0)
  BY RegistryAssumption DEF Top
<1>5. \A i \in 1..n : s[i] \in Occurrences
  BY <1>1 DEF Lists
<1>6. NearKept(g, s)
  <2>1. CASE g = NewGroup(o.key, o.ts) /\ s = <<>>
    BY <2>1 DEF NewGroup, NearKept
  <2>2. CASE GroupKept(g, s)
    BY <2>2 DEF GroupKept
  <2>. QED
    BY <2>1, <2>2 DEF Ready
<1>. HIDE DEF h, t, n
<1>7. CASE TakesNear(g.near, o.near)
  <2>1. h.near = t[n + 1].near /\ h.near # <<>>
    BY <1>2, <1>3, <1>7 DEF TakesNear
  <2>2. \A j \in 1..n : Top(s[j].near) <= Top(o.near)
    <3>1. CASE g.near = <<>>
      <4>1. \A i \in 1..n : s[i].near = <<>>
        BY <1>6, <3>1 DEF NearKept, n
      <4>. QED
        BY <1>4, <1>5, <1>7, <4>1 DEF TakesNear
    <3>2. CASE g.near # <<>>
      <4>1. PICK i \in 1..n : /\ g.near = s[i].near
                              /\ \A j \in 1..n : Top(s[j].near) <= Top(s[i].near)
        BY <1>6, <3>2 DEF NearKept, n
      <4>. QED
        BY <1>4, <1>5, <1>7, <4>1 DEF TakesNear
    <3>. QED
      BY <3>1, <3>2
  <2>3. /\ \A j \in 1..Len(t) : Top(t[j].near) <= Top(t[n + 1].near)
        /\ n + 1 \in 1..Len(t) /\ (n + 1 + 1)..Len(t) = {}
    BY <1>3, <1>4, <2>2
  <2>. QED
    BY <2>1, <2>3 DEF NearKept, h, t
<1>8. CASE ~TakesNear(g.near, o.near)
  <2>0. h.near = g.near
    BY <1>2, <1>8
  <2>1. CASE g.near = <<>>
    <3>1. o.near = <<>>
      BY <1>4, <1>8, <2>1 DEF TakesNear, Top
    <3>2. \A i \in 1..n : s[i].near = <<>>
      BY <1>6, <2>1 DEF NearKept, n
    <3>3. \A i \in 1..Len(t) : t[i].near = <<>>
      BY <1>3, <3>1, <3>2
    <3>. QED
      BY <2>0, <2>1, <3>3 DEF NearKept, h, t
  <2>2. CASE g.near # <<>>
    <3>1. PICK i \in 1..n : /\ g.near = s[i].near
                            /\ \A j \in 1..n : Top(s[j].near) <= Top(s[i].near)
                            /\ \A j \in (i + 1)..n : Top(s[j].near) < Top(s[i].near)
      BY <1>6, <2>2 DEF NearKept, n
    <3>2. Top(o.near) < Top(s[i].near)
      BY <1>4, <1>5, <1>8, <2>2, <3>1 DEF TakesNear
    <3>3. i \in 1..Len(t) /\ t[i] = s[i]
      BY <1>3
    <3>4. \A j \in 1..Len(t) : Top(t[j].near) <= Top(t[i].near)
      BY <1>3, <1>4, <1>5, <3>1, <3>2, <3>3, SMTT(30)
    <3>5. \A j \in (i + 1)..Len(t) : Top(t[j].near) < Top(t[i].near)
      BY <1>3, <1>4, <1>5, <3>1, <3>2, <3>3, SMTT(30)
    <3>. QED
      BY <2>0, <2>2, <3>1, <3>3, <3>4, <3>5 DEF NearKept, h, t
  <2>. QED
    BY <2>1, <2>2
<1>. QED
  BY <1>7, <1>8

\* The samples after an occurrence.
LEMMA SamplesStep ==
  ASSUME NEW o \in Occurrences, NEW g, NEW s, Ready(g, s, o)
  PROVE  SamplesKept(Heard(g, o), Append(s, o))
<1>. DEFINE h == Heard(g, o)
            t == Append(s, o)
            n == Len(s)
            a == g.samples
            b == IF Len(a) >= SamplesPerGroup /\ a # <<>> THEN Tail(a) ELSE a
<1>1. g \in Groups /\ s \in Lists
  BY ReadyType
<1>2. h.samples = Append(b, o.sample)
  BY <1>1, HeardFields
<1>3. /\ n \in Nat /\ Len(t) = n + 1
      /\ t[n + 1] = o /\ \A i \in 1..n : t[i] = s[i] /\ i \in 1..Len(t)
  BY <1>1, Appended
<1>4. SamplesKept(g, s)
  <2>1. CASE g = NewGroup(o.key, o.ts) /\ s = <<>>
    BY <2>1, RegistryAssumption DEF NewGroup, SamplesKept, Ring
  <2>2. CASE GroupKept(g, s)
    BY <2>2 DEF GroupKept
  <2>. QED
    BY <2>1, <2>2 DEF Ready
<1>5. /\ a \in Seq(Samples) /\ o.sample \in Samples
      /\ SamplesPerGroup \in Nat /\ Len(a) \in Nat
      /\ Len(a) = 0 <=> a = <<>>
  BY <1>1, RegistryAssumption DEF Groups, Samples
<1>6. CASE Len(a) >= SamplesPerGroup /\ a # <<>>
  <2>1. /\ b \in Seq(Samples) /\ Len(b) = Len(a) - 1
        /\ \A i \in 1..Len(b) : b[i] = a[i + 1]
    BY <1>5, <1>6
  <2>. HIDE DEF b, a, t, h, n
  <2>2. /\ Len(h.samples) = Len(a) /\ h.samples[Len(a)] = o.sample
        /\ \A i \in 1..(Len(a) - 1) : h.samples[i] = a[i + 1]
    BY <1>2, <1>5, <1>6, <2>1
  <2>3. Len(a) = Ring /\ Ring <= n
    BY <1>3, <1>4, <1>5, <1>6 DEF SamplesKept, Ring, n, a
  <2>4. Len(h.samples) = IF Ring <= Len(t) THEN Ring ELSE Len(t)
    BY <1>3, <1>5, <2>2, <2>3
  <2>5. \A i \in 1..Len(a) : a[i] = s[n - Len(a) + i].sample
    BY <1>4 DEF SamplesKept, n, a
  <2>6. ASSUME NEW i \in 1..Len(h.samples)
        PROVE  h.samples[i] = t[Len(t) - Len(h.samples) + i].sample
    <3>1. CASE i = Len(a)
      BY <1>3, <1>5, <2>2, <3>1
    <3>2. CASE i # Len(a)
      <4>1. i \in 1..(Len(a) - 1) /\ i + 1 \in 1..Len(a)
        BY <1>5, <2>2, <3>2
      <4>2. h.samples[i] = s[n - Len(a) + (i + 1)].sample
        <5>1. PICK j \in 1..Len(a) : j = i + 1
          BY <4>1
        <5>2. h.samples[i] = a[j]
          BY <2>2, <4>1, <5>1
        <5>. QED
          BY <2>5, <5>1, <5>2
      <4>3. n - Len(a) + (i + 1) \in 1..n /\ Len(t) - Len(h.samples) + i = n - Len(a) + (i + 1)
        <5>1. PICK m \in Nat : m = Len(a)
          BY <1>5
        <5>2. i \in Nat /\ 1 <= i /\ i + 1 <= m /\ m <= n /\ n \in Nat /\ Len(t) = n + 1
          BY <1>3, <2>3, <4>1, <5>1
        <5>3. Len(h.samples) = m
          BY <2>2, <5>1
        <5>4. n - m + (i + 1) \in 1..n /\ (n + 1) - m + i = n - m + (i + 1)
          BY <5>2
        <5>. QED
          BY <5>1, <5>2, <5>3, <5>4
      <4>. QED
        BY <1>3, <4>2, <4>3
    <3>. QED
      BY <3>1, <3>2
  <2>. QED
    BY <2>4, <2>6 DEF SamplesKept, h, t
<1>7. CASE ~(Len(a) >= SamplesPerGroup /\ a # <<>>)
  <2>1. b = a
    BY <1>7
  <2>. HIDE DEF b, a, t, h, n
  <2>2. /\ Len(h.samples) = Len(a) + 1 /\ h.samples[Len(a) + 1] = o.sample
        /\ \A i \in 1..Len(a) : h.samples[i] = a[i]
    BY <1>2, <1>5, <2>1
  <2>3. Len(a) = n /\ n + 1 <= Ring
    BY <1>3, <1>4, <1>5, <1>7 DEF SamplesKept, Ring, n, a
  <2>4. Len(h.samples) = IF Ring <= Len(t) THEN Ring ELSE Len(t)
    BY <1>3, <1>5, <2>2, <2>3 DEF Ring
  <2>5. \A i \in 1..Len(a) : a[i] = s[n - Len(a) + i].sample
    BY <1>4 DEF SamplesKept, n, a
  <2>6. ASSUME NEW i \in 1..Len(h.samples)
        PROVE  h.samples[i] = t[Len(t) - Len(h.samples) + i].sample
    <3>1. CASE i = n + 1
      BY <1>3, <2>2, <2>3, <3>1
    <3>2. CASE i # n + 1
      <4>1. i \in 1..n /\ Len(t) - Len(h.samples) + i = i
        BY <1>3, <2>2, <2>3, <3>2
      <4>2. n - Len(a) + i = i
        BY <1>3, <2>3
      <4>3. h.samples[i] = s[n - Len(a) + i].sample
        BY <2>2, <2>3, <2>5, <4>1
      <4>. QED
        BY <1>3, <4>1, <4>2, <4>3
    <3>. QED
      BY <3>1, <3>2
  <2>. QED
    BY <2>4, <2>6 DEF SamplesKept, h, t
<1>. QED
  BY <1>6, <1>7

\* The endpoints after an occurrence.
LEMMA EndpointsStep ==
  ASSUME NEW o \in Occurrences, NEW g, NEW s, Ready(g, s, o)
  PROVE  EndpointsKept(Heard(g, o), Append(s, o))
<1>. DEFINE h == Heard(g, o)
            t == Append(s, o)
            n == Len(s)
            a == g.endpoints
            fresh == o.endpoint # NoEndpoint /\ \A i \in 1..Len(a) : a[i] # o.endpoint
            full == Len(a) >= EndpointCap
<1>1. g \in Groups /\ s \in Lists
  BY ReadyType
<1>2. /\ h.endpoints = IF fresh /\ ~full THEN Append(a, o.endpoint) ELSE a
      /\ h.overflow = (g.overflow \/ (fresh /\ full))
  BY <1>1, HeardFields
<1>3. /\ n \in Nat /\ Len(t) = n + 1
      /\ t[n + 1] = o /\ \A i \in 1..n : t[i] = s[i] /\ i \in 1..Len(t)
      /\ \A i \in 1..Len(t) : i \in 1..n \/ i = n + 1
      /\ n + 1 \in 1..Len(t)
  <2>1. /\ n \in Nat /\ Len(t) = n + 1
        /\ t[n + 1] = o /\ \A i \in 1..n : t[i] = s[i] /\ i \in 1..Len(t)
        /\ \A i \in 1..Len(t) : i \in 1..n \/ i = n + 1
    BY <1>1, Appended
  <2>. HIDE DEF t, n
  <2>. QED
    BY <2>1
<1>4. EndpointsKept(g, s)
  <2>1. CASE g = NewGroup(o.key, o.ts) /\ s = <<>>
    BY <2>1, RegistryAssumption DEF NewGroup, EndpointsKept
  <2>2. CASE GroupKept(g, s)
    BY <2>2 DEF GroupKept
  <2>. QED
    BY <2>1, <2>2 DEF Ready
<1>5. /\ \A i, j \in 1..Len(a) : a[i] = a[j] => i = j
      /\ \A i \in 1..Len(a) : \E j \in 1..n : s[j].endpoint = a[i]
      /\ Len(a) <= EndpointCap
      /\ g.overflow => /\ Len(a) = EndpointCap
                       /\ \E j \in 1..n : /\ s[j].endpoint # NoEndpoint
                                           /\ \A i \in 1..Len(a) : a[i] # s[j].endpoint
      /\ ~g.overflow => \A j \in 1..n : s[j].endpoint # NoEndpoint =>
                         \E i \in 1..Len(a) : a[i] = s[j].endpoint
  BY <1>4 DEF EndpointsKept
<1>6. /\ a \in Seq(Endpoints) /\ Len(a) \in Nat /\ EndpointCap \in Nat
      /\ g.overflow \in BOOLEAN /\ (o.endpoint # NoEndpoint => o.endpoint \in Endpoints)
  BY <1>1, RegistryAssumption DEF Groups, Endpoints
<1>7. CASE fresh /\ ~full
  <2>. DEFINE b == h.endpoints
  <2>1. b = Append(a, o.endpoint) /\ h.overflow = FALSE /\ g.overflow = FALSE
    <3>1. Len(a) # EndpointCap
      BY <1>6, <1>7
    <3>. QED
      BY <1>2, <1>5, <1>6, <1>7, <3>1
  <2>2. /\ Len(b) = Len(a) + 1 /\ b[Len(a) + 1] = o.endpoint
        /\ \A i \in 1..Len(a) : b[i] = a[i] /\ i \in 1..Len(b)
        /\ \A i \in 1..Len(b) : i \in 1..Len(a) \/ i = Len(a) + 1
        /\ Len(a) + 1 \in 1..Len(b)
    BY <1>6, <1>7, <2>1
  <2>. HIDE DEF a, b, n, t, h, full
  <2>3. \A i, j \in 1..Len(b) : b[i] = b[j] => i = j
    BY <1>5, <1>7, <2>2
  <2>4. \A i \in 1..Len(b) : \E j \in 1..Len(t) : t[j].endpoint = b[i]
    BY <1>3, <1>5, <2>2, SMTT(30)
  <2>5. Len(b) <= EndpointCap
    BY <1>6, <1>7, <2>2 DEF full
  <2>6. \A j \in 1..Len(t) : t[j].endpoint # NoEndpoint =>
          \E i \in 1..Len(b) : b[i] = t[j].endpoint
    BY <1>3, <1>5, <2>1, <2>2
  <2>. QED
    BY <2>1, <2>3, <2>4, <2>5, <2>6 DEF EndpointsKept, b, h, t
<1>8. CASE ~(fresh /\ ~full)
  <2>1. h.endpoints = a
    BY <1>2, <1>8
  <2>. HIDE DEF a, n, t, h
  <2>2. \A i \in 1..Len(a) : \E j \in 1..Len(t) : t[j].endpoint = a[i]
    BY <1>3, <1>5
  <2>3. CASE fresh
    <3>1. h.overflow = TRUE /\ Len(a) = EndpointCap
      <4>1. full
        BY <1>8, <2>3
      <4>2. Len(a) = EndpointCap
        BY <1>5, <1>6, <4>1
      <4>3. h.overflow = TRUE
        <5>. HIDE DEF fresh, full
        <5>. QED
          BY <1>2, <2>3, <4>1, Zenon
      <4>. QED
        BY <4>2, <4>3
    <3>2. \E j \in 1..Len(t) : t[j].endpoint # NoEndpoint /\ \A i \in 1..Len(a) : a[i] # t[j].endpoint
      BY <1>3, <2>3
    <3>. HIDE DEF fresh, full
    <3>. QED
      BY <1>5, <2>1, <2>2, <3>1, <3>2 DEF EndpointsKept, h, t
  <2>4. CASE ~fresh
    <3>1. h.overflow = g.overflow
      BY <1>2, <1>6, <2>4
    <3>2. g.overflow => \E j \in 1..Len(t) : t[j].endpoint # NoEndpoint
                                             /\ \A i \in 1..Len(a) : a[i] # t[j].endpoint
      <4>. HIDE DEF fresh, full
      <4>. QED
        BY <1>3, <1>5
    <3>3. ~g.overflow => \A j \in 1..Len(t) : t[j].endpoint # NoEndpoint =>
                           \E i \in 1..Len(a) : a[i] = t[j].endpoint
      BY <1>3, <1>5, <2>4
    <3>. HIDE DEF fresh, full
    <3>. QED
      BY <1>5, <2>1, <2>2, <3>1, <3>2, <3>3 DEF EndpointsKept, h, t
  <2>. QED
    BY <2>3, <2>4
<1>. QED
  BY <1>7, <1>8

\* An occurrence more: everything a group keeps.
LEMMA HeardKept ==
  ASSUME NEW o \in Occurrences, NEW g, NEW s, Ready(g, s, o)
  PROVE  GroupKept(Heard(g, o), Append(s, o)) /\ Heard(g, o).key = g.key
<1>1. g \in Groups /\ s \in Lists /\ g.count = Len(s) /\ g.bytes = BytesOf(s)
  BY ReadyType
<1>2. /\ Heard(g, o) \in Groups /\ Heard(g, o).count = g.count + 1
      /\ Heard(g, o).bytes = g.bytes + o.bytes /\ Heard(g, o).key = g.key
  BY <1>1, HeardFields
<1>3. Append(s, o) \in Lists /\ Len(Append(s, o)) = Len(s) + 1 /\ Len(s) \in Nat
  BY <1>1, Appended
<1>4. Heard(g, o).bytes = BytesOf(Append(s, o))
  BY <1>1, <1>2, SumAppend
<1>5. Len(Append(s, o)) >= 1 /\ Heard(g, o).count = Len(Append(s, o))
  BY <1>1, <1>2, <1>3
<1>. QED
  BY <1>2, <1>3, <1>4, <1>5, ExtremesStep, NearStep, SamplesStep, EndpointsStep DEF GroupKept

\* What is kept by position is what GroupTrue says.
LEMMA KeptTrue ==
  ASSUME NEW g, NEW s, GroupKept(g, s)
  PROVE  GroupTrue(g, s)
<1>. DEFINE all == Range(s)
<1>1. /\ g \in Groups /\ s \in Lists /\ Len(s) \in Nat /\ Len(s) >= 1
      /\ g.count = Len(s) /\ g.bytes = BytesOf(s)
      /\ ExtremesKept(g, s) /\ NearKept(g, s) /\ SamplesKept(g, s) /\ EndpointsKept(g, s)
  BY DEF GroupKept, Lists
<1>2. /\ \A i \in 1..Len(s) : s[i] \in all /\ s[i] \in Occurrences
      /\ \A q \in all : \E i \in 1..Len(s) : q = s[i]
      /\ DOMAIN s = 1..Len(s)
  BY <1>1 DEF Range, Lists
<1>. HIDE DEF all
<1>3. \A q \in all : q \in Occurrences /\ q.bytes \in Nat /\ q.ts \in Nat
  BY <1>2, RegistryAssumption, MaxU32Nat
<1>4. g.least = Min({q.bytes : q \in all}) /\ g.most = Max({q.bytes : q \in all})
  <2>. DEFINE V == {q.bytes : q \in all}
  <2>1. V \in SUBSET Int /\ g.least \in V /\ g.most \in V
    <3>1. V \in SUBSET Int
      BY <1>3
    <3>2. /\ \E i \in 1..Len(s) : g.least = s[i].bytes
          /\ \E i \in 1..Len(s) : g.most = s[i].bytes
      BY <1>1 DEF ExtremesKept
    <3>. QED
      BY <1>2, <3>1, <3>2
  <2>2. \A v \in V : g.least <= v /\ g.most >= v
    <3>1. \A i \in 1..Len(s) : g.least <= s[i].bytes /\ s[i].bytes <= g.most
      BY <1>1 DEF ExtremesKept
    <3>2. \A q \in all : g.least <= q.bytes /\ q.bytes <= g.most
      BY <1>2, <3>1
    <3>3. g.most \in Nat
      BY <1>1 DEF Groups
    <3>. QED
      BY <1>3, <3>2, <3>3
  <2>. HIDE DEF V
  <2>3. g.least = Min(V) /\ g.most = Max(V)
    BY <2>1, <2>2, MinIs, MaxIs
  <2>. QED
    BY <2>3 DEF V
<1>5. g.first = Min({q.ts : q \in all}) /\ g.last = Max({q.ts : q \in all})
  <2>. DEFINE V == {q.ts : q \in all}
  <2>1. V \in SUBSET Int /\ g.first \in V /\ g.last \in V
    <3>1. V \in SUBSET Int
      BY <1>3
    <3>2. /\ \E i \in 1..Len(s) : g.first = s[i].ts
          /\ \E i \in 1..Len(s) : g.last = s[i].ts
      BY <1>1 DEF ExtremesKept
    <3>. QED
      BY <1>2, <3>1, <3>2
  <2>2. \A v \in V : g.first <= v /\ g.last >= v
    <3>1. \A i \in 1..Len(s) : g.first <= s[i].ts /\ s[i].ts <= g.last
      BY <1>1 DEF ExtremesKept
    <3>2. \A q \in all : g.first <= q.ts /\ q.ts <= g.last
      BY <1>2, <3>1
    <3>3. g.last \in Nat
      BY <1>1 DEF Groups
    <3>. QED
      BY <1>3, <3>2, <3>3
  <2>. HIDE DEF V
  <2>3. g.first = Min(V) /\ g.last = Max(V)
    BY <2>1, <2>2, MinIs, MaxIs
  <2>. QED
    BY <2>3 DEF V
<1>6. EndpointsTrue(g, {q.endpoint : q \in all} \ {NoEndpoint})
  <2>. DEFINE a == g.endpoints
              named == {q.endpoint : q \in all} \ {NoEndpoint}
  <2>1. /\ a \in Seq(Endpoints) /\ DOMAIN a = 1..Len(a) /\ g.overflow \in BOOLEAN
        /\ \A i \in 1..Len(a) : a[i] # NoEndpoint
    BY <1>1 DEF Groups, Endpoints
  <2>2. /\ \A i, j \in 1..Len(a) : a[i] = a[j] => i = j
        /\ \A i \in 1..Len(a) : \E j \in 1..Len(s) : s[j].endpoint = a[i]
        /\ Len(a) <= EndpointCap
        /\ g.overflow => Len(a) = EndpointCap
        /\ g.overflow => \E j \in 1..Len(s) : /\ s[j].endpoint # NoEndpoint
                                             /\ \A i \in 1..Len(a) : a[i] # s[j].endpoint
        /\ ~g.overflow => \A j \in 1..Len(s) : s[j].endpoint # NoEndpoint =>
                           \E i \in 1..Len(a) : a[i] = s[j].endpoint
    BY <1>1 DEF EndpointsKept
  <2>3. Range(a) = {a[i] : i \in 1..Len(a)}
    BY <2>1 DEF Range
  <2>. HIDE DEF a
  <2>4. Range(a) \subseteq named
    BY <1>2, <2>1, <2>2, <2>3
  <2>5. ASSUME g.overflow PROVE Range(a) # named
    <3>1. PICK j \in 1..Len(s) : /\ s[j].endpoint # NoEndpoint
                                 /\ \A i \in 1..Len(a) : a[i] # s[j].endpoint
      BY <2>2, <2>5
    <3>2. s[j].endpoint \in named /\ s[j].endpoint \notin Range(a)
      BY <1>2, <2>3, <3>1
    <3>. QED
      BY <3>2
  <2>6. ASSUME ~g.overflow PROVE Range(a) = named
    <3>1. ASSUME NEW e \in named PROVE e \in Range(a)
      <4>1. PICK j \in 1..Len(s) : e = s[j].endpoint /\ e # NoEndpoint
        BY <1>2
      <4>2. \E i \in 1..Len(a) : a[i] = e
        BY <2>2, <2>6, <4>1
      <4>. QED
        BY <2>3, <4>2
    <3>. QED
      BY <2>4, <3>1
  <2>. HIDE DEF named
  <2>. QED
    BY <2>1, <2>2, <2>4, <2>5, <2>6 DEF EndpointsTrue, a, named
<1>7. g.near = BestNear(s)
  <2>. DEFINE V == {Top(q.near) : q \in all}
  <2>0. \A q \in Occurrences : Top(q.near) \in Int /\ (q.near # <<>> <=> Top(q.near) >= 0)
    BY RegistryAssumption DEF Top
  <2>1. V \in SUBSET Int /\ \A i \in 1..Len(s) : Top(s[i].near) \in V
    BY <1>2, <1>3, <2>0
  <2>2. \A v \in V : \E i \in 1..Len(s) : v = Top(s[i].near)
    BY <1>2
  <2>3. CASE g.near = <<>> /\ \A i \in 1..Len(s) : s[i].near = <<>>
    <3>1. V = {-1}
      <4>1. \A i \in 1..Len(s) : Top(s[i].near) = -1
        BY <2>3 DEF Top
      <4>2. 1 \in 1..Len(s)
        BY <1>1
      <4>. HIDE DEF V
      <4>3. \A v \in V : v = -1
        BY <2>2, <4>1
      <4>4. -1 \in V
        BY <2>1, <4>1, <4>2
      <4>. QED
        BY <4>3, <4>4
    <3>. HIDE DEF V
    <3>2. Max(V) = -1
      BY <3>1, MaxIs
    <3>. QED
      BY <2>3, <3>2 DEF BestNear, V, all
  <2>4. CASE g.near # <<>>
    <3>1. PICK i \in 1..Len(s) : /\ g.near = s[i].near
                                 /\ \A j \in 1..Len(s) : Top(s[j].near) <= Top(s[i].near)
                                 /\ \A j \in (i + 1)..Len(s) : Top(s[j].near) < Top(s[i].near)
      BY <1>1, <2>4 DEF NearKept
    <3>2. PICK b : b = Top(s[i].near)
      OBVIOUS
    <3>3. b \in Int /\ b >= 0 /\ b \in V
      BY <1>2, <2>0, <2>1, <2>4, <3>1, <3>2
    <3>. HIDE DEF V
    <3>4. \A v \in V : b >= v
      <4>. SUFFICES ASSUME NEW v \in V PROVE b >= v
        OBVIOUS
      <4>1. PICK j \in 1..Len(s) : v = Top(s[j].near)
        BY <2>2
      <4>. QED
        BY <2>1, <3>1, <3>2, <3>3, <4>1
    <3>5. Max(V) = b
      BY <2>1, <3>3, <3>4, MaxIs
    <3>. DEFINE tops == {j \in DOMAIN s : Top(s[j].near) = b}
    <3>6. tops \in SUBSET Int /\ i \in tops
      BY <1>2, <3>2
    <3>7. \A j \in tops : i >= j
      <4>. SUFFICES ASSUME NEW j \in tops, j > i PROVE FALSE
        BY <3>6
      <4>1. j \in (i + 1)..Len(s)
        BY <1>1, <1>2
      <4>2. Top(s[j].near) < b /\ Top(s[j].near) = b
        BY <3>1, <3>2, <4>1
      <4>. QED
        BY <3>3, <4>2
    <3>. HIDE DEF tops
    <3>8. Max(tops) = i
      BY <3>6, <3>7, MaxIs
    <3>9. BestNear(s) = IF b = -1 THEN <<>> ELSE s[Max(tops)].near
      BY <3>5 DEF BestNear, V, all, tops
    <3>. QED
      BY <3>1, <3>3, <3>8, <3>9
  <2>. QED
    BY <1>1, <2>3, <2>4 DEF NearKept
<1>8. g.samples = LastSamples(s)
  <2>. DEFINE a == g.samples
  <2>1. /\ a \in Seq(Samples) /\ Len(a) \in Nat /\ SamplesPerGroup \in Nat
        /\ a = [i \in 1..Len(a) |-> a[i]]
    BY <1>1, RegistryAssumption DEF Groups
  <2>2. Max({1, SamplesPerGroup}) = Ring /\ Ring \in Nat
    BY <2>1, MaxPair DEF Ring
  <2>3. Min({Ring, Len(s)}) = IF Ring <= Len(s) THEN Ring ELSE Len(s)
    BY <1>1, <2>2, MinPair
  <2>4. /\ Len(a) = IF Ring <= Len(s) THEN Ring ELSE Len(s)
        /\ \A i \in 1..Len(a) : a[i] = s[Len(s) - Len(a) + i].sample
    BY <1>1 DEF SamplesKept
  <2>. HIDE DEF a
  <2>5. Min({Max({1, SamplesPerGroup}), Len(s)}) = Len(a)
    BY <2>2, <2>3, <2>4
  <2>6. a = [i \in 1..Len(a) |-> s[Len(s) - Len(a) + i].sample]
    BY <2>1, <2>4
  <2>. QED
    BY <2>5, <2>6 DEF LastSamples, a
<1>. QED
  BY <1>1, <1>4, <1>5, <1>6, <1>7, <1>8 DEF GroupTrue, all

-----------------------------------------------------------------------------
(* The registry.                                                           *)

Suffix(list, n) == SubSeq(list, Len(list) - n + 1, Len(list))

\* The groups are the keys that have a place in the order of insertion, and no
\* two have the same one, so that there is always one coldest group.
RegistryKept(r, h) ==
  /\ r.next \in Nat /\ IsFiniteSet(DOMAIN r.groups)
  /\ DOMAIN r.groups \subseteq Shapes /\ DOMAIN r.seqs = DOMAIN r.groups
  /\ \A k \in DOMAIN r.seqs : r.seqs[k] \in Nat /\ r.seqs[k] < r.next
  /\ \A j, k \in DOMAIN r.seqs : r.seqs[j] = r.seqs[k] => j = k
  /\ \A k \in DOMAIN r.groups : /\ r.groups[k].count <= Len(h[k])
                                /\ GroupKept(r.groups[k], Suffix(h[k], r.groups[k].count))
  /\ Cardinality(DOMAIN r.groups) <= MaxGroups
  /\ \A k \in Shapes \ DOMAIN r.groups :
       h[k] # <<>> => Cardinality(DOMAIN r.groups) = MaxGroups

\* The last n + 1 of a list that grew are its last n and the new one.
LEMMA SuffixGrows ==
  ASSUME NEW m \in Lists, NEW o \in Occurrences, NEW n \in Nat, n <= Len(m)
  PROVE  /\ Suffix(Append(m, o), n + 1) = Append(Suffix(m, n), o)
         /\ Suffix(m, n) \in Lists /\ Len(Suffix(m, n)) = n
<1>. DEFINE a == Suffix(Append(m, o), n + 1)
            c == Suffix(m, n)
            b == Append(c, o)
            t == Append(m, o)
<1>1. /\ t \in Lists /\ Len(m) \in Nat /\ Len(t) = Len(m) + 1
      /\ t[Len(m) + 1] = o /\ \A i \in 1..Len(m) : t[i] = m[i] /\ i \in 1..Len(t)
  BY Appended
<1>. HIDE DEF t
<1>2. /\ c \in Lists /\ Len(c) = n /\ \A i \in 1..n : c[i] = m[Len(m) - n + i]
  BY <1>1 DEF Suffix, Lists
<1>3. /\ a \in Lists /\ Len(a) = n + 1
      /\ \A i \in 1..(n + 1) : a[i] = t[Len(m) - n + i]
  BY <1>1 DEF Suffix, Lists, t
<1>. HIDE DEF a, c
<1>4. /\ b \in Lists /\ Len(b) = n + 1 /\ b[n + 1] = o /\ \A i \in 1..n : b[i] = c[i]
  BY <1>2 DEF Lists
<1>. HIDE DEF b
<1>5. \A i \in 1..(n + 1) : a[i] = b[i]
  <2>. SUFFICES ASSUME NEW i \in 1..(n + 1) PROVE a[i] = b[i]
    OBVIOUS
  <2>1. CASE i = n + 1
    BY <1>1, <1>3, <1>4, <2>1
  <2>2. CASE i \in 1..n
    <3>0. Len(m) \in Nat /\ i \in Nat /\ 1 <= i /\ i <= n
      BY <1>1, <2>2
    <3>1. PICK j \in 1..Len(m) : j = Len(m) - n + i
      BY <3>0, SMTT(30)
    <3>2. a[i] = t[j] /\ c[i] = m[j] /\ b[i] = c[i]
      BY <1>2, <1>3, <1>4, <2>2, <3>1
    <3>. QED
      BY <1>1, <3>2
  <2>. QED
    BY <2>1, <2>2
<1>6. a = b
  BY <1>3, <1>4, <1>5 DEF Lists
<1>. QED
  BY <1>2, <1>6 DEF a, b, c

\* Among finitely many groups there is one coldest.
LEMMA ColdestFacts ==
  ASSUME NEW groups, NEW seqs, DOMAIN groups # {}, DOMAIN seqs = DOMAIN groups,
         \A k \in DOMAIN groups : groups[k].last \in Nat /\ seqs[k] \in Nat,
         \A j, k \in DOMAIN seqs : seqs[j] = seqs[k] => j = k
  PROVE  Coldest(groups, seqs) \in DOMAIN groups
<1>. DEFINE D == DOMAIN groups
            Lasts == {groups[k].last : k \in D}
<1>1. Lasts \in SUBSET Nat /\ Lasts # {}
  OBVIOUS
<1>. HIDE DEF Lasts
<1>2. PICK x \in Lasts : \A y \in Lasts : x <= y
  BY <1>1, LeastNat
<1>. DEFINE C == {k \in D : groups[k].last = x}
            Seqs == {seqs[k] : k \in C}
<1>3. Seqs \in SUBSET Nat /\ Seqs # {}
  BY DEF Lasts
<1>. HIDE DEF Seqs
<1>4. PICK z \in Seqs : \A y \in Seqs : z <= y
  BY <1>3, LeastNat
<1>5. PICK k \in C : seqs[k] = z
  BY DEF Seqs
<1>6. ASSUME NEW j \in D \ {k}
      PROVE  \/ groups[k].last < groups[j].last
             \/ groups[k].last = groups[j].last /\ seqs[k] < seqs[j]
  <2>1. x <= groups[j].last /\ groups[k].last = x /\ x \in Nat
    BY <1>1, <1>2, <1>5 DEF Lasts
  <2>2. groups[j].last = x => seqs[j] \in Seqs
    BY DEF Seqs
  <2>3. seqs[j] # seqs[k] /\ seqs[j] \in Nat /\ seqs[k] \in Nat
    BY <1>5
  <2>. QED
    BY <1>4, <1>5, <2>1, <2>2, <2>3
<1>. QED
  BY <1>5, <1>6 DEF Coldest

\* One occurrence more keeps the registry.
LEMMA IngestKept ==
  ASSUME NEW r, NEW h \in [Shapes -> Lists], RegistryKept(r, h), NEW o \in Occurrences
  PROVE  RegistryKept(Ingest(r, o), [h EXCEPT ![o.key] = Append(@, o)])
<1>. DEFINE h1 == [h EXCEPT ![o.key] = Append(@, o)]
            D == DOMAIN r.groups
            known == o.key \in D
            group == IF known THEN r.groups[o.key] ELSE NewGroup(o.key, o.ts)
            groups == Put(r.groups, o.key, Heard(group, o))
            seqs == IF known THEN r.seqs ELSE Put(r.seqs, o.key, r.next)
            next == IF known THEN r.next ELSE r.next + 1
            r1 == [groups |-> groups, seqs |-> seqs, next |-> next]
            D1 == D \cup {o.key}
<1>0. /\ r.next \in Nat /\ IsFiniteSet(D) /\ D \subseteq Shapes /\ DOMAIN r.seqs = D
      /\ \A k \in D : r.seqs[k] \in Nat /\ r.seqs[k] < r.next
      /\ \A j, k \in D : r.seqs[j] = r.seqs[k] => j = k
      /\ \A k \in D : /\ r.groups[k].count <= Len(h[k])
                      /\ GroupKept(r.groups[k], Suffix(h[k], r.groups[k].count))
      /\ Cardinality(D) <= MaxGroups
      /\ \A k \in Shapes \ D : h[k] # <<>> => Cardinality(D) = MaxGroups
  BY DEF RegistryKept
<1>1. o.key \in Shapes
  BY DEF Shapes
<1>2. h1[o.key] = Append(h[o.key], o) /\ \A k \in Shapes : k # o.key => h1[k] = h[k]
  BY <1>1
<1>3. /\ DOMAIN groups = D1 /\ groups[o.key] = Heard(group, o)
      /\ \A k \in D : k # o.key => groups[k] = r.groups[k]
  BY DEF Put
<1>4. /\ DOMAIN seqs = D1 /\ next \in Nat
      /\ \A k \in D1 : seqs[k] \in Nat /\ seqs[k] < next
      /\ \A j, k \in D1 : seqs[j] = seqs[k] => j = k
  <2>1. CASE known
    BY <1>0, <2>1
  <2>2. CASE ~known
    <3>1. DOMAIN seqs = D1 /\ seqs[o.key] = r.next /\ \A k \in D : seqs[k] = r.seqs[k]
      BY <1>0, <2>2 DEF Put
    <3>2. next = r.next + 1
      BY <2>2
    <3>. HIDE DEF seqs, next
    <3>. QED
      BY <1>0, <3>1, <3>2
  <2>. QED
    BY <2>1, <2>2
<1>5. \A k \in D1 : /\ groups[k].count <= Len(h1[k])
                     /\ GroupKept(groups[k], Suffix(h1[k], groups[k].count))
  <2>. SUFFICES ASSUME NEW k \in D1
                PROVE  /\ groups[k].count <= Len(h1[k])
                       /\ GroupKept(groups[k], Suffix(h1[k], groups[k].count))
    OBVIOUS
  <2>. HIDE DEF h1, groups, group
  <2>1. CASE k # o.key
    BY <1>0, <1>2, <1>3, <2>1
  <2>2. CASE k = o.key
    <3>. DEFINE n == group.count
                m == h[o.key]
    <3>0. m \in Lists /\ Len(m) \in Nat
      BY <1>1 DEF Lists
    <3>1. /\ n \in Nat /\ n <= Len(m) /\ Ready(group, Suffix(m, n), o)
      <4>1. CASE known
        <5>1. group = r.groups[o.key]
          BY <4>1 DEF group
        <5>2. GroupKept(group, Suffix(m, n)) /\ n <= Len(m)
          BY <1>0, <4>1, <5>1
        <5>. QED
          BY <5>2 DEF Ready, GroupKept, Groups
      <4>2. CASE ~known
        <5>1. group = NewGroup(o.key, o.ts) /\ n = 0
          BY <4>2 DEF group, NewGroup
        <5>2. Suffix(m, n) = <<>>
          BY <3>0, <5>1 DEF Suffix, Lists
        <5>. QED
          BY <3>0, <5>1, <5>2 DEF Ready
      <4>. QED
        BY <4>1, <4>2
    <3>2. /\ Suffix(Append(m, o), n + 1) = Append(Suffix(m, n), o)
          /\ GroupKept(Heard(group, o), Append(Suffix(m, n), o))
      BY <3>0, <3>1, SuffixGrows, HeardKept
    <3>3. Heard(group, o).count = n + 1
      BY <3>1, ReadyType, HeardFields
    <3>4. Len(Append(m, o)) = Len(m) + 1
      BY <3>0, Appended
    <3>5. groups[k] = Heard(group, o) /\ h1[k] = Append(m, o)
      BY <1>2, <1>3, <2>2
    <3>. HIDE DEF n, m
    <3>6. groups[k].count = n + 1 /\ n + 1 <= Len(h1[k])
      BY <3>0, <3>1, <3>3, <3>4, <3>5
    <3>. QED
      BY <3>2, <3>5, <3>6
  <2>. QED
    BY <2>1, <2>2
<1>6. /\ IsFiniteSet(D1) /\ Cardinality(D) \in Nat /\ Cardinality(D1) \in Nat
      /\ Cardinality(D) <= Cardinality(D1) /\ Cardinality(D1) <= MaxGroups + 1
      /\ D1 \subseteq Shapes /\ MaxGroups \in Nat
  <2>1. /\ IsFiniteSet(D1) /\ Cardinality(D) \in Nat
        /\ Cardinality(D1) = IF o.key \in D THEN Cardinality(D) ELSE Cardinality(D) + 1
    BY <1>0, FS_AddElement, FS_CardinalityType
  <2>. QED
    BY <1>0, <1>1, <2>1, RegistryAssumption
<1>7. Ingest(r, o) = EnforceMaxGroups(r1)
  BY DEF Ingest
<1>8. r1.groups = groups /\ r1.seqs = seqs /\ r1.next = next
  OBVIOUS
<1>. HIDE DEF groups, seqs, next, r1, h1, group
<1>9. CASE Cardinality(D1) <= MaxGroups
  <2>1. Ingest(r, o) = r1
    BY <1>3, <1>7, <1>8, <1>9 DEF EnforceMaxGroups
  <2>2. ASSUME NEW k \in Shapes \ D1, h1[k] # <<>> PROVE Cardinality(D1) = MaxGroups
    <3>1. Cardinality(D) = MaxGroups
      BY <1>0, <1>2, <2>2
    <3>. QED
      BY <1>6, <1>9, <3>1
  <2>3. RegistryKept(r1, h1)
    BY <1>3, <1>4, <1>5, <1>6, <1>8, <1>9, <2>2 DEF RegistryKept
  <2>. QED
    BY <2>1, <2>3 DEF h1
<1>10. CASE ~(Cardinality(D1) <= MaxGroups)
  <2>. DEFINE x == Coldest(groups, seqs)
              kept == D1 \ {x}
              r2 == Ingest(r, o)
  <2>1. x \in D1
    <3>1. \A k \in D1 : groups[k].last \in Nat
      BY <1>5 DEF GroupKept, Groups
    <3>. QED
      BY <1>3, <1>4, <3>1, ColdestFacts
  <2>2. r2 = [r1 EXCEPT !.groups = Restrict(@, kept), !.seqs = Restrict(@, kept)]
    BY <1>3, <1>7, <1>8, <1>10 DEF EnforceMaxGroups
  <2>. HIDE DEF x
  <2>3. /\ r2.groups = [k \in kept |-> groups[k]] /\ r2.seqs = [k \in kept |-> seqs[k]]
        /\ r2.next = next
    <3>1. r2 = [groups |-> Restrict(groups, kept), seqs |-> Restrict(seqs, kept), next |-> next]
      BY <2>2 DEF r1
    <3>. HIDE DEF r2, kept
    <3>. QED
      BY <3>1 DEF Restrict
  <2>4. Cardinality(D1) = MaxGroups + 1
    BY <1>6, <1>10
  <2>5. IsFiniteSet(kept) /\ Cardinality(kept) = MaxGroups
    <3>. HIDE DEF D1
    <3>1. IsFiniteSet(kept) /\ Cardinality(kept) = Cardinality(D1) - 1
      BY <1>6, <2>1, FS_RemoveElement
    <3>. QED
      BY <1>6, <2>4, <3>1
  <2>. HIDE DEF r2, kept
  <2>6. DOMAIN r2.groups = kept /\ DOMAIN r2.seqs = kept /\ kept \subseteq D1
    BY <2>3 DEF kept
  <2>7. \A k \in kept : r2.groups[k] = groups[k] /\ r2.seqs[k] = seqs[k]
    BY <2>3
  <2>8. RegistryKept(r2, h1)
    <3>1. \A k \in kept : r2.seqs[k] \in Nat /\ r2.seqs[k] < r2.next
      BY <1>4, <2>3, <2>6, <2>7
    <3>2. \A j, k \in kept : r2.seqs[j] = r2.seqs[k] => j = k
      BY <1>4, <2>6, <2>7
    <3>3. \A k \in kept : /\ r2.groups[k].count <= Len(h1[k])
                           /\ GroupKept(r2.groups[k], Suffix(h1[k], r2.groups[k].count))
      BY <1>5, <2>6, <2>7
    <3>4. r2.next \in Nat /\ kept \subseteq Shapes /\ Cardinality(kept) <= MaxGroups
      BY <1>4, <1>6, <2>3, <2>5, <2>6
    <3>. QED
      BY <2>5, <2>6, <3>1, <3>2, <3>3, <3>4 DEF RegistryKept
  <2>. QED
    BY <2>8 DEF h1, r2
<1>. QED
  BY <1>9, <1>10

\* What the proof of RegistryTrue carries from state to state.
RegistryInv == heard \in [Shapes -> Lists] /\ RegistryKept(registry, heard)

\* It holds of the empty registry.
LEMMA InitRegistry == Init => RegistryInv
<1>. SUFFICES ASSUME Init PROVE RegistryInv
  OBVIOUS
<1>1. /\ registry.groups = <<>> /\ registry.seqs = <<>> /\ registry.next = 0
      /\ heard = [k \in Shapes |-> <<>>]
  BY DEF Init, EmptyRegistry
<1>2. DOMAIN registry.groups = {} /\ DOMAIN registry.seqs = {}
  BY <1>1
<1>3. IsFiniteSet({}) /\ Cardinality({}) = 0 /\ MaxGroups \in Nat
  BY FS_EmptySet, RegistryAssumption
<1>4. heard \in [Shapes -> Lists] /\ \A k \in Shapes : heard[k] = <<>>
  BY <1>1 DEF Lists
<1>. QED
  BY <1>1, <1>2, <1>3, <1>4 DEF RegistryInv, RegistryKept

\* Only hearing of an occurrence touches it.
LEMMA NextRegistry ==
  ASSUME RegistryInv, [Next]_vars
  PROVE  RegistryInv'
<1>1. ASSUME UNCHANGED <<registry, heard>> PROVE RegistryInv'
  BY <1>1 DEF RegistryInv
<1>2. ASSUME NEW o \in Occurrences, Hear(o) PROVE RegistryInv'
  <2>1. registry' = Ingest(registry, o) /\ heard' = [heard EXCEPT ![o.key] = Append(@, o)]
    BY <1>2 DEF Hear
  <2>2. heard' \in [Shapes -> Lists]
    <3>1. o.key \in Shapes
      BY DEF Shapes
    <3>2. Append(heard[o.key], o) \in Lists
      BY <3>1, Appended DEF RegistryInv
    <3>. QED
      BY <2>1, <3>1, <3>2 DEF RegistryInv
  <2>3. RegistryKept(registry', heard')
    BY <2>1, IngestKept DEF RegistryInv
  <2>. QED
    BY <2>2, <2>3 DEF RegistryInv
<1>3. CASE Publish
  BY <1>1, <1>3 DEF Publish
<1>4. CASE Draw \/ NoKey \/ CtrlC
  BY <1>1, <1>4 DEF Draw, NoKey, CtrlC, capture
<1>5. ASSUME NEW c, NEW b, Edit(c, b) PROVE RegistryInv'
  BY <1>1, <1>5 DEF Edit, capture
<1>6. CASE (\E c \in Chunks : Type(c)) \/ Backspace \/ EnterFilter \/ EscapeFilter
  BY <1>5, <1>6 DEF Type, Backspace, EnterFilter, EscapeFilter
<1>7. CASE \E k \in Keys : Press(k)
  BY <1>1, <1>7 DEF Press, capture
<1>8. CASE Quitted \/ UNCHANGED vars
  BY <1>1, <1>8 DEF Quitted, vars, capture
<1>. QED
  BY <1>2, <1>3, <1>4, <1>6, <1>7, <1>8 DEF Next

\* unknown.rs, ingest and enforce_max_groups: for every sequence of unknown
\* occurrences, however their shapes interleave and their timestamps run, and
\* for every cap on groups, samples and endpoints, each group says what its
\* occurrences since it was last evicted come to, and a shape is left out only
\* while the registry is full.
THEOREM RegistryCorrect == Spec => []RegistryTrue
<1>1. RegistryInv => RegistryTrue
  <2>. SUFFICES ASSUME RegistryInv PROVE RegistryTrue
    OBVIOUS
  <2>1. ASSUME NEW k \in DOMAIN registry.groups
        PROVE  LET n == registry.groups[k].count
               IN  /\ n \in 1..Len(heard[k])
                   /\ GroupTrue(registry.groups[k],
                                SubSeq(heard[k], Len(heard[k]) - n + 1, Len(heard[k])))
    <3>. DEFINE g == registry.groups[k]
                s == Suffix(heard[k], g.count)
    <3>1. k \in Shapes /\ g.count <= Len(heard[k]) /\ GroupKept(g, s)
      BY <2>1 DEF RegistryInv, RegistryKept
    <3>2. Len(heard[k]) \in Nat
      BY <3>1 DEF RegistryInv, Lists
    <3>3. g.count \in Nat /\ g.count = Len(s) /\ Len(s) >= 1
      BY <3>1 DEF GroupKept, Groups
    <3>4. GroupTrue(g, s)
      BY <3>1, KeptTrue
    <3>. HIDE DEF g
    <3>5. g.count \in 1..Len(heard[k])
      <4>. HIDE DEF s
      <4>. QED
        BY <3>1, <3>2, <3>3
    <3>. QED
      BY <3>4, <3>5 DEF g, Suffix
  <2>2. /\ Cardinality(DOMAIN registry.groups) <= MaxGroups
        /\ \A k \in Shapes \ DOMAIN registry.groups :
             heard[k] # <<>> => Cardinality(DOMAIN registry.groups) = MaxGroups
    BY DEF RegistryInv, RegistryKept
  <2>. QED
    BY <2>1, <2>2 DEF RegistryTrue
<1>. QED
  BY <1>1, InitRegistry, NextRegistry, PTL DEF Spec

-----------------------------------------------------------------------------
(* The selection.  All it needs of the rows is that they are a sequence, of  *)
(* whatever the streams of the snapshot are.                               *)

IsSeq(rows) == \E S : rows \in Seq(S)

WalkBody(f, roots, snap, s, c, visible, filtered, n) ==
  IF n = 0 THEN [rows |-> <<>>, todo |-> roots]
  ELSE PushRow(f[n - 1], snap, s, c, visible, filtered)

\* A step of the walk adds a row at the end, or nothing.
LEMMA PushRowSeq ==
  ASSUME NEW w, NEW snap, NEW s, NEW c, NEW visible, NEW filtered, IsSeq(w.rows)
  PROVE  IsSeq(PushRow(w, snap, s, c, visible, filtered).rows)
<1>1. PICK S : w.rows \in Seq(S)
  BY DEF IsSeq
<1>2. CASE w.todo = <<>>
  BY <1>2 DEF PushRow
<1>3. CASE w.todo # <<>>
  <2>1. PICK row, todo : PushRow(w, snap, s, c, visible, filtered)
                           = [rows |-> Append(w.rows, row), todo |-> todo]
    BY <1>3 DEF PushRow
  <2>2. w.rows \in Seq(S \cup {row})
    BY <1>1
  <2>3. Append(w.rows, row) \in Seq(S \cup {row})
    BY <2>2
  <2>. QED
    BY <2>1, <2>3 DEF IsSeq
<1>. QED
  BY <1>2, <1>3

\* The recursion of the walk has a solution.
LEMMA WalkExists ==
  ASSUME NEW cap \in Nat, NEW roots, NEW snap, NEW s, NEW c, NEW visible, NEW filtered
  PROVE  \E f : f = [n \in 0..cap |-> WalkBody(f, roots, snap, s, c, visible, filtered, n)]
<1>. DEFINE B(f, n) == WalkBody(f, roots, snap, s, c, visible, filtered, n)
            P == {m \in Nat : \E f : f = [n \in 0..m |-> B(f, n)]}
<1>1. 0 \in P
  <2>. DEFINE f == [n \in 0..0 |-> [rows |-> <<>>, todo |-> roots]]
  <2>1. \A n \in 0..0 : B(f, n) = [rows |-> <<>>, todo |-> roots]
    BY DEF WalkBody
  <2>2. f = [n \in 0..0 |-> B(f, n)]
    <3>. HIDE DEF B
    <3>. QED
      BY <2>1
  <2>. HIDE DEF f, B
  <2>. QED
    BY <2>2
<1>2. ASSUME NEW m \in P PROVE m + 1 \in P
  <2>1. PICK f : f = [n \in 0..m |-> B(f, n)]
    OBVIOUS
  <2>. DEFINE e == [n \in 0..(m + 1) |-> B(f, n)]
  <2>. HIDE DEF B
  <2>2. \A n \in 0..m : e[n] = f[n]
    BY <2>1
  <2>3. \A n \in 0..(m + 1) : B(e, n) = B(f, n)
    <3>. HIDE DEF e
    <3>. SUFFICES ASSUME NEW n \in 0..(m + 1) PROVE B(e, n) = B(f, n)
      OBVIOUS
    <3>1. CASE n = 0
      BY <3>1 DEF B, WalkBody
    <3>2. CASE n # 0
      <4>1. e[n - 1] = f[n - 1]
        BY <2>2, <3>2
      <4>. QED
        BY <3>2, <4>1 DEF B, WalkBody
    <3>. QED
      BY <3>1, <3>2
  <2>4. e = [n \in 0..(m + 1) |-> B(e, n)]
    BY <2>3
  <2>. HIDE DEF e
  <2>. QED
    BY <2>4
<1>3. P = Nat
  <2>. HIDE DEF P
  <2>1. P \in SUBSET Nat
    BY DEF P
  <2>. QED
    BY <1>1, <1>2, <2>1, Induction
<1>. QED
  BY <1>3

\* The rows of a frame are a sequence.
LEMMA RowsSeq ==
  ASSUME NEW snap, NEW s, NEW c, NEW visible, NEW filtered
  PROVE  IsSeq(FlattenVisible(MaxRows, snap, s, c, visible, filtered))
<1>. DEFINE roots == SortSiblings(Resolve(snap, snap.roots, visible), s)
            B(f, n) == WalkBody(f, roots, snap, s, c, visible, filtered, n)
            F == CHOOSE f : f = [n \in 0..MaxRows |-> B(f, n)]
<1>1. F = [n \in 0..MaxRows |-> B(F, n)]
  BY RowsAssumption, WalkExists
<1>2. FlattenVisible(MaxRows, snap, s, c, visible, filtered) = F[MaxRows].rows
  BY DEF FlattenVisible, WalkBody
<1>. HIDE DEF F, roots
<1>. DEFINE P == {n \in Nat : n <= MaxRows => IsSeq(F[n].rows)}
<1>3. 0 \in P
  <2>1. F[0] = [rows |-> <<>>, todo |-> roots]
    BY <1>1, RowsAssumption DEF WalkBody
  <2>2. F[0].rows = <<>>
    BY <2>1
  <2>3. <<>> \in Seq({})
    OBVIOUS
  <2>4. IsSeq(F[0].rows)
    BY <2>2, <2>3 DEF IsSeq
  <2>. QED
    BY <2>4
<1>4. ASSUME NEW n \in P PROVE n + 1 \in P
  <2>. SUFFICES ASSUME n + 1 <= MaxRows PROVE IsSeq(F[n + 1].rows)
    OBVIOUS
  <2>1. n + 1 \in 0..MaxRows /\ n + 1 # 0 /\ (n + 1) - 1 = n /\ IsSeq(F[n].rows)
    BY RowsAssumption
  <2>2. F[n + 1] = B(F, n + 1)
    <3>. HIDE DEF B
    <3>. QED
      BY <1>1, <2>1
  <2>3. F[n + 1] = PushRow(F[n], snap, s, c, visible, filtered)
    BY <2>1, <2>2 DEF WalkBody
  <2>. QED
    BY <2>1, <2>3, PushRowSeq
<1>5. MaxRows \in P
  <2>. HIDE DEF P
  <2>1. P \in SUBSET Nat
    BY DEF P
  <2>. QED
    BY <1>3, <1>4, <2>1, Induction, RowsAssumption
<1>. QED
  BY <1>2, <1>5, RowsAssumption

\* Anchoring the selection to a sequence of rows.
LEMMA AnchoredFacts ==
  ASSUME NEW rows, IsSeq(rows)
  PROVE  LET shown == {r.seq : r \in Range(rows)}
         IN  /\ shown # {} => Anchored(rows) \in shown
             /\ selected \in shown => Anchored(rows) = selected
<1>. DEFINE shown == {r.seq : r \in Range(rows)}
<1>1. /\ \A i \in DOMAIN rows : rows[i].seq \in shown
      /\ \A x \in shown : \E i \in DOMAIN rows : x = rows[i].seq
  BY DEF Range
<1>2. rows # <<>> => 1 \in DOMAIN rows
  <2>1. PICK S : rows \in Seq(S)
    BY DEF IsSeq
  <2>. QED
    BY <2>1
<1>3. rows = <<>> => DOMAIN rows = {}
  OBVIOUS
<1>. HIDE DEF shown
<1>4. ASSUME Positions(rows) # {}
      PROVE  SelectedIndex(rows) \in DOMAIN rows /\ rows[SelectedIndex(rows)].seq = selected
  <2>1. SelectedIndex(rows) = CHOOSE i \in Positions(rows) : TRUE
    BY <1>4 DEF SelectedIndex
  <2>2. SelectedIndex(rows) \in Positions(rows)
    BY <1>4, <2>1
  <2>. QED
    BY <2>2 DEF Positions
<1>5. Positions(rows) = {} => SelectedIndex(rows) = 1
  BY DEF SelectedIndex
<1>6. ASSUME shown # {} PROVE Anchored(rows) \in shown
  <2>1. rows # <<>>
    BY <1>1, <1>3, <1>6
  <2>2. SelectedIndex(rows) \in DOMAIN rows
    BY <1>2, <1>4, <1>5, <2>1
  <2>. QED
    BY <1>1, <2>1, <2>2 DEF Anchored
<1>7. ASSUME selected \in shown PROVE Anchored(rows) = selected
  <2>1. Positions(rows) # {}
    BY <1>1, <1>7 DEF Positions
  <2>. QED
    BY <1>4, <2>1 DEF Anchored
<1>. QED
  BY <1>6, <1>7 DEF shown

\* ui.rs, draw_streams with app.rs, selected_index and select_row: for every
\* snapshot that replaces the one on screen, every filter, order and set of
\* folds, a frame keeps the selected stream while it has a row, and otherwise
\* selects one it shows.
THEOREM SelectionCorrect == Spec => SelectionStable
<1>. DEFINE Kept == turn = "draw" /\ turn' = "key" /\ tab \in {"Streams", "Timeline"} =>
                      LET shown == {r.seq : r \in Range(RowsOf(Shown))}
                      IN  /\ shown # {} => selected' \in shown
                          /\ selected \in shown => selected' = selected
<1>1. ASSUME [Next]_vars PROVE [Kept]_vars
  <2>1. CASE Draw
    <3>. SUFFICES ASSUME tab \in {"Streams", "Timeline"}
                  PROVE  LET shown == {r.seq : r \in Range(RowsOf(Shown))}
                         IN  /\ shown # {} => selected' \in shown
                             /\ selected \in shown => selected' = selected
      OBVIOUS
    <3>1. selected' = Anchored(RowsOf(Shown))
      BY <2>1 DEF Draw
    <3>2. IsSeq(RowsOf(Shown))
      BY RowsSeq DEF RowsOf
    <3>. QED
      BY <3>1, <3>2, AnchoredFacts
  <2>2. CASE turn' = turn \/ turn' = "draw"
    BY <2>2
  <2>3. CASE Publish \/ (\E o \in Occurrences : Hear(o)) \/ NoKey \/ CtrlC \/ Quitted
    BY <2>2, <2>3 DEF Publish, Hear, NoKey, CtrlC, Quitted, vars
  <2>4. CASE (\E c \in Chunks : Type(c)) \/ Backspace \/ EnterFilter \/ EscapeFilter
    BY <2>2, <2>4 DEF Type, Backspace, EnterFilter, EscapeFilter, Edit
  <2>5. CASE \E k \in Keys : Press(k)
    BY <2>2, <2>5 DEF Press
  <2>6. CASE UNCHANGED vars
    BY <2>6
  <2>. QED
    BY <1>1, <2>1, <2>3, <2>4, <2>5, <2>6 DEF Next
<1>. QED
  BY <1>1, PTL DEF Spec, SelectionStable
=============================================================================
