--------------------------- MODULE MCStreamStore ---------------------------
(***************************************************************************)
(* Small instances of StreamStore for TLC.                                 *)
(***************************************************************************)
EXTENDS StreamStore

\* Two protocols as on the wire: "ip" pairs carry "tcp" pairs, which have a
\* lifecycle and condense.  "raw" has no stream identity.
MCProtocols == {"ip", "tcp", "raw"}
MCIdentity == {"ip", "tcp"}
MCTcp == {"tcp"}

Lay(proto, a, b, closes) == [protocol |-> proto, a |-> a, b |-> b, closes |-> closes]
Ip == Lay("ip", 1, 2, FALSE)
Pkt(layers) == [layers |-> layers, origlen |-> 1, opaque |-> 0]

\* Every digest collides: the lookup must compare keys.
MCKeyHash(k) == 0

\* Conversations under one root, one of which closes, a second root, and
\* layers that are skipped or have no key.
LivePackets ==
  {Pkt(<<Ip, Lay("tcp", 1, 2, FALSE)>>),
   Pkt(<<Ip, Lay("tcp", 1, 2, TRUE)>>),
   Pkt(<<Ip, Lay("raw", Absent, Absent, FALSE), Lay("tcp", 3, 1, FALSE)>>),
   Pkt(<<Lay("ip", 3, 1, FALSE), Lay("tcp", Absent, 1, FALSE)>>)}

\* Fan-out around the anchors 1 and 2, both directions of one flow, self-talk,
\* and an inner layer carried by a flow that may fold.
CondensePackets ==
  {Pkt(<<Lay("tcp", 1, 2, FALSE), Lay("ip", 7, 8, FALSE)>>),
   Pkt(<<Lay("tcp", 2, 1, TRUE)>>),
   Pkt(<<Lay("tcp", 1, 3, FALSE)>>),
   Pkt(<<Lay("tcp", 4, 1, FALSE)>>),
   Pkt(<<Lay("tcp", 1, 1, FALSE)>>)}
============================================================================
