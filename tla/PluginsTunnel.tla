--------------------------- MODULE PluginsTunnel ---------------------------
(***************************************************************************)
(* The plugins that carry other protocols or hide them: GRE and ERSPAN,    *)
(* VXLAN, GENEVE, IPsec, GTP, WireGuard, L2TPv3 and QUIC.                  *)
(***************************************************************************)
EXTENDS Wire

Word(flag) == IF flag THEN 4 ELSE 0

----------------------------------------------------------------------------
(* gre, erspan, vxlan, geneve                                              *)

GreIdentity == Identity(<<Shared("key")>>, {})

\* One optional word for each of the C, K and S bits; a frame without a key
\* keys its stream on zero.
Gre(h, ctx) ==
  LET end == 4 + Word(h.c) + Word(h.k) + Word(h.s)
  IN  Need(h, 2, Refuse(h.version # 0, Need(h, end,
        Layer(end, AtKeys(ctx, {"key"}), Route(EtherType(h.protocol))))))

GreDecl == [Declares EXCEPT !.claims = <<IpProtocol(47)>>, !.identity = {GreIdentity}]

ErspanIdentity == Identity(<<Shared("session_id")>>, {})

\* Version 1 is type II, version 2 type III with an optional subheader and a
\* frame type of its own.
Erspan(h, ctx) ==
  LET end == IF h.version = 1 THEN 8 ELSE 12 + 2 * Word(h.optional)
      ethernet == h.version = 1 \/ h.frameType = 0
  IN  Need(h, 4, Refuse(h.version \notin {1, 2}, Need(h, end,
        Layer(end, AtKeys(ctx, {"session_id"}),
              IF ethernet THEN ByProtocol("ethernet") ELSE UnknownNext))))

ErspanDecl == [Declares EXCEPT !.claims = <<EtherType(35006), EtherType(8939)>>,
                               !.identity = {ErspanIdentity}]

VxlanIdentity == Identity(<<Shared("vni")>>, {})

Vxlan(h, ctx) ==
  Need(h, 1, Refuse(~h.validVni, Need(h, 8,
    Layer(8, AtKeys(ctx, {"vni"}), ByProtocol("ethernet")))))

VxlanDecl == [Declares EXCEPT !.claims = <<UdpPort(4789)>>, !.identity = {VxlanIdentity}]

GeneveIdentity == Identity(<<Shared("vni")>>, {Accumulate("protocol_type")})

Geneve(h, ctx) ==
  LET end == 8 + 4 * h.optLen
  IN  Need(h, 1, Refuse(h.version # 0, Need(h, end,
        Layer(end, AtKeys(ctx, {"vni"}), Route(EtherType(h.protocol))))))

GeneveDecl == [Declares EXCEPT !.claims = <<UdpPort(6081)>>, !.identity = {GeneveIdentity}]

----------------------------------------------------------------------------
(* esp, ah                                                                 *)

EspIdentity == Identity(<<Shared("spi")>>, {Sample("sequence")})

Esp(h, ctx) == Need(h, 8, Layer(8, AtKeys(ctx, {"spi"}), Terminal))

EspDecl == [Declares EXCEPT !.claims = <<IpProtocol(50)>>, !.identity = {EspIdentity}]

AhIdentity == Identity(<<Shared("spi")>>, {Sample("sequence"), Accumulate("next_header")})

\* The length byte counts words and leaves two of them out.
Ah(h, ctx) ==
  LET end == 4 * h.payloadLen + 8
  IN  Need(h, 12, Refuse(end < 12, Need(h, end,
        Layer(end, AtKeys(ctx, {"spi"}), Route(IpProtocol(h.next))))))

AhDecl == [Declares EXCEPT !.claims = <<IpProtocol(51)>>, !.identity = {AhIdentity}]

----------------------------------------------------------------------------
(* gtp_u, gtp_c                                                            *)

GtpUIdentity == Identity(<<Shared("teid")>>, {Accumulate("message_type")})

\* exts are the length bytes of the chained extension headers, in words.
ExtensionChain(h) ==
  WalkRecords([i \in DOMAIN h.exts |-> 4 * h.exts[i]], 1, 12, h.len)

GtpUHint(h) == IF h.gpdu THEN UnknownNext ELSE Terminal

\* Any of the E, S and PN bits brings all three optional fields.
GtpU(h, ctx) ==
  LET chain == ExtensionChain(h)
  IN  Need(h, 1, Refuse(h.version # 1 \/ ~h.pt, Need(h, 8,
        IF ~h.flags THEN Layer(8, AtKeys(ctx, {"teid"}), GtpUHint(h))
        ELSE Need(h, 12, IF chain.end THEN chain.result
                         ELSE Layer(chain.pos, AtKeys(ctx, {"teid"}), GtpUHint(h))))))

GtpUDecl == [Declares EXCEPT !.claims = <<UdpPort(2152)>>, !.identity = {GtpUIdentity}]

GtpCIdentity == Identity(<<Shared("teid")>>, {Accumulate("message_type")})

\* The declared length starts after byte 8 in version 1 and after byte 4 in
\* version 2; it must cover the fixed part, optional fields included.
GtpCEnd(h) == (IF h.version = 1 THEN 8 ELSE 4) + h.length
GtpCFixed(h) == IF h.optional THEN 12 ELSE 8

\* Mutant of GtpC: the declared length is not checked against the bytes.
GtpCUnchecked(h, ctx) ==
  Need(h, 1, Refuse(h.version \notin {1, 2} \/ (h.version = 1 /\ ~h.pt),
    Need(h, GtpCFixed(h), Refuse(GtpCEnd(h) < GtpCFixed(h),
      Layer(GtpCEnd(h), AtKeys(ctx, {"teid"}), Terminal)))))

GtpC(h, ctx) ==
  Need(h, 1, Refuse(h.version \notin {1, 2} \/ (h.version = 1 /\ ~h.pt),
    Need(h, GtpCFixed(h), Refuse(GtpCEnd(h) < GtpCFixed(h), Need(h, GtpCEnd(h),
      Layer(GtpCEnd(h), AtKeys(ctx, {"teid"}), Terminal))))))

GtpCDecl == [Declares EXCEPT !.claims = <<UdpPort(2123)>>, !.identity = {GtpCIdentity}]

----------------------------------------------------------------------------
(* wireguard, l2tpv3, quic                                                 *)

WireguardIdentity == Identity(<<Shared("app")>>, {Accumulate("msg_type")})

\* The handshake messages have one size each; a data message only a header.
WireguardLen(type) ==
  CASE type = 1 -> 148 [] type = 2 -> 92 [] type = 3 -> 64 [] OTHER -> 16

Wireguard(h, ctx) ==
  Need(h, 4, Refuse(h.reserved # 0 \/ h.type \notin 1..4, Need(h, WireguardLen(h.type),
    Layer(WireguardLen(h.type), AtKeys(ctx, {"app"}), Terminal))))

WireguardProbe(h) ==
  Score(/\ h.len >= 4 /\ h.reserved = 0
        /\ \/ h.type \in 1..3 /\ h.len = WireguardLen(h.type)
           \/ h.type = 4 /\ h.len >= 32, 50)

WireguardDecl == [Declares EXCEPT !.claims = <<UdpPort(51820)>>, !.probes = TRUE,
                                  !.identity = {WireguardIdentity}]

L2tpv3Identity == Identity(<<Shared("session_id")>>, {})

\* Over UDP a flags word comes first, and its T bit says control message. A
\* control message has no session id to key on.
L2tpv3(h, ctx) ==
  LET udp == Prev(ctx) = "udp"
      end == 4 + Word(udp)
      data == Need(h, end, Layer(end, AtKeys(ctx, {"session_id"}), ByProtocol("ethernet")))
  IN  IF ~udp THEN data
      ELSE Need(h, 4, Refuse(h.version # 3,
             IF h.control THEN Need(h, 12, Layer(12, NoFields, Terminal)) ELSE data))

L2tpv3Decl == [Declares EXCEPT !.claims = <<UdpPort(1701), IpProtocol(115)>>,
                               !.identity = {L2tpv3Identity}]

QuicIdentity == Identity(<<Shared("dcid")>>, {Accumulate("packet_type")})

\* A short header does not carry the length of its connection id, so nothing
\* past the first byte is read and no key is found.
Quic(h, ctx) ==
  LET end == 7 + h.dcid + h.scid
  IN  Need(h, 1,
        IF ~h.long THEN Layer(1, NoFields, Terminal)
        ELSE Need(h, end, Layer(end, AtKeys(ctx, {"dcid"}), Terminal)))

QuicProbe(h) == Score(h.len >= 5 /\ h.long /\ h.fixedBit /\ h.known, 50)

QuicDecl == [Declares EXCEPT !.claims = <<UdpPort(443)>>, !.probes = TRUE,
                             !.identity = {QuicIdentity}]
=============================================================================
