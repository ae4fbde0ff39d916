--------------------------- MODULE PluginsNetwork ---------------------------
(***************************************************************************)
(* The plugins of the network and transport layers. For each: the stream   *)
(* identity it declares, its parse, its probe where it has one, and its    *)
(* declaration (claimed routes and the rest of the trait).                 *)
(***************************************************************************)
EXTENDS Wire

----------------------------------------------------------------------------
(* ethernet, vlan, arp                                                     *)

EthernetIdentity == Identity(<<Pair("src_mac", "dst_mac")>>, {Accumulate("ethertype")})

\* Below 0x0600 the type slot is an 802.3 length: the frame is LLC-framed.
\* dst is the destination's address block, which llc's probe reads back.
Ethernet(h, ctx) ==
  Need(h, 14, Layer(14, IF ctx.depth >= DepthKeys THEN [src_mac |-> 0, dst_mac |-> h.dst]
                                                   ELSE NoFields,
    IF h.ethertype >= 1536 THEN Route(EtherType(h.ethertype))
                           ELSE Route(Custom("eth_llc_frame", 0))))

EthernetDecl == [Declares EXCEPT !.claims = <<LinkType(1)>>, !.identity = {EthernetIdentity}]

\* The tag's inner ethertype routes, to another tag too.
Vlan(h, ctx) ==
  Need(h, 4, Layer(4, AtKeys(ctx, {"vlan_id"}), Route(EtherType(h.ethertype))))

VlanDecl == [Declares EXCEPT !.claims = <<EtherType(33024), EtherType(34984)>>]

\* hlen and plen are the sizes of a hardware and of a protocol address.
Arp(h, ctx) ==
  Need(h, 6, Refuse(h.hlen = 0 \/ h.plen = 0,
    Need(h, 8 + 2 * (h.hlen + h.plen),
      Layer(8 + 2 * (h.hlen + h.plen), NoFields, Terminal))))

ArpDecl == [Declares EXCEPT !.claims = <<EtherType(2054)>>]

----------------------------------------------------------------------------
(* ipv4, ipv6                                                              *)

Ipv4Identity == Identity(<<Pair("src_addr", "dst_addr")>>, {Accumulate("protocol")})

\* A fragment other than the first carries no transport header.
Ipv4(h, ctx) ==
  Need(h, 1, Refuse(h.version # 4, Refuse(h.ihl < 5,
    Need(h, 4 * h.ihl,
      Layer(4 * h.ihl, AtKeys(ctx, {"src_addr", "dst_addr"}),
        IF h.frag > 0 THEN Terminal ELSE Route(IpProtocol(h.protocol)))))))

\* The checksum of the header is a fact about its bytes.
Ipv4Probe(h) ==
  Score(/\ h.len >= 1 /\ h.version = 4 /\ h.ihl >= 5 /\ h.len >= 4 * h.ihl
        /\ 4 * h.ihl <= h.totalLen /\ h.totalLen <= h.len
        /\ h.checksumOk, 90)

Ipv4Decl == [Declares EXCEPT !.claims = <<EtherType(2048), IpProtocol(4)>>,
                             !.probes = TRUE, !.identity = {Ipv4Identity}]

Ipv6Identity == Identity(<<Pair("src_addr", "dst_addr")>>, {Accumulate("next_header")})

MaxExtHeaders == 8

\* exts are the sizes of the extension headers in order, frag the offset of
\* the last fragment header among them (0 with none), protocol what follows.
Ipv6(h, ctx) ==
  LET walked == SubSeq(h.exts, 1, IF Len(h.exts) > MaxExtHeaders THEN MaxExtHeaders
                                                                ELSE Len(h.exts))
      walk == WalkRecords(walked, 2, 40, h.len)
  IN  Need(h, 4, Refuse(h.version # 6, Need(h, 40,
        IF walk.end THEN walk.result
        ELSE Refuse(Len(h.exts) > MaxExtHeaders,
               Layer(walk.pos, AtKeys(ctx, {"src_addr", "dst_addr"}),
                 IF h.frag > 0 THEN Terminal ELSE Route(IpProtocol(h.protocol)))))))

Ipv6Probe(h) == Score(h.version = 6 /\ h.len >= 40 /\ 40 + h.payloadLen <= h.len, 75)

Ipv6Decl == [Declares EXCEPT !.claims = <<EtherType(34525), IpProtocol(41)>>,
                             !.probes = TRUE, !.identity = {Ipv6Identity}]

----------------------------------------------------------------------------
(* udp, tcp, sctp                                                          *)

UdpIdentity == Identity(<<Pair("src_port", "dst_port")>>, {Sample("length")})

Udp(h, ctx) ==
  Need(h, 8, Layer(8, AtKeys(ctx, {"src_port", "dst_port"}),
    Candidates(<<UdpPort(h.dst), UdpPort(h.src)>>)))

UdpDecl == [Declares EXCEPT !.claims = <<IpProtocol(17)>>, !.identity = {UdpIdentity},
                            !.condense = {Pair("src_port", "dst_port")}]

TcpIdentity == Identity(<<Pair("src_port", "dst_port")>>,
                        {Accumulate("flags"), Series("flags", 1024)})

Tcp(h, ctx) ==
  Need(h, 14, Refuse(h.offset < 5, Need(h, 4 * h.offset,
    Layer(4 * h.offset, AtKeys(ctx, {"src_port", "dst_port"}),
      IF h.len = 4 * h.offset THEN Terminal
                              ELSE Candidates(<<TcpPort(h.dst), TcpPort(h.src)>>)))))

\* saneFlags: reserved bits clear, some flag set, no two of SYN, FIN and RST
\* together, and no urgent pointer without URG.
TcpProbe(h) ==
  Score(h.len >= 20 /\ h.offset \in 5..15 /\ 4 * h.offset <= h.len /\ h.saneFlags, 60)

TcpDecl == [Declares EXCEPT !.claims = <<IpProtocol(6)>>, !.preds = {"ipv4", "ipv6"},
                            !.probes = TRUE, !.identity = {TcpIdentity},
                            !.condense = {Pair("src_port", "dst_port")}]

SctpIdentity == Identity(<<Pair("src_port", "dst_port")>>, {Accumulate("first_chunk_type")})

\* chunk is the declared length of the first chunk; init, that it is an INIT
\* or INIT-ACK, whose fixed fields take 16 bytes after its 4-byte header.
Sctp(h, ctx) ==
  Need(h, 16, Refuse(h.chunk < 4, Need(h, 12 + h.chunk,
    Refuse(h.init /\ h.chunk < 20,
      Layer(12 + h.chunk, AtKeys(ctx, {"src_port", "dst_port"}), Terminal)))))

SctpDecl == [Declares EXCEPT !.claims = <<IpProtocol(132)>>, !.preds = {"ipv4", "ipv6"},
                             !.identity = {SctpIdentity}]

----------------------------------------------------------------------------
(* icmpv4, icmpv6 and the two protocols that continue it, igmp             *)

Icmpv4(h, ctx) == Need(h, 8, Layer(8, NoFields, Terminal))

Icmpv4Decl == [Declares EXCEPT !.claims = <<IpProtocol(1)>>]

NdpTypes == {133, 134, 135, 136, 137}
MldTypes == {130, 131, 132, 143}

\* Mutant of Icmpv6: the hint is taken from the extracted field.
Icmpv6FieldHint(h, ctx) ==
  Need(h, 8, Layer(8, AtStructural(ctx, [type |-> h.type, rest |-> h.rest]),
    IF ctx.depth >= DepthStructural /\ h.type \in NdpTypes \cup MldTypes
    THEN Route(Custom("icmpv6_type", h.type)) ELSE Terminal))

\* ndp and mld read type and rest back through the context. rest stands for
\* the last 16 bits of the word: an MLDv2 report's record count.
Icmpv6(h, ctx) ==
  Need(h, 8, Layer(8, AtStructural(ctx, [type |-> h.type, rest |-> h.rest]),
    IF h.type \in NdpTypes \cup MldTypes THEN Route(Custom("icmpv6_type", h.type))
                                         ELSE Terminal))

Icmpv6Decl == [Declares EXCEPT !.claims = <<IpProtocol(58)>>]

\* What the fixed part of each message takes before its options.
NdpFixed(type) ==
  CASE type \in {135, 136} -> 16
    [] type = 137 -> 32
    [] type = 134 -> 8
    [] OTHER -> 0

\* The option walk: opts are the length bytes of the options in order, in
\* units of 8 bytes; past them the message is zero, which reads as padding. A
\* zero length byte on a typed option is refused.
NdpWalk(h, fixed) ==
  LET walk == Walk([i \in DOMAIN h.opts |-> Record(2, 8 * h.opts[i])], 2, fixed, h.len)
  IN  IF walk.end THEN walk.result ELSE Layer(walk.pos, NoFields, Terminal)

\* Without the enclosing message type the rest of the message is taken whole.
Ndp(h, ctx) ==
  LET type == FieldOf(ctx, "icmpv6", "type")
  IN  IF type = {} THEN Layer(h.len, NoFields, Terminal)
      ELSE LET fixed == NdpFixed(Only(type))
           IN  Need(h, fixed, NdpWalk(h, fixed))

NdpDecl == [Declares EXCEPT !.claims = <<Custom("icmpv6_type", 133), Custom("icmpv6_type", 134),
              Custom("icmpv6_type", 135), Custom("icmpv6_type", 136), Custom("icmpv6_type", 137)>>]

\* sources is the source count of a query's extension and of every report
\* record; a record also has aux words of auxiliary data.
MldReport(h, ctx) ==
  LET records == FieldOf(ctx, "icmpv6", "rest")
      size == 20 + 16 * h.sources + 4 * h.aux
  IN  IF records = {} THEN Layer(h.len, NoFields, Terminal)
      ELSE LET end == Only(records) * size
           IN  Need(h, end, Layer(end, NoFields, Terminal))

Mld(h, ctx) ==
  LET type == FieldOf(ctx, "icmpv6", "type")
      end == IF type = {130} /\ h.len >= 20 THEN 20 + 16 * h.sources ELSE 16
  IN  IF type = {} THEN Layer(h.len, NoFields, Terminal)
      ELSE IF type = {143} THEN MldReport(h, ctx)
      ELSE Need(h, end, Layer(end, NoFields, Terminal))

MldDecl == [Declares EXCEPT !.claims = <<Custom("icmpv6_type", 130), Custom("icmpv6_type", 131),
              Custom("icmpv6_type", 132), Custom("icmpv6_type", 143)>>]

Igmp(h, ctx) == Need(h, 8, Layer(8, NoFields, Terminal))

IgmpDecl == [Declares EXCEPT !.claims = <<IpProtocol(2)>>]

----------------------------------------------------------------------------
(* Routing and redundancy: vrrp, hsrp, ospf, bfd                           *)

VrrpIdentity == Identity(<<Shared("vrid")>>, {Accumulate("priority")})

\* Version 3 takes the address size from the layer below; version 2 ends in
\* 8 bytes of authentication data.
AddressLen(version, ctx) == IF version = 3 /\ Prev(ctx) = "ipv6" THEN 16 ELSE 4

Vrrp(h, ctx) ==
  LET end == 8 + h.count * AddressLen(h.version, ctx) + (IF h.version = 2 THEN 8 ELSE 0)
  IN  Need(h, 1, Refuse(h.version \notin {2, 3}, Refuse(h.type # 1,
        Need(h, end, Layer(end, AtKeys(ctx, {"vrid"}), Terminal)))))

VrrpDecl == [Declares EXCEPT !.claims = <<IpProtocol(112)>>, !.identity = {VrrpIdentity}]

HsrpIdentity == Identity(<<Shared("group")>>, {Accumulate("state"), Accumulate("priority")})

Hsrp(h, ctx) ==
  Need(h, 1, Refuse(h.version # 0, Need(h, 20, Layer(20, AtKeys(ctx, {"group"}), Terminal))))

HsrpDecl == [Declares EXCEPT !.claims = <<UdpPort(1985)>>, !.identity = {HsrpIdentity}]

\* What the body of a message reads, from byte 4 of the message on. tail is
\* what the loops read: neighbors of 4 bytes each to the end of the message,
\* or the link-state advertisements' declared lengths.
OspfBody(h, body) ==
  LET common == IF h.version = 2 THEN 20 ELSE 12
      b == [len |-> body]
      ok == Layer(4 + body, NoFields, Terminal)
      update == WalkRecords(h.lsas, 20, common + 4, body)
  IN  Need(b, common,
        CASE h.type = 1 -> Need(b, common + 20,
               IF (body - common - 20) % 4 = 0 THEN ok ELSE Truncated)
          [] h.type = 2 -> Need(b, common + (IF h.version = 2 THEN 8 ELSE 12), ok)
          [] h.type = 4 -> Need(b, common + 4, IF update.end THEN update.result ELSE ok)
          [] OTHER -> ok)

\* Every read stays inside the declared message length.
Ospf(h, ctx) ==
  Need(h, 1, Refuse(h.version \notin {2, 3}, Need(h, 4, Refuse(h.packetLen < 4,
    Need(h, h.packetLen, OspfBody(h, h.packetLen - 4))))))

OspfDecl == [Declares EXCEPT !.claims = <<IpProtocol(89)>>]

BfdIdentity == Identity(<<Pair("my_discriminator", "your_discriminator")>>, {Accumulate("state")})

\* The declared length covers the mandatory part and, with the A bit, the
\* head of an authentication section.
Bfd(h, ctx) ==
  Need(h, 1, Refuse(h.version # 1, Need(h, 3, Refuse(h.mult = 0,
    Need(h, 4, Refuse(h.length < (IF h.auth THEN 26 ELSE 24),
      Need(h, 8, Refuse(h.mine = 0,
        Need(h, h.length,
          Layer(h.length, AtKeys(ctx, {"my_discriminator", "your_discriminator"}),
                Terminal))))))))))

BfdDecl == [Declares EXCEPT !.claims = <<UdpPort(3784), UdpPort(4784)>>,
                            !.identity = {BfdIdentity}]

----------------------------------------------------------------------------
(* template, the plugin that new ones are copied from                      *)

TemplateIdentity == Identity(<<Pair("src", "dst")>>, {Accumulate("type")})

Template(h, ctx) ==
  Need(h, 8, Layer(8, AtKeys(ctx, {"src", "dst"}),
    IF h.type = 1 THEN ByProtocol("template") ELSE Terminal))

TemplateProbe(h) == Score(h.len >= 8 /\ 8 <= h.length /\ h.length <= h.len, 60)

TemplateDecl == [Declares EXCEPT !.claims = <<Custom("pktt", 0)>>, !.probes = TRUE,
                                 !.identity = {TemplateIdentity}]
=============================================================================
