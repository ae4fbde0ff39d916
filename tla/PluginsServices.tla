-------------------------- MODULE PluginsServices --------------------------
(***************************************************************************)
(* The plugins of name, address, time and directory services, and of the   *)
(* network's own bookkeeping.                                              *)
(***************************************************************************)
EXTENDS Wire

----------------------------------------------------------------------------
(* dns and the protocols that speak its message format                     *)

DnsIdentity == Identity(<<Shared("app")>>, {Accumulate("qname"), Accumulate("rcode")})

MaxRecordsPerSection == 128

\* counts is the largest of the four section counts; records are, in order,
\* the questions and resource records: the bytes of the name (0 when the name
\* is refused, see DnsNames) and of what follows it. A name that runs past
\* the message is refused, a record that does is truncated. The message ends
\* at limit, and prefix bytes stand before it.
ParseMessage(h, prefix, limit, ctx) ==
  LET b == [len |-> limit]
      entry(rec) == [Record(rec.name, rec.name + rec.rest) EXCEPT
                       !.short = Malformed, !.bad = rec.name = 0]
      walk == Walk([i \in DOMAIN h.records |-> entry(h.records[i])], 0, 12, limit)
  IN  Need(b, 12, Refuse(h.counts > MaxRecordsPerSection,
        IF walk.end THEN walk.result
        ELSE Layer(prefix + walk.pos, AtKeys(ctx, {"app"}), Terminal)))

\* Over TCP a two-byte length comes first and bounds the message.
Dns(h, ctx) ==
  LET prefix == IF Prev(ctx) = "tcp" THEN 2 ELSE 0
      limit == IF prefix = 2 THEN h.msgLen ELSE h.len
  IN  Need(h, prefix + limit, ParseMessage(h, prefix, limit, ctx))

DnsDecl == [Declares EXCEPT !.claims = <<UdpPort(53), TcpPort(53)>>, !.identity = {DnsIdentity}]

MdnsIdentity == Identity(<<Shared("app")>>, {Accumulate("qname")})

Mdns(h, ctx) == ParseMessage(h, 0, h.len, ctx)

MdnsDecl == [Declares EXCEPT !.claims = <<UdpPort(5353)>>, !.identity = {MdnsIdentity}]

LlmnrIdentity == Identity(<<Shared("app")>>, {Accumulate("qname")})

Llmnr(h, ctx) == ParseMessage(h, 0, h.len, ctx)

LlmnrDecl == [Declares EXCEPT !.claims = <<UdpPort(5355)>>, !.identity = {LlmnrIdentity}]

NetbiosNsIdentity == Identity(<<Shared("app")>>, {Accumulate("name")})

\* named: a question or an answer is announced, so one encoded name of
\* exactly 32 characters, a terminator, a type and a class follow.
NetbiosNs(h, ctx) ==
  LET end == IF h.named THEN 50 ELSE 12
      ok == Layer(end, AtKeys(ctx, {"app"}), Terminal)
  IN  Need(h, 12, IF ~h.named THEN ok
        ELSE Need(h, 13, Refuse(h.label # 32, Need(h, 45, Refuse(h.badAlphabet,
               Need(h, 46, Refuse(h.scoped, Need(h, end, ok))))))))

NetbiosNsDecl == [Declares EXCEPT !.claims = <<UdpPort(137)>>, !.identity = {NetbiosNsIdentity}]

----------------------------------------------------------------------------
(* dhcp, dhcpv6                                                            *)

DhcpIdentity == Identity(<<Shared("app")>>, {Series("msg_type", 64), Accumulate("client_mac")})

\* opts are the sizes of the options before the END option, one for a pad.
Dhcp(h, ctx) ==
  LET walk == WalkRecords(h.opts, 1, 240, h.len)
  IN  Need(h, 240, Refuse(~h.cookie,
        IF walk.end THEN walk.result
        ELSE IF ~h.ended THEN Truncated
        ELSE Need(h, walk.pos + 1, Layer(walk.pos + 1, AtKeys(ctx, {"app"}), Terminal))))

DhcpDecl == [Declares EXCEPT !.claims = <<UdpPort(67), UdpPort(68)>>,
                             !.identity = {DhcpIdentity}]

Dhcpv6Identity == Identity(<<Shared("app")>>, {Series("msg_type", 64)})

\* What the options inside an identity association come to: none fails, one
\* does not fit, or the association is shorter than its own fixed part.
FirstIaAddress(ia) ==
  CASE ia = "short" -> Malformed [] ia = "cut" -> Truncated [] OTHER -> Terminal

\* The options run to the end of the datagram. ia is the first association
\* among them, and iaEnd where it ends (0 with none).
Dhcpv6(h, ctx) ==
  LET walk == WalkToEnd(h.opts, 4, 4, h.len)
      reached == h.iaEnd > 0 /\ h.iaEnd <= h.len
  IN  Need(h, 1, Refuse(h.relay, Need(h, 4,
        Passed(IF reached THEN FirstIaAddress(h.ia) ELSE Terminal,
          Passed(walk, Layer(h.len, AtKeys(ctx, {"app"}), Terminal))))))

Dhcpv6Decl == [Declares EXCEPT !.claims = <<UdpPort(547), UdpPort(546)>>,
                               !.identity = {Dhcpv6Identity}]

----------------------------------------------------------------------------
(* ntp, ptp                                                                *)

NtpIdentity == Identity(<<Shared("app")>>, {Accumulate("mode"), Sample("stratum")})

Ntp(h, ctx) ==
  Need(h, 1, Refuse(h.mode = 0, Need(h, 48, Layer(48, AtKeys(ctx, {"app"}), Terminal))))

NtpDecl == [Declares EXCEPT !.claims = <<UdpPort(123)>>, !.identity = {NtpIdentity}]

PtpIdentity == Identity(<<Shared("domain")>>, {Accumulate("msg_type")})

Ptp(h, ctx) ==
  Need(h, 1, Refuse(~h.definedType, Need(h, 2, Refuse(h.version # 2,
    Need(h, 4, Refuse(h.length < 34, Need(h, h.length,
      Layer(h.length, AtKeys(ctx, {"domain"}), Terminal))))))))

PtpDecl == [Declares EXCEPT !.claims = <<UdpPort(319), UdpPort(320), EtherType(35063)>>,
                            !.identity = {PtpIdentity}]

----------------------------------------------------------------------------
(* syslog, radius                                                          *)

SyslogIdentity == Identity(<<Shared("app")>>, {Accumulate("severity")})

\* A message, if there is one, follows a space and is not empty.
TrailingMsg(h, then) ==
  Refuse(h.len > h.head /\ (~h.space \/ h.len = h.head + 1), then)

\* pri is the bytes of the priority with its brackets, head where the fields
\* of either format end. Whatever is missing from them is refused, but a
\* legacy timestamp that is cut short.
SyslogHead(h, then) ==
  Refuse(h.badPri \/ h.len < h.pri,
    IF ~h.versioned /\ h.len < h.pri + 15 THEN Truncated
    ELSE Refuse(h.badFields \/ h.len < h.head, then))

Syslog(h, ctx) ==
  SyslogHead(h, TrailingMsg(h, Layer(h.len, AtKeys(ctx, {"app"}), Terminal)))

SyslogDecl == [Declares EXCEPT !.claims = <<UdpPort(514)>>, !.identity = {SyslogIdentity}]

RadiusIdentity == Identity(<<Shared("app")>>, {Accumulate("code"), Sample("user_name")})

\* attrs are the attributes' length bytes; whatever overruns the declared
\* length is refused, never truncated.
Radius(h, ctx) ==
  Need(h, 20, Refuse(h.length < 20 \/ h.length > 4096, Need(h, h.length,
    Refuse(WalkToEnd(h.attrs, 2, 20, h.length) # Terminal,
      Layer(h.length, AtKeys(ctx, {"app"}), Terminal)))))

RadiusDecl == [Declares EXCEPT !.claims = <<UdpPort(1812), UdpPort(1813)>>,
                               !.identity = {RadiusIdentity}]

----------------------------------------------------------------------------
(* snmp, kerberos, ldap: tag, length and value                             *)

\* A length takes width bytes; bad says that its form is indefinite or wider
\* than eight octets, tag that the tag is the expected one.
TlvEnd(at, t) == at + 1 + t.width + t.n

BerLength(b, at, t, then) == Need(b, at + 2, Refuse(t.bad, Need(b, TlvEnd(at, t), then)))

ReadTlv(b, at, t, then) == BerLength(b, at, t, Refuse(~t.tag, then))

SnmpIdentity == Identity(<<Shared("app")>>, {Accumulate("pdu_type"), Sample("community")})

\* The three elements are read inside the message's value. badInt: the
\* version is empty, negative or too wide; community: it is 1 or 2c.
Snmp(h, ctx) ==
  LET b == [len |-> h.msg.n]
      community == TlvEnd(0, h.version)
      ok == Layer(TlvEnd(0, h.msg), AtKeys(ctx, {"app"}), Terminal)
  IN  ReadTlv(h, 0, h.msg, ReadTlv(b, 0, h.version, Refuse(h.badInt,
        IF ~h.community THEN ok
        ELSE ReadTlv(b, community, h.name,
               ReadTlv(b, TlvEnd(community, h.name), h.pdu, ok)))))

SnmpDecl == [Declares EXCEPT !.claims = <<UdpPort(161), UdpPort(162)>>,
                             !.identity = {SnmpIdentity}]

KerberosIdentity == Identity(<<Shared("app")>>, {Accumulate("msg_type")})

\* The tag, application class and a known message type, is checked first.
Kerberos(h, ctx) ==
  Need(h, 1, Refuse(~h.msg.tag, BerLength(h, 0, h.msg,
    Layer(TlvEnd(0, h.msg), AtKeys(ctx, {"app"}), Terminal))))

KerberosDecl == [Declares EXCEPT !.claims = <<UdpPort(88), TcpPort(88)>>,
                                 !.identity = {KerberosIdentity}]

LdapIdentity == Identity(<<Shared("app")>>, {Accumulate("protocol_op"), Sample("bind_dn")})

\* A message id and an operation inside the message's value.
Ldap(h, ctx) ==
  LET b == [len |-> h.msg.n]
  IN  ReadTlv(h, 0, h.msg, ReadTlv(b, 0, h.id, Refuse(h.badInt,
        ReadTlv(b, TlvEnd(0, h.id), h.op,
          Layer(TlvEnd(0, h.msg), AtKeys(ctx, {"app"}), Terminal)))))

LdapDecl == [Declares EXCEPT !.claims = <<TcpPort(389)>>, !.identity = {LdapIdentity}]
=============================================================================
