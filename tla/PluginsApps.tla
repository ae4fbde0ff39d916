---------------------------- MODULE PluginsApps ----------------------------
(***************************************************************************)
(* The plugins of session, file, media, messaging and export protocols     *)
(* with binary headers.                                                    *)
(***************************************************************************)
EXTENDS Wire

----------------------------------------------------------------------------
(* tls, ssh, stun                                                          *)

TlsIdentity == Identity(<<Shared("app")>>,
  {Sample("sni"), Accumulate("handshake_type"), Accumulate("selected_cipher_suite"),
   Accumulate("tls_version_selected")})

\* One record; what its handshake message holds only adds fields.
Tls(h, ctx) ==
  Need(h, 1, Refuse(~h.contentType, Need(h, 3, Refuse(~h.version, Need(h, 5 + h.length,
    Layer(5 + h.length, AtKeys(ctx, {"app"}), Terminal))))))

\* The record may reach sixteen bytes past what was captured.
TlsProbe(h) ==
  Score(h.len >= 5 /\ h.contentType /\ h.version /\ h.length <= (h.len - 5) + 16, 55)

TlsDecl == [Declares EXCEPT !.claims = <<TcpPort(443)>>, !.probes = TRUE,
                            !.identity = {TlsIdentity}]

SshIdentity == Identity(<<Shared("app")>>, {Sample("banner")})

\* An identification line, or a key exchange packet whose padding leaves it
\* a payload.
Ssh(h, ctx) ==
  LET ok(end) == Layer(end, AtKeys(ctx, {"app"}), Terminal)
  IN  IF h.banner
      THEN IF h.line = 0 \/ h.line > h.len THEN Truncated ELSE ok(h.line)
      ELSE Need(h, 4, Refuse(h.packetLen < 2, Need(h, 4 + h.packetLen,
             Refuse(h.padding >= h.packetLen - 1 \/ ~h.kexinit, ok(4 + h.packetLen)))))

SshDecl == [Declares EXCEPT !.claims = <<TcpPort(22)>>, !.identity = {SshIdentity}]

StunIdentity == Identity(<<Shared("app")>>,
                         {Accumulate("message_class"), Sample("xor_mapped_address")})

Stun(h, ctx) ==
  Need(h, 2, Refuse(h.topBits # 0, Need(h, 4, Refuse(h.length % 4 # 0,
    Need(h, 8, Refuse(~h.cookie, Need(h, 20 + h.length,
      Layer(20 + h.length, AtKeys(ctx, {"app"}), Terminal))))))))

StunProbe(h) == Score(h.len >= 8 /\ h.topBits = 0 /\ h.cookie, 95)

StunDecl == [Declares EXCEPT !.claims = <<UdpPort(3478), TcpPort(3478)>>, !.probes = TRUE,
                             !.identity = {StunIdentity}]

----------------------------------------------------------------------------
(* tftp, smb2, nfs                                                         *)

\* A string of the message ends in a zero byte: first and second are their
\* sizes with it (0 when it is missing).
ReadCstring(h, at, size, then) == IF size = 0 THEN Truncated ELSE Need(h, at + size, then)

Tftp(h, ctx) ==
  LET ok(end) == Layer(end, NoFields, Terminal)
  IN  Need(h, 2,
        CASE h.opcode \in {1, 2} -> ReadCstring(h, 2, h.first,
               ReadCstring(h, 2 + h.first, h.second, ok(2 + h.first + h.second)))
          [] h.opcode \in {3, 4} -> Need(h, 4, ok(4))
          [] h.opcode = 5 -> Need(h, 4, ReadCstring(h, 4, h.first, ok(4 + h.first)))
          [] OTHER -> Malformed)

TftpDecl == [Declares EXCEPT !.claims = <<UdpPort(69)>>]

Smb2Identity == Identity(<<Shared("session_id")>>, {Accumulate("command")})

\* A session message of four bytes' head; the fixed header is read inside it.
Smb2(h, ctx) ==
  LET b == [len |-> h.length]
  IN  Need(h, 1, Refuse(h.type # 0, Need(h, 4 + h.length,
        Need(b, 4, Refuse(~h.magic, Need(b, 6, Refuse(h.structureSize # 64, Need(b, 64,
          Layer(4 + h.length, AtKeys(ctx, {"session_id"}), Terminal)))))))))

Smb2Decl == [Declares EXCEPT !.claims = <<TcpPort(445)>>, !.identity = {Smb2Identity}]

NfsIdentity == Identity(<<Shared("app")>>, {Accumulate("procedure")})

\* Over TCP a record mark comes first. bad: another version of the call, or
\* an unknown status of the reply.
Nfs(h, ctx) ==
  LET prefix == IF Prev(ctx) = "tcp" THEN 4 ELSE 0
      end == prefix + (IF h.type = "call" THEN 24 ELSE 12)
  IN  Need(h, prefix + 8, Refuse(h.type \notin {"call", "reply"},
        Need(h, prefix + 12, Refuse(h.bad, Need(h, end,
          Layer(end, AtKeys(ctx, {"app"}), Terminal))))))

NfsDecl == [Declares EXCEPT !.claims = <<UdpPort(2049), TcpPort(2049)>>,
                            !.identity = {NfsIdentity}]

----------------------------------------------------------------------------
(* rtp, rtcp, amqp                                                         *)

RtpIdentity == Identity(<<Shared("ssrc")>>, {Accumulate("payload_type")})

\* words is the length of the header extension, absent without the X bit.
Rtp(h, ctx) ==
  LET end == 12 + 4 * h.cc + (IF h.extension THEN 4 + 4 * h.words ELSE 0)
  IN  Need(h, 1, Refuse(h.version # 2, Need(h, end,
        Layer(end, AtKeys(ctx, {"ssrc"}), Terminal))))

\* Nothing claims a route to either: they are reached by an override.
RtpDecl == [Declares EXCEPT !.identity = {RtpIdentity}]

RtcpIdentity == Identity(<<Shared("ssrc")>>, {Accumulate("packet_type")})

\* The length counts the words after the first; the source is one of them.
Rtcp(h, ctx) ==
  LET end == 4 * (h.words + 1)
  IN  Need(h, 1, Refuse(h.version # 2, Need(h, 4, Need(h, end, Need([len |-> end], 8,
        Refuse(~h.knownType, Layer(end, AtKeys(ctx, {"ssrc"}), Terminal)))))))

RtcpDecl == [Declares EXCEPT !.identity = {RtcpIdentity}]

AmqpIdentity == Identity(<<Shared("app")>>, {Accumulate("frame_type"), Accumulate("class_id")})

\* A frame closes with an octet of its own.
Amqp(h, ctx) ==
  LET end == 8 + h.size
  IN  Need(h, 1, Refuse(~h.knownType, Need(h, end, Refuse(~h.frameEnd,
        Layer(end, AtKeys(ctx, {"app"}), Terminal)))))

AmqpDecl == [Declares EXCEPT !.claims = <<TcpPort(5672)>>, !.identity = {AmqpIdentity}]

----------------------------------------------------------------------------
(* netflow9, ipfix, bgp                                                    *)

\* A walk over sets while a set's head is left. cut: a template record runs
\* past its set. Past the given sets the bytes are zero, and so is the length
\* that the next head would hold.
WalkSets(sets, from, limit) ==
  LET flowset(set) == [Record(4, set.size) EXCEPT !.cut = set.cut]
      walk == Walk([i \in DOMAIN sets |-> flowset(sets[i])], 4, from, limit)
  IN  IF walk.end THEN walk.result
      ELSE IF limit - walk.pos >= 4 THEN Malformed ELSE Terminal

Netflow9Identity == Identity(<<Shared("app")>>, {Accumulate("source_id")})

\* The header is the layer; the flow sets behind it are checked all the same.
Netflow9(h, ctx) ==
  LET walk == WalkSets(h.sets, 20, h.len)
  IN  Need(h, 2, Refuse(h.version # 9, Need(h, 20,
        Passed(walk, Layer(20, AtKeys(ctx, {"app"}), Terminal)))))

Netflow9Decl == [Declares EXCEPT !.claims = <<UdpPort(2055)>>, !.identity = {Netflow9Identity}]

IpfixIdentity == Identity(<<Shared("app")>>, {Accumulate("domain_id")})

Ipfix(h, ctx) ==
  LET walk == WalkSets(h.sets, 16, h.length)
  IN  Need(h, 2, Refuse(h.version # 10, Need(h, 16, Refuse(h.length < 16, Need(h, h.length,
        Passed(walk, Layer(h.length, AtKeys(ctx, {"app"}), Terminal)))))))

IpfixDecl == [Declares EXCEPT !.claims = <<UdpPort(4739)>>, !.identity = {IpfixIdentity}]

BgpIdentity == Identity(<<Shared("app")>>, {Accumulate("msg_type"), Sample("my_as")})

\* Prefixes of so many bytes, each behind a byte of its own, to the end of
\* their list; more than four bytes are refused before they are read.
ParsePrefixList(prefixes, from, limit) ==
  LET prefix(n) == [Record(1, 1 + n) EXCEPT !.bad = n > 4]
  IN  ToEnd(Walk([i \in DOMAIN prefixes |-> prefix(prefixes[i])], 1, from, limit), limit)

\* The three regions of an update, each inside the message's body.
BgpUpdate(h, body, ok) ==
  LET attrs == 4 + h.withdrawnLen
      nlri == attrs + h.attrLen
      b == [len |-> body]
  IN  Need(b, 2 + h.withdrawnLen,
        Passed(ParsePrefixList(h.withdrawn, 2, 2 + h.withdrawnLen),
          Need(b, nlri, Passed(WalkToEnd(h.attrs, 3, attrs, nlri),
            Passed(ParsePrefixList(h.prefixes, nlri, body), ok)))))

Bgp(h, ctx) ==
  LET body == h.length - 19
      b == [len |-> body]
      ok == Layer(h.length, AtKeys(ctx, {"app"}), Terminal)
  IN  Need(h, 19, Refuse(h.length < 19 \/ h.length > 4096, Need(h, h.length,
        CASE h.type = "open" -> Need(b, 1, Refuse(h.version # 4, Need(b, 10 + h.optLen, ok)))
          [] h.type = "update" -> BgpUpdate(h, body, ok)
          [] OTHER -> ok)))

BgpDecl == [Declares EXCEPT !.claims = <<TcpPort(179)>>, !.identity = {BgpIdentity}]
=============================================================================
