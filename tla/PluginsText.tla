---------------------------- MODULE PluginsText ----------------------------
(***************************************************************************)
(* The plugins of protocols made of lines, and the framings that share     *)
(* their connections (http2, websocket). A line or a block of headers is   *)
(* as many bytes as it takes up to and with its terminator (0 when the     *)
(* terminator is not there), and whether it reads as the protocol's.       *)
(***************************************************************************)
EXTENDS Wire

\* The end of a line or of a header block has not arrived, or it has.
UpTo(h, end, then) == IF end = 0 \/ end > h.len THEN Truncated ELSE then

----------------------------------------------------------------------------
(* ssdp, http, sip: a start line and headers up to an empty line           *)

SsdpIdentity == Identity(<<Shared("app")>>, {Accumulate("nts"), Sample("location")})

Ssdp(h, ctx) ==
  UpTo(h, h.head, Refuse(~h.start, Layer(h.head, AtKeys(ctx, {"app"}), Terminal)))

SsdpDecl == [Declares EXCEPT !.claims = <<UdpPort(1900)>>, !.identity = {SsdpIdentity}]

HttpIdentity == Identity(<<Shared("app")>>,
                         {Accumulate("method"), Accumulate("status_code"), Sample("host")})

PrefaceLen == 24

\* The connection preface of HTTP/2 names what follows it.
Http(h, ctx) ==
  IF h.preface /\ h.len >= PrefaceLen
  THEN Layer(PrefaceLen, AtKeys(ctx, {"app"}), ByProtocol("http2"))
  ELSE UpTo(h, h.head, Refuse(~h.start, Layer(h.head, AtKeys(ctx, {"app"}), Terminal)))

HttpDecl == [Declares EXCEPT !.claims = <<TcpPort(80)>>, !.identity = {HttpIdentity}]

SipIdentity == Identity(<<Shared("call_id")>>, {Accumulate("method"), Series("status_code", 64)})

\* The header that keys the stream must be there.
Sip(h, ctx) ==
  UpTo(h, h.head, Refuse(~h.start \/ ~h.callId,
    Layer(h.head, AtKeys(ctx, {"call_id"}), Terminal)))

SipDecl == [Declares EXCEPT !.claims = <<UdpPort(5060), TcpPort(5060)>>,
                            !.identity = {SipIdentity}]

----------------------------------------------------------------------------
(* http2, websocket: frames                                                *)

Http2Identity == Identity(<<Shared("stream_id")>>, {Accumulate("frame_type")})

Http2(h, ctx) ==
  Need(h, 4, Refuse(~h.knownType, Need(h, 9 + h.length,
    Layer(9 + h.length, AtKeys(ctx, {"stream_id"}), Terminal))))

\* Reached by name only, from http.
Http2Decl == [Declares EXCEPT !.identity = {Http2Identity}]

WebSocketIdentity == Identity(<<Shared("app")>>, {Accumulate("opcode")})

\* The length byte is followed by two or eight bytes of a longer length, and
\* by four of a mask.
ReadFrameHeader(h) ==
  2 + (CASE h.len7 = 126 -> 2 [] h.len7 = 127 -> 8 [] OTHER -> 0) + (IF h.mask THEN 4 ELSE 0)

WebSocket(h, ctx) ==
  Need(h, ReadFrameHeader(h), Layer(ReadFrameHeader(h), AtKeys(ctx, {"app"}), Terminal))

WebSocketProbe(h) ==
  Score(/\ h.len >= ReadFrameHeader(h)
        /\ h.rsv = 0 /\ h.opcode \in {1, 2, 8, 9, 10}
        /\ h.opcode \in {8, 9, 10} => h.fin /\ h.payload <= 125
        /\ h.payload <= h.len - ReadFrameHeader(h), 50)

WebSocketDecl == [Declares EXCEPT !.probes = TRUE, !.identity = {WebSocketIdentity}]

----------------------------------------------------------------------------
(* ftp, smtp, imap, pop3: one line                                         *)

FtpIdentity == Identity(<<Shared("app")>>, {Accumulate("command"), Accumulate("reply_code")})

\* reply: three digits and a separator; command: one of the known verbs.
Ftp(h, ctx) ==
  UpTo(h, h.line, Refuse(~h.reply /\ ~h.command,
    Layer(h.line, AtKeys(ctx, {"app"}), Terminal)))

FtpDecl == [Declares EXCEPT !.claims = <<TcpPort(21)>>, !.identity = {FtpIdentity}]

SmtpIdentity == Identity(<<Shared("app")>>, {Accumulate("command"), Accumulate("reply_code")})

Smtp(h, ctx) ==
  UpTo(h, h.line, Refuse(~h.reply /\ ~h.command,
    Layer(h.line, AtKeys(ctx, {"app"}), Terminal)))

SmtpDecl == [Declares EXCEPT !.claims = <<TcpPort(25)>>, !.identity = {SmtpIdentity}]

ImapIdentity == Identity(<<Shared("app")>>, {Accumulate("command")})

\* tagged: a tag and a second token. The token is a status or, behind a tag
\* of the client's, a known command; an untagged line may say anything.
Imap(h, ctx) ==
  UpTo(h, h.line, Refuse(~h.tagged \/ (~h.reply /\ ~h.untagged /\ ~h.command),
    Layer(h.line, AtKeys(ctx, {"app"}), Terminal)))

ImapDecl == [Declares EXCEPT !.claims = <<TcpPort(143)>>, !.identity = {ImapIdentity}]

Pop3Identity == Identity(<<Shared("app")>>, {Accumulate("command")})

Pop3(h, ctx) ==
  UpTo(h, h.line, Refuse(~h.reply /\ ~h.command,
    Layer(h.line, AtKeys(ctx, {"app"}), Terminal)))

Pop3Decl == [Declares EXCEPT !.claims = <<TcpPort(110)>>, !.identity = {Pop3Identity}]

----------------------------------------------------------------------------
(* redis                                                                   *)

RedisIdentity == Identity(<<Shared("app")>>, {Accumulate("command")})

\* A bulk string: its length line, its content and two bytes of terminator.
\* bulk is the content's length, negative for the null string.
ParseBulkString(h, ctx) ==
  LET end == IF h.bulk < 0 THEN 1 + h.line ELSE 1 + h.line + h.bulk + 2
  IN  UpTo(h, IF h.line = 0 THEN 0 ELSE 1 + h.line, Refuse(~h.number,
        Need(h, end, Refuse(h.bulk >= 0 /\ ~h.crlf,
          Layer(end, AtKeys(ctx, {"app"}), Terminal)))))

\* element is the first element of an array, taken only if it is a whole
\* bulk string of text (0 otherwise).
Redis(h, ctx) ==
  LET ok(end) == Layer(end, AtKeys(ctx, {"app"}), Terminal)
      line == IF h.line = 0 THEN 0 ELSE 1 + h.line
      element == IF line + h.element <= h.len THEN h.element ELSE 0
  IN  Need(h, 1, CASE h.type = "bulk_string" -> ParseBulkString(h, ctx)
                   [] h.type = "array" -> UpTo(h, line, Refuse(~h.number, ok(line + element)))
                   [] h.type = "line" -> UpTo(h, line, ok(line))
                   [] OTHER -> Malformed)

RedisDecl == [Declares EXCEPT !.claims = <<TcpPort(6379)>>, !.identity = {RedisIdentity}]
=============================================================================
