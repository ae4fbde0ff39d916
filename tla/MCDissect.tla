----------------------------- MODULE MCDissect -----------------------------
(***************************************************************************)
(* Dissect with the default plugins and a third-party one, "fake", that    *)
(* keeps no contract. For every plugin the headers it may find in n bytes: *)
(* its length fields reach exactly to the end, one short of it and one     *)
(* past it, and every other field takes the values its parse tells apart.  *)
(***************************************************************************)
EXTENDS Suite

\* Lengths around n that a 16-bit field can hold.
Near(n) == IF n < 0 THEN {0} ELSE {n - 1, n, n + 1} \cap 0..4097
Around(n, part) == Near(n - part)

RoutesIn(space) ==
  {id[2] : id \in {i \in UNION {ToSet(DefaultDecl[p].claims) : p \in ToSet(DefaultPlugins)} :
                     i[1] = space}}

----------------------------------------------------------------------------
(* Headers of the network and transport layers                             *)

Ipv4Header(n, version, ihl, frag, protocol) ==
  [len : {n}, version : version, ihl : ihl, frag : frag, protocol : protocol,
   totalLen : {n}, checksumOk : {TRUE}]
Ipv6Header(n, version, exts, frag, protocol) ==
  [len : {n}, version : version, exts : exts, frag : frag, protocol : protocol, payloadLen : {0}]
TcpHeader(n, offset, src, dst) ==
  [len : {n}, offset : offset, src : src, dst : dst, saneFlags : {TRUE}]

NetworkHeaders(p, n) ==
  CASE p = "ethernet" -> [len : {n}, dst : {"host"}, ethertype : RoutesIn("ethertype") \cup {4096}]
                           \cup [len : {n}, dst : {"host", "bridge"}, ethertype : {1535, 34887}]
    [] p = "vlan" -> [len : {n}, ethertype : {2048, 33024, 4096}]
    [] p = "arp" -> [len : {n}, hlen : {0, 6}, plen : {0, 4}]
    [] p = "ipv4" -> Ipv4Header(n, {4}, {5}, {0}, RoutesIn("ip_protocol") \cup {200})
                       \cup Ipv4Header(n, {4, 6}, {4, 6}, {0, 1}, {17})
    [] p = "ipv6" -> Ipv6Header(n, {6}, {<<>>}, {0}, RoutesIn("ip_protocol"))
                       \cup Ipv6Header(n, {4, 6}, {<<8>>, [i \in 1..9 |-> 8]}, {0, 1}, {6})
    [] p = "udp" -> [len : {n}, src : {9}, dst : RoutesIn("udp_port") \cup {9, 5004, 5005}]
                      \cup [len : {n}, src : {53, 67}, dst : {9, 68, 5353}]
    [] p = "tcp" -> TcpHeader(n, {5}, {9}, RoutesIn("tcp_port") \cup {9})
                      \cup TcpHeader(n, {4, 6}, {80}, {443})
    [] p = "sctp" -> [len : {n}, chunk : {3, 4, 20} \cup Around(n, 12), init : BOOLEAN]
    [] p = "icmpv6" -> [len : {n}, type : {1, 130, 132, 133, 134, 135, 137, 143}, rest : {0, 1}]
    [] p = "ndp" -> [len : {n}, opts : {<<>>, <<0>>, <<1>>, <<1, 2>>}]
    [] p = "mld" -> [len : {n}, sources : {0, 1}, aux : {0, 1}]
    [] p = "vrrp" -> [len : {n}, version : {1, 2, 3}, type : {1, 2}, count : {0, 1}]
    [] p = "hsrp" -> [len : {n}, version : {0, 1}]
    [] p = "ospf" -> [len : {n}, version : {1, 2, 3}, type : {1, 2, 4, 5},
                      packetLen : {3, 48} \cup Near(n), lsas : {<<20>>, <<20, 19>>}]
    [] p = "bfd" -> [len : {n}, version : {0, 1}, mult : {0, 1}, auth : BOOLEAN,
                     length : {24, 26} \cup Near(n), mine : {0, 1}]
    [] p = "template" -> [len : {n}, type : {1, 2}, length : {n}]
    [] OTHER -> [len : {n}]

----------------------------------------------------------------------------
(* Headers of the link layer and of tunnels                                *)

LinkHeaders(p, n) ==
  CASE p = "llc" -> [len : {n}, dsap : {66, 170, 224}, ssap : {66, 170}, unnumbered : BOOLEAN,
                     oui : {0, 12}, pid : {267, 2048, 8192}]
    [] p = "lldp" -> [len : {n}, chassis : {0, 7}, port : {0, 7}, ttl : {2, 3}, wrong : {0, 3},
                      rest : {<<>>, <<4>>} \cup {<<k>> : k \in Around(n, 24)}, ended : BOOLEAN]
    [] p = "cdp" -> [len : {n}, tlvs : {<<>>, <<3>>} \cup {<<k>> : k \in Around(n, 4)},
                     deviceId : BOOLEAN]
    [] p = "lacp" -> [len : {n}, badAt : {0, 2, 60}]
    [] p \in {"stp", "pvst_plus"} ->
         [len : {n}, protocolId : {0, 1}, tcn : BOOLEAN, version : {0, 2}, badTlv : BOOLEAN]
    [] p = "eapol" -> [len : {n}, body : {0, 95} \cup Around(n, 4), key : BOOLEAN]
    [] p = "radiotap" -> [len : {n}, itLen : {8} \cup Near(n), words : {0, 1, 8}, fields : {0, 4}]
    [] p = "dot11" -> [len : {n}, type : {"control", "management", "data", "extension"},
                       subtype : {"probe_request", "beacon", "other"}, addr2 : BOOLEAN,
                       element : {0, 4}, wds : {FALSE}, qos : BOOLEAN, sealed : BOOLEAN]
    [] p = "pppoe" -> [len : {n}, verType : {16, 17}, session : BOOLEAN,
                       length : {0, 4} \cup Around(n, 6), tags : {<<>>, <<4>>, <<3>>}]
    [] p = "ppp" -> [len : {n}, compressed : BOOLEAN, protocol : {33, 87, 49185}]
    [] p = "mpls" -> [len : {n}, stack : {1, 2, 17}, bottom : {0, 2, 100}]

TunnelHeaders(p, n) ==
  CASE p = "gre" -> [len : {n}, version : {0, 1}, c : BOOLEAN, k : BOOLEAN, s : {FALSE},
                     protocol : {2048, 35006, 4096}]
    [] p = "erspan" -> [len : {n}, version : {0, 1, 2}, optional : BOOLEAN, frameType : {0, 1}]
    [] p = "vxlan" -> [len : {n}, validVni : BOOLEAN]
    [] p = "geneve" -> [len : {n}, version : {0, 1}, optLen : {0, 2, 63}, protocol : {2048, 4096}]
    [] p = "ah" -> [len : {n}, payloadLen : {0, 1, 4, 255}, next : {6, 200}]
    [] p = "gtp_u" -> [len : {n}, version : {1, 2}, pt : BOOLEAN, flags : BOOLEAN, gpdu : BOOLEAN,
                       exts : {<<>>, <<1>>, <<1, 0>>, <<255>>}]
    [] p = "gtp_c" -> [len : {n}, version : {0, 1, 2}, pt : BOOLEAN, optional : BOOLEAN,
                       length : {0} \cup Around(n, 8) \cup Around(n, 4)]
    [] p = "wireguard" -> [len : {n}, reserved : {0, 1}, type : {0, 1, 4}]
    [] p = "l2tpv3" -> [len : {n}, version : {2, 3}, control : BOOLEAN]
    [] p = "quic" -> [len : {n}, long : BOOLEAN, fixedBit : {TRUE}, known : {TRUE},
                      dcid : {0} \cup Around(n, 7), scid : {0}]

----------------------------------------------------------------------------
(* Headers of the services and of control networks                         *)

Tlv(n) == [width : {1}, bad : BOOLEAN, n : n, tag : BOOLEAN]
GoodTlv(n) == [width : {1}, bad : {FALSE}, n : n, tag : {TRUE}]

ServiceHeaders(p, n) ==
  CASE p \in {"dns", "mdns", "llmnr"} ->
         [len : {n}, counts : {1, 129}, msgLen : {11} \cup Around(n, 2),
          records : {<<>>, <<[name |-> 0, rest |-> 4]>>, <<[name |-> 2, rest |-> 4]>>}
                      \cup {<<[name |-> 5, rest |-> k]>> : k \in Around(n, 17)}]
    [] p = "netbios_ns" -> [len : {n}, named : BOOLEAN, label : {31, 32}, badAlphabet : BOOLEAN,
                            scoped : BOOLEAN]
    [] p = "dhcp" -> [len : {n}, cookie : BOOLEAN, ended : BOOLEAN,
                      opts : {<<>>, <<1, 3>>} \cup {<<k>> : k \in Around(n, 241)}]
    [] p = "dhcpv6" -> [len : {n}, relay : BOOLEAN, ia : {"none", "short", "cut"}, iaEnd : {0, 8},
                        opts : {<<>>, <<3>>, <<4>>} \cup {<<k>> : k \in Around(n, 4)}]
    [] p = "ntp" -> [len : {n}, mode : {0, 3}]
    [] p = "ptp" -> [len : {n}, definedType : BOOLEAN, version : {1, 2}, length : {33, 34} \cup Near(n)]
    [] p = "syslog" -> [len : {n}, badPri : BOOLEAN, pri : {4}, versioned : BOOLEAN,
                        badFields : BOOLEAN, head : {19} \cup Near(n), space : BOOLEAN]
    [] p = "radius" -> [len : {n}, length : {19, 20, 4097} \cup Near(n), attrs : {<<>>, <<1>>, <<3>>}]
    [] p = "snmp" -> [len : {n}, msg : Tlv(Around(n, 2)), version : GoodTlv({1}), badInt : BOOLEAN,
                      community : BOOLEAN, name : GoodTlv({0, 6}), pdu : Tlv({0} \cup Around(n, 15))]
    [] p = "kerberos" -> [len : {n}, msg : Tlv(Around(n, 2))]
    [] p = "ldap" -> [len : {n}, msg : GoodTlv(Around(n, 2)), id : Tlv({1}), badInt : BOOLEAN,
                      op : Tlv({0} \cup Around(n, 7))]
    [] OTHER -> [len : {n}]

IndustrialHeaders(p, n) ==
  CASE p = "rocev2" -> [len : {n}, tver : {0, 1}]
    [] p = "modbus" -> [len : {n}, protocolId : {0, 1}, length : {1, 2, 3} \cup Around(n, 6),
                        exception : BOOLEAN]
    [] p = "mqtt" -> [len : {n}, type : {0, 3}, width : {1, 2, 5}, remaining : Around(n, 2),
                      publish : BOOLEAN, qos : {0, 3}]
    [] p = "dnp3" -> [len : {n}, sync : BOOLEAN, length : {4, 5, 8}]
    [] p = "enip" -> [len : {n}, options : {0, 1}, length : {0} \cup Around(n, 24)]
    [] p = "bacnet_ip" -> [len : {n}, bvlc : BOOLEAN, known : {TRUE}, declared : {3, 4} \cup Near(n),
                           npdu : BOOLEAN, forwarded : BOOLEAN, version : {1, 2}, rest : {0, 2}]

----------------------------------------------------------------------------
(* Headers of the applications                                             *)

TextHeaders(p, n) ==
  CASE p \in {"ssdp", "sip"} -> [len : {n}, head : {0} \cup Near(n), start : BOOLEAN, callId : BOOLEAN]
    [] p = "http" -> [len : {n}, preface : {FALSE}, head : {0} \cup Near(n), start : BOOLEAN]
                       \cup [len : {n}, preface : {TRUE}, head : {18}, start : {FALSE}]
    [] p = "http2" -> [len : {n}, knownType : BOOLEAN, length : {0} \cup Around(n, 9)]
    [] p = "websocket" -> [len : {n}, len7 : {5, 126, 127}, mask : BOOLEAN, rsv : {0}, opcode : {1},
                           fin : {TRUE}, payload : {5}]
    [] p \in {"ftp", "smtp", "imap", "pop3"} ->
         [len : {n}, line : {0} \cup Near(n), reply : BOOLEAN, command : BOOLEAN,
          tagged : BOOLEAN, untagged : {FALSE}]
    [] p = "redis" -> [len : {n}, type : {"bulk_string", "array", "line", "other"},
                       line : {0, 3} \cup Around(n, 1), number : BOOLEAN, crlf : BOOLEAN,
                       bulk : {-1, 0} \cup Around(n, 6), element : {0} \cup Around(n, 4)]

Sets(n, head) == {<<>>, <<[size |-> 3, cut |-> FALSE]>>}
                   \cup {<<[size |-> k, cut |-> c]>> : k \in Around(n, head), c \in BOOLEAN}

AppHeaders(p, n) ==
  CASE p = "tls" -> [len : {n}, contentType : BOOLEAN, version : BOOLEAN, length : {0} \cup Around(n, 5)]
    [] p = "ssh" -> [len : {n}, banner : BOOLEAN, line : {0} \cup Near(n), kexinit : BOOLEAN,
                     packetLen : {1, 2} \cup Around(n, 4), padding : {0, 1}]
    [] p = "stun" -> [len : {n}, topBits : {0, 1}, length : {0, 3} \cup Around(n, 20), cookie : BOOLEAN]
    [] p = "tftp" -> [len : {n}, opcode : {1, 3, 5, 6}, first : {0, 2} \cup Around(n, 4), second : {0, 2}]
    [] p = "smb2" -> [len : {n}, type : {0, 129}, length : {3, 64} \cup Around(n, 4), magic : BOOLEAN,
                      structureSize : {63, 64}]
    [] p = "nfs" -> [len : {n}, type : {"call", "reply", "other"}, bad : BOOLEAN]
    [] p = "rtp" -> [len : {n}, version : {1, 2}, cc : {0, 15}, extension : BOOLEAN, words : {0, 2}]
    [] p = "rtcp" -> [len : {n}, version : {1, 2}, words : {0, 1, 14}, knownType : BOOLEAN]
    [] p = "amqp" -> [len : {n}, knownType : BOOLEAN, size : {0} \cup Around(n, 8), frameEnd : BOOLEAN]
    [] p = "netflow9" -> [len : {n}, version : {9, 10}, sets : Sets(n, 20)]
    [] p = "ipfix" -> [len : {n}, version : {9, 10}, length : {15, 16} \cup Near(n), sets : Sets(n, 16)]
    [] p = "bgp" -> [len : {n}, length : {18, 19, 29} \cup Near(n), type : {"open", "other"},
                     version : {3, 4}, optLen : {0, 2}, withdrawnLen : {0}, withdrawn : {<<>>},
                     attrLen : {0}, attrs : {<<>>}, prefixes : {<<>>}]
                    \cup [len : {n}, length : {n}, type : {"update"}, version : {4}, optLen : {0},
                     withdrawnLen : {0, 2}, withdrawn : {<<>>, <<1>>, <<5>>},
                     attrLen : {0, 3} \cup Around(n, 23), attrs : {<<>>, <<3>>},
                     prefixes : {<<>>, <<0>>}]

----------------------------------------------------------------------------
(* The plugin that keeps no contract: what it returns is in its header. It *)
(* takes nothing, everything or more than there is, and says anything of   *)
(* what follows. "rival" claims a route that dns claims, "hollow" declares *)
(* to condense without a stream.                                           *)

FakeHints == {Route(Custom("nobody", 1)), Route(TcpPort(443)), Candidates(<<>>),
              Candidates(<<UdpPort(9), TcpPort(443), UdpPort(443)>>),
              ByProtocol("nobody"), ByProtocol("fake"), UnknownNext, Terminal}

FakeHeaders(n) ==
  [result : {Layer(k, [app |-> 0], hint) : k \in {0, n, n + 1}, hint \in FakeHints}
              \cup {Truncated, Malformed},
   score : {NoScore}]

MCDecl(p) ==
  CASE p = "fake" -> [Declares EXCEPT !.claims = <<LinkType(147)>>, !.probes = TRUE,
                        !.preds = {"fake"}, !.identity = {Identity(<<Shared("app")>>, {})}]
    [] p = "rival" -> [Declares EXCEPT !.claims = <<UdpPort(53)>>]
    [] p = "hollow" -> [Declares EXCEPT !.condense = {Pair("a", "b")}]
    [] OTHER -> DefaultDecl[p]

MCParse(p, h, ctx) ==
  CASE p = "fake" -> h.result [] p = "rival" -> Malformed [] OTHER -> DefaultParse(p, h, ctx)

MCProbe(p, h, ctx) == IF p = "fake" THEN h.score ELSE DefaultProbe(p, h, ctx)

----------------------------------------------------------------------------
(* Readings                                                                *)

Headers(p, n) ==
  CASE p = "fake" -> FakeHeaders(n)
    [] p \in LinkFamily -> LinkHeaders(p, n)
    [] p \in TunnelFamily -> TunnelHeaders(p, n)
    [] p \in ServiceFamily -> ServiceHeaders(p, n)
    [] p \in IndustrialFamily -> IndustrialHeaders(p, n)
    [] p \in TextFamily -> TextHeaders(p, n)
    [] p \in AppFamily -> AppHeaders(p, n)
    [] OTHER -> NetworkHeaders(p, n)

\* Bytes that a plugin of the pool scores: at some it then fails to parse.
Matching(p, n) ==
  CASE p = "template" -> [len : {n}, type : {2}, length : {n}]
    [] p = "ipv4" -> Ipv4Header(n, {4}, {5}, {0}, {200})
    [] p = "ipv6" -> Ipv6Header(n, {6}, {<<>>, [i \in 1..9 |-> 8]}, {0}, {200})
    [] p = "tcp" -> TcpHeader(n, {5}, {9}, {9})
    [] p = "quic" -> [len : {n}, long : {TRUE}, fixedBit : {TRUE}, known : {TRUE}, dcid : {0, n},
                      scid : {0}]
    [] p = "wireguard" -> [len : {n}, reserved : {0}, type : {4}]
    [] p = "llc" -> [len : {n}, dsap : {224}, ssap : {224}, unnumbered : {TRUE}, oui : {0}, pid : {0}]
    [] p = "dnp3" -> [len : {n}, sync : {TRUE}, length : {5}]
    [] p = "bacnet_ip" -> [len : {n}, bvlc : {TRUE}, known : {TRUE}, declared : {n, n + 1},
                           npdu : {FALSE}, forwarded : {FALSE}, version : {1}, rest : {0}]
    [] p = "tls" -> [len : {n}, contentType : {TRUE}, version : {TRUE}, length : Around(n, 5)]
    [] p = "websocket" -> [len : {n}, len7 : {5}, mask : {TRUE}, rsv : {0}, opcode : {1},
                           fin : {TRUE}, payload : {0}]
    [] p = "stun" -> [len : {n}, topBits : {0}, length : {0, 3}, cookie : {TRUE}]
    [] p = "fake" -> [result : {Layer(n, [app |-> 0], Terminal), Layer(n + 1, NoFields, Terminal)},
                      score : {40, 90}]

\* Bytes that mean nothing to it.
Noise(p, n) ==
  CASE p = "template" -> [len |-> n, type |-> 2, length |-> 0]
    [] p = "ipv4" -> [len |-> n, version |-> 0, ihl |-> 0, frag |-> 0, protocol |-> 0,
                      totalLen |-> 0, checksumOk |-> FALSE]
    [] p = "ipv6" -> [len |-> n, version |-> 0, exts |-> <<>>, frag |-> 0, protocol |-> 0,
                      payloadLen |-> 0]
    [] p = "tcp" -> [len |-> n, offset |-> 0, src |-> 0, dst |-> 0, saneFlags |-> FALSE]
    [] p = "quic" -> [len |-> n, long |-> FALSE, fixedBit |-> FALSE, known |-> FALSE, dcid |-> 0,
                      scid |-> 0]
    [] p = "wireguard" -> [len |-> n, reserved |-> 1, type |-> 0]
    [] p = "llc" -> [len |-> n, dsap |-> 1, ssap |-> 1, unnumbered |-> TRUE, oui |-> 0, pid |-> 0]
    [] p = "dnp3" -> [len |-> n, sync |-> FALSE, length |-> 0]
    [] p = "bacnet_ip" -> [len |-> n, bvlc |-> FALSE, known |-> FALSE, declared |-> 0,
                           npdu |-> FALSE, forwarded |-> FALSE, version |-> 0, rest |-> 0]
    [] p = "tls" -> [len |-> n, contentType |-> FALSE, version |-> FALSE, length |-> 0]
    [] p = "websocket" -> [len |-> n, len7 |-> 5, mask |-> FALSE, rsv |-> 1, opcode |-> 0,
                           fin |-> TRUE, payload |-> 0]
    [] p = "stun" -> [len |-> n, topBits |-> 1, length |-> 0, cookie |-> FALSE]
    [] p = "fake" -> [result |-> Malformed, score |-> NoScore]

Pool == {p \in {"fake"} \cup ToSet(DefaultPlugins) : MCDecl(p).probes}

\* Every header is one that DefaultHeader allows.
ASSUME HeadersTyped ==
  \A n \in {1, 40, 300} : \A p \in Shipped :
    Headers(p, n) \cup (IF p \in Pool THEN Matching(p, n) \cup {Noise(p, n)} ELSE {})
      \subseteq DefaultHeader(p, n)

\* Two plugins, or one, that find each one of their headers in the bytes.
One(a, H(_)) == {[p \in {a} |-> x] : x \in H(a)}
Two(a, b, H(_)) == {[p \in {a, b} |-> IF p = a THEN x ELSE y] : x \in H(a), y \in H(b)}
Pairs(ps, H(_)) ==
  UNION {IF a = b THEN One(a, H) ELSE Two(a, b, H) : a \in ps, b \in ps}

\* A step offers the bytes to one or two plugins, or to the fallback pool,
\* where at most two plugins recognise them.
MCReadings(ps, n) ==
  IF ps = {} \/ n = 0 THEN {NoReading}
  ELSE IF Cardinality(ps) <= 2
       THEN {r \in Pairs(ps, LAMBDA p : Headers(p, n)) : DOMAIN r = ps}
  ELSE {[p \in ps |-> IF p \in DOMAIN m THEN m[p]
                      ELSE IF p \in Pool THEN Noise(p, n)
                      ELSE CHOOSE h \in Headers(p, n) : TRUE] :
          m \in {NoReading} \cup Pairs(ps \cap Pool, LAMBDA p : Matching(p, n))}

----------------------------------------------------------------------------
(* Builders and options                                                    *)

Builder(plugins, overrides, unroutes) ==
  [plugins |-> plugins, overrides |-> overrides, unroutes |-> unroutes]

Media == <<<<UdpPort(5004), "rtp">>, <<UdpPort(5005), "rtcp">>>>

MCBuilders == [
  default |-> Builder(DefaultPlugins, <<>>, <<>>),
  extended |-> Builder(Append(DefaultPlugins, "fake"), Media, <<UdpPort(53)>>),
  settled |-> Builder(DefaultPlugins \o <<"fake", "rival">>, <<<<UdpPort(53), "rival">>>>, <<UdpPort(53)>>),
  clash |-> Builder(Append(DefaultPlugins, "rival"), <<>>, <<>>),
  dangling |-> Builder(DefaultPlugins, <<<<UdpPort(53), "rival">>>>, <<>>),
  twice |-> Builder(Append(DefaultPlugins, "dns"), <<>>, <<>>),
  invalid |-> Builder(Append(DefaultPlugins, "hollow"), <<>>, <<>>)]

OptSet(depths, aggregation, maxLayers, entries, heuristics, diagnose, links, caplens) ==
  [depth : depths, aggregation : aggregation, maxLayers : maxLayers, entry : entries,
   heuristics : heuristics, diagnose : diagnose, link : links, caplen : caplens]

\* From the link layer up three layers, with and without the keys; from an enclosing layer down to
\* every plugin it routes to; and the pool, at the entry and behind a layer.
Frames == OptSet({DepthNone, DepthFull}, {TRUE}, {3}, {""}, {FALSE}, {FALSE}, {1, 105, 127, 200},
                 {0, 13, 60, 130})
Carriers == OptSet({DepthNone, DepthStructural}, BOOLEAN, {2, 3}, {"tcp", "udp", "ipv6", "llc"}, {FALSE}, {FALSE}, {1},
                 {7, 28, 62, 120, 300})
Unkeyed == OptSet({DepthNone}, {FALSE}, {3}, {""}, {FALSE}, {FALSE}, {1}, {60})
Guesses == OptSet({DepthFull}, {TRUE}, {0, 2}, {""}, {TRUE}, BOOLEAN, {147, 200}, {7, 40})
Reports == OptSet({DepthFull}, {TRUE}, {2}, {"mpls", "gtp_u", "fake", "nobody"}, {FALSE}, {TRUE}, {1}, {30, 300})

MCOpts == Frames \cup Unkeyed \cup Carriers \cup Guesses \cup Reports
=============================================================================
