------------------------------ MODULE Headers ------------------------------
(***************************************************************************)
(* What the plugins that ship may find in n bytes: for each the fields of  *)
(* its header (see Wire), with any value. A length, a count or a number is *)
(* any natural number, so nothing here keeps a length field inside the     *)
(* bytes on offer.                                                         *)
(***************************************************************************)
EXTENDS Integers, Sequences

NetworkHeader(p, n) ==
  CASE p = "ethernet" -> [len : {n}, dst : STRING, ethertype : Nat]
    [] p = "vlan" -> [len : {n}, ethertype : Nat]
    [] p = "arp" -> [len : {n}, hlen : Nat, plen : Nat]
    [] p = "ipv4" -> [len : {n}, version : Nat, ihl : Nat, frag : Nat, protocol : Nat,
                      totalLen : Nat, checksumOk : BOOLEAN]
    [] p = "ipv6" -> [len : {n}, version : Nat, exts : Seq(Nat), frag : Nat, protocol : Nat,
                      payloadLen : Nat]
    [] p = "udp" -> [len : {n}, src : Nat, dst : Nat]
    [] p = "tcp" -> [len : {n}, offset : Nat, src : Nat, dst : Nat, saneFlags : BOOLEAN]
    [] p = "sctp" -> [len : {n}, chunk : Nat, init : BOOLEAN]
    [] p = "icmpv6" -> [len : {n}, type : Nat, rest : Nat]
    [] p = "ndp" -> [len : {n}, opts : Seq(Nat)]
    [] p = "mld" -> [len : {n}, sources : Nat, aux : Nat]
    [] p = "vrrp" -> [len : {n}, version : Nat, type : Nat, count : Nat]
    [] p = "hsrp" -> [len : {n}, version : Nat]
    [] p = "ospf" -> [len : {n}, version : Nat, type : Nat, packetLen : Nat, lsas : Seq(Nat)]
    [] p = "bfd" -> [len : {n}, version : Nat, mult : Nat, auth : BOOLEAN, length : Nat, mine : Nat]
    [] p = "template" -> [len : {n}, type : Nat, length : Nat]
    [] OTHER -> [len : {n}]

LinkHeader(p, n) ==
  CASE p = "llc" -> [len : {n}, dsap : Nat, ssap : Nat, unnumbered : BOOLEAN, oui : Nat, pid : Nat]
    [] p = "lldp" -> [len : {n}, chassis : Nat, port : Nat, ttl : Nat, wrong : Nat,
                      rest : Seq(Nat), ended : BOOLEAN]
    [] p = "cdp" -> [len : {n}, tlvs : Seq(Nat), deviceId : BOOLEAN]
    [] p = "lacp" -> [len : {n}, badAt : Nat]
    [] p \in {"stp", "pvst_plus"} ->
         [len : {n}, protocolId : Nat, tcn : BOOLEAN, version : Nat, badTlv : BOOLEAN]
    [] p = "eapol" -> [len : {n}, body : Nat, key : BOOLEAN]
    [] p = "radiotap" -> [len : {n}, itLen : Nat, words : Nat, fields : Nat]
    [] p = "dot11" -> [len : {n}, type : STRING, subtype : STRING, addr2 : BOOLEAN, element : Nat,
                       wds : BOOLEAN, qos : BOOLEAN, sealed : BOOLEAN]
    [] p = "pppoe" -> [len : {n}, verType : Nat, session : BOOLEAN, length : Nat, tags : Seq(Nat)]
    [] p = "ppp" -> [len : {n}, compressed : BOOLEAN, protocol : Nat]
    [] p = "mpls" -> [len : {n}, stack : Nat, bottom : Nat]

TunnelHeader(p, n) ==
  CASE p = "gre" -> [len : {n}, version : Nat, c : BOOLEAN, k : BOOLEAN, s : BOOLEAN, protocol : Nat]
    [] p = "erspan" -> [len : {n}, version : Nat, optional : BOOLEAN, frameType : Nat]
    [] p = "vxlan" -> [len : {n}, validVni : BOOLEAN]
    [] p = "geneve" -> [len : {n}, version : Nat, optLen : Nat, protocol : Nat]
    [] p = "ah" -> [len : {n}, payloadLen : Nat, next : Nat]
    [] p = "gtp_u" -> [len : {n}, version : Nat, pt : BOOLEAN, flags : BOOLEAN, gpdu : BOOLEAN,
                       exts : Seq(Nat)]
    [] p = "gtp_c" -> [len : {n}, version : Nat, pt : BOOLEAN, optional : BOOLEAN, length : Nat]
    [] p = "wireguard" -> [len : {n}, reserved : Nat, type : Nat]
    [] p = "l2tpv3" -> [len : {n}, version : Nat, control : BOOLEAN]
    [] p = "quic" -> [len : {n}, long : BOOLEAN, fixedBit : BOOLEAN, known : BOOLEAN, dcid : Nat,
                      scid : Nat]

\* One element of a tag, length and value encoding; one entry of a message;
\* one flow set.
TlvHeader == [width : Nat, bad : BOOLEAN, n : Nat, tag : BOOLEAN]
EntryHeader == [name : Nat, rest : Nat]
SetHeader == [size : Nat, cut : BOOLEAN]

ServiceHeader(p, n) ==
  CASE p \in {"dns", "mdns", "llmnr"} ->
         [len : {n}, counts : Nat, msgLen : Nat, records : Seq(EntryHeader)]
    [] p = "netbios_ns" -> [len : {n}, named : BOOLEAN, label : Nat, badAlphabet : BOOLEAN,
                            scoped : BOOLEAN]
    [] p = "dhcp" -> [len : {n}, cookie : BOOLEAN, ended : BOOLEAN, opts : Seq(Nat)]
    [] p = "dhcpv6" -> [len : {n}, relay : BOOLEAN, ia : STRING, iaEnd : Nat, opts : Seq(Nat)]
    [] p = "ntp" -> [len : {n}, mode : Nat]
    [] p = "ptp" -> [len : {n}, definedType : BOOLEAN, version : Nat, length : Nat]
    [] p = "syslog" -> [len : {n}, badPri : BOOLEAN, pri : Nat, versioned : BOOLEAN,
                        badFields : BOOLEAN, head : Nat, space : BOOLEAN]
    [] p = "radius" -> [len : {n}, length : Nat, attrs : Seq(Nat)]
    [] p = "snmp" -> [len : {n}, msg : TlvHeader, version : TlvHeader, badInt : BOOLEAN,
                      community : BOOLEAN, name : TlvHeader, pdu : TlvHeader]
    [] p = "kerberos" -> [len : {n}, msg : TlvHeader]
    [] p = "ldap" -> [len : {n}, msg : TlvHeader, id : TlvHeader, badInt : BOOLEAN, op : TlvHeader]

IndustrialHeader(p, n) ==
  CASE p = "rocev2" -> [len : {n}, tver : Nat]
    [] p = "modbus" -> [len : {n}, protocolId : Nat, length : Nat, exception : BOOLEAN]
    [] p = "mqtt" -> [len : {n}, type : Nat, width : Nat, remaining : Nat, publish : BOOLEAN, qos : Nat]
    [] p = "dnp3" -> [len : {n}, sync : BOOLEAN, length : Nat]
    [] p = "enip" -> [len : {n}, options : Nat, length : Nat]
    [] p = "bacnet_ip" -> [len : {n}, bvlc : BOOLEAN, known : BOOLEAN, declared : Nat,
                           npdu : BOOLEAN, forwarded : BOOLEAN, version : Nat, rest : Nat]

TextHeader(p, n) ==
  CASE p \in {"ssdp", "sip"} -> [len : {n}, head : Nat, start : BOOLEAN, callId : BOOLEAN]
    [] p = "http" -> [len : {n}, preface : BOOLEAN, head : Nat, start : BOOLEAN]
    [] p = "http2" -> [len : {n}, knownType : BOOLEAN, length : Nat]
    [] p = "websocket" -> [len : {n}, len7 : Nat, mask : BOOLEAN, rsv : Nat, opcode : Nat,
                           fin : BOOLEAN, payload : Nat]
    [] p \in {"ftp", "smtp", "imap", "pop3"} ->
         [len : {n}, line : Nat, reply : BOOLEAN, command : BOOLEAN, tagged : BOOLEAN,
          untagged : BOOLEAN]
    [] p = "redis" -> [len : {n}, type : STRING, line : Nat, number : BOOLEAN, crlf : BOOLEAN,
                       bulk : Int, element : Nat]

AppHeader(p, n) ==
  CASE p = "tls" -> [len : {n}, contentType : BOOLEAN, version : BOOLEAN, length : Nat]
    [] p = "ssh" -> [len : {n}, banner : BOOLEAN, line : Nat, kexinit : BOOLEAN, packetLen : Nat,
                     padding : Nat]
    [] p = "stun" -> [len : {n}, topBits : Nat, length : Nat, cookie : BOOLEAN]
    [] p = "tftp" -> [len : {n}, opcode : Nat, first : Nat, second : Nat]
    [] p = "smb2" -> [len : {n}, type : Nat, length : Nat, magic : BOOLEAN, structureSize : Nat]
    [] p = "nfs" -> [len : {n}, type : STRING, bad : BOOLEAN]
    [] p = "rtp" -> [len : {n}, version : Nat, cc : Nat, extension : BOOLEAN, words : Nat]
    [] p = "rtcp" -> [len : {n}, version : Nat, words : Nat, knownType : BOOLEAN]
    [] p = "amqp" -> [len : {n}, knownType : BOOLEAN, size : Nat, frameEnd : BOOLEAN]
    [] p = "netflow9" -> [len : {n}, version : Nat, sets : Seq(SetHeader)]
    [] p = "ipfix" -> [len : {n}, version : Nat, length : Nat, sets : Seq(SetHeader)]
    [] p = "bgp" -> [len : {n}, length : Nat, type : STRING, version : Nat, optLen : Nat,
                     withdrawnLen : Nat, withdrawn : Seq(Nat), attrLen : Nat, attrs : Seq(Nat),
                     prefixes : Seq(Nat)]

LinkFamily == {"llc", "lldp", "cdp", "lacp", "stp", "pvst_plus", "eapol", "radiotap", "dot11",
               "pppoe", "ppp", "mpls"}
TunnelFamily == {"gre", "erspan", "vxlan", "geneve", "ah", "gtp_u", "gtp_c", "wireguard", "l2tpv3",
                 "quic"}
ServiceFamily == {"dns", "mdns", "llmnr", "netbios_ns", "dhcp", "dhcpv6", "ntp", "ptp", "syslog",
                  "radius", "snmp", "kerberos", "ldap"}
IndustrialFamily == {"rocev2", "modbus", "mqtt", "dnp3", "enip", "bacnet_ip"}
TextFamily == {"ssdp", "http", "sip", "http2", "websocket", "ftp", "smtp", "imap", "pop3", "redis"}
AppFamily == {"tls", "ssh", "stun", "tftp", "smb2", "nfs", "rtp", "rtcp", "amqp", "netflow9",
              "ipfix", "bgp"}

DefaultHeader(p, n) ==
  CASE p \in LinkFamily -> LinkHeader(p, n)
    [] p \in TunnelFamily -> TunnelHeader(p, n)
    [] p \in ServiceFamily -> ServiceHeader(p, n)
    [] p \in IndustrialFamily -> IndustrialHeader(p, n)
    [] p \in TextFamily -> TextHeader(p, n)
    [] p \in AppFamily -> AppHeader(p, n)
    [] OTHER -> NetworkHeader(p, n)
=============================================================================
