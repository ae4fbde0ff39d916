----------------------------- MODULE Catalogue -----------------------------
(***************************************************************************)
(* The plugins that ship with pktflow (pktflow-plugins: lib.rs), in the    *)
(* order default_engine registers them, and the dispatch from a plugin's   *)
(* name to what it declares, parses and probes.                            *)
(***************************************************************************)
EXTENDS PluginsNetwork, PluginsLink, PluginsTunnel, PluginsServices, PluginsIndustrial,
        PluginsText, PluginsApps

DefaultPlugins == <<
  "template", "ethernet", "vlan", "ipv4", "ipv6", "arp", "cdp", "icmpv4", "icmpv6", "ndp",
  "mld", "igmp", "vrrp", "hsrp", "ospf", "bfd", "tcp", "udp", "sctp", "quic", "bgp",
  "gre", "erspan", "mpls", "vxlan", "gtp_u", "gtp_c", "geneve", "esp", "ah", "wireguard",
  "l2tpv3", "pppoe", "ppp", "dns", "mdns", "llmnr", "netbios_ns", "dhcp", "dhcpv6", "ntp",
  "ptp", "rocev2", "lldp", "llc", "lacp", "stp", "pvst_plus", "eapol", "radiotap",
  "dot11", "modbus", "mqtt", "dnp3", "enip", "bacnet_ip", "syslog", "snmp", "radius",
  "kerberos", "ldap", "ssdp", "http", "http2", "tls", "ssh", "websocket", "stun", "ftp",
  "tftp", "smtp", "imap", "pop3", "smb2", "nfs", "sip", "rtp", "rtcp", "amqp", "redis",
  "netflow9", "ipfix">>

DefaultDecl == [
  template |-> TemplateDecl, ethernet |-> EthernetDecl, vlan |-> VlanDecl, ipv4 |-> Ipv4Decl,
  ipv6 |-> Ipv6Decl, arp |-> ArpDecl, cdp |-> CdpDecl, icmpv4 |-> Icmpv4Decl,
  icmpv6 |-> Icmpv6Decl, ndp |-> NdpDecl, mld |-> MldDecl, igmp |-> IgmpDecl,
  vrrp |-> VrrpDecl, hsrp |-> HsrpDecl, ospf |-> OspfDecl, bfd |-> BfdDecl, tcp |-> TcpDecl,
  udp |-> UdpDecl, sctp |-> SctpDecl, quic |-> QuicDecl, bgp |-> BgpDecl, gre |-> GreDecl,
  erspan |-> ErspanDecl, mpls |-> MplsDecl, vxlan |-> VxlanDecl, gtp_u |-> GtpUDecl,
  gtp_c |-> GtpCDecl, geneve |-> GeneveDecl, esp |-> EspDecl, ah |-> AhDecl,
  wireguard |-> WireguardDecl, l2tpv3 |-> L2tpv3Decl, pppoe |-> PppoeDecl, ppp |-> PppDecl,
  dns |-> DnsDecl, mdns |-> MdnsDecl, llmnr |-> LlmnrDecl, netbios_ns |-> NetbiosNsDecl,
  dhcp |-> DhcpDecl, dhcpv6 |-> Dhcpv6Decl, ntp |-> NtpDecl, ptp |-> PtpDecl,
  rocev2 |-> Rocev2Decl, lldp |-> LldpDecl, llc |-> LlcDecl, lacp |-> LacpDecl,
  stp |-> StpDecl, pvst_plus |-> PvstPlusDecl, eapol |-> EapolDecl,
  radiotap |-> RadiotapDecl, dot11 |-> Dot11Decl, modbus |-> ModbusDecl, mqtt |-> MqttDecl,
  dnp3 |-> Dnp3Decl, enip |-> EnipDecl, bacnet_ip |-> BacnetIpDecl, syslog |-> SyslogDecl,
  snmp |-> SnmpDecl, radius |-> RadiusDecl, kerberos |-> KerberosDecl, ldap |-> LdapDecl,
  ssdp |-> SsdpDecl, http |-> HttpDecl, http2 |-> Http2Decl, tls |-> TlsDecl,
  ssh |-> SshDecl, websocket |-> WebSocketDecl, stun |-> StunDecl, ftp |-> FtpDecl,
  tftp |-> TftpDecl, smtp |-> SmtpDecl, imap |-> ImapDecl, pop3 |-> Pop3Decl,
  smb2 |-> Smb2Decl, nfs |-> NfsDecl, sip |-> SipDecl, rtp |-> RtpDecl, rtcp |-> RtcpDecl,
  amqp |-> AmqpDecl, redis |-> RedisDecl, netflow9 |-> Netflow9Decl, ipfix |-> IpfixDecl]

DefaultParse(p, h, ctx) ==
  CASE p = "template" -> Template(h, ctx) [] p = "ethernet" -> Ethernet(h, ctx)
    [] p = "vlan" -> Vlan(h, ctx) [] p = "ipv4" -> Ipv4(h, ctx) [] p = "ipv6" -> Ipv6(h, ctx)
    [] p = "arp" -> Arp(h, ctx) [] p = "cdp" -> Cdp(h, ctx) [] p = "icmpv4" -> Icmpv4(h, ctx)
    [] p = "icmpv6" -> Icmpv6(h, ctx) [] p = "ndp" -> Ndp(h, ctx) [] p = "mld" -> Mld(h, ctx)
    [] p = "igmp" -> Igmp(h, ctx) [] p = "vrrp" -> Vrrp(h, ctx) [] p = "hsrp" -> Hsrp(h, ctx)
    [] p = "ospf" -> Ospf(h, ctx) [] p = "bfd" -> Bfd(h, ctx) [] p = "tcp" -> Tcp(h, ctx)
    [] p = "udp" -> Udp(h, ctx) [] p = "sctp" -> Sctp(h, ctx) [] p = "quic" -> Quic(h, ctx)
    [] p = "bgp" -> Bgp(h, ctx) [] p = "gre" -> Gre(h, ctx) [] p = "erspan" -> Erspan(h, ctx)
    [] p = "mpls" -> Mpls(h, ctx) [] p = "vxlan" -> Vxlan(h, ctx)
    [] p = "gtp_u" -> GtpU(h, ctx) [] p = "gtp_c" -> GtpC(h, ctx)
    [] p = "geneve" -> Geneve(h, ctx) [] p = "esp" -> Esp(h, ctx) [] p = "ah" -> Ah(h, ctx)
    [] p = "wireguard" -> Wireguard(h, ctx) [] p = "l2tpv3" -> L2tpv3(h, ctx)
    [] p = "pppoe" -> Pppoe(h, ctx) [] p = "ppp" -> Ppp(h, ctx) [] p = "dns" -> Dns(h, ctx)
    [] p = "mdns" -> Mdns(h, ctx) [] p = "llmnr" -> Llmnr(h, ctx)
    [] p = "netbios_ns" -> NetbiosNs(h, ctx) [] p = "dhcp" -> Dhcp(h, ctx)
    [] p = "dhcpv6" -> Dhcpv6(h, ctx) [] p = "ntp" -> Ntp(h, ctx) [] p = "ptp" -> Ptp(h, ctx)
    [] p = "rocev2" -> Rocev2(h, ctx) [] p = "lldp" -> Lldp(h, ctx)
    [] p = "llc" -> Llc(h, ctx) [] p = "lacp" -> Lacp(h, ctx) [] p = "stp" -> Stp(h, ctx)
    [] p = "pvst_plus" -> PvstPlus(h, ctx) [] p = "eapol" -> Eapol(h, ctx)
    [] p = "radiotap" -> Radiotap(h, ctx) [] p = "dot11" -> Dot11(h, ctx)
    [] p = "modbus" -> Modbus(h, ctx) [] p = "mqtt" -> Mqtt(h, ctx)
    [] p = "dnp3" -> Dnp3(h, ctx) [] p = "enip" -> Enip(h, ctx)
    [] p = "bacnet_ip" -> BacnetIp(h, ctx) [] p = "syslog" -> Syslog(h, ctx)
    [] p = "snmp" -> Snmp(h, ctx) [] p = "radius" -> Radius(h, ctx)
    [] p = "kerberos" -> Kerberos(h, ctx) [] p = "ldap" -> Ldap(h, ctx)
    [] p = "ssdp" -> Ssdp(h, ctx) [] p = "http" -> Http(h, ctx)
    [] p = "http2" -> Http2(h, ctx) [] p = "tls" -> Tls(h, ctx) [] p = "ssh" -> Ssh(h, ctx)
    [] p = "websocket" -> WebSocket(h, ctx) [] p = "stun" -> Stun(h, ctx)
    [] p = "ftp" -> Ftp(h, ctx) [] p = "tftp" -> Tftp(h, ctx) [] p = "smtp" -> Smtp(h, ctx)
    [] p = "imap" -> Imap(h, ctx) [] p = "pop3" -> Pop3(h, ctx) [] p = "smb2" -> Smb2(h, ctx)
    [] p = "nfs" -> Nfs(h, ctx) [] p = "sip" -> Sip(h, ctx) [] p = "rtp" -> Rtp(h, ctx)
    [] p = "rtcp" -> Rtcp(h, ctx) [] p = "amqp" -> Amqp(h, ctx)
    [] p = "redis" -> Redis(h, ctx) [] p = "netflow9" -> Netflow9(h, ctx)
    [] p = "ipfix" -> Ipfix(h, ctx)

DefaultProbe(p, h, ctx) ==
  CASE p = "template" -> TemplateProbe(h) [] p = "ipv4" -> Ipv4Probe(h)
    [] p = "ipv6" -> Ipv6Probe(h) [] p = "tcp" -> TcpProbe(h) [] p = "quic" -> QuicProbe(h)
    [] p = "wireguard" -> WireguardProbe(h) [] p = "llc" -> LlcProbe(h, ctx)
    [] p = "dnp3" -> Dnp3Probe(h) [] p = "bacnet_ip" -> BacnetIpProbe(h)
    [] p = "tls" -> TlsProbe(h) [] p = "websocket" -> WebSocketProbe(h)
    [] p = "stun" -> StunProbe(h) [] OTHER -> NoScore
=============================================================================
