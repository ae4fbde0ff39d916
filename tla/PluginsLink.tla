---------------------------- MODULE PluginsLink ----------------------------
(***************************************************************************)
(* The plugins of the link layer beside ethernet and vlan: LLC and what it *)
(* carries, 802.1 control protocols, 802.11, PPP over Ethernet and MPLS.   *)
(***************************************************************************)
EXTENDS Wire

----------------------------------------------------------------------------
(* llc: two service access points, a control field of one or two bytes, and *)
(* a SNAP header when both points say so                                   *)

SnapSap == 170

Llc(h, ctx) ==
  LET snap == h.dsap = SnapSap /\ h.ssap = SnapSap
      fixed == IF h.unnumbered THEN 3 ELSE 4
      end == IF snap THEN fixed + 5 ELSE fixed
  IN  Need(h, end, Layer(end, NoFields,
        IF ~snap THEN Route(Custom("llc_dsap", h.dsap))
        ELSE IF h.oui = 0 THEN Route(EtherType(h.pid))
        ELSE Route(Custom("snap_pid", <<h.oui, h.pid>>))))

WellKnownSaps == {66, 170, 224, 240}

\* The destination address of the enclosing frame, a bridge group or Cisco
\* multicast block, outweighs the access points.
LlcProbe(h, ctx) ==
  IF h.len < 3 THEN NoScore
  ELSE IF FieldOf(ctx, "ethernet", "dst_mac") = {"bridge"} THEN Confidence(90)
  ELSE Score(/\ h.dsap \in WellKnownSaps /\ h.ssap \in WellKnownSaps
             /\ h.unnumbered \/ h.len >= 4, 55)

LlcDecl == [Declares EXCEPT !.claims = <<Custom("eth_llc_frame", 0)>>,
                            !.preds = {"ethernet", "dot11"}, !.probes = TRUE]

----------------------------------------------------------------------------
(* Neighbor discovery: lldp, cdp                                           *)

\* chassis, port and ttl are the value lengths of the three mandatory TLVs,
\* wrong the first of them with another type (0: none); rest are the sizes,
\* head included, of the TLVs from there to the End TLV, if it is there.
LldpMandatory(h) ==
  Need(h, 2 + h.chassis, Refuse(h.wrong = 1 \/ h.chassis = 0,
    Need(h, 4 + h.chassis + h.port, Refuse(h.wrong = 2 \/ h.port = 0,
      Need(h, 6 + h.chassis + h.port + h.ttl, Refuse(h.wrong = 3 \/ h.ttl # 2, Terminal))))))

Lldp(h, ctx) ==
  LET walk == WalkRecords(h.rest, 2, 8 + h.chassis + h.port, h.len)
  IN  Passed(LldpMandatory(h),
        IF walk.end THEN walk.result
        ELSE IF ~h.ended THEN Truncated
        ELSE Need(h, walk.pos + 2, Layer(walk.pos + 2, NoFields, Terminal)))

LldpDecl == [Declares EXCEPT !.claims = <<EtherType(35020)>>]

CiscoOui == 12

\* tlvs are the declared lengths of the TLVs; past them the bytes are zero,
\* which ends the walk as padding does. deviceId, that the first of them is
\* the device id, without which the packet is refused.
Cdp(h, ctx) ==
  LET walk == WalkRecords(h.tlvs, 4, 4, h.len)
      cut == walk.result = Truncated /\ h.len - walk.pos < 4
      done == ~walk.end \/ cut
  IN  Need(h, 4,
        IF ~done THEN walk.result
        ELSE Refuse(~h.deviceId \/ walk.pos = 4, Layer(walk.pos, NoFields, Terminal)))

CdpDecl == [Declares EXCEPT !.claims = <<Custom("snap_pid", <<CiscoOui, 8192>>)>>]

----------------------------------------------------------------------------
(* lacp, stp, pvst_plus, eapol                                             *)

LacpIdentity == Identity(<<Pair("actor_system", "partner_system")>>, {Accumulate("actor_state")})

\* badAt is the place of the first byte whose value is not the one the
\* standard fixes for the type and length of each part (0: none).
Lacp(h, ctx) ==
  IF h.badAt > 0 THEN Need(h, h.badAt, Malformed)
  ELSE Need(h, 110, Layer(110, AtKeys(ctx, {"actor_system", "partner_system"}), Terminal))

LacpDecl == [Declares EXCEPT !.claims = <<EtherType(34825)>>, !.identity = {LacpIdentity}]

\* How far a bridge protocol data unit reaches: a topology change has only
\* the four common bytes, version 2 and later one more than the first.
BpduEnd(h) == IF h.tcn THEN 4 ELSE IF h.version >= 2 THEN 36 ELSE 35

ParseBpdu(h, then) == Need(h, 2, Refuse(h.protocolId # 0, Need(h, BpduEnd(h), then)))

Stp(h, ctx) == ParseBpdu(h, Layer(BpduEnd(h), NoFields, Terminal))

StpDecl == [Declares EXCEPT !.claims = <<Custom("llc_dsap", 66)>>]

\* The unit is followed by a TLV of 6 bytes that names the VLAN.
PvstPlus(h, ctx) ==
  ParseBpdu(h, Need(h, BpduEnd(h) + 4, Refuse(h.badTlv,
    Need(h, BpduEnd(h) + 6, Layer(BpduEnd(h) + 6, NoFields, Terminal)))))

PvstPlusDecl == [Declares EXCEPT !.claims = <<Custom("snap_pid", <<CiscoOui, 267>>)>>]

\* A key packet's descriptor is read inside the declared body.
KeyDescriptorLen == 95

Eapol(h, ctx) ==
  Need(h, 4 + h.body, IF h.key /\ h.body < KeyDescriptorLen THEN Truncated
                      ELSE Layer(4 + h.body, NoFields, Terminal))

EapolDecl == [Declares EXCEPT !.claims = <<EtherType(34958)>>]

----------------------------------------------------------------------------
(* radiotap, dot11                                                         *)

MaxPresentWords == 8

\* it_len is in the header; words are the present words that follow the
\* first, and fields what the known fields take after them, padding included.
Radiotap(h, ctx) ==
  LET consumed == 8 + 4 * h.words + h.fields
  IN  Need(h, 4, Refuse(h.itLen > h.len,
        IF h.words >= MaxPresentWords
        THEN Need(h, 4 + 4 * MaxPresentWords, Malformed)
        ELSE Need(h, consumed, Refuse(consumed > h.itLen,
               Layer(h.itLen, NoFields, ByProtocol("dot11"))))))

RadiotapDecl == [Declares EXCEPT !.claims = <<LinkType(127)>>]

Dot11Identity == Identity(<<Pair("addr1", "addr2")>>, {Accumulate("frame_subtype")})

\* A control frame has a second address only in four subtypes.
Dot11Control(h, ctx) ==
  IF h.addr2 THEN Need(h, 16, Layer(16, AtKeys(ctx, {"addr1", "addr2"}), Terminal))
             ELSE Layer(10, AtKeys(ctx, {"addr1"}), Terminal)

\* Beacons and probes carry one information element, beacons and probe
\* responses after 12 fixed bytes.
Dot11Management(h, ctx) ==
  LET fixed == IF h.subtype = "probe_request" THEN 24 ELSE 36
      end == IF h.subtype = "other" THEN 24 ELSE fixed + 2 + h.element
  IN  Need(h, end, Layer(end, AtKeys(ctx, {"addr1", "addr2"}), Terminal))

Dot11Data(h, ctx) ==
  LET end == 24 + (IF h.wds THEN 6 ELSE 0) + (IF h.qos THEN 2 ELSE 0)
  IN  Need(h, end, Layer(end, AtKeys(ctx, {"addr1", "addr2"}),
        IF h.sealed THEN Terminal ELSE ByProtocol("llc")))

Dot11(h, ctx) ==
  Need(h, 10,
    CASE h.type = "control" -> Dot11Control(h, ctx)
      [] h.type = "management" -> Dot11Management(h, ctx)
      [] h.type = "data" -> Dot11Data(h, ctx)
      [] OTHER -> Malformed)

Dot11Decl == [Declares EXCEPT !.claims = <<LinkType(105)>>, !.identity = {Dot11Identity}]

----------------------------------------------------------------------------
(* pppoe, ppp, mpls                                                        *)

PppoeIdentity == Identity(<<Shared("session_id")>>, {Accumulate("code")})

\* Every tag of a discovery packet lies inside the declared length, which
\* the tags fill up to less than a tag's head.
WalkTags(h) == WalkToEnd(h.tags, 4, 0, h.length) = Terminal

Pppoe(h, ctx) ==
  Need(h, 1, Refuse(h.verType # 17, Need(h, 6,
    IF h.session THEN Layer(6, AtKeys(ctx, {"session_id"}), ByProtocol("ppp"))
    ELSE Need(h, 6 + h.length,
           IF WalkTags(h) THEN Layer(6 + h.length, AtKeys(ctx, {"session_id"}), Terminal)
                          ELSE Truncated))))

PppoeDecl == [Declares EXCEPT !.claims = <<EtherType(34915), EtherType(34916)>>,
                              !.identity = {PppoeIdentity}]

\* An odd first byte is the whole protocol number.
Ppp(h, ctx) ==
  LET end == IF h.compressed THEN 1 ELSE 2
  IN  Need(h, end, Layer(end, NoFields,
        CASE h.protocol = 33 -> Route(EtherType(2048))
          [] h.protocol = 87 -> Route(EtherType(34525))
          [] OTHER -> Terminal))

\* Reached by name only.
PppDecl == Declares

MplsIdentity == Identity(<<Shared("label")>>, {})

MaxLabels == 16

\* stack is the number of label entries down to the bottom of the stack.
Mpls(h, ctx) ==
  IF h.stack > MaxLabels THEN Need(h, 4 * MaxLabels, Malformed)
  ELSE Need(h, 4 * h.stack, Layer(4 * h.stack, AtKeys(ctx, {"label"}),
         CASE h.bottom = 0 -> ByProtocol("ipv4")
           [] h.bottom = 2 -> ByProtocol("ipv6")
           [] OTHER -> UnknownNext))

MplsDecl == [Declares EXCEPT !.claims = <<EtherType(34887), EtherType(34888)>>,
                             !.identity = {MplsIdentity}]
=============================================================================
