------------------------- MODULE PluginsIndustrial -------------------------
(***************************************************************************)
(* The plugins of control networks and of machine-to-machine messaging.    *)
(***************************************************************************)
EXTENDS Wire

Rocev2Identity == Identity(<<Shared("dest_qp")>>, {Accumulate("opcode")})

Rocev2(h, ctx) ==
  Need(h, 2, Refuse(h.tver # 0, Need(h, 12, Layer(12, AtKeys(ctx, {"dest_qp"}), Terminal))))

Rocev2Decl == [Declares EXCEPT !.claims = <<UdpPort(4791)>>, !.identity = {Rocev2Identity}]

ModbusIdentity == Identity(<<Shared("unit_id")>>, {Accumulate("function_code")})

\* The length counts the unit and the function; an exception has one byte
\* more, and every other function reads the data it declares.
Modbus(h, ctx) ==
  Need(h, 4, Refuse(h.protocolId # 0, Need(h, 6, Refuse(h.length < 2,
    Need(h, 8, Refuse(h.exception /\ h.length # 3, Need(h, 6 + h.length,
      Layer(6 + h.length, AtKeys(ctx, {"unit_id"}), Terminal))))))))

ModbusDecl == [Declares EXCEPT !.claims = <<TcpPort(502)>>, !.identity = {ModbusIdentity}]

MqttIdentity == Identity(<<Shared("app")>>, {Accumulate("message_type"), Accumulate("topic")})

\* A length of one to four bytes, seven bits in each; width is 5 when the
\* fourth still says that another follows.
VariableByteInt(h, at, then) ==
  IF h.width > 4 THEN Need(h, at + 4, Malformed) ELSE Need(h, at + h.width, then)

\* The reserved quality of service is refused after the body is read; a body
\* that does not decode only costs fields.
Mqtt(h, ctx) ==
  LET end == 1 + h.width + h.remaining
  IN  Need(h, 1, Refuse(h.type = 0, VariableByteInt(h, 1, Need(h, end,
        Refuse(h.publish /\ h.qos = 3, Layer(end, AtKeys(ctx, {"app"}), Terminal))))))

MqttDecl == [Declares EXCEPT !.claims = <<TcpPort(1883)>>, !.identity = {MqttIdentity}]

Dnp3Identity == Identity(<<Pair("source", "destination")>>, {Accumulate("function_code")})

\* Three bytes of user data are read when the length announces them.
Dnp3(h, ctx) ==
  LET end == IF h.length >= 8 THEN 13 ELSE 10
  IN  Need(h, 2, Refuse(~h.sync, Need(h, 3, Refuse(h.length < 5, Need(h, end,
        Layer(end, AtKeys(ctx, {"source", "destination"}), Terminal))))))

Dnp3Probe(h) == Score(h.len >= 3 /\ h.sync /\ h.length >= 5, 90)

Dnp3Decl == [Declares EXCEPT !.claims = <<TcpPort(20000), UdpPort(20000)>>, !.probes = TRUE,
                             !.identity = {Dnp3Identity}]

EnipIdentity == Identity(<<Shared("session_handle")>>, {Accumulate("command")})

Enip(h, ctx) ==
  Need(h, 24, Refuse(h.options # 0, Need(h, 24 + h.length,
    Layer(24 + h.length, AtKeys(ctx, {"session_handle"}), Terminal))))

EnipDecl == [Declares EXCEPT !.claims = <<TcpPort(44818)>>, !.identity = {EnipIdentity}]

BacnetIpIdentity == Identity(<<Shared("app")>>, {Accumulate("service_choice")})

\* npdu: the function carries one, after six bytes of origin if forwarded;
\* rest is what its addresses and the head of its payload take.
BacnetIp(h, ctx) ==
  LET version == 4 + (IF h.forwarded THEN 6 ELSE 0) + 1
      consumed == IF h.npdu THEN version + 1 + h.rest ELSE 4
      Whole == Need(h, consumed, Refuse(h.declared < consumed, Need(h, h.declared,
                 Layer(h.declared, AtKeys(ctx, {"app"}), Terminal))))
  IN  Need(h, 1, Refuse(~h.bvlc, Need(h, 4, Refuse(h.declared < 4,
        IF h.npdu THEN Need(h, version, Refuse(h.version # 1, Whole)) ELSE Whole))))

BacnetIpProbe(h) == Score(h.len >= 4 /\ h.bvlc /\ h.known /\ h.declared >= 4, 60)

BacnetIpDecl == [Declares EXCEPT !.claims = <<UdpPort(47808)>>, !.probes = TRUE,
                                 !.identity = {BacnetIpIdentity}]
=============================================================================
