------------------------------- MODULE Suite -------------------------------
(***************************************************************************)
(* Dissection with the plugins that ship (Catalogue), alone or beside      *)
(* third-party ones, and what is expected of those that ship.              *)
(***************************************************************************)
EXTENDS Dissect, Catalogue, Headers

Shipped == ToSet(DefaultPlugins)

----------------------------------------------------------------------------
(* Properties                                                              *)

\* The default list builds (lib.rs default_engine's expect), no plugin that
\* ships claims more bytes than it was given, at any length of input and after
\* any layers, and every plugin that one of them names as what follows is
\* registered (plugin.rs rule 3, ByProtocol).
DefaultsHonest ==
  /\ using = "default" => phase # "rejected"
  /\ lied \cap Shipped = {}
  /\ using = "default" /\ Started /\ stop[1] = "unclaimed_route" => Pending.kind # "by_protocol"

\* The frames that have no key to give: an 802.11 control frame of one address,
\* which takes 10 bytes where every other one takes more; a QUIC short header,
\* of which one byte is read; an L2TPv3 control message, which alone is Terminal.
Keyless(l) ==
  \/ l.protocol = "dot11" /\ l.headerLen = 10
  \/ l.protocol = "quic" /\ l.headerLen = 1
  \/ l.protocol = "l2tpv3" /\ l.hint = Terminal

\* With aggregation on, every layer that declares a stream identity has the
\* fields of its key, whatever depth was asked for, but for the three kinds of
\* frame that have none (depth.rs, plugin.rs rule 4).
KeysPresent ==
  opts.aggregation => \A i \in DOMAIN layers :
    \/ Keyless(layers[i])
    \/ KeyFields(Decl(layers[i].protocol)) \subseteq DOMAIN layers[i].fields

\* Below Structural ndp and mld find no message type and take the message whole.
Untyped == {"ndp", "mld"}

\* Below Keys the frame's address, which llc's probe reads back, is not there
\* when the fallback pool is asked.
Addressless ==
  /\ EffectiveDepth(opts) < DepthKeys
  /\ \E i \in DOMAIN layers : layers[i].protocol = "ethernet"
  /\ \E i \in DOMAIN layers : layers[i].hint.kind = "unknown"

\* The framing of a packet does not depend on the extraction depth: its
\* layers, their lengths and what they say follows are those found at Full,
\* but where a plugin reads back a field that a lower depth leaves out.
FramingDepthBlind ==
  \/ /\ EffectiveDepth(opts) < DepthStructural
     /\ \E i \in DOMAIN layers : layers[i].protocol \in Untyped
  \/ Addressless
  \/ Framing(full) = Framing(layers)
=============================================================================
