----------------------------- MODULE Lifecycles -----------------------------
(***************************************************************************)
(* The two session lifecycles the plugins declare: tcp.rs and sctp.rs.      *)
(* A function advance(fields, state, direction) takes a stream from one     *)
(* named state to the next; both ignore the direction.  What a packet says  *)
(* is a set of names: its TCP flags, or the type of its first SCTP chunk.   *)
(***************************************************************************)
\* What a packet without the field says.
NoValue == {"no field"}

\* tcp.rs, advance: the states a packet without RST leads through.  A packet
\* that fits no row keeps the state.
TcpStep(state, flags) ==
  LET syn == "SYN" \in flags
      ack == "ACK" \in flags
      fin == "FIN" \in flags
  IN  CASE state = "new" /\ syn /\ ~ack                  -> "syn_sent"
        [] state = "new" /\ ~syn                         -> "established_midstream"
        [] state = "syn_sent" /\ syn /\ ack              -> "syn_received"
        [] state = "syn_received" /\ ack /\ ~syn /\ ~fin -> "established"
        [] state = "established" /\ fin                   -> "closing"
        [] state = "established_midstream" /\ fin         -> "closing"
        [] state = "closing" /\ fin /\ ack               -> "closed"
        [] OTHER                                         -> state

\* A slip: a SYN on a finished connection opens it again.
TcpAdvanceReopens(state, flags) ==
  IF "RST" \in flags THEN "reset"
  ELSE IF state \in {"closed", "reset"} /\ "SYN" \in flags THEN "syn_sent"
  ELSE TcpStep(state, flags)

TcpAdvance(state, flags) ==
  IF "RST" \in flags THEN "reset" ELSE TcpStep(state, flags)

\* sctp.rs, advance
SctpAdvance(state, chunk) ==
  CASE chunk = "ABORT"                                         -> "aborted"
    [] chunk # "ABORT" /\ state = "new"
         -> IF chunk = "INIT" THEN "init_sent" ELSE "established_midstream"
    [] state = "init_sent" /\ chunk = "INIT_ACK"               -> "cookie_wait"
    [] state = "cookie_wait" /\ chunk = "COOKIE_ECHO"          -> "cookie_echoed"
    [] state = "cookie_echoed" /\ chunk = "COOKIE_ACK"         -> "established"
    [] state \in {"established", "established_midstream"} /\ chunk = "SHUTDOWN"
                                                               -> "shutdown_pending"
    [] state = "shutdown_pending" /\ chunk \in {"SHUTDOWN_ACK", "SHUTDOWN_COMPLETE"}
                                                               -> "closed"
    [] OTHER -> state

\* A packet whose first chunk could not be read says nothing.
Advance(proto, state, says) ==
  IF says = NoValue THEN state
  ELSE IF proto = "tcp" THEN TcpAdvance(state, says)
  ELSE SctpAdvance(state, CHOOSE chunk \in says : TRUE)

\* Only the two session protocols declare a lifecycle; udp streams have none.
HasLifecycle(proto) == proto \in {"tcp", "sctp"}

\* closed_states of the two LifecycleSpecs.
ClosedStates(proto) ==
  IF proto = "tcp" THEN {"closed", "reset"} ELSE {"closed", "aborted"}

\* ROLLUPS of the plugins: tcp keeps its flags twice, as a set and as a
\* timeline; sctp keeps the set of its first chunks, udp a sample of its
\* datagram length.
SessionRollups(proto) ==
  CASE proto = "tcp"  -> <<[kind |-> "accumulate"], [kind |-> "series", cap |-> 1024]>>
    [] proto = "sctp" -> <<[kind |-> "accumulate"]>>
    [] proto = "udp"  -> <<[kind |-> "sample"]>>
=============================================================================
