------------------------------ MODULE MCEvents ------------------------------
(* Three captures: a tcp, an sctp and a udp session under one address pair. *)
EXTENDS Events, TLC

SlotSymmetry == Permutations(Slots)

MCSays ==
  [tcp  |-> {{"SYN"}, {"ACK"}, {"FIN", "ACK"}, {"RST"}},
   sctp |-> {{"INIT"}, {"INIT_ACK"}, {"COOKIE_ECHO"}, {"COOKIE_ACK"},
            {"SHUTDOWN"}, {"SHUTDOWN_ACK"}, {"ABORT"}, NoValue},
   udp  |-> {{"short"}, {"long"}}]
=============================================================================
