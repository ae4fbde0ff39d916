---------------------------- MODULE MCDnsNames ----------------------------
(* Every message of up to MaxLen bytes over Bytes. *)
EXTENDS DnsNames

CONSTANTS MaxLen, Bytes

AllMessages == UNION {[1..n -> Bytes] : n \in 0..MaxLen}
=============================================================================
