------------------------------ MODULE DnsNames ------------------------------
(***************************************************************************)
(* decode_name of plugins/src/dns.rs: the loop that reads a possibly        *)
(* compressed name out of a DNS message (dns, mdns and llmnr share it).     *)
(* Every turn of the loop is one step.  A pointer goes backward, a label    *)
(* forward, so the two together can come back to where they were: only a    *)
(* cap ends such a walk.  Of the name itself only its length is kept, in     *)
(* characters: a character of a label is never dropped, so the length is    *)
(* all the loop ever looks at.                                              *)
(***************************************************************************)
EXTENDS Integers, Sequences

CONSTANTS
  Messages,         \* the messages tried: sequences of bytes
  MaxPointerJumps,  \* MAX_POINTER_JUMPS
  MaxNameLen        \* MAX_NAME_LEN

Byte == 0..255

ASSUME MessagesAssumption == Messages \subseteq Seq(Byte)

ASSUME CapsAssumption == MaxPointerJumps \in Nat /\ MaxNameLen \in Nat

VARIABLES
  msg,       \* the message the plugin was handed
  start,     \* where the name begins: an offset, 0 is the first byte
  pos,       \* the byte the next turn reads
  consumed,  \* bytes used at the start; NotFixed until the first pointer
  jumps,     \* pointers followed
  nameLen,   \* characters of the name so far
  result     \* "reading" inside the loop, "ok" or "malformed" after it

vars == <<msg, start, pos, consumed, jumps, nameLen, result>>

NotFixed == -1

\* msg.get(p)
Present(p) == p < Len(msg)

At(p) == msg[p + 1]

\* The top two bits of a length byte say what follows.
IsPointer(b) == b >= 192

IsLabel(b) == b \in 1..63

\* The fourteen bits of a pointer whose high byte is at p.
Target(p) == (At(p) - 192) * 256 + At(p + 1)

\* A caller names any offset of the message, one past its end included.
Init ==
  /\ msg \in Messages
  /\ start \in 0..Len(msg)
  /\ pos = start
  /\ consumed = NotFixed
  /\ jumps = 0
  /\ nameLen = 0
  /\ result = "reading"

\* return Err(Malformed)
Decline ==
  /\ result' = "malformed"
  /\ UNCHANGED <<msg, start, pos, consumed, jumps, nameLen>>

\* The name, a label or a pointer runs past the message, or the length byte
\* is of a reserved type.
RunsPast ==
  /\ result = "reading"
  /\ \/ ~Present(pos)
     \/ Present(pos) /\ IsPointer(At(pos)) /\ ~Present(pos + 1)
     \/ Present(pos) /\ IsLabel(At(pos)) /\ pos + 1 + At(pos) > Len(msg)
     \/ Present(pos) /\ At(pos) \in 64..191
  /\ Decline

\* A zero byte ends the name.  A name read without a pointer used the bytes
\* from its start to here.
Terminator ==
  /\ result = "reading"
  /\ Present(pos) /\ At(pos) = 0
  /\ consumed' = IF consumed = NotFixed THEN pos + 1 - start ELSE consumed
  /\ result' = "ok"
  /\ UNCHANGED <<msg, start, pos, jumps, nameLen>>

\* A slip: the last pointer of a chain fixes it, not the first.
FixLate == pos + 2 - start

\* What the first pointer fixes, whether or not the pointer is then followed.
Fix == IF consumed = NotFixed THEN pos + 2 - start ELSE consumed

\* A target that a pointer at p may name.
MayTarget(p) == Target(p) < p

\* The slip the caps are there for: any pointer that does not go forward is
\* followed, and the chain is not counted.
PointerUncounted ==
  /\ result = "reading"
  /\ Present(pos) /\ IsPointer(At(pos)) /\ Present(pos + 1)
  /\ consumed' = Fix
  /\ \/ Target(pos) <= pos /\ pos' = Target(pos) /\ result' = result
     \/ Target(pos) > pos /\ pos' = pos /\ result' = "malformed"
  /\ UNCHANGED <<msg, start, jumps, nameLen>>

\* A pointer is followed when it goes strictly backward and the chain is not
\* too long; otherwise the name is declined.
Pointer ==
  /\ result = "reading"
  /\ Present(pos) /\ IsPointer(At(pos)) /\ Present(pos + 1)
  /\ consumed' = Fix
  /\ \/ /\ MayTarget(pos) /\ jumps < MaxPointerJumps
        /\ jumps' = jumps + 1
        /\ pos' = Target(pos)
        /\ result' = result
     \/ /\ ~MayTarget(pos) \/ jumps >= MaxPointerJumps
        /\ result' = "malformed"
        /\ UNCHANGED <<pos, jumps>>
  /\ UNCHANGED <<msg, start, nameLen>>

\* The length once a label of l bytes is appended, behind a dot when there is
\* something before it.
Appended(l) == nameLen + l + (IF nameLen > 0 THEN 1 ELSE 0)

Label ==
  /\ result = "reading"
  /\ Present(pos) /\ IsLabel(At(pos))
  /\ pos + 1 + At(pos) <= Len(msg)
  /\ nameLen' = Appended(At(pos))
  /\ \/ /\ nameLen' <= MaxNameLen
        /\ pos' = pos + 1 + At(pos)
        /\ result' = result
     \/ /\ nameLen' > MaxNameLen
        /\ result' = "malformed"
        /\ pos' = pos
  /\ UNCHANGED <<msg, start, consumed, jumps>>

\* The name is returned; the caller goes on, or declines the whole message.
Returned == result # "reading" /\ UNCHANGED vars

Next == RunsPast \/ Terminator \/ Pointer \/ Label \/ Returned

\* One call is one thread running a loop: nothing holds it up.
Spec == Init /\ [][Next]_vars /\ WF_vars(RunsPast \/ Terminator \/ Pointer \/ Label)

-----------------------------------------------------------------------------
TypeOK ==
  /\ msg \in Messages /\ start \in 0..Len(msg)
  /\ pos \in 0..Len(msg)
  /\ consumed \in Int /\ jumps \in 0..MaxPointerJumps /\ nameLen \in Nat
  /\ result \in {"reading", "ok", "malformed"}

\* decode_name: whatever the pointers say, the bytes it reports as used at
\* the start are at least one and end inside the message, so that the callers'
\* off += used (dns.rs, parse) always moves, and never past the end.  The
\* subtractions pos + 1 - start and pos + 2 - start therefore never go below
\* zero, although pos is before start once a pointer was followed.
ConsumedInside ==
  /\ consumed # NotFixed => consumed >= 1 /\ start + consumed <= Len(msg)
  /\ result = "ok" => consumed # NotFixed

\* dns.rs, "loops and bombs decline instead of hanging": every call returns,
\* for messages whose pointers and labels lead round in a circle too.
Returns == <>(result # "reading")
=============================================================================
