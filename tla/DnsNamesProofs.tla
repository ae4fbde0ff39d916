-------------------------- MODULE DnsNamesProofs --------------------------
(***************************************************************************)
(* ConsumedInside for every message and every pair of caps.  It is not      *)
(* inductive: a name read without a pointer is still ahead of its start, a   *)
(* name that followed one has its count already.  NeverBehind says so.      *)
(***************************************************************************)
EXTENDS DnsNames, TLAPS

\* The walk is at or after the start for as long as the count is open.
NeverBehind == consumed = NotFixed => start <= pos

NameInv == TypeOK /\ ConsumedInside /\ NeverBehind

\* A byte of the message is a byte.
LEMMA AtByte ==
  ASSUME NEW m \in Messages, NEW p \in Nat, p < Len(m)
  PROVE  m[p + 1] \in Byte /\ Len(m) \in Nat
  <1>1. m \in Seq(Byte)
    BY MessagesAssumption
  <1>2. Len(m) \in Nat
    BY <1>1
  <1>3. p + 1 \in 1..Len(m)
    BY <1>2
  <1> QED BY <1>1, <1>2, <1>3

\* A decode starts in order.
LEMMA NameInit == Init => NameInv
  <1> SUFFICES ASSUME Init PROVE NameInv
    OBVIOUS
  <1> Len(msg) \in Nat
    BY MessagesAssumption DEF Init
  <1> QED BY CapsAssumption DEF Init, NameInv, TypeOK, ConsumedInside, NeverBehind, NotFixed

\* Every step keeps the decode in order.
LEMMA NameStep == NameInv /\ [Next]_vars => NameInv'
  <1> SUFFICES ASSUME NameInv, [Next]_vars PROVE NameInv'
    OBVIOUS
  <1> USE DEF NameInv, TypeOK, ConsumedInside, NeverBehind, NotFixed
  <1>0. Len(msg) \in Nat
    BY MessagesAssumption
  <1>1. CASE RunsPast
    BY <1>0, <1>1 DEF RunsPast, Decline
  <1>2. CASE Terminator
    BY <1>0, <1>2 DEF Terminator, Present
  <1>3. CASE Pointer
    <2> Present(pos) /\ IsPointer(At(pos)) /\ Present(pos + 1)
      BY <1>3 DEF Pointer
    <2>1. pos \in Nat /\ pos + 1 < Len(msg)
      BY <1>0 DEF Present
    <2>3. Target(pos) \in Nat
      <3> DEFINE hi == At(pos)
                 lo == At(pos + 1)
      <3>1. hi \in Byte /\ lo \in Byte
        BY <1>0, <2>1, AtByte DEF At
      <3>3. hi >= 192
        BY DEF IsPointer
      <3> HIDE DEF hi, lo
      <3>4. hi \in Nat /\ lo \in Nat
        BY <3>1 DEF Byte
      <3>2. (hi - 192) * 256 + lo \in Nat
        BY <3>4, <3>3
      <3> QED BY <3>2 DEF Target, hi, lo
    <2>4. consumed' >= 1 /\ start + consumed' <= Len(msg) /\ consumed' # NotFixed
          /\ consumed' \in Int
      BY <1>0, <1>3, <2>1 DEF Pointer, Fix
    <2>5. pos' \in 0..Len(msg) /\ jumps' \in 0..MaxPointerJumps
          /\ result' \in {"reading", "malformed"}
      BY <1>0, <1>3, <2>1, <2>3, CapsAssumption DEF Pointer, MayTarget
    <2> QED BY <1>0, <1>3, <2>4, <2>5 DEF Pointer
  <1>4. CASE Label
    <2> DEFINE l == At(pos)
    <2>1. l \in 1..63 /\ pos \in Nat /\ pos + 1 + l <= Len(msg)
      BY <1>0, <1>4 DEF Label, IsLabel
    <2>2. nameLen' = Appended(l) /\ pos' \in {pos, pos + 1 + l}
          /\ result' \in {result, "malformed"}
      BY <1>4 DEF Label
    <2>3. UNCHANGED <<msg, start, consumed, jumps>> /\ result = "reading"
      BY <1>4 DEF Label
    <2> HIDE DEF l
    <2>4. nameLen' \in Nat
      BY <2>1, <2>2 DEF Appended
    <2>5. pos' \in 0..Len(msg) /\ pos' >= pos /\ result' \in {"reading", "malformed"}
      BY <1>0, <2>1, <2>2, <2>3
    <2> QED BY <1>0, <2>3, <2>4, <2>5
  <1>5. CASE Returned \/ UNCHANGED vars
    BY <1>5 DEF Returned, vars
  <1> QED BY <1>1, <1>2, <1>3, <1>4, <1>5 DEF Next

\* decode_name: the bytes reported as used are at least one and end inside the
\* message, for every message, every start and every value of the two caps.
THEOREM ConsumedCorrect == Spec => []ConsumedInside
  <1>1. NameInv => ConsumedInside
    BY DEF NameInv
  <1> QED BY NameInit, NameStep, <1>1, PTL DEF Spec

\* What a turn of the loop that does not end it must do: follow one pointer
\* more and go backward, or append a label and go forward.
Moves ==
  result' = "reading" =>
    \/ jumps' = jumps + 1 /\ jumps' <= MaxPointerJumps /\ pos' < pos
    \/ jumps' = jumps /\ pos' > pos /\ pos' <= Len(msg) /\ nameLen' > nameLen

\* decode_name: at most MaxPointerJumps turns go backward, and between two of
\* them the position only grows, inside the message: the measure behind the
\* termination of the loop, for every message.
THEOREM MovesCorrect == Spec => [][Moves]_vars
  <1>1. NameInv /\ [Next]_vars => [Moves]_vars
    <2> SUFFICES ASSUME NameInv, Next PROVE Moves \/ UNCHANGED vars
      OBVIOUS
    <2>0. Len(msg) \in Nat /\ pos \in Nat /\ jumps \in Nat /\ nameLen \in Nat
      BY MessagesAssumption, CapsAssumption DEF NameInv, TypeOK
    <2>1. CASE RunsPast \/ Terminator \/ Returned
      BY <2>1 DEF RunsPast, Decline, Terminator, Returned, Moves
    <2>2. CASE Pointer
      BY <2>0, <2>2, CapsAssumption DEF Pointer, MayTarget, Moves
    <2>3. CASE Label
      <3> DEFINE l == At(pos)
      <3>1. l \in 1..63 /\ pos + 1 + l <= Len(msg)
        BY <2>3 DEF Label, IsLabel
      <3>2. nameLen' = Appended(l) /\ jumps' = jumps
            /\ (result' = "reading" => pos' = pos + 1 + l)
        BY <2>3 DEF Label
      <3> HIDE DEF l
      <3> QED BY <2>0, <3>1, <3>2 DEF Appended, Moves
    <2> QED BY <2>1, <2>2, <2>3 DEF Next
  <1> QED BY NameInit, NameStep, <1>1, PTL DEF Spec
=============================================================================
