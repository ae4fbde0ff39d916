--------------------------- MODULE PipelineProofs ---------------------------
(***************************************************************************)
(* Proofs about Pipeline, for every source, input, capacity, limit and     *)
(* number of packets: the screen never falls behind the generation it      *)
(* remembers, a frame that says finished tells the truth, no packet is     *)
(* lost between the source and the aggregator, and the run as a whole      *)
(* implements CaptureFeed.                                                 *)
(***************************************************************************)
EXTENDS Pipeline, SequenceTheorems, TLAPS

----------------------------------------------------------------------------
(* Types.                                                                  *)

\* The pump holds a packet exactly while it sends, the last one it read, and
\* is not running before the source is open and registered.
HandHeld ==
  /\ pump = "send" => inHand = cursor /\ cursor > 0
  /\ pump # "send" => inHand = 0
  /\ main \in {"open", "register"} => pump = "unborn"

TypeInv == TypeOK /\ HandHeld

\* The capture has a length.
LEMMA InputLen == Len(Input) \in Nat
  BY InputAssumption

\* A report one packet longer is a report: what read_packet's two counters do.
LEMMA ReportGrows ==
  ASSUME NEW r \in [packets : Nat, regressed : Nat], NEW n \in {0, 1}
  PROVE  [packets |-> r.packets + 1, regressed |-> r.regressed + n]
            \in [packets : Nat, regressed : Nat]
  OBVIOUS

\* The pipeline starts well typed.
LEMMA TypeInit == Init => TypeInv
<1>. SUFFICES ASSUME Init PROVE TypeInv
  OBVIOUS
<1>1. FlagsType
  BY DEF Init, FlagsType
<1>2. PumpType /\ HandHeld
  BY CapacityAssumption, InputLen DEF Init, PumpType, HandHeld, PumpSteps
<1>3. HubType
  BY DEF Init, HubType, Snapshots, EmptySnapshot, NoProgress, MainSteps, UiSteps
<1>. QED
  BY <1>1, <1>2, <1>3 DEF TypeInv, TypeOK

\* Every step keeps the types and the packet in the pump's hand.
LEMMA TypeStep == TypeInv /\ [Next]_vars => TypeInv'
<1>. SUFFICES ASSUME TypeInv, [Next]_vars PROVE TypeInv'
  OBVIOUS
<1>. USE InputAssumption, CapacityAssumption, InputLen
     DEF TypeInv, TypeOK, FlagsType, PumpType, HubType, HandHeld, Snapshots, PumpSteps, MainSteps,
         UiSteps, stopVars, pumpVars, hubVars, uiVars
<1>1. CASE PumpRead
  <2>1. cursor + 1 \in 1..Len(Input) /\ Input[cursor + 1] \in Nat
    BY <1>1, SMTT(30) DEF PumpRead
  <2>2. report' \in [packets : Nat, regressed : Nat]
    <3>1. PICK n \in {0, 1} : report' = [packets |-> report.packets + 1,
                                         regressed |-> report.regressed + n]
      BY <1>1 DEF PumpRead
    <3>2. report \in [packets : Nat, regressed : Nat]
      OBVIOUS
    <3>. QED
      BY ONLY <3>1, <3>2, ReportGrows
  <2>3. lastTs' \in Nat \cup {NoTs}
    BY <1>1, <2>1 DEF PumpRead, NewestTs, NoTs
  <2>. QED
    BY <1>1, <2>1, <2>2, <2>3, SMTT(30) DEF PumpRead
<1>2. CASE PumpEnd
  BY <1>2 DEF PumpEnd
<1>3. CASE PumpError
  BY <1>3 DEF PumpError
<1>4. CASE PumpSend
  BY <1>4 DEF PumpSend
<1>5. CASE PumpDrop
  <2>1. FlagsType'
    BY <1>5 DEF PumpDrop
  <2>2. (PumpType /\ HubType /\ HandHeld)'
    BY <1>5 DEF PumpDrop
  <2>. QED
    BY <2>1, <2>2
<1>6. CASE Open
  BY <1>6 DEF Open
<1>7. CASE Register
  BY <1>7 DEF Register
<1>8. CASE Recv
  <2>1. /\ Head(channel) \in 1..Len(Input)
        /\ Tail(channel) \in Seq(1..Len(Input))
        /\ Len(Tail(channel)) = Len(channel) - 1
    BY <1>8, HeadTailProperties DEF Recv
  <2>2. Append(ingested, Head(channel)) \in Seq(1..Len(Input))
    BY <2>1, AppendProperties
  <2>3. Len(Tail(channel)) <= Capacity
    BY <2>1, LenProperties
  <2>. QED
    BY <1>8, <2>1, <2>2, <2>3 DEF Recv
<1>9. CASE RecvEnd
  BY <1>9 DEF RecvEnd
<1>10. CASE Observe
  BY <1>10 DEF Observe
<1>11. CASE SetProgress
  BY <1>11, SMTT(30) DEF SetProgress
<1>12. CASE Publish
  BY <1>12, SMTT(30) DEF Publish
<1>13. CASE Bump
  BY <1>13 DEF Bump, AfterBump
<1>14. CASE Join
  BY <1>14 DEF Join
<1>15. CASE SetError
  BY <1>15 DEF SetError
<1>16. CASE MarkFinished
  BY <1>16 DEF MarkFinished
<1>17. CASE UiStart
  BY <1>17 DEF UiStart
<1>18. CASE UiRefresh
  BY <1>18, SMTT(30) DEF UiRefresh
<1>19. CASE UiLatest
  BY <1>19 DEF UiLatest
<1>20. CASE UiFinished
  BY <1>20 DEF UiFinished
<1>21. CASE UiError
  BY <1>21 DEF UiError
<1>22. CASE UiKey
  BY <1>22 DEF UiKey
<1>23. CASE UiJoin
  BY <1>23 DEF UiJoin
<1>24. ASSUME NEW c \in Callers, TriggerMaster(c) PROVE TypeInv'
  BY <1>24 DEF TriggerMaster, Callers
<1>25. ASSUME NEW c \in Callers, TriggerFlags(c) PROVE TypeInv'
  BY <1>25 DEF TriggerFlags, Callers
<1>26. CASE UNCHANGED vars
  BY <1>26 DEF vars
<1>. QED
  BY <1>1, <1>2, <1>3, <1>4, <1>5, <1>6, <1>7, <1>8, <1>9, <1>10, <1>11, <1>12, <1>13, <1>14, <1>15, <1>16, <1>17, <1>18, <1>19, <1>20, <1>21, <1>22, <1>23, <1>24, <1>25, <1>26
  DEF Next, PumpStep, MainStep, UiStep, Triggering

\* Type correctness: every reachable state is well typed, the channel never
\* holds more than its capacity, and the pump holds at most one packet.
THEOREM TypeCorrect == Spec => [](TypeOK /\ HandHeld)
<1>1. Init => TypeInv
  BY TypeInit
<1>2. TypeInv /\ [Next]_vars => TypeInv'
  BY TypeStep
<1>. QED
  BY <1>1, <1>2, PTL DEF Spec, TypeInv

----------------------------------------------------------------------------
(* What the UI may rely on.                                                *)

\* The generation is one behind while a publication is half done.
HubOrder ==
  snapshot.nth = generation + (IF main \in {"bump", "bumpFinal"} THEN 1 ELSE 0)

\* What the UI remembers was published, and is on screen once fetched.
SeenPublished ==
  seen # NeverSeen => seen <= generation /\ (ui # "latest" => view.nth >= seen)

\* The UI thread triggers the stop after its loop.
UiLeft == trigger["ui"] = "flags" => ui = "quit"

\* How the pipeline thread's step bounds what the hub says of the run's end.
EndOrder ==
  /\ finished => main = "done"
  /\ main \in {"bumpFinal", "progressFinal", "totalFinal", "markFinished"} => snapshot.final
  /\ main = "markFailed" => error
  /\ main = "done" => error \/ snapshot.final
  /\ status.finished => finished

ScreenInv == HubOrder /\ SeenPublished /\ UiLeft /\ EndOrder /\ FrameHonest

\* The screen starts in order.
LEMMA ScreenInit == Init => ScreenInv
  BY DEF Init, ScreenInv, HubOrder, SeenPublished, UiLeft, EndOrder, FrameHonest,
         EmptySnapshot, Callers

\* Every step keeps what the UI relies on.
LEMMA ScreenStep == TypeInv /\ ScreenInv /\ [Next]_vars => ScreenInv'
<1>. SUFFICES ASSUME TypeInv, ScreenInv, [Next]_vars PROVE ScreenInv'
  OBVIOUS
<1>. USE InputLen
     DEF TypeInv, TypeOK, FlagsType, PumpType, HubType, Snapshots, ScreenInv, HubOrder,
         SeenPublished, UiLeft, EndOrder, FrameHonest, NeverSeen, stopVars, pumpVars, hubVars, uiVars
<1>1. CASE PumpRead
  BY <1>1 DEF PumpRead
<1>2. CASE PumpEnd
  BY <1>2 DEF PumpEnd
<1>3. CASE PumpError
  BY <1>3 DEF PumpError
<1>4. CASE PumpSend
  BY <1>4 DEF PumpSend
<1>5. CASE PumpDrop
  BY <1>5 DEF PumpDrop
<1>6. CASE Open
  BY <1>6 DEF Open
<1>7. CASE Register
  BY <1>7 DEF Register
<1>8. CASE Recv
  BY <1>8 DEF Recv
<1>9. CASE RecvEnd
  BY <1>9 DEF RecvEnd
<1>10. CASE Observe
  BY <1>10 DEF Observe
<1>11. CASE SetProgress
  BY <1>11 DEF SetProgress
<1>12. CASE Publish
  <2>1. ~finished /\ ~status.finished
    BY <1>12 DEF Publish
  <2>2. (HubOrder /\ SeenPublished)'
    BY <1>12 DEF Publish
  <2>3. EndOrder'
    BY <1>12, <2>1 DEF Publish
  <2>4. FrameHonest'
    BY <1>12, <2>1 DEF Publish
  <2>. QED
    BY <1>12, <2>2, <2>3, <2>4 DEF Publish
<1>13. CASE Bump
  BY <1>13 DEF Bump, AfterBump
<1>14. CASE Join
  BY <1>14 DEF Join
<1>15. CASE SetError
  BY <1>15 DEF SetError
<1>16. CASE MarkFinished
  BY <1>16 DEF MarkFinished
<1>17. CASE UiStart
  BY <1>17, SMTT(30) DEF UiStart
<1>18. CASE UiRefresh
  BY <1>18, SMTT(30) DEF UiRefresh
<1>19. CASE UiLatest
  BY <1>19 DEF UiLatest
<1>20. CASE UiFinished
  BY <1>20 DEF UiFinished
<1>21. CASE UiError
  BY <1>21 DEF UiError
<1>22. CASE UiKey
  BY <1>22 DEF UiKey
<1>23. CASE UiJoin
  BY <1>23 DEF UiJoin
<1>24. ASSUME NEW c \in Callers, TriggerMaster(c) PROVE ScreenInv'
  BY <1>24 DEF TriggerMaster, Callers
<1>25. ASSUME NEW c \in Callers, TriggerFlags(c) PROVE ScreenInv'
  BY <1>25 DEF TriggerFlags, Callers
<1>26. CASE UNCHANGED vars
  BY <1>26 DEF vars
<1>. QED
  BY <1>1, <1>2, <1>3, <1>4, <1>5, <1>6, <1>7, <1>8, <1>9, <1>10, <1>11, <1>12, <1>13, <1>14, <1>15, <1>16, <1>17, <1>18, <1>19, <1>20, <1>21, <1>22, <1>23, <1>24, <1>25, <1>26
  DEF Next, PumpStep, MainStep, UiStep, Triggering

\* The UI's snapshot is at least as new as the generation it remembers.
THEOREM ViewCorrect == Spec => []ViewNotOlder
<1>1. Init => TypeInv /\ ScreenInv
  BY TypeInit, ScreenInit
<1>2. TypeInv /\ ScreenInv /\ [Next]_vars => (TypeInv /\ ScreenInv)'
  BY TypeStep, ScreenStep
<1>3. ScreenInv => ViewNotOlder
  BY DEF ScreenInv, SeenPublished, ViewNotOlder
<1>. QED
  BY <1>1, <1>2, <1>3, PTL DEF Spec

\* A frame that says finished without an error follows a completed run.
THEOREM FrameCorrect == Spec => []FrameHonest
<1>1. Init => TypeInv /\ ScreenInv
  BY TypeInit, ScreenInit
<1>2. TypeInv /\ ScreenInv /\ [Next]_vars => (TypeInv /\ ScreenInv)'
  BY TypeStep, ScreenStep
<1>3. ScreenInv => FrameHonest
  BY DEF ScreenInv
<1>. QED
  BY <1>1, <1>2, <1>3, PTL DEF Spec

----------------------------------------------------------------------------
(* No packet is lost or reordered.                                         *)

Hand == IF inHand = 0 THEN <<>> ELSE <<inHand>>
Captured(n) == [i \in 1..n |-> i]

\* The first n packets, as a sequence.
LEMMA CapturedSeq ==
  ASSUME NEW n \in Nat
  PROVE  Captured(n) \in Seq(Nat) /\ Len(Captured(n)) = n
<1>1. Captured(n) \in [1..n -> Nat]
  BY DEF Captured
<1>. QED
  BY <1>1, SMTT(30)

\* Reading one more packet extends the sequence of the packets captured.
LEMMA CapturedNext ==
  ASSUME NEW n \in Nat
  PROVE  Captured(n) \o <<n + 1>> = Captured(n + 1)
<1>1. /\ Captured(n) \in Seq(Nat) /\ Len(Captured(n)) = n
      /\ Captured(n + 1) \in Seq(Nat) /\ Len(Captured(n + 1)) = n + 1
      /\ <<n + 1>> \in Seq(Nat) /\ Len(<<n + 1>>) = 1 /\ <<n + 1>>[1] = n + 1
  BY CapturedSeq
<1>2. /\ Captured(n) \o <<n + 1>> \in Seq(Nat)
      /\ Len(Captured(n) \o <<n + 1>>) = n + 1
      /\ \A i \in 1..(n + 1) : (Captured(n) \o <<n + 1>>)[i] =
           IF i <= n THEN Captured(n)[i] ELSE <<n + 1>>[i - n]
  BY <1>1, ConcatProperties
<1>3. ASSUME NEW i \in 1..(n + 1)
      PROVE  (Captured(n) \o <<n + 1>>)[i] = Captured(n + 1)[i]
  <2>1. CASE i <= n
    BY <1>2, <2>1 DEF Captured
  <2>2. CASE i = n + 1
    BY <1>1, <1>2, <2>2 DEF Captured
  <2>3. i <= n \/ i = n + 1
    OBVIOUS
  <2>. QED
    BY <2>1, <2>2, <2>3
<1>. QED
  BY <1>1, <1>2, <1>3, SeqEqual

\* Moving the head of one sequence to the end of another keeps their
\* concatenation.
LEMMA MoveHead ==
  ASSUME NEW S, NEW s \in Seq(S), NEW c \in Seq(S), c # <<>>
  PROVE  Append(s, Head(c)) \o Tail(c) = s \o c
<1>1. /\ Head(c) \in S /\ Tail(c) \in Seq(S) /\ Len(Tail(c)) = Len(c) - 1
      /\ \A i \in 1..Len(Tail(c)) : Tail(c)[i] = c[i + 1]
  BY HeadTailProperties
<1>2. <<Head(c)>> \in Seq(S) /\ Append(s, Head(c)) = s \o <<Head(c)>>
  BY <1>1, AppendIsConcat
<1>3. (s \o <<Head(c)>>) \o Tail(c) = s \o (<<Head(c)>> \o Tail(c))
  BY <1>1, <1>2, ConcatAssociative
<1>4. <<Head(c)>> \o Tail(c) = c
  <2>1. /\ <<Head(c)>> \o Tail(c) \in Seq(S)
        /\ Len(<<Head(c)>> \o Tail(c)) = Len(c)
        /\ \A i \in 1..Len(c) : (<<Head(c)>> \o Tail(c))[i] =
             IF i <= 1 THEN <<Head(c)>>[i] ELSE Tail(c)[i - 1]
    <3>1. Len(<<Head(c)>>) = 1
      OBVIOUS
    <3>. QED
      BY <1>1, <1>2, <3>1, ConcatProperties, LenProperties
  <2>2. ASSUME NEW i \in 1..Len(c) PROVE (<<Head(c)>> \o Tail(c))[i] = c[i]
    <3>1. CASE i = 1
      BY <2>1, <3>1
    <3>2. CASE i # 1
      <4>1. i - 1 \in 1..Len(Tail(c)) /\ (i - 1) + 1 = i
        BY <1>1, <3>2, LenProperties
      <4>. QED
        BY <1>1, <2>1, <3>2, <4>1
    <3>. QED
      BY <3>1, <3>2
  <2>. QED
    BY <2>1, <2>2, SeqEqual
<1>. QED
  BY <1>2, <1>3, <1>4

\* Nothing is in flight at the start.
LEMMA FifoInit == Init => FifoNoLoss
<1>1. <<>> = [i \in 1..0 |-> i]
  OBVIOUS
<1>. QED
  BY <1>1 DEF Init, FifoNoLoss

\* Only a read, a send and a receive move packets.
LEMMA FifoStep == TypeInv /\ FifoNoLoss /\ [Next]_vars => FifoNoLoss'
<1>. SUFFICES ASSUME TypeInv, FifoNoLoss, [Next]_vars PROVE FifoNoLoss'
  OBVIOUS
<1>. DEFINE S == 1..Len(Input)
<1>1. /\ ingested \in Seq(S) /\ channel \in Seq(S) /\ ingested \o channel \in Seq(S)
      /\ cursor \in 0..Len(Input) /\ inHand \in 0..Len(Input) /\ Len(Input) \in Nat
  BY InputLen, ConcatProperties DEF TypeInv, TypeOK, PumpType
<1>2. (ingested \o channel) \o Hand = Captured(cursor)
  BY DEF FifoNoLoss, Hand, Captured
<1>3. SUFFICES (ingested' \o channel') \o Hand' = Captured(cursor')
  BY DEF FifoNoLoss, Hand, Captured
<1>4. CASE PumpRead
  <2>1. /\ Hand = <<>> /\ Hand' = <<cursor + 1>> /\ cursor' = cursor + 1
        /\ ingested' = ingested /\ channel' = channel
    BY <1>1, <1>4 DEF PumpRead, TypeInv, HandHeld, Hand
  <2>2. ingested \o channel = Captured(cursor)
    BY <1>1, <1>2, <2>1, ConcatEmptySeq
  <2>3. cursor \in Nat
    BY <1>1
  <2>. QED
    BY <2>1, <2>2, <2>3, CapturedNext
<1>5. CASE PumpSend
  <2>1. /\ inHand \in S /\ Hand = <<inHand>> /\ Hand' = <<>> /\ cursor' = cursor
        /\ ingested' = ingested /\ channel' = Append(channel, inHand)
    BY <1>1, <1>5 DEF PumpSend, TypeInv, HandHeld, Hand, pumpVars
  <2>2. <<inHand>> \in Seq(S) /\ channel' = channel \o <<inHand>> /\ channel' \in Seq(S)
    BY <1>1, <2>1, AppendIsConcat, AppendProperties
  <2>3. ingested \o channel' = (ingested \o channel) \o <<inHand>>
    BY <1>1, <2>2, ConcatAssociative
  <2>4. ingested \o channel' \in Seq(S)
    BY <1>1, <2>2, ConcatProperties
  <2>. QED
    BY <1>2, <2>1, <2>3, <2>4, ConcatEmptySeq
<1>6. CASE Recv
  <2>1. /\ Hand' = Hand /\ cursor' = cursor /\ channel # <<>>
        /\ ingested' = Append(ingested, Head(channel)) /\ channel' = Tail(channel)
    BY <1>6 DEF Recv, Hand, pumpVars
  <2>2. ingested' \o channel' = ingested \o channel
    BY <1>1, <2>1, MoveHead
  <2>. QED
    BY <1>2, <2>1, <2>2
<1>7. SUFFICES ASSUME ~PumpRead, ~PumpSend, ~Recv
               PROVE  UNCHANGED <<ingested, channel, inHand, cursor>>
  BY <1>2, <1>4, <1>5, <1>6, <1>7 DEF Hand
<1>8. CASE PumpEnd \/ PumpError \/ PumpDrop
  BY <1>8 DEF PumpEnd, PumpError, PumpDrop
<1>9. CASE Open \/ Register \/ RecvEnd \/ Observe \/ SetProgress
  BY <1>9 DEF Open, Register, RecvEnd, Observe, SetProgress, pumpVars
<1>10. CASE Publish \/ Bump \/ Join \/ SetError \/ MarkFinished
  BY <1>10 DEF Publish, Bump, Join, SetError, MarkFinished, pumpVars
<1>11. CASE UiStep
  BY <1>11 DEF UiStep, UiStart, UiRefresh, UiLatest, UiFinished, UiError, UiKey, UiJoin, pumpVars
<1>12. CASE Triggering
  BY <1>12 DEF Triggering, TriggerMaster, TriggerFlags, pumpVars
<1>13. CASE UNCHANGED vars
  BY <1>13 DEF vars, pumpVars
<1>. QED
  BY <1>7, <1>8, <1>9, <1>10, <1>11, <1>12, <1>13 DEF Next, PumpStep, MainStep

\* Every packet taken from the source is folded, in the channel or in hand,
\* once and in order, for every input, capacity and interleaving.
THEOREM FifoCorrect == Spec => []FifoNoLoss
<1>1. Init => TypeInv /\ FifoNoLoss
  BY TypeInit, FifoInit
<1>2. TypeInv /\ FifoNoLoss /\ [Next]_vars => (TypeInv /\ FifoNoLoss)'
  BY TypeStep, FifoStep
<1>. QED
  BY <1>1, <1>2, PTL DEF Spec

----------------------------------------------------------------------------
(* The refinement of CaptureFeed.                                          *)

\* Where the pipeline thread is after the join, or after open_source failed.
Ending ==
  {"publishFinal", "bumpFinal", "progressFinal", "totalFinal", "markFinished", "setError",
   "markFailed", "done"}

\* The end of a run comes in order: the sender goes with the pump, and the
\* pipeline thread leaves an empty channel and a pump that is done.
DrainOrder ==
  /\ ~senderOpen => pump = "done"
  /\ main = "join" => ~senderOpen /\ channel = <<>>
  /\ main = "publishFinal" => pump = "done" /\ channel = <<>>
  /\ main \in Ending => pump \in {"unborn", "done"}

\* The hub shows no more than was folded, all that was captured once the last
\* snapshot is in, and an error only of a run that fails.
ShownOrder ==
  /\ snapshot.count <= Len(ingested)
  /\ main \in {"bumpFinal", "progressFinal", "totalFinal", "markFinished"} => snapshot.count = cursor
  /\ error => main \in {"markFailed", "done"}

FeedInv == DrainOrder /\ ShownOrder

\* The run starts in order.
LEMMA FeedInit == Init => FeedInv
<1>1. Len(<<>>) = 0
  OBVIOUS
<1>. QED
  BY <1>1 DEF Init, FeedInv, DrainOrder, ShownOrder, Ending, EmptySnapshot

\* No more is folded than was captured, and with nothing in the channel and in
\* the pump's hand just as much.
LEMMA FoldedCaptured ==
  ASSUME TypeInv, FifoNoLoss
  PROVE  /\ Len(ingested) \in Nat /\ Len(ingested) <= cursor
         /\ channel = <<>> /\ inHand = 0 => Len(ingested) = cursor
<1>1. /\ ingested \in Seq(1..Len(Input)) /\ channel \in Seq(1..Len(Input))
      /\ cursor \in Nat /\ inHand \in 0..Len(Input)
  BY InputLen DEF TypeInv, TypeOK, PumpType
<1>2. Hand \in Seq(1..Len(Input)) /\ (inHand = 0 => Hand = <<>>)
  <2>1. CASE inHand = 0
    BY <2>1 DEF Hand
  <2>2. CASE inHand # 0
    <3>1. inHand \in 1..Len(Input)
      BY <1>1, <2>2, InputLen
    <3>. QED
      BY <2>2, <3>1 DEF Hand
  <2>. QED
    BY <2>1, <2>2
<1>3. (ingested \o channel) \o Hand = Captured(cursor)
  BY DEF FifoNoLoss, Hand, Captured
<1>4. ingested \o channel \in Seq(1..Len(Input)) /\ Len(ingested \o channel) = Len(ingested) + Len(channel)
  BY <1>1, ConcatProperties
<1>5. Len((ingested \o channel) \o Hand) = Len(ingested) + Len(channel) + Len(Hand)
  BY <1>2, <1>4, ConcatProperties
<1>6. Len(Captured(cursor)) = cursor
  BY <1>1, CapturedSeq
<1>7. Len(ingested) \in Nat /\ Len(channel) \in Nat /\ Len(Hand) \in Nat
  BY <1>1, <1>2
<1>8. channel = <<>> /\ inHand = 0 => Len(channel) = 0 /\ Len(Hand) = 0
  BY <1>2
<1>. QED
  BY <1>3, <1>5, <1>6, <1>7, <1>8

\* Every step keeps the order in which a run ends.
LEMMA FeedStep == TypeInv /\ FifoNoLoss /\ ScreenInv /\ FeedInv /\ [Next]_vars => FeedInv'
<1>. SUFFICES ASSUME TypeInv, FifoNoLoss, ScreenInv, FeedInv, [Next]_vars PROVE FeedInv'
  OBVIOUS
<1>1. /\ Len(ingested) \in Nat /\ Len(ingested) <= cursor /\ cursor \in Nat
      /\ channel = <<>> /\ inHand = 0 => Len(ingested) = cursor
  BY FoldedCaptured, InputLen DEF TypeInv, TypeOK, PumpType
<1>2. snapshot.count \in Nat
  BY DEF TypeInv, TypeOK, HubType, Snapshots
<1>3. /\ main \in {"open", "register"} => pump = "unborn"
      /\ pump # "send" => inHand = 0
  BY DEF TypeInv, HandHeld
<1>. USE DEF FeedInv, DrainOrder, ShownOrder, Ending, stopVars, pumpVars, hubVars, uiVars
<1>4. CASE PumpStep
  BY <1>1, <1>2, <1>3, <1>4 DEF PumpStep, PumpRead, PumpEnd, PumpError, PumpSend, PumpDrop
<1>5. CASE Open \/ Register \/ RecvEnd \/ Observe \/ SetProgress \/ Join \/ SetError \/ MarkFinished
  BY <1>1, <1>2, <1>3, <1>5 DEF Open, Register, RecvEnd, Observe, SetProgress, Join, SetError, MarkFinished
<1>6. CASE Recv
  <2>1. Len(ingested') = Len(ingested) + 1
    BY <1>6, InputLen DEF Recv, TypeInv, TypeOK, PumpType
  <2>. QED
    BY <1>1, <1>2, <1>6, <2>1 DEF Recv
<1>7. CASE Publish
  BY <1>1, <1>2, <1>3, <1>7 DEF Publish
<1>8. CASE Bump
  BY <1>1, <1>2, <1>8 DEF Bump, AfterBump
<1>9. CASE UiStep
  BY <1>9 DEF UiStep, UiStart, UiRefresh, UiLatest, UiFinished, UiError, UiKey, UiJoin
<1>10. CASE Triggering
  BY <1>10 DEF Triggering, TriggerMaster, TriggerFlags
<1>11. CASE UNCHANGED vars
  BY <1>11 DEF vars
<1>. QED
  BY <1>4, <1>5, <1>6, <1>7, <1>8, <1>9, <1>10, <1>11 DEF Next, MainStep

\* Every step of the threads is a step of the feed or leaves it alone: reading
\* takes a packet, publishing shows what is folded, marking the end completes
\* the run or fails it.
LEMMA FeedSimulation ==
  ASSUME TypeInv, FifoNoLoss, ScreenInv, FeedInv, [Next]_vars
  PROVE  [Feed!FeedNext]_(Feed!feed)
<1>1. /\ Len(ingested) \in Nat /\ Len(ingested) <= cursor /\ cursor \in Nat
      /\ snapshot.count \in Nat /\ snapshot.count <= Len(ingested)
  BY FoldedCaptured, InputLen DEF TypeInv, TypeOK, PumpType, HubType, Snapshots, FeedInv, ShownOrder
<1>2. finished => main = "done"
  BY DEF ScreenInv, EndOrder
<1>. USE DEF Feed!feed, Feed!FeedNext, Outcome, stopVars, pumpVars, hubVars, uiVars
<1>3. CASE PumpRead
  <2>1. ~finished
    BY <1>2, <1>3 DEF PumpRead, FeedInv, DrainOrder, Ending
  <2>. QED
    BY <1>3, <2>1 DEF PumpRead, Feed!Take
<1>4. CASE Publish
  <2>1. ~finished /\ snapshot'.count = Len(ingested)
    BY <1>2, <1>4 DEF Publish
  <2>. QED
    BY <1>1, <1>4, <2>1 DEF Publish, Feed!Show
<1>5. CASE MarkFinished
  <2>1. ~finished
    BY <1>2, <1>5 DEF MarkFinished
  <2>2. CASE main = "markFinished"
    BY <1>5, <2>1, <2>2 DEF MarkFinished, Feed!Complete, FeedInv, ShownOrder
  <2>3. CASE main = "markFailed"
    BY <1>5, <2>1, <2>3 DEF MarkFinished, Feed!Fail, ScreenInv, EndOrder
  <2>. QED
    BY <1>5, <2>2, <2>3 DEF MarkFinished
<1>6. CASE SetError
  BY <1>2, <1>6 DEF SetError
<1>7. CASE PumpEnd \/ PumpError \/ PumpSend \/ PumpDrop
  BY <1>7 DEF PumpEnd, PumpError, PumpSend, PumpDrop
<1>8. CASE Open \/ Register \/ Recv \/ RecvEnd \/ Observe \/ SetProgress \/ Bump \/ Join
  BY <1>8 DEF Open, Register, Recv, RecvEnd, Observe, SetProgress, Bump, Join
<1>9. CASE UiStep
  BY <1>9 DEF UiStep, UiStart, UiRefresh, UiLatest, UiFinished, UiError, UiKey, UiJoin
<1>10. CASE Triggering
  BY <1>10 DEF Triggering, TriggerMaster, TriggerFlags
<1>11. CASE UNCHANGED vars
  BY <1>11 DEF vars
<1>. QED
  BY <1>3, <1>4, <1>5, <1>6, <1>7, <1>8, <1>9, <1>10, <1>11 DEF Next, PumpStep, MainStep

\* The threads, the channel, the flags and the hub together keep the promise
\* of CaptureFeed to the hub's readers, for every source, input, capacity,
\* limit and failure: what is shown follows what was captured, and a run ends
\* once, complete with every captured packet in the snapshot, or failed.
THEOREM FeedCorrect == Spec => ImplementsFeed
<1>. DEFINE I == TypeInv /\ FifoNoLoss /\ ScreenInv /\ FeedInv
<1>1. Init => I
  BY TypeInit, FifoInit, ScreenInit, FeedInit
<1>2. I /\ [Next]_vars => I'
  BY TypeStep, FifoStep, ScreenStep, FeedStep
<1>3. Init => Feed!FeedInit
  BY DEF Init, EmptySnapshot, Feed!FeedInit, Outcome
<1>4. I /\ [Next]_vars => [Feed!FeedNext]_(Feed!feed)
  BY FeedSimulation
<1>. QED
  BY <1>1, <1>2, <1>3, <1>4, PTL DEF Spec, ImplementsFeed, Feed!FeedSpec
=============================================================================
