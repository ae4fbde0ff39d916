------------------------------ MODULE Pipeline ------------------------------
(***************************************************************************)
(* One capture run behind the terminal UI (pktflow-cli run.rs): the pump   *)
(* thread reads packets and sends them over a bounded channel, the         *)
(* pipeline thread folds them and publishes snapshots into a hub, and the  *)
(* UI thread draws from the hub until the user quits, which stops the run. *)
(*                                                                         *)
(* Every atomic access and every critical section of the hub and of the    *)
(* stop flags is a step of its own: they are all that the threads share    *)
(* besides the channel.  A packet is its position in Input, where its      *)
(* capture timestamp stands; folding it is the business of StreamStore.    *)
(***************************************************************************)
EXTENDS Integers, Sequences, FiniteSets

CONSTANTS
  Kinds,      \* of "file" (StopWrap over FileSource) and "live" (LiveSource)
  Input,      \* the timestamps of the packets the source holds or receives
  Capacity,   \* CHANNEL_CAPACITY
  Limits,     \* values of the -c option, NoLimit among them
  MayFail     \* whether opening and reading may report an error

NoLimit == -1
Callers == {"sigint", "ui"}   \* who may call StopFlags::trigger

ASSUME KindsAssumption == Kinds \subseteq {"file", "live"}
ASSUME InputAssumption == Input \in Seq(Nat)
ASSUME CapacityAssumption == Capacity \in Nat \ {0}
ASSUME LimitsAssumption == Limits \subseteq Nat \cup {NoLimit}
ASSUME FailAssumption == MayFail \in BOOLEAN

VARIABLES
  kind, limit,                \* the source of this run, and its -c option
  master, flag, registered,   \* StopFlags.master; LiveSource.stop; is it in extra
  trigger,                    \* how far each caller is in trigger()
  pump, cursor, inHand,       \* pump thread: its step, packets read, packet being sent
  report, lastTs, failed,     \* PumpReport; last_ts; did pump() return Err
  channel, senderOpen,        \* the sync_channel, and whether tx is alive
  main, ingested,             \* pipeline thread: its step, the packets folded
  snapshot, generation, finished, error, progress,   \* SnapshotHub
  ui, paused, seen, view, status   \* event_loop: its step and its locals

options == <<kind, limit>>
stopVars == <<master, flag, registered, trigger>>
pumpVars == <<pump, cursor, inHand, report, lastTs, failed>>
hubVars == <<snapshot, generation, finished, error, progress>>
uiVars == <<ui, paused, seen, view, status>>
vars == <<options, stopVars, pumpVars, channel, senderOpen, main, ingested, hubVars, uiVars>>

NoTs == -1
NeverSeen == -1          \* u64::MAX: no generation equals it
NoProgress == [read |-> 0, total |-> 0]

\* nth numbers the publications; count is the packets a snapshot covers;
\* final tells the snapshot taken after finish().
Snapshots == [nth : Nat, count : Nat, final : BOOLEAN]
EmptySnapshot == [nth |-> 0, count |-> 0, final |-> FALSE]

PumpSteps == {"unborn", "read", "send", "drop", "done"}
MainSteps ==
  {"open", "register", "recv", "observe", "progress", "total", "publish", "bump",
   "join", "publishFinal", "bumpFinal", "progressFinal", "totalFinal", "markFinished",
   "setError", "markFailed", "done"}
UiSteps == {"start", "refresh", "latest", "finished", "error", "key", "quit", "join", "exit"}

FlagsType ==
  /\ master \in BOOLEAN /\ flag \in BOOLEAN /\ registered \in BOOLEAN
  /\ failed \in BOOLEAN /\ senderOpen \in BOOLEAN
  /\ finished \in BOOLEAN /\ error \in BOOLEAN /\ paused \in BOOLEAN
  /\ status \in [finished : BOOLEAN, error : BOOLEAN]

PumpType ==
  /\ pump \in PumpSteps
  /\ cursor \in 0..Len(Input) /\ inHand \in 0..Len(Input)
  /\ report \in [packets : Nat, regressed : Nat]
  /\ lastTs \in Nat \cup {NoTs}
  /\ channel \in Seq(1..Len(Input)) /\ Len(channel) <= Capacity
  /\ ingested \in Seq(1..Len(Input))

HubType ==
  /\ trigger \in [Callers -> {"idle", "flags", "done"}]
  /\ main \in MainSteps
  /\ snapshot \in Snapshots /\ generation \in Nat
  /\ progress \in [read : Nat, total : Nat]
  /\ ui \in UiSteps /\ seen \in Nat \cup {NeverSeen} /\ view \in Snapshots

TypeOK == FlagsType /\ PumpType /\ HubType

Init ==
  /\ kind \in Kinds /\ limit \in Limits
  /\ master = FALSE /\ flag = FALSE /\ registered = FALSE
  /\ trigger = [c \in Callers |-> "idle"]
  /\ pump = "unborn" /\ cursor = 0 /\ inHand = 0
  /\ report = [packets |-> 0, regressed |-> 0]
  /\ lastTs = NoTs /\ failed = FALSE
  /\ channel = <<>> /\ senderOpen = TRUE
  /\ main = "open" /\ ingested = <<>>
  /\ snapshot = EmptySnapshot
  /\ generation = 0 /\ finished = FALSE /\ error = FALSE /\ progress = NoProgress
  /\ ui = "start" /\ paused = FALSE /\ seen = NeverSeen /\ view = EmptySnapshot
  /\ status = [finished |-> FALSE, error |-> FALSE]

----------------------------------------------------------------------------
(* StopFlags::trigger, from the Ctrl-C handler or after the UI returned.   *)

TriggerMaster(c) ==
  /\ trigger[c] = "idle"
  /\ c = "ui" => ui = "quit"
  /\ master' = TRUE
  /\ trigger' = [trigger EXCEPT ![c] = "flags"]
  /\ UNCHANGED <<options, flag, registered, pumpVars, channel, senderOpen, main, ingested,
                 hubVars, uiVars>>

\* Under the lock of extra: every flag registered so far is set.
TriggerFlags(c) ==
  /\ trigger[c] = "flags"
  /\ flag' = (flag \/ registered)
  /\ trigger' = [trigger EXCEPT ![c] = "done"]
  /\ ui' = IF c = "ui" THEN "join" ELSE ui
  /\ UNCHANGED <<options, master, registered, pumpVars, channel, senderOpen, main, ingested,
                 hubVars,
                 paused, seen, view, status>>

----------------------------------------------------------------------------
(* The pump thread.                                                        *)

\* Mutant of StopSeen: the read loop does not look at the flag again.
StopSeenNever == FALSE

\* The flag next_packet looks at before it reads.
StopSeen == IF kind = "file" THEN master ELSE flag

LimitReached == limit # NoLimit /\ report.packets >= limit

\* Whether the packet's timestamp is behind the newest one read so far.
Regresses(ts) == lastTs # NoTs /\ ts < lastTs

NewestTs(ts) == IF ts > lastTs THEN ts ELSE lastTs

PumpRead ==
  /\ pump = "read"
  /\ ~LimitReached
  /\ ~StopSeen
  /\ cursor < Len(Input)
  /\ LET ts == Input[cursor + 1]
     IN  /\ report' = [packets |-> report.packets + 1,
                       regressed |-> report.regressed + (IF Regresses(ts) THEN 1 ELSE 0)]
         /\ lastTs' = NewestTs(ts)
  /\ cursor' = cursor + 1
  /\ inHand' = cursor + 1
  /\ pump' = "send"
  /\ UNCHANGED <<options, stopVars, failed, channel, senderOpen, main, ingested, hubVars, uiVars>>

\* A clean end: the limit, a stop, or the end of a file.  An interface with
\* nothing to read is polled again, which changes nothing.
PumpEnds ==
  LimitReached \/ StopSeen \/ (kind = "file" /\ cursor = Len(Input))

PumpEnd ==
  /\ pump = "read"
  /\ PumpEnds
  /\ pump' = "drop"
  /\ UNCHANGED <<options, stopVars, cursor, inHand, report, lastTs, failed, channel,
                 senderOpen, main,
                 ingested, hubVars, uiVars>>

PumpError ==
  /\ pump = "read"
  /\ MayFail
  /\ ~LimitReached
  /\ ~StopSeen
  /\ failed' = TRUE
  /\ pump' = "drop"
  /\ UNCHANGED <<options, stopVars, cursor, inHand, report, lastTs, channel, senderOpen, main,
                 ingested,
                 hubVars, uiVars>>

\* Mutant of PumpSend: try_send, which drops the packet when the channel is full.
PumpSendTry ==
  /\ pump = "send"
  /\ channel' = IF Len(channel) < Capacity THEN Append(channel, inHand) ELSE channel
  /\ inHand' = 0
  /\ pump' = "read"
  /\ UNCHANGED <<options, stopVars, cursor, report, lastTs, failed, senderOpen, main, ingested,
                 hubVars, uiVars>>

\* The send blocks while the channel is full.  The receiver outlives the
\* sender, so it never fails.
PumpSend ==
  /\ pump = "send"
  /\ Len(channel) < Capacity
  /\ channel' = Append(channel, inHand)
  /\ inHand' = 0
  /\ pump' = "read"
  /\ UNCHANGED <<options, stopVars, cursor, report, lastTs, failed, senderOpen, main, ingested,
                 hubVars, uiVars>>

\* Mutant of PumpDrop: the sender is kept when pump() fails.
PumpDropOnSuccess ==
  /\ pump = "drop"
  /\ senderOpen' = failed
  /\ pump' = "done"
  /\ UNCHANGED <<options, stopVars, cursor, inHand, report, lastTs, failed, channel, main, ingested,
                 hubVars, uiVars>>

PumpDrop ==
  /\ pump = "drop"
  /\ senderOpen' = FALSE
  /\ pump' = "done"
  /\ UNCHANGED <<options, stopVars, cursor, inHand, report, lastTs, failed, channel, main, ingested,
                 hubVars, uiVars>>

----------------------------------------------------------------------------
(* The pipeline thread.                                                    *)

\* open_source; a file needs no registration, so its pump starts at once.
Open ==
  /\ main = "open"
  /\ \/ /\ kind = "live"
        /\ main' = "register"
        /\ pump' = pump
     \/ /\ kind = "file"
        /\ main' = "recv"
        /\ pump' = "read"
     \/ /\ MayFail
        /\ main' = "setError"
        /\ pump' = pump
  /\ UNCHANGED <<options, stopVars, cursor, inHand, report, lastTs, failed, channel,
                 senderOpen, ingested,
                 hubVars, uiVars>>

Register ==
  /\ main = "register"
  /\ registered' = TRUE
  /\ main' = "recv"
  /\ pump' = "read"
  /\ UNCHANGED <<options, master, flag, trigger, cursor, inHand, report, lastTs, failed,
                 channel, senderOpen,
                 ingested, hubVars, uiVars>>

Recv ==
  /\ main = "recv"
  /\ channel # <<>>
  /\ ingested' = Append(ingested, Head(channel))
  /\ channel' = Tail(channel)
  /\ main' = "observe"
  /\ UNCHANGED <<options, stopVars, pumpVars, senderOpen, hubVars, uiVars>>

\* Mutant of RecvEnd: try_iter, which ends when the channel is empty.
RecvEndEarly ==
  /\ main = "recv"
  /\ channel = <<>>
  /\ main' = "join"
  /\ UNCHANGED <<options, stopVars, pumpVars, channel, senderOpen, ingested, hubVars, uiVars>>

\* The iterator ends when the channel is empty and its sender is gone.
RecvEnd ==
  /\ main = "recv"
  /\ channel = <<>>
  /\ ~senderOpen
  /\ main' = "join"
  /\ UNCHANGED <<options, stopVars, pumpVars, channel, senderOpen, ingested, hubVars, uiVars>>

\* The publish throttle: due on the first packet, then when the clock says so.
Observe ==
  /\ main = "observe"
  /\ \/ main' = IF kind = "file" THEN "progress" ELSE "publish"
     \/ generation > 0 /\ main' = "recv"
  /\ UNCHANGED <<options, stopVars, pumpVars, channel, senderOpen, ingested, hubVars, uiVars>>

\* Progress is measured in packets of a file of Len(Input) packets; what was
\* read is stored first and the total after it.
SetProgress ==
  /\ \/ main = "progress" /\ progress' = [progress EXCEPT !.read = Len(ingested)] /\ main' = "total"
     \/ main = "progressFinal" /\ progress' = [progress EXCEPT !.read = Len(Input)]
        /\ main' = "totalFinal"
     \/ main = "total" /\ progress' = [progress EXCEPT !.total = Len(Input)] /\ main' = "publish"
     \/ main = "totalFinal" /\ progress' = [progress EXCEPT !.total = Len(Input)]
        /\ main' = "markFinished"
  /\ UNCHANGED <<options, stopVars, pumpVars, channel, senderOpen, ingested, snapshot, generation,
                 finished, error, uiVars>>

\* Mutant of Publish: try_write, which gives up when a reader holds the lock.
PublishTry ==
  /\ main \in {"publish", "publishFinal"}
  /\ snapshot' \in {snapshot, [nth |-> snapshot.nth + 1, count |-> Len(ingested),
                               final |-> main = "publishFinal"]}
  /\ main' = IF main = "publish" THEN "bump" ELSE "bumpFinal"
  /\ UNCHANGED <<options, stopVars, pumpVars, channel, senderOpen, ingested, generation,
                 finished, error,
                 progress, uiVars>>

\* publish() replaces the snapshot under its lock ...
Publish ==
  /\ main \in {"publish", "publishFinal"}
  /\ snapshot' = [nth |-> snapshot.nth + 1, count |-> Len(ingested),
                  final |-> main = "publishFinal"]
  /\ main' = IF main = "publish" THEN "bump" ELSE "bumpFinal"
  /\ UNCHANGED <<options, stopVars, pumpVars, channel, senderOpen, ingested, generation,
                 finished, error,
                 progress, uiVars>>

\* ... and then counts the publication.
AfterBump(step) ==
  IF step = "bump" THEN "recv" ELSE IF kind = "file" THEN "progressFinal" ELSE "markFinished"

\* Mutant of Bump: the last snapshot is not counted.
BumpNotFinal ==
  /\ main \in {"bump", "bumpFinal"}
  /\ generation' = IF main = "bump" THEN generation + 1 ELSE generation
  /\ main' = AfterBump(main)
  /\ UNCHANGED <<options, stopVars, pumpVars, channel, senderOpen, ingested, snapshot,
                 finished, error,
                 progress, uiVars>>

Bump ==
  /\ main \in {"bump", "bumpFinal"}
  /\ generation' = generation + 1
  /\ main' = AfterBump(main)
  /\ UNCHANGED <<options, stopVars, pumpVars, channel, senderOpen, ingested, snapshot,
                 finished, error,
                 progress, uiVars>>

\* The pump's result decides: finish() and a last snapshot, or the error.
Join ==
  /\ main = "join"
  /\ pump = "done"
  /\ main' = IF failed THEN "setError" ELSE "publishFinal"
  /\ UNCHANGED <<options, stopVars, pumpVars, channel, senderOpen, ingested, hubVars, uiVars>>

\* Mutant of SetError: try_lock, which gives up when a reader holds the lock.
SetErrorTry ==
  /\ main = "setError"
  /\ error' \in BOOLEAN
  /\ main' = "markFailed"
  /\ UNCHANGED <<options, stopVars, pumpVars, channel, senderOpen, ingested, snapshot,
                 generation, finished,
                 progress, uiVars>>

\* set_error: the message first, then mark_finished.
SetError ==
  /\ main = "setError"
  /\ error' = TRUE
  /\ main' = "markFailed"
  /\ UNCHANGED <<options, stopVars, pumpVars, channel, senderOpen, ingested, snapshot,
                 generation, finished,
                 progress, uiVars>>

MarkFinished ==
  /\ main \in {"markFinished", "markFailed"}
  /\ finished' = TRUE
  /\ main' = "done"
  /\ UNCHANGED <<options, stopVars, pumpVars, channel, senderOpen, ingested, snapshot,
                 generation, error,
                 progress, uiVars>>

----------------------------------------------------------------------------
(* The UI thread: a turn of event_loop is refresh, status, draw and key.   *)

\* The first view; without a terminal the UI returns at once.
UiStart ==
  /\ ui = "start"
  /\ \/ view' = snapshot /\ ui' = "refresh"
     \/ view' = view /\ ui' = "quit"
  /\ UNCHANGED <<options, stopVars, pumpVars, channel, senderOpen, main, ingested, hubVars,
                 paused, seen, status>>

UiRefresh ==
  /\ ui = "refresh"
  /\ IF ~paused /\ generation # seen
       THEN seen' = generation /\ ui' = "latest"
       ELSE seen' = seen /\ ui' = "finished"
  /\ UNCHANGED <<options, stopVars, pumpVars, channel, senderOpen, main, ingested, hubVars,
                 paused, view, status>>

UiLatest ==
  /\ ui = "latest"
  /\ view' = snapshot
  /\ ui' = "finished"
  /\ UNCHANGED <<options, stopVars, pumpVars, channel, senderOpen, main, ingested, hubVars,
                 paused, seen, status>>

UiFinished ==
  /\ ui = "finished"
  /\ status' = [finished |-> finished, error |-> status.error]
  /\ ui' = "error"
  /\ UNCHANGED <<options, stopVars, pumpVars, channel, senderOpen, main, ingested, hubVars,
                 paused, seen, view>>

\* The last field of the status, and the frame is drawn from it.
UiError ==
  /\ ui = "error"
  /\ status' = [finished |-> status.finished, error |-> error]
  /\ ui' = "key"
  /\ UNCHANGED <<options, stopVars, pumpVars, channel, senderOpen, main, ingested, hubVars,
                 paused, seen, view>>

\* No key within the tick, a key that changes nothing here, pause, or quit.
UiKey ==
  /\ ui = "key"
  /\ \/ ui' = "refresh" /\ paused' \in BOOLEAN
     \/ ui' = "quit" /\ paused' = paused
  /\ UNCHANGED <<options, stopVars, pumpVars, channel, senderOpen, main, ingested, hubVars,
                 seen, view, status>>

\* dispatch waits for the pipeline before the process ends.
UiJoin ==
  /\ ui = "join"
  /\ main = "done"
  /\ ui' = "exit"
  /\ UNCHANGED <<options, stopVars, pumpVars, channel, senderOpen, main, ingested, hubVars,
                 paused, seen, view, status>>

----------------------------------------------------------------------------
PumpStep == PumpRead \/ PumpEnd \/ PumpError \/ PumpSend \/ PumpDrop
MainStep ==
  \/ Open \/ Register \/ Recv \/ RecvEnd \/ Observe \/ SetProgress
  \/ Publish \/ Bump \/ Join \/ SetError \/ MarkFinished
UiStep == UiStart \/ UiRefresh \/ UiLatest \/ UiFinished \/ UiError \/ UiKey \/ UiJoin
Triggering == \E c \in Callers : TriggerMaster(c) \/ TriggerFlags(c)

Next == PumpStep \/ MainStep \/ UiStep \/ Triggering

Spec == Init /\ [][Next]_vars

\* Threads that can run do run.  Nobody owes the user a Ctrl-C or a quit, nor
\* an interface a packet: PumpRead of a live source, TriggerMaster of the
\* handler and UiKey's choice are left to happen or not.
Fairness ==
  /\ WF_vars(PumpEnd \/ PumpSend \/ PumpDrop)
  /\ WF_vars(kind = "file" /\ PumpRead)
  /\ WF_vars(MainStep)
  /\ WF_vars(UiStep)
  /\ WF_vars(TriggerMaster("ui"))
  /\ \A c \in Callers : WF_vars(TriggerFlags(c))

FairSpec == Spec /\ Fairness

----------------------------------------------------------------------------
(* Properties.                                                             *)

\* Every packet the pump took from the source is folded, waiting in the
\* channel or in the pump's hand, once and in capture order, whatever the
\* threads' speeds, the capacity, a stop or a failing read.
FifoNoLoss ==
  ingested \o channel \o (IF inHand = 0 THEN <<>> ELSE <<inHand>>) = [i \in 1..cursor |-> i]

\* The snapshot the UI holds is at least as new as the generation it remembers
\* having seen, though it reads the two in separate steps: it never waits on a
\* generation whose snapshot it missed.
ViewNotOlder ==
  ui # "latest" /\ seen # NeverSeen => view.nth >= seen

\* A frame that says finished and shows no error is drawn only when the run
\* did complete: the status is read field by field while set_error runs.
FrameHonest ==
  ui = "key" /\ status.finished /\ ~status.error => snapshot.final

\* A stop that can reach the source ends the run, also on a quiet interface, and
\* a quit of the UI the process: neither the join of the pipeline nor the send
\* into a full channel waits for ever.
StopEnds ==
  /\ \A c \in Callers :
       (trigger[c] = "flags" /\ (kind = "file" \/ registered)) ~> (main = "done")
  /\ (ui = "quit" /\ (kind = "file" \/ registered)) ~> (ui = "exit")

\* run.rs, "so a single trigger unblocks quiet interfaces too": quitting the UI
\* ends the process, whenever it comes.
QuitExits == (ui = "quit") ~> (ui = "exit")

\* The final snapshot reaches the screen unless the user paused or left.
ViewCatchesUp ==
  (finished /\ ~error) ~> (view.final \/ paused \/ ui \in {"quit", "join", "exit"})

\* The pipeline implements the promise of CaptureFeed to the hub's readers.
Outcome == IF ~finished THEN "running" ELSE IF error THEN "failed" ELSE "complete"
Feed == INSTANCE CaptureFeed WITH taken <- cursor, shown <- snapshot.count, outcome <- Outcome

\* What the hub shows follows what was captured, ends once, and ends complete
\* only with every captured packet in the snapshot.
ImplementsFeed == Feed!FeedSpec
=============================================================================
