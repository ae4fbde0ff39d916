---------------------------- MODULE CaptureFeed ----------------------------
(***************************************************************************)
(* What a run promises the readers of its hub, without threads, channel or *)
(* flags: the published count follows the packets taken from the source,   *)
(* never backwards and never ahead; the run ends once, either complete,    *)
(* with every taken packet shown, or failed; and the end is for good.      *)
(***************************************************************************)
EXTENDS Naturals

VARIABLES taken, shown, outcome

feed == <<taken, shown, outcome>>

FeedInit == taken = 0 /\ shown = 0 /\ outcome = "running"

Take == taken' = taken + 1 /\ UNCHANGED <<shown, outcome>>
Show == shown' \in (shown + 1)..taken /\ UNCHANGED <<taken, outcome>>
Complete == shown = taken /\ outcome' = "complete" /\ UNCHANGED <<taken, shown>>
Fail == outcome' = "failed" /\ UNCHANGED <<taken, shown>>

FeedNext == outcome = "running" /\ (Take \/ Show \/ Complete \/ Fail)

FeedSpec == FeedInit /\ [][FeedNext]_feed
=============================================================================
