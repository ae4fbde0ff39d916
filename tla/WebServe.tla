------------------------------ MODULE WebServe ------------------------------
(***************************************************************************)
(* pktflow serve: the web server's shared state (pktflow-web lib.rs), the  *)
(* pipelines that feed it, and the pages that poll it.  An upload starts a *)
(* fresh pipeline with a fresh hub and swaps the served hub; a page asks   *)
(* again when a tick shows it a generation it has not seen, whatever it    *)
(* still waits for; the view index is memoised between requests.           *)
(*                                                                         *)
(* Handlers run on two worker threads, so the steps of uploads, requests   *)
(* and pipelines interleave at every lock and atomic access.  A pipeline   *)
(* is what Pipeline shows it to be for its readers: some publications,     *)
(* the last one final, then finished.  Request parameters, the JSON built  *)
(* from an index with the source's name, and the bytes of an upload are    *)
(* left out.  Uploads come from elsewhere than the modelled pages: the     *)
(* page that uploads starts over by itself.                                *)
(***************************************************************************)
EXTENDS Naturals, FiniteSets

CONSTANTS
  Uploads,      \* the uploads that may be posted, each with its own hub
  Pages,        \* the open browser pages
  First,        \* the hub of the pipeline serve starts with
  Loads,        \* bound: the uploads and pages that take part in a run together,
                \* and the publications of each of its pipelines
  MaxInFlight   \* bound: refetches a page has in flight

Hubs == Uploads \cup {First}

\* The refetches of a page; it may have several in flight.
Requests == Pages \X (1..MaxInFlight)
PageOf(r) == r[1]

ASSUME FirstAssumption == First \notin Uploads
ASSUME BoundsAssumption ==
  /\ Loads \subseteq [uploads : SUBSET Uploads, pages : SUBSET Pages, publish : Nat \ {0}]
  /\ MaxInFlight \in Nat \ {0}

NoUpload == "none"       \* last_upload: None

ASSUME NoUploadAssumption == NoUpload \notin Uploads

NoMemo == [generation |-> 0, hub |-> First, nth |-> 0, empty |-> TRUE]

VARIABLES
  load,         \* who takes part in this run
  pipe,         \* each pipeline's state
  nth,          \* each hub's snapshot, by the number of its publication
  generation,   \* each hub's counter
  stopped,      \* each pipeline's stop flags
  active,       \* the pipeline whose flags active_stop holds
  down,         \* serve() has returned and dispatch has triggered the flags
  served,       \* WebState.hub
  memo,         \* WebState.index_memo; the hub it came from is not stored
  lastUpload,   \* WebState.last_upload
  files,        \* the uploads whose temporary file exists
  upload,       \* each upload request's state
  doomed,       \* the file each upload will remove
  request,      \* where each refetch is
  read,         \* the hub and generation index() read for it
  got,          \* the index it was given: its hub and its nth
  pageGen,      \* S.gen of each page, one more than it so that 0 is -1
  shown,        \* S.data of each page: the hub and nth of its index
  slipped       \* since its last tick a page lost an answer, or an answer
                \* that was overtaken put it back to an older snapshot

pipeVars == <<pipe, nth, generation>>
webVars == <<served, memo, lastUpload>>
uploadVars == <<files, upload, doomed>>
fetchVars == <<request, read, got>>
pageVars == <<fetchVars, pageGen, shown, slipped>>
vars == <<load, pipeVars, stopped, active, down, webVars, uploadVars, pageVars>>

Init ==
  /\ load \in Loads
  /\ pipe = [h \in Hubs |-> IF h = First THEN "running" ELSE "none"]
  /\ nth = [h \in Hubs |-> 0] /\ generation = [h \in Hubs |-> 0]
  /\ stopped = [h \in Hubs |-> FALSE]
  /\ active = First /\ served = First /\ down = FALSE
  /\ memo = NoMemo
  /\ lastUpload = NoUpload
  /\ files = {}
  /\ upload = [u \in Uploads |-> "idle"] /\ doomed = [u \in Uploads |-> NoUpload]
  \* the page's first refetch is on its way
  /\ request = [r \in Requests |-> IF PageOf(r) \in load.pages /\ r[2] = 1
                                 THEN "sent" ELSE "idle"]
  /\ read = [r \in Requests |-> [hub |-> First, generation |-> 0]]
  /\ got = [r \in Requests |-> [hub |-> First, nth |-> 0]]
  /\ pageGen = [p \in Pages |-> 0]
  /\ shown = [p \in Pages |-> [hub |-> First, nth |-> 0]]
  /\ slipped = [p \in Pages |-> FALSE]

----------------------------------------------------------------------------
(* Pipelines.                                                              *)

\* The upload's file is opened on the pipeline's own thread.
OpenFile(h) ==
  /\ pipe[h] = "starting"
  /\ pipe' = [pipe EXCEPT ![h] = IF h \in files THEN "running" ELSE "gone"]
  /\ UNCHANGED <<load, nth, generation, stopped, active, down, webVars, uploadVars, pageVars>>

\* SnapshotHub::publish, the snapshot and then the generation.
PublishSnapshot(h) ==
  /\ pipe[h] = "running"
  /\ nth[h] = generation[h]
  /\ nth[h] < load.publish
  /\ nth' = [nth EXCEPT ![h] = @ + 1]
  /\ UNCHANGED <<load, pipe, generation, stopped, active, down, webVars, uploadVars, pageVars>>

PublishGeneration(h) ==
  /\ nth[h] > generation[h]
  /\ generation' = [generation EXCEPT ![h] = @ + 1]
  /\ UNCHANGED <<load, pipe, nth, stopped, active, down, webVars, uploadVars, pageVars>>

\* mark_finished, after at least the final publication.
FinishRun(h) ==
  /\ pipe[h] = "running"
  /\ nth[h] = generation[h]
  /\ generation[h] > 0
  /\ pipe' = [pipe EXCEPT ![h] = "finished"]
  /\ UNCHANGED <<load, nth, generation, stopped, active, down, webVars, uploadVars, pageVars>>

\* set_error: a read failed, and the snapshot stays as it is.
FailRun(h) ==
  /\ pipe[h] = "running"
  /\ nth[h] = generation[h]
  /\ pipe' = [pipe EXCEPT ![h] = "failed"]
  /\ UNCHANGED <<load, nth, generation, stopped, active, down, webVars, uploadVars, pageVars>>

----------------------------------------------------------------------------
(* POST /api/upload.                                                       *)

\* The first bytes are no capture, or never come: nothing durable happened.
Reject(u) ==
  /\ ~down /\ u \in load.uploads
  /\ upload[u] = "idle"
  /\ upload' = [upload EXCEPT ![u] = "rejected"]
  /\ UNCHANGED <<load, pipeVars, stopped, active, down, webVars, files, doomed, pageVars>>

BeginSpill(u) ==
  /\ ~down /\ u \in load.uploads
  /\ upload[u] = "idle"
  /\ upload' = [upload EXCEPT ![u] = "spill"]
  /\ files' = files \cup {u}
  /\ UNCHANGED <<load, pipeVars, stopped, active, down, webVars, doomed, pageVars>>

\* Mutant of SpillFails: the partial file stays.
SpillFailsKeeps(u) ==
  /\ upload[u] = "spill"
  /\ upload' = [upload EXCEPT ![u] = "rejected"]
  /\ UNCHANGED <<load, pipeVars, stopped, active, down, webVars, files, doomed, pageVars>>

\* Over the cap, interrupted or a failed write.
SpillFails(u) ==
  /\ upload[u] = "spill"
  /\ upload' = [upload EXCEPT ![u] = "rejected"]
  /\ files' = files \ {u}
  /\ UNCHANGED <<load, pipeVars, stopped, active, down, webVars, doomed, pageVars>>

\* Mutant of Activate: the pipeline stopped is the one the page shows.
ActivateStopsServed(u) ==
  /\ upload[u] = "spill"
  /\ stopped' = [stopped EXCEPT ![served] = TRUE]
  /\ active' = u
  /\ upload' = [upload EXCEPT ![u] = "start"]
  /\ UNCHANGED <<load, pipeVars, down, webVars, files, doomed, pageVars>>

\* The spawner, under the lock of active_stop: stop the old, install the new.
Activate(u) ==
  /\ upload[u] = "spill"
  /\ stopped' = [stopped EXCEPT ![active] = TRUE]
  /\ active' = u
  /\ upload' = [upload EXCEPT ![u] = "start"]
  /\ UNCHANGED <<load, pipeVars, down, webVars, files, doomed, pageVars>>

\* The spawner gives up: the file goes, on the blocking pool, and nothing else
\* has changed.
SpawnFails(u) ==
  /\ upload[u] = "spill"
  /\ upload' = [upload EXCEPT ![u] = "undo"]
  /\ UNCHANGED <<load, pipeVars, stopped, active, down, webVars, files, doomed, pageVars>>

RemoveOwn(u) ==
  /\ upload[u] = "undo"
  /\ files' = files \ {u}
  /\ upload' = [upload EXCEPT ![u] = "rejected"]
  /\ UNCHANGED <<load, pipeVars, stopped, active, down, webVars, doomed, pageVars>>

StartPipeline(u) ==
  /\ upload[u] = "start"
  /\ pipe' = [pipe EXCEPT ![u] = "starting"]
  /\ upload' = [upload EXCEPT ![u] = "swap"]
  /\ UNCHANGED <<load, nth, generation, stopped, active, down, webVars, files, doomed,
                 pageVars>>

SwapHub(u) ==
  /\ upload[u] = "swap"
  /\ served' = u
  /\ upload' = [upload EXCEPT ![u] = "replace"]
  /\ UNCHANGED <<load, pipeVars, stopped, active, down, memo, lastUpload, files, doomed,
                 pageVars>>

ReplaceLast(u) ==
  /\ upload[u] = "replace"
  /\ lastUpload' = u
  /\ doomed' = [doomed EXCEPT ![u] = lastUpload]
  /\ upload' = [upload EXCEPT ![u] = IF lastUpload = NoUpload THEN "done" ELSE "remove"]
  /\ UNCHANGED <<load, pipeVars, stopped, active, down, served, memo, files, pageVars>>

\* On the blocking pool, whenever it gets to it.
RemoveOld(u) ==
  /\ upload[u] = "remove"
  /\ files' = files \ {doomed[u]}
  /\ upload' = [upload EXCEPT ![u] = "done"]
  /\ UNCHANGED <<load, pipeVars, stopped, active, down, webVars, doomed, pageVars>>

----------------------------------------------------------------------------
(* Pages.                                                                  *)

\* The SSE tick carries the served hub's generation.
News(p) == pageGen[p] # generation[served] + 1

\* Mutant of Tick: with a refetch in flight the news is taken for seen and
\* nothing is asked for.
TickSkips(p) ==
  /\ ~down /\ p \in load.pages
  /\ News(p)
  /\ pageGen' = [pageGen EXCEPT ![p] = generation[served] + 1]
  /\ request' = IF \A i \in 1..MaxInFlight : request[<<p, i>>] = "idle"
                THEN [request EXCEPT ![<<p, 1>>] = "sent"] ELSE request
  /\ slipped' = [slipped EXCEPT ![p] = FALSE]
  /\ UNCHANGED <<load, pipeVars, stopped, active, down, webVars, uploadVars, read, got, shown>>

\* A generation the page was not told of yet: it is taken for seen, and a
\* refetch starts beside those that are still in flight.
Tick(p) ==
  /\ ~down /\ p \in load.pages
  /\ News(p)
  /\ pageGen' = [pageGen EXCEPT ![p] = generation[served] + 1]
  /\ \E i \in 1..MaxInFlight :
       /\ request[<<p, i>>] = "idle" /\ \A j \in 1..(i - 1) : request[<<p, j>>] # "idle"
       /\ request' = [request EXCEPT ![<<p, i>>] = "sent"]
  /\ slipped' = [slipped EXCEPT ![p] = FALSE]
  /\ UNCHANGED <<load, pipeVars, stopped, active, down, webVars, uploadVars, read, got, shown>>

\* index(): hub, generation, memo, latest, memo.
ReadHub(r) ==
  /\ ~down
  /\ request[r] = "sent"
  /\ read' = [read EXCEPT ![r].hub = served]
  /\ request' = [request EXCEPT ![r] = "generation"]
  /\ UNCHANGED <<load, pipeVars, stopped, active, down, webVars, uploadVars, got, pageGen,
                 shown, slipped>>

ReadGeneration(r) ==
  /\ request[r] = "generation"
  /\ read' = [read EXCEPT ![r].generation = generation[read[r].hub]]
  /\ request' = [request EXCEPT ![r] = "memo"]
  /\ UNCHANGED <<load, pipeVars, stopped, active, down, webVars, uploadVars, got, pageGen,
                 shown, slipped>>

MemoHit(r) == ~memo.empty /\ memo.generation = read[r].generation

CheckMemo(r) ==
  /\ request[r] = "memo"
  /\ IF MemoHit(r)
       THEN /\ got' = [got EXCEPT ![r] = [hub |-> memo.hub, nth |-> memo.nth]]
            /\ request' = [request EXCEPT ![r] = "answered"]
       ELSE got' = got /\ request' = [request EXCEPT ![r] = "latest"]
  /\ UNCHANGED <<load, pipeVars, stopped, active, down, webVars, uploadVars, read, pageGen,
                 shown, slipped>>

BuildIndex(r) ==
  /\ request[r] = "latest"
  /\ got' = [got EXCEPT ![r] = [hub |-> read[r].hub, nth |-> nth[read[r].hub]]]
  /\ request' = [request EXCEPT ![r] = "store"]
  /\ UNCHANGED <<load, pipeVars, stopped, active, down, webVars, uploadVars, read, pageGen,
                 shown, slipped>>

Filed(r, g) == [generation |-> g, hub |-> got[r].hub, nth |-> got[r].nth, empty |-> FALSE]

\* Mutant of StoreMemo: filed under the generation of now, not the one read.
StoreMemoLate(r) ==
  /\ request[r] = "store"
  /\ memo' = Filed(r, generation[read[r].hub])
  /\ request' = [request EXCEPT ![r] = "answered"]
  /\ UNCHANGED <<load, pipeVars, stopped, active, down, served, lastUpload, uploadVars,
                 read, got, pageGen, shown, slipped>>

StoreMemo(r) ==
  /\ request[r] = "store"
  /\ memo' = Filed(r, read[r].generation)
  /\ request' = [request EXCEPT ![r] = "answered"]
  /\ UNCHANGED <<load, pipeVars, stopped, active, down, served, lastUpload, uploadVars,
                 read, got, pageGen, shown, slipped>>

\* The refetch is over, and its locals with it.
Ends(r) ==
  /\ request' = [request EXCEPT ![r] = "idle"]
  /\ read' = [read EXCEPT ![r] = [hub |-> First, generation |-> 0]]
  /\ got' = [got EXCEPT ![r] = [hub |-> First, nth |-> 0]]

\* The answer is what the page shows, in whichever order answers come.
Show(r) ==
  LET p == PageOf(r)
      back == got[r].hub = shown[p].hub /\ got[r].nth < shown[p].nth
  IN  /\ request[r] = "answered"
      /\ shown' = [shown EXCEPT ![p] = got[r]]
      /\ slipped' = [slipped EXCEPT ![p] = @ \/ back]
      /\ Ends(r)
      /\ UNCHANGED <<load, pipeVars, stopped, active, down, webVars, uploadVars, pageGen>>

\* The fetch fails, on its way to the server or back.  The page keeps what it
\* shows and does not ask again: S.gen has moved on already.
FetchFails(r) ==
  /\ request[r] \in {"sent", "answered"}
  /\ slipped' = [slipped EXCEPT ![PageOf(r)] = TRUE]
  /\ Ends(r)
  /\ UNCHANGED <<load, pipeVars, stopped, active, down, webVars, uploadVars, pageGen, shown>>

----------------------------------------------------------------------------
\* Ctrl-C: the server lets the requests in progress end, then dispatch
\* triggers whatever flags active_stop holds.
Settled(u) == upload[u] \in {"idle", "remove", "done", "undo", "rejected"}

Shutdown ==
  /\ ~down
  /\ \A u \in Uploads : Settled(u)
  /\ \A r \in Requests : request[r] \in {"idle", "sent", "answered"}
  /\ down' = TRUE
  /\ stopped' = [stopped EXCEPT ![active] = TRUE]
  /\ UNCHANGED <<load, pipeVars, active, webVars, uploadVars, pageVars>>

PipeStep(h) ==
  OpenFile(h) \/ PublishSnapshot(h) \/ PublishGeneration(h) \/ FinishRun(h) \/ FailRun(h)
UploadStep(u) ==
  \/ SpillFails(u) \/ Activate(u) \/ SpawnFails(u) \/ RemoveOwn(u)
  \/ StartPipeline(u) \/ SwapHub(u) \/ ReplaceLast(u) \/ RemoveOld(u)
RequestStep(r) ==
  \/ ReadHub(r) \/ ReadGeneration(r) \/ CheckMemo(r) \/ BuildIndex(r) \/ StoreMemo(r) \/ Show(r)

Next ==
  \/ \E h \in Hubs : PipeStep(h)
  \/ \E u \in Uploads : Reject(u) \/ BeginSpill(u) \/ UploadStep(u)
  \/ \E p \in Pages : Tick(p)
  \/ \E r \in Requests : RequestStep(r) \/ FetchFails(r)
  \/ Shutdown

Spec == Init /\ [][Next]_vars

\* Pipelines read files, which end; an accepted upload's handler runs on, and
\* so does a request's, whose answer arrives unless the fetch fails; the ticker
\* fires for every open page.  Nobody has to upload or to press Ctrl-C.
FairSpec ==
  /\ Spec
  /\ \A h \in Hubs : WF_vars(PipeStep(h))
  /\ \A u \in Uploads : WF_vars(UploadStep(u))
  /\ \A p \in Pages : WF_vars(Tick(p))
  /\ \A r \in Requests : WF_vars(RequestStep(r))

----------------------------------------------------------------------------
(* Properties.                                                             *)

AllSettled == \A u \in Uploads : upload[u] \in {"idle", "done", "rejected"}

\* Every pipeline that was started has been told to stop once active_stop no
\* longer holds its flags, or the server has shut down, however uploads
\* interleave.  It says nothing of which pipeline feeds the page.
OthersStopped ==
  \A h \in Hubs : pipe[h] # "none" /\ (h # active \/ down) => stopped[h]

\* cli/src/lib.rs, "`active_stop` always points at the flags of whichever
\* pipeline currently feeds the page": so it does once no upload is in progress.
ActiveFeedsPage == AllSettled => served = active

\* When no upload is in progress at most one temporary file is left, the one
\* the next upload will delete.
TempFilesBounded ==
  AllSettled => files = {lastUpload} \ {NoUpload}

\* An index built from the hub a request read is at least as new as the
\* generation it read before, memo or not, whatever other requests stored.
IndexNotOlder ==
  \A r \in Requests :
    request[r] \in {"store", "answered"} /\ got[r].hub = read[r].hub
      => got[r].nth >= read[r].generation

\* A page that stays open ends up showing the last snapshot of the pipeline
\* serve started with, as long as nobody uploads, unless since the last tick
\* that brought news a fetch failed or an overtaken answer came in late.
PageCatchesUp ==
  \A p \in Pages :
    (p \in load.pages /\ pipe[First] = "finished" /\ \A u \in Uploads : upload[u] = "idle")
      ~> \/ shown[p].nth = nth[First]
         \/ slipped[p] \/ down \/ \E u \in Uploads : upload[u] # "idle"

=============================================================================
