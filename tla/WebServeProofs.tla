--------------------------- MODULE WebServeProofs ---------------------------
(***************************************************************************)
(* Proofs about WebServe for any number of uploads, pages, refetches in     *)
(* flight and publications: a pipeline whose flags active_stop has let go   *)
(* is stopped, no temporary file is left behind, and no request gets an     *)
(* index older than the generation it read.                                 *)
(***************************************************************************)
EXTENDS WebServe, TLAPS

----------------------------------------------------------------------------
(* Types, of what the three arguments look at.                              *)

PipeType ==
  /\ pipe \in [Hubs -> {"none", "starting", "running", "gone", "finished", "failed"}]
  /\ nth \in [Hubs -> Nat] /\ generation \in [Hubs -> Nat]
  /\ stopped \in [Hubs -> BOOLEAN] /\ active \in Hubs /\ down \in BOOLEAN

UploadStates ==
  {"idle", "rejected", "spill", "undo", "start", "swap", "replace", "remove", "done"}

UploadType ==
  /\ served \in Hubs
  /\ lastUpload \in Uploads \cup {NoUpload}
  /\ upload \in [Uploads -> UploadStates]
  /\ doomed \in [Uploads -> Uploads \cup {NoUpload}]

PageType ==
  /\ memo \in [generation : Nat, hub : Hubs, nth : Nat, empty : BOOLEAN]
  /\ request \in [Requests -> {"idle", "sent", "generation", "memo", "latest", "store", "answered"}]
  /\ read \in [Requests -> [hub : Hubs, generation : Nat]]
  /\ got \in [Requests -> [hub : Hubs, nth : Nat]]

TypeOK == PipeType /\ UploadType /\ PageType

\* The server starts well typed.
LEMMA TypeInit == Init => TypeOK
<1>. SUFFICES ASSUME Init PROVE TypeOK
  OBVIOUS
<1>1. PipeType
  BY DEF Init, PipeType, Hubs
<1>2. UploadType
  BY DEF Init, UploadType, UploadStates, Hubs
<1>3. PageType
  BY DEF Init, PageType, Hubs, NoMemo
<1>. QED
  BY <1>1, <1>2, <1>3 DEF TypeOK

\* Every step keeps the pipelines well typed.
LEMMA PipeTypeStep == TypeOK /\ [Next]_vars => PipeType'
<1>. SUFFICES ASSUME TypeOK, [Next]_vars PROVE PipeType'
  OBVIOUS
<1>. USE DEF TypeOK, PipeType, pipeVars
<1>1. ASSUME NEW h \in Hubs, PipeStep(h) PROVE PipeType'
  BY <1>1 DEF PipeStep, OpenFile, PublishSnapshot, PublishGeneration, FinishRun, FailRun
<1>2. ASSUME NEW u \in Uploads, Reject(u) \/ BeginSpill(u) \/ UploadStep(u) PROVE PipeType'
  BY <1>2 DEF UploadStep, Reject, BeginSpill, SpillFails, Activate, SpawnFails, RemoveOwn,
              StartPipeline, SwapHub, ReplaceLast, RemoveOld, Hubs
<1>3. ASSUME NEW p \in Pages, Tick(p) PROVE PipeType'
  BY <1>3 DEF Tick
<1>4. ASSUME NEW r \in Requests, RequestStep(r) \/ FetchFails(r) PROVE PipeType'
  BY <1>4 DEF RequestStep, ReadHub, ReadGeneration, CheckMemo, BuildIndex, StoreMemo, Show, Ends,
               FetchFails
<1>5. CASE Shutdown
  BY <1>5 DEF Shutdown
<1>6. CASE UNCHANGED vars
  BY <1>6 DEF vars
<1>. QED
  BY <1>1, <1>2, <1>3, <1>4, <1>5, <1>6 DEF Next

\* Every step keeps the uploads well typed.
LEMMA UploadTypeStep == TypeOK /\ [Next]_vars => UploadType'
<1>. SUFFICES ASSUME TypeOK, [Next]_vars PROVE UploadType'
  OBVIOUS
<1>. USE DEF TypeOK, UploadType, UploadStates, webVars, uploadVars
<1>1. ASSUME NEW h \in Hubs, PipeStep(h) PROVE UploadType'
  BY <1>1 DEF PipeStep, OpenFile, PublishSnapshot, PublishGeneration, FinishRun, FailRun
<1>2. ASSUME NEW u \in Uploads, Reject(u) \/ BeginSpill(u) \/ UploadStep(u) PROVE UploadType'
  BY <1>2 DEF UploadStep, Reject, BeginSpill, SpillFails, Activate, SpawnFails, RemoveOwn,
              StartPipeline, SwapHub, ReplaceLast, RemoveOld, Hubs
<1>3. ASSUME NEW p \in Pages, Tick(p) PROVE UploadType'
  BY <1>3 DEF Tick
<1>4. ASSUME NEW r \in Requests, RequestStep(r) \/ FetchFails(r) PROVE UploadType'
  BY <1>4 DEF RequestStep, ReadHub, ReadGeneration, CheckMemo, BuildIndex, StoreMemo, Show, Ends,
               FetchFails
<1>5. CASE Shutdown
  BY <1>5 DEF Shutdown
<1>6. CASE UNCHANGED vars
  BY <1>6 DEF vars
<1>. QED
  BY <1>1, <1>2, <1>3, <1>4, <1>5, <1>6 DEF Next

\* Every step keeps the pages well typed.
LEMMA PageTypeStep == TypeOK /\ [Next]_vars => PageType'
<1>. SUFFICES ASSUME TypeOK, [Next]_vars PROVE PageType'
  OBVIOUS
<1>. USE DEF TypeOK, PageType, webVars, fetchVars, pageVars
<1>1. ASSUME NEW h \in Hubs, PipeStep(h) PROVE PageType'
  BY <1>1 DEF PipeStep, OpenFile, PublishSnapshot, PublishGeneration, FinishRun, FailRun
<1>2. ASSUME NEW u \in Uploads, Reject(u) \/ BeginSpill(u) \/ UploadStep(u) PROVE PageType'
  BY <1>2 DEF UploadStep, Reject, BeginSpill, SpillFails, Activate, SpawnFails, RemoveOwn,
              StartPipeline, SwapHub, ReplaceLast, RemoveOld
<1>3. ASSUME NEW p \in Pages, Tick(p) PROVE PageType'
  BY <1>3 DEF Tick
<1>4. ASSUME NEW r \in Requests, ReadHub(r) PROVE PageType'
  BY <1>4 DEF ReadHub, UploadType
<1>5. ASSUME NEW r \in Requests, ReadGeneration(r) PROVE PageType'
  BY <1>5 DEF ReadGeneration, PipeType
<1>6. ASSUME NEW r \in Requests, CheckMemo(r) PROVE PageType'
  BY <1>6 DEF CheckMemo
<1>7. ASSUME NEW r \in Requests, BuildIndex(r) PROVE PageType'
  BY <1>7 DEF BuildIndex, PipeType
<1>8. ASSUME NEW r \in Requests, StoreMemo(r) PROVE PageType'
  BY <1>8 DEF StoreMemo, Filed
<1>9. ASSUME NEW r \in Requests, Show(r) \/ FetchFails(r) PROVE PageType'
  <2>1. Ends(r) /\ UNCHANGED memo
    BY <1>9 DEF Show, FetchFails
  <2>2. First \in Hubs
    BY DEF Hubs
  <2>. QED
    BY <2>1, <2>2 DEF Ends
<1>10. CASE Shutdown
  BY <1>10 DEF Shutdown
<1>11. CASE UNCHANGED vars
  BY <1>11 DEF vars
<1>. QED
  BY <1>1, <1>2, <1>3, <1>4, <1>5, <1>6, <1>7, <1>8, <1>9, <1>10, <1>11 DEF Next, RequestStep

----------------------------------------------------------------------------
(* Stops.                                                                   *)

\* The pipelines that have been made the active one so far.
Activated(h) ==
  h = First \/ (h \in Uploads /\ upload[h] \in {"start", "swap", "replace", "remove", "done"})

\* What the spawner's lock gives: every pipeline that was ever active, started
\* or not, is stopped unless it is the one active_stop holds, and that one is
\* once the server is down; from then on no upload is half done.
StopInv ==
  /\ \A h \in Hubs : Activated(h) /\ (h # active \/ down) => stopped[h]
  /\ \A h \in Hubs : pipe[h] # "none" => Activated(h)
  /\ Activated(active)
  /\ down => \A u \in Uploads : Settled(u)

\* At the start no pipeline is superseded.
LEMMA StopInit == Init => StopInv
  BY DEF Init, StopInv, Activated, Hubs

\* Every step stops what it supersedes.
LEMMA StopStep == TypeOK /\ StopInv /\ [Next]_vars => StopInv'
<1>. SUFFICES ASSUME TypeOK, StopInv, [Next]_vars PROVE StopInv'
  OBVIOUS
<1>. USE FirstAssumption
     DEF TypeOK, PipeType, UploadType, UploadStates, StopInv, Activated, Settled, Hubs,
         pipeVars, webVars, uploadVars, pageVars
<1>1. ASSUME NEW h \in Hubs, PipeStep(h) PROVE StopInv'
  BY <1>1 DEF PipeStep, OpenFile, PublishSnapshot, PublishGeneration, FinishRun, FailRun
<1>2. ASSUME NEW u \in Uploads,
             Reject(u) \/ BeginSpill(u) \/ SpillFails(u) \/ SpawnFails(u) \/ RemoveOwn(u)
      PROVE  StopInv'
  BY <1>2 DEF Reject, BeginSpill, SpillFails, SpawnFails, RemoveOwn
<1>3. ASSUME NEW u \in Uploads, Activate(u) PROVE StopInv'
  BY <1>3 DEF Activate
<1>4. ASSUME NEW u \in Uploads, StartPipeline(u) PROVE StopInv'
  BY <1>4 DEF StartPipeline
<1>5. ASSUME NEW u \in Uploads, SwapHub(u) \/ ReplaceLast(u) \/ RemoveOld(u) PROVE StopInv'
  BY <1>5 DEF SwapHub, ReplaceLast, RemoveOld
<1>6. ASSUME NEW p \in Pages, Tick(p) PROVE StopInv'
  BY <1>6 DEF Tick
<1>7. ASSUME NEW r \in Requests, RequestStep(r) \/ FetchFails(r) PROVE StopInv'
  BY <1>7 DEF RequestStep, ReadHub, ReadGeneration, CheckMemo, BuildIndex, StoreMemo, Show, Ends,
               FetchFails
<1>8. CASE Shutdown
  BY <1>8 DEF Shutdown
<1>9. CASE UNCHANGED vars
  BY <1>9 DEF vars
<1>. QED
  BY <1>1, <1>2, <1>3, <1>4, <1>5, <1>6, <1>7, <1>8, <1>9 DEF Next, UploadStep

----------------------------------------------------------------------------
(* Temporary files.                                                         *)

\* Uploads whose file no record in WebState speaks of yet.
Spilling == {u \in Uploads : upload[u] \in {"spill", "undo", "start", "swap", "replace"}}

\* Files waiting for the blocking pool to remove them.
Doomed == {doomed[v] : v \in {u \in Uploads : upload[u] = "remove"}}

\* The files are those of uploads on their way, of the last upload, and those
\* that an upload will remove; nobody removes the last one, or one that another
\* will remove, or one that is on its way.
FileInv ==
  /\ files = Spilling \cup ({lastUpload} \ {NoUpload}) \cup Doomed
  /\ lastUpload # NoUpload => upload[lastUpload] \in {"remove", "done"}
  /\ \A v \in Uploads : upload[v] = "remove" =>
       /\ doomed[v] \in Uploads \ {lastUpload}
       /\ upload[doomed[v]] \in {"remove", "done"}
  /\ \A v, w \in Uploads :
       upload[v] = "remove" /\ upload[w] = "remove" /\ v # w => doomed[v] # doomed[w]

\* At the start there are no temporary files.
LEMMA FileInit == Init => FileInv
  BY DEF Init, FileInv, Spilling, Doomed

\* Every step keeps each temporary file owned.
LEMMA FileStep == TypeOK /\ FileInv /\ [Next]_vars => FileInv'
<1>. SUFFICES ASSUME TypeOK, FileInv, [Next]_vars PROVE FileInv'
  OBVIOUS
<1>. USE NoUploadAssumption
     DEF TypeOK, UploadType, UploadStates, FileInv, Spilling, Doomed,
         webVars, uploadVars, pageVars
<1>1. ASSUME NEW h \in Hubs, PipeStep(h) PROVE FileInv'
  BY <1>1 DEF PipeStep, OpenFile, PublishSnapshot, PublishGeneration, FinishRun, FailRun
<1>2. ASSUME NEW u \in Uploads, Reject(u) PROVE FileInv'
  BY <1>2 DEF Reject
<1>3. ASSUME NEW u \in Uploads, BeginSpill(u) PROVE FileInv'
  BY <1>3 DEF BeginSpill
<1>4. ASSUME NEW u \in Uploads, SpillFails(u) \/ RemoveOwn(u) PROVE FileInv'
  BY <1>4 DEF SpillFails, RemoveOwn
<1>5. ASSUME NEW u \in Uploads, Activate(u) \/ SpawnFails(u) \/ StartPipeline(u) \/ SwapHub(u)
      PROVE  FileInv'
  BY <1>5 DEF Activate, SpawnFails, StartPipeline, SwapHub
<1>6. ASSUME NEW u \in Uploads, ReplaceLast(u) PROVE FileInv'
  BY <1>6 DEF ReplaceLast
<1>7. ASSUME NEW u \in Uploads, RemoveOld(u) PROVE FileInv'
  BY <1>7 DEF RemoveOld
<1>8. ASSUME NEW p \in Pages, Tick(p) PROVE FileInv'
  BY <1>8 DEF Tick
<1>9. ASSUME NEW r \in Requests, RequestStep(r) \/ FetchFails(r) PROVE FileInv'
  BY <1>9 DEF RequestStep, ReadHub, ReadGeneration, CheckMemo, BuildIndex, StoreMemo, Show, Ends,
               FetchFails
<1>10. CASE Shutdown
  BY <1>10 DEF Shutdown
<1>11. CASE UNCHANGED vars
  BY <1>11 DEF vars
<1>. QED
  BY <1>1, <1>2, <1>3, <1>4, <1>5, <1>6, <1>7, <1>8, <1>9, <1>10, <1>11 DEF Next, UploadStep

----------------------------------------------------------------------------
(* The memo.                                                                *)

\* A snapshot is out before its generation is; what is in the memo is no older
\* than the generation it is filed under, whatever hub it is from; and neither
\* is what a request is about to file.
IndexInv ==
  /\ \A h \in Hubs : generation[h] <= nth[h]
  /\ ~memo.empty => memo.generation <= memo.nth
  /\ \A r \in Requests :
       /\ request[r] \in {"memo", "latest"} => read[r].generation <= generation[read[r].hub]
       /\ request[r] = "store" => got[r].hub = read[r].hub
  /\ IndexNotOlder

\* At the start no index was built.
LEMMA IndexInit == Init => IndexInv
  BY DEF Init, IndexInv, IndexNotOlder, NoMemo

\* Every step keeps the memo no older than what it is filed under.
LEMMA IndexStep == TypeOK /\ IndexInv /\ [Next]_vars => IndexInv'
<1>. SUFFICES ASSUME TypeOK, IndexInv, [Next]_vars PROVE IndexInv'
  OBVIOUS
<1>. USE DEF TypeOK, PipeType, UploadType, PageType, IndexInv, IndexNotOlder,
             pipeVars, webVars, uploadVars, fetchVars, pageVars
<1>1. ASSUME NEW h \in Hubs, OpenFile(h) \/ FinishRun(h) \/ FailRun(h) PROVE IndexInv'
  BY <1>1 DEF OpenFile, FinishRun, FailRun
<1>2. ASSUME NEW h \in Hubs, PublishSnapshot(h) PROVE IndexInv'
  BY <1>2 DEF PublishSnapshot
<1>3. ASSUME NEW h \in Hubs, PublishGeneration(h) PROVE IndexInv'
  BY <1>3 DEF PublishGeneration
<1>4. ASSUME NEW u \in Uploads, Reject(u) \/ BeginSpill(u) \/ UploadStep(u) PROVE IndexInv'
  BY <1>4 DEF UploadStep, Reject, BeginSpill, SpillFails, Activate, SpawnFails, RemoveOwn,
              StartPipeline, SwapHub, ReplaceLast, RemoveOld
<1>5. ASSUME NEW p \in Pages, Tick(p) PROVE IndexInv'
  BY <1>5 DEF Tick
<1>6. ASSUME NEW r \in Requests, ReadHub(r) PROVE IndexInv'
  BY <1>6 DEF ReadHub
<1>7. ASSUME NEW r \in Requests, ReadGeneration(r) PROVE IndexInv'
  BY <1>7 DEF ReadGeneration
<1>8. ASSUME NEW r \in Requests, CheckMemo(r), MemoHit(r) PROVE IndexInv'
  <2>1. memo.generation = read[r].generation /\ memo.generation <= memo.nth
    BY <1>8 DEF MemoHit
  <2>2. /\ got' = [got EXCEPT ![r] = [hub |-> memo.hub, nth |-> memo.nth]]
        /\ request' = [request EXCEPT ![r] = "answered"]
        /\ UNCHANGED <<nth, generation, memo, read>>
    BY <1>8 DEF CheckMemo
  <2>3. got'[r].nth >= read'[r].generation /\ request'[r] = "answered"
    BY <2>1, <2>2
  <2>4. \A q \in Requests \ {r} : got'[q] = got[q] /\ request'[q] = request[q]
    BY <2>2
  <2>. QED
    BY <2>2, <2>3, <2>4
<1>9. ASSUME NEW r \in Requests, CheckMemo(r), ~MemoHit(r) PROVE IndexInv'
  BY <1>9 DEF CheckMemo
<1>10. ASSUME NEW r \in Requests, BuildIndex(r) PROVE IndexInv'
  BY <1>10 DEF BuildIndex
<1>11. ASSUME NEW r \in Requests, StoreMemo(r) PROVE IndexInv'
  BY <1>11 DEF StoreMemo, Filed
<1>12. ASSUME NEW r \in Requests, Show(r) \/ FetchFails(r) PROVE IndexInv'
  BY <1>12 DEF Show, FetchFails, Ends
<1>13. CASE Shutdown
  BY <1>13 DEF Shutdown
<1>14. CASE UNCHANGED vars
  BY <1>14 DEF vars
<1>. QED
  BY <1>1, <1>2, <1>3, <1>4, <1>5, <1>6, <1>7, <1>8, <1>9, <1>10, <1>11, <1>12, <1>13, <1>14
     DEF Next, PipeStep, RequestStep
----------------------------------------------------------------------------
(* The results.                                                             *)

WebInv == TypeOK /\ StopInv /\ FileInv /\ IndexInv

\* The invariant holds in every state of every run.
LEMMA WebInvariant == Spec => []WebInv
<1>1. Init => WebInv
  BY TypeInit, StopInit, FileInit, IndexInit DEF WebInv
<1>2. WebInv /\ [Next]_vars => WebInv'
  BY PipeTypeStep, UploadTypeStep, PageTypeStep, StopStep, FileStep, IndexStep
     DEF WebInv, TypeOK
<1>. QED
  BY <1>1, <1>2, PTL DEF Spec

\* The spawner of cli/src/lib.rs swaps active_stop under its lock: however many
\* uploads interleave, every pipeline that was started and is not the active one
\* has been told to stop, and when serve has returned the active one too.
THEOREM SupersededStop == Spec => []OthersStopped
<1>1. WebInv => OthersStopped
  BY DEF WebInv, StopInv, OthersStopped
<1>. QED
  BY <1>1, WebInvariant, PTL

\* The upload handler's last_upload: however uploads overtake each other and
\* whenever the blocking pool removes a file, once none is in progress the only
\* temporary file is the one recorded, which the next upload removes.
THEOREM NoStrayFiles == Spec => []TempFilesBounded
<1>1. WebInv => TempFilesBounded
  BY DEF WebInv, FileInv, TempFilesBounded, AllSettled, Spilling, Doomed
<1>. QED
  BY <1>1, WebInvariant, PTL

\* WebState::index: a request that is answered from the hub it read gets an
\* index at least as new as the generation it read first, from the memo or not,
\* with any number of requests and publications in between.
THEOREM FreshIndex == Spec => []IndexNotOlder
<1>1. WebInv => IndexNotOlder
  BY DEF WebInv, IndexInv
<1>. QED
  BY <1>1, WebInvariant, PTL
=============================================================================
