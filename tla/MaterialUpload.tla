--------------------------- MODULE MaterialUpload ---------------------------
(***************************************************************************)
(* Step 3 of the wizard: the upload of a client's audios and their link to *)
(* the campaign.  The browser is MaterialsStep.jsx (AddMaterialPanel and   *)
(* the fallback decision), uploadOutcome.js, SimilarityWarningModal.jsx    *)
(* and their queries of api/hooks.js; the server is the upload handler     *)
(* with its dedup by audio (handlers/materials.go), the fingerprint daemon *)
(* and the similarity check.                                               *)
(*                                                                         *)
(* What makes it hard: one upload is a chain of calls, any of which fails  *)
(* or outlives the browser's patience, after what it did is done; a retry  *)
(* starts the chain again, and then meets the dedup.  The lists the screen *)
(* decides from are copies that a change makes stale.                      *)
(*                                                                         *)
(* A file in flight is handled in three steps (stored, looked up, added);  *)
(* a call on one row of the database is one.  A list is read when its      *)
(* answer arrives: a change in between invalidates it and cancels the      *)
(* answer in flight.  Lists never fail, only their delay is modelled.      *)
(***************************************************************************)
EXTENDS Integers, Sequences, FiniteSets, FiniteSetsExt

CONSTANTS
  Sources,     \* the files the operator has: <<audio, extension>>
  Stations,    \* the stations of the campaign
  OldSource,   \* the master of the material that is there from the start
  Mine, Other, \* the client of the campaign, and another one
  None,
  OtherUploads, \* the files uploaded for the other client
  Slow,        \* TRUE: the operator may act before the links of the campaign arrive
  MaxRows,     \* Bound: materials
  MaxQueue,    \* Bound: files in the drawer
  MaxClicks,   \* Bound: user operations
  MaxFaults    \* Bound: calls that fail, messages lost, polls that time out

VARIABLES
  rows, files, links, jobs, handlers,      \* the server
  mats, matsStale, cmp, cmpStale,          \* useMaterials, useCampaignMaterials
  open, busy, queue, cur, known, picked,   \* the drawer; known: alreadyLinkedIds
  fallback,                                \* fallbackDecision: the material asked about
  clicks, faults

server  == <<rows, files, links, jobs, handlers>>
lists   == <<mats, matsStale, cmp, cmpStale>>
drawer  == <<open, busy, queue, cur, known, picked>>
vars    == <<server, lists, drawer, fallback, clicks, faults>>

Ids       == 1..MaxRows
Masters   == Sources \cup OtherUploads \cup {OldSource}

\* A row of materials: its fingerprint, its similarity check and what the check
\* found, and whether the operator accepted that.
RowType == [client : {Mine, Other}, src : Masters, fp : {"pending", "ready", "failed"},
            sim : {"pending", "ready", "skipped"}, like : Ids \cup {None},
            much : BOOLEAN, ack : BOOLEAN]

ASSUME UploadAssumption ==
  /\ {MaxRows, MaxQueue, MaxClicks, MaxFaults} \subseteq Nat /\ MaxRows > 0
  /\ Slow \in BOOLEAN
  /\ \A r \in RowType : r # None
  /\ \A S \in SUBSET Stations : S # None

Startable == {"queued", "error"}
Clicks    == clicks < MaxClicks /\ clicks' = clicks + 1
Faults    == faults < MaxFaults /\ faults' = faults + 1

---------------------------------------------------------------------------
(* The server. *)

Row(client, src) ==
  [client |-> client, src |-> src, fp |-> "pending", sim |-> "pending",
   like |-> None, much |-> FALSE, ack |-> FALSE]

Fresh          == 1 + Max({i \in Ids : rows[i] # None})
Rows(client)   == {i \in Ids : rows[i] # None /\ rows[i].client = client}
SameAudio(client, src) == {i \in Rows(client) : rows[i].src[1] = src[1]}
Ready(client)  == {i \in Rows(client) : rows[i].fp = "ready"}

\* Mutant: the guard on the path of the existing material is dropped.
DiscardAny(new, existing) == IF existing \in files THEN files \ {new} ELSE files

\* discardRedundantMaster
Discard(new, existing) ==
  IF new # existing /\ existing \in files THEN files \ {new} ELSE files

\* The file is written under the hash of its audio before anything is asked.
Store(who, client, src) ==
  /\ handlers' = handlers \cup {[who |-> who, client |-> client, src |-> src,
                                at |-> "stored", id |-> None]}
  /\ files' = files \cup {src}

\* The dedup finds nothing: the handler goes on to add a row.
LookUp(h) ==
  /\ h.at = "stored" /\ SameAudio(h.client, h.src) = {}
  /\ handlers' = (handlers \ {h}) \cup {[h EXCEPT !.at = "new"]}
  /\ UNCHANGED <<rows, files, links, jobs, lists, drawer, fallback, clicks, faults>>

\* Create fails (its request is cancelled) or ffprobe does: the file is removed.
Refuse(h) ==
  /\ h.at = "new" /\ Faults
  /\ files' = files \ {h.src}
  /\ handlers' = IF h.who = "me" THEN (handlers \ {h}) \cup {[h EXCEPT !.at = "refused"]}
                 ELSE handlers \ {h}
  /\ UNCHANGED <<rows, links, jobs, lists, drawer, fallback, clicks>>

\* Create, and fingerprint.generate is published: best effort, it may be lost.
Create(h) ==
  /\ h.at = "new" /\ Fresh \in Ids
  /\ LET id == Fresh
     IN  /\ rows' = [rows EXCEPT ![id] = Row(h.client, h.src)]
         /\ \/ jobs' = jobs \cup {<<"fingerprint", id>>} /\ UNCHANGED faults
            \/ Faults /\ UNCHANGED jobs
         /\ handlers' = IF h.who = "me"
              THEN (handlers \ {h}) \cup {[h EXCEPT !.at = "created", !.id = id]} ELSE handlers \ {h}
  /\ UNCHANGED <<files, links, lists, drawer, fallback, clicks>>

\* An upload for the other client, and the dedup of one whose answer the browser
\* does not wait for: the other client's, or the one it has given up.
OtherUpload ==
  /\ Clicks /\ \E src \in OtherUploads : Store("other", Other, src)
  /\ UNCHANGED <<rows, links, jobs, lists, drawer, fallback, faults>>

DedupUnread(h) ==
  /\ h.who # "me" /\ h.at = "stored" /\ SameAudio(h.client, h.src) # {}
  /\ files' = Discard(h.src, rows[Min(SameAudio(h.client, h.src))].src)
  /\ handlers' = handlers \ {h}
  /\ UNCHANGED <<rows, links, jobs, lists, drawer, fallback, clicks, faults>>

\* handle_generate: the fingerprint, and the message that asks for the check.
Fingerprint(id) ==
  /\ <<"fingerprint", id>> \in jobs
  /\ \/ /\ rows[id] # None /\ rows[id].src \in files
        /\ rows' = [rows EXCEPT ![id].fp = "ready"]
        /\ jobs' = (jobs \ {<<"fingerprint", id>>}) \cup {<<"similarity", id>>}
        /\ UNCHANGED faults
     \/ /\ rows[id] # None /\ IF rows[id].src \in files THEN Faults ELSE UNCHANGED faults
        /\ rows' = [rows EXCEPT ![id].fp = "failed"]
        /\ jobs' = jobs \ {<<"fingerprint", id>>}
  /\ UNCHANGED <<files, links, handlers, lists, drawer, fallback, clicks>>

\* CheckMaterialSimilarity: against the ready materials of the client.
CheckMaterialSimilarity(id) ==
  LET others == Ready(rows[id].client) \ {id}
  IN  /\ <<"similarity", id>> \in jobs /\ jobs' = jobs \ {<<"similarity", id>>}
      /\ rows[id] # None
      /\ \/ others = {} /\ rows' = [rows EXCEPT ![id].sim = "skipped"]
         \/ others # {} /\ rows' = [rows EXCEPT ![id].sim = "ready"]
         \/ \E like \in others, much \in BOOLEAN :
              rows' = [rows EXCEPT ![id].sim = "ready", ![id].like = like, ![id].much = much]
      /\ UNCHANGED <<files, links, handlers, lists, drawer, fallback, clicks, faults>>

\* DELETE /materials/{id}: the link refers to the row with ON DELETE RESTRICT;
\* the rows it resembles forget it with ON DELETE SET NULL.
Without(id) ==
  [i \in Ids |-> IF i = id \/ rows[i] = None THEN None
                 ELSE IF rows[i].like = id THEN [rows[i] EXCEPT !.like = None] ELSE rows[i]]

---------------------------------------------------------------------------
(* The lists of the browser, and the modal that follows from them. *)

Library(r) == [i \in Ids |-> IF r[i] # None /\ r[i].client = Mine THEN r[i] ELSE None]

\* Mutant: the list is polled for fingerprints only.
PolledForFingerprint == \E i \in Ids : mats[i] # None /\ mats[i].fp = "pending"

\* refetchInterval of useMaterials
Polled == \E i \in Ids : mats[i] # None /\ (mats[i].fp = "pending" \/ mats[i].sim = "pending")

\* What the effect of MaterialsStep asks about.
Unresolved(m, c) ==
  {i \in Ids : /\ c[i] # None /\ m[i] # None
               /\ m[i].sim = "ready" /\ ~m[i].ack /\ m[i].much
               /\ m[i].like # None /\ m[m[i].like] # None}

Ask(asked, m, c) ==
  IF asked # None \/ Unresolved(m, c) = {} THEN asked ELSE Min(Unresolved(m, c))

ReadMaterials ==
  /\ matsStale \/ Polled
  /\ mats' = Library(rows) /\ matsStale' = FALSE
  /\ fallback' = Ask(fallback, mats', cmp)
  /\ UNCHANGED <<server, cmp, cmpStale, drawer, clicks, faults>>

ReadLinks ==
  /\ cmpStale
  /\ cmp' = links /\ cmpStale' = FALSE
  /\ fallback' = Ask(fallback, mats, cmp')
  /\ UNCHANGED <<server, mats, matsStale, drawer, clicks, faults>>

\* Mutant: the decision does not wait for the list.
NotAwaited(r) == [list |-> mats, stale |-> TRUE]

\* mutateAsync of the decision returns after the refetch its onSuccess returns.
Awaited(r) == [list |-> Library(r), stale |-> FALSE]

\* The decision about id, asked in the drawer or by the fallback; the answer is
\* an error, which leaves the modal open, when the row is linked.  The UPDATE of a
\* row that is gone changes nothing.
Keep(id) ==
  /\ rows' = IF rows[id] = None THEN rows ELSE [rows EXCEPT ![id].ack = TRUE]
  /\ mats' = Awaited(rows').list /\ matsStale' = Awaited(rows').stale
Remove(id) ==
  /\ links[id] = None
  /\ rows' = Without(id)
  /\ mats' = Awaited(rows').list /\ matsStale' = Awaited(rows').stale

FallbackKeep ==
  /\ fallback # None /\ Keep(fallback)
  /\ fallback' = Ask(None, mats', cmp)
  /\ UNCHANGED <<files, links, jobs, handlers, cmp, cmpStale, drawer, clicks, faults>>

FallbackRemoveRefused ==
  /\ fallback # None /\ links[fallback] # None /\ Clicks
  /\ UNCHANGED <<server, lists, drawer, fallback, faults>>

FallbackRemove ==
  /\ fallback # None /\ Remove(fallback)
  /\ fallback' = Ask(None, mats', cmp)
  /\ UNCHANGED <<files, links, jobs, handlers, cmp, cmpStale, drawer, clicks, faults>>

---------------------------------------------------------------------------
(* The cards. *)

Idle == ~open /\ fallback = None /\ (Slow \/ ~cmpStale)

\* onSaveStations of the StationsInlineEditor: PUT .../stations
EditStations(id, scope) ==
  /\ Idle /\ Clicks /\ cmp[id] # None /\ mats[id] # None /\ scope # cmp[id]
  /\ links' = IF links[id] = None THEN links ELSE [links EXCEPT ![id] = scope]
  /\ cmpStale' = TRUE
  /\ UNCHANGED <<rows, files, jobs, handlers, mats, matsStale, cmp, drawer, fallback, faults>>

\* handleUnlink
Unlink(id) ==
  /\ Idle /\ Clicks /\ cmp[id] # None /\ mats[id] # None
  /\ links' = [links EXCEPT ![id] = None] /\ cmpStale' = TRUE
  /\ UNCHANGED <<rows, files, jobs, handlers, mats, matsStale, cmp, drawer, fallback, faults>>

---------------------------------------------------------------------------
(* The drawer. *)

Linked(c) == {i \in Ids : c[i] # None}

OpenDrawer ==
  /\ Idle /\ Clicks /\ open' = TRUE
  /\ UNCHANGED <<server, lists, busy, queue, cur, known, picked, fallback, faults>>

Closed == open' = FALSE /\ queue' = <<>> /\ picked' = {}

CloseDrawer ==
  /\ open /\ ~busy /\ fallback = None /\ Clicks /\ Closed
  /\ UNCHANGED <<server, lists, busy, cur, known, fallback, faults>>

\* addFiles; the panel of the run in progress or settled has no such button.
AddFile(src) ==
  /\ open /\ ~busy /\ fallback = None /\ Len(queue) < MaxQueue /\ Clicks
  /\ \A k \in DOMAIN queue : queue[k].stage \in Startable
  /\ queue' = Append(queue, [src |-> src, stage |-> "queued", id |-> None])
  /\ UNCHANGED <<server, lists, open, busy, cur, known, picked, fallback, faults>>

\* linkSelected links the picked materials one by one.
LinkSelected(ids) ==
  /\ open /\ ~busy /\ fallback = None /\ Clicks /\ ids # {}
  /\ \A k \in DOMAIN queue : queue[k].stage \in Startable
  /\ \A i \in ids : mats[i] # None /\ cmp[i] = None
  /\ picked' = ids /\ busy' = TRUE
  /\ UNCHANGED <<server, lists, open, queue, cur, known, fallback, faults>>

\* The link: an upsert, with every station of the campaign; it may do its work
\* and its answer be lost, and a material that is gone is refused.
Link(id) ==
  \/ rows[id] # None /\ links' = [links EXCEPT ![id] = Stations] /\ cmpStale' = TRUE /\ UNCHANGED faults
LinkFails(id) ==
  \/ rows[id] = None /\ UNCHANGED <<links, faults>>
  \/ Faults /\ \/ UNCHANGED links
               \/ rows[id] # None /\ links' = [links EXCEPT ![id] = Stations]

\* The drawer closes after the last one; a failure leaves it open.
LinkNextPicked ==
  /\ busy /\ picked # {} /\ cur = 0
  /\ LET id == Min(picked)
     IN  \/ /\ Link(id) /\ UNCHANGED known /\ cur' = cur
            /\ IF picked = {id} THEN Closed /\ busy' = FALSE
               ELSE picked' = picked \ {id} /\ UNCHANGED <<open, queue, busy>>
         \/ /\ LinkFails(id) /\ busy' = FALSE /\ picked' = {} /\ UNCHANGED <<cmpStale, open, queue, cur, known>>
  /\ UNCHANGED <<rows, files, jobs, handlers, mats, matsStale, cmp, fallback, clicks>>

From(k) == {j \in k..Len(queue) : queue[j].stage \in Startable}

\* submitUploads, with the queue and the links of the render of the click.
SubmitUploads ==
  /\ open /\ ~busy /\ fallback = None /\ From(1) # {} /\ Clicks
  /\ busy' = TRUE /\ cur' = Min(From(1)) /\ known' = Linked(cmp)
  /\ UNCHANGED <<server, lists, open, queue, picked, fallback, faults>>

Entry    == queue[cur]
At(stage) == busy /\ cur # 0 /\ Entry.stage = stage
Stage(stage, id) == queue' = [queue EXCEPT ![cur].stage = stage, ![cur].id = id]

\* An entry settles; the next one starts, or the run ends, and the drawer
\* closes by itself when all went clean.
Settle(stage) ==
  LET q == [queue EXCEPT ![cur].stage = stage]
  IN  IF From(cur + 1) # {}
      THEN cur' = Min(From(cur + 1)) /\ queue' = q /\ UNCHANGED <<open, busy, known, picked>>
      ELSE /\ busy' = FALSE /\ cur' = 0 /\ known' = {}
           /\ IF \A j \in DOMAIN q : q[j].stage \in {"done", "removed"} THEN Closed
              ELSE queue' = q /\ UNCHANGED <<open, picked>>

Upload ==
  /\ busy /\ cur # 0 /\ Entry.stage \in Startable
  /\ Store("me", Mine, Entry.src) /\ Stage("uploading", None)
  /\ UNCHANGED <<rows, links, jobs, lists, open, busy, cur, known, picked, fallback, clicks, faults>>

\* The request breaks off; its handler, if it was one, goes on without a reader.
UploadFails(h) ==
  /\ At("uploading") /\ h.who = "me"
  /\ \/ /\ h.at = "refused" /\ handlers' = handlers \ {h} /\ UNCHANGED faults
     \/ /\ h.at # "refused" /\ Faults
        /\ handlers' = (handlers \ {h}) \cup IF h.at = "created" THEN {} ELSE {[h EXCEPT !.who = "gone"]}
  /\ Settle("error")
  /\ UNCHANGED <<rows, files, links, jobs, lists, fallback, clicks>>

\* 201: the new material is followed.
Uploaded(h) ==
  /\ At("uploading") /\ h.who = "me" /\ h.at = "created"
  /\ handlers' = handlers \ {h} /\ matsStale' = TRUE
  /\ Stage("fingerprinting", h.id)
  /\ UNCHANGED <<rows, files, links, jobs, mats, cmp, cmpStale, open, busy, cur, known, picked,
                 fallback, clicks, faults>>

\* Mutant: what is reused is always linked.
AlwaysLink(id) == TRUE

\* planUploadOutcome
ShouldLink(id) == id \notin known

\* 200: the dedup answers with the material the client has; it is linked unless
\* the screen knows that it is.
Reused(h) ==
  LET id == Min(SameAudio(Mine, h.src))
  IN  /\ At("uploading") /\ h.who = "me" /\ h.at = "stored" /\ SameAudio(Mine, h.src) # {}
      /\ handlers' = handlers \ {h} /\ files' = Discard(h.src, rows[id].src)
      /\ matsStale' = TRUE
      /\ \/ ShouldLink(id) /\ Link(id) /\ Settle("reused")
         \/ ShouldLink(id) /\ LinkFails(id) /\ UNCHANGED cmpStale /\ Settle("error")
         \/ ~ShouldLink(id) /\ Settle("reused") /\ UNCHANGED <<links, cmpStale, faults>>
      /\ UNCHANGED <<rows, jobs, mats, cmp, fallback, clicks>>

\* pollMaterial gives up after 90 s; what nothing works on any more always does.
TimesOut(id) ==
  IF \E kind \in {"fingerprint", "similarity"} : <<kind, id>> \in jobs
  THEN Faults ELSE UNCHANGED faults

PollFingerprint ==
  /\ At("fingerprinting")
  /\ LET m == rows[Entry.id]
     IN  \/ m.fp = "ready" /\ Stage("verifying", Entry.id) /\ UNCHANGED <<open, busy, cur, known, picked, faults>>
         \/ m.fp = "failed" /\ Settle("error") /\ UNCHANGED faults
         \/ m.fp = "pending" /\ TimesOut(Entry.id) /\ Settle("error")
  /\ UNCHANGED <<server, lists, fallback, clicks>>

PollSimilarity ==
  /\ At("verifying")
  /\ LET m == rows[Entry.id]
         alike == m.sim = "ready" /\ ~m.ack /\ m.like # None
     IN  \/ /\ m.sim # "pending" /\ UNCHANGED <<open, busy, cur, known, picked>>
            /\ \/ alike /\ Stage(IF m.much THEN "deciding" ELSE "headsup", Entry.id) /\ UNCHANGED faults
               \/ Stage("linking", Entry.id) /\ IF alike THEN Faults ELSE UNCHANGED faults
         \/ m.sim = "pending" /\ TimesOut(Entry.id) /\ Settle("error")
  /\ UNCHANGED <<server, lists, fallback, clicks>>

\* The two modals of the drawer; without the other material there is none to show.
Continue ==
  /\ At("headsup") /\ Stage("linking", Entry.id)
  /\ UNCHANGED <<server, lists, open, busy, cur, known, picked, fallback, clicks, faults>>

DecideKeep ==
  /\ At("deciding") /\ Keep(Entry.id) /\ Stage("linking", Entry.id)
  /\ fallback' = Ask(fallback, mats', cmp)
  /\ UNCHANGED <<files, links, jobs, handlers, cmp, cmpStale, open, busy, cur, known, picked,
                 clicks, faults>>

DecideRemove ==
  /\ At("deciding") /\ Remove(Entry.id) /\ Settle("removed")
  /\ fallback' = Ask(fallback, mats', cmp)
  /\ UNCHANGED <<files, links, jobs, handlers, cmp, cmpStale, clicks, faults>>

LinkUploaded ==
  /\ At("linking")
  /\ \/ Link(Entry.id) /\ Settle("done")
     \/ LinkFails(Entry.id) /\ UNCHANGED cmpStale /\ Settle("error")
  /\ UNCHANGED <<rows, files, jobs, handlers, mats, matsStale, cmp, fallback, clicks>>

---------------------------------------------------------------------------
Init ==
  /\ rows = [i \in Ids |-> IF i = 1 THEN [Row(Mine, OldSource) EXCEPT !.fp = "ready", !.sim = "skipped"]
                           ELSE None]
  /\ files = {OldSource}
  /\ links \in [Ids -> {None} \cup {S \in SUBSET Stations : S # {}}]
  /\ \A i \in Ids \ {1} : links[i] = None
  /\ jobs = {} /\ handlers = {}
  /\ mats = Library(rows) /\ matsStale = FALSE
  /\ cmp = [i \in Ids |-> None] /\ cmpStale = TRUE
  /\ open = FALSE /\ busy = FALSE /\ queue = <<>> /\ cur = 0 /\ known = {} /\ picked = {}
  /\ fallback = None /\ clicks = 0 /\ faults = 0

Serve == \/ \E h \in handlers : LookUp(h) \/ Refuse(h) \/ Create(h) \/ DedupUnread(h)
         \/ \E id \in Ids : Fingerprint(id) \/ CheckMaterialSimilarity(id)

Run == \/ Upload \/ PollFingerprint \/ PollSimilarity \/ LinkUploaded \/ LinkNextPicked
       \/ \E h \in handlers : UploadFails(h) \/ Uploaded(h) \/ Reused(h)

Decide == \/ FallbackKeep \/ FallbackRemove \/ FallbackRemoveRefused
          \/ Continue \/ DecideKeep \/ DecideRemove

Operate ==
  \/ OpenDrawer \/ CloseDrawer \/ SubmitUploads \/ OtherUpload
  \/ \E src \in Sources : AddFile(src)
  \/ \E ids \in SUBSET Ids : LinkSelected(ids)
  \/ \E id \in Ids : Unlink(id) \/ \E scope \in SUBSET Stations : EditStations(id, scope)

Next == Serve \/ Run \/ Decide \/ Operate \/ ReadMaterials \/ ReadLinks

\* The server works, the queries are read and polled.
Fairness ==
  /\ WF_vars(\E id \in Ids : Fingerprint(id) \/ CheckMaterialSimilarity(id))
  /\ WF_vars(ReadMaterials) /\ WF_vars(ReadLinks)

Spec == Init /\ [][Next]_vars /\ Fairness

---------------------------------------------------------------------------
Stages == Startable \cup {"uploading", "fingerprinting", "verifying", "headsup", "deciding",
                          "linking", "done", "reused", "removed"}

HandlerType == [who : {"me", "other", "gone"}, client : {Mine, Other}, src : Masters,
                at : {"stored", "new", "refused", "created"}, id : Ids \cup {None}]
EntryType   == [src : Sources, stage : Stages, id : Ids \cup {None}]

ServerType ==
  /\ rows \in [Ids -> {None} \cup RowType] /\ files \subseteq Masters
  /\ links \in [Ids -> {None} \cup SUBSET Stations]
  /\ handlers \subseteq HandlerType
ListsType ==
  /\ mats \in [Ids -> {None} \cup RowType]
  /\ cmp \in [Ids -> {None} \cup SUBSET Stations]
  /\ matsStale \in BOOLEAN /\ cmpStale \in BOOLEAN
DrawerType ==
  /\ open \in BOOLEAN /\ busy \in BOOLEAN
  /\ queue \in Seq(EntryType) /\ cur \in 0..Len(queue) /\ (busy \/ cur = 0)
  /\ known \subseteq Ids /\ picked \subseteq Ids
TypeOK == ServerType /\ ListsType /\ DrawerType

\* The audio of a material stays on disk: without its master a material has no
\* fingerprint and is never detected (Upload, discardRedundantMaster).
MasterKept == \A i \in Ids : rows[i] # None => rows[i].src \in files

\* Uploading and linking never change the stations of a material that is linked;
\* only its card does (planUploadOutcome: "Nada foi alterado").
ScopeKept ==
  [][\A i \in Ids : links[i] # None /\ links'[i] # None /\ links[i] # links'[i]
       => ~open]_vars

\* Nobody is asked again about a material whose similarity was accepted.
AskedOnce ==
  [][fallback' # None /\ fallback' # fallback => ~rows'[fallback'].ack]_vars

\* A near copy that reached the campaign without a decision is asked about once
\* it shows on the step: whatever the retries and the dedup skipped.
SimilarAsked ==
  \A i \in Ids : (i \in Unresolved(rows, links) /\ cmp[i] # None)
                   ~> (fallback # None \/ i \notin Unresolved(rows, links) \/ cmp[i] = None)
=============================================================================
