------------------------ MODULE MaterialUploadProofs ------------------------
(***************************************************************************)
(* Step 3 of the wizard, for any files, stations, materials and queues and *)
(* any number of clicks and faults: nobody is asked twice about a material *)
(* they have accepted, and, when the links of the campaign are on the      *)
(* screen before the drawer opens, no upload, retry or link changes the    *)
(* stations of a material that is linked.                                  *)
(*                                                                         *)
(* Without that condition it does (MCUpload_early.cfg): the drawer knows   *)
(* nothing of the links it has not read.                                   *)
(***************************************************************************)
EXTENDS MaterialUpload, TLAPS
LOCAL SP == INSTANCE SettlementProofs

---------------------------------------------------------------------------
(* First and last of a set of ids. *)

\* The smallest of the things an entry or a query may be about.
LEMMA MinIsIn ==
  ASSUME NEW S \in SUBSET Nat, S # {}
  PROVE  Min(S) \in S
<1>1. \E x \in S : \A y \in S : x <= y
  BY SP!SmallestNat
<1> QED
  BY <1>1 DEF Min

\* The id of a new row is no row's.
LEMMA FreshIsNew ==
  ASSUME Fresh \in Ids PROVE rows[Fresh] = None
<1> DEFINE S == {i \in Ids : rows[i] # None}
           D == {MaxRows - i : i \in S}
<1>1. MaxRows \in Nat /\ Ids = 1..MaxRows /\ S \subseteq 1..MaxRows
  BY UploadAssumption DEF Ids
<1>2. CASE S = {}
  BY <1>2
<1>3. CASE S # {}
  <2>1. D \in SUBSET Nat /\ D # {}
    BY <1>1, <1>3
  <2>2. PICK a \in D : \A b \in D : a <= b
    <3> HIDE DEF D
    <3> QED
      BY <2>1, SP!SmallestNat
  <2>3. PICK i \in S : a = MaxRows - i
    BY <2>2
  <2>4. \A j \in S : i >= j
    <3> TAKE j \in S
    <3>1. MaxRows - i <= MaxRows - j
      BY <2>2, <2>3
    <3> QED
      BY <1>1, <3>1
  <2>5. \A j \in S : Max(S) >= j
    BY <2>4 DEF Max
  <2>6. Max(S) \in S
    BY <2>4 DEF Max
  <2>7. PICK m \in S : Fresh = 1 + m /\ \A j \in S : m >= j
    BY <2>5, <2>6 DEF Fresh
  <2>8. m \in Nat
    BY <1>1
  <2>9. Fresh \notin S
    <3> HIDE DEF S
    <3> QED
      BY <2>7, <2>8
  <2> QED
    BY <2>9
<1> QED
  BY <1>2, <1>3

---------------------------------------------------------------------------
(* Types.  Each part of the state is written in a few ways. *)

LEMMA WritesRows ==
  [Next]_vars =>
    \/ UNCHANGED rows
    \/ \E h \in handlers : Create(h)
    \/ \E id \in Ids : Fingerprint(id) \/ CheckMaterialSimilarity(id)
    \/ \E id : (Keep(id) \/ Remove(id)) /\ UNCHANGED links
<1> SUFFICES ASSUME [Next]_vars, ~ UNCHANGED rows
             PROVE  \/ \E h \in handlers : Create(h)
                    \/ \E id \in Ids : Fingerprint(id) \/ CheckMaterialSimilarity(id)
                    \/ \E id : (Keep(id) \/ Remove(id)) /\ UNCHANGED links
  OBVIOUS
<1>1. Next
  BY DEF vars, server
<1>2. CASE Serve
  BY <1>2 DEF Serve, LookUp, Refuse, DedupUnread
<1>3. CASE Run
  BY <1>3 DEF Run, Upload, PollFingerprint, PollSimilarity, LinkUploaded, LinkNextPicked,
              UploadFails, Uploaded, Reused, server
<1>4. CASE Decide
  BY <1>4 DEF Decide, FallbackKeep, FallbackRemove, FallbackRemoveRefused, Continue,
              DecideKeep, DecideRemove, server
<1>5. CASE Operate
  BY <1>5 DEF Operate, OpenDrawer, CloseDrawer, SubmitUploads, OtherUpload, AddFile,
              LinkSelected, Unlink, EditStations, server
<1>6. CASE ReadMaterials \/ ReadLinks
  BY <1>6 DEF ReadMaterials, ReadLinks, server
<1> QED
  BY <1>1, <1>2, <1>3, <1>4, <1>5, <1>6 DEF Next

\* The fingerprint and the similarity check update one row, and accept nothing.
LEMMA WorkersUpdateOne ==
  ASSUME TypeOK, NEW id \in Ids, Fingerprint(id) \/ CheckMaterialSimilarity(id)
  PROVE  /\ rows[id] \in RowType
         /\ \E r \in RowType : r.ack = rows[id].ack /\ rows' = [rows EXCEPT ![id] = r]
<1>1. rows \in [Ids -> {None} \cup RowType]
  BY DEF TypeOK, ServerType
<1>2. rows[id] # None /\ rows[id] \in RowType
  BY <1>1 DEF Fingerprint, CheckMaterialSimilarity
<1>3. CASE Fingerprint(id)
  <2>1. PICK v \in {"ready", "failed"} : rows' = [rows EXCEPT ![id].fp = v]
    BY <1>3 DEF Fingerprint
  <2> DEFINE r == [rows[id] EXCEPT !.fp = v]
  <2>2. r \in RowType /\ r.ack = rows[id].ack
    BY <1>2 DEF RowType
  <2> QED
    BY <1>1, <1>2, <2>1, <2>2
<1>4. CASE CheckMaterialSimilarity(id)
  <2>1. \/ \E v \in {"ready", "skipped"} : rows' = [rows EXCEPT ![id].sim = v]
        \/ \E like \in Ids, much \in BOOLEAN :
             rows' = [rows EXCEPT ![id].sim = "ready", ![id].like = like, ![id].much = much]
    BY <1>4 DEF CheckMaterialSimilarity, Ready, Rows
  <2>2. CASE \E v \in {"ready", "skipped"} : rows' = [rows EXCEPT ![id].sim = v]
    <3>1. PICK v \in {"ready", "skipped"} : rows' = [rows EXCEPT ![id].sim = v]
      BY <2>2
    <3> DEFINE r == [rows[id] EXCEPT !.sim = v]
    <3>2. r \in RowType /\ r.ack = rows[id].ack
      BY <1>2 DEF RowType
    <3> QED
      BY <1>1, <1>2, <3>1, <3>2
  <2>3. CASE \E like \in Ids, much \in BOOLEAN :
               rows' = [rows EXCEPT ![id].sim = "ready", ![id].like = like, ![id].much = much]
    <3>1. PICK like \in Ids, much \in BOOLEAN :
            rows' = [rows EXCEPT ![id].sim = "ready", ![id].like = like, ![id].much = much]
      BY <2>3
    <3> DEFINE r == [rows[id] EXCEPT !.sim = "ready", !.like = like, !.much = much]
    <3>2. r \in RowType /\ r.ack = rows[id].ack
      BY <1>2 DEF RowType
    <3>3. rows' = [rows EXCEPT ![id] = r]
      BY <1>1, <3>1
    <3> QED
      BY <1>2, <3>2, <3>3
  <2> QED
    BY <2>1, <2>2, <2>3
<1> QED
  BY <1>2, <1>3, <1>4

LEMMA RowsType ==
  ASSUME TypeOK, [Next]_vars PROVE rows' \in [Ids -> {None} \cup RowType]
<1>1. rows \in [Ids -> {None} \cup RowType]
  BY DEF TypeOK, ServerType
<1>2. CASE \E h \in handlers : Create(h)
  <2>1. PICK h \in handlers : Create(h)
    BY <1>2
  <2>2. h \in HandlerType
    BY DEF TypeOK, ServerType
  <2>3. Row(h.client, h.src) \in RowType
    BY <2>2 DEF Row, RowType, HandlerType
  <2>4. rows' = [rows EXCEPT ![Fresh] = Row(h.client, h.src)]
    BY <2>1 DEF Create
  <2> QED
    BY <1>1, <2>3, <2>4
<1>3. CASE \E id \in Ids : Fingerprint(id) \/ CheckMaterialSimilarity(id)
  BY <1>1, <1>3, WorkersUpdateOne
<1>4. CASE \E id : Keep(id)
  <2>1. PICK id : Keep(id)
    BY <1>4
  <2>2. CASE id \in Ids /\ rows[id] # None
    <3>1. rows' = [rows EXCEPT ![id].ack = TRUE] /\ rows[id] \in RowType
      BY <1>1, <2>1, <2>2 DEF Keep
    <3>2. [rows[id] EXCEPT !.ack = TRUE] \in RowType
      BY <3>1 DEF RowType
    <3> QED
      BY <1>1, <3>1, <3>2
  <2>3. CASE ~ (id \in Ids /\ rows[id] # None)
    BY <1>1, <2>1, <2>3 DEF Keep
  <2> QED
    BY <2>2, <2>3
<1>5. CASE \E id : Remove(id)
  <2>1. PICK id : rows' = Without(id)
    BY <1>5 DEF Remove
  <2>2. \A r \in RowType : [r EXCEPT !.like = None] \in RowType
    BY DEF RowType
  <2> QED
    BY <1>1, <2>1, <2>2 DEF Without
<1> QED
  BY <1>1, <1>2, <1>3, <1>4, <1>5, WritesRows

\* The entry in progress is one of the queue.
LEMMA EntryOfTheQueue ==
  ASSUME DrawerType, cur # 0 PROVE cur \in 1..Len(queue) /\ Entry \in EntryType
BY DEF DrawerType, Entry

LEMMA FilesType ==
  ASSUME TypeOK, [Next]_vars PROVE files' \subseteq Masters
<1> USE DEF Masters
<1>1. files \subseteq Masters /\ \A h \in handlers : h.src \in Masters
  BY DEF TypeOK, ServerType, HandlerType
<1>2. CASE UNCHANGED vars
  BY <1>1, <1>2 DEF vars, server
<1>3. CASE Serve
  BY <1>1, <1>3 DEF Serve, LookUp, Refuse, Create, DedupUnread, Fingerprint,
                    CheckMaterialSimilarity, Discard
<1>4. CASE Upload
  <2>1. Entry.src \in Sources
    BY <1>4, EntryOfTheQueue DEF TypeOK, Upload, EntryType
  <2> QED
    BY <1>1, <1>4, <2>1 DEF Upload, Store
<1>5. CASE Run /\ ~Upload
  BY <1>1, <1>5 DEF Run, PollFingerprint, PollSimilarity, LinkUploaded, LinkNextPicked,
                    UploadFails, Uploaded, Reused, Discard, server
<1>6. CASE Decide
  BY <1>1, <1>6 DEF Decide, FallbackKeep, FallbackRemove, FallbackRemoveRefused, Continue,
                    DecideKeep, DecideRemove, server
<1>7. CASE Operate
  <2>1. CASE OtherUpload
    BY <1>1, <2>1 DEF OtherUpload, Store
  <2>2. CASE ~OtherUpload
    BY <1>1, <1>7, <2>2 DEF Operate, OpenDrawer, CloseDrawer, SubmitUploads, AddFile,
                            LinkSelected, Unlink, EditStations, server
  <2> QED
    BY <2>1, <2>2
<1>8. CASE ReadMaterials \/ ReadLinks
  BY <1>1, <1>8 DEF ReadMaterials, ReadLinks, server
<1> QED
  BY <1>2, <1>3, <1>4, <1>5, <1>6, <1>7, <1>8 DEF Next

\* Who writes the links of the campaign.
LEMMA WritesLinks ==
  [Next]_vars =>
    \/ UNCHANGED links
    \/ \E id : LinkNextPicked /\ id = Min(picked) /\ links' = [links EXCEPT ![id] = Stations]
                 /\ rows[id] # None /\ UNCHANGED rows
    \/ \E h \in handlers : /\ Reused(h) /\ LET id == Min(SameAudio(Mine, h.src))
                                           IN  /\ ShouldLink(id) /\ links' = [links EXCEPT ![id] = Stations]
                                               /\ rows[id] # None /\ UNCHANGED rows
    \/ LinkUploaded /\ links' = [links EXCEPT ![Entry.id] = Stations] /\ rows[Entry.id] # None
                    /\ UNCHANGED rows
    \/ \E id \in Ids : Unlink(id) \/ \E scope \in SUBSET Stations : EditStations(id, scope)
<1> SUFFICES ASSUME [Next]_vars, ~ UNCHANGED links
    PROVE \/ \E id : LinkNextPicked /\ id = Min(picked) /\ links' = [links EXCEPT ![id] = Stations]
                       /\ rows[id] # None /\ UNCHANGED rows
          \/ \E h \in handlers : /\ Reused(h) /\ LET id == Min(SameAudio(Mine, h.src))
                                                 IN  /\ ShouldLink(id) /\ links' = [links EXCEPT ![id] = Stations]
                                                     /\ rows[id] # None /\ UNCHANGED rows
          \/ LinkUploaded /\ links' = [links EXCEPT ![Entry.id] = Stations] /\ rows[Entry.id] # None
                    /\ UNCHANGED rows
          \/ \E id \in Ids : Unlink(id) \/ \E scope \in SUBSET Stations : EditStations(id, scope)
  OBVIOUS
<1>1. Next
  BY DEF vars, server
<1>2. CASE Serve
  BY <1>2 DEF Serve, LookUp, Refuse, Create, DedupUnread, Fingerprint, CheckMaterialSimilarity
<1>3. CASE Run
  <2>1. CASE Upload \/ PollFingerprint \/ PollSimilarity \/ \E h \in handlers : UploadFails(h) \/ Uploaded(h)
    BY <2>1 DEF Upload, PollFingerprint, PollSimilarity, UploadFails, Uploaded, server
  <2>2. CASE LinkUploaded
    BY <2>2 DEF LinkUploaded, Link, LinkFails
  <2>3. CASE LinkNextPicked
    BY <2>3 DEF LinkNextPicked, Link, LinkFails
  <2>4. ASSUME NEW h \in handlers, Reused(h)
        PROVE  LET id == Min(SameAudio(Mine, h.src))
               IN  /\ ShouldLink(id) /\ links' = [links EXCEPT ![id] = Stations]
                   /\ rows[id] # None /\ UNCHANGED rows
    BY <2>4 DEF Reused, Link, LinkFails
  <2> QED
    BY <1>3, <2>1, <2>2, <2>3, <2>4 DEF Run
<1>4. CASE Decide
  BY <1>4 DEF Decide, FallbackKeep, FallbackRemove, FallbackRemoveRefused, Continue,
              DecideKeep, DecideRemove, server
<1>5. CASE Operate
  BY <1>5 DEF Operate, OpenDrawer, CloseDrawer, SubmitUploads, OtherUpload, AddFile,
              LinkSelected, server
<1>6. CASE ReadMaterials \/ ReadLinks
  BY <1>6 DEF ReadMaterials, ReadLinks, server
<1> QED
  BY <1>1, <1>2, <1>3, <1>4, <1>5, <1>6 DEF Next

LEMMA LinksType ==
  ASSUME TypeOK, [Next]_vars PROVE links' \in [Ids -> {None} \cup SUBSET Stations]
<1>1. links \in [Ids -> {None} \cup SUBSET Stations] /\ Stations \in SUBSET Stations
  BY DEF TypeOK, ServerType
<1>2. CASE \E id \in Ids : Unlink(id) \/ \E scope \in SUBSET Stations : EditStations(id, scope)
  BY <1>1, <1>2 DEF Unlink, EditStations
<1>3. CASE \E id : links' = [links EXCEPT ![id] = Stations]
  BY <1>1, <1>3
<1> QED
  BY <1>1, <1>2, <1>3, WritesLinks

LEMMA HandlersType ==
  ASSUME TypeOK, [Next]_vars PROVE handlers' \subseteq HandlerType
<1>1. handlers \subseteq HandlerType
  BY DEF TypeOK, ServerType
<1>2. \A h \in HandlerType :
        /\ \A at \in {"stored", "new", "refused", "created"} : [h EXCEPT !.at = at] \in HandlerType
        /\ \A id \in Ids : [h EXCEPT !.at = "created", !.id = id] \in HandlerType
        /\ [h EXCEPT !.who = "gone"] \in HandlerType
  BY DEF HandlerType
<1>3. CASE UNCHANGED vars
  BY <1>1, <1>3 DEF vars, server
<1>4. CASE Serve
  <2>1. ASSUME NEW h \in handlers, LookUp(h) PROVE handlers' \subseteq HandlerType
    BY <1>1, <1>2, <2>1 DEF LookUp
  <2>2. ASSUME NEW h \in handlers, Refuse(h) PROVE handlers' \subseteq HandlerType
    BY <1>1, <1>2, <2>2 DEF Refuse
  <2>3. ASSUME NEW h \in handlers, Create(h) PROVE handlers' \subseteq HandlerType
    BY <1>1, <1>2, <2>3 DEF Create
  <2>4. ASSUME NEW h \in handlers, DedupUnread(h) PROVE handlers' \subseteq HandlerType
    BY <1>1, <2>4 DEF DedupUnread
  <2>5. CASE \E id \in Ids : Fingerprint(id) \/ CheckMaterialSimilarity(id)
    BY <1>1, <2>5 DEF Fingerprint, CheckMaterialSimilarity
  <2> QED
    BY <1>4, <2>1, <2>2, <2>3, <2>4, <2>5 DEF Serve
<1>5. CASE Run
  <2>1. CASE Upload
    <3>1. Entry.src \in Masters
      BY <2>1, EntryOfTheQueue DEF TypeOK, Upload, EntryType, Masters
    <3>2. [who |-> "me", client |-> Mine, src |-> Entry.src, at |-> "stored", id |-> None] \in HandlerType
      BY <3>1 DEF HandlerType
    <3> QED
      BY <1>1, <2>1, <3>2 DEF Upload, Store
  <2>2. ASSUME NEW h \in handlers, UploadFails(h) PROVE handlers' \subseteq HandlerType
    BY <1>1, <1>2, <2>2 DEF UploadFails
  <2>3. ASSUME NEW h \in handlers, Uploaded(h) \/ Reused(h) PROVE handlers' \subseteq HandlerType
    BY <1>1, <2>3 DEF Uploaded, Reused
  <2>4. CASE PollFingerprint \/ PollSimilarity \/ LinkUploaded \/ LinkNextPicked
    BY <1>1, <2>4 DEF PollFingerprint, PollSimilarity, LinkUploaded, LinkNextPicked, server
  <2> QED
    BY <1>5, <2>1, <2>2, <2>3, <2>4 DEF Run
<1>6. CASE Decide
  BY <1>1, <1>6 DEF Decide, FallbackKeep, FallbackRemove, FallbackRemoveRefused, Continue,
                    DecideKeep, DecideRemove, server
<1>7. CASE Operate
  <2>1. CASE OtherUpload
    <3>1. PICK src \in OtherUploads : Store("other", Other, src)
      BY <2>1 DEF OtherUpload
    <3>2. [who |-> "other", client |-> Other, src |-> src, at |-> "stored", id |-> None] \in HandlerType
      BY <3>1 DEF HandlerType, Masters
    <3> QED
      BY <1>1, <3>1, <3>2 DEF Store
  <2>2. CASE ~OtherUpload
    BY <1>1, <1>7, <2>2 DEF Operate, OpenDrawer, CloseDrawer, SubmitUploads, AddFile,
                            LinkSelected, Unlink, EditStations, server
  <2> QED
    BY <2>1, <2>2
<1>8. CASE ReadMaterials \/ ReadLinks
  BY <1>1, <1>8 DEF ReadMaterials, ReadLinks, server
<1> QED
  BY <1>3, <1>4, <1>5, <1>6, <1>7, <1>8 DEF Next

\* The lists of the browser are copies of the server's rows and links.
LEMMA LibraryType ==
  ASSUME NEW r \in [Ids -> {None} \cup RowType]
  PROVE  Library(r) \in [Ids -> {None} \cup RowType]
BY DEF Library

\* How the list of materials changes: read again, or marked stale.
LEMMA WritesMats ==
  [Next]_vars => /\ mats' = mats \/ mats' = Library(rows')
                 /\ matsStale' = matsStale \/ matsStale' \in BOOLEAN
<1> SUFFICES ASSUME [Next]_vars PROVE /\ mats' = mats \/ mats' = Library(rows')
                                      /\ matsStale' = matsStale \/ matsStale' \in BOOLEAN
  OBVIOUS
<1>1. CASE UNCHANGED vars
  BY <1>1 DEF vars, lists
<1>2. CASE Serve
  BY <1>2 DEF Serve, LookUp, Refuse, Create, DedupUnread, Fingerprint, CheckMaterialSimilarity, lists
<1>3. CASE Run
  BY <1>3 DEF Run, Upload, PollFingerprint, PollSimilarity, LinkUploaded, LinkNextPicked,
              UploadFails, Uploaded, Reused, lists
<1>4. CASE Decide
  BY <1>4 DEF Decide, FallbackKeep, FallbackRemove, FallbackRemoveRefused, Continue,
              DecideKeep, DecideRemove, Keep, Remove, Awaited, lists
<1>5. CASE Operate
  BY <1>5 DEF Operate, OpenDrawer, CloseDrawer, SubmitUploads, OtherUpload, AddFile,
              LinkSelected, Unlink, EditStations, lists
<1>6. CASE ReadMaterials \/ ReadLinks
  BY <1>6 DEF ReadMaterials, ReadLinks, server
<1> QED
  BY <1>1, <1>2, <1>3, <1>4, <1>5, <1>6 DEF Next

\* How the list of links changes: read again, or marked stale.
LEMMA WritesCmp ==
  [Next]_vars => ReadLinks \/ (cmp' = cmp /\ cmpStale' \in {cmpStale, TRUE})
<1> SUFFICES ASSUME [Next]_vars PROVE ReadLinks \/ (cmp' = cmp /\ cmpStale' \in {cmpStale, TRUE})
  OBVIOUS
<1>1. CASE UNCHANGED vars
  BY <1>1 DEF vars, lists
<1>2. CASE Serve
  BY <1>2 DEF Serve, LookUp, Refuse, Create, DedupUnread, Fingerprint, CheckMaterialSimilarity, lists
<1>3. CASE Run
  BY <1>3 DEF Run, Upload, PollFingerprint, PollSimilarity, LinkUploaded, LinkNextPicked,
              UploadFails, Uploaded, Reused, Link, lists
<1>4. CASE Decide
  BY <1>4 DEF Decide, FallbackKeep, FallbackRemove, FallbackRemoveRefused, Continue,
              DecideKeep, DecideRemove, lists
<1>5. CASE Operate
  BY <1>5 DEF Operate, OpenDrawer, CloseDrawer, SubmitUploads, OtherUpload, AddFile,
              LinkSelected, Unlink, EditStations, lists
<1>6. CASE ReadMaterials \/ ReadLinks
  BY <1>6 DEF ReadMaterials, ReadLinks, server
<1> QED
  BY <1>1, <1>2, <1>3, <1>4, <1>5, <1>6 DEF Next

LEMMA ListsNext ==
  ASSUME TypeOK, [Next]_vars PROVE ListsType'
<1>1. mats' \in [Ids -> {None} \cup RowType] /\ matsStale' \in BOOLEAN
  <2>1. rows' \in [Ids -> {None} \cup RowType]
    BY RowsType
  <2>2. Library(rows') \in [Ids -> {None} \cup RowType]
    BY <2>1, LibraryType
  <2> QED
    BY <2>2, WritesMats DEF TypeOK, ListsType
<1>2. cmp' \in [Ids -> {None} \cup SUBSET Stations] /\ cmpStale' \in BOOLEAN
  BY WritesCmp DEF TypeOK, ListsType, ServerType, ReadLinks
<1> QED
  BY <1>1, <1>2 DEF ListsType

---------------------------------------------------------------------------
(* The queue of the drawer. *)

\* The next entry of a run is one that may start.
LEMMA StartsWith ==
  ASSUME NEW k \in Nat, k # 0, From(k) # {}
  PROVE  Min(From(k)) \in k..Len(queue) /\ queue[Min(From(k))].stage \in Startable
<1>1. From(k) \in SUBSET Nat
  BY DEF From
<1>2. Min(From(k)) \in From(k)
  BY <1>1, MinIsIn
<1> QED
  BY <1>2 DEF From

LEMMA EmptyQueue == <<>> \in Seq(EntryType) /\ Len(<<>>) = 0
OBVIOUS

\* A drawer with no run in it may be emptied.
LEMMA NoQueue ==
  ASSUME queue' = queue \/ queue' = <<>>, queue \in Seq(EntryType)
  PROVE  queue' \in Seq(EntryType) /\ 0 \in 0..Len(queue')
<1>1. queue' \in Seq(EntryType)
  BY EmptyQueue
<1> QED
  BY <1>1

LEMMA WriteOne ==
  ASSUME NEW T, NEW q \in Seq(T), NEW k \in 1..Len(q), NEW e \in T
  PROVE  LET w == [q EXCEPT ![k] = e]
         IN  /\ w \in Seq(T) /\ Len(w) = Len(q) /\ w[k] = e
             /\ \A j \in 1..Len(q) : j # k => w[j] = q[j]
OBVIOUS

LEMMA StageKeeps ==
  ASSUME DrawerType, cur # 0, NEW stage \in Stages, NEW id \in Ids \cup {None}, Stage(stage, id)
  PROVE  /\ queue' \in Seq(EntryType) /\ Len(queue') = Len(queue)
         /\ queue'[cur].stage = stage /\ queue'[cur].id = id
<1> DEFINE e == [queue[cur] EXCEPT !.stage = stage, !.id = id]
<1>1. queue \in Seq(EntryType) /\ cur \in 1..Len(queue) /\ queue[cur] \in EntryType
  BY EntryOfTheQueue DEF DrawerType, Entry
<1>2. e \in EntryType /\ e.stage = stage /\ e.id = id
  BY <1>1 DEF EntryType
<1>3. queue' = [queue EXCEPT ![cur] = e]
  BY <1>1 DEF Stage
<1> HIDE DEF e
<1> QED
  BY <1>1, <1>2, <1>3, WriteOne

\* An entry that settles leaves the drawer with a run that goes on with an entry
\* that may start, or with no run.
LEMMA SettleKeeps ==
  ASSUME DrawerType, cur # 0, NEW stage \in Stages, Settle(stage)
  PROVE  /\ DrawerType'
         /\ \/ /\ UNCHANGED <<open, busy, known, picked>> /\ cur' # 0
               /\ queue'[cur'].stage \in Startable
            \/ busy' = FALSE /\ cur' = 0 /\ (UNCHANGED picked \/ picked' = {})
<1> DEFINE q == [queue EXCEPT ![cur].stage = stage]
<1>1. /\ queue \in Seq(EntryType) /\ cur \in 1..Len(queue) /\ queue[cur] \in EntryType
      /\ open \in BOOLEAN /\ busy \in BOOLEAN /\ known \subseteq Ids /\ picked \subseteq Ids
      /\ Len(queue) \in Nat
  BY EntryOfTheQueue DEF DrawerType, Entry
<1>2. [queue[cur] EXCEPT !.stage = stage] \in EntryType
  BY <1>1 DEF EntryType
<1>3. q \in Seq(EntryType) /\ Len(q) = Len(queue) /\ \A j \in 1..Len(queue) : j # cur => q[j] = queue[j]
  BY <1>1, <1>2
<1>4. CASE From(cur + 1) # {}
  <2>1. /\ Min(From(cur + 1)) \in (cur + 1)..Len(queue)
        /\ queue[Min(From(cur + 1))].stage \in Startable
    BY <1>1, <1>4, StartsWith
  <2>2. cur' = Min(From(cur + 1)) /\ queue' = q /\ UNCHANGED <<open, busy, known, picked>>
    BY <1>4 DEF Settle
  <2>3. cur' \in 0..Len(queue) /\ cur' # 0 /\ cur' \in 1..Len(queue) /\ cur' # cur
    <3> HIDE DEF q
    <3> QED
      BY <1>1, <2>1, <2>2
  <2>4. queue'[cur'].stage \in Startable
    <3> HIDE DEF q
    <3> QED
      BY <1>3, <2>1, <2>2, <2>3
  <2>5. DrawerType'
    <3> HIDE DEF q
    <3> QED
      BY <1>1, <1>3, <2>2, <2>3 DEF DrawerType
  <2> QED
    BY <2>2, <2>3, <2>4, <2>5
<1>5. CASE From(cur + 1) = {}
  <2>1. /\ busy' = FALSE /\ cur' = 0 /\ known' = {}
        /\ \/ open' = FALSE /\ queue' = <<>> /\ picked' = {}
           \/ (queue' = q /\ UNCHANGED <<open, picked>>)
    BY <1>5 DEF Settle, Closed
  <2>2. queue' \in Seq(EntryType) /\ Len(queue') \in Nat
    <3> HIDE DEF q
    <3> QED
      BY <1>1, <1>3, <2>1, EmptyQueue
  <2>3. open' \in BOOLEAN /\ picked' \subseteq Ids /\ (UNCHANGED picked \/ picked' = {})
    BY <1>1, <2>1
  <2>4. busy' = FALSE /\ cur' = 0 /\ known' = {}
    BY <2>1
  <2>5. cur' \in 0..Len(queue')
    <3>1. \A n \in Nat : 0 \in 0..n
      OBVIOUS
    <3> QED
      BY <2>2, <2>4, <3>1
  <2>6. DrawerType'
    BY <2>2, <2>3, <2>4, <2>5 DEF DrawerType
  <2> QED
    BY <2>3, <2>4, <2>6
<1> QED
  BY <1>4, <1>5

LEMMA DrawerNext ==
  ASSUME TypeOK, [Next]_vars PROVE DrawerType'
<1>1. DrawerType /\ handlers \subseteq HandlerType
  BY DEF TypeOK, ServerType
<1>2. CASE UNCHANGED drawer
  BY <1>1, <1>2 DEF drawer, DrawerType
<1>3. CASE Serve
  BY <1>2, <1>3 DEF Serve, LookUp, Refuse, Create, DedupUnread, Fingerprint, CheckMaterialSimilarity
<1>4. ASSUME cur # 0, NEW stage \in Stages, NEW id \in Ids \cup {None}, Stage(stage, id),
             UNCHANGED <<open, busy, cur, known, picked>>
      PROVE  DrawerType'
  BY <1>1, <1>4, StageKeeps DEF DrawerType
<1>5. ASSUME cur # 0, NEW stage \in Stages, Settle(stage) PROVE DrawerType'
  BY <1>1, <1>5, SettleKeeps
<1>6. {"uploading", "fingerprinting", "verifying", "headsup", "deciding", "linking",
       "done", "reused", "removed", "error", "queued"} \subseteq Stages
  BY DEF Stages, Startable
<1>7. cur # 0 => Entry.id \in Ids \cup {None}
  BY <1>1, EntryOfTheQueue DEF EntryType
<1>8. CASE Run
  <2>1. CASE Upload
    BY <1>4, <1>6, <2>1 DEF Upload
  <2>2. CASE PollFingerprint
    BY <1>4, <1>5, <1>6, <1>7, <2>2 DEF PollFingerprint, At
  <2>3. CASE PollSimilarity
    BY <1>4, <1>5, <1>6, <1>7, <2>3 DEF PollSimilarity, At
  <2>4. CASE LinkUploaded
    BY <1>5, <1>6, <2>4 DEF LinkUploaded, At
  <2>5. CASE LinkNextPicked
    <3>1. /\ open' \in BOOLEAN /\ busy' \in BOOLEAN /\ UNCHANGED <<cur, known>>
          /\ picked' \subseteq Ids
      BY <1>1, <2>5 DEF LinkNextPicked, DrawerType, Closed
    <3>2. UNCHANGED queue \/ queue' = <<>>
      BY <2>5 DEF LinkNextPicked, Closed
    <3>3. cur = 0
      BY <2>5 DEF LinkNextPicked
    <3> QED
      BY <1>1, <3>1, <3>2, <3>3, NoQueue DEF DrawerType
  <2>6. ASSUME NEW h \in handlers, UploadFails(h) \/ Reused(h) PROVE DrawerType'
    BY <1>5, <1>6, <2>6 DEF UploadFails, Reused, At
  <2>7. ASSUME NEW h \in handlers, Uploaded(h) PROVE DrawerType'
    BY <1>1, <1>4, <1>6, <2>7 DEF Uploaded, At, HandlerType
  <2> QED
    BY <1>8, <2>1, <2>2, <2>3, <2>4, <2>5, <2>6, <2>7 DEF Run
<1>9. CASE Decide
  <2>1. CASE FallbackKeep \/ FallbackRemove \/ FallbackRemoveRefused
    BY <1>2, <2>1 DEF FallbackKeep, FallbackRemove, FallbackRemoveRefused
  <2>2. CASE Continue
    BY <1>4, <1>6, <1>7, <2>2 DEF Continue, At
  <2>3. CASE DecideKeep
    BY <1>4, <1>6, <1>7, <2>3 DEF DecideKeep, At
  <2>4. CASE DecideRemove
    BY <1>5, <1>6, <2>4 DEF DecideRemove, At
  <2> QED
    BY <1>9, <2>1, <2>2, <2>3, <2>4 DEF Decide
<1>10. CASE Operate
  <2>1. CASE OpenDrawer
    BY <1>1, <2>1 DEF OpenDrawer, DrawerType
  <2>6. CASE CloseDrawer
    <3>1. /\ open' \in BOOLEAN /\ UNCHANGED <<busy, cur, known>> /\ picked' = {}
      BY <2>6 DEF CloseDrawer, Closed
    <3>2. queue' = <<>>
      BY <2>6 DEF CloseDrawer, Closed
    <3>3. cur = 0
      BY <1>1, <2>6 DEF CloseDrawer, DrawerType
    <3> QED
      BY <1>1, <3>1, <3>2, <3>3, NoQueue DEF DrawerType
  <2>2. CASE SubmitUploads
    <3>1. Min(From(1)) \in 1..Len(queue)
      BY <2>2, StartsWith DEF SubmitUploads
    <3>2. Linked(cmp) \subseteq Ids
      BY DEF Linked
    <3> QED
      BY <1>1, <2>2, <3>1, <3>2 DEF SubmitUploads, DrawerType
  <2>3. CASE OtherUpload \/ \E id \in Ids : Unlink(id) \/ \E scope \in SUBSET Stations : EditStations(id, scope)
    BY <1>2, <2>3 DEF OtherUpload, Unlink, EditStations
  <2>4. ASSUME NEW src \in Sources, AddFile(src) PROVE DrawerType'
    <3>1. [src |-> src, stage |-> "queued", id |-> None] \in EntryType
      BY <1>6 DEF EntryType
    <3>2. queue' \in Seq(EntryType) /\ Len(queue') = Len(queue) + 1 /\ Len(queue) \in Nat
      BY <1>1, <2>4, <3>1 DEF AddFile, DrawerType
    <3>3. cur \in 0..Len(queue')
      BY <1>1, <3>2 DEF DrawerType
    <3> QED
      BY <1>1, <2>4, <3>2, <3>3 DEF AddFile, DrawerType
  <2>5. ASSUME NEW ids \in SUBSET Ids, LinkSelected(ids) PROVE DrawerType'
    BY <1>1, <2>5 DEF LinkSelected, DrawerType
  <2> QED
    BY <1>10, <2>1, <2>2, <2>3, <2>4, <2>5, <2>6 DEF Operate
<1>11. CASE ReadMaterials \/ ReadLinks \/ UNCHANGED vars
  BY <1>2, <1>11 DEF ReadMaterials, ReadLinks, vars
<1> QED
  BY <1>3, <1>8, <1>9, <1>10, <1>11 DEF Next

LEMMA TypeInit == Init => TypeOK
<1> SUFFICES ASSUME Init PROVE TypeOK
  OBVIOUS
<1>1. /\ Row(Mine, OldSource) \in RowType
      /\ \A r \in RowType : [r EXCEPT !.fp = "ready", !.sim = "skipped"] \in RowType
  BY DEF Row, RowType, Masters
<1>2. rows \in [Ids -> {None} \cup RowType]
  BY <1>1 DEF Init
<1>3. ServerType
  BY <1>2 DEF Init, ServerType, Masters
<1>4. ListsType
  BY <1>2, LibraryType DEF Init, ListsType
<1>5. DrawerType
  <2>1. queue \in Seq(EntryType)
    BY EmptyQueue DEF Init
  <2>2. cur \in 0..Len(queue)
    BY <2>1 DEF Init
  <2>3. open = FALSE /\ busy = FALSE /\ cur = 0 /\ known = {} /\ picked = {}
    BY DEF Init
  <2> QED
    BY <2>1, <2>2, <2>3 DEF DrawerType
<1> QED
  BY <1>3, <1>4, <1>5 DEF TypeOK

LEMMA TypeNext ==
  ASSUME TypeOK, [Next]_vars PROVE TypeOK'
BY RowsType, FilesType, LinksType, HandlersType, ListsNext, DrawerNext DEF TypeOK, ServerType

\* The materials, the links, the files in flight and the drawer are what their
\* tables and their screens can hold.
THEOREM Typed == Spec => []TypeOK
BY TypeInit, TypeNext, PTL DEF Spec

---------------------------------------------------------------------------
(* Nobody is asked again about what they accepted. *)

\* What the screen shows of a material exists, and an acceptance shows at once:
\* the decision waits for the list.
AckSeen == \A i \in Ids : mats[i] # None => rows[i] # None /\ (rows[i].ack => mats[i].ack)

LEMMA AckNext ==
  ASSUME TypeOK, AckSeen, [Next]_vars PROVE AckSeen'
<1>1. CASE mats' = Library(rows')
  BY <1>1 DEF AckSeen, Library
<1>2. CASE mats' = mats /\ UNCHANGED rows
  BY <1>2 DEF AckSeen
<1>3. CASE mats' = mats /\ \E h \in handlers : Create(h)
  <2>1. PICK h \in handlers : Create(h)
    BY <1>3
  <2>2. rows[Fresh] = None /\ rows' = [rows EXCEPT ![Fresh] = Row(h.client, h.src)]
    BY <2>1, FreshIsNew DEF Create
  <2> QED
    BY <1>3, <2>2 DEF AckSeen, TypeOK, ServerType
<1>4. CASE mats' = mats /\ \E id \in Ids : Fingerprint(id) \/ CheckMaterialSimilarity(id)
  <2>1. PICK id \in Ids : Fingerprint(id) \/ CheckMaterialSimilarity(id)
    BY <1>4
  <2>2. PICK r \in RowType : r.ack = rows[id].ack /\ rows' = [rows EXCEPT ![id] = r]
    BY <2>1, WorkersUpdateOne
  <2>3. rows[id] # None /\ r # None
    BY <2>1, UploadAssumption DEF Fingerprint, CheckMaterialSimilarity
  <2> QED
    BY <1>4, <2>2, <2>3 DEF AckSeen, TypeOK, ServerType
<1>5. CASE \E id : Keep(id) \/ Remove(id)
  BY <1>1, <1>5 DEF Keep, Remove, Awaited
<1> QED
  BY <1>1, <1>2, <1>3, <1>4, <1>5, WritesMats, WritesRows

LEMMA AskIs ==
  ASSUME NEW asked, NEW m, NEW c
  PROVE  Ask(asked, m, c) \in {asked} \cup Unresolved(m, c)
<1>1. Unresolved(m, c) \in SUBSET Nat
  BY UploadAssumption DEF Unresolved, Ids
<1> QED
  BY <1>1, MinIsIn DEF Ask

LEMMA AsksWhatItShows ==
  [Next]_vars => fallback' \in {fallback, None} \cup Unresolved(mats', cmp')
<1> SUFFICES ASSUME [Next]_vars
             PROVE  fallback' \in {fallback, None} \cup Unresolved(mats', cmp')
  OBVIOUS
<1>1. CASE UNCHANGED vars
  BY <1>1 DEF vars
<1>2. CASE Serve
  BY <1>2 DEF Serve, LookUp, Refuse, Create, DedupUnread, Fingerprint, CheckMaterialSimilarity
<1>3. CASE Run
  BY <1>3 DEF Run, Upload, PollFingerprint, PollSimilarity, LinkUploaded, LinkNextPicked,
              UploadFails, Uploaded, Reused
<1>4. CASE Decide
  <2>1. CASE FallbackKeep \/ FallbackRemove
    <3>1. fallback' = Ask(None, mats', cmp) /\ UNCHANGED cmp
      BY <2>1 DEF FallbackKeep, FallbackRemove
    <3> QED
      BY <3>1, AskIs
  <2>2. CASE DecideKeep \/ DecideRemove
    <3>1. fallback' = Ask(fallback, mats', cmp) /\ UNCHANGED cmp
      BY <2>2 DEF DecideKeep, DecideRemove
    <3> QED
      BY <3>1, AskIs
  <2>3. CASE Continue \/ FallbackRemoveRefused
    BY <2>3 DEF Continue, FallbackRemoveRefused
  <2> QED
    BY <1>4, <2>1, <2>2, <2>3 DEF Decide
<1>5. CASE Operate
  BY <1>5 DEF Operate, OpenDrawer, CloseDrawer, SubmitUploads, OtherUpload, AddFile,
              LinkSelected, Unlink, EditStations
<1>6. CASE ReadMaterials
  <2>1. fallback' = Ask(fallback, mats', cmp) /\ UNCHANGED cmp
    BY <1>6 DEF ReadMaterials
  <2> QED
    BY <2>1, AskIs
<1>7. CASE ReadLinks
  <2>1. fallback' = Ask(fallback, mats, cmp') /\ UNCHANGED mats
    BY <1>7 DEF ReadLinks
  <2> QED
    BY <2>1, AskIs
<1> QED
  BY <1>1, <1>2, <1>3, <1>4, <1>5, <1>6, <1>7 DEF Next

\* Nobody is asked again about a material whose similarity was accepted: the
\* question comes from the list of the screen, and the list knows the answer.
THEOREM AskedAtMostOnce == Spec => AskedOnce
<1>1. Init => AckSeen
  BY DEF Init, AckSeen, Library
<1>2. TypeOK /\ TypeOK' /\ AckSeen /\ AckSeen' /\ [Next]_vars
        => [fallback' # None /\ fallback' # fallback => ~rows'[fallback'].ack]_vars
  <2> SUFFICES ASSUME AckSeen', [Next]_vars, fallback' # None, fallback' # fallback
               PROVE  ~rows'[fallback'].ack
    OBVIOUS
  <2>1. fallback' \in Unresolved(mats', cmp')
    BY AsksWhatItShows
  <2> QED
    BY <2>1 DEF Unresolved, AckSeen
<1> QED
  BY <1>1, <1>2, AckNext, Typed, PTL DEF Spec, AskedOnce

---------------------------------------------------------------------------
(* Nothing but the cards changes the stations of a material that is linked,   *)
(* when the operator acts on links that have been read.                       *)

\* What a link may be written over: nothing, or every station.
Free(i) == links[i] \in {None, Stations}

Following == {"fingerprinting", "verifying", "headsup", "deciding", "linking"}

\* A link is to a material that exists (ON DELETE RESTRICT).
LinkedExist == \A i \in Ids : links[i] # None => rows[i] # None

\* The screen shows the links that are not to every station, if the drawer is
\* open or the list is not stale.
Shown == open \/ ~cmpStale => \A i \in Ids : cmp[i] = None => Free(i)

\* A run is in an open drawer, of picked materials or of the queue; what it means
\* to link is free.
Running ==
  /\ busy => open
  /\ ~busy \/ cur # 0 => picked = {}
  /\ \A i \in picked : Free(i)
  /\ cur # 0 => \A i \in Ids \ known : Free(i)

\* The material that the entry in progress follows is free.
Followed == cur # 0 /\ Entry.stage \in Following => Entry.id \in Ids /\ Free(Entry.id)

\* The browser waits for one upload at most, and a row it added is free.
Answering ==
  \A h \in handlers : h.who = "me" =>
    /\ At("uploading")
    /\ \A g \in handlers : g.who = "me" => g = h
    /\ h.at = "created" => h.id \in Ids /\ Free(h.id)

ScopeInv == LinkedExist /\ Shown /\ Running /\ Followed /\ Answering

LEMMA LinkedNext ==
  ASSUME TypeOK, LinkedExist, [Next]_vars PROVE LinkedExist'
<1> USE DEF LinkedExist, TypeOK, ServerType
<1>1. CASE UNCHANGED links
  <2>1. CASE UNCHANGED rows
    BY <1>1, <2>1
  <2>2. CASE \E h \in handlers : Create(h)
    <3>1. PICK h \in handlers : Create(h)
      BY <2>2
    <3>2. rows[Fresh] = None /\ links[Fresh] = None /\ Fresh \in Ids
      BY <3>1, FreshIsNew DEF Create
    <3> QED
      BY <1>1, <3>1, <3>2 DEF Create
  <2>3. CASE \E id \in Ids : Fingerprint(id) \/ CheckMaterialSimilarity(id)
    <3>1. PICK id \in Ids : \E r \in RowType : rows' = [rows EXCEPT ![id] = r]
      BY <2>3, WorkersUpdateOne
    <3> QED
      BY <1>1, <3>1, UploadAssumption
  <2>4. ASSUME NEW id, Keep(id) PROVE LinkedExist'
    <3>1. \A r \in RowType : [r EXCEPT !.ack = TRUE] \in RowType
      BY DEF RowType
    <3> QED
      BY <1>1, <2>4, <3>1, UploadAssumption DEF Keep
  <2>5. ASSUME NEW id, Remove(id) PROVE LinkedExist'
    <3>1. \A r \in RowType : [r EXCEPT !.like = None] \in RowType
      BY DEF RowType
    <3> QED
      BY <1>1, <2>5, <3>1, UploadAssumption DEF Remove, Without
  <2> QED
    BY <2>1, <2>2, <2>3, <2>4, <2>5, WritesRows
<1>2. CASE UNCHANGED rows
  <2>1. CASE \E id : links' = [links EXCEPT ![id] = Stations] /\ rows[id] # None
    BY <1>2, <2>1
  <2>2. CASE \E id \in Ids : Unlink(id) \/ \E scope \in SUBSET Stations : EditStations(id, scope)
    BY <1>2, <2>2 DEF Unlink, EditStations
  <2> QED
    BY <1>1, <2>1, <2>2, WritesLinks
<1>3. CASE \E id \in Ids : Unlink(id) \/ \E scope \in SUBSET Stations : EditStations(id, scope)
  BY <1>2, <1>3 DEF Unlink, EditStations
<1> QED
  BY <1>1, <1>2, <1>3, WritesLinks

\* What is free is linked with every station, or its card is edited.
LEMMA FreeStays ==
  ASSUME TypeOK, [Next]_vars, NEW i \in Ids, Free(i),
         ~ \E id \in Ids, scope \in SUBSET Stations : EditStations(id, scope)
  PROVE  Free(i)'
<1>1. CASE \E id : links' = [links EXCEPT ![id] = Stations]
  BY <1>1 DEF Free, TypeOK, ServerType
<1>2. CASE \E id \in Ids : Unlink(id)
  BY <1>2 DEF Free, Unlink, TypeOK, ServerType
<1>3. CASE UNCHANGED links
  BY <1>3 DEF Free
<1> QED
  BY <1>1, <1>2, <1>3, WritesLinks

LEMMA FreeWhileOpen ==
  ASSUME TypeOK, [Next]_vars, open, NEW i \in Ids, Free(i) PROVE Free(i)'
BY FreeStays DEF EditStations, Idle

LEMMA OpensOnRead ==
  [Next]_vars /\ Slow = FALSE => (open' => open \/ (~cmpStale /\ UNCHANGED <<cmp, cmpStale, links>>))
<1> SUFFICES ASSUME [Next]_vars, Slow = FALSE, open', open' # open
             PROVE  ~cmpStale /\ UNCHANGED <<cmp, cmpStale, links>>
  OBVIOUS
<1>1. CASE OpenDrawer
  BY <1>1 DEF OpenDrawer, Idle, lists, server
<1>2. CASE Serve
  BY <1>2 DEF Serve, LookUp, Refuse, Create, DedupUnread, Fingerprint, CheckMaterialSimilarity, drawer
<1>3. CASE Run
  BY <1>3 DEF Run, Upload, PollFingerprint, PollSimilarity, LinkUploaded, LinkNextPicked,
              UploadFails, Uploaded, Reused, Settle, Closed
<1>4. CASE Decide
  BY <1>4 DEF Decide, FallbackKeep, FallbackRemove, FallbackRemoveRefused, Continue,
              DecideKeep, DecideRemove, Settle, Closed, drawer
<1>5. CASE Operate
  BY <1>1, <1>5 DEF Operate, CloseDrawer, SubmitUploads, OtherUpload, AddFile,
                    LinkSelected, Unlink, EditStations, Closed, drawer
<1>6. CASE ReadMaterials \/ ReadLinks \/ UNCHANGED vars
  BY <1>6 DEF ReadMaterials, ReadLinks, drawer, vars
<1> QED
  BY <1>2, <1>3, <1>4, <1>5, <1>6 DEF Next

LEMMA ShownNext ==
  ASSUME TypeOK, Slow = FALSE, Shown, [Next]_vars PROVE Shown'
<1>1. CASE ReadLinks
  BY <1>1 DEF ReadLinks, Shown, Free, server
<1>2. CASE \E id \in Ids, scope \in SUBSET Stations : EditStations(id, scope)
  BY <1>2 DEF EditStations, Idle, Shown, drawer
<1>3. CASE /\ cmp' = cmp /\ cmpStale' \in {cmpStale, TRUE}
           /\ ~ \E id \in Ids, scope \in SUBSET Stations : EditStations(id, scope)
  <2> SUFFICES ASSUME open' \/ ~cmpStale', NEW i \in Ids, cmp[i] = None PROVE Free(i)'
    BY <1>3 DEF Shown
  <2>1. open \/ ~cmpStale
    BY <1>3, OpensOnRead
  <2>2. Free(i)
    BY <2>1 DEF Shown
  <2> QED
    BY <1>3, <2>2, FreeStays
<1> QED
  BY <1>1, <1>2, <1>3, WritesCmp

\* A drawer that a step leaves as it is.
LEMMA RunStays ==
  ASSUME TypeOK, Running, Followed, [Next]_vars, UNCHANGED drawer
  PROVE  Running' /\ Followed'
<1>1. /\ busy' = busy /\ open' = open /\ cur' = cur /\ picked' = picked /\ known' = known
      /\ queue' = queue /\ Entry' = Entry
  BY DEF drawer, Entry
<1>2. CASE open
  <2>1. \A i \in Ids : Free(i) => Free(i)'
    BY <1>2, FreeWhileOpen
  <2>2. Running'
    BY <1>1, <2>1 DEF Running, TypeOK, DrawerType
  <2>3. Followed'
    BY <1>1, <2>1 DEF Followed
  <2> QED
    BY <2>2, <2>3
<1>3. CASE ~open
  <2>1. ~busy /\ picked = {} /\ cur = 0
    BY <1>3 DEF Running, TypeOK, DrawerType
  <2> QED
    BY <1>1, <1>3, <2>1 DEF Running, Followed
<1> QED
  BY <1>2, <1>3

\* An entry moves on; what it follows is free.
LEMMA RunStages ==
  ASSUME TypeOK, Running, [Next]_vars, busy, cur # 0,
         NEW stage \in Stages, NEW id \in Ids \cup {None}, Stage(stage, id),
         UNCHANGED <<open, busy, cur, known, picked>>,
         stage \in Following => id \in Ids /\ Free(id)
  PROVE  Running' /\ Followed'
<1>1. open /\ \A i \in Ids : Free(i) => Free(i)'
  BY FreeWhileOpen DEF Running
<1>2. Running'
  BY <1>1 DEF Running, TypeOK, DrawerType
<1>3. Entry'.stage = stage /\ Entry'.id = id
  BY StageKeeps DEF Entry, TypeOK
<1>4. Followed'
  BY <1>1, <1>3 DEF Followed
<1> QED
  BY <1>2, <1>4

\* An entry settles; the next one follows nothing yet.
LEMMA RunSettles ==
  ASSUME TypeOK, Running, [Next]_vars, busy, cur # 0, NEW stage \in Stages, Settle(stage)
  PROVE  Running' /\ Followed'
<1>1. open /\ picked = {} /\ \A i \in Ids : Free(i) => Free(i)'
  BY FreeWhileOpen DEF Running
<1>2. \/ /\ UNCHANGED <<open, busy, known, picked>> /\ cur' # 0
         /\ queue'[cur'].stage \in Startable
      \/ busy' = FALSE /\ cur' = 0 /\ picked' = {}
  BY <1>1, SettleKeeps DEF TypeOK
<1>3. Running'
  BY <1>1, <1>2 DEF Running
<1>4. Followed'
  <2>1. Startable \cap Following = {}
    BY DEF Startable, Following
  <2>2. Entry' = queue'[cur']
    BY DEF Entry
  <2> QED
    BY <1>2, <2>1, <2>2 DEF Followed
<1> QED
  BY <1>3, <1>4

LEMMA RunNext ==
  ASSUME TypeOK, ScopeInv, [Next]_vars PROVE Running' /\ Followed'
<1>1. Running /\ Followed /\ Shown /\ Answering
  BY DEF ScopeInv
<1>2. UNCHANGED drawer => Running' /\ Followed'
  BY <1>1, RunStays
<1>3. ASSUME NEW stage \in Stages, busy, cur # 0, Settle(stage) PROVE Running' /\ Followed'
  BY <1>1, <1>3, RunSettles
<1>4. {"uploading", "fingerprinting", "verifying", "headsup", "deciding", "linking",
       "done", "reused", "removed", "error", "queued"} \subseteq Stages
  BY DEF Stages, Startable
<1>5. ASSUME NEW stage \in Stages, busy, cur # 0, Entry.stage \in Following, Stage(stage, Entry.id),
             UNCHANGED <<open, busy, cur, known, picked>>
      PROVE  Running' /\ Followed'
  BY <1>1, <1>5, RunStages DEF Followed
<1>6. CASE Run
  <2>1. CASE Upload
    <3>1. busy /\ cur # 0 /\ Stage("uploading", None) /\ UNCHANGED <<open, busy, cur, known, picked>>
      BY <2>1 DEF Upload
    <3>2. "uploading" \in Stages /\ "uploading" \notin Following
      BY <1>4 DEF Following
    <3> QED
      BY <1>1, <3>1, <3>2, RunStages
  <2>2. CASE PollFingerprint
    BY <1>3, <1>4, <1>5, <2>2 DEF PollFingerprint, At, Following
  <2>3. CASE PollSimilarity
    BY <1>3, <1>4, <1>5, <2>3 DEF PollSimilarity, At, Following
  <2>4. CASE LinkUploaded
    BY <1>3, <1>4, <2>4 DEF LinkUploaded, At
  <2>5. ASSUME NEW h \in handlers, UploadFails(h) \/ Reused(h) PROVE Running' /\ Followed'
    BY <1>3, <1>4, <2>5 DEF UploadFails, Reused, At
  <2>6. ASSUME NEW h \in handlers, Uploaded(h) PROVE Running' /\ Followed'
    <3>1. h.id \in Ids /\ Free(h.id)
      BY <1>1, <2>6 DEF Answering, Uploaded
    <3>2. busy /\ cur # 0 /\ Stage("fingerprinting", h.id) /\ UNCHANGED <<open, busy, cur, known, picked>>
      BY <2>6 DEF Uploaded, At
    <3> QED
      BY <1>1, <1>4, <3>1, <3>2, RunStages
  <2>7. CASE LinkNextPicked
    <3>1. open /\ cur = 0 /\ \A i \in Ids : Free(i) => Free(i)'
      BY <1>1, <2>7, FreeWhileOpen DEF LinkNextPicked, Running
    <3>2. cur' = 0 /\ picked' \subseteq picked /\ (picked' = {} \/ busy') /\ (busy' => open')
      BY <3>1, <2>7 DEF LinkNextPicked, Closed
    <3> QED
      BY <1>1, <3>1, <3>2 DEF Running, Followed, TypeOK, DrawerType
  <2> QED
    BY <1>6, <2>1, <2>2, <2>3, <2>4, <2>5, <2>6, <2>7 DEF Run
<1>7. CASE Decide
  <2>1. CASE FallbackKeep \/ FallbackRemove \/ FallbackRemoveRefused
    BY <1>2, <2>1 DEF FallbackKeep, FallbackRemove, FallbackRemoveRefused
  <2>2. CASE Continue \/ DecideKeep
    BY <1>4, <1>5, <2>2 DEF Continue, DecideKeep, At, Following
  <2>3. CASE DecideRemove
    BY <1>3, <1>4, <2>3 DEF DecideRemove, At
  <2> QED
    BY <1>7, <2>1, <2>2, <2>3 DEF Decide
<1>8. CASE OpenDrawer \/ CloseDrawer \/ (\E src \in Sources : AddFile(src))
  <2>1. ~busy /\ cur = 0 /\ picked = {}
    BY <1>1, <1>8 DEF OpenDrawer, CloseDrawer, AddFile, Idle, Running, TypeOK, DrawerType
  <2>2. busy' = busy /\ cur' = cur /\ picked' = {}
    BY <1>8, <2>1 DEF OpenDrawer, CloseDrawer, AddFile, Closed
  <2> QED
    BY <2>1, <2>2 DEF Running, Followed
<1>9. CASE SubmitUploads \/ \E ids \in SUBSET Ids : LinkSelected(ids)
  <2>1. open /\ open' /\ ~busy /\ cur = 0 /\ picked = {}
    BY <1>1, <1>9 DEF SubmitUploads, LinkSelected, Running, TypeOK, DrawerType
  <2>2. \A i \in Ids : cmp[i] = None => Free(i)'
    BY <1>1, <2>1, FreeWhileOpen DEF Shown
  <2>3. CASE SubmitUploads
    <3>1. /\ Min(From(1)) # 0 /\ queue[Min(From(1))].stage \in Startable
      BY <2>3, StartsWith DEF SubmitUploads
    <3>2. cur' = Min(From(1)) /\ queue' = queue /\ known' = Linked(cmp) /\ picked' = {}
      BY <2>1, <2>3 DEF SubmitUploads
    <3>3. Running'
      BY <2>1, <2>2, <3>2 DEF Running, Linked
    <3>4. Followed'
      BY <3>1, <3>2 DEF Followed, Entry, Startable, Following
    <3> QED
      BY <3>3, <3>4
  <2>4. ASSUME NEW ids \in SUBSET Ids, LinkSelected(ids) PROVE Running' /\ Followed'
    BY <2>1, <2>2, <2>4 DEF LinkSelected, Running, Followed
  <2> QED
    BY <1>9, <2>3, <2>4
<1>10. CASE Operate
  <2>1. CASE OtherUpload \/ \E id \in Ids : Unlink(id) \/ \E scope \in SUBSET Stations : EditStations(id, scope)
    BY <1>2, <2>1 DEF OtherUpload, Unlink, EditStations
  <2> QED
    BY <1>8, <1>9, <1>10, <2>1 DEF Operate
<1>11. CASE Serve
  BY <1>2, <1>11 DEF Serve, LookUp, Refuse, Create, DedupUnread, Fingerprint, CheckMaterialSimilarity
<1>12. CASE ReadMaterials \/ ReadLinks \/ UNCHANGED vars
  BY <1>2, <1>12 DEF ReadMaterials, ReadLinks, vars
<1> QED
  BY <1>6, <1>7, <1>10, <1>11, <1>12 DEF Next

\* A request that is not the browser's, or goes on as it was.
LEMMA AnswersStay ==
  ASSUME TypeOK, Running, Answering, [Next]_vars, UNCHANGED drawer, UNCHANGED handlers
  PROVE  Answering'
<1>1. At("uploading")' = At("uploading")
  BY DEF At, Entry, drawer
<1>2. At("uploading") => open
  BY DEF At, Running
<1> QED
  BY <1>1, <1>2, FreeWhileOpen DEF Answering

\* No request of the browser is open, and none is made.
LEMMA NoAnswers ==
  ASSUME Answering, ~At("uploading"), \A h \in handlers' : h \in handlers \/ h.who # "me"
  PROVE  Answering'
BY DEF Answering

LEMMA AnsweringNext ==
  ASSUME TypeOK, ScopeInv, [Next]_vars PROVE Answering'
<1>1. Running /\ Answering /\ LinkedExist /\ handlers \subseteq HandlerType
  BY DEF ScopeInv, TypeOK, ServerType
<1>2. UNCHANGED drawer /\ UNCHANGED handlers => Answering'
  BY <1>1, AnswersStay
<1>3. ~At("uploading") /\ UNCHANGED handlers => Answering'
  BY <1>1, NoAnswers
<1>4. ASSUME NEW h \in handlers, NEW g, handlers' = (handlers \ {h}) \cup {g} \/ handlers' = handlers \ {h},
             g.who = h.who, g.at = "created" => g.id \in Ids /\ Free(g.id)',
             UNCHANGED drawer
      PROVE  Answering'
  <2>1. At("uploading")' = At("uploading") /\ (At("uploading") => open)
    BY <1>1, <1>4 DEF At, Entry, drawer, Running
  <2>2. At("uploading") => \A i \in Ids : Free(i) => Free(i)'
    BY <2>1, FreeWhileOpen
  <2> QED
    BY <1>1, <1>4, <2>1, <2>2 DEF Answering
<1>5. CASE Serve
  <2>1. ASSUME NEW h \in handlers, LookUp(h) \/ Refuse(h) \/ DedupUnread(h) PROVE Answering'
    <3>1. UNCHANGED drawer
      BY <2>1 DEF LookUp, Refuse, DedupUnread
    <3>2. PICK at \in {"new", "refused"} :
            handlers' = (handlers \ {h}) \cup {[h EXCEPT !.at = at]} \/ handlers' = handlers \ {h}
      BY <2>1 DEF LookUp, Refuse, DedupUnread
    <3>3. [h EXCEPT !.at = at].who = h.who /\ [h EXCEPT !.at = at].at # "created"
      BY <1>1 DEF HandlerType
    <3> QED
      BY <1>4, <3>1, <3>2, <3>3
  <2>2. ASSUME NEW h \in handlers, Create(h) PROVE Answering'
    <3>1. PICK id : id = Fresh
      OBVIOUS
    <3> DEFINE g == [h EXCEPT !.at = "created", !.id = id]
    <3>2. rows[id] = None /\ id \in Ids /\ UNCHANGED <<drawer, links>>
      BY <2>2, <3>1, FreshIsNew DEF Create
    <3>3. links'[id] = None
      BY <1>1, <3>2 DEF LinkedExist
    <3>4. handlers' = (handlers \ {h}) \cup {g} \/ handlers' = handlers \ {h}
      BY <2>2, <3>1 DEF Create
    <3>5. g.who = h.who /\ g.id = id
      BY <1>1 DEF HandlerType
    <3> HIDE DEF g
    <3>6. g.at = "created" => g.id \in Ids /\ Free(g.id)'
      BY <3>2, <3>3, <3>5 DEF Free
    <3> QED
      BY <1>4, <3>2, <3>4, <3>5, <3>6
  <2>3. CASE \E id \in Ids : Fingerprint(id) \/ CheckMaterialSimilarity(id)
    BY <1>2, <2>3 DEF Fingerprint, CheckMaterialSimilarity
  <2> QED
    BY <1>5, <2>1, <2>2, <2>3 DEF Serve
<1>6. CASE Run
  <2>1. CASE Upload
    <3> DEFINE g == [who |-> "me", client |-> Mine, src |-> Entry.src, at |-> "stored", id |-> None]
    <3>1. ~At("uploading")
      BY <2>1 DEF Upload, At, Startable
    <3>2. handlers' = handlers \cup {g} /\ g.at = "stored" /\ \A h \in handlers : h.who # "me"
      BY <1>1, <2>1, <3>1 DEF Upload, Store, Answering
    <3>3. busy /\ cur # 0 /\ Stage("uploading", None) /\ UNCHANGED <<busy, cur>> /\ "uploading" \in Stages
      BY <2>1 DEF Upload, Stages
    <3>4. At("uploading")'
      BY <3>3, StageKeeps DEF At, Entry, TypeOK
    <3> HIDE DEF g
    <3> QED
      BY <3>2, <3>4 DEF Answering
  <2>2. ASSUME NEW h \in handlers, UploadFails(h) \/ Uploaded(h) \/ Reused(h) PROVE Answering'
    <3>1. h.who = "me"
      BY <2>2 DEF UploadFails, Uploaded, Reused
    <3>2. \A g \in handlers \ {h} : g.who # "me"
      BY <1>1, <3>1 DEF Answering
    <3>3. [h EXCEPT !.who = "gone"].who # "me"
      BY <1>1 DEF HandlerType
    <3>4. handlers' \subseteq (handlers \ {h}) \cup {[h EXCEPT !.who = "gone"]}
      BY <2>2 DEF UploadFails, Uploaded, Reused
    <3> QED
      BY <3>2, <3>3, <3>4 DEF Answering
  <2>3. CASE PollFingerprint \/ PollSimilarity \/ LinkUploaded \/ LinkNextPicked
    BY <1>3, <2>3 DEF PollFingerprint, PollSimilarity, LinkUploaded, LinkNextPicked, At, server
  <2> QED
    BY <1>6, <2>1, <2>2, <2>3 DEF Run
<1>7. CASE Decide
  <2>1. CASE FallbackKeep \/ FallbackRemove \/ FallbackRemoveRefused
    BY <1>2, <2>1 DEF FallbackKeep, FallbackRemove, FallbackRemoveRefused, server
  <2>2. CASE Continue \/ DecideKeep \/ DecideRemove
    BY <1>3, <2>2 DEF Continue, DecideKeep, DecideRemove, At, server
  <2> QED
    BY <1>7, <2>1, <2>2 DEF Decide
<1>8. CASE OtherUpload
  <2>1. \E g : handlers' = handlers \cup {g} /\ g.who = "other"
    <3>1. PICK src \in OtherUploads : Store("other", Other, src)
      BY <1>8 DEF OtherUpload
    <3> DEFINE g == [who |-> "other", client |-> Other, src |-> src, at |-> "stored", id |-> None]
    <3>2. handlers' = handlers \cup {g} /\ g.who = "other"
      BY <3>1 DEF Store
    <3> HIDE DEF g
    <3> QED
      BY <3>2
  <2>2. UNCHANGED <<drawer, links>>
    BY <1>8 DEF OtherUpload
  <2>3. At("uploading")' = At("uploading")
    BY <2>2 DEF drawer, At, Entry
  <2>4. \A h \in handlers' : h.who = "me" => h \in handlers
    BY <2>1
  <2> QED
    BY <1>1, <2>2, <2>3, <2>4 DEF Answering, Free
<1>9. CASE Operate /\ ~OtherUpload
  <2>1. ~busy /\ UNCHANGED handlers
    BY <1>1, <1>9 DEF Operate, OpenDrawer, CloseDrawer, SubmitUploads, AddFile, LinkSelected,
                      Unlink, EditStations, Idle, Running, server
  <2> QED
    BY <1>3, <2>1 DEF At
<1>10. CASE ReadMaterials \/ ReadLinks \/ UNCHANGED vars
  BY <1>2, <1>10 DEF ReadMaterials, ReadLinks, vars, server
<1> QED
  BY <1>5, <1>6, <1>7, <1>8, <1>9, <1>10 DEF Next

\* Of what is linked, a step in the drawer writes only what is free.
LEMMA WritesFree ==
  ASSUME TypeOK, ScopeInv, [Next]_vars, open, NEW i \in Ids, links[i] # None, links'[i] # None
  PROVE  links'[i] = links[i]
<1>1. \A id : links' = [links EXCEPT ![id] = Stations] /\ (id \in Ids => Free(id)) => links'[i] = links[i]
  BY DEF Free, TypeOK, ServerType
<1>2. CASE LinkNextPicked
  <2>1. Min(picked) \in picked
    BY <1>2, MinIsIn DEF LinkNextPicked, TypeOK, DrawerType, Ids
  <2>2. links' = links \/ links' = [links EXCEPT ![Min(picked)] = Stations]
    BY <1>2 DEF LinkNextPicked, Link, LinkFails
  <2> QED
    BY <1>1, <2>1, <2>2 DEF ScopeInv, Running
<1>3. ASSUME NEW h \in handlers, Reused(h), NEW id, id = Min(SameAudio(Mine, h.src)),
             ShouldLink(id), links' = [links EXCEPT ![id] = Stations]
      PROVE  links'[i] = links[i]
  BY <1>1, <1>3 DEF ScopeInv, Running, Reused, At, ShouldLink
<1>4. CASE LinkUploaded /\ links' = [links EXCEPT ![Entry.id] = Stations]
  BY <1>1, <1>4 DEF ScopeInv, Followed, LinkUploaded, At, Following
<1>5. CASE \E id \in Ids : Unlink(id) \/ \E scope \in SUBSET Stations : EditStations(id, scope)
  BY <1>5 DEF Unlink, EditStations, Idle
<1> QED
  BY <1>2, <1>3, <1>4, <1>5, WritesLinks

\* Uploading and linking never change the stations of a material that is linked,
\* when the drawer opens on links that have been read.
THEOREM ScopeAlwaysKept == Slow = FALSE /\ Spec => ScopeKept
<1> SUFFICES ASSUME Slow = FALSE PROVE Spec => ScopeKept
  OBVIOUS
<1>1. Init => ScopeInv
  <2> SUFFICES ASSUME Init PROVE ScopeInv
    OBVIOUS
  <2>1. LinkedExist
    BY UploadAssumption, TypeInit DEF Init, LinkedExist, Row, RowType, TypeOK, ServerType
  <2>2. Shown /\ Running /\ Followed /\ Answering
    BY DEF Init, Shown, Running, Followed, Answering
  <2> QED
    BY <2>1, <2>2 DEF ScopeInv
<1>2. TypeOK /\ ScopeInv /\ [Next]_vars => ScopeInv'
  <2> SUFFICES ASSUME TypeOK, ScopeInv, [Next]_vars PROVE ScopeInv'
    OBVIOUS
  <2> QED
    BY LinkedNext, ShownNext, RunNext, AnsweringNext DEF ScopeInv
<1>3. TypeOK /\ ScopeInv /\ [Next]_vars
        => [\A i \in Ids : links[i] # None /\ links'[i] # None /\ links[i] # links'[i] => ~open]_vars
  BY WritesFree
<1> QED
  BY <1>1, <1>2, <1>3, Typed, PTL DEF Spec, ScopeKept

=============================================================================
