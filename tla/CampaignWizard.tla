--------------------------- MODULE CampaignWizard ---------------------------
(***************************************************************************)
(* The campaign wizard in the browser: the page (CampaignWizardPage.jsx),  *)
(* step 1 with its check of the hub code (BasicDataStep.jsx) and step 2    *)
(* with its autosave (StationsStep.jsx, stationsSavePlan.js), over the     *)
(* campaign query of react-query (api/hooks.js).                           *)
(*                                                                         *)
(* What makes it hard: answers arrive after the user has typed on, changed *)
(* the client or left the step; the autosave runs from derived state; a    *)
(* refetch rewrites the form.  React's effects run with the render that    *)
(* causes them, so they are part of the action that changes their inputs.  *)
(*                                                                         *)
(* Steps 3 to 6 are one step here: they change none of this state.  Of two *)
(* checks in flight only the last counts (pedidoAtual), so a check that is *)
(* overtaken is dropped.  The name stands for the name and both dates.     *)
(*                                                                         *)
(* The one hub code here belongs to one client of the hub.  The link has   *)
(* two sides: which of our clients holds the id of that owner, and which   *)
(* of our clients the hub points to.  Why a link is broken (missing, in an *)
(* empty duplicate, blocked) is not told apart.                            *)
(***************************************************************************)
EXTENDS Integers, Sequences, FiniteSets

CONSTANTS
  Names, Clients,
  Raw, Code,      \* the hub code as somebody types it, and its canonical form
  Known, Hidden,  \* stations the catalogue resolves; persisted ids it does not
  None,
  LateCatalog,    \* the catalogue of stations may arrive after step 2 is open
  MaxClicks,      \* Bound: user operations
  MaxFaults       \* Bound: writes that fail

ASSUME HiddenUnknown == Known \cap Hidden = {}
ASSUME LateIsBoolean == LateCatalog \in BOOLEAN
ASSUME InputsExist   == Names # {} /\ Clients # {}
ASSUME NoneIsNoValue ==
  /\ None \notin BOOLEAN /\ None \notin Clients
  /\ \A ids \in SUBSET (Known \cup Hidden) :
       /\ ids # None
       /\ \A n \in Names, k \in Clients, code \in {"", Raw, Code} :
            [name |-> n, client |-> k, code |-> code, stations |-> ids] # None

VARIABLES
  campaigns,                    \* the server
  holder, owner,                \* the client with the hub_id of the code's owner; idNaPlataforma
  id, existing, fetch,          \* the campaign of the route, its query
  step, completed, draft,       \* the page
  conf, checks, linking, opened, \* step 1: conferencia, GETs and POSTs in flight, conferiuAoAbrir
  catalog,                      \* allStations has been loaded
  selected, dirty, pending,     \* step 2: selection, dirtyRef, pendingSaveRef
  wanted, overtaken,            \* the selection the user left last; a save overtook another
  calls, puts, edits, clicks, faults

server  == <<campaigns, holder, owner>>
query   == <<id, existing, fetch>>
page    == <<step, completed, draft>>
form    == <<conf, checks, linking, opened>>
picker  == <<catalog, selected, dirty, pending, wanted, overtaken, puts, edits>>
vars == <<server, query, page, form, picker, calls, clicks, faults>>

LastStep == 3
isEdit   == id # 0
Current  == IF existing = None THEN {} ELSE existing.stations
Clicks   == clicks < MaxClicks /\ clicks' = clicks + 1

---------------------------------------------------------------------------
(* Step 1: the check of the hub code. *)

\* EstadoDaLigacao: both sides of the link agree.
Linked(k) == holder = k /\ owner = k

\* conferencia.  The owner (idNaPlataforma) comes with every code that is found,
\* the link (ligacao) with some.  Two fields are for the properties only: the
\* holder when the answer was given, and landed, that the link came later, from
\* ligar, to an answer that had none.
Asking(code) == [state |-> "asking", code |-> code, client |-> None, link |-> None,
                 holder |-> None, owner |-> None, landed |-> FALSE]
Empty == [Asking("") EXCEPT !.state = "empty"]

\* conferir: what it makes of the state of the check and of the GETs in flight.
\* A check whose step has left the screen (base # None) is not overtaken.
Check(c, d, cs, code, rewrite) ==
  LET gone == {g \in cs : g.base # None}
  IN  IF code = "" THEN [conf |-> Empty, checks |-> gone]
      ELSE IF c.state = "found" /\ c.code = code /\ c.client = d.client
        THEN [conf |-> c, checks |-> cs]
      ELSE [conf   |-> Asking(code),
            checks |-> gone \cup {[code |-> code, client |-> d.client,
                                   rewrite |-> rewrite, base |-> None]}]

\* Mutant: the client is not part of what is checked again.
NoRecheck(c, d, cs) == [conf |-> c, checks |-> cs]

\* The effect on the client and the check, when one of them changes: the link of
\* another client, or an answer asked for without one, is asked for again.
Recheck(c, d, cs) ==
  IF (d.client # draft.client \/ c # conf)
     /\ c.state = "found" /\ c.client # d.client /\ (c.link # None \/ c.client = None)
  THEN Check(c, d, cs, c.code, TRUE)
  ELSE [conf |-> c, checks |-> cs]

\* veredito, derived at every render.  Without a link in the answer the screen
\* compares the owner with the client in the form; no owner is no divergence.
Verdict ==
  IF conf.code # draft.code THEN IF draft.code = "" THEN "empty" ELSE "pending"
  ELSE IF conf.state # "found" THEN conf.state
  ELSE IF conf.link = None
    THEN IF conf.owner = None \/ draft.client = None \/ conf.owner = draft.client
         THEN "found" ELSE "other"
  ELSE IF conf.client # draft.client THEN "asking"
  ELSE IF conf.link THEN "found" ELSE "broken"

\* bloqueia -> ligacaoTrava; nothing is locked once the step is unmounted.
Locked == step = 1 /\ (Verdict = "broken" \/ (isEdit /\ Verdict = "asking"))

---------------------------------------------------------------------------
(* Step 2: the autosave. *)

Loaded(ready) == IF ready THEN Known ELSE {}   \* allStations, [] until it is there

\* Mutant: only what the screen shows is saved.
PlanVisible(ready, edited, sel, persisted) ==
  IF id = 0 \/ ~ready \/ ~edited THEN [save |-> FALSE, ids |-> {}, settled |-> FALSE]
  ELSE IF sel = persisted THEN [save |-> FALSE, ids |-> {}, settled |-> TRUE]
  ELSE [save |-> TRUE, ids |-> sel, settled |-> FALSE]

\* planStationsSave: nothing without a campaign, the catalogue and an edit.
Plan(ready, edited, sel, persisted) ==
  LET ids == sel \cup (persisted \ Known)
  IN  IF id = 0 \/ ~ready \/ ~edited THEN [save |-> FALSE, ids |-> {}, settled |-> FALSE]
      ELSE IF ids = persisted THEN [save |-> FALSE, ids |-> {}, settled |-> TRUE]
      ELSE [save |-> TRUE, ids |-> ids, settled |-> FALSE]

\* The effect on the selection: arm the timer, or settle the edit.
SaveEffect(ready, edited, sel, persisted) ==
  LET plan == Plan(ready, edited, sel, persisted)
  IN  /\ dirty' = IF plan.settled THEN FALSE ELSE edited
      /\ pending' = IF plan.save THEN plan.ids ELSE IF plan.settled THEN None ELSE pending

StationsCall(ids) == [op |-> "stations", id |-> id, ids |-> ids, n |-> puts]

\* Mutant: no resync.
NoResync(ready, persisted) ==
  IF step = 2 /\ dirty THEN SaveEffect(ready, TRUE, selected, persisted) /\ UNCHANGED selected
  ELSE UNCHANGED <<selected, dirty, pending>>

\* New stations in the query, or the catalogue: the resync effect, then the save effect.
StationsRerender(ready, persisted) ==
  IF step # 2 THEN UNCHANGED <<selected, dirty, pending>>
  ELSE IF dirty THEN SaveEffect(ready, TRUE, selected, persisted) /\ UNCHANGED selected
  ELSE selected' = persisted \cap Loaded(ready) /\ UNCHANGED <<dirty, pending>>

\* Leaving step 2 flushes the pending save, entering it starts from the query.
LeaveOrEnterPicker(to, waiting, persisted) ==
  LET flush == step = 2 /\ to # 2 /\ pending # None
  IN  /\ calls' = IF flush THEN waiting \cup {StationsCall(pending)} ELSE waiting
      /\ puts' = IF flush THEN puts + 1 ELSE puts
      /\ selected' = IF to = 2 THEN persisted \cap Loaded(catalog) ELSE {}
      /\ dirty' = FALSE /\ pending' = None

\* Leaving step 1 leaves its POSTs behind, and its GETs with the form as it last saw it;
\* entering it for an existing campaign checks the code at once.
LeaveOrEnterForm(to) ==
  LET left == {[g EXCEPT !.base = IF @ = None /\ step = 1 THEN draft ELSE @] : g \in checks}
      ask  == to = 1 /\ isEdit /\ draft.code # ""
      r    == Check(Empty, draft, left, draft.code, FALSE)
  IN  /\ conf' = IF ask THEN r.conf ELSE Empty
      /\ checks' = IF ask THEN r.checks ELSE left
      /\ opened' = ask
      /\ linking' = {[p EXCEPT !.here = FALSE] : p \in linking}

StepChange(to, waiting, persisted) ==
  /\ step' = to
  /\ IF step = to
     THEN calls' = waiting /\ UNCHANGED <<selected, dirty, pending, puts, form>>
     ELSE LeaveOrEnterPicker(to, waiting, persisted) /\ LeaveOrEnterForm(to)
  /\ UNCHANGED <<catalog, wanted, overtaken, edits>>

\* The effects of step 1 on a form d and a check c: ask again, and (once) the
\* check of an existing campaign's code as soon as there is one.
FormEffects(d, c, cs) ==
  LET again == Recheck(c, d, cs)
      first == step = 1 /\ isEdit /\ ~opened /\ d.code # "" /\ d.client # None
      r     == IF first THEN Check(again.conf, d, again.checks, d.code, FALSE) ELSE again
  IN  conf' = r.conf /\ checks' = r.checks /\ opened' = (opened \/ first)

---------------------------------------------------------------------------
(* The user. *)

TypeName ==
  \E n \in Names \ {draft.name} :
    /\ Clicks /\ step = 1
    /\ draft' = [draft EXCEPT !.name = n]
    /\ UNCHANGED <<server, query, step, completed, form, picker, calls, faults>>

TypeCode ==
  \E code \in {"", Raw, Code} \ {draft.code} :
    /\ Clicks /\ step = 1
    /\ draft' = [draft EXCEPT !.code = code]
    /\ FormEffects(draft', conf, checks)
    /\ UNCHANGED <<server, query, step, completed, linking, picker, calls, faults>>

\* The client is locked once the campaign exists.
PickClient ==
  \E k \in Clients \cup {None} :
    /\ Clicks /\ step = 1 /\ ~isEdit
    /\ k # draft.client
    /\ draft' = [draft EXCEPT !.client = k]
    /\ FormEffects(draft', conf, checks)
    /\ UNCHANGED <<server, query, step, completed, linking, picker, calls, faults>>

\* onBlur of the code field.
BlurCode ==
  /\ Clicks /\ step = 1
  /\ LET r == Check(conf, draft, checks, draft.code, TRUE)
     IN  conf' = r.conf /\ checks' = r.checks
  /\ UNCHANGED <<server, query, page, linking, opened, picker, calls, faults>>

\* ligar: the pair of the check, once at a time (a second POST of a pair whose
\* "Ligando" another pair took over would be the same POST).
Link ==
  /\ Clicks /\ step = 1
  /\ Verdict = "broken"
  /\ linking' = linking \cup {[code |-> conf.code, client |-> conf.client, here |-> TRUE]}
  /\ linking' # linking
  /\ UNCHANGED <<server, query, page, conf, checks, opened, picker, calls, faults>>

ToggleStation ==
  \E s \in Known :
    /\ Clicks /\ step = 2
    /\ selected' = IF s \in selected THEN selected \ {s} ELSE selected \cup {s}
    /\ SaveEffect(catalog, TRUE, selected', Current)
    /\ wanted' = selected' /\ edits' = edits + 1
    /\ UNCHANGED <<server, query, page, form, catalog, overtaken, puts, calls, faults>>

\* handleStepClick and handlePrev.
GoTo ==
  \E to \in 1..LastStep \ {step} :
    /\ Clicks
    /\ \/ to = step - 1 /\ ~Locked
       \/ ~Locked /\ (to <= step \/ to - 1 \in completed)
    /\ StepChange(to, calls, Current)
    /\ UNCHANGED <<server, query, completed, draft, faults>>

NextEnabled ==
  /\ step = 1 => draft.client # None /\ (isEdit \/ draft.code # "") /\ ~Locked
  /\ step = 2 => Current # {}
  /\ step < LastStep

Saved       == IF existing = None THEN [name |-> "", code |-> ""] ELSE existing
CodeChanged == draft.code # Saved.code
Changed     == draft.name # Saved.name \/ CodeChanged

\* handleNext where nothing has to be saved first.
Advance ==
  /\ Clicks /\ NextEnabled
  /\ step = 1 => isEdit /\ ~Changed
  /\ completed' = completed \cup {step}
  /\ StepChange(step + 1, calls, Current)
  /\ UNCHANGED <<server, query, draft, faults>>

Again == \E c \in calls : c.op # "stations"
BasicsCall ==
  [op |-> IF isEdit THEN "update" ELSE "create", id |-> id, name |-> draft.name,
   code |-> IF isEdit /\ ~CodeChanged THEN None ELSE draft.code,
   client |-> draft.client, completed |-> completed, again |-> Again]

\* handleNext on step 1: the POST of a new campaign, or the PUT of what changed;
\* the code travels only when it changed.  A second click sends it again.
SaveBasics ==
  /\ Clicks /\ step = 1 /\ NextEnabled
  /\ ~isEdit \/ Changed
  /\ Cardinality(calls) < 2   \* Bound: writes in flight
  /\ calls' = calls \cup {BasicsCall}
  /\ UNCHANGED <<server, query, page, form, picker, faults>>

---------------------------------------------------------------------------
(* Answers. *)

\* Mutant: pendingSaveRef survives the timer.
TimerFiresOnly ==
  /\ step = 2 /\ pending # None
  /\ calls' = calls \cup {StationsCall(pending)}
  /\ puts' = puts + 1
  /\ dirty' = FALSE
  /\ UNCHANGED <<server, query, page, form, catalog, selected, pending, wanted, overtaken,
                 edits, clicks, faults>>

\* The 500 ms timer: the request leaves and the edit counts as done.
TimerFires ==
  /\ step = 2 /\ pending # None
  /\ calls' = calls \cup {StationsCall(pending)}
  /\ puts' = puts + 1
  /\ dirty' = FALSE /\ pending' = None
  /\ UNCHANGED <<server, query, page, form, catalog, selected, wanted, overtaken,
                 edits, clicks, faults>>

Canonical(code) == IF code = Raw THEN Code ELSE code

\* PUT /campaigns/{id}/stations replaces the list; then the query is asked again.
StationsSaved ==
  \E call \in calls :
    /\ call.op = "stations"
    /\ campaigns' = [campaigns EXCEPT ![call.id].stations = call.ids]
    /\ calls' = calls \ {call}
    /\ fetch' = campaigns'[id]
    /\ overtaken' = (overtaken \/ \E c \in calls : c.op = "stations" /\ c.n < call.n)
    /\ UNCHANGED <<holder, owner, id, existing, page, form, catalog, selected, dirty, pending,
                   wanted, puts, edits, clicks, faults>>

\* markStepCompleteAndAdvance after the await: the steps completed are those of
\* the click, the step is one further than where the user is by now.
AdvanceAfter(call, persisted) ==
  /\ completed' = call.completed \cup {1}
  /\ StepChange(IF step < LastStep THEN step + 1 ELSE step, calls \ {call}, persisted)

Basics(c, call) ==
  [name |-> call.name, client |-> c.client, stations |-> c.stations,
   code |-> IF call.code = None THEN c.code ELSE Canonical(call.code)]

\* The PUT of step 1; an absent code is left alone.
BasicsSaved ==
  \E call \in calls :
    /\ call.op = "update"
    /\ campaigns' = [campaigns EXCEPT ![call.id] = Basics(@, call)]
    /\ fetch' = campaigns'[id]
    /\ AdvanceAfter(call, Current)
    /\ UNCHANGED <<holder, owner, id, existing, draft, clicks, faults>>

\* The POST: the page moves to the route of the new campaign, whose query is empty.
CampaignCreated ==
  \E call \in calls :
    /\ call.op = "create"
    /\ campaigns' = Append(campaigns, [name |-> call.name, client |-> call.client,
                                       code |-> Canonical(call.code), stations |-> {}])
    /\ id' = Len(campaigns')
    /\ existing' = None /\ fetch' = campaigns'[id']
    /\ AdvanceAfter(call, {})
    /\ UNCHANGED <<holder, owner, draft, clicks, faults>>

\* A write the server refuses: an alert on step 1, nothing on step 2.
WriteFails ==
  \E call \in calls :
    /\ faults < MaxFaults /\ faults' = faults + 1
    /\ calls' = calls \ {call}
    /\ UNCHANGED <<server, query, page, form, picker, clicks>>

\* The query's answer.  The page copies a campaign that differs from the last
\* one into the form (the effect on existingCampaign), whatever was typed.  Its
\* list of stations is a new one only when the stations differ.
ReadArrives ==
  /\ fetch # None
  /\ existing' = fetch /\ fetch' = None
  /\ IF existing = None \/ fetch.stations # Current
     THEN StationsRerender(catalog, fetch.stations)
     ELSE UNCHANGED <<selected, dirty, pending>>
  /\ IF fetch = existing
     THEN UNCHANGED <<page, conf, checks, opened>>
     ELSE /\ draft' = [name |-> fetch.name, client |-> fetch.client, code |-> fetch.code]
          /\ completed' = 1..LastStep
          /\ FormEffects(draft', conf, checks)
          /\ UNCHANGED step
  /\ UNCHANGED <<server, id, linking, catalog, wanted, overtaken, puts, edits, calls,
                 clicks, faults>>

\* The catalogue's answer, which no step waits for.
CatalogArrives ==
  /\ ~catalog /\ catalog' = TRUE
  /\ StationsRerender(TRUE, Current)
  /\ UNCHANGED <<server, query, page, form, wanted, overtaken, puts, edits, calls,
                 clicks, faults>>

\* The hub knows the code: its canonical form goes into the field if the field
\* still holds what was asked for.  A link is that of the client sent; the
\* answer has none without a client, and also where the server cannot or may
\* not work it out (ligacaoPara).
CodeFound(g) ==
  LET seen  == IF g.base = None THEN draft ELSE g.base
      to    == IF g.rewrite THEN Canonical(g.code) ELSE g.code
      found(link) == [state |-> "found", code |-> to, client |-> g.client, link |-> link,
                      holder |-> holder, owner |-> owner, landed |-> FALSE]
      c(link) == IF g.base # None THEN conf ELSE IF seen.code = g.code THEN found(link) ELSE Empty
  IN  /\ draft' = IF seen.code = g.code /\ to # g.code THEN [seen EXCEPT !.code = to] ELSE draft
      /\ \E link \in {None, Linked(g.client)} :
           /\ g.client = None => link = None
           /\ FormEffects(draft', c(link), checks \ {g})

\* 404, or an answer (or the 8 s timeout) that says nothing of the code.
CodeNotFound(g) ==
  /\ \E state \in {"absent", "unknown"} :
       conf' = IF g.base = None THEN [Asking(g.code) EXCEPT !.state = state] ELSE conf
  /\ checks' = checks \ {g}
  /\ UNCHANGED <<draft, opened>>

CheckAnswers ==
  \E g \in checks :
    /\ CodeFound(g) \/ CodeNotFound(g)
    /\ UNCHANGED <<server, query, step, completed, linking, picker, calls, clicks, faults>>

WithLink(link) == [conf EXCEPT !.link = link, !.holder = holder', !.owner = owner',
                               !.landed = @ \/ conf.link = None]

\* Mutant: the answer of ligar goes to whatever check is on the screen.
ApplyToScreen(pair, link) ==
  IF pair.here /\ conf.state = "found" THEN WithLink(link) ELSE conf

\* The answer of ligar goes only to the check it was asked from.
Apply(pair, link) ==
  IF pair.here /\ conf.state = "found" /\ conf.code = pair.code /\ conf.client = pair.client
  THEN WithLink(link) ELSE conf

\* Ligar writes our side, then asks the hub for the other: it may refuse, stop
\* after the first side or link both; it says "ligado" only of a full link, and
\* what it says may be lost.
LinkAnswers ==
  \E pair \in linking, link \in BOOLEAN :
    /\ linking' = linking \ {pair}
    /\ \/ UNCHANGED <<holder, owner>>
       \/ holder' = pair.client /\ owner' \in {owner, pair.client}
    /\ link => holder' = pair.client /\ owner' = pair.client
    /\ conf' \in {conf, Apply(pair, link)}
    /\ UNCHANGED <<campaigns, query, page, checks, opened, picker, calls, clicks, faults>>

---------------------------------------------------------------------------
Old == [name |-> CHOOSE n \in Names : TRUE, client |-> CHOOSE k \in Clients : TRUE,
        code |-> Code, stations |-> Known \cup Hidden]

\* A new campaign with its name typed, or an old one opened from its page.
Init ==
  /\ holder \in Clients \cup {None} /\ owner \in Clients \cup {None}
  /\ catalog \in {TRUE, ~LateCatalog}
  /\ \/ campaigns = << >> /\ id = 0 /\ existing = None
        /\ draft = [name |-> Old.name, client |-> None, code |-> ""]
        /\ completed = {} /\ conf = Empty /\ checks = {} /\ opened = FALSE
     \/ campaigns = <<Old>> /\ id = 1 /\ existing = Old
        /\ draft = [name |-> Old.name, client |-> Old.client, code |-> Old.code]
        /\ completed = 1..LastStep /\ conf = Asking(Old.code) /\ opened = TRUE
        /\ checks = {[code |-> Old.code, client |-> Old.client, rewrite |-> FALSE, base |-> None]}
  /\ fetch = None /\ step = 1 /\ linking = {}
  /\ selected = {} /\ dirty = FALSE /\ pending = None /\ wanted = None /\ overtaken = FALSE
  /\ calls = {} /\ puts = 0 /\ edits = 0 /\ clicks = 0 /\ faults = 0

UserActs ==
  \/ TypeName \/ TypeCode \/ PickClient \/ BlurCode \/ Link
  \/ ToggleStation \/ GoTo \/ Advance \/ SaveBasics

Answers ==
  \/ StationsSaved \/ BasicsSaved \/ CampaignCreated \/ ReadArrives
  \/ CatalogArrives \/ CheckAnswers \/ LinkAnswers

Next == UserActs \/ Answers \/ TimerFires \/ WriteFails

\* Requests end (the GET has a timeout of 8 s, the POST of ligar of 15 s) and
\* the timer runs; the user and the catalogue owe nothing.
Fairness ==
  /\ WF_vars(StationsSaved \/ BasicsSaved \/ CampaignCreated) /\ WF_vars(ReadArrives)
  /\ WF_vars(CheckAnswers) /\ WF_vars(LinkAnswers) /\ WF_vars(TimerFires)

Spec == Init /\ [][Next]_vars /\ Fairness

---------------------------------------------------------------------------
\* The green box under the code never speaks of another client.  If it comes from
\* a link the server decided, both sides of the link were those of the client now
\* in the form when the server said so; if the server said nothing of the link,
\* the hub pointed to that client or to none (veredito, ligar's aplicar).
GreenIsTrue ==
  step = 1 /\ Verdict = "found" /\ draft.client # None =>
    IF conf.link # None THEN conf.holder = draft.client /\ conf.owner = draft.client
    ELSE conf.owner \in {None, draft.client}

\* "Conferindo com a Central" ends, through changes of client and code, unless the
\* link on the screen came from ligar to an answer that had none: the effect that
\* asks again does not see it (its dependencies, BasicDataStep).
CheckEnds ==
  (step = 1 /\ Verdict = "asking" /\ ~conf.landed) ~> ~(step = 1 /\ Verdict = "asking" /\ ~conf.landed)

\* A persisted station that the catalogue does not resolve survives every save
\* (the lost stations of campaign 6fa29650, stationsSavePlan.js).
HiddenSurvive ==
  [][\A i \in DOMAIN campaigns :
       campaigns[i].stations \cap Hidden \subseteq campaigns'[i].stations]_vars

\* No write without an edit of its own: refetches, remounts, the timer and the
\* flush never send one on their own or twice.
NoUnaskedPut == puts <= edits

\* Once the catalogue is there and nothing is under way, step 2 shows what the server
\* has, unless a save was refused or two saves in flight arrived in the wrong order.
PickerShowsServer ==
  step = 2 /\ catalog /\ calls = {} /\ fetch = None /\ pending = None /\ faults = 0 /\ ~overtaken =>
    selected = campaigns[id].stations \cap Known

\* Only the user changes the name (and the dates) in the form of a loaded
\* campaign ("tudo o que a pessoa digitar nesse intervalo e DESFEITO quando a
\* resposta chega", BasicDataStep).
TypingIsKept ==
  [][step = 1 /\ existing # None /\ clicks' = clicks => draft'.name = draft.name]_vars

\* Once nothing is under way, the server has the selection the user left
\* ("'unchanged' = a tela ja bate com o servidor", StationsStep).
LastSelectionSaved ==
  calls = {} /\ fetch = None /\ pending = None /\ faults = 0 /\ ~overtaken /\ wanted # None
      /\ Len(campaigns) < 2 =>
    campaigns[id].stations \cap Known = wanted

\* The same without the exception ("reage tambem a conferencia que CHEGA para um
\* cliente que ja nao e o escolhido", BasicDataStep).
CheckAlwaysEnds == (step = 1 /\ Verdict = "asking") ~> ~(step = 1 /\ Verdict = "asking")

\* The green box tells of a client that is linked, now (it need not: the link may
\* be missing from the answer, "mandar sobre a comparacao local", BasicDataStep).
GreenIsLinked ==
  step = 1 /\ Verdict = "found" /\ draft.client # None => Linked(draft.client)

\* What the arrival of the catalogue makes step 2 save keeps every station the
\* catalogue resolves ("nada que o usuario nao tenha feito pode virar escrita",
\* stationsSavePlan.js): nobody could see one to remove it.
ArrivalLosesNothing ==
  [][~catalog /\ catalog' /\ pending' # None => Current \cap Known \subseteq pending']_vars
=============================================================================
