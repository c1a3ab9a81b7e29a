------------------------ MODULE CampaignWizardProofs ------------------------
(***************************************************************************)
(* For every catalogue, every set of clients and persisted stations, and   *)
(* any number of operations, answers and refused writes:                   *)
(*   - no save of the wizard drops a station the catalogue cannot resolve; *)
(*   - the green box of step 1 says what the server said of the client in  *)
(*     the form, and never what it said of another;                        *)
(*   - no save of the stations leaves without an edit of its own;          *)
(*   - step 2 ends up showing what the server has, once the catalogue is   *)
(*     there.                                                              *)
(*                                                                         *)
(* Whatever travels towards the server (the query's copy, the answer on    *)
(* its way, the pending save, the writes in flight) agrees with its        *)
(* campaign on the hidden stations (IInv), because the picker only holds   *)
(* stations it can show.  The other three rest on what the values can be,  *)
(* on a link being true of the client it was asked for (Rest), and on the  *)
(* newest save in flight being what the page shows (ShowInv).              *)
(***************************************************************************)
EXTENDS CampaignWizard, SequenceTheorems, TLAPS

IsCampaign(r) ==
  r = [name |-> r.name, client |-> r.client, code |-> r.code, stations |-> r.stations]

IsSequence(c) == Len(c) \in Nat /\ c = [i \in 1..Len(c) |-> c[i]]

CampaignsOK ==
  IsSequence(campaigns) /\ \A i \in 1..Len(campaigns) : IsCampaign(campaigns[i])

\* The selection s, meant for campaign i, has its hidden stations and no other.
Carries(s, i) ==
  i \in 1..Len(campaigns) /\ s \cap Hidden = campaigns[i].stations \cap Hidden

RouteOK ==
  /\ id \in 0..Len(campaigns)
  /\ step \in 1..LastStep
  /\ id = 0 => campaigns = << >> /\ step = 1 /\ completed = {}

CopyOK == IF existing = None
          THEN id # 0 => campaigns[id].stations \cap Hidden = {}
          ELSE Carries(existing.stations, id)

FetchOK    == fetch # None => Carries(fetch.stations, id)
SelectedOK == selected \subseteq Known
PendingOK  == pending # None => step = 2 /\ Carries(pending, id)

Writes(c) == c.op = "stations" \/ c.op = "update"
CallsOK(cs) ==
  \A c \in cs : /\ c.op = "stations" => Carries(c.ids, c.id)
                /\ c.op = "update" => c.id \in 1..Len(campaigns)

IInv == CampaignsOK /\ RouteOK /\ CopyOK /\ FetchOK /\ SelectedOK /\ PendingOK /\ CallsOK(calls)

---------------------------------------------------------------------------
(* Sequences. *)

\* A new campaign at the end leaves the others where they are.
LEMMA AppendKeeps ==
  ASSUME NEW c, IsSequence(c), NEW e
  PROVE  /\ IsSequence(Append(c, e)) /\ Len(Append(c, e)) = Len(c) + 1
         /\ Append(c, e)[Len(c) + 1] = e
         /\ \A i \in 1..Len(c) : Append(c, e)[i] = c[i]
<1> DEFINE S == {c[i] : i \in 1..Len(c)} \cup {e}
<1>1. c \in Seq(S)
  BY DEF IsSequence
<1>2. e \in S
  OBVIOUS
<1> HIDE DEF S
<1>3. /\ Append(c, e) \in Seq(S) /\ Len(Append(c, e)) = Len(c) + 1
      /\ Append(c, e)[Len(c) + 1] = e
      /\ \A i \in 1..Len(c) : Append(c, e)[i] = c[i]
  BY <1>1, <1>2, AppendProperties
<1>4. IsSequence(Append(c, e))
  <2> DEFINE d == Append(c, e)
  <2>1. d \in Seq(S)
    BY <1>3
  <2> HIDE DEF d
  <2> QED BY <2>1, LenProperties DEF d, IsSequence
<1> QED BY <1>3, <1>4

\* One campaign.
LEMMA OneIsSequence ==
  ASSUME NEW e
  PROVE  Len(<<e>>) = 1 /\ <<e>>[1] = e /\ IsSequence(<<e>>)
<1>1. <<e>> \in Seq({e}) /\ Len(<<e>>) = 1 /\ <<e>>[1] = e
  OBVIOUS
<1> DEFINE d == <<e>>
<1>2. d \in [1..1 -> {e}] /\ Len(d) = 1
  BY <1>1, LenProperties
<1> HIDE DEF d
<1>3. IsSequence(d)
  BY <1>2 DEF IsSequence
<1> QED BY <1>1, <1>3 DEF d

\* A function on 1..n is a sequence.
LEMMA FunctionIsSequence ==
  ASSUME NEW n \in Nat, NEW d, DOMAIN d = 1..n, d = [i \in 1..n |-> d[i]]
  PROVE  IsSequence(d) /\ Len(d) = n
BY DEF IsSequence

\* One campaign replaced leaves the others.
LEMMA ReplaceKeeps ==
  ASSUME NEW c, IsSequence(c), NEW k \in 1..Len(c), NEW e, NEW d, d = [c EXCEPT ![k] = e]
  PROVE  /\ IsSequence(d) /\ Len(d) = Len(c)
         /\ \A i \in 1..Len(c) : d[i] = IF i = k THEN e ELSE c[i]
<1>1. Len(c) \in Nat /\ d = [i \in 1..Len(c) |-> IF i = k THEN e ELSE c[i]]
  BY DEF IsSequence
<1> QED BY <1>1, FunctionIsSequence

\* The fields of a campaign that a write leaves alone.
LEMMA FieldsKeep ==
  ASSUME NEW r, IsCampaign(r)
  PROVE  /\ \A s : /\ IsCampaign([r EXCEPT !.stations = s])
                   /\ [r EXCEPT !.stations = s].stations = s
         /\ \A call : /\ IsCampaign(Basics(r, call))
                      /\ Basics(r, call).stations = r.stations
<1>1. ASSUME NEW s
      PROVE  [r EXCEPT !.stations = s]
               = [name |-> r.name, client |-> r.client, code |-> r.code, stations |-> s]
  BY DEF IsCampaign
<1>2. ASSUME NEW call
      PROVE  IsCampaign(Basics(r, call)) /\ Basics(r, call).stations = r.stations
  BY DEF IsCampaign, Basics
<1> QED BY <1>1, <1>2 DEF IsCampaign

---------------------------------------------------------------------------
(* The parts of an action. *)

\* What a save adds to the selection are the hidden stations of its campaign.
LEMMA SaveCarries ==
  ASSUME NEW sel \in SUBSET Known, NEW ready, NEW persisted,
         SaveEffect(ready, TRUE, sel, persisted), pending' # None, pending' # pending
  PROVE  pending' \cap Hidden = persisted \cap Hidden
<1>1. pending' = sel \cup (persisted \ Known)
  BY DEF SaveEffect, Plan
<1> QED BY <1>1, HiddenUnknown

\* The flush of the step that is left carries what was pending.
LEMMA StepChangeCarries ==
  ASSUME IInv, NEW to \in 1..LastStep, NEW waiting, CallsOK(waiting),
         NEW persisted, StepChange(to, waiting, persisted)
  PROVE  /\ step' = to /\ selected' \subseteq Known /\ CallsOK(calls')
         /\ pending' # None => pending' = pending /\ to = step
<1>1. step' = to
  BY DEF StepChange
<1>2. CASE step = to
  BY <1>1, <1>2 DEF StepChange, IInv, SelectedOK
<1>3. CASE step # to
  <2>1. LeaveOrEnterPicker(to, waiting, persisted)
    BY <1>3 DEF StepChange
  <2>2. selected' \subseteq Known /\ pending' = None
    BY <2>1 DEF LeaveOrEnterPicker, Loaded
  <2>3. pending # None => CallsOK({StationsCall(pending)})
    BY DEF IInv, PendingOK, CallsOK, StationsCall
  <2>4. CallsOK(calls')
    BY <2>1, <2>3 DEF LeaveOrEnterPicker, CallsOK
  <2> QED BY <1>1, <2>2, <2>4
<1> QED BY <1>2, <1>3

\* The campaigns that were there, and their hidden stations, stay.
HiddenKept ==
  /\ Len(campaigns) <= Len(campaigns')
  /\ \A i \in 1..Len(campaigns) :
       campaigns'[i].stations \cap Hidden = campaigns[i].stations \cap Hidden

relevant == <<campaigns, id, existing, fetch, step, completed, selected, pending, calls>>

LEMMA IrrelevantStep ==
  ASSUME IInv, UNCHANGED relevant
  PROVE  IInv' /\ HiddenKept
<1>1. IInv'
  BY DEF IInv, relevant, CampaignsOK, RouteOK, CopyOK, FetchOK, SelectedOK, PendingOK, CallsOK,
         Carries
<1>2. HiddenKept
  BY DEF IInv, relevant, CampaignsOK, IsSequence, HiddenKept
<1> QED BY <1>1, <1>2

\* What agrees with its campaign goes on to do so.
LEMMA CarriesKept ==
  ASSUME IInv, HiddenKept, Len(campaigns') \in Nat
  PROVE  /\ \A s, i : Carries(s, i) => i \in 1..Len(campaigns')
                        /\ s \cap Hidden = campaigns'[i].stations \cap Hidden
         /\ \A cs : CallsOK(cs) =>
              \A c \in cs :
                /\ c.op = "stations" => /\ c.id \in 1..Len(campaigns')
                                        /\ c.ids \cap Hidden = campaigns'[c.id].stations \cap Hidden
                /\ c.op = "update" => c.id \in 1..Len(campaigns')
<1>1. Len(campaigns) \in Nat
  BY DEF IInv, CampaignsOK, IsSequence
<1>2. \A i \in 1..Len(campaigns) : i \in 1..Len(campaigns')
  BY <1>1 DEF HiddenKept
<1> QED BY <1>2 DEF HiddenKept, Carries, CallsOK

---------------------------------------------------------------------------
(* The inductive invariant. *)

LEMMA InitIInv ==
  ASSUME Init
  PROVE  IInv
<1>1. step = 1 /\ fetch = None /\ selected = {} /\ pending = None /\ calls = {}
  BY DEF Init
<1>2. CASE campaigns = << >> /\ id = 0 /\ existing = None /\ completed = {}
  <2>1. Len(campaigns) = 0 /\ IsSequence(campaigns)
    BY <1>2 DEF IsSequence
  <2>2. RouteOK /\ CopyOK
    BY <1>1, <1>2, <2>1 DEF RouteOK, CopyOK, LastStep
  <2>3. CampaignsOK
    BY <2>1 DEF CampaignsOK
  <2> QED BY <1>1, <2>2, <2>3 DEF IInv, FetchOK, SelectedOK, PendingOK, CallsOK
<1>3. CASE campaigns = <<Old>> /\ id = 1 /\ existing = Old
  <2>1. Len(campaigns) = 1 /\ campaigns[1] = Old /\ IsSequence(campaigns)
    BY <1>3, OneIsSequence
  <2>2. CampaignsOK
    <3>1. IsCampaign(Old)
      BY DEF IsCampaign, Old
    <3> QED BY <2>1, <3>1 DEF CampaignsOK
  <2>3. Old # None
    <3>1. \E n \in Names, k \in Clients :
            Old = [name |-> n, client |-> k, code |-> Code,
                   stations |-> Known \cup Hidden]
      BY InputsExist DEF Old
    <3> QED BY <3>1, NoneIsNoValue
  <2>4. RouteOK
    BY <1>1, <1>3, <2>1 DEF RouteOK, LastStep
  <2>5. CopyOK
    BY <1>3, <2>1, <2>3 DEF CopyOK, Carries
  <2> QED BY <1>1, <2>2, <2>4, <2>5 DEF IInv, FetchOK, SelectedOK, PendingOK, CallsOK
<1> QED BY <1>2, <1>3 DEF Init

\* An action that moves between the steps of an existing campaign.
LEMMA StepOnly ==
  ASSUME IInv, NEW to \in 1..LastStep, StepChange(to, calls, Current), id # 0,
         UNCHANGED <<campaigns, id, existing, fetch>>
  PROVE  IInv' /\ HiddenKept
<1>1. /\ step' = to /\ selected' \subseteq Known /\ CallsOK(calls')
      /\ pending' # None => pending' = pending /\ to = step
  BY StepChangeCarries DEF IInv
<1>2. CampaignsOK' /\ FetchOK' /\ CopyOK'
  BY DEF IInv, CampaignsOK, FetchOK, CopyOK, Carries
<1>3. RouteOK'
  BY <1>1 DEF IInv, RouteOK
<1>4. PendingOK' /\ SelectedOK'
  BY <1>1 DEF IInv, PendingOK, SelectedOK, Carries
<1>5. CallsOK(calls)'
  BY <1>1 DEF CallsOK, Carries
<1>6. HiddenKept
  BY DEF IInv, CampaignsOK, IsSequence, HiddenKept
<1> QED BY <1>2, <1>3, <1>4, <1>5, <1>6 DEF IInv

LEMMA GoToKeeps == ASSUME IInv, GoTo PROVE IInv' /\ HiddenKept
<1>1. PICK to \in 1..LastStep \ {step} :
        /\ to = step - 1 \/ to <= step \/ to - 1 \in completed
        /\ StepChange(to, calls, Current)
  BY DEF GoTo
<1>2. id # 0
  BY <1>1 DEF IInv, RouteOK
<1> QED BY <1>1, <1>2, StepOnly DEF GoTo, query, server

LEMMA AdvanceKeeps == ASSUME IInv, Advance PROVE IInv' /\ HiddenKept
<1>1. step < LastStep
  BY DEF Advance, NextEnabled, IInv, RouteOK, LastStep
<1>2. step + 1 \in 1..LastStep
  BY <1>1 DEF IInv, RouteOK, LastStep
<1>3. id # 0
  BY DEF Advance, IInv, RouteOK, isEdit
<1> QED BY <1>2, <1>3, StepOnly DEF Advance, query, server

\* An action that changes the writes in flight only.
LEMMA CallsOnly ==
  ASSUME IInv, CallsOK(calls'), pending' \in {None, pending},
         UNCHANGED <<campaigns, id, existing, fetch, step, completed, selected>>
  PROVE  IInv' /\ HiddenKept
<1>1. CampaignsOK' /\ FetchOK' /\ CopyOK' /\ RouteOK' /\ PendingOK' /\ SelectedOK'
  BY DEF IInv, CampaignsOK, FetchOK, CopyOK, RouteOK, PendingOK, SelectedOK, Carries
<1>2. CallsOK(calls)'
  BY DEF CallsOK, Carries
<1>3. HiddenKept
  BY DEF IInv, CampaignsOK, IsSequence, HiddenKept
<1> QED BY <1>1, <1>2, <1>3 DEF IInv

LEMMA SaveBasicsKeeps == ASSUME IInv, SaveBasics PROVE IInv' /\ HiddenKept
<1>1. /\ calls' = calls \cup {BasicsCall}
      /\ BasicsCall.op = IF isEdit THEN "update" ELSE "create"
      /\ BasicsCall.id = id
  BY DEF SaveBasics, BasicsCall
<1>2. CallsOK(calls')
  BY <1>1 DEF CallsOK, IInv, RouteOK, CampaignsOK, IsSequence, isEdit
<1> QED BY <1>2, CallsOnly DEF SaveBasics, server, query, page, picker

LEMMA TimerFiresKeeps == ASSUME IInv, TimerFires PROVE IInv' /\ HiddenKept
<1>1. CallsOK(calls')
  BY DEF TimerFires, CallsOK, StationsCall, IInv, PendingOK
<1> QED BY <1>1, CallsOnly DEF TimerFires, server, query, page

LEMMA WriteFailsKeeps == ASSUME IInv, WriteFails PROVE IInv' /\ HiddenKept
<1>1. CallsOK(calls')
  BY DEF WriteFails, CallsOK, IInv
<1> QED BY <1>1, CallsOnly DEF WriteFails, server, query, page, picker

LEMMA ToggleKeeps == ASSUME IInv, ToggleStation PROVE IInv' /\ HiddenKept
<1>1. PICK s \in Known :
        /\ step = 2 /\ selected' = IF s \in selected THEN selected \ {s} ELSE selected \cup {s}
        /\ SaveEffect(catalog, TRUE, selected', Current)
        /\ UNCHANGED <<campaigns, id, existing, fetch, step, completed, calls>>
  BY DEF ToggleStation, server, query, page
<1>2. selected' \in SUBSET Known
  BY <1>1 DEF IInv, SelectedOK
<1>3. id \in 1..Len(campaigns) /\ Current \cap Hidden = campaigns[id].stations \cap Hidden
  BY <1>1 DEF IInv, RouteOK, CampaignsOK, IsSequence, CopyOK, Carries, Current
<1>4. pending' # None => Carries(pending', id)
  <2>1. CASE pending' = pending
    BY <2>1 DEF IInv, PendingOK
  <2>2. CASE pending' # pending
    BY <1>1, <1>2, <1>3, <2>2, SaveCarries DEF Carries
  <2> QED BY <2>1, <2>2
<1>5. CampaignsOK' /\ FetchOK' /\ CopyOK' /\ RouteOK'
  BY <1>1 DEF IInv, CampaignsOK, FetchOK, CopyOK, RouteOK, Carries
<1>6. PendingOK' /\ SelectedOK' /\ CallsOK(calls)'
  BY <1>1, <1>2, <1>4 DEF IInv, PendingOK, SelectedOK, CallsOK, Carries
<1>7. HiddenKept
  BY <1>1 DEF IInv, CampaignsOK, IsSequence, HiddenKept
<1> QED BY <1>5, <1>6, <1>7 DEF IInv

\* What step 2 makes of new stations, or of the catalogue, is a selection it can
\* show, and a save that keeps the hidden stations.
LEMMA RerenderKeeps ==
  ASSUME IInv, NEW ready, NEW persisted, Carries(persisted, id) \/ persisted = Current,
         \/ StationsRerender(ready, persisted)
         \/ UNCHANGED <<selected, pending>>
  PROVE  selected' \subseteq Known /\ (pending' # None => step = 2 /\ Carries(pending', id))
<1>1. CASE UNCHANGED <<selected, pending>>
  BY <1>1 DEF IInv, SelectedOK, PendingOK
<1>2. CASE StationsRerender(ready, persisted)
  <2>1. CASE step = 2 /\ dirty
    <3>1. SaveEffect(ready, TRUE, selected, persisted) /\ selected' = selected
      BY <1>2, <2>1 DEF StationsRerender
    <3>2. id \in 1..Len(campaigns) /\ persisted \cap Hidden = campaigns[id].stations \cap Hidden
      BY <2>1 DEF IInv, RouteOK, CampaignsOK, IsSequence, CopyOK, Carries, Current
    <3>3. CASE pending' # None /\ pending' # pending
      BY <2>1, <3>1, <3>2, <3>3, SaveCarries DEF IInv, SelectedOK, Carries
    <3> QED BY <2>1, <3>1, <3>3 DEF IInv, SelectedOK, PendingOK
  <2>2. CASE ~(step = 2 /\ dirty)
    BY <1>2, <2>2 DEF StationsRerender, Loaded, IInv, SelectedOK, PendingOK
  <2> QED BY <2>1, <2>2
<1> QED BY <1>1, <1>2

LEMMA ReadArrivesKeeps == ASSUME IInv, ReadArrives PROVE IInv' /\ HiddenKept
<1>1. Carries(fetch.stations, id) /\ id # 0
  BY DEF ReadArrives, IInv, FetchOK, RouteOK, Carries
<1>2. existing' = fetch /\ fetch' = None /\ existing' # None
      /\ UNCHANGED <<campaigns, id, calls, step>>
  BY DEF ReadArrives, server, page
<1>3. CampaignsOK' /\ FetchOK' /\ CopyOK' /\ RouteOK' /\ CallsOK(calls)'
  BY <1>1, <1>2 DEF IInv, CampaignsOK, FetchOK, CopyOK, RouteOK, CallsOK, Carries
<1>4. selected' \subseteq Known /\ (pending' # None => step = 2 /\ Carries(pending', id))
  BY <1>1, RerenderKeeps DEF ReadArrives
<1>5. PendingOK' /\ SelectedOK'
  BY <1>2, <1>4 DEF PendingOK, SelectedOK, Carries
<1>6. HiddenKept
  BY <1>2 DEF IInv, CampaignsOK, IsSequence, HiddenKept
<1> QED BY <1>3, <1>5, <1>6 DEF IInv

LEMMA CatalogArrivesKeeps == ASSUME IInv, CatalogArrives PROVE IInv' /\ HiddenKept
<1>1. UNCHANGED <<campaigns, id, existing, fetch, step, completed, calls>>
  BY DEF CatalogArrives, server, query, page
<1>2. selected' \subseteq Known /\ (pending' # None => step = 2 /\ Carries(pending', id))
  BY RerenderKeeps DEF CatalogArrives
<1>3. CampaignsOK' /\ FetchOK' /\ CopyOK' /\ RouteOK' /\ CallsOK(calls)'
  BY <1>1 DEF IInv, CampaignsOK, FetchOK, CopyOK, RouteOK, CallsOK, Carries
<1>4. PendingOK' /\ SelectedOK'
  BY <1>1, <1>2 DEF PendingOK, SelectedOK, Carries
<1>5. HiddenKept
  BY <1>1 DEF IInv, CampaignsOK, IsSequence, HiddenKept
<1> QED BY <1>3, <1>4, <1>5 DEF IInv

\* A save replaces the stations of its campaign by a set with the same hidden ones.
LEMMA StationsSavedKeeps == ASSUME IInv, StationsSaved PROVE IInv' /\ HiddenKept
<1>1. PICK call \in calls :
        /\ call.op = "stations"
        /\ campaigns' = [campaigns EXCEPT ![call.id].stations = call.ids]
        /\ calls' = calls \ {call} /\ fetch' = campaigns'[id]
        /\ UNCHANGED <<id, existing, step, completed, selected, pending>>
  BY DEF StationsSaved, page
<1>2. Carries(call.ids, call.id)
  BY <1>1 DEF IInv, CallsOK
<1> DEFINE new == [campaigns[call.id] EXCEPT !.stations = call.ids]
<1>3. campaigns' = [campaigns EXCEPT ![call.id] = new]
  BY <1>1
<1>4. IsCampaign(new) /\ new.stations = call.ids
  BY <1>2, FieldsKeep DEF IInv, CampaignsOK, Carries
<1> HIDE DEF new
<1>5. IsSequence(campaigns) /\ call.id \in 1..Len(campaigns)
  BY <1>2 DEF IInv, CampaignsOK, Carries
<1>7. /\ IsSequence(campaigns') /\ Len(campaigns') = Len(campaigns)
      /\ \A i \in 1..Len(campaigns) : campaigns'[i] = IF i = call.id THEN new ELSE campaigns[i]
  <2>1. Len(campaigns') = Len(campaigns)
    BY <1>3, <1>5, ReplaceKeeps
  <2>2. IsSequence(campaigns')
    BY <1>3, <1>5, ReplaceKeeps, Zenon
  <2>3. \A i \in 1..Len(campaigns) : campaigns'[i] = IF i = call.id THEN new ELSE campaigns[i]
    BY <1>3, <1>5 DEF IsSequence
  <2> QED BY <2>1, <2>2, <2>3
<1>8. CampaignsOK'
  BY <1>7, <1>4 DEF IInv, CampaignsOK
<1>9. HiddenKept /\ Len(campaigns') \in Nat
  BY <1>2, <1>7, <1>4 DEF HiddenKept, Carries, IsSequence
<1>10. id # 0 /\ id \in 1..Len(campaigns')
  BY <1>2, <1>7 DEF IInv, RouteOK, CampaignsOK, IsSequence, Carries
<1>11. RouteOK' /\ FetchOK' /\ SelectedOK'
  BY <1>1, <1>7, <1>10 DEF IInv, RouteOK, FetchOK, SelectedOK, Carries
<1>12. CopyOK' /\ PendingOK'
  BY <1>1, <1>7, <1>9, <1>10 DEF IInv, CopyOK, PendingOK, HiddenKept, Carries
<1>13. CallsOK(calls)'
  BY <1>1, <1>9, CarriesKept DEF IInv, CallsOK, Carries
<1> QED BY <1>8, <1>9, <1>11, <1>12, <1>13 DEF IInv

LEMMA BasicsSavedKeeps == ASSUME IInv, BasicsSaved PROVE IInv' /\ HiddenKept
<1>1. PICK call \in calls :
        /\ call.op = "update"
        /\ campaigns' = [campaigns EXCEPT ![call.id] = Basics(@, call)]
        /\ fetch' = campaigns'[id] /\ AdvanceAfter(call, Current)
        /\ UNCHANGED <<id, existing>>
  BY DEF BasicsSaved
<1>2. call.id \in 1..Len(campaigns)
  BY <1>1 DEF IInv, CallsOK
<1> DEFINE new == Basics(campaigns[call.id], call)
<1>3. campaigns' = [campaigns EXCEPT ![call.id] = new]
  BY <1>1
<1>4. IsCampaign(new) /\ new.stations = campaigns[call.id].stations
  BY <1>2, FieldsKeep DEF IInv, CampaignsOK
<1> HIDE DEF new
<1>5. IsSequence(campaigns) /\ call.id \in 1..Len(campaigns)
  BY <1>2 DEF IInv, CampaignsOK, Carries
<1>7. /\ IsSequence(campaigns') /\ Len(campaigns') = Len(campaigns)
      /\ \A i \in 1..Len(campaigns) : campaigns'[i] = IF i = call.id THEN new ELSE campaigns[i]
  <2>1. Len(campaigns') = Len(campaigns)
    BY <1>3, <1>5, ReplaceKeeps
  <2>2. IsSequence(campaigns')
    BY <1>3, <1>5, ReplaceKeeps, Zenon
  <2>3. \A i \in 1..Len(campaigns) : campaigns'[i] = IF i = call.id THEN new ELSE campaigns[i]
    BY <1>3, <1>5 DEF IsSequence
  <2> QED BY <2>1, <2>2, <2>3
<1>8. CampaignsOK'
  BY <1>7, <1>4 DEF IInv, CampaignsOK
<1>9. HiddenKept /\ Len(campaigns') \in Nat
  BY <1>2, <1>7, <1>4 DEF HiddenKept, IsSequence
<1>10. id # 0 /\ id \in 1..Len(campaigns')
  BY <1>2, <1>7 DEF IInv, RouteOK, CampaignsOK, IsSequence
<1>11. PICK to \in 1..LastStep : StepChange(to, calls \ {call}, Current)
  BY <1>1 DEF AdvanceAfter, IInv, RouteOK, LastStep
<1>12. /\ step' = to /\ selected' \subseteq Known /\ CallsOK(calls')
       /\ pending' # None => pending' = pending /\ to = step
  BY <1>11, StepChangeCarries DEF IInv, CallsOK
<1>13. RouteOK' /\ FetchOK' /\ SelectedOK'
  BY <1>1, <1>7, <1>10, <1>12 DEF IInv, RouteOK, FetchOK, SelectedOK, Carries
<1>14. CopyOK' /\ PendingOK'
  BY <1>1, <1>7, <1>9, <1>10, <1>12 DEF IInv, CopyOK, PendingOK, HiddenKept, Carries
<1>15. CallsOK(calls)'
  BY <1>9, <1>12, CarriesKept DEF CallsOK, Carries
<1> QED BY <1>8, <1>9, <1>13, <1>14, <1>15 DEF IInv

\* The new campaign has no stations yet, hidden or not, and its copy is empty.
LEMMA CampaignCreatedKeeps == ASSUME IInv, CampaignCreated PROVE IInv' /\ HiddenKept
<1>1. PICK call \in calls :
        /\ campaigns' = Append(campaigns, [name |-> call.name, client |-> call.client,
                                           code |-> Canonical(call.code), stations |-> {}])
        /\ id' = Len(campaigns') /\ existing' = None /\ fetch' = campaigns'[id']
        /\ AdvanceAfter(call, {})
  BY DEF CampaignCreated
<1> DEFINE new == [name |-> call.name, client |-> call.client,
                   code |-> Canonical(call.code), stations |-> {}]
<1>2. IsCampaign(new) /\ new.stations = {}
  BY DEF IsCampaign
<1>3. /\ IsSequence(campaigns') /\ Len(campaigns') = Len(campaigns) + 1
      /\ campaigns'[Len(campaigns) + 1] = new
      /\ \A i \in 1..Len(campaigns) : campaigns'[i] = campaigns[i]
  BY <1>1, AppendKeeps DEF IInv, CampaignsOK
<1> HIDE DEF new
<1>4. Len(campaigns) \in Nat
  BY DEF IInv, CampaignsOK, IsSequence
<1>5. CampaignsOK'
  BY <1>2, <1>3, <1>4 DEF IInv, CampaignsOK
<1>6. HiddenKept /\ Len(campaigns') \in Nat
  BY <1>3, <1>4 DEF HiddenKept
<1>7. PICK to \in 1..LastStep :
        StepChange(to, calls \ {call}, {}) /\ to = IF step < LastStep THEN step + 1 ELSE step
  BY <1>1 DEF AdvanceAfter, IInv, RouteOK, LastStep
<1>8. /\ step' = to /\ selected' \subseteq Known /\ CallsOK(calls')
      /\ pending' # None => pending' = pending /\ to = step
  BY <1>7, StepChangeCarries DEF IInv, CallsOK
<1>9. pending' = None
  BY <1>7, <1>8 DEF IInv, PendingOK, RouteOK, LastStep
<1>10. id' \in 1..Len(campaigns') /\ campaigns'[id'].stations = {}
  BY <1>1, <1>2, <1>3, <1>4
<1>11. RouteOK' /\ FetchOK' /\ SelectedOK' /\ PendingOK' /\ CopyOK'
  BY <1>1, <1>6, <1>8, <1>9, <1>10 DEF RouteOK, FetchOK, SelectedOK, PendingOK, CopyOK, Carries
<1>12. CallsOK(calls)'
  BY <1>6, <1>8, CarriesKept DEF CallsOK, Carries
<1> QED BY <1>5, <1>6, <1>11, <1>12 DEF IInv

---------------------------------------------------------------------------
\* Every step keeps the invariant and the hidden stations of every campaign.
LEMMA NextKeeps ==
  ASSUME IInv, [Next]_vars
  PROVE  IInv' /\ HiddenKept
<1>1. CASE TypeName \/ TypeCode \/ PickClient \/ BlurCode \/ Link
  <2>1. UNCHANGED relevant
    BY <1>1 DEF TypeName, TypeCode, PickClient, BlurCode, Link, server, query, page, picker, relevant
  <2> QED BY <2>1, IrrelevantStep
<1>2. CASE CheckAnswers \/ LinkAnswers \/ UNCHANGED vars
  <2>1. UNCHANGED relevant
    BY <1>2 DEF CheckAnswers, LinkAnswers, vars, server, query, page, picker, relevant
  <2> QED BY <2>1, IrrelevantStep
<1> QED
  BY <1>1, <1>2, ToggleKeeps, GoToKeeps, AdvanceKeeps, SaveBasicsKeeps, TimerFiresKeeps,
     WriteFailsKeeps, ReadArrivesKeeps, CatalogArrivesKeeps, StationsSavedKeeps,
     BasicsSavedKeeps, CampaignCreatedKeeps
     DEF Next, UserActs, Answers

\* For every catalogue and every number of operations and faults: the persisted
\* stations that the catalogue does not resolve survive every save of the wizard
\* (stationsSavePlan.js, StationsStep.jsx, CampaignWizardPage.jsx).
THEOREM HiddenAlwaysSurvive == Spec => HiddenSurvive
<1>1. Init => IInv
  BY InitIInv
<1>2. IInv /\ [Next]_vars => IInv'
  BY NextKeeps
<1>3. IInv /\ [Next]_vars =>
        [\A i \in DOMAIN campaigns :
           campaigns[i].stations \cap Hidden \subseteq campaigns'[i].stations]_vars
  <2>1. IInv => DOMAIN campaigns = 1..Len(campaigns)
    BY DEF IInv, CampaignsOK, IsSequence
  <2> QED BY <2>1, NextKeeps DEF HiddenKept
<1> QED BY <1>1, <1>2, <1>3, PTL DEF Spec, HiddenSurvive
---------------------------------------------------------------------------
(* Values, the check of step 1 and the edits of step 2.                    *)
(*                                                                         *)
(* A check says "linked" only where both sides were those of its client    *)
(* when it was answered, by the check or by ligar (ConfTrue): that is what *)
(* makes the green box true.  A pending save is one of the edit under way, *)
(* and that edit is paid for (EditsOK); without the catalogue it may have  *)
(* no save yet.                                                            *)

Codes    == {"", Raw, Code}
AnyClient == Clients \cup {None}
Stations == Known \cup Hidden

Campaign == [name : Names, client : Clients, code : Codes, stations : SUBSET Stations]
Draft    == [name : Names, client : AnyClient, code : Codes]
Conf     == [state : {"empty", "asking", "found", "absent", "unknown"}, code : Codes,
             client : AnyClient, link : BOOLEAN \cup {None},
             holder : AnyClient, owner : AnyClient, landed : BOOLEAN]
Pairs    == [code : Codes, client : Clients, here : BOOLEAN]

\* What a GET in flight remembers.
IsGet(g) ==
  /\ g = [code |-> g.code, client |-> g.client, rewrite |-> g.rewrite, base |-> g.base]
  /\ g.code \in Codes /\ g.client \in AnyClient /\ g.base \in Draft \cup {None}
GetsOK(cs) == \A g \in cs : IsGet(g)

ServerOK == \A i \in 1..Len(campaigns) : campaigns[i] \in Campaign
QueryOK  == existing \in Campaign \cup {None} /\ fetch \in Campaign \cup {None}

WritesOK(cs) ==
  \A c \in cs :
    /\ c.op \in {"stations", "update", "create"}
    /\ c.op = "stations" => c.ids \in SUBSET Stations
    /\ c.op # "stations" => c.name \in Names /\ c.code \in Codes \cup {None}
    /\ c.op = "create" => c.client \in Clients /\ c.code \in Codes

ConfTrue(c) ==
  c.state = "found" => /\ c.client = None => c.link = None
                       /\ c.link = TRUE => c.holder = c.client /\ c.owner = c.client

HubOK  == holder \in AnyClient /\ owner \in AnyClient
FormOK == /\ draft \in Draft /\ conf \in Conf /\ GetsOK(checks) /\ linking \subseteq Pairs
          /\ ConfTrue(conf) /\ HubOK

FlagsOK == catalog \in BOOLEAN /\ dirty \in BOOLEAN
EditsOK ==
  /\ dirty = TRUE => step = 2
  /\ pending = None /\ catalog = TRUE => dirty = FALSE
  /\ pending # None => dirty = TRUE /\ catalog = TRUE /\ pending \in SUBSET Stations
  /\ puts \in Nat /\ edits \in Nat
  /\ puts <= edits
  /\ dirty = TRUE => puts + 1 <= edits

Rest == ServerOK /\ QueryOK /\ WritesOK(calls) /\ FormOK /\ EditsOK /\ FlagsOK
WInv == IInv /\ Rest

---------------------------------------------------------------------------
(* What step 2 shows. *)

\* The selection is what a server with the stations s makes the page show, now
\* or once the query has brought them, if the catalogue is there.
Agrees(s) == selected = s \cap Known \/ existing = None \/ s # existing.stations

\* The saves in flight are numbered in the order they left.
Sends       == {c \in calls : c.op = "stations" /\ c.id = id}
Numbered(c) == c.op = "stations" => c.n \in Nat /\ c.n < puts
SendsOK     == /\ \A c \in calls : Numbered(c)
               /\ \A c, d \in calls : c.op = "stations" /\ d.op = "stations" /\ c.n = d.n => c = d
Newest(c)   == c \in Sends /\ \A d \in Sends : d.n <= c.n

CopyFresh == IF fetch = None THEN id # 0 => existing = campaigns[id] ELSE fetch = campaigns[id]
EditShown == pending # None => pending \cap Known = selected

\* What the newest save will leave on the server, or what is there if none is
\* in flight, is what the page shows or will be made to show.
Settled ==
  step = 2 /\ catalog /\ pending = None /\ faults = 0 /\ ~overtaken =>
    /\ \A c \in Sends : Newest(c) => Agrees(c.ids)
    /\ Sends = {} => Agrees(campaigns[id].stations)

ShowInv == SendsOK /\ CopyFresh /\ EditShown /\ faults \in Nat /\ Settled

---------------------------------------------------------------------------
(* The form of step 1. *)

LEMMA AskingIsConf ==
  ASSUME NEW code \in Codes
  PROVE  Asking(code) \in Conf /\ Asking(code).state = "asking"
BY DEF Asking, Conf, AnyClient

LEMMA EmptyIsConf == Empty \in Conf /\ Empty.state = "empty"
BY DEF Empty, Asking, Conf, Codes, AnyClient

\* A check asks, or keeps the answer it has.
Keeps(c, r) ==
  /\ GetsOK(r.checks) /\ r.conf \in Conf
  /\ r.conf.state = "found" => r.conf = c

LEMMA CheckKeeps ==
  ASSUME NEW c \in Conf, NEW d \in Draft, NEW cs, GetsOK(cs), NEW code \in Codes
  PROVE  \A rewrite : Keeps(c, Check(c, d, cs, code, rewrite))
<1> TAKE rewrite
<1> DEFINE r == Check(c, d, cs, code, rewrite)
           gone == {g \in cs : g.base # None}
           asked == [code |-> code, client |-> d.client, rewrite |-> rewrite, base |-> None]
<1>1. IsGet(asked)
  BY DEF IsGet, Draft
<1>2. GetsOK(gone \cup {asked}) /\ GetsOK(gone)
  BY <1>1 DEF GetsOK
<1>3. \/ r = [conf |-> Empty, checks |-> gone]
      \/ r = [conf |-> Asking(code), checks |-> gone \cup {asked}]
      \/ r = [conf |-> c, checks |-> cs]
  BY DEF Check
<1> HIDE DEF r, gone, asked
<1>4. \/ r.conf = Empty /\ r.checks = gone
      \/ r.conf = Asking(code) /\ r.checks = gone \cup {asked}
      \/ r.conf = c /\ r.checks = cs
  BY <1>3
<1>5. Keeps(c, r)
  BY <1>2, <1>4, EmptyIsConf, AskingIsConf DEF Keeps
<1> QED BY <1>5 DEF r

\* After the effects of the form the check still says only what was true.
LEMMA FormEffectsKeep ==
  ASSUME NEW d \in Draft, NEW c \in Conf, ConfTrue(c), NEW cs, GetsOK(cs),
         FormEffects(d, c, cs)
  PROVE  conf' \in Conf /\ GetsOK(checks') /\ ConfTrue(conf')
<1> DEFINE again == Recheck(c, d, cs)
           r == Check(again.conf, d, again.checks, d.code, FALSE)
<1>1. d.code \in Codes /\ c.code \in Codes
  BY DEF Draft, Conf
<1>2. Keeps(c, again)
  <2>1. \/ again = Check(c, d, cs, c.code, TRUE)
        \/ again = [conf |-> c, checks |-> cs]
    BY DEF Recheck
  <2> HIDE DEF again
  <2>2. CASE again = Check(c, d, cs, c.code, TRUE)
    BY <2>2, <1>1, CheckKeeps
  <2>3. CASE again = [conf |-> c, checks |-> cs]
    BY <2>3 DEF Keeps
  <2> QED BY <2>1, <2>2, <2>3
<1> HIDE DEF again
<1>3. Keeps(again.conf, r)
  <2>1. again.conf \in Conf /\ GetsOK(again.checks)
    BY <1>2 DEF Keeps
  <2> QED BY <1>1, <2>1, CheckKeeps
<1> HIDE DEF r
<1>4. \/ conf' = again.conf /\ checks' = again.checks
      \/ conf' = r.conf /\ checks' = r.checks
  BY DEF FormEffects, again, r
<1>5. /\ conf' \in Conf /\ GetsOK(checks')
      /\ conf'.state = "found" => conf' = c
  BY <1>2, <1>3, <1>4 DEF Keeps
<1> QED BY <1>5 DEF ConfTrue

\* A step that leaves the answer as it is, or has none.
LEMMA StepChangeForm ==
  ASSUME FormOK, NEW to, NEW waiting, NEW persisted, StepChange(to, waiting, persisted)
  PROVE  /\ conf' \in Conf /\ GetsOK(checks') /\ linking' \subseteq Pairs
         /\ conf'.state = "found" => conf' = conf
<1>1. CASE step = to
  BY <1>1 DEF StepChange, FormOK, form
<1>2. CASE step # to
  <2> DEFINE left == {[g EXCEPT !.base = IF @ = None /\ step = 1 THEN draft ELSE @] : g \in checks}
             r == Check(Empty, draft, left, draft.code, FALSE)
  <2>1. LeaveOrEnterForm(to)
    BY <1>2 DEF StepChange
  <2>2. GetsOK(left)
    BY DEF FormOK, GetsOK, IsGet
  <2>3. draft \in Draft /\ draft.code \in Codes
    BY DEF FormOK, Draft
  <2>4. \/ conf' = Empty /\ checks' = left
        \/ conf' = r.conf /\ checks' = r.checks
    BY <2>1 DEF LeaveOrEnterForm
  <2>5. linking' \subseteq Pairs
    <3>1. linking' = {[p EXCEPT !.here = FALSE] : p \in linking}
      BY <2>1 DEF LeaveOrEnterForm
    <3>2. \A p \in linking : [p EXCEPT !.here = FALSE] \in Pairs
      BY DEF FormOK, Pairs
    <3> QED BY <3>1, <3>2
  <2> HIDE DEF left
  <2>6. Keeps(Empty, r)
    BY <2>2, <2>3, EmptyIsConf, CheckKeeps
  <2> HIDE DEF r
  <2> QED BY <2>2, <2>4, <2>5, <2>6, EmptyIsConf DEF Keeps
<1> QED BY <1>1, <1>2

LEMMA CanonicalIsCode ==
  ASSUME NEW code \in Codes
  PROVE  Canonical(code) \in Codes
BY DEF Canonical, Codes

\* The answer that knows the code.
LEMMA CodeFoundKeeps ==
  ASSUME FormOK, NEW g \in checks, CodeFound(g)
  PROVE  draft' \in Draft /\ conf' \in Conf /\ GetsOK(checks') /\ ConfTrue(conf')
<1> DEFINE seen  == IF g.base = None THEN draft ELSE g.base
           to    == IF g.rewrite THEN Canonical(g.code) ELSE g.code
           found(link) == [state |-> "found", code |-> to, client |-> g.client, link |-> link,
                           holder |-> holder, owner |-> owner, landed |-> FALSE]
           c(link) == IF g.base # None THEN conf
                      ELSE IF seen.code = g.code THEN found(link) ELSE Empty
<1>1. IsGet(g)
  BY DEF FormOK, GetsOK
<1>2. seen \in Draft /\ g.code \in Codes /\ g.client \in AnyClient
  BY <1>1 DEF IsGet, FormOK
<1>3. to \in Codes
  BY <1>2, CanonicalIsCode
<1>4. PICK link \in {None, Linked(g.client)} :
        (g.client = None => link = None) /\ FormEffects(draft', c(link), checks \ {g})
  BY DEF CodeFound
<1>5. link \in BOOLEAN \cup {None} /\ (link = TRUE => holder = g.client /\ owner = g.client)
  <2>1. CASE link = None
    BY <2>1, NoneIsNoValue
  <2>2. CASE link = Linked(g.client)
    BY <2>2 DEF Linked
  <2> QED BY <1>4, <2>1, <2>2
<1>6. found(link) \in Conf /\ ConfTrue(found(link))
  <2> HIDE DEF to
  <2>1. found(link) \in Conf
    BY <1>2, <1>3, <1>5 DEF Conf, FormOK, HubOK
  <2>2. ConfTrue(found(link))
    BY <1>4, <1>5 DEF ConfTrue
  <2> QED BY <2>1, <2>2
<1>7. c(link) \in Conf /\ ConfTrue(c(link))
  BY <1>6, EmptyIsConf DEF FormOK, ConfTrue
<1>8. GetsOK(checks \ {g})
  BY DEF FormOK, GetsOK
<1>9. draft' \in Draft
  <2>1. draft' = IF seen.code = g.code /\ to # g.code THEN [seen EXCEPT !.code = to] ELSE draft
    BY DEF CodeFound
  <2> HIDE DEF seen, to
  <2> QED BY <1>2, <1>3, <2>1 DEF FormOK, Draft
<1>10. PICK e : e = c(link)
  OBVIOUS
<1>11. e \in Conf /\ ConfTrue(e) /\ FormEffects(draft', e, checks \ {g})
  BY <1>4, <1>7, <1>10
<1> QED BY <1>8, <1>9, <1>11, FormEffectsKeep

---------------------------------------------------------------------------
(* The edits of step 2. *)

\* With the catalogue, after the effect on an edited selection a save of it is
\* pending, or it is what the copy shows.
LEMMA SaveEffectKeeps ==
  ASSUME NEW sel \in SUBSET Known, NEW persisted \in SUBSET Stations, id # 0,
         SaveEffect(TRUE, TRUE, sel, persisted)
  PROVE  /\ pending' # None => /\ dirty' = TRUE /\ pending' \in SUBSET Stations
                              /\ pending' \cap Known = sel
         /\ pending' = None => dirty' = FALSE /\ sel = persisted \cap Known
<1> DEFINE ids == sel \cup (persisted \ Known)
<1>1. ids \in SUBSET Stations /\ ids \cap Known = sel
  BY DEF Stations
<1>2. ids # None
  BY <1>1, NoneIsNoValue DEF Stations
<1>3. \/ ids = persisted /\ dirty' = FALSE /\ pending' = None
      \/ dirty' = TRUE /\ pending' = ids
  BY DEF SaveEffect, Plan
<1> HIDE DEF ids
<1>4. CASE ids = persisted /\ dirty' = FALSE /\ pending' = None
  BY <1>1, <1>4
<1>5. CASE dirty' = TRUE /\ pending' = ids
  BY <1>1, <1>2, <1>5
<1> QED BY <1>3, <1>4, <1>5

\* Without it nothing happens yet.
LEMMA SaveEffectWaits ==
  ASSUME NEW sel, NEW persisted, SaveEffect(FALSE, TRUE, sel, persisted)
  PROVE  dirty' = TRUE /\ pending' = pending
BY DEF SaveEffect, Plan

\* Step 2 is the step of a campaign.
LEMMA PickerHasCampaign == ASSUME IInv, step = 2 PROVE id # 0
BY DEF IInv, RouteOK

\* The flush sends what was pending, once.
LEMMA StepChangeEdits ==
  ASSUME EditsOK, PendingOK, NEW to, NEW waiting, WritesOK(waiting), NEW persisted,
         StepChange(to, waiting, persisted)
  PROVE  EditsOK' /\ WritesOK(calls')
<1>1. edits' = edits /\ catalog' = catalog /\ step' = to
  BY DEF StepChange
<1>2. CASE step = to
  BY <1>1, <1>2 DEF StepChange, EditsOK
<1>3. CASE step # to
  <2>1. LeaveOrEnterPicker(to, waiting, persisted)
    BY <1>3 DEF StepChange
  <2>2. dirty' = FALSE /\ pending' = None
    BY <2>1 DEF LeaveOrEnterPicker
  <2>3. CASE pending # None
    <3>1. calls' = waiting \cup {StationsCall(pending)} /\ puts' = puts + 1
      BY <1>3, <2>1, <2>3 DEF LeaveOrEnterPicker, PendingOK
    <3>2. WritesOK({StationsCall(pending)})
      BY <2>3 DEF WritesOK, StationsCall, EditsOK
    <3>3. EditsOK'
      BY <1>1, <2>2, <2>3, <3>1 DEF EditsOK
    <3> QED BY <3>1, <3>2, <3>3 DEF WritesOK
  <2>4. CASE pending = None
    <3>1. calls' = waiting /\ puts' = puts
      BY <2>1, <2>4 DEF LeaveOrEnterPicker
    <3> QED BY <1>1, <2>2, <2>4, <3>1 DEF EditsOK
  <2> QED BY <2>3, <2>4
<1> QED BY <1>2, <1>3

LEMMA StepChangeFlags ==
  ASSUME FlagsOK, NEW to, NEW waiting, NEW persisted, StepChange(to, waiting, persisted)
  PROVE  FlagsOK'
<1>1. catalog' = catalog /\ (dirty' = dirty \/ dirty' = FALSE)
  BY DEF StepChange, LeaveOrEnterPicker
<1> QED BY <1>1 DEF FlagsOK

---------------------------------------------------------------------------
(* Every action keeps the values. *)

LEMMA InitWInv == ASSUME Init PROVE WInv
<1>1. IInv
  BY InitIInv
<1>2. Old \in Campaign /\ Old.client \in Clients /\ Old.code = Code /\ Old.name \in Names
  BY InputsExist DEF Old, Campaign, Codes, Stations
<1> /\ calls = {} /\ dirty = FALSE /\ pending = None /\ puts = 0 /\ edits = 0
    /\ fetch = None /\ linking = {}
  BY DEF Init
<1>3. WritesOK(calls) /\ EditsOK /\ FlagsOK
  <2>1. catalog \in BOOLEAN
    BY LateIsBoolean DEF Init
  <2>2. FlagsOK
    BY <2>1, Zenon DEF FlagsOK
  <2> QED BY <2>2 DEF WritesOK, EditsOK
<1>4. ServerOK /\ QueryOK
  <2>1. CASE campaigns = << >> /\ existing = None
    <3>1. Len(campaigns) = 0
      BY <2>1
    <3> QED BY <2>1, <3>1 DEF ServerOK, QueryOK
  <2>2. CASE campaigns = <<Old>> /\ existing = Old
    <3>1. Len(campaigns) = 1 /\ campaigns[1] = Old
      BY <2>2, OneIsSequence
    <3> QED BY <1>2, <2>2, <3>1 DEF ServerOK, QueryOK
  <2> QED BY <2>1, <2>2 DEF Init
<1>5. FormOK
  <2>1. HubOK
    BY DEF Init, HubOK, AnyClient
  <2>2. CASE /\ draft = [name |-> Old.name, client |-> None, code |-> ""]
             /\ conf = Empty /\ checks = {}
    <3>1. draft \in Draft
      BY <1>2, <2>2 DEF Draft, Codes, AnyClient
    <3> QED BY <2>1, <2>2, <3>1, EmptyIsConf DEF FormOK, GetsOK, ConfTrue, HubOK
  <2>3. CASE /\ draft = [name |-> Old.name, client |-> Old.client, code |-> Old.code]
             /\ conf = Asking(Old.code)
             /\ checks = {[code |-> Old.code, client |-> Old.client, rewrite |-> FALSE,
                           base |-> None]}
    <3>1. draft \in Draft /\ Old.code \in Codes
      BY <1>2, <2>3 DEF Draft, Codes, AnyClient
    <3>2. GetsOK(checks)
      BY <1>2, <2>3, <3>1 DEF GetsOK, IsGet, AnyClient
    <3>3. conf \in Conf /\ conf.state = "asking"
      BY <2>3, <3>1, AskingIsConf
    <3> QED BY <2>1, <3>1, <3>2, <3>3 DEF FormOK, ConfTrue, HubOK
  <2> QED BY <2>2, <2>3 DEF Init
<1> QED BY <1>1, <1>3, <1>4, <1>5 DEF WInv, Rest

values == <<campaigns, existing, fetch, step, calls, catalog, dirty, pending, puts, edits>>

LEMMA FormOnly ==
  ASSUME Rest, UNCHANGED values, FormOK'
  PROVE  Rest'
<1>1. FlagsOK'
  BY DEF Rest, values, FlagsOK
<1> QED BY <1>1 DEF Rest, values, ServerOK, QueryOK, WritesOK, EditsOK

LEMMA TypingRest ==
  ASSUME Rest, TypeName \/ TypeCode \/ PickClient \/ BlurCode \/ Link
  PROVE  Rest'
<1> USE DEF Rest
<1>1. UNCHANGED values /\ UNCHANGED <<holder, owner>>
  BY DEF TypeName, TypeCode, PickClient, BlurCode, Link, server, query, page, picker, values
<1>2. CASE TypeName
  <2>1. draft' \in Draft /\ draft'.client = draft.client /\ UNCHANGED <<conf, checks, linking>>
    BY <1>2 DEF TypeName, FormOK, Draft, form
  <2> QED BY <1>1, <2>1, FormOnly DEF FormOK, ConfTrue, HubOK
<1>3. CASE TypeCode \/ PickClient
  <2>1. draft' \in Draft /\ FormEffects(draft', conf, checks) /\ linking' = linking
    BY <1>3 DEF TypeCode, PickClient, FormOK, Draft, Codes, AnyClient
  <2>2. conf' \in Conf /\ GetsOK(checks') /\ ConfTrue(conf')
    BY <2>1, FormEffectsKeep DEF FormOK
  <2> QED BY <1>1, <2>1, <2>2, FormOnly DEF FormOK, ConfTrue, HubOK
<1>4. CASE BlurCode
  <2> DEFINE r == Check(conf, draft, checks, draft.code, TRUE)
  <2>1. conf' = r.conf /\ checks' = r.checks /\ UNCHANGED <<draft, linking>>
    BY <1>4 DEF BlurCode, page
  <2>2. draft.code \in Codes
    BY DEF FormOK, Draft
  <2>3. Keeps(conf, r)
    BY <2>2, CheckKeeps DEF FormOK
  <2> HIDE DEF r
  <2> QED BY <1>1, <2>1, <2>3, FormOnly DEF FormOK, ConfTrue, HubOK, Keeps
<1>5. CASE Link
  <2>1. UNCHANGED <<draft, conf, checks>>
    BY <1>5 DEF Link, page
  <2>2. conf.state = "found" /\ conf.link # None
    BY <1>5 DEF Link, Verdict, FormOK, Conf
  <2>3. conf.client \in Clients /\ conf.code \in Codes
    BY <2>2 DEF FormOK, Conf, ConfTrue, AnyClient
  <2>4. linking' \subseteq Pairs
    <3> DEFINE pair == [code |-> conf.code, client |-> conf.client, here |-> TRUE]
    <3>1. pair \in Pairs
      BY <2>3 DEF Pairs
    <3>2. linking' = linking \cup {pair}
      BY <1>5 DEF Link
    <3> HIDE DEF pair
    <3> QED BY <3>1, <3>2 DEF FormOK
  <2> QED BY <1>1, <2>1, <2>4, FormOnly DEF FormOK, ConfTrue, HubOK
<1> QED BY <1>2, <1>3, <1>4, <1>5

LEMMA ChecksRest ==
  ASSUME Rest, CheckAnswers \/ LinkAnswers
  PROVE  Rest'
<1> USE DEF Rest
<1>1. UNCHANGED values
  BY DEF CheckAnswers, LinkAnswers, server, query, page, picker, values
<1>2. CASE CheckAnswers
  <2>1. PICK g \in checks : CodeFound(g) \/ CodeNotFound(g)
    BY <1>2 DEF CheckAnswers
  <2>2. UNCHANGED <<holder, owner, linking>>
    BY <1>2 DEF CheckAnswers, server
  <2>3. CASE CodeFound(g)
    BY <1>1, <2>2, <2>3, CodeFoundKeeps, FormOnly DEF FormOK, ConfTrue, HubOK
  <2>4. CASE CodeNotFound(g)
    <3>1. g.code \in Codes
      BY DEF FormOK, GetsOK, IsGet
    <3>2. Asking(g.code) \in Conf
      BY <3>1, AskingIsConf
    <3>3. draft' = draft /\ GetsOK(checks')
      BY <2>4 DEF CodeNotFound, FormOK, GetsOK
    <3>4. \/ conf' = conf
          \/ conf' \in Conf /\ conf'.state # "found"
      <4>1. PICK state \in {"absent", "unknown"} :
              conf' = conf \/ conf' = [Asking(g.code) EXCEPT !.state = state]
        BY <2>4 DEF CodeNotFound
      <4> QED BY <3>2, <4>1 DEF Conf
    <3> QED BY <1>1, <2>2, <3>3, <3>4, FormOnly DEF FormOK, ConfTrue, HubOK
  <2> QED BY <2>1, <2>3, <2>4
<1>3. CASE LinkAnswers
  <2>1. PICK pair \in linking, link \in BOOLEAN :
          /\ linking' = linking \ {pair}
          /\ \/ UNCHANGED <<holder, owner>>
             \/ holder' = pair.client /\ owner' \in {owner, pair.client}
          /\ link => holder' = pair.client /\ owner' = pair.client
          /\ conf' \in {conf, Apply(pair, link)}
          /\ UNCHANGED <<draft, checks>>
    BY <1>3 DEF LinkAnswers, page
  <2>2. /\ pair.client \in Clients /\ linking' \subseteq Pairs
        /\ holder' \in AnyClient /\ owner' \in AnyClient
    BY <2>1 DEF FormOK, HubOK, Pairs, AnyClient
  <2>3. CASE conf' = conf
    BY <1>1, <2>1, <2>2, <2>3, FormOnly DEF FormOK, ConfTrue, HubOK
  <2>4. CASE conf' # conf
    <3>1. /\ conf.client = pair.client
          /\ conf' = [conf EXCEPT !.link = link, !.holder = holder', !.owner = owner',
                                  !.landed = @ \/ conf.link = None]
      BY <2>1, <2>4 DEF Apply, WithLink
    <3>2. PICK landed \in BOOLEAN : landed = (conf.landed \/ conf.link = None)
      OBVIOUS
    <3>3. conf' = [state |-> conf.state, code |-> conf.code, client |-> conf.client,
                   link |-> link, holder |-> holder', owner |-> owner', landed |-> landed]
      BY <3>1, <3>2 DEF FormOK, Conf
    <3>4. conf' \in Conf
      BY <2>1, <2>2, <3>3 DEF FormOK, Conf
    <3>5. ConfTrue(conf)'
      BY <2>1, <2>2, <3>1, <3>3, NoneIsNoValue DEF ConfTrue
    <3> QED BY <1>1, <2>1, <2>2, <3>4, <3>5, FormOnly DEF FormOK, HubOK
  <2> QED BY <2>3, <2>4
<1> QED BY <1>2, <1>3

LEMMA StepRest ==
  ASSUME WInv, GoTo \/ Advance
  PROVE  Rest'
<1> USE DEF WInv, Rest
<1>1. PICK to : StepChange(to, calls, Current)
  BY DEF GoTo, Advance
<1>2. UNCHANGED <<campaigns, holder, owner, existing, fetch, draft>>
  BY DEF GoTo, Advance, server, query
<1>3. EditsOK' /\ WritesOK(calls')
  BY <1>1, StepChangeEdits DEF IInv
<1>4. FormOK'
  BY <1>1, <1>2, StepChangeForm DEF FormOK, ConfTrue, HubOK
<1>5. FlagsOK'
  BY <1>1, StepChangeFlags
<1> QED BY <1>2, <1>3, <1>4, <1>5 DEF ServerOK, QueryOK, WritesOK

\* What the page shows of the stations is what they can be.
LEMMA CurrentOK ==
  ASSUME QueryOK
  PROVE  Current \in SUBSET Stations
BY DEF QueryOK, Current, Campaign

\* What an edit under way becomes when the effect of step 2 has run.
EditPlanned ==
  /\ catalog' = TRUE /\ pending' # None => dirty' = TRUE /\ pending' \in SUBSET Stations
  /\ catalog' = TRUE /\ pending' = None => dirty' = FALSE
  /\ catalog' = FALSE => dirty' = TRUE /\ pending' = pending

LEMMA EffectPlans ==
  ASSUME id # 0, NEW sel \in SUBSET Known, NEW persisted \in SUBSET Stations,
         catalog' \in BOOLEAN, SaveEffect(catalog', TRUE, sel, persisted)
  PROVE  EditPlanned /\ dirty' \in BOOLEAN
<1>1. CASE catalog' = TRUE
  <2>1. SaveEffect(TRUE, TRUE, sel, persisted)
    BY <1>1, Zenon
  <2>2. /\ pending' # None => dirty' = TRUE /\ pending' \in SUBSET Stations
        /\ pending' = None => dirty' = FALSE
    BY <2>1, SaveEffectKeeps
  <2>3. dirty' \in BOOLEAN
    BY <2>2, Zenon
  <2> QED BY <1>1, <2>2, <2>3, Zenon DEF EditPlanned
<1>2. CASE catalog' = FALSE
  <2>1. SaveEffect(FALSE, TRUE, sel, persisted)
    BY <1>2, Zenon
  <2>2. dirty' = TRUE /\ pending' = pending
    BY <2>1, SaveEffectWaits
  <2> QED BY <1>2, <2>2, Zenon DEF EditPlanned
<1> QED BY <1>1, <1>2, Zenon

\* An edit planned that way is paid for, by this edit or by the one that was under way.
LEMMA PlannedEdits ==
  ASSUME EditsOK, EditPlanned, catalog' = TRUE \/ catalog' = FALSE, catalog = TRUE => catalog' = TRUE,
         step' = 2, puts' = puts, edits' = edits + 1 \/ (dirty = TRUE /\ edits' = edits)
  PROVE  EditsOK'
<1>1. puts \in Nat /\ edits \in Nat /\ puts' \in Nat /\ edits' \in Nat /\ puts' + 1 <= edits'
  BY DEF EditsOK
<1>2. puts' <= edits'
  BY <1>1
<1>3. CASE catalog' = TRUE
  <2>1. /\ pending' # None => dirty' = TRUE /\ pending' \in SUBSET Stations
        /\ pending' = None => dirty' = FALSE
    BY <1>3, Zenon DEF EditPlanned
  <2> QED BY <1>1, <1>2, <1>3, <2>1 DEF EditsOK
<1>4. CASE catalog' = FALSE
  <2>1. dirty' = TRUE /\ pending' = pending
    BY <1>4, Zenon DEF EditPlanned
  <2>2. pending = None
    BY <1>4, Zenon DEF EditsOK
  <2> QED BY <1>1, <1>2, <1>4, <2>1, <2>2 DEF EditsOK
<1> QED BY <1>3, <1>4

LEMMA ToggleRest == ASSUME WInv, ToggleStation PROVE Rest'
<1> USE DEF WInv, Rest
<1>1. PICK s \in Known :
        /\ selected' = IF s \in selected THEN selected \ {s} ELSE selected \cup {s}
        /\ SaveEffect(catalog, TRUE, selected', Current)
  BY DEF ToggleStation
<1>2. /\ edits' = edits + 1 /\ step = 2
      /\ UNCHANGED <<campaigns, holder, owner, existing, fetch, draft, conf, checks, linking,
                      calls, step, catalog, puts>>
  BY DEF ToggleStation, server, query, page, form
<1>3. PICK sel \in SUBSET Known : sel = selected'
  BY <1>1 DEF IInv, SelectedOK
<1>4. SaveEffect(catalog', TRUE, sel, Current)
  BY <1>1, <1>2, <1>3, Zenon
<1>5. catalog' \in BOOLEAN
  BY <1>2, Zenon DEF FlagsOK
<1>6. EditPlanned /\ dirty' \in BOOLEAN
  BY <1>2, <1>4, <1>5, PickerHasCampaign, CurrentOK, EffectPlans
<1>7. FlagsOK'
  BY <1>5, <1>6, Zenon DEF FlagsOK
<1>8. EditsOK'
  <2>1. (catalog' = TRUE \/ catalog' = FALSE) /\ (catalog = TRUE => catalog' = TRUE)
    BY <1>2, <1>5, Zenon
  <2> QED BY <1>2, <1>6, <2>1, PlannedEdits
<1> QED BY <1>2, <1>7, <1>8 DEF ServerOK, QueryOK, WritesOK, FormOK, GetsOK, ConfTrue, HubOK

LEMMA TimerRest == ASSUME WInv, TimerFires PROVE Rest'
<1> USE DEF WInv, Rest
<1>1. /\ calls' = calls \cup {StationsCall(pending)} /\ pending # None
      /\ puts' = puts + 1 /\ dirty' = FALSE /\ pending' = None
      /\ UNCHANGED <<campaigns, holder, owner, existing, fetch, draft, conf, checks, linking, edits,
                      step, catalog>>
  BY DEF TimerFires, server, query, page, form
<1>2. WritesOK(calls')
  BY <1>1 DEF WritesOK, StationsCall, EditsOK
<1>3. EditsOK'
  BY <1>1 DEF EditsOK
<1>4. FlagsOK'
  BY <1>1, Zenon DEF FlagsOK
<1> QED BY <1>1, <1>2, <1>3, <1>4 DEF ServerOK, QueryOK, WritesOK, FormOK, GetsOK, ConfTrue, HubOK

LEMMA WritesRest == ASSUME WInv, SaveBasics \/ WriteFails PROVE Rest'
<1> USE DEF WInv, Rest
<1>1. UNCHANGED <<campaigns, holder, owner, existing, fetch, draft, conf, checks, linking,
                  dirty, pending, puts, edits, step, catalog>>
  BY DEF SaveBasics, WriteFails, server, query, page, form, picker
<1>2. WritesOK(calls')
  <2>1. CASE SaveBasics
    <3>1. calls' = calls \cup {BasicsCall} /\ step = 1 /\ NextEnabled
      BY <2>1 DEF SaveBasics
    <3>2. draft.name \in Names /\ draft.code \in Codes /\ draft.client \in Clients
      BY <3>1 DEF NextEnabled, FormOK, Draft, AnyClient
    <3>3. WritesOK({BasicsCall})
      BY <3>2 DEF WritesOK, BasicsCall
    <3> QED BY <3>1, <3>3 DEF WritesOK
  <2>2. CASE WriteFails
    BY <2>2 DEF WriteFails, WritesOK
  <2> QED BY <2>1, <2>2
<1>3. FlagsOK'
  BY <1>1, Zenon DEF FlagsOK
<1> QED BY <1>1, <1>2, <1>3 DEF ServerOK, QueryOK, WritesOK, FormOK, GetsOK, ConfTrue, HubOK, EditsOK

LEMMA StationsSavedRest == ASSUME WInv, StationsSaved PROVE Rest'
<1> USE DEF WInv, Rest
<1>1. PICK call \in calls :
        /\ call.op = "stations"
        /\ campaigns' = [campaigns EXCEPT ![call.id].stations = call.ids]
        /\ calls' = calls \ {call} /\ fetch' = campaigns'[id]
        /\ UNCHANGED <<holder, owner, id, existing, draft, conf, checks, linking, dirty, pending, puts,
                      edits, step, catalog>>
  BY DEF StationsSaved, page, form
<1>2. call.id \in 1..Len(campaigns) /\ IsSequence(campaigns)
  BY <1>1 DEF IInv, CallsOK, CampaignsOK, Carries
<1> DEFINE new == [campaigns[call.id] EXCEPT !.stations = call.ids]
<1>3. campaigns' = [campaigns EXCEPT ![call.id] = new]
  BY <1>1
<1>4. new \in Campaign
  BY <1>1, <1>2 DEF ServerOK, WritesOK, Campaign
<1> HIDE DEF new
<1>5. ServerOK' /\ Len(campaigns') = Len(campaigns)
  BY <1>2, <1>3, <1>4, ReplaceKeeps DEF ServerOK
<1>6. id \in 1..Len(campaigns)
  BY <1>2 DEF IInv, RouteOK, IsSequence
<1>7. QueryOK'
  BY <1>1, <1>5, <1>6 DEF QueryOK, ServerOK
<1>8. WritesOK(calls') /\ EditsOK' /\ FormOK'
  BY <1>1 DEF WritesOK, EditsOK, FormOK, GetsOK, ConfTrue, HubOK
<1>9. FlagsOK'
  BY <1>1, Zenon DEF FlagsOK
<1> QED BY <1>5, <1>7, <1>8, <1>9 DEF WritesOK

LEMMA BasicsSavedRest == ASSUME WInv, BasicsSaved PROVE Rest'
<1> USE DEF WInv, Rest
<1>1. PICK call \in calls :
        /\ call.op = "update"
        /\ campaigns' = [campaigns EXCEPT ![call.id] = Basics(@, call)]
        /\ fetch' = campaigns'[id] /\ AdvanceAfter(call, Current)
        /\ UNCHANGED <<holder, owner, id, existing, draft>>
  BY DEF BasicsSaved
<1>2. call.id \in 1..Len(campaigns) /\ IsSequence(campaigns)
  BY <1>1 DEF IInv, CallsOK, CampaignsOK
<1> DEFINE new == Basics(campaigns[call.id], call)
<1>3. campaigns' = [campaigns EXCEPT ![call.id] = new]
  BY <1>1
<1>4. new \in Campaign
  <2>1. campaigns[call.id] \in Campaign
    BY <1>2 DEF ServerOK
  <2>2. call.name \in Names /\ call.code \in Codes \cup {None}
    BY <1>1 DEF WritesOK
  <2> QED BY <2>1, <2>2, CanonicalIsCode DEF Basics, Campaign
<1> HIDE DEF new
<1>5. ServerOK' /\ Len(campaigns') = Len(campaigns)
  BY <1>2, <1>3, <1>4, ReplaceKeeps DEF ServerOK
<1>6. id \in 1..Len(campaigns)
  BY <1>2 DEF IInv, RouteOK, IsSequence
<1>7. QueryOK'
  BY <1>1, <1>5, <1>6 DEF QueryOK, ServerOK
<1>8. PICK to : StepChange(to, calls \ {call}, Current)
  BY <1>1 DEF AdvanceAfter
<1>9. WritesOK(calls \ {call})
  BY DEF WritesOK
<1>10. EditsOK' /\ WritesOK(calls')
  BY <1>8, <1>9, StepChangeEdits DEF IInv
<1>11. FormOK'
  BY <1>1, <1>8, StepChangeForm DEF FormOK, ConfTrue, HubOK
<1>12. FlagsOK'
  BY <1>8, StepChangeFlags
<1> QED BY <1>5, <1>7, <1>10, <1>11, <1>12 DEF WritesOK

LEMMA CampaignCreatedRest == ASSUME WInv, CampaignCreated PROVE Rest'
<1> USE DEF WInv, Rest
<1>1. PICK call \in calls :
        /\ call.op = "create"
        /\ campaigns' = Append(campaigns, [name |-> call.name, client |-> call.client,
                                           code |-> Canonical(call.code), stations |-> {}])
        /\ id' = Len(campaigns') /\ existing' = None /\ fetch' = campaigns'[id']
        /\ AdvanceAfter(call, {})
        /\ UNCHANGED <<holder, owner, draft>>
  BY DEF CampaignCreated
<1> DEFINE new == [name |-> call.name, client |-> call.client,
                   code |-> Canonical(call.code), stations |-> {}]
<1>2. new \in Campaign
  <2>1. call.name \in Names /\ call.client \in Clients /\ call.code \in Codes
    BY <1>1 DEF WritesOK
  <2> QED BY <2>1, CanonicalIsCode DEF Campaign
<1>3. /\ Len(campaigns') = Len(campaigns) + 1 /\ campaigns'[Len(campaigns) + 1] = new
      /\ \A i \in 1..Len(campaigns) : campaigns'[i] = campaigns[i]
  BY <1>1, AppendKeeps DEF IInv, CampaignsOK
<1> HIDE DEF new
<1>4. Len(campaigns) \in Nat
  BY DEF IInv, CampaignsOK, IsSequence
<1>5. ServerOK'
  BY <1>2, <1>3, <1>4 DEF ServerOK
<1>6. QueryOK'
  BY <1>1, <1>2, <1>3 DEF QueryOK
<1>7. PICK to : StepChange(to, calls \ {call}, {})
  BY <1>1 DEF AdvanceAfter
<1>8. WritesOK(calls \ {call})
  BY DEF WritesOK
<1>9. EditsOK' /\ WritesOK(calls')
  BY <1>7, <1>8, StepChangeEdits DEF IInv
<1>10. FormOK'
  BY <1>1, <1>7, StepChangeForm DEF FormOK, ConfTrue, HubOK
<1>11. FlagsOK'
  BY <1>7, StepChangeFlags
<1> QED BY <1>5, <1>6, <1>9, <1>10, <1>11 DEF WritesOK

\* The refetch and the catalogue may settle an edit; they never make one.
LEMMA RerenderRest ==
  ASSUME WInv, NEW persisted \in SUBSET Stations, catalog' \in BOOLEAN,
         catalog = TRUE => catalog' = TRUE, StationsRerender(catalog', persisted),
         UNCHANGED <<step, puts, edits>>
  PROVE  EditsOK' /\ FlagsOK'
<1> USE DEF WInv, Rest
<1>1. CASE step = 2 /\ dirty = TRUE
  <2>1. SaveEffect(catalog', TRUE, selected, persisted)
    BY <1>1 DEF StationsRerender
  <2>2. EditPlanned /\ dirty' \in BOOLEAN
    BY <1>1, <2>1, PickerHasCampaign, EffectPlans DEF IInv, SelectedOK
  <2>3. catalog' = TRUE \/ catalog' = FALSE
    BY Zenon
  <2>4. FlagsOK'
    BY <2>2, Zenon DEF FlagsOK
  <2> QED BY <1>1, <2>2, <2>3, <2>4, PlannedEdits
<1>2. CASE ~(step = 2 /\ dirty = TRUE)
  <2>1. dirty' = dirty /\ pending' = pending
    <3>1. CASE step # 2
      BY <3>1 DEF StationsRerender
    <3>2. CASE step = 2
      <4>1. dirty = FALSE
        BY <1>2, <3>2, Zenon DEF FlagsOK
      <4> QED BY <3>2, <4>1 DEF StationsRerender
    <3> QED BY <3>1, <3>2
  <2>2. FlagsOK'
    BY <2>1, Zenon DEF FlagsOK
  <2>3. dirty = FALSE
    BY <1>2, Zenon DEF FlagsOK, EditsOK
  <2>4. pending = None
    BY <2>3, Zenon DEF EditsOK
  <2>5. EditsOK'
    BY <2>1, <2>3, <2>4 DEF EditsOK
  <2> QED BY <2>2, <2>5
<1> QED BY <1>1, <1>2

LEMMA CatalogArrivesRest == ASSUME WInv, CatalogArrives PROVE Rest'
<1> USE DEF WInv, Rest
<1>1. /\ catalog' = TRUE /\ StationsRerender(TRUE, Current)
      /\ UNCHANGED <<campaigns, holder, owner, existing, fetch, draft, conf, checks, linking,
                      calls, step, puts, edits>>
  BY DEF CatalogArrives, server, query, page, form
<1>2. StationsRerender(catalog', Current) /\ catalog' \in BOOLEAN
  BY <1>1, Zenon
<1>3. EditsOK' /\ FlagsOK'
  BY <1>1, <1>2, CurrentOK, RerenderRest
<1> QED BY <1>1, <1>3 DEF ServerOK, QueryOK, WritesOK, FormOK, GetsOK, ConfTrue, HubOK

LEMMA ReadArrivesRest == ASSUME WInv, ReadArrives PROVE Rest'
<1> USE DEF WInv, Rest
<1>1. /\ fetch # None /\ existing' = fetch /\ fetch' = None
      /\ UNCHANGED <<campaigns, holder, owner, linking, catalog, step, puts, edits, calls>>
  BY DEF ReadArrives, server, page
<1>2. ServerOK' /\ QueryOK' /\ WritesOK(calls')
  BY <1>1 DEF ServerOK, QueryOK, WritesOK
<1>3. fetch \in Campaign
  BY <1>1 DEF QueryOK
<1>4. EditsOK' /\ FlagsOK'
  <2>1. fetch.stations \in SUBSET Stations
    BY <1>3 DEF Campaign
  <2>2. catalog' \in BOOLEAN /\ (catalog = TRUE => catalog' = TRUE)
    BY <1>1, Zenon DEF FlagsOK
  <2>3. \/ StationsRerender(catalog, fetch.stations)
        \/ UNCHANGED <<selected, dirty, pending>>
    BY DEF ReadArrives
  <2>4. CASE StationsRerender(catalog, fetch.stations)
    <3>1. StationsRerender(catalog', fetch.stations)
      BY <1>1, <2>4, Zenon
    <3> QED BY <1>1, <2>1, <2>2, <3>1, RerenderRest
  <2>5. CASE UNCHANGED <<selected, dirty, pending>>
    <3>1. FlagsOK'
      BY <1>1, <2>5, Zenon DEF FlagsOK
    <3> QED BY <1>1, <2>5, <3>1 DEF EditsOK
  <2> QED BY <2>3, <2>4, <2>5
<1>5. FormOK'
  <2>1. CASE UNCHANGED <<page, conf, checks, opened>>
    BY <1>1, <2>1 DEF page, FormOK, GetsOK, ConfTrue, HubOK
  <2>2. CASE ~UNCHANGED <<page, conf, checks, opened>>
    <3>1. /\ draft' = [name |-> fetch.name, client |-> fetch.client, code |-> fetch.code]
          /\ FormEffects(draft', conf, checks)
      BY <2>2 DEF ReadArrives
    <3>2. draft' \in Draft
      BY <1>3, <3>1 DEF Draft, Campaign, AnyClient
    <3>3. conf' \in Conf /\ GetsOK(checks') /\ ConfTrue(conf')
      BY <3>1, <3>2, FormEffectsKeep DEF FormOK
    <3> QED BY <1>1, <3>2, <3>3 DEF FormOK, ConfTrue, HubOK
  <2> QED BY <2>1, <2>2
<1> QED BY <1>1, <1>2, <1>4, <1>5 DEF WritesOK

\* Every step keeps the values.
LEMMA NextRest ==
  ASSUME WInv, [Next]_vars
  PROVE  WInv'
<1>1. IInv'
  BY NextKeeps DEF WInv
<1>2. CASE UNCHANGED vars
  <2>1. UNCHANGED values /\ UNCHANGED <<holder, owner, draft, conf, checks, linking>>
    BY <1>2 DEF vars, server, query, page, form, picker, values
  <2>2. FormOK'
    BY <2>1 DEF WInv, Rest, FormOK, GetsOK, ConfTrue, HubOK
  <2> QED BY <1>1, <2>1, <2>2, FormOnly DEF WInv
<1>3. CASE Next
  <2>1. Rest'
    BY <1>3, TypingRest, ChecksRest, StepRest, ToggleRest, TimerRest, WritesRest,
       StationsSavedRest, BasicsSavedRest, CampaignCreatedRest, ReadArrivesRest,
       CatalogArrivesRest
       DEF Next, UserActs, Answers, WInv
  <2> QED BY <1>1, <2>1 DEF WInv
<1> QED BY <1>2, <1>3

\* For any number of operations, answers and faults in any order: where the green
\* box under the code rests on a link, both sides of it were those of the client
\* now in the form when the server said so; where the server said nothing of the
\* link, the hub pointed to that client or to none (BasicDataStep.jsx, veredito).
THEOREM GreenNeverLies == Spec => []GreenIsTrue
<1>1. WInv => GreenIsTrue
  <2> SUFFICES ASSUME WInv, step = 1, Verdict = "found", draft.client # None
               PROVE  IF conf.link # None
                      THEN conf.holder = draft.client /\ conf.owner = draft.client
                      ELSE conf.owner \in {None, draft.client}
    BY DEF GreenIsTrue
  <2>1. conf.state = "found"
    BY DEF Verdict, WInv, Rest, FormOK, Conf
  <2>2. CASE conf.link # None
    <3>1. conf.client = draft.client /\ conf.link = TRUE
      BY <2>1, <2>2 DEF Verdict, WInv, Rest, FormOK, Conf
    <3> QED BY <2>1, <2>2, <3>1 DEF WInv, Rest, FormOK, ConfTrue
  <2>3. CASE conf.link = None
    BY <2>1, <2>3 DEF Verdict
  <2> QED BY <2>2, <2>3
<1> QED BY <1>1, InitWInv, NextRest, PTL DEF Spec

\* For any number of operations, refetches, remounts and flushes: no write of
\* the stations leaves without an edit of its own (dirtyRef, pendingSaveRef).
THEOREM NeverAnUnaskedPut == Spec => []NoUnaskedPut
<1>1. WInv => NoUnaskedPut
  BY DEF WInv, Rest, EditsOK, NoUnaskedPut
<1> QED BY <1>1, InitWInv, NextRest, PTL DEF Spec

---------------------------------------------------------------------------
(* What step 2 shows. *)

LEMMA CampaignIsValue == \A r \in Campaign : r # None
<1> SUFFICES ASSUME NEW r \in Campaign PROVE r # None
  OBVIOUS
<1>1. /\ r = [name |-> r.name, client |-> r.client, code |-> r.code, stations |-> r.stations]
      /\ r.name \in Names /\ r.client \in Clients /\ r.code \in {"", Raw, Code}
      /\ r.stations \in SUBSET (Known \cup Hidden)
  BY DEF Campaign, Codes, Stations
<1> QED BY <1>1, NoneIsNoValue

\* A page that shows its copy agrees with every server.
LEMMA CopyAgrees ==
  ASSUME existing' = None \/ selected' = existing'.stations \cap Known
  PROVE  \A s : Agrees(s)'
BY DEF Agrees

shown == <<campaigns, id, existing, fetch, step, catalog, selected, pending, overtaken, puts, calls, faults>>

LEMMA ShownOnly == ASSUME ShowInv, UNCHANGED shown PROVE ShowInv'
BY DEF ShowInv, shown, SendsOK, Numbered, CopyFresh, EditShown, Settled, Sends, Newest, Agrees

\* A save that leaves now is the newest.
LEMMA SendNumbered ==
  ASSUME SendsOK, puts \in Nat, NEW waiting \in SUBSET calls,
         NEW ids, calls' = waiting \cup {StationsCall(ids)}, puts' = puts + 1
  PROVE  /\ SendsOK'
         /\ \A c \in calls' : c.op = "stations" /\ c.n >= puts => c = StationsCall(ids)
<1> DEFINE new == StationsCall(ids)
<1>1. new.op = "stations" /\ new.n = puts
  BY DEF StationsCall
<1> HIDE DEF new
<1>2. \A c \in waiting : c.op = "stations" => c.n \in Nat /\ c.n < puts
  BY DEF SendsOK, Numbered
<1>3. \A c \in calls' : c = new \/ c \in waiting
  BY DEF new
<1>4. \A c \in calls' : c.op = "stations" => c.n \in Nat /\ c.n < puts'
  BY <1>1, <1>2, <1>3
<1>5. \A c, d \in calls' : c.op = "stations" /\ d.op = "stations" /\ c.n = d.n => c = d
  BY <1>1, <1>2, <1>3 DEF SendsOK
<1>6. \A c \in calls' : c.op = "stations" /\ c.n >= puts => c = new
  BY <1>2, <1>3
<1> QED BY <1>4, <1>5, <1>6 DEF SendsOK, Numbered, new

\* The step that enters the picker shows the copy it entered with.
LEMMA StepChangeShows ==
  ASSUME WInv, ShowInv, NEW to, NEW waiting \in SUBSET calls, NEW persisted,
         StepChange(to, waiting, persisted), step = to => to # 2,
         existing' = None \/ persisted = existing'.stations
  PROVE  SendsOK' /\ EditShown' /\ Settled'
<1>1. step' = to
  BY DEF StepChange
<1>2. CASE step = to
  <2>1. /\ calls' = waiting /\ UNCHANGED <<selected, pending, puts>>
    BY <1>2 DEF StepChange
  <2>2. SendsOK'
    BY <2>1 DEF ShowInv, SendsOK, Numbered
  <2> QED BY <1>1, <1>2, <2>1, <2>2 DEF ShowInv, EditShown, Settled
<1>3. CASE step # to
  <2>1. LeaveOrEnterPicker(to, waiting, persisted)
    BY <1>3 DEF StepChange
  <2>2. pending' = None /\ selected' = IF to = 2 THEN persisted \cap Loaded(catalog) ELSE {}
    BY <2>1 DEF LeaveOrEnterPicker
  <2>3. SendsOK'
    <3>1. CASE calls' = waiting /\ puts' = puts
      BY <3>1 DEF ShowInv, SendsOK, Numbered
    <3>2. CASE calls' = waiting \cup {StationsCall(pending)} /\ puts' = puts + 1
      BY <3>2, SendNumbered DEF ShowInv, WInv, Rest, EditsOK
    <3> QED BY <2>1, <3>1, <3>2 DEF LeaveOrEnterPicker
  <2>4. Settled'
    <3> SUFFICES ASSUME step' = 2, catalog'
                 PROVE  \A s : Agrees(s)'
      BY DEF Settled
    <3>1. catalog
      BY DEF StepChange
    <3> QED BY <1>1, <2>2, <3>1, CopyAgrees DEF Loaded
  <2> QED BY <2>2, <2>3, <2>4 DEF EditShown
<1> QED BY <1>2, <1>3

\* The copy in the query, when there is one.
LEMMA CurrentIsCopy == existing = None \/ Current = existing.stations
BY DEF Current

LEMMA InitShows == ASSUME Init PROVE ShowInv
<1>1. calls = {} /\ fetch = None /\ pending = None /\ step = 1 /\ faults = 0
  BY DEF Init
<1>2. id # 0 => existing = campaigns[id]
  <2>1. CASE id = 0
    BY <2>1
  <2>2. CASE campaigns = <<Old>> /\ id = 1 /\ existing = Old
    BY <2>2
  <2> QED BY <2>1, <2>2 DEF Init
<1> QED BY <1>1, <1>2 DEF ShowInv, SendsOK, CopyFresh, EditShown, Settled

LEMMA StepShows == ASSUME WInv, ShowInv, GoTo \/ Advance PROVE ShowInv'
<1>1. PICK to \in 1..LastStep : StepChange(to, calls, Current) /\ step # to
  <2>1. CASE GoTo
    BY <2>1 DEF GoTo
  <2>2. CASE Advance
    <3>1. StepChange(step + 1, calls, Current) /\ step \in 1..LastStep /\ step < LastStep
      BY <2>2 DEF Advance, NextEnabled, WInv, IInv, RouteOK, LastStep
    <3>2. step + 1 \in 1..LastStep /\ step # step + 1
      BY <3>1 DEF LastStep
    <3> QED BY <3>1, <3>2
  <2> QED BY <2>1, <2>2
<1>2. UNCHANGED <<campaigns, id, existing, fetch, faults>>
  BY DEF GoTo, Advance, server, query
<1>3. SendsOK' /\ EditShown' /\ Settled'
  BY <1>1, <1>2, CurrentIsCopy, StepChangeShows
<1> QED BY <1>2, <1>3 DEF ShowInv, CopyFresh

\* After an edit step 2 shows the save that is pending, or its copy.
LEMMA EditShows ==
  ASSUME WInv, ShowInv, id # 0, NEW sel \in SUBSET Known, NEW persisted \in SUBSET Stations,
         catalog' \in BOOLEAN, catalog = TRUE => catalog' = TRUE,
         SaveEffect(catalog', TRUE, sel, persisted),
         selected' = sel, existing' = None \/ persisted = existing'.stations
  PROVE  /\ EditShown'
         /\ catalog' /\ pending' = None => \A t : Agrees(t)'
<1>1. CASE catalog' = TRUE
  <2>1. SaveEffect(TRUE, TRUE, sel, persisted)
    BY <1>1, Zenon
  <2>2. /\ pending' # None => pending' \cap Known = sel
        /\ pending' = None => sel = persisted \cap Known
    BY <2>1, SaveEffectKeeps
  <2>3. EditShown'
    BY <2>2 DEF EditShown
  <2>4. ASSUME pending' = None
        PROVE  \A t : Agrees(t)'
    BY <2>2, <2>4, CopyAgrees
  <2> QED BY <2>3, <2>4
<1>2. CASE catalog' = FALSE
  <2>1. SaveEffect(FALSE, TRUE, sel, persisted)
    BY <1>2, Zenon
  <2>2. pending' = pending
    BY <2>1, SaveEffectWaits
  <2>3. pending = None
    BY <1>2, Zenon DEF WInv, Rest, EditsOK
  <2> QED BY <1>2, <2>2, <2>3 DEF EditShown
<1> QED BY <1>1, <1>2, Zenon

LEMMA ToggleShows == ASSUME WInv, ShowInv, ToggleStation PROVE ShowInv'
<1>1. PICK s \in Known : selected' = IF s \in selected THEN selected \ {s} ELSE selected \cup {s}
  BY DEF ToggleStation
<1>2. /\ SaveEffect(catalog, TRUE, selected', Current) /\ step = 2
      /\ UNCHANGED <<campaigns, id, existing, fetch, step, catalog, puts, calls, faults, overtaken>>
  BY DEF ToggleStation, server, query, page
<1>3. PICK sel \in SUBSET Known : sel = selected'
  BY <1>1 DEF WInv, IInv, SelectedOK
<1>4. SaveEffect(catalog', TRUE, sel, Current)
  BY <1>2, <1>3, Zenon
<1>5. EditShown' /\ (catalog' /\ pending' = None => \A t : Agrees(t)')
  <2>1. Current \in SUBSET Stations /\ id # 0
    BY <1>2, CurrentOK, PickerHasCampaign DEF WInv, Rest
  <2>2. catalog' \in BOOLEAN /\ (catalog = TRUE => catalog' = TRUE)
    BY <1>2, Zenon DEF WInv, Rest, FlagsOK
  <2>3. existing' = None \/ Current = existing'.stations
    BY <1>2, CurrentIsCopy
  <2> QED BY <1>3, <1>4, <2>1, <2>2, <2>3, EditShows
<1>6. Settled'
  BY <1>5 DEF Settled
<1>7. SendsOK'
  BY <1>2 DEF ShowInv, SendsOK, Numbered
<1> QED BY <1>2, <1>5, <1>6, <1>7 DEF ShowInv, CopyFresh

LEMMA TimerShows == ASSUME WInv, ShowInv, TimerFires PROVE ShowInv'
<1> DEFINE new == StationsCall(pending)
<1>1. /\ pending # None /\ calls' = calls \cup {new} /\ puts' = puts + 1 /\ pending' = None
      /\ UNCHANGED <<campaigns, id, existing, fetch, step, catalog, selected, faults, overtaken>>
  BY DEF TimerFires, server, query, page
<1>2. puts \in Nat
  BY DEF WInv, Rest, EditsOK
<1>3. /\ SendsOK'
      /\ \A c \in calls' : c.op = "stations" /\ c.n >= puts => c = new
  BY <1>1, <1>2, SendNumbered DEF ShowInv
<1>4. new \in Sends' /\ new.n = puts /\ new.ids = pending
  BY <1>1 DEF Sends, StationsCall
<1> HIDE DEF new
<1>5. \A c \in Sends' : Newest(c)' => c = new
  <2> SUFFICES ASSUME NEW c \in Sends', Newest(c)'
               PROVE  c = new
    OBVIOUS
  <2>1. new.n <= c.n
    BY <1>4 DEF Newest
  <2>2. c \in calls' /\ c.op = "stations" /\ c.n \in Nat
    BY <1>3 DEF SendsOK, Numbered, Sends
  <2> QED BY <1>2, <1>3, <1>4, <2>1, <2>2
<1>6. \A t : t = pending => Agrees(t)'
  BY <1>1 DEF ShowInv, EditShown, Agrees
<1>7. Settled'
  BY <1>4, <1>5, <1>6 DEF Settled
<1> QED BY <1>1, <1>3, <1>7 DEF ShowInv, CopyFresh, EditShown

LEMMA SaveBasicsShows == ASSUME WInv, ShowInv, SaveBasics PROVE ShowInv'
<1>1. /\ calls' = calls \cup {BasicsCall} /\ BasicsCall.op # "stations"
      /\ UNCHANGED <<campaigns, id, existing, fetch, step, catalog, selected, pending, overtaken,
                      puts, faults>>
  BY DEF SaveBasics, BasicsCall, server, query, page, picker
<1>2. Sends' = Sends
  BY <1>1 DEF Sends
<1>3. SendsOK'
  BY <1>1 DEF ShowInv, SendsOK, Numbered
<1> QED BY <1>1, <1>2, <1>3 DEF ShowInv, CopyFresh, EditShown, Settled, Newest, Agrees

LEMMA WriteFailsShows == ASSUME WInv, ShowInv, WriteFails PROVE ShowInv'
<1>1. /\ calls' \subseteq calls /\ faults' = faults + 1
      /\ UNCHANGED <<campaigns, id, existing, fetch, step, catalog, selected, pending, overtaken,
                      puts>>
  BY DEF WriteFails, server, query, page, picker
<1>2. SendsOK'
  BY <1>1 DEF ShowInv, SendsOK, Numbered
<1> QED BY <1>1, <1>2 DEF ShowInv, CopyFresh, EditShown, Settled

\* The newest save arrives last, or a save has overtaken another.
LEMMA StationsSavedShows == ASSUME WInv, ShowInv, StationsSaved PROVE ShowInv'
<1>1. PICK call \in calls :
        /\ call.op = "stations"
        /\ campaigns' = [campaigns EXCEPT ![call.id].stations = call.ids]
        /\ calls' = calls \ {call} /\ fetch' = campaigns'[id]
        /\ overtaken' = (overtaken \/ \E c \in calls : c.op = "stations" /\ c.n < call.n)
        /\ UNCHANGED <<id, existing, step, catalog, selected, pending, puts, faults>>
  BY DEF StationsSaved, page
<1>2. WInv'
  BY NextRest DEF Next, Answers
<1>3. call.id \in 1..Len(campaigns) /\ IsSequence(campaigns)
  BY <1>1 DEF WInv, IInv, CallsOK, CampaignsOK, Carries
<1>4. id # 0
  BY <1>3 DEF WInv, IInv, RouteOK
<1>5. id \in 1..Len(campaigns')
  BY <1>1, <1>2, <1>4 DEF WInv, IInv, RouteOK, CampaignsOK, IsSequence
<1>6. fetch' # None
  BY <1>1, <1>2, <1>5, CampaignIsValue DEF WInv, Rest, ServerOK
<1>7. SendsOK' /\ CopyFresh' /\ EditShown'
  BY <1>1, <1>6 DEF ShowInv, SendsOK, Numbered, CopyFresh, EditShown
<1>8. campaigns'[id].stations = IF id = call.id THEN call.ids ELSE campaigns[id].stations
  <2>1. id \in 1..Len(campaigns)
    BY <1>3, <1>4 DEF WInv, IInv, RouteOK, IsSequence
  <2>2. /\ IsCampaign(campaigns[call.id])
        /\ campaigns' = [campaigns EXCEPT ![call.id] = [campaigns[call.id] EXCEPT !.stations = call.ids]]
    BY <1>1, <1>3 DEF WInv, IInv, CampaignsOK
  <2>3. [campaigns[call.id] EXCEPT !.stations = call.ids].stations = call.ids
    BY <2>2, FieldsKeep
  <2>4. campaigns'[id] = IF id = call.id THEN [campaigns[call.id] EXCEPT !.stations = call.ids]
                         ELSE campaigns[id]
    BY <1>3, <2>1, <2>2 DEF IsSequence
  <2> QED BY <2>3, <2>4
<1>9. \A t : Agrees(t)' <=> Agrees(t)
  BY <1>1 DEF Agrees
<1>10. Settled'
  <2> SUFFICES ASSUME step = 2, catalog, pending = None, faults = 0, ~overtaken,
                      ~ \E c \in calls : c.op = "stations" /\ c.n < call.n
               PROVE  /\ \A c \in Sends' : Newest(c)' => Agrees(c.ids)
                      /\ Sends' = {} => Agrees(campaigns'[id].stations)
    BY <1>1, <1>9 DEF Settled
  <2>1. Sends' = Sends \ {call} /\ (call \in Sends <=> call.id = id)
    BY <1>1 DEF Sends
  <2>2. \A c \in calls : c.op = "stations" => c.n \in Nat
    BY DEF ShowInv, SendsOK, Numbered
  <2>3. ASSUME NEW c \in Sends', Newest(c)'
        PROVE  Agrees(c.ids)
    <3>1. c \in calls /\ c.op = "stations"
      BY <2>1 DEF Sends
    <3>2. call.n <= c.n
      BY <1>1, <2>2, <3>1
    <3>3. Newest(c)
      BY <2>1, <2>3, <3>2 DEF Newest
    <3> QED BY <2>1, <3>3 DEF ShowInv, Settled
  <2>4. ASSUME Sends' = {}
        PROVE  Agrees(campaigns'[id].stations)
    <3>1. CASE call.id = id
      <4>1. Newest(call)
        BY <1>1, <2>1, <2>2, <2>4, <3>1 DEF Newest
      <4> QED BY <2>1, <3>1, <4>1, <1>8 DEF ShowInv, Settled
    <3>2. CASE call.id # id
      BY <2>1, <2>4, <3>2, <1>8 DEF ShowInv, Settled
    <3> QED BY <3>1, <3>2
  <2> QED BY <2>3, <2>4
<1> QED BY <1>1, <1>7, <1>10 DEF ShowInv

LEMMA BasicsSavedShows == ASSUME WInv, ShowInv, BasicsSaved PROVE ShowInv'
<1>1. PICK call \in calls :
        /\ call.op = "update" /\ fetch' = campaigns'[id] /\ AdvanceAfter(call, Current)
        /\ UNCHANGED <<id, existing, faults>>
  BY DEF BasicsSaved
<1>2. WInv'
  BY NextRest DEF Next, Answers
<1>3. call.id \in 1..Len(campaigns) /\ IsSequence(campaigns)
  BY <1>1 DEF WInv, IInv, CallsOK, CampaignsOK
<1>4. id # 0
  BY <1>3 DEF WInv, IInv, RouteOK
<1>5. id \in 1..Len(campaigns')
  BY <1>1, <1>2, <1>4 DEF WInv, IInv, RouteOK, CampaignsOK, IsSequence
<1>6. fetch' # None
  BY <1>1, <1>2, <1>5, CampaignIsValue DEF WInv, Rest, ServerOK
<1>7. PICK to : StepChange(to, calls \ {call}, Current) /\ (step = to => to # 2)
  BY <1>1 DEF AdvanceAfter, WInv, IInv, RouteOK, LastStep
<1>8. SendsOK' /\ EditShown' /\ Settled'
  BY <1>1, <1>7, CurrentIsCopy, StepChangeShows
<1> QED BY <1>1, <1>6, <1>8 DEF ShowInv, CopyFresh

LEMMA CampaignCreatedShows == ASSUME WInv, ShowInv, CampaignCreated PROVE ShowInv'
<1>1. PICK call \in calls :
        /\ fetch' = campaigns'[id'] /\ AdvanceAfter(call, {}) /\ existing' = None
        /\ id' = Len(campaigns') /\ faults' = faults
        /\ campaigns' = Append(campaigns, [name |-> call.name, client |-> call.client,
                                           code |-> Canonical(call.code), stations |-> {}])
  BY DEF CampaignCreated
<1>2. WInv'
  BY NextRest DEF Next, Answers
<1>3. id' \in 1..Len(campaigns')
  <2>1. Len(campaigns') = Len(campaigns) + 1 /\ Len(campaigns) \in Nat
    BY <1>1, AppendKeeps DEF WInv, IInv, CampaignsOK, IsSequence
  <2> QED BY <1>1, <2>1
<1>4. fetch' # None
  BY <1>1, <1>2, <1>3, CampaignIsValue DEF WInv, Rest, ServerOK
<1>5. PICK to : StepChange(to, calls \ {call}, {}) /\ (step = to => to # 2)
  BY <1>1 DEF AdvanceAfter, WInv, IInv, RouteOK, LastStep
<1>6. SendsOK' /\ EditShown' /\ Settled'
  BY <1>1, <1>5, StepChangeShows
<1> QED BY <1>1, <1>4, <1>6 DEF ShowInv, CopyFresh

\* The new copy is shown, or an edit is under way.
LEMMA RerenderShows ==
  ASSUME WInv, ShowInv, NEW persisted \in SUBSET Stations,
         catalog' \in BOOLEAN, catalog = TRUE => catalog' = TRUE,
         StationsRerender(catalog', persisted),
         existing' = None \/ persisted = existing'.stations, step' = step
  PROVE  EditShown' /\ Settled'
<1>1. CASE step # 2
  BY <1>1 DEF StationsRerender, ShowInv, EditShown, Settled
<1>2. CASE step = 2 /\ dirty = TRUE
  <2>1. SaveEffect(catalog', TRUE, selected, persisted) /\ selected' = selected /\ id # 0
    BY <1>2, PickerHasCampaign DEF StationsRerender, WInv
  <2>2. EditShown' /\ (catalog' /\ pending' = None => \A t : Agrees(t)')
    BY <2>1, EditShows DEF WInv, IInv, SelectedOK
  <2> QED BY <2>2 DEF Settled
<1>3. CASE step = 2 /\ dirty = FALSE
  <2>1. selected' = persisted \cap Loaded(catalog') /\ pending' = pending
    BY <1>3 DEF StationsRerender
  <2>2. pending = None
    BY <1>3, Zenon DEF WInv, Rest, EditsOK
  <2>3. catalog' => \A t : Agrees(t)'
    BY <2>1, CopyAgrees DEF Loaded
  <2> QED BY <2>1, <2>2, <2>3 DEF EditShown, Settled
<1>4. dirty = TRUE \/ dirty = FALSE
  BY Zenon DEF WInv, Rest, FlagsOK
<1> QED BY <1>1, <1>2, <1>3, <1>4

LEMMA ReadArrivesShows == ASSUME WInv, ShowInv, ReadArrives PROVE ShowInv'
<1>1. /\ fetch # None /\ existing' = fetch /\ fetch' = None
      /\ UNCHANGED <<campaigns, id, step, catalog, overtaken, puts, calls, faults>>
  BY DEF ReadArrives, server, page
<1>2. SendsOK' /\ CopyFresh'
  BY <1>1 DEF ShowInv, SendsOK, Numbered, CopyFresh
<1>3. CASE existing # None /\ fetch.stations = existing.stations
  <2>1. UNCHANGED <<selected, pending>>
    BY <1>3 DEF ReadArrives, Current
  <2>2. \A t : Agrees(t) => Agrees(t)'
    BY <1>1, <1>3, <2>1 DEF Agrees
  <2>3. Settled'
    BY <1>1, <2>1, <2>2 DEF ShowInv, Settled, Sends, Newest
  <2> QED BY <1>1, <1>2, <2>1, <2>3 DEF ShowInv, EditShown
<1>4. CASE existing = None \/ fetch.stations # existing.stations
  <2>1. StationsRerender(catalog, fetch.stations)
    BY <1>1, <1>4 DEF ReadArrives, Current
  <2>2. StationsRerender(catalog', fetch.stations)
    BY <1>1, <2>1, Zenon
  <2>3. fetch.stations \in SUBSET Stations
    BY <1>1 DEF WInv, Rest, QueryOK, Campaign
  <2>4. catalog' \in BOOLEAN /\ (catalog = TRUE => catalog' = TRUE)
    BY <1>1, Zenon DEF WInv, Rest, FlagsOK
  <2>5. EditShown' /\ Settled'
    BY <1>1, <2>2, <2>3, <2>4, RerenderShows
  <2> QED BY <1>1, <1>2, <2>5 DEF ShowInv
<1> QED BY <1>3, <1>4

LEMMA CatalogArrivesShows == ASSUME WInv, ShowInv, CatalogArrives PROVE ShowInv'
<1>1. /\ catalog' = TRUE /\ StationsRerender(TRUE, Current)
      /\ UNCHANGED <<campaigns, id, existing, fetch, step, overtaken, puts, calls, faults>>
  BY DEF CatalogArrives, server, query, page
<1>2. SendsOK' /\ CopyFresh'
  BY <1>1 DEF ShowInv, SendsOK, Numbered, CopyFresh
<1>3. StationsRerender(catalog', Current) /\ catalog' \in BOOLEAN
  BY <1>1, Zenon
<1>4. EditShown' /\ Settled'
  <2>1. Current \in SUBSET Stations /\ (existing' = None \/ Current = existing'.stations)
    BY <1>1, CurrentOK, CurrentIsCopy DEF WInv, Rest
  <2> QED BY <1>1, <1>3, <2>1, RerenderShows
<1> QED BY <1>1, <1>2, <1>4 DEF ShowInv

LEMMA NextShows == ASSUME WInv, ShowInv, [Next]_vars PROVE ShowInv'
<1>1. CASE \/ TypeName \/ TypeCode \/ PickClient \/ BlurCode \/ Link
           \/ CheckAnswers \/ LinkAnswers \/ UNCHANGED vars
  <2>1. UNCHANGED shown
    BY <1>1 DEF TypeName, TypeCode, PickClient, BlurCode, Link, CheckAnswers, LinkAnswers, vars,
                server, query, page, picker, shown
  <2> QED BY <2>1, ShownOnly
<1> QED
  BY <1>1, StepShows, ToggleShows, TimerShows, SaveBasicsShows, WriteFailsShows,
     StationsSavedShows, BasicsSavedShows, CampaignCreatedShows, ReadArrivesShows,
     CatalogArrivesShows
     DEF Next, UserActs, Answers

\* For any number of edits, saves, answers and refetches in any order: once the
\* catalogue is there and nothing is under way step 2 shows the stations the server has, unless a save
\* was refused or arrived before an older one (StationsStep.jsx).
THEOREM PickerAlwaysAgrees == Spec => []PickerShowsServer
<1>1. WInv /\ ShowInv => PickerShowsServer
  <2> SUFFICES ASSUME WInv, ShowInv, step = 2, catalog, calls = {}, fetch = None, pending = None,
                      faults = 0, ~overtaken
               PROVE  selected = campaigns[id].stations \cap Known
    BY DEF PickerShowsServer
  <2>1. Sends = {}
    BY DEF Sends
  <2>2. Agrees(campaigns[id].stations)
    BY <2>1 DEF ShowInv, Settled
  <2>3. id \in 1..Len(campaigns)
    BY DEF WInv, IInv, RouteOK, CampaignsOK, IsSequence
  <2>4. existing = campaigns[id] /\ existing # None
    BY <2>3, CampaignIsValue DEF ShowInv, CopyFresh, WInv, Rest, ServerOK
  <2> QED BY <2>2, <2>4 DEF Agrees
<1>2. Init => WInv /\ ShowInv
  BY InitWInv, InitShows
<1>3. WInv /\ ShowInv /\ [Next]_vars => WInv' /\ ShowInv'
  BY NextRest, NextShows
<1> QED BY <1>1, <1>2, <1>3, PTL DEF Spec
=============================================================================
