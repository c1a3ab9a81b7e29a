------------------------------ MODULE Delivery ------------------------------
(***************************************************************************)
(* What the webhook subsystem promises of an event once it is in the       *)
(* outbox (docs/features/webhooks.md, internal/webhook/worker.go): it is   *)
(* delivered at least once or given up, in the end one of the two, and     *)
(* what was decided is not decided again.                                  *)
(***************************************************************************)
CONSTANT Events

VARIABLES
  fate,  \* "none" before the outbox has it, then "owed", then settled
  got    \* the events the client has accepted, once or more

vars == <<fate, got>>

Settled == {"delivered", "abandoned"}

Init == fate = [e \in Events |-> "none"] /\ got = {}

Owe(e) ==
  /\ fate[e] = "none"
  /\ fate' = [fate EXCEPT ![e] = "owed"]
  /\ UNCHANGED got

\* The client accepts an event whose delivery is not settled.
Receive(e) ==
  /\ fate[e] = "owed"
  /\ got' = got \cup {e}
  /\ UNCHANGED fate

Settle(e) ==
  /\ fate[e] = "owed"
  /\ \/ e \in got /\ fate' = [fate EXCEPT ![e] = "delivered"]
     \/ fate' = [fate EXCEPT ![e] = "abandoned"]
  /\ UNCHANGED got

Next == \E e \in Events : Owe(e) \/ Receive(e) \/ Settle(e)

Safe == Init /\ [][Next]_vars

Spec == Safe /\ \A e \in Events : WF_vars(Settle(e))
=============================================================================
