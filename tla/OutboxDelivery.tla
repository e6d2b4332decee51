--------------------------- MODULE OutboxDelivery ---------------------------
(***************************************************************************)
(* What the outbox promises to the code that records an event: the event   *)
(* is recorded with its transaction, its handler may run any number of     *)
(* times before the verdict, and the verdict is final.  It is "delivered"  *)
(* only after a complete run, "abandoned" otherwise.                       *)
(***************************************************************************)
EXTENDS Integers

CONSTANTS Events

VARIABLES state, ran

Init == state = [e \in Events |-> "absent"] /\ ran = {}

Record(e) ==
  /\ state[e] = "absent"
  /\ state' = [state EXCEPT ![e] = "recorded"]
  /\ UNCHANGED ran

Run(e) ==
  /\ state[e] = "recorded"
  /\ ran' = ran \cup {e}
  /\ UNCHANGED state

Deliver(e) ==
  /\ state[e] = "recorded" /\ e \in ran
  /\ state' = [state EXCEPT ![e] = "delivered"]
  /\ UNCHANGED ran

Abandon(e) ==
  /\ state[e] = "recorded"
  /\ state' = [state EXCEPT ![e] = "abandoned"]
  /\ UNCHANGED ran

Next == \E e \in Events : Record(e) \/ Run(e) \/ Deliver(e) \/ Abandon(e)

Spec == Init /\ [][Next]_<<state, ran>>
=============================================================================
