------------------------------ MODULE EventRsvp ------------------------------
(***************************************************************************)
(* One event and its RSVPs: event.service.js (create, update, cancel,      *)
(* delete), event_participant.service.js (set and cancel an RSVP under the *)
(* lock of the event row), the legacy participant endpoints, which write   *)
(* event_participants without that lock, and the counter reconciliation    *)
(* script, which reads and repairs the three counters in two statements.   *)
(*                                                                         *)
(* A participant row that is missing or soft deleted is "none": no code    *)
(* distinguishes the two.  The transactions of setEventRsvp and            *)
(* cancelEventRsvp hold the event row from their first statement to their  *)
(* commit, so each is one step.  What updateEvent, cancelEvent and         *)
(* cancelEventRsvp do to the chat of the event is added by EventChat.      *)
(***************************************************************************)
EXTENDS Integers, FiniteSets

CONSTANTS
  Users,    \* who may answer
  Creator,  \* created the event, and is going from the start
  Allowed,  \* users canReadEvent lets in
  Caps,     \* values of max_participants, 0 for null
  MaxLegacy \* bound: writes through the endpoints /event-participants/:id

ASSUME RsvpAssumption ==
  /\ IsFiniteSet(Users) /\ Creator \in Users
  /\ Allowed \subseteq Users /\ Creator \in Allowed
  /\ Caps \subseteq Nat /\ Caps # {}
  /\ MaxLegacy \in Nat

VARIABLES
  status,   \* status of the event
  deleted,  \* its is_deleted
  cap,      \* its max_participants
  rsvp,     \* status of each user's live participant row, "none" without one
  count,    \* going_count, interested_count, declined_count
  repair,   \* what the reconciliation script read and will write
  legacy,   \* legacy writes so far
  changed,  \* users who ever changed their RSVP (history)
  recorded  \* users whose change is the payload of the outbox row

rsvpVars == <<status, deleted, cap, rsvp, count, repair, legacy, changed, recorded>>

Statuses == {"draft", "published", "cancelled", "completed"}
Counted == {"going", "interested", "declined"}
Answers == Counted \cup {"invited"}
NoRepair == [s \in Counted |-> -1]

Rows(s) == {u \in Users : rsvp[u] = s}
Actual == [s \in Counted |-> Cardinality(Rows(s))]

RsvpTypeOK ==
  /\ status \in Statuses
  /\ deleted \in BOOLEAN
  /\ cap \in Caps
  /\ rsvp \in [Users -> Answers \cup {"none"}]
  /\ count \in [Counted -> Nat]
  /\ repair \in [Counted -> Nat] \cup {NoRepair}
  /\ legacy \in 0..MaxLegacy
  /\ changed \subseteq Users
  /\ recorded \subseteq Users

(* createEvent, in one transaction: the creator is going. *)
RsvpInit ==
  /\ status \in {"draft", "published"}
  /\ deleted = FALSE
  /\ cap \in Caps
  /\ rsvp = [u \in Users |-> IF u = Creator THEN "going" ELSE "none"]
  /\ count = [s \in Counted |-> IF s = "going" THEN 1 ELSE 0]
  /\ repair = NoRepair /\ legacy = 0
  /\ changed = {} /\ recorded = {}

-----------------------------------------------------------------------------
(* updateEvent, cancelEvent and softDeleteEvent.  They take no lock, but
   Sequelize saves only the columns they change, so a stale read of the
   others does no harm. *)

UpdateEvent(s, m) ==
  /\ ~deleted
  /\ status' = s /\ cap' = m
  /\ UNCHANGED <<deleted, rsvp, count, repair, legacy, changed, recorded>>

CancelEvent ==
  /\ ~deleted
  /\ status' = "cancelled"
  /\ UNCHANGED <<deleted, cap, rsvp, count, repair, legacy, changed, recorded>>

DeleteEvent ==
  /\ ~deleted
  /\ deleted' = TRUE
  /\ UNCHANGED <<status, cap, rsvp, count, repair, legacy, changed, recorded>>

-----------------------------------------------------------------------------
(* setEventRsvp and cancelEventRsvp.                                       *)

(* Math.max(0, n) *)
Clamp(n) == IF n < 0 THEN 0 ELSE n

(* Variant: the new answer is not counted, and nothing clamped. *)
SubtractOnly(old, new) ==
  [s \in Counted |-> count[s] - (IF old = s THEN 1 ELSE 0)]

(* The counters after a user goes from one answer to another. *)
Moved(old, new) ==
  [s \in Counted |-> Clamp(count[s] + (IF new = s THEN 1 ELSE 0)
                                    - (IF old = s THEN 1 ELSE 0))]

(* Variant: the answer itself takes no seat. *)
CountedRoom(old, new) == new = "going" /\ cap > 0 => count["going"] <= cap

(* Nobody starts going once max_participants are; another answer is free. *)
Room(old, new) ==
  new = "going" /\ cap > 0 =>
    count["going"] + 1 - (IF old = "going" THEN 1 ELSE 0) <= cap

(* Variant: drafts and completed events may be answered. *)
NotCancelled == ~deleted /\ status # "cancelled"

(* Events one may answer: canRsvpEvent and the checks before it. *)
Open == ~deleted /\ status = "published"

(* createOutboxEvent inside the transaction: a row for (event.rsvp_changed,
   event, id) that is already there is returned as it is. *)
RecordChange(u) ==
  /\ changed' = changed \cup {u}
  /\ recorded' = IF recorded = {} THEN {u} ELSE recorded

SetRsvp(u, new) ==
  /\ Open /\ u \in Allowed
  /\ rsvp[u] # new
  /\ Room(rsvp[u], new)
  /\ rsvp' = [rsvp EXCEPT ![u] = new]
  /\ count' = Moved(rsvp[u], new)
  /\ RecordChange(u)
  /\ UNCHANGED <<status, deleted, cap, repair, legacy>>

(* Whatever the status of the event, as long as it is not deleted. *)
CancelRsvp(u) ==
  /\ ~deleted /\ rsvp[u] # "none"
  /\ rsvp' = [rsvp EXCEPT ![u] = "none"]
  /\ count' = Moved(rsvp[u], "none")
  /\ RecordChange(u)
  /\ UNCHANGED <<status, deleted, cap, repair, legacy>>

-----------------------------------------------------------------------------
(* The legacy endpoints: the row changes, the event does not.              *)

LegacyUpdate(u, new) ==
  /\ legacy < MaxLegacy /\ rsvp[u] # "none"
  /\ legacy' = legacy + 1
  /\ rsvp' = [rsvp EXCEPT ![u] = new]
  /\ UNCHANGED <<status, deleted, cap, count, repair, changed, recorded>>

LegacyDelete(u) ==
  /\ legacy < MaxLegacy /\ rsvp[u] # "none"
  /\ legacy' = legacy + 1
  /\ rsvp' = [rsvp EXCEPT ![u] = "none"]
  /\ UNCHANGED <<status, deleted, cap, count, repair, changed, recorded>>

-----------------------------------------------------------------------------
(* reconcileEventCounters: one query compares, a later statement writes.   *)

(* Variant: every event is repaired, drifted or not. *)
ReconcileAlways ==
  /\ ~deleted /\ repair = NoRepair
  /\ repair' = Actual
  /\ UNCHANGED <<status, deleted, cap, rsvp, count, legacy, changed, recorded>>

ReconcileRead ==
  /\ ~deleted /\ repair = NoRepair
  /\ count # Actual
  /\ repair' = Actual
  /\ UNCHANGED <<status, deleted, cap, rsvp, count, legacy, changed, recorded>>

(* Variant: two of the counters are left as they are. *)
RepairGoingOnly ==
  /\ repair # NoRepair
  /\ count' = [count EXCEPT !["going"] = repair["going"]]
  /\ repair' = NoRepair
  /\ UNCHANGED <<status, deleted, cap, rsvp, legacy, changed, recorded>>

ReconcileWrite ==
  /\ repair # NoRepair
  /\ count' = repair
  /\ repair' = NoRepair
  /\ UNCHANGED <<status, deleted, cap, rsvp, legacy, changed, recorded>>

-----------------------------------------------------------------------------
RsvpNext ==
  \/ \E s \in Statuses, m \in Caps : UpdateEvent(s, m)
  \/ CancelEvent \/ DeleteEvent
  \/ \E u \in Users, a \in Answers : SetRsvp(u, a) \/ LegacyUpdate(u, a)
  \/ \E u \in Users : CancelRsvp(u) \/ LegacyDelete(u)
  \/ ReconcileRead \/ ReconcileWrite

RsvpSpec == RsvpInit /\ [][RsvpNext]_rsvpVars

(* Somebody keeps running the reconciliation script. *)
RepairedRsvpSpec == RsvpSpec /\ WF_rsvpVars(ReconcileRead) /\ WF_rsvpVars(ReconcileWrite)

-----------------------------------------------------------------------------
(* The three counters of the event are the numbers of live participant rows:
   no sequence of answers, cancellations and repairs lets them drift. *)
CountersExact == count = Actual

(* A step after which more people are going leaves them within
   max_participants, even when the organiser changes the limit meanwhile. *)
NoOverbooking ==
  [][Cardinality(Rows("going")') > Cardinality(Rows("going")) /\ cap' > 0
       => Cardinality(Rows("going")') <= cap']_rsvpVars

(* Nobody newly answers an event that is not published: an answer in flight
   never lands after the cancellation. *)
ClosedToAnswers ==
  [][(\E u \in Users : rsvp'[u] # rsvp[u] /\ rsvp'[u] # "none")
       => status = "published" /\ ~deleted]_rsvpVars

(* Whatever the legacy endpoints and unlucky repairs did to the counters, once
   the answers stop the script makes them exact, and they stay so. *)
RepairedWhenQuiet ==
  <>[][UNCHANGED rsvp]_rsvpVars => <>[](CountersExact \/ deleted)

-----------------------------------------------------------------------------
(* What the code says and does not keep.                                   *)

(* event_participant.service.js, step 8: "Generate Outbox Event atomically
   inside transaction".  So every user's change has an outbox row. *)
EveryChangeRecorded == changed \subseteq recorded

(* counterReconciliation.worker.js: "Detects and repairs counter drift".  So
   the counters agree with the rows when it has written them. *)
RepairRepairs == [][repair # NoRepair /\ repair' = NoRepair => count' = Actual']_rsvpVars
=============================================================================
