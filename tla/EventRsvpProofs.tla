--------------------------- MODULE EventRsvpProofs ---------------------------
(***************************************************************************)
(* Proofs about the RSVP model, for every finite set of users and every    *)
(* choice of limits.                                                       *)
(***************************************************************************)
EXTENDS EventRsvp, FiniteSetTheorems, TLAPS

(* How one answer moves the number of rows with a given status. *)
LEMMA RowsMove ==
  ASSUME NEW u \in Users, NEW new, NEW s,
         rsvp \in [Users -> Answers \cup {"none"}],
         rsvp' = [rsvp EXCEPT ![u] = new], rsvp[u] # new
  PROVE  /\ Cardinality(Rows(s)) \in Nat
         /\ Cardinality(Rows(s)') \in Nat
         /\ Cardinality(Rows(s)') = Cardinality(Rows(s)) + (IF new = s THEN 1 ELSE 0)
                                                     - (IF rsvp[u] = s THEN 1 ELSE 0)
<1>1. IsFiniteSet(Rows(s)) /\ Cardinality(Rows(s)) \in Nat
  <2>1. Rows(s) \subseteq Users
    BY DEF Rows
  <2> QED
    BY <2>1, RsvpAssumption, FS_Subset, FS_CardinalityType
<1>2. CASE new = s
  <2>1. Rows(s)' = Rows(s) \cup {u} /\ u \notin Rows(s)
    BY <1>2 DEF Rows
  <2>2. Cardinality(Rows(s)') = Cardinality(Rows(s)) + 1
    BY <1>1, <2>1, FS_AddElement
  <2> QED
    BY <1>1, <1>2, <2>2
<1>3. CASE rsvp[u] = s
  <2>1. Rows(s)' = Rows(s) \ {u} /\ u \in Rows(s)
    BY <1>3 DEF Rows
  <2>2. Cardinality(Rows(s)) # 0
    BY <1>1, <2>1, FS_EmptySet
  <2>3. Cardinality(Rows(s)') = Cardinality(Rows(s)) - 1
    BY <1>1, <2>1, FS_RemoveElement
  <2>4. new # s
    BY <1>3
  <2> QED
    BY <1>1, <1>3, <2>2, <2>3, <2>4
<1>4. CASE new # s /\ rsvp[u] # s
  <2>1. Rows(s)' = Rows(s)
    BY <1>4 DEF Rows
  <2> QED
    BY <1>1, <1>4, <2>1
<1> QED
  BY <1>2, <1>3, <1>4

LEMMA ActualType == Actual \in [Counted -> Nat]
<1>1. ASSUME NEW s PROVE Cardinality(Rows(s)) \in Nat
  <2>1. Rows(s) \subseteq Users
    BY DEF Rows
  <2> QED
    BY <2>1, RsvpAssumption, FS_Subset, FS_CardinalityType
<1> QED
  BY <1>1 DEF Actual

-----------------------------------------------------------------------------
(* Every reachable state is well typed, with legacy writes and repairs too:
   the clamp keeps the counters natural numbers whatever they drifted to. *)
THEOREM RsvpTypeCorrect == RsvpSpec => []RsvpTypeOK
<1> USE RsvpAssumption DEF RsvpTypeOK, Statuses, Counted, Answers
<1>1. ASSUME RsvpInit PROVE RsvpTypeOK
  <2>1. count \in [Counted -> Nat]
    BY <1>1 DEF RsvpInit
  <2>2. rsvp \in [Users -> Answers \cup {"none"}]
    BY <1>1 DEF RsvpInit
  <2>3. changed \subseteq Users /\ recorded \subseteq Users
    BY <1>1 DEF RsvpInit
  <2>4. status \in Statuses /\ deleted \in BOOLEAN /\ cap \in Caps
    BY <1>1 DEF RsvpInit
  <2>5. repair \in [Counted -> Nat] \cup {NoRepair} /\ legacy \in 0..MaxLegacy
    BY <1>1 DEF RsvpInit
  <2> QED
    BY <2>1, <2>2, <2>3, <2>4, <2>5
<1>2. RsvpTypeOK /\ [RsvpNext]_rsvpVars => RsvpTypeOK'
  <2> SUFFICES ASSUME RsvpTypeOK, [RsvpNext]_rsvpVars PROVE RsvpTypeOK'
    OBVIOUS
  <2>1. ASSUME NEW old, NEW new PROVE Moved(old, new) \in [Counted -> Nat]
    BY DEF Moved, Clamp
  <2>2. ASSUME NEW s \in Statuses, NEW m \in Caps, UpdateEvent(s, m) PROVE RsvpTypeOK'
    BY <2>2 DEF UpdateEvent
  <2>3. CASE CancelEvent \/ DeleteEvent
    BY <2>3 DEF CancelEvent, DeleteEvent
  <2>4. ASSUME NEW u \in Users, NEW a \in Answers, SetRsvp(u, a) PROVE RsvpTypeOK'
    BY <2>1, <2>4 DEF SetRsvp, RecordChange
  <2>5. ASSUME NEW u \in Users, NEW a \in Answers, LegacyUpdate(u, a) PROVE RsvpTypeOK'
    BY <2>5 DEF LegacyUpdate
  <2>6. ASSUME NEW u \in Users, CancelRsvp(u) PROVE RsvpTypeOK'
    BY <2>1, <2>6 DEF CancelRsvp, RecordChange
  <2>7. ASSUME NEW u \in Users, LegacyDelete(u) PROVE RsvpTypeOK'
    BY <2>7 DEF LegacyDelete
  <2>8. CASE ReconcileRead
    BY <2>8, ActualType DEF ReconcileRead
  <2>9. CASE ReconcileWrite
    BY <2>9 DEF ReconcileWrite
  <2>10. CASE UNCHANGED rsvpVars
    BY <2>10 DEF rsvpVars
  <2> QED
    BY <2>2, <2>3, <2>4, <2>5, <2>6, <2>7, <2>8, <2>9, <2>10 DEF RsvpNext
<1> QED
  BY <1>1, <1>2, PTL DEF RsvpSpec

-----------------------------------------------------------------------------
(* Without the legacy endpoints.  The counters are exact, so the script has
   nothing to repair; the one fact needs the other. *)
ExactInv == CountersExact /\ repair = NoRepair

(* An answer keeps exact counters exact: the clamp never takes effect. *)
LEMMA MoveKeepsExact ==
  ASSUME RsvpTypeOK, CountersExact, NEW u \in Users, NEW new,
         rsvp' = [rsvp EXCEPT ![u] = new], rsvp[u] # new, count' = Moved(rsvp[u], new)
  PROVE  CountersExact'
<1>1. ASSUME NEW s \in Counted PROVE Moved(rsvp[u], new)[s] = Cardinality(Rows(s)')
  <2>1. count[s] = Cardinality(Rows(s))
    BY DEF CountersExact, Actual
  <2>2. /\ Cardinality(Rows(s)) \in Nat /\ Cardinality(Rows(s)') \in Nat
        /\ Cardinality(Rows(s)') = Cardinality(Rows(s)) + (IF new = s THEN 1 ELSE 0)
                                                     - (IF rsvp[u] = s THEN 1 ELSE 0)
    BY RowsMove DEF RsvpTypeOK
  <2> QED
    BY <2>1, <2>2 DEF Moved, Clamp
<1>2. Moved(rsvp[u], new) = [s \in Counted |-> Moved(rsvp[u], new)[s]]
  BY DEF Moved
<1>3. Actual' = [s \in Counted |-> Cardinality(Rows(s)')]
  BY DEF Actual
<1> QED
  BY <1>1, <1>2, <1>3 DEF CountersExact

LEMMA InitExact == RsvpInit => ExactInv
<1> SUFFICES ASSUME RsvpInit PROVE count = Actual
  BY DEF ExactInv, CountersExact, RsvpInit
<1>1. Rows("going") = {Creator} /\ Rows("interested") = {} /\ Rows("declined") = {}
  BY RsvpAssumption DEF RsvpInit, Rows
<1>2. Cardinality({Creator}) = 1 /\ Cardinality({}) = 0
  BY FS_Singleton, FS_EmptySet
<1> QED
  BY <1>1, <1>2 DEF RsvpInit, Actual, Counted

LEMMA NextExact ==
  ASSUME MaxLegacy = 0
  PROVE  RsvpTypeOK /\ ExactInv /\ [RsvpNext]_rsvpVars => ExactInv'
<1> SUFFICES ASSUME RsvpTypeOK, ExactInv, [RsvpNext]_rsvpVars PROVE ExactInv'
  OBVIOUS
<1> USE DEF ExactInv
<1>1. ASSUME UNCHANGED <<rsvp, count, repair>> PROVE ExactInv'
  BY <1>1 DEF CountersExact, Actual, Rows
<1>2. ASSUME NEW s \in Statuses, NEW m \in Caps, UpdateEvent(s, m) PROVE ExactInv'
  BY <1>1, <1>2 DEF UpdateEvent
<1>3. CASE CancelEvent \/ DeleteEvent
  BY <1>1, <1>3 DEF CancelEvent, DeleteEvent
<1>4. ASSUME NEW u \in Users, NEW a \in Answers, SetRsvp(u, a) PROVE ExactInv'
  BY <1>4, MoveKeepsExact DEF SetRsvp
<1>5. ASSUME NEW u \in Users, CancelRsvp(u) PROVE ExactInv'
  BY <1>5, MoveKeepsExact DEF CancelRsvp
<1>6. ASSUME NEW u \in Users, NEW a \in Answers, LegacyUpdate(u, a) \/ LegacyDelete(u)
      PROVE ExactInv'
  BY <1>6 DEF LegacyUpdate, LegacyDelete, RsvpTypeOK
<1>7. CASE ReconcileRead \/ ReconcileWrite
  BY <1>7 DEF ReconcileRead, ReconcileWrite, CountersExact
<1>8. CASE UNCHANGED rsvpVars
  BY <1>1, <1>8 DEF rsvpVars
<1>9. ASSUME NEW u \in Users, LegacyDelete(u) PROVE ExactInv'
  BY <1>9 DEF LegacyDelete, RsvpTypeOK
<1> QED
  BY <1>2, <1>3, <1>4, <1>5, <1>6, <1>7, <1>8, <1>9 DEF RsvpNext

LEMMA ExactInvariance ==
  ASSUME MaxLegacy = 0 PROVE RsvpSpec => [](RsvpTypeOK /\ ExactInv)
  BY InitExact, NextExact, RsvpTypeCorrect, PTL DEF RsvpSpec

(* going_count, interested_count and declined_count are the numbers of live
   rows after any interleaving of answers, cancellations, updates of the
   event and runs of the reconciliation script. *)
THEOREM CountersAreExact == ASSUME MaxLegacy = 0 PROVE RsvpSpec => []CountersExact
<1>1. ExactInv => CountersExact
  BY DEF ExactInv
<1> QED
  BY <1>1, ExactInvariance, PTL

(* max_participants is respected: because the counter the check reads is
   exact, a step that adds a participant leaves room for all of them. *)
THEOREM NeverOverbooked == ASSUME MaxLegacy = 0 PROVE RsvpSpec => NoOverbooking
<1>1. ASSUME RsvpTypeOK, ExactInv, [RsvpNext]_rsvpVars,
             Cardinality(Rows("going")') > Cardinality(Rows("going")), cap' > 0
      PROVE  Cardinality(Rows("going")') <= cap'
  <2>1. ASSUME UNCHANGED rsvp PROVE FALSE
    <3>1. Rows("going")' = Rows("going")
      BY <2>1 DEF Rows
    <3>2. Cardinality(Rows("going")) \in Nat
      BY ActualType DEF Actual, Counted
    <3> QED
      BY <1>1, <3>1, <3>2
  <2>2. ASSUME NEW u \in Users, NEW a \in Answers, SetRsvp(u, a)
        PROVE Cardinality(Rows("going")') <= cap'
    <3>1. /\ Cardinality(Rows("going")) \in Nat
          /\ Cardinality(Rows("going")') = Cardinality(Rows("going"))
               + (IF a = "going" THEN 1 ELSE 0) - (IF rsvp[u] = "going" THEN 1 ELSE 0)
      BY <1>1, <2>2, RowsMove DEF SetRsvp, RsvpTypeOK
    <3>2. a = "going" /\ rsvp[u] # "going"
      BY <1>1, <2>2, <3>1 DEF SetRsvp
    <3>3. count["going"] = Cardinality(Rows("going")) /\ cap' = cap
      BY <1>1, <2>2 DEF ExactInv, CountersExact, Actual, Counted, SetRsvp
    <3>4. cap \in Nat
      BY <1>1, RsvpAssumption DEF RsvpTypeOK
    <3> QED
      BY <1>1, <2>2, <3>1, <3>2, <3>3, <3>4 DEF SetRsvp, Room
  <2>3. ASSUME NEW u \in Users, CancelRsvp(u) PROVE FALSE
    <3>1. /\ Cardinality(Rows("going")) \in Nat
          /\ Cardinality(Rows("going")') = Cardinality(Rows("going"))
               + (IF "none" = "going" THEN 1 ELSE 0) - (IF rsvp[u] = "going" THEN 1 ELSE 0)
      BY <1>1, <2>3, RowsMove DEF CancelRsvp, RsvpTypeOK
    <3> QED
      BY <1>1, <3>1
  <2> QED
    BY <1>1, <2>1, <2>2, <2>3 DEF RsvpNext, UpdateEvent, CancelEvent, DeleteEvent,
       LegacyUpdate, LegacyDelete, ReconcileRead, ReconcileWrite, rsvpVars, RsvpTypeOK
<1>2. RsvpTypeOK /\ ExactInv /\ [RsvpNext]_rsvpVars
        => [Cardinality(Rows("going")') > Cardinality(Rows("going")) /\ cap' > 0
              => Cardinality(Rows("going")') <= cap']_rsvpVars
  BY <1>1
<1> QED
  BY <1>2, ExactInvariance, PTL DEF RsvpSpec, NoOverbooking

(* No answer lands on an event that is cancelled, completed, a draft or
   deleted. *)
THEOREM AnswersNeedAnOpenEvent == ASSUME MaxLegacy = 0 PROVE RsvpSpec => ClosedToAnswers
<1>1. RsvpTypeOK /\ [RsvpNext]_rsvpVars
        => [(\E u \in Users : rsvp'[u] # rsvp[u] /\ rsvp'[u] # "none")
              => status = "published" /\ ~deleted]_rsvpVars
  BY DEF RsvpTypeOK, RsvpNext, UpdateEvent, CancelEvent, DeleteEvent, SetRsvp, CancelRsvp, Open,
         LegacyUpdate, LegacyDelete, ReconcileRead, ReconcileWrite, rsvpVars
<1> QED
  BY <1>1, RsvpTypeCorrect, PTL DEF RsvpSpec, ClosedToAnswers
=============================================================================
