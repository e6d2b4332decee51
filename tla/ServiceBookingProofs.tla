------------------------- MODULE ServiceBookingProofs -------------------------
(***************************************************************************)
(* Proofs about the bookings of a provider, for any number of bookings,    *)
(* concurrent requests and start times, any occupancy and any capacity.    *)
(***************************************************************************)
EXTENDS ServiceBooking, FiniteSetTheorems, TLAPS

(* A request knows a booking that exists, and only "schedule" touches other
   columns than the status. *)
RequestSane(q) ==
  /\ status[q.booking] # "none"
  /\ q.next # "scheduled" => q.save \subseteq {"status"} /\ q.step # "check"

KnownBookings == \A r \in Requests : Running(r) => RequestSane(req[r])

-----------------------------------------------------------------------------
(* Every reachable state is well typed: no status but those of the lifecycle
   is ever stored, and no request runs for a booking that does not exist. *)
LEMMA TypeInit == BookingInit => BookingTypeOK /\ KnownBookings
  BY BookingAssumption DEF BookingInit, BookingTypeOK, KnownBookings, Running, Times, NoReq

LEMMA TypeStep ==
  ASSUME BookingTypeOK, KnownBookings, [BookingNext]_bookingVars
  PROVE  BookingTypeOK' /\ KnownBookings'
<1> USE BookingAssumption DEF BookingTypeOK, KnownBookings, RequestSane, Running, NoReq
<1>1. ASSUME NEW b \in Bookings, NEW t \in Times, CreateBooking(b, t)
      PROVE  BookingTypeOK' /\ KnownBookings'
  BY <1>1 DEF CreateBooking, BookingStatuses, Live, Times
<1>2. ASSUME NEW b \in Bookings, DeleteBooking(b) PROVE BookingTypeOK' /\ KnownBookings'
  BY <1>2 DEF DeleteBooking
<1>3. ASSUME NEW r \in Requests, NEW b \in Bookings, NEW n \in Targets, NEW a \in BOOLEAN,
             ReadBooking(r, b, n, a)
      PROVE  BookingTypeOK' /\ KnownBookings'
  <2> DEFINE q == [step |-> "update", booking |-> b, next |-> n, admin |-> a,
                   at |-> 0, slot |-> 0, save |-> StatusColumn(b, n)]
  <2>1. q \in ReqType
    BY DEF ReqType, StatusColumn, Columns, Times
  <2>2. StatusColumn(b, n) \subseteq {"status"}
    BY DEF StatusColumn
  <2> QED
    BY <1>3, <2>1, <2>2 DEF ReadBooking, rowVars
<1>4. ASSUME NEW r \in Requests, NEW b \in Bookings, NEW t \in Times, NEW d \in BOOLEAN,
             ReadForSchedule(r, b, t, d)
      PROVE  BookingTypeOK' /\ KnownBookings'
  <2> DEFINE q == [step |-> "check", booking |-> b, next |-> "scheduled", admin |-> FALSE,
                   at |-> IF d THEN t ELSE at[b], slot |-> t,
                   save |-> StatusColumn(b, "scheduled")
                              \cup {c \in {"at"} : d /\ at[b] # t}
                              \cup {c \in {"slot"} : slot[b] # t}
                              \cup {c \in {"until"} : until[b] # t + Occupancy}]
  <2>1. q \in ReqType
    BY DEF ReqType, StatusColumn, Columns, Targets
  <2> QED
    BY <1>4, <2>1 DEF ReadForSchedule, rowVars
<1>5. ASSUME NEW r \in Requests, CheckSlot(r) PROVE BookingTypeOK' /\ KnownBookings'
  BY <1>5 DEF CheckSlot, Forget, Step, rowVars, ReqType
<1>6. ASSUME NEW r \in Requests, UpdateBooking(r) PROVE BookingTypeOK' /\ KnownBookings'
  <2>1. req[r] \in ReqType
    BY <1>6 DEF UpdateBooking
  <2>2. /\ status' \in [Bookings -> BookingStatuses \cup {"none"}]
        /\ \A b \in Bookings : status[b] # "none" => status'[b] # "none"
    BY <1>6, <2>1 DEF UpdateBooking, Saved, ReqType, BookingStatuses, Targets
  <2>3. at' \in [Bookings -> Times] /\ slot' \in [Bookings -> Times]
    BY <1>6, <2>1 DEF UpdateBooking, Saved, ReqType
  <2>4. until' \in [Bookings -> Nat]
    BY <1>6, <2>1 DEF UpdateBooking, Saved, ReqType, Times
  <2>5. pin' \in [Bookings -> BOOLEAN]
    BY <1>6, <2>1 DEF UpdateBooking, ReqType
  <2>6. req' \in [Requests -> ReqType \cup {NoReq}]
    BY <1>6, <2>1 DEF UpdateBooking, Step, ReqType
  <2>7. KnownBookings'
    BY <1>6, <2>1, <2>2 DEF UpdateBooking, Step, ReqType
  <2> QED
    BY <1>6, <2>2, <2>3, <2>4, <2>5, <2>6, <2>7 DEF UpdateBooking
<1>7. ASSUME NEW r \in Requests, CountJob(r) PROVE BookingTypeOK' /\ KnownBookings'
  BY <1>7 DEF CountJob, Step, rowVars, ReqType
<1>8. ASSUME NEW r \in Requests, AppendTimeline(r) PROVE BookingTypeOK' /\ KnownBookings'
  BY <1>8 DEF AppendTimeline, Forget, rowVars, ReqType, BookingStatuses, Targets
<1>9. ASSUME NEW r \in Requests, Abort(r) PROVE BookingTypeOK' /\ KnownBookings'
  BY <1>9 DEF Abort, Forget, rowVars
<1>10. CASE UNCHANGED bookingVars
  BY <1>10 DEF bookingVars, rowVars
<1> QED
  BY <1>1, <1>2, <1>3, <1>4, <1>5, <1>6, <1>7, <1>8, <1>9, <1>10 DEF BookingNext

THEOREM BookingTypeCorrect == BookingSpec => []BookingTypeOK
<1>1. BookingSpec => [](BookingTypeOK /\ KnownBookings)
  BY TypeInit, TypeStep, PTL DEF BookingSpec
<1> QED
  BY <1>1, PTL

-----------------------------------------------------------------------------
(* A reschedule saves all of scheduled_at, time_slot and occupied_until, or
   none of them: what it read was itself aligned. *)
Aligned(q) ==
  q.next = "scheduled" =>
    /\ q.at = q.slot
    /\ "at" \in q.save <=> "until" \in q.save
    /\ "slot" \in q.save <=> "until" \in q.save

WholeInv == WholeReschedule /\ \A r \in Requests : Running(r) => Aligned(req[r])

LEMMA WholeInit == BookingInit => WholeInv
  BY DEF BookingInit, WholeInv, WholeReschedule, Running, NoReq

LEMMA WholeStep ==
  ASSUME ~SlotOnly, BookingTypeOK, KnownBookings, WholeInv, [BookingNext]_bookingVars
  PROVE  WholeInv'
<1> USE DEF WholeInv, WholeReschedule, Running, NoReq
<1> USE DEF BookingTypeOK, Aligned
<1>1. ASSUME NEW b \in Bookings, NEW t \in Times, CreateBooking(b, t) PROVE WholeInv'
  BY <1>1 DEF CreateBooking
<1>2. ASSUME NEW b \in Bookings, DeleteBooking(b) PROVE WholeInv'
  BY <1>2 DEF DeleteBooking
<1>3. ASSUME NEW r \in Requests, NEW b \in Bookings, NEW n \in Targets, NEW a \in BOOLEAN,
             ReadBooking(r, b, n, a)
      PROVE  WholeInv'
  BY <1>3 DEF ReadBooking, rowVars
<1>4. ASSUME NEW r \in Requests, NEW b \in Bookings, NEW t \in Times, NEW d \in BOOLEAN,
             ReadForSchedule(r, b, t, d)
      PROVE  WholeInv'
  <2>1. d /\ at[b] = slot[b] /\ until[b] = slot[b] + Occupancy
    BY <1>4 DEF ReadForSchedule
  <2>2. slot[b] \in Int /\ t \in Int /\ Occupancy \in Int
    BY BookingAssumption DEF Times
  <2>3. until[b] # t + Occupancy <=> slot[b] # t
    BY <2>1, <2>2
  <2>4. Aligned(req'[r])
    BY <1>4, <2>1, <2>3 DEF ReadForSchedule, StatusColumn
  <2> QED
    BY <1>4, <2>4 DEF ReadForSchedule, rowVars
<1>5. ASSUME NEW r \in Requests, CheckSlot(r) PROVE WholeInv'
  BY <1>5 DEF CheckSlot, Forget, Step, rowVars, ReqType
<1>6. ASSUME NEW r \in Requests, UpdateBooking(r) PROVE WholeInv'
  <2> DEFINE q == req[r]
  <2>1. q \in ReqType /\ Aligned(q) /\ RequestSane(q)
    BY <1>6 DEF UpdateBooking, KnownBookings
  <2>2. WholeReschedule'
    <3>1. CASE q.next = "scheduled" /\ "until" \in q.save
      BY <1>6, <2>1, <3>1 DEF UpdateBooking, Saved, ReqType, RequestSane
    <3>2. CASE "until" \notin q.save
      BY <1>6, <2>1, <3>2 DEF UpdateBooking, Saved, ReqType, RequestSane
    <3> QED
      BY <2>1, <3>1, <3>2 DEF RequestSane
  <2>3. \A s \in Requests : Running(s)' => Aligned(req[s])'
    BY <1>6, <2>1 DEF UpdateBooking, Step, ReqType
  <2> QED
    BY <2>2, <2>3
<1>7. ASSUME NEW r \in Requests, CountJob(r) PROVE WholeInv'
  BY <1>7 DEF CountJob, Step, rowVars, ReqType
<1>8. ASSUME NEW r \in Requests, AppendTimeline(r) \/ Abort(r) PROVE WholeInv'
  BY <1>8 DEF AppendTimeline, Abort, Forget, rowVars
<1>9. CASE UNCHANGED bookingVars
  BY <1>9 DEF bookingVars, rowVars
<1> QED
  BY <1>1, <1>2, <1>3, <1>4, <1>5, <1>6, <1>7, <1>8, <1>9 DEF BookingNext

(* Clients that always send scheduled_at keep the stored interval and the
   agreed slot together, however their requests overlap. *)
THEOREM IntervalIsTheSlot == ASSUME ~SlotOnly PROVE BookingSpec => []WholeReschedule
<1>1. BookingTypeOK /\ KnownBookings /\ WholeInv /\ [BookingNext]_bookingVars => WholeInv'
  BY WholeStep
<1>2. BookingTypeOK /\ KnownBookings /\ [BookingNext]_bookingVars
        => BookingTypeOK' /\ KnownBookings'
  BY TypeStep
<1>3. WholeInv => WholeReschedule
  BY DEF WholeInv
<1> QED
  BY TypeInit, WholeInit, <1>1, <1>2, <1>3, PTL DEF BookingSpec

-----------------------------------------------------------------------------
(* Requests that do not overlap: no two on one booking, no two reschedules. *)
Alone ==
  \A r, s \in Requests : Running(r) /\ Running(s) /\ r # s =>
    /\ req[r].booking # req[s].booking
    /\ req[r].next # "scheduled" \/ req[s].next # "scheduled"

(* Then what a request read is still so when it saves ... *)
Fresh(q) ==
  q.step \in {"check", "update"} =>
    IF q.next = "scheduled"
      THEN "slot" \in q.save \/ slot[q.booking] = q.slot
      ELSE q.next \in Live => status[q.booking] \in Live

(* ... and the room a reschedule found is still there. *)
Room(q) ==
  q.next = "scheduled" /\ q.step = "update" =>
    Cardinality(Conflicts(q.at, q.slot) \ {q.booking}) < Capacity

SlotInv ==
  /\ Alone
  /\ \A r \in Requests : Running(r) => Fresh(req[r]) /\ Room(req[r])
  /\ NoDoubleBooking

LEMMA CapacityType == Capacity \in Nat \ {0}
  BY BookingAssumption DEF Capacity

LEMMA SmallSets ==
  ASSUME NEW S \in SUBSET Bookings, NEW T \in SUBSET S
  PROVE  IsFiniteSet(S) /\ Cardinality(S) \in Nat /\ Cardinality(T) \in Nat
         /\ Cardinality(T) <= Cardinality(S)
  BY BookingAssumption, FS_Subset, FS_CardinalityType

(* A step after which no booking newly claims time. *)
NoNewClaim ==
  \A b \in Bookings : Active(b)' =>
    Active(b) /\ at'[b] = at[b] /\ slot'[b] = slot[b] /\ until'[b] = until[b]

LEMMA ClaimsShrink ==
  ASSUME NoNewClaim
  PROVE  /\ \A t : Busy(t)' \subseteq Busy(t)
         /\ \A d, t : Conflicts(d, t)' \subseteq Conflicts(d, t)
  BY DEF NoNewClaim, Busy, Conflicts, Overlaps

LEMMA NoNewClaimKeepsRoom ==
  ASSUME NoNewClaim
  PROVE  /\ NoDoubleBooking => NoDoubleBooking'
         /\ \A d, t, b : Cardinality(Conflicts(d, t) \ {b}) < Capacity
                           => Cardinality((Conflicts(d, t) \ {b})') < Capacity
<1> USE CapacityType
<1>1. ASSUME NEW t PROVE Cardinality(Busy(t)') <= Cardinality(Busy(t)) /\ Cardinality(Busy(t)') \in Nat
                         /\ Cardinality(Busy(t)) \in Nat
  <2>1. Busy(t) \in SUBSET Bookings
    BY DEF Busy
  <2> QED
    BY <2>1, ClaimsShrink, SmallSets
<1>2. ASSUME NEW d, NEW t, NEW b
      PROVE  /\ Cardinality((Conflicts(d, t) \ {b})') <= Cardinality(Conflicts(d, t) \ {b})
             /\ Cardinality((Conflicts(d, t) \ {b})') \in Nat
             /\ Cardinality(Conflicts(d, t) \ {b}) \in Nat
  <2>1. Conflicts(d, t) \ {b} \in SUBSET Bookings
    BY DEF Conflicts
  <2>2. (Conflicts(d, t) \ {b})' \subseteq Conflicts(d, t) \ {b}
    BY ClaimsShrink
  <2> QED
    BY <2>1, <2>2, SmallSets
<1>3. Capacity' = Capacity
  BY DEF Capacity
<1>4. NoDoubleBooking => NoDoubleBooking'
  BY <1>1, <1>3 DEF NoDoubleBooking
<1>5. ASSUME NEW d, NEW t, NEW b, Cardinality(Conflicts(d, t) \ {b}) < Capacity
      PROVE  Cardinality((Conflicts(d, t) \ {b})') < Capacity
  <2> DEFINE old == Cardinality(Conflicts(d, t) \ {b})
             new == Cardinality((Conflicts(d, t) \ {b})')
  <2>1. new <= old /\ new \in Nat /\ old \in Nat
    BY <1>2
  <2>2. old < Capacity
    BY <1>5
  <2>3. Capacity \in Nat
    OBVIOUS
  <2> HIDE DEF old, new
  <2>4. new < Capacity
    BY <2>1, <2>2, <2>3
  <2> QED
    BY <2>4 DEF new
<1> QED
  BY <1>4, <1>5

(* One booking claims a slot that has room: nobody is double booked. *)
LEMMA OneClaim ==
  ASSUME NEW b \in Bookings, NEW start \in Times, BookingTypeOK, BookingTypeOK',
         WholeReschedule,
         Cardinality(Conflicts(start, start) \ {b}) < Capacity,
         slot'[b] = start,
         \A c \in Bookings \ {b} : (Active(c)' <=> Active(c)) /\ slot'[c] = slot[c],
         \A c \in Bookings : Active(c) => status[c] # "none",
         NoDoubleBooking
  PROVE  NoDoubleBooking'
<1> USE CapacityType
<1>1. SUFFICES ASSUME NEW t \in Times PROVE Cardinality(Busy(t)') <= Capacity
  BY DEF NoDoubleBooking, Capacity
<1>2. Occupancy \in Int /\ start \in Int /\ t \in Int /\ \A c \in Bookings : slot[c] \in Int
  BY BookingAssumption DEF BookingTypeOK, Times
<1>3. CASE start <= t /\ t < start + Occupancy
  <2> DEFINE C == Conflicts(start, start) \ {b}
  <2>1. Busy(t)' \ {b} \subseteq C
    <3> SUFFICES ASSUME NEW c \in Busy(t)', c # b PROVE c \in C
      OBVIOUS
    <3>1. c \in Bookings /\ Active(c) /\ slot[c] <= t /\ t < slot[c] + Occupancy
      BY DEF Busy
    <3>2. at[c] = slot[c] /\ until[c] = slot[c] + Occupancy
      BY <3>1 DEF WholeReschedule
    <3>3. at[c] < start + Occupancy /\ until[c] > start
      BY <1>2, <1>3, <3>1, <3>2
    <3> QED
      BY <3>1, <3>3 DEF Conflicts, Overlaps
  <2>2. C \in SUBSET Bookings /\ Busy(t)' \in SUBSET Bookings
    BY DEF Conflicts, Busy
  <2>3. /\ IsFiniteSet(Busy(t)' \ {b}) /\ Cardinality(Busy(t)' \ {b}) \in Nat
        /\ Cardinality(C) \in Nat /\ Cardinality(Busy(t)' \ {b}) <= Cardinality(C)
    <3>1. IsFiniteSet(C) /\ Cardinality(C) \in Nat /\ Cardinality(Busy(t)' \ {b}) \in Nat
          /\ Cardinality(Busy(t)' \ {b}) <= Cardinality(C)
      BY <2>1, <2>2, SmallSets
    <3>2. IsFiniteSet(Busy(t)' \ {b})
      BY <2>1, <3>1, FS_Subset
    <3> QED
      BY <3>1, <3>2
  <2>4. Busy(t)' \subseteq (Busy(t)' \ {b}) \cup {b}
    OBVIOUS
  <2>5. Cardinality((Busy(t)' \ {b}) \cup {b}) = Cardinality(Busy(t)' \ {b}) + 1
    BY <2>3, FS_AddElement
  <2>6. (Busy(t)' \ {b}) \cup {b} \in SUBSET Bookings
    BY <2>2
  <2>7. Cardinality(Busy(t)') \in Nat
        /\ Cardinality(Busy(t)') <= Cardinality((Busy(t)' \ {b}) \cup {b})
    BY <2>4, <2>6, SmallSets
  <2>8. Cardinality(C) < Capacity
    OBVIOUS
  <2> HIDE DEF C
  <2> QED
    BY <2>3, <2>5, <2>7, <2>8
<1>4. CASE ~(start <= t /\ t < start + Occupancy)
  <2>1. Busy(t)' \subseteq Busy(t)
    BY <1>4 DEF Busy
  <2>2. Busy(t) \in SUBSET Bookings
    BY DEF Busy
  <2>3. Cardinality(Busy(t)') <= Cardinality(Busy(t)) /\ Cardinality(Busy(t)') \in Nat
        /\ Cardinality(Busy(t)) \in Nat
    BY <2>1, <2>2, SmallSets
  <2> QED
    BY <2>3 DEF NoDoubleBooking
<1> QED
  BY <1>3, <1>4

LEMMA SlotInit == BookingInit => SlotInv
<1> SUFFICES ASSUME BookingInit PROVE SlotInv
  OBVIOUS
<1>1. \A t \in Times : Busy(t) = {}
  BY DEF BookingInit, Busy, Active, Live
<1>2. NoDoubleBooking
  BY <1>1, FS_EmptySet, CapacityType DEF NoDoubleBooking
<1> QED
  BY <1>2 DEF BookingInit, SlotInv, Alone, Running, NoReq

(* A step that claims no time and leaves the requests alone, or ends one, or
   moves one past its update. *)
LEMMA QuietStep ==
  ASSUME SlotInv, NoNewClaim, status' = status, slot' = slot,
         NEW r \in Requests, \A s \in Requests \ {r} : req'[s] = req[s],
         \/ req'[r] = req[r] \/ req'[r] = NoReq
         \/ /\ Running(r) /\ req'[r].booking = req[r].booking /\ req'[r].next = req[r].next
            /\ req'[r].step \notin {"check", "update"}
  PROVE  SlotInv'
<1> USE DEF SlotInv, Running
<1>1. NoDoubleBooking'
  BY NoNewClaimKeepsRoom
<1>2. Alone'
  BY DEF Alone, NoReq
<1>3. ASSUME NEW s \in Requests, Running(s)' PROVE Fresh(req[s])'
  BY <1>3 DEF Fresh, NoReq
<1>4. ASSUME NEW s \in Requests, Running(s)', req'[s] = req[s] PROVE Room(req[s])'
  <2>1. Capacity' = Capacity
    BY DEF Capacity
  <2>2. Room(req[s])
    BY <1>4
  <2> QED
    BY <1>4, <2>1, <2>2, NoNewClaimKeepsRoom DEF Room
<1>5. ASSUME NEW s \in Requests, Running(s)', req'[s] # req[s] PROVE Room(req[s])'
  BY <1>5 DEF Room, NoReq
<1> QED
  BY <1>1, <1>2, <1>3, <1>4, <1>5

LEMMA SlotStep ==
  ASSUME Clash = {}, BookingTypeOK, BookingTypeOK', KnownBookings, WholeInv, SlotInv,
         [BookingNext]_bookingVars
  PROVE  SlotInv'
<1> USE CapacityType
<1>0. \A c \in Bookings : Active(c) => status[c] # "none"
  BY DEF Active, Live
<1>a. WholeReschedule /\ NoDoubleBooking /\ Alone
  BY DEF WholeInv, SlotInv
<1>b. Capacity' = Capacity
  BY DEF Capacity
<1>1. ASSUME NEW b \in Bookings, NEW t \in Times, CreateBooking(b, t) PROVE SlotInv'
  <2>1. Cardinality(Conflicts(t, t) \ {b}) < Capacity
    <3>1. Conflicts(t, t) \in SUBSET Bookings
      BY DEF Conflicts
    <3>2. Cardinality(Conflicts(t, t) \ {b}) <= Cardinality(Conflicts(t, t))
          /\ Cardinality(Conflicts(t, t) \ {b}) \in Nat /\ Cardinality(Conflicts(t, t)) \in Nat
      BY <3>1, SmallSets
    <3>3. Cardinality(Conflicts(t, t)) < Capacity
      BY <1>1 DEF CreateBooking, Bookable
    <3> QED
      BY <3>2, <3>3
  <2>2. slot'[b] = t /\ \A c \in Bookings \ {b} : (Active(c)' <=> Active(c)) /\ slot'[c] = slot[c]
    BY <1>1 DEF CreateBooking, BookingTypeOK, Active
  <2>3. NoDoubleBooking'
    BY <1>0, <1>a, <2>1, <2>2, OneClaim
  <2>4. ASSUME NEW r \in Requests, Running(r)
        PROVE  req[r].booking # b /\ req[r].next # "scheduled" /\ req[r] \in ReqType
    BY <1>1, <2>4 DEF CreateBooking, InFlight, KnownBookings, RequestSane, BookingTypeOK,
                      Running, NoReq
  <2>5. ASSUME NEW r \in Requests, Running(r)' PROVE Fresh(req[r])' /\ Room(req[r])'
    <3>1. Running(r) /\ req'[r] = req[r]
      BY <1>1, <2>5 DEF CreateBooking, Running
    <3>2. Fresh(req[r])
      BY <3>1 DEF SlotInv
    <3>3. status'[req[r].booking] = status[req[r].booking]
      BY <1>1, <2>4, <3>1 DEF CreateBooking, BookingTypeOK, ReqType
    <3> QED
      BY <2>4, <3>1, <3>2, <3>3 DEF Fresh, Room
  <2>6. Alone'
    BY <1>1, <1>a DEF CreateBooking, Alone, Running
  <2> QED
    BY <2>3, <2>5, <2>6 DEF SlotInv
<1>2. ASSUME NEW b \in Bookings, DeleteBooking(b) PROVE SlotInv'
  <2>1. NoNewClaim
    BY <1>2 DEF DeleteBooking, NoNewClaim, Active, BookingTypeOK
  <2>2. ASSUME NEW r \in Requests, Running(r)' PROVE Fresh(req[r])' /\ Room(req[r])'
    <3>1. Running(r) /\ req'[r] = req[r] /\ status' = status /\ slot' = slot
      BY <1>2, <2>2 DEF DeleteBooking, Running
    <3>2. Fresh(req[r]) /\ Room(req[r])
      BY <3>1 DEF SlotInv
    <3>3. Fresh(req[r])'
      BY <3>1, <3>2 DEF Fresh
    <3> QED
      BY <1>b, <2>1, <3>1, <3>2, <3>3, NoNewClaimKeepsRoom DEF Room
  <2>3. NoDoubleBooking'
    BY <1>a, <2>1, NoNewClaimKeepsRoom
  <2>4. Alone'
    BY <1>2, <1>a DEF DeleteBooking, Alone, Running
  <2> QED
    BY <2>2, <2>3, <2>4 DEF SlotInv
<1>3. ASSUME NEW r \in Requests, NEW b \in Bookings, NEW n \in Targets,
             ~Running(r), MayStart(r, b, n), rowVars' = rowVars,
             \A s \in Requests \ {r} : req'[s] = req[s],
             req'[r].booking = b, req'[r].next = n,
             Fresh(req'[r]), n = "scheduled" => req'[r].step = "check"
      PROVE  SlotInv'
  <2>1. NoNewClaim
    BY <1>3 DEF rowVars, NoNewClaim, Active
  <2>2. NoDoubleBooking'
    BY <1>a, <2>1, NoNewClaimKeepsRoom
  <2>3. Alone'
    BY <1>3, <1>a DEF Alone, MayStart, Running
  <2>4. ASSUME NEW s \in Requests, Running(s)' PROVE Fresh(req[s])' /\ Room(req[s])'
    <3>1. status' = status /\ slot' = slot
      BY <1>3 DEF rowVars
    <3>2. CASE s = r
      BY <1>3, <3>1, <3>2 DEF Fresh, Room
    <3>3. CASE s # r
      <4>1. Running(s) /\ req'[s] = req[s]
        BY <1>3, <2>4, <3>3 DEF Running
      <4>2. Fresh(req[s]) /\ Room(req[s])
        BY <4>1 DEF SlotInv
      <4>3. Fresh(req[s])'
        BY <3>1, <4>1, <4>2 DEF Fresh
      <4> QED
        BY <1>b, <2>1, <4>1, <4>2, <4>3, NoNewClaimKeepsRoom DEF Room
    <3> QED
      BY <3>2, <3>3
  <2> QED
    BY <2>2, <2>3, <2>4 DEF SlotInv
<1>4. ASSUME NEW r \in Requests, NEW b \in Bookings, NEW n \in Targets, NEW a \in BOOLEAN,
             ReadBooking(r, b, n, a)
      PROVE  SlotInv'
  <2>1. n \in Live => status[b] \in Live
    BY <1>4 DEF ReadBooking, MayMove, Targets, Live
  <2>2. Fresh(req'[r]) /\ req'[r].booking = b /\ req'[r].next = n
    BY <1>4, <2>1 DEF ReadBooking, Fresh, BookingTypeOK
  <2> QED
    BY <1>3, <1>4, <2>2 DEF ReadBooking, BookingTypeOK
<1>5. ASSUME NEW r \in Requests, NEW b \in Bookings, NEW t \in Times, NEW d \in BOOLEAN,
             ReadForSchedule(r, b, t, d)
      PROVE  SlotInv'
  <2>1. /\ Fresh(req'[r]) /\ req'[r].booking = b /\ req'[r].next = "scheduled"
        /\ req'[r].step = "check"
    BY <1>5 DEF ReadForSchedule, Fresh, BookingTypeOK
  <2> QED
    BY <1>3, <1>5, <2>1 DEF ReadForSchedule, BookingTypeOK, Targets
<1>6. ASSUME NEW r \in Requests, CheckSlot(r) PROVE SlotInv'
  <2> DEFINE q == req[r]
  <2>1. q \in ReqType /\ Running(r) /\ q.step = "check" /\ q.next = "scheduled"
        /\ Fresh(q)
    BY <1>6 DEF CheckSlot, BookingTypeOK, Running, NoReq, SlotInv, KnownBookings, RequestSane
  <2>2. NoNewClaim /\ status' = status /\ slot' = slot
    BY <1>6 DEF CheckSlot, rowVars, NoNewClaim, Active
  <2>3. CASE req' = [req EXCEPT ![r] = NoReq]
    BY <2>2, <2>3, QuietStep DEF BookingTypeOK
  <2>4. CASE req' = [req EXCEPT ![r].step = "update"]
                /\ ~(Cardinality(Conflicts(q.at, q.slot) \ {q.booking}) >= Capacity)
    <3>1. req'[r].booking = q.booking /\ req'[r].next = q.next /\ req'[r].at = q.at
          /\ req'[r].slot = q.slot /\ req'[r].save = q.save /\ req'[r].step = "update"
          /\ \A s \in Requests \ {r} : req'[s] = req[s]
      BY <2>1, <2>4 DEF BookingTypeOK, ReqType
    <3>2. Cardinality(Conflicts(q.at, q.slot) \ {q.booking}) \in Nat
      <4>1. Conflicts(q.at, q.slot) \ {q.booking} \in SUBSET Bookings
        BY DEF Conflicts
      <4> QED
        BY <4>1, SmallSets
    <3>3. Cardinality(Conflicts(q.at, q.slot) \ {q.booking}) < Capacity
      BY <2>4, <3>2
    <3>4. \A d, t : Conflicts(d, t)' = Conflicts(d, t)
      BY <1>6 DEF CheckSlot, rowVars, Conflicts, Active, Overlaps
    <3>5. Room(req[r])'
      BY <1>b, <3>1, <3>3, <3>4 DEF Room
    <3>6. Fresh(req[r])'
      BY <2>1, <2>2, <3>1 DEF Fresh
    <3>7. ASSUME NEW s \in Requests \ {r}, Running(s)' PROVE Fresh(req[s])' /\ Room(req[s])'
      <4>1. Running(s) /\ req'[s] = req[s]
        BY <3>1, <3>7 DEF Running
      <4>2. Fresh(req[s]) /\ Room(req[s])
        BY <4>1 DEF SlotInv
      <4> QED
        BY <1>b, <2>2, <3>4, <4>1, <4>2 DEF Fresh, Room
    <3>8. Alone'
      BY <1>a, <2>1, <3>1 DEF Alone, Running
    <3>9. NoDoubleBooking'
      BY <1>a, <2>2, NoNewClaimKeepsRoom
    <3> QED
      BY <3>5, <3>6, <3>7, <3>8, <3>9 DEF SlotInv
  <2> QED
    BY <1>6, <2>3, <2>4 DEF CheckSlot, Forget, Step
<1>7. ASSUME NEW r \in Requests, UpdateBooking(r) PROVE SlotInv'
  <2> DEFINE q == req[r]
  <2>0. PICK b \in Bookings : b = q.booking
    BY <1>7 DEF UpdateBooking, BookingTypeOK, NoReq, ReqType
  <2>1. q \in ReqType /\ Running(r) /\ q.step = "update" /\ q.booking = b
        /\ Fresh(q) /\ Room(q) /\ Aligned(q) /\ RequestSane(q)
    BY <1>7, <2>0 DEF UpdateBooking, BookingTypeOK, Running, NoReq, SlotInv, WholeInv,
                      KnownBookings, ReqType
  <2>2. /\ req'[r].booking = b /\ req'[r].next = q.next
        /\ req'[r].step \in {"count", "log"}
        /\ \A s \in Requests \ {r} : req'[s] = req[s]
    BY <1>7, <2>1 DEF UpdateBooking, Step, BookingTypeOK, ReqType
  <2>3. \A c \in Bookings \ {b} : /\ status'[c] = status[c] /\ at'[c] = at[c]
                                  /\ slot'[c] = slot[c] /\ until'[c] = until[c]
                                  /\ (Active(c)' <=> Active(c))
    BY <1>7, <2>1 DEF UpdateBooking, Saved, BookingTypeOK, Active
  <2>4. Alone'
    BY <1>a, <2>1, <2>2 DEF Alone, Running
  <2>5. Fresh(req[r])' /\ Room(req[r])'
    BY <2>2 DEF Fresh, Room
  <2>6. ASSUME NEW s \in Requests \ {r}, Running(s)'
        PROVE  /\ Running(s) /\ req'[s] = req[s] /\ Fresh(req[s]) /\ Room(req[s])
               /\ req[s].booking \in Bookings \ {b}
               /\ q.next # "scheduled" \/ req[s].next # "scheduled"
    <3>1. Running(s) /\ req'[s] = req[s]
      BY <2>2, <2>6 DEF Running
    <3> QED
      BY <1>a, <2>1, <3>1 DEF Alone, SlotInv, BookingTypeOK, Running, ReqType
  <2>7. ASSUME NEW s \in Requests \ {r}, Running(s)' PROVE Fresh(req[s])'
    BY <2>3, <2>6, <2>7 DEF Fresh
  <2>8. CASE q.next = "scheduled"
    <3>1. q.at = q.slot /\ Cardinality(Conflicts(q.slot, q.slot) \ {b}) < Capacity
          /\ q.slot \in Times
      BY <2>1, <2>8 DEF Aligned, Room, ReqType
    <3>2. slot'[b] = q.slot
      BY <1>7, <2>1, <2>8 DEF UpdateBooking, Saved, Fresh, BookingTypeOK
    <3>3. NoDoubleBooking'
      BY <1>0, <1>a, <2>1, <2>3, <3>1, <3>2, OneClaim
    <3>4. ASSUME NEW s \in Requests \ {r}, Running(s)' PROVE Room(req[s])'
      BY <2>6, <2>8, <3>4 DEF Room
    <3> QED
      BY <2>4, <2>5, <2>7, <3>3, <3>4 DEF SlotInv
  <2>9. CASE q.next # "scheduled"
    <3>0. "at" \notin q.save /\ "slot" \notin q.save /\ "until" \notin q.save
      BY <2>1, <2>9 DEF RequestSane
    <3>1. at' = at /\ slot' = slot /\ until' = until /\ gone' = gone
      BY <1>7, <3>0 DEF UpdateBooking, Saved
    <3>2. Active(b)' => Active(b)
      <4>1. status'[b] \in {q.next, status[b]}
        BY <1>7, <2>1 DEF UpdateBooking, Saved, BookingTypeOK
      <4>2. q.next \in Live => status[b] \in Live
        BY <2>1, <2>9 DEF Fresh
      <4> QED
        BY <3>1, <4>1, <4>2 DEF Active
    <3>3. NoNewClaim
      BY <2>3, <3>1, <3>2 DEF NoNewClaim
    <3>4. NoDoubleBooking'
      BY <1>a, <3>3, NoNewClaimKeepsRoom
    <3>5. ASSUME NEW s \in Requests \ {r}, Running(s)' PROVE Room(req[s])'
      BY <1>b, <2>6, <3>3, <3>5, NoNewClaimKeepsRoom DEF Room
    <3> QED
      BY <2>4, <2>5, <2>7, <3>4, <3>5 DEF SlotInv
  <2> QED
    BY <2>8, <2>9
<1>8. ASSUME NEW r \in Requests, CountJob(r) \/ AppendTimeline(r) \/ Abort(r) PROVE SlotInv'
  <2>1. rowVars' = rowVars
    BY <1>8 DEF CountJob, AppendTimeline, Abort
  <2>2. NoNewClaim /\ status' = status /\ slot' = slot
    BY <2>1 DEF rowVars, NoNewClaim, Active
  <2>3. CASE CountJob(r)
    <3>1. req[r] \in ReqType /\ Running(r)
      BY <2>3 DEF CountJob, BookingTypeOK, Running, NoReq
    <3> QED
      BY <2>2, <2>3, <3>1, QuietStep DEF CountJob, Step, BookingTypeOK, ReqType
  <2>4. CASE AppendTimeline(r) \/ Abort(r)
    BY <2>2, <2>4, QuietStep DEF AppendTimeline, Abort, Forget, BookingTypeOK
  <2> QED
    BY <1>8, <2>3, <2>4
<1>9. CASE UNCHANGED bookingVars
  BY <1>9 DEF bookingVars, rowVars, SlotInv, Alone, Fresh, Room, NoDoubleBooking, Busy,
              Conflicts, Active, Overlaps, Running, Capacity
<1> QED
  BY <1>1, <1>2, <1>4, <1>5, <1>6, <1>7, <1>8, <1>9 DEF BookingNext

(* Where requests for one booking wait for one another, and so do reschedules
   and creations, the provider is never promised to more than Capacity
   residents at once. *)
THEOREM NobodyDoubleBooked ==
  ASSUME Clash = {}, ~SlotOnly PROVE BookingSpec => []NoDoubleBooking
<1> DEFINE Inv == BookingTypeOK /\ KnownBookings /\ WholeInv /\ SlotInv
<1>1. BookingInit => Inv
  BY TypeInit, WholeInit, SlotInit
<1>2. Inv /\ [BookingNext]_bookingVars => Inv'
  <2> SUFFICES ASSUME Inv, [BookingNext]_bookingVars PROVE Inv'
    OBVIOUS
  <2>1. BookingTypeOK' /\ KnownBookings'
    BY TypeStep
  <2>2. WholeInv'
    BY WholeStep
  <2>3. SlotInv'
    BY <2>1, SlotStep
  <2> QED
    BY <2>1, <2>2, <2>3
<1>3. Inv => NoDoubleBooking
  BY DEF SlotInv
<1> QED
  BY <1>1, <1>2, <1>3, PTL DEF BookingSpec

-----------------------------------------------------------------------------
Completed == {b \in Bookings : status[b] = "completed"}
Counting == {r \in Requests : req[r].step = "count"}

LEMMA CountTypes ==
  /\ IsFiniteSet(Completed) /\ Cardinality(Completed) \in Nat
  /\ IsFiniteSet(Counting) /\ Cardinality(Counting) \in Nat
<1>1. Completed \subseteq Bookings /\ Counting \subseteq Requests
  BY DEF Completed, Counting
<1> QED
  BY <1>1, BookingAssumption, FS_Subset, FS_CardinalityType

(* Requests that do not die between two statements count every completed
   booking, however they overlap. *)
THEOREM NoneUncounted == ASSUME ~MayAbort PROVE BookingSpec => []CompletedIsCounted
<1> DEFINE Counted == Cardinality(Completed) <= jobs + Cardinality(Counting)
<1>1. CompletedIsCounted <=> Counted
  BY DEF CompletedIsCounted, Completed, Counting
<1>2. BookingInit => Counted
  <2>1. BookingInit => Completed = {} /\ jobs = 0
    BY DEF BookingInit, Completed
  <2> QED
    BY <2>1, FS_EmptySet, CountTypes
<1>3. BookingTypeOK /\ BookingTypeOK' /\ Counted /\ [BookingNext]_bookingVars => Counted'
  <2> SUFFICES ASSUME BookingTypeOK, BookingTypeOK', Counted, [BookingNext]_bookingVars
               PROVE  Counted'
    OBVIOUS
  <2>1. /\ IsFiniteSet(Completed) /\ Cardinality(Completed) \in Nat
        /\ IsFiniteSet(Counting) /\ Cardinality(Counting) \in Nat
        /\ IsFiniteSet(Completed') /\ Cardinality(Completed') \in Nat
        /\ Cardinality(Counting') \in Nat /\ jobs \in Nat /\ jobs' \in Nat
    <3>1. Completed' \subseteq Bookings /\ Counting' \subseteq Requests
      BY DEF Completed, Counting
    <3> QED
      BY <3>1, CountTypes, BookingAssumption, FS_Subset, FS_CardinalityType DEF BookingTypeOK
  <2>2. CASE Completed' \subseteq Completed /\ Counting' = Counting /\ jobs' = jobs
    <3>1. Cardinality(Completed') <= Cardinality(Completed)
      BY <2>1, <2>2, FS_Subset
    <3> QED
      BY <2>1, <2>2, <3>1
  <2>3. ASSUME NEW b \in Bookings, NEW t \in Times, CreateBooking(b, t) PROVE Counted'
    BY <2>2, <2>3 DEF CreateBooking, BookingTypeOK, Completed, Counting
  <2>4. ASSUME NEW b \in Bookings, DeleteBooking(b) PROVE Counted'
    BY <2>2, <2>4 DEF DeleteBooking, Completed, Counting
  <2>5. ASSUME NEW r \in Requests, NEW b \in Bookings, NEW n \in Targets, NEW a \in BOOLEAN,
               ReadBooking(r, b, n, a)
        PROVE  Counted'
    BY <2>2, <2>5 DEF ReadBooking, rowVars, BookingTypeOK, Completed, Counting, Running, NoReq
  <2>6. ASSUME NEW r \in Requests, NEW b \in Bookings, NEW t \in Times, NEW d \in BOOLEAN,
               ReadForSchedule(r, b, t, d)
        PROVE  Counted'
    BY <2>2, <2>6 DEF ReadForSchedule, rowVars, BookingTypeOK, Completed, Counting, Running, NoReq
  <2>7. ASSUME NEW r \in Requests, CheckSlot(r) PROVE Counted'
    <3>1. req[r] \in ReqType
      BY <2>7 DEF CheckSlot, BookingTypeOK, NoReq
    <3> QED
      BY <2>2, <2>7, <3>1 DEF CheckSlot, Forget, Step, rowVars, BookingTypeOK, Completed,
                              Counting, NoReq, ReqType
  <2>8. ASSUME NEW r \in Requests, UpdateBooking(r) PROVE Counted'
    <3>1. PICK b \in Bookings : b = req[r].booking
      BY <2>8 DEF UpdateBooking, BookingTypeOK, NoReq, ReqType
    <3>2. req[r] \in ReqType /\ jobs' = jobs
      BY <2>8 DEF UpdateBooking, BookingTypeOK, NoReq
    <3>3. CASE req[r].next = "completed"
      <4>1. Completed' \subseteq Completed \cup {b}
        BY <2>8, <3>1, <3>2 DEF UpdateBooking, Saved, BookingTypeOK, Completed
      <4>2. Counting' = Counting \cup {r} /\ r \notin Counting
        BY <2>8, <3>2, <3>3 DEF UpdateBooking, Step, BookingTypeOK, Counting, ReqType
      <4>3. Cardinality(Counting') = Cardinality(Counting) + 1
        BY <2>1, <4>2, FS_AddElement
      <4>4. /\ IsFiniteSet(Completed \cup {b})
            /\ \/ Cardinality(Completed \cup {b}) = Cardinality(Completed)
               \/ Cardinality(Completed \cup {b}) = Cardinality(Completed) + 1
        BY <2>1, FS_AddElement
      <4>5. Cardinality(Completed') <= Cardinality(Completed \cup {b})
        BY <4>1, <4>4, FS_Subset
      <4> QED
        BY <2>1, <3>2, <4>3, <4>4, <4>5
    <3>4. CASE req[r].next # "completed"
      <4>1. Completed' \subseteq Completed
        BY <2>8, <3>1, <3>2, <3>4 DEF UpdateBooking, Saved, BookingTypeOK, Completed
      <4>2. Counting' = Counting
        BY <2>8, <3>2, <3>4 DEF UpdateBooking, Step, BookingTypeOK, Counting, ReqType
      <4> QED
        BY <2>2, <3>2, <4>1, <4>2
    <3> QED
      BY <3>3, <3>4
  <2>9. ASSUME NEW r \in Requests, CountJob(r) PROVE Counted'
    <3>1. req[r] \in ReqType /\ r \in Counting /\ Completed' = Completed /\ jobs' = jobs + 1
      BY <2>9 DEF CountJob, BookingTypeOK, NoReq, Counting, Completed, rowVars
    <3>2. Counting' = Counting \ {r}
      BY <2>9, <3>1 DEF CountJob, Step, BookingTypeOK, Counting, ReqType
    <3>3. Cardinality(Counting') = Cardinality(Counting) - 1
      BY <2>1, <3>1, <3>2, FS_RemoveElement
    <3> QED
      BY <2>1, <3>1, <3>3
  <2>10. ASSUME NEW r \in Requests, AppendTimeline(r) PROVE Counted'
    BY <2>2, <2>10 DEF AppendTimeline, Forget, rowVars, BookingTypeOK, Completed, Counting, NoReq
  <2>11. CASE UNCHANGED bookingVars
    BY <2>2, <2>11 DEF bookingVars, rowVars, Completed, Counting
  <2> QED
    BY <2>3, <2>4, <2>5, <2>6, <2>7, <2>8, <2>9, <2>10, <2>11 DEF BookingNext, Abort
<1>4. BookingTypeOK /\ KnownBookings /\ [BookingNext]_bookingVars
        => BookingTypeOK' /\ KnownBookings'
  BY TypeStep
<1> HIDE DEF Counted
<1> QED
  BY TypeInit, <1>1, <1>2, <1>3, <1>4, PTL DEF BookingSpec

-----------------------------------------------------------------------------
(* While every interval is that of a slot, the bookings that stand in the way of a
   slot are those that overlap it, whose number the offer compares. *)
LEMMA ConflictsOverlap ==
  ASSUME BookingTypeOK, WholeReschedule, NEW t \in Times
  PROVE  Conflicts(t, t) = {b \in Bookings : Active(b) /\ Overlaps(b, t)}
<1>1. ASSUME NEW b \in Bookings, Active(b), slot[b] = t PROVE Overlaps(b, t)
  <2>1. at[b] = t /\ until[b] = t + Occupancy
    BY <1>1 DEF WholeReschedule, Active, Live
  <2> QED
    BY <2>1, BookingAssumption DEF Overlaps, Times
<1> QED
  BY <1>1 DEF Conflicts

(* A slot shown as available is accepted by createBooking, however requests overlap
   and die, when the listing has a capacity or the provider none. *)
THEOREM OffersHold ==
  ASSUME ~SlotOnly, ListingCapacity > 0 \/ ProviderCapacity = 0
  PROVE  BookingSpec => []OfferedIsBookable
<1>1. OfferedCapacity = Capacity
  BY BookingAssumption DEF OfferedCapacity, Capacity
<1>2. BookingTypeOK /\ WholeReschedule => OfferedIsBookable
  BY <1>1, ConflictsOverlap DEF OfferedIsBookable, Offered, Bookable
<1> QED
  BY <1>2, BookingTypeCorrect, IntervalIsTheSlot, PTL
=============================================================================
