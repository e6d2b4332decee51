---------------------------- MODULE ServiceBooking ----------------------------
(***************************************************************************)
(* The bookings of one service provider: createBooking, transitionBooking, *)
(* softDeleteBooking (service_booking.service.js) and the slots offered to *)
(* residents (getAvailableSlotsForDate in service_duration.service.js).    *)
(*                                                                         *)
(* createBooking is one transaction that locks the provider's bookings.    *)
(* transitionBooking is not a transaction: it reads the booking, checks,   *)
(* for "schedule" reads the other bookings, saves the columns it changed,  *)
(* counts a completed job and appends to the timeline, each in a statement *)
(* of its own.  Requests therefore interleave between these statements.    *)
(***************************************************************************)
EXTENDS Integers, FiniteSets

CONSTANTS
  Bookings,         \* booking rows, created in any order
  Requests,         \* transitions that may be in flight together
  LastTime,         \* slots start at 0..LastTime
  Occupancy,        \* totalOccupancyMinutes of the listing, in units of time
  ListingCapacity,  \* capacity of the listing's booking_capacity, 0 without one
  ProviderCapacity, \* maxConcurrentBookings of the provider, 0 when unset
  AutoAccept,       \* auto_accept_bookings of the provider
  SlotOnly,         \* clients may reschedule with a time_slot and no scheduled_at
  Clash,            \* overlaps between requests: on one "booking", on the "slot"s
  MayAbort,         \* a request may die between two statements
  MaxJobs           \* bound: completions

Times == 0..LastTime

ASSUME BookingAssumption ==
  /\ IsFiniteSet(Bookings) /\ IsFiniteSet(Requests) /\ LastTime \in Nat /\ Occupancy \in Nat \ {0}
  /\ ListingCapacity \in Nat /\ ProviderCapacity \in Nat
  /\ AutoAccept \in BOOLEAN /\ SlotOnly \in BOOLEAN /\ MayAbort \in BOOLEAN
  /\ Clash \subseteq {"booking", "slot"} /\ MaxJobs \in Nat

VARIABLES
  status,  \* status column, "none" before the row exists
  gone,    \* is_deleted
  at,      \* scheduled_at
  slot,    \* time_slot, by its start
  until,   \* occupied_until
  pin,     \* doorstep_pin_verified
  latest,  \* status in the newest timeline entry
  jobs,    \* completed_jobs_count of the provider
  req      \* the transition each request is executing

rowVars == <<status, gone, at, slot, until, pin>>
bookingVars == <<rowVars, latest, jobs, req>>

Targets == {"accepted", "rejected", "scheduled", "on_the_way", "started",
            "completed", "cancelled"}
Live == {"requested", "accepted", "confirmed", "scheduled", "on_the_way", "started"}
BookingStatuses == Targets \cup Live
Columns == {"status", "at", "slot", "until"}
NoReq == [step |-> "idle"]

(* What a request knows after its read: the columns it will save are those
   whose new value differs from the value it read. *)
ReqType == [step : {"check", "update", "count", "log"}, booking : Bookings,
            next : Targets, admin : BOOLEAN, at : Times, slot : Times,
            save : SUBSET Columns]

Running(r) == req[r] # NoReq

BookingTypeOK ==
  /\ status \in [Bookings -> BookingStatuses \cup {"none"}]
  /\ gone \in [Bookings -> BOOLEAN]
  /\ at \in [Bookings -> Times]
  /\ slot \in [Bookings -> Times]
  /\ until \in [Bookings -> Nat]
  /\ pin \in [Bookings -> BOOLEAN]
  /\ latest \in [Bookings -> BookingStatuses \cup {"none"}]
  /\ jobs \in Nat
  /\ req \in [Requests -> ReqType \cup {NoReq}]

BookingInit ==
  /\ status = [b \in Bookings |-> "none"]
  /\ gone = [b \in Bookings |-> FALSE]
  /\ at = [b \in Bookings |-> 0]
  /\ slot = [b \in Bookings |-> 0]
  /\ until = [b \in Bookings |-> 0]
  /\ pin = [b \in Bookings |-> FALSE]
  /\ latest = [b \in Bookings |-> "none"]
  /\ jobs = 0
  /\ req = [r \in Requests |-> NoReq]

-----------------------------------------------------------------------------
(* Occupancy of the provider's time.                                       *)

Active(b) == status[b] \in Live /\ ~gone[b]

(* capacity of resolveServiceDurationConfig: it is never 0, so the fallback to
   the provider's maxConcurrentBookings is never taken. *)
Capacity == IF ListingCapacity > 0 THEN ListingCapacity ELSE 1

(* ... while the slots offered to residents do use it. *)
OfferedCapacity ==
  IF ListingCapacity = 0 /\ ProviderCapacity > 0 THEN ProviderCapacity ELSE Capacity

Overlaps(b, start) == at[b] < start + Occupancy /\ until[b] > start

(* Variant: intervals that only touch are in conflict. *)
TouchingConflicts(date, start) ==
  {b \in Bookings : Active(b) /\ at[b] <= start + Occupancy /\ until[b] >= start}

(* Active bookings that stand in the way of a slot: the same slot on the same
   scheduled_at, or an overlapping interval. *)
Conflicts(date, start) ==
  {b \in Bookings : Active(b) /\ ((at[b] = date /\ slot[b] = start) \/ Overlaps(b, start))}

Offered(start) ==
  Cardinality({b \in Bookings : Active(b) /\ Overlaps(b, start)}) < OfferedCapacity

-----------------------------------------------------------------------------
(* createBooking.  The FOR UPDATE read of the provider's bookings makes a
   second create wait, or be the victim of a deadlock. *)

InFlight(next) == \E r \in Requests : Running(r) /\ req[r].next = next

Bookable(start) == Cardinality(Conflicts(start, start)) < Capacity

(* Variant: the row keeps the column's default status, 'pending'. *)
CreateWithDefaultStatus(b, start) ==
  /\ status[b] = "none"
  /\ "slot" \in Clash \/ ~InFlight("scheduled")
  /\ Bookable(start)
  /\ status' = [status EXCEPT ![b] = "pending"]
  /\ at' = [at EXCEPT ![b] = start]
  /\ slot' = [slot EXCEPT ![b] = start]
  /\ until' = [until EXCEPT ![b] = start + Occupancy]
  /\ latest' = [latest EXCEPT ![b] = status'[b]]
  /\ UNCHANGED <<gone, pin, jobs, req>>

CreateBooking(b, start) ==
  /\ status[b] = "none"
  /\ "slot" \in Clash \/ ~InFlight("scheduled")
  /\ Bookable(start)
  /\ status' = [status EXCEPT ![b] = IF AutoAccept THEN "confirmed" ELSE "requested"]
  /\ at' = [at EXCEPT ![b] = start]
  /\ slot' = [slot EXCEPT ![b] = start]
  /\ until' = [until EXCEPT ![b] = start + Occupancy]
  /\ latest' = [latest EXCEPT ![b] = status'[b]]
  /\ UNCHANGED <<gone, pin, jobs, req>>

DeleteBooking(b) ==
  /\ status[b] # "none" /\ ~gone[b]
  /\ gone' = [gone EXCEPT ![b] = TRUE]
  /\ UNCHANGED <<status, at, slot, until, pin, latest, jobs, req>>

-----------------------------------------------------------------------------
(* transitionBooking.                                                      *)

(* What each action asks of the status it read.  "schedule" asks nothing. *)
MayMove(from, next, admin) ==
  \/ next \in {"accepted", "rejected"} /\ from = "requested"
  \/ next = "scheduled"
  \/ next = "on_the_way" /\ from \in {"accepted", "confirmed", "scheduled"}
  \/ next = "started" /\ from \in {"on_the_way", "accepted", "confirmed", "scheduled"}
  \/ next = "completed" /\ from \in {"started", "on_the_way"}
  \/ next = "cancelled" /\ (admin \/ from \notin {"on_the_way", "started", "completed"})

(* How requests may overlap in a configuration. *)
MayStart(r, b, next) ==
  \A q \in Requests \ {r} : Running(q) =>
    /\ "booking" \in Clash \/ req[q].booking # b
    /\ "slot" \in Clash \/ next # "scheduled" \/ req[q].next # "scheduled"

StatusColumn(b, next) == IF status[b] = next THEN {} ELSE {"status"}

(* Every action but "schedule": read the booking and check.  For "start" the
   resident's PIN was submitted; a wrong one ends the request here.  Whether
   an administrator asks matters to a cancellation only. *)
ReadBooking(r, b, next, admin) ==
  /\ ~Running(r) /\ status[b] # "none" /\ ~gone[b]
  /\ MayStart(r, b, next)
  /\ next # "scheduled" /\ MayMove(status[b], next, admin)
  /\ admin => next = "cancelled"
  /\ next = "completed" =>
       jobs + Cardinality({q \in Requests : Running(q) /\ req[q].next = next}) < MaxJobs
  /\ req' = [req EXCEPT ![r] = [step |-> "update", booking |-> b, next |-> next,
                                admin |-> admin, at |-> 0, slot |-> 0,
                                save |-> StatusColumn(b, next)]]
  /\ UNCHANGED <<rowVars, latest, jobs>>

(* "schedule" to a slot of the same day, with or without a scheduled_at. *)
ReadForSchedule(r, b, start, dated) ==
  /\ ~Running(r) /\ status[b] # "none" /\ ~gone[b]
  /\ MayStart(r, b, "scheduled")
  /\ dated \/ SlotOnly
  /\ MayMove(status[b], "scheduled", FALSE)
  /\ req' = [req EXCEPT ![r] =
       [step |-> "check", booking |-> b, next |-> "scheduled", admin |-> FALSE,
        at |-> IF dated THEN start ELSE at[b], slot |-> start,
        save |-> StatusColumn(b, "scheduled")
                   \cup {c \in {"at"} : dated /\ at[b] # start}
                   \cup {c \in {"slot"} : slot[b] # start}
                   \cup {c \in {"until"} : until[b] # start + Occupancy}]]
  /\ UNCHANGED <<rowVars, latest, jobs>>

Forget(r) == req' = [req EXCEPT ![r] = NoReq]
Step(r, step) == req' = [req EXCEPT ![r].step = step]

(* Variant: no check of the new slot. *)
CheckNothing(r) ==
  /\ req[r].step = "check"
  /\ Step(r, "update")
  /\ UNCHANGED <<rowVars, latest, jobs>>

(* The second read of "schedule", of the other bookings, and its decision. *)
CheckSlot(r) ==
  /\ req[r].step = "check"
  /\ LET q == req[r]
         others == Conflicts(q.at, q.slot) \ {q.booking}
     IN IF Cardinality(others) >= Capacity THEN Forget(r) ELSE Step(r, "update")
  /\ UNCHANGED <<rowVars, latest, jobs>>

(* booking.update saves the columns that differ from the instance it read. *)
Saved(column, q, name, value) ==
  IF name \in q.save THEN [column EXCEPT ![q.booking] = value] ELSE column

(* Variant: occupied_until is not saved. *)
UpdateWithoutUntil(r) ==
  /\ req[r].step = "update"
  /\ LET q == req[r] IN
       /\ status' = Saved(status, q, "status", q.next)
       /\ at' = Saved(at, q, "at", q.at)
       /\ slot' = Saved(slot, q, "slot", q.slot)
       /\ pin' = [pin EXCEPT ![q.booking] = (@ \/ q.next = "started")]
       /\ Step(r, IF q.next = "completed" THEN "count" ELSE "log")
  /\ UNCHANGED <<until, gone, latest, jobs>>

(* Variant: only verified bookings are counted. *)
UncountedUpdate(r) ==
  /\ req[r].step = "update"
  /\ LET q == req[r] IN
       /\ status' = Saved(status, q, "status", q.next)
       /\ pin' = [pin EXCEPT ![q.booking] = (@ \/ q.next = "started")]
       /\ Step(r, IF q.next = "completed" /\ pin[q.booking] THEN "count" ELSE "log")
  /\ UNCHANGED <<at, slot, until, gone, latest, jobs>>

UpdateBooking(r) ==
  /\ req[r].step = "update"
  /\ LET q == req[r] IN
       /\ status' = Saved(status, q, "status", q.next)
       /\ at' = Saved(at, q, "at", q.at)
       /\ slot' = Saved(slot, q, "slot", q.slot)
       /\ until' = Saved(until, q, "until", q.slot + Occupancy)
       /\ pin' = [pin EXCEPT ![q.booking] = (@ \/ q.next = "started")]
       /\ Step(r, IF q.next = "completed" THEN "count" ELSE "log")
  /\ UNCHANGED <<gone, latest, jobs>>

(* ServiceProviderProfile.increment *)
CountJob(r) ==
  /\ req[r].step = "count"
  /\ jobs' = jobs + 1
  /\ Step(r, "log")
  /\ UNCHANGED <<rowVars, latest>>

(* ServiceBookingTimeline.create; audit and notifications follow. *)
AppendTimeline(r) ==
  /\ req[r].step = "log"
  /\ latest' = [latest EXCEPT ![req[r].booking] = req[r].next]
  /\ Forget(r)
  /\ UNCHANGED <<rowVars, jobs>>

(* A statement throws, or the process ends, between two statements. *)
Abort(r) ==
  /\ MayAbort /\ Running(r)
  /\ Forget(r)
  /\ UNCHANGED <<rowVars, latest, jobs>>

-----------------------------------------------------------------------------
BookingNext ==
  \/ \E b \in Bookings, t \in Times : CreateBooking(b, t)
  \/ \E b \in Bookings : DeleteBooking(b)
  \/ \E r \in Requests, b \in Bookings, n \in Targets, a \in BOOLEAN :
       ReadBooking(r, b, n, a)
  \/ \E r \in Requests, b \in Bookings, t \in Times, d \in BOOLEAN :
       ReadForSchedule(r, b, t, d)
  \/ \E r \in Requests : \/ CheckSlot(r) \/ UpdateBooking(r) \/ CountJob(r)
                         \/ AppendTimeline(r) \/ Abort(r)

BookingSpec == BookingInit /\ [][BookingNext]_bookingVars

-----------------------------------------------------------------------------
(* The provider is never expected in more places at once than the listing's
   capacity: at any instant, the active bookings whose agreed slot covers it
   are at most Capacity, through creations, revivals and moves. *)
Busy(t) == {b \in Bookings : Active(b) /\ slot[b] <= t /\ t < slot[b] + Occupancy}

NoDoubleBooking == \A t \in Times : Cardinality(Busy(t)) <= Capacity

(* However reschedules of a booking overlap, and though each saves only the
   columns it believes it changed, the stored interval is that of the slot. *)
WholeReschedule ==
  \A b \in Bookings : status[b] # "none" => at[b] = slot[b] /\ until[b] = slot[b] + Occupancy

(* Every completed booking is counted, or a request is about to count it:
   stale completions may count twice but none is missed. *)
CompletedIsCounted ==
  Cardinality({b \in Bookings : status[b] = "completed"})
    <= jobs + Cardinality({r \in Requests : req[r].step = "count"})

(* A slot shown as available is accepted by createBooking. *)
OfferedIsBookable ==
  \A t \in Times : t % Occupancy = 0 /\ Offered(t) => Bookable(t)

(* The newest timeline entry is the status of the booking, once no request for
   the booking is on its way. *)
TimelineIsCurrent ==
  \A b \in Bookings :
    (\A r \in Requests : Running(r) => req[r].booking # b) => latest[b] = status[b]

-----------------------------------------------------------------------------
(* What documents and comments say and the code does not keep.             *)

(* SERVICE_ENTERPRISE_AUDIT.md: completed_jobs_count is the "Total successful
   bookings", so a booking adds one to it at most. *)
JobsAreBookings == jobs <= Cardinality({b \in Bookings : status[b] # "none"})

(* SERVICE_ENTERPRISE_AUDIT.md: the PIN "must be verified by the provider
   before work begins", so no work is completed without. *)
CompletedWithPin == \A b \in Bookings : status[b] = "completed" => pin[b]

(* SERVICE_ENTERPRISE_AUDIT.md: "Once technician transitions to on_the_way or
   started, cancellation is strictly blocked" for resident and provider. *)
NoCancelInTransit ==
  [][\A r \in Requests :
       req[r].step = "update" /\ req'[r] # req[r]
         /\ req[r].next = "cancelled" /\ ~req[r].admin
       => status[req[r].booking] \notin {"on_the_way", "started"}]_bookingVars

(* SERVICE_ENTERPRISE_AUDIT.md, the lifecycle: nothing follows "completed"; an
   administrator may still cancel. *)
CompletedIsFinal ==
  [][\A b \in Bookings : status[b] = "completed" => status'[b] \in {"completed", "cancelled"}]_bookingVars
=============================================================================
