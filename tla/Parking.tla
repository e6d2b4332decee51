------------------------------- MODULE Parking -------------------------------
(***************************************************************************)
(* The parking slots of one society (society_parking.service.js): their    *)
(* allocations with the access pass of each, and the reservations of       *)
(* visitors.                                                               *)
(*                                                                         *)
(* Allocating, reassigning and releasing are transactions that lock the    *)
(* slot or the allocation with its slot: one action each.  Every other     *)
(* handler reads the slot, decides and saves it later without a lock; what *)
(* it is about to save is in `saves`.  Sequelize writes the fields that    *)
(* changed since the read, so a handler that reads the status it wants     *)
(* saves none.  Areas, vehicles and violations are left out: each is one   *)
(* row that any request overwrites.                                        *)
(***************************************************************************)
EXTENDS FiniteSets

CONSTANTS
  Slots,         \* slots
  Allocations,   \* bound: rows of parking_allocations
  Visits,        \* bound: rows of parking_visitor_reservations, of one period
  BayOf          \* BayOf[v]: the slot a visit is for

ASSUME ParkingAssumption == BayOf \in [Visits -> Slots]

VARIABLES
  slotStatus,  \* of the parking_slots rows
  holders,     \* holders[s]: the active allocations of a slot
  pass,        \* pass[a]: status of the pass of an allocation
  visit,       \* visit[v]: status of the reservation
  saves        \* saves of slots that have been decided upon

parkingVars == <<slotStatus, holders, pass, visit, saves>>

SlotStatuses == {"available", "allocated", "blocked", "maintenance"}
VisitStatuses == {"expected", "awaiting_approval", "occupied", "checked_out", "declined"}

ParkingTypeOK ==
  /\ slotStatus \in [Slots -> SlotStatuses]
  /\ holders \in [Slots -> SUBSET Allocations]
  /\ pass \in [Allocations -> {"unborn", "active", "revoked"}]
  /\ visit \in [Visits -> {"unborn", "checked"} \cup VisitStatuses]
  /\ saves \subseteq [slot : Slots, to : SlotStatuses]

ParkingInit ==
  /\ slotStatus \in [Slots -> SlotStatuses]  \* createParkingSlot takes any
  /\ holders = [s \in Slots |-> {}]
  /\ pass = [a \in Allocations |-> "unborn"]
  /\ visit = [v \in Visits |-> "unborn"]
  /\ saves = {}

-----------------------------------------------------------------------------
(* Allocations.                                                            *)

(* Variant: the status of the slot is enough. *)
AllocateByStatus(a, s) ==
  /\ pass[a] = "unborn" /\ slotStatus[s] = "available"
  /\ holders' = [holders EXCEPT ![s] = @ \cup {a}]
  /\ pass' = [pass EXCEPT ![a] = "active"]
  /\ slotStatus' = [slotStatus EXCEPT ![s] = "allocated"]
  /\ UNCHANGED <<visit, saves>>

AllocateSlot(a, s) ==
  /\ pass[a] = "unborn" /\ slotStatus[s] = "available" /\ holders[s] = {}
  /\ holders' = [holders EXCEPT ![s] = {a}]
  /\ pass' = [pass EXCEPT ![a] = "active"]
  /\ slotStatus' = [slotStatus EXCEPT ![s] = "allocated"]
  /\ UNCHANGED <<visit, saves>>

(* Allocation a makes way for b; the status of the slot is not looked at. *)
ReassignSlot(a, b, s) ==
  /\ a \in holders[s] /\ pass[b] = "unborn"
  /\ holders' = [holders EXCEPT ![s] = (@ \ {a}) \cup {b}]
  /\ pass' = [pass EXCEPT ![a] = "revoked", ![b] = "active"]
  /\ UNCHANGED <<slotStatus, visit, saves>>

ReleaseSlot(a, s) ==
  /\ a \in holders[s]
  /\ holders' = [holders EXCEPT ![s] = @ \ {a}]
  /\ pass' = [pass EXCEPT ![a] = "revoked"]
  /\ slotStatus' = [slotStatus EXCEPT ![s] = "available"]
  /\ UNCHANGED <<visit, saves>>

-----------------------------------------------------------------------------
(* Management of a slot, and the save that follows.                        *)

Saving(s, to) == IF slotStatus[s] = to THEN {} ELSE {[slot |-> s, to |-> to]}

Decide(s, to) ==
  /\ saves' = saves \cup Saving(s, to)
  /\ UNCHANGED <<slotStatus, holders, pass, visit>>

BlockParkingSlot(s) == slotStatus[s] # "allocated" /\ Decide(s, "blocked")
UnblockParkingSlot(s) == slotStatus[s] = "blocked" /\ Decide(s, "available")
(* An allocated slot may go to maintenance, and comes back available. *)
SetSlotMaintenance(s) ==
  Decide(s, IF slotStatus[s] = "maintenance" THEN "available" ELSE "maintenance")

SaveSlot(w) ==
  /\ saves' = saves \ {w}
  /\ slotStatus' = [slotStatus EXCEPT ![w.slot] = w.to]
  /\ UNCHANGED <<holders, pass, visit>>

-----------------------------------------------------------------------------
(* Visitors.                                                               *)

SetVisit(v, st) ==
  /\ visit' = [visit EXCEPT ![v] = st]
  /\ UNCHANGED <<slotStatus, holders, pass, saves>>

Booked(v) == \E w \in Visits : BayOf[w] = BayOf[v] /\ visit[w] \in {"expected", "occupied"}

(* preBookVisitorParking looks for an overlap, then creates the row. *)
CheckBay(v) == visit[v] = "unborn" /\ ~Booked(v) /\ SetVisit(v, "checked")
PreBook(v) == visit[v] = "checked" /\ SetVisit(v, "expected")

(* guardCheckInVisitor, of a reservation in any other state or of a walk-in,
   whose bay is not asked for. *)
CheckIn(v) ==
  /\ visit[v] \notin {"checked", "occupied"}
  /\ \E st \in {"occupied", "awaiting_approval"} : SetVisit(v, st)

(* The slot is left as it is. *)
CheckOut(v) == visit[v] = "occupied" /\ SetVisit(v, "checked_out")

(* approveVisitorEntry and declineVisitorEntry, of any reservation. *)
Answer(v, st, to) ==
  /\ visit[v] \notin {"unborn", "checked"}
  /\ visit' = [visit EXCEPT ![v] = st]
  /\ saves' = saves \cup Saving(BayOf[v], to)
  /\ UNCHANGED <<slotStatus, holders, pass>>

ApproveVisitorEntry(v) == Answer(v, "occupied", "allocated")
DeclineVisitorEntry(v) == Answer(v, "declined", "available")

-----------------------------------------------------------------------------
ParkingNext ==
  \/ \E s \in Slots :
       \/ BlockParkingSlot(s) \/ UnblockParkingSlot(s) \/ SetSlotMaintenance(s)
       \/ \E a \in Allocations :
            \/ AllocateSlot(a, s) \/ ReleaseSlot(a, s)
            \/ \E b \in Allocations : ReassignSlot(a, b, s)
  \/ \E w \in saves : SaveSlot(w)
  \/ \E v \in Visits :
       \/ CheckBay(v) \/ PreBook(v) \/ CheckIn(v) \/ CheckOut(v)
       \/ ApproveVisitorEntry(v) \/ DeclineVisitorEntry(v)

ParkingSpec == ParkingInit /\ [][ParkingNext]_parkingVars

-----------------------------------------------------------------------------
(* A slot has one active allocation at most, though maintenance, a declined
   visitor or a save decided on before the allocation make its slot available. *)
OneAllocation == \A s \in Slots : \A a, b \in holders[s] : a = b

(* The pass that opens the gate is that of the active allocation: none outlives
   a release or a reassignment, none is missing. *)
PassesFollow ==
  \A a \in Allocations : pass[a] = "active" <=> \E s \in Slots : a \in holders[s]

(* Both, whatever is allocated, reassigned, released and maintained at once. *)
ParkingSound == OneAllocation /\ PassesFollow

(* What the code does not keep: an active allocation has an allocated slot, and
   the bay of a visitor who has left ("Bay is now available.") is available. *)
AllocatedSlots == \A s \in Slots : holders[s] # {} => slotStatus[s] = "allocated"
BaysAreFreed ==
  [][\A v \in Visits : CheckOut(v) => slotStatus[BayOf[v]] # "allocated"]_parkingVars
=============================================================================
