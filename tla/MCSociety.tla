------------------------------- MODULE MCSociety -------------------------------
(***************************************************************************)
(* One run for five components that share no state: the parking, the gate  *)
(* and the committee of a society, the rescheduling of a booking, and whom *)
(* a service listing may serve.                                            *)
(* `part` is the one that runs; the others stay in an initial state.       *)
(***************************************************************************)
EXTENDS Parking, Gate, Committee, ServiceBooking, ServiceAccess, TLC

VARIABLE part

CONSTANTS bay1, bay2  \* the slots
Bays == [v \in Visits |-> bay1]

CONSTANTS society1, noSociety  \* an area for the society, one for the public
Entered ==
  {[scope |-> "SOCIETY", society |-> society1, method |-> "SOCIETY", covers |-> FALSE],
   [scope |-> "PUBLIC", society |-> noSociety, method |-> "PLACE", covers |-> TRUE]}

suiteVars == <<part, parkingVars, gateVars, committeeVars, bookingVars, serviceVars>>

ParkingRests == slotStatus = [s \in Slots |-> "available"] /\ ParkingInit
GateRests == visitor = [v \in Visitors |-> "expected"] /\ GateInit
CommitteeRests == committee = "active" /\ granted = {} /\ inhabitant = Residents /\ CommitteeInit

SuiteInit ==
  /\ part \in {"parking", "gate", "committee", "booking", "services"}
  /\ IF part = "parking" THEN ParkingInit ELSE ParkingRests
  /\ IF part = "gate" THEN GateInit ELSE GateRests
  /\ IF part = "committee" THEN CommitteeInit ELSE CommitteeRests
  /\ BookingInit /\ ServiceInit

SuiteNext ==
  /\ UNCHANGED part
  /\ \/ /\ part = "parking" /\ ParkingNext
        /\ UNCHANGED <<gateVars, committeeVars, bookingVars, serviceVars>>
     \/ /\ part = "gate" /\ GateNext
        /\ UNCHANGED <<parkingVars, committeeVars, bookingVars, serviceVars>>
     \/ /\ part = "committee" /\ CommitteeNext
        /\ UNCHANGED <<parkingVars, gateVars, bookingVars, serviceVars>>
     \/ /\ part = "booking" /\ BookingNext
        /\ UNCHANGED <<parkingVars, gateVars, committeeVars, serviceVars>>
     \/ /\ part = "services" /\ ServiceNext
        /\ UNCHANGED <<parkingVars, gateVars, committeeVars, bookingVars>>

SuiteRun == SuiteInit /\ [][SuiteNext]_suiteVars

(* Rows and people who are treated alike are interchangeable.  Parts share their
   model values, which keeps the group small: two of these sets that belong to
   one part are disjoint. *)
SuiteSymmetry ==
  Permutations(Allocations \cup Assignments)
    \cup Permutations(Visits \cup Visitors \cup Residents \cup Requests \cup Buyers)

(* The variables of the part that runs have their types. *)
SocietyTypesOK ==
  /\ part = "parking" => ParkingTypeOK
  /\ part = "gate" => GateTypeOK
  /\ part = "committee" => CommitteeTypeOK
  /\ part = "booking" => BookingTypeOK
  /\ part = "services" => ServiceTypeOK
=============================================================================
