----------------------------- MODULE SocietyProofs -----------------------------
(***************************************************************************)
(* Proofs about a society: the allocations of its parking, the members of  *)
(* its committee, its visitors and guards, for any number of them and of   *)
(* requests at once.                                                       *)
(***************************************************************************)
EXTENDS MCSociety, ServiceBookingProofs

(* Every reachable state is well typed. *)
THEOREM ParkingTypes == ParkingSpec => []ParkingTypeOK
<1>1. ParkingInit => ParkingTypeOK
  BY DEF ParkingInit, ParkingTypeOK, SlotStatuses, VisitStatuses
<1>2. ParkingTypeOK /\ [ParkingNext]_parkingVars => ParkingTypeOK'
  <2> SUFFICES ASSUME ParkingTypeOK, [ParkingNext]_parkingVars PROVE ParkingTypeOK'
    OBVIOUS
  <2> USE ParkingAssumption DEF ParkingTypeOK, SlotStatuses, VisitStatuses
  <2>1. ASSUME NEW a \in Allocations, NEW s \in Slots, AllocateSlot(a, s) \/ ReleaseSlot(a, s)
        PROVE  ParkingTypeOK'
    BY <2>1 DEF AllocateSlot, ReleaseSlot
  <2>2. ASSUME NEW a \in Allocations, NEW b \in Allocations, NEW s \in Slots, ReassignSlot(a, b, s)
        PROVE  ParkingTypeOK'
    BY <2>2 DEF ReassignSlot
  <2>3. ASSUME NEW s \in Slots, BlockParkingSlot(s) \/ UnblockParkingSlot(s) \/ SetSlotMaintenance(s)
        PROVE  ParkingTypeOK'
    BY <2>3 DEF BlockParkingSlot, UnblockParkingSlot, SetSlotMaintenance, Decide, Saving
  <2>4. ASSUME NEW w \in saves, SaveSlot(w) PROVE ParkingTypeOK'
    BY <2>4 DEF SaveSlot
  <2>5. ASSUME NEW v \in Visits, CheckBay(v) \/ PreBook(v) \/ CheckIn(v) \/ CheckOut(v)
        PROVE  ParkingTypeOK'
    BY <2>5 DEF CheckBay, PreBook, CheckIn, CheckOut, SetVisit
  <2>6. ASSUME NEW v \in Visits, ApproveVisitorEntry(v) \/ DeclineVisitorEntry(v)
        PROVE  ParkingTypeOK'
    BY <2>6 DEF ApproveVisitorEntry, DeclineVisitorEntry, Answer, Saving
  <2>7. CASE UNCHANGED parkingVars
    BY <2>7 DEF parkingVars
  <2> QED
    BY <2>1, <2>2, <2>3, <2>4, <2>5, <2>6, <2>7 DEF ParkingNext
<1> QED
  BY <1>1, <1>2, PTL DEF ParkingSpec

-----------------------------------------------------------------------------
(* Steps other than those of allocations touch neither holders nor passes. *)
Aside == UNCHANGED <<holders, pass>>

LEMMA StepsAside ==
  ASSUME [ParkingNext]_parkingVars
  PROVE  \/ Aside
         \/ \E s \in Slots, a \in Allocations :
              \/ AllocateSlot(a, s) \/ ReleaseSlot(a, s)
              \/ \E b \in Allocations : ReassignSlot(a, b, s)
<1>1. ASSUME NEW s \in Slots, BlockParkingSlot(s) \/ UnblockParkingSlot(s) \/ SetSlotMaintenance(s)
      PROVE  Aside
  BY <1>1 DEF BlockParkingSlot, UnblockParkingSlot, SetSlotMaintenance, Decide, Aside
<1>2. ASSUME NEW w \in saves, SaveSlot(w) PROVE Aside
  BY <1>2 DEF SaveSlot, Aside
<1>3. ASSUME NEW v \in Visits, \/ CheckBay(v) \/ PreBook(v) \/ CheckIn(v) \/ CheckOut(v)
                               \/ ApproveVisitorEntry(v) \/ DeclineVisitorEntry(v)
      PROVE  Aside
  BY <1>3 DEF CheckBay, PreBook, CheckIn, CheckOut, SetVisit, ApproveVisitorEntry,
              DeclineVisitorEntry, Answer, Aside
<1>4. CASE UNCHANGED parkingVars
  BY <1>4 DEF parkingVars, Aside
<1> QED
  BY <1>1, <1>2, <1>3, <1>4 DEF ParkingNext

(* An allocation is of one slot: a release that left it elsewhere would leave it
   without its pass. *)
OneSlotEach ==
  \A s, t \in Slots : \A a \in holders[s] \cap holders[t] : s = t

AllocationInv == ParkingSound /\ OneSlotEach

LEMMA AllocationStep ==
  ASSUME ParkingTypeOK, AllocationInv, [ParkingNext]_parkingVars
  PROVE  AllocationInv'
<1> USE DEF ParkingTypeOK, AllocationInv, ParkingSound, OneAllocation, PassesFollow, OneSlotEach
<1>1. CASE Aside
  BY <1>1 DEF Aside
<1>2. ASSUME NEW s \in Slots, NEW a \in Allocations, AllocateSlot(a, s)
      PROVE  AllocationInv'
  <2>1. /\ holders' = [holders EXCEPT ![s] = {a}] /\ pass' = [pass EXCEPT ![a] = "active"]
        /\ holders[s] = {}
    BY <1>2 DEF AllocateSlot
  <2>2. \A t \in Slots : a \notin holders[t]
    BY <1>2 DEF AllocateSlot
  <2>3. \A t \in Slots : holders'[t] = IF t = s THEN {a} ELSE holders[t]
    BY <2>1
  <2>4. \A b \in Allocations : pass'[b] = IF b = a THEN "active" ELSE pass[b]
    BY <2>1
  <2>5. OneAllocation' /\ OneSlotEach'
    BY <2>2, <2>3
  <2>6. PassesFollow'
    BY <2>1, <2>3, <2>4
  <2> QED
    BY <2>5, <2>6
<1>3. ASSUME NEW s \in Slots, NEW a \in Allocations, ReleaseSlot(a, s)
      PROVE  AllocationInv'
  <2>1. /\ holders' = [holders EXCEPT ![s] = @ \ {a}] /\ pass' = [pass EXCEPT ![a] = "revoked"]
        /\ a \in holders[s]
    BY <1>3 DEF ReleaseSlot
  <2>2. \A t \in Slots : holders'[t] = holders[t] \ {a}
    BY <2>1
  <2>3. \A b \in Allocations : pass'[b] = IF b = a THEN "revoked" ELSE pass[b]
    BY <2>1
  <2>4. OneAllocation' /\ OneSlotEach'
    BY <2>2
  <2>5. ASSUME NEW b \in Allocations
        PROVE  pass'[b] = "active" <=> \E t \in Slots : b \in holders'[t]
    <3>1. pass[b] = "active" <=> \E t \in Slots : b \in holders[t]
      OBVIOUS
    <3>2. CASE b = a
      BY <2>2, <2>3, <3>2
    <3>3. CASE b # a
      BY <2>2, <2>3, <3>1, <3>3
    <3> QED
      BY <3>2, <3>3
  <2> QED
    BY <2>4, <2>5
<1>4. ASSUME NEW s \in Slots, NEW a \in Allocations, NEW b \in Allocations, ReassignSlot(a, b, s)
      PROVE  AllocationInv'
  <2>1. /\ holders' = [holders EXCEPT ![s] = (@ \ {a}) \cup {b}]
        /\ pass' = [pass EXCEPT ![a] = "revoked", ![b] = "active"]
        /\ a \in holders[s] /\ pass[b] = "unborn"
    BY <1>4 DEF ReassignSlot
  <2>2. /\ a # b /\ holders[s] = {a}
        /\ \A t \in Slots : b \notin holders[t] /\ (t # s => a \notin holders[t])
    BY <2>1
  <2> DEFINE others == (holders[s] \ {a}) \cup {b}
  <2>3. others = {b}
    BY <2>2
  <2>4. \A t \in Slots : holders'[t] = IF t = s THEN others ELSE holders[t]
    BY <2>1
  <2>5. \A t \in Slots : holders'[t] = IF t = s THEN {b} ELSE holders[t]
    BY <2>3, <2>4
  <2>6. \A c \in Allocations :
          pass'[c] = IF c = b THEN "active" ELSE IF c = a THEN "revoked" ELSE pass[c]
    BY <2>1, <2>2
  <2>7. OneAllocation' /\ OneSlotEach'
    BY <2>2, <2>5
  <2>8. PassesFollow'
    BY <2>2, <2>5, <2>6
  <2> QED
    BY <2>7, <2>8
<1> QED
  BY <1>1, <1>2, <1>3, <1>4, StepsAside

(* However slots are allocated, reassigned, released and saved at once, a slot has
   one active allocation at most, and the active passes are those of the
   allocations. *)
THEOREM AllocationsAreSound == ParkingSpec => []ParkingSound
<1>1. ParkingInit => AllocationInv
  BY DEF ParkingInit, AllocationInv, ParkingSound, OneAllocation, PassesFollow, OneSlotEach
<1>2. ParkingTypeOK /\ AllocationInv /\ [ParkingNext]_parkingVars => AllocationInv'
  BY AllocationStep
<1>3. AllocationInv => ParkingSound
  BY DEF AllocationInv
<1> QED
  BY <1>1, <1>2, <1>3, ParkingTypes, PTL DEF ParkingSpec

-----------------------------------------------------------------------------
(* A row that an addition has found is one of its user. *)
FoundRows ==
  \A q \in Adders : adding[q] # NotAdding /\ adding[q].found # 0 =>
    rows[adding[q].found] # NoRow /\ rows[adding[q].found].user = adding[q].user

RowsInv == CommitteeTypeOK /\ FoundRows

LEMMA RowsInit == CommitteeInit => RowsInv
<1> SUFFICES ASSUME CommitteeInit PROVE RowsInv
  OBVIOUS
<1>1. granted \subseteq 0..LastRow
  BY CommitteeAssumption DEF CommitteeInit
<1> QED
  BY <1>1 DEF CommitteeInit, RowsInv, CommitteeTypeOK, FoundRows

(* A row that there is keeps its user, whatever becomes of its status. *)
LEMMA RowChanged ==
  ASSUME RowsInv, NEW i \in RowIds, rows[i] # NoRow,
         Drop(i) \/ \E s \in MemberStatuses : Put(i, s), UNCHANGED adding
  PROVE  rows' \in [RowIds -> MemberRows \cup {NoRow}] /\ FoundRows'
<1> USE DEF RowsInv, CommitteeTypeOK
<1>1. rows[i] \in MemberRows
  OBVIOUS
<1>2. /\ rows'[i] \in MemberRows /\ rows'[i].user = rows[i].user
      /\ rows' \in [RowIds -> MemberRows \cup {NoRow}]
      /\ \A j \in RowIds \ {i} : rows'[j] = rows[j]
  BY <1>1 DEF Put, Drop, MemberRows, MemberStatuses
<1>3. \A x \in MemberRows : x # NoRow
  BY DEF MemberRows, NoRow, MemberStatuses
<1>4. \A q \in Adders : adding[q] # NotAdding /\ adding[q].found # 0 => adding[q].found \in RowIds
  BY DEF RowIds
<1> QED
  BY <1>2, <1>3, <1>4 DEF FoundRows

LEMMA RowsStep == RowsInv /\ [CommitteeNext]_committeeVars => RowsInv'
<1> SUFFICES ASSUME RowsInv, [CommitteeNext]_committeeVars PROVE RowsInv'
  OBVIOUS
<1> USE CommitteeAssumption DEF RowsInv, CommitteeTypeOK
<1>1. ASSUME NEW s \in {"active", "inactive"}, NEW g \in {{}, {0}}, UpdateCommittee(s, g)
      PROVE  RowsInv'
  <2>1. g \subseteq 0..LastRow
    OBVIOUS
  <2> QED
    BY <1>1, <2>1 DEF UpdateCommittee, FoundRows
<1>2. CASE DeleteCommittee
  <2>1. \A i \in RowIds :
          rows'[i] \in MemberRows \cup {NoRow}
            /\ (rows[i] # NoRow => rows'[i] # NoRow /\ rows'[i].user = rows[i].user)
    BY <1>2 DEF DeleteCommittee, Exists, MemberRows, MemberStatuses, NoRow
  <2>2. rows' \in [RowIds -> MemberRows \cup {NoRow}]
    BY <1>2, <2>1 DEF DeleteCommittee
  <2>3. \A q \in Adders : adding[q] # NotAdding /\ adding[q].found # 0 => adding[q].found \in RowIds
    BY DEF RowIds
  <2> QED
    BY <1>2, <2>1, <2>2, <2>3 DEF DeleteCommittee, FoundRows
<1>3. ASSUME NEW q \in Adders, AddMember(q) PROVE RowsInv'
  <2>1. PICK i \in RowIds :
          /\ \/ adding[q].found = i /\ Put(i, "pending")
             \/ /\ adding[q].found = 0 /\ NextRow(i)
                /\ rows' = [rows EXCEPT ![i] =
                     [user |-> adding[q].user, status |-> "pending", deleted |-> FALSE]]
          /\ granted' \in {granted, granted \cup {i}, granted \ {i}}
    BY <1>3 DEF AddMember
  <2>2. adding[q] \in [user : Residents, found : 0..LastRow]
    BY <1>3 DEF AddMember
  <2>3. i \in 1..LastRow /\ i # 0 /\ granted' \subseteq 0..LastRow
    BY <2>1 DEF RowIds
  <2>4. adding[q].found = i => rows[i] \in MemberRows
    BY <1>3, <2>3 DEF AddMember, FoundRows
  <2>5. /\ rows'[i] \in MemberRows /\ rows'[i].user = adding[q].user
        /\ \A j \in RowIds \ {i} : rows'[j] = rows[j]
        /\ rows' \in [RowIds -> MemberRows \cup {NoRow}]
    <3>1. CASE adding[q].found = i /\ Put(i, "pending")
      <4>1. rows[i] \in MemberRows /\ rows[i].user = adding[q].user
        BY <1>3, <2>3, <2>4, <3>1 DEF AddMember, FoundRows
      <4> QED
        BY <3>1, <4>1, <2>3 DEF Put, MemberRows, MemberStatuses
    <3>2. CASE rows' = [rows EXCEPT ![i] =
                 [user |-> adding[q].user, status |-> "pending", deleted |-> FALSE]]
      <4>1. [user |-> adding[q].user, status |-> "pending", deleted |-> FALSE] \in MemberRows
        BY <2>2 DEF MemberRows, MemberStatuses
      <4> QED
        BY <3>2, <4>1
    <3> QED
      BY <2>1, <3>1, <3>2
  <2>6. \A x \in MemberRows : x # NoRow
    BY DEF MemberRows, NoRow, MemberStatuses
  <2>7. rows[i] # NoRow => rows'[i].user = rows[i].user
    BY <1>3, <2>1, <2>3, <2>5 DEF AddMember, FoundRows, NextRow
  <2>8. \A o \in Adders : adding[o] # NotAdding /\ adding[o].found # 0 => adding[o].found \in RowIds
    BY DEF RowIds
  <2>9. FoundRows'
    BY <1>3, <2>5, <2>6, <2>7, <2>8 DEF AddMember, FoundRows
  <2> QED
    BY <1>3, <2>3, <2>5, <2>9 DEF AddMember
<1>4. ASSUME NEW q \in Adders, NEW u \in Residents, CheckMember(q, u) PROVE RowsInv'
  <2>1. PICK i \in Found(u) : adding' = [adding EXCEPT ![q] = [user |-> u, found |-> i]]
    BY <1>4 DEF CheckMember
  <2>2. i \in 0..LastRow /\ (i # 0 => rows[i] # NoRow /\ rows[i].user = u)
    BY DEF Found, First, RowsOf, Exists, RowIds
  <2>3. [user |-> u, found |-> i] \in [user : Residents, found : 0..LastRow]
    BY <2>2
  <2> QED
    BY <1>4, <2>1, <2>2, <2>3 DEF CheckMember, FoundRows
<1>5. ASSUME NEW i \in 0..LastRow, NEW give \in BOOLEAN, AssignCommitteePermissions(i, give)
      PROVE  RowsInv'
  BY <1>5 DEF AssignCommitteePermissions, FoundRows
<1>6. ASSUME NEW i \in RowIds,
             \/ AcceptInvitation(i) \/ RejectInvitation(i)
             \/ ResendInvitation(i) \/ CancelInvitation(i)
      PROVE  RowsInv'
  <2>1. rows[i] # NoRow /\ rows[i] \in MemberRows /\ rows[i].user \in Residents
    BY <1>6 DEF AcceptInvitation, RejectInvitation, ResendInvitation, CancelInvitation, Exists,
       MemberRows
  <2>2. UNCHANGED adding /\ (Drop(i) \/ \E s \in MemberStatuses : Put(i, s))
    BY <1>6 DEF AcceptInvitation, RejectInvitation, ResendInvitation, CancelInvitation,
       SetStatus, MemberStatuses
  <2>3. UNCHANGED <<committee, granted>> /\ inhabitant' \subseteq Residents /\ barred' \subseteq Residents
    BY <1>6, <2>1 DEF AcceptInvitation, RejectInvitation, ResendInvitation, CancelInvitation, SetStatus
  <2> QED
    BY <2>1, <2>2, <2>3, RowChanged
<1>7. ASSUME NEW u \in Residents, NEW i \in RowIds,
             \/ SuspendCommitteeMember(u, i) \/ RevokeCommitteeMember(u, i)
             \/ ActivateCommitteeMember(u, i) \/ RemoveCommitteeMember(u, i)
      PROVE  RowsInv'
  <2> USE <1>7 DEF SuspendCommitteeMember, RevokeCommitteeMember, ActivateCommitteeMember,
          RemoveCommitteeMember, SetStatus, PutOut
  <2>1. rows[i] # NoRow
    BY DEF First, RowsOf, Exists
  <2>2. UNCHANGED adding /\ (Drop(i) \/ \E s \in MemberStatuses : Put(i, s))
    BY DEF MemberStatuses
  <2>3. UNCHANGED <<committee, inhabitant>> /\ granted' \subseteq granted /\ barred' \subseteq Residents
    OBVIOUS
  <2> QED
    BY <2>1, <2>2, <2>3, RowChanged
<1>8. CASE UNCHANGED committeeVars
  BY <1>8 DEF committeeVars, FoundRows
<1> QED
  BY <1>1, <1>2, <1>3, <1>4, <1>5, <1>6, <1>7, <1>8 DEF CommitteeNext

(* Every reachable state is well typed. *)
THEOREM CommitteeTypes == CommitteeSpec => []CommitteeTypeOK
<1>1. RowsInv => CommitteeTypeOK
  BY DEF RowsInv
<1> QED
  BY <1>1, RowsInit, RowsStep, PTL DEF CommitteeSpec
-----------------------------------------------------------------------------
(* Without two additions of one user at once, an addition that found no row still
   finds none, and one that found a row found his ... *)
FoundInv ==
  /\ \A q, o \in Adders : adding[q] # NotAdding /\ adding[o] # NotAdding /\ q # o
       => adding[q].user # adding[o].user
  /\ \A q \in Adders : adding[q] # NotAdding /\ adding[q].found = 0
       => RowsOf(adding[q].user) = {}

(* ... and who is barred has no row that an answer of his own makes active. *)
OutInv ==
  \A u \in barred : \A i \in RowsOf(u) : rows[i].status \in {"suspended", "revoked", "rejected"}

SeatInv == RowsInv /\ OneRowEach /\ FoundInv /\ OutInv

LEMMA RowsOfChanged ==
  ASSUME RowsInv, NEW i \in RowIds, rows[i] # NoRow,
         Drop(i) \/ \E s \in MemberStatuses : Put(i, s)
  PROVE  /\ \A u : RowsOf(u)' \subseteq RowsOf(u)
         /\ \A j \in RowIds \ {i} : rows'[j] = rows[j]
         /\ rows'[i].user = rows[i].user
         /\ Drop(i) => \A u : i \notin RowsOf(u)'
<1>1. rows[i] \in MemberRows
  BY DEF RowsInv, CommitteeTypeOK
<1>2. /\ \A j \in RowIds \ {i} : rows'[j] = rows[j]
      /\ rows'[i].user = rows[i].user
      /\ Drop(i) => rows'[i].deleted
      /\ ~Drop(i) => rows'[i].deleted = rows[i].deleted
  BY <1>1 DEF RowsInv, CommitteeTypeOK, Put, Drop, MemberRows
<1> QED
  BY <1>1, <1>2 DEF RowsOf, Exists

LEMMA SeatsKept ==
  ASSUME SeatInv, UNCHANGED adding, \A u : RowsOf(u)' \subseteq RowsOf(u)
  PROVE  OneRowEach' /\ FoundInv'
<1>1. OneRowEach'
  BY DEF SeatInv, OneRowEach
<1>2. FoundInv'
  <2>1. \A u : RowsOf(u) = {} => RowsOf(u)' = {}
    OBVIOUS
  <2> QED
    BY <2>1 DEF SeatInv, FoundInv
<1> QED
  BY <1>1, <1>2

LEMMA SeatStep ==
  ASSUME ~AddsTwice, SeatInv, [CommitteeNext]_committeeVars
  PROVE  SeatInv'
<1>0. RowsInv'
  BY RowsStep DEF SeatInv
<1>a. CommitteeTypeOK
  BY DEF SeatInv, RowsInv
<1>1. ASSUME UNCHANGED <<rows, adding, barred>> PROVE SeatInv'
  <2>1. \A u : RowsOf(u)' = RowsOf(u)
    BY <1>1 DEF RowsOf, Exists
  <2> QED
    BY <1>0, <1>1, <2>1 DEF SeatInv, OneRowEach, FoundInv, OutInv
<1>2. CASE DeleteCommittee
  <2>1. \A u : RowsOf(u)' = {}
    BY <1>2, <1>a DEF DeleteCommittee, RowsOf, Exists, CommitteeTypeOK, MemberRows, NoRow
  <2> QED
    BY <1>0, <1>2, <2>1, SeatsKept DEF DeleteCommittee, SeatInv, OutInv
<1>3. ASSUME NEW q \in Adders, AddMember(q) PROVE SeatInv'
  <2>1. PICK i \in RowIds :
          \/ adding[q].found = i /\ Put(i, "pending")
          \/ /\ adding[q].found = 0 /\ NextRow(i)
             /\ rows' = [rows EXCEPT ![i] =
                  [user |-> adding[q].user, status |-> "pending", deleted |-> FALSE]]
    BY <1>3 DEF AddMember
  <2>2. /\ adding[q] # NotAdding /\ adding[q] \in [user : Residents, found : 0..LastRow]
        /\ adding' = [adding EXCEPT ![q] = NotAdding]
        /\ barred' = barred \ {adding[q].user}
    BY <1>3, <1>a DEF AddMember, CommitteeTypeOK
  <2>3. \A u : \A j \in RowsOf(u)' :
          /\ j \in RowIds
          /\ IF j = i THEN u = adding[q].user /\ (adding[q].found = 0 \/ i \in RowsOf(u))
             ELSE j \in RowsOf(u) /\ rows'[j] = rows[j]
    <3>1. CASE adding[q].found = i /\ Put(i, "pending")
      <4>1. i # 0 /\ rows[i] # NoRow /\ rows[i] \in MemberRows /\ rows[i].user = adding[q].user
        BY <2>2, <3>1, <1>a, CommitteeAssumption DEF SeatInv, RowsInv, FoundRows, CommitteeTypeOK, RowIds
      <4>2. /\ \A j \in RowIds \ {i} : rows'[j] = rows[j]
            /\ rows'[i] # NoRow /\ rows'[i].user = adding[q].user /\ rows'[i].deleted = rows[i].deleted
        <5>1. rows'[i] \in MemberRows
          BY <4>1, <3>1, <1>a DEF Put, CommitteeTypeOK, MemberRows, MemberStatuses
        <5>2. rows'[i] # NoRow
          BY <5>1 DEF MemberRows, NoRow, MemberStatuses
        <5> QED
          BY <4>1, <5>2, <3>1, <1>a DEF Put, CommitteeTypeOK, MemberRows
      <4> QED
        BY <4>1, <4>2 DEF RowsOf, Exists
    <3>2. CASE /\ adding[q].found = 0 /\ NextRow(i)
               /\ rows' = [rows EXCEPT ![i] =
                    [user |-> adding[q].user, status |-> "pending", deleted |-> FALSE]]
      <4>1. /\ \A j \in RowIds \ {i} : rows'[j] = rows[j]
            /\ rows[i] = NoRow /\ rows'[i].user = adding[q].user
        BY <3>2, <1>a DEF CommitteeTypeOK, NextRow
      <4> QED
        BY <3>2, <4>1 DEF RowsOf, Exists
    <3> QED
      BY <2>1, <3>1, <3>2
  <2>4. adding[q].found = 0 => RowsOf(adding[q].user) = {}
    BY <2>2 DEF SeatInv, FoundInv
  <2>5. OneRowEach'
    <3>1. ASSUME NEW u \in Residents, NEW j \in RowsOf(u)', NEW k \in RowsOf(u)', j # k PROVE FALSE
      <4>1. \A x, y \in RowsOf(u) : x = y
        BY DEF SeatInv, OneRowEach
      <4> QED
        BY <3>1, <4>1, <2>3, <2>4
    <3> QED
      BY <3>1 DEF OneRowEach
  <2>6. FoundInv'
    <3>1. \A o \in Adders : adding'[o] # NotAdding =>
            adding[o] # NotAdding /\ adding'[o] = adding[o] /\ adding[o].user # adding[q].user
      BY <2>2, <1>a DEF SeatInv, FoundInv, CommitteeTypeOK
    <3>2. \A o \in Adders : adding'[o] # NotAdding /\ adding'[o].found = 0
            => RowsOf(adding[o].user)' = {}
      BY <3>1, <2>3 DEF SeatInv, FoundInv
    <3> QED
      BY <3>1, <3>2 DEF SeatInv, FoundInv
  <2>7. OutInv'
    BY <2>2, <2>3 DEF SeatInv, OutInv
  <2> QED
    BY <1>0, <2>5, <2>6, <2>7 DEF SeatInv
<1>4. ASSUME NEW q \in Adders, NEW u \in Residents, CheckMember(q, u) PROVE SeatInv'
  <2>1. PICK i \in Found(u) : adding' = [adding EXCEPT ![q] = [user |-> u, found |-> i]]
    BY <1>4 DEF CheckMember
  <2>2. i = 0 => RowsOf(u) = {}
    BY <2>1, CommitteeAssumption DEF Found, First, RowsOf, RowIds
  <2>3. \A w : RowsOf(w)' = RowsOf(w)
    BY <1>4 DEF CheckMember, RowsOf, Exists
  <2>4. /\ adding'[q].user = u /\ adding'[q].found = i
        /\ \A o \in Adders \ {q} : adding'[o] = adding[o]
        /\ \A o \in Adders : adding[o] # NotAdding => adding[o].user # u
    BY <1>4, <2>1, <1>a DEF CheckMember, CommitteeTypeOK
  <2>5. FoundInv'
    BY <2>2, <2>3, <2>4 DEF SeatInv, FoundInv
  <2> QED
    BY <1>0, <1>4, <2>3, <2>5 DEF CheckMember, SeatInv, OneRowEach, OutInv
<1>5. ASSUME NEW i \in RowIds, AcceptInvitation(i) PROVE SeatInv'
  <2>1. /\ rows[i] # NoRow /\ i \in RowsOf(rows[i].user)
        /\ rows[i].status \notin {"suspended", "revoked", "rejected"}
        /\ \E s \in MemberStatuses : Put(i, s)
        /\ UNCHANGED <<adding, barred>>
    BY <1>5 DEF AcceptInvitation, RowsOf, Exists, MemberStatuses
  <2>2. rows[i].user \notin barred
    BY <2>1 DEF SeatInv, OutInv
  <2>3. OutInv'
    BY <2>1, <2>2, RowsOfChanged DEF SeatInv, OutInv, RowsOf
  <2> QED
    BY <1>0, <2>1, <2>3, RowsOfChanged, SeatsKept DEF SeatInv
<1>6. ASSUME NEW i \in RowIds, RejectInvitation(i) PROVE SeatInv'
  <2>1. rows[i] # NoRow /\ Put(i, "rejected") /\ UNCHANGED <<adding, barred>> /\ rows[i] \in MemberRows
    BY <1>6, <1>a DEF RejectInvitation, SetStatus, CommitteeTypeOK
  <2>2. (\E s \in MemberStatuses : Put(i, s)) /\ rows'[i].status = "rejected"
    BY <2>1, <1>a DEF Put, MemberStatuses, MemberRows, CommitteeTypeOK
  <2>3. OutInv'
    BY <2>1, <2>2, RowsOfChanged DEF SeatInv, OutInv, RowsOf
  <2> QED
    BY <1>0, <2>1, <2>2, <2>3, RowsOfChanged, SeatsKept DEF SeatInv
<1>7. ASSUME NEW i \in RowIds, ResendInvitation(i) PROVE SeatInv'
  <2>1. /\ rows[i] # NoRow /\ UNCHANGED adding /\ barred' = barred \ {rows[i].user}
        /\ \E s \in MemberStatuses : Put(i, s)
    BY <1>7 DEF ResendInvitation, SetStatus, MemberStatuses
  <2>2. OutInv'
    BY <2>1, RowsOfChanged DEF SeatInv, OutInv, RowsOf
  <2> QED
    BY <1>0, <2>1, <2>2, RowsOfChanged, SeatsKept DEF SeatInv
<1>8. ASSUME NEW i \in RowIds, CancelInvitation(i) PROVE SeatInv'
  <2>1. rows[i] # NoRow /\ Drop(i) /\ UNCHANGED <<adding, barred>>
    BY <1>8 DEF CancelInvitation, Exists
  <2>2. OutInv'
    BY <2>1, RowsOfChanged DEF SeatInv, OutInv, RowsOf
  <2> QED
    BY <1>0, <2>1, <2>2, RowsOfChanged, SeatsKept DEF SeatInv
<1>9. ASSUME NEW u \in Residents, NEW i \in RowIds,
             \/ SuspendCommitteeMember(u, i) \/ RevokeCommitteeMember(u, i)
             \/ ActivateCommitteeMember(u, i) \/ RemoveCommitteeMember(u, i)
      PROVE  SeatInv'
  <2> USE <1>9 DEF SuspendCommitteeMember, RevokeCommitteeMember, ActivateCommitteeMember,
          RemoveCommitteeMember, SetStatus, PutOut
  <2>1. i \in RowsOf(u) /\ rows[i] # NoRow /\ rows[i].user = u /\ rows[i] \in MemberRows
    BY <1>a DEF First, RowsOf, Exists, CommitteeTypeOK
  <2>2. UNCHANGED adding /\ (Drop(i) \/ \E s \in MemberStatuses : Put(i, s))
    BY DEF MemberStatuses
  <2>3. \A j \in RowsOf(u)' : j = i
    BY <2>1, <2>2, RowsOfChanged DEF SeatInv, OneRowEach
  <2>4. \/ barred' = barred \ {u}
        \/ barred' = barred \cup {u} /\ Drop(i)
        \/ barred' = barred \cup {u} /\ rows'[i].status \in {"suspended", "revoked"}
    BY <2>1, <1>a DEF Put, CommitteeTypeOK, MemberRows
  <2>5. OutInv'
    <3> SUFFICES ASSUME NEW w \in barred', NEW j \in RowsOf(w)'
                 PROVE  rows'[j].status \in {"suspended", "revoked", "rejected"}
      BY DEF OutInv
    <3>1. CASE w = u
      BY <2>1, <2>2, <2>3, <2>4, <3>1, RowsOfChanged DEF SeatInv
    <3>2. CASE w # u
      <4>1. w \in barred /\ j \in RowsOf(w) /\ j # i /\ rows'[j] = rows[j]
        BY <2>1, <2>2, <2>4, <3>2, RowsOfChanged DEF SeatInv, RowsOf
      <4> QED
        BY <4>1 DEF SeatInv, OutInv
    <3> QED
      BY <3>1, <3>2
  <2> QED
    BY <1>0, <2>1, <2>2, <2>5, RowsOfChanged, SeatsKept DEF SeatInv
<1>10. ASSUME NEW s \in {"active", "inactive"}, NEW g \in {{}, {0}}, UpdateCommittee(s, g)
       PROVE  SeatInv'
  BY <1>1, <1>10 DEF UpdateCommittee
<1>11. ASSUME NEW i \in 0..LastRow, NEW give \in BOOLEAN, AssignCommitteePermissions(i, give)
       PROVE  SeatInv'
  BY <1>1, <1>11 DEF AssignCommitteePermissions
<1>12. CASE UNCHANGED committeeVars
  BY <1>1, <1>12 DEF committeeVars
<1> QED
  BY <1>2, <1>3, <1>4, <1>5, <1>6, <1>7, <1>8, <1>9, <1>10, <1>11, <1>12 DEF CommitteeNext

(* Without two additions of one user at once, who was suspended, revoked or removed
   has no right of the committee until he is invited anew or activated, whatever
   the number of users, rows and additions. *)
THEOREM BarredStayOut ==
  ASSUME ~AddsTwice
  PROVE  CommitteeSpec => []BarredHaveNoRight
<1>1. CommitteeInit => SeatInv
  <2> SUFFICES ASSUME CommitteeInit PROVE SeatInv
    OBVIOUS
  <2>1. \A u : RowsOf(u) = {}
    BY DEF CommitteeInit, RowsOf, Exists
  <2> QED
    BY <2>1, RowsInit DEF CommitteeInit, SeatInv, OneRowEach, FoundInv, OutInv
<1>2. SeatInv /\ [CommitteeNext]_committeeVars => SeatInv'
  BY SeatStep
<1>3. SeatInv => BarredHaveNoRight
  BY DEF SeatInv, OutInv, BarredHaveNoRight, HasRight
<1> QED
  BY <1>1, <1>2, <1>3, PTL DEF CommitteeSpec

-----------------------------------------------------------------------------
(* Requests on visitors leave the guards alone, and the other way round.   *)

VisitorStep ==
  \/ \E c \in Clerks :
       \/ UpdateVisitorStatus(c) \/ RefuseVisitorUpdate(c)
       \/ \E v \in Visitors, to \in VisitorStatuses : ReadVisitor(c, v, to)
  \/ \E v \in Visitors : SoftDeleteVisitor(v)

LEMMA TwoSides ==
  ASSUME [GateNext]_gateVars
  PROVE  /\ UNCHANGED visitorVars \/ VisitorStep
         /\ \/ UNCHANGED guardVars
            \/ \E g \in Guards :
                 \/ OnboardGuard(g) \/ CheckGuard(g) \/ AssignGuard(g)
                 \/ \E s \in {"active", "inactive", "deleted"} : UpdateGuardStatus(g, s)
                 \/ \E s \in {"active", "inactive"} : UpdateGuard(g, s)
<1>1. CASE UNCHANGED gateVars
  BY <1>1 DEF gateVars, visitorVars, guardVars
<1>2. CASE VisitorStep
  <2>1. UNCHANGED guardVars
    BY <1>2 DEF VisitorStep, UpdateVisitorStatus, RefuseVisitorUpdate, ReadVisitor, SoftDeleteVisitor, Free
  <2> QED
    BY <1>2, <2>1
<1>3. ASSUME NEW g \in Guards,
             \/ OnboardGuard(g) \/ CheckGuard(g) \/ AssignGuard(g)
             \/ \E s \in {"active", "inactive", "deleted"} : UpdateGuardStatus(g, s)
             \/ \E s \in {"active", "inactive"} : UpdateGuard(g, s)
      PROVE  UNCHANGED visitorVars
  BY <1>3 DEF OnboardGuard, CheckGuard, AssignGuard, UpdateGuardStatus, UpdateGuard
<1> QED
  BY <1>1, <1>2, <1>3 DEF GateNext, VisitorStep

-----------------------------------------------------------------------------
(* Types.                                                                  *)

VisitorTypes ==
  /\ visitor \in [Visitors -> VisitorStatuses \cup {"deleted"}]
  /\ visitorLock \in [Visitors -> Clerks \cup {NoClerk}]
  /\ clerk \in [Clerks -> ClerkStates]

GuardTypes ==
  /\ guard \in [Guards -> {"active", "inactive", "deleted"}]
  /\ duty \in [Guards -> SUBSET Assignments] /\ pastDuties \subseteq Assignments
  /\ assigning \subseteq Guards

LEMMA VisitorTypesStep ==
  ASSUME VisitorTypes, UNCHANGED visitorVars \/ VisitorStep
  PROVE  VisitorTypes'
<1> USE DEF VisitorTypes
<1>1. ASSUME NEW c \in Clerks, Free(c)
      PROVE  /\ visitorLock' \in [Visitors -> Clerks \cup {NoClerk}]
             /\ clerk' \in [Clerks -> ClerkStates]
  BY <1>1 DEF Free, ClerkStates
<1>2. ASSUME NEW c \in Clerks, UpdateVisitorStatus(c) PROVE VisitorTypes'
  <2>1. clerk[c] \in ClerkStates /\ clerk[c] # IdleClerk
    BY <1>2 DEF UpdateVisitorStatus
  <2>2. clerk[c].to \in VisitorStatuses
    BY <2>1 DEF ClerkStates
  <2> QED
    BY <1>1, <1>2, <2>2 DEF UpdateVisitorStatus
<1>3. ASSUME NEW c \in Clerks, RefuseVisitorUpdate(c) PROVE VisitorTypes'
  BY <1>1, <1>3 DEF RefuseVisitorUpdate
<1>4. ASSUME NEW c \in Clerks, NEW v \in Visitors, NEW to \in VisitorStatuses, ReadVisitor(c, v, to)
      PROVE  VisitorTypes'
  <2>1. visitor[v] \in VisitorStatuses
    BY <1>4 DEF ReadVisitor
  <2>2. [state |-> "deciding", of |-> v, read |-> visitor[v], to |-> to] \in ClerkStates
    BY <2>1 DEF ClerkStates
  <2> QED
    BY <1>4, <2>2 DEF ReadVisitor, Deciding
<1>5. ASSUME NEW v \in Visitors, SoftDeleteVisitor(v) PROVE VisitorTypes'
  BY <1>5 DEF SoftDeleteVisitor
<1>6. CASE UNCHANGED visitorVars
  BY <1>6 DEF visitorVars
<1> QED
  BY <1>2, <1>3, <1>4, <1>5, <1>6 DEF VisitorStep

LEMMA GuardTypesStep ==
  ASSUME GuardTypes, [GateNext]_gateVars
  PROVE  GuardTypes'
<1> USE DEF GuardTypes
<1>1. ASSUME NEW g \in Guards, ReplaceDuty(g)
      PROVE  duty' \in [Guards -> SUBSET Assignments] /\ pastDuties' \subseteq Assignments
  BY <1>1 DEF ReplaceDuty, NewDuties, EndDuties
<1>2. ASSUME NEW g \in Guards, OnboardGuard(g) PROVE GuardTypes'
  BY <1>1, <1>2 DEF OnboardGuard
<1>3. ASSUME NEW g \in Guards, CheckGuard(g) PROVE GuardTypes'
  BY <1>3 DEF CheckGuard
<1>4. ASSUME NEW g \in Guards, AssignGuard(g) PROVE GuardTypes'
  BY <1>1, <1>4 DEF AssignGuard
<1>5. ASSUME NEW g \in Guards, NEW s \in {"active", "inactive", "deleted"}, UpdateGuardStatus(g, s)
      PROVE  GuardTypes'
  BY <1>5 DEF UpdateGuardStatus, EndDuties
<1>6. ASSUME NEW g \in Guards, NEW s \in {"active", "inactive"}, UpdateGuard(g, s)
      PROVE  GuardTypes'
  BY <1>6 DEF UpdateGuard
<1>7. CASE UNCHANGED guardVars
  BY <1>7 DEF guardVars
<1> QED
  BY <1>2, <1>3, <1>4, <1>5, <1>6, <1>7, TwoSides

(* Every reachable state is well typed. *)
THEOREM GateTypes == GateSpec => []GateTypeOK
<1>1. GateInit => VisitorTypes /\ GuardTypes
  BY DEF GateInit, VisitorTypes, GuardTypes, ClerkStates
<1>2. VisitorTypes /\ GuardTypes /\ [GateNext]_gateVars => (VisitorTypes /\ GuardTypes)'
  BY TwoSides, VisitorTypesStep, GuardTypesStep
<1>3. VisitorTypes /\ GuardTypes => GateTypeOK
  BY DEF VisitorTypes, GuardTypes, GateTypeOK
<1> QED
  BY <1>1, <1>2, <1>3, PTL DEF GateSpec

-----------------------------------------------------------------------------
(* Duties.                                                                 *)

(* A guard is at one gate at a time, however often he is assigned at once. *)
THEOREM GuardsHaveOneDuty == GateSpec => []OneDuty
<1>1. GateInit => OneDuty
  BY DEF GateInit, OneDuty
<1>2. GuardTypes /\ OneDuty /\ [GateNext]_gateVars => OneDuty'
  <2> SUFFICES ASSUME GuardTypes, OneDuty, [GateNext]_gateVars PROVE OneDuty'
    OBVIOUS
  <2> USE DEF GuardTypes, OneDuty
  <2>1. ASSUME NEW g \in Guards, ReplaceDuty(g) PROVE OneDuty'
    <3>1. PICK a : duty' = [duty EXCEPT ![g] = {a}]
      BY <2>1 DEF ReplaceDuty
    <3> QED
      BY <3>1
  <2>2. ASSUME NEW g \in Guards, OnboardGuard(g) \/ AssignGuard(g) \/ CheckGuard(g) PROVE OneDuty'
    BY <2>1, <2>2 DEF OnboardGuard, AssignGuard, CheckGuard
  <2>3. ASSUME NEW g \in Guards, NEW s \in {"active", "inactive", "deleted"}, UpdateGuardStatus(g, s)
        PROVE  OneDuty'
    BY <2>3 DEF UpdateGuardStatus
  <2>4. ASSUME NEW g \in Guards, NEW s \in {"active", "inactive"}, UpdateGuard(g, s)
        PROVE  OneDuty'
    BY <2>4 DEF UpdateGuard
  <2>5. CASE UNCHANGED guardVars
    BY <2>5 DEF guardVars
  <2> QED
    BY <2>2, <2>3, <2>4, <2>5, TwoSides
<1>3. GateTypeOK => GuardTypes
  BY DEF GateTypeOK, GuardTypes
<1> QED
  BY <1>1, <1>2, <1>3, GateTypes, PTL DEF GateSpec

-----------------------------------------------------------------------------
(* Visitors.                                                               *)

(* A request that has decided holds the row, which still is what it read. *)
LockInv ==
  \A c \in Clerks : clerk[c] # IdleClerk =>
    /\ visitorLock[clerk[c].of] = c
    /\ visitor[clerk[c].of] = clerk[c].read
    /\ clerk[c].to \in AllowedTransitions[clerk[c].read]

LEMMA FromRead ==
  ASSUME VisitorTypes, NEW c \in Clerks, clerk[c] # IdleClerk
  PROVE  clerk[c].of \in Visitors
BY DEF VisitorTypes, ClerkStates

LEMMA LockStep ==
  ASSUME VisitorTypes, LockInv, UNCHANGED visitorVars \/ VisitorStep
  PROVE  LockInv'
<1> USE GateAssumption DEF VisitorTypes, LockInv
<1>1. CASE UNCHANGED visitorVars
  BY <1>1 DEF visitorVars
<1>2. ASSUME NEW c \in Clerks, Free(c), clerk[c] # IdleClerk,
             \A v \in Visitors : v # clerk[c].of => visitor'[v] = visitor[v]
      PROVE  LockInv'
  <2> SUFFICES ASSUME NEW d \in Clerks, clerk'[d] # IdleClerk
               PROVE  /\ visitorLock'[clerk'[d].of] = d
                      /\ visitor'[clerk'[d].of] = clerk'[d].read
                      /\ clerk'[d].to \in AllowedTransitions[clerk'[d].read]
    OBVIOUS
  <2>1. d # c /\ clerk'[d] = clerk[d]
    BY <1>2 DEF Free
  <2>2. clerk[d].of \in Visitors /\ visitorLock[clerk[d].of] = d
    BY <2>1, FromRead
  <2>3. clerk[d].of # clerk[c].of
    BY <1>2, <2>1, <2>2
  <2>4. visitorLock'[clerk[d].of] = d
    BY <1>2, <2>1, <2>2 DEF Free
  <2> QED
    BY <1>2, <2>1, <2>2, <2>3, <2>4
<1>3. ASSUME NEW c \in Clerks, UpdateVisitorStatus(c) PROVE LockInv'
  BY <1>2, <1>3 DEF UpdateVisitorStatus
<1>4. ASSUME NEW c \in Clerks, RefuseVisitorUpdate(c) PROVE LockInv'
  BY <1>2, <1>4 DEF RefuseVisitorUpdate
<1>5. ASSUME NEW c \in Clerks, NEW v \in Visitors, NEW to \in VisitorStatuses, ReadVisitor(c, v, to)
      PROVE  LockInv'
  <2>1. /\ visitorLock[v] = NoClerk /\ visitorLock' = [visitorLock EXCEPT ![v] = c]
        /\ to \in AllowedTransitions[visitor[v]] /\ visitor' = visitor
        /\ clerk' = [clerk EXCEPT ![c] =
             [state |-> "deciding", of |-> v, read |-> visitor[v], to |-> to]]
    BY <1>5 DEF ReadVisitor, Deciding
  <2>2. ASSUME NEW d \in Clerks, d # c, clerk[d] # IdleClerk PROVE clerk[d].of # v
    BY <2>1, <2>2
  <2> SUFFICES ASSUME NEW d \in Clerks, clerk'[d] # IdleClerk
               PROVE  /\ visitorLock'[clerk'[d].of] = d
                      /\ visitor'[clerk'[d].of] = clerk'[d].read
                      /\ clerk'[d].to \in AllowedTransitions[clerk'[d].read]
    OBVIOUS
  <2>3. CASE d = c
    BY <2>1, <2>3
  <2>4. CASE d # c
    BY <2>1, <2>2, <2>4, FromRead
  <2> QED
    BY <2>3, <2>4
<1>6. ASSUME NEW v \in Visitors, SoftDeleteVisitor(v) PROVE LockInv'
  <2>1. ASSUME NEW d \in Clerks, clerk[d] # IdleClerk PROVE clerk[d].of # v
    BY <1>6, <2>1 DEF SoftDeleteVisitor
  <2> QED
    BY <1>6, <2>1, FromRead DEF SoftDeleteVisitor
<1> QED
  BY <1>1, <1>3, <1>4, <1>5, <1>6 DEF VisitorStep

LEMMA NoWayBack ==
  AllowedTransitions["denied"] = {} /\ AllowedTransitions["checked_out"] = {}
BY DEF AllowedTransitions

(* Who was denied never enters and who has left never enters again, whatever
   residents and guards decide at once. *)
THEOREM DenialsHold == GateSpec => DeniedStayOut
<1> DEFINE Stays == \A v \in Visitors : visitor[v] \in {"denied", "checked_out"} =>
                      visitor'[v] \in {visitor[v], "deleted"}
<1>1. GateInit => LockInv
  BY DEF GateInit, LockInv
<1>2. VisitorTypes /\ LockInv /\ [GateNext]_gateVars => LockInv'
  BY TwoSides, LockStep
<1>3. VisitorTypes /\ LockInv /\ [GateNext]_gateVars => [Stays]_gateVars
  <2> SUFFICES ASSUME VisitorTypes, LockInv, [GateNext]_gateVars,
                      NEW v \in Visitors, visitor[v] \in {"denied", "checked_out"}
               PROVE  visitor'[v] \in {visitor[v], "deleted"}
    OBVIOUS
  <2> USE DEF VisitorTypes
  <2>1. ASSUME NEW c \in Clerks, UpdateVisitorStatus(c) PROVE clerk[c].of # v
    BY <2>1, NoWayBack DEF UpdateVisitorStatus, LockInv
  <2>2. ASSUME NEW c \in Clerks, UpdateVisitorStatus(c) PROVE visitor'[v] = visitor[v]
    BY <2>1, <2>2 DEF UpdateVisitorStatus
  <2>3. ASSUME NEW w \in Visitors, SoftDeleteVisitor(w) PROVE visitor'[v] \in {visitor[v], "deleted"}
    BY <2>3 DEF SoftDeleteVisitor
  <2>4. CASE UNCHANGED visitor
    BY <2>4
  <2> QED
    BY <2>2, <2>3, <2>4, TwoSides
       DEF VisitorStep, RefuseVisitorUpdate, ReadVisitor, visitorVars
<1>4. GateTypeOK => VisitorTypes
  BY DEF GateTypeOK, VisitorTypes
<1> QED
  BY <1>1, <1>2, <1>3, <1>4, GateTypes, PTL DEF GateSpec, DeniedStayOut

-----------------------------------------------------------------------------
(* Whom a service listing may serve.                                       *)

(* What an update will write to a column has the type of the column. *)
RowColumns == {"moderation", "available", "scope", "gone"}
ColumnType(c) ==
  CASE c = "moderation" -> {"none", "approved", "paused", "rejected"}
    [] c = "scope" -> {"PUBLIC", "SOCIETY"}
    [] c \in {"available", "gone"} -> BOOLEAN
Change(row, to) == [c \in {k \in DOMAIN to : to[k] # row[k]} |-> to[c]]
ChangeOK(change) ==
  DOMAIN change \subseteq RowColumns /\ \A c \in DOMAIN change : change[c] \in ColumnType(c)
JobTyped(j) ==
  \/ j = NoJob
  \/ /\ j.step = "save" /\ j.replace \in BOOLEAN /\ j.next \in SUBSET Shapes
     /\ ChangeOK(j.change)
  \/ j \in [step : {"clear", "create"}, next : SUBSET Shapes]
  \/ j \in [step : {"review"}, society : Societies, fresh : BOOLEAN, to : AccessStatus]

ServiceTyped ==
  /\ listing \in Row
  /\ area \in [Areas -> [active : BOOLEAN, shape : Shapes] \cup {NoArea}]
  /\ access \in [Societies -> AccessStatus]
  /\ member \in [Buyers -> SUBSET Societies]
  /\ DOMAIN job = Desks /\ \A d \in Desks : JobTyped(job[d])
  /\ order \in [Buyers -> Order]
  /\ overlapped \in [Buyers -> BOOLEAN]

LEMMA ChangeIsTyped ==
  ASSUME NEW row \in Row, NEW to \in Row
  PROVE  ChangeOK(Change(row, to))
<1>1. DOMAIN to = RowColumns /\ \A c \in RowColumns : to[c] \in ColumnType(c)
  BY DEF Row, RowColumns, ColumnType
<1>. QED
  BY <1>1 DEF ChangeOK, Change

LEMMA ChangedRow ==
  ASSUME NEW row \in Row, NEW change, ChangeOK(change)
  PROVE  [c \in DOMAIN row |-> IF c \in DOMAIN change THEN change[c] ELSE row[c]] \in Row
<1> DEFINE r == [c \in DOMAIN row |-> IF c \in DOMAIN change THEN change[c] ELSE row[c]]
<1>1. DOMAIN row = RowColumns /\ \A c \in RowColumns : row[c] \in ColumnType(c)
  BY DEF Row, RowColumns, ColumnType
<1>2. r = [c \in RowColumns |-> r[c]] /\ \A c \in RowColumns : r[c] \in ColumnType(c)
  BY <1>1 DEF ChangeOK
<1> HIDE DEF r
<1>3. /\ r.moderation \in {"none", "approved", "paused", "rejected"}
      /\ r.available \in BOOLEAN /\ r.scope \in {"PUBLIC", "SOCIETY"} /\ r.gone \in BOOLEAN
  BY <1>2 DEF RowColumns, ColumnType
<1>4. r = [moderation |-> r.moderation, available |-> r.available, scope |-> r.scope,
           gone |-> r.gone]
  BY <1>2 DEF RowColumns
<1>. QED
  BY <1>3, <1>4 DEF Row, r

LEMMA ServiceTypedInit == ServiceInit => ServiceTyped
  BY ServiceAssumption
     DEF ServiceInit, ServiceTyped, Row, AccessStatus, Order, JobTyped, NoJob, NoArea

LEMMA JobSet ==
  ASSUME ServiceTyped, NEW d \in Desks, NEW j, JobTyped(j), job' = [job EXCEPT ![d] = j]
  PROVE  DOMAIN job' = Desks /\ \A e \in Desks : JobTyped(job'[e])
  BY DEF ServiceTyped

LEMMA EditTyped ==
  ASSUME ServiceTyped, NEW d \in Desks, NEW to, NEW replace, NEW next,
         to \in Row, replace \in BOOLEAN, next \subseteq Shapes, Edit(d, to, replace, next)
  PROVE  ServiceTyped'
<1> DEFINE j == [step |-> "save", replace |-> replace, next |-> next, change |-> Change(listing, to)]
<1>1. JobTyped(j)
  BY ChangeIsTyped DEF JobTyped, ServiceTyped
<1>2. job' = [job EXCEPT ![d] = j] /\ UNCHANGED <<listing, area, access, member, order, overlapped>>
  BY DEF Edit, Change
<1> HIDE DEF j
<1>. QED
  BY <1>1, <1>2, JobSet DEF ServiceTyped

LEMMA EmptyEdit ==
  ASSUME ServiceTyped, NEW d \in Desks, NEW to, to \in Row, NEW replace \in BOOLEAN,
         Edit(d, to, replace, {})
  PROVE  ServiceTyped'
<1>1. PICK none : none = {}
  OBVIOUS
<1>2. Edit(d, to, replace, none)
  BY <1>1
<1>. QED
  BY <1>1, <1>2, EditTyped

LEMMA ReviewTyped ==
  ASSUME ServiceTyped, NEW d \in Desks, NEW s \in Societies, NEW to \in AccessStatus,
         Reviewing(d, s, to)
  PROVE  ServiceTyped'
<1> DEFINE j == [step |-> "review", society |-> s, fresh |-> access[s] = "none", to |-> to]
<1>1. JobTyped(j)
  BY DEF JobTyped
<1>2. job' = [job EXCEPT ![d] = j] /\ UNCHANGED <<listing, area, access, member, order, overlapped>>
  BY DEF Reviewing
<1> HIDE DEF j
<1>. QED
  BY <1>1, <1>2, JobSet DEF ServiceTyped

LEMMA OverlapTyped ==
  ASSUME ServiceTyped, Overlap PROVE overlapped' \in [Buyers -> BOOLEAN]
  BY DEF ServiceTyped, Overlap, UnderWay

LEMMA DeskTyped ==
  ASSUME ServiceTyped, NEW d \in Desks, Desk(d) PROVE ServiceTyped'
<1> USE ServiceAssumption
<1>0. JobTyped(NoJob)
  BY DEF JobTyped
<1>1. ASSUME NEW scope \in {"PUBLIC", "SOCIETY"}, NEW next \in SUBSET Shapes,
             CreateListing(d, scope, next)
      PROVE  ServiceTyped'
  <2> DEFINE j == [step |-> "create", next |-> next]
  <2>1. JobTyped(j)
    BY DEF JobTyped
  <2>2. /\ job' = [job EXCEPT ![d] = j] /\ UNCHANGED <<area, access, member, order, overlapped>>
        /\ listing' = [listing EXCEPT !.moderation = "approved", !.scope = scope]
    BY <1>1 DEF CreateListing
  <2>3. listing' \in Row
    BY <2>2 DEF ServiceTyped, Row
  <2> HIDE DEF j
  <2>. QED
    BY <2>1, <2>2, <2>3, JobSet DEF ServiceTyped
<1>2. ASSUME NEW scope \in {"PUBLIC", "SOCIETY"}, UpdateListing(d, scope) PROVE ServiceTyped'
  <2>1. PICK to : to = [listing EXCEPT !.scope = scope]
    OBVIOUS
  <2>2. to \in Row
    BY <2>1 DEF ServiceTyped, Row
  <2>3. Edit(d, to, FALSE, {})
    BY <1>2, <2>1 DEF UpdateListing, Edit
  <2>. QED
    BY <2>2, <2>3, EmptyEdit
<1>3. ASSUME NEW next \in SUBSET Shapes, UpdateAreas(d, next) PROVE ServiceTyped'
  BY <1>3, EditTyped DEF UpdateAreas, ServiceTyped
<1>4. CASE PauseListing(d)
  <2>1. PICK to : to = [listing EXCEPT !.available = FALSE, !.moderation = "paused"]
    OBVIOUS
  <2>2. to \in Row
    BY <2>1 DEF ServiceTyped, Row
  <2>3. Edit(d, to, FALSE, {})
    BY <1>4, <2>1 DEF PauseListing, Edit
  <2>. QED
    BY <2>2, <2>3, EmptyEdit
<1>5. CASE ResumeListing(d) \/ SubmitListing(d)
  <2>1. PICK to : to = [listing EXCEPT !.available = TRUE, !.moderation = "approved"]
    OBVIOUS
  <2>2. to \in Row
    BY <2>1 DEF ServiceTyped, Row
  <2>3. Edit(d, to, FALSE, {})
    BY <1>5, <2>1 DEF ResumeListing, SubmitListing, Edit
  <2>. QED
    BY <2>2, <2>3, EmptyEdit
<1>6. CASE DeleteListing(d)
  <2>1. PICK to : to = [listing EXCEPT !.gone = TRUE]
    OBVIOUS
  <2>2. to \in Row
    BY <2>1 DEF ServiceTyped, Row
  <2>3. Edit(d, to, TRUE, {})
    BY <1>6, <2>1 DEF DeleteListing, Edit
  <2>. QED
    BY <2>2, <2>3, EmptyEdit
<1>7. ASSUME NEW m \in {"approved", "paused", "rejected"}, ModerateListing(d, m)
      PROVE  ServiceTyped'
  <2>1. PICK to : to = [listing EXCEPT !.moderation = m]
    OBVIOUS
  <2>2. to \in Row
    BY <2>1 DEF ServiceTyped, Row
  <2>3. Edit(d, to, FALSE, {})
    BY <1>7, <2>1 DEF ModerateListing, Edit
  <2>. QED
    BY <2>2, <2>3, EmptyEdit
<1>8. ASSUME NEW available \in BOOLEAN, AdminToggleListing(d, available) PROVE ServiceTyped'
  <2>1. PICK to : to = [listing EXCEPT !.available = available]
    OBVIOUS
  <2>2. to \in Row
    BY <2>1 DEF ServiceTyped, Row
  <2>3. Edit(d, to, FALSE, {})
    BY <1>8, <2>1 DEF AdminToggleListing, Edit
  <2>. QED
    BY <2>2, <2>3, EmptyEdit
<1>9. CASE SaveListing(d)
  <2> DEFINE j == IF job[d].replace THEN [step |-> "clear", next |-> job[d].next] ELSE NoJob
  <2>1. /\ job[d].next \in SUBSET Shapes /\ ChangeOK(job[d].change)
    BY <1>9 DEF SaveListing, ServiceTyped, JobTyped, NoJob
  <2>2. JobTyped(j)
    BY <1>0, <2>1 DEF JobTyped
  <2>3. /\ job' = [job EXCEPT ![d] = j] /\ UNCHANGED <<area, access, member, order, overlapped>>
        /\ listing' = [c \in DOMAIN listing |->
                         IF c \in DOMAIN job[d].change THEN job[d].change[c] ELSE listing[c]]
    BY <1>9 DEF SaveListing
  <2>4. listing' \in Row
    BY <2>1, <2>3, ChangedRow DEF ServiceTyped
  <2> HIDE DEF j
  <2>. QED
    BY <2>2, <2>3, <2>4, JobSet DEF ServiceTyped
<1>10. CASE ClearAreas(d)
  <2> DEFINE j == [step |-> "create", next |-> job[d].next]
  <2>1. JobTyped(j)
    BY <1>10 DEF ClearAreas, ServiceTyped, JobTyped, NoJob
  <2>2. /\ job' = [job EXCEPT ![d] = j] /\ UNCHANGED <<listing, access, member, order>>
        /\ area' = [a \in Areas |-> NoArea] /\ Overlap
    BY <1>10 DEF ClearAreas
  <2> HIDE DEF j
  <2>. QED
    BY <2>1, <2>2, JobSet, OverlapTyped DEF ServiceTyped
<1>11. CASE EndAreas(d)
  BY <1>0, <1>11, JobSet DEF EndAreas, ServiceTyped
<1>12. ASSUME NEW a \in Areas, NEW shape \in Shapes, CreateArea(d, a, shape) PROVE ServiceTyped'
  <2> DEFINE j == [job[d] EXCEPT !.next = @ \ {shape}]
  <2>1. JobTyped(j)
    BY <1>12 DEF CreateArea, ServiceTyped, JobTyped, NoJob
  <2>2. /\ job' = [job EXCEPT ![d] = j] /\ UNCHANGED <<listing, access, member, order>>
        /\ area' = [area EXCEPT ![a] = [active |-> TRUE, shape |-> shape]] /\ Overlap
    BY <1>12 DEF CreateArea
  <2> HIDE DEF j
  <2>. QED
    BY <2>1, <2>2, JobSet, OverlapTyped DEF ServiceTyped
<1>13. ASSUME NEW shape \in Shapes, AddArea(d, shape) PROVE ServiceTyped'
  <2> DEFINE j == [step |-> "create", next |-> {shape}]
  <2>1. JobTyped(j)
    BY DEF JobTyped
  <2>2. job' = [job EXCEPT ![d] = j] /\ UNCHANGED <<listing, area, access, member, order, overlapped>>
    BY <1>13 DEF AddArea
  <2> HIDE DEF j
  <2>. QED
    BY <2>1, <2>2, JobSet DEF ServiceTyped
<1>14. ASSUME NEW s \in Societies,
              \/ RequestAccess(d, s) \/ ApproveAccess(d, s) \/ RejectAccess(d, s)
              \/ SuspendAccess(d, s) \/ RevokeAccess(d, s)
       PROVE  ServiceTyped'
  BY <1>14, ReviewTyped
     DEF RequestAccess, ApproveAccess, RejectAccess, SuspendAccess, RevokeAccess, AccessStatus
<1>15. CASE SaveAccess(d)
  <2>1. job[d].society \in Societies /\ job[d].to \in AccessStatus
    BY <1>15 DEF SaveAccess, ServiceTyped, JobTyped, NoJob
  <2>2. /\ job' = [job EXCEPT ![d] = NoJob] /\ Overlap /\ UNCHANGED <<listing, area, member, order>>
        /\ access' = [access EXCEPT ![job[d].society] =
                        IF job[d].fresh /\ @ # "none" THEN @ ELSE job[d].to]
    BY <1>15 DEF SaveAccess
  <2>3. access' \in [Societies -> AccessStatus]
    BY <2>1, <2>2 DEF ServiceTyped
  <2>. QED
    BY <1>0, <2>2, <2>3, JobSet, OverlapTyped DEF ServiceTyped
<1>. QED
  BY <1>1, <1>2, <1>3, <1>4, <1>5, <1>6, <1>7, <1>8, <1>9, <1>10, <1>11, <1>12, <1>13, <1>14, <1>15
     DEF Desk

LEMMA BuyerTyped ==
  ASSUME ServiceTyped, NEW b \in Buyers, Buyer(b) PROVE ServiceTyped'
<1> USE ServiceAssumption
<1>1. ASSUME NEW s \in Societies \cup {NoSociety}, Ask(b, s) PROVE ServiceTyped'
  BY <1>1 DEF Ask, ServiceTyped, Order
<1>2. ASSUME NEW s \in Societies, MembershipChanges(b, s) PROVE ServiceTyped'
  BY <1>2, OverlapTyped DEF MembershipChanges, ServiceTyped
<1>3. ASSUME NEW step \in {"idle", "booked"}, Finish(b, step),
             UNCHANGED <<listing, area, access, member, job>>
      PROVE  ServiceTyped'
  BY <1>3 DEF Finish, ServiceTyped, Order
<1>4. ASSUME NEW step \in {"access", "cover", "place"}, Proceed(b, step),
             UNCHANGED <<listing, area, access, member, job>>
      PROVE  ServiceTyped'
  BY <1>4 DEF Proceed, ServiceTyped, Order
<1>5. CASE ResolveSociety(b)
  <2>1. ASSUME NEW s \in member[b], order' = [order EXCEPT ![b] = [step |-> "access", society |-> s]],
               UNCHANGED <<listing, area, access, member, job, overlapped>>
        PROVE  ServiceTyped'
    BY <2>1 DEF ServiceTyped, Order
  <2>. QED
    BY <1>3, <1>4, <1>5, <2>1 DEF ResolveSociety, Refuse
<1>6. CASE CheckAccess(b) \/ CheckCoverage(b) \/ PlaceOrder(b) \/ AbortOrder(b)
  BY <1>3, <1>4, <1>6 DEF CheckAccess, CheckCoverage, PlaceOrder, AbortOrder, Refuse
<1>. QED
  BY <1>1, <1>2, <1>5, <1>6 DEF Buyer

LEMMA ServiceTypedStep == ServiceTyped /\ [ServiceNext]_serviceVars => ServiceTyped'
<1> SUFFICES ASSUME ServiceTyped, [ServiceNext]_serviceVars PROVE ServiceTyped'
  OBVIOUS
<1>1. ASSUME NEW a \in Areas, NEW active \in BOOLEAN, NEW scope \in {"PUBLIC", "SOCIETY"},
             UpdateArea(a, active, scope)
      PROVE  ServiceTyped'
  <2>1. area[a] \in [active : BOOLEAN, shape : Shapes]
    BY <1>1 DEF UpdateArea, ServiceTyped
  <2>2. [area[a] EXCEPT !.active = active, !.shape.scope = scope]
          \in [active : BOOLEAN, shape : Shapes]
    BY <1>1, <2>1 DEF UpdateArea
  <2>. QED
    BY <1>1, <2>2, OverlapTyped DEF UpdateArea, ServiceTyped
<1>2. ASSUME NEW a \in Areas, DeleteArea(a) PROVE ServiceTyped'
  BY <1>2, OverlapTyped DEF DeleteArea, ServiceTyped
<1>3. CASE BulkDeleteListing
  BY <1>3 DEF BulkDeleteListing, ServiceTyped, Row
<1>4. CASE UNCHANGED serviceVars
  BY <1>4 DEF serviceVars, ServiceTyped
<1>. QED
  BY <1>1, <1>2, <1>3, <1>4, DeskTyped, BuyerTyped DEF ServiceNext

(* The variables of the listing and its bookings have their types. *)
THEOREM ServiceTypes == ServiceSpec => []ServiceTypeOK
<1>1. ServiceTyped => ServiceTypeOK
  BY DEF ServiceTyped, ServiceTypeOK, Row, JobTyped, JobOK, ChangeOK, RowColumns
<1>. QED
  BY <1>1, ServiceTypedInit, ServiceTypedStep, PTL DEF ServiceSpec

-----------------------------------------------------------------------------
(* What a booking under way has found out still holds, unless a decision was saved
   since; the listing it has locked is open. *)
StillFound(b) ==
  LET s == order[b].society IN
  /\ order[b].step \in {"access", "cover", "place"} /\ s # NoSociety => s \in member[b]
  /\ order[b].step \in {"cover", "place"} => Admitted(s)
  /\ order[b].step = "place" => Covered(s)
Sound(b) == UnderWay(b) => Open /\ (overlapped[b] \/ StillFound(b))
OrderInv == \A b \in Buyers : Sound(b)

LEMMA OrderStart == ServiceInit => OrderInv
  BY DEF ServiceInit, OrderInv, Sound, UnderWay

(* Steps that leave a booking and what it looks at alone. *)
LEMMA LeftAlone ==
  ASSUME NEW b \in Buyers, Sound(b), UNCHANGED <<listing, area, access, member>>,
         order'[b] = order[b], overlapped'[b] = overlapped[b]
  PROVE  Sound(b)'
<1>1. UnderWay(b)' <=> UnderWay(b)
  BY DEF UnderWay
<1>2. Open' <=> Open
  BY DEF Open, Listed
<1>3. Admitted(order[b].society)' <=> Admitted(order[b].society)
  BY DEF Admitted
<1>4. Covered(order[b].society)' <=> Covered(order[b].society)
  BY DEF Covered, ActiveAreas, Matches
<1>5. StillFound(b)' <=> StillFound(b)
  BY <1>3, <1>4 DEF StillFound, Admitted, Covered, ActiveAreas, Matches
<1>. QED
  BY <1>1, <1>2, <1>5 DEF Sound

LEMMA Overlapped ==
  ASSUME NEW b \in Buyers, Sound(b), UNCHANGED <<listing, order>>, Overlap
  PROVE  Sound(b)'
<1>1. (UnderWay(b)' <=> UnderWay(b)) /\ (UnderWay(b) => overlapped'[b])
  BY DEF UnderWay, Overlap
<1>2. Open' <=> Open
  BY DEF Open, Listed
<1>. QED
  BY <1>1, <1>2 DEF Sound

LEMMA NobodyUnderWay ==
  ASSUME NEW b \in Buyers, ~UnderWay(b), order'[b] = order[b] PROVE Sound(b)'
  BY DEF Sound, UnderWay

LEMMA OrderStep == ServiceTyped /\ OrderInv /\ [ServiceNext]_serviceVars => OrderInv'
<1> SUFFICES ASSUME ServiceTyped, OrderInv, [ServiceNext]_serviceVars, NEW b \in Buyers
             PROVE  Sound(b)'
  BY DEF OrderInv
<1>1. Sound(b)
  BY DEF OrderInv
<1>2. ASSUME NEW d \in Desks, Desk(d) PROVE Sound(b)'
  <2>1. ASSUME UNCHANGED <<listing, area, access, member, order, overlapped>> PROVE Sound(b)'
    BY <1>1, <2>1, LeftAlone
  <2>2. ASSUME NEW scope \in {"PUBLIC", "SOCIETY"}, NEW next \in SUBSET Shapes,
               CreateListing(d, scope, next)
        PROVE  Sound(b)'
    <3>1. ~UnderWay(b) /\ order' = order
      BY <1>1, <2>2 DEF CreateListing, Sound, Open
    <3>. QED
      BY <3>1, NobodyUnderWay
  <2>3. CASE SaveListing(d)
    BY <2>3, NobodyUnderWay DEF SaveListing, Locks
  <2>4. CASE ClearAreas(d) \/ SaveAccess(d) \/ \E a \in Areas, shape \in Shapes : CreateArea(d, a, shape)
    BY <1>1, <2>4, Overlapped DEF ClearAreas, SaveAccess, CreateArea
  <2>. QED
    BY <1>2, <2>1, <2>2, <2>3, <2>4
       DEF Desk, UpdateListing, UpdateAreas, PauseListing, ResumeListing, SubmitListing,
           DeleteListing, ModerateListing, AdminToggleListing, Edit, EndAreas, AddArea,
           RequestAccess, ApproveAccess, RejectAccess, SuspendAccess, RevokeAccess, Reviewing
<1>3. ASSUME NEW c \in Buyers, Buyer(c) PROVE Sound(b)'
  <2>0. order[b] \in Order /\ order \in [Buyers -> Order] /\ overlapped \in [Buyers -> BOOLEAN]
    BY DEF ServiceTyped
  <2>1. ASSUME NEW s \in Societies, MembershipChanges(c, s) PROVE Sound(b)'
    BY <1>1, <2>1, Overlapped DEF MembershipChanges
  <2>2. ASSUME NEW x, NEW y,
               order' = [order EXCEPT ![c] = x], overlapped' = [overlapped EXCEPT ![c] = y],
               UNCHANGED <<listing, area, access, member>>, b # c
        PROVE  Sound(b)'
    BY <1>1, <2>0, <2>2, LeftAlone
  <2>3. ASSUME NEW x, order' = [order EXCEPT ![c] = x], UNCHANGED overlapped,
               UNCHANGED <<listing, area, access, member>>, b # c
        PROVE  Sound(b)'
    BY <1>1, <2>0, <2>3, LeftAlone
  <2>4. ASSUME b # c, ~(\E s \in Societies : MembershipChanges(c, s)) PROVE Sound(b)'
    BY <1>3, <2>2, <2>3, <2>4
       DEF Buyer, Ask, ResolveSociety, CheckAccess, CheckCoverage, PlaceOrder, AbortOrder,
           Proceed, Finish, Refuse
  <2>5. ASSUME NEW step \in {"idle", "booked"}, Finish(b, step) PROVE Sound(b)'
    BY <2>0, <2>5 DEF Finish, Sound, UnderWay
  <2>6. ASSUME NEW s \in Societies \cup {NoSociety}, Ask(b, s) PROVE Sound(b)'
    <3>1. Open /\ listing' = listing /\ order'[b].step = "society"
      BY <2>0, <2>6 DEF Ask
    <3>2. Open'
      BY <3>1 DEF Open, Listed
    <3>. QED
      BY <3>1, <3>2 DEF Sound, StillFound
  <2>7. CASE ResolveSociety(b) /\ ~Refuse(b)
    <3>1. UnderWay(b) /\ UNCHANGED <<listing, area, access, member, overlapped>>
      BY <2>7 DEF ResolveSociety, UnderWay, Proceed
    <3>2. Open'
      BY <1>1, <3>1 DEF Sound, Open, Listed
    <3>3. /\ order'[b].step = "access"
          /\ order'[b].society # NoSociety => order'[b].society \in member[b]
      BY <2>0, <2>7 DEF ResolveSociety, Proceed, Order
    <3>4. StillFound(b)'
      BY <3>1, <3>3 DEF StillFound
    <3>. QED
      BY <3>2, <3>4 DEF Sound
  <2>8. CASE CheckAccess(b) /\ ~Refuse(b)
    <3>1. /\ UnderWay(b) /\ UNCHANGED <<listing, area, access, member, overlapped>>
          /\ order[b].step = "access" /\ Admitted(order[b].society)
      BY <2>8 DEF CheckAccess, UnderWay, Proceed
    <3>2. Open'
      BY <1>1, <3>1 DEF Sound, Open, Listed
    <3>3. order'[b].step = "cover" /\ order'[b].society = order[b].society
      BY <2>0, <2>8 DEF CheckAccess, Proceed, Order
    <3>4. StillFound(b) => StillFound(b)'
      BY <3>1, <3>3 DEF StillFound, Admitted
    <3>. QED
      BY <1>1, <3>1, <3>2, <3>4 DEF Sound
  <2>9. CASE CheckCoverage(b) /\ ~Refuse(b)
    <3>1. /\ UnderWay(b) /\ UNCHANGED <<listing, area, access, member, overlapped>>
          /\ order[b].step = "cover" /\ Covered(order[b].society)
      BY <2>9 DEF CheckCoverage, UnderWay, Proceed
    <3>2. Open'
      BY <1>1, <3>1 DEF Sound, Open, Listed
    <3>3. order'[b].step = "place" /\ order'[b].society = order[b].society
      BY <2>0, <2>9 DEF CheckCoverage, Proceed, Order
    <3>4. Covered(order[b].society)'
      BY <3>1, <3>3 DEF Covered, ActiveAreas, Matches
    <3>5. StillFound(b) => StillFound(b)'
      BY <3>1, <3>3, <3>4 DEF StillFound, Admitted, Covered, ActiveAreas, Matches
    <3>. QED
      BY <1>1, <3>1, <3>2, <3>5 DEF Sound
  <2>. QED
    BY <1>3, <2>1, <2>4, <2>5, <2>6, <2>7, <2>8, <2>9 DEF Buyer, PlaceOrder, AbortOrder, Refuse
<1>4. ASSUME NEW a \in Areas, NEW active \in BOOLEAN, NEW scope \in {"PUBLIC", "SOCIETY"},
             UpdateArea(a, active, scope)
      PROVE  Sound(b)'
  BY <1>1, <1>4, Overlapped DEF UpdateArea
<1>5. ASSUME NEW a \in Areas, DeleteArea(a) PROVE Sound(b)'
  BY <1>1, <1>5, Overlapped DEF DeleteArea
<1>6. CASE BulkDeleteListing
  BY <1>6, NobodyUnderWay DEF BulkDeleteListing, Locks
<1>7. CASE UNCHANGED serviceVars
  BY <1>1, <1>7, LeftAlone DEF serviceVars
<1>. QED
  BY <1>2, <1>3, <1>4, <1>5, <1>6, <1>7 DEF ServiceNext

(* Whom the engine has found admitted and covered is entitled to book. *)
LEMMA FoundIsEntitled ==
  ASSUME ServiceTyped, NEW b \in Buyers, order[b].step = "place", StillFound(b)
  PROVE  Entitled(b)
<1> DEFINE s == order[b].society
<1>1. (s # NoSociety => s \in member[b]) /\ Admitted(s) /\ Covered(s)
  BY DEF StillFound
<1>2. listing.scope \in {"PUBLIC", "SOCIETY"}
  BY DEF ServiceTyped, Row
<1>3. ASSUME NEW a \in ActiveAreas, Matches(area[a].shape, s)
      PROVE  /\ area[a].shape.method = "SOCIETY" => area[a].shape.society = s
             /\ area[a].shape.method = "PLACE" => area[a].shape.covers
             /\ area[a].shape.scope = "SOCIETY" => s # NoSociety
  BY <1>3 DEF Matches
<1> HIDE DEF s
<1>4. \/ \E a \in ActiveAreas :
           /\ area[a].shape.method = "SOCIETY" => area[a].shape.society = s
           /\ area[a].shape.method = "PLACE" => area[a].shape.covers
           /\ area[a].shape.scope = "SOCIETY" => s # NoSociety
      \/ HomeCovers /\ (ActiveAreas = {} \/ s = NoSociety)
  BY <1>1, <1>3 DEF Covered
<1>5. (s # NoSociety => access[s] = "APPROVED") /\ (s = NoSociety => listing.scope = "PUBLIC")
  BY <1>1, <1>2 DEF Admitted
<1>. QED
  BY <1>1, <1>4, <1>5 DEF Entitled, s

LEMMA BookingStep ==
  ASSUME ServiceTyped, OrderInv, [ServiceNext]_serviceVars, NEW b \in Buyers,
         order[b].step # "booked", order'[b].step = "booked"
  PROVE  Open /\ (overlapped[b] \/ Entitled(b))
<1>0. order \in [Buyers -> Order]
  BY DEF ServiceTyped
<1>1. order[b].step = "place"
  <2>1. ASSUME NEW d \in Desks, Desk(d) PROVE order' = order
    BY <2>1
       DEF Desk, CreateListing, UpdateListing, UpdateAreas, PauseListing, ResumeListing,
           SubmitListing, DeleteListing, ModerateListing, AdminToggleListing, Edit,
           SaveListing, ClearAreas, CreateArea, EndAreas, AddArea, RequestAccess,
           ApproveAccess, RejectAccess, SuspendAccess, RevokeAccess, Reviewing, SaveAccess
  <2>2. ASSUME NEW c \in Buyers, Buyer(c) PROVE order[b].step = "place"
    BY <1>0, <2>2
       DEF Buyer, Ask, MembershipChanges, ResolveSociety, CheckAccess, CheckCoverage,
           PlaceOrder, AbortOrder, Proceed, Finish, Refuse, Order
  <2>. QED
    BY <2>1, <2>2 DEF ServiceNext, UpdateArea, DeleteArea, BulkDeleteListing, serviceVars
<1>2. Open /\ (overlapped[b] \/ StillFound(b))
  BY <1>1 DEF OrderInv, Sound, UnderWay
<1>. QED
  BY <1>1, <1>2, FoundIsEntitled

LEMMA ShownIsAdmitted == ServiceTyped => ShownIsBookable
<1> SUFFICES ASSUME ServiceTyped, HomeCovers, NEW s \in Societies, ShownAsBookable(s)
             PROVE  Admitted(s) /\ Covered(s)
  BY DEF ShownIsBookable
<1>1. s # NoSociety /\ access[s] = "APPROVED"
  BY ServiceAssumption DEF ShownAsBookable
<1>2. ASSUME ServesByArea(s) PROVE \E a \in ActiveAreas : Matches(area[a].shape, s)
  BY <1>1, <1>2 DEF ServesByArea, Matches
<1>3. ASSUME WithoutAreas PROVE ActiveAreas = {}
  BY <1>3 DEF WithoutAreas, ActiveAreas, NoArea
<1>. QED
  BY <1>1, <1>2, <1>3 DEF Admitted, Covered, ShownAsBookable

(* However decisions, edits and bookings interleave: a booking is made only on a
   listing that is open, by a customer who is entitled unless a decision was saved
   under way; and what the search shows as bookable the engine admits. *)
THEOREM ServicesAreSound == ServiceSpec => ServicesSound
<1> DEFINE ByEntitled ==
      \A b \in Buyers : order[b].step # "booked" /\ order'[b].step = "booked" =>
        Open /\ (overlapped[b] \/ Entitled(b))
<1>1. ServiceTyped /\ OrderInv /\ [ServiceNext]_serviceVars => [ByEntitled]_serviceVars
  BY BookingStep
<1>. QED
  BY <1>1, ServiceTypedInit, ServiceTypedStep, OrderStart, OrderStep, ShownIsAdmitted, PTL
     DEF ServiceSpec, ServicesSound, BookedIsOpen

-----------------------------------------------------------------------------
(* The run that composes the five.                                         *)

(* Every run of the composition is a run of each part. *)
LEMMA SocietyRunsParts ==
  SuiteRun => ParkingSpec /\ GateSpec /\ CommitteeSpec /\ BookingSpec /\ ServiceSpec
<1>1. SuiteInit => ParkingInit /\ GateInit /\ CommitteeInit /\ BookingInit /\ ServiceInit
  BY DEF SuiteInit, ParkingRests, GateRests, CommitteeRests
<1>2. [SuiteNext]_suiteVars =>
        /\ [ParkingNext]_parkingVars /\ [GateNext]_gateVars /\ [CommitteeNext]_committeeVars
        /\ [BookingNext]_bookingVars /\ [ServiceNext]_serviceVars
  BY DEF SuiteNext, suiteVars
<1>. QED
  BY <1>1, <1>2, PTL
     DEF SuiteRun, ParkingSpec, GateSpec, CommitteeSpec, BookingSpec, ServiceSpec

(* Parking, gate, committee, bookings and services keep their types together. *)
THEOREM SocietyTypes == SuiteRun => []SocietyTypesOK
  BY SocietyRunsParts, ParkingTypes, GateTypes, CommitteeTypes, BookingTypeCorrect, ServiceTypes,
     PTL
     DEF SocietyTypesOK
=============================================================================
