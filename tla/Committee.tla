------------------------------ MODULE Committee ------------------------------
(***************************************************************************)
(* One committee of a society, its members and the rights it delegates     *)
(* (society_committee.service.js), and what hasPermission of               *)
(* permission.service.js makes of them.  Every change of a member locks    *)
(* his row and is one action; addCommitteeMember alone locks nothing: what *)
(* it found is in `adding` until it writes.  The gates a committee is      *)
(* restricted to and the ends of terms are left out.                       *)
(***************************************************************************)
EXTENDS Naturals, FiniteSets

CONSTANTS
  Residents,   \* users
  LastRow,     \* bound: rows of society_committee_members
  Adders,      \* bound: additions at once
  AddsTwice    \* two additions of one user overlap

ASSUME CommitteeAssumption == LastRow \in Nat /\ AddsTwice \in BOOLEAN

VARIABLES
  committee,  \* status of the row, "deleted" when is_deleted
  rows,       \* rows[i]: a member; ids grow
  granted,    \* who was given the right: 0 stands for the whole committee
  adding,     \* adding[q]: the user an addition is for and the row found, 0 for none
  inhabitant, \* users with a row in society_members
  barred      \* history: who was put out, and neither invited nor activated since

committeeVars == <<committee, rows, granted, adding, inhabitant, barred>>

MemberStatuses == {"pending", "active", "inactive", "suspended", "revoked", "rejected", "expired"}
NotAdding == [found |-> 0]
NoRow == [status |-> "unborn"]
MemberRows == [user : Residents, status : MemberStatuses, deleted : BOOLEAN]
RowIds == 1..LastRow

CommitteeTypeOK ==
  /\ committee \in {"active", "inactive", "deleted"}
  /\ rows \in [RowIds -> MemberRows \cup {NoRow}]
  /\ granted \subseteq 0..LastRow
  /\ adding \in [Adders -> {NotAdding} \cup [user : Residents, found : 0..LastRow]]
  /\ inhabitant \subseteq Residents /\ barred \subseteq Residents

(* createCommittee, of any status and with any rights. *)
CommitteeInit ==
  /\ committee \in {"active", "inactive"}
  /\ rows = [i \in RowIds |-> NoRow]
  /\ granted \in {{}, {0}}
  /\ adding = [q \in Adders |-> NotAdding]
  /\ inhabitant \in SUBSET Residents /\ barred = {}

-----------------------------------------------------------------------------
Exists(i) == rows[i] # NoRow /\ ~rows[i].deleted
RowsOf(u) == {i \in RowIds : Exists(i) /\ rows[i].user = u}
(* findOne by user: the first row. *)
First(u, i) == i \in RowsOf(u) /\ \A j \in RowsOf(u) : i <= j
Found(u) == IF RowsOf(u) = {} THEN {0} ELSE {i \in RowIds : First(u, i)}

Put(i, s) == rows' = [rows EXCEPT ![i].status = s]
Drop(i) == rows' = [rows EXCEPT ![i].status = "inactive", ![i].deleted = TRUE]

-----------------------------------------------------------------------------
UpdateCommittee(s, g) ==
  /\ committee # "deleted" /\ committee' = s
  /\ granted' = (granted \ {0}) \cup g
  /\ UNCHANGED <<rows, adding, inhabitant, barred>>

DeleteCommittee ==
  /\ committee # "deleted" /\ committee' = "deleted"
  /\ rows' = [i \in RowIds |-> IF Exists(i)
                THEN [rows[i] EXCEPT !.status = "inactive", !.deleted = TRUE] ELSE rows[i]]
  /\ UNCHANGED <<granted, adding, inhabitant, barred>>

(* For the committee or for one row, whoever's it is. *)
AssignCommitteePermissions(i, give) ==
  /\ committee # "deleted" /\ (i # 0 => rows[i] # NoRow)
  /\ granted' = IF give THEN granted \cup {i} ELSE granted \ {i}
  /\ UNCHANGED <<committee, rows, adding, inhabitant, barred>>

-----------------------------------------------------------------------------
(* addCommitteeMember looks for the committee and for a row of the user ... *)
CheckMember(q, u) ==
  /\ committee # "deleted" /\ adding[q] = NotAdding
  /\ ~AddsTwice => \A o \in Adders : adding[o] # NotAdding => adding[o].user # u
  /\ \E i \in Found(u) :
       /\ i # 0 => rows[i].status \notin {"active", "pending"}
       /\ adding' = [adding EXCEPT ![q] = [user |-> u, found |-> i]]
  /\ UNCHANGED <<committee, rows, granted, inhabitant, barred>>

NextRow(i) == rows[i] = NoRow /\ \A j \in 1..(i - 1) : rows[j] # NoRow

(* ... and invites once more, or for the first time; rights of his own may be
   given with it. *)
AddMember(q) ==
  /\ adding[q] # NotAdding /\ adding' = [adding EXCEPT ![q] = NotAdding]
  /\ \E i \in RowIds :
       /\ \/ adding[q].found = i /\ Put(i, "pending")
          \/ /\ adding[q].found = 0 /\ NextRow(i)
             /\ rows' = [rows EXCEPT ![i] =
                  [user |-> adding[q].user, status |-> "pending", deleted |-> FALSE]]
       /\ granted' \in {granted, granted \cup {i}, granted \ {i}}
  /\ barred' = barred \ {adding[q].user}
  /\ UNCHANGED <<committee, inhabitant>>

(* Variant: the status is not looked at. *)
AcceptAnyway(i) ==
  /\ Exists(i)
  /\ Put(i, "active")
  /\ inhabitant' = inhabitant \cup {rows[i].user}
  /\ UNCHANGED <<committee, granted, adding, barred>>

(* acceptInvitation, by the one who was invited; neither an expired status nor
   the committee matter, and the date of expiry may have passed. *)
AcceptInvitation(i) ==
  /\ Exists(i)
  /\ rows[i].status \in {"pending", "inactive", "expired"}
  /\ \/ /\ Put(i, "active")
        /\ inhabitant' = inhabitant \cup {rows[i].user}
     \/ Put(i, "expired") /\ UNCHANGED inhabitant
  /\ UNCHANGED <<committee, granted, adding, barred>>

SetStatus(i, s) == Exists(i) /\ Put(i, s) /\ UNCHANGED <<committee, granted, adding, inhabitant>>

RejectInvitation(i) == rows[i] # NoRow /\ rows[i].status # "active" /\ SetStatus(i, "rejected") /\ UNCHANGED barred
ResendInvitation(i) == rows[i] # NoRow /\ rows[i].status # "active" /\ SetStatus(i, "pending") /\ barred' = barred \ {rows[i].user}

CancelInvitation(i) ==
  /\ Exists(i) /\ rows[i].status # "active"
  /\ Drop(i)
  /\ UNCHANGED <<committee, granted, adding, inhabitant, barred>>

-----------------------------------------------------------------------------
(* By user, of any status. *)
PutOut(u) == barred' = barred \cup {u}

SuspendCommitteeMember(u, i) == First(u, i) /\ SetStatus(i, "suspended") /\ PutOut(u)
RevokeCommitteeMember(u, i) == First(u, i) /\ SetStatus(i, "revoked") /\ PutOut(u)
ActivateCommitteeMember(u, i) ==
  First(u, i) /\ SetStatus(i, "active") /\ barred' = barred \ {u}

RemoveCommitteeMember(u, i) ==
  /\ First(u, i) /\ Drop(i) /\ PutOut(u)
  /\ granted' = granted \ {i}
  /\ UNCHANGED <<committee, adding, inhabitant>>

-----------------------------------------------------------------------------
(* hasPermission: an active row in an active committee, and the right given to
   either. *)
HasRight(u) ==
  /\ committee = "active"
  /\ \E i \in RowsOf(u) : rows[i].status = "active" /\ granted \cap {0, i} # {}

CommitteeNext ==
  \/ \E s \in {"active", "inactive"}, g \in {{}, {0}} : UpdateCommittee(s, g)
  \/ DeleteCommittee
  \/ \E q \in Adders : AddMember(q) \/ \E u \in Residents : CheckMember(q, u)
  \/ \E i \in 0..LastRow, give \in BOOLEAN : AssignCommitteePermissions(i, give)
  \/ \E i \in RowIds :
       AcceptInvitation(i) \/ RejectInvitation(i) \/ ResendInvitation(i) \/ CancelInvitation(i)
  \/ \E u \in Residents, i \in RowIds :
       \/ SuspendCommitteeMember(u, i) \/ RevokeCommitteeMember(u, i)
       \/ ActivateCommitteeMember(u, i) \/ RemoveCommitteeMember(u, i)

CommitteeSpec == CommitteeInit /\ [][CommitteeNext]_committeeVars

-----------------------------------------------------------------------------
(* Who was suspended, revoked or removed has no right of the committee before he
   is invited anew or activated: no detour over a rejection, an expiry, an
   addition under way or new rights of the committee brings one back. *)
BarredHaveNoRight == \A u \in barred : ~HasRight(u)

(* What two additions of one user do not keep: one row each.  A second row stays
   when the first is suspended. *)
OneRowEach == \A u \in Residents : \A i, j \in RowsOf(u) : i = j
=============================================================================
