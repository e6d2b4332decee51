---------------------------- MODULE SocietyMembers ----------------------------
(***************************************************************************)
(* The members of one society and its owner (society_member.service.js).   *)
(*                                                                         *)
(* Every operation is a transaction that locks the row it writes.  The two *)
(* that must not take the last admin count the admins in the snapshot of   *)
(* the transaction, under the lock of that one row.  Each also records an  *)
(* outbox event whose key is the society: when the key is taken, the row   *)
(* that holds it is looked for in the same snapshot, and the transaction   *)
(* fails when it is not there.                                             *)
(***************************************************************************)
EXTENDS Naturals, FiniteSets

CONSTANTS
  Residents,  \* users
  Founder,    \* a resident: creates the society
  Changes,    \* bound: updates and removals under way at once
  Uncounted   \* the operations that count no admins may take an active one

Roles == {"admin", "member"}
Statuses == {"pending", "active", "inactive", "rejected"}
Rows == [role : Roles, status : Statuses]
NoRow == [role |-> "none"]
Events == {"role_changed", "member_removed"}
NoChange == [event |-> "none"]

VARIABLES
  row,       \* row[u]: the membership that is not deleted
  owner,     \* society.user_id
  recorded,  \* the events of the society in the outbox
  change     \* change[c]: an update or a removal, with the lock of its row

memberVars == <<row, owner, recorded, change>>

MembersTypeOK ==
  /\ row \in [Residents -> Rows \cup {NoRow}]
  /\ owner \in Residents
  /\ recorded \subseteq Events
  /\ change \in [Changes -> {NoChange} \cup
       [event : Events, of : Residents, to : Rows \cup {NoRow}, missed : SUBSET Events]]

(* createProfile. *)
MembersInit ==
  /\ row = [u \in Residents |->
              IF u = Founder THEN [role |-> "admin", status |-> "active"] ELSE NoRow]
  /\ owner = Founder /\ recorded = {}
  /\ change = [c \in Changes |-> NoChange]

-----------------------------------------------------------------------------
Admins == {u \in Residents : row[u] = [role |-> "admin", status |-> "active"]}
RowLocked(u) == \E c \in Changes : change[c] # NoChange /\ change[c].of = u
SetRow(u, x) == row' = [row EXCEPT ![u] = x]
Spares(u, x) == Uncounted \/ u \notin Admins \/ x = row[u]

(* updateMember and updateMemberRole, to the count of the admins: an admin who
   would not stay an active one is not the last.  Without the count there is no
   snapshot, and no event is missed. *)
ReadMember(c, u, to) ==
  LET demotes == row[u].role = "admin" /\ (to.role # "admin" \/ to.status # "active") IN
  /\ change[c] = NoChange /\ row[u] # NoRow /\ ~RowLocked(u)
  /\ demotes => Cardinality(Admins) > 1
  /\ change' = [change EXCEPT ![c] =
       [event |-> "role_changed", of |-> u, to |-> to,
        missed |-> IF demotes THEN Events \ recorded ELSE {}]]
  /\ UNCHANGED <<row, owner, recorded>>

(* removeMember, to the count. *)
ReadRemoved(c, u) ==
  /\ change[c] = NoChange /\ row[u] # NoRow /\ ~RowLocked(u)
  /\ u \in Admins => Cardinality(Admins) > 1
  /\ change' = [change EXCEPT ![c] =
       [event |-> "member_removed", of |-> u, to |-> NoRow,
        missed |-> IF u \in Admins THEN Events \ recorded ELSE {}]]
  /\ UNCHANGED <<row, owner, recorded>>

(* The rest of both, to the commit; createEvent lets them fail. *)
WriteChange(c) ==
  /\ change[c] # NoChange
  /\ LET x == change[c] IN
       \/ /\ x.event \in recorded /\ x.event \in x.missed
          /\ UNCHANGED <<row, recorded>>
       \/ /\ x.event \in recorded => x.event \notin x.missed
          /\ SetRow(x.of, x.to)
          /\ recorded' = recorded \cup {x.event}
  /\ change' = [change EXCEPT ![c] = NoChange]
  /\ UNCHANGED owner

(* createMember: a request to join, and the onboarding of staff, which is active
   at once.  The row there may be is written over, an admin's too. *)
CreateMember(u, r, onboarding) ==
  LET x == [role |-> r, status |-> IF onboarding THEN "active" ELSE "pending"] IN
  /\ ~RowLocked(u) /\ Spares(u, x)
  /\ SetRow(u, x)
  /\ UNCHANGED <<owner, recorded, change>>

ApproveMember(u, s) ==
  LET x == [row[u] EXCEPT !.status = s] IN
  /\ row[u] # NoRow /\ ~RowLocked(u) /\ Spares(u, x)
  /\ SetRow(u, x)
  /\ UNCHANGED <<owner, recorded, change>>

(* The owner before keeps the row there is. *)
TransferSocietyOwnership(u) ==
  /\ row[u] # NoRow /\ row[u].status = "active" /\ ~RowLocked(u)
  /\ SetRow(u, [row[u] EXCEPT !.role = "admin"])
  /\ owner' = u
  /\ UNCHANGED <<recorded, change>>

MembersNext ==
  \/ \E c \in Changes :
       \/ WriteChange(c)
       \/ \E u \in Residents :
            ReadRemoved(c, u) \/ \E to \in Rows : ReadMember(c, u, to)
  \/ \E u \in Residents :
       \/ \E r \in Roles, b \in BOOLEAN : CreateMember(u, r, b)
       \/ \E s \in {"active", "rejected"} : ApproveMember(u, s)
       \/ TransferSocietyOwnership(u)

MembersSpec == MembersInit /\ [][MembersNext]_memberVars

-----------------------------------------------------------------------------
(* "Cannot demote or deactivate the last active admin of this society", "Cannot
   remove the last active admin of this society": the update or the removal of a
   member leaves an active admin where there was one. *)
LastAdminProtected ==
  [][(\E c \in Changes : WriteChange(c)) => (Admins # {} => Admins' # {})]_memberVars
=============================================================================
