------------------------------ MODULE Addresses ------------------------------
(***************************************************************************)
(* The addresses of one user and which of them is the default              *)
(* (user_address.service.js).  Every operation is a transaction that locks *)
(* the row of the user and reads, and writes and commits in a later step.  *)
(* Sequelize writes the fields of a row that differ from what was read of  *)
(* it, whatever a bulk update has made of the row since.                   *)
(***************************************************************************)
EXTENDS Naturals, FiniteSets

CONSTANTS
  LastAddress,  \* bound: addresses ever created
  Editors,      \* bound: requests at once
  NoEditor      \* no request holds the row of the user

ASSUME AddressAssumption == LastAddress \in Nat /\ NoEditor \notin Editors

VARIABLES
  address,     \* address[a]: ids grow with the time of creation
  ownerLock,   \* the request that holds the row of the user
  edit,        \* edit[e]: what a request is about to write
  ownerGone    \* the account is deleted

addressVars == <<address, ownerLock, edit, ownerGone>>

Ids == 1..LastAddress
NoEdit == [does |-> "nothing"]

AddressTypeOK ==
  /\ address \in [Ids -> {"unborn", "default", "plain", "deleted"}]
  /\ ownerLock \in Editors \cup {NoEditor}
  /\ edit \in [Editors ->
       {NoEdit} \cup [does : {"create"}, default : BOOLEAN]
         \cup [does : {"select", "deselect", "delete"}, of : Ids, was : {"default", "plain"}]]
  /\ ownerGone \in BOOLEAN

AddressInit ==
  /\ address = [a \in Ids |-> "unborn"]
  /\ ownerLock = NoEditor
  /\ edit = [e \in Editors |-> NoEdit]
  /\ ownerGone = FALSE

-----------------------------------------------------------------------------
(* activeAddressWhere. *)
Current == {a \in Ids : address[a] \in {"default", "plain"}}
NewestOf(as) == CHOOSE a \in as : \A b \in as : b <= a
Cleared == [a \in Ids |-> IF address[a] = "default" THEN "plain" ELSE address[a]]

(* Variant: the row of the user is not locked. *)
ReadOwnerUnlocked(e, x) ==
  /\ edit[e] = NoEdit /\ ~ownerGone
  /\ edit' = [edit EXCEPT ![e] = x]
  /\ UNCHANGED <<address, ownerLock, ownerGone>>

LockOwner(e, x) ==
  /\ edit[e] = NoEdit /\ ~ownerGone
  /\ ownerLock = NoEditor /\ ownerLock' = e
  /\ edit' = [edit EXCEPT ![e] = x]
  /\ UNCHANGED <<address, ownerGone>>

Save(e, x) ==
  /\ address' = x
  /\ edit' = [edit EXCEPT ![e] = NoEdit]
  /\ ownerLock' = IF ownerLock = e THEN NoEditor ELSE ownerLock
  /\ UNCHANGED ownerGone

(* The first address is the default whether it was asked for or not. *)
CreateAddress(e, asked) ==
  LockOwner(e, [does |-> "create", default |-> asked \/ Current = {}])

InsertAddress(e) ==
  /\ edit[e].does = "create"
  /\ \E a \in Ids :
       /\ address[a] = "unborn" /\ \A b \in 1..(a - 1) : address[b] # "unborn"
       /\ Save(e, IF edit[e].default THEN [Cleared EXCEPT ![a] = "default"]
                  ELSE [address EXCEPT ![a] = "plain"])

Reading(e, what, a) ==
  a \in Current /\ LockOwner(e, [does |-> what, of |-> a, was |-> address[a]])

UpdateAddress(e, a, what) == Reading(e, what, a)  \* with is_default true, or false
SetDefaultAddress(e, a) == Reading(e, "select", a)
DeleteAddress(e, a) == Reading(e, "delete", a)

(* The others are cleared in bulk, and the address with them; then it is set,
   unless it was read as the default. *)
WriteSelected(e) ==
  /\ edit[e].does = "select"
  /\ Save(e, IF edit[e].was = "default" THEN Cleared
             ELSE [Cleared EXCEPT ![edit[e].of] = "default"])

(* Another address takes its place, if there is one. *)
WriteDeselected(e) ==
  /\ edit[e].does = "deselect"
  /\ LET others == Current \ {edit[e].of} IN
       Save(e, IF edit[e].was = "plain" \/ others = {} THEN address
               ELSE [Cleared EXCEPT ![NewestOf(others)] = "default"])

WriteDeleted(e) ==
  /\ edit[e].does = "delete"
  /\ LET others == Current \ {edit[e].of}
         rest == [address EXCEPT ![edit[e].of] = "deleted"]
     IN Save(e, IF edit[e].was = "plain" \/ others = {} THEN rest
                ELSE [rest EXCEPT ![NewestOf(others)] = "default"])

(* deleteAccount writes the row of the user first. *)
DeleteOwner ==
  /\ ~ownerGone /\ ownerLock = NoEditor /\ ownerGone' = TRUE
  /\ address' = [a \in Ids |-> IF a \in Current THEN "deleted" ELSE address[a]]
  /\ UNCHANGED <<ownerLock, edit>>

AddressNext ==
  \/ \E e \in Editors :
       \/ \E b \in BOOLEAN : CreateAddress(e, b)
       \/ InsertAddress(e) \/ WriteSelected(e) \/ WriteDeselected(e) \/ WriteDeleted(e)
       \/ \E a \in Ids :
            \/ SetDefaultAddress(e, a) \/ DeleteAddress(e, a)
            \/ \E w \in {"select", "deselect"} : UpdateAddress(e, a, w)
  \/ DeleteOwner

AddressSpec == AddressInit /\ [][AddressNext]_addressVars

-----------------------------------------------------------------------------
Defaults == {a \in Ids : address[a] = "default"}

(* Two requests that each create, select or promote an address never leave two
   defaults. *)
OneDefaultAtMost == \A a, b \in Defaults : a = b

(* priority2_customer_address.enterprise.test.js: "Exactly one active address
   must be flagged as default". *)
OneDefault == Current # {} => Cardinality(Defaults) = 1
=============================================================================
