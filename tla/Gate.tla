--------------------------------- MODULE Gate ---------------------------------
(***************************************************************************)
(* The gate of one society: a visitor on his way in and out                *)
(* (society_visitor.service.js), and the guards with their assignments to  *)
(* gates and shifts (society_guard.service.js).                            *)
(*                                                                         *)
(* updateVisitorStatus is a transaction that locks the row of the visitor, *)
(* reads it and writes it later: two steps with the lock between them.     *)
(* assignGuardGateAndShift checks the guard without a lock and writes      *)
(* later.  The default isolation of MySQL makes its two writes one action: *)
(* of two that find no active assignment one waits on the gap or is rolled *)
(* back.                                                                   *)
(***************************************************************************)
EXTENDS FiniteSets

CONSTANTS
  Visitors,    \* rows of society_visitors
  Clerks,      \* bound: requests on visitors at once
  NoClerk,     \* no request holds the row
  Guards,      \* rows of society_guard_authorizations
  Assignments  \* bound: rows of society_guard_assignments

ASSUME GateAssumption == NoClerk \notin Clerks

VARIABLES
  visitor,     \* visitor[v]: status of the row
  visitorLock, \* visitorLock[v]: the request that holds the row
  clerk,       \* clerk[c]: what a request has read and asks for
  guard,       \* guard[g]: status of the authorization
  duty,        \* duty[g]: the active assignments of a guard
  pastDuties,  \* assignments completed or cancelled
  assigning    \* guards found active by a request that assigns them

gateVars == <<visitor, visitorLock, clerk, guard, duty, pastDuties, assigning>>
visitorVars == <<visitor, visitorLock, clerk>>
guardVars == <<guard, duty, pastDuties, assigning>>

VisitorStatuses == {"expected", "at_gate", "approved", "denied", "checked_in", "checked_out"}
IdleClerk == [state |-> "idle"]
ClerkStates == {IdleClerk} \cup
  [state : {"deciding"}, of : Visitors, read : VisitorStatuses, to : VisitorStatuses]

GateTypeOK ==
  /\ visitor \in [Visitors -> VisitorStatuses \cup {"deleted"}]
  /\ visitorLock \in [Visitors -> Clerks \cup {NoClerk}]
  /\ clerk \in [Clerks -> ClerkStates]
  /\ guard \in [Guards -> {"active", "inactive", "deleted"}]
  /\ duty \in [Guards -> SUBSET Assignments] /\ pastDuties \subseteq Assignments
  /\ assigning \subseteq Guards

(* createVisitor takes any status; onboardGuard an assignment if it can. *)
GateInit ==
  /\ visitor \in [Visitors -> VisitorStatuses]
  /\ visitorLock = [v \in Visitors |-> NoClerk]
  /\ clerk = [c \in Clerks |-> IdleClerk]
  /\ guard = [g \in Guards |-> "active"] /\ duty = [g \in Guards |-> {}]
  /\ pastDuties = {} /\ assigning = {}

-----------------------------------------------------------------------------
(* ALLOWED_TRANSITIONS. *)
AllowedTransitions ==
  [expected |-> {"at_gate", "approved", "denied", "checked_in"},
   at_gate |-> {"approved", "denied", "checked_in"},
   approved |-> {"checked_in", "denied"},
   denied |-> {}, checked_in |-> {"checked_out"}, checked_out |-> {}]

Deciding(c, v, to) ==
  clerk' = [clerk EXCEPT ![c] = [state |-> "deciding", of |-> v, read |-> visitor[v], to |-> to]]

(* Variant: the row is read without FOR UPDATE. *)
ReadVisitorUnlocked(c, v, to) ==
  /\ clerk[c] = IdleClerk /\ visitor[v] # "deleted"
  /\ to \in AllowedTransitions[visitor[v]]
  /\ Deciding(c, v, to)
  /\ UNCHANGED <<visitor, visitorLock, guardVars>>

ReadVisitor(c, v, to) ==
  /\ clerk[c] = IdleClerk /\ visitorLock[v] = NoClerk /\ visitor[v] # "deleted"
  /\ to \in AllowedTransitions[visitor[v]]
  /\ visitorLock' = [visitorLock EXCEPT ![v] = c]
  /\ Deciding(c, v, to)
  /\ UNCHANGED <<visitor, guardVars>>

Free(c) ==
  /\ visitorLock' = [v \in Visitors |-> IF visitorLock[v] = c THEN NoClerk ELSE visitorLock[v]]
  /\ clerk' = [clerk EXCEPT ![c] = IdleClerk]
  /\ UNCHANGED guardVars

UpdateVisitorStatus(c) ==
  /\ clerk[c] # IdleClerk
  /\ visitor' = [visitor EXCEPT ![clerk[c].of] = clerk[c].to]
  /\ Free(c)

(* Who may not decide, and whatever throws, rolls back. *)
RefuseVisitorUpdate(c) == clerk[c] # IdleClerk /\ Free(c) /\ UNCHANGED visitor

SoftDeleteVisitor(v) ==
  /\ visitorLock[v] = NoClerk
  /\ visitor' = [visitor EXCEPT ![v] = "deleted"]
  /\ UNCHANGED <<visitorLock, clerk, guardVars>>

-----------------------------------------------------------------------------
EndDuties(g) == pastDuties' = pastDuties \cup duty[g]
NewDuties == Assignments \ (pastDuties \cup UNION {duty[g] : g \in Guards})

(* Variant: the assignment before is left as it is. *)
AddDuty(g) ==
  /\ \E a \in NewDuties : duty' = [duty EXCEPT ![g] = @ \cup {a}]
  /\ UNCHANGED pastDuties

(* The assignment of a guard takes the place of the one before. *)
ReplaceDuty(g) ==
  /\ \E a \in NewDuties : duty' = [duty EXCEPT ![g] = {a}]
  /\ EndDuties(g)

(* onboardGuard revives the authorization of a guard as well. *)
OnboardGuard(g) ==
  /\ guard[g] # "deleted"
  /\ guard' = [guard EXCEPT ![g] = "active"]
  /\ ReplaceDuty(g) \/ UNCHANGED <<duty, pastDuties>>  \* no gate or no shift to be found
  /\ UNCHANGED <<visitorVars, assigning>>

CheckGuard(g) ==
  /\ guard[g] = "active" /\ assigning' = assigning \cup {g}
  /\ UNCHANGED <<visitorVars, guard, duty, pastDuties>>

AssignGuard(g) ==
  /\ g \in assigning /\ assigning' = assigning \ {g}
  /\ ReplaceDuty(g)
  /\ UNCHANGED <<visitorVars, guard>>

(* updateGuardStatus and deleteGuard end the assignments with the duty. *)
UpdateGuardStatus(g, s) ==
  /\ guard[g] # "deleted" /\ guard' = [guard EXCEPT ![g] = s]
  /\ IF s = "active" THEN UNCHANGED <<duty, pastDuties>>
     ELSE EndDuties(g) /\ duty' = [duty EXCEPT ![g] = {}]
  /\ UNCHANGED <<visitorVars, assigning>>

(* updateGuard takes a status, too, and leaves the assignments. *)
UpdateGuard(g, s) ==
  /\ guard[g] # "deleted" /\ guard' = [guard EXCEPT ![g] = s]
  /\ UNCHANGED <<visitorVars, duty, pastDuties, assigning>>

(* getMyGuardDuty, and what hasPermission asks for. *)
OnDuty(g) == guard[g] = "active" /\ duty[g] # {}

-----------------------------------------------------------------------------
GateNext ==
  \/ \E c \in Clerks :
       \/ UpdateVisitorStatus(c) \/ RefuseVisitorUpdate(c)
       \/ \E v \in Visitors, to \in VisitorStatuses : ReadVisitor(c, v, to)
  \/ \E v \in Visitors : SoftDeleteVisitor(v)
  \/ \E g \in Guards :
       \/ OnboardGuard(g) \/ CheckGuard(g) \/ AssignGuard(g)
       \/ \E s \in {"active", "inactive", "deleted"} : UpdateGuardStatus(g, s)
       \/ \E s \in {"active", "inactive"} : UpdateGuard(g, s)

GateSpec == GateInit /\ [][GateNext]_gateVars

-----------------------------------------------------------------------------
(* Who was denied never enters and who has left never enters again, though the
   resident denies while the guard checks in. *)
DeniedStayOut ==
  [][\A v \in Visitors : visitor[v] \in {"denied", "checked_out"} =>
       visitor'[v] \in {visitor[v], "deleted"}]_gateVars

(* A guard is at one gate at a time, however often he is assigned at once. *)
OneDuty == \A g \in Guards : \A a, b \in duty[g] : a = b

(* What the code does not keep: the duty of a guard who is no longer active is
   over, so that a return to service is not a return to the old gate. *)
InactiveAreOff == \A g \in Guards : guard[g] # "active" => duty[g] = {}
=============================================================================
