------------------------------ MODULE Complaints ------------------------------
(***************************************************************************)
(* One complaint of a society, the workers it is assigned to and their     *)
(* authorizations (society_complaint.service, its route,                   *)
(* society_worker.service).                                                *)
(*                                                                         *)
(* The route of a change of status reads the complaint without a lock and  *)
(* lets its creator close or reopen it, its assignee accept, start and     *)
(* resolve it, and an admin do anything.  The service then locks the row   *)
(* and asks for the order of the states only.  An assignment locks the     *)
(* complaint, but reads the authorization outside its transaction.         *)
(***************************************************************************)
CONSTANTS
  Workers,    \* users who can be authorized, none of them the creator
  Providers,  \* the workers with a profile of a service provider
  Managers,   \* admins and committee members, who may be assigned as well;
              \* none of them is a worker
  Creator,    \* who raised the complaint
  Nobody      \* no assignee, nobody accepted

Staff == Workers \cup Managers
Actors == Staff \cup {Creator}

VARIABLES
  state,       \* status of the complaint, "deleted" when is_deleted
  assignee,    \* assigned_to
  acceptedBy,  \* accepted_by, set with accepted_at
  started,     \* started_at is set
  permits,     \* workers with an active authorization
  passed,      \* <<actor, status>>: changes the route has let pass
  judged       \* <<manager, worker>>: assignments that found an authorization

complaintVars == <<state, assignee, acceptedBy, started, permits, passed, judged>>
complaintRow == <<state, assignee, acceptedBy, started>>

ComplaintStatuses == {"open", "assigned", "accepted", "in_progress", "resolved", "closed"}

ComplaintTypeOK ==
  /\ state \in ComplaintStatuses \cup {"deleted"}
  /\ assignee \in Staff \cup {Nobody} /\ acceptedBy \in Actors \cup {Nobody}
  /\ started \in BOOLEAN
  /\ permits \subseteq Workers
  /\ passed \subseteq Actors \X ComplaintStatuses
  /\ judged \subseteq Managers \X Workers

(* createComplaint. *)
ComplaintInit ==
  /\ state = "open" /\ assignee = Nobody /\ acceptedBy = Nobody /\ started = FALSE
  /\ permits \in SUBSET Workers
  /\ passed = {} /\ judged = {}

-----------------------------------------------------------------------------
MayAsk(a, s) ==
  \/ a = Creator /\ <<state, s>> \in {<<"resolved", "closed">>, <<"closed", "open">>}
  \/ a = assignee /\ s \in {"accepted", "in_progress", "resolved"}
  \/ a \in Managers

RouteStatus(a, s) ==
  /\ state # "deleted" /\ MayAsk(a, s)
  /\ passed' = passed \cup {<<a, s>>}
  /\ UNCHANGED <<complaintRow, permits, judged>>

(* allowedTransitions. *)
NextStatuses ==
  [open |-> {"assigned", "in_progress", "resolved", "closed"},
   assigned |-> {"accepted", "open"}, accepted |-> {"in_progress", "assigned"},
   in_progress |-> {"resolved", "accepted"}, resolved |-> {"closed", "open"},
   closed |-> {"open"}, deleted |-> {}]

(* The times are set once; reopening resets none of them. *)
UpdateComplaintStatus(a, s) ==
  /\ <<a, s>> \in passed /\ passed' = passed \ {<<a, s>>}
  /\ \/ /\ s \in NextStatuses[state] \cup {state}
        /\ state' = s
        /\ acceptedBy' = IF s = "accepted" /\ acceptedBy = Nobody THEN a ELSE acceptedBy
        /\ started' = (started \/ s = "in_progress")
     \/ /\ s \notin NextStatuses[state] \cup {state}
        /\ UNCHANGED <<state, acceptedBy, started>>
  /\ UNCHANGED <<assignee, permits, judged>>

-----------------------------------------------------------------------------
(* assignComplaint: the authorization ... *)
JudgeWorker(m, w) ==
  /\ state # "deleted" /\ w \in permits
  /\ judged' = judged \cup {<<m, w>>}
  /\ UNCHANGED <<complaintRow, permits, passed>>

(* ... and the rest.  A provider without one is given one, though his was
   revoked; a manager needs none. *)
AssignComplaint(m, w) ==
  /\ state # "deleted"
  /\ \/ <<m, w>> \in judged /\ judged' = judged \ {<<m, w>>} /\ UNCHANGED permits
     \/ w \in Providers \ permits /\ permits' = permits \cup {w} /\ UNCHANGED judged
     \/ w \in Managers \ Providers /\ UNCHANGED <<permits, judged>>
  /\ assignee' = w
  /\ IF assignee \in {Nobody, w} THEN UNCHANGED <<acceptedBy, started>>
     ELSE acceptedBy' = Nobody /\ started' = FALSE
  /\ state' = IF state \in {"open", "accepted", "in_progress"} THEN "assigned" ELSE state
  /\ UNCHANGED passed

SoftDeleteComplaint ==
  /\ state # "deleted" /\ state' = "deleted"
  /\ UNCHANGED <<assignee, acceptedBy, started, permits, passed, judged>>

AuthorizeWorker(w, s) ==
  /\ permits' = IF s = "active" THEN permits \cup {w} ELSE permits \ {w}
  /\ UNCHANGED <<complaintRow, passed, judged>>

(* The complaints of the worker stay with him. *)
RevokeWorkerAuthorization(w) ==
  /\ w \in permits /\ permits' = permits \ {w}
  /\ UNCHANGED <<complaintRow, passed, judged>>

ComplaintNext ==
  \/ \E a \in Actors, s \in ComplaintStatuses : RouteStatus(a, s) \/ UpdateComplaintStatus(a, s)
  \/ \E m \in Managers, w \in Staff : AssignComplaint(m, w)
  \/ \E m \in Managers, w \in Workers : JudgeWorker(m, w)
  \/ \E w \in Workers :
       RevokeWorkerAuthorization(w) \/ \E s \in {"active", "suspended", "pending"} : AuthorizeWorker(w, s)
  \/ SoftDeleteComplaint

ComplaintSpec == ComplaintInit /\ [][ComplaintNext]_complaintVars

-----------------------------------------------------------------------------
(* society_complaint.service.js: "Worker transitions (accept, start, resolve)
   are ownership-based: complaint.assigned_to === actorUserId".  It is violated
   when the complaint is reassigned between the route and the service. *)
OwnTasksOnly ==
  [][\A w \in Workers, s \in ComplaintStatuses :
       UpdateComplaintStatus(w, s) /\ state' # state => assignee = w]_complaintVars
=============================================================================
