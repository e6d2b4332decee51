------------------------------- MODULE MCVisits -------------------------------
(***************************************************************************)
(* One run for two components that share no state and whose requests must  *)
(* come to an end: the chat of an event, opened again and again, and the   *)
(* sessions of a user.  `part` is the one that runs; the other rests.      *)
(***************************************************************************)
EXTENDS EventChat, AuthSessions, TLC

VARIABLE part

visitVars == <<part, eventChatVars, sessionVars>>

(* A deleted event: nobody can be in its chat, so nobody has to return to it. *)
ChatRests ==
  /\ status = "draft" /\ deleted = TRUE /\ cap = 0
  /\ rsvp = [u \in Users |-> "none"] /\ count = [s \in Counted |-> 0]
  /\ repair = NoRepair /\ legacy = 0 /\ changed = {} /\ recorded = {}
  /\ chats = {} /\ rows = [c \in Chats |-> {}]
  /\ room = [c \in Chats |-> {}] /\ joined = [c \in Chats |-> {}]
  /\ visit = [u \in Users |-> Absent]
  /\ editing = 0 /\ revoking = {} /\ added = {} /\ raced = {}

VisitInit ==
  \/ part = "chat" /\ ChatInit /\ SessionInit
  \/ part = "session" /\ ChatRests /\ SessionInit

VisitNext ==
  /\ UNCHANGED part
  /\ \/ part = "chat" /\ ChatNext /\ UNCHANGED sessionVars
     \/ part = "session" /\ SessionNext /\ UNCHANGED eventChatVars

(* The fairness of VisitedChatSpec and of FairSessionSpec, each while its part
   runs. *)
VisitFairness ==
  /\ \A u \in Users : /\ SF_eventChatVars(part = "chat" /\ OpenChat(u))
                      /\ WF_eventChatVars(part = "chat" /\ Proceed(u))
  /\ \A r \in Logins : WF_sessionVars(part = "session" /\ Continue(r))

VisitRun == VisitInit /\ [][VisitNext]_visitVars /\ VisitFairness
=============================================================================
