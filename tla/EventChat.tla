------------------------------- MODULE EventChat -------------------------------
(***************************************************************************)
(* The chat of an event, on top of its RSVPs: getOrCreateEventChat and the *)
(* chat side of updateEvent and cancelEvent (event.service.js), of         *)
(* cancelEventRsvp (event_participant.service.js), verifyChatMember        *)
(* (chatAuthorization.middleware.js), the members' own endpoints           *)
(* (chat_participant.service.js) and the socket rooms (socket.js).         *)
(*                                                                         *)
(* Only the RSVP transactions are transactions.  A request to the chat     *)
(* checks the event and the RSVP in one statement and acts in later ones.  *)
(* Administrators of the platform, who pass every check, are left out.     *)
(***************************************************************************)
EXTENDS EventRsvp

CONSTANTS
  Chats,      \* bound: chat rows
  Overlap,    \* requests to the chat interleave with everything else
  MaxAdded,   \* bound: users added to the chat by its admin
  MaxEditing  \* bound: updates and cancellations of the event in flight

ASSUME ChatAssumption ==
  Overlap \in BOOLEAN /\ MaxAdded \in Nat /\ MaxEditing \in Nat

VARIABLES
  chats,    \* chat rows of the event
  rows,     \* rows[c]: users with a chat_participants row, soft deleted or not
  room,     \* room[c]: users whose row is live
  joined,   \* joined[c]: users with a socket in the room chat:<c>
  visit,    \* what each user's request to the chat will do next
  editing,  \* updates and cancellations that have yet to look for the chat
  revoking, \* <<user, chat>>: RSVPs cancelled, the sockets yet to leave
  added,    \* users the chat's admin has added
  raced     \* history: whose cancellation overtook a request, no answer since

memberVars == <<chats, rows, room, joined>>
chatVars == <<memberVars, visit, editing, revoking, added, raced>>
eventChatVars == <<rsvpVars, chatVars>>

Absent == [step |-> "absent"]
Visit == [step : {"find", "create"}] \cup [step : {"join", "subscribe"}, chat : Chats]

ChatTypeOK ==
  /\ chats \subseteq Chats
  /\ rows \in [Chats -> SUBSET Users]
  /\ room \in [Chats -> SUBSET Users]
  /\ joined \in [Chats -> SUBSET Users]
  /\ visit \in [Users -> Visit \cup {Absent}]
  /\ editing \in 0..MaxEditing
  /\ revoking \subseteq Users \X Chats
  /\ added \subseteq Users /\ raced \subseteq Users

ChatInit ==
  /\ RsvpInit
  /\ chats = {}
  /\ rows = [c \in Chats |-> {}]
  /\ room = [c \in Chats |-> {}]
  /\ joined = [c \in Chats |-> {}]
  /\ visit = [u \in Users |-> Absent]
  /\ editing = 0 /\ revoking = {} /\ added = {} /\ raced = {}

-----------------------------------------------------------------------------
(* Requests to the chat.                                                   *)

(* Variant: the chat of an event is open to everybody. *)
EverybodyIn(u) == ~deleted /\ status # "cancelled"

(* Whom getOrCreateEventChat, verifyChatMember and user:join:chat let in. *)
Admitted(u) ==
  /\ ~deleted /\ status # "cancelled"
  /\ u = Creator \/ rsvp[u] \in {"going", "interested"}

MayAct == Overlap \/ \A u \in Users : visit[u] = Absent

Begin(u, v) ==
  /\ visit[u] = Absent /\ MayAct
  /\ Admitted(u)
  /\ visit' = [visit EXCEPT ![u] = v]
  /\ UNCHANGED <<rsvpVars, memberVars, editing, revoking, added, raced>>

OpenChat(u) == Begin(u, [step |-> "find"])
(* verifyChatMember provisions those who are not in chat_participants. *)
EnterChat(u, c) == c \in chats /\ u \notin room[c] /\ Begin(u, [step |-> "join", chat |-> c])
JoinSocket(u, c) == c \in chats /\ u \in room[c] /\ Begin(u, [step |-> "subscribe", chat |-> c])

(* Variant: an event without a chat goes on to the members all the same. *)
FindOrNothing(u) ==
  /\ visit[u].step = "find"
  /\ \/ \E c \in chats : visit' = [visit EXCEPT ![u] = [step |-> "join", chat |-> c]]
     \/ chats = {} /\ visit' = [visit EXCEPT ![u] = [step |-> "join", chat |-> {}]]
  /\ UNCHANGED <<rsvpVars, memberVars, editing, revoking, added, raced>>

FindChat(u) ==
  /\ visit[u].step = "find"
  /\ \/ \E c \in chats : visit' = [visit EXCEPT ![u] = [step |-> "join", chat |-> c]]
     \/ chats = {} /\ visit' = [visit EXCEPT ![u] = [step |-> "create"]]
  /\ UNCHANGED <<rsvpVars, memberVars, editing, revoking, added, raced>>

CreateChat(u) ==
  /\ visit[u].step = "create"
  /\ \E c \in Chats \ chats :
       /\ chats' = chats \cup {c}
       /\ visit' = [visit EXCEPT ![u] = [step |-> "join", chat |-> c]]
  /\ UNCHANGED <<rsvpVars, rows, room, joined, editing, revoking, added, raced>>

(* Variant: a soft-deleted row stays as it is. *)
JoinFirstTime(u) ==
  /\ visit[u].step = "join"
  /\ LET c == visit[u].chat IN
       /\ rows' = [rows EXCEPT ![c] = @ \cup {u}]
       /\ room' = [room EXCEPT ![c] = IF u \in rows[c] THEN @ ELSE @ \cup {u}]
  /\ visit' = [visit EXCEPT ![u] = Absent]
  /\ UNCHANGED <<rsvpVars, chats, joined, editing, revoking, added, raced>>

(* Create the row or make it live again, whichever the unique key asks for. *)
Join(u) ==
  /\ visit[u].step = "join"
  /\ LET c == visit[u].chat IN
       /\ rows' = [rows EXCEPT ![c] = @ \cup {u}]
       /\ room' = [room EXCEPT ![c] = @ \cup {u}]
  /\ visit' = [visit EXCEPT ![u] = Absent]
  /\ UNCHANGED <<rsvpVars, chats, joined, editing, revoking, added, raced>>

(* socket.join, after the checks of user:join:chat. *)
Subscribe(u) ==
  /\ visit[u].step = "subscribe"
  /\ joined' = [joined EXCEPT ![visit[u].chat] = @ \cup {u}]
  /\ visit' = [visit EXCEPT ![u] = Absent]
  /\ UNCHANGED <<rsvpVars, chats, rows, room, editing, revoking, added, raced>>

-----------------------------------------------------------------------------
(* Members: leaveChat, removeMember, addParticipants.                      *)

Out(u, c) ==
  /\ MayAct /\ u \in room[c]
  /\ room' = [room EXCEPT ![c] = @ \ {u}]
  /\ UNCHANGED <<rsvpVars, chats, rows, joined, visit, editing, revoking, added, raced>>

LeaveChat(u, c) == Admitted(u) /\ Out(u, c)

(* The creator is the chat's admin. *)
IsAdmin(c) == Creator \in room[c] /\ Admitted(Creator)

RemoveMember(u, c) == IsAdmin(c) /\ Out(u, c)

(* The insert of a second row for a user violates the unique key. *)
AddParticipant(u, c) ==
  /\ MayAct /\ IsAdmin(c) /\ Cardinality(added) < MaxAdded
  /\ u \notin rows[c]
  /\ rows' = [rows EXCEPT ![c] = @ \cup {u}]
  /\ room' = [room EXCEPT ![c] = @ \cup {u}]
  /\ added' = added \cup {u}
  /\ UNCHANGED <<rsvpVars, chats, joined, visit, editing, revoking, raced>>

Disconnect(u) ==
  /\ MayAct /\ \E c \in Chats : u \in joined[c]
  /\ joined' = [c \in Chats |-> joined[c] \ {u}]
  /\ UNCHANGED <<rsvpVars, chats, rows, room, visit, editing, revoking, added, raced>>

-----------------------------------------------------------------------------
(* The chat side of the event's operations.                                *)

(* updateEvent and cancelEvent: the event first, the chat's members later. *)
Edit(A) ==
  /\ MayAct /\ A
  /\ editing < MaxEditing /\ editing' = editing + 1
  /\ UNCHANGED <<memberVars, visit, revoking, added, raced>>

EditUpdate(s, m) == Edit(UpdateEvent(s, m))
EditCancel == Edit(CancelEvent)

EvictAll ==
  /\ MayAct /\ editing > 0
  /\ editing' = editing - 1
  /\ \/ chats = {} /\ UNCHANGED room
     \/ \E c \in chats : room' = [room EXCEPT ![c] = {}]
  /\ UNCHANGED <<rsvpVars, chats, rows, joined, visit, revoking, added, raced>>

(* Whose request is under way when the RSVP goes; the creator needs no RSVP. *)
Overtaken(u) == IF visit[u] = Absent \/ u = Creator THEN {} ELSE {u}

(* Variant: the row of the chat outlives the RSVP, only the sockets leave. *)
CancelKeepsRow(u) ==
  /\ MayAct /\ CancelRsvp(u)
  /\ \/ chats = {} /\ UNCHANGED <<room, revoking>>
     \/ \E c \in chats : revoking' = revoking \cup {<<u, c>>} /\ UNCHANGED room
  /\ raced' = raced \cup Overtaken(u)
  /\ UNCHANGED <<chats, rows, joined, visit, editing, added>>

(* cancelEventRsvp: the row of the chat goes in the transaction ... *)
CancelRsvpAndLeave(u) ==
  /\ MayAct /\ CancelRsvp(u)
  /\ \/ chats = {} /\ UNCHANGED <<room, revoking>>
     \/ \E c \in chats : /\ room' = [room EXCEPT ![c] = @ \ {u}]
                         /\ revoking' = revoking \cup {<<u, c>>}
  /\ raced' = raced \cup Overtaken(u)
  /\ UNCHANGED <<chats, rows, joined, visit, editing, added>>

(* ... and revokeUserFromChatRoom follows its commit. *)
Revoke(u, c) ==
  /\ MayAct /\ <<u, c>> \in revoking
  /\ revoking' = revoking \ {<<u, c>>}
  /\ joined' = [joined EXCEPT ![c] = @ \ {u}]
  /\ UNCHANGED <<rsvpVars, chats, rows, room, visit, editing, added, raced>>

(* What has nothing to do with the chat. *)
RsvpOnly ==
  /\ MayAct
  /\ \/ DeleteEvent \/ ReconcileRead \/ ReconcileWrite
     \/ \E u \in Users, a \in Answers : SetRsvp(u, a) \/ LegacyUpdate(u, a)
     \/ \E u \in Users : LegacyDelete(u)
  /\ raced' = {u \in raced : rsvp'[u] = "none"}
  /\ UNCHANGED <<memberVars, visit, editing, revoking, added>>

-----------------------------------------------------------------------------
Proceed(u) == FindChat(u) \/ CreateChat(u) \/ Join(u) \/ Subscribe(u)

ChatNext ==
  \/ \E u \in Users : \/ OpenChat(u) \/ Proceed(u) \/ Disconnect(u)
                      \/ CancelRsvpAndLeave(u)
  \/ \E u \in Users, c \in Chats :
       \/ EnterChat(u, c) \/ JoinSocket(u, c) \/ LeaveChat(u, c)
       \/ RemoveMember(u, c) \/ AddParticipant(u, c) \/ Revoke(u, c)
  \/ \E s \in Statuses, m \in Caps : EditUpdate(s, m)
  \/ EditCancel \/ EvictAll \/ RsvpOnly

EventChatSpec == ChatInit /\ [][ChatNext]_eventChatVars

(* Users who keep opening the chat, and an event loop that goes on.  Where
   requests run one at a time (~Overlap) the turn of each comes again and again,
   which takes strong fairness to say. *)
VisitedChatSpec ==
  /\ EventChatSpec
  /\ \A u \in Users : SF_eventChatVars(OpenChat(u)) /\ WF_eventChatVars(Proceed(u))

-----------------------------------------------------------------------------
(* Who cancelled the RSVP, or never had one, is neither a member of the chat
   nor listening to it, as soon as the transaction's follow-up has run. *)
LeaversAreOut ==
  \A u \in Users \ {Creator}, c \in Chats : rsvp[u] = "none" =>
    /\ u \notin room[c]
    /\ u \in joined[c] => <<u, c>> \in revoking

(* Only people who answered the event, or whom its chat's admin added, are ever
   in the chat or listening to it, whatever overlaps and however often the
   event is updated. *)
NoStranger ==
  \A c \in Chats : room[c] \cup joined[c] \subseteq changed \cup added \cup {Creator}

(* An attendee whom an update of the event threw out of the chat is back in it
   sooner or later, if he keeps opening it. *)
AttendeesReturn ==
  \A u \in Users : <>[]Admitted(u) => []<>(\E c \in Chats : u \in room[c])

(* Only a race lets people stay who cancelled the RSVP: who is in the chat without
   one, or goes on listening to it, was added by its admin, or had a request to the
   chat under way, checked before, when he cancelled.  Whatever evictions, answers
   and visits came between; of an event that never got a second chat. *)
OnlyRacersStay ==
  (\A c, d \in chats : c = d) =>
    \A u \in Users \ ({Creator} \cup raced \cup added), c \in Chats :
      rsvp[u] = "none" => /\ u \notin room[c]
                          /\ u \in joined[c] => <<u, c>> \in revoking

-----------------------------------------------------------------------------
(* What the code says and does not keep.                                   *)

(* event.service.js: "Idempotent: find existing Chat or create". *)
OneChat == Cardinality(chats) <= 1

(* event.service.js: "Active RSVP (Going or Interested) is required to access
   event chat".  So who answers otherwise stops hearing it. *)
DeclinersHearNothing ==
  \A u \in Users \ {Creator}, c \in Chats :
    u \in joined[c] => rsvp[u] \notin {"declined", "invited"}

(* event.service.js: members are evicted with the reason 'event_deleted', so
   while the event stands its members stay, unless they leave or are removed. *)
UpdatesKeepMembers ==
  [][EvictAll /\ room' # room => status = "cancelled" \/ deleted]_eventChatVars

(* chat.event.security.test.js: after the cancellation of an RSVP "Socket room
   eviction properly removes socket from chat room". *)
RevokedStayOut ==
  \A u \in Users \ {Creator}, c \in Chats :
    rsvp[u] = "none" /\ u \in joined[c] => <<u, c>> \in revoking \/ visit[u] # Absent
=============================================================================
