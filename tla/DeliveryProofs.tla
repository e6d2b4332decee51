--------------------------- MODULE DeliveryProofs ---------------------------
(***************************************************************************)
(* Proofs about what reaches the users: the chat of an event, for any      *)
(* number of users, chats, joins and edits; the preview of a chat, for any *)
(* number of messages; and notifications, for any number of users, devices,*)
(* tokens, runs of a handler and saves.  The outbox has proofs of its own. *)
(***************************************************************************)
EXTENDS MCDelivery, EventChat, EventRsvpProofs, FiniteSetTheorems, TLAPS

-----------------------------------------------------------------------------
(* An event with a chat is an event: requests, evictions and members' own
   steps stutter, the other steps are steps of the RSVPs. *)
LEMMA ChatKeepsTheRsvps == EventChatSpec => RsvpSpec
<1>1. ChatInit => RsvpInit
  BY DEF ChatInit
<1>2. [ChatNext]_eventChatVars => [RsvpNext]_rsvpVars
  <2> SUFFICES ASSUME [ChatNext]_eventChatVars PROVE [RsvpNext]_rsvpVars
    OBVIOUS
  <2>1. ASSUME NEW u \in Users, OpenChat(u) \/ Proceed(u) \/ Disconnect(u)
        PROVE  UNCHANGED rsvpVars
    BY <2>1 DEF OpenChat, Begin, Proceed, FindChat, CreateChat, Join, Subscribe, Disconnect
  <2>2. ASSUME NEW u \in Users, CancelRsvpAndLeave(u) PROVE RsvpNext
    BY <2>2 DEF CancelRsvpAndLeave, RsvpNext
  <2>3. ASSUME NEW u \in Users, NEW c \in Chats,
               \/ EnterChat(u, c) \/ JoinSocket(u, c) \/ LeaveChat(u, c)
               \/ RemoveMember(u, c) \/ AddParticipant(u, c) \/ Revoke(u, c)
        PROVE  UNCHANGED rsvpVars
    BY <2>3 DEF EnterChat, JoinSocket, Begin, LeaveChat, RemoveMember, Out, AddParticipant, Revoke
  <2>4. ASSUME NEW s \in Statuses, NEW m \in Caps, EditUpdate(s, m) PROVE RsvpNext
    BY <2>4 DEF EditUpdate, Edit, RsvpNext
  <2>5. ASSUME EditCancel PROVE RsvpNext
    BY <2>5 DEF EditCancel, Edit, RsvpNext
  <2>6. ASSUME EvictAll PROVE UNCHANGED rsvpVars
    BY <2>6 DEF EvictAll
  <2>7. ASSUME RsvpOnly PROVE RsvpNext
    BY <2>7 DEF RsvpOnly, RsvpNext
  <2>8. ASSUME UNCHANGED eventChatVars PROVE UNCHANGED rsvpVars
    BY <2>8 DEF eventChatVars
  <2> QED
    BY <2>1, <2>2, <2>3, <2>4, <2>5, <2>6, <2>7, <2>8 DEF ChatNext
<1> QED
  BY <1>1, <1>2, PTL DEF EventChatSpec, RsvpSpec

(* So the counters stay exact whatever happens in the chat. *)
THEOREM CountersExactWithChat ==
  ASSUME MaxLegacy = 0 PROVE EventChatSpec => []CountersExact
BY ChatKeepsTheRsvps, CountersAreExact, PTL

-----------------------------------------------------------------------------
(* Every reachable state of the chat is well typed. *)
THEOREM ChatTypeCorrect == EventChatSpec => []ChatTypeOK
<1> USE ChatAssumption DEF ChatTypeOK
<1>1. ChatInit => ChatTypeOK
  BY DEF ChatInit
<1>2. ChatTypeOK /\ [ChatNext]_eventChatVars => ChatTypeOK'
  <2> SUFFICES ASSUME ChatTypeOK, [ChatNext]_eventChatVars PROVE ChatTypeOK'
    OBVIOUS
  <2>1. ASSUME NEW u \in Users, OpenChat(u) PROVE ChatTypeOK'
    BY <2>1 DEF OpenChat, Begin, memberVars, Visit
  <2>2. ASSUME NEW u \in Users, Proceed(u) PROVE ChatTypeOK'
    <3>1. CASE FindChat(u)
      BY <2>2, <3>1 DEF FindChat, memberVars, Visit
    <3>2. CASE CreateChat(u)
      BY <2>2, <3>2 DEF CreateChat, Visit
    <3>3. CASE Join(u)
      BY <2>2, <3>3 DEF Join, Visit
    <3>4. CASE Subscribe(u)
      BY <2>2, <3>4 DEF Subscribe, Visit
    <3> QED
      BY <2>2, <3>1, <3>2, <3>3, <3>4 DEF Proceed
  <2>3. ASSUME NEW u \in Users, Disconnect(u) PROVE ChatTypeOK'
    BY <2>3 DEF Disconnect
  <2>4. ASSUME NEW u \in Users, CancelRsvpAndLeave(u) PROVE ChatTypeOK'
    BY <2>4 DEF CancelRsvpAndLeave, Overtaken
  <2>5. ASSUME NEW u \in Users, NEW c \in Chats, EnterChat(u, c) \/ JoinSocket(u, c)
        PROVE  ChatTypeOK'
    BY <2>5 DEF EnterChat, JoinSocket, Begin, memberVars, Visit
  <2>6. ASSUME NEW u \in Users, NEW c \in Chats, LeaveChat(u, c) \/ RemoveMember(u, c)
        PROVE  ChatTypeOK'
    BY <2>6 DEF LeaveChat, RemoveMember, Out
  <2>7. ASSUME NEW u \in Users, NEW c \in Chats, AddParticipant(u, c) PROVE ChatTypeOK'
    BY <2>7 DEF AddParticipant
  <2>8. ASSUME NEW u \in Users, NEW c \in Chats, Revoke(u, c) PROVE ChatTypeOK'
    BY <2>8 DEF Revoke
  <2>9. ASSUME NEW s \in Statuses, NEW m \in Caps, EditUpdate(s, m) PROVE ChatTypeOK'
    BY <2>9 DEF EditUpdate, Edit, memberVars
  <2>10. ASSUME EditCancel PROVE ChatTypeOK'
    BY <2>10 DEF EditCancel, Edit, memberVars
  <2>11. ASSUME EvictAll PROVE ChatTypeOK'
    BY <2>11 DEF EvictAll
  <2>12. ASSUME RsvpOnly \/ UNCHANGED eventChatVars PROVE ChatTypeOK'
    BY <2>12 DEF RsvpOnly, eventChatVars, chatVars, memberVars
  <2> QED
    BY <2>1, <2>2, <2>3, <2>4, <2>5, <2>6, <2>7, <2>8, <2>9, <2>10, <2>11, <2>12 DEF ChatNext
<1> QED
  BY <1>1, <1>2, PTL DEF EventChatSpec

-----------------------------------------------------------------------------
(* People with an answer, and people on their way into the chat, answered once:
   the check of a request is older than the step it lets through. *)
KnownInv ==
  /\ \A u \in Users : rsvp[u] # "none" => u \in changed \cup {Creator}
  /\ \A u \in Users : visit[u] # Absent => u \in changed \cup {Creator}
  /\ NoStranger

LEMMA RsvpStepKeepsKnown ==
  ASSUME RsvpTypeOK, KnownInv, RsvpNext
  PROVE  /\ \A u \in Users : rsvp'[u] # "none" => u \in changed' \cup {Creator}
         /\ changed \subseteq changed'
<1> USE DEF KnownInv, RsvpTypeOK
<1>1. ASSUME NEW u \in Users, NEW a \in Answers, SetRsvp(u, a)
      PROVE  /\ \A v \in Users : rsvp'[v] # "none" => v \in changed' \cup {Creator}
             /\ changed \subseteq changed'
  BY <1>1 DEF SetRsvp, RecordChange
<1>2. ASSUME NEW u \in Users, CancelRsvp(u)
      PROVE  /\ \A v \in Users : rsvp'[v] # "none" => v \in changed' \cup {Creator}
             /\ changed \subseteq changed'
  BY <1>2 DEF CancelRsvp, RecordChange
<1>3. ASSUME NEW u \in Users, NEW a \in Answers, LegacyUpdate(u, a) \/ LegacyDelete(u)
      PROVE  /\ \A v \in Users : rsvp'[v] # "none" => v \in changed' \cup {Creator}
             /\ changed \subseteq changed'
  BY <1>3 DEF LegacyUpdate, LegacyDelete
<1> QED
  BY <1>1, <1>2, <1>3
     DEF RsvpNext, UpdateEvent, CancelEvent, DeleteEvent, LegacyDelete, ReconcileRead, ReconcileWrite

(* Only people who answered the event, or whom the chat's admin added, are ever
   in the chat or listening to it, however requests, cancellations and evictions
   interleave. *)
THEOREM NoStrangerInChat == EventChatSpec => []NoStranger
<1>1. ChatInit => KnownInv
  BY RsvpAssumption DEF ChatInit, RsvpInit, KnownInv, NoStranger, Absent
<1>2. RsvpTypeOK /\ ChatTypeOK /\ KnownInv /\ [ChatNext]_eventChatVars => KnownInv'
  <2> SUFFICES ASSUME RsvpTypeOK, ChatTypeOK, KnownInv, [ChatNext]_eventChatVars
               PROVE  KnownInv'
    OBVIOUS
  <2> USE DEF KnownInv, NoStranger
  <2>1. ASSUME NEW u \in Users, NEW v, Begin(u, v) PROVE KnownInv'
    BY <2>1 DEF Begin, Admitted, rsvpVars, memberVars, ChatTypeOK
  <2>2. ASSUME NEW u \in Users, Proceed(u) PROVE KnownInv'
    <3>1. u \in changed \cup {Creator}
      BY <2>2 DEF Proceed, FindChat, CreateChat, Join, Subscribe, Absent
    <3>2. CASE FindChat(u) \/ CreateChat(u)
      BY <3>1, <3>2 DEF FindChat, CreateChat, rsvpVars, memberVars, ChatTypeOK
    <3>3. CASE Join(u)
      BY <3>1, <3>3 DEF Join, rsvpVars, ChatTypeOK
    <3>4. CASE Subscribe(u)
      BY <3>1, <3>4 DEF Subscribe, rsvpVars, ChatTypeOK
    <3> QED
      BY <2>2, <3>2, <3>3, <3>4 DEF Proceed
  <2>3. ASSUME NEW u \in Users, Disconnect(u) PROVE KnownInv'
    BY <2>3 DEF Disconnect, rsvpVars, ChatTypeOK
  <2>4. ASSUME NEW u \in Users, NEW c \in Chats,
               LeaveChat(u, c) \/ RemoveMember(u, c) \/ Revoke(u, c)
        PROVE  KnownInv'
    BY <2>4 DEF LeaveChat, RemoveMember, Out, Revoke, rsvpVars, ChatTypeOK
  <2>5. ASSUME NEW u \in Users, NEW c \in Chats, AddParticipant(u, c) PROVE KnownInv'
    BY <2>5 DEF AddParticipant, rsvpVars, ChatTypeOK
  <2>6. ASSUME EvictAll PROVE KnownInv'
    BY <2>6 DEF EvictAll, rsvpVars, ChatTypeOK
  <2>7. ASSUME RsvpNext, UNCHANGED <<visit, joined, added>>,
               \A c \in Chats : room'[c] \subseteq room[c]
        PROVE  KnownInv'
    BY <2>7, RsvpStepKeepsKnown
  <2>8. ASSUME NEW u \in Users, CancelRsvpAndLeave(u) PROVE KnownInv'
    <3>1. RsvpNext
      BY <2>8 DEF CancelRsvpAndLeave, RsvpNext
    <3> QED
      BY <2>7, <2>8, <3>1 DEF CancelRsvpAndLeave, ChatTypeOK
  <2>9. ASSUME NEW s \in Statuses, NEW m \in Caps, EditUpdate(s, m)
        PROVE  KnownInv'
    <3>1. RsvpNext
      BY <2>9 DEF EditUpdate, Edit, RsvpNext
    <3> QED
      BY <2>7, <2>9, <3>1 DEF EditUpdate, Edit, memberVars
  <2>10. ASSUME RsvpOnly PROVE KnownInv'
    <3>1. RsvpNext
      BY <2>10 DEF RsvpOnly, RsvpNext
    <3> QED
      BY <2>7, <2>10, <3>1 DEF RsvpOnly, chatVars, memberVars
  <2>11. ASSUME EditCancel PROVE KnownInv'
    <3>1. RsvpNext
      BY <2>11 DEF EditCancel, Edit, RsvpNext
    <3> QED
      BY <2>7, <2>11, <3>1 DEF EditCancel, Edit, memberVars
  <2>12. ASSUME UNCHANGED eventChatVars PROVE KnownInv'
    BY <2>12 DEF eventChatVars, rsvpVars, chatVars, memberVars
  <2>13. ASSUME NEW u \in Users, OpenChat(u) PROVE KnownInv'
    BY <2>1, <2>13 DEF OpenChat
  <2>14. ASSUME NEW u \in Users, NEW c \in Chats, EnterChat(u, c) \/ JoinSocket(u, c)
         PROVE  KnownInv'
    BY <2>1, <2>14 DEF EnterChat, JoinSocket
  <2> QED
    BY <2>2, <2>3, <2>4, <2>5, <2>6, <2>8, <2>9, <2>10, <2>11, <2>12, <2>13, <2>14 DEF ChatNext
<1>3. KnownInv => NoStranger
  BY DEF KnownInv
<1>4. EventChatSpec => []RsvpTypeOK
  BY ChatKeepsTheRsvps, RsvpTypeCorrect, PTL
<1> QED
  BY <1>1, <1>2, <1>3, <1>4, ChatTypeCorrect, PTL DEF EventChatSpec

-----------------------------------------------------------------------------
(* One request at a time, no legacy writes and nobody added by the admin: a request
   still has the answer that let it in, the event has one chat at most, and who has
   no answer is out of it or about to be put out. *)
TurnInv ==
  /\ \A u, v \in Users : visit[u] # Absent /\ visit[v] # Absent => u = v
  /\ \A u \in Users : visit[u] # Absent => u = Creator \/ rsvp[u] # "none"
  /\ \A u \in Users : visit[u].step = "create" => chats = {}
  /\ \A u \in Users : visit[u].step \in {"join", "subscribe"} => visit[u].chat \in chats

ChatInv ==
  /\ added = {}
  /\ \A c, d \in chats : c = d
  /\ \A c \in Chats \ chats : room[c] = {} /\ joined[c] = {}

OutInv == TurnInv /\ ChatInv /\ LeaversAreOut

(* Steps that touch the RSVPs only, by which nobody loses his answer. *)
LEMMA RsvpStepKeepsOut ==
  ASSUME OutInv, UNCHANGED <<chats, room, joined, visit, revoking, added>>,
         \A u \in Users : rsvp[u] # "none" => rsvp'[u] # "none"
  PROVE  OutInv'
BY DEF OutInv, TurnInv, ChatInv, LeaversAreOut

(* Who is let in has an answer. *)
LEMMA BeginKeepsOut ==
  ASSUME ~Overlap, ChatTypeOK, OutInv, NEW u \in Users, NEW v \in Visit, Begin(u, v),
         v.step # "create", v.step \in {"join", "subscribe"} => v.chat \in chats
  PROVE  OutInv'
<1>1. \A w \in Users : visit[w] = Absent
  BY DEF Begin, MayAct
<1>2. u = Creator \/ rsvp[u] # "none"
  BY DEF Begin, Admitted
<1>3. /\ visit'[u] = v /\ \A w \in Users \ {u} : visit'[w] = Absent
      /\ UNCHANGED <<rsvp, chats, room, joined, revoking, added>>
  BY <1>1 DEF Begin, ChatTypeOK, rsvpVars, memberVars
<1>4. TurnInv'
  BY <1>1, <1>2, <1>3 DEF TurnInv, Absent
<1> QED
  BY <1>3, <1>4 DEF OutInv, ChatInv, LeaversAreOut

LEMMA OutStep ==
  ASSUME ~Overlap, MaxLegacy = 0, MaxAdded = 0, RsvpTypeOK, ChatTypeOK, OutInv,
         [ChatNext]_eventChatVars
  PROVE  OutInv'
<1>1. ASSUME NEW u \in Users, OpenChat(u) PROVE OutInv'
  <2>1. [step |-> "find"] \in Visit
    BY DEF Visit
  <2> QED
    BY <1>1, <2>1, BeginKeepsOut DEF OpenChat
<1>2. ASSUME NEW u \in Users, NEW c \in Chats, EnterChat(u, c) PROVE OutInv'
  <2>1. [step |-> "join", chat |-> c] \in Visit
    BY DEF Visit
  <2> QED
    BY <1>2, <2>1, BeginKeepsOut DEF EnterChat
<1>3. ASSUME NEW u \in Users, NEW c \in Chats, JoinSocket(u, c) PROVE OutInv'
  <2>1. [step |-> "subscribe", chat |-> c] \in Visit
    BY DEF Visit
  <2> QED
    BY <1>3, <2>1, BeginKeepsOut DEF JoinSocket
<1>4. ASSUME NEW u \in Users, FindChat(u) PROVE OutInv'
  BY <1>4 DEF FindChat, OutInv, TurnInv, ChatInv, LeaversAreOut, ChatTypeOK, rsvpVars, memberVars,
              Absent
<1>5. ASSUME NEW u \in Users, CreateChat(u) PROVE OutInv'
  BY <1>5 DEF CreateChat, OutInv, TurnInv, ChatInv, LeaversAreOut, ChatTypeOK, rsvpVars, Absent
<1>6. ASSUME NEW u \in Users, Join(u) PROVE OutInv'
  BY <1>6 DEF Join, OutInv, TurnInv, ChatInv, LeaversAreOut, ChatTypeOK, rsvpVars, Absent
<1>7. ASSUME NEW u \in Users, Subscribe(u) PROVE OutInv'
  BY <1>7 DEF Subscribe, OutInv, TurnInv, ChatInv, LeaversAreOut, ChatTypeOK, rsvpVars, Absent
<1>8. ASSUME NEW u \in Users, Disconnect(u) PROVE OutInv'
  BY <1>8 DEF Disconnect, OutInv, TurnInv, ChatInv, LeaversAreOut, ChatTypeOK, rsvpVars
<1>9. ASSUME NEW u \in Users, NEW c \in Chats, Out(u, c) PROVE OutInv'
  BY <1>9 DEF Out, OutInv, TurnInv, ChatInv, LeaversAreOut, ChatTypeOK, rsvpVars
<1>10. ASSUME NEW u \in Users, NEW c \in Chats, AddParticipant(u, c) PROVE FALSE
  <2>1. Cardinality(added) = 0
    BY FS_EmptySet DEF OutInv, ChatInv
  <2> QED
    BY <1>10, <2>1 DEF AddParticipant
<1>11. ASSUME NEW u \in Users, NEW c \in Chats, Revoke(u, c) PROVE OutInv'
  BY <1>11 DEF Revoke, OutInv, TurnInv, ChatInv, LeaversAreOut, ChatTypeOK, rsvpVars
<1>12. ASSUME EvictAll PROVE OutInv'
  BY <1>12 DEF EvictAll, OutInv, TurnInv, ChatInv, LeaversAreOut, ChatTypeOK, rsvpVars
<1>13. ASSUME NEW u \in Users, CancelRsvpAndLeave(u) PROVE OutInv'
  BY <1>13 DEF CancelRsvpAndLeave, CancelRsvp, MayAct, OutInv, TurnInv, ChatInv, LeaversAreOut,
               ChatTypeOK, RsvpTypeOK, Absent
<1>14. ASSUME \/ \E s \in Statuses, m \in Caps : EditUpdate(s, m)
              \/ EditCancel
       PROVE  OutInv'
  BY <1>14, RsvpStepKeepsOut DEF EditUpdate, EditCancel, Edit, UpdateEvent, CancelEvent, memberVars
<1>15. ASSUME RsvpOnly PROVE OutInv'
  <2>1. ASSUME NEW u \in Users, rsvp[u] # "none" PROVE rsvp'[u] # "none"
    <3>1. ASSUME NEW v \in Users, NEW a \in Answers, SetRsvp(v, a) PROVE rsvp'[u] # "none"
      BY <2>1, <3>1 DEF SetRsvp, RsvpTypeOK, Answers, Counted
    <3>2. ASSUME NEW v \in Users, NEW a \in Answers, LegacyUpdate(v, a) PROVE FALSE
      BY <3>2 DEF LegacyUpdate, RsvpTypeOK
    <3>3. ASSUME NEW v \in Users, LegacyDelete(v) PROVE FALSE
      BY <3>3 DEF LegacyDelete, RsvpTypeOK
    <3>4. DeleteEvent \/ ReconcileRead \/ ReconcileWrite => rsvp'[u] # "none"
      BY <2>1 DEF DeleteEvent, ReconcileRead, ReconcileWrite
    <3> QED
      BY <1>15, <3>1, <3>2, <3>3, <3>4 DEF RsvpOnly
  <2> QED
    BY <1>15, <2>1, RsvpStepKeepsOut DEF RsvpOnly, chatVars, memberVars
<1>16. ASSUME UNCHANGED eventChatVars PROVE OutInv'
  BY <1>16, RsvpStepKeepsOut DEF eventChatVars, rsvpVars, chatVars, memberVars
<1> QED
  BY <1>1, <1>2, <1>3, <1>4, <1>5, <1>6, <1>7, <1>8, <1>9, <1>10, <1>11, <1>12, <1>13, <1>14,
     <1>15, <1>16 DEF ChatNext, Proceed, LeaveChat, RemoveMember

(* While requests do not overlap, who cancelled the RSVP or never had one is neither
   a member of the chat nor listening to it, for any number of users. *)
THEOREM LeaversStayOut ==
  ASSUME ~Overlap, MaxLegacy = 0, MaxAdded = 0
  PROVE  EventChatSpec => []LeaversAreOut
<1>1. ChatInit => OutInv
  BY DEF ChatInit, RsvpInit, OutInv, TurnInv, ChatInv, LeaversAreOut, Absent
<1>2. RsvpTypeOK /\ ChatTypeOK /\ OutInv /\ [ChatNext]_eventChatVars => OutInv'
  BY OutStep
<1>3. OutInv => LeaversAreOut
  BY DEF OutInv
<1>4. EventChatSpec => []RsvpTypeOK
  BY ChatKeepsTheRsvps, RsvpTypeCorrect, PTL
<1> QED
  BY <1>1, <1>2, <1>3, <1>4, ChatTypeCorrect, PTL DEF EventChatSpec

-----------------------------------------------------------------------------
(* A request that is under way although its user has no answer was overtaken by his
   cancellation; what is not in `chats` has no members. *)
RaceInv ==
  /\ \A u \in Users : visit[u].step \in {"join", "subscribe"} => visit[u].chat \in chats
  /\ \A c \in Chats \ chats : room[c] = {} /\ joined[c] = {}
  /\ \A u \in Users \ {Creator} : visit[u] # Absent /\ rsvp[u] = "none" => u \in raced
  /\ OnlyRacersStay

(* Steps after which there are the same chats and requests, and nobody else in a chat
   or listening, without an answer or overtaken. *)
LEMMA RaceGoesOn ==
  ASSUME RaceInv, UNCHANGED <<chats, visit>>, added \subseteq added',
         \A c \in Chats :
           /\ room'[c] \subseteq room[c] \cup added'
           /\ joined'[c] \subseteq joined[c]
           /\ c \notin chats => room'[c] = {}
           /\ \A u \in joined'[c] : <<u, c>> \in revoking => <<u, c>> \in revoking',
         \A u \in Users : rsvp'[u] = "none" =>
            rsvp[u] = "none" /\ (u \in raced => u \in raced')
  PROVE  RaceInv'
<1>1. /\ \A u \in Users : visit'[u].step \in {"join", "subscribe"} => visit'[u].chat \in chats'
      /\ \A u \in Users \ {Creator} : visit'[u] # Absent /\ rsvp'[u] = "none" => u \in raced'
  BY DEF RaceInv
<1>2. ASSUME NEW c \in Chats \ chats' PROVE room'[c] = {} /\ joined'[c] = {}
  <2>1. joined[c] = {} /\ c \in Chats \ chats
    BY <1>2 DEF RaceInv
  <2>2. room'[c] = {} /\ joined'[c] \subseteq joined[c]
    BY <2>1
  <2> QED
    BY <2>1, <2>2
<1>3. OnlyRacersStay'
  <2> SUFFICES ASSUME \A c, d \in chats : c = d,
                      NEW u \in Users \ ({Creator} \cup raced' \cup added'), NEW c \in Chats,
                      rsvp'[u] = "none"
               PROVE  /\ u \notin room'[c]
                      /\ u \in joined'[c] => <<u, c>> \in revoking'
    BY DEF OnlyRacersStay
  <2>1. u \notin raced \cup added /\ rsvp[u] = "none"
    OBVIOUS
  <2>2. u \notin room[c] /\ (u \in joined[c] => <<u, c>> \in revoking)
    BY <2>1 DEF RaceInv, OnlyRacersStay
  <2>3. room'[c] \subseteq room[c] \cup added' /\ joined'[c] \subseteq joined[c]
    OBVIOUS
  <2>4. u \in joined'[c] /\ <<u, c>> \in revoking => <<u, c>> \in revoking'
    OBVIOUS
  <2> QED
    BY <2>2, <2>3, <2>4
<1> QED
  BY <1>1, <1>2, <1>3 DEF RaceInv

(* Who is let in has an answer. *)
LEMMA BeginKeepsRace ==
  ASSUME ChatTypeOK, RaceInv, NEW u \in Users, NEW v \in Visit, Begin(u, v),
         v.step \in {"join", "subscribe"} => v.chat \in chats
  PROVE  RaceInv'
<1>1. u = Creator \/ rsvp[u] # "none"
  BY DEF Begin, Admitted
<1>2. /\ visit'[u] = v /\ \A w \in Users \ {u} : visit'[w] = visit[w]
      /\ UNCHANGED <<rsvp, chats, room, joined, revoking, added, raced>>
  BY DEF Begin, ChatTypeOK, rsvpVars, memberVars
<1> QED
  BY <1>1, <1>2 DEF RaceInv, OnlyRacersStay

LEMMA RaceStep ==
  ASSUME MaxLegacy = 0, RsvpTypeOK, ChatTypeOK, RaceInv, [ChatNext]_eventChatVars
  PROVE  RaceInv'
<1>1. ASSUME NEW u \in Users, OpenChat(u) PROVE RaceInv'
  <2>1. [step |-> "find"] \in Visit
    BY DEF Visit
  <2> QED
    BY <1>1, <2>1, BeginKeepsRace DEF OpenChat
<1>2. ASSUME NEW u \in Users, NEW c \in Chats, EnterChat(u, c) PROVE RaceInv'
  <2>1. [step |-> "join", chat |-> c] \in Visit
    BY DEF Visit
  <2> QED
    BY <1>2, <2>1, BeginKeepsRace DEF EnterChat
<1>3. ASSUME NEW u \in Users, NEW c \in Chats, JoinSocket(u, c) PROVE RaceInv'
  <2>1. [step |-> "subscribe", chat |-> c] \in Visit
    BY DEF Visit
  <2> QED
    BY <1>3, <2>1, BeginKeepsRace DEF JoinSocket
<1>4. ASSUME NEW u \in Users, FindChat(u) PROVE RaceInv'
  BY <1>4 DEF FindChat, RaceInv, OnlyRacersStay, ChatTypeOK, rsvpVars, memberVars, Absent
<1>5. ASSUME NEW u \in Users, CreateChat(u) PROVE RaceInv'
  BY <1>5 DEF CreateChat, RaceInv, OnlyRacersStay, ChatTypeOK, rsvpVars, Absent
<1>6. ASSUME NEW u \in Users, Join(u) PROVE RaceInv'
  BY <1>6 DEF Join, RaceInv, OnlyRacersStay, ChatTypeOK, rsvpVars, Absent
<1>7. ASSUME NEW u \in Users, Subscribe(u) PROVE RaceInv'
  BY <1>7 DEF Subscribe, RaceInv, OnlyRacersStay, ChatTypeOK, rsvpVars, Absent
<1>8. ASSUME NEW u \in Users, Disconnect(u) PROVE RaceInv'
  BY <1>8, RaceGoesOn DEF Disconnect, RaceInv, ChatTypeOK, rsvpVars
<1>9. ASSUME NEW u \in Users, NEW c \in Chats, Out(u, c) PROVE RaceInv'
  BY <1>9, RaceGoesOn DEF Out, RaceInv, ChatTypeOK, rsvpVars
<1>10. ASSUME NEW u \in Users, NEW c \in Chats, AddParticipant(u, c) PROVE RaceInv'
  BY <1>10, RaceGoesOn DEF AddParticipant, IsAdmin, RaceInv, ChatTypeOK, rsvpVars
<1>11. ASSUME NEW u \in Users, NEW c \in Chats, Revoke(u, c) PROVE RaceInv'
  BY <1>11, RaceGoesOn DEF Revoke, RaceInv, ChatTypeOK, rsvpVars
<1>12. ASSUME EvictAll PROVE RaceInv'
  BY <1>12, RaceGoesOn DEF EvictAll, RaceInv, ChatTypeOK, rsvpVars
<1>13. ASSUME NEW u \in Users, CancelRsvpAndLeave(u) PROVE RaceInv'
  BY <1>13 DEF CancelRsvpAndLeave, CancelRsvp, Overtaken, RaceInv, OnlyRacersStay, ChatTypeOK,
               RsvpTypeOK, Absent
<1>14. ASSUME \/ \E s \in Statuses, m \in Caps : EditUpdate(s, m)
              \/ EditCancel
       PROVE  RaceInv'
  BY <1>14, RaceGoesOn DEF EditUpdate, EditCancel, Edit, UpdateEvent, CancelEvent, memberVars, RaceInv
<1>15. ASSUME RsvpOnly PROVE RaceInv'
  <2>1. ASSUME NEW u \in Users, rsvp'[u] = "none" PROVE rsvp[u] = "none"
    <3>1. ASSUME NEW v \in Users, NEW a \in Answers, SetRsvp(v, a) PROVE rsvp[u] = "none"
      BY <2>1, <3>1 DEF SetRsvp, RsvpTypeOK, Answers, Counted
    <3>2. ASSUME NEW v \in Users, NEW a \in Answers, LegacyUpdate(v, a) PROVE FALSE
      BY <3>2 DEF LegacyUpdate, RsvpTypeOK
    <3>3. ASSUME NEW v \in Users, LegacyDelete(v) PROVE FALSE
      BY <3>3 DEF LegacyDelete, RsvpTypeOK
    <3>4. DeleteEvent \/ ReconcileRead \/ ReconcileWrite => rsvp[u] = "none"
      BY <2>1 DEF DeleteEvent, ReconcileRead, ReconcileWrite
    <3> QED
      BY <1>15, <3>1, <3>2, <3>3, <3>4 DEF RsvpOnly
  <2>2. /\ raced' = {u \in raced : rsvp'[u] = "none"}
        /\ UNCHANGED <<chats, room, joined, visit, revoking, added>>
    BY <1>15 DEF RsvpOnly, memberVars
  <2> QED
    BY <2>1, <2>2, RaceGoesOn DEF RaceInv
<1>16. ASSUME UNCHANGED eventChatVars PROVE RaceInv'
  BY <1>16, RaceGoesOn DEF eventChatVars, rsvpVars, chatVars, memberVars, RaceInv
<1> QED
  BY <1>1, <1>2, <1>3, <1>4, <1>5, <1>6, <1>7, <1>8, <1>9, <1>10, <1>11, <1>12, <1>13, <1>14,
     <1>15, <1>16 DEF ChatNext, Proceed, LeaveChat, RemoveMember

(* However requests, cancellations, evictions and answers interleave, only a request
   that a cancellation overtook leaves somebody in the chat who has no answer, for any
   number of users. *)
THEOREM OnlyRacersRemain ==
  ASSUME MaxLegacy = 0
  PROVE  EventChatSpec => []OnlyRacersStay
<1>1. ChatInit => RaceInv
  BY DEF ChatInit, RsvpInit, RaceInv, OnlyRacersStay, Absent
<1>2. RsvpTypeOK /\ ChatTypeOK /\ RaceInv /\ [ChatNext]_eventChatVars => RaceInv'
  BY RaceStep
<1>3. RaceInv => OnlyRacersStay
  BY DEF RaceInv
<1>4. EventChatSpec => []RsvpTypeOK
  BY ChatKeepsTheRsvps, RsvpTypeCorrect, PTL
<1> QED
  BY <1>1, <1>2, <1>3, <1>4, ChatTypeCorrect, PTL DEF EventChatSpec

-----------------------------------------------------------------------------
(* The messages of a chat.                                                 *)

(* A non-empty set of naturals below a bound has a greatest element: the distances
   from the bound have a least one. *)
LEMMA GreatestBelow ==
  ASSUME NEW n \in Nat, NEW S \in SUBSET (0..n), S # {}
  PROVE  \E m \in S : \A k \in S : k <= m
<1> DEFINE R == OpToRel(<, Nat)
           T == {n - k : k \in S}
<1>1. IsWellFoundedOn(R, Nat)
  BY NatLessThanWellFounded
<1> HIDE DEF R
<1>2. \A k \in S : k \in 0..n
  OBVIOUS
<1>3. T \subseteq Nat /\ T # {}
  <2>1. \A k \in S : n - k \in Nat
    BY <1>2
  <2>2. PICK k \in S : TRUE
    OBVIOUS
  <2>3. n - k \in T
    OBVIOUS
  <2>. QED
    BY <2>1, <2>3
<1>4. \E x \in T : \A y \in T : ~(<<y, x>> \in R)
  BY <1>1, <1>3, WFMin
<1>5. PICK m \in S : \A y \in T : ~(<<y, n - m>> \in R)
  BY <1>4
<1>6. ASSUME NEW k \in S PROVE k <= m
  <2>1. n - k \in Nat /\ n - m \in Nat
    BY <1>2
  <2>2. ~(<<n - k, n - m>> \in R)
    BY <1>5
  <2>3. ~(n - k < n - m)
    BY <2>1, <2>2 DEF R, OpToRel
  <2>. QED
    BY <1>2, <2>3
<1>. QED
  BY <1>6

(* What Newest returns. *)
LEMMA NewestIsGreatest ==
  ASSUME NEW ms \in SUBSET Sent
  PROVE  Newest(ms) \in ms \cup {0} /\ \A k \in ms : k <= Newest(ms)
<1>1. ms \cup {0} \in SUBSET (0..LastSent)
  BY MessageAssumption DEF Sent
<1>2. \E m \in ms \cup {0} : \A k \in ms \cup {0} : k <= m
  BY <1>1, GreatestBelow, MessageAssumption
<1>. QED
  BY <1>2 DEF Newest

(* The badges play no part in it. *)
PreviewInv ==
  /\ message \in [Sent -> {"unborn", "sending", "sent", "deleting", "erasing", "deleted",
                         "removed"}]
  /\ lastMessage \in {0} \cup Sent
  /\ PreviewFollows

LEMMA InitPreviewInv == MessageInit => PreviewInv
  BY MessageAssumption DEF MessageInit, PreviewInv, PreviewFollows, Sent, Visible

LEMMA NextPreviewInv == PreviewInv /\ [MessageNext]_messageVars => PreviewInv'
<1> SUFFICES ASSUME PreviewInv, [MessageNext]_messageVars PROVE PreviewInv'
  OBVIOUS
<1> USE MessageAssumption DEF PreviewInv, PreviewFollows, Sent, badgeVars, SetMessage, Visible
<1>1. ASSUME NEW m \in Sent, SendMessage(m) PROVE PreviewInv'
  BY <1>1 DEF SendMessage
<1>2. ASSUME NEW m \in Sent, CommitMessage(m) PROVE PreviewInv'
  BY <1>2 DEF CommitMessage
<1>3. ASSUME NEW m \in Sent, DeleteForEveryone(m) PROVE PreviewInv'
  BY <1>3 DEF DeleteForEveryone
<1>4. ASSUME NEW m \in Sent, CommitDeletion(m) PROVE PreviewInv'
  <2>1. Visible \ {m} \in SUBSET Sent
    OBVIOUS
  <2>2. Newest(Visible \ {m}) \in (Visible \ {m}) \cup {0}
        /\ \A k \in Visible \ {m} : k <= Newest(Visible \ {m})
    BY <2>1, NewestIsGreatest
  <2>3. message' = [message EXCEPT ![m] = "deleted"] /\ UNCHANGED latest
    BY <1>4 DEF CommitDeletion
  <2>4. CASE lastMessage = m
    <3>1. lastMessage' = Newest(Visible \ {m})
      BY <1>4, <2>4 DEF CommitDeletion
    <3>. QED
      BY <2>2, <2>3, <3>1
  <2>5. CASE lastMessage # m
    BY <1>4, <2>3, <2>5 DEF CommitDeletion
  <2>. QED
    BY <2>4, <2>5
<1>5. ASSUME NEW m \in Sent, SoftDeleteMessage(m) PROVE PreviewInv'
  BY <1>5 DEF SoftDeleteMessage
<1>6. ASSUME NEW u \in Participants, NEW m \in Sent, MarkMessageRead(u, m) PROVE PreviewInv'
  BY <1>6 DEF MarkMessageRead
<1>7. ASSUME NEW u \in Participants, NEW m \in Sent, LowerBadge(u, m) PROVE PreviewInv'
  BY <1>7 DEF LowerBadge
<1>8. ASSUME NEW u \in Participants, MarkAllRead(u) PROVE PreviewInv'
  BY <1>8 DEF MarkAllRead
<1>9. ASSUME NEW u \in Participants, ClearBadge(u) PROVE PreviewInv'
  BY <1>9 DEF ClearBadge
<1>10. CASE UNCHANGED messageVars
  BY <1>10 DEF messageVars
<1>. QED
  BY <1>1, <1>2, <1>3, <1>4, <1>5, <1>6, <1>7, <1>8, <1>9, <1>10 DEF MessageNext

(* A message deleted for everyone is replaced as the preview, by the newest one left
   or by what is sent next. *)
THEOREM PreviewReplaced == MessageSpec => []PreviewFollows
  BY InitPreviewInv, NextPreviewInv, PTL DEF MessageSpec, PreviewInv

-----------------------------------------------------------------------------
(* What a handler tells the users.                                         *)

(* The rows a run has yet to make of a user, once he was found. *)
Left(u) == CASE todo[u] = "twice" -> 2 [] todo[u] \in {"emit", "later"} -> 1 [] OTHER -> 0

(* What a run has left to do it has not done in this run. *)
HandlerInv ==
  /\ kindOfEvent \in EventKinds /\ runs \in 0..MaxRuns /\ published \in BOOLEAN
  /\ todo \in [Members -> {"nothing", "find", "key", "emit", "later", "twice"}]
  /\ keyedRows \in [Members -> Nat] /\ plainRows \in [Members -> Nat]
  /\ \A u \in Members :
       /\ keyedRows[u] <= 1 /\ plainRows[u] <= MaxRows
       /\ plainRows[u] + Left(u) <= MostRows(u)
       /\ todo[u] = "key" => keyedRows[u] = 0
       /\ todo[u] \in {"find", "key"} => kindOfEvent = "document"
       /\ u = Actor /\ kindOfEvent # "broadcast" => plainRows[u] = 0
  /\ kindOfEvent = "broadcast" => runs <= 1

LEMMA InitHandlerInv == NotifyInit => HandlerInv
<1> SUFFICES ASSUME NotifyInit PROVE HandlerInv
  OBVIOUS
<1> USE NotificationAssumption DEF NotifyInit
<1>0. kindOfEvent \in EventKinds /\ published \in BOOLEAN
  OBVIOUS
<1>1. runs \in 0..MaxRuns /\ runs <= 1
  OBVIOUS
<1>2. \A u \in Members : keyedRows[u] = 0 /\ plainRows[u] = 0 /\ todo[u] = "nothing"
  OBVIOUS
<1>3. runs = 0
  OBVIOUS
<1>4. todo \in [Members -> {"nothing", "find", "key", "emit", "later", "twice"}]
  OBVIOUS
<1>5. keyedRows \in [Members -> Nat] /\ plainRows \in [Members -> Nat]
  OBVIOUS
<1>6. ASSUME NEW u \in Members PROVE plainRows[u] + Left(u) <= MostRows(u)
  BY <1>2, <1>3 DEF Left, MostRows
<1>. QED
  BY <1>0, <1>1, <1>2, <1>3, <1>4, <1>5, <1>6 DEF HandlerInv

LEMMA NextHandlerInv == HandlerInv /\ [NotifyNext]_notifyVars => HandlerInv'
<1> SUFFICES ASSUME HandlerInv, [NotifyNext]_notifyVars PROVE HandlerInv'
  OBVIOUS
<1> USE NotificationAssumption DEF HandlerInv, Then, Emitted, Left, MostRows
<1>1. CASE ResolveRecipients
  <2>1. runs' = runs + 1 /\ runs' \in 0..MaxRuns
        /\ (kindOfEvent = "broadcast" => runs' <= 1)
        /\ UNCHANGED <<kindOfEvent, published, keyedRows, plainRows>>
    BY <1>1 DEF ResolveRecipients, MayRun
  <2>2. \A u \in Members : plainRows[u] <= MostRows(u)
    BY <1>1 DEF ResolveRecipients, Resting
  <2>3. CASE kindOfEvent = "complaint"
    <3>1. PICK assigned \in AtMostOne, raised \in AtMostOne : todo' = Assignment(assigned, raised)
      BY <1>1, <2>3 DEF ResolveRecipients
    <3>2. /\ todo' \in [Members -> {"nothing", "find", "key", "emit", "later", "twice"}]
          /\ \A u \in Members : todo'[u] \in {"nothing", "emit", "later", "twice"}
      BY <3>1 DEF Assignment
    <3>. QED
      BY <2>1, <2>2, <2>3, <3>2
  <2>4. CASE kindOfEvent # "complaint"
    <3>1. PICK told \in Recipients :
            todo' = [u \in Members |-> IF u \in told THEN FirstStep ELSE "nothing"]
      BY <1>1, <2>4 DEF ResolveRecipients
    <3>2. /\ todo' \in [Members -> {"nothing", "find", "key", "emit", "later", "twice"}]
          /\ \A u \in Members :
               todo'[u] \in {"nothing", IF kindOfEvent = "document" THEN "find" ELSE "emit"}
      BY <3>1 DEF FirstStep
    <3>. QED
      BY <2>1, <2>2, <2>4, <3>2
  <2>. QED
    BY <2>3, <2>4
<1>2. CASE InsertBroadcast
  BY <1>2 DEF InsertBroadcast
<1>3. CASE DispatchFails
  BY <1>3 DEF DispatchFails
<1>4. CASE Publish
  BY <1>4 DEF Publish
<1>5. CASE Die
  BY <1>5 DEF Die
<1>6. ASSUME NEW u \in Members, FindKeyed(u) PROVE HandlerInv'
  BY <1>6 DEF FindKeyed
<1>7. ASSUME NEW u \in Members, CreateKeyed(u) PROVE HandlerInv'
  BY <1>7 DEF CreateKeyed
<1>8. ASSUME NEW u \in Members, InsertRow(u) PROVE HandlerInv'
  BY <1>8 DEF InsertRow, Due
<1>9. ASSUME NEW u \in Members, EmitNothing(u) PROVE HandlerInv'
  BY <1>9 DEF EmitNothing, Due
<1>10. CASE UNCHANGED handlerVars
  BY <1>10 DEF handlerVars
<1>11. ASSUME NEW x \in pushing, NEW t \in PushTokens,
              \/ LoadDevices(x) \/ SendToDevice(x, t) \/ SendFails(x, t)
              \/ TokenRefused(x, t) \/ DeactivateByPushToken(x, t)
       PROVE  HandlerInv'
  BY <1>10, <1>11 DEF LoadDevices, SendToDevice, SendFails, TokenRefused, DeactivateByPushToken
<1>12. ASSUME NEW x \in pushing, LoadDevices(x) PROVE HandlerInv'
  BY <1>10, <1>12 DEF LoadDevices
<1>13. ASSUME NEW t \in PushTokens, TokenDies(t) PROVE HandlerInv'
  BY <1>10, <1>13 DEF TokenDies
<1>14. ASSUME NEW d \in Devices, NEW t \in PushTokens, ReadToRegister(d, t) \/ Register(d, t)
       PROVE  HandlerInv'
  BY <1>10, <1>14 DEF ReadToRegister, Register, BeginSave
<1>15. ASSUME NEW d \in Devices,
              \/ ReadToDeactivate(d) \/ SaveDevice(d) \/ MoveToken(d) \/ CreateDevice(d)
              \/ RemoveDevice(d)
       PROVE  HandlerInv'
  BY <1>10, <1>15
     DEF ReadToDeactivate, BeginSave, SaveDevice, MoveToken, CreateDevice, RemoveDevice
<1>16. CASE UNCHANGED notifyVars
  BY <1>10, <1>16 DEF notifyVars, handlerVars
<1>. QED
  BY <1>1, <1>2, <1>3, <1>4, <1>5, <1>6, <1>7, <1>8, <1>9, <1>11, <1>12, <1>13, <1>14,
     <1>15, <1>16
     DEF NotifyNext

(* The rows a user has of one event are bounded by its kind and by the runs of its
   handler, wherever a run ended. *)
THEOREM RowsAreBounded == NotifySpec => []RowsPerRun
<1>1. HandlerInv => RowsPerRun
  <2> SUFFICES ASSUME HandlerInv, NEW u \in Members PROVE plainRows[u] <= MostRows(u)
    BY DEF HandlerInv, RowsPerRun
  <2>. QED
    BY DEF HandlerInv, Left, MostRows
<1>. QED
  BY <1>1, InitHandlerInv, NextHandlerInv, PTL DEF NotifySpec

-----------------------------------------------------------------------------
(* A push that is on its way may ring a token that has not been rung for its row
   yet: no more rings than rows are due. *)
ToRing(u, t) ==
  {r \in 1..MaxRows : \E x \in pushing : /\ x.user = u /\ x.row = r
                                         /\ ~x.loaded \/ t \in x.left}

PushInv ==
  /\ pushing \subseteq Push
  /\ \A x, y \in pushing : x.user = y.user /\ x.row = y.row => x = y
  /\ \A x \in pushing : /\ x.row <= plainRows[x.user]
                        /\ ~x.loaded => x.left = {} /\ x.refused = {}

RingInv ==
  /\ rung \in [Members \X PushTokens -> Nat]
  /\ \A u \in Members, t \in PushTokens :
       rung[<<u, t>>] + Cardinality(ToRing(u, t)) <= plainRows[u]

LEMMA RowsAreFinite ==
  ASSUME NEW S \in SUBSET (1..MaxRows)
  PROVE  IsFiniteSet(S) /\ Cardinality(S) \in Nat
<1>1. IsFiniteSet(1..MaxRows)
  BY FS_Interval, NotificationAssumption
<1>. QED
  BY <1>1, FS_Subset, FS_CardinalityType

LEMMA FewerRows ==
  ASSUME NEW T \in SUBSET (1..MaxRows), NEW S \in SUBSET T
  PROVE  Cardinality(S) <= Cardinality(T)
  BY RowsAreFinite, FS_Subset

LEMMA OneRowLess ==
  ASSUME NEW T \in SUBSET (1..MaxRows), NEW r \in T, NEW S \in SUBSET (T \ {r})
  PROVE  Cardinality(S) + 1 <= Cardinality(T)
<1>1. Cardinality(T \ {r}) = Cardinality(T) - 1
  BY RowsAreFinite, FS_RemoveElement
<1>2. Cardinality(S) <= Cardinality(T \ {r})
  BY FewerRows
<1>. QED
  BY <1>1, <1>2, RowsAreFinite

LEMMA OneRowMore ==
  ASSUME NEW T \in SUBSET (1..MaxRows), NEW r \in 1..MaxRows, NEW S \in SUBSET (T \cup {r})
  PROVE  Cardinality(S) <= Cardinality(T) + 1
<1>1. Cardinality(T \cup {r}) <= Cardinality(T) + 1
  BY RowsAreFinite, FS_AddElement
<1>2. Cardinality(S) <= Cardinality(T \cup {r})
  BY FewerRows
<1>3. Cardinality(S) \in Nat /\ Cardinality(T) \in Nat /\ Cardinality(T \cup {r}) \in Nat
  BY RowsAreFinite
<1>. QED
  BY <1>1, <1>2, <1>3

(* y is what becomes of the push x. *)
Later(x, y) ==
  /\ y \in Push /\ y.user = x.user /\ y.row = x.row
  /\ ~y.loaded => ~x.loaded /\ y.left = {} /\ y.refused = {}
  /\ x.loaded => y.left \subseteq x.left

LEMMA PushGoesOn ==
  ASSUME HandlerInv, PushInv, NEW x \in pushing, NEW y, Later(x, y),
         pushing' \subseteq (pushing \ {x}) \cup {y}, UNCHANGED plainRows
  PROVE  PushInv' /\ \A u \in Members, t \in PushTokens : ToRing(u, t)' \subseteq ToRing(u, t)
  BY DEF HandlerInv, PushInv, ToRing, Later

LEMMA RingInvFewer ==
  ASSUME HandlerInv, RingInv, UNCHANGED <<rung, plainRows>>,
         \A u \in Members, t \in PushTokens : ToRing(u, t)' \subseteq ToRing(u, t)
  PROVE  RingInv'
<1> SUFFICES ASSUME NEW u \in Members, NEW t \in PushTokens
             PROVE  rung[<<u, t>>] + Cardinality(ToRing(u, t)') <= plainRows[u]
  BY DEF RingInv
<1>1. ToRing(u, t) \in SUBSET (1..MaxRows)
  BY DEF ToRing
<1>2. ToRing(u, t)' \in SUBSET ToRing(u, t)
  OBVIOUS
<1>3. Cardinality(ToRing(u, t)') <= Cardinality(ToRing(u, t))
  BY <1>1, <1>2, FewerRows
<1>4. Cardinality(ToRing(u, t)') \in Nat /\ Cardinality(ToRing(u, t)) \in Nat
  BY <1>1, <1>2, RowsAreFinite
<1>5. rung[<<u, t>>] \in Nat /\ plainRows[u] \in Nat
  BY DEF RingInv, HandlerInv
<1>. QED
  BY <1>3, <1>4, <1>5 DEF RingInv

LEMMA WithoutIsLater ==
  ASSUME PushInv, NEW x \in pushing, NEW t \in PushTokens, t \in x.left
  PROVE  LET y == [x EXCEPT !.left = @ \ {t}] IN
         Later(x, y) /\ Without(x, t) \subseteq {y}
  BY DEF PushInv, Later, Push, Without

-----------------------------------------------------------------------------
(* The rows of the devices and the save on its way. *)
SavingTypeOK ==
  \/ saving = NoSave
  \/ /\ saving.step = "save" /\ saving.of \in Devices /\ DOMAIN saving.write \subseteq Columns
     /\ \A c \in DOMAIN saving.write :
          saving.write[c] \in CASE c = "token" -> PushTokens
                                [] c = "active" -> BOOLEAN
                                [] c = "why" -> {"none", "invalid", "moved", "user"}
  \/ saving \in [of : Devices, step : {"move", "create"}, token : PushTokens]

DeviceTypeInv ==
  /\ device \in [Devices -> Saved \cup {NoDevice}]
  /\ SavingTypeOK /\ saves \in 0..MaxSaves /\ dead \subseteq PushTokens

(* The row a save makes of what it finds. *)
Merged(kept, write) == [c \in Columns |-> IF c \in DOMAIN write THEN write[c] ELSE kept[c]]

LEMMA MergedIsSaved ==
  ASSUME NEW kept \in Saved, NEW write, DOMAIN write \subseteq Columns,
         \A c \in DOMAIN write :
           write[c] \in CASE c = "token" -> PushTokens
                          [] c = "active" -> BOOLEAN
                          [] c = "why" -> {"none", "invalid", "moved", "user"}
  PROVE  Merged(kept, write) \in Saved
  BY DEF Merged, Saved, Columns

(* What is to be written makes of the row that was read the one that is wanted. *)
LEMMA DifferingMerges ==
  ASSUME NEW kept \in Saved, NEW wanted \in Saved
  PROVE  LET w == Differing(kept, wanted) IN
         /\ DOMAIN w \subseteq Columns
         /\ \A c \in DOMAIN w :
              w[c] \in CASE c = "token" -> PushTokens
                         [] c = "active" -> BOOLEAN
                         [] c = "why" -> {"none", "invalid", "moved", "user"}
         /\ Merged(kept, w) = wanted
<1>1. Saved = {f \in [Columns -> PushTokens \cup BOOLEAN \cup {"none", "invalid", "moved", "user"}] :
                 /\ f.token \in PushTokens /\ f.active \in BOOLEAN
                 /\ f.why \in {"none", "invalid", "moved", "user"}}
  BY DEF Saved, Columns
<1>. QED
  BY <1>1 DEF Differing, Merged, Columns

LEMMA InitDeviceTypeInv == NotifyInit => DeviceTypeInv
  BY NotificationAssumption DEF NotifyInit, DeviceTypeInv, SavingTypeOK, NoSave

LEMMA NextDeviceTypeInv == DeviceTypeInv /\ [NotifyNext]_notifyVars => DeviceTypeInv'
<1> SUFFICES ASSUME DeviceTypeInv, [NotifyNext]_notifyVars PROVE DeviceTypeInv'
  OBVIOUS
<1> USE NotificationAssumption
<1>0. NoSave.step = "idle"
  BY DEF NoSave
<1>1. CASE UNCHANGED deviceVars
  BY <1>1 DEF DeviceTypeInv, SavingTypeOK, deviceVars
<1>2. ASSUME NEW x \in pushing, LoadDevices(x) PROVE DeviceTypeInv'
  BY <1>1, <1>2 DEF LoadDevices
<1>3. ASSUME NEW x \in pushing, NEW t \in PushTokens,
             SendToDevice(x, t) \/ SendFails(x, t) \/ TokenRefused(x, t)
      PROVE  DeviceTypeInv'
  BY <1>1, <1>3 DEF SendToDevice, SendFails, TokenRefused
<1>4. ASSUME NEW x \in pushing, NEW t \in PushTokens, DeactivateByPushToken(x, t)
      PROVE  DeviceTypeInv'
  <2>1. ASSUME NEW d \in Devices PROVE device'[d] \in Saved \cup {NoDevice}
    <3>1. device'[d] = Deactivated(t, device[d])
      BY <1>4, <2>1 DEF DeactivateByPushToken
    <3>2. CASE device[d] = NoDevice
      BY <3>1, <3>2 DEF Deactivated, NoDevice
    <3>3. CASE device[d] \in Saved
      BY <3>1, <3>3 DEF Deactivated, Saved
    <3>. QED
      BY <2>1, <3>2, <3>3 DEF DeviceTypeInv
  <2>2. device' = [d \in Devices |-> Deactivated(t, device[d])]
        /\ UNCHANGED <<saving, saves, dead>>
    BY <1>4 DEF DeactivateByPushToken
  <2>. QED
    BY <2>1, <2>2 DEF DeviceTypeInv, SavingTypeOK
<1>5. ASSUME NEW t \in PushTokens, TokenDies(t) PROVE DeviceTypeInv'
  BY <1>5 DEF TokenDies, DeviceTypeInv, SavingTypeOK
<1>6. ASSUME NEW d \in Devices, NEW t \in PushTokens, ReadToRegister(d, t) PROVE DeviceTypeInv'
  <2> DEFINE wanted == [token |-> t, active |-> TRUE, why |-> "none"]
             w == Differing(device[d], wanted)
  <2>1. device[d] \in Saved /\ wanted \in Saved
    BY <1>6 DEF ReadToRegister, DeviceTypeInv, Saved
  <2>2. saving' = [of |-> d, step |-> "save", write |-> w] /\ saves' = saves + 1
        /\ saves < MaxSaves /\ UNCHANGED <<device, dead>>
    BY <1>6 DEF ReadToRegister, BeginSave
  <2> HIDE DEF w, wanted
  <2>3. SavingTypeOK'
    BY <2>1, <2>2, DifferingMerges DEF SavingTypeOK, w
  <2>. QED
    BY <2>2, <2>3 DEF DeviceTypeInv
<1>7. ASSUME NEW d \in Devices, ReadToDeactivate(d) PROVE DeviceTypeInv'
  <2> DEFINE wanted == [device[d] EXCEPT !.active = FALSE, !.why = "user"]
             w == Differing(device[d], wanted)
  <2>1. device[d] \in Saved /\ wanted \in Saved
    BY <1>7 DEF ReadToDeactivate, DeviceTypeInv, Saved
  <2>2. saving' = [of |-> d, step |-> "save", write |-> w] /\ saves' = saves + 1
        /\ saves < MaxSaves /\ UNCHANGED <<device, dead>>
    BY <1>7 DEF ReadToDeactivate, BeginSave
  <2> HIDE DEF w, wanted
  <2>3. SavingTypeOK'
    BY <2>1, <2>2, DifferingMerges DEF SavingTypeOK, w
  <2>. QED
    BY <2>2, <2>3 DEF DeviceTypeInv
<1>8. ASSUME NEW d \in Devices, NEW t \in PushTokens, Register(d, t) PROVE DeviceTypeInv'
  BY <1>8 DEF Register, BeginSave, DeviceTypeInv, SavingTypeOK
<1>9. ASSUME NEW d \in Devices, SaveDevice(d) PROVE DeviceTypeInv'
  <2>1. device' = [device EXCEPT ![d] = IF @ = NoDevice THEN @ ELSE Merged(@, saving.write)]
    BY <1>9 DEF SaveDevice, Merged
  <2>2. device[d] # NoDevice => Merged(device[d], saving.write) \in Saved
    BY <1>0, <1>9, MergedIsSaved DEF SaveDevice, DeviceTypeInv, SavingTypeOK
  <2>3. device' \in [Devices -> Saved \cup {NoDevice}]
    BY <2>1, <2>2 DEF DeviceTypeInv
  <2>. QED
    BY <1>9, <2>3 DEF SaveDevice, DeviceTypeInv, SavingTypeOK
<1>10. ASSUME NEW d \in Devices, MoveToken(d) PROVE DeviceTypeInv'
  <2>1. saving.token \in PushTokens
    BY <1>0, <1>10 DEF MoveToken, DeviceTypeInv, SavingTypeOK
  <2>2. ASSUME NEW x \in Devices PROVE device'[x] \in Saved \cup {NoDevice}
    <3>1. \/ device'[x] = device[x]
          \/ device[x].active /\ device'[x] = [device[x] EXCEPT !.active = FALSE, !.why = "moved"]
      BY <1>10, <2>2 DEF MoveToken
    <3>2. device[x].active => device[x] \in Saved
      BY <2>2 DEF DeviceTypeInv, NoDevice
    <3>. QED
      BY <2>2, <3>1, <3>2 DEF DeviceTypeInv, Saved
  <2>3. device' \in [Devices -> Saved \cup {NoDevice}]
    BY <1>10, <2>2 DEF MoveToken
  <2>4. saving' = [saving EXCEPT !.step = "create"] /\ UNCHANGED <<saves, dead>>
    BY <1>10 DEF MoveToken
  <2>5. SavingTypeOK'
    BY <1>0, <1>10, <2>1, <2>4 DEF MoveToken, DeviceTypeInv, SavingTypeOK
  <2>. QED
    BY <2>3, <2>4, <2>5 DEF DeviceTypeInv
<1>11. ASSUME NEW d \in Devices, CreateDevice(d) PROVE DeviceTypeInv'
  <2>1. saving.token \in PushTokens
    BY <1>0, <1>11 DEF CreateDevice, DeviceTypeInv, SavingTypeOK
  <2>2. [token |-> saving.token, active |-> TRUE, why |-> "none"] \in Saved
    BY <2>1 DEF Saved
  <2>. QED
    BY <1>11, <2>2 DEF CreateDevice, DeviceTypeInv, SavingTypeOK
<1>12. ASSUME NEW d \in Devices, RemoveDevice(d) PROVE DeviceTypeInv'
  BY <1>12 DEF RemoveDevice, DeviceTypeInv, SavingTypeOK
<1>13. CASE ResolveRecipients \/ InsertBroadcast \/ DispatchFails \/ Publish \/ Die
  BY <1>1, <1>13 DEF ResolveRecipients, InsertBroadcast, DispatchFails, Publish, Die
<1>14. ASSUME NEW u \in Members, FindKeyed(u) \/ CreateKeyed(u) \/ InsertRow(u) \/ EmitNothing(u)
       PROVE  DeviceTypeInv'
  BY <1>1, <1>14 DEF FindKeyed, CreateKeyed, InsertRow, EmitNothing
<1>15. CASE UNCHANGED notifyVars
  BY <1>1, <1>15 DEF notifyVars, deviceVars
<1>. QED
  BY <1>2, <1>3, <1>4, <1>5, <1>6, <1>7, <1>8, <1>9, <1>10, <1>11, <1>12, <1>13, <1>14, <1>15
     DEF NotifyNext

LEMMA InitRingInv == NotifyInit => PushInv /\ RingInv
<1> SUFFICES ASSUME NotifyInit PROVE PushInv /\ RingInv
  OBVIOUS
<1>1. PushInv
  BY DEF NotifyInit, PushInv
<1>2. \A u \in Members, t \in PushTokens : ToRing(u, t) = {}
  BY DEF NotifyInit, ToRing
<1>3. Cardinality({}) = 0
  BY FS_EmptySet
<1>4. rung = [x \in Members \X PushTokens |-> 0] /\ plainRows = [u \in Members |-> 0]
  BY DEF NotifyInit
<1>5. \A u \in Members, t \in PushTokens : rung[<<u, t>>] = 0 /\ plainRows[u] = 0
  BY <1>4
<1>6. rung \in [Members \X PushTokens -> Nat]
  BY <1>4
<1>7. \A u \in Members, t \in PushTokens :
        rung[<<u, t>>] + Cardinality(ToRing(u, t)) <= plainRows[u]
  <2>1. ASSUME NEW u \in Members, NEW t \in PushTokens
        PROVE  rung[<<u, t>>] + Cardinality(ToRing(u, t)) <= plainRows[u]
    <3>1. rung[<<u, t>>] = 0 /\ plainRows[u] = 0
      BY <1>5
    <3>2. Cardinality(ToRing(u, t)) = 0
      BY <1>2, <1>3
    <3>. QED
      BY <3>1, <3>2
  <2>. QED
    BY <2>1
<1>. QED
  BY <1>1, <1>6, <1>7 DEF RingInv

LEMMA NextRingInv ==
  HandlerInv /\ DeviceTypeInv /\ PushInv /\ RingInv /\ [NotifyNext]_notifyVars
    => PushInv' /\ RingInv'
<1> SUFFICES ASSUME HandlerInv, DeviceTypeInv, PushInv, RingInv, [NotifyNext]_notifyVars
             PROVE  PushInv' /\ RingInv'
  OBVIOUS
<1> USE NotificationAssumption
<1>1. CASE UNCHANGED <<pushing, rung, plainRows>>
  BY <1>1 DEF PushInv, RingInv, ToRing
<1>2. ASSUME NEW x \in pushing, NEW y, Later(x, y), pushing' \subseteq (pushing \ {x}) \cup {y},
             UNCHANGED <<rung, plainRows>>
      PROVE  PushInv' /\ RingInv'
  BY <1>2, PushGoesOn, RingInvFewer
<1>3. CASE InsertBroadcast
  <2>1. \A u \in Members : plainRows[u] \in Nat /\ (todo[u] = "emit" => plainRows[u] = 0)
    BY <1>3 DEF HandlerInv, InsertBroadcast, Left, MostRows
  <2>0. \A u \in Members : todo[u] = "emit" => plainRows'[u] = 1
    BY <1>3 DEF InsertBroadcast
  <2>2. PushInv'
    <3>1. ASSUME NEW x \in pushing'
          PROVE  \E u \in Members :
                   /\ plainRows'[u] = 1
                   /\ x = [user |-> u, row |-> 1, loaded |-> FALSE, left |-> {}, refused |-> {}]
      BY <1>3, <2>0, <3>1 DEF InsertBroadcast, BeginPush
    <3>2. 1 \in 1..MaxRows
      OBVIOUS
    <3>3. ASSUME NEW x \in pushing'
          PROVE  /\ x \in Push /\ x.row = 1 /\ plainRows'[x.user] = 1
                 /\ x.left = {} /\ x.refused = {}
                 /\ x = [user |-> x.user, row |-> 1, loaded |-> FALSE, left |-> {}, refused |-> {}]
      <4>1. PICK u \in Members :
              /\ plainRows'[u] = 1
              /\ x = [user |-> u, row |-> 1, loaded |-> FALSE, left |-> {}, refused |-> {}]
        BY <3>1
      <4>. QED
        BY <3>2, <4>1 DEF Push
    <3>4. ASSUME NEW x \in pushing', NEW y \in pushing', x.user = y.user PROVE x = y
      <4>1. x = [user |-> x.user, row |-> 1, loaded |-> FALSE, left |-> {}, refused |-> {}]
        BY <3>3
      <4>2. y = [user |-> y.user, row |-> 1, loaded |-> FALSE, left |-> {}, refused |-> {}]
        BY <3>3
      <4>. QED
        BY <3>4, <4>1, <4>2
    <3>. QED
      BY <3>3, <3>4 DEF PushInv
  <2>3. ASSUME NEW u \in Members, NEW t \in PushTokens
        PROVE  rung'[<<u, t>>] + Cardinality(ToRing(u, t)') <= plainRows'[u]
    <3>1. ToRing(u, t) \in SUBSET (1..MaxRows) /\ ToRing(u, t)' \in SUBSET (1..MaxRows)
      BY DEF ToRing
    <3>2. /\ Cardinality(ToRing(u, t)) \in Nat /\ Cardinality(ToRing(u, t)') \in Nat
          /\ rung[<<u, t>>] \in Nat /\ rung' = rung
          /\ rung[<<u, t>>] + Cardinality(ToRing(u, t)) <= plainRows[u]
      BY <1>3, <3>1, RowsAreFinite DEF RingInv, InsertBroadcast
    <3>3. CASE todo[u] = "emit"
      <4>1. rung[<<u, t>>] = 0 /\ plainRows'[u] = 1
        BY <1>3, <2>1, <3>2, <3>3 DEF InsertBroadcast, HandlerInv
      <4>2. ToRing(u, t)' \subseteq {} \cup {1}
        BY <1>3, <4>1 DEF ToRing, InsertBroadcast, BeginPush
      <4>3. Cardinality(ToRing(u, t)') <= 1
        BY <4>2, OneRowMore, FS_EmptySet
      <4>. QED
        BY <3>2, <4>1, <4>3
    <3>4. CASE todo[u] # "emit"
      <4>1. ToRing(u, t)' = {}
        BY <1>3, <3>4 DEF ToRing, InsertBroadcast, BeginPush
      <4>2. plainRows'[u] = plainRows[u]
        BY <1>3, <3>4 DEF InsertBroadcast, HandlerInv
      <4>. QED
        BY <2>1, <3>2, <4>1, <4>2, FS_EmptySet
    <3>. QED
      BY <3>3, <3>4
  <2>. QED
    BY <1>3, <2>2, <2>3 DEF RingInv, InsertBroadcast
<1>4. ASSUME NEW v \in Members, InsertRow(v) PROVE PushInv' /\ RingInv'
  <2> DEFINE n == plainRows[v] + 1
  <2>1. /\ n \in 1..MaxRows /\ plainRows'[v] = n
        /\ \A u \in Members \ {v} : plainRows'[u] = plainRows[u]
        /\ \A u \in Members : plainRows[u] \in Nat
        /\ plainRows' \in [Members -> Nat]
    BY <1>4 DEF HandlerInv, InsertRow
  <2>2. BeginPush(v) = [user |-> v, row |-> n, loaded |-> FALSE, left |-> {}, refused |-> {}]
    BY <2>1 DEF BeginPush
  <2>3. pushing' = pushing \cup {BeginPush(v)} /\ rung' = rung
    BY <1>4 DEF InsertRow
  <2>4. PushInv'
    <3>1. BeginPush(v) \in Push
      BY <2>1, <2>2 DEF Push
    <3>2. \A x \in pushing : /\ x \in Push /\ x.user \in Members /\ x.row \in Nat
                           /\ x.row <= plainRows[x.user]
      BY DEF PushInv, Push
    <3>3. \A x \in pushing : x.user = v => x.row < n
      BY <2>1, <3>2
    <3>4. \A x \in pushing' : x.row <= plainRows'[x.user]
      <4>1. ASSUME NEW x \in pushing PROVE x.row <= plainRows'[x.user]
        BY <2>1, <3>2, <3>3, <4>1
      <4>2. BeginPush(v).row = n /\ BeginPush(v).user = v
        BY <2>2
      <4>. QED
        BY <2>1, <2>3, <4>1, <4>2
    <3>5. \A x, y \in pushing' : x.user = y.user /\ x.row = y.row => x = y
      <4>1. \A x \in pushing : ~(x.user = v /\ x.row = n)
        BY <2>1, <3>2, <3>3
      <4>2. BeginPush(v).row = n /\ BeginPush(v).user = v
        BY <2>2
      <4>. QED
        BY <2>3, <4>1, <4>2 DEF PushInv
    <3>6. \A x \in pushing' : ~x.loaded => x.left = {} /\ x.refused = {}
      BY <2>2, <2>3 DEF PushInv
    <3>. QED
      BY <2>3, <3>1, <3>2, <3>4, <3>5, <3>6 DEF PushInv
  <2>5. ASSUME NEW u \in Members, NEW t \in PushTokens
        PROVE  rung'[<<u, t>>] + Cardinality(ToRing(u, t)') <= plainRows'[u]
    <3>1. ToRing(u, t) \in SUBSET (1..MaxRows) /\ ToRing(u, t)' \in SUBSET (1..MaxRows)
      BY DEF ToRing
    <3>2. /\ Cardinality(ToRing(u, t)) \in Nat /\ Cardinality(ToRing(u, t)') \in Nat
          /\ rung[<<u, t>>] \in Nat
          /\ rung[<<u, t>>] + Cardinality(ToRing(u, t)) <= plainRows[u]
      BY <3>1, RowsAreFinite DEF RingInv
    <3>3. CASE u = v
      <4>1. ToRing(u, t)' \subseteq ToRing(u, t) \cup {n}
        BY <2>2, <2>3, <3>3 DEF ToRing
      <4>2. Cardinality(ToRing(u, t)') <= Cardinality(ToRing(u, t)) + 1
        BY <2>1, <3>1, <4>1, OneRowMore
      <4>. QED
        BY <2>1, <2>3, <3>2, <3>3, <4>2
    <3>4. CASE u # v
      <4>1. ToRing(u, t)' \subseteq ToRing(u, t)
        BY <2>2, <2>3, <3>4 DEF ToRing
      <4>2. Cardinality(ToRing(u, t)') <= Cardinality(ToRing(u, t))
        BY <3>1, <4>1, FewerRows
      <4>. QED
        BY <2>1, <2>3, <3>2, <3>4, <4>2
    <3>. QED
      BY <3>3, <3>4
  <2>. QED
    BY <2>3, <2>4, <2>5 DEF RingInv
<1>5. CASE Die
  <2>1. PushInv'
    BY <1>5 DEF Die, PushInv
  <2>2. \A u \in Members, t \in PushTokens : ToRing(u, t)' \subseteq ToRing(u, t)
    BY <1>5 DEF Die, ToRing
  <2>. QED
    BY <1>5, <2>1, <2>2, RingInvFewer DEF Die
<1>6. ASSUME NEW x \in pushing, LoadDevices(x) PROVE PushInv' /\ RingInv'
  <2> DEFINE y == [x EXCEPT !.loaded = TRUE, !.left = ActiveTokens(x.user)]
  <2>1. pushing' \subseteq (pushing \ {x}) \cup {y} /\ UNCHANGED <<rung, plainRows>>
    BY <1>6 DEF LoadDevices, handlerVars
  <2>2. ActiveTokens(x.user) \subseteq PushTokens
    BY DEF ActiveTokens, DeviceTypeInv, Saved, NoDevice
  <2>3. Later(x, y)
    BY <1>6, <2>2 DEF LoadDevices, Later, PushInv, Push
  <2>. QED
    BY <1>2, <2>1, <2>3
<1>7. ASSUME NEW x \in pushing, NEW t \in PushTokens, SendToDevice(x, t)
      PROVE  PushInv' /\ RingInv'
  <2> DEFINE y == [x EXCEPT !.left = @ \ {t}]
  <2>1. t \in x.left /\ x \in Push
    BY <1>7 DEF SendToDevice, PushInv
  <2>2. Later(x, y) /\ Without(x, t) \subseteq {y}
    BY <2>1, WithoutIsLater
  <2>3. pushing' \subseteq (pushing \ {x}) \cup {y} /\ UNCHANGED plainRows
        /\ rung' = [rung EXCEPT ![<<x.user, t>>] = @ + 1]
    BY <1>7, <2>2 DEF SendToDevice, handlerVars
  <2>4. x.user \in Members /\ x.row \in 1..MaxRows /\ y.left = x.left \ {t} /\ y.loaded
        /\ y.user = x.user /\ y.row = x.row
    BY <2>1, <2>2 DEF Push, PushInv, Later
  <2> HIDE DEF y
  <2>5. PushInv' /\ \A u \in Members, k \in PushTokens : ToRing(u, k)' \subseteq ToRing(u, k)
    BY <2>2, <2>3, PushGoesOn
  <2>6. ASSUME NEW u \in Members, NEW k \in PushTokens
        PROVE  rung'[<<u, k>>] + Cardinality(ToRing(u, k)') <= plainRows'[u]
    <3>1. ToRing(u, k) \in SUBSET (1..MaxRows) /\ ToRing(u, k)' \in SUBSET ToRing(u, k)
      BY <2>5 DEF ToRing
    <3>2. /\ Cardinality(ToRing(u, k)) \in Nat /\ Cardinality(ToRing(u, k)') \in Nat
          /\ rung[<<u, k>>] \in Nat /\ plainRows[u] \in Nat
          /\ rung[<<u, k>>] + Cardinality(ToRing(u, k)) <= plainRows[u]
      BY <3>1, RowsAreFinite DEF RingInv, HandlerInv
    <3>3. CASE u = x.user /\ k = t
      <4>1. x.row \in ToRing(u, k)
        BY <2>1, <2>4, <3>3 DEF ToRing
      <4>2. x.row \notin ToRing(u, k)'
        BY <2>1, <2>3, <2>4, <3>3 DEF ToRing, PushInv
      <4>3. Cardinality(ToRing(u, k)') + 1 <= Cardinality(ToRing(u, k))
        BY <3>1, <4>1, <4>2, OneRowLess
      <4>4. rung'[<<u, k>>] = rung[<<u, k>>] + 1
        BY <2>3, <3>3 DEF RingInv
      <4>. QED
        BY <2>3, <3>2, <4>3, <4>4
    <3>4. CASE ~(u = x.user /\ k = t)
      <4>1. Cardinality(ToRing(u, k)') <= Cardinality(ToRing(u, k))
        BY <3>1, FewerRows
      <4>2. rung'[<<u, k>>] = rung[<<u, k>>]
        BY <2>3, <2>4, <3>4 DEF RingInv
      <4>. QED
        BY <2>3, <3>2, <4>1, <4>2
    <3>. QED
      BY <3>3, <3>4
  <2>. QED
    BY <2>3, <2>4, <2>5, <2>6 DEF RingInv
<1>8. ASSUME NEW x \in pushing, NEW t \in PushTokens, SendFails(x, t)
      PROVE  PushInv' /\ RingInv'
  <2>1. t \in x.left
    BY <1>8 DEF SendFails
  <2>2. PICK y : Later(x, y) /\ Without(x, t) \subseteq {y}
    BY <2>1, WithoutIsLater
  <2>3. pushing' \subseteq (pushing \ {x}) \cup {y} /\ UNCHANGED <<rung, plainRows>>
    BY <1>8, <2>2 DEF SendFails, handlerVars
  <2>. QED
    BY <1>2, <2>2, <2>3
<1>9. ASSUME NEW x \in pushing, NEW t \in PushTokens, TokenRefused(x, t)
      PROVE  PushInv' /\ RingInv'
  <2> DEFINE y == [x EXCEPT !.refused = {t}]
  <2>1. Later(x, y)
    BY <1>9 DEF TokenRefused, Later, PushInv, Push
  <2>2. pushing' \subseteq (pushing \ {x}) \cup {y} /\ UNCHANGED <<rung, plainRows>>
    BY <1>9 DEF TokenRefused, handlerVars
  <2>. QED
    BY <1>2, <2>1, <2>2
<1>10. ASSUME NEW x \in pushing, NEW t \in PushTokens, DeactivateByPushToken(x, t)
       PROVE  PushInv' /\ RingInv'
  <2> DEFINE z == [x EXCEPT !.refused = {}]
             y == [z EXCEPT !.left = @ \ {t}]
  <2>1. pushing' \subseteq (pushing \ {x}) \cup {y} /\ UNCHANGED <<rung, plainRows>>
    BY <1>10 DEF DeactivateByPushToken, Without, handlerVars
  <2>2. x.loaded
    BY <1>10 DEF DeactivateByPushToken, PushInv
  <2>3. Later(x, y)
    BY <2>2 DEF Later, PushInv, Push
  <2>. QED
    BY <1>2, <2>1, <2>3
<1>11. CASE ResolveRecipients \/ DispatchFails \/ Publish
  BY <1>1, <1>11 DEF ResolveRecipients, DispatchFails, Publish, pushVars
<1>12. ASSUME NEW u \in Members, FindKeyed(u) \/ CreateKeyed(u) \/ EmitNothing(u)
       PROVE  PushInv' /\ RingInv'
  BY <1>1, <1>12 DEF FindKeyed, CreateKeyed, EmitNothing, pushVars
<1>13. ASSUME NEW t \in PushTokens, TokenDies(t) PROVE PushInv' /\ RingInv'
  BY <1>1, <1>13 DEF TokenDies, pushVars, handlerVars
<1>14. ASSUME NEW d \in Devices, NEW t \in PushTokens, ReadToRegister(d, t) \/ Register(d, t)
       PROVE  PushInv' /\ RingInv'
  BY <1>1, <1>14 DEF ReadToRegister, Register, BeginSave, pushVars, handlerVars
<1>15. ASSUME NEW d \in Devices,
              \/ ReadToDeactivate(d) \/ SaveDevice(d) \/ MoveToken(d) \/ CreateDevice(d)
              \/ RemoveDevice(d)
       PROVE  PushInv' /\ RingInv'
  BY <1>1, <1>15
     DEF ReadToDeactivate, BeginSave, SaveDevice, MoveToken, CreateDevice, RemoveDevice,
         pushVars, handlerVars
<1>16. CASE UNCHANGED notifyVars
  BY <1>1, <1>16 DEF notifyVars
<1>. QED
  BY <1>3, <1>4, <1>5, <1>6, <1>7, <1>8, <1>9, <1>10, <1>11, <1>12, <1>13, <1>14, <1>15, <1>16
     DEF NotifyNext

(* A row rings each token of its user once at most. *)
THEOREM OneRingPerRow == NotifySpec => []RingsHaveRows
<1>1. HandlerInv /\ PushInv /\ RingInv => RingsHaveRows
  <2> SUFFICES ASSUME HandlerInv, RingInv, NEW u \in Members, NEW t \in PushTokens
               PROVE  rung[<<u, t>>] <= plainRows[u]
    BY DEF RingsHaveRows
  <2>1. Cardinality(ToRing(u, t)) \in Nat
    BY RowsAreFinite DEF ToRing
  <2>2. rung[<<u, t>>] \in Nat /\ plainRows[u] \in Nat
        /\ rung[<<u, t>>] + Cardinality(ToRing(u, t)) <= plainRows[u]
    BY DEF RingInv, HandlerInv
  <2>. QED
    BY <2>1, <2>2
<1>. QED
  BY <1>1, InitHandlerInv, NextHandlerInv, InitDeviceTypeInv, NextDeviceTypeInv,
     InitRingInv, NextRingInv, PTL DEF NotifySpec

(* A row that is inactive for a reason, and as dead only if its token is. *)
Good(kept) ==
  /\ kept.active <=> kept # NoDevice /\ kept.why = "none"
  /\ kept.why = "invalid" => kept.token \in dead

(* What a save will make of its row is as good. *)
HearingInv ==
  /\ \A d \in Devices : Good(device[d])
  /\ saving.step = "save" /\ device[saving.of] # NoDevice
       => Good(Merged(device[saving.of], saving.write))
  /\ \A x \in pushing : x.refused \subseteq dead

LEMMA InitHearingInv == NotifyInit => HearingInv
  BY DEF NotifyInit, HearingInv, Good, NoDevice, NoSave

LEMMA DeadStayDead ==
  ASSUME NEW kept, Good(kept), dead \subseteq dead' PROVE Good(kept)'
  BY DEF Good

(* Steps that save nothing and refuse nothing. *)
LEMMA HearingGoesOn ==
  ASSUME HearingInv, UNCHANGED <<device, saving>>, dead \subseteq dead',
         \A y \in pushing' : y.refused = {} \/ \E x \in pushing : y.refused \subseteq x.refused
  PROVE  HearingInv'
<1>1. \A d \in Devices : Good(device[d])'
  BY DEF HearingInv, Good
<1>2. (saving.step = "save" /\ device[saving.of] # NoDevice
        => Good(Merged(device[saving.of], saving.write)))'
  BY DEF HearingInv, Good, Merged
<1>3. (\A x \in pushing : x.refused \subseteq dead)'
  BY DEF HearingInv
<1>. QED
  BY <1>1, <1>2, <1>3 DEF HearingInv

LEMMA NextHearingInv ==
  ASSUME ~SavesOverlap
  PROVE  DeviceTypeInv /\ PushInv /\ HearingInv /\ [NotifyNext]_notifyVars => HearingInv'
<1> SUFFICES ASSUME DeviceTypeInv, PushInv, HearingInv, [NotifyNext]_notifyVars
             PROVE  HearingInv'
  OBVIOUS
<1> USE NotificationAssumption
<1>0. NoSave.step = "idle"
  BY DEF NoSave
<1>1. CASE ResolveRecipients \/ InsertBroadcast \/ DispatchFails \/ Publish \/ Die
  BY <1>1, HearingGoesOn
     DEF ResolveRecipients, InsertBroadcast, DispatchFails, Publish, Die, BeginPush,
         deviceVars, pushVars
<1>2. ASSUME NEW u \in Members, FindKeyed(u) \/ CreateKeyed(u) \/ InsertRow(u) \/ EmitNothing(u)
      PROVE  HearingInv'
  BY <1>2, HearingGoesOn
     DEF FindKeyed, CreateKeyed, InsertRow, EmitNothing, BeginPush, deviceVars, pushVars
<1>3. ASSUME NEW x \in pushing, LoadDevices(x) PROVE HearingInv'
  <2>1. x \in Push
    BY <1>3 DEF PushInv
  <2>2. [x EXCEPT !.loaded = TRUE, !.left = ActiveTokens(x.user)].refused = x.refused
    BY <2>1 DEF Push
  <2>. QED
    BY <1>3, <2>2, HearingGoesOn DEF LoadDevices, deviceVars
<1>4. ASSUME NEW x \in pushing, NEW t \in PushTokens, SendToDevice(x, t) \/ SendFails(x, t)
      PROVE  HearingInv'
  <2>1. x \in Push
    BY <1>4 DEF PushInv
  <2>2. \A y \in Without(x, t) : y.refused = x.refused
    BY <2>1 DEF Push, Without
  <2>3. UNCHANGED <<device, saving, dead>> /\ pushing' = (pushing \ {x}) \cup Without(x, t)
    BY <1>4 DEF SendToDevice, SendFails, deviceVars
  <2>. QED
    BY <2>2, <2>3, HearingGoesOn
<1>5. ASSUME NEW x \in pushing, NEW t \in PushTokens, TokenRefused(x, t) PROVE HearingInv'
  <2>1. x \in Push /\ t \in dead
    BY <1>5 DEF PushInv, TokenRefused
  <2>2. [x EXCEPT !.refused = {t}].refused = {t}
    BY <2>1 DEF Push
  <2>3. UNCHANGED <<device, saving, dead>>
        /\ pushing' = (pushing \ {x}) \cup {[x EXCEPT !.refused = {t}]}
    BY <1>5 DEF TokenRefused, deviceVars
  <2>4. (\A y \in pushing : y.refused \subseteq dead)'
    <3> DEFINE y == [x EXCEPT !.refused = {t}]
    <3>1. y.refused \subseteq dead' /\ pushing' = (pushing \ {x}) \cup {y}
      BY <2>1, <2>2, <2>3
    <3> HIDE DEF y
    <3>. QED
      BY <2>3, <3>1 DEF HearingInv
  <2>. QED
    BY <2>3, <2>4 DEF HearingInv, Good, Merged
<1>6. ASSUME NEW x \in pushing, NEW t \in PushTokens, DeactivateByPushToken(x, t)
      PROVE  HearingInv'
  <2>1. x \in Push /\ t \in dead /\ saving = NoSave
    BY <1>6 DEF PushInv, DeactivateByPushToken, HearingInv
  <2>2. \A y \in Without([x EXCEPT !.refused = {}], t) : y.refused = {}
    BY <2>1 DEF Push, Without
  <2>3. /\ UNCHANGED <<saving, dead>>
        /\ device' = [d \in Devices |-> Deactivated(t, device[d])]
        /\ pushing' = (pushing \ {x}) \cup Without([x EXCEPT !.refused = {}], t)
    BY <1>6 DEF DeactivateByPushToken
  <2>4. ASSUME NEW d \in Devices PROVE Good(device[d])'
    <3>1. Good(device[d]) /\ device'[d] = Deactivated(t, device[d])
      BY <2>3, <2>4 DEF HearingInv
    <3>2. CASE device[d] = NoDevice
      BY <2>3, <3>1, <3>2 DEF Deactivated, NoDevice, Good
    <3>3. CASE device[d] \in Saved
      <4>1. CASE device[d].token = t /\ device[d].active
        <5>1. device'[d] = [device[d] EXCEPT !.active = FALSE, !.why = "invalid"]
          BY <3>1, <4>1 DEF Deactivated
        <5>2. device'[d].active = FALSE /\ device'[d].why = "invalid" /\ device'[d].token = t
          BY <3>3, <4>1, <5>1 DEF Saved
        <5>. QED
          BY <2>1, <2>3, <5>2 DEF Good
      <4>2. CASE ~(device[d].token = t /\ device[d].active)
        BY <2>3, <3>1, <4>2 DEF Deactivated, Good
      <4>. QED
        BY <4>1, <4>2
    <3>. QED
      BY <2>4, <3>2, <3>3 DEF DeviceTypeInv
  <2>5. (\A y \in pushing : y.refused \subseteq dead)'
    BY <2>2, <2>3 DEF HearingInv
  <2>. QED
    BY <1>0, <2>1, <2>3, <2>4, <2>5 DEF HearingInv
<1>7. ASSUME NEW t \in PushTokens, TokenDies(t) PROVE HearingInv'
  BY <1>7, HearingGoesOn DEF TokenDies, pushVars
<1>8. ASSUME NEW d \in Devices, NEW t \in PushTokens, ReadToRegister(d, t) PROVE HearingInv'
  <2> DEFINE wanted == [token |-> t, active |-> TRUE, why |-> "none"]
             w == Differing(device[d], wanted)
  <2>1. device[d] \in Saved /\ wanted \in Saved
    BY <1>8 DEF ReadToRegister, DeviceTypeInv, Saved
  <2>2. saving' = [of |-> d, step |-> "save", write |-> w]
        /\ UNCHANGED <<device, dead, pushing>>
    BY <1>8 DEF ReadToRegister, BeginSave, pushVars
  <2>3. Good(wanted)
    BY DEF Good, NoDevice
  <2>4. Merged(device[d], w) = wanted
    BY <2>1, DifferingMerges
  <2> HIDE DEF w, wanted
  <2>5. saving'.of = d /\ saving'.write = w
    BY <2>2
  <2>. QED
    BY <2>2, <2>3, <2>4, <2>5 DEF HearingInv, Good, Merged
<1>9. ASSUME NEW d \in Devices, ReadToDeactivate(d) PROVE HearingInv'
  <2> DEFINE wanted == [device[d] EXCEPT !.active = FALSE, !.why = "user"]
             w == Differing(device[d], wanted)
  <2>1. device[d] \in Saved
    BY <1>9 DEF ReadToDeactivate, DeviceTypeInv
  <2>2. wanted \in Saved /\ wanted.active = FALSE /\ wanted.why = "user"
    BY <2>1 DEF Saved
  <2>3. saving' = [of |-> d, step |-> "save", write |-> w]
        /\ UNCHANGED <<device, dead, pushing>>
    BY <1>9 DEF ReadToDeactivate, BeginSave, pushVars
  <2>4. Good(wanted)
    BY <2>2 DEF Good, NoDevice
  <2>5. Merged(device[d], w) = wanted
    BY <2>1, <2>2, DifferingMerges
  <2> HIDE DEF w, wanted
  <2>6. saving'.of = d /\ saving'.write = w
    BY <2>3
  <2>. QED
    BY <2>3, <2>4, <2>5, <2>6 DEF HearingInv, Good, Merged
<1>10. ASSUME NEW d \in Devices, SaveDevice(d) PROVE HearingInv'
  <2>1. /\ saving.step = "save" /\ saving.of = d /\ saving' = NoSave
        /\ UNCHANGED <<pushing, dead>>
    BY <1>10 DEF SaveDevice, pushVars
  <2>2. device' = [device EXCEPT ![d] = IF @ = NoDevice THEN @ ELSE Merged(@, saving.write)]
    BY <1>10, <2>1 DEF SaveDevice, Merged
  <2>3. \A e \in Devices : Good(device'[e])
    BY <2>1, <2>2 DEF HearingInv, DeviceTypeInv
  <2>. QED
    BY <1>0, <2>1, <2>3 DEF HearingInv, Good
<1>11. ASSUME NEW d \in Devices, NEW t \in PushTokens, Register(d, t) PROVE HearingInv'
  BY <1>11 DEF Register, BeginSave, HearingInv, Good, pushVars
<1>12. ASSUME NEW d \in Devices, MoveToken(d) PROVE HearingInv'
  <2>1. /\ saving'.step = "create" /\ UNCHANGED <<pushing, dead>>
        /\ saving.step = "move"
    BY <1>0, <1>12 DEF MoveToken, DeviceTypeInv, SavingTypeOK, pushVars
  <2>2. ASSUME NEW e \in Devices PROVE Good(device[e])'
    <3>1. Good(device[e])
      BY <2>2 DEF HearingInv
    <3>2. CASE device'[e] = device[e]
      BY <2>1, <3>1, <3>2 DEF Good
    <3>3. CASE /\ device[e].active
               /\ device'[e] = [device[e] EXCEPT !.active = FALSE, !.why = "moved"]
      <4>1. device[e] \in Saved
        BY <2>2, <3>3 DEF DeviceTypeInv, NoDevice
      <4>2. device'[e].active = FALSE /\ device'[e].why = "moved"
        BY <3>3, <4>1 DEF Saved
      <4>. QED
        BY <2>1, <4>2 DEF Good
    <3>. QED
      BY <1>12, <2>2, <3>2, <3>3 DEF MoveToken
  <2>. QED
    BY <2>1, <2>2 DEF HearingInv
<1>13. ASSUME NEW d \in Devices, CreateDevice(d) PROVE HearingInv'
  <2>1. /\ saving' = NoSave /\ UNCHANGED <<pushing, dead>>
        /\ device' = [device EXCEPT ![d] = [token |-> saving.token, active |-> TRUE, why |-> "none"]]
    BY <1>13 DEF CreateDevice, pushVars
  <2>2. Good([token |-> saving.token, active |-> TRUE, why |-> "none"])
    BY DEF Good, NoDevice
  <2>3. \A e \in Devices : Good(device'[e])
    BY <2>1, <2>2 DEF HearingInv, DeviceTypeInv
  <2>. QED
    BY <1>0, <2>1, <2>3 DEF HearingInv, Good
<1>14. ASSUME NEW d \in Devices, RemoveDevice(d) PROVE HearingInv'
  <2>1. UNCHANGED <<pushing, dead, saving>> /\ device' = [device EXCEPT ![d] = NoDevice]
    BY <1>14 DEF RemoveDevice, pushVars
  <2>2. Good(NoDevice)
    BY DEF Good, NoDevice
  <2>3. \A e \in Devices : Good(device'[e])
    BY <2>1, <2>2 DEF HearingInv, DeviceTypeInv
  <2>4. saving.step = "save" /\ device'[saving.of] # NoDevice
          => Good(Merged(device'[saving.of], saving.write))
    BY <1>0, <2>1 DEF HearingInv, DeviceTypeInv, SavingTypeOK
  <2>. QED
    BY <2>1, <2>3, <2>4 DEF HearingInv, Good, Merged
<1>15. CASE UNCHANGED notifyVars
  BY <1>15, HearingGoesOn DEF notifyVars
<1>. QED
  BY <1>1, <1>2, <1>3, <1>4, <1>5, <1>6, <1>7, <1>8, <1>9, <1>10, <1>11, <1>12, <1>13, <1>14, <1>15
     DEF NotifyNext

(* Only a dead token, its user or a move makes a device inactive, as long as no save
   overlaps the pruning of a token. *)
THEOREM LiveDevicesHear ==
  ASSUME ~SavesOverlap
  PROVE  NotifySpec => []LiveTokensHear
<1>1. HearingInv => LiveTokensHear
  BY DEF HearingInv, Good, LiveTokensHear
<1>2. DeviceTypeInv /\ PushInv /\ HearingInv /\ [NotifyNext]_notifyVars => HearingInv'
  BY NextHearingInv
<1>. QED
  BY <1>1, <1>2, InitHandlerInv, NextHandlerInv, InitDeviceTypeInv, NextDeviceTypeInv,
     InitRingInv, NextRingInv, InitHearingInv, PTL DEF NotifySpec

(* The invariants above bound every count: the state is well typed. *)
THEOREM NotifyTypes == NotifySpec => []NotifyTypeOK
<1>1. HandlerInv /\ PushInv /\ RingInv /\ DeviceTypeInv => NotifyTypeOK
  <2> SUFFICES ASSUME HandlerInv, PushInv, RingInv, DeviceTypeInv PROVE NotifyTypeOK
    OBVIOUS
  <2> USE NotificationAssumption
  <2>1. keyedRows \in [Members -> 0..MaxRuns] /\ plainRows \in [Members -> 0..MaxRows]
    BY DEF HandlerInv
  <2>2. saving # NoSave => /\ saving.of \in Devices
                           /\ \/ saving.step = "save" /\ DOMAIN saving.write \subseteq Columns
                              \/ saving.step \in {"move", "create"} /\ saving.token \in PushTokens
    BY DEF DeviceTypeInv, SavingTypeOK
  <2>. QED
    BY <2>1, <2>2 DEF HandlerInv, PushInv, RingInv, DeviceTypeInv, NotifyTypeOK
<1>. QED
  BY <1>1, InitHandlerInv, NextHandlerInv, InitDeviceTypeInv, NextDeviceTypeInv,
     InitRingInv, NextRingInv, PTL DEF NotifySpec

-----------------------------------------------------------------------------
(* The run that composes the three.                                        *)

(* Every run of the composition is a run of the messages and of the
   notifications. *)
LEMMA DeliveryRunsParts == DeliveryRun => MessageSpec /\ NotifySpec
<1>1. DeliveryInit => MessageInit /\ NotifyInit
  BY DEF DeliveryInit, MessagesRest, NotifyRests
<1>2. [DeliveryNext]_deliveryVars => [MessageNext]_messageVars /\ [NotifyNext]_notifyVars
  BY DEF DeliveryNext, deliveryVars
<1>. QED
  BY <1>1, <1>2, PTL DEF DeliveryRun, MessageSpec, NotifySpec

(* Whatever the worker, the chat, the messages and the devices do, as long as no save
   of a device overlaps the pruning of a token: the preview follows the deletions,
   the rows of a user are bounded, a push has a row, and a live token hears. *)
THEOREM UsersAreToldSoundly ==
  ASSUME ~SavesOverlap
  PROVE  DeliveryRun => []TellingSound
<1>1. NotifySpec => []LiveTokensHear
  BY LiveDevicesHear
<1>. QED
  BY <1>1, DeliveryRunsParts, NotifyTypes, PreviewReplaced, RowsAreBounded, OneRingPerRow, PTL
     DEF TellingSound, NotificationsSound
=============================================================================
