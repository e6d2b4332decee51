------------------------------- MODULE Messages -------------------------------
(***************************************************************************)
(* The messages of one chat, the last message the chat list shows, and the *)
(* receipts and the unread badge of each participant (message.service.js,  *)
(* message_receipt.service.js).                                            *)
(*                                                                         *)
(* Sending and deleting are transactions that write the row of the message *)
(* and then wait for the row of the chat: a step before the wait and one   *)
(* that ends with the commit.  Reading a message is a transaction that     *)
(* writes the receipt and lowers the badge by what a snapshot said of it.  *)
(* Reactions, pins, deletions for one user, and edits, those too that move *)
(* a message to another chat, are left out, and so are joining and         *)
(* leaving: see EventChat and CommunityMembership.                         *)
(***************************************************************************)
EXTENDS Integers

CONSTANTS
  LastSent,     \* bound: messages
  Participants  \* of the chat, all the time

ASSUME MessageAssumption == LastSent \in Nat

VARIABLES
  message,      \* message[m]: its row, as far as transactions have got
  author,       \* author[m]: its sender
  lastMessage,  \* last_message_id of the chat, 0 for none
  latest,       \* history: the message whose sending committed last
  unopened,     \* unopened[u]: receipts with read_at null
  unread,       \* unread[u]: unread_count
  opening,      \* opening[u]: badges that reads under way have seen, by message
  clearing      \* clearing[u]: what markAllRead has seen of the badge

messageVars == <<message, author, lastMessage, latest, unopened, unread, opening, clearing>>
badgeVars == <<unopened, unread, opening, clearing>>

Sent == 1..LastSent
Badges == (-LastSent)..LastSent
NotOpening == LastSent + 1

MessageTypeOK ==
  /\ message \in [Sent -> {"unborn", "sending", "sent", "deleting", "erasing", "deleted",
                         "removed"}]
  /\ author \in [Sent -> Participants]
  /\ lastMessage \in {0} \cup Sent /\ latest \in {0} \cup Sent
  /\ unopened \in [Participants -> SUBSET Sent]
  /\ unread \in [Participants -> Badges]
  /\ opening \in [Participants -> [Sent -> Badges \cup {NotOpening}]]
  /\ clearing \in [Participants -> {"no", "badge", "nothing"}]

MessageInit ==
  /\ message = [m \in Sent |-> "unborn"]
  /\ author \in [Sent -> Participants]
  /\ lastMessage = 0 /\ latest = 0
  /\ unopened = [u \in Participants |-> {}]
  /\ unread = [u \in Participants |-> 0]
  /\ opening = [u \in Participants |-> [m \in Sent |-> NotOpening]]
  /\ clearing = [u \in Participants |-> "no"]

-----------------------------------------------------------------------------
SetMessage(m, s) == message' = [message EXCEPT ![m] = s] /\ UNCHANGED author

(* The row is inserted, which fixes the order of the ids ... *)
SendMessage(m) ==
  /\ message[m] = "unborn" /\ \A n \in 1..(m - 1) : message[n] # "unborn"
  /\ SetMessage(m, "sending")
  /\ UNCHANGED <<lastMessage, latest, badgeVars>>

(* ... and the chat, the badges and the receipts follow; commits need not come
   in that order. *)
CommitMessage(m) ==
  /\ message[m] = "sending" /\ SetMessage(m, "sent")
  /\ lastMessage' = m /\ latest' = m
  /\ unread' = [u \in Participants |-> IF u = author[m] THEN unread[u] ELSE unread[u] + 1]
  /\ unopened' = [u \in Participants |-> IF u = author[m] THEN unopened[u] ELSE unopened[u] \cup {m}]
  /\ UNCHANGED <<opening, clearing>>

(* deleteForEveryone; what is not committed others do not see, so the message
   is found, opened and chosen until then, unless it was removed after the
   request had found it. *)
Visible == {m \in Sent : message[m] \in {"sent", "deleting"}}

DeleteForEveryone(m) ==
  /\ message[m] \in {"sent", "removed"}
  /\ SetMessage(m, IF message[m] = "sent" THEN "deleting" ELSE "erasing")
  /\ UNCHANGED <<lastMessage, latest, badgeVars>>

Newest(ms) == CHOOSE m \in ms \cup {0} : \A n \in ms : n <= m

(* Variant: the replacement is not looked for. *)
CommitDeletionOnly(m) ==
  /\ message[m] \in {"deleting", "erasing"} /\ SetMessage(m, "deleted")
  /\ UNCHANGED <<lastMessage, latest, badgeVars>>

(* With the row of the chat locked, the snapshot is taken. *)
CommitDeletion(m) ==
  /\ message[m] \in {"deleting", "erasing"} /\ SetMessage(m, "deleted")
  /\ lastMessage' = IF lastMessage = m THEN Newest(Visible \ {m}) ELSE lastMessage
  /\ UNCHANGED <<latest, badgeVars>>

(* softDeleteMessage, its form for many and an update that sets is_deleted leave
   the chat as it is, and with it the preview. *)
SoftDeleteMessage(m) ==
  /\ message[m] = "sent" /\ SetMessage(m, "removed")
  /\ UNCHANGED <<lastMessage, latest, badgeVars>>

-----------------------------------------------------------------------------
(* markMessageRead: the receipt, and then what the badge is. *)
MarkMessageRead(u, m) ==
  /\ m \in Visible /\ u # author[m] /\ opening[u][m] = NotOpening
  /\ unopened' = [unopened EXCEPT ![u] = @ \ {m}]
  /\ opening' = [opening EXCEPT ![u][m] = unread[u]]
  /\ UNCHANGED <<message, author, lastMessage, latest, unread, clearing>>

LowerBadge(u, m) ==
  /\ opening[u][m] # NotOpening
  /\ opening' = [opening EXCEPT ![u][m] = NotOpening]
  /\ unread[u] > -LastSent  \* bound
  /\ unread' = IF opening[u][m] > 0 THEN [unread EXCEPT ![u] = @ - 1] ELSE unread
  /\ UNCHANGED <<message, author, lastMessage, latest, unopened, clearing>>

(* markAllRead reads the row of the participant, and writes the badge if it was
   not 0. *)
MarkAllRead(u) ==
  /\ clearing[u] = "no"
  /\ clearing' = [clearing EXCEPT ![u] = IF unread[u] = 0 THEN "nothing" ELSE "badge"]
  /\ UNCHANGED <<message, author, lastMessage, latest, unopened, unread, opening>>

ClearBadge(u) ==
  /\ clearing[u] # "no" /\ clearing' = [clearing EXCEPT ![u] = "no"]
  /\ unread' = IF clearing[u] = "badge" THEN [unread EXCEPT ![u] = 0] ELSE unread
  /\ unopened' = [unopened EXCEPT ![u] = @ \ Visible]
  /\ UNCHANGED <<message, author, lastMessage, latest, opening>>

-----------------------------------------------------------------------------
MessageNext ==
  \/ \E m \in Sent :
       \/ SendMessage(m) \/ CommitMessage(m)
       \/ DeleteForEveryone(m) \/ CommitDeletion(m) \/ SoftDeleteMessage(m)
       \/ \E u \in Participants : MarkMessageRead(u, m) \/ LowerBadge(u, m)
  \/ \E u \in Participants : MarkAllRead(u) \/ ClearBadge(u)

MessageSpec == MessageInit /\ [][MessageNext]_messageVars

-----------------------------------------------------------------------------
(* Whatever is sent and deleted at once, a message deleted for everyone is the
   preview no more once its deletion is answered.  What takes its place is the
   newest message left, nothing only if none is left; until then the preview is
   the message committed last, be it removed by an administrator. *)
PreviewFollows ==
  /\ lastMessage # 0 => message[lastMessage] \in {"sent", "deleting", "erasing", "removed"}
  /\ lastMessage = 0 \/ lastMessage # latest => \A m \in Visible : m <= lastMessage

(* What the code does not keep.  chat.service.js: "Last message preview", by
   which the chat list reads a message whether or not it was removed.  Commits out
   of the order of the ids and SoftDeleteMessage break it. *)
PreviewIsNewest == lastMessage = Newest(Visible)

(* message.service.js: "Decrement unread_count (floor at 0)". *)
UnreadFloor == \A u \in Participants : unread[u] >= 0

(* A badge of 0 with receipts open, or the reverse. *)
BadgeMatches == \A u \in Participants : (unread[u] > 0) = (unopened[u] # {})
=============================================================================
