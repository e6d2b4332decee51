-------------------------- MODULE CommunityMembership --------------------------
(***************************************************************************)
(* One community, its members and its group chat: communityMember.service, *)
(* community_join_request.service, communityInvitation.service,            *)
(* communityChat.service and the status of community.service; the rules of *)
(* community.policy; the chat's own endpoints (chat_participant.service)   *)
(* and the socket room chat:<id> (socket.js).                              *)
(*                                                                         *)
(* Each change of a membership is a transaction that locks the community   *)
(* row first: one action.  The checks of the middleware and of the socket  *)
(* are statements before it: a request that passed them is in `entering`.  *)
(* Asking to join and inviting lock nothing: what they checked is in       *)
(* `asked` until they create their row.                                    *)
(* Administrators of the platform, who pass every check, are left out, and *)
(* so is the status "pending" of a member, which no code writes.           *)
(***************************************************************************)
EXTENDS Naturals, FiniteSets

CONSTANTS
  People,      \* the users of the platform
  Owner,       \* who created the community
  Interleaved  \* requests between their check and their act overlap the rest

ASSUME CommunityAssumption ==
  IsFiniteSet(People) /\ Owner \in People /\ Interleaved \in BOOLEAN

VARIABLES
  phase,      \* of the community row; nothing reactivates an inactive one
  private,    \* is_private
  standing,   \* standing[u]: status of the community_members row
  role,       \* role[u]: its role, which outlives the membership
  headcount,  \* members_count
  requests,   \* users with a pending join request
  invites,    \* users with a pending invitation
  seat,       \* seat[u]: the chat_participants row, its role while it is live
  listening,  \* users with a socket in the room of the chat
  entering,   \* entering[u]: what a request of u that was checked does next
  asked       \* <<u, what>>: a request or an invitation of u about to be created

memberRows == <<standing, role, headcount>>
chatRows == <<seat, listening>>
underway == <<entering, asked>>
communityVars == <<phase, private, memberRows, requests, invites, chatRows, underway>>

Roles == {"admin", "moderator", "member"}
Steps == {"idle", "sit as admin", "sit as member", "listen", "review"}

CommunityTypeOK ==
  /\ phase \in {"active", "inactive", "deleted"} /\ private \in BOOLEAN
  /\ standing \in [People -> {"none", "active", "left", "banned"}]
  /\ role \in [People -> Roles]
  /\ headcount \in Nat
  /\ requests \subseteq People /\ invites \subseteq People
  /\ seat \in [People -> {"none", "out", "admin", "member"}]
  /\ listening \subseteq People
  /\ entering \in [People -> Steps]
  /\ asked \subseteq People \X {"request", "invitation"}

(* createCommunity. *)
CommunityInit ==
  /\ phase = "active" /\ private \in BOOLEAN
  /\ standing = [u \in People |-> IF u = Owner THEN "active" ELSE "none"]
  /\ role = [u \in People |-> IF u = Owner THEN "admin" ELSE "member"]
  /\ headcount = 1
  /\ requests = {} /\ invites = {}
  /\ seat = [u \in People |-> IF u = Owner THEN "admin" ELSE "none"]
  /\ listening = {}
  /\ entering = [u \in People |-> "idle"] /\ asked = {}

-----------------------------------------------------------------------------
Active(u) == standing[u] = "active"
Members == {u \in People : Active(u)}
Admins == {u \in Members : role[u] = "admin"}
Live(u) == seat[u] \in {"admin", "member"}

(* getEffectiveRole, for those who act. *)
Rank(u) == IF u = Owner THEN "owner" ELSE IF Active(u) THEN role[u] ELSE "none"
Leads(u) == Rank(u) \in {"owner", "admin"}
Moderates(u) == Leads(u) \/ Rank(u) = "moderator"
(* community.policy: whom a may promote, remove, ban. *)
CanChangeRole(a, u) == Leads(a) /\ u \notin {Owner, a} /\ (a # Owner => role[u] # "admin")
CanRemove(a, u) == Moderates(a) /\ u # Owner /\ (Rank(a) = "moderator" => role[u] = "member")
CanBan(a, u) == Leads(a) /\ u \notin {Owner, a}

MayMove == Interleaved \/ (asked = {} /\ \A u \in People : entering[u] = "idle")

ChatRole(r) == IF r = "member" THEN "member" ELSE "admin"

(* Variant: the seat is taken, the sockets stay. *)
SetMemberQuietly(u, s, r) ==
  /\ standing' = [standing EXCEPT ![u] = s]
  /\ role' = [role EXCEPT ![u] = r]
  /\ headcount' = headcount + (IF s = "active" /\ ~Active(u) THEN 1 ELSE 0)
                            - (IF s # "active" /\ Active(u) THEN 1 ELSE 0)
  /\ seat' = [seat EXCEPT ![u] = IF s = "active" THEN ChatRole(r) ELSE "out"]
  /\ UNCHANGED listening

(* The row of a user and, in the same transaction, syncCommunityChatParticipant:
   the seat follows the membership, the sockets of who is no member leave. *)
SetMember(u, s, r) ==
  /\ standing' = [standing EXCEPT ![u] = s]
  /\ role' = [role EXCEPT ![u] = r]
  /\ headcount' = headcount + (IF s = "active" /\ ~Active(u) THEN 1 ELSE 0)
                            - (IF s # "active" /\ Active(u) THEN 1 ELSE 0)
  /\ seat' = [seat EXCEPT ![u] = IF s = "active" THEN ChatRole(r) ELSE "out"]
  /\ listening' = IF s = "active" THEN listening ELSE listening \ {u}

Joinable == MayMove /\ phase = "active"
(* The middleware found the community active; the operation asks that it is not
   deleted. *)
Moderated == MayMove /\ phase # "deleted" /\ (phase = "inactive" => Interleaved)

-----------------------------------------------------------------------------
(* Members and those who want to be.                                       *)

JoinPublic(u) ==
  /\ Joinable /\ ~private
  /\ standing[u] \in {"none", "left"}
  /\ SetMember(u, "active", role[u])
  /\ UNCHANGED <<phase, private, requests, invites, underway>>

Leave(u) ==
  /\ MayMove /\ phase # "deleted"
  /\ Active(u) /\ u # Owner
  /\ role[u] = "admin" => Cardinality(Admins) > 1
  /\ SetMember(u, "left", role[u])
  /\ UNCHANGED <<phase, private, requests, invites, underway>>

(* The controller decides on a cached is_private: a request may reach a public
   community.  createJoinRequest checks the membership in a snapshot. *)
AskToJoin(u) ==
  /\ Joinable /\ standing[u] \in {"none", "left"}
  /\ asked' = asked \cup {<<u, "request">>}
  /\ UNCHANGED <<phase, private, memberRows, requests, invites, chatRows, entering>>

CreateRequest(u) ==
  /\ <<u, "request">> \in asked /\ asked' = asked \ {<<u, "request">>}
  /\ requests' = requests \cup {u}
  /\ UNCHANGED <<phase, private, memberRows, invites, chatRows, entering>>

(* respondToInvitation; nothing asks what became of the user meanwhile. *)
Accept(u) ==
  /\ MayMove /\ u \in invites /\ phase = "active"
  /\ invites' = invites \ {u}
  /\ IF Active(u) THEN SetMember(u, "active", role[u]) ELSE SetMember(u, "active", "member")
  /\ UNCHANGED <<phase, private, requests, underway>>

Decline(u) ==
  /\ MayMove /\ u \in invites
  /\ invites' = invites \ {u}
  /\ UNCHANGED <<phase, private, memberRows, requests, chatRows, underway>>

-----------------------------------------------------------------------------
(* Those who run it.  requireCommunityRole lets a moderator on to a request or
   an invitation; roles, removals and bans are checked again inside.        *)

Review(a) ==
  /\ Moderated /\ Moderates(a) /\ entering[a] = "idle"
  /\ entering' = [entering EXCEPT ![a] = "review"]
  /\ UNCHANGED <<phase, private, memberRows, requests, invites, chatRows, asked>>

Reviewed(a) == entering[a] = "review" /\ entering' = [entering EXCEPT ![a] = "idle"]

Approve(a, u) ==
  /\ Reviewed(a) /\ phase # "deleted" /\ u \in requests
  /\ requests' = requests \ {u}
  /\ SetMember(u, "active", "member")
  /\ UNCHANGED <<phase, private, invites, asked>>

Reject(a, u) ==
  /\ Reviewed(a) /\ u \in requests
  /\ requests' = requests \ {u}
  /\ UNCHANGED <<phase, private, memberRows, invites, chatRows, asked>>

(* Variant: anybody may be invited. *)
InviteWhoever(a, u) ==
  /\ Reviewed(a) /\ phase = "active"
  /\ asked' = asked \cup {<<u, "invitation">>}
  /\ UNCHANGED <<phase, private, memberRows, requests, invites, chatRows>>

(* sendInvitations reads the membership of each user in a snapshot ... *)
Invite(a, u) ==
  /\ Reviewed(a) /\ phase = "active" /\ standing[u] \in {"none", "left"}
  /\ asked' = asked \cup {<<u, "invitation">>}
  /\ UNCHANGED <<phase, private, memberRows, requests, invites, chatRows>>

(* ... and creates his invitation. *)
CreateInvitation(u) ==
  /\ <<u, "invitation">> \in asked /\ asked' = asked \ {<<u, "invitation">>}
  /\ invites' = invites \cup {u}
  /\ UNCHANGED <<phase, private, memberRows, requests, chatRows, entering>>

ChangeRole(a, u, r) ==
  /\ Moderated /\ Active(u) /\ CanChangeRole(a, u)
  /\ SetMember(u, "active", r)
  /\ UNCHANGED <<phase, private, requests, invites, underway>>

Expel(a, u) ==
  /\ Moderated /\ Active(u) /\ CanRemove(a, u)
  /\ SetMember(u, "left", role[u])
  /\ UNCHANGED <<phase, private, requests, invites, underway>>

(* A user without a row gets one. *)
Ban(a, u) ==
  /\ Moderated /\ CanBan(a, u)
  /\ SetMember(u, "banned", role[u])
  /\ UNCHANGED <<phase, private, requests, invites, underway>>

Unban(a, u) ==
  /\ Moderated /\ Leads(a) /\ standing[u] = "banned"
  /\ SetMember(u, "left", role[u])
  /\ UNCHANGED <<phase, private, requests, invites, underway>>

(* updateCommunity, as far as it matters here, and softDeleteCommunity. *)
Publish(a, p, s) ==
  /\ Moderated /\ Moderates(a)
  /\ phase' = s /\ private' = p
  /\ UNCHANGED <<memberRows, requests, invites, chatRows, underway>>

SoftDelete ==
  /\ Moderated /\ phase' = "deleted"
  /\ UNCHANGED <<private, memberRows, requests, invites, chatRows, underway>>

-----------------------------------------------------------------------------
(* The chat of the community.                                              *)

Belongs(u) == phase = "active" /\ (Active(u) \/ u = Owner)
(* verifyChatMember, for who has a seat; the chat of a deleted community is not
   found and its membership not asked for. *)
Seated(u) == Live(u) /\ (phase = "deleted" \/ Belongs(u))
ChatAdmin(u) == Seated(u) /\ seat[u] = "admin"

Takes(u, s) ==
  /\ MayMove /\ entering[u] = "idle"
  /\ entering' = [entering EXCEPT ![u] = s]
  /\ UNCHANGED <<phase, private, memberRows, requests, invites, chatRows, asked>>

(* getCommunityChat gives a member a seat, verifyChatMember one who has none ... *)
EnterCommunityChat(u) ==
  /\ Belongs(u)
  /\ Takes(u, IF u = Owner \/ role[u] # "member" THEN "sit as admin" ELSE "sit as member")

(* ... with the role it read. *)
TakeSeat(u) ==
  /\ entering[u] \in {"sit as admin", "sit as member"}
  /\ seat' = [seat EXCEPT ![u] = IF entering[u] = "sit as admin" THEN "admin" ELSE "member"]
  /\ entering' = [entering EXCEPT ![u] = "idle"]
  /\ UNCHANGED <<phase, private, memberRows, requests, invites, listening, asked>>

(* user:join:chat. *)
AskToListen(u) == Live(u) /\ Belongs(u) /\ Takes(u, "listen")
Listen(u) ==
  /\ entering[u] = "listen"
  /\ listening' = listening \cup {u}
  /\ entering' = [entering EXCEPT ![u] = "idle"]
  /\ UNCHANGED <<phase, private, memberRows, requests, invites, seat, asked>>

Reseat(u, s) ==
  /\ MayMove /\ seat' = [seat EXCEPT ![u] = s]
  /\ UNCHANGED <<phase, private, memberRows, requests, invites, listening, underway>>

(* leaveChat counts the admins on another connection than that of its
   transaction, so it counts the one who leaves and promotes nobody. *)
LeaveSeat(u) == Seated(u) /\ Reseat(u, "out")

(* addParticipants asks neither for membership nor for a former row, on which
   the unique key fails. *)
AddToChat(a, u) == ChatAdmin(a) /\ phase # "deleted" /\ seat[u] = "none" /\ Reseat(u, "member")

RemoveFromChat(a, u) == ChatAdmin(a) /\ Live(u) /\ Reseat(u, "out")
MakeChatAdmin(a, u) == ChatAdmin(a) /\ Live(u) /\ Reseat(u, "admin")

Hush(u) ==
  /\ MayMove /\ u \in listening /\ listening' = listening \ {u}
  /\ UNCHANGED <<phase, private, memberRows, requests, invites, seat, underway>>

-----------------------------------------------------------------------------
CommunityNext ==
  \/ \E u \in People :
       \/ JoinPublic(u) \/ Leave(u) \/ AskToJoin(u) \/ CreateRequest(u) \/ Accept(u) \/ Decline(u)
       \/ Review(u) \/ CreateInvitation(u) \/ EnterCommunityChat(u) \/ TakeSeat(u) \/ AskToListen(u) \/ Listen(u)
       \/ LeaveSeat(u) \/ Hush(u)
  \/ \E a, u \in People :
       \/ Approve(a, u) \/ Reject(a, u) \/ Invite(a, u)
       \/ Expel(a, u) \/ Ban(a, u) \/ Unban(a, u)
       \/ AddToChat(a, u) \/ RemoveFromChat(a, u) \/ MakeChatAdmin(a, u)
       \/ \E r \in Roles : ChangeRole(a, u, r)
  \/ \E a \in People, p \in BOOLEAN, s \in {"active", "inactive"} : Publish(a, p, s)
  \/ SoftDelete

CommunitySpec == CommunityInit /\ [][CommunityNext]_communityVars

-----------------------------------------------------------------------------
(* members_count is the number of active rows, whichever way people come and
   go, twice over or back from a ban. *)
CountExact == headcount = Cardinality(Members)

(* The creator stays an active admin: no approval resets his role, for no
   request or invitation of his is ever pending. *)
OwnerStays == Active(Owner) /\ role[Owner] = "admin"

(* A user banned with neither request nor invitation pending gets neither, and
   is a member again only after an unban. *)
BansHold ==
  [][\A u \in People : standing[u] = "banned" /\ u \notin requests \cup invites =>
       /\ ~Active(u)'
       /\ standing'[u] = "banned" => u \notin requests' \cup invites']_communityVars

(* COMMUNITY_ENTERPRISE_FINAL_AUDIT.md: who leaves, is removed or banned has no
   seat in the chat, and no chat admin can give him one. *)
FormersAreOut == \A u \in People : standing[u] \in {"left", "banned"} => ~Live(u)

(* Whoever listens to the chat is a member, though chat admins may seat others. *)
ListenersBelong == \A u \in listening : Active(u)

(* The three, whatever joins, approvals, removals and bans follow each other. *)
MembershipSound == CountExact /\ OwnerStays /\ ListenersBelong

(* What the code does not keep: a ban is lifted by an unban only.
   COMMUNITY_ENTERPRISE_FINAL_AUDIT.md: "Active members only (rejects `pending`,
   `banned`, `removed`)". *)
OnlyUnbanLifts ==
  [][\A u \in People : standing[u] = "banned" => ~Active(u)']_communityVars

(* chat_participant.service.js: "If leaving admin was the only admin,
   auto-promote oldest remaining member". *)
ChatHasAdmin ==
  (\E u \in People : Live(u)) => \E u \in People : seat[u] = "admin"

(* communityChat: the role in the chat is that of the membership. *)
SeatsFollowRoles == \A u \in People : Live(u) => Active(u) /\ seat[u] = ChatRole(role[u])
=============================================================================
