--------------------------- MODULE PlatformProofs ---------------------------
(***************************************************************************)
(* Proofs about the members and the counters of a community, polls, the    *)
(* counters of a post and the documents of a society, for any numbers of   *)
(* users and requests, and about the run that composes the eleven.         *)
(***************************************************************************)
EXTENDS MCPlatform, EventRsvpProofs, AccountProofs, CatalogueProofs,
        FiniteSetTheorems, TLAPS

MemberStandings == {"none", "active", "left", "banned"}
Seats == {"none", "out", "admin", "member"}

(* The creator is an active admin, and nobody can ask or invite him, for he has
   a membership. *)
OwnerInv ==
  /\ OwnerStays
  /\ Owner \notin requests \cup invites
  /\ \A u \in People, w \in {"request", "invitation"} : <<u, w>> \in asked => u # Owner

MemberInv == CommunityTypeOK /\ CountExact /\ OwnerInv

LEMMA MembersFinite == IsFiniteSet(Members)
BY CommunityAssumption, FS_Subset DEF Members

(* A change of one membership, the owner's excepted. *)
LEMMA MemberSet ==
  ASSUME MemberInv, NEW u \in People, u # Owner, NEW s \in {"active", "left", "banned"},
         NEW r \in Roles, SetMember(u, s, r)
  PROVE  /\ standing' \in [People -> MemberStandings] /\ role' \in [People -> Roles]
         /\ headcount' \in Nat /\ seat' \in [People -> Seats] /\ listening' \subseteq People
         /\ CountExact' /\ OwnerStays'
<1> USE DEF MemberInv, CommunityTypeOK, SetMember
<1>1. standing' \in [People -> MemberStandings] /\ role' \in [People -> Roles]
  BY DEF MemberStandings
<1>2. seat' \in [People -> Seats] /\ listening' \subseteq People
  BY DEF Seats, ChatRole
<1>3. OwnerStays'
  BY CommunityAssumption DEF OwnerInv, OwnerStays, Active
<1>4. CountExact' /\ headcount' \in Nat
  <2>0. IsFiniteSet(Members) /\ Cardinality(Members) \in Nat
    BY MembersFinite, FS_CardinalityType
  <2>a. \A v \in People : v # u => standing'[v] = standing[v]
    OBVIOUS
  <2>b. standing'[u] = s
    OBVIOUS
  <2>1. CASE s = "active" /\ ~Active(u)
    <3>1. Members' = Members \cup {u} /\ u \notin Members
      BY <2>a, <2>b, <2>1 DEF Members, Active
    <3>2. Cardinality(Members') = Cardinality(Members) + 1
      BY <2>0, <3>1, FS_AddElement
    <3> QED
      BY <2>0, <2>1, <3>2 DEF CountExact
  <2>2. CASE s # "active" /\ Active(u)
    <3>1. Members' = Members \ {u} /\ u \in Members
      BY <2>a, <2>b, <2>2 DEF Members, Active
    <3>2. Cardinality(Members') = Cardinality(Members) - 1 /\ Cardinality(Members') \in Nat
      BY <2>0, <3>1, FS_RemoveElement, FS_CardinalityType
    <3> QED
      BY <2>0, <2>2, <3>2 DEF CountExact
  <2>3. CASE (s = "active") <=> Active(u)
    <3>1. Members' = Members
      BY <2>a, <2>b, <2>3 DEF Members, Active
    <3> QED
      BY <2>0, <2>3, <3>1 DEF CountExact
  <2> QED
    BY <2>1, <2>2, <2>3
<1> QED
  BY <1>1, <1>2, <1>3, <1>4

LEMMA MemberInit == CommunityInit => MemberInv
<1> SUFFICES ASSUME CommunityInit PROVE MemberInv
  OBVIOUS
<1>1. Members = {Owner}
  BY CommunityAssumption DEF CommunityInit, Members, Active
<1>2. CountExact
  BY <1>1, FS_Singleton DEF CommunityInit, CountExact
<1> QED
  BY <1>2, CommunityAssumption
     DEF CommunityInit, MemberInv, CommunityTypeOK, OwnerInv, OwnerStays, Active, Roles, Steps

(* The steps that leave the rows of the members alone. *)
LEMMA Aside ==
  ASSUME MemberInv, UNCHANGED memberRows,
         phase' \in {"active", "inactive", "deleted"}, private' \in BOOLEAN,
         requests' \subseteq People \ {Owner}, invites' \subseteq People \ {Owner},
         seat' \in [People -> Seats], listening' \subseteq People,
         entering' \in [People -> Steps],
         asked' \subseteq (People \ {Owner}) \X {"request", "invitation"}
  PROVE  MemberInv'
<1>1. Members' = Members
  BY DEF memberRows, Members, Active
<1>2. CountExact'
  BY <1>1 DEF memberRows, MemberInv, CountExact
<1>3. OwnerInv'
  BY DEF memberRows, MemberInv, OwnerInv, OwnerStays, Active
<1> QED
  BY <1>2, <1>3 DEF memberRows, MemberInv, CommunityTypeOK, Seats

(* The steps that change one membership. *)
LEMMA Inside ==
  ASSUME MemberInv, NEW u \in People, u # Owner, NEW s \in {"active", "left", "banned"},
         NEW r \in Roles, SetMember(u, s, r), UNCHANGED <<phase, private, asked>>,
         requests' \subseteq requests, invites' \subseteq invites,
         entering' \in [People -> Steps]
  PROVE  MemberInv'
<1>1. OwnerInv'
  BY MemberSet DEF MemberInv, OwnerInv
<1> QED
  BY <1>1, MemberSet DEF MemberInv, CommunityTypeOK, MemberStandings, Seats

LEMMA MemberStep == MemberInv /\ [CommunityNext]_communityVars => MemberInv'
<1> SUFFICES ASSUME MemberInv, [CommunityNext]_communityVars PROVE MemberInv'
  OBVIOUS
<1>a. CommunityTypeOK /\ Active(Owner) /\ role[Owner] = "admin" /\ Owner \in People
  BY CommunityAssumption DEF MemberInv, OwnerInv, OwnerStays
<1>b. /\ requests \subseteq People \ {Owner} /\ invites \subseteq People \ {Owner}
      /\ asked \subseteq (People \ {Owner}) \X {"request", "invitation"}
      /\ seat \in [People -> Seats] /\ listening \subseteq People /\ entering \in [People -> Steps]
      /\ phase \in {"active", "inactive", "deleted"} /\ private \in BOOLEAN
  <2>1. asked \subseteq (People \ {Owner}) \X {"request", "invitation"}
    <3> SUFFICES ASSUME NEW x \in asked PROVE x \in (People \ {Owner}) \X {"request", "invitation"}
      OBVIOUS
    <3>1. PICK v \in People, w \in {"request", "invitation"} : x = <<v, w>>
      BY DEF MemberInv, CommunityTypeOK
    <3> QED
      BY <3>1 DEF MemberInv, OwnerInv
  <2> QED
    BY <2>1 DEF MemberInv, OwnerInv, CommunityTypeOK, Seats
<1>c. \A u \in People : role[u] \in Roles /\ (standing[u] # "active" => u # Owner)
  BY <1>a DEF CommunityTypeOK, Active
<1>1. ASSUME NEW u \in People, JoinPublic(u) PROVE MemberInv'
  BY <1>1, <1>b, <1>c, Inside DEF JoinPublic, underway
<1>2. ASSUME NEW u \in People, Leave(u) PROVE MemberInv'
  BY <1>2, <1>b, <1>c, Inside DEF Leave, underway
<1>3. ASSUME NEW u \in People, Accept(u) PROVE MemberInv'
  BY <1>3, <1>b, <1>c, Inside DEF Accept, underway, Roles
<1>4. ASSUME NEW a \in People, NEW u \in People, Approve(a, u) PROVE MemberInv'
  <2>1. entering' \in [People -> Steps]
    BY <1>4, <1>b DEF Approve, Reviewed, Steps
  <2> QED
    BY <1>4, <1>b, <2>1, Inside DEF Approve, Roles
<1>5. ASSUME NEW a \in People, NEW u \in People, NEW r \in Roles, ChangeRole(a, u, r) PROVE MemberInv'
  BY <1>5, <1>b, Inside DEF ChangeRole, CanChangeRole, underway
<1>6. ASSUME NEW a \in People, NEW u \in People, Expel(a, u) \/ Ban(a, u) \/ Unban(a, u) PROVE MemberInv'
  BY <1>6, <1>b, <1>c, Inside DEF Expel, Ban, Unban, CanRemove, CanBan, underway
<1>7. ASSUME NEW u \in People,
             \/ AskToJoin(u) \/ CreateRequest(u) \/ Decline(u) \/ Review(u) \/ CreateInvitation(u)
      PROVE  MemberInv'
  <2>1. /\ UNCHANGED <<memberRows, phase, private, seat, listening>>
        /\ entering' \in [People -> Steps]
    BY <1>7, <1>b DEF AskToJoin, CreateRequest, Decline, Review, CreateInvitation, chatRows, underway, Steps
  <2>2. /\ requests' \subseteq People \ {Owner} /\ invites' \subseteq People \ {Owner}
        /\ asked' \subseteq (People \ {Owner}) \X {"request", "invitation"}
    BY <1>7, <1>b, <1>c DEF AskToJoin, CreateRequest, Decline, Review, CreateInvitation, underway
  <2> QED
    BY <1>b, <2>1, <2>2, Aside
<1>8. ASSUME NEW u \in People,
             \/ EnterCommunityChat(u) \/ TakeSeat(u) \/ AskToListen(u) \/ Listen(u)
             \/ LeaveSeat(u) \/ Hush(u)
      PROVE  MemberInv'
  <2> USE <1>8 DEF EnterCommunityChat, TakeSeat, AskToListen, Listen, LeaveSeat, Hush, Takes, Reseat,
          underway, memberRows, chatRows
  <2>1. UNCHANGED <<memberRows, phase, private, requests, invites, asked>>
    OBVIOUS
  <2>2. listening' \subseteq People
    BY <1>b
  <2>a. seat' = seat \/ \E x \in Seats : seat' = [seat EXCEPT ![u] = x]
    BY DEF Seats
  <2>b. seat' \in [People -> Seats]
    BY <1>b, <2>a
  <2>3. entering' \in [People -> Steps]
    BY <1>b DEF Steps
  <2> QED
    BY <1>b, <2>1, <2>2, <2>b, <2>3, Aside
<1>9. ASSUME NEW a \in People, NEW u \in People,
             Reject(a, u) \/ Invite(a, u) \/ AddToChat(a, u) \/ RemoveFromChat(a, u) \/ MakeChatAdmin(a, u)
      PROVE  MemberInv'
  <2> USE <1>9 DEF Reject, Invite, AddToChat, RemoveFromChat, MakeChatAdmin, Reviewed, Reseat
  <2>1. /\ UNCHANGED <<memberRows, phase, private, invites, listening>>
        /\ requests' \subseteq requests
    BY DEF chatRows, underway
  <2>2. seat' \in [People -> Seats] /\ entering' \in [People -> Steps]
    BY <1>b DEF Seats, Steps, chatRows, underway
  <2>3. asked' \subseteq (People \ {Owner}) \X {"request", "invitation"}
    BY <1>b, <1>c DEF underway
  <2> QED
    BY <1>b, <2>1, <2>2, <2>3, Aside
<1>10. ASSUME NEW a \in People, NEW p \in BOOLEAN, NEW s \in {"active", "inactive"}, Publish(a, p, s)
       PROVE  MemberInv'
  BY <1>10, <1>b, Aside DEF Publish, chatRows, underway
<1>11. CASE SoftDelete
  BY <1>11, <1>b, Aside DEF SoftDelete, chatRows, underway
<1>12. CASE UNCHANGED communityVars
  BY <1>12, <1>b, Aside DEF communityVars, chatRows, underway
<1> QED
  BY <1>1, <1>2, <1>3, <1>4, <1>5, <1>6, <1>7, <1>8, <1>9, <1>10, <1>11, <1>12 DEF CommunityNext

(* Every reachable state is well typed. *)
THEOREM CommunityTypes == CommunitySpec => []CommunityTypeOK
<1>1. MemberInv => CommunityTypeOK
  BY DEF MemberInv
<1> QED
  BY <1>1, MemberInit, MemberStep, PTL DEF CommunitySpec

(* members_count is the number of active members and the creator stays an active
   admin, with every interleaving of checks and acts. *)
THEOREM CountsAreExact == CommunitySpec => [](CountExact /\ OwnerStays)
<1>1. MemberInv => CountExact /\ OwnerStays
  BY DEF MemberInv, OwnerInv
<1> QED
  BY <1>1, MemberInit, MemberStep, PTL DEF CommunitySpec

-----------------------------------------------------------------------------
(* While no request overlaps another, nobody whose request to listen was checked
   has lost his membership, and nobody about to be asked or invited is banned. *)
FreshInv ==
  /\ ListenersBelong
  /\ \A u \in People : entering[u] = "listen" => Active(u)
  /\ \A x \in asked : standing[x[1]] # "banned"

SoundInv == MemberInv /\ FreshInv

LEMMA FreshAside ==
  ASSUME SoundInv, UNCHANGED standing,
         listening' \subseteq {u \in People : Active(u)},
         \A u \in People : entering'[u] = "listen" => Active(u),
         \A x \in asked' : standing[x[1]] # "banned"
  PROVE  FreshInv'
BY DEF FreshInv, ListenersBelong, Active

(* A membership changes when nothing is under way, or becomes active. *)
LEMMA FreshInside ==
  ASSUME SoundInv, NEW u \in People, NEW s \in {"active", "left", "banned"}, NEW r, SetMember(u, s, r),
         UNCHANGED asked,
         \A v \in People : entering'[v] = "listen" => entering[v] = "listen",
         s = "active" \/ (asked = {} /\ \A v \in People : entering[v] = "idle")
  PROVE  FreshInv'
<1>1. /\ \A v \in People : v # u => standing'[v] = standing[v]
      /\ standing'[u] = s
  BY DEF SoundInv, MemberInv, CommunityTypeOK, SetMember
<1>2. ListenersBelong'
  BY <1>1 DEF SoundInv, FreshInv, ListenersBelong, Active, SetMember
<1>3. \A v \in People : entering'[v] = "listen" => Active(v)'
  BY <1>1 DEF SoundInv, FreshInv, Active
<1>4. \A x \in asked' : standing'[x[1]] # "banned"
  <2> SUFFICES ASSUME NEW x \in asked PROVE standing'[x[1]] # "banned"
    OBVIOUS
  <2>1. x[1] \in People /\ standing[x[1]] # "banned"
    BY DEF SoundInv, FreshInv, MemberInv, CommunityTypeOK
  <2> QED
    BY <1>1, <2>1
<1> QED
  BY <1>2, <1>3, <1>4 DEF FreshInv

LEMMA FreshStep ==
  ASSUME ~Interleaved, SoundInv, [CommunityNext]_communityVars
  PROVE  SoundInv'
<1>0. MemberInv'
  BY MemberStep DEF SoundInv
<1>a. /\ listening \subseteq {u \in People : Active(u)}
      /\ \A u \in People : entering[u] = "listen" => Active(u)
      /\ \A x \in asked : standing[x[1]] # "banned"
      /\ entering \in [People -> Steps]
  BY DEF SoundInv, FreshInv, ListenersBelong, MemberInv, CommunityTypeOK
<1>b. MayMove => asked = {} /\ \A u \in People : entering[u] = "idle"
  BY DEF MayMove
<1>c. Active(Owner)
  BY DEF SoundInv, MemberInv, OwnerInv, OwnerStays
<1>1. ASSUME NEW u \in People, JoinPublic(u) \/ Leave(u) \/ Accept(u) PROVE FreshInv'
  BY <1>1, <1>b, FreshInside DEF JoinPublic, Leave, Accept, underway
<1>2. ASSUME NEW a \in People, NEW u \in People, Approve(a, u) PROVE FreshInv'
  <2>1. \A v \in People : entering'[v] = "listen" => entering[v] = "listen"
    BY <1>2, <1>a DEF Approve, Reviewed
  <2> QED
    BY <1>2, <2>1, FreshInside DEF Approve
<1>3. ASSUME NEW a \in People, NEW u \in People,
             (\E r \in Roles : ChangeRole(a, u, r)) \/ Expel(a, u) \/ Ban(a, u) \/ Unban(a, u)
      PROVE  FreshInv'
  BY <1>3, <1>b, FreshInside DEF ChangeRole, Expel, Ban, Unban, Moderated, underway
<1>4. ASSUME NEW u \in People,
             AskToJoin(u) \/ CreateRequest(u) \/ Decline(u) \/ Review(u) \/ CreateInvitation(u)
      PROVE  FreshInv'
  <2> USE <1>4 DEF AskToJoin, CreateRequest, Decline, Review, CreateInvitation, memberRows, chatRows, underway
  <2>1. UNCHANGED <<standing, listening>>
    OBVIOUS
  <2>2. \A v \in People : entering'[v] = "listen" => entering[v] = "listen"
    BY <1>a
  <2>a. asked' \subseteq asked \/ (standing[u] # "banned" /\ asked' = asked \cup {<<u, "request">>})
    OBVIOUS
  <2>3. \A x \in asked' : standing[x[1]] # "banned"
    BY <1>a, <2>a
  <2> QED
    BY <1>a, <2>1, <2>2, <2>3, FreshAside
<1>5. ASSUME NEW u \in People,
             \/ EnterCommunityChat(u) \/ TakeSeat(u) \/ AskToListen(u) \/ Listen(u)
             \/ LeaveSeat(u) \/ Hush(u)
      PROVE  FreshInv'
  <2> USE <1>5 DEF EnterCommunityChat, TakeSeat, AskToListen, Listen, LeaveSeat, Hush, Takes, Reseat,
          underway, memberRows, chatRows
  <2>1. UNCHANGED <<standing, asked>>
    OBVIOUS
  <2>2. \A v \in People : entering'[v] = "listen" => Active(v)
    BY <1>a, <1>c DEF Belongs
  <2>3. listening' \subseteq {v \in People : Active(v)}
    BY <1>a
  <2> QED
    BY <1>a, <2>1, <2>2, <2>3, FreshAside
<1>6. ASSUME NEW a \in People, NEW u \in People,
             Reject(a, u) \/ Invite(a, u) \/ AddToChat(a, u) \/ RemoveFromChat(a, u) \/ MakeChatAdmin(a, u)
      PROVE  FreshInv'
  <2> USE <1>6 DEF Reject, Invite, AddToChat, RemoveFromChat, MakeChatAdmin, Reviewed, Reseat,
          memberRows, chatRows, underway
  <2>1. UNCHANGED <<standing, listening>>
    OBVIOUS
  <2>2. \A v \in People : entering'[v] = "listen" => entering[v] = "listen"
    BY <1>a
  <2>a. asked' \subseteq asked \/ (standing[u] # "banned" /\ asked' = asked \cup {<<u, "invitation">>})
    OBVIOUS
  <2>3. \A x \in asked' : standing[x[1]] # "banned"
    BY <1>a, <2>a
  <2> QED
    BY <1>a, <2>1, <2>2, <2>3, FreshAside
<1>7. CASE \/ \E a \in People, p \in BOOLEAN, s \in {"active", "inactive"} : Publish(a, p, s)
           \/ SoftDelete \/ UNCHANGED communityVars
  <2>1. UNCHANGED <<standing, listening, entering, asked>>
    BY <1>7 DEF Publish, SoftDelete, communityVars, memberRows, chatRows, underway
  <2>2. /\ listening' \subseteq {u \in People : Active(u)}
        /\ \A u \in People : entering'[u] = "listen" => Active(u)
        /\ \A x \in asked' : standing[x[1]] # "banned"
    BY <1>a, <2>1
  <2> QED
    BY <1>0, <2>1, <2>2, FreshAside DEF SoundInv
<1> QED
  BY <1>0, <1>1, <1>2, <1>3, <1>4, <1>5, <1>6, <1>7 DEF CommunityNext, SoundInv

LEMMA SoundInit == CommunityInit => SoundInv
BY MemberInit DEF CommunityInit, SoundInv, FreshInv, ListenersBelong

(* While no request overlaps another, members_count is exact, the creator stays
   and only members hear the chat, for any number of users. *)
THEOREM MembershipIsSound ==
  ASSUME ~Interleaved
  PROVE  CommunitySpec => []MembershipSound
<1>1. SoundInv => MembershipSound
  BY DEF SoundInv, FreshInv, MemberInv, OwnerInv, MembershipSound
<1>2. SoundInv /\ [CommunityNext]_communityVars => SoundInv'
  BY FreshStep
<1> QED
  BY <1>1, <1>2, SoundInit, PTL DEF CommunitySpec

(* One ban: who has neither request nor invitation gets neither while he is
   banned, and comes back by an unban only. *)
LEMMA BanStep ==
  ASSUME SoundInv, [CommunityNext]_communityVars, NEW u \in People,
         standing[u] = "banned", u \notin requests \cup invites
  PROVE  /\ ~Active(u)'
         /\ standing'[u] = "banned" => u \notin requests' \cup invites'
<1>a. /\ \A w \in {"request", "invitation"} : <<u, w>> \notin asked
      /\ standing \in [People -> MemberStandings]
      /\ ~Active(u)
  BY DEF SoundInv, FreshInv, MemberInv, CommunityTypeOK, MemberStandings, Active
<1>b. ASSUME NEW v \in People, NEW s, NEW r, SetMember(v, s, r), v # u \/ s # "active",
             requests' \subseteq requests, invites' \subseteq invites
      PROVE  ~Active(u)' /\ u \notin requests' \cup invites'
  BY <1>a, <1>b DEF SetMember, Active
<1>c. ASSUME UNCHANGED standing, u \notin requests' \cup invites'
      PROVE  ~Active(u)' /\ u \notin requests' \cup invites'
  BY <1>a, <1>c DEF Active
<1>1. ASSUME NEW v \in People, JoinPublic(v) \/ Leave(v) \/ Accept(v)
      PROVE  ~Active(u)' /\ u \notin requests' \cup invites'
  BY <1>1, <1>b DEF JoinPublic, Leave, Accept
<1>2. ASSUME NEW a \in People, NEW v \in People, Approve(a, v)
      PROVE  ~Active(u)' /\ u \notin requests' \cup invites'
  BY <1>2, <1>b DEF Approve
<1>3. ASSUME NEW a \in People, NEW v \in People,
             (\E r \in Roles : ChangeRole(a, v, r)) \/ Expel(a, v) \/ Ban(a, v) \/ Unban(a, v)
      PROVE  ~Active(u)' /\ u \notin requests' \cup invites'
  <2>1. CASE \E r \in Roles : ChangeRole(a, v, r)
    BY <1>a, <1>b, <2>1 DEF ChangeRole
  <2>2. CASE Expel(a, v) \/ Ban(a, v) \/ Unban(a, v)
    BY <1>b, <2>2 DEF Expel, Ban, Unban
  <2> QED
    BY <1>3, <2>1, <2>2
<1>4. ASSUME NEW v \in People,
             AskToJoin(v) \/ CreateRequest(v) \/ Decline(v) \/ Review(v) \/ CreateInvitation(v)
      PROVE  ~Active(u)' /\ u \notin requests' \cup invites'
  <2>1. UNCHANGED standing
    BY <1>4 DEF AskToJoin, CreateRequest, Decline, Review, CreateInvitation, memberRows
  <2>2. u \notin requests' \cup invites'
    BY <1>4, <1>a DEF AskToJoin, CreateRequest, Decline, Review, CreateInvitation
  <2> QED
    BY <1>c, <2>1, <2>2
<1>5. ASSUME NEW v \in People,
             \/ EnterCommunityChat(v) \/ TakeSeat(v) \/ AskToListen(v) \/ Listen(v)
             \/ LeaveSeat(v) \/ Hush(v)
      PROVE  ~Active(u)' /\ u \notin requests' \cup invites'
  BY <1>5, <1>c DEF EnterCommunityChat, TakeSeat, AskToListen, Listen, LeaveSeat, Hush, Takes,
     Reseat, memberRows
<1>6. ASSUME NEW a \in People, NEW v \in People,
             Reject(a, v) \/ Invite(a, v) \/ AddToChat(a, v) \/ RemoveFromChat(a, v) \/ MakeChatAdmin(a, v)
      PROVE  ~Active(u)' /\ u \notin requests' \cup invites'
  BY <1>6, <1>c DEF Reject, Invite, AddToChat, RemoveFromChat, MakeChatAdmin, Reseat, memberRows
<1>7. CASE \/ \E a \in People, p \in BOOLEAN, s \in {"active", "inactive"} : Publish(a, p, s)
           \/ SoftDelete \/ UNCHANGED communityVars
  BY <1>7, <1>c DEF Publish, SoftDelete, communityVars, memberRows
<1> QED
  BY <1>1, <1>2, <1>3, <1>4, <1>5, <1>6, <1>7 DEF CommunityNext

(* While no request overlaps another, a ban of a user with nothing pending holds
   until an unban, for any number of users. *)
THEOREM BansStand ==
  ASSUME ~Interleaved
  PROVE  CommunitySpec => BansHold
<1>1. SoundInv /\ [CommunityNext]_communityVars => SoundInv'
  BY FreshStep
<1>2. SoundInv /\ [CommunityNext]_communityVars =>
        [\A u \in People : standing[u] = "banned" /\ u \notin requests \cup invites =>
           /\ ~Active(u)'
           /\ standing'[u] = "banned" => u \notin requests' \cup invites']_communityVars
  BY BanStep
<1> QED
  BY <1>1, <1>2, SoundInit, PTL DEF CommunitySpec, BansHold

-----------------------------------------------------------------------------
(* One ballot at most has read the poll, and then holds its row: what it has read is
   what is stored. *)
BallotInv ==
  /\ \A b \in Ballots : ballot[b].step = "read" =>
       pollLock /\ ballot[b].tally = tally /\ ballot[b].total = total
  /\ \A b, c \in Ballots : ballot[b].step = "read" /\ ballot[c].step = "read" => b = c

PollInv == PollTypeOK /\ BallotInv /\ TalliesAreVotes

VotesFor(o) == {v \in Voters : vote[v] = o}
Cast == {v \in Voters : vote[v] # NoOption}

LEMMA VotersFinite ==
  ASSUME NEW S \in SUBSET Voters PROVE IsFiniteSet(S) /\ Cardinality(S) \in Nat
  BY PollAssumption, FS_Subset, FS_CardinalityType

LEMMA OneMoreVoter ==
  ASSUME NEW S \in SUBSET Voters, NEW T \in SUBSET Voters, NEW v, v \notin S, T = S \cup {v}
  PROVE  Cardinality(T) = Cardinality(S) + 1
  BY VotersFinite, FS_AddElement

LEMMA PollStart == PollInit => PollInv
<1> SUFFICES ASSUME PollInit PROVE PollInv
  OBVIOUS
<1>1. PollTypeOK
  BY DEF PollInit, PollTypeOK, Tallies
<1>2. BallotInv
  BY DEF PollInit, BallotInv, Blank
<1>3. \A o \in Options : {v \in Voters : vote[v] = o} = {}
  BY PollAssumption DEF PollInit
<1>4. {v \in Voters : vote[v] # NoOption} = {}
  BY DEF PollInit
<1>5. Cardinality({}) = 0
  BY FS_EmptySet
<1>6. \A o \in Options : tally[o] = Cardinality({v \in Voters : vote[v] = o})
  BY <1>3, <1>5 DEF PollInit
<1>7. total = Cardinality({v \in Voters : vote[v] # NoOption})
  BY <1>4, <1>5 DEF PollInit
<1>. QED
  BY <1>1, <1>2, <1>6, <1>7 DEF PollInv, TalliesAreVotes

(* A ballot that is through. *)
LEMMA BallotEnds ==
  ASSUME PollInv, NEW b \in Ballots, ballot[b].step = "read", Mark(b, Blank), pollLock' = FALSE
  PROVE  BallotInv'
<1>1. DOMAIN ballot = Ballots /\ ballot' = [ballot EXCEPT ![b] = Blank]
  BY DEF PollInv, PollTypeOK, Mark
<1>2. \A c \in Ballots : ballot'[c].step # "read"
  BY <1>1 DEF PollInv, BallotInv, Blank
<1>. QED
  BY <1>2 DEF BallotInv

LEMMA CommunityCount ==
  ASSUME PollInv, NEW b \in Ballots, NEW o \in Options, CastInCommunity(b, o)
  PROVE  TalliesAreVotes' /\ PollTypeOK'
<1> DEFINE v == ballot[b].by
           old == vote[v]
<1>1. /\ kind = "community" /\ v \in Voters /\ old \in Options \cup {NoOption}
      /\ ballot[b].tally = tally /\ ballot[b].total = total
      /\ vote \in [Voters -> Options \cup {NoOption}] /\ tally \in Tallies /\ total \in Nat
  BY DEF CastInCommunity, PollInv, PollTypeOK, BallotInv, Blank
<1>2. /\ vote' = [vote EXCEPT ![v] = o]
      /\ tally' = Recount(old, o, tally)
      /\ total' = IF old = NoOption THEN total + 1 ELSE total
      /\ UNCHANGED <<kind, member, poll>>
      /\ pollLock' = FALSE /\ Mark(b, Blank)
  BY <1>1 DEF CastInCommunity
<1>3. /\ \A x \in Options : tally[x] = Cardinality(VotesFor(x))
      /\ total = Cardinality(Cast)
  BY <1>1 DEF PollInv, TalliesAreVotes, VotesFor, Cast
<1> HIDE DEF v
<1>4. ASSUME NEW x \in Options PROVE tally'[x] = Cardinality(VotesFor(x)') /\ tally'[x] \in Nat
  <2>0. tally[x] \in Nat /\ VotesFor(x) \in SUBSET Voters /\ VotesFor(x)' \in SUBSET Voters
    BY <1>1 DEF Tallies, VotesFor
  <2>1. CASE old = o \/ (x # o /\ x # old)
    <3>1. VotesFor(x)' = VotesFor(x)
      BY <1>1, <1>2, <2>1 DEF VotesFor
    <3>2. tally'[x] = tally[x]
      BY <1>2, <2>1 DEF Recount
    <3>. QED
      BY <1>3, <2>0, <3>1, <3>2
  <2>2. CASE old # o /\ x = o
    <3>1. VotesFor(x)' = VotesFor(x) \cup {v} /\ v \notin VotesFor(x)
      BY <1>1, <1>2, <2>2 DEF VotesFor
    <3>2. tally'[x] = tally[x] + 1
      BY <1>2, <2>2 DEF Recount
    <3>3. Cardinality(VotesFor(x)') = Cardinality(VotesFor(x)) + 1
      BY <2>0, <3>1, OneMoreVoter
    <3>. QED
      BY <1>3, <2>0, <3>2, <3>3
  <2>3. CASE old # o /\ x = old
    <3>1. VotesFor(x) = VotesFor(x)' \cup {v} /\ v \notin VotesFor(x)'
      BY <1>1, <1>2, <2>3 DEF VotesFor
    <3>2. Cardinality(VotesFor(x)) = Cardinality(VotesFor(x)') + 1
      BY <2>0, <3>1, OneMoreVoter
    <3>3. Cardinality(VotesFor(x)') \in Nat
      BY <2>0, VotersFinite
    <3>4. tally[x] > 0
      BY <1>3, <3>2, <3>3
    <3>5. tally'[x] = tally[x] - 1
      BY <1>2, <2>3, <3>4 DEF Recount
    <3>. QED
      BY <1>3, <2>0, <3>2, <3>3, <3>5
  <2>. QED
    BY <2>1, <2>2, <2>3
<1>5. total' = Cardinality(Cast') /\ total' \in Nat
  <2>0. Cast \in SUBSET Voters /\ Cast' \in SUBSET Voters
    BY DEF Cast
  <2>1. CASE old = NoOption
    <3>1. Cast' = Cast \cup {v} /\ v \notin Cast
      BY <1>1, <1>2, <2>1, PollAssumption DEF Cast
    <3>. QED
      BY <1>1, <1>2, <1>3, <2>0, <2>1, <3>1, OneMoreVoter
  <2>2. CASE old # NoOption
    <3>1. Cast' = Cast
      BY <1>1, <1>2, <2>2, PollAssumption DEF Cast
    <3>. QED
      BY <1>1, <1>2, <1>3, <2>2, <3>1
  <2>. QED
    BY <2>1, <2>2
<1>6. tally' \in Tallies
  BY <1>2, <1>4 DEF Tallies, Recount
<1>7. PollTypeOK'
  <2>1. vote' \in [Voters -> Options \cup {NoOption}]
    BY <1>1, <1>2
  <2>. QED
    BY <1>2, <1>5, <1>6, <2>1 DEF PollInv, PollTypeOK, Mark
<1>8. TalliesAreVotes'
  BY <1>4, <1>5 DEF TalliesAreVotes, VotesFor, Cast
<1>. QED
  BY <1>7, <1>8

LEMMA PollStep == PollInv /\ [PollNext]_pollVars => PollInv'
<1> SUFFICES ASSUME PollInv, [PollNext]_pollVars PROVE PollInv'
  OBVIOUS
<1>1. PollTypeOK /\ BallotInv /\ TalliesAreVotes
  BY DEF PollInv
<1>2. ASSUME NEW b \in Ballots, NEW v \in Voters, CheckVoter(b, v) PROVE PollInv'
  <2>1. PICK x : x = [step |-> "checked", by |-> v]
    OBVIOUS
  <2>2. /\ ballot' = [ballot EXCEPT ![b] = x]
        /\ UNCHANGED <<kind, member, vote, tally, total, poll, pollLock>>
    BY <1>2, <2>1 DEF CheckVoter, Mark
  <2>3. x.step = "checked" /\ x \in [step : {"checked"}, by : Voters]
    BY <2>1
  <2>4. PollTypeOK'
    BY <1>1, <2>2, <2>3 DEF PollTypeOK
  <2>5. BallotInv'
    <3>1. \A c \in Ballots : ballot'[c] = IF c = b THEN x ELSE ballot[c]
      BY <1>1, <2>2 DEF PollTypeOK
    <3>. QED
      BY <1>1, <2>2, <2>3, <3>1 DEF BallotInv
  <2>. QED
    BY <1>1, <2>2, <2>4, <2>5 DEF PollInv, TalliesAreVotes
<1>3. ASSUME NEW b \in Ballots, ReadPoll(b) PROVE PollInv'
  <2>1. ballot[b].by \in Voters
    BY <1>1, <1>3 DEF ReadPoll, PollTypeOK, Blank
  <2>2. PollTypeOK'
    <3>1. PICK x : x = [step |-> "read", by |-> ballot[b].by, tally |-> tally, total |-> total]
      OBVIOUS
    <3>2. x \in [step : {"read"}, by : Voters, tally : Tallies, total : Nat]
      BY <1>1, <2>1, <3>1 DEF PollTypeOK
    <3>3. ballot' = [ballot EXCEPT ![b] = x] \/ ballot' = [ballot EXCEPT ![b] = Blank]
      BY <1>3, <3>1 DEF ReadPoll, Mark
    <3>4. pollLock' \in BOOLEAN /\ UNCHANGED <<kind, member, vote, tally, total, poll>>
      BY <1>1, <1>3 DEF ReadPoll, PollTypeOK
    <3>. QED
      BY <1>1, <3>2, <3>3, <3>4 DEF PollTypeOK
  <2>3. BallotInv'
    BY <1>1, <1>3 DEF ReadPoll, Mark, PollTypeOK, BallotInv, Blank
  <2>. QED
    BY <1>1, <1>3, <2>2, <2>3 DEF ReadPoll, PollInv, TalliesAreVotes
<1>4. ASSUME NEW b \in Ballots, NEW o \in Options, CastInCommunity(b, o) PROVE PollInv'
  BY <1>4, CommunityCount, BallotEnds DEF CastInCommunity, PollInv
<1>5. ASSUME NEW b \in Ballots, NEW o \in Options, CastInSociety(b, o) PROVE PollInv'
  <2>1. BallotInv'
    BY <1>5, BallotEnds DEF CastInSociety
  <2>2. PollTypeOK'
    BY <1>1, <1>5 DEF CastInSociety, Mark, PollTypeOK
  <2>. QED
    BY <1>5, <2>1, <2>2 DEF CastInSociety, PollInv, TalliesAreVotes
<1>6. CASE PollExpires \/ UpdatePoll \/ DeletePoll \/ \E v \in Voters : VoterLeaves(v)
  BY <1>1, <1>6
     DEF PollExpires, UpdatePoll, DeletePoll, VoterLeaves, PollInv, PollTypeOK, BallotInv,
         TalliesAreVotes
<1>7. CASE UNCHANGED pollVars
  BY <1>1, <1>7 DEF pollVars, PollInv, PollTypeOK, BallotInv, TalliesAreVotes
<1>. QED
  BY <1>2, <1>3, <1>4, <1>5, <1>6, <1>7 DEF PollNext

(* The tallies a community poll stores are the votes cast, however many ballots are
   cast and moved at once. *)
THEOREM TalliesStayExact == PollSpec => [](PollTypeOK /\ TalliesAreVotes)
  BY PollStart, PollStep, PTL DEF PollSpec, PollInv

-----------------------------------------------------------------------------
(* A like that is being taken back is there, and is taken back once. *)
LikesInv ==
  /\ IsFiniteSet(likes)
  /\ \A t \in Tasks : task[t].does = "unlike" => task[t].by \in likes
  /\ \A s, t \in Tasks : task[s].does = "unlike" /\ task[t] = task[s] => s = t

PostInv == PostTypeOK /\ LikesInv /\ PostCountersExact

LEMMA PostStart == PostInit => PostInv
<1> SUFFICES ASSUME PostInit PROVE PostInv
  OBVIOUS
<1>1. IsFiniteSet(likes) /\ Cardinality(likes) = 0
  BY FS_EmptySet DEF PostInit
<1>2. PostTypeOK
  <2>1. 0 \in 0..MaxRows
    BY PostAssumption
  <2>2. task \in [Tasks -> {IdleTask} \cup [does : {"like", "unlike"}, by : Fans]]
    BY DEF PostInit
  <2>3. counters \in Counters
    BY DEF PostInit, Counters
  <2>. QED
    BY <2>1, <2>2, <2>3 DEF PostInit, PostTypeOK
<1>3. LikesInv
  BY <1>1 DEF PostInit, LikesInv, IdleTask
<1>4. PostCountersExact
  BY <1>1 DEF PostInit, PostCountersExact, CountersRight
<1>. QED
  BY <1>2, <1>3, <1>4 DEF PostInv

LEMMA PostStep == PostInv /\ [PostNext]_postVars => PostInv'
<1> SUFFICES ASSUME PostInv, [PostNext]_postVars PROVE PostInv'
  OBVIOUS
<1> USE PostAssumption
<1>1. PostTypeOK /\ LikesInv /\ PostCountersExact
  BY DEF PostInv
<1>2. Cardinality(likes) \in Nat
  BY <1>1, FS_CardinalityType DEF LikesInv
<1>3. ASSUME NEW t \in Tasks, NEW x, x \in {IdleTask} \cup [does : {"like", "unlike"}, by : Fans],
             x.does = "unlike" => x.by \in likes /\ ~Deleting(x.by),
             Turn(t, x), UNCHANGED <<likes, comments, shares, counters, postGone, script>>
      PROVE  PostInv'
  <2>1. task' = [task EXCEPT ![t] = x] /\ DOMAIN task = Tasks
    BY <1>1, <1>3 DEF Turn, PostTypeOK
  <2>2. PostTypeOK'
    BY <1>1, <1>3, <2>1 DEF PostTypeOK
  <2>3. \A s \in Tasks : task[s].does = "unlike" => task[s] # x \/ x.does # "unlike"
    <3>1. ASSUME NEW s \in Tasks, task[s] = x, x.does = "unlike" PROVE FALSE
      <4>1. x = [does |-> "unlike", by |-> x.by]
        BY <1>3, <3>1 DEF IdleTask
      <4>. QED
        BY <1>3, <3>1, <4>1 DEF Deleting
    <3>. QED
      BY <3>1
  <2>4. LikesInv'
    BY <1>1, <1>3, <2>1, <2>3 DEF LikesInv
  <2>. QED
    BY <1>1, <1>3, <2>2, <2>4 DEF PostInv, PostCountersExact, CountersRight
<1>4. ASSUME NEW t \in Tasks, NEW u \in Fans, LikePost(t, u) PROVE PostInv'
  <2>1. [does |-> "like", by |-> u] \in [does : {"like", "unlike"}, by : Fans]
    OBVIOUS
  <2>. QED
    BY <1>3, <1>4, <2>1 DEF LikePost
<1>5. ASSUME NEW t \in Tasks, NEW u \in Fans, UnlikePost(t, u) PROVE PostInv'
  <2>1. [does |-> "unlike", by |-> u] \in [does : {"like", "unlike"}, by : Fans]
    OBVIOUS
  <2>. QED
    BY <1>3, <1>5, <2>1 DEF UnlikePost
<1>6. ASSUME NEW t \in Tasks, LikeDeadlock(t) PROVE PostInv'
  BY <1>3, <1>6 DEF LikeDeadlock, IdleTask
<1>7. ASSUME NEW t \in Tasks, InsertLike(t) PROVE PostInv'
  <2> DEFINE u == task[t].by
  <2>1. u \in Fans /\ task' = [task EXCEPT ![t] = IdleTask] /\ DOMAIN task = Tasks
        /\ UNCHANGED <<comments, shares, postGone, script>>
    BY <1>1, <1>7 DEF InsertLike, Turn, PostTypeOK, IdleTask
  <2>2. CASE u \in likes /\ UNCHANGED <<likes, counters>>
    BY <1>1, <2>1, <2>2
       DEF PostInv, PostTypeOK, LikesInv, PostCountersExact, CountersRight, IdleTask
  <2>3. CASE /\ u \notin likes /\ likes' = likes \cup {u}
             /\ counters' = [counters EXCEPT !.likes = @ + 1]
    <3>1. IsFiniteSet(likes') /\ Cardinality(likes') = Cardinality(likes) + 1
      BY <1>1, <2>3, FS_AddElement DEF LikesInv
    <3>2. PostTypeOK'
      BY <1>1, <2>1, <2>3 DEF PostTypeOK, Counters
    <3>3. LikesInv'
      BY <1>1, <2>1, <2>3, <3>1 DEF LikesInv, IdleTask
    <3>4. PostCountersExact'
      BY <1>1, <1>2, <2>1, <2>3, <3>1 DEF PostCountersExact, CountersRight
    <3>. QED
      BY <3>2, <3>3, <3>4 DEF PostInv
  <2>. QED
    BY <1>7, <2>2, <2>3 DEF InsertLike
<1>8. ASSUME NEW t \in Tasks, DecrementLikes(t) PROVE PostInv'
  <2> DEFINE u == task[t].by
  <2>1. /\ u \in Fans /\ u \in likes /\ task[t] = [does |-> "unlike", by |-> u]
        /\ task' = [task EXCEPT ![t] = IdleTask] /\ DOMAIN task = Tasks
        /\ likes' = likes \ {u}
        /\ counters' = [counters EXCEPT !.likes = IF @ > 0 THEN @ - 1 ELSE @]
        /\ UNCHANGED <<comments, shares, postGone, script>>
    BY <1>1, <1>8 DEF DecrementLikes, Turn, PostTypeOK, LikesInv, IdleTask
  <2>2. IsFiniteSet(likes') /\ Cardinality(likes') = Cardinality(likes) - 1 /\ Cardinality(likes) > 0
    <3>1. IsFiniteSet(likes') /\ Cardinality(likes') = Cardinality(likes) - 1
      BY <1>1, <2>1, FS_RemoveElement DEF LikesInv
    <3>2. Cardinality(likes') \in Nat
      BY <3>1, FS_CardinalityType
    <3>. QED
      BY <1>2, <3>1, <3>2
  <2>3. PostTypeOK'
    BY <1>1, <2>1 DEF PostTypeOK, Counters
  <2>4. ASSUME NEW s \in Tasks, task'[s].does = "unlike" PROVE task'[s].by \in likes'
    <3>1. s # t /\ task[s].does = "unlike" /\ task'[s] = task[s]
      BY <2>1, <2>4 DEF IdleTask
    <3>2. task[s] = [does |-> "unlike", by |-> task[s].by]
      BY <1>1, <3>1 DEF PostTypeOK, IdleTask
    <3>3. task[s].by # u
      BY <1>1, <2>1, <3>1, <3>2 DEF LikesInv
    <3>. QED
      BY <1>1, <2>1, <3>1, <3>3 DEF LikesInv
  <2>5. LikesInv'
    BY <1>1, <2>1, <2>2, <2>4 DEF LikesInv, IdleTask
  <2>6. PostCountersExact'
    BY <1>1, <1>2, <2>1, <2>2 DEF PostCountersExact, CountersRight
  <2>. QED
    BY <2>3, <2>5, <2>6 DEF PostInv
<1>9. CASE AddComment \/ CreateShare
  BY <1>1, <1>9
     DEF AddComment, CreateShare, PostInv, PostTypeOK, LikesInv, PostCountersExact, CountersRight,
         Counters
<1>10. CASE DeletePost
  BY <1>1, <1>10
     DEF DeletePost, PostInv, PostTypeOK, LikesInv, PostCountersExact, CountersRight
<1>11. CASE ReadStored \/ CountRows
  <2>1. ASSUME ReadStored PROVE script' \in Reads
    BY <1>1, <2>1 DEF ReadStored, PostTypeOK, Reads
  <2>2. ASSUME CountRows PROVE script' \in Reads
    <3>1. script \in Reads /\ comments \in Nat /\ shares \in Nat
      BY <1>1, <2>2 DEF CountRows, NeverRun, Asleep, PostTypeOK
    <3>2. ASSUME NEW next \in {"comments", "shares", "repair"},
                 NEW n \in Nat
          PROVE  /\ [script EXCEPT !.next = next, !.counted.likes = n] \in Reads
                 /\ [script EXCEPT !.next = next, !.counted.comments = n] \in Reads
                 /\ [script EXCEPT !.next = next, !.counted.shares = n] \in Reads
      BY <3>1 DEF Reads, Counters
    <3>. QED
      BY <1>2, <2>2, <3>1, <3>2 DEF CountRows
  <2>4. script' \in Reads /\ NeverRun \notin Reads
    BY <1>11, <2>1, <2>2 DEF NeverRun, Reads
  <2>3. UNCHANGED <<likes, comments, shares, counters, postGone, task>>
    BY <1>11 DEF ReadStored, CountRows
  <2>. QED
    BY <1>1, <2>3, <2>4 DEF PostInv, PostTypeOK, LikesInv, PostCountersExact
<1>12. CASE Repair
  <2>1. script \in Reads
    BY <1>1, <1>12 DEF Repair, NeverRun, Asleep, PostTypeOK
  <2>2. counters' \in Counters
    BY <1>1, <1>12, <2>1 DEF Repair, Reads, PostTypeOK
  <2>. QED
    BY <1>1, <1>12, <2>2
       DEF Repair, PostInv, PostTypeOK, LikesInv, PostCountersExact, NeverRun, Asleep
<1>13. CASE UNCHANGED postVars
  BY <1>1, <1>13 DEF postVars, PostInv, PostTypeOK, LikesInv, PostCountersExact, CountersRight
<1>. QED
  BY <1>4, <1>5, <1>6, <1>7, <1>8, <1>9, <1>10, <1>11, <1>12, <1>13 DEF PostNext

(* Where the script does not run, the counters of a post are those of its rows,
   whatever likes, unlikes, comments and shares interleave and deadlock. *)
THEOREM PostCountersStayExact == PostSpec => [](PostTypeOK /\ PostCountersExact)
  BY PostStart, PostStep, PTL DEF PostSpec, PostInv

-----------------------------------------------------------------------------
(* Documents.  The types do not need names to be given once. *)
LEMMA DocumentTypes == DocumentSpec => []DocumentTypeOK
<1>1. DocumentInit => DocumentTypeOK
  <2> SUFFICES ASSUME DocumentInit PROVE DocumentTypeOK
    OBVIOUS
  <2>1. shown \in Editions
    <3>1. PICK n \in Names : shown = [name |-> n, file |-> 1]
      BY DEF DocumentInit
    <3>2. 1 \in 1..LastFile
      BY DocumentAssumption
    <3>. QED
      BY <3>1, <3>2 DEF Editions
  <2>. QED
    BY <2>1 DEF DocumentInit, DocumentTypeOK, DocumentStatuses, Editions
<1>2. DocumentTypeOK /\ [DocumentNext]_documentVars => DocumentTypeOK'
  <2> SUFFICES ASSUME DocumentTypeOK, [DocumentNext]_documentVars PROVE DocumentTypeOK'
    OBVIOUS
  <2> USE DEF DocumentTypeOK
  <2>0. shown.name \in Names
    BY DEF Editions
  <2>1. ASSUME NEW s \in DocumentStatuses, Decided(s) PROVE DocumentTypeOK'
    BY <2>1 DEF Decided
  <2>2. ASSUME NEW d \in decisions, UpdateDocumentStatus(d) PROVE DocumentTypeOK'
    BY <2>0, <2>2 DEF UpdateDocumentStatus, Displayed
  <2>3. CASE DeleteDocument
    BY <2>3 DEF DeleteDocument
  <2>4. ASSUME NEW n \in Names, Uploaded(n) PROVE DocumentTypeOK'
    BY <2>0, <2>4 DEF Uploaded
  <2>5. ASSUME NEW x \in uploads, CreateVersion(x) PROVE DocumentTypeOK'
    <3>1. x.name \in Names /\ x.file \in 1..LastFile
      OBVIOUS
    <3>2. [name |-> x.name, file |-> x.file] \in Editions
      BY <3>1 DEF Editions
    <3>3. shown' \in Editions /\ shown'.name \in Names
      BY <2>0, <2>5, <3>1 DEF CreateVersion, Editions
    <3>. QED
      BY <2>5, <3>2, <3>3 DEF CreateVersion, Displayed
  <2>6. ASSUME NEW u \in Readers, ReadToAcknowledge(u) PROVE DocumentTypeOK'
    BY <2>0, <2>6 DEF ReadToAcknowledge
  <2>7. ASSUME NEW a \in acknowledging, AcknowledgeDocument(a) PROVE DocumentTypeOK'
    BY <2>7 DEF AcknowledgeDocument
  <2>8. CASE UNCHANGED documentVars
    BY <2>8 DEF documentVars
  <2>. QED
    BY <2>1, <2>2, <2>3, <2>4, <2>5, <2>6, <2>7, <2>8 DEF DocumentNext
<1>. QED
  BY <1>1, <1>2, PTL DEF DocumentSpec

(* A name is of one version, filed or on its way; every upload has read the name of a
   filed one, so that its own is another and the row takes it; what was read to be
   acknowledged has been on display. *)
VersionInv ==
  /\ \A x, y \in filed : x.name = y.name => x = y
  /\ \A x, y \in uploads : x.name = y.name => x = y
  /\ \A x \in filed, y \in uploads : x.name # y.name
  /\ \A y \in uploads : \E x \in filed : y.read = x.name
  /\ shown \in filed
  /\ docStatus = "published" => shown.name \in onDisplay
  /\ \A a \in acknowledging \cup acknowledged : a[2] \in onDisplay

LEMMA VersionStep ==
  ASSUME ~NamesReused, DocumentTypeOK, VersionInv, [DocumentNext]_documentVars
  PROVE  VersionInv'
<1> USE DEF VersionInv
<1>1. ASSUME NEW s \in DocumentStatuses, Decided(s) PROVE VersionInv'
  BY <1>1 DEF Decided
<1>2. ASSUME NEW d \in decisions, UpdateDocumentStatus(d) PROVE VersionInv'
  BY <1>2 DEF UpdateDocumentStatus, Displayed
<1>3. CASE DeleteDocument
  BY <1>3 DEF DeleteDocument
<1>4. ASSUME NEW n \in Names, Uploaded(n) PROVE VersionInv'
  <2>1. PICK f, z : /\ z = [name |-> n, file |-> f, read |-> shown.name]
                    /\ uploads' = uploads \cup {z}
    BY <1>4 DEF Uploaded
  <2>2. z.name = n /\ z.read = shown.name
    BY <2>1
  <2>3. /\ \A x \in filed : x.name # n
        /\ \A x \in uploads : x.name # n
    BY <1>4 DEF Uploaded, UsedNames
  <2>4. \A x \in uploads' : x \in uploads \/ x = z
    BY <2>1
  <2>5. UNCHANGED <<docStatus, shown, filed, acknowledging, acknowledged, onDisplay>>
    BY <1>4 DEF Uploaded
  <2>. QED
    BY <2>2, <2>3, <2>4, <2>5
<1>5. ASSUME NEW x \in uploads, CreateVersion(x) PROVE VersionInv'
  <2>1. x.name # x.read
    OBVIOUS
  <2>2. PICK z : z = [name |-> x.name, file |-> x.file]
    OBVIOUS
  <2>3. /\ filed' = filed \cup {z} /\ shown' = z /\ uploads' = uploads \ {x}
        /\ UNCHANGED <<docStatus, acknowledging, acknowledged>>
        /\ onDisplay' = Displayed(docStatus, z)
    BY <1>5, <2>1, <2>2 DEF CreateVersion
  <2>4. z.name = x.name
    BY <2>2
  <2>5. \A y \in filed' : y \in filed \/ y = z
    BY <2>3
  <2>. QED
    BY <2>3, <2>4, <2>5 DEF Displayed
<1>6. ASSUME NEW u \in Readers, ReadToAcknowledge(u) PROVE VersionInv'
  BY <1>6 DEF ReadToAcknowledge
<1>7. ASSUME NEW a \in acknowledging, AcknowledgeDocument(a) PROVE VersionInv'
  BY <1>7 DEF AcknowledgeDocument
<1>8. CASE UNCHANGED documentVars
  BY <1>8 DEF documentVars
<1>. QED
  BY <1>1, <1>2, <1>3, <1>4, <1>5, <1>6, <1>7, <1>8 DEF DocumentNext

(* The file a document shows is that of the version it names, and what was
   acknowledged names one file that was on display, whatever versions are uploaded,
   decided on and acknowledged at once; as long as no version name is given twice. *)
THEOREM FilesStayMatched ==
  ASSUME ~NamesReused PROVE DocumentSpec => []FilesMatchVersions
<1>1. DocumentInit => VersionInv
  BY DEF DocumentInit, VersionInv
<1>2. DocumentTypeOK /\ VersionInv /\ [DocumentNext]_documentVars => VersionInv'
  BY VersionStep
<1>3. VersionInv => FilesMatchVersions
  BY DEF VersionInv, FilesMatchVersions
<1>. QED
  BY <1>1, <1>2, <1>3, DocumentTypes, PTL DEF DocumentSpec

(* The list of documents shows a user none that the check of one document would
   refuse, whoever asks and whatever the status. *)
LEMMA ListAgreesWithCheck ==
  ASSUME NEW s, NEW d, NEW who, NEW rights, InList(s, d, who, rights)
  PROVE  CanAccess(s, d, who, rights)
<1>1. rights \cap {"review", "publish"} # {} => rights # {}
  OBVIOUS
<1>. QED
  BY <1>1 DEF InList, CanAccess

LEMMA ListIsReadable == ListedIsReadable
  BY ListAgreesWithCheck DEF ListedIsReadable

-----------------------------------------------------------------------------
(* The run that composes the eleven.                                       *)

(* Every run of the composition is a run of each part. *)
LEMMA PlatformRunsParts ==
  SuiteRun => /\ RsvpSpec /\ CommunitySpec /\ PollSpec /\ PostSpec /\ DocumentSpec /\ ImportSpec
              /\ CodeSpec /\ AddressSpec /\ ReviewSpec /\ PhotoSpec /\ AdminSpec
<1>1. SuiteInit => /\ RsvpInit /\ CommunityInit /\ PollInit /\ PostInit /\ DocumentInit
                   /\ ImportInit /\ CodeInit /\ AddressInit /\ ReviewInit
                   /\ PhotoInit /\ AdminInit
  BY DEF SuiteInit, RsvpRests, MembersRest, PollRests, PostRests, DocumentStarts, DocumentRests,
         ImportRests, CodesRest
<1>2. [SuiteNext]_suiteVars =>
        /\ [RsvpNext]_rsvpVars /\ [CommunityNext]_communityVars /\ [PollNext]_pollVars
        /\ [PostNext]_postVars /\ [DocumentNext]_documentVars /\ [ImportNext]_importVars
        /\ [CodeNext]_codeVars /\ [AddressNext]_addressVars /\ [ReviewNext]_reviewVars
        /\ [PhotoNext]_photoVars /\ [AdminNext]_adminVars
  BY DEF SuiteNext, suiteVars
<1>. QED
  BY <1>1, <1>2, PTL
     DEF SuiteRun, RsvpSpec, CommunitySpec, PollSpec, PostSpec, DocumentSpec, ImportSpec,
         CodeSpec, AddressSpec, ReviewSpec, PhotoSpec, AdminSpec

(* The eleven parts keep their types together. *)
THEOREM PlatformTypes == SuiteRun => []PlatformTypesOK
<1>1. PollSpec => []PollTypeOK
  BY TalliesStayExact, PTL
<1>2. PostSpec => []PostTypeOK
  BY PostCountersStayExact, PTL
<1>3. ReviewSpec => []ReviewTypeOK
  BY ReviewsStaySound, PTL
<1>. QED
  BY <1>1, <1>2, <1>3, PlatformRunsParts, RsvpTypeCorrect, CommunityTypes, DocumentTypes,
     ImportTypes, CodeTypes, AddressTypes, PhotoTypes, AdminTypes, PTL
     DEF PlatformTypesOK

(* Between requests every stored copy agrees with the rows it is made from, and the
   lists of documents agree with the check that opens one; as long as no version name
   is given twice and requests for the photos of a listing come one at a time. *)
THEOREM CopiesAgree ==
  ASSUME ~NamesReused, \A c, d \in Clients : c = d
  PROVE  SuiteRun => []CopiesMatchRows
<1>1. SuiteRun => [](TalliesAreVotes /\ PostCountersExact /\ ReviewsSound)
  BY PlatformRunsParts, TalliesStayExact, PostCountersStayExact, ReviewsStaySound, PTL
<1>2. SuiteRun => [](PhotosMatch /\ FilesMatchVersions)
  BY PlatformRunsParts, PhotosStayMatched, FilesStayMatched, PTL
<1>3. (TalliesAreVotes /\ PostCountersExact /\ ReviewsSound) /\ (PhotosMatch /\ FilesMatchVersions)
        => CopiesMatchRows
  BY ListIsReadable DEF CopiesMatchRows
<1>. QED
  BY <1>1, <1>2, <1>3, PTL

(* On one server a batch of locations is imported once and whole, and curators who come
   one at a time leave no two siblings of a name but those from files. *)
THEOREM LocationsAreSound ==
  ASSUME \A s, t \in Servers : s = t, \A a, b \in Curators : a = b
  PROVE  SuiteRun => []LocationsSound
<1>1. ImportsSound /\ CuratedSiblingsDiffer => LocationsSound
  BY DEF LocationsSound
<1>. QED
  BY <1>1, PlatformRunsParts, ImportsStaySound, SiblingsStayApart, PTL
=============================================================================
