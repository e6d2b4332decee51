---------------------------- MODULE ServiceAccess ----------------------------
(***************************************************************************)
(* Whom a service listing may serve: its moderation and coverage areas     *)
(* (service_listing.service.js), the access societies grant to it          *)
(* (society_service_access.service.js) and the engine that admits a        *)
(* customer (service_coverage.service.js) inside createBooking, with the   *)
(* search of residents that announces what they may book.                  *)
(*                                                                         *)
(* The desk reads a row, checks, and saves the columns that differ from    *)
(* what it read; a new list of areas is destroyed and created row by row.  *)
(* createBooking is a transaction that holds a shared lock on the listing; *)
(* memberships, accesses and areas it reads without one.  Geography is     *)
(* abstract: an area covers the customers or does not.                     *)
(***************************************************************************)
EXTENDS Integers

CONSTANTS
  Societies, NoSociety,
  Areas,         \* bound: coverage areas of the listing at one time
  Shapes,        \* the areas that are entered
  Desks,         \* requests of the provider, the platform and the societies
  Buyers,        \* residents, one booking each
  HomeCovers     \* the provider's own service area covers the customers

Shape == [scope : {"PUBLIC", "SOCIETY"}, society : Societies \cup {NoSociety},
          method : {"SOCIETY", "PLACE"}, covers : BOOLEAN]

ASSUME ServiceAssumption ==
  NoSociety \notin Societies /\ Shapes \subseteq Shape /\ HomeCovers \in BOOLEAN

VARIABLES
  listing,    \* the row of the listing
  area,       \* its coverage areas that are not deleted
  access,     \* status of the access of each society
  member,     \* active memberships
  job,        \* the request of each desk
  order,      \* the booking of each buyer
  overlapped  \* a decision was saved while the booking is under way

serviceVars == <<listing, area, access, member, job, order, overlapped>>

AccessStatus == {"none", "REQUESTED", "APPROVED", "REJECTED", "SUSPENDED", "REVOKED"}
NoArea == [active |-> FALSE]
Row == [moderation : {"none", "approved", "paused", "rejected"}, available : BOOLEAN,
        scope : {"PUBLIC", "SOCIETY"}, gone : BOOLEAN]
NoJob == [step |-> "idle"]
(* An update knows the columns it will write, with their values. *)
JobOK(j) ==
  \/ j = NoJob
  \/ /\ j.step = "save" /\ DOMAIN j.change \subseteq DOMAIN listing
     /\ j.replace \in BOOLEAN /\ j.next \subseteq Shapes
  \/ j.step \in {"clear", "create"} /\ j.next \subseteq Shapes
  \/ /\ j.step = "review" /\ j.society \in Societies
     /\ j.fresh \in BOOLEAN /\ j.to \in AccessStatus
Order == [step : {"idle", "society", "access", "cover", "place", "booked"},
          society : Societies \cup {NoSociety}]

ServiceTypeOK ==
  /\ listing \in Row
  /\ area \in [Areas -> [active : BOOLEAN, shape : Shapes] \cup {NoArea}]
  /\ access \in [Societies -> AccessStatus]
  /\ member \in [Buyers -> SUBSET Societies]
  /\ \A d \in Desks : JobOK(job[d])
  /\ order \in [Buyers -> Order]
  /\ overlapped \in [Buyers -> BOOLEAN]

ServiceInit ==
  /\ listing = [moderation |-> "none", available |-> TRUE, scope |-> "PUBLIC", gone |-> FALSE]
  /\ area = [a \in Areas |-> NoArea]
  /\ access = [s \in Societies |-> "none"]
  /\ member = [b \in Buyers |-> {}]
  /\ job = [d \in Desks |-> NoJob]
  /\ order = [b \in Buyers |-> [step |-> "idle", society |-> NoSociety]]
  /\ overlapped = [b \in Buyers |-> FALSE]

-----------------------------------------------------------------------------
(* The transaction of a booking holds the shared lock of the listing from its
   first read to its end. *)
UnderWay(b) == order[b].step \in {"society", "access", "cover", "place"}
Locks(b) == UnderWay(b)

Listed == listing.moderation # "none" /\ ~listing.gone
Overlap == overlapped' = [b \in Buyers |-> overlapped[b] \/ UnderWay(b)]

-----------------------------------------------------------------------------
(* The desk: the listing.                                                  *)

(* createListing: the row is inserted approved and available; its areas follow. *)
CreateListing(d, scope, next) ==
  /\ job[d] = NoJob /\ listing.moderation = "none"
  /\ listing' = [listing EXCEPT !.moderation = "approved", !.scope = scope]
  /\ job' = [job EXCEPT ![d] = [step |-> "create", next |-> next]]
  /\ UNCHANGED <<area, access, member, order, overlapped>>

(* The read of a listing to be changed; a change of nothing is left out. *)
Edit(d, to, replace, next) ==
  /\ job[d] = NoJob /\ Listed /\ (to # listing \/ replace)
  /\ job' = [job EXCEPT ![d] =
       [step |-> "save", replace |-> replace, next |-> next,
        change |-> [c \in {k \in DOMAIN to : to[k] # listing[k]} |-> to[c]]]]
  /\ UNCHANGED <<listing, area, access, member, order, overlapped>>

(* updateListing by the provider: the scope, or a new list of areas; is_available
   changes as in AdminToggleListing. *)
UpdateListing(d, scope) == Edit(d, [listing EXCEPT !.scope = scope], FALSE, {})
UpdateAreas(d, next) == Edit(d, listing, TRUE, next)

PauseListing(d) ==
  Edit(d, [listing EXCEPT !.available = FALSE, !.moderation = "paused"], FALSE, {})

ResumeListing(d) ==
  Edit(d, [listing EXCEPT !.available = TRUE, !.moderation = "approved"], FALSE, {})

(* submitServiceListingForReview: the provider is verified, hence approved at once. *)
SubmitListing(d) ==
  Edit(d, [listing EXCEPT !.available = TRUE, !.moderation = "approved"], FALSE, {})

ModerateListing(d, moderation) ==
  Edit(d, [listing EXCEPT !.moderation = moderation], FALSE, {})

AdminToggleListing(d, available) ==
  Edit(d, [listing EXCEPT !.available = available], FALSE, {})

(* deleteListing: the row, then its areas. *)
DeleteListing(d) == Edit(d, [listing EXCEPT !.gone = TRUE], TRUE, {})

(* bulkSoftDeleteListings: one statement, the areas stay. *)
BulkDeleteListing ==
  /\ Listed /\ ~(\E b \in Buyers : Locks(b))
  /\ listing' = [listing EXCEPT !.gone = TRUE, !.available = FALSE, !.moderation = "rejected"]
  /\ UNCHANGED <<area, access, member, job, order, overlapped>>

(* listing.update writes the columns that differ from what was read, and waits for
   the bookings under way. *)
SaveListing(d) ==
  /\ job[d].step = "save" /\ ~(\E b \in Buyers : Locks(b))
  /\ LET j == job[d] IN
     /\ listing' = [c \in DOMAIN listing |->
                      IF c \in DOMAIN j.change THEN j.change[c] ELSE listing[c]]
     /\ job' = [job EXCEPT ![d] =
                  IF j.replace THEN [step |-> "clear", next |-> j.next] ELSE NoJob]
  /\ UNCHANGED <<area, access, member, order, overlapped>>

(* The old areas go in one statement ... *)
ClearAreas(d) ==
  /\ job[d].step = "clear"
  /\ area' = [a \in Areas |-> NoArea]
  /\ job' = [job EXCEPT ![d] = [step |-> "create", next |-> job[d].next]]
  /\ Overlap
  /\ UNCHANGED <<listing, access, member, order>>

(* ... and the new ones come one by one; ... *)
CreateArea(d, a, shape) ==
  /\ job[d].step = "create" /\ shape \in job[d].next /\ area[a] = NoArea
  /\ area' = [area EXCEPT ![a] = [active |-> TRUE, shape |-> shape]]
  /\ job' = [job EXCEPT ![d].next = @ \ {shape}]
  /\ Overlap
  /\ UNCHANGED <<listing, access, member, order>>

(* ... the request ends with the last of them, or at one that is not valid, which
   leaves those that were created. *)
EndAreas(d) ==
  /\ job[d].step = "create"
  /\ job' = [job EXCEPT ![d] = NoJob]
  /\ UNCHANGED <<listing, area, access, member, order, overlapped>>

-----------------------------------------------------------------------------
(* The desk: single areas.                                                 *)

(* addListingCoverageArea refuses an area that is there: two requests that both
   found none leave two alike, which the desk's jobs of one new area produce too. *)
AddArea(d, shape) ==
  /\ job[d] = NoJob /\ Listed
  /\ ~(\E a \in Areas : area[a] # NoArea /\ area[a].shape.method = shape.method
                          /\ area[a].shape.society = shape.society)
  /\ job' = [job EXCEPT ![d] = [step |-> "create", next |-> {shape}]]
  /\ UNCHANGED <<listing, area, access, member, order, overlapped>>

(* updateListingCoverageArea: is_active and the scope. *)
UpdateArea(a, active, scope) ==
  /\ Listed /\ area[a] # NoArea
  /\ [area[a].shape EXCEPT !.scope = scope] \in Shapes
  /\ area' = [area EXCEPT ![a].active = active, ![a].shape.scope = scope]
  /\ Overlap
  /\ UNCHANGED <<listing, access, member, job, order>>

DeleteArea(a) ==
  /\ Listed /\ area[a] # NoArea
  /\ area' = [area EXCEPT ![a] = NoArea]
  /\ Overlap
  /\ UNCHANGED <<listing, access, member, job, order>>

-----------------------------------------------------------------------------
(* The desk: accesses.                                                     *)

(* A review that repeats the status it reads does not write it. *)
Reviewing(d, s, to) ==
  /\ job[d] = NoJob /\ access[s] # to
  /\ job' = [job EXCEPT ![d] = [step |-> "review", society |-> s,
                                fresh |-> access[s] = "none", to |-> to]]
  /\ UNCHANGED <<listing, area, access, member, order, overlapped>>

(* requestAccess: for an approved listing, when none is pending or granted. *)
RequestAccess(d, s) ==
  /\ Listed /\ listing.moderation = "approved"
  /\ access[s] \notin {"APPROVED", "REQUESTED"}
  /\ Reviewing(d, s, "REQUESTED")

(* The reviews look at the row, not at its status. *)
ApproveAccess(d, s) == access[s] # "none" /\ Reviewing(d, s, "APPROVED")
RejectAccess(d, s) == access[s] # "none" /\ Reviewing(d, s, "REJECTED")
SuspendAccess(d, s) == access[s] # "none" /\ Reviewing(d, s, "SUSPENDED")
RevokeAccess(d, s) == access[s] # "none" /\ Reviewing(d, s, "REVOKED")

(* access.save, whatever the status has become since the read; the unique key of
   provider, listing and society refuses a second row. *)
SaveAccess(d) ==
  /\ job[d].step = "review"
  /\ LET j == job[d] IN
     access' = [access EXCEPT ![j.society] =
                  IF j.fresh /\ @ # "none" THEN @ ELSE j.to]
  /\ job' = [job EXCEPT ![d] = NoJob]
  /\ Overlap
  /\ UNCHANGED <<listing, area, member, order>>

(* Memberships change elsewhere. *)
MembershipChanges(b, s) ==
  /\ member' = [member EXCEPT ![b] = IF s \in @ THEN @ \ {s} ELSE @ \cup {s}]
  /\ Overlap
  /\ UNCHANGED <<listing, area, access, job, order>>

-----------------------------------------------------------------------------
(* The engine.                                                             *)

ActiveAreas == {a \in Areas : area[a].active}

(* The scope of an area and its method, for a customer of society s or of none. *)
Matches(shape, s) ==
  /\ shape.scope = "SOCIETY" =>
       s # NoSociety /\ shape.society \in {s, NoSociety}
  /\ IF shape.method = "SOCIETY" THEN s # NoSociety /\ shape.society = s ELSE shape.covers

(* validateCustomerCoverageEligibility after the check of the access: an area that
   matches; without areas, or for the public, the provider's own service area. *)
Covered(s) ==
  \/ \E a \in ActiveAreas : Matches(area[a].shape, s)
  \/ /\ ActiveAreas = {} \/ (s = NoSociety /\ listing.scope # "SOCIETY")
     /\ HomeCovers

(* Variant: any decision of the society will do. *)
AdmittedByRow(s) ==
  IF s # NoSociety THEN access[s] # "none" ELSE listing.scope # "SOCIETY"

(* The society of the customer has approved the listing. *)
Admitted(s) ==
  IF s # NoSociety THEN access[s] = "APPROVED" ELSE listing.scope # "SOCIETY"

(* getAllListings for a society finds an area of that society, or no area at all,
   ... *)
Open == Listed /\ listing.available /\ listing.moderation = "approved"
ServesByArea(s) ==
  \E a \in ActiveAreas : area[a].shape.method = "SOCIETY" /\ area[a].shape.society = s
WithoutAreas == \A a \in Areas : area[a] = NoArea

(* ... and notes that the society has approved it. *)
ShownAsBookable(s) ==
  Open /\ (ServesByArea(s) \/ WithoutAreas) /\ access[s] = "APPROVED"

-----------------------------------------------------------------------------
(* createBooking.                                                          *)

Proceed(b, step) == order' = [order EXCEPT ![b].step = step] /\ UNCHANGED overlapped

Finish(b, step) ==
  /\ order' = [order EXCEPT ![b] = [step |-> step, society |-> NoSociety]]
  /\ overlapped' = [overlapped EXCEPT ![b] = FALSE]

(* The customer may ask again. *)
Refuse(b) == Finish(b, "idle")

(* The listing is read, with its lock, and must be open. *)
Ask(b, s) ==
  /\ order[b].step = "idle"
  /\ Open
  /\ order' = [order EXCEPT ![b] = [step |-> "society", society |-> s]]
  /\ UNCHANGED <<listing, area, access, member, job, overlapped>>

(* The society asked for needs a membership; one that serves societies only is
   booked for the society of the resident, if there is one. *)
ResolveSociety(b) ==
  /\ order[b].step = "society"
  /\ LET asked == order[b].society IN
     \/ asked \in member[b] /\ Proceed(b, "access")
     \/ asked \in Societies \ member[b] /\ Refuse(b)
     \/ /\ asked = NoSociety /\ listing.scope = "SOCIETY"
        /\ \E s \in member[b] : order' = [order EXCEPT ![b] = [step |-> "access", society |-> s]]
        /\ UNCHANGED overlapped
     \/ /\ asked = NoSociety /\ (listing.scope # "SOCIETY" \/ member[b] = {})
        /\ Proceed(b, "access")
  /\ UNCHANGED <<listing, area, access, member, job>>

CheckAccess(b) ==
  /\ order[b].step = "access"
  /\ IF Admitted(order[b].society) THEN Proceed(b, "cover") ELSE Refuse(b)
  /\ UNCHANGED <<listing, area, access, member, job>>

CheckCoverage(b) ==
  /\ order[b].step = "cover"
  /\ IF Covered(order[b].society) THEN Proceed(b, "place") ELSE Refuse(b)
  /\ UNCHANGED <<listing, area, access, member, job>>

(* The booking is inserted and counted on the listing, whose row no other booking
   may hold. *)
PlaceOrder(b) ==
  /\ order[b].step = "place"
  /\ ~(\E o \in Buyers \ {b} : Locks(o))
  /\ Finish(b, "booked")
  /\ UNCHANGED <<listing, area, access, member, job>>

(* No capacity, or the victim of a deadlock of two bookings. *)
AbortOrder(b) ==
  /\ order[b].step = "place"
  /\ Refuse(b)
  /\ UNCHANGED <<listing, area, access, member, job>>

-----------------------------------------------------------------------------
Desk(d) ==
  \/ \E scope \in {"PUBLIC", "SOCIETY"}, next \in SUBSET Shapes : CreateListing(d, scope, next)
  \/ \E scope \in {"PUBLIC", "SOCIETY"} : UpdateListing(d, scope)
  \/ \E next \in SUBSET Shapes : UpdateAreas(d, next)
  \/ PauseListing(d) \/ ResumeListing(d) \/ SubmitListing(d) \/ DeleteListing(d)
  \/ \E m \in {"approved", "paused", "rejected"} : ModerateListing(d, m)
  \/ \E available \in BOOLEAN : AdminToggleListing(d, available)
  \/ SaveListing(d) \/ ClearAreas(d) \/ EndAreas(d) \/ SaveAccess(d)
  \/ \E a \in Areas, shape \in Shapes : CreateArea(d, a, shape)
  \/ \E shape \in Shapes : AddArea(d, shape)
  \/ \E s \in Societies : \/ RequestAccess(d, s) \/ ApproveAccess(d, s) \/ RejectAccess(d, s)
                          \/ SuspendAccess(d, s) \/ RevokeAccess(d, s)

Buyer(b) ==
  \/ \E s \in Societies \cup {NoSociety} : Ask(b, s)
  \/ \E s \in Societies : MembershipChanges(b, s)
  \/ ResolveSociety(b) \/ CheckAccess(b) \/ CheckCoverage(b)
  \/ PlaceOrder(b) \/ AbortOrder(b)

ServiceNext ==
  \/ \E d \in Desks : Desk(d)
  \/ \E b \in Buyers : Buyer(b)
  \/ \E a \in Areas, active \in BOOLEAN, scope \in {"PUBLIC", "SOCIETY"} :
       UpdateArea(a, active, scope)
  \/ \E a \in Areas : DeleteArea(a)
  \/ BulkDeleteListing

ServiceSpec == ServiceInit /\ [][ServiceNext]_serviceVars

-----------------------------------------------------------------------------
(* What the comment of the engine promises of a booking: within the reach of the
   listing, and for a society by a member of it and approved by it. *)
Entitled(b) ==
  LET s == order[b].society IN
  /\ \/ \E a \in ActiveAreas :
          /\ area[a].shape.method = "SOCIETY" => area[a].shape.society = s
          /\ area[a].shape.method = "PLACE" => area[a].shape.covers
          /\ area[a].shape.scope = "SOCIETY" => s # NoSociety
     \/ HomeCovers /\ (ActiveAreas = {} \/ s = NoSociety)
  /\ s # NoSociety => s \in member[b] /\ access[s] = "APPROVED"
  /\ s = NoSociety => listing.scope = "PUBLIC"

(* A booking is made only on a listing that is open at that moment; and unless a
   decision on areas, accesses or memberships was saved while it was under way, by
   a customer who is entitled to it. *)
BookedIsOpen ==
  [][\A b \in Buyers : order[b].step # "booked" /\ order'[b].step = "booked" =>
       Open /\ (overlapped[b] \/ Entitled(b))]_serviceVars

(* What the search shows the residents of a society as bookable, the engine admits,
   where the provider's own area reaches them. *)
ShownIsBookable ==
  HomeCovers => \A s \in Societies : ShownAsBookable(s) => Admitted(s) /\ Covered(s)

(* The search, the engine and the booking agree on whom a listing serves. *)
ServicesSound == BookedIsOpen /\ []ShownIsBookable
=============================================================================
