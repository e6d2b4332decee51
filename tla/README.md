# TLA+ models of smartgaliapi

smartgaliapi is the API of a neighbourhood application: events, communities,
chats, posts, local services, housing societies. It is an Express process with
Sequelize on MySQL, Redis, BullMQ and Socket.IO, and a worker process that
consumes the chat-events queue. Almost all of its state is in MySQL; most
operations are one request that runs a handful of statements, some of them in a
transaction, many not. The errors worth looking for are between the statements:
two requests on one row, a check that is stale when it is acted on, a crash
between a commit and what should follow it.

This directory holds TLA+ models of the parts where that matters most, the
configurations TLC checks, and proofs checked by TLAPS. `PROJECT.json` lists,
for every definition that models code, the lines it models.

## 1. Inventory

Paths are relative to `src/src/`. "Hard" is what a test would hardly reach.

| Component | State | Operations | Interacts with | Hard | Correct when |
|---|---|---|---|---|---|
| Outbox pipeline (`modules/outbox`, `infrastructure/queues`, `workers/chatEvents.worker.js`) | `outbox_events` rows; BullMQ jobs in Redis; slots of the worker | record in a transaction, enqueue, sweep at start, process, retry, mark | every domain transaction records into it; handlers write notifications | crash anywhere, stalled and duplicated jobs, late listeners, a sweep racing a request | a published row was handled; published is final; accepted jobs finish; attempts bounded |
| Events and RSVPs (`modules/event`, `modules/event_participant`) | event row with status, limit and three counters; participant rows | create, update, cancel, delete; set and cancel an RSVP; legacy row writes | outbox, event chat, reconciliation | answers racing each other and the organiser; a counter that drifts | counters equal rows; limit respected; no answer on a closed event |
| Counter reconciliation (`workers/counterReconciliation.worker.js`) | none of its own | read counts, later write them | event, post, community, society counters | the write is older than the answers | it repairs, eventually |
| Event chat (`modules/event/event.service.js`, `middleware/chatAuthorization…`, `socket.js`) | chat row, `chat_participants`, socket rooms | open, provision, join, leave, remove, add, evict, revoke | RSVPs decide who is in | check and act in different statements | only people who answered are in; leavers are out |
| Service bookings (`modules/service_booking`) | booking rows, timeline, provider's job count | create, nine transitions, delete, offer slots | listing, provider, timeline, notifications | transitions are not transactions | no double booking; life cycle respected |
| Service reviews (`modules/service_review`) | review rows, stored counts and averages | create or replace, delete | bookings, provider profile | two reviews aggregate different snapshots | counts are those of the live rows |
| Catalogue and providers (`service_listing`, `service_category`, `service_provider_profile`, `kyc_requirement`) | listings with photos, profiles, documents asked for and handed in | create, update, submit, verify, moderate | bookings | a verification reads what changes under it; a listing is saved half way | no provider makes himself a listing unvetted; the copy of the photos is right |
| Event invitations (`event_invitation`) | invitation rows | send, accept, decline | RSVPs | accepted and committed, then the RSVP is refused | accepted implies going |
| Community membership (`community`, `communityMember`, `community_join_request`) | member rows, requests, invitations, `members_count`, chat participants | join, leave, role, remove, ban, unban, request, approve, invite, respond | community chat, audit log | a request or an invitation older than a ban | banned stays out; an active admin remains; count equals rows |
| Community content (`community_poll`, announcements, documents, media) | rows, poll options with counts in a JSON column | vote, move a vote, CRUD | membership | two votes change one column | stored counts equal votes |
| Chats and members (`chat`, `chat_participant`) | chats, participants with roles | add, remove, leave, make admin | messages, rooms | the last admin leaves | a chat with members has an admin |
| Messages (`message`, receipts, reactions, pins) | messages, receipts, unread badges, preview of the chat | send, edit, delete, read | outbox, sockets, push | a deletion waits for a send that becomes the newest | the preview is no message deleted for everyone, and what replaces one is the newest left |
| Presence (`infrastructure/presence`) | Redis key with a TTL, `is_online` | connect, heartbeat, disconnect | sockets | count sockets, then delete the key | online while connected, in the end |
| Notifications (`notification`, `infrastructure/notifications`) | notification rows, device tokens | emit, push, read | handlers of the outbox | a handler dies and runs again; a token is pruned while a device is saved | rows are explained by the runs; a push has its row; a live token hears |
| Authentication (`auth`, `user`, `role`) | users, families of refresh tokens, reset sessions, one-time codes | sign up, log in, refresh, reset, log out, delete | everything | refresh and reset lock in opposite orders; guesses at once | one live token per family; a reset ends every session; guesses bounded |
| Profiles and addresses (`user_address`, `profile`) | addresses, default flag | CRUD, set default | services | a save by what was read before a bulk update | one default at most |
| Posts and social graph (`post*`, `follow`, `feed`, `report`) | posts with counters, likes, comments | like, comment, share, follow, report | outbox, feed | like and unlike lock in opposite orders | counters equal rows |
| Society membership, committee (`society_member`, `society_committee`, …) | members with roles, the owner; committee rows with delegated rights | add, approve, change, demote, suspend, revoke, restore | permissions | two admins demoted at once; a suspended row beside a second one | an admin remains; who was put out has no right |
| Society parking (`society_parking`) | slots, allocations with passes, reservations of visitors | allocate, reassign, release, maintain, prebook, check in and out | gate | slots saved by what was read before the allocation | one allocation per slot; passes are those of the allocations |
| Gate, visitors, guards (`society_visitor`, `society_guard`, …) | visitor entries, guards with assignments | approve, deny, enter, leave; assign, move, deactivate | notifications | two decisions on one visitor; two assignments of one guard | a denied visitor stays out; a guard has one duty |
| Society services (`society_complaint`, `society_poll`, `society_document`, …) | complaints, polls, versions of documents | CRUD, status, vote, upload, publish | members, workers | a status moved by somebody the complaint was taken from; two uploads | tasks move by their assignees; the file is that of the version |
| Permissions (`permission`) | grants of users and roles, a cache in each process, one in Redis | grant, revoke, look up | every guard | a look-up stores what it read before a change | the caches come to agree with the tables |
| Directory and advertising (`business_*`, `ad_*`) | single rows | CRUD | | | |
| Location master (`location_master`) | masters, staged batches, lists cached in Redis and in each process | stage, confirm, retry; add and move places; list | addresses | a confirmation repeated or failing half way; a place added by hand while its file waits; an edit misses a cache | a batch is applied once and whole; siblings have different names; lists come to agree with the tables |
| Media, audit, administration | files, append-only logs | upload, append, read | | | |
| Platform (`app.js`, `server.js`, `config`, rate limiter, monitoring) | connections, Redis counters | start, stop, limit | all | limiter without an atomic step | limit holds |
| Scripts and migrations | the schema | run once | | | unique keys exist |

`PROJECT.json` says for each component what is modelled, partly modelled or not.

## 2. The modules

Each component has a module of its own; the comment at its head says what state
it keeps, what is one step and what is left out.

| Module | Models | Proofs |
|---|---|---|
| `OutboxDelivery` | the promise of the outbox: recorded, taken up, delivered or abandoned, delivered is final | |
| `OutboxPipeline` | rows, publisher, queue, worker; refines `OutboxDelivery` | `OutboxPipelineProofs` |
| `EventRsvp` | one event, its RSVPs and counters, legacy writes, reconciliation | `EventRsvpProofs` |
| `EventChat` | extends `EventRsvp` with the event's chat and its socket rooms | `DeliveryProofs` |
| `ServiceBooking` | the bookings of one provider for one listing | `ServiceBookingProofs` |
| `Messages` | the messages of a chat, its preview, receipts and badges | `DeliveryProofs` |
| `AuthSessions` | refresh tokens under sign-in, refresh, log-out, reset and deletion, with row locks and deadlocks | `AccountProofs` |
| `OneTimeCodes` | the codes of sign-ups and resets, their attempts | `AccountProofs` |
| `CommunityMembership` | members, roles, bans, requests, invitations, and the community's chat with its seats and its room | `PlatformProofs` |
| `Polls` | community polls with stored tallies, society polls with counted votes | `PlatformProofs` |
| `PostCounters` | likes, comments, shares and their counters, deadlocks, the repair script | `PlatformProofs` |
| `Reviews` | reviews and the counts of listing and provider | `CatalogueProofs` |
| `ProviderVetting` | how a provider gets verified, changes category and comes to have a listing | `CatalogueProofs` |
| `ListingPhotos` | photos of a listing and their copy in a column | `CatalogueProofs` |
| `Addresses` | the addresses of a user and the default | `AccountProofs` |
| `Documents` | versions and publication of a society's document; who may read it and who finds it in a list | `PlatformProofs` |
| `Parking` | slots, allocations with passes, visitors' reservations | `SocietyProofs` |
| `Gate` | a visitor's way in and out, guards and their duties | `SocietyProofs` |
| `Committee` | committee members and the rights delegated to them | `SocietyProofs` |
| `SocietyMembers` | roles of a society's members and its last admin | |
| `Complaints` | the status of a complaint, assignments, authorizations | |
| `Permissions` | the rights of a user, cached in each process and in Redis | |
| `LocationImport` | staged batches of locations and their confirmation | `CatalogueProofs` |
| `LocationAdmin` | places added and moved one by one, beside the files that write the same rows | `CatalogueProofs` |
| `LocationLookups` | the lists served from two levels of cache | |
| `Presence` | sockets, heartbeats, the Redis key and `is_online` | |
| `ServiceAccess` | the moderation and the coverage areas of a listing, the access of societies, and whom a booking admits | `SocietyProofs` |
| `Notifications` | the notifications of one event, their pushes, the devices and their tokens | `DeliveryProofs` |

Components that share state are composed: `EventChat` extends `EventRsvp`, and
`CommunityMembership` holds the members together with the chat that follows them.
Components that share none are checked side by side by six suites. In
`MCDelivery`, `MCVisits`, `MCConverge`, `MCSociety` and `MCPlatform` a variable
`part`, in `MCServices` a variable `market`, picks in the initial state the component that runs; the others stay in an
initial state, so the states of a suite are the sum of those of its components and
not their product. Model values are shared between the components of a suite, so
that one symmetry group serves all. `MCServiceBooking` adds a symmetry set.

The definitions commented "Variant:" are used by no action. Each is a plausible
mistake in the definition below it; replacing that definition by the variant
makes TLC refute one property, which shows that the property depends on the code.

Four habits of the code recur in all modules.

* *Read, decide, save.* A handler that reads a row without a lock and writes later
  is two actions; what it is about to write is a record in a variable (`saves`,
  `visit`, `uploads`, `adding`, …).
* *Only changed columns.* `instance.save()` and `update()` of Sequelize write the
  columns whose new value differs from what that instance read, whatever the row
  holds by now. Where that matters (`ServiceBooking`, `Addresses`, `Documents`,
  `Parking`, `ListingPhotos`) a save is a set of columns.
* *Snapshots.* At the default isolation of MySQL a plain read in a transaction sees
  the snapshot of its first read, a locking read the newest committed row. A
  transaction whose first read locks what it writes is one action; one that locks
  something else, or decides on a snapshot, is two.
* *Locks.* Where two transactions take locks in opposite orders (`AuthSessions`,
  `PostCounters`) each wait is a step, and MySQL rolls back one of the transactions
  of a cycle.

### OutboxPipeline

An event is the id of its row. `row` and `attempts` are the columns of
`outbox_events`; `job`, `made`, `stalls` the BullMQ job `outbox-event-<id>`, its
`attemptsMade` and its stalled counter; `pc`, `ev` the step a slot of the worker
is about to take and the event of its job; `boot` and `sweep` the start of the
worker and the rows its recovery sweep has read; `listening` the rows the
`failed` listener has yet to mark; `prod` what is left to do for the request that
committed the row.

* `Commit` is `createEvent` in a domain transaction; `Enqueue` and
  `EnqueueSkipped` are the attempt of `sendMessage` after its commit. Only
  `message.created` is enqueued after the commit, so `Messages` are the only
  rows with `prod = "enqueue"`.
* `Start`, `Fetch`, `SweepOne` are `startChatEventsWorker` and
  `publishPendingEvents`, row by row over its snapshot; `Crash` and `Stop` end
  the process.
* `Load` … `MarkFailed` are `processEvent`, one action per database access;
  `SettleOk`, `SettleError` what BullMQ does with the outcome; `Listener` the
  `failed` listener.
* `Take`, `Promote`, `Stalled`, `Evict` are BullMQ as the code uses it: a
  deterministic job id, attempts with backoff, `maxStalledCount`, removal of
  finished jobs (`Evict` waits until nobody holds the event: the ages configured
  are a day and a week).
* `Faults` says what may throw: reads, writes, handlers. `LiveStalls` lets the
  stalled check take a job from a slot that still runs it, as happens when an
  event loop is blocked for longer than the lock lives.

`shown` and `ran` are history: whose handler reached a user, whose handler ran.

### EventRsvp, EventChat, CommunityMembership

`setEventRsvp` and `cancelEventRsvp` lock the event row in their first statement
and hold it to the commit: each is one action, with its checks, the counters and
the outbox row. `updateEvent` and `cancelEvent` save only the columns they
change. The legacy endpoints write participant rows with no lock and no counters;
`MaxLegacy` bounds them. The script's read and write are two actions. A
participant row that is missing or soft deleted is "none".

A request to the chat is checked in one statement (`OpenChat`, `EnterChat`,
`JoinSocket`) and acts in later ones (`FindChat`, `CreateChat`, `Join`,
`Subscribe`); `visit` is what it will do next. The evictions of `updateEvent` and
`cancelEvent` follow their update (`editing`), the revocation of a socket follows
the commit of the cancellation (`revoking`). With `Overlap = FALSE` requests run
one at a time: that is where what each of them achieves can be stated; with
`Overlap = TRUE` everything interleaves.

A change of a community membership locks the community row first and is one
action. The middleware, the socket and the two operations that lock nothing
(asking to join, inviting) check earlier; `entering` and `asked` are the requests
in between. `Interleaved` says whether they may be.

### ServiceBooking

`createBooking` is one transaction that locks the provider's bookings: one action.
`transitionBooking` is not a transaction: `ReadBooking` or `ReadForSchedule`, for
a reschedule `CheckSlot`, then `UpdateBooking`, `CountJob`, `AppendTimeline`. A
request remembers which columns Sequelize will save. Times are slots of a day;
`Occupancy` is duration plus buffer. `Clash` says which requests may overlap: two
on one booking, two reschedules. `MayAbort` lets a request die between two
statements.

### ServiceAccess

`listing` is the row with its moderation, availability, scope and deletion, `area`
its coverage areas, `access` the status of the access of each society, `member`
the societies a buyer lives in. `Desks` are the requests of provider, platform and
societies: each reads the listing (`Edit`), saves the columns that differ
(`SaveListing`), and where it replaces the areas destroys them and creates the new
ones row by row. `createBooking` holds a shared lock on the listing, so a desk
cannot save while a booking is under way; memberships, accesses and areas are read
in turn (`order[b].step`), and may change in between. `overlapped` notes that they
did: what a booking promises is stated for those in which nothing was decided
meanwhile.

### Notifications

`todo` is what a run of the handler of one event still has to do for each user:
look for the row with the idempotency key and create it (documents only), then
`emitNotification`, whose preference check, errors and self-suppression come to
nothing happening. The handler of an assigned complaint emits to the assignee and to
who raised it, who may be one user; a broadcast inserts all its rows at once. A run may die anywhere, its pushes with it, and be taken up
again; which users are concerned is read anew. `pushing` are the calls of
`sendToUser` nobody waits for: the active tokens are read once, then tried one
after the other; a token FCM does not know makes every device with it inactive.
`saving` is a registration or deactivation of a device between its read and its
write. Two runs of one handler at once, which a stalled job could bring about,
are those of `OutboxPipeline` under `LiveStalls` and left out here: the key is
not unique in the table, so both would create their row.

### ProviderVetting, LocationAdmin

A verification is one action for each of its reads and one for its write; what it
loaded of the profile decides which columns it saves. `creating` and `offering` say who
is about to create the listing and who did: a provider past the check of his
verification, or an administrator, of whom none is asked. `UpdateProfile` and the setup
of the profile may change the category, and `been` remembers what was true of the
category at hand and whether an earlier one vetted him.

`proposal` is what the request of a curator has checked and not yet committed, `onFile`
a staged record that waits for its confirmation: an insert that found no namesake when
the file was staged, or an update that matched a row. `imported` are the rows a file
inserted that no curator's check has passed since. `LocationImport` has the batches of
these records and the confirmations that repeat, fail and crash; here a confirmation
is one row.

### The caches

`Permissions` and `LocationLookups` model look-ups statement by statement on two
processes. A look-up that read before an edit may fill both caches after it, and
an edit clears Redis and the memory of its own process only; what heals this is
the expiry of entries, which is an action with fairness. A list is represented by
the number of edits that changed what it shows, a right by the truth of the
grants: all that agreement with the tables needs.

## 3. What TLC checks

Every run checks deadlock off: all these systems may legitimately come to rest.
That nothing waits for ever where requests wait for locks is a property
(`RequestsEnd`).

| Run | Instance | Properties | Shows |
|---|---|---|---|
| `delivery` | outbox: 3 rows (message, post event, unregistered type), 2 slots, 2 attempts, 1 stall, 2 restarts, batch 1, handlers may throw; 2 messages, 2 participants; notifications: 2 users, 2 phones, 2 tokens, 2 runs, 3 rows, 2 saves | `ExclusiveProcessing`, `CompletedMeansSettled`, `NoStrandedRow`, `NoRerunAfterPublish`, `DeliverySpec`, `TellingSound` | request, sweep, retry and stalled check never run one row twice at a time nor after it was published, a finished job settled its row, and the pipeline keeps the promise of `OutboxDelivery`; a message deleted for everyone is not the preview of its chat and the newest one left takes its place; a user has no more rows than the runs of the handler explain, a push has its row, a live token hears |
| `visits` | organiser and one user, one update in flight, one request at a time, users keep opening the chat; 3 refresh tokens, 3 requests, one reset | `LeaversAreOut`, `AttendeesReturn`, `SessionsSound`, `DeadStayDead`, `RequestsEnd` | membership of the chat follows the RSVP; one live token per family, a reset ends every session, a dead token stays dead, and no deadlock lasts |
| `converge` | event: one legacy write, repairs racing with answers; permission: 2 processes, 1 look-up, 2 changes; lists: 2 processes, 1 look-up, localities and PIN codes, 1 edit; 2 sockets, 1 error of Redis; outbox: 2 rows, 1 slot, every fault, live takeovers, 1 restart; fairness | `PublishedWasHandled`, `CachesConverge`, `RepairedWhenQuiet`, `PresenceConverges`, `AcceptedJobFinishes` | what must eventually happen does |
| `chat_race` | organiser and one user, one update in flight, one addition by the admin, everything interleaves | `ChatTypeOK`, `NoStranger`, `OnlyRacersStay` | stale checks let in people whose RSVP is gone, but nobody who never answered, and of those who cancelled only who had a request under way |
| `booking_slots` | 2 bookings, one request at a time that may die anywhere, 3 times, occupancy 2, capacity 1, provider's capacity 2; vetting: 2 documents | `NoDoubleBooking`, `OfferedIsBookable`, `ListedWasVetted` | apart from overlapping reschedules, the calendar is consistent and keeps what it offers; no provider makes himself a listing who was vetted in no category of his |
| `society` | 2 bays, 3 allocations, 2 visits; 2 visitors, 2 decisions, 1 guard, 3 assignments; 2 residents, 2 committee rows, 2 additions; 1 booking, 2 requests that overlap freely; 1 listing with 1 area, 1 society, 1 desk, 2 buyers | `SocietyTypesOK`, `ParkingSound`, `OneDuty`, `DeniedStayOut`, `BarredHaveNoRight`, `WholeReschedule`, `CompletedIsCounted`, `ServicesSound` | allocations and passes agree, a guard has one duty, who was turned away or put out stays so, saving only the changed columns never mixes two reschedules, a booking was open to its buyer |
| `platform` | 11 components, bounds in the head of `MCPlatform.cfg` | `PlatformTypesOK`, `CountersExact`, `NoOverbooking`, `ClosedToAnswers`, `MembershipSound`, `BansHold`, `CopiesMatchRows`, `GuessesBounded`, `LocationsSound`, `OneDefaultAtMost` | what is stored twice agrees, limits are kept, and what was refused stays refused |
| `booking_double` | 2 bookings, 2 reschedules | `NoDoubleBooking` | violated: section 5 |
| `set_default` | 3 addresses, 2 requests | `OneDefault` | violated: section 5 |
| `last_admin` | 2 admins, 2 changes | `LastAdminProtected` | violated: section 5 |
| `lists_cleared` | 1 process, 1 list | `InvalidatedIsGone` | violated: section 5 |
| `own_tasks` | 2 workers, 1 manager | `OwnTasksOnly` | violated: section 5 |

Some properties are conjunctions over a suite: `SessionsSound` is
`OneLivePerFamily`, `ResetEndsSessions` and `GrantsUsedOnce`; `MembershipSound`
has the exact `members_count`, the owner who stays, and the listeners of the chat
who are members; `CopiesMatchRows` is `TalliesAreVotes`,
`PostCountersExact`, `ReviewsSound`, `PhotosMatch`, `FilesMatchVersions` and, while
a document runs, `ListedIsReadable`; `TellingSound` is `PreviewFollows` and
`NotificationsSound`, which is `RowsPerRun`, `RingsHaveRows` and `LiveTokensHear`; `LocationsSound` is
`ImportsSound` and `CuratedSiblingsDiffer`; `CachesConverge` is `RightsConverge` and
`LookupsConverge`. `ParkingSound` is `OneAllocation` and `PassesFollow`.
`PlatformTypesOK` and `SocietyTypesOK` collect the type invariants.

**Bounds.** Interference in this code is pairwise: two slots, two requests, two
users. Two rows show the interplay of jobs and a third gives the sweep more than
it takes in one batch; two attempts give a first and a last; one stall gives a
forgiven and an unforgiven one, which takes two restarts. Limits 0, 1 and 2 of an
event are no limit, the organiser alone, and one seat for two users. Three start
times with an occupancy of two give slots that are equal, overlap and touch.
Three tokens are a token, its successor and a second session. Two processes are
the least that can disagree about a cache. Three allocations of two bays let one
be reassigned while the other is taken. Three photos with a limit of two reach the
limit and go past it if the code lets them (the code's limit is five). Two codes
of two attempts give a code that is replaced and a guess that is the last. An area
of a listing is for everybody or for one society, and a booking depends on one at a
time; the second buyer is the neighbour. Two runs of a handler are the one that dies
and the one that repeats it, and three rows are more than one run makes; two saves
move a token from one phone to the other. Two documents of a provider let one be
uncovered when the other goes. Three places of one name in two states are a city
with two localities or PIN codes, or siblings one of which comes from a file; with
one name an update renames nothing, only moves: renaming is covered by the proof.

Some runs restrict how requests meet, and the property is about the code under
that restriction only: `LeaversAreOut` and `AttendeesReturn` need
`Overlap = FALSE`; `NoDoubleBooking` needs reschedules that do not meet; `BansHold`
and the listeners of `MembershipSound` are checked with `Interleaved = FALSE` (the
count and the owner hold with `TRUE` too); `PhotosMatch` and `CuratedSiblingsDiffer`
with one client, one curator; `ImportsSound` with one server, on which confirmations
exclude each other; `OnlyRacersStay` while the event has one chat; `FilesMatchVersions` with file names that are not used
again; `BarredHaveNoRight` with `AddsTwice = FALSE`, no two additions of one user
at once; `LiveTokensHear` with `SavesOverlap = FALSE`, no device saved while a token
is pruned. Section 5 says what happens otherwise.

**Fairness.** `FairSpec` of the outbox: the worker is restarted when it is down
(it runs under a process manager), its continuations run, BullMQ hands out,
promotes and checks jobs. Nothing is assumed of commits, crashes, stops and
evictions. `VisitedChatSpec` assumes that users keep opening the chat (strong
fairness, because with one request at a time the chance comes and goes) and that
a request that started goes on. `FairSessionSpec` assumes only that requests go
on when they can; that a deadlock ends is MySQL's detection. `RepairedRsvpSpec`
assumes that somebody keeps running the script; nothing in the repository
schedules it, so `RepairedWhenQuiet` is a statement about operations.
`FairPermissionSpec` and `FairLookupSpec`: look-ups go on, entries of Redis and of
the processes expire (both are written with a time to live). `FairPresenceSpec`:
handlers go on unless their process ends, sockets that stay send heartbeats, keys
expire. No fairness is assumed of what a user does, apart from the visits to a
chat. In a suite each condition holds for the part that runs.

## 4. What is proved

TLAPS proves these for all values of the constants that satisfy the named
assumptions of the modules.

| Theorem | Extra assumption | Establishes |
|---|---|---|
| `TypeCorrect` | | `TypeOK` |
| `PublishedOnlyAfterHandling` | | `PublishedWasHandled`, under every fault |
| `SweepFindsUntouchedRows` | | `PendingUntouched`, under every fault |
| `OneSlotPerEvent` | `~LiveStalls` | `ExclusiveProcessing` |
| `AttemptsAreBounded` | `~LiveStalls` | `AttemptsBounded` |
| `PublicationIsFinal`, `NoRerun` | `~LiveStalls`, reads work | `PublishedIsFinal`, `NoRerunAfterPublish` |
| `ImplementsDelivery` | the same | `DeliverySpec` |
| `CompletedJobsSettled`, `NobodyIsStranded` | `~LiveStalls`, reads and writes work | `CompletedMeansSettled`, `NoStrandedRow` |
| `RsvpTypeCorrect` | | `RsvpTypeOK` |
| `CountersAreExact`, `NeverOverbooked`, `AnswersNeedAnOpenEvent` | `MaxLegacy = 0` | `CountersExact`, `NoOverbooking`, `ClosedToAnswers` |
| `CountersExactWithChat` | `MaxLegacy = 0` | `CountersExact` of the event with its chat |
| `ChatTypeCorrect`, `NoStrangerInChat` | | `ChatTypeOK`, `NoStranger`, with every interleaving |
| `LeaversStayOut` | `~Overlap`, `MaxLegacy = 0`, `MaxAdded = 0` | `LeaversAreOut` |
| `OnlyRacersRemain` | `MaxLegacy = 0` | `OnlyRacersStay`, with every interleaving |
| `BookingTypeCorrect` | | `BookingTypeOK` |
| `IntervalIsTheSlot` | `~SlotOnly` | `WholeReschedule`, requests overlapping and dying |
| `NobodyDoubleBooked` | `~SlotOnly`, `Clash = {}` | `NoDoubleBooking` |
| `NoneUncounted` | `~MayAbort` | `CompletedIsCounted` |
| `OffersHold` | `~SlotOnly`, the listing has a capacity or the provider none | `OfferedIsBookable` |
| `ListingsAreVetted`, `VettingTypes` | | `ListedWasVetted`, whatever categories the provider changes to; `VettingTypeOK` |
| `AllocationsAreSound`, `ParkingTypes` | | `ParkingSound`, `ParkingTypeOK` |
| `GuardsHaveOneDuty`, `DenialsHold`, `GateTypes` | | `OneDuty`, `DeniedStayOut`, `GateTypeOK` |
| `BarredStayOut` | `~AddsTwice` | `BarredHaveNoRight` |
| `CommitteeTypes` | | `CommitteeTypeOK` |
| `GuessesAreBounded`, `CodeTypes` | | `GuessesBounded`, `CodeTypeOK` |
| `DefaultsAreUnique`, `AddressTypes` | | `OneDefaultAtMost`, `AddressTypeOK` |
| `SessionsAreSound`, `RevokedForGood`, `SessionTypes` | | `SessionsSound`, `DeadStayDead`, `SessionTypeOK` |
| `CountsAreExact`, `CommunityTypes` | | `CountExact` and `OwnerStays`, with every interleaving; `CommunityTypeOK` |
| `MembershipIsSound`, `BansStand` | `~Interleaved` | `MembershipSound`, `BansHold` |
| `PreviewReplaced` | | `PreviewFollows` |
| `RowsAreBounded`, `OneRingPerRow`, `NotifyTypes` | | `RowsPerRun`, `RingsHaveRows`, `NotifyTypeOK`, whatever runs and pushes die |
| `LiveDevicesHear` | `~SavesOverlap` | `LiveTokensHear` |
| `ServicesAreSound`, `ServiceTypes` | | `ServicesSound`, `ServiceTypeOK` |
| `TalliesStayExact` | | `TalliesAreVotes` and the types of `Polls` |
| `PostCountersStayExact` | | `PostCountersExact` and the types of `PostCounters` |
| `ReviewsStaySound` | | `ReviewsSound` and the types of `Reviews` |
| `PhotosStayMatched` | one client at a time | `PhotosMatch` |
| `FilesStayMatched` | `~NamesReused` | `FilesMatchVersions` |
| `ImportsStaySound` | one server | `ImportsSound` |
| `SiblingsStayApart` | one curator at a time | `CuratedSiblingsDiffer`, whatever files are staged and imported |
| `UsersAreToldSoundly` | `~SavesOverlap` | `TellingSound` of the run `delivery` |
| `SocietyTypes` | | `SocietyTypesOK` of the run `society` |
| `PlatformTypes` | | `PlatformTypesOK` of the run `platform` |
| `CopiesAgree` | `~NamesReused`, one client at a time | `CopiesMatchRows` of the run `platform` |
| `LocationsAreSound` | one server, one curator at a time | `LocationsSound` of the run `platform` |

The assumptions in the second column are those under which the run checks the
property as well, or weaker; section 5 has what happens without them. "One client"
is `\A c, d \in Clients : c = d`: the set has one member at most. The named
assumptions of the modules say that bounds are naturals, that sets whose members
are counted are finite, and that the value standing for nothing (`NoOption`,
`NoPlace`, `NoSociety`) is not a member of the set it is told apart from;
`DocumentAssumption` also wants room for the first file.

The eight modules of proofs follow the suites: `DeliveryProofs`, `SocietyProofs` and
`PlatformProofs` extend the module of their run, and hold or import the proofs of
its parts; `AccountProofs` and `CatalogueProofs` are imported by `PlatformProofs`.

**Outbox.** `TypeOK` is not inductive: that `made` stays below `MaxAttempts` needs
to know that only jobs that are not over are run, and that a slot that still has
its lock holds an active job (`SlotInv`, `JobInv`; with `TypeOK` they are `IInv`).
`HistoryInv` relates the row to the step of the slot on it (a row about to be
published was handled) and says that an event without a job is held by nobody but
a request or a sweep, and then it is pending: that is what makes enqueueing it
again harmless. `BudgetInv` counts attempts against `made` and `stalls`;
`FinalInv` says that a slot on a published row is about to skip it, and that the
listener only holds rows that are not published. `SettledInv` relates the job to
the step of its slot: who is about to settle a job has settled its row.
The refinement shows step by step that a row's changes are steps of
`OutboxDelivery` or stutter.

**RSVPs.** `ExactInv` adds to exact counters that no repair is pending, for the
script never finds a difference. The heart is `MoveKeepsExact`: one user's change
of answer moves the cardinalities of the row sets by what `Moved` adds and
subtracts, so that `Math.max(0, …)` never takes effect. `NoOverbooking` then
follows from the check against the counter.

**Chat.** The chat decides nothing about RSVPs, so that its steps are steps of
`EventRsvp` is no more than a lemma, which carries `CountersExact` over. `KnownInv`
strengthens `NoStranger` by "who has an RSVP, or a request on its way, answered
at some time": the check is stale when acted on, but not about that. For
`LeaversAreOut` the invariant adds `TurnInv` (one request at a time) and `ChatInv`
(what the request under way checked is still so). `RaceInv`, for every interleaving:
who has a request under way and no RSVP any more cancelled it meanwhile. Legacy
writes delete a participant row and leave the chat alone, so they are excluded.

**Bookings.** `WholeInv`: each request in flight carries an interval that is whole
and saves every column in which the booking differs from what it will be,
whatever others save meanwhile. `SlotInv`, for requests that do not clash: what a
request read is still so when it saves, and the slot it checked still has room.
`OffersHold` is a fact about the two conditions, on intervals: `ConflictsOverlap`
shows that they select the same bookings when every interval is whole.

**Vetting.** The invariant has two parts: what holds of the category and of the
documents is in the history (`Recorded`), and how far a verification or a creation
has come tells what the history holds (`Grounded`), whatever changed since. A change of
category turns what was held into "elsewhere", which `Grounded` keeps.

**Parking.** `AllocationInv` adds to `ParkingSound` that an allocation is of one
slot, for a release that left it elsewhere would leave it there without its pass.
Stale saves disturb the status of a slot and never its allocations.

**Gate.** `LockInv`: a request that has decided on a visitor holds the lock of its
row, which still is what it read, and goes where the transition table lets it.

**Codes.** `CodeInv`: a guess about to be judged holds the row of a code that is
active and below its limit, and while a code is active it was compared as often as
its row says.

**Committee.** `SeatInv` adds to `OneRowEach` what an addition under way has found
(none while there is none, or a row of its user) and that the row of who is barred
is in none of the statuses an answer of his own makes active. Every change of a row
that is not an addition keeps its user or deletes it (`RowsOfChanged`), so a second
row comes from two additions only.

**Addresses.** `ReadInv`: who has read an address holds the row of the user, so
the address is still as it was read and nobody else is about to write.

**Sessions.** `HoldInv`: who is about to replace a token holds its row and it is
live; who is about to use a grant holds its row and it is unspent. `RootInv` says
that a family began with a token that was created, so a sign-in starts a new one.

**Community.** The creator is in no request and no invitation and nobody is about to
make one for him (`OwnerInv`), so neither an approval nor an acceptance resets his
role. `FreshInv`, for requests that do not overlap: who is about to hear the chat is
still a member, and who is about to ask or be invited is not banned.

**Messages.** What replaces a preview is the greatest of the messages left. That a
non-empty set of messages has a greatest member is `GreatestBelow`, from the least of
the distances to the bound. A send makes its message the preview, whatever its id; a
deletion for everyone that finds its message there puts the newest in its place, with
the chat locked. So `PreviewInv` needs no more than the types beside `PreviewFollows`:
the badges and what is being read play no part in it.

**Notifications.** `HandlerInv`: the rows of a user and those the run still has to
write (`Left`) are together no more than `MostRows`, and who is about to get a row
under a key has none. A row rings a
token once because what was rung and what is still to ring (`ToRing`) are together no
more than the rows there are (`RingInv`). `HearingInv`: the columns a pending save
will write, merged into the row as it is, make a row that is active unless there is
a reason; that is false when a token is pruned between the read and the write, which
`SavesOverlap` allows.

**Service access.** `OrderInv`: what a booking under way has found out still holds
(`StillFound`), unless a decision was saved meanwhile, and its listing, which it has
locked, is open.

**Polls and posts.** One ballot at most has read a poll and holds its row, so the
tallies it will write are those stored (`BallotInv`); a vote cast or moved changes
the cardinalities as it changes the tallies. A like that is being taken back is
there and taken back once (`LikesInv`), so each counter moves with its rows, whichever
request of a deadlock is rolled back.

**Reviews.** One request at most holds a listing, and what it saw of the bookings of
that listing stands until a review is deleted (`SeenStands`): reviews of other
listings, which the snapshot misses, are not in its count. A booking whose review was
in the snapshot gets no second one.

**Photos.** `Balanced` says for each step of the one request under way what is left
between the rows and their copy: before the copy is filled it is what the request
carries, after the rows are written nothing. A request that dies in between is
noted in `torn`, and the next one that goes through writes all rows or copies all.

**Documents.** `VersionInv`: a name is of one version, filed or on its way, and an
upload has read the name of a filed one; its own is therefore different, Sequelize
saves the name as well as the file, and the row names the version it shows. That what a
list shows may be opened is a lemma on the two conditions (`ListIsReadable`).

**Locations.** `SiblingInv`: what a curator is about to write has no namesake among the
places a check has passed but the one it replaces. A row from a file joins those not
when it is inserted but when a curator changes it, after the check. `ImportSound`: one confirmation at most is under way, its batch is
marked, and the rows it is to write are those still pending (`MarkedWell`); a row that is
pending was inserted by nobody, and a batch that was never run in parts is wholly
pending or wholly imported (`RowsWell`).

**Suites.** `PlatformRunsParts`, `SocietyRunsParts` and `DeliveryRunsParts`: a run of a
suite is a run of each of its parts, for the parts that do not run stay in an initial
state. What is proved of a part holds in the suite.

**Only model-checked.** Liveness: `AcceptedJobFinishes`, `RepairedWhenQuiet`,
`AttendeesReturn`, `RequestsEnd`, `PresenceConverges`, `CachesConverge`. They depend
on fairness and so on ENABLED, which TLAPS does not handle here. Their parts
`Permissions`, `LocationLookups` and `Presence` promise nothing but convergence and
have no theorem; `Complaints` and `SocietyMembers` are there for what they violate
(section 5). Every invariant and every action property of the passing runs, and the refinement of
the outbox, has a theorem. No module uses RECURSIVE operators or needs induction over
data, which are out of reach of the prover.

## 5. Where the code departs from what it says

Five disagreements have a run of their own (`findings` in `PROJECT.json`).

* `booking_double`: the audit document says rescheduling is covered by row locks;
  it takes none, and two reschedules to one slot both succeed.
* `set_default`: setting a default clears the flags with a bulk update and then
  saves the instance read before. When that address was the default already,
  Sequelize sees no change, writes nothing, and the user has none.
* `last_admin`: the last admin must not be demoted, deactivated or removed. An
  update and a removal each lock their own member's row and count the admins in
  their snapshot: while one admin is removed the other is deactivated, each is
  counted by the other's transaction, and none is left. Two demotions at once end
  the same way only when the society's outbox key was taken before they began;
  otherwise the second fails on the key. An admin's row may also be overwritten
  by `createMember`, or rejected by `approveMember`, which count nothing: the run
  leaves these out (`Uncounted = FALSE`).
* `lists_cleared`: after an edit the cached lists are invalidated by patterns that
  begin with the default key prefix, as if the client had not put it in front
  already; no key matches, and the old lists are served until they expire.
* `own_tasks`: the worker transitions of a complaint are for its assignee. The
  route compares the assignee with a row read without a lock, the service then
  asks for the order of the states only: reassigned in between, the complaint is
  accepted by the worker it was taken from.

Others are stated at the end of the modules, each with the sentence of the code
it comes from. No run lists them; TLC refutes each on an instance of the size of
the runs, with the condition given here.

| Property | Condition | What happens |
|---|---|---|
| `PendingIsPolled` | fairness | the model of the table says a worker polls for pending rows; it looks once, when it starts |
| `NoLostEvent` (outbox) | 2 restarts, no faults | two crashes during one job: BullMQ gives up, the row stays processing, no sweep selects it |
| `MessageWasBroadcast` | | the worker passes no broadcast function to the handler and publishes the row |
| `DeliveredAtLeastOnce` | handler faults | `emitNotification` swallows its error and the row is published |
| `PublishedIsFinal` | read faults, 1 restart | a re-run job whose reads fail until the last attempt marks a published row failed |
| `NoOverbooking`, `CountersExact` | `MaxLegacy = 1` | a legacy endpoint writes the row alone |
| `RepairRepairs` | `MaxLegacy = 1` | an answer between the two statements of the script is overwritten |
| `EveryChangeRecorded` | `MaxLegacy = 0` | the second change of an event's RSVPs finds the outbox key taken and is not recorded |
| `OneChat` | two chats, `Overlap` | "find existing Chat or create" is two statements with no unique key |
| `DeclinersHearNothing` | `Overlap = FALSE` | an RSVP becomes declined; the socket stays in the room |
| `UpdatesKeepMembers` | `Overlap = FALSE`, `MaxEditing = 1` | an update evicts all members, with the reason "event_deleted" |
| `RevokedStayOut` | `Overlap = TRUE` | a socket that was being checked joins after the revocation |
| `WholeReschedule` | `SlotOnly = TRUE` | a `time_slot` without `scheduled_at` moves `occupied_until` only |
| `OfferedIsBookable` | `ListingCapacity = 0`, `ProviderCapacity = 2` | slots are offered by the provider's capacity and booked by the listing's |
| `CompletedWithPin` | one request at a time | complete accepts `on_the_way`; start, which asks for the PIN, is skipped |
| `CompletedIsFinal` | one request at a time | schedule checks no status |
| `NoCancelInTransit`, `JobsAreBookings` | `Clash = {"booking"}` | the status checked is older than the departure; two completions count twice |
| `CompletedIsCounted` | `MayAbort = TRUE` | the increment is a statement of its own |
| `PreviewIsNewest` | two messages | commits out of the order of the ids leave the older message in the preview; one an administrator removed stays there with its soft-deleted text |
| `NoDuplicates` | an event of a document | "the same event cannot produce duplicate notifications for the same recipient": one run writes a row under the key and `emitNotification` a second without |
| `UnreadFloor`, `BadgeMatches` | two messages | the badge is lowered by what a snapshot said before all was marked read; reading a message twice, or marking all read while another arrives, leaves it wrong |
| `LogoutEnds` | a refresh in flight | it replaces the token the log-out has read |
| `OneUsableCode` | two requests | each rejects the codes before and creates its own |
| `OnlyUnbanLifts` | | a request or an invitation older than the ban is approved after it |
| `BansHold`, `FormersAreOut`, `ListenersBelong` | `Interleaved = TRUE` | a request to join, or to hear the chat, was checked before the ban or the departure |
| `ChatHasAdmin`, `SeatsFollowRoles` | | who leaves the chat is counted among its admins still, so nobody is promoted; chat admins seat people and change their roles without regard to the community |
| `RepairsOnlyDrift` | the script runs | it writes counts older than the likes that follow |
| `ProviderCountExact` | two listings | two reviews of one provider each count without the other |
| `ListedInVettedTrade` | | the provider changes his category, stays verified, and lists in one he was never vetted in |
| `AllListedVetted` | | an administrator creates a listing for any provider, verified or not |
| `VerifiedIsComplete`, `VerifiedWasVetted` | | nothing takes a verification back when its documents lapse; setting up a profile can set the flag |
| `PhotosMatch` | two clients | each counts, inserts and copies what the other has not yet written |
| `StrictLifecycle` | two decisions | each saves a status decided on what it read before the other |
| `FilesMatchVersions` | `NamesReused = TRUE` | an upload under the name the row had when it was read saves the file but not the name, which another upload has changed; two files may have one name |
| `AllocatedSlots`, `BaysAreFreed` | | a status saved by what was read before the allocation; a check-out leaves the slot as it is |
| `InactiveAreOff` | | a guard who is no longer active keeps his duty |
| `BarredHaveNoRight`, `OneRowEach` | `AddsTwice = TRUE` | two additions of one user write two rows; suspending one leaves the other |
| `SiblingsDiffer` | one curator and one file, or two files | a place is staged as an insert, a curator adds one of that name or another file does, and the confirmation creates it without looking again; two cities of one name with different LGD codes do so from one file |
| `CuratedSiblingsDiffer` | two curators | each checks the name before the other's row is there |
| `CitiesFollowDistricts` | | a district moves to another state, its cities stay; an import finds the district of a city by its code, in whichever state |
| `FlagFollowsSockets` | two sockets | `is_online` is cleared by what was counted before a new socket |

Found on the way, without a property of their own: `createEvent` of the outbox,
when the key is taken, looks for the row in the snapshot of the transaction, so the
whole domain transaction can fail; `changePassword` revokes no refresh token; the
import's lock is in the memory of one server, so two servers may run one batch at once
(`ImportsSound` is for one), and a crash leaves its batch `IMPORTING`; `createMember` by an existing admin rewrites a row to pending;
`checkDocumentExpirationsAndReminders` is called by nothing.

## 6. Abstractions

Payloads, texts, notification contents, logging and metrics are left out.
Administrators of the platform, who pass the checks of RSVPs, chats and
communities, are left out; an administrator matters to the cancellation of a
booking and is there. Bookings are those of one provider and one listing; in
`ServiceBooking` coverage, governance, KYC and the access of societies only reject
requests and are left out, in `ServiceAccess` and `ProviderVetting` they are the
subject and times are left out. `ProviderVetting` keeps the category the provider is
in; what he finds when he changes to another is arbitrary, and he does not change
between the reads of a verification. Geography is abstract: an area covers a customer or
does not.
In `LocationAdmin` each row of a file is staged and confirmed on its own; rows are
never deleted. In `Messages` a message stays in its chat. `Notifications` has each user
once among the recipients; the tables of members have no unique index, and a user with
two active rows would be told twice by one run.
MySQL runs at its default isolation. A deadlock victim is a request that did
nothing. Redis is modelled as far as BullMQ, the caches and presence rely on it;
loss of Redis data is not. Bounds on what may happen how often (`MaxLegacy`,
`MaxAdded`, `MaxRestarts`, `MaxChanges`, `MaxEdits`, `MaxErrors`, `MaxDecisions`,
`MaxRows`, `MaxJobs`, `Last…`) are constants that guard the action they count.

**Not modelled.** Follows and the feed, announcements, facilities, emergency
contacts, the business directory and advertising, resident documents, the CRUD of
notifications and their e-mails, private and group chats beyond what
`CommunityMembership` and `EventChat` share with them, availability and packages of
listings, event invitations, the rate limiter, complaint masters, media, the audit
log, administration, scripts and migrations. Most of
this is validation, queries, formatting and single rows that any request
overwrites, where a model would restate the statements; what has a life of its own
is in the plan. For the same reason a large share of the lines of the modelled
components (routes, validation, projections, search) stands for nothing in the
models.

## 7. Plan

In this order:

1. `EventInvitations` on `EventRsvp`: the acceptance commits before the answer that
   may be refused.
2. The rate limiter; follows; announcements.
3. Proofs of what `Complaints`, `SocietyMembers` and the caches keep in every state, beside
   what they violate and where they converge.
