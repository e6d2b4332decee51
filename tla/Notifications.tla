---------------------------- MODULE Notifications ----------------------------
(***************************************************************************)
(* What a handler of the outbox tells the users: the notification rows of  *)
(* one event (outbox.processor.js, notification.service.js,                *)
(* society_document_notification.service.js), their pushes                 *)
(* (push.service.js) and the devices the pushes go to                      *)
(* (user_device.service.js).                                               *)
(*                                                                         *)
(* A handler reads its recipients and then works on each; the push of a    *)
(* row is not waited for.  The worker may die and run the handler again.   *)
(* A save of a device writes the columns that differ from what it read.    *)
(* FCM is external: a token dies and stays dead.                           *)
(***************************************************************************)
EXTENDS Integers

CONSTANTS
  Members,       \* users who may be told
  Actor,         \* the user whose act the event is
  Devices,       \* pairs of a user and an id of a device of his
  PushTokens,
  EventKinds,    \* kinds of events: see kindOfEvent
  MaxRuns,       \* bound: runs of the handler
  MaxRows,       \* bound: rows without a key of one user
  MaxSaves,      \* bound: registrations and deactivations of devices, one at a time
  SavesOverlap   \* a device may be saved while a token is pruned

ASSUME NotificationAssumption ==
  /\ Actor \in Members /\ \A d \in Devices : d[1] \in Members
  /\ MaxRuns \in Nat \ {0} /\ MaxRows \in Nat \ {0} /\ MaxSaves \in Nat /\ SavesOverlap \in BOOLEAN
  /\ EventKinds \subseteq {"document", "members", "complaint", "broadcast"}

VARIABLES
  kindOfEvent,   \* of a document, to members, a complaint assigned, or a broadcast
  runs,          \* runs of the handler
  published,     \* the event is done
  todo,          \* what the run has left to do for each user
  keyedRows,     \* notification rows with the idempotency key, of each user
  plainRows,     \* notification rows without
  pushing,       \* pushes on their way
  rung,          \* times each token was rung for each user
  device,        \* rows of user_devices
  saving,        \* the save of a device on its way
  saves,         \* saves begun
  dead           \* tokens FCM knows no more

notifyVars == <<kindOfEvent, runs, published, todo, keyedRows, plainRows, pushing,
                rung, device, saving, saves, dead>>
pushVars == <<pushing, rung>>
handlerVars == <<kindOfEvent, runs, published, todo, keyedRows, plainRows>>
deviceVars == <<device, saving, saves, dead>>

NoDevice == [token |-> "none", active |-> FALSE, why |-> "none"]
Saved == [token : PushTokens, active : BOOLEAN, why : {"none", "invalid", "moved", "user"}]
Columns == {"token", "active", "why"}
NoSave == [step |-> "idle"]
Push == [user : Members, row : 1..MaxRows, loaded : BOOLEAN, left : SUBSET PushTokens,
         refused : SUBSET PushTokens]

NotifyTypeOK ==
  /\ kindOfEvent \in EventKinds /\ runs \in 0..MaxRuns /\ published \in BOOLEAN
  /\ todo \in [Members -> {"nothing", "find", "key", "emit", "later", "twice"}]
  /\ keyedRows \in [Members -> 0..MaxRuns] /\ plainRows \in [Members -> 0..MaxRows]
  /\ pushing \subseteq Push /\ rung \in [Members \X PushTokens -> Nat]
  /\ device \in [Devices -> Saved \cup {NoDevice}]
  /\ saving # NoSave => /\ saving.of \in Devices
                        /\ \/ saving.step = "save" /\ DOMAIN saving.write \subseteq Columns
                           \/ saving.step \in {"move", "create"} /\ saving.token \in PushTokens
  /\ saves \in 0..MaxSaves /\ dead \subseteq PushTokens

NotifyInit ==
  /\ kindOfEvent \in EventKinds /\ runs = 0 /\ published = FALSE
  /\ todo = [u \in Members |-> "nothing"]
  /\ keyedRows = [u \in Members |-> 0] /\ plainRows = [u \in Members |-> 0]
  /\ pushing = {} /\ rung = [x \in Members \X PushTokens |-> 0]
  /\ device = [d \in Devices |-> NoDevice]
  /\ saving = NoSave /\ saves = 0 /\ dead = {}

-----------------------------------------------------------------------------
(* The handler.                                                            *)

Then(u, what) == todo' = [todo EXCEPT ![u] = what]
Resting == \A u \in Members : todo[u] = "nothing"

(* A broadcast is a request: it is neither recorded nor run again. *)
MayRun == ~published /\ runs < (IF kindOfEvent = "broadcast" THEN 1 ELSE MaxRuns)

(* The admins, the members or the users an event is about, less whom a broadcast
   finds unwilling: rows that change elsewhere, so another run may read others.  A
   member has one row of membership. *)
Recipients == SUBSET Members

(* Who a complaint is given to, and then who raised it; they may be one, who is
   told of both. *)
Assignment(assigned, raised) ==
  [u \in Members |-> CASE u \in assigned \cap raised -> "twice"
                      [] u \in assigned \ raised -> "emit"
                      [] u \in raised \ assigned -> "later"
                      [] OTHER -> "nothing"]

AtMostOne == {{}} \cup {{u} : u \in Members}

(* handleSocietyEvent: those of a document one by one, the others all at once. *)
FirstStep == IF kindOfEvent = "document" THEN "find" ELSE "emit"

ResolveRecipients ==
  /\ Resting /\ MayRun
  /\ runs' = runs + 1
  /\ IF kindOfEvent = "complaint"
     THEN \E assigned, raised \in AtMostOne : todo' = Assignment(assigned, raised)
     ELSE \E told \in Recipients :
            todo' = [u \in Members |-> IF u \in told THEN FirstStep ELSE "nothing"]
  /\ UNCHANGED <<kindOfEvent, published, keyedRows, plainRows, pushVars, deviceVars>>

(* dispatchDocumentNotification works on one recipient after the other. *)
Turn(u) == kindOfEvent = "document" => \A v \in Members \ {u} : todo[v] \in {"nothing", "find"}

(* Variant: the key is not looked for. *)
SkipKeyed(u) ==
  /\ todo[u] = "find" /\ Turn(u)
  /\ Then(u, "key")
  /\ UNCHANGED <<kindOfEvent, runs, published, keyedRows, plainRows, pushVars, deviceVars>>

(* A row with the key of event and recipient: this one was told. *)
FindKeyed(u) ==
  /\ todo[u] = "find" /\ Turn(u)
  /\ Then(u, IF keyedRows[u] = 0 THEN "key" ELSE "nothing")
  /\ UNCHANGED <<kindOfEvent, runs, published, keyedRows, plainRows, pushVars, deviceVars>>

(* The row with the key is created, whatever the recipient wants. *)
CreateKeyed(u) ==
  /\ todo[u] = "key"
  /\ keyedRows' = [keyedRows EXCEPT ![u] = @ + 1]
  /\ Then(u, "emit")
  /\ UNCHANGED <<kindOfEvent, runs, published, plainRows, pushVars, deviceVars>>

(* The one who raised a complaint is told when its new owner has been. *)
Due(u) ==
  \/ todo[u] \in {"emit", "twice"}
  \/ todo[u] = "later" /\ \A v \in Members : todo[v] \in {"nothing", "later"}

Emitted(u) == Then(u, IF todo[u] = "twice" THEN "emit" ELSE "nothing")

BeginPush(u) == [user |-> u, row |-> plainRows'[u], loaded |-> FALSE,
                 left |-> {}, refused |-> {}]

(* emitNotification: nobody hears of his own act; the row is inserted and its push
   begins. *)
InsertRow(u) ==
  /\ Due(u) /\ kindOfEvent # "broadcast" /\ u # Actor
  /\ plainRows[u] < MaxRows  \* bound
  /\ plainRows' = [plainRows EXCEPT ![u] = @ + 1]
  /\ Emitted(u)
  /\ pushing' = pushing \cup {BeginPush(u)}
  /\ UNCHANGED <<kindOfEvent, runs, published, keyedRows, rung, deviceVars>>

(* createNotification finds a preference of provider or resident against it and
   creates nothing, or emitNotification fails and swallows its error. *)
EmitNothing(u) ==
  /\ Due(u) /\ kindOfEvent # "broadcast"
  /\ Emitted(u)
  /\ UNCHANGED <<kindOfEvent, runs, published, keyedRows, plainRows, pushVars, deviceVars>>

(* The rows of a broadcast come in one statement. *)
InsertBroadcast ==
  /\ kindOfEvent = "broadcast" /\ ~Resting
  /\ plainRows' = [u \in Members |-> IF todo[u] = "emit" THEN 1 ELSE plainRows[u]]
  /\ pushing' = {BeginPush(u) : u \in {v \in Members : todo[v] = "emit"}}
  /\ todo' = [u \in Members |-> "nothing"]
  /\ UNCHANGED <<kindOfEvent, runs, published, keyedRows, rung, deviceVars>>

(* Any other error of a dispatch ends it and is swallowed by its handler: those left
   hear nothing. *)
DispatchFails ==
  /\ \E u \in Members : todo[u] \in {"find", "key"}
  /\ todo' = [u \in Members |-> "nothing"]
  /\ UNCHANGED <<kindOfEvent, runs, published, keyedRows, plainRows, pushVars, deviceVars>>

(* The handler is through with everybody; the event is marked as published. *)
Publish ==
  /\ runs > 0 /\ Resting /\ ~published
  /\ published' = TRUE
  /\ UNCHANGED <<kindOfEvent, runs, todo, keyedRows, plainRows, pushVars, deviceVars>>

(* The process dies with its run and its pushes; the job will be taken up again. *)
Die ==
  /\ ~Resting \/ pushing # {}
  /\ todo' = [u \in Members |-> "nothing"] /\ pushing' = {}
  /\ UNCHANGED <<kindOfEvent, runs, published, keyedRows, plainRows, rung, deviceVars>>

-----------------------------------------------------------------------------
(* The pushes: sendToUser, sendToDevices, sendToDevice.                    *)

ActiveTokens(u) ==
  {device[d].token : d \in {x \in Devices : x[1] = u /\ device[x].active}}

(* The tokens of the active devices, each once. *)
LoadDevices(x) ==
  /\ x \in pushing /\ ~x.loaded
  /\ pushing' = (pushing \ {x}) \cup
       (IF ActiveTokens(x.user) = {} THEN {}
        ELSE {[x EXCEPT !.loaded = TRUE, !.left = ActiveTokens(x.user)]})
  /\ UNCHANGED <<handlerVars, rung, deviceVars>>

Without(x, t) == IF x.left = {t} THEN {} ELSE {[x EXCEPT !.left = @ \ {t}]}

(* One token after the other: FCM takes the message, ... *)
SendToDevice(x, t) ==
  /\ x \in pushing /\ x.refused = {} /\ t \in x.left \ dead
  /\ rung' = [rung EXCEPT ![<<x.user, t>>] = @ + 1]
  /\ pushing' = (pushing \ {x}) \cup Without(x, t)
  /\ UNCHANGED <<handlerVars, deviceVars>>

(* ... fails for now, which nobody repeats, ... *)
SendFails(x, t) ==
  /\ x \in pushing /\ x.refused = {} /\ t \in x.left
  /\ pushing' = (pushing \ {x}) \cup Without(x, t)
  /\ UNCHANGED <<handlerVars, rung, deviceVars>>

(* ... or does not know the token, ... *)
TokenRefused(x, t) ==
  /\ x \in pushing /\ x.refused = {} /\ t \in x.left \cap dead
  /\ pushing' = (pushing \ {x}) \cup {[x EXCEPT !.refused = {t}]}
  /\ UNCHANGED <<handlerVars, rung, deviceVars>>

(* ... and its devices are deactivated: deactivateByPushToken. *)
Deactivated(t, row) ==
  IF row.token = t /\ row.active THEN [row EXCEPT !.active = FALSE, !.why = "invalid"] ELSE row

DeactivateByPushToken(x, t) ==
  /\ x \in pushing /\ t \in x.refused
  /\ SavesOverlap \/ saving = NoSave
  /\ device' = [d \in Devices |-> Deactivated(t, device[d])]
  /\ pushing' = (pushing \ {x}) \cup Without([x EXCEPT !.refused = {}], t)
  /\ UNCHANGED <<handlerVars, rung, saving, saves, dead>>

TokenDies(t) ==
  /\ t \notin dead /\ dead' = dead \cup {t}
  /\ UNCHANGED <<handlerVars, pushVars, device, saving, saves>>

-----------------------------------------------------------------------------
(* The devices.                                                            *)

Differing(row, wanted) == [c \in {k \in Columns : row[k] # wanted[k]} |-> wanted[c]]

BeginSave(save) ==
  /\ saving = NoSave /\ saves < MaxSaves
  /\ saving' = save /\ saves' = saves + 1
  /\ UNCHANGED <<handlerVars, pushVars, device, dead>>

(* registerDevice and updateDeviceToken of a device that is there. *)
ReadToRegister(d, t) ==
  /\ device[d] # NoDevice /\ t \notin dead
  /\ BeginSave([of |-> d, step |-> "save", write |->
       Differing(device[d], [token |-> t, active |-> TRUE, why |-> "none"])])

(* deactivateDevice, by its user. *)
ReadToDeactivate(d) ==
  /\ device[d] # NoDevice
  /\ BeginSave([of |-> d, step |-> "save", write |->
       Differing(device[d], [device[d] EXCEPT !.active = FALSE, !.why = "user"])])

SaveDevice(d) ==
  /\ saving.step = "save" /\ saving.of = d
  /\ LET w == saving.write IN
     device' = [device EXCEPT ![d] = IF @ = NoDevice THEN @ ELSE
                  [c \in Columns |-> IF c \in DOMAIN w THEN w[c] ELSE @[c]]]
  /\ saving' = NoSave
  /\ UNCHANGED <<handlerVars, pushVars, saves, dead>>

(* registerDevice of a new one: the token leaves the user's other devices, ... *)
Register(d, t) ==
  /\ device[d] = NoDevice /\ t \notin dead
  /\ BeginSave([of |-> d, step |-> "move", token |-> t])

MoveToken(d) ==
  /\ saving.step = "move" /\ saving.of = d
  /\ device' = [x \in Devices |->
       IF x[1] = d[1] /\ x # d /\ device[x].active /\ device[x].token = saving.token
       THEN [device[x] EXCEPT !.active = FALSE, !.why = "moved"] ELSE device[x]]
  /\ saving' = [saving EXCEPT !.step = "create"]
  /\ UNCHANGED <<handlerVars, pushVars, saves, dead>>

(* ... then the row is created. *)
CreateDevice(d) ==
  /\ saving.step = "create" /\ saving.of = d
  /\ device' = [device EXCEPT ![d] = [token |-> saving.token, active |-> TRUE, why |-> "none"]]
  /\ saving' = NoSave
  /\ UNCHANGED <<handlerVars, pushVars, saves, dead>>

RemoveDevice(d) ==
  /\ device[d] # NoDevice /\ device' = [device EXCEPT ![d] = NoDevice]
  /\ UNCHANGED <<handlerVars, pushVars, saving, saves, dead>>

-----------------------------------------------------------------------------
NotifyNext ==
  \/ ResolveRecipients \/ InsertBroadcast \/ DispatchFails \/ Publish \/ Die
  \/ \E u \in Members :
       FindKeyed(u) \/ CreateKeyed(u) \/ InsertRow(u) \/ EmitNothing(u)
  \/ \E x \in pushing :
       \/ LoadDevices(x)
       \/ \E t \in PushTokens : \/ SendToDevice(x, t) \/ SendFails(x, t) \/ TokenRefused(x, t)
                                \/ DeactivateByPushToken(x, t)
  \/ \E t \in PushTokens : TokenDies(t)
  \/ \E d \in Devices :
       \/ \E t \in PushTokens : ReadToRegister(d, t) \/ Register(d, t)
       \/ ReadToDeactivate(d) \/ SaveDevice(d) \/ MoveToken(d) \/ CreateDevice(d)
       \/ RemoveDevice(d)

NotifySpec == NotifyInit /\ [][NotifyNext]_notifyVars

-----------------------------------------------------------------------------
(* However often the handler dies and runs: one keyed row of an event for each
   user, and of an event of a document one other with it; of the other events as
   many as its handler emits in each run, which is two for a complaint raised by
   its assignee; none for the author of the event, but of a broadcast. *)
MostRows(u) ==
  CASE kindOfEvent = "document" -> keyedRows[u]
    [] kindOfEvent = "complaint" -> 2 * runs
    [] OTHER -> runs

RowsPerRun ==
  \A u \in Members :
    /\ keyedRows[u] <= 1 /\ plainRows[u] <= MostRows(u)
    /\ u = Actor /\ kindOfEvent # "broadcast" => plainRows[u] = 0

(* What the code does not keep.  society_document_notification.service.js: "the
   same event cannot produce duplicate notifications for the same recipient";
   CreateKeyed and InsertRow make two rows in one run. *)
NoDuplicates ==
  kindOfEvent = "document" => \A u \in Members : keyedRows[u] + plainRows[u] <= 1

(* A row rings a phone once at most, whatever devices share its token. *)
RingsHaveRows == \A u \in Members, t \in PushTokens : rung[<<u, t>>] <= plainRows[u]

(* Only a dead token, its user or its move to another device makes a device
   inactive, so a live one hears.  Needs ~SavesOverlap: a token saved while the
   one before it is pruned finds the device active and leaves it inactive. *)
LiveTokensHear ==
  \A d \in Devices :
    /\ device[d].active <=> device[d] # NoDevice /\ device[d].why = "none"
    /\ device[d].why = "invalid" => device[d].token \in dead

NotificationsSound == RowsPerRun /\ RingsHaveRows /\ LiveTokensHear
=============================================================================
