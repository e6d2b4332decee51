------------------------------- MODULE Presence -------------------------------
(***************************************************************************)
(* Whether a user is online (infrastructure/presence/presence.js, the      *)
(* connections of socket.js): the room of his sockets, the heartbeat key   *)
(* in Redis with its time to live and is_online of his profile.            *)
(*                                                                         *)
(* Handlers of several sockets, on one process or on several, interleave   *)
(* at every await.  A heartbeat comes before the key expires.              *)
(***************************************************************************)
EXTENDS Naturals

CONSTANTS
  Sockets,  \* bound: sockets of the user at once
  MaxErrors \* bound: failures to ask the other processes for their sockets

ASSUME PresenceAssumption == MaxErrors \in Nat

VARIABLES
  inRoom,   \* sockets in the room of the user
  coming,   \* coming[s]: the next step of markUserOnline for a socket
  parting,  \* parting[s]: the next step after the disconnection of a socket
  beat,     \* the key is in Redis
  isOnline, \* the column
  errors    \* failures so far

handlerVars == <<coming, parting>>
presenceVars == <<inRoom, handlerVars, beat, isOnline, errors>>

PresenceTypeOK ==
  /\ inRoom \subseteq Sockets
  /\ coming \in [Sockets -> {"done", "key", "profile"}]
  /\ parting \in [Sockets -> {"done", "count", "touch", "key", "profile"}]
  /\ beat \in BOOLEAN /\ isOnline \in BOOLEAN /\ errors \in 0..MaxErrors

PresenceInit ==
  /\ inRoom = {} /\ beat = FALSE /\ isOnline \in BOOLEAN /\ errors = 0
  /\ coming = [s \in Sockets |-> "done"] /\ parting = [s \in Sockets |-> "done"]

Comes(s, step) == coming' = [coming EXCEPT ![s] = step]
Parts(s, step) == parting' = [parting EXCEPT ![s] = step]

-----------------------------------------------------------------------------
Connect(s) ==
  /\ s \notin inRoom /\ coming[s] = "done" /\ parting[s] = "done"
  /\ inRoom' = inRoom \cup {s} /\ Comes(s, "key")
  /\ UNCHANGED <<parting, beat, isOnline, errors>>

(* markUserOnline *)
MarkKey(s) ==
  /\ coming[s] = "key" /\ Comes(s, "profile") /\ beat' = TRUE
  /\ UNCHANGED <<inRoom, parting, isOnline, errors>>

MarkProfile(s) ==
  /\ coming[s] = "profile" /\ Comes(s, "done") /\ isOnline' = TRUE
  /\ UNCHANGED <<inRoom, parting, beat, errors>>

(* touchUserPresence, by the heartbeat or at the request of the client. *)
Touch(s) ==
  /\ s \in inRoom /\ beat' = TRUE
  /\ UNCHANGED <<inRoom, handlerVars, isOnline, errors>>

(* The end of a socket also ends its heartbeat and its membership of the room. *)
Disconnect(s) ==
  /\ s \in inRoom /\ inRoom' = inRoom \ {s} /\ Parts(s, "count")
  /\ UNCHANGED <<coming, beat, isOnline, errors>>

(* Variant: the sockets of this process only, as in userSocketsMap. *)
CountHere(s) ==
  /\ parting[s] = "count" /\ coming[s] = "done"
  /\ Parts(s, "key")
  /\ UNCHANGED <<inRoom, coming, beat, isOnline, errors>>

(* handleUserSocketDisconnect, once the socket has been marked online; a failure
   to ask counts as no socket. *)
CountSockets(s) ==
  /\ parting[s] = "count" /\ coming[s] = "done"
  /\ \/ Parts(s, IF inRoom # {} THEN "touch" ELSE "key") /\ UNCHANGED errors
     \/ errors < MaxErrors /\ errors' = errors + 1 /\ Parts(s, "key")
  /\ UNCHANGED <<inRoom, coming, beat, isOnline>>

TouchForOthers(s) ==
  /\ parting[s] = "touch" /\ Parts(s, "done") /\ beat' = TRUE
  /\ UNCHANGED <<inRoom, coming, isOnline, errors>>

DeleteKey(s) ==
  /\ parting[s] = "key" /\ Parts(s, "profile") /\ beat' = FALSE
  /\ UNCHANGED <<inRoom, coming, isOnline, errors>>

MarkOffline(s) ==
  /\ parting[s] = "profile" /\ Parts(s, "done") /\ isOnline' = FALSE
  /\ UNCHANGED <<inRoom, coming, beat, errors>>

(* The process of a socket ends. *)
Vanish(s) ==
  /\ s \in inRoom \/ coming[s] # "done" \/ parting[s] # "done"
  /\ inRoom' = inRoom \ {s} /\ Comes(s, "done") /\ Parts(s, "done")
  /\ UNCHANGED <<beat, isOnline, errors>>

(* Nobody's heartbeat has come for PRESENCE_TTL_SECONDS. *)
ExpireKey ==
  /\ inRoom = {} /\ beat' = FALSE
  /\ UNCHANGED <<inRoom, handlerVars, isOnline, errors>>

Handler(s) ==
  MarkKey(s) \/ MarkProfile(s) \/ CountSockets(s) \/ TouchForOthers(s) \/ DeleteKey(s)
    \/ MarkOffline(s)

PresenceNext ==
  \/ \E s \in Sockets : Connect(s) \/ Disconnect(s) \/ Handler(s) \/ Touch(s) \/ Vanish(s)
  \/ ExpireKey

PresenceSpec == PresenceInit /\ [][PresenceNext]_presenceVars

(* Handlers go on unless their process ends, heartbeats come, keys expire. *)
PresenceFairness ==
  /\ \A s \in Sockets : WF_presenceVars(Handler(s)) /\ WF_presenceVars(Touch(s))
  /\ WF_presenceVars(ExpireKey)

FairPresenceSpec == PresenceSpec /\ PresenceFairness

-----------------------------------------------------------------------------
(* getOnlineFlagsForPush; is_online counts only without Redis. *)
OnlineForPush == beat

(* Who stays connected comes to be online for good and who stays away offline,
   however the handlers of sockets that come and go delete, touch and count. *)
PresenceConverges ==
  /\ \A s \in Sockets : <>[](s \in inRoom) => <>[]OnlineForPush
  /\ <>[](inRoom = {}) => <>[]~OnlineForPush

(* presence.js: "updates UserProfile.is_online only when cluster-wide sockets go
   idle". *)
FlagFollowsSockets ==
  (\A s \in Sockets : coming[s] = "done" /\ parting[s] = "done") /\ inRoom # {} => isOnline
=============================================================================
