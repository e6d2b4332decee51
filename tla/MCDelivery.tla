------------------------------ MODULE MCDelivery ------------------------------
(***************************************************************************)
(* One run for three components that share no state: the outbox pipeline,  *)
(* the messages of a chat, and the notifications of an event with the      *)
(* pushes and devices they need.  `part` is the one that runs; the others  *)
(* stay in an initial state.                                               *)
(***************************************************************************)
EXTENDS OutboxPipeline, Messages, Notifications, TLC

CONSTANT Phones   \* ids of devices, the same for every user

(* The actor hears nothing but broadcasts; the others have every phone. *)
PhonesOfOthers == (Members \ {Actor}) \X Phones

VARIABLE part

deliveryVars == <<part, vars, messageVars, notifyVars>>

MessagesRest == author = [m \in Sent |-> CHOOSE u \in Participants : TRUE] /\ MessageInit

NotifyRests == kindOfEvent = (CHOOSE k \in EventKinds : TRUE) /\ NotifyInit

DeliveryInit ==
  \/ part = "outbox" /\ Init /\ MessagesRest /\ NotifyRests
  \/ part = "messages" /\ Init /\ MessageInit /\ NotifyRests
  \/ part = "notify" /\ Init /\ MessagesRest /\ NotifyInit

DeliveryNext ==
  /\ UNCHANGED part
  /\ \/ part = "outbox" /\ Next /\ UNCHANGED <<messageVars, notifyVars>>
     \/ part = "messages" /\ MessageNext /\ UNCHANGED <<vars, notifyVars>>
     \/ part = "notify" /\ NotifyNext /\ UNCHANGED <<vars, messageVars>>

DeliveryRun == DeliveryInit /\ [][DeliveryNext]_deliveryVars

(* The slots of the worker are interchangeable, and so are the tokens. *)
DeliverySymmetry ==
  Permutations(Slots) \cup Permutations(PushTokens)

(* What users are told of: the preview of a chat follows what is sent to it and
   deleted for everyone (message service), and notifications are sound: those a
   user has of one event are bounded by its kind and the runs of its handler, a push
   needs a row, a live token hears. *)
TellingSound == NotifyTypeOK /\ PreviewFollows /\ NotificationsSound
=============================================================================
