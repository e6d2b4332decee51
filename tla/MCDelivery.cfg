\* The outbox: a message, a post event and an event of an unregistered type;
\* crashes, restarts, retries, evictions; database accesses work, handlers may
\* throw.
\* Two messages of a chat of two.  Notifications to the actor and another member, who
\* has two phones and two tokens; two runs of the handler, three saves of devices.
CONSTANTS
  N = 3
  Messages = {1}
  Handled = {1, 2}
  Slots = {s1, s2}
  MaxAttempts = 2
  MaxStalls = 1
  Batch = 1
  MaxRestarts = 2
  Faults = {"handler"}
  LiveStalls = FALSE
  LastSent = 2
  Participants = {m1, m2}
  Members = {actor, other}
  Actor = actor
  Phones = {p1, p2}
  Devices <- PhonesOfOthers
  PushTokens = {k1, k2}
  EventKinds = {"document", "members", "complaint", "broadcast"}
  MaxRuns = 2
  MaxRows = 3
  MaxSaves = 2
  SavesOverlap = FALSE
SYMMETRY DeliverySymmetry
SPECIFICATION DeliveryRun
INVARIANTS ExclusiveProcessing CompletedMeansSettled NoStrandedRow TellingSound
PROPERTIES NoRerunAfterPublish DeliverySpec
CHECK_DEADLOCK FALSE
