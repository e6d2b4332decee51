\* One legacy write and repairs that race with answers; two processes, one
\* lookup, two changes of the grants; two processes, one lookup of the PIN codes
\* and two edits; two sockets; a message and an event of an unregistered type with
\* every kind of fault, jobs taken over from a slot that runs them, one restart.
CONSTANTS
  Users = {owner, u1}
  Creator = owner
  Allowed = {owner, u1}
  Caps = {0}
  MaxLegacy = 1
  Processes = {p1, p2}
  Lookups = {k1}
  MaxChanges = 2
  Nodes = {p1, p2}
  Lists = {"localities", "pincodes"}
  Edited = {"CITY", "PINCODE"}
  Queries = {k1}
  MaxEdits = 1
  Prefixed = TRUE
  Meet = TRUE
  Sockets = {k1, k2}
  MaxErrors = 1
  N = 2
  Messages = {1}
  Handled = {1}
  Slots = {s1}
  MaxAttempts = 2
  MaxStalls = 1
  Batch = 2
  MaxRestarts = 1
  Faults = {"read", "write", "handler"}
  LiveStalls = TRUE
SPECIFICATION ConvergeRun
INVARIANT PublishedWasHandled
PROPERTIES CachesConverge RepairedWhenQuiet PresenceConverges AcceptedJobFinishes
CHECK_DEADLOCK FALSE
