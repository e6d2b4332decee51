\* Everything interleaves.
CONSTANTS
  Users = {owner, u1}
  Creator = owner
  Allowed = {owner, u1}
  Caps = {0}
  MaxLegacy = 0
  Chats = {c1}
  Overlap = TRUE
  MaxAdded = 1
  MaxEditing = 1
SPECIFICATION EventChatSpec
INVARIANTS ChatTypeOK NoStranger OnlyRacersStay
CHECK_DEADLOCK FALSE
