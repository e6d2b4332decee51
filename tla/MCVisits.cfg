\* Requests to the chat run one at a time, users keep opening it; three requests
\* on three refresh tokens, one of them a reset at most.
CONSTANTS
  Users = {owner, u1}
  Creator = owner
  Allowed = {owner, u1}
  Caps = {0}
  MaxLegacy = 0
  Chats = {c1}
  Overlap = FALSE
  MaxAdded = 0
  MaxEditing = 1
  Tokens = {t1, t2, t3}
  Logins = {r1, r2, r3}
  Grants = {g1}
  Nobody = nobody
SPECIFICATION VisitRun
INVARIANTS LeaversAreOut SessionsSound
PROPERTIES AttendeesReturn DeadStayDead RequestsEnd
CHECK_DEADLOCK FALSE
