\* Two admins and a change for each of them; nothing else takes an admin away.
CONSTANTS
  Residents = {u1, u2}
  Founder = u1
  Changes = {c1, c2}
  Uncounted = FALSE
SPECIFICATION MembersSpec
PROPERTY LastAdminProtected
CHECK_DEADLOCK FALSE
