\* One process, one list, edits and lookups that do not overlap; the prefix of the
\* keys in Redis is the default one.
CONSTANTS
  Nodes = {p1}
  Lists = {"cities"}
  Edited = {"CITY"}
  Queries = {q1}
  MaxEdits = 2
  Prefixed = TRUE
  Meet = FALSE
SPECIFICATION LookupSpec
INVARIANT InvalidatedIsGone
CHECK_DEADLOCK FALSE
