\* Two changes of the addresses of one user at once.
CONSTANTS
  LastAddress = 3
  Editors = {e1, e2}
  NoEditor = nobody
SPECIFICATION AddressSpec
INVARIANT OneDefault
CHECK_DEADLOCK FALSE
