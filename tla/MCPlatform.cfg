\* Answers, cancellations and updates of the event race, the script finds no
\* drift; two files with one place of each kind, two confirmations on one server;
\* two codes of two attempts; three addresses and two requests; three reviewers of
\* three bookings of two listings; two of three photos, one request at a time; three
\* places of one name in two states, any of them from files, and one curator.
CONSTANTS
  Users = {owner, x1, x2, x3}
  Creator = owner
  Allowed = {owner, x1, x2}
  Caps = {0, 1, 2}
  MaxLegacy = 0
  People = {founder, x1, x2}
  Owner = founder
  Interleaved = FALSE
  Voters = {x1, x2}
  Options = {o1, o2}
  NoOption = none
  Ballots = {b1, b2}
  Fans = {x1, x2}
  Tasks = {t1, t2}
  MaxRows = 1
  firstName = firstName
  Names = {firstName, x1, x2}
  LastFile = 3
  MaxDecisions = 2
  Readers = {r1}
  NamesReused = FALSE
  state = state
  district = district
  city = city
  locality = locality
  pincode = pincode
  States = {state}
  Districts = {district}
  Cities = {city}
  Localities = {locality}
  Pincodes = {pincode}
  InState <- StateOf
  InCity <- CityOf
  Batches = {x1, x2}
  Importers = {q1, q2}
  Servers = {s1}
  LastCode = 2
  MaxAttempts = 2
  Requests = {x1, x2}
  NoRequest = none
  LastAddress = 3
  Editors = {x1, x2}
  NoEditor = nobody
  job1 = job1
  job2 = job2
  job3 = job3
  listing1 = listing1
  listing2 = listing2
  Completed = {job1, job2, job3}
  ListingOf <- Booked
  Reviewers = {w1, w2, w3}
  Photos = {x1, x2, x3}
  PhotoLimit = 2
  Clients = {s1}
  Spots = {x1, x2, x3}
  TopStates = {s1, s2}
  Labels = {firstName}
  NoPlace = none
  Curators = {q1}
SYMMETRY SuiteSymmetry
SPECIFICATION SuiteRun
INVARIANTS PlatformTypesOK MembershipSound CopiesMatchRows CountersExact GuessesBounded LocationsSound OneDefaultAtMost
PROPERTIES BansHold NoOverbooking ClosedToAnswers
CHECK_DEADLOCK FALSE
