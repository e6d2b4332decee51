\* Two bays, three allocations and two visits of one bay; two visitors and two
\* requests on them, one guard and three duties; two residents, two rows and two
\* additions at once; two requests for one booking that overlap freely; one society,
\* one coverage area of two kinds and two customers, one change at a time.
CONSTANTS
  bay1 = bay1
  bay2 = bay2
  Slots = {bay1, bay2}
  Allocations = {x1, x2, x3}
  Visits = {y1, y2}
  BayOf <- Bays
  Visitors = {y1, y2}
  Clerks = {z1, z2}
  NoClerk = none
  Guards = {w1}
  Assignments = {x1, x2, x3}
  Residents = {y1, y2}
  LastRow = 2
  Adders = {z1, z2}
  AddsTwice = FALSE
  Bookings = {b1}
  Requests = {y1, y2}
  LastTime = 2
  Occupancy = 2
  ListingCapacity = 1
  ProviderCapacity = 0
  AutoAccept = TRUE
  SlotOnly = FALSE
  Clash = {"booking", "slot"}
  MayAbort = FALSE
  MaxJobs = 2
  society1 = society1
  noSociety = noSociety
  Societies = {society1}
  NoSociety = noSociety
  Areas = {a1}
  Shapes <- Entered
  Desks = {z1}
  Buyers = {y1, y2}
  HomeCovers = TRUE
SYMMETRY SuiteSymmetry
SPECIFICATION SuiteRun
INVARIANTS SocietyTypesOK ParkingSound OneDuty BarredHaveNoRight WholeReschedule CompletedIsCounted
PROPERTIES DeniedStayOut ServicesSound
CHECK_DEADLOCK FALSE
