\* One request at a time, which may die half way; MCSociety.cfg lets requests for one
\* booking overlap and MCServiceBookingDouble.cfg two reschedules.  A booking lasts two
\* units, so that one moved off the grid of offered slots overlaps two of them.
\* A provider has two documents at most.
CONSTANTS
  Bookings = {b1, b2}
  Requests = {r1}
  LastTime = 2
  Occupancy = 2
  ListingCapacity = 1
  ProviderCapacity = 2
  AutoAccept = FALSE
  SlotOnly = FALSE
  Clash = {}
  MayAbort = TRUE
  MaxJobs = 1
  MaxPapers = 2
SYMMETRY MarketSymmetry
SPECIFICATION MarketRun
INVARIANTS NoDoubleBooking OfferedIsBookable ListedWasVetted
CHECK_DEADLOCK FALSE
