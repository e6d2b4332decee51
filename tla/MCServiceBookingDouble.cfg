\* Two reschedules at once.
CONSTANTS
  Bookings = {b1, b2}
  Requests = {r1, r2}
  LastTime = 1
  Occupancy = 1
  ListingCapacity = 1
  ProviderCapacity = 0
  AutoAccept = FALSE
  SlotOnly = FALSE
  Clash = {"slot"}
  MayAbort = FALSE
  MaxJobs = 1
SYMMETRY BookingSymmetry
SPECIFICATION BookingSpec
INVARIANT NoDoubleBooking
CHECK_DEADLOCK FALSE
