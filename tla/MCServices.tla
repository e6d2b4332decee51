------------------------------ MODULE MCServices ------------------------------
(***************************************************************************)
(* One run for two components of the service marketplace that share no     *)
(* state: the bookings of a provider, and how he comes to have a listing.  *)
(* `market` is the one that runs; the other stays in an initial state.     *)
(***************************************************************************)
EXTENDS ServiceBooking, ProviderVetting, TLC

VARIABLE market

marketVars == <<market, bookingVars, vettingVars>>

VettingRests == vetting = "underReview" /\ rule = "absent" /\ VettingInit

MarketInit ==
  /\ market \in {"bookings", "vetting"}
  /\ BookingInit
  /\ IF market = "vetting" THEN VettingInit ELSE VettingRests

MarketNext ==
  /\ UNCHANGED market
  /\ \/ market = "bookings" /\ BookingNext /\ UNCHANGED vettingVars
     \/ market = "vetting" /\ VettingNext /\ UNCHANGED bookingVars

MarketRun == MarketInit /\ [][MarketNext]_marketVars

(* Bookings are interchangeable. *)
MarketSymmetry == Permutations(Bookings)
=============================================================================
