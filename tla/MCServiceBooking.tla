--------------------------- MODULE MCServiceBooking ---------------------------
(* Instances of the booking model for TLC. *)
EXTENDS ServiceBooking, TLC

(* Bookings are interchangeable, and so are requests. *)
BookingSymmetry == Permutations(Bookings) \cup Permutations(Requests)
=============================================================================
