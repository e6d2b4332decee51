------------------------------- MODULE Reviews -------------------------------
(***************************************************************************)
(* The reviews of the completed bookings of one provider, and the counts   *)
(* kept of them (service_review.service.js).                               *)
(*                                                                         *)
(* createReview is a transaction that locks the booking and, joined to it, *)
(* the listing; then it takes a snapshot of the reviews, and in the end    *)
(* writes the review and what it counted: two steps with the locks between *)
(* them.  Averages are computed from the same rows as the counts and are   *)
(* left out.                                                               *)
(***************************************************************************)
EXTENDS Integers, FiniteSets

CONSTANTS
  Completed,  \* bookings
  ListingOf,  \* ListingOf[b]: the listing that was booked
  Reviewers   \* bound: requests at once

ASSUME ReviewAssumption == IsFiniteSet(Completed) /\ IsFiniteSet(Reviewers)

VARIABLES
  live,      \* live[b]: reviews of a booking that are not deleted
  listed,    \* reviews_count of each listing
  provided,  \* review_count of the provider
  reviewing, \* reviewing[r]: the booking of a request and the snapshot it took
  thinned    \* history: listings that have lost a review

reviewVars == <<live, listed, provided, reviewing, thinned>>

Listings == {ListingOf[b] : b \in Completed}
NotReviewing == [state |-> "idle"]
Counts == [Completed -> 0..Cardinality(Reviewers)]

ReviewTypeOK ==
  /\ live \in Counts
  /\ listed \in [Listings -> Nat] /\ provided \in Nat
  /\ reviewing \in [Reviewers ->
       {NotReviewing} \cup [state : {"counting"}, of : Completed, seen : Counts]]
  /\ thinned \subseteq Listings

ReviewInit ==
  /\ live = [b \in Completed |-> 0]
  /\ listed = [l \in Listings |-> 0] /\ provided = 0
  /\ reviewing = [r \in Reviewers |-> NotReviewing] /\ thinned = {}

-----------------------------------------------------------------------------
Locked(l) == \E r \in Reviewers : reviewing[r] # NotReviewing /\ ListingOf[reviewing[r].of] = l

Snapshot(r, b) ==
  /\ reviewing[r] = NotReviewing
  /\ reviewing' = [reviewing EXCEPT ![r] = [state |-> "counting", of |-> b, seen |-> live]]
  /\ UNCHANGED <<live, listed, provided, thinned>>

LookUp(r, b) == ~Locked(ListingOf[b]) /\ Snapshot(r, b)

(* The rows a COUNT over some bookings finds. *)
TotalOf(counts, bs) ==
  Cardinality({x \in bs \X (1..Cardinality(Reviewers)) : x[2] <= counts[x[1]]})
BookingsOf(l) == {b \in Completed : ListingOf[b] = l}

(* A review the snapshot holds is written anew, though it was deleted since. *)
CreateReview(r) ==
  /\ reviewing[r] # NotReviewing
  /\ LET b == reviewing[r].of
         l == ListingOf[b]
         seen == IF reviewing[r].seen[b] = 0 THEN [reviewing[r].seen EXCEPT ![b] = 1]
                 ELSE reviewing[r].seen
     IN /\ live' = IF reviewing[r].seen[b] = 0 THEN [live EXCEPT ![b] = @ + 1] ELSE live
        /\ listed' = [listed EXCEPT ![l] = TotalOf(seen, BookingsOf(l))]
        /\ provided' = TotalOf(seen, Completed)
  /\ reviewing' = [reviewing EXCEPT ![r] = NotReviewing]
  /\ UNCHANGED thinned

(* The counts are left as they are. *)
SoftDeleteReview(b) ==
  /\ live[b] > 0
  /\ thinned' = thinned \cup {ListingOf[b]}
  /\ live' = [live EXCEPT ![b] = @ - 1]
  /\ UNCHANGED <<listed, provided, reviewing>>

ReviewNext ==
  \/ \E r \in Reviewers : CreateReview(r) \/ \E b \in Completed : LookUp(r, b)
  \/ \E b \in Completed : SoftDeleteReview(b)

ReviewSpec == ReviewInit /\ [][ReviewNext]_reviewVars

-----------------------------------------------------------------------------
(* A booking has one review that counts, however often it is sent at once. *)
OneReviewEach == \A b \in Completed : live[b] <= 1

(* Before the first deletion the count of a listing is that of its reviews. *)
ListingCountExact == \A l \in Listings \ thinned : listed[l] = TotalOf(live, BookingsOf(l))

(* Both, whatever reviews of one listing are written at once. *)
ReviewsSound == OneReviewEach /\ ListingCountExact

(* What the code does not keep: the count of the provider, since reviews of two
   of his listings are written at once, and neither after a deletion. *)
ProviderCountExact == provided = TotalOf(live, Completed)
=============================================================================
