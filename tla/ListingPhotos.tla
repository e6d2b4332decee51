---------------------------- MODULE ListingPhotos ----------------------------
(***************************************************************************)
(* The photos of a service listing: the rows of service_listing_media and  *)
(* the copy of their urls in the images column of the listing              *)
(* (service_listing.service.js).                                           *)
(*                                                                         *)
(* Nothing is a transaction and nothing is locked.  A request counts or    *)
(* retires rows, writes rows, reads them again and writes the copy in      *)
(* statements of its own, and may die between two of them: the packages,   *)
(* addons and areas of an update are refused only after its photos were    *)
(* saved.  The order of the photos is left out.                            *)
(***************************************************************************)
EXTENDS Naturals, FiniteSets

CONSTANTS
  Photos,     \* urls
  PhotoLimit, \* 5
  Clients     \* bound: requests at once

ASSUME PhotoAssumption == IsFiniteSet(Photos) /\ PhotoLimit \in Nat

VARIABLES
  offer,  \* the listing: "none", "live" or "deleted"
  media,  \* urls of the active rows
  images, \* the copy
  call,   \* call[c]: the next statement of a request and the urls it holds
  torn    \* history: a request died half way, and no later one went through

photoVars == <<offer, media, images, call, torn>>

NoCall == [step |-> "idle"]
PhotoSteps == {"create", "save", "retire", "fill", "insert", "reread", "sync"}
Portfolios == {ps \in SUBSET Photos : Cardinality(ps) <= PhotoLimit}

PhotoTypeOK ==
  /\ offer \in {"none", "live", "deleted"}
  /\ media \subseteq Photos /\ images \subseteq Photos
  /\ call \in [Clients -> {NoCall} \cup [step : PhotoSteps, urls : SUBSET Photos]]
  /\ torn \in BOOLEAN

PhotoInit ==
  /\ offer = "none" /\ media = {} /\ images = {}
  /\ call = [c \in Clients |-> NoCall] /\ torn = FALSE

-----------------------------------------------------------------------------
Stands(c, s) == call[c].step = s
Goes(c, s, ps) == call' = [call EXCEPT ![c] = [step |-> s, urls |-> ps]]
Ends(c) == call' = [call EXCEPT ![c] = NoCall]
Carried(c) == call[c].urls

Begins(c, from, s, ps) ==
  /\ Stands(c, "idle") /\ offer = from /\ Goes(c, s, ps)
  /\ UNCHANGED <<offer, media, images, torn>>

(* createListing and updateListing with images. *)
CreateOffer(c, ps) == Begins(c, "none", "create", ps)
UpdateListing(c, ps) == Begins(c, "live", "save", ps)

InsertOffer(c) ==
  /\ Stands(c, "create") /\ offer = "none" /\ offer' = "live"
  /\ images' = Carried(c) /\ Goes(c, "fill", Carried(c))
  /\ UNCHANGED <<media, torn>>

SaveListing(c) ==
  /\ Stands(c, "save")
  /\ images' = Carried(c) /\ Goes(c, "retire", Carried(c))
  /\ UNCHANGED <<offer, media, torn>>

(* The active rows are marked deleted ... *)
RetireAll(c) ==
  /\ Stands(c, "retire")
  /\ media' = {} /\ Goes(c, "fill", Carried(c))
  /\ UNCHANGED <<offer, images, torn>>

(* ... and those of the new urls written one after the other. *)
FillOne(c) ==
  /\ Stands(c, "fill")
  /\ \E p \in Carried(c) : media' = media \cup {p} /\ Goes(c, "fill", Carried(c) \ {p})
  /\ UNCHANGED <<offer, images, torn>>

Filled(c) ==
  /\ Stands(c, "fill") /\ Carried(c) = {}
  /\ Ends(c) /\ torn' = FALSE
  /\ UNCHANGED <<offer, media, images>>

-----------------------------------------------------------------------------
(* uploadServiceListingMedia: count, insert, read again, write the copy. *)
CountPhotos(c, p) ==
  /\ Cardinality(media) < PhotoLimit /\ p \notin media
  /\ Begins(c, "live", "insert", {p})

InsertPhoto(c) ==
  /\ Stands(c, "insert")
  /\ media' = media \cup Carried(c) /\ Goes(c, "reread", {})
  /\ UNCHANGED <<offer, images, torn>>

(* deleteServiceListingMedia goes on as an upload does. *)
DeletePhoto(c, p) ==
  /\ Stands(c, "idle") /\ offer = "live" /\ p \in media
  /\ media' = media \ {p} /\ Goes(c, "reread", {})
  /\ UNCHANGED <<offer, images, torn>>

Reread(c) ==
  /\ Stands(c, "reread") /\ Goes(c, "sync", media)
  /\ UNCHANGED <<offer, media, images, torn>>

SyncImages(c) ==
  /\ Stands(c, "sync")
  /\ images' = Carried(c) /\ Ends(c) /\ torn' = FALSE
  /\ UNCHANGED <<offer, media>>

-----------------------------------------------------------------------------
(* deleteListing and bulkSoftDeleteListings leave the photos. *)
DeleteListing ==
  /\ offer = "live" /\ offer' = "deleted"
  /\ UNCHANGED <<media, images, call, torn>>

(* A statement throws, or the process ends. *)
Die(c) ==
  /\ call[c] # NoCall
  /\ Ends(c) /\ torn' = TRUE
  /\ UNCHANGED <<offer, media, images>>

PhotoNext ==
  \/ \E c \in Clients, ps \in Portfolios : CreateOffer(c, ps) \/ UpdateListing(c, ps)
  \/ \E c \in Clients, p \in Photos : CountPhotos(c, p) \/ DeletePhoto(c, p)
  \/ \E c \in Clients :
       \/ InsertOffer(c) \/ SaveListing(c) \/ RetireAll(c) \/ FillOne(c) \/ Filled(c)
       \/ InsertPhoto(c) \/ Reread(c) \/ SyncImages(c) \/ Die(c)
  \/ DeleteListing

PhotoSpec == PhotoInit /\ [][PhotoNext]_photoVars

-----------------------------------------------------------------------------
(* Whatever requests have died half way before, the first that goes through
   leaves a copy that agrees with the rows. *)
CopyAgrees == ~torn /\ (\A c \in Clients : call[c] = NoCall) => images = media

(* service_listing.service.js: "Maximum 5 portfolio photos allowed per service
   listing". *)
WithinLimit == Cardinality(media) <= PhotoLimit

(* Both, while requests for one listing come one at a time; of two that overlap
   each may count, insert or copy what the other has not yet written. *)
PhotosMatch == CopyAgrees /\ WithinLimit
=============================================================================
