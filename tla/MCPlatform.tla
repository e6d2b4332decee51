------------------------------ MODULE MCPlatform ------------------------------
(***************************************************************************)
(* One run for eleven components that share no state: the answers to an    *)
(* event, the members of a community, a poll, the counters of a post, a    *)
(* document of a society, the import of locations and their edits,         *)
(* one-time codes, the addresses of a user, reviews and the photos of a    *)
(* listing.  `part` is the one that runs; the others stay in an initial    *)
(* state.                                                                  *)
(***************************************************************************)
EXTENDS EventRsvp, CommunityMembership, Polls, PostCounters, Documents,
        LocationImport, OneTimeCodes, Addresses, Reviews, ListingPhotos,
        LocationAdmin, TLC

VARIABLE part

CONSTANTS
  state, district, city, locality, pincode,  \* one place of each dataset
  job1, job2, job3, listing1, listing2,      \* bookings and listings
  firstName                                  \* of a version
StateOf == (city :> state) @@ (district :> state)
CityOf == (pincode :> city) @@ (locality :> city)
Booked == (job1 :> listing1) @@ (job2 :> listing1) @@ (job3 :> listing2)

suiteVars == <<part, rsvpVars, communityVars, pollVars, postVars, documentVars,
               importVars, codeVars, addressVars, reviewVars, photoVars, adminVars>>

RsvpRests == status = "draft" /\ cap = 0 /\ RsvpInit
MembersRest == private = FALSE /\ CommunityInit
PollRests == kind = "community" /\ PollInit
PostRests == script = Asleep /\ PostInit
(* Whatever the first version is called. *)
DocumentStarts == shown = [name |-> firstName, file |-> 1] /\ DocumentInit
DocumentRests == docStatus = "draft" /\ DocumentStarts
ImportRests == known = [p \in Places |-> 0] /\ ImportInit
CodesRest == registered = FALSE /\ CodeInit

SuiteInit ==
  /\ part \in {"rsvp", "members", "poll", "post", "document", "import", "codes",
               "addresses", "reviews", "photos", "admin"}
  /\ IF part = "rsvp" THEN RsvpInit ELSE RsvpRests
  /\ IF part = "members" THEN CommunityInit ELSE MembersRest
  /\ IF part = "poll" THEN PollInit ELSE PollRests
  /\ IF part = "post" THEN PostInit ELSE PostRests
  /\ IF part = "document" THEN DocumentStarts ELSE DocumentRests
  /\ IF part = "import" THEN ImportInit ELSE ImportRests
  /\ IF part = "codes" THEN CodeInit ELSE CodesRest
  /\ AddressInit /\ ReviewInit /\ PhotoInit /\ AdminInit

SuiteNext ==
  /\ UNCHANGED part
  /\ \/ /\ part = "rsvp" /\ RsvpNext
        /\ UNCHANGED <<communityVars, pollVars, postVars, documentVars, importVars,
                       codeVars, addressVars, reviewVars, photoVars, adminVars>>
     \/ /\ part = "members" /\ CommunityNext
        /\ UNCHANGED <<rsvpVars, pollVars, postVars, documentVars, importVars,
                       codeVars, addressVars, reviewVars, photoVars, adminVars>>
     \/ /\ part = "poll" /\ PollNext
        /\ UNCHANGED <<rsvpVars, communityVars, postVars, documentVars, importVars,
                       codeVars, addressVars, reviewVars, photoVars, adminVars>>
     \/ /\ part = "post" /\ PostNext
        /\ UNCHANGED <<rsvpVars, communityVars, pollVars, documentVars, importVars,
                       codeVars, addressVars, reviewVars, photoVars, adminVars>>
     \/ /\ part = "document" /\ DocumentNext
        /\ UNCHANGED <<rsvpVars, communityVars, pollVars, postVars, importVars,
                       codeVars, addressVars, reviewVars, photoVars, adminVars>>
     \/ /\ part = "import" /\ ImportNext
        /\ UNCHANGED <<rsvpVars, communityVars, pollVars, postVars, documentVars,
                       codeVars, addressVars, reviewVars, photoVars, adminVars>>
     \/ /\ part = "codes" /\ CodeNext
        /\ UNCHANGED <<rsvpVars, communityVars, pollVars, postVars, documentVars,
                       importVars, addressVars, reviewVars, photoVars,
                       adminVars>>
     \/ /\ part = "addresses" /\ AddressNext
        /\ UNCHANGED <<rsvpVars, communityVars, pollVars, postVars, documentVars,
                       importVars, codeVars, reviewVars, photoVars,
                       adminVars>>
     \/ /\ part = "reviews" /\ ReviewNext
        /\ UNCHANGED <<rsvpVars, communityVars, pollVars, postVars, documentVars,
                       importVars, codeVars, addressVars, photoVars,
                       adminVars>>
     \/ /\ part = "photos" /\ PhotoNext
        /\ UNCHANGED <<rsvpVars, communityVars, pollVars, postVars, documentVars,
                       importVars, codeVars, addressVars, reviewVars,
                       adminVars>>
     \/ /\ part = "admin" /\ AdminNext
        /\ UNCHANGED <<rsvpVars, communityVars, pollVars, postVars, documentVars,
                       importVars, codeVars, addressVars, reviewVars,
                       photoVars>>

SuiteRun == SuiteInit /\ [][SuiteNext]_suiteVars

(* Users who are treated alike, names, files and requests are interchangeable.
   Parts share their model values, which keeps the group small: two of these sets
   that belong to one part are disjoint.  Two photos and two places are exchanged
   with them. *)
SuiteSymmetry ==
  Permutations(UNION {Allowed \ {Creator}, People \ {Owner}, Voters, Fans,
                      Names \ {firstName}, Batches, Requests, Editors})

(* The variables of the part that runs have their types. *)
PlatformTypesOK ==
  /\ part = "rsvp" => RsvpTypeOK
  /\ part = "members" => CommunityTypeOK
  /\ part = "poll" => PollTypeOK
  /\ part = "post" => PostTypeOK
  /\ part = "document" => DocumentTypeOK
  /\ part = "import" => ImportTypeOK
  /\ part = "codes" => CodeTypeOK
  /\ part = "addresses" => AddressTypeOK
  /\ part = "reviews" => ReviewTypeOK
  /\ part = "photos" => PhotoTypeOK
  /\ part = "admin" => AdminTypeOK

(* Between requests every stored copy agrees with the rows it is made from: the
   tallies of a poll, the counters of a post, the number of reviews of a provider,
   the images of a listing and the file of a document; and the lists of documents
   agree with the check that opens one. *)
CopiesMatchRows ==
  /\ TalliesAreVotes /\ PostCountersExact /\ ReviewsSound /\ PhotosMatch
  /\ FilesMatchVersions /\ (part = "document" => ListedIsReadable)

(* A batch is imported once and whole, and curators leave no two siblings of a name. *)
LocationsSound == ImportsSound /\ CuratedSiblingsDiffer
=============================================================================
