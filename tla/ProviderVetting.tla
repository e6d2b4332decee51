--------------------------- MODULE ProviderVetting ---------------------------
(***************************************************************************)
(* How a provider comes to have a listing: the documents his category asks *)
(* for (kyc_requirement.service.js), those he hands in and the             *)
(* verification by an administrator (service_provider_profile.service.js), *)
(* and the guard of createListing (service_listing.service.js).            *)
(*                                                                         *)
(* Nothing is a transaction: a verification reads the category twice, the  *)
(* requirements and the documents, then writes.  The category is the one   *)
(* of the profile, and asks for one document; the others show when the     *)
(* profile changes to one.  As in production, no check is bypassed.        *)
(***************************************************************************)
EXTENDS Naturals, Sequences, SequencesExt

CONSTANT MaxPapers  \* bound: documents a provider has at once

ASSUME VettingAssumption == MaxPapers \in Nat

VARIABLES
  verified,   \* is_verified of the profile
  vetting,   \* its verification_status
  rule,       \* the requirement of the category of the profile
  configured, \* kyc_configured of the category
  papers,     \* documents, newest first: verified, and not expired, or not
  checking,   \* the next step of a verification, or "idle"
  loaded,     \* the profile as the verification has read it
  handing,    \* the next step of an upload of a document
  creating,   \* whose createListing has passed its guard, "nobody"
  offering,   \* who created the listing the provider has, "nobody"
  been        \* history: what has held of the category and the documents

profileVars == <<verified, vetting>>
categoryVars == <<rule, configured>>
requestVars == <<checking, loaded, handing>>
creatingVars == <<creating, offering>>
vettingVars == <<profileVars, categoryVars, papers, requestVars, creatingVars, been>>

(* "underReview" stands for "rejected" too, and "actionRequired" for "notSubmitted". *)
Standings == {"underReview", "actionRequired", "verified"}
(* "lax": inactive, or not mandatory. *)
Rules == {"absent", "lax", "mandatory"}
Checks == {"idle", "category", "again", "requirements", "documents", "passed", "other"}
Creators == {"nobody", "provider", "admin"}
Uploads == {"idle", "store", "storeAndResubmit", "resubmit"}

VettingTypeOK ==
  /\ verified \in BOOLEAN /\ vetting \in Standings
  /\ rule \in Rules /\ configured \in BOOLEAN
  /\ papers \in SeqOf(BOOLEAN, MaxPapers)
  /\ checking \in Checks /\ loaded \in BOOLEAN \X Standings /\ handing \in Uploads
  /\ creating \in Creators /\ offering \in Creators
  /\ been \subseteq {"configured", "complete", "elsewhere"}

Complete == rule # "mandatory" \/ (papers # <<>> /\ papers[1])
Holds == {x \in {"configured", "complete"} : IF x = "configured" THEN configured ELSE Complete}

VettingInit ==
  /\ verified = FALSE /\ vetting \in {"underReview", "actionRequired"}
  /\ rule \in Rules /\ configured = (rule # "absent") /\ papers = <<>>
  /\ checking = "idle" /\ loaded = <<verified, vetting>>
  /\ handing = "idle" /\ creating = "nobody" /\ offering = "nobody"
  /\ been = Holds

-----------------------------------------------------------------------------
(* The category.                                                           *)

(* addCategoryRequirement: only a new row marks the category as configured,
   one that is active again does not. *)
AddRequirement(r) ==
  /\ rule = "absent" /\ r # "absent"
  /\ rule' = r /\ configured' = TRUE
  /\ UNCHANGED <<profileVars, papers, requestVars, creatingVars>>

(* updateCategoryRequirement, and the reactivation of a row. *)
UpdateRequirement(r) ==
  /\ rule # "absent" /\ r \notin {"absent", rule}
  /\ rule' = r
  /\ UNCHANGED <<profileVars, configured, papers, requestVars, creatingVars>>

DeleteRequirement ==
  /\ rule # "absent" /\ rule' = "absent"
  /\ UNCHANGED <<profileVars, configured, papers, requestVars, creatingVars>>

SetConfigured ==
  /\ configured' = ~configured
  /\ UNCHANGED <<profileVars, rule, papers, requestVars, creatingVars>>

-----------------------------------------------------------------------------
(* The documents.                                                          *)

(* uploadMyDocument: the vetting is that of the start of the request. *)
HandIn ==
  /\ handing = "idle" /\ Len(papers) < MaxPapers
  /\ handing' = IF vetting = "actionRequired" THEN "storeAndResubmit" ELSE "store"
  /\ UNCHANGED <<profileVars, categoryVars, papers, checking, loaded, creatingVars>>

StorePaper ==
  /\ handing \in {"store", "storeAndResubmit"}
  /\ papers' = <<FALSE>> \o papers
  /\ handing' = IF handing = "store" THEN "idle" ELSE "resubmit"
  /\ UNCHANGED <<profileVars, categoryVars, checking, loaded, creatingVars>>

Resubmit ==
  /\ handing = "resubmit" /\ handing' = "idle"
  /\ vetting' = "underReview"
  /\ UNCHANGED <<verified, categoryVars, papers, checking, loaded, creatingVars>>

(* deleteMyDocument uncovers the document before it. *)
DeletePaper(i) ==
  /\ papers' = RemoveAt(papers, i)
  /\ UNCHANGED <<profileVars, categoryVars, requestVars, creatingVars>>

(* verifyProviderDocument, or the day after expiry_date; that a document out of
   date stays so is left out. *)
JudgePaper(i) ==
  /\ papers' = [papers EXCEPT ![i] = ~@]
  /\ UNCHANGED <<profileVars, categoryVars, requestVars, creatingVars>>

-----------------------------------------------------------------------------
(* verifyProfile.  What is to be written with is_verified or as "verified"
   goes through the category and getRequiredDocuments first.               *)

Check(from, to) ==
  /\ checking = from /\ checking' = to
  /\ loaded' = IF from = "idle" THEN <<verified, vetting>> ELSE loaded
  /\ UNCHANGED <<profileVars, categoryVars, papers, handing, creatingVars>>

VerifyProfile == Check("idle", "category") \/ Check("idle", "other")
ReadCategory == Check("category", IF configured THEN "again" ELSE "idle")

(* getRequiredDocuments: the category again, the requirements, the documents,
   of which the newest counts. *)
ReadAgain == Check("again", IF configured THEN "requirements" ELSE "idle")
ReadRequirements == Check("requirements", IF rule = "mandatory" THEN "documents" ELSE "passed")
ReadPapers == Check("documents", IF papers # <<>> /\ papers[1] THEN "passed" ELSE "idle")

(* Only what differs from the profile that was read is written. *)
WriteProfile(v, s) ==
  /\ \/ checking = "passed" /\ (v \/ s = "verified")
     \/ checking = "other" /\ ~v /\ s # "verified"
  /\ verified' = IF v = loaded[1] THEN verified ELSE v
  /\ vetting' = IF s = loaded[2] THEN vetting ELSE s
  /\ checking' = "idle"
  /\ UNCHANGED <<loaded, categoryVars, papers, handing, creatingVars>>

(* The setup of the profile calls every provider verified. *)
SetupProfile ==
  /\ verified' = TRUE
  /\ UNCHANGED <<vetting, categoryVars, papers, requestVars, creatingVars>>

-----------------------------------------------------------------------------
(* The profile changes to a category with any requirement, or to none.  Bound:
   not between the reads of a verification. *)
BetweenReads == checking \in {"category", "again", "requirements", "documents"}

ChangeTrade(r, c) ==
  /\ ~BetweenReads
  /\ rule' = r /\ configured' = c
  /\ UNCHANGED <<papers, requestVars, creatingVars>>

(* updateProfile, by the provider: he stays as verified as he was. *)
UpdateProfile(r, c) == ChangeTrade(r, c) /\ UNCHANGED profileVars

SetupInTrade(r, c) == ChangeTrade(r, c) /\ verified' = TRUE /\ UNCHANGED vetting

-----------------------------------------------------------------------------
(* Variant: is_verified is enough. *)
CreateIfVerified ==
  /\ creating = "nobody" /\ offering = "nobody"
  /\ verified
  /\ creating' = "provider"
  /\ UNCHANGED <<profileVars, categoryVars, papers, requestVars, offering>>

(* createListing by the provider, in the category of his profile: its guard and
   later its row; bound: one listing. *)
CreateListing ==
  /\ creating = "nobody" /\ offering = "nobody"
  /\ verified /\ vetting = "verified"
  /\ creating' = "provider"
  /\ UNCHANGED <<profileVars, categoryVars, papers, requestVars, offering>>

(* An administrator creates it for any provider, verified or not. *)
CreateForProvider ==
  /\ creating = "nobody" /\ offering = "nobody"
  /\ creating' = "admin"
  /\ UNCHANGED <<profileVars, categoryVars, papers, requestVars, offering>>

InsertListing ==
  /\ creating # "nobody" /\ creating' = "nobody" /\ offering' = creating
  /\ UNCHANGED <<profileVars, categoryVars, papers, requestVars>>

VettingStep ==
  \/ \E r \in Rules : AddRequirement(r) \/ UpdateRequirement(r)
  \/ DeleteRequirement \/ SetConfigured
  \/ HandIn \/ StorePaper \/ Resubmit
  \/ \E i \in 1..Len(papers) : DeletePaper(i) \/ JudgePaper(i)
  \/ VerifyProfile \/ ReadCategory \/ ReadAgain \/ ReadRequirements \/ ReadPapers
  \/ \E v \in BOOLEAN, s \in Standings : WriteProfile(v, s)
  \/ SetupProfile \/ CreateListing \/ CreateForProvider \/ InsertListing

TradeStep == \E r \in Rules, c \in BOOLEAN : UpdateProfile(r, c) \/ SetupInTrade(r, c)

VettedHere == {"configured", "complete"} \subseteq been
VettedOnce == VettedHere \/ "elsewhere" \in been

(* What a category leaves behind: that it was configured and he had all it asked. *)
Past == IF VettedHere THEN {"elsewhere"} ELSE been \cap {"elsewhere"}

VettingNext ==
  \/ VettingStep /\ been' = been \cup Holds'
  \/ TradeStep /\ been' = Past \cup Holds'

VettingSpec == VettingInit /\ [][VettingNext]_vettingVars

-----------------------------------------------------------------------------
(* Whatever changes between the statements of a verification or of a creation, no
   provider makes himself a listing before a category of his was configured and
   asked for nothing more than he had, verified and in force. *)
ListedWasVetted == offering = "provider" => VettedOnce

(* What the code does not keep.  service_listing.service.js: "Unauthorized category:
   provider is only verified for their registered trade category"; UpdateProfile
   registers another. *)
ListedInVettedTrade == offering = "provider" => VettedHere

(* CreateForProvider asks for no verification. *)
AllListedVetted == offering # "nobody" => VettedOnce

(* Nothing takes the verification back when a document expires, is rejected or
   deleted, or when the category asks for more. *)
VerifiedIsComplete == verified /\ vetting = "verified" => Complete

(* service_provider_profile.service.js: "Strict Server-Side Verification Gate when
   setting is_verified = true". *)
VerifiedWasVetted == verified => VettedOnce
=============================================================================
