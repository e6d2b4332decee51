-------------------------- MODULE CatalogueProofs ---------------------------
(***************************************************************************)
(* Proofs about what is on offer and where, for any numbers of documents,  *)
(* bookings, photos, places and requests: the vetting of a provider, the   *)
(* reviews and the photos of his listings, and the locations.              *)
(***************************************************************************)
EXTENDS ProviderVetting, Reviews, ListingPhotos, LocationAdmin, LocationImport,
        SequenceTheorems, FiniteSetTheorems, TLAPS

(* The documents.                                                          *)

LEMMA BoundedSequences ==
  ASSUME NEW S, NEW n \in Nat, NEW s
  PROVE  s \in SeqOf(S, n) <=> s \in Seq(S) /\ Len(s) <= n
<1>1. ASSUME s \in SeqOf(S, n) PROVE s \in Seq(S) /\ Len(s) <= n
  <2>1. PICK m \in 0..n : s \in [1..m -> S]
    BY <1>1 DEF SeqOf
  <2>2. s \in Seq(S)
    BY <2>1, SeqDef
  <2>3. Len(s) = m
    BY <2>1, <2>2, LenProperties
  <2> QED
    BY <2>2, <2>3
<1>2. ASSUME s \in Seq(S), Len(s) <= n PROVE s \in SeqOf(S, n)
  <2>1. Len(s) \in 0..n /\ s \in [1..Len(s) -> S]
    BY <1>2, LenProperties
  <2> QED
    BY <2>1 DEF SeqOf
<1> QED
  BY <1>1, <1>2

(* An upload adds a document, a deletion takes one, a judgement keeps their number. *)
LEMMA OneMore ==
  ASSUME NEW s \in Seq(BOOLEAN), NEW n \in Nat, Len(s) < n
  PROVE  <<FALSE>> \o s \in Seq(BOOLEAN) /\ Len(<<FALSE>> \o s) <= n
<1>1. <<FALSE>> \in Seq(BOOLEAN) /\ Len(<<FALSE>>) = 1
  OBVIOUS
<1>2. <<FALSE>> \o s \in Seq(BOOLEAN) /\ Len(<<FALSE>> \o s) = 1 + Len(s)
  BY <1>1, ConcatProperties
<1> QED
  BY <1>2, LenProperties

LEMMA OneLess ==
  ASSUME NEW s \in Seq(BOOLEAN), NEW i \in 1..Len(s)
  PROVE  RemoveAt(s, i) \in Seq(BOOLEAN) /\ Len(RemoveAt(s, i)) < Len(s)
<1> DEFINE t == SubSeq(s, 1, i-1)
           u == SubSeq(s, i+1, Len(s))
<1>0. Len(s) \in Nat /\ i \in Int /\ \A j \in 1..Len(s) : s[j] \in BOOLEAN
  BY LenProperties, ElementOfSeq
<1>1. t \in Seq(BOOLEAN) /\ Len(t) = i - 1
  BY <1>0, SubSeqProperties
<1>2. u \in Seq(BOOLEAN) /\ Len(u) = Len(s) - i
  BY <1>0, SubSeqProperties
<1>3. t \o u \in Seq(BOOLEAN) /\ Len(t \o u) = Len(t) + Len(u)
  BY <1>1, <1>2, ConcatProperties
<1>4. RemoveAt(s, i) = t \o u
  BY DEF RemoveAt
<1> HIDE DEF t, u
<1> QED
  BY <1>0, <1>1, <1>2, <1>3, <1>4

LEMMA OneJudged ==
  ASSUME NEW s \in Seq(BOOLEAN), NEW i \in 1..Len(s)
  PROVE  LET t == [s EXCEPT ![i] = ~@] IN t \in Seq(BOOLEAN) /\ Len(t) = Len(s)
<1>1. (~s[i]) \in BOOLEAN
  BY Zenon
<1> QED
  BY <1>1, ExceptSeq

(* Types.                                                                  *)

ScalarTypes ==
  /\ verified \in BOOLEAN /\ vetting \in Standings
  /\ rule \in Rules /\ configured \in BOOLEAN
  /\ checking \in Checks /\ loaded \in BOOLEAN \X Standings /\ handing \in Uploads
  /\ creating \in Creators /\ offering \in Creators
  /\ been \subseteq {"configured", "complete", "elsewhere"}

(* An upload that has begun has room for its document. *)
PaperTypes ==
  /\ papers \in Seq(BOOLEAN) /\ Len(papers) <= MaxPapers
  /\ handing \in {"store", "storeAndResubmit"} => Len(papers) < MaxPapers

LEMMA TypesInit == VettingInit => ScalarTypes /\ PaperTypes
<1> SUFFICES ASSUME VettingInit PROVE ScalarTypes /\ PaperTypes
  OBVIOUS
<1>1. verified \in BOOLEAN /\ vetting \in Standings /\ loaded \in BOOLEAN \X Standings
  BY DEF VettingInit, Standings
<1>2. configured \in BOOLEAN
  BY Zenon DEF VettingInit
<1>3. /\ rule \in Rules /\ checking \in Checks /\ handing \in Uploads
      /\ creating \in Creators /\ offering \in Creators
      /\ been \subseteq {"configured", "complete", "elsewhere"}
  BY DEF VettingInit, Checks, Uploads, Creators, Holds
<1>4. PaperTypes
  BY VettingAssumption, EmptySeq DEF VettingInit, PaperTypes
<1> QED
  BY <1>1, <1>2, <1>3, <1>4 DEF ScalarTypes

LEMMA ScalarStep ==
  ASSUME ScalarTypes, [VettingNext]_vettingVars
  PROVE  ScalarTypes'
<1> USE DEF ScalarTypes, profileVars, categoryVars, requestVars, creatingVars,
         Standings, Rules, Checks, Uploads, Creators
<1>1. CASE UNCHANGED vettingVars
  BY <1>1 DEF vettingVars
<1>2. CASE VettingNext
  <2>1. been' \subseteq {"configured", "complete", "elsewhere"}
    BY <1>2 DEF VettingNext, Holds, Past
  <2>2. VettingStep \/ TradeStep
    BY <1>2 DEF VettingNext
  <2>3. CASE \/ \E r \in Rules : UpdateRequirement(r)
             \/ DeleteRequirement
    BY <2>1, <2>3 DEF UpdateRequirement, DeleteRequirement
  <2>9. ASSUME NEW r \in Rules, AddRequirement(r) PROVE ScalarTypes'
    <3>1. configured' \in BOOLEAN
      BY <2>9, Zenon DEF AddRequirement
    <3>2. /\ verified' = verified /\ vetting' = vetting /\ rule' \in Rules
          /\ checking' = checking /\ loaded' = loaded /\ handing' = handing
          /\ creating' = creating /\ offering' = offering
      BY <2>9 DEF AddRequirement
    <3> QED
      BY <2>1, <3>1, <3>2, Zenon
  <2>8. CASE SetConfigured
    <3>1. configured' \in BOOLEAN
      BY <2>8, Zenon DEF SetConfigured
    <3>2. /\ verified' = verified /\ vetting' = vetting /\ rule' = rule
          /\ checking' = checking /\ loaded' = loaded /\ handing' = handing
          /\ creating' = creating /\ offering' = offering
      BY <2>8 DEF SetConfigured
    <3> QED
      BY <2>1, <3>1, <3>2, Zenon
  <2>4. CASE \/ HandIn \/ StorePaper \/ Resubmit
             \/ \E i \in 1..Len(papers) : DeletePaper(i) \/ JudgePaper(i)
    BY <2>1, <2>4 DEF HandIn, StorePaper, Resubmit, DeletePaper, JudgePaper
  <2>5. CASE VerifyProfile \/ ReadCategory \/ ReadAgain \/ ReadRequirements \/ ReadPapers
    BY <2>1, <2>5 DEF VerifyProfile, ReadCategory, ReadAgain, ReadRequirements, ReadPapers, Check
  <2>6. ASSUME NEW v \in BOOLEAN, NEW s \in Standings, WriteProfile(v, s)
        PROVE  ScalarTypes'
    <3>1. verified' \in BOOLEAN
      BY <2>6 DEF WriteProfile
    <3>2. vetting' \in Standings
      BY <2>6 DEF WriteProfile
    <3>3. /\ rule' = rule /\ configured' = configured /\ loaded' = loaded
          /\ handing' = handing /\ creating' = creating /\ offering' = offering
          /\ checking' = "idle"
      BY <2>6 DEF WriteProfile
    <3> QED
      BY <2>1, <3>1, <3>2, <3>3, Zenon
  <2>7. CASE SetupProfile \/ CreateListing \/ CreateForProvider \/ InsertListing
    <3>1. verified' \in BOOLEAN
      BY <2>7, Zenon DEF SetupProfile, CreateListing, CreateForProvider, InsertListing
    <3>2. /\ vetting' = vetting /\ rule' = rule /\ configured' = configured
          /\ checking' = checking /\ loaded' = loaded /\ handing' = handing
          /\ creating' \in Creators /\ offering' \in Creators
      BY <2>7 DEF SetupProfile, CreateListing, CreateForProvider, InsertListing
    <3> QED
      BY <2>1, <3>1, <3>2, Zenon
  <2>10. ASSUME NEW r \in Rules, NEW c \in BOOLEAN, UpdateProfile(r, c) \/ SetupInTrade(r, c)
         PROVE  ScalarTypes'
    <3>1. configured' \in BOOLEAN /\ verified' \in BOOLEAN
      BY <2>10, Zenon DEF UpdateProfile, SetupInTrade, ChangeTrade
    <3>2. /\ vetting' = vetting /\ rule' \in Rules
          /\ checking' = checking /\ loaded' = loaded /\ handing' = handing
          /\ creating' = creating /\ offering' = offering
      BY <2>10 DEF UpdateProfile, SetupInTrade, ChangeTrade
    <3> QED
      BY <2>1, <3>1, <3>2, Zenon
  <2> QED
    BY <2>2, <2>3, <2>4, <2>5, <2>6, <2>7, <2>8, <2>9, <2>10 DEF VettingStep, TradeStep
<1> QED
  BY <1>1, <1>2

LEMMA PaperStep ==
  ASSUME PaperTypes, [VettingNext]_vettingVars
  PROVE  PaperTypes'
<1> USE VettingAssumption DEF PaperTypes, profileVars, categoryVars, requestVars, creatingVars
<1>1. CASE UNCHANGED vettingVars
  BY <1>1 DEF vettingVars
<1>2. CASE VettingNext
  <2>1. VettingStep \/ TradeStep
    BY <1>2 DEF VettingNext
  <2>2. CASE \/ \E r \in Rules : AddRequirement(r) \/ UpdateRequirement(r)
             \/ DeleteRequirement \/ SetConfigured \/ SetupProfile
    BY <2>2 DEF AddRequirement, UpdateRequirement, DeleteRequirement, SetConfigured, SetupProfile
  <2>3. CASE HandIn \/ Resubmit
    BY <2>3 DEF HandIn, Resubmit
  <2>4. CASE StorePaper
    BY <2>4, OneMore DEF StorePaper
  <2>5. ASSUME NEW i \in 1..Len(papers), DeletePaper(i) PROVE PaperTypes'
    BY <2>5, OneLess, LenProperties DEF DeletePaper
  <2>6. ASSUME NEW i \in 1..Len(papers), JudgePaper(i) PROVE PaperTypes'
    BY <2>6, OneJudged DEF JudgePaper
  <2>7. CASE VerifyProfile \/ ReadCategory \/ ReadAgain \/ ReadRequirements \/ ReadPapers
    BY <2>7 DEF VerifyProfile, ReadCategory, ReadAgain, ReadRequirements, ReadPapers, Check
  <2>8. CASE \/ \E v \in BOOLEAN, s \in Standings : WriteProfile(v, s)
             \/ CreateListing \/ CreateForProvider \/ InsertListing \/ TradeStep
    BY <2>8 DEF WriteProfile, CreateListing, CreateForProvider, InsertListing, TradeStep,
                UpdateProfile, SetupInTrade, ChangeTrade
  <2> QED
    BY <2>1, <2>2, <2>3, <2>4, <2>5, <2>6, <2>7, <2>8 DEF VettingStep
<1> QED
  BY <1>1, <1>2

(* Every reachable state is well typed: no more documents than a provider may
   have, however uploads, deletions and judgements alternate. *)
THEOREM VettingTypes == VettingSpec => []VettingTypeOK
<1>1. ScalarTypes /\ PaperTypes => VettingTypeOK
  BY VettingAssumption, BoundedSequences DEF ScalarTypes, PaperTypes, VettingTypeOK
<1> QED
  BY <1>1, TypesInit, ScalarStep, PaperStep, PTL DEF VettingSpec

(* Vetting.                                                                *)

(* What is recorded of the category and the documents grounds every later step: a
   verification that is under way saw the category configured, one that has passed
   saw the documents, and what it wrote is what a creation reads; a category the
   profile leaves is remembered. *)
Recorded ==
  /\ been \subseteq {"configured", "complete", "elsewhere"}
  /\ Holds \subseteq been

Grounded ==
  /\ checking \in {"again", "requirements", "documents"} => "configured" \in been
  /\ checking = "passed" => VettedOnce
  /\ loaded[2] = "verified" => VettedOnce
  /\ vetting = "verified" => VettedOnce
  /\ "provider" \in {creating, offering} => VettedOnce

VettingInv == Recorded /\ Grounded

LEMMA VettingInvInit == VettingInit => VettingInv
  BY DEF VettingInit, VettingInv, Recorded, Grounded, Holds

(* Nothing recorded of a category is forgotten while the profile stays in it, what
   holds after a step is recorded, and what was vetted once remains so. *)
LEMMA RecordStep ==
  ASSUME Recorded, VettingNext
  PROVE  /\ Recorded'
         /\ (VettingStep /\ been \subseteq been') \/ TradeStep
         /\ VettedOnce => VettedOnce'
  BY DEF Recorded, VettingNext, Holds, Past, VettedOnce, VettedHere

(* What the checks of a verification saw is recorded. *)
LEMMA SeenIsRecorded ==
  ASSUME Recorded
  PROVE  /\ configured => "configured" \in been
         /\ Complete => "complete" \in been
  BY DEF Recorded, Holds

LEMMA VettingInvStep ==
  ASSUME VettingInv, [VettingNext]_vettingVars
  PROVE  VettingInv'
<1>1. CASE UNCHANGED vettingVars
  BY <1>1 DEF vettingVars, profileVars, categoryVars, requestVars, creatingVars, VettingInv,
              Recorded, Grounded, Holds, Complete, VettedOnce, VettedHere
<1>2. CASE VettingNext
  <2>1. /\ Recorded' /\ (VettedOnce => VettedOnce')
        /\ (VettingStep /\ been \subseteq been') \/ TradeStep
    BY <1>2, RecordStep DEF VettingInv
  <2>2. CASE TradeStep
    BY <2>1, <2>2 DEF TradeStep, UpdateProfile, SetupInTrade, ChangeTrade, BetweenReads,
                      VettingInv, Grounded, profileVars, requestVars, creatingVars
  <2>3. CASE VettingStep /\ been \subseteq been'
    <3> USE DEF VettingInv, Grounded, creatingVars
    <3>1. CASE \/ \E r \in Rules : AddRequirement(r) \/ UpdateRequirement(r)
               \/ DeleteRequirement \/ SetConfigured
      BY <2>1, <2>3, <3>1 DEF AddRequirement, UpdateRequirement, DeleteRequirement,
                              SetConfigured, profileVars, requestVars
    <3>2. CASE HandIn \/ StorePaper \/ \E i \in 1..Len(papers) : DeletePaper(i) \/ JudgePaper(i)
      BY <2>1, <2>3, <3>2 DEF HandIn, StorePaper, DeletePaper, JudgePaper, profileVars,
                              requestVars
    <3>3. CASE Resubmit
      BY <2>1, <2>3, <3>3 DEF Resubmit
    <3>4. CASE VerifyProfile
      BY <2>1, <2>3, <3>4 DEF VerifyProfile, Check, profileVars
    <3>5. CASE ReadCategory \/ ReadAgain
      BY <2>1, <2>3, <3>5, SeenIsRecorded DEF ReadCategory, ReadAgain, Check, profileVars
    <3>6. CASE ReadRequirements \/ ReadPapers
      BY <2>1, <2>3, <3>6, SeenIsRecorded
         DEF ReadRequirements, ReadPapers, Check, Complete, profileVars, VettedOnce, VettedHere
    <3>7. ASSUME NEW v \in BOOLEAN, NEW s \in Standings, WriteProfile(v, s)
          PROVE  VettingInv'
      <4>1. vetting' = "verified" => VettedOnce
        BY <3>7 DEF WriteProfile
      <4> QED
        BY <2>1, <2>3, <3>7, <4>1 DEF WriteProfile
    <3>8. CASE SetupProfile
      BY <2>1, <2>3, <3>8 DEF SetupProfile, requestVars
    <3>9. CASE CreateListing \/ CreateForProvider \/ InsertListing
      BY <2>1, <2>3, <3>9 DEF CreateListing, CreateForProvider, InsertListing, profileVars,
                              requestVars
    <3> QED
      BY <2>3, <3>1, <3>2, <3>3, <3>4, <3>5, <3>6, <3>7, <3>8, <3>9 DEF VettingStep
  <2> QED
    BY <2>1, <2>2, <2>3
<1> QED
  BY <1>1, <1>2

(* Whatever changes between the statements of a verification or of a creation, no
   provider makes himself a listing before a category of his was configured and asked
   for nothing more than he had, verified and in force. *)
THEOREM ListingsAreVetted == VettingSpec => []ListedWasVetted
<1>1. VettingInv => ListedWasVetted
  BY DEF VettingInv, Grounded, ListedWasVetted
<1> QED
  BY <1>1, VettingInvInit, VettingInvStep, PTL DEF VettingSpec

-----------------------------------------------------------------------------
(* Reviews.  A count over some bookings is a number, and looks at nothing but the
   reviews of those. *)
LEMMA TotalIsNat ==
  ASSUME NEW f, NEW bs \in SUBSET Completed PROVE TotalOf(f, bs) \in Nat
<1> DEFINE N == Cardinality(Reviewers)
           rows == {x \in bs \X (1..N) : x[2] <= f[x[1]]}
<1>1. N \in Nat /\ IsFiniteSet(bs)
  BY ReviewAssumption, FS_CardinalityType, FS_Subset
<1>2. IsFiniteSet(1..N)
  BY <1>1, FS_Interval
<1>3. IsFiniteSet(bs \X (1..N))
  BY <1>1, <1>2, FS_Product
<1>4. rows \subseteq bs \X (1..N)
  OBVIOUS
<1>5. IsFiniteSet(rows)
  BY <1>3, <1>4, FS_Subset
<1>6. Cardinality(rows) \in Nat
  BY <1>5, FS_CardinalityType
<1>. QED
  BY <1>6 DEF TotalOf

LEMMA TotalsAgree ==
  ASSUME NEW f, NEW g, NEW bs, \A b \in bs : f[b] = g[b]
  PROVE  TotalOf(f, bs) = TotalOf(g, bs)
<1>1. \A x \in bs \X (1..Cardinality(Reviewers)) : f[x[1]] = g[x[1]]
  OBVIOUS
<1>. QED
  BY <1>1 DEF TotalOf

LEMMA NoRows ==
  ASSUME NEW f, NEW bs, \A b \in bs : f[b] = 0
  PROVE  TotalOf(f, bs) = 0
<1> DEFINE rows == {x \in bs \X (1..Cardinality(Reviewers)) : x[2] <= f[x[1]]}
<1>1. ASSUME NEW x \in rows PROVE FALSE
  <2>1. x[1] \in bs /\ x[2] \in 1..Cardinality(Reviewers) /\ x[2] <= f[x[1]]
    OBVIOUS
  <2>2. x[2] \in 1..Cardinality(Reviewers) /\ x[2] <= 0
    BY <2>1
  <2>3. Cardinality(Reviewers) \in Nat
    BY ReviewAssumption, FS_CardinalityType
  <2>. QED
    BY <2>2, <2>3
<1>2. rows = {}
  BY <1>1
<1>. QED
  BY <1>2, FS_EmptySet DEF TotalOf

(* One request at most holds a listing; what it has seen of the bookings of that
   listing stands until a review is deleted, and is never less than what there is. *)
ReviewLock ==
  \A q, r \in Reviewers :
    reviewing[q] # NotReviewing /\ reviewing[r] # NotReviewing
      /\ ListingOf[reviewing[q].of] = ListingOf[reviewing[r].of] => q = r

SeenStands ==
  \A r \in Reviewers : reviewing[r] # NotReviewing =>
    \A b \in BookingsOf(ListingOf[reviewing[r].of]) :
      /\ live[b] <= reviewing[r].seen[b]
      /\ ListingOf[b] \notin thinned => live[b] = reviewing[r].seen[b]

ReviewInv == ReviewTypeOK /\ OneReviewEach /\ ReviewLock /\ SeenStands /\ ListingCountExact

LEMMA ReviewStart == ReviewInit => ReviewInv
<1> SUFFICES ASSUME ReviewInit PROVE ReviewInv
  OBVIOUS
<1>1. Cardinality(Reviewers) \in Nat
  BY ReviewAssumption, FS_CardinalityType
<1>2. \A b \in Completed : live[b] = 0
  BY DEF ReviewInit
<1>3. ReviewTypeOK
  BY <1>1 DEF ReviewInit, ReviewTypeOK, Counts
<1>4. OneReviewEach /\ ReviewLock /\ SeenStands
  BY <1>2 DEF ReviewInit, OneReviewEach, ReviewLock, SeenStands
<1>5. ASSUME NEW l \in Listings PROVE listed[l] = TotalOf(live, BookingsOf(l))
  <2>1. \A b \in BookingsOf(l) : live[b] = 0
    BY <1>2 DEF BookingsOf
  <2>2. TotalOf(live, BookingsOf(l)) = 0
    BY <2>1, NoRows
  <2>. QED
    BY <2>2, <1>5 DEF ReviewInit
<1>. QED
  BY <1>3, <1>4, <1>5 DEF ReviewInv, ListingCountExact

LEMMA LookUpKeeps ==
  ASSUME ReviewInv, NEW r \in Reviewers, NEW b \in Completed, LookUp(r, b)
  PROVE  ReviewInv'
<1> USE DEF ReviewInv
<1>1. PICK x : x = [state |-> "counting", of |-> b, seen |-> live]
  OBVIOUS
<1>2. /\ x \in [state : {"counting"}, of : Completed, seen : Counts]
      /\ x.of = b /\ x.seen = live /\ x.state = "counting"
  BY <1>1 DEF ReviewTypeOK
<1>3. /\ reviewing' = [reviewing EXCEPT ![r] = x]
      /\ UNCHANGED <<live, listed, provided, thinned>>
  BY <1>1 DEF LookUp, Snapshot
<1>4. ReviewTypeOK'
  BY <1>2, <1>3 DEF ReviewTypeOK
<1>5. \A q \in Reviewers : reviewing'[q] = IF q = r THEN x ELSE reviewing[q]
  BY <1>3 DEF ReviewTypeOK
<1>6. \A q \in Reviewers : reviewing[q] # NotReviewing => ListingOf[reviewing[q].of] # ListingOf[b]
  BY DEF LookUp, Locked
<1>7. ReviewLock'
  BY <1>2, <1>5, <1>6 DEF ReviewLock
<1>8. SeenStands'
  <2>1. \A c \in Completed : live[c] \in Int
    BY ReviewAssumption, FS_CardinalityType DEF ReviewTypeOK, Counts
  <2>. QED
    BY <1>2, <1>3, <1>5, <2>1 DEF SeenStands, BookingsOf
<1>9. (OneReviewEach /\ ListingCountExact)'
  BY <1>3 DEF OneReviewEach, ListingCountExact, BookingsOf, TotalOf
<1>. QED
  BY <1>4, <1>7, <1>8, <1>9

LEMMA CreateKeeps ==
  ASSUME ReviewInv, NEW r \in Reviewers, CreateReview(r)
  PROVE  ReviewInv'
<1> USE DEF ReviewInv
<1> DEFINE b == reviewing[r].of
           l == ListingOf[b]
           old == reviewing[r].seen
           seen == IF old[b] = 0 THEN [old EXCEPT ![b] = 1] ELSE old
<1>1. Cardinality(Reviewers) \in Nat /\ Cardinality(Reviewers) >= 1
  <2>1. Cardinality(Reviewers) \in Nat /\ Cardinality(Reviewers) # 0
    BY ReviewAssumption, FS_CardinalityType, FS_EmptySet
  <2>. QED
    BY <2>1
<1>2. /\ b \in Completed /\ l \in Listings /\ old \in Counts
      /\ reviewing[r] # NotReviewing
  BY DEF CreateReview, ReviewTypeOK, Listings
<1>3. /\ live' = IF old[b] = 0 THEN [live EXCEPT ![b] = @ + 1] ELSE live
      /\ listed' = [listed EXCEPT ![l] = TotalOf(seen, BookingsOf(l))]
      /\ provided' = TotalOf(seen, Completed)
      /\ reviewing' = [reviewing EXCEPT ![r] = NotReviewing]
      /\ thinned' = thinned
  BY DEF CreateReview
<1> HIDE DEF b, l, old
<1>4. \A c \in Completed : live[c] \in Nat /\ old[c] \in Nat /\ live[c] <= 1
  BY <1>1, <1>2 DEF ReviewTypeOK, Counts, OneReviewEach
<1>5. \A c \in BookingsOf(l) : c \in Completed /\ live[c] <= old[c] /\ (l \notin thinned => live[c] = old[c])
  BY <1>2 DEF SeenStands, BookingsOf, b, l, old
<1>6. b \in BookingsOf(l)
  BY <1>2 DEF BookingsOf, l
<1>7. old[b] = 0 => live[b] = 0
  BY <1>4, <1>5, <1>6
<1>8. \A c \in Completed :
        live'[c] = IF c = b /\ old[b] = 0 THEN 1 ELSE live[c]
  BY <1>2, <1>3, <1>7 DEF ReviewTypeOK, Counts
<1>9. live' \in Counts
  <2>1. 1 \in 0..Cardinality(Reviewers)
    BY <1>1
  <2>2. CASE old[b] = 0
    BY <1>2, <1>3, <1>7, <2>1, <2>2 DEF ReviewTypeOK, Counts
  <2>. QED
    BY <1>3, <2>2 DEF ReviewTypeOK
<1>10. ReviewTypeOK'
  <2>1. BookingsOf(l) \in SUBSET Completed /\ Completed \in SUBSET Completed
    BY DEF BookingsOf
  <2>2. TotalOf(seen, BookingsOf(l)) \in Nat /\ TotalOf(seen, Completed) \in Nat
    BY <2>1, TotalIsNat
  <2>3. listed' \in [Listings -> Nat]
    BY <1>2, <1>3, <2>2 DEF ReviewTypeOK
  <2>. QED
    BY <1>3, <1>9, <2>2, <2>3 DEF ReviewTypeOK
<1>11. OneReviewEach'
  BY <1>4, <1>8 DEF OneReviewEach
<1>12. ReviewLock'
  BY <1>3 DEF ReviewLock, ReviewTypeOK
<1>13. SeenStands'
  <2> SUFFICES ASSUME NEW q \in Reviewers, reviewing'[q] # NotReviewing,
                      NEW c \in BookingsOf(ListingOf[reviewing'[q].of])
               PROVE  /\ live'[c] <= reviewing'[q].seen[c]
                      /\ ListingOf[c] \notin thinned' => live'[c] = reviewing'[q].seen[c]
    BY DEF SeenStands, BookingsOf
  <2>1. q # r /\ reviewing'[q] = reviewing[q]
    BY <1>3 DEF ReviewTypeOK
  <2>2. ListingOf[reviewing[q].of] # l
    BY <1>2, <2>1 DEF ReviewLock, l, b
  <2>3. c \in Completed /\ ListingOf[c] # l
    BY <2>1, <2>2 DEF BookingsOf
  <2>4. live'[c] = live[c]
    BY <1>8, <2>3 DEF l
  <2>. QED
    BY <1>3, <2>1, <2>4 DEF SeenStands
<1>14. ListingCountExact'
  <2> SUFFICES ASSUME NEW k \in Listings, k \notin thinned'
               PROVE  listed'[k] = TotalOf(live', BookingsOf(k))
    BY DEF ListingCountExact, BookingsOf, TotalOf, Listings
  <2>1. k \notin thinned
    BY <1>3
  <2>2. CASE k = l
    <3>1. ASSUME NEW c \in BookingsOf(l) PROVE live'[c] = seen[c]
      <4>1. c \in Completed /\ live[c] = old[c]
        BY <1>5, <2>1, <2>2, <3>1
      <4>. QED
        BY <1>2, <1>8, <4>1 DEF Counts
    <3>2. TotalOf(live', BookingsOf(l)) = TotalOf(seen, BookingsOf(l))
      <4> HIDE DEF seen
      <4>. QED
        BY <3>1, TotalsAgree
    <3>. QED
      BY <1>2, <1>3, <2>2, <3>2 DEF ReviewTypeOK
  <2>3. CASE k # l
    <3>1. \A c \in BookingsOf(k) : live'[c] = live[c]
      BY <1>8, <2>3 DEF BookingsOf, l
    <3>2. TotalOf(live', BookingsOf(k)) = TotalOf(live, BookingsOf(k))
      BY <3>1, TotalsAgree
    <3>3. listed'[k] = listed[k]
      BY <1>3, <2>3 DEF ReviewTypeOK
    <3>. QED
      BY <2>1, <3>2, <3>3 DEF ListingCountExact
  <2>. QED
    BY <2>2, <2>3
<1>. QED
  BY <1>10, <1>11, <1>12, <1>13, <1>14

LEMMA ThinKeeps ==
  ASSUME ReviewInv, NEW b \in Completed, SoftDeleteReview(b)
  PROVE  ReviewInv'
<1> USE DEF ReviewInv
<1>1. Cardinality(Reviewers) \in Nat
  BY ReviewAssumption, FS_CardinalityType
<1>2. /\ live[b] > 0 /\ thinned' = thinned \cup {ListingOf[b]}
      /\ live' = [live EXCEPT ![b] = @ - 1]
      /\ listed' = listed /\ provided' = provided /\ reviewing' = reviewing
  BY DEF SoftDeleteReview
<1>3. \A c \in Completed : live[c] \in 0..Cardinality(Reviewers)
  BY DEF ReviewTypeOK, Counts
<1>4. \A c \in Completed : live'[c] = IF c = b THEN live[b] - 1 ELSE live[c]
  BY <1>2 DEF ReviewTypeOK, Counts
<1>5. ReviewTypeOK'
  <2>1. live[b] - 1 \in 0..Cardinality(Reviewers)
    BY <1>1, <1>2, <1>3
  <2>2. live' \in Counts
    BY <1>2, <2>1 DEF ReviewTypeOK, Counts
  <2>3. ListingOf[b] \in Listings
    BY DEF Listings
  <2>. QED
    BY <1>2, <2>2, <2>3 DEF ReviewTypeOK
<1>6. OneReviewEach'
  BY <1>1, <1>3, <1>4 DEF OneReviewEach
<1>7. ReviewLock'
  BY <1>2 DEF ReviewLock
<1>8. SeenStands'
  <2> SUFFICES ASSUME NEW q \in Reviewers, reviewing[q] # NotReviewing,
                      NEW c \in BookingsOf(ListingOf[reviewing[q].of])
               PROVE  /\ live'[c] <= reviewing[q].seen[c]
                      /\ ListingOf[c] \notin thinned' => live'[c] = reviewing[q].seen[c]
    BY <1>2 DEF SeenStands, BookingsOf
  <2>1. /\ live[c] <= reviewing[q].seen[c]
        /\ ListingOf[c] \notin thinned => live[c] = reviewing[q].seen[c]
    BY DEF SeenStands
  <2>2. c \in Completed /\ reviewing[q].seen[c] \in 0..Cardinality(Reviewers)
    BY DEF BookingsOf, ReviewTypeOK, Counts
  <2>3. CASE c = b
    BY <1>1, <1>2, <1>3, <1>4, <2>1, <2>2, <2>3
  <2>4. CASE c # b
    BY <1>2, <1>4, <2>1, <2>2, <2>4
  <2>. QED
    BY <2>3, <2>4
<1>9. ListingCountExact'
  <2> SUFFICES ASSUME NEW k \in Listings, k \notin thinned'
               PROVE  listed'[k] = TotalOf(live', BookingsOf(k))
    BY DEF ListingCountExact, BookingsOf, TotalOf, Listings
  <2>1. k \notin thinned /\ k # ListingOf[b]
    BY <1>2
  <2>2. \A c \in BookingsOf(k) : live'[c] = live[c]
    BY <1>4, <2>1 DEF BookingsOf
  <2>3. TotalOf(live', BookingsOf(k)) = TotalOf(live, BookingsOf(k))
    BY <2>2, TotalsAgree
  <2>. QED
    BY <1>2, <2>1, <2>3 DEF ListingCountExact
<1>. QED
  BY <1>5, <1>6, <1>7, <1>8, <1>9

LEMMA ReviewStep == ReviewInv /\ [ReviewNext]_reviewVars => ReviewInv'
<1> SUFFICES ASSUME ReviewInv, [ReviewNext]_reviewVars PROVE ReviewInv'
  OBVIOUS
<1>1. CASE UNCHANGED reviewVars
  BY <1>1 DEF reviewVars, ReviewInv, ReviewTypeOK, OneReviewEach, ReviewLock, SeenStands,
              ListingCountExact, BookingsOf, TotalOf
<1>. QED
  BY <1>1, LookUpKeeps, CreateKeeps, ThinKeeps DEF ReviewNext

(* A booking has one review that counts, and until one is deleted a listing's count is
   that of its reviews, however many requests review at once. *)
THEOREM ReviewsStaySound == ReviewSpec => [](ReviewTypeOK /\ ReviewsSound)
<1>1. ReviewInv => ReviewTypeOK /\ ReviewsSound
  BY DEF ReviewInv, ReviewsSound
<1>. QED
  BY <1>1, ReviewStart, ReviewStep, PTL DEF ReviewSpec

-----------------------------------------------------------------------------
(* Photos of a listing. *)
LEMMA PhotosFinite ==
  ASSUME NEW S \in SUBSET Photos PROVE IsFiniteSet(S) /\ Cardinality(S) \in Nat
  BY PhotoAssumption, FS_Subset, FS_CardinalityType

LEMMA FewerPhotos ==
  ASSUME NEW S \in SUBSET Photos, NEW T \in SUBSET S, Cardinality(S) <= PhotoLimit
  PROVE  Cardinality(T) <= PhotoLimit
<1>1. T \in SUBSET Photos /\ Cardinality(T) <= Cardinality(S)
  BY PhotosFinite, FS_Subset
<1>. QED
  BY <1>1, PhotosFinite, PhotoAssumption

(* What a request holds at its next statement. *)
CallRow == [step : PhotoSteps, urls : SUBSET Photos]

LEMMA CallTyped ==
  ASSUME PhotoTypeOK, NEW c \in Clients, call[c].step \in PhotoSteps
  PROVE  call[c] \in CallRow /\ Carried(c) \in SUBSET Photos
  BY DEF PhotoTypeOK, NoCall, PhotoSteps, CallRow, Carried

LEMMA PhotoTypes == PhotoSpec => []PhotoTypeOK
<1>1. PhotoInit => PhotoTypeOK
  BY DEF PhotoInit, PhotoTypeOK
<1>2. PhotoTypeOK /\ [PhotoNext]_photoVars => PhotoTypeOK'
  <2> SUFFICES ASSUME PhotoTypeOK, [PhotoNext]_photoVars PROVE PhotoTypeOK'
    OBVIOUS
  <2>1. ASSUME NEW c \in Clients, NEW ps \in SUBSET Photos, NEW s \in PhotoSteps, Goes(c, s, ps)
        PROVE  call' \in [Clients -> {NoCall} \cup CallRow]
    BY <2>1 DEF Goes, PhotoTypeOK, CallRow
  <2>2. ASSUME NEW c \in Clients, Ends(c)
        PROVE  call' \in [Clients -> {NoCall} \cup CallRow]
    BY <2>2 DEF Ends, PhotoTypeOK, CallRow
  <2>3. ASSUME NEW c \in Clients, NEW ps \in Portfolios, CreateOffer(c, ps) \/ UpdateListing(c, ps)
        PROVE  PhotoTypeOK'
    <3>1. ps \in SUBSET Photos /\ {"create", "save"} \subseteq PhotoSteps
      BY DEF Portfolios, PhotoSteps
    <3>2. call' \in [Clients -> {NoCall} \cup CallRow]
      BY <2>1, <2>3, <3>1 DEF CreateOffer, UpdateListing, Begins
    <3>. QED
      BY <2>3, <3>2 DEF CreateOffer, UpdateListing, Begins, PhotoTypeOK, CallRow
  <2>4. ASSUME NEW c \in Clients, NEW p \in Photos, CountPhotos(c, p) \/ DeletePhoto(c, p)
        PROVE  PhotoTypeOK'
    <3>1. {p} \in SUBSET Photos /\ {} \in SUBSET Photos /\ {"insert", "reread"} \subseteq PhotoSteps
      BY DEF PhotoSteps
    <3>2. Goes(c, "insert", {p}) \/ Goes(c, "reread", {})
      BY <2>4 DEF CountPhotos, DeletePhoto, Begins
    <3>3. call' \in [Clients -> {NoCall} \cup CallRow]
      BY <3>1, <3>2 DEF Goes, PhotoTypeOK, CallRow
    <3>. QED
      BY <2>4, <3>3 DEF CountPhotos, DeletePhoto, Begins, PhotoTypeOK, CallRow
  <2>5. ASSUME NEW c \in Clients,
               InsertOffer(c) \/ SaveListing(c) \/ RetireAll(c) \/ FillOne(c) \/ InsertPhoto(c)
                 \/ Reread(c)
        PROVE  PhotoTypeOK'
    <3>1. call[c].step \in {"create", "save", "retire", "fill", "insert"} \/ Reread(c)
      BY <2>5 DEF InsertOffer, SaveListing, RetireAll, FillOne, InsertPhoto, Stands
    <3>2. ~Reread(c) => Carried(c) \in SUBSET Photos
      BY <3>1, CallTyped DEF PhotoSteps
    <3>3. PICK s \in PhotoSteps, ps \in SUBSET Photos : call' = [call EXCEPT ![c] = [step |-> s, urls |-> ps]]
      <4>1. CASE Reread(c)
        BY <4>1 DEF Reread, Goes, PhotoSteps, PhotoTypeOK
      <4>2. CASE InsertPhoto(c)
        BY <4>2 DEF InsertPhoto, Goes, PhotoSteps
      <4>3. CASE ~Reread(c) /\ ~InsertPhoto(c)
        <5>1. \/ call' = [call EXCEPT ![c] = [step |-> "fill", urls |-> Carried(c)]]
              \/ call' = [call EXCEPT ![c] = [step |-> "retire", urls |-> Carried(c)]]
              \/ \E p : call' = [call EXCEPT ![c] = [step |-> "fill", urls |-> Carried(c) \ {p}]]
          BY <2>5, <4>3 DEF InsertOffer, SaveListing, RetireAll, FillOne, Goes
        <5>2. /\ Carried(c) \in SUBSET Photos /\ \A p : Carried(c) \ {p} \in SUBSET Photos
              /\ {"fill", "retire"} \subseteq PhotoSteps
          BY <3>2, <4>3 DEF PhotoSteps
        <5>. QED
          BY <5>1, <5>2
      <4>. QED
        BY <4>1, <4>2, <4>3
    <3>4. [step |-> s, urls |-> ps] \in CallRow
      BY DEF CallRow
    <3>5. call' \in [Clients -> {NoCall} \cup CallRow]
      BY <3>3, <3>4 DEF PhotoTypeOK, CallRow
    <3>6. media' \subseteq Photos /\ images' \subseteq Photos
      BY <2>5, <3>2 DEF InsertOffer, SaveListing, RetireAll, FillOne, InsertPhoto, Reread, PhotoTypeOK
    <3>7. offer' \in {"none", "live", "deleted"} /\ torn' \in BOOLEAN
      BY <2>5 DEF InsertOffer, SaveListing, RetireAll, FillOne, InsertPhoto, Reread, PhotoTypeOK
    <3>. QED
      BY <3>5, <3>6, <3>7 DEF PhotoTypeOK, CallRow
  <2>6. ASSUME NEW c \in Clients, Filled(c) \/ SyncImages(c) \/ Die(c) PROVE PhotoTypeOK'
    <3>1. Stands(c, "sync") => Carried(c) \in SUBSET Photos
      BY CallTyped DEF Stands, PhotoSteps
    <3>2. call' \in [Clients -> {NoCall} \cup CallRow]
      BY <2>2, <2>6 DEF Filled, SyncImages, Die
    <3>. QED
      BY <2>6, <3>1, <3>2 DEF Filled, SyncImages, Die, PhotoTypeOK, CallRow
  <2>7. CASE DeleteListing
    BY <2>7 DEF DeleteListing, PhotoTypeOK
  <2>8. CASE UNCHANGED photoVars
    BY <2>8 DEF photoVars, PhotoTypeOK
  <2>. QED
    BY <2>3, <2>4, <2>5, <2>6, <2>7, <2>8 DEF PhotoNext
<1>. QED
  BY <1>1, <1>2, PTL DEF PhotoSpec

(* What the only request under way has left of the rows and of their copy. *)
Balanced(c) ==
  /\ call[c].step \in {"create", "save", "retire"} => Carried(c) \in Portfolios
  /\ call[c].step = "retire" => images = Carried(c)
  /\ call[c].step = "fill" =>
       images = media \cup Carried(c) /\ media \cup Carried(c) \in Portfolios
  /\ call[c].step = "insert" => \E p \in Photos : Carried(c) = {p} /\ Cardinality(media) < PhotoLimit
  /\ call[c].step = "sync" => Carried(c) = media
  /\ call[c].step = "idle" /\ ~torn => images = media

PhotoInv ==
  /\ offer = "none" => media = {} /\ images = {} /\ \A c \in Clients : call[c].step \in {"idle", "create"}
  /\ Clients = {} => images = media
  /\ \A c \in Clients : Balanced(c)
  /\ WithinLimit

LEMMA PhotoStep ==
  ASSUME \A c, d \in Clients : c = d, PhotoTypeOK, PhotoInv, [PhotoNext]_photoVars
  PROVE  PhotoInv'
<1>1. CASE UNCHANGED photoVars
  BY <1>1 DEF photoVars, PhotoInv, Balanced, Carried, WithinLimit, Portfolios
<1>2. CASE DeleteListing
  BY <1>2 DEF DeleteListing, PhotoInv, Balanced, Carried, WithinLimit, Portfolios
<1>3. ASSUME NEW c \in Clients,
             \/ \E ps \in Portfolios : CreateOffer(c, ps) \/ UpdateListing(c, ps)
             \/ \E p \in Photos : CountPhotos(c, p) \/ DeletePhoto(c, p)
             \/ InsertOffer(c) \/ SaveListing(c) \/ RetireAll(c) \/ FillOne(c) \/ Filled(c)
             \/ InsertPhoto(c) \/ Reread(c) \/ SyncImages(c) \/ Die(c)
      PROVE  PhotoInv'
  <2>0. /\ Balanced(c) /\ WithinLimit /\ media \in SUBSET Photos /\ images \in SUBSET Photos
        /\ Clients = {c} /\ DOMAIN call = Clients
        /\ offer = "none" => media = {} /\ images = {} /\ call[c].step \in {"idle", "create"}
    BY <1>3 DEF PhotoInv, PhotoTypeOK
  <2>1. ASSUME Balanced(c)', Cardinality(media') <= PhotoLimit,
               offer' = "none" => media' = {} /\ images' = {} /\ call'[c].step \in {"idle", "create"}
        PROVE  PhotoInv'
    BY <2>0, <2>1 DEF PhotoInv, WithinLimit
  <2> DEFINE Brought == Carried(c)
  <2>2. ASSUME NEW s, NEW ps, Goes(c, s, ps) PROVE call'[c].step = s /\ call'[c].urls = ps
    BY <2>0, <2>2 DEF Goes
  <2>3. Ends(c) => call'[c].step = "idle"
    BY <2>0 DEF Ends, NoCall
  <2>4. CASE \E ps \in Portfolios : CreateOffer(c, ps) \/ UpdateListing(c, ps)
    <3>1. PICK ps \in Portfolios : CreateOffer(c, ps) \/ UpdateListing(c, ps)
      BY <2>4
    <3>2. /\ call'[c].urls = ps /\ UNCHANGED <<offer, media, images, torn>>
          /\ \/ offer = "none" /\ call'[c].step = "create"
             \/ offer = "live" /\ call'[c].step = "save"
      BY <2>2, <3>1 DEF CreateOffer, UpdateListing, Begins
    <3>3. Balanced(c)'
      BY <3>2 DEF Balanced, Carried, Portfolios
    <3>. QED
      BY <2>0, <2>1, <3>2, <3>3 DEF WithinLimit
  <2>5. CASE \E p \in Photos : CountPhotos(c, p) \/ DeletePhoto(c, p)
    <3>1. PICK p \in Photos : CountPhotos(c, p) \/ DeletePhoto(c, p)
      BY <2>5
    <3>2. CASE CountPhotos(c, p)
      <4>1. /\ call'[c].step = "insert" /\ call'[c].urls = {p} /\ offer = "live"
            /\ UNCHANGED <<offer, media, images, torn>> /\ Cardinality(media) < PhotoLimit
        BY <2>2, <3>2 DEF CountPhotos, Begins
      <4>2. Balanced(c)'
        BY <4>1 DEF Balanced, Carried
      <4>. QED
        BY <2>0, <2>1, <4>1, <4>2 DEF WithinLimit
    <3>3. CASE DeletePhoto(c, p)
      <4>1. /\ call'[c].step = "reread" /\ offer = "live" /\ media' = media \ {p}
            /\ UNCHANGED <<offer, images, torn>>
        BY <2>2, <3>3 DEF DeletePhoto
      <4>2. Cardinality(media') <= PhotoLimit
        BY <2>0, <4>1, FewerPhotos DEF WithinLimit
      <4>3. Balanced(c)'
        BY <4>1 DEF Balanced
      <4>. QED
        BY <2>1, <4>1, <4>2, <4>3
    <3>. QED
      BY <3>1, <3>2, <3>3
  <2>6. CASE InsertOffer(c)
    <3>1. /\ call[c].step = "create" /\ offer = "none" /\ offer' = "live" /\ images' = Brought
          /\ media' = media /\ call'[c].step = "fill" /\ call'[c].urls = Brought
      BY <2>2, <2>6 DEF InsertOffer, Stands
    <3>2. media = {} /\ Brought \in Portfolios
      BY <2>0, <3>1 DEF Balanced
    <3>3. Balanced(c)'
      BY <3>1, <3>2 DEF Balanced, Carried, Portfolios
    <3>. QED
      BY <2>0, <2>1, <3>1, <3>3 DEF WithinLimit
  <2>7. CASE SaveListing(c)
    <3>1. /\ call[c].step = "save" /\ offer' = offer /\ images' = Brought
          /\ media' = media /\ call'[c].step = "retire" /\ call'[c].urls = Brought
      BY <2>2, <2>7 DEF SaveListing, Stands
    <3>2. offer # "none" /\ Brought \in Portfolios
      BY <2>0, <3>1 DEF Balanced
    <3>3. Balanced(c)'
      BY <3>1, <3>2 DEF Balanced, Carried, Portfolios
    <3>. QED
      BY <2>0, <2>1, <3>1, <3>2, <3>3 DEF WithinLimit
  <2>8. CASE RetireAll(c)
    <3>1. /\ call[c].step = "retire" /\ offer' = offer /\ images' = images
          /\ media' = {} /\ call'[c].step = "fill" /\ call'[c].urls = Brought
      BY <2>2, <2>8 DEF RetireAll, Stands
    <3>2. offer # "none" /\ Brought \in Portfolios /\ images = Brought
      BY <2>0, <3>1 DEF Balanced
    <3>3. Balanced(c)'
      BY <3>1, <3>2 DEF Balanced, Carried, Portfolios
    <3>4. Cardinality(media') <= PhotoLimit
      BY <2>0, <3>1, FewerPhotos DEF WithinLimit
    <3>. QED
      BY <2>1, <3>1, <3>2, <3>3, <3>4
  <2>9. CASE FillOne(c)
    <3>1. PICK p \in Brought : media' = media \cup {p} /\ Goes(c, "fill", Brought \ {p})
      BY <2>9 DEF FillOne
    <3>2. /\ call[c].step = "fill" /\ offer' = offer /\ images' = images
          /\ call'[c].step = "fill" /\ call'[c].urls = Brought \ {p}
      BY <2>2, <2>9, <3>1 DEF FillOne, Stands
    <3>3. offer # "none" /\ images = media \cup Brought /\ media \cup Brought \in Portfolios
      BY <2>0, <3>2 DEF Balanced
    <3>4. media' \cup (Brought \ {p}) = media \cup Brought
      BY <3>1
    <3>5. Balanced(c)'
      BY <3>2, <3>3, <3>4 DEF Balanced, Carried, Portfolios
    <3>6. Cardinality(media') <= PhotoLimit
      BY <3>1, <3>3, FewerPhotos DEF Portfolios
    <3>. QED
      BY <2>1, <3>2, <3>3, <3>5, <3>6
  <2>10. CASE Filled(c)
    <3>1. /\ call[c].step = "fill" /\ Brought = {} /\ UNCHANGED <<offer, media, images>>
          /\ call'[c].step = "idle"
      BY <2>3, <2>10 DEF Filled, Stands
    <3>2. images = media
      BY <2>0, <3>1 DEF Balanced
    <3>3. Balanced(c)'
      BY <3>1, <3>2 DEF Balanced
    <3>. QED
      BY <2>0, <2>1, <3>1, <3>3 DEF WithinLimit
  <2>11. CASE InsertPhoto(c)
    <3>1. /\ call[c].step = "insert" /\ UNCHANGED <<offer, images, torn>>
          /\ media' = media \cup Brought /\ call'[c].step = "reread"
      BY <2>2, <2>11 DEF InsertPhoto, Stands
    <3>2. PICK p \in Photos : Brought = {p} /\ Cardinality(media) < PhotoLimit
      BY <2>0, <3>1 DEF Balanced
    <3>3. Cardinality(media') <= PhotoLimit
      <4>1. IsFiniteSet(media) /\ Cardinality(media) \in Nat
        BY <2>0, PhotosFinite
      <4>2. Cardinality(media \cup {p}) \in {Cardinality(media), Cardinality(media) + 1}
        BY <4>1, FS_AddElement
      <4>. QED
        BY <3>1, <3>2, <4>1, <4>2, PhotoAssumption
    <3>4. Balanced(c)'
      BY <3>1 DEF Balanced
    <3>. QED
      BY <2>0, <2>1, <3>1, <3>3, <3>4
  <2>12. CASE Reread(c)
    <3>1. /\ call[c].step = "reread" /\ UNCHANGED <<offer, media, images, torn>>
          /\ call'[c].step = "sync" /\ call'[c].urls = media
      BY <2>2, <2>12 DEF Reread, Stands
    <3>2. Balanced(c)'
      BY <3>1 DEF Balanced, Carried
    <3>. QED
      BY <2>0, <2>1, <3>1, <3>2 DEF WithinLimit
  <2>13. CASE SyncImages(c)
    <3>1. /\ call[c].step = "sync" /\ UNCHANGED <<offer, media>> /\ images' = Brought
          /\ call'[c].step = "idle"
      BY <2>3, <2>13 DEF SyncImages, Stands
    <3>2. Brought = media
      BY <2>0, <3>1 DEF Balanced
    <3>3. Balanced(c)'
      BY <3>1, <3>2 DEF Balanced
    <3>. QED
      BY <2>0, <2>1, <3>1, <3>3 DEF WithinLimit
  <2>14. CASE Die(c)
    <3>1. UNCHANGED <<offer, media, images>> /\ torn' = TRUE /\ call'[c].step = "idle"
      BY <2>3, <2>14 DEF Die
    <3>2. Balanced(c)'
      BY <3>1 DEF Balanced
    <3>. QED
      BY <2>0, <2>1, <3>1, <3>2 DEF WithinLimit
  <2>. QED
    BY <1>3, <2>4, <2>5, <2>6, <2>7, <2>8, <2>9, <2>10, <2>11, <2>12, <2>13, <2>14
<1>. QED
  BY <1>1, <1>2, <1>3 DEF PhotoNext

(* Of requests that change the photos of a listing one after the other, whatever dies
   half way, the first that goes through leaves a copy that agrees with the rows, and
   there are never more photos than allowed. *)
THEOREM PhotosStayMatched ==
  ASSUME \A c, d \in Clients : c = d PROVE PhotoSpec => []PhotosMatch
<1>1. PhotoInit => PhotoInv
  <2> SUFFICES ASSUME PhotoInit PROVE PhotoInv
    OBVIOUS
  <2>1. Cardinality(media) <= PhotoLimit
    BY FS_EmptySet, PhotoAssumption DEF PhotoInit
  <2>2. \A c \in Clients : call[c].step = "idle"
    BY DEF PhotoInit, NoCall
  <2>. QED
    BY <2>1, <2>2 DEF PhotoInit, PhotoInv, Balanced, WithinLimit
<1>2. PhotoTypeOK /\ PhotoInv /\ [PhotoNext]_photoVars => PhotoInv'
  BY PhotoStep
<1>3. PhotoInv => PhotosMatch
  <2> SUFFICES ASSUME PhotoInv, ~torn, \A c \in Clients : call[c] = NoCall PROVE images = media
    BY DEF PhotoInv, PhotosMatch, CopyAgrees
  <2>1. ASSUME NEW c \in Clients PROVE images = media
    <3>1. Balanced(c)
      BY DEF PhotoInv
    <3>2. call[c].step = "idle"
      BY DEF NoCall
    <3>. QED
      BY <3>1, <3>2 DEF Balanced
  <2>. QED
    BY <2>1 DEF PhotoInv
<1>. QED
  BY <1>1, <1>2, <1>3, PhotoTypes, PTL DEF PhotoSpec

-----------------------------------------------------------------------------
(* Places. *)
Edits == {NoProposal} \cup [place : Spots, row : PlaceRows]

LEMMA RowTyped ==
  ASSUME NEW k \in Kinds, NEW u \in TopStates \cup Spots, NEW d \in Spots \cup {NoPlace},
         NEW n \in Labels
  PROVE  /\ Row(k, u, d, n) \in PlaceRows /\ Row(k, u, d, n) # NotAdded
         /\ Row(k, u, d, n).kind = k /\ Row(k, u, d, n).under = u /\ Row(k, u, d, n).name = n
  BY DEF Row, PlaceRows, NotAdded, Kinds

LEMMA PlaceTyped ==
  ASSUME AdminTypeOK, NEW i \in Spots, place[i] # NotAdded PROVE place[i] \in PlaceRows
  BY DEF AdminTypeOK

(* Every request that adds or moves a place ends in a proposal of a row. *)
LEMMA AllPropose ==
  ASSUME AdminTypeOK, NEW a \in Curators, NEW i \in Spots, NEW n \in Labels,
         \/ \E s \in TopStates :
              \/ CreateDistrict(a, i, s, n) \/ UpdateDistrict(a, i, s, n)
              \/ \E d \in Spots \cup {NoPlace} : CreateCity(a, i, s, d, n) \/ UpdateCity(a, i, s, d, n)
         \/ \E c \in Spots :
              \/ CreateLocality(a, i, c, n) \/ UpdateLocality(a, i, c, n)
              \/ \E d \in Spots \cup {NoPlace} : CreatePincode(a, i, c, d, n) \/ UpdatePincode(a, i, c, d, n)
  PROVE  \E row \in PlaceRows : Propose(a, i, row)
<1>1. NoPlace \in Spots \cup {NoPlace} /\ Kinds = {"district", "city", "locality", "pincode"}
  BY DEF Kinds
<1>2. \E k \in Kinds, u \in TopStates \cup Spots, d \in Spots \cup {NoPlace} :
        Propose(a, i, Row(k, u, d, n))
  <2>1. ASSUME NEW s \in TopStates, CreateDistrict(a, i, s, n) \/ UpdateDistrict(a, i, s, n)
        PROVE  \E k \in Kinds, u \in TopStates \cup Spots, d \in Spots \cup {NoPlace} :
                 Propose(a, i, Row(k, u, d, n))
    <3>1. Propose(a, i, Row("district", s, NoPlace, n))
      BY <2>1 DEF CreateDistrict, UpdateDistrict
    <3>. QED
      BY <1>1, <3>1
  <2>2. ASSUME NEW s \in TopStates, NEW d \in Spots \cup {NoPlace},
               CreateCity(a, i, s, d, n) \/ UpdateCity(a, i, s, d, n)
        PROVE  \E k \in Kinds, u \in TopStates \cup Spots, e \in Spots \cup {NoPlace} :
                 Propose(a, i, Row(k, u, e, n))
    <3>1. Propose(a, i, Row("city", s, d, n))
      BY <2>2 DEF CreateCity, UpdateCity
    <3>. QED
      BY <1>1, <3>1
  <2>3. ASSUME NEW c \in Spots, CreateLocality(a, i, c, n) \/ UpdateLocality(a, i, c, n)
        PROVE  \E k \in Kinds, u \in TopStates \cup Spots, d \in Spots \cup {NoPlace} :
                 Propose(a, i, Row(k, u, d, n))
    <3>1. Propose(a, i, Row("locality", c, NoPlace, n))
      BY <2>3 DEF CreateLocality, UpdateLocality
    <3>. QED
      BY <1>1, <3>1
  <2>4. ASSUME NEW c \in Spots, NEW d \in Spots \cup {NoPlace},
               CreatePincode(a, i, c, d, n) \/ UpdatePincode(a, i, c, d, n)
        PROVE  \E k \in Kinds, u \in TopStates \cup Spots, e \in Spots \cup {NoPlace} :
                 Propose(a, i, Row(k, u, e, n))
    <3>1. Propose(a, i, Row("pincode", c, d, n))
      BY <2>4 DEF CreatePincode, UpdatePincode
    <3>. QED
      BY <1>1, <3>1
  <2>. QED
    BY <2>1, <2>2, <2>3, <2>4
<1>3. PICK k \in Kinds, u \in TopStates \cup Spots, d \in Spots \cup {NoPlace} :
        Propose(a, i, Row(k, u, d, n))
  BY <1>2
<1>4. Row(k, u, d, n) \in PlaceRows
  BY RowTyped
<1>. QED
  BY <1>3, <1>4

(* So does every new record of a file in a staged row. *)
LEMMA AllFiled ==
  ASSUME AdminTypeOK, NEW i \in Spots, NEW n \in Labels,
         \/ \E s \in TopStates :
              StageDistrict(i, s, n) \/ \E d \in Spots \cup {NoPlace} : StageCity(i, s, d, n)
         \/ \E c \in Spots : StageLocality(i, c, n) \/ StagePincode(i, c, n)
  PROVE  \E row \in PlaceRows : StageInsert(i, row)
<1>1. NoPlace \in Spots \cup {NoPlace} /\ Kinds = {"district", "city", "locality", "pincode"}
  BY DEF Kinds
<1>2. ASSUME NEW s \in TopStates, StageDistrict(i, s, n)
      PROVE  \E row \in PlaceRows : StageInsert(i, row)
  <2>1. Row("district", s, NoPlace, n) \in PlaceRows
    BY <1>1, RowTyped
  <2>. QED
    BY <1>2, <2>1 DEF StageDistrict
<1>3. ASSUME NEW s \in TopStates, NEW d \in Spots \cup {NoPlace}, StageCity(i, s, d, n)
      PROVE  \E row \in PlaceRows : StageInsert(i, row)
  <2>1. Row("city", s, d, n) \in PlaceRows
    BY <1>1, RowTyped
  <2>. QED
    BY <1>3, <2>1 DEF StageCity
<1>4. ASSUME NEW c \in Spots, StageLocality(i, c, n)
      PROVE  \E row \in PlaceRows : StageInsert(i, row)
  <2>1. Row("locality", c, NoPlace, n) \in PlaceRows
    BY <1>1, RowTyped
  <2>. QED
    BY <1>4, <2>1 DEF StageLocality
<1>5. ASSUME NEW c \in Spots, StagePincode(i, c, n)
      PROVE  \E row \in PlaceRows : StageInsert(i, row)
  <2>1. place[c] # NotAdded
    BY <1>5 DEF StagePincode, Of, NotAdded
  <2>2. PICK d \in Spots \cup {NoPlace} : d = place[c].district
    BY <2>1, PlaceTyped DEF PlaceRows
  <2>3. Row("pincode", c, d, n) \in PlaceRows
    BY <1>1, RowTyped
  <2>. QED
    BY <1>5, <2>2, <2>3 DEF StagePincode
<1>. QED
  BY <1>2, <1>3, <1>4, <1>5

LEMMA AdminTypes == AdminSpec => []AdminTypeOK
<1>1. AdminInit => AdminTypeOK
  BY DEF AdminInit, AdminTypeOK
<1>2. AdminTypeOK /\ [AdminNext]_adminVars => AdminTypeOK'
  <2> SUFFICES ASSUME AdminTypeOK, [AdminNext]_adminVars PROVE AdminTypeOK'
    OBVIOUS
  <2>1. ASSUME NEW a \in Curators, NEW i \in Spots, NEW row \in PlaceRows, Propose(a, i, row)
        PROVE  AdminTypeOK'
    BY <2>1 DEF Propose, AdminTypeOK
  <2>a. ASSUME NEW i \in Spots, NEW row \in PlaceRows, StageInsert(i, row) PROVE AdminTypeOK'
    BY <2>a DEF StageInsert, AdminTypeOK
  <2>b. ASSUME NEW i \in Spots, NEW d \in Spots, StageCityUpdate(i, d) PROVE AdminTypeOK'
    <3>1. place[i] \in PlaceRows
      BY <2>b, PlaceTyped DEF StageCityUpdate, Of, NotAdded
    <3>2. [place[i] EXCEPT !.district = d] \in PlaceRows
      BY <3>1 DEF PlaceRows
    <3>. QED
      BY <2>b, <3>2 DEF StageCityUpdate, AdminTypeOK
  <2>c. ASSUME NEW i \in Spots, ImportInsert(i) PROVE AdminTypeOK'
    BY <2>c DEF ImportInsert, AdminTypeOK
  <2>d. ASSUME NEW i \in Spots, ImportUpdate(i) PROVE AdminTypeOK'
    <3>1. place[i] \in PlaceRows /\ onFile[i] \in PlaceRows
      BY <2>d DEF ImportUpdate, AdminTypeOK
    <3>2. [place[i] EXCEPT !.district = onFile[i].district] \in PlaceRows
      BY <3>1 DEF PlaceRows
    <3>3. place' = [place EXCEPT ![i] = [place[i] EXCEPT !.district = onFile[i].district]]
      BY <2>d DEF ImportUpdate, AdminTypeOK
    <3>. QED
      BY <2>d, <3>2, <3>3 DEF ImportUpdate, AdminTypeOK
  <2>2. ASSUME NEW a \in Curators, CommitEdit(a) PROVE AdminTypeOK'
    <3>1. proposal[a].place \in Spots /\ proposal[a].row \in PlaceRows
      BY <2>2 DEF CommitEdit, AdminTypeOK
    <3>. QED
      BY <2>2, <3>1 DEF CommitEdit, AdminTypeOK
  <2>3. ASSUME NEW a \in Curators, AbandonEdit(a) PROVE AdminTypeOK'
    BY <2>3 DEF AbandonEdit, AdminTypeOK
  <2>4. CASE UNCHANGED adminVars
    BY <2>4 DEF adminVars, AdminTypeOK
  <2>. QED
    BY <2>1, <2>2, <2>3, <2>4, <2>a, <2>b, <2>c, <2>d, AllPropose, AllFiled
       DEF AdminNext, CurateNext, PlaceImportNext
<1>. QED
  BY <1>1, <1>2, PTL DEF AdminSpec

(* Two places that are namesakes. *)
Clash(r, t) == r.kind = t.kind /\ r.under = t.under /\ r.name = t.name

(* What a request is about to write has no namesake but the place it replaces, and
   those an import has added. *)
SiblingInv ==
  /\ \A i, j \in Spots \ imported :
       i # j /\ place[i] # NotAdded /\ place[j] # NotAdded => ~Clash(place[i], place[j])
  /\ \A a \in Curators : proposal[a] # NoProposal =>
       \A j \in (Spots \ imported) \ {proposal[a].place} :
         place[j] # NotAdded => ~Clash(place[j], proposal[a].row)

LEMMA SiblingStep ==
  ASSUME \A a, b \in Curators : a = b, AdminTypeOK, SiblingInv, [AdminNext]_adminVars
  PROVE  SiblingInv'
<1>1. ASSUME NEW a \in Curators, NEW i \in Spots, NEW row \in PlaceRows, Propose(a, i, row)
      PROVE  SiblingInv'
  <2>1. PICK x : x = [place |-> i, row |-> row]
    OBVIOUS
  <2>2. /\ proposal' = [proposal EXCEPT ![a] = x] /\ place' = place /\ imported' = imported
        /\ x.place = i /\ x.row = row
    BY <1>1, <2>1 DEF Propose
  <2>3. ASSUME NEW j \in Spots \ {i}, place[j] # NotAdded PROVE ~Clash(place[j], row)
    BY <1>1, <2>3 DEF Propose, Namesake, Of, Clash
  <2>4. \A b \in Curators : b = a /\ proposal'[b] = x
    BY <1>1, <2>2 DEF AdminTypeOK
  <2>. QED
    BY <2>2, <2>3, <2>4 DEF SiblingInv, Clash
<1>2. ASSUME NEW a \in Curators, CommitEdit(a) PROVE SiblingInv'
  <2>1. /\ proposal[a] # NoProposal /\ proposal[a].place \in Spots /\ proposal[a].row \in PlaceRows
        /\ proposal' = [proposal EXCEPT ![a] = NoProposal]
        /\ place' = [place EXCEPT ![proposal[a].place] = proposal[a].row]
        /\ imported' = imported \ {proposal[a].place}
    BY <1>2 DEF CommitEdit, AdminTypeOK
  <2>2. \A j \in Spots : place'[j] = IF j = proposal[a].place THEN proposal[a].row ELSE place[j]
    BY <2>1 DEF AdminTypeOK
  <2>3. \A b \in Curators : proposal'[b] = NoProposal
    BY <2>1 DEF AdminTypeOK
  <2>4. \A j \in (Spots \ imported) \ {proposal[a].place} :
          place[j] # NotAdded => ~Clash(place[j], proposal[a].row)
    BY <2>1 DEF SiblingInv
  <2>5. ASSUME NEW i \in Spots \ imported', NEW j \in Spots \ imported', i # j,
               place'[i] # NotAdded, place'[j] # NotAdded
        PROVE  ~Clash(place'[i], place'[j])
    BY <2>1, <2>2, <2>4, <2>5 DEF SiblingInv, Clash
  <2>. QED
    BY <2>3, <2>5 DEF SiblingInv, Clash
<1>3. ASSUME NEW a \in Curators, AbandonEdit(a) PROVE SiblingInv'
  BY <1>3 DEF AbandonEdit, AdminTypeOK, SiblingInv, Clash
<1>4. CASE UNCHANGED adminVars
  BY <1>4 DEF adminVars, SiblingInv, Clash
<1>5. ASSUME NEW i \in Spots, NEW row \in PlaceRows, StageInsert(i, row) PROVE SiblingInv'
  BY <1>5 DEF StageInsert, SiblingInv, Clash
<1>a. ASSUME NEW i \in Spots, NEW d \in Spots, StageCityUpdate(i, d) PROVE SiblingInv'
  BY <1>a DEF StageCityUpdate, SiblingInv, Clash
<1>6. ASSUME NEW i \in Spots, ImportInsert(i) PROVE SiblingInv'
  <2>1. \A j \in Spots \ {i} : place'[j] = place[j]
    BY <1>6 DEF ImportInsert, AdminTypeOK
  <2>2. imported' = imported \cup {i} /\ proposal' = proposal
    BY <1>6 DEF ImportInsert
  <2>. QED
    BY <2>1, <2>2 DEF SiblingInv, Clash
<1>7. ASSUME NEW i \in Spots, ImportUpdate(i) PROVE SiblingInv'
  <2>1. place[i] \in PlaceRows /\ place[i] # NotAdded
    BY <1>7 DEF ImportUpdate, AdminTypeOK
  <2>2. PICK d : d = onFile[i].district
    OBVIOUS
  <2>3. place' = [place EXCEPT ![i] = [place[i] EXCEPT !.district = d]]
    BY <1>7, <2>2 DEF ImportUpdate, AdminTypeOK
  <2>4. \A j \in Spots : place'[j] = IF j = i THEN [place[i] EXCEPT !.district = d] ELSE place[j]
    BY <2>3 DEF AdminTypeOK
  <2>5. ASSUME NEW j \in Spots, place'[j] # NotAdded
        PROVE  /\ place[j] # NotAdded /\ place'[j].kind = place[j].kind
               /\ place'[j].under = place[j].under /\ place'[j].name = place[j].name
    BY <2>1, <2>4, <2>5 DEF PlaceRows
  <2>6. imported' = imported /\ proposal' = proposal
    BY <1>7 DEF ImportUpdate
  <2>. QED
    BY <2>5, <2>6 DEF SiblingInv, Clash
<1>8. CASE CurateNext
  BY <1>1, <1>2, <1>3, <1>8, AllPropose DEF CurateNext
<1>9. CASE PlaceImportNext
  <2>1. ASSUME NEW i \in Spots, NEW n \in Labels,
               \/ \E s \in TopStates :
                    StageDistrict(i, s, n) \/ \E d \in Spots \cup {NoPlace} : StageCity(i, s, d, n)
               \/ \E c \in Spots : StageLocality(i, c, n) \/ StagePincode(i, c, n)
        PROVE  SiblingInv'
    BY <1>5, <2>1, AllFiled
  <2>2. PICK i \in Spots :
          \/ ImportInsert(i) \/ ImportUpdate(i) \/ \E d \in Spots : StageCityUpdate(i, d)
          \/ \E n \in Labels :
               \/ \E s \in TopStates :
                    StageDistrict(i, s, n) \/ \E d \in Spots \cup {NoPlace} : StageCity(i, s, d, n)
               \/ \E c \in Spots : StageLocality(i, c, n) \/ StagePincode(i, c, n)
    BY <1>9 DEF PlaceImportNext
  <2>. QED
    BY <1>6, <1>7, <1>a, <2>1, <2>2
<1>. QED
  BY <1>4, <1>8, <1>9 DEF AdminNext

(* However files of places are staged and imported and one curator after another adds
   and moves districts, cities, localities and PIN codes, two of one kind, one parent
   and one name are never both places that a curator's check has passed. *)
THEOREM SiblingsStayApart ==
  ASSUME \A a, b \in Curators : a = b PROVE AdminSpec => []CuratedSiblingsDiffer
<1>1. AdminInit => SiblingInv
  BY DEF AdminInit, SiblingInv
<1>2. AdminTypeOK /\ SiblingInv /\ [AdminNext]_adminVars => SiblingInv'
  BY SiblingStep
<1>3. AdminTypeOK /\ SiblingInv => CuratedSiblingsDiffer
  <2> SUFFICES ASSUME AdminTypeOK, SiblingInv, NEW i \in Spots \ imported,
                      NEW j \in Spots \ imported, Siblings(i, j)
               PROVE  FALSE
    BY DEF CuratedSiblingsDiffer
  <2>1. /\ j # i /\ place[i] # NotAdded /\ place[j].kind = place[i].kind
        /\ place[j].under = place[i].under /\ place[j].name = place[i].name
    BY DEF Siblings
  <2>2. place[i].kind \in Kinds
    BY <2>1, PlaceTyped DEF PlaceRows
  <2>3. place[j] # NotAdded
    BY <2>1, <2>2 DEF NotAdded, Kinds
  <2>. QED
    BY <2>1, <2>3 DEF SiblingInv, Clash
<1>. QED
  BY <1>1, <1>2, <1>3, AdminTypes, PTL DEF AdminSpec

-----------------------------------------------------------------------------
(* The import of locations. *)
Confirmations == [step : {"mark", "fetch", "execute", "complete", "fail"}, of : Batches,
                  on : Servers, partial : BOOLEAN, rows : SUBSET Places]

LEMMA ConfirmationTyped ==
  ASSUME ImportTypeOK, NEW q \in Importers, importing[q] # Resting
  PROVE  importing[q] \in Confirmations
  BY DEF ImportTypeOK, Confirmations

LEMMA StepTyped ==
  ASSUME ImportTypeOK, NEW q \in Importers,
         importing[q].step \in {"mark", "fetch", "execute", "complete", "fail"}
  PROVE  importing[q] # Resting
  BY DEF Resting

LEMMA AllStage ==
  ASSUME NEW b \in Batches,
         \/ \E file \in SUBSET States : StageStateCsv(b, file)
         \/ \E file \in SUBSET Districts : StageDistrictCsv(b, file)
         \/ \E file \in SUBSET Cities : StageCityCsv(b, file)
         \/ \E file \in SUBSET Localities : StageLocalityCsv(b, file)
         \/ \E file \in SUBSET Pincodes : StagePincodeCsv(b, file)
  PROVE  \E valid : Stage(b, valid)
  BY DEF StageStateCsv, StageDistrictCsv, StageCityCsv, StageLocalityCsv, StagePincodeCsv

(* What a handler does to the rows and the status of a batch. *)
StagedAs(valid) ==
  [p \in Places |->
     IF p \in valid
     THEN [action |-> IF Known(p) THEN "UPDATE" ELSE "INSERT", state |-> "PENDING"]
     ELSE NotInFile]

LEMMA StagedTyped ==
  ASSUME NEW valid
  PROVE  /\ StagedAs(valid) \in [Places -> RowStates \cup {NotInFile}]
         /\ \A p \in Places : StagedAs(valid)[p] # NotInFile => StagedAs(valid)[p].state = "PENDING"
<1>1. \A p \in Places :
        [action |-> IF Known(p) THEN "UPDATE" ELSE "INSERT", state |-> "PENDING"] \in RowStates
  BY DEF RowStates
<1>. QED
  BY <1>1 DEF StagedAs

LEMMA SettledTyped ==
  ASSUME ImportTypeOK, NEW b \in Batches, NEW rows, NEW failing,
         \A p \in rows : p \in Places => staged[b][p] # NotInFile
  PROVE  /\ Settled(b, rows, failing) \in [Places -> RowStates \cup {NotInFile}]
         /\ \A p \in Places :
              /\ p \notin rows => Settled(b, rows, failing)[p] = staged[b][p]
              /\ p \in rows => /\ Settled(b, rows, failing)[p] \in RowStates
                               /\ Settled(b, rows, failing)[p].state =
                                    IF p \in failing THEN "FAILED" ELSE "IMPORTED"
<1>1. staged[b] \in [Places -> RowStates \cup {NotInFile}]
  BY DEF ImportTypeOK
<1>2. ASSUME NEW p \in Places, p \in rows
      PROVE  LET r == [staged[b][p] EXCEPT !.state = IF p \in failing THEN "FAILED" ELSE "IMPORTED"]
             IN r \in RowStates /\ r.state = IF p \in failing THEN "FAILED" ELSE "IMPORTED"
  <2>1. staged[b][p] \in RowStates
    BY <1>1, <1>2
  <2>. QED
    BY <2>1 DEF RowStates
<1>. QED
  BY <1>1, <1>2 DEF Settled

(* A confirmation under way is of a batch that is staged, and holds rows of it. *)
HeldRows ==
  \A q \in Importers : importing[q] # Resting =>
    /\ batch[importing[q].of] # "none"
    /\ \A p \in importing[q].rows : staged[importing[q].of][p] # NotInFile

Staged(b) == {p \in Places : staged[b][p] # NotInFile}
Pending(b) == {p \in Staged(b) : staged[b][p].state = "PENDING"}
Imported(b) == {p \in Staged(b) : staged[b][p].state = "IMPORTED"}

(* One confirmation at most is under way. *)
OneImport ==
  \A q, r \in Importers : importing[q] # Resting /\ importing[r] # Resting => q = r

(* Its batch is marked, and the rows it is to write are those still pending. *)
MarkedWell ==
  \A q \in Importers : importing[q] # Resting =>
    LET b == importing[q].of IN
      /\ importing[q].step = "mark" => batch[b] \in {"VALIDATED", "FAILED"}
      /\ importing[q].step # "mark" => batch[b] = "IMPORTING"
      /\ importing[q].step = "execute" => importing[q].rows = Pending(b)
      /\ b \notin partly =>
           /\ importing[q].step \in {"fetch", "execute", "fail"} => Pending(b) = Staged(b)
           /\ importing[q].step = "complete" => Imported(b) = Staged(b)

(* A row that is still pending, or in no file, has been inserted by nobody; a batch
   that was never run in parts is pending as a whole or imported as a whole, and its
   status says which. *)
RowsWell ==
  /\ \A b \in Batches, p \in Places : imports[b][p] <= 1
  /\ \A b \in Batches, p \in Places : imports[b][p] = 1 => p \in Staged(b) \ Pending(b)
  /\ \A b \in Batches : batch[b] = "none" => Staged(b) = {}
  /\ \A b \in Batches \ partly :
       /\ Pending(b) = Staged(b) \/ Imported(b) = Staged(b)
       /\ batch[b] \in {"VALIDATED", "FAILED"} => Pending(b) = Staged(b)
       /\ batch[b] = "COMPLETED" => Imported(b) = Staged(b)


(* A confirmation goes on. *)
LEMMA Advances ==
  ASSUME ImportTypeOK, NEW q \in Importers, importing[q] # Resting,
         NEW s \in {"mark", "fetch", "execute", "complete", "fail"}, NEW rows \in SUBSET Places,
         \/ Advance(q, s) /\ rows = importing[q].rows
         \/ importing' = [importing EXCEPT ![q].step = s, ![q].rows = rows]
  PROVE  /\ importing' \in [Importers -> {Resting} \cup Confirmations]
         /\ importing'[q] # Resting /\ importing'[q].step = s /\ importing'[q].rows = rows
         /\ importing'[q].of = importing[q].of /\ importing'[q].on = importing[q].on
         /\ \A r \in Importers \ {q} : importing'[r] = importing[r]
<1>1. importing[q] \in Confirmations
  BY ConfirmationTyped
<1>2. PICK x : x = [importing[q] EXCEPT !.step = s, !.rows = rows]
  OBVIOUS
<1>3. /\ x \in Confirmations /\ x.step = s /\ x.rows = rows /\ x.of = importing[q].of
      /\ x.on = importing[q].on
  BY <1>1, <1>2 DEF Confirmations
<1>4. importing' = [importing EXCEPT ![q] = x]
  <2>1. CASE Advance(q, s) /\ rows = importing[q].rows
    <3>1. x = [importing[q] EXCEPT !.step = s]
      BY <1>1, <1>2, <2>1 DEF Confirmations
    <3>. QED
      BY <2>1, <3>1 DEF Advance, ImportTypeOK
  <2>2. CASE importing' = [importing EXCEPT ![q].step = s, ![q].rows = rows]
    BY <1>2, <2>2 DEF ImportTypeOK
  <2>. QED
    BY <2>1, <2>2
<1>5. x # Resting
  BY <1>3 DEF Confirmations, Resting
<1>6. importing \in [Importers -> {Resting} \cup Confirmations]
  BY DEF ImportTypeOK, Confirmations
<1>. QED
  BY <1>3, <1>4, <1>5, <1>6

TypedInv == ImportTypeOK /\ HeldRows

LEMMA TypedConfirm ==
  ASSUME TypedInv, NEW q \in Importers, NEW b \in Batches, NEW s \in Servers,
         NEW partial \in BOOLEAN, Confirm(q, b, s, partial)
  PROVE  TypedInv'
<1> USE DEF TypedInv
<1>1. PICK x : x = [step |-> "mark", of |-> b, on |-> s, partial |-> partial, rows |-> {}]
  OBVIOUS
<1>2. x \in Confirmations /\ x.of = b /\ x.rows = {}
  BY <1>1 DEF Confirmations
<1>3. /\ importing' = [importing EXCEPT ![q] = x] /\ batch[b] \in {"VALIDATED", "FAILED"}
      /\ UNCHANGED <<known, batch, staged, imports, partly>>
  BY <1>1 DEF Confirm
<1>4. ImportTypeOK'
  BY <1>2, <1>3 DEF ImportTypeOK, Confirmations
<1>5. HeldRows'
  BY <1>2, <1>3 DEF ImportTypeOK, HeldRows
<1>. QED
  BY <1>4, <1>5

LEMMA TypedStage ==
  ASSUME TypedInv, NEW b \in Batches, NEW valid, Stage(b, valid)
  PROVE  TypedInv'
<1> USE DEF TypedInv
<1>1. /\ batch[b] = "none" /\ batch' = [batch EXCEPT ![b] = "VALIDATED"]
      /\ staged' = [staged EXCEPT ![b] = StagedAs(valid)]
      /\ UNCHANGED <<known, importing, imports, partly>>
  BY DEF Stage, StagedAs
<1>2. ImportTypeOK'
  BY <1>1, StagedTyped DEF ImportTypeOK
<1>3. HeldRows'
  <2> SUFFICES ASSUME NEW q \in Importers, importing[q] # Resting
               PROVE  /\ batch'[importing[q].of] # "none"
                      /\ \A p \in importing[q].rows : staged'[importing[q].of][p] # NotInFile
    BY <1>1 DEF HeldRows
  <2>1. importing[q].of \in Batches
    BY ConfirmationTyped DEF Confirmations
  <2>2. batch[importing[q].of] # "none"
    BY DEF HeldRows
  <2>3. importing[q].of # b
    BY <1>1, <2>2
  <2>4. batch'[importing[q].of] = batch[importing[q].of]
        /\ staged'[importing[q].of] = staged[importing[q].of]
    BY <1>1, <2>1, <2>3 DEF ImportTypeOK
  <2>. QED
    BY <2>4 DEF HeldRows
<1>. QED
  BY <1>2, <1>3

LEMMA TypedMark ==
  ASSUME TypedInv, NEW q \in Importers, MarkImporting(q)
  PROVE  TypedInv'
<1> USE DEF TypedInv
<1>1. importing[q].step = "mark" /\ importing[q] # Resting
  <2>1. importing[q].step = "mark"
    BY DEF MarkImporting
  <2>. QED
    BY <2>1, StepTyped
<1>2. importing[q] \in Confirmations
  BY <1>1, ConfirmationTyped
<1>3. /\ importing' \in [Importers -> {Resting} \cup Confirmations]
      /\ importing'[q].rows = importing[q].rows /\ importing'[q].of = importing[q].of
      /\ \A r \in Importers \ {q} : importing'[r] = importing[r]
  <2>1. PICK rows \in SUBSET Places : rows = importing[q].rows
    BY <1>2 DEF Confirmations
  <2>2. Advance(q, "fetch")
    BY DEF MarkImporting
  <2>3. /\ importing' \in [Importers -> {Resting} \cup Confirmations]
        /\ importing'[q].rows = rows /\ importing'[q].of = importing[q].of
        /\ \A r \in Importers \ {q} : importing'[r] = importing[r]
    BY <1>1, <2>1, <2>2, Advances DEF Advance
  <2>. QED
    BY <2>1, <2>3
<1>4. /\ batch' = [batch EXCEPT ![importing[q].of] = "IMPORTING"]
      /\ UNCHANGED <<known, staged, imports, partly>>
  BY DEF MarkImporting
<1>5. ImportTypeOK'
  BY <1>2, <1>3, <1>4 DEF ImportTypeOK, Confirmations
<1>6. HeldRows'
  <2> SUFFICES ASSUME NEW r \in Importers, importing'[r] # Resting
               PROVE  /\ batch'[importing'[r].of] # "none"
                      /\ \A p \in importing'[r].rows : staged[importing'[r].of][p] # NotInFile
    BY <1>4 DEF HeldRows
  <2>1. /\ importing[r] # Resting /\ importing'[r].of = importing[r].of
        /\ importing'[r].rows = importing[r].rows
    BY <1>1, <1>3
  <2>2. importing[r].of \in Batches
    BY <2>1, ConfirmationTyped DEF Confirmations
  <2>. QED
    BY <1>4, <2>1, <2>2 DEF ImportTypeOK, HeldRows
<1>. QED
  BY <1>5, <1>6

LEMMA TypedFetch ==
  ASSUME TypedInv, NEW q \in Importers, FetchPending(q)
  PROVE  /\ TypedInv' /\ importing[q] # Resting /\ importing'[q].step = "execute"
         /\ importing'[q].rows = Pending(importing[q].of) /\ importing'[q].of = importing[q].of
         /\ \A r \in Importers \ {q} : importing'[r] = importing[r]
<1> USE DEF TypedInv
<1>1. importing[q].step = "fetch" /\ importing[q] # Resting
  <2>1. importing[q].step = "fetch"
    BY DEF FetchPending
  <2>. QED
    BY <2>1, StepTyped
<1>2. Pending(importing[q].of) \in SUBSET Places
  BY DEF Pending, Staged
<1>3. importing' = [importing EXCEPT ![q].step = "execute", ![q].rows = Pending(importing[q].of)]
  <2>1. Pending(importing[q].of) = {p \in Places : staged[importing[q].of][p] # NotInFile
                                      /\ staged[importing[q].of][p].state = "PENDING"}
    BY DEF Pending, Staged
  <2>. QED
    BY <2>1 DEF FetchPending
<1>4. /\ importing' \in [Importers -> {Resting} \cup Confirmations]
      /\ importing'[q].rows = Pending(importing[q].of) /\ importing'[q].of = importing[q].of
      /\ importing'[q].step = "execute"
      /\ \A r \in Importers \ {q} : importing'[r] = importing[r]
  <2>1. PICK rows \in SUBSET Places : rows = Pending(importing[q].of)
    BY <1>2
  <2>2. importing' = [importing EXCEPT ![q].step = "execute", ![q].rows = rows]
    BY <1>3, <2>1
  <2>3. /\ importing' \in [Importers -> {Resting} \cup Confirmations]
        /\ importing'[q].rows = rows /\ importing'[q].of = importing[q].of
        /\ importing'[q].step = "execute"
        /\ \A r \in Importers \ {q} : importing'[r] = importing[r]
    BY <1>1, <2>2, Advances
  <2>. QED
    BY <2>1, <2>3
<1>5. UNCHANGED <<known, batch, staged, imports, partly>>
  BY DEF FetchPending
<1>6. ImportTypeOK'
  BY <1>4, <1>5 DEF ImportTypeOK, Confirmations
<1>7. HeldRows'
  <2> SUFFICES ASSUME NEW r \in Importers, importing'[r] # Resting
               PROVE  /\ batch[importing'[r].of] # "none"
                      /\ \A p \in importing'[r].rows : staged[importing'[r].of][p] # NotInFile
    BY <1>5 DEF HeldRows
  <2>1. \A p \in Pending(importing[q].of) : staged[importing[q].of][p] # NotInFile
    BY DEF Pending, Staged
  <2>. QED
    BY <1>1, <1>4, <2>1 DEF HeldRows
<1>. QED
  BY <1>1, <1>4, <1>6, <1>7

LEMMA TypedRest ==
  ASSUME TypedInv, NEW q \in Importers, Conclude(q)
  PROVE  TypedInv'
<1> USE DEF TypedInv
<1>1. importing[q] \in Confirmations
  <2>1. importing[q].step \in {"complete", "fail"}
    BY DEF Conclude
  <2>. QED
    BY <2>1, StepTyped, ConfirmationTyped
<1>2. PICK s \in {"COMPLETED", "FAILED"} : batch' = [batch EXCEPT ![importing[q].of] = s]
  BY DEF Conclude
<1>3. /\ importing' = [importing EXCEPT ![q] = Resting]
      /\ UNCHANGED <<known, staged, imports, partly>>
  BY DEF Conclude, Rest
<1>4. ImportTypeOK'
  BY <1>1, <1>2, <1>3 DEF ImportTypeOK, Confirmations
<1>5. HeldRows'
  <2> SUFFICES ASSUME NEW r \in Importers, importing'[r] # Resting
               PROVE  /\ batch'[importing'[r].of] # "none"
                      /\ \A p \in importing'[r].rows : staged[importing'[r].of][p] # NotInFile
    BY <1>3 DEF HeldRows
  <2>1. importing[r] # Resting /\ importing'[r] = importing[r]
    BY <1>3 DEF ImportTypeOK
  <2>2. importing[r].of \in Batches
    BY <2>1, ConfirmationTyped DEF Confirmations
  <2>. QED
    BY <1>2, <2>1, <2>2 DEF ImportTypeOK, HeldRows
<1>. QED
  BY <1>4, <1>5

LEMMA TypedCrash ==
  ASSUME TypedInv, NEW s \in Servers, ServerCrash(s)
  PROVE  /\ TypedInv' /\ UNCHANGED <<known, batch, staged, imports, partly>>
         /\ \A q \in Importers : importing'[q] = Resting \/ importing'[q] = importing[q]
<1>1. \A q \in Importers : importing'[q] = Resting \/ importing'[q] = importing[q]
  BY DEF ServerCrash
<1>2. UNCHANGED <<known, batch, staged, imports, partly>>
  BY DEF ServerCrash
<1>3. importing' \in [Importers -> {Resting} \cup Confirmations]
  BY DEF ServerCrash, TypedInv, ImportTypeOK, Confirmations
<1>4. ImportTypeOK'
  BY <1>2, <1>3 DEF TypedInv, ImportTypeOK, Confirmations
<1>5. HeldRows'
  BY <1>1, <1>2 DEF TypedInv, HeldRows
<1>. QED
  BY <1>1, <1>2, <1>4, <1>5 DEF TypedInv

(* What the commit of an import does, when nothing aborts it. *)
LEMMA ExecuteParts ==
  ASSUME TypedInv, NEW q \in Importers, NEW failing \in SUBSET Places, Execute(q, failing),
         NEW b, b = importing[q].of, NEW rows, rows = importing[q].rows
  PROVE  /\ b \in Batches /\ rows \in SUBSET Places /\ importing[q] # Resting
         /\ importing[q].step = "execute" /\ batch' = batch
         /\ importing'[q].of = b
         /\ \A r \in Importers \ {q} : importing'[r] = importing[r]
         /\ importing' \in [Importers -> {Resting} \cup Confirmations]
         /\ importing'[q] # Resting /\ importing'[q].rows = rows
         /\ \/ importing'[q].step = "fail" /\ UNCHANGED <<known, staged, imports, partly>>
            \/ /\ importing'[q].step \in {"fail", "complete"}
               /\ staged' = [staged EXCEPT ![b] = Settled(b, rows, failing)]
               /\ \A p \in Places :
                    imports'[b][p] = IF p \in NewRows(b, rows \ failing) THEN imports[b][p] + 1
                                     ELSE imports[b][p]
               /\ imports' \in [Batches -> [Places -> Nat]]
               /\ \A c \in Batches \ {b} : imports'[c] = imports[c]
               /\ known' \in [Places -> Nat]
               /\ partly \subseteq partly' /\ partly' \subseteq partly \cup {b}
               /\ b \notin partly' => failing = {} /\ importing'[q].step = "complete"
<1> USE DEF TypedInv
<1>1. importing[q].step = "execute" /\ importing[q] # Resting
  <2>1. importing[q].step = "execute"
    BY DEF Execute
  <2>. QED
    BY <2>1, StepTyped
<1>2. importing[q] \in Confirmations
  BY <1>1, ConfirmationTyped
<1>3. b \in Batches /\ rows \in SUBSET Places
  BY <1>2 DEF Confirmations
<1>4. ASSUME NEW s \in {"fail", "complete"}, Advance(q, s)
      PROVE  /\ importing'[q].of = b /\ importing'[q].step = s
             /\ \A r \in Importers \ {q} : importing'[r] = importing[r]
             /\ importing' \in [Importers -> {Resting} \cup Confirmations]
             /\ importing'[q] # Resting /\ importing'[q].rows = rows
  <2>1. s \in {"mark", "fetch", "execute", "complete", "fail"}
    BY <1>4
  <2>2. importing' = [importing EXCEPT ![q].step = s]
    BY <1>4 DEF Advance
  <2>3. ImportTypeOK /\ rows \in SUBSET Places /\ rows = importing[q].rows
    BY <1>3
  <2> HIDE DEF TypedInv
  <2>4. /\ importing' \in [Importers -> {Resting} \cup Confirmations]
        /\ importing'[q] # Resting /\ importing'[q].step = s /\ importing'[q].rows = rows
        /\ importing'[q].of = importing[q].of
        /\ \A r \in Importers \ {q} : importing'[r] = importing[r]
    BY <1>1, <2>1, <2>2, <2>3, Advances DEF Advance
  <2>. QED
    BY <2>4
<1>5. batch' = batch
  BY DEF Execute
<1>6. CASE Advance(q, "fail") /\ UNCHANGED <<known, staged, imports, partly>>
  <2>1. "fail" \in {"fail", "complete"}
    OBVIOUS
  <2>2. /\ importing'[q].of = b /\ importing'[q].step = "fail"
        /\ \A r \in Importers \ {q} : importing'[r] = importing[r]
        /\ importing' \in [Importers -> {Resting} \cup Confirmations]
        /\ importing'[q] # Resting /\ importing'[q].rows = rows
    BY <1>4, <1>6, <2>1 DEF Advance
  <2>. QED
    BY <1>1, <1>3, <1>5, <1>6, <2>2
<1>7. CASE ~(Advance(q, "fail") /\ UNCHANGED <<known, staged, imports, partly>>)
  <2> DEFINE new == NewRows(b, rows \ failing)
  <2>1. /\ failing # {} => importing[q].partial
        /\ known' = [p \in Places |-> IF p \in new THEN known[p] + 1 ELSE known[p]]
        /\ imports' = [imports EXCEPT ![b] = [p \in Places |-> IF p \in new THEN @[p] + 1 ELSE @[p]]]
        /\ staged' = [staged EXCEPT ![b] = Settled(b, rows, failing)]
        /\ partly' = IF importing[q].partial THEN partly \cup {b} ELSE partly
        /\ Advance(q, IF failing # {} /\ failing = rows THEN "fail" ELSE "complete")
    BY <1>7 DEF Execute
  <2> HIDE DEF new
  <2>2. PICK s \in {"fail", "complete"} : s = IF failing # {} /\ failing = rows THEN "fail" ELSE "complete"
    OBVIOUS
  <2>3. Advance(q, s)
    BY <2>1, <2>2
  <2>4. /\ importing'[q].of = b /\ importing'[q].step = s
        /\ \A r \in Importers \ {q} : importing'[r] = importing[r]
        /\ importing' \in [Importers -> {Resting} \cup Confirmations]
        /\ importing'[q] # Resting /\ importing'[q].rows = rows
    BY <1>4, <2>3 DEF Advance
  <2>5. imports[b] \in [Places -> Nat] /\ known \in [Places -> Nat]
    BY <1>3 DEF ImportTypeOK
  <2>6. known' \in [Places -> Nat]
    BY <2>1, <2>5
  <2>7. PICK row : row = [p \in Places |-> IF p \in new THEN imports[b][p] + 1 ELSE imports[b][p]]
    OBVIOUS
  <2>8. row \in [Places -> Nat] /\ imports' = [imports EXCEPT ![b] = row]
    BY <1>3, <2>1, <2>5, <2>7 DEF ImportTypeOK
  <2>9. /\ imports' \in [Batches -> [Places -> Nat]]
        /\ \A c \in Batches \ {b} : imports'[c] = imports[c]
        /\ imports'[b] = row
    BY <1>3, <2>8 DEF ImportTypeOK
  <2>10. b \notin partly' => failing = {} /\ s = "complete"
    BY <2>1, <2>2
  <2>11. \A p \in Places : imports'[b][p] = IF p \in new THEN imports[b][p] + 1 ELSE imports[b][p]
    BY <2>7, <2>9
  <2>12. partly \subseteq partly' /\ partly' \subseteq partly \cup {b}
    BY <2>1
  <2>13. staged' = [staged EXCEPT ![b] = Settled(b, rows, failing)]
    BY <2>1
  <2>. QED
    BY <1>1, <1>3, <1>5, <2>4, <2>6, <2>9, <2>10, <2>11, <2>12, <2>13 DEF new
<1>. QED
  BY <1>6, <1>7

LEMMA TypedExecute ==
  ASSUME TypedInv, NEW q \in Importers, NEW failing \in SUBSET Places, Execute(q, failing)
  PROVE  TypedInv'
<1> USE DEF TypedInv
<1>0. PICK b, rows : b = importing[q].of /\ rows = importing[q].rows
  OBVIOUS
<1>1. /\ b \in Batches /\ rows \in SUBSET Places /\ importing[q] # Resting
      /\ importing[q].step = "execute" /\ batch' = batch
      /\ importing'[q].of = b
      /\ \A r \in Importers \ {q} : importing'[r] = importing[r]
      /\ importing' \in [Importers -> {Resting} \cup Confirmations]
      /\ importing'[q] # Resting /\ importing'[q].rows = rows
      /\ \/ importing'[q].step = "fail" /\ UNCHANGED <<known, staged, imports, partly>>
         \/ /\ importing'[q].step \in {"fail", "complete"}
            /\ staged' = [staged EXCEPT ![b] = Settled(b, rows, failing)]
            /\ \A p \in Places :
                 imports'[b][p] = IF p \in NewRows(b, rows \ failing) THEN imports[b][p] + 1
                                  ELSE imports[b][p]
            /\ imports' \in [Batches -> [Places -> Nat]]
            /\ \A c \in Batches \ {b} : imports'[c] = imports[c]
            /\ known' \in [Places -> Nat]
            /\ partly \subseteq partly' /\ partly' \subseteq partly \cup {b}
            /\ b \notin partly' => failing = {} /\ importing'[q].step = "complete"
  <2>1. TypedInv
    OBVIOUS
  <2> HIDE DEF TypedInv
  <2>. QED
    BY <1>0, <2>1, ExecuteParts
<1>2. \A p \in rows : staged[b][p] # NotInFile
  BY <1>0, <1>1 DEF HeldRows
<1>3. PICK new : new = Settled(b, rows, failing)
  OBVIOUS
<1>4. /\ new \in [Places -> RowStates \cup {NotInFile}]
      /\ \A p \in Places : staged[b][p] # NotInFile => new[p] # NotInFile
  <2>1. \A r \in RowStates : r # NotInFile
    BY DEF RowStates, NotInFile
  <2>2. /\ Settled(b, rows, failing) \in [Places -> RowStates \cup {NotInFile}]
        /\ \A p \in Places : /\ p \notin rows => Settled(b, rows, failing)[p] = staged[b][p]
                             /\ p \in rows => Settled(b, rows, failing)[p] \in RowStates
    BY <1>1, <1>2, SettledTyped
  <2>. QED
    BY <1>3, <2>1, <2>2
<1>5. staged' = staged \/ staged' = [staged EXCEPT ![b] = new]
  BY <1>1, <1>3
<1>6. /\ staged' \in [Batches -> [Places -> RowStates \cup {NotInFile}]]
      /\ \A c \in Batches, p \in Places : staged[c][p] # NotInFile => staged'[c][p] # NotInFile
  <2>1. staged \in [Batches -> [Places -> RowStates \cup {NotInFile}]]
    BY DEF ImportTypeOK
  <2>2. b \in Batches
    BY <1>1
  <2>3. CASE staged' = staged
    BY <2>1, <2>3
  <2>4. CASE staged' = [staged EXCEPT ![b] = new]
    <3>1. staged' \in [Batches -> [Places -> RowStates \cup {NotInFile}]]
      BY <1>4, <2>1, <2>2, <2>4
    <3>2. \A c \in Batches : staged'[c] = IF c = b THEN new ELSE staged[c]
      BY <2>1, <2>2, <2>4
    <3>. QED
      BY <1>4, <3>1, <3>2
  <2>. QED
    BY <1>5, <2>3, <2>4
<1>7. ImportTypeOK'
  BY <1>1, <1>6 DEF ImportTypeOK, Confirmations
<1>8. HeldRows'
  <2> SUFFICES ASSUME NEW r \in Importers, importing'[r] # Resting
               PROVE  /\ batch[importing'[r].of] # "none"
                      /\ \A p \in importing'[r].rows : staged'[importing'[r].of][p] # NotInFile
    BY <1>1 DEF HeldRows
  <2>1. /\ importing[r] # Resting /\ importing'[r].of = importing[r].of
        /\ importing'[r].rows = importing[r].rows
    BY <1>0, <1>1
  <2>2. importing[r].of \in Batches /\ importing[r].rows \in SUBSET Places
    BY <2>1, ConfirmationTyped DEF Confirmations
  <2>. QED
    BY <1>6, <2>1, <2>2 DEF HeldRows
<1>. QED
  BY <1>7, <1>8

LEMMA ImportTyped ==
  /\ ImportInit => TypedInv
  /\ TypedInv /\ [ImportNext]_importVars => TypedInv'
<1>1. ImportInit => TypedInv
  <2> SUFFICES ASSUME ImportInit PROVE TypedInv
    OBVIOUS
  <2>1. ImportTypeOK
    BY DEF ImportInit, ImportTypeOK
  <2>2. HeldRows
    BY DEF ImportInit, HeldRows
  <2>. QED
    BY <2>1, <2>2 DEF TypedInv
<1>2. ASSUME TypedInv, [ImportNext]_importVars PROVE TypedInv'
  <2>1. CASE UNCHANGED importVars
    BY <1>2, <2>1 DEF importVars, TypedInv, ImportTypeOK, HeldRows
  <2>2. CASE \E b \in Batches :
               \/ \E file \in SUBSET States : StageStateCsv(b, file)
               \/ \E file \in SUBSET Districts : StageDistrictCsv(b, file)
               \/ \E file \in SUBSET Cities : StageCityCsv(b, file)
               \/ \E file \in SUBSET Localities : StageLocalityCsv(b, file)
               \/ \E file \in SUBSET Pincodes : StagePincodeCsv(b, file)
    <3>1. PICK b \in Batches : \E valid : Stage(b, valid)
      BY <2>2, AllStage
    <3>2. PICK valid : Stage(b, valid)
      BY <3>1
    <3>. QED
      BY <1>2, <3>2, TypedStage
  <2>3. ASSUME NEW q \in Importers, MarkImporting(q) \/ FetchPending(q) \/ Conclude(q) PROVE TypedInv'
    BY <1>2, <2>3, TypedMark, TypedFetch, TypedRest
  <2>4. ASSUME NEW q \in Importers, NEW b \in Batches, NEW s \in Servers, NEW partial \in BOOLEAN,
               Confirm(q, b, s, partial)
        PROVE  TypedInv'
    BY <1>2, <2>4, TypedConfirm
  <2>5. ASSUME NEW q \in Importers, NEW failing \in SUBSET Places, Execute(q, failing) PROVE TypedInv'
    BY <1>2, <2>5, TypedExecute
  <2>6. ASSUME NEW s \in Servers, ServerCrash(s) PROVE TypedInv'
    BY <1>2, <2>6, TypedCrash
  <2>. QED
    BY <1>2, <2>1, <2>2, <2>3, <2>4, <2>5, <2>6 DEF ImportNext
<1>. QED
  BY <1>1, <1>2

LEMMA ImportTypes == ImportSpec => []ImportTypeOK
<1>1. TypedInv => ImportTypeOK
  BY DEF TypedInv
<1>. QED
  BY <1>1, ImportTyped, PTL DEF ImportSpec

ImportSound == TypedInv /\ OneImport /\ MarkedWell /\ RowsWell

(* What only the rows and the status of a batch decide. *)
LEMMA RowsStand ==
  ASSUME RowsWell, UNCHANGED <<staged, imports, partly>>,
         \A b \in Batches : batch'[b] = batch[b] \/ batch'[b] = "IMPORTING"
  PROVE  RowsWell'
<1>1. \A b : Staged(b)' = Staged(b) /\ Pending(b)' = Pending(b) /\ Imported(b)' = Imported(b)
  BY DEF Staged, Pending, Imported
<1>. QED
  BY <1>1 DEF RowsWell

LEMMA SoundStage ==
  ASSUME ImportSound, NEW b \in Batches, NEW valid, Stage(b, valid)
  PROVE  ImportSound'
<1> USE DEF ImportSound
<1>1. /\ batch[b] = "none" /\ batch' = [batch EXCEPT ![b] = "VALIDATED"]
      /\ staged' = [staged EXCEPT ![b] = StagedAs(valid)]
      /\ UNCHANGED <<known, importing, imports, partly>>
  BY DEF Stage, StagedAs
<1>2. TypedInv'
  BY TypedStage
<1>3. OneImport'
  BY <1>1 DEF OneImport
<1>4. \A c \in Batches \ {b} :
        /\ Staged(c)' = Staged(c) /\ Pending(c)' = Pending(c) /\ Imported(c)' = Imported(c)
        /\ batch'[c] = batch[c]
  BY <1>1 DEF Staged, Pending, Imported, TypedInv, ImportTypeOK
<1>5. Pending(b)' = Staged(b)' /\ batch'[b] = "VALIDATED"
  <2>1. staged'[b] = StagedAs(valid) /\ batch'[b] = "VALIDATED"
    BY <1>1 DEF TypedInv, ImportTypeOK
  <2>2. \A p \in Places : StagedAs(valid)[p] # NotInFile => StagedAs(valid)[p].state = "PENDING"
    BY StagedTyped
  <2>. QED
    BY <2>1, <2>2 DEF Staged, Pending
<1>6. MarkedWell'
  <2> SUFFICES ASSUME NEW q \in Importers, importing[q] # Resting
               PROVE  importing[q].of \in Batches \ {b}
    BY <1>1, <1>4 DEF MarkedWell
  <2>1. importing[q].of \in Batches
    BY ConfirmationTyped DEF TypedInv, Confirmations
  <2>. QED
    BY <1>1, <2>1 DEF TypedInv, HeldRows
<1>7. RowsWell'
  <2>1. Staged(b) = {}
    BY <1>1 DEF RowsWell
  <2>2. \A p \in Places : imports[b][p] # 1
    BY <2>1 DEF RowsWell
  <2>3. \A c \in Batches : batch'[c] = "none" => Staged(c)' = {}
    BY <1>4, <1>5 DEF RowsWell
  <2>4. \A c \in Batches, p \in Places : imports'[c][p] = 1 => p \in Staged(c)' \ Pending(c)'
    BY <1>1, <1>4, <2>2 DEF RowsWell
  <2>5. \A c \in Batches, p \in Places : imports'[c][p] <= 1
    BY <1>1 DEF RowsWell
  <2>6. \A c \in Batches \ partly' :
          /\ Pending(c)' = Staged(c)' \/ Imported(c)' = Staged(c)'
          /\ batch'[c] \in {"VALIDATED", "FAILED"} => Pending(c)' = Staged(c)'
          /\ batch'[c] = "COMPLETED" => Imported(c)' = Staged(c)'
    BY <1>1, <1>4, <1>5 DEF RowsWell
  <2>. QED
    BY <2>3, <2>4, <2>5, <2>6 DEF RowsWell
<1>. QED
  BY <1>2, <1>3, <1>6, <1>7

LEMMA SoundConfirm ==
  ASSUME \A s, t \in Servers : s = t, ImportSound,
         NEW q \in Importers, NEW b \in Batches, NEW s \in Servers, NEW partial \in BOOLEAN,
         Confirm(q, b, s, partial)
  PROVE  ImportSound'
<1> USE DEF ImportSound
<1>1. PICK x : x = [step |-> "mark", of |-> b, on |-> s, partial |-> partial, rows |-> {}]
  OBVIOUS
<1>2. /\ x.step = "mark" /\ x.of = b
      /\ importing' = [importing EXCEPT ![q] = x] /\ batch[b] \in {"VALIDATED", "FAILED"}
      /\ UNCHANGED <<known, batch, staged, imports, partly>>
  BY <1>1 DEF Confirm
<1>3. TypedInv'
  BY TypedConfirm
<1>4. ASSUME NEW r \in Importers, r # q PROVE importing'[r] = Resting
  <2>1. importing'[r] = importing[r]
    BY <1>2, <1>4 DEF TypedInv, ImportTypeOK
  <2>2. importing[r] # Resting => importing[r].on = s
    BY ConfirmationTyped DEF TypedInv, Confirmations
  <2>. QED
    BY <2>1, <2>2 DEF Confirm, Held
<1>5. importing'[q] = x
  BY <1>2 DEF TypedInv, ImportTypeOK
<1>6. OneImport'
  BY <1>4 DEF OneImport
<1>7. MarkedWell'
  BY <1>2, <1>4, <1>5 DEF MarkedWell
<1>8. RowsWell'
  BY <1>2, RowsStand
<1>. QED
  BY <1>3, <1>6, <1>7, <1>8

LEMMA SoundMark ==
  ASSUME ImportSound, NEW q \in Importers, MarkImporting(q)
  PROVE  ImportSound'
<1> USE DEF ImportSound
<1>1. importing[q].step = "mark"
  BY DEF MarkImporting
<1>2. importing[q] # Resting /\ importing[q].of \in Batches
  BY <1>1, StepTyped, ConfirmationTyped DEF TypedInv, Confirmations
<1>3. /\ batch' = [batch EXCEPT ![importing[q].of] = "IMPORTING"]
      /\ UNCHANGED <<known, staged, imports, partly>>
  BY DEF MarkImporting
<1>4. TypedInv'
  BY TypedMark
<1>5. /\ importing'[q].of = importing[q].of /\ importing'[q].step = "fetch"
      /\ \A r \in Importers \ {q} : importing'[r] = Resting
  <2>1. importing' = [importing EXCEPT ![q].step = "fetch"]
    BY DEF MarkImporting, Advance
  <2>2. importing[q] \in Confirmations
    BY <1>2, ConfirmationTyped DEF TypedInv
  <2>3. \A r \in Importers \ {q} : importing'[r] = importing[r]
    BY <2>1 DEF TypedInv, ImportTypeOK
  <2>. QED
    BY <1>2, <2>1, <2>2, <2>3 DEF TypedInv, ImportTypeOK, Confirmations, OneImport
<1>6. batch'[importing[q].of] = "IMPORTING"
  BY <1>2, <1>3 DEF TypedInv, ImportTypeOK
<1>7. \A b \in Batches : batch'[b] = batch[b] \/ batch'[b] = "IMPORTING"
  BY <1>2, <1>3 DEF TypedInv, ImportTypeOK
<1>8. importing[q].of \notin partly => Pending(importing[q].of) = Staged(importing[q].of)
  <2>1. batch[importing[q].of] \in {"VALIDATED", "FAILED"}
    BY <1>1, <1>2 DEF MarkedWell
  <2>. QED
    BY <1>2, <2>1 DEF RowsWell
<1>9. \A b : Staged(b)' = Staged(b) /\ Pending(b)' = Pending(b) /\ Imported(b)' = Imported(b)
  BY <1>3 DEF Staged, Pending, Imported
<1>10. MarkedWell'
  BY <1>3, <1>5, <1>6, <1>8, <1>9 DEF MarkedWell
<1>11. RowsWell'
  BY <1>3, <1>7, RowsStand
<1>12. OneImport'
  BY <1>5 DEF OneImport
<1>. QED
  BY <1>4, <1>10, <1>11, <1>12

LEMMA SoundFetch ==
  ASSUME ImportSound, NEW q \in Importers, FetchPending(q)
  PROVE  ImportSound'
<1> USE DEF ImportSound
<1>1. /\ TypedInv' /\ importing[q] # Resting /\ importing'[q].step = "execute"
      /\ importing'[q].rows = Pending(importing[q].of) /\ importing'[q].of = importing[q].of
      /\ \A r \in Importers \ {q} : importing'[r] = importing[r]
  BY TypedFetch
<1>2. importing[q].step = "fetch" /\ UNCHANGED <<known, batch, staged, imports, partly>>
  BY DEF FetchPending
<1>3. \A r \in Importers \ {q} : importing'[r] = Resting
  BY <1>1 DEF OneImport
<1>4. \A b : Staged(b)' = Staged(b) /\ Pending(b)' = Pending(b) /\ Imported(b)' = Imported(b)
  BY <1>2 DEF Staged, Pending, Imported
<1>5. OneImport'
  BY <1>3 DEF OneImport
<1>6. MarkedWell'
  <2>1. /\ batch[importing[q].of] = "IMPORTING"
        /\ importing[q].of \notin partly => Pending(importing[q].of) = Staged(importing[q].of)
    BY <1>1, <1>2 DEF MarkedWell
  <2>. QED
    BY <1>1, <1>2, <1>3, <1>4, <2>1 DEF MarkedWell
<1>7. RowsWell'
  BY <1>2, RowsStand
<1>. QED
  BY <1>1, <1>5, <1>6, <1>7

LEMMA SoundExecute ==
  ASSUME ImportSound, NEW q \in Importers, NEW failing \in SUBSET Places, Execute(q, failing)
  PROVE  ImportSound'
<1>0. TypedInv /\ ImportTypeOK /\ OneImport /\ MarkedWell /\ RowsWell
  BY DEF ImportSound, TypedInv
<1>a. PICK b, rows : b = importing[q].of /\ rows = importing[q].rows
  OBVIOUS
<1>1. /\ b \in Batches /\ rows \in SUBSET Places /\ importing[q] # Resting
      /\ importing[q].step = "execute" /\ batch' = batch
      /\ importing'[q].of = b
      /\ \A r \in Importers \ {q} : importing'[r] = importing[r]
      /\ importing' \in [Importers -> {Resting} \cup Confirmations]
      /\ importing'[q] # Resting /\ importing'[q].rows = rows
      /\ \/ importing'[q].step = "fail" /\ UNCHANGED <<known, staged, imports, partly>>
         \/ /\ importing'[q].step \in {"fail", "complete"}
            /\ staged' = [staged EXCEPT ![b] = Settled(b, rows, failing)]
            /\ \A p \in Places :
                 imports'[b][p] = IF p \in NewRows(b, rows \ failing) THEN imports[b][p] + 1
                                  ELSE imports[b][p]
            /\ imports' \in [Batches -> [Places -> Nat]]
            /\ \A c \in Batches \ {b} : imports'[c] = imports[c]
            /\ known' \in [Places -> Nat]
            /\ partly \subseteq partly' /\ partly' \subseteq partly \cup {b}
            /\ b \notin partly' => failing = {} /\ importing'[q].step = "complete"
  BY <1>0, <1>a, ExecuteParts
<1>2. TypedInv'
  BY <1>0, TypedExecute
<1>3. \A r \in Importers \ {q} : importing'[r] = Resting
  BY <1>0, <1>1 DEF OneImport
<1>4. OneImport'
  BY <1>3 DEF OneImport
<1>5. /\ rows = Pending(b) /\ batch[b] = "IMPORTING"
      /\ b \notin partly => Pending(b) = Staged(b)
  BY <1>0, <1>a, <1>1 DEF MarkedWell
<1>6. CASE importing'[q].step = "fail" /\ UNCHANGED <<known, staged, imports, partly>>
  <2>1. \A c : Staged(c)' = Staged(c) /\ Pending(c)' = Pending(c) /\ Imported(c)' = Imported(c)
    BY <1>6 DEF Staged, Pending, Imported
  <2>2. MarkedWell'
    BY <1>1, <1>3, <1>5, <1>6, <2>1 DEF MarkedWell
  <2>3. RowsWell'
    BY <1>0, <1>1, <1>6, RowsStand
  <2>. QED
    BY <1>2, <1>4, <2>2, <2>3 DEF ImportSound
<1>7. CASE ~(importing'[q].step = "fail" /\ UNCHANGED <<known, staged, imports, partly>>)
  <2> DEFINE new == Settled(b, rows, failing)
  <2>1. /\ importing'[q].step \in {"fail", "complete"}
        /\ staged' = [staged EXCEPT ![b] = new]
        /\ \A p \in Places :
             imports'[b][p] = IF p \in NewRows(b, rows \ failing) THEN imports[b][p] + 1
                              ELSE imports[b][p]
        /\ \A c \in Batches \ {b} : imports'[c] = imports[c]
        /\ partly \subseteq partly' /\ partly' \subseteq partly \cup {b}
        /\ b \notin partly' => failing = {} /\ importing'[q].step = "complete"
    BY <1>1, <1>7
  <2>2. \A p \in Places :
          /\ p \notin rows => new[p] = staged[b][p]
          /\ p \in rows => /\ new[p] \in RowStates
                           /\ new[p].state = IF p \in failing THEN "FAILED" ELSE "IMPORTED"
    <3>1. \A p \in rows : p \in Places => staged[b][p] # NotInFile
      BY <1>5 DEF Pending, Staged
    <3>. QED
      BY <1>0, <1>1, <3>1, SettledTyped
  <2> HIDE DEF new
  <2>3. staged'[b] = new /\ \A c \in Batches \ {b} : staged'[c] = staged[c]
    <3>1. staged \in [Batches -> [Places -> RowStates \cup {NotInFile}]] /\ b \in Batches
      BY <1>0, <1>1 DEF ImportTypeOK
    <3>. QED
      BY <2>1, <3>1
  <2>4. \A c \in Batches \ {b} :
          Staged(c)' = Staged(c) /\ Pending(c)' = Pending(c) /\ Imported(c)' = Imported(c)
    BY <2>3 DEF Staged, Pending, Imported
  <2>5. \A r \in RowStates : r # NotInFile
    BY DEF RowStates, NotInFile
  <2>6. Staged(b)' = Staged(b) /\ Pending(b)' = {}
    <3>1. \A p \in Places : p \in rows <=> staged[b][p] # NotInFile /\ staged[b][p].state = "PENDING"
      BY <1>5 DEF Pending, Staged
    <3>2. Staged(b)' = {p \in Places : new[p] # NotInFile}
      BY <2>3 DEF Staged
    <3>3. Pending(b)' = {p \in Places : new[p] # NotInFile /\ new[p].state = "PENDING"}
      BY <2>3 DEF Staged, Pending
    <3>4. \A p \in Places : /\ new[p] # NotInFile <=> staged[b][p] # NotInFile
                            /\ ~(new[p] # NotInFile /\ new[p].state = "PENDING")
      BY <2>2, <2>5, <3>1
    <3>. QED
      BY <3>2, <3>3, <3>4 DEF Staged
  <2>7. b \notin partly' => importing'[q].step = "complete" /\ Imported(b)' = Staged(b)'
    <3> SUFFICES ASSUME b \notin partly' PROVE importing'[q].step = "complete" /\ Imported(b)' = Staged(b)'
      OBVIOUS
    <3>1. failing = {} /\ importing'[q].step = "complete" /\ rows = Staged(b)
      BY <1>5, <2>1
    <3>2. \A p \in Staged(b) : new[p].state = "IMPORTED"
      BY <2>2, <3>1 DEF Staged
    <3>3. Imported(b)' = {p \in Staged(b)' : new[p].state = "IMPORTED"}
      BY <2>3 DEF Imported, Staged
    <3>. QED
      BY <2>6, <3>1, <3>2, <3>3
  <2>8. MarkedWell'
    BY <1>1, <1>3, <1>5, <2>1, <2>7 DEF MarkedWell
  <2>9. ASSUME NEW p \in Places PROVE imports'[b][p] <= 1 /\ (imports'[b][p] = 1 => p \in Staged(b)' \ Pending(b)')
    <3>1. imports[b][p] \in Nat /\ imports[b][p] <= 1 /\ (imports[b][p] = 1 => p \in Staged(b) \ Pending(b))
      BY <1>0, <1>1 DEF ImportTypeOK, RowsWell
    <3>2. CASE p \in NewRows(b, rows \ failing)
      <4>1. p \in Pending(b) /\ p \in Staged(b)
        BY <1>5, <3>2 DEF NewRows, Pending
      <4>2. imports[b][p] = 0
        BY <3>1, <4>1
      <4>. QED
        BY <2>1, <2>6, <3>2, <4>1, <4>2
    <3>3. CASE p \notin NewRows(b, rows \ failing)
      BY <2>1, <2>6, <3>1, <3>3
    <3>. QED
      BY <3>2, <3>3
  <2>10. RowsWell'
    <3>1. \A c \in Batches, p \in Places :
            imports'[c][p] <= 1 /\ (imports'[c][p] = 1 => p \in Staged(c)' \ Pending(c)')
      <4> SUFFICES ASSUME NEW c \in Batches, NEW p \in Places
                   PROVE  imports'[c][p] <= 1 /\ (imports'[c][p] = 1 => p \in Staged(c)' \ Pending(c)')
        OBVIOUS
      <4>1. CASE c = b
        BY <2>9, <4>1
      <4>2. CASE c # b
        BY <1>0, <2>1, <2>4, <4>2 DEF RowsWell
      <4>. QED
        BY <4>1, <4>2
    <3>2. \A c \in Batches : batch'[c] = "none" => Staged(c)' = {}
      BY <1>0, <1>1, <1>5, <2>4 DEF RowsWell
    <3>3. \A c \in Batches \ partly' :
            /\ Pending(c)' = Staged(c)' \/ Imported(c)' = Staged(c)'
            /\ batch'[c] \in {"VALIDATED", "FAILED"} => Pending(c)' = Staged(c)'
            /\ batch'[c] = "COMPLETED" => Imported(c)' = Staged(c)'
      <4> SUFFICES ASSUME NEW c \in Batches \ partly'
                   PROVE  /\ Pending(c)' = Staged(c)' \/ Imported(c)' = Staged(c)'
                          /\ batch'[c] \in {"VALIDATED", "FAILED"} => Pending(c)' = Staged(c)'
                          /\ batch'[c] = "COMPLETED" => Imported(c)' = Staged(c)'
        OBVIOUS
      <4>1. CASE c = b
        BY <1>1, <1>5, <2>7, <4>1
      <4>2. CASE c # b
        BY <1>0, <1>1, <2>1, <2>4, <4>2 DEF RowsWell
      <4>. QED
        BY <4>1, <4>2
    <3>. QED
      BY <3>1, <3>2, <3>3 DEF RowsWell
  <2>. QED
    BY <1>2, <1>4, <2>8, <2>10 DEF ImportSound
<1>. QED
  BY <1>6, <1>7

LEMMA SoundRest ==
  ASSUME ImportSound, NEW q \in Importers, Conclude(q)
  PROVE  ImportSound'
<1> USE DEF ImportSound
<1>1. importing[q].step \in {"complete", "fail"}
  BY DEF Conclude
<1>2. importing[q] # Resting /\ importing[q].of \in Batches
  BY <1>1, StepTyped, ConfirmationTyped DEF TypedInv, Confirmations
<1>3. PICK b \in Batches : b = importing[q].of
  BY <1>2
<1>4. /\ batch' = [batch EXCEPT ![b] = IF importing[q].step = "complete" THEN "COMPLETED" ELSE "FAILED"]
      /\ importing' = [importing EXCEPT ![q] = Resting]
      /\ UNCHANGED <<known, staged, imports, partly>>
  BY <1>3 DEF Conclude, Rest
<1>5. TypedInv'
  BY TypedRest
<1>6. \A r \in Importers : importing'[r] = Resting
  BY <1>2, <1>4 DEF OneImport, TypedInv, ImportTypeOK
<1>7. OneImport' /\ MarkedWell'
  BY <1>6 DEF OneImport, MarkedWell
<1>8. \A c : Staged(c)' = Staged(c) /\ Pending(c)' = Pending(c) /\ Imported(c)' = Imported(c)
  BY <1>4 DEF Staged, Pending, Imported
<1>9. /\ batch'[b] = IF importing[q].step = "complete" THEN "COMPLETED" ELSE "FAILED"
      /\ \A c \in Batches \ {b} : batch'[c] = batch[c]
  BY <1>4 DEF TypedInv, ImportTypeOK
<1>10. b \notin partly => /\ importing[q].step = "fail" => Pending(b) = Staged(b)
                          /\ importing[q].step = "complete" => Imported(b) = Staged(b)
  BY <1>2, <1>3 DEF MarkedWell
<1>11. RowsWell'
  BY <1>1, <1>4, <1>8, <1>9, <1>10 DEF RowsWell
<1>. QED
  BY <1>5, <1>7, <1>11

LEMMA SoundCrash ==
  ASSUME ImportSound, NEW s \in Servers, ServerCrash(s)
  PROVE  ImportSound'
<1> USE DEF ImportSound
<1>1. /\ TypedInv' /\ UNCHANGED <<known, batch, staged, imports, partly>>
      /\ \A q \in Importers : importing'[q] = Resting \/ importing'[q] = importing[q]
  BY TypedCrash
<1>2. OneImport'
  BY <1>1 DEF OneImport
<1>3. \A b : Staged(b)' = Staged(b) /\ Pending(b)' = Pending(b) /\ Imported(b)' = Imported(b)
  BY <1>1 DEF Staged, Pending, Imported
<1>4. MarkedWell'
  BY <1>1, <1>3 DEF MarkedWell
<1>5. RowsWell'
  BY <1>1, RowsStand
<1>. QED
  BY <1>1, <1>2, <1>4, <1>5

LEMMA SoundStart == ImportInit => ImportSound
<1> SUFFICES ASSUME ImportInit PROVE ImportSound
  OBVIOUS
<1>1. TypedInv
  BY ImportTyped
<1>2. OneImport /\ MarkedWell
  BY DEF ImportInit, OneImport, MarkedWell
<1>3. \A b \in Batches : Staged(b) = {} /\ Pending(b) = {} /\ batch[b] = "none"
  BY DEF ImportInit, Staged, Pending
<1>4. \A b \in Batches, p \in Places : imports[b][p] = 0
  BY DEF ImportInit
<1>5. RowsWell
  BY <1>3, <1>4 DEF RowsWell
<1>. QED
  BY <1>1, <1>2, <1>5 DEF ImportSound

(* On one server no row of a batch is inserted twice, and a batch that was never run in
   parts is imported as a whole or not at all and says which, whatever confirmations,
   failures, crashes and retries follow each other. *)
THEOREM ImportsStaySound ==
  ASSUME \A s, t \in Servers : s = t PROVE ImportSpec => []ImportsSound
<1>1. ASSUME ImportSound, [ImportNext]_importVars PROVE ImportSound'
  <2>1. CASE UNCHANGED importVars
    BY <1>1, <2>1 DEF importVars, ImportSound, TypedInv, ImportTypeOK, HeldRows, OneImport, MarkedWell,
                      RowsWell, Staged, Pending, Imported
  <2>2. CASE \E b \in Batches :
               \/ \E file \in SUBSET States : StageStateCsv(b, file)
               \/ \E file \in SUBSET Districts : StageDistrictCsv(b, file)
               \/ \E file \in SUBSET Cities : StageCityCsv(b, file)
               \/ \E file \in SUBSET Localities : StageLocalityCsv(b, file)
               \/ \E file \in SUBSET Pincodes : StagePincodeCsv(b, file)
    <3>1. PICK b \in Batches : \E valid : Stage(b, valid)
      BY <2>2, AllStage
    <3>2. PICK valid : Stage(b, valid)
      BY <3>1
    <3>. QED
      BY <1>1, <3>2, SoundStage
  <2>3. ASSUME NEW q \in Importers, MarkImporting(q) \/ FetchPending(q) \/ Conclude(q) PROVE ImportSound'
    BY <1>1, <2>3, SoundMark, SoundFetch, SoundRest
  <2>4. ASSUME NEW q \in Importers, NEW b \in Batches, NEW s \in Servers, NEW partial \in BOOLEAN,
               Confirm(q, b, s, partial)
        PROVE  ImportSound'
    BY <1>1, <2>4, SoundConfirm
  <2>5. ASSUME NEW q \in Importers, NEW failing \in SUBSET Places, Execute(q, failing) PROVE ImportSound'
    BY <1>1, <2>5, SoundExecute
  <2>6. ASSUME NEW s \in Servers, ServerCrash(s) PROVE ImportSound'
    BY <1>1, <2>6, SoundCrash
  <2>. QED
    BY <1>1, <2>1, <2>2, <2>3, <2>4, <2>5, <2>6 DEF ImportNext
<1>2. ImportSound => ImportsSound
  <2> SUFFICES ASSUME ImportSound PROVE ImportsSound
    OBVIOUS
  <2>1. ImportedOnce
    BY DEF ImportSound, RowsWell, ImportedOnce
  <2>2. ASSUME NEW b \in Batches \ partly
        PROVE  LET rows == {p \in Places : staged[b][p] # NotInFile}
                   done == {p \in rows : staged[b][p].state = "IMPORTED"}
               IN /\ done \in {{}, rows}
                  /\ batch[b] = "COMPLETED" => done = rows
                  /\ batch[b] \in {"VALIDATED", "FAILED"} => done = {}
    <3>1. Pending(b) = Staged(b) => Imported(b) = {}
      BY DEF Pending, Imported
    <3>2. /\ Imported(b) \in {{}, Staged(b)}
          /\ batch[b] = "COMPLETED" => Imported(b) = Staged(b)
          /\ batch[b] \in {"VALIDATED", "FAILED"} => Imported(b) = {}
      BY <3>1 DEF ImportSound, RowsWell
    <3>. QED
      BY <3>2 DEF Imported, Staged
  <2>3. ImportedWhole
    BY <2>2 DEF ImportedWhole
  <2>. QED
    BY <2>1, <2>3 DEF ImportsSound
<1>. QED
  BY <1>1, <1>2, SoundStart, PTL DEF ImportSpec
=============================================================================
