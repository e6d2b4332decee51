---------------------------- MODULE LocationAdmin ----------------------------
(***************************************************************************)
(* Administrators who add and move districts, cities, localities and PIN   *)
(* codes one by one (admin_district, admin_city, admin_locality and        *)
(* admin_pincode.controller.js), beside the import of files that writes    *)
(* the same rows (location_import.service.js; its batches are the subject  *)
(* of LocationImport).                                                     *)
(*                                                                         *)
(* A request is a transaction: it checks in the snapshot it reads, locks   *)
(* only the row it updates, then writes and commits.  No index forbids two *)
(* rows of one name.  The import looks for namesakes when a file is staged *)
(* and for none when it is confirmed.  Rows are never deleted; codes,      *)
(* types and the other columns are left out, is_active is in               *)
(* LocationLookups.                                                        *)
(***************************************************************************)
EXTENDS Naturals, FiniteSets

CONSTANTS
  Spots,    \* bound: rows
  TopStates, \* states, which these controllers do not change
  Labels,    \* normalized names, and PIN codes
  NoPlace,   \* NULL
  Curators     \* bound: requests at once

ASSUME AdminAssumption == NoPlace \notin Spots /\ Spots \cap TopStates = {}

VARIABLES
  place,  \* place[i]: the row of a place, or NotAdded
  proposal,   \* proposal[a]: what a request is about to write, or NoProposal
  onFile,      \* onFile[i]: the staged record that waits to be written to row i
  imported    \* history: the rows an import added that no curator's check passed since

adminVars == <<place, proposal, onFile, imported>>

Kinds == {"district", "city", "locality", "pincode"}
NotAdded == [kind |-> "none"]
NoProposal == [place |-> NoPlace]

(* `under`: the state of a district or a city, the city of the others. *)
Row(k, u, d, n) == [kind |-> k, under |-> u, district |-> d, name |-> n]
PlaceRows == [kind : Kinds, under : TopStates \cup Spots,
              district : Spots \cup {NoPlace}, name : Labels]

AdminTypeOK ==
  /\ place \in [Spots -> {NotAdded} \cup PlaceRows]
  /\ proposal \in [Curators -> {NoProposal} \cup [place : Spots, row : PlaceRows]]
  /\ onFile \in [Spots -> {NotAdded} \cup PlaceRows]
  /\ imported \subseteq Spots

AdminInit ==
  /\ place = [i \in Spots |-> NotAdded]
  /\ proposal = [a \in Curators |-> NoProposal]
  /\ onFile = [i \in Spots |-> NotAdded]
  /\ imported = {}

-----------------------------------------------------------------------------
Of(k) == {i \in Spots : place[i].kind = k}
Namesake(i, k, u, n) ==
  \E j \in Of(k) \ {i} : place[j].under = u /\ place[j].name = n
Proposed(i) == \E a \in Curators : proposal[a].place = i
Unused(i) == place[i] = NotAdded /\ onFile[i] = NotAdded /\ ~Proposed(i)
DistrictFits(d, s) == d = NoPlace \/ (d \in Of("district") /\ place[d].under = s)

(* Variant: namesakes are looked for where the place was. *)
ProposeWhereItWas(a, i, row) ==
  /\ proposal[a] = NoProposal /\ ~Proposed(i)
  /\ LET at == IF place[i] = NotAdded THEN row.under ELSE place[i].under
     IN ~Namesake(i, row.kind, at, row.name)
  /\ proposal' = [proposal EXCEPT ![a] = [place |-> i, row |-> row]]
  /\ UNCHANGED <<place, onFile, imported>>

(* The check for a namesake among the places of the target, the last of every
   request.  An update has locked its row. *)
Propose(a, i, row) ==
  /\ proposal[a] = NoProposal /\ ~Proposed(i)
  /\ ~Namesake(i, row.kind, row.under, row.name)
  /\ proposal' = [proposal EXCEPT ![a] = [place |-> i, row |-> row]]
  /\ UNCHANGED <<place, onFile, imported>>

CreateDistrict(a, i, s, n) ==
  Unused(i) /\ Propose(a, i, Row("district", s, NoPlace, n))

(* The check is for a new name or state only; saved otherwise, the row keeps what
   it is here.  The cities of a district that moves stay where they are. *)
UpdateDistrict(a, i, s, n) ==
  /\ i \in Of("district") /\ <<s, n>> # <<place[i].under, place[i].name>>
  /\ Propose(a, i, Row("district", s, NoPlace, n))

CreateCity(a, i, s, d, n) ==
  Unused(i) /\ DistrictFits(d, s) /\ Propose(a, i, Row("city", s, d, n))

UpdateCity(a, i, s, d, n) ==
  i \in Of("city") /\ DistrictFits(d, s) /\ Propose(a, i, Row("city", s, d, n))

CreateLocality(a, i, c, n) ==
  Unused(i) /\ c \in Of("city") /\ Propose(a, i, Row("locality", c, NoPlace, n))

UpdateLocality(a, i, c, n) ==
  i \in Of("locality") /\ c \in Of("city") /\ Propose(a, i, Row("locality", c, NoPlace, n))

(* The district of a PIN code is that of its city, or whichever was asked for. *)
CreatePincode(a, i, c, d, n) ==
  /\ Unused(i) /\ c \in Of("city") /\ d \in {place[c].district} \cup Of("district")
  /\ Propose(a, i, Row("pincode", c, d, n))

UpdatePincode(a, i, c, d, n) ==
  /\ i \in Of("pincode") /\ c \in Of("city")
  /\ d \in {place[i].district, NoPlace} \cup Of("district")
  /\ Propose(a, i, Row("pincode", c, d, n))

(* The write and the commit. *)
CommitEdit(a) ==
  /\ proposal[a] # NoProposal
  /\ place' = [place EXCEPT ![proposal[a].place] = proposal[a].row]
  /\ proposal' = [proposal EXCEPT ![a] = NoProposal]
  /\ imported' = imported \ {proposal[a].place}
  /\ UNCHANGED onFile

(* A rollback, or the end of the process. *)
AbandonEdit(a) ==
  /\ proposal[a] # NoProposal /\ proposal' = [proposal EXCEPT ![a] = NoProposal]
  /\ UNCHANGED <<place, onFile, imported>>

-----------------------------------------------------------------------------
(* The import.  Every row is a file of its own: several in one file are staged and
   confirmed together, one after the other here.  A record without a row of its
   name under its parent is staged as an insert. *)
StageInsert(i, row) ==
  /\ Unused(i) /\ ~Namesake(i, row.kind, row.under, row.name)
  /\ onFile' = [onFile EXCEPT ![i] = row]
  /\ UNCHANGED <<place, proposal, imported>>

StageDistrict(i, s, n) == StageInsert(i, Row("district", s, NoPlace, n))

(* A district found by its code may be one of another state. *)
StageCity(i, s, d, n) ==
  d \in Of("district") \cup {NoPlace} /\ StageInsert(i, Row("city", s, d, n))

StageLocality(i, c, n) ==
  c \in Of("city") /\ StageInsert(i, Row("locality", c, NoPlace, n))

StagePincode(i, c, n) ==
  c \in Of("city") /\ StageInsert(i, Row("pincode", c, place[c].district, n))

(* A record of a city that is there, with another district: an update.  Those of
   the other kinds change none of the columns here. *)
StageCityUpdate(i, d) ==
  /\ i \in Of("city") /\ onFile[i] = NotAdded /\ d \in Of("district") \ {place[i].district}
  /\ onFile' = [onFile EXCEPT ![i] = [place[i] EXCEPT !.district = d]]
  /\ UNCHANGED <<place, proposal, imported>>

(* confirmAndExecuteImport creates the row as it was staged ... *)
ImportInsert(i) ==
  /\ onFile[i] # NotAdded /\ place[i] = NotAdded
  /\ place' = [place EXCEPT ![i] = onFile[i]]
  /\ onFile' = [onFile EXCEPT ![i] = NotAdded]
  /\ imported' = imported \cup {i}
  /\ UNCHANGED proposal

(* ... or locks the row it matched and saves some of its columns. *)
ImportUpdate(i) ==
  /\ onFile[i] # NotAdded /\ place[i] # NotAdded /\ ~Proposed(i)
  /\ place' = [place EXCEPT ![i].district = onFile[i].district]
  /\ onFile' = [onFile EXCEPT ![i] = NotAdded]
  /\ UNCHANGED <<proposal, imported>>

CurateNext ==
  \E a \in Curators :
    \/ CommitEdit(a) \/ AbandonEdit(a)
    \/ \E i \in Spots, n \in Labels :
         \/ \E s \in TopStates :
              \/ CreateDistrict(a, i, s, n) \/ UpdateDistrict(a, i, s, n)
              \/ \E d \in Spots \cup {NoPlace} : CreateCity(a, i, s, d, n) \/ UpdateCity(a, i, s, d, n)
         \/ \E c \in Spots :
              \/ CreateLocality(a, i, c, n) \/ UpdateLocality(a, i, c, n)
              \/ \E d \in Spots \cup {NoPlace} : CreatePincode(a, i, c, d, n) \/ UpdatePincode(a, i, c, d, n)

PlaceImportNext ==
  \E i \in Spots :
    \/ ImportInsert(i) \/ ImportUpdate(i) \/ \E d \in Spots : StageCityUpdate(i, d)
    \/ \E n \in Labels :
         \/ \E s \in TopStates :
              StageDistrict(i, s, n) \/ \E d \in Spots \cup {NoPlace} : StageCity(i, s, d, n)
         \/ \E c \in Spots : StageLocality(i, c, n) \/ StagePincode(i, c, n)

AdminNext == CurateNext \/ PlaceImportNext

AdminSpec == AdminInit /\ [][AdminNext]_adminVars

-----------------------------------------------------------------------------
Siblings(i, j) ==
  /\ i # j /\ place[i] # NotAdded /\ place[j].kind = place[i].kind
  /\ place[j].under = place[i].under /\ place[j].name = place[i].name

(* However places are staged, imported, added and moved, with one request of a
   curator at a time, no two that a curator's check has passed have one kind, one
   parent and one name: of such a pair one comes from a file, staged before the other
   was there, and no check has passed it since. *)
CuratedSiblingsDiffer ==
  \A i, j \in Spots \ imported : ~Siblings(i, j)

(* What the code does not keep: a place that "already exists in this city"
   (createLocality) is refused to curators, not to a file staged before; and
   admin_city.controller.js refuses a city whose district "belongs to a different
   state", while updateDistrict moves the district and an import finds it by code. *)
SiblingsDiffer == \A i, j \in Spots : ~Siblings(i, j)
CitiesFollowDistricts == \A c \in Of("city") : DistrictFits(place[c].district, place[c].under)
=============================================================================
