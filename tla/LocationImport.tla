---------------------------- MODULE LocationImport ----------------------------
(***************************************************************************)
(* The import of locations from files (location_import.service.js): a file *)
(* is staged as a batch of rows, each matched with the masters as they are *)
(* then, and confirmed later, when one transaction inserts and updates the *)
(* masters.  A lock in the memory of the server lets one import run.       *)
(*                                                                         *)
(* A place stands for the rows of the masters with one code or name.  The  *)
(* masters of the states and of the districts have a unique code, the      *)
(* others do not.  No master is ever deleted.                              *)
(***************************************************************************)
EXTENDS Naturals, FiniteSets

CONSTANTS
  States, Districts, Cities, Localities, Pincodes,  \* the places of each dataset
  InState,    \* the state of each district and city
  InCity,     \* the city of each locality and pincode
  Batches,    \* bound: files staged
  Importers,  \* bound: confirmations under way at once
  Servers     \* processes, each with its lock

Places == States \cup Districts \cup Cities \cup Localities \cup Pincodes

VARIABLES
  known,      \* known[p]: rows of the masters for place p
  batch,      \* batch[b]: location_import_batches
  staged,     \* staged[b]: the valid rows of b
  importing,  \* importing[q]: a confirmation under way
  imports,    \* history: imports[b][p], how often the row was committed as an insert
  partly      \* history: the batches once run with allow_partial

importVars == <<known, batch, staged, importing, imports, partly>>

RowStates == [action : {"INSERT", "UPDATE"}, state : {"PENDING", "IMPORTED", "FAILED"}]
NotInFile == [action |-> "NONE"]
Resting == [step |-> "rest"]

ImportTypeOK ==
  /\ known \in [Places -> Nat]
  /\ batch \in [Batches -> {"none", "VALIDATED", "IMPORTING", "COMPLETED", "FAILED"}]
  /\ staged \in [Batches -> [Places -> RowStates \cup {NotInFile}]]
  /\ importing \in [Importers -> {Resting} \cup
       [step : {"mark", "fetch", "execute", "complete", "fail"}, of : Batches, on : Servers,
        partial : BOOLEAN, rows : SUBSET Places]]
  /\ imports \in [Batches -> [Places -> Nat]]
  /\ partly \subseteq Batches

ImportInit ==
  /\ known \in [Places -> 0..1]
  /\ batch = [b \in Batches |-> "none"]
  /\ staged = [b \in Batches |-> [p \in Places |-> NotInFile]]
  /\ importing = [q \in Importers |-> Resting]
  /\ imports = [b \in Batches |-> [p \in Places |-> 0]]
  /\ partly = {}

-----------------------------------------------------------------------------
Known(p) == known[p] > 0

(* A row repeated in the file counts once; the rows that are not valid are left
   out, and so are those that change nothing. *)
Stage(b, valid) ==
  /\ batch[b] = "none" /\ valid # {}
  /\ batch' = [batch EXCEPT ![b] = "VALIDATED"]
  /\ staged' = [staged EXCEPT ![b] = [p \in Places |->
       IF p \in valid
       THEN [action |-> IF Known(p) THEN "UPDATE" ELSE "INSERT", state |-> "PENDING"]
       ELSE NotInFile]]
  /\ UNCHANGED <<known, importing, imports, partly>>

StageStateCsv(b, file) == Stage(b, file)
StageDistrictCsv(b, file) == Stage(b, {p \in file : Known(InState[p])})
StageCityCsv(b, file) == Stage(b, {p \in file : Known(InState[p])})
StageLocalityCsv(b, file) == Stage(b, {p \in file : Known(InCity[p])})

(* The only city there is stands for one that is not found. *)
StagePincodeCsv(b, file) ==
  Stage(b, {p \in file :
              Known(InCity[p]) \/ Cardinality({c \in Cities : Known(c)}) = 1})

-----------------------------------------------------------------------------
Held(s) == \E q \in Importers : importing[q] # Resting /\ importing[q].on = s
Advance(q, s) == importing' = [importing EXCEPT ![q].step = s]
Rest(q) == importing' = [importing EXCEPT ![q] = Resting]

(* acquireImportLock and the checks of the batch. *)
Confirm(q, b, s, partial) ==
  /\ importing[q] = Resting /\ ~Held(s)
  /\ batch[b] \in {"VALIDATED", "FAILED"}
  /\ importing' = [importing EXCEPT ![q] =
       [step |-> "mark", of |-> b, on |-> s, partial |-> partial, rows |-> {}]]
  /\ UNCHANGED <<known, batch, staged, imports, partly>>

MarkImporting(q) ==
  /\ importing[q].step = "mark"
  /\ batch' = [batch EXCEPT ![importing[q].of] = "IMPORTING"]
  /\ Advance(q, "fetch")
  /\ UNCHANGED <<known, staged, imports, partly>>

FetchPending(q) ==
  /\ importing[q].step = "fetch"
  /\ importing' = [importing EXCEPT ![q].step = "execute", ![q].rows =
       {p \in Places : staged[importing[q].of][p] # NotInFile
                         /\ staged[importing[q].of][p].state = "PENDING"}]
  /\ UNCHANGED <<known, batch, staged, imports, partly>>

(* An insert fails on the unique code of a state or a district. *)
CodeTaken(b, p) ==
  p \in States \cup Districts /\ staged[b][p].action = "INSERT" /\ Known(p)

NewRows(b, done) == {p \in done : staged[b][p].action = "INSERT"}

Settled(b, rows, failing) ==
  [p \in Places |->
     IF p \notin rows THEN staged[b][p]
     ELSE [staged[b][p] EXCEPT !.state = IF p \in failing THEN "FAILED" ELSE "IMPORTED"]]

(* The transaction, as of its commit.  Any row may fail; one failure aborts all
   unless allow_partial. *)
Execute(q, failing) ==
  LET b == importing[q].of
      rows == importing[q].rows
      new == NewRows(b, rows \ failing)
  IN
  /\ importing[q].step = "execute"
  /\ {p \in rows : CodeTaken(b, p)} \subseteq failing /\ failing \subseteq rows
  /\ \/ /\ failing # {} /\ ~importing[q].partial
        /\ Advance(q, "fail")
        /\ UNCHANGED <<known, staged, imports, partly>>
     \/ /\ failing # {} => importing[q].partial
        /\ known' = [p \in Places |-> IF p \in new THEN known[p] + 1 ELSE known[p]]
        /\ imports' = [imports EXCEPT ![b] = [p \in Places |-> IF p \in new THEN @[p] + 1 ELSE @[p]]]
        /\ staged' = [staged EXCEPT ![b] = Settled(b, rows, failing)]
        /\ partly' = IF importing[q].partial THEN partly \cup {b} ELSE partly
        /\ Advance(q, IF failing # {} /\ failing = rows THEN "fail" ELSE "complete")
  /\ UNCHANGED batch

(* The last write of the batch; the lock is released. *)
Conclude(q) ==
  /\ importing[q].step \in {"complete", "fail"}
  /\ batch' = [batch EXCEPT ![importing[q].of] =
       IF importing[q].step = "complete" THEN "COMPLETED" ELSE "FAILED"]
  /\ Rest(q)
  /\ UNCHANGED <<known, staged, imports, partly>>

(* The server stops: its lock and its transaction go, the batch stays as it is. *)
ServerCrash(s) ==
  /\ Held(s)
  /\ importing' = [q \in Importers |->
       IF importing[q] # Resting /\ importing[q].on = s THEN Resting ELSE importing[q]]
  /\ UNCHANGED <<known, batch, staged, imports, partly>>

ImportNext ==
  \/ \E b \in Batches :
       \/ \E file \in SUBSET States : StageStateCsv(b, file)
       \/ \E file \in SUBSET Districts : StageDistrictCsv(b, file)
       \/ \E file \in SUBSET Cities : StageCityCsv(b, file)
       \/ \E file \in SUBSET Localities : StageLocalityCsv(b, file)
       \/ \E file \in SUBSET Pincodes : StagePincodeCsv(b, file)
  \/ \E q \in Importers :
       \/ \E b \in Batches, s \in Servers, partial \in BOOLEAN : Confirm(q, b, s, partial)
       \/ MarkImporting(q) \/ FetchPending(q) \/ Conclude(q)
       \/ \E failing \in SUBSET Places : Execute(q, failing)
  \/ \E s \in Servers : ServerCrash(s)

ImportSpec == ImportInit /\ [][ImportNext]_importVars

-----------------------------------------------------------------------------
(* No row of a batch is inserted twice, however often the batch is confirmed,
   fails and is confirmed again. *)
ImportedOnce == \A b \in Batches, p \in Places : imports[b][p] <= 1

(* A batch that was never run with allow_partial is imported as a whole or not
   at all, and its status says which. *)
ImportedWhole ==
  \A b \in Batches \ partly :
    LET rows == {p \in Places : staged[b][p] # NotInFile}
        done == {p \in rows : staged[b][p].state = "IMPORTED"}
    IN /\ done \in {{}, rows}
       /\ batch[b] = "COMPLETED" => done = rows
       /\ batch[b] \in {"VALIDATED", "FAILED"} => done = {}

(* Both, whatever confirmations, failures and retries follow each other. *)
ImportsSound == ImportedOnce /\ ImportedWhole
=============================================================================
