------------------------------ MODULE Documents ------------------------------
(***************************************************************************)
(* One official document of a society: its versions, its way to            *)
(* publication and its acknowledgements (society_document.service.js).     *)
(* Every handler reads the row, decides, and writes in a transaction that  *)
(* reads nothing again: what it is about to write is in `uploads`,         *)
(* `decisions` and `acknowledging`.  Sequelize writes the fields that      *)
(* differ from what was read.  Who may see a document is a function of its *)
(* status and of data no step changes.  Metadata and the expiry, which     *)
(* nothing schedules, are left out.                                        *)
(***************************************************************************)
EXTENDS Naturals, FiniteSets

CONSTANTS
  Names,       \* version names
  LastFile,    \* bound: files ever uploaded
  MaxDecisions, \* bound: changes of status at once
  Readers,     \* active members of the society
  NamesReused  \* a version name may be given a second time

ASSUME DocumentAssumption ==
  LastFile \in Nat \ {0} /\ MaxDecisions \in Nat /\ NamesReused \in BOOLEAN

VARIABLES
  docStatus,      \* of the row, "deleted" when is_deleted
  shown,          \* version and file_url of the row
  filed,          \* rows of society_document_versions
  uploads,        \* new versions about to be written, with the name that was read
  decisions,      \* statuses about to be written
  acknowledging,  \* acknowledgements about to be created
  acknowledged,   \* rows of society_document_acknowledgements
  onDisplay       \* history: what the document has shown while published

documentVars == <<docStatus, shown, filed, uploads, decisions, acknowledging,
                  acknowledged, onDisplay>>

DocumentStatuses == {"draft", "under_review", "approved", "published", "archived", "rejected"}
Editions == [name : Names, file : 1..LastFile]

DocumentTypeOK ==
  /\ docStatus \in DocumentStatuses \cup {"deleted"}
  /\ shown \in Editions /\ filed \subseteq Editions
  /\ uploads \subseteq [name : Names, file : 1..LastFile, read : Names]
  /\ decisions \subseteq [from : DocumentStatuses, to : DocumentStatuses]
  /\ acknowledging \subseteq Readers \X Names /\ acknowledged \subseteq Readers \X Names
  /\ onDisplay \subseteq Names

Displayed(s, x) == IF s = "published" THEN onDisplay \cup {x.name} ELSE onDisplay

(* createDocument: any status may be asked for. *)
DocumentInit ==
  /\ docStatus \in DocumentStatuses \ {"rejected"}
  /\ shown \in {[name |-> n, file |-> 1] : n \in Names} /\ filed = {shown}
  /\ uploads = {} /\ decisions = {} /\ acknowledging = {} /\ acknowledged = {}
  /\ onDisplay = IF docStatus = "published" THEN {shown.name} ELSE {}

-----------------------------------------------------------------------------
(* updateDocumentStatus: what may follow; draft may be saved as draft again. *)
NextDocumentStatuses ==
  [draft |-> {"draft", "under_review"}, under_review |-> {"approved", "rejected", "draft"},
   approved |-> {"published", "under_review"}, published |-> {"archived"},
   archived |-> {"published"}, rejected |-> {"draft", "under_review"}]

Decided(s) ==
  /\ Cardinality(decisions) < MaxDecisions  \* bound
  /\ docStatus # "deleted" /\ s \in NextDocumentStatuses[docStatus]
  /\ decisions' = decisions \cup {[from |-> docStatus, to |-> s]}
  /\ UNCHANGED <<docStatus, shown, filed, uploads, acknowledging, acknowledged, onDisplay>>

UpdateDocumentStatus(d) ==
  /\ d \in decisions /\ decisions' = decisions \ {d}
  /\ docStatus' = IF d.from = d.to \/ docStatus = "deleted" THEN docStatus ELSE d.to
  /\ onDisplay' = Displayed(docStatus', shown)
  /\ UNCHANGED <<shown, filed, uploads, acknowledging, acknowledged>>

DeleteDocument ==
  /\ docStatus # "deleted" /\ docStatus' = "deleted"
  /\ UNCHANGED <<shown, filed, uploads, decisions, acknowledging, acknowledged, onDisplay>>

-----------------------------------------------------------------------------
(* createVersion, whatever the status; the file is new. *)
UsedFiles == {x.file : x \in filed} \cup {x.file : x \in uploads}
UsedNames == {x.name : x \in filed} \cup {x.name : x \in uploads}

Uploaded(n) ==
  /\ docStatus # "deleted" /\ (~NamesReused => n \notin UsedNames)
  /\ \E f \in 1..LastFile :
       /\ f \notin UsedFiles /\ \A g \in 1..(f - 1) : g \in UsedFiles
       /\ uploads' = uploads \cup {[name |-> n, file |-> f, read |-> shown.name]}
  /\ UNCHANGED <<docStatus, shown, filed, decisions, acknowledging, acknowledged, onDisplay>>

(* Variant: the row keeps the name of its version. *)
CreateVersionUnnamed(x) ==
  /\ x \in uploads /\ uploads' = uploads \ {x}
  /\ filed' = filed \cup {[name |-> x.name, file |-> x.file]}
  /\ shown' = [shown EXCEPT !.file = x.file]
  /\ onDisplay' = Displayed(docStatus, shown')
  /\ UNCHANGED <<docStatus, decisions, acknowledging, acknowledged>>

CreateVersion(x) ==
  /\ x \in uploads /\ uploads' = uploads \ {x}
  /\ filed' = filed \cup {[name |-> x.name, file |-> x.file]}
  /\ shown' = [name |-> IF x.name = x.read THEN shown.name ELSE x.name, file |-> x.file]
  /\ onDisplay' = Displayed(docStatus, shown')
  /\ UNCHANGED <<docStatus, decisions, acknowledging, acknowledged>>

-----------------------------------------------------------------------------
(* acknowledgeDocument, of the version that was read. *)
ReadToAcknowledge(u) ==
  /\ docStatus = "published" /\ <<u, shown.name>> \notin acknowledged
  /\ acknowledging' = acknowledging \cup {<<u, shown.name>>}
  /\ UNCHANGED <<docStatus, shown, filed, uploads, decisions, acknowledged, onDisplay>>

AcknowledgeDocument(a) ==
  /\ a \in acknowledging /\ acknowledging' = acknowledging \ {a}
  /\ acknowledged' = acknowledged \cup {a}
  /\ UNCHANGED <<docStatus, shown, filed, uploads, decisions, onDisplay>>

-----------------------------------------------------------------------------
(* Who may see a document (society_document_visibility.service.js): `kind` is its
   visibility, whether it is of the finances and whether it names the reader's role;
   the rights are those delegated to a member of the committee. *)
DocumentRoles == {"admin", "guard", "committee", "resident"}
Rights == {"review", "approve", "publish", "archive"}
DocumentKinds == [visibility : {"all", "resident", "committee", "admin", "security",
                        "maintenance", "specific_roles"},
          financial : BOOLEAN, named : BOOLEAN]

ToResidents(kind) == kind.visibility \in {"all", "resident"}
ToGuards(kind) == kind.visibility \in {"all", "security"} /\ ~kind.financial
ToNamed(kind) == kind.visibility = "specific_roles" /\ kind.named

(* canAccessOfficialDocument: opening one document. *)
CanAccess(s, kind, role, rights) ==
  \/ role = "admin"
  \/ s = "published" /\ role = "guard" /\ ToGuards(kind)
  \/ s = "published" /\ role \in {"resident", "committee"}
       /\ (ToResidents(kind) \/ ToNamed(kind))
  \/ s = "published" /\ role = "committee" /\ kind.visibility = "committee"
  \/ role = "committee" /\ rights # {}

(* buildOfficialDocumentWhere: the list. *)
InList(s, kind, role, rights) ==
  \/ role = "admin"
  \/ s = "published" /\ role = "guard" /\ ToGuards(kind)
  \/ role = "committee" /\ rights \cap {"review", "publish"} # {}
  \/ s = "published" /\ role = "committee"
       /\ (ToResidents(kind) \/ kind.visibility = "committee")
  \/ s = "published" /\ role = "resident" /\ ToResidents(kind)

-----------------------------------------------------------------------------
DocumentNext ==
  \/ \E s \in DocumentStatuses : Decided(s)
  \/ \E d \in decisions : UpdateDocumentStatus(d)
  \/ DeleteDocument
  \/ \E n \in Names : Uploaded(n)
  \/ \E x \in uploads : CreateVersion(x)
  \/ \E u \in Readers : ReadToAcknowledge(u)
  \/ \E a \in acknowledging : AcknowledgeDocument(a)

DocumentSpec == DocumentInit /\ [][DocumentNext]_documentVars

-----------------------------------------------------------------------------
(* The file a document shows is the file of the version it names, whatever
   uploads overlap, and what was acknowledged is the name of one file that the
   document has shown while it was published.  Both need names that are not
   reused: see README. *)
FilesMatchVersions ==
  /\ shown \in filed
  /\ \A a \in acknowledged : a[2] \in onDisplay
       /\ \A x, y \in filed : x.name = a[2] /\ y.name = a[2] => x = y

(* What a list shows may be opened. *)
ListedIsReadable ==
  docStatus # "deleted" =>
    \A kind \in DocumentKinds, role \in DocumentRoles, rights \in SUBSET Rights :
      InList(docStatus, kind, role, rights) => CanAccess(docStatus, kind, role, rights)

(* What the code does not keep.  society_document.service.js: "DRAFT ->
   UNDER_REVIEW -> APPROVED -> PUBLISHED -> ARCHIVED". *)
StrictLifecycle ==
  [][docStatus # "deleted" =>
       docStatus' \in {docStatus, "deleted"} \cup NextDocumentStatuses[docStatus]]_documentVars
=============================================================================
