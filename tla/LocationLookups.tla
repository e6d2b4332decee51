--------------------------- MODULE LocationLookups ---------------------------
(***************************************************************************)
(* The lists of locations the API serves (location_master.controller.js)   *)
(* from two levels of cache (location_cache.service.js): Redis and the     *)
(* memory of each process, both with a time to live.                       *)
(*                                                                         *)
(* A lookup reads Redis, its memory and the tables in this order and fills *)
(* both caches; an edit is committed and then clears, one list after the   *)
(* other, Redis and the memory of its own process.  Of a list only its     *)
(* version is kept: how many edits changed what it shows.                  *)
(***************************************************************************)
EXTENDS Naturals

CONSTANTS
  Nodes,    \* processes of the API
  Lists,    \* the lists that are looked up, of the five kinds below
  Edited,   \* what is edited, of the six kinds below
  Queries,  \* bound: lookups at once
  MaxEdits, \* bound: edits
  Prefixed, \* REDIS_KEY_PREFIX is the "smartgali:" the patterns begin with
  Meet      \* lookups and edits overlap

ListKinds == {"states", "districts", "cities", "localities", "pincodes"}
EditKinds == {"STATE", "DISTRICT", "CITY", "LOCALITY", "PINCODE", "LINK"}

ASSUME LookupAssumption ==
  /\ Lists \subseteq ListKinds /\ Edited \subseteq EditKinds
  /\ MaxEdits \in Nat /\ Prefixed \in BOOLEAN /\ Meet \in BOOLEAN

VARIABLES
  version,  \* version[l]: of the list the tables give
  shared,   \* shared[l]: the version in Redis, or None
  memory,   \* memory[p][l]: the version in the memory of a process, or None
  query,    \* query[q]: the next step of a lookup, its process, list and version
  toClear  \* what edits already committed have yet to clear

lookupVars == <<version, shared, memory, query, toClear>>

None == MaxEdits + 1
Versions == 0..MaxEdits
NoQuery == [step |-> "idle"]

LookupTypeOK ==
  /\ version \in [Lists -> Versions]
  /\ shared \in [Lists -> Versions \cup {None}]
  /\ memory \in [Nodes -> [Lists -> Versions \cup {None}]]
  /\ query \in [Queries ->
       {NoQuery} \cup [step : {"redis", "memory", "tables", "share", "keep"},
                       at : Nodes, list : Lists, found : Versions \cup {None}]]
  /\ toClear \subseteq [at : Nodes, lists : SUBSET Lists]

LookupInit ==
  /\ version = [l \in Lists |-> 0] /\ shared = [l \in Lists |-> None]
  /\ memory = [p \in Nodes |-> [l \in Lists |-> None]]
  /\ query = [q \in Queries |-> NoQuery] /\ toClear = {}

-----------------------------------------------------------------------------
(* The rows of which datasets a list shows, the included ones too. *)
ShownIn(k) ==
  CASE k = "STATE" -> {"states", "districts", "cities"}
    [] k = "DISTRICT" -> {"districts", "cities"}
    [] k = "CITY" -> {"cities", "localities", "pincodes"}
    [] OTHER -> {"localities", "pincodes"}

(* invalidateLocationCache; a link of a locality to a PIN code calls nothing. *)
ClearedBy(k) ==
  CASE k = "STATE" -> {"states", "districts"}
    [] k = "DISTRICT" -> {"districts", "cities"}
    [] k = "CITY" -> {"cities", "localities"}
    [] k = "LOCALITY" -> {"localities", "pincodes"}
    [] k = "PINCODE" -> {"pincodes"}
    [] OTHER -> {}

(* cacheDelPattern: KEYS does not get the prefix of the client.  A pattern that
   begins with it is taken to have it already, and matches no key. *)
InReach(l) == l = "states" \/ ~Prefixed

QueriesRest == \A q \in Queries : query[q] = NoQuery

(* An administrator's create, update or change of status, a link, or an import. *)
Edit(p, k) ==
  /\ \A l \in Lists : version[l] < MaxEdits
  /\ Meet \/ (QueriesRest /\ toClear = {})
  /\ version' = [l \in Lists |-> IF l \in ShownIn(k) THEN version[l] + 1 ELSE version[l]]
  /\ toClear' = IF ClearedBy(k) \cap Lists = {} THEN toClear
                 ELSE toClear \cup {[at |-> p, lists |-> ClearedBy(k) \cap Lists]}
  /\ UNCHANGED <<shared, memory, query>>

Done(c, l) ==
  toClear' = (toClear \ {c}) \cup
    (IF c.lists = {l} THEN {} ELSE {[c EXCEPT !.lists = @ \ {l}]})

(* One list in both levels; an error of Redis is swallowed. *)
ClearList(c, l) ==
  /\ Done(c, l)
  /\ \/ shared' = [shared EXCEPT ![l] = IF InReach(l) THEN None ELSE @]
     \/ Meet /\ UNCHANGED shared
  /\ memory' = [memory EXCEPT ![c.at][l] = None]
  /\ UNCHANGED <<version, query>>

(* The process ends: its memory is lost and so is what it had to clear. *)
EndProcess(p) ==
  /\ Meet
  /\ toClear' = {c \in toClear : c.at # p}
  /\ memory' = [memory EXCEPT ![p] = [l \in Lists |-> None]]
  /\ query' = [q \in Queries |->
                 IF query[q] # NoQuery /\ query[q].at = p THEN NoQuery ELSE query[q]]
  /\ UNCHANGED <<version, shared>>

-----------------------------------------------------------------------------
(* getOrSetCache.                                                          *)

AtStep(q, s) == query[q].step = s
Advance(q, s, v) == query' = [query EXCEPT ![q].step = s, ![q].found = v]
Answered(q) == query' = [query EXCEPT ![q] = NoQuery]

LookUpList(q, p, l) ==
  /\ query[q] = NoQuery /\ (Meet \/ toClear = {})
  /\ query' = [query EXCEPT ![q] = [step |-> "redis", at |-> p, list |-> l, found |-> None]]
  /\ UNCHANGED <<version, shared, memory, toClear>>

(* What Redis has is served and not kept in memory. *)
AskRedis(q) ==
  /\ AtStep(q, "redis")
  /\ IF shared[query[q].list] # None THEN Answered(q) ELSE Advance(q, "memory", None)
  /\ UNCHANGED <<version, shared, memory, toClear>>

(* What the memory has is served and not put into Redis. *)
AskMemory(q) ==
  /\ AtStep(q, "memory")
  /\ IF memory[query[q].at][query[q].list] # None
     THEN Answered(q) ELSE Advance(q, "tables", None)
  /\ UNCHANGED <<version, shared, memory, toClear>>

ReadTables(q) ==
  /\ AtStep(q, "tables") /\ Advance(q, "share", version[query[q].list])
  /\ UNCHANGED <<version, shared, memory, toClear>>

ShareList(q) ==
  /\ AtStep(q, "share") /\ Advance(q, "keep", query[q].found)
  /\ \/ shared' = [shared EXCEPT ![query[q].list] = query[q].found]
     \/ Meet /\ UNCHANGED shared
  /\ UNCHANGED <<version, memory, toClear>>

KeepList(q) ==
  /\ AtStep(q, "keep") /\ Answered(q)
  /\ memory' = [memory EXCEPT ![query[q].at][query[q].list] = query[q].found]
  /\ UNCHANGED <<version, shared, toClear>>

ContinueQuery(q) ==
  AskRedis(q) \/ AskMemory(q) \/ ReadTables(q) \/ ShareList(q) \/ KeepList(q)

-----------------------------------------------------------------------------
ExpireMemory(p, l) ==
  /\ memory[p][l] # None
  /\ memory' = [memory EXCEPT ![p][l] = None]
  /\ UNCHANGED <<version, shared, query, toClear>>

ExpireShared(l) ==
  /\ shared[l] # None
  /\ shared' = [shared EXCEPT ![l] = None]
  /\ UNCHANGED <<version, memory, query, toClear>>

LookupNext ==
  \/ \E p \in Nodes : EndProcess(p) \/ \E k \in Edited : Edit(p, k)
  \/ \E c \in toClear : \E l \in c.lists : ClearList(c, l)
  \/ \E q \in Queries : ContinueQuery(q) \/ \E p \in Nodes, l \in Lists : LookUpList(q, p, l)
  \/ \E l \in Lists : ExpireShared(l) \/ \E p \in Nodes : ExpireMemory(p, l)

LookupSpec == LookupInit /\ [][LookupNext]_lookupVars

(* Lookups go on unless their process ends, and entries expire. *)
LookupFairness ==
  /\ \A q \in Queries : WF_lookupVars(ContinueQuery(q))
  /\ \A l \in Lists : /\ WF_lookupVars(ExpireShared(l))
                      /\ \A p \in Nodes : WF_lookupVars(ExpireMemory(p, l))

FairLookupSpec == LookupSpec /\ LookupFairness

-----------------------------------------------------------------------------
Fresh(v, l) == v \in {None, version[l]}

(* Once nobody edits, every cache comes to hold what the tables give, though an
   edit clears one process only, may miss Redis and some lists, and lookups store
   what they read before it. *)
LookupsConverge ==
  <>[](\A l \in Lists : Fresh(shared[l], l) /\ \A p \in Nodes : Fresh(memory[p][l], l))

(* location_cache.service.js: "Invalidate Location Master caches (after admin
   create/update/delete/import)".  After the invalidation, with no lookup on its
   way, Redis has no list from before the edit. *)
InvalidatedIsGone ==
  toClear = {} /\ QueriesRest => \A l \in Lists : Fresh(shared[l], l)
=============================================================================
