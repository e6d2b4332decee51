----------------------------- MODULE Permissions -----------------------------
(***************************************************************************)
(* What the API believes of one permission of one user                     *)
(* (permission.service.js): the direct grant and the grant of his role in  *)
(* the database, the cache of each process and the one in Redis, both with *)
(* a time to live.                                                         *)
(*                                                                         *)
(* A lookup reads Redis, the direct grants, the roles, in statements of    *)
(* its own, then writes the cache of its process and later Redis.  A       *)
(* change is written first; what it clears is in `clearing`.  Roles are    *)
(* taken as held throughout; blocked users are refused before a lookup.    *)
(***************************************************************************)
EXTENDS Naturals

CONSTANTS
  Processes,  \* processes of the API
  Lookups,    \* bound: lookups at once
  MaxChanges  \* bound: changes of the grants

ASSUME PermissionAssumption == MaxChanges \in Nat

VARIABLES
  direct,      \* effect of the user_permissions row
  roleGrants,  \* the role has the permission
  l1,          \* l1[p]: the answer in the cache of a process
  redis,       \* the answer in Redis
  look,        \* look[k]: the next step of a lookup and what it has read
  clearing,    \* caches that changes already written have yet to clear
  changes      \* changes so far

grants == <<direct, roleGrants>>
permissionVars == <<grants, l1, redis, look, clearing, changes>>

Effects == {"none", "ALLOW", "DENY"}
Rights == {"denied", "granted", "nothing"}
NoLookup == [step |-> "idle"]

PermissionTypeOK ==
  /\ direct \in Effects /\ roleGrants \in BOOLEAN
  /\ l1 \in [Processes -> Rights \cup {"none"}] /\ redis \in Rights \cup {"none"}
  /\ look \in [Lookups ->
       {NoLookup} \cup [step : {"redis", "direct"}, at : Processes]
         \cup [step : {"fill", "store", "push"}, at : Processes, answer : Rights]
         \cup [step : {"roles"}, at : Processes, direct : Effects]]
  /\ clearing \subseteq [what : {"user", "key", "all", "regrant"}, at : Processes]
  /\ changes \in 0..MaxChanges

PermissionInit ==
  /\ direct \in Effects /\ roleGrants \in BOOLEAN
  /\ l1 = [p \in Processes |-> "none"] /\ redis = "none"
  /\ look = [k \in Lookups |-> NoLookup]
  /\ clearing = {} /\ changes = 0

-----------------------------------------------------------------------------
(* A denial takes precedence over every grant. *)
Answer(d, r) ==
  IF d = "DENY" THEN "denied" ELSE IF d = "ALLOW" \/ r THEN "granted" ELSE "nothing"

Stands(k, s) == look[k].step = s
Moves(k, x) == look' = [look EXCEPT ![k] = x]

(* Variant: an answer of the process is written to Redis again. *)
StartWarming(k, p) ==
  /\ Stands(k, "idle")
  /\ Moves(k, IF l1[p] = "none" THEN [step |-> "redis", at |-> p]
           ELSE [step |-> "push", at |-> p, answer |-> l1[p]])
  /\ UNCHANGED <<grants, l1, redis, clearing, changes>>

(* getUserEffectivePermissions: a lookup that finds the answer in the cache of
   its process ends there, one with the role of the user at hand reads no cache. *)
StartLookup(k, p) ==
  /\ Stands(k, "idle")
  /\ \/ l1[p] = "none" /\ Moves(k, [step |-> "redis", at |-> p])
     \/ Moves(k, [step |-> "direct", at |-> p])
  /\ UNCHANGED <<grants, l1, redis, clearing, changes>>

ReadRedis(k) ==
  /\ Stands(k, "redis")
  /\ Moves(k, IF redis = "none" THEN [step |-> "direct", at |-> look[k].at]
           ELSE [step |-> "fill", at |-> look[k].at, answer |-> redis])
  /\ UNCHANGED <<grants, l1, redis, clearing, changes>>

FillL1(k) ==
  /\ Stands(k, "fill")
  /\ l1' = [l1 EXCEPT ![look[k].at] = look[k].answer]
  /\ Moves(k, NoLookup)
  /\ UNCHANGED <<grants, redis, clearing, changes>>

ReadDirect(k) ==
  /\ Stands(k, "direct")
  /\ Moves(k, [step |-> "roles", at |-> look[k].at, direct |-> direct])
  /\ UNCHANGED <<grants, l1, redis, clearing, changes>>

ReadRoles(k) ==
  /\ Stands(k, "roles")
  /\ Moves(k, [step |-> "store", at |-> look[k].at, answer |-> Answer(look[k].direct, roleGrants)])
  /\ UNCHANGED <<grants, l1, redis, clearing, changes>>

StoreL1(k) ==
  /\ Stands(k, "store")
  /\ l1' = [l1 EXCEPT ![look[k].at] = look[k].answer]
  /\ Moves(k, [look[k] EXCEPT !.step = "push"])
  /\ UNCHANGED <<grants, redis, clearing, changes>>

(* cacheSet is not awaited and may fail. *)
PushRedis(k) ==
  /\ Stands(k, "push")
  /\ redis' \in {redis, look[k].answer}
  /\ Moves(k, NoLookup)
  /\ UNCHANGED <<grants, l1, clearing, changes>>

Proceed(k) ==
  ReadRedis(k) \/ FillL1(k) \/ ReadDirect(k) \/ ReadRoles(k) \/ StoreL1(k) \/ PushRedis(k)

-----------------------------------------------------------------------------
Change(c) ==
  /\ changes < MaxChanges /\ changes' = changes + 1
  /\ clearing' = clearing \cup {c}
  /\ UNCHANGED <<l1, redis, look>>

(* assignDirectUserPermissions and removeDirectUserPermission. *)
ChangeDirect(p, d) ==
  d # direct /\ direct' = d /\ UNCHANGED roleGrants /\ Change([what |-> "user", at |-> p])

(* assignPermissionsToRole empties the role, then fills it again ... *)
EmptyRole(p, w) ==
  roleGrants' = FALSE /\ UNCHANGED direct /\ Change([what |-> w, at |-> p])

RefillRole(c) ==
  /\ c.what = "regrant" /\ roleGrants' = TRUE
  /\ clearing' = (clearing \ {c}) \cup {[what |-> "all", at |-> c.at]}
  /\ UNCHANGED <<direct, l1, redis, look, changes>>

(* ... and clears the cache of its own process only. *)
ClearAll(c) ==
  /\ c.what = "all" /\ l1' = [l1 EXCEPT ![c.at] = "none"]
  /\ clearing' = clearing \ {c}
  /\ UNCHANGED <<grants, redis, look, changes>>

(* invalidateUserPermissionCache; Redis may be away. *)
ClearUser(c) ==
  /\ c.what = "user" /\ l1' = [l1 EXCEPT ![c.at] = "none"]
  /\ clearing' = (clearing \ {c}) \cup {[what |-> "key", at |-> c.at]}
  /\ UNCHANGED <<grants, redis, look, changes>>

ClearKey(c) ==
  /\ c.what = "key" /\ redis' \in {redis, "none"}
  /\ clearing' = clearing \ {c}
  /\ UNCHANGED <<grants, l1, look, changes>>

ExpireL1(p) ==
  /\ l1[p] # "none" /\ l1' = [l1 EXCEPT ![p] = "none"]
  /\ UNCHANGED <<grants, redis, look, clearing, changes>>

ExpireRedis ==
  /\ redis # "none" /\ redis' = "none"
  /\ UNCHANGED <<grants, l1, look, clearing, changes>>

-----------------------------------------------------------------------------
PermissionNext ==
  \/ \E k \in Lookups : Proceed(k) \/ \E p \in Processes : StartLookup(k, p)
  \/ \E p \in Processes :
       \/ ExpireL1(p)
       \/ \E d \in Effects : ChangeDirect(p, d)
       \/ \E w \in {"all", "regrant"} : EmptyRole(p, w)
  \/ \E c \in clearing : RefillRole(c) \/ ClearAll(c) \/ ClearUser(c) \/ ClearKey(c)
  \/ ExpireRedis

PermissionSpec == PermissionInit /\ [][PermissionNext]_permissionVars
FairPermissionSpec ==
  /\ PermissionSpec
  /\ \A k \in Lookups : WF_permissionVars(Proceed(k))
  /\ \A p \in Processes : WF_permissionVars(ExpireL1(p))
  /\ WF_permissionVars(ExpireRedis)

-----------------------------------------------------------------------------
Truth == Answer(direct, roleGrants)

(* Once the grants stay as they are every process believes what the database
   says, though changes of a role clear one process only, Redis is not cleared
   when it is away and lookups store what they read before a change. *)
RightsConverge ==
  <>[](redis \in {"none", Truth} /\ \A p \in Processes : l1[p] \in {"none", Truth})
=============================================================================
