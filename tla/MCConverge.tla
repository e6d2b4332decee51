------------------------------ MODULE MCConverge ------------------------------
(***************************************************************************)
(* One run for five components that share no state and must come to agree  *)
(* with the database or to an end: the counters of an event, the caches of *)
(* a permission, those of the locations, the presence of a user and the    *)
(* outbox.  `part` is the one that runs; the others stay in an initial     *)
(* state.                                                                  *)
(***************************************************************************)
EXTENDS EventRsvp, Permissions, LocationLookups, Presence, OutboxPipeline, TLC

VARIABLE part

convergeVars == <<part, rsvpVars, permissionVars, lookupVars, presenceVars, vars>>

RsvpRests == status = "draft" /\ cap = 0 /\ RsvpInit
PermissionRests == direct = "none" /\ roleGrants = FALSE /\ PermissionInit
PresenceRests == isOnline = FALSE /\ PresenceInit

ConvergeInit ==
  /\ part \in {"rsvp", "permission", "lookups", "presence", "outbox"}
  /\ IF part = "rsvp" THEN RsvpInit ELSE RsvpRests
  /\ IF part = "permission" THEN PermissionInit ELSE PermissionRests
  /\ IF part = "presence" THEN PresenceInit ELSE PresenceRests
  /\ LookupInit /\ Init

ConvergeNext ==
  /\ UNCHANGED part
  /\ \/ /\ part = "rsvp" /\ RsvpNext
        /\ UNCHANGED <<permissionVars, lookupVars, presenceVars, vars>>
     \/ /\ part = "permission" /\ PermissionNext
        /\ UNCHANGED <<rsvpVars, lookupVars, presenceVars, vars>>
     \/ /\ part = "lookups" /\ LookupNext
        /\ UNCHANGED <<rsvpVars, permissionVars, presenceVars, vars>>
     \/ /\ part = "presence" /\ PresenceNext
        /\ UNCHANGED <<rsvpVars, permissionVars, lookupVars, vars>>
     \/ /\ part = "outbox" /\ Next
        /\ UNCHANGED <<rsvpVars, permissionVars, lookupVars, presenceVars>>

(* The fairness of RepairedRsvpSpec, FairPermissionSpec, FairLookupSpec,
   FairPresenceSpec and FairSpec, each while its part runs. *)
ConvergeFairness ==
  /\ WF_rsvpVars(part = "rsvp" /\ ReconcileRead)
  /\ WF_rsvpVars(part = "rsvp" /\ ReconcileWrite)
  /\ \A k \in Lookups : WF_permissionVars(part = "permission" /\ Proceed(k))
  /\ \A p \in Processes : WF_permissionVars(part = "permission" /\ ExpireL1(p))
  /\ WF_permissionVars(part = "permission" /\ ExpireRedis)
  /\ \A q \in Queries : WF_lookupVars(part = "lookups" /\ ContinueQuery(q))
  /\ \A l \in Lists :
       /\ WF_lookupVars(part = "lookups" /\ ExpireShared(l))
       /\ \A p \in Nodes : WF_lookupVars(part = "lookups" /\ ExpireMemory(p, l))
  /\ \A s \in Sockets : /\ WF_presenceVars(part = "presence" /\ Handler(s))
                        /\ WF_presenceVars(part = "presence" /\ Touch(s))
  /\ WF_presenceVars(part = "presence" /\ ExpireKey)
  /\ WF_vars(part = "outbox" /\ Start) /\ WF_vars(part = "outbox" /\ Fetch)
  /\ \A e \in Events :
       /\ WF_vars(part = "outbox" /\ (Enqueue(e) \/ EnqueueSkipped(e)))
       /\ WF_vars(part = "outbox" /\ SweepOne(e)) /\ WF_vars(part = "outbox" /\ Promote(e))
       /\ WF_vars(part = "outbox" /\ Stalled(e)) /\ WF_vars(part = "outbox" /\ Listener(e))
       /\ WF_vars(part = "outbox" /\ \E s \in Slots : Take(s, e))
  /\ \A s \in Slots : WF_vars(part = "outbox" /\ Work(s))

ConvergeRun == ConvergeInit /\ [][ConvergeNext]_convergeVars /\ ConvergeFairness

(* The caches of both kinds come to hold what the tables give. *)
CachesConverge == RightsConverge /\ LookupsConverge
=============================================================================
