--------------------------------- MODULE Polls ---------------------------------
(***************************************************************************)
(* One poll of a community (community_poll.service.js) or of a society     *)
(* (society_poll.service.js).                                              *)
(*                                                                         *)
(* A community poll stores its tallies in a JSON column: a vote reads them,*)
(* changes them in memory and writes them back, and may be moved to another*)
(* option.  A society poll counts its votes when it is read, a vote is cast*)
(* once, and the society closes, reopens and extends it.  Both hold the row *)
(* of the poll from the first read to the commit.                          *)
(***************************************************************************)
EXTENDS Naturals, FiniteSets

CONSTANTS
  Voters,    \* users
  Options,   \* options
  NoOption,  \* has not voted
  Ballots    \* bound: votes under way at once

ASSUME PollAssumption == NoOption \notin Options /\ IsFiniteSet(Voters)

VARIABLES
  kind,       \* "community" or "society"
  member,     \* the voters with an active membership
  vote,       \* vote[v]: the row of v
  tally,      \* votesCount of each option: of a community poll
  total,      \* total_votes
  poll,       \* "active", "closed", "expired", "deleted"
  pollLock,   \* some ballot holds the row of the poll
  ballot      \* ballot[b]: a request to vote

pollVars == <<kind, member, vote, tally, total, poll, pollLock, ballot>>

Blank == [step |-> "blank"]
Tallies == [Options -> Nat]

PollTypeOK ==
  /\ kind \in {"community", "society"}
  /\ member \subseteq Voters
  /\ vote \in [Voters -> Options \cup {NoOption}]
  /\ tally \in Tallies /\ total \in Nat
  /\ poll \in {"active", "closed", "expired", "deleted"}
  /\ pollLock \in BOOLEAN
  /\ ballot \in [Ballots ->
       {Blank} \cup [step : {"checked"}, by : Voters]
               \cup [step : {"read"}, by : Voters, tally : Tallies, total : Nat]]

PollInit ==
  /\ kind \in {"community", "society"}
  /\ member = Voters
  /\ vote = [v \in Voters |-> NoOption]
  /\ tally = [o \in Options |-> 0] /\ total = 0
  /\ poll = "active" /\ pollLock = FALSE
  /\ ballot = [b \in Ballots |-> Blank]

-----------------------------------------------------------------------------
Mark(b, x) == ballot' = [ballot EXCEPT ![b] = x]

(* votePoll of a community reads the membership; of a society, requireSocietyMember
   has read it before. *)
CheckVoter(b, v) ==
  /\ ballot[b] = Blank /\ v \in member
  /\ Mark(b, [step |-> "checked", by |-> v])
  /\ UNCHANGED <<kind, member, vote, tally, total, poll, pollLock>>

(* Variant: the poll is read without FOR UPDATE. *)
ReadPollUnlocked(b) ==
  /\ ballot[b].step = "checked"
  /\ IF poll = "active"
     THEN Mark(b, [step |-> "read", by |-> ballot[b].by, tally |-> tally, total |-> total])
     ELSE Mark(b, Blank)
  /\ UNCHANGED <<kind, member, vote, tally, total, poll, pollLock>>

ReadPoll(b) ==
  /\ ballot[b].step = "checked" /\ ~pollLock
  /\ IF poll = "active"
     THEN /\ Mark(b, [step |-> "read", by |-> ballot[b].by, tally |-> tally, total |-> total])
          /\ pollLock' = TRUE
     ELSE Mark(b, Blank) /\ UNCHANGED pollLock
  /\ UNCHANGED <<kind, member, vote, tally, total, poll>>

(* The rest of votePoll of a community, for a first vote and for another; the
   same vote again changes nothing. *)
Recount(old, new, t) ==
  [o \in Options |-> IF old = new THEN t[o]
                     ELSE IF o = new THEN t[o] + 1
                     ELSE IF o = old /\ t[o] > 0 THEN t[o] - 1 ELSE t[o]]

CastInCommunity(b, o) ==
  /\ kind = "community" /\ ballot[b].step = "read"
  /\ LET v == ballot[b].by IN
       /\ vote' = [vote EXCEPT ![v] = o]
       /\ tally' = Recount(vote[v], o, ballot[b].tally)
       /\ total' = IF vote[v] = NoOption THEN ballot[b].total + 1 ELSE ballot[b].total
  /\ pollLock' = FALSE /\ Mark(b, Blank)
  /\ UNCHANGED <<kind, member, poll>>

(* The rest of votePoll of a society: a second vote is refused. *)
CastInSociety(b, o) ==
  /\ kind = "society" /\ ballot[b].step = "read"
  /\ LET v == ballot[b].by IN
       vote' = IF vote[v] = NoOption THEN [vote EXCEPT ![v] = o] ELSE vote
  /\ pollLock' = FALSE /\ Mark(b, Blank)
  /\ UNCHANGED <<kind, member, tally, total, poll>>

-----------------------------------------------------------------------------
(* expires_at passes: a ballot that has read the poll is not asked again. *)
PollExpires ==
  /\ poll = "active" /\ poll' = "expired"
  /\ UNCHANGED <<kind, member, vote, tally, total, pollLock, ballot>>

(* updatePoll and updatePollStatus: the status, and the date. *)
UpdatePoll ==
  /\ kind = "society" /\ poll # "deleted" /\ ~pollLock
  /\ poll' \in {"active", "closed", "expired"}
  /\ UNCHANGED <<kind, member, vote, tally, total, pollLock, ballot>>

DeletePoll ==
  /\ poll # "deleted" /\ ~pollLock /\ poll' = "deleted"
  /\ UNCHANGED <<kind, member, vote, tally, total, pollLock, ballot>>

(* A membership ends; no vote is taken back. *)
VoterLeaves(v) ==
  /\ member' = member \ {v}
  /\ UNCHANGED <<kind, vote, tally, total, poll, pollLock, ballot>>

PollNext ==
  \/ \E b \in Ballots :
       \/ \E v \in Voters : CheckVoter(b, v)
       \/ ReadPoll(b)
       \/ \E o \in Options : CastInCommunity(b, o) \/ CastInSociety(b, o)
  \/ PollExpires \/ UpdatePoll \/ DeletePoll
  \/ \E v \in Voters : VoterLeaves(v)

PollSpec == PollInit /\ [][PollNext]_pollVars

-----------------------------------------------------------------------------
(* The tallies a community poll stores are the votes cast, whatever votes are
   cast and moved at once. *)
TalliesAreVotes ==
  kind = "community" =>
    /\ \A o \in Options : tally[o] = Cardinality({v \in Voters : vote[v] = o})
    /\ total = Cardinality({v \in Voters : vote[v] # NoOption})

(* The votes of a society: none changes, and none is cast once it is closed or
   deleted. *)
VotesStand ==
  [][kind = "society" =>
       \A v \in Voters : vote'[v] # vote[v] => vote[v] = NoOption /\ poll \in {"active", "expired"}]_pollVars
=============================================================================
