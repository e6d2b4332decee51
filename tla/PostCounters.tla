----------------------------- MODULE PostCounters -----------------------------
(***************************************************************************)
(* The counters of one post (post_like, post_comment, post_share) and the  *)
(* script that repairs them (counterReconciliation.worker.js).             *)
(*                                                                         *)
(* A like locks the post and then inserts its row; an unlike deletes the   *)
(* row and then updates the post: the two can wait for each other.  A      *)
(* comment and a share write the post in the one step in which they commit.*)
(* The script reads the counters, counts the rows of each kind in a later  *)
(* statement of its own, and writes what it counted.                       *)
(***************************************************************************)
EXTENDS Naturals, FiniteSets

CONSTANTS
  Fans,        \* users
  Tasks,       \* bound: requests at once
  MaxRows      \* bound: comments, and shares

ASSUME PostAssumption == MaxRows \in Nat

VARIABLES
  likes,     \* the users whose like is committed
  comments,  \* number of comments
  shares,    \* number of shares
  counters,  \* likes_count, comments_count, shares_count
  postGone,  \* is_deleted
  task,      \* task[t]: a request under way, with its locks
  script     \* what the script has read

postVars == <<likes, comments, shares, counters, postGone, task, script>>

IdleTask == [does |-> "nothing"]
(* The deployment may run the script or not. *)
Asleep == [next |-> "sleep"]
NeverRun == [next |-> "never"]
Counters == [likes : Nat, comments : Nat, shares : Nat]
Reads == [next : {"likes", "comments", "shares", "repair"}, stored : Counters, counted : Counters]

PostTypeOK ==
  /\ likes \subseteq Fans
  /\ comments \in 0..MaxRows /\ shares \in 0..MaxRows
  /\ counters \in Counters
  /\ postGone \in BOOLEAN
  /\ task \in [Tasks -> {IdleTask} \cup [does : {"like", "unlike"}, by : Fans]]
  /\ script \in {Asleep, NeverRun} \cup Reads

PostInit ==
  /\ likes = {} /\ comments = 0 /\ shares = 0
  /\ counters = [likes |-> 0, comments |-> 0, shares |-> 0]
  /\ postGone = FALSE
  /\ task = [t \in Tasks |-> IdleTask]
  /\ script \in {Asleep, NeverRun}

-----------------------------------------------------------------------------
(* Who holds the row of the post, and the row of u's like. *)
PostLocked == \E t \in Tasks : task[t].does = "like"
Deleting(u) == \E t \in Tasks : task[t] = [does |-> "unlike", by |-> u]
Turn(t, x) == task' = [task EXCEPT ![t] = x]

LikePost(t, u) ==
  /\ task[t] = IdleTask /\ ~postGone /\ ~PostLocked
  /\ Turn(t, [does |-> "like", by |-> u])
  /\ UNCHANGED <<likes, comments, shares, counters, postGone, script>>

(* The unique key waits for a deletion of the same row to end. *)
InsertLike(t) ==
  /\ task[t].does = "like"
  /\ LET u == task[t].by IN
       /\ ~Deleting(u)
       /\ \/ u \in likes /\ UNCHANGED <<likes, counters>>
          \/ /\ u \notin likes
             /\ likes' = likes \cup {u}
             /\ counters' = [counters EXCEPT !.likes = @ + 1]
  /\ Turn(t, IdleTask)
  /\ UNCHANGED <<comments, shares, postGone, script>>

UnlikePost(t, u) ==
  /\ task[t] = IdleTask /\ u \in likes /\ ~Deleting(u)
  /\ Turn(t, [does |-> "unlike", by |-> u])
  /\ UNCHANGED <<likes, comments, shares, counters, postGone, script>>

DecrementLikes(t) ==
  /\ task[t].does = "unlike" /\ ~PostLocked
  /\ likes' = likes \ {task[t].by}
  /\ counters' = [counters EXCEPT !.likes = IF @ > 0 THEN @ - 1 ELSE @]
  /\ Turn(t, IdleTask)
  /\ UNCHANGED <<comments, shares, postGone, script>>

(* The like waits for the row of the unlike, which waits for the post: MySQL
   rolls one of them back. *)
LikeDeadlock(t) ==
  /\ PostLocked
  /\ task[t].does = "like" => Deleting(task[t].by)
  /\ task[t].does = "unlike" => \E s \in Tasks : task[s] = [does |-> "like", by |-> task[t].by]
  /\ task[t] # IdleTask
  /\ Turn(t, IdleTask)
  /\ UNCHANGED <<likes, comments, shares, counters, postGone, script>>

AddComment ==
  /\ ~postGone /\ ~PostLocked /\ comments < MaxRows
  /\ comments' = comments + 1
  /\ counters' = [counters EXCEPT !.comments = @ + 1]
  /\ UNCHANGED <<likes, shares, postGone, task, script>>

(* Deleting a share leaves the row and the counter. *)
CreateShare ==
  /\ ~postGone /\ ~PostLocked /\ shares < MaxRows
  /\ shares' = shares + 1
  /\ counters' = [counters EXCEPT !.shares = @ + 1]
  /\ UNCHANGED <<likes, comments, postGone, task, script>>

DeletePost ==
  /\ ~postGone /\ ~PostLocked
  /\ postGone' = TRUE
  /\ UNCHANGED <<likes, comments, shares, counters, task, script>>

-----------------------------------------------------------------------------
ReadStored ==
  /\ script = Asleep /\ ~postGone
  /\ script' = [next |-> "likes", stored |-> counters, counted |-> counters]
  /\ UNCHANGED <<likes, comments, shares, counters, postGone, task>>

CountRows ==
  /\ \/ script.next = "likes" /\ script' =
          [script EXCEPT !.next = "comments", !.counted.likes = Cardinality(likes)]
     \/ script.next = "comments" /\ script' =
          [script EXCEPT !.next = "shares", !.counted.comments = comments]
     \/ script.next = "shares" /\ script' =
          [script EXCEPT !.next = "repair", !.counted.shares = shares]
  /\ UNCHANGED <<likes, comments, shares, counters, postGone, task>>

(* All three are written when one differs. *)
Repair ==
  /\ script.next = "repair"
  /\ \/ script.counted = script.stored /\ UNCHANGED counters
     \/ script.counted # script.stored /\ ~PostLocked /\ counters' = script.counted
  /\ script' = Asleep
  /\ UNCHANGED <<likes, comments, shares, postGone, task>>

-----------------------------------------------------------------------------
PostNext ==
  \/ \E t \in Tasks :
       \/ \E u \in Fans : LikePost(t, u) \/ UnlikePost(t, u)
       \/ InsertLike(t) \/ DecrementLikes(t) \/ LikeDeadlock(t)
  \/ AddComment \/ CreateShare \/ DeletePost
  \/ ReadStored \/ CountRows \/ Repair

PostSpec == PostInit /\ [][PostNext]_postVars

-----------------------------------------------------------------------------
CountersRight == counters = [likes |-> Cardinality(likes), comments |-> comments, shares |-> shares]

(* Where the script does not run, the committed counters are those of the
   committed rows, whatever the requests interleave and MySQL rolls back. *)
PostCountersExact == script = NeverRun => CountersRight

(* "Detects and repairs counter drift between stored counters and actual
   rows": a repair never makes right counters wrong. *)
RepairsOnlyDrift == [][Repair => (CountersRight => CountersRight')]_postVars
=============================================================================
