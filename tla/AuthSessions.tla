----------------------------- MODULE AuthSessions -----------------------------
(***************************************************************************)
(* The refresh tokens of one user: signin, refresh, logout, resetPassword  *)
(* and deleteAccount (auth.service.js).                                    *)
(*                                                                         *)
(* refresh and resetPassword are transactions that take row locks in       *)
(* opposite orders, so each lock they may wait for is a step of its own.   *)
(* signin, logout and the revocations of deleteAccount are statements      *)
(* outside any transaction.  MySQL breaks a deadlock by rolling one of its *)
(* transactions back.  Codes and access tokens are left out: a grant is a  *)
(* reset session that verifyResetOtp has issued; so is the expiry of       *)
(* tokens, after which a token is as good as unknown.  changePassword of   *)
(* profile.service.js revokes nothing and is left out.                     *)
(***************************************************************************)
EXTENDS Naturals, FiniteSets

CONSTANTS
  Tokens,  \* bound: rows of refresh_tokens
  Logins,  \* bound: requests, each made once
  Grants,  \* bound: reset sessions
  Nobody   \* no request holds the lock

ASSUME SessionAssumption ==
  IsFiniteSet(Tokens) /\ IsFiniteSet(Grants) /\ Nobody \notin Logins

VARIABLES
  password,   \* how often the password was reset
  gone,       \* the account is deleted
  token,      \* token[t]: "unborn", "live" or "revoked"
  family,     \* family[t]: the token its family began with
  version,    \* version[t]: the password its family signed in with
  late,       \* families whose sign-in was overtaken by a reset
  spent,      \* grants with session_consumed_at
  userLock, tokenLock, grantLock,  \* who holds a row
  job         \* job[r]: what request r does next, and on what

tokenRows == <<token, family, version>>
rowLocks == <<userLock, tokenLock, grantLock>>
sessionVars == <<password, gone, tokenRows, late, spent, rowLocks, job>>

NewJob == [step |-> "new"]
EndedJob == [step |-> "ended"]
Jobs ==
  {NewJob, EndedJob, [step |-> "clean"]}
    \cup [step : {"issue"}, seen : 0..Cardinality(Grants)]
    \cup [step : {"refresh", "rotate", "reuse", "logout"}, of : Tokens]
    \cup [step : {"reset", "lock user", "revoke all"}, of : Grants]

SessionTypeOK ==
  /\ password \in 0..Cardinality(Grants) /\ gone \in BOOLEAN
  /\ token \in [Tokens -> {"unborn", "live", "revoked"}]
  /\ family \in [Tokens -> Tokens]
  /\ version \in [Tokens -> 0..Cardinality(Grants)]
  /\ late \subseteq Tokens /\ spent \subseteq Grants
  /\ userLock \in Logins \cup {Nobody}
  /\ tokenLock \in [Tokens -> Logins \cup {Nobody}]
  /\ grantLock \in [Grants -> Logins \cup {Nobody}]
  /\ job \in [Logins -> Jobs]

SessionInit ==
  /\ password = 0 /\ gone = FALSE
  /\ token = [t \in Tokens |-> "unborn"]
  /\ family = [t \in Tokens |-> t]
  /\ version = [t \in Tokens |-> 0]
  /\ late = {} /\ spent = {}
  /\ userLock = Nobody
  /\ tokenLock = [t \in Tokens |-> Nobody]
  /\ grantLock = [g \in Grants |-> Nobody]
  /\ job = [r \in Logins |-> NewJob]

-----------------------------------------------------------------------------
Unborn == {t \in Tokens : token[t] = "unborn"}
Born == Tokens \ Unborn
Family(f) == {t \in Born : family[t] = f}
LiveTokens == {t \in Tokens : token[t] = "live"}

At(r, s) == job[r].step = s
Go(r, j) == job' = [job EXCEPT ![r] = j]
Opens(r, j) == At(r, "new") /\ Go(r, j) /\ UNCHANGED <<password, gone, tokenRows, late, spent, rowLocks>>

(* A commit or a rollback releases every row. *)
End(r) ==
  /\ Go(r, EndedJob)
  /\ userLock' = IF userLock = r THEN Nobody ELSE userLock
  /\ tokenLock' = [t \in Tokens |-> IF tokenLock[t] = r THEN Nobody ELSE tokenLock[t]]
  /\ grantLock' = [g \in Grants |-> IF grantLock[g] = r THEN Nobody ELSE grantLock[g]]

Revoked(ts) == [t \in Tokens |-> IF t \in ts /\ token[t] = "live" THEN "revoked" ELSE token[t]]
Free(ts, r) == \A t \in ts : tokenLock[t] \in {Nobody, r}

-----------------------------------------------------------------------------
(* signin: the password is compared, then the row of the user is updated and
   the token created. *)
SignIn(r) == ~gone /\ Opens(r, [step |-> "issue", seen |-> password])

Issue(r) ==
  /\ At(r, "issue") /\ userLock = Nobody
  /\ \E t \in Unborn :
       /\ token' = [token EXCEPT ![t] = "live"]
       /\ family' = [family EXCEPT ![t] = t]
       /\ version' = [version EXCEPT ![t] = job[r].seen]
       /\ late' = IF job[r].seen = password THEN late ELSE late \cup {t}
  /\ End(r)
  /\ UNCHANGED <<password, gone, spent>>

(* logout reads the row, then updates it. *)
Logout(r, t) == t \in LiveTokens /\ Opens(r, [step |-> "logout", of |-> t])

LogoutUpdate(r) ==
  /\ At(r, "logout") /\ Free({job[r].of}, r)
  /\ token' = Revoked({job[r].of})
  /\ End(r)
  /\ UNCHANGED <<password, gone, family, version, late, spent>>

(* deleteAccount: the account, and the tokens in a later statement. *)
DeleteAccount(r) ==
  /\ At(r, "new") /\ ~gone /\ userLock = Nobody
  /\ gone' = TRUE
  /\ Go(r, [step |-> "clean"])
  /\ UNCHANGED <<password, tokenRows, late, spent, rowLocks>>

DeleteTokens(r) ==
  /\ At(r, "clean") /\ Free(Tokens, r)
  /\ token' = Revoked(Tokens)
  /\ End(r)
  /\ UNCHANGED <<password, gone, family, version, late, spent>>

-----------------------------------------------------------------------------
(* refresh locks the token, then the user. *)
Refresh(r, t) == t \in Born /\ Opens(r, [step |-> "refresh", of |-> t])

(* Variant: the token is read without a lock. *)
ReadToken(r) ==
  /\ At(r, "refresh") /\ Free({job[r].of}, r)
  /\ Go(r, [step |-> IF token[job[r].of] = "live" THEN "rotate" ELSE "reuse", of |-> job[r].of])
  /\ UNCHANGED <<password, gone, tokenRows, late, spent, rowLocks>>

LockToken(r) ==
  /\ At(r, "refresh") /\ Free({job[r].of}, r)
  /\ tokenLock' = [tokenLock EXCEPT ![job[r].of] = r]
  /\ Go(r, [step |-> IF token[job[r].of] = "live" THEN "rotate" ELSE "reuse", of |-> job[r].of])
  /\ UNCHANGED <<password, gone, tokenRows, late, spent, userLock, grantLock>>

(* Once the user is locked nothing is waited for: the successor is created, the
   token revoked, the transaction committed.  Without the user it ends. *)
Rotate(r) ==
  /\ At(r, "rotate") /\ userLock = Nobody
  /\ \/ gone /\ UNCHANGED tokenRows
     \/ ~gone /\ \E t \in Unborn :
          /\ token' = [token EXCEPT ![t] = "live", ![job[r].of] = "revoked"]
          /\ family' = [family EXCEPT ![t] = family[job[r].of]]
          /\ version' = [version EXCEPT ![t] = version[job[r].of]]
  /\ End(r)
  /\ UNCHANGED <<password, gone, late, spent>>

(* "Refresh token reuse detected." *)
RevokeFamily(r) ==
  /\ At(r, "reuse")
  /\ LET kin == Family(family[job[r].of]) IN Free(kin, r) /\ token' = Revoked(kin)
  /\ End(r)
  /\ UNCHANGED <<password, gone, family, version, late, spent>>

-----------------------------------------------------------------------------
(* resetPassword locks the grant, then the user, then every token. *)
Reset(r, g) == Opens(r, [step |-> "reset", of |-> g])

(* Variant: a grant is good for more than one reset. *)
LockAnyGrant(r) ==
  LET g == job[r].of IN
  /\ At(r, "reset") /\ grantLock[g] = Nobody
  /\ grantLock' = [grantLock EXCEPT ![g] = r]
  /\ Go(r, [step |-> "lock user", of |-> g])
  /\ UNCHANGED <<password, gone, tokenRows, late, spent, userLock, tokenLock>>

LockGrant(r) ==
  LET g == job[r].of IN
  /\ At(r, "reset") /\ grantLock[g] = Nobody
  /\ IF g \in spent THEN End(r)
     ELSE /\ grantLock' = [grantLock EXCEPT ![g] = r]
          /\ Go(r, [step |-> "lock user", of |-> g])
          /\ UNCHANGED <<userLock, tokenLock>>
  /\ UNCHANGED <<password, gone, tokenRows, late, spent>>

LockUser(r) ==
  /\ At(r, "lock user") /\ userLock = Nobody
  /\ IF gone THEN End(r)
     ELSE /\ userLock' = r
          /\ Go(r, [step |-> "revoke all", of |-> job[r].of])
          /\ UNCHANGED <<tokenLock, grantLock>>
  /\ UNCHANGED <<password, gone, tokenRows, late, spent>>

RevokeAll(r) ==
  /\ At(r, "revoke all") /\ Free(Tokens, r)
  /\ token' = Revoked(Tokens)
  /\ password' = password + 1 /\ spent' = spent \cup {job[r].of}
  /\ End(r)
  /\ UNCHANGED <<gone, family, version, late>>

-----------------------------------------------------------------------------
(* Whom a request waits for. *)
Holders(ts) == {tokenLock[t] : t \in ts} \ {Nobody}
Waits(r) ==
  CASE At(r, "rotate") -> {userLock} \ {Nobody}
    [] At(r, "lock user") -> {userLock} \ {Nobody}
    [] At(r, "reuse") -> Holders(Family(family[job[r].of])) \ {r}
    [] At(r, "revoke all") -> Holders(Tokens) \ {r}
    [] OTHER -> {}

(* Variant: nobody looks for deadlocks. *)
NoDetection(r) == FALSE /\ UNCHANGED sessionVars

(* MySQL rolls back a transaction of a circle of waiting ones. *)
Deadlock(r) ==
  /\ \E circle \in SUBSET Logins :
       r \in circle /\ \A x \in circle : Waits(x) \cap circle # {}
  /\ End(r)
  /\ UNCHANGED <<password, gone, tokenRows, late, spent>>

Continue(r) ==
  \/ Issue(r) \/ LogoutUpdate(r) \/ DeleteTokens(r)
  \/ LockToken(r) \/ Rotate(r) \/ RevokeFamily(r)
  \/ LockGrant(r) \/ LockUser(r) \/ RevokeAll(r) \/ Deadlock(r)

SessionNext ==
  \E r \in Logins :
    \/ SignIn(r) \/ DeleteAccount(r) \/ Continue(r)
    \/ \E t \in Tokens : Refresh(r, t) \/ Logout(r, t)
    \/ \E g \in Grants : Reset(r, g)

SessionSpec == SessionInit /\ [][SessionNext]_sessionVars
FairSessionSpec == SessionSpec /\ \A r \in Logins : WF_sessionVars(Continue(r))

-----------------------------------------------------------------------------
(* A token is exchanged once: a family never has two live tokens, however many
   refreshes of however many of its tokens run at once. *)
OneLivePerFamily == \A t, u \in LiveTokens : family[t] = family[u] => t = u

(* After a reset of the password no session of the old one is left, unless its
   sign-in had compared the old password and created its token afterwards. *)
ResetEndsSessions == \A t \in LiveTokens : version[t] = password \/ family[t] \in late

(* A reset session changes the password once. *)
GrantsUsedOnce == password = Cardinality(spent)

(* The sessions of the user, whatever runs at once: one live token in a family,
   none of an old password after a reset, one reset for each grant. *)
SessionsSound == OneLivePerFamily /\ ResetEndsSessions /\ GrantsUsedOnce

(* A family whose tokens are all revoked, by logout, reset or reuse, stays dead,
   whatever refresh was under way. *)
DeadStayDead ==
  [][\A f \in Tokens : Family(f) # {} /\ Family(f) \cap LiveTokens = {}
       => Family(f)' \cap LiveTokens' = {}]_sessionVars

(* Again and again no request is half way: every one ends, though refresh and
   reset wait for each other's rows. *)
RequestsEnd ==
  []<>(Unborn = {} \/ \A r \in Logins : At(r, "new") \/ At(r, "ended"))

(* What the code does not keep: a logout ends the session. *)
LogoutEnds ==
  [][\A r \in Logins, f \in Tokens :
       At(r, "logout") /\ f = family[job[r].of] /\ LogoutUpdate(r)
         => Family(f)' \cap LiveTokens' = {}]_sessionVars
=============================================================================
