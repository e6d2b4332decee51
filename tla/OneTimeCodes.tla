----------------------------- MODULE OneTimeCodes -----------------------------
(***************************************************************************)
(* The codes sent to one address, to sign up and to reset the password     *)
(* (auth.service.js).  A sign-up is a row of pending_signups with one row  *)
(* of email_otps; a reset has the latter only.  Both are one row here.     *)
(*                                                                         *)
(* signup and forgotPassword are statements outside any transaction: the   *)
(* codes before are rejected, then the new one is created, and destroyed   *)
(* when the mail fails.  Verifying a code is a transaction that locks the  *)
(* row, reads it and writes it later.                                      *)
(***************************************************************************)
EXTENDS Naturals, FiniteSets

CONSTANTS
  LastCode,     \* bound: codes ever sent
  MaxAttempts,  \* MAX_OTP_ATTEMPTS
  Requests,     \* bound: requests at once
  NoRequest     \* no request holds the row

ASSUME CodeAssumption ==
  LastCode \in Nat /\ MaxAttempts \in Nat /\ NoRequest \notin Requests

VARIABLES
  code,      \* code[c]: the row; ids grow
  wrong,     \* wrong[c]: attempts
  codeLock,  \* codeLock[c]: the request that holds it
  request,   \* request[r]: the next step of a request
  registered,\* the address has an account
  compared   \* history: how often a guess was compared with code c

codeVars == <<code, wrong, codeLock, request, registered, compared>>

Codes == 1..LastCode
Purposes == {"signup", "reset"}
(* "session": guessed, and its session can be used; "closed": neither. *)
CodeRows == [purpose : Purposes, state : {"active", "session", "closed"}]
NoCode == [state |-> "unborn"]
Waiting == [step |-> "idle"]

CodeTypeOK ==
  /\ code \in [Codes -> CodeRows \cup {NoCode}]
  /\ wrong \in [Codes -> 0..MaxAttempts]
  /\ codeLock \in [Codes -> Requests \cup {NoRequest}]
  /\ request \in [Requests ->
       {Waiting} \cup [step : {"create"}, purpose : Purposes] \cup [step : {"judge"}, of : Codes]]
  /\ registered \in BOOLEAN
  /\ compared \in [Codes -> Nat]

CodeInit ==
  /\ code = [c \in Codes |-> NoCode] /\ wrong = [c \in Codes |-> 0]
  /\ codeLock = [c \in Codes |-> NoRequest]
  /\ request = [r \in Requests |-> Waiting]
  /\ registered \in BOOLEAN
  /\ compared = [c \in Codes |-> 0]

-----------------------------------------------------------------------------
Sent(p) == {c \in Codes : code[c] # NoCode /\ code[c].purpose = p}
Usable(c) == code[c].state = "active"
Unlocked(cs) == \A c \in cs : codeLock[c] = NoRequest
Step(r, x) == request' = [request EXCEPT ![r] = x]
SetState(cs, s) == code' = [c \in Codes |-> IF c \in cs THEN [code[c] EXCEPT !.state = s] ELSE code[c]]

(* signup asks that the address is new; the sign-ups before and their sessions
   are consumed. *)
Signup(r) ==
  LET old == {c \in Sent("signup") : code[c].state # "closed"} IN
  /\ request[r] = Waiting /\ ~registered /\ Unlocked(old)
  /\ SetState(old, "closed")
  /\ Step(r, [step |-> "create", purpose |-> "signup"])
  /\ UNCHANGED <<wrong, codeLock, registered, compared>>

(* forgotPassword: the codes before, but not the sessions got from them. *)
ForgotPassword(r) ==
  LET old == {c \in Sent("reset") : Usable(c)} IN
  /\ request[r] = Waiting /\ registered /\ Unlocked(old)
  /\ SetState(old, "closed")
  /\ Step(r, [step |-> "create", purpose |-> "reset"])
  /\ UNCHANGED <<wrong, codeLock, registered, compared>>

(* sendNewOtp. *)
SendNewOtp(r) ==
  /\ request[r].step = "create"
  /\ \E c \in Codes, s \in {"active", "closed"} :
       /\ code[c] = NoCode /\ \A d \in 1..(c - 1) : code[d] # NoCode
       /\ code' = [code EXCEPT ![c] = [purpose |-> request[r].purpose, state |-> s]]
  /\ Step(r, Waiting)
  /\ UNCHANGED <<wrong, codeLock, registered, compared>>

(* Or it expires. *)
Expire(c) ==
  /\ code[c].state \in {"active", "session"} /\ codeLock[c] = NoRequest
  /\ SetState({c}, "closed")
  /\ UNCHANGED <<wrong, codeLock, request, registered, compared>>

-----------------------------------------------------------------------------
(* The newest sign-up, whether its code is still usable or not; the newest
   usable code of a reset. *)
Newest(p, c) ==
  LET candidates == {d \in Sent(p) : IF p = "signup" THEN code[d].state # "closed" ELSE Usable(d)}
  IN c \in candidates /\ \A d \in candidates : d <= c

(* Variant: the row is read without FOR UPDATE. *)
ReadCodeUnlocked(r, p, c) ==
  /\ request[r] = Waiting /\ Newest(p, c) /\ codeLock[c] = NoRequest
  /\ Usable(c) /\ wrong[c] < MaxAttempts
  /\ Step(r, [step |-> "judge", of |-> c])
  /\ UNCHANGED <<code, wrong, codeLock, registered, compared>>

(* verifySignupOtp and verifyResetOtp. *)
ReadCode(r, p, c) ==
  /\ request[r] = Waiting /\ Newest(p, c) /\ codeLock[c] = NoRequest
  /\ Usable(c) /\ wrong[c] < MaxAttempts
  /\ codeLock' = [codeLock EXCEPT ![c] = r]
  /\ Step(r, [step |-> "judge", of |-> c])
  /\ UNCHANGED <<code, wrong, registered, compared>>

Judge(r) ==
  /\ request[r].step = "judge"
  /\ LET c == request[r].of IN
       /\ compared' = [compared EXCEPT ![c] = @ + 1]
       /\ \/ SetState({c}, "session") /\ UNCHANGED wrong
          \/ wrong' = [wrong EXCEPT ![c] = @ + 1] /\ UNCHANGED code
       /\ codeLock' = [codeLock EXCEPT ![c] = NoRequest]
  /\ Step(r, Waiting)
  /\ UNCHANGED registered

(* createPassword; the unique keys of the user decide between two of them. *)
CreatePassword(c) ==
  /\ code[c].state = "session" /\ code[c].purpose = "signup"
  /\ codeLock[c] = NoRequest /\ ~registered
  /\ SetState({c}, "closed") /\ registered' = TRUE
  /\ UNCHANGED <<wrong, codeLock, request, compared>>

-----------------------------------------------------------------------------
CodeNext ==
  \/ \E r \in Requests :
       \/ Signup(r) \/ ForgotPassword(r) \/ SendNewOtp(r) \/ Judge(r)
       \/ \E p \in Purposes, c \in Codes : ReadCode(r, p, c)
  \/ \E c \in Codes : Expire(c) \/ CreatePassword(c)

CodeSpec == CodeInit /\ [][CodeNext]_codeVars

-----------------------------------------------------------------------------
(* However many guesses are made at once, a code is compared MaxAttempts times
   at most. *)
GuessesBounded == \A c \in Codes : compared[c] <= MaxAttempts

(* What two requests at once do not keep: one usable code per purpose. *)
OneUsableCode ==
  \A p \in Purposes : \A c, d \in Sent(p) : Usable(c) /\ Usable(d) => c = d
=============================================================================
