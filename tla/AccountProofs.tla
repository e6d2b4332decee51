----------------------------- MODULE AccountProofs -----------------------------
(***************************************************************************)
(* Proofs about the account of a user: one-time codes, addresses and       *)
(* sessions, for any number of them and of requests at once.               *)
(***************************************************************************)
EXTENDS OneTimeCodes, Addresses, AuthSessions, FiniteSetTheorems, TLAPS

CodeRequests ==
  {Waiting} \cup [step : {"create"}, purpose : Purposes] \cup [step : {"judge"}, of : Codes]
CodeStatesTyped == {"active", "session", "closed"}

(* A request that is judging a guess knows its code. *)
LEMMA JudgesKnow ==
  ASSUME CodeTypeOK, NEW r \in Requests
  PROVE  /\ request[r] \in CodeRequests
         /\ request[r].step = "judge" => request[r].of \in Codes
         /\ request[r].step = "create" => request[r].purpose \in Purposes
<1>1. request[r] \in CodeRequests
  BY DEF CodeTypeOK, CodeRequests
<1> QED
  BY <1>1 DEF CodeRequests, Waiting

LEMMA RequestRows ==
  ASSUME NEW x \in CodeRows \cup {NoCode}
  PROVE  /\ x = NoCode => x.state = "unborn"
         /\ x # NoCode => x \in CodeRows /\ x.state \in CodeStatesTyped /\ x.purpose \in Purposes
BY DEF CodeRows, NoCode, CodeStatesTyped

(* What SetState does to rows there are. *)
LEMMA StateSet ==
  ASSUME CodeTypeOK, NEW cs, \A c \in Codes \cap cs : code[c] # NoCode,
         NEW s \in CodeStatesTyped, SetState(cs, s)
  PROVE  /\ code' \in [Codes -> CodeRows \cup {NoCode}]
         /\ \A c \in Codes : \/ c \notin cs /\ code'[c] = code[c]
                             \/ c \in cs /\ code'[c].state = s /\ code'[c] \in CodeRows
<1>1. ASSUME NEW c \in Codes, c \in cs
      PROVE  /\ [code[c] EXCEPT !.state = s] \in CodeRows
             /\ [code[c] EXCEPT !.state = s].state = s
  <2>1. code[c] \in CodeRows
    BY <1>1, RequestRows DEF CodeTypeOK
  <2> QED
    BY <2>1 DEF CodeRows, CodeStatesTyped
<1> QED
  BY <1>1 DEF SetState, CodeTypeOK

-----------------------------------------------------------------------------
(* The bound on the guesses: a code that can still be guessed has been compared
   as often as its attempts say, and who is about to compare it holds its row. *)
JudgeInv ==
  \A r \in Requests : request[r].step = "judge" =>
    /\ codeLock[request[r].of] = r
    /\ code[request[r].of].state = "active" /\ wrong[request[r].of] < MaxAttempts

CountInv ==
  \A c \in Codes : /\ compared[c] \in 0..MaxAttempts
                   /\ code[c].state \in {"unborn", "active"} => compared[c] = wrong[c]

CodeInv == CodeTypeOK /\ JudgeInv /\ CountInv

LEMMA CodeInvInit == CodeInit => CodeInv
<1> SUFFICES ASSUME CodeInit PROVE CodeInv
  OBVIOUS
<1> USE CodeAssumption
<1>1. CodeTypeOK
  <2>1. registered \in BOOLEAN
    BY DEF CodeInit
  <2> QED
    BY <2>1 DEF CodeInit, CodeTypeOK
<1>2. JudgeInv
  BY DEF CodeInit, JudgeInv, Waiting
<1>3. CountInv
  BY DEF CodeInit, CountInv
<1> QED
  BY <1>1, <1>2, <1>3 DEF CodeInv

(* A step that closes or spends rows nobody holds, and at most starts a request
   that judges nothing. *)
LEMMA Closes ==
  ASSUME CodeInv, NEW cs \in SUBSET Codes, NEW s \in {"session", "closed"},
         \A c \in cs : code[c] # NoCode /\ codeLock[c] = NoRequest, SetState(cs, s),
         UNCHANGED <<wrong, codeLock, compared>>, registered' \in BOOLEAN,
         \/ UNCHANGED request
         \/ \E r \in Requests, x \in CodeRequests : x.step # "judge" /\ Step(r, x)
  PROVE  CodeInv'
<1> USE CodeAssumption DEF CodeInv
<1>1. /\ code' \in [Codes -> CodeRows \cup {NoCode}]
      /\ \A c \in Codes : \/ c \notin cs /\ code'[c] = code[c]
                          \/ c \in cs /\ code'[c].state = s /\ code'[c] \in CodeRows
  BY StateSet DEF CodeStatesTyped
<1>2. request' \in [Requests -> CodeRequests]
  BY DEF CodeTypeOK, Step, CodeRequests
<1>3. ASSUME NEW r \in Requests, request'[r].step = "judge"
      PROVE  request'[r] = request[r]
  BY <1>3 DEF CodeTypeOK, Step
<1>4. CodeTypeOK'
  BY <1>1, <1>2 DEF CodeTypeOK, CodeRequests
<1>5. JudgeInv'
  <2> SUFFICES ASSUME NEW r \in Requests, request'[r].step = "judge"
               PROVE  /\ codeLock'[request'[r].of] = r
                      /\ code'[request'[r].of].state = "active" /\ wrong'[request'[r].of] < MaxAttempts
    BY DEF JudgeInv
  <2>1. request'[r] = request[r] /\ request[r].of \in Codes
    BY <1>3, JudgesKnow
  <2>2. codeLock[request[r].of] = r /\ code[request[r].of].state = "active" /\ wrong[request[r].of] < MaxAttempts
    BY <2>1 DEF JudgeInv
  <2>3. code'[request[r].of] = code[request[r].of]
    BY <1>1, <2>1, <2>2
  <2> QED
    BY <2>1, <2>2, <2>3 DEF Usable
<1>6. CountInv'
  BY <1>1 DEF CountInv
<1> QED
  BY <1>4, <1>5, <1>6

LEMMA Sends ==
  ASSUME CodeInv, NEW r \in Requests, SendNewOtp(r)
  PROVE  CodeInv'
<1> USE CodeAssumption DEF CodeInv
<1>1. PICK c \in Codes, s \in {"active", "closed"} :
        /\ code[c] = NoCode
        /\ code' = [code EXCEPT ![c] = [purpose |-> request[r].purpose, state |-> s]]
  BY DEF SendNewOtp
<1>2. /\ request[r].step = "create" /\ request' = [request EXCEPT ![r] = Waiting]
      /\ UNCHANGED <<wrong, codeLock, registered, compared>>
  BY DEF SendNewOtp, Step
<1>3. [purpose |-> request[r].purpose, state |-> s] \in CodeRows
  BY <1>2, JudgesKnow DEF CodeRows
<1>4. CodeTypeOK'
  BY <1>1, <1>2, <1>3 DEF CodeTypeOK
<1>5. JudgeInv'
  <2> SUFFICES ASSUME NEW q \in Requests, request'[q].step = "judge"
               PROVE  /\ codeLock'[request'[q].of] = q
                      /\ code'[request'[q].of].state = "active" /\ wrong'[request'[q].of] < MaxAttempts
    BY DEF JudgeInv
  <2>1. q # r /\ request'[q] = request[q]
    BY <1>2 DEF CodeTypeOK, Waiting
  <2>2. request[q].of \in Codes
    BY <2>1, JudgesKnow
  <2>3. codeLock[request[q].of] = q /\ code[request[q].of].state = "active" /\ wrong[request[q].of] < MaxAttempts
    BY <2>1 DEF JudgeInv
  <2>4. request[q].of # c
    BY <1>1, <2>3 DEF Usable, NoCode
  <2> QED
    BY <1>1, <1>2, <2>1, <2>2, <2>3, <2>4 DEF Usable, CodeTypeOK
<1>6. CountInv'
  <2>1. code[c].state = "unborn"
    BY <1>1 DEF NoCode
  <2> QED
    BY <1>1, <1>2, <2>1 DEF CountInv, CodeTypeOK
<1> QED
  BY <1>4, <1>5, <1>6

LEMMA ReadsCode ==
  ASSUME CodeInv, NEW r \in Requests, NEW p \in Purposes, NEW c \in Codes, ReadCode(r, p, c)
  PROVE  CodeInv'
<1> USE CodeAssumption DEF CodeInv
<1>1. /\ codeLock[c] = NoRequest /\ Usable(c) /\ wrong[c] < MaxAttempts
      /\ codeLock' = [codeLock EXCEPT ![c] = r]
      /\ request' = [request EXCEPT ![r] = [step |-> "judge", of |-> c]]
      /\ UNCHANGED <<code, wrong, registered, compared>>
  BY DEF ReadCode, Step
<1>2. CodeTypeOK'
  BY <1>1 DEF CodeTypeOK
<1>3. JudgeInv'
  <2> SUFFICES ASSUME NEW q \in Requests, request'[q].step = "judge"
               PROVE  /\ codeLock'[request'[q].of] = q
                      /\ code'[request'[q].of].state = "active" /\ wrong'[request'[q].of] < MaxAttempts
    BY DEF JudgeInv
  <2>1. CASE q = r
    BY <1>1, <2>1 DEF CodeTypeOK, Usable
  <2>2. CASE q # r
    <3>1. request'[q] = request[q]
      BY <1>1, <2>2 DEF CodeTypeOK
    <3>2. request[q].of \in Codes
      BY <3>1, JudgesKnow
    <3>3. codeLock[request[q].of] = q /\ code[request[q].of].state = "active" /\ wrong[request[q].of] < MaxAttempts
      BY <3>1 DEF JudgeInv
    <3> QED
      BY <1>1, <3>1, <3>2, <3>3 DEF CodeTypeOK, Usable
  <2> QED
    BY <2>1, <2>2
<1>4. CountInv'
  BY <1>1 DEF CountInv
<1> QED
  BY <1>2, <1>3, <1>4

LEMMA Judges ==
  ASSUME CodeInv, NEW r \in Requests, Judge(r)
  PROVE  CodeInv'
<1> USE CodeAssumption DEF CodeInv
<1> DEFINE c == request[r].of
<1>1. /\ c \in Codes /\ request[r].step = "judge"
      /\ codeLock[c] = r /\ Usable(c) /\ wrong[c] < MaxAttempts
  BY JudgesKnow DEF Judge, JudgeInv, Usable
<1>2. /\ compared' = [compared EXCEPT ![c] = @ + 1]
      /\ codeLock' = [codeLock EXCEPT ![c] = NoRequest]
      /\ request' = [request EXCEPT ![r] = Waiting]
      /\ UNCHANGED registered
      /\ \/ SetState({c}, "session") /\ UNCHANGED wrong
         \/ wrong' = [wrong EXCEPT ![c] = @ + 1] /\ UNCHANGED code
  BY DEF Judge, Step
<1>3. code[c] # NoCode /\ compared[c] = wrong[c]
  BY <1>1 DEF Usable, CountInv, NoCode
<1> HIDE DEF c
<1>4. /\ code' \in [Codes -> CodeRows \cup {NoCode}]
      /\ wrong' \in [Codes -> 0..MaxAttempts]
      /\ \A d \in Codes \ {c} : code'[d] = code[d] /\ wrong'[d] = wrong[d]
      /\ \/ code'[c].state = "session"
         \/ code'[c] = code[c] /\ wrong'[c] = wrong[c] + 1
  <2>1. CASE SetState({c}, "session") /\ UNCHANGED wrong
    BY <1>1, <1>3, <2>1, StateSet DEF CodeStatesTyped, CodeTypeOK
  <2>2. CASE wrong' = [wrong EXCEPT ![c] = @ + 1] /\ UNCHANGED code
    BY <1>1, <2>2 DEF CodeTypeOK
  <2> QED
    BY <1>2, <2>1, <2>2
<1>5. compared'[c] = wrong[c] + 1 /\ \A d \in Codes \ {c} : compared'[d] = compared[d]
  BY <1>1, <1>2, <1>3 DEF CodeTypeOK
<1>6. CodeTypeOK'
  <2>1. /\ codeLock' \in [Codes -> Requests \cup {NoRequest}]
        /\ request' \in [Requests -> CodeRequests] /\ compared' \in [Codes -> Nat]
    BY <1>1, <1>2 DEF CodeTypeOK, CodeRequests
  <2> QED
    BY <1>2, <1>4, <2>1 DEF CodeTypeOK, CodeRequests
<1>7. JudgeInv'
  <2> SUFFICES ASSUME NEW q \in Requests, request'[q].step = "judge"
               PROVE  /\ codeLock'[request'[q].of] = q
                      /\ code'[request'[q].of].state = "active" /\ wrong'[request'[q].of] < MaxAttempts
    BY DEF JudgeInv
  <2>1. q # r /\ request'[q] = request[q]
    BY <1>2 DEF CodeTypeOK, Waiting
  <2>2. request[q].of \in Codes
    BY <2>1, JudgesKnow
  <2>3. codeLock[request[q].of] = q /\ code[request[q].of].state = "active" /\ wrong[request[q].of] < MaxAttempts
    BY <2>1 DEF JudgeInv
  <2>4. request[q].of # c
    BY <1>1, <2>1, <2>3
  <2> QED
    BY <1>2, <1>4, <2>1, <2>2, <2>3, <2>4 DEF Usable, CodeTypeOK
<1>8. CountInv'
  <2> SUFFICES ASSUME NEW d \in Codes
               PROVE  /\ compared'[d] \in 0..MaxAttempts
                      /\ code'[d].state \in {"unborn", "active"} => compared'[d] = wrong'[d]
    BY DEF CountInv
  <2>1. CASE d = c
    BY <1>1, <1>4, <1>5, <2>1 DEF CodeTypeOK
  <2>2. CASE d # c
    BY <1>4, <1>5, <2>2 DEF CountInv
  <2> QED
    BY <2>1, <2>2
<1> QED
  BY <1>6, <1>7, <1>8

LEMMA CodeInvStep ==
  ASSUME CodeInv, [CodeNext]_codeVars
  PROVE  CodeInv'
<1>1. registered \in BOOLEAN /\ \A c \in Codes : code[c] \in CodeRows \cup {NoCode}
  BY DEF CodeInv, CodeTypeOK
<1>2. ASSUME NEW r \in Requests, Signup(r) PROVE CodeInv'
  <2> DEFINE old == {c \in Sent("signup") : code[c].state # "closed"}
  <2>1. /\ old \subseteq Codes /\ \A c \in old : code[c] # NoCode /\ codeLock[c] = NoRequest
        /\ SetState(old, "closed") /\ UNCHANGED <<wrong, codeLock, registered, compared>>
        /\ Step(r, [step |-> "create", purpose |-> "signup"])
    BY <1>2 DEF Signup, Sent, Unlocked
  <2>2. [step |-> "create", purpose |-> "signup"] \in CodeRequests
    BY DEF CodeRequests, Purposes
  <2> QED
    BY <1>1, <2>1, <2>2, Closes
<1>3. ASSUME NEW r \in Requests, ForgotPassword(r) PROVE CodeInv'
  <2> DEFINE old == {c \in Sent("reset") : Usable(c)}
  <2>1. /\ old \subseteq Codes /\ \A c \in old : code[c] # NoCode /\ codeLock[c] = NoRequest
        /\ SetState(old, "closed") /\ UNCHANGED <<wrong, codeLock, registered, compared>>
        /\ Step(r, [step |-> "create", purpose |-> "reset"])
    BY <1>3 DEF ForgotPassword, Sent, Unlocked
  <2>2. [step |-> "create", purpose |-> "reset"] \in CodeRequests
    BY DEF CodeRequests, Purposes
  <2> QED
    BY <1>1, <2>1, <2>2, Closes
<1>4. ASSUME NEW c \in Codes, Expire(c) \/ CreatePassword(c) PROVE CodeInv'
  <2>1. /\ code[c].state \in {"active", "session"} /\ codeLock[c] = NoRequest
        /\ SetState({c}, "closed") /\ UNCHANGED <<wrong, codeLock, request, compared>>
    BY <1>4 DEF Expire, CreatePassword
  <2>2. code[c] # NoCode
    BY <2>1 DEF NoCode
  <2>3. registered' \in BOOLEAN
    BY <1>1, <1>4, Zenon DEF Expire, CreatePassword
  <2> QED
    BY <2>1, <2>2, <2>3, Closes
<1>5. CASE UNCHANGED codeVars
  BY <1>5 DEF codeVars, CodeInv, CodeTypeOK, JudgeInv, CountInv, Usable
<1> QED
  BY <1>2, <1>3, <1>4, <1>5, Sends, ReadsCode, Judges DEF CodeNext

-----------------------------------------------------------------------------
(* Every reachable state is well typed, and its attempts bounded. *)
THEOREM CodeTypes == CodeSpec => []CodeTypeOK
<1>1. CodeInv => CodeTypeOK
  BY DEF CodeInv
<1> QED
  BY <1>1, CodeInvInit, CodeInvStep, PTL DEF CodeSpec

(* However many guesses are made at once, a code is compared MaxAttempts times at
   most. *)
THEOREM GuessesAreBounded == CodeSpec => []GuessesBounded
<1>1. CodeInv => GuessesBounded
  BY CodeAssumption DEF CodeInv, CountInv, GuessesBounded
<1> QED
  BY <1>1, CodeInvInit, CodeInvStep, PTL DEF CodeSpec

-----------------------------------------------------------------------------
AddressStates == {"unborn", "default", "plain", "deleted"}

(* Who has read an address holds the row of the user, so it is as it was read. *)
ReadInv ==
  \A e \in Editors : edit[e] # NoEdit =>
    /\ ownerLock = e
    /\ edit[e].does # "create" => address[edit[e].of] = edit[e].was

DefaultInv == AddressTypeOK /\ ReadInv /\ OneDefaultAtMost

LEMMA EditKinds ==
  ASSUME AddressTypeOK, NEW e \in Editors
  PROVE  /\ edit[e].does \in {"create", "select", "deselect", "delete"} => edit[e] # NoEdit
         /\ edit[e].does \in {"select", "deselect", "delete"} =>
              edit[e].of \in Ids /\ edit[e].was \in {"default", "plain"}
BY DEF AddressTypeOK, NoEdit

LEMMA ClearedHasNone ==
  ASSUME AddressTypeOK
  PROVE  Cleared \in [Ids -> AddressStates \ {"default"}]
BY DEF AddressTypeOK, Cleared, AddressStates

(* A request that takes the row of the user has read what is there. *)
LEMMA Locks ==
  ASSUME DefaultInv, NEW e \in Editors, NEW x, LockOwner(e, x),
         \/ x \in [does : {"create"}, default : BOOLEAN]
         \/ /\ x \in [does : {"select", "deselect", "delete"}, of : Ids, was : {"default", "plain"}]
            /\ address[x.of] = x.was
  PROVE  DefaultInv'
<1> USE DEF DefaultInv, LockOwner
<1>1. AddressTypeOK'
  BY DEF AddressTypeOK
<1>2. \A o \in Editors : edit[o] = NoEdit
  BY AddressAssumption DEF ReadInv
<1>3. \A o \in Editors : edit'[o] # NoEdit => o = e /\ edit'[o] = x
  BY <1>2 DEF AddressTypeOK
<1>4. ReadInv'
  BY <1>3 DEF ReadInv
<1> QED
  BY <1>1, <1>4 DEF OneDefaultAtMost, Defaults

(* A request that writes and commits holds the only edit there is. *)
LEMMA Saves ==
  ASSUME DefaultInv, NEW e \in Editors, edit[e] # NoEdit,
         NEW x \in [Ids -> AddressStates], Save(e, x),
         \A a, b \in Ids : x[a] = "default" /\ x[b] = "default" => a = b
  PROVE  DefaultInv'
<1> USE DEF DefaultInv, Save
<1>1. AddressTypeOK'
  BY DEF AddressTypeOK, AddressStates
<1>2. \A o \in Editors : edit'[o] = NoEdit
  BY DEF AddressTypeOK, ReadInv
<1> QED
  BY <1>1, <1>2 DEF ReadInv, OneDefaultAtMost, Defaults

(* One address more is the default after all were cleared. *)
LEMMA OneAfterClearing ==
  ASSUME AddressTypeOK, NEW y
  PROVE  LET x == [Cleared EXCEPT ![y] = "default"]
         IN  /\ x \in [Ids -> AddressStates]
             /\ \A a, b \in Ids : x[a] = "default" /\ x[b] = "default" => a = b
BY ClearedHasNone DEF AddressStates

LEMMA DefaultStep == DefaultInv /\ [AddressNext]_addressVars => DefaultInv'
<1> SUFFICES ASSUME DefaultInv, [AddressNext]_addressVars PROVE DefaultInv'
  OBVIOUS
<1>a. AddressTypeOK
  BY DEF DefaultInv
<1>b. address \in [Ids -> AddressStates]
  BY <1>a DEF AddressTypeOK, AddressStates
<1>1. ASSUME NEW e \in Editors, NEW b \in BOOLEAN, CreateAddress(e, b) PROVE DefaultInv'
  BY <1>1, Locks DEF CreateAddress
<1>2. ASSUME NEW e \in Editors, NEW a \in Ids, NEW w \in {"select", "deselect", "delete"},
             Reading(e, w, a)
      PROVE  DefaultInv'
  <2>1. a \in Ids /\ address[a] \in {"default", "plain"}
    BY <1>2 DEF Reading, Current
  <2> QED
    BY <1>2, <2>1, Locks DEF Reading
<1>3. ASSUME NEW e \in Editors, InsertAddress(e) PROVE DefaultInv'
  <2>0. edit[e] # NoEdit
    BY <1>3, <1>a, EditKinds DEF InsertAddress
  <2>1. PICK a \in Ids :
          /\ address[a] = "unborn"
          /\ Save(e, IF edit[e].default THEN [Cleared EXCEPT ![a] = "default"]
                     ELSE [address EXCEPT ![a] = "plain"])
    BY <1>3 DEF InsertAddress
  <2>2. CASE edit[e].default
    BY <2>0, <2>1, <2>2, <1>a, Saves, OneAfterClearing
  <2>3. CASE ~edit[e].default
    <3> DEFINE x == [address EXCEPT ![a] = "plain"]
    <3>1. x \in [Ids -> AddressStates] /\ \A b \in Ids : x[b] = "default" => address[b] = "default"
      BY <1>b DEF AddressStates
    <3>2. \A b, c \in Ids : x[b] = "default" /\ x[c] = "default" => b = c
      BY <3>1 DEF DefaultInv, OneDefaultAtMost, Defaults
    <3>3. Save(e, x)
      BY <2>1, <2>3
    <3> HIDE DEF x
    <3> QED
      BY <2>0, <3>1, <3>2, <3>3, Saves
  <2> QED
    BY <2>2, <2>3
<1>4. ASSUME NEW e \in Editors, WriteSelected(e) PROVE DefaultInv'
  <2>1. edit[e] # NoEdit
    BY <1>4, <1>a, EditKinds DEF WriteSelected
  <2>2. CASE edit[e].was = "default"
    <3>1. Cleared \in [Ids -> AddressStates] /\ \A a \in Ids : Cleared[a] # "default"
      BY <1>a, ClearedHasNone
    <3> QED
      BY <1>4, <2>1, <2>2, <3>1, Saves DEF WriteSelected
  <2>3. CASE edit[e].was # "default"
    BY <1>4, <1>a, <2>1, <2>3, Saves, OneAfterClearing DEF WriteSelected
  <2> QED
    BY <2>2, <2>3
<1>5. ASSUME NEW e \in Editors, WriteDeselected(e) PROVE DefaultInv'
  <2>1. edit[e] # NoEdit
    BY <1>5, <1>a, EditKinds DEF WriteDeselected
  <2>2. CASE Save(e, address)
    BY <1>b, <2>1, <2>2, Saves DEF DefaultInv, OneDefaultAtMost, Defaults
  <2>3. CASE \E y : Save(e, [Cleared EXCEPT ![y] = "default"])
    BY <1>a, <2>1, <2>3, Saves, OneAfterClearing
  <2> QED
    BY <1>5, <2>2, <2>3 DEF WriteDeselected
<1>6. ASSUME NEW e \in Editors, WriteDeleted(e) PROVE DefaultInv'
  <2>1. edit[e] # NoEdit /\ edit[e].of \in Ids /\ address[edit[e].of] = edit[e].was
    BY <1>6, <1>a, EditKinds DEF WriteDeleted, DefaultInv, ReadInv
  <2> DEFINE rest == [address EXCEPT ![edit[e].of] = "deleted"]
  <2>2. rest \in [Ids -> AddressStates] /\ \A a \in Ids : rest[a] = "default" => address[a] = "default"
    BY <1>b, <2>1 DEF AddressStates
  <2>3. CASE Save(e, rest)
    <3>1. \A b, c \in Ids : rest[b] = "default" /\ rest[c] = "default" => b = c
      BY <2>2 DEF DefaultInv, OneDefaultAtMost, Defaults
    <3>2. Save(e, rest)
      BY <2>3
    <3> HIDE DEF rest
    <3> QED
      BY <2>1, <2>2, <3>1, <3>2, Saves
  <2>4. CASE edit[e].was = "default" /\ \E y : Save(e, [rest EXCEPT ![y] = "default"])
    <3>1. \A a \in Ids : rest[a] # "default"
      BY <1>b, <2>1, <2>2, <2>4 DEF DefaultInv, OneDefaultAtMost, Defaults, AddressStates
    <3>2. PICK y : Save(e, [rest EXCEPT ![y] = "default"])
      BY <2>4
    <3> DEFINE x == [rest EXCEPT ![y] = "default"]
    <3>3. x \in [Ids -> AddressStates] /\ \A a \in Ids : x[a] = "default" => a = y
      BY <2>2, <3>1 DEF AddressStates
    <3> HIDE DEF x, rest
    <3>4. Save(e, x)
      BY <3>2 DEF x
    <3> QED
      BY <2>1, <3>3, <3>4, Saves
  <2>5. edit[e].was \in {"default", "plain"}
    BY <1>6, <1>a, EditKinds DEF WriteDeleted
  <2> DEFINE others == Current \ {edit[e].of}
  <2>6. CASE edit[e].was = "plain" \/ others = {}
    BY <1>6, <2>3, <2>6 DEF WriteDeleted
  <2>7. CASE ~(edit[e].was = "plain" \/ others = {})
    <3>1. Save(e, [rest EXCEPT ![NewestOf(others)] = "default"])
      BY <1>6, <2>7 DEF WriteDeleted
    <3> QED
      BY <2>4, <2>5, <2>7, <3>1
  <2> QED
    BY <2>6, <2>7
<1>7. CASE DeleteOwner
  <2>1. address' \in [Ids -> AddressStates] /\ \A a \in Ids : address'[a] # "default"
    BY <1>7, <1>b DEF DeleteOwner, Current, AddressStates
  <2>2. \A e \in Editors : edit'[e] = NoEdit
    BY <1>7, AddressAssumption DEF DeleteOwner, DefaultInv, ReadInv
  <2> QED
    BY <1>7, <1>a, <2>1, <2>2 DEF DeleteOwner, DefaultInv, ReadInv, OneDefaultAtMost, Defaults,
       AddressTypeOK, AddressStates
<1>8. CASE UNCHANGED addressVars
  BY <1>8 DEF addressVars, DefaultInv, AddressTypeOK, ReadInv, OneDefaultAtMost, Defaults
<1> QED
  BY <1>1, <1>2, <1>3, <1>4, <1>5, <1>6, <1>7, <1>8
     DEF AddressNext, UpdateAddress, SetDefaultAddress, DeleteAddress

LEMMA DefaultInit == AddressInit => DefaultInv
BY DEF AddressInit, DefaultInv, AddressTypeOK, ReadInv, OneDefaultAtMost, Defaults

(* No interleaving of creations, promotions and deletions gives a user two
   default addresses, however many addresses and requests there are. *)
THEOREM DefaultsAreUnique == AddressSpec => []OneDefaultAtMost
<1>1. DefaultInv => OneDefaultAtMost
  BY DEF DefaultInv
<1> QED
  BY <1>1, DefaultInit, DefaultStep, PTL DEF AddressSpec

(* Every reachable state is well typed. *)
THEOREM AddressTypes == AddressSpec => []AddressTypeOK
<1>1. DefaultInv => AddressTypeOK
  BY DEF DefaultInv
<1> QED
  BY <1>1, DefaultInit, DefaultStep, PTL DEF AddressSpec

-----------------------------------------------------------------------------
TokenStates == {"unborn", "live", "revoked"}
Resets == 0..Cardinality(Grants)

LEMMA JobKinds ==
  ASSUME SessionTypeOK, NEW r \in Logins
  PROVE  /\ At(r, "refresh") \/ At(r, "rotate") \/ At(r, "reuse") \/ At(r, "logout") => job[r].of \in Tokens
         /\ At(r, "reset") \/ At(r, "lock user") \/ At(r, "revoke all") => job[r].of \in Grants
         /\ At(r, "issue") => job[r].seen \in Resets
<1>1. job[r] \in Jobs
  BY DEF SessionTypeOK
<1>2. CASE job[r] \in {NewJob, EndedJob, [step |-> "clean"]}
  <2>1. job[r].step \in {"new", "ended", "clean"}
    BY <1>2 DEF NewJob, EndedJob
  <2> QED
    BY <2>1 DEF At
<1>3. CASE job[r] \in [step : {"issue"}, seen : 0..Cardinality(Grants)]
  BY <1>3 DEF At, Resets
<1>4. CASE job[r] \in [step : {"refresh", "rotate", "reuse", "logout"}, of : Tokens]
  BY <1>4 DEF At
<1>5. CASE job[r] \in [step : {"reset", "lock user", "revoke all"}, of : Grants]
  BY <1>5 DEF At
<1> QED
  BY <1>1, <1>2, <1>3, <1>4, <1>5 DEF Jobs

(* Who is about to replace a token holds its row, and it is live; who is about to
   use a reset session holds its row, and it is unspent. *)
HoldInv ==
  \A r \in Logins :
    /\ At(r, "rotate") => tokenLock[job[r].of] = r /\ token[job[r].of] = "live"
    /\ At(r, "lock user") \/ At(r, "revoke all") =>
         grantLock[job[r].of] = r /\ job[r].of \notin spent

(* The token a family began with was created. *)
RootInv == \A t \in Born : family[t] \in Born

SessionInv == SessionTypeOK /\ HoldInv /\ RootInv /\ SessionsSound

LEMMA SpentFinite ==
  ASSUME SessionTypeOK
  PROVE  /\ IsFiniteSet(spent) /\ Cardinality(spent) \in Nat /\ Cardinality(Grants) \in Nat
         /\ \A g \in Grants \ spent :
              /\ Cardinality(spent \cup {g}) = Cardinality(spent) + 1
              /\ Cardinality(spent \cup {g}) <= Cardinality(Grants)
<1>1. IsFiniteSet(Grants) /\ spent \subseteq Grants
  BY SessionAssumption DEF SessionTypeOK
<1>2. IsFiniteSet(spent) /\ Cardinality(spent) \in Nat /\ Cardinality(Grants) \in Nat
  BY <1>1, FS_Subset, FS_CardinalityType
<1>3. ASSUME NEW g \in Grants \ spent
      PROVE  /\ Cardinality(spent \cup {g}) = Cardinality(spent) + 1
             /\ Cardinality(spent \cup {g}) <= Cardinality(Grants)
  <2>1. Cardinality(spent \cup {g}) = Cardinality(spent) + 1
    BY <1>2, <1>3, FS_AddElement
  <2>2. spent \cup {g} \subseteq Grants
    BY <1>1, <1>3
  <2> QED
    BY <1>1, <2>1, <2>2, FS_Subset
<1> QED
  BY <1>2, <1>3

(* A request that ends takes nothing from the others. *)
LEMMA EndsSessions ==
  ASSUME SessionTypeOK, NEW r \in Logins, End(r)
  PROVE  /\ job' \in [Logins -> Jobs] /\ userLock' \in Logins \cup {Nobody}
         /\ tokenLock' \in [Tokens -> Logins \cup {Nobody}]
         /\ grantLock' \in [Grants -> Logins \cup {Nobody}]
         /\ job'[r] = EndedJob
         /\ \A o \in Logins \ {r} :
              /\ job'[o] = job[o]
              /\ \A t \in Tokens : tokenLock[t] = o => tokenLock'[t] = o
              /\ \A g \in Grants : grantLock[g] = o => grantLock'[g] = o
<1>1. EndedJob \in Jobs
  BY DEF Jobs
<1>2. job' = [job EXCEPT ![r] = EndedJob] /\ job \in [Logins -> Jobs]
  BY DEF SessionTypeOK, End, Go
<1>3. /\ userLock' \in Logins \cup {Nobody}
      /\ tokenLock' \in [Tokens -> Logins \cup {Nobody}]
      /\ grantLock' \in [Grants -> Logins \cup {Nobody}]
  BY DEF SessionTypeOK, End
<1>4. \A o \in Logins \ {r} :
        /\ \A t \in Tokens : tokenLock[t] = o => tokenLock'[t] = o
        /\ \A g \in Grants : grantLock[g] = o => grantLock'[g] = o
  BY DEF SessionTypeOK, End
<1> QED
  BY <1>1, <1>2, <1>3, <1>4

LEMMA OthersHold ==
  ASSUME SessionTypeOK, HoldInv, NEW r \in Logins, End(r),
         \A o \in Logins \ {r} :
           /\ At(o, "rotate") => token'[job[o].of] = "live"
           /\ At(o, "lock user") \/ At(o, "revoke all") => job[o].of \notin spent'
  PROVE  HoldInv'
<1>1. ASSUME NEW o \in Logins, o # r
      PROVE  /\ At(o, "rotate")' => tokenLock'[job'[o].of] = o /\ token'[job'[o].of] = "live"
             /\ At(o, "lock user")' \/ At(o, "revoke all")' =>
                  grantLock'[job'[o].of] = o /\ job'[o].of \notin spent'
  <2>1. job'[o] = job[o]
    BY <1>1, EndsSessions
  <2>2. At(o, "rotate") => job[o].of \in Tokens
    BY JobKinds
  <2>3. At(o, "lock user") \/ At(o, "revoke all") => job[o].of \in Grants
    BY JobKinds
  <2>4. At(o, "rotate") => tokenLock'[job[o].of] = o
    BY <1>1, <2>2, EndsSessions DEF HoldInv
  <2>5. At(o, "lock user") \/ At(o, "revoke all") => grantLock'[job[o].of] = o
    BY <1>1, <2>3, EndsSessions DEF HoldInv
  <2> QED
    BY <1>1, <2>1, <2>4, <2>5 DEF At
<1>2. ~At(r, "rotate")' /\ ~At(r, "lock user")' /\ ~At(r, "revoke all")'
  <2>1. job'[r] = EndedJob
    BY EndsSessions
  <2>2. EndedJob.step = "ended"
    BY DEF EndedJob
  <2>3. job'[r].step = "ended"
    BY <2>1, <2>2
  <2> QED
    BY <2>3 DEF At
<1> QED
  BY <1>1, <1>2 DEF HoldInv

(* A request that revokes tokens that nobody else holds, and ends. *)
LEMMA Revokes ==
  ASSUME SessionInv, NEW r \in Logins, End(r), NEW ts \in SUBSET Tokens, Free(ts, r),
         token' = Revoked(ts), UNCHANGED <<password, gone, family, version, late, spent>>
  PROVE  SessionInv'
<1> USE DEF SessionInv
<1>1. /\ token' \in [Tokens -> TokenStates]
      /\ \A t \in Tokens : /\ token'[t] = "unborn" <=> token[t] = "unborn"
                           /\ token'[t] = "live" => token[t] = "live"
                           /\ token[t] = "live" /\ t \notin ts => token'[t] = "live"
  BY DEF Revoked, SessionTypeOK, TokenStates
<1>2. SessionTypeOK'
  BY <1>1, EndsSessions DEF SessionTypeOK, TokenStates
<1>3. HoldInv'
  <2>1. \A o \in Logins \ {r} : At(o, "rotate") => job[o].of \in Tokens \ ts /\ token[job[o].of] = "live"
    BY SessionAssumption, JobKinds DEF HoldInv, Free
  <2> QED
    BY <1>1, <2>1, OthersHold DEF HoldInv
<1>4. RootInv'
  BY <1>1 DEF RootInv, Born, Unborn
<1>5. SessionsSound'
  BY <1>1 DEF SessionsSound, OneLivePerFamily, ResetEndsSessions, GrantsUsedOnce, LiveTokens
<1> QED
  BY <1>2, <1>3, <1>4, <1>5

(* A request that ends and leaves the tokens alone. *)
LEMMA GivesUp ==
  ASSUME SessionInv, NEW r \in Logins, End(r),
         UNCHANGED <<password, gone, token, family, version, late, spent>>
  PROVE  SessionInv'
<1>1. token' = Revoked({}) /\ Free({}, r)
  BY DEF SessionInv, SessionTypeOK, Revoked, Free
<1> QED
  BY <1>1, Revokes

(* A request that goes on: what it comes to hold was held by nobody or itself. *)
LEMMA GoesOn ==
  ASSUME SessionInv, NEW r \in Logins, NEW j \in Jobs, Go(r, j),
         UNCHANGED <<password, tokenRows, late, spent>>, gone' \in BOOLEAN,
         userLock' \in Logins \cup {Nobody},
         tokenLock' \in [Tokens -> Logins \cup {Nobody}],
         grantLock' \in [Grants -> Logins \cup {Nobody}],
         \A o \in Logins \ {r} :
           /\ \A t \in Tokens : tokenLock[t] = o => tokenLock'[t] = o
           /\ \A g \in Grants : grantLock[g] = o => grantLock'[g] = o,
         j.step = "rotate" => tokenLock'[j.of] = r /\ token[j.of] = "live",
         j.step \in {"lock user", "revoke all"} => grantLock'[j.of] = r /\ j.of \notin spent
  PROVE  SessionInv'
<1> USE DEF SessionInv, tokenRows
<1>1. job' \in [Logins -> Jobs] /\ job'[r] = j /\ \A o \in Logins \ {r} : job'[o] = job[o]
  BY DEF SessionTypeOK, Go
<1>2. SessionTypeOK'
  BY <1>1 DEF SessionTypeOK
<1>3. HoldInv'
  <2>1. ASSUME NEW o \in Logins, o # r
        PROVE  /\ At(o, "rotate")' => tokenLock'[job'[o].of] = o /\ token'[job'[o].of] = "live"
               /\ At(o, "lock user")' \/ At(o, "revoke all")' =>
                    grantLock'[job'[o].of] = o /\ job'[o].of \notin spent'
    <3>1. job'[o] = job[o]
      BY <1>1, <2>1
    <3>2. At(o, "rotate") => job[o].of \in Tokens
      BY JobKinds
    <3>3. At(o, "lock user") \/ At(o, "revoke all") => job[o].of \in Grants
      BY JobKinds
    <3>4. At(o, "rotate") => tokenLock'[job[o].of] = o /\ token[job[o].of] = "live"
      BY <2>1, <3>2 DEF HoldInv
    <3>5. At(o, "lock user") \/ At(o, "revoke all") =>
            grantLock'[job[o].of] = o /\ job[o].of \notin spent
      BY <2>1, <3>3 DEF HoldInv
    <3> QED
      BY <3>1, <3>4, <3>5 DEF At
  <2>2. /\ At(r, "rotate")' => tokenLock'[job'[r].of] = r /\ token'[job'[r].of] = "live"
        /\ At(r, "lock user")' \/ At(r, "revoke all")' =>
             grantLock'[job'[r].of] = r /\ job'[r].of \notin spent'
    BY <1>1 DEF At
  <2> QED
    BY <2>1, <2>2 DEF HoldInv
<1>4. RootInv' /\ SessionsSound'
  BY DEF RootInv, Born, Unborn, SessionsSound, OneLivePerFamily, ResetEndsSessions, GrantsUsedOnce,
     LiveTokens
<1> QED
  BY <1>2, <1>3, <1>4

(* The steps that create a token. *)
LEMMA IssueStep ==
  ASSUME SessionInv, NEW r \in Logins, Issue(r)
  PROVE  SessionInv'
<1> USE DEF SessionInv
<1>1. PICK t \in Unborn :
        /\ token' = [token EXCEPT ![t] = "live"]
        /\ family' = [family EXCEPT ![t] = t]
        /\ version' = [version EXCEPT ![t] = job[r].seen]
        /\ late' = IF job[r].seen = password THEN late ELSE late \cup {t}
  BY DEF Issue
<1>2. t \in Tokens /\ token[t] = "unborn" /\ job[r].seen \in Resets
  BY JobKinds DEF Issue, Unborn, At
<1>3. /\ token' \in [Tokens -> TokenStates] /\ token'[t] = "live" /\ family'[t] = t
      /\ version'[t] = job[r].seen
      /\ \A u \in Tokens \ {t} : token'[u] = token[u] /\ family'[u] = family[u] /\ version'[u] = version[u]
  BY <1>1, <1>2 DEF SessionTypeOK, TokenStates
<1>4. SessionTypeOK'
  <2>1. family' \in [Tokens -> Tokens] /\ version' \in [Tokens -> Resets] /\ late' \subseteq Tokens
    BY <1>1, <1>2 DEF SessionTypeOK, Resets
  <2> QED
    BY <1>3, <2>1, EndsSessions DEF Issue, SessionTypeOK, TokenStates, Resets
<1>5. HoldInv'
  <2>1. \A o \in Logins \ {r} : At(o, "rotate") => job[o].of \in Tokens \ {t} /\ token[job[o].of] = "live"
    BY <1>2, JobKinds DEF HoldInv
  <2> QED
    <3>1. \A o \in Logins \ {r} : At(o, "rotate") => token'[job[o].of] = "live"
      BY <1>3, <2>1
    <3>2. \A o \in Logins \ {r} : At(o, "lock user") \/ At(o, "revoke all") => job[o].of \notin spent'
      BY DEF Issue, HoldInv
    <3> QED
      BY <3>1, <3>2, OthersHold DEF Issue
<1>6. \A u \in Born : family[u] # t
  BY <1>2 DEF RootInv, Born, Unborn
<1>7. RootInv'
  BY <1>2, <1>3 DEF RootInv, Born, Unborn, SessionTypeOK
<1>8. OneLivePerFamily'
  BY <1>2, <1>3, <1>6 DEF SessionsSound, OneLivePerFamily, LiveTokens, Born, Unborn
<1>9. ResetEndsSessions' /\ GrantsUsedOnce'
  BY <1>1, <1>2, <1>3 DEF Issue, SessionsSound, ResetEndsSessions, GrantsUsedOnce, LiveTokens
<1> QED
  BY <1>4, <1>5, <1>7, <1>8, <1>9 DEF SessionsSound

LEMMA RotateStep ==
  ASSUME SessionInv, NEW r \in Logins, Rotate(r)
  PROVE  SessionInv'
<1> USE DEF SessionInv
<1>1. CASE UNCHANGED tokenRows
  BY <1>1, GivesUp DEF Rotate, tokenRows
<1>2. ASSUME NEW t \in Unborn,
             token' = [token EXCEPT ![t] = "live", ![job[r].of] = "revoked"],
             family' = [family EXCEPT ![t] = family[job[r].of]],
             version' = [version EXCEPT ![t] = version[job[r].of]]
      PROVE  SessionInv'
  <2> DEFINE old == job[r].of
  <2>1. old \in Tokens /\ token[old] = "live" /\ tokenLock[old] = r
    BY JobKinds DEF Rotate, HoldInv, At
  <2>2. t \in Tokens /\ token[t] = "unborn" /\ t # old
    BY <2>1 DEF Unborn
  <2>3. /\ token' \in [Tokens -> TokenStates] /\ token'[t] = "live" /\ token'[old] = "revoked"
        /\ family' \in [Tokens -> Tokens] /\ family'[t] = family[old]
        /\ version' \in [Tokens -> Resets] /\ version'[t] = version[old]
        /\ \A u \in Tokens \ {t} : family'[u] = family[u] /\ version'[u] = version[u]
        /\ \A u \in Tokens \ {t, old} : token'[u] = token[u]
    BY <1>2, <2>1, <2>2 DEF SessionTypeOK, TokenStates, Resets
  <2> HIDE DEF old
  <2>4. SessionTypeOK'
    BY <2>3, EndsSessions DEF Rotate, SessionTypeOK, TokenStates, Resets
  <2>5. HoldInv'
    <3>1. \A o \in Logins \ {r} :
            At(o, "rotate") => job[o].of \in Tokens \ {t, old} /\ token[job[o].of] = "live"
      BY <2>1, <2>2, JobKinds DEF HoldInv
    <3> QED
      <4>1. \A o \in Logins \ {r} : At(o, "rotate") => token'[job[o].of] = "live"
        BY <2>3, <3>1
      <4>2. \A o \in Logins \ {r} : At(o, "lock user") \/ At(o, "revoke all") => job[o].of \notin spent'
        BY DEF Rotate, HoldInv
      <4> QED
        BY <4>1, <4>2, OthersHold DEF Rotate
  <2>6. RootInv'
    BY <2>1, <2>2, <2>3 DEF RootInv, Born, Unborn, SessionTypeOK
  <2>7. OneLivePerFamily'
    BY <2>1, <2>2, <2>3 DEF SessionsSound, OneLivePerFamily, LiveTokens
  <2>8. ResetEndsSessions' /\ GrantsUsedOnce'
    BY <2>1, <2>2, <2>3 DEF Rotate, SessionsSound, ResetEndsSessions, GrantsUsedOnce, LiveTokens
  <2> QED
    BY <2>4, <2>5, <2>6, <2>7, <2>8 DEF SessionsSound
<1> QED
  BY <1>1, <1>2 DEF Rotate

LEMMA RevokeAllStep ==
  ASSUME SessionInv, NEW r \in Logins, RevokeAll(r)
  PROVE  SessionInv'
<1> USE DEF SessionInv
<1> DEFINE g == job[r].of
<1>1. g \in Grants \ spent /\ grantLock[g] = r
  BY JobKinds DEF RevokeAll, HoldInv, At
<1>2. /\ token' \in [Tokens -> TokenStates]
      /\ \A t \in Tokens : token'[t] # "live" /\ (token'[t] = "unborn" <=> token[t] = "unborn")
  BY DEF RevokeAll, Revoked, SessionTypeOK, TokenStates
<1>3. GrantsUsedOnce' /\ password' \in Resets
  <2>1. password' = Cardinality(spent) + 1 /\ spent' = spent \cup {g}
    BY DEF RevokeAll, SessionsSound, GrantsUsedOnce
  <2>2. Cardinality(spent \cup {g}) = Cardinality(spent) + 1 /\ Cardinality(spent \cup {g}) <= Cardinality(Grants)
    BY <1>1, SpentFinite
  <2> QED
    BY <2>1, <2>2, SpentFinite DEF GrantsUsedOnce, Resets
<1>4. SessionTypeOK'
  BY <1>1, <1>2, <1>3, EndsSessions DEF RevokeAll, SessionTypeOK, TokenStates, Resets
<1>5. HoldInv'
  <2>1. \A o \in Logins \ {r} : ~At(o, "rotate")
    BY SessionAssumption, JobKinds DEF RevokeAll, HoldInv, Free
  <2>2. \A o \in Logins \ {r} :
          At(o, "lock user") \/ At(o, "revoke all") => job[o].of \notin spent /\ job[o].of # g
    BY <1>1, JobKinds DEF HoldInv
  <2> QED
    BY <2>1, <2>2, OthersHold DEF RevokeAll
<1>6. RootInv'
  BY <1>2 DEF RevokeAll, RootInv, Born, Unborn
<1>7. OneLivePerFamily' /\ ResetEndsSessions'
  BY <1>2 DEF OneLivePerFamily, ResetEndsSessions, LiveTokens
<1> QED
  BY <1>3, <1>4, <1>5, <1>6, <1>7 DEF SessionsSound

LEMMA SessionStep == SessionInv /\ [SessionNext]_sessionVars => SessionInv'
<1> SUFFICES ASSUME SessionInv, [SessionNext]_sessionVars PROVE SessionInv'
  OBVIOUS
<1>a. SessionTypeOK
  BY DEF SessionInv
<1>b. ASSUME NEW r \in Logins, NEW j \in Jobs, Opens(r, j),
             j.step \notin {"rotate", "lock user", "revoke all"}
      PROVE  SessionInv'
  BY <1>a, <1>b, GoesOn DEF Opens, rowLocks, SessionTypeOK
<1>1. ASSUME NEW r \in Logins, SignIn(r) PROVE SessionInv'
  <2>1. [step |-> "issue", seen |-> password] \in Jobs
    BY <1>a DEF SessionTypeOK, Jobs
  <2> QED
    BY <1>b, <1>1, <2>1 DEF SignIn
<1>2. ASSUME NEW r \in Logins, NEW t \in Tokens, Refresh(r, t) \/ Logout(r, t) PROVE SessionInv'
  <2>1. [step |-> "refresh", of |-> t] \in Jobs /\ [step |-> "logout", of |-> t] \in Jobs
    BY DEF Jobs
  <2> QED
    BY <1>b, <1>2, <2>1 DEF Refresh, Logout
<1>3. ASSUME NEW r \in Logins, NEW g \in Grants, Reset(r, g) PROVE SessionInv'
  <2>1. [step |-> "reset", of |-> g] \in Jobs
    BY DEF Jobs
  <2> QED
    BY <1>b, <1>3, <2>1 DEF Reset
<1>4. ASSUME NEW r \in Logins, DeleteAccount(r) PROVE SessionInv'
  <2>1. [step |-> "clean"] \in Jobs
    BY DEF Jobs
  <2> QED
    BY <1>a, <1>4, <2>1, GoesOn DEF DeleteAccount, rowLocks, SessionTypeOK
<1>5. ASSUME NEW r \in Logins, LogoutUpdate(r) \/ DeleteTokens(r) \/ RevokeFamily(r) PROVE SessionInv'
  <2>1. LogoutUpdate(r) => {job[r].of} \in SUBSET Tokens
    BY <1>a, JobKinds DEF LogoutUpdate, At
  <2>2. \A f : Family(f) \in SUBSET Tokens
    BY DEF Family, Born
  <2> QED
    BY <1>5, <2>1, <2>2, Revokes DEF LogoutUpdate, DeleteTokens, RevokeFamily
<1>6. ASSUME NEW r \in Logins, Deadlock(r) PROVE SessionInv'
  BY <1>6, GivesUp DEF Deadlock, tokenRows
<1>7. ASSUME NEW r \in Logins, LockToken(r) PROVE SessionInv'
  <2> DEFINE t == job[r].of
             j == [step |-> IF token[t] = "live" THEN "rotate" ELSE "reuse", of |-> t]
  <2>1. t \in Tokens /\ tokenLock[t] \in {Nobody, r}
    BY <1>a, <1>7, JobKinds DEF LockToken, Free, At
  <2>2. j \in Jobs /\ j.of = t /\ j.step \in {"rotate", "reuse"} /\ (j.step = "rotate" => token[t] = "live")
    BY <2>1 DEF Jobs
  <2>3. tokenLock' = [tokenLock EXCEPT ![t] = r] /\ Go(r, j)
    BY <1>7 DEF LockToken
  <2>4. /\ tokenLock' \in [Tokens -> Logins \cup {Nobody}] /\ tokenLock'[t] = r
        /\ \A o \in Logins \ {r}, u \in Tokens : tokenLock[u] = o => tokenLock'[u] = o
    BY <1>a, <2>1, <2>3, SessionAssumption DEF SessionTypeOK
  <2>5. UNCHANGED <<password, gone, tokenRows, late, spent, userLock, grantLock>>
    BY <1>7 DEF LockToken
  <2> HIDE DEF j, t
  <2> QED
    BY <1>a, <2>2, <2>3, <2>4, <2>5, GoesOn DEF SessionTypeOK
<1>8. ASSUME NEW r \in Logins, LockGrant(r) PROVE SessionInv'
  <2> DEFINE g == job[r].of
             j == [step |-> "lock user", of |-> g]
  <2>1. g \in Grants /\ grantLock[g] = Nobody
    BY <1>a, <1>8, JobKinds DEF LockGrant, At
  <2>2. CASE g \in spent
    BY <1>8, <2>2, GivesUp DEF LockGrant, tokenRows
  <2>3. CASE g \notin spent
    <3>1. j \in Jobs /\ j.of = g /\ j.step = "lock user"
      BY <2>1 DEF Jobs
    <3>2. grantLock' = [grantLock EXCEPT ![g] = r] /\ Go(r, j)
      BY <1>8, <2>3 DEF LockGrant
    <3>3. /\ grantLock' \in [Grants -> Logins \cup {Nobody}] /\ grantLock'[g] = r
          /\ \A o \in Logins \ {r}, h \in Grants : grantLock[h] = o => grantLock'[h] = o
      BY <1>a, <2>1, <3>2, SessionAssumption DEF SessionTypeOK
    <3>4. UNCHANGED <<password, gone, tokenRows, late, spent, userLock, tokenLock>>
      BY <1>8, <2>3 DEF LockGrant
    <3> HIDE DEF j, g
    <3> QED
      BY <1>a, <2>3, <3>1, <3>2, <3>3, <3>4, GoesOn DEF SessionTypeOK
  <2> QED
    BY <2>2, <2>3
<1>9. ASSUME NEW r \in Logins, LockUser(r) PROVE SessionInv'
  <2> DEFINE g == job[r].of
             j == [step |-> "revoke all", of |-> g]
  <2>1. g \in Grants /\ grantLock[g] = r /\ g \notin spent
    BY <1>a, <1>9, JobKinds DEF LockUser, SessionInv, HoldInv, At
  <2>2. CASE gone
    BY <1>9, <2>2, GivesUp DEF LockUser, tokenRows
  <2>3. CASE ~gone
    <3>1. j \in Jobs /\ j.of = g /\ j.step = "revoke all"
      BY <2>1 DEF Jobs
    <3>2. /\ Go(r, j) /\ userLock' = r
          /\ UNCHANGED <<password, gone, tokenRows, late, spent, tokenLock, grantLock>>
      BY <1>9, <2>3 DEF LockUser
    <3> HIDE DEF j, g
    <3> QED
      BY <1>a, <2>1, <3>1, <3>2, GoesOn DEF SessionTypeOK
  <2> QED
    BY <2>2, <2>3
<1>10. CASE UNCHANGED sessionVars
  BY <1>10 DEF sessionVars, tokenRows, rowLocks, SessionInv, SessionTypeOK, HoldInv, RootInv, SessionsSound,
     OneLivePerFamily, ResetEndsSessions, GrantsUsedOnce, LiveTokens, Born, Unborn, At
<1> QED
  BY <1>1, <1>2, <1>3, <1>4, <1>5, <1>6, <1>7, <1>8, <1>9, <1>10, IssueStep, RotateStep, RevokeAllStep
     DEF SessionNext, Continue

LEMMA SessionStart == SessionInit => SessionInv
<1> SUFFICES ASSUME SessionInit PROVE SessionInv
  OBVIOUS
<1>1. Cardinality(Grants) \in Nat /\ 0 \in Resets
  BY SessionAssumption, FS_CardinalityType DEF Resets
<1>2. GrantsUsedOnce
  BY FS_EmptySet DEF SessionInit, GrantsUsedOnce
<1>3. SessionTypeOK
  BY <1>1 DEF SessionInit, SessionTypeOK, Jobs, NewJob, Resets
<1> QED
  BY <1>2, <1>3 DEF SessionInit, SessionInv, HoldInv, RootInv, SessionsSound, OneLivePerFamily,
     ResetEndsSessions, LiveTokens, Born, Unborn, At, NewJob

(* A family has one live token at most, a reset of the password leaves no session
   of the old one that was not signed in too late, and a reset session is used
   once, however many requests run at once. *)
THEOREM SessionsAreSound == SessionSpec => []SessionsSound
<1>1. SessionInv => SessionsSound
  BY DEF SessionInv
<1> QED
  BY <1>1, SessionStart, SessionStep, PTL DEF SessionSpec

(* Every reachable state is well typed. *)
THEOREM SessionTypes == SessionSpec => []SessionTypeOK
<1>1. SessionInv => SessionTypeOK
  BY DEF SessionInv
<1> QED
  BY <1>1, SessionStart, SessionStep, PTL DEF SessionSpec

(* A family in which every token is revoked gets no live token again, for a new
   token is of a new family or replaces a live one. *)
THEOREM RevokedForGood == SessionSpec => DeadStayDead
<1>1. ASSUME SessionInv, [SessionNext]_sessionVars, NEW f \in Tokens,
             Family(f) # {}, Family(f) \cap LiveTokens = {}
      PROVE  Family(f)' \cap LiveTokens' = {}
  <2>a. f \in Born
    BY <1>1 DEF SessionInv, RootInv, Family
  <2>b. SessionTypeOK
    BY <1>1 DEF SessionInv
  <2>1. ASSUME UNCHANGED family, \A t \in Tokens : token'[t] = "live" => token[t] = "live"
        PROVE  Family(f)' \cap LiveTokens' = {}
    BY <1>1, <2>1 DEF Family, LiveTokens, Born, Unborn
  <2>2. ASSUME NEW r \in Logins, Issue(r) PROVE Family(f)' \cap LiveTokens' = {}
    BY <1>1, <2>2, <2>a, <2>b DEF Issue, Family, LiveTokens, Born, Unborn, SessionTypeOK
  <2>3. ASSUME NEW r \in Logins, Rotate(r) PROVE Family(f)' \cap LiveTokens' = {}
    <3>1. CASE UNCHANGED tokenRows
      BY <2>1, <3>1 DEF tokenRows
    <3>2. ASSUME NEW t \in Unborn,
                 token' = [token EXCEPT ![t] = "live", ![job[r].of] = "revoked"],
                 family' = [family EXCEPT ![t] = family[job[r].of]]
          PROVE  Family(f)' \cap LiveTokens' = {}
      <4>1. job[r].of \in Tokens /\ token[job[r].of] = "live"
        BY <1>1, <2>3, <2>b, JobKinds DEF Rotate, SessionInv, HoldInv, At
      <4>2. family[job[r].of] # f
        BY <1>1, <4>1 DEF Family, LiveTokens, Born, Unborn
      <4> QED
        BY <1>1, <2>b, <3>2, <4>1, <4>2 DEF Family, LiveTokens, Born, Unborn, SessionTypeOK
    <3> QED
      BY <2>3, <3>1, <3>2 DEF Rotate
  <2>4. ASSUME NEW r \in Logins,
               \/ LogoutUpdate(r) \/ DeleteTokens(r) \/ RevokeFamily(r) \/ RevokeAll(r)
        PROVE  Family(f)' \cap LiveTokens' = {}
    <3>1. UNCHANGED family /\ \E ts : token' = Revoked(ts)
      BY <2>4 DEF LogoutUpdate, DeleteTokens, RevokeFamily, RevokeAll
    <3> QED
      BY <2>1, <2>b, <3>1 DEF Revoked, SessionTypeOK
  <2>5. ASSUME NEW r \in Logins,
               \/ SignIn(r) \/ DeleteAccount(r) \/ LockToken(r) \/ LockGrant(r) \/ LockUser(r) \/ Deadlock(r)
               \/ \E t \in Tokens : Refresh(r, t) \/ Logout(r, t)
               \/ \E g \in Grants : Reset(r, g)
        PROVE  Family(f)' \cap LiveTokens' = {}
    <3>1. UNCHANGED tokenRows
      BY <2>5 DEF SignIn, DeleteAccount, LockToken, LockGrant, LockUser, Deadlock, Refresh, Logout, Reset,
         Opens
    <3> QED
      BY <2>1, <3>1 DEF tokenRows
  <2>6. CASE UNCHANGED sessionVars
    BY <2>1, <2>6 DEF sessionVars, tokenRows
  <2> QED
    BY <1>1, <2>2, <2>3, <2>4, <2>5, <2>6 DEF SessionNext, Continue
<1>2. SessionInv /\ [SessionNext]_sessionVars =>
        [\A f \in Tokens : Family(f) # {} /\ Family(f) \cap LiveTokens = {}
           => Family(f)' \cap LiveTokens' = {}]_sessionVars
  BY <1>1
<1> QED
  BY <1>2, SessionStart, SessionStep, PTL DEF SessionSpec, DeadStayDead
=============================================================================
