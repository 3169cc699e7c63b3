------------------------------ MODULE AuthProofs ------------------------------
(***************************************************************************)
(* Proofs about Auth, for any numbers of requests, tokens, calls, attempts *)
(* and failures.                                                           *)
(***************************************************************************)
EXTENDS Auth, FiniteSetTheorems, TLAPS

-----------------------------------------------------------------------------
(* Types, one variable at a time.                                          *)

UserRows == [exists : BOOLEAN, isVerified : BOOLEAN, password : {Typo} \cup Codes]
AnswerRows == [step : AnswerSteps, key : Keys, data : Entries \ {Missing}]
TokenRows == [session : 1 .. sessions, isRevoked : BOOLEAN, expired : BOOLEAN]

\* What a request carries depends on its step.
RequestFits(r) ==
    \/ request[r].step \in {"idle", "create", "store", "send", "issue"}
    \/ request[r] \in AnswerRows
    \/ request[r].step = "revoke" /\ request[r].token \in Tokens /\ token[request[r].token] # Unused
    \/ request[r].step = "open" /\ request[r].session \in 1 .. sessions

Busy == {r \in Requests : ~ At(r, "idle")}

UserTyped == user \in UserRows
KeyTyped == key \in [Keys -> Entries]
MailTyped ==
    /\ issued \in [Keys -> Nat]
    /\ mailed \in [Keys -> SUBSET Nat] /\ \A k \in Keys : mailed[k] \subseteq 1 .. issued[k]
CountTyped ==
    /\ wrong \in [Keys -> Nat] /\ late \in [Keys -> Nat] /\ over \in BOOLEAN
    /\ used \in [Keys -> [Codes -> Nat]]
TokenTyped == token \in [Tokens -> {Unused} \cup TokenRows]
SessionTyped ==
    /\ sessions \in Nat
    /\ rivals \in [1 .. MaxCalls -> Nat] /\ dropped \in [1 .. MaxCalls -> Nat]
RequestTyped == DOMAIN request = Requests /\ \A r \in Requests : RequestFits(r)
BoundTyped == calls \in 0 .. MaxCalls /\ faults \in 0 .. MaxFaults

Typed == /\ UserTyped /\ KeyTyped /\ MailTyped /\ CountTyped
         /\ TokenTyped /\ SessionTyped /\ RequestTyped /\ BoundTyped

-----------------------------------------------------------------------------
(* Invariants.                                                             *)

\* Registering: one request stores and sends the only verification code there is.
Registering == {r \in Requests : At(r, "store") \/ At(r, "send")}
OneRegistration ==
    /\ \A r, q \in Registering : r = q
    /\ \A r \in Requests : /\ At(r, "store") => user.exists /\ issued["verify"] = 0
                           /\ At(r, "send") => issued["verify"] = 1 /\ mailed["verify"] = {}
    /\ ~ user.exists => issued["verify"] = 0 /\ Registering = {}
    /\ issued["verify"] <= 1

\* Every code and every session comes from a call of its own.
Issuing == {r \in Requests : At(r, "issue")}
CallsAreCounted ==
    /\ IsFiniteSet(Busy)
    /\ calls = 0 => Busy = {} /\ issued["verify"] = 0
    /\ issued["reset"] + Cardinality(Issuing) <= calls
    /\ sessions <= calls

\* What is known of a code is a code that was stored, and what is used was mailed.
CodesAreIssued ==
    /\ \A k \in Keys : key[k].code <= issued[k]
    /\ \A k \in Keys, c \in Codes : used[k][c] > 0 => c <= issued[k]
    /\ \A r \in Requests :
        request[r].step \in AnswerSteps =>
            /\ request[r].data.code <= issued[request[r].key]
            /\ request[r].step \in {"spend", "update"} => request[r].data.code \in mailed[request[r].key]

\* verifyOtp counts up to its limit and not further.
AttemptsAreLimited ==
    /\ key["verify"].attempts <= MaxAttempts
    /\ \A r \in Requests :
        request[r].step = "retry" /\ request[r].key = "verify" => request[r].data.attempts < MaxAttempts

\* Requests that have spent the code c of k and not updated the user yet.
Spending(k, c) ==
    {r \in Requests : At(r, "update") /\ request[r].key = k /\ request[r].data.code = c}
Stored(k, c) == IF key[k].code = c THEN 1 ELSE 0
CodesAreSpentOnce ==
    \A k \in Keys, c \in Codes :
        used[k][c] + Cardinality(Spending(k, c)) + Stored(k, c) <= 1 + late[k]

\* UnverifiedHasCode, with what is stored while the mail is on its way.
Verifiable ==
    \/ key["verify"] # Missing /\ key["verify"].code \in mailed["verify"]
    \/ \E r \in Requests : At(r, "store")
    \/ key["verify"] # Missing /\ \E r \in Requests : At(r, "send")
    \/ \E r \in Requests : At(r, "update") /\ request[r].key = "verify"
CodeIsOnItsWay == user.exists /\ ~ user.isVerified /\ ~ over /\ faults = 0 => Verifiable

\* Tokens of s that nobody is about to revoke, and requests about to revoke one of s.
Uncovered(s) == {t \in Unrevoked(s) : Revoking(t) = {}}
RevokingOf(s) == {r \in Requests : At(r, "revoke") /\ token[request[r].token].session = s}
UsedTokens == {t \in Tokens : token[t] # Unused}
SessionsAreKept ==
    /\ IsFiniteSet(UsedTokens)
    /\ \A s \in 1 .. MaxCalls : s > sessions => dropped[s] = 0
    /\ \A s \in 1 .. sessions :
        /\ Cardinality(Uncovered(s)) + Cardinality(RevokingOf(s))
             + Cardinality(Opening(Requests, s)) + dropped[s] <= 1 + rivals[s]
        /\ 1 <= Cardinality(Unrevoked(s)) + Cardinality(Opening(Requests, s)) + dropped[s]

-----------------------------------------------------------------------------
(* What the helpers of the actions do.                                     *)

LEMMA KeysAre == Keys = {"verify", "reset"} /\ "verify" \in Keys /\ "reset" \in Keys
BY DEF Keys

LEMMA BoundsAreNatural == MaxCalls \in Nat /\ MaxFaults \in Nat /\ MaxAttempts \in Nat \ {0}
BY AuthAssumption DEF AuthAssumption

\* What is stored under a key, or nothing.
LEMMA EntryFacts ==
    ASSUME NEW d \in Entries
    PROVE  /\ d.code \in Nat /\ d.attempts \in Nat /\ d.timed \in BOOLEAN
           /\ d # Missing => d.code \in Codes /\ d.code # Typo
           /\ d = Missing => d.code = Typo /\ d.attempts = 0 /\ d.timed = FALSE
<1>1. CASE d = Missing
  BY <1>1 DEF Missing, Typo
<1>2. CASE d # Missing
  BY <1>2, BoundsAreNatural DEF Entries, Codes, Typo
<1> QED BY <1>1, <1>2

LEMMA NewEntry ==
    ASSUME NEW c \in Codes
    PROVE  LET e == [code |-> c, attempts |-> 0, timed |-> TRUE]
           IN  e \in Entries /\ e # Missing
BY BoundsAreNatural DEF Entries, Missing, Codes, Typo

LEMMA OneMoreEntry ==
    ASSUME KeyTyped, NEW k \in Keys, NEW d \in Entries, d # Missing
    PROVE  /\ OneMore(k, d) \in Entries /\ OneMore(k, d) # Missing
           /\ OneMore(k, d).code = d.code /\ OneMore(k, d).attempts = d.attempts + 1
           /\ OneMore(k, d).timed = key[k].timed
<1>1. key[k].timed \in BOOLEAN
  BY EntryFacts DEF KeyTyped
<1>2. d \in [code : Codes, attempts : Nat, timed : BOOLEAN]
  BY DEF Entries
<1>3. d.code # Typo /\ d.attempts \in Nat
  BY EntryFacts
<1>4. PICK n \in Nat, b \in BOOLEAN : n = d.attempts + 1 /\ b = key[k].timed
  BY <1>1, <1>3
<1>5. OneMore(k, d) = [d EXCEPT !.attempts = n, !.timed = b]
  BY <1>4 DEF OneMore
<1>6. /\ OneMore(k, d) \in [code : Codes, attempts : Nat, timed : BOOLEAN]
      /\ OneMore(k, d).code = d.code /\ OneMore(k, d).attempts = n /\ OneMore(k, d).timed = b
  BY <1>2, <1>5
<1> QED BY <1>3, <1>4, <1>6 DEF Entries, Missing

\* Nothing but the request r has moved.
OnlyRequest(r) == \A q \in Requests \ {r} : request'[q] = request[q]

LEMMA GotoEffect ==
    ASSUME RequestTyped, NEW r \in Requests, NEW next, Goto(r, next)
    PROVE  request'[r] = next /\ OnlyRequest(r) /\ DOMAIN request' = Requests
BY DEF RequestTyped, Goto, OnlyRequest

LEMMA StartEffect ==
    ASSUME RequestTyped, BoundTyped, NEW r \in Requests, NEW next, Start(r, next)
    PROVE  /\ At(r, "idle") /\ request'[r] = next /\ OnlyRequest(r) /\ DOMAIN request' = Requests
           /\ calls' = calls + 1 /\ calls' \in 0 .. MaxCalls /\ calls \in Nat
<1>1. Goto(r, next) /\ At(r, "idle") /\ calls < MaxCalls /\ calls' = calls + 1
  BY DEF Start
<1>2. calls \in Nat /\ calls' \in 0 .. MaxCalls
  BY <1>1, BoundsAreNatural DEF BoundTyped
<1> QED BY <1>1, <1>2, GotoEffect

\* A request that answers has what it answers with.
LEMMA AnswerRow ==
    ASSUME RequestTyped, NEW r \in Requests, request[r].step \in AnswerSteps
    PROVE  /\ request[r] \in AnswerRows /\ request[r].key \in Keys
           /\ request[r].data \in Entries /\ request[r].data # Missing
<1>1. request[r].step \notin {"idle", "create", "store", "send", "issue", "revoke", "open"}
  BY DEF AnswerSteps
<1>2. request[r] \in AnswerRows
  BY <1>1 DEF RequestTyped, RequestFits
<1> QED BY <1>2 DEF AnswerRows

\* A new code is stored under k.
LEMMA StoreEffect ==
    ASSUME KeyTyped, MailTyped, CountTyped, NEW k \in Keys, StoreCode(k), issued[k] + 1 \in Codes
    PROVE  /\ issued' \in [Keys -> Nat] /\ issued'[k] = issued[k] + 1
           /\ KeyTyped' /\ key'[k] = [code |-> issued[k] + 1, attempts |-> 0, timed |-> TRUE]
           /\ wrong' \in [Keys -> Nat] /\ wrong'[k] = 0
           /\ \A o \in Keys \ {k} : issued'[o] = issued[o] /\ key'[o] = key[o] /\ wrong'[o] = wrong[o]
<1> DEFINE e == [code |-> issued[k] + 1, attempts |-> 0, timed |-> TRUE]
<1>1. e \in Entries
  BY NewEntry
<1>2. key' = [key EXCEPT ![k] = e] /\ issued' = [issued EXCEPT ![k] = issued[k] + 1]
      /\ wrong' = [wrong EXCEPT ![k] = 0]
  BY DEF StoreCode
<1> HIDE DEF e
<1>3. KeyTyped' /\ key'[k] = e /\ \A o \in Keys \ {k} : key'[o] = key[o]
  BY <1>1, <1>2 DEF KeyTyped
<1>4. /\ issued' \in [Keys -> Nat] /\ issued'[k] = issued[k] + 1
      /\ \A o \in Keys \ {k} : issued'[o] = issued[o]
  BY <1>2 DEF MailTyped
<1>5. wrong' \in [Keys -> Nat] /\ wrong'[k] = 0 /\ \A o \in Keys \ {k} : wrong'[o] = wrong[o]
  BY <1>2 DEF CountTyped
<1> QED BY <1>3, <1>4, <1>5 DEF e

\* What is stored under the key of r becomes e.
LEMMA PutEffect ==
    ASSUME KeyTyped, CountTyped, RequestTyped, NEW r \in Requests, request[r].step \in AnswerSteps,
           NEW e \in Entries, Put(r, e)
    PROVE  LET k == request[r].key
           IN  /\ k \in Keys /\ KeyTyped' /\ key'[k] = e
               /\ late' \in [Keys -> Nat]
               /\ late'[k] = IF key[k] = request[r].data THEN late[k] ELSE late[k] + 1
               /\ \A o \in Keys \ {k} : key'[o] = key[o] /\ late'[o] = late[o]
               /\ UNCHANGED <<issued, mailed>>
<1>1. PICK k \in Keys : k = request[r].key
  BY AnswerRow
<1>2. PICK n \in Nat : n = IF key[k] = request[r].data THEN late[k] ELSE late[k] + 1
  BY DEF CountTyped
<1>3. key' = [key EXCEPT ![k] = e] /\ late' = [late EXCEPT ![k] = n] /\ UNCHANGED <<issued, mailed>>
  BY <1>1, <1>2 DEF Put
<1>4. KeyTyped' /\ key'[k] = e /\ \A o \in Keys \ {k} : key'[o] = key[o]
  BY <1>3 DEF KeyTyped
<1>5. late' \in [Keys -> Nat] /\ late'[k] = n /\ \A o \in Keys \ {k} : late'[o] = late[o]
  BY <1>3 DEF CountTyped
<1> QED BY <1>1, <1>2, <1>3, <1>4, <1>5

LEMMA MissingIsEntry == Missing \in Entries
BY DEF Entries

\* An answer is compared with what is stored.
LEMMA AnswerEffect ==
    ASSUME KeyTyped, RequestTyped, BoundTyped, NEW r \in Requests, NEW k \in Keys, NEW c, Answer(r, k, c)
    PROVE  /\ key[k] # Missing /\ At(r, "idle") /\ OnlyRequest(r) /\ DOMAIN request' = Requests
           /\ request'[r] \in AnswerRows
           /\ request'[r].step \in {"drop", "retry", "spend"}
           /\ request'[r].key = k /\ request'[r].data = key[k]
           /\ request'[r].step = "spend" => key[k].code = c /\ c \in mailed[k] \cup {Typo}
           /\ request'[r].step = "retry" /\ k = "verify" => key[k].attempts < MaxAttempts
           /\ calls' = calls + 1 /\ calls' \in 0 .. MaxCalls /\ calls \in Nat
<1>1. PICK step \in {"drop", "retry", "spend"} :
         /\ step = IF Exhausted(k, key[k]) THEN "drop" ELSE IF key[k].code = c THEN "spend" ELSE "retry"
         /\ Start(r, [step |-> step, key |-> k, data |-> key[k]])
  BY DEF Answer
<1>2. PICK next : next = [step |-> step, key |-> k, data |-> key[k]] /\ Start(r, next)
  BY <1>1
<1>3. /\ At(r, "idle") /\ request'[r] = next /\ OnlyRequest(r) /\ DOMAIN request' = Requests
      /\ calls' = calls + 1 /\ calls' \in 0 .. MaxCalls /\ calls \in Nat
  BY <1>2, StartEffect
<1>4. key[k] \in Entries /\ key[k] # Missing /\ c \in mailed[k] \cup {Typo}
  BY DEF KeyTyped, Answer
<1>5. next \in AnswerRows /\ next.step = step /\ next.key = k /\ next.data = key[k]
  BY <1>2, <1>4 DEF AnswerRows, AnswerSteps
<1>6. key[k].attempts \in Nat
  BY <1>4, EntryFacts
<1>8. step = "retry" => ~ Exhausted(k, key[k])
  BY <1>1
<1>9. step = "retry" /\ k = "verify" => key[k].attempts < MaxAttempts
  BY <1>6, <1>8, BoundsAreNatural DEF Exhausted
<1>7. step = "spend" => key[k].code = c
  BY <1>1
<1> QED BY <1>3, <1>4, <1>5, <1>7, <1>9

-----------------------------------------------------------------------------
(* What the actions do, field by field.                                    *)

\* r is the only request that moves.
Moved(r) == OnlyRequest(r) /\ DOMAIN request' = Requests

\* r starts with a call.
Started(r) == At(r, "idle") /\ Moved(r) /\ calls \in Nat /\ calls' = calls + 1 /\ calls' \in 0 .. MaxCalls

LEMMA RegisterEffect ==
    ASSUME Typed, NEW r \in Requests, Register(r)
    PROVE  /\ Started(r) /\ request'[r].step = "create" /\ ~ user.exists
           /\ UNCHANGED <<user, redis, codes, used, login, faults>>
<1>1. PICK next : next = [step |-> "create"] /\ Start(r, next)
  BY DEF Register
<1>2. Started(r) /\ request'[r] = next
  BY <1>1, StartEffect DEF Typed, Started, Moved
<1> QED BY <1>1, <1>2 DEF Register

LEMMA CreateUserEffect ==
    ASSUME Typed, NEW r \in Requests, CreateUser(r)
    PROVE  /\ At(r, "create") /\ Moved(r)
           /\ request'[r].step = IF user.exists THEN "idle" ELSE "store"
           /\ user' \in UserRows /\ user'.exists /\ user'.isVerified = user.isVerified
           /\ UNCHANGED <<redis, codes, used, login, calls, faults>>
<1>1. PICK next : next = (IF user.exists THEN Idle ELSE [step |-> "store"]) /\ Goto(r, next)
  BY DEF CreateUser
<1>2. Moved(r) /\ request'[r] = next
  BY <1>1, GotoEffect DEF Typed, Moved
<1>3. user \in UserRows /\ user' = [user EXCEPT !.exists = TRUE]
  BY DEF Typed, UserTyped, CreateUser
<1>4. user' \in UserRows /\ user'.exists /\ user'.isVerified = user.isVerified
  BY <1>3 DEF UserRows
<1> QED BY <1>1, <1>2, <1>4 DEF CreateUser, Idle

LEMMA StoreVerifyEffect ==
    ASSUME Typed, NEW r \in Requests, StoreVerifyCode(r)
    PROVE  /\ At(r, "store") /\ Moved(r) /\ request'[r].step = "send" /\ StoreCode("verify")
           /\ UNCHANGED <<user, mailed, late, over, used, login, calls, faults>>
<1>1. PICK next : next = [step |-> "send"] /\ Goto(r, next)
  BY DEF StoreVerifyCode
<1>2. Moved(r) /\ request'[r] = next
  BY <1>1, GotoEffect DEF Typed, Moved
<1> QED BY <1>1, <1>2 DEF StoreVerifyCode

LEMMA MailVerifyEffect ==
    ASSUME Typed, NEW r \in Requests, MailVerifyCode(r)
    PROVE  /\ At(r, "send") /\ Moved(r) /\ request'[r].step = "idle"
           /\ mailed' \in [Keys -> SUBSET Nat]
           /\ mailed'["verify"] = mailed["verify"] \cup {issued["verify"]}
           /\ mailed'["reset"] = mailed["reset"]
           /\ UNCHANGED <<user, key, issued, codes, used, login, calls, faults>>
<1>1. PICK next : next = Idle /\ Goto(r, next)
  BY DEF MailVerifyCode
<1>2. Moved(r) /\ request'[r] = next
  BY <1>1, GotoEffect DEF Typed, Moved
<1>3. mailed \in [Keys -> SUBSET Nat] /\ issued["verify"] \in Nat
  BY KeysAre DEF Typed, MailTyped
<1>4. mailed' = [mailed EXCEPT !["verify"] = mailed["verify"] \cup {issued["verify"]}]
  BY DEF MailVerifyCode
<1>5. /\ mailed' \in [Keys -> SUBSET Nat] /\ mailed'["reset"] = mailed["reset"]
      /\ mailed'["verify"] = mailed["verify"] \cup {issued["verify"]}
  BY <1>3, <1>4, KeysAre
<1> QED BY <1>1, <1>2, <1>5 DEF MailVerifyCode, Idle

LEMMA ForgotPasswordEffect ==
    ASSUME Typed, NEW r \in Requests, ForgotPassword(r)
    PROVE  /\ Started(r) /\ request'[r].step = "issue"
           /\ UNCHANGED <<user, redis, codes, used, login, faults>>
<1>1. PICK next : next = [step |-> "issue"] /\ Start(r, next)
  BY DEF ForgotPassword
<1>2. Started(r) /\ request'[r] = next
  BY <1>1, StartEffect DEF Typed, Started, Moved
<1> QED BY <1>1, <1>2 DEF ForgotPassword

LEMMA StoreResetEffect ==
    ASSUME Typed, NEW r \in Requests, StoreResetCode(r)
    PROVE  /\ At(r, "issue") /\ Moved(r) /\ request'[r].step = "idle" /\ StoreCode("reset")
           /\ mailed' \in [Keys -> SUBSET Nat]
           /\ mailed'["verify"] = mailed["verify"] /\ mailed["reset"] \subseteq mailed'["reset"]
           /\ mailed'["reset"] \subseteq mailed["reset"] \cup {issued["reset"] + 1}
           /\ faults' \in 0 .. MaxFaults /\ faults <= faults'
           /\ UNCHANGED <<user, late, over, used, login, calls>>
<1>1. PICK next : next = Idle /\ Goto(r, next)
  BY DEF StoreResetCode
<1>2. Moved(r) /\ request'[r] = next
  BY <1>1, GotoEffect DEF Typed, Moved
<1>3. mailed \in [Keys -> SUBSET Nat] /\ issued \in [Keys -> Nat] /\ issued["reset"] + 1 \in Nat
  BY KeysAre DEF Typed, MailTyped
<1>4. faults' \in 0 .. MaxFaults /\ faults <= faults'
  BY BoundsAreNatural DEF Typed, BoundTyped, StoreResetCode, Fault
<1>5. issued'["reset"] = issued["reset"] + 1
  BY <1>3, KeysAre DEF StoreResetCode, StoreCode
<1>6. \/ mailed' = [mailed EXCEPT !["reset"] = mailed["reset"] \cup {issued["reset"] + 1}]
      \/ mailed' = mailed
  BY <1>5 DEF StoreResetCode
<1>7. /\ mailed' \in [Keys -> SUBSET Nat]
      /\ mailed'["verify"] = mailed["verify"] /\ mailed["reset"] \subseteq mailed'["reset"]
      /\ mailed'["reset"] \subseteq mailed["reset"] \cup {issued["reset"] + 1}
  BY <1>3, <1>6, KeysAre
<1> QED BY <1>1, <1>2, <1>4, <1>7 DEF StoreResetCode, Idle

\* DropCode, CountAttempt and SpendCode: r replaces what is stored under its key k by e.
Replaces(r, k, e) ==
    /\ request[r] \in AnswerRows /\ k = request[r].key /\ k \in Keys
    /\ request[r].data \in Entries /\ request[r].data # Missing
    /\ e \in Entries /\ KeyTyped' /\ key'[k] = e
    /\ late' \in [Keys -> Nat]
    /\ late'[k] = IF key[k] = request[r].data THEN late[k] ELSE late[k] + 1
    /\ \A o \in Keys \ {k} : key'[o] = key[o] /\ late'[o] = late[o]
    /\ UNCHANGED <<issued, mailed>>

LEMMA PutReplaces ==
    ASSUME Typed, NEW r \in Requests, request[r].step \in AnswerSteps, NEW e \in Entries, Put(r, e)
    PROVE  Replaces(r, request[r].key, e)
BY PutEffect, AnswerRow DEF Typed, Replaces

LEMMA DropCodeEffect ==
    ASSUME Typed, NEW r \in Requests, DropCode(r)
    PROVE  /\ At(r, "drop") /\ Moved(r) /\ request'[r].step = "idle"
           /\ Replaces(r, request[r].key, Missing) /\ over' = TRUE
           /\ UNCHANGED <<user, wrong, used, login, calls, faults>>
<1>1. PICK next : next = Idle /\ Goto(r, next)
  BY DEF DropCode
<1>2. Moved(r) /\ request'[r] = next
  BY <1>1, GotoEffect DEF Typed, Moved
<1>3. Replaces(r, request[r].key, Missing)
  BY PutReplaces, MissingIsEntry DEF DropCode, At, AnswerSteps
<1> QED BY <1>1, <1>2, <1>3 DEF DropCode, Idle

LEMMA CountAttemptEffect ==
    ASSUME Typed, NEW r \in Requests, CountAttempt(r)
    PROVE  LET k == request[r].key
           IN  /\ At(r, "retry") /\ Moved(r) /\ request'[r].step = "idle"
               /\ Replaces(r, k, OneMore(k, request[r].data))
               /\ wrong' \in [Keys -> Nat] /\ wrong'[k] = wrong[k] + 1
               /\ \A o \in Keys \ {k} : wrong'[o] = wrong[o]
               /\ UNCHANGED <<user, over, used, login, calls, faults>>
<1>1. PICK next : next = Idle /\ Goto(r, next)
  BY DEF CountAttempt
<1>2. Moved(r) /\ request'[r] = next
  BY <1>1, GotoEffect DEF Typed, Moved
<1>3. At(r, "retry") /\ request[r].step \in AnswerSteps
  BY DEF CountAttempt, At, AnswerSteps
<1>4. PICK k \in Keys : k = request[r].key
  BY <1>3, AnswerRow DEF Typed
<1>5. request[r].data \in Entries /\ request[r].data # Missing
  BY <1>3, AnswerRow DEF Typed
<1>6. OneMore(k, request[r].data) \in Entries
  BY <1>5, OneMoreEntry DEF Typed
<1>7. Put(r, OneMore(k, request[r].data))
  BY <1>4 DEF CountAttempt
<1>8. Replaces(r, k, OneMore(k, request[r].data))
  BY <1>3, <1>4, <1>6, <1>7, PutReplaces
<1>9. wrong \in [Keys -> Nat] /\ wrong' = [wrong EXCEPT ![k] = wrong[k] + 1]
  BY <1>4 DEF Typed, CountTyped, CountAttempt
<1>10. /\ wrong' \in [Keys -> Nat] /\ wrong'[k] = wrong[k] + 1
       /\ \A o \in Keys \ {k} : wrong'[o] = wrong[o]
  BY <1>9
<1> QED BY <1>1, <1>2, <1>3, <1>4, <1>8, <1>10 DEF CountAttempt, Idle

LEMMA SpendCodeEffect ==
    ASSUME Typed, NEW r \in Requests, SpendCode(r)
    PROVE  /\ At(r, "spend") /\ Moved(r) /\ request'[r] \in AnswerRows
           /\ request'[r].step = "update"
           /\ request'[r].key = request[r].key /\ request'[r].data = request[r].data
           /\ Replaces(r, request[r].key, Missing)
           /\ UNCHANGED <<user, wrong, over, used, login, calls, faults>>
<1>1. PICK next : next = [request[r] EXCEPT !.step = "update"] /\ Goto(r, next)
  BY DEF SpendCode
<1>2. Moved(r) /\ request'[r] = next
  BY <1>1, GotoEffect DEF Typed, Moved
<1>3. Replaces(r, request[r].key, Missing)
  BY PutReplaces, MissingIsEntry DEF SpendCode, At, AnswerSteps
<1>4. request[r] \in AnswerRows
  BY <1>3 DEF Replaces
<1>5. next \in AnswerRows /\ next.step = "update" /\ next.key = request[r].key /\ next.data = request[r].data
  BY <1>1, <1>4 DEF AnswerRows, AnswerSteps
<1> QED BY <1>2, <1>3, <1>5 DEF SpendCode

LEMMA UpdateUserEffect ==
    ASSUME Typed, NEW r \in Requests, UpdateUser(r)
    PROVE  LET k == request[r].key
               c == request[r].data.code
           IN  /\ At(r, "update") /\ Moved(r) /\ request'[r].step = "idle"
               /\ k \in Keys /\ c \in Codes
               /\ user' \in UserRows /\ user'.exists = user.exists
               /\ k = "verify" => user'.isVerified
               /\ k = "reset" => user'.isVerified = user.isVerified
               /\ used' \in [Keys -> [Codes -> Nat]] /\ used'[k][c] = used[k][c] + 1
               /\ \A o \in Keys, d \in Codes : o # k \/ d # c => used'[o][d] = used[o][d]
               /\ UNCHANGED <<redis, codes, login, calls, faults>>
<1>1. PICK next : next = Idle /\ Goto(r, next)
  BY DEF UpdateUser
<1>2. Moved(r) /\ request'[r] = next
  BY <1>1, GotoEffect DEF Typed, Moved
<1>3. At(r, "update") /\ request[r].step \in AnswerSteps
  BY DEF UpdateUser, At, AnswerSteps
<1>4. PICK k \in Keys, c \in Codes : k = request[r].key /\ c = request[r].data.code
  BY <1>3, AnswerRow, EntryFacts DEF Typed
<1>5. user \in UserRows /\ user' = IF k = "verify" THEN [user EXCEPT !.isVerified = TRUE]
                                                   ELSE [user EXCEPT !.password = c]
  BY <1>4 DEF Typed, UserTyped, UpdateUser
<1>6. /\ user' \in UserRows /\ user'.exists = user.exists /\ (k = "verify" => user'.isVerified)
      /\ k = "reset" => user'.isVerified = user.isVerified
  BY <1>5 DEF UserRows
<1>7. used \in [Keys -> [Codes -> Nat]] /\ used' = [used EXCEPT ![k][c] = used[k][c] + 1]
  BY <1>4 DEF Typed, CountTyped, UpdateUser
<1>8. /\ used' \in [Keys -> [Codes -> Nat]] /\ used'[k][c] = used[k][c] + 1
      /\ \A o \in Keys, d \in Codes : o # k \/ d # c => used'[o][d] = used[o][d]
  BY <1>7
<1>9. UNCHANGED <<redis, codes, login, calls, faults>>
  BY DEF UpdateUser
<1>10. request'[r].step = "idle"
  BY <1>1, <1>2 DEF Idle
<1> QED BY <1>2, <1>3, <1>4, <1>6, <1>8, <1>9, <1>10

LEMMA LoginEffect ==
    ASSUME Typed, NEW r \in Requests, Login(r)
    PROVE  /\ Started(r) /\ request'[r].step = "open" /\ request'[r].session = sessions + 1
           /\ sessions \in Nat /\ sessions' = sessions + 1
           /\ UNCHANGED <<user, redis, codes, used, token, rivals, dropped, faults>>
<1>1. PICK next : next = [step |-> "open", session |-> sessions + 1] /\ Start(r, next)
  BY DEF Login
<1>2. Started(r) /\ request'[r] = next
  BY <1>1, StartEffect DEF Typed, Started, Moved
<1> QED BY <1>1, <1>2 DEF Login, Typed, SessionTyped

LEMMA RefreshEffect ==
    ASSUME Typed, NEW r \in Requests, NEW t \in Tokens, Refresh(r, t), sessions <= MaxCalls
    PROVE  LET s == token[t].session
           IN  /\ Started(r) /\ request'[r].step = "revoke" /\ request'[r].token = t
               /\ Live(t) /\ s \in 1 .. sessions /\ s \in 1 .. MaxCalls
               /\ rivals' \in [1 .. MaxCalls -> Nat]
               /\ rivals'[s] = IF Revoking(t) = {} THEN rivals[s] ELSE rivals[s] + 1
               /\ \A o \in 1 .. MaxCalls : o # s => rivals'[o] = rivals[o]
               /\ UNCHANGED <<user, redis, codes, used, token, sessions, dropped, faults>>
<1>1. PICK next : next = [step |-> "revoke", token |-> t] /\ Start(r, next)
  BY DEF Refresh
<1>2. Started(r) /\ request'[r] = next
  BY <1>1, StartEffect DEF Typed, Started, Moved
<1>3. Live(t) /\ token[t] \in TokenRows
  BY DEF Typed, TokenTyped, Refresh, Accepted, Live
<1>4. PICK s \in 1 .. sessions : s = token[t].session
  BY <1>3 DEF TokenRows
<1>5. s \in 1 .. MaxCalls
  BY <1>4, BoundsAreNatural DEF Typed, SessionTyped
<1>6. PICK n \in Nat : n = IF Revoking(t) = {} THEN rivals[s] ELSE rivals[s] + 1
  BY <1>5 DEF Typed, SessionTyped
<1>7. rivals \in [1 .. MaxCalls -> Nat] /\ rivals' = [rivals EXCEPT ![s] = n]
  BY <1>4, <1>6 DEF Typed, SessionTyped, Refresh
<1>8. /\ rivals' \in [1 .. MaxCalls -> Nat] /\ rivals'[s] = n
      /\ \A o \in 1 .. MaxCalls : o # s => rivals'[o] = rivals[o]
  BY <1>5, <1>7
<1>9. UNCHANGED <<user, redis, codes, used, token, sessions, dropped, faults>>
  BY DEF Refresh
<1> QED BY <1>1, <1>2, <1>3, <1>4, <1>5, <1>6, <1>8, <1>9

LEMMA RevokeEffect ==
    ASSUME Typed, NEW r \in Requests, Revoke(r)
    PROVE  LET t == request[r].token
           IN  /\ At(r, "revoke") /\ Moved(r) /\ request'[r].step = "open"
               /\ t \in Tokens /\ token[t] # Unused /\ token[t] \in TokenRows
               /\ request'[r].session = token[t].session
               /\ TokenTyped' /\ token'[t] # Unused /\ token'[t].isRevoked
               /\ token'[t].session = token[t].session
               /\ \A u \in Tokens \ {t} : token'[u] = token[u]
               /\ UNCHANGED <<user, redis, codes, used, sessions, rivals, dropped, calls, faults>>
<1>1. PICK t : t = request[r].token
  OBVIOUS
<1>2. At(r, "revoke") /\ t \in Tokens /\ token[t] # Unused
  BY <1>1 DEF Typed, RequestTyped, RequestFits, AnswerRows, AnswerSteps, Revoke, At
<1>3. token[t] \in TokenRows
  BY <1>2 DEF Typed, TokenTyped
<1>4. PICK next : next = [step |-> "open", session |-> token[t].session] /\ Goto(r, next)
  BY <1>1 DEF Revoke
<1>5. Moved(r) /\ request'[r] = next
  BY <1>4, GotoEffect DEF Typed, Moved
<1>6. PICK row : row = [token[t] EXCEPT !.isRevoked = TRUE]
  OBVIOUS
<1>7. row \in TokenRows /\ row.isRevoked /\ row.session = token[t].session
  BY <1>3, <1>6 DEF TokenRows
<1>8. row # Unused
  BY <1>7 DEF Unused
<1>9. token' = [token EXCEPT ![t] = row]
  BY <1>1, <1>6 DEF Revoke
<1>10. token'[t] = row /\ (\A u \in Tokens \ {t} : token'[u] = token[u])
       /\ token' \in [Tokens -> {Unused} \cup TokenRows]
  BY <1>2, <1>7, <1>9 DEF Typed, TokenTyped
<1>11. UNCHANGED <<user, redis, codes, used, sessions, rivals, dropped, calls, faults>>
  BY DEF Revoke
<1>12. TokenTyped'
  BY <1>10, <1>11 DEF TokenTyped, TokenRows
<1>13. request'[r].step = "open" /\ request'[r].session = token[t].session
  BY <1>4, <1>5
<1> QED BY <1>1, <1>2, <1>3, <1>5, <1>7, <1>8, <1>10, <1>11, <1>12, <1>13

LEMMA CreateTokenEffect ==
    ASSUME Typed, NEW r \in Requests, NEW t \in Tokens, CreateToken(r, t)
    PROVE  /\ At(r, "open") /\ Moved(r) /\ request'[r].step = "idle"
           /\ token[t] = Unused /\ request[r].session \in 1 .. sessions
           /\ TokenTyped' /\ token'[t] # Unused /\ ~ token'[t].isRevoked
           /\ token'[t].session = request[r].session
           /\ \A u \in Tokens \ {t} : token'[u] = token[u]
           /\ UNCHANGED <<user, redis, codes, used, sessions, rivals, dropped, calls, faults>>
<1>1. PICK s : s = request[r].session
  OBVIOUS
<1>2. At(r, "open") /\ s \in 1 .. sessions
  BY <1>1 DEF Typed, RequestTyped, RequestFits, AnswerRows, AnswerSteps, CreateToken, At
<1>3. PICK next : next = Idle /\ Goto(r, next)
  BY DEF CreateToken
<1>4. Moved(r) /\ request'[r] = next
  BY <1>3, GotoEffect DEF Typed, Moved
<1>5. PICK row : row = [session |-> s, isRevoked |-> FALSE, expired |-> FALSE]
  OBVIOUS
<1>6. row \in TokenRows /\ ~ row.isRevoked /\ row.session = s
  BY <1>2, <1>5 DEF TokenRows
<1>7. row # Unused
  BY <1>2, <1>6 DEF Unused
<1>8. token' = [token EXCEPT ![t] = row]
  BY <1>1, <1>5 DEF CreateToken
<1>9. token'[t] = row /\ (\A u \in Tokens \ {t} : token'[u] = token[u])
      /\ token' \in [Tokens -> {Unused} \cup TokenRows]
  BY <1>6, <1>8 DEF Typed, TokenTyped
<1>10. UNCHANGED <<user, redis, codes, used, sessions, rivals, dropped, calls, faults>>
  BY DEF CreateToken
<1>11. TokenTyped'
  BY <1>9, <1>10 DEF TokenTyped, TokenRows
<1>12. token[t] = Unused
  BY DEF CreateToken
<1> QED BY <1>1, <1>2, <1>3, <1>4, <1>6, <1>7, <1>9, <1>10, <1>11, <1>12 DEF Idle

LEMMA KeyExpiresEffect ==
    ASSUME Typed, NEW k \in Keys, KeyExpires(k)
    PROVE  /\ KeyTyped' /\ key'[k] = Missing /\ \A o \in Keys \ {k} : key'[o] = key[o]
           /\ over' \in BOOLEAN /\ (over \/ k = "verify" => over')
           /\ UNCHANGED <<user, issued, mailed, wrong, late, used, login, request, calls, faults>>
<1>1. key' = [key EXCEPT ![k] = Missing] /\ over' = (over \/ k = "verify")
  BY DEF KeyExpires
<1>2. KeyTyped' /\ key'[k] = Missing /\ \A o \in Keys \ {k} : key'[o] = key[o]
  BY <1>1, MissingIsEntry DEF Typed, KeyTyped
<1> QED BY <1>1, <1>2 DEF KeyExpires

LEMMA TokenExpiresEffect ==
    ASSUME Typed, NEW t \in Tokens, TokenExpires(t)
    PROVE  /\ TokenTyped' /\ token'[t] # Unused /\ Live(t) /\ Live(t)'
           /\ token'[t].session = token[t].session
           /\ \A u \in Tokens \ {t} : token'[u] = token[u]
           /\ UNCHANGED <<user, redis, codes, used, sessions, rivals, dropped, request, calls, faults>>
<1>1. Live(t) /\ token[t] \in TokenRows
  BY DEF Typed, TokenTyped, TokenExpires, Accepted, Live
<1>2. PICK row : row = [token[t] EXCEPT !.expired = TRUE]
  OBVIOUS
<1>3. row \in TokenRows /\ row.expired /\ row.session = token[t].session /\ row.isRevoked = token[t].isRevoked
  BY <1>1, <1>2 DEF TokenRows
<1>4. row # Unused
  BY <1>3 DEF Unused
<1>5. token' = [token EXCEPT ![t] = row]
  BY <1>2 DEF TokenExpires
<1>6. token'[t] = row /\ (\A u \in Tokens \ {t} : token'[u] = token[u])
      /\ token' \in [Tokens -> {Unused} \cup TokenRows]
  BY <1>3, <1>5 DEF Typed, TokenTyped
<1>7. UNCHANGED <<user, redis, codes, used, sessions, rivals, dropped, request, calls, faults>>
  BY DEF TokenExpires
<1>8. TokenTyped'
  BY <1>6, <1>7 DEF TokenTyped, TokenRows
<1>9. Live(t)'
  BY <1>1, <1>3, <1>4, <1>6 DEF Live
<1> QED BY <1>1, <1>3, <1>4, <1>6, <1>7, <1>8, <1>9

\* The requests of R end.
Ended(R) ==
    /\ DOMAIN request' = Requests
    /\ \A r \in R : request'[r].step = "idle"
    /\ \A r \in Requests \ R : request'[r] = request[r]

LEMMA FailEffect ==
    ASSUME Typed, CallsAreCounted, NEW R \in SUBSET Requests, Fail(R)
    PROVE  /\ R \subseteq Busy /\ IsFiniteSet(R) /\ Ended(R)
           /\ faults \in Nat /\ faults' = faults + 1 /\ faults' \in 0 .. MaxFaults
           /\ dropped' \in [1 .. MaxCalls -> Nat]
           /\ \A s \in 1 .. MaxCalls : dropped'[s] = dropped[s] + Cardinality(Opening(R, s))
           /\ UNCHANGED <<user, redis, codes, used, token, sessions, rivals, calls>>
<1>1. R \subseteq Busy
  BY DEF Fail, Busy
<1>2. IsFiniteSet(R)
  BY <1>1, FS_Subset DEF CallsAreCounted
<1>3. Ended(R)
  BY DEF Fail, Ended, Idle
<1>4. faults \in Nat /\ faults' = faults + 1 /\ faults' \in 0 .. MaxFaults
  BY BoundsAreNatural DEF Typed, BoundTyped, Fail, Fault
<1>5. ASSUME NEW s \in 1 .. MaxCalls
      PROVE  dropped[s] + Cardinality(Opening(R, s)) \in Nat
  <2>1. Opening(R, s) \subseteq R
    BY DEF Opening
  <2> QED BY <1>2, <2>1, FS_Subset, FS_CardinalityType DEF Typed, SessionTyped
<1>6. dropped' = [s \in 1 .. MaxCalls |-> dropped[s] + Cardinality(Opening(R, s))]
  BY DEF Fail
<1> QED BY <1>1, <1>2, <1>3, <1>4, <1>5, <1>6 DEF Fail

-----------------------------------------------------------------------------
(* Types are kept.                                                         *)

Basics == Typed /\ OneRegistration /\ CallsAreCounted /\ CodesAreIssued /\ AttemptsAreLimited

\* What the other requests carry still fits.
LEMMA OthersFit ==
    ASSUME Typed, NEW r \in Requests, Moved(r), RequestFits(r)',
           sessions' \in Nat, sessions <= sessions',
           \A t \in Tokens : token[t] # Unused => token'[t] # Unused
    PROVE  RequestTyped'
<1>1. ASSUME NEW q \in Requests, q # r
      PROVE  RequestFits(q)'
  <2>1. request'[q] = request[q] /\ RequestFits(q)
    BY <1>1 DEF Typed, RequestTyped, Moved, OnlyRequest
  <2>2. sessions \in Nat
    BY DEF Typed, SessionTyped
  <2>3. CASE request[q].step = "open" /\ request[q].session \in 1 .. sessions
    BY <2>1, <2>2, <2>3 DEF RequestFits
  <2> QED BY <2>1, <2>3 DEF RequestFits, AnswerRows
<1> QED BY <1>1 DEF RequestTyped, Moved

\* There is always a code left for a request that is about to store one.
LEMMA VerifyCodeIsLeft ==
    ASSUME Basics, NEW r \in Requests, At(r, "store")
    PROVE  issued["verify"] = 0 /\ issued["verify"] + 1 \in Codes
<1>1. issued["verify"] = 0
  BY DEF Basics, OneRegistration
<1>2. r \in Busy
  BY DEF Busy, At
<1>3. calls # 0
  BY <1>2 DEF Basics, CallsAreCounted
<1>4. calls \in 0 .. MaxCalls
  BY DEF Basics, Typed, BoundTyped
<1> QED BY <1>1, <1>3, <1>4, BoundsAreNatural DEF Codes

LEMMA ResetCodeIsLeft ==
    ASSUME Basics, NEW r \in Requests, At(r, "issue")
    PROVE  /\ issued["reset"] + 1 \in Codes
           /\ IsFiniteSet(Issuing) /\ r \in Issuing /\ Cardinality(Issuing) \in Nat
<1>1. r \in Issuing
  BY DEF Issuing
<1>2. Issuing \subseteq Busy
  BY DEF Issuing, Busy, At
<1>3. IsFiniteSet(Issuing) /\ Cardinality(Issuing) \in Nat
  BY <1>2, FS_Subset, FS_CardinalityType DEF Basics, CallsAreCounted
<1>4. Cardinality(Issuing) # 0
  BY <1>1, <1>3, FS_EmptySet
<1>5. issued["reset"] \in Nat /\ calls \in 0 .. MaxCalls
  BY KeysAre DEF Basics, Typed, MailTyped, BoundTyped
<1>6. issued["reset"] + Cardinality(Issuing) <= calls
  BY DEF Basics, CallsAreCounted
<1>7. issued["reset"] + 1 \in Codes
  BY <1>3, <1>4, <1>5, <1>6, BoundsAreNatural DEF Codes
<1> QED BY <1>1, <1>3, <1>7

\* Next with one action for the failures.
LEMMA NextCases ==
    ASSUME [Next]_vars
    PROVE  \/ UNCHANGED vars
           \/ \E r \in Requests :
                \/ Register(r) \/ CreateUser(r) \/ StoreVerifyCode(r) \/ MailVerifyCode(r)
                \/ ForgotPassword(r) \/ StoreResetCode(r)
                \/ \E k \in Keys, c \in Codes \cup {Typo} : Answer(r, k, c)
                \/ DropCode(r) \/ CountAttempt(r) \/ SpendCode(r) \/ UpdateUser(r)
                \/ Login(r) \/ Revoke(r)
                \/ \E t \in Tokens : Refresh(r, t) \/ CreateToken(r, t)
           \/ \E R \in SUBSET Requests : Fail(R)
           \/ \E k \in Keys : KeyExpires(k)
           \/ \E t \in Tokens : TokenExpires(t)
<1>1. ASSUME NEW r \in Requests, RequestFails(r)
      PROVE  \E R \in SUBSET Requests : Fail(R)
  BY <1>1 DEF RequestFails
<1>2. ASSUME Crash
      PROVE  \E R \in SUBSET Requests : Fail(R)
  BY <1>2 DEF Crash
<1> QED BY <1>1, <1>2 DEF Next

LEMMA SessionsFit ==
    ASSUME Basics
    PROVE  sessions \in Nat /\ sessions <= MaxCalls /\ calls \in Nat
BY BoundsAreNatural DEF Basics, Typed, SessionTyped, BoundTyped, CallsAreCounted

\* The types of everything but the requests.
DataTyped == UserTyped /\ KeyTyped /\ MailTyped /\ CountTyped /\ TokenTyped /\ SessionTyped /\ BoundTyped

\* What does not move keeps its type.
LEMMA StillTyped ==
    ASSUME DataTyped
    PROVE  /\ UNCHANGED user => UserTyped'
           /\ UNCHANGED key => KeyTyped'
           /\ UNCHANGED <<issued, mailed>> => MailTyped'
           /\ UNCHANGED <<wrong, late, over, used>> => CountTyped'
           /\ UNCHANGED <<token, sessions>> => TokenTyped'
           /\ UNCHANGED <<sessions, rivals, dropped>> => SessionTyped'
           /\ UNCHANGED <<calls, faults>> => BoundTyped'
BY DEF DataTyped, UserTyped, KeyTyped, MailTyped, CountTyped, TokenTyped, TokenRows,
       SessionTyped, BoundTyped, UserRows

LEMMA TypeKept ==
    ASSUME Basics, [Next]_vars
    PROVE  Typed'
<1>1. Typed /\ DataTyped /\ RequestTyped
  BY DEF Basics, Typed, DataTyped
<1> USE KeysAre, StillTyped
<1>2. ASSUME NEW r \in Requests, Register(r)
      PROVE  Typed'
  <2>1. UserTyped' /\ KeyTyped' /\ MailTyped' /\ CountTyped' /\ TokenTyped' /\ SessionTyped'
    BY <1>1, <1>2, RegisterEffect DEF redis, codes, login
  <2>2. BoundTyped'
    BY <1>1, <1>2, RegisterEffect DEF DataTyped, BoundTyped, redis, codes, login, Started
  <2>3. Moved(r) /\ RequestFits(r)'
    BY <1>1, <1>2, RegisterEffect DEF Started, Moved, RequestFits, AnswerSteps
  <2>4. sessions \in Nat /\ sessions' \in Nat /\ sessions <= sessions'
    BY <1>1, <1>2, RegisterEffect, SessionsFit DEF login
  <2>5. \A u \in Tokens : token[u] # Unused => token'[u] # Unused
    BY <1>1, <1>2, RegisterEffect DEF login
  <2> QED BY <1>1, <2>1, <2>2, <2>3, <2>4, <2>5, OthersFit DEF Typed
<1>3. ASSUME NEW r \in Requests, CreateUser(r)
      PROVE  Typed'
  <2>1. KeyTyped' /\ MailTyped' /\ CountTyped' /\ TokenTyped' /\ SessionTyped' /\ BoundTyped'
    BY <1>1, <1>3, CreateUserEffect DEF redis, codes, login
  <2>2. UserTyped'
    BY <1>1, <1>3, CreateUserEffect DEF DataTyped, UserTyped, redis, codes, login, Started
  <2>3. Moved(r) /\ RequestFits(r)'
    BY <1>1, <1>3, CreateUserEffect DEF Started, Moved, RequestFits, AnswerSteps
  <2>4. sessions \in Nat /\ sessions' \in Nat /\ sessions <= sessions'
    BY <1>1, <1>3, CreateUserEffect, SessionsFit DEF login
  <2>5. \A u \in Tokens : token[u] # Unused => token'[u] # Unused
    BY <1>1, <1>3, CreateUserEffect DEF login
  <2> QED BY <1>1, <2>1, <2>2, <2>3, <2>4, <2>5, OthersFit DEF Typed
<1>4. ASSUME NEW r \in Requests, StoreVerifyCode(r)
      PROVE  Typed'
  <2>1. UserTyped' /\ TokenTyped' /\ SessionTyped' /\ BoundTyped'
    BY <1>1, <1>4, StoreVerifyEffect, StoreEffect, VerifyCodeIsLeft DEF redis, codes, login
  <2>2. KeyTyped'
    BY <1>1, <1>4, StoreVerifyEffect, StoreEffect, VerifyCodeIsLeft DEF DataTyped, KeyTyped, redis, codes, login, Started
  <2>3. MailTyped'
    BY <1>1, <1>4, StoreVerifyEffect, StoreEffect, VerifyCodeIsLeft DEF DataTyped, MailTyped, redis, codes, login, Started
  <2>4. CountTyped'
    BY <1>1, <1>4, StoreVerifyEffect, StoreEffect, VerifyCodeIsLeft DEF DataTyped, CountTyped, redis, codes, login, Started
  <2>5. Moved(r) /\ RequestFits(r)'
    BY <1>1, <1>4, StoreVerifyEffect, StoreEffect, VerifyCodeIsLeft DEF Started, Moved, RequestFits, AnswerSteps
  <2>6. sessions \in Nat /\ sessions' \in Nat /\ sessions <= sessions'
    BY <1>1, <1>4, StoreVerifyEffect, StoreEffect, VerifyCodeIsLeft, SessionsFit DEF login
  <2>7. \A u \in Tokens : token[u] # Unused => token'[u] # Unused
    BY <1>1, <1>4, StoreVerifyEffect, StoreEffect, VerifyCodeIsLeft DEF login
  <2> QED BY <1>1, <2>1, <2>2, <2>3, <2>4, <2>5, <2>6, <2>7, OthersFit DEF Typed
<1>5. ASSUME NEW r \in Requests, MailVerifyCode(r)
      PROVE  Typed'
  <2>1. UserTyped' /\ KeyTyped' /\ CountTyped' /\ TokenTyped' /\ SessionTyped' /\ BoundTyped'
    BY <1>1, <1>5, MailVerifyEffect DEF redis, codes, login
  <2>2. MailTyped'
    <3>1. issued["verify"] = 1 /\ issued' = issued
      BY <1>1, <1>5, MailVerifyEffect DEF Basics, OneRegistration, redis
    <3>2. mailed'["verify"] = mailed["verify"] \cup {issued["verify"]} /\ mailed'["reset"] = mailed["reset"]
          /\ mailed' \in [Keys -> SUBSET Nat]
      BY <1>1, <1>5, MailVerifyEffect
    <3> QED BY <1>1, <3>1, <3>2, KeysAre DEF DataTyped, MailTyped
  <2>3. Moved(r) /\ RequestFits(r)'
    BY <1>1, <1>5, MailVerifyEffect DEF Started, Moved, RequestFits, AnswerSteps
  <2>4. sessions \in Nat /\ sessions' \in Nat /\ sessions <= sessions'
    BY <1>1, <1>5, MailVerifyEffect, SessionsFit DEF login
  <2>5. \A u \in Tokens : token[u] # Unused => token'[u] # Unused
    BY <1>1, <1>5, MailVerifyEffect DEF login
  <2> QED BY <1>1, <2>1, <2>2, <2>3, <2>4, <2>5, OthersFit DEF Typed
<1>6. ASSUME NEW r \in Requests, ForgotPassword(r)
      PROVE  Typed'
  <2>1. UserTyped' /\ KeyTyped' /\ MailTyped' /\ CountTyped' /\ TokenTyped' /\ SessionTyped'
    BY <1>1, <1>6, ForgotPasswordEffect DEF redis, codes, login
  <2>2. BoundTyped'
    BY <1>1, <1>6, ForgotPasswordEffect DEF DataTyped, BoundTyped, redis, codes, login, Started
  <2>3. Moved(r) /\ RequestFits(r)'
    BY <1>1, <1>6, ForgotPasswordEffect DEF Started, Moved, RequestFits, AnswerSteps
  <2>4. sessions \in Nat /\ sessions' \in Nat /\ sessions <= sessions'
    BY <1>1, <1>6, ForgotPasswordEffect, SessionsFit DEF login
  <2>5. \A u \in Tokens : token[u] # Unused => token'[u] # Unused
    BY <1>1, <1>6, ForgotPasswordEffect DEF login
  <2> QED BY <1>1, <2>1, <2>2, <2>3, <2>4, <2>5, OthersFit DEF Typed
<1>7. ASSUME NEW r \in Requests, StoreResetCode(r)
      PROVE  Typed'
  <2>1. UserTyped' /\ TokenTyped' /\ SessionTyped'
    BY <1>1, <1>7, StoreResetEffect, StoreEffect, ResetCodeIsLeft DEF redis, codes, login
  <2>2. KeyTyped'
    BY <1>1, <1>7, StoreResetEffect, StoreEffect, ResetCodeIsLeft DEF DataTyped, KeyTyped, redis, codes, login, Started
  <2>3. MailTyped'
    BY <1>1, <1>7, StoreResetEffect, StoreEffect, ResetCodeIsLeft DEF DataTyped, MailTyped, redis, codes, login, Started
  <2>4. CountTyped'
    BY <1>1, <1>7, StoreResetEffect, StoreEffect, ResetCodeIsLeft DEF DataTyped, CountTyped, redis, codes, login, Started
  <2>5. BoundTyped'
    BY <1>1, <1>7, StoreResetEffect, StoreEffect, ResetCodeIsLeft DEF DataTyped, BoundTyped, redis, codes, login, Started
  <2>6. Moved(r) /\ RequestFits(r)'
    BY <1>1, <1>7, StoreResetEffect, StoreEffect, ResetCodeIsLeft DEF Started, Moved, RequestFits, AnswerSteps
  <2>7. sessions \in Nat /\ sessions' \in Nat /\ sessions <= sessions'
    BY <1>1, <1>7, StoreResetEffect, StoreEffect, ResetCodeIsLeft, SessionsFit DEF login
  <2>8. \A u \in Tokens : token[u] # Unused => token'[u] # Unused
    BY <1>1, <1>7, StoreResetEffect, StoreEffect, ResetCodeIsLeft DEF login
  <2> QED BY <1>1, <2>1, <2>2, <2>3, <2>4, <2>5, <2>6, <2>7, <2>8, OthersFit DEF Typed
<1>8. ASSUME NEW r \in Requests, NEW k \in Keys, NEW c \in Codes \cup {Typo}, Answer(r, k, c)
      PROVE  Typed'
  <2>1. UserTyped' /\ KeyTyped' /\ MailTyped' /\ CountTyped' /\ TokenTyped' /\ SessionTyped'
    BY <1>1, <1>8, AnswerEffect DEF redis, codes, login, Answer, DataTyped
  <2>2. BoundTyped'
    BY <1>1, <1>8, AnswerEffect DEF DataTyped, BoundTyped, redis, codes, login, Started, Answer, DataTyped
  <2>3. Moved(r) /\ RequestFits(r)'
    BY <1>1, <1>8, AnswerEffect DEF Started, Moved, RequestFits, AnswerSteps, DataTyped
  <2>4. sessions \in Nat /\ sessions' \in Nat /\ sessions <= sessions'
    BY <1>1, <1>8, AnswerEffect, SessionsFit DEF login, Answer, DataTyped
  <2>5. \A u \in Tokens : token[u] # Unused => token'[u] # Unused
    BY <1>1, <1>8, AnswerEffect DEF login, Answer, DataTyped
  <2> QED BY <1>1, <2>1, <2>2, <2>3, <2>4, <2>5, OthersFit DEF Typed
<1>9. ASSUME NEW r \in Requests, DropCode(r)
      PROVE  Typed'
  <2>1. UserTyped' /\ MailTyped' /\ TokenTyped' /\ SessionTyped' /\ BoundTyped'
    BY <1>1, <1>9, DropCodeEffect DEF redis, codes, login, Replaces
  <2>2. KeyTyped'
    BY <1>1, <1>9, DropCodeEffect DEF DataTyped, KeyTyped, redis, codes, login, Started, Replaces
  <2>3. CountTyped'
    BY <1>1, <1>9, DropCodeEffect DEF DataTyped, CountTyped, redis, codes, login, Started, Replaces
  <2>4. Moved(r) /\ RequestFits(r)'
    BY <1>1, <1>9, DropCodeEffect DEF Started, Moved, RequestFits, AnswerSteps
  <2>5. sessions \in Nat /\ sessions' \in Nat /\ sessions <= sessions'
    BY <1>9, SessionsFit DEF DropCode, login
  <2>6. \A u \in Tokens : token[u] # Unused => token'[u] # Unused
    BY <1>1, <1>9, DropCodeEffect DEF login
  <2> QED BY <1>1, <2>1, <2>2, <2>3, <2>4, <2>5, <2>6, OthersFit DEF Typed
<1>10. ASSUME NEW r \in Requests, CountAttempt(r)
      PROVE  Typed'
  <2>1. UserTyped' /\ MailTyped' /\ TokenTyped' /\ SessionTyped' /\ BoundTyped'
    BY <1>1, <1>10, CountAttemptEffect DEF redis, codes, login, Replaces
  <2>2. KeyTyped'
    BY <1>1, <1>10, CountAttemptEffect DEF DataTyped, KeyTyped, redis, codes, login, Started, Replaces
  <2>3. CountTyped'
    BY <1>1, <1>10, CountAttemptEffect DEF DataTyped, CountTyped, redis, codes, login, Started, Replaces
  <2>4. Moved(r) /\ RequestFits(r)'
    BY <1>1, <1>10, CountAttemptEffect DEF Started, Moved, RequestFits, AnswerSteps
  <2>5. sessions \in Nat /\ sessions' \in Nat /\ sessions <= sessions'
    BY <1>1, <1>10, CountAttemptEffect, SessionsFit DEF login
  <2>6. \A u \in Tokens : token[u] # Unused => token'[u] # Unused
    BY <1>1, <1>10, CountAttemptEffect DEF login
  <2> QED BY <1>1, <2>1, <2>2, <2>3, <2>4, <2>5, <2>6, OthersFit DEF Typed
<1>11. ASSUME NEW r \in Requests, SpendCode(r)
      PROVE  Typed'
  <2>1. UserTyped' /\ MailTyped' /\ TokenTyped' /\ SessionTyped' /\ BoundTyped'
    BY <1>1, <1>11, SpendCodeEffect DEF redis, codes, login, Replaces
  <2>2. KeyTyped'
    BY <1>1, <1>11, SpendCodeEffect DEF DataTyped, KeyTyped, redis, codes, login, Started, Replaces
  <2>3. CountTyped'
    BY <1>1, <1>11, SpendCodeEffect DEF DataTyped, CountTyped, redis, codes, login, Started, Replaces
  <2>4. Moved(r) /\ RequestFits(r)'
    BY <1>1, <1>11, SpendCodeEffect DEF Started, Moved, RequestFits, AnswerSteps
  <2>5. sessions \in Nat /\ sessions' \in Nat /\ sessions <= sessions'
    BY <1>1, <1>11, SpendCodeEffect, SessionsFit DEF login
  <2>6. \A u \in Tokens : token[u] # Unused => token'[u] # Unused
    BY <1>1, <1>11, SpendCodeEffect DEF login
  <2> QED BY <1>1, <2>1, <2>2, <2>3, <2>4, <2>5, <2>6, OthersFit DEF Typed
<1>12. ASSUME NEW r \in Requests, UpdateUser(r)
      PROVE  Typed'
  <2>1. KeyTyped' /\ MailTyped' /\ TokenTyped' /\ SessionTyped' /\ BoundTyped'
    BY <1>1, <1>12, UpdateUserEffect DEF redis, codes, login
  <2>2. UserTyped'
    BY <1>1, <1>12, UpdateUserEffect DEF DataTyped, UserTyped, redis, codes, login, Started
  <2>3. CountTyped'
    BY <1>1, <1>12, UpdateUserEffect DEF DataTyped, CountTyped, redis, codes, login, Started
  <2>4. Moved(r) /\ RequestFits(r)'
    BY <1>1, <1>12, UpdateUserEffect DEF Started, Moved, RequestFits, AnswerSteps
  <2>5. sessions \in Nat /\ sessions' \in Nat /\ sessions <= sessions'
    BY <1>1, <1>12, UpdateUserEffect, SessionsFit DEF login
  <2>6. \A u \in Tokens : token[u] # Unused => token'[u] # Unused
    BY <1>1, <1>12, UpdateUserEffect DEF login
  <2> QED BY <1>1, <2>1, <2>2, <2>3, <2>4, <2>5, <2>6, OthersFit DEF Typed
<1>13. ASSUME NEW r \in Requests, Login(r)
      PROVE  Typed'
  <2>1. UserTyped' /\ KeyTyped' /\ MailTyped' /\ CountTyped'
    BY <1>1, <1>13, LoginEffect DEF redis, codes, login
  <2>2. TokenTyped'
    <3>1. sessions \in Nat /\ sessions' = sessions + 1 /\ token' = token
      BY <1>1, <1>13, LoginEffect DEF login
    <3>2. 1 .. sessions \subseteq 1 .. sessions'
      BY <3>1
    <3>3. TokenRows \subseteq TokenRows'
      BY <3>2 DEF TokenRows
    <3> QED BY <1>1, <3>1, <3>3 DEF DataTyped, TokenTyped
  <2>3. SessionTyped'
    BY <1>1, <1>13, LoginEffect DEF DataTyped, SessionTyped, redis, codes, login, Started
  <2>4. BoundTyped'
    BY <1>1, <1>13, LoginEffect DEF DataTyped, BoundTyped, redis, codes, login, Started
  <2>5. Moved(r) /\ RequestFits(r)'
    BY <1>1, <1>13, LoginEffect DEF Started, Moved, RequestFits, AnswerSteps, TokenRows
  <2>6. sessions \in Nat /\ sessions' \in Nat /\ sessions <= sessions'
    BY <1>1, <1>13, LoginEffect, SessionsFit DEF login
  <2>7. \A u \in Tokens : token[u] # Unused => token'[u] # Unused
    BY <1>1, <1>13, LoginEffect DEF login
  <2> QED BY <1>1, <2>1, <2>2, <2>3, <2>4, <2>5, <2>6, <2>7, OthersFit DEF Typed
<1>14. ASSUME NEW r \in Requests, NEW t \in Tokens, Refresh(r, t)
      PROVE  Typed'
  <2>1. UserTyped' /\ KeyTyped' /\ MailTyped' /\ CountTyped' /\ TokenTyped'
    BY <1>1, <1>14, RefreshEffect, SessionsFit DEF redis, codes, login
  <2>2. SessionTyped'
    BY <1>1, <1>14, RefreshEffect, SessionsFit DEF DataTyped, SessionTyped, redis, codes, login, Started
  <2>3. BoundTyped'
    BY <1>1, <1>14, RefreshEffect, SessionsFit DEF DataTyped, BoundTyped, redis, codes, login, Started
  <2>4. Moved(r) /\ RequestFits(r)'
    BY <1>1, <1>14, RefreshEffect, SessionsFit DEF Started, Moved, RequestFits, AnswerSteps, Live, login
  <2>5. sessions \in Nat /\ sessions' \in Nat /\ sessions <= sessions'
    BY <1>1, <1>14, RefreshEffect, SessionsFit DEF login
  <2>6. \A u \in Tokens : token[u] # Unused => token'[u] # Unused
    BY <1>1, <1>14, RefreshEffect, SessionsFit DEF login
  <2> QED BY <1>1, <2>1, <2>2, <2>3, <2>4, <2>5, <2>6, OthersFit DEF Typed
<1>15. ASSUME NEW r \in Requests, Revoke(r)
      PROVE  Typed'
  <2>1. UserTyped' /\ KeyTyped' /\ MailTyped' /\ CountTyped' /\ SessionTyped' /\ BoundTyped'
    BY <1>1, <1>15, RevokeEffect DEF redis, codes, login
  <2>2. TokenTyped'
    BY <1>1, <1>15, RevokeEffect DEF DataTyped, TokenTyped, redis, codes, login, Started
  <2>3. Moved(r) /\ RequestFits(r)'
    BY <1>1, <1>15, RevokeEffect DEF Started, Moved, RequestFits, AnswerSteps, TokenRows
  <2>4. sessions \in Nat /\ sessions' \in Nat /\ sessions <= sessions'
    BY <1>1, <1>15, RevokeEffect, SessionsFit DEF login
  <2>5. \A u \in Tokens : token[u] # Unused => token'[u] # Unused
    BY <1>1, <1>15, RevokeEffect DEF login
  <2> QED BY <1>1, <2>1, <2>2, <2>3, <2>4, <2>5, OthersFit DEF Typed
<1>16. ASSUME NEW r \in Requests, NEW t \in Tokens, CreateToken(r, t)
      PROVE  Typed'
  <2>1. UserTyped' /\ KeyTyped' /\ MailTyped' /\ CountTyped' /\ SessionTyped' /\ BoundTyped'
    BY <1>1, <1>16, CreateTokenEffect DEF redis, codes, login
  <2>2. TokenTyped'
    BY <1>1, <1>16, CreateTokenEffect DEF DataTyped, TokenTyped, redis, codes, login, Started
  <2>3. Moved(r) /\ RequestFits(r)'
    BY <1>1, <1>16, CreateTokenEffect DEF Started, Moved, RequestFits, AnswerSteps
  <2>4. sessions \in Nat /\ sessions' \in Nat /\ sessions <= sessions'
    BY <1>1, <1>16, CreateTokenEffect, SessionsFit DEF login
  <2>5. \A u \in Tokens : token[u] # Unused => token'[u] # Unused
    BY <1>1, <1>16, CreateTokenEffect DEF login
  <2> QED BY <1>1, <2>1, <2>2, <2>3, <2>4, <2>5, OthersFit DEF Typed
<1>17. ASSUME NEW R \in SUBSET Requests, Fail(R)
      PROVE  Typed'
  <2>1. UserTyped' /\ KeyTyped' /\ MailTyped' /\ CountTyped' /\ TokenTyped'
    BY <1>1, <1>17, FailEffect DEF Basics, redis, codes, login
  <2>2. SessionTyped' /\ BoundTyped'
    BY <1>1, <1>17, FailEffect DEF Basics, DataTyped, SessionTyped, BoundTyped
  <2>3. DOMAIN request' = Requests /\ UNCHANGED <<token, sessions>> /\ Ended(R)
    BY <1>1, <1>17, FailEffect DEF Basics, Ended
  <2>4. ASSUME NEW q \in Requests
        PROVE  RequestFits(q)'
    <3>1. CASE q \in R
      BY <2>3, <3>1 DEF Ended, RequestFits
    <3>2. CASE q \notin R
      <4>1. request'[q] = request[q] /\ RequestFits(q)
        BY <1>1, <2>3, <3>2 DEF Ended, RequestTyped
      <4> QED BY <2>3, <4>1 DEF RequestFits, AnswerRows
    <3> QED BY <3>1, <3>2
  <2> QED BY <2>1, <2>2, <2>3, <2>4 DEF Typed, RequestTyped
<1>18. ASSUME UNCHANGED <<token, sessions, request>>
      PROVE  RequestTyped'
  BY <1>1, <1>18 DEF RequestTyped, RequestFits, AnswerRows
<1>19. ASSUME NEW k \in Keys, KeyExpires(k)
      PROVE  Typed'
  <2>1. UserTyped' /\ MailTyped' /\ TokenTyped' /\ SessionTyped' /\ BoundTyped'
    BY <1>1, <1>19, KeyExpiresEffect DEF login
  <2>2. KeyTyped' /\ CountTyped' /\ UNCHANGED <<token, sessions, request>>
    BY <1>1, <1>19, KeyExpiresEffect DEF DataTyped, CountTyped, login
  <2> QED BY <1>18, <2>1, <2>2 DEF Typed
<1>20. ASSUME NEW t \in Tokens, TokenExpires(t)
      PROVE  Typed'
  <2>1. UserTyped' /\ KeyTyped' /\ MailTyped' /\ CountTyped' /\ SessionTyped' /\ BoundTyped'
    BY <1>1, <1>20, TokenExpiresEffect DEF redis, codes
  <2>2. TokenTyped' /\ UNCHANGED <<sessions, request>>
        /\ \A u \in Tokens : token[u] # Unused => token'[u] # Unused
    BY <1>1, <1>20, TokenExpiresEffect
  <2>3. ASSUME NEW q \in Requests
        PROVE  RequestFits(q)'
    BY <1>1, <2>2 DEF RequestTyped, RequestFits, AnswerRows
  <2> QED BY <1>1, <2>1, <2>2, <2>3 DEF Typed, RequestTyped
<1>21. CASE UNCHANGED vars
  BY <1>1, <1>18, <1>21 DEF vars, redis, codes, login, DataTyped, Typed
<1> QED BY <1>2, <1>3, <1>4, <1>5, <1>6, <1>7, <1>8, <1>9, <1>10, <1>11, <1>12, <1>13, <1>14, <1>15, <1>16, <1>17, <1>19, <1>20, <1>21, NextCases

-----------------------------------------------------------------------------
(* Which actions concern which requests and fields.                        *)

\* Nobody comes to register, and what registering has done so far stays.
SignUpStill ==
    /\ \A q \in Requests : request'[q].step \in {"store", "send"} => request'[q].step = request[q].step
    /\ user'.exists = user.exists
    /\ issued'["verify"] = issued["verify"] /\ mailed'["verify"] = mailed["verify"]

\* Nobody answers, and codes are only mailed.
CodeStill ==
    /\ \A q \in Requests : request'[q].step \in AnswerSteps => request'[q] = request[q]
    /\ UNCHANGED <<key, issued, wrong, late, used>>
    /\ \A k \in Keys : mailed[k] \subseteq mailed'[k]

\* Requests for tokens stay where they are.
LoginStill ==
    /\ \A q \in Requests : \/ request'[q] = request[q]
                           \/ request[q].step \notin {"revoke", "open"} /\ request'[q].step \notin {"revoke", "open"}
    /\ UNCHANGED <<token, sessions, rivals, dropped>>

\* No call starts, and no number is given away.
CountStill ==
    /\ \A q \in Requests : request'[q].step # "idle" => request[q].step # "idle"
    /\ \A q \in Requests : request'[q].step = "issue" => request[q].step = "issue"
    /\ UNCHANGED <<issued, sessions, calls>>

LEMMA Views ==
    ASSUME Basics, [Next]_vars
    PROVE  /\ SignUpStill \/ \E r \in Requests : CreateUser(r) \/ StoreVerifyCode(r) \/ MailVerifyCode(r)
           /\ \/ CodeStill
              \/ \E r \in Requests :
                    \/ StoreVerifyCode(r) \/ StoreResetCode(r)
                    \/ \E k \in Keys, c \in Codes \cup {Typo} : Answer(r, k, c)
                    \/ DropCode(r) \/ CountAttempt(r) \/ SpendCode(r) \/ UpdateUser(r)
              \/ \E k \in Keys : KeyExpires(k)
           /\ \/ LoginStill
              \/ \E r \in Requests : \/ Login(r) \/ Revoke(r)
                                     \/ \E t \in Tokens : Refresh(r, t) \/ CreateToken(r, t)
              \/ \E t \in Tokens : TokenExpires(t)
              \/ \E R \in SUBSET Requests : Fail(R)
           /\ \/ CountStill
              \/ \E r \in Requests :
                    \/ Register(r) \/ ForgotPassword(r) \/ StoreVerifyCode(r) \/ StoreResetCode(r)
                    \/ \E k \in Keys, c \in Codes \cup {Typo} : Answer(r, k, c)
                    \/ Login(r) \/ \E t \in Tokens : Refresh(r, t)
<1> USE KeysAre
<1>1. Typed /\ KeyTyped /\ RequestTyped /\ BoundTyped /\ sessions <= MaxCalls /\ CallsAreCounted
  BY SessionsFit DEF Basics, Typed
<1>2. ASSUME NEW r \in Requests, Register(r)
      PROVE  SignUpStill /\ CodeStill /\ LoginStill
  <2>1. SignUpStill
    BY <1>1, <1>2, RegisterEffect DEF SignUpStill, AnswerSteps, Started, Moved, OnlyRequest, At, redis, codes, login
  <2>2. CodeStill
    BY <1>1, <1>2, RegisterEffect DEF CodeStill, AnswerSteps, Started, Moved, OnlyRequest, At, redis, codes, login
  <2>3. LoginStill
    BY <1>1, <1>2, RegisterEffect DEF LoginStill, AnswerSteps, Started, Moved, OnlyRequest, At, redis, codes, login
  <2> QED BY <2>1, <2>2, <2>3
<1>3. ASSUME NEW r \in Requests, CreateUser(r)
      PROVE  CodeStill /\ LoginStill /\ CountStill
  <2>1. CodeStill
    BY <1>1, <1>3, CreateUserEffect DEF CodeStill, AnswerSteps, Started, Moved, OnlyRequest, At, redis, codes, login
  <2>2. LoginStill
    BY <1>1, <1>3, CreateUserEffect DEF LoginStill, AnswerSteps, Started, Moved, OnlyRequest, At, redis, codes, login
  <2>3. CountStill
    BY <1>1, <1>3, CreateUserEffect DEF CountStill, AnswerSteps, Started, Moved, OnlyRequest, At, redis, codes, login
  <2> QED BY <2>1, <2>2, <2>3
<1>4. ASSUME NEW r \in Requests, StoreVerifyCode(r)
      PROVE  LoginStill
  <2>1. LoginStill
    BY <1>1, <1>4, StoreVerifyEffect DEF LoginStill, AnswerSteps, Started, Moved, OnlyRequest, At, redis, codes, login
  <2> QED BY <2>1
<1>5. ASSUME NEW r \in Requests, MailVerifyCode(r)
      PROVE  CodeStill /\ LoginStill /\ CountStill
  <2>1. CodeStill
    BY <1>1, <1>5, MailVerifyEffect DEF CodeStill, AnswerSteps, Started, Moved, OnlyRequest, At, redis, codes, login
  <2>2. LoginStill
    BY <1>1, <1>5, MailVerifyEffect DEF LoginStill, AnswerSteps, Started, Moved, OnlyRequest, At, redis, codes, login
  <2>3. CountStill
    BY <1>1, <1>5, MailVerifyEffect DEF CountStill, AnswerSteps, Started, Moved, OnlyRequest, At, redis, codes, login
  <2> QED BY <2>1, <2>2, <2>3
<1>6. ASSUME NEW r \in Requests, ForgotPassword(r)
      PROVE  SignUpStill /\ CodeStill /\ LoginStill
  <2>1. SignUpStill
    BY <1>1, <1>6, ForgotPasswordEffect DEF SignUpStill, AnswerSteps, Started, Moved, OnlyRequest, At, redis, codes, login
  <2>2. CodeStill
    BY <1>1, <1>6, ForgotPasswordEffect DEF CodeStill, AnswerSteps, Started, Moved, OnlyRequest, At, redis, codes, login
  <2>3. LoginStill
    BY <1>1, <1>6, ForgotPasswordEffect DEF LoginStill, AnswerSteps, Started, Moved, OnlyRequest, At, redis, codes, login
  <2> QED BY <2>1, <2>2, <2>3
<1>7. ASSUME NEW r \in Requests, StoreResetCode(r)
      PROVE  SignUpStill /\ LoginStill
  <2>1. SignUpStill
    BY <1>1, <1>7, StoreResetEffect DEF SignUpStill, AnswerSteps, Started, Moved, OnlyRequest, At, redis, codes, login, StoreCode, Typed, MailTyped
  <2>2. LoginStill
    BY <1>1, <1>7, StoreResetEffect DEF LoginStill, AnswerSteps, Started, Moved, OnlyRequest, At, redis, codes, login, StoreCode, Typed, MailTyped
  <2> QED BY <2>1, <2>2
<1>8. ASSUME NEW r \in Requests, NEW k \in Keys, NEW c \in Codes \cup {Typo}, Answer(r, k, c)
      PROVE  SignUpStill /\ LoginStill
  <2>1. SignUpStill
    BY <1>1, <1>8, AnswerEffect DEF SignUpStill, AnswerSteps, Started, Moved, OnlyRequest, At, redis, codes, login, Answer
  <2>2. LoginStill
    BY <1>1, <1>8, AnswerEffect DEF LoginStill, AnswerSteps, Started, Moved, OnlyRequest, At, redis, codes, login, Answer
  <2> QED BY <2>1, <2>2
<1>9. ASSUME NEW r \in Requests, DropCode(r)
      PROVE  SignUpStill /\ LoginStill /\ CountStill
  <2>1. SignUpStill
    BY <1>1, <1>9, DropCodeEffect DEF SignUpStill, AnswerSteps, Started, Moved, OnlyRequest, At, redis, codes, login, Replaces
  <2>2. LoginStill
    BY <1>1, <1>9, DropCodeEffect DEF LoginStill, AnswerSteps, Started, Moved, OnlyRequest, At, redis, codes, login, Replaces
  <2>3. CountStill
    BY <1>1, <1>9, DropCodeEffect DEF CountStill, AnswerSteps, Started, Moved, OnlyRequest, At, redis, codes, login, Replaces
  <2> QED BY <2>1, <2>2, <2>3
<1>10. ASSUME NEW r \in Requests, CountAttempt(r)
      PROVE  SignUpStill /\ LoginStill /\ CountStill
  <2>1. SignUpStill
    BY <1>1, <1>10, CountAttemptEffect DEF SignUpStill, AnswerSteps, Started, Moved, OnlyRequest, At, redis, codes, login, Replaces
  <2>2. LoginStill
    BY <1>1, <1>10, CountAttemptEffect DEF LoginStill, AnswerSteps, Started, Moved, OnlyRequest, At, redis, codes, login, Replaces
  <2>3. CountStill
    BY <1>1, <1>10, CountAttemptEffect DEF CountStill, AnswerSteps, Started, Moved, OnlyRequest, At, redis, codes, login, Replaces
  <2> QED BY <2>1, <2>2, <2>3
<1>11. ASSUME NEW r \in Requests, SpendCode(r)
      PROVE  SignUpStill /\ LoginStill /\ CountStill
  <2>1. SignUpStill
    BY <1>1, <1>11, SpendCodeEffect DEF SignUpStill, AnswerSteps, Started, Moved, OnlyRequest, At, redis, codes, login, Replaces
  <2>2. LoginStill
    BY <1>1, <1>11, SpendCodeEffect DEF LoginStill, AnswerSteps, Started, Moved, OnlyRequest, At, redis, codes, login, Replaces
  <2>3. CountStill
    BY <1>1, <1>11, SpendCodeEffect DEF CountStill, AnswerSteps, Started, Moved, OnlyRequest, At, redis, codes, login, Replaces
  <2> QED BY <2>1, <2>2, <2>3
<1>12. ASSUME NEW r \in Requests, UpdateUser(r)
      PROVE  SignUpStill /\ LoginStill /\ CountStill
  <2>1. SignUpStill
    BY <1>1, <1>12, UpdateUserEffect DEF SignUpStill, AnswerSteps, Started, Moved, OnlyRequest, At, redis, codes, login
  <2>2. LoginStill
    BY <1>1, <1>12, UpdateUserEffect DEF LoginStill, AnswerSteps, Started, Moved, OnlyRequest, At, redis, codes, login
  <2>3. CountStill
    BY <1>1, <1>12, UpdateUserEffect DEF CountStill, AnswerSteps, Started, Moved, OnlyRequest, At, redis, codes, login
  <2> QED BY <2>1, <2>2, <2>3
<1>13. ASSUME NEW r \in Requests, Login(r)
      PROVE  SignUpStill /\ CodeStill
  <2>1. SignUpStill
    BY <1>1, <1>13, LoginEffect DEF SignUpStill, AnswerSteps, Started, Moved, OnlyRequest, At, redis, codes, login
  <2>2. CodeStill
    BY <1>1, <1>13, LoginEffect DEF CodeStill, AnswerSteps, Started, Moved, OnlyRequest, At, redis, codes, login
  <2> QED BY <2>1, <2>2
<1>14. ASSUME NEW r \in Requests, NEW t \in Tokens, Refresh(r, t)
      PROVE  SignUpStill /\ CodeStill
  <2>1. SignUpStill
    BY <1>1, <1>14, RefreshEffect DEF SignUpStill, AnswerSteps, Started, Moved, OnlyRequest, At, redis, codes, login
  <2>2. CodeStill
    BY <1>1, <1>14, RefreshEffect DEF CodeStill, AnswerSteps, Started, Moved, OnlyRequest, At, redis, codes, login
  <2> QED BY <2>1, <2>2
<1>15. ASSUME NEW r \in Requests, Revoke(r)
      PROVE  SignUpStill /\ CodeStill /\ CountStill
  <2>1. SignUpStill
    BY <1>1, <1>15, RevokeEffect DEF SignUpStill, AnswerSteps, Started, Moved, OnlyRequest, At, redis, codes, login
  <2>2. CodeStill
    BY <1>1, <1>15, RevokeEffect DEF CodeStill, AnswerSteps, Started, Moved, OnlyRequest, At, redis, codes, login
  <2>3. CountStill
    BY <1>1, <1>15, RevokeEffect DEF CountStill, AnswerSteps, Started, Moved, OnlyRequest, At, redis, codes, login
  <2> QED BY <2>1, <2>2, <2>3
<1>16. ASSUME NEW r \in Requests, NEW t \in Tokens, CreateToken(r, t)
      PROVE  SignUpStill /\ CodeStill /\ CountStill
  <2>1. SignUpStill
    BY <1>1, <1>16, CreateTokenEffect DEF SignUpStill, AnswerSteps, Started, Moved, OnlyRequest, At, redis, codes, login
  <2>2. CodeStill
    BY <1>1, <1>16, CreateTokenEffect DEF CodeStill, AnswerSteps, Started, Moved, OnlyRequest, At, redis, codes, login
  <2>3. CountStill
    BY <1>1, <1>16, CreateTokenEffect DEF CountStill, AnswerSteps, Started, Moved, OnlyRequest, At, redis, codes, login
  <2> QED BY <2>1, <2>2, <2>3
<1>17. ASSUME NEW R \in SUBSET Requests, Fail(R)
      PROVE  SignUpStill /\ CodeStill /\ CountStill
  <2>1. SignUpStill
    BY <1>1, <1>17, FailEffect DEF SignUpStill, AnswerSteps, Started, Moved, OnlyRequest, At, redis, codes, login, Ended
  <2>2. CodeStill
    BY <1>1, <1>17, FailEffect DEF CodeStill, AnswerSteps, Started, Moved, OnlyRequest, At, redis, codes, login, Ended
  <2>3. CountStill
    BY <1>1, <1>17, FailEffect DEF CountStill, AnswerSteps, Started, Moved, OnlyRequest, At, redis, codes, login, Ended
  <2> QED BY <2>1, <2>2, <2>3
<1>18. ASSUME NEW k \in Keys, KeyExpires(k)
      PROVE  SignUpStill /\ LoginStill /\ CountStill
  <2>1. SignUpStill
    BY <1>1, <1>18, KeyExpiresEffect DEF SignUpStill, AnswerSteps, Started, Moved, OnlyRequest, At, redis, codes, login
  <2>2. LoginStill
    BY <1>1, <1>18, KeyExpiresEffect DEF LoginStill, AnswerSteps, Started, Moved, OnlyRequest, At, redis, codes, login
  <2>3. CountStill
    BY <1>1, <1>18, KeyExpiresEffect DEF CountStill, AnswerSteps, Started, Moved, OnlyRequest, At, redis, codes, login
  <2> QED BY <2>1, <2>2, <2>3
<1>19. ASSUME NEW t \in Tokens, TokenExpires(t)
      PROVE  SignUpStill /\ CodeStill /\ CountStill
  <2>1. SignUpStill
    BY <1>1, <1>19, TokenExpiresEffect DEF SignUpStill, AnswerSteps, Started, Moved, OnlyRequest, At, redis, codes, login
  <2>2. CodeStill
    BY <1>1, <1>19, TokenExpiresEffect DEF CodeStill, AnswerSteps, Started, Moved, OnlyRequest, At, redis, codes, login
  <2>3. CountStill
    BY <1>1, <1>19, TokenExpiresEffect DEF CountStill, AnswerSteps, Started, Moved, OnlyRequest, At, redis, codes, login
  <2> QED BY <2>1, <2>2, <2>3
<1>20. CASE UNCHANGED vars
  BY <1>20 DEF vars, redis, codes, login, SignUpStill, CodeStill, LoginStill, CountStill
<1> QED BY <1>2, <1>3, <1>4, <1>5, <1>6, <1>7, <1>8, <1>9, <1>10, <1>11, <1>12, <1>13, <1>14, <1>15, <1>16, <1>17, <1>18, <1>19, <1>20, NextCases

-----------------------------------------------------------------------------
(* Registration, numbers, codes and attempts.                              *)

LEMMA OneRegistrationKept ==
    ASSUME Basics, [Next]_vars
    PROVE  OneRegistration'
<1> USE KeysAre
<1>1. Typed /\ OneRegistration
  BY DEF Basics
<1>2. CASE SignUpStill
  BY <1>1, <1>2 DEF SignUpStill, OneRegistration, Registering, At
<1>3. ASSUME NEW r \in Requests, CreateUser(r)
      PROVE  OneRegistration'
  <2>1. /\ At(r, "create") /\ Moved(r) /\ user'.exists
        /\ request'[r].step = IF user.exists THEN "idle" ELSE "store"
        /\ issued' = issued /\ mailed' = mailed
    BY <1>1, <1>3, CreateUserEffect DEF redis
  <2>2. CASE user.exists
    BY <1>1, <2>1, <2>2 DEF Moved, OnlyRequest, OneRegistration, Registering, At
  <2>3. CASE ~ user.exists
    <3>1. Registering = {} /\ issued["verify"] = 0
      BY <1>1, <2>3 DEF OneRegistration
    <3>2. \A q \in Requests : q # r => request'[q].step \notin {"store", "send"}
      BY <2>1, <3>1 DEF Moved, OnlyRequest, Registering, At
    <3> QED BY <1>1, <2>1, <2>3, <3>1, <3>2 DEF OneRegistration, Registering, At
  <2> QED BY <2>2, <2>3
<1>4. ASSUME NEW r \in Requests, StoreVerifyCode(r)
      PROVE  OneRegistration'
  <2>1. At(r, "store") /\ Moved(r) /\ request'[r].step = "send" /\ user' = user /\ mailed' = mailed
    BY <1>1, <1>4, StoreVerifyEffect
  <2>2. issued'["verify"] = issued["verify"] + 1 /\ issued["verify"] = 0 /\ user.exists
    BY <1>1, <1>4 DEF StoreVerifyCode, StoreCode, Typed, MailTyped, OneRegistration
  <2>3. mailed["verify"] = {}
    BY <1>1, <2>2 DEF Typed, MailTyped
  <2>4. \A q \in Requests : q # r => request'[q].step \notin {"store", "send"}
    BY <1>1, <2>1 DEF Moved, OnlyRequest, OneRegistration, Registering, At
  <2> QED BY <2>1, <2>2, <2>3, <2>4 DEF OneRegistration, Registering, At
<1>5. ASSUME NEW r \in Requests, MailVerifyCode(r)
      PROVE  OneRegistration'
  <2>1. At(r, "send") /\ Moved(r) /\ request'[r].step = "idle" /\ user' = user /\ issued' = issued
    BY <1>1, <1>5, MailVerifyEffect DEF redis
  <2>2. \A q \in Requests : request'[q].step \notin {"store", "send"}
    BY <1>1, <2>1 DEF Moved, OnlyRequest, OneRegistration, Registering, At
  <2>3. user.exists
    BY <1>1, <2>1 DEF OneRegistration, Registering
  <2> QED BY <1>1, <2>1, <2>2, <2>3 DEF OneRegistration, Registering, At
<1> QED BY <1>2, <1>3, <1>4, <1>5, Views

LEMMA CallsAreCountedKept ==
    ASSUME Basics, [Next]_vars
    PROVE  CallsAreCounted'
<1> USE KeysAre
<1>1. Typed /\ CallsAreCounted /\ KeyTyped /\ MailTyped /\ CountTyped /\ RequestTyped /\ BoundTyped
  BY DEF Basics, Typed
<1>2. calls \in Nat /\ sessions \in Nat /\ issued \in [Keys -> Nat] /\ sessions <= MaxCalls
  BY <1>1, SessionsFit DEF MailTyped
<1>3. IsFiniteSet(Busy) /\ Issuing \subseteq Busy
  BY <1>1 DEF CallsAreCounted, Busy, Issuing, At
<1>4. IsFiniteSet(Issuing) /\ Cardinality(Issuing) \in Nat
  BY <1>3, FS_Subset, FS_CardinalityType
<1>5. CASE CountStill
  <2>1. Busy' \subseteq Busy /\ Issuing' \subseteq Issuing
    BY <1>5 DEF CountStill, Busy, Issuing, At
  <2>2. IsFiniteSet(Busy') /\ Cardinality(Issuing') <= Cardinality(Issuing) /\ Cardinality(Issuing') \in Nat
    BY <1>3, <1>4, <2>1, FS_Subset, FS_CardinalityType
  <2>3. issued' = issued /\ sessions' = sessions /\ calls' = calls
    BY <1>5 DEF CountStill
  <2> QED BY <1>1, <1>2, <1>4, <2>1, <2>2, <2>3 DEF CallsAreCounted
<1>6. ASSUME NEW r \in Requests, Started(r), issued' = issued, sessions' \in {sessions, sessions + 1}
      PROVE  CallsAreCounted'
  <2>1. calls' = calls + 1 /\ Busy' \subseteq Busy \cup {r} /\ Issuing' \subseteq Issuing \cup {r}
    BY <1>6 DEF Started, Moved, OnlyRequest, Busy, Issuing, At
  <2>2. r \notin Issuing
    BY <1>6 DEF Started, At, Issuing
  <2>3. IsFiniteSet(Busy \cup {r}) /\ IsFiniteSet(Issuing \cup {r})
    BY <1>3, <1>4, FS_AddElement
  <2>4. Cardinality(Issuing \cup {r}) = Cardinality(Issuing) + 1
    BY <1>4, <2>2, FS_AddElement
  <2>5. /\ IsFiniteSet(Busy') /\ Cardinality(Issuing') <= Cardinality(Issuing) + 1
        /\ Cardinality(Issuing') \in Nat
    BY <2>1, <2>3, <2>4, FS_Subset, FS_CardinalityType
  <2>6. issued["reset"] \in Nat
    BY <1>2
  <2> QED BY <1>1, <1>2, <1>4, <1>6, <2>1, <2>5, <2>6 DEF CallsAreCounted
<1>7. ASSUME NEW r \in Requests, StoreVerifyCode(r)
      PROVE  CallsAreCounted'
  <2>1. At(r, "store") /\ Moved(r) /\ request'[r].step = "send" /\ sessions' = sessions /\ calls' = calls
    BY <1>1, <1>7, StoreVerifyEffect DEF login
  <2>2. issued'["reset"] = issued["reset"]
    BY <1>1, <1>7 DEF StoreVerifyCode, StoreCode, MailTyped
  <2>3. Busy' = Busy /\ r \in Busy /\ Issuing' = Issuing
    BY <2>1 DEF Moved, OnlyRequest, Busy, Issuing, At
  <2> QED BY <1>1, <2>1, <2>2, <2>3 DEF CallsAreCounted
<1>8. ASSUME NEW r \in Requests, StoreResetCode(r)
      PROVE  CallsAreCounted'
  <2>1. At(r, "issue") /\ Moved(r) /\ request'[r].step = "idle" /\ sessions' = sessions /\ calls' = calls
    BY <1>1, <1>8, StoreResetEffect DEF login
  <2>2. issued'["reset"] = issued["reset"] + 1 /\ issued'["verify"] = issued["verify"]
    BY <1>1, <1>8 DEF StoreResetCode, StoreCode, MailTyped
  <2>3. Busy' \subseteq Busy /\ r \in Busy /\ Issuing' = Issuing \ {r} /\ r \in Issuing
    BY <2>1 DEF Moved, OnlyRequest, Busy, Issuing, At
  <2>4. IsFiniteSet(Busy') /\ Cardinality(Issuing') = Cardinality(Issuing) - 1
    BY <1>3, <1>4, <2>3, FS_Subset, FS_RemoveElement
  <2> QED BY <1>1, <1>2, <1>4, <2>1, <2>2, <2>3, <2>4 DEF CallsAreCounted
<1>9. ASSUME NEW r \in Requests, NEW k \in Keys, NEW c \in Codes \cup {Typo}, Answer(r, k, c)
      PROVE  CallsAreCounted'
  <2>1. Started(r)
    BY <1>1, <1>9, AnswerEffect DEF Started, Moved
  <2> QED BY <1>6, <1>9, <2>1 DEF Answer, redis, login
<1>10. ASSUME NEW r \in Requests,
              Register(r) \/ ForgotPassword(r) \/ Login(r) \/ \E t \in Tokens : Refresh(r, t)
       PROVE  CallsAreCounted'
  <2>1. Started(r)
    BY <1>1, <1>2, <1>10, RegisterEffect, ForgotPasswordEffect, LoginEffect, RefreshEffect
  <2>2. issued' = issued /\ sessions' \in {sessions, sessions + 1}
    BY <1>10 DEF Register, ForgotPassword, Login, Refresh, redis, login
  <2> QED BY <1>6, <2>1, <2>2
<1> QED BY <1>5, <1>7, <1>8, <1>9, <1>10, Views

\* What is known of a code, of a request or of a use stays true when numbers and mails only grow.
LEMMA CodesAreIssuedKept ==
    ASSUME Basics, [Next]_vars
    PROVE  CodesAreIssued'
<1> USE KeysAre
<1>1. /\ Typed /\ CodesAreIssued /\ KeyTyped /\ MailTyped /\ CountTyped /\ RequestTyped /\ BoundTyped
      /\ issued \in [Keys -> Nat] /\ used \in [Keys -> [Codes -> Nat]]
  BY DEF Basics, Typed, MailTyped, CountTyped
<1>2. CASE CodeStill
  <2>1. /\ UNCHANGED <<key, issued, used>>
        /\ \A q \in Requests : request'[q].step \in AnswerSteps => request'[q] = request[q]
        /\ \A k \in Keys : mailed[k] \subseteq mailed'[k]
    BY <1>2 DEF CodeStill
  <2>2. ASSUME NEW q \in Requests, request'[q].step \in AnswerSteps
        PROVE  /\ request'[q].data.code <= issued'[request'[q].key]
               /\ request'[q].step \in {"spend", "update"} =>
                    request'[q].data.code \in mailed'[request'[q].key]
    <3>1. request'[q] = request[q] /\ request[q].step \in AnswerSteps
      BY <2>1, <2>2
    <3>2. request[q].key \in Keys
      BY <1>1, <3>1, AnswerRow
    <3> QED BY <1>1, <2>1, <3>1, <3>2 DEF CodesAreIssued
  <2> QED BY <1>1, <2>1, <2>2 DEF CodesAreIssued
<1>3. ASSUME NEW k \in Keys, NEW r \in Requests, StoreCode(k), Moved(r),
             request'[r].step \notin AnswerSteps, issued[k] + 1 \in Codes, used' = used,
             \A o \in Keys : mailed[o] \subseteq mailed'[o]
      PROVE  CodesAreIssued'
  <2>1. /\ issued' \in [Keys -> Nat] /\ issued'[k] = issued[k] + 1 /\ key'[k].code = issued'[k]
        /\ \A o \in Keys \ {k} : issued'[o] = issued[o] /\ key'[o] = key[o]
    BY <1>1, <1>3, StoreEffect
  <2>2. \A o \in Keys : issued[o] <= issued'[o] /\ issued[o] \in Nat /\ issued'[o] \in Nat
    BY <1>1, <2>1
  <2>3. \A o \in Keys : key'[o].code <= issued'[o]
    BY <1>1, <2>1, <2>2 DEF CodesAreIssued
  <2>4. \A o \in Keys, c \in Codes : used'[o][c] > 0 => c <= issued'[o]
    BY <1>1, <1>3, <2>2, BoundsAreNatural DEF CodesAreIssued, Codes
  <2>5. ASSUME NEW q \in Requests, request'[q].step \in AnswerSteps
        PROVE  /\ request'[q].data.code <= issued'[request'[q].key]
               /\ request'[q].step \in {"spend", "update"} =>
                    request'[q].data.code \in mailed'[request'[q].key]
    <3>1. q # r /\ request'[q] = request[q]
      BY <1>3, <2>5 DEF Moved, OnlyRequest
    <3>2. request[q].key \in Keys /\ request[q].data.code \in Nat
      BY <1>1, <2>5, <3>1, AnswerRow, EntryFacts
    <3> QED BY <1>1, <1>3, <2>2, <2>5, <3>1, <3>2 DEF CodesAreIssued
  <2> QED BY <2>3, <2>4, <2>5 DEF CodesAreIssued
<1>4. ASSUME NEW r \in Requests, StoreVerifyCode(r)
      PROVE  CodesAreIssued'
  BY <1>1, <1>3, <1>4, StoreVerifyEffect, VerifyCodeIsLeft DEF AnswerSteps
<1>5. ASSUME NEW r \in Requests, StoreResetCode(r)
      PROVE  CodesAreIssued'
  BY <1>1, <1>3, <1>5, StoreResetEffect, ResetCodeIsLeft DEF AnswerSteps
<1>6. ASSUME NEW r \in Requests, NEW k \in Keys, NEW c \in Codes \cup {Typo}, Answer(r, k, c)
      PROVE  CodesAreIssued'
  <2>1. /\ OnlyRequest(r) /\ key[k] # Missing
        /\ request'[r].step \in {"drop", "retry", "spend"}
        /\ request'[r].key = k /\ request'[r].data = key[k]
        /\ request'[r].step = "spend" => key[k].code = c /\ c \in mailed[k] \cup {Typo}
    BY <1>1, <1>6, AnswerEffect
  <2>2. UNCHANGED <<key, issued, mailed, used>>
    BY <1>6 DEF Answer, redis
  <2>3. key[k].code # Typo
    BY <1>1, <2>1, EntryFacts DEF KeyTyped
  <2> QED BY <1>1, <2>1, <2>2, <2>3 DEF CodesAreIssued, OnlyRequest
<1>7. ASSUME NEW r \in Requests, NEW e \in Entries, Replaces(r, request[r].key, e), used' = used,
             e.code <= issued[request[r].key], Moved(r),
             \/ request'[r].step \notin AnswerSteps
             \/ /\ request[r].step \in {"spend", "update"}
                /\ request'[r].key = request[r].key /\ request'[r].data = request[r].data
      PROVE  CodesAreIssued'
  <2>1. PICK k \in Keys : k = request[r].key
    BY <1>7 DEF Replaces
  <2>2. key'[k] = e /\ (\A o \in Keys \ {k} : key'[o] = key[o]) /\ issued' = issued /\ mailed' = mailed
    BY <1>7, <2>1 DEF Replaces
  <2>3. \A o \in Keys : key'[o].code <= issued'[o]
    BY <1>1, <1>7, <2>1, <2>2 DEF CodesAreIssued
  <2>4. ASSUME NEW q \in Requests, request'[q].step \in AnswerSteps
        PROVE  /\ request'[q].data.code <= issued'[request'[q].key]
               /\ request'[q].step \in {"spend", "update"} =>
                    request'[q].data.code \in mailed'[request'[q].key]
    <3>1. CASE q # r
      BY <1>1, <1>7, <2>2, <2>4, <3>1 DEF Moved, OnlyRequest, CodesAreIssued
    <3>2. CASE q = r
      BY <1>1, <1>7, <2>2, <2>4, <3>2 DEF CodesAreIssued, AnswerSteps
    <3> QED BY <3>1, <3>2
  <2> QED BY <1>1, <1>7, <2>2, <2>3, <2>4 DEF CodesAreIssued
<1>8. Missing.code = 0 /\ \A k \in Keys : issued[k] \in Nat
  BY <1>1 DEF Missing, Typo
<1>9. ASSUME NEW r \in Requests, DropCode(r)
      PROVE  CodesAreIssued'
  <2>1. Replaces(r, request[r].key, Missing) /\ Moved(r) /\ request'[r].step = "idle" /\ used' = used
    BY <1>1, <1>9, DropCodeEffect
  <2> QED BY <1>7, <1>8, <2>1, MissingIsEntry DEF Replaces, AnswerSteps
<1>10. ASSUME NEW r \in Requests, CountAttempt(r)
       PROVE  CodesAreIssued'
  <2>1. PICK k, d : k = request[r].key /\ d = request[r].data
    OBVIOUS
  <2>2. /\ At(r, "retry") /\ Replaces(r, k, OneMore(k, d)) /\ Moved(r) /\ request'[r].step = "idle"
        /\ used' = used
    BY <1>1, <1>10, <2>1, CountAttemptEffect
  <2>3. k \in Keys /\ d \in Entries /\ d # Missing /\ OneMore(k, d) \in Entries
    BY <2>1, <2>2 DEF Replaces
  <2>4. OneMore(k, d).code = d.code
    BY <1>1, <2>3, OneMoreEntry
  <2>5. d.code <= issued[k]
    BY <1>1, <2>1, <2>2 DEF CodesAreIssued, At, AnswerSteps
  <2> QED BY <1>7, <2>1, <2>2, <2>3, <2>4, <2>5 DEF AnswerSteps
<1>11. ASSUME NEW r \in Requests, SpendCode(r)
       PROVE  CodesAreIssued'
  <2>1. /\ At(r, "spend") /\ Replaces(r, request[r].key, Missing) /\ Moved(r) /\ used' = used
        /\ request'[r].key = request[r].key /\ request'[r].data = request[r].data
    BY <1>1, <1>11, SpendCodeEffect
  <2> QED BY <1>7, <1>8, <2>1, MissingIsEntry DEF Replaces, At
<1>12. ASSUME NEW r \in Requests, UpdateUser(r)
       PROVE  CodesAreIssued'
  <2>1. PICK k \in Keys, c \in Codes : k = request[r].key /\ c = request[r].data.code
    BY <1>1, <1>12, UpdateUserEffect
  <2>2. /\ At(r, "update") /\ Moved(r) /\ request'[r].step = "idle"
        /\ \A o \in Keys, d \in Codes : o # k \/ d # c => used'[o][d] = used[o][d]
        /\ UNCHANGED <<key, issued, mailed>>
    BY <1>1, <1>12, <2>1, UpdateUserEffect DEF redis
  <2>3. c <= issued[k]
    BY <1>1, <2>1, <2>2 DEF CodesAreIssued, At, AnswerSteps
  <2>4. \A o \in Keys, d \in Codes : used'[o][d] > 0 => d <= issued'[o]
    BY <1>1, <2>2, <2>3 DEF CodesAreIssued
  <2> QED BY <1>1, <2>2, <2>4 DEF CodesAreIssued, Moved, OnlyRequest, AnswerSteps
<1>13. ASSUME NEW k \in Keys, KeyExpires(k)
       PROVE  CodesAreIssued'
  <2>1. /\ key'[k] = Missing /\ \A o \in Keys \ {k} : key'[o] = key[o]
        /\ UNCHANGED <<issued, mailed, used, request>>
    BY <1>1, <1>13, KeyExpiresEffect
  <2> QED BY <1>1, <1>8, <2>1 DEF CodesAreIssued
<1> QED BY <1>2, <1>4, <1>5, <1>6, <1>9, <1>10, <1>11, <1>12, <1>13, Views

LEMMA AttemptsAreLimitedKept ==
    ASSUME Basics, [Next]_vars
    PROVE  AttemptsAreLimited'
<1> USE KeysAre
<1>1. /\ Typed /\ AttemptsAreLimited /\ KeyTyped /\ MailTyped /\ CountTyped /\ RequestTyped /\ BoundTyped
      /\ MaxAttempts \in Nat \ {0}
  BY BoundsAreNatural DEF Basics, Typed
<1>2. CASE CodeStill
  BY <1>1, <1>2 DEF CodeStill, AttemptsAreLimited, AnswerSteps
<1>3. ASSUME NEW k \in Keys, NEW r \in Requests, StoreCode(k), Moved(r),
             request'[r].step \notin AnswerSteps, issued[k] + 1 \in Codes
      PROVE  AttemptsAreLimited'
  <2>1. key'[k].attempts = 0 /\ \A o \in Keys \ {k} : key'[o] = key[o]
    BY <1>1, <1>3, StoreEffect
  <2>2. key'["verify"].attempts <= MaxAttempts
    BY <1>1, <2>1 DEF AttemptsAreLimited
  <2> QED BY <1>1, <1>3, <2>2 DEF AttemptsAreLimited, Moved, OnlyRequest, AnswerSteps
<1>4. ASSUME NEW r \in Requests, StoreVerifyCode(r)
      PROVE  AttemptsAreLimited'
  BY <1>1, <1>3, <1>4, StoreVerifyEffect, VerifyCodeIsLeft DEF AnswerSteps
<1>5. ASSUME NEW r \in Requests, StoreResetCode(r)
      PROVE  AttemptsAreLimited'
  BY <1>1, <1>3, <1>5, StoreResetEffect, ResetCodeIsLeft DEF AnswerSteps
<1>6. ASSUME NEW r \in Requests, NEW k \in Keys, NEW c \in Codes \cup {Typo}, Answer(r, k, c)
      PROVE  AttemptsAreLimited'
  <2>1. /\ OnlyRequest(r) /\ request'[r].key = k /\ request'[r].data = key[k]
        /\ request'[r].step = "retry" /\ k = "verify" => key[k].attempts < MaxAttempts
    BY <1>1, <1>6, AnswerEffect
  <2>2. key' = key
    BY <1>6 DEF Answer, redis
  <2> QED BY <1>1, <2>1, <2>2 DEF AttemptsAreLimited, OnlyRequest
<1>7. ASSUME NEW r \in Requests, NEW e \in Entries, Replaces(r, request[r].key, e), Moved(r),
             request'[r].step # "retry", request[r].key = "verify" => e.attempts <= MaxAttempts
      PROVE  AttemptsAreLimited'
  <2>1. key'["verify"].attempts <= MaxAttempts
    BY <1>1, <1>7 DEF Replaces, AttemptsAreLimited
  <2> QED BY <1>1, <1>7, <2>1 DEF AttemptsAreLimited, Moved, OnlyRequest
<1>8. Missing.attempts = 0 /\ Missing \in Entries
  BY MissingIsEntry DEF Missing
<1>9. ASSUME NEW r \in Requests, DropCode(r) \/ SpendCode(r)
      PROVE  AttemptsAreLimited'
  <2>1. Replaces(r, request[r].key, Missing) /\ Moved(r) /\ request'[r].step # "retry"
    BY <1>1, <1>9, DropCodeEffect, SpendCodeEffect
  <2> QED BY <1>1, <1>7, <1>8, <2>1
<1>10. ASSUME NEW r \in Requests, CountAttempt(r)
       PROVE  AttemptsAreLimited'
  <2>1. PICK k, d : k = request[r].key /\ d = request[r].data
    OBVIOUS
  <2>2. At(r, "retry") /\ Replaces(r, k, OneMore(k, d)) /\ Moved(r) /\ request'[r].step = "idle"
    BY <1>1, <1>10, <2>1, CountAttemptEffect
  <2>3. k \in Keys /\ d \in Entries /\ d # Missing /\ OneMore(k, d) \in Entries
    BY <2>1, <2>2 DEF Replaces
  <2>4. OneMore(k, d).attempts = d.attempts + 1 /\ d.attempts \in Nat
    BY <1>1, <2>3, OneMoreEntry, EntryFacts
  <2>5. k = "verify" => d.attempts < MaxAttempts
    BY <1>1, <2>1, <2>2 DEF AttemptsAreLimited, At
  <2>6. k = "verify" => OneMore(k, d).attempts <= MaxAttempts
    BY <1>1, <2>4, <2>5
  <2> QED BY <1>7, <2>1, <2>2, <2>3, <2>6
<1>11. ASSUME NEW r \in Requests, UpdateUser(r)
       PROVE  AttemptsAreLimited'
  <2>1. Moved(r) /\ request'[r].step = "idle" /\ key' = key
    BY <1>1, <1>11, UpdateUserEffect DEF redis
  <2> QED BY <1>1, <2>1 DEF AttemptsAreLimited, Moved, OnlyRequest
<1>12. ASSUME NEW k \in Keys, KeyExpires(k)
       PROVE  AttemptsAreLimited'
  <2>1. /\ key'[k] = Missing /\ (\A o \in Keys \ {k} : key'[o] = key[o]) /\ request' = request
    BY <1>1, <1>12, KeyExpiresEffect
  <2>2. key'["verify"].attempts <= MaxAttempts
    BY <1>1, <1>8, <2>1 DEF AttemptsAreLimited
  <2> QED BY <1>1, <2>1, <2>2 DEF AttemptsAreLimited
<1> QED BY <1>2, <1>4, <1>5, <1>6, <1>9, <1>10, <1>11, <1>12, Views

LEMMA InitBasics == Init => Basics
<1> SUFFICES ASSUME Init PROVE Basics
  OBVIOUS
<1> USE KeysAre, BoundsAreNatural
<1>1. UserTyped /\ TokenTyped /\ BoundTyped
  BY DEF Init, UserTyped, UserRows, TokenTyped, BoundTyped
<1>2. KeyTyped /\ MailTyped
  BY MissingIsEntry DEF Init, KeyTyped, MailTyped
<1>3. CountTyped /\ SessionTyped
  BY DEF Init, CountTyped, SessionTyped
<1>4. RequestTyped /\ \A r \in Requests : request[r].step = "idle"
  BY DEF Init, RequestTyped, RequestFits, Idle
<1>5. OneRegistration
  BY <1>4 DEF Init, OneRegistration, Registering, At
<1>6. Busy = {} /\ Issuing = {}
  BY <1>4 DEF Busy, Issuing, At
<1>7. CallsAreCounted
  BY <1>6, FS_EmptySet DEF Init, CallsAreCounted
<1>8. CodesAreIssued /\ AttemptsAreLimited
  BY <1>4 DEF Init, CodesAreIssued, AttemptsAreLimited, AnswerSteps, Missing, Typo
<1> QED BY <1>1, <1>2, <1>3, <1>4, <1>5, <1>7, <1>8 DEF Basics, Typed

\* Types, one registration, numbers within the calls, known codes and limited attempts hold always.
THEOREM BasicsHold == Spec => []Basics
<1>1. Basics /\ [Next]_vars => Basics'
  BY TypeKept, OneRegistrationKept, CallsAreCountedKept, CodesAreIssuedKept, AttemptsAreLimitedKept
  DEF Basics
<1> QED BY <1>1, InitBasics, PTL DEF Spec

(***************************************************************************)
(* Every field and every request has its type, the numbers of codes and    *)
(* sessions stay within the calls they come from, verifyOtp never counts   *)
(* past its limit, and only codes that were stored are mailed.             *)
(***************************************************************************)
THEOREM AuthTypeCorrect == Spec => []TypeOK
<1>1. ASSUME Basics
      PROVE  TypeOK
  <2> USE KeysAre, BoundsAreNatural
  <2>1. Typed /\ issued \in [Keys -> Nat] /\ calls \in 0 .. MaxCalls
    BY <1>1 DEF Basics, Typed, MailTyped, BoundTyped
  <2>2. ASSUME NEW t \in Tokens
        PROVE  token[t] = Unused \/
               token[t] \in [session : 1 .. sessions, isRevoked : BOOLEAN, expired : BOOLEAN]
    BY <2>1 DEF Typed, TokenTyped, TokenRows
  <2>3. ASSUME NEW r \in Requests
        PROVE  \/ request[r].step \in {"idle", "create", "store", "send", "issue"}
               \/ request[r].step \in AnswerSteps /\ request[r].key \in Keys
                                                  /\ request[r].data \in Entries \ {Missing}
               \/ request[r].step = "revoke" /\ token[request[r].token] # Unused
               \/ request[r].step = "open" /\ request[r].session \in 1 .. sessions
    BY <2>1 DEF Typed, RequestTyped, RequestFits, AnswerRows
  <2>4. Issuing \subseteq Busy
    BY DEF Issuing, Busy, At
  <2>5. Cardinality(Issuing) \in Nat
    BY <1>1, <2>4, FS_Subset, FS_CardinalityType DEF Basics, CallsAreCounted
  <2>6. issued["verify"] <= calls /\ issued["reset"] <= calls
    <3>1. issued["reset"] <= calls
      BY <1>1, <2>1, <2>5 DEF Basics, CallsAreCounted
    <3>2. issued["verify"] <= 1 /\ (calls = 0 => issued["verify"] = 0)
      BY <1>1 DEF Basics, OneRegistration, CallsAreCounted
    <3> QED BY <2>1, <3>1, <3>2
  <2>7. issued \in [Keys -> 0 .. MaxCalls]
    BY <2>1, <2>6
  <2>8. sessions \in 0 .. MaxCalls
    BY <1>1, SessionsFit
  <2>9. key \in [Keys -> Entries] /\ key["verify"].attempts <= MaxAttempts
    BY <1>1 DEF Basics, Typed, KeyTyped, AttemptsAreLimited
  <2>10. user \in [exists : BOOLEAN, isVerified : BOOLEAN, password : {Typo} \cup Codes]
    BY <2>1 DEF Typed, UserTyped, UserRows
  <2> QED
    BY <2>1, <2>2, <2>3, <2>7, <2>8, <2>9, <2>10
    DEF TypeOK, Typed, MailTyped, CountTyped, SessionTyped, BoundTyped
<1> QED BY <1>1, BasicsHold, PTL

-----------------------------------------------------------------------------
(* What is stored is the last code.                                        *)

\* What each key holds and what is known of it, k being the only one that moves.
OnlyKey(k) == \A o \in Keys \ {k} : key'[o] = key[o] /\ UNCHANGED <<issued[o], wrong[o], late[o]>>

LEMMA CodeIsCurrentKept ==
    ASSUME Basics, CodeIsCurrent, [Next]_vars
    PROVE  CodeIsCurrent'
<1> USE KeysAre
<1>1. /\ Typed /\ KeyTyped /\ MailTyped /\ CountTyped /\ RequestTyped /\ BoundTyped
      /\ late \in [Keys -> Nat] /\ wrong \in [Keys -> Nat] /\ issued \in [Keys -> Nat]
  BY DEF Basics, Typed, CountTyped, MailTyped
<1>2. CASE CodeStill
  BY <1>2 DEF CodeStill, CodeIsCurrent
<1>3. ASSUME NEW k \in Keys, OnlyKey(k),
             late'[k] = 0 /\ key'[k] # Missing =>
                key'[k] = [code |-> issued'[k], attempts |-> wrong'[k], timed |-> TRUE]
      PROVE  CodeIsCurrent'
  BY <1>3 DEF OnlyKey, CodeIsCurrent
<1>4. ASSUME NEW k \in Keys, StoreCode(k), late' = late, issued[k] + 1 \in Codes
      PROVE  CodeIsCurrent'
  <2>1. /\ issued'[k] = issued[k] + 1 /\ wrong'[k] = 0
        /\ key'[k] = [code |-> issued[k] + 1, attempts |-> 0, timed |-> TRUE]
        /\ OnlyKey(k)
    BY <1>1, <1>4, StoreEffect DEF OnlyKey
  <2> QED BY <1>3, <2>1
<1>5. ASSUME NEW r \in Requests, StoreVerifyCode(r)
      PROVE  CodeIsCurrent'
  BY <1>1, <1>4, <1>5, StoreVerifyEffect, VerifyCodeIsLeft
<1>6. ASSUME NEW r \in Requests, StoreResetCode(r)
      PROVE  CodeIsCurrent'
  BY <1>1, <1>4, <1>6, StoreResetEffect, ResetCodeIsLeft
<1>7. ASSUME NEW r \in Requests, DropCode(r) \/ SpendCode(r)
      PROVE  CodeIsCurrent'
  <2>1. PICK k : k = request[r].key
    OBVIOUS
  <2>2. Replaces(r, k, Missing) /\ wrong' = wrong
    BY <1>1, <1>7, <2>1, DropCodeEffect, SpendCodeEffect
  <2>3. k \in Keys /\ key'[k] = Missing /\ OnlyKey(k)
    BY <2>2 DEF Replaces, OnlyKey
  <2> QED BY <1>3, <2>3
<1>8. ASSUME NEW r \in Requests, CountAttempt(r)
      PROVE  CodeIsCurrent'
  <2>1. PICK k, d : k = request[r].key /\ d = request[r].data
    OBVIOUS
  <2>2. /\ Replaces(r, k, OneMore(k, d)) /\ wrong'[k] = wrong[k] + 1
        /\ \A o \in Keys \ {k} : wrong'[o] = wrong[o]
    BY <1>1, <1>8, <2>1, CountAttemptEffect
  <2>3. /\ k \in Keys /\ d \in Entries /\ d # Missing /\ OnlyKey(k)
        /\ key'[k] = OneMore(k, d) /\ late'[k] = IF key[k] = d THEN late[k] ELSE late[k] + 1
    BY <2>1, <2>2 DEF Replaces, OnlyKey
  <2>4. CASE key[k] # d
    <3>1. late[k] \in Nat
      BY <1>1, <2>3
    <3>2. late'[k] # 0
      BY <2>3, <2>4, <3>1
    <3> QED BY <1>3, <2>3, <3>2
  <2>5. CASE key[k] = d /\ late[k] = 0
    <3>1. d = [code |-> issued[k], attempts |-> wrong[k], timed |-> TRUE]
      BY <2>3, <2>5 DEF CodeIsCurrent
    <3>4. /\ OneMore(k, d) \in [code : Codes, attempts : Nat, timed : BOOLEAN]
          /\ OneMore(k, d).code = issued[k] /\ OneMore(k, d).attempts = wrong[k] + 1
          /\ OneMore(k, d).timed = TRUE
      <4>1. /\ OneMore(k, d) \in Entries /\ OneMore(k, d) # Missing
            /\ OneMore(k, d).code = d.code /\ OneMore(k, d).attempts = d.attempts + 1
            /\ OneMore(k, d).timed = key[k].timed
        BY <1>1, <2>3, OneMoreEntry
      <4>2. d.code = issued[k] /\ d.attempts = wrong[k] /\ key[k].timed = TRUE
        BY <2>5, <3>1
      <4>3. OneMore(k, d) \in [code : Codes, attempts : Nat, timed : BOOLEAN]
        BY <4>1 DEF Entries
      <4> QED BY <4>1, <4>2, <4>3
    <3>2. OneMore(k, d) = [code |-> issued[k], attempts |-> wrong[k] + 1, timed |-> TRUE]
      BY <3>4
    <3>3. issued'[k] = issued[k]
      BY <2>2 DEF Replaces
    <3> QED BY <1>3, <2>2, <2>3, <3>2, <3>3
  <2>6. CASE key[k] = d /\ late[k] # 0
    BY <1>3, <2>3, <2>6
  <2> QED BY <2>4, <2>5, <2>6
<1>9. ASSUME NEW r \in Requests, UpdateUser(r)
      PROVE  CodeIsCurrent'
  BY <1>9 DEF UpdateUser, redis, codes, CodeIsCurrent
<1>10. ASSUME NEW r \in Requests, NEW k \in Keys, NEW c \in Codes \cup {Typo}, Answer(r, k, c)
       PROVE  CodeIsCurrent'
  BY <1>10 DEF Answer, redis, codes, CodeIsCurrent
<1>11. ASSUME NEW k \in Keys, KeyExpires(k)
       PROVE  CodeIsCurrent'
  <2>1. key'[k] = Missing /\ OnlyKey(k)
    BY <1>1, <1>11, KeyExpiresEffect DEF OnlyKey
  <2> QED BY <1>3, <2>1
<1> QED BY <1>2, <1>5, <1>6, <1>7, <1>8, <1>9, <1>10, <1>11, Views

(***************************************************************************)
(* As long as no write of a key was out of date, Redis holds the last code *)
(* with every wrong answer counted and with a time to live: CountAttempt   *)
(* and StoreCode lose nothing by themselves.                               *)
(***************************************************************************)
THEOREM StoredCodeIsTheLast == Spec => []CodeIsCurrent
<1>1. Init => CodeIsCurrent
  BY DEF Init, CodeIsCurrent
<1>2. Basics /\ CodeIsCurrent /\ [Next]_vars => CodeIsCurrent'
  BY CodeIsCurrentKept
<1> QED BY <1>1, <1>2, BasicsHold, PTL DEF Spec

-----------------------------------------------------------------------------
(* A code is spent once, and once more for each write that was out of date. *)

LEMMA SpendingIsFinite ==
    ASSUME Basics, NEW k \in Keys, NEW c \in Codes
    PROVE  IsFiniteSet(Spending(k, c)) /\ Cardinality(Spending(k, c)) \in Nat
<1>1. Spending(k, c) \subseteq Busy
  BY DEF Spending, Busy, At
<1> QED BY <1>1, FS_Subset, FS_CardinalityType DEF Basics, CallsAreCounted

\* The bound on one code.
SpentOnce(k, c) == used[k][c] + Cardinality(Spending(k, c)) + Stored(k, c) <= 1 + late[k]

\* It is kept when nobody else comes to spend the code, and it is not stored again.
LEMMA SpentOnceKept ==
    ASSUME Basics, NEW k \in Keys, NEW c \in Codes, SpentOnce(k, c),
           Spending(k, c)' \subseteq Spending(k, c), used'[k][c] = used[k][c],
           \/ Stored(k, c)' <= Stored(k, c) /\ late'[k] \in {late[k], late[k] + 1}
           \/ late'[k] = late[k] + 1
    PROVE  SpentOnce(k, c)'
<1>1. used[k][c] \in Nat /\ late[k] \in Nat
  BY DEF Basics, Typed, CountTyped
<1>2. IsFiniteSet(Spending(k, c)) /\ Cardinality(Spending(k, c)) \in Nat
  BY SpendingIsFinite
<1>3. Cardinality(Spending(k, c)') <= Cardinality(Spending(k, c)) /\ Cardinality(Spending(k, c)') \in Nat
  BY <1>2, FS_Subset, FS_CardinalityType
<1>4. Stored(k, c) \in {0, 1} /\ Stored(k, c)' \in {0, 1}
  BY DEF Stored
<1>5. PICK n \in Nat, m \in Nat, a \in {0, 1}, b \in {0, 1} :
        n = Cardinality(Spending(k, c)) /\ m = Cardinality(Spending(k, c)')
        /\ a = Stored(k, c) /\ b = Stored(k, c)'
  BY <1>2, <1>3, <1>4
<1>6. used[k][c] + n + a <= 1 + late[k] /\ m <= n
  BY <1>3, <1>5 DEF SpentOnce
<1>7. used'[k][c] + m + b <= 1 + late'[k]
  BY <1>1, <1>5, <1>6
<1> QED BY <1>5, <1>7 DEF SpentOnce

LEMMA CodesAreSpentOnceKept ==
    ASSUME Basics, CodesAreSpentOnce, [Next]_vars
    PROVE  CodesAreSpentOnce'
<1> USE KeysAre
<1>1. /\ Typed /\ KeyTyped /\ MailTyped /\ CountTyped /\ RequestTyped /\ BoundTyped
      /\ late \in [Keys -> Nat] /\ issued \in [Keys -> Nat] /\ used \in [Keys -> [Codes -> Nat]]
      /\ CodesAreIssued
  BY DEF Basics, Typed, CountTyped, MailTyped
<1>2. \A k \in Keys, c \in Codes : SpentOnce(k, c)
  BY DEF CodesAreSpentOnce, SpentOnce
<1>3. SUFFICES ASSUME NEW k \in Keys, NEW c \in Codes
               PROVE  SpentOnce(k, c)'
  BY DEF CodesAreSpentOnce, SpentOnce
<1>4. c # 0 /\ c \in Nat /\ late[k] \in Nat /\ used[k][c] \in Nat
  BY <1>1, BoundsAreNatural DEF Codes
<1>5. ASSUME \A q \in Requests : request'[q].step = "update" => request'[q] = request[q]
      PROVE  Spending(k, c)' \subseteq Spending(k, c)
  BY <1>5 DEF Spending, At
<1>6. CASE CodeStill
  <2>1. /\ \A q \in Requests : request'[q].step = "update" => request'[q] = request[q]
        /\ key' = key /\ late' = late /\ used' = used
    BY <1>6 DEF CodeStill, AnswerSteps
  <2>2. Stored(k, c)' = Stored(k, c) /\ Stored(k, c) \in {0, 1}
    BY <2>1 DEF Stored
  <2> QED BY <1>2, <1>5, <2>1, <2>2, SpentOnceKept
<1>7. ASSUME NEW o \in Keys, NEW r \in Requests, StoreCode(o), Moved(r), request'[r].step # "update",
             issued[o] + 1 \in Codes, UNCHANGED <<late, used>>
      PROVE  SpentOnce(k, c)'
  <2>1. Spending(k, c)' \subseteq Spending(k, c)
    BY <1>5, <1>7 DEF Moved, OnlyRequest
  <2>2. /\ key'[o].code = issued[o] + 1 /\ \A p \in Keys \ {o} : key'[p] = key[p]
    BY <1>1, <1>7, StoreEffect
  <2>3. CASE k = o /\ c = issued[o] + 1
    <3>1. used[k][c] = 0
      BY <1>1, <1>4, <2>3 DEF CodesAreIssued
    <3>2. Spending(k, c) = {}
      <4>1. ASSUME NEW q \in Spending(k, c) PROVE FALSE
        <5>1. q \in Requests /\ request[q].step \in AnswerSteps /\ request[q].key = k /\ request[q].data.code = c
          BY DEF Spending, At, AnswerSteps
        <5>2. c <= issued[k]
          BY <1>1, <5>1 DEF CodesAreIssued
        <5> QED BY <1>1, <2>3, <5>2
      <4> QED BY <4>1
    <3>3. Cardinality(Spending(k, c)') = 0
      BY <2>1, <3>2, FS_EmptySet
    <3>4. Stored(k, c)' \in {0, 1}
      BY DEF Stored
    <3> QED BY <1>4, <1>7, <3>1, <3>3, <3>4 DEF SpentOnce
  <2>4. CASE ~ (k = o /\ c = issued[o] + 1)
    <3>1. Stored(k, c)' <= Stored(k, c)
      BY <1>3, <2>2, <2>4 DEF Stored
    <3> QED BY <1>2, <1>7, <2>1, <3>1, SpentOnceKept
  <2> QED BY <2>3, <2>4
<1>8. ASSUME NEW r \in Requests, StoreVerifyCode(r)
      PROVE  SpentOnce(k, c)'
  BY <1>1, <1>7, <1>8, StoreVerifyEffect, VerifyCodeIsLeft
<1>9. ASSUME NEW r \in Requests, StoreResetCode(r)
      PROVE  SpentOnce(k, c)'
  BY <1>1, <1>7, <1>9, StoreResetEffect, ResetCodeIsLeft
<1>10. ASSUME NEW r \in Requests, NEW o \in Keys, NEW d \in Codes \cup {Typo}, Answer(r, o, d)
       PROVE  SpentOnce(k, c)'
  <2>1. OnlyRequest(r) /\ request'[r].step \in {"drop", "retry", "spend"}
    BY <1>1, <1>10, AnswerEffect
  <2>2. UNCHANGED <<key, late, used>>
    BY <1>10 DEF Answer, redis, codes
  <2>3. Spending(k, c)' \subseteq Spending(k, c)
    BY <1>5, <2>1 DEF OnlyRequest
  <2>4. Stored(k, c)' = Stored(k, c) /\ Stored(k, c) \in {0, 1}
    BY <2>2 DEF Stored
  <2> QED BY <1>2, <2>2, <2>3, <2>4, SpentOnceKept
<1>11. ASSUME NEW r \in Requests, NEW e \in Entries, Replaces(r, request[r].key, e), Moved(r),
              request'[r].step # "update", used' = used,
              e.code \in {0, request[r].data.code}
       PROVE  SpentOnce(k, c)'
  <2>1. Spending(k, c)' \subseteq Spending(k, c)
    BY <1>5, <1>11 DEF Moved, OnlyRequest
  <2>2. PICK o, d : o \in Keys /\ o = request[r].key /\ d = request[r].data
    BY <1>11 DEF Replaces
  <2>3. /\ key'[o] = e /\ late'[o] = IF key[o] = d THEN late[o] ELSE late[o] + 1
        /\ \A p \in Keys \ {o} : key'[p] = key[p] /\ late'[p] = late[p]
    BY <1>11, <2>2 DEF Replaces
  <2>4. CASE k = o /\ key[o] # d
    BY <1>2, <1>11, <2>1, <2>3, <2>4, SpentOnceKept
  <2>5. CASE k = o /\ key[o] = d
    <3>1. Stored(k, c)' <= Stored(k, c) /\ late'[k] = late[k]
      BY <1>4, <1>11, <2>2, <2>3, <2>5 DEF Stored
    <3> QED BY <1>2, <1>11, <2>1, <3>1, SpentOnceKept
  <2>6. CASE k # o
    <3>1. Stored(k, c)' <= Stored(k, c) /\ late'[k] = late[k]
      BY <1>3, <2>3, <2>6 DEF Stored
    <3> QED BY <1>2, <1>11, <2>1, <3>1, SpentOnceKept
  <2> QED BY <2>4, <2>5, <2>6
<1>12. ASSUME NEW r \in Requests, DropCode(r)
       PROVE  SpentOnce(k, c)'
  <2>1. Replaces(r, request[r].key, Missing) /\ Moved(r) /\ request'[r].step = "idle" /\ used' = used
    BY <1>1, <1>12, DropCodeEffect
  <2> QED BY <1>11, <2>1, MissingIsEntry DEF Missing, Typo
<1>13. ASSUME NEW r \in Requests, CountAttempt(r)
       PROVE  SpentOnce(k, c)'
  <2>1. PICK o, d : o = request[r].key /\ d = request[r].data
    OBVIOUS
  <2>2. Replaces(r, o, OneMore(o, d)) /\ Moved(r) /\ request'[r].step = "idle" /\ used' = used
    BY <1>1, <1>13, <2>1, CountAttemptEffect
  <2>3. o \in Keys /\ d \in Entries /\ d # Missing /\ OneMore(o, d) \in Entries
    BY <2>1, <2>2 DEF Replaces
  <2>4. OneMore(o, d).code = d.code
    BY <1>1, <2>3, OneMoreEntry
  <2> QED BY <1>11, <2>1, <2>2, <2>3, <2>4
<1>14. ASSUME NEW r \in Requests, SpendCode(r)
       PROVE  SpentOnce(k, c)'
  <2>1. PICK o, d : o \in Keys /\ o = request[r].key /\ d = request[r].data
    BY <1>1, <1>14, SpendCodeEffect DEF Replaces
  <2>2. /\ At(r, "spend") /\ Moved(r) /\ request'[r].step = "update"
        /\ request'[r].key = o /\ request'[r].data = d /\ used' = used
        /\ Replaces(r, o, Missing)
    BY <1>1, <1>14, <2>1, SpendCodeEffect
  <2>3. /\ key'[o] = Missing /\ late'[o] = IF key[o] = d THEN late[o] ELSE late[o] + 1
        /\ \A p \in Keys \ {o} : key'[p] = key[p] /\ late'[p] = late[p]
    BY <2>1, <2>2 DEF Replaces
  <2>4. CASE k = o /\ c = d.code
    <3>1. r \notin Spending(k, c) /\ Spending(k, c)' = Spending(k, c) \cup {r}
      BY <2>2, <2>4 DEF Spending, At, Moved, OnlyRequest
    <3>2. Cardinality(Spending(k, c)') = Cardinality(Spending(k, c)) + 1
          /\ Cardinality(Spending(k, c)) \in Nat
      BY <3>1, SpendingIsFinite, FS_AddElement
    <3>3. Stored(k, c)' = 0
      BY <1>4, <2>3, <2>4 DEF Stored, Missing, Typo
    <3>4. key[k] = d => Stored(k, c) = 1
      BY <2>4 DEF Stored
    <3>5. Stored(k, c) \in {0, 1}
      BY DEF Stored
    <3>6. SpentOnce(k, c)
      BY <1>2
    <3>7. PICK n \in Nat, m \in Nat : n = Cardinality(Spending(k, c)) /\ m = Cardinality(Spending(k, c)') /\ m = n + 1
      BY <3>2
    <3>8. used[k][c] + m + 0 <= 1 + late'[k]
      BY <1>4, <2>3, <2>4, <3>4, <3>5, <3>6, <3>7 DEF SpentOnce
    <3> QED BY <2>2, <3>3, <3>7, <3>8 DEF SpentOnce
  <2>5. CASE ~ (k = o /\ c = d.code)
    <3>1. Spending(k, c)' \subseteq Spending(k, c)
      BY <2>2, <2>5 DEF Spending, At, Moved, OnlyRequest
    <3>2. /\ Stored(k, c)' <= Stored(k, c) /\ late'[k] \in {late[k], late[k] + 1}
      BY <1>3, <1>4, <2>3 DEF Stored, Missing, Typo
    <3> QED BY <1>2, <2>2, <3>1, <3>2, SpentOnceKept
  <2> QED BY <2>4, <2>5
<1>15. ASSUME NEW r \in Requests, UpdateUser(r)
       PROVE  SpentOnce(k, c)'
  <2>1. PICK o \in Keys, d \in Codes : o = request[r].key /\ d = request[r].data.code
    BY <1>1, <1>15, UpdateUserEffect
  <2>2. /\ At(r, "update") /\ Moved(r) /\ request'[r].step = "idle"
        /\ used'[o][d] = used[o][d] + 1
        /\ \A p \in Keys, b \in Codes : p # o \/ b # d => used'[p][b] = used[p][b]
        /\ UNCHANGED <<key, late>>
    BY <1>1, <1>15, <2>1, UpdateUserEffect DEF redis, codes
  <2>3. Stored(k, c)' = Stored(k, c) /\ Stored(k, c) \in {0, 1}
    BY <2>2 DEF Stored
  <2>4. CASE k = o /\ c = d
    <3>1. r \in Spending(k, c) /\ Spending(k, c)' = Spending(k, c) \ {r}
      BY <2>1, <2>2, <2>4 DEF Spending, At, Moved, OnlyRequest
    <3>2. Cardinality(Spending(k, c)') = Cardinality(Spending(k, c)) - 1
          /\ Cardinality(Spending(k, c)) \in Nat
      BY <3>1, SpendingIsFinite, FS_RemoveElement
    <3>3. SpentOnce(k, c)
      BY <1>2
    <3> QED BY <1>4, <2>2, <2>3, <2>4, <3>2, <3>3 DEF SpentOnce
  <2>5. CASE ~ (k = o /\ c = d)
    <3>1. Spending(k, c)' \subseteq Spending(k, c)
      BY <1>5, <2>2 DEF Moved, OnlyRequest
    <3> QED BY <1>2, <2>2, <2>3, <2>5, <3>1, SpentOnceKept
  <2> QED BY <2>4, <2>5
<1>16. ASSUME NEW o \in Keys, KeyExpires(o)
       PROVE  SpentOnce(k, c)'
  <2>1. /\ key'[o] = Missing /\ (\A p \in Keys \ {o} : key'[p] = key[p])
        /\ UNCHANGED <<late, used, request>>
    BY <1>1, <1>16, KeyExpiresEffect
  <2>2. Stored(k, c)' <= Stored(k, c)
    BY <1>3, <1>4, <2>1 DEF Stored, Missing, Typo
  <2>3. Spending(k, c)' \subseteq Spending(k, c)
    BY <1>5, <2>1
  <2> QED BY <1>2, <2>1, <2>2, <2>3, SpentOnceKept
<1> QED BY <1>6, <1>8, <1>9, <1>10, <1>12, <1>13, <1>14, <1>15, <1>16, Views

(***************************************************************************)
(* A code updates the user once, and once more at most for each write of   *)
(* its key by a request whose reading was out of date.                     *)
(***************************************************************************)
THEOREM CodesUpdateOnce == Spec => []CodeIsSpentOnce
<1>1. ASSUME Init
      PROVE  CodesAreSpentOnce
  <2>1. ASSUME NEW k \in Keys, NEW c \in Codes
        PROVE  used[k][c] = 0 /\ Spending(k, c) = {} /\ Stored(k, c) = 0 /\ late[k] = 0
    BY <1>1, BoundsAreNatural DEF Init, Spending, At, Idle, Stored, Missing, Typo, Codes
  <2> QED BY <2>1, FS_EmptySet DEF CodesAreSpentOnce
<1>2. Basics /\ CodesAreSpentOnce /\ [Next]_vars => CodesAreSpentOnce'
  BY CodesAreSpentOnceKept
<1>3. ASSUME Basics, CodesAreSpentOnce
      PROVE  CodeIsSpentOnce
  <2>1. ASSUME NEW k \in Keys, NEW c \in Codes
        PROVE  used[k][c] <= 1 + late[k]
    <3>1. used[k][c] \in Nat /\ late[k] \in Nat /\ Cardinality(Spending(k, c)) \in Nat
      BY <1>3, SpendingIsFinite DEF Basics, Typed, CountTyped
    <3>2. Stored(k, c) \in {0, 1}
      BY DEF Stored
    <3> QED BY <1>3, <3>1, <3>2 DEF CodesAreSpentOnce
  <2> QED BY <2>1 DEF CodeIsSpentOnce
<1> QED BY <1>1, <1>2, <1>3, BasicsHold, PTL DEF Spec

-----------------------------------------------------------------------------
(* Until the code is over, it can be answered.                             *)

LEMMA CodeIsOnItsWayKept ==
    ASSUME Basics, CodeIsOnItsWay, [Next]_vars
    PROVE  CodeIsOnItsWay'
<1> USE KeysAre
<1>1. /\ Typed /\ KeyTyped /\ MailTyped /\ CountTyped /\ RequestTyped /\ BoundTyped
      /\ CodesAreIssued /\ OneRegistration /\ CallsAreCounted /\ faults \in Nat /\ sessions <= MaxCalls
      /\ issued["verify"] \in Nat /\ key["verify"] \in Entries
  BY BoundsAreNatural, SessionsFit DEF Basics, Typed, MailTyped, KeyTyped, BoundTyped
<1>2. SUFFICES ASSUME user'.exists, ~ user'.isVerified, ~ over', faults' = 0
               PROVE  Verifiable'
  BY DEF CodeIsOnItsWay
\* What makes the account usable is still there.
<1>3. ASSUME user' = user, over' = over, faults' = faults, key'["verify"] = key["verify"],
             mailed["verify"] \subseteq mailed'["verify"],
             \A q \in Requests :
                request[q].step \in {"store", "send"} \/ (request[q].step = "update" /\ request[q].key = "verify")
                    => request'[q] = request[q]
      PROVE  Verifiable'
  <2>1. Verifiable
    BY <1>2, <1>3 DEF CodeIsOnItsWay
  <2>2. CASE key["verify"] # Missing /\ key["verify"].code \in mailed["verify"]
    BY <1>3, <2>2 DEF Verifiable
  <2>3. CASE \E q \in Requests : At(q, "store")
    BY <1>3, <2>3 DEF Verifiable, At
  <2>4. CASE key["verify"] # Missing /\ \E q \in Requests : At(q, "send")
    BY <1>3, <2>4 DEF Verifiable, At
  <2>5. CASE \E q \in Requests : At(q, "update") /\ request[q].key = "verify"
    BY <1>3, <2>5 DEF Verifiable, At
  <2> QED BY <2>1, <2>2, <2>3, <2>4, <2>5 DEF Verifiable
<1>4. ASSUME NEW r \in Requests, Moved(r), request[r].step \notin {"store", "send", "update"},
             user' = user, over' = over, faults' = faults, key'["verify"] = key["verify"],
             mailed["verify"] \subseteq mailed'["verify"]
      PROVE  Verifiable'
  BY <1>3, <1>4 DEF Moved, OnlyRequest
<1>5. ASSUME NEW r \in Requests, Register(r) \/ ForgotPassword(r)
      PROVE  Verifiable'
  <2>1. Started(r)
    BY <1>1, <1>5, RegisterEffect, ForgotPasswordEffect
  <2>2. UNCHANGED <<user, over, faults, key, mailed>>
    BY <1>5 DEF Register, ForgotPassword, redis, codes
  <2> QED BY <1>4, <2>1, <2>2 DEF Started, At
<1>6. ASSUME NEW r \in Requests, Login(r) \/ \E t \in Tokens : Refresh(r, t)
      PROVE  Verifiable'
  <2>1. Started(r)
    BY <1>1, <1>6, LoginEffect, RefreshEffect
  <2>2. UNCHANGED <<user, over, faults, key, mailed>>
    BY <1>6 DEF Login, Refresh, redis, codes
  <2> QED BY <1>4, <2>1, <2>2 DEF Started, At
<1>7. ASSUME NEW r \in Requests, Revoke(r) \/ \E t \in Tokens : CreateToken(r, t)
      PROVE  Verifiable'
  <2>1. request[r].step \in {"revoke", "open"} /\ Moved(r)
    BY <1>1, <1>7, RevokeEffect, CreateTokenEffect DEF At
  <2>2. UNCHANGED <<user, over, faults, key, mailed>>
    BY <1>7 DEF Revoke, CreateToken, redis, codes
  <2> QED BY <1>4, <2>1, <2>2
<1>8. ASSUME NEW r \in Requests, NEW k \in Keys, NEW c \in Codes \cup {Typo}, Answer(r, k, c)
      PROVE  Verifiable'
  <2>1. At(r, "idle") /\ Moved(r)
    BY <1>1, <1>8, AnswerEffect DEF Moved
  <2>2. UNCHANGED <<user, over, faults, key, mailed>>
    BY <1>8 DEF Answer, redis, codes
  <2> QED BY <1>4, <2>1, <2>2 DEF At
<1>9. ASSUME NEW r \in Requests, CreateUser(r)
      PROVE  Verifiable'
  <2>1. /\ At(r, "create") /\ Moved(r) /\ user'.isVerified = user.isVerified
        /\ request'[r].step = IF user.exists THEN "idle" ELSE "store"
        /\ UNCHANGED <<over, faults, key, mailed>>
    BY <1>1, <1>9, CreateUserEffect DEF redis, codes
  <2>2. CASE user.exists
    <3>1. Verifiable
      BY <1>2, <2>1, <2>2 DEF CodeIsOnItsWay
    <3> QED BY <2>1, <3>1 DEF Verifiable, At, Moved, OnlyRequest
  <2>3. CASE ~ user.exists
    BY <2>1, <2>3 DEF Verifiable, At
  <2> QED BY <2>2, <2>3
<1>10. ASSUME NEW r \in Requests, StoreVerifyCode(r)
       PROVE  Verifiable'
  <2>1. request'[r].step = "send" /\ StoreCode("verify") /\ issued["verify"] + 1 \in Codes
    BY <1>1, <1>10, StoreVerifyEffect, VerifyCodeIsLeft
  <2>2. key'["verify"] = [code |-> issued["verify"] + 1, attempts |-> 0, timed |-> TRUE]
    BY <1>1, <2>1, StoreEffect
  <2>3. key'["verify"] # Missing
    BY <2>1, <2>2, NewEntry
  <2> QED BY <2>1, <2>3 DEF Verifiable, At
<1>11. ASSUME NEW r \in Requests, MailVerifyCode(r)
       PROVE  Verifiable'
  <2>1. /\ At(r, "send") /\ Moved(r) /\ UNCHANGED <<user, over, faults, key>>
        /\ mailed'["verify"] = mailed["verify"] \cup {issued["verify"]}
    BY <1>1, <1>11, MailVerifyEffect DEF codes
  <2>2. Verifiable
    BY <1>2, <2>1 DEF CodeIsOnItsWay
  <2>3. CASE key["verify"] # Missing
    <3>1. key["verify"].code \in Nat /\ key["verify"].code # 0 /\ key["verify"].code <= issued["verify"]
      BY <1>1, <2>3, EntryFacts DEF CodesAreIssued, Typo
    <3>2. issued["verify"] = 1
      BY <1>1, <2>1 DEF OneRegistration
    <3>3. key["verify"].code = issued["verify"]
      BY <3>1, <3>2
    <3> QED BY <2>1, <2>3, <3>3 DEF Verifiable
  <2>4. CASE key["verify"] = Missing
    BY <2>1, <2>2, <2>4 DEF Verifiable, At, Moved, OnlyRequest
  <2> QED BY <2>3, <2>4
<1>12. ASSUME NEW r \in Requests, StoreResetCode(r)
       PROVE  Verifiable'
  <2>1. /\ At(r, "issue") /\ Moved(r) /\ UNCHANGED <<user, over>> /\ faults <= faults'
        /\ mailed'["verify"] = mailed["verify"] /\ StoreCode("reset")
    BY <1>1, <1>12, StoreResetEffect
  <2>2. key'["verify"] = key["verify"]
    BY <1>1, <1>12, <2>1, StoreEffect, ResetCodeIsLeft
  <2>3. faults' = faults
    BY <1>1, <1>2, <2>1
  <2> QED BY <1>4, <2>1, <2>2, <2>3 DEF At
<1>13. ASSUME NEW r \in Requests, DropCode(r)
       PROVE  FALSE
  BY <1>2, <1>13 DEF DropCode
<1>14. ASSUME NEW r \in Requests, CountAttempt(r)
       PROVE  Verifiable'
  <2>1. PICK k, d : k = request[r].key /\ d = request[r].data
    OBVIOUS
  <2>2. /\ At(r, "retry") /\ Moved(r) /\ Replaces(r, k, OneMore(k, d))
        /\ UNCHANGED <<user, over, faults>>
    BY <1>1, <1>14, <2>1, CountAttemptEffect
  <2>3. /\ k \in Keys /\ d \in Entries /\ d # Missing /\ key'[k] = OneMore(k, d) /\ UNCHANGED <<issued, mailed>>
        /\ \A o \in Keys \ {k} : key'[o] = key[o]
    BY <2>1, <2>2 DEF Replaces
  <2>4. CASE k # "verify"
    BY <1>4, <2>2, <2>3, <2>4 DEF At
  <2>5. CASE k = "verify"
    <3>1. key'[k] # Missing /\ key'[k].code = d.code
      BY <1>1, <2>3, OneMoreEntry
    <3>2. d.code \in Nat /\ d.code # 0 /\ d.code <= issued[k] /\ issued[k] <= 1
      BY <1>1, <2>1, <2>2, <2>3, <2>5, EntryFacts
      DEF CodesAreIssued, At, AnswerSteps, OneRegistration, Typo
    <3>3. d.code = 1 /\ issued[k] = 1
      BY <1>1, <2>5, <3>2
    <3>4. CASE 1 \in mailed["verify"]
      BY <2>3, <2>5, <3>1, <3>3, <3>4 DEF Verifiable
    <3>5. CASE 1 \notin mailed["verify"]
      <4>1. mailed["verify"] = {}
        BY <1>1, <2>5, <3>3, <3>5 DEF MailTyped
      <4>2. Verifiable
        BY <1>2, <2>2 DEF CodeIsOnItsWay
      <4>3. \A q \in Requests : ~ At(q, "store")
        BY <1>1, <2>5, <3>3 DEF OneRegistration
      <4>4. \A q \in Requests : ~ (At(q, "update") /\ request[q].key = "verify")
        BY <1>1, <4>1 DEF CodesAreIssued, At, AnswerSteps
      <4>5. PICK q \in Requests : At(q, "send")
        BY <4>1, <4>2, <4>3, <4>4 DEF Verifiable
      <4>6. request'[q].step = "send"
        BY <2>2, <4>5 DEF Moved, OnlyRequest, At
      <4> QED BY <2>5, <3>1, <4>6 DEF Verifiable, At
    <3> QED BY <3>4, <3>5
  <2> QED BY <2>4, <2>5
<1>15. ASSUME NEW r \in Requests, SpendCode(r)
       PROVE  Verifiable'
  <2>1. PICK k : k = request[r].key
    OBVIOUS
  <2>2. /\ At(r, "spend") /\ Moved(r) /\ request'[r].step = "update" /\ request'[r].key = k
        /\ Replaces(r, k, Missing) /\ UNCHANGED <<user, over, faults>>
    BY <1>1, <1>15, <2>1, SpendCodeEffect
  <2>3. CASE k = "verify"
    BY <2>2, <2>3 DEF Verifiable, At
  <2>4. CASE k # "verify"
    <3>1. key'["verify"] = key["verify"] /\ mailed' = mailed
      BY <2>2, <2>4 DEF Replaces
    <3> QED BY <1>4, <2>2, <3>1 DEF At
  <2> QED BY <2>3, <2>4
<1>16. ASSUME NEW r \in Requests, UpdateUser(r)
       PROVE  Verifiable'
  <2>1. PICK k \in Keys : k = request[r].key
    BY <1>1, <1>16, UpdateUserEffect
  <2>2. /\ Moved(r) /\ user'.exists = user.exists /\ (k = "verify" => user'.isVerified)
        /\ k = "reset" => user'.isVerified = user.isVerified
        /\ UNCHANGED <<over, faults, key, mailed>>
    BY <1>1, <1>16, <2>1, UpdateUserEffect DEF redis, codes
  <2>3. At(r, "update") /\ k = "reset"
    BY <1>2, <1>16, <2>2 DEF UpdateUser
  <2>4. Verifiable
    BY <1>2, <2>2, <2>3 DEF CodeIsOnItsWay
  <2> QED BY <2>1, <2>2, <2>3, <2>4 DEF Verifiable, At, Moved, OnlyRequest
<1>17. ASSUME NEW R \in SUBSET Requests, Fail(R)
       PROVE  FALSE
  BY <1>1, <1>2, <1>17, FailEffect
<1>18. ASSUME NEW k \in Keys, KeyExpires(k)
       PROVE  Verifiable'
  <2>1. /\ (k = "verify" => over') /\ (over => over') /\ UNCHANGED <<user, faults, mailed, request>>
        /\ \A o \in Keys \ {k} : key'[o] = key[o]
    BY <1>1, <1>18, KeyExpiresEffect
  <2>2. over \in BOOLEAN /\ over' \in BOOLEAN
    BY <1>1, <1>18, KeyExpiresEffect DEF CountTyped
  <2> QED BY <1>2, <1>3, <2>1, <2>2
<1>19. ASSUME NEW t \in Tokens, TokenExpires(t)
       PROVE  Verifiable'
  <2>1. UNCHANGED <<user, over, faults, key, mailed, request>>
    BY <1>19 DEF TokenExpires, redis, codes
  <2> QED BY <1>3, <2>1
<1>20. CASE UNCHANGED vars
  BY <1>3, <1>20 DEF vars, redis, codes
<1> QED BY <1>5, <1>6, <1>7, <1>8, <1>9, <1>10, <1>11, <1>12, <1>13, <1>14, <1>15, <1>16, <1>17,
           <1>18, <1>19, <1>20, NextCases

(***************************************************************************)
(* Without failures, a user who is not verified can still become so until  *)
(* the code runs out: the only verification code is on its way, stored and *)
(* mailed, or spent by a request that is about to verify the user.         *)
(***************************************************************************)
THEOREM AccountsStayUsable == Spec => []UnverifiedHasCode
<1>1. Init => CodeIsOnItsWay
  BY DEF Init, CodeIsOnItsWay
<1>2. Basics /\ CodeIsOnItsWay /\ [Next]_vars => CodeIsOnItsWay'
  BY CodeIsOnItsWayKept
<1>3. CodeIsOnItsWay => UnverifiedHasCode
  BY DEF CodeIsOnItsWay, Verifiable, UnverifiedHasCode
<1> QED BY <1>1, <1>2, <1>3, BasicsHold, PTL DEF Spec

-----------------------------------------------------------------------------
(* Tokens of a session.                                                    *)

\* Requests that carry each token of T at least once are no fewer than the tokens.
LEMMA OneTokenEach ==
    ASSUME NEW T, NEW R, IsFiniteSet(R), \A t \in T : \E r \in R : request[r].token = t
    PROVE  /\ IsFiniteSet(T) /\ Cardinality(T) <= Cardinality(R)
           /\ Cardinality(T) \in Nat /\ Cardinality(R) \in Nat
<1> DEFINE Q == {r \in R : request[r].token \in T}
<1>1. PICK f : f = [r \in Q |-> request[r].token]
  OBVIOUS
<1>2. f \in [Q -> T] /\ \A t \in T : \E r \in Q : f[r] = t
  BY <1>1
<1>3. f \in Surjection(Q, T)
  BY <1>2 DEF Surjection
<1>4. IsFiniteSet(Q) /\ Cardinality(Q) <= Cardinality(R)
  BY FS_Subset
<1> HIDE DEF Q
<1>5. IsFiniteSet(T) /\ Cardinality(T) <= Cardinality(Q)
  BY <1>3, <1>4, FS_Surjection
<1> QED BY <1>4, <1>5, FS_CardinalityType

\* The sets SessionsAreKept counts are finite.
LEMMA SessionSetsAreFinite ==
    ASSUME Basics, IsFiniteSet(UsedTokens), NEW s
    PROVE  /\ IsFiniteSet(Unrevoked(s)) /\ Cardinality(Unrevoked(s)) \in Nat
           /\ IsFiniteSet(Uncovered(s)) /\ Cardinality(Uncovered(s)) \in Nat
           /\ IsFiniteSet(RevokingOf(s)) /\ Cardinality(RevokingOf(s)) \in Nat
           /\ IsFiniteSet(Opening(Requests, s)) /\ Cardinality(Opening(Requests, s)) \in Nat
           /\ IsFiniteSet(Busy)
<1>1. Unrevoked(s) \subseteq UsedTokens /\ Uncovered(s) \subseteq UsedTokens
  BY DEF Unrevoked, Uncovered, UsedTokens, Live
<1>2. RevokingOf(s) \subseteq Busy /\ Opening(Requests, s) \subseteq Busy
  BY DEF RevokingOf, Opening, Busy, At
<1>3. IsFiniteSet(Busy)
  BY DEF Basics, CallsAreCounted
<1> QED BY <1>1, <1>2, <1>3, FS_Subset, FS_CardinalityType

\* What a request does with the token it carries.
LEMMA RequestFacts ==
    ASSUME Basics, NEW q \in Requests
    PROVE  /\ At(q, "open") => request[q].session \in 1 .. sessions
           /\ At(q, "revoke") => request[q].token \in Tokens /\ token[request[q].token] \in TokenRows
BY DEF Basics, Typed, TokenTyped, RequestTyped, RequestFits, AnswerRows, AnswerSteps, At

\* The two bounds on one session.
AtMost(s) == Cardinality(Uncovered(s)) + Cardinality(RevokingOf(s))
               + Cardinality(Opening(Requests, s)) + dropped[s] <= 1 + rivals[s]
AtLeast(s) == 1 <= Cardinality(Unrevoked(s)) + Cardinality(Opening(Requests, s)) + dropped[s]

\* Nothing about the session s has moved.
SessionStill(s) ==
    /\ Unrevoked(s)' = Unrevoked(s) /\ Uncovered(s)' = Uncovered(s)
    /\ RevokingOf(s)' = RevokingOf(s) /\ Opening(Requests, s)' = Opening(Requests, s)
    /\ dropped'[s] = dropped[s] /\ rivals'[s] = rivals[s]

LEMMA SessionStaysKept ==
    ASSUME NEW s, AtMost(s), AtLeast(s), SessionStill(s)
    PROVE  AtMost(s)' /\ AtLeast(s)'
BY DEF AtMost, AtLeast, SessionStill

\* Requests that neither open nor revoke do not matter to any session.
LEMMA LoginStillKeeps ==
    ASSUME LoginStill, NEW s \in 1 .. sessions
    PROVE  SessionStill(s) /\ UsedTokens' = UsedTokens
<1>1. UNCHANGED <<token, rivals, dropped>>
  BY DEF LoginStill
<1>2. \A q \in Requests : /\ At(q, "open")' <=> At(q, "open")
                          /\ At(q, "revoke")' <=> At(q, "revoke")
                          /\ At(q, "open") \/ At(q, "revoke") => request'[q] = request[q]
  BY DEF LoginStill, At
<1>3. Opening(Requests, s)' = Opening(Requests, s)
  BY <1>2 DEF Opening
<1>4. RevokingOf(s)' = RevokingOf(s)
  BY <1>1, <1>2 DEF RevokingOf
<1>5. \A t \in Tokens : Revoking(t)' = Revoking(t)
  BY <1>2 DEF Revoking
<1>6. Unrevoked(s)' = Unrevoked(s) /\ UsedTokens' = UsedTokens
  BY <1>1 DEF Unrevoked, Live, UsedTokens
<1>7. Uncovered(s)' = Uncovered(s)
  BY <1>5, <1>6 DEF Uncovered, Unrevoked
<1> QED BY <1>1, <1>3, <1>4, <1>6, <1>7 DEF SessionStill

\* A new session has the token that its request is about to create.
LEMMA LoginKeepsSessions ==
    ASSUME Basics, Basics', SessionsAreKept, NEW r \in Requests, Login(r)
    PROVE  SessionsAreKept'
<1>1. /\ Started(r) /\ request'[r].step = "open" /\ request'[r].session = sessions + 1
      /\ sessions \in Nat /\ sessions' = sessions + 1
      /\ UNCHANGED <<token, rivals, dropped>>
  BY LoginEffect DEF Basics
<1>2. sessions + 1 \in 1 .. MaxCalls
  BY <1>1, SessionsFit, BoundsAreNatural DEF Basics, Typed, BoundTyped, CallsAreCounted
<1>3. /\ At(r, "idle") /\ OnlyRequest(r)
  BY <1>1 DEF Started, Moved
<1>4. \A q \in Requests : /\ At(q, "revoke")' <=> At(q, "revoke")
                          /\ At(q, "revoke") => request'[q] = request[q]
                          /\ At(q, "open") => request'[q] = request[q] /\ At(q, "open")'
                          /\ q # r => request'[q] = request[q]
  BY <1>1, <1>3 DEF OnlyRequest, At
<1>5. UsedTokens' = UsedTokens
  BY <1>1 DEF UsedTokens
<1>6. ASSUME NEW s
      PROVE  /\ Unrevoked(s)' = Unrevoked(s) /\ Uncovered(s)' = Uncovered(s)
             /\ RevokingOf(s)' = RevokingOf(s)
  <2>1. Unrevoked(s)' = Unrevoked(s)
    BY <1>1 DEF Unrevoked, Live
  <2>2. \A t \in Tokens : Revoking(t)' = Revoking(t)
    BY <1>4 DEF Revoking
  <2>3. RevokingOf(s)' = RevokingOf(s)
    BY <1>1, <1>4 DEF RevokingOf
  <2> QED BY <2>1, <2>2, <2>3 DEF Uncovered, Unrevoked
<1>7. ASSUME NEW s \in 1 .. sessions
      PROVE  AtMost(s)' /\ AtLeast(s)'
  <2>1. Opening(Requests, s)' = Opening(Requests, s)
    BY <1>1, <1>3, <1>4 DEF Opening, At
  <2>2. AtMost(s) /\ AtLeast(s)
    BY DEF SessionsAreKept, AtMost, AtLeast
  <2> QED BY <1>1, <1>6, <2>1, <2>2, SessionStaysKept DEF SessionStill
<1>8. ASSUME NEW s, s = sessions + 1
      PROVE  AtMost(s)' /\ AtLeast(s)'
  <2>1. Opening(Requests, s)' = {r}
    <3>1. \A q \in Requests : At(q, "open") => request[q].session # s
      BY <1>1, <1>8, RequestFacts
    <3> QED BY <1>1, <1>4, <1>8, <3>1 DEF Opening, At
  <2>2. \A t \in Tokens : token[t] # Unused => token[t].session # s
    BY <1>1, <1>8 DEF Basics, Typed, TokenTyped, TokenRows
  <2>3. Unrevoked(s) = {} /\ Uncovered(s) = {}
    BY <2>2 DEF Unrevoked, Uncovered, Live
  <2>4. RevokingOf(s) = {}
    <3>1. \A q \in Requests : At(q, "revoke") => token[request[q].token].session # s
      BY <1>1, <1>8, RequestFacts DEF TokenRows
    <3> QED BY <3>1 DEF RevokingOf
  <2>5. dropped[s] = 0 /\ rivals[s] \in Nat
    BY <1>1, <1>2, <1>8 DEF SessionsAreKept, Basics, Typed, SessionTyped
  <2>6. /\ Cardinality(Opening(Requests, s)') = 1 /\ Cardinality(Unrevoked(s)') = 0
        /\ Cardinality(Uncovered(s)') = 0 /\ Cardinality(RevokingOf(s)') = 0
    BY <1>6, <2>1, <2>3, <2>4, FS_EmptySet, FS_Singleton
  <2> QED BY <1>1, <2>5, <2>6 DEF AtMost, AtLeast
<1>9. \A s \in 1 .. sessions' : AtMost(s)' /\ AtLeast(s)'
  BY <1>1, <1>7, <1>8
<1>10. \A s \in 1 .. MaxCalls : s > sessions' => dropped'[s] = 0
  BY <1>1 DEF SessionsAreKept
<1> QED BY <1>5, <1>9, <1>10 DEF SessionsAreKept, AtMost, AtLeast

\* A refresh covers its token, or comes too late and is counted.
LEMMA RefreshKeepsSessions ==
    ASSUME Basics, SessionsAreKept, NEW r \in Requests, NEW t \in Tokens, Refresh(r, t)
    PROVE  SessionsAreKept'
<1>1. PICK s : s = token[t].session
  OBVIOUS
<1>2. /\ Started(r) /\ request'[r].step = "revoke" /\ request'[r].token = t
      /\ Live(t) /\ s \in 1 .. sessions /\ s \in 1 .. MaxCalls
      /\ rivals'[s] = IF Revoking(t) = {} THEN rivals[s] ELSE rivals[s] + 1
      /\ \A o \in 1 .. MaxCalls : o # s => rivals'[o] = rivals[o]
      /\ UNCHANGED <<token, sessions, dropped>>
  BY <1>1, SessionsFit, RefreshEffect DEF Basics, login
<1>3. At(r, "idle") /\ OnlyRequest(r) /\ sessions \in Nat /\ sessions <= MaxCalls
  BY <1>2, SessionsFit DEF Started, Moved
<1>4. UsedTokens' = UsedTokens
  BY <1>2 DEF UsedTokens
<1>5. ASSUME NEW o
      PROVE  /\ Unrevoked(o)' = Unrevoked(o) /\ Opening(Requests, o)' = Opening(Requests, o)
             /\ RevokingOf(o)' = IF o = s THEN RevokingOf(o) \cup {r} ELSE RevokingOf(o)
             /\ Uncovered(o)' = Uncovered(o) \ {t}
             /\ r \notin RevokingOf(o)
  <2>1. Unrevoked(o)' = Unrevoked(o)
    BY <1>2 DEF Unrevoked, Live
  <2>2. Opening(Requests, o)' = Opening(Requests, o)
    BY <1>2, <1>3 DEF Opening, OnlyRequest, At
  <2>3. RevokingOf(o)' = IF o = s THEN RevokingOf(o) \cup {r} ELSE RevokingOf(o)
    BY <1>1, <1>2, <1>3 DEF RevokingOf, OnlyRequest, At
  <2>4. \A u \in Tokens : Revoking(u)' = IF u = t THEN Revoking(u) \cup {r} ELSE Revoking(u)
    BY <1>2, <1>3 DEF Revoking, OnlyRequest, At
  <2>5. Uncovered(o)' = Uncovered(o) \ {t}
    BY <2>1, <2>4 DEF Uncovered, Unrevoked
  <2> QED BY <1>3, <2>1, <2>2, <2>3, <2>5 DEF RevokingOf, At
<1>6. ASSUME NEW o \in 1 .. sessions
      PROVE  AtMost(o)' /\ AtLeast(o)'
  <2>a. o \in 1 .. MaxCalls
    BY SessionsFit, BoundsAreNatural
  <2>b. AtMost(o) /\ AtLeast(o)
    BY DEF SessionsAreKept, AtMost, AtLeast
  <2>1. AtMost(o) /\ AtLeast(o) /\ o \in 1 .. MaxCalls
    BY <2>a, <2>b
  <2>2. CASE o # s
    <3>1. t \notin Uncovered(o)
      BY <1>1, <2>2 DEF Uncovered, Unrevoked
    <3>2. SessionStill(o)
      BY <1>2, <1>5, <2>1, <2>2, <3>1 DEF SessionStill
    <3> QED BY <2>1, <3>2, SessionStaysKept
  <2>3. CASE o = s
    <3>1. /\ IsFiniteSet(RevokingOf(o)) /\ Cardinality(RevokingOf(o)) \in Nat
          /\ IsFiniteSet(Uncovered(o)) /\ Cardinality(Uncovered(o)) \in Nat
          /\ Cardinality(Opening(Requests, o)) \in Nat
      BY SessionSetsAreFinite DEF SessionsAreKept
    <3>2. Cardinality(RevokingOf(o)') = Cardinality(RevokingOf(o)) + 1
      BY <1>5, <2>3, <3>1, FS_AddElement
    <3>3. AtLeast(o)'
      BY <1>2, <1>5, <2>1 DEF AtLeast
    <3>4. rivals[o] \in Nat /\ dropped[o] \in Nat
      BY <2>1 DEF Basics, Typed, SessionTyped
    <3>5. CASE Revoking(t) = {}
      <4>1. t \in Uncovered(o)
        BY <1>1, <1>2, <2>3, <3>5 DEF Uncovered, Unrevoked
      <4>2. Cardinality(Uncovered(o)') = Cardinality(Uncovered(o)) - 1
        BY <1>5, <3>1, <4>1, FS_RemoveElement
      <4> QED BY <1>2, <1>5, <2>1, <2>3, <3>1, <3>2, <3>3, <3>4, <3>5, <4>2 DEF AtMost
    <3>6. CASE Revoking(t) # {}
      <4>1. t \notin Uncovered(o)
        BY <3>6 DEF Uncovered
      <4>2. Uncovered(o)' = Uncovered(o)
        BY <1>5, <4>1
      <4> QED BY <1>2, <1>5, <2>1, <2>3, <3>1, <3>2, <3>3, <3>4, <3>6, <4>2 DEF AtMost
    <3> QED BY <3>5, <3>6
  <2> QED BY <2>2, <2>3
<1> QED BY <1>2, <1>4, <1>6 DEF SessionsAreKept, AtMost, AtLeast

\* The token that is revoked was covered by the request, which now opens another.
LEMMA RevokeKeepsSessions ==
    ASSUME Basics, SessionsAreKept, NEW r \in Requests, Revoke(r)
    PROVE  SessionsAreKept'
<1>1. PICK t, s : t = request[r].token /\ s = token[request[r].token].session
  OBVIOUS
<1>2. /\ At(r, "revoke") /\ OnlyRequest(r) /\ request'[r].step = "open" /\ request'[r].session = s
      /\ t \in Tokens /\ token[t] # Unused /\ token'[t] # Unused /\ token'[t].isRevoked
      /\ token'[t].session = s /\ token[t].session = s
      /\ \A u \in Tokens \ {t} : token'[u] = token[u]
      /\ UNCHANGED <<sessions, rivals, dropped>>
  BY <1>1, RevokeEffect DEF Basics, Moved
<1>3. UsedTokens' = UsedTokens
  BY <1>2 DEF UsedTokens
<1>4. \A u \in Tokens : u # t => Revoking(u)' = Revoking(u)
  BY <1>1, <1>2 DEF Revoking, OnlyRequest, At
<1>5. r \in Revoking(t)
  BY <1>1, <1>2 DEF Revoking
<1>6. ASSUME NEW o
      PROVE  /\ Unrevoked(o)' = Unrevoked(o) \ {t}
             /\ Opening(Requests, o)' = IF o = s THEN Opening(Requests, o) \cup {r} ELSE Opening(Requests, o)
             /\ RevokingOf(o)' = RevokingOf(o) \ {r}
             /\ Uncovered(o)' = Uncovered(o)
             /\ r \notin Opening(Requests, o) /\ (r \in RevokingOf(o) <=> o = s)
             /\ o # s => t \notin Unrevoked(o)
  <2>1. Unrevoked(o)' = Unrevoked(o) \ {t}
    BY <1>2 DEF Unrevoked, Live
  <2>2. Opening(Requests, o)' = IF o = s THEN Opening(Requests, o) \cup {r} ELSE Opening(Requests, o)
    BY <1>2 DEF Opening, OnlyRequest, At
  <2>3. \A q \in Requests : At(q, "revoke") => request[q].token \in Tokens
    BY RequestFacts
  <2>4. \A u \in Tokens : token'[u].session = token[u].session
    BY <1>2
  <2>5. RevokingOf(o)' = RevokingOf(o) \ {r}
    BY <1>2, <2>3, <2>4 DEF RevokingOf, OnlyRequest, At
  <2>6. t \notin Uncovered(o)
    BY <1>5 DEF Uncovered
  <2>7. Uncovered(o)' = Uncovered(o)
    BY <1>4, <2>1, <2>6 DEF Uncovered, Unrevoked
  <2>8. r \notin Opening(Requests, o) /\ (r \in RevokingOf(o) <=> o = s) /\ (o # s => t \notin Unrevoked(o))
    BY <1>1, <1>2 DEF Opening, RevokingOf, Unrevoked, At
  <2> QED BY <2>1, <2>2, <2>5, <2>7, <2>8
<1>7. ASSUME NEW o \in 1 .. sessions
      PROVE  AtMost(o)' /\ AtLeast(o)'
  <2>a. o \in 1 .. MaxCalls
    BY SessionsFit, BoundsAreNatural
  <2>b. AtMost(o) /\ AtLeast(o)
    BY DEF SessionsAreKept, AtMost, AtLeast
  <2>1. AtMost(o) /\ AtLeast(o) /\ o \in 1 .. MaxCalls
    BY <2>a, <2>b
  <2>2. CASE o # s
    BY <1>2, <1>6, <2>1, <2>2, SessionStaysKept DEF SessionStill
  <2>3. CASE o = s
    <3>1. /\ IsFiniteSet(RevokingOf(o)) /\ Cardinality(RevokingOf(o)) \in Nat
          /\ Cardinality(Uncovered(o)) \in Nat
          /\ IsFiniteSet(Unrevoked(o)) /\ Cardinality(Unrevoked(o)) \in Nat
          /\ IsFiniteSet(Opening(Requests, o)) /\ Cardinality(Opening(Requests, o)) \in Nat
      BY SessionSetsAreFinite DEF SessionsAreKept
    <3>2. Cardinality(RevokingOf(o)') = Cardinality(RevokingOf(o)) - 1
      BY <1>6, <2>3, <3>1, FS_RemoveElement
    <3>3. Cardinality(Opening(Requests, o)') = Cardinality(Opening(Requests, o)) + 1
      BY <1>6, <2>3, <3>1, FS_AddElement
    <3>4. Cardinality(Unrevoked(o)') \in Nat
      BY <1>6, <3>1, FS_Subset, FS_CardinalityType
    <3>5. rivals[o] \in Nat /\ dropped[o] \in Nat
      BY <2>1 DEF Basics, Typed, SessionTyped
    <3>6. Uncovered(o)' = Uncovered(o) /\ rivals'[o] = rivals[o] /\ dropped'[o] = dropped[o]
      BY <1>2, <1>6
    <3> QED BY <2>1, <3>1, <3>2, <3>3, <3>4, <3>5, <3>6 DEF AtMost, AtLeast
  <2> QED BY <2>2, <2>3
<1> QED BY <1>2, <1>3, <1>7 DEF SessionsAreKept, AtMost, AtLeast

\* The request that opened a session or a rotation is replaced by its token.
LEMMA CreateTokenKeepsSessions ==
    ASSUME Basics, SessionsAreKept, NEW r \in Requests, NEW t \in Tokens, CreateToken(r, t)
    PROVE  SessionsAreKept'
<1>1. PICK s : s = request[r].session
  OBVIOUS
<1>2. /\ At(r, "open") /\ OnlyRequest(r) /\ request'[r].step = "idle"
      /\ token[t] = Unused /\ s \in 1 .. sessions
      /\ token'[t] # Unused /\ ~ token'[t].isRevoked /\ token'[t].session = s
      /\ \A u \in Tokens \ {t} : token'[u] = token[u]
      /\ UNCHANGED <<sessions, rivals, dropped>>
  BY <1>1, CreateTokenEffect DEF Basics, Moved
<1>3. UsedTokens' = UsedTokens \cup {t}
  BY <1>2 DEF UsedTokens
<1>4. IsFiniteSet(UsedTokens')
  BY <1>3, FS_AddElement DEF SessionsAreKept
<1>5. \A q \in Requests : At(q, "revoke") => request[q].token \in Tokens \ {t}
  <2>1. Unused \notin TokenRows
    BY SessionsFit DEF Unused, TokenRows
  <2> QED BY <1>2, <2>1, RequestFacts
<1>6. ASSUME NEW o
      PROVE  /\ Unrevoked(o)' = IF o = s THEN Unrevoked(o) \cup {t} ELSE Unrevoked(o)
             /\ Opening(Requests, o)' = Opening(Requests, o) \ {r}
             /\ RevokingOf(o)' = RevokingOf(o)
             /\ Uncovered(o)' \subseteq IF o = s THEN Uncovered(o) \cup {t} ELSE Uncovered(o)
             /\ o # s => Uncovered(o)' = Uncovered(o)
             /\ r \in Opening(Requests, o) <=> o = s
             /\ t \notin Unrevoked(o) /\ t \notin Uncovered(o)
  <2>1. Unrevoked(o)' = IF o = s THEN Unrevoked(o) \cup {t} ELSE Unrevoked(o)
    BY <1>2 DEF Unrevoked, Live
  <2>2. t \notin Unrevoked(o) /\ t \notin Uncovered(o)
    BY <1>2 DEF Unrevoked, Uncovered, Live
  <2>3. Opening(Requests, o)' = Opening(Requests, o) \ {r} /\ (r \in Opening(Requests, o) <=> o = s)
    BY <1>1, <1>2 DEF Opening, OnlyRequest, At
  <2>4. RevokingOf(o)' = RevokingOf(o)
    BY <1>2, <1>5 DEF RevokingOf, OnlyRequest, At
  <2>5. \A u \in Tokens : Revoking(u)' = Revoking(u)
    BY <1>2 DEF Revoking, OnlyRequest, At
  <2>6. /\ Uncovered(o)' \subseteq IF o = s THEN Uncovered(o) \cup {t} ELSE Uncovered(o)
        /\ o # s => Uncovered(o)' = Uncovered(o)
    BY <2>1, <2>5 DEF Uncovered, Unrevoked
  <2> QED BY <2>1, <2>2, <2>3, <2>4, <2>6
<1>7. ASSUME NEW o \in 1 .. sessions
      PROVE  AtMost(o)' /\ AtLeast(o)'
  <2>a. o \in 1 .. MaxCalls
    BY SessionsFit, BoundsAreNatural
  <2>b. AtMost(o) /\ AtLeast(o)
    BY DEF SessionsAreKept, AtMost, AtLeast
  <2>1. AtMost(o) /\ AtLeast(o) /\ o \in 1 .. MaxCalls
    BY <2>a, <2>b
  <2>2. CASE o # s
    BY <1>2, <1>6, <2>1, <2>2, SessionStaysKept DEF SessionStill
  <2>3. CASE o = s
    <3>1. /\ Cardinality(RevokingOf(o)) \in Nat
          /\ IsFiniteSet(Uncovered(o)) /\ Cardinality(Uncovered(o)) \in Nat
          /\ IsFiniteSet(Unrevoked(o)) /\ Cardinality(Unrevoked(o)) \in Nat
          /\ IsFiniteSet(Opening(Requests, o)) /\ Cardinality(Opening(Requests, o)) \in Nat
      BY SessionSetsAreFinite DEF SessionsAreKept
    <3>2. Cardinality(Unrevoked(o)') = Cardinality(Unrevoked(o)) + 1
      BY <1>6, <2>3, <3>1, FS_AddElement
    <3>3. Cardinality(Opening(Requests, o)') = Cardinality(Opening(Requests, o)) - 1
      BY <1>6, <2>3, <3>1, FS_RemoveElement
    <3>4. /\ IsFiniteSet(Uncovered(o) \cup {t})
          /\ Cardinality(Uncovered(o) \cup {t}) = Cardinality(Uncovered(o)) + 1
      BY <1>6, <3>1, FS_AddElement
    <3>5. /\ Cardinality(Uncovered(o)') <= Cardinality(Uncovered(o)) + 1
          /\ Cardinality(Uncovered(o)') \in Nat
      BY <1>6, <2>3, <3>4, FS_Subset, FS_CardinalityType
    <3>6. rivals[o] \in Nat /\ dropped[o] \in Nat
      BY <2>1 DEF Basics, Typed, SessionTyped
    <3>7. RevokingOf(o)' = RevokingOf(o) /\ rivals'[o] = rivals[o] /\ dropped'[o] = dropped[o]
      BY <1>2, <1>6
    <3> QED BY <2>1, <3>1, <3>2, <3>3, <3>5, <3>6, <3>7 DEF AtMost, AtLeast
  <2> QED BY <2>2, <2>3
<1> QED BY <1>2, <1>4, <1>7 DEF SessionsAreKept, AtMost, AtLeast

\* Requests end: those that were opening are counted, and no more tokens are
\* uncovered than requests were revoking them.
LEMMA FailKeepsSessions ==
    ASSUME Basics, SessionsAreKept, NEW R \in SUBSET Requests, Fail(R)
    PROVE  SessionsAreKept'
<1>1. /\ R \subseteq Busy /\ IsFiniteSet(R) /\ Ended(R)
      /\ \A s \in 1 .. MaxCalls : dropped'[s] = dropped[s] + Cardinality(Opening(R, s))
      /\ UNCHANGED <<token, sessions, rivals>>
  BY FailEffect DEF Basics, login
<1>2. UsedTokens' = UsedTokens
  BY <1>1 DEF UsedTokens
<1>3. ASSUME NEW s
      PROVE  /\ Unrevoked(s)' = Unrevoked(s)
             /\ Opening(Requests, s)' = Opening(Requests, s) \ Opening(R, s)
             /\ Opening(R, s) \subseteq Opening(Requests, s)
             /\ RevokingOf(s)' = RevokingOf(s) \ R
  <2>1. Unrevoked(s)' = Unrevoked(s)
    BY <1>1 DEF Unrevoked, Live
  <2>2. /\ Opening(Requests, s)' = Opening(Requests, s) \ Opening(R, s)
        /\ Opening(R, s) \subseteq Opening(Requests, s)
    BY <1>1 DEF Opening, Ended, At
  <2>3. RevokingOf(s)' = RevokingOf(s) \ R
    BY <1>1 DEF RevokingOf, Ended, At
  <2> QED BY <2>1, <2>2, <2>3
<1>4. ASSUME NEW s
      PROVE  \A t \in Uncovered(s)' \ Uncovered(s) : \E r \in RevokingOf(s) \cap R : request[r].token = t
  <2>1. SUFFICES ASSUME NEW t \in Uncovered(s)', t \notin Uncovered(s)
                 PROVE  \E r \in RevokingOf(s) \cap R : request[r].token = t
    OBVIOUS
  <2>2. t \in Unrevoked(s)' /\ Revoking(t)' = {}
    BY DEF Uncovered
  <2>3. t \in Unrevoked(s) /\ token[t].session = s
    BY <1>3, <2>2 DEF Unrevoked
  <2>4. PICK r \in Requests : At(r, "revoke") /\ request[r].token = t
    BY <2>1, <2>3 DEF Uncovered, Revoking
  <2>5. r \in R
    BY <1>1, <2>2, <2>4 DEF Revoking, Ended, At
  <2> QED BY <2>3, <2>4, <2>5 DEF RevokingOf
<1>5. ASSUME NEW s \in 1 .. sessions
      PROVE  AtMost(s)' /\ AtLeast(s)'
  <2>1. s \in 1 .. MaxCalls
    BY SessionsFit, BoundsAreNatural
  <2>2. AtMost(s) /\ AtLeast(s)
    BY DEF SessionsAreKept, AtMost, AtLeast
  <2>3. rivals[s] \in Nat /\ dropped[s] \in Nat
    BY <2>1 DEF Basics, Typed, SessionTyped
  <2>4. /\ IsFiniteSet(RevokingOf(s)) /\ Cardinality(RevokingOf(s)) \in Nat
        /\ IsFiniteSet(Uncovered(s)) /\ Cardinality(Uncovered(s)) \in Nat
        /\ Cardinality(Unrevoked(s)) \in Nat
        /\ IsFiniteSet(Opening(Requests, s)) /\ Cardinality(Opening(Requests, s)) \in Nat
    BY SessionSetsAreFinite DEF SessionsAreKept
  <2>5. PICK S : S = RevokingOf(s) \cap R
    OBVIOUS
  <2>6. /\ IsFiniteSet(S) /\ Cardinality(S) \in Nat
        /\ Cardinality(RevokingOf(s)') = Cardinality(RevokingOf(s)) - Cardinality(S)
    BY <1>3, <2>4, <2>5, FS_Difference, FS_Subset, FS_CardinalityType
  <2>7. PICK T : T = Uncovered(s)' \ Uncovered(s)
    OBVIOUS
  <2>8. IsFiniteSet(T) /\ Cardinality(T) <= Cardinality(S) /\ Cardinality(T) \in Nat
    BY <1>4, <2>5, <2>6, <2>7, OneTokenEach
  <2>9. /\ IsFiniteSet(Uncovered(s) \cup T)
        /\ Cardinality(Uncovered(s) \cup T)
             = Cardinality(Uncovered(s)) + Cardinality(T) - Cardinality(Uncovered(s) \cap T)
        /\ Cardinality(Uncovered(s) \cap T) = 0
    <3>1. Uncovered(s) \cap T = {}
      BY <2>7
    <3> QED BY <2>4, <2>8, <3>1, FS_Union, FS_EmptySet
  <2>10. Uncovered(s)' \subseteq Uncovered(s) \cup T
    BY <2>7
  <2>11. /\ Cardinality(Uncovered(s)') <= Cardinality(Uncovered(s)) + Cardinality(S)
         /\ Cardinality(Uncovered(s)') \in Nat
    <3>1. Cardinality(Uncovered(s)') <= Cardinality(Uncovered(s) \cup T) /\ Cardinality(Uncovered(s)') \in Nat
      BY <2>9, <2>10, FS_Subset, FS_CardinalityType
    <3> QED BY <2>4, <2>6, <2>8, <2>9, <3>1
  <2>12. /\ Cardinality(Opening(R, s)) \in Nat
         /\ Cardinality(Opening(Requests, s)') = Cardinality(Opening(Requests, s)) - Cardinality(Opening(R, s))
    <3>1. Opening(Requests, s) \cap Opening(R, s) = Opening(R, s)
      BY <1>3
    <3>2. IsFiniteSet(Opening(R, s)) /\ Cardinality(Opening(R, s)) \in Nat
      BY <1>3, <2>4, FS_Subset, FS_CardinalityType
    <3>3. Opening(Requests, s)' = Opening(Requests, s) \ Opening(R, s)
      BY <1>3
    <3>4. Cardinality(Opening(Requests, s) \ Opening(R, s))
            = Cardinality(Opening(Requests, s)) - Cardinality(Opening(R, s))
      BY <2>4, <3>1, FS_Difference
    <3> QED BY <3>2, <3>3, <3>4
  <2>13. dropped'[s] = dropped[s] + Cardinality(Opening(R, s)) /\ rivals'[s] = rivals[s]
         /\ Unrevoked(s)' = Unrevoked(s)
    BY <1>1, <1>3, <2>1
  <2>14. AtMost(s)'
    BY <2>2, <2>3, <2>4, <2>6, <2>11, <2>12, <2>13 DEF AtMost
  <2>15. AtLeast(s)'
    BY <2>2, <2>3, <2>4, <2>12, <2>13 DEF AtLeast
  <2> QED BY <2>14, <2>15
<1>6. ASSUME NEW s \in 1 .. MaxCalls, s > sessions'
      PROVE  dropped'[s] = 0
  <2>1. sessions \in Nat /\ sessions' = sessions
    BY <1>1, SessionsFit
  <2>2. Opening(R, s) = {}
    <3>1. \A q \in Requests : At(q, "open") => request[q].session # s
      BY <1>6, <2>1, RequestFacts
    <3> QED BY <3>1 DEF Opening
  <2>3. dropped[s] = 0
    BY <1>6, <2>1 DEF SessionsAreKept
  <2> QED BY <1>1, <2>2, <2>3, FS_EmptySet
<1> QED BY <1>1, <1>2, <1>5, <1>6 DEF SessionsAreKept, AtMost, AtLeast

LEMMA SessionsAreKeptKept ==
    ASSUME Basics, Basics', SessionsAreKept, [Next]_vars
    PROVE  SessionsAreKept'
<1>1. CASE LoginStill
  <2>1. UNCHANGED <<sessions, dropped>> /\ UsedTokens' = UsedTokens
    BY <1>1 DEF LoginStill, UsedTokens
  <2>2. ASSUME NEW s \in 1 .. sessions
        PROVE  AtMost(s)' /\ AtLeast(s)'
    <3>1. AtMost(s) /\ AtLeast(s)
      BY DEF SessionsAreKept, AtMost, AtLeast
    <3> QED BY <1>1, <3>1, LoginStillKeeps, SessionStaysKept
  <2> QED BY <2>1, <2>2 DEF SessionsAreKept, AtMost, AtLeast
<1>2. ASSUME NEW t \in Tokens, TokenExpires(t)
      PROVE  SessionsAreKept'
  <2>1. /\ token'[t] # Unused /\ Live(t) /\ Live(t)' /\ token'[t].session = token[t].session
        /\ \A u \in Tokens \ {t} : token'[u] = token[u]
        /\ UNCHANGED <<sessions, rivals, dropped, request>>
    BY <1>2, TokenExpiresEffect DEF Basics
  <2>2. /\ \A u \in Tokens : token'[u].session = token[u].session /\ (Live(u)' <=> Live(u))
        /\ UsedTokens' = UsedTokens
    BY <2>1 DEF Live, UsedTokens
  <2>3. ASSUME NEW s \in 1 .. sessions
        PROVE  AtMost(s)' /\ AtLeast(s)'
    <3>1. Unrevoked(s)' = Unrevoked(s)
      BY <2>2 DEF Unrevoked
    <3>2. (\A u \in Tokens : Revoking(u)' = Revoking(u)) /\ Opening(Requests, s)' = Opening(Requests, s)
      BY <2>1 DEF Revoking, Opening, At
    <3>3. RevokingOf(s)' = RevokingOf(s)
      BY <2>1, <2>2, RequestFacts DEF RevokingOf, At
    <3>4. Uncovered(s)' = Uncovered(s)
      BY <3>1, <3>2 DEF Uncovered, Unrevoked
    <3>5. AtMost(s) /\ AtLeast(s)
      BY DEF SessionsAreKept, AtMost, AtLeast
    <3> QED BY <2>1, <3>1, <3>2, <3>3, <3>4, <3>5, SessionStaysKept DEF SessionStill
  <2> QED BY <2>1, <2>2, <2>3 DEF SessionsAreKept, AtMost, AtLeast
<1> QED BY <1>1, <1>2, Views, LoginKeepsSessions, RefreshKeepsSessions, RevokeKeepsSessions,
           CreateTokenKeepsSessions, FailKeepsSessions

\* Tokens that are not revoked are uncovered, or one of the requests is about to revoke them.
LEMMA UnrevokedAreFew ==
    ASSUME Basics, IsFiniteSet(UsedTokens), NEW s
    PROVE  Cardinality(Unrevoked(s)) <= Cardinality(Uncovered(s)) + Cardinality(RevokingOf(s))
<1>1. /\ IsFiniteSet(Unrevoked(s)) /\ IsFiniteSet(Uncovered(s)) /\ IsFiniteSet(RevokingOf(s))
      /\ Cardinality(Uncovered(s)) \in Nat /\ Cardinality(RevokingOf(s)) \in Nat
  BY SessionSetsAreFinite
<1>2. PICK T : T = Unrevoked(s) \ Uncovered(s)
  OBVIOUS
<1>3. ASSUME NEW t \in T
      PROVE  \E r \in RevokingOf(s) : request[r].token = t
  BY <1>2 DEF Uncovered, Unrevoked, Revoking, RevokingOf
<1>4. IsFiniteSet(T) /\ Cardinality(T) <= Cardinality(RevokingOf(s)) /\ Cardinality(T) \in Nat
  BY <1>1, <1>3, OneTokenEach
<1>5. Uncovered(s) \subseteq Unrevoked(s)
  BY DEF Uncovered
<1>6. Cardinality(T) = Cardinality(Unrevoked(s)) - Cardinality(Uncovered(s))
  <2>1. Unrevoked(s) \cap Uncovered(s) = Uncovered(s)
    BY <1>5
  <2> QED BY <1>1, <1>2, <2>1, FS_Difference
<1>7. Cardinality(Unrevoked(s)) \in Nat
  BY <1>1, FS_CardinalityType
<1> QED BY <1>1, <1>4, <1>6, <1>7

(***************************************************************************)
(* A session has a token that is not revoked, one in the making or one     *)
(* lost to a failure; and no more than one, but for the refreshes that     *)
(* found their token about to be revoked by another request.               *)
(***************************************************************************)
THEOREM SessionsKeepTheirToken == Spec => []OneTokenPerSession
<1>1. ASSUME Init
      PROVE  SessionsAreKept
  <2>1. UsedTokens = {} /\ sessions = 0
    BY <1>1 DEF Init, UsedTokens
  <2>2. \A s \in 1 .. MaxCalls : dropped[s] = 0
    BY <1>1 DEF Init
  <2>3. IsFiniteSet(UsedTokens)
    BY <2>1, FS_EmptySet
  <2> QED BY <2>1, <2>2, <2>3 DEF SessionsAreKept
<1>2. Basics /\ Basics' /\ SessionsAreKept /\ [Next]_vars => SessionsAreKept'
  BY SessionsAreKeptKept
<1>3. ASSUME Basics, SessionsAreKept
      PROVE  OneTokenPerSession
  <2>1. ASSUME NEW s \in 1 .. sessions
        PROVE  Cardinality(Unrevoked(s)) + Cardinality(Opening(Requests, s)) + dropped[s]
                 \in 1 .. 1 + rivals[s]
    <3>1. s \in 1 .. MaxCalls
      BY <1>3, SessionsFit, BoundsAreNatural
    <3>2. rivals[s] \in Nat /\ dropped[s] \in Nat
      BY <1>3, <3>1 DEF Basics, Typed, SessionTyped
    <3>3. /\ Cardinality(RevokingOf(s)) \in Nat /\ Cardinality(Uncovered(s)) \in Nat
          /\ Cardinality(Unrevoked(s)) \in Nat /\ Cardinality(Opening(Requests, s)) \in Nat
      BY <1>3, SessionSetsAreFinite DEF SessionsAreKept
    <3>4. Cardinality(Unrevoked(s)) <= Cardinality(Uncovered(s)) + Cardinality(RevokingOf(s))
      BY <1>3, UnrevokedAreFew DEF SessionsAreKept
    <3>5. AtMost(s) /\ AtLeast(s)
      BY <1>3 DEF SessionsAreKept, AtMost, AtLeast
    <3> QED BY <3>2, <3>3, <3>4, <3>5 DEF AtMost, AtLeast
  <2> QED BY <2>1 DEF OneTokenPerSession
<1> QED BY <1>1, <1>2, <1>3, BasicsHold, PTL DEF Spec

=============================================================================
