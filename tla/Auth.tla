-------------------------------- MODULE Auth --------------------------------
(***************************************************************************)
(* One account in AuthService: its row of users, its one-time codes in     *)
(* Redis, and its refresh tokens.  A request is cut at every await, so     *)
(* what it has read may be out of date when it writes.  Codes, passwords   *)
(* and tokens are names: the n-th code of a key is n, and the password is  *)
(* named after the reset code that set it.                                 *)
(***************************************************************************)
EXTENDS Integers, FiniteSets

CONSTANTS
    Requests, Tokens,
    MaxAttempts,   \* wrong answers after which verifyOtp drops the code
    MaxCalls,      \* bound on the requests that get past their first read
    MaxFaults      \* bound on failures and crashes

ASSUME AuthAssumption ==
    /\ MaxAttempts \in Nat \ {0} /\ MaxCalls \in Nat /\ MaxFaults \in Nat

VARIABLES
    user,      \* the row of users
    key,       \* otp:verify:<email> and otp:reset:<email>
    token,     \* the rows of refresh_tokens
    request,   \* how far each request is, and what it has read
    issued,    \* number of codes stored so far under each key
    mailed,    \* codes that reached the mailbox
    wrong,     \* history: wrong answers counted since the last code was stored
    late,      \* history: writes of a key that had changed since it was read
    used,      \* history: updates of the user made with each code
    over,      \* history: the verification code has expired or was dropped
    sessions,  \* number of logins so far
    rivals,    \* history: reads of a token that another request was about to revoke
    dropped,   \* history: tokens of a session that were not created
    calls,     \* requests that got past their first read so far
    faults

redis == <<key, issued, mailed>>
codes == <<wrong, late, over>>
login == <<token, sessions, rivals, dropped>>
vars == <<user, redis, codes, used, login, request, calls, faults>>

Keys == {"verify", "reset"}
Codes == 1 .. MaxCalls
Typo == 0
Missing == [code |-> Typo, attempts |-> 0, timed |-> FALSE]
Entries == [code : Codes, attempts : Nat, timed : BOOLEAN] \cup {Missing}
Unused == [session |-> 0, isRevoked |-> FALSE, expired |-> FALSE]
Idle == [step |-> "idle"]
AnswerSteps == {"drop", "retry", "spend", "update"}

Live(t) == token[t] # Unused /\ ~ token[t].isRevoked

TypeOK ==
    /\ user \in [exists : BOOLEAN, isVerified : BOOLEAN, password : {Typo} \cup Codes]
    /\ key \in [Keys -> Entries]
    /\ key["verify"].attempts <= MaxAttempts
    /\ \A t \in Tokens : token[t] = Unused \/
            token[t] \in [session : 1 .. sessions, isRevoked : BOOLEAN, expired : BOOLEAN]
    /\ \A r \in Requests :
        \/ request[r].step \in {"idle", "create", "store", "send", "issue"}
        \/ request[r].step \in AnswerSteps /\ request[r].key \in Keys
                                           /\ request[r].data \in Entries \ {Missing}
        \/ request[r].step = "revoke" /\ token[request[r].token] # Unused
        \/ request[r].step = "open" /\ request[r].session \in 1 .. sessions
    /\ issued \in [Keys -> 0 .. MaxCalls]
    /\ \A k \in Keys : mailed[k] \subseteq 1 .. issued[k]
    /\ wrong \in [Keys -> Nat] /\ late \in [Keys -> Nat] /\ over \in BOOLEAN
    /\ used \in [Keys -> [Codes -> Nat]]
    /\ sessions \in 0 .. MaxCalls
    /\ rivals \in [1 .. MaxCalls -> Nat] /\ dropped \in [1 .. MaxCalls -> Nat]
    /\ calls \in 0 .. MaxCalls /\ faults \in 0 .. MaxFaults

Init ==
    /\ user = [exists |-> FALSE, isVerified |-> FALSE, password |-> Typo]
    /\ key = [k \in Keys |-> Missing]
    /\ token = [t \in Tokens |-> Unused]
    /\ request = [r \in Requests |-> Idle]
    /\ issued = [k \in Keys |-> 0] /\ mailed = [k \in Keys |-> {}]
    /\ wrong = [k \in Keys |-> 0] /\ late = [k \in Keys |-> 0] /\ over = FALSE
    /\ used = [k \in Keys |-> [c \in Codes |-> 0]]
    /\ sessions = 0
    /\ rivals = [s \in 1 .. MaxCalls |-> 0]
    /\ dropped = [s \in 1 .. MaxCalls |-> 0]
    /\ calls = 0 /\ faults = 0

Fault == faults < MaxFaults /\ faults' = faults + 1
Goto(r, next) == request' = [request EXCEPT ![r] = next]
At(r, step) == request[r].step = step

Start(r, next) ==
    /\ At(r, "idle") /\ calls < MaxCalls
    /\ calls' = calls + 1
    /\ Goto(r, next)

-----------------------------------------------------------------------------
(* register: the row, the code, the mail. *)

\* An address that has a row is refused.
Register(r) ==
    /\ ~ user.exists
    /\ Start(r, [step |-> "create"])
    /\ UNCHANGED <<user, redis, codes, used, login, faults>>

\* The address is unique, so the loser of two registrations fails.
CreateUser(r) ==
    /\ At(r, "create")
    /\ user' = [user EXCEPT !.exists = TRUE]
    /\ Goto(r, IF user.exists THEN Idle ELSE [step |-> "store"])
    /\ UNCHANGED <<redis, codes, used, login, calls, faults>>

\* SET otp:<k>:<email> with a new code, no wrong answer and 15 minutes to live.
StoreCode(k) ==
    /\ issued' = [issued EXCEPT ![k] = @ + 1]
    /\ key' = [key EXCEPT ![k] = [code |-> issued[k] + 1, attempts |-> 0, timed |-> TRUE]]
    /\ wrong' = [wrong EXCEPT ![k] = 0]

StoreVerifyCode(r) ==
    /\ At(r, "store")
    /\ StoreCode("verify")
    /\ Goto(r, [step |-> "send"])
    /\ UNCHANGED <<user, mailed, late, over, used, login, calls, faults>>

MailVerifyCode(r) ==
    /\ At(r, "send")
    /\ mailed' = [mailed EXCEPT !["verify"] = @ \cup {issued["verify"]}]
    /\ Goto(r, Idle)
    /\ UNCHANGED <<user, key, issued, codes, used, login, calls, faults>>

-----------------------------------------------------------------------------
(* forgotPassword; nobody waits for its mail. *)

ForgotPassword(r) ==
    /\ user.exists
    /\ Start(r, [step |-> "issue"])
    /\ UNCHANGED <<user, redis, codes, used, login, faults>>

StoreResetCode(r) ==
    /\ At(r, "issue")
    /\ StoreCode("reset")
    /\ \/ mailed' = [mailed EXCEPT !["reset"] = @ \cup {issued'["reset"]}] /\ UNCHANGED faults
       \/ Fault /\ UNCHANGED mailed
    /\ Goto(r, Idle)
    /\ UNCHANGED <<user, late, over, used, login, calls>>

-----------------------------------------------------------------------------
(* verifyOtp and resetPassword: the answer is compared with what GET has   *)
(* returned.  Both count wrong answers, and only verifyOtp has a limit.    *)

\* Mutant: one wrong answer too many is counted.
ExhaustedLate(k, data) == k = "verify" /\ data.attempts > MaxAttempts
Exhausted(k, data) == k = "verify" /\ data.attempts >= MaxAttempts

Answer(r, k, c) ==
    LET data == key[k]
        step == IF Exhausted(k, data) THEN "drop"
                ELSE IF data.code = c THEN "spend" ELSE "retry"
    IN  /\ data # Missing
        /\ c \in mailed[k] \cup {Typo}
        /\ Start(r, [step |-> step, key |-> k, data |-> data])
        /\ UNCHANGED <<user, redis, codes, used, login, faults>>

\* The request replaces what is stored by e; late counts what it did not know of.
Put(r, e) ==
    LET k == request[r].key
    IN  /\ key' = [key EXCEPT ![k] = e]
        /\ late' = [late EXCEPT ![k] = IF key[k] = request[r].data THEN @ ELSE @ + 1]
        /\ UNCHANGED <<issued, mailed>>

\* DEL, and the user has to ask for another code.
DropCode(r) ==
    /\ At(r, "drop")
    /\ Put(r, Missing)
    /\ over' = TRUE
    /\ Goto(r, Idle)
    /\ UNCHANGED <<user, wrong, used, login, calls, faults>>

\* Mutant: SET without KEEPTTL.
Forever(k, data) == [data EXCEPT !.attempts = @ + 1, !.timed = FALSE]

\* Mutant: a wrong answer uses the code up.
Forgotten(k, data) == Missing

\* SET ... KEEPTTL: a key that is gone comes back with no time to live.
OneMore(k, data) == [data EXCEPT !.attempts = @ + 1, !.timed = key[k].timed]

CountAttempt(r) ==
    LET k == request[r].key
    IN  /\ At(r, "retry")
        /\ Put(r, OneMore(k, request[r].data))
        /\ wrong' = [wrong EXCEPT ![k] = @ + 1]
        /\ Goto(r, Idle)
        /\ UNCHANGED <<user, over, used, login, calls, faults>>

\* Mutant: the code stays where it is until it expires.
UseCode(r) ==
    /\ At(r, "spend")
    /\ Goto(r, [request[r] EXCEPT !.step = "update"])
    /\ UNCHANGED <<user, redis, codes, used, login, calls, faults>>

SpendCode(r) ==
    /\ At(r, "spend")
    /\ Put(r, Missing)
    /\ Goto(r, [request[r] EXCEPT !.step = "update"])
    /\ UNCHANGED <<user, wrong, over, used, login, calls, faults>>

UpdateUser(r) ==
    LET k == request[r].key
        c == request[r].data.code
    IN  /\ At(r, "update")
        /\ user' = IF k = "verify" THEN [user EXCEPT !.isVerified = TRUE]
                                   ELSE [user EXCEPT !.password = c]
        /\ used' = [used EXCEPT ![k][c] = @ + 1]
        /\ Goto(r, Idle)
        /\ UNCHANGED <<redis, codes, login, calls, faults>>

-----------------------------------------------------------------------------
(* login and refresh: generateTokens adds a row of refresh_tokens. *)

Login(r) ==
    /\ user.exists /\ user.isVerified
    /\ sessions' = sessions + 1
    /\ Start(r, [step |-> "open", session |-> sessions + 1])
    /\ UNCHANGED <<user, redis, codes, used, token, rivals, dropped, faults>>

\* Mutant: a revoked token is as good as another.
Presented(t) == token[t] # Unused /\ ~ token[t].expired
Accepted(t) == Live(t) /\ ~ token[t].expired

Revoking(t) == {q \in Requests : At(q, "revoke") /\ request[q].token = t}

Refresh(r, t) ==
    /\ Accepted(t)
    /\ Start(r, [step |-> "revoke", token |-> t])
    /\ rivals' = [rivals EXCEPT ![token[t].session] = IF Revoking(t) = {} THEN @ ELSE @ + 1]
    /\ UNCHANGED <<user, redis, codes, used, token, sessions, dropped, faults>>

Revoke(r) ==
    LET t == request[r].token
    IN  /\ At(r, "revoke")
        /\ token' = [token EXCEPT ![t].isRevoked = TRUE]
        /\ Goto(r, [step |-> "open", session |-> token[t].session])
        /\ UNCHANGED <<user, redis, codes, used, sessions, rivals, dropped, calls, faults>>

CreateToken(r, t) ==
    /\ At(r, "open")
    /\ token[t] = Unused
    /\ token' = [token EXCEPT ![t] = [session |-> request[r].session,
                                      isRevoked |-> FALSE, expired |-> FALSE]]
    /\ Goto(r, Idle)
    /\ UNCHANGED <<user, redis, codes, used, sessions, rivals, dropped, calls, faults>>

-----------------------------------------------------------------------------
(* Time and failures. *)

KeyExpires(k) ==
    /\ key[k].timed
    /\ key' = [key EXCEPT ![k] = Missing]
    /\ over' = (over \/ k = "verify")
    /\ UNCHANGED <<user, issued, mailed, wrong, late, used, login, request, calls, faults>>

\* (the time of a revoked token is of no interest)
TokenExpires(t) ==
    /\ Accepted(t)
    /\ token' = [token EXCEPT ![t].expired = TRUE]
    /\ UNCHANGED <<user, redis, codes, used, sessions, rivals, dropped, request, calls, faults>>

Opening(R, s) == {r \in R : At(r, "open") /\ request[r].session = s}

\* The requests of R end here: MySQL, Redis or the mail refuses, or the process dies.
Fail(R) ==
    /\ Fault
    /\ \A r \in R : ~ At(r, "idle")
    /\ request' = [r \in Requests |-> IF r \in R THEN Idle ELSE request[r]]
    /\ dropped' = [s \in 1 .. MaxCalls |-> dropped[s] + Cardinality(Opening(R, s))]
    /\ UNCHANGED <<user, redis, codes, used, token, sessions, rivals, calls>>

RequestFails(r) == Fail({r})
Crash == Fail({r \in Requests : ~ At(r, "idle")})

Next ==
    \/ \E r \in Requests :
        \/ Register(r) \/ CreateUser(r) \/ StoreVerifyCode(r) \/ MailVerifyCode(r)
        \/ ForgotPassword(r) \/ StoreResetCode(r)
        \/ \E k \in Keys, c \in Codes \cup {Typo} : Answer(r, k, c)
        \/ DropCode(r) \/ CountAttempt(r) \/ SpendCode(r) \/ UpdateUser(r)
        \/ Login(r) \/ Revoke(r)
        \/ \E t \in Tokens : Refresh(r, t) \/ CreateToken(r, t)
        \/ RequestFails(r)
    \/ Crash
    \/ \E k \in Keys : KeyExpires(k)
    \/ \E t \in Tokens : TokenExpires(t)

Spec == Init /\ [][Next]_vars

-----------------------------------------------------------------------------
(* Properties. *)

(***************************************************************************)
(* As long as no two requests crossed on a key, what is stored there is    *)
(* the last code sent, with every wrong answer to it counted, and it will  *)
(* expire: neither the write-back of a wrong answer nor a new code in      *)
(* between makes the store forget.                                         *)
(***************************************************************************)
CodeIsCurrent ==
    \A k \in Keys :
        late[k] = 0 /\ key[k] # Missing =>
            key[k] = [code |-> issued[k], attempts |-> wrong[k], timed |-> TRUE]

(***************************************************************************)
(* A code is good for one update of the user, and for one more each time   *)
(* that two requests crossed on its key: both read it before one of them   *)
(* deleted it, or a wrong answer brought it back.                          *)
(***************************************************************************)
CodeIsSpentOnce == \A k \in Keys, c \in Codes : used[k][c] <= 1 + late[k]

(***************************************************************************)
(* Nothing sends a verification code twice, so the account has to stay     *)
(* usable: a user who is not verified holds a mailed code that Redis still *)
(* knows, or a request is about to store it, send it or verify the user.   *)
(* Only the end of the code (its time, or too many answers) and a failure  *)
(* leave the account stuck.                                                *)
(***************************************************************************)
UnverifiedHasCode ==
    user.exists /\ ~ user.isVerified /\ ~ over /\ faults = 0 =>
        \/ key["verify"] # Missing /\ key["verify"].code \in mailed["verify"]
        \/ \E r \in Requests : At(r, "store") \/ At(r, "send")
        \/ \E r \in Requests : At(r, "update") /\ request[r].key = "verify"

Unrevoked(s) == {t \in Tokens : Live(t) /\ token[t].session = s}

(***************************************************************************)
(* A session always has a token that is not revoked, being created or lost *)
(* to a failure between the two statements of a rotation; and it has       *)
(* exactly one, plus one at most for each refresh that read a token while  *)
(* another request was about to revoke it.                                 *)
(***************************************************************************)
OneTokenPerSession ==
    \A s \in 1 .. sessions :
        Cardinality(Unrevoked(s)) + Cardinality(Opening(Requests, s)) + dropped[s]
            \in 1 .. 1 + rivals[s]
=============================================================================
