---------------------------- MODULE Notifications ----------------------------
(***************************************************************************)
(* NotificationService, the listeners, scheduler and administrator that    *)
(* call it, and the worker of its queue.  A member of Notices is           *)
(* a row of the notifications table together with its job.  A member of    *)
(* Makers is an execution of a listener or of the reminder scan; they      *)
(* interleave with each other and with the worker at their awaits.         *)
(* Customer and Host are the two parties of one booking, of one event      *)
(* registration each and of one chat session.                              *)
(***************************************************************************)
EXTENDS Integers, Sequences

CONSTANTS
    Notices, Makers,
    Customer, Host,
    NoNotice,      \* the notice of a maker or worker that has none
    Preferences,   \* pairs of kind and user: the preferences that users change
    Suspendable,   \* users that an administrator may suspend
    Writers,       \* users that write in the chat
    Attendees,     \* users with a registration for an event that is near
    MaxAttempts,   \* attempts that the queue gives a job: 3 in create()
    MaxFaults      \* bound on failures, crashes and answers lost by the mail provider

Users == {Customer, Host}
Kinds == {"booking", "suspension", "reminder", "digest"}

ASSUME NotificationAssumption ==
    /\ Customer # Host
    /\ NoNotice \notin Notices
    /\ Preferences \subseteq {"reminder", "digest"} \X Users
    /\ Suspendable \cup Writers \cup Attendees \subseteq Users
    /\ MaxAttempts \in Nat \ {0}
    /\ MaxFaults \in Nat

VARIABLES
    row,        \* kind, recipientId, status and retryCount; "NONE" before the insert
    maker,      \* how far each maker is, for whom it still has to make notices
    job,        \* state of the job of a notice and its attemptsMade
    worker,     \* how far the worker is with which notice
    mails,      \* external: mails the provider has accepted for a notice
    optedOut,   \* preferences with enabled = false
    suspended,  \* users with isActive = false
    unread,     \* senders with messages in the session that are not read
    stalled,    \* notices whose job was active during a crash once already
    faults,
    overtaken   \* history: notices marked QUEUED after the worker had begun

vars == <<row, maker, job, worker, mails, optedOut, suspended, unread, stalled, faults, overtaken>>
settings == <<optedOut, suspended, unread>>

IdleMaker == [step |-> "idle", kind |-> "booking", to |-> <<>>, notice |-> NoNotice]
IdleWorker == [step |-> "idle", notice |-> NoNotice]
NoRow == [status |-> "NONE", kind |-> "booking", to |-> Customer, retryCount |-> 0]

TypeOK ==
    /\ row \in [Notices ->
            [status : {"NONE", "PENDING", "QUEUED", "SENT", "DELIVERED", "FAILED"},
             kind : Kinds, to : Users, retryCount : 0 .. MaxAttempts - 1]]
    /\ \A k \in Makers :
        /\ maker[k].step \in {"idle", "check", "insert", "add", "mark"}
        /\ maker[k].kind \in Kinds
        /\ maker[k].to \in Seq(Users)
        /\ maker[k].notice \in Notices \cup {NoNotice}
    /\ job \in [Notices -> [state : {"none", "waiting", "active", "done", "failed"},
                            attemptsMade : 0 .. MaxAttempts]]
    /\ worker \in [step : {"idle", "send", "accepted", "refused", "throw", "complete"},
                   notice : Notices \cup {NoNotice}]
    /\ mails \in [Notices -> Nat]
    /\ optedOut \subseteq Preferences
    /\ suspended \subseteq Users /\ unread \subseteq Users /\ stalled \subseteq Notices
    /\ faults \in 0 .. MaxFaults
    /\ overtaken \subseteq Notices

Init ==
    /\ row = [n \in Notices |-> NoRow]
    /\ maker = [k \in Makers |-> IdleMaker]
    /\ job = [n \in Notices |-> [state |-> "none", attemptsMade |-> 0]]
    /\ worker = IdleWorker
    /\ mails = [n \in Notices |-> 0]
    /\ optedOut = {} /\ suspended = {} /\ unread = {} /\ stalled = {}
    /\ faults = 0
    /\ overtaken = {}

-----------------------------------------------------------------------------
(* Users and administrators. *)

UpdatePreference(pref) ==
    /\ optedOut' = IF pref \in optedOut THEN optedOut \ {pref} ELSE optedOut \cup {pref}
    /\ UNCHANGED <<row, maker, job, worker, mails, suspended, unread, stalled, faults, overtaken>>

\* The reader has read what the other one wrote.
ReadMessages(reader) ==
    /\ unread \ {reader} # {}
    /\ unread' = unread \cap {reader}
    /\ UNCHANGED <<row, maker, job, worker, mails, optedOut, suspended, stalled, faults, overtaken>>

-----------------------------------------------------------------------------
(* What starts a maker.  Bound: nothing more happens that needs a notice   *)
(* once every member of Notices is taken.                                  *)

RowIsLeft == \E n \in Notices : row[n].status = "NONE"

Start(k, step, kind, to) ==
    /\ RowIsLeft
    /\ maker[k].step = "idle"
    /\ maker' = [maker EXCEPT ![k] =
            [step |-> step, kind |-> kind, to |-> to, notice |-> NoNotice]]
    /\ UNCHANGED <<row, job, worker, mails, optedOut, stalled, faults, overtaken>>

\* booking.confirmed, booking.cancelled: first the customer, then the host.
BookingEvent(k) ==
    /\ Start(k, "check", "booking", <<Customer, Host>>)
    /\ UNCHANGED <<suspended, unread>>

\* changeUserStatus: the administrator's call that suspends also tells the user.
SuspendUser(k, u) ==
    /\ suspended' = suspended \cup {u}
    /\ Start(k, "check", "suspension", <<u>>)
    /\ UNCHANGED unread

ActivateUser(u) ==
    /\ u \in suspended
    /\ suspended' = suspended \ {u}
    /\ UNCHANGED <<row, maker, job, worker, mails, optedOut, unread, stalled, faults, overtaken>>

\* The reminder scan reaches the registration of u, which has no reminder yet.
ReminderScan(k, u) ==
    /\ ~ \E n \in Notices : row[n].status # "NONE" /\ row[n].kind = "reminder" /\ row[n].to = u
    /\ Start(k, "check", "reminder", <<u>>)
    /\ UNCHANGED <<suspended, unread>>

\* A digest for u is PENDING or QUEUED: the debounce of the chat listener.
DigestWaits(u) ==
    \E n \in Notices :
        row[n].kind = "digest" /\ row[n].to = u /\ row[n].status \in {"PENDING", "QUEUED"}

\* chat.message.sent: the message is in the table by the time the digest is due.
ChatMessage(k, sender, u) ==
    /\ sender # u
    /\ unread' = unread \cup {sender}
    /\ UNCHANGED suspended
    /\ IF DigestWaits(u)
       THEN UNCHANGED <<row, maker, job, worker, mails, optedOut, stalled, faults, overtaken>>
       ELSE Start(k, "insert", "digest", <<u>>)

-----------------------------------------------------------------------------
(* NotificationService.create, and the same steps in the chat listener. *)

\* Transactional kinds skip the preferences; only one skips the suspension.
MayNotify(kind, u) ==
    /\ kind = "reminder" => <<kind, u>> \notin optedOut
    /\ kind # "suspension" => u \notin suspended

\* The maker has dealt with its first recipient.
NextRecipient(m) ==
    IF Len(m.to) > 1
    THEN [m EXCEPT !.step = "check", !.to = Tail(@), !.notice = NoNotice]
    ELSE IdleMaker

Check(k) ==
    /\ maker[k].step = "check"
    /\ maker' = [maker EXCEPT ![k] =
            IF MayNotify(@.kind, Head(@.to)) THEN [@ EXCEPT !.step = "insert"] ELSE NextRecipient(@)]
    /\ UNCHANGED <<row, job, worker, mails, settings, stalled, faults, overtaken>>

\* The rows that are not there yet are interchangeable: the next one is taken.
NextRow == CHOOSE n \in Notices : row[n].status = "NONE"

\* Mutant: the row is marked QUEUED at once, and no job is added.
InsertQueued(k) ==
    /\ maker[k].step = "insert"
    /\ RowIsLeft
    /\ row' = [row EXCEPT ![NextRow] = [status |-> "PENDING", kind |-> maker[k].kind,
                                        to |-> Head(maker[k].to), retryCount |-> 0]]
    /\ maker' = [maker EXCEPT ![k].step = "mark", ![k].notice = NextRow]
    /\ UNCHANGED <<job, worker, mails, settings, stalled, faults, overtaken>>

Insert(k) ==
    /\ maker[k].step = "insert"
    /\ RowIsLeft
    /\ row' = [row EXCEPT ![NextRow] = [status |-> "PENDING", kind |-> maker[k].kind,
                                        to |-> Head(maker[k].to), retryCount |-> 0]]
    /\ maker' = [maker EXCEPT ![k].step = "add", ![k].notice = NextRow]
    /\ UNCHANGED <<job, worker, mails, settings, stalled, faults, overtaken>>

\* deliveryQueue.add; the chat listener is done then.
Add(k) ==
    /\ maker[k].step = "add"
    /\ job' = [job EXCEPT ![maker[k].notice].state = "waiting"]
    /\ maker' = [maker EXCEPT ![k] =
            IF @.kind = "digest" THEN IdleMaker ELSE [@ EXCEPT !.step = "mark"]]
    /\ UNCHANGED <<row, worker, mails, settings, stalled, faults, overtaken>>

\* The row becomes QUEUED, whatever the worker has written meanwhile.
Mark(k) ==
    LET n == maker[k].notice
    IN  /\ maker[k].step = "mark"
        /\ row' = [row EXCEPT ![n].status = "QUEUED"]
        /\ overtaken' = IF row[n].status = "PENDING" THEN overtaken ELSE overtaken \cup {n}
        /\ maker' = [maker EXCEPT ![k] = NextRecipient(@)]
        /\ UNCHANGED <<job, worker, mails, settings, stalled, faults>>

Fault == faults < MaxFaults /\ faults' = faults + 1

\* MySQL or Redis fails: the exception ends the maker, with its other recipients.
MakerFails(k) ==
    /\ maker[k].step # "idle"
    /\ Fault
    /\ maker' = [maker EXCEPT ![k] = IdleMaker]
    /\ UNCHANGED <<row, job, worker, mails, settings, stalled, overtaken>>

-----------------------------------------------------------------------------
(* The worker, which takes one job at a time. *)

Begin(n, step, status) ==
    /\ worker.step = "idle"
    /\ job[n].state = "waiting"
    /\ job' = [job EXCEPT ![n].state = "active"]
    /\ row' = [row EXCEPT ![n].status = status]
    /\ worker' = [step |-> step, notice |-> n]
    /\ UNCHANGED <<maker, mails, settings, stalled, faults, overtaken>>

TakeMail(n) ==
    /\ row[n].kind # "digest"
    /\ Begin(n, "send", "SENT")

\* The recipient has opted out, or nothing in the session is unread.
DigestIsVoid(n) == <<"digest", row[n].to>> \in optedOut \/ unread = {}

\* A void digest is FAILED and throws, so that the queue tries it again later.
TakeDigest(n) ==
    /\ row[n].kind = "digest"
    /\ IF DigestIsVoid(n) THEN Begin(n, "throw", "FAILED") ELSE Begin(n, "send", "SENT")

\* Mutant: an answer that is not ok counts as success.
MailUnchecked ==
    LET n == worker.notice
    IN  /\ worker.step = "send"
        /\ \/ mails' = [mails EXCEPT ![n] = @ + 1]
           \/ UNCHANGED mails
        /\ worker' = [worker EXCEPT !.step = "accepted"]
        /\ UNCHANGED <<row, maker, job, settings, stalled, faults, overtaken>>

\* sendMail reports what the provider answered; an answer may be lost.
Mail ==
    LET n == worker.notice
    IN  /\ worker.step = "send"
        /\ \/ /\ mails' = [mails EXCEPT ![n] = @ + 1]
              /\ worker' = [worker EXCEPT !.step = "accepted"]
              /\ UNCHANGED faults
           \/ /\ mails' = [mails EXCEPT ![n] = @ + 1]
              /\ worker' = [worker EXCEPT !.step = "refused"]
              /\ Fault
           \/ /\ worker' = [worker EXCEPT !.step = "refused"]
              /\ UNCHANGED <<mails, faults>>
        /\ UNCHANGED <<row, maker, job, settings, stalled, overtaken>>

\* Mutant: without its return, the success falls through to the retry.
DeliveredFallsThrough ==
    /\ worker.step = "accepted"
    /\ row' = [row EXCEPT ![worker.notice].status = "DELIVERED"]
    /\ worker' = [worker EXCEPT !.step = "refused"]
    /\ UNCHANGED <<maker, job, mails, settings, stalled, faults, overtaken>>

Delivered ==
    /\ worker.step = "accepted"
    /\ row' = [row EXCEPT ![worker.notice].status = "DELIVERED"]
    /\ worker' = [worker EXCEPT !.step = "complete"]
    /\ UNCHANGED <<maker, job, mails, settings, stalled, faults, overtaken>>

\* Mutant: the limit is compared before this attempt is counted.
LastCountedLate(n) == job[n].attemptsMade >= MaxAttempts
IsLastAttempt(n) == job[n].attemptsMade + 1 >= MaxAttempts

\* The last attempt makes the row FAILED; an earlier one is counted in it.
Refused ==
    LET n == worker.notice
    IN  /\ worker.step = "refused"
        /\ row' = [row EXCEPT ![n] =
                IF IsLastAttempt(n) THEN [@ EXCEPT !.status = "FAILED"]
                ELSE [@ EXCEPT !.retryCount = job[n].attemptsMade + 1]]
        /\ worker' = [worker EXCEPT !.step = "throw"]
        /\ UNCHANGED <<maker, job, mails, settings, stalled, faults, overtaken>>

\* MySQL fails under the worker, which throws before or after the mail.
WorkerFails(n) ==
    /\ \/ worker.step = "idle" /\ job[n].state = "waiting"
       \/ worker.step \in {"accepted", "refused"} /\ worker.notice = n
    /\ Fault
    /\ job' = [job EXCEPT ![n].state = "active"]
    /\ worker' = [step |-> "throw", notice |-> n]
    /\ UNCHANGED <<row, maker, mails, settings, stalled, overtaken>>

-----------------------------------------------------------------------------
(* BullMQ: what becomes of a job after its processor returned or threw. *)

Complete ==
    LET n == worker.notice
    IN  /\ worker.step = "complete"
        /\ job' = [job EXCEPT ![n].state = "done"]
        /\ worker' = IdleWorker
        /\ UNCHANGED <<row, maker, mails, settings, stalled, faults, overtaken>>

Throw ==
    LET n == worker.notice
        made == job[n].attemptsMade + 1
    IN  /\ worker.step = "throw"
        /\ job' = [job EXCEPT ![n] =
                [state |-> IF made >= MaxAttempts THEN "failed" ELSE "waiting",
                 attemptsMade |-> made]]
        /\ worker' = IdleWorker
        /\ UNCHANGED <<row, maker, mails, settings, stalled, faults, overtaken>>

\* The process dies; an active job goes back to waiting once, then it fails.
Crash ==
    /\ Fault
    /\ maker' = [k \in Makers |-> IdleMaker]
    /\ worker' = IdleWorker
    /\ job' = [n \in Notices |->
            IF job[n].state # "active" THEN job[n]
            ELSE [job[n] EXCEPT !.state = IF n \in stalled THEN "failed" ELSE "waiting"]]
    /\ stalled' = stalled \cup {n \in Notices : job[n].state = "active"}
    /\ UNCHANGED <<row, mails, settings, overtaken>>

People ==
    \/ \E pref \in Preferences : UpdatePreference(pref)
    \/ \E u \in Suspendable : ActivateUser(u)
    \/ \E u \in Users : ReadMessages(u)

Make(k) ==
    \/ BookingEvent(k)
    \/ \E u \in Suspendable : SuspendUser(k, u)
    \/ \E u \in Attendees : ReminderScan(k, u)
    \/ \E sender \in Writers, u \in Users : ChatMessage(k, sender, u)
    \/ Check(k)
    \/ Insert(k)
    \/ Add(k)
    \/ Mark(k)
    \/ MakerFails(k)

Work ==
    \/ \E n \in Notices : TakeMail(n) \/ TakeDigest(n)
    \/ Mail
    \/ Delivered
    \/ Refused
    \/ Complete
    \/ Throw

Next ==
    \/ People
    \/ \E k \in Makers : Make(k)
    \/ Work
    \/ \E n \in Notices : WorkerFails(n)
    \/ Crash

Spec == Init /\ [][Next]_vars

-----------------------------------------------------------------------------
(* Properties. *)

(***************************************************************************)
(* Nobody gets a mail twice for nothing: a second mail for one notice      *)
(* needs a lost answer, a database error after the mail or a crash, and    *)
(* each of them costs at most one.                                         *)
(***************************************************************************)
ExtraMailsNeedFaults == \A n \in Notices : mails[n] <= 1 + faults

\* Of which rows the outcome can be told: create() did not mark them late.
Settled(n) == faults = 0 /\ n \notin overtaken /\ \A k \in Makers : maker[k].notice # n

(***************************************************************************)
(* The row of a notice tells what became of it.  DELIVERED means a mail,   *)
(* over retries and crashes.  Without failures a job that is over left its *)
(* outcome in the row, as the retry limit of the worker and that of the    *)
(* queue agree; the exception is a row that create() marked QUEUED after   *)
(* the worker had begun.                                                   *)
(***************************************************************************)
RowTellsOutcome ==
    \A n \in Notices :
        /\ row[n].status = "DELIVERED" => mails[n] > 0
        /\ (Settled(n) /\ job[n].state = "done") => row[n].status = "DELIVERED"
        /\ (Settled(n) /\ job[n].state = "failed") => row[n].status = "FAILED"

(***************************************************************************)
(* No notice is forgotten unnoticed: a row without a job still says        *)
(* PENDING, and it is about to get its job unless a failure stopped a      *)
(* maker.  For a digest such a row is worse than a lost mail, as the       *)
(* debounce of the listener then finds it for ever.                        *)
(***************************************************************************)
NoNoticeIsForgotten ==
    \A n \in Notices :
        (row[n].status # "NONE" /\ job[n].state = "none")
            => /\ row[n].status = "PENDING"
               /\ faults > 0 \/ \E k \in Makers : maker[k].step = "add" /\ maker[k].notice = n
=============================================================================
