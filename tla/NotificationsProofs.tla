------------------------- MODULE NotificationsProofs -------------------------
(***************************************************************************)
(* Proofs about Notifications, for any numbers of notices, makers,         *)
(* attempts and faults.                                                    *)
(***************************************************************************)
EXTENDS Notifications, TLAPS

-----------------------------------------------------------------------------
(* The types, one variable at a time.  Each maker and the worker are       *)
(* records, which TypeOK does not say of the makers.                       *)

RowRows == [status : {"NONE", "PENDING", "QUEUED", "SENT", "DELIVERED", "FAILED"},
            kind : Kinds, to : Users, retryCount : 0 .. MaxAttempts - 1]
MakerRows == [step : {"idle", "check", "insert", "add", "mark"}, kind : Kinds,
              to : Seq(Users), notice : Notices \cup {NoNotice}]
JobRows == [state : {"none", "waiting", "active", "done", "failed"},
            attemptsMade : 0 .. MaxAttempts]
WorkerRows == [step : {"idle", "send", "accepted", "refused", "throw", "complete"},
               notice : Notices \cup {NoNotice}]

RowTyped == row \in [Notices -> RowRows]
MakerTyped == maker \in [Makers -> MakerRows]
JobTyped == job \in [Notices -> JobRows]
WorkerTyped == worker \in WorkerRows
RestTyped ==
    /\ mails \in [Notices -> Nat]
    /\ optedOut \subseteq Preferences
    /\ suspended \subseteq Users /\ unread \subseteq Users /\ stalled \subseteq Notices
    /\ faults \in 0 .. MaxFaults
    /\ overtaken \subseteq Notices

Typed == RowTyped /\ MakerTyped /\ JobTyped /\ WorkerTyped /\ RestTyped

-----------------------------------------------------------------------------
(* The invariants.                                                         *)

\* A maker has a notice from its insert on, and somebody to tell until its end.
MakersHoldNotices ==
    \A k \in Makers :
        /\ (maker[k].notice = NoNotice) <=> (maker[k].step \in {"idle", "check", "insert"})
        /\ maker[k].step # "idle" => maker[k].to # <<>>

\* What a maker holds is a row of its own, and no job as long as it adds it.
HoldersDiffer ==
    /\ \A k, l \in Makers : maker[k].notice = maker[l].notice => k = l \/ maker[k].notice = NoNotice
    /\ \A k \in Makers :
        /\ maker[k].notice # NoNotice => row[maker[k].notice].status # "NONE"
        /\ maker[k].step = "add" => job[maker[k].notice].state = "none"

\* The worker has the job that is active, and an unfinished job has attempts left.
WorkerHoldsJob ==
    /\ (worker.notice = NoNotice) <=> (worker.step = "idle")
    /\ \A n \in Notices :
        /\ job[n].state = "active" <=> worker.notice = n
        /\ job[n].state # "none" => row[n].status # "NONE"
        /\ job[n].state \in {"none", "waiting", "active"} => job[n].attemptsMade < MaxAttempts

Held == MakersHoldNotices /\ HoldersDiffer /\ WorkerHoldsJob

\* A mail more than the faults explain is the one of a job that is over or ends now.
MailsAreExplained ==
    \A n \in Notices :
        \/ mails[n] <= faults
        \/ /\ mails[n] <= 1 + faults
           /\ \/ job[n].state = "done"
              \/ worker.notice = n /\ worker.step \in {"accepted", "complete"}

\* What the provider accepted before the row says so.
DeliveryIsReal ==
    /\ worker.step = "accepted" => mails[worker.notice] > 0
    /\ \A n \in Notices : row[n].status = "DELIVERED" => mails[n] > 0

\* Without faults, the row is right when the worker ends, and stays right unless marked late.
OutcomeIsTold(n) ==
    /\ row[n].status = "PENDING" => job[n].state \in {"none", "waiting"}
    /\ n \in overtaken
       \/ /\ job[n].state = "done" => row[n].status = "DELIVERED"
          /\ job[n].state = "failed" => row[n].status = "FAILED"
          /\ worker.notice = n /\ worker.step = "complete" => row[n].status = "DELIVERED"
          /\ worker.notice = n /\ worker.step = "throw" /\ IsLastAttempt(n)
                => row[n].status = "FAILED"
OutcomesAreTold == faults = 0 => \A n \in Notices : OutcomeIsTold(n)

-----------------------------------------------------------------------------
(* What the actions do, maker by maker and notice by notice.               *)

\* The notice that an insert takes is a free one.
LEMMA NextRowIsFree ==
    ASSUME RowIsLeft
    PROVE  NextRow \in Notices /\ row[NextRow].status = "NONE"
BY DEF RowIsLeft, NextRow

LEMMA FirstAndRest ==
    ASSUME NEW to \in Seq(Users), to # <<>>
    PROVE  Head(to) \in Users /\ Tail(to) \in Seq(Users) /\ (Len(to) > 1 => Tail(to) # <<>>)
OBVIOUS

\* Nothing but the maker k has moved.
OnlyMaker(k) == \A l \in Makers \ {k} : maker'[l] = maker[l]
\* Nothing but the row, or the job, of n has changed.
OnlyRow(n) == \A o \in Notices \ {n} : row'[o] = row[o]
OnlyJob(n) == \A o \in Notices \ {n} : job'[o] = job[o]

LEMMA IdleMakerTyped ==
    /\ IdleMaker \in MakerRows /\ IdleMaker.step = "idle" /\ IdleMaker.notice = NoNotice
<1>1. Users # {} /\ <<>> \in Seq(Users) /\ "booking" \in Kinds
  BY DEF Users, Kinds
<1> QED BY <1>1 DEF IdleMaker, MakerRows

\* A maker goes on to its next recipient, or stops.
LEMMA NextRecipientTyped ==
    ASSUME NEW m \in MakerRows, m.to # <<>>
    PROVE  /\ NextRecipient(m) \in MakerRows
           /\ NextRecipient(m).step \in {"idle", "check"}
           /\ NextRecipient(m).notice = NoNotice
           /\ NextRecipient(m).step = "check" => NextRecipient(m).to # <<>>
<1>1. CASE Len(m.to) > 1
  <2>1. NextRecipient(m) = [m EXCEPT !.step = "check", !.to = Tail(m.to), !.notice = NoNotice]
    BY <1>1 DEF NextRecipient
  <2>2. m.to \in Seq(Users)
    BY DEF MakerRows
  <2>3. Tail(m.to) \in Seq(Users) /\ Tail(m.to) # <<>>
    BY <1>1, <2>2, FirstAndRest
  <2> QED BY <2>1, <2>3 DEF MakerRows
<1>2. CASE ~(Len(m.to) > 1)
  <2>1. NextRecipient(m) = IdleMaker
    BY <1>2 DEF NextRecipient
  <2> QED BY <2>1, IdleMakerTyped
<1> QED BY <1>1, <1>2

\* A maker moves to a row m.
LEMMA MakerMoves ==
    ASSUME MakerTyped, NEW k \in Makers, NEW m \in MakerRows, maker' = [maker EXCEPT ![k] = m]
    PROVE  MakerTyped' /\ maker'[k] = m /\ OnlyMaker(k)
BY DEF MakerTyped, OnlyMaker

LEMMA StartEffect ==
    ASSUME MakerTyped, NEW k \in Makers, NEW step \in {"check", "insert"}, NEW kind \in Kinds,
           NEW to \in Seq(Users), to # <<>>, Start(k, step, kind, to)
    PROVE  /\ MakerTyped' /\ OnlyMaker(k)
           /\ maker[k].step = "idle" /\ maker'[k].step \in {"check", "insert"}
           /\ maker'[k].to # <<>> /\ maker'[k].notice = NoNotice
<1> DEFINE m == [step |-> step, kind |-> kind, to |-> to, notice |-> NoNotice]
<1>1. m \in MakerRows
  BY DEF MakerRows
<1>2. m.step \in {"check", "insert"} /\ m.to # <<>> /\ m.notice = NoNotice
  OBVIOUS
<1>3. maker' = [maker EXCEPT ![k] = m] /\ maker[k].step = "idle"
  BY DEF Start
<1> HIDE DEF m
<1> QED BY <1>1, <1>2, <1>3, MakerMoves

\* Everything that starts a maker.
Started(k) ==
    \/ BookingEvent(k)
    \/ \E u \in Suspendable : SuspendUser(k, u)
    \/ \E u \in Attendees : ReminderScan(k, u)
    \/ \E sender \in Writers, u \in Users : ChatMessage(k, sender, u)

LEMMA StartedEffect ==
    ASSUME NotificationAssumption, MakerTyped, NEW k \in Makers, Started(k)
    PROVE  /\ MakerTyped'
           /\ UNCHANGED <<row, job, worker, mails, optedOut, stalled, faults, overtaken>>
           /\ \/ UNCHANGED maker
              \/ /\ OnlyMaker(k)
                 /\ maker[k].step = "idle" /\ maker'[k].step \in {"check", "insert"}
                 /\ maker'[k].to # <<>> /\ maker'[k].notice = NoNotice
<1>1. CASE BookingEvent(k)
  <2>1. Start(k, "check", "booking", <<Customer, Host>>)
    BY <1>1 DEF BookingEvent
  <2>2. <<Customer, Host>> \in Seq(Users) /\ <<Customer, Host>> # <<>> /\ "booking" \in Kinds
    BY DEF Users, Kinds
  <2> QED BY <2>1, <2>2, StartEffect DEF Start
<1>2. ASSUME NEW u \in Users, NEW step \in {"check", "insert"}, NEW kind \in Kinds,
             Start(k, step, kind, <<u>>)
      PROVE  /\ MakerTyped'
             /\ UNCHANGED <<row, job, worker, mails, optedOut, stalled, faults, overtaken>>
             /\ OnlyMaker(k)
             /\ maker[k].step = "idle" /\ maker'[k].step \in {"check", "insert"}
             /\ maker'[k].to # <<>> /\ maker'[k].notice = NoNotice
  <2>1. <<u>> \in Seq(Users) /\ <<u>> # <<>>
    OBVIOUS
  <2>2. UNCHANGED <<row, job, worker, mails, optedOut, stalled, faults, overtaken>>
    BY <1>2 DEF Start
  <2> QED BY <1>2, <2>1, <2>2, StartEffect
<1>k. "suspension" \in Kinds /\ "reminder" \in Kinds /\ "digest" \in Kinds
      /\ Suspendable \subseteq Users /\ Attendees \subseteq Users
  BY DEF Kinds, NotificationAssumption
<1>3. CASE \E u \in Suspendable : SuspendUser(k, u)
  BY <1>2, <1>3, <1>k DEF SuspendUser
<1>4. CASE \E u \in Attendees : ReminderScan(k, u)
  BY <1>2, <1>4, <1>k DEF ReminderScan
<1>5. ASSUME NEW sender \in Writers, NEW u \in Users, ChatMessage(k, sender, u)
      PROVE  \/ Start(k, "insert", "digest", <<u>>)
             \/ UNCHANGED <<row, maker, job, worker, mails, optedOut, stalled, faults, overtaken>>
  BY <1>5 DEF ChatMessage
<1>6. CASE \E sender \in Writers, u \in Users : ChatMessage(k, sender, u)
  <2>1. PICK u \in Users : 
             \/ Start(k, "insert", "digest", <<u>>)
             \/ UNCHANGED <<row, maker, job, worker, mails, optedOut, stalled, faults, overtaken>>
    BY <1>5, <1>6
  <2>2. CASE Start(k, "insert", "digest", <<u>>)
    BY <1>2, <1>k, <2>2
  <2>3. CASE UNCHANGED <<row, maker, job, worker, mails, optedOut, stalled, faults, overtaken>>
    BY <2>3 DEF MakerTyped
  <2> QED BY <2>1, <2>2, <2>3
<1> QED BY <1>1, <1>3, <1>4, <1>6 DEF Started

LEMMA CheckEffect ==
    ASSUME MakerTyped, MakersHoldNotices, NEW k \in Makers, Check(k)
    PROVE  /\ MakerTyped' /\ OnlyMaker(k)
           /\ maker[k].step = "check" /\ maker'[k].step \in {"idle", "check", "insert"}
           /\ maker'[k].step # "idle" => maker'[k].to # <<>>
           /\ maker'[k].notice = NoNotice
<1> DEFINE m == IF MayNotify(maker[k].kind, Head(maker[k].to))
                THEN [maker[k] EXCEPT !.step = "insert"] ELSE NextRecipient(maker[k])
<1>t. maker[k] \in MakerRows
  BY DEF MakerTyped
<1>1. maker[k].step = "check" /\ maker[k].to # <<>> /\ maker[k].notice = NoNotice
  BY DEF Check, MakersHoldNotices
<1>2. m \in MakerRows /\ m.step \in {"idle", "check", "insert"} /\ m.notice = NoNotice
      /\ (m.step # "idle" => m.to # <<>>)
  <2>1. CASE m = [maker[k] EXCEPT !.step = "insert"]
    BY <1>t, <1>1, <2>1 DEF MakerRows
  <2>2. CASE m = NextRecipient(maker[k])
    BY <1>t, <1>1, <2>2, NextRecipientTyped
  <2> QED BY <2>1, <2>2
<1>3. maker' = [maker EXCEPT ![k] = m]
  BY DEF Check
<1> HIDE DEF m
<1> QED BY <1>1, <1>2, <1>3, MakerMoves

LEMMA InsertEffect ==
    ASSUME RowTyped, MakerTyped, MakersHoldNotices, NotificationAssumption,
           NEW k \in Makers, Insert(k)
    PROVE  \E n \in Notices :
               /\ RowTyped' /\ OnlyRow(n) /\ row[n].status = "NONE" /\ row'[n].status = "PENDING"
               /\ MakerTyped' /\ OnlyMaker(k) /\ maker[k].step = "insert"
               /\ maker'[k].step = "add" /\ maker'[k].notice = n /\ maker'[k].to # <<>>
<1>t. maker[k] \in MakerRows
  BY DEF MakerTyped
<1>1. maker[k].step = "insert" /\ maker[k].to # <<>>
  BY DEF Insert, MakersHoldNotices
<1>2. PICK n \in Notices : n = NextRow /\ row[n].status = "NONE"
  BY NextRowIsFree DEF Insert
<1> DEFINE r == [status |-> "PENDING", kind |-> maker[k].kind, to |-> Head(maker[k].to), retryCount |-> 0]
           m == [maker[k] EXCEPT !.step = "add", !.notice = n]
<1>3. maker[k].to \in Seq(Users)
  BY <1>t DEF MakerRows
<1>4. Head(maker[k].to) \in Users
  BY <1>1, <1>3, FirstAndRest
<1>5. r \in RowRows /\ r.status = "PENDING"
  BY <1>t, <1>4 DEF RowRows, MakerRows, NotificationAssumption
<1>6. m \in MakerRows /\ m.step = "add" /\ m.notice = n /\ m.to # <<>>
  BY <1>t, <1>1 DEF MakerRows
<1>7. row' = [row EXCEPT ![n] = r]
  BY <1>2 DEF Insert
<1>8. maker' = [maker EXCEPT ![k] = m]
  <2>1. maker' = [maker EXCEPT ![k].step = "add", ![k].notice = n]
    BY <1>2 DEF Insert
  <2> QED BY <2>1 DEF MakerTyped
<1> HIDE DEF r, m
<1>9. RowTyped' /\ OnlyRow(n) /\ row'[n].status = "PENDING"
  BY <1>5, <1>7 DEF RowTyped, OnlyRow
<1> QED BY <1>1, <1>2, <1>6, <1>8, <1>9, MakerMoves

LEMMA AddEffect ==
    ASSUME JobTyped, MakerTyped, Held, NEW k \in Makers, Add(k)
    PROVE  LET n == maker[k].notice
           IN  /\ n \in Notices /\ JobTyped' /\ OnlyJob(n)
               /\ job[n].state = "none" /\ job'[n].state = "waiting"
               /\ job'[n].attemptsMade = job[n].attemptsMade
               /\ MakerTyped' /\ OnlyMaker(k) /\ maker[k].step = "add"
               /\ \/ maker'[k].step = "idle" /\ maker'[k].notice = NoNotice
                  \/ maker'[k].step = "mark" /\ maker'[k].notice = n /\ maker'[k].to # <<>>
<1> DEFINE m == IF maker[k].kind = "digest" THEN IdleMaker ELSE [maker[k] EXCEPT !.step = "mark"]
<1>t. maker[k] \in MakerRows
  BY DEF MakerTyped
<1>1. PICK n : n = maker[k].notice
  OBVIOUS
<1>2. maker[k].step = "add" /\ maker[k].to # <<>> /\ n # NoNotice /\ job[n].state = "none"
  BY <1>1 DEF Add, Held, MakersHoldNotices, HoldersDiffer
<1>3. n \in Notices
  BY <1>t, <1>1, <1>2 DEF MakerRows
<1>4. job' = [job EXCEPT ![n].state = "waiting"]
  BY <1>1 DEF Add
<1>5. job'[n] = [state |-> "waiting", attemptsMade |-> job[n].attemptsMade]
  BY <1>3, <1>4 DEF JobTyped, JobRows
<1>6. JobTyped' /\ OnlyJob(n)
  BY <1>3, <1>4 DEF JobTyped, OnlyJob, JobRows
<1>7. m \in MakerRows
      /\ \/ m.step = "idle" /\ m.notice = NoNotice
         \/ m.step = "mark" /\ m.notice = n /\ m.to # <<>>
  <2>1. CASE m = [maker[k] EXCEPT !.step = "mark"]
    BY <1>t, <1>1, <1>2, <2>1 DEF MakerRows
  <2>2. CASE m = IdleMaker
    BY <2>2, IdleMakerTyped
  <2> QED BY <2>1, <2>2
<1>8. maker' = [maker EXCEPT ![k] = m]
  BY DEF Add
<1> HIDE DEF m
<1>9. MakerTyped' /\ maker'[k] = m /\ OnlyMaker(k)
  BY <1>7, <1>8, MakerMoves
<1> QED BY <1>1, <1>2, <1>3, <1>5, <1>6, <1>7, <1>9

LEMMA MarkEffect ==
    ASSUME RowTyped, MakerTyped, Held, NEW k \in Makers, Mark(k)
    PROVE  LET n == maker[k].notice
           IN  /\ n \in Notices /\ RowTyped' /\ OnlyRow(n)
               /\ row[n].status # "NONE" /\ row'[n].status = "QUEUED"
               /\ overtaken' = IF row[n].status = "PENDING" THEN overtaken ELSE overtaken \cup {n}
               /\ MakerTyped' /\ OnlyMaker(k) /\ maker[k].step = "mark"
               /\ maker'[k].step \in {"idle", "check"} /\ maker'[k].notice = NoNotice
               /\ maker'[k].step = "check" => maker'[k].to # <<>>
<1> DEFINE m == NextRecipient(maker[k])
<1>t. maker[k] \in MakerRows
  BY DEF MakerTyped
<1>1. PICK n : n = maker[k].notice
  OBVIOUS
<1>2. maker[k].step = "mark" /\ maker[k].to # <<>> /\ n # NoNotice /\ row[n].status # "NONE"
  BY <1>1 DEF Mark, Held, MakersHoldNotices, HoldersDiffer
<1>3. n \in Notices
  BY <1>t, <1>1, <1>2 DEF MakerRows
<1>4. row' = [row EXCEPT ![n].status = "QUEUED"]
      /\ overtaken' = IF row[n].status = "PENDING" THEN overtaken ELSE overtaken \cup {n}
  BY <1>1 DEF Mark
<1>5. row'[n].status = "QUEUED"
  BY <1>3, <1>4 DEF RowTyped, RowRows
<1>6. RowTyped' /\ OnlyRow(n)
  BY <1>3, <1>4 DEF RowTyped, OnlyRow, RowRows
<1>7. /\ m \in MakerRows /\ m.step \in {"idle", "check"} /\ m.notice = NoNotice
      /\ m.step = "check" => m.to # <<>>
  BY <1>t, <1>2, NextRecipientTyped
<1>8. maker' = [maker EXCEPT ![k] = m]
  BY DEF Mark
<1> HIDE DEF m
<1>9. MakerTyped' /\ maker'[k] = m /\ OnlyMaker(k)
  BY <1>7, <1>8, MakerMoves
<1> QED BY <1>1, <1>2, <1>3, <1>4, <1>5, <1>6, <1>7, <1>9

\* The worker moves to a row w.
LEMMA BeginEffect ==
    ASSUME RowTyped, JobTyped, NEW n \in Notices, NEW step \in {"send", "throw"},
           NEW status \in {"SENT", "FAILED"}, Begin(n, step, status)
    PROVE  /\ RowTyped' /\ OnlyRow(n) /\ row'[n].status = status
           /\ JobTyped' /\ OnlyJob(n) /\ job[n].state = "waiting" /\ job'[n].state = "active"
           /\ job'[n].attemptsMade = job[n].attemptsMade
           /\ WorkerTyped' /\ worker.step = "idle" /\ worker'.step = step /\ worker'.notice = n
<1>1. row' = [row EXCEPT ![n].status = status] /\ job' = [job EXCEPT ![n].state = "active"]
      /\ worker' = [step |-> step, notice |-> n] /\ worker.step = "idle"
      /\ job[n].state = "waiting"
  BY DEF Begin
<1>2. row'[n].status = status
  BY <1>1 DEF RowTyped, RowRows
<1>3. RowTyped' /\ OnlyRow(n)
  BY <1>1 DEF RowTyped, OnlyRow, RowRows
<1>4. job'[n] = [state |-> "active", attemptsMade |-> job[n].attemptsMade]
  BY <1>1 DEF JobTyped, JobRows
<1>5. JobTyped' /\ OnlyJob(n)
  BY <1>1 DEF JobTyped, OnlyJob, JobRows
<1>6. WorkerTyped' /\ worker'.step = step /\ worker'.notice = n
  BY <1>1 DEF WorkerTyped, WorkerRows
<1> QED BY <1>1, <1>2, <1>3, <1>4, <1>5, <1>6

\* The start of an attempt, with the reason why a digest may be void.
Begun(n) == TakeMail(n) \/ TakeDigest(n)

LEMMA BegunBegins ==
    ASSUME NEW n \in Notices, Begun(n)
    PROVE  Begin(n, "send", "SENT") \/ Begin(n, "throw", "FAILED")
BY DEF Begun, TakeMail, TakeDigest

\* The worker stays with its notice.
LEMMA WorkerMoves ==
    ASSUME WorkerTyped, NEW step \in {"accepted", "refused", "throw", "complete"},
           worker' = [worker EXCEPT !.step = step]
    PROVE  WorkerTyped' /\ worker'.step = step /\ worker'.notice = worker.notice
BY DEF WorkerTyped, WorkerRows

LEMMA WorkerHasNotice ==
    ASSUME WorkerTyped, Held, worker.step # "idle"
    PROVE  worker.notice \in Notices /\ job[worker.notice].state = "active"
BY DEF WorkerTyped, WorkerRows, Held, WorkerHoldsJob

LEMMA MailEffect ==
    ASSUME WorkerTyped, RestTyped, Held, Mail
    PROVE  LET n == worker.notice
           IN  /\ n \in Notices /\ mails' \in [Notices -> Nat]
               /\ \A o \in Notices \ {n} : mails'[o] = mails[o]
               /\ WorkerTyped' /\ worker.step = "send" /\ worker'.notice = n
               /\ \/ mails'[n] = mails[n] + 1 /\ worker'.step = "accepted" /\ faults' = faults
                  \/ mails'[n] = mails[n] + 1 /\ worker'.step = "refused" /\ Fault
                  \/ mails'[n] = mails[n] /\ worker'.step = "refused" /\ faults' = faults
<1>1. PICK n : n = worker.notice
  OBVIOUS
<1>2. worker.step = "send" /\ n \in Notices
  BY <1>1, WorkerHasNotice DEF Mail
<1>t. mails \in [Notices -> Nat]
  BY DEF RestTyped
<1>3. CASE mails' = [mails EXCEPT ![n] = @ + 1]
  <2>1. /\ mails' \in [Notices -> Nat] /\ mails'[n] = mails[n] + 1
        /\ \A o \in Notices \ {n} : mails'[o] = mails[o]
    BY <1>2, <1>3, <1>t
  <2>2. \/ worker' = [worker EXCEPT !.step = "accepted"] /\ faults' = faults
        \/ worker' = [worker EXCEPT !.step = "refused"] /\ Fault
        \/ worker' = [worker EXCEPT !.step = "refused"] /\ faults' = faults /\ mails' = mails
    BY DEF Mail
  <2>3. mails' # mails
    BY <1>2, <1>t, <2>1
  <2> QED BY <1>1, <1>2, <2>1, <2>2, <2>3, WorkerMoves
<1>4. CASE mails' # [mails EXCEPT ![n] = @ + 1]
  <2>1. mails' = mails /\ faults' = faults /\ worker' = [worker EXCEPT !.step = "refused"]
    BY <1>1, <1>4 DEF Mail
  <2> QED BY <1>1, <1>2, <1>t, <2>1, WorkerMoves
<1> QED BY <1>3, <1>4

LEMMA DeliveredEffect ==
    ASSUME RowTyped, WorkerTyped, Held, Delivered
    PROVE  LET n == worker.notice
           IN  /\ n \in Notices /\ RowTyped' /\ OnlyRow(n) /\ row'[n].status = "DELIVERED"
               /\ WorkerTyped' /\ worker.step = "accepted"
               /\ worker'.step = "complete" /\ worker'.notice = n
<1>1. PICK n : n = worker.notice
  OBVIOUS
<1>2. worker.step = "accepted" /\ n \in Notices
  BY <1>1, WorkerHasNotice DEF Delivered
<1>3. row' = [row EXCEPT ![n].status = "DELIVERED"]
      /\ worker' = [worker EXCEPT !.step = "complete"]
  BY <1>1 DEF Delivered
<1>4. row'[n].status = "DELIVERED"
  BY <1>2, <1>3 DEF RowTyped, RowRows
<1>5. RowTyped' /\ OnlyRow(n)
  BY <1>2, <1>3 DEF RowTyped, OnlyRow, RowRows
<1> QED BY <1>1, <1>2, <1>3, <1>4, <1>5, WorkerMoves

LEMMA RefusedEffect ==
    ASSUME NotificationAssumption, RowTyped, JobTyped, WorkerTyped, Held, Refused
    PROVE  LET n == worker.notice
           IN  /\ n \in Notices /\ RowTyped' /\ OnlyRow(n)
               /\ row'[n].status = IF IsLastAttempt(n) THEN "FAILED" ELSE row[n].status
               /\ WorkerTyped' /\ worker.step = "refused"
               /\ worker'.step = "throw" /\ worker'.notice = n
<1>1. PICK n : n = worker.notice
  OBVIOUS
<1>2. worker.step = "refused" /\ n \in Notices
  BY <1>1, WorkerHasNotice DEF Refused
<1>3. worker' = [worker EXCEPT !.step = "throw"]
  BY DEF Refused
<1>4. WorkerTyped' /\ worker'.step = "throw" /\ worker'.notice = n
  BY <1>1, <1>3, WorkerMoves
<1>r. row[n] \in RowRows /\ job[n].attemptsMade \in 0 .. MaxAttempts /\ MaxAttempts \in Nat
  BY <1>2 DEF RowTyped, JobTyped, JobRows, NotificationAssumption
<1>5. CASE IsLastAttempt(n)
  <2>1. row' = [row EXCEPT ![n].status = "FAILED"]
    BY <1>1, <1>5 DEF Refused, RowTyped
  <2>2. row'[n].status = "FAILED"
    BY <1>2, <2>1 DEF RowTyped, RowRows
  <2>3. RowTyped' /\ OnlyRow(n)
    BY <1>2, <2>1 DEF RowTyped, OnlyRow, RowRows
  <2> QED BY <1>1, <1>2, <1>4, <1>5, <2>2, <2>3
<1>6. CASE ~IsLastAttempt(n)
  <2> DEFINE c == job[n].attemptsMade + 1
  <2>1. c \in 0 .. MaxAttempts - 1
    BY <1>r, <1>6 DEF IsLastAttempt
  <2>2. row' = [row EXCEPT ![n].retryCount = c]
    BY <1>1, <1>6 DEF Refused, RowTyped
  <2> HIDE DEF c
  <2>3. row'[n].status = row[n].status
    BY <1>2, <2>2 DEF RowTyped, RowRows
  <2>4. RowTyped' /\ OnlyRow(n)
    BY <1>2, <2>1, <2>2 DEF RowTyped, OnlyRow, RowRows
  <2> QED BY <1>1, <1>2, <1>4, <1>6, <2>3, <2>4
<1> QED BY <1>5, <1>6

LEMMA WorkerFailsEffect ==
    ASSUME JobTyped, WorkerTyped, Held, NEW n \in Notices, WorkerFails(n)
    PROVE  /\ JobTyped' /\ OnlyJob(n) /\ job[n].state \in {"waiting", "active"}
           /\ job'[n].state = "active" /\ job'[n].attemptsMade = job[n].attemptsMade
           /\ WorkerTyped' /\ worker'.step = "throw" /\ worker'.notice = n
           /\ \/ worker.step = "idle" /\ job[n].state = "waiting"
              \/ worker.step \in {"accepted", "refused"} /\ worker.notice = n
<1>1. job' = [job EXCEPT ![n].state = "active"] /\ worker' = [step |-> "throw", notice |-> n]
  BY DEF WorkerFails
<1>2. job'[n] = [state |-> "active", attemptsMade |-> job[n].attemptsMade]
  BY <1>1 DEF JobTyped, JobRows
<1>3. JobTyped' /\ OnlyJob(n)
  BY <1>1 DEF JobTyped, OnlyJob, JobRows
<1>4. WorkerTyped' /\ worker'.step = "throw" /\ worker'.notice = n
  BY <1>1 DEF WorkerTyped, WorkerRows
<1>5. \/ worker.step = "idle" /\ job[n].state = "waiting"
      \/ worker.step \in {"accepted", "refused"} /\ worker.notice = n /\ job[n].state = "active"
  BY WorkerHasNotice DEF WorkerFails
<1> QED BY <1>2, <1>3, <1>4, <1>5

LEMMA IdleWorkerTyped ==
    ASSUME worker' = IdleWorker
    PROVE  WorkerTyped' /\ worker'.step = "idle" /\ worker'.notice = NoNotice
BY DEF IdleWorker, WorkerTyped, WorkerRows

LEMMA CompleteEffect ==
    ASSUME JobTyped, WorkerTyped, Held, Complete
    PROVE  LET n == worker.notice
           IN  /\ n \in Notices /\ JobTyped' /\ OnlyJob(n) /\ job'[n].state = "done"
               /\ WorkerTyped' /\ worker.step = "complete"
               /\ worker'.step = "idle" /\ worker'.notice = NoNotice
<1>1. PICK n : n = worker.notice
  OBVIOUS
<1>2. worker.step = "complete" /\ n \in Notices
  BY <1>1, WorkerHasNotice DEF Complete
<1>3. job' = [job EXCEPT ![n].state = "done"] /\ worker' = IdleWorker
  BY <1>1 DEF Complete
<1>4. job'[n].state = "done"
  BY <1>2, <1>3 DEF JobTyped, JobRows
<1>5. JobTyped' /\ OnlyJob(n)
  BY <1>2, <1>3 DEF JobTyped, OnlyJob, JobRows
<1> QED BY <1>1, <1>2, <1>3, <1>4, <1>5, IdleWorkerTyped

LEMMA ThrowEffect ==
    ASSUME NotificationAssumption, JobTyped, WorkerTyped, Held, Throw
    PROVE  LET n == worker.notice
           IN  /\ n \in Notices /\ JobTyped' /\ OnlyJob(n)
               /\ \/ job'[n].state = "failed" /\ IsLastAttempt(n)
                  \/ job'[n].state = "waiting" /\ job'[n].attemptsMade < MaxAttempts
               /\ WorkerTyped' /\ worker.step = "throw"
               /\ worker'.step = "idle" /\ worker'.notice = NoNotice
<1>1. PICK n : n = worker.notice
  OBVIOUS
<1>2. worker.step = "throw" /\ n \in Notices /\ job[n].state = "active"
  BY <1>1, WorkerHasNotice DEF Throw
<1>3. PICK made : made = job[n].attemptsMade + 1
  OBVIOUS
<1>4. made \in 0 .. MaxAttempts /\ MaxAttempts \in Nat /\ (IsLastAttempt(n) <=> made >= MaxAttempts)
  BY <1>2, <1>3 DEF JobTyped, JobRows, NotificationAssumption, Held, WorkerHoldsJob, IsLastAttempt
<1>5. PICK state \in {"failed", "waiting"} :
         /\ state = IF made >= MaxAttempts THEN "failed" ELSE "waiting"
         /\ job' = [job EXCEPT ![n] = [state |-> state, attemptsMade |-> made]]
  BY <1>1, <1>3 DEF Throw
<1>6. job'[n].state = state /\ job'[n].attemptsMade = made
  BY <1>2, <1>5 DEF JobTyped
<1>7. JobTyped' /\ OnlyJob(n)
  BY <1>2, <1>4, <1>5 DEF JobTyped, OnlyJob, JobRows
<1>8. worker' = IdleWorker
  BY DEF Throw
<1> QED BY <1>1, <1>2, <1>4, <1>5, <1>6, <1>7, <1>8, IdleWorkerTyped

LEMMA CrashEffect ==
    ASSUME JobTyped, Crash
    PROVE  /\ MakerTyped' /\ \A k \in Makers : maker'[k] = IdleMaker
           /\ WorkerTyped' /\ worker'.step = "idle" /\ worker'.notice = NoNotice
           /\ JobTyped'
           /\ \A n \in Notices :
                /\ job'[n].attemptsMade = job[n].attemptsMade
                /\ \/ job'[n].state = job[n].state /\ job[n].state # "active"
                   \/ job'[n].state \in {"failed", "waiting"} /\ job[n].state = "active"
<1>1. maker' = [k \in Makers |-> IdleMaker] /\ worker' = IdleWorker
  BY DEF Crash
<1>2. job' = [n \in Notices |->
                IF job[n].state # "active" THEN job[n]
                ELSE [job[n] EXCEPT !.state = IF n \in stalled THEN "failed" ELSE "waiting"]]
  BY DEF Crash
<1>3. ASSUME NEW n \in Notices
      PROVE  /\ job'[n] \in JobRows
             /\ job'[n].attemptsMade = job[n].attemptsMade
             /\ \/ job'[n].state = job[n].state /\ job[n].state # "active"
                \/ job'[n].state \in {"failed", "waiting"} /\ job[n].state = "active"
  <2>1. job[n] \in JobRows
    BY DEF JobTyped
  <2>2. CASE job[n].state # "active"
    <3>1. job'[n] = job[n]
      BY <1>2, <2>2
    <3> QED BY <2>1, <2>2, <3>1
  <2>3. CASE job[n].state = "active"
    <3>1. PICK state \in {"failed", "waiting"} : job'[n] = [job[n] EXCEPT !.state = state]
      BY <1>2, <2>3
    <3> QED BY <2>1, <2>3, <3>1 DEF JobRows
  <2> QED BY <2>2, <2>3
<1>4. JobTyped'
  BY <1>2, <1>3 DEF JobTyped
<1>5. MakerTyped'
  BY <1>1, IdleMakerTyped DEF MakerTyped
<1> QED BY <1>1, <1>3, <1>4, <1>5, IdleWorkerTyped

-----------------------------------------------------------------------------
(* The invariants are inductive.                                           *)

\* A step that only users and administrators see, or none.
engine == <<row, maker, job, worker, mails, stalled, faults, overtaken>>

\* The maker gives up.
LEMMA MakerFailsEffect ==
    ASSUME MakerTyped, NEW k \in Makers, MakerFails(k)
    PROVE  /\ MakerTyped' /\ OnlyMaker(k) /\ maker'[k].step = "idle" /\ maker'[k].notice = NoNotice
           /\ Fault
<1>1. maker' = [maker EXCEPT ![k] = IdleMaker] /\ Fault
  BY DEF MakerFails
<1> QED BY <1>1, IdleMakerTyped, MakerMoves

LEMMA StepIsOneOf ==
    ASSUME [Next]_vars
    PROVE  \/ UNCHANGED engine
           \/ \E k \in Makers : \/ Started(k) \/ Check(k) \/ Insert(k) \/ Add(k)
                                \/ Mark(k) \/ MakerFails(k)
           \/ \E n \in Notices : Begun(n) \/ WorkerFails(n)
           \/ Mail \/ Delivered \/ Refused \/ Complete \/ Throw \/ Crash
<1>1. ASSUME People PROVE UNCHANGED engine
  BY <1>1 DEF People, UpdatePreference, ActivateUser, ReadMessages, engine
<1>2. ASSUME NEW k \in Makers, Make(k)
      PROVE  Started(k) \/ Check(k) \/ Insert(k) \/ Add(k) \/ Mark(k) \/ MakerFails(k)
  BY <1>2 DEF Make, Started
<1>3. ASSUME Work
      PROVE  \/ \E n \in Notices : Begun(n)
             \/ Mail \/ Delivered \/ Refused \/ Complete \/ Throw
  BY <1>3 DEF Work, Begun
<1>4. ASSUME UNCHANGED vars PROVE UNCHANGED engine
  BY <1>4 DEF vars, engine
<1> QED BY <1>1, <1>2, <1>3, <1>4 DEF Next

LEMMA StartsTyped ==
    ASSUME NotificationAssumption, Init
    PROVE  Typed /\ Held
<1>1. RowTyped
  BY DEF Init, RowTyped, RowRows, NoRow, NotificationAssumption, Users, Kinds
<1>2. MakerTyped
  BY IdleMakerTyped DEF Init, MakerTyped
<1>3. JobTyped
  BY DEF Init, JobTyped, JobRows, NotificationAssumption
<1>4. WorkerTyped
  BY DEF Init, WorkerTyped, WorkerRows, IdleWorker
<1>5. RestTyped
  BY DEF Init, RestTyped, NotificationAssumption
<1>6. MakersHoldNotices /\ HoldersDiffer
  BY IdleMakerTyped DEF Init, MakersHoldNotices, HoldersDiffer
<1>7. WorkerHoldsJob
  BY DEF Init, WorkerHoldsJob, IdleWorker, NotificationAssumption
<1> QED BY <1>1, <1>2, <1>3, <1>4, <1>5, <1>6, <1>7 DEF Typed, Held

LEMMA RestStaysTyped ==
    ASSUME NotificationAssumption, Typed, Held, [Next]_vars
    PROVE  RestTyped'
<1>t. RestTyped /\ MaxFaults \in Nat
  BY DEF Typed, NotificationAssumption
<1>f. ASSUME Fault PROVE faults' \in 0 .. MaxFaults
  BY <1>f, <1>t DEF Fault, RestTyped
<1>p. /\ optedOut' \subseteq Preferences
      /\ suspended' \subseteq Users /\ unread' \subseteq Users
  <2>1. Suspendable \subseteq Users /\ Writers \subseteq Users
    BY DEF NotificationAssumption
  <2>2. CASE People
    BY <1>t, <2>1, <2>2 DEF RestTyped, People, UpdatePreference, ActivateUser, ReadMessages
  <2>3. CASE \E k \in Makers : Make(k)
    BY <1>t, <2>1, <2>3 DEF RestTyped, Make, BookingEvent, SuspendUser, ReminderScan, ChatMessage,
       Start, Check, Insert, Add, Mark, MakerFails, settings
  <2>4. CASE Work \/ Crash \/ (\E n \in Notices : WorkerFails(n)) \/ UNCHANGED vars
    BY <1>t, <2>4 DEF RestTyped, Work, TakeMail, TakeDigest, Begin, Mail, Delivered, Refused, Complete,
       Throw, Crash, WorkerFails, settings, vars
  <2> QED BY <2>2, <2>3, <2>4 DEF Next
<1>s. stalled' \subseteq Notices
  BY <1>t DEF RestTyped, Next, People, UpdatePreference, ActivateUser, ReadMessages, Make,
     BookingEvent, SuspendUser, ReminderScan, ChatMessage, Start, Check, Insert, Add, Mark, MakerFails,
     Work, TakeMail, TakeDigest, Begin, Mail, Delivered, Refused, Complete, Throw, Crash, WorkerFails,
     vars
<1>1. CASE UNCHANGED engine
  BY <1>1, <1>t, <1>p DEF engine, RestTyped
<1>2. ASSUME NEW k \in Makers, Mark(k) PROVE RestTyped'
  <2>1. maker[k].notice \in Notices
    BY <1>2, MarkEffect DEF Typed
  <2> QED BY <1>2, <1>t, <1>p, <2>1 DEF Mark, RestTyped, settings
<1>3. CASE Mail
  <2>1. mails' \in [Notices -> Nat] /\ UNCHANGED <<stalled, overtaken>> /\ (Fault \/ faults' = faults)
    BY <1>3, MailEffect DEF Typed, Mail
  <2> QED BY <2>1, <1>t, <1>p, <1>f DEF RestTyped
<1>4. CASE \/ \E k \in Makers : MakerFails(k)
           \/ \E n \in Notices : WorkerFails(n)
           \/ Crash
  <2>1. Fault /\ UNCHANGED <<mails, overtaken>>
    BY <1>4 DEF MakerFails, WorkerFails, Crash
  <2> QED BY <2>1, <1>t, <1>p, <1>s, <1>f DEF RestTyped
<1>5. CASE \/ \E k \in Makers : Started(k) \/ Check(k) \/ Insert(k) \/ Add(k)
           \/ \E n \in Notices : Begun(n)
           \/ Delivered \/ Refused \/ Complete \/ Throw
  <2>1. UNCHANGED <<mails, stalled, faults, overtaken>>
    BY <1>5 DEF Started, BookingEvent, SuspendUser, ReminderScan, ChatMessage, Start, Check, Insert,
       Add, Begun, TakeMail, TakeDigest, Begin, Delivered, Refused, Complete, Throw
  <2> QED BY <2>1, <1>t, <1>p DEF RestTyped
<1> QED BY <1>1, <1>2, <1>3, <1>4, <1>5, StepIsOneOf

LEMMA StaysTyped ==
    ASSUME NotificationAssumption, Typed, Held, [Next]_vars
    PROVE  Typed'
<1>t. RowTyped /\ MakerTyped /\ JobTyped /\ WorkerTyped /\ RestTyped
      /\ MakersHoldNotices
  BY DEF Typed, Held
<1> SUFFICES RowTyped' /\ MakerTyped' /\ JobTyped' /\ WorkerTyped'
  BY RestStaysTyped DEF Typed
<1>0. ASSUME UNCHANGED row PROVE RowTyped'
  BY <1>0, <1>t DEF RowTyped
<1>a. ASSUME UNCHANGED maker PROVE MakerTyped'
  BY <1>a, <1>t DEF MakerTyped
<1>b. ASSUME UNCHANGED job PROVE JobTyped'
  BY <1>b, <1>t DEF JobTyped
<1>c. ASSUME UNCHANGED worker PROVE WorkerTyped'
  BY <1>c, <1>t DEF WorkerTyped
<1>1. CASE UNCHANGED engine
  BY <1>0, <1>a, <1>b, <1>c, <1>1 DEF engine
<1>2. ASSUME NEW k \in Makers, Started(k) PROVE RowTyped' /\ MakerTyped' /\ JobTyped' /\ WorkerTyped'
  BY <1>2, <1>t, <1>0, <1>b, <1>c, StartedEffect
<1>3. ASSUME NEW k \in Makers, Check(k) PROVE RowTyped' /\ MakerTyped' /\ JobTyped' /\ WorkerTyped'
  <2>1. UNCHANGED <<row, job, worker>>
    BY <1>3 DEF Check
  <2> QED BY <2>1, <1>3, <1>t, <1>0, <1>b, <1>c, CheckEffect
<1>4. ASSUME NEW k \in Makers, Insert(k) PROVE RowTyped' /\ MakerTyped' /\ JobTyped' /\ WorkerTyped'
  <2>1. UNCHANGED <<job, worker>>
    BY <1>4 DEF Insert
  <2> QED BY <2>1, <1>4, <1>t, <1>b, <1>c, InsertEffect
<1>5. ASSUME NEW k \in Makers, Add(k) PROVE RowTyped' /\ MakerTyped' /\ JobTyped' /\ WorkerTyped'
  <2>1. UNCHANGED <<row, worker>>
    BY <1>5 DEF Add
  <2> QED BY <2>1, <1>5, <1>t, <1>0, <1>c, AddEffect
<1>6. ASSUME NEW k \in Makers, Mark(k) PROVE RowTyped' /\ MakerTyped' /\ JobTyped' /\ WorkerTyped'
  <2>1. UNCHANGED <<job, worker>>
    BY <1>6 DEF Mark
  <2> QED BY <2>1, <1>6, <1>t, <1>b, <1>c, MarkEffect
<1>7. ASSUME NEW k \in Makers, MakerFails(k)
      PROVE  RowTyped' /\ MakerTyped' /\ JobTyped' /\ WorkerTyped'
  <2>1. UNCHANGED <<row, job, worker>>
    BY <1>7 DEF MakerFails
  <2> QED BY <2>1, <1>7, <1>t, <1>0, <1>b, <1>c, MakerFailsEffect
<1>8. ASSUME NEW n \in Notices, Begun(n) PROVE RowTyped' /\ MakerTyped' /\ JobTyped' /\ WorkerTyped'
  <2>1. UNCHANGED maker
    BY <1>8, BegunBegins DEF Begin
  <2> QED BY <2>1, <1>8, <1>t, <1>a, BegunBegins, BeginEffect
<1>9. ASSUME NEW n \in Notices, WorkerFails(n)
      PROVE  RowTyped' /\ MakerTyped' /\ JobTyped' /\ WorkerTyped'
  <2>1. UNCHANGED <<row, maker>>
    BY <1>9 DEF WorkerFails
  <2> QED BY <2>1, <1>9, <1>t, <1>0, <1>a, WorkerFailsEffect
<1>10. CASE Mail
  <2>1. UNCHANGED <<row, maker, job>>
    BY <1>10 DEF Mail
  <2> QED BY <2>1, <1>10, <1>t, <1>0, <1>a, <1>b, MailEffect
<1>11. CASE Delivered
  <2>1. UNCHANGED <<maker, job>>
    BY <1>11 DEF Delivered
  <2> QED BY <2>1, <1>11, <1>t, <1>a, <1>b, DeliveredEffect
<1>12. CASE Refused
  <2>1. UNCHANGED <<maker, job>>
    BY <1>12 DEF Refused
  <2> QED BY <2>1, <1>12, <1>t, <1>a, <1>b, RefusedEffect
<1>13. CASE Complete
  <2>1. UNCHANGED <<row, maker>>
    BY <1>13 DEF Complete
  <2> QED BY <2>1, <1>13, <1>t, <1>0, <1>a, CompleteEffect
<1>14. CASE Throw
  <2>1. UNCHANGED <<row, maker>>
    BY <1>14 DEF Throw
  <2> QED BY <2>1, <1>14, <1>t, <1>0, <1>a, ThrowEffect
<1>15. CASE Crash
  <2>1. UNCHANGED row
    BY <1>15 DEF Crash
  <2> QED BY <2>1, <1>15, <1>t, <1>0, CrashEffect
<1> QED BY <1>1, <1>2, <1>3, <1>4, <1>5, <1>6, <1>7, <1>8, <1>9, <1>10, <1>11, <1>12, <1>13,
           <1>14, <1>15, StepIsOneOf

\* The steps of the worker and its queue, without the crash.
Worked ==
    \/ \E n \in Notices : Begun(n) \/ WorkerFails(n)
    \/ Mail \/ Delivered \/ Refused \/ Complete \/ Throw

\* The worker neither makes rows nor jobs nor takes them away.
LEMMA WorkerMakesNothing ==
    ASSUME NotificationAssumption, Typed, Held, Worked
    PROVE  /\ UNCHANGED maker
           /\ \A n \in Notices : /\ (row'[n].status = "NONE") <=> (row[n].status = "NONE")
                                 /\ (job'[n].state = "none") <=> (job[n].state = "none")
<1>t. RowTyped /\ MakerTyped /\ JobTyped /\ WorkerTyped /\ RestTyped
  BY DEF Typed
<1>h. \A n \in Notices : job[n].state # "none" => row[n].status # "NONE"
  BY DEF Held, WorkerHoldsJob
<1>1. ASSUME NEW n \in Notices, Begun(n)
      PROVE  /\ UNCHANGED maker /\ OnlyRow(n) /\ OnlyJob(n)
             /\ row'[n].status # "NONE" /\ row[n].status # "NONE"
             /\ job'[n].state # "none" /\ job[n].state # "none"
  <2>1. PICK step \in {"send", "throw"}, status \in {"SENT", "FAILED"} : Begin(n, step, status)
    BY <1>1, BegunBegins
  <2>2. UNCHANGED maker
    BY <2>1 DEF Begin
  <2> QED BY <1>t, <1>h, <2>1, <2>2, BeginEffect
<1>2. ASSUME NEW n \in Notices, WorkerFails(n)
      PROVE  /\ UNCHANGED <<maker, row>> /\ OnlyJob(n)
             /\ job'[n].state # "none" /\ job[n].state # "none"
  <2>1. UNCHANGED <<maker, row>>
    BY <1>2 DEF WorkerFails
  <2> QED BY <1>2, <1>t, <2>1, WorkerFailsEffect
<1>3. CASE \E n \in Notices : Begun(n) \/ WorkerFails(n)
  BY <1>1, <1>2, <1>3 DEF OnlyRow, OnlyJob
<1>4. CASE Mail
  BY <1>4 DEF Mail
<1>5. CASE Delivered \/ Refused
  <2>1. UNCHANGED <<maker, job>> /\ worker.step # "idle"
    BY <1>5 DEF Delivered, Refused
  <2>2. worker.notice \in Notices /\ job[worker.notice].state = "active"
    BY <2>1, <1>t, WorkerHasNotice
  <2>3. row[worker.notice].status # "NONE"
    BY <1>h, <2>2
  <2>4. OnlyRow(worker.notice) /\ row'[worker.notice].status # "NONE"
    BY <1>5, <1>t, <2>3, DeliveredEffect, RefusedEffect
  <2> QED BY <2>1, <2>3, <2>4 DEF OnlyRow
<1>6. CASE Complete \/ Throw
  <2>1. UNCHANGED <<maker, row>> /\ worker.step # "idle"
    BY <1>6 DEF Complete, Throw
  <2>2. worker.notice \in Notices /\ job[worker.notice].state = "active"
    BY <2>1, <1>t, WorkerHasNotice
  <2>3. OnlyJob(worker.notice) /\ job'[worker.notice].state # "none"
    BY <1>6, <1>t, CompleteEffect, ThrowEffect
  <2> QED BY <2>1, <2>2, <2>3 DEF OnlyJob
<1> QED BY <1>3, <1>4, <1>5, <1>6 DEF Worked

LEMMA MakersStayHolding ==
    ASSUME NotificationAssumption, Typed, Held, [Next]_vars
    PROVE  MakersHoldNotices' /\ HoldersDiffer'
<1>t. RowTyped /\ MakerTyped /\ JobTyped /\ WorkerTyped /\ RestTyped
      /\ NoNotice \notin Notices
      /\ \A k \in Makers : maker[k].notice \in Notices \cup {NoNotice}
  BY DEF Typed, MakerTyped, MakerRows, NotificationAssumption
<1>h. MakersHoldNotices /\ HoldersDiffer /\ WorkerHoldsJob
  BY DEF Held
<1>0. ASSUME UNCHANGED maker,
             \A n \in Notices : /\ (row'[n].status = "NONE") <=> (row[n].status = "NONE")
                                /\ (job'[n].state = "none") <=> (job[n].state = "none")
      PROVE  MakersHoldNotices' /\ HoldersDiffer'
  <2>1. \A k \in Makers : maker[k].step = "add" => maker[k].notice \in Notices
    BY <1>t, <1>h DEF MakersHoldNotices
  <2> QED BY <1>0, <1>t, <1>h, <2>1 DEF MakersHoldNotices, HoldersDiffer
<1>1. CASE UNCHANGED engine
  BY <1>0, <1>1 DEF engine
<1>2. CASE Worked
  BY <1>0, <1>2, WorkerMakesNothing
<1>3. ASSUME NEW k \in Makers, OnlyMaker(k), maker'[k].notice = NoNotice,
             maker'[k].step \in {"idle", "check", "insert"},
             maker'[k].step # "idle" => maker'[k].to # <<>>,
             \A n \in Notices : row[n].status # "NONE" => row'[n].status # "NONE",
             \A n \in Notices : n # maker[k].notice /\ job[n].state = "none" => job'[n].state = "none"
      PROVE  MakersHoldNotices' /\ HoldersDiffer'
  <2>1. MakersHoldNotices'
    BY <1>3, <1>h DEF MakersHoldNotices, OnlyMaker
  <2>2. ASSUME NEW l \in Makers, NEW o \in Makers, maker'[l].notice = maker'[o].notice,
               maker'[l].notice # NoNotice
        PROVE  l = o
    BY <1>3, <1>h, <2>2 DEF HoldersDiffer, OnlyMaker
  <2>3. ASSUME NEW l \in Makers, maker'[l].notice # NoNotice
        PROVE  row'[maker'[l].notice].status # "NONE"
    BY <1>3, <1>h, <1>t, <2>3 DEF HoldersDiffer, OnlyMaker
  <2>4. ASSUME NEW l \in Makers, maker'[l].step = "add"
        PROVE  job'[maker'[l].notice].state = "none"
    <3>1. l # k /\ maker'[l] = maker[l]
      BY <1>3, <2>4 DEF OnlyMaker
    <3>2. maker[l].notice \in Notices /\ job[maker[l].notice].state = "none"
      BY <1>h, <1>t, <2>4, <3>1 DEF HoldersDiffer, MakersHoldNotices
    <3>3. maker[l].notice # maker[k].notice
      BY <1>h, <1>t, <3>1, <3>2 DEF HoldersDiffer
    <3> QED BY <1>3, <3>1, <3>2, <3>3
  <2> QED BY <2>1, <2>2, <2>3, <2>4 DEF HoldersDiffer
<1>4. ASSUME NEW k \in Makers, Started(k) PROVE MakersHoldNotices' /\ HoldersDiffer'
  <2>1. UNCHANGED <<row, job>>
    BY <1>4, <1>t, StartedEffect
  <2>2. CASE UNCHANGED maker
    BY <1>0, <2>1, <2>2
  <2>3. CASE ~UNCHANGED maker
    BY <1>3, <1>4, <1>t, <2>1, <2>3, StartedEffect
  <2> QED BY <2>2, <2>3
<1>5. ASSUME NEW k \in Makers, Check(k) PROVE MakersHoldNotices' /\ HoldersDiffer'
  <2>1. UNCHANGED <<row, job>>
    BY <1>5 DEF Check
  <2> QED BY <1>3, <1>5, <1>t, <1>h, <2>1, CheckEffect
<1>6. ASSUME NEW k \in Makers, MakerFails(k) PROVE MakersHoldNotices' /\ HoldersDiffer'
  <2>1. UNCHANGED <<row, job>>
    BY <1>6 DEF MakerFails
  <2> QED BY <1>3, <1>6, <1>t, <2>1, MakerFailsEffect
<1>7. ASSUME NEW k \in Makers, Mark(k) PROVE MakersHoldNotices' /\ HoldersDiffer'
  <2>1. UNCHANGED job
    BY <1>7 DEF Mark
  <2>2. \A n \in Notices : row[n].status # "NONE" => row'[n].status # "NONE"
    BY <1>7, <1>t, MarkEffect DEF OnlyRow
  <2>3. /\ OnlyMaker(k) /\ maker'[k].notice = NoNotice
        /\ maker'[k].step \in {"idle", "check", "insert"}
        /\ maker'[k].step # "idle" => maker'[k].to # <<>>
    BY <1>7, <1>t, MarkEffect
  <2> QED BY <1>3, <2>1, <2>2, <2>3
<1>8. ASSUME NEW k \in Makers, Insert(k) PROVE MakersHoldNotices' /\ HoldersDiffer'
  <2>1. UNCHANGED job
    BY <1>8 DEF Insert
  <2>2. PICK n \in Notices :
           /\ OnlyRow(n) /\ row[n].status = "NONE" /\ row'[n].status = "PENDING"
           /\ OnlyMaker(k) /\ maker'[k].step = "add" /\ maker'[k].notice = n
           /\ maker'[k].to # <<>>
    BY <1>8, <1>t, <1>h, InsertEffect
  <2>3. job'[n].state = "none"
    BY <1>h, <2>1, <2>2 DEF WorkerHoldsJob
  <2>4. \A l \in Makers \ {k} : maker'[l] = maker[l] /\ maker[l].notice # n
    BY <1>h, <1>t, <2>2 DEF HoldersDiffer, OnlyMaker
  <2>5. MakersHoldNotices'
    BY <1>t, <1>h, <2>2, <2>4 DEF MakersHoldNotices
  <2>6. ASSUME NEW l \in Makers, NEW o \in Makers, maker'[l].notice = maker'[o].notice,
               maker'[l].notice # NoNotice
        PROVE  l = o
    BY <1>h, <2>2, <2>4, <2>6 DEF HoldersDiffer
  <2>7. ASSUME NEW l \in Makers, maker'[l].notice # NoNotice
        PROVE  row'[maker'[l].notice].status # "NONE"
    BY <1>h, <1>t, <2>2, <2>4, <2>7 DEF HoldersDiffer, OnlyRow
  <2>8. ASSUME NEW l \in Makers, maker'[l].step = "add"
        PROVE  job'[maker'[l].notice].state = "none"
    BY <1>h, <2>1, <2>2, <2>3, <2>4, <2>8 DEF HoldersDiffer
  <2> QED BY <2>5, <2>6, <2>7, <2>8 DEF HoldersDiffer
<1>9. ASSUME NEW k \in Makers, Add(k) PROVE MakersHoldNotices' /\ HoldersDiffer'
  <2>1. UNCHANGED row
    BY <1>9 DEF Add
  <2>2. PICK n \in Notices :
           /\ n = maker[k].notice /\ OnlyJob(n) /\ OnlyMaker(k)
           /\ \/ maker'[k].step = "idle" /\ maker'[k].notice = NoNotice
              \/ maker'[k].step = "mark" /\ maker'[k].notice = n /\ maker'[k].to # <<>>
    BY <1>9, <1>t, AddEffect
  <2>3. CASE maker'[k].step = "idle" /\ maker'[k].notice = NoNotice
    BY <1>3, <2>1, <2>2, <2>3 DEF OnlyJob
  <2>4. CASE maker'[k].step = "mark" /\ maker'[k].notice = n /\ maker'[k].to # <<>>
    <3>1. \A l \in Makers \ {k} : maker'[l] = maker[l] /\ maker[l].notice # n
      BY <1>h, <1>t, <2>2 DEF HoldersDiffer, OnlyMaker
    <3>2. MakersHoldNotices'
      BY <1>t, <1>h, <2>4, <3>1 DEF MakersHoldNotices
    <3>3. \A l \in Makers : maker'[l].notice = maker[l].notice
      BY <2>2, <2>4, <3>1
    <3>4. ASSUME NEW l \in Makers, maker'[l].step = "add"
          PROVE  job'[maker'[l].notice].state = "none"
      <4>1. l # k /\ maker[l].step = "add" /\ maker'[l] = maker[l] /\ maker[l].notice # n
        BY <2>4, <3>1, <3>4
      <4>2. maker[l].notice \in Notices /\ job[maker[l].notice].state = "none"
        BY <1>h, <1>t, <4>1 DEF HoldersDiffer, MakersHoldNotices
      <4> QED BY <2>2, <4>1, <4>2 DEF OnlyJob
    <3> QED BY <1>h, <2>1, <3>2, <3>3, <3>4 DEF HoldersDiffer
  <2> QED BY <2>2, <2>3, <2>4
<1>10. CASE Crash
  <2>1. \A k \in Makers : maker'[k].step = "idle" /\ maker'[k].notice = NoNotice
    BY <1>10, <1>t, CrashEffect, IdleMakerTyped
  <2> QED BY <2>1 DEF MakersHoldNotices, HoldersDiffer
<1> QED BY <1>1, <1>2, <1>4, <1>5, <1>6, <1>7, <1>8, <1>9, <1>10, StepIsOneOf DEF Worked

\* What WorkerHoldsJob says of a notice.
JobFits(n) ==
    /\ job[n].state = "active" <=> worker.notice = n
    /\ job[n].state # "none" => row[n].status # "NONE"
    /\ job[n].state \in {"none", "waiting", "active"} => job[n].attemptsMade < MaxAttempts

LEMMA WorkerStaysHolding ==
    ASSUME NotificationAssumption, Typed, Held, [Next]_vars
    PROVE  WorkerHoldsJob'
<1>t. RowTyped /\ MakerTyped /\ JobTyped /\ WorkerTyped /\ RestTyped
      /\ NoNotice \notin Notices
  BY DEF Typed, NotificationAssumption
<1>h. /\ (worker.notice = NoNotice) <=> (worker.step = "idle")
      /\ \A n \in Notices : JobFits(n)
  BY DEF Held, WorkerHoldsJob, JobFits
<1> SUFFICES ((worker'.notice = NoNotice) <=> (worker'.step = "idle"))
             /\ \A n \in Notices : JobFits(n)'
  BY DEF WorkerHoldsJob, JobFits
<1>0. ASSUME NEW o \in Notices, row'[o] = row[o], job'[o] = job[o],
             worker.notice = o <=> worker'.notice = o
      PROVE  JobFits(o)'
  BY <1>0, <1>h DEF JobFits
<1>1. CASE UNCHANGED engine
  BY <1>1, <1>h DEF engine, JobFits
<1>2. CASE \E k \in Makers : Started(k) \/ Check(k) \/ MakerFails(k)
  <2>1. UNCHANGED <<row, job, worker>>
    BY <1>2, <1>t, StartedEffect DEF Check, MakerFails
  <2> QED BY <1>h, <2>1 DEF JobFits
<1>3. ASSUME NEW k \in Makers, Insert(k) \/ Mark(k)
      PROVE  ((worker'.notice = NoNotice) <=> (worker'.step = "idle"))
             /\ \A n \in Notices : JobFits(n)'
  <2>1. UNCHANGED <<job, worker>>
    BY <1>3 DEF Insert, Mark
  <2>2. PICK n \in Notices : OnlyRow(n) /\ row'[n].status # "NONE"
    BY <1>3, <1>t, InsertEffect, MarkEffect DEF Held
  <2>3. JobFits(n)'
    BY <1>h, <2>1, <2>2 DEF JobFits
  <2> QED BY <1>0, <1>h, <2>1, <2>2, <2>3 DEF OnlyRow
<1>4. ASSUME NEW k \in Makers, Add(k)
      PROVE  ((worker'.notice = NoNotice) <=> (worker'.step = "idle"))
             /\ \A n \in Notices : JobFits(n)'
  <2>1. UNCHANGED <<row, worker>>
    BY <1>4 DEF Add
  <2>2. PICK n \in Notices :
           /\ n = maker[k].notice /\ OnlyJob(n) /\ job[n].state = "none"
           /\ job'[n].state = "waiting" /\ job'[n].attemptsMade = job[n].attemptsMade
           /\ maker[k].step = "add"
    BY <1>4, <1>t, AddEffect
  <2>3. row[n].status # "NONE"
    BY <1>t, <2>2 DEF Held, HoldersDiffer, MakersHoldNotices
  <2>4. JobFits(n)'
    BY <1>h, <2>1, <2>2, <2>3 DEF JobFits
  <2> QED BY <1>0, <1>h, <2>1, <2>2, <2>4 DEF OnlyJob
<1>5. ASSUME NEW n \in Notices, Begun(n)
      PROVE  ((worker'.notice = NoNotice) <=> (worker'.step = "idle"))
             /\ \A o \in Notices : JobFits(o)'
  <2>1. PICK step \in {"send", "throw"}, status \in {"SENT", "FAILED"} : Begin(n, step, status)
    BY <1>5, BegunBegins
  <2>2. /\ OnlyRow(n) /\ row'[n].status = status
        /\ OnlyJob(n) /\ job[n].state = "waiting" /\ job'[n].state = "active"
        /\ job'[n].attemptsMade = job[n].attemptsMade
        /\ worker.step = "idle" /\ worker'.step = step /\ worker'.notice = n
    BY <1>t, <2>1, BeginEffect
  <2>3. JobFits(n)'
    BY <1>h, <2>2 DEF JobFits
  <2>4. \A o \in Notices \ {n} : worker.notice # o /\ worker'.notice # o
    BY <1>h, <1>t, <2>2
  <2>5. worker'.notice # NoNotice /\ worker'.step # "idle"
    BY <1>t, <2>2
  <2> QED BY <1>0, <2>2, <2>3, <2>4, <2>5 DEF OnlyRow, OnlyJob
<1>6. ASSUME NEW n \in Notices, WorkerFails(n)
      PROVE  ((worker'.notice = NoNotice) <=> (worker'.step = "idle"))
             /\ \A o \in Notices : JobFits(o)'
  <2>1. UNCHANGED row
    BY <1>6 DEF WorkerFails
  <2>2. /\ OnlyJob(n) /\ job[n].state \in {"waiting", "active"}
        /\ job'[n].state = "active" /\ job'[n].attemptsMade = job[n].attemptsMade
        /\ worker'.step = "throw" /\ worker'.notice = n
        /\ \/ worker.step = "idle" /\ job[n].state = "waiting"
           \/ worker.step \in {"accepted", "refused"} /\ worker.notice = n
    BY <1>6, <1>t, WorkerFailsEffect
  <2>3. JobFits(n)'
    BY <1>h, <2>1, <2>2 DEF JobFits
  <2>4. \A o \in Notices \ {n} : worker.notice # o /\ worker'.notice # o
    BY <1>h, <1>t, <2>2
  <2>5. worker'.notice # NoNotice /\ worker'.step # "idle"
    BY <1>t, <2>2
  <2> QED BY <1>0, <2>1, <2>2, <2>3, <2>4, <2>5 DEF OnlyJob
<1>7. CASE Mail
  <2>1. UNCHANGED <<row, job>>
    BY <1>7 DEF Mail
  <2>2. worker'.notice = worker.notice /\ worker.step # "idle" /\ worker'.step # "idle"
    BY <1>7, <1>t, MailEffect
  <2> QED BY <1>h, <2>1, <2>2 DEF JobFits
<1>8. CASE Delivered \/ Refused
  <2>1. UNCHANGED job
    BY <1>8 DEF Delivered, Refused
  <2>2. PICK n \in Notices : n = worker.notice /\ OnlyRow(n)
    BY <1>8, <1>t, DeliveredEffect, RefusedEffect
  <2>3. worker'.notice = worker.notice /\ worker.step # "idle" /\ worker'.step # "idle"
    BY <1>8, <1>t, DeliveredEffect, RefusedEffect
  <2>4. Worked
    BY <1>8 DEF Worked
  <2>5. JobFits(n)'
    BY <1>h, <2>1, <2>2, <2>3, <2>4, WorkerMakesNothing DEF JobFits
  <2> QED BY <1>0, <1>h, <2>1, <2>2, <2>3, <2>5 DEF OnlyRow
<1>9. CASE Complete \/ Throw
  <2>1. UNCHANGED row
    BY <1>9 DEF Complete, Throw
  <2>2. PICK n \in Notices : n = worker.notice /\ OnlyJob(n)
    BY <1>9, <1>t, CompleteEffect, ThrowEffect
  <2>3. worker'.notice = NoNotice /\ worker'.step = "idle"
    BY <1>9, <1>t, CompleteEffect, ThrowEffect
  <2>4. row[n].status # "NONE"
    BY <1>h, <2>2 DEF JobFits
  <2>5. \/ job'[n].state \in {"done", "failed"}
        \/ job'[n].state = "waiting" /\ job'[n].attemptsMade < MaxAttempts
    <3>1. CASE Complete
      BY <1>t, <2>2, <3>1, CompleteEffect
    <3>2. CASE Throw
      BY <1>t, <2>2, <3>2, ThrowEffect
    <3> QED BY <1>9, <3>1, <3>2
  <2>6. JobFits(n)'
    BY <1>t, <2>1, <2>3, <2>4, <2>5 DEF JobFits
  <2> QED BY <1>0, <1>t, <2>1, <2>2, <2>3, <2>6 DEF OnlyJob
<1>10. CASE Crash
  <2>1. UNCHANGED row
    BY <1>10 DEF Crash
  <2>2. worker'.notice = NoNotice /\ worker'.step = "idle"
    BY <1>10, <1>t, CrashEffect
  <2>3. ASSUME NEW n \in Notices PROVE JobFits(n)'
    <3>1. /\ job'[n].attemptsMade = job[n].attemptsMade
          /\ \/ job'[n].state = job[n].state /\ job[n].state # "active"
             \/ job'[n].state \in {"failed", "waiting"} /\ job[n].state = "active"
      BY <1>10, <1>t, CrashEffect
    <3>2. JobFits(n) /\ n # NoNotice
      BY <1>h, <1>t
    <3> QED BY <2>1, <2>2, <3>1, <3>2 DEF JobFits
  <2> QED BY <2>2, <2>3
<1> QED BY <1>1, <1>2, <1>3, <1>4, <1>5, <1>6, <1>7, <1>8, <1>9, <1>10, StepIsOneOf

LEMMA StaysHeld ==
    ASSUME NotificationAssumption, Typed, Held, [Next]_vars
    PROVE  Held'
BY MakersStayHolding, WorkerStaysHolding DEF Held

LEMMA TypedHeld == Spec => [](Typed /\ Held)
<1>1. Init => Typed /\ Held
  BY NotificationAssumption, StartsTyped
<1>2. Typed /\ Held /\ [Next]_vars => (Typed /\ Held)'
  BY NotificationAssumption, StaysTyped, StaysHeld
<1> QED BY <1>1, <1>2, PTL DEF Spec

\* Rows, makers, jobs, the worker and the settings keep their types, for any
\* numbers of notices, makers, attempts and faults: the retry counter of a row
\* stays below the limit of the queue.
THEOREM NotificationsTypeCorrect == Spec => []TypeOK
<1>1. Typed => TypeOK
  BY DEF Typed, RowTyped, RowRows, MakerTyped, MakerRows, JobTyped, JobRows, WorkerTyped, WorkerRows,
     RestTyped, TypeOK
<1> QED BY <1>1, TypedHeld, PTL

-----------------------------------------------------------------------------
(* Mails.                                                                  *)

\* What MailsAreExplained says of a notice.
MailExplained(n) ==
    \/ mails[n] <= faults
    \/ /\ mails[n] <= 1 + faults
       /\ \/ job[n].state = "done"
          \/ worker.notice = n /\ worker.step \in {"accepted", "complete"}

LEMMA MailsStayExplained ==
    ASSUME NotificationAssumption, Typed, Held, MailsAreExplained, [Next]_vars
    PROVE  MailsAreExplained'
<1>t. RowTyped /\ MakerTyped /\ JobTyped /\ WorkerTyped /\ RestTyped
      /\ faults \in Nat /\ \A n \in Notices : mails[n] \in Nat
  BY DEF Typed, RestTyped
<1>h. /\ (worker.notice = NoNotice) <=> (worker.step = "idle")
      /\ \A n \in Notices : job[n].state = "active" <=> worker.notice = n
  BY DEF Held, WorkerHoldsJob
<1>m. \A n \in Notices : MailExplained(n)
  BY DEF MailsAreExplained, MailExplained
<1> SUFFICES ASSUME NEW n \in Notices PROVE MailExplained(n)'
  BY DEF MailsAreExplained, MailExplained
<1>f. ASSUME Fault, mails'[n] = mails[n] PROVE MailExplained(n)'
  <2>1. mails[n] <= 1 + faults /\ faults' = faults + 1
    BY <1>f, <1>m, <1>t DEF MailExplained, Fault
  <2> QED BY <1>f, <1>t, <2>1 DEF MailExplained
<1>0. ASSUME UNCHANGED <<mails, faults>>,
             job[n].state = "done" => job'[n].state = "done",
             worker.notice = n /\ worker.step \in {"accepted", "complete"}
                => \/ worker'.notice = n /\ worker'.step \in {"accepted", "complete"}
                   \/ job'[n].state = "done"
      PROVE  MailExplained(n)'
  BY <1>0, <1>m DEF MailExplained
<1>1. CASE UNCHANGED engine
  BY <1>0, <1>1 DEF engine
<1>2. CASE \E k \in Makers : Started(k) \/ Check(k) \/ Insert(k) \/ Mark(k)
  <2>1. UNCHANGED <<job, worker, mails, faults>>
    BY <1>2, <1>t, StartedEffect DEF Check, Insert, Mark
  <2> QED BY <1>0, <2>1
<1>3. ASSUME NEW k \in Makers, Add(k) PROVE MailExplained(n)'
  <2>1. UNCHANGED <<worker, mails, faults>>
    BY <1>3 DEF Add
  <2>2. OnlyJob(maker[k].notice) /\ job[maker[k].notice].state = "none"
    BY <1>3, <1>t, AddEffect
  <2>3. job[n].state = "done" => job'[n].state = "done"
    BY <2>2 DEF OnlyJob
  <2> QED BY <1>0, <2>1, <2>3
<1>4. CASE \/ \E k \in Makers : MakerFails(k)
           \/ \E o \in Notices : WorkerFails(o)
           \/ Crash
  <2>1. Fault /\ UNCHANGED mails
    BY <1>4 DEF MakerFails, WorkerFails, Crash
  <2> QED BY <1>f, <2>1
<1>5. ASSUME NEW o \in Notices, Begun(o) PROVE MailExplained(n)'
  <2>1. PICK step \in {"send", "throw"}, status \in {"SENT", "FAILED"} : Begin(o, step, status)
    BY <1>5, BegunBegins
  <2>2. UNCHANGED <<mails, faults>>
    BY <2>1 DEF Begin
  <2>3. OnlyJob(o) /\ job[o].state = "waiting" /\ worker.step = "idle"
    BY <1>t, <2>1, BeginEffect
  <2>4. job[n].state = "done" => job'[n].state = "done"
    BY <2>3 DEF OnlyJob
  <2> QED BY <1>0, <2>2, <2>3, <2>4
<1>6. CASE Mail
  <2>1. UNCHANGED job
    BY <1>6 DEF Mail
  <2>2. PICK o \in Notices :
           /\ o = worker.notice /\ \A p \in Notices \ {o} : mails'[p] = mails[p]
           /\ worker.step = "send" /\ worker'.notice = o
           /\ \/ mails'[o] = mails[o] + 1 /\ worker'.step = "accepted" /\ faults' = faults
              \/ mails'[o] = mails[o] + 1 /\ worker'.step = "refused" /\ Fault
              \/ mails'[o] = mails[o] /\ worker'.step = "refused" /\ faults' = faults
    BY <1>6, <1>t, MailEffect
  <2>3. faults' = faults \/ faults' = faults + 1
    BY <2>2 DEF Fault
  <2>4. CASE n # o
    <3>1. mails'[n] = mails[n] /\ worker.notice # n
      BY <2>2, <2>4
    <3> QED BY <1>m, <1>t, <2>1, <2>3, <3>1 DEF MailExplained
  <2>5. CASE n = o
    <3>1. mails[n] <= faults
      BY <1>h, <1>m, <2>2, <2>5 DEF MailExplained
    <3>2. \/ mails'[n] = mails[n] + 1 /\ worker'.step = "accepted" /\ faults' = faults
          \/ mails'[n] = mails[n] + 1 /\ faults' = faults + 1
          \/ mails'[n] = mails[n] /\ faults' = faults
      BY <2>2, <2>5 DEF Fault
    <3> QED BY <1>t, <2>2, <2>5, <3>1, <3>2 DEF MailExplained
  <2> QED BY <2>4, <2>5
<1>7. CASE Delivered \/ Refused
  <2>1. UNCHANGED <<job, mails, faults>>
    BY <1>7 DEF Delivered, Refused
  <2>2. \/ worker.step = "accepted" /\ worker'.step = "complete" /\ worker'.notice = worker.notice
        \/ worker.step = "refused"
    BY <1>7, <1>t, DeliveredEffect, RefusedEffect
  <2> QED BY <1>0, <2>1, <2>2
<1>8. CASE Complete \/ Throw
  <2>1. UNCHANGED <<mails, faults>>
    BY <1>8 DEF Complete, Throw
  <2>2. /\ OnlyJob(worker.notice)
        /\ \/ worker.step = "complete" /\ job'[worker.notice].state = "done"
           \/ worker.step = "throw"
    BY <1>8, <1>t, CompleteEffect, ThrowEffect
  <2>3. job[n].state = "done" => worker.notice # n
    BY <1>h
  <2> QED BY <1>0, <2>1, <2>2, <2>3 DEF OnlyJob
<1> QED BY <1>1, <1>2, <1>3, <1>4, <1>5, <1>6, <1>7, <1>8, StepIsOneOf

\* Nobody gets a mail twice for nothing: over retries, lost answers, database
\* errors after the mail and crashes, each fault costs at most one mail more.
THEOREM MailsNeedFaults == Spec => []ExtraMailsNeedFaults
<1>1. Init => MailsAreExplained
  <2> SUFFICES ASSUME Init, NEW n \in Notices PROVE mails[n] <= faults
    BY DEF MailsAreExplained
  <2>1. mails[n] = 0 /\ faults = 0
    BY DEF Init
  <2> QED BY <2>1
<1>2. Typed /\ Held /\ MailsAreExplained /\ [Next]_vars => MailsAreExplained'
  BY NotificationAssumption, MailsStayExplained
<1>3. Typed /\ MailsAreExplained => ExtraMailsNeedFaults
  <2> SUFFICES ASSUME Typed, MailsAreExplained, NEW n \in Notices PROVE mails[n] <= 1 + faults
    BY DEF ExtraMailsNeedFaults
  <2>1. mails[n] \in Nat /\ faults \in Nat
    BY NotificationAssumption DEF Typed, RestTyped
  <2>2. mails[n] <= faults \/ mails[n] <= 1 + faults
    BY DEF MailsAreExplained
  <2> QED BY <2>1, <2>2
<1> QED BY <1>1, <1>2, <1>3, TypedHeld, PTL DEF Spec

-----------------------------------------------------------------------------
(* Outcomes.                                                               *)

LEMMA DeliveryStaysReal ==
    ASSUME NotificationAssumption, Typed, Held, DeliveryIsReal, [Next]_vars
    PROVE  DeliveryIsReal'
<1>t. RowTyped /\ MakerTyped /\ JobTyped /\ WorkerTyped /\ RestTyped
      /\ \A n \in Notices : mails[n] \in Nat
  BY DEF Typed, RestTyped
<1>d. /\ worker.step = "accepted" => mails[worker.notice] > 0
      /\ \A n \in Notices : row[n].status = "DELIVERED" => mails[n] > 0
  BY DEF DeliveryIsReal
<1>0. ASSUME UNCHANGED mails, worker'.step # "accepted" \/ UNCHANGED worker,
             \A n \in Notices : row'[n].status = "DELIVERED" => row[n].status = "DELIVERED"
      PROVE  DeliveryIsReal'
  BY <1>0, <1>d DEF DeliveryIsReal
<1>1. CASE UNCHANGED engine
  BY <1>0, <1>1 DEF engine
<1>2. CASE \E k \in Makers : Started(k) \/ Check(k) \/ Add(k) \/ MakerFails(k)
  <2>1. UNCHANGED <<row, worker, mails>>
    BY <1>2, <1>t, StartedEffect DEF Check, Add, MakerFails
  <2> QED BY <1>0, <2>1
<1>3. ASSUME NEW k \in Makers, Insert(k) \/ Mark(k) PROVE DeliveryIsReal'
  <2>1. UNCHANGED <<worker, mails>>
    BY <1>3 DEF Insert, Mark
  <2>2. PICK n \in Notices : OnlyRow(n) /\ row'[n].status # "DELIVERED"
    BY <1>3, <1>t, InsertEffect, MarkEffect DEF Held
  <2> QED BY <1>0, <2>1, <2>2 DEF OnlyRow
<1>4. ASSUME NEW n \in Notices, Begun(n) PROVE DeliveryIsReal'
  <2>1. PICK step \in {"send", "throw"}, status \in {"SENT", "FAILED"} : Begin(n, step, status)
    BY <1>4, BegunBegins
  <2>2. UNCHANGED mails
    BY <2>1 DEF Begin
  <2>3. OnlyRow(n) /\ row'[n].status # "DELIVERED" /\ worker'.step # "accepted"
    BY <1>t, <2>1, BeginEffect
  <2> QED BY <1>0, <2>2, <2>3 DEF OnlyRow
<1>5. CASE Mail
  <2>1. UNCHANGED row
    BY <1>5 DEF Mail
  <2>2. PICK o \in Notices :
           /\ o = worker.notice /\ \A p \in Notices \ {o} : mails'[p] = mails[p]
           /\ worker'.notice = o /\ worker'.step \in {"accepted", "refused"}
           /\ \/ mails'[o] = mails[o] + 1
              \/ mails'[o] = mails[o] /\ worker'.step = "refused"
    BY <1>5, <1>t, MailEffect
  <2>3. \A n \in Notices : row'[n].status = "DELIVERED" => mails'[n] > 0
    BY <1>d, <1>t, <2>1, <2>2
  <2>4. worker'.step = "accepted" => mails'[worker'.notice] > 0
    BY <1>t, <2>2
  <2> QED BY <2>3, <2>4 DEF DeliveryIsReal
<1>6. CASE Delivered
  <2>1. UNCHANGED mails
    BY <1>6 DEF Delivered
  <2>2. PICK o \in Notices : o = worker.notice /\ OnlyRow(o)
                             /\ worker.step = "accepted" /\ worker'.step = "complete"
    BY <1>6, <1>t, DeliveredEffect
  <2> QED BY <1>d, <2>1, <2>2 DEF DeliveryIsReal, OnlyRow
<1>7. CASE Refused
  <2>1. UNCHANGED mails
    BY <1>7 DEF Refused
  <2>2. PICK o \in Notices : /\ o = worker.notice /\ OnlyRow(o) /\ worker'.step = "throw"
                             /\ row'[o].status = IF IsLastAttempt(o) THEN "FAILED" ELSE row[o].status
    BY <1>7, <1>t, RefusedEffect
  <2> QED BY <1>0, <2>1, <2>2 DEF OnlyRow
<1>8. CASE (\E n \in Notices : WorkerFails(n)) \/ Complete \/ Throw \/ Crash
  <2>1. UNCHANGED <<row, mails>>
    BY <1>8 DEF WorkerFails, Complete, Throw, Crash
  <2>2. worker'.step # "accepted"
    BY <1>8, <1>t, WorkerFailsEffect, CompleteEffect, ThrowEffect, CrashEffect
  <2> QED BY <1>0, <2>1, <2>2
<1> QED BY <1>1, <1>2, <1>3, <1>4, <1>5, <1>6, <1>7, <1>8, StepIsOneOf

LEMMA OutcomesStayTold ==
    ASSUME NotificationAssumption, Typed, Held, OutcomesAreTold, [Next]_vars
    PROVE  OutcomesAreTold'
<1>t. RowTyped /\ MakerTyped /\ JobTyped /\ WorkerTyped /\ RestTyped
      /\ faults \in Nat
  BY DEF Typed, RestTyped
<1>h. /\ (worker.notice = NoNotice) <=> (worker.step = "idle")
      /\ \A n \in Notices : /\ job[n].state = "active" <=> worker.notice = n
                            /\ job[n].state # "none" => row[n].status # "NONE"
  BY DEF Held, WorkerHoldsJob
<1> SUFFICES ASSUME faults' = 0, NEW n \in Notices PROVE OutcomeIsTold(n)'
  BY DEF OutcomesAreTold
<1>1. ASSUME Fault PROVE FALSE
  BY <1>1, <1>t DEF Fault
<1>o. ASSUME faults = 0 PROVE OutcomeIsTold(n)
  BY <1>o DEF OutcomesAreTold
<1>0. ASSUME faults = 0, row'[n] = row[n], job'[n] = job[n], overtaken' = overtaken,
             worker'.notice = n => worker'.step \notin {"complete", "throw"} \/ UNCHANGED worker
      PROVE  OutcomeIsTold(n)'
  BY <1>0, <1>o DEF OutcomeIsTold, IsLastAttempt
<1>2. CASE UNCHANGED engine
  BY <1>0, <1>2 DEF engine
<1>3. CASE \E k \in Makers : Started(k) \/ Check(k)
  <2>1. UNCHANGED <<row, job, worker, faults, overtaken>>
    BY <1>3, <1>t, StartedEffect DEF Check
  <2> QED BY <1>0, <2>1
<1>4. ASSUME NEW k \in Makers, Insert(k) PROVE OutcomeIsTold(n)'
  <2>1. UNCHANGED <<job, worker, faults, overtaken>>
    BY <1>4 DEF Insert
  <2>2. PICK o \in Notices : OnlyRow(o) /\ row[o].status = "NONE" /\ row'[o].status = "PENDING"
    BY <1>4, <1>t, InsertEffect DEF Held
  <2>3. CASE n = o
    <3>1. job'[n].state = "none" /\ worker'.notice # n
      BY <1>h, <2>1, <2>2, <2>3
    <3> QED BY <3>1 DEF OutcomeIsTold
  <2> QED BY <1>0, <2>1, <2>2, <2>3 DEF OnlyRow
<1>5. ASSUME NEW k \in Makers, Add(k) PROVE OutcomeIsTold(n)'
  <2>1. UNCHANGED <<row, worker, faults, overtaken>>
    BY <1>5 DEF Add
  <2>2. PICK o \in Notices : OnlyJob(o) /\ job[o].state = "none" /\ job'[o].state = "waiting"
    BY <1>5, <1>t, AddEffect
  <2>3. CASE n = o
    <3>1. worker'.notice # n
      BY <1>h, <2>1, <2>2, <2>3
    <3> QED BY <2>2, <2>3, <3>1 DEF OutcomeIsTold
  <2> QED BY <1>0, <2>1, <2>2, <2>3 DEF OnlyJob
<1>6. ASSUME NEW k \in Makers, Mark(k) PROVE OutcomeIsTold(n)'
  <2>1. UNCHANGED <<job, worker, faults>>
    BY <1>6 DEF Mark
  <2>2. PICK o \in Notices :
           /\ OnlyRow(o) /\ row'[o].status = "QUEUED"
           /\ overtaken' = IF row[o].status = "PENDING" THEN overtaken ELSE overtaken \cup {o}
    BY <1>6, <1>t, MarkEffect
  <2>3. OutcomeIsTold(n)
    BY <1>o, <2>1
  <2>4. CASE n = o /\ row[o].status = "PENDING"
    <3>1. job[n].state \in {"none", "waiting"} /\ worker.notice # n
      BY <1>h, <2>3, <2>4 DEF OutcomeIsTold
    <3> QED BY <2>1, <2>2, <2>4, <3>1 DEF OutcomeIsTold
  <2>5. CASE n = o /\ row[o].status # "PENDING"
    <3>1. n \in overtaken'
      BY <2>2, <2>5
    <3> QED BY <2>2, <2>5, <3>1 DEF OutcomeIsTold
  <2>6. CASE n # o
    <3>1. row'[n] = row[n] /\ (n \in overtaken => n \in overtaken')
      BY <2>2, <2>6 DEF OnlyRow
    <3> QED BY <2>1, <2>3, <3>1 DEF OutcomeIsTold, IsLastAttempt
  <2> QED BY <2>4, <2>5, <2>6
<1>7. CASE \/ \E k \in Makers : MakerFails(k)
           \/ \E o \in Notices : WorkerFails(o)
           \/ Crash
  BY <1>1, <1>7 DEF MakerFails, WorkerFails, Crash
<1>8. ASSUME NEW o \in Notices, Begun(o) PROVE OutcomeIsTold(n)'
  <2>1. PICK step, status : /\ Begin(o, step, status)
                            /\ \/ step = "send" /\ status = "SENT"
                               \/ step = "throw" /\ status = "FAILED"
    BY <1>8, BegunBegins
  <2>2. UNCHANGED <<faults, overtaken>>
    BY <2>1 DEF Begin
  <2>3. /\ OnlyRow(o) /\ row'[o].status = status /\ OnlyJob(o)
        /\ job'[o].state = "active" /\ worker'.step = step /\ worker'.notice = o
    BY <1>t, <2>1, BeginEffect
  <2>4. CASE n = o
    BY <2>1, <2>3, <2>4 DEF OutcomeIsTold
  <2> QED BY <1>0, <2>2, <2>3, <2>4 DEF OnlyRow, OnlyJob
<1>9. CASE Mail
  <2>1. UNCHANGED <<row, job, overtaken>> /\ (faults' = faults \/ Fault)
    BY <1>9 DEF Mail
  <2>2. worker'.step \in {"accepted", "refused"}
    BY <1>9, <1>t, MailEffect
  <2> QED BY <1>0, <1>1, <2>1, <2>2
<1>10. CASE Delivered
  <2>1. UNCHANGED <<job, faults, overtaken>>
    BY <1>10 DEF Delivered
  <2>2. PICK o \in Notices : /\ o = worker.notice /\ OnlyRow(o) /\ row'[o].status = "DELIVERED"
                             /\ worker'.step = "complete" /\ worker'.notice = o
    BY <1>10, <1>t, DeliveredEffect
  <2>3. CASE n = o
    <3>1. job[n].state = "active"
      BY <1>h, <2>2, <2>3
    <3> QED BY <2>1, <2>2, <2>3, <3>1 DEF OutcomeIsTold
  <2> QED BY <1>0, <2>1, <2>2, <2>3 DEF OnlyRow
<1>11. CASE Refused
  <2>1. UNCHANGED <<job, faults, overtaken>>
    BY <1>11 DEF Refused
  <2>2. PICK o \in Notices : /\ o = worker.notice /\ OnlyRow(o)
                             /\ row'[o].status = IF IsLastAttempt(o) THEN "FAILED" ELSE row[o].status
                             /\ worker'.step = "throw" /\ worker'.notice = o
    BY <1>11, <1>t, RefusedEffect
  <2>3. CASE n = o
    <3>1. job[n].state = "active" /\ OutcomeIsTold(n)
      BY <1>h, <1>o, <2>1, <2>2, <2>3
    <3>2. row[n].status # "PENDING"
      BY <3>1 DEF OutcomeIsTold
    <3>3. IsLastAttempt(n)' = IsLastAttempt(n)
      BY <2>1 DEF IsLastAttempt
    <3> QED BY <2>1, <2>2, <2>3, <3>1, <3>2, <3>3 DEF OutcomeIsTold
  <2> QED BY <1>0, <2>1, <2>2, <2>3 DEF OnlyRow
<1>12. CASE Complete
  <2>1. UNCHANGED <<row, faults, overtaken>>
    BY <1>12 DEF Complete
  <2>2. PICK o \in Notices : /\ o = worker.notice /\ OnlyJob(o) /\ job'[o].state = "done"
                             /\ worker.step = "complete"
                             /\ worker'.step = "idle"
    BY <1>12, <1>t, CompleteEffect
  <2>3. CASE n = o
    <3>1. OutcomeIsTold(n) /\ job[n].state = "active"
      BY <1>h, <1>o, <2>1, <2>2, <2>3
    <3> QED BY <2>1, <2>2, <2>3, <3>1 DEF OutcomeIsTold
  <2> QED BY <1>0, <2>1, <2>2, <2>3 DEF OnlyJob
<1>13. CASE Throw
  <2>1. UNCHANGED <<row, faults, overtaken>>
    BY <1>13 DEF Throw
  <2>2. PICK o \in Notices : /\ o = worker.notice /\ OnlyJob(o)
                             /\ \/ job'[o].state = "failed" /\ IsLastAttempt(o)
                                \/ job'[o].state = "waiting"
                             /\ worker.step = "throw" /\ worker'.step = "idle"
    BY <1>13, <1>t, ThrowEffect
  <2>3. CASE n = o
    <3>1. OutcomeIsTold(n) /\ job[n].state = "active"
      BY <1>h, <1>o, <2>1, <2>2, <2>3
    <3> QED BY <2>1, <2>2, <2>3, <3>1 DEF OutcomeIsTold
  <2> QED BY <1>0, <2>1, <2>2, <2>3 DEF OnlyJob
<1> QED BY <1>2, <1>3, <1>4, <1>5, <1>6, <1>7, <1>8, <1>9, <1>10, <1>11, <1>12, <1>13, StepIsOneOf

\* The row of a notice tells what became of it: DELIVERED means a mail, always;
\* without failures the row of a finished job has its outcome, unless create()
\* marked it QUEUED after the worker had begun.
THEOREM RowsTellOutcomes == Spec => []RowTellsOutcome
<1>1. ASSUME Init PROVE DeliveryIsReal /\ OutcomesAreTold
  <2>1. \A n \in Notices : row[n].status = "NONE" /\ job[n].state = "none"
    BY <1>1 DEF Init, NoRow
  <2>2. worker.step = "idle" /\ worker.notice = NoNotice
    BY <1>1 DEF Init, IdleWorker
  <2> QED BY <2>1, <2>2 DEF DeliveryIsReal, OutcomesAreTold, OutcomeIsTold
<1>2. Typed /\ Held /\ DeliveryIsReal /\ OutcomesAreTold /\ [Next]_vars
         => DeliveryIsReal' /\ OutcomesAreTold'
  BY NotificationAssumption, DeliveryStaysReal, OutcomesStayTold
<1>3. DeliveryIsReal /\ OutcomesAreTold => RowTellsOutcome
  BY DEF DeliveryIsReal, OutcomesAreTold, OutcomeIsTold, RowTellsOutcome, Settled
<1> QED BY <1>1, <1>2, <1>3, TypedHeld, PTL DEF Spec

-----------------------------------------------------------------------------
(* Notices on their way.                                                   *)

\* A row without a job whose maker is about to add it.
Coming(n) == \E k \in Makers : maker[k].step = "add" /\ maker[k].notice = n

NoticesCome ==
    \A n \in Notices :
        (row[n].status # "NONE" /\ job[n].state = "none") => (faults > 0 \/ Coming(n))

LEMMA NoticesStayComing ==
    ASSUME NotificationAssumption, Typed, Held, NoticesCome, [Next]_vars
    PROVE  NoticesCome'
<1>t. RowTyped /\ MakerTyped /\ JobTyped /\ WorkerTyped /\ RestTyped
      /\ faults \in Nat
  BY DEF Typed, RestTyped
<1>n. ASSUME NEW n \in Notices, row[n].status # "NONE", job[n].state = "none"
      PROVE  faults > 0 \/ Coming(n)
  BY <1>n DEF NoticesCome
<1> SUFFICES ASSUME NEW n \in Notices, row'[n].status # "NONE", job'[n].state = "none"
             PROVE  faults' > 0 \/ Coming(n)'
  BY DEF NoticesCome
<1>f. ASSUME Fault PROVE faults' > 0
  BY <1>f, <1>t DEF Fault
<1>0. ASSUME row[n].status # "NONE", job[n].state = "none", faults' = faults,
             NEW k \in Makers, OnlyMaker(k), maker[k].step # "add"
      PROVE  faults' > 0 \/ Coming(n)'
  BY <1>0, <1>n DEF Coming, OnlyMaker
<1>1. CASE UNCHANGED engine
  BY <1>1, <1>n DEF engine, Coming
<1>2. CASE Worked
  <2>1. UNCHANGED maker /\ row[n].status # "NONE" /\ job[n].state = "none"
    BY <1>2, WorkerMakesNothing
  <2>2. faults' = faults \/ Fault
    BY <1>2 DEF Worked, Begun, TakeMail, TakeDigest, Begin, WorkerFails, Mail, Delivered, Refused,
                Complete, Throw
  <2> QED BY <1>n, <1>f, <2>1, <2>2 DEF Coming
<1>3. CASE (\E k \in Makers : MakerFails(k)) \/ Crash
  BY <1>3, <1>f DEF MakerFails, Crash
<1>4. ASSUME NEW k \in Makers, Started(k) PROVE faults' > 0 \/ Coming(n)'
  <2>1. UNCHANGED <<row, job, faults>>
    BY <1>4, <1>t, StartedEffect
  <2>2. UNCHANGED maker \/ (OnlyMaker(k) /\ maker[k].step = "idle")
    BY <1>4, <1>t, StartedEffect
  <2> QED BY <1>0, <1>n, <2>1, <2>2 DEF Coming
<1>5. ASSUME NEW k \in Makers, Check(k) PROVE faults' > 0 \/ Coming(n)'
  <2>1. UNCHANGED <<row, job, faults>>
    BY <1>5 DEF Check
  <2>2. OnlyMaker(k) /\ maker[k].step = "check"
    BY <1>5, <1>t, CheckEffect DEF Held
  <2> QED BY <1>0, <2>1, <2>2
<1>6. ASSUME NEW k \in Makers, Insert(k) PROVE faults' > 0 \/ Coming(n)'
  <2>1. UNCHANGED <<job, faults>>
    BY <1>6 DEF Insert
  <2>2. PICK o \in Notices : /\ OnlyRow(o) /\ OnlyMaker(k) /\ maker[k].step = "insert"
                             /\ maker'[k].step = "add" /\ maker'[k].notice = o
    BY <1>6, <1>t, InsertEffect DEF Held
  <2>3. CASE n = o
    BY <2>2, <2>3 DEF Coming
  <2> QED BY <1>0, <2>1, <2>2, <2>3 DEF OnlyRow
<1>7. ASSUME NEW k \in Makers, Add(k) PROVE faults' > 0 \/ Coming(n)'
  <2>1. UNCHANGED <<row, faults>>
    BY <1>7 DEF Add
  <2>2. PICK o \in Notices : /\ o = maker[k].notice /\ OnlyJob(o) /\ OnlyMaker(k)
                             /\ job'[o].state = "waiting"
    BY <1>7, <1>t, AddEffect
  <2>3. n # o /\ job[n].state = "none"
    BY <2>2 DEF OnlyJob
  <2> QED BY <1>n, <2>1, <2>2, <2>3 DEF Coming, OnlyMaker
<1>8. ASSUME NEW k \in Makers, Mark(k) PROVE faults' > 0 \/ Coming(n)'
  <2>1. UNCHANGED <<job, faults>>
    BY <1>8 DEF Mark
  <2>2. /\ OnlyRow(maker[k].notice) /\ row[maker[k].notice].status # "NONE"
        /\ OnlyMaker(k) /\ maker[k].step = "mark"
    BY <1>8, <1>t, MarkEffect
  <2>3. row[n].status # "NONE"
    BY <2>2 DEF OnlyRow
  <2> QED BY <1>0, <2>1, <2>2, <2>3
<1> QED BY <1>1, <1>2, <1>3, <1>4, <1>5, <1>6, <1>7, <1>8, StepIsOneOf DEF Worked

\* A maker marks a row only when its job is in the queue, and nobody else writes
\* a row that has none.
RowsWaitForJobs ==
    /\ \A k \in Makers : maker[k].step = "mark" => job[maker[k].notice].state # "none"
    /\ \A n \in Notices : job[n].state = "none" => row[n].status \in {"NONE", "PENDING"}

LEMMA WorkerNeedsJob ==
    ASSUME NotificationAssumption, Typed, Held, Worked, NEW n \in Notices, job[n].state = "none"
    PROVE  row'[n] = row[n]
<1>t. RowTyped /\ MakerTyped /\ JobTyped /\ WorkerTyped /\ RestTyped
  BY DEF Typed
<1>1. ASSUME NEW o \in Notices, Begun(o) PROVE row'[n] = row[n]
  <2>1. PICK step \in {"send", "throw"}, status \in {"SENT", "FAILED"} : Begin(o, step, status)
    BY <1>1, BegunBegins
  <2>2. OnlyRow(o) /\ job[o].state = "waiting"
    BY <1>t, <2>1, BeginEffect
  <2> QED BY <2>2 DEF OnlyRow
<1>2. CASE Delivered \/ Refused
  <2>1. worker.step # "idle"
    BY <1>2 DEF Delivered, Refused
  <2>2. job[worker.notice].state = "active"
    BY <2>1, <1>t, WorkerHasNotice
  <2>3. OnlyRow(worker.notice)
    BY <1>2, <1>t, DeliveredEffect, RefusedEffect
  <2> QED BY <2>2, <2>3 DEF OnlyRow
<1>3. CASE Mail \/ Complete \/ Throw \/ \E o \in Notices : WorkerFails(o)
  BY <1>3 DEF Mail, Complete, Throw, WorkerFails
<1> QED BY <1>1, <1>2, <1>3 DEF Worked

LEMMA RowsStayWaiting ==
    ASSUME NotificationAssumption, Typed, Held, RowsWaitForJobs, [Next]_vars
    PROVE  RowsWaitForJobs'
<1>t. RowTyped /\ MakerTyped /\ JobTyped /\ WorkerTyped /\ RestTyped
  BY DEF Typed
<1>w. /\ \A k \in Makers : maker[k].step = "mark" => job[maker[k].notice].state # "none"
      /\ \A n \in Notices : job[n].state = "none" => row[n].status \in {"NONE", "PENDING"}
  BY DEF RowsWaitForJobs
<1>m. \A k \in Makers : maker[k].step = "mark" => maker[k].notice \in Notices
  BY <1>t DEF Held, MakersHoldNotices, MakerTyped, MakerRows
<1>1. CASE UNCHANGED engine
  BY <1>1, <1>w DEF engine, RowsWaitForJobs
<1>2. CASE Worked
  BY <1>2, <1>w, <1>m, WorkerMakesNothing, WorkerNeedsJob DEF RowsWaitForJobs
<1>3. ASSUME NEW k \in Makers, OnlyMaker(k), maker'[k].step # "mark", UNCHANGED <<row, job>>
      PROVE  RowsWaitForJobs'
  BY <1>3, <1>w DEF OnlyMaker, RowsWaitForJobs
<1>4. ASSUME NEW k \in Makers, Started(k) \/ Check(k) \/ MakerFails(k) PROVE RowsWaitForJobs'
  <2>1. UNCHANGED <<row, job>>
    BY <1>4, <1>t, StartedEffect DEF Check, MakerFails
  <2>2. UNCHANGED maker \/ (OnlyMaker(k) /\ maker'[k].step # "mark")
    BY <1>4, <1>t, StartedEffect, CheckEffect, MakerFailsEffect DEF Held
  <2> QED BY <1>3, <1>w, <2>1, <2>2 DEF RowsWaitForJobs
<1>5. ASSUME NEW k \in Makers, Insert(k) PROVE RowsWaitForJobs'
  <2>1. job' = job
    BY <1>5 DEF Insert
  <2>2. PICK o \in Notices : /\ OnlyRow(o) /\ row'[o].status = "PENDING"
                             /\ OnlyMaker(k) /\ maker'[k].step = "add"
    BY <1>5, <1>t, InsertEffect DEF Held
  <2> QED BY <1>w, <2>1, <2>2 DEF OnlyRow, OnlyMaker, RowsWaitForJobs
<1>6. ASSUME NEW k \in Makers, Add(k) PROVE RowsWaitForJobs'
  <2>1. row' = row
    BY <1>6 DEF Add
  <2>2. PICK o \in Notices : /\ OnlyJob(o) /\ job'[o].state = "waiting" /\ OnlyMaker(k)
                             /\ maker'[k].step = "mark" => maker'[k].notice = o
    BY <1>6, <1>t, AddEffect
  <2> QED BY <1>w, <1>m, <2>1, <2>2 DEF OnlyJob, OnlyMaker, RowsWaitForJobs
<1>7. ASSUME NEW k \in Makers, Mark(k) PROVE RowsWaitForJobs'
  <2>1. job' = job
    BY <1>7 DEF Mark
  <2>2. /\ OnlyRow(maker[k].notice) /\ OnlyMaker(k) /\ maker[k].step = "mark"
        /\ maker'[k].step # "mark"
    BY <1>7, <1>t, MarkEffect
  <2> QED BY <1>w, <2>1, <2>2 DEF OnlyRow, OnlyMaker, RowsWaitForJobs
<1>8. CASE Crash
  <2>1. /\ row' = row /\ \A k \in Makers : maker'[k].step = "idle"
        /\ \A n \in Notices : job'[n].state = "none" => job[n].state = "none"
    BY <1>8, <1>t, CrashEffect, IdleMakerTyped DEF Crash
  <2> QED BY <1>w, <2>1 DEF RowsWaitForJobs
<1> QED BY <1>1, <1>2, <1>4, <1>5, <1>6, <1>7, <1>8, StepIsOneOf DEF Worked

\* A row without a job still says PENDING, and it is about to get its job unless a
\* failure stopped a maker, for any numbers of notices, makers, attempts and faults.
THEOREM NoticesGetJobs == Spec => []NoNoticeIsForgotten
<1>1. Init => NoticesCome /\ RowsWaitForJobs
  BY IdleMakerTyped DEF Init, NoticesCome, RowsWaitForJobs, NoRow
<1>2. /\ Typed /\ Held /\ NoticesCome /\ RowsWaitForJobs /\ [Next]_vars
         => NoticesCome' /\ RowsWaitForJobs'
  BY NotificationAssumption, NoticesStayComing, RowsStayWaiting
<1>3. NoticesCome /\ RowsWaitForJobs => NoNoticeIsForgotten
  BY DEF NoticesCome, RowsWaitForJobs, NoNoticeIsForgotten, Coming
<1> QED BY <1>1, <1>2, <1>3, TypedHeld, PTL DEF Spec
=============================================================================
