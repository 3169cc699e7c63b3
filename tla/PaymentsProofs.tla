---------------------------- MODULE PaymentsProofs ----------------------------
(***************************************************************************)
(* Payments are the reservation engine with steps of their own, a booking  *)
(* is confirmed only if it was paid, and the charge is its price.          *)
(***************************************************************************)
EXTENDS Payments, BookingProofs

\* The steps of Booking that Payments uses as they are.
EngineStep ==
    \/ Host
    \/ \E b \in Bookings : CreateStep(b) \/ WorkerStep(b)
    \/ \E c \in Calls : CallStep(c)

\* What the engine does to the columns that payments depend on.
Confirming(b) == \E c \in Calls : call[c].step = "confirm" /\ call[c].booking = b
StatusMoves == \A b \in Bookings :
    status'[b] = "CONFIRMED" => (status[b] = "CONFIRMED" \/ Confirming(b))
CallsMove == \A c \in Calls :
    call'[c].step = "confirm" => (call[c].step = "confirm" /\ call'[c].booking = call[c].booking)
RowsStay == \A b \in Bookings :
    status[b] # "NONE" => (status'[b] # "NONE" /\ totalPrice'[b] = totalPrice[b])

\* The engine confirms only what a call is confirming, and keeps rows and prices.
LEMMA EngineEffect ==
    ASSUME IInv, EngineStep \/ Crash
    PROVE  StatusMoves /\ CallsMove /\ RowsStay
<1> USE DEF IInv, TypeOK, RowsComeFromCommits, CallsHaveRows, StatusMoves, CallsMove, RowsStay, Confirming,
            hostVars, createVars, workVars, Idle
<1>1. CASE Host
  BY <1>1 DEF Host, HostSetActive, HostSetPrice, HostSetAvailability
<1>2. ASSUME NEW b \in Bookings, CreateStep(b) PROVE StatusMoves /\ CallsMove /\ RowsStay
  <2>1. CASE CreateRead(b)
    BY <2>1 DEF CreateRead
  <2>2. CASE CreatePreCheck(b) \/ CreateLock(b) \/ CreateRecheck(b)
    BY <2>2 DEF CreatePreCheck, CreateLock, CreateRecheck
  <2>3. CASE CreateCommit(b)
    BY <2>3 DEF CreateCommit
  <2>4. CASE CreateSchedule(b) \/ CreateScheduleFails(b) \/ CreateFails(b)
    BY <2>4 DEF CreateSchedule, CreateScheduleFails, CreateFails
  <2> QED BY <1>2, <2>1, <2>2, <2>3, <2>4 DEF CreateStep
<1>3. ASSUME NEW b \in Bookings, WorkerStep(b) PROVE StatusMoves /\ CallsMove /\ RowsStay
  BY <1>3 DEF WorkerStep, ExpireRead, ExpireWrite, ExpireFails
<1>4. ASSUME NEW c \in Calls, CallStep(c) PROVE StatusMoves /\ CallsMove /\ RowsStay
  <2>1. CASE ConfirmWrite(c)
    BY <2>1 DEF ConfirmWrite, CallRecords
  <2>2. CASE ConfirmEmit(c)
    BY <2>2 DEF ConfirmEmit
  <2>3. CASE CancelWrite(c)
    BY <2>3 DEF CancelWrite, CallRecords
  <2>4. CASE CancelEmit(c)
    BY <2>4 DEF CancelEmit
  <2> QED BY <1>4, <2>1, <2>2, <2>3, <2>4 DEF CallStep
<1>5. CASE Crash
  BY <1>5 DEF Crash
<1> QED BY <1>1, <1>2, <1>3, <1>4, <1>5 DEF EngineStep
-----------------------------------------------------------------------------
(***************************************************************************)
(* The inductive invariant of payments, next to that of the engine.        *)
(***************************************************************************)
\* Records have their shape.
PayShape ==
    /\ init = [t \in Transactions |-> [step |-> init[t].step, booking |-> init[t].booking,
                                       amount |-> init[t].amount]]
    /\ \A t \in Transactions : init[t].step \in {"idle", "adapter", "opened", "done"}
    /\ \A t \in Transactions : init[t].booking \in Bookings \cup {NoOne}
    /\ intent \in [Transactions -> {"none", "open", "succeeded"}]
    /\ txn \in [Transactions -> TransactionStatuses]
    /\ hook \in [Calls -> [step : {"idle", "update", "settle"},
                           txn : Transactions \cup {NoOne}, success : BOOLEAN]]
    /\ sent \subseteq [txn : Transactions, success : BOOLEAN]
    /\ mocked \subseteq Bookings

\* A request that was started is about a row, and knows its price.
RequestsHaveRows ==
    \A t \in Transactions :
        init[t].step # "idle" =>
            /\ init[t].booking \in Bookings
            /\ status[init[t].booking] # "NONE"
            /\ init[t].amount = totalPrice[init[t].booking]

\* A transaction row, a report and money at the provider belong to a finished request.
RequestsComeFirst ==
    /\ \A t \in Transactions :
            (txn[t] # "NONE" \/ intent[t] = "succeeded") => init[t].step = "done"
    /\ \A report \in sent : report.success => intent[report.txn] = "succeeded"

\* A webhook under way works on a transaction row and tells what the provider did.
HooksAreTrue ==
    \A c \in Calls :
        hook[c].step # "idle" =>
            /\ hook[c].txn \in Transactions
            /\ init[hook[c].txn].step = "done"
            /\ hook[c].success => intent[hook[c].txn] = "succeeded"

PaidOrMocked(b) == Paid(b) \/ b \in mocked
ConfirmsArePaid ==
    \A c \in Calls : call[c].step = "confirm" => PaidOrMocked(call[c].booking)

PInv ==
    /\ IInv
    /\ PayShape
    /\ RequestsHaveRows
    /\ RequestsComeFirst
    /\ HooksAreTrue
    /\ ConfirmsArePaid
    /\ ConfirmedMeansPaid

-----------------------------------------------------------------------------
\* The booking that a webhook settles has a row.
LEMMA HookHasRow ==
    ASSUME PInv, NEW c \in Calls, hook[c].step # "idle"
    PROVE  init[hook[c].txn].booking \in Bookings
BY DEF PInv, HooksAreTrue, RequestsHaveRows

\* Settling is confirm's or cancel's first step, or none.
LEMMA SettleIsCallStart ==
    ASSUME PInv, NEW c \in Calls, HookSettle(c)
    PROVE  \/ hook[c].success /\ ConfirmRead(c, init[hook[c].txn].booking)
           \/ CancelRead(c, init[hook[c].txn].booking)
           \/ UNCHANGED vars
BY DEF HookSettle, Settle, ConfirmOrRefuse, CancelOrReturn

\* A step of payments is a step of Booking or leaves its variables alone.
LEMMA PayStepRefines == PInv /\ [PayNext]_allVars => [Next]_vars
<1> SUFFICES ASSUME PInv, [PayNext]_allVars PROVE [Next]_vars
  OBVIOUS
<1>1. CASE EngineStep
  BY <1>1 DEF EngineStep, Next
<1>2. ASSUME NEW t \in Transactions, Initialize(t) \/ Attempt(t) PROVE [Next]_vars
  BY <1>2 DEF Initialize, Attempt, InitializeRead, InitializeIntent, InitializeInsert,
              AttemptSucceeds, AttemptFails
<1>3. ASSUME NEW c \in Calls, NEW report \in sent, HookFind(c, report) PROVE [Next]_vars
  BY <1>3 DEF HookFind
<1>4. ASSUME NEW c \in Calls, HookUpdate(c) PROVE [Next]_vars
  BY <1>4 DEF HookUpdate
<1>5. ASSUME NEW c \in Calls, HookSettle(c) PROVE [Next]_vars
  <2>1. hook[c].step # "idle"
    BY <1>5 DEF HookSettle
  <2> QED BY <1>5, <2>1, HookHasRow, SettleIsCallStart DEF Next, CallStart
<1>6. ASSUME NEW c \in Calls, NEW b \in Bookings, ConfirmMock(c, b) PROVE [Next]_vars
  BY <1>6 DEF ConfirmMock, Next, CallStart
<1>7. CASE PayCrash
  BY <1>7 DEF PayCrash, Next
<1>8. CASE UNCHANGED allVars
  BY <1>8 DEF allVars
<1> QED
  BY <1>1, <1>2, <1>3, <1>4, <1>5, <1>6, <1>7, <1>8 DEF PayNext, EngineStep, Hook

-----------------------------------------------------------------------------
\* Initially nothing was asked for, and PInv holds.
LEMMA PayInitPInv == PayInit => PInv
<1> SUFFICES ASSUME PayInit PROVE PInv
  OBVIOUS
<1>1. IInv
  BY InitIInv DEF PayInit
<1>2. PayShape
  BY DEF PayInit, PayShape, NotStarted, NoHook, TransactionStatuses
<1>3. RequestsHaveRows /\ RequestsComeFirst
  BY DEF PayInit, RequestsHaveRows, RequestsComeFirst, NotStarted
<1>4. HooksAreTrue
  BY DEF PayInit, HooksAreTrue, NoHook
<1>5. ConfirmsArePaid /\ ConfirmedMeansPaid
  BY DEF PayInit, Init, ConfirmsArePaid, ConfirmedMeansPaid, Idle
<1> QED BY <1>1, <1>2, <1>3, <1>4, <1>5 DEF PInv

\* All of PInv but the engine's part.
PayInv == PayShape /\ RequestsHaveRows /\ RequestsComeFirst /\ HooksAreTrue
          /\ ConfirmsArePaid /\ ConfirmedMeansPaid

\* What the engine does cannot disturb the part of payments.
LEMMA EngineKeepsPInv ==
    ASSUME PInv, EngineStep, UNCHANGED payVars
    PROVE  PayInv'
<1> USE DEF PInv, payVars
<1>1. StatusMoves /\ CallsMove /\ RowsStay
  BY EngineEffect
<1>2. PayShape' /\ RequestsComeFirst' /\ HooksAreTrue'
  BY DEF PayShape, RequestsComeFirst, HooksAreTrue
<1>3. RequestsHaveRows'
  BY <1>1 DEF RequestsHaveRows, RowsStay
<1>4. ConfirmsArePaid'
  BY <1>1 DEF ConfirmsArePaid, CallsMove, PaidOrMocked, Paid
<1>5. ConfirmedMeansPaid'
  BY <1>1 DEF ConfirmedMeansPaid, StatusMoves, Confirming, ConfirmsArePaid, PaidOrMocked, Paid
<1> QED BY <1>2, <1>3, <1>4, <1>5 DEF PayInv

\* A crash drops requests that had no answer, never one that was paid.
LEMMA CrashKeepsPInv ==
    ASSUME PInv, PayCrash
    PROVE  PayInv'
<1> USE DEF PInv, PayCrash
<1>1. StatusMoves /\ CallsMove /\ RowsStay
  BY EngineEffect
<1>2. PayShape'
  BY DEF PayShape, RequestDropped, NotStarted, NoHook
<1>3. RequestsHaveRows'
  BY <1>1 DEF RequestsHaveRows, RowsStay, RequestDropped, NotStarted
<1>4. RequestsComeFirst' /\ HooksAreTrue'
  BY DEF RequestsComeFirst, HooksAreTrue, RequestDropped, NoHook
<1>5. \A b \in Bookings : Paid(b) => Paid(b)'
  BY DEF Paid, RequestsComeFirst, RequestDropped
<1>6. ConfirmsArePaid'
  BY <1>1, <1>5 DEF ConfirmsArePaid, CallsMove, PaidOrMocked, Crash, Idle
<1>7. ConfirmedMeansPaid'
  <2>1. ASSUME NEW b \in Bookings, status'[b] = "CONFIRMED" PROVE PaidOrMocked(b)
    BY <1>1, <2>1 DEF StatusMoves, Confirming, ConfirmsArePaid, ConfirmedMeansPaid, PaidOrMocked
  <2> QED BY <1>5, <2>1 DEF ConfirmedMeansPaid, PaidOrMocked
<1> QED BY <1>2, <1>3, <1>4, <1>6, <1>7 DEF PayInv

\* What is paid stays paid: no request forgets a booking that was paid.
PaymentsStay == \A b \in Bookings : PaidOrMocked(b) => PaidOrMocked(b)'

\* What is left to show of a step that leaves the rows and calls alone.
LEMMA RowsAlone ==
    ASSUME PInv, UNCHANGED <<status, call>>, PaymentsStay
    PROVE  ConfirmsArePaid' /\ ConfirmedMeansPaid'
<1>1. ASSUME NEW c \in Calls, call[c].step = "confirm" PROVE call[c].booking \in Bookings
  BY <1>1 DEF PInv, IInv, CallsHaveRows
<1>2. ConfirmsArePaid'
  BY <1>1 DEF PInv, ConfirmsArePaid, PaymentsStay, PaidOrMocked
<1>3. ConfirmedMeansPaid'
  BY DEF PInv, ConfirmedMeansPaid, PaymentsStay, PaidOrMocked
<1> QED BY <1>2, <1>3

\* A request takes its price from a row, which keeps it.
LEMMA InitializeKeepsPInv ==
    ASSUME PInv, NEW t \in Transactions, Initialize(t)
    PROVE  PayInv'
<1> USE DEF PInv, PayShape, vars
<1>1. ASSUME NEW b \in Bookings, InitializeRead(t, b) PROVE PayInv'
  <2> USE <1>1 DEF InitializeRead
  <2>1. PayShape'
    OBVIOUS
  <2>2. RequestsHaveRows'
    BY DEF RequestsHaveRows, Charge
  <2>3. RequestsComeFirst' /\ HooksAreTrue'
    BY DEF RequestsComeFirst, HooksAreTrue
  <2>4. PaymentsStay
    BY DEF PaymentsStay, PaidOrMocked, Paid, RequestsComeFirst
  <2> QED BY <2>1, <2>2, <2>3, <2>4, RowsAlone DEF PayInv
<1>2. CASE InitializeIntent(t)
  <2>1. /\ init[t].step = "adapter" /\ intent[t] # "succeeded" /\ txn[t] = "NONE"
        /\ UNCHANGED <<status, totalPrice, call, txn, sent, hook, mocked>>
    BY <1>2 DEF InitializeIntent, RequestsComeFirst
  <2>2. CASE init' = [init EXCEPT ![t].step = "opened"] /\ intent' = [intent EXCEPT ![t] = "open"]
    <3>1. PayShape'
      BY <2>1, <2>2
    <3>2. RequestsHaveRows'
      BY <2>1, <2>2 DEF RequestsHaveRows
    <3>3. RequestsComeFirst' /\ HooksAreTrue'
      BY <2>1, <2>2 DEF RequestsComeFirst, HooksAreTrue
    <3>4. PaymentsStay
      BY <2>1, <2>2 DEF PaymentsStay, PaidOrMocked, Paid
    <3> QED BY <2>1, <3>1, <3>2, <3>3, <3>4, RowsAlone DEF PayInv
  <2>3. CASE init' = [init EXCEPT ![t] = NotStarted] /\ UNCHANGED intent
    <3>1. PayShape'
      BY <2>1, <2>3 DEF NotStarted
    <3>2. RequestsHaveRows'
      BY <2>1, <2>3 DEF RequestsHaveRows, NotStarted
    <3>3. RequestsComeFirst' /\ HooksAreTrue'
      BY <2>1, <2>3 DEF RequestsComeFirst, HooksAreTrue
    <3>4. PaymentsStay
      BY <2>1, <2>3 DEF PaymentsStay, PaidOrMocked, Paid
    <3> QED BY <2>1, <3>1, <3>2, <3>3, <3>4, RowsAlone DEF PayInv
  <2> QED BY <1>2, <2>2, <2>3 DEF InitializeIntent
<1>3. CASE InitializeInsert(t)
  <2> USE <1>3 DEF InitializeInsert
  <2>1. PayShape'
    <3>1. txn' = [txn EXCEPT ![t] = "INITIATED"] /\ init' = [init EXCEPT ![t].step = "done"]
          /\ UNCHANGED <<intent, hook, sent, mocked>>
      OBVIOUS
    <3>2. txn' \in [Transactions -> TransactionStatuses]
      BY <3>1 DEF TransactionStatuses
    <3>3. /\ \A u \in Transactions : init'[u].step \in {"idle", "adapter", "opened", "done"}
          /\ \A u \in Transactions : init'[u].booking \in Bookings \cup {NoOne}
      BY <3>1
    <3>4. init' = [u \in Transactions |-> [step |-> init'[u].step, booking |-> init'[u].booking,
                                           amount |-> init'[u].amount]]
      BY <3>1
    <3> QED BY <3>1, <3>2, <3>3, <3>4
  <2>2. RequestsHaveRows'
    BY DEF RequestsHaveRows
  <2>3. RequestsComeFirst' /\ HooksAreTrue'
    BY DEF RequestsComeFirst, HooksAreTrue
  <2>4. PaymentsStay
    <3>1. \A u \in Transactions : init'[u].booking = init[u].booking
      OBVIOUS
    <3> QED BY <3>1 DEF PaymentsStay, PaidOrMocked, Paid
  <2> QED BY <2>1, <2>2, <2>3, <2>4, RowsAlone DEF PayInv
<1> QED BY <1>1, <1>2, <1>3 DEF Initialize

\* The customer pays for requests that were answered.
LEMMA AttemptKeepsPInv ==
    ASSUME PInv, NEW t \in Transactions, Attempt(t)
    PROVE  PayInv'
<1> USE DEF PInv, PayShape, vars
<1>1. init[t].step = "done" /\ UNCHANGED <<status, totalPrice, call, init, txn, hook, mocked>>
  BY DEF Attempt, AttemptSucceeds, AttemptFails
<1>2. PICK result \in BOOLEAN :
        /\ sent' = sent \cup {[txn |-> t, success |-> result]}
        /\ intent' = IF result THEN [intent EXCEPT ![t] = "succeeded"] ELSE intent
  <2>1. CASE AttemptSucceeds(t)
    <3> WITNESS TRUE \in BOOLEAN
    <3> QED BY <2>1 DEF AttemptSucceeds
  <2>2. CASE AttemptFails(t)
    <3> WITNESS FALSE \in BOOLEAN
    <3> QED BY <2>2 DEF AttemptFails
  <2> QED BY <2>1, <2>2 DEF Attempt
<1>3. PayShape'
  <2>1. intent' \in [Transactions -> {"none", "open", "succeeded"}]
    BY <1>2
  <2>2. sent' \subseteq [txn : Transactions, success : BOOLEAN]
    BY <1>2
  <2> QED BY <1>1, <2>1, <2>2
<1>4. RequestsHaveRows'
  BY <1>1 DEF RequestsHaveRows
<1>5. RequestsComeFirst' /\ HooksAreTrue'
  BY <1>1, <1>2 DEF RequestsComeFirst, HooksAreTrue
<1>6. PaymentsStay
  BY <1>1, <1>2 DEF PaymentsStay, PaidOrMocked, Paid
<1> QED BY <1>1, <1>3, <1>4, <1>5, <1>6, RowsAlone DEF PayInv

\* Finding and marking the transaction leaves bookings alone.
LEMMA HookKeepsPInv ==
    ASSUME PInv, NEW c \in Calls,
           HookUpdate(c) \/ \E report \in sent : HookFind(c, report)
    PROVE  PayInv'
<1> USE DEF PInv, PayShape, vars
<1>1. CASE HookUpdate(c)
  <2> USE <1>1 DEF HookUpdate
  <2>1. PayShape'
    BY DEF Outcome, TransactionStatuses
  <2>2. RequestsHaveRows' /\ RequestsComeFirst'
    BY DEF RequestsHaveRows, RequestsComeFirst, HooksAreTrue
  <2>3. HooksAreTrue'
    BY DEF HooksAreTrue
  <2>4. PaymentsStay
    BY DEF PaymentsStay, PaidOrMocked, Paid
  <2> QED BY <2>1, <2>2, <2>3, <2>4, RowsAlone DEF PayInv
<1>2. ASSUME NEW report \in sent, HookFind(c, report) PROVE PayInv'
  <2> USE <1>2 DEF HookFind, ExtractPaymentResult
  <2>1. PayShape'
    OBVIOUS
  <2>2. RequestsHaveRows' /\ RequestsComeFirst'
    BY DEF RequestsHaveRows, RequestsComeFirst
  <2>3. HooksAreTrue'
    BY DEF HooksAreTrue, RequestsComeFirst
  <2>4. PaymentsStay
    BY DEF PaymentsStay, PaidOrMocked, Paid
  <2> QED BY <2>1, <2>2, <2>3, <2>4, RowsAlone DEF PayInv
<1> QED BY <1>1, <1>2

\* A webhook or the mock endpoint confirms a booking that is paid or mocked.
LEMMA SettleKeepsPInv ==
    ASSUME PInv, NEW c \in Calls,
           HookSettle(c) \/ \E b \in Bookings : ConfirmMock(c, b)
    PROVE  PayInv'
<1> USE DEF PInv, PayShape
<1>1. UNCHANGED <<status, totalPrice, init, txn, intent, sent>>
  BY DEF HookSettle, Settle, ConfirmOrRefuse, CancelOrReturn, ConfirmRead, CancelRead,
         ConfirmMock, vars, createVars
<1>2. PayShape'
  <2>1. CASE HookSettle(c)
    BY <1>1, <2>1 DEF HookSettle, NoHook
  <2>2. ASSUME NEW b \in Bookings, ConfirmMock(c, b) PROVE PayShape'
    BY <1>1, <2>2 DEF ConfirmMock
  <2> QED BY <2>1, <2>2
<1>3. RequestsHaveRows' /\ RequestsComeFirst'
  BY <1>1 DEF RequestsHaveRows, RequestsComeFirst
<1>4. HooksAreTrue'
  <2>1. \A d \in Calls : hook'[d].step = "idle" \/ hook'[d] = hook[d]
    BY DEF HookSettle, ConfirmMock, NoHook
  <2> QED BY <1>1, <2>1 DEF HooksAreTrue
<1>5. \A b \in Bookings : PaidOrMocked(b) => PaidOrMocked(b)'
  BY <1>1 DEF HookSettle, ConfirmMock, PaidOrMocked, Paid
<1>6. ConfirmedMeansPaid'
  BY <1>1, <1>5 DEF ConfirmedMeansPaid, PaidOrMocked
<1>7. \A d \in Calls : call[d].step = "confirm" => call[d].booking \in Bookings
  BY DEF IInv, CallsHaveRows
<1>8. call \in [Calls -> CallRecords]
  BY DEF IInv, TypeOK
<1>9. ConfirmsArePaid'
  <2>1. CASE HookSettle(c)
    <3>1. hook[c].step # "idle"
      BY <2>1 DEF HookSettle
    <3>2. hook[c].success => Paid(init[hook[c].txn].booking)
      BY <3>1 DEF HooksAreTrue, Paid
    <3>3. ASSUME hook[c].success, ConfirmRead(c, init[hook[c].txn].booking)
          PROVE  ConfirmsArePaid'
      <4>1. PICK b \in Bookings : b = init[hook[c].txn].booking
        BY <3>1, HookHasRow
      <4>2. PaidOrMocked(b)'
        BY <1>5, <3>2, <3>3, <4>1 DEF PaidOrMocked
      <4> QED BY <1>5, <1>7, <1>8, <3>3, <4>1, <4>2 DEF ConfirmsArePaid, ConfirmRead
    <3>4. CASE CancelRead(c, init[hook[c].txn].booking)
      BY <1>5, <1>7, <1>8, <3>4 DEF ConfirmsArePaid, CancelRead
    <3>5. CASE UNCHANGED vars
      BY <1>5, <1>7, <3>5 DEF ConfirmsArePaid, vars
    <3> QED BY <2>1, <3>3, <3>4, <3>5, SettleIsCallStart
  <2>2. ASSUME NEW b \in Bookings, ConfirmMock(c, b) PROVE ConfirmsArePaid'
    <3>1. PaidOrMocked(b)'
      BY <2>2 DEF ConfirmMock, PaidOrMocked
    <3> QED BY <1>5, <1>7, <1>8, <2>2, <3>1 DEF ConfirmsArePaid, ConfirmMock, ConfirmRead
  <2> QED BY <2>1, <2>2
<1> QED BY <1>2, <1>3, <1>4, <1>6, <1>9 DEF PayInv

\* Every step keeps PInv.
LEMMA PayNextPInv == PInv /\ [PayNext]_allVars => PInv'
<1> SUFFICES ASSUME PInv, [PayNext]_allVars PROVE PInv'
  OBVIOUS
<1>1. IInv'
  BY PayStepRefines, NextIInv DEF PInv
<1>2. PayInv'
  <2>1. CASE EngineStep /\ UNCHANGED payVars
    BY <2>1, EngineKeepsPInv
  <2>2. CASE \E t \in Transactions : Initialize(t) \/ Attempt(t)
    BY <2>2, InitializeKeepsPInv, AttemptKeepsPInv
  <2>3. CASE \E c \in Calls, report \in sent : HookFind(c, report)
    BY <2>3, HookKeepsPInv
  <2>4. CASE \E c \in Calls : Hook(c)
    BY <2>4, HookKeepsPInv, SettleKeepsPInv DEF Hook
  <2>5. CASE \E c \in Calls, b \in Bookings : ConfirmMock(c, b)
    BY <2>5, SettleKeepsPInv
  <2>6. CASE PayCrash
    BY <2>6, CrashKeepsPInv
  <2>7. CASE UNCHANGED allVars
    BY <2>7 DEF allVars, vars, payVars, PInv, PayInv, PayShape, RequestsHaveRows, RequestsComeFirst,
                HooksAreTrue, ConfirmsArePaid, ConfirmedMeansPaid, PaidOrMocked, Paid
  <2> QED BY <2>1, <2>2, <2>3, <2>4, <2>5, <2>6, <2>7 DEF PayNext, EngineStep
<1> QED BY <1>1, <1>2 DEF PInv, PayInv

-----------------------------------------------------------------------------
\* PInv holds in every reachable state.
LEMMA PaymentsInvariant == PaySpec => []PInv
BY PayInitPInv, PayNextPInv, PTL DEF PaySpec

(***************************************************************************)
(* Requests, transactions, intents, reports and webhooks keep their types. *)
(***************************************************************************)
THEOREM PaymentsTypeCorrect == PaySpec => []PayTypeOK
<1>1. PInv => PayTypeOK
  BY DEF PInv, PayShape, PayTypeOK
<1> QED BY <1>1, PaymentsInvariant, PTL

(***************************************************************************)
(* No booking is confirmed that was not paid, but for the mock endpoint,   *)
(* however webhooks are delayed, repeated and reordered.                   *)
(***************************************************************************)
THEOREM NoConfirmationUnpaid == PaySpec => []ConfirmedMeansPaid
<1>1. PInv => ConfirmedMeansPaid
  BY DEF PInv
<1> QED BY <1>1, PaymentsInvariant, PTL

(***************************************************************************)
(* The customer is charged the price of the booking row.                   *)
(***************************************************************************)
THEOREM ChargeIsPrice == PaySpec => []ChargedThePrice
<1>1. PInv => ChargedThePrice
  BY DEF PInv, RequestsHaveRows, ChargedThePrice
<1> QED BY <1>1, PaymentsInvariant, PTL

(***************************************************************************)
(* Whoever holds a confirmed booking has paid the price in its row, or the *)
(* mock endpoint was called: the two facts above speak of one transaction. *)
(***************************************************************************)
THEOREM ConfirmationPaysThePrice == PaySpec => []ConfirmedMeansPaidInFull
<1>1. ASSUME PInv PROVE ConfirmedMeansPaidInFull
  <2>1. \A b \in Bookings : status[b] = "CONFIRMED" => PaidOrMocked(b)
    BY <1>1 DEF PInv, ConfirmedMeansPaid, PaidOrMocked
  <2>2. \A t \in Transactions :
            intent[t] = "succeeded" => init[t].amount = totalPrice[init[t].booking]
    BY <1>1 DEF PInv, RequestsComeFirst, RequestsHaveRows
  <2> QED BY <2>1, <2>2 DEF ConfirmedMeansPaidInFull, PaidOrMocked, Paid
<1> QED BY <1>1, PaymentsInvariant, PTL

(***************************************************************************)
(* Payments drive the reservation engine as Booking specifies it, and so   *)
(* implement the abstract Reservation.                                     *)
(***************************************************************************)
THEOREM PaymentsImplementBooking == PaySpec => ImplementsBooking
<1>1. PayInit => Init
  BY DEF PayInit
<1> QED BY <1>1, PayStepRefines, PaymentsInvariant, PTL DEF PaySpec, ImplementsBooking, Spec

(***************************************************************************)
(* Under webhooks, too, dates are sold twice only through a revival: what  *)
(* Booking promises holds of payments.                                     *)
(***************************************************************************)
THEOREM PaymentsImplementReservation == PaySpec => ImplementsReservation
BY PaymentsImplementBooking, BookingImplementsReservation DEF ImplementsBooking

(***************************************************************************)
(* Whoever confirms, a payment, a webhook or the mock endpoint: the        *)
(* parties are told, as long as nothing fails.                             *)
(***************************************************************************)
THEOREM PaymentsAnnounceOutcomes == PaySpec => []AnnouncedUnlessExpired
BY PaymentsImplementBooking, OutcomesAreAnnounced DEF ImplementsBooking

(***************************************************************************)
(* Only a failure leaves a booking that nobody pays without an expiration  *)
(* job that is still to take effect, whatever payments, webhooks and mock  *)
(* confirmations do.                                                       *)
(***************************************************************************)
THEOREM PaymentsKeepTimers == PaySpec => []PendingHasTimer
BY PaymentsImplementBooking, PendingBookingsHaveTimers DEF ImplementsBooking
=============================================================================
