------------------------------- MODULE Payments -------------------------------
(***************************************************************************)
(* PaymentService and PaymentController on top of Booking.  A member of    *)
(* Transactions names a POST /payments/initialize request, the payment     *)
(* intent it opens at the provider and the transaction row it inserts.     *)
(* The provider reports each attempt of the customer by a webhook; it may  *)
(* deliver a report late, twice or after a younger one, and it delivers    *)
(* again what was not answered with 200.                                   *)
(***************************************************************************)
EXTENDS Booking

CONSTANTS Transactions

VARIABLES
    init,     \* how far each initialize request is, for which booking, with which amount
    txn,      \* status column of the transaction row; "NONE" before the insert
    intent,   \* external: the payment intent at the provider
    sent,     \* external: the reports the provider has issued
    hook,     \* how far each webhook request is before it calls confirm or cancel
    mocked    \* history: bookings for which POST /payments/confirm-mock confirmed

payVars == <<init, txn, intent, sent, hook, mocked>>
allVars == <<vars, payVars>>

TransactionStatuses == {"NONE", "INITIATED", "SUCCESS", "FAILED"}
NotStarted == [step |-> "idle", booking |-> NoOne, amount |-> 0]
NoHook == [step |-> "idle", txn |-> NoOne, success |-> FALSE]

PayTypeOK ==
    /\ \A t \in Transactions :
        /\ init[t].step \in {"idle", "adapter", "opened", "done"}
        /\ init[t].booking \in Bookings \cup {NoOne}
    /\ txn \in [Transactions -> TransactionStatuses]
    /\ intent \in [Transactions -> {"none", "open", "succeeded"}]
    /\ sent \subseteq [txn : Transactions, success : BOOLEAN]
    /\ hook \in [Calls -> [step : {"idle", "update", "settle"},
                           txn : Transactions \cup {NoOne}, success : BOOLEAN]]
    /\ mocked \subseteq Bookings

PayInit ==
    /\ Init
    /\ init = [t \in Transactions |-> NotStarted]
    /\ txn = [t \in Transactions |-> "NONE"]
    /\ intent = [t \in Transactions |-> "none"]
    /\ sent = {}
    /\ hook = [c \in Calls |-> NoHook]
    /\ mocked = {}

-----------------------------------------------------------------------------
(* initializePayment() *)

\* Mutant: the price is computed again, from the listing of today.
ChargeAnew(b) ==
    LET today == listing[claim[b].propertyId]
    IN  CalculateTotalPrice(today.basePrice, today.overrides, claim[b])
Charge(b) == totalPrice[b]

\* The booking is read; its price is what will be charged.
InitializeRead(t, b) ==
    /\ init[t].step = "idle"
    /\ status[b] = "PENDING_PAYMENT"
    /\ init' = [init EXCEPT ![t] = [step |-> "adapter", booking |-> b, amount |-> Charge(b)]]
    /\ UNCHANGED <<vars, txn, intent, sent, hook, mocked>>

\* The provider opens an intent, or refuses and the request fails.
InitializeIntent(t) ==
    /\ init[t].step = "adapter"
    /\ \/ /\ init' = [init EXCEPT ![t].step = "opened"]
          /\ intent' = [intent EXCEPT ![t] = "open"]
       \/ /\ init' = [init EXCEPT ![t] = NotStarted]
          /\ UNCHANGED intent
    /\ UNCHANGED <<vars, txn, sent, hook, mocked>>

\* The row is inserted, and the customer gets the paymentUrl.
InitializeInsert(t) ==
    /\ init[t].step = "opened"
    /\ txn' = [txn EXCEPT ![t] = "INITIATED"]
    /\ init' = [init EXCEPT ![t].step = "done"]
    /\ UNCHANGED <<vars, intent, sent, hook, mocked>>

-----------------------------------------------------------------------------
(* The customer at the provider: an attempt that fails may be repeated. *)

AttemptSucceeds(t) ==
    /\ init[t].step = "done" /\ intent[t] = "open"
    /\ intent' = [intent EXCEPT ![t] = "succeeded"]
    /\ sent' = sent \cup {[txn |-> t, success |-> TRUE]}
    /\ UNCHANGED <<vars, init, txn, hook, mocked>>

AttemptFails(t) ==
    /\ init[t].step = "done" /\ intent[t] = "open"
    /\ sent' = sent \cup {[txn |-> t, success |-> FALSE]}
    /\ UNCHANGED <<vars, init, txn, intent, hook, mocked>>

-----------------------------------------------------------------------------
(* The two webhook endpoints, which differ in the adapter only. *)

SlotFree(c) == hook[c].step = "idle" /\ call[c].step = "idle"

ExtractPaymentResult(report) == report.success

\* The signature is verified, the payload read, and the transaction found.
HookFind(c, report) ==
    /\ SlotFree(c)
    /\ txn[report.txn] # "NONE"
    /\ hook' = [hook EXCEPT ![c] =
            [step |-> "update", txn |-> report.txn, success |-> ExtractPaymentResult(report)]]
    /\ UNCHANGED <<vars, init, txn, intent, sent, mocked>>

\* Mutant: the word of the provider, which the column does not know.
ProviderWord(success) == IF success THEN "succeeded" ELSE "failed"
Outcome(success) == IF success THEN "SUCCESS" ELSE "FAILED"

\* The status of the row is overwritten, whatever it was.
HookUpdate(c) ==
    /\ hook[c].step = "update"
    /\ txn' = [txn EXCEPT ![hook[c].txn] = Outcome(hook[c].success)]
    /\ hook' = [hook EXCEPT ![c].step = "settle"]
    /\ UNCHANGED <<vars, init, intent, sent, mocked>>

\* confirm() or its exception; cancel() or its early return.
ConfirmOrRefuse(c, b) == ConfirmRead(c, b) \/ (status[b] # "PENDING_PAYMENT" /\ UNCHANGED vars)
CancelOrReturn(c, b)  == CancelRead(c, b) \/ (status[b] = "CANCELLED" /\ UNCHANGED vars)

\* Mutant: the booking is looked up, and nobody is called.
SettleForgotten(c, b) == UNCHANGED vars
\* Mutant: the webhook writes the row itself and calls neither confirm nor cancel.
SettledHere(c, b) ==
    /\ status' = [status EXCEPT ![b] = IF hook[c].success THEN "CONFIRMED" ELSE "CANCELLED"]
    /\ UNCHANGED <<claim, version, call, emitted, faults, revived, hostVars, createVars, workVars>>
Settle(c, b) == IF hook[c].success THEN ConfirmOrRefuse(c, b) ELSE CancelOrReturn(c, b)

\* The controller calls confirm after a success, cancel otherwise, in the same slot.
HookSettle(c) ==
    /\ hook[c].step = "settle"
    /\ Settle(c, init[hook[c].txn].booking)
    /\ hook' = [hook EXCEPT ![c] = NoHook]
    /\ UNCHANGED <<init, txn, intent, sent, mocked>>

\* POST /payments/confirm-mock
ConfirmMock(c, b) ==
    /\ SlotFree(c)
    /\ ConfirmRead(c, b)
    /\ mocked' = mocked \cup {b}
    /\ UNCHANGED <<init, txn, intent, sent, hook>>

-----------------------------------------------------------------------------
\* A request that was not answered is gone, with the intent it may have opened.
RequestDropped(t) == IF init[t].step = "done" THEN init[t] ELSE NotStarted

PayCrash ==
    /\ Crash
    /\ init' = [t \in Transactions |-> RequestDropped(t)]
    /\ hook' = [c \in Calls |-> NoHook]
    /\ UNCHANGED <<txn, intent, sent, mocked>>

Initialize(t) ==
    \/ \E b \in Bookings : InitializeRead(t, b)
    \/ InitializeIntent(t)
    \/ InitializeInsert(t)

Attempt(t) == AttemptSucceeds(t) \/ AttemptFails(t)
Hook(c) == HookUpdate(c) \/ HookSettle(c)

PayNext ==
    \/ /\ \/ Host
          \/ \E b \in Bookings : CreateStep(b) \/ WorkerStep(b)
          \/ \E c \in Calls : CallStep(c)
       /\ UNCHANGED payVars
    \/ \E t \in Transactions : Initialize(t) \/ Attempt(t)
    \/ \E c \in Calls, report \in sent : HookFind(c, report)
    \/ \E c \in Calls : Hook(c)
    \/ \E c \in Calls, b \in Bookings : ConfirmMock(c, b)
    \/ PayCrash

PaySpec == PayInit /\ [][PayNext]_allVars

(***************************************************************************)
(* Fairness: a webhook request that was accepted runs to its end, and the  *)
(* provider delivers a report of success again and again.                  *)
(***************************************************************************)
FairPaySpec ==
    /\ PaySpec
    /\ \A c \in Calls : WF_allVars(Hook(c)) /\ WF_allVars(CallStep(c) /\ UNCHANGED payVars)
    /\ \A t \in Transactions :
            SF_allVars(\E c \in Calls : HookFind(c, [txn |-> t, success |-> TRUE]))

-----------------------------------------------------------------------------
(* Properties. *)

Paid(b) == \E t \in Transactions : init[t].booking = b /\ intent[t] = "succeeded"

(***************************************************************************)
(* Payments run the reservation engine as it is specified alone: what      *)
(* holds of Booking holds under webhooks.                                  *)
(***************************************************************************)
ImplementsBooking == Spec

(***************************************************************************)
(* A booking is confirmed only if the provider has the money of one of its *)
(* transactions, or the mock endpoint was called for it, however webhooks  *)
(* are delayed, repeated and mixed with requests for other bookings.       *)
(***************************************************************************)
ConfirmedMeansPaid ==
    \A b \in Bookings : status[b] = "CONFIRMED" => (Paid(b) \/ b \in mocked)

(***************************************************************************)
(* What an intent charges is the price of the booking row, even when the   *)
(* host changed the listing between booking and payment.                   *)
(***************************************************************************)
ChargedThePrice ==
    \A t \in Transactions :
        init[t].step # "idle" => init[t].amount = totalPrice[init[t].booking]

(***************************************************************************)
(* Money and booking fit together end to end: a CONFIRMED booking has a    *)
(* payment that succeeded over exactly the price in its row, unless the    *)
(* mock endpoint confirmed it.  In between lie a change of the listing by  *)
(* the host, other attempts, and webhooks that are late or repeated.       *)
(***************************************************************************)
ConfirmedMeansPaidInFull ==
    \A b \in Bookings :
        status[b] = "CONFIRMED" =>
            \/ b \in mocked
            \/ \E t \in Transactions :
                /\ init[t].booking = b
                /\ intent[t] = "succeeded"
                /\ init[t].amount = totalPrice[b]

(***************************************************************************)
(* A payment that succeeded gets its booking out of PENDING_PAYMENT, with  *)
(* or without an expiration job.                                           *)
(***************************************************************************)
PaymentSettles ==
    \A t \in Transactions, b \in Bookings :
        (intent[t] = "succeeded" /\ init[t].booking = b) ~> (status[b] # "PENDING_PAYMENT")

=============================================================================
