------------------------------- MODULE Booking -------------------------------
(***************************************************************************)
(* The reservation engine: BookingService, the worker of the               *)
(* booking-expiration queue and the tables they share.  Every handler is   *)
(* cut at its awaits: a step reads or writes the database once, and the    *)
(* steps of all requests, of the worker and of the hosts interleave.       *)
(*                                                                         *)
(* A member of Bookings names a POST /bookings request and the row that    *)
(* request inserts.  A rejected request may be sent again.  A member of    *)
(* Calls is a slot for one execution of confirm() or cancel().             *)
(***************************************************************************)
EXTENDS Pricing

CONSTANTS
    Properties, Bookings, Calls,
    Claims,          \* bodies of create requests: propertyId, start, end
    Overrides,       \* override rows a host may add: status, start, end, price
    BasePrices,      \* base prices a host may set
    NoOne,           \* "no booking", for a free lock or an idle call
    MaxOverrides,    \* bound on the override rows of a property
    MaxFaults        \* bound on crashes and failed calls to MySQL or Redis

ASSUME BookingAssumption ==
    /\ Claims \subseteq [propertyId : Properties, start : Int, end : Int]
    /\ NoOne \notin Bookings
    /\ MaxFaults \in Nat /\ MaxOverrides \in Nat

VARIABLES
    listing,     \* properties: isActive, basePrice and their override rows
    claim,       \* propertyId, startDate, endDate: of the request, then of the row
    totalPrice,  \* the price a request computed, then the column of the row
    status,      \* column of the row; "NONE" before the row is inserted
    version,     \* column of the row
    lock,        \* who holds the row lock of a property (SELECT ... FOR UPDATE)
    create,      \* how far each create request is
    call,        \* how far each confirm or cancel is, and what it has read
    job,         \* the expiration job of a booking and how far its worker is
    stalled,     \* jobs that were active during a crash once already
    emitted,     \* number of booking.confirmed and booking.cancelled events
    faults,      \* crashes and failures so far
    revived      \* history: bookings confirmed although they were CANCELLED

hostVars   == <<listing>>
createVars == <<lock, create, totalPrice>>
workVars   == <<job, stalled>>
vars == <<listing, claim, totalPrice, status, version, lock, create, call,
          job, stalled, emitted, faults, revived>>

Statuses   == {"NONE", "PENDING_PAYMENT", "CONFIRMED", "CANCELLED"}
Live       == {"PENDING_PAYMENT", "CONFIRMED"}
CreateSteps == {"idle", "read", "checked", "locked", "rechecked", "committed", "done"}
CallSteps  == {"idle", "confirm", "confirmed", "cancel", "cancelled"}
JobStates  == {"none", "waiting", "expire", "done", "failed"}

CallRecords == [step : CallSteps, booking : Bookings \cup {NoOne}, version : Nat]
Idle == [step |-> "idle", booking |-> NoOne, version |-> 0]

\* The two claims are for one property and for overlapping dates.
Clash(a, b) == a.propertyId = b.propertyId /\ Overlaps(a, b)

\* Mutant: only paid bookings block their dates.
FreeOfPaid(b) == \A o \in Bookings : status[o] = "CONFIRMED" => ~Clash(claim[o], claim[b])

\* No row blocks the dates of request b: the findFirst of both checks.
Free(b) == \A o \in Bookings : status[o] \in Live => ~Clash(claim[o], claim[b])

\* A row has a price that is positive.
RowsHavePrice == \A b \in Bookings : status[b] # "NONE" => totalPrice[b] > 0

TypeOK ==
    /\ \A p \in Properties :
        /\ listing[p].isActive \in BOOLEAN
        /\ listing[p].basePrice \in BasePrices
        /\ listing[p].overrides \in Seq(Overrides)
    /\ claim \in [Bookings -> Claims]
    /\ totalPrice = [b \in Bookings |-> totalPrice[b]]
    /\ status \in [Bookings -> Statuses]
    /\ RowsHavePrice
    /\ version \in [Bookings -> Nat]
    /\ lock \in [Properties -> Bookings \cup {NoOne}]
    /\ create \in [Bookings -> CreateSteps]
    /\ call \in [Calls -> CallRecords]
    /\ job \in [Bookings -> JobStates]
    /\ stalled \subseteq Bookings
    /\ emitted \in [Bookings -> [confirmed : Nat, cancelled : Nat]]
    /\ faults \in Nat
    /\ revived \subseteq Bookings

Init ==
    /\ listing \in [Properties -> [isActive : {TRUE}, basePrice : BasePrices, overrides : {<<>>}]]
    /\ claim \in [Bookings -> Claims]
    /\ totalPrice = [b \in Bookings |-> 0]
    /\ status = [b \in Bookings |-> "NONE"]
    /\ version = [b \in Bookings |-> 1]
    /\ lock = [p \in Properties |-> NoOne]
    /\ create = [b \in Bookings |-> "idle"]
    /\ call = [c \in Calls |-> Idle]
    /\ job = [b \in Bookings |-> "none"]
    /\ stalled = {}
    /\ emitted = [b \in Bookings |-> [confirmed |-> 0, cancelled |-> 0]]
    /\ faults = 0
    /\ revived = {}

\* Mutant: the row is read without FOR UPDATE, so nobody waits.
NeverLocked(p) == TRUE
Unlocked(p) == lock[p] = NoOne

\* Mutant: a transaction that ends does not give its lock back.
LockKept(b) == UNCHANGED lock
Unlock(b) == lock' = [p \in Properties |-> IF lock[p] = b THEN NoOne ELSE lock[p]]

-----------------------------------------------------------------------------
(***************************************************************************)
(* Hosts edit their listing between the steps of requests.  To InnoDB each *)
(* edit needs the row of the property: the update writes it, the insert of *)
(* an override locks it for its foreign key.                               *)
(***************************************************************************)

HostSetActive(p, active) ==
    /\ Unlocked(p)
    /\ listing[p].isActive # active
    /\ listing' = [listing EXCEPT ![p].isActive = active]
    /\ UNCHANGED <<claim, status, version, call, emitted, faults, revived, createVars, workVars>>

HostSetPrice(p, price) ==
    /\ Unlocked(p)
    /\ listing[p].basePrice # price
    /\ listing' = [listing EXCEPT ![p].basePrice = price]
    /\ UNCHANGED <<claim, status, version, call, emitted, faults, revived, createVars, workVars>>

(***************************************************************************)
(* setAvailability looks at no booking.  Its own test against overrides    *)
(* that touch the new one is not atomic with the insert, so that any two   *)
(* overrides may end up together; here none is refused.                    *)
(***************************************************************************)
HostSetAvailability(p, override) ==
    /\ Unlocked(p)
    /\ Len(listing[p].overrides) < MaxOverrides
    /\ listing' = [listing EXCEPT ![p].overrides = Append(@, override)]
    /\ UNCHANGED <<claim, status, version, call, emitted, faults, revived, createVars, workVars>>

-----------------------------------------------------------------------------
(* create() *)

\* Validation, one read of the property with its overrides, and the price they give.
CreateRead(b) ==
    LET seen == listing[claim[b].propertyId]
    IN  /\ create[b] = "idle"
        /\ claim[b].start < claim[b].end
        /\ seen.isActive
        /\ ~Blocked(seen.overrides, claim[b])
        /\ create' = [create EXCEPT ![b] = "read"]
        /\ totalPrice' = [totalPrice EXCEPT ![b] =
                CalculateTotalPrice(seen.basePrice, seen.overrides, claim[b])]
        /\ UNCHANGED <<claim, status, version, lock, call, emitted, faults, revived,
                       hostVars, workVars>>

\* Mutant: the price is not tested.
AcceptedAtAnyPrice(b) == Free(b)
Accepted(b) == Free(b) /\ totalPrice[b] > 0

\* The check outside the transaction, and the refusal of a price that is not positive.
CreatePreCheck(b) ==
    /\ create[b] = "read"
    /\ create' = [create EXCEPT ![b] =
            IF Accepted(b) THEN "checked" ELSE "idle"]
    /\ UNCHANGED <<claim, totalPrice, status, version, lock, call, emitted, faults, revived,
                   hostVars, workVars>>

\* SELECT id FROM properties ... FOR UPDATE returns once the row lock is free.
CreateLock(b) ==
    /\ create[b] = "checked"
    /\ Unlocked(claim[b].propertyId)
    /\ lock' = [lock EXCEPT ![claim[b].propertyId] = b]
    /\ create' = [create EXCEPT ![b] = "locked"]
    /\ UNCHANGED <<claim, totalPrice, status, version, call, emitted, faults, revived,
                   hostVars, workVars>>

\* The check inside the transaction; the exception rolls it back.
CreateRecheck(b) ==
    /\ create[b] = "locked"
    /\ \/ /\ Free(b)
          /\ create' = [create EXCEPT ![b] = "rechecked"]
          /\ UNCHANGED lock
       \/ /\ ~Free(b)
          /\ create' = [create EXCEPT ![b] = "idle"]
          /\ Unlock(b)
    /\ UNCHANGED <<claim, totalPrice, status, version, call, emitted, faults, revived,
                   hostVars, workVars>>

\* The insert and the commit, which makes the row visible and frees the lock.
CreateCommit(b) ==
    /\ create[b] = "rechecked"
    /\ status' = [status EXCEPT ![b] = "PENDING_PAYMENT"]
    /\ Unlock(b)
    /\ create' = [create EXCEPT ![b] = "committed"]
    /\ UNCHANGED <<claim, totalPrice, version, call, emitted, faults, revived,
                   hostVars, workVars>>

\* expirationQueue.add, after the commit; the request then answers.
CreateSchedule(b) ==
    /\ create[b] = "committed"
    /\ job' = [job EXCEPT ![b] = "waiting"]
    /\ create' = [create EXCEPT ![b] = "done"]
    /\ UNCHANGED <<claim, totalPrice, status, version, lock, call, stalled, emitted, faults,
                   revived, hostVars>>

\* Redis refuses the job: the request answers with an error, the row stays.
CreateScheduleFails(b) ==
    /\ create[b] = "committed"
    /\ faults < MaxFaults
    /\ faults' = faults + 1
    /\ create' = [create EXCEPT ![b] = "done"]
    /\ UNCHANGED <<claim, totalPrice, status, version, lock, call, emitted, revived,
                   hostVars, workVars>>

\* MySQL fails or the transaction times out: rollback, and the lock is freed.
CreateFails(b) ==
    /\ create[b] \in {"checked", "locked", "rechecked"}
    /\ faults < MaxFaults
    /\ faults' = faults + 1
    /\ create' = [create EXCEPT ![b] = "idle"]
    /\ Unlock(b)
    /\ UNCHANGED <<claim, totalPrice, status, version, call, emitted, revived,
                   hostVars, workVars>>

-----------------------------------------------------------------------------
(* confirm() and cancel() *)

\* findUnique, and the refusal of a booking that is not PENDING_PAYMENT.
ConfirmRead(c, b) ==
    /\ call[c].step = "idle"
    /\ status[b] = "PENDING_PAYMENT"
    /\ call' = [call EXCEPT ![c] = [step |-> "confirm", booking |-> b, version |-> version[b]]]
    /\ UNCHANGED <<claim, status, version, emitted, faults, revived, hostVars, createVars, workVars>>

(***************************************************************************)
(* PrismaService adds { version: increment } only to data that names the   *)
(* column; confirm's data does not.                                        *)
(***************************************************************************)
VersionAfter(v, data) == IF "version" \in data THEN v + 1 ELSE v

\* updateMany where id and the version that was read; count 0 is a conflict.
ConfirmWrite(c) ==
    LET b == call[c].booking
        matched == version[b] = call[c].version
    IN  /\ call[c].step = "confirm"
        /\ status' = IF matched THEN [status EXCEPT ![b] = "CONFIRMED"] ELSE status
        /\ version' = IF matched
                      THEN [version EXCEPT ![b] = VersionAfter(@, {"status"})]
                      ELSE version
        /\ call' = [call EXCEPT ![c] = IF matched THEN [@ EXCEPT !.step = "confirmed"] ELSE Idle]
        /\ revived' = IF matched /\ status[b] = "CANCELLED" THEN revived \cup {b} ELSE revived
        /\ UNCHANGED <<claim, emitted, faults, hostVars, createVars, workVars>>

\* Mutant: nobody is told.
Untold(b) == emitted
ConfirmedEvent(b) == [emitted EXCEPT ![b].confirmed = @ + 1]

\* The row is read again and booking.confirmed is emitted, whatever its status is now.
ConfirmEmit(c) ==
    /\ call[c].step = "confirmed"
    /\ emitted' = ConfirmedEvent(call[c].booking)
    /\ call' = [call EXCEPT ![c] = Idle]
    /\ UNCHANGED <<claim, status, version, faults, revived, hostVars, createVars, workVars>>

\* A booking that is CANCELLED already is returned as it is.
CancelRead(c, b) ==
    /\ call[c].step = "idle"
    /\ status[b] \in Live
    /\ call' = [call EXCEPT ![c] = [step |-> "cancel", booking |-> b, version |-> version[b]]]
    /\ UNCHANGED <<claim, status, version, emitted, faults, revived, hostVars, createVars, workVars>>

CancelWrite(c) ==
    /\ call[c].step = "cancel"
    /\ status' = [status EXCEPT ![call[c].booking] = "CANCELLED"]
    /\ call' = [call EXCEPT ![c].step = "cancelled"]
    /\ UNCHANGED <<claim, version, emitted, faults, revived, hostVars, createVars, workVars>>

CancelEmit(c) ==
    /\ call[c].step = "cancelled"
    /\ emitted' = [emitted EXCEPT ![call[c].booking].cancelled = @ + 1]
    /\ call' = [call EXCEPT ![c] = Idle]
    /\ UNCHANGED <<claim, status, version, faults, revived, hostVars, createVars, workVars>>

-----------------------------------------------------------------------------
(* The worker of the booking-expiration queue, which takes one job at a time. *)

\* Mutant: the worker takes a booking that waits for its payment for a settled one.
TakenAsSettled(b) == "done"
Taken(b) == IF status[b] = "PENDING_PAYMENT" THEN "expire" ELSE "done"

\* The delay has passed; the worker takes the job and reads the booking.
ExpireRead(b) ==
    /\ job[b] = "waiting"
    /\ \A o \in Bookings : job[o] # "expire"
    /\ job' = [job EXCEPT ![b] = Taken(b)]
    /\ UNCHANGED <<claim, status, version, call, stalled, emitted, faults, revived,
                   hostVars, createVars>>

\* The update names only the id, and no event is emitted.
ExpireWrite(b) ==
    /\ job[b] = "expire"
    /\ status' = [status EXCEPT ![b] = "CANCELLED"]
    /\ job' = [job EXCEPT ![b] = "done"]
    /\ UNCHANGED <<claim, version, call, stalled, emitted, faults, revived, hostVars, createVars>>

\* A database error in either step: the queue has one attempt per job.
ExpireFails(b) ==
    /\ job[b] \in {"waiting", "expire"}
    /\ \A o \in Bookings \ {b} : job[o] # "expire"
    /\ faults < MaxFaults
    /\ faults' = faults + 1
    /\ job' = [job EXCEPT ![b] = "failed"]
    /\ UNCHANGED <<claim, status, version, call, stalled, emitted, revived, hostVars, createVars>>

-----------------------------------------------------------------------------
JobAfterCrash(b) ==
    IF job[b] # "expire" THEN job[b]
    ELSE IF b \in stalled THEN "failed" ELSE "waiting"

RequestAfterCrash(b) == IF status[b] = "NONE" THEN "idle" ELSE "done"

(***************************************************************************)
(* The process dies: requests and calls are lost, open transactions are    *)
(* rolled back.  MySQL and Redis keep what they have.  BullMQ puts an      *)
(* active job back to waiting the first time it stalls and fails it the    *)
(* second time.                                                            *)
(***************************************************************************)
Crash ==
    /\ faults < MaxFaults
    /\ faults' = faults + 1
    /\ create' = [b \in Bookings |-> RequestAfterCrash(b)]
    /\ lock' = [p \in Properties |-> NoOne]
    /\ call' = [c \in Calls |-> Idle]
    /\ job' = [b \in Bookings |-> JobAfterCrash(b)]
    /\ stalled' = stalled \cup {b \in Bookings : job[b] = "expire"}
    /\ UNCHANGED <<claim, totalPrice, status, version, emitted, revived, hostVars>>

Host ==
    \E p \in Properties :
        \/ \E active \in BOOLEAN : HostSetActive(p, active)
        \/ \E price \in BasePrices : HostSetPrice(p, price)
        \/ \E override \in Overrides : HostSetAvailability(p, override)

CreateStep(b) ==
    \/ CreateRead(b)
    \/ CreatePreCheck(b)
    \/ CreateLock(b)
    \/ CreateRecheck(b)
    \/ CreateCommit(b)
    \/ CreateSchedule(b)
    \/ CreateScheduleFails(b)
    \/ CreateFails(b)

CallStart(c) == \E b \in Bookings : ConfirmRead(c, b) \/ CancelRead(c, b)
CallStep(c) == ConfirmWrite(c) \/ ConfirmEmit(c) \/ CancelWrite(c) \/ CancelEmit(c)
WorkerStep(b) == ExpireRead(b) \/ ExpireWrite(b) \/ ExpireFails(b)

Next ==
    \/ Host
    \/ \E b \in Bookings : CreateStep(b) \/ WorkerStep(b)
    \/ \E c \in Calls : CallStart(c) \/ CallStep(c)
    \/ Crash

Spec == Init /\ [][Next]_vars

(***************************************************************************)
(* Fairness: a handler that was entered runs on, a lock request is served  *)
(* in its turn (InnoDB queues them, hence SF), and BullMQ hands a job      *)
(* whose delay has passed to the worker.  Nobody has to send a request.    *)
(***************************************************************************)
Fairness ==
    /\ \A b \in Bookings :
        /\ WF_vars(CreatePreCheck(b))
        /\ SF_vars(CreateLock(b))
        /\ WF_vars(CreateRecheck(b))
        /\ WF_vars(CreateCommit(b))
        /\ WF_vars(CreateSchedule(b))
        /\ WF_vars(ExpireRead(b))
        /\ WF_vars(ExpireWrite(b))
    /\ \A c \in Calls : WF_vars(CallStep(c))

FairSpec == Spec /\ Fairness

-----------------------------------------------------------------------------
(* Properties. *)

InTransaction(b) == create[b] \in {"locked", "rechecked"}

(***************************************************************************)
(* The row lock of a property is held exactly while a request for that     *)
(* property is between SELECT ... FOR UPDATE and the end of its            *)
(* transaction: no two requests are there together, and no exit of create  *)
(* (insert, conflict, database error, crash) leaves the lock behind.       *)
(***************************************************************************)
LockIsHeldInTransaction ==
    \A p \in Properties, b \in Bookings :
        lock[p] = b <=> (InTransaction(b) /\ claim[b].propertyId = p)

(***************************************************************************)
(* What the second check of create found still holds when the row is       *)
(* inserted: nobody can insert in between, and a confirm or cancel that    *)
(* runs in between does not make dates taken that were free, with the one  *)
(* exception of a booking that is revived.                                 *)
(***************************************************************************)
RecheckStaysValid ==
    \A b, o \in Bookings :
        (create[b] = "rechecked" /\ status[o] \in Live /\ Clash(claim[o], claim[b]))
            => o \in revived

(***************************************************************************)
(* Two live bookings of one property overlap only if one of them was       *)
(* confirmed after it had been cancelled: the two checks and the row lock  *)
(* of create never admit an overlap, in any interleaving and across        *)
(* crashes.                                                                *)
(***************************************************************************)
OverlapNeedsRevival ==
    \A a, b \in Bookings :
        (a # b /\ status[a] \in Live /\ status[b] \in Live /\ Clash(claim[a], claim[b]))
            => (a \in revived \/ b \in revived)

(***************************************************************************)
(* The reservation engine implements the abstract Reservation: a granted   *)
(* claim, a payment, a release or a revival is one step there, everything  *)
(* else (reads, locks, retries, jobs, crashes, hosts) is invisible.        *)
(***************************************************************************)
R == INSTANCE Reservation WITH
    Bookings <- Bookings, Claims <- Claims,
    claim <- claim, status <- status, revived <- revived

ImplementsReservation == R!Spec

(***************************************************************************)
(* A booking that waits for its payment has an expiration job that the     *)
(* worker has not finished, or its request is about to add it.  Only a     *)
(* failure leaves it without: the job was never added (Redis refused it,   *)
(* or the process died after the commit) or it failed.  A job that ended   *)
(* well never leaves a booking waiting, whatever failed elsewhere.         *)
(***************************************************************************)
PendingHasTimer ==
    \A b \in Bookings :
        (status[b] = "PENDING_PAYMENT")
            => \/ create[b] = "committed"
               \/ job[b] \in {"waiting", "expire"}
               \/ faults > 0 /\ job[b] \in {"none", "failed"}

(***************************************************************************)
(* As long as nothing failed, who holds a confirmed or cancelled booking   *)
(* has been told or is about to be, whatever confirms, cancels and jobs    *)
(* overwrite each other; only the expiration worker cancels in silence.    *)
(***************************************************************************)
AnnouncedUnlessExpired ==
    \A b \in Bookings :
        LET Telling(step) == \E c \in Calls : call[c].step = step /\ call[c].booking = b
        IN  faults = 0 =>
                /\ (status[b] = "CONFIRMED")
                        => (emitted[b].confirmed > 0 \/ Telling("confirmed"))
                /\ (status[b] = "CANCELLED" /\ job[b] # "done")
                        => (emitted[b].cancelled > 0 \/ Telling("cancelled"))

(***************************************************************************)
(* A scheduled expiration takes effect: the booking leaves PENDING_PAYMENT *)
(* unless its job failed.                                                  *)
(***************************************************************************)
ScheduledBookingsSettle ==
    \A b \in Bookings :
        (job[b] = "waiting") ~> (status[b] # "PENDING_PAYMENT" \/ job[b] = "failed")

(***************************************************************************)
(* Every create request is answered: none waits for a row lock for ever,   *)
(* however many requests, retries and crashes there are.                   *)
(***************************************************************************)
RequestsAreAnswered ==
    \A b \in Bookings : (create[b] # "idle") ~> (create[b] \in {"idle", "done"})

-----------------------------------------------------------------------------
(* Properties that the repository states and the code does not have. *)

\* "All bookings must be consistent and prevent double booking."
NoDoubleBooking ==
    \A a, b \in Bookings :
        ~ /\ a # b
          /\ status[a] \in Live /\ status[b] \in Live
          /\ Clash(claim[a], claim[b])

(***************************************************************************)
(* "Transaction pipeline with optimistic locking.  Rollbacks on version    *)
(* hash mismatches": a write that was decided before another write does    *)
(* not undo it.  The expiration worker cancels no confirmed booking.       *)
(***************************************************************************)
ConfirmedBookingsDoNotExpire ==
    [][\A b \in Bookings : ExpireWrite(b) => status[b] # "CONFIRMED"]_vars
=============================================================================
