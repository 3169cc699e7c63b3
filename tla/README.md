# Convera in TLA+

Specifications of the Convera backend (NestJS services on MySQL/Prisma, Redis
and BullMQ; `src/` below is the repository), their TLC configurations, and
proofs about them. Every handler is cut at its awaits: one action is one
database statement, queue operation or provider call, with the code up to the
next one. The steps of all requests, workers, hosts, administrators and
external services interleave; failures and crashes come between any two.

1. [The system](#1-the-system)
2. [Modules](#2-modules)
3. [How the models correspond to the code](#3-how-the-models-correspond-to-the-code)
4. [Runs](#4-runs)
5. [Fairness](#5-fairness)
6. [Proofs](#6-proofs)
7. [Where documents and code disagree](#7-where-documents-and-code-disagree)
8. [What is not modelled](#8-what-is-not-modelled)
9. [Plan](#9-plan)

## 1. The system

Three actors move state: HTTP or WebSocket handlers (many at once in one Node
process, which interleave at every `await`, and possibly several processes),
BullMQ workers (`booking-expiration`, `notification-delivery`,
`chat-persistence`; each takes one job at a time) and cron jobs (event import,
event reminders). They share MySQL, Redis and the in-process event emitter.

| Component | State | Operations | Talks to | What is hard | What makes it correct |
|---|---|---|---|---|---|
| Booking service (`booking/booking.service.ts`) | rows of `bookings` (status, version, dates, totalPrice), row lock of the property | `create`, `confirm`, `cancel`, `modify` | MySQL transaction with `FOR UPDATE`; expiration queue; emits `booking.*` events | two checks around a lock, write after an await, commit in MySQL and then a job in Redis | no two live bookings overlap; locks are given back; the price is the one of the dates |
| Expiration worker (`booking/booking.processor.ts`) | jobs, delayed 15 minutes | `process` | booking rows | reads, awaits, then writes by id; one attempt | unpaid bookings end |
| Price computation (`booking.service.ts`, `calculateTotalPrice`) | none | price of a stay | overrides of a listing | boundaries of nights and overrides, free nights | agrees with a definition that does not follow the loop |
| Prisma layer (`prisma/prisma.service.ts`) | – | middleware that should increment `version` | every model | increments only what already names the column | an optimistic lock that refuses stale writes |
| Payments (`payment/`) | `transactions` rows | `initializePayment`, two webhooks, `confirm-mock` | provider; `confirm` and `cancel` of Booking | late, repeated and reordered webhooks, crash after the intent | confirmed means paid, the booked price is charged, a payment is settled |
| Events (`events/events.service.ts`, `events.scheduler.ts`) | `events`, `event_registrations` | `create`, `update`, `delete`, `importEvents`, `registerForEvent` | external event API, MySQL | last place, imports that overwrite rows in use | places are conserved and sold one at a time, rows double only by a race |
| Event cache (`events.service.ts` with `common/redis`) | Redis keys per query and per event | read through, `delByPattern` | MySQL, Redis | answers stored after the invalidation, death between MySQL and Redis | what is stale is explained and temporary |
| Notifications (`notification/`) | `notifications` rows, preferences, jobs | `create`, listeners, reminder scan, worker, digests | mail provider, Redis, events of Booking and Chat | three writers of one row; retries with a count of their own | rows tell the truth, nothing is forgotten, few duplicates |
| Chat (`chat/`) | `chat_messages`, jobs, rate-limit keys | `send_message`, `mark_as_read`, worker, `createSession` | room (socket.io over Redis), queue, event emitter | shown before saved; read before saved; joined after shown | what was shown is kept but for failures, rows tell who read, a member who joins and loads misses only what the order of the steps allows |
| Accommodation (`accommodation/`) | `properties`, `availability_overrides`, images | create, update, delete, `toggleActive`, `setAvailability`, search | MySQL; read by Booking | check then write without a lock | overrides do not overlap, a stay has one price |
| Authentication, users (`auth/`, `users/`) | `users`, `refresh_tokens`, OTP keys in Redis | register, verify, login, refresh, reset | Redis, mail | read–modify–write of the attempt counter, rotation of a token in two steps | a code is the last one sent and good for one use, a session has one token, no account is stuck |
| Reviews (`reviews/`) | `reviews` | `createReview` | bookings | check then create behind a unique key | one review per booking |
| Administration (`admin/`) | `isActive` of users and listings, activity log | status changes, metrics | Notifications | change and log are two writes | every change is logged, the user is told |
| AI assistant, uploads, storage, configuration, guards, i18n | none of their own | – | external services | – | – |

`PROJECT.json` lists each of them with its files and status, and, under
"hazards", the places where the code is exposed to interleavings, crashes and
boundaries, each with the property that watches it.

## 2. Modules

| Module | Models | Composition |
|---|---|---|
| `Pricing` | overlap, availability and `calculateTotalPrice` as pure operators | |
| `Accommodation` | `AccommodationService` for hosts, moderation by `AdminService`, `ReviewsService` | EXTENDS `Pricing` |
| `Reservation` | what the reservation engine promises: a claim is granted in one step, only while no live booking clashes | abstract |
| `Booking` | `BookingService`, the expiration worker, hosts that edit their listing, crashes | EXTENDS `Pricing`; implements `Reservation` |
| `Payments` | `PaymentService`, `PaymentController`, the provider and customer | EXTENDS `Booking`; implements `Booking!Spec` |
| `BoxOffice` | what registration promises in terms of places: sold one at a time, only when there is one | abstract |
| `EventRegistration` | event rows, import, registration | implements `BoxOffice` |
| `EventCache` | the Redis cache before the event queries | |
| `Notifications` | `NotificationService`, listeners, scheduler, worker, mail | |
| `Chat` | gateway, limiter, connections, history, queue and worker of one session | |
| `Auth` | `AuthService` on one account: codes in Redis, refresh tokens, the row of `users` | |
| `BookingProofs`, `PaymentsProofs`, `AccommodationProofs`, `EventRegistrationProofs`, `EventCacheProofs`, `NotificationsProofs`, `ChatProofs`, `AuthProofs` | theorems | each EXTENDS its module |
| `MCAccommodation`, `MCBooking`, `MCPayments`, `MCEventRegistration`, `MCNotifications`, `MCChat`, `MCAuth` | instances for TLC | |

Definitions marked `Mutant:` in a module are plausible mistakes in the code
(a dropped guard, a missing rollback). No specification uses them; each one
replaced for the definition that follows it makes TLC refute the property
listed with it in `PROJECT.json`.

## 3. How the models correspond to the code

**Accommodation.** `CreateProperty`, `UpdateProperty` and `DeleteProperty` write
in one step. The requests that read first (`toggleActive`, `setAvailability`,
`changePropertyStatus`, `createReview`) are members of `Requests`, each made at
most once: `request[r].step` is the await it has come to, `Begin` and `Continue`
move it on, `RequestFails` ends it there. `changePropertyStatus` writes the
status, the log and the notice in three awaits without a transaction. `raced`
is a history variable: properties for which two `setAvailability` requests with
touching ranges, or two status changes, were under way together. `RequestFails`
remembers in the step where a moderation stopped: `unlogged` with the status
written and no entry, `untold` with the entry and no notice.
`TotalIsSumOverOverrides` compares
`CalculateTotalPrice` with a definition that does not follow its loop, for every
stay in every reachable state of a listing and its overrides.

**Booking.** A member of `Bookings` is a `POST /bookings` request and the row
it inserts. `CreateRead` is validation, the read of the property and the price
(`booking.service.ts` 28–85); `CreatePreCheck` the check outside the
transaction; `CreateLock` the `SELECT … FOR UPDATE`; `CreateRecheck` the second
check; `CreateCommit` insert and commit; `CreateSchedule` the job. As the locking
read comes before the first plain read of the transaction, InnoDB takes its
snapshot after the lock is granted, so the second check sees all rows committed
by then: `CreateRecheck` reads the current `status`. `confirm` is
`ConfirmRead`, `ConfirmWrite` (update by id and version) and `ConfirmEmit`;
`cancel` likewise; `VersionAfter` is the Prisma middleware. The worker is
`ExpireRead` and `ExpireWrite`. `Crash` loses requests, calls and transactions,
keeps MySQL and Redis, and puts an active job back once. `revived` is a history
variable: bookings confirmed although they were cancelled. `Statuses` has no
`COMPLETED`: no code writes it.

**Payments.** `Initialize*` are the three awaits of `initializePayment`;
`Attempt*` and `sent` stand for the provider, which may deliver any report it
has issued, any number of times and in any order; `HookFind`, `HookUpdate`,
`HookSettle` are a webhook, which then calls `confirm` or `cancel` in the same
slot of `Calls`. Both adapters have the same control and differ in parsing, of
which `ExtractPaymentResult` keeps the outcome. In the repository only the payment
controller calls `confirm` and `cancel`; `Booking` alone lets them be called at
any time, so what it shows does not depend on who calls.

**EventRegistration.** `RegisterTake` is the decrement, which takes the row
lock; `RegisterCommit` tests what is left, inserts and commits, or rolls back;
updates, deletions and imports wait for the lock. The provider offers one
event, `Events` are the ids that rows get. `opened` and `reset` are history, and
so are `together` (pairs of requests of which one passed the check of "already
registered" while the other was past it) and `crossed` (two imports that both
found no source). The refinement takes `remainingSpots` for the places left and
counts the registrations of an event for those sold; the decrement of a
transaction that has not committed is invisible.

**EventCache.** The table is two counters, changes that clear the cache and
registrations, which do not. `ListKeys` and `DeleteKeys` are the two commands
of `delByPattern`.

**Notifications.** A notice is a row with its job. A maker is one execution of
a listener, of the scan or of `changeUserStatus`; `Check`, `Insert`, `Add`,
`Mark` are the awaits of `create` (the chat listener skips the first and last).
The worker's reads before the mail and its `SENT` write are one step, since
nothing in the properties depends on what comes between. The job carries
`attemptsMade`, which BullMQ counts after a failed attempt only.

**Chat.** One session of two members, and strangers who may call
`mark_as_read` like anybody with a token. `Rank` is the order of the random
identifiers by which `mark-read` selects rows; `saved` is a sequence because
`createdAt` of a row is the time of its insert. The moderation may refuse any
message (`Refuse`). `Subscribe` joins the room, `LoadHistory` is `getHistory`
called until there are no more pages, `Disconnect` and `Crash` empty the client.
`view` is what a client shows, `gap` the history of what was shown before the
member joined and was not among the rows read later. `handleMarkAsRead` is
`MarkAsRead`, `FindMessage`, `AddMarkJob`, `ReadReceipt`: any user names any
message, of this session or of another one (`Elsewhere`; the look-up goes by the
identifier alone), or one that is in no table (that of a refused message). A
stranger, and a message that is not found, end `markAsRead` without a job, and
the room gets the receipt all the same. `early` and `receipts` are history.

**Auth.** One account, whose requests are cut at their awaits: `Register`,
`CreateUser`, `StoreVerifyCode`, `MailVerifyCode`; `ForgotPassword`,
`StoreResetCode` (its mail is not awaited); `Answer` is the GET of `verifyOtp`
and `resetPassword` with the comparisons, `DropCode`, `CountAttempt` and
`SpendCode` the writes it may lead to, `UpdateUser` the last one. `Login`
and `Refresh` with `Revoke` end in `CreateToken`. The n-th code of a key is the
number n, and a new password is named after the code that set it; a key has an
entry, a count and, unless it was brought back by `KEEPTTL` after its end, a
time to live. History: `late` counts the writes of a key that had changed since
it was read, `rivals` the refreshes that read a token while another was about
to revoke it, `dropped` the tokens that a failure kept from being created.
Hashes, the JWT and its validation change no state.

## 4. Runs

All passing runs explore their instance completely; the bounds named in the
modules (`MaxFaults`, `MaxOverrides`, `MaxCreated`, `MaxEdits`, `MaxSeats`,
`MaxMarks`, `MaxCalls`, and `MaxAttempts`, which is 3 in the code and 2 in
`notifications`) stand in the guards. `Requests` of
`accommodation` and of `auth`, and the tokens of `auth`, are interchangeable, so
these runs use symmetry; they check safety only.

| Run | Instance | Shows |
|---|---|---|
| `accommodation` | 1 property, 3 requests, 1 booking to review, 17 override ranges over six instants (days of two units; prices, free, null, blocked, inverted), 2 base prices, 1 fault; 0.27 million states | overrides stay apart but for a race; log and host tell what moderation did, but for what the one failed request left undone; one review per booking; the total is the sum over overrides and base nights |
| `booking` | 1 property, 2 requests, 1 call, overlapping, touching and inverted claims, 1 override, 1 fault; 1.3 million states | the row lock is held by the one request in its transaction and given back on every exit, validity of the second check, no overlap without revival, an unpaid booking is without a timer only after a failure, and refinement of `Reservation` |
| `booking_live` | 2 overlapping requests, 2 faults | requests are answered, scheduled expirations take effect |
| `booking_double` | 2 requests, 1 call, no fault | refutes `NoDoubleBooking` |
| `booking_expired` | 1 request, 1 call, no fault | refutes `ConfirmedBookingsDoNotExpire` |
| `payments` | 1 booking, 1 transaction, 2 webhook slots, 2 prices, 1 fault | a confirmed booking has a payment of exactly its price, announcements, refinement of `Booking`, payments are settled |
| `event_registration` | 2 event rows, 1 user, 2 requests, 2 imports, capacity 1; 0.15 million states | refinement of `BoxOffice`, places are conserved, rows double only by a race, requests are answered |
| `event_oversold` | 1 event, 2 requests, 1 import, capacity 1 | refutes `NeverOversold` |
| `event_cache` | 2 keys, 2 readers, 2 writers, 2 changes, 1 registration, 1 fault | staleness has one cause, and ends |
| `notifications` | 2 notices, 1 maker, 2 faults, 2 attempts; 4 million states | truth of rows, no forgotten notice, bounded duplicates |
| `chat` | 2 messages and one of another session, 2 members and a stranger, 1 client that is followed, limit 1, 1 mark, 1 fault; 0.29 million states | bounded loss, rows tell the reads of members whoever calls, what a member who joins can miss, settling |
| `auth` | 1 account, 3 requests at a time and 6 in all, 3 tokens, 3 attempts, 1 fault; 0.25 million states | codes are current and spent once but for crossings, an account is not stuck without cause, a session has one token but for rivals |

Why these bounds are enough to be interesting. Bookings of different properties
never meet (`Clash` needs one property), so one property suffices, and every
interleaving hazard of `create` needs two requests; the price is looked at with
a base price of 0 and an override of 0. The composition with payments is heavy,
so it has one booking: its properties relate one booking, its transaction and
two concurrent webhooks, and pairs of bookings are covered by `booking` through
`ImplementsBooking`. In `accommodation` two of
the three requests race while the third one meets the result. In `event_registration` two requests of one
user with one place have the last place contested, the check of "already
registered" passed twice and, over two rows, both imports inserting; a place
more would change none of these. Two cache keys and two writers
are what it takes for a key to be stored between listing and deletion. In
`notifications` the instance has two notices, which share the worker; the
customer writes and attends, the host may be suspended and may switch
digests off, so each branch of `create` and of the digest is taken. In `chat`
a limit of 1 stands for 30: the second message of the customer in a window is
one too many. The customer writes both messages, and its client comes and goes;
the message of the other session ranks between the two, so that a mark by it
takes one of them and leaves the other; the mark is anybody's. In `auth` three requests are one more than a crossing
needs: the third stores a new code or a new count between the read and the
write of another.

`CHECK_DEADLOCK FALSE` is set in `chat`, where all messages may be dealt with
and nobody has anything to mark: the system then simply has nothing to do.

## 5. Fairness

- A handler that was entered runs on (weak fairness of each of its steps): Node
  resumes a continuation whose promise has settled. Where a step may fail, the
  failure is another action, bounded by `MaxFaults`.
- `CreateLock` and `RegisterTake` have strong fairness: InnoDB grants a row lock
  to waiters in turn, so a waiter cannot be overtaken for ever by a lock that is
  free again and again.
- `ExpireRead` is weakly fair: BullMQ hands out a job whose delay has passed.
- A webhook report of success is delivered again and again until it is answered
  (strong fairness of `HookFind` for it), as payment providers do. Reports of
  failures have no fairness.
- Redis drops an entry at the end of its time to live (`Expire`).
- The chat worker goes on (`Working`).
- Nobody has to send a request, edit a listing, read, write or pay.

## 6. Proofs

The theorems are about arbitrary sets of properties, requests, calls, users,
events, keys, notices, messages and tokens, any claims, overrides and prices, and
any bound on faults, under the assumptions the modules name: `DayLengthAssumption`,
`BookingAssumption` (claims are records of a property and two integers, `NoOne` is
not a booking), `AccommodationAssumption`, `EventAssumption`, `CacheAssumption`,
`NotificationAssumption`, `ChatAssumption` and `AuthAssumption`. They say that
bounds are numbers, that the marks for "nobody" are not members of the sets, and
that data have their types; every run evaluates those of its modules.

Every safety property of the passing runs is a theorem, and so are the
refinements. Every proof is by an inductive invariant and has one
step per action.

**`BookingProofs`** rests on

    IInv == TypeOK /\ LockIsHeldInTransaction /\ RowsComeFromCommits
            /\ CallsHaveRows /\ RecheckStaysValid /\ OverlapNeedsRevival

`OverlapNeedsRevival`, the aim, is not inductive by itself: a `CreateCommit` must
know that its second check still holds. That is `RecheckStaysValid`, which in
turn needs that only the holder of the row lock can be past its second check
(`LockIsHeldInTransaction`), so that no other request for the property commits
in between, and that a `confirm` under way only touches a booking that has a row
(`CallsHaveRows` with `RowsComeFromCommits`), so that it can make dates taken
only by reviving a cancelled booking. From `BookingInvariant` follow

- `TypeCorrect`, `LockIsSound`, `RecheckHoldsUntilInsert`, `NoOverlapWithoutRevival`
  (`[]` of conjuncts that `booking` checks too; `RowsComeFromCommits` and
  `CallsHaveRows` are there to support them). That rows have a positive price is
  part of `TypeOK` and comes from the test of the price before the transaction;
- `BookingImplementsReservation`: every step is a step of `Reservation` or
  leaves its variables alone; `CreateCommit` is `Reserve`, and its obstacle
  condition is `RecheckStaysValid`; `ConfirmWrite` is `Confirm` or `Revive`.
  `AbstractExclusion` shows that the abstract book has no clash without revival;
- `VersionTestIsVoid`: `confirm`'s test of the version never refuses, because no
  writer changes the column;
- `PendingBookingsHaveTimers`: inductive next to `IInv`; a job that ends well
  leaves its booking settled, so only a failure leaves a booking without a timer;
- `OutcomesAreAnnounced`: inductive next to `IInv` once `faults = 0` is known to
  hold before a step if it does after (`FaultsAreCounted`).

**`PaymentsProofs`** adds to `IInv` what payments depend on,

    PInv == IInv /\ PayShape /\ RequestsHaveRows /\ RequestsComeFirst
            /\ HooksAreTrue /\ ConfirmsArePaid /\ ConfirmedMeansPaid

A confirmed booking is paid because every `confirm` under way is for a paid or
mocked booking (`ConfirmsArePaid`), because a webhook under way that reports a
success tells what the provider did (`HooksAreTrue`), because the provider has
money and reports only for requests that were answered (`RequestsComeFirst`),
whose booking is never forgotten, not even in a crash. `EngineEffect` says all
that payments need to know of the engine's own steps. The theorems are
`PaymentsTypeCorrect`, `NoConfirmationUnpaid`, `ChargeIsPrice` (from
`RequestsHaveRows`: rows and their prices stay), `PaymentsImplementBooking` and,
with it, `PaymentsImplementReservation`, `PaymentsAnnounceOutcomes` and
`PaymentsKeepTimers`: what `Booking` promises holds of payments.
`ConfirmationPaysThePrice` joins `NoConfirmationUnpaid` and `ChargeIsPrice`: the
transaction that succeeded is one that has its price from the row, since
`RequestsComeFirst` says that its request was answered.

**`AccommodationProofs`** proves `OverridesStayApart` from

    OverlapInv == Shape /\ InsertsAreFree /\ OverlapNeedsRace

`InsertsAreFree` says that a request between check and insert still touches no
override that was inserted, unless the race was noted: another insert either
leaves it free, or touches it and notes the race. `AccommodationTypeCorrect` comes
from `Shape /\ Typed`, where `Typed` also says which data each step has;
`ModerationLeavesRecord` needs two invariants, over any number of failures: the
status of a listing that no two administrators met at is what the log reports or
what a request wrote that is about to log it, or failed to; and the removals in
the log are the notices and the requests that owe one, each counted once.

`TotalsAreSums` is about a computation: the loop of `calculateTotalPrice` charges
what `TotalIsSumOverOverrides` says, for every stay and any overrides that are
apart. The theorems of the library on induction take an operator as a parameter
and cannot be used; `LeastNumber` stands in for them (a set of numbers that is not
empty has a least one, from the theorem on well-founded relations), and each
induction is an argument about the least number for which a statement fails.
`SumsOverExist` and `SumsMove` are the facts on sums over finite sets, `DaysBegun`
and `NightsOfStay` tie `Math.ceil` to the nights that begin before the end,
`NightIsPricedOnce` uses that overrides are apart, and `NightIsShared` adds one
night. `PriceAddsUp` says that a stay costs what its first k nights and the rest
of it cost, whether or not overrides are apart.

**`EventRegistrationProofs`** rests on

    IInv == TypeOK /\ LockIsSound /\ RegistrationsHaveEvents /\ RowsAreWhole
            /\ PlacesAreConserved

The row lock belongs to the one request between decrement and commit, and what
that request knows of the row is still true (`LockIsSound`): updates, deletions
and imports wait. So a commit turns exactly one place into one registration, and
a rollback gives it back (`PlacesAreNeverLost`). `DoublesComeFromRaces` has its
own invariants, `SeatsNeedRaces` and `ImportsNeedRaces`: two requests for one seat
that both are past the check met there, and, unless two imports crossed, at most
one of them is about to insert or has inserted. `RegistrationSellsPlaces` maps
every step to one of `BoxOffice` or a stutter; only the commit sells.

**`EventCacheProofs`** rests on `IInv == TypeOK /\ NoneFromTheFuture /\
StaleAreHunted`. An entry or an answer on its way is never newer than the table
(`NoneFromTheFuture`), and, without failures, an entry that is out of date although
it was stored in time is one that a writer will still delete (`StaleAreHunted`):
the writer that has not listed the keys yet, or one that has this key on its list.
`InvalidationMissesNothing` is that invariant when no writer is left.

**`NotificationsProofs`** first shows who holds what: `MakersHoldNotices` and
`HoldersDiffer` (two makers never work on one row, and a row a maker is about to
queue has no job), `WorkerHoldsJob` (the active job is the one of the worker, and
an unfinished job has attempts left). On these, `MailsAreExplained` gives
`MailsNeedFaults` (one mail belongs to the job that is over or about to be, all
others to a fault each), `DeliveryIsReal` and `OutcomeIsTold` give
`RowsTellOutcomes`, and `NoticesGetJobs` follows the maker from insert to queue and
needs `RowsWaitForJobs` (nobody but a maker with its job in the queue writes a row
that was PENDING).

**`ChatProofs`**: `ChatTypeCorrect` also says that no message has two rows.
`LossesNeedFaults` counts: messages that are shown or about to be and that neither
a row nor a job stands for are at most as many as the faults. `RowsTellWhatReadersSaid`
needs `MarksAreAsked` (what is queued was asked for by a member, and its message
is in the table) and `PromisesAreKept` (a member's receipt shown, or about to be,
is marked or in work). `NothingIsMissedInTheRoom` follows from `RoomIsSeen`: each member of the
room has seen all that was shown, or has it in `gap`.

**`AuthProofs`** begins with `Basics`: types, one registration, calls that account
for codes and sessions, codes that were issued, attempts within the limit. Then

- `StoredCodeIsTheLast`: what Redis holds is the last code with its count, unless
  some write of the key was `late`;
- `CodesUpdateOnce`, from `CodesAreSpentOnce`: the uses of a code, the requests
  that have spent it and not updated the user yet, and the code if it is stored
  are together at most one more than the late writes;
- `AccountsStayUsable`, from `CodeIsOnItsWay`: the only verification code is about
  to be stored, stored and about to be mailed, stored and mailed, or spent by a
  request that is about to update the user;
- `SessionsKeepTheirToken`, from `SessionsAreKept`: tokens that nobody is about to
  revoke, requests about to revoke one, requests about to create one and tokens
  lost to failures are together at most one more than the rivals.

**Model-checked only**: the liveness properties `ScheduledBookingsSettle`,
`RequestsAreAnswered`, `PaymentSettles`, `RegistrationIsAnswered`, `CacheConverges`
and `QueuedMessagesSettle`. The prover has no rules for fairness and `ENABLED`.

## 7. Where documents and code disagree

Refuted by a run, with the finding in `PROJECT.json`:

- Double booking (`booking_double`): a confirm reads PENDING_PAYMENT, the
  booking expires, another one takes the dates, the confirm writes.
- A confirmed booking is cancelled by its expiration (`booking_expired`): the
  worker reads PENDING_PAYMENT, `confirm` writes, the worker writes by id
  (`Docs/PLAN.md:35` speaks of optimistic locking and rollbacks). With
  `Payments`, the transaction row then says SUCCESS (`Docs/SRS.txt:275`).
- More registrations than places (`event_oversold`): the import writes the full
  capacity into `remainingSpots`.

Seen in the models, each a short behaviour of the actions named:

- A chat message that the room has seen is lost when its job fails, since the
  job has one attempt (`ProcessFails`; `Docs/SRS.txt:278` speaks of retry
  mechanisms). `LossNeedsFault` bounds the loss.
- A message shown before a member joins and saved after that member has read the
  history is shown to that member only after the next connection (`gap`).
- An account whose verification code expired, was dropped after three wrong
  answers or was spent by a request that then failed cannot be verified: "Request
  a new OTP." (`auth.service.ts:90`) has no endpoint, and "Please try again."
  (`:71`) is answered with a conflict, as the row is already there (`Register`).
  `UnverifiedHasCode` says that nothing else leads there.
- A wrong answer that was read before a code was spent, expired or replaced
  brings the old code back, without a time to live if the key is gone
  (`CountAttempt`, `KEEPTTL`); two refreshes of one token may both succeed.
  `resetPassword` counts wrong answers and has no limit for them.

- A booking without expiration job if Redis refuses it or the process dies after
  the commit (`CreateScheduleFails`, `Crash`); `Docs/API_DOCUMENTATION.md:375`
  says every booking has one. `PendingHasTimer` says that only a failure leads there.
- The report of a failed attempt that arrives after the success of a later one
  cancels the booking, although it is paid. `Docs/API_DOCUMENTATION.md` documents
  both halves (420: a success confirms, 421: a failure cancels) and not their order,
  so the models have the steps and no property forbids it.
- The expiration worker cancels in silence: no `booking.cancelled` is emitted (`Docs/SRS.txt:237`).
- `confirm` speaks of a concurrent modification (`booking.service.ts:166`) that
  its version test cannot detect (theorem `VersionTestIsVoid`).
- Two registrations of a user pass the check of `events.service.ts:505` together
  and both take a place (`DoublesNeedRaces`, as for the imports below); one that has read an ACTIVE event (`:498`) takes its
  place after the event was cancelled.
- Two imports insert the same external event twice (`Docs/API_DOCUMENTATION.md:335`
  speaks of an upsert), and an answer read before a change and stored after the
  invalidation (`:337`) stays until it expires.
- `mark-read` selects by `id <= last` on random identifiers, so it leaves earlier
  messages unread and marks later ones; a reader who is faster than the worker
  gets a receipt while the row stays unread (`FindMessage` finds nothing), and a
  digest is mailed for it.
- The room is shown a read receipt also for a caller who is no member of the session
  and for a message that does not exist: the gateway does not learn that
  `markAsRead` returned early (`FindMessage`, `ReadReceipt`). No row changes then
  (`ReadNeedsReader`).
- A digest row whose listener failed between insert and queue stays PENDING, and
  the debounce then finds it for ever: the pair of users gets no more digests.
- A notice whose job is done before `create` marks it QUEUED says QUEUED for ever.
- Two `toggleActive` requests that read the same value count as one, and a toggle
  that read before a deletion brings the listing back (`ToggleRead`,
  `DeleteProperty`, `ToggleWrite`).
- Two administrators who change one listing may log their changes in the other
  order (`ModerationUpdate`, `ModerationLog`; `raced`), and an administrator's
  change that fails half-way is not logged, or logged and not told
  (`ModerationIsRecorded` names exactly these).
- Booking looks at `isActive` and not at the status that moderation sets
  (`ModerationUpdate` leaves `isActive` alone), so a removed listing is still
  booked and reviewed.
- The search offers stays that `create` refuses, as it looks at no booking
  (`accommodation.service.ts` 40–49; `booking.service.ts` 61–72), although
  `Docs/SRS.txt` lists availability among its filters (FR16) and says that it is
  updated automatically (FR33, `:225`). It also withholds stays that only touch a
  blocked range, as its test of dates is closed and that of `create` half-open.
  The search is not modelled: it is one read of one state.

## 8. What is not modelled

- Of accommodation the details, the images and the search, which change nothing.
- Of the reports of a provider all but the outcome (`ExtractPaymentResult`), and the
  empty answer of `getEventById`, which is not cached.
- Of administration the lists, metrics and the clean-up of the log. The log entry
  of `changeUserStatus` is written the way that of a listing is
  (`ModerationLog`); in `Notifications` its notice follows the status.
- `modify` of Booking has no caller in the repository.
- `createSession` of the chat: look-up and insert without a unique key, so two
  requests at once open two sessions, the shape of `DoublesNeedRaces`. Lists of
  sessions are read-only. The rules of the moderation filter are texts; any
  message may violate them.
- The paging of the event search (`events.service.ts` 291–302) filters after it
  has read a page, so that a page whose rows are all filtered out ends the
  search with `nextCursor` null although more rows follow. It is a pure
  computation on one answer and has no module yet.
- Templates, sanitising, localisation, logging, DTO validation, guards and HTTP
  mapping carry no state. The AI assistant, uploads and storage are calls to
  external services.
- Suspension: neither `login` nor the JWT strategy looks at `isActive` of a user,
  so it has no place in `Auth`; only notices depend on it.
- Clock time is abstracted: a delay or a time to live ends at any time after it
  began.

## 9. Plan

Done, in this order: Pricing, Reservation and Booking with their proofs, Payments
with its proofs, EventRegistration, EventCache, Notifications, Chat,
Accommodation with reviews and the moderation of listings, and its proof; then
Auth, connections and history of Chat, BoxOffice and its refinement; then the proofs of every safety property and of every
refinement.

1. `HostSetAvailability` of Booking shown to be what `AvailabilityInsert` does.
2. The paging of the event search as a pure algorithm against its reference, with
   a proof in the style of `TotalsAreSums`.
3. `createSession` of the chat.
