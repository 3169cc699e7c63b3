---------------------------- MODULE Accommodation ----------------------------
(***************************************************************************)
(* The host's operations of AccommodationService, the moderation of        *)
(* listings by AdminService, and ReviewsService.  Requests that read       *)
(* before they write take their steps one by one and interleave; the       *)
(* others write in one.  Requests that a guard refuses change nothing, so  *)
(* only the host's requests on an existing property are modelled.  What    *)
(* bookings do with a listing is in Booking.                               *)
(***************************************************************************)
EXTENDS Pricing, FiniteSetsExt

CONSTANTS
    Properties,
    Requests,      \* requests of several steps, each of which is made at most once
    Bookings,      \* booking rows that may be reviewed
    PropertyOf,    \* propertyId of each booking row, which never changes
    Overrides,     \* what a host may send to setAvailability
    BasePrices,
    Stays,         \* dates that guests ask for
    NoOne,         \* the property and data of a request that was not made
    MaxOverrides,  \* bound on the requests that pass the check of setAvailability
    MaxFaults      \* bound on requests that fail half-way

ASSUME AccommodationAssumption ==
    /\ NoOne \notin Properties
    /\ PropertyOf \in [Bookings -> Properties]
    /\ Overrides \subseteq [status : {"BLOCKED", "PRICE_OVERRIDE"}, start : Int, end : Int,
                            price : Nat \cup {NoPrice}]
    /\ BasePrices \subseteq Int
    /\ Stays \subseteq [start : Int, end : Int]
    /\ MaxOverrides \in Nat /\ MaxFaults \in Nat

VARIABLES
    listing,    \* isActive, listingStatus and basePrice; listingStatus "NONE" before the insert
    overrides,  \* availability_overrides of each property, in the order of insertion
    log,        \* activity_logs about each property: the action types
    notices,    \* calls that tell the host of a removal, for each property
    reviews,    \* number of review rows of each booking
    request,    \* how far each request is, about which property, with which data
    faults,
    raced       \* history: what was changed by two requests at once

vars == <<listing, overrides, log, notices, reviews, request, faults, raced>>

Statuses == {"active", "hidden", "removed"}
Ended == {"done", "unlogged", "untold"}
Steps == {"idle", "insert", "write", "log", "notify", "check", "create"} \cup Ended
NotMade == [step |-> "idle", property |-> NoOne, data |-> NoOne]

TypeOK ==
    /\ listing \in [Properties -> [isActive : BOOLEAN, basePrice : BasePrices \cup {0},
                                   listingStatus : {"NONE", "ACTIVE", "HIDDEN", "REMOVED"}]]
    /\ \A p \in Properties :
        /\ overrides[p] \in Seq(Overrides)
        /\ log[p] \in Seq({"PROPERTY_ACTIVATED", "PROPERTY_HIDDEN", "PROPERTY_REMOVED"})
        /\ notices[p] \in Nat
    /\ reviews \in [Bookings -> {0, 1}]   \* one review, however many requests pass the check
    /\ \A r \in Requests :
        /\ request[r].step \in Steps
        /\ request[r].step # "idle" => request[r].property \in Properties
    /\ faults \in 0 .. MaxFaults
    /\ raced \subseteq {"availability", "status"} \X Properties

Init ==
    /\ listing = [p \in Properties |->
            [isActive |-> FALSE, listingStatus |-> "NONE", basePrice |-> 0]]
    /\ overrides = [p \in Properties |-> <<>>]
    /\ log = [p \in Properties |-> <<>>]
    /\ notices = [p \in Properties |-> 0]
    /\ reviews = [b \in Bookings |-> 0]
    /\ request = [r \in Requests |-> NotMade]
    /\ faults = 0
    /\ raced = {}

-----------------------------------------------------------------------------
(* Requests that write in one step. *)

Exists(p) == listing[p].listingStatus # "NONE"

CreateProperty(p, price) ==
    /\ ~Exists(p)
    /\ listing' = [listing EXCEPT ![p] =
            [isActive |-> TRUE, listingStatus |-> "ACTIVE", basePrice |-> price]]
    /\ UNCHANGED <<overrides, log, notices, reviews, request, faults, raced>>

UpdateProperty(p, price) ==
    /\ Exists(p)
    /\ listing' = [listing EXCEPT ![p].basePrice = price]
    /\ UNCHANGED <<overrides, log, notices, reviews, request, faults, raced>>

\* The row stays, and toggleActive brings it back.
DeleteProperty(p) ==
    /\ Exists(p)
    /\ listing' = [listing EXCEPT ![p].isActive = FALSE]
    /\ UNCHANGED <<overrides, log, notices, reviews, request, faults, raced>>

-----------------------------------------------------------------------------
(* The steps of the others. *)

Begin(r, step, p, data) ==
    /\ request[r].step = "idle"
    /\ Exists(p)
    /\ request' = [request EXCEPT ![r] = [step |-> step, property |-> p, data |-> data]]

\* The request takes its next step, or the last.
Continue(r, from, to) ==
    /\ request[r].step = from
    /\ request' = [request EXCEPT ![r].step = to]

ToggleRead(r, p) ==
    /\ Begin(r, "write", p, [isActive |-> listing[p].isActive])
    /\ UNCHANGED <<listing, overrides, log, notices, reviews, faults, raced>>

\* The negation of what was read, whatever the column holds by now.
ToggleWrite(r) ==
    /\ Continue(r, "write", "done")
    /\ listing' = [listing EXCEPT ![request[r].property].isActive = ~request[r].data.isActive]
    /\ UNCHANGED <<overrides, log, notices, reviews, faults, raced>>

\* Requests for p that have passed the check of setAvailability and not inserted yet.
Inserting(p) == {r \in Requests : request[r].step = "insert" /\ request[r].property = p}

\* Mutant: only an override in which the new one starts is looked for.
StartsInside(p, override) ==
    \E i \in DOMAIN overrides[p] :
        overrides[p][i].start <= override.start /\ override.start <= overrides[p][i].end

Overlapping(p, override) == \E i \in DOMAIN overrides[p] : Touches(overrides[p][i], override)

AvailabilityCheck(r, p, override) ==
    /\ Len(overrides[p]) + Cardinality(Inserting(p)) < MaxOverrides
    /\ Begin(r, IF Overlapping(p, override) THEN "done" ELSE "insert", p, override)
    /\ UNCHANGED <<listing, overrides, log, notices, reviews, faults, raced>>

\* Another request is about to insert an override that touches this one.
InsertIsContested(r) ==
    \E other \in Inserting(request[r].property) \ {r} :
        Touches(request[other].data, request[r].data)

AvailabilityInsert(r) ==
    LET p == request[r].property
    IN  /\ Continue(r, "insert", "done")
        /\ overrides' = [overrides EXCEPT ![p] = Append(@, request[r].data)]
        /\ raced' = IF InsertIsContested(r) THEN raced \cup {<<"availability", p>>} ELSE raced
        /\ UNCHANGED <<listing, log, notices, reviews, faults>>

-----------------------------------------------------------------------------
(* changePropertyStatus(): the status, then the log, then the notice. *)

\* Mutant: the word of the request is stored as it came.
AsSent(status) == status
ToUpperCase(status) == [active |-> "ACTIVE", hidden |-> "HIDDEN", removed |-> "REMOVED"][status]

ActionMap(status) ==
    [active |-> "PROPERTY_ACTIVATED", hidden |-> "PROPERTY_HIDDEN",
     removed |-> "PROPERTY_REMOVED"][status]

\* Mutant: whoever takes a listing off the market tells the host.
ToldOfAnyLoss(status) == status # "active"
HostIsTold(status) == status = "removed"

Logging(p) == {r \in Requests : request[r].step = "log" /\ request[r].property = p}

ModerationUpdate(r, p, status) ==
    /\ Begin(r, "log", p, [status |-> status])
    /\ listing' = [listing EXCEPT ![p].listingStatus = ToUpperCase(status)]
    /\ raced' = IF Logging(p) = {} THEN raced ELSE raced \cup {<<"status", p>>}
    /\ UNCHANGED <<overrides, log, notices, reviews, faults>>

ModerationLog(r) ==
    LET status == request[r].data.status
    IN  /\ Continue(r, "log", IF HostIsTold(status) THEN "notify" ELSE "done")
        /\ log' = [log EXCEPT ![request[r].property] = Append(@, ActionMap(status))]
        /\ UNCHANGED <<listing, overrides, notices, reviews, faults, raced>>

\* What notificationService.create makes of the call is in Notifications.
ModerationNotify(r) ==
    /\ Continue(r, "notify", "done")
    /\ notices' = [notices EXCEPT ![request[r].property] = @ + 1]
    /\ UNCHANGED <<listing, overrides, log, reviews, faults, raced>>

-----------------------------------------------------------------------------
(* createReview(): by the customer of a booking, whatever its status. *)

ReviewRead(r, b) ==
    /\ listing[PropertyOf[b]].isActive
    /\ Begin(r, "check", PropertyOf[b], [bookingId |-> b])
    /\ UNCHANGED <<listing, overrides, log, notices, reviews, faults, raced>>

ReviewCheck(r) ==
    /\ Continue(r, "check", IF reviews[request[r].data.bookingId] = 0 THEN "create" ELSE "done")
    /\ UNCHANGED <<listing, overrides, log, notices, reviews, faults, raced>>

KeyIsFree(b) == reviews[b] = 0

\* The unique key lets one of two requests insert that have both passed the check.
ReviewCreate(r) ==
    LET b == request[r].data.bookingId
    IN  /\ Continue(r, "create", "done")
        /\ reviews' = IF KeyIsFree(b) THEN [reviews EXCEPT ![b] = @ + 1] ELSE reviews
        /\ UNCHANGED <<listing, overrides, log, notices, faults, raced>>

\* A moderation that stops after the status is not logged, one that stops after the log not told.
Stopped(step) ==
    CASE step = "log" -> "unlogged"
      [] step = "notify" -> "untold"
      [] OTHER -> "done"

\* MySQL fails or the process dies: the request ends where it is.
RequestFails(r) ==
    /\ faults < MaxFaults
    /\ request[r].step \notin Ended \cup {"idle"}
    /\ request' = [request EXCEPT ![r].step = Stopped(@)]
    /\ faults' = faults + 1
    /\ UNCHANGED <<listing, overrides, log, notices, reviews, raced>>

Step(r) ==
    \/ ToggleWrite(r)
    \/ AvailabilityInsert(r)
    \/ ModerationLog(r)
    \/ ModerationNotify(r)
    \/ ReviewCheck(r)
    \/ ReviewCreate(r)
    \/ RequestFails(r)

Next ==
    \/ \E p \in Properties, price \in BasePrices : CreateProperty(p, price) \/ UpdateProperty(p, price)
    \/ \E p \in Properties : DeleteProperty(p)
    \/ \E r \in Requests, p \in Properties :
        \/ ToggleRead(r, p)
        \/ \E override \in Overrides : AvailabilityCheck(r, p, override)
        \/ \E status \in Statuses : ModerationUpdate(r, p, status)
    \/ \E r \in Requests, b \in Bookings : ReviewRead(r, b)
    \/ \E r \in Requests : Step(r)

Spec == Init /\ [][Next]_vars

-----------------------------------------------------------------------------
(* What a stay costs, without the loop of calculateTotalPrice. *)

\* The instants at which a night of the stay begins.
NightStarts(stay) ==
    {t \in stay.start .. stay.end - 1 : (t - stay.start) % DayLength = 0}

\* The nights of the stay that override row o has a price for.
PricedBy(o, stay) ==
    {t \in NightStarts(stay) : o.status = "PRICE_OVERRIDE" /\ o.price # NoPrice
                               /\ o.start <= t /\ t < o.end}

Price(p, stay) == CalculateTotalPrice(listing[p].basePrice, overrides[p], stay)

-----------------------------------------------------------------------------
(* Properties. *)

(***************************************************************************)
(* setAvailability keeps the overrides of a property apart, so that at     *)
(* most one of them prices a night and the order in which create reads     *)
(* them does not matter, unless two of its requests for touching ranges    *)
(* were both between check and insert.                                     *)
(***************************************************************************)
OverlapNeedsRace ==
    \A p \in Properties :
        <<"availability", p>> \notin raced =>
            \A i, j \in DOMAIN overrides[p] :
                i # j => ~Touches(overrides[p][i], overrides[p][j])

\* The status that the activity log reports last; a new listing is ACTIVE without an entry.
Reported(p) ==
    IF log[p] = <<>>
    THEN "ACTIVE"
    ELSE [PROPERTY_ACTIVATED |-> "ACTIVE", PROPERTY_HIDDEN |-> "HIDDEN",
          PROPERTY_REMOVED |-> "REMOVED"][log[p][Len(log[p])]]

Unlogged(p) == {r \in Requests : request[r].step = "unlogged" /\ request[r].property = p}

(***************************************************************************)
(* The status of a listing is the one that the activity log reports last,  *)
(* or that of a request which has written it and is about to log it, or    *)
(* which failed in between: after a failure, too, the only change that can *)
(* be missing from the log is that of the request that failed.  Two        *)
(* administrators who meet may leave their entries in the other order.     *)
(***************************************************************************)
LogTellsStatus ==
    \A p \in Properties :
        (Exists(p) /\ <<"status", p>> \notin raced) =>
            \/ listing[p].listingStatus = Reported(p)
            \/ \E r \in Logging(p) \cup Unlogged(p) :
                    listing[p].listingStatus = ToUpperCase(request[r].data.status)

(***************************************************************************)
(* For each removal in the log the host was told once, or the request is   *)
(* about to tell, or it failed between the log and the notice; and the     *)
(* host is told of nothing else.                                           *)
(***************************************************************************)
RemovalsAreTold ==
    \A p \in Properties :
        LET removals == {i \in DOMAIN log[p] : log[p][i] = "PROPERTY_REMOVED"}
            owed     == {r \in Requests :
                            request[r].step \in {"notify", "untold"} /\ request[r].property = p}
        IN  Cardinality(removals) = notices[p] + Cardinality(owed)

(***************************************************************************)
(* What a moderation that stops between its writes leaves behind: the      *)
(* status without the log entry, or the log entry without the notice, of   *)
(* that request and of no other.                                           *)
(***************************************************************************)
ModerationIsRecorded == LogTellsStatus /\ RemovalsAreTold

(***************************************************************************)
(* The total is the sum, over the price overrides, of the nights each of   *)
(* them covers at its price, and the base price for all other nights; a    *)
(* night that has begun is paid in full.                                   *)
(***************************************************************************)
TotalIsSumOverOverrides ==
    \A p \in Properties, stay \in Stays :
        (stay.start < stay.end /\ <<"availability", p>> \notin raced) =>
            LET rows   == Range(overrides[p])
                priced == MapThenSumSet(LAMBDA o : Cardinality(PricedBy(o, stay)) * o.price,
                                        {o \in rows : o.price # NoPrice})
                nights == UNION {PricedBy(o, stay) : o \in rows}
            IN  Price(p, stay) = priced
                    + listing[p].basePrice * Cardinality(NightStarts(stay) \ nights)
=============================================================================
