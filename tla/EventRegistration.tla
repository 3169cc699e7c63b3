-------------------------- MODULE EventRegistration --------------------------
(***************************************************************************)
(* EventsService as the owner of event rows and their places: creation,    *)
(* update and deletion by administrators, the import of external events    *)
(* (by the hourly job and by an administrator, possibly at once), and      *)
(* registration.  The external provider offers one event here; Events are  *)
(* the ids that inserted rows get.                                         *)
(***************************************************************************)
EXTENDS Integers, FiniteSets

CONSTANTS
    Events, Users,
    Requests,      \* POST /events/:id/register requests, each with the row it inserts
    Imports,       \* executions of importEvents
    Capacities,    \* values of maxCapacity
    NoEvent,       \* no event, for a request or import that has not chosen one
    NoOne,         \* the free row lock of an event
    MaxCreated     \* bound on the rows administrators create

ASSUME EventAssumption ==
    /\ Capacities \subseteq Nat \ {0}
    /\ NoEvent \notin Events /\ NoOne \notin Requests
    /\ MaxCreated \in Nat

VARIABLES
    event,       \* rows of the events table
    registered,  \* rows of event_registrations, named by the request that inserted them
    lock,        \* the request whose transaction has updated the row of an event
    reg,         \* how far each registration request is
    import,      \* how far each import is and the source it has found
    created,     \* number of rows created by administrators
    opened,      \* history: places an event was created with
    reset,       \* history: events whose remainingSpots an import has overwritten
    together,    \* history: pairs of requests of which one passed the check of
                 \* "already registered" while the other was between check and insert
    crossed      \* history: the last import that found no event looked for it while
                 \* another import had found none either

history == <<created, opened, reset, together, crossed>>
vars == <<event, registered, lock, reg, import, history>>

Absent == [exists |-> FALSE, external |-> FALSE, status |-> "ACTIVE", maxCapacity |-> 0,
           remainingSpots |-> 0]
IdleRequest == [step |-> "idle", event |-> NoEvent, user |-> NoOne, left |-> 0]
IdleImport  == [step |-> "idle", found |-> NoEvent]

TypeOK ==
    /\ event \in [Events -> [exists : BOOLEAN, external : BOOLEAN,
                             status : {"ACTIVE", "CANCELLED"},
                             maxCapacity : Capacities \cup {0}, remainingSpots : Int]]
    /\ registered \subseteq Requests
    /\ lock \in [Events -> Requests \cup {NoOne}]
    /\ reg \in [Requests -> [step : {"idle", "read", "checked", "taken", "done"},
                             event : Events \cup {NoEvent}, user : Users \cup {NoOne}, left : Int]]
    /\ import \in [Imports -> [step : {"idle", "looked"}, found : Events \cup {NoEvent}]]
    /\ created \in 0 .. MaxCreated
    /\ opened \in [Events -> Capacities \cup {0}]
    /\ reset \subseteq Events
    /\ together \subseteq SUBSET Requests
    /\ crossed \in BOOLEAN

Init ==
    /\ event = [e \in Events |-> Absent]
    /\ registered = {}
    /\ lock = [e \in Events |-> NoOne]
    /\ reg = [r \in Requests |-> IdleRequest]
    /\ import = [i \in Imports |-> IdleImport]
    /\ created = 0
    /\ opened = [e \in Events |-> 0]
    /\ reset = {} /\ together = {} /\ crossed = FALSE

Existing(e) == event[e].exists
Updatable(e) == event[e].exists /\ lock[e] = NoOne

\* An id that no row, request or history has used yet.
Fresh(e) == ~event[e].exists /\ opened[e] = 0

\* Mutant: a status that the schema does not know.
Draft(capacity, external) ==
    [exists |-> TRUE, external |-> external, status |-> "DRAFT",
     maxCapacity |-> capacity, remainingSpots |-> capacity]
NewEvent(capacity, external) ==
    [exists |-> TRUE, external |-> external, status |-> "ACTIVE",
     maxCapacity |-> capacity, remainingSpots |-> capacity]

-----------------------------------------------------------------------------
(* Administrators.  Update and delete wait for the row lock of the event. *)

CreateEvent(e, capacity) ==
    /\ Fresh(e)
    /\ created < MaxCreated
    /\ event' = [event EXCEPT ![e] = NewEvent(capacity, FALSE)]
    /\ opened' = [opened EXCEPT ![e] = capacity]
    /\ created' = created + 1
    /\ UNCHANGED <<registered, lock, reg, import, reset, together, crossed>>

\* The DTO may change maxCapacity and status; remainingSpots is never adjusted.
UpdateEvent(e, capacity, status) ==
    /\ Updatable(e)
    /\ event' = [event EXCEPT ![e].maxCapacity = capacity, ![e].status = status]
    /\ UNCHANGED <<registered, lock, reg, import, history>>

\* The registrations of the event go with it (onDelete: Cascade).
DeleteEvent(e) ==
    /\ Updatable(e)
    /\ event' = [event EXCEPT ![e] = Absent]
    /\ registered' = {r \in registered : reg[r].event # e}
    /\ UNCHANGED <<lock, reg, import, history>>

-----------------------------------------------------------------------------
(* importEvents(), for the one external event: look for its source, then write. *)

\* The rows with a source row for the external event.
Imported == {e \in Events : event[e].exists /\ event[e].external}

\* Mutant: a cancelled event is not found again.
FoundActive == {e \in Imported : event[e].status = "ACTIVE"}
Found == Imported

\* The imports that are about to insert the event.
Inserting == {i \in Imports : import[i] = [step |-> "looked", found |-> NoEvent]}

ImportLook(i) ==
    /\ import[i].step = "idle"
    /\ \E found \in (IF Found = {} THEN {NoEvent} ELSE Found) :
            import' = [import EXCEPT ![i] = [step |-> "looked", found |-> found]]
    /\ crossed' = IF Found = {} THEN Inserting # {} ELSE crossed
    /\ UNCHANGED <<event, registered, lock, reg, created, opened, reset, together>>

\* The source exists: every column is overwritten, remainingSpots too.
ImportUpdate(i, capacity) ==
    LET e == import[i].found
    IN  /\ import[i].step = "looked" /\ e # NoEvent
        /\ Updatable(e)
        /\ event' = [event EXCEPT ![e].maxCapacity = capacity, ![e].remainingSpots = capacity]
        /\ reset' = reset \cup {e}
        /\ import' = [import EXCEPT ![i] = IdleImport]
        /\ UNCHANGED <<registered, lock, reg, created, opened, together, crossed>>

\* No source was found: event and source are inserted.
ImportCreate(i, e, capacity) ==
    /\ import[i].step = "looked" /\ import[i].found = NoEvent
    /\ Fresh(e)
    /\ event' = [event EXCEPT ![e] = NewEvent(capacity, TRUE)]
    /\ opened' = [opened EXCEPT ![e] = capacity]
    /\ import' = [import EXCEPT ![i] = IdleImport]
    /\ UNCHANGED <<registered, lock, reg, created, reset, together, crossed>>

\* The provider, the upload or the database fails: the import ends with an exception.
ImportFails(i) ==
    /\ import[i].step = "looked"
    /\ import' = [import EXCEPT ![i] = IdleImport]
    /\ UNCHANGED <<event, registered, lock, reg, history>>

-----------------------------------------------------------------------------
(* registerForEvent() *)

\* The event is read: it must exist, be ACTIVE and have places.
RegisterRead(r, u, e) ==
    /\ reg[r].step = "idle"
    /\ event[e].exists
    /\ event[e].status # "CANCELLED"
    /\ event[e].remainingSpots > 0
    /\ reg' = [reg EXCEPT ![r] = [step |-> "read", event |-> e, user |-> u, left |-> 0]]
    /\ UNCHANGED <<event, registered, lock, import, history>>

SameSeat(r, o) == reg[o].event = reg[r].event /\ reg[o].user = reg[r].user

AlreadyRegistered(r) == \E o \in registered : SameSeat(r, o)

PastCheck(r) == {o \in Requests : reg[o].step \in {"checked", "taken"} /\ SameSeat(r, o)}

\* findFirst on the registrations of the user, outside the transaction.
RegisterCheck(r) ==
    /\ reg[r].step = "read"
    /\ IF AlreadyRegistered(r)
       THEN reg' = [reg EXCEPT ![r] = IdleRequest] /\ UNCHANGED together
       ELSE /\ reg' = [reg EXCEPT ![r].step = "checked"]
            /\ together' = together \cup {{r, o} : o \in PastCheck(r)}
    /\ UNCHANGED <<event, registered, lock, import, created, opened, reset, crossed>>

\* The decrement: it takes the row lock and returns what is left, or the event is gone.
RegisterTake(r) ==
    LET e == reg[r].event
    IN  /\ reg[r].step = "checked"
        /\ \/ /\ Updatable(e)
              /\ lock' = [lock EXCEPT ![e] = r]
              /\ reg' = [reg EXCEPT ![r].step = "taken", ![r].left = event[e].remainingSpots - 1]
           \/ /\ ~Existing(e)
              /\ reg' = [reg EXCEPT ![r] = IdleRequest]
              /\ UNCHANGED lock
        /\ UNCHANGED <<event, registered, import, history>>

PlaceLeft(r) == reg[r].left >= 0

\* Commit: the decrement and the registration become visible together, or neither.
RegisterCommit(r) ==
    LET e == reg[r].event
    IN  /\ reg[r].step = "taken"
        /\ lock' = [lock EXCEPT ![e] = NoOne]
        /\ \/ /\ PlaceLeft(r)
              /\ event' = [event EXCEPT ![e].remainingSpots = reg[r].left]
              /\ registered' = registered \cup {r}
              /\ reg' = [reg EXCEPT ![r].step = "done"]
           \/ /\ ~PlaceLeft(r)
              /\ reg' = [reg EXCEPT ![r] = IdleRequest]
              /\ UNCHANGED <<event, registered>>
        /\ UNCHANGED <<import, history>>

\* Mutant: the transaction ends, and its lock stays.
LockKept(r) == UNCHANGED lock
Unlock(r) == lock' = [e \in Events |-> IF lock[e] = r THEN NoOne ELSE lock[e]]

\* Mutant: no transaction around the decrement, so that nothing takes it back.
NoRollback(r) == event' = [e \in Events |->
    IF lock[e] = r THEN [event[e] EXCEPT !.remainingSpots = reg[r].left] ELSE event[e]]
Rollback(r) == UNCHANGED event

\* A database error or a crash inside the transaction: rollback.
RegisterFails(r) ==
    /\ reg[r].step \in {"checked", "taken"}
    /\ Unlock(r)
    /\ Rollback(r)
    /\ reg' = [reg EXCEPT ![r] = IdleRequest]
    /\ UNCHANGED <<registered, import, history>>

Admin ==
    \E e \in Events :
        \/ \E capacity \in Capacities : CreateEvent(e, capacity)
        \/ \E capacity \in Capacities, status \in {"ACTIVE", "CANCELLED"} :
                UpdateEvent(e, capacity, status)
        \/ DeleteEvent(e)

Import(i) ==
    \/ ImportLook(i)
    \/ \E capacity \in Capacities : ImportUpdate(i, capacity)
    \/ \E e \in Events, capacity \in Capacities : ImportCreate(i, e, capacity)
    \/ ImportFails(i)

Register(r) ==
    \/ \E u \in Users, e \in Events : RegisterRead(r, u, e)
    \/ RegisterCheck(r)
    \/ RegisterTake(r)
    \/ RegisterCommit(r)
    \/ RegisterFails(r)

Next ==
    \/ Admin
    \/ \E i \in Imports : Import(i)
    \/ \E r \in Requests : Register(r)

Spec == Init /\ [][Next]_vars

\* A request that was accepted runs on; InnoDB serves lock requests in turn.
FairSpec ==
    /\ Spec
    /\ \A r \in Requests :
        /\ WF_vars(RegisterCheck(r))
        /\ SF_vars(RegisterTake(r))
        /\ WF_vars(RegisterCommit(r))

-----------------------------------------------------------------------------
(* Properties. *)

Registrations(e) == {r \in registered : reg[r].event = e}

(***************************************************************************)
(* Seen through the places alone, this is a box office: a registration     *)
(* takes one place that is there, however many requests race for the last  *)
(* one and whatever imports, updates and deletions come between the        *)
(* decrement and the insert.                                               *)
(***************************************************************************)
Office == INSTANCE BoxOffice WITH
    left <- [e \in Events |-> event[e].remainingSpots],
    sold <- [e \in Events |-> Cardinality(Registrations(e))]

ImplementsBoxOffice == Office!Spec

(***************************************************************************)
(* Places are neither lost nor made up: what was opened is what is left    *)
(* and what is registered, unless an import has overwritten the count.  A  *)
(* request that fails after its decrement gives the place back.            *)
(***************************************************************************)
PlacesAreConserved ==
    \A e \in Events :
        (event[e].exists /\ e \notin reset)
            => event[e].remainingSpots + Cardinality(Registrations(e)) = opened[e]

(***************************************************************************)
(* No unique key stands behind the two look-ups, so doubles are possible,  *)
(* and only like this: a user is registered twice for an event when both   *)
(* requests were between the check and the insert at once, and an external *)
(* event has two rows when both imports were between the look-up and the   *)
(* insert at once.                                                         *)
(***************************************************************************)
DoublesNeedRaces ==
    /\ \A r, o \in registered : r # o /\ SameSeat(r, o) => {r, o} \in together
    /\ Cardinality(Imported) > 1 => crossed

(***************************************************************************)
(* Every registration request is answered.                                 *)
(***************************************************************************)
RegistrationIsAnswered ==
    \A r \in Requests : (reg[r].step # "idle") ~> (reg[r].step \in {"idle", "done"})

-----------------------------------------------------------------------------
(* A property that the repository states and the code does not have. *)

\* "This event is sold out": no more registrations than the event has places.
NeverOversold ==
    \A e \in Events : event[e].exists => Cardinality(Registrations(e)) <= event[e].maxCapacity
=============================================================================
