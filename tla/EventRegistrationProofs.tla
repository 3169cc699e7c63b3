----------------------- MODULE EventRegistrationProofs -----------------------
(***************************************************************************)
(* Proofs about EventRegistration, for any numbers of events, users,       *)
(* requests and imports.                                                   *)
(***************************************************************************)
EXTENDS EventRegistration, FiniteSetTheorems, TLAPS

(***************************************************************************)
(* The row lock of an event is held by the one request that has taken a    *)
(* place and not committed; the row is there, and what the request has     *)
(* read of it is still true.                                               *)
(***************************************************************************)
LockIsSound ==
    /\ \A e \in Events, r \in Requests :
        lock[e] = r => reg[r].step = "taken" /\ reg[r].event = e
    /\ \A r \in Requests :
        reg[r].step = "taken" =>
            /\ reg[r].event \in Events
            /\ lock[reg[r].event] = r
            /\ event[reg[r].event].exists
            /\ reg[r].left = event[reg[r].event].remainingSpots - 1

\* A registration is that of a request that is done, for an event that is there.
RegistrationsHaveEvents ==
    /\ IsFiniteSet(registered)
    /\ \A r \in registered :
        reg[r].step = "done" /\ reg[r].event \in Events /\ event[reg[r].event].exists

\* Requests past their first read have chosen an event, and no row has no places.
RowsAreWhole ==
    /\ \A r \in Requests : reg[r].step # "idle" => reg[r].event \in Events
    /\ \A e \in Events : ~event[e].exists => event[e] = Absent

IInv ==
    /\ TypeOK
    /\ LockIsSound
    /\ RegistrationsHaveEvents
    /\ RowsAreWhole
    /\ PlacesAreConserved

\* Past the check of "already registered", on the way to the table or in it.
Seated(r) == reg[r].step \in {"checked", "taken"} \/ r \in registered

SeatsNeedRaces ==
    \A r, o \in Requests :
        r # o /\ Seated(r) /\ Seated(o) /\ SameSeat(r, o) => {r, o} \in together

\* One import at most has found no event, or one event at most was imported.
ImportsNeedRaces ==
    ~crossed =>
        /\ \A i, j \in Inserting : i = j
        /\ \A e, f \in Imported : e = f
        /\ Inserting = {} \/ Imported = {}
-----------------------------------------------------------------------------
(* Rows of events that exist, and requests that have no registration yet. *)
Rows == [exists : {TRUE}, external : BOOLEAN, status : {"ACTIVE", "CANCELLED"},
         maxCapacity : Capacities \cup {0}, remainingSpots : Int]

OpenRequests == [step : {"idle", "read", "checked", "taken"}, event : Events \cup {NoEvent},
                 user : Users \cup {NoOne}, left : Int]

\* The types of event and reg.
EventRows == [exists : BOOLEAN, external : BOOLEAN, status : {"ACTIVE", "CANCELLED"},
              maxCapacity : Capacities \cup {0}, remainingSpots : Int]

RequestRows == [step : {"idle", "read", "checked", "taken", "done"},
                event : Events \cup {NoEvent}, user : Users \cup {NoOne}, left : Int]

\* A step that changes the row of one event, or one request.
OnlyRow(e, row) == event'[e] = row /\ \A f \in Events \ {e} : event'[f] = event[f]
OnlyRequest(r, next) == reg'[r] = next /\ \A o \in Requests \ {r} : reg'[o] = reg[o]

-----------------------------------------------------------------------------
(* Lemmas about the writes of the actions, column by column. *)

LEMMA TypedRows == TypeOK => event \in [Events -> EventRows] /\ reg \in [Requests -> RequestRows]
BY DEF TypeOK, EventRows, RequestRows

\* The columns that an administrator sets.
LEMMA UpdateWrites ==
    ASSUME TypeOK, NEW e \in Events, NEW capacity \in Capacities,
           NEW status \in {"ACTIVE", "CANCELLED"},
           event' = [event EXCEPT ![e].maxCapacity = capacity, ![e].status = status]
    PROVE  /\ event' \in [Events -> EventRows]
           /\ OnlyRow(e, [exists |-> event[e].exists, external |-> event[e].external,
                          status |-> status, maxCapacity |-> capacity,
                          remainingSpots |-> event[e].remainingSpots])
           /\ \A f \in Events :
                /\ event'[f].exists = event[f].exists
                /\ event'[f].external = event[f].external
                /\ event'[f].remainingSpots = event[f].remainingSpots
<1>1. event \in [Events -> EventRows]
  BY TypedRows
<1>2. event' \in [Events -> EventRows]
  BY <1>1 DEF EventRows
<1>3. \A f \in Events \ {e} : event'[f] = event[f]
  BY <1>1
<1> QED BY <1>1, <1>2, <1>3 DEF EventRows, OnlyRow

\* The columns that an import overwrites.
LEMMA ImportWrites ==
    ASSUME TypeOK, NEW e \in Events, NEW capacity \in Capacities, Capacities \subseteq Int,
           event' = [event EXCEPT ![e].maxCapacity = capacity, ![e].remainingSpots = capacity]
    PROVE  /\ event' \in [Events -> EventRows]
           /\ OnlyRow(e, [exists |-> event[e].exists, external |-> event[e].external,
                          status |-> event[e].status, maxCapacity |-> capacity,
                          remainingSpots |-> capacity])
           /\ \A f \in Events :
                /\ event'[f].exists = event[f].exists
                /\ event'[f].external = event[f].external
                /\ event'[f].remainingSpots = IF f = e THEN capacity ELSE event[f].remainingSpots
<1>1. event \in [Events -> EventRows]
  BY TypedRows
<1>2. event' \in [Events -> EventRows]
  BY <1>1 DEF EventRows
<1>3. \A f \in Events \ {e} : event'[f] = event[f]
  BY <1>1
<1>4. event'[e] = [exists |-> event[e].exists, external |-> event[e].external,
                   status |-> event[e].status, maxCapacity |-> capacity,
                   remainingSpots |-> capacity]
  BY <1>1 DEF EventRows
<1> QED BY <1>2, <1>3, <1>4 DEF OnlyRow

\* The count of places that a commit leaves.
LEMMA CommitWrites ==
    ASSUME TypeOK, NEW e \in Events, NEW n \in Int,
           event' = [event EXCEPT ![e].remainingSpots = n]
    PROVE  /\ event' \in [Events -> EventRows]
           /\ OnlyRow(e, [exists |-> event[e].exists, external |-> event[e].external,
                          status |-> event[e].status, maxCapacity |-> event[e].maxCapacity,
                          remainingSpots |-> n])
           /\ \A f \in Events :
                /\ event'[f].exists = event[f].exists
                /\ event'[f].external = event[f].external
                /\ event'[f].remainingSpots = IF f = e THEN n ELSE event[f].remainingSpots
<1>1. event \in [Events -> EventRows]
  BY TypedRows
<1>2. event' \in [Events -> EventRows]
  BY <1>1 DEF EventRows
<1>3. \A f \in Events \ {e} : event'[f] = event[f]
  BY <1>1
<1> QED BY <1>1, <1>2, <1>3 DEF EventRows, OnlyRow

\* A new row, or none.
LEMMA RowReplaced ==
    ASSUME TypeOK, NEW e \in Events, NEW row \in EventRows, event' = [event EXCEPT ![e] = row]
    PROVE  event' \in [Events -> EventRows] /\ OnlyRow(e, row)
<1>1. event \in [Events -> EventRows]
  BY TypedRows
<1> QED BY <1>1 DEF OnlyRow

\* A request that moves on with what it has.
LEMMA StepWrites ==
    ASSUME TypeOK, NEW r \in Requests, NEW step \in {"checked", "done"},
           reg' = [reg EXCEPT ![r].step = step]
    PROVE  /\ reg' \in [Requests -> RequestRows]
           /\ OnlyRequest(r, [step |-> step, event |-> reg[r].event, user |-> reg[r].user,
                              left |-> reg[r].left])
<1>1. reg \in [Requests -> RequestRows]
  BY TypedRows
<1>2. reg' \in [Requests -> RequestRows]
  BY <1>1 DEF RequestRows
<1> QED BY <1>1, <1>2 DEF RequestRows, OnlyRequest

\* A request that has read what the decrement left.
LEMMA TakeWrites ==
    ASSUME TypeOK, NEW r \in Requests, NEW n \in Int,
           reg' = [reg EXCEPT ![r].step = "taken", ![r].left = n]
    PROVE  /\ reg' \in [Requests -> RequestRows]
           /\ OnlyRequest(r, [step |-> "taken", event |-> reg[r].event, user |-> reg[r].user,
                              left |-> n])
<1>1. reg \in [Requests -> RequestRows]
  BY TypedRows
<1>2. reg' \in [Requests -> RequestRows]
  BY <1>1 DEF RequestRows
<1> QED BY <1>1, <1>2 DEF RequestRows, OnlyRequest

\* A request that starts or gives up.
LEMMA RequestReplaced ==
    ASSUME TypeOK, NEW r \in Requests, NEW next \in RequestRows, reg' = [reg EXCEPT ![r] = next]
    PROVE  reg' \in [Requests -> RequestRows] /\ OnlyRequest(r, next)
<1>1. reg \in [Requests -> RequestRows]
  BY TypedRows
<1> QED BY <1>1 DEF OnlyRequest

LEMMA IdleIsOpen ==
    IdleRequest \in OpenRequests /\ IdleRequest \in RequestRows /\ IdleRequest.step = "idle"
BY DEF IdleRequest, OpenRequests, RequestRows

-----------------------------------------------------------------------------
(* Lemmas about the registrations of an event. *)

\* They are finitely many.
LEMMA RegistrationsAreFinite ==
    ASSUME RegistrationsHaveEvents, NEW e
    PROVE  IsFiniteSet(Registrations(e)) /\ Cardinality(Registrations(e)) \in Nat
<1>1. Registrations(e) \subseteq registered
  BY DEF Registrations
<1>2. IsFiniteSet(Registrations(e))
  BY <1>1, FS_Subset DEF RegistrationsHaveEvents
<1> QED BY <1>2, FS_CardinalityType

\* A step that touches no row of registrations and none of their requests.
LEMMA RegistrationsStay ==
    ASSUME registered' = registered, \A r \in registered : reg'[r] = reg[r]
    PROVE  \A e \in Events : Registrations(e)' = Registrations(e)
BY DEF Registrations

\* The insert of a registration counts for its event alone.
LEMMA RegistrationCounts ==
    ASSUME RegistrationsHaveEvents, NEW r \in Requests, r \notin registered,
           registered' = registered \cup {r},
           reg'[r].event = reg[r].event,
           \A o \in registered : reg'[o] = reg[o],
           NEW e \in Events
    PROVE  Cardinality(Registrations(e))' =
               Cardinality(Registrations(e)) + (IF reg[r].event = e THEN 1 ELSE 0)
<1>1. CASE reg[r].event = e
  <2>1. Registrations(e)' = Registrations(e) \cup {r} /\ r \notin Registrations(e)
    BY <1>1 DEF Registrations
  <2> QED BY <1>1, <2>1, RegistrationsAreFinite, FS_AddElement
<1>2. CASE reg[r].event # e
  <2>1. Registrations(e)' = Registrations(e)
    BY <1>2 DEF Registrations
  <2> QED BY <1>2, <2>1, RegistrationsAreFinite
<1> QED BY <1>1, <1>2

\* An event that is not there has no registrations.
LEMMA AbsentEventsAreEmpty ==
    ASSUME RegistrationsHaveEvents, NEW e \in Events, ~event[e].exists
    PROVE  Registrations(e) = {} /\ Cardinality(Registrations(e)) = 0
<1>1. Registrations(e) = {}
  BY DEF Registrations, RegistrationsHaveEvents
<1> QED BY <1>1, FS_EmptySet

-----------------------------------------------------------------------------
LEMMA InitIInv == Init => IInv
<1> SUFFICES ASSUME Init PROVE IInv
  OBVIOUS
<1> USE EventAssumption DEF Init, Absent, IdleRequest, IdleImport
<1>1. TypeOK
  <2>1. event \in [Events -> [exists : BOOLEAN, external : BOOLEAN,
                             status : {"ACTIVE", "CANCELLED"},
                             maxCapacity : Capacities \cup {0}, remainingSpots : Int]]
    OBVIOUS
  <2>2. reg \in [Requests -> [step : {"idle", "read", "checked", "taken", "done"},
                             event : Events \cup {NoEvent}, user : Users \cup {NoOne}, left : Int]]
    OBVIOUS
  <2>3. import \in [Imports -> [step : {"idle", "looked"}, found : Events \cup {NoEvent}]]
    OBVIOUS
  <2>4. opened \in [Events -> Capacities \cup {0}] /\ lock \in [Events -> Requests \cup {NoOne}]
    OBVIOUS
  <2>5. created \in 0 .. MaxCreated
    OBVIOUS
  <2>6. registered \subseteq Requests /\ reset \subseteq Events /\ together \subseteq SUBSET Requests
        /\ crossed \in BOOLEAN
    OBVIOUS
  <2> QED BY <2>1, <2>2, <2>3, <2>4, <2>5, <2>6 DEF TypeOK
<1>2. LockIsSound /\ RowsAreWhole
  BY DEF LockIsSound, RowsAreWhole
<1>3. RegistrationsHaveEvents
  BY FS_EmptySet DEF RegistrationsHaveEvents
<1>4. PlacesAreConserved
  BY DEF PlacesAreConserved
<1> QED BY <1>1, <1>2, <1>3, <1>4 DEF IInv

\* A row is inserted or overwritten while no registration has a hand in it.
LEMMA RowStepKeepsIInv ==
    ASSUME IInv, NEW e \in Events, lock[e] = NoOne,
           NEW row \in Rows,
           OnlyRow(e, row),
           UNCHANGED <<registered, lock, reg>>,
           TypeOK', PlacesAreConserved'
    PROVE  IInv'
<1> USE DEF IInv
<1>1. \A f \in Events : event'[f] = IF f = e THEN row ELSE event[f]
  BY DEF OnlyRow
<1> USE DEF Rows
<1>2. LockIsSound'
  BY <1>1, EventAssumption DEF LockIsSound, TypeOK
<1>3. RegistrationsHaveEvents' /\ RowsAreWhole'
  BY <1>1 DEF RegistrationsHaveEvents, RowsAreWhole
<1> QED BY <1>2, <1>3

\* A request takes a step that is no commit: it takes a place or gives up.
LEMMA RequestStepKeepsIInv ==
    ASSUME IInv, NEW r \in Requests, reg[r].step # "done",
           NEW next \in OpenRequests,
           next.step # "idle" => next.event \in Events,
           OnlyRequest(r, next),
           UNCHANGED <<event, registered, opened, reset>>,
           TypeOK', LockIsSound'
    PROVE  IInv'
<1> USE DEF IInv, OpenRequests, OnlyRequest
<1>1. r \notin registered
  BY DEF RegistrationsHaveEvents
<1>2. \A o \in registered : reg'[o] = reg[o]
  BY <1>1 DEF TypeOK
<1>3. RegistrationsHaveEvents' /\ RowsAreWhole'
  BY <1>2 DEF RegistrationsHaveEvents, RowsAreWhole, TypeOK
<1>4. PlacesAreConserved'
  BY <1>2, RegistrationsStay DEF PlacesAreConserved
<1> QED BY <1>3, <1>4

\* Administrators.
LEMMA AdminKeepsIInv ==
    ASSUME IInv, Admin
    PROVE  IInv'
<1> USE EventAssumption DEF IInv, history
<1>1. ASSUME NEW e \in Events, NEW capacity \in Capacities, CreateEvent(e, capacity) PROVE IInv'
  <2>1. TypeOK'
    BY <1>1 DEF CreateEvent, NewEvent, TypeOK
  <2>2. lock[e] = NoOne
    BY <1>1 DEF CreateEvent, Fresh, LockIsSound, TypeOK
  <2>3. PlacesAreConserved'
    BY <1>1, RegistrationsStay, AbsentEventsAreEmpty
       DEF CreateEvent, Fresh, NewEvent, PlacesAreConserved, TypeOK
  <2>4. NewEvent(capacity, FALSE) \in Rows
    BY DEF NewEvent, Rows
  <2> QED BY <1>1, <2>1, <2>2, <2>3, <2>4, RowStepKeepsIInv DEF CreateEvent, OnlyRow, TypeOK
<1>2. ASSUME NEW e \in Events, NEW capacity \in Capacities, NEW status \in {"ACTIVE", "CANCELLED"},
             UpdateEvent(e, capacity, status)
      PROVE  IInv'
  <2> DEFINE row == [exists |-> event[e].exists, external |-> event[e].external, status |-> status,
                     maxCapacity |-> capacity, remainingSpots |-> event[e].remainingSpots]
  <2>1. event[e].exists /\ lock[e] = NoOne /\ UNCHANGED <<registered, lock, reg, import, history>>
    BY <1>2 DEF UpdateEvent, Updatable
  <2>2. event' \in [Events -> EventRows] /\ OnlyRow(e, row)
    BY <1>2, UpdateWrites DEF UpdateEvent
  <2>3. row \in Rows /\ row.remainingSpots = event[e].remainingSpots
    BY <2>1 DEF Rows, TypeOK
  <2> HIDE DEF row
  <2>4. TypeOK'
    BY <2>1, <2>2 DEF TypeOK, EventRows
  <2>5. PlacesAreConserved'
    BY <2>1, <2>2, <2>3, RegistrationsStay DEF PlacesAreConserved, OnlyRow, Rows, TypeOK
  <2> QED BY <2>1, <2>2, <2>3, <2>4, <2>5, RowStepKeepsIInv
<1>3. ASSUME NEW e \in Events, DeleteEvent(e) PROVE IInv'
  <2>1. /\ lock[e] = NoOne
        /\ event' = [event EXCEPT ![e] = Absent]
        /\ registered' = registered \ Registrations(e)
        /\ UNCHANGED <<lock, reg, import, history>>
    BY <1>3 DEF DeleteEvent, Updatable, Registrations
  <2>2. TypeOK'
    BY <2>1 DEF TypeOK, Absent
  <2>3. LockIsSound'
    BY <2>1 DEF LockIsSound, TypeOK
  <2>4. RegistrationsHaveEvents'
    <3>1. IsFiniteSet(registered')
      BY <2>1, FS_Difference DEF RegistrationsHaveEvents
    <3> QED BY <2>1, <3>1 DEF RegistrationsHaveEvents, Registrations, TypeOK
  <2>5. RowsAreWhole'
    BY <2>1 DEF RowsAreWhole, TypeOK
  <2>6. PlacesAreConserved'
    <3>1. \A f \in Events \ {e} : Registrations(f)' = Registrations(f)
      BY <2>1 DEF Registrations
    <3> QED BY <2>1, <3>1 DEF PlacesAreConserved, TypeOK, Absent
  <2> QED BY <2>2, <2>3, <2>4, <2>5, <2>6
<1> QED BY <1>1, <1>2, <1>3 DEF Admin

\* Imports.
LEMMA ImportKeepsIInv ==
    ASSUME IInv, NEW i \in Imports, Import(i)
    PROVE  IInv'
<1> USE EventAssumption DEF IInv, history
<1>1. CASE ImportLook(i) \/ ImportFails(i)
  <2>1. UNCHANGED <<event, registered, lock, reg, opened, reset>>
    BY <1>1 DEF ImportLook, ImportFails
  <2>2. import' \in [Imports -> [step : {"idle", "looked"}, found : Events \cup {NoEvent}]]
    <3>1. IdleImport \in [step : {"idle", "looked"}, found : Events \cup {NoEvent}]
      BY DEF IdleImport
    <3>2. \A found \in Found \cup {NoEvent} : [step |-> "looked", found |-> found] \in
                [step : {"idle", "looked"}, found : Events \cup {NoEvent}]
      BY DEF Found, Imported
    <3>3. import' = [import EXCEPT ![i] = IdleImport]
          \/ \E found \in Found \cup {NoEvent} :
                import' = [import EXCEPT ![i] = [step |-> "looked", found |-> found]]
      BY <1>1 DEF ImportLook, ImportFails
    <3> QED BY <3>1, <3>2, <3>3 DEF TypeOK
  <2>4. TypeOK'
    BY <1>1, <2>1, <2>2 DEF ImportLook, ImportFails, TypeOK
  <2>3. PlacesAreConserved'
    BY <2>1, RegistrationsStay DEF PlacesAreConserved
  <2> QED BY <2>1, <2>3, <2>4 DEF LockIsSound, RegistrationsHaveEvents, RowsAreWhole
<1>2. ASSUME NEW capacity \in Capacities, ImportUpdate(i, capacity) PROVE IInv'
  <2> DEFINE e == import[i].found
             row == [exists |-> event[e].exists, external |-> event[e].external,
                     status |-> event[e].status, maxCapacity |-> capacity,
                     remainingSpots |-> capacity]
  <2>1. /\ e \in Events /\ event[e].exists /\ lock[e] = NoOne
        /\ reset' = reset \cup {e}
        /\ import' = [import EXCEPT ![i] = IdleImport]
        /\ UNCHANGED <<registered, lock, reg, created, opened, together, crossed>>
    BY <1>2 DEF ImportUpdate, Updatable, TypeOK
  <2>2. event' \in [Events -> EventRows] /\ OnlyRow(e, row)
    <3>1. event' = [event EXCEPT ![e].maxCapacity = capacity, ![e].remainingSpots = capacity]
      BY <1>2 DEF ImportUpdate
    <3>2. Capacities \subseteq Int
      OBVIOUS
    <3> QED BY <2>1, <3>1, <3>2, ImportWrites
  <2>3. row \in Rows
    BY <2>1 DEF Rows, TypeOK
  <2> HIDE DEF row
  <2>4. TypeOK'
    <3>1. import' \in [Imports -> [step : {"idle", "looked"}, found : Events \cup {NoEvent}]]
      BY <2>1 DEF TypeOK, IdleImport
    <3> QED BY <2>1, <2>2, <3>1 DEF TypeOK, EventRows
  <2>5. PlacesAreConserved'
    BY <2>1, <2>2, RegistrationsStay DEF PlacesAreConserved, OnlyRow, TypeOK
  <2> QED BY <2>1, <2>2, <2>3, <2>4, <2>5, RowStepKeepsIInv
<1>3. ASSUME NEW e \in Events, NEW capacity \in Capacities, ImportCreate(i, e, capacity) PROVE IInv'
  <2>1. TypeOK'
    BY <1>3 DEF ImportCreate, NewEvent, IdleImport, TypeOK
  <2>2. lock[e] = NoOne
    BY <1>3 DEF ImportCreate, Fresh, LockIsSound, TypeOK
  <2>3. PlacesAreConserved'
    BY <1>3, RegistrationsStay, AbsentEventsAreEmpty
       DEF ImportCreate, Fresh, NewEvent, PlacesAreConserved, TypeOK
  <2>4. NewEvent(capacity, TRUE) \in Rows
    BY DEF NewEvent, Rows
  <2> QED BY <1>3, <2>1, <2>2, <2>3, <2>4, RowStepKeepsIInv DEF ImportCreate, OnlyRow, TypeOK
<1> QED BY <1>1, <1>2, <1>3 DEF Import

\* A request that holds the lock of an event no longer, or never did.
LEMMA LettingGoKeepsLocks ==
    ASSUME TypeOK, LockIsSound, NoOne \notin Requests, NEW r \in Requests,
           NEW next, next.step # "taken",
           OnlyRequest(r, next),
           \A e \in Events : lock'[e] = IF lock[e] = r THEN NoOne ELSE lock[e],
           \A e \in Events : lock[e] # r => event'[e] = event[e]
    PROVE  LockIsSound'
<1>1. \A o \in Requests : reg'[o].step = "taken" => o # r /\ reg'[o] = reg[o]
  BY DEF OnlyRequest
<1>2. ASSUME NEW e \in Events, NEW o \in Requests, lock'[e] = o
      PROVE  reg'[o].step = "taken" /\ reg'[o].event = e
  <2>1. o # r /\ lock[e] = o
    BY <1>2
  <2> QED BY <2>1 DEF LockIsSound, OnlyRequest
<1>3. ASSUME NEW o \in Requests, reg'[o].step = "taken"
      PROVE  /\ reg'[o].event \in Events
             /\ lock'[reg'[o].event] = o
             /\ event'[reg'[o].event].exists
             /\ reg'[o].left = event'[reg'[o].event].remainingSpots - 1
  <2>1. o # r /\ reg'[o] = reg[o] /\ reg[o].step = "taken"
    BY <1>1, <1>3
  <2>2. reg[o].event \in Events /\ lock[reg[o].event] = o
    BY <2>1 DEF LockIsSound
  <2>3. lock'[reg[o].event] = o /\ event'[reg[o].event] = event[reg[o].event]
    BY <2>1, <2>2
  <2> QED BY <2>1, <2>2, <2>3 DEF LockIsSound
<1> QED BY <1>2, <1>3 DEF LockIsSound

\* Requests that have not taken a place hold no lock.
LEMMA OnlyTakersLock ==
    ASSUME LockIsSound, NEW r \in Requests, reg[r].step # "taken"
    PROVE  \A e \in Events : lock[e] # r
BY DEF LockIsSound

\* Registrations, action by action.
LEMMA ReadKeepsIInv ==
    ASSUME IInv, NEW r \in Requests, NEW u \in Users, NEW e \in Events, RegisterRead(r, u, e)
    PROVE  IInv'
<1> DEFINE next == [step |-> "read", event |-> e, user |-> u, left |-> 0]
<1>1. /\ reg[r].step = "idle"
      /\ reg' = [reg EXCEPT ![r] = next]
      /\ UNCHANGED <<event, registered, lock, import, history>>
  BY DEF RegisterRead
<1>2. next \in OpenRequests /\ next \in RequestRows /\ next.event \in Events /\ next.step = "read"
  BY DEF OpenRequests, RequestRows
<1> HIDE DEF next
<1>3. reg' \in [Requests -> RequestRows] /\ OnlyRequest(r, next)
  BY <1>1, <1>2, RequestReplaced DEF IInv
<1>4. TypeOK'
  BY <1>1, <1>3 DEF IInv, TypeOK, RequestRows, history
<1>5. LockIsSound'
  BY <1>1, <1>2, <1>3, OnlyTakersLock, LettingGoKeepsLocks, EventAssumption DEF IInv
<1> QED BY <1>1, <1>2, <1>3, <1>4, <1>5, RequestStepKeepsIInv DEF history

LEMMA CheckKeepsIInv ==
    ASSUME IInv, NEW r \in Requests, RegisterCheck(r)
    PROVE  IInv'
<1> DEFINE next == [step |-> "checked", event |-> reg[r].event, user |-> reg[r].user,
                    left |-> reg[r].left]
<1>1. /\ reg[r].step = "read"
      /\ UNCHANGED <<event, registered, lock, import, created, opened, reset, crossed>>
  BY DEF RegisterCheck
<1>2. next \in OpenRequests /\ next \in RequestRows /\ next.step = "checked"
  BY DEF IInv, OpenRequests, RequestRows, TypeOK
<1>3. next.event \in Events
  BY <1>1 DEF IInv, RowsAreWhole
<1>4. /\ reg' \in [Requests -> RequestRows]
      /\ \/ OnlyRequest(r, IdleRequest)
         \/ OnlyRequest(r, next)
  <2>1. CASE reg' = [reg EXCEPT ![r] = IdleRequest]
    BY <2>1, IdleIsOpen, RequestReplaced DEF IInv
  <2>2. CASE reg' = [reg EXCEPT ![r].step = "checked"]
    BY <2>2, StepWrites DEF IInv
  <2> QED BY <2>1, <2>2 DEF RegisterCheck
<1>5. together' \subseteq SUBSET Requests
  <2>1. together \subseteq SUBSET Requests
    BY DEF IInv, TypeOK
  <2>2. PastCheck(r) \subseteq Requests
    BY DEF PastCheck
  <2> QED BY <2>1, <2>2 DEF RegisterCheck
<1> HIDE DEF next
<1>6. TypeOK'
  BY <1>1, <1>4, <1>5 DEF IInv, TypeOK, RequestRows
<1>7. LockIsSound'
  BY <1>1, <1>2, <1>4, IdleIsOpen, OnlyTakersLock, LettingGoKeepsLocks, EventAssumption DEF IInv
<1> QED BY <1>1, <1>2, <1>3, <1>4, <1>6, <1>7, IdleIsOpen, RequestStepKeepsIInv

LEMMA TakeKeepsIInv ==
    ASSUME IInv, NEW r \in Requests, RegisterTake(r)
    PROVE  IInv'
<1> DEFINE e == reg[r].event
           next == [step |-> "taken", event |-> e, user |-> reg[r].user,
                    left |-> event[e].remainingSpots - 1]
<1>1. /\ reg[r].step = "checked" /\ e \in Events
      /\ UNCHANGED <<event, registered, import, history>>
      /\ event[e].remainingSpots \in Int
      /\ \/ /\ Updatable(e)
            /\ lock' = [lock EXCEPT ![e] = r]
            /\ reg' = [reg EXCEPT ![r].step = "taken", ![r].left = event[e].remainingSpots - 1]
         \/ /\ reg' = [reg EXCEPT ![r] = IdleRequest]
            /\ UNCHANGED lock
  BY DEF RegisterTake, IInv, RowsAreWhole, TypeOK
<1>2. CASE /\ Updatable(e)
           /\ lock' = [lock EXCEPT ![e] = r]
           /\ reg' = [reg EXCEPT ![r].step = "taken", ![r].left = event[e].remainingSpots - 1]
  <2>1. /\ next \in OpenRequests
        /\ next.step = "taken" /\ next.event = e /\ next.left = event[e].remainingSpots - 1
    BY <1>1 DEF OpenRequests, IInv, TypeOK
  <2>2. reg' \in [Requests -> RequestRows] /\ OnlyRequest(r, next)
    <3>1. event[e].remainingSpots - 1 \in Int
      BY <1>1
    <3> QED BY <1>2, <3>1, TakeWrites DEF IInv
  <2> HIDE DEF next
  <2>3. /\ \A f \in Events : lock'[f] = IF f = e THEN r ELSE lock[f]
        /\ lock' \in [Events -> Requests \cup {NoOne}]
    BY <1>1, <1>2 DEF IInv, TypeOK
  <2>4. TypeOK'
    BY <1>1, <2>2, <2>3 DEF IInv, TypeOK, RequestRows, history
  <2>5. LockIsSound'
    <3>1. \A f \in Events : lock[f] # r
      BY <1>1, OnlyTakersLock DEF IInv
    <3>2. ASSUME NEW f \in Events, NEW o \in Requests, lock'[f] = o
          PROVE  reg'[o].step = "taken" /\ reg'[o].event = f
      <4>1. CASE f = e
        BY <2>1, <2>2, <2>3, <3>2, <4>1 DEF OnlyRequest
      <4>2. CASE f # e
        BY <2>2, <2>3, <3>1, <3>2, <4>2 DEF OnlyRequest, LockIsSound, IInv
      <4> QED BY <4>1, <4>2
    <3>3. ASSUME NEW o \in Requests, reg'[o].step = "taken"
          PROVE  /\ reg'[o].event \in Events
                 /\ lock'[reg'[o].event] = o
                 /\ event'[reg'[o].event].exists
                 /\ reg'[o].left = event'[reg'[o].event].remainingSpots - 1
      <4>1. CASE o = r
        BY <1>1, <1>2, <2>1, <2>2, <2>3, <4>1 DEF OnlyRequest, Updatable
      <4>2. CASE o # r
        <5>1. reg'[o] = reg[o]
          BY <2>2, <4>2 DEF OnlyRequest
        <5>2. /\ reg[o].event \in Events /\ lock[reg[o].event] = o
              /\ event[reg[o].event].exists
              /\ reg[o].left = event[reg[o].event].remainingSpots - 1
          BY <3>3, <5>1 DEF LockIsSound, IInv
        <5>3. reg[o].event # e
          BY <1>2, <5>2, EventAssumption DEF Updatable
        <5> QED BY <1>1, <2>3, <5>1, <5>2, <5>3
      <4> QED BY <4>1, <4>2
    <3> QED BY <3>2, <3>3 DEF LockIsSound
  <2> QED BY <1>1, <2>1, <2>2, <2>4, <2>5, RequestStepKeepsIInv DEF history
<1>3. CASE reg' = [reg EXCEPT ![r] = IdleRequest] /\ UNCHANGED lock
  <2>1. reg' \in [Requests -> RequestRows] /\ OnlyRequest(r, IdleRequest)
    BY <1>3, IdleIsOpen, RequestReplaced DEF IInv
  <2>2. TypeOK'
    BY <1>1, <1>3, <2>1 DEF IInv, TypeOK, RequestRows, history
  <2>3. LockIsSound'
    BY <1>1, <1>3, <2>1, IdleIsOpen, OnlyTakersLock, LettingGoKeepsLocks, EventAssumption
       DEF IInv
  <2> QED BY <1>1, <2>1, <2>2, <2>3, IdleIsOpen, RequestStepKeepsIInv DEF history
<1> QED BY <1>1, <1>2, <1>3

LEMMA CommitKeepsIInv ==
    ASSUME IInv, NEW r \in Requests, RegisterCommit(r)
    PROVE  IInv'
<1> DEFINE e == reg[r].event
           next == [step |-> "done", event |-> e, user |-> reg[r].user, left |-> reg[r].left]
           row == [exists |-> event[e].exists, external |-> event[e].external,
                   status |-> event[e].status, maxCapacity |-> event[e].maxCapacity,
                   remainingSpots |-> reg[r].left]
<1>1. /\ reg[r].step = "taken" /\ e \in Events /\ lock[e] = r /\ event[e].exists
      /\ reg[r].left = event[e].remainingSpots - 1
      /\ UNCHANGED <<import, history>>
      /\ r \notin registered
  BY DEF RegisterCommit, IInv, LockIsSound, RegistrationsHaveEvents
<1>2. reg[r].left \in Int
  BY DEF IInv, TypeOK
<1>3. /\ lock' \in [Events -> Requests \cup {NoOne}]
      /\ \A f \in Events : lock'[f] = IF f = e THEN NoOne ELSE lock[f]
      /\ \A f \in Events : lock'[f] = IF lock[f] = r THEN NoOne ELSE lock[f]
  <2>1. lock' = [lock EXCEPT ![e] = NoOne] /\ lock \in [Events -> Requests \cup {NoOne}]
    BY DEF RegisterCommit, IInv, TypeOK
  <2>2. \A f \in Events : lock[f] = r => f = e
    BY DEF IInv, LockIsSound
  <2> QED BY <1>1, <2>1, <2>2
<1>4. \/ /\ event' = [event EXCEPT ![e].remainingSpots = reg[r].left]
         /\ registered' = registered \cup {r}
         /\ reg' = [reg EXCEPT ![r].step = "done"]
      \/ /\ reg' = [reg EXCEPT ![r] = IdleRequest]
         /\ UNCHANGED <<event, registered>>
  BY DEF RegisterCommit
<1>5. CASE /\ event' = [event EXCEPT ![e].remainingSpots = reg[r].left]
           /\ registered' = registered \cup {r}
           /\ reg' = [reg EXCEPT ![r].step = "done"]
  <2>1. event' \in [Events -> EventRows] /\ OnlyRow(e, row)
    BY <1>1, <1>2, <1>5, CommitWrites DEF IInv
  <2>2. reg' \in [Requests -> RequestRows] /\ OnlyRequest(r, next)
    BY <1>5, StepWrites DEF IInv
  <2>3. next.step = "done" /\ next.event = e
    OBVIOUS
  <2>4. row.exists = TRUE /\ row.remainingSpots = event[e].remainingSpots - 1
    BY <1>1 DEF IInv, TypeOK
  <2> HIDE DEF next, row
  <2>5. TypeOK'
    BY <1>1, <1>3, <1>5, <2>1, <2>2 DEF IInv, TypeOK, EventRows, RequestRows, history
  <2>6. LockIsSound'
    BY <1>1, <1>3, <2>1, <2>2, <2>3, LettingGoKeepsLocks, EventAssumption DEF IInv, OnlyRow
  <2>7. RegistrationsHaveEvents'
    <3>1. IsFiniteSet(registered')
      BY <1>5, FS_AddElement DEF IInv, RegistrationsHaveEvents
    <3>2. ASSUME NEW o \in registered'
          PROVE  reg'[o].step = "done" /\ reg'[o].event \in Events /\ event'[reg'[o].event].exists
      <4>1. CASE o = r
        BY <1>1, <2>1, <2>2, <2>3, <2>4, <4>1 DEF OnlyRow, OnlyRequest
      <4>2. CASE o # r
        <5>1. o \in registered /\ o \in Requests
          BY <1>5, <3>2, <4>2 DEF IInv, TypeOK
        <5>2. reg'[o] = reg[o] /\ reg[o].step = "done" /\ reg[o].event \in Events
              /\ event[reg[o].event].exists
          BY <2>2, <4>2, <5>1 DEF OnlyRequest, IInv, RegistrationsHaveEvents
        <5> QED BY <2>1, <2>4, <5>2 DEF OnlyRow
      <4> QED BY <4>1, <4>2
    <3> QED BY <3>1, <3>2 DEF RegistrationsHaveEvents
  <2>8. RowsAreWhole'
    <3>1. \A o \in Requests : reg'[o].step # "idle" => reg'[o].event \in Events
      BY <1>1, <2>2, <2>3 DEF OnlyRequest, IInv, RowsAreWhole
    <3>2. \A f \in Events : ~event'[f].exists => event'[f] = Absent
      BY <2>1, <2>4 DEF OnlyRow, IInv, RowsAreWhole
    <3> QED BY <3>1, <3>2 DEF RowsAreWhole, Absent
  <2>9. PlacesAreConserved'
    <3>1. \A o \in registered : reg'[o] = reg[o]
      BY <1>1, <2>2 DEF OnlyRequest, IInv, TypeOK
    <3>2. reg'[r].event = reg[r].event
      BY <2>2, <2>3 DEF OnlyRequest
    <3>3. ASSUME NEW f \in Events
          PROVE  /\ Cardinality(Registrations(f))' =
                        Cardinality(Registrations(f)) + (IF e = f THEN 1 ELSE 0)
                 /\ Cardinality(Registrations(f)) \in Nat
      BY <1>1, <1>5, <3>1, <3>2, RegistrationCounts, RegistrationsAreFinite DEF IInv
    <3>4. ASSUME NEW f \in Events, event'[f].exists, f \notin reset
          PROVE  event'[f].remainingSpots + Cardinality(Registrations(f))' = opened[f]
      <4>1. /\ event[f].exists
            /\ event'[f].remainingSpots = event[f].remainingSpots - (IF e = f THEN 1 ELSE 0)
            /\ event[f].remainingSpots \in Int
        BY <1>1, <2>1, <2>4, <3>4 DEF OnlyRow, IInv, TypeOK
      <4> QED BY <3>3, <3>4, <4>1 DEF IInv, PlacesAreConserved
    <3> QED BY <1>1, <3>4 DEF PlacesAreConserved, history
  <2> QED BY <2>5, <2>6, <2>7, <2>8, <2>9 DEF IInv
<1>6. CASE reg' = [reg EXCEPT ![r] = IdleRequest] /\ UNCHANGED <<event, registered>>
  <2>1. reg' \in [Requests -> RequestRows] /\ OnlyRequest(r, IdleRequest)
    BY <1>6, IdleIsOpen, RequestReplaced DEF IInv
  <2>2. TypeOK'
    BY <1>1, <1>3, <1>6, <2>1 DEF IInv, TypeOK, RequestRows, history
  <2>3. LockIsSound'
    BY <1>3, <1>6, <2>1, IdleIsOpen, LettingGoKeepsLocks, EventAssumption DEF IInv
  <2> QED BY <1>1, <1>6, <2>1, <2>2, <2>3, IdleIsOpen, RequestStepKeepsIInv DEF history
<1> QED BY <1>4, <1>5, <1>6

LEMMA FailureKeepsIInv ==
    ASSUME IInv, NEW r \in Requests, RegisterFails(r)
    PROVE  IInv'
<1>1. /\ reg[r].step \in {"checked", "taken"}
      /\ lock' = [e \in Events |-> IF lock[e] = r THEN NoOne ELSE lock[e]]
      /\ reg' = [reg EXCEPT ![r] = IdleRequest]
      /\ UNCHANGED <<event, registered, import, history>>
  BY DEF RegisterFails, Unlock, Rollback
<1>2. reg' \in [Requests -> RequestRows] /\ OnlyRequest(r, IdleRequest)
  BY <1>1, IdleIsOpen, RequestReplaced DEF IInv
<1>3. lock' \in [Events -> Requests \cup {NoOne}]
  BY <1>1 DEF IInv, TypeOK
<1>4. TypeOK'
  BY <1>1, <1>2, <1>3 DEF IInv, TypeOK, RequestRows, history
<1>5. LockIsSound'
  BY <1>1, <1>2, IdleIsOpen, LettingGoKeepsLocks, EventAssumption DEF IInv
<1> QED BY <1>1, <1>2, <1>4, <1>5, IdleIsOpen, RequestStepKeepsIInv DEF history

LEMMA RegisterKeepsIInv ==
    ASSUME IInv, NEW r \in Requests, Register(r)
    PROVE  IInv'
BY ReadKeepsIInv, CheckKeepsIInv, TakeKeepsIInv, CommitKeepsIInv, FailureKeepsIInv DEF Register

\* The inductive invariant holds in every reachable state.
LEMMA RegistrationInvariant == Spec => []IInv
<1>1. IInv /\ [Next]_vars => IInv'
  <2> SUFFICES ASSUME IInv, [Next]_vars PROVE IInv'
    OBVIOUS
  <2>1. CASE UNCHANGED vars
    <3>1. PlacesAreConserved'
      BY <2>1, RegistrationsStay DEF IInv, PlacesAreConserved, vars, history
    <3> QED BY <2>1, <3>1 DEF IInv, TypeOK, LockIsSound, RegistrationsHaveEvents, RowsAreWhole,
                              vars, history
  <2> QED BY <2>1, AdminKeepsIInv, ImportKeepsIInv, RegisterKeepsIInv DEF Next
<1> QED BY <1>1, InitIInv, PTL DEF Spec

(***************************************************************************)
(* Rows, requests and imports keep their types.                            *)
(***************************************************************************)
THEOREM RegistrationTypeCorrect == Spec => []TypeOK
<1>1. IInv => TypeOK
  BY DEF IInv
<1> QED BY <1>1, RegistrationInvariant, PTL

(***************************************************************************)
(* No place of an event is lost or made up, however requests race for the  *)
(* last one, fail after the decrement, or meet updates and deletions; only *)
(* an import may overwrite the count.                                      *)
(***************************************************************************)
THEOREM PlacesAreNeverLost == Spec => []PlacesAreConserved
<1>1. IInv => PlacesAreConserved
  BY DEF IInv
<1> QED BY <1>1, RegistrationInvariant, PTL

-----------------------------------------------------------------------------
(* Doubles. *)

\* The races of two requests stay on record as long as both have their seats.
LEMMA SeatsKept ==
    ASSUME SeatsNeedRaces, together' = together,
           \A o \in Requests : Seated(o)' =>
                Seated(o) /\ reg'[o].event = reg[o].event /\ reg'[o].user = reg[o].user
    PROVE  SeatsNeedRaces'
BY DEF SeatsNeedRaces, SameSeat

\* Neither the rows nor the imports under way become more.
LEMMA ImportsKept ==
    ASSUME ImportsNeedRaces, crossed' = crossed, Inserting' \subseteq Inserting,
           Imported' \subseteq Imported
    PROVE  ImportsNeedRaces'
BY DEF ImportsNeedRaces

LEMMA AdminKeepsRaces ==
    ASSUME IInv, SeatsNeedRaces, ImportsNeedRaces, Admin
    PROVE  SeatsNeedRaces' /\ ImportsNeedRaces'
<1>1. registered' \subseteq registered /\ UNCHANGED <<reg, import, together, crossed>>
  BY DEF Admin, CreateEvent, UpdateEvent, DeleteEvent, history
<1>2. SeatsNeedRaces'
  BY <1>1, SeatsKept DEF Seated
<1>3. Inserting' \subseteq Inserting
  BY <1>1 DEF Inserting
<1>4. Imported' \subseteq Imported
  <2> SUFFICES ASSUME NEW f \in Events, event'[f].exists, event'[f].external
               PROVE  event[f].exists /\ event[f].external
    BY DEF Imported
  <2>1. ASSUME NEW e \in Events, NEW capacity \in Capacities, CreateEvent(e, capacity)
        PROVE  event[f].exists /\ event[f].external
    <3>1. event' = [event EXCEPT ![e] = NewEvent(capacity, FALSE)]
          /\ NewEvent(capacity, FALSE) \in EventRows /\ ~NewEvent(capacity, FALSE).external
      BY <2>1, EventAssumption DEF CreateEvent, NewEvent, EventRows
    <3> QED BY <3>1, RowReplaced DEF IInv, OnlyRow
  <2>2. ASSUME NEW e \in Events, NEW capacity \in Capacities,
               NEW status \in {"ACTIVE", "CANCELLED"}, UpdateEvent(e, capacity, status)
        PROVE  event[f].exists /\ event[f].external
    <3>1. event' = [event EXCEPT ![e].maxCapacity = capacity, ![e].status = status]
      BY <2>2 DEF UpdateEvent
    <3> QED BY <3>1, UpdateWrites DEF IInv
  <2>3. ASSUME NEW e \in Events, DeleteEvent(e) PROVE event[f].exists /\ event[f].external
    <3>1. event' = [event EXCEPT ![e] = Absent] /\ Absent \in EventRows /\ ~Absent.exists
      BY <2>3 DEF DeleteEvent, Absent, EventRows
    <3> QED BY <3>1, RowReplaced DEF IInv, OnlyRow
  <2> QED BY <2>1, <2>2, <2>3 DEF Admin
<1> QED BY <1>1, <1>2, <1>3, <1>4, ImportsKept

LEMMA ImportKeepsRaces ==
    ASSUME IInv, SeatsNeedRaces, ImportsNeedRaces, NEW i \in Imports, Import(i)
    PROVE  SeatsNeedRaces' /\ ImportsNeedRaces'
<1>1. UNCHANGED <<registered, reg, together>>
  BY DEF Import, ImportLook, ImportUpdate, ImportCreate, ImportFails, history
<1>2. SeatsNeedRaces'
  BY <1>1, SeatsKept DEF Seated
<1>3. import \in [Imports -> [step : {"idle", "looked"}, found : Events \cup {NoEvent}]]
  BY DEF IInv, TypeOK
<1>4. CASE ImportLook(i)
  <2>1. PICK found \in (IF Found = {} THEN {NoEvent} ELSE Found) :
            import' = [import EXCEPT ![i] = [step |-> "looked", found |-> found]]
    BY <1>4 DEF ImportLook
  <2>2. /\ event' = event /\ i \notin Inserting
        /\ crossed' = IF Found = {} THEN Inserting # {} ELSE crossed
    BY <1>4 DEF ImportLook, Inserting
  <2>3. Imported' = Imported
    BY <2>2 DEF Imported
  <2>4. CASE Found = {}
    <3>1. Inserting' \subseteq Inserting \cup {i}
      BY <1>3, <2>1 DEF Inserting
    <3> QED BY <1>2, <2>2, <2>3, <2>4, <3>1 DEF ImportsNeedRaces, Found
  <2>5. CASE Found # {}
    <3>1. found # NoEvent
      BY <2>1, <2>5, EventAssumption DEF Found, Imported
    <3>2. Inserting' \subseteq Inserting
      BY <1>3, <2>1, <3>1 DEF Inserting
    <3> QED BY <1>2, <2>2, <2>3, <2>5, <3>2, ImportsKept
  <2> QED BY <1>2, <2>4, <2>5
<1>5. ASSUME NEW capacity \in Capacities, ImportUpdate(i, capacity) PROVE ImportsNeedRaces'
  <2> DEFINE e == import[i].found
  <2>1. /\ e \in Events
        /\ event' = [event EXCEPT ![e].maxCapacity = capacity, ![e].remainingSpots = capacity]
        /\ import' = [import EXCEPT ![i] = IdleImport]
        /\ crossed' = crossed
    BY <1>3, <1>5 DEF ImportUpdate
  <2>2. Inserting' \subseteq Inserting
    BY <1>3, <2>1 DEF Inserting, IdleImport
  <2> HIDE DEF e
  <2>3. Imported' \subseteq Imported
    <3>1. Capacities \subseteq Int
      BY EventAssumption
    <3>2. \A f \in Events : event'[f].exists = event[f].exists
                            /\ event'[f].external = event[f].external
      BY <2>1, <3>1, ImportWrites DEF IInv
    <3> QED BY <3>2 DEF Imported
  <2> QED BY <2>1, <2>2, <2>3, ImportsKept
<1>6. ASSUME NEW e \in Events, NEW capacity \in Capacities, ImportCreate(i, e, capacity)
      PROVE  ImportsNeedRaces'
  <2>1. /\ import[i].step = "looked" /\ import[i].found = NoEvent
        /\ event' = [event EXCEPT ![e] = NewEvent(capacity, TRUE)]
        /\ import' = [import EXCEPT ![i] = IdleImport]
        /\ crossed' = crossed
    BY <1>6 DEF ImportCreate
  <2>2. i \in Inserting
    <3>1. import[i] \in [step : {"idle", "looked"}, found : Events \cup {NoEvent}]
      BY <1>3
    <3> QED BY <2>1, <3>1 DEF Inserting
  <2>3. Inserting' \subseteq Inserting \ {i}
    BY <1>3, <2>1 DEF Inserting, IdleImport
  <2>4. Imported' \subseteq Imported \cup {e}
    <3>1. NewEvent(capacity, TRUE) \in EventRows
      BY EventAssumption DEF NewEvent, EventRows
    <3> QED BY <2>1, <3>1, RowReplaced DEF IInv, OnlyRow, Imported
  <2> QED BY <2>1, <2>2, <2>3, <2>4 DEF ImportsNeedRaces
<1>7. CASE ImportFails(i)
  <2>1. Inserting' \subseteq Inserting
    BY <1>3, <1>7 DEF ImportFails, Inserting, IdleImport
  <2>2. Imported' \subseteq Imported /\ crossed' = crossed
    BY <1>7 DEF ImportFails, Imported, history
  <2> QED BY <1>2, <2>1, <2>2, ImportsKept
<1> QED BY <1>2, <1>4, <1>5, <1>6, <1>7 DEF Import

\* A request that is before the check again, or for the first time.
LEMMA RaceLost ==
    ASSUME IInv, SeatsNeedRaces, NEW r \in Requests, reg[r].step # "done",
           NEW next \in RequestRows, OnlyRequest(r, next), next.step \in {"idle", "read"},
           UNCHANGED <<registered, together>>
    PROVE  SeatsNeedRaces'
<1>1. r \notin registered
  BY DEF IInv, RegistrationsHaveEvents
<1>2. ASSUME NEW o \in Requests, Seated(o)'
      PROVE  Seated(o) /\ reg'[o].event = reg[o].event /\ reg'[o].user = reg[o].user
  <2>1. o # r
    BY <1>1, <1>2 DEF OnlyRequest, Seated
  <2> QED BY <1>2, <2>1 DEF OnlyRequest, Seated
<1> QED BY <1>2, SeatsKept

\* A request past the check moves on for the same seat.
LEMMA RaceKept ==
    ASSUME SeatsNeedRaces, NEW r \in Requests, Seated(r),
           NEW next, OnlyRequest(r, next),
           next.event = reg[r].event, next.user = reg[r].user,
           registered' \subseteq registered \cup {r}, together' = together
    PROVE  SeatsNeedRaces'
<1>1. ASSUME NEW o \in Requests, Seated(o)'
      PROVE  Seated(o) /\ reg'[o].event = reg[o].event /\ reg'[o].user = reg[o].user
  BY <1>1 DEF OnlyRequest, Seated
<1> QED BY <1>1, SeatsKept

LEMMA RegisterKeepsRaces ==
    ASSUME IInv, SeatsNeedRaces, ImportsNeedRaces, NEW r \in Requests, Register(r)
    PROVE  SeatsNeedRaces' /\ ImportsNeedRaces'
<1>1. reg[r].step # "done" => r \notin registered
  BY DEF IInv, RegistrationsHaveEvents
<1>2. ImportsNeedRaces'
  <2>1. import' = import /\ crossed' = crossed
    BY DEF Register, RegisterRead, RegisterCheck, RegisterTake, RegisterCommit, RegisterFails,
           history
  <2>2. \A f \in Events : event'[f].exists = event[f].exists
                          /\ event'[f].external = event[f].external
    <3>1. CASE event' = event
      BY <3>1
    <3>2. CASE RegisterCommit(r) /\ event' # event
      <4>1. /\ event' = [event EXCEPT ![reg[r].event].remainingSpots = reg[r].left]
            /\ reg[r].event \in Events /\ reg[r].left \in Int
        BY <3>2 DEF RegisterCommit, IInv, LockIsSound, TypeOK
      <4> QED BY <4>1, CommitWrites DEF IInv
    <3> QED BY <3>1, <3>2 DEF Register, RegisterRead, RegisterCheck, RegisterTake, RegisterFails,
                              Rollback
  <2>3. Inserting' \subseteq Inserting /\ Imported' \subseteq Imported
    BY <2>1, <2>2 DEF Inserting, Imported
  <2> QED BY <2>1, <2>3, ImportsKept
<1>4. ASSUME NEW u \in Users, NEW e \in Events, RegisterRead(r, u, e) PROVE SeatsNeedRaces'
  <2> DEFINE next == [step |-> "read", event |-> e, user |-> u, left |-> 0]
  <2>1. /\ reg[r].step = "idle" /\ reg' = [reg EXCEPT ![r] = next]
        /\ UNCHANGED <<registered, together>>
    BY <1>4 DEF RegisterRead, history
  <2>2. next \in RequestRows /\ next.step = "read"
    BY DEF RequestRows
  <2> HIDE DEF next
  <2>3. OnlyRequest(r, next)
    BY <2>1, <2>2, RequestReplaced DEF IInv
  <2> QED BY <2>1, <2>2, <2>3, RaceLost
<1>5. ASSUME reg[r].step # "done", reg' = [reg EXCEPT ![r] = IdleRequest],
             UNCHANGED <<registered, together>>
      PROVE  SeatsNeedRaces'
  <2>1. OnlyRequest(r, IdleRequest)
    BY <1>5, IdleIsOpen, RequestReplaced DEF IInv
  <2> QED BY <1>5, <2>1, IdleIsOpen, RaceLost
<1>6. CASE RegisterCheck(r)
  <2>1. CASE AlreadyRegistered(r)
    BY <1>2, <1>5, <1>6, <2>1 DEF RegisterCheck
  <2>2. CASE ~AlreadyRegistered(r)
    <3>1. /\ reg[r].step = "read" /\ reg' = [reg EXCEPT ![r].step = "checked"]
          /\ together' = together \cup {{r, o} : o \in PastCheck(r)}
          /\ registered' = registered
      BY <1>6, <2>2 DEF RegisterCheck
    <3>2. /\ reg'[r].event = reg[r].event /\ reg'[r].user = reg[r].user
          /\ \A o \in Requests \ {r} : reg'[o] = reg[o]
      BY <3>1, StepWrites DEF IInv, OnlyRequest
    <3>3. ASSUME NEW o \in Requests, o # r, Seated(o), SameSeat(r, o)
          PROVE  {r, o} \in together'
      <4>1. o \in PastCheck(r)
        BY <2>2, <3>3 DEF AlreadyRegistered, PastCheck, Seated
      <4> QED BY <3>1, <4>1
    <3>4. ASSUME NEW p \in Requests, NEW o \in Requests, p # o, Seated(p)', Seated(o)',
                 SameSeat(p, o)'
          PROVE  {p, o} \in together'
      <4>1. CASE p # r /\ o # r
        BY <3>1, <3>2, <3>4, <4>1 DEF SeatsNeedRaces, Seated, SameSeat
      <4>2. CASE p = r
        BY <3>1, <3>2, <3>3, <3>4, <4>2 DEF Seated, SameSeat
      <4>3. CASE o = r
        <5>1. {r, p} \in together'
          BY <3>1, <3>2, <3>3, <3>4, <4>3 DEF Seated, SameSeat
        <5>2. {r, p} = {p, o}
          BY <4>3
        <5> QED BY <5>1, <5>2
      <4> QED BY <4>1, <4>2, <4>3
    <3> QED BY <1>2, <3>4 DEF SeatsNeedRaces
  <2> QED BY <2>1, <2>2
<1>7. CASE RegisterTake(r)
  <2>1. /\ reg[r].step = "checked" /\ UNCHANGED <<registered, together>>
        /\ reg[r].event \in Events
    BY <1>7 DEF RegisterTake, history, IInv, RowsAreWhole
  <2>2. CASE reg' = [reg EXCEPT ![r].step = "taken",
                                ![r].left = event[reg[r].event].remainingSpots - 1]
    <3> DEFINE n == event[reg[r].event].remainingSpots - 1
               next == [step |-> "taken", event |-> reg[r].event, user |-> reg[r].user, left |-> n]
    <3>1. n \in Int
      BY <2>1 DEF IInv, TypeOK
    <3>3. OnlyRequest(r, next)
      BY <2>2, <3>1, TakeWrites DEF IInv
    <3>4. next.event = reg[r].event /\ next.user = reg[r].user
      OBVIOUS
    <3> HIDE DEF next
    <3> QED BY <1>2, <2>1, <3>3, <3>4, RaceKept DEF Seated
  <2> QED BY <1>2, <1>5, <1>7, <2>1, <2>2 DEF RegisterTake
<1>8. CASE RegisterCommit(r)
  <2>1. reg[r].step = "taken" /\ together' = together
    BY <1>8 DEF RegisterCommit, history
  <2>2. CASE registered' = registered \cup {r} /\ reg' = [reg EXCEPT ![r].step = "done"]
    <3> DEFINE next == [step |-> "done", event |-> reg[r].event, user |-> reg[r].user,
                        left |-> reg[r].left]
    <3>2. OnlyRequest(r, next)
      BY <2>2, StepWrites DEF IInv
    <3>3. next.event = reg[r].event /\ next.user = reg[r].user
      OBVIOUS
    <3> HIDE DEF next
    <3> QED BY <1>2, <2>1, <2>2, <3>2, <3>3, RaceKept DEF Seated
  <2> QED BY <1>2, <1>5, <1>8, <2>1, <2>2 DEF RegisterCommit
<1>9. CASE RegisterFails(r)
  BY <1>2, <1>5, <1>9 DEF RegisterFails, history
<1> QED BY <1>2, <1>4, <1>6, <1>7, <1>8, <1>9 DEF Register

(***************************************************************************)
(* A user has two registrations for an event only when both requests were  *)
(* between check and insert at once, and an external event two rows only   *)
(* when two imports had both found none.                                   *)
(***************************************************************************)
THEOREM DoublesComeFromRaces == Spec => []DoublesNeedRaces
<1> DEFINE Races == SeatsNeedRaces /\ ImportsNeedRaces
<1>1. Init => Races
  <2> SUFFICES ASSUME Init PROVE Races
    OBVIOUS
  <2>1. \A o \in Requests : ~Seated(o)
    BY DEF Init, IdleRequest, Seated
  <2>2. Inserting = {} /\ Imported = {}
    BY DEF Init, IdleImport, Absent, Inserting, Imported
  <2> QED BY <2>1, <2>2 DEF SeatsNeedRaces, ImportsNeedRaces
<1>2. IInv /\ Races /\ [Next]_vars => Races'
  <2> SUFFICES ASSUME IInv, Races, [Next]_vars PROVE Races'
    OBVIOUS
  <2>1. CASE UNCHANGED vars
    BY <2>1 DEF vars, history, SeatsNeedRaces, ImportsNeedRaces, Seated, SameSeat, Inserting,
                Imported
  <2> QED BY <2>1, AdminKeepsRaces, ImportKeepsRaces, RegisterKeepsRaces DEF Next
<1>3. IInv /\ Races => DoublesNeedRaces
  <2> SUFFICES ASSUME IInv, Races PROVE DoublesNeedRaces
    OBVIOUS
  <2>1. \A r, o \in registered : r # o /\ SameSeat(r, o) => {r, o} \in together
    BY DEF IInv, TypeOK, SeatsNeedRaces, Seated
  <2>2. ASSUME ~crossed PROVE ~(Cardinality(Imported) > 1)
    <3>1. CASE Imported = {}
      BY <3>1, FS_EmptySet
    <3>2. CASE \E e : Imported = {e}
      BY <3>2, FS_Singleton
    <3>3. \A e, f \in Imported : e = f
      BY <2>2 DEF ImportsNeedRaces
    <3>4. Imported = {} \/ \E e : Imported = {e}
      BY <3>3
    <3> QED BY <3>1, <3>2, <3>4
  <2> QED BY <2>1, <2>2 DEF DoublesNeedRaces
<1> QED BY <1>1, <1>2, <1>3, RegistrationInvariant, PTL DEF Spec

-----------------------------------------------------------------------------
(* The refinement of the box office, step by step. *)

\* Nothing that the box office sees has changed.
LEMMA OfficeStutters ==
    ASSUME \A e \in Events : event'[e].remainingSpots = event[e].remainingSpots,
           registered' = registered, \A o \in registered : reg'[o] = reg[o]
    PROVE  UNCHANGED Office!vars
BY RegistrationsStay DEF Office!vars

\* The places of one event are set anew.
LEMMA OfficeOffers ==
    ASSUME NEW e \in Events, NEW capacity \in Capacities,
           event'[e].remainingSpots = capacity,
           \A f \in Events \ {e} : event'[f].remainingSpots = event[f].remainingSpots,
           registered' = registered, \A o \in registered : reg'[o] = reg[o]
    PROVE  Office!Next
<1>1. Office!Offer(e, capacity)
  BY RegistrationsStay DEF Office!Offer
<1> QED BY <1>1 DEF Office!Next

\* One place of one event is sold.
LEMMA OfficeSells ==
    ASSUME RegistrationsHaveEvents, NEW e \in Events, event[e].remainingSpots > 0,
           \A f \in Events : event'[f].remainingSpots =
                IF f = e THEN event[e].remainingSpots - 1 ELSE event[f].remainingSpots,
           \A f \in Events : Cardinality(Registrations(f))' =
                Cardinality(Registrations(f)) + (IF e = f THEN 1 ELSE 0)
    PROVE  Office!Next
<1> DEFINE left == [f \in Events |-> event[f].remainingSpots]
           sold == [f \in Events |-> Cardinality(Registrations(f))]
<1>1. left' = [left EXCEPT ![e] = @ - 1]
  OBVIOUS
<1>2. sold' = [sold EXCEPT ![e] = @ + 1]
  <2>1. \A f \in Events : Cardinality(Registrations(f)) \in Nat
    BY RegistrationsAreFinite
  <2>2. \A f \in Events \ {e} : sold'[f] = sold[f]
    BY <2>1
  <2> QED BY <2>1, <2>2
<1>3. left[e] > 0
  OBVIOUS
<1>4. Office!Sell(e)
  BY <1>1, <1>2, <1>3 DEF Office!Sell
<1> QED BY <1>4 DEF Office!Next

LEMMA AdminImplementsOffice ==
    ASSUME IInv, Admin
    PROVE  [Office!Next]_(Office!vars)
<1>1. ASSUME NEW e \in Events, NEW capacity \in Capacities, CreateEvent(e, capacity)
      PROVE  Office!Next
  <2>1. /\ event' = [event EXCEPT ![e] = NewEvent(capacity, FALSE)]
        /\ NewEvent(capacity, FALSE) \in EventRows
        /\ NewEvent(capacity, FALSE).remainingSpots = capacity
        /\ UNCHANGED <<registered, reg>>
    BY <1>1, EventAssumption DEF CreateEvent, NewEvent, EventRows
  <2> QED BY <2>1, RowReplaced, OfficeOffers DEF IInv, OnlyRow
<1>2. ASSUME NEW e \in Events, NEW capacity \in Capacities, NEW status \in {"ACTIVE", "CANCELLED"},
             UpdateEvent(e, capacity, status)
      PROVE  UNCHANGED Office!vars
  <2>1. /\ event' = [event EXCEPT ![e].maxCapacity = capacity, ![e].status = status]
        /\ UNCHANGED <<registered, reg>>
    BY <1>2 DEF UpdateEvent
  <2> QED BY <2>1, UpdateWrites, OfficeStutters DEF IInv
<1>3. ASSUME NEW e \in Events, DeleteEvent(e) PROVE Office!Next
  <2>1. /\ event' = [event EXCEPT ![e] = Absent] /\ Absent \in EventRows
        /\ Absent.remainingSpots = 0
        /\ registered' = {r \in registered : reg[r].event # e} /\ reg' = reg
    BY <1>3 DEF DeleteEvent, Absent, EventRows
  <2>2. OnlyRow(e, Absent)
    BY <2>1, RowReplaced DEF IInv
  <2>3. Registrations(e)' = {} /\ \A f \in Events \ {e} : Registrations(f)' = Registrations(f)
    BY <2>1 DEF Registrations
  <2>4. Office!Close(e)
    <3>1. Cardinality(Registrations(e))' = 0
      BY <2>3, FS_EmptySet
    <3>2. \A f \in Events : event'[f].remainingSpots = IF f = e THEN 0 ELSE event[f].remainingSpots
      BY <2>1, <2>2 DEF OnlyRow
    <3>3. [f \in Events |-> event[f].remainingSpots]' =
              [[f \in Events |-> event[f].remainingSpots] EXCEPT ![e] = 0]
      BY <3>2
    <3>4. [f \in Events |-> Cardinality(Registrations(f))]' =
              [[f \in Events |-> Cardinality(Registrations(f))] EXCEPT ![e] = 0]
      BY <2>3, <3>1
    <3> QED BY <3>3, <3>4 DEF Office!Close
  <2> QED BY <2>4 DEF Office!Next
<1> QED BY <1>1, <1>2, <1>3 DEF Admin

LEMMA ImportImplementsOffice ==
    ASSUME IInv, NEW i \in Imports, Import(i)
    PROVE  [Office!Next]_(Office!vars)
<1>1. CASE ImportLook(i) \/ ImportFails(i)
  BY <1>1, OfficeStutters DEF ImportLook, ImportFails
<1>2. ASSUME NEW capacity \in Capacities, ImportUpdate(i, capacity) PROVE Office!Next
  <2> DEFINE e == import[i].found
  <2>1. /\ e \in Events
        /\ event' = [event EXCEPT ![e].maxCapacity = capacity, ![e].remainingSpots = capacity]
        /\ UNCHANGED <<registered, reg>>
    BY <1>2 DEF ImportUpdate, IInv, TypeOK
  <2>2. Capacities \subseteq Int
    BY EventAssumption
  <2> HIDE DEF e
  <2>3. TypeOK
    BY DEF IInv
  <2>4. \A f \in Events :
            event'[f].remainingSpots = IF f = e THEN capacity ELSE event[f].remainingSpots
    BY <2>1, <2>2, <2>3, ImportWrites
  <2>5. /\ event'[e].remainingSpots = capacity
        /\ \A f \in Events \ {e} : event'[f].remainingSpots = event[f].remainingSpots
    BY <2>1, <2>4
  <2> QED BY <2>1, <2>5, OfficeOffers
<1>3. ASSUME NEW e \in Events, NEW capacity \in Capacities, ImportCreate(i, e, capacity)
      PROVE  Office!Next
  <2>1. /\ event' = [event EXCEPT ![e] = NewEvent(capacity, TRUE)]
        /\ NewEvent(capacity, TRUE) \in EventRows
        /\ NewEvent(capacity, TRUE).remainingSpots = capacity
        /\ UNCHANGED <<registered, reg>>
    BY <1>3, EventAssumption DEF ImportCreate, NewEvent, EventRows
  <2> QED BY <2>1, RowReplaced, OfficeOffers DEF IInv, OnlyRow
<1> QED BY <1>1, <1>2, <1>3 DEF Import

LEMMA RegisterImplementsOffice ==
    ASSUME IInv, NEW r \in Requests, Register(r)
    PROVE  [Office!Next]_(Office!vars)
<1>1. ASSUME r \notin registered, registered' = registered, event' = event,
             \A o \in Requests \ {r} : reg'[o] = reg[o]
      PROVE  UNCHANGED Office!vars
  <2>1. \A o \in registered : o \in Requests \ {r}
    BY <1>1 DEF IInv, TypeOK
  <2> QED BY <1>1, <2>1, OfficeStutters
<1>2. reg[r].step # "done" => r \notin registered
  BY DEF IInv, RegistrationsHaveEvents
<1>3. reg \in [Requests -> RequestRows]
  BY TypedRows DEF IInv
<1>4. CASE (\E u \in Users, e \in Events : RegisterRead(r, u, e)) \/ RegisterFails(r)
  <2>1. reg[r].step # "done" /\ UNCHANGED <<event, registered>>
        /\ \E next : reg' = [reg EXCEPT ![r] = next]
    BY <1>4 DEF RegisterRead, RegisterFails, Rollback
  <2> QED BY <1>1, <1>2, <1>3, <2>1
<1>5. CASE RegisterCheck(r)
  <2>1. /\ reg[r].step = "read" /\ UNCHANGED <<event, registered>>
        /\ \/ reg' = [reg EXCEPT ![r] = IdleRequest]
           \/ reg' = [reg EXCEPT ![r].step = "checked"]
    BY <1>5 DEF RegisterCheck
  <2> QED BY <1>1, <1>2, <1>3, <2>1
<1>6. CASE RegisterTake(r)
  <2>1. /\ reg[r].step = "checked" /\ UNCHANGED <<event, registered>>
        /\ \/ reg' = [reg EXCEPT ![r] = IdleRequest]
           \/ reg' = [reg EXCEPT ![r].step = "taken",
                                 ![r].left = event[reg[r].event].remainingSpots - 1]
    BY <1>6 DEF RegisterTake
  <2> QED BY <1>1, <1>2, <1>3, <2>1
<1>7. CASE RegisterCommit(r)
  <2> DEFINE e == reg[r].event
  <2>1. /\ reg[r].step = "taken" /\ e \in Events /\ r \notin registered
        /\ reg[r].left = event[e].remainingSpots - 1
        /\ reg[r].left \in Int /\ event[e].remainingSpots \in Int
    BY <1>2, <1>7 DEF RegisterCommit, IInv, LockIsSound, TypeOK
  <2>2. CASE /\ PlaceLeft(r)
             /\ event' = [event EXCEPT ![e].remainingSpots = reg[r].left]
             /\ registered' = registered \cup {r}
             /\ reg' = [reg EXCEPT ![r].step = "done"]
    <3>1. \A f \in Events : event'[f].remainingSpots =
              IF f = e THEN event[e].remainingSpots - 1 ELSE event[f].remainingSpots
      <4>1. TypeOK
        BY DEF IInv
      <4>2. \A f \in Events : event'[f].remainingSpots =
                IF f = e THEN reg[r].left ELSE event[f].remainingSpots
        BY <2>1, <2>2, <4>1, CommitWrites
      <4> QED BY <2>1, <4>2
    <3>2. reg'[r].event = reg[r].event /\ \A o \in registered : reg'[o] = reg[o]
      BY <2>1, <2>2, StepWrites DEF IInv, TypeOK, OnlyRequest
    <3>3. \A f \in Events : Cardinality(Registrations(f))' =
              Cardinality(Registrations(f)) + (IF e = f THEN 1 ELSE 0)
      BY <2>1, <2>2, <3>2, RegistrationCounts DEF IInv
    <3>4. event[e].remainingSpots > 0
      BY <2>1, <2>2 DEF PlaceLeft
    <3> HIDE DEF e
    <3> QED BY <2>1, <3>1, <3>3, <3>4, OfficeSells DEF IInv
  <2>3. CASE reg' = [reg EXCEPT ![r] = IdleRequest] /\ UNCHANGED <<event, registered>>
    BY <1>1, <1>3, <2>1, <2>3
  <2> QED BY <1>7, <2>2, <2>3 DEF RegisterCommit
<1> QED BY <1>4, <1>5, <1>6, <1>7 DEF Register

(***************************************************************************)
(* Registration sells places as a box office does, one at a time and only  *)
(* while there are any, under every interleaving of requests, imports and  *)
(* administrators.                                                         *)
(***************************************************************************)
THEOREM RegistrationSellsPlaces == Spec => ImplementsBoxOffice
<1>1. Init => Office!Init
  <2> SUFFICES ASSUME Init PROVE Office!Init
    OBVIOUS
  <2>1. \A e \in Events : event[e].remainingSpots = 0
    BY DEF Init, Absent
  <2>2. \A e \in Events : Registrations(e) = {}
    BY DEF Init, Registrations
  <2> QED BY <2>1, <2>2, FS_EmptySet DEF Office!Init
<1>2. IInv /\ [Next]_vars => [Office!Next]_(Office!vars)
  <2> SUFFICES ASSUME IInv, [Next]_vars PROVE [Office!Next]_(Office!vars)
    OBVIOUS
  <2>1. CASE UNCHANGED vars
    BY <2>1, OfficeStutters DEF vars
  <2> QED BY <2>1, AdminImplementsOffice, ImportImplementsOffice, RegisterImplementsOffice DEF Next
<1> QED BY <1>1, <1>2, RegistrationInvariant, PTL DEF Spec, ImplementsBoxOffice, Office!Spec
=============================================================================
