------------------------- MODULE AccommodationProofs -------------------------
(***************************************************************************)
(* Proofs about Accommodation, for any numbers of properties, requests,    *)
(* bookings and stays: overrides stay apart but for the race of two        *)
(* requests between check and insert, a moderation that stops between its  *)
(* writes leaves no other gap than its own, and the price of a stay is the *)
(* sum over its nights.                                                    *)
(***************************************************************************)
EXTENDS Accommodation, FiniteSetTheorems, TLAPS

\* Overrides and requests have their shape.
Shape ==
    /\ overrides \in [Properties -> Seq(Overrides)]
    /\ request = [r \in Requests |-> [step |-> request[r].step, property |-> request[r].property,
                                      data |-> request[r].data]]
    /\ \A r \in Requests :
        request[r].step # "idle" => request[r].property \in Properties
    /\ \A r \in Requests : request[r].step = "insert" => request[r].data \in Overrides

\* What a request is about to insert touches nothing that was inserted.
InsertsAreFree ==
    \A r \in Requests :
        (request[r].step = "insert" /\ <<"availability", request[r].property>> \notin raced)
            => ~Overlapping(request[r].property, request[r].data)

OverlapInv == Shape /\ InsertsAreFree /\ OverlapNeedsRace

\* Touching goes both ways.
LEMMA TouchesIsSymmetric ==
    ASSUME NEW a \in Overrides, NEW b \in Overrides
    PROVE  Touches(a, b) <=> Touches(b, a)
BY AccommodationAssumption DEF Touches

\* Initially there is no override.
LEMMA InitOverlapInv == Init => OverlapInv
BY DEF Init, OverlapInv, Shape, InsertsAreFree, OverlapNeedsRace, NotMade

\* A request takes a next step that is no insert.
LEMMA ContinueKeepsShape ==
    ASSUME Shape, NEW r \in Requests, NEW to \in {"create", "notify"} \cup Ended,
           request[r].step # "idle",
           request' = [request EXCEPT ![r].step = to],
           overrides' \in [Properties -> Seq(Overrides)]
    PROVE  Shape'
<1>1. \A s \in Requests : /\ request'[s].property = request[s].property
                          /\ request'[s].data = request[s].data
                          /\ request'[s].step = IF s = r THEN to ELSE request[s].step
  BY DEF Shape
<1>2. request' = [s \in Requests |-> [step |-> request'[s].step, property |-> request'[s].property,
                                      data |-> request'[s].data]]
  <2>1. request'[r] = [step |-> to, property |-> request[r].property, data |-> request[r].data]
    BY DEF Shape
  <2>2. request' = [request EXCEPT ![r] = request'[r]]
    BY DEF Shape
  <2> QED BY <2>1, <2>2 DEF Shape
<1> QED BY <1>1, <1>2 DEF Shape, Ended

\* A step that inserts nothing, passes no check and forgets no race.
LEMMA OthersKeepOverlapInv ==
    ASSUME OverlapInv, overrides' = overrides, raced \subseteq raced', Shape',
           \A r \in Requests : request'[r].step = "insert" => request'[r] = request[r]
    PROVE  OverlapInv'
<1> USE DEF OverlapInv
<1>1. InsertsAreFree'
  BY DEF InsertsAreFree, Overlapping, Shape
<1>2. OverlapNeedsRace'
  BY DEF OverlapNeedsRace
<1> QED BY <1>1, <1>2

\* A request that passes the check finds no override that touches its own.
LEMMA CheckKeepsOverlapInv ==
    ASSUME OverlapInv, NEW r \in Requests, NEW p \in Properties, NEW override \in Overrides,
           AvailabilityCheck(r, p, override)
    PROVE  OverlapInv'
<1> USE DEF OverlapInv, AvailabilityCheck, Begin
<1>1. Shape'
  BY DEF Shape
<1>2. InsertsAreFree'
  <2>1. ASSUME NEW s \in Requests, request'[s].step = "insert",
               <<"availability", request'[s].property>> \notin raced'
        PROVE  ~Overlapping(request[s].property, request[s].data)'
    <3>1. CASE s = r
      BY <2>1, <3>1 DEF Overlapping, Shape
    <3>2. CASE s # r
      BY <2>1, <3>2 DEF Overlapping, Shape, InsertsAreFree
    <3> QED BY <3>1, <3>2
  <2> QED BY <2>1 DEF InsertsAreFree
<1>3. OverlapNeedsRace'
  BY DEF OverlapNeedsRace
<1> QED BY <1>1, <1>2, <1>3

\* An insert disturbs the others only if they touch, and then the race is noted.
LEMMA InsertKeepsOverlapInv ==
    ASSUME OverlapInv, NEW r \in Requests, AvailabilityInsert(r)
    PROVE  OverlapInv'
<1> DEFINE p == request[r].property
           o == request[r].data
<1> USE DEF OverlapInv
<1>1. /\ request[r].step = "insert" /\ p \in Properties /\ o \in Overrides
      /\ overrides[p] \in Seq(Overrides)
  BY DEF AvailabilityInsert, Continue, Shape
<1>2. /\ overrides' = [overrides EXCEPT ![p] = Append(overrides[p], o)]
      /\ request' = [request EXCEPT ![r].step = "done"]
      /\ raced \subseteq raced'
  BY DEF AvailabilityInsert, Continue
<1>3. Shape'
  <2>1. Append(overrides[p], o) \in Seq(Overrides)
    BY <1>1
  <2>2. overrides' \in [Properties -> Seq(Overrides)]
    BY <1>1, <1>2, <2>1 DEF Shape
  <2> QED BY <1>1, <1>2, <2>2, ContinueKeepsShape DEF Shape, Ended
<1>4. InsertsAreFree'
  <2>1. ASSUME NEW s \in Requests, request'[s].step = "insert",
               <<"availability", request'[s].property>> \notin raced'
        PROVE  ~Overlapping(request[s].property, request[s].data)'
    <3>1. s # r /\ request'[s] = request[s] /\ request[s].data \in Overrides
          /\ request[s].property \in Properties
      BY <1>2, <2>1 DEF Shape
    <3>2. ~Overlapping(request[s].property, request[s].data)
      BY <1>2, <2>1, <3>1 DEF InsertsAreFree
    <3>3. CASE request[s].property # p
      BY <1>1, <1>2, <3>1, <3>2, <3>3 DEF Overlapping, Shape
    <3>4. CASE request[s].property = p
      <4>1. ~Touches(request[s].data, o)
        BY <1>2, <2>1, <3>1, <3>4 DEF AvailabilityInsert, InsertIsContested, Inserting
      <4>2. ~Touches(o, request[s].data)
        BY <1>1, <3>1, <4>1, TouchesIsSymmetric
      <4>3. overrides'[p] = Append(overrides[p], o)
        BY <1>1, <1>2 DEF Shape
      <4> QED BY <1>1, <3>1, <3>2, <3>4, <4>2, <4>3 DEF Overlapping
    <3> QED BY <3>3, <3>4
  <2> QED BY <2>1 DEF InsertsAreFree
<1>5. OverlapNeedsRace'
  <2>1. ASSUME NEW q \in Properties, <<"availability", q>> \notin raced',
               NEW i \in DOMAIN overrides'[q], NEW j \in DOMAIN overrides'[q], i # j
        PROVE  ~Touches(overrides'[q][i], overrides'[q][j])
    <3>1. CASE q # p
      BY <1>1, <1>2, <2>1, <3>1 DEF OverlapNeedsRace, Shape
    <3>2. CASE q = p
      <4>1. overrides'[p] = Append(overrides[p], o)
        BY <1>1, <1>2 DEF Shape
      <4>2. \A k \in DOMAIN overrides[p] : ~Touches(overrides[p][k], o) /\ ~Touches(o, overrides[p][k])
        <5>1. ~Overlapping(p, o)
          BY <1>1, <1>2, <2>1, <3>2 DEF InsertsAreFree
        <5>2. \A k \in DOMAIN overrides[p] : overrides[p][k] \in Overrides
          BY <1>1
        <5> QED BY <1>1, <5>1, <5>2, TouchesIsSymmetric DEF Overlapping
      <4>3. \A k, l \in DOMAIN overrides[p] : k # l => ~Touches(overrides[p][k], overrides[p][l])
        BY <1>1, <1>2, <2>1, <3>2 DEF OverlapNeedsRace
      <4> QED BY <1>1, <2>1, <3>2, <4>1, <4>2, <4>3
    <3> QED BY <3>1, <3>2
  <2> QED BY <2>1 DEF OverlapNeedsRace
<1> QED BY <1>3, <1>4, <1>5

\* Every step keeps OverlapInv.
LEMMA NextOverlapInv == OverlapInv /\ [Next]_vars => OverlapInv'
<1> SUFFICES ASSUME OverlapInv, [Next]_vars PROVE OverlapInv'
  OBVIOUS
<1> USE DEF OverlapInv
<1>1. ASSUME NEW p \in Properties, NEW price \in BasePrices,
             CreateProperty(p, price) \/ UpdateProperty(p, price)
      PROVE  OverlapInv'
  BY <1>1, OthersKeepOverlapInv DEF CreateProperty, UpdateProperty, Shape
<1>2. ASSUME NEW r \in Requests, NEW p \in Properties, ToggleRead(r, p) PROVE OverlapInv'
  BY <1>2, OthersKeepOverlapInv DEF ToggleRead, Begin, Shape
<1>3. ASSUME NEW r \in Requests, NEW p \in Properties, NEW override \in Overrides,
             AvailabilityCheck(r, p, override)
      PROVE  OverlapInv'
  BY <1>3, CheckKeepsOverlapInv
<1>4. ASSUME NEW r \in Requests, NEW p \in Properties, NEW status \in Statuses,
             ModerationUpdate(r, p, status)
      PROVE  OverlapInv'
  BY <1>4, OthersKeepOverlapInv DEF ModerationUpdate, Begin, Shape
<1>5. ASSUME NEW r \in Requests, NEW b \in Bookings, ReviewRead(r, b) PROVE OverlapInv'
  BY <1>5, OthersKeepOverlapInv, AccommodationAssumption DEF ReviewRead, Begin, Shape
<1>6. ASSUME NEW r \in Requests, Step(r) PROVE OverlapInv'
  <2>1. CASE AvailabilityInsert(r)
    BY <2>1, InsertKeepsOverlapInv
  <2>2. ASSUME overrides' = overrides, raced' = raced,
               NEW to \in {"create", "notify"} \cup Ended,
               request' = [request EXCEPT ![r].step = to],
               request[r].step # "idle"
        PROVE  OverlapInv'
    <3>1. Shape'
      BY <2>2, ContinueKeepsShape DEF Shape
    <3>2. \A s \in Requests : request'[s].step = "insert" => request'[s] = request[s]
      BY <2>2 DEF Shape, Ended
    <3> QED BY <2>2, <3>1, <3>2, OthersKeepOverlapInv
  <2>3. CASE ToggleWrite(r) \/ ModerationNotify(r) \/ ReviewCreate(r)
    BY <2>2, <2>3 DEF ToggleWrite, ModerationNotify, ReviewCreate, Continue, Ended
  <2>4. CASE ModerationLog(r)
    BY <2>2, <2>4 DEF ModerationLog, Continue, Ended
  <2>5. CASE ReviewCheck(r)
    BY <2>2, <2>5 DEF ReviewCheck, Continue, Ended
  <2>6. CASE RequestFails(r)
    <3>1. Stopped(request[r].step) \in Ended
      BY DEF Stopped, Ended
    <3> QED BY <2>2, <2>6, <3>1 DEF RequestFails
  <2> QED BY <1>6, <2>1, <2>3, <2>4, <2>5, <2>6 DEF Step
<1>7. ASSUME NEW p \in Properties, DeleteProperty(p) PROVE OverlapInv'
  BY <1>7, OthersKeepOverlapInv DEF DeleteProperty, Shape
<1>8. CASE UNCHANGED vars
  BY <1>8, OthersKeepOverlapInv DEF vars, Shape
<1> QED BY <1>1, <1>2, <1>3, <1>4, <1>5, <1>6, <1>7, <1>8 DEF Next

(***************************************************************************)
(* Overrides of a property touch only if two requests for them were both   *)
(* between check and insert.                                               *)
(***************************************************************************)
THEOREM OverridesStayApart == Spec => []OverlapNeedsRace
<1>1. OverlapInv => OverlapNeedsRace
  BY DEF OverlapInv
<1> QED BY <1>1, InitOverlapInv, NextOverlapInv, PTL DEF Spec

-----------------------------------------------------------------------------
(* Types and data.                                                         *)

LEMMA AlwaysShape == Spec => []Shape
<1>1. OverlapInv => Shape
  BY DEF OverlapInv
<1> QED BY <1>1, InitOverlapInv, NextOverlapInv, PTL DEF Spec

\* How far a request is, with the data that the step needs.
RequestsTyped ==
    \A r \in Requests :
        /\ request[r].step \in Steps
        /\ request[r].step \in {"log", "unlogged"} => request[r].data.status \in Statuses
        /\ request[r].step \in {"check", "create"} => request[r].data.bookingId \in Bookings

ListingRows == [isActive : BOOLEAN, basePrice : BasePrices \cup {0},
                listingStatus : {"NONE", "ACTIVE", "HIDDEN", "REMOVED"}]
LogActions == {"PROPERTY_ACTIVATED", "PROPERTY_HIDDEN", "PROPERTY_REMOVED"}

ListingTyped == listing \in [Properties -> ListingRows]
RecordsTyped ==
    /\ log \in [Properties -> Seq(LogActions)]
    /\ notices \in [Properties -> Nat]
    /\ reviews \in [Bookings -> {0, 1}]
    /\ faults \in 0 .. MaxFaults
    /\ raced \subseteq {"availability", "status"} \X Properties

Typed == RequestsTyped /\ ListingTyped /\ RecordsTyped

\* What a step does to a request; the others stay as they are.
OnlyRequest(r) == \A q \in Requests \ {r} : request'[q] = request[q]

LEMMA ContinueEffect ==
    ASSUME Shape, NEW r \in Requests, NEW from, NEW to, Continue(r, from, to)
    PROVE  /\ request[r].step = from
           /\ request'[r].step = to /\ request'[r].property = request[r].property
           /\ request'[r].data = request[r].data
           /\ OnlyRequest(r)
<1>1. request[r].step = from /\ request' = [request EXCEPT ![r].step = to]
  BY DEF Continue
<1>2. request = [q \in Requests |-> [step |-> request[q].step, property |-> request[q].property,
                                     data |-> request[q].data]]
  BY DEF Shape
<1>3. request[r] = [step |-> request[r].step, property |-> request[r].property,
                    data |-> request[r].data]
  BY <1>2
<1>4. request'[r] = [request[r] EXCEPT !.step = to]
  BY <1>1, <1>2
<1>5. \A q \in Requests \ {r} : request'[q] = request[q]
  BY <1>1, <1>2
<1> QED BY <1>1, <1>3, <1>4, <1>5 DEF OnlyRequest

LEMMA BeginEffect ==
    ASSUME Shape, NEW r \in Requests, NEW step, NEW p, NEW data, Begin(r, step, p, data)
    PROVE  /\ request[r].step = "idle" /\ Exists(p)
           /\ request'[r].step = step /\ request'[r].property = p /\ request'[r].data = data
           /\ OnlyRequest(r)
<1>1. /\ request' = [request EXCEPT ![r] = [step |-> step, property |-> p, data |-> data]]
      /\ request[r].step = "idle" /\ Exists(p)
  BY DEF Begin
<1>2. request = [q \in Requests |-> [step |-> request[q].step, property |-> request[q].property,
                                     data |-> request[q].data]]
  BY DEF Shape
<1> QED BY <1>1, <1>2 DEF OnlyRequest

\* A failed request is over and keeps where it stopped.
LEMMA FailsEffect ==
    ASSUME Shape, NEW r \in Requests, RequestFails(r)
    PROVE  /\ request[r].step \notin Ended \cup {"idle"}
           /\ request'[r].step = Stopped(request[r].step) /\ OnlyRequest(r)
           /\ request'[r].property = request[r].property
           /\ request'[r].data = request[r].data
           /\ faults' = faults + 1 /\ faults < MaxFaults
<1>1. /\ Continue(r, request[r].step, Stopped(request[r].step))
      /\ faults' = faults + 1 /\ faults < MaxFaults
      /\ request[r].step \notin Ended \cup {"idle"}
  BY DEF RequestFails, Continue
<1> QED BY <1>1, ContinueEffect

LEMMA RequestsStayTyped ==
    ASSUME AccommodationAssumption, Shape, Typed, [Next]_vars
    PROVE  RequestsTyped'
<1>t. RequestsTyped
  BY DEF Typed
<1>0. ASSUME NEW r \in Requests, OnlyRequest(r), NEW step, NEW data,
             request'[r].step = step, request'[r].data = data,
             \/ step \in {"write", "insert", "notify", "done", "untold"}
             \/ step \in {"log", "unlogged"} /\ data.status \in Statuses
             \/ step \in {"check", "create"} /\ data.bookingId \in Bookings
      PROVE  RequestsTyped'
  BY <1>0, <1>t DEF RequestsTyped, OnlyRequest, Steps, Ended
<1>1. ASSUME UNCHANGED request PROVE RequestsTyped'
  BY <1>1, <1>t DEF RequestsTyped
<1>2. ASSUME NEW r \in Requests, NEW p \in Properties, ToggleRead(r, p) PROVE RequestsTyped'
  BY <1>0, <1>2, BeginEffect DEF ToggleRead
<1>3. ASSUME NEW r \in Requests, NEW p \in Properties, NEW override \in Overrides,
             AvailabilityCheck(r, p, override)
      PROVE  RequestsTyped'
  BY <1>0, <1>3, BeginEffect DEF AvailabilityCheck
<1>4. ASSUME NEW r \in Requests, NEW p \in Properties, NEW status \in Statuses,
             ModerationUpdate(r, p, status)
      PROVE  RequestsTyped'
  <2> DEFINE d == [status |-> status]
  <2>1. d.status \in Statuses
    OBVIOUS
  <2>2. Begin(r, "log", p, d)
    BY <1>4 DEF ModerationUpdate
  <2> HIDE DEF d
  <2>3. request'[r].step = "log" /\ request'[r].data = d /\ OnlyRequest(r)
    BY <2>2, BeginEffect
  <2> QED BY <1>0, <2>1, <2>3
<1>5. ASSUME NEW r \in Requests, NEW b \in Bookings, ReviewRead(r, b) PROVE RequestsTyped'
  <2> DEFINE d == [bookingId |-> b]
  <2>1. d.bookingId \in Bookings
    OBVIOUS
  <2>2. Begin(r, "check", PropertyOf[b], d)
    BY <1>5 DEF ReviewRead
  <2> HIDE DEF d
  <2>3. request'[r].step = "check" /\ request'[r].data = d /\ OnlyRequest(r)
    BY <2>2, BeginEffect
  <2> QED BY <1>0, <2>1, <2>3
<1>6. ASSUME NEW r \in Requests, NEW from, NEW to \in {"notify", "done"}, Continue(r, from, to)
      PROVE  RequestsTyped'
  BY <1>0, <1>6, ContinueEffect
<1>7. ASSUME NEW r \in Requests, ReviewCheck(r) PROVE RequestsTyped'
  <2>1. PICK to \in {"create", "done"} : Continue(r, "check", to)
    BY <1>7 DEF ReviewCheck
  <2>2. request[r].data.bookingId \in Bookings
    BY <1>t, <2>1 DEF RequestsTyped, Continue
  <2>3. request'[r].step = to /\ request'[r].data = request[r].data /\ OnlyRequest(r)
    BY <2>1, ContinueEffect
  <2> QED BY <1>0, <2>1, <2>2, <2>3
<1>8. ASSUME NEW r \in Requests, RequestFails(r) PROVE RequestsTyped'
  <2>1. Stopped(request[r].step) \in {"done", "untold"} \/ request[r].step = "log"
    BY DEF Stopped
  <2>2. request[r].step = "log" => /\ Stopped(request[r].step) = "unlogged"
                                   /\ request[r].data.status \in Statuses
    BY <1>t DEF Stopped, RequestsTyped
  <2> QED BY <1>0, <1>8, <2>1, <2>2, FailsEffect
<1>9. ASSUME NEW r \in Requests, Step(r) PROVE RequestsTyped'
  BY <1>6, <1>7, <1>8, <1>9 DEF Step, ToggleWrite, AvailabilityInsert, ModerationLog, ModerationNotify,
     ReviewCreate
<1>10. CASE \/ \E p \in Properties, price \in BasePrices : CreateProperty(p, price) \/ UpdateProperty(p, price)
            \/ \E p \in Properties : DeleteProperty(p)
            \/ UNCHANGED vars
  BY <1>1, <1>10 DEF CreateProperty, UpdateProperty, DeleteProperty, vars
<1> QED BY <1>2, <1>3, <1>4, <1>5, <1>9, <1>10 DEF Next

\* The columns of a listing.
LEMMA ListingStaysTyped ==
    ASSUME AccommodationAssumption, Shape, Typed, [Next]_vars
    PROVE  ListingTyped'
<1>t. ListingTyped /\ RequestsTyped
  BY DEF Typed
<1>0. ASSUME UNCHANGED listing PROVE ListingTyped'
  BY <1>0, <1>t DEF ListingTyped
<1>1. ASSUME NEW p \in Properties, NEW price \in BasePrices,
             CreateProperty(p, price) \/ UpdateProperty(p, price)
      PROVE  ListingTyped'
  <2>1. CASE CreateProperty(p, price)
    BY <1>t, <2>1 DEF CreateProperty, ListingTyped, ListingRows
  <2>2. CASE UpdateProperty(p, price)
    BY <1>t, <2>2 DEF UpdateProperty, ListingTyped, ListingRows
  <2> QED BY <1>1, <2>1, <2>2
<1>2. ASSUME NEW p \in Properties, DeleteProperty(p) PROVE ListingTyped'
  BY <1>2, <1>t DEF DeleteProperty, ListingTyped, ListingRows
<1>3. ASSUME NEW r \in Requests, NEW p \in Properties, NEW status \in Statuses,
             ModerationUpdate(r, p, status)
      PROVE  ListingTyped'
  <2>1. ToUpperCase(status) \in {"ACTIVE", "HIDDEN", "REMOVED"}
    BY DEF Statuses, ToUpperCase
  <2>2. listing' = [listing EXCEPT ![p].listingStatus = ToUpperCase(status)]
    BY <1>3 DEF ModerationUpdate
  <2> QED BY <1>t, <2>1, <2>2 DEF ListingTyped, ListingRows
<1>4. ASSUME NEW r \in Requests, ToggleWrite(r) PROVE ListingTyped'
  <2>1. PICK active \in BOOLEAN :
            listing' = [listing EXCEPT ![request[r].property].isActive = active]
    BY <1>4 DEF ToggleWrite
  <2> QED BY <1>t, <2>1 DEF ListingTyped, ListingRows
<1>5. CASE \/ \E r \in Requests, p \in Properties : \/ ToggleRead(r, p)
                                                   \/ \E override \in Overrides : AvailabilityCheck(r, p, override)
           \/ \E r \in Requests, b \in Bookings : ReviewRead(r, b)
           \/ \E r \in Requests : \/ AvailabilityInsert(r) \/ ModerationLog(r) \/ ModerationNotify(r)
                                  \/ ReviewCheck(r) \/ ReviewCreate(r) \/ RequestFails(r)
           \/ UNCHANGED vars
  BY <1>0, <1>5 DEF ToggleRead, AvailabilityCheck, ReviewRead, AvailabilityInsert, ModerationLog,
     ModerationNotify, ReviewCheck, ReviewCreate, RequestFails, vars
<1> QED BY <1>1, <1>2, <1>3, <1>4, <1>5 DEF Next, Step

LEMMA RecordsStayTyped ==
    ASSUME AccommodationAssumption, Shape, Typed, [Next]_vars
    PROVE  RecordsTyped'
<1>t. RecordsTyped /\ RequestsTyped
  BY DEF Typed
<1>0. ASSUME UNCHANGED <<log, notices, reviews, faults, raced>> PROVE RecordsTyped'
  BY <1>0, <1>t DEF RecordsTyped
<1>1. ASSUME NEW r \in Requests, NEW p \in Properties, NEW status \in Statuses,
             ModerationUpdate(r, p, status)
      PROVE  RecordsTyped'
  BY <1>1, <1>t DEF ModerationUpdate, RecordsTyped
<1>2. ASSUME NEW r \in Requests, AvailabilityInsert(r) PROVE RecordsTyped'
  <2>1. request[r].property \in Properties
    BY <1>2 DEF AvailabilityInsert, Continue, Shape
  <2> QED BY <1>2, <1>t, <2>1 DEF AvailabilityInsert, RecordsTyped
<1>3. ASSUME NEW r \in Requests, ModerationLog(r) PROVE RecordsTyped'
  <2>1. request[r].property \in Properties /\ request[r].data.status \in Statuses
    BY <1>3, <1>t DEF ModerationLog, Continue, Shape, RequestsTyped
  <2>2. ActionMap(request[r].data.status) \in LogActions
    BY <2>1 DEF Statuses, ActionMap, LogActions
  <2>3. log' \in [Properties -> Seq(LogActions)]
    <3>1. Append(log[request[r].property], ActionMap(request[r].data.status)) \in Seq(LogActions)
      BY <1>t, <2>1, <2>2 DEF RecordsTyped
    <3> QED BY <1>3, <1>t, <2>1, <3>1 DEF ModerationLog, RecordsTyped
  <2> QED BY <1>3, <1>t, <2>3 DEF ModerationLog, RecordsTyped
<1>4. ASSUME NEW r \in Requests, ModerationNotify(r) PROVE RecordsTyped'
  <2>1. request[r].property \in Properties
    BY <1>4 DEF ModerationNotify, Continue, Shape
  <2> QED BY <1>4, <1>t, <2>1 DEF ModerationNotify, RecordsTyped
<1>5. ASSUME NEW r \in Requests, ReviewCreate(r) PROVE RecordsTyped'
  <2>1. PICK b \in Bookings : b = request[r].data.bookingId
    BY <1>5, <1>t DEF ReviewCreate, Continue, RequestsTyped
  <2>2. reviews' = IF reviews[b] = 0 THEN [reviews EXCEPT ![b] = reviews[b] + 1] ELSE reviews
    BY <1>5, <2>1 DEF ReviewCreate, KeyIsFree
  <2>3. reviews' \in [Bookings -> {0, 1}]
    BY <1>t, <2>2 DEF RecordsTyped
  <2> QED BY <1>5, <1>t, <2>3 DEF ReviewCreate, RecordsTyped
<1>6. ASSUME NEW r \in Requests, RequestFails(r) PROVE RecordsTyped'
  BY <1>6, <1>t, AccommodationAssumption DEF RequestFails, RecordsTyped
<1>7. CASE \/ \E p \in Properties, price \in BasePrices : CreateProperty(p, price) \/ UpdateProperty(p, price)
           \/ \E p \in Properties : DeleteProperty(p)
           \/ \E r \in Requests, p \in Properties : \/ ToggleRead(r, p)
                                                    \/ \E override \in Overrides : AvailabilityCheck(r, p, override)
           \/ \E r \in Requests, b \in Bookings : ReviewRead(r, b)
           \/ \E r \in Requests : ToggleWrite(r) \/ ReviewCheck(r)
           \/ UNCHANGED vars
  BY <1>0, <1>7 DEF CreateProperty, UpdateProperty, DeleteProperty, ToggleRead, AvailabilityCheck,
     ReviewRead, ToggleWrite, ReviewCheck, vars
<1> QED BY <1>1, <1>2, <1>3, <1>4, <1>5, <1>6, <1>7 DEF Next, Step

LEMMA StartsTyped == Init => Typed
<1> SUFFICES ASSUME Init PROVE Typed
  OBVIOUS
<1>1. RequestsTyped /\ ListingTyped
  BY DEF Init, RequestsTyped, ListingTyped, ListingRows, NotMade, Steps
<1>2. RecordsTyped
  BY AccommodationAssumption DEF Init, RecordsTyped
<1> QED BY <1>1, <1>2 DEF Typed

LEMMA ShapedAndTyped == Spec => [](Shape /\ Typed)
<1>1. Shape /\ Typed /\ [Next]_vars => Typed'
  BY AccommodationAssumption, RequestsStayTyped, ListingStaysTyped, RecordsStayTyped DEF Typed
<1> QED BY <1>1, StartsTyped, AlwaysShape, PTL DEF Spec

\* Listings, overrides, logs, reviews and requests keep their types; above all, a
\* booking has one review at most, however many requests pass the check.
THEOREM AccommodationTypeCorrect == Spec => []TypeOK
<1>1. Shape /\ Typed => TypeOK
  BY DEF Shape, Typed, RequestsTyped, ListingTyped, ListingRows, RecordsTyped, LogActions, TypeOK
<1> QED BY <1>1, ShapedAndTyped, PTL

-----------------------------------------------------------------------------
(* The log and the host.                                                   *)

\* The status is that of a request which failed before its log entry.
Excused(p) ==
    \E r \in Unlogged(p) : listing[p].listingStatus = ToUpperCase(request[r].data.status)

\* One administrator at a time is between the status and the log, if none met.
Follows(p) ==
    /\ ~Exists(p) => log[p] = <<>> /\ Logging(p) = {}
    /\ <<"status", p>> \notin raced =>
        /\ \A r, q \in Logging(p) : r = q
        /\ \A r \in Logging(p) : listing[p].listingStatus = ToUpperCase(request[r].data.status)
        /\ Exists(p) /\ Logging(p) = {} => listing[p].listingStatus = Reported(p) \/ Excused(p)

LogFollows == \A p \in Properties : Follows(p)

\* What is written for one property leaves the books of another alone.
LEMMA NothingMoved ==
    ASSUME NEW p \in Properties, Follows(p), log'[p] = log[p], raced \subseteq raced',
           listing'[p].listingStatus = listing[p].listingStatus,
           Logging(p)' = Logging(p), Unlogged(p) \subseteq Unlogged(p)',
           \A r \in Logging(p) \cup Unlogged(p) : request'[r].data = request[r].data
    PROVE  Follows(p)'
<1>1. Exists(p)' = Exists(p) /\ Reported(p)' = Reported(p)
  BY DEF Exists, Reported
<1>2. Excused(p) => Excused(p)'
  BY DEF Excused
<1> QED BY <1>1, <1>2 DEF Follows

\* Steps that write neither status nor log, and of which nobody is about to log.
LEMMA OthersKeepLogFollows ==
    ASSUME LogFollows, ListingTyped, UNCHANGED log, raced \subseteq raced',
           \A p \in Properties : \/ listing'[p].listingStatus = listing[p].listingStatus
                                 \/ ~Exists(p) /\ listing'[p].listingStatus = "ACTIVE",
           \A r \in Requests : \/ request'[r] = request[r]
                               \/ request'[r].step # "log" /\ request[r].step \notin {"log", "unlogged"}
    PROVE  LogFollows'
<1> SUFFICES ASSUME NEW p \in Properties PROVE Follows(p)'
  BY DEF LogFollows
<1>0. Follows(p)
  BY DEF LogFollows
<1>1. /\ Logging(p)' = Logging(p) /\ Unlogged(p) \subseteq Unlogged(p)'
      /\ \A r \in Logging(p) \cup Unlogged(p) : request'[r].data = request[r].data
  BY DEF Logging, Unlogged
<1>3. CASE listing'[p].listingStatus = listing[p].listingStatus
  BY <1>0, <1>1, <1>3, NothingMoved
<1>4. CASE ~Exists(p) /\ listing'[p].listingStatus = "ACTIVE"
  <2>1. log'[p] = <<>> /\ Logging(p)' = {}
    BY <1>0, <1>1, <1>4 DEF Follows
  <2>2. Reported(p)' = "ACTIVE" /\ Exists(p)'
    BY <1>4, <2>1 DEF Reported, Exists
  <2> QED BY <1>4, <2>1, <2>2 DEF Follows
<1> QED BY <1>3, <1>4

LEMMA ModerationKeepsLogFollows ==
    ASSUME AccommodationAssumption, Shape, Typed, LogFollows,
           NEW r \in Requests, NEW p \in Properties, NEW status \in Statuses,
           ModerationUpdate(r, p, status)
    PROVE  LogFollows'
<1>t. ListingTyped
  BY DEF Typed
<1>1. /\ request[r].step = "idle" /\ Exists(p)
      /\ request'[r].step = "log" /\ request'[r].property = p /\ request'[r].data = [status |-> status]
      /\ OnlyRequest(r)
  BY BeginEffect DEF ModerationUpdate
<1>2. /\ listing' = [listing EXCEPT ![p].listingStatus = ToUpperCase(status)]
      /\ raced' = IF Logging(p) = {} THEN raced ELSE raced \cup {<<"status", p>>}
      /\ UNCHANGED <<log, faults>>
  BY DEF ModerationUpdate
<1>3. listing'[p].listingStatus = ToUpperCase(status) /\ \A q \in Properties \ {p} : listing'[q] = listing[q]
  BY <1>t, <1>2 DEF ListingTyped, ListingRows
<1>4. ToUpperCase(status) # "NONE" /\ request'[r].data.status = status
  BY <1>1 DEF Statuses, ToUpperCase
<1>5. Logging(p)' = Logging(p) \cup {r} /\ \A q \in Properties \ {p} : Logging(q)' = Logging(q)
  BY <1>1 DEF Logging, OnlyRequest
<1>6. ASSUME NEW q \in Properties PROVE Follows(q)'
  <2>1. CASE q = p
    <3>1. Exists(q)' /\ Logging(q)' # {}
      BY <1>3, <1>4, <1>5, <2>1 DEF Exists
    <3>2. <<"status", q>> \notin raced' => Logging(q)' = {r}
      BY <1>2, <1>5, <2>1
    <3> QED BY <1>3, <1>4, <2>1, <3>1, <3>2 DEF Follows
  <2>2. CASE q # p
    <3>1. /\ listing'[q] = listing[q] /\ Logging(q)' = Logging(q) /\ log'[q] = log[q]
          /\ raced \subseteq raced' /\ Follows(q)
      BY <1>2, <1>3, <1>5, <2>2 DEF LogFollows
    <3>2. /\ Unlogged(q)' = Unlogged(q)
          /\ \A o \in Logging(q) \cup Unlogged(q) : request'[o] = request[o]
      BY <1>1 DEF Logging, Unlogged, OnlyRequest
    <3> QED BY <3>1, <3>2, NothingMoved
  <2> QED BY <2>1, <2>2
<1> QED BY <1>6 DEF LogFollows

\* The last element of a sequence that grows.
LEMMA AppendedIsLast ==
    ASSUME NEW S, NEW s \in Seq(S), NEW e \in S
    PROVE  Append(s, e) # <<>> /\ Append(s, e)[Len(Append(s, e))] = e
OBVIOUS

LEMMA LoggingKeepsLogFollows ==
    ASSUME AccommodationAssumption, Shape, Typed, LogFollows, NEW r \in Requests, ModerationLog(r)
    PROVE  LogFollows'
<1>t. ListingTyped /\ RecordsTyped /\ RequestsTyped
  BY DEF Typed
<1>1. PICK p \in Properties, status \in Statuses :
         p = request[r].property /\ status = request[r].data.status
  BY <1>t DEF ModerationLog, Continue, Shape, RequestsTyped
<1>2. /\ request[r].step = "log" /\ request'[r].step \in {"notify", "done"} /\ OnlyRequest(r)
  <2>1. PICK to \in {"notify", "done"} : Continue(r, "log", to)
    BY DEF ModerationLog
  <2> QED BY <2>1, ContinueEffect
<1>3. /\ log' = [log EXCEPT ![p] = Append(log[p], ActionMap(status))]
      /\ UNCHANGED <<listing, faults, raced>>
  BY <1>1 DEF ModerationLog
<1>4. ActionMap(status) \in LogActions
  BY <1>1 DEF Statuses, ActionMap, LogActions
<1>5. /\ log'[p] = Append(log[p], ActionMap(status)) /\ log[p] \in Seq(LogActions)
      /\ \A q \in Properties \ {p} : log'[q] = log[q]
  BY <1>t, <1>3 DEF RecordsTyped
<1>6. r \in Logging(p) /\ Logging(p)' = Logging(p) \ {r}
      /\ \A q \in Properties \ {p} : Logging(q)' = Logging(q)
  BY <1>1, <1>2 DEF Logging, OnlyRequest
<1>7. ASSUME NEW q \in Properties PROVE Follows(q)'
  <2>0. Follows(q)
    BY DEF LogFollows
  <2>1. CASE q = p
    <3>1. Exists(p)' /\ raced' = raced /\ listing' = listing
      BY <1>3, <1>6, <2>0, <2>1 DEF Exists, Follows
    <3>2. <<"status", p>> \notin raced => /\ Logging(p)' = {}
                                         /\ listing[p].listingStatus = ToUpperCase(status)
      BY <1>1, <1>6, <2>0, <2>1 DEF Follows
    <3>3. log'[p] # <<>> /\ log'[p][Len(log'[p])] = ActionMap(status)
      BY <1>4, <1>5, AppendedIsLast
    <3>4. Reported(p)' = ToUpperCase(status)
      BY <1>1, <3>3 DEF Reported, Statuses, ActionMap, ToUpperCase
    <3> QED BY <2>1, <3>1, <3>2, <3>4 DEF Follows
  <2>2. CASE q # p
    <3>1. /\ Unlogged(q)' = Unlogged(q)
          /\ \A o \in Logging(q) \cup Unlogged(q) : request'[o] = request[o]
      BY <1>1, <1>2, <2>2 DEF Logging, Unlogged, OnlyRequest
    <3>2. Logging(q)' = Logging(q) /\ log'[q] = log[q]
      BY <1>5, <1>6, <2>2
    <3> QED BY <1>3, <2>0, <3>1, <3>2, NothingMoved
  <2> QED BY <2>1, <2>2
<1> QED BY <1>7 DEF LogFollows

LEMMA NextLogFollows ==
    ASSUME AccommodationAssumption, Shape, Typed, LogFollows, [Next]_vars
    PROVE  LogFollows'
<1>t. ListingTyped /\ RecordsTyped /\ RequestsTyped /\ faults \in Nat
  BY AccommodationAssumption DEF Typed, RecordsTyped
<1>1. ASSUME NEW p \in Properties, NEW price \in BasePrices,
             CreateProperty(p, price) \/ UpdateProperty(p, price)
      PROVE  LogFollows'
  <2>1. UNCHANGED <<log, faults, raced, request>>
    BY <1>1 DEF CreateProperty, UpdateProperty
  <2>2. \A q \in Properties : listing'[q].listingStatus = listing[q].listingStatus
                              \/ (~Exists(q) /\ listing'[q].listingStatus = "ACTIVE")
    <3>1. CASE CreateProperty(p, price)
      BY <1>t, <3>1 DEF CreateProperty, ListingTyped, ListingRows, Exists
    <3>2. CASE UpdateProperty(p, price)
      BY <1>t, <3>2 DEF UpdateProperty, ListingTyped, ListingRows
    <3> QED BY <1>1, <3>1, <3>2
  <2> QED BY <1>t, <2>1, <2>2, OthersKeepLogFollows
<1>2. ASSUME NEW p \in Properties, DeleteProperty(p) PROVE LogFollows'
  <2>1. UNCHANGED <<log, faults, raced, request>>
    BY <1>2 DEF DeleteProperty
  <2>2. \A q \in Properties : listing'[q].listingStatus = listing[q].listingStatus
    BY <1>t, <1>2 DEF DeleteProperty, ListingTyped, ListingRows
  <2> QED BY <1>t, <2>1, <2>2, OthersKeepLogFollows
<1>3. ASSUME NEW r \in Requests, OnlyRequest(r), request[r].step \notin {"log", "unlogged"},
             request'[r].step # "log", UNCHANGED log, raced \subseteq raced',
             \A q \in Properties : listing'[q].listingStatus = listing[q].listingStatus
      PROVE  LogFollows'
  BY <1>3, <1>t, OthersKeepLogFollows DEF OnlyRequest
<1>4. ASSUME NEW r \in Requests, NEW p \in Properties, ToggleRead(r, p) PROVE LogFollows'
  <2>1. UNCHANGED <<log, faults, raced, listing>>
    BY <1>4 DEF ToggleRead
  <2>2. OnlyRequest(r) /\ request[r].step = "idle" /\ request'[r].step = "write"
    BY <1>4, BeginEffect DEF ToggleRead
  <2> QED BY <1>3, <2>1, <2>2
<1>5. ASSUME NEW r \in Requests, NEW p \in Properties, NEW override \in Overrides,
             AvailabilityCheck(r, p, override)
      PROVE  LogFollows'
  <2>1. UNCHANGED <<log, faults, raced, listing>>
    BY <1>5 DEF AvailabilityCheck
  <2>2. PICK step \in {"done", "insert"} : Begin(r, step, p, override)
    BY <1>5 DEF AvailabilityCheck
  <2>3. OnlyRequest(r) /\ request[r].step = "idle" /\ request'[r].step = step
    BY <2>2, BeginEffect
  <2> QED BY <1>3, <2>1, <2>3
<1>6. ASSUME NEW r \in Requests, NEW b \in Bookings, ReviewRead(r, b) PROVE LogFollows'
  <2>1. UNCHANGED <<log, faults, raced, listing>>
    BY <1>6 DEF ReviewRead
  <2>2. OnlyRequest(r) /\ request[r].step = "idle" /\ request'[r].step = "check"
    BY <1>6, BeginEffect DEF ReviewRead
  <2> QED BY <1>3, <2>1, <2>2
<1>7. ASSUME NEW r \in Requests, ToggleWrite(r) PROVE LogFollows'
  <2>1. UNCHANGED <<log, faults, raced>>
    BY <1>7 DEF ToggleWrite
  <2>2. OnlyRequest(r) /\ request[r].step = "write" /\ request'[r].step = "done"
    BY <1>7, ContinueEffect DEF ToggleWrite
  <2>3. PICK active : listing' = [listing EXCEPT ![request[r].property].isActive = active]
    BY <1>7 DEF ToggleWrite
  <2>4. \A q \in Properties : listing'[q].listingStatus = listing[q].listingStatus
    BY <1>t, <2>3 DEF ListingTyped, ListingRows
  <2> QED BY <1>3, <2>1, <2>2, <2>4
<1>8. ASSUME NEW r \in Requests, AvailabilityInsert(r) \/ ModerationNotify(r) \/ ReviewCheck(r) \/ ReviewCreate(r)
      PROVE  LogFollows'
  <2>1. UNCHANGED <<log, faults, listing>> /\ raced \subseteq raced'
    BY <1>8 DEF AvailabilityInsert, ModerationNotify, ReviewCheck, ReviewCreate
  <2>2. PICK from \in {"insert", "notify", "check", "create"}, to \in {"create", "done"} : Continue(r, from, to)
    BY <1>8 DEF AvailabilityInsert, ModerationNotify, ReviewCheck, ReviewCreate
  <2>3. OnlyRequest(r) /\ request[r].step = from /\ request'[r].step = to
    BY <2>2, ContinueEffect
  <2> QED BY <1>3, <2>1, <2>3
<1>9. ASSUME NEW r \in Requests, RequestFails(r) PROVE LogFollows'
  <2>1. UNCHANGED <<log, raced, listing>>
    BY <1>9 DEF RequestFails
  <2>2. /\ OnlyRequest(r) /\ request'[r].step = Stopped(request[r].step)
        /\ request'[r].property = request[r].property /\ request'[r].data = request[r].data
        /\ request[r].step \notin {"idle", "unlogged"}
    BY <1>9, FailsEffect DEF Ended
  <2>3. CASE request[r].step # "log"
    <3>1. Stopped(request[r].step) # "log"
      BY <2>3 DEF Stopped
    <3> QED BY <1>3, <2>1, <2>2, <2>3, <3>1
  <2>4. CASE request[r].step = "log"
    <3>1. Stopped(request[r].step) = "unlogged"
      BY <2>4 DEF Stopped
    <3> SUFFICES ASSUME NEW q \in Properties PROVE Follows(q)'
      BY DEF LogFollows
    <3>2. Follows(q) /\ Exists(q)' = Exists(q) /\ Reported(q)' = Reported(q)
      BY <2>1 DEF LogFollows, Exists, Reported
    <3>3. /\ Logging(q)' = Logging(q) \ {r} /\ Unlogged(q) \subseteq Unlogged(q)'
          /\ \A o \in Requests : request'[o].data = request[o].data
          /\ Logging(q) \subseteq Requests /\ Unlogged(q) \subseteq Requests
      BY <2>2, <2>4, <3>1 DEF Logging, Unlogged, OnlyRequest
    <3>4. CASE r \in Logging(q)
      <4>1. r \in Unlogged(q)'
        BY <2>2, <3>1, <3>4 DEF Logging, Unlogged
      <4>2. <<"status", q>> \notin raced =>
                listing[q].listingStatus = ToUpperCase(request[r].data.status)
        BY <3>2, <3>4 DEF Follows
      <4>3. <<"status", q>> \notin raced => Excused(q)'
        BY <2>1, <3>3, <4>1, <4>2 DEF Excused
      <4> QED BY <2>1, <3>2, <3>3, <4>3 DEF Follows
    <3>5. CASE r \notin Logging(q)
      <4>1. Logging(q)' = Logging(q)
        BY <3>3, <3>5
      <4> QED BY <2>1, <3>2, <3>3, <4>1, NothingMoved
    <3> QED BY <3>4, <3>5
  <2> QED BY <2>3, <2>4
<1>10. CASE UNCHANGED vars
  BY <1>10, <1>t, OthersKeepLogFollows DEF vars
<1> QED BY <1>1, <1>2, <1>4, <1>5, <1>6, <1>7, <1>8, <1>9, <1>10, ModerationKeepsLogFollows,
           LoggingKeepsLogFollows DEF Next, Step

\* Requests that owe the host a notice, and removals in the log.
OwedSteps == {"notify", "untold"}
Owed(p) == {r \in Requests : request[r].step \in OwedSteps /\ request[r].property = p}
RemovalsIn(s) == {i \in DOMAIN s : s[i] = "PROPERTY_REMOVED"}
Removals(p) == RemovalsIn(log[p])

Told(p) ==
    /\ IsFiniteSet(Owed(p))
    /\ Cardinality(Removals(p)) = notices[p] + Cardinality(Owed(p))

AllTold == \A p \in Properties : Told(p)

\* The removals in a sequence are counted as they are appended.
LEMMA RemovalsAreCounted ==
    ASSUME NEW s \in Seq(LogActions), NEW e \in LogActions
    PROVE  /\ IsFiniteSet(RemovalsIn(s)) /\ Cardinality(RemovalsIn(s)) \in Nat
           /\ Cardinality(RemovalsIn(Append(s, e))) =
                IF e = "PROPERTY_REMOVED" THEN Cardinality(RemovalsIn(s)) + 1
                                          ELSE Cardinality(RemovalsIn(s))
<1>1. DOMAIN s = 1 .. Len(s) /\ Len(s) \in Nat /\ DOMAIN Append(s, e) = 1 .. Len(s) + 1
      /\ Append(s, e)[Len(s) + 1] = e /\ \A i \in 1 .. Len(s) : Append(s, e)[i] = s[i]
  OBVIOUS
<1>2. IsFiniteSet(1 .. Len(s))
  BY <1>1, FS_Interval
<1>3. RemovalsIn(s) \subseteq 1 .. Len(s) /\ Len(s) + 1 \notin RemovalsIn(s)
  BY <1>1 DEF RemovalsIn
<1>4. IsFiniteSet(RemovalsIn(s)) /\ Cardinality(RemovalsIn(s)) \in Nat
  BY <1>2, <1>3, FS_Subset, FS_CardinalityType
<1>5. RemovalsIn(Append(s, e)) =
         IF e = "PROPERTY_REMOVED" THEN RemovalsIn(s) \cup {Len(s) + 1} ELSE RemovalsIn(s)
  <2>1. \A i : i \in 1 .. Len(s) + 1 <=> i \in 1 .. Len(s) \/ i = Len(s) + 1
    BY <1>1
  <2> QED BY <1>1, <2>1 DEF RemovalsIn
<1>6. Cardinality(RemovalsIn(Append(s, e))) =
         IF e = "PROPERTY_REMOVED" THEN Cardinality(RemovalsIn(s)) + 1
                                   ELSE Cardinality(RemovalsIn(s))
  BY <1>3, <1>4, <1>5, FS_AddElement
<1> QED BY <1>4, <1>6

\* What a property's books say when one request moves.
LEMMA RemovalsCount ==
    ASSUME RecordsTyped, NEW p \in Properties
    PROVE  /\ Cardinality(Removals(p)) \in Nat
           /\ log'[p] = log[p] => Removals(p)' = Removals(p)
           /\ \A e \in LogActions : log'[p] = Append(log[p], e) =>
                Cardinality(Removals(p))' =
                    IF e = "PROPERTY_REMOVED" THEN Cardinality(Removals(p)) + 1
                                              ELSE Cardinality(Removals(p))
<1>1. log[p] \in Seq(LogActions)
  BY DEF RecordsTyped
<1>2. "PROPERTY_REMOVED" \in LogActions
  BY DEF LogActions
<1>3. Cardinality(Removals(p)) \in Nat
  BY <1>1, <1>2, RemovalsAreCounted DEF Removals
<1>4. ASSUME NEW e \in LogActions, log'[p] = Append(log[p], e)
      PROVE  Cardinality(Removals(p))' =
                IF e = "PROPERTY_REMOVED" THEN Cardinality(Removals(p)) + 1
                                          ELSE Cardinality(Removals(p))
  BY <1>1, <1>4, RemovalsAreCounted DEF Removals
<1> QED BY <1>3, <1>4 DEF Removals

\* A step of r changes only the books of the property that r is about.
LEMMA OwedMoves ==
    ASSUME NEW r \in Requests, OnlyRequest(r), NEW p \in Properties, IsFiniteSet(Owed(p)),
           \/ request'[r].property = request[r].property
           \/ request[r].step \notin OwedSteps /\ request'[r].step \notin OwedSteps
    PROVE  /\ IsFiniteSet(Owed(p))' /\ Cardinality(Owed(p))' \in Nat /\ Cardinality(Owed(p)) \in Nat
           /\ Cardinality(Owed(p))' =
                IF r \notin Owed(p) /\ request'[r].step \in OwedSteps /\ request'[r].property = p
                THEN Cardinality(Owed(p)) + 1
                ELSE IF r \in Owed(p) /\ request'[r].step \notin OwedSteps
                THEN Cardinality(Owed(p)) - 1
                ELSE Cardinality(Owed(p))
<1>1. Cardinality(Owed(p)) \in Nat
  BY FS_CardinalityType
<1>2. CASE r \notin Owed(p) /\ request'[r].step \in OwedSteps /\ request'[r].property = p
  <2>1. Owed(p)' = Owed(p) \cup {r}
    BY <1>2 DEF Owed, OnlyRequest
  <2> QED BY <1>1, <1>2, <2>1, FS_AddElement
<1>3. CASE r \in Owed(p) /\ request'[r].step \notin OwedSteps
  <2>1. Owed(p)' = Owed(p) \ {r}
    BY <1>3 DEF Owed, OnlyRequest
  <2>2. IsFiniteSet(Owed(p))' /\ Cardinality(Owed(p))' = Cardinality(Owed(p)) - 1
    BY <1>3, <2>1, FS_RemoveElement
  <2> QED BY <1>1, <1>3, <2>2, FS_CardinalityType
<1>4. CASE ~(r \notin Owed(p) /\ request'[r].step \in OwedSteps /\ request'[r].property = p)
           /\ ~(r \in Owed(p) /\ request'[r].step \notin OwedSteps)
  <2>1. Owed(p)' = Owed(p)
    BY <1>4 DEF Owed, OnlyRequest
  <2> QED BY <1>1, <1>4, <2>1
<1> QED BY <1>2, <1>3, <1>4

\* A step that tells nobody, logs nothing and touches no request that owes a notice.
LEMMA OthersKeepTold ==
    ASSUME AllTold, RecordsTyped, NEW r \in Requests, OnlyRequest(r), UNCHANGED <<log, notices, faults>>,
           request[r].step \notin OwedSteps, request'[r].step \notin OwedSteps
    PROVE  AllTold'
<1> SUFFICES ASSUME NEW p \in Properties PROVE Told(p)'
  BY DEF AllTold
<1>1. Told(p)
  BY DEF AllTold
<1>2. Owed(p)' = Owed(p)
  BY DEF Owed, OnlyRequest
<1>3. Removals(p)' = Removals(p)
  BY DEF Removals
<1> QED BY <1>1, <1>2, <1>3 DEF Told

LEMMA NextTold ==
    ASSUME AccommodationAssumption, Shape, Typed, AllTold, [Next]_vars
    PROVE  AllTold'
<1>t. RecordsTyped /\ RequestsTyped /\ faults \in Nat /\ \A p \in Properties : notices[p] \in Nat
  BY AccommodationAssumption DEF Typed, RecordsTyped
<1>1. ASSUME UNCHANGED <<request, log, notices, faults>> PROVE AllTold'
  BY <1>1 DEF AllTold, Told, Owed, Removals
<1>2. CASE \/ \E p \in Properties, price \in BasePrices : CreateProperty(p, price) \/ UpdateProperty(p, price)
           \/ \E p \in Properties : DeleteProperty(p)
           \/ UNCHANGED vars
  BY <1>1, <1>2 DEF CreateProperty, UpdateProperty, DeleteProperty, vars
<1>3. ASSUME NEW r \in Requests, NEW p, NEW step \in {"write", "insert", "log", "check", "done"}, NEW data,
             Begin(r, step, p, data), UNCHANGED <<log, notices, faults>>
      PROVE  AllTold'
  BY <1>3, <1>t, BeginEffect, OthersKeepTold DEF OwedSteps
<1>a. ASSUME NEW r \in Requests, NEW p \in Properties, ToggleRead(r, p) PROVE AllTold'
  BY <1>3, <1>a DEF ToggleRead
<1>b. ASSUME NEW r \in Requests, NEW p \in Properties, NEW override \in Overrides,
             AvailabilityCheck(r, p, override)
      PROVE  AllTold'
  <2>1. PICK step \in {"done", "insert"} : Begin(r, step, p, override)
    BY <1>b DEF AvailabilityCheck
  <2> QED BY <1>3, <1>b, <2>1 DEF AvailabilityCheck
<1>c. ASSUME NEW r \in Requests, NEW p \in Properties, NEW status \in Statuses,
             ModerationUpdate(r, p, status)
      PROVE  AllTold'
  BY <1>3, <1>c DEF ModerationUpdate
<1>5. ASSUME NEW r \in Requests, NEW b \in Bookings, ReviewRead(r, b) PROVE AllTold'
  BY <1>3, <1>5 DEF ReviewRead
<1>6. ASSUME NEW r \in Requests, ToggleWrite(r) \/ AvailabilityInsert(r) \/ ReviewCheck(r) \/ ReviewCreate(r)
      PROVE  AllTold'
  <2>1. UNCHANGED <<log, notices, faults>>
    BY <1>6 DEF ToggleWrite, AvailabilityInsert, ReviewCheck, ReviewCreate
  <2>2. PICK from \in {"write", "insert", "check", "create"}, to \in {"create", "done"} : Continue(r, from, to)
    BY <1>6 DEF ToggleWrite, AvailabilityInsert, ReviewCheck, ReviewCreate
  <2>3. request[r].step \notin OwedSteps /\ request'[r].step \notin OwedSteps /\ OnlyRequest(r)
    BY <2>2, ContinueEffect DEF OwedSteps
  <2> QED BY <1>t, <2>1, <2>3, OthersKeepTold
<1>7. ASSUME NEW r \in Requests, ModerationLog(r) PROVE AllTold'
  <2>1. PICK q \in Properties, status \in Statuses :
           q = request[r].property /\ status = request[r].data.status
    BY <1>7, <1>t DEF ModerationLog, Continue, Shape, RequestsTyped
  <2>2. /\ request[r].step = "log" /\ OnlyRequest(r) /\ request'[r].property = request[r].property
        /\ request'[r].step = IF status = "removed" THEN "notify" ELSE "done"
    <3>1. Continue(r, "log", IF HostIsTold(status) THEN "notify" ELSE "done")
      BY <1>7, <2>1 DEF ModerationLog
    <3> QED BY <3>1, ContinueEffect DEF HostIsTold
  <2>3. log' = [log EXCEPT ![q] = Append(log[q], ActionMap(status))] /\ UNCHANGED <<notices, faults>>
    BY <1>7, <2>1 DEF ModerationLog
  <2>4. ActionMap(status) \in LogActions /\ (ActionMap(status) = "PROPERTY_REMOVED" <=> status = "removed")
    BY <2>1 DEF Statuses, ActionMap, LogActions
  <2>5. log'[q] = Append(log[q], ActionMap(status)) /\ \A p \in Properties \ {q} : log'[p] = log[p]
    BY <1>t, <2>3 DEF RecordsTyped
  <2> SUFFICES ASSUME NEW p \in Properties PROVE Told(p)'
    BY DEF AllTold
  <2>6. Told(p) /\ notices[p] \in Nat
    BY <1>t DEF AllTold
  <2>7. /\ IsFiniteSet(Owed(p))' /\ Cardinality(Owed(p)) \in Nat
        /\ Cardinality(Owed(p))' = IF request'[r].step = "notify" /\ request[r].property = p
                                      THEN Cardinality(Owed(p)) + 1 ELSE Cardinality(Owed(p))
    <3>1. r \notin Owed(p)
      BY <2>2 DEF Owed, OwedSteps
    <3> QED BY <2>2, <2>6, <3>1, OwedMoves DEF Told, OwedSteps
  <2>8. /\ Cardinality(Removals(p)) \in Nat
        /\ Cardinality(Removals(p))' = IF status = "removed" /\ p = q
                                       THEN Cardinality(Removals(p)) + 1 ELSE Cardinality(Removals(p))
    BY <1>t, <2>4, <2>5, RemovalsCount
  <2>9. notices'[p] = notices[p] /\ faults' = faults
    BY <2>3
  <2> QED BY <1>t, <2>1, <2>2, <2>6, <2>7, <2>8, <2>9 DEF Told
<1>8. ASSUME NEW r \in Requests, ModerationNotify(r) PROVE AllTold'
  <2>1. PICK q \in Properties : q = request[r].property
    BY <1>8 DEF ModerationNotify, Continue, Shape
  <2>2. /\ request[r].step = "notify" /\ OnlyRequest(r) /\ request'[r].property = request[r].property
        /\ request'[r].step = "done"
    BY <1>8, ContinueEffect DEF ModerationNotify
  <2>3. notices' = [notices EXCEPT ![q] = notices[q] + 1] /\ UNCHANGED <<log, faults>>
    BY <1>8, <2>1 DEF ModerationNotify
  <2>4. \A p \in Properties : notices'[p] = IF p = q THEN notices[p] + 1 ELSE notices[p]
    BY <1>t, <2>3 DEF RecordsTyped
  <2> SUFFICES ASSUME NEW p \in Properties PROVE Told(p)'
    BY DEF AllTold
  <2>5. Told(p) /\ notices[p] \in Nat
    BY <1>t DEF AllTold
  <2>6. /\ IsFiniteSet(Owed(p))' /\ Cardinality(Owed(p)) \in Nat
        /\ Cardinality(Owed(p))' = IF p = q THEN Cardinality(Owed(p)) - 1 ELSE Cardinality(Owed(p))
    <3>1. r \in Owed(p) <=> p = q
      BY <2>1, <2>2 DEF Owed, OwedSteps
    <3> QED BY <2>2, <2>5, <3>1, OwedMoves DEF Told, OwedSteps
  <2>7. Cardinality(Removals(p)) \in Nat /\ Removals(p)' = Removals(p)
    BY <1>t, <2>3, RemovalsCount
  <2> QED BY <1>t, <2>3, <2>4, <2>5, <2>6, <2>7 DEF Told
<1>9. ASSUME NEW r \in Requests, RequestFails(r) PROVE AllTold'
  <2>1. UNCHANGED <<log, notices>>
    BY <1>9 DEF RequestFails
  <2>2. /\ OnlyRequest(r) /\ request'[r].step = Stopped(request[r].step)
        /\ request'[r].property = request[r].property /\ request[r].step # "untold"
    BY <1>9, FailsEffect DEF Ended
  <2>3. Stopped(request[r].step) \in OwedSteps <=> request[r].step \in OwedSteps
    BY <2>2 DEF Stopped, OwedSteps
  <2> SUFFICES ASSUME NEW p \in Properties PROVE Told(p)'
    BY DEF AllTold
  <2>4. Told(p)
    BY DEF AllTold
  <2>5. Owed(p)' = Owed(p)
    BY <2>2, <2>3 DEF Owed, OnlyRequest
  <2> QED BY <2>1, <2>4, <2>5 DEF Told, Removals
<1> QED BY <1>2, <1>a, <1>b, <1>c, <1>5, <1>6, <1>7, <1>8, <1>9 DEF Next, Step

LEMMA StartsTold == Init => LogFollows /\ AllTold
<1> SUFFICES ASSUME Init PROVE LogFollows /\ AllTold
  OBVIOUS
<1>1. LogFollows
  BY DEF Init, LogFollows, Follows, Logging, NotMade, Exists
<1>2. ASSUME NEW p \in Properties PROVE Told(p)
  <2>1. Owed(p) = {} /\ Removals(p) = {} /\ notices[p] = 0 /\ faults = 0
    BY DEF Init, Owed, OwedSteps, Removals, RemovalsIn, NotMade
  <2> QED BY <2>1, FS_EmptySet DEF Told
<1> QED BY <1>1, <1>2 DEF AllTold

\* What a moderation that stops between its writes leaves behind, for any number of
\* administrators, listings and failures: if no two met, the log ends with the status
\* of the listing but for a request that failed before its entry, and each logged removal
\* was told once but for a request that failed before its notice.
THEOREM ModerationLeavesRecord == Spec => []ModerationIsRecorded
<1>1. Shape /\ Typed /\ LogFollows /\ AllTold /\ [Next]_vars => LogFollows' /\ AllTold'
  BY AccommodationAssumption, NextLogFollows, NextTold
<1>2. LogFollows => LogTellsStatus
  BY DEF LogFollows, Follows, LogTellsStatus, Excused
<1>3. AllTold => RemovalsAreTold
  BY DEF AllTold, Told, Owed, OwedSteps, Removals, RemovalsIn, RemovalsAreTold
<1>4. LogFollows /\ AllTold => ModerationIsRecorded
  BY <1>2, <1>3 DEF ModerationIsRecorded
<1> QED BY <1>1, <1>4, StartsTold, ShapedAndTyped, PTL DEF Spec

-----------------------------------------------------------------------------
(* Prices: calculateTotalPrice for stays of any length.                    *)

(***************************************************************************)
(* Every set of numbers that is not empty has a least one.  What follows   *)
(* goes by the least number that a statement fails for, where one would    *)
(* use induction.                                                          *)
(***************************************************************************)
LEMMA LeastNumber ==
    ASSUME NEW T, T \subseteq Nat, T # {}
    PROVE  \E m \in T : \A k \in T : m <= k
<1>1. PICK R : R = OpToRel(<, Nat)
  OBVIOUS
<1>2. \A j, k \in Nat : j < k => <<j, k>> \in R
  BY <1>1 DEF OpToRel
<1>3. IsWellFoundedOn(R, Nat)
  BY <1>1, NatLessThanWellFounded
<1>4. PICK m \in T : \A k \in T : <<k, m>> \notin R
  BY <1>3, WFMin
<1>5. ASSUME NEW k \in T
      PROVE  m <= k
  <2>1. k \in Nat /\ m \in Nat /\ ~ (k < m)
    BY <1>2, <1>4
  <2> QED BY <2>1
<1> QED BY <1>5

-----------------------------------------------------------------------------

\* f adds up the prices that P has for the first nights.
AddsUp(f, N, P) ==
    /\ f \in [0 .. N -> Int]
    /\ f[0] = 0
    /\ \A i \in 1 .. N : f[i] = f[i - 1] + P[i - 1]

\* There is such a sum for any prices and any number of nights.
LEMMA SumsExist ==
    ASSUME NEW P \in [Nat -> Int], NEW N \in Nat
    PROVE  \E f : AddsUp(f, N, P)
<1> DEFINE D == {n \in Nat : ~ \E f : AddsUp(f, n, P)}
<1>1. SUFFICES ASSUME D # {} PROVE FALSE
  OBVIOUS
<1>2. PICK m \in D : \A k \in D : m <= k
  BY <1>1, LeastNumber
<1>3. CASE m = 0
  <2>1. AddsUp([i \in 0 .. 0 |-> 0], 0, P)
    BY DEF AddsUp
  <2> QED BY <1>2, <1>3, <2>1
<1>4. CASE m # 0
  <2>1. m - 1 \in Nat /\ m \in Nat
    BY <1>4
  <2>2. m - 1 \notin D
    BY <1>2, <2>1
  <2>3. PICK g : AddsUp(g, m - 1, P)
    BY <2>1, <2>2
  <2>4. PICK f : f = [i \in 0 .. m |-> IF i = m THEN g[m - 1] + P[m - 1] ELSE g[i]]
    OBVIOUS
  <2>5. AddsUp(f, m, P)
    <3>1. f \in [0 .. m -> Int] /\ f[0] = 0
      BY <1>4, <2>1, <2>3, <2>4 DEF AddsUp
    <3>2. ASSUME NEW i \in 1 .. m
          PROVE  f[i] = f[i - 1] + P[i - 1]
      <4>1. CASE i = m
        BY <2>1, <2>4, <4>1
      <4>2. CASE i # m
        <5>1. i \in 1 .. m - 1 /\ i - 1 \in 0 .. m /\ i - 1 # m
          BY <2>1, <4>2
        <5> QED BY <2>3, <2>4, <4>2, <5>1 DEF AddsUp
      <4> QED BY <4>1, <4>2
    <3> QED BY <3>1, <3>2 DEF AddsUp
  <2> QED BY <2>5
<1> QED BY <1>3, <1>4

\* The prices in Q are the n of P from the k-th on, as far as N.
Continues(P, Q, k, n, N) == k + n <= N /\ \A i \in Nat : Q[i] = P[k + i]

\* Sums of the same prices are the same, also when they start k nights apart.
LEMMA SumsAgree ==
    ASSUME NEW P \in [Nat -> Int], NEW Q \in [Nat -> Int], NEW k \in Nat, NEW n \in Nat, NEW N \in Nat,
           Continues(P, Q, k, n, N),
           NEW f, AddsUp(f, N, P), NEW g, AddsUp(g, n, Q)
    PROVE  g[n] = f[k + n] - f[k]
<1> USE DEF Continues
<1> DEFINE D == {i \in 0 .. n : g[i] # f[k + i] - f[k]}
<1>1. SUFFICES ASSUME D # {} PROVE FALSE
  OBVIOUS
<1>2. PICK m \in D : \A j \in D : m <= j
  <2>1. D \subseteq Nat
    OBVIOUS
  <2> HIDE DEF D
  <2> QED BY <1>1, <2>1, LeastNumber
<1>3. m \in 0 .. n /\ m \in Nat /\ g[m] # f[k + m] - f[k]
  BY <1>2
<1>4. CASE m = 0
  <2>0. k \in 0 .. N
    OBVIOUS
  <2>1. g[0] = 0 /\ f[k] \in Int
    BY <2>0 DEF AddsUp
  <2> QED BY <1>3, <1>4, <2>1
<1>5. CASE m # 0
  <2>1. m - 1 \in 0 .. n /\ m \in 1 .. n /\ k + m \in 1 .. N /\ (k + m) - 1 = k + (m - 1)
    BY <1>3, <1>5
  <2>2. g[m - 1] = f[k + (m - 1)] - f[k]
    BY <1>2, <2>1
  <2>3. g[m] = g[m - 1] + Q[m - 1]
    BY <2>1 DEF AddsUp
  <2>4. f[k + m] = f[k + (m - 1)] + P[k + (m - 1)]
    BY <2>1 DEF AddsUp
  <2>5. Q[m - 1] = P[k + (m - 1)] /\ P[k + (m - 1)] \in Int
    BY <2>1
  <2>6. f[k] \in Int /\ f[k + (m - 1)] \in Int
    BY <2>1 DEF AddsUp
  <2> QED BY <1>3, <2>2, <2>3, <2>4, <2>5, <2>6
<1> QED BY <1>4, <1>5

-----------------------------------------------------------------------------

\* The price of the i-th night of a stay that begins at start.
PriceOfNight(base, rows, start) == [i \in Nat |-> NightPrice(base, rows, start + i * DayLength)]

\* Rows of overrides, as far as their prices go.
Priced(rows) == DOMAIN rows \subseteq Nat /\ \A i \in DOMAIN rows : rows[i].price \in Int \cup {NoPrice}

\* A night has a price.
LEMMA NightPriceIsNumber ==
    ASSUME NEW base \in Int, NEW rows, Priced(rows), NEW date
    PROVE  NightPrice(base, rows, date) \in Int
<1>1. PICK hits : hits = Covering(rows, date)
  OBVIOUS
<1>2. hits \subseteq DOMAIN rows /\ hits \subseteq Nat
  BY <1>1 DEF Covering, Priced
<1>3. PICK first : first = CHOOSE i \in hits : \A j \in hits : i <= j
  OBVIOUS
<1>4. hits # {} => first \in hits
  BY <1>2, <1>3, LeastNumber
<1>5. hits # {} => rows[first].price \in Int \cup {NoPrice}
  BY <1>2, <1>4 DEF Priced
<1>6. NightPrice(base, rows, date)
        = IF hits # {} /\ rows[first].price # NoPrice THEN rows[first].price ELSE base
  BY <1>1, <1>3 DEF NightPrice
<1> QED BY <1>5, <1>6

\* calculateTotalPrice adds up the prices of its nights.
LEMMA TotalAddsUp ==
    ASSUME NEW base \in Int, NEW rows, Priced(rows), NEW stay, stay.start \in Int, Nights(stay) \in Nat
    PROVE  \E f : /\ AddsUp(f, Nights(stay), PriceOfNight(base, rows, stay.start))
                  /\ CalculateTotalPrice(base, rows, stay) = f[Nights(stay)]
<1> DEFINE N == Nights(stay)
           P == PriceOfNight(base, rows, stay.start)
           total[i \in 0 .. Nights(stay)] ==
              IF i = 0
              THEN 0
              ELSE total[i - 1] + NightPrice(base, rows, stay.start + (i - 1) * DayLength)
<1>1. P \in [Nat -> Int] /\ N \in Nat
  BY NightPriceIsNumber DEF PriceOfNight
<1>2. \A i \in 1 .. N : P[i - 1] = NightPrice(base, rows, stay.start + (i - 1) * DayLength)
  BY <1>1 DEF PriceOfNight
<1>3. PICK f : AddsUp(f, N, P)
  <2> HIDE DEF N, P
  <2> QED BY <1>1, SumsExist
<1>4. f = [i \in 0 .. Nights(stay) |->
             IF i = 0 THEN 0
             ELSE f[i - 1] + NightPrice(base, rows, stay.start + (i - 1) * DayLength)]
  <2>1. f = [i \in 0 .. N |-> f[i]]
    BY <1>3 DEF AddsUp
  <2>2. ASSUME NEW i \in 0 .. N
        PROVE  f[i] = IF i = 0 THEN 0
                      ELSE f[i - 1] + NightPrice(base, rows, stay.start + (i - 1) * DayLength)
    <3>1. CASE i = 0
      BY <1>3, <3>1 DEF AddsUp
    <3>2. CASE i # 0
      <4>1. i \in 1 .. N
        BY <1>1, <3>2
      <4> QED BY <1>2, <1>3, <3>2, <4>1 DEF AddsUp
    <3> QED BY <3>1, <3>2
  <2> QED BY <2>1, <2>2
<1>5. total = [i \in 0 .. Nights(stay) |->
                 IF i = 0 THEN 0
                 ELSE total[i - 1] + NightPrice(base, rows, stay.start + (i - 1) * DayLength)]
  BY <1>4
<1>6. CalculateTotalPrice(base, rows, stay) = total[Nights(stay)]
  BY DEF CalculateTotalPrice
<1> HIDE DEF total, P
<1>7. \A i \in 0 .. N : total[i] = f[i]
  <2> DEFINE D == {i \in 0 .. N : total[i] # f[i]}
  <2>1. SUFFICES ASSUME D # {} PROVE FALSE
    OBVIOUS
  <2>2. PICK m \in D : \A j \in D : m <= j
    <3>1. D \subseteq Nat
      BY <1>1
    <3> HIDE DEF D
    <3> QED BY <2>1, <3>1, LeastNumber
  <2>3. m \in 0 .. N /\ total[m] # f[m] /\ N \in Nat
    BY <1>1, <2>2
  <2>4. CASE m = 0
    <3>1. total[0] = 0 /\ f[0] = 0
      BY <1>4, <1>5, <2>3
    <3> QED BY <2>3, <2>4, <3>1
  <2>5. CASE m # 0
    <3>1. m - 1 \in 0 .. N /\ ~ (m <= m - 1)
      BY <2>3, <2>5
    <3>2. total[m - 1] = f[m - 1]
      BY <2>2, <3>1
    <3>3. total[m] = total[m - 1] + NightPrice(base, rows, stay.start + (m - 1) * DayLength)
      BY <1>5, <2>3, <2>5
    <3>4. f[m] = f[m - 1] + NightPrice(base, rows, stay.start + (m - 1) * DayLength)
      BY <1>4, <2>3, <2>5
    <3> QED BY <2>3, <3>2, <3>3, <3>4
  <2> QED BY <2>4, <2>5
<1>8. CalculateTotalPrice(base, rows, stay) = f[N]
  BY <1>1, <1>6, <1>7
<1> QED BY <1>3, <1>8 DEF P

\* A length that is k days and one that is n days more.
LEMMA NightsAddUp ==
    ASSUME NEW s \in Int, NEW e \in Int, NEW k \in Nat, s + k * DayLength <= e
    PROVE  LET whole  == [start |-> s, end |-> e]
               first  == [start |-> s, end |-> s + k * DayLength]
               second == [start |-> s + k * DayLength, end |-> e]
           IN  /\ Nights(first) = k /\ Nights(second) \in Nat
               /\ Nights(whole) = k + Nights(second)
<1> USE DayLengthAssumption DEF DayLengthAssumption
<1>1. PICK x \in Int : x = k * DayLength
  OBVIOUS
<1>2. (x + DayLength - 1) \div DayLength = k
  BY <1>1
<1>3. PICK q \in Nat : q = (e - (s + x) + DayLength - 1) \div DayLength
  BY <1>1
<1>4. (e - s + DayLength - 1) \div DayLength = k + q
  BY <1>1, <1>3
<1> QED BY <1>1, <1>2, <1>3, <1>4 DEF Nights

(***************************************************************************)
(* calculateTotalPrice adds up: a stay costs what its first k nights and   *)
(* the rest of it cost, whatever overrides there are and whatever length   *)
(* the last night has.                                                     *)
(***************************************************************************)
THEOREM PriceAddsUp ==
    ASSUME NEW base \in Int, NEW rows, Priced(rows),
           NEW s \in Int, NEW e \in Int, NEW k \in Nat, s + k * DayLength <= e
    PROVE  CalculateTotalPrice(base, rows, [start |-> s, end |-> e])
             = CalculateTotalPrice(base, rows, [start |-> s, end |-> s + k * DayLength])
               + CalculateTotalPrice(base, rows, [start |-> s + k * DayLength, end |-> e])
<1> USE DayLengthAssumption DEF DayLengthAssumption
<1>1. PICK x \in Int : x = k * DayLength
  OBVIOUS
<1>2. PICK whole, first, second :
        /\ whole = [start |-> s, end |-> e] /\ first = [start |-> s, end |-> s + x]
        /\ second = [start |-> s + x, end |-> e]
  OBVIOUS
<1>3. /\ Nights(first) = k /\ Nights(second) \in Nat
      /\ Nights(whole) = k + Nights(second) /\ Nights(whole) \in Nat
  <2>1. /\ Nights([start |-> s, end |-> s + x]) = k
        /\ Nights([start |-> s + x, end |-> e]) \in Nat
        /\ Nights([start |-> s, end |-> e]) = k + Nights([start |-> s + x, end |-> e])
    BY <1>1, NightsAddUp
  <2>2. /\ Nights(first) = k /\ Nights(second) \in Nat
        /\ Nights(whole) = k + Nights(second)
    BY <1>2, <2>1
  <2> QED BY <2>2
<1>4. PICK n \in Nat, N \in Nat : n = Nights(second) /\ N = k + n /\ N = Nights(whole)
  BY <1>3
<1>5. PICK P, Q : P = PriceOfNight(base, rows, s) /\ Q = PriceOfNight(base, rows, s + x)
  OBVIOUS
<1>6. P \in [Nat -> Int] /\ Q \in [Nat -> Int]
  BY <1>5, NightPriceIsNumber DEF PriceOfNight
<1>7. \A i \in Nat : Q[i] = P[k + i] /\ P[i] = P[0 + i]
  <2>1. SUFFICES ASSUME NEW i \in Nat PROVE Q[i] = P[k + i]
    OBVIOUS
  <2>2. (s + x) + i * DayLength = s + (k + i) * DayLength
    BY <1>1
  <2>3. Q[i] = NightPrice(base, rows, (s + x) + i * DayLength)
    BY <1>5 DEF PriceOfNight
  <2>4. P[k + i] = NightPrice(base, rows, s + (k + i) * DayLength)
    BY <1>5 DEF PriceOfNight
  <2> QED BY <2>2, <2>3, <2>4
<1>8. PICK f : AddsUp(f, N, P) /\ CalculateTotalPrice(base, rows, whole) = f[N]
  BY <1>2, <1>3, <1>4, <1>5, TotalAddsUp
<1>9. PICK g : AddsUp(g, k, P) /\ CalculateTotalPrice(base, rows, first) = g[k]
  BY <1>2, <1>3, <1>5, TotalAddsUp
<1>10. PICK h : AddsUp(h, n, Q) /\ CalculateTotalPrice(base, rows, second) = h[n]
  BY <1>2, <1>3, <1>4, <1>5, TotalAddsUp
<1>11. h[n] = f[k + n] - f[k]
  <2>1. Continues(P, Q, k, n, N)
    BY <1>4, <1>7 DEF Continues
  <2> QED BY <1>6, <1>8, <1>10, <2>1, SumsAgree
<1>12. g[k] = f[0 + k] - f[0]
  <2>1. PICK z \in Nat : z = 0
    OBVIOUS
  <2>2. Continues(P, P, z, k, N)
    BY <1>4, <1>7, <2>1 DEF Continues
  <2>3. g[k] = f[z + k] - f[z]
    BY <1>6, <1>8, <1>9, <2>2, SumsAgree
  <2> QED BY <2>1, <2>3
<1>13. f[0] = 0 /\ f[k] \in Int /\ f[N] \in Int
  <2>1. k \in 0 .. N /\ N \in 0 .. N
    BY <1>4
  <2> QED BY <1>8, <2>1 DEF AddsUp
<1>14. f[N] = g[k] + h[n]
  BY <1>4, <1>11, <1>12, <1>13
<1> QED BY <1>1, <1>2, <1>8, <1>9, <1>10, <1>14

-----------------------------------------------------------------------------
(* Sums over finite sets. *)

First(s) == CHOOSE x \in s : TRUE

\* F sums up w over the subsets of S, in the order in which First takes their elements.
SumsOver(F, w, S) ==
    /\ F[{}] = 0
    /\ \A s \in SUBSET S : s # {} => F[s] = w[First(s)] + F[s \ {First(s)}]

\* Taking one element leaves one fewer.
LEMMA FirstTaken ==
    ASSUME NEW S, IsFiniteSet(S), NEW s \in SUBSET S, s # {}
    PROVE  /\ First(s) \in s /\ First(s) \in S /\ s \ {First(s)} \in SUBSET S
           /\ Cardinality(s) \in Nat \ {0}
           /\ Cardinality(s \ {First(s)}) = Cardinality(s) - 1
<1>1. First(s) \in s
  BY DEF First
<1>2. IsFiniteSet(s)
  BY FS_Subset
<1>3. Cardinality(s) \in Nat /\ Cardinality(s) # 0
  BY <1>2, FS_CardinalityType, FS_EmptySet
<1>4. Cardinality(s \ {First(s)}) = Cardinality(s) - 1
  BY <1>1, <1>2, FS_RemoveElement
<1> QED BY <1>1, <1>3, <1>4

\* v is w, with d more for x.
Raised(v, w, x, d, S) == \A y \in S : v[y] = IF y = x THEN w[y] + d ELSE w[y]

\* Sums of weights that differ in the one of x only differ by as much.
LEMMA SumsMove ==
    ASSUME NEW S, IsFiniteSet(S), NEW w \in [S -> Int], NEW v \in [S -> Int], NEW x, NEW d \in Int,
           Raised(v, w, x, d, S),
           NEW F, SumsOver(F, w, S), NEW G, SumsOver(G, v, S)
    PROVE  \A s \in SUBSET S : F[s] \in Int /\ G[s] = IF x \in s THEN F[s] + d ELSE F[s]
<1> DEFINE Moved(s) == F[s] \in Int /\ G[s] = IF x \in s THEN F[s] + d ELSE F[s]
           D == {Cardinality(s) : s \in {u \in SUBSET S : ~ Moved(u)}}
<1>1. SUFFICES ASSUME D # {} PROVE FALSE
  OBVIOUS
<1>2. D \subseteq Nat
  BY FS_Subset, FS_CardinalityType
<1>3. PICK n \in D : \A k \in D : n <= k
  <2> HIDE DEF D
  <2> QED BY <1>1, <1>2, LeastNumber
<1>4. PICK s \in SUBSET S : ~ Moved(s) /\ n = Cardinality(s)
  BY <1>3
<1>5. CASE s = {}
  <2>1. F[s] = 0 /\ G[s] = 0 /\ x \notin s
    BY <1>5 DEF SumsOver
  <2> QED BY <1>4, <2>1
<1>6. CASE s # {}
  <2>1. PICK y, t : y = First(s) /\ t = s \ {y}
    OBVIOUS
  <2>2. /\ y \in s /\ y \in S /\ t \in SUBSET S
        /\ Cardinality(s) \in Nat /\ Cardinality(t) = Cardinality(s) - 1
    BY <1>6, <2>1, FirstTaken
  <2>3. Cardinality(t) \notin D
    <3>1. Cardinality(t) = n - 1 /\ n \in Nat
      BY <1>4, <2>2
    <3>2. ~ (n <= n - 1)
      BY <3>1
    <3> HIDE DEF D
    <3> QED BY <1>3, <3>1, <3>2
  <2>4. Moved(t)
    BY <2>2, <2>3
  <2>5. F[s] = w[y] + F[t] /\ G[s] = v[y] + G[t]
    BY <1>6, <2>1 DEF SumsOver
  <2>6. v[y] = (IF y = x THEN w[y] + d ELSE w[y]) /\ w[y] \in Int
    BY <2>2 DEF Raised
  <2>7. (x \in s <=> x = y \/ x \in t) /\ y \notin t
    BY <2>1, <2>2
  <2>8. F[t] \in Int /\ G[t] = IF x \in t THEN F[t] + d ELSE F[t]
    BY <2>4
  <2>9. Moved(s)
    BY <2>5, <2>6, <2>7, <2>8
  <2> QED BY <1>4, <2>9
<1> QED BY <1>5, <1>6

\* Finite sets have sums.
LEMMA SumsOverExist ==
    ASSUME NEW S, IsFiniteSet(S), NEW w \in [S -> Int]
    PROVE  \E F \in [SUBSET S -> Int] : SumsOver(F, w, S)
<1> DEFINE UpTo(F, n) ==
              /\ F \in [SUBSET S -> Int] /\ F[{}] = 0
              /\ \A s \in SUBSET S : (s # {} /\ Cardinality(s) <= n)
                    => F[s] = w[First(s)] + F[s \ {First(s)}]
           D == {n \in Nat : ~ \E F : UpTo(F, n)}
<1>1. D = {}
  <2>1. SUFFICES ASSUME D # {} PROVE FALSE
    OBVIOUS
  <2>2. PICK n \in D : \A k \in D : n <= k
    <3>1. D \subseteq Nat
      OBVIOUS
    <3> HIDE DEF D
    <3> QED BY <2>1, <3>1, LeastNumber
  <2>3. CASE n = 0
    <3>1. PICK F : F = [s \in SUBSET S |-> 0]
      OBVIOUS
    <3>2. ASSUME NEW s \in SUBSET S, s # {}
          PROVE  ~ (Cardinality(s) <= 0)
      <4>1. Cardinality(s) \in Nat \ {0}
        BY <3>2, FirstTaken
      <4> QED BY <4>1
    <3>3. F \in [SUBSET S -> Int] /\ F[{}] = 0
      BY <3>1
    <3>4. UpTo(F, 0)
      BY <3>2, <3>3
    <3> HIDE DEF UpTo
    <3> QED BY <2>2, <2>3, <3>4
  <2>4. CASE n # 0
    <3>1. n \in Nat /\ n - 1 \in Nat /\ ~ (n <= n - 1)
      BY <2>2, <2>4
    <3>2. PICK G : UpTo(G, n - 1)
      <4> HIDE DEF UpTo
      <4> QED BY <2>2, <3>1
    <3>3. PICK F : F = [s \in SUBSET S |-> IF s = {} THEN 0
                                           ELSE w[First(s)] + G[s \ {First(s)}]]
      OBVIOUS
    <3>4. F \in [SUBSET S -> Int] /\ F[{}] = 0
      <4>1. ASSUME NEW s \in SUBSET S, s # {}
            PROVE  w[First(s)] + G[s \ {First(s)}] \in Int
        <5>1. First(s) \in S /\ s \ {First(s)} \in SUBSET S
          BY <4>1, FirstTaken
        <5>2. w[First(s)] \in Int /\ G[s \ {First(s)}] \in Int
          BY <3>2, <5>1
        <5> QED BY <5>2
      <4> QED BY <3>3, <4>1
    <3>5. ASSUME NEW s \in SUBSET S, s # {}, Cardinality(s) <= n
          PROVE  F[s] = w[First(s)] + F[s \ {First(s)}]
      <4>1. PICK t : t = s \ {First(s)}
        OBVIOUS
      <4>2. t \in SUBSET S /\ Cardinality(t) <= n - 1
        BY <3>1, <3>5, <4>1, FirstTaken
      <4>3. F[t] = G[t]
        BY <3>2, <3>3, <4>2
      <4>4. F[s] = w[First(s)] + G[t]
        BY <3>3, <3>5, <4>1
      <4> QED BY <4>1, <4>3, <4>4
    <3>6. UpTo(F, n)
      BY <3>4, <3>5
    <3> HIDE DEF UpTo
    <3> QED BY <2>2, <3>6
  <2> QED BY <2>3, <2>4
<1>2. PICK n \in Nat : n = Cardinality(S)
  BY FS_CardinalityType
<1>3. PICK F : UpTo(F, n)
  <2> HIDE DEF UpTo
  <2> QED BY <1>1
<1>4. \A s \in SUBSET S : Cardinality(s) <= n
  BY <1>2, FS_Subset
<1> QED BY <1>3, <1>4 DEF SumsOver

\* Weights of nothing sum up to nothing.
LEMMA SumOfZeros ==
    ASSUME NEW S, IsFiniteSet(S), NEW w \in [S -> Int], \A y \in S : w[y] = 0,
           NEW F, SumsOver(F, w, S)
    PROVE  F[S] = 0
<1>1. PICK Z : Z = [s \in SUBSET S |-> 0]
  OBVIOUS
<1>2. SumsOver(Z, w, S)
  <2>1. ASSUME NEW s \in SUBSET S, s # {}
        PROVE  Z[s] = w[First(s)] + Z[s \ {First(s)}]
    <3>1. First(s) \in S /\ s \ {First(s)} \in SUBSET S
      BY <2>1, FirstTaken
    <3>2. Z[s] = 0 /\ w[First(s)] = 0 /\ Z[s \ {First(s)}] = 0
      BY <1>1, <3>1
    <3> QED BY <3>2
  <2> QED BY <1>1, <2>1 DEF SumsOver
<1>3. PICK d \in Int : d = 0
  OBVIOUS
<1>4. Raised(w, w, S, d, S)
  BY <1>3 DEF Raised
<1>5. \A s \in SUBSET S : Z[s] \in Int /\ F[s] = IF S \in s THEN Z[s] + d ELSE Z[s]
  <2> HIDE DEF SumsOver
  <2> QED BY <1>2, <1>4, SumsMove
<1>6. Z[S] = 0 /\ S \in SUBSET S
  BY <1>1
<1> QED BY <1>3, <1>5, <1>6

-----------------------------------------------------------------------------
(* What the nights of a stay cost. *)

\* Whole days that begin before the end: those whose number is below Math.ceil.
LEMMA DaysBegun ==
    ASSUME NEW d \in Nat \ {0}, NEW length \in Nat \ {0}
    PROVE  /\ (length + d - 1) \div d \in Nat
           /\ \A i \in Nat : i < (length + d - 1) \div d <=> i * d < length
<1>1. PICK q \in Nat : q = (length + d - 1) \div d
  OBVIOUS
<1>2. q * d <= length + d - 1 /\ length + d - 1 < q * d + d
  BY <1>1
<1>3. ASSUME NEW i \in Nat, i < q
      PROVE  i * d < length
  <2>1. (i + 1) * d <= q * d
    BY <1>3
  <2>2. (i + 1) * d = i * d + d
    OBVIOUS
  <2> QED BY <1>2, <2>1, <2>2
<1>4. ASSUME NEW i \in Nat, i * d < length
      PROVE  i < q
  <2>1. SUFFICES ASSUME q <= i PROVE FALSE
    BY <1>1
  <2>2. q * d <= i * d
    BY <2>1
  <2> QED BY <1>2, <1>4, <2>2
<1> QED BY <1>1, <1>3, <1>4

\* The first n nights of a stay that begins at start.
FirstNights(start, n) == {start + i * DayLength : i \in 0 .. n - 1}

\* The nights of a stay are the first Math.ceil ones.
LEMMA NightsOfStay ==
    ASSUME NEW stay, stay.start \in Int, stay.end \in Int, stay.start < stay.end
    PROVE  Nights(stay) \in Nat /\ NightStarts(stay) = FirstNights(stay.start, Nights(stay))
<1> USE DayLengthAssumption DEF DayLengthAssumption
<1>1. PICK s \in Int, e \in Int, length \in Nat \ {0} :
        s = stay.start /\ e = stay.end /\ length = e - s
  OBVIOUS
<1>2. PICK n : n = Nights(stay)
  OBVIOUS
<1>3. n \in Nat /\ \A i \in Nat : i < n <=> i * DayLength < length
  <2>1. n = (length + DayLength - 1) \div DayLength
    BY <1>1, <1>2 DEF Nights
  <2> QED BY <2>1, DaysBegun
<1>4. ASSUME NEW t \in NightStarts(stay)
      PROVE  t \in FirstNights(s, n)
  <2>1. t \in Int /\ s <= t /\ t < e /\ (t - s) % DayLength = 0
    BY <1>1 DEF NightStarts
  <2>2. PICK i \in Nat : i = (t - s) \div DayLength
    BY <2>1
  <2>3. t - s = i * DayLength
    BY <2>1, <2>2
  <2>4. i * DayLength < length
    BY <1>1, <2>1, <2>3
  <2>5. i < n
    BY <1>3, <2>4
  <2>6. i \in 0 .. n - 1 /\ t = s + i * DayLength
    BY <1>3, <2>1, <2>3, <2>5
  <2> QED BY <2>6 DEF FirstNights
<1>5. ASSUME NEW t \in FirstNights(s, n)
      PROVE  t \in NightStarts(stay)
  <2>1. PICK i \in 0 .. n - 1 : t = s + i * DayLength
    BY DEF FirstNights
  <2>2. i \in Nat /\ i < n
    BY <1>3
  <2>3. PICK x \in Nat : x = i * DayLength
    BY <2>2
  <2>4. x < length /\ x % DayLength = 0
    BY <1>3, <2>2, <2>3
  <2>5. t = s + x
    BY <2>1, <2>3
  <2>6. t \in s .. e - 1 /\ t - s = x
    <3>1. x < e - s
      BY <1>1, <2>4
    <3> QED BY <2>5, <3>1
  <2> QED BY <1>1, <2>4, <2>6 DEF NightStarts
<1> QED BY <1>1, <1>2, <1>3, <1>4, <1>5

\* Another night is a new one.
LEMMA OneNightMore ==
    ASSUME NEW s \in Int, NEW n \in Nat
    PROVE  /\ FirstNights(s, n + 1) = FirstNights(s, n) \cup {s + n * DayLength}
           /\ s + n * DayLength \notin FirstNights(s, n)
           /\ s + n * DayLength \in Int
<1> USE DayLengthAssumption DEF DayLengthAssumption
<1>1. 0 .. (n + 1) - 1 = (0 .. n - 1) \cup {n}
  OBVIOUS
<1>2. ASSUME NEW i \in 0 .. n - 1
      PROVE  s + i * DayLength # s + n * DayLength
  <2>1. (i + 1) * DayLength <= n * DayLength
    <3>1. i \in Nat /\ i + 1 <= n
      OBVIOUS
    <3> QED BY <3>1
  <2>2. (i + 1) * DayLength = i * DayLength + DayLength
    OBVIOUS
  <2>3. i * DayLength \in Int /\ n * DayLength \in Int
    OBVIOUS
  <2> QED BY <2>1, <2>2, <2>3
<1>3. s + n * DayLength \in Int
  OBVIOUS
<1> QED BY <1>1, <1>2, <1>3 DEF FirstNights

\* The nights of a stay are finitely many.
LEMMA NightsAreFinite ==
    ASSUME NEW s \in Int, NEW n \in Nat
    PROVE  IsFiniteSet(FirstNights(s, n))
<1>1. IsFiniteSet(0 .. n - 1)
  BY FS_Interval
<1>2. PICK f : f = [i \in 0 .. n - 1 |-> s + i * DayLength]
  OBVIOUS
<1>3. FirstNights(s, n) = {f[i] : i \in 0 .. n - 1}
  BY <1>2 DEF FirstNights
<1>4. f \in Surjection(0 .. n - 1, FirstNights(s, n))
  BY <1>2, <1>3 DEF Surjection
<1> QED BY <1>1, <1>4, FS_Surjection

\* Rows as setAvailability inserts them, and apart.
RowsApart(rows) ==
    /\ rows \in Seq(Overrides)
    /\ \A i, j \in DOMAIN rows : i # j => ~ Touches(rows[i], rows[j])

PriceRows(rows) == {o \in Range(rows) : o.price # NoPrice}

\* Row o has a price for the night that begins at t.
Prices(o, t) == o.status = "PRICE_OVERRIDE" /\ o.price # NoPrice /\ o.start <= t /\ t < o.end

\* The rows of a listing are finitely many and have their types.
LEMMA RowsOfSequence ==
    ASSUME NEW rows, RowsApart(rows)
    PROVE  /\ IsFiniteSet(PriceRows(rows))
           /\ \A o \in PriceRows(rows) : o \in Range(rows) /\ o \in Overrides /\ o.price \in Int
           /\ \A o \in Range(rows) : o \in Overrides /\ \E i \in DOMAIN rows : o = rows[i]
           /\ DOMAIN rows \subseteq Nat
           /\ Priced(rows)
<1>1. PICK n \in Nat : rows \in [1 .. n -> Overrides]
  BY DEF RowsApart
<1>2. \A i \in DOMAIN rows : rows[i] \in Overrides
  BY <1>1
<1>3. \A o \in Overrides : o.price \in Nat \cup {NoPrice}
  BY AccommodationAssumption
<1>4. \A o \in Range(rows) : o \in Overrides /\ \E i \in DOMAIN rows : o = rows[i]
  BY <1>2 DEF Range
<1>5. IsFiniteSet(Range(rows))
  <2>1. rows \in Surjection(1 .. n, Range(rows))
    BY <1>1 DEF Surjection, Range
  <2> QED BY <2>1, FS_Surjection, FS_Interval
<1>6. IsFiniteSet(PriceRows(rows))
  BY <1>5, FS_Subset DEF PriceRows
<1>7. \A o \in PriceRows(rows) : o \in Range(rows) /\ o \in Overrides /\ o.price \in Int
  BY <1>3, <1>4 DEF PriceRows
<1>8. DOMAIN rows \subseteq Nat
  BY <1>1
<1>9. Priced(rows)
  BY <1>2, <1>3, <1>8 DEF Priced
<1> QED BY <1>4, <1>6, <1>7, <1>8, <1>9

\* Where overrides are apart, the row that find() comes to first is the only one.
LEMMA NightIsPricedOnce ==
    ASSUME NEW rows, RowsApart(rows), NEW base \in Int, NEW t \in Int
    PROVE  \/ \E o \in PriceRows(rows) :
                 /\ Prices(o, t) /\ NightPrice(base, rows, t) = o.price
                 /\ \A q \in Range(rows) : Prices(q, t) => q = o
           \/ /\ NightPrice(base, rows, t) = base
              /\ \A q \in Range(rows) : ~ Prices(q, t)
<1>1. PICK hits : hits = Covering(rows, t)
  OBVIOUS
<1>2. hits \subseteq DOMAIN rows /\ hits \subseteq Nat
  BY <1>1, RowsOfSequence DEF Covering
<1>3. \A i, j \in hits : i = j
  <2>1. SUFFICES ASSUME NEW i \in hits, NEW j \in hits, i # j PROVE FALSE
    OBVIOUS
  <2>2. /\ rows[i].start <= t /\ t < rows[i].end
        /\ rows[j].start <= t /\ t < rows[j].end
    BY <1>1 DEF Covering
  <2>3. rows[i] \in Overrides /\ rows[j] \in Overrides
    BY <1>2, RowsOfSequence DEF Range
  <2>4. /\ rows[i].start \in Int /\ rows[i].end \in Int
        /\ rows[j].start \in Int /\ rows[j].end \in Int
    BY <2>3, AccommodationAssumption
  <2>5. rows[i].start <= rows[j].end /\ rows[j].start <= rows[i].end
    BY <2>2, <2>4
  <2> QED BY <1>2, <2>1, <2>5 DEF RowsApart, Touches
<1>4. PICK first : first = CHOOSE i \in hits : \A j \in hits : i <= j
  OBVIOUS
<1>5. NightPrice(base, rows, t)
        = IF hits # {} /\ rows[first].price # NoPrice THEN rows[first].price ELSE base
  BY <1>1, <1>4 DEF NightPrice
<1>6. hits # {} => first \in hits
  BY <1>2, <1>4, LeastNumber
<1>7. \A i \in DOMAIN rows : Prices(rows[i], t) <=> i \in hits /\ rows[i].price # NoPrice
  BY <1>1 DEF Covering, Prices
<1>8. CASE hits # {} /\ rows[first].price # NoPrice
  <2>1. first \in DOMAIN rows /\ first \in hits
    BY <1>2, <1>6, <1>8
  <2>2. rows[first] \in PriceRows(rows)
    BY <1>8, <2>1 DEF PriceRows, Range
  <2>3. Prices(rows[first], t) /\ NightPrice(base, rows, t) = rows[first].price
    BY <1>5, <1>7, <1>8, <2>1
  <2>4. \A q \in Range(rows) : Prices(q, t) => q = rows[first]
    BY <1>3, <1>7, <2>1 DEF Range
  <2> QED BY <2>2, <2>3, <2>4
<1>9. CASE ~ (hits # {} /\ rows[first].price # NoPrice)
  <2>1. \A q \in Range(rows) : ~ Prices(q, t)
    BY <1>3, <1>6, <1>7, <1>9 DEF Range
  <2>2. NightPrice(base, rows, t) = base
    BY <1>5, <1>9
  <2> QED BY <2>1, <2>2
<1> QED BY <1>8, <1>9

\* The nights that row o prices among the first n, and those that no row prices.
Hits(o, s, n) == {t \in FirstNights(s, n) : Prices(o, t)}
Plain(rows, s, n) == {t \in FirstNights(s, n) : ~ \E o \in Range(rows) : Prices(o, t)}

\* What each row adds to the price of the first n nights.
Shares(rows, s, n) == [o \in PriceRows(rows) |-> Cardinality(Hits(o, s, n)) * o.price]

\* The nights of each row and those of no row are finitely many.
LEMMA NightsAreParted ==
    ASSUME NEW rows, RowsApart(rows), NEW s \in Int, NEW n \in Nat
    PROVE  /\ \A o : IsFiniteSet(Hits(o, s, n)) /\ Cardinality(Hits(o, s, n)) \in Nat
           /\ IsFiniteSet(Plain(rows, s, n)) /\ Cardinality(Plain(rows, s, n)) \in Nat
           /\ Shares(rows, s, n) \in [PriceRows(rows) -> Int]
<1>1. IsFiniteSet(FirstNights(s, n))
  BY NightsAreFinite
<1>2. ASSUME NEW o
      PROVE  IsFiniteSet(Hits(o, s, n)) /\ Cardinality(Hits(o, s, n)) \in Nat
  <2>1. IsFiniteSet(Hits(o, s, n))
    BY <1>1, FS_Subset DEF Hits
  <2> QED BY <2>1, FS_CardinalityType
<1>3. IsFiniteSet(Plain(rows, s, n)) /\ Cardinality(Plain(rows, s, n)) \in Nat
  <2>1. IsFiniteSet(Plain(rows, s, n))
    BY <1>1, FS_Subset DEF Plain
  <2> QED BY <2>1, FS_CardinalityType
<1>4. ASSUME NEW o \in PriceRows(rows)
      PROVE  Cardinality(Hits(o, s, n)) * o.price \in Int
  <2>1. o.price \in Int
    BY RowsOfSequence
  <2> QED BY <1>2, <2>1
<1>5. Shares(rows, s, n) \in [PriceRows(rows) -> Int]
  BY <1>4 DEF Shares
<1> QED BY <1>2, <1>3, <1>5

\* One night more adds what it costs, once.
LEMMA NightIsShared ==
    ASSUME NEW rows, RowsApart(rows), NEW base \in Int, NEW s \in Int, NEW n \in Nat,
           NEW F, SumsOver(F, Shares(rows, s, n), PriceRows(rows)),
           NEW G, SumsOver(G, Shares(rows, s, n + 1), PriceRows(rows))
    PROVE  /\ F[PriceRows(rows)] \in Int
           /\ G[PriceRows(rows)] + base * Cardinality(Plain(rows, s, n + 1))
                = F[PriceRows(rows)] + base * Cardinality(Plain(rows, s, n))
                  + NightPrice(base, rows, s + n * DayLength)
<1>1. PICK S, w, v, t : /\ S = PriceRows(rows) /\ t = s + n * DayLength
                        /\ w = Shares(rows, s, n) /\ v = Shares(rows, s, n + 1)
  OBVIOUS
<1>2. /\ t \in Int /\ t \notin FirstNights(s, n)
      /\ FirstNights(s, n + 1) = FirstNights(s, n) \cup {t}
  BY <1>1, OneNightMore
<1>3. IsFiniteSet(S) /\ w \in [S -> Int] /\ v \in [S -> Int]
  BY <1>1, RowsOfSequence, NightsAreParted
<1>4. SumsOver(F, w, S) /\ SumsOver(G, v, S)
  BY <1>1
<1>5. S \in SUBSET S
  OBVIOUS
\* The set of nights of a row grows by the night if the row prices it.
<1>6. ASSUME NEW o \in S
      PROVE  v[o] = IF Prices(o, t) THEN w[o] + o.price ELSE w[o]
  <2>1. /\ w[o] = Cardinality(Hits(o, s, n)) * o.price
        /\ v[o] = Cardinality(Hits(o, s, n + 1)) * o.price
    BY <1>1 DEF Shares
  <2>2. IsFiniteSet(Hits(o, s, n)) /\ Cardinality(Hits(o, s, n)) \in Nat /\ o.price \in Int
    BY <1>1, NightsAreParted, RowsOfSequence
  <2>3. CASE Prices(o, t)
    <3>1. Hits(o, s, n + 1) = Hits(o, s, n) \cup {t} /\ t \notin Hits(o, s, n)
      BY <1>2, <2>3 DEF Hits
    <3>2. Cardinality(Hits(o, s, n + 1)) = Cardinality(Hits(o, s, n)) + 1
      BY <2>2, <3>1, FS_AddElement
    <3>3. PICK c \in Nat, p \in Int : c = Cardinality(Hits(o, s, n)) /\ p = o.price
      BY <2>2
    <3>4. (c + 1) * p = c * p + p
      OBVIOUS
    <3> QED BY <2>1, <2>3, <3>2, <3>3, <3>4
  <2>4. CASE ~ Prices(o, t)
    <3>1. Hits(o, s, n + 1) = Hits(o, s, n)
      BY <1>2, <2>4 DEF Hits
    <3> QED BY <2>1, <2>4, <3>1
  <2> QED BY <2>3, <2>4
<1>7. CASE \E o \in S : /\ Prices(o, t) /\ NightPrice(base, rows, t) = o.price
                        /\ \A q \in Range(rows) : Prices(q, t) => q = o
  <2>1. PICK o \in S : /\ Prices(o, t) /\ NightPrice(base, rows, t) = o.price
                       /\ \A q \in Range(rows) : Prices(q, t) => q = o
    BY <1>7
  <2>2. PICK d \in Int : d = o.price
    BY <1>1, RowsOfSequence
  <2>3. \A q \in S : Prices(q, t) <=> q = o
    BY <1>1, <2>1 DEF PriceRows
  <2>4. Raised(v, w, o, d, S)
    BY <1>6, <2>2, <2>3 DEF Raised
  <2>5. \A u \in SUBSET S : F[u] \in Int /\ G[u] = IF o \in u THEN F[u] + d ELSE F[u]
    BY <1>3, <1>4, <2>4, SumsMove
  <2>6. F[S] \in Int /\ G[S] = F[S] + d
    BY <1>5, <2>1, <2>5
  <2>7. Plain(rows, s, n + 1) = Plain(rows, s, n)
    BY <1>1, <1>2, <2>1 DEF Plain, PriceRows
  <2>8. PICK c \in Int : c = base * Cardinality(Plain(rows, s, n))
    BY NightsAreParted
  <2> QED BY <1>1, <2>1, <2>2, <2>6, <2>7, <2>8
<1>8. CASE NightPrice(base, rows, t) = base /\ \A q \in Range(rows) : ~ Prices(q, t)
  <2>1. PICK d \in Int : d = 0
    OBVIOUS
  <2>2. Raised(v, w, S, d, S)
    <3>1. \A o \in S : v[o] = w[o] /\ w[o] \in Int
      BY <1>1, <1>3, <1>6, <1>8 DEF PriceRows
    <3> QED BY <2>1, <3>1 DEF Raised
  <2>3. \A u \in SUBSET S : F[u] \in Int /\ G[u] = IF S \in u THEN F[u] + d ELSE F[u]
    BY <1>3, <1>4, <2>2, SumsMove
  <2>4. F[S] \in Int /\ G[S] = F[S]
    BY <1>5, <2>1, <2>3
  <2>5. Plain(rows, s, n + 1) = Plain(rows, s, n) \cup {t} /\ t \notin Plain(rows, s, n)
    BY <1>2, <1>8 DEF Plain
  <2>6. PICK c \in Nat : c = Cardinality(Plain(rows, s, n))
    BY NightsAreParted
  <2>7. Cardinality(Plain(rows, s, n + 1)) = c + 1
    BY <2>5, <2>6, NightsAreParted, FS_AddElement
  <2>8. base * (c + 1) = base * c + base /\ base * c \in Int
    OBVIOUS
  <2> QED BY <1>1, <1>8, <2>4, <2>6, <2>7, <2>8
<1> QED BY <1>1, <1>2, <1>7, <1>8, NightIsPricedOnce

\* The first n nights cost what the rows have for theirs, and the base price for the others.
LEMMA NightsSumUp ==
    ASSUME NEW rows, RowsApart(rows), NEW base \in Int, NEW s \in Int, NEW N \in Nat,
           NEW f, AddsUp(f, N, PriceOfNight(base, rows, s)),
           NEW F, SumsOver(F, Shares(rows, s, N), PriceRows(rows))
    PROVE  f[N] = F[PriceRows(rows)] + base * Cardinality(Plain(rows, s, N))
<1> DEFINE Sum(n, G) == SumsOver(G, Shares(rows, s, n), PriceRows(rows))
           Total(n, G) == G[PriceRows(rows)] + base * Cardinality(Plain(rows, s, n))
           D == {n \in 0 .. N : \E G : Sum(n, G) /\ f[n] # Total(n, G)}
<1>1. SUFFICES ASSUME D # {} PROVE FALSE
  OBVIOUS
<1>2. PICK n \in D : \A k \in D : n <= k
  <2>1. D \subseteq Nat
    OBVIOUS
  <2> HIDE DEF D
  <2> QED BY <1>1, <2>1, LeastNumber
<1>3. PICK G : Sum(n, G) /\ f[n] # Total(n, G)
  BY <1>2
<1>4. n \in 0 .. N /\ n \in Nat
  BY <1>2
<1>5. CASE n = 0
  <2>1. FirstNights(s, 0) = {}
    BY DEF FirstNights
  <2>2. Cardinality(Plain(rows, s, 0)) = 0
    BY <2>1, FS_EmptySet DEF Plain
  <2>3. \A o \in PriceRows(rows) : Shares(rows, s, 0)[o] = 0
    <3>1. ASSUME NEW o \in PriceRows(rows)
          PROVE  Shares(rows, s, 0)[o] = 0
      <4>1. Cardinality(Hits(o, s, 0)) = 0
        BY <2>1, FS_EmptySet DEF Hits
      <4>2. o.price \in Int
        BY RowsOfSequence
      <4> QED BY <4>1, <4>2 DEF Shares
    <3> QED BY <3>1
  <2>4. G[PriceRows(rows)] = 0
    BY <1>3, <1>5, <2>3, RowsOfSequence, NightsAreParted, SumOfZeros
  <2>5. f[0] = 0
    BY DEF AddsUp
  <2> QED BY <1>3, <1>5, <2>2, <2>4, <2>5
<1>6. CASE n # 0
  <2>1. PICK m \in Nat : m = n - 1 /\ n = m + 1 /\ m \in 0 .. N /\ ~ (n <= m)
    BY <1>4, <1>6
  <2>2. PICK H : Sum(m, H)
    BY NightsAreParted, RowsOfSequence, SumsOverExist
  <2>3. f[m] = Total(m, H)
    <3>1. m \notin D
      <4> HIDE DEF D
      <4> QED BY <1>2, <2>1
    <3> HIDE DEF Sum, Total
    <3> QED BY <2>1, <2>2, <3>1
  <2>4. f[n] = f[m] + PriceOfNight(base, rows, s)[m]
    <3>1. n \in 1 .. N
      BY <1>4, <1>6
    <3> QED BY <2>1, <3>1 DEF AddsUp
  <2>5. PriceOfNight(base, rows, s)[m] = NightPrice(base, rows, s + m * DayLength)
    BY DEF PriceOfNight
  <2>6. Total(n, G) = Total(m, H) + NightPrice(base, rows, s + m * DayLength)
    BY <1>3, <2>1, <2>2, NightIsShared
  <2> HIDE DEF Sum, Total
  <2> QED BY <1>3, <2>3, <2>4, <2>5, <2>6
<1> QED BY <1>5, <1>6

\* What the price overrides charge for a stay.
ChargedByRows(rows, stay) ==
    MapThenSumSet(LAMBDA o : Cardinality(PricedBy(o, stay)) * o.price,
                  {o \in Range(rows) : o.price # NoPrice})

\* The loop and the sum over the rows agree where rows are apart.
LEMMA StayIsSum ==
    ASSUME NEW rows, RowsApart(rows), NEW base \in Int,
           NEW stay, stay.start \in Int, stay.end \in Int, stay.start < stay.end
    PROVE  CalculateTotalPrice(base, rows, stay)
             = ChargedByRows(rows, stay)
               + base * Cardinality(NightStarts(stay) \ UNION {PricedBy(o, stay) : o \in Range(rows)})
<1>1. PICK N \in Nat, s \in Int : N = Nights(stay) /\ s = stay.start
  BY NightsOfStay
<1>2. NightStarts(stay) = FirstNights(s, N)
  BY <1>1, NightsOfStay
<1>3. \A o : PricedBy(o, stay) = Hits(o, s, N)
  BY <1>2 DEF PricedBy, Hits, Prices
<1>4. NightStarts(stay) \ UNION {PricedBy(o, stay) : o \in Range(rows)} = Plain(rows, s, N)
  BY <1>2, <1>3 DEF Hits, Plain
<1>5. PICK f : /\ AddsUp(f, N, PriceOfNight(base, rows, s))
               /\ CalculateTotalPrice(base, rows, stay) = f[N]
  BY <1>1, RowsOfSequence, TotalAddsUp
<1>6. PICK F \in [SUBSET PriceRows(rows) -> Int] :
        SumsOver(F, Shares(rows, s, N), PriceRows(rows))
  BY RowsOfSequence, NightsAreParted, SumsOverExist
<1>7. f[N] = F[PriceRows(rows)] + base * Cardinality(Plain(rows, s, N))
  BY <1>5, <1>6, NightsSumUp
\* The sum of the library takes the elements in the same order.
<1>8. ChargedByRows(rows, stay) = F[PriceRows(rows)]
  <2> DEFINE S == PriceRows(rows)
             sum[u \in SUBSET S] ==
                IF u = {} THEN 0
                ELSE LET x == CHOOSE x \in u : TRUE
                     IN  Cardinality(PricedBy(x, stay)) * x.price + sum[u \ {x}]
  <2>1. ChargedByRows(rows, stay) = sum[S]
    BY DEF ChargedByRows, PriceRows, MapThenSumSet, MapThenFoldSet
  <2>2. F = [u \in SUBSET S |->
               IF u = {} THEN 0
               ELSE LET x == CHOOSE x \in u : TRUE
                    IN  Cardinality(PricedBy(x, stay)) * x.price + F[u \ {x}]]
    <3>1. F = [u \in SUBSET S |-> F[u]]
      BY <1>6
    <3>2. ASSUME NEW u \in SUBSET S, u # {}
          PROVE  F[u] = Cardinality(PricedBy(First(u), stay)) * First(u).price + F[u \ {First(u)}]
      <4>1. F[u] = Shares(rows, s, N)[First(u)] + F[u \ {First(u)}]
        BY <1>6, <3>2 DEF SumsOver
      <4>2. First(u) \in S
        BY <3>2, RowsOfSequence, FirstTaken
      <4>3. Shares(rows, s, N)[First(u)] = Cardinality(PricedBy(First(u), stay)) * First(u).price
        BY <1>3, <4>2 DEF Shares
      <4> QED BY <4>1, <4>3
    <3>3. F[{}] = 0
      BY <1>6 DEF SumsOver
    <3>4. \A u \in SUBSET S :
            F[u] = IF u = {} THEN 0
                   ELSE Cardinality(PricedBy(First(u), stay)) * First(u).price + F[u \ {First(u)}]
      <4> HIDE DEF S
      <4> QED BY <3>2, <3>3
    <3> HIDE DEF S
    <3> QED BY <3>1, <3>4 DEF First
  <2>3. sum = [u \in SUBSET S |->
                 IF u = {} THEN 0
                 ELSE LET x == CHOOSE x \in u : TRUE
                      IN  Cardinality(PricedBy(x, stay)) * x.price + sum[u \ {x}]]
    BY <2>2
  <2> HIDE DEF sum
  <2>4. SumsOver(sum, Shares(rows, s, N), S)
    <3>1. ASSUME NEW u \in SUBSET S, u # {}
          PROVE  sum[u] = Shares(rows, s, N)[First(u)] + sum[u \ {First(u)}]
      <4>1. sum[u] = Cardinality(PricedBy(First(u), stay)) * First(u).price + sum[u \ {First(u)}]
        BY <2>3, <3>1 DEF First
      <4>2. First(u) \in S
        BY <3>1, RowsOfSequence, FirstTaken
      <4>3. Shares(rows, s, N)[First(u)] = Cardinality(PricedBy(First(u), stay)) * First(u).price
        BY <1>3, <4>2 DEF Shares
      <4> QED BY <4>1, <4>3
    <3>2. sum[{}] = 0
      BY <2>3
    <3> QED BY <3>1, <3>2 DEF SumsOver
  <2>5. PICK d \in Int : d = 0
    OBVIOUS
  <2>6. PICK w \in [S -> Int] : w = Shares(rows, s, N)
    BY NightsAreParted
  <2>7. Raised(w, w, S, d, S)
    BY <2>5, <2>6 DEF Raised
  <2>8. IsFiniteSet(S) /\ SumsOver(F, w, S) /\ SumsOver(sum, w, S)
    BY <1>6, <2>4, <2>6, RowsOfSequence
  <2>9. \A u \in SUBSET S : F[u] \in Int /\ sum[u] = IF S \in u THEN F[u] + d ELSE F[u]
    <3> HIDE DEF S
    <3> QED BY <2>7, <2>8, SumsMove
  <2>10. F[S] \in Int /\ sum[S] = IF S \in S THEN F[S] + d ELSE F[S]
    <3> HIDE DEF S
    <3> QED BY <2>9
  <2> QED BY <2>1, <2>5, <2>10
<1> QED BY <1>4, <1>5, <1>7, <1>8

\* calculateTotalPrice charges each night once: what a stay costs is the sum, over the
\* price overrides of the listing, of the nights each of them covers, and the base price
\* for the others, for any stay and any overrides that no race has let touch.
THEOREM TotalsAreSums == Spec => []TotalIsSumOverOverrides
<1>1. OverlapInv /\ Typed => TotalIsSumOverOverrides
  <2>1. SUFFICES ASSUME OverlapInv, Typed, NEW p \in Properties, NEW stay \in Stays,
                        stay.start < stay.end, <<"availability", p>> \notin raced
                 PROVE  CalculateTotalPrice(listing[p].basePrice, overrides[p], stay)
                          = ChargedByRows(overrides[p], stay)
                            + listing[p].basePrice
                              * Cardinality(NightStarts(stay)
                                            \ UNION {PricedBy(o, stay) : o \in Range(overrides[p])})
    BY DEF TotalIsSumOverOverrides, Price, ChargedByRows
  <2>2. stay.start \in Int /\ stay.end \in Int
    BY AccommodationAssumption
  <2>3. listing[p].basePrice \in Int
    <3>1. listing[p] \in ListingRows
      BY <2>1 DEF Typed, ListingTyped
    <3>2. BasePrices \subseteq Int
      BY AccommodationAssumption
    <3>3. listing[p].basePrice \in BasePrices \cup {0}
      BY <3>1 DEF ListingRows
    <3>4. BasePrices \cup {0} \subseteq Int
      BY <3>2
    <3> QED BY <3>3, <3>4
  <2>4. RowsApart(overrides[p])
    BY <2>1 DEF OverlapInv, Shape, OverlapNeedsRace, RowsApart
  <2> QED BY <2>1, <2>2, <2>3, <2>4, StayIsSum
<1>2. OverlapInv /\ Typed /\ [Next]_vars => Typed'
  BY AccommodationAssumption, RequestsStayTyped, ListingStaysTyped, RecordsStayTyped
     DEF OverlapInv, Typed
<1> QED BY <1>1, <1>2, StartsTyped, InitOverlapInv, NextOverlapInv, PTL DEF Spec
=============================================================================
