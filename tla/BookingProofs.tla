---------------------------- MODULE BookingProofs ----------------------------
(***************************************************************************)
(* Proofs about Booking, for any numbers of properties, bookings, calls    *)
(* and faults, and any claims and overrides.                               *)
(***************************************************************************)
EXTENDS Booking, TLAPS

(***************************************************************************)
(* A confirm or cancel in progress works on a row that exists.             *)
(***************************************************************************)
CallsHaveRows ==
    \A c \in Calls :
        call[c].step # "idle" =>
            /\ call[c].booking \in Bookings
            /\ status[call[c].booking] # "NONE"

(***************************************************************************)
(* A request that is still on its way has no row, and only a request that  *)
(* has answered has a job.                                                 *)
(***************************************************************************)
RowsComeFromCommits ==
    \A b \in Bookings :
        /\ (status[b] # "NONE") <=> (create[b] \in {"committed", "done"})
        /\ (job[b] # "none") => (create[b] = "done")

(***************************************************************************)
(* A request that has passed the test of the price has one.                *)
(***************************************************************************)
PriceIsTested ==
    \A b \in Bookings :
        create[b] \in {"checked", "locked", "rechecked"} => totalPrice[b] > 0

\* The inductive invariant.
IInv ==
    /\ TypeOK
    /\ LockIsHeldInTransaction
    /\ RowsComeFromCommits
    /\ PriceIsTested
    /\ CallsHaveRows
    /\ RecheckStaysValid
    /\ OverlapNeedsRevival

-----------------------------------------------------------------------------
\* Overlap is symmetric, hence so is a clash of claims.
LEMMA ClashIsSymmetric ==
    ASSUME NEW a \in Claims, NEW b \in Claims, Clash(a, b)
    PROVE  Clash(b, a)
BY DEF Clash, Overlaps

LEMMA InitIInv == Init => IInv
<1> SUFFICES ASSUME Init PROVE IInv
  OBVIOUS
<1> USE DEF Init
<1>1. TypeOK
  <2>1. \A p \in Properties :
            /\ listing[p].isActive \in BOOLEAN
            /\ listing[p].basePrice \in BasePrices
            /\ listing[p].overrides \in Seq(Overrides)
    <3> TAKE p \in Properties
    <3>1. listing[p] \in [isActive : {TRUE}, basePrice : BasePrices, overrides : {<<>>}]
      OBVIOUS
    <3>2. <<>> \in Seq(Overrides)
      OBVIOUS
    <3> QED BY <3>1, <3>2
  <2>2. call \in [Calls -> CallRecords]
    BY DEF Idle, CallSteps, CallRecords
  <2> QED BY <2>1, <2>2 DEF TypeOK, RowsHavePrice, Statuses, CreateSteps, JobStates
<1>2. LockIsHeldInTransaction
  BY BookingAssumption DEF LockIsHeldInTransaction, InTransaction
<1>3. RowsComeFromCommits
  BY DEF RowsComeFromCommits
<1>4. CallsHaveRows
  BY DEF CallsHaveRows, Idle
<1>5. RecheckStaysValid
  BY DEF RecheckStaysValid
<1>6. OverlapNeedsRevival
  BY DEF OverlapNeedsRevival, Live
<1>7. PriceIsTested
  BY DEF PriceIsTested
<1> QED BY <1>1, <1>2, <1>3, <1>4, <1>5, <1>6, <1>7 DEF IInv

-----------------------------------------------------------------------------
\* The price that create has tested is the price of the row.
LEMMA NextPrices == IInv /\ [Next]_vars => PriceIsTested' /\ RowsHavePrice'
<1> SUFFICES ASSUME IInv, [Next]_vars PROVE PriceIsTested' /\ RowsHavePrice'
  OBVIOUS
<1> USE DEF IInv, TypeOK, hostVars, createVars, workVars, PriceIsTested, RowsHavePrice
<1>1. ASSUME NEW b \in Bookings, CreateRead(b) PROVE PriceIsTested' /\ RowsHavePrice'
  <2>1. status[b] = "NONE"
    BY <1>1 DEF CreateRead, RowsComeFromCommits
  <2>2. /\ \A o \in Bookings : o # b => totalPrice'[o] = totalPrice[o] /\ create'[o] = create[o]
        /\ create'[b] = "read" /\ status' = status
    BY <1>1 DEF CreateRead
  <2> QED BY <2>1, <2>2
<1>2. ASSUME NEW b \in Bookings, CreatePreCheck(b) PROVE PriceIsTested' /\ RowsHavePrice'
  BY <1>2 DEF CreatePreCheck, Accepted
<1>3. ASSUME NEW b \in Bookings, CreateStep(b), ~CreateRead(b), ~CreatePreCheck(b)
      PROVE  PriceIsTested' /\ RowsHavePrice'
  BY <1>3 DEF CreateStep, CreateLock, CreateRecheck, CreateCommit, CreateSchedule,
              CreateScheduleFails, CreateFails
<1>4. ASSUME UNCHANGED <<create, totalPrice>>,
             \A b \in Bookings : status[b] = "NONE" => status'[b] = "NONE"
      PROVE  PriceIsTested' /\ RowsHavePrice'
  BY <1>4
<1>5. ASSUME NEW b \in Bookings, WorkerStep(b) PROVE PriceIsTested' /\ RowsHavePrice'
  BY <1>4, <1>5 DEF WorkerStep, ExpireRead, ExpireWrite, ExpireFails, RowsComeFromCommits
<1>6. ASSUME NEW c \in Calls, CallStart(c) \/ CallStep(c) PROVE PriceIsTested' /\ RowsHavePrice'
  BY <1>4, <1>6 DEF CallStart, ConfirmRead, CancelRead, CallStep, ConfirmWrite, ConfirmEmit,
                    CancelWrite, CancelEmit, CallsHaveRows
<1>7. ASSUME Host \/ UNCHANGED vars PROVE PriceIsTested' /\ RowsHavePrice'
  BY <1>4, <1>7 DEF Host, HostSetActive, HostSetPrice, HostSetAvailability, vars
<1>8. ASSUME Crash PROVE PriceIsTested' /\ RowsHavePrice'
  BY <1>8 DEF Crash, RequestAfterCrash
<1> QED BY <1>1, <1>2, <1>3, <1>5, <1>6, <1>7, <1>8 DEF Next

\* Every step preserves the inductive invariant.
LEMMA NextIInv == IInv /\ [Next]_vars => IInv'
<1> SUFFICES ASSUME IInv, [Next]_vars PROVE IInv'
  OBVIOUS
<1>0. PriceIsTested' /\ RowsHavePrice'
  BY NextPrices
<1> USE <1>0, BookingAssumption DEF IInv
<1> USE DEF hostVars, createVars, workVars, Live, Statuses, CreateSteps, CallSteps, JobStates
<1>1. ASSUME NEW p \in Properties, NEW active \in BOOLEAN, HostSetActive(p, active) PROVE IInv'
  <2>1. TypeOK'
    BY <1>1 DEF TypeOK, HostSetActive
  <2>2. LockIsHeldInTransaction' /\ RowsComeFromCommits' /\ CallsHaveRows' /\ RecheckStaysValid' /\ OverlapNeedsRevival'
    BY <1>1 DEF LockIsHeldInTransaction, InTransaction, RowsComeFromCommits, CallsHaveRows, RecheckStaysValid, OverlapNeedsRevival, HostSetActive
  <2> QED BY <2>1, <2>2
<1>2. ASSUME NEW p \in Properties, NEW price \in BasePrices, HostSetPrice(p, price) PROVE IInv'
  <2>1. TypeOK'
    BY <1>2 DEF TypeOK, HostSetPrice
  <2>2. LockIsHeldInTransaction' /\ RowsComeFromCommits' /\ CallsHaveRows' /\ RecheckStaysValid' /\ OverlapNeedsRevival'
    BY <1>2 DEF LockIsHeldInTransaction, InTransaction, RowsComeFromCommits, CallsHaveRows, RecheckStaysValid, OverlapNeedsRevival, HostSetPrice
  <2> QED BY <2>1, <2>2
<1>3. ASSUME NEW p \in Properties, NEW override \in Overrides, HostSetAvailability(p, override) PROVE IInv'
  <2>1. TypeOK'
    BY <1>3 DEF TypeOK, HostSetAvailability
  <2>2. LockIsHeldInTransaction' /\ RowsComeFromCommits' /\ CallsHaveRows' /\ RecheckStaysValid' /\ OverlapNeedsRevival'
    BY <1>3 DEF LockIsHeldInTransaction, InTransaction, RowsComeFromCommits, CallsHaveRows, RecheckStaysValid, OverlapNeedsRevival, HostSetAvailability
  <2> QED BY <2>1, <2>2
<1>4. ASSUME NEW b \in Bookings, CreateRead(b) PROVE IInv'
  <2>1. TypeOK'
    BY <1>4 DEF TypeOK, CreateRead
  <2>2. LockIsHeldInTransaction'
    BY <1>4 DEF LockIsHeldInTransaction, InTransaction, TypeOK, CreateRead
  <2>3. RowsComeFromCommits'
    BY <1>4 DEF RowsComeFromCommits, TypeOK, CreateRead
  <2>4. RecheckStaysValid'
    BY <1>4 DEF RecheckStaysValid, TypeOK, CreateRead
  <2>5. CallsHaveRows' /\ OverlapNeedsRevival'
    BY <1>4 DEF CallsHaveRows, OverlapNeedsRevival, CreateRead
  <2> QED BY <2>1, <2>2, <2>3, <2>4, <2>5
<1>5. ASSUME NEW b \in Bookings, CreatePreCheck(b) PROVE IInv'
  <2>1. TypeOK'
    BY <1>5 DEF TypeOK, CreatePreCheck, Accepted
  <2>2. LockIsHeldInTransaction'
    BY <1>5 DEF LockIsHeldInTransaction, InTransaction, TypeOK, CreatePreCheck, Accepted
  <2>3. RowsComeFromCommits'
    BY <1>5 DEF RowsComeFromCommits, TypeOK, CreatePreCheck, Accepted
  <2>4. RecheckStaysValid'
    BY <1>5 DEF RecheckStaysValid, TypeOK, CreatePreCheck, Accepted
  <2>5. CallsHaveRows' /\ OverlapNeedsRevival'
    BY <1>5 DEF CallsHaveRows, OverlapNeedsRevival, CreatePreCheck
  <2> QED BY <2>1, <2>2, <2>3, <2>4, <2>5
<1>6. ASSUME NEW b \in Bookings, CreateLock(b) PROVE IInv'
  <2>1. TypeOK'
    BY <1>6 DEF TypeOK, CreateLock, Unlocked
  <2>2. LockIsHeldInTransaction'
    BY <1>6 DEF LockIsHeldInTransaction, InTransaction, TypeOK, CreateLock, Unlocked
  <2>3. RowsComeFromCommits'
    BY <1>6 DEF RowsComeFromCommits, TypeOK, CreateLock, Unlocked
  <2>4. RecheckStaysValid'
    BY <1>6 DEF RecheckStaysValid, TypeOK, CreateLock, Unlocked
  <2>5. CallsHaveRows' /\ OverlapNeedsRevival'
    BY <1>6 DEF CallsHaveRows, OverlapNeedsRevival, CreateLock
  <2> QED BY <2>1, <2>2, <2>3, <2>4, <2>5
<1>7. ASSUME NEW b \in Bookings, CreateRecheck(b) PROVE IInv'
  <2>1. CASE Free(b)
    <3>1. lock' = lock /\ create' = [create EXCEPT ![b] = "rechecked"]
      BY <1>7, <2>1 DEF CreateRecheck
    <3>2. TypeOK'
      BY <1>7, <3>1 DEF TypeOK, CreateRecheck
    <3>3. LockIsHeldInTransaction'
      BY <1>7, <3>1 DEF LockIsHeldInTransaction, InTransaction, TypeOK, CreateRecheck
    <3>6. RowsComeFromCommits'
      BY <1>7, <3>1 DEF RowsComeFromCommits, TypeOK, CreateRecheck
    <3>4. RecheckStaysValid'
      BY <1>7, <2>1, <3>1 DEF RecheckStaysValid, TypeOK, CreateRecheck, Free
    <3>5. CallsHaveRows' /\ OverlapNeedsRevival'
      BY <1>7 DEF CallsHaveRows, OverlapNeedsRevival, CreateRecheck
    <3> QED BY <3>2, <3>3, <3>4, <3>5, <3>6
  <2>2. CASE ~Free(b)
    <3>1. /\ lock' = [p \in Properties |-> IF lock[p] = b THEN NoOne ELSE lock[p]]
          /\ create' = [create EXCEPT ![b] = "idle"]
      BY <1>7, <2>2 DEF CreateRecheck, Unlock
    <3>2. TypeOK'
      BY <1>7, <3>1 DEF TypeOK, CreateRecheck
    <3>3. LockIsHeldInTransaction'
      BY <1>7, <3>1 DEF LockIsHeldInTransaction, InTransaction, TypeOK, CreateRecheck
    <3>6. RowsComeFromCommits'
      BY <1>7, <3>1 DEF RowsComeFromCommits, TypeOK, CreateRecheck
    <3>4. RecheckStaysValid'
      BY <1>7, <3>1 DEF RecheckStaysValid, TypeOK, CreateRecheck
    <3>5. CallsHaveRows' /\ OverlapNeedsRevival'
      BY <1>7 DEF CallsHaveRows, OverlapNeedsRevival, CreateRecheck
    <3> QED BY <3>2, <3>3, <3>4, <3>5, <3>6
  <2> QED BY <2>1, <2>2
<1>8. ASSUME NEW b \in Bookings, CreateCommit(b) PROVE IInv'
  <2>1. TypeOK'
    BY <1>8 DEF TypeOK, CreateCommit, Unlock
  <2>2. LockIsHeldInTransaction'
    BY <1>8 DEF LockIsHeldInTransaction, InTransaction, TypeOK, CreateCommit, Unlock
  <2>3. RowsComeFromCommits'
    BY <1>8 DEF RowsComeFromCommits, TypeOK, CreateCommit, Unlock
  <2>4. CallsHaveRows'
    BY <1>8 DEF CallsHaveRows, TypeOK, CreateCommit, Unlock
  <2>5. RecheckStaysValid'
    <3> SUFFICES ASSUME NEW a \in Bookings, NEW o \in Bookings,
                        create'[a] = "rechecked", status'[o] \in Live,
                        Clash(claim[o], claim[a])
                 PROVE  o \in revived
      BY <1>8 DEF RecheckStaysValid, CreateCommit
    <3>1. a # b /\ create[a] = "rechecked"
      BY <1>8 DEF CreateCommit, TypeOK
    <3>2. CASE o = b
      \* Both would hold the row lock of the same property.
      <4>1. claim[a].propertyId = claim[b].propertyId /\ claim[a].propertyId \in Properties
        BY <3>2 DEF Clash, TypeOK
      <4>2. lock[claim[a].propertyId] = a /\ lock[claim[a].propertyId] = b
        BY <1>8, <3>1, <4>1 DEF LockIsHeldInTransaction, InTransaction, CreateCommit
      <4> QED BY <3>1, <4>2
    <3>3. CASE o # b
      BY <1>8, <3>1, <3>3 DEF RecheckStaysValid, CreateCommit, TypeOK
    <3> QED BY <3>2, <3>3
  <2>6. OverlapNeedsRevival'
    <3> SUFFICES ASSUME NEW a \in Bookings, NEW o \in Bookings, a # o,
                        status'[a] \in Live, status'[o] \in Live,
                        Clash(claim[a], claim[o])
                 PROVE  a \in revived \/ o \in revived
      BY <1>8 DEF OverlapNeedsRevival, CreateCommit
    <3>1. Clash(claim[o], claim[a])
      BY ClashIsSymmetric DEF TypeOK
    <3>2. CASE a = b
      BY <1>8, <3>1, <3>2 DEF RecheckStaysValid, CreateCommit, TypeOK
    <3>3. CASE o = b
      BY <1>8, <3>3 DEF RecheckStaysValid, CreateCommit, TypeOK
    <3>4. CASE a # b /\ o # b
      BY <1>8, <3>4 DEF OverlapNeedsRevival, CreateCommit, TypeOK
    <3> QED BY <3>2, <3>3, <3>4
  <2> QED BY <2>1, <2>2, <2>3, <2>4, <2>5, <2>6
<1>9. ASSUME NEW b \in Bookings, CreateSchedule(b) PROVE IInv'
  <2>1. TypeOK'
    BY <1>9 DEF TypeOK, CreateSchedule
  <2>2. LockIsHeldInTransaction'
    BY <1>9 DEF LockIsHeldInTransaction, InTransaction, TypeOK, CreateSchedule
  <2>3. RowsComeFromCommits'
    BY <1>9 DEF RowsComeFromCommits, TypeOK, CreateSchedule
  <2>4. RecheckStaysValid'
    BY <1>9 DEF RecheckStaysValid, TypeOK, CreateSchedule
  <2>5. CallsHaveRows' /\ OverlapNeedsRevival'
    BY <1>9 DEF CallsHaveRows, OverlapNeedsRevival, CreateSchedule
  <2> QED BY <2>1, <2>2, <2>3, <2>4, <2>5
<1>10. ASSUME NEW b \in Bookings, CreateScheduleFails(b) PROVE IInv'
  <2>1. TypeOK'
    BY <1>10 DEF TypeOK, CreateScheduleFails
  <2>2. LockIsHeldInTransaction'
    BY <1>10 DEF LockIsHeldInTransaction, InTransaction, TypeOK, CreateScheduleFails
  <2>3. RowsComeFromCommits'
    BY <1>10 DEF RowsComeFromCommits, TypeOK, CreateScheduleFails
  <2>4. RecheckStaysValid'
    BY <1>10 DEF RecheckStaysValid, TypeOK, CreateScheduleFails
  <2>5. CallsHaveRows' /\ OverlapNeedsRevival'
    BY <1>10 DEF CallsHaveRows, OverlapNeedsRevival, CreateScheduleFails
  <2> QED BY <2>1, <2>2, <2>3, <2>4, <2>5
<1>11. ASSUME NEW b \in Bookings, CreateFails(b) PROVE IInv'
  <2>1. TypeOK'
    BY <1>11 DEF TypeOK, CreateFails, Unlock
  <2>2. LockIsHeldInTransaction'
    BY <1>11 DEF LockIsHeldInTransaction, InTransaction, TypeOK, CreateFails, Unlock
  <2>3. RowsComeFromCommits'
    BY <1>11 DEF RowsComeFromCommits, TypeOK, CreateFails, Unlock
  <2>4. RecheckStaysValid'
    BY <1>11 DEF RecheckStaysValid, TypeOK, CreateFails, Unlock
  <2>5. CallsHaveRows' /\ OverlapNeedsRevival'
    BY <1>11 DEF CallsHaveRows, OverlapNeedsRevival, CreateFails
  <2> QED BY <2>1, <2>2, <2>3, <2>4, <2>5
<1>12. ASSUME NEW b \in Bookings, ExpireRead(b) PROVE IInv'
  <2>1. TypeOK'
    BY <1>12 DEF TypeOK, ExpireRead, Taken
  <2>2. RowsComeFromCommits'
    BY <1>12 DEF RowsComeFromCommits, TypeOK, ExpireRead, Taken
  <2>3. LockIsHeldInTransaction' /\ CallsHaveRows' /\ RecheckStaysValid' /\ OverlapNeedsRevival'
    BY <1>12 DEF LockIsHeldInTransaction, InTransaction, CallsHaveRows, RecheckStaysValid, OverlapNeedsRevival, ExpireRead
  <2> QED BY <2>1, <2>2, <2>3
<1>13. ASSUME NEW b \in Bookings, ExpireWrite(b) PROVE IInv'
  <2>1. TypeOK'
    BY <1>13 DEF TypeOK, CallRecords, ExpireWrite
  <2>2. RowsComeFromCommits'
    BY <1>13 DEF RowsComeFromCommits, TypeOK, ExpireWrite
  <2>3. CallsHaveRows'
    BY <1>13 DEF CallsHaveRows, TypeOK, ExpireWrite
  <2>4. RecheckStaysValid'
    BY <1>13 DEF RecheckStaysValid, TypeOK, ExpireWrite
  <2>5. OverlapNeedsRevival'
    BY <1>13 DEF OverlapNeedsRevival, TypeOK, ExpireWrite
  <2>6. LockIsHeldInTransaction'
    BY <1>13 DEF LockIsHeldInTransaction, InTransaction, ExpireWrite
  <2> QED BY <2>1, <2>2, <2>3, <2>4, <2>5, <2>6
<1>14. ASSUME NEW b \in Bookings, ExpireFails(b) PROVE IInv'
  <2>1. TypeOK'
    BY <1>14 DEF TypeOK, CallRecords, ExpireFails
  <2>2. RowsComeFromCommits'
    BY <1>14 DEF RowsComeFromCommits, TypeOK, ExpireFails
  <2>3. LockIsHeldInTransaction' /\ CallsHaveRows' /\ RecheckStaysValid' /\ OverlapNeedsRevival'
    BY <1>14 DEF LockIsHeldInTransaction, InTransaction, CallsHaveRows, RecheckStaysValid, OverlapNeedsRevival, ExpireFails
  <2> QED BY <2>1, <2>2, <2>3
<1>15. ASSUME NEW c \in Calls, NEW b \in Bookings, ConfirmRead(c, b) PROVE IInv'
  <2>1. TypeOK'
    BY <1>15 DEF TypeOK, CallRecords, ConfirmRead
  <2>2. CallsHaveRows'
    BY <1>15 DEF CallsHaveRows, TypeOK, ConfirmRead
  <2>3. LockIsHeldInTransaction' /\ RowsComeFromCommits' /\ RecheckStaysValid' /\ OverlapNeedsRevival'
    BY <1>15 DEF LockIsHeldInTransaction, InTransaction, RowsComeFromCommits, RecheckStaysValid, OverlapNeedsRevival, ConfirmRead
  <2> QED BY <2>1, <2>2, <2>3
<1>16. ASSUME NEW c \in Calls, NEW b \in Bookings, CancelRead(c, b) PROVE IInv'
  <2>1. TypeOK'
    BY <1>16 DEF TypeOK, CallRecords, CancelRead
  <2>2. CallsHaveRows'
    BY <1>16 DEF CallsHaveRows, TypeOK, CancelRead
  <2>3. LockIsHeldInTransaction' /\ RowsComeFromCommits' /\ RecheckStaysValid' /\ OverlapNeedsRevival'
    BY <1>16 DEF LockIsHeldInTransaction, InTransaction, RowsComeFromCommits, RecheckStaysValid, OverlapNeedsRevival, CancelRead
  <2> QED BY <2>1, <2>2, <2>3
<1>17. ASSUME NEW c \in Calls, ConfirmWrite(c) PROVE IInv'
  <2> DEFINE b == call[c].booking
  <2>1. b \in Bookings /\ status[b] # "NONE" /\ call[c].step = "confirm"
    BY <1>17 DEF ConfirmWrite, CallsHaveRows
  <2>2. /\ status' \in [Bookings -> Statuses]
        /\ \A o \in Bookings \ {b} : status'[o] = status[o]
        /\ status'[b] # "NONE"
    BY <1>17, <2>1 DEF ConfirmWrite, TypeOK
  <2>3. /\ revived \subseteq revived' /\ revived' \subseteq Bookings
        /\ (status[b] = "CANCELLED" /\ status'[b] \in Live) => b \in revived'
    BY <1>17, <2>1 DEF ConfirmWrite, TypeOK
  <2>4. version' \in [Bookings -> Nat]
    BY <1>17, <2>1 DEF ConfirmWrite, TypeOK, VersionAfter
  <2>5. /\ call' \in [Calls -> CallRecords]
        /\ \A d \in Calls : call'[d].step # "idle" => call'[d].booking = call[d].booking
                                                     /\ call[d].step # "idle"
    <3> DEFINE next == [step |-> "confirmed", booking |-> b, version |-> call[c].version]
    <3>1. call[c] \in CallRecords /\ call[c] = [call[c] EXCEPT !.step = "confirm"]
      BY <2>1 DEF TypeOK, CallRecords
    <3>2. next \in CallRecords /\ Idle \in CallRecords
      BY <2>1, <3>1 DEF CallRecords, Idle
    <3>3. [call[c] EXCEPT !.step = "confirmed"] = next
      BY <3>1 DEF CallRecords
    <3>4. \/ call' = [call EXCEPT ![c] = next]
          \/ call' = [call EXCEPT ![c] = Idle]
      BY <1>17, <3>3 DEF ConfirmWrite, TypeOK
    <3>5. call \in [Calls -> CallRecords]
      BY DEF TypeOK
    <3>6. call' \in [Calls -> CallRecords]
      BY <3>2, <3>4, <3>5
    <3>7. \A d \in Calls \ {c} : call'[d] = call[d]
      BY <3>4, <3>5
    <3>8. call'[c] = next \/ call'[c] = Idle
      BY <3>4, <3>5
    <3> QED BY <2>1, <3>6, <3>7, <3>8 DEF Idle
  <2>6. TypeOK'
    BY <1>17, <2>2, <2>3, <2>4, <2>5 DEF TypeOK, ConfirmWrite
  <2>7. LockIsHeldInTransaction'
    BY <1>17 DEF LockIsHeldInTransaction, InTransaction, ConfirmWrite
  <2>8. RowsComeFromCommits'
    BY <1>17, <2>1, <2>2 DEF RowsComeFromCommits, ConfirmWrite
  <2>9. CallsHaveRows'
    BY <2>2, <2>5 DEF CallsHaveRows
  <2>10. \A o \in Bookings : status'[o] \in Live => status[o] \in Live \/ o \in revived'
    BY <2>1, <2>2, <2>3 DEF TypeOK
  <2>11. RecheckStaysValid'
    BY <1>17, <2>3, <2>10 DEF RecheckStaysValid, ConfirmWrite
  <2>12. OverlapNeedsRevival'
    BY <1>17, <2>3, <2>10 DEF OverlapNeedsRevival, ConfirmWrite
  <2> QED BY <2>6, <2>7, <2>8, <2>9, <2>11, <2>12
<1>18. ASSUME NEW c \in Calls, ConfirmEmit(c) PROVE IInv'
  <2>1. TypeOK'
    <3> DEFINE b == call[c].booking
               counted == [emitted[b] EXCEPT !.confirmed = emitted[b].confirmed + 1]
    <3>1. b \in Bookings
      BY <1>18 DEF ConfirmEmit, ConfirmedEvent, CallsHaveRows
    <3>2. emitted[b] \in [confirmed : Nat, cancelled : Nat]
      BY <3>1 DEF TypeOK
    <3>3. counted \in [confirmed : Nat, cancelled : Nat]
      BY <3>2
    <3>4. emitted' = [emitted EXCEPT ![b] = counted]
      BY <1>18, <3>1 DEF ConfirmEmit, ConfirmedEvent, TypeOK
    <3>5. emitted' \in [Bookings -> [confirmed : Nat, cancelled : Nat]]
      BY <3>3, <3>4 DEF TypeOK
    <3>6. call' \in [Calls -> CallRecords]
      BY <1>18 DEF TypeOK, ConfirmEmit, ConfirmedEvent, CallRecords, Idle
    <3> QED BY <1>18, <3>5, <3>6 DEF TypeOK, ConfirmEmit, ConfirmedEvent
  <2>2. CallsHaveRows'
    BY <1>18 DEF CallsHaveRows, TypeOK, ConfirmEmit, ConfirmedEvent, Idle
  <2>3. LockIsHeldInTransaction' /\ RowsComeFromCommits' /\ RecheckStaysValid' /\ OverlapNeedsRevival'
    BY <1>18 DEF LockIsHeldInTransaction, InTransaction, RowsComeFromCommits, RecheckStaysValid, OverlapNeedsRevival, ConfirmEmit, ConfirmedEvent
  <2> QED BY <2>1, <2>2, <2>3
<1>19. ASSUME NEW c \in Calls, CancelWrite(c) PROVE IInv'
  <2>1. TypeOK'
    <3>1. status' \in [Bookings -> Statuses]
      BY <1>19 DEF TypeOK, Statuses, CancelWrite
    <3>2. call[c] \in CallRecords
      BY DEF TypeOK
    <3>3. [call[c] EXCEPT !.step = "cancelled"] \in CallRecords
      BY <3>2 DEF CallRecords, CallSteps
    <3>4. call' = [call EXCEPT ![c] = [call[c] EXCEPT !.step = "cancelled"]]
      BY <1>19 DEF CancelWrite, TypeOK
    <3>5. call' \in [Calls -> CallRecords]
      BY <3>3, <3>4 DEF TypeOK
    <3> QED BY <1>19, <3>1, <3>5 DEF TypeOK, CancelWrite
  <2>2. RowsComeFromCommits'
    BY <1>19 DEF RowsComeFromCommits, CallsHaveRows, TypeOK, CancelWrite
  <2>3. CallsHaveRows'
    BY <1>19 DEF CallsHaveRows, TypeOK, CancelWrite
  <2>4. RecheckStaysValid'
    BY <1>19 DEF RecheckStaysValid, TypeOK, CancelWrite
  <2>5. OverlapNeedsRevival'
    BY <1>19 DEF OverlapNeedsRevival, TypeOK, CancelWrite
  <2>6. LockIsHeldInTransaction'
    BY <1>19 DEF LockIsHeldInTransaction, InTransaction, CancelWrite
  <2> QED BY <2>1, <2>2, <2>3, <2>4, <2>5, <2>6
<1>20. ASSUME NEW c \in Calls, CancelEmit(c) PROVE IInv'
  <2>1. TypeOK'
    <3> DEFINE b == call[c].booking
               counted == [emitted[b] EXCEPT !.cancelled = emitted[b].cancelled + 1]
    <3>1. b \in Bookings
      BY <1>20 DEF CancelEmit, CallsHaveRows
    <3>2. emitted[b] \in [confirmed : Nat, cancelled : Nat]
      BY <3>1 DEF TypeOK
    <3>3. counted \in [confirmed : Nat, cancelled : Nat]
      BY <3>2
    <3>4. emitted' = [emitted EXCEPT ![b] = counted]
      BY <1>20, <3>1 DEF CancelEmit, TypeOK
    <3>5. emitted' \in [Bookings -> [confirmed : Nat, cancelled : Nat]]
      BY <3>3, <3>4 DEF TypeOK
    <3>6. call' \in [Calls -> CallRecords]
      BY <1>20 DEF TypeOK, CancelEmit, CallRecords, Idle
    <3> QED BY <1>20, <3>5, <3>6 DEF TypeOK, CancelEmit
  <2>2. CallsHaveRows'
    BY <1>20 DEF CallsHaveRows, TypeOK, CancelEmit, Idle
  <2>3. LockIsHeldInTransaction' /\ RowsComeFromCommits' /\ RecheckStaysValid' /\ OverlapNeedsRevival'
    BY <1>20 DEF LockIsHeldInTransaction, InTransaction, RowsComeFromCommits, RecheckStaysValid, OverlapNeedsRevival, CancelEmit
  <2> QED BY <2>1, <2>2, <2>3
<1>21. ASSUME Crash PROVE IInv'
  <2>1. TypeOK'
    BY <1>21 DEF TypeOK, CallRecords, Crash, RequestAfterCrash, JobAfterCrash, Idle
  <2>2. LockIsHeldInTransaction'
    BY <1>21 DEF LockIsHeldInTransaction, InTransaction, TypeOK, Crash, RequestAfterCrash, JobAfterCrash, Idle
  <2>3. RowsComeFromCommits'
    BY <1>21 DEF RowsComeFromCommits, TypeOK, Crash, RequestAfterCrash, JobAfterCrash, Idle
  <2>4. CallsHaveRows'
    BY <1>21 DEF CallsHaveRows, TypeOK, Crash, RequestAfterCrash, JobAfterCrash, Idle
  <2>5. RecheckStaysValid'
    BY <1>21 DEF RecheckStaysValid, TypeOK, Crash, RequestAfterCrash, JobAfterCrash, Idle
  <2>6. OverlapNeedsRevival'
    BY <1>21 DEF OverlapNeedsRevival, Crash
  <2> QED BY <2>1, <2>2, <2>3, <2>4, <2>5, <2>6
<1>22. CASE UNCHANGED vars
  BY <1>22 DEF vars, TypeOK, LockIsHeldInTransaction, InTransaction, RowsComeFromCommits,
     CallsHaveRows, RecheckStaysValid, OverlapNeedsRevival, Free
<1> QED
  BY <1>1, <1>2, <1>3, <1>4, <1>5, <1>6, <1>7, <1>8, <1>9, <1>10, <1>11, <1>12, <1>13, <1>14, <1>15, <1>16, <1>17, <1>18, <1>19, <1>20, <1>21, <1>22 DEF Next, Host, CreateStep, WorkerStep, CallStart, CallStep

-----------------------------------------------------------------------------
(***************************************************************************)
(* The inductive invariant holds in every reachable state.                 *)
(***************************************************************************)
THEOREM BookingInvariant == Spec => []IInv
BY InitIInv, NextIInv, PTL DEF Spec

(***************************************************************************)
(* Type correctness of the reservation engine.                             *)
(***************************************************************************)
THEOREM TypeCorrect == Spec => []TypeOK
<1>1. IInv => TypeOK
  BY DEF IInv
<1> QED BY <1>1, BookingInvariant, PTL

(***************************************************************************)
(* create() takes and returns the row lock correctly on every path.        *)
(***************************************************************************)
THEOREM LockIsSound == Spec => []LockIsHeldInTransaction
<1>1. IInv => LockIsHeldInTransaction
  BY DEF IInv
<1> QED BY <1>1, BookingInvariant, PTL

(***************************************************************************)
(* What the second check of create found still holds at the insert.        *)
(***************************************************************************)
THEOREM RecheckHoldsUntilInsert == Spec => []RecheckStaysValid
<1>1. IInv => RecheckStaysValid
  BY DEF IInv
<1> QED BY <1>1, BookingInvariant, PTL

(***************************************************************************)
(* Overlapping live bookings exist only after a booking was confirmed that *)
(* had been cancelled.                                                     *)
(***************************************************************************)
THEOREM NoOverlapWithoutRevival == Spec => []OverlapNeedsRevival
<1>1. IInv => OverlapNeedsRevival
  BY DEF IInv
<1> QED BY <1>1, BookingInvariant, PTL

-----------------------------------------------------------------------------
(***************************************************************************)
(* Refinement: each step of Booking is a step of Reservation or changes    *)
(* nothing that Reservation can see.                                       *)
(***************************************************************************)
LEMMA InitRefines == Init => R!Init
BY DEF Init, R!Init

LEMMA StepRefines == IInv /\ [Next]_vars => [R!Next]_(R!vars)
<1> SUFFICES ASSUME IInv, [Next]_vars PROVE [R!Next]_(R!vars)
  OBVIOUS
<1> USE DEF hostVars, createVars, workVars, IInv, R!vars
<1>1. ASSUME NEW b \in Bookings, CreateCommit(b) PROVE R!Next
  <2>1. \A o \in Bookings : status[o] \in R!Live /\ o \notin revived
                                => ~R!Clash(claim[o], claim[b])
    BY <1>1 DEF CreateCommit, RecheckStaysValid, Clash, Overlaps, R!Clash, Live, R!Live
  <2>2. status[b] = "NONE"
    BY <1>1 DEF CreateCommit, RowsComeFromCommits
  <2>3. R!Reserve(b)
    BY <1>1, <2>1, <2>2 DEF CreateCommit, R!Reserve, R!NoObstacle
  <2> QED BY <2>3 DEF R!Next
<1>2. ASSUME NEW c \in Calls, ConfirmWrite(c) PROVE R!Next \/ UNCHANGED R!vars
  <2> DEFINE b == call[c].booking
  <2>1. b \in Bookings /\ status[b] \in {"PENDING_PAYMENT", "CONFIRMED", "CANCELLED"}
    BY <1>2 DEF ConfirmWrite, CallsHaveRows, TypeOK, Statuses
  <2>2. CASE version[b] # call[c].version
    BY <1>2, <2>2 DEF ConfirmWrite
  <2>3. CASE version[b] = call[c].version /\ status[b] = "PENDING_PAYMENT"
    BY <1>2, <2>1, <2>3 DEF ConfirmWrite, R!Next, R!Confirm
  <2>4. CASE version[b] = call[c].version /\ status[b] = "CANCELLED"
    BY <1>2, <2>1, <2>4 DEF ConfirmWrite, R!Next, R!Revive
  <2>5. CASE version[b] = call[c].version /\ status[b] = "CONFIRMED"
    BY <1>2, <2>1, <2>5 DEF ConfirmWrite, TypeOK
  <2> QED BY <2>1, <2>2, <2>3, <2>4, <2>5
<1>3. ASSUME NEW b \in Bookings, status[b] # "NONE",
             status' = [status EXCEPT ![b] = "CANCELLED"],
             UNCHANGED <<claim, revived>>
      PROVE  R!Next \/ UNCHANGED R!vars
  \* A booking that was cancelled meanwhile stays as it is; a live one is released.
  <2>1. CASE status[b] = "CANCELLED"
    BY <1>3, <2>1 DEF TypeOK
  <2>2. CASE status[b] # "CANCELLED"
    BY <1>3, <2>2 DEF TypeOK, Statuses, R!Next, R!Release, R!Live
  <2> QED BY <2>1, <2>2
<1>4. ASSUME NEW c \in Calls, CancelWrite(c) PROVE R!Next \/ UNCHANGED R!vars
  BY <1>3, <1>4 DEF CancelWrite, CallsHaveRows
<1>5. ASSUME NEW b \in Bookings, ExpireWrite(b) PROVE R!Next \/ UNCHANGED R!vars
  BY <1>3, <1>5 DEF ExpireWrite, RowsComeFromCommits
<1>6. ASSUME NEW b \in Bookings, CreateStep(b), ~CreateCommit(b) PROVE UNCHANGED R!vars
  BY <1>6 DEF CreateStep, CreateRead, CreatePreCheck, CreateLock, CreateRecheck,
              CreateSchedule, CreateScheduleFails, CreateFails
<1>7. ASSUME NEW b \in Bookings, WorkerStep(b), ~ExpireWrite(b) PROVE UNCHANGED R!vars
  BY <1>7 DEF WorkerStep, ExpireRead, ExpireFails
<1>8. ASSUME NEW c \in Calls, CallStart(c) \/ ConfirmEmit(c) \/ CancelEmit(c)
      PROVE  UNCHANGED R!vars
  BY <1>8 DEF CallStart, ConfirmRead, CancelRead, ConfirmEmit, CancelEmit
<1>9. ASSUME Host PROVE UNCHANGED R!vars
  BY <1>9 DEF Host, HostSetActive, HostSetPrice, HostSetAvailability
<1>10. ASSUME Crash PROVE UNCHANGED R!vars
  BY <1>10 DEF Crash
<1>11. CASE UNCHANGED vars
  BY <1>11 DEF vars
<1> QED
  BY <1>1, <1>2, <1>4, <1>5, <1>6, <1>7, <1>8, <1>9, <1>10, <1>11 DEF Next, CallStep

(***************************************************************************)
(* The reservation engine implements Reservation.                          *)
(***************************************************************************)
THEOREM BookingImplementsReservation == Spec => ImplementsReservation
BY InitRefines, StepRefines, BookingInvariant, PTL DEF Spec, ImplementsReservation, R!Spec

-----------------------------------------------------------------------------
(***************************************************************************)
(* The abstract reservation engine has no double booking but by revival.   *)
(***************************************************************************)
\* The inductive invariant of Reservation.
RInv == R!TypeOK /\ R!ClashNeedsRevival

(***************************************************************************)
(* Granting claims one by one, each against the live bookings, admits no   *)
(* two live bookings that clash, except with a revived one.                *)
(***************************************************************************)
THEOREM AbstractExclusion == R!Spec => []R!ClashNeedsRevival
<1>1. R!Init => RInv
  BY DEF R!Init, RInv, R!TypeOK, R!ClashNeedsRevival, R!Statuses, R!Live
<1>2. RInv /\ [R!Next]_(R!vars) => RInv'
  <2> SUFFICES ASSUME RInv, [R!Next]_(R!vars) PROVE RInv'
    OBVIOUS
  <2> USE DEF RInv, R!TypeOK, R!ClashNeedsRevival, R!Statuses, R!Live
  <2>1. ASSUME NEW b \in Bookings, R!Reserve(b) PROVE RInv'
    <3>1. R!TypeOK'
      BY <2>1 DEF R!Reserve
    <3>2. R!ClashNeedsRevival'
      <4> SUFFICES ASSUME NEW x \in Bookings, NEW y \in Bookings, x # y,
                          status'[x] \in R!Live, status'[y] \in R!Live, R!Clash(claim[x], claim[y])
                   PROVE  x \in revived \/ y \in revived
        BY <2>1 DEF R!Reserve
      <4>1. R!Clash(claim[y], claim[x])
        BY DEF R!Clash
      <4>2. CASE x = b
        BY <2>1, <4>1, <4>2 DEF R!Reserve, R!NoObstacle
      <4>3. CASE y = b
        BY <2>1, <4>3 DEF R!Reserve, R!NoObstacle
      <4>4. CASE x # b /\ y # b
        BY <2>1, <4>4 DEF R!Reserve
      <4> QED BY <4>2, <4>3, <4>4
    <3> QED BY <3>1, <3>2
  <2>2. ASSUME NEW b \in Bookings, R!Confirm(b) PROVE RInv'
    BY <2>2 DEF R!Confirm
  <2>3. ASSUME NEW b \in Bookings, R!Release(b) PROVE RInv'
    BY <2>3 DEF R!Release
  <2>4. ASSUME NEW b \in Bookings, R!Revive(b) PROVE RInv'
    BY <2>4 DEF R!Revive
  <2>5. CASE UNCHANGED R!vars
    BY <2>5 DEF R!vars, R!Clash
  <2> QED BY <2>1, <2>2, <2>3, <2>4, <2>5 DEF R!Next
<1>3. RInv => R!ClashNeedsRevival
  BY DEF RInv
<1> QED BY <1>1, <1>2, <1>3, PTL DEF R!Spec

-----------------------------------------------------------------------------
(***************************************************************************)
(* The version column never moves, so the version test of confirm() never  *)
(* refuses a call: the optimistic lock orders nothing.                     *)
(***************************************************************************)
VersionIsInert ==
    /\ version = [b \in Bookings |-> 1]
    /\ \A c \in Calls : call[c].step = "confirm" => call[c].version = 1

OptimisticLockNeverRefuses ==
    \A c \in Calls : call[c].step = "confirm" => version[call[c].booking] = call[c].version

THEOREM VersionTestIsVoid == Spec => []OptimisticLockNeverRefuses
<1>1. Init => VersionIsInert
  BY DEF Init, VersionIsInert, Idle
<1>2. IInv /\ VersionIsInert /\ [Next]_vars => VersionIsInert'
  <2> SUFFICES ASSUME IInv, VersionIsInert, [Next]_vars PROVE VersionIsInert'
    OBVIOUS
  <2> USE DEF VersionIsInert, IInv, TypeOK, hostVars, createVars, workVars
  <2>1. ASSUME NEW b \in Bookings, CreateStep(b) \/ WorkerStep(b) PROVE VersionIsInert'
    BY <2>1 DEF CreateStep, CreateRead, CreatePreCheck, CreateLock, CreateRecheck, CreateCommit,
                CreateSchedule, CreateScheduleFails, CreateFails, WorkerStep, ExpireRead,
                ExpireWrite, ExpireFails
  <2>2. ASSUME NEW c \in Calls, ConfirmWrite(c) PROVE VersionIsInert'
    <3>1. call[c].booking \in Bookings
      BY <2>2 DEF ConfirmWrite, CallsHaveRows
    <3>2. version' = version
      BY <2>2, <3>1 DEF ConfirmWrite, VersionAfter
    <3>3. \A d \in Calls : call'[d].step = "confirm" => d # c /\ call'[d] = call[d]
      BY <2>2 DEF ConfirmWrite, Idle, CallRecords
    <3> QED BY <3>2, <3>3
  <2>3. ASSUME NEW c \in Calls, NEW b \in Bookings, ConfirmRead(c, b) \/ CancelRead(c, b)
        PROVE  VersionIsInert'
    <3>1. version' = version /\ version[b] = 1
      BY <2>3 DEF ConfirmRead, CancelRead
    <3>2. \A d \in Calls : d # c => call'[d] = call[d]
      BY <2>3 DEF ConfirmRead, CancelRead
    <3>3. call'[c].version = 1
      BY <2>3, <3>1 DEF ConfirmRead, CancelRead
    <3> QED BY <3>1, <3>2, <3>3
  <2>4. ASSUME NEW c \in Calls, CancelWrite(c) \/ ConfirmEmit(c) \/ CancelEmit(c)
        PROVE  VersionIsInert'
    <3>1. version' = version
      BY <2>4 DEF CancelWrite, ConfirmEmit, CancelEmit
    <3>2. \A d \in Calls : d # c => call'[d] = call[d]
      BY <2>4 DEF CancelWrite, ConfirmEmit, CancelEmit
    <3>3. call'[c].step # "confirm"
      <4>1. call[c] \in CallRecords
        OBVIOUS
      <4> QED BY <2>4, <4>1 DEF CancelWrite, ConfirmEmit, CancelEmit, Idle, CallRecords
    <3> QED BY <3>1, <3>2, <3>3
  <2>5. ASSUME Host PROVE VersionIsInert'
    BY <2>5 DEF Host, HostSetActive, HostSetPrice, HostSetAvailability
  <2>6. ASSUME Crash PROVE VersionIsInert'
    BY <2>6 DEF Crash, Idle
  <2>7. CASE UNCHANGED vars
    BY <2>7 DEF vars
  <2> QED
    BY <2>1, <2>2, <2>3, <2>4, <2>5, <2>6, <2>7 DEF Next, CallStart, CallStep
<1>3. IInv /\ VersionIsInert => OptimisticLockNeverRefuses
  BY DEF IInv, VersionIsInert, CallsHaveRows, OptimisticLockNeverRefuses
<1> QED BY <1>1, <1>2, <1>3, BookingInvariant, PTL DEF Spec

-----------------------------------------------------------------------------
(***************************************************************************)
(* Timers and announcements.                                               *)
(***************************************************************************)

\* As long as the count of failures is zero, no step failed.
LEMMA FaultsAreCounted ==
    ASSUME IInv, [Next]_vars, faults' = 0
    PROVE  /\ faults = 0
           /\ ~Crash
           /\ \A b \in Bookings : ~CreateScheduleFails(b) /\ ~CreateFails(b) /\ ~ExpireFails(b)
<1>1. faults \in Nat
  BY DEF IInv, TypeOK
<1>2. faults' \in {faults, faults + 1}
  BY DEF Next, vars, Host, HostSetActive, HostSetPrice, HostSetAvailability, CreateStep,
         CreateRead, CreatePreCheck, CreateLock, CreateRecheck, CreateCommit, CreateSchedule,
         CreateScheduleFails, CreateFails, WorkerStep, ExpireRead, ExpireWrite, ExpireFails,
         CallStart, ConfirmRead, CancelRead, CallStep, ConfirmWrite, ConfirmEmit, CancelWrite,
         CancelEmit, Crash
<1> QED BY <1>1, <1>2 DEF Crash, CreateScheduleFails, CreateFails, ExpireFails

(***************************************************************************)
(* A booking that waits for its payment has its timer; only a failure      *)
(* leaves it without, and never a job that ended well.                     *)
(***************************************************************************)
THEOREM PendingBookingsHaveTimers == Spec => []PendingHasTimer
<1> DEFINE Timed(b) ==
        \/ create[b] = "committed"
        \/ job[b] \in {"waiting", "expire"}
        \/ faults > 0 /\ job[b] \in {"none", "failed"}
<1>1. Init => PendingHasTimer
  BY DEF Init, PendingHasTimer
<1>2. IInv /\ PendingHasTimer /\ [Next]_vars => PendingHasTimer'
  <2> SUFFICES ASSUME IInv, PendingHasTimer, [Next]_vars,
                      NEW b \in Bookings, status'[b] = "PENDING_PAYMENT"
               PROVE  Timed(b)'
    BY DEF PendingHasTimer
  <2> USE DEF IInv, TypeOK, hostVars, createVars, workVars
  <2>1. ASSUME NEW a \in Bookings, CreateCommit(a), a = b PROVE Timed(b)'
    BY <2>1 DEF CreateCommit
  <2>2. ASSUME status[b] # "PENDING_PAYMENT" PROVE \E a \in Bookings : CreateCommit(a) /\ a = b
    \* Nothing else makes a booking wait for its payment.
    BY <2>2 DEF Next, vars, Host, HostSetActive, HostSetPrice, HostSetAvailability, CreateStep,
         CreateRead, CreatePreCheck, CreateLock, CreateRecheck, CreateCommit, CreateSchedule,
         CreateScheduleFails, CreateFails, WorkerStep, ExpireRead, ExpireWrite, ExpireFails,
         CallStart, ConfirmRead, CancelRead, CallStep, ConfirmWrite, ConfirmEmit, CancelWrite,
         CancelEmit, Crash
  <2>3. CASE status[b] = "PENDING_PAYMENT"
    <3>1. Timed(b) /\ create[b] \in {"committed", "done"}
      BY <2>3 DEF PendingHasTimer, RowsComeFromCommits
    <3>2. job[b] # "none" => create[b] = "done"
      BY DEF RowsComeFromCommits
    <3>3. ASSUME NEW a \in Bookings, CreateStep(a) PROVE Timed(b)'
      BY <3>1, <3>2, <3>3 DEF CreateStep, CreateRead, CreatePreCheck, CreateLock, CreateRecheck,
                        CreateCommit, CreateSchedule, CreateScheduleFails, CreateFails
    <3>4. ASSUME NEW a \in Bookings, WorkerStep(a) PROVE Timed(b)'
      BY <2>3, <3>1, <3>4 DEF WorkerStep, ExpireRead, ExpireWrite, ExpireFails, Taken
    <3>5. ASSUME NEW c \in Calls, CallStart(c) \/ CallStep(c) PROVE UNCHANGED <<create, job, faults>>
      BY <3>5 DEF CallStart, ConfirmRead, CancelRead, CallStep, ConfirmWrite, ConfirmEmit,
                  CancelWrite, CancelEmit
    <3>6. ASSUME Host PROVE UNCHANGED <<create, job, faults>>
      BY <3>6 DEF Host, HostSetActive, HostSetPrice, HostSetAvailability
    <3>7. ASSUME Crash PROVE Timed(b)'
      BY <3>1, <3>2, <3>7 DEF Crash, JobAfterCrash
    <3> QED BY <3>1, <3>3, <3>4, <3>5, <3>6, <3>7 DEF Next, vars
  <2> QED BY <2>1, <2>2, <2>3
<1> QED BY <1>1, <1>2, BookingInvariant, PTL DEF Spec

(***************************************************************************)
(* Nobody is left uninformed of a confirmation or a cancellation while     *)
(* nothing fails, except by the expiration worker.                         *)
(***************************************************************************)
THEOREM OutcomesAreAnnounced == Spec => []AnnouncedUnlessExpired
<1> DEFINE Telling(b, step) == \E c \in Calls : call[c].step = step /\ call[c].booking = b
           Told(b) ==
               /\ (status[b] = "CONFIRMED")
                       => (emitted[b].confirmed > 0 \/ Telling(b, "confirmed"))
               /\ (status[b] = "CANCELLED" /\ job[b] # "done")
                       => (emitted[b].cancelled > 0 \/ Telling(b, "cancelled"))
<1>1. AnnouncedUnlessExpired <=> (faults = 0 => \A b \in Bookings : Told(b))
  BY Zenon DEF AnnouncedUnlessExpired
<1>2. Init => AnnouncedUnlessExpired
  BY DEF Init, AnnouncedUnlessExpired
<1>3. IInv /\ AnnouncedUnlessExpired /\ [Next]_vars => AnnouncedUnlessExpired'
  <2> SUFFICES ASSUME IInv, AnnouncedUnlessExpired, [Next]_vars,
                      NEW b \in Bookings, faults' = 0
               PROVE  Told(b)'
    BY Zenon DEF AnnouncedUnlessExpired
  <2> USE DEF IInv, TypeOK, hostVars, createVars, workVars
  <2>1. /\ faults = 0
        /\ ~Crash
        /\ \A a \in Bookings : ~CreateScheduleFails(a) /\ ~CreateFails(a) /\ ~ExpireFails(a)
    BY FaultsAreCounted
  <2>2. Told(b) /\ emitted[b].confirmed \in Nat /\ emitted[b].cancelled \in Nat
    BY <2>1, <1>1
  <2> HIDE DEF Told
  \* What matters for b: no settled row turns up, the job is not begun anew.
  <2>3. ASSUME UNCHANGED <<call, emitted>>,
               status'[b] \in {"CONFIRMED", "CANCELLED"} =>
                    \/ status'[b] = status[b]
                    \/ status'[b] = "CANCELLED" /\ job'[b] = "done",
               status'[b] = "CANCELLED" /\ job[b] = "done" => job'[b] = "done"
        PROVE  Told(b)'
    BY <2>2, <2>3 DEF Told
  <2>4. ASSUME NEW a \in Bookings, CreateStep(a) PROVE Told(b)'
    <3>1. UNCHANGED <<call, emitted>>
      BY <2>1, <2>4 DEF CreateStep, CreateRead, CreatePreCheck, CreateLock, CreateRecheck,
                        CreateCommit, CreateSchedule
    <3>2. status'[b] \in {"CONFIRMED", "CANCELLED"} => status'[b] = status[b]
      BY <2>1, <2>4 DEF CreateStep, CreateRead, CreatePreCheck, CreateLock, CreateRecheck,
                        CreateCommit, CreateSchedule
    <3>3. job[b] = "done" => job'[b] = "done"
      BY <2>1, <2>4 DEF CreateStep, CreateRead, CreatePreCheck, CreateLock, CreateRecheck,
                        CreateCommit, CreateSchedule, RowsComeFromCommits
    <3> QED BY <2>3, <3>1, <3>2, <3>3
  <2>5. ASSUME NEW a \in Bookings, WorkerStep(a) PROVE Told(b)'
    BY <2>1, <2>3, <2>5 DEF WorkerStep, ExpireRead, ExpireWrite, Taken
  <2>6. ASSUME NEW c \in Calls, CallStart(c) PROVE Told(b)'
    <3>1. call[c].step = "idle" /\ UNCHANGED <<status, emitted, job>>
      BY <2>6 DEF CallStart, ConfirmRead, CancelRead
    <3>2. \A d \in Calls : d # c => call'[d] = call[d]
      BY <2>6 DEF CallStart, ConfirmRead, CancelRead
    <3> QED BY <2>2, <3>1, <3>2 DEF Told
  <2>7. ASSUME NEW c \in Calls, ConfirmWrite(c) PROVE Told(b)'
    <3>1. UNCHANGED <<emitted, job>> /\ call[c].step = "confirm"
      BY <2>7 DEF ConfirmWrite
    <3>2. \A d \in Calls : d # c => call'[d] = call[d]
      BY <2>7 DEF ConfirmWrite
    <3>3. CASE version[call[c].booking] # call[c].version
      BY <2>2, <2>7, <3>1, <3>2, <3>3 DEF ConfirmWrite, Told
    <3>4. CASE version[call[c].booking] = call[c].version
      <4>1. status' = [status EXCEPT ![call[c].booking] = "CONFIRMED"]
        BY <2>7, <3>4 DEF ConfirmWrite
      <4>2. call'[c].step = "confirmed" /\ call'[c].booking = call[c].booking
        BY <2>7, <3>4 DEF ConfirmWrite, CallRecords
      <4> QED BY <2>2, <3>1, <3>2, <4>1, <4>2 DEF Told
    <3> QED BY <3>3, <3>4
  <2>8. ASSUME NEW c \in Calls, CancelWrite(c) PROVE Told(b)'
    <3>1. /\ UNCHANGED <<emitted, job>> /\ call[c].step = "cancel"
          /\ status' = [status EXCEPT ![call[c].booking] = "CANCELLED"]
      BY <2>8 DEF CancelWrite
    <3>2. \A d \in Calls : d # c => call'[d] = call[d]
      BY <2>8 DEF CancelWrite
    <3>3. call'[c].step = "cancelled" /\ call'[c].booking = call[c].booking
      BY <2>8 DEF CancelWrite, CallRecords
    <3> QED BY <2>2, <3>1, <3>2, <3>3 DEF Told
  <2>9. ASSUME NEW c \in Calls, ConfirmEmit(c) \/ CancelEmit(c) PROVE Told(b)'
    <3> DEFINE a == call[c].booking
    <3>1. UNCHANGED <<status, job>> /\ a \in Bookings
      BY <2>9 DEF ConfirmEmit, CancelEmit, CallsHaveRows
    <3>2. \A d \in Calls : d # c => call'[d] = call[d]
      BY <2>9 DEF ConfirmEmit, CancelEmit
    <3>3. emitted[a] = [confirmed |-> emitted[a].confirmed, cancelled |-> emitted[a].cancelled]
      BY <3>1
    <3>4. \/ /\ call[c].step = "confirmed"
             /\ emitted' = [emitted EXCEPT ![a] = [confirmed |-> emitted[a].confirmed + 1,
                                                  cancelled |-> emitted[a].cancelled]]
          \/ /\ call[c].step = "cancelled"
             /\ emitted' = [emitted EXCEPT ![a] = [confirmed |-> emitted[a].confirmed,
                                                  cancelled |-> emitted[a].cancelled + 1]]
      BY <2>9, <3>3 DEF ConfirmEmit, CancelEmit, ConfirmedEvent
    <3>5. CASE a # b
      BY <2>2, <3>1, <3>2, <3>4, <3>5 DEF Told
    <3>6. CASE a = b
      <4>1. \/ /\ call[c].step = "confirmed"
               /\ emitted'[b].confirmed > 0 /\ emitted'[b].cancelled = emitted[b].cancelled
            \/ /\ call[c].step = "cancelled"
               /\ emitted'[b].cancelled > 0 /\ emitted'[b].confirmed = emitted[b].confirmed
        BY <2>2, <3>4, <3>6
      <4> QED BY <2>2, <3>1, <3>2, <4>1 DEF Told
    <3> QED BY <3>5, <3>6
  <2>10. ASSUME Host \/ UNCHANGED vars PROVE Told(b)'
    BY <2>3, <2>10 DEF Host, HostSetActive, HostSetPrice, HostSetAvailability, vars
  <2> QED BY <2>1, <2>4, <2>5, <2>6, <2>7, <2>8, <2>9, <2>10 DEF Next, CallStep
<1> QED BY <1>2, <1>3, BookingInvariant, PTL DEF Spec
=============================================================================
