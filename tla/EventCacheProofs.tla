--------------------------- MODULE EventCacheProofs ---------------------------
(***************************************************************************)
(* Proofs about EventCache, for any numbers of keys, readers, writers,     *)
(* changes and failures.                                                   *)
(***************************************************************************)
EXTENDS EventCache, TLAPS

ReaderRows == [step : {"idle", "missed", "filling"}, key : Keys \cup {Nothing},
               value : Snapshots \cup {Nothing}]
WriterRows == [step : {"idle", "written", "listed"}, doomed : SUBSET Keys]

\* An entry or an answer on its way is a snapshot of the past, never of the future.
NoneFromTheFuture ==
    /\ \A k \in Keys : cache[k] # Nothing => cache[k].edits <= db.edits
    /\ \A r \in Readers :
        /\ reader[r].step # "idle" => reader[r].key \in Keys
        /\ reader[r].step = "filling" =>
                reader[r].value \in Snapshots /\ reader[r].value.edits <= db.edits

\* A writer is still going to delete the entry of k.
Hunted(k) ==
    \E w \in Writers : \/ writer[w].step = "written"
                       \/ writer[w].step = "listed" /\ k \in writer[w].doomed

\* An entry that misses a change, and was up to date when it was stored.
Stale(k) == cache[k] # Nothing /\ k \notin late /\ cache[k].edits # db.edits

StaleAreHunted == faults = 0 => \A k \in Keys : Stale(k) => Hunted(k)

IInv == TypeOK /\ NoneFromTheFuture /\ StaleAreHunted
-----------------------------------------------------------------------------
LEMMA TypedRows ==
    TypeOK => reader \in [Readers -> ReaderRows] /\ writer \in [Writers -> WriterRows]
BY DEF TypeOK, ReaderRows, WriterRows

\* The table changes by one column, to one change more.
LEMMA DatabaseMoves ==
    ASSUME db \in Snapshots, CacheAssumption,
           \/ db.edits < MaxEdits /\ db' = [db EXCEPT !.edits = @ + 1]
           \/ db.seats < MaxSeats /\ db' = [db EXCEPT !.seats = @ + 1]
    PROVE  db' \in Snapshots /\ db.edits <= db'.edits
BY DEF Snapshots, CacheAssumption

LEMMA InitIInv == Init => IInv
<1> SUFFICES ASSUME Init PROVE IInv
  OBVIOUS
<1>1. TypeOK
  BY CacheAssumption DEF Init, TypeOK, Snapshots, IdleReader, IdleWriter
<1>2. NoneFromTheFuture
  BY DEF Init, NoneFromTheFuture, IdleReader
<1>3. StaleAreHunted
  BY DEF Init, StaleAreHunted, Stale
<1> QED BY <1>1, <1>2, <1>3 DEF IInv

\* Steps of a query that leave the cache alone.
LEMMA QueryKeepsIInv ==
    ASSUME IInv, NEW r \in Readers, NEW row \in ReaderRows,
           \A q \in Readers : reader'[q] = IF q = r THEN row ELSE reader[q],
           reader' \in [Readers -> ReaderRows],
           row.step # "idle" => row.key \in Keys,
           row.step = "filling" => row.value \in Snapshots /\ row.value.edits <= db.edits,
           UNCHANGED <<db, cache, writer, faults, late>>
    PROVE  IInv'
<1>1. TypeOK'
  BY DEF IInv, TypeOK, ReaderRows
<1>2. NoneFromTheFuture'
  BY DEF IInv, NoneFromTheFuture
<1>3. StaleAreHunted'
  BY DEF IInv, StaleAreHunted, Stale, Hunted
<1> QED BY <1>1, <1>2, <1>3 DEF IInv

LEMMA ReaderKeepsIInv ==
    ASSUME IInv, NEW r \in Readers,
           (\E k \in Keys : ReadMiss(r, k)) \/ ReadDatabase(r) \/ Fill(r)
    PROVE  IInv'
<1>t. reader \in [Readers -> ReaderRows]
  BY TypedRows DEF IInv
<1>1. ASSUME NEW k \in Keys, ReadMiss(r, k) PROVE IInv'
  <2> DEFINE row == [step |-> "missed", key |-> k, value |-> Nothing]
  <2>1. row \in ReaderRows /\ row.key = k /\ row.step = "missed"
    BY DEF ReaderRows
  <2>2. reader' = [reader EXCEPT ![r] = row] /\ UNCHANGED <<db, cache, writer, faults, late>>
    BY <1>1 DEF ReadMiss
  <2> HIDE DEF row
  <2>3. /\ \A q \in Readers : reader'[q] = IF q = r THEN row ELSE reader[q]
        /\ reader' \in [Readers -> ReaderRows]
    BY <1>t, <2>1, <2>2
  <2> QED BY <2>1, <2>2, <2>3, QueryKeepsIInv
<1>2. CASE ReadDatabase(r)
  <2> DEFINE row == [step |-> "filling", key |-> reader[r].key, value |-> db]
  <2>1. /\ reader[r].step = "missed" /\ reader[r].key \in Keys
        /\ db \in Snapshots /\ db.edits \in Nat
        /\ reader' = [reader EXCEPT ![r].step = "filling", ![r].value = db]
        /\ UNCHANGED <<db, cache, writer, faults, late>>
    BY <1>2, CacheAssumption DEF ReadDatabase, IInv, NoneFromTheFuture, TypeOK, Snapshots
  <2>2. row \in ReaderRows /\ row.key \in Keys /\ row.value = db /\ row.step = "filling"
    BY <2>1 DEF ReaderRows
  <2>3. reader' \in [Readers -> ReaderRows]
    BY <1>t, <2>1 DEF ReaderRows
  <2>4. \A q \in Readers \ {r} : reader'[q] = reader[q]
    BY <1>t, <2>1
  <2>5. reader'[r] = row
    BY <1>t, <2>1 DEF ReaderRows
  <2> HIDE DEF row
  <2>6. \A q \in Readers : reader'[q] = IF q = r THEN row ELSE reader[q]
    BY <2>4, <2>5
  <2> QED BY <2>1, <2>2, <2>3, <2>6, QueryKeepsIInv
<1>3. CASE Fill(r)
  <2> DEFINE k == reader[r].key
             value == reader[r].value
  <2>1. /\ k \in Keys /\ value \in Snapshots /\ value.edits <= db.edits
        /\ value.edits \in Nat /\ db.edits \in Nat
        /\ cache' = [cache EXCEPT ![k] = value]
        /\ late' = IF value.edits < db.edits THEN late \cup {k} ELSE late \ {k}
        /\ reader' = [reader EXCEPT ![r] = IdleReader]
        /\ UNCHANGED <<db, writer, faults>>
    BY <1>3, CacheAssumption
       DEF Fill, Stored, IInv, NoneFromTheFuture, TypeOK, Snapshots
  <2>2. IdleReader \in ReaderRows /\ IdleReader.step = "idle"
    BY DEF IdleReader, ReaderRows
  <2>3. reader' \in [Readers -> ReaderRows]
    BY <1>t, <2>1, <2>2
  <2>4. \A q \in Readers : reader'[q] = IF q = r THEN IdleReader ELSE reader[q]
    BY <1>t, <2>1
  <2> HIDE DEF k, value
  <2>5. /\ cache' \in [Keys -> Snapshots \cup {Nothing}]
        /\ \A l \in Keys : cache'[l] = IF l = k THEN value ELSE cache[l]
    BY <2>1 DEF IInv, TypeOK
  <2>6. TypeOK'
    BY <2>1, <2>3, <2>5 DEF IInv, TypeOK, ReaderRows
  <2>7. NoneFromTheFuture'
    BY <2>1, <2>2, <2>4, <2>5 DEF IInv, NoneFromTheFuture
  <2>8. StaleAreHunted'
    <3> SUFFICES ASSUME faults' = 0, NEW l \in Keys, Stale(l)' PROVE Hunted(l)'
      BY DEF StaleAreHunted
    <3>1. l # k
      BY <2>1, <2>5 DEF Stale
    <3>2. Stale(l)
      BY <2>1, <2>5, <3>1 DEF Stale
    <3> QED BY <2>1, <3>2 DEF IInv, StaleAreHunted, Hunted
  <2> QED BY <2>6, <2>7, <2>8 DEF IInv
<1> QED BY <1>1, <1>2, <1>3

LEMMA ExpiryKeepsIInv ==
    ASSUME IInv, NEW k \in Keys, Expire(k)
    PROVE  IInv'
<1>1. /\ \A l \in Keys : cache'[l] = IF l = k THEN Nothing ELSE cache[l]
      /\ cache' \in [Keys -> Snapshots \cup {Nothing}]
      /\ late' = late \ {k}
      /\ UNCHANGED <<db, reader, writer, faults>>
  BY DEF Expire, IInv, TypeOK
<1>2. TypeOK'
  BY <1>1 DEF IInv, TypeOK
<1>3. NoneFromTheFuture'
  BY <1>1 DEF IInv, NoneFromTheFuture
<1>4. StaleAreHunted'
  BY <1>1 DEF IInv, StaleAreHunted, Stale, Hunted
<1> QED BY <1>2, <1>3, <1>4 DEF IInv

LEMMA WriterKeepsIInv ==
    ASSUME IInv, NEW w \in Writers,
           WriteDatabase(w) \/ ListKeys(w) \/ DeleteKeys(w) \/ WriterFails(w)
    PROVE  IInv'
<1>t. writer \in [Writers -> WriterRows] /\ db \in Snapshots
  BY TypedRows DEF IInv, TypeOK
<1>i. IdleWriter \in WriterRows /\ IdleWriter.step = "idle"
  BY DEF IdleWriter, WriterRows
<1>1. CASE WriteDatabase(w)
  <2>1. /\ db' \in Snapshots /\ db.edits <= db'.edits
        /\ writer' = [writer EXCEPT ![w].step = "written"]
        /\ UNCHANGED <<cache, reader, faults, late>>
    BY <1>1, <1>t, DatabaseMoves, CacheAssumption DEF WriteDatabase
  <2>2. writer' \in [Writers -> WriterRows] /\ writer'[w].step = "written"
    BY <1>t, <2>1 DEF WriterRows
  <2>3. TypeOK'
    BY <2>1, <2>2 DEF IInv, TypeOK, WriterRows
  <2>4. NoneFromTheFuture'
    <3>1. \A s \in Snapshots : s.edits <= db.edits => s.edits <= db'.edits
      BY <1>t, <2>1, CacheAssumption DEF Snapshots
    <3>2. \A k \in Keys : cache[k] # Nothing => cache[k] \in Snapshots
      BY DEF IInv, TypeOK
    <3> QED BY <2>1, <3>1, <3>2 DEF IInv, NoneFromTheFuture
  <2>5. StaleAreHunted'
    BY <2>2 DEF StaleAreHunted, Hunted
  <2> QED BY <2>3, <2>4, <2>5 DEF IInv
<1>2. CASE ListKeys(w)
  <2> DEFINE row == [step |-> "listed", doomed |-> Listed]
  <2>1. /\ writer' = [writer EXCEPT ![w] = row]
        /\ UNCHANGED <<db, cache, reader, faults, late>>
    BY <1>2 DEF ListKeys
  <2>2. row \in WriterRows /\ row.step = "listed" /\ row.doomed = Listed
    BY DEF WriterRows, Listed
  <2> HIDE DEF row
  <2>3. /\ writer' \in [Writers -> WriterRows]
        /\ \A v \in Writers : writer'[v] = IF v = w THEN row ELSE writer[v]
    BY <1>t, <2>1, <2>2
  <2>4. TypeOK'
    BY <2>1, <2>3 DEF IInv, TypeOK, WriterRows
  <2>5. NoneFromTheFuture'
    BY <2>1 DEF IInv, NoneFromTheFuture
  <2>6. StaleAreHunted'
    <3> SUFFICES ASSUME NEW k \in Keys, Stale(k)' PROVE Hunted(k)'
      BY DEF StaleAreHunted
    <3>1. k \in Listed
      BY <2>1 DEF Stale, Listed
    <3> QED BY <2>2, <2>3, <3>1 DEF Hunted
  <2> QED BY <2>4, <2>5, <2>6 DEF IInv
<1>3. CASE DeleteKeys(w)
  <2> DEFINE doomed == writer[w].doomed
  <2>1. /\ writer[w].step = "listed"
        /\ cache' = [k \in Keys |-> IF k \in doomed THEN Nothing ELSE cache[k]]
        /\ late' = late \ doomed
        /\ writer' = [writer EXCEPT ![w] = IdleWriter]
        /\ UNCHANGED <<db, reader, faults>>
    BY <1>3 DEF DeleteKeys
  <2> HIDE DEF doomed
  <2>2. /\ writer' \in [Writers -> WriterRows]
        /\ \A v \in Writers : writer'[v] = IF v = w THEN IdleWriter ELSE writer[v]
    BY <1>i, <1>t, <2>1
  <2>3. cache' \in [Keys -> Snapshots \cup {Nothing}]
    BY <2>1 DEF IInv, TypeOK
  <2>4. TypeOK'
    BY <2>1, <2>2, <2>3 DEF IInv, TypeOK, WriterRows
  <2>5. NoneFromTheFuture'
    BY <2>1 DEF IInv, NoneFromTheFuture
  <2>6. StaleAreHunted'
    <3> SUFFICES ASSUME faults' = 0, NEW k \in Keys, Stale(k)' PROVE Hunted(k)'
      BY DEF StaleAreHunted
    <3>1. k \notin doomed /\ Stale(k)
      BY <2>1 DEF Stale
    <3>2. PICK v \in Writers : \/ writer[v].step = "written"
                               \/ writer[v].step = "listed" /\ k \in writer[v].doomed
      BY <2>1, <3>1 DEF IInv, StaleAreHunted, Hunted
    <3>3. v # w
      BY <2>1, <3>1, <3>2 DEF doomed
    <3>4. writer'[v] = writer[v]
      BY <2>2, <3>3
    <3> QED BY <3>2, <3>4 DEF Hunted
  <2> QED BY <2>4, <2>5, <2>6 DEF IInv
<1>4. CASE WriterFails(w)
  <2>1. /\ faults' = faults + 1 /\ faults < MaxFaults
        /\ writer' = [writer EXCEPT ![w] = IdleWriter]
        /\ UNCHANGED <<db, cache, reader, late>>
    BY <1>4 DEF WriterFails
  <2>2. writer' \in [Writers -> WriterRows]
    BY <1>i, <1>t, <2>1
  <2>3. faults' \in 0 .. MaxFaults /\ faults' # 0
    BY <2>1, CacheAssumption DEF IInv, TypeOK
  <2>4. TypeOK'
    BY <2>1, <2>2, <2>3 DEF IInv, TypeOK, WriterRows
  <2>5. NoneFromTheFuture'
    BY <2>1 DEF IInv, NoneFromTheFuture
  <2>6. StaleAreHunted'
    BY <2>3 DEF StaleAreHunted
  <2> QED BY <2>4, <2>5, <2>6 DEF IInv
<1> QED BY <1>1, <1>2, <1>3, <1>4

LEMMA SeatKeepsIInv ==
    ASSUME IInv, Seat
    PROVE  IInv'
<1>1. db \in Snapshots
  BY DEF IInv, TypeOK
<1>2. /\ db.seats < MaxSeats /\ db' = [db EXCEPT !.seats = @ + 1]
      /\ UNCHANGED <<cache, reader, writer, faults, late>>
  BY DEF Seat
<1>3. db' \in Snapshots /\ db'.edits = db.edits
  BY <1>1, <1>2, CacheAssumption DEF Snapshots
<1>4. TypeOK'
  BY <1>2, <1>3 DEF IInv, TypeOK
<1>5. NoneFromTheFuture'
  BY <1>2, <1>3 DEF IInv, NoneFromTheFuture
<1>6. StaleAreHunted'
  BY <1>2, <1>3 DEF IInv, StaleAreHunted, Stale, Hunted
<1> QED BY <1>4, <1>5, <1>6 DEF IInv

\* The inductive invariant holds in every reachable state.
LEMMA CacheInvariant == Spec => []IInv
<1>1. IInv /\ [Next]_vars => IInv'
  <2> SUFFICES ASSUME IInv, [Next]_vars PROVE IInv'
    OBVIOUS
  <2>1. CASE UNCHANGED vars
    BY <2>1 DEF vars, IInv, TypeOK, NoneFromTheFuture, StaleAreHunted, Stale, Hunted
  <2> QED BY <2>1, ReaderKeepsIInv, ExpiryKeepsIInv, WriterKeepsIInv, SeatKeepsIInv DEF Next
<1> QED BY <1>1, InitIInv, PTL DEF Spec

(***************************************************************************)
(* Entries of the cache, queries and changes keep their types.             *)
(***************************************************************************)
THEOREM CacheTypeCorrect == Spec => []TypeOK
<1>1. IInv => TypeOK
  BY DEF IInv
<1> QED BY <1>1, CacheInvariant, PTL

(***************************************************************************)
(* With every change done and none cut short, only an entry that was       *)
(* already out of date when a slow query stored it misses a change: what   *)
(* was stored in time, even between the listing of the keys and their      *)
(* deletion, is found by the writer of the change or of a later one.       *)
(***************************************************************************)
THEOREM InvalidationMissesNothing == Spec => []StaleOnlyWhenStoredLate
<1>1. IInv => StaleOnlyWhenStoredLate
  BY DEF IInv, StaleOnlyWhenStoredLate, NoWriteInProgress, StaleAreHunted, Stale, Hunted
<1> QED BY <1>1, CacheInvariant, PTL
=============================================================================
