------------------------------ MODULE EventCache ------------------------------
(***************************************************************************)
(* The Redis cache in front of the event queries: searchEvents and         *)
(* getEventById read through it, and create, update, delete and            *)
(* importEvents clear it after they wrote to MySQL.  Registrations change  *)
(* remainingSpots and leave the cache alone.  The events table is          *)
(* abstracted to two counters: changes by administrators and imports, and  *)
(* changes by registrations.                                               *)
(***************************************************************************)
EXTENDS Integers

CONSTANTS
    Keys,              \* events:search:<query> and events:detail:<id>
    Readers, Writers,  \* requests
    Nothing,           \* a key that is not in the cache
    MaxEdits, MaxSeats, MaxFaults   \* bounds

ASSUME CacheAssumption == MaxEdits \in Nat /\ MaxSeats \in Nat /\ MaxFaults \in Nat

VARIABLES
    db,       \* the events table: [edits, seats]
    cache,    \* what Redis has under each key
    reader,   \* how far each query is, its key and what it has read
    writer,   \* how far each change is, and the keys it is about to delete
    faults,   \* writers that died between MySQL and Redis
    late      \* history: keys whose entry was out of date when it was stored

vars == <<db, cache, reader, writer, faults, late>>

Snapshots == [edits : 0 .. MaxEdits, seats : 0 .. MaxSeats]
IdleReader == [step |-> "idle", key |-> Nothing, value |-> Nothing]
IdleWriter == [step |-> "idle", doomed |-> {}]

TypeOK ==
    /\ db \in Snapshots
    /\ cache \in [Keys -> Snapshots \cup {Nothing}]
    /\ reader \in [Readers -> [step : {"idle", "missed", "filling"}, key : Keys \cup {Nothing},
                               value : Snapshots \cup {Nothing}]]
    /\ writer \in [Writers -> [step : {"idle", "written", "listed"}, doomed : SUBSET Keys]]
    /\ faults \in 0 .. MaxFaults
    /\ late \subseteq Keys

Init ==
    /\ db = [edits |-> 0, seats |-> 0]
    /\ cache = [k \in Keys |-> Nothing]
    /\ reader = [r \in Readers |-> IdleReader]
    /\ writer = [w \in Writers |-> IdleWriter]
    /\ faults = 0
    /\ late = {}

-----------------------------------------------------------------------------
(* A query: GET; on a miss the database is read and SETEX stores the answer. *)

ReadMiss(r, k) ==
    /\ reader[r].step = "idle"
    /\ cache[k] = Nothing
    /\ reader' = [reader EXCEPT ![r] = [step |-> "missed", key |-> k, value |-> Nothing]]
    /\ UNCHANGED <<db, cache, writer, faults, late>>

ReadDatabase(r) ==
    /\ reader[r].step = "missed"
    /\ reader' = [reader EXCEPT ![r].step = "filling", ![r].value = db]
    /\ UNCHANGED <<db, cache, writer, faults, late>>

\* Mutant: what is stored is the key, not the answer.
StoredKey(r) == reader[r].key
Stored(r) == reader[r].value

Fill(r) ==
    LET k == reader[r].key
    IN  /\ reader[r].step = "filling"
        /\ cache' = [cache EXCEPT ![k] = Stored(r)]
        /\ late' = IF reader[r].value.edits < db.edits THEN late \cup {k} ELSE late \ {k}
        /\ reader' = [reader EXCEPT ![r] = IdleReader]
        /\ UNCHANGED <<db, writer, faults>>

\* Mutant: SET without a time to live.
NeverExpires(k) == FALSE
MayExpire(k) == cache[k] # Nothing

\* The time to live of a key (300 s or 600 s) has passed.
Expire(k) ==
    /\ MayExpire(k)
    /\ cache' = [cache EXCEPT ![k] = Nothing]
    /\ late' = late \ {k}
    /\ UNCHANGED <<db, reader, writer, faults>>

-----------------------------------------------------------------------------
(* A change: write to MySQL, then delByPattern, which lists the keys and deletes those. *)

WriteDatabase(w) ==
    /\ writer[w].step = "idle"
    /\ db.edits < MaxEdits
    /\ db' = [db EXCEPT !.edits = @ + 1]
    /\ writer' = [writer EXCEPT ![w].step = "written"]
    /\ UNCHANGED <<cache, reader, faults, late>>

\* Mutant: only the entries of searches are listed.
SearchesOnly == {k \in Keys : cache[k] # Nothing /\ k = CHOOSE s \in Keys : TRUE}
Listed == {k \in Keys : cache[k] # Nothing}

ListKeys(w) ==
    /\ writer[w].step = "written"
    /\ writer' = [writer EXCEPT ![w] = [step |-> "listed", doomed |-> Listed]]
    /\ UNCHANGED <<db, cache, reader, faults, late>>

DeleteKeys(w) ==
    /\ writer[w].step = "listed"
    /\ cache' = [k \in Keys |-> IF k \in writer[w].doomed THEN Nothing ELSE cache[k]]
    /\ late' = late \ writer[w].doomed
    /\ writer' = [writer EXCEPT ![w] = IdleWriter]
    /\ UNCHANGED <<db, reader, faults>>

\* Redis fails or the process dies before the keys are deleted; MySQL keeps the change.
WriterFails(w) ==
    /\ writer[w].step \in {"written", "listed"}
    /\ faults < MaxFaults
    /\ faults' = faults + 1
    /\ writer' = [writer EXCEPT ![w] = IdleWriter]
    /\ UNCHANGED <<db, cache, reader, late>>

\* registerForEvent
Seat ==
    /\ db.seats < MaxSeats
    /\ db' = [db EXCEPT !.seats = @ + 1]
    /\ UNCHANGED <<cache, reader, writer, faults, late>>

Next ==
    \/ \E r \in Readers : (\E k \in Keys : ReadMiss(r, k)) \/ ReadDatabase(r) \/ Fill(r)
    \/ \E k \in Keys : Expire(k)
    \/ \E w \in Writers : WriteDatabase(w) \/ ListKeys(w) \/ DeleteKeys(w) \/ WriterFails(w)
    \/ Seat

Spec == Init /\ [][Next]_vars

\* Requests run to their end, and Redis drops an entry when its time is over.
FairSpec ==
    /\ Spec
    /\ \A r \in Readers : WF_vars(ReadDatabase(r)) /\ WF_vars(Fill(r))
    /\ \A k \in Keys : WF_vars(Expire(k))

-----------------------------------------------------------------------------
(* Properties. *)

NoWriteInProgress == \A w \in Writers : writer[w].step = "idle"

(***************************************************************************)
(* When no change is in progress and none was cut short, an entry that     *)
(* misses a change was out of date when it was stored: the query had read  *)
(* MySQL before the change and reached Redis after it.  Nothing else gets  *)
(* past the invalidation, in particular no entry stored between the        *)
(* listing of the keys and their deletion.                                 *)
(***************************************************************************)
StaleOnlyWhenStoredLate ==
    \A k \in Keys :
        (NoWriteInProgress /\ faults = 0 /\ cache[k] # Nothing /\ k \notin late)
            => cache[k].edits = db.edits

(***************************************************************************)
(* Once the events stop changing, the cache ends up with current entries   *)
(* only: late entries, those of dead writers and those that registrations  *)
(* made stale are gone after their time to live.                           *)
(***************************************************************************)
CacheConverges == <>[](\A k \in Keys : cache[k] \in {Nothing, db})
=============================================================================
