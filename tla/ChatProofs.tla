------------------------------ MODULE ChatProofs ------------------------------
(***************************************************************************)
(* Proofs about Chat, for any numbers of messages, members, marks and      *)
(* failures.                                                               *)
(***************************************************************************)
EXTENDS Chat, FiniteSetTheorems, TLAPS

WorkerRows == [step : {"idle", "run", "complete", "fail"}, job : Jobs \cup {<<>>},
               stalled : BOOLEAN]
MarkRows == [step : {"idle", "find", "add", "announce"}, last : Named \cup {NoMessage}]

(***************************************************************************)
(* The types, part by part: a member who is marking has asked for a        *)
(* message, and the worker has a job while it runs.                        *)
(***************************************************************************)
SendTyped ==
    /\ send \in [Messages -> {"new", "admitted", "queued", "shown", "rejected"}]
    /\ count \in [Users -> Nat]

QueueTyped ==
    /\ queue \in Seq(Jobs)
    /\ worker \in WorkerRows
    /\ worker.step # "idle" => worker.job \in Jobs

TableTyped ==
    /\ saved \in Seq(Messages) /\ IsInjective(saved)
    /\ read \subseteq ToSet(saved)

MarkTyped ==
    /\ mark \in [Users -> MarkRows]
    /\ asked \subseteq Named \X Users
    /\ early \subseteq asked /\ receipts \subseteq asked
    /\ \A u \in Users : mark[u].step # "idle" =>
            mark[u].last \in Named /\ <<mark[u].last, u>> \in asked

ClientsTyped ==
    /\ loaded \subseteq room /\ room \subseteq Users
    /\ view \in [Users -> SUBSET Messages] /\ gap \in [Users -> SUBSET Messages]

FaultsTyped == faults \in 0 .. MaxFaults

Typed == SendTyped /\ QueueTyped /\ TableTyped /\ MarkTyped /\ ClientsTyped /\ FaultsTyped

(***************************************************************************)
(* A job that still has its effect before it: it waits or runs.            *)
(***************************************************************************)
InWork(j) == j \in ToSet(queue) \/ (worker.step = "run" /\ worker.job = j)

\* Messages on their way to the room, or there, that no row or job stands for.
Lost == {m \in Messages : send[m] \in {"queued", "shown"} /\ ~ Kept(m)}

LossesAreFaults == IsFiniteSet(Lost) /\ Cardinality(Lost) <= faults

\* A job that is in the system, even if the worker is through with it.
Held(j) == j \in ToSet(queue) \/ (worker.step # "idle" /\ worker.job = j)

\* A member asked for a mark that is queued, and its message is in the table.
MarksAreAsked ==
    /\ \A last \in Named, u \in Users :
        Held(MarkJob(last, u)) => <<last, u>> \in asked /\ u \in Members /\ InTable(last)
    /\ \A u \in Users : mark[u].step = "add" => u \in Members /\ InTable(mark[u].last)

\* The room has the receipt, or gets it next.
Promised(last, u) ==
    <<last, u>> \in receipts \/ (mark[u].step = "announce" /\ mark[u].last = last)

PromisesAreKept ==
    faults = 0 =>
        \A last \in Messages, u \in Members :
            Promised(last, u) /\ <<last, u>> \notin early /\ SenderOf[last] # u
                => last \in read \/ InWork(MarkJob(last, u))

(***************************************************************************)
(* What each member of the room has seen of it.                            *)
(***************************************************************************)
RoomIsSeen ==
    \A u \in room, m \in Messages : send[m] = "shown" => m \in view[u] \cup gap[u]
-----------------------------------------------------------------------------
(* Jobs. *)

LEMMA JobsAreTyped ==
    ASSUME NEW j \in Jobs
    PROVE  /\ j.name \in {"save-message", "mark-read"} /\ j.message \in Named
           /\ j.name = "save-message" => j.message \in Messages /\ j = SaveJob(j.message)
           /\ j.name = "mark-read" => j.reader \in Users /\ j = MarkJob(j.message, j.reader)
<1>1. CASE \E m \in Messages : j = SaveJob(m)
  BY <1>1 DEF SaveJob, Named
<1>2. CASE \E m \in Named, u \in Users : j = MarkJob(m, u)
  BY <1>2 DEF MarkJob
<1> QED BY <1>1, <1>2 DEF Jobs

LEMMA JobsDiffer ==
    /\ \A m, n : SaveJob(m) = SaveJob(n) => m = n
    /\ \A m, n, u : SaveJob(m) # MarkJob(n, u)
    /\ \A m, n, u, v : MarkJob(m, u) = MarkJob(n, v) => m = n /\ u = v
    /\ \A m : SaveJob(m).name = "save-message" /\ SaveJob(m).message = m
    /\ \A m, u : /\ MarkJob(m, u).name = "mark-read" /\ MarkJob(m, u).message = m
                 /\ MarkJob(m, u).reader = u
<1>1. \A m : SaveJob(m).name = "save-message" /\ SaveJob(m).message = m
  BY DEF SaveJob
<1>2. \A m, u : /\ MarkJob(m, u).name = "mark-read" /\ MarkJob(m, u).message = m
                /\ MarkJob(m, u).reader = u
  BY DEF MarkJob
<1> QED BY <1>1, <1>2

\* The elements of a sequence that grows at its end and shrinks at its head.
LEMMA ElementsAppended ==
    ASSUME NEW S, NEW s \in Seq(S), NEW x \in S
    PROVE  Append(s, x) \in Seq(S) /\ ToSet(Append(s, x)) = ToSet(s) \cup {x}
<1>1. ToSet(Append(s, x)) \subseteq ToSet(s) \cup {x}
  BY DEF ToSet
<1>2. ASSUME NEW i \in DOMAIN s PROVE s[i] \in ToSet(Append(s, x))
  <2>1. i \in DOMAIN Append(s, x) /\ Append(s, x)[i] = s[i]
    BY <1>2
  <2> QED BY <2>1 DEF ToSet
<1>3. x \in ToSet(Append(s, x))
  <2>1. Len(s) + 1 \in DOMAIN Append(s, x) /\ Append(s, x)[Len(s) + 1] = x
    OBVIOUS
  <2> QED BY <2>1 DEF ToSet
<1>4. ToSet(s) \subseteq ToSet(Append(s, x))
  BY <1>2 DEF ToSet
<1> QED BY <1>1, <1>3, <1>4

LEMMA ElementsTaken ==
    ASSUME NEW S, NEW s \in Seq(S), s # <<>>
    PROVE  Head(s) \in S /\ Tail(s) \in Seq(S) /\ ToSet(s) = ToSet(Tail(s)) \cup {Head(s)}
<1>1. Head(s) \in S /\ Tail(s) \in Seq(S) /\ Len(s) \in Nat \ {0} /\ Len(Tail(s)) = Len(s) - 1
      /\ Head(s) = s[1] /\ DOMAIN s = 1 .. Len(s) /\ DOMAIN Tail(s) = 1 .. Len(s) - 1
      /\ \A i \in 1 .. Len(s) - 1 : Tail(s)[i] = s[i + 1]
  OBVIOUS
<1>2. ASSUME NEW i \in DOMAIN s PROVE s[i] \in ToSet(Tail(s)) \cup {Head(s)}
  <2>1. CASE i = 1
    BY <1>1, <2>1
  <2>2. CASE i # 1
    <3>1. i - 1 \in DOMAIN Tail(s) /\ Tail(s)[i - 1] = s[i]
      BY <1>1, <1>2, <2>2
    <3> QED BY <3>1 DEF ToSet
  <2> QED BY <2>1, <2>2
<1>3. ASSUME NEW i \in DOMAIN Tail(s) PROVE Tail(s)[i] \in ToSet(s)
  BY <1>1, <1>3 DEF ToSet
<1>4. Head(s) \in ToSet(s)
  BY <1>1 DEF ToSet
<1>5. ToSet(s) \subseteq ToSet(Tail(s)) \cup {Head(s)}
  BY <1>2 DEF ToSet
<1>6. ToSet(Tail(s)) \subseteq ToSet(s)
  BY <1>3 DEF ToSet
<1> QED BY <1>1, <1>4, <1>5, <1>6

LEMMA EmptyHasNoElements == ToSet(<<>>) = {}
BY DEF ToSet

LEMMA ElementsAreTyped ==
    ASSUME NEW S, NEW s \in Seq(S)
    PROVE  ToSet(s) \subseteq S
BY DEF ToSet

-----------------------------------------------------------------------------
(* Types. *)

LEMMA SendStaysTyped ==
    ASSUME Typed, [Next]_vars
    PROVE  SendTyped'
<1>t. /\ send \in [Messages -> {"new", "admitted", "queued", "shown", "rejected"}]
      /\ count \in [Users -> Nat]
      /\ \A m \in Messages : SenderOf[m] \in Users
  BY ChatAssumption DEF Typed, SendTyped
<1>1. ASSUME NEW m \in Messages, CheckLimit(m) PROVE SendTyped'
  BY <1>t, <1>1 DEF CheckLimit, SendTyped
<1>2. ASSUME NEW m \in Messages,
             LimiterFails(m) \/ Sending(m) \/ SendFails(m)
      PROVE  SendTyped'
  BY <1>t, <1>2 DEF LimiterFails, Sending, Refuse, SendMessage, Broadcast, Show, SendFails, SendTyped
<1>3. ASSUME NEW u \in Users, WindowEnds(u) PROVE SendTyped'
  BY <1>t, <1>3 DEF WindowEnds, SendTyped
<1>4. CASE Crash
  BY <1>t, <1>4 DEF Crash, SendTyped
<1>5. CASE \/ Working \/ ProcessFails \/ UNCHANGED vars
           \/ \E u \in Users : \/ FindMessage(u) \/ AddMarkJob(u) \/ ReadReceipt(u)
                               \/ MarkFails(u) \/ Subscribe(u) \/ LoadHistory(u)
                               \/ Disconnect(u)
           \/ \E u \in Users, m \in Named : MarkAsRead(u, m)
  <2>1. UNCHANGED <<send, count>>
    BY <1>5 DEF Working, Take, SaveMessage, MarkRead, JobEnds, ProcessFails, vars,
                FindMessage, AddMarkJob, ReadReceipt, MarkFails, Subscribe, LoadHistory,
                Disconnect, MarkAsRead
  <2> QED BY <1>t, <2>1 DEF SendTyped
<1> QED BY <1>1, <1>2, <1>3, <1>4, <1>5 DEF Next, Sending

LEMMA QueueStaysTyped ==
    ASSUME Typed, [Next]_vars
    PROVE  QueueTyped'
<1>t. /\ queue \in Seq(Jobs) /\ worker \in WorkerRows
      /\ worker.step # "idle" => worker.job \in Jobs
  BY DEF Typed, QueueTyped
<1>1. ASSUME NEW j \in Jobs, queue' = Append(queue, j), worker' = worker PROVE QueueTyped'
  BY <1>t, <1>1 DEF QueueTyped
<1>2. ASSUME NEW m \in Messages, SendMessage(m) PROVE QueueTyped'
  <2>1. SaveJob(m) \in Jobs
    BY DEF Jobs
  <2> QED BY <1>1, <1>2, <1>t, <2>1 DEF SendMessage, QueueTyped
<1>3. ASSUME NEW u \in Users, AddMarkJob(u) PROVE QueueTyped'
  <2>1. mark[u].last \in Named
    BY <1>3 DEF AddMarkJob, Typed, MarkTyped
  <2>2. MarkJob(mark[u].last, u) \in Jobs
    BY <2>1 DEF Jobs
  <2> QED BY <1>1, <1>3, <2>2 DEF AddMarkJob
<1>4. CASE Take
  <2>1. Head(queue) \in Jobs /\ queue' \in Seq(Jobs)
    BY <1>4, <1>t, ElementsTaken DEF Take
  <2>2. worker' = [worker EXCEPT !.step = "run", !.job = Head(queue)]
    BY <1>4 DEF Take
  <2>3. worker' \in WorkerRows /\ worker'.job = Head(queue)
    BY <1>t, <2>1, <2>2 DEF WorkerRows
  <2> QED BY <2>1, <2>3 DEF QueueTyped
<1>5. ASSUME NEW step \in {"run", "complete", "fail"}, worker' = [worker EXCEPT !.step = step],
             worker.step # "idle", queue' = queue
      PROVE  QueueTyped'
  <2>1. worker' \in WorkerRows /\ worker'.job = worker.job
    BY <1>t, <1>5 DEF WorkerRows
  <2> QED BY <1>5, <1>t, <2>1 DEF QueueTyped
<1>6. CASE SaveMessage \/ MarkRead \/ ProcessFails
  BY <1>5, <1>6 DEF SaveMessage, MarkRead, ProcessFails
<1>7. CASE JobEnds
  <2>1. IdleWorker \in WorkerRows /\ IdleWorker.step = "idle"
    BY DEF IdleWorker, WorkerRows
  <2> QED BY <1>7, <1>t, <2>1 DEF JobEnds, QueueTyped
<1>8. CASE Crash
  <2>1. CASE worker.step = "idle"
    BY <1>8, <1>t, <2>1 DEF Crash, QueueTyped
  <2>2. CASE worker.step # "idle"
    <3>1. PICK step \in {"run", "fail"} :
              worker' = [worker EXCEPT !.step = step, !.stalled = TRUE]
      BY <1>8, <2>2 DEF Crash
    <3>2. worker' \in WorkerRows /\ worker'.job = worker.job
      BY <1>t, <3>1 DEF WorkerRows
    <3> QED BY <1>8, <1>t, <2>2, <3>2 DEF Crash, QueueTyped
  <2> QED BY <2>1, <2>2
<1>9. CASE \/ UNCHANGED vars
           \/ \E m \in Messages : \/ CheckLimit(m) \/ LimiterFails(m) \/ Refuse(m) \/ Broadcast(m)
                                  \/ SendFails(m)
           \/ \E u \in Users : \/ FindMessage(u) \/ ReadReceipt(u) \/ WindowEnds(u)
                               \/ MarkFails(u) \/ Subscribe(u) \/ LoadHistory(u)
                               \/ Disconnect(u)
           \/ \E u \in Users, m \in Named : MarkAsRead(u, m)
  <2>1. UNCHANGED <<queue, worker>>
    BY <1>9 DEF vars, CheckLimit, LimiterFails, Refuse, Broadcast, Show, SendFails, FindMessage,
                ReadReceipt, WindowEnds, MarkFails, Subscribe, LoadHistory, Disconnect, MarkAsRead
  <2> QED BY <1>t, <2>1 DEF QueueTyped
<1> QED BY <1>2, <1>3, <1>4, <1>6, <1>7, <1>8, <1>9 DEF Next, Sending, Working

\* A row is inserted once: its identifier is the key.
LEMMA RowsAreDistinct ==
    ASSUME TableTyped, NEW m \in Messages
    PROVE  /\ SavedOnce(saved, m) \in Seq(Messages) /\ IsInjective(SavedOnce(saved, m))
           /\ ToSet(SavedOnce(saved, m)) = ToSet(saved) \cup {m}
<1>1. CASE m \in ToSet(saved)
  BY <1>1 DEF SavedOnce, TableTyped
<1>2. CASE m \notin ToSet(saved)
  <2>1. SavedOnce(saved, m) = Append(saved, m) /\ saved \in Seq(Messages)
    BY <1>2 DEF SavedOnce, TableTyped
  <2>2. IsInjective(Append(saved, m))
    <3>1. \A i \in DOMAIN saved : saved[i] # m
      BY <1>2 DEF ToSet
    <3>2. /\ DOMAIN saved = 1 .. Len(saved) /\ Len(saved) \in Nat
          /\ DOMAIN Append(saved, m) = 1 .. Len(saved) + 1
          /\ \A i \in 1 .. Len(saved) : Append(saved, m)[i] = saved[i]
          /\ Append(saved, m)[Len(saved) + 1] = m
      BY <2>1
    <3>3. \A i, j \in 1 .. Len(saved) : saved[i] = saved[j] => i = j
      BY <3>2 DEF TableTyped, IsInjective
    <3> QED BY <3>1, <3>2, <3>3 DEF IsInjective
  <2> QED BY <2>1, <2>2, ElementsAppended
<1> QED BY <1>1, <1>2

LEMMA SavedGrows ==
    ASSUME Typed, [Next]_vars
    PROVE  /\ ToSet(saved) \subseteq ToSet(saved)' /\ TableTyped'
           /\ ~ SaveMessage => saved' = saved
<1>1. CASE SaveMessage
  <2>1. worker.job.message \in Messages
    BY <1>1, JobsAreTyped DEF SaveMessage, Typed, QueueTyped
  <2> QED BY <1>1, <2>1, RowsAreDistinct DEF SaveMessage, Typed, TableTyped
<1>2. CASE MarkRead
  <2>1. MarkedBy(worker.job) \subseteq ToSet(saved)
    BY DEF MarkedBy
  <2> QED BY <1>2, <2>1 DEF MarkRead, Typed, TableTyped
<1>3. CASE \/ Take \/ JobEnds \/ ProcessFails \/ Crash \/ UNCHANGED vars
           \/ \E m \in Messages : CheckLimit(m) \/ LimiterFails(m) \/ Sending(m) \/ SendFails(m)
           \/ \E u \in Users :
                \/ WindowEnds(u) \/ Subscribe(u) \/ LoadHistory(u) \/ Disconnect(u)
                \/ FindMessage(u) \/ AddMarkJob(u) \/ ReadReceipt(u) \/ MarkFails(u)
           \/ \E u \in Users, m \in Named : MarkAsRead(u, m)
  <2>1. UNCHANGED table
    BY <1>3 DEF vars, Take, JobEnds, ProcessFails, Crash, CheckLimit, LimiterFails, Sending, Refuse,
                SendMessage, Broadcast, Show, SendFails, WindowEnds, Subscribe, LoadHistory,
                Disconnect, FindMessage, AddMarkJob, ReadReceipt, MarkFails, MarkAsRead
  <2> QED BY <2>1 DEF table, Typed, TableTyped
<1> QED BY <1>1, <1>2, <1>3 DEF Next, Working

LEMMA MarksStayTyped ==
    ASSUME Typed, [Next]_vars
    PROVE  MarkTyped'
<1>t. /\ mark \in [Users -> MarkRows]
      /\ asked \subseteq Named \X Users
      /\ early \subseteq asked /\ receipts \subseteq asked
      /\ \A u \in Users : mark[u].step # "idle" =>
            mark[u].last \in Named /\ <<mark[u].last, u>> \in asked
  BY DEF Typed, MarkTyped
<1>i. IdleMark \in MarkRows /\ IdleMark.step = "idle"
  BY DEF IdleMark, MarkRows
<1>1. ASSUME NEW u \in Users, NEW last \in Named, MarkAsRead(u, last) PROVE MarkTyped'
  <2> DEFINE row == [step |-> "find", last |-> last]
  <2>1. row \in MarkRows /\ row.last = last
    BY DEF MarkRows
  <2>2. /\ mark' = [mark EXCEPT ![u] = row] /\ asked' = asked \cup {<<last, u>>}
        /\ UNCHANGED <<early, receipts>>
    BY <1>1 DEF MarkAsRead
  <2> HIDE DEF row
  <2>3. /\ mark' \in [Users -> MarkRows]
        /\ \A v \in Users : mark'[v] = IF v = u THEN row ELSE mark[v]
    BY <1>t, <2>1, <2>2
  <2> QED BY <1>t, <2>1, <2>2, <2>3 DEF MarkTyped
<1>2. ASSUME NEW u \in Users, NEW step \in {"add", "announce"}, mark[u].step # "idle",
             mark' = [mark EXCEPT ![u].step = step]
      PROVE  /\ mark' \in [Users -> MarkRows]
             /\ \A v \in Users : mark'[v].last = mark[v].last
             /\ \A v \in Users : mark'[v].step # "idle" => mark[v].step # "idle"
  <2>1. mark' \in [Users -> MarkRows] /\ mark'[u].last = mark[u].last
    BY <1>2, <1>t DEF MarkRows
  <2>2. \A v \in Users \ {u} : mark'[v] = mark[v]
    BY <1>2, <1>t
  <2> QED BY <1>2, <2>1, <2>2
<1>3. ASSUME NEW u \in Users, FindMessage(u) PROVE MarkTyped'
  <2>1. /\ \E step \in {"add", "announce"} : mark' = [mark EXCEPT ![u].step = step]
        /\ mark[u].step = "find"
        /\ early' \subseteq early \cup {<<mark[u].last, u>>}
        /\ UNCHANGED <<asked, receipts>>
    BY <1>3 DEF FindMessage
  <2>2. /\ mark' \in [Users -> MarkRows]
        /\ \A v \in Users : mark'[v].last = mark[v].last
        /\ \A v \in Users : mark'[v].step # "idle" => mark[v].step # "idle"
    BY <1>2, <2>1
  <2> QED BY <1>t, <2>1, <2>2 DEF MarkTyped
<1>4. ASSUME NEW u \in Users, AddMarkJob(u) PROVE MarkTyped'
  <2>1. /\ mark' = [mark EXCEPT ![u].step = "announce"] /\ mark[u].step = "add"
        /\ UNCHANGED <<asked, early, receipts>>
    BY <1>4 DEF AddMarkJob, reading
  <2>2. /\ mark' \in [Users -> MarkRows]
        /\ \A v \in Users : mark'[v].last = mark[v].last
        /\ \A v \in Users : mark'[v].step # "idle" => mark[v].step # "idle"
    BY <1>2, <2>1
  <2> QED BY <1>t, <2>1, <2>2 DEF MarkTyped
<1>5. ASSUME NEW u \in Users, ReadReceipt(u) \/ MarkFails(u) PROVE MarkTyped'
  <2>1. /\ mark' = [mark EXCEPT ![u] = IdleMark] /\ mark[u].step # "idle"
        /\ receipts' \subseteq receipts \cup {<<mark[u].last, u>>}
        /\ UNCHANGED <<asked, early>>
    BY <1>5 DEF ReadReceipt, MarkFails, reading
  <2>2. /\ mark' \in [Users -> MarkRows]
        /\ \A v \in Users : mark'[v] = IF v = u THEN IdleMark ELSE mark[v]
    BY <1>i, <1>t, <2>1
  <2> QED BY <1>i, <1>t, <2>1, <2>2 DEF MarkTyped
<1>6. CASE Crash
  <2>1. /\ mark' = [u \in Users |-> IdleMark] /\ UNCHANGED <<asked, early, receipts>>
    BY <1>6 DEF Crash, reading
  <2> QED BY <1>i, <1>t, <2>1 DEF MarkTyped
<1>7. CASE \/ Working \/ ProcessFails \/ UNCHANGED vars
           \/ \E m \in Messages : CheckLimit(m) \/ LimiterFails(m) \/ Sending(m) \/ SendFails(m)
           \/ \E u \in Users : \/ WindowEnds(u) \/ Subscribe(u) \/ LoadHistory(u)
                               \/ Disconnect(u)
  <2>1. UNCHANGED marking
    BY <1>7 DEF vars, Working, Take, SaveMessage, MarkRead, JobEnds, ProcessFails, CheckLimit,
                LimiterFails, Sending, Refuse, SendMessage, Broadcast, Show, SendFails, WindowEnds,
                Subscribe, LoadHistory, Disconnect
  <2> QED BY <1>t, <2>1 DEF MarkTyped, marking, reading
<1> QED BY <1>1, <1>3, <1>4, <1>5, <1>6, <1>7 DEF Next

LEMMA ClientsStayTyped ==
    ASSUME Typed, [Next]_vars
    PROVE  ClientsTyped'
<1>t. /\ view \in [Users -> SUBSET Messages] /\ gap \in [Users -> SUBSET Messages]
      /\ room \subseteq Users /\ loaded \subseteq room
      /\ ToSet(saved) \subseteq Messages
  BY ElementsAreTyped DEF Typed, ClientsTyped, TableTyped
<1>1. ASSUME NEW m \in Messages, Broadcast(m) PROVE ClientsTyped'
  BY <1>t, <1>1 DEF Broadcast, Show, ClientsTyped
<1>2. ASSUME NEW u \in Users, Subscribe(u) PROVE ClientsTyped'
  BY <1>t, <1>2 DEF Subscribe, ClientsTyped
<1>3. ASSUME NEW u \in Users, LoadHistory(u) PROVE ClientsTyped'
  BY <1>t, <1>3 DEF LoadHistory, ClientsTyped
<1>4. ASSUME NEW u \in Users, Disconnect(u) PROVE ClientsTyped'
  BY <1>t, <1>4 DEF Disconnect, ClientsTyped
<1>5. CASE Crash
  BY <1>t, <1>5 DEF Crash, ClientsTyped
<1>6. CASE \/ Working \/ ProcessFails \/ UNCHANGED vars
           \/ \E m \in Messages : \/ CheckLimit(m) \/ LimiterFails(m) \/ Refuse(m) \/ SendMessage(m)
                                  \/ SendFails(m)
           \/ \E u \in Users : \/ WindowEnds(u) \/ FindMessage(u) \/ AddMarkJob(u)
                               \/ ReadReceipt(u) \/ MarkFails(u)
           \/ \E u \in Users, m \in Named : MarkAsRead(u, m)
  <2>1. UNCHANGED clients
    BY <1>6 DEF vars, Working, Take, SaveMessage, MarkRead, JobEnds, ProcessFails, CheckLimit,
                LimiterFails, Refuse, SendMessage, SendFails, WindowEnds, FindMessage, AddMarkJob,
                ReadReceipt, MarkFails, MarkAsRead
  <2> QED BY <1>t, <2>1 DEF ClientsTyped, clients
<1> QED BY <1>1, <1>2, <1>3, <1>4, <1>5, <1>6 DEF Next, Sending

\* Failures are counted, and nothing else is.
LEMMA FaultsAreCounted ==
    ASSUME Typed, [Next]_vars
    PROVE  /\ FaultsTyped' /\ faults \in Nat /\ faults' \in Nat /\ faults <= faults'
           /\ \/ \E m \in Messages : LimiterFails(m) \/ SendFails(m)
              \/ \E u \in Users : MarkFails(u)
              \/ ProcessFails
              \/ Crash
              => faults' = faults + 1
<1>t. faults \in 0 .. MaxFaults /\ MaxFaults \in Nat
  BY ChatAssumption DEF Typed, FaultsTyped
<1>1. CASE faults < MaxFaults /\ faults' = faults + 1
  BY <1>t, <1>1 DEF FaultsTyped
<1>2. CASE \/ \E m \in Messages : LimiterFails(m) \/ SendFails(m)
           \/ \E u \in Users : MarkFails(u)
           \/ ProcessFails
           \/ Crash
  BY <1>1, <1>2 DEF LimiterFails, SendFails, MarkFails, ProcessFails, Crash, Fault
<1>3. CASE \/ Working \/ UNCHANGED vars
           \/ \E m \in Messages : CheckLimit(m) \/ Sending(m)
           \/ \E u \in Users :
                \/ WindowEnds(u) \/ Subscribe(u) \/ LoadHistory(u) \/ Disconnect(u)
                \/ FindMessage(u) \/ AddMarkJob(u) \/ ReadReceipt(u)
           \/ \E u \in Users, m \in Named : MarkAsRead(u, m)
  <2>1. faults' = faults
    BY <1>3 DEF vars, Working, Take, SaveMessage, MarkRead, JobEnds, CheckLimit, Sending, Refuse,
                SendMessage, Broadcast, Show, WindowEnds, Subscribe, LoadHistory, Disconnect,
                FindMessage, AddMarkJob, ReadReceipt, MarkAsRead
  <2>2. faults \in Nat
    BY <1>t
  <2> QED BY <1>t, <1>1, <1>2, <2>1, <2>2 DEF FaultsTyped
<1> QED BY <1>1, <1>2, <1>3 DEF Next

LEMMA ChatStaysTyped ==
    ASSUME Typed, [Next]_vars
    PROVE  Typed'
BY SendStaysTyped, QueueStaysTyped, SavedGrows, MarksStayTyped, ClientsStayTyped,
   FaultsAreCounted DEF Typed

LEMMA ChatStartsTyped == Init => Typed
<1> SUFFICES ASSUME Init PROVE Typed
  OBVIOUS
<1>1. SendTyped
  BY DEF Init, SendTyped
<1>2. QueueTyped
  BY DEF Init, QueueTyped, IdleWorker, WorkerRows
<1>3. TableTyped
  BY DEF Init, TableTyped, IsInjective
<1>4. MarkTyped
  BY DEF Init, MarkTyped, MarkRows, IdleMark
<1>5. ClientsTyped /\ FaultsTyped
  BY ChatAssumption DEF Init, ClientsTyped, FaultsTyped
<1> QED BY <1>1, <1>2, <1>3, <1>4, <1>5 DEF Typed

(***************************************************************************)
(* Messages, jobs, rows and clients keep their types; a row has one        *)
(* message, and a message one row.                                         *)
(***************************************************************************)
THEOREM ChatTypeCorrect == Spec => []TypeOK
<1>1. Typed => TypeOK
  BY DEF Typed, TypeOK, SendTyped, QueueTyped, TableTyped, MarkTyped, ClientsTyped, FaultsTyped,
         WorkerRows, MarkRows
<1>2. Typed /\ [Next]_vars => Typed'
  BY ChatStaysTyped
<1> QED BY <1>1, <1>2, ChatStartsTyped, PTL DEF Spec

-----------------------------------------------------------------------------
(* What a member of the room misses. *)

LEMMA RoomStaysSeen ==
    ASSUME Typed, RoomIsSeen, [Next]_vars
    PROVE  RoomIsSeen'
<1>t. /\ view \in [Users -> SUBSET Messages] /\ gap \in [Users -> SUBSET Messages]
      /\ room \subseteq Users /\ loaded \subseteq room
      /\ send \in [Messages -> {"new", "admitted", "queued", "shown", "rejected"}]
  BY DEF Typed, SendTyped, ClientsTyped
<1>1. ASSUME UNCHANGED <<room, view, gap>>,
             \A m \in Messages : send'[m] = "shown" => send[m] = "shown"
      PROVE  RoomIsSeen'
  BY <1>1 DEF RoomIsSeen
<1>2. ASSUME NEW m \in Messages, Broadcast(m) PROVE RoomIsSeen'
  <2>1. /\ \A n \in Messages : send'[n] = IF n = m THEN "shown" ELSE send[n]
        /\ \A u \in Users : view'[u] = IF u \in room THEN view[u] \cup {m} ELSE view[u]
        /\ UNCHANGED <<room, gap>>
    BY <1>t, <1>2 DEF Broadcast, Show, Receivers
  <2> QED BY <1>t, <2>1 DEF RoomIsSeen
<1>3. ASSUME NEW m \in Messages,
             CheckLimit(m) \/ LimiterFails(m) \/ Refuse(m) \/ SendMessage(m) \/ SendFails(m)
      PROVE  RoomIsSeen'
  <2>1. UNCHANGED <<room, view, gap>>
    BY <1>3 DEF CheckLimit, LimiterFails, Refuse, SendMessage, SendFails, clients
  <2>2. \E step \in {"rejected", "admitted", "queued"} : send' = [send EXCEPT ![m] = step]
    BY <1>3 DEF CheckLimit, LimiterFails, Refuse, SendMessage, SendFails
  <2>3. \A n \in Messages : send'[n] = "shown" => send[n] = "shown"
    BY <1>t, <2>2
  <2> QED BY <1>1, <2>1, <2>3
<1>4. ASSUME NEW u \in Users, Subscribe(u) PROVE RoomIsSeen'
  <2>1. /\ room' = room \cup {u} /\ send' = send /\ view' = view
        /\ \A v \in Users : gap'[v] = IF v = u THEN {m \in Messages : send[m] = "shown"} ELSE gap[v]
    BY <1>t, <1>4 DEF Subscribe
  <2> QED BY <1>t, <2>1 DEF RoomIsSeen
<1>5. ASSUME NEW u \in Users, LoadHistory(u) PROVE RoomIsSeen'
  <2>1. /\ UNCHANGED <<room, send>>
        /\ \A v \in Users : view'[v] = IF v = u THEN view[v] \cup ToSet(saved) ELSE view[v]
        /\ \A v \in Users : gap'[v] = IF v = u THEN gap[v] \ ToSet(saved) ELSE gap[v]
    BY <1>t, <1>5 DEF LoadHistory
  <2> QED BY <1>t, <2>1 DEF RoomIsSeen
<1>6. ASSUME NEW u \in Users, Disconnect(u) PROVE RoomIsSeen'
  <2>1. /\ room' = room \ {u} /\ send' = send
        /\ \A v \in Users \ {u} : view'[v] = view[v] /\ gap'[v] = gap[v]
    BY <1>t, <1>6 DEF Disconnect
  <2> QED BY <1>t, <2>1 DEF RoomIsSeen
<1>7. CASE Crash
  <2>1. room' = {}
    BY <1>7 DEF Crash
  <2> QED BY <2>1 DEF RoomIsSeen
<1>8. CASE \/ Working \/ ProcessFails \/ UNCHANGED vars
           \/ \E u \in Users : \/ WindowEnds(u) \/ FindMessage(u) \/ AddMarkJob(u)
                               \/ ReadReceipt(u) \/ MarkFails(u)
           \/ \E u \in Users, m \in Named : MarkAsRead(u, m)
  <2>1. UNCHANGED <<room, view, gap, send>>
    BY <1>8 DEF Working, Take, SaveMessage, MarkRead, JobEnds, ProcessFails, vars, clients,
                WindowEnds, FindMessage, AddMarkJob, ReadReceipt, MarkFails, MarkAsRead
  <2> QED BY <1>1, <2>1
<1> QED BY <1>2, <1>3, <1>4, <1>5, <1>6, <1>7, <1>8 DEF Next, Sending

(***************************************************************************)
(* A member who has loaded the history after joining misses nothing that   *)
(* the room has seen, except what was shown before and not yet in the      *)
(* table.                                                                  *)
(***************************************************************************)
THEOREM NothingIsMissedInTheRoom == Spec => []NothingIsMissed
<1>1. Init => RoomIsSeen
  BY DEF Init, RoomIsSeen
<1>2. Typed /\ RoomIsSeen => NothingIsMissed
  BY DEF Typed, ClientsTyped, RoomIsSeen, NothingIsMissed
<1>3. Typed /\ RoomIsSeen /\ [Next]_vars => Typed' /\ RoomIsSeen'
  BY ChatStaysTyped, RoomStaysSeen
<1> QED BY <1>1, <1>2, <1>3, ChatStartsTyped, PTL DEF Spec

-----------------------------------------------------------------------------
(* What becomes of a job. *)

LEMMA KeptMeansInWork ==
    ASSUME NEW m
    PROVE  Kept(m) <=> m \in ToSet(saved) \/ InWork(SaveJob(m))
BY DEF Kept, InWork

\* The queue gets a job.
LEMMA JobAdded ==
    ASSUME Typed, NEW j \in Jobs, queue' = Append(queue, j), worker' = worker
    PROVE  \A i \in Jobs : InWork(i)' <=> InWork(i) \/ i = j
BY ElementsAppended DEF Typed, QueueTyped, InWork

\* The worker takes the first one.
LEMMA JobTaken ==
    ASSUME Typed, Take
    PROVE  \A i \in Jobs : InWork(i)' <=> InWork(i)
<1>1. /\ queue \in Seq(Jobs) /\ queue # <<>> /\ queue' = Tail(queue)
      /\ worker.step = "idle" /\ worker \in WorkerRows
      /\ worker' = [worker EXCEPT !.step = "run", !.job = Head(queue)]
  BY DEF Typed, QueueTyped, Take
<1>2. worker'.step = "run" /\ worker'.job = Head(queue)
  BY <1>1 DEF WorkerRows
<1>3. ToSet(queue) = ToSet(queue') \cup {Head(queue)}
  BY <1>1, ElementsTaken
<1> QED BY <1>1, <1>2, <1>3 DEF InWork

\* It has done it, or has given up.
LEMMA JobLeft ==
    ASSUME Typed, worker.step = "run", queue' = queue,
           NEW step \in {"complete", "fail"}, worker' = [worker EXCEPT !.step = step]
    PROVE  /\ \A i \in Jobs : InWork(i)' => InWork(i)
           /\ \A i \in Jobs : InWork(i) => InWork(i)' \/ i = worker.job
<1>1. worker \in WorkerRows
  BY DEF Typed, QueueTyped
<1>2. worker'.step = step
  BY <1>1 DEF WorkerRows
<1> QED BY <1>2 DEF InWork

\* The job of a dead process runs again, once.
LEMMA JobStalled ==
    ASSUME Typed, Crash
    PROVE  /\ \A i \in Jobs : InWork(i) => InWork(i)' \/ i = worker.job
           /\ worker.step = "idle" => \A i \in Jobs : InWork(i) <=> InWork(i)'
           /\ worker.step = "run" /\ ~ worker.stalled => \A i \in Jobs : InWork(i) => InWork(i)'
<1>1. worker \in WorkerRows /\ queue' = queue
  BY DEF Typed, QueueTyped, Crash
<1>2. CASE worker.step = "idle"
  BY <1>1, <1>2 DEF Crash, InWork
<1>3. CASE worker.step # "idle"
  <2>1. worker' = [worker EXCEPT !.step = IF worker.stalled THEN "fail" ELSE "run",
                                 !.stalled = TRUE]
    BY <1>3 DEF Crash
  <2>2. worker'.job = worker.job /\ worker'.step = IF worker.stalled THEN "fail" ELSE "run"
    BY <1>1, <2>1 DEF WorkerRows
  <2> QED BY <1>1, <1>3, <2>2 DEF InWork
<1> QED BY <1>2, <1>3

-----------------------------------------------------------------------------
(* Messages that the room has seen and the table does not get. *)

\* A step that loses no message, or one and counts it.
LEMMA LossCounted ==
    ASSUME LossesAreFaults, faults \in Nat, faults' \in Nat, faults <= faults',
           NEW x, Lost' \subseteq Lost \cup {x},
           faults' = faults + 1 \/ Lost' \subseteq Lost
    PROVE  LossesAreFaults'
<1>1. IsFiniteSet(Lost) /\ Cardinality(Lost) \in Nat /\ Cardinality(Lost) <= faults
  BY FS_CardinalityType DEF LossesAreFaults
<1>2. CASE Lost' \subseteq Lost
  <2>1. IsFiniteSet(Lost') /\ Cardinality(Lost') <= Cardinality(Lost)
    BY <1>1, <1>2, FS_Subset
  <2>2. Cardinality(Lost') \in Nat
    BY <2>1, FS_CardinalityType
  <2> QED BY <1>1, <2>1, <2>2 DEF LossesAreFaults
<1>3. CASE faults' = faults + 1
  <2>1. IsFiniteSet(Lost \cup {x}) /\ Cardinality(Lost \cup {x}) <= Cardinality(Lost) + 1
    BY <1>1, FS_AddElement
  <2>2. IsFiniteSet(Lost') /\ Cardinality(Lost') <= Cardinality(Lost \cup {x})
    BY <2>1, FS_Subset
  <2>3. Cardinality(Lost') \in Nat /\ Cardinality(Lost \cup {x}) \in Nat
    BY <2>1, <2>2, FS_CardinalityType
  <2> QED BY <1>1, <1>3, <2>1, <2>2, <2>3 DEF LossesAreFaults
<1> QED BY <1>2, <1>3

LEMMA LossesStayFaults ==
    ASSUME Typed, LossesAreFaults, [Next]_vars
    PROVE  LossesAreFaults'
<1>f. faults \in Nat /\ faults' \in Nat /\ faults <= faults'
  BY FaultsAreCounted
<1>s. ToSet(saved) \subseteq ToSet(saved)'
  BY SavedGrows
<1>t. send \in [Messages -> {"new", "admitted", "queued", "shown", "rejected"}]
  BY DEF Typed, SendTyped
<1>j. \A m \in Messages : SaveJob(m) \in Jobs
  BY DEF Jobs
<1>1. ASSUME \A m \in Messages : send'[m] \in {"queued", "shown"} =>
                 send[m] \in {"queued", "shown"} /\ (InWork(SaveJob(m)) => InWork(SaveJob(m))')
      PROVE  LossesAreFaults'
  <2>1. Lost' \subseteq Lost
    BY <1>1, <1>s, KeptMeansInWork DEF Lost, Kept, InWork
  <2> QED BY <1>f, <2>1, LossCounted
<1>2. ASSUME NEW m \in Messages, SendMessage(m) PROVE LossesAreFaults'
  <2>1. /\ \A n \in Messages : send'[n] = IF n = m THEN "queued" ELSE send[n]
        /\ queue' = Append(queue, SaveJob(m)) /\ worker' = worker
    BY <1>2, <1>t DEF SendMessage
  <2>2. \A n \in Messages : InWork(SaveJob(n))' <=> InWork(SaveJob(n)) \/ SaveJob(n) = SaveJob(m)
    BY <1>j, <2>1, JobAdded
  <2>3. Lost' \subseteq Lost
    <3> SUFFICES ASSUME NEW n \in Messages, send'[n] \in {"queued", "shown"}, ~ Kept(n)'
                 PROVE  n \in Lost
      BY DEF Lost
    <3>1. n # m
      BY <2>2 DEF Kept, InWork
    <3>2. ~ Kept(n)
      BY <1>s, <2>2 DEF Kept, InWork
    <3> QED BY <2>1, <3>1, <3>2 DEF Lost
  <2> QED BY <1>f, <2>3, LossCounted
<1>3. ASSUME NEW m \in Messages,
             CheckLimit(m) \/ LimiterFails(m) \/ Refuse(m) \/ Broadcast(m) \/ SendFails(m)
      PROVE  LossesAreFaults'
  <2>1. UNCHANGED <<queue, worker>>
    BY <1>3 DEF CheckLimit, LimiterFails, Refuse, Broadcast, Show, SendFails
  <2>2. \A n \in Messages : send'[n] \in {"queued", "shown"} => send[n] \in {"queued", "shown"}
    BY <1>3, <1>t DEF CheckLimit, LimiterFails, Refuse, Broadcast, Show, SendFails
  <2> QED BY <1>1, <2>1, <2>2 DEF InWork
<1>4. ASSUME NEW u \in Users, AddMarkJob(u) PROVE LossesAreFaults'
  <2>1. mark[u].last \in Named
    BY <1>4 DEF AddMarkJob, Typed, MarkTyped
  <2>2. MarkJob(mark[u].last, u) \in Jobs
    BY <2>1 DEF Jobs
  <2>3. send' = send /\ queue' = Append(queue, MarkJob(mark[u].last, u)) /\ worker' = worker
    BY <1>4 DEF AddMarkJob
  <2> QED BY <1>1, <1>j, <2>2, <2>3, JobAdded
<1>5. CASE Take
  BY <1>1, <1>5, <1>j, JobTaken DEF Take
<1>6. CASE SaveMessage
  <2> DEFINE m == worker.job.message
  <2>1. m \in Messages /\ worker.job = SaveJob(m)
    BY <1>6, JobsAreTyped DEF SaveMessage, Typed, QueueTyped
  <2>2. m \in ToSet(saved)'
    BY <1>6, <2>1, RowsAreDistinct DEF SaveMessage, Typed
  <2>3. send' = send /\ queue' = queue /\ worker.step = "run"
        /\ \E step \in {"complete", "fail"} : worker' = [worker EXCEPT !.step = step]
    BY <1>6 DEF SaveMessage
  <2>4. \A i \in Jobs : InWork(i) => InWork(i)' \/ i = worker.job
    BY <2>3, JobLeft
  <2> HIDE DEF m
  <2>5. Lost' \subseteq Lost
    <3> SUFFICES ASSUME NEW n \in Messages, send[n] \in {"queued", "shown"}, ~ Kept(n)'
                 PROVE  n \in Lost
      BY <2>3 DEF Lost
    <3>1. n # m
      BY <2>2 DEF Kept
    <3>2. SaveJob(n) # worker.job
      BY <2>1, <3>1, JobsDiffer
    <3>3. ~ Kept(n)
      BY <1>j, <1>s, <2>4, <3>2 DEF Kept, InWork
    <3> QED BY <3>3 DEF Lost
  <2> QED BY <1>f, <2>5, LossCounted
<1>7. CASE MarkRead
  <2>1. worker.job.name = "mark-read" /\ send' = send /\ queue' = queue /\ worker.step = "run"
        /\ worker' = [worker EXCEPT !.step = "complete"]
    BY <1>7 DEF MarkRead
  <2>2. \A m \in Messages : SaveJob(m) # worker.job
    BY <2>1, JobsDiffer
  <2> QED BY <1>1, <1>j, <2>1, <2>2, JobLeft
<1>8. CASE ProcessFails \/ Crash
  <2>1. \A i \in Jobs : InWork(i) => InWork(i)' \/ i = worker.job
    <3>1. CASE ProcessFails
      BY <3>1, JobLeft DEF ProcessFails
    <3>2. CASE Crash
      BY <3>2, JobStalled
    <3> QED BY <1>8, <3>1, <3>2
  <2>2. \A m \in Messages : send'[m] \in {"queued", "shown"} => send[m] \in {"queued", "shown"}
    BY <1>8, <1>t DEF ProcessFails, Crash
  <2>3. Lost' \subseteq Lost \cup {worker.job.message}
    <3> SUFFICES ASSUME NEW n \in Messages, send'[n] \in {"queued", "shown"}, ~ Kept(n)'
                 PROVE  n \in Lost \cup {worker.job.message}
      BY DEF Lost
    <3>1. CASE SaveJob(n) = worker.job
      BY <3>1, JobsDiffer
    <3>2. CASE SaveJob(n) # worker.job
      <4>1. ~ Kept(n)
        BY <1>j, <1>s, <2>1, <3>2 DEF Kept, InWork
      <4> QED BY <2>2, <4>1 DEF Lost
    <3> QED BY <3>1, <3>2
  <2>4. faults' = faults + 1
    BY <1>8, FaultsAreCounted
  <2> QED BY <1>f, <2>3, <2>4, LossCounted
<1>9. CASE JobEnds
  <2>1. UNCHANGED <<send, queue>> /\ worker.step # "run"
    BY <1>9 DEF JobEnds
  <2> QED BY <1>1, <2>1 DEF InWork
<1>10. CASE \/ UNCHANGED vars
            \/ \E u \in Users :
                \/ WindowEnds(u) \/ Subscribe(u) \/ LoadHistory(u) \/ Disconnect(u)
                \/ FindMessage(u) \/ ReadReceipt(u) \/ MarkFails(u)
            \/ \E u \in Users, m \in Named : MarkAsRead(u, m)
  <2>1. UNCHANGED <<send, queue, worker>>
    BY <1>10 DEF vars, WindowEnds, Subscribe, LoadHistory, Disconnect, FindMessage, ReadReceipt,
                 MarkFails, MarkAsRead
  <2> QED BY <1>1, <2>1 DEF InWork
<1> QED BY <1>2, <1>3, <1>4, <1>5, <1>6, <1>7, <1>8, <1>9, <1>10 DEF Next, Sending, Working

(***************************************************************************)
(* The queue gets the job before the room gets the message, so each        *)
(* message that the room has seen and the table never gets needs a failure *)
(* of its own, over crashes and stalled jobs.                              *)
(***************************************************************************)
THEOREM LossesNeedFaults == Spec => []LossNeedsFault
<1>1. Init => LossesAreFaults
  <2>1. Init => Lost = {}
    BY DEF Init, Lost
  <2>2. Init => faults = 0
    BY DEF Init
  <2> QED BY <2>1, <2>2, FS_EmptySet DEF LossesAreFaults
<1>2. Typed /\ LossesAreFaults => LossNeedsFault
  <2> SUFFICES ASSUME Typed, LossesAreFaults PROVE LossNeedsFault
    OBVIOUS
  <2> DEFINE Unkept == {m \in Messages : send[m] = "shown" /\ ~ Kept(m)}
  <2>1. Unkept \subseteq Lost
    BY DEF Lost
  <2>2. IsFiniteSet(Lost) /\ Cardinality(Lost) <= faults /\ faults \in Nat
    BY ChatAssumption DEF LossesAreFaults, Typed, FaultsTyped
  <2>3. IsFiniteSet(Unkept) /\ Cardinality(Unkept) <= Cardinality(Lost)
    BY <2>1, <2>2, FS_Subset
  <2>4. Cardinality(Unkept) \in Nat /\ Cardinality(Lost) \in Nat
    BY <2>2, <2>3, FS_CardinalityType
  <2>5. Cardinality(Unkept) <= faults
    BY <2>2, <2>3, <2>4
  <2> QED BY <2>5 DEF LossNeedsFault
<1>3. Typed /\ LossesAreFaults /\ [Next]_vars => Typed' /\ LossesAreFaults'
  BY ChatStaysTyped, LossesStayFaults
<1> QED BY <1>1, <1>2, <1>3, ChatStartsTyped, PTL DEF Spec

-----------------------------------------------------------------------------
(* What the readers said, and what the rows say. *)

\* Only AddMarkJob brings a mark job into the system.
LEMMA MarkJobsCome ==
    ASSUME Typed, [Next]_vars, NEW last \in Named, NEW u \in Users,
           NEW j \in Jobs, j = MarkJob(last, u), Held(j)'
    PROVE  Held(j) \/ (AddMarkJob(u) /\ mark[u].last = last)
<1>t. /\ queue \in Seq(Jobs) /\ worker \in WorkerRows
      /\ worker.step # "idle" => worker.job \in Jobs
  BY DEF Typed, QueueTyped
<1>h. j \in ToSet(queue') \/ (worker'.step # "idle" /\ worker'.job = j)
  BY DEF Held
<1>p. \A m : SaveJob(m) # j
  BY JobsDiffer
<1>q. ASSUME NEW n, NEW v, j = MarkJob(n, v) PROVE n = last /\ v = u
  <2>1. MarkJob(last, u) = MarkJob(n, v)
    BY <1>q
  <2> QED BY <2>1, JobsDiffer
<1>1. ASSUME NEW m \in Messages, SendMessage(m) PROVE Held(j)
  <2>1. worker' = worker /\ (queue' = queue \/ queue' = Append(queue, SaveJob(m)))
    BY <1>1 DEF SendMessage
  <2>2. SaveJob(m) \in Jobs
    BY DEF Jobs
  <2>3. ToSet(queue') \subseteq ToSet(queue) \cup {SaveJob(m)}
    BY <1>t, <2>1, <2>2, ElementsAppended
  <2> QED BY <1>h, <1>p, <2>1, <2>3 DEF Held
<1>2. ASSUME NEW v \in Users, AddMarkJob(v)
      PROVE  Held(j) \/ (AddMarkJob(u) /\ mark[u].last = last)
  <2>1. mark[v].last \in Named
    BY <1>2 DEF AddMarkJob, Typed, MarkTyped
  <2>2. MarkJob(mark[v].last, v) \in Jobs
    BY <2>1 DEF Jobs
  <2>3. ToSet(queue') = ToSet(queue) \cup {MarkJob(mark[v].last, v)} /\ worker' = worker
    BY <1>2, <1>t, <2>2, ElementsAppended DEF AddMarkJob
  <2>4. Held(j) \/ (v = u /\ mark[v].last = last)
    BY <1>h, <1>q, <2>3 DEF Held
  <2> QED BY <1>2, <2>4
<1>3. CASE Take
  <2>1. queue # <<>> /\ queue' = Tail(queue)
        /\ worker' = [worker EXCEPT !.step = "run", !.job = Head(queue)]
    BY <1>3 DEF Take
  <2>2. worker'.job = Head(queue)
    BY <1>t, <2>1 DEF WorkerRows
  <2>3. ToSet(queue) = ToSet(queue') \cup {Head(queue)}
    BY <1>t, <2>1, ElementsTaken
  <2> QED BY <1>h, <2>2, <2>3 DEF Held
<1>4. CASE SaveMessage \/ MarkRead \/ ProcessFails
  <2>1. /\ worker.step # "idle" /\ queue' = queue
        /\ \E step \in {"complete", "fail"} : worker' = [worker EXCEPT !.step = step]
    BY <1>4 DEF SaveMessage, MarkRead, ProcessFails
  <2>2. worker'.job = worker.job
    BY <1>t, <2>1 DEF WorkerRows
  <2> QED BY <1>h, <2>1, <2>2 DEF Held
<1>5. CASE JobEnds
  <2>1. queue' = queue /\ worker'.step = "idle"
    BY <1>5 DEF JobEnds, IdleWorker
  <2> QED BY <1>h, <2>1 DEF Held
<1>6. CASE Crash
  <2>1. queue' = queue
    BY <1>6 DEF Crash
  <2>2. CASE worker.step = "idle"
    BY <1>6, <1>h, <2>1, <2>2 DEF Crash, Held
  <2>3. CASE worker.step # "idle"
    <3>1. worker' = [worker EXCEPT !.step = IF worker.stalled THEN "fail" ELSE "run",
                                   !.stalled = TRUE]
      BY <1>6, <2>3 DEF Crash
    <3>2. worker'.job = worker.job
      BY <1>t, <3>1 DEF WorkerRows
    <3> QED BY <1>h, <2>1, <2>3, <3>2 DEF Held
  <2> QED BY <2>2, <2>3
<1>7. CASE \/ UNCHANGED vars
           \/ \E m \in Messages : \/ CheckLimit(m) \/ LimiterFails(m) \/ Refuse(m) \/ Broadcast(m)
                                  \/ SendFails(m)
           \/ \E v \in Users : \/ FindMessage(v) \/ ReadReceipt(v) \/ WindowEnds(v)
                               \/ MarkFails(v) \/ Subscribe(v) \/ LoadHistory(v)
                               \/ Disconnect(v)
           \/ \E v \in Users, m \in Named : MarkAsRead(v, m)
  <2>1. UNCHANGED <<queue, worker>>
    BY <1>7 DEF vars, CheckLimit, LimiterFails, Refuse, Broadcast, Show, SendFails, FindMessage,
                ReadReceipt, WindowEnds, MarkFails, Subscribe, LoadHistory, Disconnect, MarkAsRead
  <2> QED BY <1>h, <2>1 DEF Held
<1> QED BY <1>1, <1>2, <1>3, <1>4, <1>5, <1>6, <1>7 DEF Next, Sending, Working

\* What is asked, announced or found early stays so; how marks move on.
MarksMoved ==
    /\ asked \subseteq asked' /\ early \subseteq early'
    /\ \A u \in Users :
        mark'[u].step = "add" =>
            /\ mark'[u].last = mark[u].last
            /\ mark[u].step = "add" \/ (u \in Members /\ InTable(mark[u].last))
    /\ \A u \in Members, last \in Messages :
        Promised(last, u)' =>
            \/ Promised(last, u)
            \/ <<last, u>> \in early'
            \/ AddMarkJob(u) /\ mark[u].last = last

LEMMA MarksMove ==
    ASSUME Typed, [Next]_vars
    PROVE  MarksMoved
<1>t. mark \in [Users -> MarkRows] /\ Members \subseteq Users
  BY ChatAssumption DEF Typed, MarkTyped
<1>1. ASSUME NEW u \in Users, NEW last \in Named, MarkAsRead(u, last) PROVE MarksMoved
  <2> DEFINE row == [step |-> "find", last |-> last]
  <2>1. row.step = "find"
    OBVIOUS
  <2>2. mark' = [mark EXCEPT ![u] = row] /\ asked \subseteq asked' /\ UNCHANGED <<early, receipts>>
    BY <1>1 DEF MarkAsRead
  <2> HIDE DEF row
  <2>3. \A v \in Users : mark'[v] = IF v = u THEN row ELSE mark[v]
    BY <1>t, <2>2
  <2> QED BY <2>1, <2>2, <2>3 DEF Promised, MarksMoved
<1>2. ASSUME NEW u \in Users, FindMessage(u) PROVE MarksMoved
  <2>1. PICK step \in {"add", "announce"} : mark' = [mark EXCEPT ![u].step = step]
                        /\ step = IF u \in Members /\ InTable(mark[u].last)
                                  THEN "add" ELSE "announce"
    BY <1>2 DEF FindMessage
  <2>2. mark'[u].step = step /\ mark'[u].last = mark[u].last
        /\ \A v \in Users \ {u} : mark'[v] = mark[v]
    BY <1>t, <2>1 DEF MarkRows
  <2>3. /\ UNCHANGED <<asked, receipts>>
        /\ early \subseteq early'
        /\ step = "announce" => u \notin Members \/ <<mark[u].last, u>> \in early'
    BY <1>2, <2>1 DEF FindMessage
  <2>4. step = "add" => u \in Members /\ InTable(mark[u].last)
    BY <2>1
  <2>5. ASSUME NEW v \in Users, mark'[v].step = "add"
        PROVE  mark'[v].last = mark[v].last
               /\ (mark[v].step = "add" \/ (v \in Members /\ InTable(mark[v].last)))
    BY <2>2, <2>4, <2>5
  <2>6. ASSUME NEW v \in Members, NEW last \in Messages, Promised(last, v)'
        PROVE  Promised(last, v) \/ <<last, v>> \in early'
    <3>1. CASE v # u
      BY <1>t, <2>2, <2>3, <2>6, <3>1 DEF Promised
    <3>2. CASE v = u /\ <<last, u>> \in receipts
      BY <3>2 DEF Promised
    <3>3. CASE v = u /\ <<last, u>> \notin receipts
      <4>1. mark'[u].step = "announce" /\ mark'[u].last = last
        BY <2>3, <2>6, <3>3 DEF Promised
      <4> QED BY <2>2, <2>3, <3>3, <4>1
    <3> QED BY <3>1, <3>2, <3>3
  <2> QED BY <2>3, <2>5, <2>6 DEF MarksMoved
<1>3. ASSUME NEW u \in Users, AddMarkJob(u) PROVE MarksMoved
  <2>1. mark' = [mark EXCEPT ![u].step = "announce"] /\ UNCHANGED <<asked, early, receipts>>
    BY <1>3 DEF AddMarkJob, reading
  <2>2. mark'[u].step = "announce" /\ mark'[u].last = mark[u].last
        /\ \A v \in Users \ {u} : mark'[v] = mark[v]
    BY <1>t, <2>1 DEF MarkRows
  <2> QED BY <1>3, <2>1, <2>2 DEF Promised, MarksMoved
<1>4. ASSUME NEW u \in Users, ReadReceipt(u) PROVE MarksMoved
  <2>1. /\ mark[u].step = "announce" /\ mark' = [mark EXCEPT ![u] = IdleMark]
        /\ receipts' = receipts \cup {<<mark[u].last, u>>} /\ UNCHANGED <<asked, early>>
    BY <1>4 DEF ReadReceipt
  <2>2. mark'[u].step = "idle" /\ \A v \in Users \ {u} : mark'[v] = mark[v]
    BY <1>t, <2>1 DEF IdleMark
  <2> QED BY <2>1, <2>2 DEF Promised, MarksMoved
<1>5. ASSUME NEW u \in Users, MarkFails(u) PROVE MarksMoved
  <2>1. mark' = [mark EXCEPT ![u] = IdleMark] /\ UNCHANGED <<asked, early, receipts>>
    BY <1>5 DEF MarkFails, reading
  <2>2. mark'[u].step = "idle" /\ \A v \in Users \ {u} : mark'[v] = mark[v]
    BY <1>t, <2>1 DEF IdleMark
  <2> QED BY <2>1, <2>2 DEF Promised, MarksMoved
<1>6. CASE Crash
  <2>1. UNCHANGED <<asked, early, receipts>> /\ \A u \in Users : mark'[u].step = "idle"
    BY <1>6 DEF Crash, reading, IdleMark
  <2> QED BY <1>t, <2>1 DEF Promised, MarksMoved
<1>7. CASE \/ Working \/ ProcessFails \/ UNCHANGED vars
           \/ \E m \in Messages : CheckLimit(m) \/ LimiterFails(m) \/ Sending(m) \/ SendFails(m)
           \/ \E u \in Users : \/ WindowEnds(u) \/ Subscribe(u) \/ LoadHistory(u)
                               \/ Disconnect(u)
  <2>1. UNCHANGED marking
    BY <1>7 DEF vars, Working, Take, SaveMessage, MarkRead, JobEnds, ProcessFails, CheckLimit,
                LimiterFails, Sending, Refuse, SendMessage, Broadcast, Show, SendFails, WindowEnds,
                Subscribe, LoadHistory, Disconnect
  <2> QED BY <2>1 DEF marking, reading, Promised, MarksMoved
<1> QED BY <1>1, <1>2, <1>3, <1>4, <1>5, <1>6, <1>7 DEF Next

LEMMA MarksStayAsked ==
    ASSUME Typed, MarksAreAsked, [Next]_vars
    PROVE  MarksAreAsked'
<1>1. asked \subseteq asked' /\ \A m : InTable(m) => InTable(m)'
  BY SavedGrows, MarksMove DEF MarksMoved, InTable
<1>2. ASSUME NEW last \in Named, NEW u \in Users, Held(MarkJob(last, u))'
      PROVE  <<last, u>> \in asked' /\ u \in Members /\ InTable(last)'
  <2>1. CASE Held(MarkJob(last, u))
    BY <1>1, <2>1 DEF MarksAreAsked
  <2>2. CASE AddMarkJob(u) /\ mark[u].last = last
    <3>1. <<last, u>> \in asked
      BY <2>2 DEF AddMarkJob, Typed, MarkTyped
    <3>2. u \in Members /\ InTable(last)
      BY <2>2 DEF AddMarkJob, MarksAreAsked
    <3> QED BY <1>1, <3>1, <3>2
  <2>3. MarkJob(last, u) \in Jobs
    BY DEF Jobs
  <2> QED BY <1>2, <2>1, <2>2, <2>3, MarkJobsCome
<1>3. ASSUME NEW u \in Users, mark'[u].step = "add"
      PROVE  u \in Members /\ InTable(mark[u].last)'
  <2>1. mark'[u].last = mark[u].last /\ u \in Members /\ InTable(mark[u].last)
    BY <1>3, MarksMove DEF MarksAreAsked, MarksMoved
  <2> QED BY <1>1, <2>1 DEF InTable
<1> QED BY <1>2, <1>3 DEF MarksAreAsked

\* The statement of the worker for a mark job.
LEMMA WorkerMarks ==
    ASSUME Typed, MarksAreAsked, MarkRead
    PROVE  \E last \in Named, u \in Members :
                /\ worker.job = MarkJob(last, u) /\ <<last, u>> \in asked /\ InTable(last)
                /\ read' = read \cup {m \in ToSet(saved) : Rank[m] <= Rank[last] /\ SenderOf[m] # u}
<1>1. worker.step = "run" /\ worker.job \in Jobs /\ worker.job.name = "mark-read"
      /\ read' = read \cup MarkedBy(worker.job)
  BY DEF MarkRead, Typed, QueueTyped
<1>2. PICK last \in Named, u \in Users : worker.job = MarkJob(last, u)
  BY <1>1, JobsAreTyped
<1>3. worker.job.message = last /\ worker.job.reader = u
  BY <1>2, JobsDiffer
<1>4. <<last, u>> \in asked /\ u \in Members /\ InTable(last)
  BY <1>1, <1>2 DEF MarksAreAsked, Held
<1> QED BY <1>1, <1>2, <1>3, <1>4 DEF MarkedBy

LEMMA OnlyMarkReadMarks ==
    ASSUME Typed, [Next]_vars, ~ MarkRead
    PROVE  read' = read
BY DEF Next, vars, table, Working, Take, SaveMessage, JobEnds, ProcessFails, Crash, CheckLimit,
       LimiterFails, Sending, Refuse, SendMessage, Broadcast, Show, SendFails, WindowEnds, Subscribe,
       LoadHistory, Disconnect, FindMessage, AddMarkJob, ReadReceipt, MarkFails, MarkAsRead

LEMMA ReadersStay ==
    ASSUME Typed, MarksAreAsked, ReadNeedsReader, [Next]_vars
    PROVE  ReadNeedsReader'
<1>1. asked \subseteq asked'
  BY MarksMove DEF MarksMoved
<1>2. CASE ~ MarkRead
  BY <1>1, <1>2, OnlyMarkReadMarks DEF ReadNeedsReader
<1>3. CASE MarkRead
  BY <1>1, <1>3, WorkerMarks DEF ReadNeedsReader
<1> QED BY <1>2, <1>3

\* As long as nothing fails, a mark job leaves the system only by its effect.
LEMMA MarkJobsWork ==
    ASSUME Typed, MarksAreAsked, [Next]_vars, faults' = 0,
           NEW last \in Messages, NEW u \in Members, InWork(MarkJob(last, u)), SenderOf[last] # u
    PROVE  last \in read' \/ InWork(MarkJob(last, u))'
<1> DEFINE j == MarkJob(last, u)
<1>t. j \in Jobs /\ worker \in WorkerRows
  BY ChatAssumption DEF Jobs, Named, Typed, QueueTyped
<1>1. CASE MarkRead
  <2>1. CASE worker.job = j
    <3>1. PICK last1 \in Named, u1 \in Members :
                /\ worker.job = MarkJob(last1, u1) /\ InTable(last1)
                /\ read' = read \cup
                        {m \in ToSet(saved) : Rank[m] <= Rank[last1] /\ SenderOf[m] # u1}
      BY <1>1, WorkerMarks
    <3>2. last1 = last /\ u1 = u
      <4>1. MarkJob(last1, u1) = MarkJob(last, u)
        BY <2>1, <3>1
      <4> HIDE DEF j
      <4> QED BY <4>1, JobsDiffer
    <3>3. Rank[last] <= Rank[last]
      BY ChatAssumption
    <3>4. last \in ToSet(saved)
      BY <3>1, <3>2, ChatAssumption DEF InTable
    <3> QED BY <3>1, <3>2, <3>3, <3>4
  <2>2. CASE worker.job # j
    BY <1>1, <1>t, <2>2, JobLeft DEF MarkRead
  <2> QED BY <2>1, <2>2
<1>2. CASE SaveMessage
  <2>1. /\ worker.step = "run" /\ queue' = queue /\ worker.job.name = "save-message"
        /\ \E step \in {"complete", "fail"} : worker' = [worker EXCEPT !.step = step]
    BY <1>2 DEF SaveMessage
  <2>2. worker.job # j
    BY <2>1, JobsDiffer
  <2> QED BY <1>t, <2>1, <2>2, JobLeft
<1>3. CASE Take
  BY <1>3, <1>t, JobTaken
<1>4. CASE JobEnds
  <2>1. queue' = queue /\ worker.step # "run"
    BY <1>4 DEF JobEnds
  <2> QED BY <2>1 DEF InWork
<1>5. CASE \E m \in Messages : SendMessage(m)
  <2>1. worker' = worker /\ (queue' = queue \/ \E i \in Jobs : queue' = Append(queue, i))
    BY <1>5 DEF SendMessage, Jobs
  <2> QED BY <1>t, <2>1, JobAdded DEF InWork
<1>6. CASE \E v \in Users : AddMarkJob(v)
  <2>1. PICK v \in Users : AddMarkJob(v)
    BY <1>6
  <2>2. mark[v].last \in Named
    BY <2>1 DEF AddMarkJob, Typed, MarkTyped
  <2>3. MarkJob(mark[v].last, v) \in Jobs
    BY <2>2 DEF Jobs
  <2> QED BY <1>t, <2>1, <2>3, JobAdded DEF AddMarkJob
<1>7. CASE \/ UNCHANGED vars
           \/ \E m \in Messages : CheckLimit(m) \/ Refuse(m) \/ Broadcast(m)
           \/ \E v \in Users : \/ FindMessage(v) \/ ReadReceipt(v) \/ WindowEnds(v)
                               \/ Subscribe(v) \/ LoadHistory(v) \/ Disconnect(v)
           \/ \E v \in Users, m \in Named : MarkAsRead(v, m)
  <2>1. UNCHANGED <<queue, worker>>
    BY <1>7 DEF vars, CheckLimit, Refuse, Broadcast, Show, FindMessage, ReadReceipt, WindowEnds,
                Subscribe, LoadHistory, Disconnect, MarkAsRead
  <2> QED BY <2>1 DEF InWork
<1>8. ~ \/ \E m \in Messages : LimiterFails(m) \/ SendFails(m)
        \/ \E v \in Users : MarkFails(v)
        \/ ProcessFails
        \/ Crash
  BY FaultsAreCounted
<1> QED BY <1>1, <1>2, <1>3, <1>4, <1>5, <1>6, <1>7, <1>8 DEF Next, Sending, Working

LEMMA PromisesStay ==
    ASSUME Typed, MarksAreAsked, PromisesAreKept, [Next]_vars
    PROVE  PromisesAreKept'
<1> SUFFICES ASSUME faults' = 0, NEW last \in Messages, NEW u \in Members, Promised(last, u)',
                    <<last, u>> \notin early', SenderOf[last] # u
             PROVE  last \in read' \/ InWork(MarkJob(last, u))'
  BY DEF PromisesAreKept
<1>1. faults = 0
  BY FaultsAreCounted
<1>2. CASE Promised(last, u)
  <2>1. last \in read \/ InWork(MarkJob(last, u))
    BY <1>1, <1>2, MarksMove DEF PromisesAreKept, MarksMoved
  <2>2. last \in read => last \in read'
    BY OnlyMarkReadMarks DEF MarkRead
  <2> QED BY <2>1, <2>2, MarkJobsWork
<1>3. CASE AddMarkJob(u) /\ mark[u].last = last
  <2>1. MarkJob(last, u) \in Jobs
    BY ChatAssumption DEF Jobs, Named
  <2> QED BY <1>3, <2>1, JobAdded DEF AddMarkJob
<1> QED BY <1>2, <1>3, MarksMove DEF MarksMoved

(***************************************************************************)
(* No row is marked as read unless the other member asked for it, whoever  *)
(* else calls mark_as_read and whatever message is named; and a member's   *)
(* receipt that the room has seen is in the table or queued as long as     *)
(* nothing fails and the message was in the table when it was looked for.  *)
(***************************************************************************)
THEOREM RowsTellWhatReadersSaid == Spec => []RowsTellReads
<1> DEFINE Reads == Typed /\ MarksAreAsked /\ ReadNeedsReader /\ PromisesAreKept
<1>1. Init => Reads
  <2> SUFFICES ASSUME Init PROVE MarksAreAsked /\ ReadNeedsReader /\ PromisesAreKept
    BY ChatStartsTyped
  <2>1. /\ \A j : ~ Held(j)
        /\ \A u \in Users : mark[u].step = "idle"
        /\ Members \subseteq Users
        /\ read = {} /\ receipts = {}
    BY ChatAssumption, EmptyHasNoElements DEF Init, Held, IdleWorker, IdleMark
  <2> QED BY <2>1 DEF MarksAreAsked, ReadNeedsReader, PromisesAreKept, Promised
<1>2. Reads /\ [Next]_vars => Reads'
  BY ChatStaysTyped, MarksStayAsked, ReadersStay, PromisesStay
<1>3. Reads => RowsTellReads
  BY DEF RowsTellReads, ReceiptsAreKept, PromisesAreKept, Promised, InWork, JobOf
<1> QED BY <1>1, <1>2, <1>3, PTL DEF Spec
=============================================================================
