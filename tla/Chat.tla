-------------------------------- MODULE Chat --------------------------------
(***************************************************************************)
(* One session of ChatGateway and ChatService between its two members:     *)
(* their connections and what they see, the limiter of their messages, and *)
(* the worker of the chat-persistence queue.  A message is shown in the    *)
(* room before it is in the table; its identifier is random, and Rank is   *)
(* the order of the identifiers.  Any user may name any message as read.   *)
(***************************************************************************)
EXTENDS Integers, Sequences, FiniteSets, SequencesExt

CONSTANTS
    Messages,      \* messages of this session
    Elsewhere,     \* messages of other sessions, in the table from the start
    Users,         \* users with a connection to the gateway
    Members,       \* the customer and the host of this session
    SenderOf,      \* the member that writes each message
    Watchers,      \* members whose client is followed; the other only sends
    Rank,          \* position of a message in the order of the identifiers
    NoMessage,
    MaxRequests,   \* messages that a user may send in one window of the limiter
    MaxMarks,      \* bound on the calls of mark_as_read
    MaxFaults      \* bound on failures and crashes

ASSUME ChatAssumption ==
    /\ Members \subseteq Users
    /\ SenderOf \in [Messages -> Members]
    /\ Watchers \subseteq Members
    /\ Messages \cap Elsewhere = {}
    /\ Rank \in [Messages \cup Elsewhere -> Nat] /\ IsInjective(Rank)
    /\ NoMessage \notin Messages \cup Elsewhere
    /\ MaxRequests \in Nat \ {0} /\ MaxMarks \in Nat /\ MaxFaults \in Nat

VARIABLES
    send,      \* how far handleSendMessage is with a message
    count,     \* the key chat:rate_limit of a user
    queue,     \* jobs of chat-persistence, in order
    worker,    \* how far the worker is with which job
    saved,     \* messages in the table, in order of their createdAt
    read,      \* messages in the table with isRead = true
    mark,      \* how far handleMarkAsRead is for each user
    asked,     \* history: pairs of last message and user that were asked for
    early,     \* history: those of members whose message was not in the table then
    receipts,  \* history: those the room got a read_receipt for
    room,      \* members whose socket has joined the room
    view,      \* messages that each member's client shows
    loaded,    \* members that have loaded the history since they joined
    gap,       \* history: messages shown before a member joined and not loaded since
    faults

table == <<saved, read>>
reading == <<asked, early, receipts>>
marking == <<mark, reading>>
clients == <<room, view, loaded, gap>>
vars == <<send, count, queue, worker, table, marking, clients, faults>>

\* What a caller of mark_as_read can name.
Named == Messages \cup Elsewhere

SaveJob(m) == [name |-> "save-message", message |-> m, reader |-> SenderOf[m]]
MarkJob(m, u) == [name |-> "mark-read", message |-> m, reader |-> u]
Jobs == {SaveJob(m) : m \in Messages} \cup {MarkJob(m, u) : m \in Named, u \in Users}
IdleWorker == [step |-> "idle", job |-> <<>>, stalled |-> FALSE]
IdleMark == [step |-> "idle", last |-> NoMessage]

TypeOK ==
    /\ send \in [Messages -> {"new", "admitted", "queued", "shown", "rejected"}]
    /\ count \in [Users -> Nat]
    /\ queue \in Seq(Jobs)
    /\ worker.step \in {"idle", "run", "complete", "fail"}
    /\ worker.step # "idle" => worker.job \in Jobs
    /\ worker.stalled \in BOOLEAN
    /\ saved \in Seq(Messages) /\ IsInjective(saved)
    /\ read \subseteq ToSet(saved)
    /\ mark \in [Users -> [step : {"idle", "find", "add", "announce"},
                           last : Named \cup {NoMessage}]]
    /\ asked \subseteq Named \X Users
    /\ early \subseteq asked /\ receipts \subseteq asked
    /\ loaded \subseteq room /\ room \subseteq Users
    /\ view \in [Users -> SUBSET Messages] /\ gap \in [Users -> SUBSET Messages]
    /\ faults \in 0 .. MaxFaults

Init ==
    /\ send = [m \in Messages |-> "new"]
    /\ count = [u \in Users |-> 0]
    /\ queue = <<>> /\ worker = IdleWorker
    /\ saved = <<>> /\ read = {}
    /\ mark = [u \in Users |-> IdleMark] /\ asked = {} /\ early = {} /\ receipts = {}
    /\ room = {} /\ loaded = {}
    /\ view = [u \in Users |-> {}] /\ gap = [u \in Users |-> {}]
    /\ faults = 0

Fault == faults < MaxFaults /\ faults' = faults + 1

-----------------------------------------------------------------------------
(* handleSendMessage; the sender is a member of the session. *)

CheckLimit(m) ==
    LET u == SenderOf[m]
        n == count[u] + 1
    IN  /\ send[m] = "new"
        /\ count' = [count EXCEPT ![u] = n]
        /\ send' = [send EXCEPT ![m] = IF n > MaxRequests THEN "rejected" ELSE "admitted"]
        /\ UNCHANGED <<queue, worker, table, marking, clients, faults>>

\* Redis does not answer: the limiter lets the message pass.
LimiterFails(m) ==
    /\ send[m] = "new"
    /\ send' = [send EXCEPT ![m] = "admitted"]
    /\ Fault
    /\ UNCHANGED <<count, queue, worker, table, marking, clients>>

\* The key expires; its time runs from its first increment.
WindowEnds(u) ==
    /\ count[u] > 0
    /\ count' = [count EXCEPT ![u] = 0]
    /\ UNCHANGED <<send, queue, worker, table, marking, clients, faults>>

\* sendMessage, where the moderation finds a violation
Refuse(m) ==
    /\ send[m] = "admitted"
    /\ send' = [send EXCEPT ![m] = "rejected"]
    /\ UNCHANGED <<count, queue, worker, table, marking, clients, faults>>

\* Mutant: the message is announced and its job is left to the caller.
OnlyAnnounced(m) ==
    /\ send[m] = "admitted"
    /\ send' = [send EXCEPT ![m] = "queued"]
    /\ UNCHANGED <<count, queue, worker, table, marking, clients, faults>>

\* sendMessage, where it finds none
SendMessage(m) ==
    /\ send[m] = "admitted"
    /\ send' = [send EXCEPT ![m] = "queued"]
    /\ queue' = Append(queue, SaveJob(m))
    /\ UNCHANGED <<count, worker, table, marking, clients, faults>>

\* Mutant: the sender's socket emits, which leaves the sender out.
OthersInRoom(m) == room \ {SenderOf[m]}
Receivers(m) == room

Show(m) ==
    /\ send' = [send EXCEPT ![m] = "shown"]
    /\ view' = [u \in Users |-> IF u \in Receivers(m) THEN view[u] \cup {m} ELSE view[u]]
    /\ UNCHANGED <<count, queue, worker, table, marking, room, loaded, gap, faults>>

\* Mutant: the room gets only what is in the table.
BroadcastSaved(m) == send[m] = "queued" /\ m \in ToSet(saved) /\ Show(m)

\* The recipient is known, chat.message.sent is emitted and the room gets it.
Broadcast(m) == send[m] = "queued" /\ Show(m)

\* Redis or MySQL fails; the room does not get the message.
SendFails(m) ==
    /\ send[m] \in {"admitted", "queued"}
    /\ send' = [send EXCEPT ![m] = "rejected"]
    /\ Fault
    /\ UNCHANGED <<count, queue, worker, table, marking, clients>>

-----------------------------------------------------------------------------
(* The members' connections and what their clients show. *)

\* handleSubscribe of a member
Subscribe(u) ==
    /\ u \in Watchers \ room
    /\ room' = room \cup {u}
    /\ gap' = [gap EXCEPT ![u] = {m \in Messages : send[m] = "shown"}]
    /\ UNCHANGED <<send, count, queue, worker, table, marking, view, loaded, faults>>

\* getHistory, page by page until there is no more; again only after a new connection
LoadHistory(u) ==
    /\ u \in room \ loaded
    /\ loaded' = loaded \cup {u}
    /\ view' = [view EXCEPT ![u] = @ \cup ToSet(saved)]
    /\ gap' = [gap EXCEPT ![u] = @ \ ToSet(saved)]
    /\ UNCHANGED <<send, count, queue, worker, table, marking, room, faults>>

\* The connection is lost; the next one starts with an empty client.
Disconnect(u) ==
    /\ u \in room
    /\ room' = room \ {u} /\ loaded' = loaded \ {u}
    /\ view' = [view EXCEPT ![u] = {}] /\ gap' = [gap EXCEPT ![u] = {}]
    /\ UNCHANGED <<send, count, queue, worker, table, marking, faults>>

-----------------------------------------------------------------------------
(* handleMarkAsRead: any user may call it for the session, with any message. *)

\* Identifiers are random: nobody names one before it is drawn, and one that
\* is never drawn is like that of a refused message.
Drawn == Elsewhere \cup {m \in Messages : send[m] \notin {"new", "admitted"}}

MarkAsRead(u, last) ==
    /\ mark[u].step = "idle" /\ last \in Drawn
    /\ <<last, u>> \notin asked /\ Cardinality(asked) < MaxMarks
    /\ mark' = [mark EXCEPT ![u] = [step |-> "find", last |-> last]]
    /\ asked' = asked \cup {<<last, u>>}
    /\ UNCHANGED <<send, count, queue, worker, table, early, receipts, clients, faults>>

\* The table is asked for the identifier alone, whatever the session of its row.
InTable(m) == m \in Elsewhere \cup ToSet(saved)

\* markAsRead returns without a job for a stranger and for a message that is
\* not in the table; the room gets a receipt all the same.
FindMessage(u) ==
    LET last == mark[u].last
    IN  /\ mark[u].step = "find"
        /\ mark' = [mark EXCEPT ![u].step =
                IF u \in Members /\ InTable(last) THEN "add" ELSE "announce"]
        /\ early' = IF u \in Members /\ ~ InTable(last) THEN early \cup {<<last, u>>} ELSE early
        /\ UNCHANGED <<send, count, queue, worker, table, asked, receipts, clients, faults>>

AddMarkJob(u) ==
    /\ mark[u].step = "add"
    /\ queue' = Append(queue, MarkJob(mark[u].last, u))
    /\ mark' = [mark EXCEPT ![u].step = "announce"]
    /\ UNCHANGED <<send, count, worker, table, reading, clients, faults>>

ReadReceipt(u) ==
    /\ mark[u].step = "announce"
    /\ mark' = [mark EXCEPT ![u] = IdleMark]
    /\ receipts' = receipts \cup {<<mark[u].last, u>>}
    /\ UNCHANGED <<send, count, queue, worker, table, asked, early, clients, faults>>

MarkFails(u) ==
    /\ mark[u].step \in {"find", "add"}
    /\ mark' = [mark EXCEPT ![u] = IdleMark]
    /\ Fault
    /\ UNCHANGED <<send, count, queue, worker, table, reading, clients>>

-----------------------------------------------------------------------------
(* ChatProcessor: one job at a time, and one attempt for each. *)

Take ==
    /\ worker.step = "idle"
    /\ queue # <<>>
    /\ worker' = [worker EXCEPT !.step = "run", !.job = Head(queue)]
    /\ queue' = Tail(queue)
    /\ UNCHANGED <<send, count, table, marking, clients, faults>>

\* Mutant: the identifier is not the key of the table.
SavedAgain(rows, m) == Append(rows, m)
SavedOnce(rows, m) == IF m \in ToSet(rows) THEN rows ELSE Append(rows, m)

\* A message that a crashed attempt has saved already violates the key.
SaveMessage ==
    LET m == worker.job.message
    IN  /\ worker.step = "run"
        /\ worker.job.name = "save-message"
        /\ saved' = SavedOnce(saved, m)
        /\ worker' = [worker EXCEPT !.step = IF m \in ToSet(saved) THEN "fail" ELSE "complete"]
        /\ UNCHANGED <<send, count, queue, read, marking, clients, faults>>

\* Mutant: less than instead of at most.
BeforeLast(job) ==
    {m \in ToSet(saved) : Rank[m] < Rank[job.message] /\ SenderOf[m] # job.reader}
MarkedBy(job) ==
    {m \in ToSet(saved) : Rank[m] <= Rank[job.message] /\ SenderOf[m] # job.reader}

MarkRead ==
    /\ worker.step = "run"
    /\ worker.job.name = "mark-read"
    /\ read' = read \cup MarkedBy(worker.job)
    /\ worker' = [worker EXCEPT !.step = "complete"]
    /\ UNCHANGED <<send, count, queue, saved, marking, clients, faults>>

\* MySQL refuses the statement, and process() throws.
ProcessFails ==
    /\ worker.step = "run"
    /\ worker' = [worker EXCEPT !.step = "fail"]
    /\ Fault
    /\ UNCHANGED <<send, count, queue, table, marking, clients>>

\* The job is over; one that threw has no attempt left.
JobEnds ==
    /\ worker.step \in {"complete", "fail"}
    /\ worker' = IdleWorker
    /\ UNCHANGED <<send, count, queue, table, marking, clients, faults>>

\* The process dies; the active job is taken again, and fails the second time.
Crash ==
    /\ Fault
    /\ send' = [m \in Messages |->
            IF send[m] \in {"admitted", "queued"} THEN "rejected" ELSE send[m]]
    /\ mark' = [u \in Users |-> IdleMark]
    /\ worker' =
            IF worker.step = "idle" THEN worker
            ELSE [worker EXCEPT !.step = IF worker.stalled THEN "fail" ELSE "run",
                                !.stalled = TRUE]
    /\ room' = {} /\ loaded' = {}
    /\ view' = [u \in Users |-> {}] /\ gap' = [u \in Users |-> {}]
    /\ UNCHANGED <<count, queue, table, reading>>

Sending(m) == Refuse(m) \/ SendMessage(m) \/ Broadcast(m)
Working == Take \/ SaveMessage \/ MarkRead \/ JobEnds

Next ==
    \/ \E m \in Messages : CheckLimit(m) \/ LimiterFails(m) \/ Sending(m) \/ SendFails(m)
    \/ \E u \in Users, last \in Named : MarkAsRead(u, last)
    \/ \E u \in Users :
        \/ WindowEnds(u)
        \/ Subscribe(u) \/ LoadHistory(u) \/ Disconnect(u)
        \/ FindMessage(u) \/ AddMarkJob(u) \/ ReadReceipt(u) \/ MarkFails(u)
    \/ Working
    \/ ProcessFails
    \/ Crash

Spec == Init /\ [][Next]_vars

(***************************************************************************)
(* Fairness: handlers and the worker go on.  Nobody has to write or read.  *)
(***************************************************************************)
FairSpec == Spec /\ WF_vars(Working) /\ \A m \in Messages : WF_vars(Sending(m))

-----------------------------------------------------------------------------
(* Properties. *)

Kept(m) ==
    \/ m \in ToSet(saved)
    \/ SaveJob(m) \in ToSet(queue)
    \/ worker.step = "run" /\ worker.job = SaveJob(m)

(***************************************************************************)
(* What the room has seen is in the table or on its way there, up to one   *)
(* message for each failure: the queue gets the job before the room gets   *)
(* the message.                                                            *)
(***************************************************************************)
LossNeedsFault == Cardinality({m \in Messages : send[m] = "shown" /\ ~ Kept(m)}) <= faults

ReadNeedsReader ==
    \A m \in read : \E last \in Named, u \in Members :
        <<last, u>> \in asked /\ u # SenderOf[m] /\ Rank[m] <= Rank[last]

JobOf(last, u) ==
    \/ MarkJob(last, u) \in ToSet(queue)
    \/ worker.step = "run" /\ worker.job = MarkJob(last, u)

ReceiptsAreKept ==
    \A last \in Messages, u \in Members :
        <<last, u>> \in receipts \ early /\ SenderOf[last] # u
            => last \in read \/ JobOf(last, u)

(***************************************************************************)
(* The rows say what the readers said.  A message is marked as read only   *)
(* when the other member has asked for it, or named a message with a       *)
(* greater identifier.  As long as nothing fails, a read receipt of a      *)
(* member that the room has seen is in the table or queued, unless the     *)
(* message was not in the table when it was looked for.  A receipt of a    *)
(* stranger is shown too, and nothing in the table follows from it.        *)
(***************************************************************************)
RowsTellReads == ReadNeedsReader /\ (faults = 0 => ReceiptsAreKept)

(***************************************************************************)
(* A member who has joined the room and then loaded the history sees every *)
(* message that the room has seen, but for those that were shown before    *)
(* the member joined and were not in the table when the history was read.  *)
(***************************************************************************)
NothingIsMissed ==
    \A u \in loaded, m \in Messages :
        send[m] = "shown" => m \in view[u] \cup gap[u]

(***************************************************************************)
(* A message that is queued is answered, and its job does not stay in the  *)
(* queue.                                                                  *)
(***************************************************************************)
QueuedMessagesSettle ==
    \A m \in Messages :
        (send[m] = "queued") ~>
            (send[m] \in {"shown", "rejected"} /\ SaveJob(m) \notin ToSet(queue))
=============================================================================
