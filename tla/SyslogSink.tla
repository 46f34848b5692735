---------------------------- MODULE SyslogSink -----------------------------
(***************************************************************************)
(* The syslog sink of package rk_syslog: a caller that frames records and  *)
(* hands them over, the bounded queue between the threads (queue.rs), the  *)
(* worker that writes them to the spool and sends them (sink.rs), and a    *)
(* process that may die at any point and be started again.                 *)
(*                                                                         *)
(* Records are numbered in the order they are accepted; number 0 is the    *)
(* worker's own record about a loss.  The handle's contract (ffi.rs) is    *)
(* one caller at a time.                                                   *)
(***************************************************************************)
EXTENDS Integers, Sequences, FiniteSets, SequencesExt

CONSTANTS
    MaxBytes, SegmentBytes, BigRecords,   \* of the spool
    Rules,         \* the settings a sink may be opened with, and whether its file
                   \* system may refuse a batch
    Capacity,      \* queue_max_records
    SendBatch,     \* SEND_BATCH
    MaxRecords,    \* bound: records ever accepted
    MaxDeaths,     \* bound: deaths of the process
    MaxCursorFails, \* bound: refused writes of the cursor file
    MaxFlushFails  \* bound: refused writes of a batch to its file

Policies == {"drop_oldest", "reject"}

ASSUME SinkAssumption ==
    /\ Rules \subseteq [queue : Policies, spool : Policies, enabled : BOOLEAN, refuses : BOOLEAN]
    /\ Capacity \in Nat \ {0} /\ SendBatch \in Nat \ {0}
    /\ MaxRecords \in Nat /\ MaxDeaths \in Nat
    /\ MaxCursorFails \in Nat /\ MaxFlushFails \in Nat

VARIABLES
    cfg,      \* the rules chosen at opening: queue, spool, collector
    queue,    \* items, inFlight, dropped, closed
    sp,       \* the spool, SyslogSpool
    worker,   \* pc, the batch in hand, what drain said of closing, sent so far,
              \* told: the counters queue_dropped and spool_dropped_records
    caller,   \* idle, flushing (and for what), closing, off
    waiting,  \* a failed send's back-off has not run out
    life,     \* deaths and failures so far
    seen      \* history: accepted, sent, promised, lost with a death, refused,
              \* unwritten by a failed flush, before: missing since a process
              \* that has ended

vars == <<cfg, queue, sp, worker, caller, waiting, life, seen>>

Spool == INSTANCE SyslogSpool
ASSUME LimitsAssumption == Spool!LimitsAssumption

Ids(recs) == {r.id : r \in recs} \ {0}
Loss == [id |-> 0]
Rec(n) == [id |-> n]

NewQueue == [items |-> <<>>, inFlight |-> FALSE, dropped |-> 0, closed |-> FALSE]
NewWorker == [pc |-> "drain", batch |-> <<>>, took |-> FALSE, closed |-> FALSE, sent |-> 0,
              told |-> 0]
NewSeen == [accepted |-> 0, sent |-> {}, promised |-> {}, lost |-> {},
            refused |-> {}, unwritten |-> {}, before |-> {}]

Init ==
    /\ cfg \in Rules
    /\ queue = NewQueue /\ sp = Spool!Fresh /\ worker = NewWorker
    /\ caller = [pc |-> "idle", asked |-> {}]
    /\ waiting = FALSE
    /\ life = [deaths |-> 0, cursorFails |-> 0, flushFails |-> 0]
    /\ seen = NewSeen

Accepted == 1..seen.accepted
InQueue == Ids(ToSet(queue.items))
InBatch == Ids(ToSet(worker.batch))

\* The journal as the next process will find it, when none is running.
Journal == IF caller.pc = "off" THEN Spool!Recover(sp) ELSE sp
Held == InQueue \cup InBatch \cup Ids(Spool!Ahead(Journal))

\* Accepted, and neither sent nor on its way nor gone for a reason of its own.
Missing == Accepted \ (seen.sent \cup seen.lost \cup seen.refused \cup Held)

\* What the running process has to say of dropped records: its counters, and
\* what the worker has not taken into them yet.  All of it is in memory.
Counted ==
    IF caller.pc = "off" THEN 0 ELSE worker.told + queue.dropped + sp.dropped

\* A cursor file that may refuse to be replaced, where it is written at all.
CursorWrite(written) ==
    \/ written /\ UNCHANGED life
    \/ /\ ~written /\ life.cursorFails < MaxCursorFails
       /\ life' = [life EXCEPT !.cursorFails = @ + 1]

(***************************************************************************)
(* The caller.                                                             *)
(***************************************************************************)

\* push: refused when the queue is full and the rule is reject.
QueueFullLate == Len(queue.items) > Capacity
QueueFull == Len(queue.items) >= Capacity

Push ==
    /\ QueueFull => cfg.queue = "drop_oldest"
    /\ queue' = [queue EXCEPT
         !.items = Append(IF QueueFull THEN Tail(@) ELSE @, Rec(seen.accepted + 1)),
         !.dropped = IF QueueFull THEN @ + 1 ELSE @]
    /\ seen' = [seen EXCEPT !.accepted = @ + 1]

Submit ==
    /\ caller.pc = "idle" /\ seen.accepted < MaxRecords
    /\ Push
    /\ UNCHANGED <<cfg, sp, worker, caller, waiting, life>>

FlushBegin ==
    /\ caller.pc = "idle"
    /\ caller' = [pc |-> "flushing", asked |-> Accepted \ (seen.lost \cup Missing)]
    /\ UNCHANGED <<cfg, queue, sp, worker, waiting, life, seen>>

\* wait_drained: nothing waits and nothing is being written.
DrainedEarly == queue.items = <<>>
Drained == queue.items = <<>> /\ ~queue.inFlight

FlushOk ==
    /\ caller.pc = "flushing" /\ Drained
    /\ seen' = [seen EXCEPT !.promised = @ \cup caller.asked]
    /\ caller' = [pc |-> "idle", asked |-> {}]
    /\ UNCHANGED <<cfg, queue, sp, worker, waiting, life>>

FlushTimeout ==
    /\ caller.pc = "flushing" /\ ~Drained
    /\ caller' = [pc |-> "idle", asked |-> {}]
    /\ UNCHANGED <<cfg, queue, sp, worker, waiting, life, seen>>

\* rk_syslog_close: stop accepting, then join the worker.  The counters go
\* with the sink.
Close ==
    /\ caller.pc = "idle"
    /\ queue' = [queue EXCEPT !.closed = TRUE]
    /\ caller' = [pc |-> "closing", asked |-> {}]
    /\ UNCHANGED <<cfg, sp, worker, waiting, life, seen>>

Joined ==
    /\ caller.pc = "closing" /\ worker.pc = "gone"
    /\ caller' = [caller EXCEPT !.pc = "off"]
    /\ seen' = [seen EXCEPT !.before = @ \cup Missing]
    /\ UNCHANGED <<cfg, queue, sp, worker, waiting, life>>

(***************************************************************************)
(* The worker, run_worker.                                                 *)
(***************************************************************************)

Drain ==
    /\ worker.pc = "drain"
    /\ worker' = [worker EXCEPT !.pc = "append", !.batch = queue.items,
                    !.took = queue.items # <<>>, !.closed = queue.closed]
    /\ queue' = [queue EXCEPT !.items = <<>>, !.inFlight = queue.items # <<>>]
    /\ UNCHANGED <<cfg, sp, caller, waiting, life, seen>>

\* Appending r: refused for the size or by the rule, or written.
AppendTo(r) ==
    IF Spool!Refuses(sp, r, cfg.spool)
    THEN /\ seen' = [seen EXCEPT !.refused = @ \cup (IF r.id = 0 THEN {} ELSE {r.id})]
         /\ UNCHANGED <<sp, life>>
    ELSE \E written \in BOOLEAN :
         /\ CursorWrite(written)
         /\ written \/ Spool!MovesReader(sp, r)
         /\ sp' = Spool!SpoolAppend(sp, r, written)
         /\ UNCHANGED seen

AppendLast ==
    /\ worker.pc = "append" /\ worker.batch # <<>>
    /\ AppendTo(Last(worker.batch))
    /\ worker' = [worker EXCEPT !.batch = Front(@)]
    /\ UNCHANGED <<cfg, queue, caller, waiting>>

AppendOne ==
    /\ worker.pc = "append" /\ worker.batch # <<>>
    /\ AppendTo(Head(worker.batch))
    /\ worker' = [worker EXCEPT !.batch = Tail(@)]
    /\ UNCHANGED <<cfg, queue, caller, waiting>>

FlushBatch ==
    /\ worker.pc = "append" /\ worker.batch = <<>>
    /\ sp' = IF worker.took THEN Spool!Flush(sp) ELSE sp
    /\ worker' = [worker EXCEPT !.pc = "mark"]
    /\ UNCHANGED <<cfg, queue, caller, waiting, life, seen>>

\* The file system refuses the batch; nobody looks at what flush returned, and
\* what it did not write stays in the buffer.
FlushRefused ==
    /\ worker.pc = "append" /\ worker.batch = <<>> /\ worker.took
    /\ cfg.refuses /\ life.flushFails < MaxFlushFails
    /\ worker' = [worker EXCEPT !.pc = "mark"]
    /\ life' = [life EXCEPT !.flushFails = @ + 1]
    /\ seen' = [seen EXCEPT !.unwritten = @ \cup Ids(Spool!Buffer(sp))]
    /\ UNCHANGED <<cfg, queue, sp, caller, waiting>>

MarkDrained ==
    /\ worker.pc = "mark"
    /\ queue' = [queue EXCEPT !.inFlight = FALSE]
    /\ worker' = [worker EXCEPT !.pc = "queueLoss", !.took = FALSE]
    /\ UNCHANGED <<cfg, sp, caller, waiting, life, seen>>

\* announce_loss for what the queue dropped, then for what the spool dropped.
QueueLoss ==
    /\ worker.pc = "queueLoss"
    /\ queue' = [queue EXCEPT !.dropped = 0]
    /\ IF queue.dropped = 0 THEN UNCHANGED <<sp, life, seen>> ELSE AppendTo(Loss)
    /\ worker' = [worker EXCEPT !.pc = "spoolLoss", !.told = @ + queue.dropped]
    /\ UNCHANGED <<cfg, caller, waiting>>

\* The count is taken before the announcement, which may drop in its turn.
SpoolLoss ==
    /\ worker.pc = "spoolLoss"
    /\ IF sp.dropped = 0 THEN UNCHANGED <<sp, life, seen>>
       ELSE LET taken == [sp EXCEPT !.dropped = 0] IN
            IF Spool!Refuses(taken, Loss, cfg.spool)
            THEN sp' = taken /\ UNCHANGED <<life, seen>>
            ELSE \E written \in BOOLEAN :
                 /\ CursorWrite(written)
                 /\ written \/ Spool!MovesReader(taken, Loss)
                 /\ sp' = Spool!SpoolAppend(taken, Loss, written)
                 /\ UNCHANGED seen
    /\ worker' = [worker EXCEPT !.pc = "send", !.sent = 0, !.told = @ + sp.dropped]
    /\ UNCHANGED <<cfg, queue, caller, waiting>>

\* Sending is off, not due yet, or has had its share of this turn.
Pause ==
    /\ worker.pc = "send"
    /\ ~cfg.enabled \/ waiting \/ worker.sent >= SendBatch
    /\ worker' = [worker EXCEPT !.pc = "turn"]
    /\ UNCHANGED <<cfg, queue, sp, caller, waiting, life, seen>>

Sending == worker.pc = "send" /\ cfg.enabled /\ ~waiting /\ worker.sent < SendBatch

\* peek: flush, find the next record.  A cursor that cannot be written ends
\* the turn; so does having nothing to send.
PeekEnds ==
    /\ Sending
    /\ \E written \in BOOLEAN :
         /\ CursorWrite(written)
         /\ written \/ Spool!LeavesSegment(sp)
         /\ sp' = Spool!Seek(Spool!Flush(sp), written)
         /\ ~written \/ Spool!Peeked(sp') = <<>>
    /\ worker' = [worker EXCEPT !.pc = "turn"]
    /\ UNCHANGED <<cfg, queue, caller, waiting, seen>>

\* peek, send, advance.  The record is on the socket; the cursor file may
\* refuse, which ends the turn with the reader moved on in memory only.
SendOk ==
    /\ Sending
    /\ \E written \in BOOLEAN :
         LET found == Spool!Seek(Spool!Flush(sp), TRUE) IN
         /\ Spool!Peeked(found) # <<>>
         /\ CursorWrite(written)
         /\ sp' = Spool!Advance(found, written)
         /\ seen' = [seen EXCEPT !.sent = @ \cup Ids(ToSet(Spool!Peeked(found)))]
         /\ worker' = IF written THEN [worker EXCEPT !.sent = @ + 1]
                      ELSE [worker EXCEPT !.pc = "turn"]
    /\ UNCHANGED <<cfg, queue, caller, waiting>>

\* A send that fails may have put the record on the wire all the same.
SendFails ==
    /\ Sending
    /\ LET found == Spool!Seek(Spool!Flush(sp), TRUE) IN
         /\ Spool!Peeked(found) # <<>>
         /\ sp' = found
         /\ \/ UNCHANGED seen
            \/ seen' = [seen EXCEPT !.sent = @ \cup Ids(ToSet(Spool!Peeked(found)))]
    /\ waiting' = TRUE
    /\ worker' = [worker EXCEPT !.pc = "turn"]
    /\ UNCHANGED <<cfg, queue, caller, life>>

BackoffOver ==
    /\ waiting /\ waiting' = FALSE
    /\ UNCHANGED <<cfg, queue, sp, worker, caller, life, seen>>

\* The end of a turn: gone when drain saw the queue closed and it is empty.
Turn ==
    /\ worker.pc = "turn"
    /\ LET done == worker.closed /\ queue.items = <<>> IN
         /\ worker' = [worker EXCEPT !.pc = IF done THEN "gone" ELSE "drain", !.sent = 0]
         /\ sp' = IF done THEN Spool!Flush(sp) ELSE sp
    /\ UNCHANGED <<cfg, queue, caller, waiting, life, seen>>

(***************************************************************************)
(* The process.                                                            *)
(***************************************************************************)

\* Where the spool may stand when the process dies inside an append: before
\* it, or with the room made and the old writer not flushed yet.
InHand ==
    {r \in {Loss} \cup ToSet(worker.batch) :
        \/ worker.pc = "append" /\ worker.batch # <<>> /\ r = Head(worker.batch)
        \/ worker.pc = "queueLoss" /\ queue.dropped # 0 /\ r = Loss
        \/ worker.pc = "spoolLoss" /\ sp.dropped # 0 /\ r = Loss}
Standing ==
    {sp} \cup {Spool!DropOldest(sp, Spool!Need(r), written) :
        r \in {q \in InHand : ~Spool!Refuses(sp, q, cfg.spool)}, written \in BOOLEAN}

\* The records in memory are lost, and so is every count: of what was dropped,
\* up to the room made for the record in hand, no one is left to tell but a
\* record of the worker's own that is on disk by then.
Die ==
    /\ caller.pc # "off" /\ life.deaths < MaxDeaths
    /\ \E s \in Standing : \E n \in Spool!DeathPoints(s) :
         /\ sp' = Spool!Died(s, n)
         /\ seen' = [seen EXCEPT
              !.lost = @ \cup InQueue \cup InBatch
                         \cup (Ids(Spool!Written(s)) \ Ids(Spool!Written(Spool!Recover(sp')))),
              !.before = @ \cup Missing \cup (Ids(Spool!Ahead(sp)) \ Ids(Spool!Ahead(s)))]
    /\ queue' = NewQueue /\ worker' = [NewWorker EXCEPT !.pc = "gone"]
    /\ caller' = [pc |-> "off", asked |-> {}]
    /\ waiting' = FALSE
    /\ life' = [life EXCEPT !.deaths = @ + 1]
    /\ UNCHANGED cfg

\* Sink::open on the directory as it is.
Open ==
    /\ caller.pc = "off"
    /\ caller' = [pc |-> "idle", asked |-> {}]
    /\ queue' = NewQueue /\ worker' = NewWorker /\ waiting' = FALSE
    /\ sp' = Spool!Recover(sp)
    /\ UNCHANGED <<cfg, life, seen>>

Caller == Submit \/ FlushBegin \/ FlushOk \/ FlushTimeout \/ Close \/ Joined
Worker == \/ Drain \/ AppendOne \/ FlushBatch \/ FlushRefused \/ MarkDrained
          \/ QueueLoss \/ SpoolLoss \/ Pause \/ PeekEnds \/ SendOk \/ SendFails \/ Turn
Next == Caller \/ Worker \/ BackoffOver \/ Die \/ Open

(***************************************************************************)
(* The worker thread runs, a back-off ends, and a collector that is        *)
(* reached again and again in the end takes a record.  The first and the   *)
(* last are weak and strong fairness of Worker and SendOk with what        *)
(* enables them written as predicates: every step of the worker changes    *)
(* its variable, and it has one to take unless it is gone.                 *)
(***************************************************************************)
CanSend == Sending /\ Spool!Peeked(Spool!Seek(Spool!Flush(sp), TRUE)) # <<>>
Fairness ==
    /\ []<>(worker.pc = "gone") \/ []<><<worker' # worker>>_worker
    /\ WF_vars(BackoffOver)
    /\ <>[]~CanSend \/ []<><<SendOk>>_vars

Spec == Init /\ [][Next]_vars
FairSpec == Spec /\ Fairness
----------------------------------------------------------------------------
TypeOK ==
    /\ queue.items \in Seq([id : 1..MaxRecords]) /\ Len(queue.items) <= Capacity
    /\ worker.pc \in {"drain", "append", "mark", "queueLoss", "spoolLoss", "send", "turn", "gone"}
    /\ caller.pc \in {"idle", "flushing", "closing", "off"}
    /\ seen.accepted \in 0..MaxRecords
    /\ UNION {seen.sent, seen.promised, seen.lost, seen.refused, seen.unwritten, seen.before}
           \subseteq Accepted
    /\ Spool!Bytes(sp.segs) <= MaxBytes

\* A record the caller was promised by a flush is lost by a death of the
\* process only if the file system had refused to write the batch it was in:
\* otherwise it is on disk, or gone for a reason that is counted.
PromisedSurvives == seen.promised \cap seen.lost \subseteq seen.unwritten

\* What flush says without that condition, which the worker cannot keep: it
\* does not look at what the spool's flush returned.
PromisedIsWritten == seen.promised \cap seen.lost = {}

\* The counts of a process cover all that went missing under it: an accepted
\* record was sent, is still on its way, died unflushed with a process, was
\* refused by the spool, was missing when an earlier process ended, or has its
\* place in what this process counts.
GapsAreCounted == Cardinality(Missing \ seen.before) <= Counted

\* What the docs of the sink and the spool say across processes: a record that
\* flush had answered for does not go missing with no count and no word of it
\* in the journal.  (Without a collector nothing leaves the journal for it.)
NoSilentGap ==
    ~cfg.enabled /\ seen.promised \cap Missing # {} =>
        Counted > 0 \/ Loss \in Spool!Written(Journal)

\* Flush's own promise: what was submitted before it has reached the spool.
FlushReachesSpool == seen.promised \cap seen.refused = {}

\* The comment on recovery: a cursor at a segment that is not there any more
\* starts at the oldest there is.
CursorIsInJournal == Journal.read[1] <= Journal.next

\* Records leave in the order they were submitted, across deaths: one sent
\* for the first time is younger than all that were sent before.
SentInOrder ==
    [][\A n \in seen'.sent \ seen.sent : \A m \in seen.sent : m < n]_vars

\* The cursor moves past a record only when it was sent or its segment
\* dropped: what was ahead of the reader and no longer is was sent, was lost
\* with the process, or is in the counts, which a process that ends takes with
\* it.
PassedOnlySent ==
    [][\A n \in Ids(Spool!Ahead(Journal)) \ Ids(Spool!Ahead(Journal)') :
            \/ n \in seen'.sent \cup seen'.lost \cup seen'.before
            \/ Counted' > Counted]_vars

\* The drain takes the journal from its front, and skips nothing in silence.
DrainIsInOrder == SentInOrder /\ PassedOnlySent

\* A sink with a collector gets rid of all it holds when its caller submits no
\* more, as it does after MaxRecords, unless it is closed or dies: nothing
\* waits for ever behind a failed send.
HeldLeaves == cfg.enabled ~> (Held = {} \/ caller.pc \in {"closing", "off"})
============================================================================
