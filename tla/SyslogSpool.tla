---------------------------- MODULE SyslogSpool ----------------------------
(***************************************************************************)
(* The bounded journal on disk of package rk_syslog (rust/src/spool.rs).   *)
(* The spool is one record of state; each operator is one method of        *)
(* `Spool' and yields the state it leaves behind.                          *)
(*                                                                         *)
(* A record is kept whole: a byte offset of the code is an index here, and *)
(* Size gives what a record takes of the bound.  A segment holds what was  *)
(* written to it and how much of that left the writer's buffer, which is   *)
(* what a death of the process leaves on disk.                             *)
(***************************************************************************)
EXTENDS Integers, Sequences, FiniteSets, SequencesExt

CONSTANTS
    MaxBytes,      \* spool_max_bytes
    SegmentBytes,  \* spool_segment_bytes
    BigRecords     \* records that take two units instead of one

\* Spool::open refuses any other pair of limits.
LimitsAssumption ==
    /\ MaxBytes \in Nat /\ SegmentBytes \in Nat \ {0}
    /\ SegmentBytes <= MaxBytes

\* One record with its length prefix, a row of records, and a row of segments.
Need(r) == IF r.id \in BigRecords THEN 2 ELSE 1
Units(recs) == UNION {{i} \X (1..Need(recs[i])) : i \in DOMAIN recs}
BytesOf(recs) == Cardinality(Units(recs))
Bytes(segs) == Cardinality(UNION {{k} \X Units(segs[k].recs) : k \in DOMAIN segs})

Fresh == [segs |-> <<>>, next |-> 1, open |-> FALSE, read |-> <<0, 0>>,
          cursor |-> <<0, 0>>, dropped |-> 0]

\* The new position, written down when the file system lets it: a refused
\* rename leaves the old cursor file behind the position in memory.
MoveTo(sp, pos, written) ==
    [sp EXCEPT !.read = pos, !.cursor = IF written THEN pos ELSE @]

FlushedLast(sp) ==
    IF sp.open
    THEN [sp.segs EXCEPT ![Len(sp.segs)].disk = Len(sp.segs[Len(sp.segs)].recs)]
    ELSE sp.segs

Flush(sp) == [sp EXCEPT !.segs = FlushedLast(sp)]

OldestSeq(segs, next) == IF segs = <<>> THEN next ELSE segs[1].seq

\* What the reader had not passed of segment k is lost with it.
Unread(sp, k) == sp.read[1] <= sp.segs[k].seq

RecordsIn(sp, places) == Cardinality(UNION {{k} \X DOMAIN sp.segs[k].recs : k \in places})

\* Segments leave from the front until the record fits or none is left.
Rest(sp, k) == SubSeq(sp.segs, k + 1, Len(sp.segs))
Enough(sp, need, k) == k = Len(sp.segs) \/ need + Bytes(Rest(sp, k)) <= MaxBytes
Gone(sp, need) == Min({k \in 0..Len(sp.segs) : Enough(sp, need, k)})

\* What the reader had not passed is counted, a segment at a time, and the
\* reader moves on.
DropOldest(sp, need, written) ==
    LET gone == Gone(sp, need)
        rest == Rest(sp, gone)
        unread == {k \in 1..gone : Unread(sp, k)}
        kept == [sp EXCEPT !.segs = rest, !.open = @ /\ rest # <<>>,
                           !.dropped = @ + RecordsIn(sp, unread)]
    IN  IF unread = {} THEN kept
        ELSE MoveTo(kept, <<OldestSeq(rest, sp.next), 0>>, written)

TooBig(r) == Need(r) > MaxBytes
Full(sp, r) == Bytes(sp.segs) + Need(r) > MaxBytes
Refuses(sp, r, policy) == TooBig(r) \/ (policy = "reject" /\ Full(sp, r))

AppendUnchecked(sp, r) ==
    LET last == sp.segs[Len(sp.segs)]
        roll == \/ sp.segs = <<>> \/ ~sp.open
                \/ BytesOf(last.recs) + Need(r) > SegmentBytes
        rolled == [sp EXCEPT
            !.segs = Append(FlushedLast(sp), [seq |-> sp.next, recs |-> <<r>>, disk |-> 0]),
            !.next = @ + 1, !.open = TRUE,
            !.read = IF @[1] = 0 THEN <<sp.next, 0>> ELSE @]
    IN  IF roll THEN rolled
        ELSE [sp EXCEPT !.segs[Len(sp.segs)].recs = Append(@, r)]

\* append: the room first, then the bytes, which stay in the writer's buffer.
SpoolAppend(sp, r, written) == AppendUnchecked(DropOldest(sp, Need(r), written), r)

MovesReader(sp, r) == DropOldest(sp, Need(r), TRUE).read # sp.read

\* Where the reader stands: its segment's place in the row, or 0.
ReadIndex(sp) ==
    LET here == {k \in DOMAIN sp.segs : sp.segs[k].seq = sp.read[1]}
    IN  IF here = {} THEN 0 ELSE Min(here)

Exhausted(sp) ==
    ReadIndex(sp) # 0 /\ sp.read[2] >= Len(sp.segs[ReadIndex(sp)].recs)

LeavesSegmentNever(sp) == Exhausted(sp) /\ ReadIndex(sp) > Len(sp.segs)
LeavesSegment(sp) == Exhausted(sp) /\ ReadIndex(sp) < Len(sp.segs)

\* peek's search for the next record: past a gap to the oldest segment, past
\* a segment read to its end to the next one, the read segment deleted.
Seek(sp, written) ==
    LET k == ReadIndex(sp)
        jump == k = 0 /\ sp.segs # <<>> /\ sp.segs[1].seq > sp.read[1]
    IN  IF jump THEN [sp EXCEPT !.read = <<sp.segs[1].seq, 0>>]
        ELSE IF LeavesSegment(sp)
        THEN MoveTo([sp EXCEPT !.segs = RemoveAt(@, k)], <<sp.segs[k + 1].seq, 0>>, written)
        ELSE sp

Peeked(sp) ==
    IF ReadIndex(sp) = 0 \/ Exhausted(sp) THEN <<>>
    ELSE <<sp.segs[ReadIndex(sp)].recs[sp.read[2] + 1]>>

AdvanceTwice(sp, written) == MoveTo(sp, <<sp.read[1], sp.read[2] + 2>>, written)
Advance(sp, written) == MoveTo(sp, <<sp.read[1], sp.read[2] + 1>>, written)

\* Mutant: segments are numbered by how many there are.
NextByCount(found) == Len(found) + 1
NextSeq(found) == IF found = <<>> THEN 1 ELSE found[Len(found)].seq + 1

\* What a new process makes of the directory: whole records that reached the
\* file, no empty segments, the numbering after the last segment found, and
\* the cursor unless it lies before the oldest segment.  A file is flushed
\* before the next is created, so none but the last can be empty.
OnDisk(sp) == [k \in DOMAIN sp.segs |->
                  [sp.segs[k] EXCEPT !.recs = SubSeq(@, 1, sp.segs[k].disk)]]
Found(whole) ==
    IF whole # <<>> /\ Last(whole).recs = <<>> THEN Front(whole) ELSE whole
Recover(sp) ==
    LET found == Found(OnDisk(sp))
        next == NextSeq(found)
        oldest == OldestSeq(found, next)
    IN  [segs |-> found, next |-> next, open |-> FALSE, cursor |-> sp.cursor,
         dropped |-> 0,
         read |-> IF sp.cursor[1] < oldest THEN <<oldest, 0>> ELSE sp.cursor]

\* A death of the process keeps of the open segment what had left the buffer
\* by then, n records of it.
Died(sp, n) == IF sp.open THEN [sp EXCEPT !.segs[Len(sp.segs)].disk = n] ELSE sp
DeathPoints(sp) ==
    IF sp.open THEN sp.segs[Len(sp.segs)].disk..Len(sp.segs[Len(sp.segs)].recs) ELSE {0}

\* What the writer of the last segment has not passed on.
Buffer(sp) ==
    IF sp.open
    THEN LET last == sp.segs[Len(sp.segs)]
         IN  {last.recs[j] : j \in {i \in DOMAIN last.recs : i > last.disk}}
    ELSE {}

\* Everything written, and what the reader will still come to.
Written(sp) == UNION {ToSet(sp.segs[k].recs) : k \in DOMAIN sp.segs}
Ahead(sp) ==
    UNION {ToSet(SubSeq(sp.segs[k].recs,
                        IF sp.segs[k].seq = sp.read[1] THEN sp.read[2] + 1 ELSE 1,
                        Len(sp.segs[k].recs))) :
            k \in {j \in DOMAIN sp.segs : sp.segs[j].seq >= sp.read[1]}}
============================================================================
