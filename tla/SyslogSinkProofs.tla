-------------------------- MODULE SyslogSinkProofs --------------------------
(* That what a flush promised outlives the process, for any limits, rules   *)
(* and number of deaths, but for what the file system refused to write.  A  *)
(* record in danger is one that is in memory only: in the queue, in the     *)
(* worker's batch, or in the buffer of the segment being written.  A flush  *)
(* answers when nothing accepted before it is, or its write was refused.    *)
EXTENDS SyslogSink, TLAPS, WellFoundedInduction, SequenceTheorems

Records == [id : Nat]
Segments == [seq : Nat, recs : Seq(Records), disk : Nat]

\* What the buffer of the segment being written still holds.
Buffered(s) ==
    {id \in Nat \ {0} :
        /\ s.open
        /\ \E j \in DOMAIN s.segs[Len(s.segs)].recs :
             j > s.segs[Len(s.segs)].disk /\ s.segs[Len(s.segs)].recs[j].id = id}

\* No segment is empty, and all but the one being written are on disk.
SegmentsOk(s) ==
    /\ s.segs \in Seq(Segments)
    /\ \A k \in DOMAIN s.segs :
         /\ s.segs[k].recs # <<>> /\ s.segs[k].disk <= Len(s.segs[k].recs)
         /\ k < Len(s.segs) \/ ~s.open => s.segs[k].disk = Len(s.segs[k].recs)

\* Of the two positions and the count nothing is asked here.
SpoolOk(s) ==
    /\ s \in [segs : Seq(Segments), next : Nat, open : BOOLEAN,
              read : {s.read}, cursor : {s.cursor}, dropped : {s.dropped}]
    /\ s.open => s.segs # <<>>
    /\ SegmentsOk(s)

----------------------------------------------------------------------------
(* The spool.                                                              *)

\* The order of the natural numbers, as a set of pairs.
Less == {pair \in Nat \X Nat : pair[1] < pair[2]}

\* A set of numbers that is not empty has a least one, and Min is in it.
LEMMA MinIsIn ==
    ASSUME NEW S \in SUBSET Nat, S # {}
    PROVE  Spool!Min(S) \in S
<1>1. IsWellFoundedOn(Less, Nat)
    BY NatLessThanWellFounded, Zenon DEF OpToRel, Less
<1>2. PICK t \in S : \A u \in S : ~ (<<u, t>> \in Less)
    BY <1>1, WFMin, Zenon
<1>3. \A u \in S : t <= u
    <2>1. TAKE u \in S
    <2>2. u \in Nat /\ t \in Nat /\ <<u, t>> \notin Less
        BY <1>2
    <2> QED BY <2>2 DEF Less
<1> QED BY <1>3, Zenon DEF Spool!Min

\* What is known of each segment.
LEMMA SegmentHas ==
    ASSUME NEW s, SpoolOk(s)
    PROVE  /\ s.segs \in Seq(Segments) /\ Len(s.segs) \in Nat
           /\ DOMAIN s.segs = 1..Len(s.segs)
           /\ \A k \in 1..Len(s.segs) :
                /\ s.segs[k] \in Segments /\ s.segs[k].recs \in Seq(Records)
                /\ s.segs[k].recs # <<>> /\ Len(s.segs[k].recs) \in Nat
                /\ s.segs[k].disk \in 0..Len(s.segs[k].recs)
                /\ k < Len(s.segs) \/ ~s.open => s.segs[k].disk = Len(s.segs[k].recs)
<1>1. s.segs \in Seq(Segments) /\ Len(s.segs) \in Nat /\ DOMAIN s.segs = 1..Len(s.segs)
    BY DEF SpoolOk, SegmentsOk
<1>2. ASSUME NEW k \in 1..Len(s.segs)
      PROVE  s.segs[k] \in Segments
    BY <1>1
<1>3. ASSUME NEW k \in 1..Len(s.segs)
      PROVE  /\ s.segs[k].recs \in Seq(Records) /\ s.segs[k].disk \in Nat
             /\ Len(s.segs[k].recs) \in Nat
    BY <1>2 DEF Segments
<1>4. ASSUME NEW k \in 1..Len(s.segs)
      PROVE  /\ s.segs[k].recs # <<>> /\ s.segs[k].disk <= Len(s.segs[k].recs)
             /\ k < Len(s.segs) \/ ~s.open => s.segs[k].disk = Len(s.segs[k].recs)
    BY <1>1 DEF SpoolOk, SegmentsOk
<1> QED
    BY <1>1, <1>2, <1>3, <1>4

\* The cursor file touches nothing but the cursor.
LEMMA MoveKeeps ==
    ASSUME NEW s, SpoolOk(s), NEW pos, NEW written
    PROVE  /\ SpoolOk(Spool!MoveTo(s, pos, written))
           /\ Spool!MoveTo(s, pos, written).segs = s.segs
           /\ Buffered(Spool!MoveTo(s, pos, written)) = Buffered(s)
<1> DEFINE m == Spool!MoveTo(s, pos, written)
<1>1. /\ m.segs = s.segs /\ m.open = s.open
      /\ m \in [segs : Seq(Segments), next : Nat, open : BOOLEAN,
                read : {m.read}, cursor : {m.cursor}, dropped : {m.dropped}]
    BY DEF Spool!MoveTo, SpoolOk
<1> HIDE DEF m
<1>2. SegmentsOk(m) /\ Buffered(m) = Buffered(s)
    BY <1>1 DEF SpoolOk, SegmentsOk, Buffered
<1>3. SpoolOk(m)
    BY <1>1, <1>2 DEF SpoolOk
<1> QED
    BY <1>1, <1>2, <1>3 DEF m

\* Dropping from the front leaves what is in the buffer, or takes it along.
LEMMA DropKeeps ==
    ASSUME NEW s, SpoolOk(s), NEW need, NEW written
    PROVE  /\ SpoolOk(Spool!DropOldest(s, need, written))
           /\ Buffered(Spool!DropOldest(s, need, written)) \subseteq Buffered(s)
<1> DEFINE gone == Spool!Gone(s, need)
           rest == Spool!Rest(s, gone)
           unread == {k \in 1..gone : Spool!Unread(s, k)}
           kept == [s EXCEPT !.segs = rest, !.open = @ /\ rest # <<>>,
                             !.dropped = @ + Spool!RecordsIn(s, unread)]
<1>1. gone \in 0..Len(s.segs)
    <2> DEFINE S == {k \in 0..Len(s.segs) : Spool!Enough(s, need, k)}
    <2>1. Len(s.segs) \in S /\ S \in SUBSET Nat
        BY DEF Spool!Enough, SpoolOk, SegmentsOk
    <2>2. Spool!Min(S) \in S
        BY <2>1, MinIsIn
    <2> QED
        BY <2>2 DEF Spool!Gone
<1> HIDE DEF gone
<1>2. /\ rest \in Seq(Segments) /\ Len(rest) = Len(s.segs) - gone
      /\ \A k \in DOMAIN rest : k + gone \in DOMAIN s.segs /\ rest[k] = s.segs[k + gone]
    BY <1>1 DEF Spool!Rest, SpoolOk, SegmentsOk
<1> HIDE DEF rest
<1>3. /\ kept.segs = rest /\ kept.open = (s.open /\ rest # <<>>)
      /\ kept \in [segs : Seq(Segments), next : Nat, open : BOOLEAN,
                   read : {kept.read}, cursor : {kept.cursor}, dropped : {kept.dropped}]
    BY <1>2 DEF SpoolOk
<1> HIDE DEF kept
<1>4. SegmentsOk(kept)
    <2>1. \A k \in DOMAIN rest : k \in 1..Len(rest) /\ k + gone \in 1..Len(s.segs)
        BY <1>2 DEF SpoolOk, SegmentsOk
    <2>2. ASSUME NEW k \in DOMAIN rest, k < Len(rest) \/ ~(s.open /\ rest # <<>>)
          PROVE  k + gone < Len(s.segs) \/ ~s.open
        BY <1>1, <1>2, <2>1, <2>2 DEF SpoolOk, SegmentsOk
    <2> QED
        BY <1>2, <1>3, <2>2 DEF SpoolOk, SegmentsOk
<1>5. SpoolOk(kept)
    BY <1>3, <1>4 DEF SpoolOk
<1>6. Buffered(kept) \subseteq Buffered(s)
    <2>1. rest # <<>> => Len(rest) \in DOMAIN rest /\ rest[Len(rest)] = s.segs[Len(s.segs)]
        BY <1>1, <1>2 DEF SpoolOk, SegmentsOk
    <2> QED
        BY <1>3, <2>1 DEF Buffered
<1>7. CASE unread = {}
    <2>1. Spool!DropOldest(s, need, written) = kept
        BY <1>7 DEF Spool!DropOldest, gone, rest, kept
    <2> QED
        BY <1>5, <1>6, <2>1
<1>8. CASE unread # {}
    <2>1. Spool!DropOldest(s, need, written)
          = Spool!MoveTo(kept, <<Spool!OldestSeq(rest, s.next), 0>>, written)
        BY <1>8 DEF Spool!DropOldest, gone, rest, kept
    <2> QED
        BY <1>5, <1>6, <2>1, MoveKeeps
<1> QED
    BY <1>7, <1>8

\* A flush empties the buffer.
LEMMA FlushKeeps ==
    ASSUME NEW s, SpoolOk(s)
    PROVE  /\ SpoolOk(Spool!Flush(s)) /\ Buffered(Spool!Flush(s)) = {}
           /\ Spool!Flush(s).segs = Spool!FlushedLast(s)
           /\ Spool!FlushedLast(s) \in Seq(Segments)
           /\ Len(Spool!FlushedLast(s)) = Len(s.segs)
           /\ \A k \in DOMAIN s.segs :
                /\ Spool!FlushedLast(s)[k].recs = s.segs[k].recs
                /\ Spool!FlushedLast(s)[k].disk = Len(s.segs[k].recs)
<1> DEFINE f == Spool!FlushedLast(s)
           n == Len(s.segs)
<1>1. CASE ~s.open
    <2>1. f = s.segs /\ Spool!Flush(s) = s
        BY <1>1 DEF Spool!Flush, Spool!FlushedLast, SpoolOk
    <2> QED
        BY <1>1, <2>1 DEF SpoolOk, SegmentsOk, Buffered
<1>2. CASE s.open
    <2>1. n \in DOMAIN s.segs /\ s.segs[n] \in Segments
        BY <1>2 DEF SpoolOk, SegmentsOk
    <2> DEFINE l == [seq |-> s.segs[n].seq, recs |-> s.segs[n].recs,
                     disk |-> Len(s.segs[n].recs)]
    <2>2. l \in Segments
        BY <2>1 DEF Segments
    <2>3. f = [s.segs EXCEPT ![n] = l]
        <3>1. f = [s.segs EXCEPT ![n] = [s.segs[n] EXCEPT !.disk = Len(s.segs[n].recs)]]
            BY <1>2, <2>1 DEF Spool!FlushedLast, SpoolOk, SegmentsOk
        <3>2. [s.segs[n] EXCEPT !.disk = Len(s.segs[n].recs)] = l
            BY <2>1 DEF Segments
        <3> QED
            BY <3>1, <3>2
    <2>4. l.recs = s.segs[n].recs /\ l.disk = Len(s.segs[n].recs)
        OBVIOUS
    <2> HIDE DEF l, f
    <2>5. /\ f \in Seq(Segments) /\ Len(f) = n /\ f[n] = l
          /\ \A k \in DOMAIN s.segs \ {n} : f[k] = s.segs[k]
        BY <2>1, <2>2, <2>3 DEF SpoolOk, SegmentsOk
    <2>6. \A k \in DOMAIN s.segs : f[k].recs = s.segs[k].recs /\ f[k].disk = Len(s.segs[k].recs)
        BY <2>4, <2>5 DEF SpoolOk, SegmentsOk
    <2> DEFINE g == Spool!Flush(s)
    <2>7. /\ g.segs = f /\ g.open = s.open
          /\ g \in [segs : Seq(Segments), next : Nat, open : BOOLEAN,
                    read : {g.read}, cursor : {g.cursor}, dropped : {g.dropped}]
        BY <2>5 DEF Spool!Flush, SpoolOk, f
    <2> HIDE DEF g
    <2>8. SegmentsOk(g)
        <3>1. \A k \in DOMAIN f : f[k].recs # <<>> /\ f[k].disk = Len(f[k].recs)
            BY <2>5, <2>6 DEF SpoolOk, SegmentsOk
        <3>2. \A k \in DOMAIN f : Len(f[k].recs) \in Nat
            BY <2>5 DEF Segments
        <3> QED
            BY <2>5, <2>7, <3>1, <3>2 DEF SegmentsOk
    <2>9. Buffered(g) = {}
        <3>1. n \in DOMAIN f /\ f[n].disk = Len(f[n].recs) /\ f[n].recs \in Seq(Records)
            BY <2>1, <2>5, <2>6 DEF Segments
        <3> QED
            BY <2>5, <2>7, <3>1 DEF Buffered
    <2>10. SpoolOk(g)
        BY <2>5, <2>7, <2>8, <1>2, <2>1 DEF SpoolOk
    <2> USE DEF g
    <2> QED
        BY <2>5, <2>6, <2>7, <2>9, <2>10 DEF f
<1> QED
    BY <1>1, <1>2 DEF SpoolOk

\* A record that is appended is in the buffer, and nothing else is new there.
LEMMA AppendKeeps ==
    ASSUME NEW s, SpoolOk(s), NEW r \in Records
    PROVE  /\ SpoolOk(Spool!AppendUnchecked(s, r))
           /\ Buffered(Spool!AppendUnchecked(s, r)) \subseteq Buffered(s) \cup ({r.id} \ {0})
<1> DEFINE n == Len(s.segs)
           last == s.segs[n]
           roll == \/ s.segs = <<>> \/ ~s.open
                   \/ Spool!BytesOf(last.recs) + Spool!Need(r) > SegmentBytes
           a == Spool!AppendUnchecked(s, r)
<1>1. CASE roll
    <2> DEFINE new == [seq |-> s.next, recs |-> <<r>>, disk |-> 0]
               f == Spool!FlushedLast(s)
    <2>1. new \in Segments /\ new.recs = <<r>> /\ new.disk = 0
        BY DEF Segments, SpoolOk
    <2>2. /\ a.segs = Append(f, new) /\ a.open = TRUE
          /\ a \in [segs : {a.segs}, next : Nat, open : BOOLEAN,
                    read : {a.read}, cursor : {a.cursor}, dropped : {a.dropped}]
        <3> DEFINE row == Append(f, new)
                   pos == IF s.read[1] = 0 THEN <<s.next, 0>> ELSE s.read
        <3>1. a = [s EXCEPT !.segs = row, !.next = @ + 1, !.open = TRUE, !.read = pos]
            BY <1>1 DEF Spool!AppendUnchecked
        <3> HIDE DEF row, pos, a
        <3>2. s \in [segs : Seq(Segments), next : Nat, open : BOOLEAN,
                     read : {s.read}, cursor : {s.cursor}, dropped : {s.dropped}]
            BY DEF SpoolOk
        <3>3. a = [segs |-> row, next |-> s.next + 1, open |-> TRUE, read |-> pos,
                   cursor |-> s.cursor, dropped |-> s.dropped]
            BY <3>1, <3>2
        <3> QED
            BY <3>2, <3>3 DEF row
    <2> HIDE DEF new, f, a
    <2>3. /\ f \in Seq(Segments) /\ Len(f) = n /\ n \in Nat /\ DOMAIN s.segs = 1..n
          /\ \A k \in 1..n : /\ f[k].recs = s.segs[k].recs /\ f[k].recs # <<>>
                             /\ f[k].disk = Len(f[k].recs) /\ Len(f[k].recs) \in Nat
        <3>1. f \in Seq(Segments) /\ Len(f) = n /\ n \in Nat /\ DOMAIN s.segs = 1..n
            BY FlushKeeps, SegmentHas DEF f
        <3>2. \A k \in 1..n : f[k].recs = s.segs[k].recs /\ f[k].disk = Len(s.segs[k].recs)
            BY <3>1, FlushKeeps DEF f
        <3>3. \A k \in 1..n : s.segs[k].recs # <<>> /\ Len(s.segs[k].recs) \in Nat
            BY SegmentHas
        <3> QED
            BY <3>1, <3>2, <3>3
    <2>4. /\ a.segs \in Seq(Segments) /\ Len(a.segs) = n + 1
          /\ DOMAIN a.segs = 1..n + 1
          /\ a.segs[n + 1] = new /\ \A k \in 1..n : a.segs[k] = f[k]
        BY <2>1, <2>2, <2>3
    <2>5. <<r>> # <<>> /\ Len(<<r>>) = 1 /\ <<r>>[1] = r /\ DOMAIN <<r>> = {1}
        OBVIOUS
    <2>6. SegmentsOk(a)
        <3>1. ASSUME NEW k \in 1..n + 1
              PROVE  /\ a.segs[k].recs # <<>> /\ a.segs[k].disk <= Len(a.segs[k].recs)
                     /\ k < n + 1 => a.segs[k].disk = Len(a.segs[k].recs)
            <4>1. CASE k = n + 1
                <5>1. a.segs[k] = new /\ ~(k < n + 1)
                    BY <2>3, <2>4, <4>1
                <5>2. new.recs # <<>> /\ new.disk <= Len(new.recs)
                    BY <2>1, <2>5
                <5> QED
                    BY <5>1, <5>2
            <4>2. CASE k \in 1..n
                BY <2>3, <2>4, <4>2
            <4> QED
                BY <2>3, <4>1, <4>2
        <3> QED
            BY <2>2, <2>4, <3>1 DEF SegmentsOk
    <2>7. Buffered(a) \subseteq {r.id} \ {0}
        <3>1. a.segs[Len(a.segs)].recs = <<r>>
            BY <2>1, <2>4
        <3> QED
            BY <2>5, <3>1 DEF Buffered
    <2>8. SpoolOk(a)
        <3>1. a.segs # <<>>
            BY <2>3, <2>4
        <3> QED
            BY <2>2, <2>4, <2>6, <3>1 DEF SpoolOk
    <2> QED
        BY <2>7, <2>8 DEF a
<1>2. CASE ~roll
    <2>1. s.open /\ n \in DOMAIN s.segs /\ last \in Segments /\ DOMAIN s.segs = 1..n /\ n \in Nat
        BY <1>2 DEF SpoolOk, SegmentsOk
    <2> DEFINE l == [seq |-> last.seq, recs |-> Append(last.recs, r), disk |-> last.disk]
    <2>2. /\ l \in Segments /\ l.disk = last.disk
          /\ l.recs \in Seq(Records) /\ Len(l.recs) = Len(last.recs) + 1
          /\ l.recs[Len(l.recs)] = r
          /\ \A j \in DOMAIN last.recs : l.recs[j] = last.recs[j]
          /\ DOMAIN l.recs = DOMAIN last.recs \cup {Len(l.recs)}
        BY <2>1 DEF Segments
    <2>3. [last EXCEPT !.recs = Append(@, r)] = l
        <3> HIDE DEF last
        <3> QED
            BY <2>1 DEF Segments
    <2>4. a = [s EXCEPT !.segs = [s.segs EXCEPT ![n] = [last EXCEPT !.recs = Append(@, r)]]]
        BY <1>2, <2>1 DEF Spool!AppendUnchecked, SpoolOk
    <2> HIDE DEF l, a
    <2>5. /\ a.segs = [s.segs EXCEPT ![n] = l] /\ a.open = TRUE
          /\ a \in [segs : {a.segs}, next : Nat, open : BOOLEAN,
                    read : {a.read}, cursor : {a.cursor}, dropped : {a.dropped}]
        BY <2>1, <2>3, <2>4 DEF SpoolOk
    <2>6. /\ a.segs \in Seq(Segments) /\ Len(a.segs) = n /\ DOMAIN a.segs = 1..n
          /\ a.segs[n] = l /\ \A k \in 1..n : k # n => a.segs[k] = s.segs[k]
        <3> DEFINE q == s.segs
        <3>1. q \in Seq(Segments) /\ Len(q) = n /\ n \in 1..Len(q) /\ DOMAIN q = 1..n
            BY <2>1, SegmentHas
        <3> HIDE DEF q, n
        <3>2. /\ [q EXCEPT ![n] = l] \in Seq(Segments) /\ Len([q EXCEPT ![n] = l]) = n
              /\ [q EXCEPT ![n] = l][n] = l
              /\ \A k \in 1..n : k # n => [q EXCEPT ![n] = l][k] = q[k]
            BY <2>2, <3>1
        <3>3. a.segs = [q EXCEPT ![n] = l]
            BY <2>5 DEF q
        <3> QED
            BY <2>1, <3>2, <3>3 DEF q
    <2>7. SegmentsOk(a)
        <3>1. last.disk <= Len(last.recs) /\ Len(last.recs) \in Nat /\ last.disk \in Nat
            <4>1. n \in 1..n
                BY <2>1
            <4>2. last.disk \in 0..Len(last.recs) /\ Len(last.recs) \in Nat
                BY <4>1, SegmentHas
            <4> HIDE DEF last
            <4> QED
                BY <4>2
        <3>2. l.recs # <<>> /\ l.disk <= Len(l.recs)
            BY <2>2, <3>1
        <3> QED
            BY <2>1, <2>5, <2>6, <3>2 DEF SpoolOk, SegmentsOk
    <2>8. Buffered(a) \subseteq Buffered(s) \cup ({r.id} \ {0})
        BY <2>1, <2>2, <2>6 DEF Buffered
    <2>9. SpoolOk(a)
        BY <2>1, <2>5, <2>6, <2>7 DEF SpoolOk
    <2> QED
        BY <2>8, <2>9 DEF a
<1> QED
    BY <1>1, <1>2

LEMMA SpoolAppendKeeps ==
    ASSUME NEW s, SpoolOk(s), NEW r \in Records, NEW written
    PROVE  /\ SpoolOk(Spool!SpoolAppend(s, r, written))
           /\ Buffered(Spool!SpoolAppend(s, r, written)) \subseteq Buffered(s) \cup ({r.id} \ {0})
<1>1. /\ SpoolOk(Spool!DropOldest(s, Spool!Need(r), written))
      /\ Buffered(Spool!DropOldest(s, Spool!Need(r), written)) \subseteq Buffered(s)
    BY DropKeeps
<1> QED
    BY <1>1, AppendKeeps DEF Spool!SpoolAppend

\* The reader moves, and deletes what it has read to the end, before the
\* segment being written.
LEMMA SeekKeeps ==
    ASSUME NEW s, SpoolOk(s), NEW written
    PROVE  /\ SpoolOk(Spool!Seek(s, written))
           /\ Buffered(Spool!Seek(s, written)) = Buffered(s)
<1> DEFINE k == Spool!ReadIndex(s)
           n == Len(s.segs)
<1>1. s.segs \in Seq(Segments) /\ n \in Nat /\ DOMAIN s.segs = 1..n
    BY DEF SpoolOk, SegmentsOk
<1>2. ASSUME Spool!LeavesSegment(s) PROVE k \in 1..n /\ k < n
    <2> DEFINE here == {i \in DOMAIN s.segs : s.segs[i].seq = s.read[1]}
    <2>1. k # 0 /\ k < n
        BY <1>2 DEF Spool!LeavesSegment, Spool!Exhausted
    <2>2. here # {} /\ k = Spool!Min(here) /\ here \in SUBSET Nat
        BY <1>1, <2>1 DEF Spool!ReadIndex
    <2> QED
        BY <1>1, <2>1, <2>2, MinIsIn
<1>3. CASE Spool!Seek(s, written) = s
    BY <1>3
<1>4. CASE Spool!Seek(s, written) = [s EXCEPT !.read = <<s.segs[1].seq, 0>>]
    <2> DEFINE m == [s EXCEPT !.read = <<s.segs[1].seq, 0>>]
    <2>1. /\ m.segs = s.segs /\ m.open = s.open
          /\ m \in [segs : Seq(Segments), next : Nat, open : BOOLEAN,
                    read : {m.read}, cursor : {m.cursor}, dropped : {m.dropped}]
        BY DEF SpoolOk
    <2> HIDE DEF m
    <2>2. SegmentsOk(m) /\ Buffered(m) = Buffered(s)
        BY <2>1 DEF SpoolOk, SegmentsOk, Buffered
    <2>3. SpoolOk(m)
        BY <2>1, <2>2 DEF SpoolOk
    <2> QED
        BY <1>4, <2>2, <2>3 DEF m
<1>5. CASE /\ Spool!LeavesSegment(s)
           /\ Spool!Seek(s, written)
              = Spool!MoveTo([s EXCEPT !.segs = Spool!RemoveAt(@, k)],
                             <<s.segs[k + 1].seq, 0>>, written)
    <2> DEFINE rest == Spool!RemoveAt(s.segs, k)
               m == [s EXCEPT !.segs = Spool!RemoveAt(@, k)]
    <2>1. k \in 1..n /\ k < n
        BY <1>2, <1>5
    <2> HIDE DEF k
    <2>2. /\ rest \in Seq(Segments) /\ Len(rest) = n - 1 /\ DOMAIN rest = 1..n - 1
          /\ \A i \in 1..n - 1 : rest[i] = s.segs[IF i < k THEN i ELSE i + 1]
        <3> DEFINE q == s.segs
                   front == SubSeq(q, 1, k - 1)
                   back == SubSeq(q, k + 1, n)
        <3>1. /\ front \in Seq(Segments) /\ Len(front) = k - 1
              /\ \A i \in 1..k - 1 : front[i] = q[i]
            BY <1>1, <2>1
        <3>2. /\ back \in Seq(Segments) /\ Len(back) = n - k
              /\ \A i \in 1..n - k : back[i] = q[i + k]
            BY <1>1, <2>1
        <3>3. rest = front \o back
            BY DEF Spool!RemoveAt
        <3> HIDE DEF q, front, back, rest
        <3>4. /\ rest \in Seq(Segments) /\ Len(rest) = n - 1 /\ DOMAIN rest = 1..n - 1
              /\ \A i \in 1..n - 1 : rest[i] = IF i < k THEN front[i] ELSE back[i - k + 1]
            <4>1. (k - 1) + (n - k) = n - 1 /\ n - 1 \in Nat
                BY <1>1, <2>1
            <4>2. /\ rest \in Seq(Segments) /\ Len(rest) = Len(front) + Len(back)
                  /\ \A i \in 1..Len(front) + Len(back) :
                       rest[i] = IF i <= Len(front) THEN front[i] ELSE back[i - Len(front)]
                BY <3>1, <3>2, <3>3, ConcatProperties
            <4>3. \A i \in 1..n - 1 :
                       rest[i] = IF i <= k - 1 THEN front[i] ELSE back[i - (k - 1)]
                BY <3>1, <3>2, <4>1, <4>2
            <4>4. \A i \in 1..n - 1 : (i <= k - 1 <=> i < k) /\ i - (k - 1) = i - k + 1
                BY <1>1, <2>1
            <4>5. Len(rest) = n - 1 /\ DOMAIN rest = 1..n - 1
                BY <3>1, <3>2, <4>1, <4>2
            <4>6. \A i \in 1..n - 1 : rest[i] = IF i < k THEN front[i] ELSE back[i - k + 1]
                <5>1. TAKE i \in 1..n - 1
                <5>2. rest[i] = IF i <= k - 1 THEN front[i] ELSE back[i - (k - 1)]
                    BY <4>3
                <5>3. (i <= k - 1 <=> i < k) /\ i - (k - 1) = i - k + 1
                    BY <4>4
                <5> QED
                    BY <5>2, <5>3
            <4> QED
                BY <4>2, <4>5, <4>6
        <3>5. \A i \in 1..n - 1 : i >= k => i - k + 1 \in 1..n - k /\ (i - k + 1) + k = i + 1
            BY <1>1, <2>1
        <3> QED
            BY <1>1, <2>1, <3>1, <3>2, <3>4, <3>5 DEF q
    <2>3. /\ m.segs = rest /\ m.open = s.open
          /\ m \in [segs : Seq(Segments), next : Nat, open : BOOLEAN,
                    read : {m.read}, cursor : {m.cursor}, dropped : {m.dropped}]
        BY <2>2 DEF SpoolOk
    <2> HIDE DEF rest, m
    <2>4. SegmentsOk(m)
        <3>1. ASSUME NEW i \in 1..n - 1
              PROVE  /\ rest[i].recs # <<>> /\ rest[i].disk <= Len(rest[i].recs)
                     /\ i < n - 1 \/ ~s.open => rest[i].disk = Len(rest[i].recs)
            <4> DEFINE j == IF i < k THEN i ELSE i + 1
            <4>1. j \in DOMAIN s.segs /\ rest[i] = s.segs[j] /\ (i < n - 1 => j < n)
                BY <1>1, <2>1, <2>2
            <4> HIDE DEF j
            <4> QED
                BY <4>1 DEF SpoolOk, SegmentsOk
        <3> QED
            BY <2>2, <2>3, <3>1 DEF SegmentsOk
    <2>5. rest[n - 1] = s.segs[n] /\ Len(rest) = n - 1 /\ n - 1 \in DOMAIN rest
        BY <1>1, <2>1, <2>2
    <2>6. Buffered(m) = Buffered(s) /\ rest # <<>>
        BY <2>3, <2>5 DEF Buffered
    <2>7. SpoolOk(m)
        BY <2>3, <2>4, <2>6 DEF SpoolOk
    <2> QED
        BY <1>5, <2>6, <2>7, MoveKeeps DEF m
<1> QED
    BY <1>3, <1>4, <1>5 DEF Spool!Seek

LEMMA AdvanceKeeps ==
    ASSUME NEW s, SpoolOk(s), NEW written
    PROVE  /\ SpoolOk(Spool!Advance(s, written))
           /\ Buffered(Spool!Advance(s, written)) = Buffered(s)
BY MoveKeeps DEF Spool!Advance

\* A death fixes how much of the buffer is on disk.
LEMMA DiedKeeps ==
    ASSUME NEW s, SpoolOk(s), NEW n \in Spool!DeathPoints(s)
    PROVE  /\ SpoolOk(Spool!Died(s, n))
           /\ Len(Spool!Died(s, n).segs) = Len(s.segs)
           /\ \A k \in 1..Len(s.segs) :
                /\ Spool!Died(s, n).segs[k].recs = s.segs[k].recs
                /\ s.segs[k].disk <= Spool!Died(s, n).segs[k].disk
<1> DEFINE m == Len(s.segs)
           last == s.segs[m]
           d == Spool!Died(s, n)
<1>1. CASE ~s.open
    <2>1. d = s
        BY <1>1 DEF Spool!Died
    <2>2. \A k \in 1..m : s.segs[k].disk <= s.segs[k].disk
        <3>1. TAKE k \in 1..m
        <3>2. s.segs[k].disk \in 0..Len(s.segs[k].recs) /\ Len(s.segs[k].recs) \in Nat
            BY SegmentHas
        <3> QED
            BY <3>2
    <2> QED
        BY <2>1, <2>2
<1>2. CASE s.open
    <2>1. m \in 1..m /\ last \in Segments /\ DOMAIN s.segs = 1..m /\ m \in Nat
        BY <1>2, SegmentHas DEF SpoolOk
    <2>2. /\ n \in Nat /\ n <= Len(last.recs) /\ last.disk <= n
          /\ last.recs \in Seq(Records) /\ last.recs # <<>> /\ Len(last.recs) \in Nat
        <3>1. /\ last.disk \in 0..Len(last.recs) /\ Len(last.recs) \in Nat
              /\ last.recs \in Seq(Records) /\ last.recs # <<>>
            BY <2>1, SegmentHas
        <3>2. n \in last.disk..Len(last.recs)
            BY <1>2 DEF Spool!DeathPoints
        <3> HIDE DEF last
        <3> QED
            BY <3>1, <3>2
    <2> DEFINE l == [seq |-> last.seq, recs |-> last.recs, disk |-> n]
    <2>3. l \in Segments /\ l.recs = last.recs /\ l.disk = n
        BY <2>1, <2>2 DEF Segments
    <2>4. [last EXCEPT !.disk = n] = l
        <3> HIDE DEF last
        <3> QED
            BY <2>1 DEF Segments
    <2>5. d = [s EXCEPT !.segs = [s.segs EXCEPT ![m] = [last EXCEPT !.disk = n]]]
        BY <1>2, <2>1 DEF Spool!Died, SpoolOk
    <2> HIDE DEF l, d
    <2>6. d.segs = [s.segs EXCEPT ![m] = l] /\ d.open = TRUE
          /\ d \in [segs : {d.segs}, next : Nat, open : BOOLEAN,
                    read : {d.read}, cursor : {d.cursor}, dropped : {d.dropped}]
        BY <1>2, <2>4, <2>5 DEF SpoolOk
    <2>7. /\ d.segs \in Seq(Segments) /\ Len(d.segs) = m /\ DOMAIN d.segs = 1..m
          /\ d.segs[m] = l /\ \A k \in 1..m : k # m => d.segs[k] = s.segs[k]
        <3> DEFINE q == s.segs
        <3>1. q \in Seq(Segments) /\ Len(q) = m /\ m \in 1..Len(q) /\ DOMAIN q = 1..m
            BY <2>1, SegmentHas
        <3> HIDE DEF q, m
        <3>2. /\ [q EXCEPT ![m] = l] \in Seq(Segments) /\ Len([q EXCEPT ![m] = l]) = m
              /\ [q EXCEPT ![m] = l][m] = l
              /\ \A k \in 1..m : k # m => [q EXCEPT ![m] = l][k] = q[k]
            BY <2>3, <3>1
        <3>3. d.segs = [q EXCEPT ![m] = l]
            BY <2>6 DEF q
        <3> QED
            BY <2>1, <3>2, <3>3 DEF q
    <2>8. SegmentsOk(d)
        <3>1. l.recs # <<>> /\ l.disk <= Len(l.recs)
            BY <2>2, <2>3
        <3>2. ASSUME NEW k \in 1..m, k # m
              PROVE  /\ d.segs[k] = s.segs[k] /\ s.segs[k].recs # <<>>
                     /\ s.segs[k].disk <= Len(s.segs[k].recs)
                     /\ s.segs[k].disk = Len(s.segs[k].recs)
            <4>1. k < m
                BY <2>1, <3>2
            <4> QED
                BY <2>7, <3>2, <4>1, SegmentHas
        <3> QED
            BY <2>1, <2>6, <2>7, <3>1, <3>2 DEF SegmentsOk
    <2>9. SpoolOk(d)
        BY <2>1, <2>6, <2>7, <2>8 DEF SpoolOk
    <2>10. \A k \in 1..m : d.segs[k].recs = s.segs[k].recs /\ s.segs[k].disk <= d.segs[k].disk
        <3>1. TAKE k \in 1..m
        <3>2. s.segs[k].disk \in 0..Len(s.segs[k].recs) /\ Len(s.segs[k].recs) \in Nat
            BY SegmentHas
        <3>3. CASE k = m
            BY <2>2, <2>3, <2>7, <3>3
        <3>4. CASE k # m
            <4>1. d.segs[k] = s.segs[k]
                BY <2>7, <3>4
            <4> QED
                BY <3>2, <4>1
        <3> QED
            BY <3>3, <3>4
    <2> QED
        BY <2>7, <2>9, <2>10 DEF d
<1> QED
    BY <1>1, <1>2 DEF SpoolOk

\* What a new process finds: of each segment what had left the buffer, and no
\* segment of which nothing had.
FoundOf(s, found) ==
    /\ found \in Seq(Segments) /\ Len(found) \in Nat /\ Len(found) <= Len(s.segs)
    /\ DOMAIN found = 1..Len(found)
    /\ \A k \in 1..Len(found) :
         /\ k \in 1..Len(s.segs)
         /\ found[k] \in Segments /\ found[k].recs # <<>>
         /\ found[k].seq = s.segs[k].seq
         /\ found[k].disk = s.segs[k].disk /\ Len(found[k].recs) = s.segs[k].disk
         /\ \A j \in 1..s.segs[k].disk : found[k].recs[j] = s.segs[k].recs[j]
    /\ \A k \in 1..Len(s.segs) : s.segs[k].disk # 0 => k <= Len(found)

LEMMA FoundIs ==
    ASSUME NEW s, SpoolOk(s)
    PROVE  FoundOf(s, Spool!Found(Spool!OnDisk(s)))
<1> DEFINE n == Len(s.segs)
           whole == Spool!OnDisk(s)
           found == Spool!Found(whole)
<1>1. /\ n \in Nat /\ DOMAIN s.segs = 1..n
      /\ \A k \in 1..n : s.segs[k] \in Segments
    BY SegmentHas
<1>2. ASSUME NEW k \in 1..n
      PROVE  /\ whole[k] \in Segments /\ Len(whole[k].recs) = whole[k].disk
             /\ whole[k].disk = s.segs[k].disk /\ whole[k].seq = s.segs[k].seq
             /\ \A j \in 1..s.segs[k].disk : whole[k].recs[j] = s.segs[k].recs[j]
             /\ whole[k].recs = <<>> <=> s.segs[k].disk = 0
    <2> DEFINE g == s.segs[k]
               cut == SubSeq(g.recs, 1, g.disk)
    <2>1. /\ g \in Segments /\ g.recs \in Seq(Records) /\ Len(g.recs) \in Nat
          /\ g.disk \in 0..Len(g.recs)
        BY SegmentHas
    <2>2. whole[k] = [g EXCEPT !.recs = cut]
        BY <1>1 DEF Spool!OnDisk
    <2> HIDE DEF g, whole
    <2>3. /\ cut \in Seq(Records) /\ Len(cut) = g.disk
          /\ \A j \in 1..g.disk : cut[j] = g.recs[j]
        BY <2>1
    <2>4. cut = <<>> <=> g.disk = 0
        BY <2>1, <2>3
    <2> HIDE DEF cut
    <2>5. whole[k] = [seq |-> g.seq, recs |-> cut, disk |-> g.disk]
        BY <2>1, <2>2 DEF Segments
    <2>6. whole[k] \in Segments
        BY <2>1, <2>3, <2>5 DEF Segments
    <2> QED
        BY <2>3, <2>4, <2>5, <2>6 DEF g
<1>3. whole \in Seq(Segments) /\ Len(whole) = n /\ DOMAIN whole = 1..n
    <2>1. whole = [k \in 1..n |-> whole[k]]
        BY <1>1 DEF Spool!OnDisk
    <2> HIDE DEF whole
    <2>2. whole \in [1..n -> Segments]
        BY <1>2, <2>1
    <2> QED
        BY <1>1, <2>2
<1> HIDE DEF whole
<1>4. \A k \in 1..n : k < n \/ ~s.open => whole[k].recs # <<>>
    <2>1. TAKE k \in 1..n
    <2>2. /\ s.segs[k].recs \in Seq(Records) /\ s.segs[k].recs # <<>>
          /\ k < n \/ ~s.open => s.segs[k].disk = Len(s.segs[k].recs)
        BY SegmentHas
    <2>3. s.segs[k].recs \in Seq(Records) /\ s.segs[k].recs # <<>> => Len(s.segs[k].recs) # 0
        BY EmptySeq
    <2> QED
        BY <1>2, <2>2, <2>3
<1>5. /\ found \in Seq(Segments) /\ Len(found) \in Nat /\ Len(found) <= n
      /\ DOMAIN found = 1..Len(found)
      /\ \A k \in 1..Len(found) : found[k] = whole[k] /\ whole[k].recs # <<>>
      /\ \A k \in 1..n : whole[k].recs # <<>> => k <= Len(found)
    <2>1. CASE whole # <<>> /\ whole[n].recs = <<>>
        <3>1. found = SubSeq(whole, 1, n - 1) /\ n >= 1
            BY <1>3, <2>1 DEF Spool!Found, Spool!Front, Spool!Last
        <3> HIDE DEF found
        <3>2. /\ found \in Seq(Segments) /\ Len(found) = n - 1 /\ DOMAIN found = 1..n - 1
              /\ \A k \in 1..n - 1 : found[k] = whole[k]
            BY <1>1, <1>3, <3>1
        <3>3. \A k \in 1..n - 1 : k < n /\ k \in 1..n
            BY <1>1
        <3>4. \A k \in 1..n : k # n => k <= n - 1
            BY <1>1
        <3>5. \A k \in 1..n - 1 : whole[k].recs # <<>>
            BY <1>4, <3>3
        <3>6. Len(found) \in Nat /\ Len(found) <= n /\ n - 1 = Len(found)
            BY <1>1, <3>1, <3>2
        <3>7. \A k \in 1..n : whole[k].recs # <<>> => k <= Len(found)
            BY <2>1, <3>4, <3>6
        <3> QED
            BY <3>2, <3>5, <3>6, <3>7
    <2>2. CASE ~(whole # <<>> /\ whole[n].recs = <<>>)
        <3>1. found = whole
            BY <1>3, <2>2 DEF Spool!Found, Spool!Last
        <3>2. \A k \in 1..n : whole[k].recs # <<>>
            <4>1. TAKE k \in 1..n
            <4>2. whole # <<>>
                BY <1>1, <1>3
            <4>3. k < n \/ k = n
                BY <1>1
            <4> QED
                BY <1>4, <2>2, <4>2, <4>3
        <3> HIDE DEF found
        <3> QED
            BY <1>1, <1>3, <3>1, <3>2
    <2> QED
        BY <2>1, <2>2
<1> HIDE DEF found
<1>6. \A k \in 1..Len(found) : k \in 1..n
    BY <1>1, <1>5
<1>7. FoundOf(s, found)
    BY <1>2, <1>5, <1>6 DEF FoundOf
<1> QED
    BY <1>7 DEF found, whole

\* What a new process makes of it.
RecoveredTo(s, r) ==
    /\ FoundOf(s, r.segs) /\ r.open = FALSE /\ r.cursor = s.cursor /\ r.dropped = 0
    /\ r.next = IF r.segs = <<>> THEN 1 ELSE r.segs[Len(r.segs)].seq + 1
    /\ r.read = IF s.cursor[1] < Spool!OldestSeq(r.segs, r.next)
                THEN <<Spool!OldestSeq(r.segs, r.next), 0>> ELSE s.cursor
    /\ r \in [segs : Seq(Segments), next : Nat, open : BOOLEAN,
              read : {r.read}, cursor : {r.cursor}, dropped : {r.dropped}]

LEMMA RecoverShape ==
    ASSUME NEW s, SpoolOk(s)
    PROVE  RecoveredTo(s, Spool!Recover(s))
<1> DEFINE found == Spool!Found(Spool!OnDisk(s))
           next == IF found = <<>> THEN 1 ELSE found[Len(found)].seq + 1
           r == Spool!Recover(s)
<1>1. FoundOf(s, found)
    BY FoundIs
<1>2. r = [segs |-> found, next |-> next, open |-> FALSE, cursor |-> s.cursor, dropped |-> 0,
           read |-> IF s.cursor[1] < Spool!OldestSeq(found, next)
                    THEN <<Spool!OldestSeq(found, next), 0>> ELSE s.cursor]
    BY DEF Spool!Recover, Spool!NextSeq
<1> HIDE DEF found, r
<1>3. next \in Nat /\ found \in Seq(Segments)
    <2>1. found \in Seq(Segments) /\ (found # <<>> => Len(found) \in 1..Len(found))
        BY <1>1 DEF FoundOf
    <2>2. found # <<>> => found[Len(found)] \in Segments
        BY <1>1, <2>1 DEF FoundOf
    <2> QED
        BY <2>1, <2>2 DEF Segments
<1>4. r.segs = found /\ r.next = next
    BY <1>2
<1>5. /\ r.open = FALSE /\ r.cursor = s.cursor /\ r.dropped = 0
      /\ r.read = IF s.cursor[1] < Spool!OldestSeq(found, next)
                  THEN <<Spool!OldestSeq(found, next), 0>> ELSE s.cursor
    BY <1>2
<1>6. r \in [segs : Seq(Segments), next : Nat, open : BOOLEAN,
             read : {r.read}, cursor : {r.cursor}, dropped : {r.dropped}]
    <2> HIDE DEF next
    <2> QED
        BY <1>2, <1>3
<1>7. RecoveredTo(s, r)
    BY <1>1, <1>4, <1>5, <1>6 DEF RecoveredTo
<1> QED
    BY <1>7 DEF r

\* A new process finds every record that had left the buffer, and has nothing
\* in a buffer of its own.
LEMMA RecoverKeeps ==
    ASSUME NEW s, SpoolOk(s)
    PROVE  /\ SpoolOk(Spool!Recover(s)) /\ Buffered(Spool!Recover(s)) = {}
           /\ \A k \in 1..Len(s.segs) : \A j \in 1..s.segs[k].disk :
                s.segs[k].recs[j] \in Spool!Written(Spool!Recover(s))
<1> DEFINE n == Len(s.segs)
           r == Spool!Recover(s)
<1>1. RecoveredTo(s, r) /\ FoundOf(s, r.segs)
    BY RecoverShape DEF RecoveredTo
<1>2. ASSUME NEW k \in 1..n
      PROVE  s.segs[k] \in Segments
    BY SegmentHas
<1> HIDE DEF r
<1>3. SegmentsOk(r)
    <2>1. ASSUME NEW k \in 1..Len(r.segs)
          PROVE  /\ r.segs[k].recs # <<>> /\ r.segs[k].disk = Len(r.segs[k].recs)
                 /\ r.segs[k].disk \in Nat
        BY <1>1 DEF FoundOf, Segments
    <2> QED
        BY <1>1, <2>1 DEF SegmentsOk, FoundOf
<1>4. SpoolOk(r) /\ Buffered(r) = {}
    BY <1>1, <1>3 DEF RecoveredTo, SpoolOk, Buffered
<1>5. ASSUME NEW k \in 1..n, NEW j \in 1..s.segs[k].disk
      PROVE  s.segs[k].recs[j] \in Spool!Written(r)
    <2>1. /\ s.segs[k].disk \in Nat /\ s.segs[k].disk # 0
        BY <1>2, <1>5 DEF Segments
    <2>2. k \in 1..Len(r.segs) /\ k \in DOMAIN r.segs
        BY <1>1, <2>1 DEF FoundOf
    <2>3. /\ r.segs[k].recs \in Seq(Records) /\ j \in 1..Len(r.segs[k].recs)
          /\ r.segs[k].recs[j] = s.segs[k].recs[j]
        BY <1>1, <2>2 DEF FoundOf, Segments
    <2>4. r.segs[k].recs[j] \in Spool!ToSet(r.segs[k].recs)
        BY <2>3 DEF Spool!ToSet
    <2> QED
        BY <2>2, <2>3, <2>4 DEF Spool!Written
<1> QED
    BY <1>4, <1>5 DEF r

\* A death takes of the spool no more than was in the buffer.
LEMMA DeathLoses ==
    ASSUME NEW s, SpoolOk(s), NEW n \in Spool!DeathPoints(s)
    PROVE  Ids(Spool!Written(s)) \ Ids(Spool!Written(Spool!Recover(Spool!Died(s, n))))
               \subseteq Buffered(s)
<1> DEFINE d == Spool!Died(s, n)
           kept == Spool!Written(Spool!Recover(d))
<1>1. /\ SpoolOk(d) /\ Len(d.segs) = Len(s.segs)
      /\ \A k \in 1..Len(s.segs) : /\ d.segs[k].recs = s.segs[k].recs
                                   /\ s.segs[k].disk <= d.segs[k].disk
    BY DiedKeeps
<1>2. \A k \in 1..Len(d.segs) : \A j \in 1..d.segs[k].disk : d.segs[k].recs[j] \in kept
    BY <1>1, RecoverKeeps
<1>3. \A k \in 1..Len(d.segs) : d.segs[k].disk \in 0..Len(d.segs[k].recs) /\ Len(d.segs[k].recs) \in Nat
    BY <1>1, SegmentHas
<1> HIDE DEF d, kept
<1>4. ASSUME NEW id \in Ids(Spool!Written(s)), id \notin Ids(kept)
      PROVE  id \in Buffered(s)
    <2>1. PICK r \in Spool!Written(s) : r.id = id /\ id # 0
        BY <1>4 DEF Ids
    <2>2. PICK k \in 1..Len(s.segs) : r \in Spool!ToSet(s.segs[k].recs)
        BY <2>1, SegmentHas DEF Spool!Written
    <2>3. /\ s.segs[k].recs \in Seq(Records) /\ Len(s.segs[k].recs) \in Nat
          /\ s.segs[k].disk \in 0..Len(s.segs[k].recs)
          /\ k < Len(s.segs) \/ ~s.open => s.segs[k].disk = Len(s.segs[k].recs)
        BY SegmentHas
    <2>4. PICK j \in 1..Len(s.segs[k].recs) : s.segs[k].recs[j] = r
        BY <2>2, <2>3 DEF Spool!ToSet
    <2>5. r \in Records /\ id \in Nat \ {0}
        <3>1. \A q \in Seq(Records) : \A i \in 1..Len(q) : q[i] \in Records
            OBVIOUS
        <3>2. r \in Records
            BY <2>3, <2>4, <3>1
        <3> QED
            BY <2>1, <3>2 DEF Records
    <2>6. r \notin kept
        BY <1>4, <2>1 DEF Ids
    <2>7. d.segs[k].recs[j] = r /\ s.segs[k].disk <= d.segs[k].disk /\ d.segs[k].disk \in Nat
        BY <1>1, <1>3, <2>4
    <2>8. j > s.segs[k].disk
        <3>1. j \in 1..d.segs[k].disk => r \in kept
            BY <1>1, <1>2, <2>7
        <3> QED
            BY <2>3, <2>6, <2>7, <3>1
    <2>9. k = Len(s.segs) /\ s.open
        BY <2>3, <2>8, SegmentHas
    <2> QED
        BY <2>1, <2>3, <2>4, <2>5, <2>8, <2>9 DEF Buffered
<1> QED
    BY <1>4 DEF d, kept

----------------------------------------------------------------------------
(* The sink.                                                               *)

\* The numbers in a row of records.
LEMMA IdsOfRow ==
    ASSUME NEW q \in Seq(Records), NEW r \in Records
    PROVE  /\ Append(q, r) \in Seq(Records)
           /\ Ids(ToSet(Append(q, r))) \subseteq Ids(ToSet(q)) \cup {r.id}
           /\ q # <<>> => /\ Head(q) \in Records /\ Tail(q) \in Seq(Records)
                          /\ {Head(q).id} \ {0} \subseteq Ids(ToSet(q))
                          /\ Ids(ToSet(Tail(q))) \subseteq Ids(ToSet(q))
<1>1. Append(q, r) \in Seq(Records)
    OBVIOUS
<1>2. ToSet(Append(q, r)) \subseteq ToSet(q) \cup {r}
    BY DEF ToSet
<1>3. ASSUME q # <<>>
      PROVE  /\ Head(q) \in Records /\ Tail(q) \in Seq(Records)
             /\ Head(q) \in ToSet(q) /\ ToSet(Tail(q)) \subseteq ToSet(q)
    <2>1. Head(q) = q[1] /\ 1 \in DOMAIN q /\ Tail(q) \in Seq(Records) /\ q[1] \in Records
        BY <1>3
    <2>2. \A j \in DOMAIN Tail(q) : j + 1 \in DOMAIN q /\ Tail(q)[j] = q[j + 1]
        BY <1>3
    <2> QED
        BY <2>1, <2>2 DEF ToSet
<1> QED
    BY <1>1, <1>2, <1>3 DEF Ids

LEMMA NoIds ==
    Ids(ToSet(<<>>)) = {} /\ <<>> \in Seq(Records)
BY DEF Ids, ToSet

\* The last conjuncts say nothing but that the fields are there.
TypesOk ==
    /\ queue \in [items : Seq(Records), inFlight : BOOLEAN,
                  dropped : {queue.dropped}, closed : {queue.closed}]
    /\ worker \in [pc : {worker.pc}, batch : Seq(Records), took : BOOLEAN,
                   closed : {worker.closed}, sent : {worker.sent},
                   told : {worker.told}]
    /\ caller \in [pc : {caller.pc}, asked : {caller.asked}]
    /\ seen \in [accepted : Nat, sent : {seen.sent}, promised : {seen.promised},
                 lost : {seen.lost}, refused : {seen.refused},
                 unwritten : {seen.unwritten}, before : {seen.before}]

\* A flush waits for what was accepted before it and is not lost already.
FlushOfTheAccepted ==
    /\ seen.promised \subseteq Accepted
    /\ caller.asked \subseteq Accepted \ seen.lost

\* Between two batches the worker holds nothing in memory but what a flush
\* was refused; the writing of a batch shows in the queue.
HandOk ==
    caller.pc # "off" =>
        IF worker.pc = "append" /\ worker.took THEN queue.inFlight
        ELSE /\ worker.batch = <<>> /\ Buffered(sp) \subseteq seen.unwritten
             /\ worker.pc = "gone" => Buffered(sp) = {}

InDanger == InQueue \cup InBatch \cup Buffered(sp)

PromisedIsSafe ==
    caller.pc # "off" => seen.promised \cap InDanger \subseteq seen.unwritten

IInv ==
    /\ TypesOk /\ SpoolOk(sp)
    /\ FlushOfTheAccepted
    /\ HandOk
    /\ PromisedIsSafe
    /\ PromisedSurvives

\* A step that accepts, promises and loses nothing and brings nothing into
\* danger.
LEMMA QuietStepKeeps ==
    ASSUME IInv, UNCHANGED caller, TypesOk', SpoolOk(sp'), HandOk',
           seen'.accepted = seen.accepted, seen'.promised = seen.promised,
           seen'.lost = seen.lost, InDanger' \subseteq InDanger,
           seen.unwritten \subseteq seen'.unwritten
    PROVE  IInv'
BY DEF IInv, FlushOfTheAccepted, PromisedIsSafe, PromisedSurvives, Accepted

LEMMA InitIsOk ==
    ASSUME Init
    PROVE  IInv
<1>1. TypesOk
    BY NoIds DEF Init, TypesOk, NewQueue, NewWorker, NewSeen
<1>2. /\ sp.segs = <<>> /\ sp.open = FALSE
      /\ sp \in [segs : Seq(Segments), next : Nat, open : BOOLEAN,
                 read : {sp.read}, cursor : {sp.cursor}, dropped : {sp.dropped}]
    <2>1. <<>> \in Seq(Segments)
        OBVIOUS
    <2> QED
        BY <2>1 DEF Init, Spool!Fresh
<1>3. SpoolOk(sp) /\ Buffered(sp) = {}
    BY <1>2 DEF SpoolOk, SegmentsOk, Buffered
<1> QED
    BY <1>1, <1>3, NoIds DEF IInv, Init, NewQueue, NewWorker, NewSeen, FlushOfTheAccepted,
       HandOk, PromisedIsSafe, PromisedSurvives, InDanger, InQueue, InBatch

LEMMA SubmitKeeps ==
    ASSUME IInv, Submit
    PROVE  IInv'
<1> DEFINE new == seen.accepted + 1
           old == IF QueueFull THEN Tail(queue.items) ELSE queue.items
<1>1. /\ TypesOk /\ queue.items \in Seq(Records) /\ seen.accepted \in Nat
      /\ UNCHANGED <<sp, worker, caller>>
    BY DEF IInv, TypesOk, Submit
<1>2. Rec(new) \in Records /\ Rec(new).id = new
    BY <1>1 DEF Records, Rec
<1>3. old \in Seq(Records) /\ Ids(ToSet(old)) \subseteq InQueue
    <2>1. QueueFull => queue.items # <<>>
        BY <1>1, SinkAssumption DEF QueueFull
    <2> QED
        BY <1>1, <1>2, <2>1, IdsOfRow DEF InQueue
<1>4. Append(old, Rec(new)) \in Seq(Records) /\ Ids(ToSet(Append(old, Rec(new)))) \subseteq InQueue \cup {new}
    BY <1>2, <1>3, IdsOfRow
<1>5. /\ queue'.items = Append(old, Rec(new)) /\ queue'.inFlight = queue.inFlight
      /\ queue' \in [items : {queue'.items}, inFlight : BOOLEAN,
                     dropped : {queue'.dropped}, closed : {queue'.closed}]
    BY <1>1 DEF Submit, Push, TypesOk
<1>6. /\ seen'.accepted = new /\ seen'.promised = seen.promised /\ seen'.lost = seen.lost
      /\ seen'.unwritten = seen.unwritten
      /\ seen' \in [accepted : {seen'.accepted}, sent : {seen'.sent}, promised : {seen'.promised},
                    lost : {seen'.lost}, refused : {seen'.refused},
                    unwritten : {seen'.unwritten}, before : {seen'.before}]
    BY <1>1 DEF Submit, Push, TypesOk
<1> HIDE DEF old
<1>7. TypesOk' /\ HandOk'
    <2>1. new \in Nat
        BY <1>1
    <2> HIDE DEF new
    <2>2. TypesOk'
        BY <1>1, <1>4, <1>5, <1>6, <2>1 DEF TypesOk
    <2>3. HandOk'
        BY <1>1, <1>5, <1>6 DEF IInv, HandOk, Buffered
    <2> QED
        BY <2>2, <2>3
<1>8. InDanger' \subseteq InDanger \cup {new}
    BY <1>1, <1>4, <1>5 DEF InDanger, InQueue, InBatch, Buffered
<1>9. new \notin seen.promised /\ Accepted \subseteq 1..new
    BY <1>1 DEF IInv, FlushOfTheAccepted, Accepted
<1> QED
    BY <1>1, <1>6, <1>7, <1>8, <1>9
    DEF IInv, FlushOfTheAccepted, PromisedIsSafe, PromisedSurvives, Accepted

LEMMA FlushBeginKeeps ==
    ASSUME IInv, FlushBegin
    PROVE  IInv'
BY DEF IInv, FlushBegin, TypesOk, FlushOfTheAccepted, HandOk, PromisedIsSafe, PromisedSurvives,
       Accepted, InDanger, InQueue, InBatch, Buffered

\* What the flush was for has left the queue and the batch, and the buffer
\* unless that was refused.
LEMMA FlushOkKeeps ==
    ASSUME IInv, FlushOk
    PROVE  IInv'
<1>1. UNCHANGED <<queue, sp, worker>> /\ caller.pc = "flushing" /\ caller' = [pc |-> "idle", asked |-> {}]
    BY DEF FlushOk
<1>2. InDanger \subseteq seen.unwritten /\ InDanger' = InDanger
    <2>1. worker.batch = <<>> /\ Buffered(sp) \subseteq seen.unwritten
        BY <1>1 DEF IInv, HandOk, FlushOk, Drained
    <2> QED
        BY <1>1, <2>1, NoIds DEF FlushOk, Drained, InDanger, InQueue, InBatch, Buffered
<1>3. /\ seen'.accepted = seen.accepted /\ seen'.lost = seen.lost
      /\ seen'.unwritten = seen.unwritten
      /\ seen'.promised = seen.promised \cup caller.asked
      /\ seen' \in [accepted : Nat, sent : {seen'.sent}, promised : {seen'.promised},
                    lost : {seen'.lost}, refused : {seen'.refused},
                    unwritten : {seen'.unwritten}, before : {seen'.before}]
    BY DEF FlushOk, IInv, TypesOk
<1>4. TypesOk' /\ HandOk' /\ SpoolOk(sp')
    BY <1>1, <1>3 DEF IInv, TypesOk, HandOk, Buffered
<1>5. FlushOfTheAccepted' /\ PromisedSurvives' /\ PromisedIsSafe'
    BY <1>1, <1>2, <1>3 DEF IInv, FlushOfTheAccepted, PromisedSurvives, PromisedIsSafe, Accepted
<1> QED
    BY <1>4, <1>5 DEF IInv

LEMMA FlushTimeoutKeeps ==
    ASSUME IInv, FlushTimeout
    PROVE  IInv'
BY DEF IInv, FlushTimeout, TypesOk, FlushOfTheAccepted, HandOk, PromisedIsSafe, PromisedSurvives,
       Accepted, InDanger, InQueue, InBatch, Buffered

LEMMA CloseKeeps ==
    ASSUME IInv, Close
    PROVE  IInv'
<1>1. /\ UNCHANGED <<sp, worker, seen>> /\ caller.pc = "idle" /\ caller' = [pc |-> "closing", asked |-> {}]
      /\ queue'.items = queue.items /\ queue'.inFlight = queue.inFlight
      /\ TypesOk'
    BY DEF IInv, Close, TypesOk
<1> QED
    BY <1>1 DEF IInv, FlushOfTheAccepted, HandOk, PromisedIsSafe, PromisedSurvives,
       Accepted, InDanger, InQueue, InBatch, Buffered

LEMMA JoinedKeeps ==
    ASSUME IInv, Joined
    PROVE  IInv'
<1>1. /\ UNCHANGED <<queue, sp, worker>>
      /\ caller'.pc = "off" /\ caller'.asked = caller.asked /\ TypesOk'
      /\ seen'.accepted = seen.accepted /\ seen'.promised = seen.promised
      /\ seen'.lost = seen.lost /\ seen'.unwritten = seen.unwritten
    BY DEF IInv, Joined, TypesOk
<1> QED
    BY <1>1 DEF IInv, FlushOfTheAccepted, HandOk, PromisedIsSafe, PromisedSurvives, Accepted

----------------------------------------------------------------------------
(* The worker.                                                             *)

LEMMA DrainKeeps ==
    ASSUME IInv, Drain
    PROVE  IInv'
<1>1. /\ worker.pc = "drain" /\ UNCHANGED <<sp, caller, seen>>
      /\ queue'.items = <<>> /\ queue'.inFlight = (queue.items # <<>>)
      /\ worker'.pc = "append" /\ worker'.batch = queue.items /\ worker'.took = (queue.items # <<>>)
      /\ TypesOk'
    BY NoIds DEF IInv, Drain, TypesOk
<1>2. HandOk'
    BY <1>1 DEF IInv, HandOk, Buffered
<1>3. InDanger' \subseteq InDanger
    BY <1>1, NoIds DEF InDanger, InQueue, InBatch, Buffered
<1> QED
    BY <1>1, <1>2, <1>3, QuietStepKeeps DEF IInv

\* Appending brings r, and nothing else, into the buffer.
LEMMA AppendToKeeps ==
    ASSUME IInv, NEW r \in Records, AppendTo(r)
    PROVE  /\ SpoolOk(sp') /\ Buffered(sp') \subseteq Buffered(sp) \cup ({r.id} \ {0})
           /\ seen'.accepted = seen.accepted /\ seen'.promised = seen.promised
           /\ seen'.lost = seen.lost /\ seen'.unwritten = seen.unwritten
           /\ seen' \in [accepted : Nat, sent : {seen'.sent}, promised : {seen'.promised},
                         lost : {seen'.lost}, refused : {seen'.refused},
                         unwritten : {seen'.unwritten}, before : {seen'.before}]
<1>1. CASE Spool!Refuses(sp, r, cfg.spool)
    BY <1>1 DEF IInv, AppendTo, TypesOk
<1>2. CASE ~Spool!Refuses(sp, r, cfg.spool)
    <2>1. PICK written \in BOOLEAN :
            /\ sp' = Spool!SpoolAppend(sp, r, written)
            /\ UNCHANGED seen
        BY <1>2 DEF AppendTo
    <2> QED
        BY <2>1, SpoolAppendKeeps DEF IInv, TypesOk
<1> QED
    BY <1>1, <1>2

LEMMA LossIsRecord ==
    Loss \in Records /\ {Loss.id} \ {0} = {}
BY DEF Loss, Records

LEMMA AppendOneKeeps ==
    ASSUME IInv, AppendOne
    PROVE  IInv'
<1>1. /\ worker.pc = "append" /\ worker.batch # <<>> /\ worker.batch \in Seq(Records)
      /\ AppendTo(Head(worker.batch)) /\ UNCHANGED <<queue, caller>>
    BY DEF AppendOne, IInv, TypesOk
<1>2. /\ Head(worker.batch) \in Records /\ Tail(worker.batch) \in Seq(Records)
      /\ {Head(worker.batch).id} \ {0} \subseteq InBatch
      /\ Ids(ToSet(Tail(worker.batch))) \subseteq InBatch
    BY <1>1, IdsOfRow, LossIsRecord DEF InBatch
<1>3. /\ worker'.pc = "append" /\ worker'.batch = Tail(worker.batch) /\ worker'.took = worker.took
      /\ worker' \in [pc : {worker'.pc}, batch : Seq(Records), took : BOOLEAN,
                      closed : {worker'.closed}, sent : {worker'.sent},
                      told : {worker'.told}]
    BY <1>2 DEF AppendOne, IInv, TypesOk
<1>4. /\ SpoolOk(sp') /\ Buffered(sp') \subseteq Buffered(sp) \cup InBatch
      /\ seen'.accepted = seen.accepted /\ seen'.promised = seen.promised
      /\ seen'.lost = seen.lost /\ seen'.unwritten = seen.unwritten
      /\ seen' \in [accepted : Nat, sent : {seen'.sent}, promised : {seen'.promised},
                    lost : {seen'.lost}, refused : {seen'.refused},
                    unwritten : {seen'.unwritten}, before : {seen'.before}]
    BY <1>1, <1>2, AppendToKeeps
<1>5. TypesOk'
    BY <1>1, <1>3, <1>4 DEF IInv, TypesOk
<1>6. HandOk'
    BY <1>1, <1>3, <1>4 DEF IInv, HandOk
<1>7. InDanger' \subseteq InDanger
    <2>1. InQueue' = InQueue /\ InBatch' \subseteq InBatch
        BY <1>1, <1>2, <1>3 DEF InQueue, InBatch
    <2>2. Buffered(sp)' = Buffered(sp')
        BY DEF Buffered
    <2> QED
        BY <1>4, <2>1, <2>2 DEF InDanger
<1> QED
    BY <1>1, <1>4, <1>5, <1>6, <1>7, QuietStepKeeps

LEMMA FlushBatchKeeps ==
    ASSUME IInv, FlushBatch
    PROVE  IInv'
<1>1. /\ worker.pc = "append" /\ worker.batch = <<>> /\ UNCHANGED <<queue, caller, seen>>
      /\ sp' = IF worker.took THEN Spool!Flush(sp) ELSE sp
      /\ worker'.pc = "mark" /\ worker'.batch = <<>>
      /\ TypesOk'
    BY DEF FlushBatch, IInv, TypesOk
<1>2. /\ SpoolOk(sp') /\ Buffered(sp') \subseteq Buffered(sp)
      /\ caller.pc # "off" => Buffered(sp') \subseteq seen.unwritten
    BY <1>1, FlushKeeps DEF IInv, HandOk
<1>3. HandOk' /\ InDanger' \subseteq InDanger
    <2>1. Buffered(sp)' = Buffered(sp')
        BY DEF Buffered
    <2> QED
        BY <1>1, <1>2, <2>1 DEF HandOk, InDanger, InQueue, InBatch
<1> QED
    BY <1>1, <1>2, <1>3, QuietStepKeeps

\* What the writer has not passed on, by record and by number.
LEMMA BufferHas ==
    ASSUME NEW s
    PROVE  Buffered(s) \subseteq Ids(Spool!Buffer(s))
BY DEF Buffered, Spool!Buffer, Ids

LEMMA FlushRefusedKeeps ==
    ASSUME IInv, FlushRefused
    PROVE  IInv'
<1>1. /\ worker.pc = "append" /\ worker.batch = <<>> /\ UNCHANGED <<queue, sp, caller>>
      /\ seen' = [seen EXCEPT !.unwritten = @ \cup Ids(Spool!Buffer(sp))]
      /\ worker' = [worker EXCEPT !.pc = "mark"]
    BY DEF FlushRefused
<1>2. /\ worker'.pc = "mark" /\ worker'.batch = <<>>
      /\ seen'.accepted = seen.accepted /\ seen'.promised = seen.promised
      /\ seen'.lost = seen.lost /\ seen'.unwritten = seen.unwritten \cup Ids(Spool!Buffer(sp))
      /\ TypesOk'
    BY <1>1 DEF IInv, TypesOk
<1>3. Buffered(sp') \subseteq seen'.unwritten
    BY <1>1, <1>2, BufferHas
<1>4. HandOk' /\ InDanger' \subseteq InDanger
    <2>1. Buffered(sp)' = Buffered(sp')
        BY DEF Buffered
    <2> QED
        BY <1>1, <1>2, <1>3, <2>1 DEF HandOk, InDanger, InQueue, InBatch
<1> QED
    BY <1>1, <1>2, <1>4, QuietStepKeeps DEF IInv

LEMMA MarkDrainedKeeps ==
    ASSUME IInv, MarkDrained
    PROVE  IInv'
<1>1. /\ worker.pc = "mark" /\ UNCHANGED <<sp, caller, seen>>
      /\ worker'.pc = "queueLoss" /\ worker'.batch = worker.batch
      /\ queue'.items = queue.items
      /\ TypesOk'
    BY DEF MarkDrained, IInv, TypesOk
<1>2. HandOk' /\ InDanger' \subseteq InDanger
    BY <1>1 DEF IInv, HandOk, InDanger, InQueue, InBatch, Buffered
<1> QED
    BY <1>1, <1>2, QuietStepKeeps DEF IInv

\* The other steps of the worker are taken with an empty hand and write
\* nothing but its own record.
LEMMA EmptyHandKeeps ==
    ASSUME IInv, UNCHANGED caller, TypesOk', SpoolOk(sp'),
           worker.pc \notin {"append", "mark"}, worker'.pc # "append",
           worker'.batch = worker.batch, queue'.items = queue.items,
           Buffered(sp') \subseteq Buffered(sp),
           seen'.accepted = seen.accepted, seen'.promised = seen.promised,
           seen'.lost = seen.lost, seen'.unwritten = seen.unwritten,
           worker'.pc = "gone" => Buffered(sp') = {} \/ worker.pc = "gone"
    PROVE  IInv'
<1>1. Buffered(sp)' = Buffered(sp')
    BY DEF Buffered
<1>2. HandOk'
    BY <1>1 DEF IInv, HandOk
<1>3. InDanger' \subseteq InDanger
    BY <1>1 DEF InDanger, InQueue, InBatch
<1> QED
    BY <1>2, <1>3, QuietStepKeeps

LEMMA QueueLossKeeps ==
    ASSUME IInv, QueueLoss
    PROVE  IInv'
<1>1. /\ worker.pc = "queueLoss" /\ UNCHANGED caller
      /\ worker'.pc = "spoolLoss" /\ worker'.batch = worker.batch
      /\ worker' \in [pc : {worker'.pc}, batch : Seq(Records), took : BOOLEAN,
                      closed : {worker'.closed}, sent : {worker'.sent},
                      told : {worker'.told}]
      /\ queue'.items = queue.items
      /\ queue' \in [items : Seq(Records), inFlight : BOOLEAN,
                     dropped : {queue'.dropped}, closed : {queue'.closed}]
    BY DEF QueueLoss, IInv, TypesOk
<1>2. /\ SpoolOk(sp') /\ Buffered(sp') \subseteq Buffered(sp)
      /\ seen'.accepted = seen.accepted /\ seen'.promised = seen.promised
      /\ seen'.lost = seen.lost /\ seen'.unwritten = seen.unwritten
      /\ seen' \in [accepted : Nat, sent : {seen'.sent}, promised : {seen'.promised},
                    lost : {seen'.lost}, refused : {seen'.refused},
                    unwritten : {seen'.unwritten}, before : {seen'.before}]
    <2>1. CASE UNCHANGED <<sp, life, seen>>
        BY <2>1 DEF IInv, TypesOk
    <2>2. CASE AppendTo(Loss)
        BY <2>2, LossIsRecord, AppendToKeeps
    <2> QED
        BY <2>1, <2>2 DEF QueueLoss
<1>3. TypesOk'
    BY <1>1, <1>2 DEF IInv, TypesOk
<1> QED
    BY <1>1, <1>2, <1>3, EmptyHandKeeps

\* Taking the count touches nothing but the count.
LEMMA CountTaken ==
    ASSUME NEW s, SpoolOk(s)
    PROVE  SpoolOk([s EXCEPT !.dropped = 0]) /\ Buffered([s EXCEPT !.dropped = 0]) = Buffered(s)
<1> DEFINE t == [s EXCEPT !.dropped = 0]
<1>1. /\ t.segs = s.segs /\ t.open = s.open
      /\ t \in [segs : Seq(Segments), next : Nat, open : BOOLEAN,
                read : {t.read}, cursor : {t.cursor}, dropped : {t.dropped}]
    BY DEF SpoolOk
<1> HIDE DEF t
<1>2. SegmentsOk(t) /\ Buffered(t) = Buffered(s)
    BY <1>1 DEF SpoolOk, SegmentsOk, Buffered
<1>3. SpoolOk(t)
    BY <1>1, <1>2 DEF SpoolOk
<1> QED
    BY <1>2, <1>3 DEF t

LEMMA SpoolLossKeeps ==
    ASSUME IInv, SpoolLoss
    PROVE  IInv'
<1> DEFINE taken == [sp EXCEPT !.dropped = 0]
<1>1. /\ worker.pc = "spoolLoss" /\ UNCHANGED <<queue, caller>>
      /\ worker'.pc = "send" /\ worker'.batch = worker.batch
      /\ worker' \in [pc : {worker'.pc}, batch : Seq(Records), took : BOOLEAN,
                      closed : {worker'.closed}, sent : {worker'.sent},
                      told : {worker'.told}]
    BY DEF SpoolLoss, IInv, TypesOk
<1>2. SpoolOk(taken) /\ Buffered(taken) = Buffered(sp)
    BY CountTaken DEF IInv
<1>3. /\ SpoolOk(sp') /\ Buffered(sp') \subseteq Buffered(sp)
      /\ seen'.accepted = seen.accepted /\ seen'.promised = seen.promised
      /\ seen'.lost = seen.lost /\ seen'.unwritten = seen.unwritten
      /\ seen' \in [accepted : Nat, sent : {seen'.sent}, promised : {seen'.promised},
                    lost : {seen'.lost}, refused : {seen'.refused},
                    unwritten : {seen'.unwritten}, before : {seen'.before}]
    <2>1. CASE UNCHANGED <<sp, life, seen>>
        BY <2>1 DEF IInv, TypesOk
    <2>2. CASE sp' = taken /\ UNCHANGED <<life, seen>>
        BY <1>2, <2>2 DEF IInv, TypesOk
    <2>3. CASE \E written \in BOOLEAN :
                 /\ sp' = Spool!SpoolAppend(taken, Loss, written)
                 /\ UNCHANGED seen
        <3>1. PICK written \in BOOLEAN : sp' = Spool!SpoolAppend(taken, Loss, written)
            BY <2>3
        <3>2. SpoolOk(sp') /\ Buffered(sp') \subseteq Buffered(sp)
            <4> HIDE DEF taken
            <4> QED
                BY <1>2, <3>1, LossIsRecord, SpoolAppendKeeps
        <3> QED
            BY <2>3, <3>2 DEF IInv, TypesOk
    <2> QED
        BY <2>1, <2>2, <2>3 DEF SpoolLoss
<1>4. TypesOk'
    BY <1>1, <1>3 DEF IInv, TypesOk
<1> QED
    BY <1>1, <1>3, <1>4, EmptyHandKeeps

LEMMA PauseKeeps ==
    ASSUME IInv, Pause
    PROVE  IInv'
<1>1. /\ worker.pc = "send" /\ UNCHANGED <<queue, sp, caller, seen>>
      /\ worker'.pc = "turn" /\ worker'.batch = worker.batch /\ TypesOk'
    BY DEF Pause, IInv, TypesOk
<1> QED
    BY <1>1, EmptyHandKeeps DEF IInv

\* What peek leaves behind it.
LEMMA PeekKeeps ==
    ASSUME IInv, NEW written
    PROVE  /\ SpoolOk(Spool!Seek(Spool!Flush(sp), written))
           /\ Buffered(Spool!Seek(Spool!Flush(sp), written)) = {}
BY FlushKeeps, SeekKeeps DEF IInv

LEMMA PeekEndsKeeps ==
    ASSUME IInv, PeekEnds
    PROVE  IInv'
<1>1. /\ worker.pc = "send" /\ UNCHANGED <<queue, caller, seen>>
      /\ worker'.pc = "turn" /\ worker'.batch = worker.batch /\ TypesOk'
    BY DEF PeekEnds, Sending, IInv, TypesOk
<1>2. SpoolOk(sp') /\ Buffered(sp') = {}
    BY PeekKeeps DEF PeekEnds
<1> QED
    BY <1>1, <1>2, EmptyHandKeeps

LEMMA SendOkKeeps ==
    ASSUME IInv, SendOk
    PROVE  IInv'
<1>1. /\ worker.pc = "send" /\ UNCHANGED <<queue, caller>>
      /\ worker'.pc \in {"send", "turn"} /\ worker'.batch = worker.batch
      /\ worker' \in [pc : {worker'.pc}, batch : Seq(Records), took : BOOLEAN,
                      closed : {worker'.closed}, sent : {worker'.sent},
                      told : {worker'.told}]
    <2>1. worker.pc = "send" /\ UNCHANGED <<queue, caller>>
          /\ \/ worker' = [worker EXCEPT !.sent = @ + 1]
             \/ worker' = [worker EXCEPT !.pc = "turn"]
        BY DEF SendOk, Sending
    <2> QED
        BY <2>1 DEF IInv, TypesOk
<1>2. /\ seen'.accepted = seen.accepted /\ seen'.promised = seen.promised
      /\ seen'.lost = seen.lost /\ seen'.unwritten = seen.unwritten
      /\ seen' \in [accepted : Nat, sent : {seen'.sent}, promised : {seen'.promised},
                    lost : {seen'.lost}, refused : {seen'.refused},
                    unwritten : {seen'.unwritten}, before : {seen'.before}]
    <2>1. PICK new : seen' = [seen EXCEPT !.sent = new]
        BY DEF SendOk
    <2> QED
        BY <2>1 DEF IInv, TypesOk
<1>3. SpoolOk(sp') /\ Buffered(sp') = {}
    <2>1. PICK written \in BOOLEAN :
              sp' = Spool!Advance(Spool!Seek(Spool!Flush(sp), TRUE), written)
        BY DEF SendOk
    <2> QED
        BY <2>1, PeekKeeps, AdvanceKeeps
<1>4. TypesOk'
    BY <1>1, <1>2 DEF IInv, TypesOk
<1> QED
    BY <1>1, <1>2, <1>3, <1>4, EmptyHandKeeps

LEMMA SendFailsKeeps ==
    ASSUME IInv, SendFails
    PROVE  IInv'
<1>1. /\ worker.pc = "send" /\ UNCHANGED <<queue, caller>>
      /\ worker'.pc = "turn" /\ worker'.batch = worker.batch
      /\ worker' \in [pc : {worker'.pc}, batch : Seq(Records), took : BOOLEAN,
                      closed : {worker'.closed}, sent : {worker'.sent},
                      told : {worker'.told}]
      /\ sp' = Spool!Seek(Spool!Flush(sp), TRUE)
    BY DEF SendFails, Sending, IInv, TypesOk
<1>2. /\ seen'.accepted = seen.accepted /\ seen'.promised = seen.promised
      /\ seen'.lost = seen.lost /\ seen'.unwritten = seen.unwritten
      /\ seen' \in [accepted : Nat, sent : {seen'.sent}, promised : {seen'.promised},
                    lost : {seen'.lost}, refused : {seen'.refused},
                    unwritten : {seen'.unwritten}, before : {seen'.before}]
    <2>1. seen' = seen \/ \E new : seen' = [seen EXCEPT !.sent = new]
        BY DEF SendFails
    <2> QED
        BY <2>1 DEF IInv, TypesOk
<1>3. TypesOk'
    BY <1>1, <1>2 DEF IInv, TypesOk
<1> QED
    BY <1>1, <1>2, <1>3, PeekKeeps, EmptyHandKeeps

LEMMA TurnKeeps ==
    ASSUME IInv, Turn
    PROVE  IInv'
<1>1. /\ worker.pc = "turn" /\ UNCHANGED <<queue, caller, seen>>
      /\ worker'.pc # "append" /\ worker'.batch = worker.batch /\ TypesOk'
      /\ sp' = Spool!Flush(sp) \/ (sp' = sp /\ worker'.pc # "gone")
    BY DEF Turn, IInv, TypesOk
<1> QED
    BY <1>1, FlushKeeps, EmptyHandKeeps DEF IInv

----------------------------------------------------------------------------
(* The process.                                                            *)

\* Wherever the spool stands inside an append, no more is in its buffer.
LEMMA StandingKeeps ==
    ASSUME IInv, NEW s \in Standing
    PROVE  SpoolOk(s) /\ Buffered(s) \subseteq Buffered(sp)
BY DropKeeps DEF IInv, Standing

\* A death takes the queue, the batch and the buffer, and none of the three
\* holds anything that was promised.
LEMMA DieKeeps ==
    ASSUME IInv, Die
    PROVE  IInv'
<1>1. /\ caller.pc # "off" /\ caller' = [pc |-> "off", asked |-> {}]
      /\ queue' = NewQueue /\ worker' = [NewWorker EXCEPT !.pc = "gone"]
    BY DEF Die
<1>2. PICK s \in Standing : \E n \in Spool!DeathPoints(s) :
         /\ sp' = Spool!Died(s, n)
         /\ seen' = [seen EXCEPT
              !.lost = @ \cup InQueue \cup InBatch
                         \cup (Ids(Spool!Written(s)) \ Ids(Spool!Written(Spool!Recover(sp')))),
              !.before = @ \cup Missing \cup (Ids(Spool!Ahead(sp)) \ Ids(Spool!Ahead(s)))]
    BY DEF Die
<1>3. PICK n \in Spool!DeathPoints(s) :
         /\ sp' = Spool!Died(s, n)
         /\ seen' = [seen EXCEPT
              !.lost = @ \cup InQueue \cup InBatch
                         \cup (Ids(Spool!Written(s)) \ Ids(Spool!Written(Spool!Recover(sp')))),
              !.before = @ \cup Missing \cup (Ids(Spool!Ahead(sp)) \ Ids(Spool!Ahead(s)))]
    BY <1>2
<1>4. /\ SpoolOk(s) /\ Buffered(s) \subseteq Buffered(sp) /\ SpoolOk(sp')
      /\ Ids(Spool!Written(s)) \ Ids(Spool!Written(Spool!Recover(sp'))) \subseteq Buffered(s)
    BY <1>3, StandingKeeps, DiedKeeps, DeathLoses
<1>5. /\ seen'.accepted = seen.accepted /\ seen'.promised = seen.promised
      /\ seen'.lost \subseteq seen.lost \cup InDanger /\ seen'.unwritten = seen.unwritten
      /\ seen' \in [accepted : Nat, sent : {seen'.sent}, promised : {seen'.promised},
                    lost : {seen'.lost}, refused : {seen'.refused},
                    unwritten : {seen'.unwritten}, before : {seen'.before}]
    <2> DEFINE gone == seen.lost \cup InQueue \cup InBatch
                 \cup (Ids(Spool!Written(s)) \ Ids(Spool!Written(Spool!Recover(sp'))))
                 before == seen.before \cup Missing
                             \cup (Ids(Spool!Ahead(sp)) \ Ids(Spool!Ahead(s)))
    <2>1. gone \subseteq seen.lost \cup InDanger
        BY <1>4 DEF InDanger
    <2>2. seen' = [seen EXCEPT !.lost = gone, !.before = before]
        BY <1>3
    <2> HIDE DEF gone, before
    <2> QED
        BY <2>1, <2>2 DEF IInv, TypesOk
<1>6. TypesOk'
    BY <1>1, <1>5, NoIds DEF TypesOk, NewQueue, NewWorker
<1>7. caller'.pc = "off" /\ caller'.asked = {}
    BY <1>1
<1>8. seen.promised \cap (seen.lost \cup InDanger) \subseteq seen.unwritten /\ seen.promised \subseteq Accepted
    BY <1>1 DEF IInv, PromisedSurvives, PromisedIsSafe, FlushOfTheAccepted
<1> QED
    BY <1>4, <1>5, <1>6, <1>7, <1>8
    DEF IInv, FlushOfTheAccepted, HandOk, PromisedIsSafe, PromisedSurvives, Accepted

LEMMA OpenKeeps ==
    ASSUME IInv, Open
    PROVE  IInv'
<1>1. /\ caller' = [pc |-> "idle", asked |-> {}] /\ queue' = NewQueue /\ worker' = NewWorker
      /\ sp' = Spool!Recover(sp) /\ UNCHANGED seen
    BY DEF Open
<1>2. SpoolOk(sp') /\ Buffered(sp') = {} /\ Buffered(sp)' = Buffered(sp')
    BY <1>1, RecoverKeeps DEF IInv, Buffered
<1>3. InDanger' = {} /\ HandOk'
    BY <1>1, <1>2, NoIds DEF InDanger, InQueue, InBatch, HandOk, NewQueue, NewWorker
<1>4. TypesOk'
    BY <1>1, NoIds DEF IInv, TypesOk, NewQueue, NewWorker
<1> QED
    BY <1>1, <1>2, <1>3, <1>4
    DEF IInv, FlushOfTheAccepted, PromisedIsSafe, PromisedSurvives, Accepted

----------------------------------------------------------------------------

LEMMA StutterKeeps ==
    ASSUME IInv, UNCHANGED <<queue, sp, worker, caller, seen>>
    PROVE  IInv'
<1>1. TypesOk' /\ HandOk' /\ InDanger' = InDanger
    BY DEF IInv, TypesOk, HandOk, InDanger, InQueue, InBatch, Buffered
<1> QED
    BY <1>1, QuietStepKeeps DEF IInv

LEMMA NextKeeps ==
    ASSUME IInv, [Next]_vars
    PROVE  IInv'
<1>1. CASE Caller
    BY <1>1, SubmitKeeps, FlushBeginKeeps, FlushOkKeeps, FlushTimeoutKeeps, CloseKeeps,
       JoinedKeeps DEF Caller
<1>2. CASE Worker
    BY <1>2, DrainKeeps, AppendOneKeeps, FlushBatchKeeps, FlushRefusedKeeps, MarkDrainedKeeps,
       QueueLossKeeps,
       SpoolLossKeeps, PauseKeeps, PeekEndsKeeps, SendOkKeeps, SendFailsKeeps, TurnKeeps
    DEF Worker
<1>3. CASE BackoffOver
    BY <1>3, StutterKeeps DEF BackoffOver
<1>4. CASE Die
    BY <1>4, DieKeeps
<1>5. CASE Open
    BY <1>5, OpenKeeps
<1>6. CASE UNCHANGED vars
    BY <1>6, StutterKeeps DEF vars
<1> QED
    BY <1>1, <1>2, <1>3, <1>4, <1>5, <1>6 DEF Next

\* A record that a flush answered for is lost by a death of the process only
\* if the file system had refused its batch, whatever the limits, the rules,
\* the number of deaths and the point at which each one strikes: run_worker
\* empties the queue into its batch, the batch into the spool and, when the
\* write is taken, the buffer onto the disk before it marks the queue drained,
\* which is what wait_drained waits for.
THEOREM PromiseOutlivesTheProcess ==
    Spec => []PromisedSurvives
<1>1. Init => IInv
    BY InitIsOk
<1>2. IInv /\ [Next]_vars => IInv'
    BY NextKeeps
<1>3. IInv => PromisedSurvives
    BY DEF IInv
<1> QED
    BY <1>1, <1>2, <1>3, PTL DEF Spec
============================================================================
