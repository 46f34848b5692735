------------------------- MODULE SyslogDrainProofs -------------------------
(* That the drain takes the journal in its order and passes nothing in       *)
(* silence, for any limits, rules and number of deaths; and that what is     *)
(* missing is counted, and the reader never past the journal, where the      *)
(* bound has room for two segments and a record.                             *)
(*                                                                           *)
(* The journal is taken for the set of its records, each at its place, a     *)
(* segment and an index; the reader and the cursor file are such places.     *)
(* What the operators of the spool do is first said of their segments (the   *)
(* lemmas called Shape), then of that set (called Does), then of the         *)
(* invariant JournalOk (called IsQuiet), and last of the steps of the sink.  *)
EXTENDS SyslogSinkProofs, FiniteSetTheorems

\* Where the reader or the cursor file stands: a segment, and how many of its
\* records were passed.
Positions == Nat \X Nat

\* A place in the journal behind a position of the reader: segment and index.
Later(x, p) == p[1] < x[1] \/ (p[1] = x[1] /\ p[2] < x[2])

\* What the journal holds: segment, index and number of each record.
Content(s) ==
    UNION {{<<s.segs[k].seq, j, s.segs[k].recs[j].id>> : j \in DOMAIN s.segs[k].recs} :
             k \in DOMAIN s.segs}

\* The segments are numbered in their order, and the cursor is not ahead of
\* the reader.
OrderOk(s) ==
    /\ s.read \in Positions /\ s.cursor \in Positions /\ s.dropped \in Nat
    /\ s.next >= 1
    /\ \A k \in DOMAIN s.segs : s.segs[k].seq >= 1 /\ s.segs[k].seq < s.next
    /\ \A j, k \in DOMAIN s.segs : j < k => s.segs[j].seq < s.segs[k].seq
    /\ s.read[1] = 0 => s.segs = <<>>
    /\ ~Later(s.cursor, s.read)

\* The j-th record of the k-th segment, in its place.
At(s, k, j) == <<s.segs[k].seq, j, s.segs[k].recs[j].id>>

LEMMA ContentIs ==
    ASSUME NEW s, SpoolOk(s)
    PROVE  /\ \A k \in 1..Len(s.segs) : \A j \in 1..Len(s.segs[k].recs) :
                /\ At(s, k, j) \in Content(s) /\ s.segs[k].recs[j].id \in Nat
                /\ s.segs[k].seq \in Nat /\ j \in Nat
           /\ \A x \in Content(s) : \E k \in 1..Len(s.segs) : \E j \in 1..Len(s.segs[k].recs) :
                x = At(s, k, j)
           /\ Content(s) \subseteq Nat \X (Nat \ {0}) \X Nat
<1>1. /\ DOMAIN s.segs = 1..Len(s.segs) /\ Len(s.segs) \in Nat
      /\ \A k \in 1..Len(s.segs) : /\ s.segs[k].recs \in Seq(Records) /\ s.segs[k] \in Segments
                                   /\ Len(s.segs[k].recs) \in Nat
    BY SegmentHas
<1>2. ASSUME NEW k \in 1..Len(s.segs)
      PROVE  DOMAIN s.segs[k].recs = 1..Len(s.segs[k].recs) /\ s.segs[k].seq \in Nat
    BY <1>1 DEF Segments
<1>3. ASSUME NEW k \in 1..Len(s.segs), NEW j \in 1..Len(s.segs[k].recs)
      PROVE  /\ At(s, k, j) \in Content(s) /\ s.segs[k].recs[j].id \in Nat
             /\ s.segs[k].seq \in Nat /\ j \in Nat
    <2>1. At(s, k, j) \in Content(s)
        BY <1>1, <1>2 DEF Content, At
    <2>2. s.segs[k].recs[j] \in Records
        BY <1>1
    <2> QED
        BY <1>2, <2>1, <2>2 DEF Records
<1>4. ASSUME NEW x \in Content(s)
      PROVE  \E k \in 1..Len(s.segs) : \E j \in 1..Len(s.segs[k].recs) : x = At(s, k, j)
    BY <1>1, <1>2 DEF Content, At
<1>5. ASSUME NEW x \in Content(s)
      PROVE  x \in Nat \X (Nat \ {0}) \X Nat
    <2>2a. PICK k \in 1..Len(s.segs) : \E j \in 1..Len(s.segs[k].recs) : x = At(s, k, j)
        BY <1>4
    <2>2. PICK j \in 1..Len(s.segs[k].recs) : x = At(s, k, j)
        BY <2>2a
    <2> QED
        BY <1>3, <2>2 DEF At
<1> QED
    BY <1>3, <1>4, <1>5

\* The same records at the same places are the same content.
LEMMA SameContent ==
    ASSUME NEW s, NEW t, SpoolOk(s), SpoolOk(t), Len(t.segs) = Len(s.segs),
           \A k \in 1..Len(s.segs) : t.segs[k].seq = s.segs[k].seq /\ t.segs[k].recs = s.segs[k].recs
    PROVE  Content(t) = Content(s)
<1>1. DOMAIN s.segs = 1..Len(s.segs) /\ DOMAIN t.segs = 1..Len(s.segs)
    BY SegmentHas
<1> QED
    BY <1>1 DEF Content

\* No place holds two records.
LEMMA OnePlaceOneRecord ==
    ASSUME NEW s, SpoolOk(s), OrderOk(s), NEW x \in Content(s), NEW y \in Content(s),
           x[1] = y[1], x[2] = y[2]
    PROVE  x = y
<1>1a. PICK k \in 1..Len(s.segs) : \E j \in 1..Len(s.segs[k].recs) : x = At(s, k, j)
    BY ContentIs
<1>1. PICK j \in 1..Len(s.segs[k].recs) : x = At(s, k, j)
    BY <1>1a
<1>2a. PICK l \in 1..Len(s.segs) : \E i \in 1..Len(s.segs[l].recs) : y = At(s, l, i)
    BY ContentIs
<1>2. PICK i \in 1..Len(s.segs[l].recs) : y = At(s, l, i)
    BY <1>2a
<1>3. j = i /\ s.segs[k].seq = s.segs[l].seq
    BY <1>1, <1>2 DEF At
<1>4. k = l
    <2>1. k \in DOMAIN s.segs /\ l \in DOMAIN s.segs /\ k \in Nat /\ l \in Nat
        BY SegmentHas
    <2>2. s.segs[k].seq \in Nat /\ s.segs[l].seq \in Nat
        BY ContentIs, <1>1, <1>2
    <2> QED
        BY <1>3, <2>1, <2>2 DEF OrderOk
<1> QED
    BY <1>1, <1>2, <1>3, <1>4

\* What the reader will still come to.
AheadIds(s) == Ids(Spool!Ahead(s))

LEMMA AheadIs ==
    ASSUME NEW s, SpoolOk(s), s.read \in Positions
    PROVE  AheadIds(s) = {n \in Nat \ {0} : \E x \in Content(s) : Later(x, s.read) /\ x[3] = n}
<1> DEFINE from(k) == IF s.segs[k].seq = s.read[1] THEN s.read[2] + 1 ELSE 1
           row(k) == SubSeq(s.segs[k].recs, from(k), Len(s.segs[k].recs))
<1>1. /\ DOMAIN s.segs = 1..Len(s.segs) /\ Len(s.segs) \in Nat
      /\ \A k \in 1..Len(s.segs) : /\ s.segs[k].recs \in Seq(Records) /\ s.segs[k] \in Segments
                                   /\ Len(s.segs[k].recs) \in Nat
    BY SegmentHas
<1>2. s.read[1] \in Nat /\ s.read[2] \in Nat
    BY DEF Positions
<1>3. ASSUME NEW k \in 1..Len(s.segs)
      PROVE  Spool!ToSet(row(k)) = {s.segs[k].recs[j] : j \in from(k)..Len(s.segs[k].recs)}
    <2> DEFINE q == s.segs[k].recs
               a == from(k)
    <2>1. q \in Seq(Records) /\ a \in Nat \ {0} /\ Len(q) \in Nat
        BY <1>1, <1>2
    <2> HIDE DEF q, a
    <2>2. /\ Len(SubSeq(q, a, Len(q))) = IF a <= Len(q) THEN Len(q) - a + 1 ELSE 0
          /\ \A i \in 1..Len(SubSeq(q, a, Len(q))) : SubSeq(q, a, Len(q))[i] = q[a + i - 1]
          /\ DOMAIN SubSeq(q, a, Len(q)) = 1..Len(SubSeq(q, a, Len(q)))
        BY <2>1
    <2>3. Spool!ToSet(SubSeq(q, a, Len(q))) \subseteq {q[j] : j \in a..Len(q)}
        BY <2>1, <2>2 DEF Spool!ToSet
    <2>4. ASSUME NEW j \in a..Len(q)
          PROVE  q[j] \in Spool!ToSet(SubSeq(q, a, Len(q)))
        <3>1. /\ j - a + 1 \in 1..Len(SubSeq(q, a, Len(q))) /\ a + (j - a + 1) - 1 = j
            BY <2>1, <2>2
        <3> QED
            BY <2>2, <3>1 DEF Spool!ToSet
    <2> QED
        BY <2>3, <2>4 DEF q, a
<1>4. \A k \in 1..Len(s.segs) : s.segs[k].seq \in Nat
    BY <1>1 DEF Segments
<1>5. ASSUME NEW n \in AheadIds(s)
      PROVE  n \in Nat \ {0} /\ \E x \in Content(s) : Later(x, s.read) /\ x[3] = n
    <2>1. PICK rec \in Spool!Ahead(s) : rec.id = n /\ n # 0
        BY <1>5 DEF AheadIds, Ids
    <2>2. PICK k \in 1..Len(s.segs) : s.segs[k].seq >= s.read[1] /\ rec \in Spool!ToSet(row(k))
        <3>1. Spool!Ahead(s) = UNION {Spool!ToSet(row(k)) :
                                        k \in {j \in 1..Len(s.segs) : s.segs[j].seq >= s.read[1]}}
            BY <1>1 DEF Spool!Ahead
        <3> HIDE DEF row
        <3> QED
            BY <2>1, <3>1
    <2>3. PICK j \in from(k)..Len(s.segs[k].recs) : rec = s.segs[k].recs[j]
        <3> HIDE DEF row, from
        <3> QED
            BY <1>3, <2>2
    <2>4. j \in 1..Len(s.segs[k].recs) /\ j >= from(k)
        BY <1>1, <1>2, <2>3
    <2>5. At(s, k, j) \in Content(s) /\ At(s, k, j)[3] = n /\ n \in Nat
        BY <2>1, <2>3, <2>4, ContentIs DEF At
    <2>6. Later(At(s, k, j), s.read)
        BY <1>2, <1>4, <2>2, <2>4 DEF Later, At
    <2> QED
        BY <2>1, <2>5, <2>6
<1>6. ASSUME NEW x \in Content(s), Later(x, s.read), x[3] # 0
      PROVE  x[3] \in AheadIds(s)
    <2>1a. PICK k \in 1..Len(s.segs) : \E j \in 1..Len(s.segs[k].recs) : x = At(s, k, j)
        BY ContentIs
    <2>1. PICK j \in 1..Len(s.segs[k].recs) : x = At(s, k, j)
        BY <2>1a
    <2>2. s.segs[k].seq >= s.read[1] /\ j \in from(k)..Len(s.segs[k].recs)
        BY <1>1, <1>2, <1>4, <1>6, <2>1 DEF Later, At
    <2>3. s.segs[k].recs[j] \in Spool!ToSet(row(k))
        BY <1>3, <2>2
    <2>4. s.segs[k].recs[j] \in Spool!Ahead(s)
        BY <1>1, <2>2, <2>3 DEF Spool!Ahead
    <2> QED
        BY <1>6, <2>1, <2>4 DEF AheadIds, Ids, At
<1> QED
    BY <1>5, <1>6

----------------------------------------------------------------------------
(* Making room.                                                            *)

\* The counting of the spool's module and of the lemmas on finite sets is one.
LEMMA SameCount == \A S : Spool!Cardinality(S) = Cardinality(S)
BY Zenon DEF Spool!Cardinality, Cardinality

LEMMA MinIsLeast ==
    ASSUME NEW S \in SUBSET Nat, S # {}
    PROVE  Spool!Min(S) \in S /\ \A t \in S : Spool!Min(S) <= t
<1>1. IsWellFoundedOn(Less, Nat)
    BY NatLessThanWellFounded, Zenon DEF OpToRel, Less
<1>2. PICK t \in S : \A u \in S : ~ (<<u, t>> \in Less)
    BY <1>1, WFMin, Zenon
<1>3. \A u \in S : t <= u
    <2>1. TAKE u \in S
    <2>2. u \in Nat /\ t \in Nat /\ <<u, t>> \notin Less
        BY <1>2
    <2> QED BY <2>2 DEF Less
<1> QED BY <1>3, Zenon DEF Spool!Min

\* The first segment kept, or the next to be written, when others make room.
Bound(s, need) ==
    IF Spool!Gone(s, need) = Len(s.segs) THEN s.next ELSE s.segs[Spool!Gone(s, need) + 1].seq
\* Of the segments that leave, those the reader had not passed.
UnreadGone(s, need) == {k \in 1..Spool!Gone(s, need) : Spool!Unread(s, k)}

\* No more segments leave than must.
LEMMA DropShape ==
    ASSUME NEW s, SpoolOk(s), s.dropped \in Nat, NEW need, NEW written,
           NEW d, d = Spool!DropOldest(s, need, written),
           NEW g, g = Spool!Gone(s, need)
    PROVE  /\ g \in 0..Len(s.segs)
           /\ \A k \in 0..Len(s.segs) : k < g => ~Spool!Enough(s, need, k)
           /\ Spool!Enough(s, need, g)
           /\ Len(d.segs) = Len(s.segs) - g
           /\ \A k \in 1..Len(s.segs) - g : k + g \in 1..Len(s.segs) /\ d.segs[k] = s.segs[k + g]
           /\ d.next = s.next
           /\ d.open => s.open
           /\ UnreadGone(s, need) = {} =>
                d.read = s.read /\ d.cursor = s.cursor /\ d.dropped = s.dropped
           /\ UnreadGone(s, need) # {} =>
                /\ d.read = <<Bound(s, need), 0>> /\ d.cursor \in {s.cursor, d.read}
                /\ d.dropped = s.dropped + Spool!RecordsIn(s, UnreadGone(s, need))
<1> DEFINE rest == Spool!Rest(s, g)
           unread == UnreadGone(s, need)
           kept == [s EXCEPT !.segs = rest, !.open = @ /\ rest # <<>>,
                             !.dropped = @ + Spool!RecordsIn(s, unread)]
           n == Len(s.segs)
<1>1. g \in 0..n /\ Spool!Enough(s, need, g) /\ \A k \in 0..n : k < g => ~Spool!Enough(s, need, k)
    <2> DEFINE S == {k \in 0..n : Spool!Enough(s, need, k)}
    <2>1. n \in S /\ S \in SUBSET Nat /\ n \in Nat
        BY DEF Spool!Enough, SpoolOk, SegmentsOk
    <2>2. Spool!Min(S) \in S /\ \A t \in S : Spool!Min(S) <= t
        BY <2>1, MinIsLeast
    <2>3. g = Spool!Min(S)
        BY DEF Spool!Gone
    <2> HIDE DEF S
    <2>4. g \in S /\ \A t \in S : g <= t
        BY <2>2, <2>3
    <2> QED
        BY <2>4, <2>1 DEF S
<1>2. /\ rest \in Seq(Segments) /\ Len(rest) = n - g /\ n \in Nat
      /\ \A k \in 1..n - g : k + g \in 1..n /\ rest[k] = s.segs[k + g]
    BY <1>1 DEF Spool!Rest, SpoolOk, SegmentsOk
<1> HIDE DEF rest
<1>3. /\ kept.segs = rest /\ kept.next = s.next /\ kept.read = s.read /\ kept.cursor = s.cursor
      /\ kept.open => s.open
      /\ kept.dropped = s.dropped + Spool!RecordsIn(s, unread)
      /\ kept \in [segs : Seq(Segments), next : Nat, open : BOOLEAN,
                   read : {kept.read}, cursor : {kept.cursor}, dropped : {kept.dropped}]
    BY <1>2 DEF SpoolOk
<1> HIDE DEF kept
<1>4. unread = {k \in 1..g : Spool!Unread(s, k)}
    BY DEF UnreadGone
<1>5. CASE unread = {}
    <2>1. d = kept
        BY <1>4, <1>5 DEF Spool!DropOldest, rest, kept
    <2>2. Spool!RecordsIn(s, unread) = 0
        <3>1. UNION {{k} \X DOMAIN s.segs[k].recs : k \in {}} = {}
            OBVIOUS
        <3>2. Spool!RecordsIn(s, {}) = Cardinality({})
            BY <3>1, SameCount, Zenon DEF Spool!RecordsIn
        <3> QED
            BY <1>5, <3>2, FS_EmptySet
    <2>3. d.read = s.read /\ d.cursor = s.cursor /\ d.dropped = s.dropped
        BY <1>3, <2>1, <2>2
    <2>4. d.segs = rest /\ d.next = s.next /\ (d.open => s.open)
        BY <1>3, <2>1
    <2> QED
        BY <1>1, <1>2, <1>5, <2>3, <2>4
<1>6. CASE unread # {}
    <2> DEFINE to == <<Spool!OldestSeq(rest, s.next), 0>>
    <2>1. d = Spool!MoveTo(kept, to, written)
        BY <1>4, <1>6 DEF Spool!DropOldest, rest, kept
    <2>2. /\ d.segs = rest /\ d.next = s.next /\ d.read = to /\ d.cursor \in {s.cursor, to}
          /\ d.dropped = s.dropped + Spool!RecordsIn(s, unread) /\ d.open = kept.open
        BY <1>3, <2>1 DEF Spool!MoveTo
    <2>3. Spool!OldestSeq(rest, s.next) = Bound(s, need)
        <3>1. rest = <<>> <=> g = n
            BY <1>1, <1>2
        <3>2. g # n => 1 \in 1..n - g /\ rest[1] = s.segs[g + 1]
            BY <1>1, <1>2
        <3> QED
            BY <3>1, <3>2 DEF Spool!OldestSeq, Bound
    <2> QED
        BY <1>1, <1>2, <1>3, <1>6, <2>2, <2>3
<1> QED
    BY <1>5, <1>6

\* A family of sets, each element paired with the one it belongs to.
Pairs(K, D) == UNION {{k} \X D[k] : k \in K}

LEMMA PairsAreFinite ==
    ASSUME NEW K, IsFiniteSet(K), NEW D, \A k \in K : IsFiniteSet(D[k])
    PROVE  IsFiniteSet(Pairs(K, D))
<1> DEFINE F == [k \in K |-> {k} \X D[k]]
           T == {{k} \X D[k] : k \in K}
<1>1. F \in Surjection(K, T)
    BY DEF Surjection
<1>2. IsFiniteSet(T)
    BY <1>1, FS_Surjection
<1>3. \A S \in T : IsFiniteSet(S)
    <2>1. ASSUME NEW k \in K
          PROVE  IsFiniteSet({k} \X D[k])
        BY FS_Singleton, FS_Product
    <2> QED
        BY <2>1
<1> HIDE DEF T
<1>4. IsFiniteSet(UNION T)
    BY <1>2, <1>3, FS_UNION
<1> QED
    BY <1>4 DEF T, Pairs

\* The records counted when segments are dropped are at least as many as
\* there are numbers among them.
LEMMA CountedRecords ==
    ASSUME NEW s, SpoolOk(s), NEW U \in SUBSET (1..Len(s.segs))
    PROVE  /\ Spool!RecordsIn(s, U) \in Nat
           /\ \A N : (\A n \in N : \E k \in U : \E j \in 1..Len(s.segs[k].recs) :
                          n = s.segs[k].recs[j].id)
                => IsFiniteSet(N) /\ Cardinality(N) <= Spool!RecordsIn(s, U)
<1> DEFINE D == [k \in U |-> DOMAIN s.segs[k].recs]
           P == Pairs(U, D)
           f == [p \in P |-> s.segs[p[1]].recs[p[2]].id]
           T == {f[p] : p \in P}
<1>1. Len(s.segs) \in Nat /\ \A k \in 1..Len(s.segs) : /\ s.segs[k].recs \in Seq(Records)
                                                       /\ Len(s.segs[k].recs) \in Nat
    BY SegmentHas
<1>2. IsFiniteSet(U)
    <2>1. IsFiniteSet(1..Len(s.segs))
        BY <1>1, FS_Interval
    <2> QED
        BY <2>1, FS_Subset
<1>3. \A k \in U : D[k] = 1..Len(s.segs[k].recs)
    BY <1>1
<1>4. \A k \in U : IsFiniteSet(D[k])
    <2>1. TAKE k \in U
    <2>2. Len(s.segs[k].recs) \in Int /\ 1 \in Int
        BY <1>1
    <2>3. IsFiniteSet(1..Len(s.segs[k].recs))
        BY <2>2, FS_Interval, Zenon
    <2> HIDE DEF D
    <2> QED
        BY <1>3, <2>3
<1>5. IsFiniteSet(P)
    <2> HIDE DEF D
    <2> QED
        BY <1>2, <1>4, PairsAreFinite
<1>6. Spool!RecordsIn(s, U) = Cardinality(P)
    <2>1. P = UNION {{k} \X DOMAIN s.segs[k].recs : k \in U}
        BY DEF Pairs
    <2> HIDE DEF P
    <2> QED
        BY <2>1, SameCount, Zenon DEF Spool!RecordsIn
<1>7. \A k \in U : \A j \in 1..Len(s.segs[k].recs) : <<k, j>> \in P /\ f[<<k, j>>] = s.segs[k].recs[j].id
    <2>1. TAKE k \in U
    <2>2. TAKE j \in 1..Len(s.segs[k].recs)
    <2>3. <<k, j>> \in {k} \X D[k]
        BY <1>3
    <2>4. <<k, j>> \in P
        BY <2>3 DEF Pairs
    <2> HIDE DEF P
    <2> QED
        BY <2>4
<1>8. IsFiniteSet(T) /\ Cardinality(T) <= Cardinality(P)
    <2> HIDE DEF P
    <2>1. f \in Surjection(P, T)
        BY DEF Surjection
    <2> HIDE DEF f, T
    <2> QED
        BY <1>5, <2>1, FS_Surjection
<1>9. Spool!RecordsIn(s, U) \in Nat
    BY <1>5, <1>6, FS_CardinalityType
<1>10. ASSUME NEW N, \A n \in N : \E k \in U : \E j \in 1..Len(s.segs[k].recs) : n = s.segs[k].recs[j].id
       PROVE  IsFiniteSet(N) /\ Cardinality(N) <= Cardinality(P)
    <2>1. ASSUME NEW n \in N
          PROVE  n \in T
        <3> HIDE DEF P, f
        <3>1. PICK k \in U : \E j \in 1..Len(s.segs[k].recs) : n = s.segs[k].recs[j].id
            BY <1>10
        <3>2. PICK j \in 1..Len(s.segs[k].recs) : n = s.segs[k].recs[j].id
            BY <3>1
        <3> QED
            BY <1>7, <3>2
    <2> HIDE DEF T, P
    <2>2. N \in SUBSET T
        BY <2>1
    <2>3. IsFiniteSet(N) /\ Cardinality(N) <= Cardinality(T)
        BY <2>2, <1>8, FS_Subset
    <2>4. Cardinality(N) \in Nat /\ Cardinality(T) \in Nat /\ Cardinality(P) \in Nat
        BY <2>3, <1>5, <1>8, FS_CardinalityType
    <2> QED
        BY <1>8, <2>3, <2>4
<1> HIDE DEF P
<1> QED
    BY <1>6, <1>9, <1>10

\* What a bound of the segments kept tells of the content: what goes has been
\* passed, or the reader goes to the first that is kept.
LEMMA DropDoes ==
    ASSUME NEW s, SpoolOk(s), OrderOk(s), NEW need, NEW written,
           NEW d, d = Spool!DropOldest(s, need, written),
           NEW b, b = Bound(s, need)
    PROVE  /\ SpoolOk(d) /\ OrderOk(d) /\ d.next = s.next /\ b \in Nat
           /\ \A k \in 1..Len(s.segs) : k <= Spool!Gone(s, need) <=> s.segs[k].seq < b
           /\ Content(d) = {x \in Content(s) : x[1] >= b}
           /\ \/ /\ d.read = s.read /\ d.cursor = s.cursor
                 /\ \A x \in Content(s) : x[1] < b => x[1] < s.read[1]
              \/ /\ d.read = <<b, 0>> /\ d.cursor \in {s.cursor, d.read}
                 /\ s.read[1] < b
<1> DEFINE n == Len(s.segs)
           g == Spool!Gone(s, need)
           unread == UnreadGone(s, need)
<1>1. /\ SpoolOk(d) /\ g \in 0..n /\ Len(d.segs) = n - g /\ d.next = s.next /\ n \in Nat
      /\ \A k \in 1..n - g : k + g \in 1..n /\ d.segs[k] = s.segs[k + g]
      /\ DOMAIN s.segs = 1..n /\ DOMAIN d.segs = 1..n - g
    <2>1. SpoolOk(d)
        BY DropKeeps
    <2>2. /\ g \in 0..n /\ Len(d.segs) = n - g /\ d.next = s.next
          /\ \A k \in 1..n - g : k + g \in 1..n /\ d.segs[k] = s.segs[k + g]
        BY DropShape DEF OrderOk
    <2> QED
        BY <2>1, <2>2, SegmentHas
<1>2. /\ unread = {} => d.read = s.read /\ d.cursor = s.cursor /\ d.dropped = s.dropped
      /\ unread # {} =>
           /\ d.read = <<b, 0>> /\ d.cursor \in {s.cursor, d.read}
           /\ d.dropped = s.dropped + Spool!RecordsIn(s, unread)
    BY DropShape DEF OrderOk
<1>3. /\ s.read[1] \in Nat /\ s.read[2] \in Nat /\ s.cursor[1] \in Nat /\ s.cursor[2] \in Nat
      /\ s.next \in Nat /\ s.read \in Positions /\ s.cursor \in Positions
      /\ \A k \in 1..n : s.segs[k].seq \in Nat /\ s.segs[k].seq >= 1 /\ s.segs[k].seq < s.next
      /\ \A j, k \in 1..n : j < k => s.segs[j].seq < s.segs[k].seq
    <2>1. \A k \in 1..n : s.segs[k].seq \in Nat
        <3>1. \A k \in 1..n : s.segs[k] \in Segments
            BY SegmentHas
        <3> QED
            BY <3>1 DEF Segments
    <2>2. s.read \in Positions /\ s.cursor \in Positions
        BY DEF OrderOk
    <2>3. s.read[1] \in Nat /\ s.read[2] \in Nat /\ s.cursor[1] \in Nat /\ s.cursor[2] \in Nat
        BY <2>2 DEF Positions
    <2>4. s.next \in Nat
        BY DEF SpoolOk
    <2> QED
        BY <1>1, <2>1, <2>2, <2>3, <2>4 DEF OrderOk
<1>4. b \in Nat /\ b >= 1 /\ \A k \in 1..n : k <= g <=> s.segs[k].seq < b
    <2>1. CASE g = n
        <3>1. b = s.next
            BY <2>1 DEF Bound
        <3> HIDE DEF g
        <3> QED
            BY <1>1, <1>3, <2>1, <3>1 DEF OrderOk
    <2>2. CASE g # n
        <3>1. b = s.segs[g + 1].seq /\ g + 1 \in 1..n
            BY <1>1, <2>2 DEF Bound
        <3> HIDE DEF g
        <3>2. b \in Nat /\ b >= 1
            BY <1>3, <3>1
        <3>3. ASSUME NEW k \in 1..n
              PROVE  k <= g <=> s.segs[k].seq < b
            <4>1. k <= g \/ k = g + 1 \/ g + 1 < k
                BY <1>1
            <4>2. k <= g => k < g + 1
                BY <1>1
            <4>3. g + 1 \in Nat /\ s.segs[k].seq \in Nat /\ g \in Nat
                BY <1>1, <1>3
            <4> QED
                BY <1>3, <3>1, <3>2, <4>1, <4>2, <4>3
        <3> QED
            BY <3>2, <3>3
    <2> QED
        BY <2>1, <2>2
<1>5. ASSUME unread # {}
      PROVE  s.read[1] < b
    <2>1. PICK k \in 1..g : s.read[1] <= s.segs[k].seq
        BY <1>5 DEF UnreadGone, Spool!Unread
    <2> HIDE DEF g
    <2>2. k \in 1..n /\ k <= g
        BY <1>1
    <2>3. s.segs[k].seq \in Nat /\ s.segs[k].seq < b
        BY <1>3, <1>4, <2>2
    <2> QED
        BY <1>3, <1>4, <2>1, <2>3
<1>6. ASSUME unread = {}, NEW k \in 1..n, k <= g
      PROVE  s.segs[k].seq < s.read[1]
    <2>1. k \in 1..g
        BY <1>1, <1>6
    <2>2. ~(s.read[1] <= s.segs[k].seq)
        BY <1>6, <2>1 DEF UnreadGone, Spool!Unread
    <2> QED
        BY <1>3, <2>2
<1>7. ASSUME NEW x \in Content(d)
      PROVE  x \in Content(s) /\ x[1] >= b
    <2>1. PICK k \in 1..n - g : \E j \in 1..Len(d.segs[k].recs) : x = At(d, k, j)
        <3>1. \E k \in 1..Len(d.segs) : \E j \in 1..Len(d.segs[k].recs) : x = At(d, k, j)
            BY <1>1, ContentIs
        <3>2. Len(d.segs) = n - g
            BY <1>1
        <3> HIDE DEF n, g
        <3> QED
            BY <3>1, <3>2
    <2>2. PICK j \in 1..Len(d.segs[k].recs) : x = At(d, k, j)
        BY <2>1
    <2>3. x = At(s, k + g, j) /\ j \in 1..Len(s.segs[k + g].recs) /\ k + g \in 1..n
        BY <1>1, <2>2 DEF At
    <2>4. x \in Content(s) /\ x[1] = s.segs[k + g].seq
        BY <2>3, ContentIs DEF At
    <2>5. ~(k + g <= g)
        BY <1>1
    <2> QED
        BY <1>3, <1>4, <2>3, <2>4, <2>5
<1>8. ASSUME NEW x \in Content(s), x[1] >= b
      PROVE  x \in Content(d)
    <2>1. PICK k \in 1..n : \E j \in 1..Len(s.segs[k].recs) : x = At(s, k, j)
        BY ContentIs
    <2>2. PICK j \in 1..Len(s.segs[k].recs) : x = At(s, k, j)
        BY <2>1
    <2>3. ~(k <= g)
        <3>1. x[1] = s.segs[k].seq
            BY <2>2 DEF At
        <3> QED
            BY <1>3, <1>4, <1>8, <3>1
    <2>4. k - g \in 1..n - g /\ (k - g) + g = k
        BY <1>1, <2>3
    <2>5. x = At(d, k - g, j) /\ j \in 1..Len(d.segs[k - g].recs)
        BY <1>1, <2>2, <2>4 DEF At
    <2> QED
        BY <1>1, <2>4, <2>5, ContentIs
<1>9. Content(d) = {x \in Content(s) : x[1] >= b}
    BY <1>7, <1>8
<1>10. ASSUME unread = {}, NEW x \in Content(s), x[1] < b
       PROVE  x[1] < s.read[1]
    <2>1. PICK k \in 1..n : \E j \in 1..Len(s.segs[k].recs) : x = At(s, k, j)
        BY ContentIs
    <2>2. x[1] = s.segs[k].seq
        BY <2>1 DEF At
    <2>3. k <= g
        BY <1>4, <1>10, <2>2
    <2> QED
        BY <1>6, <1>10, <2>2, <2>3
<1>11. d.dropped \in Nat
    <2>1. CASE unread = {}
        BY <1>2, <2>1 DEF OrderOk
    <2>2. CASE unread # {}
        <3>1. unread \in SUBSET (1..n)
            BY <1>1 DEF UnreadGone
        <3>2. Spool!RecordsIn(s, unread) \in Nat
            BY <3>1, CountedRecords
        <3> QED
            BY <1>2, <2>2, <3>2 DEF OrderOk
    <2> QED
        BY <2>1, <2>2
<1>12. OrderOk(d)
    <2> HIDE DEF g, unread
    <2>1. /\ \A k \in 1..n - g : d.segs[k].seq >= 1 /\ d.segs[k].seq < d.next
          /\ \A j, k \in 1..n - g : j < k => d.segs[j].seq < d.segs[k].seq
        <3>1. \A j, k \in 1..n - g : j < k => j + g < k + g
            BY <1>1
        <3> QED
            BY <1>1, <1>3, <3>1
    <2>2. s.read[1] = 0 => d.segs = <<>>
        <3>1. ASSUME s.read[1] = 0
              PROVE  n - g = 0
            <4>1. n = 0
                BY <3>1 DEF OrderOk
            <4> HIDE DEF n
            <4>2. g \in 0..0
                BY <1>1, <4>1
            <4>3. g = 0
                BY <4>2
            <4> QED
                BY <4>1, <4>3
        <3>2. d.segs \in Seq(Segments) /\ Len(d.segs) = n - g
            BY <1>1, SegmentHas
        <3> QED
            BY <3>1, <3>2
    <2>3. <<b, 0>> \in Positions /\ <<b, 0>>[1] = b /\ <<b, 0>>[2] = 0
        BY <1>4 DEF Positions
    <2>4. d.read \in Positions /\ d.cursor \in Positions
        BY <1>2, <1>3, <2>3
    <2>5. d.read[1] = 0 => d.segs = <<>>
        BY <1>2, <1>4, <2>2, <2>3
    <2>6. ~Later(d.cursor, d.read)
        <3>1. ~Later(s.cursor, s.read)
            BY DEF OrderOk
        <3>2. CASE unread = {}
            BY <1>2, <3>1, <3>2
        <3>3. CASE unread # {}
            <4>1. d.read[1] = b /\ d.read[2] = 0 /\ s.read[1] < b
                BY <1>2, <1>5, <2>3, <3>3
            <4>2. d.cursor = s.cursor \/ d.cursor = d.read
                BY <1>2, <3>3
            <4> QED
                BY <1>3, <1>4, <3>1, <4>1, <4>2 DEF Later
        <3> QED
            BY <3>2, <3>3
    <2>7. d.next >= 1
        BY <1>1 DEF OrderOk
    <2> QED
        BY <1>1, <1>11, <2>1, <2>4, <2>5, <2>6, <2>7 DEF OrderOk
<1> QED
    BY <1>1, <1>2, <1>4, <1>5, <1>9, <1>10, <1>12

\* What the reader had not passed and can not reach any more is in the count.
LEMMA DropCounts ==
    ASSUME NEW s, SpoolOk(s), OrderOk(s), NEW need, NEW written,
           NEW d, d = Spool!DropOldest(s, need, written)
    PROVE  /\ d.dropped - s.dropped \in Nat
           /\ IsFiniteSet(AheadIds(s) \ AheadIds(d))
           /\ Cardinality(AheadIds(s) \ AheadIds(d)) <= d.dropped - s.dropped
<1> DEFINE b == Bound(s, need)
           unread == UnreadGone(s, need)
           N == AheadIds(s) \ AheadIds(d)
<1>1. /\ SpoolOk(d) /\ OrderOk(d) /\ b \in Nat
      /\ \A k \in 1..Len(s.segs) : k <= Spool!Gone(s, need) <=> s.segs[k].seq < b
      /\ Content(d) = {x \in Content(s) : x[1] >= b}
      /\ \/ /\ d.read = s.read /\ d.cursor = s.cursor
            /\ \A x \in Content(s) : x[1] < b => x[1] < s.read[1]
         \/ /\ d.read = <<b, 0>> /\ d.cursor \in {s.cursor, d.read}
            /\ s.read[1] < b
    BY DropDoes
<1>2. /\ unread = {} => d.read = s.read /\ d.dropped = s.dropped
      /\ unread # {} =>
           /\ d.read = <<b, 0>>
           /\ d.dropped = s.dropped + Spool!RecordsIn(s, unread)
      /\ Spool!Gone(s, need) \in 0..Len(s.segs)
    BY DropShape DEF OrderOk
<1>3. /\ s.read \in Positions /\ d.read \in Positions /\ s.dropped \in Nat /\ d.dropped \in Nat
      /\ s.read[1] \in Nat /\ s.read[2] \in Nat
    BY <1>1 DEF OrderOk, Positions
<1>4. /\ AheadIds(s) = {n \in Nat \ {0} : \E x \in Content(s) : Later(x, s.read) /\ x[3] = n}
      /\ AheadIds(d) = {n \in Nat \ {0} : \E x \in Content(d) : Later(x, d.read) /\ x[3] = n}
    BY <1>1, <1>3, AheadIs
<1>5. \A x \in Content(s) : x[1] \in Nat /\ x[2] \in Nat /\ x[2] >= 1
    BY ContentIs
<1> HIDE DEF b, unread
<1>6. CASE unread = {}
    <2>1. N = {}
        <3>1. ASSUME NEW x \in Content(s), Later(x, s.read)
              PROVE  x \in Content(d)
            <4>1. x[1] \in Nat /\ s.read[1] <= x[1]
                BY <1>3, <1>5, <3>1 DEF Later
            <4>2. \/ x[1] < b => x[1] < s.read[1]
                  \/ d.read = <<b, 0>> /\ s.read[1] < b
                BY <1>1
            <4>3. ~(d.read = <<b, 0>> /\ s.read[1] < b)
                BY <1>1, <1>2, <1>3, <1>6
            <4> QED
                BY <1>1, <1>3, <4>1, <4>2, <4>3
        <3> QED
            BY <1>2, <1>4, <1>6, <3>1
    <2>2. d.dropped - s.dropped = 0
        BY <1>2, <1>3, <1>6
    <2> HIDE DEF N
    <2>3. IsFiniteSet(N) /\ Cardinality(N) = 0
        BY <2>1, FS_EmptySet
    <2> QED
        BY <2>2, <2>3 DEF N
<1>7. CASE unread # {}
    <2>1. unread \in SUBSET (1..Len(s.segs))
        BY <1>2 DEF unread, UnreadGone
    <2>2. ASSUME NEW n \in N
          PROVE  \E k \in unread : \E j \in 1..Len(s.segs[k].recs) : n = s.segs[k].recs[j].id
        <3>1. PICK x \in Content(s) : Later(x, s.read) /\ x[3] = n /\ n # 0
            BY <1>4
        <3>2. x[1] < b
            <4>1. ASSUME x[1] >= b
                  PROVE  x \in Content(d) /\ Later(x, d.read)
                <5>1. d.read[1] = b /\ d.read[2] = 0
                    BY <1>2, <1>7
                <5> QED
                    BY <1>1, <1>5, <4>1, <5>1 DEF Later
            <4> QED
                BY <1>1, <1>4, <1>5, <3>1, <4>1
        <3>3. PICK k \in 1..Len(s.segs) : \E j \in 1..Len(s.segs[k].recs) : x = At(s, k, j)
            BY ContentIs
        <3>4. PICK j \in 1..Len(s.segs[k].recs) : x = At(s, k, j)
            BY <3>3
        <3>5. x[1] = s.segs[k].seq /\ n = s.segs[k].recs[j].id
            BY <3>1, <3>4 DEF At
        <3>6. k \in unread
            <4>1. k \in 1..Spool!Gone(s, need)
                BY <1>1, <1>2, <3>2, <3>5
            <4>2. s.read[1] <= s.segs[k].seq
                BY <1>3, <1>5, <3>1, <3>5 DEF Later
            <4> QED
                BY <4>1, <4>2 DEF unread, UnreadGone, Spool!Unread
        <3> QED
            BY <3>5, <3>6
    <2>3. IsFiniteSet(N) /\ Cardinality(N) <= Spool!RecordsIn(s, unread)
          /\ Spool!RecordsIn(s, unread) \in Nat
        <3> HIDE DEF N
        <3> QED
            BY <2>1, <2>2, CountedRecords
    <2> QED
        BY <1>2, <1>3, <1>7, <2>3
<1> QED
    BY <1>6, <1>7

----------------------------------------------------------------------------
(* Writing.                                                                *)

\* The row of segments with the buffer of the last one emptied.
LEMMA FlushedShape ==
    ASSUME NEW s, SpoolOk(s), NEW f, f = Spool!FlushedLast(s)
    PROVE  /\ f \in Seq(Segments) /\ Len(f) = Len(s.segs)
           /\ \A k \in 1..Len(s.segs) :
                /\ f[k].seq = s.segs[k].seq /\ f[k].recs = s.segs[k].recs
                /\ f[k].disk = Len(s.segs[k].recs)
<1> DEFINE n == Len(s.segs)
<1>1. DOMAIN s.segs = 1..n
    BY SegmentHas
<1>2. /\ f \in Seq(Segments) /\ Len(f) = n
      /\ \A k \in 1..n : f[k].recs = s.segs[k].recs /\ f[k].disk = Len(s.segs[k].recs)
    BY <1>1, FlushKeeps
<1>3. ASSUME NEW k \in 1..n
      PROVE  f[k].seq = s.segs[k].seq
    <2>1. CASE ~s.open
        BY <2>1 DEF Spool!FlushedLast
    <2>2. CASE s.open
        <3>1. n \in 1..n /\ s.segs[n] \in Segments /\ s.segs \in Seq(Segments)
            BY <2>2, SegmentHas DEF SpoolOk
        <3> DEFINE l == [s.segs[n] EXCEPT !.disk = Len(s.segs[n].recs)]
        <3>2. f = [s.segs EXCEPT ![n] = l]
            BY <1>1, <2>2, <3>1 DEF Spool!FlushedLast
        <3>3. l.seq = s.segs[n].seq
            BY <3>1 DEF Segments
        <3> HIDE DEF l
        <3> QED
            BY <1>1, <3>2, <3>3
    <2> QED
        BY <2>1, <2>2
<1> QED
    BY <1>2, <1>3

LEMMA FlushDoes ==
    ASSUME NEW s, SpoolOk(s), OrderOk(s), NEW f, f = Spool!Flush(s)
    PROVE  /\ SpoolOk(f) /\ OrderOk(f) /\ Content(f) = Content(s)
           /\ f.read = s.read /\ f.cursor = s.cursor /\ f.dropped = s.dropped /\ f.next = s.next
           /\ Len(f.segs) = Len(s.segs)
           /\ \A k \in 1..Len(s.segs) :
                /\ f.segs[k].seq = s.segs[k].seq /\ f.segs[k].recs = s.segs[k].recs
                /\ f.segs[k].disk = Len(s.segs[k].recs)
<1>1. /\ f.segs = Spool!FlushedLast(s) /\ f.read = s.read /\ f.cursor = s.cursor
      /\ f.dropped = s.dropped /\ f.next = s.next
    BY DEF Spool!Flush, SpoolOk
<1>2. /\ Len(f.segs) = Len(s.segs)
      /\ \A k \in 1..Len(s.segs) :
           /\ f.segs[k].seq = s.segs[k].seq /\ f.segs[k].recs = s.segs[k].recs
           /\ f.segs[k].disk = Len(s.segs[k].recs)
    BY <1>1, FlushedShape
<1>3. SpoolOk(f)
    BY FlushKeeps
<1>4. Content(f) = Content(s)
    BY <1>2, <1>3, SameContent
<1>5. OrderOk(f)
    <2>1. DOMAIN f.segs = 1..Len(s.segs) /\ DOMAIN s.segs = 1..Len(s.segs)
        BY <1>2, <1>3, SegmentHas
    <2>2. s.segs = <<>> => f.segs = <<>>
        BY <2>1, <1>3, SegmentHas
    <2> QED
        BY <1>1, <1>2, <2>1, <2>2 DEF OrderOk
<1> QED
    BY <1>1, <1>2, <1>3, <1>4, <1>5

\* A record opens a segment when none is being written or it has no room.
Rolls(s, r) ==
    \/ s.segs = <<>> \/ ~s.open
    \/ Spool!BytesOf(s.segs[Len(s.segs)].recs) + Spool!Need(r) > SegmentBytes

RolledTo(s, r, a) ==
    /\ Len(a.segs) = Len(s.segs) + 1
    /\ /\ a.segs[Len(s.segs) + 1].seq = s.next
       /\ a.segs[Len(s.segs) + 1].recs = <<r>>
       /\ a.segs[Len(s.segs) + 1].disk = 0
    /\ \A k \in 1..Len(s.segs) :
         /\ a.segs[k].seq = s.segs[k].seq /\ a.segs[k].recs = s.segs[k].recs
         /\ a.segs[k].disk = Len(s.segs[k].recs)
    /\ a.next = s.next + 1 /\ a.open = TRUE /\ a.cursor = s.cursor /\ a.dropped = s.dropped
    /\ a.read = IF s.read[1] = 0 THEN <<s.next, 0>> ELSE s.read

LEMMA RollShape ==
    ASSUME NEW s, SpoolOk(s), NEW r \in Records, Rolls(s, r),
           NEW a, a = Spool!AppendUnchecked(s, r)
    PROVE  RolledTo(s, r, a)
<1> DEFINE new == [seq |-> s.next, recs |-> <<r>>, disk |-> 0]
           f == Spool!FlushedLast(s)
           n == Len(s.segs)
<1>1. new \in Segments /\ new.seq = s.next /\ new.recs = <<r>> /\ new.disk = 0
    BY DEF Segments, SpoolOk
<1>2. /\ a.segs = Append(f, new) /\ a.open = TRUE /\ a.next = s.next + 1
      /\ a.cursor = s.cursor /\ a.dropped = s.dropped
      /\ a.read = IF s.read[1] = 0 THEN <<s.next, 0>> ELSE s.read
    <2> DEFINE row == Append(f, new)
               pos == IF s.read[1] = 0 THEN <<s.next, 0>> ELSE s.read
    <2>1. a = [s EXCEPT !.segs = row, !.next = @ + 1, !.open = TRUE, !.read = pos]
        BY DEF Spool!AppendUnchecked, Rolls
    <2> HIDE DEF row, pos
    <2>2. s \in [segs : Seq(Segments), next : Nat, open : BOOLEAN,
                 read : {s.read}, cursor : {s.cursor}, dropped : {s.dropped}]
        BY DEF SpoolOk
    <2>3. a = [segs |-> row, next |-> s.next + 1, open |-> TRUE, read |-> pos,
               cursor |-> s.cursor, dropped |-> s.dropped]
        BY <2>1, <2>2
    <2> QED
        BY <2>3 DEF row, pos
<1> HIDE DEF new, f
<1>3. /\ f \in Seq(Segments) /\ Len(f) = n /\ n \in Nat
      /\ \A k \in 1..n : /\ f[k].seq = s.segs[k].seq /\ f[k].recs = s.segs[k].recs
                         /\ f[k].disk = Len(s.segs[k].recs)
    BY FlushedShape, SegmentHas DEF f
<1>4. Len(a.segs) = n + 1 /\ a.segs[n + 1] = new /\ \A k \in 1..n : a.segs[k] = f[k]
    BY <1>1, <1>2, <1>3
<1> QED
    BY <1>1, <1>2, <1>3, <1>4 DEF RolledTo

\* Or it goes behind the last of the segment being written.
AddedTo(s, r, a) ==
    /\ Len(s.segs) \in 1..Len(s.segs) /\ s.open /\ Len(a.segs) = Len(s.segs)
    /\ a.segs[Len(s.segs)].seq = s.segs[Len(s.segs)].seq
    /\ a.segs[Len(s.segs)].recs = Append(s.segs[Len(s.segs)].recs, r)
    /\ a.segs[Len(s.segs)].disk = s.segs[Len(s.segs)].disk
    /\ \A k \in 1..Len(s.segs) : k # Len(s.segs) => a.segs[k] = s.segs[k]
    /\ a.next = s.next /\ a.open = TRUE /\ a.cursor = s.cursor /\ a.dropped = s.dropped
    /\ a.read = s.read

LEMMA AddShape ==
    ASSUME NEW s, SpoolOk(s), NEW r \in Records, ~Rolls(s, r),
           NEW a, a = Spool!AppendUnchecked(s, r)
    PROVE  AddedTo(s, r, a)
<1> DEFINE n == Len(s.segs)
           last == s.segs[n]
           l == [seq |-> last.seq, recs |-> Append(last.recs, r), disk |-> last.disk]
<1>1. /\ s.open /\ n \in 1..n /\ last \in Segments /\ s.segs \in Seq(Segments)
      /\ DOMAIN s.segs = 1..n /\ n \in Nat /\ s.segs # <<>>
    BY SegmentHas DEF Rolls
<1>2. l \in Segments
    BY <1>1 DEF Segments
<1>3. [last EXCEPT !.recs = Append(@, r)] = l
    <2>1. last \in Segments
        BY <1>1
    <2> HIDE DEF last
    <2> QED
        BY <2>1 DEF Segments
<1>4. a = [s EXCEPT !.segs = [s.segs EXCEPT ![n] = [last EXCEPT !.recs = Append(@, r)]]]
    BY <1>1 DEF Spool!AppendUnchecked, SpoolOk, Rolls
<1>5. /\ a.segs = [s.segs EXCEPT ![n] = l] /\ a.open = TRUE /\ a.next = s.next
      /\ a.cursor = s.cursor /\ a.dropped = s.dropped /\ a.read = s.read
    <2> HIDE DEF l, last
    <2> QED
        BY <1>1, <1>3, <1>4 DEF SpoolOk
<1>6. Len(a.segs) = n /\ a.segs[n] = l /\ \A k \in 1..n : k # n => a.segs[k] = s.segs[k]
    <2> DEFINE q == s.segs
    <2>1. q \in Seq(Segments) /\ Len(q) = n /\ n \in 1..Len(q)
        BY <1>1
    <2>2. a.segs = [q EXCEPT ![n] = l]
        BY <1>5
    <2> HIDE DEF q, l
    <2>3. Len(a.segs) = n /\ a.segs[n] = l /\ \A k \in 1..n : k # n => a.segs[k] = q[k]
        BY <1>2, <2>1, <2>2
    <2> QED
        BY <2>3 DEF q
<1> QED
    BY <1>1, <1>5, <1>6 DEF AddedTo

\* The place a record is written to: the last one of the journal.
NewPlace(s, r) ==
    IF Rolls(s, r) THEN <<s.next, 1>>
    ELSE <<s.segs[Len(s.segs)].seq, Len(s.segs[Len(s.segs)].recs) + 1>>

\* What is known of the numbers of the segments and of the two positions.
LEMMA OrderHas ==
    ASSUME NEW s, SpoolOk(s), OrderOk(s)
    PROVE  /\ s.read \in Positions /\ s.cursor \in Positions /\ s.dropped \in Nat
           /\ s.read[1] \in Nat /\ s.read[2] \in Nat /\ s.cursor[1] \in Nat /\ s.cursor[2] \in Nat
           /\ s.next \in Nat /\ s.next >= 1
           /\ \A k \in 1..Len(s.segs) :
                s.segs[k].seq \in Nat /\ s.segs[k].seq >= 1 /\ s.segs[k].seq < s.next
           /\ \A j, k \in 1..Len(s.segs) : j < k => s.segs[j].seq < s.segs[k].seq
<1>1. \A k \in 1..Len(s.segs) : s.segs[k] \in Segments
    BY SegmentHas
<1>2. \A k \in 1..Len(s.segs) : s.segs[k].seq \in Nat
    BY <1>1 DEF Segments
<1>3. s.read \in Positions /\ s.cursor \in Positions
    BY DEF OrderOk
<1>4. s.read[1] \in Nat /\ s.read[2] \in Nat /\ s.cursor[1] \in Nat /\ s.cursor[2] \in Nat
    BY <1>3 DEF Positions
<1>5. s.next \in Nat /\ DOMAIN s.segs = 1..Len(s.segs)
    BY SegmentHas DEF SpoolOk
<1> QED
    BY <1>2, <1>3, <1>4, <1>5 DEF OrderOk

\* A record written is the last of the journal; the rest stays as it was.
LEMMA AppendDoes ==
    ASSUME NEW s, SpoolOk(s), OrderOk(s), NEW r \in Records,
           NEW a, a = Spool!AppendUnchecked(s, r), NEW p, p = NewPlace(s, r)
    PROVE  /\ SpoolOk(a) /\ OrderOk(a)
           /\ p \in Positions
           /\ Content(a) = Content(s) \cup {<<p[1], p[2], r.id>>}
           /\ \A x \in Content(s) : Later(p, x)
           /\ a.cursor = s.cursor /\ a.dropped = s.dropped
           /\ a.read = IF s.read[1] = 0 THEN <<s.next, 0>> ELSE s.read
<1> DEFINE n == Len(s.segs)
           new == <<p[1], p[2], r.id>>
<1>1. /\ SpoolOk(a) /\ n \in Nat /\ DOMAIN s.segs = 1..n
      /\ \A k \in 1..n : Len(s.segs[k].recs) \in Nat /\ s.segs[k].recs \in Seq(Records)
    BY AppendKeeps, SegmentHas
<1>2. /\ s.read[1] \in Nat /\ s.read[2] \in Nat /\ s.cursor[1] \in Nat /\ s.cursor[2] \in Nat
      /\ s.next \in Nat /\ s.next >= 1 /\ s.read \in Positions /\ s.cursor \in Positions
      /\ s.dropped \in Nat
      /\ \A k \in 1..n : s.segs[k].seq \in Nat /\ s.segs[k].seq >= 1 /\ s.segs[k].seq < s.next
      /\ \A j, k \in 1..n : j < k => s.segs[j].seq < s.segs[k].seq
    BY OrderHas
<1>3. CASE Rolls(s, r)
    <2>1. /\ Len(a.segs) = n + 1
          /\ a.segs[n + 1].seq = s.next /\ a.segs[n + 1].recs = <<r>>
          /\ \A k \in 1..n : a.segs[k].seq = s.segs[k].seq /\ a.segs[k].recs = s.segs[k].recs
          /\ a.next = s.next + 1 /\ a.cursor = s.cursor /\ a.dropped = s.dropped
          /\ a.read = IF s.read[1] = 0 THEN <<s.next, 0>> ELSE s.read
        <3>1. RolledTo(s, r, a)
            BY <1>3, RollShape
        <3> QED
            BY <3>1 DEF RolledTo
    <2>2. p = <<s.next, 1>> /\ p[1] = s.next /\ p[2] = 1 /\ p \in Positions
        BY <1>2, <1>3 DEF NewPlace, Positions
    <2>3. ASSUME NEW x \in Content(s)
          PROVE  x \in Content(a) /\ Later(p, x)
        <3>1. PICK k \in 1..n : \E j \in 1..Len(s.segs[k].recs) : x = At(s, k, j)
            BY ContentIs
        <3>2. PICK j \in 1..Len(s.segs[k].recs) : x = At(s, k, j)
            BY <3>1
        <3>3. k \in 1..Len(a.segs) /\ j \in 1..Len(a.segs[k].recs) /\ x = At(a, k, j)
            <4>1. a.segs[k].seq = s.segs[k].seq /\ a.segs[k].recs = s.segs[k].recs
                BY <2>1
            <4>2. k \in 1..Len(a.segs)
                BY <1>1, <2>1
            <4> QED
                BY <3>2, <4>1, <4>2 DEF At
        <3>4. x[1] = s.segs[k].seq
            BY <3>2 DEF At
        <3> QED
            BY <1>1, <1>2, <2>2, <3>3, <3>4, ContentIs DEF Later
    <2>4. new \in Content(a)
        <3>1. n + 1 \in 1..Len(a.segs) /\ 1 \in 1..Len(a.segs[n + 1].recs) /\ new = At(a, n + 1, 1)
            BY <1>1, <2>1, <2>2 DEF At
        <3> HIDE DEF n
        <3>2. At(a, n + 1, 1) \in Content(a)
            BY <1>1, <3>1, ContentIs
        <3> QED
            BY <3>1, <3>2
    <2>5. ASSUME NEW x \in Content(a)
          PROVE  x \in Content(s) \/ x = new
        <3>1. PICK k \in 1..Len(a.segs) : \E j \in 1..Len(a.segs[k].recs) : x = At(a, k, j)
            BY <1>1, ContentIs
        <3>2. PICK j \in 1..Len(a.segs[k].recs) : x = At(a, k, j)
            BY <3>1
        <3>3. k \in 1..n \/ k = n + 1
            BY <1>1, <2>1
        <3>4. CASE k \in 1..n
            <4>1. j \in 1..Len(s.segs[k].recs) /\ x = At(s, k, j)
                BY <2>1, <3>2, <3>4 DEF At
            <4> QED
                BY <3>4, <4>1, ContentIs
        <3>5. CASE k = n + 1
            <4>1. j \in 1..Len(<<r>>) /\ x = <<s.next, j, <<r>>[j].id>>
                BY <2>1, <3>2, <3>5 DEF At
            <4>2. j = 1
                BY <4>1
            <4> QED
                BY <2>2, <4>1, <4>2
        <3> QED
            BY <3>3, <3>4, <3>5
    <2>6. OrderOk(a)
        <3>1. DOMAIN a.segs = 1..n + 1
            BY <1>1, <2>1, SegmentHas
        <3>2. /\ \A k \in 1..n + 1 : a.segs[k].seq >= 1 /\ a.segs[k].seq < a.next
              /\ \A j, k \in 1..n + 1 : j < k => a.segs[j].seq < a.segs[k].seq
            <4>1. \A k \in 1..n + 1 : k = n + 1 \/ k \in 1..n
                BY <1>1
            <4>2. \A j, k \in 1..n + 1 : j < k => j \in 1..n
                BY <1>1
            <4> HIDE DEF n
            <4>3. ASSUME NEW k \in 1..n + 1
                  PROVE  a.segs[k].seq >= 1 /\ a.segs[k].seq < a.next
                <5>1. CASE k = n + 1
                    BY <1>2, <2>1, <5>1
                <5>2. CASE k \in 1..n
                    BY <1>2, <2>1, <5>2
                <5> QED
                    BY <4>1, <5>1, <5>2
            <4>4. ASSUME NEW j \in 1..n + 1, NEW k \in 1..n + 1, j < k
                  PROVE  a.segs[j].seq < a.segs[k].seq
                <5>1. j \in 1..n
                    BY <4>2, <4>4
                <5>2. CASE k = n + 1
                    BY <1>2, <2>1, <5>1, <5>2
                <5>3. CASE k \in 1..n
                    BY <1>2, <2>1, <4>4, <5>1, <5>3
                <5> QED
                    BY <4>1, <5>2, <5>3
            <4> QED
                BY <4>3, <4>4
        <3>3. <<s.next, 0>> \in Positions /\ <<s.next, 0>>[1] = s.next /\ <<s.next, 0>>[2] = 0
            BY <1>2 DEF Positions
        <3>4. a.read[1] # 0 /\ a.read \in Positions
            BY <1>2, <2>1, <3>3
        <3>5. ~Later(a.cursor, a.read)
            <4>1. ~Later(s.cursor, s.read)
                BY DEF OrderOk
            <4>2. CASE s.read[1] = 0
                BY <1>2, <2>1, <3>3, <4>1, <4>2 DEF Later
            <4>3. CASE s.read[1] # 0
                BY <2>1, <4>1, <4>3
            <4> QED
                BY <4>2, <4>3
        <3> QED
            BY <1>2, <2>1, <3>1, <3>2, <3>4, <3>5 DEF OrderOk
    <2> QED
        BY <1>1, <2>1, <2>2, <2>3, <2>4, <2>5, <2>6
<1>4. CASE ~Rolls(s, r)
    <2>1. /\ n \in 1..n /\ Len(a.segs) = n
          /\ a.segs[n].seq = s.segs[n].seq /\ a.segs[n].recs = Append(s.segs[n].recs, r)
          /\ \A k \in 1..n : k # n => a.segs[k] = s.segs[k]
          /\ a.next = s.next /\ a.cursor = s.cursor /\ a.dropped = s.dropped
          /\ a.read = s.read
        <3>1. AddedTo(s, r, a)
            BY <1>4, AddShape
        <3> QED
            BY <3>1 DEF AddedTo
    <2> DEFINE q == s.segs[n].recs
               m == Len(q) + 1
    <2>2. /\ p = <<s.segs[n].seq, m>> /\ p[1] = s.segs[n].seq /\ p[2] = m
          /\ m \in Nat /\ q \in Seq(Records)
        BY <1>1, <1>4, <2>1 DEF NewPlace
    <2>3. p \in Positions
        BY <1>2, <2>1, <2>2 DEF Positions
    <2> HIDE DEF q
    <2>4. /\ Len(Append(q, r)) = m /\ Append(q, r)[m] = r
          /\ \A j \in 1..Len(q) : Append(q, r)[j] = q[j]
          /\ Len(q) \in Nat
        BY <2>2
    <2>5. ASSUME NEW k \in 1..n
          PROVE  /\ a.segs[k].seq = s.segs[k].seq
                 /\ \A j \in 1..Len(s.segs[k].recs) :
                      j \in 1..Len(a.segs[k].recs) /\ a.segs[k].recs[j] = s.segs[k].recs[j]
        <3>1. CASE k = n
            BY <2>1, <2>4, <3>1 DEF q
        <3>2. CASE k # n
            BY <2>1, <3>2
        <3> QED
            BY <3>1, <3>2
    <2>6. ASSUME NEW x \in Content(s)
          PROVE  x \in Content(a) /\ Later(p, x)
        <3>1. PICK k \in 1..n : \E j \in 1..Len(s.segs[k].recs) : x = At(s, k, j)
            BY ContentIs
        <3>2. PICK j \in 1..Len(s.segs[k].recs) : x = At(s, k, j)
            BY <3>1
        <3>3. k \in 1..Len(a.segs) /\ j \in 1..Len(a.segs[k].recs) /\ x = At(a, k, j)
            BY <2>1, <2>5, <3>2 DEF At
        <3>4. x[1] = s.segs[k].seq /\ x[2] = j
            BY <3>2 DEF At
        <3>5. x \in Content(a)
            BY <1>1, <3>3, ContentIs
        <3>6. k < n \/ k = n
            BY <1>1
        <3>7. k = n => j <= Len(q) /\ j \in Nat
            BY <1>1, <3>2 DEF q
        <3> HIDE DEF n
        <3>8. Later(p, x)
            BY <1>2, <2>1, <2>2, <2>4, <3>4, <3>6, <3>7 DEF Later
        <3> QED
            BY <3>5, <3>8
    <2>7. new \in Content(a)
        <3>1. n \in 1..Len(a.segs) /\ m \in 1..Len(a.segs[n].recs) /\ new = At(a, n, m)
            BY <2>1, <2>2, <2>4 DEF At, q
        <3> HIDE DEF n, m
        <3>2. At(a, n, m) \in Content(a)
            BY <1>1, <3>1, ContentIs
        <3> QED
            BY <3>1, <3>2
    <2>8. ASSUME NEW x \in Content(a)
          PROVE  x \in Content(s) \/ x = new
        <3>1. PICK k \in 1..Len(a.segs) : \E j \in 1..Len(a.segs[k].recs) : x = At(a, k, j)
            BY <1>1, ContentIs
        <3>2. PICK j \in 1..Len(a.segs[k].recs) : x = At(a, k, j)
            BY <3>1
        <3>3. k \in 1..n
            BY <2>1
        <3>4. CASE k # n
            <4>1. j \in 1..Len(s.segs[k].recs) /\ x = At(s, k, j)
                BY <2>1, <3>2, <3>3, <3>4 DEF At
            <4> QED
                BY <3>3, <4>1, ContentIs
        <3>5. CASE k = n
            <4>1. j \in 1..m /\ x = <<s.segs[n].seq, j, Append(q, r)[j].id>>
                BY <2>1, <2>4, <3>2, <3>5 DEF At, q
            <4>2. j = m \/ j \in 1..Len(q)
                BY <2>4, <4>1
            <4>3. CASE j = m
                BY <2>2, <2>4, <4>1, <4>3
            <4>4. CASE j \in 1..Len(q)
                <5>1. x = At(s, n, j) /\ j \in 1..Len(s.segs[n].recs)
                    BY <2>4, <4>1, <4>4 DEF At, q
                <5> QED
                    BY <3>3, <3>5, <5>1, ContentIs
            <4> QED
                BY <4>2, <4>3, <4>4
        <3> QED
            BY <3>4, <3>5
    <2>9. OrderOk(a)
        <3>1. DOMAIN a.segs = 1..n
            BY <1>1, <2>1, SegmentHas
        <3>2. s.segs # <<>> /\ s.read[1] # 0
            BY <1>4 DEF Rolls, OrderOk
        <3>3. ~Later(a.cursor, a.read) /\ a.next >= 1
            BY <2>1 DEF OrderOk
        <3>4. \A k \in 1..n : a.segs[k].seq = s.segs[k].seq
            BY <2>5
        <3> HIDE DEF n
        <3>5. \A k \in 1..n : a.segs[k].seq >= 1 /\ a.segs[k].seq < a.next
            BY <1>2, <2>1, <3>4
        <3>6. \A j, k \in 1..n : j < k => a.segs[j].seq < a.segs[k].seq
            BY <1>2, <3>4
        <3>7. a.read \in Positions /\ a.cursor \in Positions /\ a.dropped \in Nat /\ a.read[1] # 0
            BY <1>2, <2>1, <3>2
        <3> QED
            BY <3>1, <3>3, <3>5, <3>6, <3>7 DEF OrderOk
    <2>10. s.read[1] # 0
        BY <1>4 DEF Rolls, OrderOk
    <2> QED
        BY <1>1, <2>1, <2>3, <2>6, <2>7, <2>8, <2>9, <2>10
<1> QED
    BY <1>3, <1>4

----------------------------------------------------------------------------
(* The order of the journal.                                               *)

\* Records lie in the order they were accepted in.
Sorted(s) == \A x, y \in Content(s) : Later(y, x) /\ x[3] # 0 /\ y[3] # 0 => x[3] < y[3]

\* What the cursor file has not passed and the reader has was sent.
BackSent(s, sent) ==
    \A x \in Content(s) : Later(x, s.cursor) /\ ~Later(x, s.read) /\ x[3] # 0 => x[3] \in sent

\* What is ahead of the reader was sent before, or is younger than all that was.
AheadAbove(s, sent) ==
    \A x \in Content(s) :
        Later(x, s.read) /\ x[3] # 0 /\ x[3] \notin sent => \A m \in sent : m < x[3]

\* The reader is not past the end of the journal.
Reach(s) ==
    \/ s.segs = <<>> /\ (s.read[1] = 0 \/ s.read = <<s.next, 0>>)
    \/ \E x \in Content(s) : ~Later(s.read, x)

\* A cursor found past the end of what a death left is the reader's until
\* either moves.
Anchored(s) == s.cursor = s.read \/ Reach(s)

\* What holds of the journal at every step, whoever is running.
JournalOk(s, sent) ==
    /\ SpoolOk(s) /\ OrderOk(s) /\ Anchored(s)
    /\ Sorted(s) /\ BackSent(s, sent) /\ AheadAbove(s, sent)

\* From s to t nothing is written, and of what was not sent none is passed
\* by the cursor, or comes back, that was not so before.
Quietly(s, t, sent) ==
    /\ Content(t) \subseteq Content(s)
    /\ \A x \in Content(t) : x[3] # 0 /\ x[3] \notin sent =>
         /\ Later(x, t.read) => Later(x, s.read)
         /\ Later(x, t.cursor) /\ ~Later(x, t.read) => Later(x, s.cursor) /\ ~Later(x, s.read)

LEMMA QuietlyKeeps ==
    ASSUME NEW s, NEW t, NEW sent, JournalOk(s, sent),
           SpoolOk(t), OrderOk(t), Anchored(t), Quietly(s, t, sent)
    PROVE  JournalOk(t, sent)
<1>1. Sorted(t)
    BY DEF JournalOk, Quietly, Sorted
<1>2. BackSent(t, sent)
    <2>1. ASSUME NEW x \in Content(t), Later(x, t.cursor), ~Later(x, t.read), x[3] # 0,
                 x[3] \notin sent
          PROVE  FALSE
        <3>1. x \in Content(s) /\ Later(x, s.cursor) /\ ~Later(x, s.read)
            BY <2>1 DEF Quietly
        <3> QED
            BY <2>1, <3>1 DEF JournalOk, BackSent
    <2> QED
        BY <2>1 DEF BackSent
<1>3. AheadAbove(t, sent)
    <2>1. ASSUME NEW x \in Content(t), Later(x, t.read), x[3] # 0, x[3] \notin sent
          PROVE  \A m \in sent : m < x[3]
        <3>1. x \in Content(s) /\ Later(x, s.read)
            BY <2>1 DEF Quietly
        <3> QED
            BY <2>1, <3>1 DEF JournalOk, AheadAbove
    <2> QED
        BY <2>1 DEF AheadAbove
<1> QED
    BY <1>1, <1>2, <1>3 DEF JournalOk

LEMMA ContentEmpty ==
    ASSUME NEW s, SpoolOk(s)
    PROVE  s.segs = <<>> <=> Content(s) = {}
<1>1. /\ Len(s.segs) \in Nat /\ s.segs \in Seq(Segments)
      /\ \A k \in 1..Len(s.segs) : /\ s.segs[k].recs \in Seq(Records)
                                   /\ s.segs[k].recs # <<>> /\ Len(s.segs[k].recs) \in Nat
    BY SegmentHas
<1>2. ASSUME s.segs # <<>>
      PROVE  Content(s) # {}
    <2>1. 1 \in 1..Len(s.segs)
        BY <1>1, <1>2
    <2>2. s.segs[1].recs \in Seq(Records) /\ s.segs[1].recs # <<>>
        BY <1>1, <2>1
    <2>3. 1 \in 1..Len(s.segs[1].recs)
        BY <2>2
    <2> QED
        BY <2>1, <2>3, ContentIs
<1>3. ASSUME s.segs = <<>>
      PROVE  Content(s) = {}
    <2>1. DOMAIN s.segs = {}
        BY <1>3
    <2> QED
        BY <2>1 DEF Content
<1> QED
    BY <1>2, <1>3

\* What leaves the journal for want of room the reader had passed, or passes.
LEMMA DropIsQuiet ==
    ASSUME NEW s, NEW sent, JournalOk(s, sent), NEW need, NEW written,
           NEW d, d = Spool!DropOldest(s, need, written)
    PROVE  JournalOk(d, sent) /\ Content(d) \subseteq Content(s) /\ (Reach(s) => Reach(d))
<1> DEFINE b == Bound(s, need)
<1>1. SpoolOk(s) /\ OrderOk(s)
    BY DEF JournalOk
<1>2. /\ SpoolOk(d) /\ OrderOk(d) /\ d.next = s.next /\ b \in Nat
      /\ Content(d) = {x \in Content(s) : x[1] >= b}
      /\ \/ /\ d.read = s.read /\ d.cursor = s.cursor
            /\ \A x \in Content(s) : x[1] < b => x[1] < s.read[1]
         \/ /\ d.read = <<b, 0>> /\ d.cursor \in {s.cursor, d.read}
            /\ s.read[1] < b
    BY <1>1, DropDoes
<1>3. d.segs = <<>> => b = s.next
    <2>1. Spool!Gone(s, need) \in 0..Len(s.segs) /\ Len(d.segs) = Len(s.segs) - Spool!Gone(s, need)
        BY <1>1, DropShape DEF OrderOk
    <2>2. Len(s.segs) \in Nat
        BY <1>1, SegmentHas
    <2>3. d.segs = <<>> => Spool!Gone(s, need) = Len(s.segs)
        BY <2>1, <2>2
    <2> QED
        BY <2>3 DEF Bound
<1>4. /\ \A x \in Content(s) : x[1] \in Nat /\ x[2] \in Nat /\ x[2] >= 1
      /\ s.read[1] \in Nat /\ s.read[2] \in Nat /\ s.cursor[1] \in Nat /\ s.cursor[2] \in Nat
    BY <1>1, ContentIs, OrderHas
<1> HIDE DEF b
<1>5. CASE d.read = <<b, 0>> /\ d.cursor \in {s.cursor, d.read} /\ s.read[1] < b
    <2>1. \A x \in Content(d) : Later(x, d.read) /\ Later(x, s.read) /\ ~Later(d.read, x)
        BY <1>2, <1>4, <1>5 DEF Later
    <2>2. Reach(d)
        <3>1. CASE d.segs = <<>>
            BY <1>2, <1>3, <1>5, <3>1 DEF Reach
        <3>2. CASE d.segs # <<>>
            BY <1>2, <2>1, <3>2, ContentEmpty DEF Reach
        <3> QED
            BY <3>1, <3>2
    <2>3. Quietly(s, d, sent)
        BY <1>2, <2>1 DEF Quietly
    <2> QED
        BY <1>2, <2>2, <2>3, QuietlyKeeps DEF Anchored
<1>6. CASE d.read = s.read /\ d.cursor = s.cursor
           /\ \A x \in Content(s) : x[1] < b => x[1] < s.read[1]
    <2>1. Reach(s) => Reach(d)
        <3>1. CASE s.segs = <<>> /\ (s.read[1] = 0 \/ s.read = <<s.next, 0>>)
            <4>1. d.segs = <<>>
                BY <1>1, <1>2, <3>1, ContentEmpty
            <4> QED
                BY <1>2, <1>6, <3>1, <4>1 DEF Reach
        <3>2. ASSUME NEW x \in Content(s), ~Later(s.read, x)
              PROVE  Reach(d)
            <4>1. ~(x[1] < s.read[1])
                BY <1>4, <3>2 DEF Later
            <4>2. x \in Content(d)
                BY <1>2, <1>4, <1>6, <4>1
            <4> QED
                BY <1>6, <3>2, <4>2 DEF Reach
        <3> QED
            BY <3>1, <3>2 DEF Reach
    <2>2. Anchored(d)
        BY <1>6, <2>1 DEF JournalOk, Anchored
    <2>3. Quietly(s, d, sent)
        BY <1>2, <1>6 DEF Quietly
    <2> QED
        BY <1>2, <2>1, <2>2, <2>3, QuietlyKeeps
<1> QED
    BY <1>2, <1>5, <1>6

\* The numbers of the records the journal holds.
Numbers(s) == {x[3] : x \in Content(s)}

\* A record to be written, unless it is the worker's own.
Youngest(r, s, sent) ==
    r.id # 0 => \A m \in Numbers(s) \cup sent : m < r.id

\* A record written goes behind all the others.
LEMMA AppendIsInOrder ==
    ASSUME NEW s, NEW sent, JournalOk(s, sent), NEW r \in Records, Youngest(r, s, sent),
           NEW a, a = Spool!AppendUnchecked(s, r)
    PROVE  /\ JournalOk(a, sent) /\ Numbers(a) \subseteq Numbers(s) \cup {r.id}
           /\ AheadIds(s) \subseteq AheadIds(a) /\ a.dropped = s.dropped
           /\ Reach(s) => Reach(a) /\ {r.id} \ {0} \subseteq AheadIds(a)
<1> DEFINE p == NewPlace(s, r)
           new == <<p[1], p[2], r.id>>
<1>1. SpoolOk(s) /\ OrderOk(s)
    BY DEF JournalOk
<1>2. /\ SpoolOk(a) /\ OrderOk(a) /\ p \in Positions
      /\ Content(a) = Content(s) \cup {new}
      /\ \A x \in Content(s) : Later(p, x)
      /\ a.cursor = s.cursor /\ a.dropped = s.dropped
      /\ a.read = IF s.read[1] = 0 THEN <<s.next, 0>> ELSE s.read
    BY <1>1, AppendDoes
<1>3. /\ \A x \in Content(s) : x[1] \in Nat /\ x[2] \in Nat /\ x[2] >= 1 /\ x[3] \in Nat
      /\ s.read[1] \in Nat /\ s.read[2] \in Nat /\ s.cursor[1] \in Nat /\ s.cursor[2] \in Nat
      /\ s.next \in Nat /\ s.read \in Positions /\ a.read \in Positions
    BY <1>1, <1>2, ContentIs, OrderHas
<1>4. s.segs = <<>> => p = <<s.next, 1>> /\ Content(s) = {}
    BY <1>1, ContentEmpty DEF NewPlace, Rolls
<1>5. s.read[1] = 0 => s.segs = <<>>
    BY <1>1 DEF OrderOk
<1>6. p[1] \in Nat /\ p[2] \in Nat
    BY <1>2 DEF Positions
<1>7. new[1] = p[1] /\ new[2] = p[2] /\ new[3] = r.id /\ r.id \in Nat
    BY DEF Records
<1> HIDE DEF p, new
<1>8. Sorted(a)
    <2>1. ASSUME NEW x \in Content(a), NEW y \in Content(a), Later(y, x), x[3] # 0, y[3] # 0
          PROVE  x[3] < y[3]
        <3>1. CASE x \in Content(s) /\ y \in Content(s)
            BY <2>1, <3>1 DEF JournalOk, Sorted
        <3>2. CASE x \in Content(s) /\ y = new
            <4>1. x[3] \in Numbers(s) /\ r.id # 0
                BY <1>7, <2>1, <3>2 DEF Numbers
            <4> QED
                BY <1>7, <3>2, <4>1 DEF Youngest
        <3>3. CASE x = new /\ y \in Content(s)
            <4>1. Later(p, y) /\ Later(y, p)
                BY <1>2, <1>7, <2>1, <3>3 DEF Later
            <4> QED
                BY <1>3, <1>6, <3>3, <4>1 DEF Later
        <3>4. CASE x = new /\ y = new
            BY <1>6, <1>7, <2>1, <3>4 DEF Later
        <3> QED
            BY <1>2, <3>1, <3>2, <3>3, <3>4
    <2> QED
        BY <2>1 DEF Sorted
<1>9. s.read[1] = 0 => Later(new, a.read) /\ ~Later(a.read, new)
    <2>1. ASSUME s.read[1] = 0
          PROVE  Later(new, a.read) /\ ~Later(a.read, new)
        <3>1. a.read[1] = s.next /\ a.read[2] = 0 /\ new[1] = s.next /\ new[2] = 1
            BY <1>2, <1>4, <1>5, <1>7, <2>1
        <3> QED
            BY <1>3, <3>1 DEF Later
    <2> QED
        BY <2>1
<1>10. Reach(s) => Reach(a) /\ Later(new, a.read)
    <2>1. CASE s.segs = <<>> /\ (s.read[1] = 0 \/ s.read = <<s.next, 0>>)
        <3>1. a.read[1] = s.next /\ a.read[2] = 0 /\ new[1] = s.next /\ new[2] = 1
            BY <1>2, <1>4, <1>7, <2>1
        <3>2. Later(new, a.read) /\ ~Later(a.read, new)
            BY <1>3, <3>1 DEF Later
        <3> QED
            BY <1>2, <3>2 DEF Reach
    <2>2. ASSUME NEW x \in Content(s), ~Later(s.read, x)
          PROVE  Reach(a) /\ Later(new, a.read)
        <3>1. a.read = s.read
            BY <1>2, <1>4, <1>5, <2>2
        <3>2. Later(p, x)
            BY <1>2
        <3>3. Later(new, s.read)
            BY <1>3, <1>6, <1>7, <2>2, <3>2 DEF Later
        <3> QED
            BY <1>2, <2>2, <3>1, <3>3 DEF Reach
    <2> QED
        BY <2>1, <2>2 DEF Reach
<1>11. Anchored(a)
    <2>1. CASE Reach(s)
        BY <1>10, <2>1 DEF Anchored
    <2>2. CASE s.cursor = s.read /\ s.read[1] = 0
        BY <1>2, <1>9, <2>2 DEF Anchored, Reach
    <2>3. CASE s.cursor = s.read /\ s.read[1] # 0
        BY <1>2, <2>3 DEF Anchored
    <2> QED
        BY <2>1, <2>2, <2>3 DEF JournalOk, Anchored
<1>12. BackSent(a, sent)
    <2>1. ASSUME NEW x \in Content(a), Later(x, a.cursor), ~Later(x, a.read), x[3] # 0
          PROVE  x[3] \in sent
        <3>1. CASE x = new
            <4>1. ~Reach(s) /\ s.read[1] # 0
                BY <1>9, <1>10, <2>1, <3>1
            <4>2. a.cursor = a.read
                BY <1>2, <4>1 DEF JournalOk, Anchored
            <4> QED
                BY <2>1, <4>2
        <3>2. CASE x \in Content(s)
            <4>1. a.read = s.read
                BY <1>2, <1>4, <1>5, <3>2
            <4> QED
                BY <1>2, <2>1, <3>2, <4>1 DEF JournalOk, BackSent
        <3> QED
            BY <1>2, <3>1, <3>2
    <2> QED
        BY <2>1 DEF BackSent
<1>13. AheadAbove(a, sent)
    <2>1. ASSUME NEW x \in Content(a), Later(x, a.read), x[3] # 0, x[3] \notin sent
          PROVE  \A m \in sent : m < x[3]
        <3>1. CASE x = new
            BY <1>7, <2>1, <3>1 DEF Youngest
        <3>2. CASE x \in Content(s)
            <4>1. a.read = s.read
                BY <1>2, <1>4, <1>5, <3>2
            <4> QED
                BY <2>1, <3>2, <4>1 DEF JournalOk, AheadAbove
        <3> QED
            BY <1>2, <3>1, <3>2
    <2> QED
        BY <2>1 DEF AheadAbove
<1>14. JournalOk(a, sent)
    BY <1>2, <1>8, <1>11, <1>12, <1>13 DEF JournalOk
<1>15. AheadIds(s) \subseteq AheadIds(a) /\ (Reach(s) => {r.id} \ {0} \subseteq AheadIds(a))
    <2>1. /\ AheadIds(s) = {n \in Nat \ {0} : \E x \in Content(s) : Later(x, s.read) /\ x[3] = n}
          /\ AheadIds(a) = {n \in Nat \ {0} : \E x \in Content(a) : Later(x, a.read) /\ x[3] = n}
        BY <1>1, <1>2, <1>3, AheadIs
    <2>2. ASSUME NEW x \in Content(s), Later(x, s.read)
          PROVE  x \in Content(a) /\ Later(x, a.read)
        BY <1>2, <1>4, <1>5, <2>2
    <2>3. new \in Content(a)
        BY <1>2
    <2> QED
        BY <1>7, <1>10, <2>1, <2>2, <2>3
<1>16. Numbers(a) \subseteq Numbers(s) \cup {r.id}
    BY <1>2, <1>7 DEF Numbers
<1> QED
    BY <1>2, <1>10, <1>14, <1>15, <1>16

\* append: what had not been read and is gone is in the count.
LEMMA SpoolAppendDoes ==
    ASSUME NEW s, NEW sent, JournalOk(s, sent), NEW r \in Records, Youngest(r, s, sent),
           NEW written, NEW a, a = Spool!SpoolAppend(s, r, written)
    PROVE  /\ JournalOk(a, sent) /\ Numbers(a) \subseteq Numbers(s) \cup {r.id}
           /\ a.dropped - s.dropped \in Nat
           /\ IsFiniteSet(AheadIds(s) \ AheadIds(a))
           /\ Cardinality(AheadIds(s) \ AheadIds(a)) <= a.dropped - s.dropped
           /\ Reach(s) => Reach(a) /\ {r.id} \ {0} \subseteq AheadIds(a)
<1> DEFINE d == Spool!DropOldest(s, Spool!Need(r), written)
<1>1. /\ JournalOk(d, sent) /\ Content(d) \subseteq Content(s)
      /\ Reach(s) => Reach(d)
    BY DropIsQuiet
<1>2. /\ d.dropped - s.dropped \in Nat /\ IsFiniteSet(AheadIds(s) \ AheadIds(d))
      /\ Cardinality(AheadIds(s) \ AheadIds(d)) <= d.dropped - s.dropped
    BY DropCounts DEF JournalOk
<1>3. a = Spool!AppendUnchecked(d, r)
    BY DEF Spool!SpoolAppend
<1> HIDE DEF d
<1>4. Youngest(r, d, sent) /\ Numbers(d) \subseteq Numbers(s)
    BY <1>1 DEF Youngest, Numbers
<1>5. /\ JournalOk(a, sent) /\ Numbers(a) \subseteq Numbers(d) \cup {r.id}
      /\ AheadIds(d) \subseteq AheadIds(a) /\ a.dropped = d.dropped
      /\ Reach(d) => Reach(a) /\ {r.id} \ {0} \subseteq AheadIds(a)
    BY <1>1, <1>3, <1>4, AppendIsInOrder
<1>6. AheadIds(s) \ AheadIds(a) \subseteq AheadIds(s) \ AheadIds(d)
    BY <1>5
<1>7. /\ IsFiniteSet(AheadIds(s) \ AheadIds(a))
      /\ Cardinality(AheadIds(s) \ AheadIds(a)) <= Cardinality(AheadIds(s) \ AheadIds(d))
    BY <1>2, <1>6, FS_Subset
<1>8. Cardinality(AheadIds(s) \ AheadIds(a)) \in Nat /\ Cardinality(AheadIds(s) \ AheadIds(d)) \in Nat
    BY <1>2, <1>7, FS_CardinalityType
<1>9. Cardinality(AheadIds(s) \ AheadIds(a)) <= a.dropped - s.dropped /\ a.dropped - s.dropped \in Nat
    BY <1>2, <1>5, <1>7, <1>8
<1> QED
    BY <1>1, <1>4, <1>5, <1>7, <1>9

\* The same records at the same places, read and passed as far.
LEMMA SamePlaces ==
    ASSUME NEW s, NEW sent, JournalOk(s, sent), NEW t, SpoolOk(t), OrderOk(t),
           Content(t) = Content(s), t.read = s.read, t.cursor = s.cursor, t.next = s.next
    PROVE  /\ JournalOk(t, sent) /\ AheadIds(t) = AheadIds(s) /\ Numbers(t) = Numbers(s)
           /\ Reach(s) => Reach(t)
<1>1. SpoolOk(s) /\ OrderOk(s) /\ s.read \in Positions
    BY DEF JournalOk, OrderOk
<1>2. Reach(s) => Reach(t)
    BY <1>1, ContentEmpty DEF Reach
<1>3. Anchored(t)
    BY <1>2 DEF JournalOk, Anchored
<1>4. Quietly(s, t, sent)
    BY DEF Quietly
<1>5. JournalOk(t, sent)
    BY <1>3, <1>4, QuietlyKeeps
<1>6. AheadIds(t) = AheadIds(s)
    BY <1>1, AheadIs
<1> QED
    BY <1>2, <1>5, <1>6 DEF Numbers

\* Flushing, and taking the count of what was dropped, move nothing.
LEMMA FlushIsQuiet ==
    ASSUME NEW s, NEW sent, JournalOk(s, sent), NEW f, f = Spool!Flush(s)
    PROVE  /\ JournalOk(f, sent) /\ AheadIds(f) = AheadIds(s) /\ Numbers(f) = Numbers(s)
           /\ Reach(s) => Reach(f)
           /\ f.dropped = s.dropped
<1>1. SpoolOk(s) /\ OrderOk(s)
    BY DEF JournalOk
<1>2. /\ SpoolOk(f) /\ OrderOk(f) /\ Content(f) = Content(s)
      /\ f.read = s.read /\ f.cursor = s.cursor /\ f.dropped = s.dropped /\ f.next = s.next
    BY <1>1, FlushDoes
<1> QED
    BY <1>2, SamePlaces

LEMMA TakenIsQuiet ==
    ASSUME NEW s, NEW sent, JournalOk(s, sent), NEW t, t = [s EXCEPT !.dropped = 0]
    PROVE  /\ JournalOk(t, sent) /\ AheadIds(t) = AheadIds(s) /\ Numbers(t) = Numbers(s)
           /\ Reach(s) => Reach(t)
           /\ t.dropped = 0
<1>1. SpoolOk(s) /\ OrderOk(s)
    BY DEF JournalOk
<1>2. /\ t.segs = s.segs /\ t.read = s.read /\ t.cursor = s.cursor /\ t.next = s.next /\ t.dropped = 0
    BY <1>1 DEF SpoolOk
<1>3. SpoolOk(t)
    BY <1>1, CountTaken
<1>4. OrderOk(t) /\ Content(t) = Content(s)
    BY <1>1, <1>2 DEF OrderOk, Content, Later
<1> QED
    BY <1>2, <1>3, <1>4, SamePlaces

\* The segment the reader stands in.
LEMMA ReadIndexIs ==
    ASSUME NEW s, SpoolOk(s), NEW k, k = Spool!ReadIndex(s)
    PROVE  \/ k = 0 /\ \A i \in 1..Len(s.segs) : s.segs[i].seq # s.read[1]
           \/ k \in 1..Len(s.segs) /\ k # 0 /\ s.segs[k].seq = s.read[1]
<1> DEFINE here == {i \in DOMAIN s.segs : s.segs[i].seq = s.read[1]}
<1>1. DOMAIN s.segs = 1..Len(s.segs) /\ Len(s.segs) \in Nat
    BY SegmentHas
<1>2. CASE here = {}
    <2>1. k = 0
        BY <1>2 DEF Spool!ReadIndex
    <2> QED
        BY <1>1, <1>2, <2>1
<1>3. CASE here # {}
    <2>1. k = Spool!Min(here) /\ here \in SUBSET Nat
        BY <1>1, <1>3 DEF Spool!ReadIndex
    <2>2. k \in here
        BY <1>3, <2>1, MinIsIn
    <2> QED
        BY <1>1, <2>2
<1> QED
    BY <1>2, <1>3

\* What the search for the next record does to the spool.
Jumps(s, f) ==
    /\ s.segs # <<>> /\ s.segs[1].seq > s.read[1]
    /\ f.segs = s.segs /\ f.next = s.next /\ f.open = s.open /\ f.dropped = s.dropped
    /\ f.cursor = s.cursor /\ f.read = <<s.segs[1].seq, 0>>

\* Past a segment read to its end to the next one, the read one deleted.
Leaves(s, f, k) ==
    /\ k \in 1..Len(s.segs) /\ k < Len(s.segs)
    /\ s.segs[k].seq = s.read[1] /\ s.read[2] >= Len(s.segs[k].recs)
    /\ Len(f.segs) = Len(s.segs) - 1
    /\ \A i \in 1..Len(s.segs) - 1 : f.segs[i] = s.segs[IF i < k THEN i ELSE i + 1]
    /\ f.next = s.next /\ f.open = s.open /\ f.dropped = s.dropped
    /\ f.read = <<s.segs[k + 1].seq, 0>> /\ f.cursor \in {s.cursor, f.read}

LEMMA SeekShape ==
    ASSUME NEW s, SpoolOk(s), NEW written, NEW f, f = Spool!Seek(s, written)
    PROVE  f = s \/ Jumps(s, f) \/ Leaves(s, f, Spool!ReadIndex(s))
<1> DEFINE k == Spool!ReadIndex(s)
           n == Len(s.segs)
           jump == k = 0 /\ s.segs # <<>> /\ s.segs[1].seq > s.read[1]
<1>1. /\ s.segs \in Seq(Segments) /\ n \in Nat
      /\ s \in [segs : Seq(Segments), next : Nat, open : BOOLEAN,
                read : {s.read}, cursor : {s.cursor}, dropped : {s.dropped}]
    BY SegmentHas DEF SpoolOk
<1>2. CASE jump
    <2>1. f = [s EXCEPT !.read = <<s.segs[1].seq, 0>>]
        BY <1>2 DEF Spool!Seek
    <2> QED
        BY <1>1, <1>2, <2>1 DEF Jumps
<1>3. CASE ~jump /\ Spool!LeavesSegment(s)
    <2> DEFINE rest == Spool!RemoveAt(s.segs, k)
               to == <<s.segs[k + 1].seq, 0>>
               m == [s EXCEPT !.segs = rest]
    <2>1. f = Spool!MoveTo(m, to, written)
        BY <1>3 DEF Spool!Seek
    <2>2. k # 0 /\ k < n /\ s.read[2] >= Len(s.segs[k].recs)
        BY <1>3 DEF Spool!LeavesSegment, Spool!Exhausted
    <2>3. k \in 1..n /\ s.segs[k].seq = s.read[1]
        BY <2>2, ReadIndexIs
    <2> HIDE DEF k
    <2>4. Len(rest) = n - 1 /\ \A i \in 1..n - 1 : rest[i] = s.segs[IF i < k THEN i ELSE i + 1]
        <3> DEFINE q == s.segs
                   front == SubSeq(q, 1, k - 1)
                   back == SubSeq(q, k + 1, n)
        <3>1. /\ front \in Seq(Segments) /\ Len(front) = k - 1
              /\ \A i \in 1..k - 1 : front[i] = q[i]
            BY <1>1, <2>3
        <3>2. /\ back \in Seq(Segments) /\ Len(back) = n - k
              /\ \A i \in 1..n - k : back[i] = q[i + k]
            BY <1>1, <2>2, <2>3
        <3>3. rest = front \o back
            BY DEF Spool!RemoveAt
        <3> HIDE DEF q, front, back, rest
        <3>4. (k - 1) + (n - k) = n - 1 /\ n - 1 \in Nat
            BY <1>1, <2>3
        <3>5. /\ Len(rest) = Len(front) + Len(back)
              /\ \A i \in 1..Len(front) + Len(back) :
                   rest[i] = IF i <= Len(front) THEN front[i] ELSE back[i - Len(front)]
            BY <3>1, <3>2, <3>3, ConcatProperties
        <3>6. Len(rest) = n - 1
            BY <3>1, <3>2, <3>4, <3>5
        <3>7. ASSUME NEW i \in 1..n - 1
              PROVE  rest[i] = q[IF i < k THEN i ELSE i + 1]
            <4>1. rest[i] = IF i <= k - 1 THEN front[i] ELSE back[i - (k - 1)]
                BY <3>1, <3>2, <3>4, <3>5
            <4>2. CASE i < k
                BY <1>1, <2>3, <3>1, <4>1, <4>2
            <4>3. CASE ~(i < k)
                <5>1. i - (k - 1) \in 1..n - k /\ (i - (k - 1)) + k = i + 1 /\ ~(i <= k - 1)
                    BY <1>1, <2>3, <4>3
                <5>2. back[i - (k - 1)] = q[i + 1]
                    BY <3>2, <5>1
                <5> QED
                    BY <4>1, <4>3, <5>1, <5>2
            <4> QED
                BY <4>2, <4>3
        <3> QED
            BY <3>6, <3>7 DEF q
    <2> HIDE DEF rest, to
    <2>5. /\ f.segs = rest /\ f.next = s.next /\ f.open = s.open /\ f.dropped = s.dropped
          /\ f.read = to /\ f.cursor \in {s.cursor, to}
        BY <1>1, <2>1 DEF Spool!MoveTo
    <2>6. Leaves(s, f, k)
        BY <2>2, <2>3, <2>4, <2>5 DEF Leaves, to
    <2> QED
        BY <2>6 DEF k
<1>4. CASE ~jump /\ ~Spool!LeavesSegment(s)
    BY <1>4 DEF Spool!Seek
<1> QED
    BY <1>2, <1>3, <1>4

\* To the oldest segment, past a gap: nothing lies before it.
LEMMA JumpIsQuiet ==
    ASSUME NEW s, NEW sent, JournalOk(s, sent), NEW f, Jumps(s, f), SpoolOk(f)
    PROVE  JournalOk(f, sent) /\ AheadIds(f) = AheadIds(s) /\ Numbers(f) = Numbers(s) /\ Reach(f)
<1> DEFINE o == s.segs[1].seq
<1>1. SpoolOk(s) /\ OrderOk(s) /\ f.segs = s.segs /\ f.read = <<o, 0>> /\ o > s.read[1]
      /\ f.cursor = s.cursor /\ f.next = s.next /\ f.dropped = s.dropped /\ s.segs # <<>>
    BY DEF JournalOk, Jumps
<1>2. /\ s.read[1] \in Nat /\ s.read[2] \in Nat /\ s.cursor[1] \in Nat /\ s.cursor[2] \in Nat
      /\ s.read \in Positions
      /\ \A k \in 1..Len(s.segs) : s.segs[k].seq \in Nat
      /\ \A j, k \in 1..Len(s.segs) : j < k => s.segs[j].seq < s.segs[k].seq
      /\ 1 \in 1..Len(s.segs) /\ Len(s.segs) \in Nat
    BY <1>1, OrderHas, SegmentHas
<1>3. o \in Nat /\ f.read \in Positions /\ f.read[1] = o /\ f.read[2] = 0
    BY <1>1, <1>2 DEF Positions
<1>4. Content(f) = Content(s)
    BY <1>1 DEF Content
<1>5. ASSUME NEW x \in Content(s)
      PROVE  x[1] >= o /\ x[1] \in Nat /\ x[2] \in Nat /\ x[2] >= 1
    <2>1. PICK k \in 1..Len(s.segs) : \E j \in 1..Len(s.segs[k].recs) : x = At(s, k, j)
        BY <1>1, ContentIs
    <2>2. x[1] = s.segs[k].seq
        BY <2>1 DEF At
    <2>3. k = 1 \/ 1 < k
        BY <1>2
    <2>4. x[1] >= o
        BY <1>2, <2>2, <2>3
    <2> QED
        BY <1>1, <2>4, ContentIs
<1> HIDE DEF o
<1>6. \A x \in Content(s) : Later(x, s.read) /\ Later(x, f.read) /\ ~Later(f.read, x)
    BY <1>1, <1>2, <1>3, <1>5 DEF Later
<1>7. OrderOk(f)
    <2>1. ~Later(s.cursor, s.read)
        BY <1>1 DEF OrderOk
    <2>2. ~Later(f.cursor, f.read)
        BY <1>1, <1>2, <1>3, <2>1 DEF Later
    <2> QED
        BY <1>1, <1>2, <1>3, <2>2 DEF OrderOk
<1>8. Reach(f)
    BY <1>1, <1>4, <1>6, ContentEmpty DEF Reach
<1>9. Quietly(s, f, sent)
    BY <1>4, <1>6 DEF Quietly
<1>10. AheadIds(f) = AheadIds(s)
    <2>1. /\ AheadIds(s) = {n \in Nat \ {0} : \E x \in Content(s) : Later(x, s.read) /\ x[3] = n}
          /\ AheadIds(f) = {n \in Nat \ {0} : \E x \in Content(f) : Later(x, f.read) /\ x[3] = n}
        BY <1>1, <1>2, <1>3, AheadIs
    <2> QED
        BY <1>4, <1>6, <2>1
<1> QED
    BY <1>4, <1>7, <1>8, <1>9, <1>10, QuietlyKeeps DEF Anchored, Numbers

\* To the next segment: the one deleted was read to its end.
LEMMA LeaveIsQuiet ==
    ASSUME NEW s, NEW sent, JournalOk(s, sent), NEW f, NEW k, Leaves(s, f, k), SpoolOk(f)
    PROVE  JournalOk(f, sent) /\ AheadIds(f) = AheadIds(s)
           /\ Content(f) \subseteq Content(s) /\ Reach(f)
<1> DEFINE n == Len(s.segs)
           o == s.segs[k + 1].seq
<1>1. /\ SpoolOk(s) /\ OrderOk(s)
      /\ k \in 1..n /\ k < n
      /\ s.segs[k].seq = s.read[1] /\ s.read[2] >= Len(s.segs[k].recs)
      /\ Len(f.segs) = n - 1
      /\ \A i \in 1..n - 1 : f.segs[i] = s.segs[IF i < k THEN i ELSE i + 1]
      /\ f.next = s.next /\ f.dropped = s.dropped
      /\ f.read = <<o, 0>> /\ f.cursor \in {s.cursor, f.read}
    BY DEF JournalOk, Leaves
<1>2. /\ s.read[1] \in Nat /\ s.read[2] \in Nat /\ s.cursor[1] \in Nat /\ s.cursor[2] \in Nat
      /\ s.read \in Positions /\ s.cursor \in Positions /\ s.dropped \in Nat
      /\ n \in Nat
      /\ \A i \in 1..n : /\ s.segs[i].seq \in Nat /\ s.segs[i].seq >= 1 /\ s.segs[i].seq < s.next
                         /\ Len(s.segs[i].recs) \in Nat
      /\ \A i, j \in 1..n : i < j => s.segs[i].seq < s.segs[j].seq
    BY <1>1, OrderHas, SegmentHas
<1>3. k + 1 \in 1..n /\ k \in 1..n - 1 /\ \A i \in 1..n - 1 : (IF i < k THEN i ELSE i + 1) \in 1..n
    BY <1>1, <1>2
<1>4. /\ o \in Nat /\ s.read[1] < o /\ o >= 1 /\ f.read \in Positions
      /\ f.read[1] = o /\ f.read[2] = 0
    BY <1>1, <1>2, <1>3 DEF Positions
<1>5. ASSUME NEW x \in Content(f)
      PROVE  /\ x \in Content(s) /\ x[1] \in Nat /\ x[2] \in Nat /\ x[2] >= 1
             /\ x[1] < s.read[1] \/ x[1] >= o
    <2>1. PICK i \in 1..n - 1 : \E j \in 1..Len(f.segs[i].recs) : x = At(f, i, j)
        <3>1. \E i \in 1..Len(f.segs) : \E j \in 1..Len(f.segs[i].recs) : x = At(f, i, j)
            BY ContentIs
        <3> HIDE DEF n
        <3> QED
            BY <1>1, <3>1
    <2>2. PICK j \in 1..Len(f.segs[i].recs) : x = At(f, i, j)
        BY <2>1
    <2> DEFINE l == IF i < k THEN i ELSE i + 1
    <2>3. l \in 1..n /\ (l < k \/ l = k + 1 \/ k + 1 < l) /\ f.segs[i] = s.segs[l]
        BY <1>1, <1>2, <1>3
    <2> HIDE DEF l
    <2>4. x = At(s, l, j) /\ j \in 1..Len(s.segs[l].recs) /\ x[1] = s.segs[l].seq
        BY <2>2, <2>3 DEF At
    <2>5. x \in Content(s)
        BY <1>1, <2>3, <2>4, ContentIs
    <2>6. x[1] < s.read[1] \/ x[1] >= o
        <3>1. k \in 1..n /\ k + 1 \in 1..n /\ s.segs[k].seq = s.read[1] /\ s.segs[k + 1].seq = o
            BY <1>1, <1>3
        <3> HIDE DEF n, o
        <3> QED
            BY <1>2, <1>4, <2>3, <2>4, <3>1
    <2>7. x[1] \in Nat /\ x[2] \in Nat /\ x[2] >= 1
        BY ContentIs
    <2> QED
        BY <2>5, <2>6, <2>7
<1>6. ASSUME NEW x \in Content(s), Later(x, s.read)
      PROVE  x \in Content(f) /\ Later(x, f.read)
    <2>1. PICK l \in 1..n : \E j \in 1..Len(s.segs[l].recs) : x = At(s, l, j)
        BY <1>1, ContentIs
    <2>2. PICK j \in 1..Len(s.segs[l].recs) : x = At(s, l, j)
        BY <2>1
    <2>3. x[1] = s.segs[l].seq /\ x[2] = j
        BY <2>2 DEF At
    <2>4. l # k
        <3>1. ASSUME l = k
              PROVE  FALSE
            <4>1. x[1] = s.read[1] /\ j <= Len(s.segs[k].recs) /\ j \in Nat
                BY <1>1, <1>2, <2>2, <2>3, <3>1
            <4>2. s.read[2] < x[2] /\ s.read[2] >= Len(s.segs[k].recs) /\ Len(s.segs[k].recs) \in Nat
                BY <1>1, <1>2, <1>6, <4>1 DEF Later
            <4> QED
                BY <1>2, <2>3, <4>1, <4>2
        <3> QED
            BY <3>1
    <2>5. ~(l < k)
        <3>1. k \in 1..n /\ s.segs[k].seq = s.read[1]
            BY <1>1
        <3>2. s.read[1] <= x[1]
            BY <1>2, <1>6, <2>3 DEF Later
        <3> HIDE DEF n
        <3> QED
            BY <1>2, <2>3, <3>1, <3>2
    <2>6. l - 1 \in 1..n - 1 /\ ~(l - 1 < k) /\ (l - 1) + 1 = l
        BY <1>1, <1>2, <2>4, <2>5
    <2>7. f.segs[l - 1] = s.segs[l]
        BY <1>1, <2>6
    <2>8. x = At(f, l - 1, j) /\ j \in 1..Len(f.segs[l - 1].recs) /\ l - 1 \in 1..Len(f.segs)
        BY <1>1, <2>2, <2>6, <2>7 DEF At
    <2>9. x \in Content(f)
        BY <2>8, ContentIs
    <2>10. x[1] >= o
        <3>1. /\ x[1] \in Nat /\ x[2] \in Nat /\ x[2] >= 1
              /\ x[1] < s.read[1] \/ x[1] >= o
            BY <1>5, <2>9
        <3>2. s.read[1] <= x[1]
            BY <1>2, <1>6, <3>1 DEF Later
        <3> HIDE DEF o
        <3> QED
            BY <1>2, <1>4, <3>1, <3>2
    <2> QED
        BY <1>4, <1>5, <2>9, <2>10 DEF Later
<1> HIDE DEF o
<1>7. \A x \in Content(f) : Later(x, f.read) <=> Later(x, s.read)
    BY <1>2, <1>4, <1>5, <1>6 DEF Later
<1>8. Reach(f)
    <2>1. k \in 1..Len(f.segs) /\ f.segs[k] = s.segs[k + 1]
        BY <1>1, <1>2, <1>3
    <2>2. 1 \in 1..Len(f.segs[k].recs)
        <3>1. /\ f.segs[k].recs \in Seq(Records) /\ f.segs[k].recs # <<>>
              /\ Len(f.segs[k].recs) \in Nat
            BY <2>1, SegmentHas
        <3> QED
            BY <3>1
    <2>3. At(f, k, 1) \in Content(f) /\ At(f, k, 1)[1] = o /\ At(f, k, 1)[2] = 1
        BY <2>1, <2>2, ContentIs DEF At, o
    <2>4. ~Later(f.read, At(f, k, 1))
        BY <1>4, <2>3 DEF Later
    <2> QED
        BY <2>3, <2>4 DEF Reach
<1>9. OrderOk(f)
    <2>1. DOMAIN f.segs = 1..n - 1
        BY <1>1, SegmentHas
    <2>2. ~Later(f.cursor, f.read)
        <3>1. ~Later(s.cursor, s.read)
            BY <1>1 DEF OrderOk
        <3> QED
            BY <1>1, <1>2, <1>4, <3>1 DEF Later
    <2>3. /\ \A i \in 1..n - 1 : f.segs[i].seq >= 1 /\ f.segs[i].seq < f.next
          /\ \A i, j \in 1..n - 1 : i < j => f.segs[i].seq < f.segs[j].seq
        <3>1. \A i, j \in 1..n - 1 : i < j => (IF i < k THEN i ELSE i + 1) < (IF j < k THEN j ELSE j + 1)
            BY <1>1, <1>2
        <3>2. \A i \in 1..n - 1 : \E l \in 1..n : f.segs[i] = s.segs[l] /\ l = IF i < k THEN i ELSE i + 1
            BY <1>1, <1>3
        <3> HIDE DEF n
        <3>3. \A i \in 1..n - 1 : f.segs[i].seq >= 1 /\ f.segs[i].seq < f.next
            <4>1. TAKE i \in 1..n - 1
            <4>2. PICK l \in 1..n : f.segs[i] = s.segs[l]
                BY <3>2
            <4> QED
                BY <1>1, <1>2, <4>2
        <3>4. \A i, j \in 1..n - 1 : i < j => f.segs[i].seq < f.segs[j].seq
            <4>1. TAKE i, j \in 1..n - 1
            <4>2. HAVE i < j
            <4>3. PICK l \in 1..n : f.segs[i] = s.segs[l] /\ l = IF i < k THEN i ELSE i + 1
                BY <3>2
            <4>4. PICK m \in 1..n : f.segs[j] = s.segs[m] /\ m = IF j < k THEN j ELSE j + 1
                BY <3>2
            <4>5. l < m
                BY <3>1, <4>2, <4>3, <4>4
            <4> QED
                BY <1>2, <4>3, <4>4, <4>5
        <3> QED
            BY <3>3, <3>4
    <2>4. f.read \in Positions /\ f.cursor \in Positions /\ f.dropped \in Nat
          /\ f.next >= 1 /\ f.read[1] # 0
        <3>1. s.next >= 1
            BY <1>1 DEF OrderOk
        <3>2. /\ f.read \in Positions /\ f.cursor \in {s.cursor, f.read}
              /\ f.next = s.next /\ f.dropped = s.dropped
            BY <1>1, <1>4
        <3>3. f.read[1] # 0
            BY <1>4
        <3> QED
            BY <1>2, <3>1, <3>2, <3>3
    <2> QED
        BY <2>1, <2>2, <2>3, <2>4 DEF OrderOk
<1>10. Quietly(s, f, sent)
    <2>1. ASSUME NEW x \in Content(f), Later(x, f.cursor), ~Later(x, f.read)
          PROVE  Later(x, s.cursor) /\ ~Later(x, s.read)
        BY <1>1, <1>7, <2>1
    <2> QED
        BY <1>5, <1>7, <2>1 DEF Quietly
<1>11. AheadIds(f) = AheadIds(s)
    <2>1. /\ AheadIds(s) = {i \in Nat \ {0} : \E x \in Content(s) : Later(x, s.read) /\ x[3] = i}
          /\ AheadIds(f) = {i \in Nat \ {0} : \E x \in Content(f) : Later(x, f.read) /\ x[3] = i}
        BY <1>1, <1>2, <1>4, AheadIs
    <2> QED
        BY <1>5, <1>6, <1>7, <2>1
<1> QED
    BY <1>5, <1>8, <1>9, <1>10, <1>11, QuietlyKeeps DEF Anchored

\* peek's search passes no record, and deletes none that is ahead.
LEMMA SeekIsQuiet ==
    ASSUME NEW s, NEW sent, JournalOk(s, sent), NEW written, NEW f, f = Spool!Seek(s, written)
    PROVE  /\ JournalOk(f, sent) /\ AheadIds(f) = AheadIds(s) /\ Numbers(f) \subseteq Numbers(s)
           /\ Reach(s) => Reach(f)
           /\ f.dropped = s.dropped
<1>1. SpoolOk(s) /\ SpoolOk(f)
    BY SeekKeeps DEF JournalOk
<1>2. CASE f = s
    BY <1>2
<1>3. CASE Jumps(s, f)
    BY <1>1, <1>3, JumpIsQuiet DEF Jumps
<1>4. CASE Leaves(s, f, Spool!ReadIndex(s))
    <2>1. /\ JournalOk(f, sent) /\ AheadIds(f) = AheadIds(s)
          /\ Content(f) \subseteq Content(s) /\ Reach(f)
        BY <1>1, <1>4, LeaveIsQuiet
    <2> QED
        BY <1>4, <2>1 DEF Leaves, Numbers
<1> QED
    BY <1>1, <1>2, <1>3, <1>4, SeekShape

\* The record the reader comes to next.
IsNext(q, s) == q \in Content(s) /\ q[1] = s.read[1] /\ q[2] = s.read[2] + 1

\* What peek yields is the record right behind the reader's place.
LEMMA PeekedIs ==
    ASSUME NEW s, SpoolOk(s), OrderOk(s), Spool!Peeked(s) # <<>>
    PROVE  \E q : IsNext(q, s) /\ Ids(ToSet(Spool!Peeked(s))) = {q[3]} \ {0}
<1> DEFINE k == Spool!ReadIndex(s)
           i == s.read[2] + 1
           q == At(s, k, i)
<1>1. k # 0 /\ ~(s.read[2] >= Len(s.segs[k].recs)) /\ Spool!Peeked(s) = <<s.segs[k].recs[i]>>
    BY DEF Spool!Peeked, Spool!Exhausted
<1>2. k \in 1..Len(s.segs) /\ s.segs[k].seq = s.read[1]
    BY <1>1, ReadIndexIs
<1>3. s.read[2] \in Nat /\ Len(s.segs[k].recs) \in Nat
    BY <1>2, OrderHas, SegmentHas
<1>4. i \in 1..Len(s.segs[k].recs)
    BY <1>1, <1>3
<1>5. q \in Content(s) /\ q[1] = s.read[1] /\ q[2] = s.read[2] + 1 /\ q[3] = s.segs[k].recs[i].id
    BY <1>2, <1>4, ContentIs DEF At
<1> HIDE DEF k, i, q
<1>6. Ids(ToSet(Spool!Peeked(s))) = {q[3]} \ {0}
    <2>1. ToSet(<<s.segs[k].recs[i]>>) = {s.segs[k].recs[i]}
        BY DEF ToSet
    <2> QED
        BY <1>1, <1>5, <2>1 DEF Ids
<1> QED
    BY <1>5, <1>6 DEF IsNext

\* The reader stays, or goes on by the record that was sent.
Passes(s, t) ==
    /\ Content(t) = Content(s)
    /\ \/ t.read = s.read /\ t.cursor = s.cursor
       \/ t.read = <<s.read[1], s.read[2] + 1>> /\ t.cursor \in {s.cursor, t.read}

LEMMA AdvanceDoes ==
    ASSUME NEW s, SpoolOk(s), OrderOk(s), NEW q, IsNext(q, s), NEW written,
           NEW t, t = Spool!Advance(s, written)
    PROVE  SpoolOk(t) /\ OrderOk(t) /\ Passes(s, t) /\ t.dropped = s.dropped
<1> DEFINE to == <<s.read[1], s.read[2] + 1>>
<1>1. /\ s.read[1] \in Nat /\ s.read[2] \in Nat /\ s.cursor[1] \in Nat /\ s.cursor[2] \in Nat
      /\ s.read \in Positions /\ s.cursor \in Positions
    BY OrderHas
<1>2. to \in Positions /\ to[1] = s.read[1] /\ to[2] = s.read[2] + 1
    BY <1>1 DEF Positions
<1> HIDE DEF to
<1>3. /\ t.segs = s.segs /\ t.next = s.next /\ t.dropped = s.dropped
      /\ t.read = to /\ t.cursor \in {s.cursor, to}
    <2>1. t = Spool!MoveTo(s, to, written)
        BY DEF Spool!Advance, to
    <2> QED
        BY <2>1 DEF Spool!MoveTo, SpoolOk
<1>4. SpoolOk(t)
    BY AdvanceKeeps
<1>5. s.segs # <<>> /\ s.read[1] # 0
    BY ContentEmpty DEF IsNext, OrderOk
<1>6. ~Later(t.cursor, t.read)
    <2>1. ~Later(s.cursor, s.read)
        BY DEF OrderOk
    <2> QED
        BY <1>1, <1>2, <1>3, <2>1 DEF Later
<1>7. OrderOk(t)
    <2>1. t.read \in Positions /\ t.cursor \in Positions /\ t.read[1] # 0
        BY <1>1, <1>2, <1>3, <1>5
    <2> QED
        BY <1>3, <1>6, <2>1 DEF OrderOk
<1>8. Content(t) = Content(s)
    BY <1>3 DEF Content
<1> QED
    BY <1>3, <1>4, <1>7, <1>8 DEF Passes, to

\* The record sent is in its turn, and the reader passes no other.
LEMMA SendIsInOrder ==
    ASSUME NEW s, NEW sent, JournalOk(s, sent), NEW q, IsNext(q, s),
           NEW t, SpoolOk(t), OrderOk(t), Passes(s, t)
    PROVE  /\ JournalOk(t, sent \cup ({q[3]} \ {0})) /\ Numbers(t) = Numbers(s)
           /\ q[3] \in Numbers(s)
           /\ \A n \in ({q[3]} \ {0}) \ sent : \A m \in sent : m < n
           /\ AheadIds(s) \ AheadIds(t) \subseteq {q[3]} \ {0}
           /\ Reach(t)
<1> DEFINE after == sent \cup ({q[3]} \ {0})
<1>1. /\ SpoolOk(s) /\ OrderOk(s) /\ q \in Content(s) /\ q[1] = s.read[1] /\ q[2] = s.read[2] + 1
      /\ Content(t) = Content(s)
    BY DEF JournalOk, IsNext, Passes
<1>2. /\ s.read[1] \in Nat /\ s.read[2] \in Nat /\ s.cursor[1] \in Nat /\ s.cursor[2] \in Nat
      /\ s.read \in Positions /\ t.read \in Positions
      /\ \A x \in Content(s) : x[1] \in Nat /\ x[2] \in Nat /\ x[3] \in Nat
    BY <1>1, OrderHas, ContentIs
<1>3. /\ t.read[1] = s.read[1] /\ t.read[2] \in {s.read[2], s.read[2] + 1}
      /\ \/ t.cursor = s.cursor
         \/ t.cursor = t.read
    BY DEF Passes
<1>4. Later(q, s.read) /\ ~Later(t.read, q)
    BY <1>1, <1>2, <1>3 DEF Later
<1>5. ASSUME NEW x \in Content(s), Later(x, s.read), x # q
      PROVE  Later(x, q) /\ Later(x, t.read)
    <2>1. ~(x[1] = q[1] /\ x[2] = q[2])
        BY <1>1, <1>5, OnePlaceOneRecord
    <2> QED
        BY <1>1, <1>2, <1>3, <1>5, <2>1 DEF Later
<1>6. ASSUME NEW x \in Content(s), Later(x, t.read)
      PROVE  Later(x, s.read)
    BY <1>1, <1>2, <1>3, <1>6 DEF Later
<1>7. Reach(t)
    BY <1>1, <1>4 DEF Reach
<1>8. \A n \in ({q[3]} \ {0}) \ sent : \A m \in sent : m < n
    BY <1>1, <1>4 DEF JournalOk, AheadAbove
<1>9. Sorted(t)
    BY <1>1 DEF JournalOk, Sorted
<1>10. AheadAbove(t, after)
    <2>1. ASSUME NEW x \in Content(t), Later(x, t.read), x[3] # 0, x[3] \notin after, NEW m \in after
          PROVE  m < x[3]
        <3>1. x \in Content(s) /\ Later(x, s.read) /\ x # q
            BY <1>1, <1>6, <2>1
        <3>2. CASE m \in sent
            BY <2>1, <3>1, <3>2 DEF JournalOk, AheadAbove
        <3>3. CASE m = q[3] /\ q[3] # 0
            <4>1. Later(x, q)
                BY <1>5, <3>1
            <4> QED
                BY <1>1, <2>1, <3>1, <3>3, <4>1 DEF JournalOk, Sorted
        <3> QED
            BY <2>1, <3>2, <3>3
    <2> HIDE DEF after
    <2> QED
        BY <2>1 DEF AheadAbove
<1>11. BackSent(t, after)
    <2>1. ASSUME NEW x \in Content(t), Later(x, t.cursor), ~Later(x, t.read), x[3] # 0
          PROVE  x[3] \in after
        <3>1. x \in Content(s) /\ Later(x, s.cursor)
            BY <1>1, <1>3, <2>1
        <3>2. CASE ~Later(x, s.read)
            BY <2>1, <3>1, <3>2 DEF JournalOk, BackSent
        <3>3. CASE Later(x, s.read)
            <4>1. x = q
                BY <1>5, <2>1, <3>1, <3>3
            <4> QED
                BY <2>1, <4>1
        <3> QED
            BY <3>2, <3>3
    <2> HIDE DEF after
    <2> QED
        BY <2>1 DEF BackSent
<1>12. JournalOk(t, after)
    BY <1>7, <1>9, <1>10, <1>11 DEF JournalOk, Anchored
<1>13. AheadIds(s) \ AheadIds(t) \subseteq {q[3]} \ {0}
    <2>1. /\ AheadIds(s) = {i \in Nat \ {0} : \E x \in Content(s) : Later(x, s.read) /\ x[3] = i}
          /\ AheadIds(t) = {i \in Nat \ {0} : \E x \in Content(t) : Later(x, t.read) /\ x[3] = i}
        BY <1>1, <1>2, AheadIs
    <2> QED
        BY <1>1, <1>5, <2>1
<1> QED
    BY <1>1, <1>7, <1>8, <1>12, <1>13 DEF Numbers

----------------------------------------------------------------------------
(* A death and a restart.                                                  *)

\* A death decides what of the buffer is on disk, and moves nothing.
LEMMA DiedIsQuiet ==
    ASSUME NEW s, NEW sent, JournalOk(s, sent), NEW n \in Spool!DeathPoints(s),
           NEW d, d = Spool!Died(s, n)
    PROVE  /\ JournalOk(d, sent) /\ AheadIds(d) = AheadIds(s) /\ Numbers(d) = Numbers(s)
           /\ Reach(s) => Reach(d)
           /\ d.cursor = s.cursor /\ d.open = s.open /\ Len(d.segs) = Len(s.segs)
           /\ \A k \in 1..Len(s.segs) :
                /\ d.segs[k].seq = s.segs[k].seq /\ d.segs[k].recs = s.segs[k].recs
                /\ s.segs[k].disk <= d.segs[k].disk
<1> DEFINE m == Len(s.segs)
<1>1. SpoolOk(s) /\ OrderOk(s)
    BY DEF JournalOk
<1>2. /\ SpoolOk(d) /\ Len(d.segs) = m
      /\ \A k \in 1..m : d.segs[k].recs = s.segs[k].recs /\ s.segs[k].disk <= d.segs[k].disk
    BY <1>1, DiedKeeps
<1>3. /\ d.read = s.read /\ d.cursor = s.cursor /\ d.next = s.next /\ d.dropped = s.dropped
      /\ d.open = s.open
      /\ \A k \in 1..m : d.segs[k].seq = s.segs[k].seq
    <2>1. CASE ~s.open
        <3>1. d = s
            BY <2>1 DEF Spool!Died
        <3> QED
            BY <3>1
    <2>2. CASE s.open
        <3> DEFINE q == s.segs
                   l == [s.segs[m] EXCEPT !.disk = n]
        <3>1. m \in 1..m /\ s.segs[m] \in Segments /\ q \in Seq(Segments) /\ DOMAIN q = 1..m
            BY <1>1, <2>2, SegmentHas DEF SpoolOk
        <3>2. d = [s EXCEPT !.segs = [q EXCEPT ![m] = l]]
            BY <1>1, <2>2, <3>1 DEF Spool!Died, SpoolOk
        <3>3. l.seq = s.segs[m].seq
            BY <3>1 DEF Segments
        <3> HIDE DEF l, q
        <3>4. /\ d.segs = [q EXCEPT ![m] = l]
              /\ d.read = s.read /\ d.cursor = s.cursor /\ d.next = s.next /\ d.dropped = s.dropped
              /\ d.open = s.open
            BY <1>1, <3>2 DEF SpoolOk
        <3>5. ASSUME NEW k \in 1..m
              PROVE  d.segs[k].seq = s.segs[k].seq
            <4>1. CASE k = m
                BY <3>1, <3>3, <3>4, <4>1
            <4>2. CASE k # m
                BY <3>1, <3>4, <4>2 DEF q
            <4> QED
                BY <4>1, <4>2
        <3> QED
            BY <3>4, <3>5
    <2> QED
        BY <2>1, <2>2
<1>4. Content(d) = Content(s)
    BY <1>1, <1>2, <1>3, SameContent
<1>5. OrderOk(d)
    <2>1. DOMAIN d.segs = 1..m /\ DOMAIN s.segs = 1..m
        BY <1>1, <1>2, SegmentHas
    <2>2. s.segs = <<>> => d.segs = <<>>
        BY <1>1, <1>2, <1>4, ContentEmpty
    <2> HIDE DEF m
    <2> QED
        BY <1>1, <1>3, <2>1, <2>2 DEF OrderOk
<1> QED
    BY <1>2, <1>3, <1>4, <1>5, SamePlaces

\* The numbers of what was written are those of the content.
LEMMA WrittenIs ==
    ASSUME NEW s, SpoolOk(s)
    PROVE  Ids(Spool!Written(s)) = Numbers(s) \ {0}
<1>1. /\ DOMAIN s.segs = 1..Len(s.segs)
      /\ \A k \in 1..Len(s.segs) : s.segs[k].recs \in Seq(Records)
    BY SegmentHas
<1>2. ASSUME NEW k \in 1..Len(s.segs)
      PROVE  DOMAIN s.segs[k].recs = 1..Len(s.segs[k].recs)
    BY <1>1
<1>3. ASSUME NEW i \in Ids(Spool!Written(s))
      PROVE  i \in Numbers(s) \ {0}
    <2>1. PICK rec \in Spool!Written(s) : rec.id = i /\ i # 0
        BY <1>3 DEF Ids
    <2>2. PICK k \in 1..Len(s.segs) : rec \in Spool!ToSet(s.segs[k].recs)
        BY <1>1, <2>1 DEF Spool!Written
    <2>3. PICK j \in 1..Len(s.segs[k].recs) : rec = s.segs[k].recs[j]
        BY <1>2, <2>2 DEF Spool!ToSet
    <2>4. At(s, k, j) \in Content(s) /\ At(s, k, j)[3] = i
        BY <2>1, <2>3, ContentIs DEF At
    <2> QED
        BY <2>1, <2>4 DEF Numbers
<1>4. ASSUME NEW x \in Content(s), x[3] # 0
      PROVE  x[3] \in Ids(Spool!Written(s))
    <2>1. PICK k \in 1..Len(s.segs) : \E j \in 1..Len(s.segs[k].recs) : x = At(s, k, j)
        BY ContentIs
    <2>2. PICK j \in 1..Len(s.segs[k].recs) : x = At(s, k, j)
        BY <2>1
    <2>3. s.segs[k].recs[j] \in Spool!ToSet(s.segs[k].recs)
        BY <1>2 DEF Spool!ToSet
    <2>4. s.segs[k].recs[j] \in Spool!Written(s) /\ x[3] = s.segs[k].recs[j].id
        BY <1>1, <2>2, <2>3 DEF Spool!Written, At
    <2> QED
        BY <1>4, <2>4 DEF Ids
<1> QED
    BY <1>3, <1>4 DEF Numbers

\* No number is written twice.
LEMMA OneNumberOneRecord ==
    ASSUME NEW s, NEW sent, JournalOk(s, sent), NEW x \in Content(s), NEW y \in Content(s),
           x[3] = y[3], x[3] # 0
    PROVE  x = y
<1>1. SpoolOk(s) /\ OrderOk(s) /\ Sorted(s)
    BY DEF JournalOk
<1>2. /\ x[1] \in Nat /\ x[2] \in Nat /\ x[3] \in Nat
      /\ y[1] \in Nat /\ y[2] \in Nat /\ y[3] \in Nat
    BY <1>1, ContentIs
<1>3. ~Later(x, y) /\ ~Later(y, x)
    BY <1>1, <1>2 DEF Sorted
<1>4. x[1] = y[1] /\ x[2] = y[2]
    BY <1>2, <1>3 DEF Later
<1> QED
    BY <1>1, <1>4, OnePlaceOneRecord

\* The next process reads on from the cursor, or from before all it found.
LEMMA RecoverOrder ==
    ASSUME NEW s, SpoolOk(s), OrderOk(s), NEW r, r = Spool!Recover(s)
    PROVE  /\ SpoolOk(r) /\ OrderOk(r) /\ Content(r) \subseteq Content(s) /\ r.cursor = s.cursor
           /\ \/ r.read = s.cursor
              \/ /\ \A x \in Content(r) : Later(x, r.read)
                 /\ Reach(r)
<1> DEFINE n == Len(r.segs)
           o == Spool!OldestSeq(r.segs, r.next)
<1>1. SpoolOk(r) /\ RecoveredTo(s, r)
    BY RecoverKeeps, RecoverShape
<1>2. /\ s.cursor \in Positions /\ s.cursor[1] \in Nat /\ s.cursor[2] \in Nat
      /\ \A k \in 1..Len(s.segs) : s.segs[k].seq \in Nat /\ s.segs[k].seq >= 1
      /\ \A i, j \in 1..Len(s.segs) : i < j => s.segs[i].seq < s.segs[j].seq
    BY OrderHas
<1>3. /\ n \in Nat /\ DOMAIN r.segs = 1..n
      /\ \A k \in 1..n : /\ k \in 1..Len(s.segs) /\ r.segs[k].seq = s.segs[k].seq
                         /\ Len(r.segs[k].recs) = s.segs[k].disk
                         /\ \A j \in 1..s.segs[k].disk : r.segs[k].recs[j] = s.segs[k].recs[j]
    BY <1>1 DEF RecoveredTo, FoundOf
<1>4. r.segs = <<>> <=> n = 0
    BY <1>1, SegmentHas
<1>5. /\ r.next = IF n = 0 THEN 1 ELSE r.segs[n].seq + 1
      /\ r.cursor = s.cursor /\ r.dropped = 0
      /\ r.read = IF s.cursor[1] < o THEN <<o, 0>> ELSE s.cursor
      /\ r.next \in Nat
    BY <1>1, <1>4 DEF RecoveredTo, SpoolOk
<1>6. o = IF n = 0 THEN r.next ELSE r.segs[1].seq
    BY <1>4 DEF Spool!OldestSeq
<1> HIDE DEF n, o
<1>7. /\ \A k \in 1..n : r.segs[k].seq \in Nat /\ r.segs[k].seq >= 1 /\ r.segs[k].seq < r.next
      /\ \A i, j \in 1..n : i < j => r.segs[i].seq < r.segs[j].seq
      /\ r.next >= 1
    <2>1. \A k \in 1..n : r.segs[k].seq \in Nat /\ r.segs[k].seq >= 1
        BY <1>2, <1>3
    <2>2. \A i, j \in 1..n : i < j => r.segs[i].seq < r.segs[j].seq
        BY <1>2, <1>3
    <2>3. ASSUME NEW k \in 1..n
          PROVE  r.segs[k].seq < r.next
        <3>1. n \in 1..n /\ n # 0 /\ (k = n \/ k < n)
            BY <1>3
        <3>2. r.next = r.segs[n].seq + 1 /\ r.segs[n].seq \in Nat /\ r.segs[k].seq \in Nat
            BY <1>5, <2>1, <3>1
        <3>3. k < n => r.segs[k].seq < r.segs[n].seq
            BY <2>2, <3>1
        <3> QED
            BY <3>1, <3>2, <3>3
    <2>4. r.next >= 1
        <3>1. CASE n = 0
            BY <1>5, <3>1
        <3>2. CASE n # 0
            <4>1. n \in 1..n
                BY <1>3, <3>2
            <4>2. r.segs[n].seq < r.next /\ r.segs[n].seq >= 1 /\ r.segs[n].seq \in Nat
                BY <2>1, <2>3, <4>1
            <4> QED
                BY <1>5, <4>2
        <3> QED
            BY <3>1, <3>2
    <2> QED
        BY <2>1, <2>2, <2>3, <2>4
<1>8. o \in Nat /\ o >= 1 /\ \A k \in 1..n : o <= r.segs[k].seq
    <2>1. CASE n = 0
        BY <1>5, <1>6, <1>7, <2>1
    <2>2. CASE n # 0
        <3>1. 1 \in 1..n /\ o = r.segs[1].seq
            BY <1>3, <1>6, <2>2
        <3>2. \A k \in 1..n : k = 1 \/ 1 < k
            BY <1>3
        <3> QED
            BY <1>7, <3>1, <3>2
    <2> QED
        BY <2>1, <2>2
<1>9. ASSUME NEW x \in Content(r)
      PROVE  x \in Content(s) /\ x[1] \in Nat /\ x[2] \in Nat /\ x[2] >= 1 /\ x[1] >= o
    <2>1. PICK k \in 1..n : \E j \in 1..Len(r.segs[k].recs) : x = At(r, k, j)
        BY <1>1, ContentIs DEF n
    <2>2. PICK j \in 1..Len(r.segs[k].recs) : x = At(r, k, j)
        BY <2>1
    <2>3. x[1] = r.segs[k].seq
        BY <2>2 DEF At
    <2>4. /\ k \in 1..Len(s.segs) /\ r.segs[k].seq = s.segs[k].seq
          /\ j \in 1..s.segs[k].disk /\ r.segs[k].recs[j] = s.segs[k].recs[j]
        BY <1>3, <2>2
    <2>5. s.segs[k].disk \in 0..Len(s.segs[k].recs) /\ Len(s.segs[k].recs) \in Nat
        BY <2>4, SegmentHas
    <2>6. x = At(s, k, j) /\ j \in 1..Len(s.segs[k].recs)
        BY <2>2, <2>4, <2>5 DEF At
    <2>7. x \in Content(s)
        BY <2>4, <2>6, ContentIs
    <2>8. x[1] >= o
        BY <1>7, <1>8, <2>3
    <2> QED
        BY <2>7, <2>8, ContentIs
<1>10. <<o, 0>> \in Positions /\ <<o, 0>>[1] = o /\ <<o, 0>>[2] = 0
    BY <1>8 DEF Positions
<1>11. OrderOk(r)
    <2>1. r.read \in Positions /\ r.cursor \in Positions /\ r.dropped \in Nat
        BY <1>2, <1>5, <1>10
    <2>2. r.read[1] # 0 /\ ~Later(r.cursor, r.read)
        <3>1. CASE s.cursor[1] < o
            BY <1>2, <1>5, <1>8, <1>10, <3>1 DEF Later
        <3>2. CASE ~(s.cursor[1] < o)
            BY <1>2, <1>5, <1>8, <3>2 DEF Later
        <3> QED
            BY <3>1, <3>2
    <2> QED
        BY <1>3, <1>7, <2>1, <2>2 DEF OrderOk
<1>12. ASSUME s.cursor[1] < o
       PROVE  /\ \A x \in Content(r) : Later(x, r.read)
              /\ Reach(r)
    <2>1. r.read[1] = o /\ r.read[2] = 0 /\ r.read = <<o, 0>>
        BY <1>5, <1>10, <1>12
    <2>2. \A x \in Content(r) : Later(x, r.read) /\ ~Later(r.read, x)
        BY <1>8, <1>9, <2>1 DEF Later
    <2>3. Reach(r)
        <3>1. CASE r.segs = <<>>
            BY <1>4, <1>6, <2>1, <3>1 DEF Reach
        <3>2. CASE r.segs # <<>>
            BY <1>1, <2>2, <3>2, ContentEmpty DEF Reach
        <3> QED
            BY <3>1, <3>2
    <2> QED
        BY <2>2, <2>3
<1>13. Content(r) \subseteq Content(s)
    BY <1>9
<1> QED
    BY <1>1, <1>5, <1>11, <1>12, <1>13

\* A restart puts the reader back to where the cursor file is: what comes back
\* was sent, and what was ahead and is not was in the buffer.
LEMMA RecoverIsQuiet ==
    ASSUME NEW s, NEW sent, JournalOk(s, sent), NEW r, r = Spool!Recover(s)
    PROVE  /\ JournalOk(r, sent) /\ Numbers(r) \subseteq Numbers(s)
           /\ AheadIds(s) \ AheadIds(r) \subseteq
                  Buffered(s) \cap (Ids(Spool!Written(s)) \ Ids(Spool!Written(r)))
<1>1. SpoolOk(s) /\ OrderOk(s) /\ BackSent(s, sent) /\ ~Later(s.cursor, s.read)
    BY DEF JournalOk, OrderOk
<1>2. /\ SpoolOk(r) /\ OrderOk(r) /\ Content(r) \subseteq Content(s) /\ r.cursor = s.cursor
      /\ \/ r.read = s.cursor
         \/ /\ \A x \in Content(r) : Later(x, r.read)
            /\ Reach(r)
    BY <1>1, RecoverOrder
<1>3. /\ \A x \in Content(s) : x[1] \in Nat /\ x[2] \in Nat
      /\ s.read[1] \in Nat /\ s.read[2] \in Nat /\ s.cursor[1] \in Nat /\ s.cursor[2] \in Nat
      /\ s.read \in Positions /\ r.read \in Positions
    BY <1>1, <1>2, ContentIs, OrderHas
<1>4. Anchored(r)
    BY <1>2 DEF Anchored
<1>5. Quietly(s, r, sent)
    <2>1. ASSUME NEW x \in Content(r), x[3] # 0, x[3] \notin sent
          PROVE  /\ Later(x, r.read) => Later(x, s.read)
                 /\ ~(Later(x, r.cursor) /\ ~Later(x, r.read))
        <3>1. x \in Content(s)
            BY <1>2
        <3>2. CASE r.read = s.cursor
            <4>1. Later(x, s.cursor) => Later(x, s.read)
                BY <1>1, <2>1, <3>1 DEF BackSent
            <4> QED
                BY <1>2, <3>2, <4>1
        <3>3. CASE \A y \in Content(r) : Later(y, r.read)
            <4>1. ~Later(r.cursor, r.read) /\ Later(x, r.read)
                BY <1>2, <3>3 DEF OrderOk
            <4>2. r.read[1] \in Nat /\ r.read[2] \in Nat
                BY <1>3 DEF Positions
            <4>3. Later(x, s.cursor)
                BY <1>2, <1>3, <3>1, <4>1, <4>2 DEF Later
            <4>4. Later(x, s.read)
                BY <1>1, <2>1, <3>1, <4>3 DEF BackSent
            <4> QED
                BY <4>1, <4>4
        <3> QED
            BY <1>2, <3>2, <3>3
    <2> QED
        BY <1>2, <2>1 DEF Quietly
<1>6. JournalOk(r, sent)
    BY <1>2, <1>4, <1>5, QuietlyKeeps
<1>7. ASSUME NEW i \in AheadIds(s), i \notin AheadIds(r)
      PROVE  i \in Buffered(s) /\ i \in Ids(Spool!Written(s)) /\ i \notin Ids(Spool!Written(r))
    <2>1. PICK x \in Content(s) : Later(x, s.read) /\ x[3] = i /\ i # 0 /\ i \in Nat
        BY <1>1, <1>3, AheadIs
    <2>2. i \in Ids(Spool!Written(s))
        BY <1>1, <2>1, WrittenIs DEF Numbers
    <2>3. ASSUME i \in Ids(Spool!Written(r))
          PROVE  FALSE
        <3>1. PICK y \in Content(r) : y[3] = i
            BY <1>2, <2>3, WrittenIs DEF Numbers
        <3>2. x = y
            BY <1>2, <2>1, <3>1, OneNumberOneRecord
        <3>3. Later(x, s.cursor)
            BY <1>1, <1>3, <2>1 DEF Later
        <3>4. Later(x, r.read)
            BY <1>2, <3>2, <3>3
        <3> QED
            BY <1>2, <1>3, <1>7, <2>1, <3>1, <3>2, <3>4, AheadIs
    <2>4. PICK k \in 1..Len(s.segs) : \E j \in 1..Len(s.segs[k].recs) : x = At(s, k, j)
        BY <1>1, ContentIs
    <2>5. PICK j \in 1..Len(s.segs[k].recs) : x = At(s, k, j)
        BY <2>4
    <2>6. s.segs[k].recs[j].id = i
        BY <2>1, <2>5 DEF At
    <2>7. /\ Len(s.segs[k].recs) \in Nat /\ s.segs[k].disk \in 0..Len(s.segs[k].recs)
          /\ k < Len(s.segs) \/ ~s.open => s.segs[k].disk = Len(s.segs[k].recs)
          /\ s.segs[k].recs \in Seq(Records) /\ Len(s.segs) \in Nat
        BY <1>1, SegmentHas
    <2>8. j > s.segs[k].disk
        <3>1. j \in 1..s.segs[k].disk => s.segs[k].recs[j] \in Spool!Written(r)
            BY <1>1, RecoverKeeps
        <3>2. j \notin 1..s.segs[k].disk
            BY <2>1, <2>3, <2>6, <3>1 DEF Ids
        <3> QED
            BY <2>7, <3>2
    <2>9. k = Len(s.segs) /\ s.open
        BY <2>7, <2>8
    <2>10. i \in Buffered(s)
        BY <2>1, <2>6, <2>7, <2>8, <2>9 DEF Buffered
    <2> QED
        BY <2>2, <2>3, <2>10
<1>8. Numbers(r) \subseteq Numbers(s)
    BY <1>2 DEF Numbers
<1> QED
    BY <1>6, <1>7, <1>8

----------------------------------------------------------------------------
(* The numbers on their way.                                               *)

\* The records of a row are younger than those of S, each than the one before.
Follows(S, row) ==
    /\ \A j \in DOMAIN row : \A m \in S : m < row[j].id
    /\ \A j, k \in DOMAIN row : j < k => row[j].id < row[k].id

LEMMA FollowsLess ==
    ASSUME NEW S, NEW row, Follows(S, row), NEW T \in SUBSET S
    PROVE  Follows(T, row)
BY DEF Follows

LEMMA FollowsNone ==
    ASSUME NEW S
    PROVE  Follows(S, <<>>)
BY DEF Follows

LEMMA FollowsHead ==
    ASSUME NEW S, NEW row \in Seq(Records), Follows(S, row), row # <<>>
    PROVE  /\ \A m \in S : m < Head(row).id
           /\ Follows(S \cup {Head(row).id}, Tail(row))
<1>1. 1 \in DOMAIN row /\ Head(row) = row[1] /\ DOMAIN row = 1..Len(row) /\ Len(row) \in Nat
    OBVIOUS
<1>2. \A j \in DOMAIN Tail(row) : /\ j + 1 \in DOMAIN row /\ Tail(row)[j] = row[j + 1]
                                  /\ 1 < j + 1
    OBVIOUS
<1>3. \A j \in DOMAIN Tail(row) : \A m \in S \cup {Head(row).id} : m < Tail(row)[j].id
    BY <1>1, <1>2 DEF Follows
<1>4. ASSUME NEW j \in DOMAIN Tail(row), NEW k \in DOMAIN Tail(row), j < k
      PROVE  Tail(row)[j].id < Tail(row)[k].id
    <2>1. j \in Nat /\ k \in Nat /\ j + 1 < k + 1
        BY <1>4
    <2> QED
        BY <1>2, <2>1 DEF Follows
<1> QED
    BY <1>1, <1>3, <1>4 DEF Follows

LEMMA FollowsTail ==
    ASSUME NEW S, NEW row \in Seq(Records), Follows(S, row), row # <<>>
    PROVE  Follows(S, Tail(row))
<1>1. Follows(S \cup {Head(row).id}, Tail(row)) /\ S \in SUBSET (S \cup {Head(row).id})
    BY FollowsHead
<1> QED
    BY <1>1, FollowsLess

LEMMA FollowsAppend ==
    ASSUME NEW S, NEW row \in Seq(Records), Follows(S, row), NEW r \in Records,
           \A m \in S \cup Ids(ToSet(row)) \cup {0} : m < r.id
    PROVE  Follows(S, Append(row, r))
<1> DEFINE q == Append(row, r)
           n == Len(row)
<1>1. /\ n \in Nat /\ DOMAIN row = 1..n /\ DOMAIN q = 1..n + 1 /\ q[n + 1] = r
      /\ \A j \in 1..n : q[j] = row[j] /\ row[j] \in Records
    OBVIOUS
<1> HIDE DEF q, n
<1>2. \A j \in 1..n : row[j].id < r.id
    <2>1. TAKE j \in 1..n
    <2>2. row[j] \in ToSet(row)
        BY <1>1 DEF ToSet
    <2>3. row[j].id = 0 \/ row[j].id \in Ids(ToSet(row))
        BY <2>2 DEF Ids
    <2> QED
        BY <2>3
<1>3. \A j \in 1..n + 1 : j = n + 1 \/ j \in 1..n
    BY <1>1
<1>4. \A j \in DOMAIN q : \A m \in S : m < q[j].id
    BY <1>1, <1>3 DEF Follows
<1>5. ASSUME NEW j \in 1..n + 1, NEW k \in 1..n + 1, j < k
      PROVE  q[j].id < q[k].id
    <2>1. j \in 1..n
        BY <1>1, <1>5
    <2>2. CASE k = n + 1
        BY <1>1, <1>2, <2>1, <2>2
    <2>3. CASE k \in 1..n
        BY <1>1, <1>5, <2>1, <2>3 DEF Follows
    <2> QED
        BY <1>3, <2>2, <2>3
<1> QED
    BY <1>1, <1>4, <1>5 DEF Follows, q

\* Sent or written, in the batch, in the queue: each younger than the ones
\* before it, and none younger than the last accepted.
WrittenIds == Numbers(sp) \cup seen.sent \cup {0}

Chain ==
    /\ WrittenIds \cup InBatch \cup InQueue \subseteq 0..seen.accepted
    /\ Follows(WrittenIds, worker.batch)
    /\ Follows(WrittenIds \cup InBatch, queue.items)

\* A worker is gone when its queue was closed and it left nothing, or when its
\* process died.
GoneOk ==
    /\ queue.closed => caller.pc \in {"closing", "off"}
    /\ worker.closed => queue.closed
    /\ worker.pc = "gone" =>
         caller.pc \in {"closing", "off"} /\ queue.items = <<>> /\ worker.batch = <<>>
    /\ caller.pc = "off" => worker.pc = "gone"

\* The invariant: a promise's (IInv), the journal's order, and the order of the
\* records that are still to come to it.
DrainInv ==
    /\ IInv
    /\ JournalOk(sp, seen.sent) /\ Chain /\ GoneOk
    /\ worker.told \in Nat /\ queue.dropped \in Nat

\* What leaves the ground before the reader without being sent or lost.
Passed == AheadIds(Journal) \ (AheadIds(Journal') \cup seen'.sent \cup seen'.lost)

\* What the running process answers for, and what a process that ends leaves
\* to nobody.
LivesOn ==
    /\ seen'.before = seen.before
    /\ Counted' - Counted \in Nat
    /\ IsFiniteSet(Passed) /\ Cardinality(Passed) <= Counted' - Counted
Ends == Missing \cup Passed \cup seen.before \subseteq seen'.before

\* What a step owes: what it passes is in the counts of a process that lives
\* on, and what it sends is younger than all that was sent.
Accounted ==
    /\ LivesOn \/ Ends
    /\ \A n \in seen'.sent \ seen.sent : \A m \in seen.sent : m < n

\* The counts, in a process that runs.
LEMMA CountsOf ==
    ASSUME DrainInv
    PROVE  /\ worker.told \in Nat /\ queue.dropped \in Nat /\ sp.dropped \in Nat
           /\ Counted \in Nat
           /\ caller.pc # "off" => Counted = worker.told + queue.dropped + sp.dropped
<1>1. worker.told \in Nat /\ queue.dropped \in Nat /\ sp.dropped \in Nat
    BY DEF DrainInv, JournalOk, OrderOk
<1> QED
    BY <1>1 DEF Counted

LEMMA NothingWrittenChain ==
    ASSUME Chain, queue'.items = queue.items, worker'.batch = worker.batch,
           Numbers(sp') \subseteq Numbers(sp), seen'.sent \subseteq seen.sent \cup Numbers(sp),
           seen'.accepted = seen.accepted
    PROVE  Chain'
<1>1. WrittenIds' \subseteq WrittenIds /\ InBatch' = InBatch /\ InQueue' = InQueue
    BY DEF WrittenIds, InBatch, InQueue
<1>2. WrittenIds' \cup InBatch' \cup InQueue' \subseteq 0..seen'.accepted
    BY <1>1 DEF Chain
<1>3. Follows(WrittenIds', worker'.batch)
    BY <1>1, FollowsLess DEF Chain
<1>4. Follows(WrittenIds' \cup InBatch', queue'.items)
    <2>1. WrittenIds' \cup InBatch' \subseteq WrittenIds \cup InBatch
        BY <1>1
    <2> HIDE DEF InBatch, WrittenIds
    <2> QED
        BY <2>1, FollowsLess DEF Chain
<1> QED
    BY <1>2, <1>3, <1>4 DEF Chain

LEMMA NothingPassed ==
    ASSUME AheadIds(Journal) \ AheadIds(Journal') \subseteq seen'.sent \cup seen'.lost,
           Counted \in Nat, Counted' = Counted, seen'.before = seen.before,
           \A n \in seen'.sent \ seen.sent : \A m \in seen.sent : m < n
    PROVE  Accounted
<1>1. Passed = {}
    BY DEF Passed
<1>2. IsFiniteSet(Passed) /\ Cardinality(Passed) = 0
    BY <1>1, FS_EmptySet
<1>3. LivesOn
    BY <1>2 DEF LivesOn
<1> QED
    BY <1>3 DEF Accounted

LEMMA DrainInvAtInit ==
    ASSUME Init
    PROVE  DrainInv
<1>1. IInv
    BY InitIsOk
<1>2. /\ sp.segs = <<>> /\ sp.next = 1 /\ sp.read = <<0, 0>> /\ sp.cursor = <<0, 0>>
      /\ sp.dropped = 0 /\ seen.sent = {} /\ seen.accepted = 0 /\ worker.told = 0
      /\ queue.dropped = 0 /\ queue.items = <<>> /\ queue.closed = FALSE /\ worker.batch = <<>>
      /\ worker.closed = FALSE /\ worker.pc = "drain" /\ caller.pc = "idle"
    BY DEF Init, Spool!Fresh, NewSeen, NewQueue, NewWorker
<1>3. Content(sp) = {} /\ SpoolOk(sp)
    BY <1>1, <1>2, ContentEmpty DEF IInv
<1>4. OrderOk(sp)
    <2>1. <<0, 0>> \in Positions /\ ~Later(<<0, 0>>, <<0, 0>>) /\ <<0, 0>>[1] = 0
        BY DEF Positions, Later
    <2>2. DOMAIN sp.segs = {}
        BY <1>2
    <2> QED
        BY <1>2, <2>1, <2>2 DEF OrderOk
<1>5. JournalOk(sp, seen.sent)
    BY <1>2, <1>3, <1>4 DEF JournalOk, Anchored, Sorted, BackSent, AheadAbove
<1>6. Chain
    <2>1. InBatch = {} /\ InQueue = {} /\ WrittenIds = {0}
        BY <1>2, <1>3, NoIds DEF InBatch, InQueue, WrittenIds, Numbers
    <2> QED
        BY <1>2, <2>1, FollowsNone DEF Chain
<1>7. GoneOk
    BY <1>2 DEF GoneOk
<1> QED
    BY <1>1, <1>2, <1>5, <1>6, <1>7 DEF DrainInv

LEMMA JournalIsLive ==
    ASSUME caller.pc # "off", caller'.pc # "off"
    PROVE  Journal = sp /\ Journal' = sp'
BY DEF Journal

LEMMA WorkerIsLive ==
    ASSUME DrainInv, worker.pc # "gone", UNCHANGED caller
    PROVE  Journal = sp /\ Journal' = sp' /\ caller.pc # "off"
BY JournalIsLive DEF DrainInv, GoneOk

\* The counts of a process that runs and takes a step that leaves them.
LEMMA SameCounts ==
    ASSUME DrainInv, caller.pc # "off", caller'.pc # "off",
           worker'.told = worker.told, queue'.dropped = queue.dropped, sp'.dropped = sp.dropped
    PROVE  Counted' = Counted /\ worker'.told \in Nat /\ queue'.dropped \in Nat
BY DEF Counted, DrainInv

\* Flushing and seeking leave the count of the spool.
LEMMA FlushCountsNothing ==
    ASSUME NEW s, SpoolOk(s)
    PROVE  Spool!Flush(s).dropped = s.dropped
BY DEF SpoolOk, Spool!Flush

LEMMA SeekCountsNothing ==
    ASSUME NEW s, SpoolOk(s), NEW written
    PROVE  Spool!Seek(s, written).dropped = s.dropped
<1>1. PICK segs, read, cursor : \/ Spool!Seek(s, written) = s
                               \/ Spool!Seek(s, written) = [s EXCEPT !.read = read]
                               \/ Spool!Seek(s, written)
                                     = [[s EXCEPT !.segs = segs] EXCEPT !.read = read, !.cursor = cursor]
    BY DEF Spool!Seek, Spool!MoveTo
<1> QED
    BY <1>1 DEF SpoolOk

LEMMA PeekCountsNothing ==
    ASSUME DrainInv, NEW written
    PROVE  Spool!Seek(Spool!Flush(sp), written).dropped = sp.dropped
BY FlushKeeps, FlushCountsNothing, SeekCountsNothing DEF DrainInv, IInv

LEMMA AdvanceCountsNothing ==
    ASSUME NEW s, SpoolOk(s), NEW written
    PROVE  Spool!Advance(s, written).dropped = s.dropped
BY DEF SpoolOk, Spool!Advance, Spool!MoveTo

\* A step that writes nothing, sends nothing and leaves what is ahead.
LEMMA QuietStep ==
    ASSUME DrainInv, IInv', GoneOk', JournalOk(sp', seen.sent),
           AheadIds(Journal') = AheadIds(Journal), Numbers(sp') \subseteq Numbers(sp),
           queue'.items = queue.items, worker'.batch = worker.batch,
           seen'.sent = seen.sent, seen'.accepted = seen.accepted,
           seen'.before = seen.before, worker'.told \in Nat, queue'.dropped \in Nat,
           Counted' = Counted
    PROVE  DrainInv' /\ Accounted
<1>1. Chain'
    BY NothingWrittenChain DEF DrainInv
<1>2. Accounted
    BY CountsOf, NothingPassed
<1>3. JournalOk(sp', seen'.sent)
    OBVIOUS
<1> QED
    BY <1>1, <1>2, <1>3 DEF DrainInv

----------------------------------------------------------------------------
(* The caller's steps.                                                     *)

LEMMA FlushBeginDrains ==
    ASSUME DrainInv, FlushBegin
    PROVE  DrainInv' /\ Accounted
<1>1. /\ UNCHANGED <<queue, sp, worker, seen>> /\ caller.pc = "idle" /\ caller'.pc = "flushing"
    BY DEF FlushBegin
<1>2. IInv' /\ GoneOk' /\ AheadIds(Journal') = AheadIds(Journal)
    BY <1>1, FlushBeginKeeps, JournalIsLive DEF DrainInv, GoneOk
<1>3. Counted' = Counted /\ worker'.told \in Nat /\ queue'.dropped \in Nat
    BY <1>1, SameCounts
<1> QED
    BY <1>1, <1>2, <1>3, QuietStep DEF DrainInv

LEMMA FlushOkDrains ==
    ASSUME DrainInv, FlushOk
    PROVE  DrainInv' /\ Accounted
<1>1. /\ UNCHANGED <<queue, sp, worker>> /\ caller.pc = "flushing" /\ caller'.pc = "idle"
      /\ seen' = [seen EXCEPT !.promised = @ \cup caller.asked]
    BY DEF FlushOk
<1>2. IInv' /\ GoneOk' /\ AheadIds(Journal') = AheadIds(Journal)
    BY <1>1, FlushOkKeeps, JournalIsLive DEF DrainInv, GoneOk
<1>3. seen'.sent = seen.sent /\ seen'.accepted = seen.accepted /\ seen'.before = seen.before
    BY <1>1 DEF DrainInv, IInv, TypesOk
<1>4. Counted' = Counted /\ worker'.told \in Nat /\ queue'.dropped \in Nat
    BY <1>1, SameCounts
<1> QED
    BY <1>1, <1>2, <1>3, <1>4, QuietStep DEF DrainInv

LEMMA FlushTimeoutDrains ==
    ASSUME DrainInv, FlushTimeout
    PROVE  DrainInv' /\ Accounted
<1>1. /\ UNCHANGED <<queue, sp, worker, seen>> /\ caller.pc = "flushing" /\ caller'.pc = "idle"
    BY DEF FlushTimeout
<1>2. IInv' /\ GoneOk' /\ AheadIds(Journal') = AheadIds(Journal)
    BY <1>1, FlushTimeoutKeeps, JournalIsLive DEF DrainInv, GoneOk
<1>3. Counted' = Counted /\ worker'.told \in Nat /\ queue'.dropped \in Nat
    BY <1>1, SameCounts
<1> QED
    BY <1>1, <1>2, <1>3, QuietStep DEF DrainInv

LEMMA CloseDrains ==
    ASSUME DrainInv, Close
    PROVE  DrainInv' /\ Accounted
<1>1. /\ UNCHANGED <<sp, worker, seen>> /\ caller.pc = "idle" /\ caller'.pc = "closing"
      /\ queue'.items = queue.items /\ queue'.closed /\ queue'.dropped = queue.dropped
    BY DEF Close, DrainInv, IInv, TypesOk
<1>2. IInv' /\ GoneOk' /\ AheadIds(Journal') = AheadIds(Journal)
    BY <1>1, CloseKeeps, JournalIsLive DEF DrainInv, GoneOk
<1>3. Counted' = Counted /\ worker'.told \in Nat /\ queue'.dropped \in Nat
    BY <1>1, SameCounts
<1> QED
    BY <1>1, <1>2, <1>3, QuietStep DEF DrainInv

\* The worker that is joined has flushed what it wrote; its counts go.
LEMMA JoinedDrains ==
    ASSUME DrainInv, Joined
    PROVE  DrainInv' /\ Accounted
<1>1. /\ UNCHANGED <<queue, sp, worker>> /\ caller.pc = "closing" /\ caller'.pc = "off"
      /\ worker.pc = "gone"
      /\ seen' = [seen EXCEPT !.before = @ \cup Missing]
    BY DEF Joined, DrainInv, IInv, TypesOk
<1>2. /\ seen'.sent = seen.sent /\ seen'.accepted = seen.accepted
      /\ seen'.before = seen.before \cup Missing
    <2> DEFINE missing == Missing
    <2>1. seen' = [seen EXCEPT !.before = @ \cup missing]
        BY <1>1
    <2> HIDE DEF missing
    <2>2. /\ seen'.sent = seen.sent /\ seen'.accepted = seen.accepted
          /\ seen'.before = seen.before \cup missing
        BY <2>1 DEF DrainInv, IInv, TypesOk
    <2> QED
        BY <2>2 DEF missing
<1>3. IInv' /\ GoneOk' /\ Journal = sp /\ Journal' = Spool!Recover(sp)
    BY <1>1, JoinedKeeps DEF DrainInv, GoneOk, Journal
<1>4. Buffered(sp) = {}
    BY <1>1 DEF DrainInv, IInv, HandOk
<1>5. AheadIds(Journal) \ AheadIds(Journal') = {}
    BY <1>3, <1>4, RecoverIsQuiet DEF DrainInv
<1>6. Chain'
    BY <1>1, <1>2, NothingWrittenChain DEF DrainInv
<1>7. Accounted
    <2>1. Passed = {}
        BY <1>5 DEF Passed
    <2>2. Ends
        BY <1>2, <2>1 DEF Ends
    <2> QED
        BY <1>2, <2>2 DEF Accounted
<1> QED
    BY <1>1, <1>2, <1>3, <1>6, <1>7 DEF DrainInv

\* A record accepted is younger than every one before it.
LEMMA SubmitDrains ==
    ASSUME DrainInv, Submit
    PROVE  DrainInv' /\ Accounted
<1> DEFINE new == seen.accepted + 1
           old == IF QueueFull THEN Tail(queue.items) ELSE queue.items
<1>1. /\ caller.pc = "idle" /\ UNCHANGED <<sp, worker, caller>>
      /\ queue.items \in Seq(Records) /\ seen.accepted \in Nat
      /\ worker.batch \in Seq(Records)
    BY DEF Submit, DrainInv, IInv, TypesOk
<1>2. /\ queue'.items = Append(old, Rec(new)) /\ queue'.closed = queue.closed
      /\ queue'.dropped = IF QueueFull THEN queue.dropped + 1 ELSE queue.dropped
    BY <1>1 DEF Submit, Push, DrainInv, IInv, TypesOk
<1>3. /\ seen'.accepted = new /\ seen'.sent = seen.sent /\ seen'.lost = seen.lost
      /\ seen'.before = seen.before
    BY <1>1 DEF Submit, Push, DrainInv, IInv, TypesOk
<1>4. IInv' /\ GoneOk' /\ Journal = sp /\ Journal' = sp'
    BY <1>1, <1>2, SubmitKeeps, JournalIsLive DEF DrainInv, GoneOk
<1>5. Rec(new) \in Records /\ Rec(new).id = new /\ new \in Nat
    BY <1>1 DEF Rec, Records
<1>6. /\ old \in Seq(Records) /\ Ids(ToSet(old)) \subseteq InQueue
      /\ Follows(WrittenIds \cup InBatch, old)
    <2>1. QueueFull => queue.items # <<>>
        BY <1>1, SinkAssumption DEF QueueFull
    <2>2. QueueFull => Tail(queue.items) \in Seq(Records) /\ Ids(ToSet(Tail(queue.items))) \subseteq InQueue
        BY <1>1, <1>5, <2>1, IdsOfRow DEF InQueue
    <2>3. Follows(WrittenIds \cup InBatch, queue.items)
        BY DEF DrainInv, Chain
    <2>4. QueueFull => Follows(WrittenIds \cup InBatch, Tail(queue.items))
        BY <1>1, <2>1, <2>3, FollowsTail
    <2> QED
        BY <1>1, <2>2, <2>3, <2>4 DEF InQueue
<1> HIDE DEF old
<1>7. WrittenIds \cup InBatch \cup InQueue \subseteq 0..seen.accepted /\ 0 \in WrittenIds
    BY DEF DrainInv, Chain, WrittenIds
<1>8. \A m \in WrittenIds \cup InBatch \cup InQueue : m < new
    BY <1>1, <1>7
<1> HIDE DEF new
<1>9. Follows(WrittenIds \cup InBatch, Append(old, Rec(new)))
    BY <1>5, <1>6, <1>7, <1>8, FollowsAppend
<1>10. WrittenIds' = WrittenIds /\ InBatch' = InBatch /\ InQueue' \subseteq InQueue \cup {new}
    <2>1. Ids(ToSet(Append(old, Rec(new)))) \subseteq InQueue \cup {new}
        BY <1>5, <1>6, IdsOfRow
    <2> QED
        BY <1>1, <1>2, <1>3, <2>1 DEF WrittenIds, InBatch, InQueue
<1>11. Chain'
    <2>1. 0..seen.accepted \subseteq 0..seen'.accepted /\ new \in 0..seen'.accepted
        BY <1>1, <1>3, <1>5 DEF new
    <2>2. WrittenIds' \cup InBatch' \cup InQueue' \subseteq 0..seen'.accepted
        BY <1>7, <1>10, <2>1
    <2>3. Follows(WrittenIds', worker'.batch)
        BY <1>1, <1>10 DEF DrainInv, Chain
    <2>4. Follows(WrittenIds' \cup InBatch', queue'.items)
        BY <1>2, <1>9, <1>10
    <2> QED
        BY <2>2, <2>3, <2>4 DEF Chain
<1>12. Counted' - Counted \in Nat /\ worker'.told \in Nat /\ queue'.dropped \in Nat
    <2>1. /\ worker.told \in Nat /\ queue.dropped \in Nat /\ sp.dropped \in Nat
          /\ Counted = worker.told + queue.dropped + sp.dropped
        BY <1>1, CountsOf
    <2>2. Counted' = worker'.told + queue'.dropped + sp'.dropped
        BY <1>1 DEF Counted
    <2>3. worker'.told = worker.told /\ sp'.dropped = sp.dropped
        BY <1>1
    <2>4. queue'.dropped \in {queue.dropped, queue.dropped + 1}
        BY <1>2
    <2> HIDE DEF Counted
    <2>5. Counted' \in {Counted, Counted + 1}
        BY <2>1, <2>2, <2>3, <2>4
    <2>6. Counted \in Nat
        BY <2>1
    <2> QED
        BY <2>1, <2>3, <2>4, <2>5, <2>6
<1>13. Accounted
    <2>1. Passed = {}
        BY <1>1, <1>4 DEF Passed
    <2>2. IsFiniteSet(Passed) /\ Cardinality(Passed) = 0
        BY <2>1, FS_EmptySet
    <2> QED
        BY <1>3, <1>12, <2>2 DEF Accounted, LivesOn
<1> QED
    BY <1>1, <1>3, <1>4, <1>11, <1>12, <1>13 DEF DrainInv

----------------------------------------------------------------------------
(* The worker's steps.                                                     *)

LEMMA DrainDrains ==
    ASSUME DrainInv, Drain
    PROVE  DrainInv' /\ Accounted
<1>1. /\ worker.pc = "drain" /\ UNCHANGED <<sp, caller, seen>>
      /\ queue'.items = <<>> /\ worker'.batch = queue.items /\ queue'.closed = queue.closed
      /\ worker'.pc = "append" /\ worker'.closed = queue.closed
      /\ worker'.told = worker.told /\ queue'.dropped = queue.dropped
    BY DEF Drain, DrainInv, IInv, TypesOk
<1>2. IInv' /\ GoneOk' /\ Journal = sp /\ Journal' = sp'
    BY <1>1, DrainKeeps, WorkerIsLive DEF DrainInv, GoneOk
<1>3. WrittenIds' = WrittenIds /\ InBatch' = InQueue /\ InQueue' = {}
    BY <1>1, NoIds DEF WrittenIds, InBatch, InQueue
<1>4. Chain'
    <2>1. Follows(WrittenIds, queue.items)
        <3>1. WrittenIds \in SUBSET (WrittenIds \cup InBatch)
            OBVIOUS
        <3> HIDE DEF WrittenIds
        <3> QED
            BY <3>1, FollowsLess DEF DrainInv, Chain
    <2>2. Follows(WrittenIds', worker'.batch)
        BY <1>1, <1>3, <2>1
    <2>3. Follows(WrittenIds' \cup InBatch', queue'.items)
        BY <1>1, FollowsNone
    <2>4. WrittenIds' \cup InBatch' \cup InQueue' \subseteq 0..seen'.accepted
        BY <1>1, <1>3 DEF DrainInv, Chain
    <2> QED
        BY <2>2, <2>3, <2>4 DEF Chain
<1>5. Counted' = Counted /\ Counted \in Nat /\ worker'.told \in Nat /\ queue'.dropped \in Nat
    BY <1>1, WorkerIsLive, SameCounts, CountsOf
<1>6. Accounted
    BY <1>1, <1>2, <1>5, NothingPassed
<1> QED
    BY <1>1, <1>2, <1>4, <1>5, <1>6 DEF DrainInv

\* What an append writes is in the journal, ahead of a reader that is not past
\* its end, and what it drops is in the count.
LEMMA AppendToDrains ==
    ASSUME DrainInv, NEW r \in Records, AppendTo(r), Youngest(r, sp, seen.sent)
    PROVE  /\ JournalOk(sp', seen.sent) /\ Numbers(sp') \subseteq Numbers(sp) \cup {r.id}
           /\ seen'.sent = seen.sent /\ seen'.lost = seen.lost /\ seen'.accepted = seen.accepted
           /\ sp'.dropped - sp.dropped \in Nat /\ seen'.before = seen.before
           /\ IsFiniteSet(AheadIds(sp) \ AheadIds(sp'))
           /\ Cardinality(AheadIds(sp) \ AheadIds(sp')) <= sp'.dropped - sp.dropped
           /\ seen.refused \subseteq seen'.refused
           /\ Reach(sp) => Reach(sp') /\ {r.id} \ {0} \subseteq AheadIds(sp') \cup seen'.refused
<1>1. JournalOk(sp, seen.sent) /\ SpoolOk(sp) /\ OrderOk(sp) /\ sp.dropped \in Nat
    BY CountsOf DEF DrainInv, JournalOk
<1>2. CASE Spool!Refuses(sp, r, cfg.spool)
    <2>1. sp' = sp /\ seen' = [seen EXCEPT !.refused = @ \cup (IF r.id = 0 THEN {} ELSE {r.id})]
        BY <1>2 DEF AppendTo
    <2>2. /\ seen'.sent = seen.sent /\ seen'.lost = seen.lost /\ seen'.accepted = seen.accepted
          /\ seen'.before = seen.before /\ seen'.refused = seen.refused \cup ({r.id} \ {0})
        BY <2>1 DEF DrainInv, IInv, TypesOk
    <2>3. IsFiniteSet({}) /\ Cardinality({}) = 0
        BY FS_EmptySet
    <2>4. AheadIds(sp) \ AheadIds(sp') = {}
        BY <2>1
    <2>5. sp'.dropped - sp.dropped = 0
        BY <1>1, <2>1
    <2>6. /\ IsFiniteSet(AheadIds(sp) \ AheadIds(sp'))
          /\ Cardinality(AheadIds(sp) \ AheadIds(sp')) <= sp'.dropped - sp.dropped
        BY <2>3, <2>4, <2>5
    <2>7. /\ JournalOk(sp', seen.sent) /\ Numbers(sp') \subseteq Numbers(sp) \cup {r.id}
          /\ Reach(sp) => Reach(sp')
        BY <1>1, <2>1
    <2> QED
        BY <2>2, <2>5, <2>6, <2>7
<1>3. CASE ~Spool!Refuses(sp, r, cfg.spool)
    <2>1. PICK written \in BOOLEAN :
            /\ sp' = Spool!SpoolAppend(sp, r, written)
            /\ UNCHANGED seen
        BY <1>3 DEF AppendTo
    <2>2. /\ seen'.sent = seen.sent /\ seen'.lost = seen.lost /\ seen'.accepted = seen.accepted
          /\ seen'.before = seen.before
          /\ seen'.refused = seen.refused
        BY <2>1
    <2>3. /\ JournalOk(sp', seen.sent) /\ Numbers(sp') \subseteq Numbers(sp) \cup {r.id}
          /\ sp'.dropped - sp.dropped \in Nat
          /\ IsFiniteSet(AheadIds(sp) \ AheadIds(sp'))
          /\ Cardinality(AheadIds(sp) \ AheadIds(sp')) <= sp'.dropped - sp.dropped
          /\ Reach(sp) => Reach(sp') /\ {r.id} \ {0} \subseteq AheadIds(sp')
        BY <1>1, <2>1, SpoolAppendDoes
    <2> QED
        BY <2>2, <2>3
<1> QED
    BY <1>2, <1>3

\* What is passed by dropping is in the count.
LEMMA DroppedIsCounted ==
    ASSUME NEW S, IsFiniteSet(S), Passed \subseteq S,
           Counted' - Counted \in Nat, Cardinality(S) <= Counted' - Counted,
           seen'.sent = seen.sent, seen'.before = seen.before
    PROVE  Accounted
<1>1. IsFiniteSet(Passed) /\ Cardinality(Passed) <= Cardinality(S)
    BY FS_Subset
<1>2. Cardinality(Passed) \in Nat /\ Cardinality(S) \in Nat
    BY <1>1, FS_CardinalityType
<1> QED
    BY <1>1, <1>2 DEF Accounted, LivesOn

\* What a step of the worker drops in the spool, and moves from the queue's
\* count to its own, is what the counts grow by.
LEMMA DroppedGoesToCounts ==
    ASSUME DrainInv, worker.pc # "gone", UNCHANGED caller,
           sp'.dropped \in Nat, worker'.told \in Nat, queue'.dropped \in Nat,
           worker'.told + queue'.dropped = worker.told + queue.dropped
    PROVE  Counted' - Counted = sp'.dropped - sp.dropped
<1>1. /\ worker.told \in Nat /\ queue.dropped \in Nat /\ sp.dropped \in Nat
      /\ caller.pc # "off" /\ Counted = worker.told + queue.dropped + sp.dropped
    BY CountsOf, WorkerIsLive
<1>2. Counted' = worker'.told + queue'.dropped + sp'.dropped
    BY <1>1 DEF Counted
<1> HIDE DEF Counted
<1> QED
    BY <1>1, <1>2

LEMMA AppendOneDrains ==
    ASSUME DrainInv, AppendOne
    PROVE  DrainInv' /\ Accounted
<1> DEFINE r == Head(worker.batch)
<1>1. /\ worker.pc = "append" /\ worker.batch # <<>> /\ worker.batch \in Seq(Records)
      /\ AppendTo(r) /\ UNCHANGED <<queue, caller>>
      /\ worker'.pc = "append" /\ worker'.batch = Tail(worker.batch) /\ worker'.closed = worker.closed
      /\ worker'.told = worker.told
    BY DEF AppendOne, DrainInv, IInv, TypesOk
<1>2. /\ r \in Records /\ {r.id} \ {0} \subseteq InBatch
      /\ Ids(ToSet(Tail(worker.batch))) \subseteq InBatch
    BY <1>1, LossIsRecord, IdsOfRow DEF InBatch
<1>3. IInv' /\ GoneOk' /\ Journal = sp /\ Journal' = sp'
    BY <1>1, AppendOneKeeps, WorkerIsLive DEF DrainInv, GoneOk
<1>4. /\ \A m \in WrittenIds : m < r.id
      /\ Follows(WrittenIds \cup {r.id}, Tail(worker.batch))
    BY <1>1, FollowsHead DEF DrainInv, Chain
<1> HIDE DEF r
<1>5. Youngest(r, sp, seen.sent)
    BY <1>4 DEF Youngest, WrittenIds
<1>6. /\ JournalOk(sp', seen.sent) /\ Numbers(sp') \subseteq Numbers(sp) \cup {r.id}
      /\ seen'.sent = seen.sent /\ seen'.lost = seen.lost /\ seen'.accepted = seen.accepted
      /\ sp'.dropped - sp.dropped \in Nat /\ seen'.before = seen.before
      /\ IsFiniteSet(AheadIds(sp) \ AheadIds(sp'))
      /\ Cardinality(AheadIds(sp) \ AheadIds(sp')) <= sp'.dropped - sp.dropped
    BY <1>1, <1>2, <1>5, AppendToDrains
<1>7. /\ WrittenIds' \subseteq WrittenIds \cup {r.id} /\ InBatch' \subseteq InBatch
      /\ InQueue' = InQueue
    BY <1>1, <1>2, <1>6 DEF WrittenIds, InBatch, InQueue
<1>8. r.id = 0 \/ r.id \in InBatch
    BY <1>2
<1>9. 0 \in WrittenIds
    BY DEF WrittenIds
<1> HIDE DEF WrittenIds, InBatch, InQueue
<1>10. Chain'
    <2>1. WrittenIds' \cup InBatch' \cup InQueue' \subseteq WrittenIds \cup InBatch \cup InQueue
        BY <1>7, <1>8, <1>9
    <2>2. WrittenIds' \cup InBatch' \cup InQueue' \subseteq 0..seen'.accepted
        BY <1>6, <2>1 DEF DrainInv, Chain
    <2>3. Follows(WrittenIds', worker'.batch)
        BY <1>1, <1>4, <1>7, FollowsLess
    <2>4. WrittenIds' \cup InBatch' \subseteq WrittenIds \cup InBatch
        BY <1>7, <1>8, <1>9
    <2>5. Follows(WrittenIds' \cup InBatch', queue'.items)
        BY <1>1, <2>4, FollowsLess DEF DrainInv, Chain
    <2> QED
        BY <2>2, <2>3, <2>5 DEF Chain
<1>11. Counted' - Counted = sp'.dropped - sp.dropped
    <2>1. sp'.dropped \in Nat
        BY <1>6 DEF JournalOk, OrderOk
    <2>2. /\ worker'.told = worker.told /\ queue'.dropped = queue.dropped
          /\ worker.told \in Nat /\ queue.dropped \in Nat /\ worker.pc # "gone"
        BY <1>1, CountsOf
    <2> QED
        BY <1>1, <2>1, <2>2, DroppedGoesToCounts
<1>12. Accounted
    <2>1. Passed \subseteq AheadIds(sp) \ AheadIds(sp')
        BY <1>3 DEF Passed
    <2> QED
        BY <1>6, <1>11, <2>1, DroppedIsCounted
<1>13. worker'.told \in Nat /\ queue'.dropped \in Nat
    BY <1>1, CountsOf
<1> QED
    BY <1>3, <1>6, <1>10, <1>12, <1>13 DEF DrainInv

LEMMA FlushBatchDrains ==
    ASSUME DrainInv, FlushBatch
    PROVE  DrainInv' /\ Accounted
<1>1. /\ worker.pc = "append" /\ worker'.pc = "mark" /\ UNCHANGED <<queue, caller, seen>>
      /\ worker'.batch = worker.batch /\ worker'.closed = worker.closed
      /\ worker'.told = worker.told
      /\ sp' = Spool!Flush(sp) \/ sp' = sp
    BY DEF FlushBatch, DrainInv, IInv, TypesOk
<1>2. IInv' /\ GoneOk' /\ Journal = sp /\ Journal' = sp'
    BY <1>1, FlushBatchKeeps, WorkerIsLive DEF DrainInv, GoneOk
<1>3. JournalOk(sp', seen.sent) /\ AheadIds(sp') = AheadIds(sp) /\ Numbers(sp') = Numbers(sp)
    BY <1>1, FlushIsQuiet DEF DrainInv
<1>4. Counted' = Counted /\ worker'.told \in Nat /\ queue'.dropped \in Nat
    <2>1. sp'.dropped = sp.dropped
        BY <1>1, FlushCountsNothing DEF DrainInv, IInv
    <2> QED
        BY <1>1, <2>1, WorkerIsLive, SameCounts
<1> QED
    BY <1>1, <1>2, <1>3, <1>4, QuietStep

\* A flush that was refused changes the journal in nothing.
LEMMA FlushRefusedDrains ==
    ASSUME DrainInv, FlushRefused
    PROVE  DrainInv' /\ Accounted
<1>1. /\ worker.pc = "append" /\ worker'.pc = "mark" /\ UNCHANGED <<queue, sp, caller>>
      /\ worker'.batch = worker.batch /\ worker'.closed = worker.closed
      /\ worker'.told = worker.told
      /\ seen'.sent = seen.sent /\ seen'.accepted = seen.accepted /\ seen'.before = seen.before
    BY DEF FlushRefused, DrainInv, IInv, TypesOk
<1>2. IInv' /\ GoneOk' /\ AheadIds(Journal') = AheadIds(Journal)
    BY <1>1, FlushRefusedKeeps, WorkerIsLive DEF DrainInv, GoneOk
<1>3. Counted' = Counted /\ worker'.told \in Nat /\ queue'.dropped \in Nat
    BY <1>1, WorkerIsLive, SameCounts
<1> QED
    BY <1>1, <1>2, <1>3, QuietStep DEF DrainInv

LEMMA MarkDrainedDrains ==
    ASSUME DrainInv, MarkDrained
    PROVE  DrainInv' /\ Accounted
<1>1. /\ worker.pc = "mark" /\ worker'.pc = "queueLoss" /\ UNCHANGED <<sp, caller, seen>>
      /\ worker'.batch = worker.batch /\ worker'.closed = worker.closed
      /\ queue'.items = queue.items /\ queue'.closed = queue.closed
      /\ worker'.told = worker.told /\ queue'.dropped = queue.dropped
    BY DEF MarkDrained, DrainInv, IInv, TypesOk
<1>2. IInv' /\ GoneOk' /\ AheadIds(Journal') = AheadIds(Journal)
    BY <1>1, MarkDrainedKeeps, WorkerIsLive DEF DrainInv, GoneOk
<1>3. Counted' = Counted /\ worker'.told \in Nat /\ queue'.dropped \in Nat
    BY <1>1, WorkerIsLive, SameCounts
<1> QED
    BY <1>1, <1>2, <1>3, QuietStep DEF DrainInv

\* The worker's own record has no number.
LEMMA LossIsYoungest ==
    ASSUME NEW s, NEW sent
    PROVE  Youngest(Loss, s, sent) /\ Loss.id = 0
BY DEF Youngest, Loss

\* Writing the worker's own record leaves the order of the others.
LEMMA OwnRecordChain ==
    ASSUME DrainInv, queue'.items = queue.items, worker'.batch = worker.batch,
           Numbers(sp') \subseteq Numbers(sp) \cup {0}, seen'.sent = seen.sent,
           seen'.accepted = seen.accepted
    PROVE  Chain'
<1>1. WrittenIds' \subseteq WrittenIds /\ InBatch' = InBatch /\ InQueue' = InQueue
    BY DEF WrittenIds, InBatch, InQueue
<1>2. WrittenIds' \cup InBatch' \subseteq WrittenIds \cup InBatch
    BY <1>1
<1> HIDE DEF WrittenIds, InBatch, InQueue
<1>3. Follows(WrittenIds', worker'.batch) /\ Follows(WrittenIds' \cup InBatch', queue'.items)
    BY <1>1, <1>2, FollowsLess DEF DrainInv, Chain
<1>4. WrittenIds' \cup InBatch' \cup InQueue' \subseteq 0..seen'.accepted
    BY <1>1 DEF DrainInv, Chain
<1> QED
    BY <1>3, <1>4 DEF Chain

LEMMA QueueLossDrains ==
    ASSUME DrainInv, QueueLoss
    PROVE  DrainInv' /\ Accounted
<1>1. /\ worker.pc = "queueLoss" /\ worker'.pc = "spoolLoss" /\ UNCHANGED caller
      /\ worker'.batch = worker.batch /\ worker'.closed = worker.closed
      /\ queue'.items = queue.items /\ queue'.closed = queue.closed
      /\ worker'.told = worker.told + queue.dropped /\ queue'.dropped = 0
      /\ UNCHANGED <<sp, life, seen>> \/ AppendTo(Loss)
    BY DEF QueueLoss, DrainInv, IInv, TypesOk
<1>5. /\ worker'.told \in Nat /\ queue'.dropped \in Nat
      /\ worker'.told + queue'.dropped = worker.told + queue.dropped
      /\ Counted \in Nat /\ sp.dropped \in Nat
    BY <1>1, CountsOf
<1>2. IInv' /\ GoneOk' /\ Journal = sp /\ Journal' = sp'
    BY <1>1, QueueLossKeeps, WorkerIsLive DEF DrainInv, GoneOk
<1>3. CASE UNCHANGED <<sp, life, seen>>
    <2>1. Counted' = Counted
        <3>1. caller.pc # "off" /\ caller'.pc # "off"
            BY <1>1, WorkerIsLive
        <3>2. worker'.told + queue'.dropped + sp'.dropped
                  = worker.told + queue.dropped + sp.dropped
            BY <1>3, <1>5, CountsOf
        <3> QED
            BY <3>1, <3>2 DEF Counted
    <2> QED
        BY <1>1, <1>2, <1>3, <1>5, <2>1, QuietStep DEF DrainInv
<1>4. CASE AppendTo(Loss)
    <2>1. /\ JournalOk(sp', seen.sent) /\ Numbers(sp') \subseteq Numbers(sp) \cup {0}
          /\ seen'.sent = seen.sent /\ seen'.lost = seen.lost /\ seen'.accepted = seen.accepted
          /\ sp'.dropped - sp.dropped \in Nat /\ seen'.before = seen.before
          /\ IsFiniteSet(AheadIds(sp) \ AheadIds(sp'))
          /\ Cardinality(AheadIds(sp) \ AheadIds(sp')) <= sp'.dropped - sp.dropped
        <3>1. Loss \in Records /\ Youngest(Loss, sp, seen.sent) /\ Loss.id = 0
            BY LossIsRecord, LossIsYoungest
        <3> QED
            BY <1>4, <3>1, AppendToDrains
    <2>2. Passed \subseteq AheadIds(sp) \ AheadIds(sp')
        BY <1>2 DEF Passed
    <2>3. Accounted
        <3>1. Counted' - Counted = sp'.dropped - sp.dropped
            <4>1. sp'.dropped \in Nat
                BY <2>1 DEF JournalOk, OrderOk
            <4> QED
                BY <1>1, <1>5, <4>1, DroppedGoesToCounts
        <3> QED
            BY <2>1, <2>2, <3>1, DroppedIsCounted
    <2>4. Chain'
        BY <1>1, <2>1, OwnRecordChain
    <2> QED
        BY <1>2, <1>5, <2>1, <2>3, <2>4 DEF DrainInv
<1> QED
    BY <1>1, <1>3, <1>4

LEMMA SpoolLossDrains ==
    ASSUME DrainInv, SpoolLoss
    PROVE  DrainInv' /\ Accounted
<1> DEFINE taken == [sp EXCEPT !.dropped = 0]
<1>1. /\ worker.pc = "spoolLoss" /\ worker'.pc = "send" /\ UNCHANGED <<queue, caller>>
      /\ worker'.batch = worker.batch /\ worker'.closed = worker.closed
      /\ worker'.told = worker.told + sp.dropped
    BY DEF SpoolLoss, DrainInv, IInv, TypesOk
<1>2. IInv' /\ GoneOk' /\ Journal = sp /\ Journal' = sp'
    BY <1>1, SpoolLossKeeps, WorkerIsLive DEF DrainInv, GoneOk
<1>3. /\ JournalOk(taken, seen.sent) /\ AheadIds(taken) = AheadIds(sp)
      /\ Numbers(taken) = Numbers(sp) /\ taken.dropped = 0
    BY TakenIsQuiet DEF DrainInv
<1>4. /\ worker.told \in Nat /\ queue.dropped \in Nat /\ sp.dropped \in Nat
      /\ caller.pc # "off" /\ Counted = worker.told + queue.dropped + sp.dropped
      /\ worker'.told \in Nat /\ queue'.dropped \in Nat
    BY <1>1, WorkerIsLive, CountsOf
<1>5. Counted' = worker.told + sp.dropped + queue.dropped + sp'.dropped
    BY <1>1, <1>4 DEF Counted
<1>6. CASE sp.dropped = 0 /\ UNCHANGED <<sp, life, seen>>
    <2>1. Counted' = Counted
        BY <1>4, <1>5, <1>6
    <2> QED
        BY <1>1, <1>2, <1>4, <1>6, <2>1, QuietStep DEF DrainInv
<1>7. CASE sp' = taken /\ UNCHANGED <<life, seen>>
    <2> HIDE DEF taken
    <2>1. Counted' = Counted
        BY <1>3, <1>4, <1>5, <1>7
    <2> QED
        BY <1>1, <1>2, <1>3, <1>4, <1>7, <2>1, QuietStep
<1>8. CASE \E written \in BOOLEAN :
             /\ sp' = Spool!SpoolAppend(taken, Loss, written)
             /\ UNCHANGED seen
    <2> HIDE DEF taken
    <2>1. PICK written \in BOOLEAN : sp' = Spool!SpoolAppend(taken, Loss, written)
        BY <1>8
    <2>2. /\ JournalOk(sp', seen.sent) /\ Numbers(sp') \subseteq Numbers(taken) \cup {0}
          /\ sp'.dropped - taken.dropped \in Nat
          /\ IsFiniteSet(AheadIds(taken) \ AheadIds(sp'))
          /\ Cardinality(AheadIds(taken) \ AheadIds(sp')) <= sp'.dropped - taken.dropped
        <3>1. Loss \in Records /\ Youngest(Loss, taken, seen.sent) /\ Loss.id = 0
            BY LossIsRecord, LossIsYoungest
        <3> QED
            BY <1>3, <2>1, <3>1, SpoolAppendDoes
    <2>3. sp'.dropped \in Nat
        BY <2>2 DEF JournalOk, OrderOk
    <2>4. Counted' - Counted = sp'.dropped - taken.dropped /\ Counted' - Counted \in Nat
        BY <1>3, <1>4, <1>5, <2>3
    <2>5. Passed \subseteq AheadIds(taken) \ AheadIds(sp')
        BY <1>2, <1>3 DEF Passed
    <2>6. Accounted
        BY <1>8, <2>2, <2>4, <2>5, DroppedIsCounted
    <2>7. Chain'
        BY <1>1, <1>3, <1>8, <2>2, OwnRecordChain
    <2> QED
        BY <1>2, <1>4, <1>8, <2>2, <2>6, <2>7 DEF DrainInv
<1> QED
    BY <1>6, <1>7, <1>8 DEF SpoolLoss

LEMMA PauseDrains ==
    ASSUME DrainInv, Pause
    PROVE  DrainInv' /\ Accounted
<1>1. /\ worker.pc = "send" /\ worker'.pc = "turn" /\ UNCHANGED <<queue, sp, caller, seen>>
      /\ worker'.batch = worker.batch /\ worker'.closed = worker.closed
      /\ worker'.told = worker.told
    BY DEF Pause, DrainInv, IInv, TypesOk
<1>2. IInv' /\ GoneOk' /\ AheadIds(Journal') = AheadIds(Journal)
    BY <1>1, PauseKeeps, WorkerIsLive DEF DrainInv, GoneOk
<1>3. Counted' = Counted /\ worker'.told \in Nat /\ queue'.dropped \in Nat
    BY <1>1, WorkerIsLive, SameCounts
<1> QED
    BY <1>1, <1>2, <1>3, QuietStep DEF DrainInv

\* What peek leaves behind it holds the same ahead of its reader.
LEMMA PeekIsQuiet ==
    ASSUME DrainInv, NEW written, NEW f, f = Spool!Seek(Spool!Flush(sp), written)
    PROVE  /\ JournalOk(f, seen.sent) /\ AheadIds(f) = AheadIds(sp)
           /\ Numbers(f) \subseteq Numbers(sp) /\ (Reach(sp) => Reach(f))
<1> DEFINE g == Spool!Flush(sp)
<1>1. /\ JournalOk(g, seen.sent) /\ AheadIds(g) = AheadIds(sp) /\ Numbers(g) = Numbers(sp)
      /\ Reach(sp) => Reach(g)
    BY FlushIsQuiet DEF DrainInv
<1> HIDE DEF g
<1>2. f = Spool!Seek(g, written)
    BY DEF g
<1> QED
    BY <1>1, <1>2, SeekIsQuiet

LEMMA PeekEndsDrains ==
    ASSUME DrainInv, PeekEnds
    PROVE  DrainInv' /\ Accounted
<1>1. /\ worker.pc = "send" /\ worker'.pc = "turn" /\ UNCHANGED <<queue, caller, seen>>
      /\ worker'.batch = worker.batch /\ worker'.closed = worker.closed
      /\ worker'.told = worker.told
    BY DEF PeekEnds, Sending, DrainInv, IInv, TypesOk
<1>2. PICK written : sp' = Spool!Seek(Spool!Flush(sp), written)
    BY DEF PeekEnds
<1>3. IInv' /\ GoneOk' /\ Journal = sp /\ Journal' = sp'
    BY <1>1, PeekEndsKeeps, WorkerIsLive DEF DrainInv, GoneOk
<1>4. /\ JournalOk(sp', seen.sent) /\ AheadIds(sp') = AheadIds(sp)
      /\ Numbers(sp') \subseteq Numbers(sp)
    BY <1>2, PeekIsQuiet
<1>5. Counted' = Counted /\ worker'.told \in Nat /\ queue'.dropped \in Nat
    BY <1>1, <1>2, WorkerIsLive, PeekCountsNothing, SameCounts
<1> QED
    BY <1>1, <1>3, <1>4, <1>5, QuietStep

\* A record put on the wire, whether it was taken or not.
LEMMA SentDrains ==
    ASSUME DrainInv, NEW f, f = Spool!Seek(Spool!Flush(sp), TRUE), NEW q, IsNext(q, f),
           SpoolOk(sp'), OrderOk(sp'), Passes(f, sp'),
           Journal = sp, Journal' = sp', IInv', GoneOk',
           queue'.items = queue.items, worker'.batch = worker.batch,
           seen'.sent = seen.sent \cup ({q[3]} \ {0}),
           seen'.accepted = seen.accepted, seen'.before = seen.before,
           Counted' = Counted, worker'.told \in Nat, queue'.dropped \in Nat
    PROVE  DrainInv' /\ Accounted
<1>1. /\ JournalOk(f, seen.sent) /\ AheadIds(f) = AheadIds(sp) /\ Numbers(f) \subseteq Numbers(sp)
    BY PeekIsQuiet
<1>2. /\ JournalOk(sp', seen'.sent) /\ Numbers(sp') = Numbers(f) /\ q[3] \in Numbers(f)
      /\ \A n \in ({q[3]} \ {0}) \ seen.sent : \A m \in seen.sent : m < n
      /\ AheadIds(f) \ AheadIds(sp') \subseteq {q[3]} \ {0}
    <2>1. /\ JournalOk(sp', seen.sent \cup ({q[3]} \ {0})) /\ Numbers(sp') = Numbers(f)
          /\ q[3] \in Numbers(f)
          /\ \A n \in ({q[3]} \ {0}) \ seen.sent : \A m \in seen.sent : m < n
          /\ AheadIds(f) \ AheadIds(sp') \subseteq {q[3]} \ {0}
        BY ONLY <1>1, SendIsInOrder, IsNext(q, f), SpoolOk(sp'), OrderOk(sp'), Passes(f, sp')
    <2> QED
        BY <2>1
<1>3. AheadIds(Journal) \ AheadIds(Journal') \subseteq seen'.sent
    BY <1>1, <1>2
<1>4. \A n \in seen'.sent \ seen.sent : \A m \in seen.sent : m < n
    BY <1>2
<1>5. Accounted
    BY <1>3, <1>4, CountsOf, NothingPassed
<1>6. Chain'
    BY <1>1, <1>2, NothingWrittenChain DEF DrainInv
<1> QED
    BY <1>2, <1>5, <1>6 DEF DrainInv

LEMMA SendOkDrains ==
    ASSUME DrainInv, SendOk
    PROVE  DrainInv' /\ Accounted
<1> DEFINE f == Spool!Seek(Spool!Flush(sp), TRUE)
<1>1. PICK written \in BOOLEAN :
         /\ Spool!Peeked(f) # <<>>
         /\ sp' = Spool!Advance(f, written)
         /\ seen' = [seen EXCEPT !.sent = @ \cup Ids(ToSet(Spool!Peeked(f)))]
         /\ worker' = IF written THEN [worker EXCEPT !.sent = @ + 1]
                      ELSE [worker EXCEPT !.pc = "turn"]
    BY DEF SendOk
<1>2. /\ worker.pc = "send" /\ worker'.pc \in {"send", "turn"} /\ UNCHANGED <<queue, caller>>
      /\ worker'.batch = worker.batch /\ worker'.closed = worker.closed
      /\ worker'.told = worker.told
    BY <1>1 DEF SendOk, Sending, DrainInv, IInv, TypesOk
<1>3. IInv' /\ GoneOk' /\ Journal = sp /\ Journal' = sp'
    BY <1>2, SendOkKeeps, WorkerIsLive DEF DrainInv, GoneOk
<1>4. JournalOk(f, seen.sent) /\ SpoolOk(f) /\ OrderOk(f)
    BY PeekIsQuiet DEF JournalOk
<1> HIDE DEF f
<1>5. PICK q : IsNext(q, f) /\ Ids(ToSet(Spool!Peeked(f))) = {q[3]} \ {0}
    BY <1>1, <1>4, PeekedIs
<1>6. SpoolOk(sp') /\ OrderOk(sp') /\ Passes(f, sp')
    BY <1>1, <1>4, <1>5, AdvanceDoes
<1>7. /\ seen'.sent = seen.sent \cup ({q[3]} \ {0})
      /\ seen'.accepted = seen.accepted /\ seen'.before = seen.before
    BY <1>1, <1>5 DEF DrainInv, IInv, TypesOk
<1>8. f = Spool!Seek(Spool!Flush(sp), TRUE)
    BY DEF f
<1>9. Counted' = Counted /\ worker'.told \in Nat /\ queue'.dropped \in Nat
    <2>1. sp'.dropped = sp.dropped
        BY <1>1, <1>4, <1>8, PeekCountsNothing, AdvanceCountsNothing
    <2> QED
        BY <1>2, <2>1, WorkerIsLive, SameCounts
<1> QED
    BY <1>2, <1>3, <1>5, <1>6, <1>7, <1>8, <1>9, SentDrains

LEMMA SendFailsDrains ==
    ASSUME DrainInv, SendFails
    PROVE  DrainInv' /\ Accounted
<1> DEFINE f == Spool!Seek(Spool!Flush(sp), TRUE)
<1>1. /\ Spool!Peeked(f) # <<>>
      /\ sp' = f
      /\ \/ UNCHANGED seen
         \/ seen' = [seen EXCEPT !.sent = @ \cup Ids(ToSet(Spool!Peeked(f)))]
      /\ worker' = [worker EXCEPT !.pc = "turn"]
    BY DEF SendFails
<1>2. /\ worker.pc = "send" /\ worker'.pc = "turn" /\ UNCHANGED <<queue, caller>>
      /\ worker'.batch = worker.batch /\ worker'.closed = worker.closed
      /\ worker'.told = worker.told
    BY <1>1 DEF SendFails, Sending, DrainInv, IInv, TypesOk
<1>3. IInv' /\ GoneOk' /\ Journal = sp /\ Journal' = sp'
    BY <1>2, SendFailsKeeps, WorkerIsLive DEF DrainInv, GoneOk
<1>4. /\ JournalOk(f, seen.sent) /\ SpoolOk(f) /\ OrderOk(f)
      /\ AheadIds(f) = AheadIds(sp) /\ Numbers(f) \subseteq Numbers(sp)
    BY PeekIsQuiet DEF JournalOk
<1>7. Counted' = Counted /\ worker'.told \in Nat /\ queue'.dropped \in Nat
    BY <1>1, <1>2, WorkerIsLive, PeekCountsNothing, SameCounts
<1> HIDE DEF f
<1>5. CASE UNCHANGED seen
    BY <1>1, <1>2, <1>3, <1>4, <1>5, <1>7, QuietStep
<1>6. CASE seen' = [seen EXCEPT !.sent = @ \cup Ids(ToSet(Spool!Peeked(f)))]
    <2>1. PICK q : IsNext(q, f) /\ Ids(ToSet(Spool!Peeked(f))) = {q[3]} \ {0}
        BY <1>1, <1>4, PeekedIs
    <2>2. SpoolOk(sp') /\ OrderOk(sp') /\ Passes(f, sp')
        BY <1>1, <1>4 DEF Passes
    <2>3. /\ seen'.sent = seen.sent \cup ({q[3]} \ {0})
          /\ seen'.accepted = seen.accepted /\ seen'.before = seen.before
        BY <1>6, <2>1 DEF DrainInv, IInv, TypesOk
    <2>4. f = Spool!Seek(Spool!Flush(sp), TRUE)
        BY DEF f
    <2> QED
        BY <1>2, <1>3, <1>7, <2>1, <2>2, <2>3, <2>4, SentDrains
<1> QED
    BY <1>1, <1>5, <1>6

LEMMA TurnDrains ==
    ASSUME DrainInv, Turn
    PROVE  DrainInv' /\ Accounted
<1>1. /\ worker.pc = "turn" /\ UNCHANGED <<queue, caller, seen>>
      /\ worker'.batch = worker.batch /\ worker'.closed = worker.closed
      /\ worker'.pc = IF worker.closed /\ queue.items = <<>> THEN "gone" ELSE "drain"
      /\ sp' = Spool!Flush(sp) \/ sp' = sp
      /\ worker'.told = worker.told
    BY DEF Turn, DrainInv, IInv, TypesOk
<1>2. IInv' /\ Journal = sp /\ Journal' = sp' /\ caller.pc # "off"
    <2>1. IInv'
        BY TurnKeeps DEF DrainInv
    <2>2. worker.pc # "gone" /\ UNCHANGED caller
        BY <1>1
    <2> QED
        BY <2>1, <2>2, WorkerIsLive
<1>3. worker.batch = <<>>
    BY <1>1, <1>2 DEF DrainInv, IInv, HandOk
<1>4. GoneOk'
    BY <1>1, <1>2, <1>3 DEF DrainInv, GoneOk
<1>5. JournalOk(sp', seen.sent) /\ AheadIds(sp') = AheadIds(sp) /\ Numbers(sp') = Numbers(sp)
    BY <1>1, FlushIsQuiet DEF DrainInv
<1>6. Counted' = Counted /\ worker'.told \in Nat /\ queue'.dropped \in Nat
    <2>1. sp'.dropped = sp.dropped
        BY <1>1, FlushCountsNothing DEF DrainInv, IInv
    <2> QED
        BY <1>1, <1>2, <2>1, SameCounts
<1> QED
    BY <1>1, <1>2, <1>4, <1>5, <1>6, QuietStep
----------------------------------------------------------------------------
(* The process.                                                            *)

\* Where the spool may stand inside an append, and what left it by then.
LEMMA StandingIsQuiet ==
    ASSUME DrainInv, NEW s \in Standing
    PROVE  /\ JournalOk(s, seen.sent) /\ Numbers(s) \subseteq Numbers(sp)
           /\ s.dropped - sp.dropped \in Nat
           /\ IsFiniteSet(AheadIds(sp) \ AheadIds(s))
           /\ Cardinality(AheadIds(sp) \ AheadIds(s)) <= s.dropped - sp.dropped
           /\ Reach(sp) => Reach(s)
<1>1. JournalOk(sp, seen.sent) /\ SpoolOk(sp) /\ OrderOk(sp) /\ sp.dropped \in Nat
    BY DEF DrainInv, JournalOk, OrderOk
<1>2. CASE s = sp
    <2>1. AheadIds(sp) \ AheadIds(s) = {}
        BY <1>2
    <2> QED
        BY <1>1, <1>2, <2>1, FS_EmptySet
<1>3. ASSUME NEW need, NEW written, s = Spool!DropOldest(sp, need, written)
      PROVE  /\ JournalOk(s, seen.sent) /\ Numbers(s) \subseteq Numbers(sp)
             /\ s.dropped - sp.dropped \in Nat
             /\ IsFiniteSet(AheadIds(sp) \ AheadIds(s))
             /\ Cardinality(AheadIds(sp) \ AheadIds(s)) <= s.dropped - sp.dropped
             /\ Reach(sp) => Reach(s)
    <2>1. /\ JournalOk(s, seen.sent) /\ Content(s) \subseteq Content(sp)
          /\ Reach(sp) => Reach(s)
        BY <1>1, <1>3, DropIsQuiet
    <2>2. /\ s.dropped - sp.dropped \in Nat
          /\ IsFiniteSet(AheadIds(sp) \ AheadIds(s))
          /\ Cardinality(AheadIds(sp) \ AheadIds(s)) <= s.dropped - sp.dropped
        BY <1>1, <1>3, DropCounts
    <2>3. Numbers(s) \subseteq Numbers(sp)
        BY <2>1 DEF Numbers
    <2> QED
        BY <2>1, <2>2, <2>3
<1>4. s = sp \/ \E r, written : s = Spool!DropOldest(sp, Spool!Need(r), written)
    BY DEF Standing
<1> QED
    BY <1>2, <1>3, <1>4

LEMMA DieDrains ==
    ASSUME DrainInv, Die
    PROVE  DrainInv' /\ Accounted
<1>1. /\ caller.pc # "off" /\ caller' = [pc |-> "off", asked |-> {}]
      /\ queue' = NewQueue /\ worker' = [NewWorker EXCEPT !.pc = "gone"]
    BY DEF Die
<1>2. PICK s \in Standing : \E n \in Spool!DeathPoints(s) :
         /\ sp' = Spool!Died(s, n)
         /\ seen' = [seen EXCEPT
              !.lost = @ \cup InQueue \cup InBatch
                         \cup (Ids(Spool!Written(s)) \ Ids(Spool!Written(Spool!Recover(sp')))),
              !.before = @ \cup Missing \cup (Ids(Spool!Ahead(sp)) \ Ids(Spool!Ahead(s)))]
    BY DEF Die
<1>3. PICK n \in Spool!DeathPoints(s) :
         /\ sp' = Spool!Died(s, n)
         /\ seen' = [seen EXCEPT
              !.lost = @ \cup InQueue \cup InBatch
                         \cup (Ids(Spool!Written(s)) \ Ids(Spool!Written(Spool!Recover(sp')))),
              !.before = @ \cup Missing \cup (Ids(Spool!Ahead(sp)) \ Ids(Spool!Ahead(s)))]
    BY <1>2
<1> DEFINE gone == Ids(Spool!Written(s)) \ Ids(Spool!Written(Spool!Recover(sp')))
<1>4. /\ seen'.accepted = seen.accepted /\ seen'.sent = seen.sent /\ gone \subseteq seen'.lost
      /\ seen'.before = seen.before \cup Missing \cup (AheadIds(sp) \ AheadIds(s))
    <2> DEFINE lost == seen.lost \cup InQueue \cup InBatch \cup gone
               before == seen.before \cup Missing \cup (Ids(Spool!Ahead(sp)) \ Ids(Spool!Ahead(s)))
    <2>1. seen' = [seen EXCEPT !.lost = lost, !.before = before]
        BY <1>3
    <2>2. gone \subseteq lost /\ before = seen.before \cup Missing \cup (AheadIds(sp) \ AheadIds(s))
        BY DEF AheadIds
    <2> HIDE DEF lost, gone, before
    <2>3. /\ seen'.accepted = seen.accepted /\ seen'.sent = seen.sent
          /\ seen'.lost = lost /\ seen'.before = before
        BY <2>1 DEF DrainInv, IInv, TypesOk
    <2> QED
        BY <2>2, <2>3
<1>5. JournalOk(s, seen.sent) /\ Numbers(s) \subseteq Numbers(sp)
    BY StandingIsQuiet
<1>6. /\ JournalOk(sp', seen.sent) /\ AheadIds(sp') = AheadIds(s) /\ Numbers(sp') = Numbers(s)
    BY <1>3, <1>5, DiedIsQuiet
<1>7. Journal = sp /\ Journal' = Spool!Recover(sp')
    BY <1>1 DEF Journal
<1>8. AheadIds(s) \ AheadIds(Journal') \subseteq seen'.lost
    <2>1. AheadIds(sp') \ AheadIds(Journal') \subseteq
              Ids(Spool!Written(sp')) \ Ids(Spool!Written(Spool!Recover(sp')))
        BY <1>6, <1>7, RecoverIsQuiet
    <2>2. Ids(Spool!Written(sp')) = Ids(Spool!Written(s))
        BY <1>5, <1>6, WrittenIs DEF JournalOk
    <2> QED
        BY <1>4, <1>6, <2>1, <2>2
<1>9. Accounted
    <2>1. Passed \subseteq AheadIds(sp) \ AheadIds(s)
        BY <1>7, <1>8 DEF Passed
    <2>2. Ends
        BY <1>4, <2>1 DEF Ends
    <2> QED
        BY <1>4, <2>2 DEF Accounted
<1>10. Chain'
    <2>1. /\ queue'.items = <<>> /\ worker'.batch = <<>>
        BY <1>1 DEF NewQueue, NewWorker
    <2>2. InBatch' = {} /\ InQueue' = {}
        BY <2>1, NoIds DEF InBatch, InQueue
    <2>3. WrittenIds' \subseteq 0..seen'.accepted
        BY <1>4, <1>5, <1>6 DEF DrainInv, Chain, WrittenIds
    <2> QED
        BY <2>1, <2>2, <2>3, FollowsNone DEF Chain
<1>11. GoneOk'
    BY <1>1 DEF GoneOk, NewQueue, NewWorker
<1>12. IInv' /\ worker'.told \in Nat /\ queue'.dropped \in Nat
    BY <1>1, DieKeeps DEF DrainInv, NewQueue, NewWorker
<1> QED
    BY <1>4, <1>6, <1>9, <1>10, <1>11, <1>12 DEF DrainInv

\* The next process finds what the journal was taken for while none ran.
LEMMA OpenDrains ==
    ASSUME DrainInv, Open
    PROVE  DrainInv' /\ Accounted
<1>1. /\ caller.pc = "off" /\ caller' = [pc |-> "idle", asked |-> {}]
      /\ queue' = NewQueue /\ worker' = NewWorker
      /\ sp' = Spool!Recover(sp) /\ UNCHANGED seen
    BY DEF Open
<1>2. IInv'
    BY OpenKeeps DEF DrainInv
<1>3. queue.items = <<>> /\ worker.batch = <<>>
    BY <1>1 DEF DrainInv, GoneOk
<1>4. queue'.items = queue.items /\ worker'.batch = worker.batch /\ GoneOk'
    BY <1>1, <1>3 DEF GoneOk, NewQueue, NewWorker
<1>5. Journal' = Journal
    BY <1>1 DEF Journal
<1>6. JournalOk(sp', seen.sent) /\ Numbers(sp') \subseteq Numbers(sp)
    BY <1>1, RecoverIsQuiet DEF DrainInv
<1>7. Counted' = Counted /\ worker'.told \in Nat /\ queue'.dropped \in Nat
    <2>1. worker'.told = 0 /\ queue'.dropped = 0 /\ sp'.dropped = 0
        BY <1>1 DEF NewWorker, NewQueue, Spool!Recover
    <2> QED
        BY <1>1, <2>1 DEF Counted
<1> QED
    BY <1>1, <1>2, <1>4, <1>5, <1>6, <1>7, QuietStep

LEMMA StutterDrains ==
    ASSUME DrainInv, UNCHANGED <<queue, sp, worker, caller, seen>>
    PROVE  DrainInv' /\ Accounted
<1>1. IInv'
    BY StutterKeeps DEF DrainInv
<1>2. GoneOk' /\ Journal' = Journal
    BY DEF DrainInv, GoneOk, Journal
<1>3. JournalOk(sp', seen.sent)
    BY DEF DrainInv
<1>4. Counted' = Counted /\ worker'.told \in Nat /\ queue'.dropped \in Nat
    BY DEF Counted, DrainInv
<1> QED
    BY <1>1, <1>2, <1>3, <1>4, QuietStep

----------------------------------------------------------------------------

\* Every step keeps the invariant and renders its account.
LEMMA NextDrains ==
    ASSUME DrainInv, [Next]_vars
    PROVE  DrainInv' /\ Accounted
<1>1. CASE Caller
    BY <1>1, SubmitDrains, FlushBeginDrains, FlushOkDrains, FlushTimeoutDrains, CloseDrains,
       JoinedDrains DEF Caller
<1>2. CASE Worker
    BY <1>2, DrainDrains, AppendOneDrains, FlushBatchDrains, FlushRefusedDrains,
       MarkDrainedDrains, QueueLossDrains,
       SpoolLossDrains, PauseDrains, PeekEndsDrains, SendOkDrains, SendFailsDrains, TurnDrains
    DEF Worker
<1>3. CASE BackoffOver
    BY <1>3, StutterDrains DEF BackoffOver
<1>4. CASE Die
    BY <1>4, DieDrains
<1>5. CASE Open
    BY <1>5, OpenDrains
<1>6. CASE UNCHANGED vars
    BY <1>6, StutterDrains DEF vars
<1> QED
    BY <1>1, <1>2, <1>3, <1>4, <1>5, <1>6 DEF Next

LEMMA CountsAreNumbers ==
    ASSUME DrainInv, DrainInv'
    PROVE  Counted \in Nat /\ Counted' \in Nat
<1>1. Counted \in Nat
    BY CountsOf
<1>2. worker'.told \in Nat /\ queue'.dropped \in Nat /\ sp'.dropped \in Nat
    BY DEF DrainInv, JournalOk, OrderOk
<1> QED
    BY <1>1, <1>2 DEF Counted

\* What is accounted for is sent in its order, and what is passed is sent,
\* lost with the process, or counted while there is one to count.
LEMMA AccountedIsInOrder ==
    ASSUME DrainInv, DrainInv', Accounted
    PROVE  /\ \A n \in seen'.sent \ seen.sent : \A m \in seen.sent : m < n
           /\ \A n \in Ids(Spool!Ahead(Journal)) \ Ids(Spool!Ahead(Journal)') :
                \/ n \in seen'.sent \cup seen'.lost \cup seen'.before
                \/ Counted' > Counted
<1>1. \A n \in seen'.sent \ seen.sent : \A m \in seen.sent : m < n
    BY DEF Accounted
<1>2. ASSUME NEW n \in Ids(Spool!Ahead(Journal)) \ Ids(Spool!Ahead(Journal)'),
             n \notin seen'.sent \cup seen'.lost \cup seen'.before
      PROVE  Counted' > Counted
    <2>1. n \in Passed
        BY <1>2 DEF Passed, AheadIds
    <2>2. LivesOn
        BY <1>2, <2>1 DEF Accounted, Ends
    <2>3. IsFiniteSet(Passed) /\ Cardinality(Passed) \in Nat /\ Cardinality(Passed) # 0
        BY <2>1, <2>2, FS_CardinalityType, FS_EmptySet DEF LivesOn
    <2>4. Counted' - Counted \in Nat /\ Counted \in Nat /\ Counted' \in Nat
        BY <2>2, CountsAreNumbers DEF LivesOn
    <2> QED
        BY <2>2, <2>3, <2>4 DEF LivesOn
<1> QED
    BY <1>1, <1>2

\* The drain takes the journal from its front and skips nothing in silence,
\* whatever the limits, the rules and the points at which deaths and refused
\* writes of the cursor file strike.  peek, advance and drop_oldest move the
\* reader past a record only when it was sent or its segment dropped and
\* counted; open may bring the reader back to records that were sent before,
\* and never past one that is on disk.
THEOREM DrainGoesInOrder ==
    Spec => DrainIsInOrder
<1>1. Init => DrainInv
    BY DrainInvAtInit
<1>2. DrainInv /\ [Next]_vars => DrainInv' /\ Accounted
    BY NextDrains
<1>3. DrainInv /\ DrainInv' /\ Accounted =>
          /\ \A n \in seen'.sent \ seen.sent : \A m \in seen.sent : m < n
          /\ \A n \in Ids(Spool!Ahead(Journal)) \ Ids(Spool!Ahead(Journal)') :
               \/ n \in seen'.sent \cup seen'.lost \cup seen'.before
               \/ Counted' > Counted
    BY AccountedIsInOrder
<1> QED
    BY <1>1, <1>2, <1>3, PTL DEF Spec, DrainIsInOrder, SentInOrder, PassedOnlySent
----------------------------------------------------------------------------
(* Room: what the records of a segment take of the bound.                  *)

\* The room of a row, record by record.
UnitsIn(recs) == [i \in DOMAIN recs |-> 1..Spool!Need(recs[i])]

\* A record takes its units, and its units can be counted.
LEMMA NeedIs ==
    ASSUME NEW r
    PROVE  /\ Spool!Need(r) \in Nat /\ IsFiniteSet(1..Spool!Need(r))
           /\ Cardinality(1..Spool!Need(r)) = Spool!Need(r)
<1>1. Spool!Need(r) \in Nat
    BY DEF Spool!Need
<1>2. IsFiniteSet(1..Spool!Need(r))
    BY <1>1, FS_Interval
<1>3. Cardinality(1..Spool!Need(r)) = Spool!Need(r)
    BY <1>1, FS_Interval
<1> QED
    BY <1>1, <1>2, <1>3

\* A set with each element paired with the same one is as large.
LEMMA PairedIsAsLarge ==
    ASSUME NEW k, NEW S, IsFiniteSet(S)
    PROVE  IsFiniteSet({k} \X S) /\ Cardinality({k} \X S) = Cardinality(S)
<1>1. IsFiniteSet({k}) /\ Cardinality({k}) = 1
    BY FS_Singleton
<1>2. IsFiniteSet({k} \X S) /\ Cardinality({k} \X S) = Cardinality({k}) * Cardinality(S)
    BY <1>1, FS_Product
<1>3. Cardinality(S) \in Nat
    BY FS_CardinalityType
<1> QED
    BY <1>1, <1>2, <1>3

LEMMA UnitsAreFinite ==
    ASSUME NEW recs \in Seq(Records)
    PROVE  /\ IsFiniteSet(Spool!Units(recs)) /\ Spool!BytesOf(recs) = Cardinality(Spool!Units(recs))
           /\ Spool!BytesOf(recs) \in Nat
<1> DEFINE D == UnitsIn(recs)
<1>1. IsFiniteSet(DOMAIN recs)
    <2>1. DOMAIN recs = 1..Len(recs) /\ Len(recs) \in Int /\ 1 \in Int
        OBVIOUS
    <2> QED
        BY <2>1, FS_Interval, Zenon
<1>2. \A i \in DOMAIN recs : IsFiniteSet(D[i])
    BY NeedIs DEF UnitsIn
<1>3. Spool!Units(recs) = Pairs(DOMAIN recs, D)
    BY DEF Spool!Units, Pairs, UnitsIn
<1> HIDE DEF D
<1>4. IsFiniteSet(Spool!Units(recs))
    BY <1>1, <1>2, <1>3, PairsAreFinite
<1>5. Spool!BytesOf(recs) = Cardinality(Spool!Units(recs))
    BY SameCount DEF Spool!BytesOf
<1> QED
    BY <1>4, <1>5, FS_CardinalityType

LEMMA BytesOfOne ==
    ASSUME NEW r \in Records
    PROVE  Spool!BytesOf(<<r>>) = Spool!Need(r)
<1>1. Spool!Units(<<r>>) = {1} \X (1..Spool!Need(r))
    <2>1. DOMAIN <<r>> = {1} /\ <<r>>[1] = r
        OBVIOUS
    <2> DEFINE one == <<r>>
    <2> HIDE DEF one
    <2>2. Spool!Units(one) = {1} \X (1..Spool!Need(r))
        BY <2>1 DEF Spool!Units, one
    <2> QED
        BY <2>2 DEF one
<1>2. Spool!BytesOf(<<r>>) = Cardinality(Spool!Units(<<r>>))
    <2>1. <<r>> \in Seq(Records)
        OBVIOUS
    <2> QED
        BY <2>1, UnitsAreFinite
<1> DEFINE U == 1..Spool!Need(r)
<1>3. IsFiniteSet(U) /\ Cardinality(U) = Spool!Need(r)
    BY NeedIs
<1> HIDE DEF U
<1>4. Cardinality({1} \X U) = Cardinality(U)
    BY <1>3, PairedIsAsLarge
<1> QED
    BY <1>1, <1>2, <1>3, <1>4 DEF U

LEMMA BytesOfMore ==
    ASSUME NEW recs \in Seq(Records), NEW r \in Records
    PROVE  Spool!BytesOf(Append(recs, r)) <= Spool!BytesOf(recs) + Spool!Need(r)
<1> DEFINE n == Len(recs)
           new == {n + 1} \X (1..Spool!Need(r))
           more == Append(recs, r)
<1>1. /\ n \in Nat /\ more \in Seq(Records) /\ DOMAIN recs = 1..n /\ DOMAIN more = 1..n + 1
      /\ more[n + 1] = r /\ \A i \in 1..n : more[i] = recs[i]
    OBVIOUS
<1> HIDE DEF more, n
<1>2. \A i \in 1..n + 1 : i = n + 1 \/ i \in 1..n
    BY <1>1
<1>3. Spool!Units(more) \subseteq Spool!Units(recs) \cup new
    <2>1. ASSUME NEW u \in Spool!Units(more)
          PROVE  u \in Spool!Units(recs) \cup new
        <3>1. PICK i \in 1..n + 1 : u \in {i} \X (1..Spool!Need(more[i]))
            BY <1>1 DEF Spool!Units
        <3>2. CASE i = n + 1
            BY <1>1, <3>1, <3>2
        <3>3. CASE i \in 1..n
            BY <1>1, <3>1, <3>3 DEF Spool!Units
        <3> QED
            BY <1>2, <3>2, <3>3
    <2> QED
        BY <2>1
<1>4. IsFiniteSet(new) /\ Cardinality(new) = Spool!Need(r)
    BY NeedIs, PairedIsAsLarge
<1> HIDE DEF new
<1>5. /\ IsFiniteSet(Spool!Units(recs)) /\ Spool!BytesOf(recs) = Cardinality(Spool!Units(recs))
      /\ Spool!BytesOf(recs) \in Nat
      /\ Spool!BytesOf(more) = Cardinality(Spool!Units(more)) /\ Spool!BytesOf(more) \in Nat
    BY <1>1, UnitsAreFinite
<1> DEFINE U == Spool!Units(recs)
<1>6. /\ IsFiniteSet(U \cup new)
      /\ Cardinality(U \cup new) = Cardinality(U) + Cardinality(new) - Cardinality(U \cap new)
    BY <1>4, <1>5, FS_Union
<1>7. Cardinality(U \cap new) \in Nat
    <2>1. IsFiniteSet(U \cap new)
        BY <1>5, FS_Intersection
    <2> QED
        BY <2>1, FS_CardinalityType
<1>8. Cardinality(Spool!Units(more)) <= Cardinality(U \cup new)
    BY <1>3, <1>6, FS_Subset
<1>9. Cardinality(U \cup new) \in Nat /\ Spool!Need(r) \in Nat
    BY <1>6, NeedIs, FS_CardinalityType
<1>10. Spool!BytesOf(more) <= Spool!BytesOf(recs) + Spool!Need(r)
    BY <1>4, <1>5, <1>6, <1>7, <1>8, <1>9
<1> QED
    BY <1>10 DEF more

\* The front of a row takes no more than the row.
LEMMA BytesOfLess ==
    ASSUME NEW recs \in Seq(Records), NEW front \in Seq(Records), Len(front) <= Len(recs),
           \A j \in 1..Len(front) : front[j] = recs[j]
    PROVE  Spool!BytesOf(front) <= Spool!BytesOf(recs)
<1>1. /\ DOMAIN front = 1..Len(front) /\ DOMAIN recs = 1..Len(recs)
      /\ Len(front) \in Nat /\ Len(recs) \in Nat
    OBVIOUS
<1>2. \A j \in 1..Len(front) : j \in 1..Len(recs)
    BY <1>1
<1>3. Spool!Units(front) \subseteq Spool!Units(recs)
    BY <1>1, <1>2 DEF Spool!Units
<1>4. Cardinality(Spool!Units(front)) <= Cardinality(Spool!Units(recs))
    BY <1>3, UnitsAreFinite, FS_Subset
<1> QED
    BY <1>4, UnitsAreFinite

\* Two segments take no more than twice what one may.
LEMMA BytesOfTwo ==
    ASSUME NEW q \in Seq(Segments), Len(q) <= 2,
           \A k \in 1..Len(q) : Spool!BytesOf(q[k].recs) <= SegmentBytes
    PROVE  Spool!Bytes(q) <= 2 * SegmentBytes
<1> DEFINE U(k) == {k} \X Spool!Units(q[k].recs)
           All == UNION {U(k) : k \in DOMAIN q}
<1>1. /\ Len(q) \in Nat /\ DOMAIN q = 1..Len(q) /\ SegmentBytes \in Nat
      /\ \A k \in 1..Len(q) : q[k].recs \in Seq(Records)
    <2>1. \A k \in 1..Len(q) : q[k] \in Segments
        OBVIOUS
    <2>2. \A g \in Segments : g.recs \in Seq(Records)
        BY DEF Segments
    <2>3. SegmentBytes \in Nat
        BY LimitsAssumption DEF Spool!LimitsAssumption
    <2> QED
        BY <2>1, <2>2, <2>3
<1>2. ASSUME NEW k \in 1..Len(q)
      PROVE  IsFiniteSet(U(k)) /\ Cardinality(U(k)) <= SegmentBytes /\ Cardinality(U(k)) \in Nat
    <2>1. q[k].recs \in Seq(Records)
        BY <1>1
    <2>2. /\ IsFiniteSet(Spool!Units(q[k].recs)) /\ Spool!BytesOf(q[k].recs) \in Nat
          /\ Spool!BytesOf(q[k].recs) = Cardinality(Spool!Units(q[k].recs))
        BY <2>1, UnitsAreFinite
    <2> QED
        BY <2>2, PairedIsAsLarge
<1>3. Spool!Bytes(q) = Cardinality(All)
    BY SameCount DEF Spool!Bytes
<1> HIDE DEF U
<1>4. CASE Len(q) = 0
    <2>1. All = {}
        BY <1>1, <1>4
    <2> HIDE DEF All
    <2>2. Cardinality(All) = 0
        BY <2>1, FS_EmptySet
    <2>3. 0 <= 2 * SegmentBytes
        BY <1>1
    <2> QED
        BY <1>3, <2>2, <2>3
<1>5. CASE Len(q) = 1
    <2>1. 1 \in 1..Len(q) /\ DOMAIN q = {1}
        BY <1>1, <1>5
    <2>2. All = U(1)
        BY <2>1
    <2>3. Cardinality(U(1)) <= SegmentBytes /\ Cardinality(U(1)) \in Nat
        BY <1>2, <2>1
    <2> HIDE DEF All
    <2> QED
        BY <1>1, <1>3, <2>2, <2>3
<1>6. CASE Len(q) = 2
    <2>1. 1 \in 1..Len(q) /\ 2 \in 1..Len(q) /\ DOMAIN q = {1, 2}
        BY <1>1, <1>6
    <2>2. All = U(1) \cup U(2)
        BY <2>1
    <2>3. /\ IsFiniteSet(U(1)) /\ Cardinality(U(1)) <= SegmentBytes /\ Cardinality(U(1)) \in Nat
          /\ IsFiniteSet(U(2)) /\ Cardinality(U(2)) <= SegmentBytes /\ Cardinality(U(2)) \in Nat
        BY <1>2, <2>1
    <2> HIDE DEF All
    <2>4. Cardinality(All) = Cardinality(U(1)) + Cardinality(U(2)) - Cardinality(U(1) \cap U(2))
        BY <2>2, <2>3, FS_Union
    <2>5. Cardinality(U(1) \cap U(2)) \in Nat
        BY <2>3, FS_Intersection, FS_CardinalityType
    <2> QED
        BY <1>1, <1>3, <2>3, <2>4, <2>5
<1> QED
    BY <1>1, <1>4, <1>5, <1>6
\* Settings with room for two segments and one record more.
RoomToSpare ==
    \A r \in Records :
        /\ Spool!Need(r) <= SegmentBytes
        /\ 2 * SegmentBytes + Spool!Need(r) <= MaxBytes

\* The cursor file is not past the end of what is on disk, so that a process
\* started after a death finds something there to read on.
OnFile(s) ==
    \/ s.cursor[1] = 0
    \/ \E k \in 1..Len(s.segs) :
         /\ s.segs[k].disk > 0
         /\ ~Later(s.cursor, <<s.segs[k].seq, s.segs[k].disk>>)

\* And no segment is larger than it may be.
RoomOk(s) ==
    /\ OnFile(s)
    /\ \A k \in 1..Len(s.segs) : Spool!BytesOf(s.segs[k].recs) <= SegmentBytes

\* With room to spare, two segments stay when others make room, and so one
\* that is all on disk.
LEMMA DropLeavesTwo ==
    ASSUME RoomToSpare, NEW s, SpoolOk(s), s.dropped \in Nat, RoomOk(s), NEW r \in Records,
           NEW g, g = Spool!Gone(s, Spool!Need(r)), g # 0
    PROVE  g \in 1..Len(s.segs) /\ g + 2 <= Len(s.segs)
<1> DEFINE need == Spool!Need(r)
           n == Len(s.segs)
           rest == Spool!Rest(s, g - 1)
<1>1. n \in Nat /\ s.segs \in Seq(Segments) /\ need \in Nat /\ SegmentBytes \in Nat /\ MaxBytes \in Nat
    BY SegmentHas, NeedIs, LimitsAssumption DEF Spool!LimitsAssumption
<1>2. g \in 0..n /\ \A k \in 0..n : k < g => ~Spool!Enough(s, need, k)
    <2> DEFINE d == Spool!DropOldest(s, need, TRUE)
    <2>1. d = Spool!DropOldest(s, need, TRUE)
        OBVIOUS
    <2> HIDE DEF d, need
    <2>2. g = Spool!Gone(s, need)
        BY DEF need
    <2> QED
        BY <2>1, <2>2, DropShape
<1>3. ~Spool!Enough(s, need, g - 1)
    BY <1>1, <1>2
<1> HIDE DEF need
<1>4. need + Spool!Bytes(rest) > MaxBytes \/ ~(need + Spool!Bytes(rest) <= MaxBytes)
    BY <1>3 DEF Spool!Enough
<1>5. /\ rest \in Seq(Segments) /\ Len(rest) = n - (g - 1)
      /\ \A k \in 1..n - (g - 1) : k + (g - 1) \in 1..n /\ rest[k] = s.segs[k + (g - 1)]
    <2>1. g - 1 \in Nat /\ (g - 1) + 1 \in 1..n /\ n - (g - 1) \in Nat
        BY <1>1, <1>2
    <2> DEFINE q == s.segs
               m == g - 1
    <2>2. q \in Seq(Segments) /\ m \in Nat /\ m + 1 \in 1..Len(q) /\ n = Len(q)
        BY <1>1, <2>1
    <2> HIDE DEF q, m, n
    <2>3. rest = SubSeq(q, m + 1, n)
        BY DEF Spool!Rest, q, m, n
    <2> HIDE DEF rest
    <2>4. /\ rest \in Seq(Segments) /\ Len(rest) = n - m
          /\ \A k \in 1..n - m : k + m \in 1..n /\ rest[k] = q[k + m]
        BY <2>2, <2>3
    <2> QED
        BY <2>4 DEF q, m
<1> HIDE DEF rest, n
<1>6. CASE Len(rest) <= 2
    <2>1. \A k \in 1..Len(rest) : Spool!BytesOf(rest[k].recs) <= SegmentBytes
        BY <1>5 DEF RoomOk, n
    <2>2. Spool!Bytes(rest) <= 2 * SegmentBytes
        BY <1>5, <1>6, <2>1, BytesOfTwo
    <2>3. 2 * SegmentBytes + need <= MaxBytes
        BY DEF RoomToSpare, need
    <2>4. Spool!Bytes(rest) \in Int
        <3> DEFINE U == [k \in DOMAIN rest |-> Spool!Units(rest[k].recs)]
        <3>1. \A k \in DOMAIN rest : IsFiniteSet(U[k])
            <4>1. TAKE k \in DOMAIN rest
            <4>2. rest[k] \in Segments
                BY <1>5
            <4>3. rest[k].recs \in Seq(Records)
                BY <4>2 DEF Segments
            <4> QED
                BY <4>3, UnitsAreFinite
        <3>2. IsFiniteSet(DOMAIN rest)
            <4>1. DOMAIN rest = 1..Len(rest) /\ Len(rest) \in Int /\ 1 \in Int
                BY <1>5
            <4> QED
                BY <4>1, FS_Interval, Zenon
        <3>3. Spool!Bytes(rest) = Cardinality(Pairs(DOMAIN rest, U))
            BY SameCount DEF Spool!Bytes, Pairs
        <3> HIDE DEF U
        <3>4. IsFiniteSet(Pairs(DOMAIN rest, U))
            BY <3>1, <3>2, PairsAreFinite
        <3> QED
            BY <3>3, <3>4, FS_CardinalityType
    <2> QED
        BY <1>1, <1>4, <2>2, <2>3, <2>4
<1> QED
    BY <1>1, <1>2, <1>5, <1>6 DEF n

\* What the cursor file points at stays: every segment with something on disk
\* is there with no less, or a later one is with something.
LEMMA CursorStays ==
    ASSUME NEW s, SpoolOk(s), OrderOk(s), OnFile(s), NEW t, SpoolOk(t), OrderOk(t),
           t.cursor = s.cursor,
           \A k \in 1..Len(s.segs) : s.segs[k].disk > 0 =>
              \E i \in 1..Len(t.segs) :
                 \/ t.segs[i].seq > s.segs[k].seq /\ t.segs[i].disk > 0
                 \/ t.segs[i].seq = s.segs[k].seq /\ t.segs[i].disk >= s.segs[k].disk
    PROVE  OnFile(t)
<1>1. CASE s.cursor[1] = 0
    BY <1>1 DEF OnFile
<1>2. CASE \E k \in 1..Len(s.segs) :
             /\ s.segs[k].disk > 0
             /\ ~Later(s.cursor, <<s.segs[k].seq, s.segs[k].disk>>)
    <2>1. PICK k \in 1..Len(s.segs) :
             /\ s.segs[k].disk > 0
             /\ ~Later(s.cursor, <<s.segs[k].seq, s.segs[k].disk>>)
        BY <1>2
    <2>2. PICK i \in 1..Len(t.segs) :
             \/ t.segs[i].seq > s.segs[k].seq /\ t.segs[i].disk > 0
             \/ t.segs[i].seq = s.segs[k].seq /\ t.segs[i].disk >= s.segs[k].disk
        BY <2>1
    <2>3. /\ s.segs[k] \in Segments /\ t.segs[i] \in Segments
          /\ s.cursor[1] \in Nat /\ s.cursor[2] \in Nat
        BY SegmentHas, OrderHas
    <2>4. /\ s.segs[k].seq \in Nat /\ s.segs[k].disk \in Nat
          /\ t.segs[i].seq \in Nat /\ t.segs[i].disk \in Nat
        BY <2>3 DEF Segments
    <2> DEFINE a == s.segs[k].seq
               b == s.segs[k].disk
               c == t.segs[i].seq
               e == t.segs[i].disk
               p == s.cursor[1]
               q == s.cursor[2]
    <2>5. b > 0 /\ ~(a < p) /\ ~(a = p /\ b < q)
        BY <2>1 DEF Later
    <2>6. a \in Nat /\ b \in Nat /\ c \in Nat /\ e \in Nat /\ p \in Nat /\ q \in Nat
        BY <2>3, <2>4
    <2>7. (c > a /\ e > 0) \/ (c = a /\ e >= b)
        BY <2>2
    <2> HIDE DEF a, b, c, e, p, q
    <2>8. e > 0 /\ ~(c < p) /\ ~(c = p /\ e < q)
        BY <2>5, <2>6, <2>7
    <2>9. t.segs[i].disk > 0 /\ ~Later(t.cursor, <<t.segs[i].seq, t.segs[i].disk>>)
        BY <2>8 DEF Later, c, e, p, q
    <2> QED
        BY <2>9 DEF OnFile
<1> QED
    BY <1>1, <1>2 DEF OnFile

\* A position at or before the end of a segment all on disk.
LEMMA CursorOnSegment ==
    ASSUME NEW t, SpoolOk(t), NEW i \in 1..Len(t.segs), t.segs[i].disk = Len(t.segs[i].recs),
           t.cursor[1] = t.segs[i].seq, t.cursor[2] \in 0..t.segs[i].disk
    PROVE  OnFile(t)
<1>1. t.segs[i].recs # <<>> /\ t.segs[i].recs \in Seq(Records) /\ t.segs[i] \in Segments
    BY SegmentHas
<1>2. t.segs[i].disk > 0 /\ t.segs[i].disk \in Nat /\ t.segs[i].seq \in Nat
    BY <1>1 DEF Segments
<1> QED
    BY <1>2 DEF OnFile, Later

\* When others make room, what the cursor file needs stays: it is behind them,
\* or moves on with the reader to a segment that is all on disk.
LEMMA DropKeepsRoom ==
    ASSUME RoomToSpare, NEW s, SpoolOk(s), OrderOk(s), RoomOk(s), NEW r \in Records, NEW written,
           NEW d, d = Spool!DropOldest(s, Spool!Need(r), written)
    PROVE  RoomOk(d)
<1> DEFINE need == Spool!Need(r)
           n == Len(s.segs)
           g == Spool!Gone(s, need)
           b == Bound(s, need)
<1>1. s.dropped \in Nat /\ n \in Nat
    BY SegmentHas DEF OrderOk
<1>2. /\ g \in 0..n /\ Len(d.segs) = n - g
      /\ \A k \in 1..n - g : k + g \in 1..n /\ d.segs[k] = s.segs[k + g]
      /\ UnreadGone(s, need) = {} => d.cursor = s.cursor
      /\ UnreadGone(s, need) # {} => d.cursor \in {s.cursor, <<b, 0>>}
    <2> HIDE DEF need, g
    <2>1. d = Spool!DropOldest(s, need, written) /\ g = Spool!Gone(s, need)
        BY DEF need, g
    <2>2. /\ g \in 0..n /\ Len(d.segs) = n - g
          /\ \A k \in 1..n - g : k + g \in 1..n /\ d.segs[k] = s.segs[k + g]
        BY <1>1, <2>1, DropShape
    <2>3. /\ UnreadGone(s, need) = {} => d.cursor = s.cursor
          /\ UnreadGone(s, need) # {} => d.read = <<b, 0>> /\ d.cursor \in {s.cursor, d.read}
        BY <1>1, <2>1, DropShape
    <2> QED
        BY <2>2, <2>3
<1>3. SpoolOk(d) /\ OrderOk(d)
    BY DropDoes
<1>4. g # 0 => g + 2 <= n
    BY <1>1, DropLeavesTwo
<1>5. \A j, k \in 1..n : j < k => s.segs[j].seq < s.segs[k].seq
    BY OrderHas
<1>6. b = IF g = n THEN s.next ELSE s.segs[g + 1].seq
    BY DEF Bound
<1>7. UnreadGone(s, need) \in SUBSET (1..g)
    BY DEF UnreadGone
<1> HIDE DEF need, g, b, n
<1>8. \A k \in 1..Len(d.segs) : Spool!BytesOf(d.segs[k].recs) <= SegmentBytes
    BY <1>2 DEF RoomOk, n
<1>9. ASSUME d.cursor = s.cursor
      PROVE  OnFile(d)
    <2>1. ASSUME NEW k \in 1..n, s.segs[k].disk > 0
          PROVE  \E i \in 1..Len(d.segs) :
                     \/ d.segs[i].seq > s.segs[k].seq /\ d.segs[i].disk > 0
                     \/ d.segs[i].seq = s.segs[k].seq /\ d.segs[i].disk >= s.segs[k].disk
        <3>1. CASE k > g
            <4>1. k - g \in 1..n - g /\ (k - g) + g = k
                BY <1>1, <1>2, <3>1
            <4>2. d.segs[k - g] = s.segs[k]
                BY <1>2, <4>1
            <4>3. s.segs[k].disk \in Nat
                BY SegmentHas DEF Segments, n
            <4>4. d.segs[k - g].seq = s.segs[k].seq /\ d.segs[k - g].disk >= s.segs[k].disk
                BY <4>2, <4>3
            <4> QED
                BY <1>2, <4>1, <4>4
        <3>2. CASE k <= g
            <4>1. 1 \in 1..n - g /\ g + 1 \in 1..n /\ 1 + g = g + 1 /\ g + 1 < n /\ k < g + 1
                BY <1>1, <1>2, <1>4, <3>2
            <4>2. d.segs[1] = s.segs[g + 1] /\ s.segs[g + 1].seq > s.segs[k].seq
                BY <1>2, <1>5, <4>1
            <4>3. s.segs[g + 1].disk > 0
                <5>1. /\ s.segs[g + 1].disk = Len(s.segs[g + 1].recs)
                      /\ s.segs[g + 1].recs \in Seq(Records) /\ s.segs[g + 1].recs # <<>>
                    BY <4>1, SegmentHas DEF n
                <5> QED
                    BY <5>1
            <4> QED
                BY <1>2, <4>1, <4>2, <4>3
        <3> QED
            BY <1>1, <1>2, <3>1, <3>2
    <2> QED
        BY <1>3, <1>9, <2>1, CursorStays DEF RoomOk, n
<1>10. ASSUME d.cursor = <<b, 0>>, g # 0
       PROVE  OnFile(d)
    <2>1. 1 \in 1..n - g /\ g + 1 \in 1..n /\ 1 + g = g + 1 /\ g + 1 < n /\ g # n
        BY <1>1, <1>2, <1>4, <1>10
    <2>2. d.segs[1] = s.segs[g + 1] /\ b = s.segs[g + 1].seq
        BY <1>2, <1>6, <2>1
    <2>3. s.segs[g + 1].disk = Len(s.segs[g + 1].recs) /\ s.segs[g + 1].disk \in Nat
        BY <2>1, SegmentHas DEF n, Segments
    <2>4. d.cursor[1] = d.segs[1].seq /\ d.cursor[2] \in 0..d.segs[1].disk
        BY <1>10, <2>2, <2>3
    <2> QED
        BY <1>2, <1>3, <2>1, <2>2, <2>3, <2>4, CursorOnSegment
<1>11. OnFile(d)
    <2>1. UnreadGone(s, need) # {} => g # 0
        BY <1>2, <1>7
    <2> QED
        BY <1>2, <1>9, <1>10, <2>1
<1> QED
    BY <1>8, <1>11 DEF RoomOk

\* A record that would make a segment too large opens the next one.
LEMMA AppendKeepsRoom ==
    ASSUME RoomToSpare, NEW s, SpoolOk(s), OrderOk(s), RoomOk(s), NEW r \in Records,
           NEW a, a = Spool!AppendUnchecked(s, r)
    PROVE  RoomOk(a)
<1> DEFINE n == Len(s.segs)
<1>1. SpoolOk(a) /\ OrderOk(a) /\ a.cursor = s.cursor
    <2> DEFINE p == NewPlace(s, r)
    <2>1. p = NewPlace(s, r)
        OBVIOUS
    <2> HIDE DEF p
    <2> QED
        BY <2>1, AppendDoes
<1>2. /\ n \in Nat /\ SegmentBytes \in Nat
      /\ \A k \in 1..n : /\ s.segs[k].recs \in Seq(Records)
                         /\ s.segs[k].disk \in 0..Len(s.segs[k].recs) /\ Len(s.segs[k].recs) \in Nat
    BY SegmentHas, LimitsAssumption DEF Spool!LimitsAssumption
<1>3. Spool!Need(r) <= SegmentBytes /\ Spool!Need(r) \in Nat
    BY NeedIs DEF RoomToSpare
<1>4. CASE Rolls(s, r)
    <2>1. RolledTo(s, r, a)
        BY <1>4, RollShape
    <2>2. /\ Len(a.segs) = n + 1 /\ a.segs[n + 1].recs = <<r>>
          /\ \A k \in 1..n : /\ k \in 1..n + 1
                             /\ a.segs[k].seq = s.segs[k].seq /\ a.segs[k].recs = s.segs[k].recs
                             /\ a.segs[k].disk >= s.segs[k].disk
        BY <1>2, <2>1 DEF RolledTo
    <2>3. \A k \in 1..n + 1 : k = n + 1 \/ k \in 1..n
        BY <1>2
    <2>4. Spool!BytesOf(a.segs[n + 1].recs) <= SegmentBytes
        BY <1>3, <2>2, BytesOfOne
    <2> HIDE DEF n
    <2>5. \A k \in 1..Len(a.segs) : Spool!BytesOf(a.segs[k].recs) <= SegmentBytes
        BY <2>2, <2>3, <2>4 DEF RoomOk, n
    <2>6. OnFile(a)
        BY <1>1, <2>2, CursorStays DEF RoomOk, n
    <2> QED
        BY <2>5, <2>6 DEF RoomOk
<1>5. CASE ~Rolls(s, r)
    <2>1. AddedTo(s, r, a)
        BY <1>5, AddShape
    <2>2. /\ n \in 1..n /\ Len(a.segs) = n /\ a.segs[n].recs = Append(s.segs[n].recs, r)
          /\ \A k \in 1..n : k # n => a.segs[k] = s.segs[k]
          /\ \A k \in 1..n : /\ a.segs[k].seq = s.segs[k].seq
                             /\ a.segs[k].disk = s.segs[k].disk
        BY <2>1 DEF AddedTo
    <2>3. ~(Spool!BytesOf(s.segs[n].recs) + Spool!Need(r) > SegmentBytes)
        BY <1>5 DEF Rolls
    <2>4. /\ Spool!BytesOf(Append(s.segs[n].recs, r)) <= Spool!BytesOf(s.segs[n].recs) + Spool!Need(r)
          /\ Spool!BytesOf(s.segs[n].recs) \in Nat
          /\ Spool!BytesOf(Append(s.segs[n].recs, r)) \in Nat
        <3>1. s.segs[n].recs \in Seq(Records)
            BY <1>2, <2>2
        <3>2. Append(s.segs[n].recs, r) \in Seq(Records)
            BY <3>1
        <3> QED
            BY <3>1, <3>2, BytesOfMore, UnitsAreFinite
    <2> HIDE DEF n
    <2>5. Spool!BytesOf(a.segs[n].recs) <= SegmentBytes
        BY <1>2, <1>3, <2>2, <2>3, <2>4
    <2>6. \A k \in 1..Len(a.segs) : Spool!BytesOf(a.segs[k].recs) <= SegmentBytes
        BY <2>2, <2>5 DEF RoomOk, n
    <2>7. \A k \in 1..n : a.segs[k].disk >= s.segs[k].disk
        BY <1>2, <2>2
    <2>8. OnFile(a)
        BY <1>1, <2>2, <2>7, CursorStays DEF RoomOk, n
    <2> QED
        BY <2>6, <2>8 DEF RoomOk
<1> QED
    BY <1>4, <1>5
\* Nothing of it is in a buffer.
AllOnDisk(s) == \A k \in 1..Len(s.segs) : s.segs[k].disk = Len(s.segs[k].recs)

LEMMA FlushKeepsRoom ==
    ASSUME NEW s, SpoolOk(s), OrderOk(s), RoomOk(s), NEW f, f = Spool!Flush(s)
    PROVE  RoomOk(f) /\ AllOnDisk(f)
<1>1. /\ SpoolOk(f) /\ OrderOk(f) /\ f.cursor = s.cursor /\ Len(f.segs) = Len(s.segs)
      /\ \A k \in 1..Len(s.segs) :
           /\ f.segs[k].seq = s.segs[k].seq /\ f.segs[k].recs = s.segs[k].recs
           /\ f.segs[k].disk = Len(s.segs[k].recs)
    BY FlushDoes
<1>2. ASSUME NEW k \in 1..Len(s.segs)
      PROVE  k \in 1..Len(f.segs) /\ f.segs[k].disk >= s.segs[k].disk
    <2>1. s.segs[k].disk \in 0..Len(s.segs[k].recs) /\ Len(s.segs[k].recs) \in Nat
        BY SegmentHas
    <2> QED
        BY <1>1, <2>1
<1>3. OnFile(f)
    BY <1>1, <1>2, CursorStays DEF RoomOk
<1> QED
    BY <1>1, <1>3 DEF RoomOk, AllOnDisk

LEMMA SameSegmentsKeepRoom ==
    ASSUME NEW s, RoomOk(s), NEW t, t.segs = s.segs, t.cursor = s.cursor
    PROVE  RoomOk(t) /\ (AllOnDisk(s) => AllOnDisk(t))
BY DEF RoomOk, OnFile, AllOnDisk

\* The search for the next record comes after a flush.
LEMMA LeaveKeepsRoom ==
    ASSUME NEW s, SpoolOk(s), OrderOk(s), RoomOk(s), AllOnDisk(s), NEW f, NEW k,
           Leaves(s, f, k), SpoolOk(f), OrderOk(f)
    PROVE  RoomOk(f) /\ AllOnDisk(f)
<1> DEFINE n == Len(s.segs)
<1>1. /\ n \in Nat /\ k \in 1..n /\ k < n /\ Len(f.segs) = n - 1
      /\ \A i \in 1..n - 1 : f.segs[i] = s.segs[IF i < k THEN i ELSE i + 1]
      /\ f.read = <<s.segs[k + 1].seq, 0>> /\ f.cursor \in {s.cursor, f.read}
    BY SegmentHas DEF Leaves
<1>2. /\ \A i \in 1..n : /\ s.segs[i].disk = Len(s.segs[i].recs) /\ s.segs[i].disk \in Nat
                         /\ s.segs[i].disk > 0
      /\ \A i, j \in 1..n : i < j => s.segs[i].seq < s.segs[j].seq
    <2>1. ASSUME NEW i \in 1..n
          PROVE  s.segs[i].disk \in Nat /\ s.segs[i].disk > 0
        <3>1. s.segs[i].recs \in Seq(Records) /\ s.segs[i].recs # <<>>
              /\ s.segs[i].disk = Len(s.segs[i].recs)
            BY SegmentHas DEF AllOnDisk
        <3> QED
            BY <3>1
    <2> QED
        BY <2>1, OrderHas DEF AllOnDisk
<1> HIDE DEF n
<1>3. \A i \in 1..n - 1 : (IF i < k THEN i ELSE i + 1) \in 1..n
    BY <1>1
<1>4. \A i \in 1..Len(f.segs) : Spool!BytesOf(f.segs[i].recs) <= SegmentBytes
    BY <1>1, <1>3 DEF RoomOk, n
<1>5. AllOnDisk(f)
    BY <1>1, <1>2, <1>3 DEF AllOnDisk
<1>6. k \in 1..n - 1 /\ k + 1 \in 1..n /\ k < k + 1 /\ f.segs[k] = s.segs[k + 1]
    BY <1>1
<1>7. CASE f.cursor = s.cursor
    <2>1. ASSUME NEW i \in 1..n
          PROVE  \E j \in 1..Len(f.segs) :
                     \/ f.segs[j].seq > s.segs[i].seq /\ f.segs[j].disk > 0
                     \/ f.segs[j].seq = s.segs[i].seq /\ f.segs[j].disk >= s.segs[i].disk
        <3>1. CASE i = k
            <4>1. f.segs[k].seq > s.segs[i].seq /\ f.segs[k].disk > 0
                BY <1>1, <1>2, <1>6, <3>1
            <4> QED
                BY <1>1, <1>6, <4>1
        <3>2. CASE i < k
            <4>1. i \in 1..n - 1 /\ f.segs[i] = s.segs[i]
                BY <1>1, <3>2
            <4>2. f.segs[i].seq = s.segs[i].seq /\ f.segs[i].disk >= s.segs[i].disk
                BY <1>2, <4>1
            <4> QED
                BY <1>1, <4>1, <4>2
        <3>3. CASE i > k
            <4>1. i - 1 \in 1..n - 1 /\ ~(i - 1 < k) /\ (i - 1) + 1 = i
                BY <1>1, <3>3
            <4>2. f.segs[i - 1] = s.segs[i]
                BY <1>1, <4>1
            <4>3. f.segs[i - 1].seq = s.segs[i].seq /\ f.segs[i - 1].disk >= s.segs[i].disk
                BY <1>2, <4>2
            <4> QED
                BY <1>1, <4>1, <4>3
        <3> QED
            BY <1>1, <3>1, <3>2, <3>3
    <2>2. OnFile(f)
        BY <1>7, <2>1, CursorStays DEF RoomOk, n
    <2> QED
        BY <1>4, <1>5, <2>2 DEF RoomOk
<1>8. CASE f.cursor = f.read
    <2>1. /\ f.segs[k].disk = Len(f.segs[k].recs) /\ f.cursor[1] = f.segs[k].seq
          /\ f.cursor[2] \in 0..f.segs[k].disk /\ k \in 1..Len(f.segs)
        BY <1>1, <1>2, <1>6, <1>8
    <2>2. OnFile(f)
        BY <2>1, CursorOnSegment
    <2> QED
        BY <1>4, <1>5, <2>2 DEF RoomOk
<1> QED
    BY <1>1, <1>7, <1>8

LEMMA SeekKeepsRoom ==
    ASSUME NEW s, NEW sent, JournalOk(s, sent), RoomOk(s), NEW written,
           NEW f, f = Spool!Seek(Spool!Flush(s), written)
    PROVE  JournalOk(f, sent) /\ RoomOk(f) /\ AllOnDisk(f) /\ (Reach(s) => Reach(f))
<1> DEFINE g == Spool!Flush(s)
<1>1. JournalOk(g, sent) /\ (Reach(s) => Reach(g))
    BY FlushIsQuiet
<1>2. RoomOk(g) /\ AllOnDisk(g)
    BY FlushKeepsRoom DEF JournalOk
<1>3. f = Spool!Seek(g, written)
    OBVIOUS
<1> HIDE DEF g
<1>4. JournalOk(f, sent) /\ (Reach(g) => Reach(f))
    BY <1>1, <1>3, SeekIsQuiet
<1>5. SpoolOk(g) /\ OrderOk(g) /\ SpoolOk(f) /\ OrderOk(f)
    BY <1>1, <1>4 DEF JournalOk
<1>6. CASE f = g
    BY <1>1, <1>2, <1>4, <1>6
<1>7. CASE Jumps(g, f)
    <2>1. f.segs = g.segs /\ f.cursor = g.cursor
        BY <1>7 DEF Jumps
    <2> QED
        BY <1>1, <1>2, <1>4, <2>1, SameSegmentsKeepRoom
<1>8. CASE Leaves(g, f, Spool!ReadIndex(g))
    BY <1>1, <1>2, <1>4, <1>5, <1>8, LeaveKeepsRoom
<1> QED
    BY <1>3, <1>5, <1>6, <1>7, <1>8, SeekShape

LEMMA AdvanceKeepsRoom ==
    ASSUME NEW s, SpoolOk(s), OrderOk(s), RoomOk(s), AllOnDisk(s), NEW q, IsNext(q, s), NEW written,
           NEW t, t = Spool!Advance(s, written)
    PROVE  RoomOk(t)
<1> DEFINE to == <<s.read[1], s.read[2] + 1>>
<1>1. s.read[1] \in Nat /\ s.read[2] \in Nat
    BY OrderHas
<1>2. to[1] = s.read[1] /\ to[2] = s.read[2] + 1
    OBVIOUS
<1> HIDE DEF to
<1>3. /\ t.segs = s.segs /\ t.cursor \in {s.cursor, to}
    <2>1. t = Spool!MoveTo(s, to, written)
        BY DEF Spool!Advance, to
    <2> QED
        BY <2>1 DEF Spool!MoveTo, SpoolOk
<1>4. SpoolOk(t)
    BY AdvanceKeeps
<1>5. CASE t.cursor = s.cursor
    BY <1>3, <1>5, SameSegmentsKeepRoom
<1>6. CASE t.cursor = to
    <2>1. PICK k \in 1..Len(s.segs) : \E j \in 1..Len(s.segs[k].recs) : q = At(s, k, j)
        BY ContentIs DEF IsNext
    <2>2. PICK j \in 1..Len(s.segs[k].recs) : q = At(s, k, j)
        BY <2>1
    <2>3. s.segs[k].seq = s.read[1] /\ j = s.read[2] + 1
        BY <2>2 DEF At, IsNext
    <2>4. /\ s.segs[k].disk = Len(s.segs[k].recs) /\ Len(s.segs[k].recs) \in Nat
        BY SegmentHas DEF AllOnDisk
    <2>5. t.cursor[1] = t.segs[k].seq /\ t.cursor[2] \in 0..t.segs[k].disk
        BY <1>1, <1>2, <1>3, <1>6, <2>2, <2>3, <2>4
    <2>6. OnFile(t)
        BY <1>3, <1>4, <2>4, <2>5, CursorOnSegment
    <2> QED
        BY <1>3, <2>6 DEF RoomOk
<1> QED
    BY <1>3, <1>5, <1>6

LEMMA DiedKeepsRoom ==
    ASSUME NEW s, NEW sent, JournalOk(s, sent), RoomOk(s), NEW n \in Spool!DeathPoints(s),
           NEW d, d = Spool!Died(s, n)
    PROVE  RoomOk(d)
<1>1. /\ SpoolOk(s) /\ OrderOk(s) /\ SpoolOk(d) /\ OrderOk(d)
      /\ d.cursor = s.cursor /\ Len(d.segs) = Len(s.segs)
      /\ \A k \in 1..Len(s.segs) :
           /\ d.segs[k].seq = s.segs[k].seq /\ d.segs[k].recs = s.segs[k].recs
           /\ s.segs[k].disk <= d.segs[k].disk
    BY DiedIsQuiet DEF JournalOk
<1>2. ASSUME NEW k \in 1..Len(s.segs)
      PROVE  k \in 1..Len(d.segs) /\ d.segs[k].disk >= s.segs[k].disk
    <2>1. s.segs[k].disk \in Nat /\ d.segs[k].disk \in Nat
        BY <1>1, SegmentHas DEF Segments
    <2> QED
        BY <1>1, <2>1
<1>3. OnFile(d)
    BY <1>1, <1>2, CursorStays DEF RoomOk
<1> QED
    BY <1>1, <1>3 DEF RoomOk

\* A process that finds what the cursor file points at has a reader that is
\* not past the end.
LEMMA RecoverKeepsRoom ==
    ASSUME NEW s, SpoolOk(s), OrderOk(s), RoomOk(s), NEW r, r = Spool!Recover(s)
    PROVE  RoomOk(r) /\ Reach(r)
<1> DEFINE n == Len(r.segs)
<1>1. SpoolOk(r) /\ RecoveredTo(s, r)
    BY RecoverKeeps, RecoverShape
<1>2. /\ OrderOk(r) /\ r.cursor = s.cursor /\ s.cursor[1] \in Nat /\ s.cursor[2] \in Nat
      /\ \/ r.read = s.cursor
         \/ Reach(r)
    BY RecoverOrder, OrderHas
<1>3. /\ n \in Nat
      /\ \A k \in 1..n : /\ k \in 1..Len(s.segs) /\ r.segs[k].seq = s.segs[k].seq
                         /\ r.segs[k].disk = s.segs[k].disk
                         /\ Len(r.segs[k].recs) = s.segs[k].disk
                         /\ \A j \in 1..s.segs[k].disk : r.segs[k].recs[j] = s.segs[k].recs[j]
      /\ \A k \in 1..Len(s.segs) : s.segs[k].disk # 0 => k <= n
    BY <1>1 DEF RecoveredTo, FoundOf
<1>4. ASSUME NEW k \in 1..Len(s.segs), s.segs[k].disk > 0
      PROVE  k \in 1..n /\ r.segs[k].seq = s.segs[k].seq /\ r.segs[k].disk >= s.segs[k].disk
    <2>1. s.segs[k].disk \in Nat
        BY SegmentHas DEF Segments
    <2>2. k \in 1..n
        BY <1>3, <1>4, <2>1
    <2> QED
        BY <1>3, <2>1, <2>2
<1>5. OnFile(r)
    <2> HIDE DEF n
    <2> QED
        BY <1>1, <1>2, <1>4, CursorStays DEF RoomOk, n
<1>6. ASSUME NEW k \in 1..n
      PROVE  Spool!BytesOf(r.segs[k].recs) <= SegmentBytes
    <2>1. /\ k \in 1..Len(s.segs) /\ s.segs[k].recs \in Seq(Records) /\ r.segs[k].recs \in Seq(Records)
          /\ s.segs[k].disk \in 0..Len(s.segs[k].recs) /\ Len(s.segs[k].recs) \in Nat
        BY <1>1, <1>3, SegmentHas
    <2>2. Spool!BytesOf(r.segs[k].recs) <= Spool!BytesOf(s.segs[k].recs)
        <3> DEFINE front == r.segs[k].recs
                   row == s.segs[k].recs
        <3>1. /\ front \in Seq(Records) /\ row \in Seq(Records) /\ Len(front) <= Len(row)
              /\ \A j \in 1..Len(front) : front[j] = row[j]
            BY <1>3, <2>1
        <3> HIDE DEF front, row
        <3>2. Spool!BytesOf(front) <= Spool!BytesOf(row)
            BY <3>1, BytesOfLess
        <3> QED
            BY <3>2 DEF front, row
    <2>3. Spool!BytesOf(s.segs[k].recs) <= SegmentBytes
        BY <2>1 DEF RoomOk
    <2>4. /\ Spool!BytesOf(r.segs[k].recs) \in Nat /\ Spool!BytesOf(s.segs[k].recs) \in Nat
          /\ SegmentBytes \in Nat
        BY <2>1, UnitsAreFinite, LimitsAssumption DEF Spool!LimitsAssumption
    <2> QED
        BY <2>2, <2>3, <2>4
<1>7. Reach(r)
    <2>1. CASE r.read = s.cursor
        <3>1. r.cursor[1] # 0
            <4>1. r.read[1] = 0 => r.segs = <<>>
                BY <1>2 DEF OrderOk
            <4>2. CASE s.cursor[1] = 0
                <5>1. r.segs = <<>> /\ n = 0
                    BY <1>1, <2>1, <4>1, <4>2
                <5>2. r.next = 1 /\ Spool!OldestSeq(r.segs, r.next) = 1
                    BY <1>1, <5>1 DEF RecoveredTo, Spool!OldestSeq
                <5>3. r.read[1] = 1
                    BY <1>1, <4>2, <5>2 DEF RecoveredTo
                <5> QED
                    BY <2>1, <4>2, <5>3
            <4> QED
                BY <1>2, <4>2
        <3>2. PICK k \in 1..n : /\ r.segs[k].disk > 0
                                /\ ~Later(r.cursor, <<r.segs[k].seq, r.segs[k].disk>>)
            BY <1>5, <3>1 DEF OnFile
        <3> DEFINE j == Len(r.segs[k].recs)
        <3>3. j \in 1..j /\ r.segs[k].disk = j
            BY <1>1, <1>3, <3>2, SegmentHas
        <3>4. At(r, k, j) \in Content(r) /\ At(r, k, j)[1] = r.segs[k].seq /\ At(r, k, j)[2] = j
            BY <1>1, <3>3, ContentIs DEF At
        <3> HIDE DEF j, n
        <3>5. ~Later(r.read, At(r, k, j))
            BY <1>2, <2>1, <3>2, <3>3, <3>4 DEF Later
        <3> QED
            BY <3>4, <3>5 DEF Reach
    <2> QED
        BY <1>2, <2>1
<1> QED
    BY <1>5, <1>6, <1>7 DEF RoomOk
----------------------------------------------------------------------------
(* The gaps.                                                               *)

\* The invariant that room to spare buys: the reader, of this process and of
\* the next, is not past the end of the journal.
RoomInv == Reach(sp) /\ RoomOk(sp)

\* A step that accepts nothing, and what it does to the records in memory:
\* each stays, is ahead in the journal, was lost with the process or refused.
Grows ==
    /\ seen'.accepted = seen.accepted /\ seen.sent \subseteq seen'.sent
    /\ seen.lost \subseteq seen'.lost /\ seen.refused \subseteq seen'.refused
Kept ==
    InQueue \cup InBatch \subseteq
        InQueue' \cup InBatch' \cup AheadIds(Journal') \cup seen'.lost \cup seen'.refused

\* The records a row gives up when its head is taken.
LEMMA RowSplits ==
    ASSUME NEW q \in Seq(Records), q # <<>>
    PROVE  Ids(ToSet(q)) \subseteq ({Head(q).id} \ {0}) \cup Ids(ToSet(Tail(q)))
<1>1. ASSUME NEW i \in DOMAIN q
      PROVE  q[i] = Head(q) \/ q[i] \in ToSet(Tail(q))
    <2>1. i = 1 \/ (i - 1 \in DOMAIN Tail(q) /\ Tail(q)[i - 1] = q[i])
        OBVIOUS
    <2>2. q[1] = Head(q)
        OBVIOUS
    <2> DEFINE t == Tail(q)
    <2> HIDE DEF t
    <2>3. i - 1 \in DOMAIN t => t[i - 1] \in ToSet(t)
        BY DEF ToSet
    <2> QED
        BY <2>1, <2>2, <2>3 DEF t
<1>2. ToSet(q) \subseteq {Head(q)} \cup ToSet(Tail(q))
    BY <1>1 DEF ToSet
<1> QED
    BY <1>2 DEF Ids

\* A step that counts what it passes keeps the count, and a process that
\* ends has none to keep.
LEMMA GapsStep ==
    ASSUME DrainInv, DrainInv', Accounted, GapsAreCounted, Grows, Kept
    PROVE  GapsAreCounted'
<1> DEFINE S == Missing \ seen.before
           T == Missing' \ seen'.before
<1>1. Missing' \subseteq Missing \cup Passed
    <2>1. ASSUME NEW n \in Missing', n \notin Missing
          PROVE  n \in Passed
        <3>1. /\ n \in 1..seen.accepted
              /\ n \notin seen'.sent \cup seen'.lost \cup seen'.refused
              /\ n \notin InQueue' \cup InBatch' \cup AheadIds(Journal')
            BY <2>1 DEF Missing, Accepted, Held, Grows, AheadIds
        <3>2. n \in InQueue \cup InBatch \cup AheadIds(Journal)
            BY <2>1, <3>1 DEF Missing, Accepted, Held, Grows, AheadIds
        <3>3. n \in AheadIds(Journal)
            BY <3>1, <3>2 DEF Kept
        <3> QED
            BY <3>1, <3>3 DEF Passed
    <2> QED
        BY <2>1
<1>2. Counted \in Nat /\ Counted' \in Nat
    BY CountsAreNumbers
<1>3. CASE Ends
    <2>1. T = {}
        BY <1>1, <1>3 DEF Ends
    <2> HIDE DEF T
    <2>2. Cardinality(T) = 0
        BY <2>1, FS_EmptySet
    <2>3. Cardinality(T) <= Counted'
        BY <1>2, <2>2
    <2> QED
        BY <2>3 DEF GapsAreCounted, T
<1>4. CASE LivesOn
    <2>1. IsFiniteSet(S)
        <3>1. seen.accepted \in Int /\ 1 \in Int
            BY DEF DrainInv, IInv, TypesOk
        <3>2. IsFiniteSet(1..seen.accepted)
            BY <3>1, FS_Interval, Zenon
        <3>3. S \subseteq 1..seen.accepted
            BY DEF Missing, Accepted
        <3> QED
            BY <3>2, <3>3, FS_Subset
    <2>2. IsFiniteSet(Passed) /\ Cardinality(Passed) <= Counted' - Counted
        BY <1>4 DEF LivesOn
    <2>3. T \subseteq S \cup Passed
        BY <1>1, <1>4 DEF LivesOn
    <2>4. Cardinality(S) <= Counted
        BY DEF GapsAreCounted
    <2> HIDE DEF S, T
    <2>5. /\ IsFiniteSet(S \cup Passed)
          /\ Cardinality(S \cup Passed)
                 = Cardinality(S) + Cardinality(Passed) - Cardinality(S \cap Passed)
        BY <2>1, <2>2, FS_Union
    <2>6. /\ Cardinality(S \cap Passed) \in Nat /\ Cardinality(S) \in Nat
          /\ Cardinality(Passed) \in Nat
        BY <2>1, <2>2, FS_Intersection, FS_CardinalityType
    <2>7. /\ IsFiniteSet(T) /\ Cardinality(T) <= Cardinality(S \cup Passed)
        BY <2>3, <2>5, FS_Subset
    <2>8. Cardinality(T) \in Nat
        BY <2>7, FS_CardinalityType
    <2>9. Cardinality(T) <= Counted'
        BY <1>2, <2>2, <2>4, <2>5, <2>6, <2>7, <2>8
    <2> QED
        BY <2>9 DEF GapsAreCounted, T
<1> QED
    BY <1>3, <1>4 DEF Accounted

\* What the queue drops for want of room is counted by push.
LEMMA SubmitGaps ==
    ASSUME DrainInv, GapsAreCounted, RoomInv, Submit
    PROVE  GapsAreCounted' /\ RoomInv'
<1> DEFINE new == seen.accepted + 1
           old == IF QueueFull THEN Tail(queue.items) ELSE queue.items
           out == IF QueueFull THEN {Head(queue.items).id} ELSE {}
<1>1. /\ caller.pc = "idle" /\ UNCHANGED <<sp, worker, caller>>
      /\ queue.items \in Seq(Records) /\ seen.accepted \in Nat
    BY DEF Submit, DrainInv, IInv, TypesOk
<1>2. /\ queue'.items = Append(old, Rec(new))
      /\ queue'.dropped = IF QueueFull THEN queue.dropped + 1 ELSE queue.dropped
    BY <1>1 DEF Submit, Push, DrainInv, IInv, TypesOk
<1>3. /\ seen'.accepted = new /\ seen'.sent = seen.sent /\ seen'.lost = seen.lost
      /\ seen'.refused = seen.refused /\ seen'.before = seen.before
    BY <1>1 DEF Submit, Push, DrainInv, IInv, TypesOk
<1>4. QueueFull => queue.items # <<>>
    BY <1>1, SinkAssumption DEF QueueFull
<1>5. old \in Seq(Records) /\ InQueue \subseteq Ids(ToSet(old)) \cup out
    BY <1>1, <1>4, RowSplits DEF InQueue
<1> HIDE DEF old
<1>6. Ids(ToSet(old)) \cup {new} \subseteq InQueue'
    <2>1. ToSet(Append(old, Rec(new))) = ToSet(old) \cup {Rec(new)}
        <3> DEFINE m == Append(old, Rec(new))
                   l == Len(old)
        <3>1. /\ l \in Nat /\ DOMAIN old = 1..l /\ DOMAIN m = 1..l + 1 /\ m[l + 1] = Rec(new)
              /\ \A i \in 1..l : m[i] = old[i] /\ i \in 1..l + 1
            BY <1>5
        <3> HIDE DEF m, l
        <3>2. \A i \in 1..l + 1 : i = l + 1 \/ i \in 1..l
            BY <3>1
        <3>3. l + 1 \in 1..l + 1
            BY <3>1
        <3>4. ToSet(m) = ToSet(old) \cup {Rec(new)}
            BY <3>1, <3>2, <3>3 DEF ToSet
        <3> QED
            BY <3>4 DEF m
    <2>2. Rec(new).id = new /\ new # 0
        BY <1>1 DEF Rec
    <2>3. InQueue' = Ids(ToSet(Append(old, Rec(new))))
        BY <1>2 DEF InQueue
    <2> HIDE DEF new
    <2> QED
        BY <2>1, <2>2, <2>3 DEF Ids
<1>7. Journal' = Journal /\ InBatch' = InBatch
    BY <1>1 DEF Journal, InBatch
<1>8. 1..new = (1..seen.accepted) \cup {new}
    BY <1>1
<1> HIDE DEF new
<1> DEFINE S == Missing \ seen.before
           T == Missing' \ seen'.before
<1>9. T \subseteq S \cup out
    BY <1>3, <1>5, <1>6, <1>7, <1>8 DEF Missing, Accepted, Held
<1>10. IsFiniteSet(S)
    <2>1. seen.accepted \in Int /\ 1 \in Int
        BY <1>1
    <2>2. IsFiniteSet(1..seen.accepted)
        BY <2>1, FS_Interval, Zenon
    <2>3. S \subseteq 1..seen.accepted
        BY DEF Missing, Accepted
    <2> QED
        BY <2>2, <2>3, FS_Subset
<1>11. IsFiniteSet(out) /\ Cardinality(out) = IF QueueFull THEN 1 ELSE 0
    <2>1. CASE QueueFull
        BY <2>1, FS_Singleton
    <2>2. CASE ~QueueFull
        BY <2>2, FS_EmptySet
    <2> QED
        BY <2>1, <2>2
<1>12. Counted' = Counted + (IF QueueFull THEN 1 ELSE 0) /\ Counted \in Nat
    <2>1. /\ worker.told \in Nat /\ queue.dropped \in Nat /\ sp.dropped \in Nat
          /\ Counted \in Nat /\ Counted = worker.told + queue.dropped + sp.dropped
        BY <1>1, CountsOf
    <2>2. Counted' = worker.told + queue'.dropped + sp.dropped
        BY <1>1 DEF Counted
    <2> QED
        BY <1>2, <2>1, <2>2
<1>13. Cardinality(S) <= Counted
    BY DEF GapsAreCounted
<1> HIDE DEF out, S, T
<1>14. /\ IsFiniteSet(S \cup out)
       /\ Cardinality(S \cup out) = Cardinality(S) + Cardinality(out) - Cardinality(S \cap out)
       /\ Cardinality(S \cap out) \in Nat /\ Cardinality(S) \in Nat
    BY <1>10, <1>11, FS_Union, FS_Intersection, FS_CardinalityType
<1>15. Cardinality(T) <= Cardinality(S \cup out) /\ Cardinality(T) \in Nat
    BY <1>9, <1>14, FS_Subset, FS_CardinalityType
<1>16. Cardinality(T) <= Counted'
    BY <1>11, <1>12, <1>13, <1>14, <1>15
<1>17. RoomInv'
    BY <1>1 DEF RoomInv
<1> QED
    BY <1>16, <1>17 DEF GapsAreCounted, T

\* Room made and a record written.
LEMMA SpoolAppendKeepsRoom ==
    ASSUME RoomToSpare, NEW s, NEW sent, JournalOk(s, sent), RoomOk(s), NEW r \in Records,
           NEW written, NEW a, a = Spool!SpoolAppend(s, r, written)
    PROVE  RoomOk(a)
<1> DEFINE d == Spool!DropOldest(s, Spool!Need(r), written)
<1>1. JournalOk(d, sent) /\ SpoolOk(s) /\ OrderOk(s)
    BY DropIsQuiet DEF JournalOk
<1>2. RoomOk(d)
    BY <1>1, DropKeepsRoom
<1>3. a = Spool!AppendUnchecked(d, r)
    BY DEF Spool!SpoolAppend
<1> HIDE DEF d
<1>4. SpoolOk(d) /\ OrderOk(d)
    BY <1>1 DEF JournalOk
<1> QED
    BY <1>2, <1>3, <1>4, AppendKeepsRoom

LEMMA AppendToKeepsRoom ==
    ASSUME RoomToSpare, DrainInv, RoomInv, NEW r \in Records, AppendTo(r)
    PROVE  RoomOk(sp')
<1>1. CASE Spool!Refuses(sp, r, cfg.spool)
    BY <1>1 DEF AppendTo, RoomInv
<1>2. CASE ~Spool!Refuses(sp, r, cfg.spool)
    <2>1. PICK written \in BOOLEAN : sp' = Spool!SpoolAppend(sp, r, written)
        BY <1>2 DEF AppendTo
    <2> QED
        BY <2>1, SpoolAppendKeepsRoom DEF DrainInv, RoomInv
<1> QED
    BY <1>1, <1>2

\* What each step owes besides its account.
Stays == Grows /\ Kept /\ RoomInv'

\* A step that leaves the queue and the batch.
LEMMA SameRowsStay ==
    ASSUME queue'.items = queue.items, worker'.batch = worker.batch,
           seen'.accepted = seen.accepted, seen.sent \subseteq seen'.sent,
           seen'.lost = seen.lost, seen.refused \subseteq seen'.refused,
           Reach(sp'), RoomOk(sp')
    PROVE  Stays
<1>1. Kept
    BY DEF Kept, InQueue, InBatch
<1>2. Grows /\ RoomInv'
    BY DEF Grows, RoomInv
<1> QED
    BY <1>1, <1>2 DEF Stays

LEMMA SpoolUntouchedStays ==
    ASSUME DrainInv, RoomInv,
           \/ FlushBegin \/ FlushOk \/ FlushTimeout \/ Close \/ Joined
           \/ FlushRefused \/ MarkDrained \/ Pause \/ BackoffOver \/ UNCHANGED vars
    PROVE  Stays
<1>1. sp' = sp
    BY DEF FlushBegin, FlushOk, FlushTimeout, Close, Joined, FlushRefused, MarkDrained, Pause,
       BackoffOver, vars
<1>2. queue'.items = queue.items
    BY DEF FlushBegin, FlushOk, FlushTimeout, Close, Joined, FlushRefused, MarkDrained, Pause,
       BackoffOver, vars,
           DrainInv, IInv, TypesOk
<1>3. worker'.batch = worker.batch
    BY DEF FlushBegin, FlushOk, FlushTimeout, Close, Joined, FlushRefused, MarkDrained, Pause,
       BackoffOver, vars,
           DrainInv, IInv, TypesOk
<1>4. \/ UNCHANGED seen
      \/ \E new : seen' = [seen EXCEPT !.promised = new]
      \/ \E new : seen' = [seen EXCEPT !.before = new]
      \/ \E new : seen' = [seen EXCEPT !.unwritten = new]
    BY DEF FlushBegin, FlushOk, FlushTimeout, Close, Joined, FlushRefused, MarkDrained, Pause,
       BackoffOver, vars
<1>5. /\ seen'.accepted = seen.accepted /\ seen'.sent = seen.sent
      /\ seen'.lost = seen.lost /\ seen'.refused = seen.refused
    BY <1>4 DEF DrainInv, IInv, TypesOk
<1>6. Reach(sp') /\ RoomOk(sp')
    BY <1>1 DEF RoomInv
<1> QED
    BY <1>2, <1>3, <1>5, <1>6, SameRowsStay

LEMMA DrainStays ==
    ASSUME DrainInv, RoomInv, Drain
    PROVE  Stays
<1>1. /\ worker.pc = "drain" /\ UNCHANGED <<sp, seen>> /\ worker'.batch = queue.items
    BY DEF Drain, DrainInv, IInv, TypesOk
<1>2. worker.batch = <<>>
    BY <1>1 DEF DrainInv, IInv, HandOk, GoneOk
<1>3. InBatch = {} /\ InBatch' = InQueue
    BY <1>1, <1>2, NoIds DEF InBatch, InQueue
<1>4. Kept
    BY <1>3 DEF Kept
<1> QED
    BY <1>1, <1>4 DEF Stays, Grows, RoomInv

\* A record taken from the batch is ahead of the reader, or refused.
LEMMA AppendOneStays ==
    ASSUME RoomToSpare, DrainInv, RoomInv, AppendOne
    PROVE  Stays
<1> DEFINE r == Head(worker.batch)
<1>1. /\ worker.pc = "append" /\ worker.batch # <<>> /\ worker.batch \in Seq(Records)
      /\ AppendTo(r) /\ UNCHANGED <<queue, caller>> /\ worker'.batch = Tail(worker.batch)
    BY DEF AppendOne, DrainInv, IInv, TypesOk
<1>2. r \in Records /\ InBatch \subseteq ({r.id} \ {0}) \cup InBatch'
    BY <1>1, IdsOfRow, LossIsRecord, RowSplits DEF InBatch
<1>3. Journal' = sp'
    BY <1>1, WorkerIsLive
<1>4. \A m \in WrittenIds : m < r.id
    BY <1>1, FollowsHead DEF DrainInv, Chain
<1> HIDE DEF r
<1>5. Youngest(r, sp, seen.sent)
    BY <1>4 DEF Youngest, WrittenIds
<1>6. /\ seen'.sent = seen.sent /\ seen'.lost = seen.lost /\ seen'.accepted = seen.accepted
      /\ seen.refused \subseteq seen'.refused
      /\ Reach(sp') /\ {r.id} \ {0} \subseteq AheadIds(sp') \cup seen'.refused
    BY <1>1, <1>2, <1>5, AppendToDrains DEF RoomInv
<1>7. RoomOk(sp')
    BY <1>1, <1>2, AppendToKeepsRoom
<1>8. InQueue' = InQueue
    BY <1>1 DEF InQueue
<1>9. Kept
    BY <1>2, <1>3, <1>6, <1>8 DEF Kept
<1> QED
    BY <1>6, <1>7, <1>9 DEF Stays, Grows, RoomInv

LEMMA FlushStays ==
    ASSUME DrainInv, RoomInv, FlushBatch \/ Turn
    PROVE  Stays
<1>1. /\ UNCHANGED <<queue, seen>> /\ worker'.batch = worker.batch
      /\ sp' = Spool!Flush(sp) \/ sp' = sp
    BY DEF FlushBatch, Turn, DrainInv, IInv, TypesOk
<1>2. JournalOk(sp, seen.sent) /\ SpoolOk(sp) /\ OrderOk(sp) /\ RoomOk(sp) /\ Reach(sp)
    BY DEF DrainInv, JournalOk, RoomInv
<1>3. Reach(sp') /\ RoomOk(sp')
    BY <1>1, <1>2, FlushIsQuiet, FlushKeepsRoom
<1> QED
    BY <1>1, <1>3, SameRowsStay

LEMMA QueueLossStays ==
    ASSUME RoomToSpare, DrainInv, RoomInv, QueueLoss
    PROVE  Stays
<1>1. /\ worker'.batch = worker.batch /\ queue'.items = queue.items
      /\ UNCHANGED <<sp, life, seen>> \/ AppendTo(Loss)
    BY DEF QueueLoss, DrainInv, IInv, TypesOk
<1>2. CASE UNCHANGED <<sp, life, seen>>
    <2>1. Reach(sp') /\ RoomOk(sp')
        BY <1>2 DEF RoomInv
    <2> QED
        BY <1>1, <1>2, <2>1, SameRowsStay
<1>3. CASE AppendTo(Loss)
    <2>1. Loss \in Records /\ Youngest(Loss, sp, seen.sent)
        BY LossIsRecord, LossIsYoungest
    <2>2. /\ seen'.sent = seen.sent /\ seen'.lost = seen.lost /\ seen'.accepted = seen.accepted
          /\ seen.refused \subseteq seen'.refused /\ Reach(sp')
        BY <1>3, <2>1, AppendToDrains DEF RoomInv
    <2>3. RoomOk(sp')
        BY <1>3, <2>1, AppendToKeepsRoom
    <2> QED
        BY <1>1, <2>2, <2>3, SameRowsStay
<1> QED
    BY <1>1, <1>2, <1>3

LEMMA SpoolLossStays ==
    ASSUME RoomToSpare, DrainInv, RoomInv, SpoolLoss
    PROVE  Stays
<1> DEFINE taken == [sp EXCEPT !.dropped = 0]
<1>1. worker'.batch = worker.batch /\ queue'.items = queue.items
    BY DEF SpoolLoss, DrainInv, IInv, TypesOk
<1>2. JournalOk(taken, seen.sent) /\ Reach(taken)
    BY TakenIsQuiet DEF DrainInv, RoomInv
<1>3. RoomOk(taken)
    <2>1. taken.segs = sp.segs /\ taken.cursor = sp.cursor
        BY DEF DrainInv, IInv, SpoolOk
    <2> HIDE DEF taken
    <2> QED
        BY <2>1, SameSegmentsKeepRoom DEF RoomInv
<1>4. CASE UNCHANGED <<sp, life, seen>>
    <2>1. Reach(sp') /\ RoomOk(sp')
        BY <1>4 DEF RoomInv
    <2> QED
        BY <1>1, <1>4, <2>1, SameRowsStay
<1>5. CASE sp' = taken /\ UNCHANGED <<life, seen>>
    <2> HIDE DEF taken
    <2>1. Reach(sp') /\ RoomOk(sp')
        BY <1>2, <1>3, <1>5
    <2> QED
        BY <1>1, <1>5, <2>1, SameRowsStay
<1>6. CASE \E written \in BOOLEAN :
             /\ sp' = Spool!SpoolAppend(taken, Loss, written)
             /\ UNCHANGED seen
    <2> HIDE DEF taken
    <2>1. PICK written \in BOOLEAN :
             /\ sp' = Spool!SpoolAppend(taken, Loss, written)
             /\ UNCHANGED seen
        BY <1>6
    <2>2. /\ seen'.sent = seen.sent /\ seen'.lost = seen.lost /\ seen'.accepted = seen.accepted
          /\ seen'.refused = seen.refused
        BY <2>1 DEF DrainInv, IInv, TypesOk
    <2>3. Loss \in Records /\ Youngest(Loss, taken, seen.sent)
        BY LossIsRecord, LossIsYoungest
    <2>4. Reach(sp') /\ RoomOk(sp')
        BY <1>2, <1>3, <2>1, <2>3, SpoolAppendDoes, SpoolAppendKeepsRoom
    <2> QED
        BY <1>1, <2>2, <2>4, SameRowsStay
<1> QED
    BY <1>4, <1>5, <1>6 DEF SpoolLoss

LEMMA PeekEndsStays ==
    ASSUME DrainInv, RoomInv, PeekEnds
    PROVE  Stays
<1>1. /\ UNCHANGED <<queue, seen>> /\ worker'.batch = worker.batch
    BY DEF PeekEnds, DrainInv, IInv, TypesOk
<1>2. PICK written : sp' = Spool!Seek(Spool!Flush(sp), written)
    BY DEF PeekEnds
<1>3. Reach(sp') /\ RoomOk(sp')
    BY <1>2, SeekKeepsRoom DEF DrainInv, RoomInv
<1> QED
    BY <1>1, <1>3, SameRowsStay

LEMMA SendStays ==
    ASSUME DrainInv, RoomInv, SendOk \/ SendFails
    PROVE  Stays
<1> DEFINE f == Spool!Seek(Spool!Flush(sp), TRUE)
<1>1. /\ JournalOk(f, seen.sent) /\ RoomOk(f) /\ AllOnDisk(f) /\ Reach(f)
    BY SeekKeepsRoom DEF DrainInv, RoomInv
<1>2. /\ Spool!Peeked(f) # <<>>
      /\ sp' = f \/ \E written \in BOOLEAN : sp' = Spool!Advance(f, written)
      /\ \/ UNCHANGED seen
         \/ seen' = [seen EXCEPT !.sent = @ \cup Ids(ToSet(Spool!Peeked(f)))]
      /\ UNCHANGED queue
    BY DEF SendOk, SendFails
<1>3. worker'.batch = worker.batch
    BY DEF SendOk, SendFails, DrainInv, IInv, TypesOk
<1> HIDE DEF f
<1>4. /\ seen'.accepted = seen.accepted /\ seen.sent \subseteq seen'.sent
      /\ seen'.lost = seen.lost /\ seen'.refused = seen.refused
    BY <1>2 DEF DrainInv, IInv, TypesOk
<1>5. SpoolOk(f) /\ OrderOk(f)
    BY <1>1 DEF JournalOk
<1>6. Reach(sp') /\ RoomOk(sp')
    <2>1. CASE sp' = f
        BY <1>1, <2>1
    <2>2. ASSUME NEW written \in BOOLEAN, sp' = Spool!Advance(f, written)
          PROVE  Reach(sp') /\ RoomOk(sp')
        <3>1. PICK q : IsNext(q, f)
            BY <1>2, <1>5, PeekedIs
        <3>2. SpoolOk(sp') /\ OrderOk(sp') /\ Passes(f, sp')
            BY <1>5, <2>2, <3>1, AdvanceDoes
        <3>3. Reach(sp')
            BY <1>1, <3>1, <3>2, SendIsInOrder
        <3>4. RoomOk(sp')
            BY <1>1, <1>5, <2>2, <3>1, AdvanceKeepsRoom
        <3> QED
            BY <3>3, <3>4
    <2> QED
        BY <1>2, <2>1, <2>2
<1> QED
    BY <1>2, <1>3, <1>4, <1>6, SameRowsStay

\* What was in memory when the process died is lost with it, and the room for
\* the record in hand may have been made.
LEMMA DieStays ==
    ASSUME RoomToSpare, DrainInv, RoomInv, Die
    PROVE  Stays
<1>1. PICK s \in Standing : \E n \in Spool!DeathPoints(s) :
         /\ sp' = Spool!Died(s, n)
         /\ seen' = [seen EXCEPT
              !.lost = @ \cup InQueue \cup InBatch
                         \cup (Ids(Spool!Written(s)) \ Ids(Spool!Written(Spool!Recover(sp')))),
              !.before = @ \cup Missing \cup (Ids(Spool!Ahead(sp)) \ Ids(Spool!Ahead(s)))]
    BY DEF Die
<1>2. PICK n \in Spool!DeathPoints(s) :
         /\ sp' = Spool!Died(s, n)
         /\ seen' = [seen EXCEPT
              !.lost = @ \cup InQueue \cup InBatch
                         \cup (Ids(Spool!Written(s)) \ Ids(Spool!Written(Spool!Recover(sp')))),
              !.before = @ \cup Missing \cup (Ids(Spool!Ahead(sp)) \ Ids(Spool!Ahead(s)))]
    BY <1>1
<1>3. /\ seen'.accepted = seen.accepted /\ seen'.sent = seen.sent /\ seen'.refused = seen.refused
      /\ seen.lost \cup InQueue \cup InBatch \subseteq seen'.lost
    <2> DEFINE lost == seen.lost \cup InQueue \cup InBatch
                         \cup (Ids(Spool!Written(s)) \ Ids(Spool!Written(Spool!Recover(sp'))))
               before == seen.before \cup Missing
                           \cup (Ids(Spool!Ahead(sp)) \ Ids(Spool!Ahead(s)))
    <2>1. seen' = [seen EXCEPT !.lost = lost, !.before = before]
        BY <1>2
    <2>2. seen.lost \cup InQueue \cup InBatch \subseteq lost
        OBVIOUS
    <2> HIDE DEF lost, before
    <2> QED
        BY <2>1, <2>2 DEF DrainInv, IInv, TypesOk
<1>4. JournalOk(s, seen.sent) /\ Reach(s)
    BY StandingIsQuiet DEF RoomInv
<1>5. RoomOk(s)
    <2>1. worker.batch \in Seq(Records) /\ SpoolOk(sp) /\ OrderOk(sp) /\ RoomOk(sp)
        BY DEF DrainInv, IInv, TypesOk, JournalOk, RoomInv
    <2>2. ToSet(worker.batch) \subseteq Records
        BY <2>1 DEF ToSet
    <2>3. InHand \subseteq Records
        BY <2>2, LossIsRecord DEF InHand
    <2>4. s = sp \/ \E r \in Records, written \in BOOLEAN :
                       s = Spool!DropOldest(sp, Spool!Need(r), written)
        BY <2>3 DEF Standing
    <2> QED
        BY <2>1, <2>4, DropKeepsRoom
<1>6. Reach(sp') /\ RoomOk(sp')
    BY <1>2, <1>4, <1>5, DiedIsQuiet, DiedKeepsRoom
<1>7. Kept
    BY <1>3 DEF Kept
<1> QED
    BY <1>3, <1>6, <1>7 DEF Stays, Grows, RoomInv

LEMMA OpenStays ==
    ASSUME DrainInv, RoomInv, Open
    PROVE  Stays
<1>1. /\ caller.pc = "off" /\ queue' = NewQueue /\ worker' = NewWorker
      /\ sp' = Spool!Recover(sp) /\ UNCHANGED seen
    BY DEF Open
<1>2. queue.items = <<>> /\ worker.batch = <<>>
    BY <1>1 DEF DrainInv, GoneOk
<1>3. queue'.items = queue.items /\ worker'.batch = worker.batch
    BY <1>1, <1>2 DEF NewQueue, NewWorker
<1>4. Reach(sp') /\ RoomOk(sp')
    BY <1>1, RecoverKeepsRoom DEF DrainInv, JournalOk, RoomInv
<1> QED
    BY <1>1, <1>3, <1>4, SameRowsStay

----------------------------------------------------------------------------

\* The invariant behind the count.
GapsInv == DrainInv /\ RoomInv /\ GapsAreCounted

LEMMA GapsInvAtInit ==
    ASSUME Init
    PROVE  GapsInv
<1>1. DrainInv
    BY DrainInvAtInit
<1>2. /\ sp.segs = <<>> /\ sp.read = <<0, 0>> /\ sp.cursor = <<0, 0>>
      /\ seen.accepted = 0
    BY DEF Init, Spool!Fresh, NewSeen
<1>3. RoomInv
    <2>1. Reach(sp) /\ OnFile(sp)
        BY <1>2 DEF Reach, OnFile
    <2>2. Len(sp.segs) = 0
        BY <1>2
    <2> QED
        BY <2>1, <2>2 DEF RoomInv, RoomOk
<1>4. GapsAreCounted
    <2>1. Missing \ seen.before = {}
        BY <1>2 DEF Missing, Accepted
    <2>2. Counted \in Nat
        BY <1>1, CountsOf
    <2> QED
        BY <2>1, <2>2, FS_EmptySet DEF GapsAreCounted
<1> QED
    BY <1>1, <1>3, <1>4 DEF GapsInv

\* Every step but submit passes only what it counts, and submit counts what
\* the queue drops.
LEMMA NextGaps ==
    ASSUME RoomToSpare, GapsInv, [Next]_vars
    PROVE  GapsInv'
<1>1. DrainInv /\ RoomInv /\ GapsAreCounted
    BY DEF GapsInv
<1>2. DrainInv' /\ Accounted
    BY <1>1, NextDrains
<1>3. CASE Submit
    BY <1>1, <1>2, <1>3, SubmitGaps DEF GapsInv
<1>4. CASE ~Submit
    <2>1. Stays
        BY <1>1, <1>4, SpoolUntouchedStays, DrainStays, AppendOneStays, FlushStays,
           QueueLossStays, SpoolLossStays, PeekEndsStays, SendStays, DieStays, OpenStays
        DEF Next, Caller, Worker
    <2>2. GapsAreCounted'
        BY <1>1, <1>2, <2>1, GapsStep DEF Stays
    <2> QED
        BY <1>2, <2>1, <2>2 DEF Stays, GapsInv
<1> QED
    BY <1>3, <1>4

\* A reader that reaches the journal is not past its next segment.
LEMMA ReachIsIn ==
    ASSUME NEW s, SpoolOk(s), OrderOk(s), Reach(s)
    PROVE  s.read[1] <= s.next
<1>1. s.read[1] \in Nat /\ s.next \in Nat
    BY OrderHas
<1>2. CASE s.segs = <<>> /\ (s.read[1] = 0 \/ s.read = <<s.next, 0>>)
    BY <1>1, <1>2
<1>3. ASSUME NEW x \in Content(s), ~Later(s.read, x)
      PROVE  s.read[1] <= s.next
    <2>1. PICK k \in 1..Len(s.segs) : \E j \in 1..Len(s.segs[k].recs) : x = At(s, k, j)
        BY ContentIs
    <2>2. x[1] = s.segs[k].seq
        BY <2>1 DEF At
    <2>3. x[1] \in Nat /\ x[1] < s.next
        BY <2>2, OrderHas
    <2> QED
        BY <1>1, <1>3, <2>3 DEF Later
<1> QED
    BY <1>2, <1>3 DEF Reach

\* So it is for this process, and for the next one.
LEMMA CursorIsIn ==
    ASSUME DrainInv, RoomInv
    PROVE  CursorIsInJournal
<1>1. SpoolOk(sp) /\ OrderOk(sp) /\ Reach(sp) /\ RoomOk(sp)
    BY DEF DrainInv, JournalOk, RoomInv
<1>2. /\ SpoolOk(Spool!Recover(sp)) /\ OrderOk(Spool!Recover(sp))
      /\ Reach(Spool!Recover(sp))
    BY <1>1, RecoverOrder, RecoverKeepsRoom
<1>3. SpoolOk(Journal) /\ OrderOk(Journal) /\ Reach(Journal)
    BY <1>1, <1>2 DEF Journal
<1> HIDE DEF Journal
<1> QED
    BY <1>3, ReachIsIn DEF CursorIsInJournal

\* What goes missing under a process is in its counts as long as it runs, when
\* the bound has room for two segments and a record: drop_oldest counts what it
\* takes from before the reader, push what it takes from the queue, and no
\* record written later is behind a reader that a restart put past the end of
\* the journal.  The counts are in memory and end with the process; across
\* processes the docs' promise is broken (NoSilentGap).
THEOREM GapsStayCounted ==
    ASSUME RoomToSpare
    PROVE  Spec => []GapsAreCounted
<1>1. Init => GapsInv
    BY GapsInvAtInit
<1>2. GapsInv /\ [Next]_vars => GapsInv'
    BY NextGaps
<1>3. GapsInv => GapsAreCounted
    BY DEF GapsInv
<1> QED
    BY <1>1, <1>2, <1>3, PTL DEF Spec

\* Under the same settings the reader never stands past the segment that is
\* to be written next: the cursor that recover finds on disk points at what is
\* there, or is set to it.
THEOREM CursorStaysInJournal ==
    ASSUME RoomToSpare
    PROVE  Spec => []CursorIsInJournal
<1>1. Init => GapsInv
    BY GapsInvAtInit
<1>2. GapsInv /\ [Next]_vars => GapsInv'
    BY NextGaps
<1>3. GapsInv => CursorIsInJournal
    BY CursorIsIn DEF GapsInv
<1> QED
    BY <1>1, <1>2, <1>3, PTL DEF Spec
============================================================================
