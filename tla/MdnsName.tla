----------------------------- MODULE MdnsName ------------------------------
(***************************************************************************)
(* Names and TXT strings on the wire and in text (name.rs, record.rs of    *)
(* package rk_mdns).  A name is a sequence of labels, a label a sequence   *)
(* of bytes.  Reading a name that may hold compression pointers is a       *)
(* machine, one step an iteration of the loop in Name::decode.             *)
(***************************************************************************)
EXTENDS Integers, Sequences, FiniteSets, SequencesExt

CONSTANTS
    MaxLabel, MaxName, MaxJumps, \* MAX_LABEL, MAX_NAME, MAX_JUMPS
    MaxString,   \* 255, the longest TXT string
    Datagrams,   \* the datagrams read: bytes, the name at the start of each
    Names,       \* names written, shown and parsed
    Texts        \* lists of TXT strings

\* Of the constants.
NameAssumption ==
    MaxLabel \in 1..63 /\ MaxName \in Nat \ {0} /\ MaxJumps \in Nat /\ MaxString \in 1..255

VARIABLES
    wire,    \* the datagram, the offset the name starts at, the name meant
    at,      \* the offset read next
    labels,  \* the labels read so far
    next,    \* where reading continues after the first pointer, -1 before it
    jumps, total,
    outcome  \* reading, ok, truncated, pointerLoop, labelTooLong, nameTooLong

vars == <<wire, at, labels, next, jumps, total, outcome>>

Pointer == 192
Dot == 46
Backslash == 92
Printable == 32..126

----------------------------------------------------------------------------
(* Writing.                                                                *)
EncodedLabel(l) == <<Len(l)>> \o l
Encode(name) == FoldLeft(LAMBDA out, l : out \o EncodedLabel(l), <<>>, name) \o <<0>>
EncodedLen(name) == Len(Encode(name))
Legal(name) ==
    /\ \A i \in DOMAIN name : Len(name[i]) \in 1..MaxLabel
    /\ EncodedLen(name) <= MaxName
Prepend(label, name) == <<label>> \o name
WithoutFirstLabel(name) == IF name = <<>> THEN <<>> ELSE Tail(name)

Digits(b) == <<48 + b \div 100, 48 + ((b \div 10) % 10), 48 + (b % 10)>>
\* Mutant: a backslash inside a label is shown as it is.
ShownDotsOnly(b) ==
    IF b = Dot THEN <<Backslash, b>> ELSE <<b>>
Shown(b) ==
    IF b \in {Dot, Backslash} THEN <<Backslash, b>>
    ELSE IF b \in Printable THEN <<b>> ELSE <<Backslash>> \o Digits(b)
ShownLabel(l) == FlattenSeq([i \in DOMAIN l |-> Shown(l[i])])
Display(name) ==
    FlattenSeq([i \in DOMAIN name |->
        (IF i = 1 THEN <<>> ELSE <<Dot>>) \o ShownLabel(name[i])])

\* Parsing text: a backslash takes the next byte as it is, the last one stands
\* for itself; empty labels are dropped.
Closed(p) == IF p.current = <<>> THEN p.labels ELSE Append(p.labels, p.current)
Take(p, b) ==
    IF p.escaped THEN [p EXCEPT !.current = Append(@, b), !.escaped = FALSE]
    ELSE IF b = Backslash THEN [p EXCEPT !.escaped = TRUE]
    ELSE IF b = Dot THEN [p EXCEPT !.labels = Closed(p), !.current = <<>>]
    ELSE [p EXCEPT !.current = Append(@, b)]
Parse(text) ==
    LET p == FoldLeft(Take, [labels |-> <<>>, current |-> <<>>, escaped |-> FALSE], text)
    IN Closed(IF p.escaped THEN [p EXCEPT !.current = Append(@, Backslash)] ELSE p)

\* TXT strings, each clipped at MaxString; an empty list is one empty string.
\* Mutant: the clip counts the length byte in.
ClipShort(s) == SubSeq(s, 1, Min({Len(s), MaxString - 1}))
Clip(s) == SubSeq(s, 1, Min({Len(s), MaxString}))
EncodeTxt(entries) ==
    IF entries = <<>> THEN <<0>>
    ELSE FlattenSeq([i \in DOMAIN entries |->
             EncodedLabel(Clip(entries[i]))])
\* Reading drops empty strings and stops at a clipped one.
DecodeTxt(body) ==
    LET from[i \in 1..Len(body) + 1] ==
          IF i > Len(body) \/ i + body[i] > Len(body) THEN <<>>
          ELSE (IF body[i] = 0 THEN <<>> ELSE <<SubSeq(body, i + 1, i + body[i])>>)
               \o from[i + 1 + body[i]]
    IN from[1]

----------------------------------------------------------------------------
(* Reading.                                                                *)
Init ==
    /\ wire \in Datagrams
    /\ at = wire.start /\ labels = <<>> /\ next = -1 /\ jumps = 0 /\ total = 0
    /\ outcome = "reading"

Byte(i) == wire.bytes[i + 1]
Size == Len(wire.bytes)
Inside(i) == i < Size

Fails(why) == outcome' = why /\ UNCHANGED <<wire, at, labels, next, jumps, total>>

PastEnd == ~Inside(at) /\ Fails("truncated")

\* The root label: reading continues after the first pointer, if there was one.
Finish ==
    /\ Inside(at) /\ Byte(at) = 0
    /\ outcome' = "ok"
    /\ next' = IF next = -1 THEN at + 1 ELSE next
    /\ UNCHANGED <<wire, at, labels, jumps, total>>

Target == (Byte(at) % 64) * 256 + Byte(at + 1)
\* Mutant: reading continues after the last pointer.
AfterPointerLast == at + 2
AfterPointer == IF next = -1 THEN at + 2 ELSE next
Jump ==
    /\ Inside(at) /\ Byte(at) >= Pointer
    /\ IF ~Inside(at + 1) THEN Fails("truncated")
       ELSE IF jumps = MaxJumps THEN Fails("pointerLoop")
       ELSE IF ~Inside(Target) THEN Fails("truncated")
       ELSE IF Target >= at THEN Fails("pointerLoop")
       ELSE /\ jumps' = jumps + 1
            /\ next' = AfterPointer
            /\ at' = Target
            /\ UNCHANGED <<wire, labels, total, outcome>>

\* Mutant: the length of the name is not bounded.
TooLongNever(l) == FALSE
TooLong(l) == total + l + 1 > MaxName
Label ==
    /\ Inside(at) /\ Byte(at) \in 1..Pointer - 1
    /\ LET l == Byte(at) IN
       IF l > MaxLabel THEN Fails("labelTooLong")
       ELSE IF at + 1 + l > Size THEN Fails("truncated")
       ELSE IF TooLong(l) THEN Fails("nameTooLong")
       ELSE /\ total' = total + l + 1
            /\ labels' = Append(labels, SubSeq(wire.bytes, at + 2, at + 1 + l))
            /\ at' = at + 1 + l
            /\ UNCHANGED <<wire, next, jumps, outcome>>

Next == outcome = "reading" /\ (PastEnd \/ Finish \/ Jump \/ Label)

Spec == Init /\ [][Next]_vars

----------------------------------------------------------------------------
(* Properties.                                                             *)

\* Whatever arrives, the labels read stay within the budget and reading goes
\* on inside the datagram, past the name.
TypeOK ==
    /\ outcome \in {"reading", "ok", "truncated", "pointerLoop", "labelTooLong", "nameTooLong"}
    /\ jumps \in 0..MaxJumps /\ total \in 0..MaxName
    /\ total = EncodedLen(labels) - 1
    /\ outcome = "ok" => next \in wire.start + 1..Size

\* A name some writer put there, compressed or not, is read as it was meant,
\* and reading goes on behind it (Name::decode).
ReadsWhatWasMeant ==
    outcome = "ok" /\ wire.meant # <<>> => labels = wire.meant /\ next = wire.after

\* The text shown for a name of printable characters parses back into that
\* name, dots and backslashes inside its labels included (name.rs:224).
Plain(n) == \A i \in DOMAIN n : Range(n[i]) \subseteq Printable
ShownParsesBack == \A n \in Names : Legal(n) /\ Plain(n) => Parse(Display(n)) = n

\* Of a list of TXT strings each arrives in its place, cut at MaxString; the
\* empty ones do not (RecordData::encode, decode_data).
Kept(t) == SelectSeq([i \in DOMAIN t |-> Clip(t[i])], LAMBDA s : s # <<>>)
TxtSurvives == \A t \in Texts : DecodeTxt(EncodeTxt(t)) = Kept(t)

\* What the doc of Display says of every name (name.rs:224).
EveryNameParsesBack == \A n \in Names : Legal(n) => Parse(Display(n)) = n

\* A host that hears its own announcement finds its own record in it, and
\* nobody else's to give its name up for (Engine::conflict_in, same_answer).
OwnTxtIsNoContest == \A t \in Texts : DecodeTxt(EncodeTxt(t)) = t
============================================================================
