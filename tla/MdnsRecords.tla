---------------------------- MODULE MdnsRecords ----------------------------
(***************************************************************************)
(* The DNS-SD records of one announced service (records.rs, record.rs of   *)
(* package rk_mdns): what it announces, claims and answers, and the        *)
(* tie-break of two hosts probing for one name.                            *)
(*                                                                         *)
(* A name is <<kind, base, n>>: base numbers the label the operator chose, *)
(* n is the attempt whose suffix it carries; names equal up to case are    *)
(* one name.  Record data are tuples of numbers compared as the code       *)
(* compares bytes; labels of different bases have one length.              *)
(***************************************************************************)
LOCAL INSTANCE Integers
LOCAL INSTANCE Sequences

A == 1
PTR == 12
TXT == 16
AAAA == 28
SRV == 33
ANY == 255

TypeName == <<"type", 0, 0>>
Enumeration == <<"types", 0, 0>>
InstanceName(s) == <<"instance", s.instance, s.attempt>>
HostName(s) == <<"host", s.host, s.attempt>>

\* A service: base labels and attempt, port, txt, addresses <<A or AAAA, k>>
\* and the two lifetimes.
Flushing(name, ttl, type, data) ==
    [name |-> name, type |-> type, data |-> data, ttl |-> ttl, flush |-> TRUE]
Shared(name, ttl, data) ==
    [name |-> name, type |-> PTR, data |-> data, ttl |-> ttl, flush |-> FALSE]
AsGoodbye(r) == [r EXCEPT !.ttl = 0]
SameAnswer(r, q) == r.name = q.name /\ r.type = q.type /\ r.data = q.data

Ptr(s) == Shared(TypeName, s.serviceTtl, <<s.instance, s.attempt>>)
EnumerationPtr(s) == Shared(Enumeration, s.serviceTtl, <<0>>)
Srv(s) == Flushing(InstanceName(s), s.hostTtl, SRV, <<s.port, s.attempt, s.host>>)
TxtRecord(s) == Flushing(InstanceName(s), s.serviceTtl, TXT, <<s.txt>>)
AddressRecords(s) == {Flushing(HostName(s), s.hostTtl, a[1], <<a[2]>>) : a \in s.addresses}

Claimed(s) == {Srv(s), TxtRecord(s)} \cup AddressRecords(s)
Announcement(s) == {EnumerationPtr(s), Ptr(s)} \cup Claimed(s)
GoodbyeRecords(s) == {AsGoodbye(r) : r \in Announcement(s)}
\* Mutant: the shared name of the service type is taken for an own one.
OwnsTypeToo(s) == {InstanceName(s), HostName(s), TypeName}
OwnedNames(s) == {InstanceName(s), HostName(s)}

\* label_for_attempt: attempt n is built from the operator's own label.
LabelForAttempt(s, n) == [s EXCEPT !.attempt = n]
Renamed(s) == LabelForAttempt(s, s.attempt + 1)

----------------------------------------------------------------------------
(* Answering one question [name, type].                                    *)
Wants(q, t) == q.type \in {t, ANY}
Candidates(s, q) ==
    CASE q.name = TypeName /\ Wants(q, PTR) -> {Ptr(s)}
      [] q.name = Enumeration /\ Wants(q, PTR) -> {EnumerationPtr(s)}
      [] q.name = InstanceName(s) -> {r \in {Srv(s), TxtRecord(s)} : Wants(q, r.type)}
      [] q.name = HostName(s) -> {r \in AddressRecords(s) : Wants(q, r.type)}
      [] OTHER -> {}
Riders(s, q) ==
    CASE q.name = TypeName -> Claimed(s)
      [] q.name = InstanceName(s) -> AddressRecords(s)
      [] OTHER -> {}
\* Known-answer suppression: at least half of the lifetime is still held.
Suppressed(r, known) == \E k \in known : SameAnswer(k, r) /\ k.ttl * 2 >= r.ttl
Answers(s, q, known) == {r \in Candidates(s, q) : ~Suppressed(r, known)}
Answer(s, q, known) ==
    LET answers == Answers(s, q, known)
    IN IF answers = {} THEN {} ELSE answers \cup Riders(s, q)

----------------------------------------------------------------------------
(* The tie-break of RFC 6762 section 8.2.  The code sorts both sets by     *)
(* type and data and compares them element by element, then by length:     *)
(* what decides is the smallest element only one side has, and that side   *)
(* comes first unless the other is exhausted there.                        *)

\* Mutant: the tie-break compares the types alone.
SortableType(r) == <<r.type>>
Sortable(r) == <<r.type>> \o r.data
Before(x, y) ==
    LET d == {i \in DOMAIN x \cap DOMAIN y : x[i] # y[i]}
    IN IF d = {} THEN Len(x) < Len(y) ELSE \E i \in d : x[i] < y[i] /\ \A j \in d : i <= j
\* Mutant: whoever hears a rival backs off.
LosesAlways(ours, theirs) == theirs # {}
Loses(ours, theirs) ==
    LET a == {Sortable(r) : r \in ours}
        b == {Sortable(r) : r \in theirs}
        diff == (a \ b) \cup (b \ a)
    IN \E x \in diff :
         /\ \A y \in diff \ {x} : Before(x, y)
         /\ (x \in a) <=> \E y \in IF x \in a THEN b ELSE a : Before(x, y)
============================================================================
