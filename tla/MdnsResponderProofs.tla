------------------------ MODULE MdnsResponderProofs ------------------------
(***************************************************************************)
(* Proofs about MdnsResponder for any tills on a segment, any addresses,   *)
(* ports and texts, any number of probes, renames, losses, stops and       *)
(* losses of power: a name is held by one till at a time, and a contest    *)
(* for it has one winner and is short.                                     *)
(***************************************************************************)
EXTENDS MdnsResponder, TLAPS, WellFoundedInduction, FiniteSetTheorems, Sequences

----------------------------------------------------------------------------
(* The tills.                                                              *)

Configs == [instance : Nat, host : Nat, attempt : Nat, port : Nat, txt : Nat,
            addresses : SUBSET ({A, AAAA} \X Nat), hostTtl : Nat, serviceTtl : Nat]

\* Tills that all probe and announce, of which none has all the addresses of
\* another, and whose host names are equal when their instance names are, as
\* they are when the host name is made from the instance's (ServiceConfig).
TillsApart ==
    /\ IsFiniteSet(Hosts) /\ Unprobed = {} /\ AnnounceCount > 0
    /\ \A h \in Hosts : Service[h] \in Configs /\ Service[h].hostTtl # 0
    /\ \A h, k \in Hosts : h # k =>
         /\ ~(Service[h].addresses \subseteq Service[k].addresses)
         /\ Service[h].instance = Service[k].instance <=> Service[h].host = Service[k].host

----------------------------------------------------------------------------
(* The tie-break.                                                          *)

\* What the tie-break compares: a type and numbers, of which type and first
\* number tell two entries of a set apart.
Key(x) ==
    /\ DOMAIN x \subseteq Nat /\ {1, 2} \subseteq DOMAIN x /\ 0 \notin DOMAIN x
    /\ x[1] \in Nat /\ x[2] \in Nat
Keyed(D) ==
    /\ \A x \in D : Key(x)
    /\ \A x, y \in D : x[1] = y[1] /\ x[2] = y[2] => x = y
Below(x, y) == x[1] < y[1] \/ (x[1] = y[1] /\ x[2] < y[2])

\* A set of numbers that is not empty has a least.
LEMMA LeastExists ==
    ASSUME NEW S \in SUBSET Nat, S # {}
    PROVE  \E k \in S : \A j \in S : k <= j
<1> DEFINE Less == {pair \in Nat \X Nat : pair[1] < pair[2]}
<1>1. IsWellFoundedOn(Less, Nat)
    BY NatLessThanWellFounded, Zenon DEF OpToRel
<1> HIDE DEF Less
<1>2. PICK k \in S : \A j \in S : ~ (<<j, k>> \in Less)
    BY <1>1, WFMin, Zenon
<1>3. ASSUME NEW j \in S PROVE k <= j
    <2>1. k \in Nat /\ j \in Nat /\ <<j, k>> \notin Less
        BY <1>2
    <2> QED
        BY <2>1 DEF Less
<1> QED
    BY <1>3

\* Two such entries are in the order of their types, then of their numbers.
LEMMA BeforeIs ==
    ASSUME NEW x, NEW y, Key(x), Key(y), x[1] = y[1] /\ x[2] = y[2] => x = y, x # y
    PROVE  Before(x, y) <=> Below(x, y)
<1> DEFINE d == {i \in DOMAIN x \cap DOMAIN y : x[i] # y[i]}
<1>1. /\ x[1] \in Nat /\ x[2] \in Nat /\ y[1] \in Nat /\ y[2] \in Nat
      /\ d \subseteq Nat \ {0}
      /\ 1 \in d <=> x[1] # y[1]
      /\ 2 \in d <=> x[2] # y[2]
    BY DEF Key
<1>2. Before(x, y) <=> IF d = {} THEN Len(x) < Len(y)
                       ELSE \E i \in d : x[i] < y[i] /\ \A j \in d : i <= j
    BY DEF Before
<1> HIDE DEF d
<1>3. CASE x[1] # y[1]
    <2>1. 1 \in d /\ \A i \in d : 1 <= i
        BY <1>1, <1>3
    <2>2. \A i \in d : (\A j \in d : i <= j) => i = 1
        BY <1>1, <2>1
    <2> QED
        BY <1>1, <1>2, <1>3, <2>1, <2>2 DEF Below
<1>4. CASE x[1] = y[1]
    <2>1. 2 \in d /\ \A i \in d : 2 <= i
        BY <1>1, <1>4
    <2>2. \A i \in d : (\A j \in d : i <= j) => i = 2
        BY <1>1, <2>1
    <2> QED
        BY <1>1, <1>2, <1>4, <2>1, <2>2 DEF Below
<1> QED
    BY <1>3, <1>4

\* Entries that are not none have a first.
LEMMA FirstEntry ==
    ASSUME NEW D, Keyed(D), D # {}
    PROVE  \E x \in D : \A y \in D \ {x} : Before(x, y)
<1> DEFINE Types == {x[1] : x \in D}
<1>1. PICK t \in Types : \A u \in Types : t <= u
    <2>1. Types \in SUBSET Nat /\ Types # {}
        BY DEF Keyed, Key
    <2> HIDE DEF Types
    <2> QED
        BY <2>1, LeastExists
<1> DEFINE Numbers == {x[2] : x \in {z \in D : z[1] = t}}
<1>2. PICK n \in Numbers : \A u \in Numbers : n <= u
    <2>1. Numbers \in SUBSET Nat /\ Numbers # {}
        BY <1>1 DEF Keyed, Key
    <2> HIDE DEF Numbers
    <2> QED
        BY <2>1, LeastExists
<1>3. PICK x \in D : x[1] = t /\ x[2] = n
    BY <1>2
<1>4. ASSUME NEW y \in D, y # x
      PROVE  Before(x, y)
    <2>1. /\ Key(x) /\ Key(y) /\ x[1] \in Nat /\ x[2] \in Nat /\ y[1] \in Nat /\ y[2] \in Nat
          /\ x[1] = y[1] /\ x[2] = y[2] => x = y
        BY DEF Keyed, Key
    <2>2. t <= y[1]
        BY <1>1
    <2>3. y[1] = t => n <= y[2]
        BY <1>2
    <2>4. Below(x, y)
        BY <1>3, <1>4, <2>1, <2>2, <2>3 DEF Below
    <2> QED
        BY <1>4, <2>1, <2>4, BeforeIs
<1> QED
    BY <1>3, <1>4

\* Of two sets of entries that differ exactly one loses.
LEMMA OneLoses ==
    ASSUME NEW ours, NEW theirs,
           NEW a, a = {Sortable(r) : r \in ours}, NEW b, b = {Sortable(r) : r \in theirs},
           Keyed(a \cup b), a # b
    PROVE  Loses(ours, theirs) <=> ~Loses(theirs, ours)
<1> DEFINE diff == (a \ b) \cup (b \ a)
           First(x) == x \in diff /\ \A y \in diff \ {x} : Before(x, y)
           Tail1(x) == (x \in a) <=> \E y \in IF x \in a THEN b ELSE a : Before(x, y)
           Tail2(x) == (x \in b) <=> \E y \in IF x \in b THEN a ELSE b : Before(x, y)
<1>1. PICK x : First(x)
    <2>1. Keyed(diff) /\ diff # {}
        BY DEF Keyed
    <2> HIDE DEF diff
    <2> QED
        BY <2>1, FirstEntry
<1>2. ASSUME NEW z, First(z)
      PROVE  z = x
    <2>1. SUFFICES ASSUME z # x PROVE FALSE
        OBVIOUS
    <2>2. Before(x, z) /\ Before(z, x)
        BY <1>1, <1>2, <2>1
    <2>3. /\ Key(x) /\ Key(z)
          /\ x[1] = z[1] /\ x[2] = z[2] => x = z
        BY <1>1, <1>2 DEF Keyed
    <2>4. Below(x, z) /\ Below(z, x)
        BY <2>1, <2>2, <2>3, BeforeIs
    <2> QED
        BY <2>3, <2>4 DEF Below, Key
<1>3. Loses(ours, theirs) <=> Tail1(x)
    <2>1. Loses(ours, theirs) <=> \E z : First(z) /\ Tail1(z)
        BY DEF Loses
    <2> HIDE DEF First, Tail1
    <2> QED
        BY <1>1, <1>2, <2>1
<1>4. Loses(theirs, ours) <=> Tail2(x)
    <2>1. (b \ a) \cup (a \ b) = diff
        OBVIOUS
    <2>2. Loses(theirs, ours) <=> \E z : First(z) /\ Tail2(z)
        BY <2>1 DEF Loses
    <2> HIDE DEF First, Tail2
    <2> QED
        BY <1>1, <1>2, <2>2
<1>5. (x \in a) <=> (x \notin b)
    BY <1>1
<1> QED
    BY <1>3, <1>4, <1>5

\* The order of the sets: of two, the one comes first that has the first entry
\* only one of them has, unless the other is exhausted there.
FirstOf(x, a, b) ==
    /\ x \in (a \ b) \cup (b \ a)
    /\ \A y \in (a \ b) \cup (b \ a) : y # x => Below(x, y)
Decides(x, a, b) ==
    \/ x \in a /\ \E y \in b : Below(x, y)
    \/ x \in b /\ \A y \in a : ~Below(x, y)
Lower(a, b) == \E x : FirstOf(x, a, b) /\ Decides(x, a, b)

LEMMA LosesIs ==
    ASSUME NEW ours, NEW theirs,
           NEW a, a = {Sortable(r) : r \in ours}, NEW b, b = {Sortable(r) : r \in theirs},
           Keyed(a \cup b)
    PROVE  Loses(ours, theirs) <=> Lower(a, b)
<1> DEFINE diff == (a \ b) \cup (b \ a)
           Decided(x) == (x \in a) <=> \E y \in IF x \in a THEN b ELSE a : Before(x, y)
<1>1. Loses(ours, theirs) <=> \E x \in diff : (\A y \in diff \ {x} : Before(x, y)) /\ Decided(x)
    BY DEF Loses
<1>2. ASSUME NEW x \in a \cup b, NEW y \in a \cup b, x # y
      PROVE  Before(x, y) <=> Below(x, y)
    BY <1>2, BeforeIs DEF Keyed
<1>3. ASSUME NEW x \in diff
      PROVE  /\ (\A y \in diff \ {x} : Before(x, y)) <=> FirstOf(x, a, b)
             /\ Decided(x) <=> Decides(x, a, b)
    <2>1. (\A y \in diff \ {x} : Before(x, y)) <=> FirstOf(x, a, b)
        BY <1>2 DEF FirstOf
    <2>2. CASE x \in a
        <3>1. x \notin b /\ (Decided(x) <=> \E y \in b : Before(x, y))
            BY <2>2
        <3>2. (\E y \in b : Before(x, y)) <=> \E y \in b : Below(x, y)
            BY <1>2, <2>2, <3>1
        <3> HIDE DEF Decided
        <3> QED
            BY <2>1, <2>2, <3>1, <3>2 DEF Decides
    <2>3. CASE x \notin a
        <3>1. x \in b /\ (Decided(x) <=> ~\E y \in a : Before(x, y))
            BY <2>3
        <3>2. (\E y \in a : Before(x, y)) <=> \E y \in a : Below(x, y)
            BY <1>2, <2>3, <3>1
        <3> HIDE DEF Decided
        <3> QED
            BY <2>1, <2>3, <3>1, <3>2 DEF Decides
    <2> QED
        BY <2>2, <2>3
<1>4. Lower(a, b) <=> \E x \in diff : FirstOf(x, a, b) /\ Decides(x, a, b)
    BY DEF Lower, FirstOf
<1> HIDE DEF diff, Decided
<1> QED
    BY <1>1, <1>3, <1>4

LEMMA BelowIsOrder ==
    ASSUME NEW D, Keyed(D), NEW x \in D, NEW y \in D
    PROVE  /\ ~(Below(x, y) /\ Below(y, x)) /\ ~Below(x, x)
           /\ x = y \/ Below(x, y) \/ Below(y, x)
           /\ \A z \in D : Below(x, y) /\ Below(y, z) => Below(x, z)
<1>1. x[1] \in Nat /\ x[2] \in Nat /\ y[1] \in Nat /\ y[2] \in Nat
    BY DEF Keyed, Key
<1>2. x[1] = y[1] /\ x[2] = y[2] => x = y
    BY DEF Keyed
<1>3. ASSUME NEW z \in D, Below(x, y), Below(y, z)
      PROVE  Below(x, z)
    <2>1. z[1] \in Nat /\ z[2] \in Nat
        BY DEF Keyed, Key
    <2> QED
        BY <1>1, <1>3, <2>1 DEF Below
<1> QED
    BY <1>1, <1>2, <1>3 DEF Below

\* Who loses against a loser loses.
LEMMA LowerIsTransitive ==
    ASSUME NEW a, NEW b, NEW c, Keyed(a \cup b \cup c), Lower(a, b), Lower(b, c)
    PROVE  Lower(a, c)
<1> DEFINE D == a \cup b \cup c
<1>1. PICK p : FirstOf(p, a, b) /\ Decides(p, a, b)
    BY DEF Lower
<1>2. PICK q : FirstOf(q, b, c) /\ Decides(q, b, c)
    BY DEF Lower
<1>3. p \in D /\ q \in D
    BY <1>1, <1>2 DEF FirstOf
<1>4. \A x, y \in D : /\ ~(Below(x, y) /\ Below(y, x)) /\ ~Below(x, x)
                      /\ x = y \/ Below(x, y) \/ Below(y, x)
    BY BelowIsOrder
<1>5. \A x, y, z \in D : Below(x, y) /\ Below(y, z) => Below(x, z)
    <2>1. Keyed(D)
        OBVIOUS
    <2> HIDE DEF D
    <2> QED
        BY <2>1, BelowIsOrder
<1>6. \A x \in D : Below(x, p) => (x \in a <=> x \in b)
    BY <1>1, <1>3, <1>4 DEF FirstOf
<1>7. \A x \in D : Below(x, q) => (x \in b <=> x \in c)
    BY <1>2, <1>3, <1>4 DEF FirstOf
<1>8. a \subseteq D /\ b \subseteq D /\ c \subseteq D
    OBVIOUS
<1>9. CASE Below(p, q)
    <2>1. FirstOf(p, a, c)
        <3>1. p \in (a \ c) \cup (c \ a)
            BY <1>1, <1>3, <1>7, <1>9 DEF FirstOf
        <3>2. ASSUME NEW y \in (a \ c) \cup (c \ a), y # p PROVE Below(p, y)
            BY <1>3, <1>4, <1>5, <1>6, <1>7, <1>8, <1>9, <3>2
        <3> QED
            BY <3>1, <3>2 DEF FirstOf
    <2>2. \E y \in c : Below(p, y)
        BY <1>2, <1>3, <1>5, <1>8, <1>9 DEF Decides
    <2>3. Decides(p, a, c)
        BY <1>1, <1>3, <1>7, <1>9, <2>2 DEF Decides
    <2> QED
        BY <2>1, <2>3 DEF Lower
<1>10. CASE Below(q, p)
    <2>1. FirstOf(q, a, c)
        <3>1. q \in (a \ c) \cup (c \ a)
            BY <1>2, <1>3, <1>6, <1>10 DEF FirstOf
        <3>2. ASSUME NEW y \in (a \ c) \cup (c \ a), y # q PROVE Below(q, y)
            BY <1>3, <1>4, <1>5, <1>6, <1>7, <1>8, <1>10, <3>2
        <3> QED
            BY <3>1, <3>2 DEF FirstOf
    <2>2. \E y \in b : Below(q, y)
        BY <1>1, <1>3, <1>5, <1>8, <1>10 DEF Decides
    <2>3. Decides(q, a, c)
        BY <1>2, <1>3, <1>6, <1>10, <2>2 DEF Decides
    <2> QED
        BY <2>1, <2>3 DEF Lower
<1>11. CASE p = q
    <2> DEFINE After == {y \in c : Below(p, y)}
    <2>1. /\ p \in b /\ p \notin a /\ p \notin c
          /\ \A y \in a : ~Below(p, y)
          /\ \E y \in c : Below(p, y)
        BY <1>1, <1>2, <1>11 DEF FirstOf, Decides
    <2>2. PICK r \in After : \A y \in After \ {r} : Below(r, y)
        <3>1. Keyed(After) /\ After # {}
            BY <2>1 DEF Keyed
        <3>2. PICK r \in After : \A y \in After \ {r} : Before(r, y)
            <4> HIDE DEF After
            <4> QED
                BY <3>1, FirstEntry
        <3>3. ASSUME NEW y \in After \ {r} PROVE Below(r, y)
            <4>1. Key(r) /\ Key(y) /\ (r[1] = y[1] /\ r[2] = y[2] => r = y) /\ Before(r, y)
                BY <3>1, <3>2 DEF Keyed
            <4> QED
                BY <4>1, BeforeIs
        <3> QED
            BY <3>3
    <2>3. r \in c /\ r \notin a /\ Below(p, r) /\ r \in D
        BY <2>1
    <2>4. FirstOf(r, a, c)
        <3>1. ASSUME NEW y \in (a \ c) \cup (c \ a), y # r PROVE Below(r, y)
            <4>1. y \in D /\ y # p
                BY <2>1
            <4>2. ~Below(y, p)
                BY <1>6, <1>7, <1>11, <4>1
            <4>3. Below(p, y)
                BY <1>3, <1>4, <4>1, <4>2
            <4> QED
                BY <2>1, <2>2, <3>1, <4>3
        <3> QED
            BY <2>3, <3>1 DEF FirstOf
    <2>5. \A y \in a : ~Below(r, y)
        BY <1>3, <1>5, <1>8, <2>1, <2>3
    <2> QED
        BY <2>3, <2>4, <2>5 DEF Lower, Decides
<1> QED
    BY <1>3, <1>4, <1>9, <1>10, <1>11

----------------------------------------------------------------------------
(* What the tills say of themselves.                                       *)

SameNamed(s, t) == s.instance = t.instance /\ s.host = t.host /\ s.attempt = t.attempt

LEMMA EntryShape ==
    ASSUME NEW r, r.type \in Nat, r.data \in Seq(Nat), Len(r.data) >= 1
    PROVE  Key(Sortable(r)) /\ Sortable(r)[1] = r.type /\ Sortable(r)[2] = r.data[1]
<1> DEFINE t == r.type
           d == r.data
           x == <<t>> \o d
<1>1. x = Sortable(r)
    BY DEF Sortable
<1> HIDE DEF t, d
<1>2. t \in Nat /\ d \in Seq(Nat) /\ Len(d) >= 1 /\ <<t>> \in Seq(Nat) /\ Len(<<t>>) = 1
    BY DEF t, d
<1>3. /\ x \in Seq(Nat) /\ Len(x) = 1 + Len(d)
      /\ x[1] = t /\ x[2] = d[1]
    BY <1>2
<1> HIDE DEF x
<1>4. DOMAIN x = 1..1 + Len(d) /\ 1 \in DOMAIN x /\ 2 \in DOMAIN x
    BY <1>2, <1>3
<1> QED
    BY <1>1, <1>2, <1>3, <1>4 DEF Key, t, d

\* One entry: its type, then its data.
LEMMA EntryIs ==
    ASSUME NEW s \in Configs, NEW r \in Claimed(s)
    PROVE  /\ Key(Sortable(r)) /\ Sortable(r)[1] = r.type /\ Sortable(r)[2] = r.data[1]
           /\ r.name \in OwnedNames(s)
           /\ \/ r.type = SRV /\ r.data = <<s.port, s.attempt, s.host>>
              \/ r.type = TXT /\ r.data = <<s.txt>>
              \/ /\ r.type \in {A, AAAA}
                 /\ \E n \in Nat : <<r.type, n>> \in s.addresses /\ r.data = <<n>>
<1>1. CASE r = Srv(s)
    <2>1. r.type = SRV /\ r.data = <<s.port, s.attempt, s.host>> /\ r.name = InstanceName(s)
        BY <1>1 DEF Srv, Flushing
    <2>2. r.type \in Nat /\ r.data \in Seq(Nat) /\ Len(r.data) >= 1
        BY <2>1 DEF SRV, Configs
    <2> QED
        BY <2>1, <2>2, EntryShape DEF OwnedNames
<1>2. CASE r = TxtRecord(s)
    <2>1. r.type = TXT /\ r.data = <<s.txt>> /\ r.name = InstanceName(s)
        BY <1>2 DEF TxtRecord, Flushing
    <2>2. r.type \in Nat /\ r.data \in Seq(Nat) /\ Len(r.data) >= 1
        BY <2>1 DEF TXT, Configs
    <2> QED
        BY <2>1, <2>2, EntryShape DEF OwnedNames
<1>3. CASE r \in AddressRecords(s)
    <2>1. PICK a \in s.addresses : r = Flushing(HostName(s), s.hostTtl, a[1], <<a[2]>>)
        BY <1>3 DEF AddressRecords
    <2>2. a[1] \in {A, AAAA} /\ a[2] \in Nat /\ a = <<a[1], a[2]>>
        BY DEF Configs
    <2>3. r.type = a[1] /\ r.data = <<a[2]>> /\ r.name = HostName(s)
        BY <2>1 DEF Flushing
    <2>4. r.type \in Nat /\ r.data \in Seq(Nat) /\ Len(r.data) >= 1
        BY <2>2, <2>3 DEF A, AAAA
    <2>5. <<r.type, a[2]>> \in s.addresses
        BY <2>2, <2>3
    <2> QED
        BY <2>2, <2>3, <2>4, <2>5, EntryShape DEF OwnedNames
<1> QED
    BY <1>1, <1>2, <1>3 DEF Claimed

\* Tills of one name: type and first number tell their entries apart.
LEMMA EntriesTold ==
    ASSUME NEW s \in Configs, NEW t \in Configs, SameNamed(s, t),
           NEW r \in Claimed(s), NEW q \in Claimed(t),
           r.type = q.type, r.data[1] = q.data[1]
    PROVE  r.data = q.data
<1> DEFINE IsSrv(z, v) == z.type = SRV /\ z.data = <<v.port, v.attempt, v.host>>
           IsTxt(z, v) == z.type = TXT /\ z.data = <<v.txt>>
           IsAddress(z) == z.type \in {A, AAAA} /\ \E n : z.data = <<n>>
<1>1. IsSrv(r, s) \/ IsTxt(r, s) \/ IsAddress(r)
    BY EntryIs
<1>2. IsSrv(q, t) \/ IsTxt(q, t) \/ IsAddress(q)
    BY EntryIs
<1>3. \/ r.type = SRV /\ IsSrv(r, s) /\ IsSrv(q, t)
      \/ IsTxt(r, s) /\ IsTxt(q, t)
      \/ IsAddress(r) /\ IsAddress(q)
    BY <1>1, <1>2 DEF SRV, TXT, A, AAAA
<1>4. CASE IsSrv(r, s) /\ IsSrv(q, t)
    <2>1. r.data[1] = s.port /\ q.data[1] = t.port
        BY <1>4
    <2> QED
        BY <1>4, <2>1 DEF SameNamed
<1>5. CASE IsTxt(r, s) /\ IsTxt(q, t)
    BY <1>5
<1>6. CASE IsAddress(r) /\ IsAddress(q)
    BY <1>6
<1> QED
    BY <1>3, <1>4, <1>5, <1>6

Apart(s, t) == ~(s.addresses \subseteq t.addresses) /\ ~(t.addresses \subseteq s.addresses)

\* One answer of a till about its addresses is no answer of the other.
LEMMA AddressesTell ==
    ASSUME NEW s \in Configs, NEW t \in Configs, Apart(s, t)
    PROVE  \E r \in AddressRecords(s) : \A q \in Claimed(t) : ~(r.type = q.type /\ r.data = q.data)
<1>1. PICK a \in s.addresses : a \notin t.addresses
    BY DEF Apart
<1> DEFINE r == Flushing(HostName(s), s.hostTtl, a[1], <<a[2]>>)
<1>2. a[1] \in {A, AAAA} /\ a[2] \in Nat /\ a = <<a[1], a[2]>>
    BY DEF Configs
<1>3. r.type = a[1] /\ r.data = <<a[2]>> /\ r \in AddressRecords(s)
    BY DEF Flushing, AddressRecords
<1> HIDE DEF r
<1>4. SUFFICES ASSUME NEW q \in Claimed(t), r.type = q.type, r.data = q.data
              PROVE  FALSE
    BY <1>3
<1>5. q.type # SRV /\ q.type # TXT
    BY <1>2, <1>3, <1>4 DEF A, AAAA, SRV, TXT
<1>6. PICK n \in Nat : <<q.type, n>> \in t.addresses /\ q.data = <<n>>
    BY <1>5, EntryIs
<1>7. n = a[2]
    BY <1>3, <1>4, <1>6
<1>8. a \in t.addresses
    BY <1>2, <1>3, <1>4, <1>6, <1>7
<1> QED
    BY <1>1, <1>8

Entries(s) == {Sortable(r) : r \in Claimed(s)}

\* Entries of tills of one name are told apart.
LEMMA EntriesKeyed ==
    ASSUME NEW s \in Configs, NEW t \in Configs, SameNamed(s, t)
    PROVE  Keyed(Entries(s) \cup Entries(t))
<1>1. ASSUME NEW x \in Entries(s) \cup Entries(t)
      PROVE  Key(x)
    BY EntryIs DEF Entries
<1>2. ASSUME NEW x \in Entries(s) \cup Entries(t), NEW y \in Entries(s) \cup Entries(t),
             x[1] = y[1], x[2] = y[2]
      PROVE  x = y
    <2>1. PICK r \in Claimed(s) \cup Claimed(t) : x = Sortable(r)
        BY DEF Entries
    <2>2. PICK q \in Claimed(s) \cup Claimed(t) : y = Sortable(q)
        BY DEF Entries
    <2>3. r.type = q.type /\ r.data[1] = q.data[1]
        BY <1>2, <2>1, <2>2, EntryIs
    <2>4. SameNamed(t, s) /\ SameNamed(s, s) /\ SameNamed(t, t)
        BY DEF SameNamed
    <2>5. r.data = q.data
        BY <2>3, <2>4, EntriesTold
    <2> QED
        BY <2>1, <2>2, <2>3, <2>5 DEF Sortable
<1> QED
    BY <1>1, <1>2 DEF Keyed

\* Of two tills of one name exactly one loses the tie-break.
LEMMA TieBreakDecides ==
    ASSUME NEW s \in Configs, NEW t \in Configs, SameNamed(s, t), Apart(s, t)
    PROVE  Loses(Claimed(s), Claimed(t)) <=> ~Loses(Claimed(t), Claimed(s))
<1> DEFINE a == Entries(s)
           b == Entries(t)
<1>1. Keyed(a \cup b)
    BY EntriesKeyed
<1>2. a # b
    <2>1. PICK r \in AddressRecords(s) : \A q \in Claimed(t) : ~(r.type = q.type /\ r.data = q.data)
        BY AddressesTell
    <2>2. r \in Claimed(s)
        BY DEF Claimed
    <2>3. ASSUME NEW q \in Claimed(t), Sortable(r) = Sortable(q)
          PROVE  FALSE
        <3>1. r.type = q.type /\ r.data[1] = q.data[1]
            BY <2>2, <2>3, EntryIs
        <3>2. r.data = q.data
            BY <2>2, <3>1, EntriesTold
        <3> QED
            BY <2>1, <3>1, <3>2
    <2> QED
        BY <2>2, <2>3 DEF Entries
<1> HIDE DEF a, b
<1> QED
    BY <1>1, <1>2, OneLoses DEF a, b, Entries

\* What a till wins by beating another that had beaten a third.
LEMMA LosesIsTransitive ==
    ASSUME NEW s \in Configs, NEW t \in Configs, NEW u \in Configs,
           SameNamed(s, t), SameNamed(t, u),
           Loses(Claimed(s), Claimed(t)), Loses(Claimed(t), Claimed(u))
    PROVE  Loses(Claimed(s), Claimed(u))
<1>1. SameNamed(s, u)
    BY DEF SameNamed
<1>2. /\ Keyed(Entries(s) \cup Entries(t)) /\ Keyed(Entries(t) \cup Entries(u))
      /\ Keyed(Entries(s) \cup Entries(u))
    BY <1>1, EntriesKeyed
<1>3. Keyed(Entries(s) \cup Entries(t) \cup Entries(u))
    BY <1>2 DEF Keyed
<1>4. Lower(Entries(s), Entries(t)) /\ Lower(Entries(t), Entries(u))
    BY <1>2, LosesIs DEF Entries
<1>5. Lower(Entries(s), Entries(u))
    BY <1>3, <1>4, LowerIsTransitive
<1> QED
    BY <1>2, <1>5, LosesIs DEF Entries

\* A name of a till is an instance's or a host's, so two names meet as pairs.
LEMMA NamesMeet ==
    ASSUME NEW s, NEW t, s.instance = t.instance <=> s.host = t.host,
           OwnedNames(s) \cap OwnedNames(t) # {}
    PROVE  SameNamed(s, t) /\ OwnedNames(s) = OwnedNames(t)
<1>1. InstanceName(s) = InstanceName(t) \/ HostName(s) = HostName(t)
    BY DEF OwnedNames, InstanceName, HostName
<1>2. SameNamed(s, t)
    BY <1>1 DEF InstanceName, HostName, SameNamed
<1> QED
    BY <1>2 DEF SameNamed, OwnedNames, InstanceName, HostName

LEMMA SharedNamesAreNobodys ==
    ASSUME NEW s
    PROVE  TypeName \notin OwnedNames(s) /\ Enumeration \notin OwnedNames(s)
BY DEF TypeName, Enumeration, OwnedNames, InstanceName, HostName

\* Whatever a till says is about its own names or the two all tills share.
LEMMA AnnouncedNames ==
    ASSUME NEW s \in Configs, NEW r \in Announcement(s)
    PROVE  r.name \in OwnedNames(s) \cup {TypeName, Enumeration}
<1>1. CASE r \in Claimed(s)
    BY <1>1, EntryIs
<1>2. CASE r = Ptr(s) \/ r = EnumerationPtr(s)
    BY <1>2 DEF Ptr, EnumerationPtr, Shared
<1> QED
    BY <1>1, <1>2 DEF Announcement

LEMMA AnswersAreAnnounced ==
    ASSUME NEW s, NEW q, NEW known
    PROVE  Answer(s, q, known) \subseteq Announcement(s)
<1>1. Candidates(s, q) \subseteq Announcement(s)
    BY DEF Candidates, Announcement, Claimed
<1>2. Riders(s, q) \subseteq Announcement(s)
    BY DEF Riders, Announcement, Claimed
<1> QED
    BY <1>1, <1>2 DEF Answer, Answers

\* A till asked for anything about its host name tells its addresses.
LEMMA HostIsAnswered ==
    ASSUME NEW s \in Configs, s.addresses # {}
    PROVE  AddressRecords(s) \subseteq Answer(s, [name |-> HostName(s), type |-> ANY], {})
<1> DEFINE q == [name |-> HostName(s), type |-> ANY]
<1>1. HostName(s) # TypeName /\ HostName(s) # Enumeration /\ HostName(s) # InstanceName(s)
    BY DEF HostName, TypeName, Enumeration, InstanceName
<1>2. Candidates(s, q) = AddressRecords(s)
    BY <1>1 DEF Candidates, Wants
<1>3. Answers(s, q, {}) = AddressRecords(s)
    BY <1>2 DEF Answers, Suppressed
<1>4. AddressRecords(s) # {}
    BY DEF AddressRecords
<1> HIDE DEF q
<1>5. AddressRecords(s) \subseteq Answer(s, q, {})
    BY <1>3, <1>4 DEF Answer
<1> QED
    BY <1>5 DEF q

----------------------------------------------------------------------------
(* What a till makes of what it hears.                                     *)

\* Two tills as TillsApart has them, at any attempts.
Paired(s, t) ==
    /\ s \in Configs /\ t \in Configs /\ Apart(s, t)
    /\ s.hostTtl # 0 /\ t.hostTtl # 0
    /\ s.instance = t.instance <=> s.host = t.host
Meet(s, t) == OwnedNames(s) \cap OwnedNames(t) # {}

\* Conflict, of the till as it names itself.
Clash(s, m) ==
    LET theirs == {r \in m.recs : r.name \in OwnedNames(s)} IN
    IF m.kind = "response"
    THEN \E r \in theirs : r.ttl # 0 /\ ~\E mine \in Claimed(s) : SameAnswer(mine, r)
    ELSE theirs # {} /\ Loses(Claimed(s), theirs)

LEMMA ConflictIs ==
    ASSUME NEW h, NEW m
    PROVE  Conflict(h, m) = Clash(Ours(h), m)
BY DEF Conflict, Clash, Theirs

LEMMA TillsArePaired ==
    ASSUME TillsApart, NEW h \in Hosts, NEW k \in Hosts, h # k, NEW a \in Nat, NEW b \in Nat
    PROVE  Paired(LabelForAttempt(Service[h], a), LabelForAttempt(Service[k], b))
<1>1. /\ Service[h] \in Configs /\ Service[k] \in Configs
      /\ Service[h].hostTtl # 0 /\ Service[k].hostTtl # 0
      /\ ~(Service[h].addresses \subseteq Service[k].addresses)
      /\ ~(Service[k].addresses \subseteq Service[h].addresses)
      /\ Service[h].instance = Service[k].instance <=> Service[h].host = Service[k].host
    BY DEF TillsApart
<1>2. ASSUME NEW s \in Configs, NEW n \in Nat
      PROVE  /\ LabelForAttempt(s, n) \in Configs
             /\ LabelForAttempt(s, n).hostTtl = s.hostTtl
             /\ LabelForAttempt(s, n).addresses = s.addresses
             /\ LabelForAttempt(s, n).instance = s.instance
             /\ LabelForAttempt(s, n).host = s.host
    BY DEF Configs, LabelForAttempt
<1> QED
    BY <1>1, <1>2 DEF Paired, Apart

\* Tills on one name have the same names, and each differs from the other.
LEMMA MeetIs ==
    ASSUME NEW s, NEW t, Paired(s, t), Meet(s, t)
    PROVE  /\ SameNamed(s, t) /\ OwnedNames(s) = OwnedNames(t)
           /\ Paired(t, s) /\ Meet(t, s)
<1>1. SameNamed(s, t) /\ OwnedNames(s) = OwnedNames(t)
    BY NamesMeet DEF Paired, Meet
<1> QED
    BY <1>1 DEF Paired, Meet, Apart

\* Of two probers on one name exactly one takes the other's probe for a conflict.
LEMMA OneBacksOff ==
    ASSUME NEW s, NEW t, Paired(s, t), Meet(s, t)
    PROVE  Clash(s, Probe(t)) <=> ~Clash(t, Probe(s))
<1>1. /\ SameNamed(s, t) /\ OwnedNames(s) = OwnedNames(t) /\ s \in Configs /\ t \in Configs
      /\ Apart(s, t)
    BY MeetIs DEF Paired
<1>2. ASSUME NEW u \in Configs, NEW v \in Configs, OwnedNames(u) = OwnedNames(v)
      PROVE  Clash(u, Probe(v)) <=> Loses(Claimed(u), Claimed(v))
    <2>1. {r \in Claimed(v) : r.name \in OwnedNames(u)} = Claimed(v)
        BY <1>2, EntryIs
    <2>2. Claimed(v) # {}
        BY DEF Claimed
    <2>3. Probe(v).kind # "response" /\ Probe(v).recs = Claimed(v)
        BY DEF Probe
    <2> QED
        BY <2>1, <2>2, <2>3 DEF Clash
<1> QED
    BY <1>1, <1>2, TieBreakDecides

\* A till hears of another's addresses that its name is taken.
LEMMA AddressesHeard ==
    ASSUME NEW s, NEW t, Paired(s, t), Meet(s, t),
           NEW recs, AddressRecords(t) \subseteq recs
    PROVE  Clash(s, Response(recs))
<1>1. SameNamed(s, t) /\ s \in Configs /\ t \in Configs /\ Apart(s, t) /\ t.hostTtl # 0
    BY MeetIs DEF Paired
<1>2. PICK r \in AddressRecords(t) : \A q \in Claimed(s) : ~(r.type = q.type /\ r.data = q.data)
    <2>1. t \in Configs /\ Apart(t, s)
        BY <1>1 DEF Apart, Paired
    <2> QED
        BY <1>1, <2>1, AddressesTell
<1>3. r.ttl # 0 /\ r.name = HostName(t)
    BY <1>1 DEF AddressRecords, Flushing
<1>4. r.name \in OwnedNames(s)
    BY <1>1, <1>3 DEF SameNamed, OwnedNames, HostName
<1>5. ASSUME NEW mine \in Claimed(s), SameAnswer(mine, r)
      PROVE  FALSE
    BY <1>2, <1>5 DEF SameAnswer
<1>6. r \in recs
    BY <1>2
<1> QED
    BY <1>3, <1>4, <1>5, <1>6 DEF Clash, Response

LEMMA AnnouncementHeard ==
    ASSUME NEW s, NEW t, Paired(s, t), Meet(s, t)
    PROVE  Clash(s, Response(Announcement(t)))
BY AddressesHeard DEF Announcement, Claimed

\* What a till is answered about names nobody else holds, and a goodbye, is
\* no conflict.
LEMMA OthersAreNoConflict ==
    ASSUME NEW s, NEW t \in Configs, ~Meet(s, t), NEW recs \in SUBSET Announcement(t)
    PROVE  ~Clash(s, Response(recs))
<1>1. ASSUME NEW r \in recs
      PROVE  r.name \notin OwnedNames(s)
    <2>1. r.name \in OwnedNames(t) \cup {TypeName, Enumeration}
        BY AnnouncedNames
    <2> QED
        BY <2>1, SharedNamesAreNobodys DEF Meet
<1>2. Response(recs).kind = "response" /\ Response(recs).recs = recs
    BY DEF Response
<1> QED
    BY <1>1, <1>2 DEF Clash

LEMMA GoodbyeIsNoConflict ==
    ASSUME NEW s, NEW t \in Configs
    PROVE  ~Clash(s, Response(GoodbyeRecords(t)))
<1>1. ASSUME NEW r \in GoodbyeRecords(t)
      PROVE  r.ttl = 0
    <2>1. PICK q \in Announcement(t) : r = AsGoodbye(q)
        BY DEF GoodbyeRecords
    <2>2. \E name, ttl, type, data, flush :
              q = [name |-> name, type |-> type, data |-> data, ttl |-> ttl, flush |-> flush]
        BY DEF Announcement, Claimed, Ptr, EnumerationPtr, Srv, TxtRecord, AddressRecords,
               Shared, Flushing
    <2> QED
        BY <2>1, <2>2 DEF AsGoodbye
<1>2. /\ Response(GoodbyeRecords(t)).kind = "response"
      /\ Response(GoodbyeRecords(t)).recs = GoodbyeRecords(t)
    BY DEF Response
<1> QED
    BY <1>1, <1>2 DEF Clash

\* A probe for a name a till holds is answered with its addresses.
LEMMA DefenceIs ==
    ASSUME NEW k, NEW recs, Ours(k) \in Configs
    PROVE  /\ Defence(k, recs) \subseteq Announcement(Ours(k))
           /\ (Ours(k).addresses # {} /\ \E r \in recs : r.name = HostName(Ours(k))) =>
                 AddressRecords(Ours(k)) \subseteq Defence(k, recs)
<1>1. Defence(k, recs) \subseteq Announcement(Ours(k))
    <2>1. ASSUME NEW n PROVE Answer(Ours(k), [name |-> n, type |-> ANY], {}) \subseteq Announcement(Ours(k))
        BY AnswersAreAnnounced
    <2>2. ASSUME NEW x \in Defence(k, recs) PROVE x \in Announcement(Ours(k))
        <3>1. PICK n \in {r.name : r \in recs} : x \in Answer(Ours(k), [name |-> n, type |-> ANY], {})
            BY DEF Defence
        <3> QED
            BY <2>1, <3>1
    <2> QED
        BY <2>2
<1>2. ASSUME Ours(k).addresses # {}, NEW r \in recs, r.name = HostName(Ours(k))
      PROVE  AddressRecords(Ours(k)) \subseteq Defence(k, recs)
    BY <1>2, HostIsAnswered DEF Defence
<1> QED
    BY <1>1, <1>2

----------------------------------------------------------------------------
(* The invariant.                                                          *)

Phases == {"down", "asleep", "window", "claimed", "ended"}

TypesOk ==
    /\ phase \in [Hosts -> Phases] /\ attempt \in [Hosts -> Nat]
    /\ round \in [Hosts -> Nat] /\ left \in [Hosts -> Int]
    /\ inbox = [h \in Hosts |-> inbox[h]]
    /\ stopping \in [Hosts -> BOOLEAN] /\ lost \in Nat

\* A till that has a conflict in its inbox, and one that was told by a holder.
Alarmed(h) == \E m \in inbox[h] : Clash(Ours(h), m)
Told(h) == \E m \in inbox[h] : m.kind # "probe" /\ Clash(Ours(h), m)

\* No till that holds its names is told otherwise before as many copies are
\* lost as there are probes.
CalmOk(h) == Holding(h) /\ lost < ProbeCount => ~Told(h)
\* Until a till has claimed its names, it has all its announcements left.
ProgressOk(h) ==
    /\ phase[h] = "window" => round[h] \in 1..ProbeCount
    /\ phase[h] \in {"down", "asleep", "window"} => left[h] = AnnounceCount
TillOk(h) == CalmOk(h) /\ ProgressOk(h)

\* Of two open windows one opened first.
OrderOk(h, k) ==
    phase[h] = "window" /\ phase[k] = "window" =>
        (<<h, k>> \in earlier <=> <<k, h>> \notin earlier)

\* A prober that would back off from a rival's probe, and has none to read,
\* missed one in each round the two were in together.
RaceOk(h, k) ==
    /\ phase[h] = "window" /\ phase[k] = "window" /\ Meet(Ours(h), Ours(k))
    /\ Clash(Ours(h), Probe(Ours(k))) /\ ~Alarmed(h)
    => /\ lost >= round[h] - 1 \/ lost >= round[k]
       /\ <<h, k>> \in earlier => lost >= round[h] \/ lost >= round[k]

\* A prober for a name that is held missed the answer to each of its probes, or
\* its probe was missed, but for the one the holder still has to read.
HeldOk(h, k) ==
    phase[h] = "window" /\ Holding(k) /\ Meet(Ours(h), Ours(k)) /\ ~Alarmed(h)
    => /\ lost >= round[h] - 1
       /\ lost >= round[h] \/ Probe(Ours(h)) \in inbox[k]

\* Two that hold one name took as many losses as there are probes; if it took
\* no more, one of them has been told.
TwiceOk(h, k) ==
    Holding(h) /\ Holding(k) /\ Meet(Ours(h), Ours(k)) =>
        lost >= ProbeCount /\ (lost = ProbeCount => Told(h) \/ Told(k))

PairOk(h, k) == OrderOk(h, k) /\ RaceOk(h, k) /\ HeldOk(h, k) /\ TwiceOk(h, k)

IInv ==
    /\ TypesOk
    /\ \A h \in Hosts : TillOk(h)
    /\ \A h, k \in Hosts : h # k => PairOk(h, k)

LEMMA InvInit ==
    ASSUME TillsApart, Init
    PROVE  IInv
<1> USE ResponderAssumption
<1>1. TypesOk
    BY DEF Init, TypesOk, Phases
<1>2. ASSUME NEW h \in Hosts PROVE phase[h] = "down" /\ TillOk(h)
    BY DEF Init, TillOk, CalmOk, ProgressOk, Holding
<1>3. ASSUME NEW h \in Hosts, NEW k \in Hosts PROVE PairOk(h, k)
    BY <1>2 DEF PairOk, OrderOk, RaceOk, HeldOk, TwiceOk, Holding
<1> QED
    BY <1>1, <1>2, <1>3 DEF IInv

\* What a step of till j leaves alone: the other tills, but for what they hear.
Aside(j) ==
    /\ \A k \in Hosts \ {j} :
         /\ phase'[k] = phase[k] /\ attempt'[k] = attempt[k] /\ round'[k] = round[k]
         /\ left'[k] = left[k] /\ stopping'[k] = stopping[k] /\ inbox[k] \subseteq inbox'[k]
    /\ \A h, k \in Hosts \ {j} : <<h, k>> \in earlier' <=> <<h, k>> \in earlier
    /\ lost' \in Nat /\ lost' >= lost

\* The state of a till that stays as it is and may hear more.
Stays(h) ==
    /\ phase'[h] = phase[h] /\ attempt'[h] = attempt[h] /\ round'[h] = round[h]
    /\ stopping'[h] = stopping[h] /\ inbox[h] \subseteq inbox'[h]

LEMMA NamesStay ==
    ASSUME NEW h, attempt'[h] = attempt[h]
    PROVE  Ours(h)' = Ours(h)
BY DEF Ours

LEMMA AlarmsStay ==
    ASSUME NEW h, attempt'[h] = attempt[h], inbox[h] \subseteq inbox'[h]
    PROVE  /\ Alarmed(h) => Alarmed(h)'
           /\ Told(h) => Told(h)'
           /\ Ours(h)' = Ours(h)
<1>1. Ours(h)' = Ours(h)
    BY NamesStay
<1>2. Alarmed(h) => Alarmed(h)'
    BY <1>1 DEF Alarmed
<1>3. Told(h) => Told(h)'
    BY <1>1 DEF Told
<1> QED
    BY <1>1, <1>2, <1>3

\* Two tills that stay as they are and may hear more.
LEMMA PairStays ==
    ASSUME TypesOk, TypesOk', NEW h \in Hosts, NEW k \in Hosts, PairOk(h, k), lost' >= lost,
           Stays(h), Stays(k),
           <<h, k>> \in earlier' <=> <<h, k>> \in earlier,
           <<k, h>> \in earlier' <=> <<k, h>> \in earlier
    PROVE  PairOk(h, k)'
<1>1. /\ Ours(h)' = Ours(h) /\ Ours(k)' = Ours(k)
      /\ Alarmed(h) => Alarmed(h)'
      /\ Told(h) => Told(h)'
      /\ Told(k) => Told(k)'
    <2>1. /\ attempt'[h] = attempt[h] /\ inbox[h] \subseteq inbox'[h]
          /\ attempt'[k] = attempt[k] /\ inbox[k] \subseteq inbox'[k]
        BY DEF Stays
    <2> QED
        BY <2>1, AlarmsStay, Zenon
<1>2. /\ phase'[h] = phase[h] /\ phase'[k] = phase[k]
      /\ round'[h] = round[h] /\ round'[k] = round[k]
      /\ Holding(h)' = Holding(h) /\ Holding(k)' = Holding(k)
      /\ lost \in Nat /\ lost' \in Nat /\ round[h] \in Nat /\ round[k] \in Nat
    BY DEF Stays, TypesOk, Holding
<1>3. OrderOk(h, k)'
    BY <1>2 DEF PairOk, OrderOk
<1>4. RaceOk(h, k)'
    BY <1>1, <1>2 DEF PairOk, RaceOk
<1>5. HeldOk(h, k)'
    BY <1>1, <1>2 DEF PairOk, HeldOk, Stays
<1>6. TwiceOk(h, k)'
    BY <1>1, <1>2, ResponderAssumption DEF PairOk, TwiceOk
<1> QED
    BY <1>3, <1>4, <1>5, <1>6 DEF PairOk

\* A step of one till keeps the invariant if it keeps what concerns that till.
LEMMA StepKeeps ==
    ASSUME IInv, TypesOk', NEW j \in Hosts, Aside(j), TillOk(j)',
           \A k \in Hosts \ {j} : CalmOk(k)' /\ PairOk(j, k)' /\ PairOk(k, j)'
    PROVE  IInv'
<1>1. ASSUME NEW k \in Hosts PROVE TillOk(k)'
    <2>1. CASE k = j
        BY <2>1
    <2>2. CASE k # j
        <3>1. ProgressOk(k)'
            BY <2>2 DEF IInv, TillOk, ProgressOk, Aside
        <3> QED
            BY <2>2, <3>1 DEF TillOk
    <2> QED
        BY <2>1, <2>2
<1>2. ASSUME NEW h \in Hosts, NEW k \in Hosts, h # k PROVE PairOk(h, k)'
    <2>1. CASE h # j /\ k # j
        BY <1>2, <2>1, PairStays DEF IInv, Aside, Stays
    <2>2. CASE h = j \/ k = j
        BY <1>2, <2>2
    <2> QED
        BY <2>1, <2>2
<1> QED
    BY <1>1, <1>2 DEF IInv

----------------------------------------------------------------------------
(* Steps of one kind.                                                      *)

\* What a datagram sent by j does: nobody else loses anything, and who does not
\* get it is counted.
LEMMA Delivered ==
    ASSUME TypesOk, IsFiniteSet(Hosts), NEW j \in Hosts, NEW rest, NEW msgs, Deliver(j, rest, msgs)
    PROVE  /\ inbox' = [k \in Hosts |-> inbox'[k]] /\ inbox'[j] = rest
           /\ lost' \in Nat /\ lost' >= lost
           /\ \A k \in Hosts \ {j} :
                /\ inbox[k] \subseteq inbox'[k] /\ inbox'[k] \subseteq inbox[k] \cup msgs
                /\ Open(k) /\ msgs # {} => msgs \subseteq inbox'[k] \/ lost' >= lost + 1
<1>1. PICK missed \in SUBSET {k \in Hosts \ {j} : Open(k) /\ msgs # {}} :
          /\ lost' = lost + Cardinality(missed)
          /\ inbox' = [k \in Hosts |->
               IF k = j THEN rest
               ELSE IF Open(k) /\ k \notin missed THEN inbox[k] \cup msgs ELSE inbox[k]]
    BY DEF Deliver
<1>2. IsFiniteSet(missed)
    BY FS_Subset
<1>3. Cardinality(missed) \in Nat /\ (missed # {} => Cardinality(missed) >= 1)
    BY <1>2, FS_CardinalityType, FS_EmptySet
<1>4. ASSUME NEW k \in Hosts \ {j}
      PROVE  /\ inbox[k] \subseteq inbox'[k] /\ inbox'[k] \subseteq inbox[k] \cup msgs
             /\ Open(k) /\ msgs # {} => msgs \subseteq inbox'[k] \/ missed # {}
    BY <1>1
<1>5. lost' \in Nat /\ lost' >= lost /\ (missed # {} => lost' >= lost + 1)
    BY <1>1, <1>3 DEF TypesOk
<1> QED
    BY <1>1, <1>4, <1>5

\* A holder that hears nothing against its names stays calm.
LEMMA CalmStays ==
    ASSUME TypesOk, NEW k \in Hosts, CalmOk(k), Stays(k), NEW msgs, inbox'[k] \subseteq inbox[k] \cup msgs,
           lost' \in Nat, lost' >= lost,
           Holding(k) /\ lost' < ProbeCount =>
               \A m \in msgs : m.kind = "probe" \/ ~Clash(Ours(k), m)
    PROVE  CalmOk(k)'
<1>1. SUFFICES ASSUME Holding(k)', lost' < ProbeCount, Told(k)'
               PROVE  FALSE
    BY DEF CalmOk
<1>2. Holding(k) /\ Ours(k)' = Ours(k)
    BY <1>1, NamesStay DEF Stays, Holding
<1>3. PICK m \in inbox'[k] : m.kind # "probe" /\ Clash(Ours(k), m)
    BY <1>1, <1>2 DEF Told
<1>4. m \in inbox[k]
    BY <1>1, <1>2, <1>3
<1>5. lost < ProbeCount
    BY <1>1, ResponderAssumption DEF TypesOk
<1> QED
    BY <1>2, <1>3, <1>4, <1>5 DEF CalmOk, Told

\* A till that neither probes nor holds anything any more.
LEMMA WithdrawKeeps ==
    ASSUME IInv, TypesOk', NEW j \in Hosts, Aside(j),
           phase'[j] # "window", ~Holding(j)', ProgressOk(j)',
           \A k \in Hosts \ {j} : CalmOk(k)'
    PROVE  IInv'
<1>1. TillOk(j)'
    BY DEF TillOk, CalmOk
<1>2. ASSUME NEW k \in Hosts \ {j} PROVE PairOk(j, k)' /\ PairOk(k, j)'
    BY DEF PairOk, OrderOk, RaceOk, HeldOk, TwiceOk
<1> QED
    BY <1>1, <1>2, StepKeeps

\* Nobody hears anything in a step that leaves the inboxes of others alone.
LEMMA SilentCalm ==
    ASSUME IInv, NEW j \in Hosts, Aside(j), NEW k \in Hosts \ {j}, inbox'[k] = inbox[k]
    PROVE  CalmOk(k)'
<1>1. CalmOk(k) /\ TypesOk
    BY DEF IInv, TillOk
<1>2. Stays(k) /\ lost' \in Nat /\ lost' >= lost
    BY DEF Aside, Stays
<1> DEFINE nothing == {}
<1>3. inbox'[k] \subseteq inbox[k] \cup nothing
    OBVIOUS
<1>4. \A m \in nothing : m.kind = "probe" \/ ~Clash(Ours(k), m)
    OBVIOUS
<1>5. k \in Hosts
    OBVIOUS
<1> HIDE DEF nothing
<1> QED
    BY <1>1, <1>2, <1>3, <1>4, <1>5, CalmStays

\* A prober that reads what is no conflict, or a till told to stop.
LEMMA StillKeeps ==
    ASSUME IInv, TypesOk', NEW j \in Hosts, Aside(j),
           \A k \in Hosts \ {j} : inbox'[k] = inbox[k], earlier' = earlier,
           phase'[j] = phase[j], attempt'[j] = attempt[j], round'[j] = round[j],
           left'[j] = left[j], inbox'[j] \subseteq inbox[j], Alarmed(j) => Alarmed(j)',
           ~Holding(j)'
    PROVE  IInv'
<1>1. TillOk(j)'
    BY DEF IInv, TillOk, CalmOk, ProgressOk
<1>2. Ours(j)' = Ours(j)
    BY NamesStay
<1>3. ASSUME NEW k \in Hosts \ {j}
      PROVE  CalmOk(k)' /\ PairOk(j, k)' /\ PairOk(k, j)'
    <2>1. CalmOk(k)'
        BY SilentCalm
    <2>2. /\ phase'[k] = phase[k] /\ round'[k] = round[k] /\ stopping'[k] = stopping[k]
          /\ attempt'[k] = attempt[k] /\ lost' >= lost /\ lost' \in Nat /\ lost \in Nat
          /\ round[j] \in Nat /\ round[k] \in Nat /\ inbox'[k] = inbox[k]
        BY DEF Aside, IInv, TypesOk
    <2>3. Ours(k)' = Ours(k) /\ Holding(k)' = Holding(k)
        BY <2>2, NamesStay DEF Holding
    <2>4. Alarmed(k)' = Alarmed(k)
        BY <2>2, <2>3 DEF Alarmed
    <2>5. PairOk(j, k) /\ PairOk(k, j)
        BY DEF IInv
    <2>6. OrderOk(j, k)' /\ OrderOk(k, j)'
        BY <2>2, <2>5 DEF PairOk, OrderOk
    <2>7. RaceOk(j, k)'
        BY <1>2, <2>2, <2>3, <2>5 DEF PairOk, RaceOk
    <2>8. RaceOk(k, j)'
        BY <1>2, <2>2, <2>3, <2>4, <2>5 DEF PairOk, RaceOk
    <2>9. HeldOk(j, k)'
        BY <1>2, <2>2, <2>3, <2>5 DEF PairOk, HeldOk
    <2>10. HeldOk(k, j)' /\ TwiceOk(j, k)' /\ TwiceOk(k, j)'
        BY DEF HeldOk, TwiceOk
    <2> QED
        BY <2>1, <2>6, <2>7, <2>8, <2>9, <2>10 DEF PairOk
<1> QED
    BY <1>1, <1>3, StepKeeps

\* A holder that reads something, or says something nobody takes for a conflict
\* before enough was lost; whoever's probe it read hears of it.
LEMMA HolderKeeps ==
    ASSUME IInv, TypesOk', NEW j \in Hosts, Aside(j), Holding(j),
           phase'[j] = phase[j], attempt'[j] = attempt[j], round'[j] = round[j],
           stopping'[j] = stopping[j], earlier' = earlier,
           inbox'[j] \subseteq inbox[j], Told(j) => Told(j)',
           \A k \in Hosts \ {j} : CalmOk(k)',
           \A k \in Hosts \ {j} :
               phase[k] = "window" /\ Probe(Ours(k)) \in inbox[j] \ inbox'[j] /\ Meet(Ours(k), Ours(j))
               => Alarmed(k)' \/ lost' >= lost + 1
    PROVE  IInv'
<1>1. Ours(j)' = Ours(j) /\ Holding(j)' = Holding(j) /\ phase[j] = "claimed"
    BY NamesStay DEF Holding
<1>2. lost' \in Nat /\ lost \in Nat /\ lost' >= lost /\ ProbeCount \in Nat
    BY ResponderAssumption DEF Aside, IInv, TypesOk
<1>3. TillOk(j)'
    <2>1. Told(j)' => Told(j)
        BY <1>1 DEF Told
    <2>2. CalmOk(j)'
        BY <1>1, <1>2, <2>1 DEF IInv, TillOk, CalmOk
    <2> QED
        BY <1>1, <2>2 DEF TillOk, ProgressOk
<1>4. ASSUME NEW k \in Hosts \ {j}
      PROVE  PairOk(j, k)' /\ PairOk(k, j)'
    <2>1. /\ phase'[k] = phase[k] /\ round'[k] = round[k] /\ stopping'[k] = stopping[k]
          /\ attempt'[k] = attempt[k] /\ inbox[k] \subseteq inbox'[k] /\ round[k] \in Nat
        BY DEF Aside, IInv, TypesOk
    <2>2. Holding(k)' = Holding(k)
        BY <2>1 DEF Holding
    <2>3. /\ Ours(k)' = Ours(k)
          /\ Alarmed(k) => Alarmed(k)'
          /\ Told(k) => Told(k)'
        BY <2>1, AlarmsStay, Zenon
    <2>4. PairOk(j, k) /\ PairOk(k, j)
        BY DEF IInv
    <2>5. OrderOk(j, k)' /\ OrderOk(k, j)' /\ RaceOk(j, k)' /\ RaceOk(k, j)' /\ HeldOk(j, k)'
        BY <1>1 DEF OrderOk, RaceOk, HeldOk
    <2>6. HeldOk(k, j)'
        <3>1. SUFFICES ASSUME phase[k] = "window", Meet(Ours(k), Ours(j)), ~Alarmed(k)'
                       PROVE  /\ lost' >= round[k] - 1
                              /\ lost' >= round[k] \/ Probe(Ours(k)) \in inbox'[j]
            BY <1>1, <2>1, <2>3 DEF HeldOk
        <3>2. /\ lost >= round[k] - 1
              /\ lost >= round[k] \/ Probe(Ours(k)) \in inbox[j]
            BY <2>3, <2>4, <3>1 DEF PairOk, HeldOk
        <3> QED
            BY <1>2, <2>1, <3>1, <3>2
    <2>7. TwiceOk(j, k)' /\ TwiceOk(k, j)'
        BY <1>1, <1>2, <2>2, <2>3, <2>4 DEF PairOk, TwiceOk
    <2> QED
        BY <2>5, <2>6, <2>7 DEF PairOk
<1> QED
    BY <1>3, <1>4, StepKeeps

----------------------------------------------------------------------------
(* The steps of the callers and the ends of a till.                        *)

LEMMA OthersAre ==
    ASSUME NEW j, NEW h, NEW k
    PROVE  /\ h # j /\ k # j => (<<h, k>> \in Others(j) <=> <<h, k>> \in earlier)
           /\ <<j, k>> \notin Others(j) /\ <<k, j>> \notin Others(j)
BY DEF Others

\* A step in which nobody else hears anything.
Silent(j) == \A k \in Hosts \ {j} : inbox'[k] = inbox[k]

LEMMA HeardBy ==
    ASSUME NEW j \in Hosts, NEW rest, inbox = [k \in Hosts |-> inbox[k]],
           inbox' = [inbox EXCEPT ![j] = rest]
    PROVE  /\ inbox' = [k \in Hosts |-> inbox'[k]] /\ inbox'[j] = rest
           /\ Silent(j)
BY DEF Silent

LEMMA StartKeeps ==
    ASSUME TillsApart, IInv, NEW j \in Hosts, Start(j)
    PROVE  IInv'
<1>1. TypesOk' /\ Aside(j) /\ Silent(j)
    BY DEF Start, engine, IInv, TypesOk, Phases, Aside, Silent
<1>2. phase'[j] = "asleep" /\ ProgressOk(j)'
    BY DEF Start, IInv, TypesOk, TillOk, ProgressOk
<1>3. ~Holding(j)'
    BY <1>2 DEF Holding
<1>4. \A k \in Hosts \ {j} : CalmOk(k)'
    BY <1>1, SilentCalm DEF Silent
<1> QED
    BY <1>1, <1>2, <1>3, <1>4, WithdrawKeeps

LEMMA StopKeeps ==
    ASSUME TillsApart, IInv, NEW j \in Hosts, Stop(j)
    PROVE  IInv'
<1>1. TypesOk' /\ Aside(j) /\ Silent(j)
    BY DEF Stop, engine, IInv, TypesOk, Phases, Aside, Silent
<1>2. /\ phase' = phase /\ attempt' = attempt /\ round' = round /\ left' = left
      /\ inbox' = inbox /\ earlier' = earlier /\ stopping'[j]
    BY DEF Stop, engine, IInv, TypesOk
<1>3. ~Holding(j)' /\ (Alarmed(j) => Alarmed(j)')
    BY <1>2, NamesStay DEF Holding, Alarmed
<1> QED
    BY <1>1, <1>2, <1>3, StillKeeps DEF Silent

LEMMA CrashKeeps ==
    ASSUME TillsApart, IInv, NEW j \in Hosts, Crash(j)
    PROVE  IInv'
<1>1. TypesOk' /\ Silent(j)
    <2>1. inbox' = [inbox EXCEPT ![j] = {}] /\ inbox = [k \in Hosts |-> inbox[k]]
        BY DEF Crash, IInv, TypesOk
    <2>2. inbox' = [k \in Hosts |-> inbox'[k]] /\ Silent(j)
        BY <2>1, HeardBy
    <2>3. /\ phase' \in [Hosts -> Phases] /\ attempt' \in [Hosts -> Nat]
          /\ round' \in [Hosts -> Nat] /\ left' \in [Hosts -> Int] /\ lost' \in Nat
        BY ResponderAssumption DEF Crash, IInv, TypesOk, Phases
    <2>4. stopping' \in [Hosts -> BOOLEAN]
        BY DEF Crash, IInv, TypesOk
    <2> QED
        BY <2>2, <2>3, <2>4 DEF TypesOk
<1>2. Aside(j)
    <2>1. /\ earlier' = Others(j) /\ inbox' = [inbox EXCEPT ![j] = {}] /\ lost' = lost
          /\ phase' = [phase EXCEPT ![j] = "down"] /\ attempt' = [attempt EXCEPT ![j] = 1]
          /\ round' = [round EXCEPT ![j] = 0] /\ left' = [left EXCEPT ![j] = AnnounceCount]
          /\ stopping' = [stopping EXCEPT ![j] = FALSE]
        BY DEF Crash
    <2>2. TypesOk
        BY DEF IInv
    <2>3. \A h, k \in Hosts \ {j} : <<h, k>> \in earlier' <=> <<h, k>> \in earlier
        BY <2>1, OthersAre
    <2>4. \A k \in Hosts \ {j} :
            /\ phase'[k] = phase[k] /\ attempt'[k] = attempt[k] /\ round'[k] = round[k]
            /\ left'[k] = left[k] /\ inbox[k] \subseteq inbox'[k]
        BY <2>1, <2>2 DEF TypesOk
    <2>5. \A k \in Hosts \ {j} : stopping'[k] = stopping[k]
        BY <2>1, <2>2 DEF TypesOk
    <2> QED
        BY <2>1, <2>2, <2>3, <2>4, <2>5 DEF TypesOk, Aside
<1>3. phase'[j] = "down" /\ ProgressOk(j)'
    BY DEF Crash, IInv, TypesOk, ProgressOk
<1>4. ~Holding(j)'
    BY <1>3 DEF Holding
<1>5. \A k \in Hosts \ {j} : CalmOk(k)'
    BY <1>1, <1>2, SilentCalm DEF Silent
<1> QED
    BY <1>1, <1>2, <1>3, <1>4, <1>5, WithdrawKeeps

\* The names of a till that says something, as another till knows them.
LEMMA TillsMeet ==
    ASSUME TillsApart, TypesOk, NEW j \in Hosts, NEW k \in Hosts, j # k
    PROVE  /\ Paired(Ours(j), Ours(k)) /\ Ours(j) \in Configs
           /\ Meet(Ours(j), Ours(k)) <=> Meet(Ours(k), Ours(j))
<1>1. attempt[j] \in Nat /\ attempt[k] \in Nat
    BY DEF TypesOk
<1>2. Paired(Ours(j), Ours(k)) /\ Paired(Ours(k), Ours(j))
    BY <1>1, TillsArePaired DEF Ours
<1> QED
    BY <1>2, MeetIs DEF Paired

\* The goodbye harms nobody.
LEMMA LeaveKeeps ==
    ASSUME TillsApart, IInv, NEW j \in Hosts, Leave(j)
    PROVE  IInv'
<1> DEFINE msgs == {Response(GoodbyeRecords(Ours(j)))}
<1>1. /\ phase' = [phase EXCEPT ![j] = "ended"] /\ Deliver(j, {}, msgs)
      /\ attempt' = attempt /\ round' = round /\ earlier' = earlier /\ left' = left
      /\ stopping' = stopping
    BY DEF Leave, engine
<1>2. TypesOk /\ IsFiniteSet(Hosts)
    BY DEF IInv, TillsApart
<1> HIDE DEF msgs
<1>3. /\ inbox' = [k \in Hosts |-> inbox'[k]]
      /\ lost' \in Nat /\ lost' >= lost
      /\ \A k \in Hosts \ {j} : inbox[k] \subseteq inbox'[k] /\ inbox'[k] \subseteq inbox[k] \cup msgs
    BY <1>1, <1>2, Delivered
<1>4. TypesOk'
    BY <1>1, <1>2, <1>3 DEF TypesOk, Phases
<1>5. Aside(j) /\ phase'[j] = "ended"
    BY <1>1, <1>2, <1>3 DEF Aside, TypesOk
<1>6. ~Holding(j)' /\ ProgressOk(j)'
    BY <1>5 DEF Holding, ProgressOk
<1>7. ASSUME NEW k \in Hosts \ {j} PROVE CalmOk(k)'
    <2>1. Stays(k) /\ CalmOk(k)
        BY <1>5 DEF Aside, Stays, IInv, TillOk
    <2>2. \A m \in msgs : ~Clash(Ours(k), m)
        BY <1>2, TillsMeet, GoodbyeIsNoConflict DEF msgs
    <2> QED
        BY <1>2, <1>3, <2>1, <2>2, CalmStays
<1> QED
    BY <1>4, <1>5, <1>6, <1>7, WithdrawKeeps

\* A till that stops probing, or gives up.
LEMMA EndKeeps ==
    ASSUME TillsApart, IInv, NEW j \in Hosts, NEW to \in {"asleep", "ended"},
           phase' = [phase EXCEPT ![j] = to], phase[j] \in {"asleep", "window"},
           NEW n \in Nat, attempt' = [attempt EXCEPT ![j] = n],
           NEW rest, inbox' = [inbox EXCEPT ![j] = rest], earlier' = Others(j),
           UNCHANGED <<round, left, stopping, lost>>
    PROVE  IInv'
<1>1. TypesOk' /\ Silent(j)
    <2>1. inbox = [k \in Hosts |-> inbox[k]]
        BY DEF IInv, TypesOk
    <2>2. inbox' = [k \in Hosts |-> inbox'[k]] /\ Silent(j)
        BY <2>1, HeardBy
    <2> QED
        BY <2>2 DEF IInv, TypesOk, Phases
<1>2. Aside(j)
    <2>1. \A h, k \in Hosts \ {j} : <<h, k>> \in earlier' <=> <<h, k>> \in earlier
        BY OthersAre
    <2> QED
        BY <1>1, <2>1 DEF IInv, TypesOk, Aside, Silent
<1>3. phase'[j] = to /\ ProgressOk(j)'
    BY DEF IInv, TypesOk, TillOk, ProgressOk
<1>4. ~Holding(j)'
    BY <1>3 DEF Holding
<1>5. \A k \in Hosts \ {j} : CalmOk(k)'
    BY <1>1, <1>2, SilentCalm DEF Silent
<1> QED
    BY <1>1, <1>2, <1>3, <1>4, <1>5, WithdrawKeeps

LEMMA ReadKeeps ==
    ASSUME TillsApart, IInv, NEW j \in Hosts, ReadInWindow(j)
    PROVE  IInv'
<1>1. PICK m \in inbox[j] :
        IF ~Conflict(j, m)
        THEN /\ inbox' = [inbox EXCEPT ![j] = @ \ {m}]
             /\ UNCHANGED <<engine, phase, earlier>>
        ELSE /\ earlier' = Others(j)
             /\ renames' = [renames EXCEPT ![j] = @ + 1]
             /\ IF renames[j] = MaxRenames
                THEN /\ phase' = [phase EXCEPT ![j] = "ended"]
                     /\ inbox' = [inbox EXCEPT ![j] = {}]
                     /\ UNCHANGED <<attempt, published>>
                ELSE /\ phase' = [phase EXCEPT ![j] = "asleep"]
                     /\ inbox' = [inbox EXCEPT ![j] = @ \ {m}]
                     /\ Rename(j)
    BY DEF ReadInWindow
<1>2. phase[j] = "window" /\ UNCHANGED <<round, left, stopping, lost>>
    BY DEF ReadInWindow
<1>3. attempt \in [Hosts -> Nat] /\ attempt[j] \in Nat /\ inbox = [h \in Hosts |-> inbox[h]]
    BY DEF IInv, TypesOk
<1>4. CASE ~Conflict(j, m)
    <2>1. /\ inbox' = [inbox EXCEPT ![j] = @ \ {m}]
          /\ phase' = phase /\ attempt' = attempt /\ earlier' = earlier
        BY <1>1, <1>4 DEF engine
    <2>2. TypesOk' /\ Aside(j) /\ Silent(j)
        <3>1. inbox' = [k \in Hosts |-> inbox'[k]] /\ Silent(j)
            BY <1>3, <2>1, HeardBy
        <3>2. TypesOk'
            BY <1>2, <2>1, <3>1 DEF IInv, TypesOk
        <3> QED
            BY <1>2, <2>1, <3>1, <3>2 DEF IInv, TypesOk, Aside, Silent
    <2>3. ~Clash(Ours(j), m) /\ inbox'[j] = inbox[j] \ {m}
        BY <1>3, <1>4, <2>1, ConflictIs
    <2>4. Alarmed(j) => Alarmed(j)'
        BY <2>1, <2>3, NamesStay DEF Alarmed
    <2>5. ~Holding(j)'
        BY <1>2, <2>1 DEF Holding
    <2> QED
        BY <1>2, <2>1, <2>2, <2>3, <2>4, <2>5, StillKeeps DEF Silent
<1>5. CASE Conflict(j, m) /\ renames[j] = MaxRenames
    <2>1. attempt' = [attempt EXCEPT ![j] = attempt[j]]
        BY <1>1, <1>3, <1>5
    <2>2. /\ phase' = [phase EXCEPT ![j] = "ended"] /\ inbox' = [inbox EXCEPT ![j] = {}]
          /\ earlier' = Others(j)
        BY <1>1, <1>5
    <2> QED
        BY <1>2, <1>3, <2>1, <2>2, EndKeeps
<1>6. CASE Conflict(j, m) /\ renames[j] # MaxRenames
    <2>1. /\ attempt' = [attempt EXCEPT ![j] = attempt[j] + 1] /\ attempt[j] + 1 \in Nat
          /\ phase' = [phase EXCEPT ![j] = "asleep"]
          /\ inbox' = [inbox EXCEPT ![j] = inbox[j] \ {m}]
          /\ earlier' = Others(j)
        BY <1>1, <1>3, <1>6 DEF Rename
    <2> QED
        BY <1>2, <2>1, EndKeeps
<1> QED
    BY <1>4, <1>5, <1>6

----------------------------------------------------------------------------
(* Probing and claiming.                                                   *)

\* What is known of two tills before a step that concerns one of them.
LEMMA PairFacts ==
    ASSUME TillsApart, IInv, NEW j \in Hosts, NEW k \in Hosts \ {j}, Aside(j)
    PROVE  /\ phase'[k] = phase[k] /\ round'[k] = round[k] /\ Holding(k)' = Holding(k)
           /\ Ours(k)' = Ours(k)
           /\ Alarmed(k) => Alarmed(k)'
           /\ Told(k) => Told(k)'
           /\ Paired(Ours(j), Ours(k)) /\ Paired(Ours(k), Ours(j))
           /\ Meet(Ours(j), Ours(k)) <=> Meet(Ours(k), Ours(j))
           /\ PairOk(j, k) /\ PairOk(k, j) /\ CalmOk(k) /\ Stays(k)
           /\ phase[k] = "window" => round[k] \in 1..ProbeCount
           /\ round[j] \in Nat /\ round[k] \in Nat /\ lost \in Nat
           /\ lost' \in Nat /\ lost' >= lost
<1>1. TypesOk
    BY DEF IInv
<1>2. Stays(k) /\ lost' \in Nat /\ lost' >= lost
    BY DEF Aside, Stays
<1>3. /\ Alarmed(k) => Alarmed(k)'
      /\ Told(k) => Told(k)'
      /\ Ours(k)' = Ours(k)
    BY <1>2, AlarmsStay, Zenon DEF Stays
<1>4. Paired(Ours(j), Ours(k)) /\ Paired(Ours(k), Ours(j))
    BY <1>1, TillsMeet
<1>5. Meet(Ours(j), Ours(k)) <=> Meet(Ours(k), Ours(j))
    BY <1>4, MeetIs
<1>6. PairOk(j, k) /\ PairOk(k, j) /\ CalmOk(k) /\ (phase[k] = "window" => round[k] \in 1..ProbeCount)
    BY DEF IInv, TillOk, ProgressOk
<1>7. phase'[k] = phase[k] /\ round'[k] = round[k] /\ Holding(k)' = Holding(k)
    BY <1>2 DEF Stays, Holding
<1> QED
    BY <1>1, <1>2, <1>3, <1>4, <1>5, <1>6, <1>7 DEF TypesOk

\* A probe that is read is a conflict for the rival that would back off.
LEMMA ProbeAlarms ==
    ASSUME NEW k, NEW m, m \in inbox'[k], Clash(Ours(k)', m)
    PROVE  Alarmed(k)'
BY DEF Alarmed

\* A window opens: its first, or the next after one that nobody objected in.
LEMMA OpenKeeps ==
    ASSUME TillsApart, IInv, TypesOk', NEW j \in Hosts, Aside(j), NEW n \in 1..ProbeCount,
           ~Holding(j), phase'[j] = "window", round'[j] = n, attempt'[j] = attempt[j],
           left'[j] = AnnounceCount, inbox'[j] = inbox[j],
           \A k \in Hosts \ {j} :
             /\ <<j, k>> \notin earlier'
             /\ phase[k] = "window" => <<k, j>> \in earlier'
             /\ inbox'[k] \subseteq inbox[k] \cup {Probe(Ours(j))}
             /\ Open(k) => Probe(Ours(j)) \in inbox'[k] \/ lost' >= lost + 1,
           n = 1 \/ (/\ WindowOver(j) /\ round[j] = n - 1)
    PROVE  IInv'
<1>1. Ours(j)' = Ours(j) /\ ~Holding(j)' /\ (Alarmed(j)' <=> Alarmed(j))
    BY NamesStay DEF Holding, Alarmed
<1>2. TillOk(j)'
    BY <1>1, ResponderAssumption DEF TillOk, CalmOk, ProgressOk
<1>3. ASSUME NEW k \in Hosts \ {j}
      PROVE  CalmOk(k)' /\ PairOk(j, k)' /\ PairOk(k, j)'
    <2> DEFINE p == Probe(Ours(j))
    <2>1. /\ phase'[k] = phase[k] /\ round'[k] = round[k] /\ Holding(k)' = Holding(k)
          /\ Ours(k)' = Ours(k)
          /\ Alarmed(k) => Alarmed(k)'
          /\ PairOk(j, k) /\ PairOk(k, j) /\ CalmOk(k) /\ Stays(k)
          /\ round[j] \in Nat /\ round[k] \in Nat /\ lost \in Nat
          /\ lost' \in Nat /\ lost' >= lost
        BY PairFacts
    <2>2. /\ <<j, k>> \notin earlier'
          /\ phase[k] = "window" => <<k, j>> \in earlier'
          /\ inbox'[k] \subseteq inbox[k] \cup {p}
          /\ Open(k) => p \in inbox'[k] \/ lost' >= lost + 1
        OBVIOUS
    <2>3. n > 1 => /\ phase[j] = "window" /\ round[j] = n - 1 /\ inbox[j] = {} /\ ~Alarmed(j)
                   /\ <<k, j>> \notin earlier
                   /\ Holding(k) => p \notin inbox[k]
        BY DEF WindowOver, Alarmed, Holding
    <2>4. p.kind = "probe"
        BY DEF Probe
    <2> HIDE DEF p
    <2>5. CalmOk(k)'
        <3>1. \A m \in {p} : m.kind = "probe"
            BY <2>4
        <3> QED
            BY <2>1, <2>2, <3>1, CalmStays DEF IInv
    <2>6. OrderOk(j, k)' /\ OrderOk(k, j)'
        BY <2>1, <2>2 DEF OrderOk
    <2>7. RaceOk(j, k)'
        <3>1. SUFFICES ASSUME phase[k] = "window", Meet(Ours(j), Ours(k)),
                              Clash(Ours(j), Probe(Ours(k))), ~Alarmed(j)
                       PROVE  lost' >= n - 1 \/ lost' >= round[k]
            BY <1>1, <2>1, <2>2 DEF RaceOk
        <3>2. n > 1 => lost >= n - 1 \/ lost >= round[k]
            BY <2>1, <2>3, <3>1 DEF PairOk, RaceOk, OrderOk
        <3> QED
            BY <2>1, <3>2
    <2>8. RaceOk(k, j)'
        <3>1. SUFFICES ASSUME phase[k] = "window", Meet(Ours(k), Ours(j)),
                              Clash(Ours(k), p), ~Alarmed(k)'
                       PROVE  lost' >= round[k] \/ lost' >= n
            BY <1>1, <2>1 DEF RaceOk, p
        <3>2. p \notin inbox'[k]
            BY <2>1, <3>1, ProbeAlarms
        <3>3. lost' >= lost + 1
            BY <2>2, <3>1, <3>2 DEF Open
        <3>4. n > 1 => lost >= round[k] - 1 \/ lost >= n - 1
            BY <2>1, <2>3, <3>1 DEF PairOk, RaceOk, p
        <3> QED
            BY <2>1, <3>3, <3>4
    <2>9. HeldOk(j, k)'
        <3>1. SUFFICES ASSUME Holding(k), Meet(Ours(j), Ours(k)), ~Alarmed(j)
                       PROVE  /\ lost' >= n - 1
                              /\ lost' >= n \/ p \in inbox'[k]
            BY <1>1, <2>1 DEF HeldOk, p
        <3>2. p \in inbox'[k] \/ lost' >= lost + 1
            BY <2>2, <3>1 DEF Open, Holding
        <3>3. n > 1 => lost >= n - 1
            BY <2>1, <2>3, <3>1 DEF PairOk, HeldOk, p
        <3> QED
            BY <2>1, <3>2, <3>3
    <2>10. HeldOk(k, j)' /\ TwiceOk(j, k)' /\ TwiceOk(k, j)'
        BY <1>1 DEF HeldOk, TwiceOk
    <2> QED
        BY <2>5, <2>6, <2>7, <2>8, <2>9, <2>10 DEF PairOk
<1> QED
    BY <1>2, <1>3, StepKeeps

\* A step that says something changes only its own till and what others hear.
LEMMA SaysAside ==
    ASSUME TillsApart, TypesOk, NEW j \in Hosts, NEW rest, NEW msgs, Deliver(j, rest, msgs),
           NEW p \in Phases, phase' = [phase EXCEPT ![j] = p],
           NEW a \in Nat, attempt' = [attempt EXCEPT ![j] = a],
           NEW n \in Nat, round' = [round EXCEPT ![j] = n],
           NEW l \in Int, left' = [left EXCEPT ![j] = l],
           stopping' = stopping,
           \A h, k \in Hosts \ {j} : <<h, k>> \in earlier' <=> <<h, k>> \in earlier
    PROVE  TypesOk' /\ Aside(j)
<1>1. /\ inbox' = [k \in Hosts |-> inbox'[k]]
      /\ lost' \in Nat /\ lost' >= lost
      /\ \A k \in Hosts \ {j} : inbox[k] \subseteq inbox'[k]
    BY Delivered DEF TillsApart
<1>2. TypesOk'
    BY <1>1 DEF TypesOk
<1>3. Aside(j)
    BY <1>1 DEF Aside, TypesOk
<1> QED
    BY <1>2, <1>3

\* One datagram.
LEMMA Sent ==
    ASSUME TillsApart, TypesOk, NEW j \in Hosts, NEW rest, NEW m, Deliver(j, rest, {m})
    PROVE  /\ inbox'[j] = rest
           /\ \A k \in Hosts \ {j} :
                /\ inbox'[k] \subseteq inbox[k] \cup {m}
                /\ Open(k) => m \in inbox'[k] \/ lost' >= lost + 1
<1> DEFINE msgs == {m}
<1>1. Deliver(j, rest, msgs) /\ m \in msgs /\ msgs # {}
    OBVIOUS
<1>2. msgs = {m}
    OBVIOUS
<1> HIDE DEF msgs
<1>3. /\ inbox'[j] = rest
      /\ \A k \in Hosts \ {j} :
           /\ inbox'[k] \subseteq inbox[k] \cup msgs
           /\ Open(k) /\ msgs # {} => msgs \subseteq inbox'[k] \/ lost' >= lost + 1
    BY <1>1, Delivered DEF TillsApart
<1> QED
    BY <1>1, <1>2, <1>3

LEMMA AsItWas ==
    ASSUME TypesOk, NEW j \in Hosts
    PROVE  /\ phase = [phase EXCEPT ![j] = phase[j]] /\ phase[j] \in Phases
           /\ attempt = [attempt EXCEPT ![j] = attempt[j]] /\ attempt[j] \in Nat
           /\ round = [round EXCEPT ![j] = round[j]] /\ round[j] \in Nat
           /\ left = [left EXCEPT ![j] = left[j]] /\ left[j] \in Int
BY DEF TypesOk

LEMMA OpenWindowKeeps ==
    ASSUME TillsApart, IInv, NEW j \in Hosts, NEW n \in 1..ProbeCount, OpenWindow(j, n),
           phase[j] \in {"asleep", "window"}, n = 1 \/ (WindowOver(j) /\ round[j] = n - 1)
    PROVE  IInv'
<1> DEFINE p == Probe(Ours(j))
<1>1. TypesOk /\ attempt' = attempt /\ left' = left /\ stopping' = stopping
    BY DEF OpenWindow, engine, IInv
<1>2. CASE stopping[j]
    <2>1. attempt' = [attempt EXCEPT ![j] = attempt[j]] /\ attempt[j] \in Nat
        BY <1>1, AsItWas
    <2>2. /\ phase' = [phase EXCEPT ![j] = "ended"] /\ inbox' = [inbox EXCEPT ![j] = {}]
          /\ earlier' = Others(j) /\ round' = round /\ lost' = lost
        BY <1>2 DEF OpenWindow
    <2> QED
        BY <1>1, <2>1, <2>2, EndKeeps
<1>3. CASE ~stopping[j]
    <2>1. /\ phase' = [phase EXCEPT ![j] = "window"] /\ round' = [round EXCEPT ![j] = n]
          /\ earlier' = Others(j) \cup {<<k, j>> : k \in {i \in Hosts \ {j} : phase[i] = "window"}}
          /\ Deliver(j, inbox[j], {p})
        BY <1>3 DEF OpenWindow
    <2>2. \A h, k \in Hosts \ {j} : <<h, k>> \in earlier' <=> <<h, k>> \in earlier
        BY <2>1, OthersAre
    <2>3. TypesOk' /\ Aside(j)
        <3>1. "window" \in Phases /\ n \in Nat
            BY DEF Phases
        <3> HIDE DEF p
        <3> QED
            BY <1>1, <2>1, <2>2, <3>1, SaysAside, AsItWas
    <2>4. phase'[j] = "window" /\ round'[j] = n /\ attempt'[j] = attempt[j] /\ left'[j] = AnnounceCount
        BY <1>1, <2>1 DEF TypesOk, IInv, TillOk, ProgressOk
    <2>5. /\ inbox'[j] = inbox[j]
          /\ \A k \in Hosts \ {j} :
               /\ inbox'[k] \subseteq inbox[k] \cup {p}
               /\ Open(k) => p \in inbox'[k] \/ lost' >= lost + 1
        BY <1>1, <2>1, Sent
    <2>6. \A k \in Hosts \ {j} :
              /\ <<j, k>> \notin earlier'
              /\ phase[k] = "window" => <<k, j>> \in earlier'
        BY <2>1, OthersAre
    <2>7. ~Holding(j)
        BY DEF Holding
    <2> QED
        BY <2>3, <2>4, <2>5, <2>6, <2>7, OpenKeeps
<1> QED
    BY <1>2, <1>3

LEMMA WakeKeeps ==
    ASSUME TillsApart, IInv, NEW j \in Hosts, Wake(j)
    PROVE  IInv'
<1>1. OpenWindow(j, 1) /\ phase[j] = "asleep" /\ 1 \in 1..ProbeCount
    BY ResponderAssumption DEF Wake, TillsApart
<1> QED
    BY <1>1, OpenWindowKeeps

LEMMA NextProbeKeeps ==
    ASSUME TillsApart, IInv, NEW j \in Hosts, NextProbe(j)
    PROVE  IInv'
<1>1. /\ WindowOver(j) /\ round[j] < ProbeCount /\ OpenWindow(j, round[j] + 1)
      /\ phase[j] = "window"
    BY DEF NextProbe, WindowOver
<1>2. round[j] + 1 \in 1..ProbeCount /\ round[j] = (round[j] + 1) - 1
    BY <1>1, ResponderAssumption DEF IInv, TypesOk
<1> QED
    BY <1>1, <1>2, OpenWindowKeeps

\* What a till says about its own names disturbs no other holder before enough
\* was lost, if whoever holds the same name cost that much.
LEMMA SaidCalmly ==
    ASSUME TillsApart, IInv, NEW j \in Hosts, NEW k \in Hosts \ {j}, Aside(j),
           NEW recs \in SUBSET Announcement(Ours(j)),
           inbox'[k] \subseteq inbox[k] \cup {Response(recs)},
           Holding(k) /\ Meet(Ours(k), Ours(j)) => lost >= ProbeCount
    PROVE  CalmOk(k)'
<1>1. CalmOk(k) /\ Stays(k) /\ lost \in Nat /\ lost' \in Nat /\ lost' >= lost /\ TypesOk
    BY PairFacts DEF IInv
<1>2. Holding(k) /\ lost' < ProbeCount => ~Clash(Ours(k), Response(recs))
    <2>1. Ours(j) \in Configs
        BY <1>1, TillsMeet
    <2> QED
        BY <1>1, <2>1, OthersAreNoConflict, ResponderAssumption
<1>3. Holding(k) /\ lost' < ProbeCount =>
          \A m \in {Response(recs)} : m.kind = "probe" \/ ~Clash(Ours(k), m)
    BY <1>2
<1> QED
    BY <1>1, <1>3, CalmStays

\* The last window closes and the names are claimed: every holder and every
\* rival has cost as many losses as there are probes, or is told.
LEMMA ClaimKeeps ==
    ASSUME TillsApart, IInv, NEW j \in Hosts, Claim(j)
    PROVE  IInv'
<1> DEFINE m == Response(Announcement(Ours(j)))
<1>1. /\ WindowOver(j) /\ round[j] = ProbeCount /\ ClaimAndAnnounce(j)
      /\ phase[j] = "window" /\ TypesOk /\ left[j] = AnnounceCount /\ left[j] # 0
    BY ResponderAssumption DEF Claim, WindowOver, IInv, TillOk, ProgressOk, TillsApart
<1>2. /\ phase' = [phase EXCEPT ![j] = "claimed"] /\ "claimed" \in Phases
      /\ attempt' = attempt /\ round' = round /\ stopping' = stopping
      /\ earlier' = Others(j)
    BY <1>1 DEF ClaimAndAnnounce, Phases
<1>3. \A h, k \in Hosts \ {j} : <<h, k>> \in earlier' <=> <<h, k>> \in earlier
    BY <1>2, OthersAre
<1>4. CASE stopping[j]
    <2>1. left' = left /\ inbox' = inbox /\ lost' = lost
        BY <1>1, <1>4 DEF ClaimAndAnnounce
    <2>2. TypesOk' /\ Aside(j)
        BY <1>1, <1>2, <1>3, <2>1 DEF TypesOk, Aside
    <2>3. phase'[j] = "claimed" /\ ~Holding(j)' /\ ProgressOk(j)'
        BY <1>1, <1>2, <1>4 DEF TypesOk, Holding, ProgressOk
    <2>4. \A k \in Hosts \ {j} : CalmOk(k)'
        BY <2>1, <2>2, SilentCalm
    <2> QED
        BY <2>2, <2>3, <2>4, WithdrawKeeps
<1>5. CASE ~stopping[j]
    <2>1. left' = [left EXCEPT ![j] = left[j] - 1] /\ Deliver(j, inbox[j], {m})
        BY <1>1, <1>5 DEF ClaimAndAnnounce
    <2>2. TypesOk' /\ Aside(j)
        <3>1. left[j] - 1 \in Int
            BY <1>1 DEF TypesOk
        <3> HIDE DEF m
        <3> QED
            BY <1>1, <1>2, <1>3, <2>1, <3>1, SaysAside, AsItWas
    <2>3. /\ inbox'[j] = {}
          /\ \A k \in Hosts \ {j} :
               /\ inbox'[k] \subseteq inbox[k] \cup {m}
               /\ Open(k) => m \in inbox'[k] \/ lost' >= lost + 1
        BY <1>1, <2>1, Sent DEF WindowOver
    <2>4. phase'[j] = "claimed" /\ Holding(j)' /\ ~Told(j)' /\ Ours(j)' = Ours(j) /\ ~Alarmed(j)
        BY <1>1, <1>2, <1>5, <2>3, NamesStay DEF TypesOk, Holding, Told, Alarmed, WindowOver
    <2>5. TillOk(j)'
        BY <2>4 DEF TillOk, CalmOk, ProgressOk
    <2>6. ASSUME NEW k \in Hosts \ {j}
          PROVE  CalmOk(k)' /\ PairOk(j, k)' /\ PairOk(k, j)'
        <3>1. /\ phase'[k] = phase[k] /\ round'[k] = round[k] /\ Holding(k)' = Holding(k)
              /\ Ours(k)' = Ours(k)
              /\ Alarmed(k) => Alarmed(k)'
              /\ Paired(Ours(k), Ours(j))
              /\ Meet(Ours(j), Ours(k)) <=> Meet(Ours(k), Ours(j))
              /\ PairOk(j, k) /\ PairOk(k, j)
              /\ phase[k] = "window" => round[k] \in 1..ProbeCount
              /\ round[k] \in Nat /\ lost \in Nat /\ lost' \in Nat /\ lost' >= lost
              /\ ProbeCount \in Nat
            BY <2>2, PairFacts, ResponderAssumption
        <3>2. <<k, j>> \notin earlier /\ (Holding(k) => Probe(Ours(j)) \notin inbox[k])
            BY <1>1 DEF WindowOver, Holding
        <3>3. Holding(k) /\ Meet(Ours(k), Ours(j)) => lost >= ProbeCount
            BY <1>1, <2>4, <3>1, <3>2 DEF PairOk, HeldOk
        <3>4. CalmOk(k)'
            BY <2>2, <2>3, <3>3, SaidCalmly
        <3>5. OrderOk(j, k)' /\ OrderOk(k, j)' /\ RaceOk(j, k)' /\ RaceOk(k, j)' /\ HeldOk(j, k)'
            BY <2>4 DEF OrderOk, RaceOk, HeldOk
        <3>6. ASSUME Meet(Ours(k), Ours(j))
              PROVE  Clash(Ours(k), m)
            BY <3>1, <3>6, AnnouncementHeard
        <3> HIDE DEF m
        <3>7. HeldOk(k, j)'
            <4>1. SUFFICES ASSUME phase[k] = "window", Meet(Ours(k), Ours(j)), ~Alarmed(k)'
                           PROVE  lost' >= round[k]
                BY <2>4, <3>1 DEF HeldOk
            <4>2. lost' >= lost + 1
                BY <2>3, <3>1, <3>6, <4>1, ProbeAlarms DEF Open
            <4>3. lost >= round[k] - 1
                <5>1. CASE Clash(Ours(k), Probe(Ours(j)))
                    BY <1>1, <3>1, <4>1, <5>1 DEF PairOk, RaceOk
                <5>2. CASE ~Clash(Ours(k), Probe(Ours(j)))
                    <6>1. Clash(Ours(j), Probe(Ours(k)))
                        BY <3>1, <4>1, <5>2, OneBacksOff
                    <6>2. <<j, k>> \in earlier
                        BY <1>1, <3>1, <3>2, <4>1 DEF PairOk, OrderOk
                    <6>3. lost >= round[j] \/ lost >= round[k]
                        BY <1>1, <2>4, <3>1, <4>1, <6>1, <6>2 DEF PairOk, RaceOk
                    <6> QED
                        BY <1>1, <3>1, <4>1, <6>3
                <5> QED
                    BY <5>1, <5>2
            <4> QED
                BY <3>1, <4>2, <4>3
        <3>8. Holding(k) /\ Meet(Ours(k), Ours(j)) =>
                  lost' >= ProbeCount /\ (lost' = ProbeCount => Told(k)')
            <4>1. SUFFICES ASSUME Holding(k), Meet(Ours(k), Ours(j)), lost' = ProbeCount
                           PROVE  Told(k)'
                BY <3>1, <3>3
            <4>2. m \in inbox'[k]
                BY <2>3, <3>1, <3>3, <4>1 DEF Open, Holding
            <4>3. m.kind # "probe"
                BY DEF m, Response
            <4> QED
                BY <3>1, <3>6, <4>1, <4>2, <4>3 DEF Told
        <3>9. TwiceOk(j, k)' /\ TwiceOk(k, j)'
            BY <2>4, <3>1, <3>8 DEF TwiceOk
        <3> QED
            BY <3>4, <3>5, <3>7, <3>9 DEF PairOk
    <2> QED
        BY <2>2, <2>5, <2>6, StepKeeps
<1> QED
    BY <1>4, <1>5

----------------------------------------------------------------------------
(* Holding the names.                                                      *)

LEMMA HolderSaysCalmly ==
    ASSUME TillsApart, IInv, NEW j \in Hosts, Holding(j), Aside(j),
           NEW recs \in SUBSET Announcement(Ours(j)),
           NEW k \in Hosts \ {j}, inbox'[k] \subseteq inbox[k] \cup {Response(recs)}
    PROVE  CalmOk(k)'
<1>1. Holding(k) /\ Meet(Ours(k), Ours(j)) => lost >= ProbeCount
    BY DEF IInv, PairOk, TwiceOk
<1> QED
    BY <1>1, SaidCalmly

LEMMA AnnounceKeeps ==
    ASSUME TillsApart, IInv, NEW j \in Hosts, Announce(j)
    PROVE  IInv'
<1> DEFINE m == Response(Announcement(Ours(j)))
<1>1. /\ TypesOk /\ Holding(j) /\ phase' = phase /\ attempt' = attempt /\ round' = round
      /\ earlier' = earlier /\ stopping' = stopping
      /\ left' = [left EXCEPT ![j] = left[j] - 1] /\ Deliver(j, inbox[j], {m})
    BY DEF Announce, engine, Holding, IInv
<1>2. TypesOk' /\ Aside(j)
    <2>1. left[j] - 1 \in Int
        BY <1>1 DEF TypesOk
    <2> HIDE DEF m
    <2> QED
        BY <1>1, <2>1, SaysAside, AsItWas
<1>3. inbox'[j] = inbox[j] /\ \A k \in Hosts \ {j} : inbox'[k] \subseteq inbox[k] \cup {m}
    BY <1>1, Sent
<1>4. \A k \in Hosts \ {j} : CalmOk(k)'
    BY <1>1, <1>2, <1>3, HolderSaysCalmly
<1>5. Told(j) => Told(j)'
    BY <1>1, <1>3, NamesStay DEF Told
<1> QED
    BY <1>1, <1>2, <1>3, <1>4, <1>5, HolderKeeps

\* A probe for the holder's name is answered with its addresses.
LEMMA HandleProbe ==
    ASSUME TillsApart, IInv, NEW j \in Hosts, Holding(j), NEW q \in inbox[j], q.kind = "probe",
           NEW d, d = Defence(j, q.recs),
           Deliver(j, inbox[j] \ {q}, IF d = {} THEN {} ELSE {Response(d)}),
           UNCHANGED <<phase, attempt, round, earlier, left, stopping>>
    PROVE  IInv'
<1> DEFINE msgs == IF d = {} THEN {} ELSE {Response(d)}
<1>1. TypesOk /\ Deliver(j, inbox[j] \ {q}, msgs)
    BY DEF IInv
<1>2. msgs \subseteq {Response(d)} /\ (d # {} => Response(d) \in msgs /\ msgs # {})
    OBVIOUS
<1> HIDE DEF msgs
<1>3. TypesOk' /\ Aside(j)
    BY <1>1, SaysAside, AsItWas
<1>4. /\ inbox'[j] = inbox[j] \ {q}
      /\ \A k \in Hosts \ {j} :
           /\ inbox'[k] \subseteq inbox[k] \cup msgs
           /\ Open(k) /\ msgs # {} => msgs \subseteq inbox'[k] \/ lost' >= lost + 1
    BY <1>1, Delivered DEF TillsApart
<1>5. Told(j) => Told(j)'
    BY <1>4, NamesStay DEF Told
<1>6. ASSUME NEW k \in Hosts \ {j}
      PROVE  /\ CalmOk(k)'
             /\ phase[k] = "window" /\ Probe(Ours(k)) \in inbox[j] \ inbox'[j] /\ Meet(Ours(k), Ours(j))
                => Alarmed(k)' \/ lost' >= lost + 1
    <2>1. /\ Paired(Ours(k), Ours(j)) /\ Ours(j) \in Configs /\ Ours(k) \in Configs
          /\ Ours(j).addresses # {} /\ Ours(k).addresses # {}
        BY <1>1, TillsMeet DEF Paired, Apart
    <2>2. d \in SUBSET Announcement(Ours(j))
        BY <2>1, DefenceIs
    <2>3. CalmOk(k)'
        BY <1>2, <1>3, <1>4, <2>2, HolderSaysCalmly
    <2>4. ASSUME phase[k] = "window", Probe(Ours(k)) \in inbox[j] \ inbox'[j], Meet(Ours(k), Ours(j))
          PROVE  Alarmed(k)' \/ lost' >= lost + 1
        <3>1. q.recs = Claimed(Ours(k))
            BY <1>4, <2>4 DEF Probe
        <3>2. PICK r \in AddressRecords(Ours(k)) : TRUE
            BY <2>1 DEF AddressRecords
        <3>3. r \in q.recs /\ r.name = HostName(Ours(j))
            <4>1. HostName(Ours(k)) = HostName(Ours(j))
                BY <2>1, <2>4, MeetIs DEF SameNamed, HostName
            <4> QED
                BY <3>1, <4>1 DEF Claimed, AddressRecords, Flushing
        <3>4. AddressRecords(Ours(j)) \subseteq d /\ d # {}
            <4>1. AddressRecords(Ours(j)) # {}
                BY <2>1 DEF AddressRecords
            <4>2. AddressRecords(Ours(j)) \subseteq Defence(j, q.recs)
                BY <2>1, <3>3, DefenceIs
            <4> QED
                BY <4>1, <4>2
        <3>5. Clash(Ours(k), Response(d))
            BY <2>1, <2>4, <3>4, AddressesHeard
        <3>6. Ours(k)' = Ours(k)
            BY NamesStay
        <3>7. Response(d) \in inbox'[k] \/ lost' >= lost + 1
            BY <1>2, <1>4, <2>4, <3>4 DEF Open
        <3> QED
            BY <3>5, <3>6, <3>7, ProbeAlarms
    <2> QED
        BY <2>3, <2>4
<1>7. inbox'[j] \subseteq inbox[j]
    BY <1>4
<1> QED
    BY <1>3, <1>5, <1>6, <1>7, HolderKeeps

\* An answer about other names, or one the holder gave itself, changes nothing.
LEMMA HandleOther ==
    ASSUME TillsApart, IInv, NEW j \in Hosts, Holding(j), NEW q \in inbox[j], q.kind # "probe",
           ~Conflict(j, q), Deliver(j, inbox[j] \ {q}, {}),
           UNCHANGED <<phase, attempt, round, earlier, left, stopping>>
    PROVE  IInv'
<1> DEFINE nothing == {}
<1>1. TypesOk /\ Deliver(j, inbox[j] \ {q}, nothing)
    BY DEF IInv
<1>2. \A k : inbox[k] \cup nothing = inbox[k]
    OBVIOUS
<1> HIDE DEF nothing
<1>3. TypesOk' /\ Aside(j)
    BY <1>1, SaysAside, AsItWas
<1>4. inbox'[j] = inbox[j] \ {q} /\ \A k \in Hosts \ {j} : inbox'[k] = inbox[k]
    <2>1. /\ inbox'[j] = inbox[j] \ {q}
          /\ \A k \in Hosts \ {j} : inbox[k] \subseteq inbox'[k] /\ inbox'[k] \subseteq inbox[k] \cup nothing
        BY <1>1, Delivered DEF TillsApart
    <2> QED
        BY <1>2, <2>1
<1>5. ~Clash(Ours(j), q)
    BY ConflictIs
<1>6. Told(j) => Told(j)'
    BY <1>4, <1>5, NamesStay DEF Told
<1>7. \A k \in Hosts \ {j} : CalmOk(k)'
    BY <1>3, <1>4, SilentCalm
<1>8. \A k \in Hosts \ {j} : Probe(Ours(k)) \notin inbox[j] \ inbox'[j]
    BY <1>4 DEF Probe
<1>9. inbox'[j] \subseteq inbox[j]
    BY <1>4
<1> QED
    BY <1>3, <1>6, <1>7, <1>8, <1>9, HolderKeeps

\* A holder told otherwise renames: enough was lost already, and whoever holds
\* the next name as well hears its announcement.
LEMMA HandleRename ==
    ASSUME TillsApart, IInv, NEW j \in Hosts, Holding(j), NEW q \in inbox[j], q.kind # "probe",
           Conflict(j, q), attempt' = [attempt EXCEPT ![j] = @ + 1],
           Deliver(j, inbox[j] \ {q}, {Response(Announcement(Renamed(Ours(j))))}),
           UNCHANGED <<phase, round, earlier, left, stopping>>
    PROVE  IInv'
<1> DEFINE m == Response(Announcement(Renamed(Ours(j))))
<1>1. TypesOk /\ attempt[j] + 1 \in Nat /\ attempt' = [attempt EXCEPT ![j] = attempt[j] + 1]
    BY DEF IInv, TypesOk
<1>2. TypesOk' /\ Aside(j)
    <2> HIDE DEF m
    <2> QED
        BY <1>1, SaysAside, AsItWas
<1>3. \A k \in Hosts \ {j} : Open(k) => m \in inbox'[k] \/ lost' >= lost + 1
    <2>1. Deliver(j, inbox[j] \ {q}, {m})
        OBVIOUS
    <2> HIDE DEF m
    <2> QED
        BY <1>1, <2>1, Sent
<1>4. Renamed(Ours(j)) = Ours(j)'
    <2>1. attempt'[j] = attempt[j] + 1
        BY <1>1 DEF TypesOk
    <2>2. Service[j] \in Configs
        BY DEF TillsApart
    <2>3. LabelForAttempt(Service[j], attempt[j]).attempt = attempt[j]
        BY <1>1, <2>2 DEF LabelForAttempt, Configs, TypesOk
    <2>4. Renamed(LabelForAttempt(Service[j], attempt[j])) = LabelForAttempt(Service[j], attempt[j] + 1)
        BY <2>2, <2>3 DEF Renamed, LabelForAttempt, Configs
    <2> QED
        BY <2>1, <2>4 DEF Ours
<1>5. Told(j)
    BY ConflictIs DEF Told
<1>6. lost >= ProbeCount /\ lost \in Nat /\ lost' \in Nat /\ lost' >= lost /\ ProbeCount \in Nat
    BY <1>2, <1>5, ResponderAssumption DEF IInv, TypesOk, TillOk, CalmOk, Aside
<1>7. phase'[j] = "claimed"
    BY DEF Holding
<1>8. TillOk(j)'
    BY <1>6, <1>7 DEF TillOk, CalmOk, ProgressOk
<1>9. ASSUME NEW k \in Hosts \ {j}
      PROVE  CalmOk(k)' /\ PairOk(j, k)' /\ PairOk(k, j)'
    <2>1. /\ phase'[k] = phase[k] /\ round'[k] = round[k] /\ Holding(k)' = Holding(k)
          /\ phase[k] = "window" => round[k] \in 1..ProbeCount
        BY <1>2, PairFacts
    <2>2. CalmOk(k)'
        BY <1>6 DEF CalmOk
    <2>3. OrderOk(j, k)' /\ OrderOk(k, j)' /\ RaceOk(j, k)' /\ RaceOk(k, j)' /\ HeldOk(j, k)'
        BY <1>7 DEF OrderOk, RaceOk, HeldOk
    <2>4. HeldOk(k, j)'
        BY <1>6, <2>1 DEF HeldOk
    <2>5. ASSUME Holding(k), Meet(Ours(k)', Ours(j)'), lost' = ProbeCount
          PROVE  Told(k)'
        <3>1. m \in inbox'[k]
            BY <1>3, <1>6, <2>5 DEF Open, Holding
        <3>2. /\ Paired(Ours(k)', Ours(j)') /\ m.kind # "probe"
            <4>1. attempt'[k] \in Nat /\ attempt'[j] \in Nat
                BY <1>2 DEF TypesOk
            <4>2. Paired(LabelForAttempt(Service[k], attempt'[k]), LabelForAttempt(Service[j], attempt'[j]))
                BY <4>1, TillsArePaired
            <4> QED
                BY <4>2 DEF Ours, Response
        <3>3. Clash(Ours(k)', m)
            BY <1>4, <2>5, <3>2, AnnouncementHeard
        <3> HIDE DEF m
        <3> QED
            BY <3>1, <3>2, <3>3 DEF Told
    <2>6. Meet(Ours(j)', Ours(k)') <=> Meet(Ours(k)', Ours(j)')
        BY DEF Meet
    <2>7. TwiceOk(j, k)' /\ TwiceOk(k, j)'
        BY <1>6, <2>1, <2>5, <2>6 DEF TwiceOk
    <2> QED
        BY <2>2, <2>3, <2>4, <2>7 DEF PairOk
<1> QED
    BY <1>2, <1>8, <1>9, StepKeeps

LEMMA HandleKeeps ==
    ASSUME TillsApart, IInv, NEW j \in Hosts, Handle(j)
    PROVE  IInv'
<1>1. Holding(j) /\ UNCHANGED <<phase, round, earlier, left, stopping>>
    BY DEF Handle, Holding
<1>2. PICK q \in inbox[j] :
        IF q.kind = "probe"
        THEN /\ Deliver(j, inbox[j] \ {q}, IF Defence(j, q.recs) = {} THEN {} ELSE {Response(Defence(j, q.recs))})
             /\ UNCHANGED <<attempt, published>>
        ELSE IF Conflict(j, q)
        THEN /\ attempt' = [attempt EXCEPT ![j] = @ + 1]
             /\ Deliver(j, inbox[j] \ {q}, {Response(Announcement(Renamed(Ours(j))))})
        ELSE Deliver(j, inbox[j] \ {q}, {}) /\ UNCHANGED <<attempt, published>>
    BY Zenon DEF Handle
<1>3. CASE q.kind = "probe"
    BY <1>1, <1>2, <1>3, HandleProbe
<1>4. CASE q.kind # "probe" /\ Conflict(j, q)
    BY <1>1, <1>2, <1>4, HandleRename
<1>5. CASE q.kind # "probe" /\ ~Conflict(j, q)
    BY <1>1, <1>2, <1>5, HandleOther
<1> QED
    BY <1>3, <1>4, <1>5

----------------------------------------------------------------------------
(* The theorems.                                                           *)

LEMMA InvNext ==
    ASSUME TillsApart, IInv, Next
    PROVE  IInv'
<1>1. PICK j \in Hosts : Engine(j) \/ Caller(j) \/ Crash(j)
    BY DEF Next
<1>2. CASE Engine(j)
    <2>1. CASE Wake(j)
        BY <2>1, WakeKeeps
    <2>2. CASE NextProbe(j)
        BY <2>2, NextProbeKeeps
    <2>3. CASE Claim(j)
        BY <2>3, ClaimKeeps
    <2>4. CASE ReadInWindow(j)
        BY <2>4, ReadKeeps
    <2>5. CASE Announce(j)
        BY <2>5, AnnounceKeeps
    <2>6. CASE Handle(j)
        BY <2>6, HandleKeeps
    <2>7. CASE Leave(j)
        BY <2>7, LeaveKeeps
    <2> QED
        BY <1>2, <2>1, <2>2, <2>3, <2>4, <2>5, <2>6, <2>7 DEF Engine
<1>3. CASE Caller(j)
    BY <1>3, StartKeeps, StopKeeps DEF Caller
<1>4. CASE Crash(j)
    BY <1>4, CrashKeeps
<1> QED
    BY <1>1, <1>2, <1>3, <1>4

LEMMA InvStutter ==
    ASSUME IInv, UNCHANGED vars
    PROVE  IInv'
<1>1. TypesOk'
    BY DEF IInv, TypesOk, vars
<1>2. ASSUME NEW h \in Hosts
      PROVE  /\ Ours(h)' = Ours(h) /\ Stays(h)
             /\ Holding(h)' = Holding(h) /\ Told(h)' = Told(h)
             /\ TillOk(h)
    <2>1. Ours(h)' = Ours(h) /\ Stays(h)
        BY NamesStay DEF vars, Stays
    <2> QED
        BY <2>1 DEF vars, Holding, Told, IInv
<1>3. ASSUME NEW h \in Hosts PROVE TillOk(h)'
    BY <1>2 DEF TillOk, CalmOk, ProgressOk, vars
<1>4. ASSUME NEW h \in Hosts, NEW k \in Hosts, h # k PROVE PairOk(h, k)'
    <2>1. PairOk(h, k) /\ TypesOk /\ lost' >= lost /\ earlier' = earlier
        BY <1>4 DEF IInv, TypesOk, vars
    <2> QED
        BY <1>1, <1>2, <2>1, PairStays
<1> QED
    BY <1>1, <1>3, <1>4 DEF IInv

\* The invariant holds in every state of the tills.
THEOREM InvHolds ==
    ASSUME TillsApart
    PROVE  Spec => []IInv
<1>1. Init => IInv
    BY InvInit
<1>2. IInv /\ [Next]_vars => IInv'
    BY InvNext, InvStutter
<1> QED
    BY <1>1, <1>2, PTL DEF Spec

\* Contests are between tills whose names meet.
LEMMA ContestIs ==
    ASSUME NEW h, NEW k
    PROVE  Contest(h, k) <=> h # k /\ Meet(Ours(h), Ours(k))
BY DEF Contest, Meet

\* As long as fewer copies were lost than there are probes, no two tills hold
\* one name, however they start, stop, lose power, probe and rename
\* (responder.rs, probe_until_claimed and handle).
THEOREM NamesAreUnique ==
    ASSUME TillsApart
    PROVE  Spec => []UniqueClaim
<1>1. IInv => UniqueClaim
    <2>1. SUFFICES ASSUME IInv, lost < ProbeCount, NEW h \in Hosts, NEW k \in Hosts,
                          Holding(h), Holding(k), Contest(h, k)
                   PROVE  FALSE
        BY DEF UniqueClaim
    <2>2. h # k /\ Meet(Ours(h), Ours(k))
        BY <2>1, ContestIs
    <2>3. lost >= ProbeCount /\ lost \in Nat /\ ProbeCount \in Nat
        BY <2>1, <2>2, ResponderAssumption DEF IInv, TypesOk, PairOk, TwiceOk
    <2> QED
        BY <2>1, <2>3
<1> QED
    BY <1>1, InvHolds, PTL

\* With as many losses as there are probes two tills can come to hold one name,
\* but not rest on it: once everything announced is read, the names differ
\* (responder.rs, handle).
THEOREM DuplicatesNeverRest ==
    ASSUME TillsApart
    PROVE  Spec => []DuplicateNeverRests
<1>1. IInv => DuplicateNeverRests
    <2>1. SUFFICES ASSUME IInv, AtRest, NEW h \in Hosts, NEW k \in Hosts,
                          Holding(h), Holding(k), Contest(h, k)
                   PROVE  FALSE
        BY DEF DuplicateNeverRests
    <2>2. h # k /\ Meet(Ours(h), Ours(k))
        BY <2>1, ContestIs
    <2>3. inbox[h] = {} /\ inbox[k] = {} /\ lost <= ProbeCount
        BY <2>1 DEF AtRest, Holding, Open
    <2>4. lost >= ProbeCount /\ (lost = ProbeCount => Told(h) \/ Told(k))
        BY <2>1, <2>2 DEF IInv, PairOk, TwiceOk
    <2>5. lost \in Nat /\ ProbeCount \in Nat
        BY <2>1, ResponderAssumption DEF IInv, TypesOk
    <2> QED
        BY <2>3, <2>4, <2>5 DEF Told
<1> QED
    BY <1>1, InvHolds, PTL

\* Nor does a till that holds its names give them up while fewer copies were
\* lost than there are probes (responder.rs, handle).
THEOREM ClaimsAreKept ==
    ASSUME TillsApart
    PROVE  Spec => ClaimIsKept
<1> DEFINE Kept == \A h \in Hosts : Holding(h) /\ Holding(h)' /\ lost < ProbeCount =>
                                        attempt'[h] = attempt[h]
<1>1. IInv /\ [Next]_vars => [Kept]_vars
    <2>1. SUFFICES ASSUME IInv, Next, NEW h \in Hosts, Holding(h), Holding(h)', lost < ProbeCount
                   PROVE  attempt'[h] = attempt[h]
        OBVIOUS
    <2>2. attempt \in [Hosts -> Nat] /\ CalmOk(h)
        BY <2>1 DEF IInv, TypesOk, TillOk
    <2>3. PICK j \in Hosts : Engine(j) \/ Caller(j) \/ Crash(j)
        BY <2>1 DEF Next
    <2>4. CASE j # h
        <3>1. attempt' = attempt \/ \E n : attempt' = [attempt EXCEPT ![j] = n]
            <4>1. CASE Caller(j) \/ Crash(j)
                BY <4>1 DEF Caller, Start, Stop, Crash, engine
            <4>2. CASE Wake(j) \/ NextProbe(j) \/ Claim(j) \/ Announce(j) \/ Leave(j)
                BY <4>2 DEF Wake, NextProbe, Claim, OpenWindow, ClaimAndAnnounce, Announce, Leave, engine
            <4>3. CASE ReadInWindow(j)
                BY <4>3 DEF ReadInWindow, Rename, engine
            <4>4. CASE Handle(j)
                BY <4>4, Zenon DEF Handle
            <4> QED
                BY <2>3, <4>1, <4>2, <4>3, <4>4 DEF Engine
        <3> QED
            BY <2>2, <2>4, <3>1
    <2>5. CASE j = h
        <3>1. phase[h] = "claimed" /\ ~stopping[h] /\ phase'[h] = "claimed"
            BY <2>1 DEF Holding
        <3>2. CASE Caller(j) \/ Crash(j)
            BY <2>1, <2>5, <3>1, <3>2 DEF Caller, Start, Stop, Crash, engine, IInv, TypesOk
        <3>3. CASE Announce(j) \/ Leave(j)
            BY <3>3 DEF Announce, Leave, engine
        <3>4. CASE Wake(j) \/ NextProbe(j) \/ Claim(j) \/ ReadInWindow(j)
            BY <2>5, <3>1, <3>4 DEF Wake, NextProbe, Claim, WindowOver, ReadInWindow
        <3>5. CASE Handle(j)
            <4>1. PICK m \in inbox[h] :
                    attempt' = attempt \/ (m.kind # "probe" /\ Conflict(h, m))
                BY <2>5, <3>5, Zenon DEF Handle
            <4>2. ~(m.kind # "probe" /\ Conflict(h, m))
                BY <2>1, <2>2, ConflictIs DEF CalmOk, Told
            <4> QED
                BY <4>1, <4>2
        <3> QED
            BY <2>3, <3>2, <3>3, <3>4, <3>5 DEF Engine
    <2> QED
        BY <2>4, <2>5
<1> QED
    BY <1>1, InvHolds, PTL DEF Spec, ClaimIsKept

\* Of two tills probing for one name exactly one backs off from the other's
\* probe, whatever their addresses, ports and texts (records.rs, tie_break).
THEOREM OneProberWinsAlways ==
    ASSUME TillsApart
    PROVE  Spec => []OneProberWins
<1>1. IInv => OneProberWins
    <2>1. SUFFICES ASSUME IInv, NEW h \in Hosts, NEW k \in Hosts, Contest(h, k)
                   PROVE  Conflict(h, Probe(Ours(k))) <=> ~Conflict(k, Probe(Ours(h)))
        BY DEF OneProberWins
    <2>2. Paired(Ours(h), Ours(k)) /\ Meet(Ours(h), Ours(k))
        BY <2>1, ContestIs, TillsMeet DEF IInv
    <2> QED
        BY <2>2, OneBacksOff, ConflictIs
<1> QED
    BY <1>1, InvHolds, PTL

----------------------------------------------------------------------------
(* How long a contest is.  While nothing is lost, a till renames because   *)
(* another one probed for, or holds, the name it leaves; and whoever       *)
(* leaves a name leaves it to a till that will not have to.                *)

Named(h, a) == LabelForAttempt(Service[h], a)

\* A till that has renamed a - 1 times and is, or was, after name a; one that
\* got it; and one that has been after it, whatever came of that.
Tries(k, a) == renames[k] = a - 1 /\ phase[k] \in {"window", "claimed", "ended"}
Keeps(k, a) == renames[k] = a - 1 /\ phase[k] \in {"claimed", "ended"}
Tried(k, a) == renames[k] >= a \/ Tries(k, a)
Beats(k, h, a) == Loses(Claimed(Named(h, a)), Claimed(Named(k, a)))

\* What till l can have said so far.
SaidBy(m, l) ==
    \E b \in Nat \ {0} :
        \/ m = Probe(Named(l, b)) /\ Tried(l, b)
        \/ Keeps(l, b) /\ \E recs \in SUBSET Announcement(Named(l, b)) : m = Response(recs)
        \/ m = Response(GoodbyeRecords(Named(l, b)))
HeardOk(h) == \A m \in inbox[h] : \E l \in Hosts \ {h} : SaidBy(m, l)

\* A till is at the name its count of renames says.
AttemptOk(h) == phase[h] # "ended" => attempt[h] = renames[h] + 1

\* Every name a till has left is with another till, which got it or beats it.
Heir(k, h, a) ==
    /\ k # h /\ Service[k].instance = Service[h].instance
    /\ Tries(k, a) /\ (Keeps(k, a) \/ Beats(k, h, a))
YieldOk(h) == \A a \in 1..renames[h] : \E k \in Hosts : Heir(k, h, a)

ContestOk(h) == HeardOk(h) /\ AttemptOk(h) /\ YieldOk(h)
CountsOk == renames \in [Hosts -> Nat] /\ crashes \in Nat
Quiet == lost = 0 /\ crashes = 0
CInv == CountsOk /\ (Quiet => \A h \in Hosts : ContestOk(h))

LEMMA ContestInit ==
    ASSUME Init
    PROVE  CInv
<1>1. CountsOk
    BY DEF Init, CountsOk
<1>2. ASSUME NEW h \in Hosts
      PROVE  inbox[h] = {} /\ attempt[h] = 1 /\ renames[h] = 0
    BY DEF Init
<1>3. ASSUME NEW h \in Hosts
      PROVE  ContestOk(h)
    BY <1>2 DEF ContestOk, HeardOk, AttemptOk, YieldOk
<1> QED
    BY <1>1, <1>3 DEF CInv

\* A step in which nobody leaves a name: no till gives up what it got, and what
\* is heard anew till j said.
Onward(j) ==
    /\ renames' = renames /\ attempt' = attempt
    /\ \A k \in Hosts \ {j} : phase'[k] = phase[k]
    /\ phase[j] \in {"window", "claimed", "ended"} => phase'[j] \in {"window", "claimed", "ended"}
    /\ phase[j] \in {"claimed", "ended"} => phase'[j] \in {"claimed", "ended"}
    /\ phase[j] = "ended" => phase'[j] = "ended"
    /\ \A k \in Hosts : \A m \in inbox'[k] : m \in inbox[k] \/ (k # j /\ SaidBy(m, j)')

LEMMA OnwardKeeps ==
    ASSUME CountsOk, \A h \in Hosts : ContestOk(h), NEW j \in Hosts, Onward(j)
    PROVE  renames' \in [Hosts -> Nat] /\ \A h \in Hosts : ContestOk(h)'
<1>1. ASSUME NEW k \in Hosts, NEW a \in Nat
      PROVE  /\ Tries(k, a) => Tries(k, a)'
             /\ Keeps(k, a) => Keeps(k, a)'
             /\ Tried(k, a) => Tried(k, a)'
    <2>1. Tries(k, a) => Tries(k, a)'
        BY DEF Onward, Tries
    <2>2. Keeps(k, a) => Keeps(k, a)'
        BY DEF Onward, Keeps
    <2> QED
        BY <2>1, <2>2 DEF Tried, Onward
<1>2. ASSUME NEW h \in Hosts
      PROVE  HeardOk(h)'
    <2>1. SUFFICES ASSUME NEW m \in inbox'[h]
                   PROVE  \E l \in Hosts \ {h} : SaidBy(m, l)'
        BY DEF HeardOk
    <2>2. CASE m \in inbox[h]
        <3>1. PICK l \in Hosts \ {h} : SaidBy(m, l)
            BY <2>2 DEF ContestOk, HeardOk
        <3>2. SaidBy(m, l)'
            BY <1>1, <3>1 DEF SaidBy, Named
        <3> QED
            BY <3>2
    <2>3. CASE h # j /\ SaidBy(m, j)'
        BY <2>3
    <2> QED
        BY <2>2, <2>3 DEF Onward
<1>3. ASSUME NEW h \in Hosts
      PROVE  AttemptOk(h)'
    BY DEF ContestOk, AttemptOk, Onward
<1>4. ASSUME NEW h \in Hosts
      PROVE  YieldOk(h)'
    <2>1. SUFFICES ASSUME NEW a \in 1..renames[h]
                   PROVE  \E k \in Hosts : Heir(k, h, a)'
        BY DEF YieldOk, Onward
    <2>2. PICK k \in Hosts : Heir(k, h, a)
        BY DEF ContestOk, YieldOk
    <2>3. a \in Nat
        BY DEF CountsOk
    <2>4. Heir(k, h, a)'
        BY <1>1, <2>2, <2>3 DEF Heir, Beats, Named
    <2> QED
        BY <2>4
<1>5. renames' \in [Hosts -> Nat]
    BY DEF CountsOk, Onward
<1> QED
    BY <1>2, <1>3, <1>4, <1>5 DEF ContestOk

----------------------------------------------------------------------------
(* What makes a prober rename.                                             *)

LEMMA NamedIs ==
    ASSUME TillsApart, NEW h \in Hosts, NEW a \in Nat
    PROVE  /\ Named(h, a) \in Configs
           /\ Named(h, a).instance = Service[h].instance
           /\ Named(h, a).host = Service[h].host /\ Named(h, a).attempt = a
<1>1. Service[h] \in Configs
    BY DEF TillsApart
<1> QED
    BY <1>1 DEF Named, LabelForAttempt, Configs

LEMMA KinAre ==
    ASSUME TillsApart, NEW h \in Hosts, NEW k \in Hosts, NEW a \in Nat, h # k,
           Service[k].instance = Service[h].instance
    PROVE  SameNamed(Named(h, a), Named(k, a))
<1>1. Service[k].host = Service[h].host
    BY DEF TillsApart
<1> QED
    BY <1>1, NamedIs DEF SameNamed

\* Tills that meet are at the same try for one name.
LEMMA MeetAtOneTry ==
    ASSUME TillsApart, NEW h \in Hosts, NEW k \in Hosts, h # k, NEW a \in Nat, NEW b \in Nat,
           Meet(Named(h, a), Named(k, b))
    PROVE  a = b /\ Service[k].instance = Service[h].instance
<1>1. SameNamed(Named(h, a), Named(k, b))
    BY TillsArePaired, MeetIs DEF Named
<1> QED
    BY <1>1, NamedIs DEF SameNamed

\* A till yields to what another one said only if that one holds the name, or
\* probed for it and wins the tie-break.
LEMMA YieldsTo ==
    ASSUME TillsApart, NEW h \in Hosts, NEW l \in Hosts, h # l, NEW a \in Nat, NEW m, SaidBy(m, l),
           Clash(Named(h, a), m)
    PROVE  /\ Service[l].instance = Service[h].instance
           /\ Keeps(l, a) \/ (Tried(l, a) /\ Beats(l, h, a))
<1>1. PICK b \in Nat \ {0} :
        \/ m = Probe(Named(l, b)) /\ Tried(l, b)
        \/ Keeps(l, b) /\ \E recs \in SUBSET Announcement(Named(l, b)) : m = Response(recs)
        \/ m = Response(GoodbyeRecords(Named(l, b)))
    BY DEF SaidBy
<1>2. Named(l, b) \in Configs /\ Named(h, a) \in Configs
    BY NamedIs
<1>3. CASE m = Probe(Named(l, b)) /\ Tried(l, b)
    <2>1. /\ m.kind # "response" /\ m.recs = Claimed(Named(l, b))
        BY <1>3 DEF Probe
    <2>2. /\ \E r \in Claimed(Named(l, b)) : r.name \in OwnedNames(Named(h, a))
          /\ Loses(Claimed(Named(h, a)), {r \in Claimed(Named(l, b)) : r.name \in OwnedNames(Named(h, a))})
        BY <2>1 DEF Clash
    <2>3. Meet(Named(h, a), Named(l, b))
        BY <1>2, <2>2, EntryIs DEF Meet
    <2>4. a = b /\ Service[l].instance = Service[h].instance
        BY <2>3, MeetAtOneTry
    <2>5. OwnedNames(Named(h, a)) = OwnedNames(Named(l, b))
        BY <2>3, TillsArePaired, MeetIs DEF Named
    <2>6. {r \in Claimed(Named(l, b)) : r.name \in OwnedNames(Named(h, a))} = Claimed(Named(l, b))
        BY <1>2, <2>5, EntryIs
    <2> QED
        BY <1>3, <2>2, <2>4, <2>6 DEF Beats
<1>4. CASE Keeps(l, b) /\ \E recs \in SUBSET Announcement(Named(l, b)) : m = Response(recs)
    <2>1. Meet(Named(h, a), Named(l, b))
        BY <1>2, <1>4, OthersAreNoConflict
    <2> QED
        BY <1>4, <2>1, MeetAtOneTry
<1>5. CASE m = Response(GoodbyeRecords(Named(l, b)))
    BY <1>2, <1>5, GoodbyeIsNoConflict
<1> QED
    BY <1>1, <1>3, <1>4, <1>5

LEMMA BeatsIsTransitive ==
    ASSUME TillsApart, NEW h \in Hosts, NEW l \in Hosts, NEW k \in Hosts, NEW a \in Nat,
           h # l, l # k, Service[l].instance = Service[h].instance,
           Service[k].instance = Service[l].instance,
           Beats(l, h, a), Beats(k, l, a)
    PROVE  Beats(k, h, a)
<1>1. SameNamed(Named(h, a), Named(l, a)) /\ SameNamed(Named(l, a), Named(k, a))
    BY KinAre
<1>2. Named(h, a) \in Configs /\ Named(l, a) \in Configs /\ Named(k, a) \in Configs
    BY NamedIs
<1> QED
    BY <1>1, <1>2, LosesIsTransitive DEF Beats

LEMMA BeatsOneWay ==
    ASSUME TillsApart, NEW h \in Hosts, NEW k \in Hosts, NEW a \in Nat, h # k,
           Service[k].instance = Service[h].instance, Beats(k, h, a)
    PROVE  ~Beats(h, k, a)
<1>1. SameNamed(Named(h, a), Named(k, a)) /\ Paired(Named(h, a), Named(k, a))
    BY KinAre, TillsArePaired DEF Named
<1> QED
    BY <1>1, TieBreakDecides DEF Beats, Paired

\* A prober that renames leaves its name to a till that got it or beats it.
LEMMA HeirExists ==
    ASSUME TillsApart, CountsOk, \A h \in Hosts : ContestOk(h), NEW j \in Hosts, phase[j] = "window",
           NEW m \in inbox[j], Clash(Ours(j), m)
    PROVE  \E k \in Hosts : Heir(k, j, renames[j] + 1)
<1> DEFINE a == renames[j] + 1
<1>1. a \in Nat /\ Ours(j) = Named(j, a) /\ renames[j] \in Nat
    BY DEF CountsOk, ContestOk, AttemptOk, Ours, Named
<1>2. PICK l \in Hosts \ {j} : SaidBy(m, l)
    BY DEF ContestOk, HeardOk
<1> HIDE DEF a
<1>3. /\ Service[l].instance = Service[j].instance
      /\ Keeps(l, a) \/ (Tried(l, a) /\ Beats(l, j, a))
    BY <1>1, <1>2, YieldsTo
<1>4. CASE Keeps(l, a) \/ Tries(l, a)
    <2>1. Heir(l, j, a)
        BY <1>3, <1>4 DEF Heir, Keeps, Tries
    <2> QED
        BY <2>1 DEF a
<1>5. CASE renames[l] >= a /\ Beats(l, j, a)
    <2>1. a \in 1..renames[l]
        BY <1>1, <1>5 DEF a, CountsOk
    <2>2. PICK k \in Hosts : Heir(k, l, a)
        BY <2>1 DEF ContestOk, YieldOk
    <2>3. k # j
        <3>1. SUFFICES ASSUME k = j PROVE FALSE
            OBVIOUS
        <3>2. ~Keeps(j, a)
            BY DEF Keeps
        <3>3. Beats(j, l, a)
            BY <2>2, <3>1, <3>2 DEF Heir
        <3> QED
            BY <1>1, <1>2, <1>3, <1>5, <3>3, BeatsOneWay
    <2>4. Keeps(k, a) \/ Beats(k, j, a)
        BY <1>1, <1>2, <1>3, <1>5, <2>2, BeatsIsTransitive DEF Heir
    <2>5. Heir(k, j, a)
        BY <1>3, <2>2, <2>3, <2>4 DEF Heir
    <2> QED
        BY <2>5 DEF a
<1> QED
    BY <1>3, <1>4, <1>5 DEF Tried

\* A prober that renames: who counted on it counts on its heir.
LEMMA YieldKeeps ==
    ASSUME TillsApart, CountsOk, \A h \in Hosts : ContestOk(h), NEW j \in Hosts, phase[j] = "window",
           NEW m \in inbox[j], Clash(Ours(j), m),
           renames' = [renames EXCEPT ![j] = @ + 1],
           \A k \in Hosts \ {j} : phase'[k] = phase[k] /\ attempt'[k] = attempt[k],
           phase'[j] = "ended" \/ attempt'[j] = attempt[j] + 1,
           \A k \in Hosts : inbox'[k] \subseteq inbox[k]
    PROVE  renames' \in [Hosts -> Nat] /\ \A h \in Hosts : ContestOk(h)'
<1> DEFINE n == renames[j] + 1
<1>1. /\ renames' \in [Hosts -> Nat] /\ renames[j] \in Nat /\ n \in Nat /\ renames'[j] = n
      /\ \A k \in Hosts \ {j} : renames'[k] = renames[k]
      /\ \A k \in Hosts : renames[k] \in Nat
    BY DEF CountsOk
<1>2. attempt[j] = n
    BY DEF ContestOk, AttemptOk
<1>3. PICK i \in Hosts : Heir(i, j, n)
    BY HeirExists
<1> HIDE DEF n
<1>4. ASSUME NEW k \in Hosts \ {j}, NEW a \in Nat
      PROVE  Tries(k, a)' = Tries(k, a) /\ Keeps(k, a)' = Keeps(k, a) /\ Tried(k, a)' = Tried(k, a)
    BY <1>1 DEF Tries, Keeps, Tried
<1>5. ASSUME NEW a \in Nat
      PROVE  /\ Tried(j, a) => Tried(j, a)'
             /\ ~Keeps(j, a)
             /\ Tries(j, a) => a = n
    <2>1. Tries(j, a) => a = n
        BY <1>1 DEF Tries, n
    <2>2. Tried(j, a) => Tried(j, a)'
        BY <1>1, <2>1 DEF Tried, n
    <2> QED
        BY <2>1, <2>2 DEF Keeps
<1>6. ASSUME NEW h \in Hosts
      PROVE  HeardOk(h)'
    <2>1. SUFFICES ASSUME NEW q \in inbox'[h]
                   PROVE  \E l \in Hosts \ {h} : SaidBy(q, l)'
        BY DEF HeardOk
    <2>2. PICK l \in Hosts \ {h} : SaidBy(q, l)
        BY DEF ContestOk, HeardOk
    <2>3. ASSUME NEW b \in Nat
          PROVE  (Tried(l, b) => Tried(l, b)') /\ (Keeps(l, b) => Keeps(l, b)')
        BY <1>4, <1>5
    <2>4. SaidBy(q, l)'
        BY <2>2, <2>3 DEF SaidBy, Named
    <2> QED
        BY <2>4
<1>7. ASSUME NEW h \in Hosts
      PROVE  AttemptOk(h)'
    BY <1>1, <1>2 DEF ContestOk, AttemptOk
<1>8. ASSUME NEW h \in Hosts, NEW k \in Hosts, k # j, NEW a \in Nat, Heir(k, h, a)
      PROVE  Heir(k, h, a)'
    BY <1>4, <1>8 DEF Heir, Beats, Named
<1>9. i # j
    BY <1>3 DEF Heir
<1>10. ASSUME NEW h \in Hosts
       PROVE  YieldOk(h)'
    <2>1. SUFFICES ASSUME NEW a \in 1..renames'[h]
                   PROVE  \E k \in Hosts : Heir(k, h, a)'
        BY DEF YieldOk
    <2>2. a \in Nat
        BY <1>1
    <2>3. CASE h = j /\ a = n
        BY <1>3, <1>8, <1>9, <2>2, <2>3
    <2>4. CASE ~(h = j /\ a = n)
        <3>1. a \in 1..renames[h]
            BY <1>1, <2>4 DEF n
        <3>2. PICK k \in Hosts : Heir(k, h, a)
            BY <3>1 DEF ContestOk, YieldOk
        <3>3. CASE k # j
            BY <1>8, <2>2, <3>2, <3>3
        <3>4. CASE k = j
            <4>1. a = n /\ Beats(j, h, n) /\ h # j /\ Service[j].instance = Service[h].instance
                BY <1>5, <2>2, <3>2, <3>4 DEF Heir
            <4>2. i # h
                BY <1>1, <1>3, <3>1, <4>1 DEF Heir, Tries
            <4>3. Keeps(i, n) \/ Beats(i, h, n)
                <5>1. CASE Beats(i, j, n)
                    BY <1>1, <1>3, <4>1, <5>1, BeatsIsTransitive DEF Heir
                <5> QED
                    BY <1>3, <5>1 DEF Heir
            <4>4. Heir(i, h, n)
                BY <1>3, <4>1, <4>2, <4>3 DEF Heir
            <4> QED
                BY <1>1, <1>8, <1>9, <4>1, <4>4
        <3> QED
            BY <3>3, <3>4
    <2> QED
        BY <2>3, <2>4
<1> QED
    BY <1>1, <1>6, <1>7, <1>10 DEF ContestOk

----------------------------------------------------------------------------
(* The steps.                                                              *)

\* What is heard after a datagram of till j.
LEMMA SpokenBy ==
    ASSUME TillsApart, TypesOk, NEW j \in Hosts, NEW rest, rest \subseteq inbox[j],
           NEW msgs, Deliver(j, rest, msgs), \A m \in msgs : SaidBy(m, j)'
    PROVE  \A k \in Hosts : \A m \in inbox'[k] : m \in inbox[k] \/ (k # j /\ SaidBy(m, j)')
<1>1. /\ inbox'[j] = rest
      /\ \A k \in Hosts \ {j} : inbox'[k] \subseteq inbox[k] \cup msgs
    BY Delivered DEF TillsApart
<1> QED
    BY <1>1

\* A till at work goes by the name its count of renames says.
LEMMA NameByCount ==
    ASSUME CountsOk, NEW j \in Hosts, ContestOk(j), phase[j] # "ended"
    PROVE  Ours(j) = Named(j, renames[j] + 1) /\ renames[j] + 1 \in Nat \ {0}
<1>1. renames[j] \in Nat
    BY DEF CountsOk
<1> QED
    BY <1>1 DEF ContestOk, AttemptOk, Ours, Named

\* What a till that holds its names says of them.
LEMMA HolderSays ==
    ASSUME TypesOk, CountsOk, NEW j \in Hosts, ContestOk(j), phase[j] # "ended",
           renames' = renames, phase'[j] \in {"claimed", "ended"}
    PROVE  /\ \A recs \in SUBSET Announcement(Ours(j)) : SaidBy(Response(recs), j)'
           /\ \A m \in {Response(GoodbyeRecords(Ours(j)))} : SaidBy(m, j)'
<1>1. PICK b \in Nat \ {0} : Ours(j) = Named(j, b) /\ renames[j] = b - 1
    BY NameByCount DEF CountsOk
<1>2. Keeps(j, b)'
    BY <1>1 DEF Keeps
<1>3. ASSUME NEW recs \in SUBSET Announcement(Ours(j))
      PROVE  SaidBy(Response(recs), j)'
    BY <1>1, <1>2 DEF SaidBy, Named
<1>4. ASSUME NEW m, m = Response(GoodbyeRecords(Ours(j)))
      PROVE  SaidBy(m, j)'
    BY <1>1, <1>4 DEF SaidBy, Named
<1> QED
    BY <1>3, <1>4

LEMMA CallerOnward ==
    ASSUME TypesOk, NEW j \in Hosts, Start(j) \/ Stop(j)
    PROVE  Onward(j)
<1>1. CASE Start(j)
    BY <1>1 DEF Start, engine, Onward, TypesOk
<1>2. CASE Stop(j)
    BY <1>2 DEF Stop, engine, Onward
<1> QED
    BY <1>1, <1>2

LEMMA OpenWindowOnward ==
    ASSUME TillsApart, TypesOk, CountsOk, NEW j \in Hosts, ContestOk(j), NEW n, OpenWindow(j, n),
           phase[j] \in {"asleep", "window"}
    PROVE  Onward(j)
<1>1. renames' = renames /\ attempt' = attempt
    BY DEF OpenWindow, engine
<1>2. CASE stopping[j]
    <2>1. phase' = [phase EXCEPT ![j] = "ended"] /\ inbox' = [inbox EXCEPT ![j] = {}]
        BY <1>2 DEF OpenWindow
    <2>2. \A k \in Hosts : inbox'[k] \subseteq inbox[k]
        BY <2>1 DEF TypesOk
    <2> QED
        BY <1>1, <2>1, <2>2 DEF Onward, TypesOk
<1>3. CASE ~stopping[j]
    <2> DEFINE msgs == {Probe(Ours(j))}
    <2>1. phase' = [phase EXCEPT ![j] = "window"] /\ Deliver(j, inbox[j], msgs)
        BY <1>3 DEF OpenWindow
    <2>2. phase'[j] = "window"
        BY <2>1 DEF TypesOk
    <2>3. Ours(j) = Named(j, renames[j] + 1) /\ renames[j] + 1 \in Nat \ {0} /\ renames[j] \in Nat
        BY NameByCount DEF CountsOk
    <2>4. Tried(j, renames[j] + 1)'
        BY <1>1, <2>2, <2>3 DEF Tried, Tries
    <2>5. \A m \in msgs : SaidBy(m, j)'
        BY <1>1, <2>3, <2>4 DEF SaidBy, Named
    <2> HIDE DEF msgs
    <2>6. \A k \in Hosts : \A m \in inbox'[k] : m \in inbox[k] \/ (k # j /\ SaidBy(m, j)')
        BY <2>1, <2>5, SpokenBy
    <2> QED
        BY <1>1, <2>1, <2>2, <2>6 DEF Onward, TypesOk
<1> QED
    BY <1>2, <1>3

LEMMA ClaimOnward ==
    ASSUME TillsApart, TypesOk, CountsOk, NEW j \in Hosts, ContestOk(j), Claim(j)
    PROVE  Onward(j)
<1>1. /\ phase[j] = "window" /\ phase' = [phase EXCEPT ![j] = "claimed"]
      /\ renames' = renames /\ attempt' = attempt
    BY DEF Claim, WindowOver, ClaimAndAnnounce
<1>2. phase'[j] = "claimed" /\ \A k \in Hosts \ {j} : phase'[k] = phase[k]
    BY <1>1 DEF TypesOk
<1>3. \A k \in Hosts : \A m \in inbox'[k] : m \in inbox[k] \/ (k # j /\ SaidBy(m, j)')
    <2> DEFINE msgs == {Response(Announcement(Ours(j)))}
    <2>1. inbox' = inbox \/ Deliver(j, inbox[j], msgs)
        BY DEF Claim, ClaimAndAnnounce
    <2>2. \A m \in msgs : SaidBy(m, j)'
        BY <1>1, <1>2, HolderSays
    <2> HIDE DEF msgs
    <2> QED
        BY <2>1, <2>2, SpokenBy
<1> QED
    BY <1>1, <1>2, <1>3 DEF Onward

LEMMA AnnounceOnward ==
    ASSUME TillsApart, TypesOk, CountsOk, NEW j \in Hosts, ContestOk(j), Announce(j)
    PROVE  Onward(j)
<1> DEFINE msgs == {Response(Announcement(Ours(j)))}
<1>1. /\ phase[j] = "claimed" /\ phase' = phase /\ renames' = renames /\ attempt' = attempt
      /\ Deliver(j, inbox[j], msgs)
    BY DEF Announce, engine
<1>2. \A m \in msgs : SaidBy(m, j)'
    BY <1>1, HolderSays
<1> HIDE DEF msgs
<1>3. \A k \in Hosts : \A m \in inbox'[k] : m \in inbox[k] \/ (k # j /\ SaidBy(m, j)')
    BY <1>1, <1>2, SpokenBy
<1> QED
    BY <1>1, <1>3 DEF Onward

LEMMA LeaveOnward ==
    ASSUME TillsApart, TypesOk, CountsOk, NEW j \in Hosts, ContestOk(j), Leave(j)
    PROVE  Onward(j)
<1> DEFINE msgs == {Response(GoodbyeRecords(Ours(j)))}
<1>1. /\ phase[j] = "claimed" /\ phase' = [phase EXCEPT ![j] = "ended"]
      /\ renames' = renames /\ attempt' = attempt /\ Deliver(j, {}, msgs)
    BY DEF Leave, engine
<1>2. phase'[j] = "ended" /\ \A k \in Hosts \ {j} : phase'[k] = phase[k]
    BY <1>1 DEF TypesOk
<1>3. \A m \in msgs : SaidBy(m, j)'
    BY <1>1, <1>2, HolderSays
<1> HIDE DEF msgs
<1>4. \A k \in Hosts : \A m \in inbox'[k] : m \in inbox[k] \/ (k # j /\ SaidBy(m, j)')
    BY <1>1, <1>3, SpokenBy
<1> QED
    BY <1>1, <1>2, <1>4 DEF Onward

\* A holder is not talked out of its names, for nothing was lost.
LEMMA HandleOnward ==
    ASSUME TillsApart, TypesOk, CountsOk, NEW j \in Hosts, ContestOk(j), CalmOk(j), lost = 0,
           Handle(j)
    PROVE  Onward(j)
<1>1. Holding(j) /\ phase[j] = "claimed" /\ phase' = phase /\ renames' = renames
    BY DEF Handle, Holding
<1>2. PICK q \in inbox[j] :
        IF q.kind = "probe"
        THEN /\ Deliver(j, inbox[j] \ {q}, IF Defence(j, q.recs) = {} THEN {} ELSE {Response(Defence(j, q.recs))})
             /\ UNCHANGED <<attempt, published>>
        ELSE IF Conflict(j, q)
        THEN /\ attempt' = [attempt EXCEPT ![j] = @ + 1]
             /\ Deliver(j, inbox[j] \ {q}, {Response(Announcement(Renamed(Ours(j))))})
        ELSE Deliver(j, inbox[j] \ {q}, {}) /\ UNCHANGED <<attempt, published>>
    BY Zenon DEF Handle
<1>3. q.kind # "probe" => ~Conflict(j, q)
    BY <1>1, ConflictIs, ResponderAssumption DEF CalmOk, Told
<1>4. PICK msgs \in SUBSET {Response(Defence(j, q.recs))} :
          attempt' = attempt /\ Deliver(j, inbox[j] \ {q}, msgs)
    <2>1. CASE q.kind = "probe"
        <3>1. (IF Defence(j, q.recs) = {} THEN {} ELSE {Response(Defence(j, q.recs))})
                  \in SUBSET {Response(Defence(j, q.recs))}
            OBVIOUS
        <3> QED
            BY <1>2, <2>1, <3>1
    <2>2. CASE q.kind # "probe"
        BY <1>2, <1>3, <2>2
    <2> QED
        BY <2>1, <2>2
<1>5. Ours(j) \in Configs
    <2>1. Ours(j) = Named(j, renames[j] + 1) /\ renames[j] + 1 \in Nat
        BY <1>1, NameByCount
    <2> QED
        BY <2>1, NamedIs
<1>6. Defence(j, q.recs) \in SUBSET Announcement(Ours(j))
    BY <1>5, DefenceIs
<1>7. \A m \in msgs : SaidBy(m, j)'
    BY <1>1, <1>6, HolderSays
<1>8. inbox[j] \ {q} \subseteq inbox[j]
    OBVIOUS
<1>9. \A k \in Hosts : \A m \in inbox'[k] : m \in inbox[k] \/ (k # j /\ SaidBy(m, j)')
    BY <1>4, <1>7, <1>8, SpokenBy
<1> QED
    BY <1>1, <1>4, <1>9 DEF Onward

LEMMA ReadContest ==
    ASSUME TillsApart, TypesOk, CountsOk, \A h \in Hosts : ContestOk(h), NEW j \in Hosts, ReadInWindow(j)
    PROVE  renames' \in [Hosts -> Nat] /\ \A h \in Hosts : ContestOk(h)'
<1>1. phase[j] = "window"
    BY DEF ReadInWindow
<1>2. PICK m \in inbox[j] :
        IF ~Conflict(j, m)
        THEN /\ inbox' = [inbox EXCEPT ![j] = @ \ {m}]
             /\ UNCHANGED <<engine, phase, earlier>>
        ELSE /\ earlier' = Others(j)
             /\ renames' = [renames EXCEPT ![j] = @ + 1]
             /\ IF renames[j] = MaxRenames
                THEN /\ phase' = [phase EXCEPT ![j] = "ended"]
                     /\ inbox' = [inbox EXCEPT ![j] = {}]
                     /\ UNCHANGED <<attempt, published>>
                ELSE /\ phase' = [phase EXCEPT ![j] = "asleep"]
                     /\ inbox' = [inbox EXCEPT ![j] = @ \ {m}]
                     /\ Rename(j)
    BY DEF ReadInWindow
<1>3. CASE ~Conflict(j, m)
    <2>1. inbox' = [inbox EXCEPT ![j] = @ \ {m}] /\ phase' = phase /\ renames' = renames /\ attempt' = attempt
        BY <1>2, <1>3 DEF engine
    <2>2. \A k \in Hosts : inbox'[k] \subseteq inbox[k]
        BY <2>1 DEF TypesOk
    <2>3. Onward(j)
        BY <2>1, <2>2 DEF Onward
    <2> QED
        BY <2>3, OnwardKeeps
<1>4. CASE Conflict(j, m)
    <2>1. renames' = [renames EXCEPT ![j] = @ + 1] /\ Clash(Ours(j), m)
        BY <1>2, <1>4, ConflictIs
    <2>2. /\ phase' = [phase EXCEPT ![j] = "ended"] /\ inbox' = [inbox EXCEPT ![j] = {}] /\ attempt' = attempt
          \/ /\ phase' = [phase EXCEPT ![j] = "asleep"] /\ inbox' = [inbox EXCEPT ![j] = @ \ {m}]
             /\ attempt' = [attempt EXCEPT ![j] = @ + 1]
        BY <1>2, <1>4 DEF Rename
    <2>3. /\ \A k \in Hosts \ {j} : phase'[k] = phase[k] /\ attempt'[k] = attempt[k]
          /\ phase'[j] = "ended" \/ attempt'[j] = attempt[j] + 1
          /\ \A k \in Hosts : inbox'[k] \subseteq inbox[k]
        BY <2>2 DEF TypesOk
    <2> QED
        BY <1>1, <2>1, <2>3, YieldKeeps
<1> QED
    BY <1>3, <1>4

\* What is lost stays lost, and counts stay counts.
LEMMA LossesCount ==
    ASSUME TillsApart, TypesOk, CountsOk, Next
    PROVE  /\ lost \in Nat /\ lost' >= lost /\ renames' \in [Hosts -> Nat] /\ crashes' \in Nat
           /\ crashes' = 0 => \E j \in Hosts : (Engine(j) \/ Caller(j)) /\ crashes = 0
<1>1. PICK j \in Hosts : Engine(j) \/ Caller(j) \/ Crash(j)
    BY DEF Next
<1>2. lost \in Nat /\ \A rest, msgs : Deliver(j, rest, msgs) => lost' >= lost
    BY Delivered DEF TypesOk, TillsApart
<1>3. CASE Crash(j)
    BY <1>2, <1>3 DEF Crash, CountsOk
<1>4. CASE Caller(j)
    <2>1. renames' = renames /\ crashes' = crashes /\ lost' = lost
        BY <1>4 DEF Caller, Start, Stop, engine
    <2> QED
        BY <1>2, <1>4, <2>1 DEF CountsOk
<1>5. CASE Engine(j)
    <2>1. crashes' = crashes
        BY <1>5 DEF Engine
    <2>2. CASE ReadInWindow(j)
        <3>1. lost' = lost /\ (renames' = renames \/ renames' = [renames EXCEPT ![j] = @ + 1])
            BY <2>2 DEF ReadInWindow, engine
        <3> QED
            BY <1>2, <1>5, <2>1, <3>1 DEF CountsOk
    <2>3. CASE Wake(j) \/ NextProbe(j) \/ Claim(j)
        <3>1. renames' = renames /\ lost' >= lost
            BY <1>2, <2>3 DEF Wake, NextProbe, Claim, OpenWindow, ClaimAndAnnounce, engine
        <3> QED
            BY <1>2, <1>5, <2>1, <3>1 DEF CountsOk
    <2>4. CASE Announce(j) \/ Leave(j)
        <3>1. renames' = renames /\ lost' >= lost
            BY <1>2, <2>4 DEF Announce, Leave, engine
        <3> QED
            BY <1>2, <1>5, <2>1, <3>1 DEF CountsOk
    <2>5. CASE Handle(j)
        <3>1. renames' = renames
            BY <2>5 DEF Handle
        <3>2. \E rest, msgs : Deliver(j, rest, msgs)
            BY <2>5, Zenon DEF Handle
        <3> QED
            BY <1>2, <1>5, <2>1, <3>1, <3>2 DEF CountsOk
    <2> QED
        BY <1>5, <2>2, <2>3, <2>4, <2>5 DEF Engine
<1> QED
    BY <1>1, <1>3, <1>4, <1>5

LEMMA ContestNext ==
    ASSUME TillsApart, IInv, CInv, Next
    PROVE  CInv'
<1>1. TypesOk /\ CountsOk /\ lost' \in Nat
    BY InvNext DEF IInv, CInv, TypesOk
<1>2. /\ lost \in Nat /\ lost' >= lost /\ renames' \in [Hosts -> Nat] /\ crashes' \in Nat
      /\ crashes' = 0 => \E j \in Hosts : (Engine(j) \/ Caller(j)) /\ crashes = 0
    BY <1>1, LossesCount
<1>3. SUFFICES ASSUME Quiet'
               PROVE  \A h \in Hosts : ContestOk(h)'
    BY <1>2 DEF CInv, CountsOk
<1>4. lost = 0 /\ crashes = 0 /\ \A h \in Hosts : ContestOk(h)
    BY <1>1, <1>2, <1>3 DEF Quiet, CInv
<1>5. PICK j \in Hosts : Engine(j) \/ Caller(j)
    BY <1>2, <1>3 DEF Quiet
<1>6. CASE ReadInWindow(j)
    BY <1>1, <1>4, <1>6, ReadContest
<1>7. CASE ~ReadInWindow(j)
    <2>1. Onward(j)
        <3>1. CASE Caller(j)
            BY <1>1, <3>1, CallerOnward DEF Caller
        <3>2. CASE Wake(j)
            <4>1. OpenWindow(j, 1) /\ phase[j] = "asleep"
                BY <3>2 DEF Wake, TillsApart
            <4> QED
                BY <1>1, <1>4, <4>1, OpenWindowOnward
        <3>3. CASE NextProbe(j)
            <4>1. OpenWindow(j, round[j] + 1) /\ phase[j] = "window"
                BY <3>3 DEF NextProbe, WindowOver
            <4> QED
                BY <1>1, <1>4, <4>1, OpenWindowOnward
        <3>4. CASE Claim(j)
            BY <1>1, <1>4, <3>4, ClaimOnward
        <3>5. CASE Announce(j)
            BY <1>1, <1>4, <3>5, AnnounceOnward
        <3>6. CASE Handle(j)
            BY <1>1, <1>4, <3>6, HandleOnward DEF IInv, TillOk
        <3>7. CASE Leave(j)
            BY <1>1, <1>4, <3>7, LeaveOnward
        <3> QED
            BY <1>5, <1>7, <3>1, <3>2, <3>3, <3>4, <3>5, <3>6, <3>7 DEF Engine
    <2> QED
        BY <1>1, <1>4, <2>1, OnwardKeeps
<1> QED
    BY <1>6, <1>7

LEMMA ContestStutter ==
    ASSUME CInv, UNCHANGED vars
    PROVE  CInv'
<1>1. CountsOk /\ CountsOk' /\ Quiet' = Quiet
    BY DEF CInv, CountsOk, Quiet, vars
<1>2. ASSUME NEW j \in Hosts
      PROVE  Onward(j)
    BY DEF Onward, vars
<1>3. ASSUME Quiet, NEW h \in Hosts
      PROVE  ContestOk(h)'
    BY <1>1, <1>2, <1>3, OnwardKeeps DEF CInv
<1> QED
    BY <1>1, <1>3 DEF CInv

----------------------------------------------------------------------------
(* The bound.                                                              *)

\* A till that renamed n times left n names to tills that renamed 0, 1, ...,
\* n - 1 times: n others.
LEMMA HeirsAreMany ==
    ASSUME TillsApart, CountsOk, NEW h \in Hosts, YieldOk(h)
    PROVE  renames[h] < Cardinality(Hosts)
<1> DEFINE n == renames[h]
           Heirs == {k \in Hosts \ {h} : renames[k] < n}
           f == [k \in Heirs |-> renames[k] + 1]
<1>1. n \in Nat /\ \A k \in Hosts : renames[k] \in Nat
    BY DEF CountsOk
<1>2. IsFiniteSet(Hosts \ {h}) /\ Cardinality(Hosts \ {h}) = Cardinality(Hosts) - 1
    BY FS_RemoveElement DEF TillsApart
<1>3. IsFiniteSet(Heirs) /\ Cardinality(Heirs) <= Cardinality(Hosts \ {h})
    BY <1>2, FS_Subset
<1>4. f \in Surjection(Heirs, 1..n)
    <2>1. f \in [Heirs -> 1..n]
        BY <1>1
    <2>2. ASSUME NEW a \in 1..n
          PROVE  \E k \in Heirs : f[k] = a
        <3>1. PICK k \in Hosts : Heir(k, h, a)
            BY DEF YieldOk
        <3>2. k # h /\ renames[k] = a - 1
            BY <3>1 DEF Heir, Tries
        <3> QED
            BY <1>1, <3>2
    <2> QED
        BY <2>1, <2>2 DEF Surjection
<1> HIDE DEF n, Heirs, f
<1>5. Cardinality(1..n) <= Cardinality(Heirs)
    BY <1>3, <1>4, FS_Surjection
<1>6. Cardinality(1..n) = n
    BY <1>1, FS_Interval
<1>7. Cardinality(Hosts) \in Nat /\ Cardinality(Heirs) \in Nat
    BY <1>3, FS_CardinalityType DEF TillsApart
<1> QED
    BY <1>1, <1>2, <1>3, <1>5, <1>6, <1>7 DEF n

\* While nothing is lost, a contest of n tills for a name has one winner in
\* every tie-break and costs nobody more than n - 1 renames (records.rs,
\* tie_break; responder.rs, rename).
THEOREM ContestsAreFair ==
    ASSUME TillsApart
    PROVE  Spec => []ContestIsFair
<1>1. Init => CInv
    BY ContestInit
<1>2. IInv /\ CInv /\ [Next]_vars => CInv'
    BY ContestNext, ContestStutter
<1>3. CInv => ContestIsShort
    <2>1. SUFFICES ASSUME CInv, Quiet, NEW h \in Hosts
                   PROVE  renames[h] < Cardinality(Hosts)
        BY DEF ContestIsShort, Quiet
    <2> QED
        BY <2>1, HeirsAreMany DEF CInv, ContestOk
<1> QED
    BY <1>1, <1>2, <1>3, InvHolds, OneProberWinsAlways, PTL DEF Spec, ContestIsFair
=============================================================================
