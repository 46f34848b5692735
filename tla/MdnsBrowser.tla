---------------------------- MODULE MdnsBrowser ----------------------------
(***************************************************************************)
(* A browser of package rk_mdns (browser.rs, cache.rs) and the tills it    *)
(* lists: tills start, move to another address, stop with a goodbye or     *)
(* lose power; the browser keeps a cache of records with lifetimes,        *)
(* queries at doubling intervals with its known answers, and reports       *)
(* services found, resolved and lost.                                      *)
(*                                                                         *)
(* A tick is a second, long against a round trip and the 100 ms of the     *)
(* loops: what is due or has arrived is handled before the next one, in    *)
(* any order.  Lifetimes count the ticks left.  Datagrams of one tick may  *)
(* overtake each other, those of a till that stops and starts again too:   *)
(* the goodbye may be read after the new announcement.                     *)
(***************************************************************************)
EXTENDS Integers, FiniteSets, FiniteSetsExt, MdnsRecords

CONSTANTS
    Tills,         \* numbers: the base of both labels
    Places,        \* addresses a till may have, records' <<type, k>>
    HostTtl, ServiceTtl, \* the lifetimes announced
    Grace,         \* GOODBYE_GRACE
    FirstInterval, MaxInterval, \* FIRST_INTERVAL, MAX_INTERVAL
    Announcements, \* ANNOUNCE_COUNT
    AnnounceInterval, \* ANNOUNCE_INTERVAL
    MaxStarts,     \* bound: starts of tills
    MaxLost        \* bound: datagrams that do not reach the browser

\* Of the constants.
BrowserAssumption ==
    /\ Tills \subseteq Nat /\ HostTtl \in Nat \ {0} /\ ServiceTtl \in Nat \ {0}
    /\ Grace \in Nat \ {0} /\ FirstInterval \in Nat \ {0} /\ MaxInterval \in Nat \ {0}
    /\ Announcements \in Nat \ {0} /\ AnnounceInterval \in Nat \ {0} /\ MaxStarts \in Nat /\ MaxLost \in Nat

Nowhere == <<0, 0>>
NoDetails == [port |-> 0, addresses |-> {}, txt |-> {}]
Unknown == [found |-> FALSE, resolved |-> NoDetails]

VARIABLES
    till,     \* each till: its address, Nowhere when it is off; announcements left
              \* and the ticks to the next
    inbox,    \* datagrams on their way to the browser
    cache,    \* entries [rec, life]
    known,    \* what was said of each instance
    due, interval, \* ticks to the next query; the interval after it
    count     \* starts and losses so far

vars == <<till, inbox, cache, known, due, interval, count>>

\* What till t announces from a place: each place has a port of its own.
ServiceAt(t, at) ==
    [instance |-> t, host |-> t, attempt |-> 1, port |-> 443 + at[2], txt |-> 0,
     addresses |-> {at}, hostTtl |-> HostTtl, serviceTtl |-> ServiceTtl]
Service(t) == ServiceAt(t, till[t].at)
Up(t) == till[t].at # Nowhere

Off == [at |-> Nowhere, left |-> 0, wait |-> 0]

Init ==
    /\ till = [t \in Tills |-> Off]
    /\ inbox = {} /\ cache = {}
    /\ known = [t \in Tills |-> Unknown]
    /\ due = 0 /\ interval = FirstInterval
    /\ count = [starts |-> 0, lost |-> 0]

Expired(c) == {e \in c : e.life = 0}

\* The datagrams msgs are sent; some do not arrive.
Arrive(msgs, starts) ==
    \E missed \in SUBSET msgs :
        /\ count.lost + Cardinality(missed) <= MaxLost
        /\ inbox' = inbox \cup (msgs \ missed)
        /\ count' = [starts |-> count.starts + starts, lost |-> count.lost + Cardinality(missed)]

----------------------------------------------------------------------------
(* The tills: what MdnsResponder does after probing.                       *)

\* A till claims its name at an address and announces at once.
Start(t, at) ==
    /\ ~Up(t) /\ count.starts < MaxStarts
    /\ till' = [till EXCEPT ![t] =
         [at |-> at, left |-> Announcements - 1, wait |-> AnnounceInterval]]
    /\ Arrive({Announcement(ServiceAt(t, at))}, 1)
    /\ UNCHANGED <<cache, known, due, interval>>

ToAnnounce(t) == Up(t) /\ till[t].left > 0 /\ till[t].wait = 0
AnnounceAgain(t) ==
    /\ ToAnnounce(t)
    /\ till' = [till EXCEPT ![t].left = @ - 1, ![t].wait = AnnounceInterval]
    /\ Arrive({Announcement(Service(t))}, 0)
    /\ UNCHANGED <<cache, known, due, interval>>

Stop(t) ==
    /\ Up(t)
    /\ till' = [till EXCEPT ![t] = Off]
    /\ Arrive({GoodbyeRecords(Service(t))}, 0)
    /\ UNCHANGED <<cache, known, due, interval>>

LosePower(t) ==
    /\ Up(t)
    /\ till' = [till EXCEPT ![t] = Off]
    /\ UNCHANGED <<inbox, cache, known, due, interval, count>>

----------------------------------------------------------------------------
(* The cache.                                                              *)

\* A goodbye puts an entry on its last second.
Retire(e, recs) ==
    [e EXCEPT !.life = IF \E r \in recs : r.ttl = 0 /\ SameAnswer(r, e.rec) /\ Grace < @
                       THEN Grace ELSE @]

\* A flushing record, addresses excepted, replaces what is held under its
\* name and type, unless it is held already.
Held(c, r) == \E e \in c : SameAnswer(e.rec, r)
\* Mutant: a record joins what is held under its name.
FlushedNever(c, recs, e) == FALSE
Flushed(c, recs, e) ==
    \E r \in recs :
        /\ r.ttl # 0 /\ r.flush /\ r.type \notin {A, AAAA} /\ ~Held(c, r)
        /\ e.rec.name = r.name /\ e.rec.type = r.type

\* All records of a message; none of them flushes another of it.
Put(c, recs) ==
    LET added == {r \in recs : r.ttl # 0}
        others == {e \in c : ~\E r \in added : SameAnswer(r, e.rec)}
    IN {[rec |-> r, life |-> r.ttl] : r \in added}
       \cup {Retire(e, recs) : e \in {o \in others : ~Flushed(c, recs, o)}}

Records(c, name, type) == {e.rec : e \in {x \in c : x.rec.name = name /\ x.rec.type = type}}

\* Mutant: known answers carry the lifetime they were announced with.
KnownAnswersWhole(c) ==
    {e.rec : e \in {x \in c : x.rec.name = TypeName /\ x.rec.type = PTR /\ x.life > 0}}
KnownAnswers(c) ==
    {[e.rec EXCEPT !.ttl = e.life] :
        e \in {x \in c : x.rec.name = TypeName /\ x.rec.type = PTR /\ x.life > 0}}

----------------------------------------------------------------------------
(* The browser.                                                            *)

Named(c) == {t \in Tills : Ptr(Service(t)).data \in {r.data : r \in Records(c, TypeName, PTR)}}
Instance(t) == InstanceName(Service(t))

NeedingDetail(c) ==
    {t \in Named(c) : Records(c, Instance(t), SRV) = {} \/ Records(c, Instance(t), TXT) = {}}

Questions(c) ==
    {[name |-> TypeName, type |-> PTR]}
    \cup {[name |-> Instance(t), type |-> y] : t \in NeedingDetail(c), y \in {SRV, TXT}}

\* Every till that is up answers the questions about it.
Query ==
    /\ due = 0
    /\ due' = interval
    /\ interval' = Min({2 * interval, MaxInterval})
    /\ LET reply(t) == UNION {Answer(Service(t), q, KnownAnswers(cache)) : q \in Questions(cache)}
       IN Arrive({reply(t) : t \in {u \in Tills : Up(u)}} \ {{}}, 0)
    /\ UNCHANGED <<till, cache, known>>

Details(c, t) ==
    LET srv == Records(c, Instance(t), SRV)
        target == {<<"host", r.data[3], r.data[2]>> : r \in srv}
        addresses == {<<e.rec.type, e.rec.data[1]>> :
                        e \in {x \in c : x.rec.name \in target /\ x.rec.type \in {A, AAAA}}}
    IN IF addresses = {} THEN NoDetails
       ELSE [port |-> (CHOOSE r \in srv : TRUE).data[1], addresses |-> addresses,
             txt |-> {r.data : r \in Records(c, Instance(t), TXT)}]

\* Mutant: what was resolved once is not looked at again.
ReportOnce(c, k) ==
    [t \in Tills |->
        IF t \notin Named(c) THEN k[t]
        ELSE [found |-> TRUE,
              resolved |-> IF k[t].resolved = NoDetails THEN Details(c, t) ELSE k[t].resolved]]

\* What is found and what is resolved, if it is news.
Report(c, k) ==
    [t \in Tills |->
        IF t \notin Named(c) THEN k[t]
        ELSE [found |-> TRUE,
              resolved |-> IF Details(c, t) = NoDetails THEN k[t].resolved ELSE Details(c, t)]]

Absorb ==
    \E m \in inbox :
        /\ inbox' = inbox \ {m}
        /\ cache' = Put(cache, m)
        /\ known' = Report(Put(cache, m), known)
        /\ UNCHANGED <<till, due, interval, count>>

\* What has run out is dropped; a service whose PTR went is reported lost.
\* Mutant: what has run out is dropped in silence.
ExpireSilently ==
    /\ Expired(cache) # {}
    /\ cache' = cache \ Expired(cache)
    /\ UNCHANGED <<till, inbox, known, due, interval, count>>

Expire ==
    /\ Expired(cache) # {}
    /\ cache' = cache \ Expired(cache)
    /\ known' = [t \in Tills |->
         IF t \in Named(Expired(cache)) THEN Unknown ELSE known[t]]
    /\ UNCHANGED <<till, inbox, due, interval, count>>

Tick ==
    /\ inbox = {} /\ due > 0 /\ Expired(cache) = {} /\ \A t \in Tills : ~ToAnnounce(t)
    /\ due' = due - 1
    /\ till' = [t \in Tills |-> [till[t] EXCEPT !.wait = IF @ = 0 THEN 0 ELSE @ - 1]]
    /\ cache' = {[e EXCEPT !.life = @ - 1] : e \in cache}
    /\ UNCHANGED <<inbox, known, interval, count>>

Browse == Query \/ Absorb \/ Expire \/ Tick
Next ==
    \/ Browse
    \/ \E t \in Tills :
         AnnounceAgain(t) \/ Stop(t) \/ LosePower(t) \/ \E at \in Places : Start(t, at)

Spec == Init /\ [][Next]_vars

\* The browser's loop runs and time passes; a till that is up announces.
FairSpec == Spec /\ WF_vars(Browse) /\ \A t \in Tills : WF_vars(AnnounceAgain(t))

----------------------------------------------------------------------------
(* Properties.                                                             *)

TypeOK ==
    /\ till \in [Tills -> [at : Places \cup {Nowhere}, left : 0..Announcements,
                        wait : 0..AnnounceInterval]]
    /\ \A e \in cache : e.life \in 0..e.rec.ttl
    /\ \A t \in Tills : Cardinality(Records(cache, Instance(t), SRV)) <= 1
    /\ due \in 0..MaxInterval /\ interval \in 1..MaxInterval
    /\ count \in [starts : 0..MaxStarts, lost : 0..MaxLost]

Listed(t) == known[t].found
Current(t) ==
    /\ Listed(t) /\ known[t].resolved.addresses = {till[t].at}
    /\ known[t].resolved.port = Service(t).port

\* A till that is up and has made its announcements is not reported lost as
\* long as the segment loses fewer than two datagrams.  Known answers carry
\* the lifetime that is left, so a responder speaks up in time (cache.rs,
\* known_answers), and a goodbye of its earlier run that was read after an
\* announcement is made up for by the ones that follow (GOODBYE_GRACE).
LostOnlyWhenGone ==
    [][\A t \in Tills : Listed(t) /\ ~Listed(t)' =>
            ~Up(t) \/ till[t].left > 0 \/ count.lost > 1]_vars

\* What the comment on GOODBYE_GRACE says: a goodbye that crosses with a new
\* announcement does not drop what was announced (cache.rs:18-21).  Here
\* everything sent was read.
NewIsNotDropped ==
    [][\A t \in Tills : Listed(t) /\ ~Listed(t)' =>
            ~Up(t) \/ inbox # {} \/ count.lost > 0]_vars

\* A till that stays up ends up listed where it is.
LiveIsListed == \A t \in Tills : <>[]Up(t) => <>[]Current(t)

\* A till that stays away ends up reported lost, goodbye or none.
GoneIsLost == \A t \in Tills : <>[]~Up(t) => <>[]~Listed(t)

\* An address reported for a till that announced a new one is that address
\* (cache.rs:99-102: without the flush a host that moved is cached at both).
MovedIsNotAtBoth ==
    \A t \in Tills : Up(t) /\ till[t].at \in known[t].resolved.addresses => Current(t)
============================================================================
