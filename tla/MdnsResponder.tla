--------------------------- MODULE MdnsResponder ---------------------------
(***************************************************************************)
(* Responders of package rk_mdns on one segment (responder.rs): each       *)
(* probes for its names, renames on a conflict, announces, defends what it *)
(* holds and says goodbye.  A datagram goes to every other open host and   *)
(* each copy may be lost.                                                  *)
(*                                                                         *)
(* Time: a window of 250 ms is longer than a round trip on the segment, so *)
(* it closes only when the datagrams that reached the prober are read and  *)
(* the hosts holding a name have read its probe; windows being equally     *)
(* long, they close in the order they opened.  The unicast copy of a       *)
(* defence may go to another process bound to the port and is not counted  *)
(* on.  A host does not hear its own datagrams: same_answer and an equal   *)
(* tie-break make them no conflict.                                        *)
(***************************************************************************)
EXTENDS Integers, FiniteSets, MdnsRecords

CONSTANTS
    Hosts,
    Service,       \* the configuration of each host, a record of MdnsRecords
    Unprobed,      \* hosts configured with probe = false
    ProbeCount,    \* PROBE_COUNT
    AnnounceCount, \* ANNOUNCE_COUNT
    MaxRenames,    \* MAX_RENAMES, 20 in the code
    MaxLost,       \* bound: copies the segment loses
    MaxStops,      \* bound: stops
    MaxCrashes,    \* bound: tills that lose power
    MaxAttempt     \* bound: renames after claiming stop here

ASSUME ResponderAssumption ==
    /\ Unprobed \subseteq Hosts
    /\ ProbeCount \in Nat \ {0} /\ AnnounceCount \in Nat
    /\ MaxRenames \in Nat /\ MaxLost \in Nat /\ MaxStops \in Nat
    /\ MaxCrashes \in Nat /\ MaxAttempt \in Nat

VARIABLES
    phase,     \* down, asleep, window, claimed, ended
    attempt,   \* which try at the names, from 1
    round,     \* the probe of the window that is open
    earlier,   \* pairs of hosts with open windows, the one opened first in front
    renames,   \* renames counted against MaxRenames
    left,      \* announcements left
    inbox,     \* datagrams not yet read
    stopping,  \* the stop flag
    published, \* ResponderState: what state() tells
    lost,      \* copies lost so far
    crashes    \* losses of power so far

vars == <<phase, attempt, round, earlier, renames, left, inbox, stopping, published, lost, crashes>>
engine == <<attempt, renames, published>>

Ours(h) == LabelForAttempt(Service[h], attempt[h])
Open(h) == phase[h] \notin {"down", "ended"}

Probe(s) == [kind |-> "probe", recs |-> Claimed(s)]
Response(recs) == [kind |-> "response", recs |-> recs]

Init ==
    /\ phase = [h \in Hosts |-> "down"]
    /\ attempt = [h \in Hosts |-> 1]
    /\ round = [h \in Hosts |-> 0]
    /\ earlier = {}
    /\ renames = [h \in Hosts |-> 0]
    /\ left = [h \in Hosts |-> AnnounceCount]
    /\ inbox = [h \in Hosts |-> {}]
    /\ stopping = [h \in Hosts |-> FALSE]
    /\ published = [h \in Hosts |-> [n |-> 1, claimed |-> FALSE]]
    /\ lost = 0 /\ crashes = 0

\* What is left of h's own inbox, and one copy of msg for every host it
\* reaches.
Deliver(h, rest, msgs) ==
    \E missed \in SUBSET {k \in Hosts \ {h} : Open(k) /\ msgs # {}} :
        /\ lost + Cardinality(missed) <= MaxLost
        /\ lost' = lost + Cardinality(missed)
        /\ inbox' = [k \in Hosts |->
             IF k = h THEN rest
             ELSE IF Open(k) /\ k \notin missed THEN inbox[k] \cup msgs ELSE inbox[k]]

\* Opens the sockets on the caller's thread; the rest is the engine's.
Start(h) ==
    /\ phase[h] = "down"
    /\ phase' = [phase EXCEPT ![h] = "asleep"]
    /\ UNCHANGED <<engine, round, earlier, left, inbox, stopping, lost>>

Stop(h) ==
    /\ Open(h) /\ ~stopping[h]
    /\ Cardinality({k \in Hosts : stopping[k]}) < MaxStops
    /\ stopping' = [stopping EXCEPT ![h] = TRUE]
    /\ UNCHANGED <<engine, phase, round, earlier, left, inbox, lost>>

Others(h) == {pair \in earlier : h \notin {pair[1], pair[2]}}

\* The till loses power, says nothing, and may be started again.
Crash(h) ==
    /\ Open(h) /\ crashes < MaxCrashes
    /\ crashes' = crashes + 1
    /\ phase' = [phase EXCEPT ![h] = "down"]
    /\ attempt' = [attempt EXCEPT ![h] = 1]
    /\ round' = [round EXCEPT ![h] = 0]
    /\ renames' = [renames EXCEPT ![h] = 0]
    /\ left' = [left EXCEPT ![h] = AnnounceCount]
    /\ inbox' = [inbox EXCEPT ![h] = {}]
    /\ stopping' = [stopping EXCEPT ![h] = FALSE]
    /\ published' = [published EXCEPT ![h] = [n |-> 1, claimed |-> FALSE]]
    /\ earlier' = Others(h)
    /\ UNCHANGED lost

\* The names are claimed and the first announcement goes out at once.
ClaimAndAnnounce(h) ==
    /\ phase' = [phase EXCEPT ![h] = "claimed"]
    /\ published' = [published EXCEPT ![h].claimed = TRUE]
    /\ earlier' = Others(h)
    /\ IF stopping[h] \/ left[h] = 0
       THEN UNCHANGED <<left, inbox, lost>>
       ELSE /\ left' = [left EXCEPT ![h] = @ - 1]
            /\ Deliver(h, inbox[h], {Response(Announcement(Ours(h)))})
    /\ UNCHANGED <<attempt, renames, round, stopping>>

----------------------------------------------------------------------------
(* Probing.                                                                *)

\* Stopping is looked at before each probe; then the next window opens.
OpenWindow(h, n) ==
    /\ IF stopping[h]
       THEN /\ phase' = [phase EXCEPT ![h] = "ended"]
            /\ inbox' = [inbox EXCEPT ![h] = {}]
            /\ earlier' = Others(h)
            /\ UNCHANGED <<round, lost>>
       ELSE /\ phase' = [phase EXCEPT ![h] = "window"]
            /\ round' = [round EXCEPT ![h] = n]
            /\ earlier' = Others(h) \cup
                  {<<k, h>> : k \in {j \in Hosts \ {h} : phase[j] = "window"}}
            /\ Deliver(h, inbox[h], {Probe(Ours(h))})
    /\ UNCHANGED <<engine, left, stopping>>

\* The random delay before the first probe, or the second after a conflict.
Wake(h) ==
    /\ phase[h] = "asleep"
    /\ IF h \in Unprobed THEN ClaimAndAnnounce(h) ELSE OpenWindow(h, 1)

WindowOver(h) ==
    /\ phase[h] = "window" /\ inbox[h] = {}
    /\ \A k \in Hosts : <<k, h>> \notin earlier
    /\ \A k \in Hosts \ {h} : phase[k] = "claimed" /\ ~stopping[k] =>
           Probe(Ours(h)) \notin inbox[k]

NextProbe(h) == WindowOver(h) /\ round[h] < ProbeCount /\ OpenWindow(h, round[h] + 1)

\* Mutant: one probe too many is waited for.
ClaimLate(h) == WindowOver(h) /\ round[h] > ProbeCount /\ ClaimAndAnnounce(h)

Claim(h) == WindowOver(h) /\ round[h] = ProbeCount /\ ClaimAndAnnounce(h)

Theirs(h, m) == {r \in m.recs : r.name \in OwnedNames(Ours(h))}
\* Mutant: a host that holds its names no longer looks for conflicts.
ConflictWhileProbing(h, m) ==
    phase[h] = "window" /\ Theirs(h, m) # {}

Conflict(h, m) ==
    IF m.kind = "response"
    THEN \E r \in Theirs(h, m) :
             r.ttl # 0 /\ ~\E mine \in Claimed(Ours(h)) : SameAnswer(mine, r)
    ELSE Theirs(h, m) # {} /\ Loses(Claimed(Ours(h)), Theirs(h, m))

Rename(h) ==
    /\ attempt' = [attempt EXCEPT ![h] = @ + 1]
    /\ published' = [published EXCEPT ![h] = [n |-> attempt[h] + 1, claimed |-> FALSE]]

\* A conflict ends the window; too many of them end the responder.
ReadInWindow(h) ==
    /\ phase[h] = "window"
    /\ \E m \in inbox[h] :
        IF ~Conflict(h, m)
        THEN /\ inbox' = [inbox EXCEPT ![h] = @ \ {m}]
             /\ UNCHANGED <<engine, phase, earlier>>
        ELSE /\ earlier' = Others(h)
             /\ renames' = [renames EXCEPT ![h] = @ + 1]
             /\ IF renames[h] = MaxRenames
                THEN /\ phase' = [phase EXCEPT ![h] = "ended"]
                     /\ inbox' = [inbox EXCEPT ![h] = {}]
                     /\ UNCHANGED <<attempt, published>>
                ELSE /\ phase' = [phase EXCEPT ![h] = "asleep"]
                     /\ inbox' = [inbox EXCEPT ![h] = @ \ {m}]
                     /\ Rename(h)
    /\ UNCHANGED <<round, left, stopping, lost>>

----------------------------------------------------------------------------
(* Holding the name.                                                       *)

\* Mutant: announcements are not counted.
AnnounceAgain(h) ==
    /\ phase[h] = "claimed" /\ ~stopping[h]
    /\ left' = [left EXCEPT ![h] = @ - 1]
    /\ Deliver(h, inbox[h], {Response(Announcement(Ours(h)))})
    /\ UNCHANGED <<engine, phase, round, earlier, stopping>>

Announce(h) ==
    /\ phase[h] = "claimed" /\ ~stopping[h] /\ left[h] > 0
    /\ left' = [left EXCEPT ![h] = @ - 1]
    /\ Deliver(h, inbox[h], {Response(Announcement(Ours(h)))})
    /\ UNCHANGED <<engine, phase, round, earlier, stopping>>

\* Mutant: a probe is answered by unicast alone, which another process takes.
DefenceUnicast(h, recs) == {}

\* What a host answers to a probe for the names of recs.
Defence(h, recs) ==
    UNION {Answer(Ours(h), [name |-> n, type |-> ANY], {}) : n \in {r.name : r \in recs}}

\* One datagram after claiming.  A conflicting answer renames and announces
\* at once; a probe for a name held here is answered.
Handle(h) ==
    /\ phase[h] = "claimed" /\ ~stopping[h]
    /\ \E m \in inbox[h] :
         LET rest == inbox[h] \ {m} IN
         IF m.kind = "probe"
         THEN LET d == Defence(h, m.recs) IN
              /\ Deliver(h, rest, IF d = {} THEN {} ELSE {Response(d)})
              /\ UNCHANGED <<attempt, published>>
         ELSE IF Conflict(h, m)
         THEN /\ attempt[h] < MaxAttempt
              /\ attempt' = [attempt EXCEPT ![h] = @ + 1]
              /\ published' = [published EXCEPT ![h].n = attempt[h] + 1]
              /\ Deliver(h, rest, {Response(Announcement(Renamed(Ours(h))))})
         ELSE Deliver(h, rest, {}) /\ UNCHANGED <<attempt, published>>
    /\ UNCHANGED <<phase, round, earlier, renames, left, stopping>>

\* The goodbye, and the thread ends; state() goes on saying claimed.
Leave(h) ==
    /\ phase[h] = "claimed" /\ stopping[h]
    /\ phase' = [phase EXCEPT ![h] = "ended"]
    /\ Deliver(h, {}, {Response(GoodbyeRecords(Ours(h)))})
    /\ UNCHANGED <<engine, round, earlier, left, stopping>>

Engine(h) ==
    /\ \/ Wake(h) \/ NextProbe(h) \/ Claim(h) \/ ReadInWindow(h)
       \/ Announce(h) \/ Handle(h) \/ Leave(h)
    /\ UNCHANGED crashes
Caller(h) == (Start(h) \/ Stop(h)) /\ UNCHANGED crashes

Next == \E h \in Hosts : Engine(h) \/ Caller(h) \/ Crash(h)

Spec == Init /\ [][Next]_vars

\* The engine's thread keeps running; nobody owes a start, a stop or a loss.
FairSpec == Spec /\ \A h \in Hosts : WF_vars(Engine(h))

----------------------------------------------------------------------------
(* Properties.                                                             *)

TypeOK ==
    /\ phase \in [Hosts -> {"down", "asleep", "window", "claimed", "ended"}]
    /\ attempt \in [Hosts -> 1..MaxAttempt + MaxRenames + 1]
    /\ round \in [Hosts -> 0..ProbeCount]
    /\ \A h, k \in Hosts : phase[h] = "window" /\ phase[k] = "window" /\ h # k =>
           (<<h, k>> \in earlier <=> <<k, h>> \notin earlier)
    /\ renames \in [Hosts -> 0..MaxRenames + 1]
    /\ left \in [Hosts -> 0..AnnounceCount]
    /\ \A h \in Hosts : \A m \in inbox[h] : m.kind \in {"probe", "response"}
    /\ stopping \in [Hosts -> BOOLEAN]
    /\ published \in [Hosts -> [n : Nat, claimed : BOOLEAN]]
    /\ lost \in 0..MaxLost /\ crashes \in 0..MaxCrashes

Holding(h) == phase[h] = "claimed" /\ ~stopping[h]
Contest(h, k) == h # k /\ OwnedNames(Ours(h)) \cap OwnedNames(Ours(k)) # {}

\* Fewer losses than there are probes cannot put two hosts on one name: each
\* probe is a chance to hear the holder or the rival (responder.rs, item 1).
UniqueClaim ==
    lost < ProbeCount =>
        \A h, k \in Hosts : Holding(h) /\ Holding(k) => ~Contest(h, k)

\* Nor can a host that holds its names be talked out of them.
ClaimIsKept ==
    [][\A h \in Hosts : Holding(h) /\ Holding(h)' /\ lost < ProbeCount =>
           attempt'[h] = attempt[h]]_vars

\* Two hosts on one name are not a resting state: when every announcement is
\* out and read, the names differ (the comment in Engine::handle, section 9).
AtRest ==
    /\ \A h \in Hosts : Open(h) => Holding(h) /\ left[h] = 0 /\ inbox[h] = {}
    /\ lost <= ProbeCount
DuplicateNeverRests ==
    AtRest => \A h, k \in Hosts : Holding(h) /\ Holding(k) => ~Contest(h, k)

\* Without losses of any kind a contest of n hosts costs nobody more than n - 1 renames.
ContestIsShort ==
    lost = 0 /\ crashes = 0 => \A h \in Hosts : renames[h] < Cardinality(Hosts)

\* A running host does not contest names for ever: time and again it holds its
\* names, and a stop gets through whatever it was doing (probe_until_claimed).
AlwaysSettles == \A h \in Hosts : []<>(~Open(h) \/ Holding(h))

\* Of two hosts probing for one name one loses the tie-break: neither do both
\* back off nor do both proceed (tie_break, records.rs:244-250).
OneProberWins ==
    \A h, k \in Hosts : phase[h] = "window" /\ phase[k] = "window" /\ Contest(h, k) =>
        (Conflict(h, Probe(Ours(k))) <=> ~Conflict(k, Probe(Ours(h))))
\* A contest of tills for one name has one winner and costs little
\* (records.rs, tie_break; responder.rs, rename).
ContestIsFair == OneProberWins /\ ContestIsShort
============================================================================
