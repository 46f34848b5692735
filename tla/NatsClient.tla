----------------------------- MODULE NatsClient -----------------------------
(***************************************************************************)
(* A connection of package rk_nats and the server behind it: what an       *)
(* acknowledgement of a publish means is proved from evidence about the    *)
(* server (durability.rs), a publish that would get less is refused, and   *)
(* messages are taken back from a durable consumer (client.rs).            *)
(*                                                                         *)
(* The server is external: it stores what arrives, in memory or on disk,   *)
(* writes memory out by a timer, and may lose its power.  Calls come from  *)
(* any thread; one under way goes on when its handle is closed.            *)
(***************************************************************************)
EXTENDS Integers, FiniteSets

CONSTANTS
    Callers,   \* threads that call
    Ids,       \* messages
    Requests,  \* what the caller asks for, see req
    Servers,   \* configurations of a server: [syncAlways, interval, modern, reports]
    StreamsBefore, \* the stream before the connection: NoStream or [storage, mode]
    MaxCuts,   \* bound: losses of power
    MaxChanges, \* bound: restarts with another configuration
    MaxCalls   \* bound: publishes and fetches

NoStream == [storage |-> "none", mode |-> "none"]

Storages == {"file", "memory"}
Modes == {"default", "async"}

\* Of the constants.
NatsAssumption ==
    /\ MaxCuts \in Nat /\ MaxChanges \in Nat /\ MaxCalls \in Nat
    /\ Requests \subseteq
         [policy : {"fsyncOnAck", "flushOnAck", "ackIsMemoryOnly"}, accepted : Nat,
          evidence : {"none", "varzJson", "systemAccount"}, storage : Storages,
          mode : Modes, messageId : BOOLEAN, strays : SUBSET Ids]
    /\ Servers \subseteq [syncAlways : BOOLEAN, interval : Nat, modern : BOOLEAN,
                          reports : BOOLEAN]
    /\ StreamsBefore \subseteq {NoStream} \cup [storage : Storages, mode : Modes]

Unproven == [proven |-> FALSE, syncAlways |-> FALSE, interval |-> 0]
\* What the document of a server says; an interval it does not state is read
\* as none.
Facts(s) == [proven |-> TRUE, syncAlways |-> s.syncAlways,
             interval |-> IF s.reports THEN s.interval ELSE 0]

VARIABLES
    req,     \* [policy, accepted, evidence, storage, mode, messageId, strays]: strays
             \* are the messages whose subject another stream captures
    server,  \* its configuration
    stream,  \* the stream the server has
    place,   \* each message: nowhere, memory, disk, lost
    copies,  \* how many times it is stored
    age,     \* ticks it has spent in memory
    wire,    \* publishes under way
    taken,   \* each message for the consumer: pending, delivered, acked
    doc,     \* the varz document the caller holds
    conn,    \* none, probing, open, closed
    facts,   \* Conn.server
    known,   \* Conn.streams
    call,    \* what each caller waits for
    told,    \* what the callers know of each message: nothing, ok, failed
    handed,  \* messages handed to a caller
    count    \* losses of power, changes, publishes and fetches so far

vars == <<req, server, stream, place, copies, age, wire, taken, doc, conn, facts, known,
          call, told, handed, count>>
disk == <<stream, place, copies, age>>
client == <<conn, facts, known>>

Idle == [op |-> "idle", ids |-> {}, facts |-> Unproven, echo |-> NoStream]
Calling(c, op, ids, f) ==
    call' = [call EXCEPT ![c] = [op |-> op, ids |-> ids, facts |-> f, echo |-> NoStream]]
Returns(c) == call' = [call EXCEPT ![c] = Idle]

\* registry::get: a call on a handle that is not open answers handleClosed.
Free(c) == conn = "open" /\ call[c] = Idle

\* Code: what any call answers.  Policy and AckMeaning, in their order.
Codes == {"ok", "invalidRequest", "handleClosed", "connectFailed", "timeout",
          "durabilityUnproven", "durabilityWeakerThanRequested", "fsyncLagTooLong",
          "streamRefusedWeakerThanPolicy", "persistModeNotHonoured", "durabilityProbeFailed",
          "publishFailed", "streamFailed", "consumeFailed", "ackFailed", "panic"}
Policies == <<"fsyncOnAck", "flushOnAck", "ackIsMemoryOnly">>
Meanings == <<"unknown", "fsyncedToDisk", "writtenNotFsynced", "ackedBeforeStore", "memoryOnly">>

----------------------------------------------------------------------------
(* Durability.                                                             *)

\* Mutant: the server's setting is looked at before the stream's mode.
AckMeaningServerFirst(f, s) ==
    CASE ~f.proven -> "unknown"
      [] f.proven /\ s.storage = "memory" -> "memoryOnly"
      [] f.proven /\ s.storage # "memory" /\ f.syncAlways -> "fsyncedToDisk"
      [] OTHER -> IF s.mode = "async" THEN "ackedBeforeStore" ELSE "writtenNotFsynced"
AckMeaning(f, s) ==
    CASE ~f.proven -> "unknown"
      [] f.proven /\ s.storage = "memory" -> "memoryOnly"
      [] f.proven /\ s.storage # "memory" /\ s.mode = "async" -> "ackedBeforeStore"
      [] OTHER -> IF f.syncAlways THEN "fsyncedToDisk" ELSE "writtenNotFsynced"

\* Mutant: a delayed fsync is accepted whatever the server's window.
FitsAny(f) == TRUE
Fits(f) == f.interval <= req.accepted

\* What stands between the policy asked for and an ack of this meaning.
Gate(f, s) ==
    LET meaning == AckMeaning(f, s) IN
    CASE req.policy = "ackIsMemoryOnly" -> "ok"
      [] req.policy # "ackIsMemoryOnly" /\ meaning = "fsyncedToDisk" -> "ok"
      [] req.policy # "ackIsMemoryOnly" /\ meaning = "unknown" -> "durabilityUnproven"
      [] req.policy = "flushOnAck" /\ meaning = "writtenNotFsynced" ->
            IF Fits(f) THEN "ok" ELSE "fsyncLagTooLong"
      [] OTHER -> "durabilityWeakerThanRequested"

----------------------------------------------------------------------------
Init ==
    /\ req \in Requests /\ server \in Servers /\ stream \in StreamsBefore
    /\ place = [i \in Ids |-> "nowhere"] /\ copies = [i \in Ids |-> 0]
    /\ age = [i \in Ids |-> 0] /\ wire = {}
    /\ taken = [i \in Ids |-> "pending"]
    /\ doc = server
    /\ conn = "none" /\ facts = Unproven /\ known = NoStream
    /\ call = [c \in Callers |-> Idle]
    /\ told = [i \in Ids |-> "nothing"] /\ handed = {}
    /\ count = [cuts |-> 0, changes |-> 0, calls |-> 0]

(* The server.                                                             *)

\* Where a message is when the ack goes out.
Stored ==
    IF stream.storage = "file" /\ stream.mode = "default" /\ server.syncAlways
    THEN "disk" ELSE "memory"

\* Mutant: the message id does not reach the server.
SentWithoutId(i) == FALSE
SentWithId(i) == req.messageId
Duplicate(i) == SentWithId(i) /\ place[i] \in {"memory", "disk"}

\* Who waits for message i hears of it.
Hears(i, what) ==
    call' = [c \in Callers |->
         IF call[c].op = "publishing" /\ i \in call[c].ids
         THEN [call[c] EXCEPT !.op = what] ELSE call[c]]

\* A publish arrives; a caller that still waits will be answered.
Store(i) ==
    /\ i \in wire /\ stream # NoStream /\ i \notin req.strays
    /\ wire' = wire \ {i}
    /\ IF Duplicate(i) THEN UNCHANGED <<place, copies, age>>
       ELSE /\ place' = [place EXCEPT ![i] = IF @ = "disk" THEN @ ELSE Stored]
            /\ copies' = [copies EXCEPT ![i] = @ + 1]
            /\ age' = [age EXCEPT ![i] = 0]
    /\ Hears(i, "acked")
    /\ UNCHANGED <<req, server, stream, taken, doc, client, told, handed, count>>

\* Another stream captures the subject, and acknowledges.
Capture(i) ==
    /\ i \in wire /\ i \in req.strays
    /\ wire' = wire \ {i}
    /\ Hears(i, "captured")
    /\ UNCHANGED <<req, server, disk, taken, doc, client, told, handed, count>>

InMemory == {i \in Ids : place[i] = "memory"}
Overdue == stream.storage = "file" /\ \E i \in InMemory : age[i] >= server.interval

\* The fsync timer; it never lets a message wait longer than its interval.
Sync ==
    /\ InMemory # {} /\ stream.storage = "file"
    /\ place' = [i \in Ids |-> IF i \in InMemory THEN "disk" ELSE place[i]]
    /\ UNCHANGED <<req, server, stream, copies, age, wire, taken, doc, client, call, told,
                   handed, count>>
Tick ==
    /\ ~Overdue /\ \E i \in InMemory : age[i] < server.interval
    /\ age' = [i \in Ids |-> IF i \in InMemory THEN age[i] + 1 ELSE age[i]]
    /\ UNCHANGED <<req, server, stream, place, copies, wire, taken, doc, client, call, told,
                   handed, count>>

\* Power fails and comes back; the client reconnects by itself.  The server
\* may come back configured otherwise.
PowerCut ==
    /\ \E s \in Servers :
         /\ server' = s
         /\ count.cuts < MaxCuts
         /\ s # server => count.changes < MaxChanges
         /\ count' = [cuts |-> count.cuts + 1, calls |-> count.calls,
                      changes |-> IF s = server THEN count.changes ELSE count.changes + 1]
    /\ place' = [i \in Ids |-> IF i \in InMemory THEN "lost" ELSE place[i]]
    /\ copies' = [i \in Ids |-> IF i \in InMemory THEN 0 ELSE copies[i]]
    /\ wire' \in SUBSET wire
    /\ UNCHANGED <<req, stream, age, taken, doc, client, call, told, handed>>

\* A delivered message that nobody acknowledged is offered again.
Redeliver(i) ==
    /\ taken[i] = "delivered"
    /\ taken' = [taken EXCEPT ![i] = "pending"]
    /\ UNCHANGED <<req, server, disk, wire, doc, client, call, told, handed, count>>

----------------------------------------------------------------------------
(* Connecting and proving.                                                 *)

\* flushOnAck without a lag is refused; else the connection is made.
Connect(c) ==
    /\ conn = "none" /\ call[c] = Idle
    /\ ~(req.policy = "flushOnAck" /\ req.accepted = 0)
    /\ conn' = "probing"
    /\ Calling(c, "probing", {}, Unproven)
    /\ UNCHANGED <<req, server, disk, wire, taken, doc, facts, known, told, handed, count>>

ProbeAgain(c) ==
    /\ Free(c)
    /\ Calling(c, "probing", {}, Unproven)
    /\ UNCHANGED <<req, server, disk, wire, taken, doc, client, told, handed, count>>

\* The evidence path decides; a probe that fails leaves what was known, and
\* does not fail the connect.
OverSystemAccount == {Facts(server)}
Evidence ==
    CASE req.evidence = "none" -> {}
      [] req.evidence = "varzJson" -> {Facts(doc)}
      [] req.evidence = "systemAccount" -> OverSystemAccount
Probe(c) ==
    /\ call[c].op = "probing"
    /\ facts' \in Evidence \cup {facts}
    /\ conn' = IF conn = "probing" THEN "open" ELSE conn
    /\ Returns(c)
    /\ UNCHANGED <<req, server, disk, wire, taken, doc, known, told, handed, count>>

ApplyVarz(c) ==
    /\ Free(c)
    /\ facts' = Facts(doc)
    /\ UNCHANGED <<req, server, disk, wire, taken, doc, conn, known, call, told, handed, count>>

Close(c) ==
    /\ Free(c)
    /\ conn' = "closed"
    /\ UNCHANGED <<req, server, disk, wire, taken, doc, facts, known, call, told, handed, count>>

----------------------------------------------------------------------------
(* The stream.                                                             *)

Wanted == [storage |-> req.storage, mode |-> req.mode]

\* A stream that could not carry the policy is not created.
EnsureStream(c) ==
    /\ Free(c)
    /\ Gate(facts, Wanted) = "ok"
    /\ Calling(c, "ensuring", {}, facts)
    /\ UNCHANGED <<req, server, disk, wire, taken, doc, client, told, handed, count>>

\* The server keeps a stream it has; an old one drops the mode it does not know.
GetOrCreate(c) ==
    /\ call[c].op = "ensuring"
    /\ stream' = IF stream # NoStream THEN stream
                 ELSE IF server.modern THEN Wanted ELSE [Wanted EXCEPT !.mode = "default"]
    /\ call' = [call EXCEPT ![c].op = "ensured", ![c].echo = stream']
    /\ UNCHANGED <<req, server, place, copies, age, wire, taken, doc, client, told, handed, count>>

\* Mutant: what was asked for is remembered instead of the server's echo.
RememberedWanted(echo) == Wanted
Remembered(echo) == echo
StreamInfo(c) ==
    /\ call[c].op = "ensured"
    /\ known' = Remembered(call[c].echo)
    /\ Returns(c)
    /\ UNCHANGED <<req, server, disk, wire, taken, doc, conn, facts, told, handed, count>>

----------------------------------------------------------------------------
(* Publishing.                                                             *)

\* Refused unless the stream was established.
Publish(c, i) ==
    /\ Free(c) /\ count.calls < MaxCalls
    /\ count' = [count EXCEPT !.calls = @ + 1]
    /\ call' = [call EXCEPT ![c] =
         IF known = NoStream THEN Idle
         ELSE [op |-> "judging", ids |-> {i}, facts |-> Unproven, echo |-> known]]
    /\ UNCHANGED <<req, server, disk, wire, taken, doc, client, told, handed>>

\* Under the next lock: refused before anything is sent unless the ack of
\* that stream means enough.
Judge(c) ==
    /\ call[c].op = "judging"
    /\ IF Gate(facts, call[c].echo) # "ok"
       THEN Returns(c) /\ UNCHANGED wire
       ELSE Calling(c, "publishing", call[c].ids, facts) /\ wire' = wire \cup call[c].ids
    /\ UNCHANGED <<req, server, disk, taken, doc, client, told, handed, count>>

Tell(ids, what) == [i \in Ids |-> IF i \in ids /\ told[i] # "ok" THEN what ELSE told[i]]
Acked(c) ==
    /\ call[c].op = "acked"
    /\ told' = Tell(call[c].ids, "ok")
    /\ Returns(c)
    /\ UNCHANGED <<req, server, disk, wire, taken, doc, client, handed, count>>

\* The stream that acknowledged is compared with the one that was judged.
Strayed(c) ==
    /\ call[c].op = "captured"
    /\ told' = Tell(call[c].ids, "failed")
    /\ Returns(c)
    /\ UNCHANGED <<req, server, disk, wire, taken, doc, client, handed, count>>

\* The deadline of any call; what was sent stays under way.
Deadline(c) ==
    /\ call[c].op \in {"ensuring", "ensured", "publishing", "acked", "captured"}
    /\ told' = Tell(call[c].ids, "failed")
    /\ Returns(c)
    /\ UNCHANGED <<req, server, disk, wire, taken, doc, client, handed, count>>

----------------------------------------------------------------------------
(* Consuming.                                                              *)

\* Mutant: the consumer needs no acknowledgement.
AckPolicyNone == "acked"
AckPolicy == "delivered"

\* A batch; an error in its middle fails the call and drops what was read.
Fetch(c) ==
    /\ Free(c) /\ count.calls < MaxCalls
    /\ count' = [count EXCEPT !.calls = @ + 1]
    /\ LET batch == {i \in Ids : place[i] \in {"memory", "disk"} /\ taken[i] = "pending"}
       IN /\ batch # {}
          /\ taken' = [i \in Ids |-> IF i \in batch THEN AckPolicy ELSE taken[i]]
          /\ \E whole \in BOOLEAN : handed' = IF whole THEN handed \cup batch ELSE handed
    /\ UNCHANGED <<req, server, disk, wire, doc, client, call, told>>

\* Both kinds of ack reach the server or not.
Ack(c, i) ==
    /\ Free(c) /\ i \in handed /\ taken[i] # "acked"
    /\ taken' = [taken EXCEPT ![i] = "acked"]
    /\ UNCHANGED <<req, server, disk, wire, doc, client, call, told, handed, count>>

Call(c) ==
    \/ Connect(c) \/ ProbeAgain(c) \/ Probe(c) \/ ApplyVarz(c) \/ Close(c)
    \/ EnsureStream(c) \/ GetOrCreate(c) \/ StreamInfo(c)
    \/ Judge(c) \/ Acked(c) \/ Strayed(c) \/ Deadline(c)
    \/ Fetch(c)
    \/ \E i \in Ids : Publish(c, i) \/ Ack(c, i)
Next ==
    \/ \E c \in Callers : Call(c)
    \/ Sync \/ Tick \/ PowerCut
    \/ \E i \in Ids : Store(i) \/ Capture(i) \/ Redeliver(i)

Spec == Init /\ [][Next]_vars

----------------------------------------------------------------------------
(* Properties.                                                             *)

TypeOK ==
    /\ req.policy \in {Policies[k] : k \in DOMAIN Policies}
    /\ AckMeaning(facts, known) \in {Meanings[k] : k \in DOMAIN Meanings}
    /\ Gate(facts, known) \in Codes
    /\ stream \in [storage : {"none", "file", "memory"}, mode : {"none", "default", "async"}]
    /\ place \in [Ids -> {"nowhere", "memory", "disk", "lost"}]
    /\ copies \in [Ids -> Nat] /\ age \in [Ids -> Nat]
    /\ wire \subseteq Ids /\ handed \subseteq Ids
    /\ taken \in [Ids -> {"pending", "delivered", "acked"}]
    /\ conn \in {"none", "probing", "open", "closed"}
    /\ told \in [Ids -> {"nothing", "ok", "failed"}]

\* Under the default policy a publish that succeeded is on disk, whatever
\* fails afterwards (durability.rs, Policy::FsyncOnAck).
AckMeansFsynced ==
    req.policy = "fsyncOnAck" => \A i \in Ids : told[i] = "ok" => place[i] = "disk"

\* Who accepts a lag loses nothing older than it (Policy::FlushOnAck), where
\* the server states its interval.
LossWithinAcceptedLag ==
    req.policy = "flushOnAck" /\ server.reports =>
        \A i \in Ids : told[i] = "ok" /\ place[i] = "lost" => age[i] <= req.accepted

\* A publish repeated after a deadline, under one message id and within the
\* server's duplicate window, is stored once.
RetryStoresOnce == req.messageId => \A i \in Ids : copies[i] <= 1

\* The consumer moves past a message only when a caller has been handed it:
\* a batch that fails half-way is offered again.
PassedWasHandedOver == \A i \in Ids : taken[i] = "acked" => i \in handed

\* What an acknowledgement was said to mean, it means, whatever fails
\* afterwards.
AckMeansWhatItSays ==
    TypeOK /\ AckMeansFsynced /\ LossWithinAcceptedLag /\ RetryStoresOnce /\ PassedWasHandedOver

\* What the doc of Policy::FlushOnAck says: the server's window is checked
\* against the lag the caller names (durability.rs:93-96).
LagIsChecked ==
    req.policy = "flushOnAck" =>
        \A i \in Ids : told[i] = "ok" /\ place[i] = "lost" => age[i] <= req.accepted

\* Ensuring a stream refuses when the result could not satisfy the policy
\* (Conn::ensure_stream, client.rs:500).
EnsuredSatisfies == known # NoStream /\ facts.proven => Gate(facts, known) = "ok"
============================================================================
