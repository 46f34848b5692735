-------------------------- MODULE TransportsProofs --------------------------
(***************************************************************************)
(* Proofs about the three transports, each on its own.                     *)
(*                                                                         *)
(* NatsClient, for any callers, messages, requests, servers and streams,   *)
(* and any number of losses of power.  They are about a server that comes  *)
(* back configured as it was (MaxChanges = 0): what the client has read of *)
(* server and stream is then still true when an acknowledgement comes, and *)
(* what is true of them decides where a message is kept.                   *)
(*                                                                         *)
(* QuicEndpoint, for any callers, sessions, streams, depth of the queue    *)
(* and configurations: what a caller reads adds up.                        *)
(*                                                                         *)
(* SyslogConfig, for any settings offered, texts, files, certificates and  *)
(* numbers of calls, sets and opens in any order: nothing leaves for       *)
(* anyone but the collector the settings name.                             *)
(***************************************************************************)
EXTENDS NatsClient, QuicEndpoint, SyslogConfig, TLAPS, WellFoundedInduction, SequenceTheorems

----------------------------------------------------------------------------
(* NATS: what an acknowledgement vouches for.                              *)

Places == {"nowhere", "memory", "disk", "lost"}
Ops == {"idle", "probing", "ensuring", "ensured", "judging", "publishing", "acked", "captured"}
AboutMessages == {"judging", "publishing", "acked", "captured"}
Evidences == [proven : BOOLEAN, syncAlways : BOOLEAN, interval : Nat]
StreamShapes == {NoStream} \cup [storage : Storages, mode : Modes]
CallRecords == [op : Ops, ids : SUBSET Ids, facts : Evidences, echo : StreamShapes]

\* The types, those TypeOK leaves out included.
TypesOk ==
    /\ req \in Requests /\ server \in Servers /\ stream \in StreamShapes
    /\ place \in [Ids -> Places] /\ copies \in [Ids -> Nat] /\ age \in [Ids -> Nat]
    /\ wire \subseteq Ids /\ handed \subseteq Ids
    /\ taken \in [Ids -> {"pending", "delivered", "acked"}]
    /\ conn \in {"none", "probing", "open", "closed"}
    /\ told \in [Ids -> {"nothing", "ok", "failed"}]
    /\ call \in [Callers -> CallRecords] /\ known \in StreamShapes
    /\ count \in [cuts : Nat, changes : Nat, calls : Nat]

\* What the client was told is true: the document and the evidence are the
\* server's, the stream it remembers is the server's.
BeliefsOk ==
    /\ doc = server /\ count.changes = 0
    /\ facts \in {Unproven, Facts(server)}
    /\ known # NoStream => known = stream
    /\ \A c \in Callers : call[c].op \in {"ensured", "judging"} =>
            call[c].echo = stream /\ stream # NoStream

\* An acknowledgement by this server, for this stream, satisfies the policy.
Vouched == stream # NoStream /\ Gate(Facts(server), stream) = "ok"

\* Nothing was sent that the server could not vouch for.
Sent == wire # {} \/ \E i \in Ids : place[i] # "nowhere"
SentOk == req.policy # "ackIsMemoryOnly" /\ Sent => Vouched

\* A call is about one message at most; when it was acknowledged, the message
\* has been stored.
CallOk(c) ==
    /\ call[c].op \notin AboutMessages => call[c].ids = {}
    /\ call[c].ids # {} => \E i \in Ids : call[c].ids = {i}
    /\ call[c].op = "acked" => \A i \in call[c].ids : place[i] # "nowhere"
CallsOk == \A c \in Callers : CallOk(c)

\* A message the callers know of was stored; one in memory is no older than
\* the fsync interval; and there is one copy of what is kept.
MessageOk(i) ==
    /\ told[i] = "ok" => place[i] # "nowhere"
    /\ place[i] # "nowhere" => stream # NoStream
    /\ stream.storage = "file" /\ place[i] \in {"memory", "lost"} => age[i] <= server.interval
    /\ req.policy # "ackIsMemoryOnly" /\ place[i] \in {"memory", "lost"} => Stored = "memory"
    /\ req.messageId => copies[i] = IF place[i] \in {"memory", "disk"} THEN 1 ELSE 0
MessagesOk == \A i \in Ids : MessageOk(i)

IInv == TypesOk /\ BeliefsOk /\ SentOk /\ CallsOk /\ MessagesOk /\ PassedWasHandedOver

\* What the server vouches for: the stream is on disk and acknowledges what is
\* stored, and how long a message stays in memory fits the policy if the
\* server states it.
LEMMA VouchedMeans ==
    ASSUME NatsAssumption, TypesOk, Vouched, req.policy # "ackIsMemoryOnly"
    PROVE  /\ stream.storage = "file" /\ stream.mode = "default"
           /\ req.policy = "fsyncOnAck" => Stored = "disk"
           /\ Stored = "memory" /\ server.reports => server.interval <= req.accepted
<1>1. /\ stream.storage \in Storages /\ stream.mode \in Modes
      /\ server.syncAlways \in BOOLEAN /\ server.interval \in Nat /\ server.reports \in BOOLEAN
      /\ req.policy \in {"fsyncOnAck", "flushOnAck"} /\ req.accepted \in Nat
    BY DEF NatsAssumption, TypesOk, Vouched, StreamShapes
<1>2. /\ Facts(server).proven /\ Facts(server).syncAlways = server.syncAlways
      /\ server.reports => Facts(server).interval = server.interval
    BY DEF Facts
<1>3. stream.storage # "memory" /\ stream.mode # "async"
    BY <1>1, <1>2 DEF Vouched, Gate, AckMeaning
<1>4. stream.storage = "file" /\ stream.mode = "default"
    BY <1>1, <1>3 DEF Storages, Modes
<1>5. AckMeaning(Facts(server), stream) =
          IF server.syncAlways THEN "fsyncedToDisk" ELSE "writtenNotFsynced"
    BY <1>2, <1>4 DEF AckMeaning
<1>6. req.policy = "fsyncOnAck" => server.syncAlways
    BY <1>1, <1>5 DEF Vouched, Gate
<1>7. ~server.syncAlways /\ server.reports => server.interval <= req.accepted
    BY <1>1, <1>2, <1>5 DEF Vouched, Gate, Fits
<1> QED BY <1>1, <1>4, <1>6, <1>7 DEF Stored

\* What a gate answers is one of the codes, what an ack means one of the meanings.
LEMMA AnswersAreNamed ==
    /\ \A f, s : AckMeaning(f, s) \in {Meanings[k] : k \in DOMAIN Meanings}
    /\ \A f, s : Gate(f, s) \in Codes
<1>1. /\ DOMAIN Meanings = 1..5
      /\ Meanings[1] = "unknown" /\ Meanings[2] = "fsyncedToDisk"
      /\ Meanings[3] = "writtenNotFsynced" /\ Meanings[4] = "ackedBeforeStore"
      /\ Meanings[5] = "memoryOnly"
    BY DEF Meanings
<1>2. \A f, s : AckMeaning(f, s) \in {"unknown", "fsyncedToDisk", "writtenNotFsynced",
                                     "ackedBeforeStore", "memoryOnly"}
    BY DEF AckMeaning
<1>3. \A k \in 1..5 : Meanings[k] \in {Meanings[l] : l \in DOMAIN Meanings}
    BY <1>1
<1>4. \A f, s : Gate(f, s) \in {"ok", "durabilityUnproven", "fsyncLagTooLong",
                               "durabilityWeakerThanRequested"}
    BY <1>2 DEF Gate
<1> QED BY <1>1, <1>2, <1>3, <1>4 DEF Codes

\* The invariant says what is promised.
LEMMA InvariantImplies ==
    ASSUME NatsAssumption, IInv
    PROVE  AckMeansWhatItSays
<1>1. TypesOk /\ BeliefsOk /\ SentOk /\ CallsOk /\ MessagesOk
    BY DEF IInv
<1>2. TypeOK
    <2>1. req.policy \in {Policies[k] : k \in DOMAIN Policies}
        <3>1. /\ DOMAIN Policies = 1..3 /\ Policies[1] = "fsyncOnAck"
              /\ Policies[2] = "flushOnAck" /\ Policies[3] = "ackIsMemoryOnly"
            BY DEF Policies
        <3>2. req.policy \in {"fsyncOnAck", "flushOnAck", "ackIsMemoryOnly"}
            BY <1>1 DEF NatsAssumption, TypesOk
        <3> QED BY <3>1, <3>2
    <2>2. stream \in [storage : {"none", "file", "memory"}, mode : {"none", "default", "async"}]
        BY <1>1 DEF TypesOk, StreamShapes, NoStream, Storages, Modes
    <2> QED BY <1>1, <2>1, <2>2, AnswersAreNamed DEF TypesOk, TypeOK, Places
<1>3. ASSUME NEW i \in Ids, told[i] = "ok", req.policy # "ackIsMemoryOnly"
      PROVE  Vouched
    BY <1>1, <1>3 DEF MessagesOk, MessageOk, SentOk, Sent
<1>4. AckMeansFsynced
    <2> SUFFICES ASSUME NEW i \in Ids, told[i] = "ok", req.policy = "fsyncOnAck"
                 PROVE  place[i] = "disk"
        BY DEF AckMeansFsynced
    <2>1. Stored = "disk"
        BY <1>1, <1>3, VouchedMeans
    <2>2. place[i] \in Places /\ place[i] # "nowhere" /\ place[i] \notin {"memory", "lost"}
        BY <1>1, <2>1 DEF TypesOk, MessagesOk, MessageOk
    <2> QED BY <2>2 DEF Places
<1>5. LossWithinAcceptedLag
    <2> SUFFICES ASSUME NEW i \in Ids, told[i] = "ok", place[i] = "lost",
                        req.policy = "flushOnAck", server.reports
                 PROVE  age[i] <= req.accepted
        BY DEF LossWithinAcceptedLag
    <2>1. Stored = "memory"
        BY <1>1 DEF MessagesOk, MessageOk
    <2>2. stream.storage = "file" /\ server.interval <= req.accepted
        BY <1>1, <1>3, <2>1, VouchedMeans
    <2>3. age[i] <= server.interval
        BY <1>1, <2>2 DEF MessagesOk, MessageOk
    <2>4. age[i] \in Nat /\ server.interval \in Nat /\ req.accepted \in Nat
        BY <1>1 DEF TypesOk, NatsAssumption
    <2> QED BY <2>2, <2>3, <2>4
<1>6. RetryStoresOnce
    <2> SUFFICES ASSUME NEW i \in Ids, req.messageId PROVE copies[i] <= 1
        BY DEF RetryStoresOnce
    <2> QED BY <1>1 DEF MessagesOk, MessageOk
<1> QED BY <1>2, <1>4, <1>5, <1>6 DEF IInv, AckMeansWhatItSays

-----------------------------------------------------------------------------
(* What the steps leave alone.                                             *)

\* The server and what it holds are as they were: what was vouched for is.
LEMMA ServerRests ==
    ASSUME IInv, UNCHANGED <<req, server, disk>>, wire' \subseteq wire
    PROVE  SentOk'
<1>1. Sent' => Sent
    BY DEF Sent, disk
<1>2. Vouched' <=> Vouched
    BY DEF Vouched, Gate, Fits, AckMeaning, Facts, disk
<1> QED BY <1>1, <1>2 DEF IInv, SentOk

\* Messages where they were, and no more known of them.
LEMMA MessagesRest ==
    ASSUME IInv, UNCHANGED <<req, server, disk>>,
           \A i \in Ids : told'[i] = "ok" => place[i] # "nowhere"
    PROVE  MessagesOk'
<1>1. Stored' = Stored
    BY DEF Stored, disk
<1> QED BY <1>1 DEF IInv, MessagesOk, MessageOk, disk

\* As far as the callers know of a message, it was stored.
LEMMA ToldIsStored ==
    ASSUME IInv
    PROVE  /\ told \in [Ids -> {"nothing", "ok", "failed"}]
           /\ \A i \in Ids : told[i] = "ok" => place[i] # "nowhere"
           /\ known \in StreamShapes
           /\ known # NoStream => known = stream
           /\ facts \in {Unproven, Facts(server)}
           /\ conn \in {"none", "probing", "open", "closed"}
BY DEF IInv, TypesOk, BeliefsOk, MessagesOk, MessageOk

\* One call moves on.
LEMMA OneCall ==
    ASSUME IInv, NEW c \in Callers, NEW k \in CallRecords,
           call' = [call EXCEPT ![c] = k], UNCHANGED place,
           k.op \notin AboutMessages => k.ids = {},
           k.ids # {} => \E i \in Ids : k.ids = {i},
           k.op = "acked" => \A i \in k.ids : place[i] # "nowhere"
    PROVE  call' \in [Callers -> CallRecords] /\ CallsOk'
<1>1. call' \in [Callers -> CallRecords]
    BY DEF IInv, TypesOk
<1>2. \A d \in Callers : call'[d] = IF d = c THEN k ELSE call[d]
    BY DEF IInv, TypesOk
<1> QED BY <1>1, <1>2 DEF IInv, CallsOk, CallOk

LEMMA ServerTypes ==
    ASSUME NatsAssumption, TypesOk
    PROVE  /\ Facts(server) \in Evidences /\ Unproven \in Evidences
           /\ Facts(server).proven /\ server.interval \in Nat
           /\ Wanted \in StreamShapes /\ [Wanted EXCEPT !.mode = "default"] \in StreamShapes
           /\ Wanted # NoStream /\ [Wanted EXCEPT !.mode = "default"] # NoStream
           /\ NoStream \in StreamShapes
<1>1. server \in [syncAlways : BOOLEAN, interval : Nat, modern : BOOLEAN, reports : BOOLEAN]
    BY DEF NatsAssumption, TypesOk
<1>2. req.storage \in Storages /\ req.mode \in Modes
    BY DEF NatsAssumption, TypesOk
<1> QED BY <1>1, <1>2 DEF Facts, Unproven, Evidences, Wanted, StreamShapes, NoStream, Storages, Modes

LEMMA InitHolds ==
    ASSUME NatsAssumption, Init
    PROVE  IInv
<1>1. /\ req \in Requests /\ server \in Servers /\ stream \in StreamShapes
    BY DEF Init, NatsAssumption, StreamShapes
<1>2. Idle \in CallRecords
    BY DEF Idle, CallRecords, Ops, Unproven, Evidences, StreamShapes
<1>3. TypesOk
    BY <1>1, <1>2 DEF Init, TypesOk, Places, StreamShapes
<1>4. BeliefsOk
    BY DEF Init, BeliefsOk, Idle
<1>5. SentOk
    BY DEF Init, SentOk, Sent
<1>6. CallsOk
    BY DEF Init, CallsOk, CallOk, Idle
<1>7. MessagesOk /\ PassedWasHandedOver
    BY DEF Init, MessagesOk, MessageOk, PassedWasHandedOver
<1> QED BY <1>3, <1>4, <1>5, <1>6, <1>7 DEF IInv

-----------------------------------------------------------------------------
(* The server.                                                             *)

\* Who waits for a message hears of it, and of no other.
LEMMA HearsMoves ==
    ASSUME TypesOk, NEW i \in Ids, NEW what \in {"acked", "captured"}, Hears(i, what)
    PROVE  /\ call' \in [Callers -> CallRecords]
           /\ \A c \in Callers :
                /\ call'[c].ids = call[c].ids /\ call'[c].echo = call[c].echo
                /\ \/ call'[c].op = call[c].op
                   \/ call[c].op = "publishing" /\ call'[c].op = what /\ i \in call[c].ids
<1>1. \A c \in Callers :
          /\ call'[c] = IF call[c].op = "publishing" /\ i \in call[c].ids
                        THEN [call[c] EXCEPT !.op = what] ELSE call[c]
          /\ call[c] \in CallRecords /\ what \in Ops
    BY DEF Hears, TypesOk, Ops
<1>2. \A c \in Callers :
          /\ call'[c] \in CallRecords /\ call'[c].ids = call[c].ids /\ call'[c].echo = call[c].echo
          /\ \/ call'[c].op = call[c].op
             \/ call[c].op = "publishing" /\ call'[c].op = what /\ i \in call[c].ids
    BY <1>1 DEF CallRecords
<1> QED BY <1>2 DEF Hears

\* A publish arrives: it was sent, so the server vouches for what it does.
LEMMA StoreKeeps ==
    ASSUME NatsAssumption, IInv, NEW i \in Ids, Store(i)
    PROVE  IInv'
<1>1. TypesOk /\ BeliefsOk /\ SentOk /\ CallsOk /\ MessagesOk
    BY DEF IInv
<1>2. /\ place' \in [Ids -> Places] /\ copies' \in [Ids -> Nat] /\ age' \in [Ids -> Nat]
      /\ wire' = wire \ {i} /\ i \in wire /\ stream # NoStream
      /\ \A k \in Ids : k # i => place'[k] = place[k] /\ copies'[k] = copies[k] /\ age'[k] = age[k]
      /\ place'[i] # "nowhere"
    <2>1. CASE Duplicate(i)
        BY <1>1, <2>1 DEF Store, TypesOk, Duplicate
    <2>2. CASE ~Duplicate(i)
        <3>1. copies[i] + 1 \in Nat /\ Stored \in {"disk", "memory"}
            BY <1>1 DEF TypesOk, Stored
        <3>2. /\ place' = [place EXCEPT ![i] = IF @ = "disk" THEN @ ELSE Stored]
              /\ copies' = [copies EXCEPT ![i] = @ + 1] /\ age' = [age EXCEPT ![i] = 0]
            BY <2>2 DEF Store
        <3> QED BY <1>1, <3>1, <3>2 DEF Store, TypesOk, Places
    <2> QED BY <2>1, <2>2
<1>3. Hears(i, "acked")
    BY DEF Store
<1>4. \A c \in Callers :
          /\ call'[c].ids = call[c].ids /\ call'[c].echo = call[c].echo
          /\ \/ call'[c].op = call[c].op
             \/ call[c].op = "publishing" /\ call'[c].op = "acked" /\ i \in call[c].ids
    BY <1>1, <1>3, HearsMoves
<1>5. call' \in [Callers -> CallRecords]
    BY <1>1, <1>3, HearsMoves
<1>6. TypesOk'
    BY <1>1, <1>2, <1>5 DEF TypesOk, Store, client
<1>7. BeliefsOk'
    BY <1>1, <1>4 DEF BeliefsOk, Store, client
<1>8. SentOk'
    <2>1. Sent
        BY <1>2 DEF Sent
    <2>2. Vouched' <=> Vouched
        BY DEF Vouched, Gate, Fits, AckMeaning, Facts, Store
    <2> QED BY <1>1, <2>1, <2>2 DEF SentOk, Store
<1>9. CallsOk'
    <2> SUFFICES ASSUME NEW c \in Callers PROVE CallOk(c)'
        BY DEF CallsOk
    <2>1. CallOk(c) /\ call[c].ids \subseteq Ids
        BY <1>1 DEF CallsOk, TypesOk, CallRecords
    <2>2. call'[c].op = "acked" => \A k \in call'[c].ids : place'[k] # "nowhere"
        BY <1>2, <1>4, <2>1 DEF CallOk
    <2> QED BY <1>4, <2>1, <2>2 DEF CallOk, AboutMessages
<1>10. MessagesOk'
    <2>1. Stored' = Stored /\ Stored \in {"disk", "memory"}
        BY DEF Stored, Store
    <2>2. ASSUME NEW k \in Ids, k # i PROVE MessageOk(k)'
        BY <1>1, <1>2, <2>1, <2>2 DEF MessagesOk, MessageOk, Store
    <2>3. MessageOk(i)'
        <3>1. MessageOk(i)
            BY <1>1 DEF MessagesOk
        <3>2. CASE Duplicate(i)
            <4>1. UNCHANGED <<place, copies, age, told, stream, server, req>>
                BY <3>2 DEF Store
            <4> QED BY <2>1, <3>1, <4>1 DEF MessageOk
        <3>3. CASE ~Duplicate(i)
            <4>1. /\ place'[i] = (IF place[i] = "disk" THEN "disk" ELSE Stored)
                  /\ copies'[i] = copies[i] + 1 /\ age'[i] = 0
                BY <1>1, <3>3 DEF TypesOk, Store
            <4>2. req.messageId => place[i] \notin {"memory", "disk"}
                BY <3>3 DEF Duplicate, SentWithId
            <4>3. server.interval \in Nat
                BY <1>1, ServerTypes
            <4>4. UNCHANGED <<told, stream, server, req>>
                BY DEF Store
            <4> QED BY <1>2, <2>1, <3>1, <4>1, <4>2, <4>3, <4>4 DEF MessageOk
        <3> QED BY <3>2, <3>3
    <2> QED BY <2>2, <2>3 DEF MessagesOk
<1>11. PassedWasHandedOver'
    BY DEF IInv, PassedWasHandedOver, Store
<1> QED BY <1>6, <1>7, <1>8, <1>9, <1>10, <1>11 DEF IInv

\* Another stream captures a subject: nothing is stored here, and who waits
\* does not take it for an acknowledgement.
LEMMA CaptureKeeps ==
    ASSUME NatsAssumption, IInv, NEW i \in Ids, Capture(i)
    PROVE  IInv'
<1>1. /\ UNCHANGED <<req, server, disk, taken, doc, told, handed, count>>
      /\ UNCHANGED <<conn, facts, known>> /\ wire' \subseteq wire /\ Hears(i, "captured")
    BY DEF Capture, client
<1>2. /\ call' \in [Callers -> CallRecords]
      /\ \A c \in Callers :
           /\ call'[c].ids = call[c].ids /\ call'[c].echo = call[c].echo
           /\ \/ call'[c].op = call[c].op
              \/ call[c].op = "publishing" /\ call'[c].op = "captured"
    BY <1>1, HearsMoves DEF IInv
<1>3. TypesOk' /\ BeliefsOk' /\ PassedWasHandedOver'
    BY <1>1, <1>2 DEF IInv, TypesOk, BeliefsOk, PassedWasHandedOver, disk
<1>4. CallsOk'
    BY <1>1, <1>2 DEF IInv, CallsOk, CallOk, AboutMessages, disk
<1>5. SentOk' /\ MessagesOk'
    BY <1>1, ServerRests, MessagesRest, ToldIsStored
<1> QED BY <1>3, <1>4, <1>5 DEF IInv

\* Messages move from memory to disk, wait, or are lost: none of it undoes
\* what is known of them.
LEMMA MessagesMove ==
    ASSUME NatsAssumption, IInv, UNCHANGED <<req, server, stream, call, known, facts, doc, told, handed, taken, conn>>,
           wire' \subseteq wire, count' \in [cuts : Nat, changes : Nat, calls : Nat],
           count'.changes = 0,
           place' \in [Ids -> Places], copies' \in [Ids -> Nat], age' \in [Ids -> Nat],
           \A i \in Ids : place'[i] = "nowhere" <=> place[i] = "nowhere",
           MessagesOk'
    PROVE  IInv'
<1>1. TypesOk'
    BY DEF IInv, TypesOk
<1>2. BeliefsOk'
    BY DEF IInv, BeliefsOk
<1>3. SentOk'
    <2>1. Sent' => Sent
        BY DEF Sent
    <2>2. Vouched' <=> Vouched
        BY DEF Vouched, Gate, Fits, AckMeaning, Facts
    <2> QED BY <2>1, <2>2 DEF IInv, SentOk
<1>4. CallsOk'
    <2>1. \A c \in Callers : call[c].ids \subseteq Ids
        BY DEF IInv, TypesOk, CallRecords
    <2> QED BY <2>1 DEF IInv, CallsOk, CallOk
<1>5. PassedWasHandedOver'
    BY DEF IInv, PassedWasHandedOver
<1> QED BY <1>1, <1>2, <1>3, <1>4, <1>5 DEF IInv

LEMMA SyncKeeps ==
    ASSUME NatsAssumption, IInv, Sync
    PROVE  IInv'
<1>1. /\ UNCHANGED <<req, server, stream, call, known, facts, doc, told, handed, taken, conn>>
      /\ wire' \subseteq wire /\ count' = count /\ copies' = copies /\ age' = age
      /\ \A i \in Ids : place'[i] = IF place[i] = "memory" THEN "disk" ELSE place[i]
    BY DEF Sync, client, InMemory
<1>2. place' \in [Ids -> Places]
    BY DEF Sync, InMemory, IInv, TypesOk, Places
<1>3. MessagesOk'
    <2>1. Stored' = Stored
        BY <1>1 DEF Stored
    <2> QED BY <1>1, <2>1 DEF IInv, MessagesOk, MessageOk
<1>4. /\ copies' \in [Ids -> Nat] /\ age' \in [Ids -> Nat]
      /\ count' \in [cuts : Nat, changes : Nat, calls : Nat] /\ count'.changes = 0
    BY <1>1 DEF IInv, TypesOk, BeliefsOk
<1>5. \A i \in Ids : place'[i] = "nowhere" <=> place[i] = "nowhere"
    BY <1>1
<1> QED BY <1>1, <1>2, <1>3, <1>4, <1>5, MessagesMove

\* A message in a file grows no older than the interval: it is overdue first.
LEMMA TickKeeps ==
    ASSUME NatsAssumption, IInv, Tick
    PROVE  IInv'
<1>1. /\ UNCHANGED <<req, server, stream, call, known, facts, doc, told, handed, taken, conn>>
      /\ wire' \subseteq wire /\ count' = count /\ copies' = copies /\ place' = place
      /\ \A i \in Ids : age'[i] = IF place[i] = "memory" THEN age[i] + 1 ELSE age[i]
    BY DEF Tick, client, InMemory
<1>2. /\ place' \in [Ids -> Places] /\ copies' \in [Ids -> Nat]
      /\ count' \in [cuts : Nat, changes : Nat, calls : Nat] /\ count'.changes = 0
      /\ \A i \in Ids : place'[i] = "nowhere" <=> place[i] = "nowhere"
    BY <1>1 DEF IInv, TypesOk, BeliefsOk
<1>3. age' \in [Ids -> Nat]
    BY DEF Tick, IInv, TypesOk
<1>4. server.interval \in Nat
    BY ServerTypes DEF IInv
<1>5. MessagesOk'
    <2> SUFFICES ASSUME NEW i \in Ids PROVE MessageOk(i)'
        BY DEF MessagesOk
    <2>1. MessageOk(i) /\ age[i] \in Nat /\ Stored' = Stored
        BY <1>1 DEF IInv, MessagesOk, TypesOk, Stored
    <2>2. stream.storage = "file" /\ place[i] = "memory" => age[i] < server.interval
        BY <1>4, <2>1 DEF Tick, Overdue, InMemory
    <2> QED BY <1>1, <1>4, <2>1, <2>2 DEF MessageOk
<1> QED BY <1>1, <1>2, <1>3, <1>5, MessagesMove

\* The power fails: what was in memory is lost.  The server comes back as it was.
LEMMA PowerCutKeeps ==
    ASSUME NatsAssumption, MaxChanges = 0, IInv, PowerCut
    PROVE  IInv'
<1>1. TypesOk /\ BeliefsOk
    BY DEF IInv
<1>2. PICK s \in Servers :
          /\ server' = s
          /\ s # server => count.changes < MaxChanges
          /\ count' = [cuts |-> count.cuts + 1, calls |-> count.calls,
                       changes |-> IF s = server THEN count.changes ELSE count.changes + 1]
    BY DEF PowerCut
<1>3. server' = server
    BY <1>1, <1>2 DEF BeliefsOk
<1>4. count' \in [cuts : Nat, changes : Nat, calls : Nat] /\ count'.changes = 0
    BY <1>1, <1>2, <1>3 DEF BeliefsOk, TypesOk
<1>5. /\ UNCHANGED <<req, server, stream, call, known, facts, doc, told, handed, taken, conn>>
      /\ wire' \subseteq wire /\ age' = age
      /\ \A i \in Ids : place'[i] = IF place[i] = "memory" THEN "lost" ELSE place[i]
      /\ \A i \in Ids : copies'[i] = IF place[i] = "memory" THEN 0 ELSE copies[i]
    BY <1>3 DEF PowerCut, client, InMemory
<1>6. place' \in [Ids -> Places] /\ copies' \in [Ids -> Nat] /\ age' \in [Ids -> Nat]
    BY <1>1, <1>5 DEF PowerCut, TypesOk, Places
<1>7. MessagesOk'
    <2>1. Stored' = Stored
        BY <1>5 DEF Stored
    <2> QED BY <1>5, <2>1 DEF IInv, MessagesOk, MessageOk
<1>8. \A i \in Ids : place'[i] = "nowhere" <=> place[i] = "nowhere"
    BY <1>5
<1> QED BY <1>4, <1>5, <1>6, <1>7, <1>8, MessagesMove

LEMMA RedeliverKeeps ==
    ASSUME NatsAssumption, IInv, NEW i \in Ids, Redeliver(i)
    PROVE  IInv'
<1>1. /\ UNCHANGED <<req, server, disk, call, known, facts, doc, told, handed, conn, wire, count>>
      /\ taken' = [taken EXCEPT ![i] = "pending"]
    BY DEF Redeliver, client
<1>2. TypesOk' /\ BeliefsOk' /\ PassedWasHandedOver'
    BY <1>1 DEF IInv, TypesOk, BeliefsOk, PassedWasHandedOver, disk
<1>3. SentOk'
    BY <1>1, ServerRests
<1>4. MessagesOk'
    BY <1>1, MessagesRest DEF IInv, MessagesOk, MessageOk
<1>5. CallsOk'
    BY <1>1 DEF IInv, CallsOk, CallOk, disk
<1> QED BY <1>2, <1>3, <1>4, <1>5 DEF IInv

-----------------------------------------------------------------------------
(* The client.                                                             *)

\* A step of a caller that leaves server, messages and what is sent alone: it
\* has to believe no more than is true.
LEMMA ClientStep ==
    ASSUME NatsAssumption, IInv, UNCHANGED <<req, server, disk, wire, taken, doc, handed, count>>,
           NEW c \in Callers, NEW k \in CallRecords, call' = [call EXCEPT ![c] = k],
           k.op \notin AboutMessages, k.ids = {},
           k.op = "ensured" => k.echo = stream /\ stream # NoStream,
           conn' \in {"none", "probing", "open", "closed"},
           facts' \in {facts, Unproven, Facts(server)},
           known' \in StreamShapes, known' # NoStream => known' = stream,
           told' \in [Ids -> {"nothing", "ok", "failed"}],
           \A i \in Ids : told'[i] = "ok" => place[i] # "nowhere"
    PROVE  IInv'
<1>1. TypesOk /\ BeliefsOk
    BY DEF IInv
<1>2. call' \in [Callers -> CallRecords] /\ CallsOk'
    BY OneCall DEF disk
<1>3. TypesOk'
    BY <1>1, <1>2 DEF TypesOk, disk
<1>4. \A d \in Callers : call'[d] = IF d = c THEN k ELSE call[d]
    BY <1>1 DEF TypesOk
<1>5. BeliefsOk'
    BY <1>1, <1>4 DEF BeliefsOk, AboutMessages, disk
<1>6. SentOk' /\ MessagesOk'
    BY ServerRests, MessagesRest
<1>7. PassedWasHandedOver'
    BY DEF IInv, PassedWasHandedOver
<1> QED BY <1>2, <1>3, <1>5, <1>6, <1>7 DEF IInv

\* What a caller may do next: nothing, or ask something about no message.
LEMMA IdleFacts ==
    ASSUME NatsAssumption
    PROVE  Idle \in CallRecords /\ Idle.op \notin AboutMessages \cup {"ensured"} /\ Idle.ids = {}
BY DEF Idle, CallRecords, Ops, AboutMessages, Unproven, Evidences, StreamShapes

\* Connect, ProbeAgain and EnsureStream ask; Probe, StreamInfo answer.
LEMMA AskKeeps ==
    ASSUME NatsAssumption, IInv, NEW c \in Callers,
           Connect(c) \/ ProbeAgain(c) \/ EnsureStream(c)
    PROVE  IInv'
<1>1. PICK op \in {"probing", "ensuring"}, f \in Evidences :
          call' = [call EXCEPT ![c] = [op |-> op, ids |-> {}, facts |-> f, echo |-> NoStream]]
    <2>1. Unproven \in Evidences /\ facts \in Evidences
        BY ServerTypes, ToldIsStored DEF IInv
    <2> QED BY <2>1 DEF Connect, ProbeAgain, EnsureStream, Calling
<1> DEFINE k == [op |-> op, ids |-> {}, facts |-> f, echo |-> NoStream]
<1>2. /\ k \in CallRecords /\ k.op \notin AboutMessages \cup {"ensured"} /\ k.ids = {}
    BY DEF CallRecords, Ops, AboutMessages, StreamShapes
<1>3. /\ UNCHANGED <<req, server, disk, wire, taken, doc, handed, count, facts, known, told>>
      /\ conn' \in {conn, "probing"}
    BY DEF Connect, ProbeAgain, EnsureStream, client
<1> HIDE DEF k
<1>4. call' = [call EXCEPT ![c] = k]
    BY <1>1 DEF k
<1> QED BY <1>2, <1>3, <1>4, ToldIsStored, ClientStep

LEMMA ProbeKeeps ==
    ASSUME NatsAssumption, IInv, NEW c \in Callers, Probe(c)
    PROVE  IInv'
<1>1. facts' \in {facts, Facts(server)}
    BY DEF Probe, Evidence, OverSystemAccount, IInv, BeliefsOk, TypesOk, NatsAssumption
<1>2. /\ UNCHANGED <<req, server, disk, wire, taken, doc, handed, count, known, told>>
      /\ conn' \in {conn, "open"} /\ call' = [call EXCEPT ![c] = Idle]
    BY DEF Probe, Returns
<1> QED BY <1>1, <1>2, IdleFacts, ToldIsStored, ClientStep

LEMMA StreamInfoKeeps ==
    ASSUME NatsAssumption, IInv, NEW c \in Callers, StreamInfo(c)
    PROVE  IInv'
<1>1. known' = stream /\ stream \in StreamShapes
    BY DEF StreamInfo, Remembered, IInv, BeliefsOk, TypesOk
<1>2. /\ UNCHANGED <<req, server, disk, wire, taken, doc, handed, count, facts, conn, told>>
      /\ call' = [call EXCEPT ![c] = Idle]
    BY DEF StreamInfo, Returns
<1> QED BY <1>1, <1>2, IdleFacts, ToldIsStored, ClientStep

\* An answer, good or bad, about a message that was sent.
LEMMA AnswerKeeps ==
    ASSUME NatsAssumption, IInv, NEW c \in Callers, Acked(c) \/ Strayed(c) \/ Deadline(c)
    PROVE  IInv'
<1>1. /\ UNCHANGED <<req, server, disk, wire, taken, doc, handed, count, facts, conn, known>>
      /\ call' = [call EXCEPT ![c] = Idle]
    BY DEF Acked, Strayed, Deadline, Returns, client
<1>2. /\ told' \in [Ids -> {"nothing", "ok", "failed"}]
      /\ \A i \in Ids : told'[i] = "ok" => place[i] # "nowhere"
    <2>1. CASE Acked(c)
        <3>1. \A i \in call[c].ids : place[i] # "nowhere"
            BY <2>1 DEF Acked, IInv, CallsOk, CallOk
        <3>2. told' = [i \in Ids |-> IF i \in call[c].ids /\ told[i] # "ok" THEN "ok" ELSE told[i]]
            BY <2>1 DEF Acked, Tell
        <3> QED BY <3>1, <3>2, ToldIsStored
    <2>2. CASE Strayed(c) \/ Deadline(c)
        <3>1. told' = [i \in Ids |-> IF i \in call[c].ids /\ told[i] # "ok" THEN "failed" ELSE told[i]]
            BY <2>2 DEF Strayed, Deadline, Tell
        <3> QED BY <3>1, ToldIsStored
    <2> QED BY <2>1, <2>2
<1> QED BY <1>1, <1>2, IdleFacts, ToldIsStored, ClientStep

\* Steps that are no call: the caller hands over a document, or closes.
LEMMA HandleKeeps ==
    ASSUME NatsAssumption, IInv, NEW c \in Callers, ApplyVarz(c) \/ Close(c)
    PROVE  IInv'
<1>1. /\ UNCHANGED <<req, server, disk, wire, taken, doc, handed, count, known, told, call>>
      /\ conn' \in {"none", "probing", "open", "closed"}
      /\ facts' \in {facts, Facts(server)}
    BY ToldIsStored DEF ApplyVarz, Close, IInv, BeliefsOk
<1>2. SentOk' /\ MessagesOk'
    BY <1>1, ServerRests, MessagesRest, ToldIsStored
<1>3. TypesOk' /\ BeliefsOk' /\ CallsOk' /\ PassedWasHandedOver'
    BY <1>1 DEF IInv, TypesOk, BeliefsOk, CallsOk, CallOk, PassedWasHandedOver, disk
<1> QED BY <1>2, <1>3 DEF IInv

\* The stream comes to be, when there was none: nothing can have been sent.
LEMMA GetOrCreateKeeps ==
    ASSUME NatsAssumption, IInv, NEW c \in Callers, GetOrCreate(c)
    PROVE  IInv'
<1>1. TypesOk /\ BeliefsOk /\ SentOk /\ CallsOk /\ MessagesOk
    BY DEF IInv
<1>2. /\ stream' \in StreamShapes /\ stream' # NoStream
      /\ stream # NoStream => stream' = stream
    BY <1>1, ServerTypes DEF GetOrCreate, TypesOk
<1>3. /\ UNCHANGED <<req, server, place, copies, age, wire, taken, doc, told, handed, count>>
      /\ UNCHANGED <<conn, facts, known>>
    BY DEF GetOrCreate, client
<1> DEFINE k == [call[c] EXCEPT !.op = "ensured", !.echo = stream']
<1>4. /\ k \in CallRecords /\ k.op = "ensured" /\ k.ids = {} /\ k.echo = stream'
    BY <1>1, <1>2 DEF GetOrCreate, TypesOk, CallsOk, CallOk, CallRecords, Ops, AboutMessages
<1>5. call' = [call EXCEPT ![c] = k]
    BY <1>1 DEF GetOrCreate, TypesOk
<1> HIDE DEF k
<1>6. call' \in [Callers -> CallRecords] /\ CallsOk'
    BY <1>3, <1>4, <1>5, OneCall
<1>7. TypesOk'
    BY <1>1, <1>2, <1>3, <1>6 DEF TypesOk
<1>8. BeliefsOk'
    <2>1. \A d \in Callers : call'[d] = IF d = c THEN k ELSE call[d]
        BY <1>1, <1>5 DEF TypesOk
    <2> QED BY <1>1, <1>2, <1>3, <1>4, <2>1 DEF BeliefsOk
<1>9. SentOk'
    <2>1. Sent' => Sent
        BY <1>3 DEF Sent
    <2>2. Vouched => Vouched'
        BY <1>2, <1>3 DEF Vouched, Gate, Fits, AckMeaning, Facts
    <2> QED BY <1>1, <1>3, <2>1, <2>2 DEF SentOk
<1>10. MessagesOk'
    <2> SUFFICES ASSUME NEW i \in Ids PROVE MessageOk(i)'
        BY DEF MessagesOk
    <2>1. MessageOk(i)
        BY <1>1 DEF MessagesOk
    <2>2. CASE place[i] = "nowhere"
        BY <1>3, <2>1, <2>2 DEF MessageOk
    <2>3. CASE place[i] # "nowhere"
        <3>1. stream' = stream
            BY <1>2, <2>1, <2>3 DEF MessageOk
        <3> QED BY <1>3, <2>1, <3>1 DEF MessageOk, Stored
    <2> QED BY <2>2, <2>3
<1>11. PassedWasHandedOver'
    BY <1>3 DEF IInv, PassedWasHandedOver
<1> QED BY <1>6, <1>7, <1>8, <1>9, <1>10, <1>11 DEF IInv

\* A publish to a stream the client knows is taken up, and no other.
LEMMA PublishKeeps ==
    ASSUME NatsAssumption, IInv, NEW c \in Callers, NEW i \in Ids, Publish(c, i)
    PROVE  IInv'
<1>1. TypesOk /\ BeliefsOk
    BY DEF IInv
<1>2. /\ UNCHANGED <<req, server, disk, wire, taken, doc, told, handed>>
      /\ UNCHANGED <<conn, facts, known>>
      /\ count' \in [cuts : Nat, changes : Nat, calls : Nat] /\ count'.changes = 0
    BY <1>1 DEF Publish, client, TypesOk, BeliefsOk
<1> DEFINE k == IF known = NoStream THEN Idle
                ELSE [op |-> "judging", ids |-> {i}, facts |-> Unproven, echo |-> known]
<1>3. /\ k \in CallRecords /\ k.op \in {"idle", "judging"}
      /\ k.op \notin AboutMessages => k.ids = {}
      /\ k.ids # {} => k.ids = {i}
      /\ k.op = "judging" => k.echo = known /\ known # NoStream
    BY <1>1, ServerTypes DEF CallRecords, Ops, AboutMessages, Idle, TypesOk
<1>4. call' = [call EXCEPT ![c] = k]
    BY DEF Publish
<1> HIDE DEF k
<1>5. call' \in [Callers -> CallRecords] /\ CallsOk'
    BY <1>2, <1>3, <1>4, OneCall DEF disk
<1>6. TypesOk'
    BY <1>1, <1>2, <1>5 DEF TypesOk, disk
<1>7. BeliefsOk'
    <2>1. \A d \in Callers : call'[d] = IF d = c THEN k ELSE call[d]
        BY <1>1, <1>4 DEF TypesOk
    <2> QED BY <1>1, <1>2, <1>3, <2>1 DEF BeliefsOk, disk
<1>8. SentOk' /\ MessagesOk' /\ PassedWasHandedOver'
    BY <1>2, ServerRests, MessagesRest, ToldIsStored DEF IInv, PassedWasHandedOver
<1> QED BY <1>5, <1>6, <1>7, <1>8 DEF IInv

\* It is sent only if what the client believes of server and stream satisfies
\* the policy, and what it believes is so.
LEMMA JudgeKeeps ==
    ASSUME NatsAssumption, IInv, NEW c \in Callers, Judge(c)
    PROVE  IInv'
<1>1. TypesOk /\ BeliefsOk /\ CallsOk
    BY DEF IInv
<1>2. /\ UNCHANGED <<req, server, disk, taken, doc, told, handed, count>>
      /\ UNCHANGED <<conn, facts, known>>
    BY DEF Judge, client
<1>3. CASE Gate(facts, call[c].echo) # "ok"
    <2>1. wire' = wire /\ call' = [call EXCEPT ![c] = Idle]
        BY <1>3 DEF Judge, Returns
    <2> QED BY <1>1, <1>2, <2>1, IdleFacts, ToldIsStored, ClientStep
<1>4. CASE Gate(facts, call[c].echo) = "ok"
    <2> DEFINE k == [op |-> "publishing", ids |-> call[c].ids, facts |-> facts, echo |-> NoStream]
    <2>1. wire' = wire \cup call[c].ids /\ call' = [call EXCEPT ![c] = k]
        BY <1>4 DEF Judge, Calling
    <2>2. facts \in Evidences
        BY ServerTypes, ToldIsStored, <1>1
    <2>3. call[c].ids \subseteq Ids /\ (call[c].ids # {} => \E i \in Ids : call[c].ids = {i})
        BY <1>1 DEF TypesOk, CallRecords, CallsOk, CallOk
    <2>4. k \in CallRecords /\ k.op = "publishing" /\ k.ids = call[c].ids
        BY <2>2, <2>3 DEF CallRecords, Ops, StreamShapes
    <2> HIDE DEF k
    <2>5. call' \in [Callers -> CallRecords] /\ CallsOk'
        BY <1>2, <2>1, <2>3, <2>4, OneCall DEF disk, AboutMessages
    <2>6. TypesOk'
        BY <1>1, <1>2, <2>1, <2>3, <2>5 DEF TypesOk, disk
    <2>7. BeliefsOk'
        <3>1. \A d \in Callers : call'[d] = IF d = c THEN k ELSE call[d]
            BY <1>1, <2>1 DEF TypesOk
        <3> QED BY <1>1, <1>2, <2>4, <3>1 DEF BeliefsOk, disk
    <2>8. SentOk'
        <3> SUFFICES ASSUME req.policy # "ackIsMemoryOnly" PROVE Vouched'
            BY <1>2 DEF SentOk
        <3>1. facts # Unproven
            BY <1>4 DEF Gate, AckMeaning, Unproven
        <3>2. call[c].echo = stream /\ stream # NoStream
            BY <1>1 DEF BeliefsOk, Judge
        <3>3. Vouched
            BY <1>1, <1>4, <3>1, <3>2 DEF BeliefsOk, Vouched
        <3> QED BY <1>2, <3>3 DEF Vouched, Gate, Fits, AckMeaning, Facts, disk
    <2>9. MessagesOk' /\ PassedWasHandedOver'
        BY <1>2, MessagesRest, ToldIsStored DEF IInv, PassedWasHandedOver
    <2> QED BY <2>5, <2>6, <2>7, <2>8, <2>9 DEF IInv
<1> QED BY <1>3, <1>4

\* Taking messages back: a batch is delivered, and what is acknowledged was
\* handed to a caller.
LEMMA ConsumeKeeps ==
    ASSUME NatsAssumption, IInv, NEW c \in Callers,
           Fetch(c) \/ \E i \in Ids : Ack(c, i)
    PROVE  IInv'
<1>1. TypesOk /\ BeliefsOk
    BY DEF IInv
<1>2. UNCHANGED <<req, server, disk, wire, doc, call, told, conn, facts, known>>
    BY DEF Fetch, Ack, client
<1>3. /\ taken' \in [Ids -> {"pending", "delivered", "acked"}]
      /\ handed' \subseteq Ids /\ handed \subseteq handed'
      /\ \A i \in Ids : taken'[i] = "acked" => taken[i] = "acked" \/ i \in handed'
      /\ count' \in [cuts : Nat, changes : Nat, calls : Nat] /\ count'.changes = 0
    <2>1. CASE Fetch(c)
        <3> DEFINE batch == {i \in Ids : place[i] \in {"memory", "disk"} /\ taken[i] = "pending"}
        <3>1. /\ taken' = [i \in Ids |-> IF i \in batch THEN "delivered" ELSE taken[i]]
              /\ handed' = handed \cup batch \/ handed' = handed
            BY <2>1 DEF Fetch, AckPolicy
        <3>2. count' \in [cuts : Nat, changes : Nat, calls : Nat] /\ count'.changes = 0
            BY <1>1, <2>1 DEF Fetch, TypesOk, BeliefsOk
        <3> QED BY <1>1, <3>1, <3>2 DEF TypesOk
    <2>2. CASE \E i \in Ids : Ack(c, i)
        BY <1>1, <2>2 DEF Ack, TypesOk, BeliefsOk
    <2> QED BY <2>1, <2>2
<1>4. SentOk' /\ MessagesOk'
    BY <1>2, ServerRests, MessagesRest, ToldIsStored
<1>5. TypesOk' /\ BeliefsOk'
    BY <1>1, <1>2, <1>3 DEF TypesOk, BeliefsOk, disk
<1>6. CallsOk'
    BY <1>2 DEF IInv, CallsOk, CallOk, disk
<1>7. PassedWasHandedOver'
    BY <1>3 DEF IInv, PassedWasHandedOver
<1> QED BY <1>4, <1>5, <1>6, <1>7 DEF IInv

LEMMA StutterKeeps ==
    ASSUME IInv, UNCHANGED vars
    PROVE  IInv'
<1>1. UNCHANGED <<req, server, disk, wire>> /\ told' = told
    BY DEF vars, disk
<1>2. SentOk' /\ MessagesOk'
    BY <1>1, ServerRests, MessagesRest, ToldIsStored
<1>3. TypesOk' /\ BeliefsOk' /\ CallsOk' /\ PassedWasHandedOver'
    BY DEF IInv, TypesOk, BeliefsOk, CallsOk, CallOk, PassedWasHandedOver, vars
<1> QED BY <1>2, <1>3 DEF IInv

LEMMA NextKeeps ==
    ASSUME NatsAssumption, MaxChanges = 0, IInv, [Next]_vars
    PROVE  IInv'
<1>1. ASSUME NEW c \in Callers, Call(c) PROVE IInv'
    <2>1. CASE \E i \in Ids : Publish(c, i)
        BY <2>1, PublishKeeps
    <2>2. CASE Connect(c) \/ ProbeAgain(c) \/ EnsureStream(c)
        BY <2>2, AskKeeps
    <2>3. CASE Probe(c) \/ StreamInfo(c) \/ GetOrCreate(c)
        BY <2>3, ProbeKeeps, StreamInfoKeeps, GetOrCreateKeeps
    <2>4. CASE ApplyVarz(c) \/ Close(c) \/ Judge(c) \/ Acked(c) \/ Strayed(c) \/ Deadline(c)
        BY <2>4, HandleKeeps, JudgeKeeps, AnswerKeeps
    <2>5. CASE Fetch(c) \/ \E i \in Ids : Ack(c, i)
        BY <2>5, ConsumeKeeps
    <2> QED BY <1>1, <2>1, <2>2, <2>3, <2>4, <2>5 DEF Call
<1>2. ASSUME NEW i \in Ids, Store(i) \/ Capture(i) \/ Redeliver(i) PROVE IInv'
    BY <1>2, StoreKeeps, CaptureKeeps, RedeliverKeeps
<1>3. CASE Sync \/ Tick \/ PowerCut
    BY <1>3, SyncKeeps, TickKeeps, PowerCutKeeps
<1>4. CASE UNCHANGED vars
    BY <1>4, StutterKeeps
<1> QED BY <1>1, <1>2, <1>3, <1>4 DEF Next

\* What an acknowledgement was said to mean, it means, however often the power
\* fails, however calls overlap and deadlines pass: on disk under the default
\* policy; lost within the accepted lag at worst under the next, if the server
\* states its interval; not in another stream; what is repeated under one message id is stored once; and the consumer moves past
\* nothing that no caller was handed.  The server keeps its configuration.
THEOREM AcknowledgementHolds ==
    ASSUME NatsAssumption, MaxChanges = 0
    PROVE  Spec => []AckMeansWhatItSays
<1>1. Init => IInv
    BY InitHolds
<1>2. IInv /\ [Next]_vars => IInv'
    BY NextKeeps
<1>3. IInv => AckMeansWhatItSays
    BY InvariantImplies
<1> QED BY <1>1, <1>2, <1>3, PTL DEF Spec

----------------------------------------------------------------------------
(* QUIC: what a caller reads.                                              *)

\* How far the reader of a stream has come, in events it has announced.
Stage(r) == CASE r = "none" -> 0 [] r = "reading" -> 1 [] r = "dataSent" -> 2 [] r = "done" -> 3

Tasks == {"none", "accepted", "inserted", "serving", "readingUni", "lost", "forgotten",
          "swept", "ended"}

Events == EventKinds \X Sessions \X (Streams \cup {0})
Targets == (Sessions \cup {0}) \X (Streams \cup {0})
CallStates == [op : {"idle", "sending", "closing", "polling", "holding"}, to : Targets,
               late : BOOLEAN]

QuicTypesOk ==
    /\ QuicTypeOK
    /\ task \in [Sessions -> Tasks]
    /\ queue \in Seq(Events)
    /\ doing \in [Threads -> CallStates]

\* The maps go first, then the announcement: who is in a map has a task that
\* has not let go of it, and whose end was announced has one that has ended.
TasksOk ==
    /\ \A s \in sessions : task[s] \in {"inserted", "serving", "readingUni", "lost"}
    /\ \A k \in streams : task[k[1]] \in {"serving", "readingUni", "lost", "forgotten"}
    /\ \A i \in DOMAIN queue : queue[i][1] = "sessionClosed" => task[queue[i][2]] = "ended"
    /\ \A s \in closed : task[s] = "ended"

\* A stream that is accepted and not announced has no reader; events that wait
\* tell of a stream no more than its reader has announced.
ReadersOk ==
    /\ \A s \in Sessions : opening[s] # 0 => reader[<<s, opening[s]>>] = "none"
    /\ \A i \in DOMAIN queue :
          queue[i][3] # 0 => Rank(queue[i]) <= Stage(reader[<<queue[i][2], queue[i][3]>>])

QuicInv == QuicTypesOk /\ TasksOk /\ ReadersOk /\ StreamEventsInOrder /\ NoWriteAfterClosed

-----------------------------------------------------------------------------
(* Starting: a configuration that is accepted has a timeout QUIC can write. *)

\* The least of the faults that apply is one of them.
LEMMA FaultIs ==
    ASSUME NEW why, DOMAIN why = 1..5, \A i \in 1..5 : why[i][2] \in Statuses \ {"ok"}
    PROVE  /\ First(why) \in Statuses
           /\ First(why) = "ok" => \A i \in 1..5 : ~why[i][1]
<1> DEFINE apply == {i \in 1..5 : why[i][1]}
<1>1. CASE apply = {}
    BY <1>1 DEF First, Statuses
<1>2. CASE apply # {}
    <2>1. \E i \in apply : \A j \in apply : i <= j
        BY <1>2
    <2> DEFINE k == CHOOSE i \in apply : \A j \in apply : i <= j
    <2>2. k \in 1..5
        BY <2>1
    <2>3. First(why) = why[k][2]
        BY <1>2 DEF First
    <2> QED
        BY <2>2, <2>3
<1> QED
    BY <1>1, <1>2

LEMMA RefusalTells ==
    ASSUME QuicAssumption, NEW c \in Configs
    PROVE  /\ Refusal(c) \in Statuses
           /\ Refusal(c) = "ok" => c.idle \in 1000..LongestIdle
<1>1. /\ DOMAIN Parse(c) = 1..5 /\ DOMAIN Build(c) = 1..5
      /\ \A i \in 1..5 : /\ Parse(c)[i][2] \in Statuses \ {"ok"}
                         /\ Build(c)[i][2] \in Statuses \ {"ok"}
    BY DEF Parse, Build, Statuses
<1>2. /\ First(Parse(c)) \in Statuses /\ First(Build(c)) \in Statuses
      /\ First(Parse(c)) = "ok" => ~Parse(c)[3][1]
      /\ First(Build(c)) = "ok" => ~Build(c)[3][1]
    BY <1>1, FaultIs
<1>3. c.idle < 1000 => Parse(c)[3][1]
    BY DEF Parse
<1>4. c.idle > LongestIdle => Build(c)[3][1]
    BY DEF Build
<1>5. c.idle \in Nat /\ LongestIdle \in Nat
    BY DEF QuicAssumption
<1> QED
    BY <1>2, <1>3, <1>4, <1>5 DEF Refusal
-----------------------------------------------------------------------------
(* The queue of events.                                                    *)

\* An event that waits was waiting before, or is the one emitted; it is later
\* than all that wait of its stream, so the order is kept.
LEMMA Emitted ==
    ASSUME QuicTypesOk, ReadersOk, StreamEventsInOrder, QuicAssumption,
           NEW e \in Events, Emit(e),
           e[3] # 0 => Stage(reader[<<e[2], e[3]>>]) < Rank(e)
    PROVE  /\ queue' \in Seq(Events) /\ Len(queue') <= Depth
           /\ \A i \in DOMAIN queue' :
                 \/ i \in DOMAIN queue /\ queue'[i] = queue[i]
                 \/ queue'[i] = e
           /\ StreamEventsInOrder'
<1>1. CASE Len(queue) >= Depth
    <2>1. queue' = queue
        BY <1>1 DEF Emit, QuicTypesOk, QuicAssumption
    <2> QED
        BY <2>1 DEF QuicTypesOk, QuicTypeOK, StreamEventsInOrder, Rank
<1>2. CASE Len(queue) < Depth
    <2>1. queue' = Append(queue, e) /\ queue \in Seq(Events)
        BY <1>2 DEF Emit, QuicTypesOk
    <2>2. /\ queue' \in Seq(Events) /\ Len(queue') = Len(queue) + 1
          /\ DOMAIN queue = 1..Len(queue) /\ DOMAIN queue' = 1..(Len(queue) + 1)
          /\ \A i \in 1..Len(queue) : queue'[i] = queue[i]
          /\ queue'[Len(queue) + 1] = e
          /\ Len(queue) \in Nat
        BY <2>1
    <2>3. ASSUME NEW i \in DOMAIN queue', NEW j \in DOMAIN queue', i < j, queue'[i][3] # 0,
                 queue'[i][2] = queue'[j][2], queue'[i][3] = queue'[j][3]
          PROVE  Rank(queue'[i]) < Rank(queue'[j])
        <3>1. CASE j \in DOMAIN queue
            BY <2>2, <2>3, <3>1 DEF StreamEventsInOrder
        <3>2. CASE j = Len(queue) + 1
            <4>1. i \in DOMAIN queue /\ queue'[i] = queue[i] /\ queue'[j] = e
                BY <2>2, <2>3, <3>2
            <4>2. Rank(queue[i]) <= Stage(reader[<<e[2], e[3]>>])
                BY <4>1, <2>3 DEF ReadersOk
            <4>3. Rank(queue[i]) \in Nat /\ Rank(e) \in Nat
                BY DEF Rank
            <4>4. <<e[2], e[3]>> \in Keys
                BY <4>1, <2>3 DEF Events, Keys
            <4>5. Stage(reader[<<e[2], e[3]>>]) \in Nat
                BY <4>4 DEF Stage, QuicTypesOk, QuicTypeOK
            <4> QED
                BY <4>1, <4>2, <4>3, <4>5, <2>3
        <3> QED
            BY <3>1, <3>2, <2>2
    <2>4. StreamEventsInOrder'
        BY <2>3 DEF StreamEventsInOrder, Rank
    <2> QED
        BY <1>2, <2>2, <2>4 DEF QuicAssumption
<1> QED
    BY <1>1, <1>2 DEF QuicTypesOk, QuicAssumption

\* Taking the head away leaves the others as they were.
LEMMA Taken ==
    ASSUME QuicTypesOk, StreamEventsInOrder, QuicAssumption, queue # <<>>, queue' = Tail(queue)
    PROVE  /\ queue' \in Seq(Events) /\ Len(queue') <= Depth
           /\ \A i \in DOMAIN queue' : i + 1 \in DOMAIN queue /\ queue'[i] = queue[i + 1]
           /\ StreamEventsInOrder'
<1>1. queue \in Seq(Events) /\ Len(queue) \in Nat /\ Len(queue) <= Depth
    BY DEF QuicTypesOk, QuicTypeOK
<1>2. /\ queue' \in Seq(Events) /\ Len(queue') = Len(queue) - 1
      /\ DOMAIN queue = 1..Len(queue) /\ DOMAIN queue' = 1..(Len(queue) - 1)
      /\ \A i \in 1..(Len(queue) - 1) : queue'[i] = queue[i + 1]
    BY <1>1
<1>3. StreamEventsInOrder'
    <2> SUFFICES ASSUME NEW i \in DOMAIN queue', NEW j \in DOMAIN queue', i < j,
                        queue'[i][3] # 0,
                        queue'[i][2] = queue'[j][2], queue'[i][3] = queue'[j][3]
                 PROVE  Rank(queue'[i]) < Rank(queue'[j])
        BY DEF StreamEventsInOrder, Rank
    <2>1. i + 1 \in DOMAIN queue /\ j + 1 \in DOMAIN queue /\ i + 1 < j + 1
        BY <1>1, <1>2
    <2>2. queue'[i] = queue[i + 1] /\ queue'[j] = queue[j + 1]
        BY <1>2
    <2> QED
        BY <2>1, <2>2 DEF StreamEventsInOrder
<1> QED
    BY <1>1, <1>2, <1>3 DEF QuicAssumption
-----------------------------------------------------------------------------
(* The steps.                                                              *)

LEMMA InitEstablishes == ASSUME QuicAssumption, QuicInit PROVE QuicInv
<1>1. QuicTypesOk
    <2>1. QuicTypeOK
        <3>1. queue = <<>> /\ DOMAIN queue = {} /\ Len(queue) <= Depth
            BY DEF QuicInit, QuicAssumption
        <3>2. /\ plain \in [Sessions -> 0..MaxPlain] /\ idle \in 0..LongestIdle
              /\ opening \in [Sessions -> Streams \cup {0}]
              /\ reader \in [Keys -> {"none", "reading", "dataSent", "done"}]
            BY DEF QuicInit, QuicAssumption
        <3>3. \A c \in Threads : doing[c].op = "idle"
            BY DEF QuicInit, Resting
        <3> QED
            BY <3>1, <3>2, <3>3 DEF QuicInit, QuicTypeOK
    <2>2. task \in [Sessions -> Tasks] /\ queue \in Seq(Events)
        BY DEF QuicInit, Tasks
    <2>3. Resting \in CallStates
        BY DEF Resting, CallStates, Targets
    <2> QED
        BY <2>1, <2>2, <2>3 DEF QuicInit, QuicTypesOk
<1>2. TasksOk /\ ReadersOk /\ StreamEventsInOrder
    BY DEF QuicInit, TasksOk, ReadersOk, StreamEventsInOrder
<1>3. NoWriteAfterClosed
    BY DEF QuicInit, NoWriteAfterClosed, Resting
<1> QED
    BY <1>1, <1>2, <1>3 DEF QuicInv

\* What the peers do is not seen before a task or a reader takes it up.
LEMMA PeersKeep ==
    ASSUME QuicInv,
           UNCHANGED <<ends, opening, plain, task, maps, reader, queue, closed, doing>>
    PROVE  QuicInv'
<1>1. QuicTypesOk'
    BY DEF QuicInv, QuicTypesOk, QuicTypeOK, ends, maps
<1> QED
    BY <1>1 DEF QuicInv, TasksOk, ReadersOk, StreamEventsInOrder, Rank, NoWriteAfterClosed, maps

LEMMA StartKeeps == ASSUME QuicAssumption, QuicInv, Start PROVE QuicInv'
<1>1. PICK c \in Configs :
          /\ said' = Refusal(c)
          /\ IF said' # "ok" THEN UNCHANGED <<handle, running, idle>>
             ELSE handle' = "live" /\ running' = TRUE /\ idle' = c.idle
    BY DEF Start
<1>2. said' \in Statuses /\ idle' \in 0..LongestIdle
    BY <1>1, RefusalTells DEF QuicInv, QuicTypesOk, QuicTypeOK, QuicAssumption
<1>3. handle' \in {"none", "live", "stopped"} /\ running' \in BOOLEAN
    BY <1>1 DEF QuicInv, QuicTypesOk, QuicTypeOK
<1>4. UNCHANGED <<plain, opening, task, maps, reader, queue, closed, doing>>
    BY DEF Start
<1>5. QuicTypesOk'
    BY <1>2, <1>3, <1>4 DEF QuicInv, QuicTypesOk, QuicTypeOK, maps
<1> QED
    BY <1>4, <1>5 DEF QuicInv, TasksOk, ReadersOk, StreamEventsInOrder, Rank, NoWriteAfterClosed, maps

\* A task goes on without a word: it enters a map, or leaves one, or neither.
LEMMA SilentTaskKeeps ==
    ASSUME QuicInv, NEW s \in Sessions,
           Accept(s) \/ Insert(s) \/ ReadUni(s) \/ Lose(s) \/ Forget(s) \/ ForgetStreams(s)
    PROVE  QuicInv'
<1>1. /\ UNCHANGED <<ends, opening, plain, reader, queue, closed, doing>>
      /\ sessions' \subseteq Sessions /\ streams' \subseteq Keys
      /\ task' \in [Sessions -> Tasks]
    BY DEF QuicInv, QuicTypesOk, QuicTypeOK, Tasks, Moves, maps, Keys, Notices,
           Accept, Insert, ReadUni, Lose, Forget, ForgetStreams
<1>2. QuicTypesOk'
    BY <1>1 DEF QuicInv, QuicTypesOk, QuicTypeOK, ends
<1>3. \A r \in Sessions : task[r] = "ended" => task'[r] = "ended"
    BY DEF QuicInv, QuicTypesOk, Moves, Notices, Accept, Insert, ReadUni, Lose, Forget, ForgetStreams
<1>4. TasksOk'
    <2>1. \A r \in sessions' : task'[r] \in {"inserted", "serving", "readingUni", "lost"}
        <3>1. CASE Insert(s)
            BY <3>1 DEF QuicInv, QuicTypesOk, QuicTypeOK, TasksOk, Moves, Insert
        <3>2. CASE Forget(s)
            BY <3>2 DEF QuicInv, QuicTypesOk, QuicTypeOK, TasksOk, Moves, Forget
        <3>3. CASE Accept(s) \/ ReadUni(s) \/ Lose(s) \/ ForgetStreams(s)
            <4>1. sessions' = sessions
                BY <3>3 DEF maps, Accept, ReadUni, Lose, ForgetStreams
            <4> QED
                BY <3>3, <4>1 DEF QuicInv, QuicTypesOk, QuicTypeOK, TasksOk, Moves, Notices,
                                  Accept, ReadUni, Lose, ForgetStreams
        <3> QED
            BY <3>1, <3>2, <3>3
    <2>2. \A k \in streams' : task'[k[1]] \in {"serving", "readingUni", "lost", "forgotten"}
        <3>1. CASE ForgetStreams(s)
            BY <3>1 DEF QuicInv, QuicTypesOk, QuicTypeOK, TasksOk, Moves, Keys, Owned, ForgetStreams
        <3>2. CASE ~ForgetStreams(s)
            <4>1. streams' = streams
                BY <3>2 DEF maps, Accept, Insert, ReadUni, Lose, Forget
            <4>2. \A r \in Sessions : task[r] \in {"serving", "readingUni", "lost", "forgotten"}
                        => task'[r] \in {"serving", "readingUni", "lost", "forgotten"}
                BY <3>2 DEF QuicInv, QuicTypesOk, Moves, Notices, Accept, Insert, ReadUni, Lose, Forget
            <4>3. \A k \in streams : k[1] \in Sessions
                BY DEF QuicInv, QuicTypesOk, QuicTypeOK, Keys
            <4> QED
                BY <4>1, <4>2, <4>3 DEF QuicInv, TasksOk
        <3> QED
            BY <3>1, <3>2
    <2>3. \A i \in DOMAIN queue : queue[i][2] \in Sessions
        BY DEF QuicInv, QuicTypesOk, Events
    <2> QED
        BY <1>1, <1>3, <2>1, <2>2, <2>3 DEF TasksOk, QuicInv, QuicTypesOk, QuicTypeOK
<1> QED
    BY <1>1, <1>2, <1>4 DEF QuicInv, ReadersOk, StreamEventsInOrder, Rank, NoWriteAfterClosed

\* A task says something of its session; of the end only when it has let go.
LEMMA SpeakingTaskKeeps ==
    ASSUME QuicAssumption, QuicInv, NEW s \in Sessions,
           AnnounceOpened(s) \/ Plain(s) \/ UniEnds(s) \/ AnnounceClosed(s)
    PROVE  QuicInv'
<1>1. PICK kind \in {"sessionOpened", "message", "sessionClosed"} :
           Emit(<<kind, s, 0>>) /\ (kind = "sessionClosed" => task'[s] = "ended")
    BY DEF AnnounceOpened, Plain, UniEnds, AnnounceClosed, AnnouncedFrom, QuicInv, QuicTypesOk
<1> DEFINE e == <<kind, s, 0>>
<1>2. e \in Events /\ e[1] = kind /\ e[2] = s /\ e[3] = 0
    BY DEF Events, EventKinds
<1>3. /\ queue' \in Seq(Events) /\ Len(queue') <= Depth
      /\ \A i \in DOMAIN queue' :
            \/ i \in DOMAIN queue /\ queue'[i] = queue[i]
            \/ queue'[i] = e
      /\ StreamEventsInOrder'
    BY <1>1, <1>2, Emitted DEF QuicInv
<1>4. /\ UNCHANGED <<ends, opening, maps, reader, closed, doing>>
      /\ plain' \in [Sessions -> 0..MaxPlain]
    BY DEF AnnounceOpened, Plain, UniEnds, AnnounceClosed, QuicInv, QuicTypesOk, QuicTypeOK, QuicAssumption
<1>5. /\ task' \in [Sessions -> Tasks]
      /\ \A r \in Sessions : task[r] = "ended" => task'[r] = "ended"
      /\ \A r \in Sessions : \A m \in {{"inserted", "serving", "readingUni", "lost"},
                                       {"serving", "readingUni", "lost", "forgotten"}} :
            task[r] \in m => task'[r] \in m
    BY DEF AnnounceOpened, Plain, UniEnds, AnnounceClosed, AnnouncedFrom, Moves, Tasks,
           QuicInv, QuicTypesOk
<1>6. QuicTypesOk'
    BY <1>3, <1>4, <1>5 DEF QuicInv, QuicTypesOk, QuicTypeOK, ends, maps, Events
<1>7. TasksOk'
    <2>1. \A i \in DOMAIN queue : queue[i][2] \in Sessions
        BY DEF QuicInv, QuicTypesOk, Events
    <2>2. \A i \in DOMAIN queue' : queue'[i][1] = "sessionClosed" => task'[queue'[i][2]] = "ended"
        BY <1>1, <1>2, <1>3, <1>5, <2>1 DEF QuicInv, TasksOk
    <2> QED
        BY <1>4, <1>5, <2>2 DEF QuicInv, TasksOk, QuicTypesOk, QuicTypeOK, maps, Keys
<1>8. ReadersOk'
    BY <1>2, <1>3, <1>4 DEF QuicInv, ReadersOk, Rank
<1> QED
    BY <1>3, <1>4, <1>6, <1>7, <1>8 DEF QuicInv, NoWriteAfterClosed
\* A stream is put into its map while its session is served, and has no
\* reader until it is announced.
LEMMA AcceptBiKeeps ==
    ASSUME QuicAssumption, QuicInv, NEW k \in Keys, AcceptBi(k)
    PROVE  QuicInv'
<1>1. k[1] \in Sessions /\ k[2] \in Streams /\ k = <<k[1], k[2]>>
    BY DEF Keys
<1>2. /\ task[k[1]] = "serving" /\ reader[k] = "none" /\ opening[k[1]] = 0
      /\ opening' = [opening EXCEPT ![k[1]] = k[2]]
      /\ streams' = streams \cup {k} /\ reader' = reader
      /\ UNCHANGED <<ends, peer, plain, task, sessions, half, queue, closed, doing>>
    BY DEF AcceptBi, Spawned
<1>3. QuicTypesOk'
    BY <1>1, <1>2 DEF QuicInv, QuicTypesOk, QuicTypeOK, ends
<1>4. TasksOk'
    BY <1>1, <1>2 DEF QuicInv, TasksOk
<1>5. ReadersOk'
    <2>1. ASSUME NEW s \in Sessions, opening'[s] # 0 PROVE reader'[<<s, opening'[s]>>] = "none"
        <3>1. CASE s = k[1]
            BY <1>1, <1>2, <3>1 DEF QuicInv, QuicTypesOk, QuicTypeOK
        <3>2. CASE s # k[1]
            BY <1>2, <2>1, <3>2 DEF QuicInv, QuicTypesOk, QuicTypeOK, ReadersOk
        <3> QED
            BY <3>1, <3>2
    <2> QED
        BY <1>2, <2>1 DEF QuicInv, ReadersOk, Rank
<1> QED
    BY <1>2, <1>3, <1>4, <1>5 DEF QuicInv, StreamEventsInOrder, Rank, NoWriteAfterClosed

\* A reader comes further, and announces just that.
LEMMA ReaderSpeaks ==
    ASSUME QuicAssumption, QuicInv, NEW k \in Keys, NEW to \in {"reading", "dataSent", "done"},
           NEW kind \in {"streamOpened", "streamData", "streamClosed"},
           reader' = [reader EXCEPT ![k] = to], Emit(<<kind, k[1], k[2]>>),
           Stage(reader[k]) < Rank(<<kind, k[1], k[2]>>),
           Rank(<<kind, k[1], k[2]>>) <= Stage(to),
           opening' \in [Sessions -> Streams \cup {0}],
           \A s \in Sessions : opening'[s] # 0 => opening'[s] = opening[s] /\ <<s, opening[s]>> # k,
           UNCHANGED <<ends, peer, plain, task, maps, half, closed, doing>>
    PROVE  QuicInv'
<1> DEFINE e == <<kind, k[1], k[2]>>
<1>1. k[1] \in Sessions /\ k[2] \in Streams /\ k = <<k[1], k[2]>>
    BY DEF Keys
<1>2. e \in Events /\ e[2] = k[1] /\ e[3] = k[2] /\ e[1] # "sessionClosed"
    BY <1>1 DEF Events, EventKinds
<1>3. /\ queue' \in Seq(Events) /\ Len(queue') <= Depth
      /\ \A i \in DOMAIN queue' :
            \/ i \in DOMAIN queue /\ queue'[i] = queue[i]
            \/ queue'[i] = e
      /\ StreamEventsInOrder'
    BY <1>1, <1>2, Emitted DEF QuicInv
<1>4. reader' \in [Keys -> {"none", "reading", "dataSent", "done"}]
    BY DEF QuicInv, QuicTypesOk, QuicTypeOK
<1>5. QuicTypesOk'
    BY <1>3, <1>4 DEF QuicInv, QuicTypesOk, QuicTypeOK, ends, maps, Events
<1>6. TasksOk'
    BY <1>2, <1>3 DEF QuicInv, TasksOk, maps
<1>7. ReadersOk'
    <2>1. ASSUME NEW s \in Sessions, opening'[s] # 0 PROVE reader'[<<s, opening'[s]>>] = "none"
        <3>1. <<s, opening'[s]>> \in Keys
            BY <2>1 DEF Keys
        <3> QED
            BY <2>1, <3>1 DEF QuicInv, QuicTypesOk, QuicTypeOK, ReadersOk
    <2>2. ASSUME NEW i \in DOMAIN queue', queue'[i][3] # 0
          PROVE  Rank(queue'[i]) <= Stage(reader'[<<queue'[i][2], queue'[i][3]>>])
        <3> DEFINE key == <<queue'[i][2], queue'[i][3]>>
        <3>1. CASE queue'[i] = e
            <4>1. key = k /\ reader'[k] = to
                BY <1>1, <1>2, <3>1 DEF QuicInv, QuicTypesOk, QuicTypeOK
            <4> QED
                BY <3>1, <4>1
        <3>2. CASE i \in DOMAIN queue /\ queue'[i] = queue[i]
            <4>1. key \in Keys /\ Rank(queue[i]) <= Stage(reader[key])
                BY <2>2, <3>2, <1>3 DEF QuicInv, ReadersOk, Events, Keys
            <4>2. CASE key = k
                <5>1. reader'[k] = to
                    BY DEF QuicInv, QuicTypesOk, QuicTypeOK
                <5>2. /\ Rank(queue[i]) \in Nat /\ Rank(e) \in Nat /\ Stage(to) \in Nat
                      /\ Stage(reader[k]) \in Nat
                    BY DEF Rank, Stage, QuicInv, QuicTypesOk, QuicTypeOK
                <5> QED
                    BY <3>2, <4>1, <4>2, <5>1, <5>2
            <4>3. CASE key # k
                BY <3>2, <4>1, <4>3 DEF QuicInv, QuicTypesOk, QuicTypeOK
            <4> QED
                BY <4>2, <4>3
        <3> QED
            BY <3>1, <3>2, <1>3
    <2> QED
        BY <2>1, <2>2 DEF ReadersOk, Rank, Stage
<1> QED
    BY <1>3, <1>5, <1>6, <1>7 DEF QuicInv, NoWriteAfterClosed

LEMMA AnnounceStreamKeeps ==
    ASSUME QuicAssumption, QuicInv, NEW k \in Keys, AnnounceStream(k)
    PROVE  QuicInv'
<1>1. k[1] \in Sessions /\ k[2] \in Streams /\ k = <<k[1], k[2]>> /\ k[2] # 0
    BY DEF Keys, QuicAssumption
<1>2. opening[k[1]] = k[2] /\ reader[k] = "none"
    BY <1>1 DEF AnnounceStream, QuicInv, ReadersOk
<1>3. reader' = [reader EXCEPT ![k] = "reading"]
    BY <1>2 DEF AnnounceStream
<1>4. /\ opening' \in [Sessions -> Streams \cup {0}]
      /\ \A s \in Sessions : opening'[s] # 0 => opening'[s] = opening[s] /\ s # k[1]
    BY DEF AnnounceStream, QuicInv, QuicTypesOk, QuicTypeOK
<1>5. \A s \in Sessions : opening'[s] # 0 => opening'[s] = opening[s] /\ <<s, opening[s]>> # k
    BY <1>1, <1>4
<1>6. /\ Stage(reader[k]) < Rank(<<"streamOpened", k[1], k[2]>>)
      /\ Rank(<<"streamOpened", k[1], k[2]>>) <= Stage("reading")
    BY <1>2 DEF Stage, Rank
<1>7. /\ Emit(<<"streamOpened", k[1], k[2]>>)
      /\ UNCHANGED <<ends, peer, plain, task, maps, half, closed, doing>>
    BY DEF AnnounceStream
<1> QED
    BY <1>3, <1>4, <1>5, <1>6, <1>7, ReaderSpeaks

LEMMA ReadBiKeeps ==
    ASSUME QuicAssumption, QuicInv, NEW k \in Keys, ReadBi(k)
    PROVE  QuicInv'
<1>1. k[1] \in Sessions /\ k[2] \in Streams /\ k = <<k[1], k[2]>>
    BY DEF Keys
<1>2. reader[k] \in {"reading", "dataSent"}
    BY DEF ReadBi
<1>3. /\ opening' \in [Sessions -> Streams \cup {0}]
      /\ \A s \in Sessions : opening'[s] # 0 => opening'[s] = opening[s] /\ <<s, opening[s]>> # k
    BY <1>2 DEF ReadBi, QuicInv, QuicTypesOk, QuicTypeOK, ReadersOk
<1>4. UNCHANGED <<ends, peer, plain, task, maps, half, closed, doing>>
    BY DEF ReadBi
<1>5. CASE /\ reader[k] = "reading" /\ reader' = [reader EXCEPT ![k] = "dataSent"]
           /\ Emit(<<"streamData", k[1], k[2]>>)
    <2>1. /\ Stage(reader[k]) < Rank(<<"streamData", k[1], k[2]>>)
          /\ Rank(<<"streamData", k[1], k[2]>>) <= Stage("dataSent")
        BY <1>5 DEF Stage, Rank
    <2> QED
        BY <1>3, <1>4, <1>5, <2>1, ReaderSpeaks
<1>6. CASE /\ reader' = [reader EXCEPT ![k] = "done"]
           /\ Emit(<<"streamClosed", k[1], k[2]>>)
    <2>1. /\ Stage(reader[k]) < Rank(<<"streamClosed", k[1], k[2]>>)
          /\ Rank(<<"streamClosed", k[1], k[2]>>) <= Stage("done")
        BY <1>2 DEF Stage, Rank
    <2> QED
        BY <1>3, <1>4, <1>6, <2>1, ReaderSpeaks
<1> QED
    BY <1>5, <1>6 DEF ReadBi
\* A call begins with a session or stream that is in its map, so one whose end
\* nobody has read.
LEMMA WriteBegins ==
    ASSUME QuicInv, NEW c \in Threads, NEW op \in {"sending", "closing", "polling"},
           NEW k \in Targets, Begins(c, op, k),
           op = "sending" => k[1] \notin closed
    PROVE  /\ doing' \in [Threads -> CallStates]
           /\ NoWriteAfterClosed'
<1> DEFINE began == [op |-> op, to |-> k, late |-> k[1] \in closed]
<1>1. doing' = [doing EXCEPT ![c] = began]
    BY DEF Begins
<1>2. began \in CallStates
    BY DEF CallStates, Targets
<1>3. began.op = "sending" => ~began.late
    OBVIOUS
<1> QED
    BY <1>1, <1>2, <1>3 DEF QuicInv, QuicTypesOk, NoWriteAfterClosed

\* Calls that touch neither tasks nor events keep what is said of those.
LEMMA CallsKeep ==
    ASSUME QuicInv,
           doing' \in [Threads -> CallStates],
           NoWriteAfterClosed', streams' \subseteq streams,
           handle' \in {"none", "live", "stopped"},
           UNCHANGED <<running, idle, said, opening, plain, task, sessions, reader, queue, closed>>
    PROVE  QuicInv'
<1>1. QuicTypesOk'
    BY DEF QuicInv, QuicTypesOk, QuicTypeOK, CallStates, Targets
<1> QED
    BY <1>1 DEF QuicInv, TasksOk, ReadersOk, StreamEventsInOrder, Rank

LEMMA SendKeeps ==
    ASSUME QuicInv, NEW c \in Threads, NEW s \in Sessions, Send(c, s)
    PROVE  QuicInv'
<1>1. s \notin closed /\ Begins(c, "sending", <<s, 0>>)
    BY DEF Send, QuicInv, TasksOk
<1> QED
    BY <1>1, WriteBegins, CallsKeep DEF Send, ends, maps, QuicInv, QuicTypesOk, QuicTypeOK, CallStates, Targets

LEMMA StreamCallKeeps ==
    ASSUME QuicInv, NEW c \in Threads, NEW k \in Keys, StreamSend(c, k) \/ StreamClose(c, k)
    PROVE  QuicInv'
<1>1. k[1] \notin closed /\ k \in Targets
    BY DEF StreamSend, StreamClose, QuicInv, TasksOk, Keys, CallStates, Targets
<1> QED
    BY <1>1, WriteBegins, CallsKeep DEF StreamSend, StreamClose, ends, maps, QuicInv, QuicTypesOk, QuicTypeOK

\* Polling, returning and stopping write to nobody.
LEMMA OtherCallKeeps ==
    ASSUME QuicInv, NEW c \in Threads, Poll(c) \/ PollLock(c) \/ Written(c) \/ Stop(c)
    PROVE  QuicInv'
<1>1. CASE Poll(c)
    <2>1. <<0, 0>> \in Targets
        BY DEF CallStates, Targets
    <2> QED
        BY <1>1, <2>1, WriteBegins, CallsKeep DEF Poll, ends, maps, QuicInv, QuicTypesOk, QuicTypeOK
<1>2. CASE PollLock(c)
    <2> DEFINE holds == [op |-> "holding", to |-> doing[c].to, late |-> doing[c].late]
    <2>1. doing' = [doing EXCEPT ![c] = holds]
        <3>1. doing' = [doing EXCEPT ![c] = [doing[c] EXCEPT !.op = "holding"]]
            BY <1>2 DEF PollLock
        <3>2. [doing[c] EXCEPT !.op = "holding"] = holds
            BY DEF QuicInv, QuicTypesOk, CallStates
        <3> QED
            BY <3>1, <3>2
    <2>2. /\ doing' \in [Threads -> CallStates]
          /\ NoWriteAfterClosed'
        BY <2>1 DEF QuicInv, QuicTypesOk, NoWriteAfterClosed, CallStates, Targets
    <2> QED
        BY <1>2, <2>2, CallsKeep DEF PollLock, ends, maps, QuicInv, QuicTypesOk, QuicTypeOK
<1>3. CASE Written(c)
    <2>1. doing' = [doing EXCEPT ![c] = Resting]
        BY <1>3 DEF Written, Finishes
    <2>2. /\ doing' \in [Threads -> CallStates]
          /\ NoWriteAfterClosed'
        BY <2>1 DEF QuicInv, QuicTypesOk, NoWriteAfterClosed, Resting, CallStates, Targets
    <2> QED
        BY <1>3, <2>2, CallsKeep DEF Written, ends, maps, QuicInv, QuicTypesOk, QuicTypeOK
<1>4. CASE Stop(c)
    BY <1>4, CallsKeep DEF Stop, maps, QuicInv, QuicTypesOk, QuicTypeOK, NoWriteAfterClosed
<1> QED
    BY <1>1, <1>2, <1>3, <1>4

\* The end of a session is read when its task has ended.
LEMMA NextEventKeeps ==
    ASSUME QuicAssumption, QuicInv, NEW c \in Threads, NextEvent(c)
    PROVE  QuicInv'
<1>1. /\ doing' = [doing EXCEPT ![c] = Resting]
      /\ UNCHANGED <<ends, opening, peer, plain, task, maps, half, reader>>
    BY DEF NextEvent, Finishes
<1>2. /\ doing' \in [Threads -> CallStates]
      /\ NoWriteAfterClosed'
    BY <1>1 DEF QuicInv, QuicTypesOk, NoWriteAfterClosed, Resting, CallStates, Targets
<1>3. CASE queue = <<>>
    BY <1>1, <1>2, <1>3, CallsKeep DEF NextEvent, ends, maps, QuicInv, QuicTypesOk, QuicTypeOK
<1>4. CASE queue # <<>>
    <2>1. /\ queue' = Tail(queue)
          /\ closed' = IF Head(queue)[1] = "sessionClosed"
                        THEN closed \cup {Head(queue)[2]} ELSE closed
        BY <1>4 DEF NextEvent
    <2>2. /\ queue' \in Seq(Events) /\ Len(queue') <= Depth
          /\ \A i \in DOMAIN queue' : i + 1 \in DOMAIN queue /\ queue'[i] = queue[i + 1]
          /\ StreamEventsInOrder'
        BY <1>4, <2>1, Taken DEF QuicInv
    <2>3. Head(queue) = queue[1] /\ 1 \in DOMAIN queue /\ queue[1] \in Events
        BY <1>4 DEF QuicInv, QuicTypesOk
    <2>4. closed' \subseteq Sessions /\ \A s \in closed' : task[s] = "ended"
        BY <2>1, <2>3 DEF QuicInv, QuicTypesOk, QuicTypeOK, TasksOk, Events
    <2>5. QuicTypesOk'
        BY <1>1, <1>2, <2>2, <2>4 DEF QuicInv, QuicTypesOk, QuicTypeOK, ends, maps, Events, CallStates, Targets
    <2>6. TasksOk' /\ ReadersOk'
        BY <1>1, <2>2, <2>4 DEF QuicInv, TasksOk, ReadersOk, Rank, maps
    <2> QED
        BY <1>2, <2>2, <2>5, <2>6 DEF QuicInv
<1> QED
    BY <1>3, <1>4

LEMMA DropKeeps == ASSUME QuicAssumption, QuicInv, Drop PROVE QuicInv'
<1>1. QuicTypesOk'
    <2>1. queue' \in Seq(Events) /\ Len(queue') <= Depth /\ DOMAIN queue' = {}
        BY DEF Drop, QuicAssumption
    <2> QED
        BY <2>1 DEF Drop, QuicInv, QuicTypesOk, QuicTypeOK, Tasks
<1>2. TasksOk' /\ ReadersOk' /\ StreamEventsInOrder'
    BY DEF Drop, QuicInv, QuicTypesOk, QuicTypeOK, TasksOk, ReadersOk, StreamEventsInOrder
<1>3. NoWriteAfterClosed'
    BY DEF Drop, QuicInv, NoWriteAfterClosed
<1> QED
    BY <1>1, <1>2, <1>3 DEF QuicInv

LEMMA QuicNextKeeps == ASSUME QuicAssumption, QuicInv, [QuicNext]_quicVars PROVE QuicInv'
<1>1. CASE Start \/ Drop
    BY <1>1, StartKeeps, DropKeeps
<1>2. ASSUME NEW s \in Sessions, Serve(s) PROVE QuicInv'
    <2>1. ASSUME NEW t \in Streams, AcceptBi(<<s, t>>) \/ AnnounceStream(<<s, t>>) PROVE QuicInv'
        BY <2>1, AcceptBiKeeps, AnnounceStreamKeeps DEF Keys
    <2> QED
        BY <1>2, <2>1, SilentTaskKeeps, SpeakingTaskKeeps DEF Serve
<1>3. ASSUME NEW s \in Sessions, Arrive(s) \/ Stall(s) \/ GoOn(s) \/ Vanish(s) PROVE QuicInv'
    BY <1>3, PeersKeep DEF Arrive, Stall, GoOn, Vanish, Peers
<1>4. ASSUME NEW k \in Keys, OpenHalf(k) \/ ReadBi(k) PROVE QuicInv'
    BY <1>4, PeersKeep, ReadBiKeeps DEF OpenHalf
<1>5. ASSUME NEW c \in Threads, Calls(c) PROVE QuicInv'
    BY <1>5, OtherCallKeeps, NextEventKeeps, SendKeeps, StreamCallKeeps DEF Calls
<1>6. CASE UNCHANGED quicVars
    BY <1>6, PeersKeep DEF quicVars, ends, maps
<1> QED
    BY <1>1, <1>2, <1>3, <1>4, <1>5, <1>6 DEF QuicNext

-----------------------------------------------------------------------------
(* What a caller reads adds up.                                            *)

\* What a caller reads of an endpoint's sessions adds up: the events of a
\* stream come in order, an ended session owns no stream, and no write is let
\* into a session whose end was read (transport.rs, accept_loop, read_bi_stream).
THEOREM SessionsAddUp == ASSUME QuicAssumption PROVE QuicSpec => []EventsAddUp
<1>1. QuicInit => QuicInv
    BY InitEstablishes
<1>2. QuicInv /\ [QuicNext]_quicVars => QuicInv'
    BY QuicNextKeeps
<1>3. QuicInv => EventsAddUp
    BY DEF QuicInv, QuicTypesOk, TasksOk, EventsAddUp, StreamsGoWithSession
<1> QED
    BY <1>1, <1>2, <1>3, PTL DEF QuicSpec

----------------------------------------------------------------------------
(* The syslog settings: what they are checked for.                         *)

StatusNames == {SyslogStatuses[k] : k \in DOMAIN SyslogStatuses}

\* Checks with which a caller can be told something.
ChecksOk(checks) ==
    /\ DOMAIN checks = 1..Len(checks) /\ Len(checks) \in Nat
    /\ \A k \in DOMAIN checks : checks[k].name \in StatusNames \ {"ok"}

\* A set of places that is not empty has a first.
LEMMA FirstExists ==
    ASSUME NEW S \in SUBSET Nat, S # {}
    PROVE  \E k \in S : \A j \in S : k <= j
<1> DEFINE Less == {pair \in Nat \X Nat : pair[1] < pair[2]}
<1>1. IsWellFoundedOn(Less, Nat)
    BY NatLessThanWellFounded, Zenon DEF OpToRel
<1> HIDE DEF Less
<1>2. PICK k \in S : \A j \in S : ~ (<<j, k>> \in Less)
    BY <1>1, WFMin, Zenon
<1>3. ASSUME NEW j \in S PROVE k <= j
    <2>1. k \in Nat /\ j \in Nat /\ <<j, k>> \notin Less
        BY <1>2
    <2> QED
        BY <2>1 DEF Less
<1> QED
    BY <1>3

\* Whoever is told "ok" passed every check, and is told a status otherwise.
LEMMA FirstOfTells ==
    ASSUME NEW checks, ChecksOk(checks)
    PROVE  /\ FirstOf(checks) \in StatusNames
           /\ FirstOf(checks) = "ok" => \A k \in DOMAIN checks : ~checks[k].when
<1> DEFINE wrong == {k \in DOMAIN checks : checks[k].when}
           first == CHOOSE k \in wrong : \A j \in wrong : k <= j
<1>1. CASE wrong = {}
    <2>1. FirstOf(checks) = "ok" /\ \A k \in DOMAIN checks : ~checks[k].when
        BY <1>1 DEF FirstOf
    <2>2. "ok" \in StatusNames
        BY DEF StatusNames, SyslogStatuses
    <2> QED
        BY <2>1, <2>2
<1>2. CASE wrong # {}
    <2>1. wrong \in SUBSET Nat
        BY DEF ChecksOk
    <2>2. \E k \in wrong : \A j \in wrong : k <= j
        BY <1>2, <2>1, FirstExists
    <2>3. first \in wrong
        BY <2>2
    <2>4. FirstOf(checks) = checks[first].name
        BY <1>2 DEF FirstOf
    <2> HIDE DEF first
    <2> QED
        BY <2>3, <2>4 DEF ChecksOk
<1> QED
    BY <1>1, <1>2

\* The code of a status is a place in the row.
LEMMA CodeIsPlace ==
    ASSUME NEW name \in StatusNames
    PROVE  CodeOf(name) \in 0..(Len(SyslogStatuses) - 1)
<1>1. DOMAIN SyslogStatuses = 1..Len(SyslogStatuses) /\ Len(SyslogStatuses) = 21
    BY DEF SyslogStatuses
<1>2. \E k \in DOMAIN SyslogStatuses : SyslogStatuses[k] = name
    BY DEF StatusNames
<1>3. (CHOOSE k \in DOMAIN SyslogStatuses : SyslogStatuses[k] = name) \in DOMAIN SyslogStatuses
    BY <1>2
<1> QED
    BY <1>1, <1>3 DEF CodeOf

LEMMA Names ==
    /\ {"ok", "unknownConfigKey", "invalidHeaderField", "unknownFacility",
        "invalidConfigValue", "missingConfigKey", "tlsConfig"} \subseteq StatusNames
BY DEF StatusNames, SyslogStatuses

LEMMA BuildAndSpoolChecks == ChecksOk(BuildChecks) /\ ChecksOk(SpoolChecks)
<1>1. ChecksOk(BuildChecks)
    BY Names DEF ChecksOk, BuildChecks, Value, Complaint
<1>2. ChecksOk(SpoolChecks)
    BY Names DEF ChecksOk, SpoolChecks, Value, Complaint
<1> QED
    BY <1>1, <1>2

\* One more check at the end of a row.
LEMMA OneMore ==
    ASSUME NEW S, NEW row \in Seq(S), ChecksOk(row),
           NEW last, last.name \in StatusNames \ {"ok"}
    PROVE  LET longer == row \o <<last>>
           IN  ChecksOk(longer) /\ \E k \in DOMAIN longer : longer[k] = last
<1> DEFINE longer == row \o <<last>>
           n == Len(row)
<1>1. row \in Seq(S \cup {last}) /\ <<last>> \in Seq(S \cup {last})
    OBVIOUS
<1>2. Len(<<last>>) = 1 /\ <<last>>[1] = last /\ n \in Nat /\ DOMAIN row = 1..n
    BY DEF ChecksOk
<1>3. /\ longer \in Seq(S \cup {last}) /\ Len(longer) = n + Len(<<last>>)
      /\ \A i \in 1..(n + Len(<<last>>)) :
           longer[i] = IF i <= n THEN row[i] ELSE <<last>>[i - n]
    BY <1>1, ConcatProperties
<1> HIDE DEF longer, n
<1>4. Len(longer) = n + 1 /\ DOMAIN longer = 1..(n + 1)
    BY <1>2, <1>3
<1>5. \A k \in 1..n : longer[k] = row[k]
    BY <1>2, <1>3
<1>6. longer[n + 1] = last
    <2>1. n + 1 \in 1..(n + Len(<<last>>)) /\ ~(n + 1 <= n) /\ n + 1 - n = 1
        BY <1>2
    <2> QED
        BY <1>2, <1>3, <2>1
<1>7. ASSUME NEW k \in 1..(n + 1) PROVE longer[k].name \in StatusNames \ {"ok"}
    <2>1. k = n + 1 \/ k \in 1..n
        BY <1>2
    <2> QED
        BY <1>2, <1>5, <1>6, <2>1 DEF ChecksOk
<1>8. ChecksOk(longer)
    BY <1>2, <1>4, <1>7 DEF ChecksOk
<1>9. n + 1 \in DOMAIN longer
    BY <1>2, <1>4
<1> QED
    BY <1>6, <1>8, <1>9, Zenon DEF longer

\* A row of five complaints is told by name.
LEMMA TlsChecksTell ==
    /\ ChecksOk(TlsChecks) /\ Len(TlsChecks) = 5 /\ DOMAIN TlsChecks = 1..5
    /\ \E S : TlsChecks \in Seq(S)
<1> DEFINE c1 == Complaint("tlsConfig", Roots = "" /\ Pin = "")
           c2 == Complaint("tlsConfig", Pin = "" /\ (~Readable(Roots) \/ Issuers[Roots] = {}))
           c3 == Value(Pin # "" /\ Pin \notin DOMAIN Hashes)
           c4 == Value((ClientCert = "") # (ClientKey = ""))
           c5 == Complaint("tlsConfig", ClientCert # "" /\ ~(Readable(ClientCert) /\ ClientKey \in KeyFiles))
<1>1. c1.name = "tlsConfig" /\ c2.name = "tlsConfig" /\ c3.name = "invalidConfigValue"
      /\ c4.name = "invalidConfigValue" /\ c5.name = "tlsConfig"
    BY Zenon DEF Value, Complaint
<1>2. TlsChecks = <<c1, c2, c3, c4, c5>>
    BY Zenon DEF TlsChecks
<1> HIDE DEF c1, c2, c3, c4, c5
<1>3. DOMAIN TlsChecks = 1..5 /\ Len(TlsChecks) = 5
    BY <1>2
<1>4. TlsChecks \in Seq({c1, c2, c3, c4, c5})
    BY <1>2
<1>5. "tlsConfig" \in StatusNames \ {"ok"} /\ "invalidConfigValue" \in StatusNames \ {"ok"}
    BY Names
<1>6. \A k \in 1..5 : TlsChecks[k].name \in StatusNames \ {"ok"}
    BY <1>1, <1>2, <1>5
<1>7. ChecksOk(TlsChecks)
    BY <1>3, <1>6 DEF ChecksOk
<1> QED
    BY <1>3, <1>4, <1>7, Zenon

\* The host is the last thing asked for, and is asked for whenever there is a
\* collector.
LEMMA TransportAsksForHost ==
    /\ ChecksOk(TransportChecks)
    /\ \E k \in DOMAIN TransportChecks :
         TransportChecks[k].when =
             (Raw("collector_scheme") # "none" /\ Raw("collector_host") = "")
<1> DEFINE host == Value(Raw("collector_scheme") # "none" /\ Raw("collector_host") = "")
           before == IF Raw("collector_scheme") = "tls" THEN TlsChecks ELSE <<>>
<1>1. host.name \in StatusNames \ {"ok"}
    BY Names DEF Value, Complaint
<1>2. host.when = (Raw("collector_scheme") # "none" /\ Raw("collector_host") = "")
    BY Zenon DEF Value, Complaint
<1>3. TransportChecks = before \o <<host>>
    BY Zenon DEF TransportChecks
<1>4. /\ ChecksOk(before)
      /\ \E S : before \in Seq(S)
    <2>1. ChecksOk(<<>>) /\ <<>> \in Seq({})
        BY DEF ChecksOk
    <2> QED
        BY <2>1, TlsChecksTell
<1> HIDE DEF host, before
<1>5. PICK S : before \in Seq(S)
    BY <1>4
<1>6. ChecksOk(TransportChecks) /\ \E k \in DOMAIN TransportChecks : TransportChecks[k] = host
    BY <1>1, <1>3, <1>4, <1>5, OneMore, Zenon
<1> QED
    BY <1>2, <1>6, Zenon

\* Opening tells a status, and succeeds only when every check was passed.
LEMMA VerdictTells ==
    /\ Verdict \in StatusNames
    /\ Verdict = "ok" =>
         ~(Raw("collector_scheme") # "none" /\ Raw("collector_host") = "")
<1> DEFINE build == FirstOf(BuildChecks)
           spool == FirstOf(SpoolChecks)
           transport == FirstOf(TransportChecks)
<1>1. build \in StatusNames /\ spool \in StatusNames /\ transport \in StatusNames
    BY FirstOfTells, BuildAndSpoolChecks, TransportAsksForHost
<1>2. transport = "ok" => \A k \in DOMAIN TransportChecks : ~TransportChecks[k].when
    BY FirstOfTells, TransportAsksForHost
<1>3. /\ Verdict \in {build, spool, transport}
      /\ Verdict = "ok" => transport = "ok"
    BY DEF Verdict
<1> HIDE DEF build, spool, transport
<1>4. \A k \in DOMAIN TransportChecks :
        TransportChecks[k].when \/ ~TransportChecks[k].when
    OBVIOUS
<1> QED
    BY <1>1, <1>2, <1>3, TransportAsksForHost

----------------------------------------------------------------------------
(* The syslog settings: what an open sink goes by.                         *)

Given(key) == IF key \in DOMAIN sink.asked THEN sink.asked[key] ELSE ""

\* What an open sink goes by is what it was opened with, whatever was set
\* since.
SinkOk ==
    sink # Off /\ sink.scheme # "none" =>
        /\ sink.scheme = sink.asked["collector_scheme"]
        /\ sink.asked["collector_host"] # ""
        /\ sink.pin = Given("tls_server_fingerprint_sha256")
        /\ sink.roots = Given("tls_roots_pem")
        /\ sink.name = IF Given("tls_server_name") # "" THEN Given("tls_server_name")
                       ELSE Given("collector_host")

\* The peer of the open stream was accepted by the sink that is open now, and
\* so was every one that got something; a closed sink has neither.
SessionOk == session # Off /\ sink.scheme = "tls" => Accepts(session)
LeftOk ==
    \A s \in left :
        /\ s.over = sink.scheme /\ sink.scheme # "none" /\ sink # Off
        /\ s.over = "tls" => Accepts(s.to)
ClosedOk == sink = Off => left = {} /\ session = Off

ConfigInv == ConfigTypeOK /\ SinkOk /\ SessionOk /\ LeftOk /\ ClosedOk

\* A setting that reads otherwise than its default was set.
LEMMA SetIfNotDefault ==
    ASSUME NEW key, Raw(key) # Defaults[key]
    PROVE  key \in DOMAIN values /\ values[key] = Raw(key)
BY DEF Raw

LEMMA EmptyDefaults ==
    /\ Defaults["collector_scheme"] = "none" /\ Defaults["collector_host"] = ""
    /\ Defaults["tls_server_name"] = "" /\ Defaults["tls_roots_pem"] = ""
    /\ Defaults["tls_server_fingerprint_sha256"] = ""
BY DEF Defaults

LEMMA InitOk == ASSUME ConfigAssumption, ConfigInit PROVE ConfigInv
<1>1. CodeOf("ok") \in 0..(Len(SyslogStatuses) - 1)
    BY Names, CodeIsPlace
<1>2. DOMAIN values = {} /\ sets \in 0..MaxSets /\ session = Off /\ sink = Off /\ left = {}
      /\ reply = CodeOf("ok")
    BY DEF ConfigInit, ConfigAssumption
<1> QED
    BY <1>1, <1>2 DEF ConfigInv, ConfigTypeOK, SinkOk, SessionOk, LeftOk, ClosedOk

\* Setting names what the next opening goes by; the sink that is open keeps
\* what it was opened with.
LEMMA SetKeeps == ASSUME ConfigAssumption, ConfigInv, ConfigSet PROVE ConfigInv'
<1>1. PICK o \in SettingsOffered :
        IF o[1] \in ConfigKeys
        THEN values' = With(o[1], o[2]) /\ reply' = CodeOf("ok")
        ELSE UNCHANGED values /\ reply' = CodeOf("unknownConfigKey")
    BY Zenon DEF ConfigSet
<1>2. CodeOf("ok") \in 0..(Len(SyslogStatuses) - 1)
      /\ CodeOf("unknownConfigKey") \in 0..(Len(SyslogStatuses) - 1)
    BY Names, CodeIsPlace
<1>3. DOMAIN values' \subseteq ConfigKeys
    <2>1. CASE o[1] \in ConfigKeys
        <3>1. DOMAIN values' = {o[1]} \cup DOMAIN values
            BY <1>1, <2>1 DEF With
        <3> QED
            BY <2>1, <3>1 DEF ConfigInv, ConfigTypeOK
    <2>2. CASE o[1] \notin ConfigKeys
        BY <1>1, <2>2 DEF ConfigInv, ConfigTypeOK
    <2> QED
        BY <2>1, <2>2
<1>4. reply' \in 0..(Len(SyslogStatuses) - 1)
    BY <1>1, <1>2, Zenon
<1>5. sets' \in 0..MaxSets
    BY DEF ConfigSet, ConfigInv, ConfigTypeOK, ConfigAssumption
<1>6. UNCHANGED <<sink, session, left>>
    BY DEF ConfigSet
<1>7. ConfigTypeOK'
    BY <1>3, <1>4, <1>5, <1>6 DEF ConfigInv, ConfigTypeOK
<1> QED
    BY <1>6, <1>7 DEF ConfigInv, SinkOk, Given, SessionOk, LeftOk, ClosedOk, Accepts

\* What Trusted takes from the settings is what was set, and a collector is
\* taken only together with its host.
LEMMA TrustedIsAsked ==
    ASSUME Verdict = "ok", sink' = Trusted
    PROVE  SinkOk'
<1>1. /\ sink'.scheme = Raw("collector_scheme") /\ sink'.asked = values
      /\ sink'.pin = Raw("tls_server_fingerprint_sha256")
      /\ sink'.roots = Raw("tls_roots_pem")
      /\ sink'.name = IF Raw("tls_server_name") = "" THEN Raw("collector_host")
                      ELSE Raw("tls_server_name")
    BY DEF Trusted, Pin, Roots
<1>2. \A key : Defaults[key] = "" => Raw(key) = Given(key)'
    BY <1>1 DEF Raw, Given
<1>3. SUFFICES ASSUME sink'.scheme # "none" PROVE
        /\ sink'.scheme = sink'.asked["collector_scheme"]
        /\ sink'.asked["collector_host"] # ""
        /\ sink'.pin = Given("tls_server_fingerprint_sha256")'
        /\ sink'.roots = Given("tls_roots_pem")'
        /\ sink'.name = IF Given("tls_server_name")' # "" THEN Given("tls_server_name")'
                        ELSE Given("collector_host")'
    BY DEF SinkOk
<1>4. values["collector_scheme"] = Raw("collector_scheme")
    BY <1>1, <1>3, EmptyDefaults, SetIfNotDefault
<1>5. Raw("collector_host") # ""
    BY <1>1, <1>3, VerdictTells
<1>6. values["collector_host"] = Raw("collector_host")
    BY <1>5, EmptyDefaults, SetIfNotDefault
<1>7. /\ sink'.pin = Given("tls_server_fingerprint_sha256")'
      /\ sink'.roots = Given("tls_roots_pem")'
      /\ Raw("tls_server_name") = Given("tls_server_name")'
      /\ Raw("collector_host") = Given("collector_host")'
    BY <1>1, <1>2, EmptyDefaults
<1> QED
    BY <1>1, <1>4, <1>5, <1>6, <1>7

\* Opening starts with nothing sent and no stream.
LEMMA OpenKeeps == ASSUME ConfigInv, OpenSink PROVE ConfigInv'
<1>1. /\ left' = {} /\ session' = Off /\ sets' = sets /\ values' = values
      /\ reply' = CodeOf(Verdict) /\ sink' = (IF Verdict = "ok" THEN Trusted ELSE Off)
    BY DEF OpenSink, ConfigInv, ClosedOk
<1>2. reply' \in 0..(Len(SyslogStatuses) - 1)
    BY <1>1, VerdictTells, CodeIsPlace
<1>3. ConfigTypeOK'
    BY <1>1, <1>2 DEF ConfigInv, ConfigTypeOK
<1>4. SinkOk'
    <2>1. CASE Verdict = "ok"
        BY <1>1, <2>1, TrustedIsAsked
    <2>2. CASE Verdict # "ok"
        BY <1>1, <2>2 DEF SinkOk
    <2> QED
        BY <2>1, <2>2
<1> QED
    BY <1>1, <1>3, <1>4 DEF ConfigInv, SessionOk, LeftOk, ClosedOk

\* Closing ends the stream and forgets what was sent.
LEMMA CloseKeeps == ASSUME ConfigInv, CloseSink PROVE ConfigInv'
BY DEF ConfigInv, CloseSink, ConfigTypeOK, SinkOk, SessionOk, LeftOk, ClosedOk

\* Whoever gets something is the peer of the stream that was open, or one a new
\* connection accepted.
LEMMA SendRecordKeeps == ASSUME ConfigInv, SendRecord PROVE ConfigInv'
<1>1. PICK who \in IF session # Off THEN {session} ELSE IF Connectable THEN Listeners ELSE {} :
        /\ session' = who
        /\ left' = left \cup {[over |-> sink.scheme, to |-> who]}
    BY DEF SendRecord
<1>2. /\ sink # Off /\ sink.scheme # "none"
      /\ values' = values /\ sink' = sink /\ reply' = reply /\ sets' = sets
    BY DEF SendRecord
<1>3. sink.scheme = "tls" => Accepts(who)
    BY <1>1 DEF ConfigInv, SessionOk, Listeners
<1>4. \A cert : Accepts(cert)' <=> Accepts(cert)
    BY <1>2 DEF Accepts
<1>5. ConfigTypeOK' /\ SinkOk' /\ ClosedOk'
    BY <1>2 DEF ConfigInv, ConfigTypeOK, SinkOk, Given, ClosedOk
<1>6. SessionOk'
    BY <1>1, <1>2, <1>3 DEF SessionOk, Accepts
<1>7. LeftOk'
    <2> SUFFICES ASSUME NEW s \in left'
                 PROVE  /\ s.over = sink.scheme
                        /\ s.over = "tls" => Accepts(s.to)
        BY <1>2 DEF LeftOk, Accepts
    <2>1. CASE s \in left
        BY <2>1 DEF ConfigInv, LeftOk
    <2>2. CASE s = [over |-> sink.scheme, to |-> who]
        BY <1>3, <2>2
    <2> QED
        BY <1>1, <2>1, <2>2
<1> QED
    BY <1>5, <1>6, <1>7 DEF ConfigInv

\* A send that fails ends the stream.
LEMMA FailKeeps == ASSUME ConfigInv, SendFails PROVE ConfigInv'
BY DEF ConfigInv, SendFails, ConfigTypeOK, SinkOk, Given, SessionOk, LeftOk, ClosedOk, Accepts

LEMMA ConfigStutterKeeps == ASSUME ConfigInv, UNCHANGED configVars PROVE ConfigInv'
BY DEF configVars, ConfigInv, ConfigTypeOK, SinkOk, Given, SessionOk, LeftOk, ClosedOk, Accepts

LEMMA StepOk == ASSUME ConfigAssumption, ConfigInv, [ConfigNext]_configVars PROVE ConfigInv'
BY SetKeeps, OpenKeeps, CloseKeeps, SendRecordKeeps, FailKeeps, ConfigStutterKeeps, Zenon DEF ConfigNext

\* What the open sink accepted is what was asked for when it was opened.
LEMMA InvTells == ConfigInv => OnlyTheCollector
<1> SUFFICES ASSUME ConfigInv, NEW s \in left
             PROVE  /\ sink.asked["collector_scheme"] = s.over
                    /\ sink.asked["collector_host"] # ""
                    /\ s.over = "tls" =>
                         IF Given("tls_server_fingerprint_sha256") # ""
                         THEN s.to.hash = Hashes[Given("tls_server_fingerprint_sha256")]
                         ELSE /\ s.to.chain \in Issuers[Given("tls_roots_pem")]
                              /\ s.to.name = IF Given("tls_server_name") # ""
                                             THEN Given("tls_server_name")
                                             ELSE Given("collector_host")
    BY Zenon DEF OnlyTheCollector, LeavesForTheCollector, Given, ConfigInv
<1>1. /\ s.over = sink.scheme /\ sink.scheme # "none" /\ sink # Off
      /\ s.over = "tls" => Accepts(s.to)
    BY DEF ConfigInv, LeftOk
<1>2. /\ sink.scheme = sink.asked["collector_scheme"]
      /\ sink.asked["collector_host"] # ""
      /\ sink.pin = Given("tls_server_fingerprint_sha256")
      /\ sink.roots = Given("tls_roots_pem")
      /\ sink.name = IF Given("tls_server_name") # "" THEN Given("tls_server_name")
                     ELSE Given("collector_host")
    BY <1>1 DEF ConfigInv, SinkOk
<1> QED
    BY <1>1, <1>2, Zenon DEF Accepts

\* Nothing leaves for anyone but the collector the settings name, whatever is
\* set, in whatever order, and whatever sinks were open before (config.rs,
\* transport.rs): for any settings, texts, files and certificates.
THEOREM NobodyElseIsSent ==
    ASSUME ConfigAssumption PROVE ConfigSpec => []OnlyTheCollector
<1>1. ConfigInit => ConfigInv
    BY InitOk
<1>2. ConfigInv /\ [ConfigNext]_configVars => ConfigInv'
    BY StepOk
<1>3. ConfigInv => OnlyTheCollector
    BY InvTells
<1> QED
    BY <1>1, <1>2, <1>3, PTL DEF ConfigSpec
=============================================================================
