---------------------------- MODULE QuicEndpoint ----------------------------
(***************************************************************************)
(* A QUIC endpoint of package rk_quic (transport.rs, server_ffi.rs,        *)
(* config.rs): it starts from a configuration or says why not; tasks       *)
(* of the runtime accept sessions and the streams peers open, and queue    *)
(* events; threads of the caller poll the queue and write to sessions and  *)
(* streams by their numbers.  Every lock is released before the next step, *)
(* so a step of one task may fall between two of another.                  *)
(*                                                                         *)
(* A call looks the endpoint up and keeps it alive while it lasts; the     *)
(* endpoint goes down when it is stopped and the last such call returns.   *)
(***************************************************************************)
EXTENDS Integers, Sequences, FiniteSets

CONSTANTS
    Configs,   \* what a start is given: [bind, path, idle, chain, key]
    LongestIdle, \* the longest idle timeout QUIC can write
    Threads,   \* threads that call
    Sessions,  \* numbers of sessions
    Streams,   \* numbers of bidirectional streams of a session
    Depth,     \* EVENT_QUEUE_DEPTH, 1024 in the code
    MaxPlain   \* bound: datagrams and unidirectional streams a peer sends

\* Of the constants.
QuicAssumption ==
    /\ Depth \in Nat \ {0} /\ MaxPlain \in Nat /\ LongestIdle \in Nat /\ 0 \notin Streams
    /\ \A c \in Configs : c.idle \in Nat

VARIABLES
    handle,   \* none, live, stopped: what the registry says
    running,  \* the runtime and its socket
    idle,     \* its idle timeout, 0 for a peer that is never given up
    said,     \* what the last start said
    peer,     \* each peer: away, here, stalled within a message, gone
    plain,    \* datagrams and messages it has sent
    task,     \* each session's task
    sessions, \* Endpoint.sessions
    streams,  \* Endpoint.streams, pairs <<session, stream>>
    half,     \* the peer's half of each stream: unopened, open, finished
    opening,  \* the stream a session's task has accepted and not announced, 0
    reader,   \* the task reading it: none, reading, dataSent, done
    queue,    \* events not yet read: <<kind, session, stream>>
    closed,   \* sessions whose sessionClosed was read
    doing     \* what each caller is doing: [op, to, late]

quicVars == <<handle, running, idle, said, peer, plain, task, sessions, streams, half, opening,
          reader, queue, closed, doing>>
maps == <<sessions, streams>>
ends == <<handle, running, idle, said>>

Keys == Sessions \X Streams
\* Status: what any call answers.
Statuses == {"ok", "invalidArgument", "unknownHandle", "portInUse", "bindFailed",
             "badCertificate", "peerGone", "wouldBlock", "notRunning", "panic", "unsupported"}
\* Event: a datagram and a streamMessage are one kind here; endpointError is
\* not modelled.
EventKinds == {"sessionOpened", "sessionClosed", "message",
               "streamOpened", "streamData", "streamClosed"}
Resting == [op |-> "idle", to |-> <<0, 0>>, late |-> FALSE]
Finishes(c) == doing' = [doing EXCEPT ![c] = Resting]

QuicInit ==
    /\ handle = "none" /\ running = FALSE /\ idle = 0 /\ said = "none"
    /\ peer = [s \in Sessions |-> "away"] /\ plain = [s \in Sessions |-> 0]
    /\ task = [s \in Sessions |-> "none"]
    /\ sessions = {} /\ streams = {}
    /\ half = [k \in Keys |-> "unopened"] /\ opening = [s \in Sessions |-> 0]
    /\ reader = [k \in Keys |-> "none"]
    /\ queue = <<>> /\ closed = {}
    /\ doing = [c \in Threads |-> Resting]

\* try_send: an event that finds the queue full is dropped.
Emit(e) == queue' = IF Len(queue) < Depth THEN Append(queue, e) ELSE queue

----------------------------------------------------------------------------
(* The peers.                                                              *)

Peers == UNCHANGED <<ends, opening, plain, task, maps, half, reader, queue, closed, doing>>
Arrive(s) ==
    /\ running /\ peer[s] = "away" /\ peer' = [peer EXCEPT ![s] = "here"] /\ Peers
\* A peer begins a message and keeps it open, or goes on.
Stall(s) == peer[s] = "here" /\ peer' = [peer EXCEPT ![s] = "stalled"] /\ Peers
GoOn(s) == peer[s] = "stalled" /\ peer' = [peer EXCEPT ![s] = "here"] /\ Peers
\* A shut lid: nothing is sent, the idle timeout notices.
Vanish(s) ==
    /\ peer[s] \in {"here", "stalled"} /\ peer' = [peer EXCEPT ![s] = "gone"] /\ Peers

\* The peer opens a stream, or finishes its half.
OpenHalf(k) ==
    /\ peer[k[1]] = "here" /\ half[k] # "finished"
    /\ half' = [half EXCEPT ![k] = IF @ = "unopened" THEN "open" ELSE "finished"]
    /\ UNCHANGED <<ends, opening, peer, plain, task, maps, reader, queue, closed, doing>>

----------------------------------------------------------------------------
(* The tasks of the endpoint.                                              *)

Moves(s, from, to) == task[s] = from /\ opening[s] = 0 /\ task' = [task EXCEPT ![s] = to]

\* The handshake, the path asked for, the session accepted.
Accept(s) ==
    /\ running /\ peer[s] # "away" /\ Moves(s, "none", "accepted")
    /\ UNCHANGED <<ends, opening, peer, plain, maps, half, reader, queue, closed, doing>>
Insert(s) ==
    /\ Moves(s, "accepted", "inserted")
    /\ sessions' = sessions \cup {s}
    /\ UNCHANGED <<ends, opening, peer, plain, streams, half, reader, queue, closed, doing>>
AnnounceOpened(s) ==
    /\ Moves(s, "inserted", "serving")
    /\ Emit(<<"sessionOpened", s, 0>>)
    /\ UNCHANGED <<ends, opening, peer, plain, maps, half, reader, closed, doing>>

\* A datagram, or a message read to its end before it becomes an event.
Plain(s) ==
    /\ task[s] = "serving" /\ opening[s] = 0 /\ peer[s] = "here" /\ plain[s] < MaxPlain
    /\ plain' = [plain EXCEPT ![s] = @ + 1]
    /\ Emit(<<"message", s, 0>>)
    /\ UNCHANGED <<ends, opening, peer, task, maps, half, reader, closed, doing>>
\* The task reads a message that does not end, and does nothing else.
ReadUni(s) ==
    /\ peer[s] = "stalled" /\ Moves(s, "serving", "readingUni")
    /\ UNCHANGED <<ends, opening, peer, plain, maps, half, reader, queue, closed, doing>>
UniEnds(s) ==
    /\ peer[s] = "here" /\ Moves(s, "readingUni", "serving")
    /\ Emit(<<"message", s, 0>>)
    /\ UNCHANGED <<ends, opening, peer, plain, maps, half, reader, closed, doing>>

\* Mutant: the reader is spawned before the stream is announced.
SpawnedAtOnce(k) == [reader EXCEPT ![k] = "reading"]
Spawned(k) == reader
AcceptBi(k) ==
    /\ task[k[1]] = "serving" /\ half[k] # "unopened"
    /\ k \notin streams /\ reader[k] = "none" /\ opening[k[1]] = 0
    /\ opening' = [opening EXCEPT ![k[1]] = k[2]]
    /\ streams' = streams \cup {k}
    /\ reader' = Spawned(k)
    /\ UNCHANGED <<ends, peer, plain, task, sessions, half, queue, closed, doing>>
AnnounceStream(k) ==
    /\ opening[k[1]] = k[2] /\ opening' = [opening EXCEPT ![k[1]] = 0]
    /\ Emit(<<"streamOpened", k[1], k[2]>>)
    /\ reader' = [reader EXCEPT ![k] = IF @ = "none" THEN "reading" ELSE @]
    /\ UNCHANGED <<ends, peer, plain, task, maps, half, closed, doing>>

\* read_bi_stream: the message whole, then the end; only the end if the
\* connection went or the message is no text.
ReadBi(k) ==
    /\ \/ /\ reader[k] = "reading" /\ half[k] = "finished"
          /\ reader' = [reader EXCEPT ![k] = "dataSent"]
          /\ Emit(<<"streamData", k[1], k[2]>>)
       \/ /\ \/ reader[k] = "dataSent"
             \/ reader[k] = "reading" /\ (peer[k[1]] = "gone" \/ half[k] = "finished")
          /\ reader' = [reader EXCEPT ![k] = "done"]
          /\ Emit(<<"streamClosed", k[1], k[2]>>)
    /\ UNCHANGED <<ends, opening, peer, plain, task, maps, half, closed, doing>>

\* Mutant: a task that reads a message does not notice that the peer is gone.
NoticesWhenIdle(s) == task[s] = "serving"
Notices(s) == task[s] \in {"serving", "readingUni"}

\* session_loop returns; then the session is forgotten, then its streams, and
\* only then is it announced.
Lose(s) ==
    /\ peer[s] = "gone" /\ Notices(s) /\ opening[s] = 0 /\ idle > 0
    /\ task' = [task EXCEPT ![s] = "lost"]
    /\ UNCHANGED <<ends, opening, peer, plain, maps, half, reader, queue, closed, doing>>
Forget(s) ==
    /\ Moves(s, "lost", "forgotten")
    /\ sessions' = sessions \ {s}
    /\ UNCHANGED <<ends, opening, peer, plain, streams, half, reader, queue, closed, doing>>
\* Mutant: streams outlive the session they were opened on.
OwnedNone(s) == {}
Owned(s) == {k \in streams : k[1] = s}
ForgetStreams(s) ==
    /\ Moves(s, "forgotten", "swept")
    /\ streams' = streams \ Owned(s)
    /\ UNCHANGED <<ends, opening, peer, plain, sessions, half, reader, queue, closed, doing>>
\* Mutant: the end is announced before the session is forgotten.
AnnouncesFrom(s) == IF task[s] = "lost" THEN "lost" ELSE "swept"
AnnouncedFrom(s) == "swept"
AnnounceClosed(s) ==
    /\ task[s] = AnnouncedFrom(s)
    /\ task' = [task EXCEPT ![s] = IF @ = "swept" THEN "ended" ELSE "lost"]
    /\ Emit(<<"sessionClosed", s, 0>>)
    /\ UNCHANGED <<ends, opening, peer, plain, maps, half, reader, closed, doing>>

----------------------------------------------------------------------------
(* The calls.                                                              *)

\* ServerConfig::parse: what a person mends in a second is told before what
\* takes a certificate authority.  Mutant: 0 is taken for "no timeout".
ParseZeroAllowed(c) ==
    << <<c.bind = "noPort", "invalidArgument">>, <<~c.path, "invalidArgument">>,
       <<c.idle \in 1..999, "invalidArgument">>,
       <<c.chain \in {"unreadable", "empty"}, "badCertificate">>,
       <<c.key \in {"unreadable", "empty"}, "badCertificate">> >>
Parse(c) ==
    << <<c.bind = "noPort", "invalidArgument">>, <<~c.path, "invalidArgument">>,
       <<c.idle < 1000, "invalidArgument">>,
       <<c.chain \in {"unreadable", "empty"}, "badCertificate">>,
       <<c.key \in {"unreadable", "empty"}, "badCertificate">> >>
\* start: the identity, the timeout as QUIC writes it, the socket.
Build(c) ==
    << <<c.chain = "unusable", "badCertificate">>, <<c.key # "pkcs8", "badCertificate">>,
       <<c.idle > LongestIdle, "invalidArgument">>,
       <<c.bind = "taken", "portInUse">>, <<c.bind = "elsewhere", "bindFailed">> >>
\* What is told is the first that applies.
First(why) ==
    LET apply == {i \in DOMAIN why : why[i][1]}
    IN  IF apply = {} THEN "ok" ELSE why[CHOOSE i \in apply : \A j \in apply : i <= j][2]
Refusal(c) == IF First(Parse(c)) # "ok" THEN First(Parse(c)) ELSE First(Build(c))

Start ==
    /\ handle = "none"
    /\ \E c \in Configs :
         /\ said' = Refusal(c)
         /\ IF said' # "ok" THEN UNCHANGED <<handle, running, idle>>
            ELSE handle' = "live" /\ running' = TRUE /\ idle' = c.idle
    /\ UNCHANGED <<peer, plain, opening, task, maps, half, reader, queue, closed, doing>>

Begins(c, op, k) ==
    /\ handle = "live" /\ doing[c] = Resting
    /\ doing' = [doing EXCEPT ![c] = [op |-> op, to |-> k, late |-> k[1] \in closed]]
\* A session or a stream that is not in its map is unknownHandle at once.
Send(c, s) ==
    /\ s \in sessions /\ Begins(c, "sending", <<s, 0>>)
    /\ UNCHANGED <<ends, opening, peer, plain, task, maps, half, reader, queue, closed>>
StreamSend(c, k) ==
    /\ k \in streams /\ Begins(c, "sending", k)
    /\ UNCHANGED <<ends, opening, peer, plain, task, maps, half, reader, queue, closed>>
StreamClose(c, k) ==
    /\ k \in streams /\ Begins(c, "closing", k)
    /\ streams' = streams \ {k}
    /\ UNCHANGED <<ends, opening, peer, plain, task, sessions, half, reader, queue, closed>>
\* ok or peerGone, what the peer got in either case.
Written(c) ==
    /\ doing[c].op \in {"sending", "closing"} /\ Finishes(c)
    /\ UNCHANGED <<ends, opening, peer, plain, task, maps, half, reader, queue, closed>>

\* One poll at a time holds the queue's lock; the others wait for it.
Poll(c) ==
    /\ Begins(c, "polling", <<0, 0>>)
    /\ UNCHANGED <<ends, opening, peer, plain, task, maps, half, reader, queue, closed>>
PollLock(c) ==
    /\ doing[c].op = "polling" /\ ~\E d \in Threads : doing[d].op = "holding"
    /\ doing' = [doing EXCEPT ![c].op = "holding"]
    /\ UNCHANGED <<ends, opening, peer, plain, task, maps, half, reader, queue, closed>>
NextEvent(c) ==
    /\ doing[c].op = "holding" /\ Finishes(c)
    /\ IF queue = <<>> THEN UNCHANGED <<queue, closed>>
       ELSE /\ queue' = Tail(queue)
            /\ closed' = IF Head(queue)[1] = "sessionClosed"
                         THEN closed \cup {Head(queue)[2]} ELSE closed
    /\ UNCHANGED <<ends, opening, peer, plain, task, maps, half, reader>>

Stop(c) ==
    /\ handle = "live" /\ doing[c] = Resting /\ handle' = "stopped"
    /\ UNCHANGED <<running, idle, said, opening, peer, plain, task, maps, half, reader, queue,
                   closed, doing>>
\* The last holder drops the endpoint: sessions are closed, tasks end.
Drop ==
    /\ handle = "stopped" /\ running /\ \A c \in Threads : doing[c] = Resting
    /\ running' = FALSE
    /\ sessions' = {} /\ streams' = {}
    /\ task' = [s \in Sessions |-> "ended"] /\ opening' = [s \in Sessions |-> 0]
    /\ reader' = [k \in Keys |-> "done"]
    /\ queue' = <<>>
    /\ UNCHANGED <<handle, idle, said, peer, plain, half, closed, doing>>

Serve(s) ==
    \/ Accept(s) \/ Insert(s) \/ AnnounceOpened(s) \/ Plain(s) \/ ReadUni(s) \/ UniEnds(s)
    \/ \E t \in Streams : AcceptBi(<<s, t>>) \/ AnnounceStream(<<s, t>>)
    \/ Lose(s) \/ Forget(s) \/ ForgetStreams(s) \/ AnnounceClosed(s)
Calls(c) ==
    \/ Poll(c) \/ PollLock(c) \/ NextEvent(c) \/ Written(c) \/ Stop(c)
    \/ \E s \in Sessions : Send(c, s)
    \/ \E k \in Keys : StreamSend(c, k) \/ StreamClose(c, k)
QuicNext ==
    \/ Start \/ Drop
    \/ \E s \in Sessions : Serve(s) \/ Arrive(s) \/ Stall(s) \/ GoOn(s) \/ Vanish(s)
    \/ \E k \in Keys : OpenHalf(k) \/ ReadBi(k)
    \/ \E c \in Threads : Calls(c)

QuicSpec == QuicInit /\ [][QuicNext]_quicVars
\* The runtime runs its tasks; nobody owes a call.
QuicFairSpec == QuicSpec /\ \A s \in Sessions : WF_quicVars(Serve(s))

----------------------------------------------------------------------------
(* Properties.                                                             *)

QuicTypeOK ==
    /\ handle \in {"none", "live", "stopped"} /\ running \in BOOLEAN
    /\ idle \in 0..LongestIdle
    /\ said \in Statuses \cup {"none"}
    /\ \A i \in DOMAIN queue : queue[i][1] \in EventKinds
    /\ sessions \subseteq Sessions /\ streams \subseteq Keys /\ closed \subseteq Sessions
    /\ plain \in [Sessions -> 0..MaxPlain]
    /\ opening \in [Sessions -> Streams \cup {0}]
    /\ reader \in [Keys -> {"none", "reading", "dataSent", "done"}]
    /\ Len(queue) <= Depth
    /\ \A c \in Threads : doing[c].op \in {"idle", "sending", "closing", "polling", "holding"}

\* No write is let into a session whose end the caller has read
\* (accept_loop, transport.rs:447-453).
NoWriteAfterClosed == \A c \in Threads : doing[c].op = "sending" => ~doing[c].late

\* A session that ended owns no stream any more, whoever closed what meanwhile.
StreamsGoWithSession == \A k \in streams : task[k[1]] # "ended"

\* Events of one stream come in order: opened, data, closed.
Rank(e) == CASE e[1] = "streamOpened" -> 1 [] e[1] = "streamData" -> 2 [] OTHER -> 3
StreamEventsInOrder ==
    \A i, j \in DOMAIN queue :
        i < j /\ queue[i][3] # 0 /\ queue[i][2] = queue[j][2] /\ queue[i][3] = queue[j][3]
        => Rank(queue[i]) < Rank(queue[j])

\* What the caller reads of an endpoint's sessions adds up (transport.rs:385-457,
\* 529-640): all of the above at once.
EventsAddUp == QuicTypeOK /\ StreamEventsInOrder /\ StreamsGoWithSession /\ NoWriteAfterClosed

\* A peer that vanished is not kept for ever, nor written to.
VanishedIsForgotten ==
    \A s \in Sessions : peer[s] = "gone" ~> s \notin sessions

\* The newest event is the one that is kept (EVENT_QUEUE_DEPTH, transport.rs:40-42): the end of a
\* session that was not read yet waits in the queue.
EndIsKept ==
    running => \A s \in Sessions :
        task[s] = "ended" /\ s \notin closed => \E i \in DOMAIN queue : queue[i] = <<"sessionClosed", s, 0>>

\* A stop that answered leaves nothing running (server_ffi.rs:80).
StoppedIsDown == handle = "stopped" => ~running \/ \A c \in Threads : doing[c] = Resting
============================================================================
