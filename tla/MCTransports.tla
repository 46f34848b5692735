---------------------------- MODULE MCTransports ----------------------------
(***************************************************************************)
(* The two transports that keep connections, on small instances for TLC:   *)
(* the NATS client (NatsClient) and the QUIC endpoint (QuicEndpoint).  They *)
(* share nothing in the code; a behaviour here is a behaviour of one of     *)
(* them, the other resting in one of its initial states.                   *)
(***************************************************************************)
EXTENDS NatsClient, QuicEndpoint, NativePart

Request(p, a, e, m) ==
    [policy |-> p, accepted |-> a, evidence |-> e, storage |-> "file", mode |-> m,
     messageId |-> TRUE, strays |-> {}]
MCRequests ==
    {Request("fsyncOnAck", 0, e, m) :
        e \in {"varzJson", "systemAccount"}, m \in {"default", "async"}}
    \cup {Request("flushOnAck", a, "systemAccount", "default") : a \in 0..2}
    \cup {Request("ackIsMemoryOnly", 0, "none", "async")}
    \cup {[Request("fsyncOnAck", 0, "systemAccount", "default") EXCEPT !.strays = Ids]}
MCServers == [syncAlways : BOOLEAN, interval : {2}, modern : BOOLEAN, reports : BOOLEAN]
MCStreams == {[storage |-> "none", mode |-> "none"], [storage |-> "file", mode |-> "async"],
              [storage |-> "memory", mode |-> "default"]}
MCConfigs == [bind : {"noPort", "taken", "elsewhere", "free"}, path : BOOLEAN,
    idle : {0, 999, 1000, 2000}, chain : {"empty", "unusable", "good"},
    key : {"empty", "pkcs1", "pkcs8"}]

ASSUME TransportsAssumption == NatsAssumption /\ QuicAssumption

natsVars == <<req, server, stream, place, copies, age, wire, taken, doc, conn, facts, known,
              told, handed, count, call>>
transportVars == <<natsVars, quicVars>>

NatsRests ==
    /\ Init /\ stream = NoStream /\ req = Request("ackIsMemoryOnly", 0, "none", "async")
    /\ server = [syncAlways |-> FALSE, interval |-> 2, modern |-> FALSE, reports |-> TRUE]
NoTransport == NatsRests /\ QuicInit
TransportInit ==
    \/ which = "nats" /\ Init /\ QuicInit
    \/ which = "quic" /\ NoTransport

NatsSteps == Alone("nats") /\ Next /\ UNCHANGED quicVars
QuicSteps == Alone("quic") /\ QuicNext /\ UNCHANGED natsVars
TransportNext == NatsSteps \/ QuicSteps
\* The QUIC runtime runs its tasks (QuicFairSpec); nobody owes a call.
Serves(s) == Alone("quic") /\ Serve(s) /\ UNCHANGED natsVars
============================================================================
