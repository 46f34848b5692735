---------------------------- MODULE MdnsHandles ----------------------------
(***************************************************************************)
(* The calls of rk_mdns (api.rs): responders and browsers behind handles   *)
(* (registry.rs), each an engine on a thread of its own, started, polled   *)
(* and stopped from any thread of the caller's (responder.rs, browser.rs), *)
(* and what a start makes of the host's interfaces (interfaces.rs,         *)
(* socket.rs) or a resolution of what it hears.  What an engine says on    *)
(* the network is MdnsResponder's and MdnsBrowser's.                       *)
(***************************************************************************)
EXTENDS Integers, Sequences, FiniteSets, SequencesExt

CONSTANTS
    Threads,
    Kinds,      \* subset of {"responder", "browser"}
    Machines,   \* what hosts have: sets of [name, family, address, loopback]
    Configs,    \* [legal, only, except, loopback, ipv6, explicit]
    Messages,   \* datagrams heard: [response, records], a record [host, ttl, address]
    Host,       \* the host that is resolved
    MaxStarts, MaxEvents \* bounds: starts that succeed, events of one engine

\* The loopback address is on loopback interfaces alone.
HandlesAssumption ==
    /\ MaxStarts \in Nat /\ MaxEvents \in Nat
    /\ \A machine \in Machines : \A i \in machine : i.address = "127.0.0.1" => i.loopback

Nobody == "nobody"
Busy(op, o, found) == [op |-> op, object |-> o, found |-> found]
NoCall == Busy("idle", 0, <<>>)
NoAnswer == [status |-> "none", only |-> {}, seen |-> {}]

VARIABLES
    table,   \* objects in the registries
    next,    \* each registry's counter
    objects, \* started so far: [kind, handle, engine, stop, thread, emitted, queue,
             \* lock, addresses]
    call,    \* what each thread is in
    answer   \* what the last call returned, and the names a start asked for and saw

vars == <<table, next, objects, call, answer>>

----------------------------------------------------------------------------
(* Interfaces.                                                             *)
Loopback(i) == i.loopback
Taken(c, i) ==
    /\ Loopback(i) => c.loopback
    /\ c.only # {} => i.name \in c.only
    /\ i.name \notin c.except
    /\ i.family = "v6" => c.ipv6
Usable(c, machine) == {i \in machine : Taken(c, i)}
NamesSeen(machine) == {i.name : i \in machine}

\* Mutant: every empty list is a host without a network.
WhyNoneNoInterface(c, machine) == "noInterface"
WhyNone(c, machine) ==
    IF c.only # {} /\ c.only \cap NamesSeen(machine) = {} THEN "invalidArgument"
    ELSE "noInterface"

\* Mutant: the loopback address is announced as any other.
AdvertisableAll(interfaces) == {i.address : i \in interfaces}
Advertisable(interfaces) == {i.address : i \in {j \in interfaces : ~Loopback(j)}}
Addresses(c, bound) == IF c.explicit # {} THEN c.explicit ELSE Advertisable(bound)

----------------------------------------------------------------------------
Init ==
    /\ table = {} /\ next = [k \in Kinds |-> 1] /\ objects = <<>>
    /\ call = [t \in Threads |-> NoCall] /\ answer = NoAnswer

Idle(t) == call[t] = NoCall
Says(status) == [NoAnswer EXCEPT !.status = status]
Return(t, a) == call' = [call EXCEPT ![t] = NoCall] /\ answer' = a

\* SocketSet::open: one socket for each usable interface; those that cannot
\* be bound are left out, none at all is the start's failure, and whether the
\* port was taken at one of them is its reason.
Refusal(c, machine, bound, portTaken) ==
    IF ~c.legal THEN "invalidArgument"
    ELSE IF Usable(c, machine) = {} THEN WhyNone(c, machine)
    ELSE IF bound # {} THEN "none"
    ELSE IF portTaken THEN "portInUse" ELSE "noInterface"

Refused(why, c, machine) ==
    IF why = "noInterface" THEN [status |-> why, only |-> c.only, seen |-> NamesSeen(machine)]
    ELSE Says(why)

\* Mutant: the lowest number that is free.
HandleFree(kind) ==
    CHOOSE h \in 1..MaxStarts + 1 :
        /\ ~\E o \in table : objects[o].kind = kind /\ objects[o].handle = h
        /\ \A g \in 1..h - 1 : \E o \in table : objects[o].kind = kind /\ objects[o].handle = g
Handle(kind) == next[kind]

\* An engine on a thread of its own, behind the number the caller gets.
Begun(kind, addresses) ==
    [kind |-> kind, handle |-> Handle(kind), engine |-> "running", stop |-> FALSE,
     thread |-> TRUE, emitted |-> 0, queue |-> <<>>, lock |-> Nobody, addresses |-> addresses]

Start(t) ==
    /\ Idle(t) /\ Len(objects) < MaxStarts
    /\ \E kind \in Kinds, c \in Configs, machine \in Machines :
       \E bound \in SUBSET Usable(c, machine), portTaken \in BOOLEAN :
         LET addresses == IF kind = "responder" THEN Addresses(c, bound) ELSE {}
             refusal == Refusal(c, machine, bound, portTaken)
             why == IF refusal = "none" /\ kind = "responder" /\ addresses = {}
                    THEN "invalidArgument" ELSE refusal
         IN  IF why # "none"
             THEN /\ Return(t, Refused(why, c, machine))
                  /\ UNCHANGED <<table, next, objects>>
             ELSE /\ objects' = Append(objects, Begun(kind, addresses))
                  /\ next' = [next EXCEPT ![kind] = @ + 1]
                  /\ table' = table \cup {Len(objects) + 1}
                  /\ Return(t, Says("ok"))

\* The object a handle a caller was once given stands for, if any.
Given == {[kind |-> objects[o].kind, handle |-> objects[o].handle] : o \in DOMAIN objects}
Get(h) == {o \in table : objects[o].kind = h.kind /\ objects[o].handle = h.handle}

\* stop: out of the table, then the flag and the wait for the thread.  Who
\* comes second is told that nothing runs.
Stop(t) ==
    /\ Idle(t)
    /\ \E h \in Given :
         \/ /\ Get(h) = {}
            /\ Return(t, Says("notRunning"))
            /\ UNCHANGED <<table, next, objects>>
         \/ \E o \in Get(h) :
            /\ table' = table \ {o}
            /\ objects' = [objects EXCEPT ![o].stop = TRUE, ![o].thread = FALSE]
            /\ call' = [call EXCEPT ![t] = Busy("joining", o, <<>>)]
            /\ UNCHANGED <<next, answer>>

\* Mutant: one lock around the whole of an object.
FreeToJoinLocked(o) == objects[o].lock = Nobody
FreeToJoin(o) == TRUE
\* Mutant: the flag is set and the thread left to itself.
EndedUnwaited(o) == TRUE
Ended(o) == objects[o].engine = "ended"
Joined(t) ==
    /\ call[t].op = "joining"
    /\ Ended(call[t].object) /\ FreeToJoin(call[t].object)
    /\ Return(t, Says("ok"))
    /\ UNCHANGED <<table, next, objects>>

\* poll and state hold the object, not the table's lock.
Poll(t) ==
    /\ Idle(t)
    /\ \E h \in Given :
         \/ /\ Get(h) = {}
            /\ Return(t, Says("unknownHandle"))
         \/ \E o \in Get(h) :
            /\ call' = [call EXCEPT ![t] = Busy("polling", o, <<>>)]
            /\ UNCHANGED answer
    /\ UNCHANGED <<table, next, objects>>

\* The receiver is locked for as long as the wait for an event lasts.
Lock(t) ==
    /\ call[t].op = "polling" /\ objects[call[t].object].lock = Nobody
    /\ objects' = [objects EXCEPT ![call[t].object].lock = t]
    /\ call' = [call EXCEPT ![t] = Busy("waiting", call[t].object, <<>>)]
    /\ UNCHANGED <<table, next, answer>>

Receive(t) ==
    /\ call[t].op = "waiting"
    /\ LET o == call[t].object
           empty == objects[o].queue = <<>>
       IN  /\ objects' = [objects EXCEPT ![o].lock = Nobody,
                              ![o].queue = IF empty THEN @ ELSE Tail(@)]
           /\ Return(t, Says(IF empty THEN "wouldBlock" ELSE "ok"))
    /\ UNCHANGED <<table, next>>

\* The engine's thread: it reports, and ends when it is told to, or when a
\* responder finds no name that is free.
Report(o) ==
    /\ objects[o].engine = "running" /\ objects[o].emitted < MaxEvents
    /\ objects' = [objects EXCEPT ![o].emitted = @ + 1,
                                  ![o].queue = Append(@, objects[o].emitted + 1)]
    /\ UNCHANGED <<table, next, call, answer>>
End(o) ==
    /\ objects[o].engine = "running" /\ objects[o].stop
    /\ objects' = [objects EXCEPT ![o].engine = "ended"]
    /\ UNCHANGED <<table, next, call, answer>>
GiveUp(o) ==
    /\ objects[o].engine = "running" /\ objects[o].kind = "responder"
    /\ objects' = [objects EXCEPT ![o].engine = "ended"]
    /\ UNCHANGED <<table, next, call, answer>>

\* resolve_host: the first answer opens a short wait for the other family, in
\* which a question's known answers count too.
Resolve(t) ==
    /\ Idle(t)
    /\ \E c \in Configs, machine \in Machines :
       \E bound \in SUBSET Usable(c, machine), portTaken \in BOOLEAN :
         LET why == Refusal(c, machine, bound, portTaken)
         IN  IF why # "none"
             THEN Return(t, Refused(why, c, machine))
             ELSE call' = [call EXCEPT ![t] = Busy("asking", 0, <<>>)] /\ UNCHANGED answer
    /\ UNCHANGED <<table, next, objects>>
Found(t, msg) ==
    LET new(found, r) ==
          IF r.host = Host /\ r.ttl > 0 /\ r.address \notin ToSet(found)
          THEN Append(found, r.address) ELSE found
    IN  FoldLeft(new, call[t].found, msg.records)
HearAnswer(t) ==
    /\ call[t].op \in {"asking", "settling"}
    /\ \E msg \in Messages :
         /\ msg.response \/ call[t].op = "settling"
         /\ call' = [call EXCEPT ![t] =
                        Busy(IF Found(t, msg) = <<>> THEN "asking" ELSE "settling",
                             0, Found(t, msg))]
    /\ UNCHANGED <<table, next, objects, answer>>
Resolved(t) ==
    /\ call[t].op \in {"asking", "settling"}
    /\ Return(t, Says("ok"))
    /\ UNCHANGED <<table, next, objects>>

Next ==
    \/ \E t \in Threads :
         \/ Start(t) \/ Stop(t) \/ Joined(t) \/ Poll(t) \/ Lock(t) \/ Receive(t)
         \/ Resolve(t) \/ HearAnswer(t) \/ Resolved(t)
    \/ \E o \in DOMAIN objects : Report(o) \/ End(o) \/ GiveUp(o)

Spec == Init /\ [][Next]_vars

\* An engine looks at its flag again and again, and the thread that joins it
\* is woken.  Nothing is asked of those who poll.
FairSpec ==
    /\ Spec
    /\ \A o \in 1..MaxStarts : WF_vars(o \in DOMAIN objects /\ End(o))
    /\ \A t \in Threads : WF_vars(Joined(t))

----------------------------------------------------------------------------
(* Properties.                                                             *)
TypeOK ==
    /\ table \subseteq DOMAIN objects
    /\ \A o \in DOMAIN objects :
         /\ objects[o].engine \in {"running", "ended"}
         /\ objects[o].lock \in Threads \cup {Nobody}
         /\ objects[o].queue \in Seq(1..MaxEvents)
    /\ \A t \in Threads :
         call[t].op \in {"idle", "joining", "polling", "waiting", "asking", "settling"}

\* No handle stands for two objects in the life of the process: a thread that
\* still uses one after another thread stopped it is told so, and never
\* reaches what was started since (registry.rs).
HandleNamesOneObject ==
    \A o, q \in DOMAIN objects :
        objects[o].kind = objects[q].kind /\ objects[o].handle = objects[q].handle => o = q

\* What is in no table is being stopped or has ended, with its goodbye sent:
\* no thread answers on the network for a handle nobody can name.
NoEngineIsForgotten ==
    \A o \in DOMAIN objects \ table :
        \/ objects[o].engine = "ended"
        \/ \E t \in Threads : call[t].op = "joining" /\ call[t].object = o

\* A responder that started has addresses, never the loopback one unless its
\* operator wrote it down, and a start refused for want of a network was not
\* asked for an interface that does not exist.
StartTellsWhy ==
    /\ \A o \in DOMAIN objects :
         objects[o].kind = "responder" =>
             /\ objects[o].addresses # {}
             /\ \/ "127.0.0.1" \notin objects[o].addresses
                \/ \E c \in Configs : objects[o].addresses = c.explicit
    /\ answer.status = "noInterface" /\ answer.only \cap answer.seen = {} => answer.only = {}

\* A handle names one object for the life of the process, no engine runs that
\* nobody can name or stop, and a start that is refused says why (registry.rs,
\* api.rs, responder.rs).
HandlesKeepTrack == TypeOK /\ HandleNamesOneObject /\ NoEngineIsForgotten /\ StartTellsWhy

\* A stop returns, whoever polls the same handle and for however long
\* (the locks of Responder and Browser).
StopIsNotHeldUp == \A t \in Threads : call[t].op = "joining" ~> call[t] = NoCall
============================================================================
