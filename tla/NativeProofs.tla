---------------------------- MODULE NativeProofs ----------------------------
(***************************************************************************)
(* Proofs about native packages and devices, each on its own.              *)
(*                                                                         *)
(* MdnsHandles, for any threads, hosts, configurations and numbers of      *)
(* starts: handles keep track of their engines.                            *)
(*                                                                         *)
(* ScaleReader, for any lines that are read as they are meant when each is *)
(* handed over whole, and however the port cuts the bytes: the weight the  *)
(* till takes is the one the scale shows at rest.                          *)
(*                                                                         *)
(* DeviceWrite, for any operations, models and wires, and however often    *)
(* writes are cut short or fail: a device takes each job once.             *)
(*                                                                         *)
(* MdbBus, for any asks and answers and any number of faults: peripherals  *)
(* execute what was asked, and answers are given whole and in their order. *)
(***************************************************************************)
EXTENDS MdnsHandles, ScaleReader, MdbBus, TLAPS, WellFoundedInduction, SequenceTheorems,
        FiniteSetTheorems

CONSTANTS Wires, Models, Writes, MaxJobs   \* of DeviceWrite
VARIABLES port, model, jobs, rest, took
Port == INSTANCE DeviceWrite WITH wire <- port, Ops <- Writes

----------------------------------------------------------------------------
(* Handles of the mDNS engines (MdnsHandles).                              *)

\* Every address an engine may announce.
AllAddresses ==
    (UNION {c.explicit : c \in Configs})
        \cup (UNION {{i.address : i \in machine} : machine \in Machines})
Objects ==
    [kind : Kinds, handle : Nat, engine : {"running", "ended"}, stop : BOOLEAN, thread : BOOLEAN,
     emitted : 0..MaxEvents, queue : Seq(1..MaxEvents), lock : Threads \cup {Nobody},
     addresses : SUBSET AllAddresses]
Ops == {"idle", "joining", "polling", "waiting", "asking", "settling"}

TypesOk ==
    /\ objects \in Seq(Objects)
    /\ table \subseteq DOMAIN objects
    /\ next \in [Kinds -> Nat]
    /\ DOMAIN call = Threads
    /\ \A t \in Threads : call[t].op \in Ops

\* A registry counts past every handle it ever gave.
HandlesOk ==
    /\ \A o \in DOMAIN objects : objects[o].handle < next[objects[o].kind]
    /\ HandleNamesOneObject

\* A call that works on an object has one.
CallsOk ==
    \A t \in Threads :
        call[t].op \in {"joining", "polling", "waiting"} => call[t].object \in DOMAIN objects

IInv == TypesOk /\ HandlesOk /\ CallsOk /\ NoEngineIsForgotten /\ StartTellsWhy

-----------------------------------------------------------------------------
(* What a start makes of a host.                                           *)

\* A host's own addresses leave the loopback out, and a start refused for want
\* of a network did find the interface it was asked for, if it was asked for one.
LEMMA StartMakes ==
    ASSUME HandlesAssumption, NEW c \in Configs, NEW machine \in Machines,
           NEW bound \in SUBSET Usable(c, machine), NEW portTaken \in BOOLEAN
    PROVE  /\ \/ "127.0.0.1" \notin Addresses(c, bound)
              \/ Addresses(c, bound) = c.explicit
           /\ Addresses(c, bound) \subseteq AllAddresses
           /\ Refusal(c, machine, bound, portTaken) = "noInterface"
              /\ c.only \cap NamesSeen(machine) = {} => c.only = {}
<1>1. \A i \in Usable(c, machine) : i \in machine /\ (i.address = "127.0.0.1" => Loopback(i))
    BY DEF Usable, HandlesAssumption, Loopback
<1>2. \/ "127.0.0.1" \notin Addresses(c, bound)
      \/ Addresses(c, bound) = c.explicit
    BY <1>1 DEF Addresses, Advertisable, HandlesAssumption
<1>3. Addresses(c, bound) \subseteq AllAddresses
    BY <1>1 DEF Addresses, Advertisable, AllAddresses
<1>4. ASSUME Refusal(c, machine, bound, portTaken) = "noInterface",
             c.only \cap NamesSeen(machine) = {}
      PROVE  c.only = {}
    <2>1. CASE Usable(c, machine) = {}
        BY <1>4, <2>1 DEF Refusal, WhyNone
    <2>2. CASE Usable(c, machine) # {}
        <3>1. PICK i \in machine : Taken(c, i)
            BY <2>2 DEF Usable
        <3>2. c.only # {} => i.name \in c.only \cap NamesSeen(machine)
            BY <3>1 DEF Taken, NamesSeen
        <3> QED
            BY <1>4, <3>2
    <2> QED
        BY <2>1, <2>2
<1> QED
    BY <1>2, <1>3, <1>4

-----------------------------------------------------------------------------
(* The steps.                                                              *)

LEMMA InitEstablishes == ASSUME Init PROVE IInv
<1>1. TypesOk
    BY DEF Init, TypesOk, NoCall, Busy, Ops
<1> QED
    BY <1>1 DEF Init, IInv, HandlesOk, HandleNamesOneObject, CallsOk, NoEngineIsForgotten,
                StartTellsWhy, NoCall, NoAnswer, Busy

LEMMA ObjectHas ==
    ASSUME TypesOk, NEW o \in DOMAIN objects
    PROVE  /\ objects[o] \in Objects
           /\ objects[o].kind \in Kinds /\ objects[o].handle \in Nat
<1>1. objects[o] \in Objects
    BY DEF TypesOk
<1> QED
    BY <1>1 DEF Objects

\* One object becomes another with the same name.
LEMMA ObjectChanges ==
    ASSUME TypesOk, NEW o \in DOMAIN objects, NEW r \in Objects,
           objects' = [objects EXCEPT ![o] = r]
    PROVE  /\ objects' \in Seq(Objects) /\ DOMAIN objects' = DOMAIN objects
           /\ objects'[o] = r /\ \A q \in DOMAIN objects \ {o} : objects'[q] = objects[q]
    BY DEF TypesOk

\* A call leaves no joiner, and what it answers is in order; objects stay.
LEMMA CallMoves ==
    ASSUME IInv, NEW t \in Threads, NEW op \in Ops, NEW o, NEW found,
           call' = [call EXCEPT ![t] = Busy(op, o, found)],
           op \in {"joining", "polling", "waiting"} => o \in DOMAIN objects,
           call[t].op = "joining" => objects[call[t].object].engine = "ended",
           UNCHANGED <<table, next, objects>>,
           answer'.status = "noInterface" /\ answer'.only \cap answer'.seen = {}
               => answer'.only = {}
    PROVE  IInv'
<1>1. DOMAIN call' = Threads /\ call'[t] = Busy(op, o, found)
      /\ \A u \in Threads \ {t} : call'[u] = call[u]
    BY DEF IInv, TypesOk
<1>2. TypesOk' /\ CallsOk'
    BY <1>1 DEF IInv, TypesOk, CallsOk, Busy
<1>3. NoEngineIsForgotten'
    BY <1>1 DEF IInv, NoEngineIsForgotten, Busy
<1>4. HandlesOk' /\ StartTellsWhy'
    BY DEF IInv, HandlesOk, HandleNamesOneObject, StartTellsWhy
<1> QED
    BY <1>2, <1>3, <1>4 DEF IInv
LEMMA StartKeeps == ASSUME HandlesAssumption, IInv, NEW t \in Threads, Start(t) PROVE IInv'
<1>1. PICK kind \in Kinds, c \in Configs, machine \in Machines :
      \E bound \in SUBSET Usable(c, machine), portTaken \in BOOLEAN :
         LET addresses == IF kind = "responder" THEN Addresses(c, bound) ELSE {}
             refusal == Refusal(c, machine, bound, portTaken)
             why == IF refusal = "none" /\ kind = "responder" /\ addresses = {}
                    THEN "invalidArgument" ELSE refusal
         IN  IF why # "none"
             THEN /\ Return(t, Refused(why, c, machine))
                  /\ UNCHANGED <<table, next, objects>>
             ELSE /\ objects' = Append(objects, Begun(kind, addresses))
                  /\ next' = [next EXCEPT ![kind] = @ + 1]
                  /\ table' = table \cup {Len(objects) + 1}
                  /\ Return(t, Says("ok"))
    BY DEF Start
<1>2. PICK bound \in SUBSET Usable(c, machine), portTaken \in BOOLEAN :
         LET addresses == IF kind = "responder" THEN Addresses(c, bound) ELSE {}
             refusal == Refusal(c, machine, bound, portTaken)
             why == IF refusal = "none" /\ kind = "responder" /\ addresses = {}
                    THEN "invalidArgument" ELSE refusal
         IN  IF why # "none"
             THEN /\ Return(t, Refused(why, c, machine))
                  /\ UNCHANGED <<table, next, objects>>
             ELSE /\ objects' = Append(objects, Begun(kind, addresses))
                  /\ next' = [next EXCEPT ![kind] = @ + 1]
                  /\ table' = table \cup {Len(objects) + 1}
                  /\ Return(t, Says("ok"))
    BY <1>1
<1> DEFINE addresses == IF kind = "responder" THEN Addresses(c, bound) ELSE {}
           refusal == Refusal(c, machine, bound, portTaken)
           why == IF refusal = "none" /\ kind = "responder" /\ addresses = {}
                  THEN "invalidArgument" ELSE refusal
<1>3. call[t] = NoCall /\ call[t].op = "idle"
    BY DEF Start, Idle, NoCall, Busy
<1>4. CASE why # "none"
    <2>1. Return(t, Refused(why, c, machine)) /\ UNCHANGED <<table, next, objects>>
        BY <1>2, <1>4
    <2>2. call' = [call EXCEPT ![t] = Busy("idle", 0, <<>>)]
        BY <2>1 DEF Return, NoCall
    <2>3. ASSUME answer'.status = "noInterface", answer'.only \cap answer'.seen = {}
          PROVE  answer'.only = {}
        <3>1. CASE why = "noInterface"
            <4>1. refusal = "noInterface"
                BY <3>1
            <4>2. answer'.only = c.only /\ answer'.seen = NamesSeen(machine)
                BY <2>1, <3>1 DEF Return, Refused
            <4> QED
                BY <2>3, <4>1, <4>2, StartMakes
        <3>2. CASE why # "noInterface"
            BY <2>1, <3>2 DEF Return, Refused, Says, NoAnswer
        <3> QED
            BY <3>1, <3>2
    <2> QED
        BY <1>3, <2>1, <2>2, <2>3, CallMoves DEF Ops
<1>5. CASE why = "none"
    <2>1. /\ objects' = Append(objects, Begun(kind, addresses))
          /\ next' = [next EXCEPT ![kind] = @ + 1]
          /\ table' = table \cup {Len(objects) + 1}
          /\ Return(t, Says("ok"))
        BY <1>2, <1>5
    <2>2. /\ \/ "127.0.0.1" \notin addresses
             \/ addresses = c.explicit
          /\ addresses \in SUBSET AllAddresses
          /\ kind = "responder" => addresses # {}
        BY <1>5, StartMakes
    <2> HIDE DEF addresses
    <2>3. Begun(kind, addresses) \in Objects
        <3>1. Handle(kind) \in Nat /\ 0 \in 0..MaxEvents /\ <<>> \in Seq(1..MaxEvents)
            BY DEF IInv, TypesOk, Handle, HandlesAssumption
        <3> QED
            BY <2>2, <3>1 DEF Begun, Objects
    <2>4. /\ Begun(kind, addresses).kind = kind /\ Begun(kind, addresses).handle = next[kind]
          /\ Begun(kind, addresses).addresses = addresses
        BY DEF Begun, Handle
    <2>5. /\ objects' \in Seq(Objects) /\ Len(objects) \in Nat
          /\ DOMAIN objects = 1..Len(objects) /\ DOMAIN objects' = 1..(Len(objects) + 1)
          /\ \A o \in DOMAIN objects : objects'[o] = objects[o]
          /\ objects'[Len(objects) + 1] = Begun(kind, addresses)
        BY <2>1, <2>3 DEF IInv, TypesOk
    <2>6. /\ DOMAIN call' = Threads /\ call'[t].op = "idle"
          /\ \A u \in Threads \ {t} : call'[u] = call[u]
          /\ answer'.status = "ok"
        BY <2>1 DEF Return, NoCall, Busy, Says, NoAnswer, IInv, TypesOk
    <2>7. /\ next' \in [Kinds -> Nat]
          /\ \A k \in Kinds : next'[k] = IF k = kind THEN next[k] + 1 ELSE next[k]
        BY <2>1 DEF IInv, TypesOk
    <2>8. TypesOk' /\ CallsOk'
        BY <2>1, <2>5, <2>6, <2>7 DEF IInv, TypesOk, CallsOk, Ops
    <2>9. HandlesOk'
        <3>1. \A o \in DOMAIN objects : objects[o].kind \in Kinds /\ objects[o].handle \in Nat
            BY ObjectHas DEF IInv
        <3>2. \A o \in DOMAIN objects' : objects'[o].handle < next'[objects'[o].kind]
            <4>1. ASSUME NEW o \in DOMAIN objects PROVE objects'[o].handle < next'[objects'[o].kind]
                <5>1. objects[o].handle < next[objects[o].kind] /\ next[objects[o].kind] \in Nat
                    BY <3>1 DEF IInv, HandlesOk, TypesOk
                <5> QED
                    BY <2>5, <2>7, <3>1, <5>1
            <4>2. /\ objects'[Len(objects) + 1].handle < next'[kind]
                  /\ objects'[Len(objects) + 1].kind = kind
                BY <2>4, <2>5, <2>7 DEF IInv, TypesOk
            <4> QED
                BY <2>5, <4>1, <4>2
        <3>3. HandleNamesOneObject'
            BY <2>4, <2>5, <3>1 DEF IInv, HandlesOk, HandleNamesOneObject, TypesOk
        <3> QED
            BY <3>2, <3>3 DEF HandlesOk
    <2>10. NoEngineIsForgotten'
        BY <1>3, <2>1, <2>5, <2>6 DEF IInv, NoEngineIsForgotten
    <2>11. StartTellsWhy'
        BY <2>2, <2>4, <2>5, <2>6 DEF IInv, StartTellsWhy
    <2> QED
        BY <2>8, <2>9, <2>10, <2>11 DEF IInv
<1> QED
    BY <1>4, <1>5
\* An object moves and keeps its name: what changes is where its engine stands.
LEMMA ObjectMoves ==
    ASSUME IInv, NEW o \in DOMAIN objects, NEW r \in Objects,
           objects' = [objects EXCEPT ![o] = r],
           r.kind = objects[o].kind, r.handle = objects[o].handle,
           r.addresses = objects[o].addresses,
           objects[o].engine = "ended" => r.engine = "ended",
           table' \subseteq table, next' = next,
           DOMAIN call' = Threads, \A t \in Threads : call'[t].op \in Ops, CallsOk',
           \A t \in Threads : call[t].op = "joining" => call'[t] = call[t],
           \A q \in table \ table' :
               \E t \in Threads : call'[t].op = "joining" /\ call'[t].object = q,
           answer'.status = "noInterface" => answer' = answer
    PROVE  IInv'
<1>1. /\ objects' \in Seq(Objects) /\ DOMAIN objects' = DOMAIN objects
      /\ objects'[o] = r /\ \A q \in DOMAIN objects \ {o} : objects'[q] = objects[q]
    BY ObjectChanges DEF IInv
<1>2. \A q \in DOMAIN objects :
          /\ objects'[q].kind = objects[q].kind /\ objects'[q].handle = objects[q].handle
          /\ objects'[q].addresses = objects[q].addresses
          /\ objects[q].engine = "ended" => objects'[q].engine = "ended"
    BY <1>1
<1>3. TypesOk'
    BY <1>1 DEF IInv, TypesOk
<1>4. HandlesOk'
    BY <1>1, <1>2 DEF IInv, HandlesOk, HandleNamesOneObject
<1>5. NoEngineIsForgotten'
    BY <1>1, <1>2 DEF IInv, NoEngineIsForgotten
<1>6. StartTellsWhy'
    BY <1>1, <1>2 DEF IInv, StartTellsWhy
<1> QED
    BY <1>3, <1>4, <1>5, <1>6 DEF IInv

\* The engine's thread.
LEMMA EngineKeeps ==
    ASSUME HandlesAssumption, IInv, NEW o \in DOMAIN objects, Report(o) \/ End(o) \/ GiveUp(o)
    PROVE  IInv'
<1>1. objects[o] \in Objects
    BY ObjectHas DEF IInv
<1>2. CASE Report(o)
    <2> DEFINE r == [objects[o] EXCEPT !.emitted = @ + 1,
                                       !.queue = Append(@, objects[o].emitted + 1)]
    <2>1. objects' = [objects EXCEPT ![o] = r]
        BY <1>2, <1>1 DEF Report, Objects, IInv, TypesOk
    <2>2. /\ objects[o].emitted + 1 \in 1..MaxEvents
          /\ objects[o].queue \in Seq(1..MaxEvents)
        BY <1>1, <1>2 DEF Objects, Report, HandlesAssumption
    <2>3. Append(objects[o].queue, objects[o].emitted + 1) \in Seq(1..MaxEvents)
        <3> DEFINE S == 1..MaxEvents
                   q == objects[o].queue
                   e == objects[o].emitted + 1
        <3>1. q \in Seq(S) /\ e \in S
            BY <2>2
        <3> HIDE DEF S, q, e
        <3>2. Append(q, e) \in Seq(S)
            BY <3>1
        <3> QED
            BY <3>2 DEF S, q, e
    <2>4. r \in Objects /\ r.kind = objects[o].kind /\ r.handle = objects[o].handle
          /\ r.addresses = objects[o].addresses /\ r.engine = objects[o].engine
        <3>1. objects[o].emitted + 1 \in 0..MaxEvents
            BY <2>2
        <3> QED
            BY <1>1, <2>3, <3>1 DEF Objects
    <2> HIDE DEF r
    <2> QED
        BY <1>2, <2>1, <2>4, ObjectMoves DEF Report, IInv, TypesOk, CallsOk
<1>3. CASE End(o) \/ GiveUp(o)
    <2> DEFINE r == [objects[o] EXCEPT !.engine = "ended"]
    <2>1. objects' = [objects EXCEPT ![o] = r]
        BY <1>3 DEF End, GiveUp
    <2>2. r \in Objects /\ r.kind = objects[o].kind /\ r.handle = objects[o].handle
          /\ r.addresses = objects[o].addresses /\ r.engine = "ended"
        BY <1>1 DEF Objects
    <2> HIDE DEF r
    <2> QED
        BY <1>3, <2>1, <2>2, ObjectMoves DEF End, GiveUp, IInv, TypesOk, CallsOk
<1> QED
    BY <1>2, <1>3
LEMMA StopKeeps == ASSUME IInv, NEW t \in Threads, Stop(t) PROVE IInv'
<1>1. call[t] = NoCall /\ call[t].op = "idle"
    BY DEF Stop, Idle, NoCall, Busy
<1>2. CASE Return(t, Says("notRunning")) /\ UNCHANGED <<table, next, objects>>
    <2>1. call' = [call EXCEPT ![t] = Busy("idle", 0, <<>>)] /\ answer'.status = "notRunning"
        BY <1>2 DEF Return, NoCall, Says, NoAnswer
    <2> QED
        BY <1>1, <1>2, <2>1, CallMoves DEF Ops
<1>3. CASE \E o \in table :
              /\ table' = table \ {o}
              /\ objects' = [objects EXCEPT ![o].stop = TRUE, ![o].thread = FALSE]
              /\ call' = [call EXCEPT ![t] = Busy("joining", o, <<>>)]
              /\ UNCHANGED <<next, answer>>
    <2>1. PICK o \in table :
              /\ table' = table \ {o}
              /\ objects' = [objects EXCEPT ![o].stop = TRUE, ![o].thread = FALSE]
              /\ call' = [call EXCEPT ![t] = Busy("joining", o, <<>>)]
              /\ UNCHANGED <<next, answer>>
        BY <1>3
    <2>2. o \in DOMAIN objects /\ objects[o] \in Objects
        BY ObjectHas DEF IInv, TypesOk
    <2> DEFINE r == [objects[o] EXCEPT !.stop = TRUE, !.thread = FALSE]
    <2>3. objects' = [objects EXCEPT ![o] = r]
        BY <2>1, <2>2 DEF Objects, IInv, TypesOk
    <2>4. r \in Objects /\ r.kind = objects[o].kind /\ r.handle = objects[o].handle
          /\ r.addresses = objects[o].addresses /\ r.engine = objects[o].engine
        BY <2>2 DEF Objects
    <2> HIDE DEF r
    <2>5. /\ DOMAIN call' = Threads /\ call'[t] = Busy("joining", o, <<>>)
          /\ \A u \in Threads \ {t} : call'[u] = call[u]
        BY <2>1 DEF IInv, TypesOk
    <2>6. \A u \in Threads : call'[u].op \in Ops
        BY <2>5 DEF Busy, Ops, IInv, TypesOk
    <2>7. DOMAIN objects' = DOMAIN objects
        BY <2>3 DEF IInv, TypesOk
    <2>8. CallsOk'
        BY <2>2, <2>5, <2>7 DEF Busy, IInv, CallsOk
    <2>9. \A q \in table \ table' :
              \E u \in Threads : call'[u].op = "joining" /\ call'[u].object = q
        BY <2>1, <2>5 DEF Busy
    <2>10. \A u \in Threads : call[u].op = "joining" => call'[u] = call[u]
        BY <1>1, <2>5
    <2>11. table' \subseteq table /\ next' = next /\ answer' = answer
        BY <2>1
    <2> QED
        BY <2>2, <2>3, <2>4, <2>5, <2>6, <2>8, <2>9, <2>10, <2>11, ObjectMoves
<1> QED
    BY <1>2, <1>3 DEF Stop, Get

\* A call that returns leaves its engine where it stands.
LEMMA CallReturns ==
    ASSUME IInv, NEW t \in Threads, NEW status \in {"ok", "wouldBlock", "unknownHandle"},
           Return(t, Says(status)), UNCHANGED <<table, next, objects>>,
           call[t].op = "joining" => objects[call[t].object].engine = "ended"
    PROVE  IInv'
<1>1. call' = [call EXCEPT ![t] = Busy("idle", 0, <<>>)] /\ answer'.status = status
    BY DEF Return, NoCall, Says, NoAnswer
<1> QED
    BY <1>1, CallMoves DEF Ops

LEMMA PollKeeps ==
    ASSUME IInv, NEW t \in Threads, Joined(t) \/ Poll(t) \/ Resolved(t)
    PROVE  IInv'
<1>1. CASE Joined(t)
    BY <1>1, CallReturns DEF Joined, Ended
<1>2. CASE Poll(t)
    <2>1. call[t].op = "idle" /\ UNCHANGED <<table, next, objects>>
        BY <1>2 DEF Poll, Idle, NoCall, Busy
    <2>2. CASE Return(t, Says("unknownHandle"))
        BY <2>1, <2>2, CallReturns
    <2>3. CASE \E o \in table :
                  call' = [call EXCEPT ![t] = Busy("polling", o, <<>>)] /\ UNCHANGED answer
        <3>1. PICK o \in table :
                  call' = [call EXCEPT ![t] = Busy("polling", o, <<>>)] /\ UNCHANGED answer
            BY <2>3
        <3>2. o \in DOMAIN objects
            BY DEF IInv, TypesOk
        <3> QED
            BY <2>1, <3>1, <3>2, CallMoves DEF Ops, IInv, StartTellsWhy
    <2> QED
        BY <1>2, <2>2, <2>3 DEF Poll, Get
<1>3. CASE Resolved(t)
    BY <1>3, CallReturns DEF Resolved
<1> QED
    BY <1>1, <1>2, <1>3

\* The receiver's lock is taken and given back; events leave their queue.
LEMMA LockKeeps == ASSUME IInv, NEW t \in Threads, Lock(t) PROVE IInv'
<1> DEFINE o == call[t].object
           r == [objects[o] EXCEPT !.lock = t]
<1>1. /\ o \in DOMAIN objects /\ objects[o] \in Objects /\ call[t].op = "polling"
      /\ objects' = [objects EXCEPT ![o] = r]
      /\ call' = [call EXCEPT ![t] = Busy("waiting", o, <<>>)]
      /\ UNCHANGED <<table, next, answer>>
    BY ObjectHas DEF Lock, IInv, CallsOk
<1>2. r \in Objects /\ r.kind = objects[o].kind /\ r.handle = objects[o].handle
      /\ r.addresses = objects[o].addresses /\ r.engine = objects[o].engine
    BY <1>1 DEF Objects
<1> HIDE DEF r, o
<1>3. /\ DOMAIN call' = Threads /\ call'[t] = Busy("waiting", o, <<>>)
      /\ \A u \in Threads \ {t} : call'[u] = call[u]
    BY <1>1 DEF IInv, TypesOk
<1>4. (\A u \in Threads : call'[u].op \in Ops) /\ DOMAIN objects' = DOMAIN objects
    BY <1>1, <1>3 DEF Busy, Ops, IInv, TypesOk
<1>5. CallsOk'
    BY <1>1, <1>3, <1>4 DEF Busy, IInv, CallsOk
<1> QED
    BY <1>1, <1>2, <1>3, <1>4, <1>5, ObjectMoves

LEMMA ReceiveKeeps == ASSUME IInv, NEW t \in Threads, Receive(t) PROVE IInv'
<1> DEFINE o == call[t].object
           q == IF objects[o].queue = <<>> THEN objects[o].queue ELSE Tail(objects[o].queue)
           r == [objects[o] EXCEPT !.lock = Nobody, !.queue = q]
<1>1. /\ o \in DOMAIN objects /\ objects[o] \in Objects /\ call[t].op = "waiting"
      /\ call' = [call EXCEPT ![t] = NoCall]
      /\ answer'.status \in {"wouldBlock", "ok"} /\ UNCHANGED <<table, next>>
    BY ObjectHas DEF Receive, IInv, CallsOk, Return, Says, NoAnswer
<1>2. objects' = [objects EXCEPT ![o] = r]
    BY <1>1 DEF Receive, Objects, IInv, TypesOk
<1>3. q \in Seq(1..MaxEvents)
    <2>1. objects[o].queue \in Seq(1..MaxEvents)
        BY <1>1 DEF Objects
    <2>2. ASSUME NEW S, NEW s \in Seq(S), s # <<>> PROVE Tail(s) \in Seq(S)
        BY <2>2
    <2> QED
        BY <2>1, <2>2
<1> HIDE DEF q
<1>4. r \in Objects /\ r.kind = objects[o].kind /\ r.handle = objects[o].handle
      /\ r.addresses = objects[o].addresses /\ r.engine = objects[o].engine
    BY <1>1, <1>3 DEF Objects
<1> HIDE DEF r, o
<1>5. /\ DOMAIN call' = Threads /\ call'[t] = NoCall
      /\ \A u \in Threads \ {t} : call'[u] = call[u]
    BY <1>1 DEF IInv, TypesOk
<1>6. (\A u \in Threads : call'[u].op \in Ops) /\ DOMAIN objects' = DOMAIN objects
    BY <1>2, <1>5 DEF NoCall, Busy, Ops, IInv, TypesOk
<1>7. CallsOk'
    BY <1>5, <1>6 DEF NoCall, Busy, IInv, CallsOk
<1> QED
    BY <1>1, <1>2, <1>4, <1>5, <1>6, <1>7, ObjectMoves
\* A resolution has no object.
LEMMA ResolveKeeps ==
    ASSUME HandlesAssumption, IInv, NEW t \in Threads, Resolve(t) \/ HearAnswer(t)
    PROVE  IInv'
<1>1. CASE Resolve(t)
    <2>1. PICK c \in Configs, machine \in Machines :
          \E bound \in SUBSET Usable(c, machine), portTaken \in BOOLEAN :
             LET why == Refusal(c, machine, bound, portTaken)
             IN  IF why # "none"
                 THEN Return(t, Refused(why, c, machine))
                 ELSE call' = [call EXCEPT ![t] = Busy("asking", 0, <<>>)] /\ UNCHANGED answer
        BY <1>1 DEF Resolve
    <2>2. PICK bound \in SUBSET Usable(c, machine), portTaken \in BOOLEAN :
             LET why == Refusal(c, machine, bound, portTaken)
             IN  IF why # "none"
                 THEN Return(t, Refused(why, c, machine))
                 ELSE call' = [call EXCEPT ![t] = Busy("asking", 0, <<>>)] /\ UNCHANGED answer
        BY <2>1
    <2> DEFINE why == Refusal(c, machine, bound, portTaken)
    <2>3. call[t].op = "idle" /\ UNCHANGED <<table, next, objects>>
        BY <1>1 DEF Resolve, Idle, NoCall, Busy
    <2>4. CASE why = "none"
        BY <2>2, <2>3, <2>4, CallMoves DEF Ops, IInv, StartTellsWhy
    <2>5. CASE why # "none"
        <3>1. /\ call' = [call EXCEPT ![t] = Busy("idle", 0, <<>>)]
              /\ answer' = Refused(why, c, machine)
            BY <2>2, <2>5 DEF Return, NoCall
        <3>2. ASSUME answer'.status = "noInterface", answer'.only \cap answer'.seen = {}
              PROVE  answer'.only = {}
            <4>1. CASE why = "noInterface"
                <5>1. answer'.only = c.only /\ answer'.seen = NamesSeen(machine)
                    BY <3>1, <4>1 DEF Refused
                <5> QED
                    BY <3>2, <4>1, <5>1, StartMakes
            <4>2. CASE why # "noInterface"
                BY <3>1, <4>2 DEF Refused, Says, NoAnswer
            <4> QED
                BY <4>1, <4>2
        <3> QED
            BY <2>3, <3>1, <3>2, CallMoves DEF Ops
    <2> QED
        BY <2>4, <2>5
<1>2. CASE HearAnswer(t)
    <2>1. PICK msg \in Messages :
              call' = [call EXCEPT ![t] =
                        Busy(IF Found(t, msg) = <<>> THEN "asking" ELSE "settling",
                             0, Found(t, msg))]
        BY <1>2 DEF HearAnswer
    <2>2. call[t].op # "joining" /\ UNCHANGED <<table, next, objects, answer>>
        BY <1>2 DEF HearAnswer
    <2>3. (IF Found(t, msg) = <<>> THEN "asking" ELSE "settling") \in {"asking", "settling"}
        OBVIOUS
    <2> QED
        BY <2>1, <2>2, <2>3, CallMoves DEF Ops, IInv, StartTellsWhy
<1> QED
    BY <1>1, <1>2

LEMMA NextKeeps == ASSUME HandlesAssumption, IInv, [Next]_vars PROVE IInv'
<1>1. ASSUME NEW t \in Threads, Start(t) \/ Stop(t) PROVE IInv'
    BY <1>1, StartKeeps, StopKeeps
<1>2. ASSUME NEW t \in Threads, Joined(t) \/ Poll(t) \/ Resolved(t) PROVE IInv'
    BY <1>2, PollKeeps
<1>3. ASSUME NEW t \in Threads, Lock(t) \/ Receive(t) PROVE IInv'
    BY <1>3, LockKeeps, ReceiveKeeps
<1>4. ASSUME NEW t \in Threads, Resolve(t) \/ HearAnswer(t) PROVE IInv'
    BY <1>4, ResolveKeeps
<1>5. ASSUME NEW o \in DOMAIN objects, Report(o) \/ End(o) \/ GiveUp(o) PROVE IInv'
    BY <1>5, EngineKeeps
<1>6. CASE UNCHANGED vars
    BY <1>6 DEF vars, IInv, TypesOk, HandlesOk, HandleNamesOneObject, CallsOk,
                NoEngineIsForgotten, StartTellsWhy
<1> QED
    BY <1>1, <1>2, <1>3, <1>4, <1>5, <1>6 DEF Next

-----------------------------------------------------------------------------
(* The theorem.                                                            *)

\* Whatever threads call and in whatever order, a handle names one engine for
\* the life of the process, no engine is left running that nobody can name or
\* is stopping, and a start that is refused says why (registry.rs, api.rs).
THEOREM HandlesAreTrue == ASSUME HandlesAssumption PROVE Spec => []HandlesKeepTrack
<1>1. Init => IInv
    BY InitEstablishes
<1>2. IInv /\ [Next]_vars => IInv'
    BY NextKeeps
<1>3. IInv => HandlesKeepTrack
    <2> SUFFICES ASSUME IInv PROVE TypeOK
        BY DEF IInv, HandlesOk, HandlesKeepTrack
    <2>1. \A o \in DOMAIN objects : objects[o] \in Objects
        BY ObjectHas DEF IInv
    <2>2. \A o \in DOMAIN objects :
              /\ objects[o].engine \in {"running", "ended"}
              /\ objects[o].lock \in Threads \cup {Nobody}
              /\ objects[o].queue \in Seq(1..MaxEvents)
        BY <2>1 DEF Objects
    <2> QED
        BY <2>2 DEF IInv, TypesOk, TypeOK, Ops
<1> QED
    BY <1>1, <1>2, <1>3, PTL DEF Spec

----------------------------------------------------------------------------
(* Numbers and sequences.                                                  *)

\* The order of the natural numbers, as a set of pairs.
Less == {pair \in Nat \X Nat : pair[1] < pair[2]}

\* A set of numbers that is not empty has a least one, and that is its Min.
LEMMA LeastOf ==
    ASSUME NEW S \in SUBSET Nat, S # {}
    PROVE  /\ Min(S) \in S
           /\ \A u \in S : Min(S) <= u
<1>1. IsWellFoundedOn(Less, Nat)
    BY NatLessThanWellFounded, Zenon DEF OpToRel, Less
<1>2. PICK t \in S : \A u \in S : ~ (<<u, t>> \in Less)
    BY <1>1, WFMin, Zenon
<1>3. \A u \in S : t <= u
    <2>1. TAKE u \in S
    <2>2. u \in Nat /\ t \in Nat /\ <<u, t>> \notin Less
        BY <1>2
    <2> QED BY <2>2 DEF Less
<1> QED BY <1>3, Zenon DEF Min

\* FlattenSeq builds its result in parts.
Parts(s, F) == F = [i \in 1..Len(s) |-> IF i = 1 THEN s[i] ELSE F[i - 1] \o s[i]]

LEMMA PartsExist ==
    ASSUME NEW T, NEW s \in Seq(Seq(T)), s # <<>>
    PROVE  \E F : Parts(s, F)
<1> DEFINE Bad == {n \in Nat : \E r \in Seq(Seq(T)) : Len(r) = n /\ n > 0 /\ ~ \E F : Parts(r, F)}
<1>1. ASSUME Bad # {} PROVE FALSE
    <2>1. PICK m \in Bad : \A u \in Bad : m <= u
        BY <1>1, LeastOf, Zenon
    <2>2. PICK r \in Seq(Seq(T)) : Len(r) = m /\ m > 0 /\ ~ \E F : Parts(r, F)
        BY <2>1
    <2>3. m \in Nat
        BY <2>1
    <2>4. CASE m = 1
        <3> DEFINE G == [i \in 1..Len(r) |-> r[i]]
        <3>1. G = [i \in 1..Len(r) |-> IF i = 1 THEN r[i] ELSE G[i - 1] \o r[i]]
            BY <2>2, <2>4
        <3> QED BY <3>1, <2>2 DEF Parts
    <2>5. CASE m > 1
        <3> DEFINE front == SubSeq(r, 1, m - 1)
        <3>1. front \in Seq(Seq(T)) /\ Len(front) = m - 1 /\ \A i \in 1..m - 1 : front[i] = r[i]
            BY <2>2, <2>3, <2>5
        <3> HIDE DEF front
        <3>5. m - 1 \notin Bad /\ m - 1 \in Nat /\ m - 1 > 0
            BY <2>1, <2>3, <2>5
        <3>2. PICK F : Parts(front, F)
            BY <3>1, <3>5, Zenon
        <3> DEFINE G == [i \in 1..m |-> IF i < m THEN F[i] ELSE F[m - 1] \o r[m]]
        <3>3. \A i \in 1..m : G[i] = IF i = 1 THEN r[i] ELSE G[i - 1] \o r[i]
            <4> TAKE i \in 1..m
            <4>1. CASE i = m
                BY <4>1, <2>3, <2>5
            <4>2. CASE i < m
                <5>1. F[i] = IF i = 1 THEN front[i] ELSE F[i - 1] \o front[i]
                    <6>1. i \in 1..Len(front)
                        BY <3>1, <4>2, <2>3
                    <6> QED BY <6>1, <3>2, Zenon DEF Parts
                <5> QED BY <5>1, <3>1, <4>2, <2>3
            <4> QED BY <4>1, <4>2, <2>3
        <3>4. G = [i \in 1..Len(r) |-> IF i = 1 THEN r[i] ELSE G[i - 1] \o r[i]]
            BY <3>3, <2>2
        <3> QED BY <3>4, <2>2 DEF Parts
    <2> QED BY <2>2, <2>3, <2>4, <2>5
<1>2. Len(s) \in Nat /\ Len(s) > 0
    OBVIOUS
<1> QED BY <1>1, <1>2

LEMMA PartsAreTyped ==
    ASSUME NEW T, NEW s \in Seq(Seq(T)), NEW F, Parts(s, F), NEW i \in 1..Len(s)
    PROVE  F[i] \in Seq(T)
<1> DEFINE Bad == {n \in 1..Len(s) : F[n] \notin Seq(T)}
<1>0. Bad \in SUBSET Nat
    OBVIOUS
<1>1. ASSUME Bad # {} PROVE FALSE
    <2>1. PICK m \in Bad : \A u \in Bad : m <= u
        BY <1>0, <1>1, LeastOf, Zenon
    <2>2. m \in 1..Len(s) /\ F[m] \notin Seq(T)
        BY <2>1
    <2>3. F[m] = IF m = 1 THEN s[m] ELSE F[m - 1] \o s[m]
        BY <2>2, Zenon DEF Parts
    <2>4. s[m] \in Seq(T)
        BY <2>2
    <2>5. CASE m = 1
        BY <2>2, <2>3, <2>4, <2>5
    <2>6. CASE m > 1
        <3>1. F[m - 1] \in Seq(T)
            BY <2>1, <2>2, <2>6
        <3>2. F[m - 1] \o s[m] \in Seq(T)
            BY <3>1, <2>4
        <3> QED BY <3>2, <2>2, <2>3, <2>6
    <2> QED BY <2>2, <2>5, <2>6
<1> QED BY <1>1

\* The parts of a sequence are those of the longer one.
LEMMA PartsStay ==
    ASSUME NEW s, NEW r, NEW F, NEW G, Len(s) \in Nat, Len(r) \in Nat, Len(s) <= Len(r),
           \A i \in 1..Len(s) : s[i] = r[i],
           Parts(s, F), Parts(r, G)
    PROVE  \A i \in 1..Len(s) : F[i] = G[i]
<1> DEFINE Bad == {n \in 1..Len(s) : F[n] # G[n]}
<1>0. Bad \in SUBSET Nat
    OBVIOUS
<1>1. ASSUME Bad # {} PROVE FALSE
    <2>1. PICK m \in Bad : \A u \in Bad : m <= u
        BY <1>0, <1>1, LeastOf, Zenon
    <2>2. m \in 1..Len(s) /\ m \in 1..Len(r) /\ F[m] # G[m] /\ s[m] = r[m]
        BY <2>1
    <2>3. F[m] = IF m = 1 THEN s[m] ELSE F[m - 1] \o s[m]
        BY <2>2, Zenon DEF Parts
    <2>4. G[m] = IF m = 1 THEN r[m] ELSE G[m - 1] \o r[m]
        BY <2>2, Zenon DEF Parts
    <2>5. m # 1 => F[m - 1] = G[m - 1]
        BY <2>1, <2>2
    <2> QED BY <2>2, <2>3, <2>4, <2>5, Zenon
<1> QED BY <1>1

LEMMA FlattenIs ==
    ASSUME NEW T, NEW s \in Seq(Seq(T)), s # <<>>
    PROVE  \E F : Parts(s, F) /\ FlattenSeq(s) = F[Len(s)]
<1> DEFINE F == CHOOSE f : f = [i \in 1..Len(s) |-> IF i = 1 THEN s[i] ELSE f[i - 1] \o s[i]]
<1>1. \E f : f = [i \in 1..Len(s) |-> IF i = 1 THEN s[i] ELSE f[i - 1] \o s[i]]
    BY PartsExist, Zenon DEF Parts
<1>2. F = [i \in 1..Len(s) |-> IF i = 1 THEN s[i] ELSE F[i - 1] \o s[i]]
    BY <1>1, Zenon
<1>3. Parts(s, F)
    BY <1>2, Zenon DEF Parts
<1>4. Len(s) # 0
    OBVIOUS
<1>5. FlattenSeq(s) = F[Len(s)]
    BY <1>4 DEF FlattenSeq
<1> HIDE DEF F
<1> QED BY <1>3, <1>5

\* What FlattenSeq does: it starts with nothing, and a sequence more is
\* appended.
LEMMA FlattenAppends ==
    ASSUME NEW T, NEW s \in Seq(Seq(T))
    PROVE  /\ FlattenSeq(s) \in Seq(T)
           /\ FlattenSeq(<<>>) = <<>>
           /\ \A x \in Seq(T) : FlattenSeq(Append(s, x)) = FlattenSeq(s) \o x
<1>1. FlattenSeq(<<>>) = <<>>
    BY DEF FlattenSeq
<1>2. FlattenSeq(s) \in Seq(T)
    <2>1. CASE s = <<>>
        <3>1. <<>> \in Seq(T)
            OBVIOUS
        <3> QED BY <1>1, <2>1, <3>1, Zenon
    <2>2. CASE s # <<>>
        <3>1. PICK F : Parts(s, F) /\ FlattenSeq(s) = F[Len(s)]
            BY <2>2, FlattenIs
        <3>2. Len(s) \in 1..Len(s)
            BY <2>2
        <3> QED BY <3>1, <3>2, PartsAreTyped
    <2> QED BY <2>1, <2>2
<1>3. ASSUME NEW x \in Seq(T) PROVE FlattenSeq(Append(s, x)) = FlattenSeq(s) \o x
    <2> DEFINE r == Append(s, x)
    <2>1. /\ r \in Seq(Seq(T)) /\ Len(r) = Len(s) + 1 /\ r # <<>> /\ r[Len(r)] = x
          /\ \A i \in 1..Len(s) : r[i] = s[i]
          /\ Len(s) \in Nat
        <3>1. Seq(T) # {} /\ x \in Seq(T) /\ s \in Seq(Seq(T))
            OBVIOUS
        <3> DEFINE U == Seq(T)
        <3>2. s \in Seq(U) /\ x \in U
            BY <3>1
        <3> HIDE DEF U
        <3>3. /\ r \in Seq(U) /\ Len(r) = Len(s) + 1 /\ r # <<>> /\ r[Len(r)] = x
              /\ \A i \in 1..Len(s) : r[i] = s[i]
              /\ Len(s) \in Nat
            BY <3>2
        <3> QED BY <3>3 DEF U
    <2> HIDE DEF r
    <2>2. PICK G : Parts(r, G) /\ FlattenSeq(r) = G[Len(r)]
        BY <2>1, FlattenIs
    <2>3. G[Len(r)] = IF Len(r) = 1 THEN r[Len(r)] ELSE G[Len(r) - 1] \o r[Len(r)]
        <3>1. Len(r) \in 1..Len(r)
            BY <2>1
        <3> QED BY <3>1, <2>2, Zenon DEF Parts
    <2>4. CASE s = <<>>
        <3>1. Len(r) = 1
            BY <2>1, <2>4
        <3>2. FlattenSeq(s) \o x = x
            BY <1>1, <2>4
        <3> QED BY <3>1, <3>2, <2>1, <2>2, <2>3 DEF r
    <2>5. CASE s # <<>>
        <3>1. PICK F : Parts(s, F) /\ FlattenSeq(s) = F[Len(s)]
            BY <2>5, FlattenIs
        <3>2. Len(s) \in 1..Len(s)
            BY <2>5
        <3>3. Len(s) <= Len(r) /\ Len(r) \in Nat /\ \A i \in 1..Len(s) : s[i] = r[i]
            BY <2>1
        <3>6. Len(s) \in Nat
            BY <2>1
        <3>7. \A i \in 1..Len(s) : F[i] = G[i]
            BY <3>1, <3>3, <3>6, <2>2, PartsStay
        <3>4. F[Len(s)] = G[Len(s)]
            BY <3>2, <3>7
        <3>5. Len(r) # 1 /\ Len(r) - 1 = Len(s)
            BY <2>1, <3>2
        <3> QED BY <3>1, <3>4, <3>5, <2>1, <2>2, <2>3 DEF r
    <2> QED BY <2>4, <2>5
<1> QED BY <1>1, <1>2, <1>3

\* The first of two sequences is the beginning of the second.
Begins(a, b) == Len(a) <= Len(b) /\ \A i \in 1..Len(a) : b[i] = a[i]

LEMMA FlattenBegins ==
    ASSUME NEW T, NEW s \in Seq(Seq(T)), NEW k \in 0..Len(s)
    PROVE  /\ SubSeq(s, 1, k) \in Seq(Seq(T))
           /\ Begins(FlattenSeq(SubSeq(s, 1, k)), FlattenSeq(s))
           /\ k > 0 => FlattenSeq(SubSeq(s, 1, k)) = FlattenSeq(SubSeq(s, 1, k - 1)) \o s[k]
<1> DEFINE First(r, j) == SubSeq(r, 1, j)
<1>1. \A r \in Seq(Seq(T)) : \A j \in 0..Len(r) :
          First(r, j) \in Seq(Seq(T)) /\ Len(First(r, j)) = j
    OBVIOUS
<1>2. ASSUME NEW r \in Seq(Seq(T)), NEW j \in 1..Len(r)
      PROVE  FlattenSeq(First(r, j)) = FlattenSeq(First(r, j - 1)) \o r[j]
    <2>1. First(r, j) = Append(First(r, j - 1), r[j])
        OBVIOUS
    <2>2. First(r, j - 1) \in Seq(Seq(T)) /\ r[j] \in Seq(T)
        OBVIOUS
    <2> HIDE DEF First
    <2> QED BY <2>1, <2>2, FlattenAppends
<1> DEFINE Bad(r, j) == {n \in j..Len(r) : ~ Begins(FlattenSeq(First(r, j)), FlattenSeq(First(r, n)))}
<1>3. ASSUME NEW r \in Seq(Seq(T)), NEW j \in 0..Len(r), Bad(r, j) # {} PROVE FALSE
    <2>0. Bad(r, j) \in SUBSET Nat
        OBVIOUS
    <2>1. PICK m \in Bad(r, j) : \A u \in Bad(r, j) : m <= u
        BY <2>0, <1>3, LeastOf, Zenon
    <2>2. m \in j..Len(r) /\ m \in Nat /\ j \in Nat
        BY <2>1
    <2>3. FlattenSeq(First(r, j)) \in Seq(T) /\ FlattenSeq(First(r, m)) \in Seq(T)
        <3>1. First(r, j) \in Seq(Seq(T)) /\ First(r, m) \in Seq(Seq(T))
            BY <1>1, <2>2
        <3> QED BY <3>1, FlattenAppends, Zenon
    <2>4. CASE m = j
        <3>1. Begins(FlattenSeq(First(r, m)), FlattenSeq(First(r, m)))
            BY <2>3 DEF Begins
        <3> QED BY <3>1, <2>1, <2>4
    <2>5. CASE m > j
        <3>1. m - 1 \in j..Len(r) /\ m \in 1..Len(r)
            BY <2>2, <2>5
        <3>2. Begins(FlattenSeq(First(r, j)), FlattenSeq(First(r, m - 1)))
            BY <3>1, <2>1, <2>2
        <3>3. FlattenSeq(First(r, m)) = FlattenSeq(First(r, m - 1)) \o r[m]
            BY <3>1, <1>2
        <3>4. FlattenSeq(First(r, m - 1)) \in Seq(T) /\ r[m] \in Seq(T)
            <4>1. First(r, m - 1) \in Seq(Seq(T))
                BY <1>1, <3>1
            <4>2. r[m] \in Seq(T)
                BY <3>1
            <4> QED BY <4>1, <4>2, FlattenAppends, Zenon
        <3>5. Begins(FlattenSeq(First(r, j)), FlattenSeq(First(r, m)))
            <4> DEFINE a == FlattenSeq(First(r, j))
                       b == FlattenSeq(First(r, m - 1))
                       c == FlattenSeq(First(r, m))
                       x == r[m]
            <4>1. a \in Seq(T) /\ b \in Seq(T) /\ x \in Seq(T) /\ c = b \o x /\ Begins(a, b)
                BY <3>2, <3>3, <3>4, <2>3
            <4> HIDE DEF a, b, c, x
            <4>2. Begins(a, c)
                BY <4>1 DEF Begins
            <4> QED BY <4>2 DEF a, c
        <3> QED BY <3>5, <2>1 DEF Bad
    <2> QED BY <2>2, <2>4, <2>5
<1>4. Begins(FlattenSeq(First(s, k)), FlattenSeq(First(s, Len(s))))
    <2>1. Len(s) \in k..Len(s)
        OBVIOUS
    <2>2. Len(s) \notin Bad(s, k)
        BY <1>3, Zenon
    <2> QED BY <2>1, <2>2
<1>5. First(s, Len(s)) = s
    OBVIOUS
<1>6. k > 0 => k \in 1..Len(s)
    OBVIOUS
<1> QED BY <1>1, <1>2, <1>4, <1>5, <1>6
----------------------------------------------------------------------------
(* A scale and its reader (ScaleReader).                                    *)

Tokens == UNION {ToSet(l.text) : l \in Lines}
Readings == UNION {ToSet(l.meant) : l \in Lines}
Numbers == {0} \cup {r.scaled : r \in Readings} \cup {r.decimals : r \in Readings}
Rules == [repeats : Nat, scaled : Numbers, decimals : Numbers, heard : BOOLEAN]

\* What was sent and what it means, of some of the lines.
Texts(lines) == [k \in DOMAIN lines |-> lines[k].text]
Meants(lines) == [k \in DOMAIN lines |-> lines[k].meant]
Bytes(lines) == FlattenSeq(Texts(lines))
Meanings(lines) == FlattenSeq(Meants(lines))

ReaderTypesOk ==
    /\ protocol \in Protocols
    /\ sent \in Seq(Lines) /\ Len(sent) <= MaxLines
    /\ \A k \in 1..Len(sent) : sent[k].protocol = protocol
    /\ pending \in Seq(Tokens) /\ input \in Seq(Tokens) /\ got \in Seq(Readings)
    /\ fresh \in BOOLEAN /\ rule \in Rules
    /\ elapsed \in 0..Budget /\ offered \in Int /\ offered <= elapsed
    /\ verdict \in {"not_yet", "settled", "expired", "no_answer"}

\* How many bytes were dropped.
Dropped == Len(Bytes(sent)) - Len(input) - Len(pending)

\* The first k lines were read and no more; of them no more is left than
\* terminators; what is read and what is pending are the rest.
CutBehind(k) ==
    LET all == Bytes(sent)
        past == Len(Bytes(SubSeq(sent, 1, k)))
    IN  /\ got = Meanings(SubSeq(sent, 1, k))
        /\ Dropped \in 0..past
        /\ \A i \in 1..Len(input) : input[i] = all[Dropped + i]
        /\ \A i \in 1..Len(pending) : pending[i] = all[Dropped + Len(input) + i]
        /\ \A i \in Dropped + 1..past : all[i] \in Ends
CutOk == \E k \in 0..Len(sent) : CutBehind(k)

\* The readings the rule has counted are the last ones, and equal.
CountOk ==
    /\ rule.repeats <= Len(got)
    /\ \A j \in Len(got) - rule.repeats + 1..Len(got) :
         /\ got[j].stability = "stable"
         /\ got[j].scaled = rule.scaled /\ got[j].decimals = rule.decimals
    /\ rule.repeats <= RepeatsWanted
    /\ verdict = "settled" <=> rule.repeats >= RepeatsWanted

\* The rule has heard what was read, or will be told of it.
TellOk ==
    /\ Len(pending) < Len(Bytes(sent)) <=> rule.heard \/ fresh
    /\ verdict = "no_answer" => ~rule.heard /\ ~fresh
    /\ verdict = "expired" => rule.heard

ReaderInv == ReaderTypesOk /\ CutOk /\ CountOk /\ TellOk /\ VerdictByDeadline

----------------------------------------------------------------------------
(* Lines.                                                                  *)

LEMMA LineHas ==
    ASSUME ReaderAssumption, NEW l \in Lines
    PROVE  /\ l.text \in Seq(Tokens) /\ l.meant \in Seq(Readings) /\ Len(l.meant) \in {0, 1}
<1>1. /\ l.text \in Seq(ToSet(l.text)) /\ l.meant \in Seq(ToSet(l.meant)) /\ Len(l.meant) <= 1
    BY DEF ReaderAssumption
<1>2. ToSet(l.text) \subseteq Tokens /\ ToSet(l.meant) \subseteq Readings
    BY DEF Tokens, Readings
<1>3. l.text \in Seq(Tokens)
    BY <1>1, <1>2, SeqMonotonic
<1>4. l.meant \in Seq(Readings)
    BY <1>1, <1>2, SeqMonotonic
<1>5. Len(l.meant) \in {0, 1}
    <2> DEFINE m == l.meant
    <2>1. m \in Seq(Readings) /\ Len(m) <= 1
        BY <1>1, <1>4
    <2> HIDE DEF m
    <2>3. Len(m) \in Nat
        BY <2>1
    <2>4. \A x \in Nat : x <= 1 => x \in {0, 1}
        OBVIOUS
    <2>2. Len(m) \in {0, 1}
        BY <2>1, <2>3, <2>4, Zenon
    <2> QED BY <2>2 DEF m
<1> QED BY <1>3, <1>4, <1>5

\* The bytes of the lines, and their meanings, in parts.
LEMMA LinesAre ==
    ASSUME ReaderAssumption, NEW s \in Seq(Lines)
    PROVE  /\ Texts(s) \in Seq(Seq(Tokens)) /\ Meants(s) \in Seq(Seq(Readings))
           /\ Len(Texts(s)) = Len(s) /\ Len(Meants(s)) = Len(s)
           /\ Bytes(s) \in Seq(Tokens) /\ Meanings(s) \in Seq(Readings)
<1>0. Len(s) \in Nat /\ DOMAIN s = 1..Len(s) /\ \A k \in 1..Len(s) : s[k] \in Lines
    OBVIOUS
<1>1. Texts(s) \in Seq(Seq(Tokens)) /\ Len(Texts(s)) = Len(s)
    <2>1. \A k \in 1..Len(s) : s[k].text \in Seq(Tokens)
        BY <1>0, LineHas
    <2> DEFINE U == Seq(Tokens)
    <2>2. \A k \in 1..Len(s) : s[k].text \in U
        BY <2>1
    <2> HIDE DEF U
    <2>3. Texts(s) \in Seq(U) /\ Len(Texts(s)) = Len(s)
        BY <1>0, <2>2 DEF Texts
    <2> QED BY <2>3 DEF U
<1>2. Meants(s) \in Seq(Seq(Readings)) /\ Len(Meants(s)) = Len(s)
    <2>1. \A k \in 1..Len(s) : s[k].meant \in Seq(Readings)
        BY <1>0, LineHas
    <2> DEFINE U == Seq(Readings)
    <2>2. \A k \in 1..Len(s) : s[k].meant \in U
        BY <2>1
    <2> HIDE DEF U
    <2>3. Meants(s) \in Seq(U) /\ Len(Meants(s)) = Len(s)
        BY <1>0, <2>2 DEF Meants
    <2> QED BY <2>3 DEF U
<1>3. Bytes(s) \in Seq(Tokens) /\ Meanings(s) \in Seq(Readings)
    BY <1>1, <1>2, FlattenAppends, Zenon DEF Bytes, Meanings
<1> QED BY <1>1, <1>2, <1>3

\* A line more.
LEMMA LineMore ==
    ASSUME ReaderAssumption, NEW s \in Seq(Lines), NEW l \in Lines
    PROVE  /\ Bytes(Append(s, l)) = Bytes(s) \o l.text
           /\ Meanings(Append(s, l)) = Meanings(s) \o l.meant
<1>1. Texts(Append(s, l)) = Append(Texts(s), l.text) /\ Meants(Append(s, l)) = Append(Meants(s), l.meant)
    BY DEF Texts, Meants
<1>2. l.text \in Seq(Tokens) /\ l.meant \in Seq(Readings)
    BY LineHas
<1>3. Texts(s) \in Seq(Seq(Tokens)) /\ Meants(s) \in Seq(Seq(Readings))
    BY LinesAre
<1> QED BY <1>1, <1>2, <1>3, FlattenAppends, Zenon DEF Bytes, Meanings

\* The first of the lines.
LEMMA FirstLines ==
    ASSUME ReaderAssumption, NEW s \in Seq(Lines), NEW k \in 0..Len(s)
    PROVE  /\ SubSeq(s, 1, k) \in Seq(Lines) /\ Len(SubSeq(s, 1, k)) = k
           /\ Begins(Bytes(SubSeq(s, 1, k)), Bytes(s))
           /\ Begins(Meanings(SubSeq(s, 1, k)), Meanings(s))
           /\ k < Len(s) => /\ Bytes(SubSeq(s, 1, k + 1)) = Bytes(SubSeq(s, 1, k)) \o s[k + 1].text
                            /\ Meanings(SubSeq(s, 1, k + 1)) = Meanings(SubSeq(s, 1, k)) \o s[k + 1].meant
<1>1. SubSeq(s, 1, k) \in Seq(Lines) /\ Len(SubSeq(s, 1, k)) = k
    OBVIOUS
<1>2. Texts(SubSeq(s, 1, k)) = SubSeq(Texts(s), 1, k) /\ Meants(SubSeq(s, 1, k)) = SubSeq(Meants(s), 1, k)
    BY DEF Texts, Meants
<1>3. /\ Texts(s) \in Seq(Seq(Tokens)) /\ Meants(s) \in Seq(Seq(Readings))
      /\ k \in 0..Len(Texts(s)) /\ k \in 0..Len(Meants(s))
    BY LinesAre
<1>4. Begins(Bytes(SubSeq(s, 1, k)), Bytes(s)) /\ Begins(Meanings(SubSeq(s, 1, k)), Meanings(s))
    BY <1>2, <1>3, FlattenBegins, Zenon DEF Bytes, Meanings
<1>5. ASSUME k < Len(s)
      PROVE  /\ Bytes(SubSeq(s, 1, k + 1)) = Bytes(SubSeq(s, 1, k)) \o s[k + 1].text
             /\ Meanings(SubSeq(s, 1, k + 1)) = Meanings(SubSeq(s, 1, k)) \o s[k + 1].meant
    <2>1. SubSeq(s, 1, k + 1) = Append(SubSeq(s, 1, k), s[k + 1]) /\ s[k + 1] \in Lines
        BY <1>5
    <2> QED BY <1>1, <2>1, LineMore, Zenon
<1> QED BY <1>1, <1>4, <1>5

\* A line added behind leaves the first ones.
LEMMA FirstStay ==
    ASSUME NEW s \in Seq(Lines), NEW l \in Lines, NEW k \in 0..Len(s)
    PROVE  SubSeq(Append(s, l), 1, k) = SubSeq(s, 1, k)
OBVIOUS

LEMMA WantedIs == ASSUME ReaderAssumption PROVE RepeatsWanted \in Nat /\ RepeatsWanted >= 1
<1>1. Needed \in Nat
    BY DEF ReaderAssumption
<1> DEFINE m == IF Needed >= 1 THEN Needed ELSE 1
<1>2. m \in {Needed, 1} /\ \A y \in {Needed, 1} : m >= y
    BY <1>1
<1>3. RepeatsWanted \in {Needed, 1} /\ \A y \in {Needed, 1} : RepeatsWanted >= y
    BY <1>2, Zenon DEF RepeatsWanted, Max
<1> QED BY <1>1, <1>3

\* Past a run.
LEMMA AfterIs ==
    ASSUME NEW text, NEW S, NEW i, Len(text) \in Nat, i \in 1..Len(text) + 1
    PROVE  /\ After(text, i, S) \in i..Len(text) + 1
           /\ \A j \in i..After(text, i, S) - 1 : text[j] \in S
           /\ After(text, i, S) <= Len(text) => text[After(text, i, S)] \notin S
<1> DEFINE K == {k \in i..Len(text) + 1 : k = Len(text) + 1 \/ text[k] \notin S}
<1>1. K \in SUBSET Nat /\ Len(text) + 1 \in K
    OBVIOUS
<1>2. Min(K) \in K /\ \A u \in K : Min(K) <= u
    <2>1. K # {}
        BY <1>1
    <2> HIDE DEF K
    <2> QED BY <1>1, <2>1, LeastOf, Zenon
<1>3. After(text, i, S) = Min(K)
    BY DEF After
<1>4. After(text, i, S) \in K /\ \A u \in K : After(text, i, S) <= u
    BY <1>2, <1>3
<1> QED BY <1>4

----------------------------------------------------------------------------
(* The steps.                                                              *)

LEMMA ReaderStarts == ASSUME ReaderAssumption, ReaderInit PROVE ReaderInv
<1>1. RepeatsWanted \in Nat /\ RepeatsWanted >= 1
    BY WantedIs
<1>2. Bytes(<<>>) = <<>> /\ Meanings(<<>>) = <<>>
    <2>1. Texts(<<>>) = <<>> /\ Meants(<<>>) = <<>>
        BY DEF Texts, Meants
    <2> QED BY <2>1 DEF Bytes, Meanings, FlattenSeq
<1>3. ReaderTypesOk
    <2>1. Budget \in Nat /\ MaxLines \in Nat
        BY DEF ReaderAssumption
    <2>2. rule \in Rules
        <3>1. 0 \in Numbers
            BY DEF Numbers
        <3> QED BY <3>1 DEF Rules, ReaderInit, NewRule
    <2>3. /\ protocol \in Protocols /\ fresh \in BOOLEAN /\ verdict = "not_yet"
          /\ elapsed = 0 /\ offered = -1
          /\ sent = <<>> /\ pending = <<>> /\ input = <<>> /\ got = <<>>
        BY DEF ReaderInit
    <2>4. /\ sent \in Seq(Lines) /\ Len(sent) = 0
          /\ pending \in Seq(Tokens) /\ input \in Seq(Tokens) /\ got \in Seq(Readings)
        BY <2>3
    <2>5. elapsed \in 0..Budget /\ offered \in Int /\ offered <= elapsed
        BY <2>1, <2>3
    <2> QED BY <2>1, <2>2, <2>3, <2>4, <2>5 DEF ReaderTypesOk
<1>4. CutBehind(0)
    <2>1. SubSeq(sent, 1, 0) = <<>>
        BY DEF ReaderInit
    <2>2. sent = <<>> /\ input = <<>> /\ pending = <<>> /\ got = <<>>
        BY DEF ReaderInit
    <2>3. Len(Bytes(sent)) = 0 /\ Len(Bytes(SubSeq(sent, 1, 0))) = 0 /\ Len(input) = 0 /\ Len(pending) = 0
        <3>1. Len(<<>>) = 0
            OBVIOUS
        <3> QED BY <3>1, <1>2, <2>1, <2>2, Zenon
    <2>4. Dropped = 0
        BY <2>3 DEF Dropped
    <2>5. got = Meanings(SubSeq(sent, 1, 0))
        BY <1>2, <2>1, <2>2
    <2> QED BY <2>3, <2>4, <2>5 DEF CutBehind
<1>5. CutOk
    BY <1>4 DEF CutOk, ReaderInit
<1>6. CountOk
    BY <1>1 DEF CountOk, ReaderInit, NewRule
<1>7. TellOk
    BY <1>2 DEF TellOk, ReaderInit, NewRule
<1>8. VerdictByDeadline
    BY DEF VerdictByDeadline, ReaderInit, ReaderAssumption
<1> QED BY <1>3, <1>5, <1>6, <1>7, <1>8 DEF ReaderInv

LEMMA SendKeeps == ASSUME ReaderAssumption, ReaderInv, LineComes PROVE ReaderInv'
<1>1. PICK l \in Lines : l.protocol = protocol /\ sent' = Append(sent, l) /\ pending' = pending \o l.text
    BY DEF LineComes
<1>2. /\ Len(sent) < MaxLines /\ MaxLines \in Nat
      /\ UNCHANGED <<protocol, input, fresh, rule, elapsed, verdict, offered, got>>
    BY DEF LineComes, ReaderAssumption
<1>3. ReaderTypesOk /\ CutOk /\ CountOk /\ TellOk /\ VerdictByDeadline
    BY DEF ReaderInv
<1>4. sent \in Seq(Lines) /\ pending \in Seq(Tokens) /\ input \in Seq(Tokens)
    BY <1>3 DEF ReaderTypesOk
<1>5. l.text \in Seq(Tokens)
    BY LineHas
<1>6. Bytes(sent) \in Seq(Tokens)
    BY <1>4, LinesAre
<1>7. Bytes(sent') = Bytes(sent) \o l.text
    BY <1>1, <1>4, LineMore
<1>8. ReaderTypesOk'
    <2>1. sent' \in Seq(Lines) /\ Len(sent') = Len(sent) + 1 /\ Len(sent) \in Nat
        BY <1>1, <1>4
    <2>2. \A k \in 1..Len(sent') : sent'[k].protocol = protocol
        BY <1>1, <1>3, <1>4 DEF ReaderTypesOk
    <2>3. pending' \in Seq(Tokens)
        BY <1>1, <1>4, <1>5
    <2> QED BY <1>2, <1>3, <2>1, <2>2, <2>3 DEF ReaderTypesOk
<1>9. CutOk'
    <2>1. PICK k \in 0..Len(sent) : CutBehind(k)
        BY <1>3 DEF CutOk
    <2>2. SubSeq(sent', 1, k) = SubSeq(sent, 1, k) /\ k \in 0..Len(sent')
        BY <1>1, <1>4, FirstStay
    <2>3. Dropped' = Dropped
        BY <1>1, <1>2, <1>4, <1>5, <1>6, <1>7 DEF Dropped
    <2>4. Begins(Bytes(SubSeq(sent, 1, k)), Bytes(sent)) /\ Bytes(SubSeq(sent, 1, k)) \in Seq(Tokens)
        <3>1. SubSeq(sent, 1, k) \in Seq(Lines)
            BY <1>4, FirstLines
        <3> QED BY <1>4, <3>1, FirstLines, LinesAre
    <2> DEFINE all == Bytes(sent)
               past == Bytes(SubSeq(sent, 1, k))
               d == Dropped
    <2>5. /\ d = Len(all) - Len(input) - Len(pending)
          /\ all \in Seq(Tokens) /\ past \in Seq(Tokens) /\ Begins(past, all)
          /\ d \in 0..Len(past)
          /\ \A i \in 1..Len(input) : input[i] = all[d + i]
          /\ \A i \in 1..Len(pending) : pending[i] = all[d + Len(input) + i]
          /\ \A i \in d + 1..Len(past) : all[i] \in Ends
        BY <1>6, <2>1, <2>4 DEF CutBehind, Dropped
    <2>6. /\ \A i \in 1..Len(input) : input[i] = (all \o l.text)[d + i]
          /\ \A i \in 1..Len(pending \o l.text) : (pending \o l.text)[i] = (all \o l.text)[d + Len(input) + i]
          /\ \A i \in d + 1..Len(past) : (all \o l.text)[i] \in Ends
        <3> HIDE DEF all, past, d
        <3>1. Len(past) <= Len(all)
            BY <2>5 DEF Begins
        <3>2. d \in Nat /\ Len(all) = d + Len(input) + Len(pending)
            BY <2>5, <1>4
        <3>3. \A i \in 1..Len(input) : input[i] = (all \o l.text)[d + i]
            BY <2>5, <3>2, <1>4, <1>5
        <3>4. ASSUME NEW i \in 1..Len(pending \o l.text)
              PROVE  (pending \o l.text)[i] = (all \o l.text)[d + Len(input) + i]
            <4> DEFINE n == d + Len(input)
                       t == l.text
            <4>1. /\ t \in Seq(Tokens) /\ Len(t) \in Nat /\ Len(pending) \in Nat /\ n \in Nat
                  /\ Len(all) = n + Len(pending) /\ i \in 1..Len(pending) + Len(t)
                BY <3>2, <1>4, <1>5
            <4>2. /\ (pending \o t)[i] = IF i <= Len(pending) THEN pending[i] ELSE t[i - Len(pending)]
                  /\ \A j \in 1..Len(all) + Len(t) :
                        (all \o t)[j] = IF j <= Len(all) THEN all[j] ELSE t[j - Len(all)]
                <5>1. \A u, v \in Seq(Tokens) : \A j \in 1..Len(u) + Len(v) :
                        (u \o v)[j] = IF j <= Len(u) THEN u[j] ELSE v[j - Len(u)]
                    BY ConcatProperties
                <5> QED BY <5>1, <4>1, <2>5, <1>4, Zenon
            <4> HIDE DEF n, t
            <4>3. /\ n + i \in 1..Len(all) + Len(t) /\ (n + i) - Len(all) = i - Len(pending)
                  /\ (n + i <= Len(all) <=> i <= Len(pending))
                BY <4>1
            <4>4. (all \o t)[n + i] = IF i <= Len(pending) THEN all[n + i] ELSE t[i - Len(pending)]
                BY <4>2, <4>3, Zenon
            <4>5. i <= Len(pending) => pending[i] = all[n + i]
                <5>1. i <= Len(pending) => i \in 1..Len(pending)
                    BY <4>1
                <5> QED BY <5>1, <2>5, Zenon DEF n
            <4>6. (pending \o t)[i] = (all \o t)[n + i]
                BY <4>2, <4>4, <4>5, Zenon
            <4> QED BY <4>6, Zenon DEF n, t
        <3>5. \A i \in d + 1..Len(past) : (all \o l.text)[i] \in Ends
            BY <2>5, <3>1, <3>2, <1>5
        <3> QED BY <3>3, <3>4, <3>5
    <2>7. CutBehind(k)'
        BY <1>1, <1>2, <1>7, <2>1, <2>2, <2>3, <2>5, <2>6 DEF CutBehind
    <2> QED BY <2>2, <2>7 DEF CutOk
<1>10. CountOk'
    BY <1>2, <1>3 DEF CountOk
<1>11. TellOk'
    <2>1. Len(pending') < Len(Bytes(sent')) <=> Len(pending) < Len(Bytes(sent))
        BY <1>1, <1>4, <1>5, <1>6, <1>7
    <2> QED BY <1>2, <1>3, <2>1 DEF TellOk
<1>12. VerdictByDeadline'
    BY <1>2, <1>3 DEF VerdictByDeadline
<1> QED BY <1>8, <1>9, <1>10, <1>11, <1>12 DEF ReaderInv

LEMMA TickKeeps == ASSUME ReaderAssumption, ReaderInv, TimePasses PROVE ReaderInv'
<1>1. /\ elapsed < Budget /\ elapsed' = elapsed + 1 /\ Budget \in Nat
      /\ UNCHANGED <<protocol, sent, pending, input, fresh, rule, verdict, offered, got>>
    BY DEF TimePasses, ReaderAssumption
<1>2. ReaderTypesOk'
    BY <1>1 DEF ReaderInv, ReaderTypesOk
<1>3. CutOk'
    BY <1>1 DEF ReaderInv, CutOk, CutBehind, Dropped
<1>4. CountOk' /\ TellOk' /\ VerdictByDeadline'
    BY <1>1 DEF ReaderInv, CountOk, TellOk, VerdictByDeadline
<1> QED BY <1>2, <1>3, <1>4 DEF ReaderInv

LEMMA ReaderStutter == ASSUME ReaderInv, UNCHANGED readerVars PROVE ReaderInv'
<1>1. ReaderTypesOk'
    BY DEF readerVars, ReaderInv, ReaderTypesOk
<1>2. CutOk'
    BY DEF readerVars, ReaderInv, CutOk, CutBehind, Dropped
<1>3. CountOk' /\ TellOk' /\ VerdictByDeadline'
    BY DEF readerVars, ReaderInv, CountOk, TellOk, VerdictByDeadline
<1> QED BY <1>1, <1>2, <1>3 DEF ReaderInv

LEMMA ArriveKeeps == ASSUME ReaderAssumption, ReaderInv, BytesArrive, verdict = "not_yet" PROVE ReaderInv'
<1>1. PICK n \in {Min({Len(pending), c}) : c \in Chunks} :
          /\ input' = input \o SubSeq(pending, 1, n)
          /\ pending' = SubSeq(pending, n + 1, Len(pending))
    BY DEF BytesArrive
<1>2. /\ pending # <<>> /\ fresh' = TRUE
      /\ UNCHANGED <<protocol, sent, rule, elapsed, verdict, offered, got>>
    BY DEF BytesArrive
<1>3. ReaderTypesOk /\ CutOk /\ CountOk /\ TellOk /\ VerdictByDeadline
    BY DEF ReaderInv
<1>4. sent \in Seq(Lines) /\ pending \in Seq(Tokens) /\ input \in Seq(Tokens)
    BY <1>3 DEF ReaderTypesOk
<1>5. n \in 1..Len(pending)
    <2>1. PICK c \in Chunks : n = Min({Len(pending), c})
        BY <1>1
    <2>2. c \in Nat \ {0} /\ Len(pending) \in Nat \ {0}
        BY <1>2, <1>4 DEF ReaderAssumption
    <2>3. {Len(pending), c} \in SUBSET Nat /\ {Len(pending), c} # {}
        BY <2>2
    <2>4. Min({Len(pending), c}) \in {Len(pending), c} /\ \A u \in {Len(pending), c} : Min({Len(pending), c}) <= u
        BY <2>3, LeastOf, Zenon
    <2> QED BY <2>1, <2>2, <2>4
<1>6. /\ input' \in Seq(Tokens) /\ pending' \in Seq(Tokens)
      /\ Len(input') = Len(input) + n /\ Len(pending') = Len(pending) - n
      /\ \A i \in 1..Len(input) : input'[i] = input[i]
      /\ \A i \in Len(input) + 1..Len(input) + n : input'[i] = pending[i - Len(input)]
      /\ \A i \in 1..Len(pending) - n : pending'[i] = pending[n + i]
    <2> DEFINE came == SubSeq(pending, 1, n)
               stays == SubSeq(pending, n + 1, Len(pending))
    <2>1. came \in Seq(Tokens) /\ Len(came) = n /\ \A i \in 1..n : came[i] = pending[i]
        BY <1>4, <1>5
    <2>2. /\ stays \in Seq(Tokens) /\ Len(stays) = Len(pending) - n
          /\ \A i \in 1..Len(pending) - n : stays[i] = pending[n + i]
        BY <1>4, <1>5
    <2> HIDE DEF came, stays
    <2>3. /\ input \o came \in Seq(Tokens) /\ Len(input \o came) = Len(input) + n
          /\ \A i \in 1..Len(input) : (input \o came)[i] = input[i]
          /\ \A i \in Len(input) + 1..Len(input) + n : (input \o came)[i] = pending[i - Len(input)]
        <3>1. /\ input \o came \in Seq(Tokens) /\ Len(input \o came) = Len(input) + Len(came)
              /\ \A i \in 1..Len(input) + Len(came) :
                   (input \o came)[i] = IF i <= Len(input) THEN input[i] ELSE came[i - Len(input)]
            BY <2>1, <1>4, ConcatProperties, Zenon
        <3>2. Len(input) \in Nat /\ Len(came) = n /\ n \in Nat
            BY <2>1, <1>4, <1>5
        <3>3. ASSUME NEW i \in Len(input) + 1..Len(input) + n
              PROVE  (input \o came)[i] = pending[i - Len(input)]
            <4>1. i - Len(input) \in 1..n /\ i \in 1..Len(input) + Len(came) /\ ~ (i <= Len(input))
                BY <3>2
            <4> QED BY <4>1, <3>1, <2>1
        <3>4. ASSUME NEW i \in 1..Len(input) PROVE (input \o came)[i] = input[i]
            BY <3>1, <3>2
        <3> QED BY <3>1, <3>2, <3>3, <3>4, Zenon
    <2>4. input' = input \o came /\ pending' = stays
        BY <1>1 DEF came, stays
    <2> QED BY <2>2, <2>3, <2>4
<1>7. ReaderTypesOk'
    BY <1>2, <1>3, <1>6 DEF ReaderTypesOk
<1>8. CutOk'
    <2>1. PICK k \in 0..Len(sent) : CutBehind(k)
        BY <1>3 DEF CutOk
    <2> DEFINE all == Bytes(sent)
               d == Dropped
    <2>2. Bytes(sent) \in Seq(Tokens)
        BY <1>4, LinesAre
    <2>3. Dropped' = Dropped /\ Dropped \in Int
        BY <1>2, <1>4, <1>5, <1>6, <2>2 DEF Dropped
    <2>4. /\ \A i \in 1..Len(input) : input[i] = all[d + i]
          /\ \A i \in 1..Len(pending) : pending[i] = all[d + Len(input) + i]
        BY <2>1 DEF CutBehind
    <2>5. /\ \A i \in 1..Len(input') : input'[i] = all[d + i]
          /\ \A i \in 1..Len(pending') : pending'[i] = all[d + Len(input') + i]
        <3> HIDE DEF all, d
        <3>1. d \in Int
            BY <2>3 DEF d
        <3>2. ASSUME NEW i \in 1..Len(input') PROVE input'[i] = all[d + i]
            <4>1. CASE i <= Len(input)
                BY <4>1, <1>4, <1>6, <2>4
            <4>2. CASE i > Len(input)
                <5>1. i - Len(input) \in 1..Len(pending) /\ input'[i] = pending[i - Len(input)]
                    BY <4>2, <1>4, <1>5, <1>6
                <5>2. d + Len(input) + (i - Len(input)) = d + i
                    BY <3>1, <1>4
                <5> QED BY <5>1, <5>2, <2>4
            <4> QED BY <4>1, <4>2, <1>4
        <3>3. ASSUME NEW i \in 1..Len(pending') PROVE pending'[i] = all[d + Len(input') + i]
            <4>1. n + i \in 1..Len(pending) /\ pending'[i] = pending[n + i]
                BY <1>4, <1>5, <1>6
            <4>2. d + Len(input) + (n + i) = d + Len(input') + i
                BY <3>1, <1>4, <1>5, <1>6
            <4> QED BY <4>1, <4>2, <2>4
        <3> QED BY <3>2, <3>3
    <2>6. CutBehind(k)'
        BY <1>2, <2>1, <2>3, <2>5 DEF CutBehind
    <2> QED BY <1>2, <2>6 DEF CutOk
<1>9. CountOk'
    BY <1>2, <1>3 DEF CountOk
<1>10. TellOk'
    <2>1. Len(Bytes(sent)) >= Len(pending)
        <3>1. PICK k \in 0..Len(sent) : CutBehind(k)
            BY <1>3 DEF CutOk
        <3>2. Dropped >= 0 /\ Bytes(sent) \in Seq(Tokens)
            <4>1. Bytes(SubSeq(sent, 1, k)) \in Seq(Tokens)
                BY <1>4, FirstLines, LinesAre
            <4> QED BY <4>1, <3>1, <1>4, LinesAre DEF CutBehind
        <3> QED BY <3>2, <1>4 DEF Dropped
    <2>2. Bytes(sent) \in Seq(Tokens)
        BY <1>4, LinesAre
    <2>3. Len(pending') < Len(Bytes(sent'))
        BY <1>2, <1>4, <1>5, <1>6, <2>1, <2>2
    <2> QED BY <1>2, <1>3, <2>3, Zenon DEF TellOk
<1>11. VerdictByDeadline'
    BY <1>2, <1>3 DEF VerdictByDeadline
<1> QED BY <1>7, <1>8, <1>9, <1>10, <1>11 DEF ReaderInv

\* What Offer does to the rule and the verdict, of a reading or none.
LEMMA OfferKeeps ==
    ASSUME ReaderAssumption, ReaderInv, verdict = "not_yet",
           NEW kind, kind \in {"silence", "noise", "reading"},
           NEW reading \in Seq(Readings), Len(reading) \in {0, 1},
           got' = got \o reading, Offer(kind, reading)
    PROVE  /\ CountOk' /\ rule' \in Rules /\ rule'.heard = Heard(kind)
           /\ verdict' \in {"not_yet", "settled", "expired", "no_answer"}
           /\ verdict' = "no_answer" => ~Heard(kind)
           /\ verdict' = "expired" => Heard(kind)
           /\ elapsed >= Budget => verdict' # "not_yet"
           /\ fresh' = FALSE /\ offered' = elapsed
<1>1. RepeatsWanted \in Nat /\ RepeatsWanted >= 1
    BY WantedIs
<1>2. /\ rule \in Rules /\ got \in Seq(Readings) /\ CountOk
    BY DEF ReaderInv, ReaderTypesOk
<1>3. Heard(kind) \in BOOLEAN
    BY <1>2 DEF Heard, Rules
<1>4. /\ rule' = [Offered(reading) EXCEPT !.heard = Heard(kind)]
      /\ verdict' = IF /\ reading # <<>> /\ reading[1].stability = "stable"
                       /\ Offered(reading).repeats >= RepeatsWanted THEN "settled"
                    ELSE IF ~DeadlinePassed(Heard(kind)) THEN "not_yet"
                    ELSE IF Heard(kind) THEN "expired" ELSE "no_answer"
      /\ fresh' = FALSE /\ offered' = elapsed
    BY DEF Offer
<1>5. rule.repeats < RepeatsWanted /\ rule.repeats \in Nat
    BY <1>1, <1>2 DEF CountOk, Rules
<1>6. CASE reading = <<>>
    <2>1. Offered(reading) = rule /\ got' = got
        BY <1>2, <1>6 DEF Offered
    <2>2. rule' \in Rules /\ rule'.repeats = rule.repeats /\ rule'.scaled = rule.scaled
          /\ rule'.decimals = rule.decimals /\ rule'.heard = Heard(kind)
        BY <1>2, <1>3, <1>4, <2>1 DEF Rules
    <2>3. verdict' # "settled" /\ ~ (rule'.repeats >= RepeatsWanted)
        BY <1>1, <1>4, <1>5, <1>6, <2>2
    <2>4. CountOk'
        BY <1>2, <2>1, <2>2, <2>3 DEF CountOk
    <2> QED BY <1>3, <1>4, <1>6, <2>2, <2>4 DEF DeadlinePassed
<1>7. CASE reading # <<>>
    <2> DEFINE r == reading[1]
    <2>1. /\ Len(reading) = 1 /\ r \in Readings /\ Len(got') = Len(got) + 1 /\ got'[Len(got) + 1] = r
          /\ \A j \in 1..Len(got) : got'[j] = got[j]
          /\ Len(got) \in Nat
        BY <1>2, <1>7
    <2>2. r.scaled \in Numbers /\ r.decimals \in Numbers
        BY <2>1 DEF Numbers
    <2>3. CASE r.stability # "stable"
        <3>1. Offered(reading) = [rule EXCEPT !.repeats = 0]
            BY <1>7, <2>3 DEF Offered
        <3>2. rule' \in Rules /\ rule'.repeats = 0 /\ rule'.heard = Heard(kind)
            <4>1. rule' = [[rule EXCEPT !.repeats = 0] EXCEPT !.heard = Heard(kind)]
                BY <1>4, <3>1
            <4> QED BY <4>1, <1>2, <1>3 DEF Rules
        <3>3. verdict' # "settled" /\ ~ (rule'.repeats >= RepeatsWanted)
            BY <1>1, <1>4, <2>3, <3>2
        <3>4. CountOk'
            BY <1>1, <2>1, <3>2, <3>3 DEF CountOk
        <3> QED BY <1>3, <1>4, <2>3, <3>2, <3>4 DEF DeadlinePassed
    <2>4. CASE r.stability = "stable"
        <3> DEFINE same == rule.repeats > 0 /\ rule.scaled = r.scaled /\ rule.decimals = r.decimals
                   count == IF same THEN rule.repeats + 1 ELSE 1
        <3>1. Offered(reading) = [rule EXCEPT !.repeats = count, !.scaled = r.scaled, !.decimals = r.decimals]
            BY <1>7, <2>4 DEF Offered
        <3>2. count \in Nat /\ count <= RepeatsWanted /\ count >= 1
            BY <1>1, <1>5
        <3>3. /\ rule' \in Rules /\ rule'.repeats = count /\ rule'.heard = Heard(kind)
              /\ rule'.scaled = r.scaled /\ rule'.decimals = r.decimals
              /\ Offered(reading).repeats = count
            BY <1>2, <1>3, <1>4, <2>2, <3>1, <3>2 DEF Rules
        <3>4. verdict' = "settled" <=> rule'.repeats >= RepeatsWanted
            BY <1>4, <1>7, <2>4, <3>3
        <3>5. count <= Len(got')
            BY <1>2, <1>5, <2>1 DEF CountOk
        <3>6. ASSUME NEW j \in Len(got') - count + 1..Len(got')
              PROVE  /\ got'[j].stability = "stable"
                     /\ got'[j].scaled = r.scaled /\ got'[j].decimals = r.decimals
            <4>1. CASE j = Len(got) + 1
                BY <4>1, <2>1, <2>4
            <4>2. CASE j # Len(got) + 1
                <5>1. same /\ j \in Len(got) - rule.repeats + 1..Len(got) /\ j \in 1..Len(got)
                    BY <4>2, <1>2, <1>5, <2>1, <3>5 DEF CountOk
                <5> QED BY <5>1, <1>2, <2>1 DEF CountOk
            <4> QED BY <4>1, <4>2
        <3>7. CountOk'
            <4> HIDE DEF count, r
            <4> QED BY <3>2, <3>3, <3>4, <3>5, <3>6 DEF CountOk
        <3> QED BY <1>3, <1>4, <3>3, <3>7 DEF DeadlinePassed
    <2> QED BY <2>3, <2>4
<1> QED BY <1>6, <1>7

LEMMA HearNoLineKeeps ==
    ASSUME ReaderAssumption, ReaderInv, verdict = "not_yet", HearNoLine
    PROVE  ReaderInv'
<1> DEFINE kind == IF fresh THEN "noise" ELSE "silence"
<1>1. /\ Offer(kind, <<>>)
      /\ UNCHANGED <<protocol, sent, pending, input, elapsed, got>>
    BY DEF HearNoLine
<1>2. ReaderTypesOk /\ CutOk /\ CountOk /\ TellOk /\ VerdictByDeadline
    BY DEF ReaderInv
<1>3. kind \in {"silence", "noise", "reading"} /\ (kind # "silence" <=> fresh)
    BY <1>2 DEF ReaderTypesOk
<1>4. <<>> \in Seq(Readings) /\ Len(<<>>) \in {0, 1} /\ got' = got \o <<>>
    BY <1>1, <1>2 DEF ReaderTypesOk
<1>5. /\ CountOk' /\ rule' \in Rules /\ rule'.heard = Heard(kind)
      /\ verdict' \in {"not_yet", "settled", "expired", "no_answer"}
      /\ verdict' = "no_answer" => ~Heard(kind)
      /\ verdict' = "expired" => Heard(kind)
      /\ elapsed >= Budget => verdict' # "not_yet"
      /\ fresh' = FALSE /\ offered' = elapsed
    <2> HIDE DEF kind
    <2> QED BY <1>1, <1>3, <1>4, OfferKeeps
<1>6. Heard(kind) <=> rule.heard \/ fresh
    BY <1>3 DEF Heard
<1>7. ReaderTypesOk'
    <2>1. elapsed \in Int /\ elapsed <= elapsed
        BY <1>2 DEF ReaderTypesOk, ReaderAssumption
    <2>2. /\ fresh' \in BOOLEAN /\ offered' \in Int /\ offered' <= elapsed'
          /\ rule' \in Rules /\ verdict' \in {"not_yet", "settled", "expired", "no_answer"}
        BY <1>1, <1>5, <2>1
    <2>3. UNCHANGED <<protocol, sent, pending, input, elapsed, got>>
        BY <1>1
    <2> QED BY <1>2, <2>2, <2>3 DEF ReaderTypesOk
<1>8. CutOk'
    BY <1>1, <1>2 DEF CutOk, CutBehind, Dropped
<1>9. TellOk'
    BY <1>1, <1>2, <1>5, <1>6, Zenon DEF TellOk
<1>10. VerdictByDeadline'
    BY <1>5 DEF VerdictByDeadline
<1> QED BY <1>5, <1>7, <1>8, <1>9, <1>10 DEF ReaderInv

\* The line behind the first k: where its bytes are, where it ends and how it
\* is read.
LEMMA NextLine ==
    ASSUME ReaderAssumption, ReadsEachAlone, NEW s \in Seq(Lines), NEW k \in 0..Len(s) - 1
    PROVE  \E n \in Nat :
             LET l == s[k + 1]
                 past == Len(Bytes(SubSeq(s, 1, k)))
             IN  /\ n \in 1..Len(l.text) - 1 /\ l \in Lines
                 /\ Len(l.text) \in Nat /\ past \in Nat
                 /\ \A j \in 1..Len(l.text) :
                      /\ Bytes(s)[past + j] = l.text[j]
                      /\ l.text[j] \in Ends <=> j > n
                 /\ Len(Bytes(SubSeq(s, 1, k + 1))) = past + Len(l.text)
                 /\ past + Len(l.text) <= Len(Bytes(s))
                 /\ ParseLine(l.protocol, SubSeq(l.text, 1, n)) = l.meant
<1> DEFINE l == s[k + 1]
           a == Bytes(SubSeq(s, 1, k))
           b == Bytes(SubSeq(s, 1, k + 1))
           all == Bytes(s)
<1>1. l \in Lines /\ k \in 0..Len(s) /\ k + 1 \in 0..Len(s) /\ k < Len(s)
    OBVIOUS
<1>2. l.text \in Seq(Tokens)
    BY <1>1, LineHas
<1>3. b = a \o l.text
    BY <1>1, FirstLines
<1>4. Begins(b, all)
    BY <1>1, FirstLines
<1>5. a \in Seq(Tokens) /\ all \in Seq(Tokens)
    <2>1. SubSeq(s, 1, k) \in Seq(Lines)
        BY <1>1, FirstLines
    <2> QED BY <2>1, LinesAre
<1>6. PICK n \in 1..Len(l.text) - 1 :
          /\ \A j \in DOMAIN l.text : l.text[j] \in Ends <=> j > n
          /\ ParseLine(l.protocol, SubSeq(l.text, 1, n)) = l.meant
    BY <1>1, Zenon DEF ReadsEachAlone
<1> DEFINE t == l.text
<1>7. /\ DOMAIN t = 1..Len(t) /\ Len(t) \in Nat /\ Len(a) \in Nat /\ n \in Nat
      /\ Len(b) = Len(a) + Len(t) /\ Len(b) <= Len(all)
      /\ \A j \in 1..Len(t) : all[Len(a) + j] = t[j]
    <2>1. t \in Seq(Tokens) /\ a \in Seq(Tokens) /\ b = a \o t /\ Begins(b, all) /\ n \in 1..Len(t) - 1
        BY <1>2, <1>3, <1>4, <1>5, <1>6
    <2> HIDE DEF t, a, b, all
    <2>2. /\ Len(b) = Len(a) + Len(t) /\ Len(a) \in Nat /\ Len(t) \in Nat /\ DOMAIN t = 1..Len(t)
          /\ \A i \in 1..Len(a) + Len(t) : b[i] = IF i <= Len(a) THEN a[i] ELSE t[i - Len(a)]
        BY <2>1
    <2>3. ASSUME NEW j \in 1..Len(t) PROVE all[Len(a) + j] = t[j]
        <3>1. Len(a) + j \in 1..Len(b) /\ b[Len(a) + j] = t[j]
            BY <2>2
        <3> QED BY <3>1, <2>1 DEF Begins
    <2> QED BY <2>1, <2>2, <2>3 DEF Begins
<1>8. \A j \in 1..Len(l.text) : l.text[j] \in Ends <=> j > n
    BY <1>6, <1>7
<1> HIDE DEF a, b, all, t
<1> QED BY <1>1, <1>6, <1>7, <1>8, Zenon DEF a, b, all, t

LEMMA EmptyIsNone == ParseLine(protocol, <<>>) = <<>>
<1>1. Trim(<<>>) = <<>>
    <2>1. Len(<<>>) = 0
        OBVIOUS
    <2>2. After(<<>>, 1, {"sp"}) \in 1..1
        BY <2>1, AfterIs
    <2>3. {k \in After(<<>>, 1, {"sp"})..Len(<<>>) : <<>>[k] # "sp"} = {}
        BY <2>1, <2>2
    <2> QED BY <2>3, Zenon DEF Trim
<1> QED BY <1>1 DEF ParseLine

\* One call of parse that finds a line reads one line as it is meant and drops
\* it, or drops terminators of a line that was read.
LEMMA LineIsRead ==
    ASSUME ReaderAssumption, ReadsEachAlone, ReaderTypesOk, CutOk, HasLine
    PROVE  /\ Consumed \in 1..Len(input)
           /\ Parsed \in Seq(Readings) /\ Len(Parsed) \in {0, 1}
           /\ \E k \in 0..Len(sent) :
                LET past == Len(Bytes(SubSeq(sent, 1, k))) IN
                /\ got \o Parsed = Meanings(SubSeq(sent, 1, k))
                /\ Dropped + Consumed \in 0..past
                /\ \A i \in Dropped + Consumed + 1..past : Bytes(sent)[i] \in Ends
<1> DEFINE e == LineEnd
           a == After(input, e, Ends)
           d == Dropped
           all == Bytes(sent)
<1>1. /\ sent \in Seq(Lines) /\ input \in Seq(Tokens) /\ pending \in Seq(Tokens) /\ got \in Seq(Readings)
      /\ Len(input) \in Nat /\ DOMAIN input = 1..Len(input) /\ Len(sent) \in Nat /\ Len(pending) \in Nat
      /\ \A k \in 1..Len(sent) : sent[k].protocol = protocol
    BY DEF ReaderTypesOk
<1>2. e \in 1..Len(input) /\ input[e] \in Ends /\ \A j \in 1..Len(input) : input[j] \in Ends => e <= j
    <2> DEFINE K == {j \in DOMAIN input : input[j] \in Ends}
    <2>1. K # {} /\ K \in SUBSET Nat
        <3>1. \E j \in DOMAIN input : input[j] \in Ends
            BY DEF HasLine, ToSet
        <3> QED BY <1>1, <3>1
    <2> HIDE DEF K
    <2>2. Min(K) \in K /\ \A u \in K : Min(K) <= u
        BY <2>1, LeastOf, Zenon
    <2>3. e = Min(K)
        BY DEF LineEnd, K
    <2> QED BY <1>1, <2>2, <2>3 DEF K
<1>3. /\ a \in e..Len(input) + 1 /\ \A j \in e..a - 1 : input[j] \in Ends
      /\ a <= Len(input) => input[a] \notin Ends
    <2>1. e \in 1..Len(input) + 1
        BY <1>1, <1>2
    <2> HIDE DEF e
    <2> QED BY <2>1, <1>1, AfterIs
<1>4. Consumed = a - 1 /\ Parsed = ParseLine(protocol, SubSeq(input, 1, e - 1))
    BY DEF Consumed, Parsed, Upto
<1> HIDE DEF e, a
<1> DEFINE c == Consumed
<1>5. c \in e..Len(input) /\ c \in 1..Len(input)
    BY <1>1, <1>2, <1>3, <1>4
<1>6. \A j \in e..c : input[j] \in Ends
    BY <1>1, <1>2, <1>3, <1>4
<1>7. PICK k \in 0..Len(sent) : CutBehind(k)
    BY DEF CutOk
<1> DEFINE past == Len(Bytes(SubSeq(sent, 1, k)))
<1>8. all \in Seq(Tokens) /\ Len(all) \in Nat /\ past \in Nat
    <2>1. SubSeq(sent, 1, k) \in Seq(Lines)
        BY <1>1, FirstLines
    <2>2. Bytes(SubSeq(sent, 1, k)) \in Seq(Tokens) /\ all \in Seq(Tokens)
        BY <1>1, <2>1, LinesAre
    <2> QED BY <2>2
<1>9. /\ got = Meanings(SubSeq(sent, 1, k)) /\ d \in 0..past
      /\ \A i \in 1..Len(input) : input[i] = all[d + i]
      /\ \A i \in d + 1..past : all[i] \in Ends
      /\ Len(all) = d + Len(input) + Len(pending)
    <2>1. d = Len(all) - Len(input) - Len(pending)
        BY DEF Dropped
    <2> QED BY <1>1, <1>7, <1>8, <2>1 DEF CutBehind
<1>10. ASSUME past < Len(all) PROVE k \in 0..Len(sent) - 1
    <2>1. k = Len(sent) => SubSeq(sent, 1, k) = sent
        BY <1>1
    <2>2. ASSUME k = Len(sent) PROVE FALSE
        <3>1. past = Len(all)
            BY <2>1, <2>2, Zenon
        <3> HIDE DEF past, all
        <3> QED BY <3>1, <1>8, <1>10
    <2> QED BY <1>1, <2>2
<1> HIDE DEF d, c, all, past
<1>11. CASE d < past
    <2>1. e = 1
        <3>1. 1 \in 1..Len(input) /\ input[1] = all[d + 1] /\ d + 1 \in d + 1..past
            BY <1>1, <1>2, <1>8, <1>9, <1>11
        <3> QED BY <3>1, <1>2, <1>9
    <2>2. Parsed = <<>>
        <3>1. SubSeq(input, 1, e - 1) = <<>>
            BY <2>1
        <3> QED BY <3>1, <1>4, EmptyIsNone
    <2>3. got \o Parsed = Meanings(SubSeq(sent, 1, k))
        BY <1>1, <1>9, <2>2
    <2>4. ASSUME d + c > past PROVE FALSE
        <3>1. past < Len(all)
            BY <2>4, <1>1, <1>5, <1>8, <1>9
        <3>2. PICK n \in Nat :
                  /\ n \in 1..Len(sent[k + 1].text) - 1 /\ Len(sent[k + 1].text) \in Nat
                  /\ \A j \in 1..Len(sent[k + 1].text) :
                       /\ all[past + j] = sent[k + 1].text[j]
                       /\ sent[k + 1].text[j] \in Ends <=> j > n
            BY <1>1, <1>10, <3>1, NextLine DEF all, past
        <3>3. all[past + 1] \notin Ends
            BY <3>2
        <3>4. past + 1 - d \in e..c /\ past + 1 - d \in 1..Len(input) /\ d + (past + 1 - d) = past + 1
            BY <2>1, <2>4, <1>5, <1>8, <1>9, <1>11
        <3> QED BY <3>3, <3>4, <1>6, <1>9
    <2>5. d + c \in 0..past /\ \A i \in d + c + 1..past : all[i] \in Ends
        BY <2>4, <1>5, <1>8, <1>9
    <2>6. Parsed \in Seq(Readings) /\ Len(Parsed) \in {0, 1}
        BY <2>2
    <2> QED BY <1>5, <1>7, <2>3, <2>5, <2>6 DEF d, c, all, past
<1>12. CASE d = past
    <2>1. k \in 0..Len(sent) - 1
        BY <1>1, <1>2, <1>8, <1>9, <1>10, <1>12
    <2> DEFINE l == sent[k + 1]
               t == l.text
               past2 == Len(Bytes(SubSeq(sent, 1, k + 1)))
    <2>2. PICK n \in Nat :
              /\ n \in 1..Len(t) - 1 /\ l \in Lines /\ Len(t) \in Nat
              /\ \A j \in 1..Len(t) :
                   /\ all[past + j] = t[j]
                   /\ t[j] \in Ends <=> j > n
              /\ past2 = past + Len(t) /\ past + Len(t) <= Len(all)
              /\ ParseLine(l.protocol, SubSeq(t, 1, n)) = l.meant
        BY <1>1, <2>1, NextLine, Zenon DEF all, past
    <2> HIDE DEF t, past2
    <2>3. \A j \in 1..Len(t) : j <= Len(input) => input[j] = t[j]
        <3>1. ASSUME NEW j \in 1..Len(t), j <= Len(input) PROVE input[j] = t[j]
            <4>1. j \in 1..Len(input)
                BY <1>1, <2>2, <3>1
            <4>2. input[j] = all[past + j]
                BY <4>1, <1>9, <1>12
            <4>3. all[past + j] = t[j]
                BY <2>2
            <4> QED BY <4>2, <4>3
        <3> QED BY <3>1
    <2>4. e = n + 1
        <3>1. n + 1 \in 1..Len(t) /\ t[n + 1] \in Ends
            BY <2>2
        <3>2. e <= n + 1
            <4>1. CASE n + 1 <= Len(input)
                <5>1. n + 1 \in 1..Len(input) /\ input[n + 1] \in Ends
                    BY <4>1, <3>1, <2>3
                <5> QED BY <5>1, <1>2
            <4>2. CASE n + 1 > Len(input)
                BY <4>2, <1>1, <1>2
            <4> QED BY <4>1, <4>2, <1>1
        <3>3. e \in 1..Len(t) /\ t[e] \in Ends
            <4>1. e \in 1..Len(t) /\ e <= Len(input)
                BY <1>1, <1>2, <2>2, <3>2
            <4> QED BY <4>1, <2>3, <1>2
        <3> QED BY <3>2, <3>3, <2>2
    <2>5. Parsed = l.meant
        <3>1. t \in Seq(Tokens)
            BY <2>2, LineHas DEF t
        <3>2. SubSeq(input, 1, n) = SubSeq(t, 1, n)
            <4> HIDE DEF t
            <4>1. n <= Len(input) /\ n <= Len(t)
                BY <1>1, <1>2, <2>2, <2>4
            <4>2. /\ SubSeq(input, 1, n) \in Seq(Tokens) /\ Len(SubSeq(input, 1, n)) = n
                  /\ SubSeq(t, 1, n) \in Seq(Tokens) /\ Len(SubSeq(t, 1, n)) = n
                  /\ \A i \in 1..n : SubSeq(input, 1, n)[i] = input[i]
                  /\ \A i \in 1..n : SubSeq(t, 1, n)[i] = t[i]
                BY <1>1, <3>1, <4>1
            <4>3. \A i \in 1..n : input[i] = t[i]
                BY <2>3, <4>1, <2>2
            <4> QED BY <4>2, <4>3, SeqEqual
        <3>3. e - 1 = n /\ l.protocol = protocol
            BY <1>1, <2>1, <2>2, <2>4
        <3> QED BY <3>2, <3>3, <1>4, <2>2 DEF t
    <2>6. Parsed \in Seq(Readings) /\ Len(Parsed) \in {0, 1}
        BY <2>2, <2>5, LineHas
    <2>7. got \o Parsed = Meanings(SubSeq(sent, 1, k + 1))
        <3>1. k \in 0..Len(sent) /\ k < Len(sent)
            BY <1>1, <2>1
        <3> QED BY <3>1, <1>1, <1>9, <2>5, FirstLines
    <2>8. ASSUME d + c > past2 PROVE FALSE
        <3>1. past2 < Len(all) /\ past2 \in Nat
            BY <2>8, <1>1, <1>5, <1>8, <1>9, <2>2
        <3>2. k + 1 \in 0..Len(sent) - 1
            <4>1. k + 1 = Len(sent) => SubSeq(sent, 1, k + 1) = sent
                BY <1>1
            <4>2. ASSUME k + 1 = Len(sent) PROVE FALSE
                <5>1. past2 = Len(all)
                    BY <4>1, <4>2, Zenon DEF all, past2
                <5> QED BY <5>1, <1>8, <3>1
            <4> QED BY <1>1, <2>1, <4>2
        <3>3. PICK m \in Nat :
                  /\ m \in 1..Len(sent[k + 2].text) - 1 /\ Len(sent[k + 2].text) \in Nat
                  /\ \A j \in 1..Len(sent[k + 2].text) :
                       /\ all[past2 + j] = sent[k + 2].text[j]
                       /\ sent[k + 2].text[j] \in Ends <=> j > m
            <4>1. k + 1 + 1 = k + 2
                BY <2>1
            <4>2. \E m \in Nat :
                      LET x == sent[k + 1 + 1] IN
                      /\ m \in 1..Len(x.text) - 1 /\ Len(x.text) \in Nat
                      /\ \A j \in 1..Len(x.text) :
                           /\ all[past2 + j] = x.text[j]
                           /\ x.text[j] \in Ends <=> j > m
                <5> DEFINE h == k + 1
                <5>1. h \in 0..Len(sent) - 1 /\ sent \in Seq(Lines)
                    BY <1>1, <3>2
                <5>2. past2 = Len(Bytes(SubSeq(sent, 1, h)))
                    BY DEF past2
                <5> HIDE DEF h
                <5>3. \E m \in Nat :
                          LET x == sent[h + 1] IN
                          /\ m \in 1..Len(x.text) - 1 /\ Len(x.text) \in Nat
                          /\ \A j \in 1..Len(x.text) :
                               /\ all[past2 + j] = x.text[j]
                               /\ x.text[j] \in Ends <=> j > m
                    BY <5>1, <5>2, NextLine, Zenon DEF all
                <5> QED BY <5>3 DEF h
            <4> QED BY <4>1, <4>2
        <3>4. all[past2 + 1] \notin Ends
            BY <3>3
        <3>5. /\ Len(t) + 1 \in e..c /\ Len(t) + 1 \in 1..Len(input) /\ d + (Len(t) + 1) = past2 + 1
            BY <2>2, <2>4, <2>8, <1>5, <1>8, <1>9, <1>12
        <3> QED BY <3>4, <3>5, <1>6, <1>9
    <2>9. d + c \in 0..past2
        BY <2>8, <1>5, <1>8, <1>9, <2>2
    <2>10. ASSUME NEW i \in d + c + 1..past2 PROVE all[i] \in Ends
        <3>1. i - past \in 1..Len(t) /\ i - past > n /\ past + (i - past) = i
            BY <2>2, <2>4, <1>5, <1>8, <1>9, <1>12
        <3> QED BY <3>1, <2>2
    <2>11. k + 1 \in 0..Len(sent)
        BY <2>1
    <2>13. Consumed \in 1..Len(input)
        BY <1>5 DEF c
    <2> DEFINE Past(h) == Len(Bytes(SubSeq(sent, 1, h)))
               Cut(h) == /\ got \o Parsed = Meanings(SubSeq(sent, 1, h))
                         /\ Dropped + Consumed \in 0..Past(h)
                         /\ \A i \in Dropped + Consumed + 1..Past(h) : Bytes(sent)[i] \in Ends
    <2>12. Cut(k + 1)
        BY <2>7, <2>9, <2>10, Zenon DEF d, c, all, past2
    <2>14. \E h \in 0..Len(sent) : Cut(h)
        <3> HIDE DEF Cut
        <3> QED BY <2>11, <2>12
    <2> QED BY <2>6, <2>13, <2>14
<1>13. d < past \/ d = past
    BY <1>8, <1>9
<1> QED BY <1>11, <1>12, <1>13, Zenon

LEMMA HearLineKeeps ==
    ASSUME ReaderAssumption, ReadsEachAlone, ReaderInv, verdict = "not_yet", HearLine
    PROVE  ReaderInv'
<1> DEFINE kind == IF Parsed = <<>> THEN "noise" ELSE "reading"
<1>1. /\ HasLine /\ input' = SubSeq(input, Consumed + 1, Len(input))
      /\ got' = got \o Parsed /\ Offer(kind, Parsed)
      /\ UNCHANGED <<protocol, sent, pending, elapsed>>
    BY DEF HearLine
<1>2. ReaderTypesOk /\ CutOk /\ CountOk /\ TellOk /\ VerdictByDeadline
    BY DEF ReaderInv
<1>3. /\ Consumed \in 1..Len(input)
      /\ Parsed \in Seq(Readings) /\ Len(Parsed) \in {0, 1}
    BY <1>1, <1>2, LineIsRead
<1>4. PICK k \in 0..Len(sent) :
          LET past == Len(Bytes(SubSeq(sent, 1, k))) IN
          /\ got \o Parsed = Meanings(SubSeq(sent, 1, k))
          /\ Dropped + Consumed \in 0..past
          /\ \A i \in Dropped + Consumed + 1..past : Bytes(sent)[i] \in Ends
    BY <1>1, <1>2, LineIsRead, Zenon
<1>5. kind \in {"silence", "noise", "reading"} /\ kind # "silence"
    OBVIOUS
<1>6. /\ CountOk' /\ rule' \in Rules /\ rule'.heard = Heard(kind)
      /\ verdict' \in {"not_yet", "settled", "expired", "no_answer"}
      /\ verdict' = "no_answer" => ~Heard(kind)
      /\ verdict' = "expired" => Heard(kind)
      /\ elapsed >= Budget => verdict' # "not_yet"
      /\ fresh' = FALSE /\ offered' = elapsed
    <2> HIDE DEF kind
    <2> QED BY <1>1, <1>3, <1>5, OfferKeeps
<1>7. Heard(kind)
    BY <1>5 DEF Heard
<1>8. input \in Seq(Tokens) /\ pending \in Seq(Tokens) /\ sent \in Seq(Lines) /\ got \in Seq(Readings)
    BY <1>2 DEF ReaderTypesOk
<1>9. /\ input' \in Seq(Tokens) /\ Len(input') = Len(input) - Consumed
      /\ \A i \in 1..Len(input) - Consumed : input'[i] = input[Consumed + i]
    BY <1>1, <1>3, <1>8
<1>10. got' \in Seq(Readings)
    BY <1>1, <1>3, <1>8
<1>11. ReaderTypesOk'
    <2>1. elapsed \in Int /\ elapsed <= elapsed
        BY <1>2 DEF ReaderTypesOk, ReaderAssumption
    <2>2. /\ fresh' \in BOOLEAN /\ offered' \in Int /\ offered' <= elapsed'
          /\ rule' \in Rules /\ verdict' \in {"not_yet", "settled", "expired", "no_answer"}
        BY <1>1, <1>6, <2>1
    <2>3. UNCHANGED <<protocol, sent, pending, elapsed>>
        BY <1>1
    <2> QED BY <1>2, <1>9, <1>10, <2>2, <2>3 DEF ReaderTypesOk
<1>12. Bytes(sent) \in Seq(Tokens) /\ Len(Bytes(sent)) \in Nat
    BY <1>8, LinesAre
<1>13. CutOk'
    <2>1. PICK j \in 0..Len(sent) : CutBehind(j)
        BY <1>2 DEF CutOk
    <2> DEFINE all == Bytes(sent)
               d == Dropped
               c == Consumed
    <2>2. Dropped' = Dropped + Consumed /\ Dropped \in Int
        <3>1. Dropped' = Len(Bytes(sent)) - Len(input') - Len(pending)
            BY <1>1 DEF Dropped
        <3>2. Len(input) \in Nat /\ Len(pending) \in Nat
            BY <1>8
        <3> QED BY <3>1, <3>2, <1>3, <1>9, <1>12 DEF Dropped
    <2>3. /\ \A i \in 1..Len(input) : input[i] = all[d + i]
          /\ \A i \in 1..Len(pending) : pending[i] = all[d + Len(input) + i]
        BY <2>1 DEF CutBehind
    <2>4. /\ \A i \in 1..Len(input') : input'[i] = all[d + c + i]
          /\ \A i \in 1..Len(pending) : pending[i] = all[d + c + Len(input') + i]
        <3>1. d \in Int /\ c \in 1..Len(input) /\ Len(input) \in Nat
            BY <1>3, <1>8, <2>2
        <3>2. Len(input') = Len(input) - c /\ \A i \in 1..Len(input) - c : input'[i] = input[c + i]
            BY <1>9
        <3> HIDE DEF all, d, c
        <3>3. ASSUME NEW i \in 1..Len(input') PROVE input'[i] = all[d + c + i]
            <4>1. c + i \in 1..Len(input) /\ d + (c + i) = d + c + i
                BY <3>1, <3>2
            <4> QED BY <4>1, <3>2, <2>3
        <3>4. d + c + Len(input') = d + Len(input)
            BY <3>1, <3>2
        <3> QED BY <2>3, <3>3, <3>4
    <2>5. /\ \A i \in 1..Len(input') : input'[i] = Bytes(sent')[Dropped' + i]
          /\ \A i \in 1..Len(pending') : pending'[i] = Bytes(sent')[Dropped' + Len(input') + i]
        BY <1>1, <2>2, <2>4
    <2>6. CutBehind(k)'
        <3>1. sent' = sent /\ pending' = pending /\ Dropped' = Dropped + Consumed /\ got' = Meanings(SubSeq(sent, 1, k))
            BY <1>1, <1>4, <2>2
        <3> QED BY <1>4, <2>5, <3>1 DEF CutBehind
    <2> QED BY <1>1, <2>6 DEF CutOk
<1>14. TellOk'
    <2>1. Len(pending) < Len(Bytes(sent))
        <3>1. PICK j \in 0..Len(sent) : CutBehind(j)
            BY <1>2 DEF CutOk
        <3>2. Dropped >= 0
            <4>1. SubSeq(sent, 1, j) \in Seq(Lines)
                BY <1>8, FirstLines
            <4>2. Bytes(SubSeq(sent, 1, j)) \in Seq(Tokens)
                BY <4>1, LinesAre
            <4>3. Dropped \in 0..Len(Bytes(SubSeq(sent, 1, j)))
                BY <3>1 DEF CutBehind
            <4> QED BY <4>2, <4>3
        <3> QED BY <3>2, <1>3, <1>8, <1>12 DEF Dropped
    <2> QED BY <1>1, <1>6, <1>7, <2>1, Zenon DEF TellOk
<1>15. VerdictByDeadline'
    BY <1>6 DEF VerdictByDeadline
<1> QED BY <1>6, <1>11, <1>13, <1>14, <1>15 DEF ReaderInv

LEMMA ReaderSteps ==
    ASSUME ReaderAssumption, ReadsEachAlone, ReaderInv, [ReaderNext]_readerVars
    PROVE  ReaderInv'
<1>1. CASE LineComes
    BY <1>1, SendKeeps
<1>2. CASE verdict = "not_yet" /\ BytesArrive
    BY <1>2, ArriveKeeps
<1>3. CASE verdict = "not_yet" /\ HearLine
    BY <1>3, HearLineKeeps
<1>4. CASE verdict = "not_yet" /\ HearNoLine
    BY <1>4, HearNoLineKeeps
<1>5. CASE TimePasses
    BY <1>5, TickKeeps
<1>6. CASE UNCHANGED readerVars
    BY <1>6, ReaderStutter
<1> QED BY <1>1, <1>2, <1>3, <1>4, <1>5, <1>6 DEF ReaderNext, Hear

\* What the invariant says of the weight.
LEMMA ReaderInvTells ==
    ASSUME ReaderAssumption, ReadsEachAlone, ReaderInv PROVE WeightIsTheOneShown
<1>1. RepeatsWanted \in Nat /\ RepeatsWanted >= 1
    BY WantedIs
<1>2. ReaderTypesOk /\ CutOk /\ CountOk /\ TellOk /\ VerdictByDeadline
    BY DEF ReaderInv
<1>3. /\ sent \in Seq(Lines) /\ pending \in Seq(Tokens) /\ input \in Seq(Tokens) /\ got \in Seq(Readings)
      /\ rule \in Rules /\ Len(got) \in Nat /\ Len(sent) \in Nat
    BY <1>2 DEF ReaderTypesOk
<1>4. ReaderTypeOK
    <2>1. rule.repeats \in 0..RepeatsWanted /\ rule.heard \in BOOLEAN
        BY <1>1, <1>2, <1>3 DEF CountOk, Rules
    <2> QED BY <1>2, <2>1 DEF ReaderTypeOK, ReaderTypesOk
<1>5. Meant = Meanings(sent) /\ Meanings(sent) \in Seq(Readings)
    <2>1. Meant = Meanings(sent)
        BY DEF Meant, Meanings, Meants
    <2> QED BY <2>1, <1>3, LinesAre
<1>6. Bytes(sent) \in Seq(Tokens) /\ BytesRead = Len(Bytes(sent)) - Len(pending)
    <2>1. Bytes(sent) \in Seq(Tokens)
        BY <1>3, LinesAre
    <2> QED BY <2>1 DEF BytesRead, Bytes, Texts
<1>7. PICK k \in 0..Len(sent) : CutBehind(k)
    BY <1>2 DEF CutOk
<1>8. ReadsAsMeant
    <2>1. got = Meanings(SubSeq(sent, 1, k)) /\ Begins(got, Meanings(sent))
        <3>1. got = Meanings(SubSeq(sent, 1, k))
            BY <1>7 DEF CutBehind
        <3> QED BY <3>1, <1>3, FirstLines
    <2>2. IsPrefix(got, Meant)
        <3> DEFINE m == Meanings(sent)
        <3>1. m \in Seq(Readings) /\ Begins(got, m) /\ got \in Seq(Readings)
            BY <1>3, <1>5, <2>1
        <3> HIDE DEF m
        <3>2. Len(got) <= Len(m) /\ \A i \in 1..Len(got) : m[i] = got[i]
            BY <3>1 DEF Begins
        <3>3. /\ SubSeq(got, 1, Len(got)) \in Seq(Readings) /\ Len(SubSeq(got, 1, Len(got))) = Len(got)
              /\ SubSeq(m, 1, Len(got)) \in Seq(Readings) /\ Len(SubSeq(m, 1, Len(got))) = Len(got)
              /\ \A i \in 1..Len(got) : SubSeq(got, 1, Len(got))[i] = got[i]
              /\ \A i \in 1..Len(got) : SubSeq(m, 1, Len(got))[i] = m[i]
            BY <1>3, <3>1, <3>2
        <3>4. SubSeq(got, 1, Len(got)) = SubSeq(m, 1, Len(got))
            BY <3>2, <3>3, SeqEqual
        <3> QED BY <1>5, <3>2, <3>4, Zenon DEF IsPrefix, m
    <2>3. ASSUME pending = <<>>, ~HasLine PROVE got = Meant
        <3>1. k = Len(sent)
            <4>1. ASSUME k # Len(sent) PROVE FALSE
                <5> DEFINE t == sent[k + 1].text
                           all == Bytes(sent)
                           past == Len(Bytes(SubSeq(sent, 1, k)))
                           d == Dropped
                <5>0. k \in 0..Len(sent) - 1
                    BY <1>3, <4>1
                <5>1. PICK n \in Nat :
                          /\ n \in 1..Len(t) - 1 /\ Len(t) \in Nat /\ past \in Nat
                          /\ \A j \in 1..Len(t) :
                               /\ all[past + j] = t[j]
                               /\ t[j] \in Ends <=> j > n
                          /\ past + Len(t) <= Len(all)
                    BY <1>3, <5>0, NextLine
                <5>2. /\ d \in 0..past /\ d = Len(all) - Len(input) - Len(pending)
                      /\ \A i \in 1..Len(input) : input[i] = all[d + i]
                    BY <1>7 DEF CutBehind, Dropped
                <5>3. Len(all) \in Nat /\ Len(input) \in Nat /\ Len(pending) = 0
                    BY <1>3, <1>6, <2>3
                <5> HIDE DEF t, all, past, d
                <5>4. /\ past + Len(t) - d \in 1..Len(input)
                      /\ input[past + Len(t) - d] = all[past + Len(t)]
                      /\ all[past + Len(t)] = t[Len(t)] /\ t[Len(t)] \in Ends
                    <6>1. past + Len(t) - d \in 1..Len(input) /\ d + (past + Len(t) - d) = past + Len(t)
                        BY <5>1, <5>2, <5>3
                    <6>2. Len(t) \in 1..Len(t) /\ Len(t) > n
                        BY <5>1
                    <6> QED BY <6>1, <6>2, <5>1, <5>2
                <5>5. DOMAIN input = 1..Len(input)
                    BY <1>3
                <5> QED BY <5>4, <5>5, <2>3 DEF HasLine, ToSet
            <4> QED BY <4>1
        <3>2. SubSeq(sent, 1, k) = sent
            BY <1>3, <3>1
        <3> QED BY <1>5, <2>1, <3>2
    <2> QED BY <2>2, <2>3 DEF ReadsAsMeant
<1>9. SettledIsAtRest
    <2> SUFFICES ASSUME verdict = "settled"
                 PROVE  /\ Len(got) >= RepeatsWanted
                        /\ \A j \in Len(got) - RepeatsWanted + 1..Len(got) :
                             /\ got[j].stability = "stable"
                             /\ got[j].scaled = got[Len(got)].scaled
                             /\ got[j].decimals = got[Len(got)].decimals
        BY Zenon DEF SettledIsAtRest
    <2>1. rule.repeats = RepeatsWanted /\ RepeatsWanted <= Len(got)
        BY <1>1, <1>2, <1>3 DEF CountOk, Rules
    <2>2. \A j \in Len(got) - RepeatsWanted + 1..Len(got) :
              /\ got[j].stability = "stable"
              /\ got[j].scaled = rule.scaled /\ got[j].decimals = rule.decimals
        BY <1>2, <2>1 DEF CountOk
    <2>3. Len(got) \in Len(got) - RepeatsWanted + 1..Len(got)
        BY <1>1, <1>3, <2>1
    <2> QED BY <2>1, <2>2, <2>3
<1>10. DeadMeansSilent
    <2>1. Len(Bytes(sent)) \in Nat /\ Len(pending) \in Nat /\ Len(pending) <= Len(Bytes(sent))
        <3>1. Dropped >= 0
            <4>1. SubSeq(sent, 1, k) \in Seq(Lines)
                BY <1>3, FirstLines
            <4>2. Bytes(SubSeq(sent, 1, k)) \in Seq(Tokens)
                BY <4>1, LinesAre
            <4>3. Dropped \in 0..Len(Bytes(SubSeq(sent, 1, k)))
                BY <1>7 DEF CutBehind
            <4> QED BY <4>2, <4>3
        <3> QED BY <3>1, <1>3, <1>6 DEF Dropped
    <2>2. verdict = "no_answer" => ~ (Len(pending) < Len(Bytes(sent)))
        BY <1>2 DEF TellOk
    <2>3. verdict = "expired" => Len(pending) < Len(Bytes(sent))
        BY <1>2 DEF TellOk
    <2> QED BY <1>6, <2>1, <2>2, <2>3 DEF DeadMeansSilent
<1> QED BY <1>2, <1>4, <1>8, <1>9, <1>10 DEF WeightIsTheOneShown

\* The weight the till takes is the one the scale shows at rest (parse and
\* Stabilizer::offer, scale.rs): for any lines that are read as they are meant
\* when each is handed over whole, any protocol, number of repeats and budget,
\* and however the port cuts the bytes.
THEOREM WeightIsTaken ==
    ASSUME ReaderAssumption, ReadsEachAlone PROVE ReaderSpec => []WeightIsTheOneShown
<1>1. ReaderInit => ReaderInv
    BY ReaderStarts
<1>2. ReaderInv /\ [ReaderNext]_readerVars => ReaderInv'
    BY ReaderSteps
<1>3. ReaderInv => WeightIsTheOneShown
    BY ReaderInvTells
<1> QED BY <1>1, <1>2, <1>3, PTL DEF ReaderSpec

----------------------------------------------------------------------------
(* Writes to a display or a drawer (DeviceWrite).                          *)

Octets == 0..255
Jobs == [asked : Writes, bytes : Seq(Octets), state : {"writing", "done", "unknown"}]

\* What the device took of a job and what is still to send is the job.
PortInv ==
    /\ jobs \in Seq(Jobs) /\ took \in Seq(Seq(Octets)) /\ rest \in Seq(Octets)
    /\ Len(took) = Len(jobs)
    /\ rest # <<>> => Port!Writing
    /\ \A k \in 1..Len(jobs) :
         /\ jobs[k].state = "writing" => k = Len(jobs) /\ took[k] \o rest = jobs[k].bytes
         /\ jobs[k].state = "done" => took[k] = jobs[k].bytes
         /\ \E left \in Seq(Octets) : took[k] \o left = jobs[k].bytes

LEMMA CodesAreOctets == ASSUME NEW c PROVE Port!Cp866(c) \in Octets
BY DEF Port!Cp866, Octets

\* Whatever is accepted is encoded as bytes.
LEMMA EncodeIsBytes ==
    ASSUME Port!WriteAssumption, NEW o \in Writes, Port!Accepted(o)
    PROVE  Port!Encode(o) \in Seq(Octets)
<1>0. o.op \in {"reset", "clear", "home", "displayOn", "displayOff", "blink",
                "setBrightness", "setCursor", "writeLine", "pulse"}
    BY DEF Port!WriteAssumption
<1>1. CASE o.op \in {"reset", "clear", "home", "displayOn", "displayOff", "blink"}
    <2>1. /\ <<27, 64>> \in Seq(Octets) /\ <<12>> \in Seq(Octets) /\ <<27, 91, 72>> \in Seq(Octets)
          /\ <<11>> \in Seq(Octets) /\ <<27, 40>> \in Seq(Octets) /\ <<20>> \in Seq(Octets)
          /\ <<27, 41>> \in Seq(Octets) /\ <<21>> \in Seq(Octets) /\ <<27, 37>> \in Seq(Octets)
        BY DEF Octets
    <2>2. Port!Encode(o) \in {<<27, 64>>, <<12>>, <<27, 91, 72>>, <<11>>, <<27, 40>>, <<20>>,
                              <<27, 41>>, <<21>>, <<27, 37>>}
        BY <1>1 DEF Port!Encode, Port!Esc
    <2> QED BY <2>1, <2>2
<1>2. CASE o.op = "setBrightness"
    <2>1. o.level \in Octets
        BY <1>2 DEF Port!WriteAssumption, Port!Accepted, Octets
    <2>2. Port!Encode(o) = <<27, 42, o.level>>
        BY <1>2 DEF Port!Encode, Port!Esc
    <2> QED BY <2>1, <2>2 DEF Octets
<1>3. CASE o.op = "setCursor"
    <2>1. o.column \in Octets /\ o.line \in Octets
        BY <1>3 DEF Port!Accepted, Port!OnScreen, Port!Columns, Port!LineCount, Octets
    <2>2. Port!Encode(o) = <<27, 36, o.column, o.line>>
        BY <1>3 DEF Port!Encode, Port!Esc
    <2> QED BY <2>1, <2>2 DEF Octets
<1>4. CASE o.op = "writeLine"
    <2> DEFINE head == IF Port!Addressable THEN <<27, 36, 0, o.line>> ELSE <<11>>
               text == Port!EncodeText(Port!Fit(o.text))
    <2>1. o.line \in Octets
        BY <1>4 DEF Port!Accepted, Port!OnScreen, Port!LineCount, Octets
    <2>2. head \in Seq(Octets)
        <3>1. <<11>> \in Seq(Octets) /\ 27 \in Octets /\ 36 \in Octets /\ 0 \in Octets
            BY DEF Octets
        <3>2. <<27, 36, 0, o.line>> \in Seq(Octets)
            BY <2>1, <3>1
        <3> QED BY <3>1, <3>2, Zenon
    <2>3. text \in Seq(Octets)
        <3> DEFINE fit == Port!Fit(o.text)
        <3>1. DOMAIN fit = 1..Port!Columns /\ Port!Columns \in Nat
            BY DEF Port!Fit, Port!Columns
        <3>2. text = [k \in 1..Port!Columns |-> IF Port!Cp866(fit[k]) = 0 THEN 32 ELSE Port!Cp866(fit[k])]
            BY <3>1 DEF Port!EncodeText, Port!Blank
        <3> DEFINE code(k) == IF Port!Cp866(fit[k]) = 0 THEN 32 ELSE Port!Cp866(fit[k])
        <3>3. \A k \in 1..Port!Columns : code(k) \in Octets
            BY CodesAreOctets DEF Octets
        <3> HIDE DEF code
        <3>4. [k \in 1..Port!Columns |-> code(k)] \in Seq(Octets)
            BY <3>1, <3>3
        <3> QED BY <3>2, <3>4 DEF code
    <2>4. Port!Encode(o) = head \o text
        BY <1>4 DEF Port!Encode, Port!Esc
    <2> HIDE DEF head, text
    <2> QED BY <2>2, <2>3, <2>4
<1>5. CASE o.op = "pulse"
    <2>1. o.on \in 0..510 /\ o.off \in 0..510
        BY <1>5 DEF Port!WriteAssumption, Port!Accepted, Port!MaxMs
    <2>2. Port!Units(o.on) \in Octets /\ Port!Units(o.off) \in Octets /\ Port!Selector(o.pin) \in Octets
        BY <2>1 DEF Port!Units, Port!Selector, Octets
    <2>3. Port!Encode(o) = <<27, 112, Port!Selector(o.pin), Port!Units(o.on), Port!Units(o.off)>>
        BY <1>5 DEF Port!Encode, Port!Esc
    <2> QED BY <2>2, <2>3 DEF Octets
<1> QED BY <1>0, <1>1, <1>2, <1>3, <1>4, <1>5

LEMMA StartKeepsJobs == ASSUME Port!WriteAssumption, PortInv, Port!Start PROVE PortInv'
<1>1. PICK o \in Writes :
          /\ Port!Accepted(o)
          /\ jobs' = Append(jobs, [asked |-> o, bytes |-> Port!Encode(o), state |-> "writing"])
          /\ rest' = Port!Encode(o) /\ took' = Append(took, <<>>)
    BY DEF Port!Start
<1> DEFINE e == Port!Encode(o)
           j == [asked |-> o, bytes |-> e, state |-> "writing"]
<1>2. e \in Seq(Octets)
    BY <1>1, EncodeIsBytes
<1>3. ~Port!Writing /\ jobs \in Seq(Jobs) /\ took \in Seq(Seq(Octets)) /\ Len(took) = Len(jobs) /\ Len(jobs) \in Nat
    BY DEF Port!Start, PortInv
<1> HIDE DEF e
<1>4. j \in Jobs
    BY <1>2 DEF Jobs
<1>5. /\ jobs' = Append(jobs, j) /\ rest' = e /\ took' = Append(took, <<>>)
    BY <1>1 DEF e
<1>6. <<>> \in Seq(Octets) /\ <<>> \o e = e
    BY <1>2
<1>7. /\ jobs' \in Seq(Jobs) /\ Len(jobs') = Len(jobs) + 1 /\ jobs'[Len(jobs) + 1] = j
      /\ \A k \in 1..Len(jobs) : jobs'[k] = jobs[k]
    BY <1>3, <1>4, <1>5
<1>8. /\ took' \in Seq(Seq(Octets)) /\ Len(took') = Len(jobs) + 1 /\ took'[Len(jobs) + 1] = <<>>
      /\ \A k \in 1..Len(jobs) : took'[k] = took[k]
    <2> DEFINE S == Seq(Octets)
    <2>1. took \in Seq(S) /\ <<>> \in S
        BY <1>3, <1>6
    <2> HIDE DEF S
    <2>2. /\ took' \in Seq(S) /\ Len(took') = Len(jobs) + 1 /\ took'[Len(jobs) + 1] = <<>>
          /\ \A k \in 1..Len(jobs) : took'[k] = took[k]
        BY <1>3, <1>5, <2>1
    <2> QED BY <2>2 DEF S
<1>9. Port!Writing'
    BY <1>7, <1>3 DEF Port!Writing, Port!Current
<1>10. \A k \in 1..Len(jobs) : jobs[k].state # "writing"
    <2>1. ASSUME NEW k \in 1..Len(jobs), jobs[k].state = "writing" PROVE FALSE
        <3>1. k = Len(jobs)
            BY <2>1 DEF PortInv
        <3>2. jobs # <<>>
            BY <1>3, <2>1
        <3> QED BY <3>1, <3>2, <2>1, <1>3 DEF Port!Writing, Port!Current
    <2> QED BY <2>1
<1>11. ASSUME NEW k \in 1..Len(jobs')
       PROVE  /\ jobs'[k].state = "writing" => k = Len(jobs') /\ took'[k] \o rest' = jobs'[k].bytes
              /\ jobs'[k].state = "done" => took'[k] = jobs'[k].bytes
              /\ \E left \in Seq(Octets) : took'[k] \o left = jobs'[k].bytes
    <2>1. CASE k = Len(jobs) + 1
        <3>1. jobs'[k] = j /\ took'[k] = <<>> /\ rest' = e
            BY <2>1, <1>5, <1>7, <1>8
        <3>2. jobs'[k].bytes = e /\ jobs'[k].state = "writing" /\ k = Len(jobs')
            BY <3>1, <2>1, <1>7
        <3>3. took'[k] \o e = e
            BY <3>1, <1>6
        <3>4. \E left \in Seq(Octets) : took'[k] \o left = jobs'[k].bytes
            BY <1>2, <3>2, <3>3, Zenon
        <3>5. jobs'[k].state # "done"
            BY <3>2
        <3>6. took'[k] \o rest' = jobs'[k].bytes
            BY <3>1, <3>2, <3>3, Zenon
        <3> QED BY <3>2, <3>4, <3>5, <3>6
    <2>2. CASE k # Len(jobs) + 1
        <3>1. k \in 1..Len(jobs) /\ jobs'[k] = jobs[k] /\ took'[k] = took[k]
            <4>1. k \in 1..Len(jobs)
                BY <2>2, <1>3, <1>7
            <4> QED BY <4>1, <1>7, <1>8
        <3> QED BY <3>1, <1>10 DEF PortInv
    <2> QED BY <2>1, <2>2
<1> QED BY <1>2, <1>3, <1>5, <1>7, <1>8, <1>9, <1>11 DEF PortInv

\* What is at the end of the bytes taken.
LEMMA TakeSplits ==
    ASSUME NEW a \in Seq(Octets), NEW b \in Seq(Octets), NEW n \in 0..Len(b)
    PROVE  /\ SubSeq(b, 1, n) \in Seq(Octets) /\ SubSeq(b, n + 1, Len(b)) \in Seq(Octets)
           /\ (a \o SubSeq(b, 1, n)) \in Seq(Octets)
           /\ (a \o SubSeq(b, 1, n)) \o SubSeq(b, n + 1, Len(b)) = a \o b
           /\ n = Len(b) => SubSeq(b, 1, n) = b
<1> DEFINE x == SubSeq(b, 1, n)
           y == SubSeq(b, n + 1, Len(b))
<1>1. x \in Seq(Octets) /\ y \in Seq(Octets) /\ (n = Len(b) => x = b)
    OBVIOUS
<1>2. x \o y = b
    <2>1. 1 \in 1..Len(b) + 1 /\ n \in 1 - 1..Len(b) /\ Len(b) \in n..Len(b)
        OBVIOUS
    <2>2. x \o y = SubSeq(b, 1, Len(b))
        BY <2>1, ConcatAdjacentSubSeq, Zenon
    <2>3. SubSeq(b, 1, Len(b)) = b
        BY SubSeqFull
    <2> QED BY <2>2, <2>3, Zenon
<1> HIDE DEF x, y
<1>3. (a \o x) \o y = a \o (x \o y) /\ a \o x \in Seq(Octets)
    BY <1>1, ConcatAssociative
<1> QED BY <1>1, <1>2, <1>3 DEF x, y

\* A write, of which the device takes some; how the job goes on is one of
\* three ways.
LEMMA WriteKeepsJobs ==
    ASSUME PortInv, Port!Writing, NEW n \in 0..Len(rest), Port!Take(n),
           \/ Port!End("done") /\ n = Len(rest)
           \/ Port!End("unknown")
           \/ rest' = SubSeq(rest, n + 1, Len(rest)) /\ jobs' = jobs
    PROVE  PortInv'
<1> DEFINE m == Len(jobs)
           came == SubSeq(rest, 1, n)
           left == SubSeq(rest, n + 1, Len(rest))
<1>1. /\ jobs \in Seq(Jobs) /\ took \in Seq(Seq(Octets)) /\ rest \in Seq(Octets)
      /\ Len(took) = m /\ m \in Nat /\ jobs # <<>> /\ m \in 1..m
      /\ jobs[m].state = "writing"
    BY DEF PortInv, Port!Writing, Port!Current
<1>2. took[m] \o rest = jobs[m].bytes /\ took[m] \in Seq(Octets) /\ jobs[m] \in Jobs
    BY <1>1 DEF PortInv
<1> DEFINE t == took[m] \o came
<1>3. /\ came \in Seq(Octets) /\ left \in Seq(Octets) /\ t \in Seq(Octets)
      /\ t \o left = jobs[m].bytes
      /\ n = Len(rest) => t = jobs[m].bytes
    <2>1. /\ came \in Seq(Octets) /\ left \in Seq(Octets) /\ t \in Seq(Octets)
          /\ t \o left = took[m] \o rest
          /\ n = Len(rest) => came = rest
        BY <1>1, <1>2, TakeSplits, Zenon
    <2> QED BY <2>1, <1>2, Zenon
<1>4. took' = [took EXCEPT ![m] = t]
    BY DEF Port!Take
<1> HIDE DEF came, left, t
<1>5. /\ took' \in Seq(Seq(Octets)) /\ Len(took') = m /\ took'[m] = t
      /\ \A k \in 1..m : k # m => took'[k] = took[k]
    <2> DEFINE S == Seq(Octets)
    <2>1. took \in Seq(S) /\ t \in S /\ m \in 1..Len(took)
        BY <1>1, <1>3
    <2> HIDE DEF S
    <2>2. /\ took' \in Seq(S) /\ Len(took') = m /\ took'[m] = t
          /\ \A k \in 1..m : k # m => took'[k] = took[k]
        BY <1>1, <1>4, <2>1
    <2> QED BY <2>2 DEF S
<1>6. ASSUME NEW st \in {"done", "unknown"}, Port!End(st), st = "done" => n = Len(rest)
      PROVE  PortInv'
    <2>1. /\ jobs' \in Seq(Jobs) /\ Len(jobs') = m
          /\ jobs'[m].state = st /\ jobs'[m].bytes = jobs[m].bytes
          /\ \A k \in 1..m : k # m => jobs'[k] = jobs[k]
        <3>1. jobs' = [jobs EXCEPT ![m] = [jobs[m] EXCEPT !.state = st]]
            BY <1>6 DEF Port!End
        <3>2. [jobs[m] EXCEPT !.state = st] \in Jobs
            BY <1>2 DEF Jobs
        <3>3. [jobs[m] EXCEPT !.state = st].state = st /\ [jobs[m] EXCEPT !.state = st].bytes = jobs[m].bytes
            BY <1>2 DEF Jobs
        <3> QED BY <1>1, <3>1, <3>2, <3>3
    <2>2. rest' = <<>>
        BY <1>6 DEF Port!End
    <2>3. ASSUME NEW k \in 1..Len(jobs')
          PROVE  /\ jobs'[k].state # "writing"
                 /\ jobs'[k].state = "done" => took'[k] = jobs'[k].bytes
                 /\ \E l \in Seq(Octets) : took'[k] \o l = jobs'[k].bytes
        <3>1. CASE k = m
            BY <3>1, <1>3, <1>5, <1>6, <2>1
        <3>2. CASE k # m
            <4>1. k \in 1..m /\ jobs'[k] = jobs[k] /\ took'[k] = took[k]
                BY <3>2, <1>5, <2>1
            <4> QED BY <4>1, <3>2 DEF PortInv
        <3> QED BY <3>1, <3>2
    <2>4. rest' \in Seq(Octets)
        BY <2>2
    <2> QED BY <1>5, <2>1, <2>2, <2>3, <2>4, Zenon DEF PortInv
<1>7. ASSUME rest' = left, jobs' = jobs PROVE PortInv'
    <2>1. ASSUME NEW k \in 1..Len(jobs')
          PROVE  /\ jobs'[k].state = "writing" => k = Len(jobs') /\ took'[k] \o rest' = jobs'[k].bytes
                 /\ jobs'[k].state = "done" => took'[k] = jobs'[k].bytes
                 /\ \E l \in Seq(Octets) : took'[k] \o l = jobs'[k].bytes
        <3>1. CASE k = m
            BY <3>1, <1>1, <1>3, <1>5, <1>7
        <3>2. CASE k # m
            <4>1. k \in 1..m /\ jobs'[k] = jobs[k] /\ took'[k] = took[k]
                BY <3>2, <1>5, <1>7
            <4> QED BY <4>1, <3>2, <1>7 DEF PortInv
        <3> QED BY <3>1, <3>2
    <2>2. Port!Writing'
        BY <1>1, <1>7 DEF Port!Writing, Port!Current
    <2> QED BY <1>1, <1>3, <1>5, <1>7, <2>1, <2>2 DEF PortInv
<1> QED BY <1>6, <1>7 DEF left

LEMMA PortSteps ==
    ASSUME Port!WriteAssumption, PortInv, [Port!Next]_Port!vars PROVE PortInv'
<1>1. CASE Port!Start
    BY <1>1, StartKeepsJobs
<1>2. CASE Port!Written
    <2>1. Port!Writing
        BY <1>2 DEF Port!Written
    <2>2. PICK n \in 0..Len(rest) :
              /\ Port!Take(n)
              /\ CASE Port!Resolve(Len(rest), n).action = "done" -> Port!End("done")
                   [] Port!Resolve(Len(rest), n).action = "refused" -> Port!End("unknown")
                   [] Port!Resolve(Len(rest), n).action = "continue" ->
                        /\ rest' = SubSeq(rest, Port!Resolve(Len(rest), n).offset + 1, Len(rest))
                        /\ UNCHANGED jobs
        BY <1>2, Zenon DEF Port!Written
    <2>3. \/ Port!End("done") /\ n = Len(rest)
          \/ Port!End("unknown")
          \/ rest' = SubSeq(rest, n + 1, Len(rest)) /\ jobs' = jobs
        BY <2>2 DEF Port!Resolve
    <2> QED BY <2>1, <2>2, <2>3, WriteKeepsJobs
<1>3. CASE Port!Failed
    <2>1. Port!Writing /\ Port!End("unknown")
        BY <1>3 DEF Port!Failed
    <2>2. PICK n \in 0..Len(rest) : Port!Take(n)
        BY <1>3 DEF Port!Failed
    <2> QED BY <2>1, <2>2, WriteKeepsJobs
<1>4. CASE UNCHANGED Port!vars
    BY <1>4 DEF Port!vars, PortInv, Port!Writing, Port!Current
<1> QED BY <1>1, <1>2, <1>3, <1>4 DEF Port!Next

LEMMA PortInvTells == ASSUME PortInv PROVE Port!TypeOK /\ Port!TakenOnce
<1>1. /\ jobs \in Seq(Jobs) /\ took \in Seq(Seq(Octets)) /\ Len(took) = Len(jobs)
      /\ DOMAIN jobs = 1..Len(jobs) /\ (rest # <<>> => Port!Writing)
    BY DEF PortInv
<1>2. Port!TypeOK
    <2>1. ASSUME NEW k \in 1..Len(jobs)
          PROVE  jobs[k].state \in {"writing", "done", "unknown"} /\ jobs[k].bytes \in Seq(Octets)
        <3>1. jobs[k] \in Jobs
            BY <1>1
        <3> QED BY <3>1 DEF Jobs
    <2> QED BY <1>1, <2>1 DEF Port!TypeOK, Octets
<1>3. ASSUME NEW k \in 1..Len(jobs)
      PROVE  /\ Port!IsPrefix(took[k], jobs[k].bytes)
             /\ jobs[k].state = "done" => took[k] = jobs[k].bytes
    <2>1. PICK left \in Seq(Octets) : took[k] \o left = jobs[k].bytes
        BY DEF PortInv
    <2> DEFINE a == took[k]
               b == jobs[k].bytes
    <2>2. a \in Seq(Octets) /\ left \in Seq(Octets) /\ b = a \o left
        BY <1>1, <2>1
    <2> HIDE DEF a, b
    <2>3. Len(a) <= Len(b) /\ \A i \in 1..Len(a) : b[i] = a[i]
        BY <2>2
    <2>4. b \in Seq(Octets)
        BY <2>2
    <2>5. /\ SubSeq(a, 1, Len(a)) \in Seq(Octets) /\ Len(SubSeq(a, 1, Len(a))) = Len(a)
          /\ SubSeq(b, 1, Len(a)) \in Seq(Octets) /\ Len(SubSeq(b, 1, Len(a))) = Len(a)
          /\ \A i \in 1..Len(a) : SubSeq(a, 1, Len(a))[i] = a[i] /\ SubSeq(b, 1, Len(a))[i] = b[i]
        BY <2>2, <2>3, <2>4
    <2>6. SubSeq(a, 1, Len(a)) = SubSeq(b, 1, Len(a))
        BY <2>3, <2>5, SeqEqual
    <2>7. Port!IsPrefix(a, b)
        BY <2>3, <2>6, Zenon DEF Port!IsPrefix
    <2> QED BY <2>7 DEF PortInv, a, b
<1> QED BY <1>1, <1>2, <1>3 DEF Port!TakenOnce

\* The device takes each job's bytes in their order, none twice and none
\* skipped, and a job called done reached it whole (wire::resolve): for any
\* operations, models and wires, and however often writes are cut short or
\* fail.
THEOREM JobIsTakenOnce ==
    ASSUME Port!WriteAssumption PROVE Port!Spec => [](Port!TypeOK /\ Port!TakenOnce)
<1>1. Port!Init => PortInv
    BY DEF Port!Init, PortInv
<1>2. PortInv /\ [Port!Next]_Port!vars => PortInv'
    BY PortSteps
<1>3. PortInv => Port!TypeOK /\ Port!TakenOnce
    BY PortInvTells
<1> QED BY <1>1, <1>2, <1>3, PTL DEF Port!Spec

----------------------------------------------------------------------------
(* The bus (MdbBus).                                                        *)

(* What a sum of bytes is.                                                 *)

\* A set of places that is not empty has a greatest one, and that is its Max.
LEMMA GreatestOf ==
    ASSUME NEW n \in Nat, NEW S \in SUBSET (1..n), S # {}
    PROVE  /\ Max(S) \in S
           /\ \A u \in S : u <= Max(S)
<1> DEFINE D == {v \in 0..n : n - v \in S}
<1>1. D \in SUBSET Nat /\ D # {}
    <2>1. PICK u \in S : u \in 1..n
        OBVIOUS
    <2>2. n - u \in 0..n /\ n - (n - u) = u
        BY <2>1
    <2>3. n - u \in D
        BY <2>1, <2>2
    <2>4. D \in SUBSET Nat
        OBVIOUS
    <2> HIDE DEF D
    <2> QED BY <2>3, <2>4
<1>2. Min(D) \in D /\ \A v \in D : Min(D) <= v
    <2> HIDE DEF D
    <2> QED BY <1>1, LeastOf, Zenon
<1>3. PICK t \in S : Min(D) = n - t
    <2>1. Min(D) \in 0..n /\ n - Min(D) \in S
        BY <1>2
    <2>2. Min(D) = n - (n - Min(D))
        BY <2>1
    <2> QED BY <2>1, <2>2
<1>4. \A u \in S : t >= u
    <2>1. TAKE u \in S
    <2>2. n - u \in D
        <3>1. u \in 1..n /\ u \in S
            BY <2>1
        <3>2. n - u \in 0..n /\ n - (n - u) = u
            BY <3>1
        <3> QED BY <3>1, <3>2
    <2>3. n - t <= n - u /\ t \in Int /\ u \in Int
        BY <1>2, <1>3, <2>2
    <2> QED BY <2>3
<1>5. Max(S) \in S /\ \A u \in S : Max(S) >= u
    BY <1>4, Zenon DEF Max
<1> QED BY <1>5

\* One byte added.
LEMMA SumIsOctet ==
    /\ \A x, y \in Octets : (x + y) % 256 \in Octets
    /\ \A x, y, z \in Octets : y # z => (x + y) % 256 # (x + z) % 256 /\ (y + x) % 256 # (z + x) % 256
<1>1. \A u \in 0..510 : u % 256 \in Octets /\ (u % 256 = u \/ u % 256 = u - 256)
    BY DEF Octets
<1>2. \A x, y \in Octets : y + x \in 0..510 /\ y + x = x + y
    BY DEF Octets
<1>3. \A x, y \in Octets : (x + y) % 256 \in Octets
    <2> TAKE x, y \in Octets
    <2>1. x + y \in 0..510
        BY <1>2, Zenon
    <2> QED BY <1>1, <2>1, Zenon
<1>4. ASSUME NEW u \in 0..510, NEW v \in 0..510, u % 256 = v % 256
      PROVE  u = v \/ u = v + 256 \/ v = u + 256
    <2>1. u % 256 = u \/ u % 256 = u - 256
        BY <1>1
    <2>2. v % 256 = v \/ v % 256 = v - 256
        BY <1>1
    <2> DEFINE m == u % 256
               k == v % 256
    <2>3. m = k /\ (m = u \/ m = u - 256) /\ (k = v \/ k = v - 256)
        BY <1>4, <2>1, <2>2
    <2> HIDE DEF m, k
    <2> QED BY <2>3
<1>5. ASSUME NEW x \in Octets, NEW y \in Octets, NEW z \in Octets, y # z
      PROVE  (x + y) % 256 # (x + z) % 256 /\ (y + x) % 256 # (z + x) % 256
    <2>1. /\ x + y \in 0..510 /\ x + z \in 0..510 /\ y + x \in 0..510 /\ z + x \in 0..510
        BY DEF Octets
    <2>2. /\ x + y # x + z /\ x + y # x + z + 256 /\ x + z # x + y + 256
          /\ y + x # z + x /\ y + x # z + x + 256 /\ z + x # y + x + 256
        BY <1>5 DEF Octets
    <2>3. (x + y) % 256 # (x + z) % 256
        BY <2>1, <2>2, <1>4
    <2>4. (y + x) % 256 # (z + x) % 256
        BY <2>1, <2>2, <1>4
    <2> QED BY <2>3, <2>4
<1> QED BY <1>3, <1>5, Zenon

\* Checksum folds over the places of a sequence, the greatest first.
Folds(s, n, f) ==
    f = [S \in SUBSET (1..n) |->
            IF S = {} THEN 0 ELSE (f[S \ {Max(S)}] + s[Max(S)]) % 256]

LEMMA FoldsExist ==
    ASSUME NEW s \in Seq(Octets), NEW n \in 0..Len(s)
    PROVE  \E f : Folds(s, n, f)
<1> DEFINE Bad == {m \in 0..Len(s) : ~ \E f : Folds(s, m, f)}
<1>0. Bad \in SUBSET Nat
    OBVIOUS
<1>1. ASSUME Bad # {} PROVE FALSE
    <2>1. PICK m \in Bad : \A u \in Bad : m <= u
        BY <1>0, <1>1, LeastOf, Zenon
    <2>2. m \in 0..Len(s) /\ m \in Nat /\ ~ \E f : Folds(s, m, f)
        BY <2>1
    <2>3. CASE m = 0
        <3> DEFINE g == [S \in SUBSET (1..0) |-> 0]
        <3>1. SUBSET (1..0) = {{}}
            OBVIOUS
        <3>2. \A S \in SUBSET (1..0) : 0 = IF S = {} THEN 0 ELSE (g[S \ {Max(S)}] + s[Max(S)]) % 256
            BY <3>1
        <3>3. Folds(s, 0, g)
            BY <3>2, Zenon DEF Folds
        <3> QED BY <3>3, <2>2, <2>3
    <2>4. CASE m > 0
        <3>1. m - 1 \notin Bad /\ m - 1 \in 0..Len(s)
            BY <2>1, <2>2, <2>4
        <3>2. PICK f : Folds(s, m - 1, f)
            BY <3>1
        <3> DEFINE g == [S \in SUBSET (1..m) |->
                            IF m \in S THEN (f[S \ {m}] + s[m]) % 256 ELSE f[S]]
        <3>3. ASSUME NEW S \in SUBSET (1..m)
              PROVE  g[S] = IF S = {} THEN 0 ELSE (g[S \ {Max(S)}] + s[Max(S)]) % 256
            <4>1. CASE S = {}
                <5>1. {} \in SUBSET (1..m - 1)
                    OBVIOUS
                <5>2. f[{}] = 0
                    BY <3>2, <5>1, Zenon DEF Folds
                <5> QED BY <4>1, <5>2
            <4>2. CASE S # {} /\ m \in S
                <5>1. Max(S) \in S /\ \A u \in S : u <= Max(S)
                    BY <2>2, <4>2, GreatestOf
                <5>2. Max(S) = m
                    <6>1. m <= Max(S) /\ Max(S) \in 1..m
                        BY <4>2, <5>1
                    <6> QED BY <6>1, <2>2
                <5>3. S \ {m} \in SUBSET (1..m) /\ m \notin S \ {m}
                    OBVIOUS
                <5>4. g[S \ {m}] = f[S \ {m}]
                    BY <5>3, Zenon
                <5> QED BY <4>2, <5>2, <5>4, Zenon
            <4>3. CASE S # {} /\ m \notin S
                <5>1. Max(S) \in S
                    BY <2>2, <4>3, GreatestOf
                <5>2. S \in SUBSET (1..m - 1)
                    BY <2>2, <4>3
                <5>3. f[S] = (f[S \ {Max(S)}] + s[Max(S)]) % 256
                    BY <3>2, <4>3, <5>2, Zenon DEF Folds
                <5>4. g[S \ {Max(S)}] = f[S \ {Max(S)}]
                    <6>1. S \ {Max(S)} \in SUBSET (1..m) /\ m \notin S \ {Max(S)}
                        BY <4>3
                    <6> QED BY <6>1, Zenon
                <5> QED BY <4>3, <5>3, <5>4, Zenon
            <4> QED BY <4>1, <4>2, <4>3
        <3>4. Folds(s, m, g)
            <4> DEFINE h == [S \in SUBSET (1..m) |->
                        IF S = {} THEN 0 ELSE (g[S \ {Max(S)}] + s[Max(S)]) % 256]
            <4>1. \A S \in SUBSET (1..m) : g[S] = h[S]
                BY <3>3
            <4>2. g = [S \in SUBSET (1..m) |-> g[S]]
                OBVIOUS
            <4> HIDE DEF g
            <4>3. g = h
                BY <4>1, <4>2
            <4> QED BY <4>3, Zenon DEF Folds
        <3> QED BY <3>4, <2>2
    <2> QED BY <2>2, <2>3, <2>4
<1> QED BY <1>1

\* A sum runs from place to place.
Runs(s, P) ==
    /\ P \in [0..Len(s) -> Octets]
    /\ P[0] = 0
    /\ \A n \in 1..Len(s) : P[n] = (P[n - 1] + s[n]) % 256

LEMMA ChecksumRuns ==
    ASSUME NEW s \in Seq(Octets)
    PROVE  \E P : Runs(s, P) /\ Checksum(s) = P[Len(s)]
<1>0. Len(s) \in Nat /\ DOMAIN s = 1..Len(s) /\ Len(s) \in 0..Len(s)
    OBVIOUS
<1> DEFINE f == CHOOSE g : g = [S \in SUBSET (DOMAIN s) |->
            IF S = {} THEN 0 ELSE (g[S \ {Max(S)}] + s[Max(S)]) % 256]
<1>1. \E g : Folds(s, Len(s), g)
    BY <1>0, FoldsExist
<1>2. Folds(s, Len(s), f)
    <2>1. \E g : g = [S \in SUBSET (DOMAIN s) |->
            IF S = {} THEN 0 ELSE (g[S \ {Max(S)}] + s[Max(S)]) % 256]
        <3>1. PICK g : Folds(s, Len(s), g)
            BY <1>1
        <3>2. g = [S \in SUBSET (DOMAIN s) |->
                     IF S = {} THEN 0 ELSE (g[S \ {Max(S)}] + s[Max(S)]) % 256]
            <4>1. DOMAIN s = 1..Len(s)
                BY <1>0
            <4> QED BY <3>1, <4>1, Zenon DEF Folds
        <3> QED BY <3>2, Zenon
    <2>2. f = [S \in SUBSET (DOMAIN s) |->
            IF S = {} THEN 0 ELSE (f[S \ {Max(S)}] + s[Max(S)]) % 256]
        BY <2>1, Zenon
    <2> QED BY <1>0, <2>2, Zenon DEF Folds
<1>3. Checksum(s) = f[1..Len(s)]
    BY <1>0 DEF Checksum, FoldLeft, MapThenFoldSet
<1> HIDE DEF f
<1> DEFINE P == [n \in 0..Len(s) |-> f[1..n]]
<1>4. P[0] = 0
    <2>1. {} \in SUBSET (1..Len(s)) /\ 1..0 = {}
        OBVIOUS
    <2>2. f[{}] = 0
        BY <1>2, <2>1, Zenon DEF Folds
    <2> QED BY <1>0, <2>1, <2>2
<1>5. ASSUME NEW n \in 1..Len(s) PROVE P[n] = (P[n - 1] + s[n]) % 256
    <2>1. 1..n \in SUBSET (1..Len(s)) /\ 1..n # {} /\ n \in Nat /\ n \in 1..n
        OBVIOUS
    <2>2. Max(1..n) \in 1..n /\ \A u \in 1..n : u <= Max(1..n)
        BY <2>1, GreatestOf
    <2>3. Max(1..n) = n
        BY <2>1, <2>2
    <2>4. (1..n) \ {n} = 1..n - 1
        BY <2>1
    <2>5. f[1..n] = (f[(1..n) \ {Max(1..n)}] + s[Max(1..n)]) % 256
        BY <1>2, <2>1, Zenon DEF Folds
    <2>6. f[1..n] = (f[1..n - 1] + s[n]) % 256
        BY <2>3, <2>4, <2>5, Zenon
    <2> QED BY <2>6
<1>6. P \in [0..Len(s) -> Octets]
    <2> DEFINE Bad == {n \in 0..Len(s) : P[n] \notin Octets}
    <2>0. Bad \in SUBSET Nat
        OBVIOUS
    <2> HIDE DEF P
    <2>1. ASSUME Bad # {} PROVE FALSE
        <3>1. PICK m \in Bad : \A u \in Bad : m <= u
            BY <2>0, <2>1, LeastOf, Zenon
        <3>2. m \in 0..Len(s) /\ P[m] \notin Octets
            BY <3>1
        <3>3. m # 0
            <4>1. 0 \in Octets
                BY DEF Octets
            <4> QED BY <1>4, <3>2, <4>1
        <3>4. m \in 1..Len(s) /\ m - 1 \in 0..Len(s) /\ m - 1 \notin Bad
            BY <3>1, <3>2, <3>3
        <3>5. P[m - 1] \in Octets /\ s[m] \in Octets
            BY <3>4
        <3>6. P[m] = (P[m - 1] + s[m]) % 256
            BY <3>4, <1>5
        <3>7. (P[m - 1] + s[m]) % 256 \in Octets
            BY <3>5, SumIsOctet
        <3> QED BY <3>2, <3>6, <3>7
    <2>2. \A n \in 0..Len(s) : P[n] \in Octets
        BY <2>1
    <2> QED BY <2>2 DEF P
<1>7. Runs(s, P)
    BY <1>4, <1>5, <1>6, Zenon DEF Runs
<1>8. Checksum(s) = P[Len(s)]
    BY <1>0, <1>3
<1> QED BY <1>7, <1>8

LEMMA ChecksumIs == ASSUME NEW s \in Seq(Octets) PROVE Checksum(s) \in Octets
<1>1. PICK P : Runs(s, P) /\ Checksum(s) = P[Len(s)]
    BY ChecksumRuns
<1>2. Len(s) \in 0..Len(s)
    OBVIOUS
<1> QED BY <1>1, <1>2 DEF Runs

\* Two sequences that differ in one place have two sums.
LEMMA SumTells ==
    ASSUME NEW s \in Seq(Octets), NEW t \in Seq(Octets), Len(s) = Len(t),
           NEW k \in 1..Len(s), s[k] # t[k],
           \A i \in 1..Len(s) : i # k => s[i] = t[i]
    PROVE  Checksum(s) # Checksum(t)
<1>1. PICK P : Runs(s, P) /\ Checksum(s) = P[Len(s)]
    BY ChecksumRuns
<1>2. PICK Q : Runs(t, Q) /\ Checksum(t) = Q[Len(t)]
    BY ChecksumRuns
<1>3. \A n \in 0..Len(s) : P[n] \in Octets /\ Q[n] \in Octets
    BY <1>1, <1>2 DEF Runs
<1>4. \A n \in 1..Len(s) : P[n] = (P[n - 1] + s[n]) % 256 /\ Q[n] = (Q[n - 1] + t[n]) % 256
    BY <1>1, <1>2 DEF Runs
<1>5. \A n \in 1..Len(s) : s[n] \in Octets /\ t[n] \in Octets
    OBVIOUS
<1> DEFINE Bad == {n \in 0..Len(s) : (P[n] = Q[n]) # (n < k)}
<1>6. Bad \in SUBSET Nat
    OBVIOUS
<1>7. ASSUME Bad # {} PROVE FALSE
    <2>1. PICK m \in Bad : \A u \in Bad : m <= u
        BY <1>6, <1>7, LeastOf, Zenon
    <2>2. m \in 0..Len(s) /\ (P[m] = Q[m]) # (m < k)
        BY <2>1
    <2>3. m # 0
        BY <1>1, <1>2, <2>2 DEF Runs
    <2>4. m \in 1..Len(s) /\ m - 1 \in 0..Len(s) /\ (P[m - 1] = Q[m - 1]) <=> (m - 1 < k)
        BY <2>1, <2>2, <2>3
    <2> DEFINE p == P[m - 1]
               q == Q[m - 1]
               a == s[m]
               b == t[m]
    <2>5. p \in Octets /\ q \in Octets /\ a \in Octets /\ b \in Octets
        BY <1>3, <1>5, <2>4
    <2>6. P[m] = (p + a) % 256 /\ Q[m] = (q + b) % 256
        BY <1>4, <2>4
    <2>7. (p = q) <=> (m - 1 < k)
        BY <2>1, <2>2, <2>3
    <2>8. m # k => a = b
        BY <2>4
    <2>9. m = k => a # b
        OBVIOUS
    <2> HIDE DEF p, q, a, b
    <2>10. CASE m < k
        BY <2>2, <2>6, <2>7, <2>8, <2>10
    <2>11. CASE m = k
        <3>1. p = q /\ a # b
            BY <2>7, <2>9, <2>11
        <3>2. (p + a) % 256 # (q + b) % 256
            BY <3>1, <2>5, SumIsOctet
        <3> QED BY <3>2, <2>2, <2>6, <2>11
    <2>12. CASE m > k
        <3>1. p # q /\ a = b
            BY <2>2, <2>7, <2>8, <2>12
        <3>2. (p + a) % 256 # (q + b) % 256
            BY <3>1, <2>5, SumIsOctet
        <3> QED BY <3>2, <2>2, <2>6, <2>12
    <2> QED BY <2>2, <2>10, <2>11, <2>12
<1>8. Len(s) \in 0..Len(s) /\ ~ (Len(s) < k)
    OBVIOUS
<1>9. P[Len(s)] # Q[Len(s)]
    BY <1>7, <1>8
<1> QED BY <1>1, <1>2, <1>9

(* What goes over the bus.                                                 *)
Words == [byte : Octets, mode : BOOLEAN]

\* Words whose last one is the sum of the others.
Sound(words) == words \in Seq(Words) /\ Len(words) >= 2 /\ Good(words)

LEMMA FrontIs ==
    ASSUME NEW words \in Seq(Words), Len(words) >= 2
    PROVE  /\ Len(words) - 1 \in Nat
           /\ BytesOf(Front(words)) = [k \in 1..Len(words) - 1 |-> words[k].byte]
           /\ BytesOf(Front(words)) \in Seq(Octets)
           /\ Len(BytesOf(Front(words))) = Len(words) - 1
<1>1. Front(words) = [k \in 1..Len(words) - 1 |-> words[k]]
    <2>1. Front(words) = SubSeq(words, 1, Len(words) - 1)
        BY DEF Front
    <2> DEFINE n == Len(words) - 1
    <2>2. n \in Nat /\ n <= Len(words)
        OBVIOUS
    <2> HIDE DEF n
    <2>3. SubSeq(words, 1, n) = [k \in 1..n |-> words[k]]
        <3>1. 1 + n - 1 = n
            BY <2>2
        <3> QED BY <2>2, <3>1
    <2> QED BY <2>1, <2>3 DEF n
<1>2. \A k \in 1..Len(words) - 1 : words[k].byte \in Octets
    <2> TAKE k \in 1..Len(words) - 1
    <2>1. words[k] \in Words
        OBVIOUS
    <2> QED BY <2>1 DEF Words
<1>3. Len(words) - 1 \in Nat
    OBVIOUS
<1>4. BytesOf(Front(words)) = [k \in 1..Len(words) - 1 |-> words[k].byte]
    BY <1>1 DEF BytesOf
<1>5. BytesOf(Front(words)) \in [1..Len(words) - 1 -> Octets]
    BY <1>2, <1>4
<1> QED BY <1>3, <1>4, <1>5

\* A byte that is off by less than 256 is another byte.
LEMMA FlipIs == \A b \in Octets, d \in 1..255 : (b + d) % 256 \in Octets /\ (b + d) % 256 # b
<1> TAKE b \in Octets, d \in 1..255
<1>1. d \in Octets /\ 0 \in Octets /\ d # 0
    BY DEF Octets
<1>2. (b + d) % 256 \in Octets /\ (b + d) % 256 # (b + 0) % 256
    BY <1>1, SumIsOctet
<1>3. (b + 0) % 256 = b
    <2>1. b + 0 = b /\ b % 256 = b
        BY DEF Octets
    <2> QED BY <2>1
<1> QED BY <1>2, <1>3

\* One spoilt byte spoils the sum, and changes nothing else.
LEMMA SpoiltFrame ==
    ASSUME BusAssumption, NEW words, Sound(words), NEW came \in Spoilt(words)
    PROVE  /\ came \in Seq(Words) /\ Len(came) = Len(words) /\ came # words
           /\ \A k \in 1..Len(words) : came[k].mode = words[k].mode
           /\ ~ Good(came)
<1> USE DEF Sound
<1>1. PICK k \in DOMAIN words, d \in Flips : came = [words EXCEPT ![k].byte = (@ + d) % 256]
    BY DEF Spoilt
<1>2. k \in 1..Len(words) /\ d \in 1..255 /\ words \in [1..Len(words) -> Words] /\ Len(words) \in Nat
    BY <1>1 DEF BusAssumption
<1>3. words[k] \in Words /\ words[k].byte \in Octets
    BY <1>2 DEF Words
<1>4. (words[k].byte + d) % 256 \in Octets /\ (words[k].byte + d) % 256 # words[k].byte
    BY <1>2, <1>3, FlipIs
<1> DEFINE flipped == [words[k] EXCEPT !.byte = (words[k].byte + d) % 256]
<1>5. flipped \in Words /\ flipped.byte # words[k].byte /\ flipped.mode = words[k].mode
    BY <1>3, <1>4 DEF Words
<1>6. came = [words EXCEPT ![k] = flipped]
    BY <1>1
<1> HIDE DEF flipped
<1>7. /\ came \in [1..Len(words) -> Words]
      /\ came[k] = flipped
      /\ \A i \in 1..Len(words) : i # k => came[i] = words[i]
    BY <1>2, <1>5, <1>6
<1>8. came \in Seq(Words) /\ Len(came) = Len(words)
    BY <1>2, <1>7
<1>9. came[k].byte # words[k].byte
    BY <1>5, <1>7
<1>10. ~ Good(came)
    <2> DEFINE s == BytesOf(Front(words))
               t == BytesOf(Front(came))
    <2>1. /\ s = [i \in 1..Len(words) - 1 |-> words[i].byte]
          /\ s \in Seq(Octets) /\ Len(s) = Len(words) - 1
        BY FrontIs
    <2>2. /\ t = [i \in 1..Len(words) - 1 |-> came[i].byte]
          /\ t \in Seq(Octets) /\ Len(t) = Len(words) - 1
        BY <1>8, FrontIs
    <2>3. Last(words) = words[Len(words)] /\ Last(came) = came[Len(words)]
        BY <1>8 DEF Last
    <2>4. Checksum(s) = words[Len(words)].byte
        BY <2>3 DEF Good
    <2>5. CASE k = Len(words)
        <3>1. \A i \in 1..Len(words) - 1 : came[i] = words[i]
            BY <1>2, <1>7, <2>5
        <3>2. s = t
            BY <3>1, <2>1, <2>2
        <3> QED BY <3>2, <2>3, <2>4, <1>9, <2>5 DEF Good
    <2>6. CASE k # Len(words)
        <3>1. k \in 1..Len(s) /\ Len(words) # k /\ Len(words) \in 1..Len(words)
            BY <1>2, <2>1, <2>6
        <3>2. s[k] # t[k]
            BY <3>1, <2>1, <2>2, <1>9
        <3>3. \A i \in 1..Len(s) : i # k => s[i] = t[i]
            BY <2>1, <2>2, <1>7
        <3> HIDE DEF s, t
        <3>4. Checksum(s) # Checksum(t)
            <4>1. s \in Seq(Octets) /\ t \in Seq(Octets) /\ Len(s) = Len(t)
                BY <2>1, <2>2
            <4> QED BY <4>1, <3>1, <3>2, <3>3, SumTells, Zenon
        <3>5. came[Len(words)] = words[Len(words)]
            BY <3>1, <1>7
        <3> QED BY <3>4, <3>5, <2>3, <2>4 DEF Good, t
    <2> QED BY <2>5, <2>6
<1>11. \A i \in 1..Len(words) : came[i].mode = words[i].mode
    <2> TAKE i \in 1..Len(words)
    <2> QED BY <1>5, <1>7
<1> QED BY <1>8, <1>9, <1>10, <1>11

\* What a command is on the bus.
LEMMA RowsAre == \A x \in DOMAIN Base : DOMAIN Commands[x] \subseteq 1..8
<1> TAKE x \in DOMAIN Base
<1>1. x \in {"coinChanger", "cashless1", "commsGateway", "billValidator", "cashless2"}
    BY DEF Base
<1>2. CASE x = "coinChanger"
    BY <1>2 DEF Commands
<1>3. CASE x = "billValidator"
    BY <1>3 DEF Commands
<1>4. CASE x \in {"cashless1", "cashless2"}
    <2>1. DOMAIN CashlessCommands = 1..8
        BY DEF CashlessCommands
    <2>2. Commands["cashless1"] = CashlessCommands /\ Commands["cashless2"] = CashlessCommands
        BY DEF Commands
    <2> QED BY <1>4, <2>1, <2>2
<1>5. CASE x = "commsGateway"
    BY <1>5 DEF Commands
<1> QED BY <1>1, <1>2, <1>3, <1>4, <1>5

LEMMA TableIs ==
    /\ \A x \in DOMAIN Base : \A command : Low(x, command) \subseteq 0..7
    /\ \A x \in DOMAIN Base : \A b \in 0..7 :
          /\ Base[x] + b \in Octets
          /\ (Base[x] + b) % 8 = b
          /\ \A y \in DOMAIN Base : Base[y] = 8 * ((Base[x] + b) \div 8) => y = x
<1>1. DOMAIN Base = {"coinChanger", "cashless1", "commsGateway", "billValidator", "cashless2"}
    BY DEF Base
<1>2. /\ Base["coinChanger"] = 8 /\ Base["cashless1"] = 16 /\ Base["commsGateway"] = 24
      /\ Base["billValidator"] = 48 /\ Base["cashless2"] = 96
    BY DEF Base
<1>3. \A x \in DOMAIN Base : \A command : Low(x, command) \subseteq 0..7
    <2>1. SUFFICES ASSUME NEW x \in DOMAIN Base, NEW command, NEW n \in Low(x, command)
                   PROVE  n \in 0..7
        OBVIOUS
    <2>2. PICK k \in DOMAIN Commands[x] : n = k - 1
        BY <2>1 DEF Low
    <2>3. DOMAIN Commands[x] \subseteq 1..8
        BY RowsAre
    <2> QED BY <2>2, <2>3
<1>4. ASSUME NEW x \in DOMAIN Base, NEW b \in 0..7
      PROVE  /\ Base[x] + b \in Octets
             /\ (Base[x] + b) % 8 = b
             /\ 8 * ((Base[x] + b) \div 8) = Base[x]
    <2>1. Base[x] \in {8, 16, 24, 48, 96}
        BY <1>1, <1>2
    <2> DEFINE n == Base[x]
    <2>2. n \in {8, 16, 24, 48, 96}
        BY <2>1
    <2> HIDE DEF n
    <2>3. n + b \in Octets /\ (n + b) % 8 = b /\ 8 * ((n + b) \div 8) = n
        BY <2>2 DEF Octets
    <2> QED BY <2>3 DEF n
<1>5. \A x, y \in DOMAIN Base : Base[x] = Base[y] => x = y
    BY <1>1, <1>2
<1> QED BY <1>3, <1>4, <1>5, Zenon

LEMMA FrameIs ==
    ASSUME BusAssumption, NEW a \in Asks, Encode(a) # <<>>
    PROVE  /\ Sound(Encode(a))
           /\ Tail(BytesOf(Front(Encode(a)))) = a.data
           /\ \E low \in Low(a.address, a.command) : Encode(a)[1].byte = Base[a.address] + low
<1>1. /\ Low(a.address, a.command) # {}
      /\ Encode(a) = EncodeRaw(Base[a.address] + Min(Low(a.address, a.command)), a.data)
    BY DEF Encode
<1>2. a.address \in DOMAIN Base /\ a.data \in Seq(Octets)
    BY DEF BusAssumption, Octets
<1> DEFINE low == Min(Low(a.address, a.command))
           first == Base[a.address] + low
           bytes == <<first>> \o a.data
           e == Encode(a)
<1>3. low \in Low(a.address, a.command) /\ low \in 0..7
    <2>1. Low(a.address, a.command) \subseteq 0..7
        BY <1>2, TableIs
    <2>2. Low(a.address, a.command) \in SUBSET Nat
        BY <2>1
    <2> QED BY <1>1, <2>1, <2>2, LeastOf
<1>4. first \in Octets
    BY <1>2, <1>3, TableIs
<1>5. e = EncodeRaw(first, a.data)
    BY <1>1
<1> HIDE DEF low, e
<1>6. /\ bytes \in Seq(Octets) /\ Len(bytes) = Len(a.data) + 1 /\ Len(bytes) \in Nat
      /\ bytes[1] = first /\ Tail(bytes) = a.data
    BY <1>2, <1>4
<1>7. e = [k \in 1..Len(bytes) + 1 |->
        [byte |-> IF k > Len(bytes) THEN Checksum(bytes) ELSE bytes[k], mode |-> k = 1]]
    BY <1>5 DEF EncodeRaw
<1> HIDE DEF first, bytes
<1>8. Checksum(bytes) \in Octets
    BY <1>6, ChecksumIs
<1>9. \A k \in 1..Len(bytes) + 1 : e[k] \in Words
    <2> TAKE k \in 1..Len(bytes) + 1
    <2>1. e[k] = [byte |-> IF k > Len(bytes) THEN Checksum(bytes) ELSE bytes[k], mode |-> k = 1]
        BY <1>7
    <2>2. (IF k > Len(bytes) THEN Checksum(bytes) ELSE bytes[k]) \in Octets
        BY <1>6, <1>8
    <2> QED BY <2>1, <2>2 DEF Words
<1>10. e \in Seq(Words) /\ Len(e) = Len(bytes) + 1 /\ Len(e) >= 2
    <2>1. e \in [1..Len(bytes) + 1 -> Words]
        BY <1>7, <1>9
    <2>2. Len(bytes) + 1 \in Nat /\ Len(bytes) >= 1
        BY <1>6, <1>2
    <2> QED BY <2>1, <2>2
<1>11. \A k \in 1..Len(bytes) : e[k].byte = bytes[k]
    <2> TAKE k \in 1..Len(bytes)
    <2>1. k \in 1..Len(bytes) + 1 /\ ~ (k > Len(bytes))
        BY <1>6
    <2> QED BY <2>1, <1>7
<1>12. e[Len(bytes) + 1].byte = Checksum(bytes)
    <2>1. Len(bytes) + 1 \in 1..Len(bytes) + 1 /\ Len(bytes) + 1 > Len(bytes)
        BY <1>6
    <2> QED BY <2>1, <1>7
<1>13. BytesOf(Front(e)) = bytes
    <2>1. BytesOf(Front(e)) = [k \in 1..Len(e) - 1 |-> e[k].byte]
        BY <1>10, FrontIs
    <2>2. Len(e) - 1 = Len(bytes)
        BY <1>6, <1>10
    <2>3. bytes = [k \in 1..Len(bytes) |-> bytes[k]]
        BY <1>6
    <2> QED BY <2>1, <2>2, <2>3, <1>11
<1>14. Good(e)
    <2>1. Last(e) = e[Len(bytes) + 1]
        BY <1>10 DEF Last
    <2> QED BY <2>1, <1>12, <1>13 DEF Good
<1>15. e[1].byte = first
    BY <1>6, <1>11, <1>2
<1>16. Encode(a) = e /\ first = Base[a.address] + low
    BY DEF e, first
<1> QED BY <1>3, <1>6, <1>10, <1>13, <1>14, <1>15, <1>16 DEF Sound

\* A reply: its last word, and no other, has the mode bit.
Closes(words) ==
    /\ words \in Seq(Words) /\ Len(words) >= 1
    /\ \A k \in 1..Len(words) : words[k].mode <=> k = Len(words)

LEMMA ReplyIs ==
    ASSUME BusAssumption, NEW block \in Blocks
    PROVE  /\ Closes(Reply(block))
           /\ block = <<>> => Len(Reply(block)) = 1 /\ Reply(block)[1].byte = 0
           /\ block # <<>> => Sound(Reply(block)) /\ BytesOf(Front(Reply(block))) = block
<1>1. block \in Seq(Octets)
    BY DEF BusAssumption, Octets
<1>2. Checksum(block) \in Octets /\ Checksum(block) \in 0..255
    BY <1>1, ChecksumIs DEF Octets
<1> DEFINE w == Reply(block)
<1>3. CASE block = <<>>
    <2>1. w = <<[byte |-> 0, mode |-> TRUE]>>
        BY <1>3 DEF Reply
    <2>2. [byte |-> 0, mode |-> TRUE] \in Words
        BY DEF Words, Octets
    <2> HIDE DEF w
    <2>3. w \in Seq(Words) /\ Len(w) = 1 /\ w[1] = [byte |-> 0, mode |-> TRUE]
        BY <2>1, <2>2
    <2>4. Closes(w)
        <3>1. \A k \in 1..Len(w) : k = 1
            BY <2>3
        <3> QED BY <2>3, <3>1 DEF Closes
    <2>5. w[1].byte = 0
        BY <2>3
    <2> QED BY <2>3, <2>4, <2>5, <1>3 DEF w
<1>4. CASE block # <<>>
    <2> DEFINE f == [k \in DOMAIN block |-> [byte |-> block[k], mode |-> FALSE]]
               x == [byte |-> Checksum(block), mode |-> TRUE]
    <2>1. w = Append(f, x)
        BY <1>4 DEF Reply
    <2>2. f \in Seq(Words) /\ Len(f) = Len(block) /\ x \in Words
        <3>1. \A k \in 1..Len(block) : [byte |-> block[k], mode |-> FALSE] \in Words
            <4> TAKE k \in 1..Len(block)
            <4>1. block[k] \in Octets
                BY <1>1
            <4> QED BY <4>1 DEF Words
        <3>2. f \in [1..Len(block) -> Words] /\ Len(block) \in Nat
            BY <1>1, <3>1
        <3>3. x \in Words
            BY <1>2 DEF Words
        <3> QED BY <3>2, <3>3
    <2>3. \A k \in 1..Len(block) : f[k].byte = block[k] /\ f[k].mode = FALSE
        BY <1>1
    <2>4. x.byte = Checksum(block) /\ x.mode = TRUE
        OBVIOUS
    <2> HIDE DEF w, f, x
    <2>5. Len(block) \in Nat /\ Len(block) >= 1
        BY <1>1, <1>4
    <2>6. /\ w \in Seq(Words) /\ Len(w) = Len(block) + 1 /\ w[Len(block) + 1] = x
          /\ \A k \in 1..Len(block) : w[k] = f[k]
        BY <2>1, <2>2, <2>5
    <2>7. Closes(w)
        <3>1. ASSUME NEW k \in 1..Len(w) PROVE w[k].mode <=> k = Len(w)
            <4>1. CASE k = Len(w)
                BY <4>1, <2>4, <2>6
            <4>2. CASE k # Len(w)
                <5>1. k \in 1..Len(block)
                    BY <4>2, <2>5, <2>6
                <5> QED BY <4>2, <5>1, <2>3, <2>6
            <4> QED BY <4>1, <4>2
        <3> QED BY <3>1, <2>5, <2>6 DEF Closes
    <2>8. BytesOf(Front(w)) = block
        <3>1. BytesOf(Front(w)) = [k \in 1..Len(w) - 1 |-> w[k].byte]
            BY <2>5, <2>6, FrontIs
        <3>2. Len(w) - 1 = Len(block) /\ block = [k \in 1..Len(block) |-> block[k]]
            BY <1>1, <2>5, <2>6
        <3>3. \A k \in 1..Len(block) : w[k].byte = block[k]
            BY <2>3, <2>6
        <3> QED BY <3>1, <3>2, <3>3
    <2>9. Good(w)
        <3>1. Last(w) = x
            BY <2>5, <2>6 DEF Last
        <3> QED BY <3>1, <2>4, <2>8 DEF Good
    <2> QED BY <1>4, <2>5, <2>6, <2>7, <2>8, <2>9 DEF w, Sound
<1> QED BY <1>3, <1>4

LEMMA LongerIsNotOne == \A s \in Seq(Words) : Len(s) >= 2 => Len(s) # 1
<1>1. \A n \in Nat : n >= 2 => n # 1
    OBVIOUS
<1>2. \A s \in Seq(Words) : Len(s) \in Nat
    OBVIOUS
<1> QED BY <1>1, <1>2, Zenon

\* And as the bridge hands it over: an ACK is alone, and otherwise the sum
\* tells whether it is the reply.
LEMMA ReplyArrives ==
    ASSUME BusAssumption, NEW block \in Blocks, NEW came \in Arrivals(Reply(block))
    PROVE  /\ Closes(came)
           /\ Len(came) = 1 => block = <<>> /\ came = Reply(block) /\ came[1].byte = 0
           /\ Len(came) # 1 => IF came = Reply(block) THEN Good(came) /\ BytesOf(Front(came)) = block
                               ELSE ~ Good(came)
<1> DEFINE w == Reply(block)
<1>1. /\ Closes(w)
      /\ block = <<>> => Len(w) = 1 /\ w[1].byte = 0
      /\ block # <<>> => Sound(w) /\ BytesOf(Front(w)) = block
    BY ReplyIs
<1>2. came \in Arrivals(w)
    OBVIOUS
<1> HIDE DEF w
<1>3. CASE came = w
    <2>1. CASE block = <<>>
        <3>1. Len(came) = 1 /\ came[1].byte = 0 /\ Closes(came)
            BY <1>1, <1>3, <2>1
        <3> QED BY <1>3, <2>1, <3>1, Zenon DEF w
    <2>2. CASE block # <<>>
        <3>1. Closes(came) /\ Sound(came) /\ BytesOf(Front(came)) = block
            BY <1>1, <1>3, <2>2, Zenon
        <3>2. came \in Seq(Words) /\ Len(came) >= 2 /\ Good(came)
            BY <3>1, Zenon DEF Sound
        <3>3. Len(came) # 1
            BY <3>2, LongerIsNotOne, Zenon
        <3> QED BY <1>3, <3>1, <3>2, <3>3, Zenon DEF w
    <2> QED BY <2>1, <2>2, Zenon
<1>4. CASE came # w
    <2>1. came \in Spoilt(w) /\ Len(w) > 1
        <3>1. CASE Len(w) > 1
            BY <1>2, <1>4, <3>1, Zenon DEF Arrivals
        <3>2. CASE ~ (Len(w) > 1)
            BY <1>2, <1>4, <3>2, Zenon DEF Arrivals
        <3> QED BY <3>1, <3>2, Zenon
    <2>2. block # <<>>
        <3>1. ~ (1 > 1)
            OBVIOUS
        <3> QED BY <3>1, <1>1, <2>1, Zenon
    <2>3. /\ came \in Seq(Words) /\ Len(came) = Len(w)
          /\ \A k \in 1..Len(w) : came[k].mode = w[k].mode
          /\ ~ Good(came)
        BY <1>1, <2>1, <2>2, SpoiltFrame
    <2>4. Closes(came)
        BY <2>3, <1>1 DEF Closes
    <2>5. Len(came) # 1
        <3>1. Len(w) \in Nat
            <4>1. w \in Seq(Words)
                BY <1>1 DEF Closes
            <4> QED BY <4>1
        <3> QED BY <2>1, <2>3, <3>1
    <2> QED BY <1>4, <2>3, <2>4, <2>5 DEF w
<1> QED BY <1>3, <1>4

\* What a peripheral is moved by is what was asked of it.
LEMMA HeardAsAsked ==
    ASSUME BusAssumption, NEW a \in Asks, Encode(a) # <<>>,
           NEW words \in Arrivals(Encode(a)), NEW x \in Addressed(words)
    PROVE  /\ words = Encode(a)
           /\ Means(a, [address |-> x, low |-> words[1].byte % 8, data |-> Tail(BytesOf(Front(words)))])
<1> DEFINE e == Encode(a)
<1>1. /\ Sound(e) /\ Tail(BytesOf(Front(e))) = a.data
      /\ \E low \in Low(a.address, a.command) : e[1].byte = Base[a.address] + low
    BY FrameIs
<1>2. words \in Arrivals(e)
    OBVIOUS
<1> HIDE DEF e
<1>3. x \in DOMAIN Base /\ Good(words) /\ Base[x] = 8 * (words[1].byte \div 8)
    BY DEF Addressed, Good
<1>4. words = e
    <2>1. SUFFICES ASSUME words \in Spoilt(e) PROVE FALSE
        BY <1>2 DEF Arrivals
    <2> QED BY <1>1, <1>3, <2>1, SpoiltFrame
<1>5. PICK low \in Low(a.address, a.command) : e[1].byte = Base[a.address] + low
    BY <1>1
<1>6. a.address \in DOMAIN Base
    BY DEF BusAssumption
<1>7. low \in 0..7
    BY <1>5, <1>6, TableIs
<1>8. (Base[a.address] + low) % 8 = low
    BY <1>6, <1>7, TableIs
<1>9. x = a.address
    <2>1. Base[x] = 8 * ((Base[a.address] + low) \div 8)
        BY <1>3, <1>4, <1>5
    <2> QED BY <2>1, <1>3, <1>6, <1>7, TableIs
<1>10. Commands[a.address][low + 1] = a.command
    <2>1. PICK k \in DOMAIN Commands[a.address] : Commands[a.address][k] = a.command /\ low = k - 1
        BY <1>5 DEF Low
    <2>2. k \in 1..8
        <3>1. DOMAIN Commands[a.address] \subseteq 1..8
            BY <1>6, RowsAre
        <3> QED BY <3>1, <2>1
    <2>3. low + 1 = k
        BY <2>1, <2>2
    <2> QED BY <2>1, <2>3
<1> QED BY <1>1, <1>4, <1>5, <1>8, <1>9, <1>10 DEF Means, e

(* Replies lie in a stream one after the other, the (read + j)-th answer up *)
(* to place p[j].                                                           *)
Laid(w, a, read, came, p) ==
    LET m == Len(a) - read IN
    /\ came \in [1..m -> Seq(Words)]
    /\ \A j \in 1..m : came[j] \in Arrivals(Reply(a[read + j]))
    /\ p \in [0..m -> Nat] /\ p[0] = 0 /\ p[m] = Len(w)
    /\ \A j \in 1..m : /\ p[j] = p[j - 1] + Len(came[j])
                       /\ \A i \in 1..Len(came[j]) : w[p[j - 1] + i] = came[j][i]
    /\ \A i, j \in 0..m : i < j => p[i] < p[j]

\* What is read and missing was spoilt, and so may be what waits: c[j] of the
\* faults pay for all up to the (read + j)-th.
Charged(a, given, spent, read, came, c) ==
    LET m == Len(a) - read IN
    /\ c \in [0..m -> Nat] /\ read - given <= c[0] /\ c[m] <= spent
    /\ \A j \in 1..m : c[j - 1] + Noise(Reply(a[read + j]), came[j]) <= c[j]
    /\ \A i, j \in 0..m : i < j => c[i] <= c[j]

LEMMA NoiseIs == \A w, came : Noise(w, came) \in {0, 1} /\ (came # w => Noise(w, came) = 1)
BY Zenon DEF Noise

\* One more reply.
LEMMA LaidMore ==
    ASSUME BusAssumption,
           NEW w \in Seq(Words), NEW a \in Seq(Blocks), NEW read \in 0..Len(a),
           NEW came, NEW p, Laid(w, a, read, came, p),
           NEW block \in Blocks, NEW reply \in Arrivals(Reply(block)),
           NEW came2, came2 = [j \in 1..Len(a) + 1 - read |-> IF j = Len(a) + 1 - read THEN reply ELSE came[j]]
    PROVE  \E p2 : Laid(w \o reply, Append(a, block), read, came2, p2)
<1> DEFINE m == Len(a) - read
           v == w \o reply
           b == Append(a, block)
           p2 == [j \in 0..m + 1 |-> IF j = m + 1 THEN Len(v) ELSE p[j]]
<1>1. Closes(reply) /\ reply \in Seq(Words) /\ Len(reply) \in Nat /\ Len(reply) >= 1
    <2>1. Closes(reply)
        BY ReplyArrives
    <2>2. reply \in Seq(Words) /\ Len(reply) >= 1
        BY <2>1 DEF Closes
    <2> QED BY <2>1, <2>2
<1>2. /\ Len(a) \in Nat /\ m \in Nat /\ Len(a) + 1 - read = m + 1
      /\ Len(b) = Len(a) + 1 /\ Len(b) - read = m + 1
      /\ read \in Nat /\ read + (m + 1) = Len(a) + 1
    OBVIOUS
<1>3. /\ v \in Seq(Words) /\ Len(v) = Len(w) + Len(reply) /\ Len(w) \in Nat
      /\ \A i \in 1..Len(w) : v[i] = w[i]
      /\ \A i \in 1..Len(reply) : v[Len(w) + i] = reply[i]
    BY <1>1
<1>4. /\ came \in [1..m -> Seq(Words)]
      /\ \A j \in 1..m : came[j] \in Arrivals(Reply(a[read + j]))
      /\ p \in [0..m -> Nat] /\ p[0] = 0 /\ p[m] = Len(w)
      /\ \A j \in 1..m : /\ p[j] = p[j - 1] + Len(came[j])
                         /\ \A i \in 1..Len(came[j]) : w[p[j - 1] + i] = came[j][i]
      /\ \A i, j \in 0..m : i < j => p[i] < p[j]
    BY Zenon DEF Laid
<1>5. /\ \A j \in 1..m : b[read + j] = a[read + j]
      /\ b[read + (m + 1)] = block
    BY <1>2
<1>6. /\ came2 = [j \in 1..m + 1 |-> IF j = m + 1 THEN reply ELSE came[j]]
    BY <1>2
<1> HIDE DEF m, v, b
<1>7. /\ \A j \in 1..m : j \in 1..m + 1 /\ j # m + 1 /\ j - 1 \in 0..m /\ j \in 0..m
      /\ \A j \in 1..m + 1 : j = m + 1 \/ j \in 1..m
      /\ \A j \in 0..m : j \in 0..m + 1 /\ j # m + 1
      /\ \A j \in 0..m + 1 : j = m + 1 \/ j \in 0..m
      /\ m + 1 \in 1..m + 1 /\ m + 1 \in 0..m + 1 /\ (m + 1) - 1 = m
      /\ m \in 0..m /\ 0 \in 0..m
    BY <1>2
<1>8. /\ came2[m + 1] = reply /\ \A j \in 1..m : came2[j] = came[j]
      /\ p2[m + 1] = Len(v) /\ \A j \in 0..m : p2[j] = p[j]
    BY <1>6, <1>7
<1>9. came2 \in [1..m + 1 -> Seq(Words)]
    BY <1>1, <1>4, <1>6, <1>7
<1>10. \A j \in 1..m + 1 : came2[j] \in Arrivals(Reply(b[read + j]))
    <2> TAKE j \in 1..m + 1
    <2>1. CASE j = m + 1
        BY <2>1, <1>5, <1>8, Zenon
    <2>2. CASE j \in 1..m
        BY <2>2, <1>4, <1>5, <1>8, Zenon
    <2> QED BY <2>1, <2>2, <1>7, Zenon
<1>11. p2 \in [0..m + 1 -> Nat]
    <2>1. Len(v) \in Nat
        BY <1>3
    <2>2. \A j \in 0..m + 1 : (IF j = m + 1 THEN Len(v) ELSE p[j]) \in Nat
        BY <2>1, <1>4, <1>7
    <2> QED BY <2>2
<1>12. p2[0] = 0 /\ p2[m + 1] = Len(v)
    BY <1>4, <1>7, <1>8
<1> HIDE DEF p2
<1>13. ASSUME NEW j \in 1..m + 1
       PROVE  /\ p2[j] = p2[j - 1] + Len(came2[j])
              /\ \A i \in 1..Len(came2[j]) : v[p2[j - 1] + i] = came2[j][i]
    <2>1. CASE j = m + 1
        <3>1. p2[j] = Len(v) /\ p2[j - 1] = Len(w) /\ came2[j] = reply
            BY <2>1, <1>4, <1>7, <1>8
        <3> QED BY <3>1, <1>3
    <2>2. CASE j \in 1..m
        <3>1. p2[j] = p[j] /\ p2[j - 1] = p[j - 1] /\ came2[j] = came[j]
            BY <2>2, <1>7, <1>8
        <3>2. /\ p[j] = p[j - 1] + Len(came[j])
              /\ \A i \in 1..Len(came[j]) : w[p[j - 1] + i] = came[j][i]
            BY <2>2, <1>4
        <3>3. p[j] <= Len(w) /\ p[j] \in Nat /\ p[j - 1] \in Nat
            <4>1. p[j] \in Nat /\ p[j - 1] \in Nat
                BY <2>2, <1>4, <1>7
            <4>2. CASE j = m
                BY <4>1, <4>2, <1>4
            <4>3. CASE j # m
                <5>1. j < m
                    BY <4>3, <2>2, <1>2
                <5>2. p[j] < p[m]
                    BY <5>1, <2>2, <1>4, <1>7
                <5> QED BY <5>2, <4>1, <1>3, <1>4
            <4> QED BY <4>1, <4>2, <4>3
        <3>4. ASSUME NEW i \in 1..Len(came[j]) PROVE v[p[j - 1] + i] = w[p[j - 1] + i]
            <4>1. came[j] \in Seq(Words)
                BY <2>2, <1>4
            <4>2. Len(came[j]) \in Nat
                BY <4>1
            <4>3. p[j - 1] + i \in 1..Len(w)
                <5> DEFINE x == p[j - 1]
                           y == p[j]
                           n == Len(came[j])
                <5>1. y = x + n /\ y <= Len(w) /\ x \in Nat /\ n \in Nat /\ i \in 1..n
                    BY <3>2, <3>3, <4>2, Zenon
                <5> HIDE DEF x, y, n
                <5>2. x + i \in 1..Len(w)
                    BY <5>1, <1>3
                <5> QED BY <5>2, Zenon DEF x
            <4> QED BY <4>3, <1>3, Zenon
        <3> QED BY <3>1, <3>2, <3>4
    <2> QED BY <2>1, <2>2, <1>7
<1>14. ASSUME NEW i \in 0..m + 1, NEW j \in 0..m + 1, i < j PROVE p2[i] < p2[j]
    <2>1. i \in 0..m
        BY <1>14, <1>2
    <2>2. CASE j \in 0..m
        BY <2>1, <2>2, <1>14, <1>4, <1>8
    <2>3. CASE j = m + 1
        <3>1. p[i] <= p[m] /\ p[i] \in Nat
            <4>1. i = m \/ i < m
                BY <2>1, <1>2
            <4>2. p[i] \in Nat /\ p[m] \in Nat
                BY <2>1, <1>4, <1>7
            <4>3. i < m => p[i] < p[m]
                BY <2>1, <1>4, <1>7
            <4> QED BY <4>1, <4>2, <4>3
        <3>2. p2[i] = p[i] /\ p2[j] = Len(w) + Len(reply)
            BY <2>1, <2>3, <1>3, <1>8
        <3> QED BY <3>1, <3>2, <1>1, <1>3, <1>4
    <2> QED BY <2>2, <2>3, <1>7
<1>15. Laid(v, b, read, came2, p2)
    <2>1. Len(b) - read = m + 1
        BY <1>2
    <2> QED BY <2>1, <1>9, <1>10, <1>11, <1>12, <1>13, <1>14, Zenon DEF Laid
<1> QED BY <1>15 DEF v, b

LEMMA ChargedMore ==
    ASSUME NEW a \in Seq(Blocks), NEW read \in 0..Len(a),
           NEW given \in Nat, NEW spent \in Nat, NEW more \in Nat,
           NEW came, NEW c, Charged(a, given, spent, read, came, c),
           NEW block \in Blocks, NEW reply, spent + Noise(Reply(block), reply) <= more,
           NEW came2, came2 = [j \in 1..Len(a) + 1 - read |-> IF j = Len(a) + 1 - read THEN reply ELSE came[j]]
    PROVE  \E c2 : Charged(Append(a, block), given, more, read, came2, c2)
<1> DEFINE m == Len(a) - read
           b == Append(a, block)
           c2 == [j \in 0..m + 1 |-> IF j = m + 1 THEN more ELSE c[j]]
<1>2. /\ Len(a) \in Nat /\ m \in Nat /\ Len(a) + 1 - read = m + 1
      /\ Len(b) = Len(a) + 1 /\ Len(b) - read = m + 1
      /\ read \in Nat /\ read + (m + 1) = Len(a) + 1
    OBVIOUS
<1>4. /\ c \in [0..m -> Nat] /\ read - given <= c[0] /\ c[m] <= spent
      /\ \A j \in 1..m : c[j - 1] + Noise(Reply(a[read + j]), came[j]) <= c[j]
      /\ \A i, j \in 0..m : i < j => c[i] <= c[j]
    BY Zenon DEF Charged
<1>5. /\ \A j \in 1..m : b[read + j] = a[read + j]
      /\ b[read + (m + 1)] = block
    BY <1>2
<1>6. came2 = [j \in 1..m + 1 |-> IF j = m + 1 THEN reply ELSE came[j]]
    BY <1>2
<1> HIDE DEF m, b
<1>7. /\ \A j \in 1..m : j \in 1..m + 1 /\ j # m + 1 /\ j - 1 \in 0..m /\ j \in 0..m
      /\ \A j \in 1..m + 1 : j = m + 1 \/ j \in 1..m
      /\ \A j \in 0..m : j \in 0..m + 1 /\ j # m + 1
      /\ \A j \in 0..m + 1 : j = m + 1 \/ j \in 0..m
      /\ m + 1 \in 1..m + 1 /\ m + 1 \in 0..m + 1 /\ (m + 1) - 1 = m
      /\ m \in 0..m /\ 0 \in 0..m
    BY <1>2
<1>8. /\ came2[m + 1] = reply /\ \A j \in 1..m : came2[j] = came[j]
      /\ c2[m + 1] = more /\ \A j \in 0..m : c2[j] = c[j]
    BY <1>6, <1>7
<1>9. c2 \in [0..m + 1 -> Nat]
    <2>1. \A j \in 0..m + 1 : (IF j = m + 1 THEN more ELSE c[j]) \in Nat
        BY <1>4, <1>7
    <2> QED BY <2>1
<1> HIDE DEF c2
<1>10. Noise(Reply(block), reply) \in {0, 1}
    BY NoiseIs, Zenon
<1>11. c[m] \in Nat /\ c[m] <= more
    BY <1>4, <1>7, <1>10
<1>12. read - given <= c2[0] /\ c2[m + 1] <= more
    BY <1>4, <1>7, <1>8
<1>13. ASSUME NEW j \in 1..m + 1
       PROVE  c2[j - 1] + Noise(Reply(b[read + j]), came2[j]) <= c2[j]
    <2>1. CASE j = m + 1
        <3>1. c2[j - 1] = c[m] /\ b[read + j] = block /\ came2[j] = reply /\ c2[j] = more
            BY <2>1, <1>5, <1>7, <1>8
        <3>2. c[m] + Noise(Reply(block), reply) <= more
            BY <1>4, <1>10, <1>11
        <3> QED BY <3>1, <3>2
    <2>2. CASE j \in 1..m
        <3>1. c2[j - 1] = c[j - 1] /\ b[read + j] = a[read + j] /\ came2[j] = came[j] /\ c2[j] = c[j]
            BY <2>2, <1>5, <1>7, <1>8
        <3> QED BY <2>2, <3>1, <1>4
    <2> QED BY <2>1, <2>2, <1>7
<1>14. ASSUME NEW i \in 0..m + 1, NEW j \in 0..m + 1, i < j PROVE c2[i] <= c2[j]
    <2>1. i \in 0..m
        BY <1>14, <1>2
    <2>2. CASE j \in 0..m
        BY <2>1, <2>2, <1>14, <1>4, <1>8
    <2>3. CASE j = m + 1
        <3>1. c[i] <= c[m] /\ c[i] \in Nat
            <4>1. i = m \/ i < m
                BY <2>1, <1>2
            <4>2. c[i] \in Nat
                BY <2>1, <1>4
            <4>3. i < m => c[i] <= c[m]
                BY <2>1, <1>4, <1>7
            <4> QED BY <4>1, <4>2, <4>3, <1>11
        <3>2. c2[i] = c[i] /\ c2[j] = more
            BY <2>1, <2>3, <1>8
        <3> QED BY <3>1, <3>2, <1>11
    <2> QED BY <2>2, <2>3, <1>7
<1>15. Charged(b, given, more, read, came2, c2)
    <2>1. Len(b) - read = m + 1
        BY <1>2
    <2> QED BY <2>1, <1>9, <1>12, <1>13, <1>14, Zenon DEF Charged
<1> QED BY <1>15 DEF b

\* The reply that lies first.
LEMMA FirstOf ==
    ASSUME BusAssumption,
           NEW w \in Seq(Words), NEW a \in Seq(Blocks), NEW read \in 0..Len(a),
           NEW came, NEW p, Laid(w, a, read, came, p), Len(w) # 0
    PROVE  /\ read + 1 \in 1..Len(a)
           /\ came[1] \in Arrivals(Reply(a[read + 1]))
           /\ Closes(came[1]) /\ p[1] = Len(came[1]) /\ Len(came[1]) \in 1..Len(w)
           /\ \A i \in 1..Len(came[1]) : w[i] = came[1][i]
<1> DEFINE m == Len(a) - read
<1>1. /\ came \in [1..m -> Seq(Words)]
      /\ \A j \in 1..m : came[j] \in Arrivals(Reply(a[read + j]))
      /\ p \in [0..m -> Nat] /\ p[0] = 0 /\ p[m] = Len(w)
      /\ \A j \in 1..m : /\ p[j] = p[j - 1] + Len(came[j])
                         /\ \A i \in 1..Len(came[j]) : w[p[j - 1] + i] = came[j][i]
      /\ \A i, j \in 0..m : i < j => p[i] < p[j]
    BY Zenon DEF Laid
<1>2. m \in Nat /\ Len(a) \in Nat /\ read \in Nat /\ m = Len(a) - read
    OBVIOUS
<1> HIDE DEF m
<1>3. m # 0
    BY <1>1
<1>4. m >= 1 /\ 1 \in 1..m /\ 1 \in 0..m /\ m \in 0..m /\ 1 - 1 = 0 /\ read + 1 \in 1..Len(a)
    BY <1>2, <1>3
<1>5. came[1] \in Arrivals(Reply(a[read + 1]))
    BY <1>1, <1>4
<1>6. Closes(came[1])
    <2>1. a[read + 1] \in Blocks
        BY <1>4
    <2> QED BY <1>5, <2>1, ReplyArrives
<1>7. Len(came[1]) \in Nat /\ Len(came[1]) >= 1
    <2>1. came[1] \in Seq(Words) /\ Len(came[1]) >= 1
        BY <1>6 DEF Closes
    <2> QED BY <2>1
<1>8. p[1] = Len(came[1]) /\ \A i \in 1..Len(came[1]) : w[i] = came[1][i]
    <2>1. /\ p[1] = p[0] + Len(came[1])
          /\ \A i \in 1..Len(came[1]) : w[p[0] + i] = came[1][i]
        BY <1>1, <1>4
    <2> QED BY <2>1, <1>1, <1>7
<1>9. p[1] <= Len(w)
    <2>1. CASE m = 1
        BY <2>1, <1>1, <1>7, <1>8
    <2>2. CASE m # 1
        <3>1. 1 < m
            BY <2>2, <1>2, <1>3
        <3>2. p[1] < p[m]
            BY <3>1, <1>1, <1>4
        <3> QED BY <3>2, <1>1, <1>7, <1>8
    <2> QED BY <2>1, <2>2
<1> QED BY <1>4, <1>5, <1>6, <1>7, <1>8, <1>9

\* One reply less.
Shortened(w, e, v) == Len(v) = Len(w) - e /\ \A k \in 1..Len(v) : v[k] = w[k + e]
Later(came, n) == [j \in 1..n |-> came[j + 1]]

LEMMA LaidLess ==
    ASSUME BusAssumption,
           NEW w \in Seq(Words), NEW a \in Seq(Blocks), NEW read \in 0..Len(a),
           NEW came, NEW p, Laid(w, a, read, came, p), Len(w) # 0,
           NEW v \in Seq(Words), Shortened(w, Len(came[1]), v),
           NEW came2, came2 = Later(came, Len(a) - (read + 1))
    PROVE  \E p2 : Laid(v, a, read + 1, came2, p2)
<1> DEFINE m == Len(a) - read
           n == Len(a) - (read + 1)
           e == Len(came[1])
           p2 == [j \in 0..n |-> p[j + 1] - e]
<1>1. /\ came \in [1..m -> Seq(Words)]
      /\ \A j \in 1..m : came[j] \in Arrivals(Reply(a[read + j]))
      /\ p \in [0..m -> Nat] /\ p[0] = 0 /\ p[m] = Len(w)
      /\ \A j \in 1..m : /\ p[j] = p[j - 1] + Len(came[j])
                         /\ \A i \in 1..Len(came[j]) : w[p[j - 1] + i] = came[j][i]
      /\ \A i, j \in 0..m : i < j => p[i] < p[j]
    BY Zenon DEF Laid
<1>2. read + 1 \in 1..Len(a) /\ p[1] = e /\ e \in 1..Len(w)
    BY FirstOf
<1>3. n \in Nat /\ m = n + 1 /\ e \in Nat /\ e >= 1 /\ read \in Nat
    BY <1>2
<1>4. Len(v) = Len(w) - e /\ \A k \in 1..Len(v) : v[k] = w[k + e]
    BY Zenon DEF Shortened
<1>5. came2 = [j \in 1..n |-> came[j + 1]]
    BY Zenon DEF Later
<1> HIDE DEF m, n, e
<1>6. /\ \A j \in 0..n : j + 1 \in 1..m /\ j + 1 \in 0..m /\ (j + 1) - 1 = j
      /\ \A j \in 1..n : j \in 0..n /\ j - 1 \in 0..n /\ (j - 1) + 1 = j /\ j \in Nat
                         /\ j + 1 \in 1..m /\ (read + 1) + j = read + (j + 1) /\ j \in 0..m
      /\ 0 \in 0..n /\ n \in 0..n /\ 1 \in 0..m
    BY <1>3
<1>7. \A j \in 0..n : p2[j] = p[j + 1] - e /\ p[j + 1] \in Nat /\ e <= p[j + 1]
    <2> TAKE j \in 0..n
    <2>1. p[j + 1] \in Nat
        BY <1>1, <1>6
    <2>2. e <= p[j + 1]
        <3>1. CASE j = 0
            BY <3>1, <1>2, <1>3
        <3>2. CASE j # 0
            <4>1. 1 < j + 1
                BY <3>2, <1>3
            <4>2. p[1] < p[j + 1]
                BY <4>1, <1>1, <1>6
            <4> QED BY <4>2, <2>1, <1>2, <1>3
        <3> QED BY <3>1, <3>2
    <2> QED BY <2>1, <2>2
<1>8. p2 \in [0..n -> Nat]
    <2>1. \A j \in 0..n : p[j + 1] - e \in Nat
        BY <1>3, <1>7
    <2> QED BY <2>1
<1> HIDE DEF p2
<1>9. p2[0] = 0 /\ p2[n] = Len(v)
    <2>1. p2[0] = p[1] - e
        BY <1>6, <1>7
    <2>2. p2[n] = p[m] - e
        BY <1>3, <1>6, <1>7
    <2> QED BY <2>1, <2>2, <1>1, <1>2, <1>3, <1>4
<1>10. came2 \in [1..n -> Seq(Words)] /\ \A j \in 1..n : came2[j] = came[j + 1]
    <2>1. \A j \in 1..n : came[j + 1] \in Seq(Words)
        BY <1>1, <1>6
    <2> QED BY <2>1, <1>5
<1>11. \A j \in 1..n : came2[j] \in Arrivals(Reply(a[(read + 1) + j]))
    <2> TAKE j \in 1..n
    <2>1. came[j + 1] \in Arrivals(Reply(a[read + (j + 1)]))
        BY <1>1, <1>6
    <2> QED BY <2>1, <1>6, <1>10, Zenon
<1>12. ASSUME NEW j \in 1..n
       PROVE  /\ p2[j] = p2[j - 1] + Len(came2[j])
              /\ \A i \in 1..Len(came2[j]) : v[p2[j - 1] + i] = came2[j][i]
    <2>1. p2[j] = p[j + 1] - e /\ p2[j - 1] = p[j] - e /\ came2[j] = came[j + 1]
        BY <1>6, <1>7, <1>10
    <2>2. /\ p[j + 1] = p[(j + 1) - 1] + Len(came[j + 1])
          /\ \A i \in 1..Len(came[j + 1]) : w[p[(j + 1) - 1] + i] = came[j + 1][i]
        BY <1>1, <1>6
    <2>3. /\ p[j + 1] = p[j] + Len(came[j + 1])
          /\ \A i \in 1..Len(came[j + 1]) : w[p[j] + i] = came[j + 1][i]
        BY <2>2, <1>6
    <2>4. came[j + 1] \in Seq(Words)
        BY <1>1, <1>6
    <2>5. Len(came[j + 1]) \in Nat /\ p[j] \in Nat /\ p[j + 1] \in Nat /\ e <= p[j]
        BY <2>4, <1>6, <1>7
    <2> DEFINE x == p[j]
               y == p[j + 1]
               l == Len(came[j + 1])
               q == p2[j - 1]
               r == p2[j]
    <2>10. /\ r = y - e /\ q = x - e /\ y = x + l
           /\ l \in Nat /\ x \in Nat /\ y \in Nat /\ e \in Nat /\ e <= x
        BY <2>1, <2>3, <2>5, <1>3, Zenon
    <2>6. y <= Len(w)
        <3>1. CASE j = n
            <4>1. y = p[m]
                BY <3>1, <1>3
            <4>2. y = Len(w)
                BY <4>1, <1>1, Zenon
            <4> HIDE DEF y
            <4> QED BY <4>2, <2>10
        <3>2. CASE j # n
            <4>1. j + 1 < m /\ m \in 0..m
                BY <3>2, <1>3
            <4>2. p[j + 1] < p[m]
                BY <4>1, <1>1, <1>6
            <4> HIDE DEF y
            <4>3. y < Len(w)
                BY <4>2, <1>1 DEF y
            <4> QED BY <4>3, <2>10
        <3> QED BY <3>1, <3>2
    <2>7. ASSUME NEW i \in 1..Len(came[j + 1]) PROVE v[p2[j - 1] + i] = w[p[j] + i]
        <3>1. i \in 1..l
            OBVIOUS
        <3>2. Len(w) \in Nat
            OBVIOUS
        <3> HIDE DEF x, y, l, q, r
        <3>3. q + i \in 1..Len(v) /\ (q + i) + e = x + i
            BY <2>6, <2>10, <3>1, <3>2, <1>4
        <3>4. v[q + i] = w[(q + i) + e]
            BY <3>3, <1>4, Zenon
        <3> QED BY <3>3, <3>4, Zenon DEF q, x
    <2>8. \A i \in 1..Len(came2[j]) : v[p2[j - 1] + i] = came2[j][i]
        BY <2>1, <2>3, <2>7, Zenon
    <2>9. p2[j] = p2[j - 1] + Len(came2[j])
        <3> HIDE DEF x, y, l, q, r
        <3>1. r = q + l
            BY <2>10
        <3> QED BY <3>1, <2>1, Zenon DEF r, q, l
    <2> QED BY <2>8, <2>9
<1>13. ASSUME NEW i \in 0..n, NEW j \in 0..n, i < j PROVE p2[i] < p2[j]
    <2>1. i + 1 < j + 1
        BY <1>13
    <2>2. p[i + 1] < p[j + 1]
        BY <2>1, <1>1, <1>6
    <2>3. p2[i] = p[i + 1] - e /\ p2[j] = p[j + 1] - e
        BY <1>7
    <2> QED BY <2>2, <2>3, <1>3, <1>7
<1>14. Laid(v, a, read + 1, came2, p2)
    BY <1>8, <1>9, <1>10, <1>11, <1>12, <1>13, Zenon DEF Laid, n
<1> QED BY <1>14

\* What it cost is settled: a good reply is given, a spoilt one paid for.
LEMMA ChargedLess ==
    ASSUME NEW a \in Seq(Blocks), NEW read \in 0..Len(a), read + 1 <= Len(a),
           NEW given \in Nat, NEW spent \in Nat, NEW now \in Nat,
           NEW came, NEW c, Charged(a, given, spent, read, came, c),
           now = IF came[1] = Reply(a[read + 1]) THEN given + 1 ELSE given,
           NEW came2, came2 = Later(came, Len(a) - (read + 1))
    PROVE  \E c2 : Charged(a, now, spent, read + 1, came2, c2)
<1> DEFINE m == Len(a) - read
           n == Len(a) - (read + 1)
           c2 == [j \in 0..n |-> c[j + 1]]
<1>1. /\ c \in [0..m -> Nat] /\ read - given <= c[0] /\ c[m] <= spent
      /\ \A j \in 1..m : c[j - 1] + Noise(Reply(a[read + j]), came[j]) <= c[j]
      /\ \A i, j \in 0..m : i < j => c[i] <= c[j]
    BY Zenon DEF Charged
<1>2. n \in Nat /\ m = n + 1 /\ read \in Nat
    OBVIOUS
<1>3. came2 = [j \in 1..n |-> came[j + 1]]
    BY Zenon DEF Later
<1> HIDE DEF m, n
<1>4. /\ \A j \in 0..n : j + 1 \in 1..m /\ j + 1 \in 0..m /\ (j + 1) - 1 = j
      /\ \A j \in 1..n : j \in 0..n /\ j - 1 \in 0..n /\ (j - 1) + 1 = j /\ j \in Nat
                         /\ j + 1 \in 1..m /\ (read + 1) + j = read + (j + 1) /\ j \in 0..m
      /\ 0 \in 0..n /\ n \in 0..n /\ 1 \in 0..m /\ 1 \in 1..m /\ 0 + 1 = 1 /\ 1 - 1 = 0 /\ 0 \in 0..m
    BY <1>2
<1>5. c2 \in [0..n -> Nat] /\ \A j \in 0..n : c2[j] = c[j + 1]
    BY <1>1, <1>4
<1> HIDE DEF c2
<1>6. (read + 1) - now <= c2[0] /\ c2[n] <= spent
    <2>1. c2[0] = c[1] /\ c2[n] = c[m]
        BY <1>2, <1>4, <1>5
    <2>2. c[1 - 1] + Noise(Reply(a[read + 1]), came[1]) <= c[1]
        BY <1>1, <1>4
    <2>3. c[0] + Noise(Reply(a[read + 1]), came[1]) <= c[1]
        BY <2>2, <1>4
    <2>4. c[0] \in Nat /\ c[1] \in Nat
        BY <1>1, <1>4
    <2>5. CASE came[1] = Reply(a[read + 1])
        <3>1. now = given + 1
            BY <2>5
        <3>2. Noise(Reply(a[read + 1]), came[1]) \in {0, 1}
            BY NoiseIs, Zenon
        <3> QED BY <3>1, <3>2, <2>1, <2>3, <2>4, <1>1, <1>2
    <2>6. CASE came[1] # Reply(a[read + 1])
        <3>1. now = given
            BY <2>6
        <3>2. Noise(Reply(a[read + 1]), came[1]) = 1
            BY <2>6, NoiseIs, Zenon
        <3> QED BY <3>1, <3>2, <2>1, <2>3, <2>4, <1>1, <1>2
    <2> QED BY <2>5, <2>6
<1>7. ASSUME NEW j \in 1..n
      PROVE  c2[j - 1] + Noise(Reply(a[(read + 1) + j]), came2[j]) <= c2[j]
    <2>1. c[(j + 1) - 1] + Noise(Reply(a[read + (j + 1)]), came[j + 1]) <= c[j + 1]
        BY <1>1, <1>4
    <2>2. c2[j - 1] = c[j] /\ c2[j] = c[j + 1] /\ came2[j] = came[j + 1] /\ (j + 1) - 1 = j
          /\ (read + 1) + j = read + (j + 1)
        BY <1>3, <1>4, <1>5
    <2> QED BY <2>1, <2>2
<1>8. ASSUME NEW i \in 0..n, NEW j \in 0..n, i < j PROVE c2[i] <= c2[j]
    <2>1. i + 1 < j + 1
        BY <1>8
    <2> QED BY <2>1, <1>1, <1>4, <1>5
<1>9. Charged(a, now, spent, read + 1, came2, c2)
    BY <1>5, <1>6, <1>7, <1>8, Zenon DEF Charged, n
<1> QED BY <1>9

\* Every reply that waits has its last word in the stream.
LEMMA WaitingAreClosed ==
    ASSUME BusAssumption,
           NEW w \in Seq(Words), NEW a \in Seq(Blocks), NEW read \in 0..Len(a),
           NEW came, NEW p, Laid(w, a, read, came, p)
    PROVE  Len(a) - read <= Cardinality({k \in DOMAIN w : w[k].mode})
<1> DEFINE m == Len(a) - read
           S == {k \in DOMAIN w : w[k].mode}
           f == [j \in 1..m |-> p[j]]
<1>1. /\ came \in [1..m -> Seq(Words)]
      /\ \A j \in 1..m : came[j] \in Arrivals(Reply(a[read + j]))
      /\ p \in [0..m -> Nat] /\ p[0] = 0 /\ p[m] = Len(w)
      /\ \A j \in 1..m : /\ p[j] = p[j - 1] + Len(came[j])
                         /\ \A i \in 1..Len(came[j]) : w[p[j - 1] + i] = came[j][i]
      /\ \A i, j \in 0..m : i < j => p[i] < p[j]
    BY Zenon DEF Laid
<1>2. m \in Nat /\ read \in Nat /\ DOMAIN w = 1..Len(w) /\ Len(w) \in Nat
    OBVIOUS
<1>3. IsFiniteSet(S) /\ IsFiniteSet(1..m) /\ Cardinality(1..m) = m
    <2>1. IsFiniteSet(1..Len(w)) /\ IsFiniteSet(1..m)
        BY <1>2, FS_Interval
    <2>2. Cardinality(1..m) = m
        BY <1>2, FS_Interval
    <2>3. S \subseteq 1..Len(w)
        BY <1>2
    <2> QED BY <2>1, <2>2, <2>3, FS_Subset
<1>4. \A j \in 1..m : read + j \in 1..Len(a)
    BY <1>2
<1> HIDE DEF m
<1>5. /\ \A j \in 1..m : j \in 0..m /\ j - 1 \in 0..m /\ (j = m \/ j < m)
      /\ m \in 0..m
    BY <1>2
<1>6. ASSUME NEW j \in 1..m PROVE p[j] \in S
    <2>1. a[read + j] \in Blocks
        BY <1>4
    <2>2. Closes(came[j])
        BY <1>1, <2>1, ReplyArrives
    <2>3. came[j] \in Seq(Words) /\ Len(came[j]) >= 1
        BY <2>2, Zenon DEF Closes
    <2>4. Len(came[j]) \in Nat /\ Len(came[j]) \in 1..Len(came[j])
        BY <2>3
    <2>5. came[j][Len(came[j])].mode
        BY <2>2, <2>4 DEF Closes
    <2>6. w[p[j - 1] + Len(came[j])] = came[j][Len(came[j])] /\ p[j] = p[j - 1] + Len(came[j])
        BY <1>1, <2>4
    <2>7. p[j] \in Nat /\ p[j - 1] \in Nat
        BY <1>1, <1>5
    <2>8. p[j] >= 1
        <3> DEFINE x == p[j - 1]
                   y == p[j]
                   l == Len(came[j])
        <3>1. y = x + l /\ l >= 1 /\ x \in Nat /\ l \in Nat /\ y \in Nat
            BY <2>3, <2>4, <2>6, <2>7, Zenon
        <3> HIDE DEF x, y, l
        <3>2. y >= 1
            BY <3>1
        <3> QED BY <3>2, Zenon DEF y
    <2>9. p[j] <= Len(w)
        <3>1. CASE j = m
            BY <3>1, <1>1, <1>2
        <3>2. CASE j < m
            <4>1. p[j] < p[m]
                BY <3>2, <1>1, <1>5
            <4> DEFINE y == p[j]
            <4>2. y < Len(w) /\ y \in Nat
                BY <4>1, <1>1, <2>7
            <4> HIDE DEF y
            <4>3. y <= Len(w)
                BY <4>2, <1>2
            <4> QED BY <4>3, Zenon DEF y
        <3> QED BY <3>1, <3>2, <1>5, Zenon
    <2>10. p[j] \in DOMAIN w
        BY <2>7, <2>8, <2>9, <1>2
    <2>11. w[p[j]].mode
        BY <2>5, <2>6, Zenon
    <2> QED BY <2>10, <2>11
<1>7. \A i, j \in 1..m : p[i] = p[j] => i = j
    <2>1. SUFFICES ASSUME NEW i \in 1..m, NEW j \in 1..m, i < j PROVE p[i] # p[j]
        BY <1>2
    <2>2. p[i] < p[j] /\ p[i] \in Nat /\ p[j] \in Nat
        BY <2>1, <1>1, <1>5
    <2> QED BY <2>2
<1> HIDE DEF S
<1>8. f \in [1..m -> S] /\ \A i, j \in 1..m : f[i] = f[j] => i = j
    BY <1>6, <1>7
<1>9. f \in Injection(1..m, S)
    BY <1>8, Zenon DEF Injection, IsInjective
<1>10. Cardinality(1..m) <= Cardinality(S)
    BY <1>3, <1>9, FS_Injection
<1> QED BY <1>3, <1>10 DEF m, S

\* The bytes that are there, in their order, wherever the bridge pauses.
LEMMA DecodeIs ==
    ASSUME BusAssumption, buffer \in Seq(Words), line \in Seq(Words), ModeEnds # {},
           NEW block \in Blocks, NEW reply \in Arrivals(Reply(block)),
           Len(reply) <= Len(buffer \o line),
           \A i \in 1..Len(reply) : (buffer \o line)[i] = reply[i]
    PROVE  /\ Len(reply) \in 1..Len(buffer) /\ Decode.consumed = Len(reply)
           /\ IF reply = Reply(block) THEN Decode.kind \in {"block", "ack"} /\ Decode.payload = block
              ELSE Decode.kind \notin {"block", "ack"}
<1> DEFINE e == Len(reply)
           s == buffer \o line
<1>1. /\ Closes(reply)
      /\ Len(reply) = 1 => block = <<>> /\ reply = Reply(block) /\ reply[1].byte = 0
      /\ Len(reply) # 1 => IF reply = Reply(block) THEN Good(reply) /\ BytesOf(Front(reply)) = block
                           ELSE ~ Good(reply)
    BY ReplyArrives
<1>2. reply \in Seq(Words) /\ e >= 1 /\ \A k \in 1..e : reply[k].mode <=> k = e
    BY <1>1, Zenon DEF Closes
<1>3. e \in Nat /\ e \in 1..e
    BY <1>2
<1>4. /\ s \in Seq(Words) /\ Len(s) = Len(buffer) + Len(line)
      /\ \A k \in 1..Len(buffer) : s[k] = buffer[k]
      /\ Len(buffer) \in Nat /\ DOMAIN buffer = 1..Len(buffer)
    OBVIOUS
<1>5. e <= Len(s) /\ \A i \in 1..e : s[i] = reply[i]
    OBVIOUS
<1> HIDE DEF e, s
<1>6. e <= Len(buffer)
    <2>1. SUFFICES ASSUME Len(buffer) < e PROVE FALSE
        BY <1>3, <1>4
    <2>2. PICK k \in 1..Len(buffer) : buffer[k].mode
        BY <1>4 DEF ModeEnds
    <2>3. k \in 1..e /\ k # e
        BY <2>1, <2>2, <1>3, <1>4
    <2>4. buffer[k] = reply[k]
        BY <2>3, <1>4, <1>5
    <2> QED BY <2>2, <2>3, <2>4, <1>2
<1>7. \A k \in 1..e : k \in 1..Len(buffer) /\ buffer[k] = reply[k]
    BY <1>3, <1>4, <1>5, <1>6
<1>8. e \in ModeEnds
    BY <1>2, <1>3, <1>4, <1>7 DEF ModeEnds
<1>9. Min(ModeEnds) = e
    <2>1. ModeEnds \in SUBSET Nat
        BY <1>4 DEF ModeEnds
    <2>2. Min(ModeEnds) \in ModeEnds /\ Min(ModeEnds) <= e
        BY <1>8, <2>1, LeastOf
    <2>3. Min(ModeEnds) \in 1..e /\ buffer[Min(ModeEnds)].mode
        BY <2>2, <1>3, <1>4 DEF ModeEnds
    <2> QED BY <2>3, <1>2, <1>7
<1>10. SubSeq(buffer, 1, e) = reply
    <2>1. 1 + e - 1 = e
        BY <1>3
    <2>2. SubSeq(buffer, 1, e) = [i \in 1..e |-> buffer[i]]
        BY <2>1, <1>3
    <2>3. reply = [i \in 1..e |-> reply[i]]
        BY <1>2, <1>3 DEF e
    <2> QED BY <2>2, <2>3, <1>7
<1>11. CASE e = 1
    <2>1. buffer[1].byte = 0 /\ reply = Reply(block) /\ block = <<>>
        BY <1>1, <1>3, <1>7, <1>11 DEF e
    <2>2. Decode = [kind |-> "ack", payload |-> <<>>, consumed |-> 1]
        BY <1>9, <1>11, <2>1 DEF Decode
    <2> QED BY <2>1, <2>2, <1>3, <1>6, <1>11 DEF e
<1>12. CASE e # 1
    <2>1. CASE reply = Reply(block)
        <3>1. Good(reply) /\ BytesOf(Front(reply)) = block
            BY <1>1, <1>12, <2>1, Zenon DEF e
        <3>2. Decode = [kind |-> "block", payload |-> block, consumed |-> e]
            BY <1>9, <1>10, <1>12, <3>1, Zenon DEF Decode
        <3> QED BY <2>1, <3>2, <1>3, <1>6 DEF e
    <2>2. CASE reply # Reply(block)
        <3>1. ~ Good(reply)
            BY <1>1, <1>12, <2>2, Zenon DEF e
        <3>2. Decode = [kind |-> "badChecksum", payload |-> <<>>, consumed |-> e]
            BY <1>9, <1>10, <1>12, <3>1, Zenon DEF Decode
        <3> QED BY <2>2, <3>2, <1>3, <1>6 DEF e
    <2> QED BY <2>1, <2>2
<1> QED BY <1>11, <1>12

(* The invariant.                                                          *)
Deeds == [address : DOMAIN Base, low : Nat, data : Seq(Octets)]
BusTypes ==
    /\ asked \in Seq(Asks) /\ Len(asked) <= MaxAsks
    /\ faults \in 0..MaxFaults
    /\ answers \in Seq(Blocks) /\ accepted \in Seq(Blocks)
    /\ line \in Seq(Words) /\ buffer \in Seq(Words) /\ executed \in Seq(Deeds)

\* The frame on the bus is one that was asked for.
BusIsAsked == bus # <<>> => \E j \in DOMAIN asked : Encode(asked[j]) = bus

\* The blocks given are, in their order, among the answers read.
Kept(given, a, read, from) ==
    /\ from \in [1..Len(given) -> 1..read]
    /\ \A j, k \in 1..Len(given) : j < k => from[j] < from[k]
    /\ \A k \in 1..Len(given) : given[k] = a[from[k]]

\* The first so many answers are read: they are given, or spoilt and paid for
\* by a fault; the others wait whole, one after the other.
Accounted(w, a, given, spent) ==
    \E read \in 0..Len(a) : \E came, p, c, from :
        /\ Laid(w, a, read, came, p)
        /\ Charged(a, Len(given), spent, read, came, c)
        /\ Kept(given, a, read, from)

BusInv ==
    /\ BusTypes
    /\ BusIsAsked
    /\ ExecutesWhatWasAsked
    /\ Accounted(buffer \o line, answers, accepted, faults)

\* Of the invariant alone.
LEMMA BusInvTells == ASSUME BusAssumption PROVE BusInv => BusSaysWhatWasMeant
<1> SUFFICES ASSUME BusInv PROVE BusSaysWhatWasMeant
    OBVIOUS
<1>1. BusTypes /\ BusIsAsked /\ ExecutesWhatWasAsked
    BY Zenon DEF BusInv
<1>2. BusTypeOK
    <2>1. bus \in Seq(Words)
        <3>1. CASE bus = <<>>
            BY <3>1
        <3>2. CASE bus # <<>>
            <4>1. PICK j \in DOMAIN asked : Encode(asked[j]) = bus
                BY <3>2, <1>1 DEF BusIsAsked
            <4>2. asked[j] \in Asks
                BY <4>1, <1>1 DEF BusTypes
            <4>3. Sound(Encode(asked[j]))
                BY <3>2, <4>1, <4>2, FrameIs
            <4> QED BY <4>1, <4>3 DEF Sound
        <3> QED BY <3>1, <3>2
    <2>2. \A words \in Seq(Words) : \A k \in DOMAIN words : words[k].byte \in 0..255
        <3> TAKE words \in Seq(Words)
        <3> TAKE k \in DOMAIN words
        <3>1. words[k] \in Words
            OBVIOUS
        <3> QED BY <3>1 DEF Words, Octets
    <2>3. line \in Seq(Words) /\ buffer \in Seq(Words) /\ Len(asked) <= MaxAsks /\ faults \in 0..MaxFaults
        BY <1>1, Zenon DEF BusTypes
    <2> QED BY <2>1, <2>2, <2>3, Zenon DEF BusTypeOK
<1>8. PICK read \in 0..Len(answers) : \E came, p, c, from :
        /\ Laid(buffer \o line, answers, read, came, p)
        /\ Charged(answers, Len(accepted), faults, read, came, c)
        /\ Kept(accepted, answers, read, from)
    BY Zenon DEF BusInv, Accounted
<1>3. PICK came, p, c, from :
        /\ Laid(buffer \o line, answers, read, came, p)
        /\ Charged(answers, Len(accepted), faults, read, came, c)
        /\ Kept(accepted, answers, read, from)
    BY <1>8
<1>4. /\ answers \in Seq(Blocks) /\ accepted \in Seq(Blocks) /\ faults \in Nat
      /\ line \in Seq(Words) /\ buffer \in Seq(Words)
    BY <1>1 DEF BusTypes, BusAssumption
<1>5. /\ Len(answers) \in Nat /\ Len(accepted) \in Nat /\ read \in Nat /\ read <= Len(answers)
      /\ DOMAIN answers = 1..Len(answers) /\ DOMAIN accepted = 1..Len(accepted)
      /\ Len(answers) - read \in Nat
    BY <1>3, <1>4
<1>6. \E f \in [DOMAIN accepted -> DOMAIN answers] :
         /\ \A j, k \in DOMAIN accepted : j < k => f[j] < f[k]
         /\ \A k \in DOMAIN accepted : accepted[k] = answers[f[k]]
    <2>1. /\ from \in [1..Len(accepted) -> 1..read]
          /\ \A j, k \in 1..Len(accepted) : j < k => from[j] < from[k]
          /\ \A k \in 1..Len(accepted) : accepted[k] = answers[from[k]]
        BY <1>3, Zenon DEF Kept
    <2>2. 1..read \subseteq 1..Len(answers)
        BY <1>5
    <2>3. from \in [1..Len(accepted) -> 1..Len(answers)]
        BY <2>1, <2>2
    <2> QED BY <2>1, <2>3, <1>5, Zenon
<1>7. Len(answers) - Len(accepted) <=
          faults + Cardinality({k \in DOMAIN (buffer \o line) : (buffer \o line)[k].mode})
    <2> DEFINE m == Len(answers) - read
               n == Cardinality({k \in DOMAIN (buffer \o line) : (buffer \o line)[k].mode})
    <2>1. buffer \o line \in Seq(Words)
        BY <1>4
    <2>2. m <= n
        BY <1>3, <1>4, <2>1, WaitingAreClosed
    <2>3. n \in Nat
        <3>1. IsFiniteSet(DOMAIN (buffer \o line))
            <4>1. Len(buffer \o line) \in Nat /\ DOMAIN (buffer \o line) = 1..Len(buffer \o line)
                BY <2>1
            <4>2. IsFiniteSet(1..Len(buffer \o line))
                BY <4>1, FS_Interval
            <4> QED BY <4>1, <4>2, Zenon
        <3>2. IsFiniteSet({k \in DOMAIN (buffer \o line) : (buffer \o line)[k].mode})
            <4> DEFINE D == DOMAIN (buffer \o line)
                       E == {k \in D : (buffer \o line)[k].mode}
            <4>1. E \in SUBSET D
                OBVIOUS
            <4> HIDE DEF D, E
            <4>2. IsFiniteSet(E)
                BY <4>1, <3>1, FS_Subset DEF D
            <4> QED BY <4>2, Zenon DEF E, D
        <3> QED BY <3>2, FS_CardinalityType
    <2>4. /\ c \in [0..m -> Nat] /\ read - Len(accepted) <= c[0] /\ c[m] <= faults
          /\ \A i, j \in 0..m : i < j => c[i] <= c[j]
        BY <1>3, Zenon DEF Charged
    <2>5. m \in Nat /\ m = Len(answers) - read
        BY <1>5
    <2> HIDE DEF m, n
    <2>6. c[0] <= faults
        <3>1. c[0] \in Nat /\ c[m] \in Nat
            BY <2>4, <2>5
        <3>2. CASE m = 0
            BY <3>2, <2>4
        <3>3. CASE m # 0
            <4>1. 0 < m /\ 0 \in 0..m /\ m \in 0..m
                BY <3>3, <2>5
            <4>2. c[0] <= c[m]
                BY <4>1, <2>4
            <4> QED BY <4>2, <3>1, <2>4, <1>4
        <3> QED BY <3>2, <3>3
    <2>7. c[0] \in Nat
        BY <2>4, <2>5
    <2> DEFINE x == c[0]
               y == Len(answers)
               z == Len(accepted)
    <2>8. /\ m <= n /\ m = y - read /\ read - z <= x /\ x <= faults /\ x \in Nat
          /\ y \in Nat /\ z \in Nat /\ n \in Nat /\ m \in Nat /\ read \in Nat /\ faults \in Nat
        BY <2>2, <2>3, <2>4, <2>5, <2>6, <2>7, <1>4, <1>5, Zenon
    <2> HIDE DEF x, y, z
    <2>9. y - z <= faults + n
        BY <2>8
    <2> QED BY <2>9, Zenon DEF y, z, n
<1> QED BY <1>1, <1>2, <1>6, <1>7, Zenon DEF BusSaysWhatWasMeant, GivenAsAnswered

LEMMA BusInvInit == ASSUME BusAssumption PROVE BusInit => BusInv
<1> SUFFICES ASSUME BusInit PROVE BusInv
    OBVIOUS
<1>1. /\ asked = <<>> /\ bus = <<>> /\ executed = <<>> /\ answers = <<>>
      /\ line = <<>> /\ buffer = <<>> /\ accepted = <<>> /\ faults = 0
    BY Zenon DEF BusInit
<1>2. BusTypes
    BY <1>1 DEF BusTypes, BusAssumption
<1>3. BusIsAsked /\ ExecutesWhatWasAsked
    <2>1. DOMAIN executed = {}
        BY <1>1
    <2> QED BY <1>1, <2>1, Zenon DEF BusIsAsked, ExecutesWhatWasAsked
<1>4. Accounted(buffer \o line, answers, accepted, faults)
    <2> DEFINE p == [j \in 0..0 |-> 0]
               none == [j \in 1..0 |-> <<>>]
    <2>1. buffer \o line = <<>> /\ Len(answers) = 0 /\ Len(accepted) = 0 /\ Len(buffer \o line) = 0
          /\ 0 \in 0..Len(answers) /\ Len(answers) - 0 = 0
        BY <1>1
    <2>2. none \in [1..0 -> Seq(Words)] /\ none \in [1..0 -> 1..0]
        OBVIOUS
    <2>3. p \in [0..0 -> Nat] /\ p[0] = 0
        OBVIOUS
    <2>4. \A i, j \in 0..0 : ~ (i < j)
        OBVIOUS
    <2>5. \A j \in 1..0 : FALSE
        OBVIOUS
    <2> HIDE DEF p, none
    <2>6. Laid(buffer \o line, answers, 0, none, p)
        BY <2>1, <2>2, <2>3, <2>4, <2>5, Zenon DEF Laid
    <2>7. Charged(answers, Len(accepted), faults, 0, none, p)
        <3>1. 0 - Len(accepted) <= 0 /\ 0 <= faults
            BY <1>1, <2>1
        <3> QED BY <3>1, <2>1, <2>3, <2>4, <2>5, Zenon DEF Charged
    <2>8. Kept(accepted, answers, 0, none)
        BY <2>1, <2>2, <2>5, Zenon DEF Kept
    <2> QED BY <2>1, <2>6, <2>7, <2>8, Zenon DEF Accounted
<1> QED BY <1>2, <1>3, <1>4, Zenon DEF BusInv

\* MasterAsks: the frame on the bus is the newest one asked for.
LEMMA BusInvAsks == ASSUME BusAssumption PROVE BusInv /\ MasterAsks => BusInv'
<1> SUFFICES ASSUME BusInv, MasterAsks PROVE BusInv'
    OBVIOUS
<1>1. BusTypes /\ ExecutesWhatWasAsked /\ Accounted(buffer \o line, answers, accepted, faults)
    BY Zenon DEF BusInv
<1>2. PICK a \in Asks : Encode(a) # <<>> /\ bus' = Encode(a) /\ asked' = Append(asked, a)
    BY DEF MasterAsks
<1>3. /\ executed' = executed /\ answers' = answers /\ line' = line /\ buffer' = buffer
      /\ accepted' = accepted /\ faults' = faults /\ Len(asked) < MaxAsks
    BY DEF MasterAsks
<1>4. /\ asked \in Seq(Asks) /\ asked' \in Seq(Asks) /\ Len(asked') = Len(asked) + 1
      /\ Len(asked) \in Nat /\ DOMAIN asked = 1..Len(asked) /\ DOMAIN asked' = 1..Len(asked) + 1
      /\ asked'[Len(asked) + 1] = a
      /\ \A j \in DOMAIN asked : asked'[j] = asked[j] /\ j \in DOMAIN asked'
    BY <1>1, <1>2 DEF BusTypes
<1>5. BusTypes'
    <2>1. Len(asked') <= MaxAsks
        BY <1>3, <1>4 DEF BusAssumption
    <2> QED BY <2>1, <1>1, <1>3, <1>4 DEF BusTypes
<1>6. BusIsAsked'
    <2>1. Len(asked) + 1 \in DOMAIN asked'
        BY <1>4
    <2> QED BY <2>1, <1>2, <1>4, Zenon DEF BusIsAsked
<1>7. ExecutesWhatWasAsked'
    <2>1. SUFFICES ASSUME NEW k \in DOMAIN executed
                   PROVE  \E j \in DOMAIN asked' : Means(asked'[j], executed[k])
        BY <1>3, Zenon DEF ExecutesWhatWasAsked
    <2>2. PICK j \in DOMAIN asked : Means(asked[j], executed[k])
        BY <1>1, Zenon DEF ExecutesWhatWasAsked
    <2> QED BY <2>2, <1>4, Zenon
<1>8. Accounted(buffer \o line, answers, accepted, faults)'
    BY <1>1, <1>3, Zenon
<1> QED BY <1>5, <1>6, <1>7, <1>8, Zenon DEF BusInv

\* WordArrives: a word goes from the line to the buffer.
LEMMA BusInvWord == ASSUME BusAssumption PROVE BusInv /\ WordArrives => BusInv'
<1> SUFFICES ASSUME BusInv, WordArrives PROVE BusInv'
    OBVIOUS
<1>1. BusTypes /\ BusIsAsked /\ ExecutesWhatWasAsked
      /\ Accounted(buffer \o line, answers, accepted, faults)
    BY Zenon DEF BusInv
<1>2. /\ line # <<>> /\ buffer' = Append(buffer, Head(line)) /\ line' = Tail(line)
      /\ asked' = asked /\ bus' = bus /\ executed' = executed /\ answers' = answers
      /\ accepted' = accepted /\ faults' = faults
    BY DEF WordArrives
<1>3. line \in Seq(Words) /\ buffer \in Seq(Words)
    BY <1>1 DEF BusTypes
<1>4. Head(line) \in Words /\ line' \in Seq(Words) /\ buffer' \in Seq(Words)
    BY <1>2, <1>3
<1>5. buffer' \o line' = buffer \o line
    <2> DEFINE h == Head(line)
               t == Tail(line)
    <2>1. /\ Len(line) \in Nat /\ Len(line) >= 1 /\ t \in Seq(Words) /\ h \in Words
          /\ Len(t) = Len(line) - 1 /\ line[1] = h
          /\ \A i \in 1..Len(t) : t[i] = line[i + 1]
        BY <1>2, <1>3
    <2> HIDE DEF h, t
    <2> DEFINE u == Append(buffer, h)
               v == u \o t
               w == buffer \o line
    <2>2. /\ u \in Seq(Words) /\ Len(u) = Len(buffer) + 1 /\ u[Len(buffer) + 1] = h
          /\ \A i \in 1..Len(buffer) : u[i] = buffer[i]
          /\ Len(buffer) \in Nat
        BY <2>1, <1>3
    <2> HIDE DEF u
    <2>3. /\ v \in Seq(Words) /\ Len(v) = Len(u) + Len(t)
          /\ \A i \in 1..Len(v) : v[i] = IF i <= Len(u) THEN u[i] ELSE t[i - Len(u)]
        <3>1. u \in Seq(Words) /\ t \in Seq(Words)
            BY <2>1, <2>2
        <3>2. u \o t \in Seq(Words) /\ Len(u \o t) = Len(u) + Len(t)
            BY <3>1
        <3>3. \A i \in 1..Len(u \o t) : (u \o t)[i] = IF i <= Len(u) THEN u[i] ELSE t[i - Len(u)]
            BY <3>1, ConcatProperties
        <3> QED BY <3>2, <3>3, Zenon
    <2>4. /\ w \in Seq(Words) /\ Len(w) = Len(buffer) + Len(line)
          /\ \A i \in 1..Len(w) : w[i] = IF i <= Len(buffer) THEN buffer[i] ELSE line[i - Len(buffer)]
        BY <1>3
    <2> HIDE DEF v, w
    <2>5. Len(v) = Len(w) /\ Len(v) \in Nat
        BY <2>1, <2>2, <2>3, <2>4
    <2>6. ASSUME NEW i \in 1..Len(v) PROVE v[i] = w[i]
        <3>1. CASE i <= Len(buffer)
            BY <3>1, <2>2, <2>3, <2>4, <2>5
        <3>2. CASE i = Len(buffer) + 1
            <4>1. v[i] = h
                BY <3>2, <2>2, <2>3
            <4>2. i - Len(buffer) = 1 /\ ~ (i <= Len(buffer)) /\ i \in 1..Len(w)
                BY <3>2, <2>2, <2>5
            <4>3. w[i] = line[1]
                BY <4>2, <2>4
            <4> QED BY <4>1, <4>3, <2>1
        <3>3. CASE i > Len(buffer) + 1
            <4>1. /\ i - Len(u) \in 1..Len(t) /\ ~ (i <= Len(u)) /\ ~ (i <= Len(buffer))
                  /\ (i - Len(u)) + 1 = i - Len(buffer) /\ i \in 1..Len(w)
                BY <3>3, <2>1, <2>2, <2>3, <2>5
            <4>2. v[i] = t[i - Len(u)] /\ w[i] = line[i - Len(buffer)]
                BY <4>1, <2>3, <2>4
            <4>3. t[i - Len(u)] = line[(i - Len(u)) + 1]
                BY <4>1, <2>1
            <4> QED BY <4>1, <4>2, <4>3
        <3> QED BY <3>1, <3>2, <3>3, <2>2, <2>5
    <2>7. v = w
        BY <2>3, <2>4, <2>5, <2>6, SeqEqual
    <2> QED BY <2>7, <1>2, Zenon DEF v, w, u, h, t
<1>6. BusTypes'
    BY <1>1, <1>2, <1>4 DEF BusTypes
<1>7. BusIsAsked' /\ ExecutesWhatWasAsked'
    BY <1>1, <1>2, Zenon DEF BusIsAsked, ExecutesWhatWasAsked
<1>8. Accounted(buffer \o line, answers, accepted, faults)'
    BY <1>1, <1>2, <1>5, Zenon
<1> QED BY <1>6, <1>7, <1>8, Zenon DEF BusInv

\* PeripheralsHear: what is executed is what was asked, and the answer waits.
LEMMA BusInvHear == ASSUME BusAssumption PROVE BusInv /\ PeripheralsHear => BusInv'
<1> SUFFICES ASSUME BusInv, PeripheralsHear PROVE BusInv'
    OBVIOUS
<1>1. BusTypes /\ BusIsAsked /\ ExecutesWhatWasAsked
      /\ Accounted(buffer \o line, answers, accepted, faults)
    BY Zenon DEF BusInv
<1>2. /\ asked \in Seq(Asks) /\ Len(asked) <= MaxAsks /\ faults \in Nat /\ MaxFaults \in Nat
      /\ answers \in Seq(Blocks) /\ accepted \in Seq(Blocks)
      /\ line \in Seq(Words) /\ buffer \in Seq(Words) /\ executed \in Seq(Deeds)
    BY <1>1 DEF BusTypes, BusAssumption
<1>3. /\ bus # <<>> /\ bus' = <<>> /\ asked' = asked /\ buffer' = buffer /\ accepted' = accepted
      /\ faults' <= MaxFaults
    BY DEF PeripheralsHear
<1>4. PICK q \in DOMAIN asked : Encode(asked[q]) = bus
    BY <1>1, <1>3, Zenon DEF BusIsAsked
<1>5. asked[q] \in Asks
    BY <1>2, <1>4
<1>6. PICK words \in Arrivals(bus) :
         \/ /\ Addressed(words) = {}
            /\ faults' = faults + Noise(bus, words)
            /\ UNCHANGED <<executed, answers, line>>
         \/ \E x \in Addressed(words), block \in Blocks : \E reply \in Arrivals(Reply(block)) :
              /\ faults' = faults + Noise(bus, words) + Noise(Reply(block), reply)
              /\ executed' = Append(executed, [address |-> x,
                     low |-> words[1].byte % 8, data |-> Tail(BytesOf(Front(words)))])
              /\ answers' = Append(answers, block)
              /\ line' = line \o reply
    BY Zenon DEF PeripheralsHear
<1>7. Noise(bus, words) \in {0, 1}
    BY NoiseIs, Zenon
<1>8. BusIsAsked'
    BY <1>3, Zenon DEF BusIsAsked
<1>9. PICK read \in 0..Len(answers) : \E came, p, c, from :
        /\ Laid(buffer \o line, answers, read, came, p)
        /\ Charged(answers, Len(accepted), faults, read, came, c)
        /\ Kept(accepted, answers, read, from)
    BY <1>1, Zenon DEF Accounted
<1>10. PICK came, p, c, from :
        /\ Laid(buffer \o line, answers, read, came, p)
        /\ Charged(answers, Len(accepted), faults, read, came, c)
        /\ Kept(accepted, answers, read, from)
    BY <1>9
<1>11. Len(answers) \in Nat /\ Len(accepted) \in Nat /\ Len(answers) - read \in Nat /\ read \in Nat
    BY <1>2
<1>12. CASE /\ Addressed(words) = {}
            /\ faults' = faults + Noise(bus, words)
            /\ UNCHANGED <<executed, answers, line>>
    <2>1. executed' = executed /\ answers' = answers /\ line' = line /\ faults' \in Nat /\ faults <= faults'
        BY <1>2, <1>7, <1>12
    <2>2. faults' \in 0..MaxFaults
        BY <1>2, <1>3, <2>1
    <2>3. BusTypes'
        BY <1>1, <1>3, <2>1, <2>2 DEF BusTypes
    <2>4. ExecutesWhatWasAsked'
        BY <1>1, <1>3, <2>1, Zenon DEF ExecutesWhatWasAsked
    <2>5. Charged(answers, Len(accepted), faults', read, came, c)
        <3>1. c[Len(answers) - read] \in Nat /\ c[Len(answers) - read] <= faults
            <4>1. /\ c \in [0..Len(answers) - read -> Nat]
                  /\ c[Len(answers) - read] <= faults
                BY <1>10, Zenon DEF Charged
            <4>2. Len(answers) - read \in 0..Len(answers) - read
                BY <1>11
            <4> QED BY <4>1, <4>2
        <3>2. c[Len(answers) - read] <= faults'
            BY <3>1, <2>1, <1>2
        <3> QED BY <3>2, <1>10, Zenon DEF Charged
    <2>6. Accounted(buffer \o line, answers, accepted, faults)'
        BY <1>3, <1>10, <2>1, <2>5, Zenon DEF Accounted
    <2> QED BY <1>8, <2>3, <2>4, <2>6, Zenon DEF BusInv
<1>13. ASSUME NEW x \in Addressed(words), NEW block \in Blocks, NEW reply \in Arrivals(Reply(block)),
              faults' = faults + Noise(bus, words) + Noise(Reply(block), reply),
              executed' = Append(executed, [address |-> x,
                  low |-> words[1].byte % 8, data |-> Tail(BytesOf(Front(words)))]),
              answers' = Append(answers, block),
              line' = line \o reply
       PROVE  BusInv'
    <2> DEFINE deed == [address |-> x, low |-> words[1].byte % 8, data |-> Tail(BytesOf(Front(words)))]
    <2>1. words = bus /\ Means(asked[q], deed)
        <3>1. words \in Arrivals(Encode(asked[q])) /\ Encode(asked[q]) # <<>>
            BY <1>3, <1>4, <1>6
        <3>2. words = Encode(asked[q]) /\ Means(asked[q], deed)
            BY <1>5, <3>1, HeardAsAsked
        <3> QED BY <1>4, <3>2
    <2>2. deed \in Deeds
        <3>1. Sound(bus)
            BY <1>3, <1>4, <1>5, FrameIs
        <3>2. bus[1] \in Words
            BY <3>1 DEF Sound
        <3>3. bus[1].byte \in Octets
            BY <3>2 DEF Words
        <3>4. words[1].byte % 8 \in Nat
            <4>1. \A b \in Octets : b % 8 \in Nat
                BY DEF Octets
            <4> QED BY <4>1, <3>3, <2>1, Zenon
        <3>5. deed.data = asked[q].data /\ asked[q].data \in Seq(Octets)
            BY <2>1, <1>5 DEF Means, BusAssumption, Octets
        <3>6. x \in DOMAIN Base
            BY DEF Addressed
        <3> QED BY <3>4, <3>5, <3>6 DEF Deeds
    <2>3. Closes(reply) /\ reply \in Seq(Words)
        <3>1. Closes(reply)
            BY ReplyArrives
        <3> QED BY <3>1 DEF Closes
    <2>4. Noise(Reply(block), reply) \in {0, 1}
        BY NoiseIs, Zenon
    <2> HIDE DEF deed
    <2>5. executed' = Append(executed, deed)
        BY <1>13, Zenon DEF deed
    <2>6. /\ faults' \in 0..MaxFaults /\ faults' \in Nat
          /\ faults + Noise(Reply(block), reply) <= faults'
        <3> DEFINE n == Noise(bus, words)
                   r == Noise(Reply(block), reply)
        <3>1. faults' = faults + n + r /\ n \in {0, 1} /\ r \in {0, 1}
            BY <1>7, <1>13, <2>4, Zenon
        <3> HIDE DEF n, r
        <3>2. faults' \in Nat /\ faults + r <= faults'
            BY <3>1, <1>2
        <3> QED BY <3>2, <1>2, <1>3 DEF r
    <2>7. answers' \in Seq(Blocks) /\ line' \in Seq(Words) /\ executed' \in Seq(Deeds)
        BY <1>2, <1>13, <2>2, <2>3, <2>5
    <2>8. BusTypes'
        BY <1>1, <1>3, <2>6, <2>7 DEF BusTypes
    <2>9. ExecutesWhatWasAsked'
        <3>1. /\ DOMAIN executed' = 1..Len(executed) + 1 /\ DOMAIN executed = 1..Len(executed)
              /\ Len(executed) \in Nat
              /\ executed'[Len(executed) + 1] = deed
              /\ \A k \in DOMAIN executed : executed'[k] = executed[k]
            BY <1>2, <2>2, <2>5
        <3>2. SUFFICES ASSUME NEW k \in DOMAIN executed'
                       PROVE  \E j \in DOMAIN asked : Means(asked[j], executed'[k])
            BY <1>3, Zenon DEF ExecutesWhatWasAsked
        <3>3. CASE k = Len(executed) + 1
            BY <3>1, <3>3, <2>1, <1>4, Zenon
        <3>4. CASE k # Len(executed) + 1
            <4>1. k \in DOMAIN executed
                BY <3>1, <3>2, <3>4
            <4>2. PICK j \in DOMAIN asked : Means(asked[j], executed[k])
                BY <4>1, <1>1, Zenon DEF ExecutesWhatWasAsked
            <4> QED BY <4>1, <4>2, <3>1, Zenon
        <3> QED BY <3>3, <3>4
    <2>10. Accounted(buffer \o line, answers, accepted, faults)'
        <3> DEFINE came2 == [j \in 1..Len(answers) + 1 - read |->
                                IF j = Len(answers) + 1 - read THEN reply ELSE came[j]]
                   w == buffer \o line
                   v == buffer' \o line'
        <3>1. w \in Seq(Words)
            BY <1>2
        <3>2. PICK p2 : Laid(w \o reply, Append(answers, block), read, came2, p2)
            BY <1>2, <1>10, <3>1, LaidMore
        <3>3. PICK c2 : Charged(Append(answers, block), Len(accepted), faults', read, came2, c2)
            <4>1. /\ Charged(answers, Len(accepted), faults, read, came, c)
                  /\ answers \in Seq(Blocks) /\ faults \in Nat /\ faults' \in Nat
                  /\ Len(accepted) \in Nat /\ faults + Noise(Reply(block), reply) <= faults'
                BY <1>2, <1>10, <1>11, <2>6, Zenon
            <4> QED BY <4>1, ChargedMore, Zenon
        <3>4. v = w \o reply
            <4>1. buffer \o (line \o reply) = (buffer \o line) \o reply
                <5>1. line \in Seq(Words) /\ buffer \in Seq(Words) /\ reply \in Seq(Words)
                    BY <1>2, <2>3, Zenon
                <5>2. \A s, t, u \in Seq(Words) : (s \o t) \o u = s \o (t \o u)
                    BY ConcatAssociative
                <5> QED BY <5>1, <5>2, Zenon
            <4> QED BY <4>1, <1>3, <1>13
        <3>5. Kept(accepted, Append(answers, block), read, from)
            <4>1. /\ from \in [1..Len(accepted) -> 1..read]
                  /\ \A k \in 1..Len(accepted) : accepted[k] = answers[from[k]]
                  /\ \A j, k \in 1..Len(accepted) : j < k => from[j] < from[k]
                BY <1>10, Zenon DEF Kept
            <4>2. \A i \in 1..read : Append(answers, block)[i] = answers[i]
                BY <1>2, <1>11
            <4>3. \A k \in 1..Len(accepted) : accepted[k] = Append(answers, block)[from[k]]
                <5> TAKE k \in 1..Len(accepted)
                <5>1. from[k] \in 1..read
                    BY <4>1
                <5> QED BY <5>1, <4>1, <4>2, Zenon
            <4> QED BY <4>1, <4>3, Zenon DEF Kept
        <3>6. read \in 0..Len(answers')
            BY <1>2, <1>11, <1>13
        <3> HIDE DEF came2, w, v
        <3>7. Accounted(v, answers', accepted, faults')
            BY <1>13, <3>2, <3>3, <3>4, <3>5, <3>6, Zenon DEF Accounted
        <3> QED BY <3>7, <1>3, Zenon DEF v
    <2> QED BY <1>8, <2>8, <2>9, <2>10, Zenon DEF BusInv
<1> QED BY <1>6, <1>12, <1>13, Zenon

\* TakeFrame: the reply that lies first is read; it is given unless spoilt.
LEMMA BusInvTake == ASSUME BusAssumption PROVE BusInv /\ TakeFrame => BusInv'
<1> SUFFICES ASSUME BusInv, TakeFrame PROVE BusInv'
    OBVIOUS
<1>1. BusTypes /\ BusIsAsked /\ ExecutesWhatWasAsked
      /\ Accounted(buffer \o line, answers, accepted, faults)
    BY Zenon DEF BusInv
<1>2. /\ asked \in Seq(Asks) /\ Len(asked) <= MaxAsks /\ faults \in Nat
      /\ answers \in Seq(Blocks) /\ accepted \in Seq(Blocks)
      /\ line \in Seq(Words) /\ buffer \in Seq(Words) /\ executed \in Seq(Deeds)
    BY <1>1 DEF BusTypes, BusAssumption
<1>3. /\ ModeEnds # {}
      /\ buffer' = SubSeq(buffer, Decode.consumed + 1, Len(buffer))
      /\ accepted' = IF Decode.kind \in {"block", "ack"} THEN Append(accepted, Decode.payload)
                     ELSE accepted
      /\ asked' = asked /\ bus' = bus /\ executed' = executed /\ answers' = answers
      /\ line' = line /\ faults' = faults
    BY DEF TakeFrame
<1>4. PICK read \in 0..Len(answers) : \E came, p, c, from :
        /\ Laid(buffer \o line, answers, read, came, p)
        /\ Charged(answers, Len(accepted), faults, read, came, c)
        /\ Kept(accepted, answers, read, from)
    BY <1>1, Zenon DEF Accounted
<1>5. PICK came, p, c, from :
        /\ Laid(buffer \o line, answers, read, came, p)
        /\ Charged(answers, Len(accepted), faults, read, came, c)
        /\ Kept(accepted, answers, read, from)
    BY <1>4
<1> DEFINE w == buffer \o line
           e == Len(came[1])
           block == answers[read + 1]
           came2 == Later(came, Len(answers) - (read + 1))
<1>6. /\ w \in Seq(Words) /\ Len(w) = Len(buffer) + Len(line)
      /\ \A k \in 1..Len(w) : w[k] = IF k <= Len(buffer) THEN buffer[k] ELSE line[k - Len(buffer)]
      /\ Len(buffer) \in Nat /\ Len(line) \in Nat /\ DOMAIN buffer = 1..Len(buffer)
    BY <1>2, ConcatProperties
<1>7. Len(w) # 0
    <2>1. Len(buffer) # 0
        BY <1>3, <1>6 DEF ModeEnds
    <2> QED BY <2>1, <1>6
<1>8. /\ read + 1 \in 1..Len(answers)
      /\ came[1] \in Arrivals(Reply(block))
      /\ Closes(came[1]) /\ e \in 1..Len(w)
      /\ \A i \in 1..e : w[i] = came[1][i]
    <2>1. Laid(w, answers, read, came, p) /\ w \in Seq(Words) /\ answers \in Seq(Blocks) /\ Len(w) # 0
        BY <1>2, <1>5, <1>6, <1>7, Zenon
    <2> HIDE DEF w
    <2>2. /\ read + 1 \in 1..Len(answers)
          /\ came[1] \in Arrivals(Reply(answers[read + 1]))
          /\ Closes(came[1]) /\ p[1] = Len(came[1]) /\ Len(came[1]) \in 1..Len(w)
          /\ \A i \in 1..Len(came[1]) : w[i] = came[1][i]
        BY <2>1, FirstOf
    <2> QED BY <2>2, Zenon
<1>9. block \in Blocks
    BY <1>2, <1>8
<1>10. /\ e \in 1..Len(buffer) /\ Decode.consumed = e
       /\ IF came[1] = Reply(block) THEN Decode.kind \in {"block", "ack"} /\ Decode.payload = block
          ELSE Decode.kind \notin {"block", "ack"}
    <2>1. Len(came[1]) <= Len(buffer \o line)
        BY <1>6, <1>8
    <2> QED BY <2>1, <1>2, <1>3, <1>8, <1>9, DecodeIs
<1>11. Len(answers) \in Nat /\ Len(accepted) \in Nat /\ read \in Nat /\ read + 1 <= Len(answers)
       /\ read + 1 \in 0..Len(answers)
    BY <1>2, <1>8
<1>12. accepted' = IF came[1] = Reply(block) THEN Append(accepted, block) ELSE accepted
    BY <1>3, <1>10, Zenon
<1>13. accepted' \in Seq(Blocks)
       /\ Len(accepted') = IF came[1] = Reply(block) THEN Len(accepted) + 1 ELSE Len(accepted)
    BY <1>2, <1>9, <1>12
<1> HIDE DEF w, e, block, came2
<1>14. buffer' = SubSeq(buffer, e + 1, Len(buffer))
    BY <1>3, <1>10, Zenon
<1>15. /\ buffer' \in Seq(Words) /\ Len(buffer') = Len(buffer) - e
       /\ \A k \in 1..Len(buffer') : buffer'[k] = buffer[k + e]
    <2>1. \A k \in e + 1..Len(buffer) : buffer[k] \in Words
        BY <1>2, <1>6, <1>10
    <2>2. e + 1 \in Int /\ Len(buffer) \in Int
        BY <1>6, <1>10
    <2> DEFINE s == SubSeq(buffer, e + 1, Len(buffer))
    <2>3. /\ s \in Seq(Words)
          /\ Len(s) = IF e + 1 <= Len(buffer) THEN Len(buffer) - (e + 1) + 1 ELSE 0
          /\ \A i \in 1..Len(buffer) - (e + 1) + 1 : s[i] = buffer[e + 1 + i - 1]
        BY <2>1, <2>2, SubSeqProperties
    <2>4. /\ (IF e + 1 <= Len(buffer) THEN Len(buffer) - (e + 1) + 1 ELSE 0) = Len(buffer) - e
          /\ Len(buffer) - (e + 1) + 1 = Len(buffer) - e
          /\ \A i \in 1..Len(buffer) - e : e + 1 + i - 1 = i + e
        <3> DEFINE n == Len(buffer)
        <3>1. n \in Nat /\ e \in 1..n
            BY <1>6, <1>10
        <3> HIDE DEF n
        <3>2. /\ (IF e + 1 <= n THEN n - (e + 1) + 1 ELSE 0) = n - e
              /\ n - (e + 1) + 1 = n - e
              /\ \A i \in 1..n - e : e + 1 + i - 1 = i + e
            BY <3>1
        <3> QED BY <3>2, Zenon DEF n
    <2> HIDE DEF s
    <2>5. s \in Seq(Words) /\ Len(s) = Len(buffer) - e
          /\ \A k \in 1..Len(s) : s[k] = buffer[k + e]
        BY <2>3, <2>4
    <2> QED BY <2>5, <1>14 DEF s
<1> DEFINE v == buffer' \o line'
<1>16. v \in Seq(Words) /\ Shortened(w, e, v)
    <2>1. /\ v \in Seq(Words) /\ Len(v) = Len(buffer') + Len(line)
          /\ \A k \in 1..Len(v) : v[k] = IF k <= Len(buffer') THEN buffer'[k] ELSE line[k - Len(buffer')]
        <3>1. buffer' \in Seq(Words) /\ line \in Seq(Words) /\ line' = line
            BY <1>2, <1>3, <1>15, Zenon
        <3>2. \A s, t \in Seq(Words) :
                /\ s \o t \in Seq(Words) /\ Len(s \o t) = Len(s) + Len(t)
                /\ \A k \in 1..Len(s \o t) : (s \o t)[k] = IF k <= Len(s) THEN s[k] ELSE t[k - Len(s)]
            BY ConcatProperties
        <3> QED BY <3>1, <3>2, Zenon
    <2> HIDE DEF v
    <2>2. Len(v) = Len(w) - e
        BY <2>1, <1>6, <1>10, <1>15
    <2>3. ASSUME NEW k \in 1..Len(v) PROVE v[k] = w[k + e]
        <3>1. k + e \in 1..Len(w) /\ (k + e <= Len(buffer) <=> k <= Len(buffer'))
              /\ (k + e) - Len(buffer) = k - Len(buffer') /\ k \in Nat /\ Len(buffer') \in Nat
            BY <2>2, <1>6, <1>10, <1>15
        <3>2. CASE k <= Len(buffer')
            <4>1. k \in 1..Len(buffer')
                BY <3>1, <3>2
            <4>2. v[k] = buffer[k + e]
                BY <4>1, <3>2, <2>1, <1>15
            <4>3. w[k + e] = buffer[k + e]
                BY <3>1, <3>2, <1>6
            <4> QED BY <4>2, <4>3
        <3>3. CASE ~ (k <= Len(buffer'))
            <4>1. v[k] = line[k - Len(buffer')]
                BY <3>3, <2>1
            <4>2. w[k + e] = line[(k + e) - Len(buffer)]
                BY <3>1, <3>3, <1>6
            <4> QED BY <4>1, <4>2, <3>1
        <3> QED BY <3>2, <3>3
    <2> QED BY <2>1, <2>2, <2>3, Zenon DEF Shortened
<1> HIDE DEF v
<1>17. PICK p2 : Laid(v, answers, read + 1, came2, p2)
    <2>1. Laid(w, answers, read, came, p) /\ Shortened(w, Len(came[1]), v)
        BY <1>5, <1>16, Zenon DEF w, e
    <2>2. came2 = Later(came, Len(answers) - (read + 1))
        BY Zenon DEF came2
    <2> QED BY <2>1, <2>2, <1>2, <1>6, <1>7, <1>16, LaidLess, Zenon
<1>18. PICK c2 : Charged(answers, Len(accepted'), faults, read + 1, came2, c2)
    <2>1. came2 = Later(came, Len(answers) - (read + 1))
        BY Zenon DEF came2
    <2>2. Len(accepted') \in Nat
        BY <1>13
    <2>3. Len(accepted') = IF came[1] = Reply(answers[read + 1]) THEN Len(accepted) + 1 ELSE Len(accepted)
        BY <1>13, Zenon DEF block
    <2> QED BY <2>1, <2>2, <2>3, <1>2, <1>5, <1>11, ChargedLess, Zenon
<1>19. \E from2 : Kept(accepted', answers, read + 1, from2)
    <2> DEFINE n == Len(accepted)
    <2>1. /\ from \in [1..n -> 1..read]
          /\ \A j, k \in 1..n : j < k => from[j] < from[k]
          /\ \A k \in 1..n : accepted[k] = answers[from[k]]
        BY <1>5, Zenon DEF Kept
    <2>2. n \in Nat
        BY <1>11
    <2>3. CASE came[1] = Reply(block)
        <3> DEFINE from2 == [k \in 1..n + 1 |-> IF k = n + 1 THEN read + 1 ELSE from[k]]
        <3>1. accepted' = Append(accepted, block)
            BY <1>12, <2>3
        <3>2. /\ Len(accepted') = n + 1 /\ accepted'[n + 1] = block
              /\ \A k \in 1..n : accepted'[k] = accepted[k]
            BY <3>1, <1>2, <1>9
        <3> HIDE DEF n
        <3>3. /\ \A k \in 1..n + 1 : k = n + 1 \/ k \in 1..n
              /\ \A k \in 1..n : k # n + 1 /\ k \in 1..n + 1
              /\ n + 1 \in 1..n + 1
            BY <2>2
        <3>4. \A k \in 1..n : from[k] \in 1..read /\ from[k] \in 1..read + 1 /\ from[k] < read + 1
            BY <2>1, <1>11
        <3>5. read + 1 \in 1..read + 1
            BY <1>11
        <3>6. from2 \in [1..n + 1 -> 1..read + 1]
            <4>1. \A k \in 1..n + 1 : (IF k = n + 1 THEN read + 1 ELSE from[k]) \in 1..read + 1
                BY <3>3, <3>4, <3>5
            <4> QED BY <4>1
        <3>7. from2[n + 1] = read + 1 /\ \A k \in 1..n : from2[k] = from[k]
            BY <3>3
        <3> HIDE DEF from2
        <3>8. \A j, k \in 1..n + 1 : j < k => from2[j] < from2[k]
            <4> TAKE j, k \in 1..n + 1
            <4> HAVE j < k
            <4>1. j \in 1..n
                BY <2>2
            <4>2. CASE k = n + 1
                BY <4>1, <4>2, <3>4, <3>7
            <4>3. CASE k \in 1..n
                BY <4>1, <4>3, <2>1, <3>7
            <4> QED BY <4>2, <4>3, <3>3
        <3>9. \A k \in 1..n + 1 : accepted'[k] = answers[from2[k]]
            <4> TAKE k \in 1..n + 1
            <4>1. CASE k = n + 1
                BY <4>1, <3>2, <3>7, Zenon DEF block
            <4>2. CASE k \in 1..n
                BY <4>2, <2>1, <3>2, <3>7, Zenon
            <4> QED BY <4>1, <4>2, <3>3, Zenon
        <3>10. Kept(accepted', answers, read + 1, from2)
            BY <3>2, <3>6, <3>8, <3>9, Zenon DEF Kept
        <3> QED BY <3>10
    <2>4. CASE came[1] # Reply(block)
        <3>1. accepted' = accepted
            BY <1>12, <2>4
        <3>2. 1..read \subseteq 1..read + 1
            BY <1>11
        <3>3. from \in [1..n -> 1..read + 1]
            BY <2>1, <3>2
        <3>4. Kept(accepted, answers, read + 1, from)
            BY <2>1, <3>3, Zenon DEF Kept
        <3> QED BY <3>1, <3>4
    <2> QED BY <2>3, <2>4
<1>20. BusTypes'
    BY <1>1, <1>3, <1>13, <1>15 DEF BusTypes
<1>21. BusIsAsked' /\ ExecutesWhatWasAsked'
    BY <1>1, <1>3, Zenon DEF BusIsAsked, ExecutesWhatWasAsked
<1>22. Accounted(buffer \o line, answers, accepted, faults)'
    <2>1. Accounted(v, answers, accepted', faults)
        BY <1>11, <1>17, <1>18, <1>19, Zenon DEF Accounted
    <2> QED BY <2>1, <1>3, Zenon DEF v
<1> QED BY <1>20, <1>21, <1>22, Zenon DEF BusInv

\* A peripheral executes what was asked of it and nothing else; the blocks a
\* caller is given are answers, whole and in their order, and each one that
\* is missing is paid for by a fault or still waits: for any asks and
\* answers, any number of frames and of faults (mdb.rs).
THEOREM BusIsTrue ==
    ASSUME BusAssumption
    PROVE  BusSpec => []BusSaysWhatWasMeant
<1>1. BusInit => BusInv
    BY BusInvInit
<1>2. BusInv /\ [BusNext]_busVars => BusInv'
    <2> SUFFICES ASSUME BusInv, [BusNext]_busVars PROVE BusInv'
        OBVIOUS
    <2>1. CASE MasterAsks
        BY <2>1, BusInvAsks
    <2>2. CASE PeripheralsHear
        BY <2>2, BusInvHear
    <2>3. CASE WordArrives
        BY <2>3, BusInvWord
    <2>4. CASE TakeFrame
        BY <2>4, BusInvTake
    <2>5. CASE UNCHANGED busVars
        <3>1. /\ asked' = asked /\ bus' = bus /\ executed' = executed /\ answers' = answers
              /\ line' = line /\ buffer' = buffer /\ accepted' = accepted /\ faults' = faults
            BY <2>5 DEF busVars
        <3> QED BY <3>1, Zenon DEF BusInv, BusTypes, BusIsAsked, ExecutesWhatWasAsked, Accounted
    <2> QED BY <2>1, <2>2, <2>3, <2>4, <2>5 DEF BusNext
<1>3. BusInv => BusSaysWhatWasMeant
    BY BusInvTells
<1> QED BY <1>1, <1>2, <1>3, PTL DEF BusSpec
=============================================================================
