---------------------------- MODULE FiscalQueue ----------------------------
(***************************************************************************)
(* The till's offline fiscal queue: OfflineQueueingProvider wrapped around *)
(* the operator's client, the table FiscalQueueEntries behind it, the      *)
(* replay gate kept per store, the replay scheduler and the clerk's screen *)
(* of unfiscalised receipts.                                               *)
(*                                                                         *)
(* A document is named by its idempotency key.  The Dart code is single    *)
(* threaded, so the actions cut it at its awaits: a live document being    *)
(* guarded, a replay pass walking its snapshot, and a clerk's retry        *)
(* interleave wherever one of them waits for the operator or the database. *)
(* The operator is external: it registers a key at most once and an answer *)
(* of its may be lost, or its work may be done after the till gave up.     *)
(***************************************************************************)
EXTENDS Integers, FiniteSets

CONSTANTS
    Docs,              \* idempotency keys of the documents the till takes
    Op,                \* Op[d]: FiscalQueueOp of the document
    Basis,             \* Basis[d]: basisDocumentKey, or NoDoc when unnamed
    NoDoc,
    Passes,            \* identities of replay passes
    Retries,           \* identities of retries pressed by a clerk
    Runners,           \* concurrent calls of FiscalReplayScheduler.runOnce
    NoPass,
    MaxTransient,      \* maxConsecutiveTransient
    Window,            \* offlineWindow, in ticks
    MaxTime,           \* bound on the clock
    MaxCrashes,        \* bound on restarts of the till
    ConcurrentRefund   \* may a refund start before its sale was answered?

Ops == {"sale", "refund", "purchase", "purchaseReturn", "moneyIn", "moneyOut"}

Senders == Docs \cup Passes \cup Retries

ASSUME SortsAssumption ==
    /\ Docs \cap Passes = {} /\ Docs \cap Retries = {} /\ Passes \cap Retries = {}
    /\ NoDoc \notin Docs /\ NoPass \notin Passes
ASSUME OpAssumption == Op \in [Docs -> Ops]
ASSUME BasisAssumption ==
    /\ Basis \in [Docs -> Docs \cup {NoDoc}]
    /\ \A d \in Docs : Basis[d] # NoDoc => Op[d] \in {"refund", "purchaseReturn"}
    /\ \A d \in Docs : Basis[d] # d
ASSUME BoundsAssumption ==
    /\ MaxTransient \in Nat \ {0} /\ Window \in Nat
    /\ MaxTime \in Nat /\ Window < MaxTime /\ MaxCrashes \in Nat
    /\ ConcurrentRefund \in BOOLEAN

VARIABLES
    row,        \* row[d]: the table's row of key d
    stored,     \* keys whose fiscal sign is in WebkassaReceipts
    live,       \* live[d]: where _guard stands with the document
    at,         \* at[d]: occurredAt
    env,        \* refunds whose envelope carries the sign of their basis
    wire,       \* wire[s]: what became of the request sender s waits for
    cur,        \* cur[s]: the document that request carries
    mark,       \* mark[r]: does the retried copy carry the write-off?
    pass,       \* pass[p]: where the replay pass stands
    todo,       \* todo[p]: snapshot entries still to be walked
    still,      \* still[p]: stillQueued
    blocked,    \* blocked[p]
    streak,     \* streak[p]: consecutiveTransient
    running,    \* gate.running
    queued,     \* gate.queued # null
    run,        \* run[c]: where runOnce stands
    shiftOpen,  \* the till's shift
    registered, \* keys the operator holds a document for
    late,       \* requests the operator may still serve, nobody waiting
    acked,      \* keys whose registration the till was told of (history)
    now,
    crashes

disk == <<row, stored>>
guard == <<live, at, env>>
net == <<wire, cur, mark>>
walk == <<pass, todo, still, blocked, streak>>
gate == <<running, queued>>
operator == <<registered, late, acked>>
vars == <<disk, guard, net, walk, gate, run, shiftOpen, operator, now, crashes>>

Rows == {"absent", "pending", "failed", "bare", "writtenOff"}
LiveStates == {"new", "wire", "toQueue", "toFailed", "toBare",
               "answered", "refused", "lost"}
Stages == {"idle", "sent", "ok", "dup", "no"}

TypeOK ==
    /\ row \in [Docs -> Rows] /\ stored \subseteq Docs
    /\ live \in [Docs -> LiveStates] /\ at \in [Docs -> 0..MaxTime] /\ env \subseteq Docs
    /\ wire \in [Senders -> Stages] /\ cur \in [Senders -> Docs \cup {NoDoc}]
    /\ mark \in [Retries -> BOOLEAN]
    /\ pass \in [Passes -> {"idle", "begin", "walk", "wait"}]
    /\ todo \in [Passes -> SUBSET Docs] /\ still \in [Passes -> SUBSET Docs]
    /\ blocked \in [Passes -> BOOLEAN] /\ streak \in [Passes -> 0..MaxTransient]
    /\ running \in Passes \cup {NoPass} /\ queued \in BOOLEAN
    /\ run \in [Runners -> {"idle", "counted", "clear"}] /\ shiftOpen \in BOOLEAN
    /\ registered \subseteq Docs /\ late \subseteq Docs /\ acked \subseteq Docs
    /\ now \in 0..MaxTime /\ crashes \in 0..MaxCrashes

-----------------------------------------------------------------------------
(* The rule that keeps a document behind the one it depends on.            *)

Dependency(op) ==
    CASE op \in {"sale", "moneyIn"} -> "none"
      [] op \in {"refund", "purchaseReturn"} -> "ownBasis"
      [] OTHER -> "drawerBalance"

\* Fault: a refund is never held behind the sale it names.
HoldsCoarsely(d, coarseBlocked, inQueue) ==
    LET dep == Dependency(Op[d])
    IN  \/ dep = "drawerBalance" /\ coarseBlocked
        \/ dep = "ownBasis" /\ Basis[d] = NoDoc /\ coarseBlocked

Holds(d, coarseBlocked, inQueue) ==
    LET dep == Dependency(Op[d])
    IN  \/ dep = "drawerBalance" /\ coarseBlocked
        \/ dep = "ownBasis" /\ Basis[d] = NoDoc /\ coarseBlocked
        \/ dep = "ownBasis" /\ Basis[d] \in inQueue

Pending == {d \in Docs : row[d] = "pending"}

HeldByQueue(d) == Holds(d, Pending # {}, Pending)

\* INSERT OR IGNORE: a key already in the table keeps its row.
Enqueued(d, status) == IF row[d] = "absent" THEN [row EXCEPT ![d] = status] ELSE row

\* UPDATE ... WHERE key = d: a key no longer in the table stays out of it.
Updated(d, status) == IF row[d] = "absent" THEN row ELSE [row EXCEPT ![d] = status]

Removed(d) == [row EXCEPT ![d] = "absent"]

\* Fault: the difference is taken the wrong way round.
ExpiredSwapped(d) == at[d] - now > Window

Expired(d) == now - at[d] > Window

-----------------------------------------------------------------------------
Init ==
    /\ row = [d \in Docs |-> "absent"] /\ stored = {}
    /\ live = [d \in Docs |-> "new"] /\ at = [d \in Docs |-> 0] /\ env = {}
    /\ wire = [s \in Senders |-> "idle"] /\ cur = [s \in Senders |-> NoDoc]
    /\ mark = [r \in Retries |-> FALSE]
    /\ pass = [p \in Passes |-> "idle"]
    /\ todo = [p \in Passes |-> {}] /\ still = [p \in Passes |-> {}]
    /\ blocked = [p \in Passes |-> FALSE] /\ streak = [p \in Passes |-> 0]
    /\ running = NoPass /\ queued = FALSE
    /\ run = [c \in Runners |-> "idle"] /\ shiftOpen = TRUE
    /\ registered = {} /\ late = {} /\ acked = {}
    /\ now = 0 /\ crashes = 0

\* A request for document d leaves on behalf of sender s.
Send(s, d) == wire' = [wire EXCEPT ![s] = "sent"] /\ cur' = [cur EXCEPT ![s] = d]

\* The sender's wait is over.  A request nobody waits for any more may still
\* be on its way to the operator.
Receive(s) ==
    /\ wire' = [wire EXCEPT ![s] = "idle"] /\ cur' = [cur EXCEPT ![s] = NoDoc]
    /\ late' = IF wire[s] = "sent" THEN late \cup {cur[s]} ELSE late

-----------------------------------------------------------------------------
(* _guard: a live document.                                                *)

\* What a document needs before it exists: a refund comes after its sale was
\* paid, and from the sale's own terminal after the sale was answered for.
Settled(d) == live[d] \in {"answered", "refused", "lost"}

\* The document's own facts are fixed before the guard runs: its time, and
\* for a refund the sign of its basis as WebkassaReceipts has it now.
\* The clock's bound leaves every document's window room to pass.
Compose(d) ==
    /\ live[d] = "new" /\ now + Window < MaxTime
    /\ Basis[d] # NoDoc =>
          /\ live[Basis[d]] # "new" /\ at[Basis[d]] < now
          /\ ConcurrentRefund \/ Settled(Basis[d])
    /\ at' = [at EXCEPT ![d] = now]
    /\ env' = IF Basis[d] \in stored THEN env \cup {d} ELSE env

\* The operator is reachable and the queue does not hold the document.
GuardSend(d) ==
    /\ Compose(d) /\ ~HeldByQueue(d)
    /\ live' = [live EXCEPT ![d] = "wire"]
    /\ Send(d, d)
    /\ UNCHANGED <<disk, mark, walk, gate, run, shiftOpen, operator, now, crashes>>

\* The operator is unreachable, or the document stands behind another.
GuardHold(d) ==
    /\ Compose(d)
    /\ live' = [live EXCEPT ![d] = "toQueue"]
    /\ UNCHANGED <<disk, net, walk, gate, run, shiftOpen, operator, now, crashes>>

\* Building the envelope of a sale threw: no document, a note in its place.
GuardUnbuilt(d) ==
    /\ Compose(d) /\ Op[d] = "sale"
    /\ live' = [live EXCEPT ![d] = "toBare"]
    /\ UNCHANGED <<disk, net, walk, gate, run, shiftOpen, operator, now, crashes>>

GuardSuccess(d) ==
    /\ live[d] = "wire" /\ wire[d] = "ok"
    /\ Receive(d)
    /\ live' = [live EXCEPT ![d] = "answered"]
    /\ stored' = stored \cup {d}
    /\ acked' = acked \cup {d}
    /\ UNCHANGED <<row, at, env, mark, walk, gate, run, shiftOpen, registered, now, crashes>>

\* A transient error code, or a throw, whatever the operator did.
GuardTransient(d) ==
    /\ live[d] = "wire" /\ wire[d] # "idle"
    /\ Receive(d)
    /\ live' = [live EXCEPT ![d] = "toQueue"]
    /\ UNCHANGED <<disk, at, env, mark, walk, gate, run, shiftOpen, registered, acked, now, crashes>>

\* Refused for good.  Only the payment service keeps a refused document.
GuardRefused(d) ==
    /\ live[d] = "wire" /\ wire[d] \in {"no", "dup"}
    /\ Receive(d)
    /\ live' = [live EXCEPT ![d] = IF Op[d] = "sale" THEN "toFailed" ELSE "refused"]
    /\ UNCHANGED <<disk, at, env, mark, walk, gate, run, shiftOpen, registered, acked, now, crashes>>

\* The row is laid: pending by the guard, failed by the payment service, or a
\* note where there is no document.
Enqueue(d) ==
    /\ live[d] \in {"toQueue", "toFailed", "toBare"}
    /\ row' = Enqueued(d, CASE live[d] = "toQueue" -> "pending"
                            [] live[d] = "toFailed" -> "failed"
                            [] OTHER -> "bare")
    /\ live' = [live EXCEPT ![d] = "answered"]
    /\ UNCHANGED <<stored, at, env, net, walk, gate, run, shiftOpen, operator, now, crashes>>

\* The row is not laid: the database refuses it, or the payment service has no
\* queue.  A sale the guard could not queue comes back as failed and the
\* payment service tries to record it; where that fails too it is only logged
\* and the sale is answered as failed, with no row.
EnqueueFails(d) ==
    /\ live[d] \in {"toQueue", "toFailed", "toBare"}
    /\ live' = [live EXCEPT ![d] = IF live[d] = "toQueue" /\ Op[d] = "sale"
                                   THEN "toFailed" ELSE "refused"]
    /\ UNCHANGED <<disk, at, env, net, walk, gate, run, shiftOpen, operator, now, crashes>>

-----------------------------------------------------------------------------
(* FiscalReplayScheduler.runOnce, and replay's gate.                       *)

RunOnceCount(c) ==
    /\ run[c] = "idle" /\ Pending # {}
    /\ run' = [run EXCEPT ![c] = "counted"]
    /\ UNCHANGED <<disk, guard, net, walk, gate, shiftOpen, operator, now, crashes>>

RunOnceShift(c) ==
    /\ run[c] = "counted"
    /\ run' = [run EXCEPT ![c] = IF shiftOpen THEN "clear" ELSE "idle"]
    /\ UNCHANGED <<disk, guard, net, walk, gate, shiftOpen, operator, now, crashes>>

StartPass(p) ==
    /\ pass[p] = "idle"
    /\ pass' = [pass EXCEPT ![p] = "begin"]
    /\ running' = p
    /\ UNCHANGED <<todo, still, blocked, streak>>

\* Fault: the gate is forgotten, every call starts a pass of its own.
ReplayUngated(c) == (\E p \in Passes : StartPass(p)) /\ queued' = queued

\* A pass already running is never joined by a second: all who call while it
\* runs share the one pass that follows it.
Replay(c) ==
    /\ \/ running = NoPass /\ (\E p \in Passes : StartPass(p)) /\ queued' = queued
       \/ running # NoPass /\ queued' = TRUE /\ UNCHANGED <<walk, running>>

RunOnceReplay(c) ==
    /\ run[c] = "clear"
    /\ run' = [run EXCEPT ![c] = "idle"]
    /\ Replay(c)
    /\ UNCHANGED <<disk, guard, net, shiftOpen, operator, now, crashes>>

-----------------------------------------------------------------------------
(* _replayPass.                                                            *)

\* The pass is over; the queued one, if any, starts in its place.
FinishPass(p) ==
    /\ pass' = [pass EXCEPT ![p] = IF queued THEN "begin" ELSE "idle"]
    /\ running' = IF queued THEN p ELSE IF running = p THEN NoPass ELSE running
    /\ queued' = FALSE
    /\ todo' = [todo EXCEPT ![p] = {}] /\ still' = [still EXCEPT ![p] = {}]
    /\ blocked' = [blocked EXCEPT ![p] = FALSE] /\ streak' = [streak EXCEPT ![p] = 0]

PassUnreachable(p) ==
    /\ pass[p] = "begin"
    /\ FinishPass(p)
    /\ UNCHANGED <<disk, guard, net, run, shiftOpen, operator, now, crashes>>

PassSnapshot(p) ==
    /\ pass[p] = "begin"
    /\ pass' = [pass EXCEPT ![p] = "walk"]
    /\ todo' = [todo EXCEPT ![p] = Pending] /\ still' = [still EXCEPT ![p] = Pending]
    /\ UNCHANGED <<disk, guard, net, blocked, streak, gate, run, shiftOpen, operator, now, crashes>>

\* The next entry in the order of occurredAt.
Upcoming(p, d) == d \in todo[p] /\ \A e \in todo[p] : at[d] <= at[e]

HeldInPass(p, d) == Holds(d, blocked[p], still[p])

PassExpire(p, d) ==
    /\ pass[p] = "walk" /\ Upcoming(p, d) /\ Expired(d)
    /\ row' = Updated(d, "failed")
    /\ todo' = [todo EXCEPT ![p] = @ \ {d}] /\ still' = [still EXCEPT ![p] = @ \ {d}]
    /\ UNCHANGED <<stored, guard, net, pass, blocked, streak, gate, run, shiftOpen, operator, now, crashes>>

PassHold(p, d) ==
    /\ pass[p] = "walk" /\ Upcoming(p, d) /\ ~Expired(d) /\ HeldInPass(p, d)
    /\ todo' = [todo EXCEPT ![p] = @ \ {d}]
    /\ UNCHANGED <<disk, guard, net, pass, still, blocked, streak, gate, run, shiftOpen, operator, now, crashes>>

PassCut(p, d) ==
    /\ pass[p] = "walk" /\ Upcoming(p, d) /\ ~Expired(d) /\ ~HeldInPass(p, d)
    /\ streak[p] >= MaxTransient
    /\ FinishPass(p)
    /\ UNCHANGED <<disk, guard, net, run, shiftOpen, operator, now, crashes>>

PassDispatch(p, d) ==
    /\ pass[p] = "walk" /\ Upcoming(p, d) /\ ~Expired(d) /\ ~HeldInPass(p, d)
    /\ streak[p] < MaxTransient
    /\ pass' = [pass EXCEPT ![p] = "wait"]
    /\ todo' = [todo EXCEPT ![p] = @ \ {d}]
    /\ Send(p, d)
    /\ UNCHANGED <<disk, guard, mark, still, blocked, streak, gate, run, shiftOpen, operator, now, crashes>>

PassSuccess(p) ==
    /\ pass[p] = "wait" /\ wire[p] = "ok"
    /\ Receive(p)
    /\ row' = Removed(cur[p])
    /\ acked' = acked \cup {cur[p]}
    /\ pass' = [pass EXCEPT ![p] = "walk"]
    /\ still' = [still EXCEPT ![p] = @ \ {cur[p]}]
    /\ streak' = [streak EXCEPT ![p] = 0]
    /\ UNCHANGED <<stored, guard, mark, todo, blocked, gate, run, shiftOpen, registered, now, crashes>>

\* Fault: code 14 is taken for success and the row removed, as it once was.
PassRefusedDedup(p) ==
    /\ pass[p] = "wait" /\ wire[p] \in {"no", "dup"}
    /\ Receive(p)
    /\ row' = IF wire[p] = "dup" THEN Removed(cur[p]) ELSE Updated(cur[p], "failed")
    /\ pass' = [pass EXCEPT ![p] = "walk"]
    /\ still' = [still EXCEPT ![p] = @ \ {cur[p]}]
    /\ streak' = [streak EXCEPT ![p] = 0]
    /\ UNCHANGED <<stored, guard, mark, todo, blocked, gate, run, shiftOpen, registered, acked, now, crashes>>

\* Refused for good, or already registered (code 14): to a human either way.
PassRefused(p) ==
    /\ pass[p] = "wait" /\ wire[p] \in {"no", "dup"}
    /\ Receive(p)
    /\ row' = Updated(cur[p], "failed")
    /\ pass' = [pass EXCEPT ![p] = "walk"]
    /\ still' = [still EXCEPT ![p] = @ \ {cur[p]}]
    /\ streak' = [streak EXCEPT ![p] = 0]
    /\ UNCHANGED <<stored, guard, mark, todo, blocked, gate, run, shiftOpen, registered, acked, now, crashes>>

\* Fault: a row that cannot be restored is thrown away.
PassThrowAway(p) ==
    /\ pass[p] = "wait" /\ wire[p] # "idle"
    /\ Receive(p)
    /\ row' = Removed(cur[p])
    /\ pass' = [pass EXCEPT ![p] = "walk"]
    /\ still' = [still EXCEPT ![p] = @ \ {cur[p]}]
    /\ UNCHANGED <<stored, guard, mark, todo, blocked, streak, gate, run, shiftOpen, registered, acked, now, crashes>>

\* Restoring the document, or reading the answer, threw.
PassThrow(p) ==
    /\ pass[p] = "wait" /\ wire[p] # "idle"
    /\ Receive(p)
    /\ row' = Updated(cur[p], "failed")
    /\ pass' = [pass EXCEPT ![p] = "walk"]
    /\ still' = [still EXCEPT ![p] = @ \ {cur[p]}]
    /\ UNCHANGED <<stored, guard, mark, todo, blocked, streak, gate, run, shiftOpen, registered, acked, now, crashes>>

\* Fault: a deferred row does not block the withdrawals after it.
PassTransientUnblocked(p) ==
    /\ pass[p] = "wait" /\ wire[p] # "idle"
    /\ Receive(p)
    /\ row' = Updated(cur[p], "pending")
    /\ pass' = [pass EXCEPT ![p] = "walk"]
    /\ streak' = [streak EXCEPT ![p] = @ + 1]
    /\ UNCHANGED <<stored, guard, mark, todo, still, blocked, gate, run, shiftOpen, registered, acked, now, crashes>>

PassTransient(p) ==
    /\ pass[p] = "wait" /\ wire[p] # "idle"
    /\ Receive(p)
    /\ row' = Updated(cur[p], "pending")
    /\ pass' = [pass EXCEPT ![p] = "walk"]
    /\ blocked' = [blocked EXCEPT ![p] = TRUE]
    /\ streak' = [streak EXCEPT ![p] = @ + 1]
    /\ UNCHANGED <<stored, guard, mark, todo, still, gate, run, shiftOpen, registered, acked, now, crashes>>

\* The database refuses what the pass writes: the exception ends the pass, and
\* the row stays as it was.
PassBreaks(p) ==
    /\ \/ pass[p] = "wait" /\ wire[p] # "idle"
       \/ pass[p] = "walk" /\ \E d \in todo[p] : Upcoming(p, d) /\ Expired(d)
    /\ Receive(p)
    /\ acked' = IF wire[p] = "ok" THEN acked \cup {cur[p]} ELSE acked
    /\ FinishPass(p)
    /\ UNCHANGED <<disk, guard, mark, run, shiftOpen, registered, now, crashes>>

PassEnd(p) ==
    /\ pass[p] = "walk" /\ todo[p] = {}
    /\ FinishPass(p)
    /\ UNCHANGED <<disk, guard, net, run, shiftOpen, operator, now, crashes>>

-----------------------------------------------------------------------------
(* The clerk's screen: retryFailed and writeOffFailed.                     *)

\* Retry is offered for a row that carries its document and no write-off.
RetryFailed(r, d) ==
    /\ wire[r] = "idle" /\ row[d] = "failed"
    /\ Send(r, d)
    /\ mark' = [mark EXCEPT ![r] = FALSE]
    /\ UNCHANGED <<disk, guard, walk, gate, run, shiftOpen, operator, now, crashes>>

RetrySuccess(r) ==
    /\ wire[r] = "ok"
    /\ Receive(r)
    /\ row' = Removed(cur[r])
    /\ acked' = acked \cup {cur[r]}
    /\ UNCHANGED <<stored, guard, mark, walk, gate, run, shiftOpen, registered, now, crashes>>

\* Fault: a retry that failed puts the row back into automatic replay.
RetryNotRequeues(r) ==
    /\ wire[r] # "idle"
    /\ Receive(r)
    /\ row' = Updated(cur[r], "pending")
    /\ UNCHANGED <<stored, guard, mark, walk, gate, run, shiftOpen, registered, acked, now, crashes>>

\* Any other answer writes the clerk's copy of the row back.
RetryNot(r) ==
    /\ wire[r] # "idle"
    /\ Receive(r)
    /\ row' = Updated(cur[r], IF mark[r] THEN "writtenOff" ELSE "failed")
    /\ UNCHANGED <<stored, guard, mark, walk, gate, run, shiftOpen, registered, acked, now, crashes>>

\* The database refuses what the retry writes.
RetryBreaks(r) ==
    /\ wire[r] # "idle"
    /\ Receive(r)
    /\ acked' = IF wire[r] = "ok" THEN acked \cup {cur[r]} ELSE acked
    /\ UNCHANGED <<disk, guard, mark, walk, gate, run, shiftOpen, registered, now, crashes>>

\* The copy on the screen is the retried one unless the screen was reopened.
WriteOff(d, copies) ==
    /\ row[d] \in {"failed", "bare"}
    /\ copies \subseteq {r \in Retries : wire[r] # "idle" /\ cur[r] = d}
    /\ row' = Updated(d, "writtenOff")
    /\ mark' = [r \in Retries |-> mark[r] \/ r \in copies]
    /\ UNCHANGED <<stored, guard, wire, cur, walk, gate, run, shiftOpen, operator, now, crashes>>

-----------------------------------------------------------------------------
(* The operator, the clock, the shift and the process.                     *)

OperatorServes(s) ==
    /\ wire[s] = "sent"
    /\ IF cur[s] \in registered
       THEN wire' = [wire EXCEPT ![s] = "dup"] /\ UNCHANGED registered
       ELSE \/ wire' = [wire EXCEPT ![s] = "ok"] /\ registered' = registered \cup {cur[s]}
            \/ wire' = [wire EXCEPT ![s] = "no"] /\ UNCHANGED registered
    /\ UNCHANGED <<disk, guard, cur, mark, walk, gate, run, shiftOpen, late, acked, now, crashes>>

\* The request arrives after its sender stopped waiting: served or dropped.
OperatorServesLate(d) ==
    /\ d \in late
    /\ late' = late \ {d}
    /\ registered' \in {registered, registered \cup {d}}
    /\ UNCHANGED <<disk, guard, net, walk, gate, run, shiftOpen, acked, now, crashes>>

Tick ==
    /\ now < MaxTime
    /\ now' = now + 1
    /\ UNCHANGED <<disk, guard, net, walk, gate, run, shiftOpen, operator, crashes>>

ToggleShift ==
    /\ shiftOpen' = ~shiftOpen
    /\ UNCHANGED <<disk, guard, net, walk, gate, run, operator, now, crashes>>

\* The process dies and is started again.  The tables survive; a document
\* the guard had not yet answered for is known to nobody.
Restart ==
    /\ crashes < MaxCrashes
    /\ crashes' = crashes + 1
    /\ live' = [d \in Docs |-> IF live[d] \in {"new", "answered", "refused"}
                               THEN live[d] ELSE "lost"]
    /\ late' = late \cup {cur[s] : s \in {t \in Senders : wire[t] = "sent"}}
    /\ wire' = [s \in Senders |-> "idle"] /\ cur' = [s \in Senders |-> NoDoc]
    /\ mark' = [r \in Retries |-> FALSE]
    /\ pass' = [p \in Passes |-> "idle"]
    /\ todo' = [p \in Passes |-> {}] /\ still' = [p \in Passes |-> {}]
    /\ blocked' = [p \in Passes |-> FALSE] /\ streak' = [p \in Passes |-> 0]
    /\ running' = NoPass /\ queued' = FALSE
    /\ run' = [c \in Runners |-> "idle"]
    /\ UNCHANGED <<disk, at, env, shiftOpen, registered, acked, now>>

-----------------------------------------------------------------------------
Guard(d) ==
    \/ GuardSend(d) \/ GuardHold(d) \/ GuardUnbuilt(d)
    \/ GuardSuccess(d) \/ GuardTransient(d) \/ GuardRefused(d)
    \/ Enqueue(d) \/ EnqueueFails(d)

Scheduler(c) == RunOnceCount(c) \/ RunOnceShift(c) \/ RunOnceReplay(c)

Pass(p) ==
    \/ PassUnreachable(p) \/ PassSnapshot(p) \/ PassEnd(p)
    \/ \E d \in Docs : PassExpire(p, d) \/ PassHold(p, d) \/ PassCut(p, d) \/ PassDispatch(p, d)
    \/ PassSuccess(p) \/ PassRefused(p) \/ PassThrow(p) \/ PassTransient(p) \/ PassBreaks(p)

Clerk(r) ==
    (\E d \in Docs : RetryFailed(r, d)) \/ RetrySuccess(r) \/ RetryNot(r) \/ RetryBreaks(r)

Next ==
    \/ \E d \in Docs : Guard(d)
    \/ \E c \in Runners : Scheduler(c)
    \/ \E p \in Passes : Pass(p)
    \/ \E r \in Retries : Clerk(r)
    \/ \E d \in Docs, copies \in SUBSET Retries : WriteOff(d, copies)
    \/ \E s \in Senders : OperatorServes(s)
    \/ \E d \in Docs : OperatorServesLate(d)
    \/ Tick \/ ToggleShift \/ Restart

Spec == Init /\ [][Next]_vars

\* The client answers or times out, a row that may be written again and again
\* is at last written, the timer goes
\* round, the clock moves, and a pass finds the operator reachable again and
\* again (the till's build passes isReachable: () async => true).  A shift
\* lasts hours and the timer's round two minutes: while something is pending,
\* some round finds the shift open.  Nothing is assumed of the operator's
\* answers, of cashiers or of the clerk.
Fairness ==
    /\ \A d \in Docs : WF_vars(GuardSuccess(d) \/ GuardTransient(d) \/ GuardRefused(d)
                               \/ Enqueue(d) \/ EnqueueFails(d))
    /\ \A c \in Runners : WF_vars(Scheduler(c)) /\ []<>(run[c] = "clear" \/ Pending = {})
    /\ \A p \in Passes : WF_vars(Pass(p)) /\ SF_vars(PassSnapshot(p))
                       /\ SF_vars(\E d \in Docs : PassExpire(p, d))
    /\ WF_vars(Tick)

FairSpec == Spec /\ Fairness

-----------------------------------------------------------------------------
(* What must hold.                                                         *)

\* A document answered as done, as queued, or as failed with its row laid is
\* never without a trace: its row is in the table, or the operator holds it
\* and told the till so.  Rows leave the table in replay and in a clerk's
\* retry, racing restarts, lost answers, code 14 and refused writes; none of
\* these may take the last trace of the document along.  What is answered as
\* failed because its row could not be laid has no trace from the start
\* (SaleLeavesTrace).
AnsweredIsAccounted ==
    \A d \in Docs : live[d] = "answered" /\ row[d] = "absent"
                     => d \in acked /\ d \in registered

\* One document is never on its way to the operator twice, but for a clerk who
\* presses Retry twice: the live call, the pass and the retry exclude each
\* other, and so do two passes (the gate is kept on the store).
NoDoubleDispatch ==
    \A s, t \in Senders :
        (s # t /\ wire[s] # "idle" /\ wire[t] # "idle" /\ cur[s] = cur[t])
        => s \in Retries /\ t \in Retries

\* A refund sent by the guard or by a pass never overtakes its own sale while
\* that sale waits in the queue: _guard and _replayPass apply one rule.
RefundBehindBasis ==
    \A s \in Docs \cup Passes :
        (wire[s] # "idle" /\ Basis[cur[s]] # NoDoc) => row[Basis[cur[s]]] # "pending"

\* A pass sends a document that takes money out of the drawer only when every
\* earlier document of its snapshot is out of the queue.
WithdrawalBehindEarlier ==
    \A p \in Passes :
        (pass[p] = "wait" /\ Dependency(Op[cur[p]]) = "drawerBalance")
        => \A e \in still[p] : at[e] >= at[cur[p]]

\* What was handed to a human never goes back to automatic replay: a pass
\* writes its stale copies of rows back, but never over a failed row.
FailedStaysWithHuman ==
    [][\A d \in Docs : row[d] \in {"failed", "bare", "writtenOff"}
                        => row'[d] # "pending"]_vars

\* Where the books of FiscalLedger have a document, from where the guard
\* stands with it and its row.
BookOf(l, r) ==
    CASE l = "new" -> "none"
      [] l \in {"wire", "toQueue", "toFailed", "toBare"} -> "owed"
      [] l \in {"refused", "lost"} -> "dropped"
      [] l = "answered" /\ r = "pending" -> "queued"
      [] l = "answered" /\ r = "absent" -> "settled"
      [] OTHER -> "human"

Book(d) == BookOf(live[d], row[d])

Ledger == INSTANCE FiscalLedger WITH book <- [d \in Docs |-> Book(d)]

\* The queue, with its passes, stale copies, lost answers and restarts,
\* implements the ledger.
LedgerSpec == Ledger!Spec

\* No row waits for ever: replayed, refused, or expired after the window and
\* handed to a human, whatever the operator does, and with no human's help.
PendingResolves ==
    \A d \in Docs : row[d] = "pending" ~> row[d] # "pending"

\* A row marked as written off keeps the mark: writeOffFailed says the
\* decision leaves its trace.
WriteOffLeavesTrace ==
    [][\A d \in Docs : row[d] = "writtenOff" => row'[d] \in {"writtenOff", "absent"}]_vars

\* A sale that was refused leaves a row that outlives a restart and that a
\* human can treat (LocalPaymentService._unfiscalized).
SaleLeavesTrace == \A d \in Docs : Op[d] = "sale" => live[d] # "refused"

\* A refund whose basis is at the operator goes out with the basis's sign in
\* its envelope (FiscalQueueDependency.ownBasis).
EnvelopeCarriesSign ==
    \A s \in Docs \cup Passes :
        (wire[s] = "sent" /\ Basis[cur[s]] \in acked) => cur[s] \in env

=============================================================================
