----------------------------- MODULE PrintQueue -----------------------------
(***************************************************************************)
(* The till's print queue: PrintQueueLocal over the tables PrintJobs and   *)
(* PrintJobConfirmations (DriftPrintJobStore).  The queue is one Dart      *)
(* isolate, cut here at its awaits.  Its pump works from copies of the     *)
(* rows it read at the start of a look; submit, retry and cancel read a    *)
(* row, wait, and then write the whole row back.  The process may die at   *)
(* any step, the printer may print and still fail to say so, and the       *)
(* database may refuse.                                                    *)
(***************************************************************************)
EXTENDS Integers, FiniteSets

CONSTANTS
    Jobs,            \* job ids, chosen by the caller (one per receipt)
    Pumps,           \* identities of passes over the queue
    Calls,           \* identities of submit, retry and cancel calls
    NoPump, NoJob,
    MaxAttempts,     \* maxAttemptsPerOpportunity
    FirstBackoff, MaxBackoff,
    Ttl,             \* lifetime of a submitted job, and of a retried one
    FinishedRetention, ConfirmationRetention, HousekeepingInterval,
    MaxRemembered,   \* maxRememberedConfirmations
    WakeAfterFailure,
    MaxTime,         \* bound on the clock
    MaxCrashes,      \* bound on restarts
    MaxFailures      \* bound on refusals of the database

None == -1           \* a moment that is not set

ASSUME NamesAssumption == NoPump \notin Pumps /\ NoJob \notin Jobs
ASSUME TimesAssumption ==
    /\ MaxAttempts \in Nat \ {0} /\ FirstBackoff \in Nat /\ MaxBackoff \in Nat
    /\ FirstBackoff <= MaxBackoff /\ Ttl \in Nat \ {0}
    /\ FinishedRetention \in Nat /\ ConfirmationRetention \in Nat \ {0}
    /\ HousekeepingInterval \in Nat \ {0} /\ MaxRemembered \in Nat \ {0}
    /\ WakeAfterFailure \in Nat /\ MaxTime \in Nat /\ Ttl <= MaxTime
    /\ MaxCrashes \in Nat /\ MaxFailures \in Nat

VARIABLES
    row,         \* row[j]: state of the job's row, or "none"
    expiry,      \* expiry[j]: expiresAt of the row
    updated,     \* updated[j]: updatedAt of the row
    confirmed,   \* confirmed[j]: moment in PrintJobConfirmations, or None
    tried,       \* jobs _tried knows
    made,        \* made[j]: attempts in the current opportunity
    notBefore,   \* _retryNotBefore
    started,     \* start() has succeeded
    running,     \* _running
    wanted,      \* _wanted
    wake,        \* when the wake timer goes off, or None
    tidied,      \* _lastHousekeepingAt
    pc,          \* pc[p]: where the pass stands
    clock,       \* clock[p]: the moment the pass looked at
    seen,        \* seen[p]: jobs of its snapshot not dealt with yet
    copy,        \* copy[p][j]: expiresAt of the snapshot's copy
    job,         \* job[p]: the job it prints
    nth,         \* nth[p]: attemptsThisRun
    call,        \* call[c]: where the call stands
    arg,         \* arg[c]: the job it is about
    paper,       \* jobs whose receipt came out of the printer (history)
    given,       \* given[j]: first moment of a recorded confirmation (history)
    now, crashes, failures

disk == <<row, expiry, updated, confirmed>>
memory == <<tried, made, notBefore>>
pumpGate == <<running, wanted>>
walk == <<pc, clock, seen, copy, job, nth>>
calls == <<call, arg>>
history == <<paper, given>>
vars == <<disk, memory, started, pumpGate, wake, tidied, walk, calls, history,
          now, crashes, failures>>

States == {"queued", "printing", "printed", "failed", "expired", "cancelled"}
Terminal == {"printed", "expired", "cancelled"}
Active == {"queued", "printing", "failed"}
Waiting == {"queued", "failed"}
Times == 0..(MaxTime + MaxBackoff + WakeAfterFailure)

TypeOK ==
    /\ row \in [Jobs -> States \cup {"none"}]
    /\ expiry \in [Jobs -> Times] /\ updated \in [Jobs -> Times]
    /\ confirmed \in [Jobs -> Times \cup {None}]
    /\ tried \subseteq Jobs /\ made \in [Jobs -> 0..MaxAttempts]
    /\ notBefore \in [Jobs -> Times]
    /\ started \in BOOLEAN /\ running \in Pumps \cup {NoPump} /\ wanted \in BOOLEAN
    /\ wake \in Times \cup {None} /\ tidied \in Times \cup {None}
    /\ pc \in [Pumps -> {"off", "look", "sift", "run", "send", "ok", "bad", "tidy", "wake"}]
    /\ clock \in [Pumps -> Times] /\ seen \in [Pumps -> SUBSET Jobs]
    /\ copy \in [Pumps -> [Jobs -> Times]] /\ job \in [Pumps -> Jobs \cup {NoJob}]
    /\ nth \in [Pumps -> 0..MaxAttempts]
    /\ call \in [Calls -> {"idle", "submit", "retry", "cancel", "kick", "forget", "forgetKick"}]
    /\ arg \in [Calls -> Jobs \cup {NoJob}]
    /\ paper \subseteq Jobs /\ given \in [Jobs -> Times \cup {None}]
    /\ now \in 0..MaxTime /\ crashes \in 0..MaxCrashes /\ failures \in 0..MaxFailures

-----------------------------------------------------------------------------
(* The store.                                                              *)

Confirmed(j) == confirmed[j] # None

\* Fault: only a state that is still to be printed contradicts.
ContradictsWhileActive(state) == state \notin Terminal

\* A confirmed job may be written as nothing but printed.
Contradicts(state) == state # "printed"

Refused(j, state) == Contradicts(state) /\ Confirmed(j)

\* put: the whole row is replaced, and "printed" is remembered apart from it.
Put(j, state, until) ==
    /\ row' = [row EXCEPT ![j] = state]
    /\ expiry' = [expiry EXCEPT ![j] = until]
    /\ updated' = [updated EXCEPT ![j] = now]
    /\ confirmed' = IF state = "printed" /\ ~Confirmed(j)
                    THEN [confirmed EXCEPT ![j] = now] ELSE confirmed
    /\ given' = IF state = "printed" /\ given[j] = None
                THEN [given EXCEPT ![j] = now] ELSE given

HasExpired(until, moment) == moment >= until

Forget(j) ==
    /\ tried' = tried \ {j}
    /\ made' = [made EXCEPT ![j] = 0]
    /\ notBefore' = [notBefore EXCEPT ![j] = 0]

BackoffAfter(n) ==
    LET doubled == FirstBackoff * 2 ^ (n - 1)
    IN  IF doubled >= MaxBackoff THEN MaxBackoff ELSE doubled

\* removeFinishedBefore: finished rows, whatever is remembered of them.
Kept(j) == ~(row[j] \in Terminal /\ updated[j] < now - FinishedRetention)

\* Fault: the memory of what was printed goes with the row.
RememberedWithRow(j) ==
    Confirmed(j) /\ confirmed[j] >= now - ConfirmationRetention /\ Kept(j)

\* forgetExpiredConfirmations: too old ones, then the oldest over the limit.
Remembered(j) == Confirmed(j) /\ confirmed[j] >= now - ConfirmationRetention

OldestOver(S) ==
    {X \in SUBSET S :
        /\ Cardinality(X) = IF Cardinality(S) > MaxRemembered
                            THEN Cardinality(S) - MaxRemembered ELSE 0
        /\ \A x \in X, y \in S \ X : confirmed[x] <= confirmed[y]}

-----------------------------------------------------------------------------
Init ==
    /\ row = [j \in Jobs |-> "none"] /\ expiry = [j \in Jobs |-> 0]
    /\ updated = [j \in Jobs |-> 0] /\ confirmed = [j \in Jobs |-> None]
    /\ tried = {} /\ made = [j \in Jobs |-> 0] /\ notBefore = [j \in Jobs |-> 0]
    /\ started = FALSE /\ running = NoPump /\ wanted = FALSE
    /\ wake = None /\ tidied = None
    /\ pc = [p \in Pumps |-> "off"] /\ clock = [p \in Pumps |-> 0]
    /\ seen = [p \in Pumps |-> {}] /\ copy = [p \in Pumps |-> [j \in Jobs |-> 0]]
    /\ job = [p \in Pumps |-> NoJob] /\ nth = [p \in Pumps |-> 0]
    /\ call = [c \in Calls |-> "idle"] /\ arg = [c \in Calls |-> NoJob]
    /\ paper = {} /\ given = [j \in Jobs |-> None]
    /\ now = 0 /\ crashes = 0 /\ failures = 0

Begin(p) == pc[p] = "off" /\ pc' = [pc EXCEPT ![p] = "look"]

\* Fault: a pass under way does not keep the next one from starting.
KickAlways ==
    /\ wanted' = FALSE
    /\ \E p \in Pumps : Begin(p) /\ running' = p

\* _kick: a second pass is never started, the first is asked to look again.
Kick ==
    \/ running = NoPump /\ wanted' = FALSE /\ \E p \in Pumps : Begin(p) /\ running' = p
    \/ running # NoPump /\ wanted' = TRUE /\ UNCHANGED <<pc, running>>

-----------------------------------------------------------------------------
(* start: what the dead process was printing has failed.                   *)

Recover(j) ==
    /\ ~started /\ row[j] = "printing"
    /\ Put(j, "failed", expiry[j])
    /\ UNCHANGED <<memory, started, pumpGate, wake, tidied, walk, calls, paper,
                   now, crashes, failures>>

\* Fault: nobody calls failInterruptedPrinting.
NobodyInterrupted == {}

Interrupted == {j \in Jobs : row[j] = "printing"}

Start ==
    /\ ~started /\ Interrupted = {}
    /\ started' = TRUE
    /\ Kick
    /\ UNCHANGED <<disk, memory, wake, tidied, clock, seen, copy, job, nth, calls, history,
                   now, crashes, failures>>

-----------------------------------------------------------------------------
(* submit, retry, cancel.                                                  *)

Answer(c) == call' = [call EXCEPT ![c] = "idle"] /\ arg' = [arg EXCEPT ![c] = NoJob]

Goto(c, step) == call' = [call EXCEPT ![c] = step] /\ UNCHANGED arg

Enter(c, step, j) ==
    /\ call[c] = "idle"
    /\ call' = [call EXCEPT ![c] = step] /\ arg' = [arg EXCEPT ![c] = j]
    /\ UNCHANGED <<disk, memory, started, pumpGate, wake, tidied, walk, history,
                   now, crashes, failures>>

\* Neither confirmed nor known: anything else is answered "duplicate".
Submit(c, j) ==
    /\ started /\ ~Confirmed(j) /\ row[j] = "none" /\ now + Ttl <= MaxTime
    /\ Enter(c, "submit", j)

Retry(c, j) ==
    /\ started /\ ~Confirmed(j) /\ row[j] \in {"queued", "failed", "expired"}
    /\ now + Ttl <= MaxTime
    /\ Enter(c, "retry", j)

\* cancel does not wait for start.
Cancel(c, j) == row[j] \in Waiting /\ Enter(c, "cancel", j)

Requested == [submit |-> "queued", retry |-> "queued", cancel |-> "cancelled"]
Afterwards == [submit |-> "kick", retry |-> "forgetKick", cancel |-> "forget"]

\* The call writes the row it read back, changed; put throws if the job was
\* confirmed meanwhile.  A cancelled row keeps the expiry that was read.
CallPut(c) ==
    /\ call[c] \in DOMAIN Requested
    /\ LET j == arg[c] IN
       IF Refused(j, Requested[call[c]])
       THEN Answer(c) /\ UNCHANGED <<disk, given>>
       ELSE /\ Put(j, Requested[call[c]], IF call[c] = "cancel" THEN expiry[j] ELSE now + Ttl)
            /\ Goto(c, Afterwards[call[c]])
    /\ now + Ttl <= MaxTime \/ call[c] = "cancel"     \* the clock's bound
    /\ UNCHANGED <<memory, started, pumpGate, wake, tidied, walk, paper, now, crashes, failures>>

CallForget(c) ==
    /\ call[c] \in {"forget", "forgetKick"}
    /\ Forget(arg[c])
    /\ \/ call[c] = "forget" /\ Answer(c) /\ UNCHANGED <<pumpGate, pc>>
       \/ call[c] = "forgetKick" /\ Answer(c) /\ Kick
    /\ UNCHANGED <<disk, started, wake, tidied, clock, seen, copy, job, nth, history,
                   now, crashes, failures>>

CallKick(c) ==
    /\ call[c] = "kick"
    /\ Answer(c) /\ Kick
    /\ UNCHANGED <<disk, memory, started, wake, tidied, clock, seen, copy, job, nth, history,
                   now, crashes, failures>>

CallFails(c) ==
    /\ call[c] \in DOMAIN Requested /\ failures < MaxFailures
    /\ failures' = failures + 1
    /\ Answer(c)
    /\ UNCHANGED <<disk, memory, started, pumpGate, wake, tidied, walk, history, now, crashes>>

-----------------------------------------------------------------------------
(* _drainOnce and _runOne.                                                 *)

Step(p, step) == pc' = [pc EXCEPT ![p] = step]

\* The active rows as they are now; rows of a dead process are passed over.
Look(p) ==
    /\ pc[p] = "look"
    /\ clock' = [clock EXCEPT ![p] = now]
    /\ seen' = [seen EXCEPT ![p] = {j \in Jobs : row[j] \in Waiting}]
    /\ copy' = [copy EXCEPT ![p] = expiry]
    /\ Step(p, "sift")
    /\ UNCHANGED <<disk, memory, started, pumpGate, wake, tidied, job, nth, calls, history,
                   now, crashes, failures>>

Overdue(p) == {j \in seen[p] : HasExpired(copy[p][j], clock[p])}

\* Expiry comes first, before anything is sent.
Expire(p, j) ==
    /\ pc[p] = "sift" /\ j \in Overdue(p)
    /\ IF Refused(j, "expired") THEN UNCHANGED <<disk, given>>
                                ELSE Put(j, "expired", copy[p][j])
    /\ Forget(j)
    /\ seen' = [seen EXCEPT ![p] = @ \ {j}]
    /\ UNCHANGED <<started, pumpGate, wake, tidied, pc, clock, copy, job, nth, calls, paper,
                   now, crashes, failures>>

\* Fault: the limit of attempts is off by one.
EligibleOneMore(p) ==
    {j \in seen[p] : made[j] <= MaxAttempts /\ notBefore[j] <= clock[p]}

Eligible(p) == {j \in seen[p] : made[j] < MaxAttempts /\ notBefore[j] <= clock[p]}

\* Jobs never tried come before retries (within each, the order of creation
\* is left open).
Picked(p) == IF Eligible(p) \ tried # {} THEN Eligible(p) \ tried ELSE Eligible(p)

Pick(p, j) ==
    /\ pc[p] = "sift" /\ Overdue(p) = {} /\ j \in Picked(p)
    /\ job' = [job EXCEPT ![p] = j]
    /\ Step(p, "run")
    /\ UNCHANGED <<disk, memory, started, pumpGate, wake, tidied, clock, seen, copy, nth, calls,
                   history, now, crashes, failures>>

PickNothing(p) ==
    /\ pc[p] = "sift" /\ Overdue(p) = {} /\ Picked(p) = {}
    /\ Step(p, "tidy")
    /\ UNCHANGED <<disk, memory, started, pumpGate, wake, tidied, clock, seen, copy, job, nth,
                   calls, history, now, crashes, failures>>

\* The copy becomes the row: printing, or printed if that is known by now.
RunOne(p) ==
    /\ pc[p] = "run"
    /\ LET j == job[p] IN
       IF Refused(j, "printing")
       THEN Put(j, "printed", copy[p][j]) /\ Forget(j) /\ Step(p, "look") /\ UNCHANGED nth
       ELSE /\ Put(j, "printing", copy[p][j])
            /\ tried' = tried \cup {j} /\ made' = [made EXCEPT ![j] = @ + 1]
            /\ nth' = [nth EXCEPT ![p] = made[j] + 1]
            /\ UNCHANGED notBefore
            /\ Step(p, "send")
    /\ UNCHANGED <<started, pumpGate, wake, tidied, clock, seen, copy, job, calls, paper,
                   now, crashes, failures>>

\* The printer: it may print without being able to say so.
TransportOk(p) ==
    /\ pc[p] = "send"
    /\ paper' = paper \cup {job[p]}
    /\ Step(p, "ok")
    /\ UNCHANGED <<disk, memory, started, pumpGate, wake, tidied, clock, seen, copy, job, nth,
                   calls, given, now, crashes, failures>>

TransportFails(p) ==
    /\ pc[p] = "send"
    /\ paper' \in {paper, paper \cup {job[p]}}
    /\ Step(p, "bad")
    /\ UNCHANGED <<disk, memory, started, pumpGate, wake, tidied, clock, seen, copy, job, nth,
                   calls, given, now, crashes, failures>>

\* Printed: a new opportunity for every job.
RunOk(p) ==
    /\ pc[p] = "ok"
    /\ Put(job[p], "printed", copy[p][job[p]])
    /\ tried' = tried \ {job[p]}
    /\ made' = [j \in Jobs |-> 0] /\ notBefore' = [j \in Jobs |-> 0]
    /\ Step(p, "look")
    /\ UNCHANGED <<started, pumpGate, wake, tidied, clock, seen, copy, job, nth, calls, paper,
                   now, crashes, failures>>

\* Fault: an attempt without an error message is taken for a success.
RunBadIsOk(p) ==
    /\ pc[p] = "bad"
    /\ Put(job[p], "printed", copy[p][job[p]])
    /\ Forget(job[p])
    /\ Step(p, "look")
    /\ UNCHANGED <<started, pumpGate, wake, tidied, clock, seen, copy, job, nth, calls, paper,
                   now, crashes, failures>>

RunBad(p) ==
    /\ pc[p] = "bad"
    /\ LET j == job[p] IN
       IF Refused(j, "failed")
       THEN Put(j, "printed", copy[p][j]) /\ Forget(j)
       ELSE /\ Put(j, "failed", copy[p][j])
            /\ notBefore' = [notBefore EXCEPT ![j] = now + BackoffAfter(nth[p])]
            /\ UNCHANGED <<tried, made>>
    /\ Step(p, "look")
    /\ UNCHANGED <<started, pumpGate, wake, tidied, clock, seen, copy, job, nth, calls, paper,
                   now, crashes, failures>>

Tidy(p) ==
    /\ pc[p] = "tidy"
    /\ IF tidied # None /\ now - tidied < HousekeepingInterval
       THEN UNCHANGED <<disk, tidied>>
       ELSE /\ tidied' = now
            /\ row' = [j \in Jobs |-> IF Kept(j) THEN row[j] ELSE "none"]
            /\ \E X \in OldestOver({j \in Jobs : Remembered(j)}) :
                  confirmed' = [j \in Jobs |-> IF Remembered(j) /\ j \notin X
                                               THEN confirmed[j] ELSE None]
            /\ UNCHANGED <<expiry, updated>>
    /\ Step(p, "wake")
    /\ UNCHANGED <<memory, started, pumpGate, wake, clock, seen, copy, job, nth, calls, history,
                   now, crashes, failures>>

-----------------------------------------------------------------------------
(* _scheduleWake and the timer.                                            *)

\* Fault: the queue wakes for the next retry only.
MomentsOfRetries ==
    {notBefore[j] : j \in {k \in Jobs : row[k] \in Active /\ notBefore[k] > 0
                                         /\ made[k] < MaxAttempts}}

\* Every active job's expiry, and the end of its backoff if it may be tried.
Moments ==
    {expiry[j] : j \in {k \in Jobs : row[k] \in Active}} \cup
    {notBefore[j] : j \in {k \in Jobs : row[k] \in Active /\ notBefore[k] > 0
                                         /\ made[k] < MaxAttempts}}

Earliest(S) == CHOOSE t \in S : \A u \in S : t <= u

\* The pass looks again if somebody asked, else it is over.
Finish(p) ==
    /\ IF wanted THEN Step(p, "look") /\ UNCHANGED running
                 ELSE Step(p, "off") /\ running' = NoPump
    /\ wanted' = FALSE
    /\ seen' = [seen EXCEPT ![p] = {}] /\ job' = [job EXCEPT ![p] = NoJob]
    /\ nth' = [nth EXCEPT ![p] = 0]
    /\ clock' = [clock EXCEPT ![p] = 0] /\ copy' = [copy EXCEPT ![p] = [j \in Jobs |-> 0]]

ScheduleWake(p) ==
    /\ pc[p] = "wake"
    /\ wake' = IF Moments = {} THEN None
               ELSE IF Earliest(Moments) < now THEN now ELSE Earliest(Moments)
    /\ Finish(p)
    /\ UNCHANGED <<disk, memory, started, tidied, calls, history, now, crashes, failures>>

ScheduleWakeFails(p) ==
    /\ pc[p] = "wake" /\ failures < MaxFailures
    /\ failures' = failures + 1
    /\ wake' = now + WakeAfterFailure
    /\ Finish(p)
    /\ UNCHANGED <<disk, memory, started, tidied, calls, history, now, crashes>>

\* The database refuses in the middle of a look: the rest of it is dropped.
LookFails(p) ==
    /\ pc[p] \in {"look", "sift", "run", "ok", "bad", "tidy"} /\ failures < MaxFailures
    /\ failures' = failures + 1
    /\ Step(p, "wake")
    /\ UNCHANGED <<disk, memory, started, pumpGate, wake, tidied, clock, seen, copy, job, nth,
                   calls, history, now, crashes>>

WakeUp ==
    /\ wake # None /\ now >= wake
    /\ wake' = None
    /\ Kick
    /\ UNCHANGED <<disk, memory, started, tidied, clock, seen, copy, job, nth, calls, history,
                   now, crashes, failures>>

Tick ==
    /\ now < MaxTime
    /\ now' = now + 1
    /\ UNCHANGED <<disk, memory, started, pumpGate, wake, tidied, walk, calls, history,
                   crashes, failures>>

\* The process dies; the tables survive.  Bytes on their way may be printed.
Restart ==
    /\ crashes < MaxCrashes
    /\ crashes' = crashes + 1
    /\ paper' \in {paper, paper \cup {job[p] : p \in {q \in Pumps : pc[q] = "send"}}}
    /\ tried' = {} /\ made' = [j \in Jobs |-> 0] /\ notBefore' = [j \in Jobs |-> 0]
    /\ started' = FALSE /\ running' = NoPump /\ wanted' = FALSE
    /\ wake' = None /\ tidied' = None
    /\ pc' = [p \in Pumps |-> "off"] /\ clock' = [p \in Pumps |-> 0]
    /\ seen' = [p \in Pumps |-> {}] /\ copy' = [p \in Pumps |-> [j \in Jobs |-> 0]]
    /\ job' = [p \in Pumps |-> NoJob] /\ nth' = [p \in Pumps |-> 0]
    /\ call' = [c \in Calls |-> "idle"] /\ arg' = [c \in Calls |-> NoJob]
    /\ UNCHANGED <<disk, given, now, failures>>

-----------------------------------------------------------------------------
Pump(p) ==
    \/ Look(p) \/ PickNothing(p) \/ RunOne(p) \/ TransportOk(p) \/ TransportFails(p)
    \/ RunOk(p) \/ RunBad(p) \/ Tidy(p) \/ ScheduleWake(p)
    \/ \E j \in Jobs : Expire(p, j) \/ Pick(p, j)

Call(c) == CallPut(c) \/ CallForget(c) \/ CallKick(c)

Next ==
    \/ \E j \in Jobs : Recover(j)
    \/ Start
    \/ \E c \in Calls, j \in Jobs : Submit(c, j) \/ Retry(c, j) \/ Cancel(c, j)
    \/ \E c \in Calls : Call(c) \/ CallFails(c)
    \/ \E p \in Pumps : Pump(p) \/ LookFails(p) \/ ScheduleWakeFails(p)
    \/ WakeUp \/ Tick \/ Restart

Spec == Init /\ [][Next]_vars

\* The event loop runs what is ready, writeRaw ends within its deadline, the
\* timer goes off and the clock moves.
Fairness ==
    /\ WF_vars((\E j \in Jobs : Recover(j)) \/ Start)
    /\ \A c \in Calls : WF_vars(Call(c))
    /\ \A p \in Pumps : WF_vars(Pump(p))
    /\ WF_vars(WakeUp) /\ WF_vars(Tick)

FairSpec == Spec /\ Fairness

-----------------------------------------------------------------------------
(* What must hold.                                                         *)

\* Bytes of two jobs, or of one job twice, are never on the wire together:
\* whoever kicks the queue, only one pass is under way (_running).
OneWriter ==
    \A p, q \in Pumps : p # q => pc[p] = "off" \/ pc[q] = "off"

\* What the printer confirmed is on record as printed and as nothing else,
\* though cancels, retries and expiry write whole rows from stale copies.
ConfirmedTellsTruth ==
    \A j \in Jobs : Confirmed(j) => row[j] \in {"none", "printed"}

\* A job whose printing was recorded is not sent again while its confirmation
\* is to be remembered, though its row is tidied away long before and the
\* same receipt may be submitted anew.
NoSecondReceipt ==
    [][\A p \in Pumps : (pc[p] = "run" /\ pc'[p] = "send") =>
            given[job[p]] = None \/ now - given[job[p]] > ConfirmationRetention]_vars

\* A row says printed only of a receipt that came out.
PrintedHasPaper == \A j \in Jobs : row[j] = "printed" => j \in paper

\* A queue at rest never leaves a job without an alarm that comes before its
\* expiry, or as soon as it is known: no job waits for the next sale.  When
\* the database refused, the alarm may be late but is still armed.
WakeArmed ==
    (started /\ running = NoPump) =>
        \A j \in Jobs : row[j] \in Waiting =>
            \/ wake # None /\ (wake <= expiry[j] \/ wake <= now \/ failures > 0)
            \/ \E c \in Calls : arg[c] = j /\ call[c] \in {"kick", "forgetKick"}

\* An accepted job does not hang: it is printed, expires or is cancelled,
\* across restarts, with nobody pressing anything.
AcceptedResolves ==
    \A j \in Jobs : row[j] \in Active ~> row[j] \notin Active

\* "Cancelled" is final: there is no way back from it.
CancelIsFinal ==
    [][\A j \in Jobs : row[j] = "cancelled" => row'[j] \in {"cancelled", "none"}]_vars

\* A row in "printing" that the pass is not printing is left by a dead
\* process: start has yet to raise it.
PrintingIsOurs ==
    \A j \in Jobs : row[j] = "printing" =>
        ~started \/ \E p \in Pumps : job[p] = j /\ pc[p] \in {"send", "ok", "bad"}

=============================================================================
