# Formal models of TelePOS

TLA+ models of the parts of TelePOS where the order of steps decides whether
money, a fiscal document or a receipt goes missing. TLC checks them on small
instances; TLAPS proves what matters most for every instance. Paths in this
document are relative to the repository (`src/` is its root).

Status: the fiscal queue, the print queue and the QR payment of the till are
modelled and checked; their safety properties, and the fiscal queue's
refinement, are proved. Of the native packages, rk_syslog, rk_mdns, rk_nats,
rk_quic and rk_devices are modelled and checked; that a flush keeps its promise,
that the syslog drain is in order and a process counts its gaps, that nothing is sent
but to the collector asked for, that a name on the segment is held by one till,
that an acknowledgement keeps its promise, that handles keep track of their
engines and that a session's events add up is proved. The plan below says what
comes next.

## 1. The system

A till (`lib/`, Dart) holds the tables and the services; browser terminals are
clients of it over QUIC/WebTransport; the fiscal operator, the acquirer of QR
payments, CouchDB and the printers are external parties. The Dart code of one
process runs on one thread: everything between two `await`s is atomic, and
everything that holds a value over an `await` may hold a stale one. That is
where nearly all the hazards of this program live, and it fixes the grain of
the models: one action is one stretch of code between awaits.

| Component | State | Operations | Talks to | What makes it correct |
|---|---|---|---|---|
| Fiscal offline queue (`data/fiscal/offline_queueing_provider.dart`, `drift_fiscal_queue_store.dart`) | table of entries by idempotency key, the replay gate kept per store, a pass's snapshot | fiscalize a live document, replay, retryFailed, writeOffFailed | operator, payment and refund services, scheduler, clerk's screen | no document loses its last trace; none is sent twice at once; a dependent document never overtakes what it depends on; every wait ends |
| Fiscal replay scheduler (`fiscal_replay_scheduler.dart`) | timer | runOnce, kick | queue, shift | nothing is sent outside a shift; a pending row is always looked at again |
| Fiscal service (`usecases/fiscal/fiscal_service_impl.dart`) | WebkassaReceipts, ExternalCheckNumbers | build envelopes, record signs, reports | queue | the sign of the basis travels with the refund |
| Print queue and store (`data/print/*`, `domain/print/*`) | PrintJobs, PrintJobConfirmations, in-memory attempts and backoffs, one wake timer | start, submit, retry, cancel, pump, housekeeping | printer, payment service, screens | one writer on the wire; no second receipt; no job hangs |
| Shift service, owed Z-report (`data/services/shift_service_impl.dart`) | Shifts.isOpened, owed report | open, close, settle debt | fiscal queue, operator | no Z-report before the shift's documents; no report forgotten |
| QR payment (`data/payment/*`, `LocalPaymentService`) | payment intents | begin, step (poll), abandon, reconcile, settle | acquirer, payment service | money taken is never forgotten nor used twice |
| Receipt numbers (`data/sale/receipt_numbers.dart`) | MAX over the till's receipts | withNext | payment, refund | no two receipts share a number |
| Payment, cart, refund services (`data/sale/*`, `data/refund/*`) | carts, receipts, idempotency keys | take payment, refund, hold goods | all of the above | one operation per key; never more refunded than sold |
| Sessions, throttles, pairing (`backend/*`) | in-memory tokens, failure counters, invites | login, verify, invite, redeem | wire | an invite is good once; a counter cannot be reset by racing |
| Wire and terminals (`backend/till_operations.dart`, `web/*`, `data/transport/*`) | streams, subscriptions, correlation ids | calls, notifications, reconnect | services | an answer reaches its question; what is repeated after a reconnect is repeatable |
| Transport layer (`transport/*`) | offline queue of operations, current transport | enqueue, process, cancel, migrate | NATS, Zenoh, QUIC bindings | no operation lost or run twice by the queue |
| CouchDB synchronisation (`data/sync/*`) | checkpoints, deferred documents | pull, push | CouchDB | a checkpoint never passes an unapplied document |
| Zenoh, PKI, inference, SPIFFE packages (`packages/rk_zenoh`, `rk_pki`, `rk_infer`, `rk_spiffe`) | handles, certificate store | bindings and conversions | libraries | not modelled, see section 6 |

The native packages are Rust libraries behind C interfaces. They have threads
of their own, so there an action is what a thread does under one lock, or
between two operations that another thread or the outside can see.

| Package | State | Operations | Talks to | What makes it correct |
|---|---|---|---|---|
| `rk_syslog` queue, spool, sink | items in memory, segments and cursor on disk, one worker thread | submit, flush, close; append, drop, send, advance; open after a crash | disk, collector | what flush promised survives; gaps are counted; records leave in order and do leave |
| `rk_syslog` records, settings, transport | structured data being built, a bag of settings, one stream | frame, octet count, connect, send | collector | the collector reads what was said; it is the collector that was named |
| `rk_mdns` responder | names, probes, announcements, published state | start, stop; probe, rename, announce, defend, goodbye | other hosts over lossy multicast | no two hosts rest on one name; a contest ends |
| `rk_mdns` browser, cache, handles | records with lifetimes, what was reported; registries, threads, locks | query, absorb, expire; start, poll, stop, resolve | hosts; caller's threads | the list follows the tills; a handle names one engine; a stop returns |
| `rk_mdns` names and messages | position in a datagram | decode, encode, show, parse | datagrams | what is read is what was written; reading ends |
| `rk_nats` | connection, evidence about the server, established stream | connect, probe, ensure, publish, fetch, ack, close | JetStream server that may lose power | an acknowledgement means what it was said to mean |
| `rk_quic` | sessions, streams, event queue | start, poll, send, close, stop; tasks of the runtime | browsers | events add up; nothing is written into a session known to be over; a vanished peer is forgotten |
| `rk_devices` | the caller's buffers; a settling rule | parse, offer; encode, resume; MDB frames | scale, display, drawer, MDB bus | the weight sold is the one shown at rest; a job is done once; a spoilt frame moves nobody |

How they interact on a sale: the payment service commits the receipt, asks the
fiscal service for a document, the fiscal service builds an envelope and calls
the queue's guard, the guard calls the operator or writes a row; the scheduler,
a live success and the closing of a shift replay the rows; rows that cannot be
sent end on the clerk's screen. Apart from that the payment service submits the
receipt to the print queue, whose pump calls the bound printer. Taking money
awaits neither of the two to succeed (`docs/system-architecture.md`, I24).

The behaviours that are hard: stale copies written back whole after an await
(both queues do it), answers that are lost after the work was done (operator
and printer alike), restarts between two writes, passes that must not run
twice, and waits that nobody would end.

Every component of the repository, modelled or not, is in `PROJECT.json` under
"components"; the hazards are listed there with the properties that cover them.

## 2. Plan

Order of work, most important first.

1. **FiscalQueue** over the abstract **FiscalLedger** (done, with proofs).
   Wrong here means a sale the tax authority never hears of.
2. **PrintQueue**, **QrPayment** (done, with proofs).
3. The native packages whose protocols a unit test hardly reaches:
   **SyslogSpool / SyslogSink**, **MdnsResponder**, **MdnsBrowser**,
   **MdnsHandles**, **NatsClient**, **QuicEndpoint**, and the codecs and device
   rules **SyslogRecord**, **SyslogConfig**, **MdnsName**, **ScaleReader**,
   **DeviceWrite**, **MdbBus** (done with TLC).
4. Proofs about them: `NatsClient`, `QuicEndpoint`, `MdnsHandles`,
   `SyslogConfig`, `ScaleReader`, `MdbBus`, what a device takes of a job
   (`DeviceWrite`) and all safety properties of `SyslogSink` and `MdnsResponder`
   are done. Next: what a display shows and a drawer does with what it took.
5. **ShiftZReport**, composed with FiscalLedger in the place of the queue:
   closing (flush with a time limit, count, write, Z-report or debt), opening,
   settling the debt. Properties: no Z-report before a document of its shift,
   a shift that was closed has its report sent, owed, or known to a human.
6. Refunds of QR payments (`reverse`), added to **QrPayment**.
7. **ReceiptNumbers**, **RefundLimit**, **SessionRegistry / FailureLedger /
   PairingInvites**, the transport layer's **OfflineQueue** and **Fallback**, the
   wire's subscriptions, CouchDB checkpoints.

## 3. Modules

| Module | What it is |
|---|---|
| `FiscalLedger` | what the fiscal queue promises: a document is in one place of the till's books; abstract specification |
| `FiscalQueue` | guard, table, scheduler, replay gate, passes, clerk, operator, restarts; properties; mapping to FiscalLedger |
| `MCFiscalQueue` | documents of the instances: a sale, a refund of it, a withdrawal |
| `FiscalQueueProofs` | the inductive invariant and the theorems that follow from it; who writes what; order of refunds and of withdrawals; FiscalQueue implements FiscalLedger |
| `PrintQueue` | tables, submit / retry / cancel, pump, tidying, wake timer, printer, restarts; properties |
| `MCPrintQueue` | names and symmetry of the print instances |
| `PrintQueueProofs` | the gate, the paper, the alarm, the memory of confirmations: the theorems of `PrintQueue` |
| `QrPayment` | intents, the calls that ask about them, the provider, the customer, receipts, restarts; properties |
| `MCQrPayment` | names and symmetry of the QR instances |
| `QrPaymentProofs` | the inductive invariant of `QrPayment` and its theorems |
| `SyslogSpool` | the spool's segments, cursor, bound, recovery, as operators on a value |
| `SyslogSink` | queue, worker, callers, deaths of the process over SyslogSpool (INSTANCE); properties |
| `SyslogSinkProofs` | what the spool's operators keep, and that a promise outlives the process |
| `SyslogDrainProofs` | the order of the journal: it is drained from its front, and a process counts what goes missing under it |
| `SyslogRecord` | structured data, framing, truncation, timestamps, octet counting |
| `SyslogConfig` | settings, their checks, whom a connection trusts |
| `MdnsRecords` | the records of a service, answers, comparison of two claims |
| `MdnsResponder` | several responders on a lossy segment, over MdnsRecords |
| `MdnsResponderProofs` | what the tie-break decides; a name is held by one till, a contest for it is short |
| `MdnsBrowser` | a browser with its cache and the tills it lists, over MdnsRecords |
| `MdnsHandles` | registries, threads and locks of the C interface; choice of interfaces |
| `MdnsName` | names on the wire and in text, TXT strings |
| `NatsClient` | connection, evidence, stream, publish and fetch against a server that loses power |
| `QuicEndpoint` | endpoint, sessions, streams, event queue, callers |
| `TransportsProofs` | an acknowledgement means what it was said to mean; events of a session add up; nothing leaves for anyone but the collector the settings name |
| `ScaleReader`, `DeviceWrite`, `MdbBus` | a scale that is read, a display or drawer that is written, the vending bus |
| `NativeProofs` | handles keep track of their engines; a weight taken is the one shown; a job is taken once; the bus says what was meant |
| `NativePart` | which of several native components a behaviour is about |
| `MCSyslogSink`, `MCMdnsResponder`, `MCQuicEndpoint` | instances of one component |
| `MCMdnsClient` | MdnsBrowser and MdnsHandles |
| `MCTransports`, `MCDevices`, `MCFormats`, `MCNative` | instances of the eight remaining ones and their composition |

Operators that begin with a comment "Fault:" or "Mutant:" are forms of an
operator with a plausible bug in it. No specification uses them; each is put in
the place of its original to see that a property notices. Where a property is a
conjunction, one of them is put in place by the recorded mutants and the others
serve to break the remaining conjuncts by hand.

The native packages share nothing but the application that holds a handle of
each. `NativePart!which` is chosen in the initial state and never changes, and
every other component's variables rest. A run over `MCNative` is therefore
the disjoint union of eight state spaces, not their product, and a property is
a statement about the behaviours of its own component.

### FiscalQueue

A document is its idempotency key. `row[d]` is its row: absent, pending,
failed, bare (a failed row that carries a note instead of a document and cannot be
retried) or written off. `live[d]` says where `_guard` stands with it.

| Code | Model |
|---|---|
| `_guard`, `_heldByQueueSafe`, the `fiscalizeX` methods | `Compose`, `GuardSend`, `GuardHold`, `GuardSuccess`, `GuardTransient`, `GuardRefused`, `Enqueue`, `EnqueueFails` |
| `LocalPaymentService._fiscalize`, `_unfiscalized` | `GuardUnbuilt`, `GuardRefused`, `Enqueue`, `EnqueueFails` |
| `FiscalQueueHold.holds` | `Holds`, used by guard and pass alike |
| `DriftFiscalQueueStore` | `Pending`, `Enqueued` (INSERT OR IGNORE), `Updated` (UPDATE of a missing row does nothing), `Removed` |
| `FiscalReplayScheduler.runOnce` | `RunOnceCount`, `RunOnceShift`, `RunOnceReplay` |
| `replay`, `_startPass`, `ReplayGate` | `Replay`, `StartPass`, `FinishPass`; `running`, `queued` |
| `_replayPass` | `PassUnreachable` .. `PassEnd`, `PassBreaks`; `todo`, `still` (stillQueued), `blocked`, `streak` (consecutiveTransient) |
| `retryFailed`, `writeOffFailed` | `RetryFailed`, `RetrySuccess`, `RetryNot`, `RetryBreaks`, `WriteOff`; `mark` says whether the copy being retried carries the write-off |
| the operator (external) | `OperatorServes`, `OperatorServesLate`: a key is registered once, a second request gets code 14 ("dup"); a request may be served after its sender gave up |

Points a reader may stumble on:

* `GuardTransient`, `PassTransient`, `PassThrow` and `RetryNot` are possible
  from every stage of a request. The operator may have done the work: the
  answer was lost, or reading it threw. For `PassThrow` this is wider than the
  code, where the exception may also come before anything was sent.
* The database may refuse any write of a row, and the payment service may have
  no queue. `EnqueueFails` is the one place where a document is left without a
  row: a sale the guard could not queue comes back as failed, the payment
  service tries to keep it in its own way, and if that fails too the sale is
  answered as failed and only a log line remains (`live[d] = "refused"`).
  `PassBreaks` and `RetryBreaks` are the same inside a pass, which ends, and
  inside a retry.
* `Receive` leaves a request that was not yet served among `late`: the client's
  timeout ends the wait, not the request.
* Sales are committed before they are fiscalised, so a refund may start while
  its sale is being answered for. From one terminal it cannot; from two it can.
  The constant `ConcurrentRefund` chooses.
* `still` and `todo` are sets, walked in the order of `occurredAt`. Equal times
  leave the order open, as the table does.
* The operator is found reachable in every build of the till
  (`isReachable: () async => true`); `PassUnreachable` and `GuardHold` keep the
  other answer possible, and only fairness uses the fact.

### PrintQueue

`row[j]`, `expiry[j]`, `updated[j]` are the row of a job; `confirmed[j]` is the
separate memory that it was printed, which outlives the row. `pc[p]` is where a
pass stands; it works from `seen` and `copy`, what it read at the start of a
look, and writes whole rows from them.

| Code | Model |
|---|---|
| `start`, `failInterruptedPrinting` | `Recover`, `Start` |
| `submit`, `retry`, `cancel` | `Submit`, `Retry`, `Cancel` read the row, `CallPut` writes it, `CallForget`, `CallKick` finish |
| `put`, `contradictsConfirmation` | `Put`, `Refused` |
| `_kick`, `_pumpLoop` | `Kick`, `Finish`, `LookFails` |
| `_drainOnce`, `_pickNext`, `_firstEligible` | `Look`, `Expire`, `Pick`, `PickNothing` |
| `_runOne`, `_putUnlessConfirmed`, `_backoffAfter` | `RunOne`, `TransportOk`, `TransportFails`, `RunOk`, `RunBad` |
| `_housekeep`, `removeFinishedBefore`, `forgetExpiredConfirmations` | `Tidy`, `Kept`, `Remembered`, `OldestOver` |
| `_scheduleWake`, `_armWake` | `Moments`, `ScheduleWake`, `ScheduleWakeFails`, `WakeUp` |

The branch of `RunOne`, `Expire` and `RunBad` for a job confirmed meanwhile is
kept because the code has it; in these instances it is never taken, since only
the pump confirms.

`paper` and `given` are history: what came out of the printer, and when a
confirmation was first recorded. No guard reads them.

### QrPayment

`row[i]` is the row of an intent, `prov[i]` what the provider knows of it.
`call[c]` is the call each of three callers is in: the buttons of the screen
(show a code, cancel), its timer (poll), and the start of the till. A request
(`Asking`) is served by the provider or not, and its answer is heard late,
never, or as a refusal; in between the other callers go on. An answer that came
too late is a transient refusal of a request that was served.

| Code | Model |
|---|---|
| `startQr` | `StartQr` (the sweep's list), `Sweep`, `Show` |
| `pollQr`, `step` | `PollQr` |
| `cancelQr`, `abandon` | `CancelQr`, `Abandon` |
| `begin`, `claim` | `Begin` |
| `sweepStale` | `Stale`, `Sweep` |
| `reconcile`, called by `main` | `Restart`, `Reconcile`, `ReconcileOne`, `BootDone`; it works on the copies it read (`todo`, `known`) |
| `_absorb`, `applyState`, `attachProviderIntent` | `Hear`, `Absorb`, `Attach`: written over whatever the row says by then |
| `_send`, `isTransient` | `Refuse`, `Refused` |
| `_plan`, `_complete`, `markSettled` | `Usable`, `PayByQr`, then `MarkSettled`; `PayOtherwise` |
| provider, customer (external) | `Provide`, `Customer`: a key creates one code, a paid code is not cancelled, a last word is kept |

The provider's own `failed` is folded into `expired`: both are last words
without money. Waiting in `awaitOutcome` is the rounds of `PollQr`. A screen
names only an intent of the receipt it pays (`payment_controller.dart`), so
`PayByQr` has no other receipt to choose.

### SyslogSpool and SyslogSink

A record is a number in the order of submission. `sp` is the spool: segments
with their records, the cursor of the file and that of the reader, how many
records of the last segment are on disk, the count of what was dropped.

| Code | Model |
|---|---|
| `Queue::push`, `wait_drained`, `close` | `Push`, `FlushBegin`, `Drained`, `FlushOk`, `FlushTimeout`, `Close`, `Joined` |
| `run_worker` | `Drain`, `AppendOne`, `FlushBatch`, `FlushRefused`, `MarkDrained`, `QueueLoss`, `SpoolLoss`, then `PeekEnds` / `SendOk` / `SendFails` / `Pause`, `Turn` |
| `Spool::append`, `make_room`, `drop_oldest_segment` | `SpoolAppend`, `DropOldest`, `Refuses`, `MovesReader` |
| `peek`, `advance`, `write_cursor` | `Seek`, `Peeked`, `Advance`; each write of the cursor may be refused (`CursorWrite`) |
| `recover`, `scan_segment`, `read_cursor` | `Recover`; a death may fall inside an append (`Standing`) and keep any prefix of what was buffered (`DeathPoints`) |

A file is flushed before the next one is created, so `Recover` has only the last
one to look at for a segment without a whole record; `Written`, `Ahead` and the
fields of `seen` are history or views, and no guard reads them.

All counts are in memory: `queue.dropped` and `sp.dropped` until the worker takes
them, `worker.told` (the two counters a caller may read) afterwards. A death or
the closing of the sink takes them along; only the worker's own record about a
loss, once it is on disk, outlives them. `Counted` is what the running process
knows, `seen.before` what was missing when an earlier one ended. `FlushRefused` is
`spool.flush()` failing, whose answer the worker does not read (sink.rs:282):
the batch stays in the buffer and is marked as drained.

### SyslogRecord, SyslogConfig

Octets are tokens; a wide character takes two, so that a cut may fall inside
it. A record has one text or none, which is not an empty one: without a message
the octets end behind the structured data. Timestamps are computed in full, days of the civil calendar from days since
1970 included. `SyslogConfig` keeps the order in which `ConfigBuilder::build`,
`Spool::open` and `Transport::new` complain, since the caller reads the first.

### MdnsRecords, MdnsResponder, MdnsBrowser, MdnsHandles, MdnsName

| Code | Model |
|---|---|
| `probe_until_claimed` | `Wake`, `OpenWindow`, `NextProbe`, `ReadInWindow`, `Claim`; windows of a quarter of a second are told apart by which was opened first (`earlier`), not by a clock |
| `conflict_in`, `tie_break`, `rename` | `Conflict`, `Loses`, `Rename` |
| `announce`, `handle`, the goodbye in `run` | `Announce`, `Handle`, `Leave` |
| `Cache::put`, `known_answers`, `expire` | `Put` (`Flushed`, `Retire`), `KnownAnswers`, `Expire` |
| `BrowseEngine::query`, `absorb`, `report`, `retire` | `Query`, `Absorb`, `Report`, `Expire` |
| `rk_mdns_*_start`, `poll`, `stop`, `resolve_host` | `Start`, `Poll`, `Lock`, `Receive`, `Stop`, `Joined`, `Resolve`, `HearAnswer`, `Resolved` |
| `InterfaceFilter`, `usable`, `advertisable` | `Taken`, `Usable`, `WhyNone`, `Advertisable` |
| `Name::decode` | `Label`, `Jump`, `Finish` and the ways it fails, one step an iteration |

In `MdnsBrowser` a tick is a second, long against a round trip and the loops'
100 ms: what is due or has arrived is handled before the next one, and datagrams
of one tick may overtake each other. That holds of a goodbye and the announcement
of a till started again at once, too: the goodbye may be read last. Announcements
are `AnnounceInterval` apart. The tills there do what MdnsResponder does after
probing; the time that probing takes is not in this module, so what a till does
after its stop may follow sooner than the code allows, which makes the crossing
more likely than it is, never less.

### NatsClient

| Code | Model |
|---|---|
| `connect`, `probe`, `apply_varz`, `parse_varz` | `Connect`, `Probe`, `ProbeAgain`, `ApplyVarz`; `Facts` |
| `ack_meaning`, `gate` | `AckMeaning`, `Gate` |
| `ensure_stream` | `EnsureStream` (the gate), `GetOrCreate` (the server), `StreamInfo` (the echo is remembered) |
| `publish` | `Publish` reads the stream that was ensured, `Judge` the facts, each under a lock of its own; `Acked` and `Strayed` compare the stream that acknowledged with the one judged |
| `fetch`, `ack`, `deadline` | `Fetch`, `Ack`, `Deadline` |
| the server (external) | `Store`, `Capture`, `Sync`, `Tick`, `PowerCut`, `Redeliver` |

The server is modelled from what `durability.rs` says of it: memory storage
dies with the power, `sync_interval` bounds how long a write waits for its
fsync, `sync_interval: always` fsyncs before the ack, and asynchronous
persistence acknowledges earlier. A server states its interval or not
(`reports`); one that is not stated is read as 0, as `parse_varz` does. A message
may have a subject that another stream captures (`strays`).

### QuicEndpoint

A session's task goes through `Accept`, `Insert`, `AnnounceOpened`, then
`Plain`, `ReadUni`, `AcceptBi`, `AnnounceStream`, and at its end `Lose`, `Forget`,
`ForgetStreams`, `AnnounceClosed`: one action for each lock taken. `ReadBi` is the
task of one stream. Calls look the endpoint up (`Begins`) and return later
(`Written`, `NextEvent`); `Stop` takes the handle away, `Drop` happens when the
last call returns.

### ScaleReader, DeviceWrite, MdbBus

The library keeps no state across calls but the settling rule; the models
therefore include the caller's loop, written from the crate's documentation of
how it is to be called: bytes arrive in pieces, `parse` is called until a line
is incomplete, what a short write left is resumed as `wire::Resume` says, a
reply is cut out of the words read so far. The device at the other end
executes bytes, so that a property can speak of what it shows or did.

## 4. Runs

Passing runs:

| Run | Instance | Shows |
|---|---|---|
| `fiscal_queue_safety` | a sale and then its refund, or a sale and a withdrawal in either order, two passes that go on after a first transient answer, one retry, one runner, one crash, window 1, clock to 3, any write refused | a document answered as done, queued or kept for a human is accounted for; nothing on the wire twice; a refund stays behind its sale; a withdrawal goes only when nothing older is queued, a sale deferred in this very pass included; failed rows stay with humans; the queue implements FiscalLedger |
| `fiscal_queue_liveness` | a sale and a withdrawal, in either order, `FairSpec`, window 0, passes cut after one transient answer or by a refused write | no row stays pending for ever: not one held behind another, not one behind a pass that is always cut, whatever the operator answers |
| `print_queue_safety` | one job, two pump identities, one call at a time, a crash and a refusal of the database, clock to 3 | one writer; confirmed means printed; printed means paper; no second receipt; whenever the queue rests an alarm is armed early enough |
| `print_queue_liveness` | one job, one crash, `FairSpec` | every accepted job is printed, expires or is cancelled |
| `qr_payment` | two attempts at one receipt, buttons and start, both kinds of refusal, any number of restarts | `PaidIsNeverSilent`, `MoneyIsWhereRowsSay` |
| `qr_liveness` | one attempt, all three callers, `FairSpec` | `PaidIsNoticed` |
| `syslog_sink` | four records, two of two units, segments of 2, spool of 6, three pairs of rules, one death, one refused cursor, one batch the file system refuses | `GapsAreCounted`, `CursorIsInJournal`, `DrainIsInOrder`, `HeldLeaves`; `PromisedSurvives`: whatever was promised and lost had been in that batch; also an instance of the two theorems that ask for room |
| `mdns_responder` | two tills with one pair of names, three lost copies, one stop, one loss of power | `UniqueClaim`, `DuplicateNeverRests`, `ContestIsFair`, `ClaimIsKept`, `AlwaysSettles` |
| `mdns_client` | one till with two possible addresses, started twice, one lost datagram, goodbyes and announcements crossing; two engines and two threads | `LostOnlyWhenGone`, `ListFollowsTills`; `HandlesKeepTrack`, `StopIsNotHeldUp` |
| `native` | eight components, each alone (section 3) | `AckMeansWhatItSays` (NATS), `EventsAddUp`, `VanishedIsForgotten` (QUIC), `WeightIsTheOneShown`, `JobIsDoneOnce`, `BusSaysWhatWasMeant` (devices), `CollectorReadsWhatWasSaid`, `OnlyTheCollector` (syslog), `NamesReadBack` (mDNS) |

Runs that find a disagreement between the code and what its comments promise,
with the quoted line under "findings" in `PROJECT.json`:

| Run | What happens |
|---|---|
| `fiscal_refund_concurrent` | a refund at a second terminal passes the guard while the sale's own call waits; then the sale is queued behind the refund on the wire |
| `qr_sweep` | a code outlives the till's patience, the sweep's cancellation meets no link; the row is marked as given up, every later sweep passes over it, and the code stays payable |

More findings, each with a configuration and the property of it that the
program does not keep. A configuration that names several ends with a
counterexample to the one TLC meets first; with that one deleted from it, it
shows the next:

| Configuration, property (module) | What happens |
|---|---|
| `FiscalQueueFindings`, `SaleLeavesTrace` (MCFiscalQueue) | the operator refuses a sale, and the database refuses the row that was to keep it, or there is no queue: the till answers failed and nothing is left for anybody to treat |
| `FiscalQueueFindings`, `WriteOffLeavesTrace` (MCFiscalQueue) | a retry waits for the operator with its own copy of the row; the clerk writes the row off; the retry fails and writes its copy back, and the write-off's mark is gone |
| `FiscalQueueFindings`, `EnvelopeCarriesSign` (MCFiscalQueue) | the sale of a refund is delivered by replay; replay drops the operator's sign, and the refund's envelope, built before, goes out without one |
| `PrintQueueFindings`, `CancelIsFinal` (MCPrintQueue) | cancel answers `true`, the pump writes its older copy back and prints |
| `PrintQueueFindings`, `PrintingIsOurs` (MCPrintQueue) | the database refuses one write after the printer answered; the row stays "printing" until the program is restarted, and once its expiry has passed the wake timer is armed with zero delay again and again |
| `MdnsTieBreak` (MCMdnsResponder) | tills with one instance name and two host names compare unequal sets of records; both may stay or both back off |
| `QuicFindings`, `EndIsKept` (MCQuicEndpoint) | the event queue is full when a session ends: the event of the end is the one dropped, where the comment says the oldest is |
| `QrPayment`, with `CancelledIsConfirmed` as its invariant (MCQrPayment) | a refusal of a cancellation that is not transient closes the row as cancelled; the code stays payable and no reconciliation asks about it |
| `SyslogFindings`, `GapsAreCounted` (MCSyslogSink) | where the spool holds one segment, announcing a loss drops what stands there, the announcement before included: a gap nobody counts |
| `SyslogFindings`, `CursorIsInJournal` (MCSyslogSink) | the segment with the cursor is dropped, the cursor moves on to the next number, and the process dies before anything of that segment is on disk; numbering starts at 1 again, the cursor stays ahead, and what is written next lies behind it: neither sent nor counted. It needs a bound of less than two segments and a record (`MaxBytes = 5`, `SegmentBytes = 2` and records of two units will do), and with more room it is proved not to happen (section 5) |
| `SyslogFindings`, `FlushReachesSpool` (MCSyslogSink) | flush answers ok for records the spool refused |
| `SyslogFindings`, `PromisedIsWritten` (MCSyslogSink) | the file system refuses a batch, the worker marks it drained, flush answers ok, and a death takes what is in the buffer |
| `SyslogFindings`, `NoSilentGap` (MCSyslogSink) | a record flush had answered for is dropped for room, and the process dies before the worker has written about it: no count, no record, although the docs say gaps are counted |
| `MdnsClientMoved`, `MovedIsNotAtBoth` (MCMdnsClient) | a till that comes back at another address is reported at both |
| `MdnsClientMoved`, `NewIsNotDropped` (MCMdnsClient) | a goodbye is read after the announcement it crossed with; its second ends before the next announcement is read, and the till is reported lost though it is up and nothing was lost. The announcement that follows brings it back, which is why `LostOnlyWhenGone` speaks of tills that have made theirs |
| `NativeFindings`, `EveryNameParsesBack` (MCNative) | a byte beyond ASCII is shown as three digits behind a backslash, and parsing takes only the first of them |
| `NativeFindings`, `OwnTxtIsNoContest` (MCNative) | a TXT string over 255 octets is cut when written, an empty one dropped when read; the till's own announcement, heard, is then another one than its own records, and it renames |
| `QuicFindings`, `StoppedIsDown` (MCQuicEndpoint) | stop answers while another thread's poll keeps socket and port |
| `NativeFindings`, `LagIsChecked` (MCNative) | a server that does not state its `sync_interval` passes the check of `flushOnAck` for any lag, and an acknowledged message older than the lag is lost. It needs no change of the server: `MaxChanges = 0` shows it, too |
| `NativeFindings`, `AckMeansWhatItSays` (MCNative) | the server comes back with another `sync_interval`; the connection goes on with the old evidence and an ack called fsynced is lost |
| `NativeFindings`, `EnsuredSatisfies` (MCNative) | ensuring a stream that exists with memory storage is reported as done |

### Bounds, and why they are enough

* **Documents.** Dependencies link a refund with one sale, and a withdrawal
  with everything older. A sale, its refund and a withdrawal contain every kind
  of dependency; purchases and their returns fall in the same classes as
  `Dependency` sorts them. In the safety run what follows the sale is
  its refund or a withdrawal, not both (the constraint `OneFollows`), so that two
  passes, a retry and a crash fit. The withdrawal is alone with the passes there:
  no clerk, no crash, the shift open and no request served late, since what it
  asks is how passes order it. In the liveness run the shift opens and closes and
  late requests come beside them; a document there is delivered or comes to wait
  (`AllWait`), since one that does neither has no pending row.
* **Passes, runners.** The gate admits one pass. Two identities make a second
  pass possible if the gate failed (the mutant `ReplayUngated` shows it does).
* **Clock.** One tick more than the window: a row can be young, on the edge
  (the code's `>` matters) and expired. `Compose` admits a new document only
  while its window still fits, so the end of the clock never hides an expiry.
  In the print runs `Ttl`, backoff and retention are one tick each, and zero
  for finished rows, so that a row is tidied away before its memory is.
* **Crashes and refusals.** One each: a second one meets a state that a first
  one already leaves (what the process held is gone; the tables survive).
* **MaxTransient** is 1 or 2 (5 in the code): a pass is cut after a first or a
  second transient answer, with rows left behind. In the safety run it is 2
  and the window is open, so that a sale deferred by a transient answer is still
  within its window when the pass comes to the withdrawal: what decides there is
  `blocked`. With a pass cut at its first answer, or rows that expire at once, it
  never would.
* **QR.** Two attempts make a code given up beside one being shown; receipts
  do not meet. The polling timer, whose requests are those of the start with
  the refusals of the buttons, is left to the run of one attempt, where all
  three callers meet. Restarts are not bounded.
* **Syslog.** Segments of two units in a spool of six leave room for a segment
  being read, one being written and one between them; a record of two units fills
  a segment at once and makes room by more than the next one needs. Four records,
  two of them of two units, fill the spool, and an announcement of what the queue
  dropped exceeds it: enough for one sent, one dropped, one written and one
  waiting. A spool with less room than two segments and a record is exposed to
  the two findings above (`SyslogFindings.cfg` has one of a single segment); six
  units are the least that is not. `SyslogGaps.cfg` is a larger instance of the
  three invariants, with five records and two deaths, which holds too. The second
  and third pair of rules have no collector. Under these two a batch may be
  refused (`refuses`); with a collector and an append that fails the proof stands
  alone, which covers any rules.
* **Handles.** Any set of interfaces a host may have, any of them refused by the
  system, the port taken or not; two engines are enough for one to be stopped while the other polls.
* **mDNS.** `ProbeCount` and `AnnounceCount` are the code's own. Three lost
  copies are as many as there are probes: `UniqueClaim` is stated below that
  number and `DuplicateNeverRests` at it, where two hosts do end up on one name
  and must notice. `MaxAttempt` bounds renaming after the claim only. The
  lifetimes of the browser's run keep the order of the code's (host below
  service, both above the longest interval); announcements, three and one tick
  apart, and the grace of a goodbye, one tick, are the code's. A till is started
  twice, once to say goodbye and once to cross with it.
* **NATS.** One message: no property relates two. Two callers, so that a call
  is under way while another closes or publishes again; one loss of power. The
  passing run has a server that keeps its configuration (`MaxChanges = 0`): what
  it shows is that facts, once right, are used rightly in whatever order calls,
  losses and answers come. Facts gone stale are the finding, not this run. Servers
  that do not state their interval are among its servers; the lag is promised
  only of those that do.
* **QUIC.** One session with one stream, since sessions meet only in the queue, whose depth of 2
  makes it full; 1024 in the code.
* **Scale, device, bus.** Lines, jobs and asks are lists of cases that are easy
  to read wrongly, each written out in `MCDevices` with what a person takes it
  for; two jobs make an order, three lines a run of equal readings broken by one.
* **Names.** Every datagram of up to five of the bytes that matter (lengths, a letter, a
  pointer), and names written plain, compressed and compressed twice.
  Limits are scaled: labels of 2, names of 9, two jumps, TXT strings of 2. Names
  are shown with a letter, a blank, a dot, a backslash and a byte beyond ASCII
  in every place of a label; TXT strings are empty, short, as long as the limit and
  longer. The passing run states what holds of them: names of printable bytes read
  back, and of TXT strings what is not empty arrives, cut at the limit. What the
  docs say beyond that is two findings.
* **Records.** No message, an empty one, one that fits and one that is cut.
* **Symmetry** is used for the identities of pumps, passes and retries, in safety runs alone, never in a run
  with a temporal property other than an action property.

`CHECK_DEADLOCK FALSE` stands in the print runs: with the clock at its bound
and the queue idle nothing is left to do, and a real queue then waits too. The
fiscal runs check deadlock. It stands in the native runs for the same reason: a
sink that is drained, a responder that was stopped, a weight that has settled
and callers whose bounded calls are used up leave nothing to do.

### Fairness

`FiscalQueue!Fairness` assumes that the client's call ends (it has a timeout),
that the till goes on after a row was written or refused, that the scheduler's timer goes round,
that passes go on, that a row which is over its window again and again is at last
written as such (SF on `PassExpire`: the database does not refuse for ever), that
the clock moves, and that a pass which keeps starting is not for ever told
"unreachable" (SF on `PassSnapshot`; in the till's build the answer is always
"reachable"). One more assumption is about the shop: while something is pending,
some round of the timer finds the shift open; the timer's round takes two
minutes, a shift hours. Without it a till that is never opened again keeps its
rows, and rightly. Nothing is assumed of the operator, cashiers or the clerk.

`PrintQueue!Fairness` assumes that the event loop runs what is ready, that a
write to the printer ends (`writeRaw` has a deadline), that the timer goes off and
that the clock moves. It does not assume that printing ever succeeds, nor that
anybody presses a button.

`QrPayment!Fairness` assumes that a till is started again and again, that some
process stays up long enough to work through its start, and that the provider,
asked by it again and again, answers (SF, since a start may be cut by the next
one). It assumes nothing of screens and cashiers: a tab may be closed for ever,
and then only the start asks.

The native packages: `SyslogSink!Fairness` says that the worker thread runs
until it is gone, that a back-off ends, and that a collector which can be sent to
again and again takes a record in the end; it is written with predicates for
what enables those steps. `MdnsResponder` assumes that each engine's thread
runs, `MdnsBrowser` that the browser's loop runs, which is also what moves its clock, and that a till
which is up announces, `MdnsHandles` that an engine looks at its stop flag and
that a joiner is woken, `QuicEndpoint` that the runtime runs its tasks. Nobody
is assumed to call, to poll, to start or to stop anything, and no datagram to arrive
beyond the bound on losses.

## 5. Proofs

### FiscalQueue

These theorems are about `FiscalQueue` with any documents, operations, bases,
passes, retries, runners and bounds that satisfy the module's assumptions: the
kinds of names do not overlap, only refunds name a basis, a document is not its
own basis, and the bounds are numbers with `MaxTransient` at least one.

**`IInv`** (`FiscalQueueProofs`) is the inductive invariant. None of the
properties is inductive alone: that an answer for a document already removed
from the table cannot come is a matter of who may be waiting for it. The
invariant therefore says who may hold a document, by the state of its row:

* `GateInv`: only the pass the gate names is under way;
* `LiveInv`: a live call waits for its own document, and no row exists before
  the guard has answered;
* `PassInv`: what a pass still counts as queued is pending in the table, so its
  copies are stale in nothing it decides by; it waits for one of them;
* `ClerkInv`: a retry holds an answered document that is not pending;
* `OperatorInv`: a success the till was told of is a registration;
* `AnsweredIsAccounted` itself, and the types.

`StepIInv` goes through the actions one by one. From it:

| Theorem | Statement |
|---|---|
| `TypeCorrect` | `Spec => []TypeOK` |
| `NothingLost` | `Spec => []AnsweredIsAccounted`, with every write of a row possibly refused: a document answered as done, queued, or failed with its row laid keeps its trace. The one case left out is named in the property: the answer "failed" of a row that could not be laid (`SaleLeavesTrace`) |
| `OneAtATime` | `Spec => []NoDoubleDispatch` |
| `HumanKeeps` | `Spec => FailedStaysWithHuman` (an action property, by `HumanRowsStay`) |
| `RefundOrder` | `Spec => []RefundBehindBasis`, assuming `ConcurrentRefund = FALSE`; by `OrderInv`: a refund begins after its sale was answered for, the guard asks the table and the pass its picture of it, and no sale becomes pending behind either's back. `fiscal_refund_concurrent` shows that the assumption is needed |
| `DrawerOrder` | `Spec => []WithdrawalBehindEarlier`; by `DrawerInv`: as long as a pass is not blocked, what it counts as queued is what it has yet to walk and what it waits for |
| `QueueImplementsLedger` | `Spec => LedgerSpec`; by `LateInv` (only documents that exist are still under way) and one lemma per family of actions that names the abstract step it takes |

The "who writes what" lemmas (`WhoWritesRows`, `WhoWritesLive`, `WhoWalks`)
reduce the case analysis of the later proofs to the actions that touch the
variables in question.

### QrPayment

For any intents, receipts, assignment of the one to the other, kinds of refusal
and callers among the three. The provider's rules (a key creates one code, a
last word is kept) are steps of the specification, not assumptions of the
proofs. `IInv` (`QrPaymentProofs`) carries what the properties leave out:

* `JobOk`: a terminal answer on its way to a row is still true, however old,
  because the provider's last word is its last; what is asked about by id exists;
* `RowOk`: a terminal status nobody refused into the row is the provider's own;
* `MoneyOk`: a receipt paid by an intent, and a mark written or owed.

`Grows` says in which direction rows and provider move; every action is shown
to move them so, and then calls under way keep what is true of them.

| Theorem | Statement |
|---|---|
| `TypeCorrect` | `Spec => []TypeOK` |
| `NoSilentLoss` | `Spec => []PaidIsNeverSilent` |
| `MoneyAndMarks` | `Spec => []MoneyIsWhereRowsSay` |

### PrintQueue

For any jobs, passes, calls, limits and times that satisfy the module's
assumptions (names do not overlap, retention and time to live are positive, the
first backoff is no longer than the longest). `IInv` (`PrintQueueProofs`):

* `PumpsOk`, the gate: a pass under way is the one `running` names. So the
  attempts a pass found in memory when it picked a job are still there when it
  sends, though rows change under it at every await; and a pass that heard
  "ok" has its job on paper;
* `CallsOk`: a call is about a job;
* `PapersOk`: what is on record as printed, in the row or in the memory of
  confirmations, is on paper;
* `ConfirmedTellsTruth` and `WakeArmed` themselves, and the types. `WakeArmed`
  needs the arithmetic of `backoff` (a power of two is a number, by the count
  of subsets) and that the earliest of the waiting jobs' deadlines exists.

| Theorem | Statement |
|---|---|
| `TypeCorrectness` | `Spec => []TypeOK` |
| `OnePassAtATime` | `Spec => []OneWriter` |
| `RecordTellsTruth` | `Spec => []ConfirmedTellsTruth` |
| `PrintedMeansPaper` | `Spec => []PrintedHasPaper` |
| `AlarmIsSet` | `Spec => []WakeArmed` |
| `NotPrintedTwice` | `Spec => NoSecondReceipt` (an action property), if there are no more jobs than the queue remembers confirmations of; by `MemoryOk`: a confirmation that was given and is not yet to be forgotten is still there |

The hypothesis of the last one is real: the code remembers a fixed number of
confirmations and forgets the oldest beyond it, so with more jobs a receipt that
was printed long ago may be sent again.

### NatsClient

For any callers, messages, requests, servers and streams and any number of
losses of power. `AcknowledgementHolds`: `Spec => []AckMeansWhatItSays`, assuming
that the server comes back configured as it was (`MaxChanges = 0`), without which
it is false (`NativeFindings`). `IInv` (`TransportsProofs`):

* `BeliefsOk`: what the client was told of server and stream is true;
* `SentOk`: under a policy that promises anything, nothing was ever sent that
  server and stream could not vouch for (`VouchedMeans` says what that amounts
  to: file storage, default persistence, an interval within what was accepted,
  if the server states one);
* `CallsOk`, `MessagesOk`: an acknowledged message was stored; one in memory is
  no older than the fsync interval; under a message id there is one copy.

### QuicEndpoint

For any callers, sessions, streams, depth of the queue and configurations.
`SessionsAddUp`: `QuicSpec => []EventsAddUp`. `QuicInv` (`TransportsProofs`):

* `TasksOk`: the maps go first, then the announcement. Who is in a map has a
  task that has not let go of it, and whose end waits in the queue or was read
  has one that has ended; hence no write finds a session whose end was read;
* `ReadersOk`: the events of a stream that wait tell no more than its reader has
  announced, so an event that is added goes behind them.

### MdnsHandles

For any threads, hosts, configurations and numbers of starts, with the loopback
address on loopback interfaces alone (`HandlesAssumption`). `HandlesAreTrue`:
`Spec => []HandlesKeepTrack`. `IInv` (`NativeProofs`): each registry's
counter is past every handle it gave (`HandlesOk`); a call that works on an
object has one (`CallsOk`); every engine that runs is in a table or has somebody
who waits for its end (`NoEngineIsForgotten`); a refused start names the reason.

### SyslogSink

For any limits, rules, capacity, number of deaths and refused writes, of the
cursor and of batches.

| Theorem | Statement |
|---|---|
| `PromiseOutlivesTheProcess` | `Spec => []PromisedSurvives`: what flush answered for and a death took was in a batch the file system had refused |
| `DrainGoesInOrder` | `Spec => DrainIsInOrder` (an action property: `SentInOrder` and `PassedOnlySent`) |
| `GapsStayCounted` | `Spec => []GapsAreCounted`, assuming `RoomToSpare`: what goes missing under a running process is in that process's own counts. Across a death no such thing is true (`NoSilentGap`) |
| `CursorStaysInJournal` | `Spec => []CursorIsInJournal`, assuming `RoomToSpare` |

*The promise* (`SyslogSinkProofs`). A record is in danger (`InDanger`) while it is
in memory only: in the queue, in the worker's batch, or in the buffer of the
segment being written. `IInv`:

* `SpoolOk`: no segment is empty, and every one but the one being written is
  on disk to its last record. One lemma for each operator of `SyslogSpool` says
  that it keeps this and what it does to the buffer (`DropKeeps`, `FlushKeeps`,
  `SpoolAppendKeeps`, `SeekKeeps`, `RecoverKeeps`);
* `HandOk`: outside of a batch the worker has nothing in memory, and the writing
  of a batch shows in the queue (`inFlight`), which is what flush waits for;
* `FlushOfTheAccepted`: a flush asks for accepted records that no earlier death took;
* `PromisedIsSafe`: nothing promised is in danger while the process lives, but for
  what a refused flush left in the buffer (`seen.unwritten`).

`DeathLoses` closes the argument: a death takes of the spool no more than the
buffer, at whichever point of an append it strikes.

*The order* (`SyslogDrainProofs`). The journal is taken for the set of its
records, each at its place (`Content`), and `Ahead` for those behind the reader's
place (`AheadIs`). `DrainInv` adds to `IInv`:

* `JournalOk`: segments are numbered in their order and the cursor file is not
  ahead of the reader (`OrderOk`); records lie in the order they were accepted in
  (`Sorted`); what lies between cursor file and reader was sent (`BackSent`), so
  that a restart only repeats; what is ahead was sent before or is younger than
  all that was (`AheadAbove`); and a reader that is not at the cursor reaches the
  journal (`Anchored`). The last is what makes a step past the end harmless: a
  cursor left ahead by a death stays the reader's until either moves;
* `Chain`: sent or written, in the batch, in the queue: each younger than those
  before it;
* `GoneOk`: a worker that is gone left nothing behind.

Each step keeps this and renders an account (`Accounted`): the records it passes
without sending them or dying are no more than what it adds to the count, and
what it sends is younger than what was sent. `DropCounts` is where the counting
is done: `drop_oldest` adds at least as much as leaves from before the reader.

*The gaps.* The account makes `GapsAreCounted` inductive if no step lets a record
in memory vanish (`Kept`), which can only fail where a record is written behind the
reader, that is past the end of the journal. So `RoomInv` is needed: the reader
reaches the journal (`Reach`), and will do so in a process started after a death,
since the cursor file is not past what is on disk (`OnFile`). `make_room` may break
the latter by dropping every segment that is on disk. `RoomToSpare` forbids that:

    Need(r) <= SegmentBytes  and  2 * SegmentBytes + Need(r) <= MaxBytes

for every record, so that two segments stay (`DropLeavesTwo`) and the older of them
is on disk. `Spool::open` asks only for `SegmentBytes <= MaxBytes`; the defaults
(`config.rs:34-35`: 64 MiB, 1 MiB, messages of 8 KiB) satisfy the assumption, and
the runs' six units do. It is not an artefact of the proof: with one unit less,
`MaxBytes = 5`, `SegmentBytes = 2` and records of two units, TLC finds both
properties violated after two deaths, by the finding about the cursor.

### SyslogConfig

For any settings offered, any texts, files, certificates and hashes, and any
number of calls of `config_set`. `NobodyElseIsSent`:
`ConfigSpec => []OnlyTheCollector`. `ConfigInv` (`TransportsProofs`):

* `SinkOk`: an open sink that has a collector goes by what was *set* when it was
  opened, with a host. The defaults name no collector, so a scheme came from a
  caller (`SetIfNotDefault`), and the last check of `Transport::new` asks for the
  host whatever the checks before it were (`TransportAsksForHost`,
  `VerdictTells`); whatever is set later changes nothing the sink goes by;
* `SessionOk`, `LeftOk`: the peer of the open stream, and everyone who was sent
  something, was accepted by the sink that is open now;
* `ClosedOk`: a closed sink has neither a stream nor anything sent.

`FirstOfTells` needs a least element of a set of places, which
`WellFoundedInduction` supplies.

### MdnsResponder

For any finite number of tills, any addresses, ports and texts, and any number of
probes, announcements, renames, losses, stops and losses of power, assuming
`TillsApart`:

* every till probes (`Unprobed = {}`) and announces (`AnnounceCount > 0`), and
  gives its addresses a lifetime;
* none has all the addresses of another. Otherwise what the other says of its
  addresses is what the till says itself, `same_answer` holds, and neither hears
  of the other;
* host names are equal when instance names are, as they are where the one is made
  from the other. Otherwise the tie-break compares unequal sets of records, and
  `MdnsTieBreak` shows what comes of it.

The run's instance satisfies them. The theorems rest, as the run does, on what the
model says of time: a window closes when what reached the prober is read and the
holders have read its probe.

| Theorem | Statement |
|---|---|
| `NamesAreUnique` | `Spec => []UniqueClaim` |
| `ClaimsAreKept` | `Spec => ClaimIsKept` (an action property) |
| `DuplicatesNeverRest` | `Spec => []DuplicateNeverRests` |
| `ContestsAreFair` | `Spec => []ContestIsFair` (`OneProberWinsAlways` is its first part) |

*What is said and heard.* `TieBreakDecides`: of two tills of one name exactly one
loses, since what is compared is a type and numbers of which the first tells two
entries of one type apart (`EntriesTold`), so that the entries only one side has
are in an order with a least (`FirstEntry`). `AddressesHeard`: whoever hears the
addresses of another till of its name has heard a conflict, and a probe for a
held name is answered with them (`DefenceIs`). `OthersAreNoConflict` and
`GoodbyeIsNoConflict`: nothing else a till says disturbs anybody.

*The losses.* `IInv` counts them against rounds. A prober that would back off
from a rival's probe and has none to read missed one in each round they were in
together (`RaceOk`); one whose name is held missed the answer to each probe, or
the holder missed the probe, but for the one the holder has yet to read
(`HeldOk`); two that hold one name took as many losses as there are probes, and
if no more, one of them has been told (`TwiceOk`); a holder hears nothing against
its name before (`CalmOk`). Which of two windows opened first (`OrderOk`) is what
makes `RaceOk` inductive: the one that opened first also closes first, and the
other's probe of that round came before. `ClaimKeeps` is where they meet: the last
window closes only after as many losses as there are rounds, if a rival is there.

*The length of a contest.* That a till renames at most n - 1 times is not
inductive: what has to be known is whom it renamed for. While nothing is lost
(`Quiet`), `CInv` says of each till what it can have heard, and that of a till with
the same label (`HeardOk`, `SaidBy`), and that every name a till has left has an
heir: another till that is at that name now, and either got it or would win the
tie-break against the one that left (`YieldOk`, `Heir`). A till that renames does
so for the till it heard of, or, if that one has gone too, for its heir
(`HeirExists`); this needs the tie-break to be transitive (`LosesIsTransitive`), by
cases on which of three sets of records has the first entry the others lack
(`LowerIsTransitive`), and asymmetric. Tills that counted on the one that renames
go over to its heir (`YieldKeeps`). The heirs of a till's n names have renamed 0, 1,
..., n - 1 times, so they are n others (`HeirsAreMany`).

### ScaleReader

For any lines, dialects, number of repeats, budget, and any sizes of the pieces in
which the port hands bytes over. `WeightIsTaken`: `ReaderSpec =>
[]WeightIsTheOneShown`, from two assumptions on the lines. `ReaderAssumption` says
that they are sequences, that each means one reading or none, and that a port hands
over at least a byte. `ReadsEachAlone` says that a line is some bytes and the
terminators that end it, and that `parse_line`, handed the whole line, reads what
is meant. TLC evaluates both for the lines of the run; what `parse_line` makes of
one line is arithmetic over its characters and is checked line by line, while how
lines are found in a stream, dropped, counted and timed is proved for all of them.

`ReaderInv` (`NativeProofs`):

* `CutOk`: there is a k such that the first k lines were read, each as it is meant
  and no more; of them nothing is left but terminators; and what is read and what
  is pending are the rest. A read that ends between two terminators leaves an empty line behind, which
  is why the k lines may reach into what is read, and why an empty line must be read
  as nothing (`EmptyIsNone`);
* `CountOk`: the readings the rule has counted are the last ones, stable and equal;
* `TellOk`: the rule has heard that bytes came, or will at its next offer.

`LineIsRead` carries it: if what is read holds a terminator, what is before the first
one is the next line, whole, or nothing. What was sent is `FlattenSeq` of lines;
that it grows by its last line and that some lines begin it (`FlattenAppends`,
`FlattenBegins`) is induction over a sequence, done here by taking the least length
at which it would fail (`LeastOf`).

### DeviceWrite

For any operations, models and wires. `JobIsTakenOnce`: `Spec => [](TypeOK /\
TakenOnce)`, the part of `JobIsDoneOnce` that is about `wire.rs`. `PortInv`: what
the device took of the job being written, followed by what is still to send, is the
job; so a short write is resumed where it ended.

### MdbBus

For any asks with an address of the table and bytes as data, any blocks of bytes as
answers, any way a byte may be spoilt, and any number of frames and of faults
(`BusAssumption`). `BusIsTrue`: `BusSpec => []BusSaysWhatWasMeant`. `BusInv`
(`NativeProofs`):

* the frame on the bus is one that was asked for (`BusIsAsked`), and
  `ExecutesWhatWasAsked` itself;
* `Accounted`: the first so many answers are read, the others lie whole, one after
  the other, in what is buffered and what is still on the line (`Laid`). Of those
  read, each was given, in order (`Kept`), or spoilt; the faults so far pay for
  every spoilt one, read or waiting (`Charged`).

Three lemmas carry it. `SumTells`: two sequences of bytes that differ in one place
have two sums, so a spoilt frame is never good (`SpoiltFrame`); that `checksum`
runs from byte to byte (`ChecksumRuns`) is induction over a sequence, done by
taking the least length at which it would fail. `TableIs`: base and command can be
told apart in the byte that holds both, so that whoever a frame moves is the one it
was for (`HeardAsAsked`). `DecodeIs`: the first word with the mode bit ends the
first reply that waits, wherever the bridge paused. The bound in `GivenAsAnswered`
is then a count: each reply that waits ends in a word of its own with the mode bit
(`WaitingAreClosed`).

### What is only model-checked

The liveness properties (no backend proves liveness under fairness or ENABLED),
and the properties of the runs that end in a counterexample. Of the others:
`LostOnlyWhenGone` of the browser; what a display shows and a drawer does
with the bytes it took (`LineShowsText`, `KickIsFull`); and what the codecs compute, which is checked over the inputs listed: for every input it
would take induction over data, which the provers cannot do.

## 6. What is left out, and why

* Fiscal queue: payload contents, error texts, the attempts counter, metrics,
  shift and report calls of the decorator (they come with ShiftZReport). An
  unreadable table is read as empty by `_heldByQueueSafe`.
* A document whose process dies between the operator's answer and the row is
  "dropped" in the ledger. The code promises nothing about it (the sale is
  complete, no row names its document) and the ledger says so: `Drop` is
  possible only before the till has an answer.
* A refund refused live has no row, with or without a database: only the payment service keeps a
  refused document, the refund service writes a log line.
* The scheduler's `kick` is a `runOnce` at some moment; the model allows one at
  any moment.
* Print queue: `dispose` (the end of the process's use of it), `sweep` (no
  caller in `lib/`), the stored attempts counter and failure reasons, bytes, and
  the order of creation among jobs of one class (left open).
* Two smaller races were seen and have no run of their own. `runOnce` looks at
  the shift once before a pass of many requests, so a pass may send after the
  shift was closed (the model allows it: `ToggleShift` at any moment); it is a
  matter for ShiftZReport. `_drainOnce` decides expiry on the copies of its
  look, so a job renewed by `retry` meanwhile is declared expired early; it is
  the same overwrite as in `PrintQueueFindings.cfg`.
* QR payment: `reverse` and refunds, amounts and payments of less than was
  asked, the provider's settings and their change, the count of confirmations
  (two answers absorbed together may count one payment twice), two tabs of one
  work place, requests that reach the provider after the till gave up on them.
* Syslog: errors of the file system in append other than a refused flush of a
  batch or a refused cursor, and socket time-outs. Of the counters a caller may
  read the two about drops are modelled.
* mDNS: the fixed fields of headers and records, reports of which
  interface carried what, more than one interface for a host.
* NATS: more than one consumer. Which stream captures a subject is fixed for a
  behaviour, and what the capturing stream does with the message is its own.
  QUIC: contents of messages, the event of an endpoint's own error.
* rk_zenoh and rk_infer are bindings around external libraries; rk_pki calls
  cryptographic ones, and only the order of writes in its store would be worth
  a model; rk_rt is empty and rk_spiffe parses documents without keeping state.
* Everything else listed as not modelled in `PROJECT.json`, with its reason there:
  presentation and drivers have no protocol of their own that a model would add
  to; the rest is in the plan.

Type invariants of the fiscal queue, the sink, the responder and `QrPayment` are
no property of a run: those of the first and the last are proved, the others stand
in their modules for whoever changes them.

### Observations

Seen while modelling, without a quoted promise that they break; a reader who
changes this code may want to know them.

* QR payment: an answer "pending" that a poll was given before the customer
  paid may be written over "paid" that another call wrote meanwhile; the row
  says paid again when it is asked about the next time. A code that was given
  up and whose cancellation is unconfirmed is not "live", so after a reload of
  the screen a second code may be shown on the same receipt. A till that dies
  between the receipt and the mark leaves a used intent listed as money
  without a receipt.
* `rk_syslog`: a sink whose segments hold one record announces losses for ever
  once it starts to drop; a loss by the last announcement before closing is
  neither announced nor kept. With the reject rule and `spool_max_bytes` equal
  to `spool_segment_bytes` a segment that was sent is what keeps the spool
  full. A dropped segment that was partly sent counts what was sent of it, too.
  `queue_max_records` of 0 silently means 1. TLS settings that cannot make a session may pass opening (transport.rs:135).
* `rk_mdns`: a conflict after the claim renames without probing
  (responder.rs:716), and two hosts that do it together may go on renaming; the old name gets no goodbye; a
  renamed label may exceed 63 octets; names of 256 octets decode where
  `MAX_NAME` is 255; `state().claimed` stays true after a stop and
  `is_running()` after the engine gave up; `resolve_host` counts questions'
  records while it settles; a poll with a null output eats its event.
* `rk_quic`: a unidirectional stream is read inside the session's loop, so a
  peer that leaves it open holds up the session's other streams; `streamClosed` may
  follow `sessionClosed`; sends have no deadline.
* `rk_devices`: `stabilizer_offer` changes the rule before it reports that the
  verdict buffer is too small, so a caller that asks for the size first counts one
  reading twice; the unit is no part of the equality of readings; a read that ends
  between CR and LF leaves an empty line behind; characters 0x00 to 0x1F of a text
  reach the display as commands.

## 7. Running

```
tlc -workers 2 -config FiscalQueueSafety.cfg MCFiscalQueue
tlc -workers 2 -config PrintQueueSafety.cfg MCPrintQueue
tlc -workers 2 -config QrPayment.cfg MCQrPayment
tlc -workers 2 -config SyslogSink.cfg MCSyslogSink
tlc -workers 2 -config MdnsResponder.cfg MCMdnsResponder
tlc -workers 2 -config MdnsClient.cfg MCMdnsClient
tlc -workers 2 -config Native.cfg MCNative
tlapm FiscalQueueProofs.tla
tlapm QrPaymentProofs.tla
tlapm PrintQueueProofs.tla
tlapm SyslogSinkProofs.tla
tlapm SyslogDrainProofs.tla
tlapm NativeProofs.tla
tlapm MdnsResponderProofs.tla
tlapm TransportsProofs.tla
```

State counts (distinct states, two workers): fiscal safety 0.68 million,
liveness 0.20 million; print safety 0.80 million, liveness 0.25 million; QR
safety 1.45 million, liveness 0.05 million; syslog sink 0.28 million
(`SyslogGaps.cfg` 2.5 million); responder 0.12 million; mDNS client 0.20 million; native
0.65 million over the eight components. Each takes between seconds and three
minutes.
