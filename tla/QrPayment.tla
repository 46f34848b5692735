----------------------------- MODULE QrPayment -----------------------------
(* Paying by a QR code.  An intent is a row of payment_intents and, at the  *)
(* provider, a code the customer may pay at any moment.  Calls of the till  *)
(* ask the provider and write what they hear into the row; between question *)
(* and answer anything may happen, and an answer may never come.            *)
EXTENDS Naturals

CONSTANTS
    Intents,    \* intent keys: attempts to show a code
    Receipts,   \* receipts of one work place
    ReceiptOf,  \* the receipt an intent is for
    Refusals,   \* kinds of refusal met: "transient" (is it done?), "final"
    Open, Cash, \* a receipt not yet paid, and one paid without an intent
    None,       \* no intent
    Callers     \* who asks, one call at a time each: the screen's "button",
                \* its timer, the "poller", and the "boot", which reconciles

ASSUME ReceiptAssumption == ReceiptOf \in [Intents -> Receipts]
ASSUME RefusalAssumption == Refusals \subseteq {"transient", "final"}
ASSUME MarksAssumption == Cash \notin Intents /\ Open \notin Intents
                          /\ None \notin Intents /\ Open # Cash

ASSUME CallerAssumption == {"button", "boot"} \subseteq Callers
                           /\ Callers \subseteq {"button", "poller", "boot"}

Terminal == {"paid", "expired", "cancelled", "failed"}
Unresolved == {"created", "pending"}

VARIABLES
    prov,     \* the provider's side: "unknown", "pending" or terminal
    row,      \* payment_intents, status "none" where there is no row
    late,     \* intents whose patience is spent
    call,     \* the call each caller is in
    receipt,  \* what each receipt was paid with
    sold      \* intents whose receipt is written and whose mark is not yet
vars == <<prov, row, late, call, receipt, sold>>

NoRow == [status |-> "none", pid |-> FALSE, abandoned |-> FALSE,
          settled |-> FALSE, refusal |-> "none"]

(* task: a call that makes one request ("once"), or works through todo:     *)
(* startQr sweeping before it shows a code ("start", which wants an intent),*)
(* the boot's sweep and the reconciliation after it, whose list is read     *)
(* once: known are the copies in it that had the provider's id.  op is the  *)
(* request in flight, on its intent, said what the provider answered.       *)
Idle == [task |-> "idle", want |-> None, todo |-> {}, known |-> {},
         op |-> "none", on |-> None, said |-> "none"]
Asking(j, op, i) == [j EXCEPT !.op = op, !.on = i, !.said = "none"]
Answered(j) == IF j.task = "once" THEN Idle ELSE Asking(j, "none", None)

Rows == [status : {"none"} \cup Unresolved \cup Terminal, pid : BOOLEAN,
         abandoned : BOOLEAN, settled : BOOLEAN,
         refusal : {"none", "transient", "final"}]
Jobs == [task : {"idle", "once", "start", "boot", "reconcile"},
         want : Intents \cup {None}, todo : SUBSET Intents,
         known : SUBSET Intents,
         op : {"none", "create", "poll", "cancel", "recreate", "repoll"},
         on : Intents \cup {None}, said : {"none", "pending"} \cup Terminal]

TypeOK ==
    /\ prov \in [Intents -> {"unknown", "pending"} \cup Terminal]
    /\ row \in [Intents -> Rows]
    /\ late \in SUBSET Intents
    /\ call \in [Callers -> Jobs]
    /\ receipt \in [Receipts -> Intents \cup {Open, Cash}]
    /\ sold \in SUBSET Intents

Init ==
    /\ prov = [i \in Intents |-> "unknown"]
    /\ row = [i \in Intents |-> NoRow]
    /\ late = {}
    /\ call = [c \in Callers |-> Idle]
    /\ receipt = [r \in Receipts |-> Open]
    /\ sold = {}

\* Fault: unresolved() leaves out what the till has given up.
WaitingOnScreen ==
    {i \in Intents : row[i].status \in Unresolved /\ ~row[i].abandoned}

\* unresolved, liveForReceipt, and what sweepStale picks.
Waiting == {i \in Intents : row[i].status \in Unresolved}
Live(r) == {i \in Waiting : ReceiptOf[i] = r /\ ~row[i].abandoned}
Stale == {i \in Waiting \cap late : ~row[i].abandoned}

(* abandon: the till stops waiting, and asks to cancel a code it knows of.  *)
Abandon(c, j, i) ==
    /\ row' = [row EXCEPT ![i].abandoned = TRUE]
    /\ call' = [call EXCEPT ![c] =
                  IF row[i].pid THEN Asking(j, "cancel", i) ELSE Answered(j)]

(* begin: the row is claimed; a provider that is not known to have the      *)
(* intent is asked to create it.                                            *)
Begin(c, j, i) ==
    /\ row' = [row EXCEPT ![i].status = IF @ = "none" THEN "created" ELSE @]
    /\ call' = [call EXCEPT ![c] =
                  IF row[i].pid THEN Answered(j) ELSE Asking(j, "create", i)]

StartQr(i) ==
    /\ call["button"].task = "idle"
    /\ receipt[ReceiptOf[i]] = Open
    /\ call' = [call EXCEPT !["button"] =
                  [Idle EXCEPT !.task = "start", !.want = i, !.todo = Stale]]
    /\ UNCHANGED <<prov, row, late, receipt, sold>>

PollQr(i) ==
    /\ "poller" \in Callers /\ call["poller"].task = "idle"
    /\ i \in Waiting
    /\ LET j == [Idle EXCEPT !.task = "once"]
       IN  IF row[i].abandoned \/ i \in late
           THEN Abandon("poller", j, i)
           ELSE IF ~row[i].pid
                THEN Begin("poller", j, i)
                ELSE /\ call' = [call EXCEPT !["poller"] = Asking(j, "poll", i)]
                     /\ UNCHANGED row
    /\ UNCHANGED <<prov, late, receipt, sold>>

CancelQr(i) ==
    /\ call["button"].task = "idle"
    /\ i \in Waiting
    /\ Abandon("button", [Idle EXCEPT !.task = "once"], i)
    /\ UNCHANGED <<prov, late, receipt, sold>>

(* The till dies and starts: its calls are gone, and the desk reconciles,   *)
(* first giving up on the codes nobody asks about.                          *)
Restart ==
    /\ call' = [c \in Callers |-> IF c # "boot" THEN Idle
                ELSE [Idle EXCEPT !.task = "boot", !.todo = Stale]]
    /\ sold' = {}
    /\ UNCHANGED <<prov, row, late, receipt>>

Sweep(c, i) ==
    /\ call[c].task \in {"start", "boot"} /\ call[c].op = "none"
    /\ i \in call[c].todo
    /\ Abandon(c, [call[c] EXCEPT !.todo = @ \ {i}], i)
    /\ UNCHANGED <<prov, late, receipt, sold>>

(* The sweep is over.  A code is shown unless another one is live on the    *)
(* receipt; a starting till goes on to reconcile.                           *)
Show ==
    /\ call["button"].task = "start" /\ call["button"].op = "none"
    /\ call["button"].todo = {}
    /\ LET i == call["button"].want
       IN  IF Live(ReceiptOf[i]) \subseteq {i}
           THEN Begin("button", [Idle EXCEPT !.task = "once"], i)
           ELSE call' = [call EXCEPT !["button"] = Idle] /\ UNCHANGED row
    /\ UNCHANGED <<prov, late, receipt, sold>>

Reconcile ==
    /\ call["boot"].task = "boot" /\ call["boot"].op = "none"
    /\ call["boot"].todo = {}
    /\ call' = [call EXCEPT !["boot"] =
                  [Idle EXCEPT !.task = "reconcile", !.todo = Waiting,
                               !.known = {i \in Waiting : row[i].pid}]]
    /\ UNCHANGED <<prov, row, late, receipt, sold>>

ReconcileOne(i) ==
    /\ call["boot"].task = "reconcile" /\ call["boot"].op = "none"
    /\ i \in call["boot"].todo
    /\ LET b == call["boot"]
           j == [b EXCEPT !.todo = @ \ {i}, !.known = @ \ {i}]
       IN  call' = [call EXCEPT !["boot"] =
                      Asking(j, IF i \in b.known THEN "repoll" ELSE "recreate", i)]
    /\ UNCHANGED <<prov, row, late, receipt, sold>>

(* The provider does what it is asked.  The same key creates nothing twice, *)
(* and a paid code is not cancelled.                                        *)
Provide(c) ==
    /\ call[c].op # "none" /\ call[c].said = "none"
    /\ LET i == call[c].on
       IN  /\ prov' = [prov EXCEPT ![i] =
                 CASE call[c].op \in {"create", "recreate"} /\ @ = "unknown" -> "pending"
                   [] call[c].op = "cancel" /\ @ = "pending" -> "cancelled"
                   [] OTHER -> @]
           /\ call' = [call EXCEPT ![c].said = prov'[i]]
    /\ UNCHANGED <<row, late, receipt, sold>>

(* attachProviderIntent writes the id and the state heard.                  *)
Attach(old, said) == [old EXCEPT !.pid = TRUE, !.status = said]
(* _absorb: applyState writes the state heard over whatever is there.       *)
Absorb(old, said) == [old EXCEPT !.status = said, !.refusal = "none"]

Hear(c, i) ==
    /\ call[c].said # "none" /\ call[c].on = i
    /\ LET j == call[c]
           creating == j.op \in {"create", "recreate"}
       IN  /\ row' = [row EXCEPT ![i] =
                        IF creating THEN Attach(@, j.said) ELSE Absorb(@, j.said)]
           /\ call' = [call EXCEPT ![c] =
                         IF j.op = "recreate" THEN Asking(j, "repoll", i)
                                              ELSE Answered(j)]
    /\ UNCHANGED <<prov, late, receipt, sold>>

\* Fault: any refusal closes the row.
RefusedAnyhow(old, op, why) ==
    IF op \in {"recreate", "repoll"} THEN old
    ELSE [old EXCEPT !.refusal = why,
                     !.status = IF op = "cancel" THEN "cancelled" ELSE "failed"]

(* What a refusal makes of the row.  A transient one - no answer in time,   *)
(* no link, a busy provider - says nothing about the money; reconcile       *)
(* leaves the row alone whatever it was.                                    *)
Refused(old, op, why) ==
    IF why = "transient" \/ op \in {"recreate", "repoll"} THEN old
    ELSE [old EXCEPT !.refusal = why,
                     !.status = IF op = "cancel" THEN "cancelled" ELSE "failed"]

Refuse(c, why) ==
    /\ call[c].op # "none"
    /\ row' = [row EXCEPT ![call[c].on] = Refused(@, call[c].op, why)]
    /\ call' = [call EXCEPT ![c] = Answered(@)]
    /\ UNCHANGED <<prov, late, receipt, sold>>

(* complete, naming an intent: its row must hold money nobody has used.     *)
(* The receipt is written first and the intent marked after it.             *)
Usable(i) == row[i].status = "paid" /\ ~row[i].settled
PayByQr(i) ==
    /\ receipt[ReceiptOf[i]] = Open
    /\ Usable(i)
    /\ receipt' = [receipt EXCEPT ![ReceiptOf[i]] = i]
    /\ sold' = sold \cup {i}
    /\ UNCHANGED <<prov, row, late, call>>

\* Fault: the mark is written before the receipt.
MarkFirst(i) ==
    /\ Usable(i) /\ receipt[ReceiptOf[i]] = Open
    /\ row' = [row EXCEPT ![i].settled = TRUE]
    /\ UNCHANGED <<prov, late, call, receipt, sold>>

MarkSettled(i) ==
    /\ i \in sold
    /\ row' = [row EXCEPT ![i].settled = TRUE]
    /\ sold' = sold \ {i}
    /\ UNCHANGED <<prov, late, call, receipt>>

PayOtherwise(r) ==
    /\ receipt[r] = Open
    /\ receipt' = [receipt EXCEPT ![r] = Cash]
    /\ UNCHANGED <<prov, row, late, call, sold>>

(* The customer pays a code the till has been given, or declines it; the    *)
(* provider's own term runs out; the till's patience is spent.              *)
Customer(i) ==
    /\ prov[i] = "pending" /\ row[i].pid
    /\ \E s \in {"paid", "expired"} : prov' = [prov EXCEPT ![i] = s]
    /\ UNCHANGED <<row, late, call, receipt, sold>>

Patience(i) ==
    /\ i \notin late /\ row[i].status # "none"
    /\ late' = late \cup {i}
    /\ UNCHANGED <<prov, row, call, receipt, sold>>

(* The boot is over once there is nothing left to ask about.                *)
BootDone ==
    /\ call["boot"].task = "reconcile" /\ call["boot"].op = "none"
    /\ call["boot"].todo = {}
    /\ call' = [call EXCEPT !["boot"] = Idle]
    /\ UNCHANGED <<prov, row, late, receipt, sold>>

Next ==
    \/ \E i \in Intents :
          \/ StartQr(i) \/ PollQr(i) \/ CancelQr(i) \/ ReconcileOne(i)
          \/ PayByQr(i) \/ MarkSettled(i) \/ Customer(i) \/ Patience(i)
          \/ \E c \in Callers : Sweep(c, i) \/ Hear(c, i)
    \/ \E c \in Callers : Provide(c) \/ \E why \in Refusals : Refuse(c, why)
    \/ \E r \in Receipts : PayOtherwise(r)
    \/ Show \/ Reconcile \/ BootDone \/ Restart

Spec == Init /\ [][Next]_vars

(* The till is switched on again and again; a process stays up often enough *)
(* to work through its start; and a question asked again and again is       *)
(* answered in the end.  No call from a screen is fair.                     *)
Fairness ==
    /\ WF_vars(Restart)
    /\ SF_vars(Reconcile)
    /\ \A i \in Intents :
          /\ SF_vars(Sweep("boot", i))
          /\ SF_vars(ReconcileOne(i))
          /\ SF_vars(call["boot"].on = i /\ Provide("boot"))
          /\ SF_vars(Hear("boot", i))
FairSpec == Spec /\ Fairness

----------------------------------------------------------------------------
(* Money the customer has paid is never forgotten in silence: the row       *)
(* holds it, or is one the next reconciliation asks about, or carries a     *)
(* refusal of the provider's that no time will mend.                        *)
PaidIsNeverSilent ==
    \A i \in Intents : prov[i] = "paid" =>
        \/ row[i].status \in {"paid"} \cup Unresolved
        \/ row[i].refusal = "final"

(* A receipt that was paid by an intent rests on money the provider took,   *)
(* and an intent is marked as used only by a receipt that carries it.       *)
MoneyIsWhereRowsSay ==
    \A i \in Intents :
        /\ receipt[ReceiptOf[i]] = i => prov[i] = "paid"
        /\ row[i].settled => receipt[ReceiptOf[i]] = i

(* Money paid is found in the end, whatever was lost or died on the way:    *)
(* the row says paid, unless a final refusal closed it before.              *)
PaidIsNoticed ==
    \A i \in Intents :
        prov[i] = "paid" ~> row[i].status = "paid" \/ row[i].refusal = "final"

(* The comment of sweepStale: a code whose patience is spent is cancelled   *)
(* by the till itself, before each new code and at each start.              *)
StaleCodesAreCancelled ==
    \A i \in Intents : i \in late /\ prov[i] = "pending" ~> prov[i] # "pending"

(* The comments of cashierCancelled and patienceSpent: a row is cancelled   *)
(* when the provider has confirmed it.                                      *)
CancelledIsConfirmed ==
    \A i \in Intents : row[i].status = "cancelled" => prov[i] = "cancelled"
=============================================================================
