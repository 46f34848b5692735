-------------------------- MODULE QrPaymentProofs --------------------------
(* Proofs about QrPayment for any set of intents, receipts and refusals.    *)
(* What makes the properties true is that a provider's last word stays its  *)
(* last word: an answer in flight that is terminal still holds when it is   *)
(* written, however late, and a row that says so was told so.               *)
EXTENDS QrPayment, TLAPS

\* A call j, beside rows r and provider p: what it asks about has a row, a
\* request by the provider's id is about a code that exists, and a terminal
\* answer is still true.
JobOk(j, r, p) ==
    /\ j.op # "none" => j.on \in Intents /\ r[j.on].status # "none"
    /\ j.op \in {"poll", "cancel", "repoll"} => p[j.on] # "unknown"
    /\ j.said # "none" => j.op # "none" /\ p[j.on] # "unknown"
    /\ j.said \in Terminal => p[j.on] = j.said
    /\ \A i \in j.todo : r[i].status # "none"
    /\ \A i \in j.known : p[i] # "unknown"
    /\ j.task = "start" => j.want \in Intents

\* A row w and the provider's state q of one intent: a status nobody refused
\* into the row is the provider's own, and paid always is.
RowOk(w, q) ==
    /\ w.pid => q # "unknown"
    /\ q # "unknown" => w.status # "none"
    /\ w.status = "paid" => q = "paid"
    /\ w.status \in Terminal /\ w.refusal # "final" => q = w.status

\* An intent's money: its receipt, its mark, the mark still to be written.
MoneyOk(i) ==
    /\ receipt[ReceiptOf[i]] = i => prov[i] = "paid"
    /\ i \in sold \/ row[i].settled => receipt[ReceiptOf[i]] = i

JobsOk == \A c \in Callers : JobOk(call[c], row, prov)
RowsOk == \A i \in Intents : RowOk(row[i], prov[i])
MoneysOk == \A i \in Intents : MoneyOk(i)
IInv == TypeOK /\ JobsOk /\ RowsOk /\ MoneysOk

\* From one state of rows and provider to a later one no row disappears, no
\* code becomes unknown, and a last word is not taken back.
Grows(r, p, r2, p2) ==
    \A i \in Intents :
        /\ r[i].status # "none" => r2[i].status # "none"
        /\ p[i] # "unknown" => p2[i] # "unknown"
        /\ p[i] \in Terminal => p2[i] = p[i]

Ops == {"create", "poll", "cancel", "recreate", "repoll"}

\* A call that asks is a call, and asks what it was told to.
LEMMA AskingFacts ==
    ASSUME NEW j \in Jobs, NEW op \in Ops, NEW i \in Intents
    PROVE  /\ Asking(j, op, i) \in Jobs
           /\ Asking(j, op, i).op = op /\ Asking(j, op, i).on = i
           /\ Asking(j, op, i).said = "none" /\ Asking(j, op, i).todo = j.todo
           /\ Asking(j, op, i).known = j.known
           /\ Asking(j, op, i).task = j.task /\ Asking(j, op, i).want = j.want
BY DEF Asking, Jobs, Ops

\* A call that was answered asks nothing, and has no more to do than before.
LEMMA AnsweredFacts ==
    ASSUME NEW j \in Jobs
    PROVE  /\ Answered(j) \in Jobs
           /\ Answered(j).op = "none" /\ Answered(j).said = "none"
           /\ Answered(j).todo \subseteq j.todo /\ Answered(j).known \subseteq j.known
           /\ Answered(j).task = "start" => j.task = "start" /\ Answered(j).want = j.want
BY DEF Answered, Asking, Jobs, Idle

LEMMA IdleFacts ==
    /\ Idle \in Jobs
    /\ \A r, p : JobOk(Idle, r, p)
BY DEF Idle, Jobs, JobOk, Terminal

\* A call that asks about a code with a row keeps what is true of it.
LEMMA AskingOk ==
    ASSUME NEW j \in Jobs, NEW op \in Ops, NEW i \in Intents, NEW r, NEW p,
           JobOk(j, r, p), r[i].status # "none",
           op \in {"poll", "cancel", "repoll"} => p[i] # "unknown"
    PROVE  JobOk(Asking(j, op, i), r, p)
<1> DEFINE k == Asking(j, op, i)
<1>1. /\ k.op = op /\ k.on = i /\ k.said = "none" /\ k.todo = j.todo /\ k.known = j.known
      /\ k.task = j.task /\ k.want = j.want
    BY AskingFacts
<1> HIDE DEF k
<1>2. JobOk(k, r, p) BY <1>1 DEF JobOk, Terminal
<1> QED BY <1>2 DEF k

\* So does one that was answered.
LEMMA AnsweredOk ==
    ASSUME NEW j \in Jobs, NEW r, NEW p, JobOk(j, r, p)
    PROVE  JobOk(Answered(j), r, p)
<1> DEFINE k == Answered(j)
<1>1. /\ k.op = "none" /\ k.said = "none" /\ k.todo \subseteq j.todo /\ k.known \subseteq j.known
      /\ k.task = "start" => j.task = "start" /\ k.want = j.want
    BY AnsweredFacts
<1> HIDE DEF k
<1>2. JobOk(k, r, p) BY <1>1 DEF JobOk, Terminal
<1> QED BY <1>2 DEF k

\* What is true of a call stays true as rows and provider move on.
LEMMA JobOkGrows ==
    ASSUME NEW j \in Jobs, NEW r, NEW p, NEW r2, NEW p2,
           Grows(r, p, r2, p2), JobOk(j, r, p)
    PROVE  JobOk(j, r2, p2)
<1>1. j.todo \subseteq Intents /\ j.known \subseteq Intents BY DEF Jobs
<1>2. j.op = "none" => j.said = "none" /\ j.op \notin {"poll", "cancel", "repoll"}
    BY DEF JobOk, Jobs
<1>3. "none" \notin Terminal BY DEF Terminal
<1> QED BY <1>1, <1>2, <1>3 DEF JobOk, Grows

\* One call changes to k while rows and provider move on.
LEMMA OneCall ==
    ASSUME call \in [Callers -> Jobs], JobsOk, Grows(row, prov, row', prov'),
           NEW c \in Callers, NEW k \in Jobs, JobOk(k, row', prov'),
           call' = [call EXCEPT ![c] = k]
    PROVE  call' \in [Callers -> Jobs] /\ JobsOk'
<1>1. \A d \in Callers : call'[d] \in Jobs /\ JobOk(call'[d], row', prov')
    BY JobOkGrows DEF JobsOk
<1> QED BY <1>1 DEF JobsOk

\* No call changes while rows and provider move on.
LEMMA NoCall ==
    ASSUME call \in [Callers -> Jobs], JobsOk, Grows(row, prov, row', prov'),
           call' = call
    PROVE  JobsOk'
<1>1. \A d \in Callers : JobOk(call[d], row', prov')
    BY JobOkGrows DEF JobsOk
<1> QED BY <1>1 DEF JobsOk

\* A row changes to w: the rest of what the invariant says of rows.
LEMMA OneRow ==
    ASSUME row \in [Intents -> Rows], RowsOk, NEW i \in Intents, NEW w \in Rows,
           row' = [row EXCEPT ![i] = w], prov' = prov,
           row[i].status # "none" => w.status # "none", RowOk(w, prov[i])
    PROVE  /\ row' \in [Intents -> Rows] /\ RowsOk'
           /\ Grows(row, prov, row', prov')
<1>1. \A k \in Intents : row'[k] = IF k = i THEN w ELSE row[k]
    OBVIOUS
<1>2. RowsOk' BY <1>1 DEF RowsOk
<1>3. Grows(row, prov, row', prov') BY <1>1 DEF Grows
<1> QED BY <1>2, <1>3

\* Money stays where it is while receipts and marks do, and no paid code
\* becomes anything else.
LEMMA MoneyStays ==
    ASSUME TypeOK, MoneysOk, UNCHANGED <<receipt, sold>>, Grows(row, prov, row', prov'),
           \A i \in Intents : row'[i].settled = row[i].settled
    PROVE  MoneysOk'
<1>1. "paid" \in Terminal BY DEF Terminal
<1> QED BY <1>1 DEF MoneysOk, MoneyOk, Grows

\* abandon: the row is marked; a cancellation is asked of a code that exists.
LEMMA AbandonKeeps ==
    ASSUME IInv, NEW c \in Callers, NEW j \in Jobs, JobOk(j, row, prov),
           j.op = "none", NEW i \in Intents, row[i].status # "none",
           Abandon(c, j, i), UNCHANGED <<prov, late, receipt, sold>>
    PROVE  IInv'
<1> DEFINE w == [row[i] EXCEPT !.abandoned = TRUE]
           k == IF row[i].pid THEN Asking(j, "cancel", i) ELSE Answered(j)
<1>1. w \in Rows /\ w.status = row[i].status /\ w.pid = row[i].pid
        /\ w.refusal = row[i].refusal /\ w.settled = row[i].settled
    BY DEF IInv, TypeOK, Rows
<1>2. row' = [row EXCEPT ![i] = w] /\ call' = [call EXCEPT ![c] = k]
    BY DEF Abandon
<1>3. RowOk(w, prov[i]) BY <1>1 DEF IInv, RowsOk, RowOk
<1>4. row' \in [Intents -> Rows] /\ RowsOk' /\ Grows(row, prov, row', prov')
    <2> HIDE DEF w
    <2> QED BY <1>1, <1>2, <1>3, OneRow DEF IInv, TypeOK
<1>5. k \in Jobs BY AskingFacts, AnsweredFacts DEF Ops
<1>6. JobOk(k, row', prov')
    <2>1. JobOk(j, row', prov') BY <1>4, JobOkGrows
    <2>2. row[i].pid => prov'[i] # "unknown" BY DEF IInv, RowsOk, RowOk
    <2>3. row'[i].status # "none" BY <1>4 DEF Grows
    <2>4. CASE row[i].pid
        BY <2>1, <2>2, <2>3, <2>4, AskingOk DEF Ops
    <2>5. CASE ~row[i].pid
        BY <2>1, <2>5, AnsweredOk
    <2> QED BY <2>4, <2>5
<1>7. call' \in [Callers -> Jobs] /\ JobsOk'
    <2> HIDE DEF k
    <2> QED BY <1>2, <1>4, <1>5, <1>6, OneCall DEF IInv, TypeOK
<1>8. MoneysOk'
    <2>1. \A l \in Intents : row'[l].settled = row[l].settled
        BY <1>1, <1>2 DEF IInv, TypeOK
    <2> QED BY <2>1, <1>4, MoneyStays DEF IInv
<1> QED BY <1>4, <1>7, <1>8 DEF IInv, TypeOK

\* begin: the row is there, and the provider is asked to create its code.
LEMMA BeginKeeps ==
    ASSUME IInv, NEW c \in Callers, NEW j \in Jobs, JobOk(j, row, prov),
           j.op = "none", NEW i \in Intents,
           Begin(c, j, i), UNCHANGED <<prov, late, receipt, sold>>
    PROVE  IInv'
<1> DEFINE w == [row[i] EXCEPT !.status = IF @ = "none" THEN "created" ELSE @]
           k == IF row[i].pid THEN Answered(j) ELSE Asking(j, "create", i)
<1>1. w \in Rows /\ w.status # "none" /\ w.pid = row[i].pid
        /\ w.status = (IF row[i].status = "none" THEN "created" ELSE row[i].status)
        /\ w.refusal = row[i].refusal /\ w.settled = row[i].settled
    BY DEF IInv, TypeOK, Rows, Unresolved
<1>2. row' = [row EXCEPT ![i] = w] /\ call' = [call EXCEPT ![c] = k]
    BY DEF Begin
<1>3. RowOk(w, prov[i]) BY <1>1 DEF IInv, RowsOk, RowOk, Terminal
<1>4. row' \in [Intents -> Rows] /\ RowsOk' /\ Grows(row, prov, row', prov')
    <2> HIDE DEF w
    <2> QED BY <1>1, <1>2, <1>3, OneRow DEF IInv, TypeOK
<1>5. k \in Jobs BY AskingFacts, AnsweredFacts DEF Ops
<1>6. JobOk(k, row', prov')
    <2>1. JobOk(j, row', prov') BY <1>4, JobOkGrows
    <2>2. row'[i].status # "none" BY <1>1, <1>2 DEF IInv, TypeOK
    <2>3. CASE ~row[i].pid
        BY <2>1, <2>2, <2>3, AskingOk DEF Ops
    <2>4. CASE row[i].pid
        BY <2>1, <2>4, AnsweredOk
    <2> QED BY <2>3, <2>4
<1>7. call' \in [Callers -> Jobs] /\ JobsOk'
    <2> HIDE DEF k
    <2> QED BY <1>2, <1>4, <1>5, <1>6, OneCall DEF IInv, TypeOK
<1>8. MoneysOk'
    <2>1. \A l \in Intents : row'[l].settled = row[l].settled
        BY <1>1, <1>2 DEF IInv, TypeOK
    <2> QED BY <2>1, <1>4, MoneyStays DEF IInv
<1> QED BY <1>4, <1>7, <1>8 DEF IInv, TypeOK

\* A step that changes one call and nothing else.
LEMMA OnlyCall ==
    ASSUME IInv, NEW c \in Callers, NEW k \in Jobs, JobOk(k, row, prov),
           call' = [call EXCEPT ![c] = k],
           UNCHANGED <<prov, row, late, receipt, sold>>
    PROVE  IInv'
<1>1. Grows(row, prov, row', prov') BY DEF Grows
<1>2. call' \in [Callers -> Jobs] /\ JobsOk' BY <1>1, OneCall DEF IInv, TypeOK
<1>3. RowsOk' /\ MoneysOk' BY DEF IInv, RowsOk, MoneysOk, MoneyOk
<1> QED BY <1>2, <1>3 DEF IInv, TypeOK

\* A call that works through intents with rows, and asks nothing yet.
LEMMA WorkingOk ==
    ASSUME NEW t \in {"once", "start", "boot", "reconcile"}, NEW S \in SUBSET Waiting,
           NEW i \in Intents \cup {None}, t = "start" => i \in Intents
    PROVE  LET j == [Idle EXCEPT !.task = t, !.want = i, !.todo = S]
           IN  j \in Jobs /\ j.op = "none" /\ JobOk(j, row, prov)
<1> DEFINE j == [Idle EXCEPT !.task = t, !.want = i, !.todo = S]
<1>1. /\ j \in Jobs /\ j.op = "none" /\ j.said = "none"
      /\ j.task = t /\ j.want = i /\ j.todo = S /\ j.known = {}
    BY DEF Idle, Jobs, Waiting
<1> HIDE DEF j
<1>2. \A l \in S : row[l].status # "none" BY DEF Waiting, Unresolved
<1>3. JobOk(j, row, prov) BY <1>1, <1>2 DEF JobOk, Terminal
<1> QED BY <1>1, <1>3 DEF j

LEMMA StartQrKeeps == ASSUME IInv, NEW i \in Intents, StartQr(i) PROVE IInv'
<1>1. Stale \in SUBSET Waiting BY DEF Stale
<1> QED BY <1>1, WorkingOk, OnlyCall, CallerAssumption DEF StartQr

\* A single request starts from a call that has done nothing.
LEMMA OnceOk ==
    LET j == [Idle EXCEPT !.task = "once"]
    IN  j \in Jobs /\ j.op = "none" /\ JobOk(j, row, prov)
<1> DEFINE j == [Idle EXCEPT !.task = "once"]
<1>1. /\ j \in Jobs /\ j.op = "none" /\ j.said = "none" /\ j.task = "once"
      /\ j.todo = {} /\ j.known = {}
    BY DEF Idle, Jobs
<1> HIDE DEF j
<1>2. JobOk(j, row, prov) BY <1>1 DEF JobOk, Terminal
<1> QED BY <1>1, <1>2 DEF j

LEMMA PollQrKeeps == ASSUME IInv, NEW i \in Intents, PollQr(i) PROVE IInv'
<1> DEFINE j == [Idle EXCEPT !.task = "once"]
<1>1. j \in Jobs /\ j.op = "none" /\ JobOk(j, row, prov) BY OnceOk
<1>2. "poller" \in Callers /\ row[i].status # "none"
    BY DEF PollQr, Waiting, Unresolved
<1>3. UNCHANGED <<prov, late, receipt, sold>> BY DEF PollQr
<1> HIDE DEF j
<1>4. CASE Abandon("poller", j, i) BY <1>1, <1>2, <1>3, <1>4, AbandonKeeps
<1>5. CASE Begin("poller", j, i) BY <1>1, <1>2, <1>3, <1>5, BeginKeeps
<1>6. CASE row[i].pid /\ UNCHANGED row
           /\ call' = [call EXCEPT !["poller"] = Asking(j, "poll", i)]
    <2>1. prov[i] # "unknown" BY <1>6 DEF IInv, RowsOk, RowOk
    <2>2. Asking(j, "poll", i) \in Jobs BY <1>1, AskingFacts DEF Ops
    <2>3. JobOk(Asking(j, "poll", i), row, prov)
        BY <1>1, <1>2, <2>1, AskingOk DEF Ops
    <2> QED BY <1>2, <1>3, <1>6, <2>2, <2>3, OnlyCall
<1> QED BY <1>4, <1>5, <1>6 DEF PollQr, j

LEMMA CancelQrKeeps == ASSUME IInv, NEW i \in Intents, CancelQr(i) PROVE IInv'
<1> DEFINE j == [Idle EXCEPT !.task = "once"]
<1>1. j \in Jobs /\ j.op = "none" /\ JobOk(j, row, prov) BY OnceOk
<1>2. row[i].status # "none" BY DEF CancelQr, Waiting, Unresolved
<1>3. Abandon("button", j, i) /\ UNCHANGED <<prov, late, receipt, sold>>
    BY DEF CancelQr
<1> HIDE DEF j
<1> QED BY <1>1, <1>2, <1>3, AbandonKeeps, CallerAssumption

LEMMA RestartKeeps == ASSUME IInv, Restart PROVE IInv'
<1> DEFINE b == [Idle EXCEPT !.task = "boot", !.todo = Stale]
<1>1. b \in Jobs /\ b.op = "none" /\ b.said = "none" /\ b.task = "boot" /\ b.todo = Stale /\ b.known = {}
    BY DEF Idle, Jobs, Stale, Waiting
<1>2. call' = [c \in Callers |-> IF c # "boot" THEN Idle ELSE b] BY DEF Restart
<1> HIDE DEF b
<1>3. JobOk(b, row, prov)
    BY <1>1 DEF JobOk, Terminal, Stale, Waiting, Unresolved
<1>4. call' \in [Callers -> Jobs] BY <1>1, <1>2, IdleFacts
<1>5. \A c \in Callers : JobOk(call'[c], row, prov) BY <1>2, <1>3, IdleFacts
<1>6. UNCHANGED <<prov, row, late, receipt>> /\ sold' = {} BY DEF Restart
<1>7. JobsOk' BY <1>5, <1>6 DEF JobsOk
<1>8. RowsOk' /\ MoneysOk' BY <1>6 DEF IInv, RowsOk, MoneysOk, MoneyOk
<1> QED BY <1>4, <1>6, <1>7, <1>8 DEF IInv, TypeOK

LEMMA SweepKeeps ==
    ASSUME IInv, NEW c \in Callers, NEW i \in Intents, Sweep(c, i) PROVE IInv'
<1> DEFINE j == [call[c] EXCEPT !.todo = @ \ {i}]
<1>1. call[c] \in Jobs /\ JobOk(call[c], row, prov) BY DEF IInv, TypeOK, JobsOk
<1>2. /\ j \in Jobs /\ j.op = call[c].op /\ j.on = call[c].on /\ j.said = call[c].said
      /\ j.task = call[c].task /\ j.want = call[c].want /\ j.todo \subseteq call[c].todo
      /\ j.known = call[c].known
    BY <1>1 DEF Jobs
<1>3. row[i].status # "none" /\ j.op = "none" BY <1>1, <1>2 DEF Sweep, JobOk
<1>4. Abandon(c, j, i) /\ UNCHANGED <<prov, late, receipt, sold>> BY DEF Sweep
<1> HIDE DEF j
<1>5. JobOk(j, row, prov) BY <1>1, <1>2 DEF JobOk
<1> QED BY <1>2, <1>3, <1>4, <1>5, AbandonKeeps

LEMMA ShowKeeps == ASSUME IInv, Show PROVE IInv'
<1> DEFINE j == [Idle EXCEPT !.task = "once"]
           i == call["button"].want
<1>1. j \in Jobs /\ j.op = "none" /\ JobOk(j, row, prov) BY OnceOk
<1>2. i \in Intents
    BY CallerAssumption DEF Show, IInv, JobsOk, JobOk
<1>3. UNCHANGED <<prov, late, receipt, sold>> BY DEF Show
<1>4. CASE Begin("button", j, i)
    <2> HIDE DEF j, i
    <2> QED BY <1>1, <1>2, <1>3, <1>4, BeginKeeps, CallerAssumption
<1>5. CASE call' = [call EXCEPT !["button"] = Idle] /\ UNCHANGED row
    BY <1>3, <1>5, IdleFacts, OnlyCall, CallerAssumption
<1> QED BY <1>4, <1>5 DEF Show

LEMMA ReconcileKeeps == ASSUME IInv, Reconcile PROVE IInv'
<1> DEFINE j == [Idle EXCEPT !.task = "reconcile", !.todo = Waiting,
                             !.known = {i \in Waiting : row[i].pid}]
<1>1. /\ j \in Jobs /\ j.op = "none" /\ j.said = "none" /\ j.task = "reconcile"
      /\ j.todo = Waiting /\ j.known = {i \in Waiting : row[i].pid}
    BY DEF Idle, Jobs, Waiting
<1>2. call' = [call EXCEPT !["boot"] = j] /\ UNCHANGED <<prov, row, late, receipt, sold>>
    BY DEF Reconcile
<1> HIDE DEF j
<1>3. \A i \in Waiting : row[i].status # "none" /\ (row[i].pid => prov[i] # "unknown")
    BY DEF Waiting, Unresolved, IInv, RowsOk, RowOk
<1>4. JobOk(j, row, prov) BY <1>1, <1>3 DEF JobOk, Terminal
<1> QED BY <1>1, <1>2, <1>4, OnlyCall, CallerAssumption

LEMMA ReconcileOneKeeps == ASSUME IInv, NEW i \in Intents, ReconcileOne(i) PROVE IInv'
<1> DEFINE b == call["boot"]
           j == [b EXCEPT !.todo = @ \ {i}, !.known = @ \ {i}]
           op == IF i \in b.known THEN "repoll" ELSE "recreate"
<1>1. b \in Jobs /\ JobOk(b, row, prov)
    BY CallerAssumption DEF IInv, TypeOK, JobsOk
<1>2. /\ j \in Jobs /\ j.op = b.op /\ j.on = b.on /\ j.said = b.said
      /\ j.task = b.task /\ j.want = b.want /\ j.todo \subseteq b.todo
      /\ j.known \subseteq b.known
    BY <1>1 DEF Jobs
<1>3. row[i].status # "none" BY <1>1 DEF ReconcileOne, JobOk
<1>4. i \in b.known => prov[i] # "unknown" BY <1>1 DEF JobOk
<1>5. /\ call' = [call EXCEPT !["boot"] = Asking(j, op, i)]
      /\ UNCHANGED <<prov, row, late, receipt, sold>>
    BY CallerAssumption DEF ReconcileOne, IInv, TypeOK
<1>6. op \in Ops /\ (op \in {"poll", "cancel", "repoll"} => prov[i] # "unknown")
    BY <1>4 DEF Ops
<1> HIDE DEF j, op
<1>7. JobOk(j, row, prov) BY <1>1, <1>2 DEF JobOk
<1>8. Asking(j, op, i) \in Jobs BY <1>2, <1>6, AskingFacts
<1>9. JobOk(Asking(j, op, i), row, prov) BY <1>2, <1>3, <1>6, <1>7, AskingOk
<1> QED BY <1>5, <1>8, <1>9, OnlyCall, CallerAssumption

LEMMA BootDoneKeeps == ASSUME IInv, BootDone PROVE IInv'
BY IdleFacts, OnlyCall, CallerAssumption DEF BootDone

\* The provider answers: what it says is what it has come to, and no last
\* word of its is changed.
LEMMA ProvideKeeps == ASSUME IInv, NEW c \in Callers, Provide(c) PROVE IInv'
<1> DEFINE j == call[c]
           i == j.on
           k == [j EXCEPT !.said = prov'[i]]
<1>1. j \in Jobs /\ JobOk(j, row, prov) BY DEF IInv, TypeOK, JobsOk
<1>2. /\ j.op \in Ops /\ i \in Intents /\ row[i].status # "none" /\ j.said = "none"
      /\ j.op \in {"poll", "cancel", "repoll"} => prov[i] # "unknown"
    BY <1>1 DEF Provide, Jobs, JobOk, Ops
<1>3. prov[i] \in {"unknown", "pending"} \cup Terminal BY <1>2 DEF IInv, TypeOK
<1>4. UNCHANGED <<row, late, receipt, sold>> BY DEF Provide
<1>5. /\ prov' \in [Intents -> {"unknown", "pending"} \cup Terminal]
      /\ \A l \in Intents \ {i} : prov'[l] = prov[l]
      /\ prov'[i] \in {"pending"} \cup Terminal
      /\ prov[i] \in Terminal => prov'[i] = prov[i]
      /\ prov'[i] = "paid" => prov[i] = "paid"
    BY <1>2, <1>3 DEF Provide, IInv, TypeOK, Ops, Terminal
<1>6. call' = [call EXCEPT ![c] = k] BY DEF Provide, IInv, TypeOK
<1>7. Grows(row, prov, row', prov') BY <1>4, <1>5 DEF Grows, Terminal
<1>8. /\ k \in Jobs /\ k.op = j.op /\ k.on = i /\ k.said = prov'[i]
      /\ k.task = j.task /\ k.want = j.want /\ k.todo = j.todo
      /\ k.known = j.known
    BY <1>1, <1>5 DEF Jobs
<1>9. JobOk(k, row', prov')
    <2> HIDE DEF k
    <2>1. JobOk(j, row', prov') BY <1>1, <1>7, JobOkGrows
    <2>2. prov'[i] # "unknown" BY <1>5 DEF Terminal
    <2> QED BY <1>2, <1>4, <1>8, <2>1, <2>2 DEF JobOk, Ops
<1>10. call' \in [Callers -> Jobs] /\ JobsOk'
    <2> HIDE DEF k
    <2> QED BY <1>6, <1>7, <1>8, <1>9, OneCall DEF IInv, TypeOK
<1>11. RowsOk'
    <2>1. \A l \in Intents : RowOk(row[l], prov'[l])
        BY <1>2, <1>5 DEF IInv, RowsOk, RowOk, Terminal
    <2> QED BY <2>1, <1>4 DEF RowsOk
<1>12. MoneysOk'
    BY <1>4, <1>7, MoneyStays DEF IInv
<1> QED BY <1>4, <1>5, <1>10, <1>11, <1>12 DEF IInv, TypeOK

\* What is heard is written over whatever the row says by then.  It was the
\* provider's word when it was said, and if it is a last word it still is.
LEMMA HearKeeps ==
    ASSUME IInv, NEW c \in Callers, NEW i \in Intents, Hear(c, i) PROVE IInv'
<1> DEFINE j == call[c]
           creating == j.op \in {"create", "recreate"}
           w == IF creating THEN Attach(row[i], j.said) ELSE Absorb(row[i], j.said)
           k == IF j.op = "recreate" THEN Asking(j, "repoll", i) ELSE Answered(j)
<1>1. j \in Jobs /\ JobOk(j, row, prov) BY DEF IInv, TypeOK, JobsOk
<1>2. /\ j.said \in {"pending"} \cup Terminal /\ j.on = i
      /\ row[i].status # "none" /\ prov[i] # "unknown"
      /\ j.said \in Terminal => prov[i] = j.said
    BY <1>1 DEF Hear, Jobs, JobOk
<1>3. row[i] \in Rows BY DEF IInv, TypeOK
<1>4. /\ w \in Rows /\ w.status = j.said /\ w.settled = row[i].settled
      /\ w.pid => row[i].pid \/ creating
    BY <1>2, <1>3 DEF Attach, Absorb, Rows, Unresolved
<1>5. /\ row' = [row EXCEPT ![i] = w] /\ call' = [call EXCEPT ![c] = k]
      /\ UNCHANGED <<prov, late, receipt, sold>>
    BY DEF Hear, IInv, TypeOK
<1> HIDE DEF w
<1>6. RowOk(w, prov[i]) /\ w.status # "none"
    BY <1>2, <1>4 DEF RowOk, Terminal
<1>7. row' \in [Intents -> Rows] /\ RowsOk' /\ Grows(row, prov, row', prov')
    BY <1>4, <1>5, <1>6, OneRow DEF IInv, TypeOK
<1>8. k \in Jobs BY <1>1, AskingFacts, AnsweredFacts DEF Ops
<1>9. JobOk(k, row', prov')
    <2>1. JobOk(j, row', prov') BY <1>1, <1>7, JobOkGrows
    <2>2. row'[i].status # "none" /\ prov'[i] # "unknown" BY <1>2, <1>7 DEF Grows
    <2>3. CASE j.op = "recreate"
        BY <1>1, <2>1, <2>2, <2>3, AskingOk DEF Ops
    <2>4. CASE j.op # "recreate"
        BY <1>1, <2>1, <2>4, AnsweredOk
    <2> QED BY <2>3, <2>4
<1> HIDE DEF k
<1>10. call' \in [Callers -> Jobs] /\ JobsOk'
    BY <1>5, <1>7, <1>8, <1>9, OneCall DEF IInv, TypeOK
<1>11. MoneysOk'
    <2>1. \A l \in Intents : row'[l].settled = row[l].settled
        BY <1>4, <1>5 DEF IInv, TypeOK
    <2> QED BY <2>1, <1>5, <1>7, MoneyStays DEF IInv
<1> QED BY <1>5, <1>7, <1>10, <1>11 DEF IInv, TypeOK

\* A refusal changes nothing, or closes the row in its own name.
LEMMA RefuseKeeps ==
    ASSUME IInv, NEW c \in Callers, NEW why \in Refusals, Refuse(c, why) PROVE IInv'
<1> DEFINE j == call[c]
           i == j.on
           w == Refused(row[i], j.op, why)
           k == Answered(j)
<1>1. j \in Jobs /\ JobOk(j, row, prov) BY DEF IInv, TypeOK, JobsOk
<1>2. i \in Intents /\ row[i].status # "none" BY <1>1 DEF Refuse, JobOk
<1>3. row[i] \in Rows /\ RowOk(row[i], prov[i]) BY <1>2 DEF IInv, TypeOK, RowsOk
<1>4. why \in {"transient", "final"} BY RefusalAssumption
<1>5. /\ w \in Rows /\ w.settled = row[i].settled /\ w.pid = row[i].pid
      /\ w = row[i] \/ (w.status \in {"cancelled", "failed"} /\ w.refusal = "final")
    BY <1>3, <1>4 DEF Refused, Rows, Terminal
<1>6. /\ row' = [row EXCEPT ![i] = w] /\ call' = [call EXCEPT ![c] = k]
      /\ UNCHANGED <<prov, late, receipt, sold>>
    BY <1>2 DEF Refuse, IInv, TypeOK
<1> HIDE DEF w
<1>7. RowOk(w, prov[i]) /\ w.status # "none"
    BY <1>2, <1>3, <1>5 DEF RowOk
<1>8. row' \in [Intents -> Rows] /\ RowsOk' /\ Grows(row, prov, row', prov')
    <2> HIDE DEF i
    <2> QED BY <1>2, <1>5, <1>6, <1>7, OneRow DEF IInv, TypeOK
<1>9. k \in Jobs BY <1>1, AnsweredFacts
<1>10. JobOk(k, row', prov')
    BY <1>1, <1>8, JobOkGrows, AnsweredOk
<1>11. call' \in [Callers -> Jobs] /\ JobsOk'
    <2> HIDE DEF k
    <2> QED BY <1>6, <1>8, <1>9, <1>10, OneCall DEF IInv, TypeOK
<1>12. MoneysOk'
    <2>1. \A l \in Intents : row'[l].settled = row[l].settled
        BY <1>2, <1>5, <1>6 DEF IInv, TypeOK
    <2> QED BY <2>1, <1>6, <1>8, MoneyStays DEF IInv
<1> QED BY <1>6, <1>8, <1>11, <1>12 DEF IInv, TypeOK

\* A receipt is paid by an intent whose row holds money, hence paid money.
LEMMA PayByQrKeeps == ASSUME IInv, NEW i \in Intents, PayByQr(i) PROVE IInv'
<1>1. prov[i] = "paid" BY DEF PayByQr, Usable, IInv, RowsOk, RowOk
<1>2. ReceiptOf[i] \in Receipts BY ReceiptAssumption
<1>3. receipt' = [receipt EXCEPT ![ReceiptOf[i]] = i] /\ sold' = sold \cup {i}
      /\ UNCHANGED <<prov, row, late, call>>
    BY DEF PayByQr
<1>4. TypeOK' BY <1>2, <1>3 DEF IInv, TypeOK
<1>5. JobsOk' /\ RowsOk' BY <1>3 DEF IInv, JobsOk, RowsOk
<1>6. ASSUME NEW l \in Intents PROVE MoneyOk(l)'
    <2>1. MoneyOk(l) BY DEF IInv, MoneysOk
    <2>2. ReceiptOf[l] \in Receipts BY ReceiptAssumption
    <2>3. CASE ReceiptOf[l] = ReceiptOf[i]
        <3>1. receipt[ReceiptOf[l]] # l
            BY <2>3, MarksAssumption DEF PayByQr
        <3> QED BY <1>1, <1>2, <1>3, <2>1, <2>3, <3>1 DEF MoneyOk, IInv, TypeOK
    <2>4. CASE ReceiptOf[l] # ReceiptOf[i]
        BY <1>2, <1>3, <2>1, <2>2, <2>4 DEF MoneyOk, IInv, TypeOK
    <2> QED BY <2>3, <2>4
<1> QED BY <1>4, <1>5, <1>6 DEF IInv, MoneysOk

LEMMA MarkSettledKeeps == ASSUME IInv, NEW i \in Intents, MarkSettled(i) PROVE IInv'
<1> DEFINE w == [row[i] EXCEPT !.settled = TRUE]
<1>1. row[i] \in Rows /\ RowOk(row[i], prov[i]) BY DEF IInv, TypeOK, RowsOk
<1>2. /\ w \in Rows /\ w.status = row[i].status /\ w.pid = row[i].pid
      /\ w.refusal = row[i].refusal /\ w.settled
    BY <1>1 DEF Rows
<1>3. /\ row' = [row EXCEPT ![i] = w] /\ sold' = sold \ {i} /\ i \in sold
      /\ UNCHANGED <<prov, late, call, receipt>>
    BY DEF MarkSettled
<1> HIDE DEF w
<1>4. RowOk(w, prov[i]) BY <1>1, <1>2 DEF RowOk
<1>5. row' \in [Intents -> Rows] /\ RowsOk' /\ Grows(row, prov, row', prov')
    BY <1>2, <1>3, <1>4, OneRow DEF IInv, TypeOK
<1>6. JobsOk' BY <1>3, <1>5, NoCall DEF IInv, TypeOK
<1>7. MoneysOk'
    <2> SUFFICES ASSUME NEW l \in Intents PROVE MoneyOk(l)'
        BY DEF MoneysOk
    <2>1. MoneyOk(l) /\ MoneyOk(i) BY DEF IInv, MoneysOk
    <2>2. row'[l] = IF l = i THEN w ELSE row[l] BY <1>3 DEF IInv, TypeOK
    <2> QED BY <1>3, <2>1, <2>2 DEF MoneyOk
<1> QED BY <1>3, <1>5, <1>6, <1>7 DEF IInv, TypeOK

LEMMA PayOtherwiseKeeps ==
    ASSUME IInv, NEW r \in Receipts, PayOtherwise(r) PROVE IInv'
<1>1. TypeOK' BY DEF PayOtherwise, IInv, TypeOK
<1>2. JobsOk' /\ RowsOk' BY DEF PayOtherwise, IInv, JobsOk, RowsOk
<1>3. MoneysOk'
    <2> SUFFICES ASSUME NEW l \in Intents PROVE MoneyOk(l)'
        BY DEF MoneysOk
    <2>1. MoneyOk(l) /\ ReceiptOf[l] \in Receipts
        BY ReceiptAssumption DEF IInv, MoneysOk
    <2> QED BY <2>1, MarksAssumption DEF MoneyOk, PayOtherwise, IInv, TypeOK
<1> QED BY <1>1, <1>2, <1>3 DEF IInv

\* Only a code that nothing has been said of for good is paid or runs out.
LEMMA CustomerKeeps == ASSUME IInv, NEW i \in Intents, Customer(i) PROVE IInv'
<1>1. PICK s \in {"paid", "expired"} : prov' = [prov EXCEPT ![i] = s]
    BY DEF Customer
<1>2. prov[i] = "pending" /\ UNCHANGED <<row, late, call, receipt, sold>>
    BY DEF Customer
<1>3. /\ prov' \in [Intents -> {"unknown", "pending"} \cup Terminal]
      /\ prov'[i] = s /\ \A l \in Intents \ {i} : prov'[l] = prov[l]
    BY <1>1 DEF IInv, TypeOK, Terminal
<1>4. Grows(row, prov, row', prov') BY <1>2, <1>3 DEF Grows, Terminal
<1>5. JobsOk' BY <1>2, <1>4, NoCall DEF IInv, TypeOK
<1>6. RowsOk'
    <2> SUFFICES ASSUME NEW l \in Intents PROVE RowOk(row[l], prov'[l])
        BY <1>2 DEF RowsOk
    <2>1. RowOk(row[l], prov[l]) BY DEF IInv, RowsOk
    <2> QED BY <1>2, <1>3, <2>1 DEF RowOk, Terminal
<1>7. MoneysOk' BY <1>2, <1>4, MoneyStays DEF IInv
<1> QED BY <1>2, <1>3, <1>5, <1>6, <1>7 DEF IInv, TypeOK

LEMMA PatienceKeeps == ASSUME IInv, NEW i \in Intents, Patience(i) PROVE IInv'
BY DEF Patience, IInv, TypeOK, JobsOk, RowsOk, MoneysOk, MoneyOk

\* The invariant holds at first and is kept by every step.
LEMMA InitIInv == ASSUME Init PROVE IInv
<1>1. TypeOK BY IdleFacts DEF Init, TypeOK, NoRow, Rows
<1>2. JobsOk BY IdleFacts DEF Init, JobsOk
<1>3. RowsOk BY DEF Init, RowsOk, RowOk, NoRow, Terminal
<1>4. MoneysOk
    BY ReceiptAssumption, MarksAssumption DEF Init, MoneysOk, MoneyOk, NoRow
<1> QED BY <1>1, <1>2, <1>3, <1>4 DEF IInv

LEMMA NextIInv == ASSUME IInv, [Next]_vars PROVE IInv'
<1>1. CASE UNCHANGED vars
    BY <1>1 DEF vars, IInv, TypeOK, JobsOk, RowsOk, MoneysOk, MoneyOk
<1>2. ASSUME NEW i \in Intents,
             StartQr(i) \/ PollQr(i) \/ CancelQr(i) \/ ReconcileOne(i)
      PROVE  IInv'
    BY <1>2, StartQrKeeps, PollQrKeeps, CancelQrKeeps, ReconcileOneKeeps
<1>3. ASSUME NEW i \in Intents,
             PayByQr(i) \/ MarkSettled(i) \/ Customer(i) \/ Patience(i)
      PROVE  IInv'
    BY <1>3, PayByQrKeeps, MarkSettledKeeps, CustomerKeeps, PatienceKeeps
<1>4. ASSUME NEW i \in Intents, NEW c \in Callers, Sweep(c, i) \/ Hear(c, i)
      PROVE  IInv'
    BY <1>4, SweepKeeps, HearKeeps
<1>5. ASSUME NEW c \in Callers, Provide(c) \/ \E why \in Refusals : Refuse(c, why)
      PROVE  IInv'
    BY <1>5, ProvideKeeps, RefuseKeeps
<1>6. ASSUME NEW r \in Receipts, PayOtherwise(r) PROVE IInv'
    BY <1>6, PayOtherwiseKeeps
<1>7. CASE Show \/ Reconcile \/ BootDone \/ Restart
    BY <1>7, ShowKeeps, ReconcileKeeps, BootDoneKeeps, RestartKeeps
<1> QED BY <1>1, <1>2, <1>3, <1>4, <1>5, <1>6, <1>7 DEF Next

LEMMA Invariance == Spec => []IInv
<1>1. Init => IInv BY InitIInv
<1>2. IInv /\ [Next]_vars => IInv' BY NextIInv
<1> QED BY <1>1, <1>2, PTL DEF Spec

\* Every variable keeps its type, for any intents, receipts and refusals.
THEOREM TypeCorrect == Spec => []TypeOK
<1>1. IInv => TypeOK BY DEF IInv
<1> QED BY <1>1, Invariance, PTL

\* Paid money is held by its row, asked about again, or finally refused:
\* no late or lost answer, no restart makes the till forget it in silence.
THEOREM NoSilentLoss == Spec => []PaidIsNeverSilent
<1>1. IInv => PaidIsNeverSilent
    <2> SUFFICES ASSUME IInv, NEW i \in Intents, prov[i] = "paid",
                        row[i].refusal # "final"
                 PROVE  row[i].status \in {"paid"} \cup Unresolved
        BY DEF PaidIsNeverSilent
    <2>1. RowOk(row[i], prov[i]) /\ row[i] \in Rows BY DEF IInv, RowsOk, TypeOK
    <2> QED BY <2>1 DEF RowOk, Rows, Terminal
<1> QED BY <1>1, Invariance, PTL

\* Receipts rest on money taken, and marks on receipts written, whatever
\* order calls, answers and deaths of the process come in.
THEOREM MoneyAndMarks == Spec => []MoneyIsWhereRowsSay
<1>1. IInv => MoneyIsWhereRowsSay
    BY DEF IInv, MoneysOk, MoneyOk, MoneyIsWhereRowsSay
<1> QED BY <1>1, Invariance, PTL

=============================================================================
