------------------------- MODULE FiscalQueueProofs -------------------------
(***************************************************************************)
(* Proofs about FiscalQueue for any set of documents, passes, retries and  *)
(* runners.  The inductive invariant says who may hold a document: a live  *)
(* call while its row does not exist, the one running pass while the row   *)
(* is pending, a clerk's retry while it is neither.  The last part shows   *)
(* that the queue implements FiscalLedger.                                 *)
(***************************************************************************)
EXTENDS FiscalQueue, TLAPS

\* Only the pass the gate names is under way.
GateInv == \A p \in Passes : pass[p] # "idle" => running = p

\* A live call waits for its own document; no row exists before the answer.
LiveInv ==
    \A d \in Docs :
        /\ wire[d] # "idle" <=> live[d] = "wire"
        /\ live[d] = "wire" => cur[d] = d
        /\ live[d] # "answered" => row[d] = "absent"

\* What a pass still counts as queued is pending in the table: the pass's
\* copies are stale in nothing it decides by.
PassInv ==
    \A p \in Passes :
        /\ wire[p] # "idle" <=> pass[p] = "wait"
        /\ pass[p] = "wait" => cur[p] \in still[p] \ todo[p] /\ streak[p] < MaxTransient
        /\ todo[p] \subseteq still[p]
        /\ \A e \in still[p] : row[e] = "pending"
        /\ pass[p] \in {"idle", "begin"} => still[p] = {}

\* A clerk's retry holds a document the guard has answered for and that is
\* not in automatic replay.
ClerkInv ==
    \A r \in Retries :
        wire[r] # "idle" => /\ cur[r] \in Docs /\ live[cur[r]] = "answered"
                            /\ row[cur[r]] # "pending"

\* The till never claims a registration the operator did not make.
OperatorInv ==
    /\ acked \subseteq registered
    /\ \A s \in Senders : wire[s] = "ok" => cur[s] \in registered

IInv ==
    /\ TypeOK /\ GateInv /\ LiveInv /\ PassInv /\ ClerkInv /\ OperatorInv
    /\ AnsweredIsAccounted

\* A request under way carries a document.
LEMMA CarriedIsDocument ==
    ASSUME IInv PROVE \A s \in Senders : wire[s] # "idle" => cur[s] \in Docs
BY DEF IInv, TypeOK, LiveInv, PassInv, ClerkInv, Senders

\* The types of the walk's and of the gate's variables.
WalkTyped ==
    /\ pass \in [Passes -> {"idle", "begin", "walk", "wait"}]
    /\ todo \in [Passes -> SUBSET Docs] /\ still \in [Passes -> SUBSET Docs]
    /\ blocked \in [Passes -> BOOLEAN] /\ streak \in [Passes -> 0..MaxTransient]

GateTyped == running \in Passes \cup {NoPass} /\ queued \in BOOLEAN

\* The end of a pass keeps the types of the walk and of the gate.
LEMMA FinishPassTyped ==
    ASSUME WalkTyped, GateTyped, NEW p \in Passes, FinishPass(p)
    PROVE  WalkTyped' /\ GateTyped'
<1>1. pass' \in [Passes -> {"idle", "begin", "walk", "wait"}]
    BY DEF WalkTyped, FinishPass
<1>2. todo' \in [Passes -> SUBSET Docs] /\ still' \in [Passes -> SUBSET Docs]
    BY DEF WalkTyped, FinishPass
<1>3. blocked' \in [Passes -> BOOLEAN] 
    BY Zenon DEF WalkTyped, FinishPass
<1>4. streak' \in [Passes -> 0..MaxTransient]
    BY BoundsAssumption DEF WalkTyped, FinishPass
<1>5. GateTyped'
    BY Zenon DEF GateTyped, FinishPass
<1> QED BY <1>1, <1>2, <1>3, <1>4, <1>5 DEF WalkTyped

\* So does a call of replay.
LEMMA ReplayTyped ==
    ASSUME WalkTyped, GateTyped, NEW c, Replay(c)
    PROVE  WalkTyped' /\ GateTyped'
<1>1. CASE queued' = queued /\ \E p \in Passes : StartPass(p)
    <2> PICK p \in Passes : StartPass(p) BY <1>1
    <2>1. WalkTyped' BY DEF WalkTyped, StartPass
    <2>2. GateTyped' BY <1>1, Zenon DEF GateTyped, StartPass
    <2> QED BY <2>1, <2>2
<1>2. CASE queued' = TRUE /\ UNCHANGED <<walk, running>>
    <2>1. WalkTyped' BY <1>2 DEF WalkTyped, walk
    <2>2. GateTyped' BY <1>2, Zenon DEF GateTyped
    <2> QED BY <2>1, <2>2
<1> QED BY <1>1, <1>2 DEF Replay

\* A restart keeps every type.
LEMMA RestartTyped ==
    ASSUME IInv, Restart PROVE TypeOK'
<1>1. late' \subseteq Docs
    <2> SUFFICES ASSUME NEW d \in late' PROVE d \in Docs OBVIOUS
    <2>1. CASE d \in late BY <2>1 DEF IInv, TypeOK
    <2>2. CASE \E s \in Senders : wire[s] = "sent" /\ d = cur[s]
        BY <2>2, CarriedIsDocument
    <2> QED BY <2>1, <2>2 DEF Restart
<1>2. live' \in [Docs -> LiveStates] BY DEF IInv, TypeOK, Restart, LiveStates
<1>3. WalkTyped' BY BoundsAssumption DEF IInv, TypeOK, Restart, WalkTyped
<1>4. GateTyped' BY Zenon DEF Restart, GateTyped
<1>5. /\ wire' \in [Senders -> Stages] /\ cur' \in [Senders -> Docs \cup {NoDoc}]
      /\ mark' \in [Retries -> BOOLEAN]
    BY DEF Restart, Stages
<1>6. run' \in [Runners -> {"idle", "counted", "clear"}] /\ crashes' \in 0..MaxCrashes
    BY BoundsAssumption DEF IInv, TypeOK, Restart
<1> QED BY <1>1, <1>2, <1>3, <1>4, <1>5, <1>6 DEF IInv, TypeOK, Restart, disk, WalkTyped, GateTyped


\* Every step keeps the invariant: under each action, one step for each
\* conjunct the action can disturb, and one for those it cannot.
LEMMA StepIInv == IInv /\ [Next]_vars => IInv'
<1> SUFFICES ASSUME IInv, [Next]_vars PROVE IInv'
    OBVIOUS
<1> USE DEF IInv
<1>1. ASSUME NEW d \in Docs, GuardSend(d) PROVE IInv'
  <2>1. TypeOK'
       BY <1>1 DEF TypeOK, LiveStates, Stages, disk, walk, gate, operator,
       GuardSend, Compose, Send
  <2>2. LiveInv'
       BY <1>1 DEF LiveInv, TypeOK, Senders, disk, GuardSend, Compose, Send
  <2>3. PassInv'
       BY <1>1, SortsAssumption DEF PassInv, disk, walk, GuardSend, Compose,
       Send
  <2>4. ClerkInv'
       BY <1>1, SortsAssumption DEF ClerkInv, disk, GuardSend, Compose, Send
  <2>5. OperatorInv'
       BY <1>1 DEF OperatorInv, TypeOK, operator, GuardSend, Compose, Send
  <2>6. AnsweredIsAccounted'
       BY <1>1 DEF AnsweredIsAccounted, disk, operator, GuardSend, Compose,
       Send
  <2>7. GateInv'
       BY <1>1 DEF GateInv, walk, gate, GuardSend, Compose, Send
  <2> QED
       BY <2>1, <2>2, <2>3, <2>4, <2>5, <2>6, <2>7
<1>2. ASSUME NEW d \in Docs, GuardHold(d) PROVE IInv'
  <2>1. TypeOK'
       BY <1>2 DEF TypeOK, LiveStates, disk, net, walk, gate, operator,
       GuardHold, Compose
  <2>2. LiveInv'
       BY <1>2 DEF LiveInv, disk, net, GuardHold, Compose
  <2>3. ClerkInv'
       BY <1>2 DEF ClerkInv, disk, net, GuardHold, Compose
  <2>4. AnsweredIsAccounted'
       BY <1>2 DEF AnsweredIsAccounted, disk, operator, GuardHold, Compose
  <2>5. GateInv' /\ PassInv' /\ OperatorInv'
       BY <1>2 DEF GateInv, PassInv, OperatorInv, disk, net, walk, gate,
       operator, GuardHold, Compose
  <2> QED
       BY <2>1, <2>2, <2>3, <2>4, <2>5
<1>3. ASSUME NEW d \in Docs, GuardUnbuilt(d) PROVE IInv'
  <2>1. TypeOK'
       BY <1>3 DEF TypeOK, LiveStates, disk, net, walk, gate, operator,
       GuardUnbuilt, Compose
  <2>2. LiveInv'
       BY <1>3 DEF LiveInv, disk, net, GuardUnbuilt, Compose
  <2>3. ClerkInv'
       BY <1>3 DEF ClerkInv, disk, net, GuardUnbuilt, Compose
  <2>4. AnsweredIsAccounted'
       BY <1>3 DEF AnsweredIsAccounted, disk, operator, GuardUnbuilt, Compose
  <2>5. GateInv' /\ PassInv' /\ OperatorInv'
       BY <1>3 DEF GateInv, PassInv, OperatorInv, disk, net, walk, gate,
       operator, GuardUnbuilt, Compose
  <2> QED
       BY <2>1, <2>2, <2>3, <2>4, <2>5
<1>4. ASSUME NEW d \in Docs, GuardSuccess(d) PROVE IInv'
  <2>1. TypeOK'
       BY <1>4 DEF TypeOK, LiveStates, Stages, walk, gate, GuardSuccess,
       Receive
  <2>2. LiveInv'
       BY <1>4 DEF LiveInv, TypeOK, Senders, GuardSuccess, Receive
  <2>3. PassInv'
       BY <1>4 DEF PassInv, LiveInv, walk, GuardSuccess, Receive
  <2>4. ClerkInv'
       BY <1>4 DEF ClerkInv, TypeOK, GuardSuccess, Receive
  <2>5. OperatorInv'
       BY <1>4 DEF OperatorInv, TypeOK, LiveInv, Senders, GuardSuccess,
       Receive
  <2>6. AnsweredIsAccounted'
       BY <1>4 DEF LiveInv, OperatorInv, AnsweredIsAccounted, Senders,
       GuardSuccess, Receive
  <2>7. GateInv'
       BY <1>4 DEF GateInv, walk, gate, GuardSuccess, Receive
  <2> QED
       BY <2>1, <2>2, <2>3, <2>4, <2>5, <2>6, <2>7
<1>5. ASSUME NEW d \in Docs, GuardTransient(d) PROVE IInv'
  <2>1. TypeOK'
       BY <1>5 DEF TypeOK, LiveStates, Stages, LiveInv, Senders, disk, walk,
       gate, GuardTransient, Receive
  <2>2. LiveInv'
       BY <1>5 DEF LiveInv, TypeOK, Senders, disk, GuardTransient, Receive
  <2>3. PassInv'
       BY <1>5 DEF PassInv, LiveInv, disk, walk, GuardTransient, Receive
  <2>4. ClerkInv'
       BY <1>5 DEF ClerkInv, TypeOK, disk, GuardTransient, Receive
  <2>5. OperatorInv'
       BY <1>5 DEF OperatorInv, TypeOK, GuardTransient, Receive
  <2>6. AnsweredIsAccounted'
       BY <1>5 DEF AnsweredIsAccounted, disk, GuardTransient, Receive
  <2>7. GateInv'
       BY <1>5 DEF GateInv, walk, gate, GuardTransient, Receive
  <2> QED
       BY <2>1, <2>2, <2>3, <2>4, <2>5, <2>6, <2>7
<1>6. ASSUME NEW d \in Docs, GuardRefused(d) PROVE IInv'
  <2>1. TypeOK'
       BY <1>6 DEF TypeOK, LiveStates, Stages, disk, walk, gate,
       GuardRefused, Receive
  <2>2. LiveInv'
       BY <1>6 DEF LiveInv, TypeOK, Senders, disk, GuardRefused, Receive
  <2>3. PassInv'
       BY <1>6 DEF PassInv, LiveInv, disk, walk, GuardRefused, Receive
  <2>4. ClerkInv'
       BY <1>6 DEF ClerkInv, TypeOK, disk, GuardRefused, Receive
  <2>5. OperatorInv'
       BY <1>6 DEF OperatorInv, GuardRefused, Receive
  <2>6. AnsweredIsAccounted'
       BY <1>6 DEF AnsweredIsAccounted, disk, GuardRefused, Receive
  <2>7. GateInv'
       BY <1>6 DEF GateInv, walk, gate, GuardRefused, Receive
  <2> QED
       BY <2>1, <2>2, <2>3, <2>4, <2>5, <2>6, <2>7
<1>7. ASSUME NEW d \in Docs, Enqueue(d) PROVE IInv'
  <2>1. TypeOK'
       BY <1>7 DEF TypeOK, Rows, LiveStates, net, walk, gate, operator,
       Enqueue, Enqueued
  <2>2. LiveInv'
       BY <1>7 DEF LiveInv, TypeOK, net, Enqueue, Enqueued
  <2>3. PassInv'
       BY <1>7 DEF PassInv, net, walk, Enqueue, Enqueued
  <2>4. ClerkInv'
       BY <1>7 DEF ClerkInv, net, Enqueue, Enqueued
  <2>5. AnsweredIsAccounted'
       BY <1>7 DEF AnsweredIsAccounted, TypeOK, operator, Enqueue, Enqueued
  <2>6. GateInv' /\ OperatorInv'
       BY <1>7 DEF GateInv, OperatorInv, net, walk, gate, operator, Enqueue,
       Enqueued
  <2> QED
       BY <2>1, <2>2, <2>3, <2>4, <2>5, <2>6
<1>8. ASSUME NEW c \in Runners, RunOnceCount(c) PROVE IInv'
  <2>1. TypeOK'
       BY <1>8 DEF TypeOK, disk, guard, net, walk, gate, operator,
       RunOnceCount
  <2>2. GateInv' /\ LiveInv' /\ PassInv' /\ ClerkInv' /\ OperatorInv' /\ AnsweredIsAccounted'
       BY <1>8 DEF GateInv, LiveInv, PassInv, ClerkInv, OperatorInv,
       AnsweredIsAccounted, disk, guard, net, walk, gate, operator,
       RunOnceCount
  <2> QED
       BY <2>1, <2>2
<1>9. ASSUME NEW c \in Runners, RunOnceShift(c) PROVE IInv'
  <2>1. TypeOK'
       BY <1>9 DEF TypeOK, disk, guard, net, walk, gate, operator,
       RunOnceShift
  <2>2. GateInv' /\ LiveInv' /\ PassInv' /\ ClerkInv' /\ OperatorInv' /\ AnsweredIsAccounted'
       BY <1>9 DEF GateInv, LiveInv, PassInv, ClerkInv, OperatorInv,
       AnsweredIsAccounted, disk, guard, net, walk, gate, operator,
       RunOnceShift
  <2> QED
       BY <2>1, <2>2
<1>10. ASSUME NEW c \in Runners, RunOnceReplay(c) PROVE IInv'
  <2>1. TypeOK'
    <3>1. WalkTyped' /\ GateTyped'
         BY <1>10, ReplayTyped DEF TypeOK, WalkTyped, GateTyped, RunOnceReplay
    <3> QED
         BY <1>10, <3>1 DEF TypeOK, WalkTyped, GateTyped, RunOnceReplay, disk, guard, net, operator
  <2>2. GateInv'
       BY <1>10, SortsAssumption DEF TypeOK, GateInv, disk, guard, net, walk,
       gate, operator, RunOnceReplay, Replay, StartPass
  <2>3. PassInv'
       BY <1>10 DEF TypeOK, PassInv, disk, guard, net, walk, gate, operator,
       RunOnceReplay, Replay, StartPass
  <2>4. LiveInv' /\ ClerkInv' /\ OperatorInv' /\ AnsweredIsAccounted'
       BY <1>10 DEF LiveInv, ClerkInv, OperatorInv, AnsweredIsAccounted,
       disk, guard, net, operator, RunOnceReplay, Replay, StartPass
  <2> QED
       BY <2>1, <2>2, <2>3, <2>4
<1>11. ASSUME NEW p \in Passes, PassUnreachable(p) PROVE IInv'
  <2>1. TypeOK'
    <3>1. WalkTyped' /\ GateTyped'
         BY <1>11, FinishPassTyped DEF TypeOK, WalkTyped, GateTyped, PassUnreachable
    <3> QED
         BY <1>11, <3>1 DEF TypeOK, WalkTyped, GateTyped, PassUnreachable, disk, guard, net, operator
  <2>2. GateInv'
       BY <1>11 DEF GateInv, TypeOK, PassUnreachable, FinishPass
  <2>3. PassInv'
       BY <1>11 DEF PassInv, disk, net, PassUnreachable, FinishPass
  <2>4. LiveInv' /\ ClerkInv' /\ OperatorInv' /\ AnsweredIsAccounted'
       BY <1>11 DEF LiveInv, ClerkInv, OperatorInv, AnsweredIsAccounted,
       disk, guard, net, operator, PassUnreachable, FinishPass
  <2> QED
       BY <2>1, <2>2, <2>3, <2>4
<1>12. ASSUME NEW p \in Passes, PassSnapshot(p) PROVE IInv'
  <2>1. TypeOK'
       BY <1>12 DEF TypeOK, disk, guard, net, gate, operator, PassSnapshot,
       Pending
  <2>2. GateInv'
       BY <1>12 DEF GateInv, gate, PassSnapshot, Pending
  <2>3. PassInv'
       BY <1>12 DEF PassInv, TypeOK, disk, net, PassSnapshot, Pending
  <2>4. LiveInv' /\ ClerkInv' /\ OperatorInv' /\ AnsweredIsAccounted'
       BY <1>12 DEF LiveInv, ClerkInv, OperatorInv, AnsweredIsAccounted,
       disk, guard, net, operator, PassSnapshot, Pending
  <2> QED
       BY <2>1, <2>2, <2>3, <2>4
<1>13. ASSUME NEW p \in Passes, NEW d \in Docs, PassExpire(p, d) PROVE IInv'
  <2>1. TypeOK'
       BY <1>13 DEF TypeOK, Rows, guard, net, gate, operator, PassExpire,
       Upcoming, Updated
  <2>2. LiveInv'
       BY <1>13 DEF LiveInv, guard, net, PassExpire, Upcoming, Updated
  <2>3. PassInv'
       BY <1>13 DEF PassInv, TypeOK, GateInv, net, PassExpire, Upcoming,
       Updated
  <2>4. ClerkInv'
       BY <1>13 DEF ClerkInv, guard, net, PassExpire, Upcoming, Updated
  <2>5. AnsweredIsAccounted'
       BY <1>13 DEF AnsweredIsAccounted, guard, operator, PassExpire,
       Upcoming, Updated
  <2>6. GateInv' /\ OperatorInv'
       BY <1>13 DEF GateInv, OperatorInv, net, gate, operator, PassExpire,
       Upcoming, Updated
  <2> QED
       BY <2>1, <2>2, <2>3, <2>4, <2>5, <2>6
<1>14. ASSUME NEW p \in Passes, NEW d \in Docs, PassHold(p, d) PROVE IInv'
  <2>1. TypeOK'
       BY <1>14 DEF TypeOK, disk, guard, net, gate, operator, PassHold,
       Upcoming
  <2>2. PassInv'
       BY <1>14 DEF PassInv, disk, net, PassHold, Upcoming
  <2>3. GateInv' /\ LiveInv' /\ ClerkInv' /\ OperatorInv' /\ AnsweredIsAccounted'
       BY <1>14 DEF GateInv, LiveInv, ClerkInv, OperatorInv,
       AnsweredIsAccounted, disk, guard, net, gate, operator, PassHold,
       Upcoming
  <2> QED
       BY <2>1, <2>2, <2>3
<1>15. ASSUME NEW p \in Passes, NEW d \in Docs, PassCut(p, d) PROVE IInv'
  <2>1. TypeOK'
    <3>1. WalkTyped' /\ GateTyped'
         BY <1>15, FinishPassTyped DEF TypeOK, WalkTyped, GateTyped, PassCut
    <3> QED
         BY <1>15, <3>1 DEF TypeOK, WalkTyped, GateTyped, PassCut, disk, guard, net, operator
  <2>2. GateInv'
       BY <1>15 DEF GateInv, TypeOK, PassCut, FinishPass, Upcoming
  <2>3. PassInv'
       BY <1>15 DEF PassInv, TypeOK, disk, net, PassCut, FinishPass, Upcoming
  <2>4. LiveInv' /\ ClerkInv' /\ OperatorInv' /\ AnsweredIsAccounted'
       BY <1>15 DEF LiveInv, ClerkInv, OperatorInv, AnsweredIsAccounted,
       disk, guard, net, operator, PassCut, FinishPass, Upcoming
  <2> QED
       BY <2>1, <2>2, <2>3, <2>4
<1>16. ASSUME NEW p \in Passes, NEW d \in Docs, PassDispatch(p, d) PROVE IInv'
  <2>1. TypeOK'
       BY <1>16 DEF TypeOK, Stages, disk, guard, gate, operator,
       PassDispatch, Upcoming, Send
  <2>2. GateInv'
       BY <1>16 DEF GateInv, gate, PassDispatch, Upcoming, Send
  <2>3. LiveInv'
       BY <1>16, SortsAssumption DEF LiveInv, disk, guard, PassDispatch,
       Upcoming, Send
  <2>4. PassInv'
       BY <1>16 DEF PassInv, TypeOK, Senders, disk, PassDispatch, Upcoming,
       Send
  <2>5. ClerkInv'
       BY <1>16, SortsAssumption DEF ClerkInv, disk, guard, PassDispatch,
       Upcoming, Send
  <2>6. OperatorInv'
       BY <1>16 DEF OperatorInv, TypeOK, operator, PassDispatch, Upcoming,
       Send
  <2>7. AnsweredIsAccounted'
       BY <1>16 DEF AnsweredIsAccounted, disk, guard, operator, PassDispatch,
       Upcoming, Send
  <2> QED
       BY <2>1, <2>2, <2>3, <2>4, <2>5, <2>6, <2>7
<1>17. ASSUME NEW p \in Passes, PassSuccess(p) PROVE IInv'
  <2>1. TypeOK'
       BY <1>17, BoundsAssumption DEF TypeOK, Rows, Stages, PassInv, Senders,
       guard, gate, PassSuccess, Receive, Removed
  <2>2. GateInv'
       BY <1>17 DEF GateInv, gate, PassSuccess, Receive, Removed
  <2>3. LiveInv'
       BY <1>17 DEF LiveInv, PassInv, guard, PassSuccess, Receive, Removed
  <2>4. PassInv'
       BY <1>17 DEF PassInv, TypeOK, GateInv, Senders, PassSuccess, Receive,
       Removed
  <2>5. ClerkInv'
       BY <1>17 DEF ClerkInv, TypeOK, guard, PassSuccess, Receive, Removed
  <2>6. OperatorInv'
       BY <1>17 DEF OperatorInv, TypeOK, Senders, PassSuccess, Receive,
       Removed
  <2>7. AnsweredIsAccounted'
       BY <1>17 DEF OperatorInv, AnsweredIsAccounted, Senders, guard,
       PassSuccess, Receive, Removed
  <2> QED
       BY <2>1, <2>2, <2>3, <2>4, <2>5, <2>6, <2>7
<1>18. ASSUME NEW p \in Passes, PassRefused(p) PROVE IInv'
  <2>1. TypeOK'
       BY <1>18, BoundsAssumption DEF TypeOK, Rows, Stages, PassInv, Senders,
       guard, gate, PassRefused, Receive, Updated
  <2>2. GateInv'
       BY <1>18 DEF GateInv, gate, PassRefused, Receive, Updated
  <2>3. LiveInv'
       BY <1>18 DEF LiveInv, PassInv, guard, PassRefused, Receive, Updated
  <2>4. PassInv'
       BY <1>18 DEF PassInv, TypeOK, GateInv, Senders, PassRefused, Receive,
       Updated
  <2>5. ClerkInv'
       BY <1>18 DEF ClerkInv, TypeOK, guard, PassRefused, Receive, Updated
  <2>6. OperatorInv'
       BY <1>18 DEF OperatorInv, PassRefused, Receive, Updated
  <2>7. AnsweredIsAccounted'
       BY <1>18 DEF AnsweredIsAccounted, guard, PassRefused, Receive, Updated
  <2> QED
       BY <2>1, <2>2, <2>3, <2>4, <2>5, <2>6, <2>7
<1>19. ASSUME NEW p \in Passes, PassThrow(p) PROVE IInv'
  <2>1. TypeOK'
       BY <1>19 DEF TypeOK, Rows, Stages, PassInv, Senders, guard, gate,
       PassThrow, Receive, Updated
  <2>2. GateInv'
       BY <1>19 DEF GateInv, gate, PassThrow, Receive, Updated
  <2>3. LiveInv'
       BY <1>19 DEF LiveInv, PassInv, guard, PassThrow, Receive, Updated
  <2>4. PassInv'
       BY <1>19 DEF PassInv, TypeOK, GateInv, Senders, PassThrow, Receive,
       Updated
  <2>5. ClerkInv'
       BY <1>19 DEF ClerkInv, TypeOK, guard, PassThrow, Receive, Updated
  <2>6. OperatorInv'
       BY <1>19 DEF OperatorInv, TypeOK, PassThrow, Receive, Updated
  <2>7. AnsweredIsAccounted'
       BY <1>19 DEF AnsweredIsAccounted, guard, PassThrow, Receive, Updated
  <2> QED
       BY <2>1, <2>2, <2>3, <2>4, <2>5, <2>6, <2>7
<1>20. ASSUME NEW p \in Passes, PassTransient(p) PROVE IInv'
  <2>1. TypeOK'
       BY <1>20, BoundsAssumption DEF TypeOK, Stages, PassInv, Senders,
       guard, gate, PassTransient, Receive, Updated
  <2>2. GateInv'
       BY <1>20 DEF GateInv, gate, PassTransient, Receive, Updated
  <2>3. LiveInv'
       BY <1>20 DEF LiveInv, PassInv, guard, PassTransient, Receive, Updated
  <2>4. PassInv'
       BY <1>20 DEF PassInv, TypeOK, Senders, PassTransient, Receive, Updated
  <2>5. ClerkInv'
       BY <1>20 DEF ClerkInv, PassInv, guard, PassTransient, Receive, Updated
  <2>6. OperatorInv'
       BY <1>20 DEF OperatorInv, TypeOK, PassTransient, Receive, Updated
  <2>7. AnsweredIsAccounted'
       BY <1>20 DEF AnsweredIsAccounted, guard, PassTransient, Receive,
       Updated
  <2> QED
       BY <2>1, <2>2, <2>3, <2>4, <2>5, <2>6, <2>7
<1>21. ASSUME NEW p \in Passes, PassEnd(p) PROVE IInv'
  <2>1. TypeOK'
    <3>1. WalkTyped' /\ GateTyped'
         BY <1>21, FinishPassTyped DEF TypeOK, WalkTyped, GateTyped, PassEnd
    <3> QED
         BY <1>21, <3>1 DEF TypeOK, WalkTyped, GateTyped, PassEnd, disk, guard, net, operator
  <2>2. GateInv'
       BY <1>21 DEF GateInv, TypeOK, PassEnd, FinishPass
  <2>3. PassInv'
       BY <1>21 DEF PassInv, TypeOK, disk, net, PassEnd, FinishPass
  <2>4. LiveInv' /\ ClerkInv' /\ OperatorInv' /\ AnsweredIsAccounted'
       BY <1>21 DEF LiveInv, ClerkInv, OperatorInv, AnsweredIsAccounted,
       disk, guard, net, operator, PassEnd, FinishPass
  <2> QED
       BY <2>1, <2>2, <2>3, <2>4
<1>22. ASSUME NEW r \in Retries, NEW d \in Docs, RetryFailed(r, d) PROVE IInv'
  <2>1. TypeOK'
       BY <1>22 DEF TypeOK, Stages, disk, guard, walk, gate, operator,
       RetryFailed, Send
  <2>2. LiveInv'
       BY <1>22, SortsAssumption DEF LiveInv, disk, guard, RetryFailed, Send
  <2>3. PassInv'
       BY <1>22, SortsAssumption DEF PassInv, disk, walk, RetryFailed, Send
  <2>4. ClerkInv'
       BY <1>22 DEF ClerkInv, TypeOK, LiveInv, disk, guard, RetryFailed, Send
  <2>5. OperatorInv'
       BY <1>22 DEF OperatorInv, operator, RetryFailed, Send
  <2>6. GateInv' /\ AnsweredIsAccounted'
       BY <1>22 DEF GateInv, AnsweredIsAccounted, disk, guard, walk, gate,
       operator, RetryFailed, Send
  <2> QED
       BY <2>1, <2>2, <2>3, <2>4, <2>5, <2>6
<1>23. ASSUME NEW r \in Retries, RetrySuccess(r) PROVE IInv'
  <2>1. TypeOK'
       BY <1>23 DEF TypeOK, Rows, Stages, ClerkInv, guard, walk, gate,
       RetrySuccess, Receive, Removed
  <2>2. LiveInv'
       BY <1>23, SortsAssumption DEF LiveInv, guard, RetrySuccess, Receive,
       Removed
  <2>3. PassInv'
       BY <1>23 DEF PassInv, ClerkInv, walk, RetrySuccess, Receive, Removed
  <2>4. ClerkInv'
       BY <1>23 DEF ClerkInv, TypeOK, guard, RetrySuccess, Receive, Removed
  <2>5. OperatorInv'
       BY <1>23 DEF OperatorInv, TypeOK, Senders, RetrySuccess, Receive,
       Removed
  <2>6. AnsweredIsAccounted'
       BY <1>23 DEF OperatorInv, AnsweredIsAccounted, Senders, guard,
       RetrySuccess, Receive, Removed
  <2>7. GateInv'
       BY <1>23 DEF GateInv, walk, gate, RetrySuccess, Receive, Removed
  <2> QED
       BY <2>1, <2>2, <2>3, <2>4, <2>5, <2>6, <2>7
<1>24. ASSUME NEW r \in Retries, RetryNot(r) PROVE IInv'
  <2>1. TypeOK'
       BY <1>24 DEF TypeOK, Rows, Stages, ClerkInv, guard, walk, gate,
       RetryNot, Receive, Updated
  <2>2. LiveInv'
       BY <1>24, SortsAssumption DEF LiveInv, guard, RetryNot, Receive,
       Updated
  <2>3. PassInv'
       BY <1>24 DEF PassInv, ClerkInv, walk, RetryNot, Receive, Updated
  <2>4. ClerkInv'
       BY <1>24 DEF ClerkInv, TypeOK, guard, RetryNot, Receive, Updated
  <2>5. OperatorInv'
       BY <1>24 DEF OperatorInv, TypeOK, RetryNot, Receive, Updated
  <2>6. AnsweredIsAccounted'
       BY <1>24 DEF AnsweredIsAccounted, guard, RetryNot, Receive, Updated
  <2>7. GateInv'
       BY <1>24 DEF GateInv, walk, gate, RetryNot, Receive, Updated
  <2> QED
       BY <2>1, <2>2, <2>3, <2>4, <2>5, <2>6, <2>7
<1>25. ASSUME NEW d \in Docs, NEW copies \in SUBSET Retries, WriteOff(d, copies) PROVE IInv'
  <2>1. TypeOK'
       BY <1>25 DEF TypeOK, Rows, guard, walk, gate, operator, WriteOff,
       Updated
  <2>2. LiveInv'
       BY <1>25 DEF LiveInv, guard, WriteOff, Updated
  <2>3. PassInv'
       BY <1>25 DEF PassInv, walk, WriteOff, Updated
  <2>4. ClerkInv'
       BY <1>25 DEF ClerkInv, guard, WriteOff, Updated
  <2>5. AnsweredIsAccounted'
       BY <1>25 DEF AnsweredIsAccounted, guard, operator, WriteOff, Updated
  <2>6. GateInv' /\ OperatorInv'
       BY <1>25 DEF GateInv, OperatorInv, walk, gate, operator, WriteOff,
       Updated
  <2> QED
       BY <2>1, <2>2, <2>3, <2>4, <2>5, <2>6
<1>26. ASSUME NEW s \in Senders, OperatorServes(s) PROVE IInv'
  <2>1. TypeOK'
       BY <1>26 DEF TypeOK, Stages, LiveInv, PassInv, ClerkInv, Senders,
       disk, guard, walk, gate, OperatorServes
  <2>2. LiveInv'
       BY <1>26 DEF LiveInv, TypeOK, Senders, disk, guard, OperatorServes
  <2>3. PassInv'
       BY <1>26 DEF PassInv, TypeOK, Senders, disk, walk, OperatorServes
  <2>4. ClerkInv'
       BY <1>26 DEF ClerkInv, TypeOK, Senders, disk, guard, OperatorServes
  <2>5. OperatorInv'
       BY <1>26 DEF OperatorInv, TypeOK, OperatorServes
  <2>6. AnsweredIsAccounted'
       BY <1>26 DEF AnsweredIsAccounted, disk, guard, OperatorServes
  <2>7. GateInv'
       BY <1>26 DEF GateInv, walk, gate, OperatorServes
  <2> QED
       BY <2>1, <2>2, <2>3, <2>4, <2>5, <2>6, <2>7
<1>27. ASSUME NEW d \in Docs, OperatorServesLate(d) PROVE IInv'
  <2>1. TypeOK'
       BY <1>27 DEF TypeOK, disk, guard, net, walk, gate, OperatorServesLate
  <2>2. OperatorInv'
       BY <1>27 DEF OperatorInv, net, OperatorServesLate
  <2>3. AnsweredIsAccounted'
       BY <1>27 DEF AnsweredIsAccounted, disk, guard, OperatorServesLate
  <2>4. GateInv' /\ LiveInv' /\ PassInv' /\ ClerkInv'
       BY <1>27 DEF GateInv, LiveInv, PassInv, ClerkInv, disk, guard, net,
       walk, gate, OperatorServesLate
  <2> QED
       BY <2>1, <2>2, <2>3, <2>4
<1>28. ASSUME Tick PROVE IInv'
  <2>1. TypeOK'
       BY <1>28, BoundsAssumption DEF TypeOK, disk, guard, net, walk, gate,
       operator, Tick
  <2>2. GateInv' /\ LiveInv' /\ PassInv' /\ ClerkInv' /\ OperatorInv' /\ AnsweredIsAccounted'
       BY <1>28 DEF GateInv, LiveInv, PassInv, ClerkInv, OperatorInv,
       AnsweredIsAccounted, disk, guard, net, walk, gate, operator, Tick
  <2> QED
       BY <2>1, <2>2
<1>29. ASSUME ToggleShift PROVE IInv'
  <2>1. TypeOK'
       BY <1>29 DEF TypeOK, disk, guard, net, walk, gate, operator,
       ToggleShift
  <2>2. GateInv' /\ LiveInv' /\ PassInv' /\ ClerkInv' /\ OperatorInv' /\ AnsweredIsAccounted'
       BY <1>29 DEF GateInv, LiveInv, PassInv, ClerkInv, OperatorInv,
       AnsweredIsAccounted, disk, guard, net, walk, gate, operator,
       ToggleShift
  <2> QED
       BY <2>1, <2>2
<1>30. ASSUME Restart PROVE IInv'
  <2>1. TypeOK'
       BY <1>30, RestartTyped
  <2>2. GateInv'
       BY <1>30 DEF GateInv, Restart
  <2>3. LiveInv'
       BY <1>30 DEF LiveInv, Senders, disk, Restart
  <2>4. PassInv'
       BY <1>30 DEF PassInv, Senders, disk, Restart
  <2>5. ClerkInv'
       BY <1>30 DEF ClerkInv, Senders, disk, Restart
  <2>6. OperatorInv'
       BY <1>30 DEF OperatorInv, Restart
  <2>7. AnsweredIsAccounted'
       BY <1>30 DEF AnsweredIsAccounted, disk, Restart
  <2> QED
       BY <2>1, <2>2, <2>3, <2>4, <2>5, <2>6, <2>7
<1>31. ASSUME NEW d \in Docs, EnqueueFails(d) PROVE IInv'
  <2>1. TypeOK'
       BY <1>31 DEF TypeOK, LiveStates, disk, net, walk, gate, operator,
       EnqueueFails
  <2>2. LiveInv'
       BY <1>31 DEF LiveInv, TypeOK, disk, net, EnqueueFails
  <2>3. ClerkInv'
       BY <1>31 DEF ClerkInv, TypeOK, disk, net, EnqueueFails
  <2>4. AnsweredIsAccounted'
       BY <1>31 DEF AnsweredIsAccounted, TypeOK, disk, operator, EnqueueFails
  <2>5. GateInv' /\ PassInv' /\ OperatorInv'
       BY <1>31 DEF GateInv, PassInv, OperatorInv, disk, net, walk, gate,
       operator, EnqueueFails
  <2> QED
       BY <2>1, <2>2, <2>3, <2>4, <2>5
<1>32. ASSUME NEW p \in Passes, PassBreaks(p) PROVE IInv'
  <2>1. WalkTyped' /\ GateTyped'
       BY <1>32, FinishPassTyped DEF TypeOK, WalkTyped, GateTyped, PassBreaks
  <2>2. acked' \subseteq registered /\ acked' \subseteq Docs /\ acked \subseteq acked'
       BY <1>32 DEF TypeOK, OperatorInv, Senders, PassBreaks
  <2>3. late' \subseteq Docs
       BY <1>32, CarriedIsDocument DEF TypeOK, Senders, PassBreaks, Receive
  <2>4. TypeOK'
       BY <1>32, <2>1, <2>2, <2>3 DEF TypeOK, Stages, WalkTyped, GateTyped, disk, guard,
       PassBreaks, Receive
  <2>5. LiveInv'
       BY <1>32, SortsAssumption DEF LiveInv, disk, guard, PassBreaks, Receive
  <2>6. GateInv'
       BY <1>32 DEF GateInv, TypeOK, PassBreaks, FinishPass
  <2>7. PassInv'
    <3>1. /\ pass'[p] \in {"idle", "begin"} /\ todo'[p] = {} /\ still'[p] = {} /\ wire'[p] = "idle"
          /\ \A q \in Passes : q # p =>
                /\ pass'[q] = pass[q] /\ todo'[q] = todo[q] /\ still'[q] = still[q]
                /\ streak'[q] = streak[q] /\ wire'[q] = wire[q] /\ cur'[q] = cur[q]
         BY <1>32 DEF TypeOK, Senders, PassBreaks, FinishPass, Receive
    <3>2. UNCHANGED row
         BY <1>32 DEF PassBreaks, disk
    <3> QED
         BY <3>1, <3>2 DEF PassInv
  <2>8. ClerkInv'
       BY <1>32, SortsAssumption DEF ClerkInv, disk, guard, PassBreaks, Receive
  <2>9. OperatorInv'
       BY <1>32, <2>2 DEF OperatorInv, TypeOK, PassBreaks, Receive
  <2>10. AnsweredIsAccounted'
       BY <1>32, <2>2 DEF AnsweredIsAccounted, disk, guard, PassBreaks
  <2> QED
       BY <2>4, <2>5, <2>6, <2>7, <2>8, <2>9, <2>10
<1>33. ASSUME NEW r \in Retries, RetryBreaks(r) PROVE IInv'
  <2>1. acked' \subseteq registered /\ acked' \subseteq Docs /\ acked \subseteq acked'
       BY <1>33 DEF TypeOK, OperatorInv, ClerkInv, Senders, RetryBreaks
  <2>2. TypeOK'
       BY <1>33, <2>1 DEF TypeOK, Stages, ClerkInv, disk, guard, walk, gate,
       RetryBreaks, Receive
  <2>3. LiveInv'
       BY <1>33, SortsAssumption DEF LiveInv, disk, guard, RetryBreaks, Receive
  <2>4. PassInv'
       BY <1>33, SortsAssumption DEF PassInv, disk, walk, RetryBreaks, Receive
  <2>5. ClerkInv'
       BY <1>33 DEF ClerkInv, TypeOK, disk, guard, RetryBreaks, Receive
  <2>6. OperatorInv'
       BY <1>33, <2>1 DEF OperatorInv, TypeOK, RetryBreaks, Receive
  <2>7. GateInv' /\ AnsweredIsAccounted'
       BY <1>33, <2>1 DEF GateInv, AnsweredIsAccounted, disk, guard, walk, gate, RetryBreaks
  <2> QED
       BY <2>2, <2>3, <2>4, <2>5, <2>6, <2>7
<1>34. CASE UNCHANGED vars
    BY <1>34 DEF TypeOK, GateInv, LiveInv, PassInv, ClerkInv, OperatorInv,
       AnsweredIsAccounted, vars, disk, guard, net, walk, gate, operator
<1> QED
    BY <1>1, <1>2, <1>3, <1>4, <1>5, <1>6, <1>7, <1>8, <1>9, <1>10, <1>11,
    <1>12, <1>13, <1>14, <1>15, <1>16, <1>17, <1>18, <1>19, <1>20, <1>21,
    <1>22, <1>23, <1>24, <1>25, <1>26, <1>27, <1>28, <1>29, <1>30, <1>31, <1>32, <1>33, <1>34
    DEF Next, Guard, Scheduler, Pass, Clerk

-----------------------------------------------------------------------------
(* What follows from it.                                                   *)

\* The invariant holds of the till as it starts, its table empty.
LEMMA InitIInv == Init => IInv
<1> SUFFICES ASSUME Init PROVE IInv
    OBVIOUS
<1>1. TypeOK
    <2>1. /\ row \in [Docs -> Rows] /\ live \in [Docs -> LiveStates]
          /\ wire \in [Senders -> Stages] /\ cur \in [Senders -> Docs \cup {NoDoc}]
          /\ pass \in [Passes -> {"idle", "begin", "walk", "wait"}]
          /\ run \in [Runners -> {"idle", "counted", "clear"}]
        BY DEF Init, Rows, LiveStates, Stages
    <2>2. /\ at \in [Docs -> 0..MaxTime] /\ streak \in [Passes -> 0..MaxTransient]
          /\ now \in 0..MaxTime /\ crashes \in 0..MaxCrashes
        BY BoundsAssumption DEF Init
    <2>3. /\ mark \in [Retries -> BOOLEAN] /\ blocked \in [Passes -> BOOLEAN]
          /\ running \in Passes \cup {NoPass} /\ queued \in BOOLEAN /\ shiftOpen \in BOOLEAN
        BY Zenon DEF Init
    <2> QED
        BY <2>1, <2>2, <2>3 DEF Init, TypeOK
<1>2. GateInv /\ LiveInv /\ PassInv /\ ClerkInv /\ OperatorInv /\ AnsweredIsAccounted
    BY DEF Init, GateInv, LiveInv, PassInv, ClerkInv, OperatorInv, AnsweredIsAccounted, Senders
<1> QED
    BY <1>1, <1>2 DEF IInv

\* The invariant holds of every reachable state.
LEMMA Invariance == Spec => []IInv
BY InitIInv, StepIInv, PTL DEF Spec

\* Every variable keeps its type, whatever the documents and the bounds.
THEOREM TypeCorrect == Spec => []TypeOK
<1>1. IInv => TypeOK
    BY DEF IInv
<1> QED
    BY <1>1, Invariance, PTL

\* A document answered as done, queued, or failed with its row laid is in the
\* table or, told so, with the operator: no pass, retry, lost answer, refused
\* write or restart drops its last trace.
THEOREM NothingLost == Spec => []AnsweredIsAccounted
<1>1. IInv => AnsweredIsAccounted
    BY DEF IInv
<1> QED
    BY <1>1, Invariance, PTL

\* Who may hold a document - a live call, the running pass, a retry - follows
\* from the state of its row, and no two of them from the same one.
LEMMA HoldersExclude == IInv => NoDoubleDispatch
<1> SUFFICES ASSUME IInv, NEW s \in Senders, NEW t \in Senders,
                    s # t, wire[s] # "idle", wire[t] # "idle", cur[s] = cur[t]
             PROVE  s \in Retries /\ t \in Retries
    BY DEF NoDoubleDispatch
<1>1. \A u \in Docs : wire[u] # "idle" => cur[u] = u /\ row[u] = "absent" /\ live[u] = "wire"
    BY DEF IInv, LiveInv
<1>2. \A p \in Passes : wire[p] # "idle" => running = p /\ cur[p] \in Docs /\ row[cur[p]] = "pending"
    BY DEF IInv, TypeOK, GateInv, PassInv
<1>3. \A r \in Retries : wire[r] # "idle" => live[cur[r]] = "answered" /\ row[cur[r]] # "pending"
    BY DEF IInv, ClerkInv
<1> QED
    BY <1>1, <1>2, <1>3 DEF Senders

\* One document is never on its way to the operator twice, but for a clerk
\* who presses Retry twice.
THEOREM OneAtATime == Spec => []NoDoubleDispatch
BY HoldersExclude, Invariance, PTL

-----------------------------------------------------------------------------
(* Who writes what.                                                        *)

\* The steps that write the table: an enqueue, a pass, a retry, a write-off.
LEMMA WhoWritesRows ==
    ASSUME [Next]_vars
    PROVE  \/ UNCHANGED row
           \/ \E d \in Docs : Enqueue(d)
           \/ \E p \in Passes : \/ \E d \in Docs : PassExpire(p, d)
                                \/ PassSuccess(p) \/ PassRefused(p) \/ PassThrow(p) \/ PassTransient(p)
           \/ \E r \in Retries : RetrySuccess(r) \/ RetryNot(r)
           \/ \E d \in Docs, copies \in SUBSET Retries : WriteOff(d, copies)
<1>1. ASSUME NEW d \in Docs, GuardSend(d) \/ GuardHold(d) \/ GuardUnbuilt(d)
                             \/ GuardSuccess(d) \/ GuardTransient(d) \/ GuardRefused(d)
                             \/ EnqueueFails(d)
      PROVE  UNCHANGED row
    BY <1>1 DEF GuardSend, GuardHold, GuardUnbuilt, GuardSuccess, GuardTransient, GuardRefused,
                EnqueueFails, disk
<1>2. ASSUME NEW c \in Runners, Scheduler(c) PROVE UNCHANGED row
    BY <1>2 DEF Scheduler, RunOnceCount, RunOnceShift, RunOnceReplay, disk
<1>3. ASSUME NEW p \in Passes, PassUnreachable(p) \/ PassSnapshot(p) \/ PassEnd(p) \/ PassBreaks(p)
      PROVE  UNCHANGED row
    BY <1>3 DEF PassUnreachable, PassSnapshot, PassEnd, PassBreaks, disk
<1>4. ASSUME NEW p \in Passes, NEW d \in Docs, PassHold(p, d) \/ PassCut(p, d) \/ PassDispatch(p, d)
      PROVE  UNCHANGED row
    BY <1>4 DEF PassHold, PassCut, PassDispatch, disk
<1>5. ASSUME NEW r \in Retries, RetryBreaks(r) \/ \E d \in Docs : RetryFailed(r, d)
      PROVE  UNCHANGED row
    BY <1>5 DEF RetryFailed, RetryBreaks, disk
<1>6. ASSUME \/ \E s \in Senders : OperatorServes(s)
             \/ \E d \in Docs : OperatorServesLate(d)
             \/ Tick \/ ToggleShift \/ Restart \/ UNCHANGED vars
      PROVE  UNCHANGED row
    BY <1>6 DEF OperatorServes, OperatorServesLate, Tick, ToggleShift, Restart, vars, disk
<1> QED
    BY <1>1, <1>2, <1>3, <1>4, <1>5, <1>6 DEF Next, Guard, Pass, Clerk

\* Where the guard stands with a document changes by its own steps and by
\* a restart.
LEMMA WhoWritesLive ==
    ASSUME [Next]_vars
    PROVE  UNCHANGED <<live, at>> \/ (\E d \in Docs : Guard(d)) \/ Restart
<1>1. ASSUME NEW c \in Runners, Scheduler(c) PROVE UNCHANGED <<live, at>>
    BY <1>1 DEF Scheduler, RunOnceCount, RunOnceShift, RunOnceReplay, guard
<1>2. ASSUME NEW p \in Passes, PassUnreachable(p) \/ PassSnapshot(p) \/ PassEnd(p) \/ PassSuccess(p)
                               \/ PassRefused(p) \/ PassThrow(p) \/ PassTransient(p) \/ PassBreaks(p)
      PROVE  UNCHANGED <<live, at>>
    BY <1>2 DEF PassUnreachable, PassSnapshot, PassEnd, PassSuccess, PassRefused, PassThrow,
                PassTransient, PassBreaks, guard
<1>3. ASSUME NEW p \in Passes, NEW d \in Docs,
             PassExpire(p, d) \/ PassHold(p, d) \/ PassCut(p, d) \/ PassDispatch(p, d)
      PROVE  UNCHANGED <<live, at>>
    BY <1>3 DEF PassExpire, PassHold, PassCut, PassDispatch, guard
<1>4. ASSUME NEW r \in Retries, Clerk(r) PROVE UNCHANGED <<live, at>>
    BY <1>4 DEF Clerk, RetryFailed, RetrySuccess, RetryNot, RetryBreaks, guard
<1>5. ASSUME NEW d \in Docs, NEW copies \in SUBSET Retries, WriteOff(d, copies) PROVE UNCHANGED <<live, at>>
    BY <1>5 DEF WriteOff, guard
<1>6. ASSUME \/ \E s \in Senders : OperatorServes(s)
             \/ \E d \in Docs : OperatorServesLate(d)
             \/ Tick \/ ToggleShift \/ UNCHANGED vars
      PROVE  UNCHANGED <<live, at>>
    BY <1>6 DEF OperatorServes, OperatorServesLate, Tick, ToggleShift, vars, guard
<1> QED
    BY <1>1, <1>2, <1>3, <1>4, <1>5, <1>6 DEF Next, Pass

\* A pass moves by its own steps, by the gate and by a restart.
LEMMA WhoWalks ==
    ASSUME IInv, [Next]_vars
    PROVE  \/ UNCHANGED <<pass, todo, still, blocked>> /\ \A p \in Passes : cur'[p] = cur[p]
           \/ \E c \in Runners : RunOnceReplay(c)
           \/ \E p \in Passes : Pass(p)
           \/ Restart
<1> DEFINE Same == UNCHANGED <<pass, todo, still, blocked>> /\ \A p \in Passes : cur'[p] = cur[p]
<1>1. ASSUME NEW d \in Docs, \/ GuardSend(d) \/ GuardHold(d) \/ GuardUnbuilt(d)
                             \/ Enqueue(d) \/ EnqueueFails(d)
      PROVE  Same
    BY <1>1, SortsAssumption
       DEF IInv, TypeOK, Senders, GuardSend, GuardHold, GuardUnbuilt, Enqueue, EnqueueFails, Send,
           net, walk
<1>2. ASSUME NEW d \in Docs, GuardSuccess(d) \/ GuardTransient(d) \/ GuardRefused(d) PROVE Same
    BY <1>2, SortsAssumption
       DEF IInv, TypeOK, Senders, GuardSuccess, GuardTransient, GuardRefused, Receive, walk
<1>3. ASSUME NEW c \in Runners, RunOnceCount(c) \/ RunOnceShift(c) PROVE Same
    BY <1>3 DEF RunOnceCount, RunOnceShift, net, walk
<1>4. ASSUME NEW r \in Retries, Clerk(r) PROVE Same
    BY <1>4, SortsAssumption
       DEF IInv, TypeOK, Senders, Clerk, RetryFailed, RetrySuccess, RetryNot, RetryBreaks, Send,
           Receive, walk
<1>5. ASSUME NEW d \in Docs, NEW copies \in SUBSET Retries, WriteOff(d, copies) PROVE Same
    BY <1>5 DEF WriteOff, walk
<1>6. ASSUME \/ \E s \in Senders : OperatorServes(s)
             \/ \E d \in Docs : OperatorServesLate(d)
             \/ Tick \/ ToggleShift \/ UNCHANGED vars
      PROVE  Same
    BY <1>6 DEF OperatorServes, OperatorServesLate, Tick, ToggleShift, vars, net, walk
<1> QED
    BY <1>1, <1>2, <1>3, <1>4, <1>5, <1>6 DEF Next, Guard, Scheduler

\* A pass writes rows back as pending only where they were pending.
LEMMA HumanRowsStay ==
    ASSUME IInv, [Next]_vars, NEW d \in Docs, row[d] \in {"failed", "bare", "writtenOff"}
    PROVE  row'[d] # "pending"
<1>1. ASSUME NEW e \in Docs, Enqueue(e) PROVE row'[d] # "pending"
    BY <1>1 DEF IInv, TypeOK, Enqueue, Enqueued
<1>2. ASSUME NEW p \in Passes, NEW e \in Docs, PassExpire(p, e) PROVE row'[d] # "pending"
    BY <1>2 DEF IInv, TypeOK, PassExpire, Updated
<1>3. ASSUME NEW p \in Passes, PassSuccess(p) \/ PassRefused(p) \/ PassThrow(p)
      PROVE  row'[d] # "pending"
    BY <1>3 DEF IInv, TypeOK, PassSuccess, PassRefused, PassThrow, Updated, Removed
<1>4. ASSUME NEW p \in Passes, PassTransient(p) PROVE row'[d] # "pending"
    <2>1. d # cur[p]
        BY <1>4 DEF IInv, PassInv, PassTransient
    <2> QED
        BY <1>4, <2>1 DEF IInv, TypeOK, PassTransient, Updated
<1>5. ASSUME NEW r \in Retries, RetrySuccess(r) \/ RetryNot(r) PROVE row'[d] # "pending"
    BY <1>5 DEF IInv, TypeOK, RetrySuccess, RetryNot, Updated, Removed
<1>6. ASSUME NEW e \in Docs, NEW copies \in SUBSET Retries, WriteOff(e, copies)
      PROVE  row'[d] # "pending"
    BY <1>6 DEF IInv, TypeOK, WriteOff, Updated
<1> QED
    BY <1>1, <1>2, <1>3, <1>4, <1>5, <1>6, WhoWritesRows

\* What was handed to a human never returns to automatic replay.
THEOREM HumanKeeps == Spec => FailedStaysWithHuman
<1>1. IInv /\ [Next]_vars =>
        [\A d \in Docs : row[d] \in {"failed", "bare", "writtenOff"} => row'[d] # "pending"]_vars
    BY HumanRowsStay
<1> QED
    BY <1>1, Invariance, PTL DEF Spec, FailedStaysWithHuman

\* A document's time is fixed when its guard starts.
LEMMA TimesFixed ==
    ASSUME IInv, [Next]_vars
    PROVE  \A d \in Docs : live[d] # "new" => live'[d] # "new" /\ at'[d] = at[d]
<1>1. CASE UNCHANGED <<live, at>>
    BY <1>1
<1>2. ASSUME NEW e \in Docs, GuardSend(e) \/ GuardHold(e) \/ GuardUnbuilt(e)
      PROVE  \A d \in Docs : live[d] # "new" => live'[d] # "new" /\ at'[d] = at[d]
    <2>1. Compose(e) /\ \E v \in {"wire", "toQueue", "toBare"} : live' = [live EXCEPT ![e] = v]
        BY <1>2 DEF GuardSend, GuardHold, GuardUnbuilt
    <2> QED
        BY <2>1 DEF IInv, TypeOK, Compose
<1>3. ASSUME NEW e \in Docs, \/ GuardSuccess(e) \/ GuardTransient(e) \/ GuardRefused(e)
                             \/ Enqueue(e) \/ EnqueueFails(e)
      PROVE  \A d \in Docs : live[d] # "new" => live'[d] # "new" /\ at'[d] = at[d]
    BY <1>3 DEF IInv, TypeOK, GuardSuccess, GuardTransient, GuardRefused, Enqueue, EnqueueFails
<1>4. CASE Restart
    BY <1>4 DEF Restart
<1> QED
    BY <1>1, <1>2, <1>3, <1>4, WhoWritesLive DEF Guard

-----------------------------------------------------------------------------
(* The order the queue keeps: a refund stays behind its own sale, and a    *)
(* withdrawal behind every older document, in the guard and in a pass.     *)

-----------------------------------------------------------------------------
(* A refund behind its own sale.                                           *)

\* While a refund starts only after its sale was answered for, a sale that
\* waits in the queue was there before any refund of it; so the rule that
\* looks at the queue (guard) or at the snapshot (pass) once is enough.
OrderInv ==
    /\ \A d \in Docs : (Basis[d] # NoDoc /\ live[d] # "new") => Settled(Basis[d])
    /\ \A d \in Docs : (Basis[d] # NoDoc /\ live[d] = "wire") => row[Basis[d]] # "pending"
    /\ \A p \in Passes : \A e \in still[p] :
          (Basis[e] # NoDoc /\ row[Basis[e]] = "pending") => Basis[e] \in still[p]
    /\ \A p \in Passes :
          (pass[p] = "wait" /\ Basis[cur[p]] # NoDoc) => Basis[cur[p]] \notin still[p]

\* A refund the rule lets go is one whose sale is not among the queued.
LEMMA RefundHeldByBasis ==
    ASSUME NEW d \in Docs, Basis[d] # NoDoc, NEW b, NEW S, ~Holds(d, b, S)
    PROVE  Basis[d] \notin S
<1>1. Dependency(Op[d]) = "ownBasis"
    BY BasisAssumption DEF Dependency
<1> QED
    BY <1>1 DEF Holds

\* A row becomes pending only for a document whose guard is about to queue it.
LEMMA PendingFromGuard ==
    ASSUME IInv, [Next]_vars, NEW d \in Docs, row'[d] = "pending"
    PROVE  row[d] = "pending" \/ live[d] = "toQueue"
<1>1. ASSUME NEW e \in Docs, Enqueue(e) PROVE row[d] = "pending" \/ live[d] = "toQueue"
    <2>1. CASE d = e
        BY <1>1, <2>1 DEF IInv, TypeOK, LiveInv, Enqueue, Enqueued
    <2>2. CASE d # e
        BY <1>1, <2>2 DEF IInv, TypeOK, Enqueue, Enqueued
    <2> QED
        BY <2>1, <2>2
<1>2. CASE row[d] \in {"failed", "bare", "writtenOff"}
    BY <1>2, HumanRowsStay
<1>3. CASE row[d] = "absent"
    <2>1. ASSUME NEW p \in Passes, NEW e \in Docs, PassExpire(p, e) PROVE FALSE
        BY <1>3, <2>1 DEF IInv, TypeOK, PassExpire, Updated
    <2>2. ASSUME NEW p \in Passes, PassSuccess(p) \/ PassRefused(p) \/ PassThrow(p) \/ PassTransient(p)
          PROVE  FALSE
        BY <1>3, <2>2
           DEF IInv, TypeOK, PassSuccess, PassRefused, PassThrow, PassTransient, Updated, Removed
    <2>3. ASSUME NEW r \in Retries, RetrySuccess(r) \/ RetryNot(r) PROVE FALSE
        BY <1>3, <2>3 DEF IInv, TypeOK, RetrySuccess, RetryNot, Updated, Removed
    <2>4. ASSUME NEW e \in Docs, NEW copies \in SUBSET Retries, WriteOff(e, copies) PROVE FALSE
        BY <1>3, <2>4 DEF IInv, TypeOK, WriteOff, Updated
    <2> QED
        BY <1>1, <1>3, <2>1, <2>2, <2>3, <2>4, WhoWritesRows
<1> QED
    BY <1>2, <1>3 DEF IInv, TypeOK, Rows

\* An answered document stays answered; a guard starts with Compose, and
\* sends only what the queue does not hold.
LEMMA LiveMoves ==
    ASSUME IInv, [Next]_vars, NEW d \in Docs
    PROVE  /\ Settled(d) => Settled(d)'
           /\ live'[d] # "new" => live[d] # "new" \/ Compose(d)
           /\ live'[d] = "wire" => live[d] = "wire" \/ (~HeldByQueue(d) /\ UNCHANGED row)
<1>1. ASSUME NEW e \in Docs, GuardSend(e)
      PROVE  /\ Settled(d) => Settled(d)'
             /\ live'[d] # "new" => live[d] # "new" \/ Compose(d)
             /\ live'[d] = "wire" => live[d] = "wire" \/ (~HeldByQueue(d) /\ UNCHANGED row)
    <2>1. Compose(e) /\ live[e] = "new" /\ ~HeldByQueue(e) /\ UNCHANGED row
          /\ live' = [live EXCEPT ![e] = "wire"]
        BY <1>1 DEF GuardSend, Compose, disk
    <2> QED
        BY <2>1 DEF IInv, TypeOK, Settled
<1>2. ASSUME NEW e \in Docs, GuardHold(e) \/ GuardUnbuilt(e)
      PROVE  /\ Settled(d) => Settled(d)'
             /\ live'[d] # "new" => live[d] # "new" \/ Compose(d)
             /\ live'[d] = "wire" => live[d] = "wire"
    <2>1. Compose(e) /\ live[e] = "new"
          /\ \E v \in {"toQueue", "toBare"} : live' = [live EXCEPT ![e] = v]
        BY <1>2 DEF GuardHold, GuardUnbuilt, Compose
    <2> QED
        BY <2>1 DEF IInv, TypeOK, Settled
<1>3. ASSUME NEW e \in Docs, \/ GuardSuccess(e) \/ GuardTransient(e) \/ GuardRefused(e)
                             \/ Enqueue(e) \/ EnqueueFails(e)
      PROVE  /\ Settled(d) => Settled(d)'
             /\ live'[d] # "new" => live[d] # "new"
             /\ live'[d] = "wire" => live[d] = "wire"
    <2>1. /\ live[e] \in {"wire", "toQueue", "toFailed", "toBare"}
          /\ \E v \in {"answered", "toQueue", "toFailed", "refused"} : live' = [live EXCEPT ![e] = v]
        BY <1>3 DEF GuardSuccess, GuardTransient, GuardRefused, Enqueue, EnqueueFails
    <2> QED
        BY <2>1 DEF IInv, TypeOK, Settled
<1>4. ASSUME Restart
      PROVE  /\ Settled(d) => Settled(d)'
             /\ live'[d] # "new" => live[d] # "new"
             /\ live'[d] = "wire" => live[d] = "wire"
    BY <1>4 DEF Restart, Settled
<1>5. CASE UNCHANGED <<live, at>>
    BY <1>5 DEF Settled
<1> QED
    BY <1>1, <1>2, <1>3, <1>4, <1>5, WhoWritesLive DEF Guard

\* What a pass counts as queued shrinks by what left the queue and by nothing
\* else, and it dispatches only what its own picture does not hold.
LEMMA WalkMoves ==
    ASSUME IInv, [Next]_vars, NEW p \in Passes
    PROVE  /\ \/ still'[p] = {}
              \/ still'[p] = Pending /\ UNCHANGED row
              \/ /\ still'[p] \subseteq still[p]
                 /\ \A b \in still[p] : row'[b] = "pending" => b \in still'[p]
           /\ pass'[p] = "wait" =>
              \/ pass[p] = "wait" /\ cur'[p] = cur[p] /\ still'[p] \subseteq still[p]
              \/ cur'[p] \in Docs /\ ~HeldInPass(p, cur'[p]) /\ still'[p] = still[p]
<1> DEFINE Shrinks == /\ still'[p] \subseteq still[p]
                      /\ \A b \in still[p] : row'[b] = "pending" => b \in still'[p]
           Waits == pass'[p] = "wait" =>
                      \/ pass[p] = "wait" /\ cur'[p] = cur[p] /\ still'[p] \subseteq still[p]
                      \/ cur'[p] \in Docs /\ ~HeldInPass(p, cur'[p]) /\ still'[p] = still[p]
<1>1. CASE UNCHANGED <<pass, todo, still, blocked>> /\ \A q \in Passes : cur'[q] = cur[q]
    BY <1>1
<1>2. CASE Restart
    BY <1>2 DEF Restart
<1>3. ASSUME NEW c \in Runners, RunOnceReplay(c) PROVE Shrinks /\ Waits
    <2>1. still' = still /\ (\A q \in Passes : cur'[q] = cur[q])
          /\ (pass'[p] = pass[p] \/ pass'[p] = "begin")
        BY <1>3 DEF IInv, TypeOK, RunOnceReplay, Replay, StartPass, walk, net
    <2> QED
        BY <2>1
<1>4. ASSUME NEW q \in Passes, PassUnreachable(q) \/ PassEnd(q) \/ \E d \in Docs : PassCut(q, d)
      PROVE  (still'[p] = {} \/ Shrinks) /\ Waits
    <2>1. FinishPass(q) /\ UNCHANGED <<row, cur>>
        BY <1>4 DEF PassUnreachable, PassEnd, PassCut, disk, net
    <2>2. still'[p] = {} \/ still'[p] = still[p]
        BY <2>1 DEF IInv, TypeOK, FinishPass
    <2>3. pass'[p] = "wait" => pass[p] = "wait" /\ p # q
        BY <2>1 DEF IInv, TypeOK, FinishPass
    <2> QED
        BY <2>1, <2>2, <2>3 DEF FinishPass
<1>5. ASSUME NEW q \in Passes, PassSnapshot(q)
      PROVE  (still'[p] = Pending /\ UNCHANGED row) \/ Shrinks
    BY <1>5 DEF IInv, TypeOK, PassSnapshot, disk
<1>6. ASSUME NEW q \in Passes, PassSnapshot(q) PROVE Waits
    BY <1>6 DEF IInv, TypeOK, PassSnapshot, net
<1>7. ASSUME NEW q \in Passes, NEW d \in Docs, PassExpire(q, d) PROVE Shrinks /\ Waits
    BY <1>7 DEF IInv, TypeOK, PassExpire, Updated, net
<1>8. ASSUME NEW q \in Passes, NEW d \in Docs, PassHold(q, d) PROVE Shrinks /\ Waits
    BY <1>8 DEF IInv, TypeOK, PassHold, net
<1>9. ASSUME NEW q \in Passes, NEW d \in Docs, PassDispatch(q, d) PROVE Shrinks /\ Waits
    BY <1>9 DEF IInv, TypeOK, Senders, PassDispatch, Send
<1>10. ASSUME NEW q \in Passes, PassSuccess(q) \/ PassRefused(q) \/ PassThrow(q)
       PROVE  Shrinks /\ Waits
    BY <1>10 DEF IInv, TypeOK, Senders, PassInv, PassSuccess, PassRefused, PassThrow,
                 Receive, Updated, Removed
<1>11. ASSUME NEW q \in Passes, PassTransient(q) PROVE Shrinks /\ Waits
    BY <1>11 DEF IInv, TypeOK, Senders, PassTransient, Receive
<1>12. ASSUME NEW q \in Passes, PassBreaks(q) PROVE (still'[p] = {} \/ Shrinks) /\ Waits
    <2>1. FinishPass(q) /\ UNCHANGED row /\ \A o \in Passes : o # q => cur'[o] = cur[o]
        BY <1>12 DEF IInv, TypeOK, Senders, PassBreaks, Receive, disk
    <2>2. still'[p] = {} \/ still'[p] = still[p]
        BY <2>1 DEF IInv, TypeOK, FinishPass
    <2>3. pass'[p] = "wait" => pass[p] = "wait" /\ p # q
        BY <2>1 DEF IInv, TypeOK, FinishPass
    <2> QED
        BY <2>1, <2>2, <2>3 DEF FinishPass
<1> QED
    BY <1>1, <1>2, <1>3, <1>4, <1>5, <1>6, <1>7, <1>8, <1>9, <1>10, <1>11, <1>12, WhoWalks DEF Pass

\* Every step keeps OrderInv: the guard asks the table, the pass its picture
\* of it, and no sale becomes pending behind either's back.
LEMMA StepOrderInv ==
    ASSUME IInv, OrderInv, [Next]_vars, ConcurrentRefund = FALSE
    PROVE  OrderInv'
<1>1. ASSUME NEW d \in Docs, Basis[d] # NoDoc, live'[d] # "new" PROVE Settled(Basis[d])'
    <2>1. Settled(Basis[d])
        BY <1>1, LiveMoves DEF OrderInv, Compose
    <2> QED
        BY <1>1, <2>1, LiveMoves, BasisAssumption
<1>2. ASSUME NEW d \in Docs, Basis[d] # NoDoc, live'[d] = "wire" PROVE row'[Basis[d]] # "pending"
    <2>1. CASE live[d] = "wire"
        <3>1. Settled(Basis[d]) /\ row[Basis[d]] # "pending"
            BY <1>2, <2>1 DEF OrderInv
        <3> QED
            BY <1>2, <3>1, PendingFromGuard, BasisAssumption DEF Settled
    <2>2. CASE ~HeldByQueue(d) /\ UNCHANGED row
        BY <1>2, <2>2, RefundHeldByBasis, BasisAssumption DEF HeldByQueue, Pending
    <2> QED
        BY <1>2, <2>1, <2>2, LiveMoves
<1>3. ASSUME NEW p \in Passes, NEW e \in still'[p], Basis[e] # NoDoc, row'[Basis[e]] = "pending"
      PROVE  Basis[e] \in still'[p]
    <2>1. CASE still'[p] = Pending /\ UNCHANGED row
        BY <1>3, <2>1, BasisAssumption DEF Pending
    <2>2. CASE still'[p] \subseteq still[p]
               /\ \A b \in still[p] : row'[b] = "pending" => b \in still'[p]
        <3>1. e \in Docs /\ row[e] = "pending"
            BY <1>3, <2>2 DEF IInv, TypeOK, PassInv
        <3>2. Settled(Basis[e])
            BY <1>3, <3>1 DEF IInv, LiveInv, OrderInv
        <3>3. row[Basis[e]] = "pending"
            BY <1>3, <3>1, <3>2, PendingFromGuard, BasisAssumption DEF Settled
        <3> QED
            BY <1>3, <2>2, <3>3 DEF OrderInv
    <2> QED
        BY <1>3, <2>1, <2>2, WalkMoves
<1>4. ASSUME NEW p \in Passes, pass'[p] = "wait", Basis[cur'[p]] # NoDoc
      PROVE  Basis[cur'[p]] \notin still'[p]
    <2>1. CASE pass[p] = "wait" /\ cur'[p] = cur[p] /\ still'[p] \subseteq still[p]
        BY <1>4, <2>1 DEF OrderInv
    <2>2. CASE cur'[p] \in Docs /\ ~HeldInPass(p, cur'[p]) /\ still'[p] = still[p]
        BY <1>4, <2>2, RefundHeldByBasis DEF HeldInPass
    <2> QED
        BY <1>4, <2>1, <2>2, WalkMoves
<1> QED
    BY <1>1, <1>2, <1>3, <1>4 DEF OrderInv

\* OrderInv is what the two senders of a refund need.
LEMMA OrderInvSuffices == IInv /\ OrderInv => RefundBehindBasis
<1> SUFFICES ASSUME IInv, OrderInv, NEW s \in Docs \cup Passes,
                    wire[s] # "idle", Basis[cur[s]] # NoDoc
             PROVE  row[Basis[cur[s]]] # "pending"
    BY DEF RefundBehindBasis
<1>1. CASE s \in Docs
    BY <1>1 DEF IInv, LiveInv, OrderInv
<1>2. CASE s \in Passes
    BY <1>2 DEF IInv, PassInv, OrderInv
<1> QED
    BY <1>1, <1>2

\* If a refund starts only after its sale was answered for, neither the guard
\* nor a pass sends a refund while its sale waits in the queue.
THEOREM RefundOrder ==
    ASSUME ConcurrentRefund = FALSE
    PROVE  Spec => []RefundBehindBasis
<1>1. Init => OrderInv
    BY DEF Init, OrderInv
<1>2. IInv /\ OrderInv /\ [Next]_vars => OrderInv'
    BY StepOrderInv
<1> QED
    BY <1>1, <1>2, OrderInvSuffices, Invariance, PTL DEF Spec

-----------------------------------------------------------------------------
(* A withdrawal behind everything before it.                               *)

\* A refund is younger than its sale; while a pass has deferred nothing, all
\* it counts as queued lies ahead of it, or is what it waits for; and what it
\* waits for is the earliest of them.
DrawerInv ==
    /\ \A d \in Docs : (Basis[d] # NoDoc /\ live[d] # "new") =>
          live[Basis[d]] # "new" /\ at[Basis[d]] < at[d]
    /\ \A p \in Passes : (pass[p] = "walk" /\ ~blocked[p]) => still[p] = todo[p]
    /\ \A p \in Passes : (pass[p] = "wait" /\ ~blocked[p]) => still[p] = todo[p] \cup {cur[p]}
    /\ WithdrawalBehindEarlier

\* Compose takes the refund's time after its sale's.
LEMMA RefundYounger ==
    ASSUME IInv, DrawerInv, [Next]_vars, NEW d \in Docs, Basis[d] # NoDoc, live'[d] # "new"
    PROVE  live'[Basis[d]] # "new" /\ at'[Basis[d]] < at'[d]
<1>1. CASE live[d] # "new"
    BY <1>1, TimesFixed, BasisAssumption DEF DrawerInv
<1>2. CASE live[d] = "new"
    <2>1. Compose(d)
        BY <1>2, LiveMoves
    <2>2. at'[d] = now /\ live[Basis[d]] # "new" /\ at[Basis[d]] < now
        BY <2>1 DEF IInv, TypeOK, Compose
    <2> QED
        BY <2>2, TimesFixed, BasisAssumption
<1> QED
    BY <1>1, <1>2

\* A refund is never held with nothing deferred before it: its sale, the
\* older one, would still be ahead.
LEMMA NothingHeldUnblocked ==
    ASSUME IInv, DrawerInv, NEW p \in Passes, NEW d \in Docs, pass[p] = "walk",
           Upcoming(p, d), HeldInPass(p, d)
    PROVE  blocked[p]
<1> SUFFICES ASSUME ~blocked[p] PROVE FALSE
    OBVIOUS
<1>1. Basis[d] \in still[p]
    BY DEF HeldInPass, Holds
<1>2. Basis[d] \in todo[p] /\ Basis[d] \in Docs /\ Basis[d] # NoDoc
    BY <1>1, SortsAssumption DEF DrawerInv, IInv, TypeOK
<1>3. live[d] = "answered"
    BY DEF Upcoming, IInv, TypeOK, PassInv, LiveInv
<1>4. at[d] <= at[Basis[d]] /\ at[Basis[d]] < at[d] /\ at[d] \in Int /\ at[Basis[d]] \in Int
    BY <1>2, <1>3 DEF Upcoming, DrawerInv, IInv, TypeOK
<1> QED
    BY <1>4

\* What the walk of one pass keeps of DrawerInv.
DrawerWalk(p) ==
    /\ (pass[p] = "walk" /\ ~blocked[p]) => still[p] = todo[p]
    /\ (pass[p] = "wait" /\ ~blocked[p]) => still[p] = todo[p] \cup {cur[p]}
    /\ (pass[p] = "wait" /\ Dependency(Op[cur[p]]) = "drawerBalance")
          => \A e \in still[p] : at[e] >= at[cur[p]]

\* Every step keeps what DrawerInv says of one pass.
LEMMA StepDrawerWalk ==
    ASSUME IInv, DrawerInv, [Next]_vars, NEW p \in Passes
    PROVE  DrawerWalk(p)'
<1>0. DrawerWalk(p)
    BY DEF DrawerInv, DrawerWalk, WithdrawalBehindEarlier
<1>1. \A e \in still[p] : e \in Docs /\ at'[e] = at[e]
    BY TimesFixed DEF IInv, TypeOK, PassInv, LiveInv
<1>2. pass[p] = "wait" => cur[p] \in still[p]
    BY DEF IInv, PassInv
<1>3. ASSUME UNCHANGED <<pass, todo, still, blocked>>, \A q \in Passes : cur'[q] = cur[q]
      PROVE  DrawerWalk(p)'
    BY <1>0, <1>1, <1>2, <1>3 DEF DrawerWalk
<1>4. CASE Restart
    BY <1>4 DEF Restart, DrawerWalk
<1>5. ASSUME NEW c \in Runners, RunOnceReplay(c) PROVE DrawerWalk(p)'
    <2>1. UNCHANGED <<todo, still, blocked, at>> /\ (\A q \in Passes : cur'[q] = cur[q])
          /\ (pass'[p] = pass[p] \/ pass'[p] = "begin")
        BY <1>5 DEF IInv, TypeOK, RunOnceReplay, Replay, StartPass, walk, net, guard
    <2> QED
        BY <1>0, <2>1 DEF DrawerWalk
<1>6. ASSUME NEW q \in Passes, PassUnreachable(q) \/ PassEnd(q) \/ \E d \in Docs : PassCut(q, d)
      PROVE  DrawerWalk(p)'
    <2>1. FinishPass(q) /\ UNCHANGED <<cur, at>>
        BY <1>6 DEF PassUnreachable, PassEnd, PassCut, net, guard
    <2>2. CASE p = q
        BY <2>1, <2>2 DEF IInv, TypeOK, FinishPass, DrawerWalk
    <2>3. CASE p # q
        BY <1>0, <2>1, <2>3 DEF IInv, TypeOK, FinishPass, DrawerWalk
    <2> QED
        BY <2>2, <2>3
<1>7. ASSUME NEW q \in Passes, PassSnapshot(q) PROVE DrawerWalk(p)'
    BY <1>0, <1>7 DEF IInv, TypeOK, PassSnapshot, DrawerWalk, net, guard
<1>8. ASSUME NEW q \in Passes, NEW d \in Docs, PassExpire(q, d) PROVE DrawerWalk(p)'
    BY <1>0, <1>8 DEF IInv, TypeOK, PassExpire, DrawerWalk, net, guard
<1>9. ASSUME NEW q \in Passes, NEW d \in Docs, PassHold(q, d) PROVE DrawerWalk(p)'
    <2>1. q = p => blocked[p]
        BY <1>9, NothingHeldUnblocked DEF PassHold
    <2> QED
        BY <1>0, <1>9, <2>1 DEF IInv, TypeOK, PassHold, DrawerWalk, net, guard
<1>10. ASSUME NEW q \in Passes, NEW d \in Docs, PassDispatch(q, d) PROVE DrawerWalk(p)'
    <2>1. CASE p # q
        BY <1>0, <1>10, <2>1 DEF IInv, TypeOK, Senders, PassDispatch, Send, DrawerWalk, guard
    <2>2. CASE p = q
        <3>1. /\ pass[p] = "walk" /\ Upcoming(p, d) /\ ~HeldInPass(p, d)
              /\ pass'[p] = "wait" /\ cur'[p] = d /\ todo'[p] = todo[p] \ {d}
              /\ UNCHANGED <<still, blocked, at>>
            BY <1>10, <2>2 DEF IInv, TypeOK, Senders, PassDispatch, Send, guard
        <3>2. Dependency(Op[d]) = "drawerBalance" => ~blocked[p]
            BY <3>1 DEF HeldInPass, Holds
        <3>3. ~blocked[p] => still[p] = todo[p]
            BY <1>0, <3>1 DEF DrawerWalk
        <3>4. \A e \in todo[p] : at[e] >= at[d]
            BY <3>1 DEF Upcoming, IInv, TypeOK
        <3> QED
            BY <3>1, <3>2, <3>3, <3>4 DEF DrawerWalk, Upcoming
    <2> QED
        BY <2>1, <2>2
<1>11. ASSUME NEW q \in Passes, PassSuccess(q) \/ PassRefused(q) \/ PassThrow(q) \/ PassTransient(q)
       PROVE  DrawerWalk(p)'
    <2>1. CASE p # q
        BY <1>0, <1>11, <2>1
           DEF IInv, TypeOK, Senders, PassSuccess, PassRefused, PassThrow, PassTransient, Receive,
               DrawerWalk, guard
    <2>2. ASSUME p = q, PassTransient(p) PROVE pass'[p] = "walk" /\ blocked'[p]
        BY <2>2 DEF IInv, TypeOK, PassTransient
    <2>3. ASSUME p = q, PassSuccess(p) \/ PassRefused(p) \/ PassThrow(p)
          PROVE  /\ pass[p] = "wait" /\ pass'[p] = "walk" /\ UNCHANGED <<todo, blocked>>
                 /\ still'[p] = still[p] \ {cur[p]}
        BY <2>3 DEF IInv, TypeOK, PassSuccess, PassRefused, PassThrow
    <2>4. pass[p] = "wait" => cur[p] \notin todo[p]
        BY DEF IInv, PassInv
    <2> QED
        BY <1>0, <1>11, <2>1, <2>2, <2>3, <2>4 DEF DrawerWalk
<1>12. ASSUME NEW q \in Passes, PassBreaks(q) PROVE DrawerWalk(p)'
    <2>1. FinishPass(q) /\ UNCHANGED at /\ \A o \in Passes : o # q => cur'[o] = cur[o]
        BY <1>12 DEF IInv, TypeOK, Senders, PassBreaks, Receive, guard
    <2>2. CASE p = q
        BY <2>1, <2>2 DEF IInv, TypeOK, FinishPass, DrawerWalk
    <2>3. CASE p # q
        BY <1>0, <2>1, <2>3 DEF IInv, TypeOK, FinishPass, DrawerWalk
    <2> QED
        BY <2>2, <2>3
<1> QED
    BY <1>3, <1>4, <1>5, <1>6, <1>7, <1>8, <1>9, <1>10, <1>11, <1>12, WhoWalks DEF Pass

\* A pass sends a document that takes money out of the drawer only when
\* nothing it counts as queued is older.
THEOREM DrawerOrder == Spec => []WithdrawalBehindEarlier
<1>1. Init => DrawerInv
    BY DEF Init, DrawerInv, WithdrawalBehindEarlier
<1>2. IInv /\ DrawerInv /\ [Next]_vars => DrawerInv'
    <2> SUFFICES ASSUME IInv, DrawerInv, [Next]_vars PROVE DrawerInv'
        OBVIOUS
    <2>1. \A d \in Docs : (Basis[d] # NoDoc /\ live'[d] # "new") =>
             live'[Basis[d]] # "new" /\ at'[Basis[d]] < at'[d]
        BY RefundYounger
    <2>2. \A p \in Passes : DrawerWalk(p)'
        BY StepDrawerWalk
    <2> QED
        BY <2>1, <2>2 DEF DrawerInv, DrawerWalk, WithdrawalBehindEarlier
<1>3. DrawerInv => WithdrawalBehindEarlier
    BY DEF DrawerInv
<1> QED
    BY <1>1, <1>2, <1>3, Invariance, PTL DEF Spec

----------------------------------------------------------------------------
(* The fiscal queue implements FiscalLedger.                               *)

\* A request the operator may still serve belongs to a document that exists.
LateInv == \A d \in late : live[d] # "new"

\* What a sender waits for is a document that exists.
LEMMA SentIsTaken ==
    ASSUME IInv, NEW s \in Senders, wire[s] # "idle"
    PROVE  cur[s] \in Docs /\ live[cur[s]] # "new"
<1>1. CASE s \in Docs
    BY <1>1 DEF IInv, LiveInv
<1>2. CASE s \in Passes
    BY <1>2 DEF IInv, TypeOK, PassInv, LiveInv
<1>3. CASE s \in Retries
    BY <1>3 DEF IInv, ClerkInv
<1> QED
    BY <1>1, <1>2, <1>3 DEF Senders

\* Only a sender that stops waiting, or a restart, leaves a request behind.
LEMMA WhoLeavesLate ==
    ASSUME IInv, [Next]_vars, NEW d \in late', d \notin late
    PROVE  \E s \in Senders : wire[s] # "idle" /\ d = cur[s]
<1>1. ASSUME NEW s \in Senders, Receive(s) PROVE \E t \in Senders : wire[t] # "idle" /\ d = cur[t]
    BY <1>1 DEF Receive
<1>2. ASSUME NEW e \in Docs, Guard(e) PROVE (\E s \in Senders : Receive(s)) \/ UNCHANGED late
    BY <1>2 DEF Guard, GuardSend, GuardHold, GuardUnbuilt, GuardSuccess, GuardTransient,
                GuardRefused, Enqueue, EnqueueFails, operator, Senders
<1>3. ASSUME NEW c \in Runners, Scheduler(c) PROVE UNCHANGED late
    BY <1>3 DEF Scheduler, RunOnceCount, RunOnceShift, RunOnceReplay, operator
<1>4. ASSUME NEW p \in Passes,
             PassSuccess(p) \/ PassRefused(p) \/ PassThrow(p) \/ PassTransient(p) \/ PassBreaks(p)
      PROVE  \E s \in Senders : Receive(s)
    BY <1>4 DEF PassSuccess, PassRefused, PassThrow, PassTransient, PassBreaks, Senders
<1>5. ASSUME NEW p \in Passes,
             \/ PassUnreachable(p) \/ PassSnapshot(p) \/ PassEnd(p)
             \/ \E e \in Docs : PassExpire(p, e) \/ PassHold(p, e) \/ PassCut(p, e) \/ PassDispatch(p, e)
      PROVE  UNCHANGED late
    BY <1>5 DEF PassUnreachable, PassSnapshot, PassEnd, PassExpire, PassHold, PassCut,
                PassDispatch, operator
<1>6. ASSUME NEW r \in Retries, Clerk(r) PROVE (\E s \in Senders : Receive(s)) \/ UNCHANGED late
    BY <1>6 DEF Clerk, RetryFailed, RetrySuccess, RetryNot, RetryBreaks, operator, Senders
<1>7. ASSUME \/ \E e \in Docs, copies \in SUBSET Retries : WriteOff(e, copies)
             \/ \E s \in Senders : OperatorServes(s)
             \/ Tick \/ ToggleShift \/ UNCHANGED vars
      PROVE  UNCHANGED late
    BY <1>7 DEF WriteOff, OperatorServes, Tick, ToggleShift, vars, operator
<1>8. ASSUME NEW e \in Docs, OperatorServesLate(e) PROVE FALSE
    BY <1>8 DEF OperatorServesLate
<1>9. CASE Restart
    BY <1>9 DEF Restart
<1> QED
    BY <1>1, <1>2, <1>3, <1>4, <1>5, <1>6, <1>7, <1>8, <1>9 DEF Next, Pass

\* Every step keeps LateInv.
LEMMA StepLateInv == IInv /\ LateInv /\ [Next]_vars => LateInv'
<1> SUFFICES ASSUME IInv, LateInv, [Next]_vars, NEW d \in late' PROVE live'[d] # "new"
    BY DEF LateInv
<1>1. d \in Docs /\ live[d] # "new"
    BY WhoLeavesLate, SentIsTaken DEF LateInv, IInv, TypeOK
<1> QED
    BY <1>1, TimesFixed

\* The books the refinement maps to.
books == [d \in Docs |-> Book(d)]

\* A step that touches one document moves one entry of the books.
LEMMA OneBookMoves ==
    ASSUME NEW d \in Docs, \A e \in Docs : e # d => live'[e] = live[e] /\ row'[e] = row[e]
    PROVE  books' = [books EXCEPT ![d] = Book(d)']
<1>1. \A e \in Docs : e # d => Book(e)' = Book(e)
    BY DEF Book
<1> QED
    BY <1>1 DEF books

\* A step that touches no row and no guard leaves the books alone.
LEMMA BooksStay ==
    ASSUME \A e \in Docs : live'[e] = live[e] /\ row'[e] = row[e]
    PROVE  books' = books
<1>1. \A e \in Docs : Book(e)' = Book(e)
    BY DEF Book
<1> QED
    BY <1>1 DEF books

\* One document changes its place in the books: which abstract step that is.
LEMMA LedgerMoves ==
    ASSUME NEW d \in Docs, UNCHANGED registered,
           \A e \in Docs : e # d => live'[e] = live[e] /\ row'[e] = row[e],
           \/ Book(d)' = Book(d)
           \/ Book(d) = "none" /\ Book(d)' = "owed"
           \/ Book(d) = "owed" /\ Book(d)' \in {"queued", "dropped"}
           \/ Book(d) \in {"owed", "queued"} /\ Book(d)' = "human"
           \/ Book(d) \in {"owed", "queued", "human"} /\ Book(d)' = "settled" /\ d \in registered
    PROVE  [Ledger!Next]_<<books, registered>>
<1>1. books' = [books EXCEPT ![d] = Book(d)'] /\ books[d] = Book(d)
    BY OneBookMoves DEF books
<1>2. CASE Book(d)' = Book(d)
    <2>1. books' = books
        BY <1>1, <1>2 DEF books
    <2> QED
        BY <2>1
<1>3. CASE Book(d) = "none" /\ Book(d)' = "owed"
    BY <1>1, <1>3 DEF Ledger!Next, Ledger!Take, Ledger!Move, books
<1>4. CASE Book(d) = "owed" /\ Book(d)' = "queued"
    BY <1>1, <1>4 DEF Ledger!Next, Ledger!Queue, Ledger!Move, books
<1>5. CASE Book(d) = "owed" /\ Book(d)' = "dropped"
    <2>1. books' = [e \in Docs |-> IF e \in {d} THEN "dropped" ELSE books[e]]
        BY <1>1, <1>5 DEF books
    <2>2. Ledger!Drop({d})
        BY <1>1, <1>5, <2>1 DEF Ledger!Drop, books
    <2> QED
        BY <2>2 DEF Ledger!Next
<1>6. CASE Book(d) \in {"owed", "queued"} /\ Book(d)' = "human"
    BY <1>1, <1>6 DEF Ledger!Next, Ledger!HandToHuman, Ledger!Move, books
<1>7. CASE Book(d) \in {"owed", "queued", "human"} /\ Book(d)' = "settled" /\ d \in registered
    BY <1>1, <1>7 DEF Ledger!Next, Ledger!Settle, Ledger!Move, books
<1> QED
    BY <1>2, <1>3, <1>4, <1>5, <1>6, <1>7

\* The operator registers a document the till has taken.
LEMMA LedgerRegisters ==
    ASSUME NEW d \in Docs, live[d] # "new", registered' = registered \cup {d},
           UNCHANGED <<live, row>>
    PROVE  [Ledger!Next]_<<books, registered>>
<1>1. books' = books
    BY BooksStay
<1>2. Book(d) # "none"
    BY DEF Book, BookOf
<1> QED
    BY <1>1, <1>2 DEF Ledger!Next, Ledger!Register, books

\* What the guard does to the books.
LEMMA GuardLedger ==
    ASSUME IInv, NEW d \in Docs, Guard(d)
    PROVE  [Ledger!Next]_<<books, registered>>
<1>1. UNCHANGED registered
    BY DEF Guard, GuardSend, GuardHold, GuardUnbuilt, GuardSuccess, GuardTransient, GuardRefused,
           Enqueue, EnqueueFails, operator
<1>2. CASE GuardSend(d) \/ GuardHold(d) \/ GuardUnbuilt(d)
    <2>1. /\ live[d] = "new" /\ live'[d] \in {"wire", "toQueue", "toBare"}
          /\ \A e \in Docs : e # d => live'[e] = live[e] /\ row'[e] = row[e]
        BY <1>2 DEF IInv, TypeOK, GuardSend, GuardHold, GuardUnbuilt, Compose, disk
    <2> QED
        BY <1>1, <2>1, LedgerMoves DEF Book, BookOf
<1>3. CASE GuardSuccess(d)
    <2>1. /\ live[d] = "wire" /\ live'[d] = "answered" /\ row'[d] = "absent" /\ d \in registered
          /\ \A e \in Docs : e # d => live'[e] = live[e] /\ row'[e] = row[e]
        BY <1>3 DEF IInv, TypeOK, Senders, LiveInv, OperatorInv, GuardSuccess
    <2> QED
        BY <1>1, <2>1, LedgerMoves DEF Book, BookOf
<1>4. CASE GuardTransient(d) \/ GuardRefused(d) \/ EnqueueFails(d)
    <2>1. /\ live[d] \in {"wire", "toQueue", "toFailed", "toBare"}
          /\ live'[d] \in {"toQueue", "toFailed", "refused"}
          /\ \A e \in Docs : e # d => live'[e] = live[e] /\ row'[e] = row[e]
        BY <1>4 DEF IInv, TypeOK, GuardTransient, GuardRefused, EnqueueFails, disk
    <2> QED
        BY <1>1, <2>1, LedgerMoves DEF Book, BookOf
<1>5. CASE Enqueue(d)
    <2>1. /\ live[d] \in {"toQueue", "toFailed", "toBare"} /\ live'[d] = "answered"
          /\ \A e \in Docs : e # d => live'[e] = live[e] /\ row'[e] = row[e]
        BY <1>5 DEF IInv, TypeOK, Enqueue, Enqueued
    <2>2. row'[d] \in {"pending", "failed", "bare"}
        BY <1>5 DEF IInv, TypeOK, LiveInv, Enqueue, Enqueued
    <2>3. Book(d) = "owed" /\ Book(d)' \in {"queued", "human"}
        BY <2>1, <2>2 DEF Book, BookOf
    <2> QED
        BY <1>1, <2>1, <2>3, LedgerMoves
<1> QED
    BY <1>2, <1>3, <1>4, <1>5 DEF Guard

\* What a pass that writes a row does to the books.
LEMMA PassLedger ==
    ASSUME IInv, NEW p \in Passes,
           \/ \E d \in Docs : PassExpire(p, d)
           \/ PassSuccess(p) \/ PassRefused(p) \/ PassThrow(p) \/ PassTransient(p)
    PROVE  [Ledger!Next]_<<books, registered>>
<1>1. UNCHANGED <<registered, live>>
    BY DEF PassExpire, PassSuccess, PassRefused, PassThrow, PassTransient, operator, guard
<1>2. \A d \in still[p] : d \in Docs /\ row[d] = "pending" /\ Book(d) = "queued"
    BY DEF IInv, TypeOK, PassInv, LiveInv, Book, BookOf
<1>3. ASSUME NEW d \in Docs, PassExpire(p, d) PROVE [Ledger!Next]_<<books, registered>>
    <2>1. /\ d \in still[p] /\ row'[d] = "failed"
          /\ \A e \in Docs : e # d => row'[e] = row[e]
        BY <1>2, <1>3 DEF IInv, TypeOK, PassInv, PassExpire, Upcoming, Updated
    <2>2. Book(d)' = "human"
        BY <1>1, <1>2, <2>1 DEF IInv, LiveInv, Book, BookOf
    <2> QED
        BY <1>1, <1>2, <2>1, <2>2, LedgerMoves
<1>4. CASE PassSuccess(p)
    <2> PICK d \in still[p] : d = cur[p]
        BY <1>4 DEF IInv, PassInv, PassSuccess
    <2>1. /\ row'[d] = "absent" /\ d \in registered
          /\ \A e \in Docs : e # d => row'[e] = row[e]
        BY <1>2, <1>4 DEF IInv, TypeOK, Senders, PassInv, OperatorInv, PassSuccess, Removed
    <2>2. Book(d)' = "settled"
        BY <1>1, <1>2, <2>1 DEF IInv, LiveInv, Book, BookOf
    <2> QED
        BY <1>1, <1>2, <2>1, <2>2, LedgerMoves
<1>5. CASE PassRefused(p) \/ PassThrow(p) \/ PassTransient(p)
    <2> PICK d \in still[p] : d = cur[p]
        BY <1>5 DEF IInv, PassInv, PassRefused, PassThrow, PassTransient
    <2>1. /\ row'[d] \in {"failed", "pending"}
          /\ \A e \in Docs : e # d => row'[e] = row[e]
        BY <1>2, <1>5
           DEF IInv, TypeOK, PassInv, PassRefused, PassThrow, PassTransient, Updated
    <2>2. Book(d)' \in {"human", "queued"}
        BY <1>1, <1>2, <2>1 DEF IInv, LiveInv, Book, BookOf
    <2> QED
        BY <1>1, <1>2, <2>1, <2>2, LedgerMoves
<1> QED
    BY <1>3, <1>4, <1>5

\* What the clerk does to the books.
LEMMA ClerkLedger ==
    ASSUME IInv,
           \/ \E r \in Retries : RetrySuccess(r) \/ RetryNot(r)
           \/ \E d \in Docs, copies \in SUBSET Retries : WriteOff(d, copies)
    PROVE  [Ledger!Next]_<<books, registered>>
<1>1. UNCHANGED <<registered, live>>
    BY DEF RetrySuccess, RetryNot, WriteOff, operator, guard
<1>2. ASSUME NEW r \in Retries, RetrySuccess(r) PROVE [Ledger!Next]_<<books, registered>>
    <2> PICK d \in Docs : d = cur[r]
        BY <1>2 DEF IInv, ClerkInv, RetrySuccess
    <2>1. /\ live[d] = "answered" /\ row[d] \in Rows \ {"pending"}
          /\ d \in registered /\ row'[d] = "absent"
          /\ \A e \in Docs : e # d => row'[e] = row[e]
        BY <1>2 DEF IInv, TypeOK, Senders, ClerkInv, OperatorInv, RetrySuccess, Removed
    <2>2. Book(d) \in {"settled", "human"} /\ Book(d)' = "settled"
        BY <1>1, <2>1 DEF Book, BookOf, Rows
    <2> QED
        BY <1>1, <2>1, <2>2, LedgerMoves
<1>3. ASSUME NEW r \in Retries, RetryNot(r) PROVE [Ledger!Next]_<<books, registered>>
    <2> PICK d \in Docs : d = cur[r]
        BY <1>3 DEF IInv, ClerkInv, RetryNot
    <2>1. /\ live[d] = "answered" /\ row[d] \in Rows \ {"pending"}
          /\ IF row[d] = "absent" THEN row'[d] = "absent"
                                       ELSE row'[d] \in {"writtenOff", "failed"}
          /\ \A e \in Docs : e # d => row'[e] = row[e]
        BY <1>3 DEF IInv, TypeOK, ClerkInv, RetryNot, Updated
    <2>2. Book(d)' = Book(d)
        BY <1>1, <2>1 DEF Book, BookOf, Rows
    <2> QED
        BY <1>1, <2>1, <2>2, LedgerMoves
<1>4. ASSUME NEW d \in Docs, NEW copies \in SUBSET Retries, WriteOff(d, copies)
      PROVE  [Ledger!Next]_<<books, registered>>
    <2>1. /\ row[d] \in {"failed", "bare"} /\ row'[d] = "writtenOff"
          /\ \A e \in Docs : e # d => row'[e] = row[e]
        BY <1>4 DEF IInv, TypeOK, WriteOff, Updated
    <2>2. Book(d)' = Book(d)
        BY <1>1, <2>1 DEF IInv, LiveInv, Book, BookOf
    <2> QED
        BY <1>1, <2>1, <2>2, LedgerMoves
<1> QED
    BY <1>2, <1>3, <1>4

\* The operator's steps, and a restart.
LEMMA WorldLedger ==
    ASSUME IInv, LateInv,
           \/ \E s \in Senders : OperatorServes(s)
           \/ \E d \in Docs : OperatorServesLate(d)
           \/ Restart
    PROVE  [Ledger!Next]_<<books, registered>>
<1>1. ASSUME NEW s \in Senders, OperatorServes(s) PROVE [Ledger!Next]_<<books, registered>>
    <2>1. UNCHANGED <<live, row>> /\ (UNCHANGED registered \/ registered' = registered \cup {cur[s]})
        BY <1>1 DEF OperatorServes, disk, guard
    <2>2. cur[s] \in Docs /\ live[cur[s]] # "new"
        BY <1>1, SentIsTaken DEF OperatorServes
    <2> QED
        BY <2>1, <2>2, LedgerRegisters, BooksStay
<1>2. ASSUME NEW d \in Docs, OperatorServesLate(d) PROVE [Ledger!Next]_<<books, registered>>
    <2>1. UNCHANGED <<live, row>> /\ (UNCHANGED registered \/ registered' = registered \cup {d})
        BY <1>2 DEF OperatorServesLate, disk, guard
    <2>2. live[d] # "new"
        BY <1>2 DEF OperatorServesLate, LateInv
    <2> QED
        BY <2>1, <2>2, LedgerRegisters, BooksStay
<1>3. CASE Restart
    <2> DEFINE S == {d \in Docs : live[d] \in {"wire", "toQueue", "toFailed", "toBare"}}
    <2>1. UNCHANGED <<row, registered>>
          /\ \A d \in Docs : live'[d] = IF live[d] \in {"new", "answered", "refused"}
                                        THEN live[d] ELSE "lost"
        BY <1>3 DEF Restart, disk
    <2>2. \A d \in Docs : Book(d)' = IF d \in S THEN "dropped" ELSE Book(d)
        BY <2>1 DEF IInv, TypeOK, LiveStates, Book, BookOf
    <2>3. \A d \in S : books[d] = "owed"
        BY DEF books, Book, BookOf
    <2>4. books' = [d \in Docs |-> IF d \in S THEN "dropped" ELSE books[d]]
        BY <2>2 DEF books
    <2>5. Ledger!Drop(S)
        BY <2>1, <2>3, <2>4 DEF Ledger!Drop, books
    <2> QED
        BY <2>5 DEF Ledger!Next
<1> QED
    BY <1>1, <1>2, <1>3

\* Every step of the queue is a step of the ledger, or leaves it alone.
LEMMA StepLedger ==
    ASSUME IInv, LateInv, [Next]_vars
    PROVE  [Ledger!Next]_<<books, registered>>
<1>1. CASE UNCHANGED <<live, row, registered>>
    BY <1>1, BooksStay
<1>2. ASSUME NEW c \in Runners, Scheduler(c) PROVE UNCHANGED <<live, row, registered>>
    BY <1>2 DEF Scheduler, RunOnceCount, RunOnceShift, RunOnceReplay, disk, guard, operator
<1>3. ASSUME NEW p \in Passes,
             \/ PassUnreachable(p) \/ PassSnapshot(p) \/ PassEnd(p) \/ PassBreaks(p)
             \/ \E d \in Docs : PassHold(p, d) \/ PassCut(p, d) \/ PassDispatch(p, d)
      PROVE  UNCHANGED <<live, row, registered>>
    BY <1>3 DEF PassUnreachable, PassSnapshot, PassEnd, PassBreaks, PassHold, PassCut, PassDispatch,
                disk, guard, operator
<1>4. ASSUME NEW r \in Retries, RetryBreaks(r) \/ \E d \in Docs : RetryFailed(r, d)
      PROVE  UNCHANGED <<live, row, registered>>
    BY <1>4 DEF RetryFailed, RetryBreaks, disk, guard, operator
<1>5. ASSUME Tick \/ ToggleShift \/ UNCHANGED vars PROVE UNCHANGED <<live, row, registered>>
    BY <1>5 DEF Tick, ToggleShift, vars, disk, guard, operator
<1> QED
    BY <1>1, <1>2, <1>3, <1>4, <1>5, GuardLedger, PassLedger, ClerkLedger, WorldLedger
       DEF Next, Pass, Clerk

\* The queue implements the ledger: every step of passes, retries, lost
\* answers and restarts moves one document's books the way the ledger allows.
THEOREM QueueImplementsLedger == Spec => LedgerSpec
<1>1. Init => LateInv
    BY DEF Init, LateInv
<1>2. Init => Ledger!Init
    BY DEF Init, Ledger!Init, Book, BookOf
<1>3. IInv /\ LateInv /\ [Next]_vars => [Ledger!Next]_<<books, registered>>
    BY StepLedger
<1> QED
    BY <1>1, <1>2, <1>3, StepLateInv, Invariance, PTL DEF Spec, LedgerSpec, Ledger!Spec, books
=============================================================================
