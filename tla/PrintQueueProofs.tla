-------------------------- MODULE PrintQueueProofs --------------------------
(* Proofs about PrintQueue for any set of jobs, passes and calls and any    *)
(* limits.  The argument is the gate: _running names the one pass that is   *)
(* under way, so what the pass found in memory when it picked a job is      *)
(* still there when it sends, while rows may change under it at every await.*)
EXTENDS PrintQueue, TLAPS, FiniteSetTheorems, WellFoundedInduction

\* Where a pass is busy with one job.
Printing == {"run", "send", "ok", "bad"}

\* A pass under way is the one _running names.  The job it prints has an
\* attempt left until it is sent, and at least one made afterwards; when the
\* printer has said yes its receipt is out.
PumpOk(p) ==
    /\ pc[p] # "off" => running = p
    /\ pc[p] \in Printing => job[p] \in Jobs
    /\ pc[p] = "run" => made[job[p]] < MaxAttempts
    /\ pc[p] \in Printing \ {"run"} => nth[p] >= 1
    /\ pc[p] = "ok" => job[p] \in paper

PumpsOk == \A p \in Pumps : PumpOk(p)
CallsOk == \A c \in Calls : call[c] # "idle" => arg[c] \in Jobs

\* What is on record as printed, in the row or apart from it, is on paper.
PapersOk == \A j \in Jobs : row[j] = "printed" \/ Confirmed(j) => j \in paper

IInv == TypeOK /\ PumpsOk /\ CallsOk /\ PapersOk /\ ConfirmedTellsTruth /\ WakeArmed

\* Powers of two are natural numbers: 2^n is the number of subsets of 1..n.
LEMMA PowerOfTwo ==
    ASSUME NEW n \in Nat
    PROVE  2 ^ n \in Nat
<1>1. IsFiniteSet(1..n) /\ Cardinality(1..n) = n
    BY FS_Interval
<1>2. IsFiniteSet(SUBSET (1..n)) /\ Cardinality(SUBSET (1..n)) = 2 ^ n
    BY <1>1, FS_SUBSET
<1> QED BY <1>2, FS_CardinalityType

\* A backoff is never longer than the longest.
LEMMA BackoffBounded ==
    ASSUME NEW n \in Nat, n >= 1
    PROVE  BackoffAfter(n) \in 0..MaxBackoff
<1>1. 2 ^ (n - 1) \in Nat
    BY PowerOfTwo
<1>2. \A d \in Nat : FirstBackoff * d \in Nat
    BY TimesAssumption
<1>3. FirstBackoff * 2 ^ (n - 1) \in Nat
    BY <1>1, <1>2
<1> QED BY <1>3, TimesAssumption DEF BackoffAfter

\* The order of the natural numbers, as a set of pairs.
Less == {pair \in Nat \X Nat : pair[1] < pair[2]}

\* A set of moments has an earliest one, and Earliest is it.
LEMMA EarliestIsLeast ==
    ASSUME NEW S \in SUBSET Nat, S # {}
    PROVE  Earliest(S) \in S /\ \A u \in S : Earliest(S) <= u
<1>1. IsWellFoundedOn(Less, Nat)
    BY NatLessThanWellFounded, Zenon DEF OpToRel, Less
<1>2. PICK t \in S : \A u \in S : ~ (<<u, t>> \in Less)
    BY <1>1, WFMin, Zenon
<1>3. \A u \in S : t <= u
    <2>1. TAKE u \in S
    <2>2. u \in Nat /\ t \in Nat /\ <<u, t>> \notin Less
        BY <1>2
    <2> QED BY <2>2 DEF Less
<1> QED BY <1>3, Zenon DEF Earliest

\* What put does: one row, and what is remembered of it.
LEMMA PutFacts ==
    ASSUME TypeOK, NEW j \in Jobs, NEW s \in States, NEW until \in Times,
           Put(j, s, until)
    PROVE  /\ row' \in [Jobs -> States \cup {"none"}]
           /\ expiry' \in [Jobs -> Times] /\ updated' \in [Jobs -> Times]
           /\ confirmed' \in [Jobs -> Times \cup {None}]
           /\ given' \in [Jobs -> Times \cup {None}]
           /\ \A k \in Jobs : row'[k] = IF k = j THEN s ELSE row[k]
           /\ \A k \in Jobs : expiry'[k] = IF k = j THEN until ELSE expiry[k]
           /\ \A k \in Jobs : confirmed'[k] = IF k = j /\ s = "printed" /\ ~Confirmed(j)
                                              THEN now ELSE confirmed[k]
           /\ \A k \in Jobs : given'[k] = IF k = j /\ s = "printed" /\ given[j] = None
                                          THEN now ELSE given[k]
<1>1. now \in Times
    BY TimesAssumption DEF TypeOK, Times
<1> QED BY <1>1 DEF TypeOK, Put

\* A row that is put keeps the record true: nothing but printed over what is
\* confirmed, and printed only of what is on paper.
LEMMA PutKeepsRecord ==
    ASSUME TypeOK, PapersOk, ConfirmedTellsTruth, NEW j \in Jobs, NEW s \in States,
           NEW until \in Times, Put(j, s, until), paper \subseteq paper',
           s # "printed" => ~Confirmed(j), s = "printed" => j \in paper
    PROVE  PapersOk' /\ ConfirmedTellsTruth'
<1>1. /\ \A k \in Jobs : row'[k] = IF k = j THEN s ELSE row[k]
      /\ \A k \in Jobs : confirmed'[k] = IF k = j /\ s = "printed" /\ ~Confirmed(j)
                                         THEN now ELSE confirmed[k]
    BY PutFacts
<1>2. \A k \in Jobs : Confirmed(k)' <=> confirmed'[k] # None
    BY DEF Confirmed
<1>3. now # None
    BY DEF TypeOK, None
<1>4. PapersOk'
    BY <1>1, <1>2 DEF PapersOk, Confirmed
<1>5. ConfirmedTellsTruth'
    BY <1>1, <1>2, <1>3 DEF ConfirmedTellsTruth, Confirmed
<1> QED BY <1>4, <1>5

\* What a kick does: a pass is under way afterwards, and it is the only one.
LEMMA KickFacts ==
    ASSUME TypeOK, PumpsOk, Kick
    PROVE  /\ running' \in Pumps /\ wanted' \in BOOLEAN
           /\ pc' \in [Pumps -> {"off", "look", "sift", "run", "send", "ok", "bad", "tidy", "wake"}]
           /\ \A p \in Pumps : pc'[p] # "off" => running' = p
           /\ \A p \in Pumps : pc'[p] # pc[p] => pc'[p] = "look"
<1>1. CASE running = NoPump /\ wanted' = FALSE /\ \E p \in Pumps : Begin(p) /\ running' = p
    BY <1>1, NamesAssumption DEF TypeOK, PumpsOk, PumpOk, Begin
<1>2. CASE running # NoPump /\ wanted' = TRUE /\ UNCHANGED <<pc, running>>
    BY <1>2, NamesAssumption DEF TypeOK, PumpsOk, PumpOk
<1> QED BY <1>1, <1>2 DEF Kick

\* A kick that leaves jobs, attempts and paper alone keeps every pass right.
LEMMA KickKeepsPumps ==
    ASSUME TypeOK, PumpsOk, Kick, UNCHANGED <<job, made, nth, paper>>
    PROVE  PumpsOk'
<1>1. /\ \A p \in Pumps : pc'[p] # "off" => running' = p
      /\ \A p \in Pumps : pc'[p] # pc[p] => pc'[p] = "look"
    BY KickFacts
<1> QED BY <1>1 DEF PumpsOk, PumpOk, Printing

\* While a pass is under way nobody needs an alarm.
LEMMA UnderWayNeedsNoAlarm ==
    ASSUME running' \in Pumps
    PROVE  WakeArmed'
BY NamesAssumption DEF WakeArmed

PassSteps == {"off", "look", "sift", "run", "send", "ok", "bad", "tidy", "wake"}

\* The pass under way moves on: the others are off, and stay off.
LEMMA OnePassMoves ==
    ASSUME TypeOK, PumpsOk, NEW p \in Pumps, NEW s \in PassSteps, pc[p] # "off",
           Step(p, s), running' = running, PumpOk(p)'
    PROVE  PumpsOk' /\ pc' \in [Pumps -> PassSteps] /\ WakeArmed'
<1>1. running = p
    BY DEF PumpsOk, PumpOk
<1>2. \A q \in Pumps : q # p => pc'[q] = "off"
    BY <1>1 DEF PumpsOk, PumpOk, Step, TypeOK
<1>3. \A q \in Pumps : PumpOk(q)'
    BY <1>2 DEF PumpOk, Printing
<1>4. WakeArmed'
    BY <1>1, UnderWayNeedsNoAlarm
<1>5. pc' \in [Pumps -> PassSteps]
    BY DEF TypeOK, Step, PassSteps
<1> QED BY <1>3, <1>4, <1>5 DEF PumpsOk

\* A job that is forgotten has all its attempts again.
LEMMA ForgetFacts ==
    ASSUME TypeOK, NEW j \in Jobs, Forget(j)
    PROVE  /\ tried' \subseteq Jobs /\ made' \in [Jobs -> 0..MaxAttempts]
           /\ notBefore' \in [Jobs -> Times]
           /\ \A k \in Jobs : made'[k] <= made[k]
<1>1. 0 \in Times /\ 0 \in 0..MaxAttempts
    BY TimesAssumption DEF Times
<1>2. \A k \in Jobs : made'[k] = (IF k = j THEN 0 ELSE made[k]) /\ made[k] \in 0..MaxAttempts
    BY DEF TypeOK, Forget
<1>3. \A k \in Jobs : made'[k] <= made[k]
    BY <1>2, TimesAssumption
<1>4. tried' \subseteq Jobs /\ made' \in [Jobs -> 0..MaxAttempts]
    BY <1>1 DEF TypeOK, Forget
<1>5. notBefore' \in [Jobs -> Times]
    BY <1>1 DEF TypeOK, Forget
<1> QED BY <1>3, <1>4, <1>5

\* Rows, record and paper that stay as they are keep what is true of them.
LEMMA SameRecord ==
    ASSUME PapersOk, ConfirmedTellsTruth, UNCHANGED <<row, confirmed>>, paper \subseteq paper'
    PROVE  PapersOk' /\ ConfirmedTellsTruth'
BY DEF PapersOk, ConfirmedTellsTruth, Confirmed

-----------------------------------------------------------------------------
(* start and the calls.                                                    *)

LEMMA InitHolds == Init => IInv
<1> SUFFICES ASSUME Init PROVE IInv
    OBVIOUS
<1>1. /\ 0 \in Times /\ 0 \in 0..MaxAttempts /\ 0 \in 0..MaxTime
      /\ 0 \in 0..MaxCrashes /\ 0 \in 0..MaxFailures
    BY TimesAssumption DEF Times
<1>2. TypeOK
    BY <1>1 DEF Init, TypeOK
<1>3. PumpsOk /\ CallsOk
    BY DEF Init, PumpsOk, PumpOk, CallsOk, Printing
<1>4. PapersOk /\ ConfirmedTellsTruth /\ WakeArmed
    BY DEF Init, PapersOk, ConfirmedTellsTruth, Confirmed, WakeArmed
<1> QED BY <1>2, <1>3, <1>4 DEF IInv

LEMMA RecoverKeeps ==
    ASSUME IInv, NEW j \in Jobs, Recover(j)
    PROVE  IInv'
<1>1. TypeOK /\ "failed" \in States /\ expiry[j] \in Times /\ Put(j, "failed", expiry[j])
    BY DEF IInv, TypeOK, States, Recover
<1>2. ~Confirmed(j)
    BY DEF IInv, ConfirmedTellsTruth, Recover
<1>3. TypeOK'
    BY <1>1, PutFacts DEF TypeOK, Recover, memory, pumpGate, walk, calls
<1>4. PapersOk' /\ ConfirmedTellsTruth'
    BY <1>1, <1>2, PutKeepsRecord DEF IInv, Recover
<1>5. PumpsOk' /\ CallsOk'
    BY DEF IInv, PumpsOk, PumpOk, CallsOk, Recover, memory, pumpGate, walk, calls
<1>6. WakeArmed'
    BY DEF WakeArmed, Recover
<1> QED BY <1>3, <1>4, <1>5, <1>6 DEF IInv

LEMMA StartKeeps ==
    ASSUME IInv, Start
    PROVE  IInv'
<1>1. TypeOK /\ PumpsOk /\ Kick
    BY DEF IInv, Start
<1>2. /\ running' \in Pumps /\ wanted' \in BOOLEAN
      /\ pc' \in [Pumps -> PassSteps]
    BY <1>1, KickFacts DEF PassSteps
<1>3. TypeOK'
    BY <1>1, <1>2 DEF TypeOK, Start, disk, memory, calls, history, PassSteps
<1>4. PumpsOk'
    BY <1>1, KickKeepsPumps DEF Start, memory, history
<1>5. PapersOk' /\ ConfirmedTellsTruth' /\ CallsOk'
    BY SameRecord DEF IInv, Start, disk, history, CallsOk, calls
<1>6. WakeArmed'
    BY <1>2, UnderWayNeedsNoAlarm
<1> QED BY <1>3, <1>4, <1>5, <1>6 DEF IInv

\* A call begins: it is about a job, and asks for nothing yet.
LEMMA EnterKeeps ==
    ASSUME IInv, NEW c \in Calls, NEW j \in Jobs, NEW step \in {"submit", "retry", "cancel"},
           Enter(c, step, j)
    PROVE  IInv'
<1>1. TypeOK'
    BY DEF IInv, TypeOK, Enter, disk, memory, pumpGate, walk, history
<1>2. PumpsOk'
    BY DEF IInv, PumpsOk, PumpOk, Enter, memory, pumpGate, walk, history
<1>3. CallsOk'
    BY DEF IInv, TypeOK, CallsOk, Enter
<1>4. PapersOk' /\ ConfirmedTellsTruth'
    BY SameRecord DEF IInv, Enter, disk, history
<1>5. \A d \in Calls : call[d] \in {"kick", "forgetKick"} => call'[d] = call[d] /\ arg'[d] = arg[d]
    BY DEF IInv, TypeOK, Enter
<1>6. WakeArmed'
    BY <1>5 DEF IInv, WakeArmed, Enter, disk, pumpGate
<1> QED BY <1>1, <1>2, <1>3, <1>4, <1>6 DEF IInv

\* What a call asks for is a state of a row, and never printed.
LEMMA RequestedFacts ==
    ASSUME NEW step \in DOMAIN Requested
    PROVE  /\ step \in {"submit", "retry", "cancel"}
           /\ Requested[step] \in States \ {"printed"}
           /\ Requested[step] \in Waiting => Afterwards[step] \in {"kick", "forgetKick"}
           /\ Afterwards[step] \in {"kick", "forget", "forgetKick"}
BY DEF Requested, Afterwards, States, Waiting

LEMMA CallPutKeeps ==
    ASSUME IInv, NEW c \in Calls, CallPut(c)
    PROVE  IInv'
<1> DEFINE j == arg[c]
           s == Requested[call[c]]
           until == IF call[c] = "cancel" THEN expiry[j] ELSE now + Ttl
<1>1. TypeOK /\ PumpsOk /\ CallsOk /\ PapersOk /\ ConfirmedTellsTruth /\ WakeArmed
    BY DEF IInv
<1>2. /\ call[c] \in {"submit", "retry", "cancel"} /\ s \in States /\ s # "printed"
      /\ s \in Waiting => Afterwards[call[c]] \in {"kick", "forgetKick"}
      /\ Afterwards[call[c]] \in {"kick", "forget", "forgetKick"}
    BY RequestedFacts DEF CallPut
<1>3. j \in Jobs
    BY <1>1, <1>2 DEF CallsOk
<1>4. until \in Times
    BY <1>1, <1>2, <1>3, TimesAssumption DEF CallPut, TypeOK, Times
<1>5. PumpsOk'
    BY <1>1 DEF CallPut, PumpsOk, PumpOk, memory, pumpGate, walk
<1>6. CASE Refused(j, s)
    <2>1. Answer(c) /\ UNCHANGED <<disk, given>>
        BY <1>6 DEF CallPut
    <2>2. TypeOK'
        BY <1>1, <2>1 DEF TypeOK, CallPut, Answer, disk, memory, pumpGate, walk
    <2>3. CallsOk'
        BY <1>1, <2>1 DEF TypeOK, CallsOk, Answer
    <2>4. PapersOk' /\ ConfirmedTellsTruth'
        BY <1>1, <2>1, SameRecord DEF CallPut, disk
    <2>5. \A d \in Calls : call[d] \in {"kick", "forgetKick"} => call'[d] = call[d] /\ arg'[d] = arg[d]
        BY <1>1, <1>2, <2>1 DEF TypeOK, Answer
    <2>6. WakeArmed'
        BY <1>1, <2>1, <2>5 DEF WakeArmed, CallPut, disk, pumpGate
    <2> QED BY <1>5, <2>2, <2>3, <2>4, <2>6 DEF IInv
<1>7. CASE ~Refused(j, s)
    <2>1. Put(j, s, until) /\ Goto(c, Afterwards[call[c]])
        BY <1>7 DEF CallPut
    <2> HIDE DEF until
    <2>2. ~Confirmed(j)
        BY <1>2, <1>7 DEF Refused, Contradicts
    <2>3. /\ row' \in [Jobs -> States \cup {"none"}]
          /\ expiry' \in [Jobs -> Times] /\ updated' \in [Jobs -> Times]
          /\ confirmed' \in [Jobs -> Times \cup {None}]
          /\ given' \in [Jobs -> Times \cup {None}]
          /\ \A k \in Jobs : row'[k] = IF k = j THEN s ELSE row[k]
          /\ \A k \in Jobs : expiry'[k] = IF k = j THEN until ELSE expiry[k]
        BY <1>1, <1>2, <1>3, <1>4, <2>1, PutFacts
    <2>4. /\ call' \in [Calls -> {"idle", "submit", "retry", "cancel", "kick", "forget", "forgetKick"}]
          /\ call'[c] = Afterwards[call[c]] /\ arg' = arg
          /\ \A d \in Calls : d # c => call'[d] = call[d]
        BY <1>1, <1>2, <2>1 DEF TypeOK, Goto
    <2>5. TypeOK'
        BY <1>1, <2>3, <2>4 DEF TypeOK, CallPut, memory, pumpGate, walk
    <2>6. CallsOk'
        BY <1>1, <1>2, <2>4 DEF CallsOk
    <2>7. PapersOk' /\ ConfirmedTellsTruth'
        BY <1>1, <1>2, <1>3, <1>4, <2>1, <2>2, PutKeepsRecord DEF CallPut
    <2>8. ASSUME NEW k \in Jobs, row'[k] \in Waiting, started, running = NoPump
          PROVE  \/ wake # None /\ (wake <= expiry'[k] \/ wake <= now \/ failures > 0)
                 \/ \E d \in Calls : arg'[d] = k /\ call'[d] \in {"kick", "forgetKick"}
        <3>1. CASE k = j
            BY <1>2, <2>3, <2>4, <2>8, <3>1
        <3>2. CASE k # j
            <4>1. row[k] \in Waiting /\ expiry'[k] = expiry[k]
                BY <2>3, <2>8, <3>2
            <4>2. \A d \in Calls : call[d] \in {"kick", "forgetKick"} => call'[d] = call[d]
                BY <1>2, <2>4
            <4> QED BY <1>1, <2>4, <2>8, <4>1, <4>2 DEF WakeArmed
        <3> QED BY <3>1, <3>2
    <2>9. WakeArmed'
        BY <2>8 DEF WakeArmed, CallPut, pumpGate
    <2> QED BY <1>5, <2>5, <2>6, <2>7, <2>9 DEF IInv
<1> QED BY <1>6, <1>7

\* A call's last step: the job has its attempts back, and a pass looks.
LEMMA CallForgetKeeps ==
    ASSUME IInv, NEW c \in Calls, CallForget(c)
    PROVE  IInv'
<1>1. TypeOK /\ PumpsOk /\ CallsOk /\ PapersOk /\ ConfirmedTellsTruth /\ WakeArmed
    BY DEF IInv
<1>2. Answer(c) /\ Forget(arg[c]) /\ call[c] \in {"forget", "forgetKick"}
    BY DEF CallForget
<1>3. /\ call' \in [Calls -> {"idle", "submit", "retry", "cancel", "kick", "forget", "forgetKick"}]
      /\ arg' \in [Calls -> Jobs \cup {NoJob}] /\ call'[c] = "idle"
      /\ \A d \in Calls : d # c => call'[d] = call[d] /\ arg'[d] = arg[d]
    BY <1>1, <1>2 DEF TypeOK, Answer
<1>4. /\ tried' \subseteq Jobs /\ made' \in [Jobs -> 0..MaxAttempts]
      /\ notBefore' \in [Jobs -> Times]
      /\ \A j \in Jobs : made'[j] <= made[j]
    BY <1>1, <1>2, ForgetFacts DEF CallsOk
<1>5. CallsOk'
    BY <1>1, <1>3 DEF CallsOk
<1>6. PapersOk' /\ ConfirmedTellsTruth'
    BY <1>1, SameRecord DEF CallForget, disk, history
<1>7. CASE call[c] = "forget" /\ UNCHANGED <<pumpGate, pc>>
    <2>1. TypeOK'
        BY <1>1, <1>3, <1>4, <1>7 DEF TypeOK, CallForget, disk, history, pumpGate
    <2>2. PumpsOk'
        BY <1>1, <1>4, <1>7, TimesAssumption DEF TypeOK, PumpsOk, PumpOk, Printing, CallForget, history, pumpGate
    <2>3. WakeArmed'
        BY <1>1, <1>3, <1>7 DEF WakeArmed, CallForget, disk, pumpGate
    <2> QED BY <1>5, <1>6, <2>1, <2>2, <2>3 DEF IInv
<1>8. CASE Kick
    <2>1. /\ running' \in Pumps /\ wanted' \in BOOLEAN
          /\ pc' \in [Pumps -> PassSteps]
          /\ \A p \in Pumps : pc'[p] # "off" => running' = p
          /\ \A p \in Pumps : pc'[p] # pc[p] => pc'[p] = "look"
        BY <1>1, <1>8, KickFacts DEF PassSteps
    <2>2. TypeOK'
        BY <1>1, <1>3, <1>4, <2>1 DEF TypeOK, CallForget, disk, history, PassSteps
    <2>3. PumpsOk'
        BY <1>1, <1>4, <2>1, TimesAssumption
           DEF TypeOK, PumpsOk, PumpOk, Printing, CallForget, history
    <2>4. WakeArmed'
        BY <2>1, UnderWayNeedsNoAlarm
    <2> QED BY <1>5, <1>6, <2>2, <2>3, <2>4 DEF IInv
<1> QED BY <1>7, <1>8 DEF CallForget

LEMMA CallKickKeeps ==
    ASSUME IInv, NEW c \in Calls, CallKick(c)
    PROVE  IInv'
<1>1. TypeOK /\ PumpsOk /\ CallsOk /\ Kick /\ Answer(c)
    BY DEF IInv, CallKick
<1>2. running' \in Pumps /\ wanted' \in BOOLEAN /\ pc' \in [Pumps -> PassSteps]
    BY <1>1, KickFacts DEF PassSteps
<1>3. TypeOK'
    BY <1>1, <1>2 DEF TypeOK, CallKick, Answer, disk, memory, history, PassSteps
<1>4. PumpsOk'
    BY <1>1, KickKeepsPumps DEF CallKick, memory, history
<1>5. CallsOk'
    BY <1>1 DEF TypeOK, CallsOk, Answer
<1>6. PapersOk' /\ ConfirmedTellsTruth'
    BY SameRecord DEF IInv, CallKick, disk, history
<1>7. WakeArmed'
    BY <1>2, UnderWayNeedsNoAlarm
<1> QED BY <1>3, <1>4, <1>5, <1>6, <1>7 DEF IInv

LEMMA CallFailsKeeps ==
    ASSUME IInv, NEW c \in Calls, CallFails(c)
    PROVE  IInv'
<1>1. TypeOK /\ PumpsOk /\ CallsOk /\ WakeArmed /\ Answer(c)
    BY DEF IInv, CallFails
<1>2. call[c] \in {"submit", "retry", "cancel"}
    BY RequestedFacts DEF CallFails
<1>3. failures' \in 0..MaxFailures /\ failures' > 0
    BY <1>1, TimesAssumption DEF TypeOK, CallFails
<1>4. TypeOK'
    BY <1>1, <1>3 DEF TypeOK, CallFails, Answer, disk, memory, pumpGate, walk, history
<1>5. PumpsOk'
    BY <1>1 DEF PumpsOk, PumpOk, CallFails, memory, pumpGate, walk, history
<1>6. CallsOk'
    BY <1>1 DEF TypeOK, CallsOk, Answer
<1>7. PapersOk' /\ ConfirmedTellsTruth'
    BY SameRecord DEF IInv, CallFails, disk, history
<1>8. \A d \in Calls : call[d] \in {"kick", "forgetKick"} => call'[d] = call[d] /\ arg'[d] = arg[d]
    BY <1>1, <1>2 DEF TypeOK, Answer
<1>9. WakeArmed'
    BY <1>1, <1>3, <1>8 DEF WakeArmed, CallFails, disk, pumpGate
<1> QED BY <1>4, <1>5, <1>6, <1>7, <1>9 DEF IInv

-----------------------------------------------------------------------------
(* The pass.                                                               *)

LEMMA LookKeeps ==
    ASSUME IInv, NEW p \in Pumps, Look(p)
    PROVE  IInv'
<1>1. TypeOK /\ PumpsOk /\ CallsOk /\ Step(p, "sift") /\ now \in Times
    BY TimesAssumption DEF IInv, Look, TypeOK, Times
<1>2. PumpOk(p)'
    BY <1>1 DEF TypeOK, PumpsOk, PumpOk, Printing, Look, Step, pumpGate
<1>3. PumpsOk' /\ pc' \in [Pumps -> PassSteps] /\ WakeArmed'
    BY <1>1, <1>2, OnePassMoves DEF Look, pumpGate, PassSteps
<1>4. TypeOK'
    BY <1>1, <1>3 DEF TypeOK, Look, PassSteps, disk, memory, pumpGate, calls, history
<1>5. CallsOk'
    BY <1>1 DEF CallsOk, Look, calls
<1>6. PapersOk' /\ ConfirmedTellsTruth'
    BY SameRecord DEF IInv, Look, disk, history
<1> QED BY <1>3, <1>4, <1>5, <1>6 DEF IInv

LEMMA ExpireKeeps ==
    ASSUME IInv, NEW p \in Pumps, NEW j \in Jobs, Expire(p, j)
    PROVE  IInv'
<1>1. TypeOK /\ PumpsOk /\ CallsOk /\ PapersOk /\ ConfirmedTellsTruth
    BY DEF IInv
<1>2. /\ tried' \subseteq Jobs /\ made' \in [Jobs -> 0..MaxAttempts]
      /\ notBefore' \in [Jobs -> Times]
    BY <1>1, ForgetFacts DEF Expire
<1>3. /\ row' \in [Jobs -> States \cup {"none"}]
      /\ expiry' \in [Jobs -> Times] /\ updated' \in [Jobs -> Times]
      /\ confirmed' \in [Jobs -> Times \cup {None}]
      /\ given' \in [Jobs -> Times \cup {None}]
      /\ PapersOk' /\ ConfirmedTellsTruth'
    <2>1. CASE Refused(j, "expired")
        BY <1>1, <2>1, SameRecord DEF Expire, TypeOK, disk
    <2>2. CASE ~Refused(j, "expired")
        <3>1. /\ Put(j, "expired", copy[p][j]) /\ ~Confirmed(j) /\ paper' = paper
              /\ "expired" \in States /\ copy[p][j] \in Times
            BY <1>1, <2>2 DEF Expire, Refused, Contradicts, TypeOK, States
        <3> QED BY <1>1, <3>1, PutFacts, PutKeepsRecord
    <2> QED BY <2>1, <2>2
<1>4. pc[p] # "off" /\ running = p /\ pc' = pc /\ running' = running
    BY <1>1 DEF Expire, PumpsOk, PumpOk, pumpGate
<1>5. PumpsOk'
    <2>1. \A q \in Pumps : pc'[q] \notin Printing
        BY <1>1, <1>4 DEF PumpsOk, PumpOk, Printing, Expire
    <2>2. \A q \in Pumps : pc'[q] # "off" => running' = q
        BY <1>1, <1>4 DEF PumpsOk, PumpOk
    <2> QED BY <2>1, <2>2 DEF PumpsOk, PumpOk, Printing
<1>6. WakeArmed'
    BY <1>4, UnderWayNeedsNoAlarm
<1>7. TypeOK'
    BY <1>1, <1>2, <1>3 DEF TypeOK, Expire, pumpGate, calls
<1>8. CallsOk'
    BY <1>1 DEF CallsOk, Expire, calls
<1> QED BY <1>3, <1>5, <1>6, <1>7, <1>8 DEF IInv

LEMMA PickKeeps ==
    ASSUME IInv, NEW p \in Pumps, NEW j \in Jobs, Pick(p, j)
    PROVE  IInv'
<1>1. TypeOK /\ PumpsOk /\ CallsOk /\ Step(p, "run")
    BY DEF IInv, Pick
<1>2. made[j] < MaxAttempts
    BY DEF Pick, Picked, Eligible
<1>3. PumpOk(p)'
    BY <1>1, <1>2 DEF TypeOK, PumpsOk, PumpOk, Printing, Pick, Step, memory, pumpGate
<1>4. PumpsOk' /\ pc' \in [Pumps -> PassSteps] /\ WakeArmed'
    BY <1>1, <1>3, OnePassMoves DEF Pick, pumpGate, PassSteps
<1>5. TypeOK'
    BY <1>1, <1>4 DEF TypeOK, Pick, PassSteps, disk, memory, pumpGate, calls, history
<1>6. CallsOk'
    BY <1>1 DEF CallsOk, Pick, calls
<1>7. PapersOk' /\ ConfirmedTellsTruth'
    BY SameRecord DEF IInv, Pick, disk, history
<1> QED BY <1>4, <1>5, <1>6, <1>7 DEF IInv

LEMMA PickNothingKeeps ==
    ASSUME IInv, NEW p \in Pumps, PickNothing(p)
    PROVE  IInv'
<1>1. TypeOK /\ PumpsOk /\ CallsOk /\ Step(p, "tidy")
    BY DEF IInv, PickNothing
<1>2. PumpOk(p)'
    BY <1>1 DEF TypeOK, PumpsOk, PumpOk, Printing, PickNothing, Step, pumpGate
<1>3. PumpsOk' /\ pc' \in [Pumps -> PassSteps] /\ WakeArmed'
    BY <1>1, <1>2, OnePassMoves DEF PickNothing, pumpGate, PassSteps
<1>4. TypeOK'
    BY <1>1, <1>3 DEF TypeOK, PickNothing, PassSteps, disk, memory, pumpGate, calls, history
<1>5. CallsOk'
    BY <1>1 DEF CallsOk, PickNothing, calls
<1>6. PapersOk' /\ ConfirmedTellsTruth'
    BY SameRecord DEF IInv, PickNothing, disk, history
<1> QED BY <1>3, <1>4, <1>5, <1>6 DEF IInv

\* A step of a pass that writes its job's row: all that is left to see is
\* what it does to the attempts, and that printed is written of paper only.
LEMMA PassPutKeeps ==
    ASSUME IInv, NEW p \in Pumps, NEW s \in States, NEW step \in PassSteps,
           pc[p] \in Printing, Put(job[p], s, copy[p][job[p]]), Step(p, step),
           s # "printed" => ~Confirmed(job[p]), s = "printed" => job[p] \in paper,
           tried' \subseteq Jobs, made' \in [Jobs -> 0..MaxAttempts],
           notBefore' \in [Jobs -> Times], nth' \in [Pumps -> 0..MaxAttempts],
           step = "look" \/ (step = "send" /\ nth'[p] >= 1),
           UNCHANGED <<started, pumpGate, wake, tidied, clock, seen, copy, job, calls, paper,
                       now, crashes, failures>>
    PROVE  IInv'
<1>1. TypeOK /\ PumpsOk /\ CallsOk /\ PapersOk /\ ConfirmedTellsTruth
    BY DEF IInv
<1>2. job[p] \in Jobs /\ running = p /\ pc[p] # "off"
    BY <1>1 DEF PumpsOk, PumpOk, Printing
<1>3. copy[p][job[p]] \in Times
    BY <1>1, <1>2 DEF TypeOK
<1>4. /\ row' \in [Jobs -> States \cup {"none"}]
      /\ expiry' \in [Jobs -> Times] /\ updated' \in [Jobs -> Times]
      /\ confirmed' \in [Jobs -> Times \cup {None}]
      /\ given' \in [Jobs -> Times \cup {None}]
    BY <1>1, <1>2, <1>3, PutFacts
<1>5. PapersOk' /\ ConfirmedTellsTruth'
    BY <1>1, <1>2, <1>3, PutKeepsRecord
<1>6. pc'[p] = step
    BY <1>1 DEF Step, TypeOK
<1>7. PumpOk(p)'
    BY <1>2, <1>6 DEF PumpOk, Printing, pumpGate
<1>8. PumpsOk' /\ pc' \in [Pumps -> PassSteps] /\ WakeArmed'
    BY <1>1, <1>2, <1>7, OnePassMoves DEF pumpGate
<1>9. TypeOK'
    BY <1>1, <1>4, <1>8 DEF TypeOK, pumpGate, calls, PassSteps
<1>10. CallsOk'
    BY <1>1 DEF CallsOk, calls
<1> QED BY <1>5, <1>8, <1>9, <1>10 DEF IInv

LEMMA RunOneKeeps ==
    ASSUME IInv, NEW p \in Pumps, RunOne(p)
    PROVE  IInv'
<1> DEFINE j == job[p]
<1>1. /\ TypeOK /\ PapersOk /\ pc[p] \in Printing /\ j \in Jobs /\ made[j] < MaxAttempts
      /\ made[j] \in 0..MaxAttempts
    BY DEF IInv, RunOne, PumpsOk, PumpOk, Printing, TypeOK
<1>2. CASE Refused(j, "printing")
    <2>1. Put(j, "printed", copy[p][j]) /\ Forget(j) /\ Step(p, "look") /\ UNCHANGED nth
        BY <1>2 DEF RunOne
    <2>2. /\ tried' \subseteq Jobs /\ made' \in [Jobs -> 0..MaxAttempts]
          /\ notBefore' \in [Jobs -> Times] /\ nth' \in [Pumps -> 0..MaxAttempts]
        BY <1>1, <2>1, ForgetFacts DEF TypeOK
    <2>3. j \in paper /\ "printed" \in States /\ "look" \in PassSteps
        BY <1>1, <1>2 DEF Refused, PapersOk, States, PassSteps
    <2> QED BY <1>1, <2>1, <2>2, <2>3, PassPutKeeps DEF RunOne
<1>3. CASE ~Refused(j, "printing")
    <2>1. /\ Put(j, "printing", copy[p][j]) /\ Step(p, "send")
          /\ tried' = tried \cup {j} /\ made' = [made EXCEPT ![j] = @ + 1]
          /\ nth' = [nth EXCEPT ![p] = made[j] + 1] /\ UNCHANGED notBefore
        BY <1>3 DEF RunOne
    <2>2. made[j] + 1 \in 0..MaxAttempts /\ made[j] + 1 >= 1
        BY <1>1, TimesAssumption
    <2>3. /\ tried' \subseteq Jobs /\ made' \in [Jobs -> 0..MaxAttempts]
          /\ notBefore' \in [Jobs -> Times] /\ nth' \in [Pumps -> 0..MaxAttempts]
          /\ nth'[p] >= 1
        BY <1>1, <2>1, <2>2 DEF TypeOK
    <2>4. ~Confirmed(j) /\ "printing" \in States /\ "send" \in PassSteps
        BY <1>3 DEF Refused, Contradicts, States, PassSteps
    <2> QED BY <1>1, <2>1, <2>3, <2>4, PassPutKeeps DEF RunOne
<1> QED BY <1>2, <1>3

LEMMA TransportOkKeeps ==
    ASSUME IInv, NEW p \in Pumps, TransportOk(p)
    PROVE  IInv'
<1>1. TypeOK /\ PumpsOk /\ CallsOk /\ Step(p, "ok") /\ job[p] \in Jobs
    BY DEF IInv, TransportOk, PumpsOk, PumpOk, Printing
<1>2. PumpOk(p)'
    BY <1>1 DEF TypeOK, PumpsOk, PumpOk, Printing, TransportOk, Step, pumpGate
<1>3. PumpsOk' /\ pc' \in [Pumps -> PassSteps] /\ WakeArmed'
    BY <1>1, <1>2, OnePassMoves DEF TransportOk, pumpGate, PassSteps
<1>4. TypeOK'
    BY <1>1, <1>3 DEF TypeOK, TransportOk, PassSteps, disk, memory, pumpGate, calls
<1>5. CallsOk'
    BY <1>1 DEF CallsOk, TransportOk, calls
<1>6. PapersOk' /\ ConfirmedTellsTruth'
    BY SameRecord DEF IInv, TransportOk, disk
<1> QED BY <1>3, <1>4, <1>5, <1>6 DEF IInv

LEMMA TransportFailsKeeps ==
    ASSUME IInv, NEW p \in Pumps, TransportFails(p)
    PROVE  IInv'
<1>1. TypeOK /\ PumpsOk /\ CallsOk /\ Step(p, "bad") /\ job[p] \in Jobs /\ nth[p] >= 1
    BY DEF IInv, TransportFails, PumpsOk, PumpOk, Printing
<1>2. PumpOk(p)'
    BY <1>1 DEF TypeOK, PumpsOk, PumpOk, Printing, TransportFails, Step, pumpGate
<1>3. PumpsOk' /\ pc' \in [Pumps -> PassSteps] /\ WakeArmed'
    BY <1>1, <1>2, OnePassMoves DEF TransportFails, pumpGate, PassSteps
<1>4. paper \subseteq paper' /\ paper' \subseteq Jobs
    BY <1>1 DEF TypeOK, TransportFails
<1>5. TypeOK'
    BY <1>1, <1>3, <1>4 DEF TypeOK, TransportFails, PassSteps, disk, memory, pumpGate, calls
<1>6. CallsOk'
    BY <1>1 DEF CallsOk, TransportFails, calls
<1>7. PapersOk' /\ ConfirmedTellsTruth'
    BY <1>4, SameRecord DEF IInv, TransportFails, disk
<1> QED BY <1>3, <1>5, <1>6, <1>7 DEF IInv

LEMMA RunOkKeeps ==
    ASSUME IInv, NEW p \in Pumps, RunOk(p)
    PROVE  IInv'
<1>1. TypeOK /\ pc[p] \in Printing /\ job[p] \in paper
    BY DEF IInv, RunOk, PumpsOk, PumpOk, Printing
<1>2. 0 \in Times /\ 0 \in 0..MaxAttempts
    BY TimesAssumption DEF Times
<1>3. /\ tried' \subseteq Jobs /\ made' \in [Jobs -> 0..MaxAttempts]
      /\ notBefore' \in [Jobs -> Times] /\ nth' \in [Pumps -> 0..MaxAttempts]
    BY <1>1, <1>2 DEF TypeOK, RunOk
<1>4. "printed" \in States /\ "look" \in PassSteps
    BY DEF States, PassSteps
<1> QED BY <1>1, <1>3, <1>4, PassPutKeeps DEF RunOk

LEMMA RunBadKeeps ==
    ASSUME IInv, NEW p \in Pumps, RunBad(p)
    PROVE  IInv'
<1> DEFINE j == job[p]
<1>1. /\ TypeOK /\ PapersOk /\ pc[p] \in Printing /\ j \in Jobs
      /\ nth[p] >= 1 /\ nth[p] \in 0..MaxAttempts /\ Step(p, "look")
      /\ "look" \in PassSteps /\ nth' \in [Pumps -> 0..MaxAttempts]
    BY DEF IInv, RunBad, PumpsOk, PumpOk, Printing, TypeOK, PassSteps
<1>2. CASE Refused(j, "failed")
    <2>1. Put(j, "printed", copy[p][j]) /\ Forget(j)
        BY <1>2 DEF RunBad
    <2>2. /\ tried' \subseteq Jobs /\ made' \in [Jobs -> 0..MaxAttempts]
          /\ notBefore' \in [Jobs -> Times]
        BY <1>1, <2>1, ForgetFacts
    <2>3. j \in paper /\ "printed" \in States
        BY <1>1, <1>2 DEF Refused, PapersOk, States
    <2> QED BY <1>1, <2>1, <2>2, <2>3, PassPutKeeps DEF RunBad
<1>3. CASE ~Refused(j, "failed")
    <2>1. /\ Put(j, "failed", copy[p][j]) /\ UNCHANGED <<tried, made>>
          /\ notBefore' = [notBefore EXCEPT ![j] = now + BackoffAfter(nth[p])]
        BY <1>3 DEF RunBad
    <2>2. BackoffAfter(nth[p]) \in 0..MaxBackoff
        BY <1>1, BackoffBounded, TimesAssumption
    <2>3. now + BackoffAfter(nth[p]) \in Times
        BY <1>1, <2>2, TimesAssumption DEF TypeOK, Times
    <2>4. /\ tried' \subseteq Jobs /\ made' \in [Jobs -> 0..MaxAttempts]
          /\ notBefore' \in [Jobs -> Times]
        BY <1>1, <2>1, <2>3 DEF TypeOK
    <2>5. ~Confirmed(j) /\ "failed" \in States
        BY <1>3 DEF Refused, Contradicts, States
    <2> QED BY <1>1, <2>1, <2>4, <2>5, PassPutKeeps DEF RunBad
<1> QED BY <1>2, <1>3

\* Rows and memories only disappear.
LEMMA TidyKeeps ==
    ASSUME IInv, NEW p \in Pumps, Tidy(p)
    PROVE  IInv'
<1>1. TypeOK /\ PumpsOk /\ CallsOk /\ PapersOk /\ ConfirmedTellsTruth /\ Step(p, "wake")
    BY DEF IInv, Tidy
<1>2. PumpOk(p)'
    BY <1>1 DEF TypeOK, PumpsOk, PumpOk, Printing, Tidy, Step, pumpGate
<1>3. PumpsOk' /\ pc' \in [Pumps -> PassSteps] /\ WakeArmed'
    BY <1>1, <1>2, OnePassMoves DEF Tidy, pumpGate, PassSteps
<1>4. /\ row' \in [Jobs -> States \cup {"none"}]
      /\ confirmed' \in [Jobs -> Times \cup {None}] /\ tidied' \in Times \cup {None}
      /\ UNCHANGED <<expiry, updated>>
      /\ \A j \in Jobs : row'[j] \in {row[j], "none"} /\ confirmed'[j] \in {confirmed[j], None}
    <2>1. CASE UNCHANGED <<disk, tidied>>
        BY <1>1, <2>1 DEF TypeOK, disk
    <2>2. CASE ~UNCHANGED <<disk, tidied>>
        <3>1. /\ tidied' = now /\ UNCHANGED <<expiry, updated>>
              /\ row' = [j \in Jobs |-> IF Kept(j) THEN row[j] ELSE "none"]
            BY <2>2 DEF Tidy
        <3>2. PICK X : confirmed' = [j \in Jobs |-> IF Remembered(j) /\ j \notin X
                                                    THEN confirmed[j] ELSE None]
            BY <2>2 DEF Tidy
        <3>3. now \in Times
            BY <1>1, TimesAssumption DEF TypeOK, Times
        <3> QED BY <1>1, <3>1, <3>2, <3>3 DEF TypeOK
    <2> QED BY <2>1, <2>2
<1>5. PapersOk' /\ ConfirmedTellsTruth'
    BY <1>1, <1>4 DEF PapersOk, ConfirmedTellsTruth, Confirmed, Tidy, history
<1>6. TypeOK'
    BY <1>1, <1>3, <1>4 DEF TypeOK, Tidy, PassSteps, memory, pumpGate, calls, history
<1>7. CallsOk'
    BY <1>1 DEF CallsOk, Tidy, calls
<1> QED BY <1>3, <1>5, <1>6, <1>7 DEF IInv

LEMMA LookFailsKeeps ==
    ASSUME IInv, NEW p \in Pumps, LookFails(p)
    PROVE  IInv'
<1>1. TypeOK /\ PumpsOk /\ CallsOk /\ Step(p, "wake") /\ failures' \in 0..MaxFailures
    BY TimesAssumption DEF IInv, LookFails, TypeOK
<1>2. PumpOk(p)'
    BY <1>1 DEF TypeOK, PumpsOk, PumpOk, Printing, LookFails, Step, pumpGate
<1>3. PumpsOk' /\ pc' \in [Pumps -> PassSteps] /\ WakeArmed'
    BY <1>1, <1>2, OnePassMoves DEF LookFails, pumpGate, PassSteps
<1>4. TypeOK'
    BY <1>1, <1>3 DEF TypeOK, LookFails, PassSteps, disk, memory, pumpGate, calls, history
<1>5. CallsOk'
    BY <1>1 DEF CallsOk, LookFails, calls
<1>6. PapersOk' /\ ConfirmedTellsTruth'
    BY SameRecord DEF IInv, LookFails, disk, history
<1> QED BY <1>3, <1>4, <1>5, <1>6 DEF IInv

\* The end of a pass, or its next look: with nobody asking, no pass is left.
LEMMA FinishKeeps ==
    ASSUME TypeOK, PumpsOk, NEW p \in Pumps, pc[p] = "wake", Finish(p)
    PROVE  /\ PumpsOk'
           /\ running' \in Pumps \cup {NoPump} /\ wanted' \in BOOLEAN
           /\ pc' \in [Pumps -> PassSteps] /\ clock' \in [Pumps -> Times]
           /\ seen' \in [Pumps -> SUBSET Jobs] /\ copy' \in [Pumps -> [Jobs -> Times]]
           /\ job' \in [Pumps -> Jobs \cup {NoJob}] /\ nth' \in [Pumps -> 0..MaxAttempts]
<1>1. running = p /\ \A q \in Pumps : q # p => pc[q] = "off"
    BY DEF PumpsOk, PumpOk
<1>2. /\ running' \in Pumps \cup {NoPump} /\ pc' \in [Pumps -> PassSteps]
      /\ pc'[p] \in {"look", "off"}
      /\ pc'[p] = "look" => running' = p
      /\ \A q \in Pumps : q # p => pc'[q] = "off"
    BY <1>1 DEF Finish, Step, TypeOK, PassSteps
<1>3. PumpsOk'
    BY <1>2 DEF PumpsOk, PumpOk, Printing
<1>4. 0 \in Times /\ 0 \in 0..MaxAttempts
    BY TimesAssumption DEF Times
<1>5. /\ clock' \in [Pumps -> Times] /\ nth' \in [Pumps -> 0..MaxAttempts]
      /\ copy' \in [Pumps -> [Jobs -> Times]]
    BY <1>4 DEF Finish, TypeOK
<1>6. /\ seen' \in [Pumps -> SUBSET Jobs] /\ job' \in [Pumps -> Jobs \cup {NoJob}]
      /\ wanted' \in BOOLEAN
    BY DEF Finish, TypeOK
<1> QED BY <1>2, <1>3, <1>5, <1>6

\* The alarm is set before the first moment anything is due.
LEMMA ScheduleWakeKeeps ==
    ASSUME IInv, NEW p \in Pumps, ScheduleWake(p)
    PROVE  IInv'
<1>1. TypeOK /\ PumpsOk /\ CallsOk /\ PapersOk /\ ConfirmedTellsTruth
    BY DEF IInv
<1>2. /\ PumpsOk'
      /\ running' \in Pumps \cup {NoPump} /\ wanted' \in BOOLEAN
      /\ pc' \in [Pumps -> PassSteps] /\ clock' \in [Pumps -> Times]
      /\ seen' \in [Pumps -> SUBSET Jobs] /\ copy' \in [Pumps -> [Jobs -> Times]]
      /\ job' \in [Pumps -> Jobs \cup {NoJob}] /\ nth' \in [Pumps -> 0..MaxAttempts]
    BY <1>1, FinishKeeps DEF ScheduleWake
<1>3. Moments \subseteq Times /\ Times \subseteq Nat /\ now \in Times
    BY <1>1, TimesAssumption DEF Moments, TypeOK, Times
<1>4. Moments # {} => Earliest(Moments) \in Moments /\ \A u \in Moments : Earliest(Moments) <= u
    BY <1>3, EarliestIsLeast
<1>5. wake' \in Times \cup {None}
    BY <1>3, <1>4 DEF ScheduleWake
<1>6. TypeOK'
    BY <1>1, <1>2, <1>5 DEF TypeOK, ScheduleWake, PassSteps, disk, memory, calls, history
<1>7. ASSUME NEW j \in Jobs, row[j] \in Waiting
      PROVE  wake' # None /\ (wake' <= expiry[j] \/ wake' <= now)
    <2>1. expiry[j] \in Moments
        BY <1>7 DEF Moments, Waiting, Active
    <2>2. Earliest(Moments) \in Nat /\ Earliest(Moments) <= expiry[j] /\ now \in Nat
        BY <1>3, <1>4, <2>1
    <2>3. wake' = IF Earliest(Moments) < now THEN now ELSE Earliest(Moments)
        BY <2>1 DEF ScheduleWake
    <2> QED BY <2>2, <2>3 DEF None
<1>8. WakeArmed'
    BY <1>7 DEF WakeArmed, ScheduleWake, disk
<1>9. CallsOk' /\ PapersOk' /\ ConfirmedTellsTruth'
    BY <1>1, SameRecord DEF CallsOk, ScheduleWake, disk, calls, history
<1> QED BY <1>2, <1>6, <1>8, <1>9 DEF IInv

\* The rows cannot be read: the alarm is set all the same.
LEMMA ScheduleWakeFailsKeeps ==
    ASSUME IInv, NEW p \in Pumps, ScheduleWakeFails(p)
    PROVE  IInv'
<1>1. TypeOK /\ PumpsOk /\ CallsOk /\ PapersOk /\ ConfirmedTellsTruth
    BY DEF IInv
<1>2. /\ PumpsOk'
      /\ running' \in Pumps \cup {NoPump} /\ wanted' \in BOOLEAN
      /\ pc' \in [Pumps -> PassSteps] /\ clock' \in [Pumps -> Times]
      /\ seen' \in [Pumps -> SUBSET Jobs] /\ copy' \in [Pumps -> [Jobs -> Times]]
      /\ job' \in [Pumps -> Jobs \cup {NoJob}] /\ nth' \in [Pumps -> 0..MaxAttempts]
    BY <1>1, FinishKeeps DEF ScheduleWakeFails
<1>3. /\ wake' \in Times /\ wake' # None
      /\ failures' \in 0..MaxFailures /\ failures' > 0
    BY <1>1, TimesAssumption DEF ScheduleWakeFails, TypeOK, Times, None
<1>4. TypeOK'
    BY <1>1, <1>2, <1>3 DEF TypeOK, ScheduleWakeFails, PassSteps, disk, memory, calls, history
<1>5. WakeArmed'
    BY <1>3 DEF WakeArmed
<1>6. CallsOk' /\ PapersOk' /\ ConfirmedTellsTruth'
    BY <1>1, SameRecord DEF CallsOk, ScheduleWakeFails, disk, calls, history
<1> QED BY <1>2, <1>4, <1>5, <1>6 DEF IInv

-----------------------------------------------------------------------------
(* The timer, the clock, the process.                                      *)

LEMMA WakeUpKeeps ==
    ASSUME IInv, WakeUp
    PROVE  IInv'
<1>1. TypeOK /\ PumpsOk /\ Kick
    BY DEF IInv, WakeUp
<1>2. running' \in Pumps /\ wanted' \in BOOLEAN /\ pc' \in [Pumps -> PassSteps]
    BY <1>1, KickFacts DEF PassSteps
<1>3. TypeOK'
    BY <1>1, <1>2 DEF TypeOK, WakeUp, disk, memory, calls, history, PassSteps
<1>4. PumpsOk'
    BY <1>1, KickKeepsPumps DEF WakeUp, memory, history
<1>5. PapersOk' /\ ConfirmedTellsTruth' /\ CallsOk'
    BY SameRecord DEF IInv, WakeUp, disk, history, CallsOk, calls
<1>6. WakeArmed'
    BY <1>2, UnderWayNeedsNoAlarm
<1> QED BY <1>3, <1>4, <1>5, <1>6 DEF IInv

LEMMA TickKeeps ==
    ASSUME IInv, Tick
    PROVE  IInv'
<1>1. TypeOK /\ PumpsOk /\ CallsOk /\ WakeArmed
    BY DEF IInv
<1>2. TypeOK'
    BY <1>1, TimesAssumption
       DEF TypeOK, Tick, disk, memory, pumpGate, walk, calls, history
<1>3. PumpsOk' /\ CallsOk'
    BY <1>1 DEF PumpsOk, PumpOk, CallsOk, Tick, memory, pumpGate, walk, calls, history
<1>4. PapersOk' /\ ConfirmedTellsTruth'
    BY SameRecord DEF IInv, Tick, disk, history
<1>5. wake # None /\ wake <= now => wake <= now'
    BY <1>1, TimesAssumption DEF TypeOK, Tick, Times
<1>6. WakeArmed'
    BY <1>1, <1>5 DEF WakeArmed, Tick, disk, pumpGate, calls
<1> QED BY <1>2, <1>3, <1>4, <1>6 DEF IInv

LEMMA RestartKeeps ==
    ASSUME IInv, Restart
    PROVE  IInv'
<1>1. TypeOK /\ PumpsOk
    BY DEF IInv
<1>2. 0 \in Times /\ 0 \in 0..MaxAttempts /\ crashes' \in 0..MaxCrashes
    BY <1>1, TimesAssumption DEF Restart, TypeOK, Times
<1>3. paper \subseteq paper' /\ paper' \subseteq Jobs
    <2>1. {job[p] : p \in {q \in Pumps : pc[q] = "send"}} \subseteq Jobs
        BY <1>1 DEF PumpsOk, PumpOk, Printing
    <2> QED BY <1>1, <2>1 DEF Restart, TypeOK
<1>4. TypeOK'
    BY <1>1, <1>2, <1>3 DEF TypeOK, Restart, disk
<1>5. PumpsOk' /\ CallsOk'
    BY DEF PumpsOk, PumpOk, Printing, CallsOk, Restart
<1>6. PapersOk' /\ ConfirmedTellsTruth'
    BY <1>3, SameRecord DEF IInv, Restart, disk
<1>7. WakeArmed'
    BY DEF WakeArmed, Restart
<1> QED BY <1>4, <1>5, <1>6, <1>7 DEF IInv

LEMMA StutterKeeps ==
    ASSUME IInv, UNCHANGED vars
    PROVE  IInv'
<1> USE DEF vars, disk, memory, pumpGate, walk, calls, history
<1>1. TypeOK'
    BY DEF IInv, TypeOK
<1>2. PumpsOk' /\ CallsOk'
    BY DEF IInv, PumpsOk, PumpOk, CallsOk
<1>3. PapersOk' /\ ConfirmedTellsTruth'
    BY SameRecord DEF IInv
<1>4. WakeArmed'
    BY DEF IInv, WakeArmed
<1> QED BY <1>1, <1>2, <1>3, <1>4 DEF IInv

LEMMA NextKeeps == IInv /\ [Next]_vars => IInv'
<1> SUFFICES ASSUME IInv, [Next]_vars PROVE IInv'
    OBVIOUS
<1>1. ASSUME NEW j \in Jobs, Recover(j) PROVE IInv'
    BY <1>1, RecoverKeeps
<1>2. CASE Start
    BY <1>2, StartKeeps
<1>3. ASSUME NEW c \in Calls, NEW j \in Jobs, Submit(c, j) \/ Retry(c, j) \/ Cancel(c, j)
      PROVE  IInv'
    BY <1>3, EnterKeeps DEF Submit, Retry, Cancel
<1>4. ASSUME NEW c \in Calls, Call(c) \/ CallFails(c) PROVE IInv'
    BY <1>4, CallPutKeeps, CallForgetKeeps, CallKickKeeps, CallFailsKeeps DEF Call
<1>5. ASSUME NEW p \in Pumps, Pump(p) \/ LookFails(p) \/ ScheduleWakeFails(p) PROVE IInv'
    <2>1. CASE \E j \in Jobs : Expire(p, j) \/ Pick(p, j)
        BY <2>1, ExpireKeeps, PickKeeps
    <2>2. CASE Look(p) \/ PickNothing(p) \/ RunOne(p) \/ TransportOk(p) \/ TransportFails(p)
        BY <2>2, LookKeeps, PickNothingKeeps, RunOneKeeps, TransportOkKeeps, TransportFailsKeeps
    <2>3. CASE RunOk(p) \/ RunBad(p) \/ Tidy(p) \/ ScheduleWake(p)
        BY <2>3, RunOkKeeps, RunBadKeeps, TidyKeeps, ScheduleWakeKeeps
    <2>4. CASE LookFails(p) \/ ScheduleWakeFails(p)
        BY <2>4, LookFailsKeeps, ScheduleWakeFailsKeeps
    <2> QED BY <1>5, <2>1, <2>2, <2>3, <2>4 DEF Pump
<1>6. CASE WakeUp \/ Tick \/ Restart
    BY <1>6, WakeUpKeeps, TickKeeps, RestartKeeps
<1>7. CASE UNCHANGED vars
    BY <1>7, StutterKeeps
<1> QED BY <1>1, <1>2, <1>3, <1>4, <1>5, <1>6, <1>7 DEF Next

\* The inductive invariant holds of every reachable state.
THEOREM Invariance == Spec => []IInv
BY InitHolds, NextKeeps, PTL DEF Spec

\* Types: rows, moments, attempts and the passes' own notes stay in range;
\* in particular no job is attempted more often than an opportunity allows.
THEOREM TypeCorrectness == Spec => []TypeOK
<1>1. IInv => TypeOK
    BY DEF IInv
<1> QED BY <1>1, Invariance, PTL

\* Only one pass is under way, whoever kicks the queue and however often:
\* bytes of two receipts never meet on the wire.
THEOREM OnePassAtATime == Spec => []OneWriter
<1>1. IInv => OneWriter
    BY DEF IInv, PumpsOk, PumpOk, OneWriter
<1> QED BY <1>1, Invariance, PTL

\* A confirmed job is on record as printed and as nothing else, though calls
\* and passes write whole rows back from what they read before an await.
THEOREM RecordTellsTruth == Spec => []ConfirmedTellsTruth
<1>1. IInv => ConfirmedTellsTruth
    BY DEF IInv
<1> QED BY <1>1, Invariance, PTL

\* Printed is written only of a receipt that came out, whatever the printer
\* failed to say and wherever the process died.
THEOREM PrintedMeansPaper == Spec => []PrintedHasPaper
<1>1. IInv => PrintedHasPaper
    BY DEF IInv, PapersOk, PrintedHasPaper
<1> QED BY <1>1, Invariance, PTL

\* A queue at rest has an alarm for every job that waits, not later than the
\* job's expiry unless the database refused to say when that is.
THEOREM AlarmIsSet == Spec => []WakeArmed
<1>1. IInv => WakeArmed
    BY DEF IInv
<1> QED BY <1>1, Invariance, PTL

-----------------------------------------------------------------------------
(* No second receipt.  A confirmation is forgotten when it is too old, or   *)
(* when there are more of them than the queue remembers; the promise is     *)
(* about the first, so the jobs here are no more than are remembered.       *)

\* A confirmation that was given and is not yet to be forgotten is there, and
\* no older than the first one given.
MemoryOk ==
    \A j \in Jobs :
        /\ given[j] = None => ~Confirmed(j)
        /\ given[j] # None => given[j] <= now
        /\ given[j] # None /\ now - given[j] <= ConfirmationRetention =>
               Confirmed(j) /\ confirmed[j] >= given[j]

\* Writing a row leaves confirmations as they are, or adds one.
LEMMA PutKeepsMemory ==
    ASSUME TypeOK, MemoryOk, NEW j \in Jobs, NEW s \in States, NEW until \in Times,
           Put(j, s, until), now' = now
    PROVE  MemoryOk'
<1>1. /\ \A k \in Jobs : confirmed'[k] = IF k = j /\ s = "printed" /\ ~Confirmed(j)
                                         THEN now ELSE confirmed[k]
      /\ \A k \in Jobs : given'[k] = IF k = j /\ s = "printed" /\ given[j] = None
                                     THEN now ELSE given[k]
    BY PutFacts
<1>2. now \in Nat /\ now # None
    BY TimesAssumption DEF TypeOK, None
<1>3. ASSUME NEW k \in Jobs
      PROVE  /\ given'[k] = None => confirmed'[k] = None
             /\ given'[k] # None => given'[k] <= now
             /\ given'[k] # None /\ now - given'[k] <= ConfirmationRetention =>
                    confirmed'[k] # None /\ confirmed'[k] >= given'[k]
    <2>1. /\ given[k] = None => confirmed[k] = None
          /\ given[k] # None => given[k] <= now
          /\ given[k] # None /\ now - given[k] <= ConfirmationRetention =>
                 confirmed[k] # None /\ confirmed[k] >= given[k]
        BY DEF MemoryOk, Confirmed
    <2> QED BY <1>1, <1>2, <2>1 DEF Confirmed
<1> QED BY <1>3 DEF MemoryOk, Confirmed

\* Memories untouched, the clock where it was.
LEMMA SameMemory ==
    ASSUME MemoryOk, UNCHANGED <<confirmed, given, now>>
    PROVE  MemoryOk'
BY DEF MemoryOk, Confirmed

\* As time goes by, less is promised.
LEMMA TickKeepsMemory ==
    ASSUME TypeOK, MemoryOk, Tick
    PROVE  MemoryOk'
<1>1. now \in Nat /\ now' = now + 1 /\ UNCHANGED <<confirmed, given>>
    BY TimesAssumption DEF TypeOK, Tick, disk, history
<1>2. \A j \in Jobs : given[j] # None => given[j] \in Nat
    BY DEF TypeOK, Times
<1> QED BY <1>1, <1>2, TimesAssumption DEF MemoryOk, Confirmed

\* With no more jobs than the queue remembers, tidying drops only what is old.
LEMMA TidyKeepsMemory ==
    ASSUME TypeOK, MemoryOk, NEW p \in Pumps, Tidy(p),
           IsFiniteSet(Jobs), Cardinality(Jobs) <= MaxRemembered
    PROVE  MemoryOk'
<1>1. CASE UNCHANGED <<disk, tidied>>
    BY <1>1, SameMemory DEF Tidy, disk, history
<1>2. CASE ~UNCHANGED <<disk, tidied>>
    <2> DEFINE S == {j \in Jobs : Remembered(j)}
    <2>1. PICK X \in OldestOver(S) :
              confirmed' = [j \in Jobs |-> IF Remembered(j) /\ j \notin X
                                           THEN confirmed[j] ELSE None]
        BY <1>2 DEF Tidy
    <2>2. IsFiniteSet(S) /\ Cardinality(S) <= Cardinality(Jobs)
        BY FS_Subset
    <2>3. Cardinality(S) \in Nat /\ Cardinality(Jobs) \in Nat
        BY <2>2, FS_CardinalityType
    <2>4. ~ (Cardinality(S) > MaxRemembered)
        BY <2>2, <2>3, TimesAssumption
    <2>5. X \subseteq S /\ Cardinality(X) = 0
        BY <2>1, <2>4 DEF OldestOver
    <2>6. X = {}
        BY <2>2, <2>5, FS_Subset, FS_EmptySet
    <2>7. now' = now /\ given' = given
        BY DEF Tidy, history
    <2>8. ASSUME NEW j \in Jobs, given[j] # None, now - given[j] <= ConfirmationRetention
          PROVE  confirmed'[j] = confirmed[j]
        <3>1. /\ confirmed[j] # None /\ confirmed[j] >= given[j]
              /\ confirmed[j] \in Nat /\ given[j] \in Nat /\ now \in Nat
            BY <2>8, TimesAssumption DEF MemoryOk, Confirmed, TypeOK, Times
        <3>2. Remembered(j)
            BY <2>8, <3>1, TimesAssumption DEF Remembered, Confirmed
        <3> QED BY <2>1, <2>6, <3>2
    <2>9. \A j \in Jobs : confirmed'[j] \in {confirmed[j], None}
        BY <2>1
    <2> QED BY <2>7, <2>8, <2>9 DEF MemoryOk, Confirmed
<1> QED BY <1>1, <1>2

LEMMA NextKeepsMemory ==
    ASSUME IInv, MemoryOk, [Next]_vars,
           IsFiniteSet(Jobs), Cardinality(Jobs) <= MaxRemembered
    PROVE  MemoryOk'
<1>1. TypeOK /\ PumpsOk /\ CallsOk
    BY DEF IInv
<1>2. ASSUME NEW j \in Jobs, Recover(j) PROVE MemoryOk'
    BY <1>1, <1>2, PutKeepsMemory DEF Recover, TypeOK, States
<1>3. CASE Start \/ WakeUp \/ Restart
    BY <1>3, SameMemory DEF Start, WakeUp, Restart, disk, history
<1>4. ASSUME NEW c \in Calls, NEW j \in Jobs, Submit(c, j) \/ Retry(c, j) \/ Cancel(c, j)
      PROVE  MemoryOk'
    BY <1>4, SameMemory DEF Submit, Retry, Cancel, Enter, disk, history
<1>5. ASSUME NEW c \in Calls, CallForget(c) \/ CallKick(c) \/ CallFails(c) PROVE MemoryOk'
    BY <1>5, SameMemory DEF CallForget, CallKick, CallFails, disk, history
<1>6. ASSUME NEW c \in Calls, CallPut(c) PROVE MemoryOk'
    <2> DEFINE until == IF call[c] = "cancel" THEN expiry[arg[c]] ELSE now + Ttl
    <2>1. arg[c] \in Jobs /\ Requested[call[c]] \in States
        BY <1>1, <1>6, RequestedFacts DEF CallPut, CallsOk
    <2>2. until \in Times
        BY <1>1, <1>6, <2>1, TimesAssumption DEF CallPut, TypeOK, Times
    <2>3. \/ Put(arg[c], Requested[call[c]], until)
          \/ UNCHANGED <<disk, given>>
        BY <1>6 DEF CallPut
    <2>4. now' = now
        BY <1>6 DEF CallPut
    <2> HIDE DEF until
    <2> QED BY <1>1, <2>1, <2>2, <2>3, <2>4, PutKeepsMemory, SameMemory DEF disk
<1>7. ASSUME NEW p \in Pumps, NEW j \in Jobs, Expire(p, j) PROVE MemoryOk'
    <2>1. copy[p][j] \in Times /\ "expired" \in States /\ now' = now
        BY <1>1, <1>7 DEF TypeOK, States, Expire
    <2>2. Put(j, "expired", copy[p][j]) \/ UNCHANGED <<disk, given>>
        BY <1>7 DEF Expire
    <2> QED BY <1>1, <2>1, <2>2, PutKeepsMemory, SameMemory DEF disk
<1>8. ASSUME NEW p \in Pumps, RunOne(p) \/ RunOk(p) \/ RunBad(p) PROVE MemoryOk'
    <2>1. job[p] \in Jobs
        BY <1>1, <1>8 DEF PumpsOk, PumpOk, Printing, RunOne, RunOk, RunBad
    <2>2. copy[p][job[p]] \in Times
        BY <1>1, <2>1 DEF TypeOK
    <2>3. PICK s \in States : Put(job[p], s, copy[p][job[p]])
        BY <1>8 DEF RunOne, RunOk, RunBad, States
    <2>4. now' = now
        BY <1>8 DEF RunOne, RunOk, RunBad
    <2> QED BY <1>1, <2>1, <2>2, <2>3, <2>4, PutKeepsMemory
<1>9. ASSUME NEW p \in Pumps,
             \/ Look(p) \/ PickNothing(p) \/ TransportOk(p) \/ TransportFails(p)
             \/ ScheduleWake(p) \/ ScheduleWakeFails(p) \/ LookFails(p)
             \/ \E j \in Jobs : Pick(p, j)
      PROVE  MemoryOk'
    BY <1>9, SameMemory DEF Look, PickNothing, TransportOk, TransportFails, ScheduleWake,
                            ScheduleWakeFails, LookFails, Pick, disk, history
<1>10. ASSUME NEW p \in Pumps, Tidy(p) PROVE MemoryOk'
    BY <1>1, <1>10, TidyKeepsMemory
<1>11. CASE Tick
    BY <1>1, <1>11, TickKeepsMemory
<1>12. CASE UNCHANGED vars
    BY <1>12, SameMemory DEF vars, disk, history
<1> QED BY <1>2, <1>3, <1>4, <1>5, <1>6, <1>7, <1>8, <1>9, <1>10, <1>11, <1>12
        DEF Next, Call, Pump

\* Only RunOne sends, and only what is not confirmed.
LEMMA OnlyRunOneSends ==
    ASSUME IInv, [Next]_vars, NEW p \in Pumps, pc[p] = "run", pc'[p] = "send"
    PROVE  ~Confirmed(job[p])
<1>1. TypeOK /\ PumpsOk
    BY DEF IInv
<1>2. ASSUME Kick PROVE FALSE
    BY <1>1, <1>2, KickFacts
<1>3. ASSUME NEW q \in Pumps, NEW s \in PassSteps, Step(q, s) PROVE q = p /\ s = "send"
    BY <1>1, <1>3 DEF Step, TypeOK
<1>4. pc' # pc
    OBVIOUS
<1>5. CASE \E j \in Jobs : Recover(j)
    BY <1>4, <1>5 DEF Recover, walk
<1>6. CASE Start \/ WakeUp
    BY <1>2, <1>6 DEF Start, WakeUp
<1>7. CASE \E c \in Calls, j \in Jobs : Submit(c, j) \/ Retry(c, j) \/ Cancel(c, j)
    BY <1>4, <1>7 DEF Submit, Retry, Cancel, Enter, walk
<1>8. CASE \E c \in Calls : Call(c) \/ CallFails(c)
    BY <1>2, <1>4, <1>8 DEF Call, CallPut, CallForget, CallKick, CallFails, walk
<1>9. ASSUME NEW q \in Pumps, Pump(q) \/ LookFails(q) \/ ScheduleWakeFails(q)
      PROVE  ~Confirmed(job[p])
    <2>1. CASE RunOne(q)
        <3>1. \/ ~Refused(job[q], "printing") /\ Step(q, "send")
              \/ Step(q, "look")
            BY <2>1 DEF RunOne
        <3> QED BY <1>3, <3>1 DEF Refused, Contradicts, PassSteps
    <2>2. CASE \/ Look(q) \/ PickNothing(q) \/ TransportOk(q) \/ TransportFails(q)
               \/ RunOk(q) \/ RunBad(q) \/ Tidy(q) \/ LookFails(q)
               \/ \E j \in Jobs : Pick(q, j)
        BY <1>3, <2>2 DEF Look, PickNothing, TransportOk, TransportFails, RunOk, RunBad,
                          Tidy, LookFails, Pick, PassSteps
    <2>3. CASE \E j \in Jobs : Expire(q, j)
        BY <1>4, <2>3 DEF Expire
    <2>4. CASE ScheduleWake(q) \/ ScheduleWakeFails(q)
        BY <1>3, <2>4 DEF ScheduleWake, ScheduleWakeFails, Finish, PassSteps
    <2> QED BY <1>9, <2>1, <2>2, <2>3, <2>4 DEF Pump
<1>10. CASE Tick
    BY <1>4, <1>10 DEF Tick, walk
<1>11. CASE Restart
    BY <1>11 DEF Restart
<1>12. CASE UNCHANGED vars
    BY <1>4, <1>12 DEF vars, walk
<1> QED BY <1>5, <1>6, <1>7, <1>8, <1>9, <1>10, <1>11, <1>12 DEF Next

\* A job whose printing was recorded is not sent again while its confirmation
\* is to be remembered, as long as the queue has no more jobs to remember than
\* its limit: rows may be tidied away and the receipt submitted anew.
THEOREM NotPrintedTwice ==
    ASSUME IsFiniteSet(Jobs), Cardinality(Jobs) <= MaxRemembered
    PROVE  Spec => NoSecondReceipt
<1>1. Init => MemoryOk
    BY DEF Init, MemoryOk, Confirmed
<1>2. IInv /\ MemoryOk /\ [Next]_vars => MemoryOk'
    BY NextKeepsMemory
<1>3. IInv /\ MemoryOk /\ [Next]_vars =>
          [\A p \in Pumps : (pc[p] = "run" /\ pc'[p] = "send") =>
               given[job[p]] = None \/ now - given[job[p]] > ConfirmationRetention]_vars
    <2> SUFFICES ASSUME IInv, MemoryOk, [Next]_vars, NEW p \in Pumps,
                        pc[p] = "run", pc'[p] = "send"
                 PROVE  given[job[p]] = None \/ now - given[job[p]] > ConfirmationRetention
        OBVIOUS
    <2>1. ~Confirmed(job[p])
        BY OnlyRunOneSends
    <2>2. job[p] \in Jobs
        BY DEF IInv, PumpsOk, PumpOk, Printing
    <2>3. given[job[p]] # None => given[job[p]] \in Nat /\ now \in Nat
        BY <2>2, TimesAssumption DEF IInv, TypeOK, Times
    <2> QED BY <2>1, <2>2, <2>3, TimesAssumption DEF MemoryOk
<1> QED BY <1>1, <1>2, <1>3, Invariance, PTL DEF Spec, NoSecondReceipt

=============================================================================
