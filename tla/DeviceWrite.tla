---------------------------- MODULE DeviceWrite ----------------------------
(***************************************************************************)
(* What rk_devices writes to a customer display or a cash drawer, and how  *)
(* a caller goes on after a write that took only some of the bytes         *)
(* (display.rs, drawer.rs, wire.rs).  The device and the caller's loop are *)
(* external: the loop does what wire::Resume tells it, the device executes *)
(* the bytes it was given.                                                 *)
(*                                                                         *)
(* Bytes and characters are their numbers.                                 *)
(***************************************************************************)
EXTENDS Integers, Sequences, SequencesExt, FiniteSetsExt

CONSTANTS
    Wires,     \* wires devices hang on, of Wire's three
    Models,    \* display models, of Model's three
    Ops,       \* operations asked for: [op, line, column, level, text] or,
               \* for the drawer, [op, pin, on, off]
    MaxJobs    \* bound: jobs written

\* Of the constants: how each operation is asked for.
WriteAssumption ==
    \A o \in Ops :
        /\ o.op \in {"reset", "clear", "home", "displayOn", "displayOff", "blink",
                     "setBrightness", "setCursor", "writeLine", "pulse"}
        /\ o.op = "setBrightness" => o.level \in Nat
        /\ o.op = "pulse" => o.on \in Nat /\ o.off \in Nat

VARIABLES
    wire, model,
    jobs,    \* what was asked for, its bytes, what became of it
    rest,    \* bytes of the job being written that are still to send
    took     \* for each job, the bytes the device took

vars == <<wire, model, jobs, rest, took>>

\* Model::lines, columns, addressable.
Columns == IF model = "led8" THEN 8 ELSE 20
LineCount == IF model = "led8" THEN 1 ELSE 2
Addressable == model # "led8"
Esc == 27

\* cp866: the page has a gap between the letters p and r; 0 is no slot.
\* Mutant: the letters run on through it.
Cp866Contiguous(c) ==
    IF c \in 0..127 THEN c ELSE IF c \in 1040..1103 THEN c - 1040 + 128 ELSE 0
Cp866(c) ==
    IF c \in 0..127 THEN c
    ELSE IF c \in 1040..1087 THEN c - 1040 + 128
    ELSE IF c \in 1088..1103 THEN c - 1088 + 224
    ELSE IF c = 1025 THEN 240 ELSE IF c = 1105 THEN 241 ELSE 0
Blank == 32
\* Mutant: the line is padded only.
FitPadOnly(text) == text \o [k \in 1..Max({Columns - Len(text), 0}) |-> Blank]
Fit(text) ==
    [k \in 1..Columns |-> IF k <= Len(text) THEN text[k] ELSE Blank]
EncodeText(text) ==
    [k \in DOMAIN text |-> IF Cp866(text[k]) = 0 THEN Blank ELSE Cp866(text[k])]
Substitutions(text) == Cardinality({k \in DOMAIN text : Cp866(text[k]) = 0})

OnScreen(line, column) == line \in 0..LineCount - 1 /\ column \in 0..Columns - 1
\* drawer::pulse: two milliseconds a unit, rounded up.
\* Mutant: rounded down.
UnitsDown(ms) == ms \div 2
Units(ms) == (ms + 1) \div 2
MaxMs == 510

Accepted(o) ==
    CASE o.op \in {"reset", "blink"} -> Addressable
      [] o.op = "setBrightness" -> o.level <= 7
      [] o.op = "setCursor" -> Addressable /\ OnScreen(o.line, o.column)
      [] o.op = "writeLine" -> OnScreen(o.line, 0)
      [] o.op = "pulse" -> o.on <= MaxMs /\ o.off <= MaxMs
      [] OTHER -> TRUE

Selector(pin) == IF pin = "pin2" THEN 0 ELSE 1

\* display::encode and drawer::pulse.
Encode(o) ==
    CASE o.op = "reset" -> <<Esc, 64>>
      [] o.op = "clear" -> <<12>>
      [] o.op = "home" -> IF Addressable THEN <<Esc, 91, 72>> ELSE <<11>>
      [] o.op = "displayOn" -> IF Addressable THEN <<Esc, 40>> ELSE <<20>>
      [] o.op = "displayOff" -> IF Addressable THEN <<Esc, 41>> ELSE <<21>>
      [] o.op = "blink" -> <<Esc, 37>>
      [] o.op = "setBrightness" -> <<Esc, 42, o.level>>
      [] o.op = "setCursor" -> <<Esc, 36, o.column, o.line>>
      [] o.op = "writeLine" ->
           (IF Addressable THEN <<Esc, 36, 0, o.line>> ELSE <<11>>)
               \o EncodeText(Fit(o.text))
      [] o.op = "pulse" -> <<Esc, 112, Selector(o.pin), Units(o.on), Units(o.off)>>

\* reports_partial_writes
Counts == wire = "serial"

\* wire::resolve of a write of `total` bytes: done, go on behind n bytes,
\* unknown, or a claim this wire cannot make.
\* Mutant: everything is sent again.
ResolveWhole(total, n) ==
    IF n = total THEN [action |-> "done", offset |-> 0]
    ELSE IF ~Counts THEN [action |-> "refused", offset |-> 0]
    ELSE [action |-> "continue", offset |-> 0]
Resolve(total, n) ==
    IF n = total THEN [action |-> "done", offset |-> 0]
    ELSE IF ~Counts THEN [action |-> "refused", offset |-> 0]
    ELSE [action |-> "continue", offset |-> n]

----------------------------------------------------------------------------
Init ==
    /\ wire \in Wires /\ model \in Models
    /\ jobs = <<>> /\ rest = <<>> /\ took = <<>>

Current == jobs[Len(jobs)]
Writing == jobs # <<>> /\ Current.state = "writing"

\* An operation is encoded, or refused and leaves nothing to write.
Start ==
    /\ ~Writing /\ Len(jobs) < MaxJobs
    /\ \E o \in Ops :
         /\ Accepted(o)
         /\ jobs' = Append(jobs, [asked |-> o, bytes |-> Encode(o), state |-> "writing"])
         /\ rest' = Encode(o)
         /\ took' = Append(took, <<>>)
    /\ UNCHANGED <<wire, model>>

Take(n) == took' = [took EXCEPT ![Len(jobs)] = @ \o SubSeq(rest, 1, n)]
End(state) == jobs' = [jobs EXCEPT ![Len(jobs)].state = state] /\ rest' = <<>>

\* A write that its caller calls taken, in part or whole; a part is refused
\* on a wire that does not count, and the job is given up as after a failure.
Written ==
    /\ Writing
    /\ \E n \in 0..Len(rest) :
         LET resume == Resolve(Len(rest), n) IN
         /\ Take(n)
         /\ CASE resume.action = "done" -> End("done")
              [] resume.action = "refused" -> End("unknown")
              [] resume.action = "continue" ->
                   /\ rest' = SubSeq(rest, resume.offset + 1, Len(rest))
                   /\ UNCHANGED jobs
    /\ UNCHANGED <<wire, model>>

\* A write that fails, whatever of it the device took: nothing is known, and
\* the bytes are neither continued nor repeated.
Failed ==
    /\ Writing
    /\ \E n \in 0..Len(rest) : Take(n)
    /\ End("unknown")
    /\ UNCHANGED <<wire, model>>

Next == Start \/ Written \/ Failed
Spec == Init /\ [][Next]_vars

----------------------------------------------------------------------------
(* The device: it executes what it took, byte by byte.                     *)
Cells == [l \in 0..LineCount - 1 |-> [c \in 0..Columns - 1 |-> Blank]]
PoweredUp == [esc |-> <<>>, at |-> <<0, 0>>, cells |-> Cells, on |-> TRUE,
              level |-> 4, kicks |-> <<>>]

Home(d) == [d EXCEPT !.at = <<0, 0>>, !.esc = <<>>]
Put(d, b) ==
    IF ~OnScreen(d.at[1], d.at[2]) THEN [d EXCEPT !.at = <<0, 1>>, !.cells[0][0] = b]
    ELSE [d EXCEPT !.cells[d.at[1]][d.at[2]] = b, !.at = <<@[1], @[2] + 1>>]
Execute(d, b) ==
    LET esc == Append(d.esc, b) IN
    CASE d.esc = <<>> /\ b = Esc -> [d EXCEPT !.esc = esc]
      [] d.esc = <<>> /\ b = 12 -> Home([d EXCEPT !.cells = Cells])
      [] d.esc = <<>> /\ b = 11 -> Home(d)
      [] d.esc = <<>> /\ b \in {20, 21} -> [d EXCEPT !.on = b = 20]
      [] d.esc = <<>> -> Put(d, b)
      [] esc = <<Esc, 64>> -> [PoweredUp EXCEPT !.kicks = d.kicks]
      [] esc = <<Esc, 91, 72>> -> Home(d)
      [] esc \in {<<Esc, 40>>, <<Esc, 41>>} -> [d EXCEPT !.on = b = 40, !.esc = <<>>]
      [] esc = <<Esc, 37>> -> [d EXCEPT !.esc = <<>>]
      [] Len(esc) = 3 /\ esc[2] = 42 -> [d EXCEPT !.level = b, !.esc = <<>>]
      [] Len(esc) = 4 /\ esc[2] = 36 -> [d EXCEPT !.at = <<b, esc[3]>>, !.esc = <<>>]
      [] Len(esc) = 5 -> [d EXCEPT !.esc = <<>>, !.kicks =
                             Append(@, [pin |-> IF esc[3] = 0 THEN "pin2" ELSE "pin5",
                                        on |-> 2 * esc[4], off |-> 2 * esc[5]])]
      [] OTHER -> [d EXCEPT !.esc = esc]
Device == FoldLeft(Execute, PoweredUp, FlattenSeq(took))

\* What a cell of page 866 looks like.
Glyph(b) ==
    IF b \in 0..127 THEN b
    ELSE IF b \in 128..175 THEN b - 128 + 1040
    ELSE IF b \in 224..239 THEN b - 224 + 1088
    ELSE IF b = 240 THEN 1025 ELSE IF b = 241 THEN 1105 ELSE 0

----------------------------------------------------------------------------
(* Properties.                                                             *)
TypeOK ==
    /\ \A k \in DOMAIN jobs :
         /\ jobs[k].state \in {"writing", "done", "unknown"}
         /\ jobs[k].bytes \in Seq(0..255)
    /\ Len(took) = Len(jobs)
    /\ rest # <<>> => Writing

\* The device takes each job's bytes in their order, none twice and none
\* skipped, however often the wire cuts a write short; a job called done
\* reached it whole (wire::resolve).
TakenOnce ==
    \A k \in DOMAIN jobs :
        /\ IsPrefix(took[k], jobs[k].bytes)
        /\ jobs[k].state = "done" => took[k] = jobs[k].bytes

AllDone == \A k \in DOMAIN jobs : jobs[k].state = "done"
LastAt(line) ==
    {k \in DOMAIN jobs :
        /\ jobs[k].asked.op \in {"clear", "reset", "writeLine"}
        /\ jobs[k].asked.op = "writeLine" => jobs[k].asked.line = line}

\* A line of the display shows the text last written to it, cut or padded to
\* the line; every cell that shows something else was counted as substituted.
\* Writing one line leaves the other alone (display::encode).
LineShowsText ==
    AllDone =>
        \A line \in 0..LineCount - 1 :
            LET writes == LastAt(line)
                o == jobs[Max(writes)].asked
                shown == [k \in 1..Columns |-> Glyph(Device.cells[line][k - 1])]
            IN  writes # {} /\ o.op = "writeLine" =>
                    Cardinality({k \in 1..Columns : shown[k] # Fit(o.text)[k]})
                        = Substitutions(Fit(o.text))

\* The drawer's solenoid is driven for no less than was asked and at most a
\* unit more, on the right pin, once for each pulse asked for.
KickIsFull ==
    LET pulses == SelectSeq(jobs, LAMBDA j : j.asked.op = "pulse") IN
    AllDone =>
        /\ Len(Device.kicks) = Len(pulses)
        /\ \A k \in DOMAIN pulses :
             /\ Device.kicks[k].pin = pulses[k].asked.pin
             /\ Device.kicks[k].on - pulses[k].asked.on \in {0, 1}
             /\ Device.kicks[k].off - pulses[k].asked.off \in {0, 1}
============================================================================
