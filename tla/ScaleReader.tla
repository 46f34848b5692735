---------------------------- MODULE ScaleReader ----------------------------
(***************************************************************************)
(* A scale on a serial line and the caller of rk_devices that reads it:    *)
(* lines cut out of a stream of bytes and read in one of three dialects    *)
(* (scale::parse), and the rule that says when a weight has settled        *)
(* (scale::Stabilizer).  The library holds no port and no clock; the       *)
(* caller's loop is external.                                              *)
(*                                                                         *)
(* A line is a sequence of tokens: a digit, a mark, "sp" for a blank, or   *)
(* a whole run of letters.                                                 *)
(***************************************************************************)
EXTENDS Integers, Sequences, SequencesExt, FiniteSetsExt

CONSTANTS
    Protocols,  \* the dialects scales speak, of Protocol's three
    Lines,      \* what a scale may send: [protocol, text, meant], where meant
                \* is the reading a person takes it for, or none
    MaxScaled,  \* stands for i64::MAX
    Needed,     \* equal settled readings asked for
    Budget,     \* budget_ms, in ticks
    Chunks,     \* bound: how many bytes a read may bring
    MaxLines    \* bound: lines sent

\* Of the constants.
ReaderAssumption ==
    /\ Protocols \subseteq {"generic", "cas", "massa_k"}
    /\ Needed \in Nat /\ Budget \in Nat /\ MaxScaled \in Nat /\ MaxLines \in Nat
    /\ Chunks \subseteq Nat \ {0}
    /\ \A l \in Lines :
         /\ l.text \in Seq(ToSet(l.text))
         /\ l.meant \in Seq(ToSet(l.meant)) /\ Len(l.meant) <= 1

VARIABLES
    protocol,
    sent,     \* lines the scale has sent
    pending,     \* their bytes, not read yet
    input,   \* bytes read and not dropped
    fresh,    \* bytes came since the last offer
    rule,     \* the Stabilizer
    elapsed, verdict,
    offered,  \* history: when the rule was asked last, -1 before
    got       \* history: the readings parsed

readerVars == <<protocol, sent, pending, input, fresh, rule, elapsed, verdict, offered, got>>

Ends == {"cr", "lf"}
Digits == {"0", "1", "2", "3", "4", "5", "6", "7", "8", "9"}
DigitValue(d) == (CHOOSE k \in 1..10 : <<"0", "1", "2", "3", "4", "5", "6", "7", "8", "9">>[k] = d) - 1
WithM == {"M", "MAX", "NET-M"}

\* The first place from i on that holds no member of S.
After(text, i, S) == Min({k \in i..Len(text) + 1 : k = Len(text) + 1 \/ text[k] \notin S})
Upto(text, i, k) == SubSeq(text, i, k - 1)
Trim(text) ==
    LET from == After(text, 1, {"sp"})
        back == {k \in from..Len(text) : text[k] # "sp"}
    IN  IF back = {} THEN <<>> ELSE SubSeq(text, from, Max(back))

----------------------------------------------------------------------------
(* Reading a line.                                                         *)

\* A sign may stand at the left edge of the slot, padded away from the digits.
\* Mutant: it must touch them.
DigitsFromAdjacent(text, i) == IF text[i] \in {"+", "-"} THEN i + 1 ELSE i
DigitsFrom(text, i) ==
    IF text[i] \in {"+", "-"} THEN After(text, i + 1, {"sp"}) ELSE i
WholeEnd(text, i) == After(text, DigitsFrom(text, i), Digits)
FractionEnd(text, i) ==
    LET k == WholeEnd(text, i) IN
    IF k <= Len(text) /\ text[k] \in {".", ","} /\ After(text, k + 1, Digits) > k + 1
    THEN After(text, k + 1, Digits) ELSE k
Decimals(text, i) ==
    IF FractionEnd(text, i) = WholeEnd(text, i) THEN 0
    ELSE FractionEnd(text, i) - WholeEnd(text, i) - 1

\* scan_number: where the first number starts; a whole line's must have a
\* fraction, a field's need not.
Starts(text, whole) ==
    {i \in DOMAIN text :
        /\ WholeEnd(text, i) > DigitsFrom(text, i)
        /\ whole => Decimals(text, i) > 0}
Scaled(text, i) ==
    LET digits == SelectSeq(Upto(text, DigitsFrom(text, i), FractionEnd(text, i)),
                            LAMBDA d : d \in Digits)
    IN  FoldLeft(LAMBDA n, d : 10 * n + DigitValue(d), 0, digits)
        * (IF text[i] = "-" THEN -1 ELSE 1)

\* scan_unit_after
UnitAfter(text, k) ==
    LET u == After(text, k, {"sp"}) IN
    IF u > Len(text) THEN "kg"
    ELSE IF text[u] \in {"g", "gs"} THEN "g"
    ELSE IF text[u] \in {"lb", "lbs"} THEN "lb" ELSE "kg"

\* No reading, or one.
Reading(scaled, decimals, unit, stability, measure) ==
    <<[scaled |-> scaled, decimals |-> decimals, unit |-> unit,
       stability |-> stability, measure |-> measure]>>
OverloadReading(stability, measure) == Reading(0, 0, "kg", stability, measure)
NumberReading(text, whole, stability, measure) ==
    IF Starts(text, whole) = {} THEN <<>>
    ELSE LET i == Min(Starts(text, whole)) IN
         IF Scaled(text, i) \notin -MaxScaled..MaxScaled THEN <<>>
         ELSE Reading(Scaled(text, i), Decimals(text, i),
                      UnitAfter(text, FractionEnd(text, i)), stability, measure)

\* contains_word(line, "OL")
SaysOverload(line) ==
    \E i \in DOMAIN line :
        /\ line[i] = "OL"
        /\ i > 1 => line[i - 1] \notin Digits \cup {"_"}
        /\ i < Len(line) => line[i + 1] \notin Digits \cup {"_"}

ParseGeneric(line) ==
    IF SaysOverload(line) THEN OverloadReading("overload", "unknown")
    ELSE NumberReading(line, TRUE,
             IF ToSet(line) \cap ({"~"} \cup WithM) # {} THEN "unstable" ELSE "stable",
             "unknown")

\* splitn(3, ','): the third field keeps its commas.
Fields(line) ==
    LET commas == {k \in DOMAIN line : line[k] = ","}
        first == Min(commas)
        second == Min(commas \ {first})
    IN  IF commas = {} THEN <<line>>
        ELSE IF Cardinality(commas) = 1 THEN <<Upto(line, 1, first), SubSeq(line, first + 1, Len(line))>>
        ELSE <<Upto(line, 1, first), Upto(line, first + 1, second),
               SubSeq(line, second + 1, Len(line))>>

ParseCas(line) ==
    LET parts == Fields(line)
        status == Trim(parts[1])
        stability == IF status = <<"ST">> THEN "stable"
                     ELSE IF status = <<"OL">> THEN "overload"
                     ELSE IF status = <<"UL">> THEN "underload" ELSE "unstable"
        measure == IF Len(parts) < 2 THEN "unknown"
                   ELSE IF Trim(parts[2]) = <<"GS">> THEN "gross"
                   ELSE IF Trim(parts[2]) = <<"NT">> THEN "net" ELSE "unknown"
    IN  IF stability \in {"overload", "underload"} THEN OverloadReading(stability, measure)
        ELSE IF Len(parts) < 3 THEN <<>>
        ELSE NumberReading(Trim(parts[3]), FALSE, stability, measure)

ParseMassaK(line) ==
    IF line[1] = "$"
    THEN NumberReading(Trim(Tail(line)), FALSE, "stable", "unknown")
    ELSE NumberReading(line, FALSE, "unstable", "unknown")

\* A byte that is no text spoils its line.
ParseLine(dialect, text) ==
    LET line == Trim(text) IN
    IF line = <<>> \/ "bad" \in ToSet(line) THEN <<>>
    ELSE CASE dialect = "generic" -> ParseGeneric(line)
           [] dialect = "cas" -> ParseCas(line)
           [] dialect = "massa_k" -> ParseMassaK(line)

\* What a scale sends is lines: something, and the terminators that end it.
\* Handed over whole, each would be read as it is meant.
ReadsEachAlone ==
    \A l \in Lines : \E n \in 1..Len(l.text) - 1 :
        /\ \A k \in DOMAIN l.text : l.text[k] \in Ends <=> k > n
        /\ ParseLine(l.protocol, SubSeq(l.text, 1, n)) = l.meant

\* parse: up to the first terminator, and past the run of them.
HasLine == ToSet(input) \cap Ends # {}
LineEnd == Min({k \in DOMAIN input : input[k] \in Ends})
\* Mutant: all that was read is dropped with the line.
ConsumedAll == Len(input)
Consumed == After(input, LineEnd, Ends) - 1
Parsed == ParseLine(protocol, Upto(input, 1, LineEnd))

----------------------------------------------------------------------------
(* Settling.                                                               *)
NewRule == [repeats |-> 0, scaled |-> 0, decimals |-> 0, heard |-> FALSE]
RepeatsWanted == Max({Needed, 1})

\* Mutant: motion between two equal readings is forgotten.
OfferedThroughMotion(reading) ==
    IF reading = <<>> \/ reading[1].stability # "stable" THEN rule
    ELSE [rule EXCEPT !.repeats = @ + 1, !.scaled = reading[1].scaled,
                      !.decimals = reading[1].decimals]
Offered(reading) ==
    IF reading = <<>> THEN rule
    ELSE IF reading[1].stability # "stable" THEN [rule EXCEPT !.repeats = 0]
    ELSE LET r == reading[1]
             same == rule.repeats > 0 /\ rule.scaled = r.scaled /\ rule.decimals = r.decimals
         IN  [rule EXCEPT !.repeats = IF same THEN @ + 1 ELSE 1,
                          !.scaled = r.scaled, !.decimals = r.decimals]
\* Mutant: a scale that talks is given more time.
OverdueInSilence(heard) == elapsed >= Budget /\ ~heard
DeadlinePassed(heard) == elapsed >= Budget

\* Mutant: only a line that can be read counts as an answer.
HeardReading(kind) == rule.heard \/ kind = "reading"
Heard(kind) == rule.heard \/ kind # "silence"

\* Stabilizer::offer: a settled weight first, the deadline after it.
Offer(kind, reading) ==
    LET heard == Heard(kind) IN
    /\ rule' = [Offered(reading) EXCEPT !.heard = heard]
    /\ verdict' = IF /\ reading # <<>> /\ reading[1].stability = "stable"
                     /\ Offered(reading).repeats >= RepeatsWanted THEN "settled"
                  ELSE IF ~DeadlinePassed(heard) THEN "not_yet"
                  ELSE IF heard THEN "expired" ELSE "no_answer"
    /\ fresh' = FALSE
    /\ offered' = elapsed

----------------------------------------------------------------------------
ReaderInit ==
    /\ protocol \in Protocols
    /\ sent = <<>> /\ pending = <<>> /\ input = <<>> /\ got = <<>>
    /\ fresh = FALSE /\ rule = NewRule /\ elapsed = 0 /\ offered = -1 /\ verdict = "not_yet"

\* The scale sends a line.
LineComes ==
    /\ Len(sent) < MaxLines
    /\ \E l \in Lines :
         /\ l.protocol = protocol
         /\ sent' = Append(sent, l)
         /\ pending' = pending \o l.text
    /\ UNCHANGED <<protocol, input, fresh, rule, elapsed, verdict, offered, got>>

\* The port hands over some of the bytes.
BytesArrive ==
    /\ pending # <<>>
    /\ \E n \in {Min({Len(pending), c}) : c \in Chunks} :
         /\ input' = input \o SubSeq(pending, 1, n)
         /\ pending' = SubSeq(pending, n + 1, Len(pending))
    /\ fresh' = TRUE
    /\ UNCHANGED <<protocol, sent, rule, elapsed, verdict, offered, got>>

\* One call of parse that finds a line, and the offer of what it held.
HearLine ==
    /\ HasLine
    /\ input' = SubSeq(input, Consumed + 1, Len(input))
    /\ got' = got \o Parsed
    /\ Offer(IF Parsed = <<>> THEN "noise" ELSE "reading", Parsed)
    /\ UNCHANGED <<protocol, sent, pending, elapsed>>

\* The line is incomplete: bytes without a reading, or nothing at all.
HearNoLine ==
    /\ ~HasLine
    /\ Offer(IF fresh THEN "noise" ELSE "silence", <<>>)
    /\ UNCHANGED <<protocol, sent, pending, input, elapsed, got>>

TimePasses ==
    /\ elapsed < Budget
    /\ elapsed' = elapsed + 1
    /\ UNCHANGED <<protocol, sent, pending, input, fresh, rule, verdict, offered, got>>

Hear == HearLine \/ HearNoLine
ReaderNext == verdict = "not_yet" /\ (LineComes \/ BytesArrive \/ Hear \/ TimePasses)
ReaderSpec == ReaderInit /\ [][ReaderNext]_readerVars

----------------------------------------------------------------------------
(* Properties.                                                             *)
Meant == FlattenSeq([k \in DOMAIN sent |-> sent[k].meant])

ReaderTypeOK ==
    /\ verdict \in {"not_yet", "settled", "expired", "no_answer"}
    /\ rule.repeats \in 0..RepeatsWanted /\ rule.heard \in BOOLEAN
    /\ elapsed \in 0..Budget /\ Len(sent) <= MaxLines

\* Every line is read as it is meant, sign, unit, decimals and state of the
\* scale, however the port cuts the bytes and whatever noise lies between
\* (parse and its three dialects).
ReadsAsMeant ==
    /\ IsPrefix(got, Meant)
    /\ pending = <<>> /\ ~HasLine => got = Meant

\* A settled weight is one the scale has shown as often as asked, as equal
\* numbers and with no word of motion or overload between (Stabilizer::offer).
SettledIsAtRest ==
    verdict = "settled" =>
        /\ Len(got) >= RepeatsWanted
        /\ \A k \in Len(got) - RepeatsWanted + 1..Len(got) :
             /\ got[k].stability = "stable"
             /\ got[k].scaled = got[Len(got)].scaled
             /\ got[k].decimals = got[Len(got)].decimals

\* A scale is called dead only if not a byte was read from it, and a weight
\* unsettled only if some was: the operator looks at the cable or at the pan.
BytesRead == Len(FlattenSeq([k \in DOMAIN sent |-> sent[k].text])) - Len(pending)
DeadMeansSilent ==
    /\ verdict = "no_answer" => BytesRead = 0
    /\ verdict = "expired" => BytesRead > 0

\* The rule asked at the deadline or later gives its verdict, whatever the
\* scale says then: one that talks and never settles cannot hold a sale.
VerdictByDeadline == offered >= Budget => verdict # "not_yet"

\* The weight the till takes is the one the scale shows at rest (scale.rs).
WeightIsTheOneShown ==
    /\ ReaderTypeOK
    /\ ReadsAsMeant /\ SettledIsAtRest
    /\ DeadMeansSilent /\ VerdictByDeadline
============================================================================
