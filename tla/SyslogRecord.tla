---------------------------- MODULE SyslogRecord ---------------------------
(***************************************************************************)
(* Framing of rk_syslog: a caller builds structured data call by call      *)
(* (ffi.rs), a record is turned into the octets of one message             *)
(* (rfc5424.rs, severity.rs, time.rs) and put on the socket behind its     *)
(* length (transport.rs).                                                  *)
(*                                                                         *)
(* Octets are tokens.  A character is one token, except the wide one, "w", *)
(* which takes two; names and numbers are one token each, and Header       *)
(* tokens stand for the constant fields of the header.                     *)
(***************************************************************************)
EXTENDS Integers, Sequences, SequencesExt, TLC

CONSTANTS
    Header,     \* octets of version, host, application and process
    MaxMessage, \* max_message_bytes
    Bom,        \* msg_bom
    Oversize,   \* truncate or reject
    Names,      \* SD-IDs and parameter names a caller uses
    Values,     \* texts given as parameter values
    Said,       \* what else a record says: severity, facility or "" for the
                \* sink's own, message id or "" for none, its instant
                \* <<days since 1970, minute>>, the zone, the message: the
                \* sequence of its one text, or of none
    SinkFacility, \* the facility the sink was configured with
    MaxCalls    \* bound: calls made

RkId == "rkSyslog@0"
\* Of the constants.
RecordAssumption ==
    /\ Header \in Nat /\ MaxMessage \in Nat /\ Bom \in BOOLEAN
    /\ Oversize \in {"truncate", "reject"} /\ RkId \notin Names

VARIABLES
    sd,      \* elements: an id and its parameters
    stream,  \* octets written to the socket
    submitted, \* history: what each accepted record said
    calls

vars == <<sd, stream, submitted, calls>>

Control == {"nl"}
Octets(text) == FoldLeft(LAMBDA out, ch : out \o (IF ch = "w" THEN <<"w1", "w2">> ELSE <<ch>>),
                         <<>>, text)

\* format_timestamp and civil_from_days, in whole minutes.  Rust divides
\* towards zero.
TruncDiv(a, b) == IF a >= 0 THEN a \div b ELSE -((-a) \div b)
CivilFromDays(days) ==
    LET z == days + 719468
        era == TruncDiv(IF z >= 0 THEN z ELSE z - 146096, 146097)
        doe == z - era * 146097
        yoe == (doe - doe \div 1460 + doe \div 36524 - doe \div 146096) \div 365
        doy == doe - (365 * yoe + yoe \div 4 - yoe \div 100)
        mp == (5 * doy + 2) \div 153
        month == IF mp < 10 THEN mp + 3 ELSE mp - 9
    IN  <<yoe + era * 400 + (IF month <= 2 THEN 1 ELSE 0), month,
          doy - (153 * mp + 2) \div 5 + 1>>

\* The local day and minute of an instant; days and minutes overflow apart.
LocalTruncated(moment, offset) ==
    <<moment[1] + TruncDiv(moment[2] + offset, 1440), (moment[2] + offset) % 1440>>

Local(moment, offset) ==
    <<moment[1] + (moment[2] + offset) \div 1440, (moment[2] + offset) % 1440>>
Timestamp(moment, offset) ==
    [date |-> CivilFromDays(Local(moment, offset)[1]),
     minute |-> Local(moment, offset)[2], offset |-> offset]
Stampable(moment, offset) ==
    /\ offset \in -1439..1439
    /\ CivilFromDays(Local(moment, offset)[1])[1] \in 0..9999

\* The names of RFC 5424's two enumerations; a number is a place in a row.
Severities == <<"emergency", "alert", "critical", "error", "warning", "notice",
    "informational", "debug">>
Facilities == <<"kern", "user", "mail", "daemon", "auth", "syslog", "lpr", "news",
    "uucp", "cron", "authpriv", "ftp", "ntp", "audit", "alert", "clock", "local0",
    "local1", "local2", "local3", "local4", "local5", "local6", "local7">>
FromName(table, name) == (CHOOSE k \in DOMAIN table : table[k] = name) - 1
Prival(facility, severity) ==
    (FromName(Facilities, facility) * 8 + FromName(Severities, severity)) % 256

\* check_field and check_sd_name, of names that are one character.
HeaderField(name) == name \notin {"", "sp", "nl", "w"}
SdName(name) == name \notin {"", "sp", "nl", "w", "=", "]", "q"}
ParamValue(text) == ToSet(text) \cap Control = {}

\* escape_param_value, and write_into.
Escape(text) ==
    FoldLeft(LAMBDA out, ch : out \o (IF ch \in {"q", "bs", "]"} THEN <<"bs", ch>> ELSE <<ch>>),
             <<>>, Octets(text))
WriteParams(params) ==
    FoldLeft(LAMBDA out, p : out \o <<"sp", p.name, "=", "q">> \o Escape(p.value) \o <<"q">>,
             <<>>, params)
WriteInto(elements) ==
    IF elements = <<>> THEN <<"-">>
    ELSE FoldLeft(LAMBDA out, e : out \o <<"[", e.id>> \o WriteParams(e.params) \o <<"]">>,
                  <<>>, elements)

Prefix(r, elements) ==
    <<Prival(r.facility, r.severity)>> \o [k \in 1..Header |-> "h"]
        \o <<Timestamp(r.moment, r.offset), r.msgid, "sp">> \o WriteInto(elements)
BomOctets == IF Bom THEN <<"bom">> ELSE <<>>
MessagePart(octets) == <<"sp">> \o BomOctets \o octets
\* A record without a message ends behind its structured data.
Build(r, elements, message) ==
    Prefix(r, elements) \o FlattenSeq([k \in DOMAIN message |-> MessagePart(message[k])])
\* The octets of the message, none where there is none.
Text(r) == FlattenSeq([k \in DOMAIN r.message |-> Octets(r.message[k])])

\* The octets of the message that fit, back to a character's end.
CutAnywhere(octets, budget) ==
    SubSeq(octets, 1, IF budget < Len(octets) THEN budget ELSE Len(octets))

CutBack(octets, budget) ==
    LET cut == IF budget < Len(octets) THEN budget ELSE Len(octets) IN
    SubSeq(octets, 1, IF cut > 0 /\ octets[cut] = "w1" THEN cut - 1 ELSE cut)

\* frame: whole, or refused, or marked and cut.  The empty sequence is a
\* refusal.
Frame(r) ==
    LET whole == Build(r, r.sd, [k \in DOMAIN r.message |-> Octets(r.message[k])])
        marked == Append(r.sd, [id |-> RkId, params |->
                    <<[name |-> "truncated", value |-> <<"1">>],
                      [name |-> "originalBytes", value |-> <<"n">>]>>])
        room == MaxMessage - Len(Build(r, marked, << <<>> >>))
    IN  IF Len(whole) <= MaxMessage THEN whole
        ELSE IF Oversize = "reject" \/ room <= 0 THEN <<>>
        ELSE Build(r, marked, <<CutBack(Text(r), room)>>)

\* octet_count_frame.
OctetCountWithSpace(octets) == <<[length |-> Len(octets) + 1]>> \o octets

OctetCountFrame(octets) == <<[length |-> Len(octets)]>> \o octets

Init == sd = <<>> /\ stream = <<>> /\ submitted = <<>> /\ calls = 0

Called == calls < MaxCalls /\ calls' = calls + 1

\* rk_syslog_sd_element
PushElement ==
    /\ Called
    /\ \E name \in Names :
         /\ SdName(name)
         /\ sd' = Append(sd, [id |-> name, params |-> <<>>])
    /\ UNCHANGED <<stream, submitted>>

\* rk_syslog_sd_param: refused without an element, or with a control
\* character in the value.
PushParam ==
    /\ Called /\ sd # <<>>
    /\ \E name \in Names, value \in Values :
         /\ SdName(name) /\ ParamValue(value)
         /\ sd' = [sd EXCEPT ![Len(sd)].params = Append(@, [name |-> name, value |-> value])]
    /\ UNCHANGED <<stream, submitted>>

\* rk_syslog_sd_clear
Clear ==
    /\ Called /\ sd # <<>>
    /\ sd' = <<>>
    /\ UNCHANGED <<stream, submitted>>

\* rk_syslog_submit with the data built so far; a name it does not know, a
\* field or an instant it cannot write, a record too large are refused and
\* leave nothing behind.
Submit ==
    /\ Called
    /\ \E said \in Said :
         LET r == [said EXCEPT
                     !.facility = IF @ = "" THEN SinkFacility ELSE @,
                     !.msgid = IF @ = "" THEN "-" ELSE @] @@ [sd |-> sd] IN
         /\ r.severity \in ToSet(Severities) /\ r.facility \in ToSet(Facilities)
         /\ HeaderField(r.msgid)
         /\ Stampable(said.moment, said.offset)
         /\ Frame(r) # <<>>
         /\ stream' = stream \o OctetCountFrame(Frame(r))
         /\ submitted' = Append(submitted, r)
    /\ UNCHANGED sd

Next == PushElement \/ PushParam \/ Clear \/ Submit
Spec == Init /\ [][Next]_vars
----------------------------------------------------------------------------
(* What a collector reads: RFC 5425's framing, then RFC 5424's grammar. *)

\* The stream cut at its lengths.
Split(octets) ==
    FoldLeft(LAMBDA st, t :
        IF st.left = 0 THEN [left |-> t.length, got |-> Append(st.got, <<>>)]
        ELSE [left |-> st.left - 1,
              got |-> [st.got EXCEPT ![Len(st.got)] = Append(@, t)]],
        [left |-> 0, got |-> <<>>], octets)

\* Structured data read octet by octet; what follows the space behind it is
\* the message.
ReadOctet(st, t) ==
    LET e == Len(st.sd)
        p == IF e = 0 THEN 0 ELSE Len(st.sd[e].params)
        value(x) == [st EXCEPT !.sd[e].params[p].value = Append(@, x), !.mode = "value"]
    IN  CASE st.mode = "start" /\ t = "-" -> [st EXCEPT !.mode = "end"]
          [] st.mode \in {"start", "end"} /\ t = "[" -> [st EXCEPT !.mode = "id"]
          [] st.mode \in {"id", "name"} /\ t \in {"=", "]", "q", "sp"} ->
               [st EXCEPT !.mode = "wrong"]
          [] st.mode = "id" ->
               [st EXCEPT !.mode = "in", !.sd = Append(@, [id |-> t, params |-> <<>>])]
          [] st.mode = "in" /\ t = "]" -> [st EXCEPT !.mode = "end"]
          [] st.mode = "in" /\ t = "sp" -> [st EXCEPT !.mode = "name"]
          [] st.mode = "name" ->
               [st EXCEPT !.mode = "=", !.sd[e].params = Append(@, [name |-> t, value |-> <<>>])]
          [] st.mode = "=" /\ t = "=" -> st
          [] st.mode = "=" /\ t = "q" -> [st EXCEPT !.mode = "value"]
          [] st.mode = "value" /\ t = "bs" -> [st EXCEPT !.mode = "escaped"]
          [] st.mode = "value" /\ t = "q" -> [st EXCEPT !.mode = "in"]
          [] st.mode \in {"value", "escaped"} -> value(t)
          [] st.mode = "end" /\ t = "sp" -> [st EXCEPT !.mode = "message"]
          [] st.mode = "message" -> [st EXCEPT !.message = Append(@, t)]
          [] OTHER -> [st EXCEPT !.mode = "wrong"]

Read(octets) ==
    FoldLeft(ReadOctet, [mode |-> "start", sd |-> <<>>, message |-> <<>>],
             SubSeq(octets, Header + 5, Len(octets)))

SdOctets(elements) ==
    [k \in DOMAIN elements |-> [id |-> elements[k].id, params |->
        [j \in DOMAIN elements[k].params |->
            [name |-> elements[k].params[j].name,
             value |-> Octets(elements[k].params[j].value)]]]]

\* The date of a stamp counted back by the calendar.
Leap(y) == (y % 4 = 0 /\ y % 100 # 0) \/ y % 400 = 0
MonthDays(y, m) == IF m = 2 THEN IF Leap(y) THEN 29 ELSE 28
                   ELSE IF m \in {4, 6, 9, 11} THEN 30 ELSE 31
DaysFromCivil(date) ==
    LET y == date[1]
        before == FoldLeft(LAMBDA n, m : n + MonthDays(y, m), 0, [m \in 1..(date[2] - 1) |-> m])
        to(n) == 365 * n + (n + 3) \div 4 - (n + 99) \div 100 + (n + 399) \div 400
    IN  to(y) - to(1970) + before + date[3] - 1

TypeOK ==
    /\ sd \in Seq([id : Names, params : Seq([name : Names, value : Values])])
    /\ calls \in 0..MaxCalls
    /\ Len(submitted) <= calls

\* The collector gets the records that were submitted, no more and no fewer,
\* each within the agreed size: a message may hold anything, and no value,
\* escape or wide character moves the boundary of the next record.
CollectorSplits ==
    LET got == Split(stream).got IN
    /\ Split(stream).left = 0 /\ Len(got) = Len(submitted)
    /\ \A k \in DOMAIN got : Len(got[k]) <= MaxMessage

\* Each record reads back as what the caller said: its priority, its
\* structured data and its message, if it has one, whole, or cut between two
\* characters and then carrying the mark that says so.
ReadsBack ==
    \A k \in DOMAIN submitted :
        LET r == submitted[k]
            octets == Split(stream).got[k]
            read == Read(octets)
            text == Text(r)
            said == SubSeq(read.message, Len(BomOctets) + 1, Len(read.message))
            marked == Len(read.sd) = Len(r.sd) + 1
        IN  /\ Facilities[octets[1] \div 8 + 1] = r.facility
            /\ Severities[(octets[1] % 8) + 1] = r.severity
            /\ octets[Header + 3] = r.msgid
            /\ read.mode = IF r.message = <<>> THEN "end" ELSE "message"
            /\ SubSeq(read.sd, 1, Len(r.sd)) = SdOctets(r.sd)
            /\ marked <=> said # text
            /\ marked => read.sd[Len(read.sd)].id = RkId
            /\ IsPrefix(said, text)
            /\ said # <<>> => said[Len(said)] # "w1"

\* The date and time of a stamp, read by the calendar and put back to UTC,
\* are the instant the caller gave.
StampIsTheMoment ==
    \A k \in DOMAIN submitted :
        LET r == submitted[k]
            stamp == Split(stream).got[k][Header + 2]
            utc == stamp.minute - stamp.offset
        IN  <<DaysFromCivil(stamp.date) + utc \div 1440, utc % 1440>> = r.moment
============================================================================
