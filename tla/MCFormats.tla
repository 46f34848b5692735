----------------------------- MODULE MCFormats -----------------------------
(***************************************************************************)
(* What the native packages read and write as text, on small instances for *)
(* TLC: a syslog record (SyslogRecord), a syslog sink's settings and whom   *)
(* they make it trust (SyslogConfig), a DNS name (MdnsName).  Each is one   *)
(* caller's business; a behaviour is one of theirs, the others not being    *)
(* there.                                                                  *)
(***************************************************************************)
EXTENDS SyslogConfig, NativePart

CONSTANTS Header, MaxMessage, Bom, Oversize, SdNames, MaxSubmits, \* SyslogRecord
          MaxLabel, MaxName, MaxJumps, MaxString                \* MdnsName

VARIABLES
    sd, octets, submitted, calls,
    datagram, at, labels, next, jumps, total, outcome

----------------------------------------------------------------------------
(* Records: every character that is escaped, refused or wide, no message   *)
(* and an empty one, and the days where a calendar goes wrong.             *)
Say(severity, facility, msgid, moment, offset, message) ==
    [severity |-> severity, facility |-> facility, msgid |-> msgid,
     moment |-> moment, offset |-> offset, message |-> message]
\* Leap days, ends of centuries and eras, the first and the last year.
Moments == {<<<<0, 0>>, -60>>, <<<<59, 30>>, 1439>>, <<<<19782, 10>>, -60>>,
    <<<<19783, 1430>>, 60>>, <<<<11016, 700>>, 0>>, <<<<-25508, 5>>, -1439>>,
    <<<<-719528, 0>>, 0>>, <<<<-719528, 0>>, -1>>, <<<<-719469, 3>>, -60>>,
    <<<<2932896, 1439>>, 0>>, <<<<2932896, 1439>>, 1>>}
Sayings ==
    {Say("debug", "", "", m[1], m[2], <<>>) : m \in Moments}
    \cup {Say("warning", "local7", "id", <<20000, 600>>, 300, <<text>>) :
            text \in {<<>>, <<"a", "nl", "q">>, <<"[", "w", "w">>,
                      <<"a", "w", "w", "w", "w", "w", "w", "w", "w">>}}
    \cup {Say("alert", "user", "id", <<20000, 600>>, 1440, << <<"a">> >>),
          Say("panic", "user", "id", <<20000, 600>>, 0, << <<"a">> >>),
          Say("alert", "cron", "sp", <<20000, 600>>, 0, << <<"a">> >>)}
Record == INSTANCE SyslogRecord
    WITH stream <- octets, MaxCalls <- MaxSubmits, Names <- SdNames,
         Values <- {<<"q", "bs">>, <<"]", "w">>, <<"nl">>},
         Said <- Sayings, SinkFacility <- "local0"

----------------------------------------------------------------------------
(* Settings: for each kind one text that is right and one for each way it  *)
(* can be wrong.                                                           *)
Settings == {
    <<"spool_dir", "dir">>, <<"spool_max_byte", "1">>, <<"spool_max_bytes", "1">>,
    <<"host_name", "two words">>, <<"facility", "local8">>, <<"max_message_bytes", "479">>,
    <<"collector_port", "65536">>, <<"retry_min_ms", "0">>, <<"retry_max_ms", "x">>,
    <<"msg_bom", "yes">>,
    <<"collector_scheme", "tls">>, <<"collector_scheme", "tcp">>,
    <<"collector_host", "here">>, <<"collector_host", "h h">>, <<"tls_server_name", "there">>,
    <<"tls_roots_pem", "ca">>, <<"tls_roots_pem", "nowhere">>, <<"tls_roots_pem", "">>,
    <<"tls_server_fingerprint_sha256", "AB:CD">>, <<"tls_server_fingerprint_sha256", "AB">>,
    <<"tls_client_cert_pem", "me">>, <<"tls_client_key_pem", "me.key">>}
Numbers == ("67108864" :> 67108864) @@ ("1048576" :> 1048576) @@ ("4096" :> 4096)
    @@ ("6514" :> 6514) @@ ("8192" :> 8192) @@ ("5000" :> 5000) @@ ("500" :> 500)
    @@ ("30000" :> 30000) @@ ("1" :> 1) @@ ("479" :> 479) @@ ("65536" :> 65536) @@ ("0" :> 0)
Presented == {[chain |-> c, name |-> n, hash |-> h] :
    c \in {"ours", "theirs"}, n \in {"here", "there"}, h \in {1, 2}}
MCIssuers == ("ca" :> {"ours"}) @@ ("me" :> {"ours"})
MCHashes == "AB:CD" :> 1

----------------------------------------------------------------------------
(* The name codec: every short datagram of a few bytes, and names written  *)
(* plain, compressed once and compressed twice.                            *)
Pointer == 192
OneLabel(label) == <<Len(label)>> \o label
Plainly(name) == FlattenSeq([k \in DOMAIN name |-> OneLabel(name[k])]) \o <<0>>
ShortDatagrams == {[bytes |-> b, start |-> s, meant |-> <<>>, after |-> 0] :
           b \in BoundedSeq({0, 1, 2, 3, 97, Pointer}, 5), s \in 0..2}
Labels == {<<97>>, <<97, 98>>}
FewNames == {<<l>> : l \in Labels} \cup {<<l, k>> : l, k \in Labels}
\* A name n, then one that ends in a pointer into it, then a byte more.
PointsAt(n, skip) == IF skip = 0 THEN 0 ELSE Len(n[1]) + 1
Compressed ==
    {[bytes |-> Plainly(n) \o OneLabel(l) \o <<Pointer, PointsAt(n, skip), 7>>,
      start |-> Len(Plainly(n)),
      meant |-> <<l>> \o SubSeq(n, skip + 1, Len(n)),
      after |-> Len(Plainly(n)) + Len(l) + 3] : n \in FewNames, l \in Labels, skip \in 0..1}
\* And one whose pointer leads to a name that itself ends in a pointer.
TwiceCompressed ==
    {[bytes |-> c.bytes \o OneLabel(l) \o <<Pointer, c.start, 7>>,
      start |-> Len(c.bytes),
      meant |-> <<l>> \o c.meant,
      after |-> Len(c.bytes) + Len(l) + 3] : c \in Compressed, l \in Labels}
Uncompressed ==
    {[bytes |-> <<7>> \o Plainly(n) \o <<7>>, start |-> 1, meant |-> n,
      after |-> 1 + Len(Plainly(n))] : n \in FewNames}
\* Labels of a letter, a blank, a dot, a backslash and a byte beyond ASCII.
ShownNames == LET ls == BoundedSeq({97, 32, 46, 92, 195}, 2) \ {<<>>}
              IN {<<l>> : l \in ls} \cup {<<l, k>> : l \in ls, k \in {<<46>>, <<97, 92>>}}
Name == INSTANCE MdnsName
    WITH wire <- datagram,
         Datagrams <- ShortDatagrams \cup Compressed \cup TwiceCompressed \cup Uncompressed,
         Names <- ShownNames, Texts <- BoundedSeq({<<>>, <<97>>, <<97, 98>>, <<97, 98, 99>>}, 2)

ASSUME FormatsAssumption ==
    Record!RecordAssumption /\ Name!NameAssumption /\ ConfigAssumption

----------------------------------------------------------------------------
recordVars == <<sd, octets, submitted, calls>>
nameVars == <<datagram, at, labels, next, jumps, total, outcome>>
formatVars == <<recordVars, configVars, nameVars>>

NoName ==
    /\ datagram = "off" /\ at = "off" /\ labels = "off" /\ next = "off" /\ jumps = "off"
    /\ total = "off" /\ outcome = "off"
NoFormat == Record!Init /\ ConfigInit /\ NoName
FormatInit ==
    \/ which \in {"record", "config"} /\ NoFormat
    \/ which = "name" /\ Record!Init /\ ConfigInit /\ Name!Init

RecordSteps == Alone("record") /\ Record!Next /\ UNCHANGED <<configVars, nameVars>>
ConfigSteps == Alone("config") /\ ConfigNext /\ UNCHANGED <<recordVars, nameVars>>
NameSteps == Alone("name") /\ Name!Next /\ UNCHANGED <<recordVars, configVars>>
FormatNext == RecordSteps \/ ConfigSteps \/ NameSteps

----------------------------------------------------------------------------
(* Properties.                                                             *)

\* The collector gets the records that were submitted, cut where they end, and
\* reads in each what the caller said, its instant included, whole or cut with
\* the mark that says so (rk_syslog, rfc5424.rs).
CollectorReadsWhatWasSaid ==
    which = "record" =>
        /\ Record!TypeOK
        /\ Record!CollectorSplits /\ Record!ReadsBack /\ Record!StampIsTheMoment

\* A name is read as it was written, compressed or not, what arrives cannot
\* lead the reader out of the datagram; the text shown for a name of printable
\* characters reads back as it was, and TXT strings do, cut where they are too
\* long and without the empty ones (rk_mdns, name.rs, record.rs).
NamesReadBack ==
    which = "name" =>
        /\ Name!TypeOK /\ Name!ReadsWhatWasMeant
        /\ Name!ShownParsesBack /\ Name!TxtSurvives

\* What the docs say beyond that (rk_mdns, name.rs:224, README.md:24-27).
EveryNameParsesBack == which = "name" => Name!EveryNameParsesBack
OwnTxtIsNoContest == which = "name" => Name!OwnTxtIsNoContest
============================================================================
