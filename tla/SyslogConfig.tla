---------------------------- MODULE SyslogConfig ---------------------------
(***************************************************************************)
(* From named settings to a collector in package rk_syslog: the bag of     *)
(* texts a caller fills (config.rs, ffi.rs), what opening checks of them   *)
(* (config.rs, spool.rs, transport.rs), and whom a connection made with    *)
(* them accepts (transport.rs).                                            *)
(*                                                                         *)
(* A text is a model string; what it parses to, what lies in the file it   *)
(* names and which certificate it is the hash of are constants.            *)
(***************************************************************************)
EXTENDS Integers, Sequences, FiniteSets, SequencesExt

CONSTANTS
    SettingsOffered, \* <<key, text>> a caller may set, known or not
    Num,       \* text -> the number it is, for texts that are numbers
    FieldTexts,  \* texts that are printable header fields
    Certs,     \* certificates a peer may present: [chain, name, hash]
    Issuers,   \* path -> chains of the certificates in that file
    KeyFiles,  \* paths that hold a private key
    Hashes,    \* text -> the hash it writes in hexadecimal
    ServerNames, \* texts usable as a server name
    FacilityNames,  \* RFC 5424's names of facilities
    MaxSets, MaxSends  \* bounds: calls of config_set, records sent

\* Of the constants.
ConfigAssumption == MaxSets \in Nat

VARIABLES
    values,   \* what was set: key -> text
    sink,     \* Off, or what the open one trusts
    session,  \* Off, or the peer of the stream that is open
    reply,    \* the code of the last answer
    left,     \* what left: [over, to]
    sets      \* calls of config_set so far
configVars == <<values, sink, session, reply, left, sets>>

\* Status::ALL: a code is a place in the row, and a binding asks for its name.
SyslogStatuses == <<"ok", "nullArgument", "invalidUtf8", "unknownConfigKey",
    "invalidConfigValue", "missingConfigKey", "unknownSeverity", "unknownFacility",
    "invalidHeaderField", "invalidStructuredData", "invalidMessage", "queueFull",
    "spoolFull", "spoolIo", "transportIo", "tlsConfig", "timeout", "closed",
    "panicked", "invalidHandle", "unknownStat">>
CodeOf(name) == (CHOOSE k \in DOMAIN SyslogStatuses : SyslogStatuses[k] = name) - 1
StatusName(code) == SyslogStatuses[code + 1]

NoDefault == "no default"
Defaults ==
    [host_name |-> "-", app_name |-> "-", proc_id |-> "-", facility |-> "local0",
     spool_dir |-> NoDefault, spool_max_bytes |-> "67108864",
     spool_segment_bytes |-> "1048576", spool_policy |-> "drop_oldest",
     queue_max_records |-> "4096", queue_policy |-> "reject",
     collector_scheme |-> "none", collector_host |-> "", collector_port |-> "6514",
     tls_server_name |-> "", tls_roots_pem |-> "", tls_server_fingerprint_sha256 |-> "",
     tls_client_cert_pem |-> "", tls_client_key_pem |-> "", max_message_bytes |-> "8192",
     oversize |-> "truncate", msg_bom |-> "true", connect_timeout_ms |-> "5000",
     write_timeout_ms |-> "5000", retry_min_ms |-> "500", retry_max_ms |-> "30000"]
ConfigKeys == DOMAIN Defaults

\* raw: what was set, else the default.
Raw(key) == IF key \in DOMAIN values THEN values[key] ELSE Defaults[key]
Missing(key) == Raw(key) = NoDefault

IsNumber(key) == Raw(key) \in DOMAIN Num /\ Num[Raw(key)] >= 0
IsPort(key) == IsNumber(key) /\ Num[Raw(key)] <= 65535
Named(key, allowed) == Raw(key) \in allowed
FieldOk(key) == Raw(key) = "-" \/ Raw(key) \in FieldTexts

\* The rules and schemes that have a name: QueuePolicy, SpoolPolicy, Scheme,
\* Oversize.
QueuePolicies == {"drop_oldest", "reject"}
SpoolPolicies == {"drop_oldest", "reject"}
Schemes == {"none", "tls", "tcp"}
Oversizes == {"truncate", "reject"}

\* What a caller is told: the first complaint, in the order of build.
Complaint(name, when) == [name |-> name, when |-> when]
RetryWrong == \/ Num[Raw("retry_min_ms")] > Num[Raw("retry_max_ms")]
              \/ Num[Raw("retry_min_ms")] = 0
Value(wrong) == Complaint("invalidConfigValue", wrong)
BuildChecks == <<
    Complaint("invalidHeaderField", ~\A k \in {"host_name", "app_name", "proc_id"} : FieldOk(k)),
    Complaint("unknownFacility", ~Named("facility", FacilityNames)),
    Value(~IsNumber("max_message_bytes") \/ Num[Raw("max_message_bytes")] < 480),
    Value(~IsNumber("spool_max_bytes") \/ ~IsNumber("spool_segment_bytes")),
    Value(~Named("spool_policy", SpoolPolicies)),
    Value(~Named("collector_scheme", Schemes)),
    Value(~IsPort("collector_port")),
    Value(~IsNumber("connect_timeout_ms") \/ ~IsNumber("write_timeout_ms")),
    Value(~IsNumber("retry_min_ms") \/ ~IsNumber("retry_max_ms") \/ RetryWrong),
    Complaint("missingConfigKey", Missing("spool_dir")),
    Value(~IsNumber("queue_max_records")),
    Value(~Named("queue_policy", QueuePolicies)),
    Value(~Named("oversize", Oversizes)),
    Value(~Named("msg_bom", {"true", "false"}))>>

\* Spool::open
SpoolChecks == <<
    Value(Num[Raw("spool_segment_bytes")] = 0
          \/ Num[Raw("spool_max_bytes")] < Num[Raw("spool_segment_bytes")])>>

\* build_client_config: whom to believe.  A pin wins over roots.
Roots == Raw("tls_roots_pem")
Pin == Raw("tls_server_fingerprint_sha256")
Readable(path) == path \in DOMAIN Issuers
ClientCert == Raw("tls_client_cert_pem")
ClientKey == Raw("tls_client_key_pem")
TlsChecks == <<
    Complaint("tlsConfig", Roots = "" /\ Pin = ""),
    Complaint("tlsConfig", Pin = "" /\ (~Readable(Roots) \/ Issuers[Roots] = {})),
    Value(Pin # "" /\ Pin \notin DOMAIN Hashes),
    Value((ClientCert = "") # (ClientKey = "")),
    Complaint("tlsConfig", ClientCert # "" /\ ~(Readable(ClientCert) /\ ClientKey \in KeyFiles))>>

\* Transport::new
TransportChecks ==
    (IF Raw("collector_scheme") = "tls" THEN TlsChecks ELSE <<>>)
        \o <<Value(Raw("collector_scheme") # "none" /\ Raw("collector_host") = "")>>

\* Checked in turn: a later one may rely on what an earlier one established.
FirstOf(checks) ==
    LET wrong == {k \in DOMAIN checks : checks[k].when} IN
    IF wrong = {} THEN "ok" ELSE checks[CHOOSE k \in wrong : \A j \in wrong : k <= j].name
Verdict ==
    LET build == FirstOf(BuildChecks)
        spool == FirstOf(SpoolChecks)
    IN  IF build # "ok" THEN build
        ELSE IF spool # "ok" THEN spool ELSE FirstOf(TransportChecks)

Trusted ==
    [scheme |-> Raw("collector_scheme"), host |-> Raw("collector_host"),
     name |-> IF Raw("tls_server_name") = "" THEN Raw("collector_host")
              ELSE Raw("tls_server_name"),
     pin |-> Pin, roots |-> Roots, asked |-> values]

Off == [scheme |-> "off"]
ConfigInit ==
    /\ values = <<>> /\ sink = Off /\ session = Off /\ reply = CodeOf("ok")
    /\ left = {} /\ sets = 0

\* The settings with one of them set.
With(key, text) ==
    [k \in DOMAIN values \cup {key} |-> IF k = key THEN text ELSE values[k]]

\* rk_syslog_config_set
ConfigSet ==
    /\ sets < MaxSets /\ sets' = sets + 1
    /\ \E o \in SettingsOffered :
         IF o[1] \in ConfigKeys
         THEN values' = With(o[1], o[2]) /\ reply' = CodeOf("ok")
         ELSE UNCHANGED values /\ reply' = CodeOf("unknownConfigKey")
    /\ UNCHANGED <<sink, session, left>>

\* rk_syslog_open: build, Spool::open, Transport::new.
OpenSink ==
    /\ sink = Off
    /\ reply' = CodeOf(Verdict)
    /\ sink' = IF Verdict = "ok" THEN Trusted ELSE Off
    /\ UNCHANGED <<values, session, left, sets>>

\* rk_syslog_close
CloseSinkOnly ==
    /\ sink # Off
    /\ sink' = Off /\ UNCHANGED <<values, session, left, reply, sets>>

CloseSink ==
    /\ sink # Off
    /\ sink' = Off /\ session' = Off /\ left' = {}
    /\ UNCHANGED <<values, reply, sets>>

\* Whom the TLS session accepts: PinnedVerifier, or the library's own check of
\* the chain and the name.
AcceptsRootsFirst(cert) ==
    IF Readable(sink.roots) THEN cert.chain \in Issuers[sink.roots] /\ cert.name = sink.name
    ELSE cert.hash = Hashes[sink.pin]

Accepts(cert) ==
    IF sink.pin # "" THEN cert.hash = Hashes[sink.pin]
    ELSE cert.chain \in Issuers[sink.roots] /\ cert.name = sink.name

\* connect: nobody answers, or the settings cannot make a session; else the
\* peer is whoever is there, behind a plain stream without a certificate.
Connectable == sink.scheme = "tls" => sink.name \in ServerNames
Listeners == IF sink.scheme = "tls" THEN {c \in Certs : Accepts(c)} ELSE {[chain |-> "none"]}

\* send: connect if need be, write, flush.
SendRecord ==
    /\ sink # Off /\ Cardinality(left) < MaxSends
    /\ sink.scheme # "none"
    /\ \E peer \in IF session # Off THEN {session} ELSE IF Connectable THEN Listeners ELSE {} :
         /\ session' = peer
         /\ left' = left \cup {[over |-> sink.scheme, to |-> peer]}
    /\ UNCHANGED <<values, sink, reply, sets>>

SendFails ==
    /\ sink # Off /\ sink.scheme # "none"
    /\ session' = Off
    /\ UNCHANGED <<values, sink, reply, left, sets>>

ConfigNext == ConfigSet \/ OpenSink \/ CloseSink \/ SendRecord \/ SendFails
ConfigSpec == ConfigInit /\ [][ConfigNext]_configVars
----------------------------------------------------------------------------
ConfigTypeOK ==
    /\ DOMAIN values \subseteq ConfigKeys
    /\ reply \in 0..(Len(SyslogStatuses) - 1)
    /\ session = Off \/ sink # Off
    /\ sets \in 0..MaxSets

\* Nobody is trusted by default, whatever was set, in whatever order and with
\* whatever sinks before: nothing leaves without a collector named; where TLS
\* was asked for nothing goes out plain, and it goes to the certificate the
\* operator pinned or to one of the operator's own roots under the right name.
LeavesForTheCollector ==
    \A s \in left :
        /\ sink.asked["collector_scheme"] = s.over /\ sink.asked["collector_host"] # ""
        /\ s.over = "tls" =>
             LET given(key) == IF key \in DOMAIN sink.asked THEN sink.asked[key] ELSE ""
                 pin == given("tls_server_fingerprint_sha256")
             IN  IF pin # "" THEN s.to.hash = Hashes[pin]
                 ELSE /\ s.to.chain \in Issuers[given("tls_roots_pem")]
                      /\ s.to.name = IF given("tls_server_name") # ""
                                     THEN given("tls_server_name")
                                     ELSE given("collector_host")

\* Nothing leaves for anyone but the collector the settings name, over what
\* they ask for (config.rs, transport.rs).
OnlyTheCollector == ConfigTypeOK /\ LeavesForTheCollector

\* A sink that opened has TLS settings it can use: what is wrong with them is
\* said at opening, not found out at a send.
TlsSettingsUsable ==
    sink # Off /\ sink.scheme = "tls" =>
        /\ sink.name \in ServerNames
        /\ sink.roots = "" \/ sink.roots \in DOMAIN Issuers
============================================================================
