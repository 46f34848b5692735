--------------------------- MODULE MCSyslogSink ----------------------------
(* Small instances of the syslog sink for TLC. *)
EXTENDS SyslogSink, TLC

\* The default rules, and both rules of the spool on a till without a collector;
\* on the latter a batch may be refused.
MCRules == {[queue |-> "reject", spool |-> "drop_oldest", enabled |-> TRUE, refuses |-> FALSE],
            [queue |-> "drop_oldest", spool |-> "reject", enabled |-> FALSE, refuses |-> TRUE],
            [queue |-> "drop_oldest", spool |-> "drop_oldest", enabled |-> FALSE, refuses |-> TRUE]}
============================================================================
