-------------------------- MODULE MCMdnsResponder --------------------------
(* Small instances of the responders for TLC. *)
EXTENDS MdnsResponder, TLC

Config(host, address) ==
    [instance |-> 1, host |-> host, attempt |-> 1, port |-> 443, txt |-> 0,
     addresses |-> {<<A, address>>}, hostTtl |-> 120, serviceTtl |-> 120]
\* Tills given one name; the host name is the instance's unless it is set.
SameNames == 1 :> Config(1, 1) @@ 2 :> Config(1, 2) @@ 3 :> Config(1, 3)
OwnHosts == 1 :> Config(1, 1) @@ 2 :> Config(2, 2)
============================================================================
