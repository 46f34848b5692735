---------------------------- MODULE MCMdnsClient ----------------------------
(***************************************************************************)
(* The side of rk_mdns that looks for tills, on small instances for TLC:   *)
(* the browser and its cache (MdnsBrowser), and the handles and threads of  *)
(* the C interface over both engines (MdnsHandles).  Each is taken alone    *)
(* here: a behaviour is one of theirs, the other resting in its initial     *)
(* state.  The responder has a run of its own.                             *)
(***************************************************************************)
EXTENDS MdnsHandles, NativePart

CONSTANTS HostTtl, ServiceTtl, Grace, FirstInterval, MaxInterval, Announcements,
          AnnounceInterval, MaxTillStarts, MaxLost                     \* MdnsBrowser

VARIABLES till, inbox, cache, known, due, interval, count

----------------------------------------------------------------------------
(* The browser, and one till that may have either of two addresses.        *)
Browser == INSTANCE MdnsBrowser
    WITH Tills <- {1}, Places <- {<<1, 1>>, <<1, 2>>}, MaxStarts <- MaxTillStarts

----------------------------------------------------------------------------
(* The handles: hosts without a network and with one, one configuration for *)
(* each way a start is refused, one that succeeds.                         *)
MCKinds == {"responder", "browser"}
If(name, family, address, loop) ==
    [name |-> name, family |-> family, address |-> address, loopback |-> loop]
MCMachines == {{},
    {If("lo", "v4", "127.0.0.1", TRUE), If("eth0", "v4", "10.0.0.2", FALSE),
     If("eth0", "v6", "fd00::2", FALSE)}}
Cfg(only, except, loop) == [legal |-> TRUE, only |-> only, except |-> except, loopback |-> loop,
    ipv6 |-> FALSE, explicit |-> {}]
MCConfigs == {Cfg({}, {}, TRUE), Cfg({"eth1"}, {}, FALSE), Cfg({"eth0"}, {"eth0"}, FALSE),
    [Cfg({"lo"}, {}, TRUE) EXCEPT !.ipv6 = TRUE], [Cfg({}, {}, TRUE) EXCEPT !.legal = FALSE]}
Rec(host, ttl, address) == [host |-> host, ttl |-> ttl, address |-> address]
MCMessages == {
    [response |-> TRUE, records |-> <<Rec("till", 1, "10.0.0.2"), Rec("other", 1, "10.0.0.3"),
                                      Rec("till", 0, "10.0.0.4")>>],
    [response |-> FALSE, records |-> <<Rec("till", 1, "fd00::2")>>]}

ASSUME ClientAssumption == Browser!BrowserAssumption /\ HandlesAssumption

----------------------------------------------------------------------------
browserVars == <<till, inbox, cache, known, due, interval, count>>
clientVars == <<which, browserVars, vars>>

ClientInit == Browser!Init /\ Init /\ which \in {"browser", "handles"}

BrowserSteps == Alone("browser") /\ Browser!Next /\ UNCHANGED vars
HandlesSteps == Alone("handles") /\ Next /\ UNCHANGED browserVars
ClientNext == BrowserSteps \/ HandlesSteps

Browse == Alone("browser") /\ Browser!Browse /\ UNCHANGED vars
Announce == Alone("browser") /\ Browser!AnnounceAgain(1) /\ UNCHANGED vars
EngineEnds(o) ==
    /\ Alone("handles") /\ o \in DOMAIN objects /\ End(o)
    /\ UNCHANGED browserVars
StopReturns(t) == Alone("handles") /\ Joined(t) /\ UNCHANGED browserVars
\* The fairness of MdnsBrowser and of MdnsHandles: the browser's loop runs, a
\* till that is up announces, an engine looks at its flag, a joiner is woken.
ClientSpec ==
    /\ ClientInit /\ [][ClientNext]_clientVars
    /\ WF_clientVars(Browse) /\ WF_clientVars(Announce)
    /\ \A o \in 1..MaxStarts : WF_clientVars(EngineEnds(o))
    /\ \A t \in Threads : WF_clientVars(StopReturns(t))

----------------------------------------------------------------------------
(* Properties of the browser; those of the handles are MdnsHandles's.      *)

\* A till that is up and has made its announcements is not reported lost as
\* long as the segment loses fewer than two datagrams (rk_mdns, cache.rs and
\* browser.rs): the known answers carry the lifetime that is left, so a
\* responder speaks up in time, and announcements follow a late goodbye.
LostOnlyWhenGone == Browser!LostOnlyWhenGone

\* A till that stays up ends up listed where it is, and one that stays away
\* ends up reported lost, goodbye or none (browser.rs, report and expire).
ListFollowsTills == Browser!LiveIsListed /\ Browser!GoneIsLost

\* An address reported for a till that announced a new one is that address:
\* without the flush a host that moved is cached at both (rk_mdns,
\* cache.rs:99-102).
MovedIsNotAtBoth == Browser!MovedIsNotAtBoth

\* A goodbye that crosses with a new announcement drops nothing announced
\* (rk_mdns, cache.rs:18-21).
NewIsNotDropped == Browser!NewIsNotDropped
============================================================================
