----------------------------- MODULE MCDevices -----------------------------
(***************************************************************************)
(* The devices of a till on small instances for TLC: a scale that is read  *)
(* (ScaleReader), a display or drawer that is written (DeviceWrite), a bus  *)
(* of vending peripherals (MdbBus).  They share nothing in the code; a      *)
(* behaviour here is a behaviour of one of them, the others not being       *)
(* there.                                                                  *)
(***************************************************************************)
EXTENDS ScaleReader, MdbBus, NativePart

CONSTANTS Wires, Models, MaxJobs    \* DeviceWrite
VARIABLES port, model, jobs, rest, took

----------------------------------------------------------------------------
(* A scale: lines that are easy to read wrongly.                           *)
Read(scaled, decimals, unit, stability, measure) ==
    <<[scaled |-> scaled, decimals |-> decimals, unit |-> unit,
       stability |-> stability, measure |-> measure]>>
Over(measure) == Read(0, 0, "kg", "overload", measure)
Line(p, text, meant) == [protocol |-> p, text |-> text, meant |-> meant]

\* Handed back over the counter; grams; a number that is not the weight; an
\* overload without one; motion; a tolerance that is no overload.
ScaleLines ==
    {Line("generic", <<"-", "sp", "0", ".", "5", "cr", "lf">>, Read(-5, 1, "kg", "stable", "unknown")),
     Line("generic", <<"ID", "sp", "7", "sp", "1", ".", "5", "sp", "g", "cr">>,
          Read(15, 1, "g", "stable", "unknown")),
     Line("generic", <<"-", "OL", "-", "lf">>, Over("unknown")),
     Line("generic", <<"~", "1", ".", "5", "lf">>, Read(15, 1, "kg", "unstable", "unknown")),
     Line("generic", <<"bad", "cr">>, <<>>),
     Line("cas", <<"ST", ",", "GS", ",", "+", "sp", "1", ",", "5", "kg", "cr", "lf">>,
          Read(15, 1, "kg", "stable", "gross")),
     Line("cas", <<"ST", ",", "NT", ",", "-", "sp", "2", "lb", "lf">>,
          Read(-2, 0, "lb", "stable", "net")),
     Line("cas", <<"OL", ",", "GS", ",", "cr">>, Over("gross")),
     Line("cas", <<"US", ",", "GS", ",", "2", "kg", "cr">>, Read(2, 0, "kg", "unstable", "gross")),
     Line("cas", <<"9", "9", "9", "cr">>, <<>>),
     Line("massa_k", <<"$", "sp", "1", "2", ".", "5", "cr">>, Read(125, 1, "kg", "stable", "unknown")),
     Line("massa_k", <<"sp", "1", "2", ".", "5", "cr", "lf">>, Read(125, 1, "kg", "unstable", "unknown")),
     Line("massa_k", <<"$", "9", "9", "9", "9", "cr">>, <<>>)}
Dialects == {"generic", "cas", "massa_k"}

----------------------------------------------------------------------------
(* A display and a drawer.                                                 *)
Show(row, text) == [op |-> "writeLine", line |-> row, column |-> 0, text |-> text]
Writes == {
    Show(0, <<1055, 1088, 1105, 1241>>), Show(1, <<52, 50>>),
    Show(0, [k \in 1..21 |-> 1072 + k]), Show(2, <<>>),
    [op |-> "clear"], [op |-> "home"], [op |-> "reset"], [op |-> "blink"],
    [op |-> "displayOff"], [op |-> "displayOn"],
    [op |-> "setBrightness", level |-> 7], [op |-> "setBrightness", level |-> 8],
    [op |-> "setCursor", line |-> 1, column |-> 19],
    [op |-> "pulse", pin |-> "pin5", on |-> 63, off |-> 510],
    [op |-> "pulse", pin |-> "pin2", on |-> 3, off |-> 511]}
Port == INSTANCE DeviceWrite WITH wire <- port, Ops <- Writes

----------------------------------------------------------------------------
(* The bus of a vending machine.                                           *)
Ask(address, command, data) == [address |-> address, command |-> command, data |-> data]
BusAsks == {Ask("coinChanger", "dispense", <<200, 100>>), Ask("cashless1", "poll", <<>>),
            Ask("cashless2", "vend", <<0>>), Ask("billValidator", "stacker", <<>>),
            Ask("commsGateway", "reset", <<>>)}
BusBlocks == {<<>>, <<0>>, <<200, 99>>}

ASSUME DevicesAssumption ==
    ReaderAssumption /\ ReadsEachAlone /\ Port!WriteAssumption /\ BusAssumption

----------------------------------------------------------------------------
portVars == <<port, model, jobs, rest, took>>
deviceVars == <<readerVars, portVars, busVars>>

NoScale == ReaderInit /\ protocol = "generic"
NoPort == port = "off" /\ model = "off" /\ jobs = "off" /\ rest = "off" /\ took = "off"
NoDevice == NoScale /\ NoPort /\ BusInit
DeviceInit ==
    \/ which = "scale" /\ ReaderInit /\ NoPort /\ BusInit
    \/ which = "port" /\ NoScale /\ Port!Init /\ BusInit
    \/ which = "mdb" /\ NoScale /\ NoPort /\ BusInit

ScaleSteps == Alone("scale") /\ ReaderNext /\ UNCHANGED <<portVars, busVars>>
PortSteps == Alone("port") /\ Port!Next /\ UNCHANGED <<readerVars, busVars>>
MdbSteps == Alone("mdb") /\ BusNext /\ UNCHANGED <<readerVars, portVars>>
DeviceNext == ScaleSteps \/ PortSteps \/ MdbSteps

----------------------------------------------------------------------------
(* Properties.                                                             *)

\* A job resumed after short writes is taken by the device once and whole; a
\* line shows its text padded to the display, and a drawer's kick is never
\* shorter than asked (rk_devices, wire.rs, display.rs, drawer.rs).
JobIsDoneOnce ==
    which = "port" => Port!TypeOK /\ Port!TakenOnce /\ Port!LineShowsText /\ Port!KickIsFull
============================================================================
