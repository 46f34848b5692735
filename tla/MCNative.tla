------------------------------ MODULE MCNative -----------------------------
(* The native packages that are checked each alone, in one run for TLC.    *)
EXTENDS MCTransports, MCDevices, MCFormats

nativeVars == <<which, transportVars, deviceVars, formatVars>>
NativeInit ==
    \/ TransportInit /\ NoDevice /\ NoFormat
    \/ NoTransport /\ DeviceInit /\ NoFormat
    \/ NoTransport /\ NoDevice /\ FormatInit
NativeNext ==
    \/ TransportNext /\ UNCHANGED <<deviceVars, formatVars>>
    \/ DeviceNext /\ UNCHANGED <<transportVars, formatVars>>
    \/ FormatNext /\ UNCHANGED <<transportVars, deviceVars>>
NativeSpec ==
    /\ NativeInit /\ [][NativeNext]_nativeVars
    /\ \A s \in Sessions : WF_nativeVars(Serves(s) /\ UNCHANGED <<deviceVars, formatVars>>)
============================================================================
