----------------------------- MODULE NativePart ----------------------------
(* The native packages share nothing with one another: the application holds *)
(* a handle of each and calls them in turn.  TLC checks many of them in one *)
(* run, each alone; which one is at work is chosen at the start.           *)
VARIABLE which
Alone(part) == which = part /\ UNCHANGED which
============================================================================
