---------------------------- MODULE FiscalLedger ---------------------------
(***************************************************************************)
(* What the offline fiscal queue promises, with no passes, snapshots,      *)
(* answers or clocks: the till takes a document, and from then on the      *)
(* document is in one place of its books.  It can be dropped only while    *)
(* the cashier still waits for its answer; once it is queued it leaves the *)
(* queue for the operator or for a human, and from a human it never goes   *)
(* back to the queue.  "Settled" is never claimed of a document the        *)
(* operator does not hold.                                                 *)
(***************************************************************************)
EXTENDS FiniteSets

CONSTANT Docs

VARIABLES
    book,       \* book[d]: where the till's books have the document
    registered  \* documents the operator holds

Places == {"none", "owed", "queued", "human", "settled", "dropped"}

Init == book = [d \in Docs |-> "none"] /\ registered = {}

Move(d, from, to) == book[d] \in from /\ book' = [book EXCEPT ![d] = to]

Take(d) == Move(d, {"none"}, "owed") /\ UNCHANGED registered

Queue(d) == Move(d, {"owed"}, "queued") /\ UNCHANGED registered

HandToHuman(d) == Move(d, {"owed", "queued"}, "human") /\ UNCHANGED registered

Settle(d) ==
    /\ d \in registered
    /\ Move(d, {"owed", "queued", "human"}, "settled") /\ UNCHANGED registered

\* A restart drops whatever was still being waited for.
Drop(S) ==
    /\ \A d \in S : book[d] = "owed"
    /\ book' = [d \in Docs |-> IF d \in S THEN "dropped" ELSE book[d]]
    /\ UNCHANGED registered

Register(d) ==
    /\ book[d] # "none"
    /\ registered' = registered \cup {d} /\ UNCHANGED book

Next ==
    \/ \E d \in Docs : Take(d) \/ Queue(d) \/ HandToHuman(d) \/ Settle(d) \/ Register(d)
    \/ \E S \in SUBSET Docs : Drop(S)

Spec == Init /\ [][Next]_<<book, registered>>
=============================================================================
