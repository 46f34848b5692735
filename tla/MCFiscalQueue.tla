--------------------------- MODULE MCFiscalQueue ---------------------------
(* Small instances of FiscalQueue for TLC. *)
EXTENDS FiscalQueue, TLC

CONSTANTS s1, r1, w1, p1, p2, k1, k2, c1, c2

\* A sale, a refund of it, and a withdrawal.
MCOp == [d \in Docs |-> CASE d = s1 -> "sale" [] d = r1 -> "refund" [] OTHER -> "moneyOut"]
MCBasis == [d \in Docs |-> IF d = r1 THEN s1 ELSE NoDoc]

Symmetry == Permutations({p1, p2}) \cup Permutations({k1, k2})

\* Bound of the safety run: what follows the sale is its refund or a
\* withdrawal, not both; and the withdrawal is alone with the passes: no clerk
\* and no restart, the shift open and no request served late.
OneFollows ==
    \/ live[w1] = "new"
    \/ /\ live[r1] = "new" /\ crashes = 0 /\ late = {} /\ shiftOpen
       /\ \A k \in Retries : cur[k] = NoDoc

\* Bound of the liveness run: a document is delivered or comes to wait.  One
\* that does neither has no pending row, and is to the others as if it were
\* never made.
AllWait == \A d \in Docs : live[d] \notin {"toFailed", "toBare", "refused"}
=============================================================================
