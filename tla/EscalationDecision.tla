------------------------- MODULE EscalationDecision -------------------------
(***************************************************************************)
(* What the human-in-the-loop path promises of one compliance check: the   *)
(* agent concludes once; if it escalates, at most one reviewer decides,    *)
(* and that decision is the last word.                                     *)
(***************************************************************************)
CONSTANTS Reviewers, None

VARIABLES
  outcome,   \* "none", or the decision a reader of the check sees
  by         \* the reviewer it is attributed to, or None

Init == outcome = "none" /\ by = None

Conclude ==
  /\ outcome = "none"
  /\ outcome' \in {"escalated", "auto_approved"}
  /\ by' = None

Decide(r) ==
  /\ outcome = "escalated" /\ by = None
  /\ outcome' \in {"auto_approved", "rejected"}
  /\ by' = r

Next == Conclude \/ \E r \in Reviewers : Decide(r)

Spec == Init /\ [][Next]_<<outcome, by>>

=============================================================================
