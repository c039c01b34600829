--------------------------- MODULE ReportDelivery ---------------------------
(***************************************************************************)
(* What a tenant who asks for a report is promised: somebody owes it work  *)
(* until it is delivered or failed (and may be asked for again); nothing   *)
(* changes behind the back of those who work on it, short of a mishap; and *)
(* what is said to be delivered can be downloaded.                         *)
(***************************************************************************)
CONSTANT Files

VARIABLES
  state,    \* "none", "open", "failed" or "delivered"
  file,     \* the file a delivered report names
  archive,  \* the files that can be downloaded
  owed,     \* is anybody going to work on it?
  lost      \* has a mishap happened?

deliveryVars == <<state, file, archive, owed, lost>>

Init == state = "none" /\ archive = {} /\ ~owed /\ ~lost

TakeOn == owed' /\ state' \in {state, "open"} /\ UNCHANGED lost

Attempt == owed /\ owed' /\ UNCHANGED lost

(* Whoever leaves last leaves an outcome.                                  *)
Settle == owed /\ ~owed' /\ state' \in {"failed", "delivered"} /\ UNCHANGED lost

(* The same outcome, perhaps another file that is there.                   *)
Restate == UNCHANGED <<state, archive, owed, lost>>

GoAstray == lost'

Next ==
  /\ archive \subseteq archive' /\ archive' \subseteq Files
  /\ state # "none" \/ owed' => state' # "none"
  /\ state' = "delivered" => file' \in archive'
  /\ lost => lost'
  /\ TakeOn \/ Attempt \/ Settle \/ Restate \/ GoAstray

Spec == Init /\ [][Next]_deliveryVars
=============================================================================
