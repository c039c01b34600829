-------------------------- MODULE DocumentScreening --------------------------
(***************************************************************************)
(* What the trust boundary promises of one uploaded document.  Its bytes   *)
(* are called clean by the engine, then released to where workers can read *)
(* them, then its record says so, and only then does a worker use them.    *)
(* Nothing of this is skipped, and neither clearance, release nor CLEAN is *)
(* taken back; a document that is not clean may be judged again, and using *)
(* one that is may fail after it succeeded.                                *)
(***************************************************************************)
VARIABLES
  verdict,   \* what the record says of the scan, or "none" (no record)
  cleared,   \* has the engine called the bytes clean?
  released,  \* are they where workers can read them?
  used       \* does the record say they were processed?

screeningVars == <<verdict, cleared, released, used>>

Init == verdict = "none" /\ ~cleared /\ ~released /\ ~used

Undecided == {"scan_pending", "scanning", "infected", "scan_failed"}

Register ==
  /\ verdict = "none" /\ verdict' = "scan_pending"
  /\ UNCHANGED <<cleared, released, used>>

Clear ==
  /\ verdict \in Undecided /\ cleared' = TRUE
  /\ UNCHANGED <<verdict, released, used>>

Release ==
  /\ verdict \in Undecided /\ cleared /\ released' = TRUE
  /\ UNCHANGED <<verdict, cleared, used>>

Judge ==
  /\ verdict \in Undecided
  /\ verdict' \in Undecided \cup (IF released THEN {"clean"} ELSE {})
  /\ UNCHANGED <<cleared, released, used>>

Use ==
  /\ verdict = "clean" /\ used' \in BOOLEAN
  /\ UNCHANGED <<verdict, cleared, released>>

Next == Register \/ Clear \/ Release \/ Judge \/ Use

Spec == Init /\ [][Next]_screeningVars
=============================================================================
