-------------------------------- MODULE Search --------------------------------
(***************************************************************************)
(* What one run of the program promises to whoever reads its exit code.    *)
(*                                                                         *)
(* The range is split in parts, one per GPU.  A part ends as complete      *)
(* (every key tested, no match), hit (a match was printed) or lost (its    *)
(* GPU failed); a part the user interrupted stays pending.  The run ends   *)
(* with one verdict, and the verdict never claims more than the parts      *)
(* show.  The detailed module FindKey implements this one.                 *)
(***************************************************************************)

CONSTANTS Part    \* the parts of the range

VARIABLES
  status,         \* how each part ended, or "pending"
  asked,          \* has the user pressed Ctrl+C?
  verdict         \* the outcome the exit code names, "none" while running

vars == <<status, asked, verdict>>

Status  == {"pending", "complete", "hit", "lost"}
Verdict == {"none", "found", "usage", "exhausted", "error", "interrupted"}

TypeOK ==
  /\ status \in [Part -> Status]
  /\ asked \in BOOLEAN
  /\ verdict \in Verdict

Init ==
  /\ status = [p \in Part |-> "pending"]
  /\ asked = FALSE
  /\ verdict = "none"

-------------------------------------------------------------------------------

\* A part leaves "pending" at most once, and only while the run lasts.
Settle(p) ==
  /\ verdict = "none"
  /\ status[p] = "pending"
  /\ \E s \in Status : status' = [status EXCEPT ![p] = s]
  /\ UNCHANGED <<asked, verdict>>

Ask ==
  /\ verdict = "none"
  /\ asked' = TRUE
  /\ UNCHANGED <<status, verdict>>

\* The run gives up before any part was touched: bad arguments, no memory, no GPU.
Refuse ==
  /\ verdict = "none"
  /\ \A p \in Part : status[p] = "pending"
  /\ verdict' \in {"usage", "error"}
  /\ UNCHANGED <<status, asked>>

\* The verdicts the parts justify.  A printed key is never outranked.
Justified ==
  IF \E p \in Part : status[p] = "hit"
  THEN {"found"}
  ELSE (IF asked THEN {"interrupted"} ELSE {})
         \union (IF \E p \in Part : status[p] = "lost" THEN {"error"} ELSE {})
         \union (IF \A p \in Part : status[p] = "complete" THEN {"exhausted"} ELSE {})

Decide ==
  /\ verdict = "none"
  /\ verdict' \in Justified
  /\ UNCHANGED <<status, asked>>

\* A second Ctrl+C ends the run whatever it was doing.
Abort ==
  /\ verdict = "none"
  /\ asked
  /\ verdict' = "interrupted"
  /\ UNCHANGED <<status, asked>>

Next ==
  \/ \E p \in Part : Settle(p)
  \/ Ask
  \/ Refuse
  \/ Decide
  \/ Abort

Spec == Init /\ [][Next]_vars
===============================================================================
