------------------------------ MODULE FindResult -------------------------------
(***************************************************************************)
(* What the mapped result page promises to the host: it is empty until the *)
(* key of one match appears in it whole, and then it never changes.        *)
(***************************************************************************)

CONSTANT Nothing     \* the content of an empty page

VARIABLES
  matches,           \* the keys that hash to the target; the search does not change them
  result             \* what a host that sees "found" reads

vars == <<matches, result>>

Init == result = Nothing

Publish ==
  /\ result = Nothing
  /\ result' \in matches
  /\ UNCHANGED matches

Spec == Init /\ [][Publish]_vars
===============================================================================
