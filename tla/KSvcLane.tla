------------------------------ MODULE KSvcLane ------------------------------
(***************************************************************************)
(* The flusher as one KSvc sees it, and as the scale-down guard relies on  *)
(* it: at most one permission to scale to zero waits, a refusal goes out   *)
(* at once and takes the place of what waits, and a decision that has gone *)
(* out writes its value to the min-scale annotation at most once.  What    *)
(* other KSvcs of the namespace do may only make the permission go out     *)
(* earlier.                                                                *)
(***************************************************************************)
CONSTANT Slots

VARIABLES
  waiting,  \* a permission (min-scale=0) waits for the debounce timer
  allows,   \* the slots carrying a permission that has gone out
  pins,     \* the slots carrying a refusal (min-scale=1)
  min       \* the min-scale annotation

vars == <<waiting, allows, pins, min>>

Free == Slots \ (allows \cup pins)

Init == waiting = FALSE /\ allows = {} /\ pins = {}

Permit ==
  /\ waiting' = TRUE
  /\ UNCHANGED <<allows, pins, min>>

Refuse ==
  /\ waiting' = FALSE
  /\ \E s \in Free : pins' = pins \cup {s}
  /\ UNCHANGED <<allows, min>>

Flush ==
  /\ waiting
  /\ waiting' = FALSE
  /\ \E s \in Free : allows' = allows \cup {s}
  /\ UNCHANGED <<pins, min>>

Over(s) ==
  /\ s \in allows \cup pins
  /\ allows' = allows \ {s} /\ pins' = pins \ {s}
  /\ UNCHANGED waiting

Land(s) == Over(s) /\ min' = IF s \in pins THEN 1 ELSE 0

\* The value is there already, the patch fails, or the Manager is stopped.
Lose(s) == Over(s) /\ UNCHANGED min

\* Someone else writes the annotation.
Overwrite == UNCHANGED <<waiting, allows, pins>>

\* The process restarts.
Restart ==
  /\ waiting' = FALSE /\ allows' = {} /\ pins' = {}
  /\ UNCHANGED min

Next ==
  \/ Permit \/ Refuse \/ Flush \/ Overwrite \/ Restart
  \/ \E s \in Slots : Land(s) \/ Lose(s)

Spec == Init /\ [][Next]_vars
=============================================================================
