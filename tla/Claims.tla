------------------------------- MODULE Claims --------------------------------
(***************************************************************************)
(* What secfix's word on one finding is worth, whatever rule, function,    *)
(* answer and file it is about: it says "confirmed" only of a function a   *)
(* probe does take effect in, asks for one patch and only then, and says   *)
(* "validated" only of what no probe takes effect in any more.  That it    *)
(* could not tell it may say at any time, the opposite of what is so it    *)
(* may not.                                                                *)
(***************************************************************************)

CONSTANT Nothing   \* nothing has been said

VARIABLES
  stage,    \* "open", "confirmed", "patched", "closed"
  unsafe,   \* calling the function as planned lets a probe take effect
  claim     \* the last word on the finding

vars == <<stage, unsafe, claim>>

Init == stage = "open" /\ unsafe \in BOOLEAN /\ claim = Nothing

(* The function the finding is in, and the way to call it, are found.      *)
Locate ==
  /\ stage = "open"
  /\ unsafe' \in BOOLEAN
  /\ UNCHANGED <<stage, claim>>

Confirm ==
  /\ stage = "open" /\ unsafe
  /\ stage' = "confirmed" /\ claim' = "confirmed"
  /\ UNCHANGED unsafe

(* There is no test, no trace, nothing in the trace, or nothing to fear.   *)
Dismiss ==
  /\ stage = "open"
  /\ stage' = "closed"
  /\ claim' \in {Nothing, "uncertain"} \cup (IF unsafe THEN {} ELSE {"not_reproduced"})
  /\ UNCHANGED unsafe

(* No patch was to be had, or it was refused.                              *)
GiveUp ==
  /\ stage = "confirmed"
  /\ stage' = "closed" /\ claim' \in {"confirmed", "failed"}
  /\ UNCHANGED unsafe

Patch ==
  /\ stage = "confirmed"
  /\ stage' = "patched" /\ unsafe' \in BOOLEAN
  /\ UNCHANGED claim

Settle ==
  /\ stage = "patched"
  /\ stage' = "closed"
  /\ claim' \in {"needs_manual_review", IF unsafe THEN "failed" ELSE "validated"}
  /\ UNCHANGED unsafe

Next == Locate \/ Confirm \/ Dismiss \/ GiveUp \/ Patch \/ Settle

Spec == Init /\ [][Next]_vars
=============================================================================
