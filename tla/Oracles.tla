------------------------------ MODULE Oracles -------------------------------
(***************************************************************************)
(* The three verdict functions of src/secfix/oracle: pure functions from   *)
(* an execution trace and the sentinel of one harness to a verdict.        *)
(*                                                                         *)
(* A trace is the set of its recorded calls: the oracles only ask whether  *)
(* some recorded call satisfies a test, so neither the order nor the       *)
(* multiplicity of the calls can change a verdict (only which offending    *)
(* string is quoted, which is left out).  A recorded call is abstracted to *)
(* which sentinels occur where:                                            *)
(*   sql       the sentinels found in the recorded string                  *)
(*   params    the sentinels found anywhere inside the bound values        *)
(*   dotdot    a literal ".." segment survives in the string               *)
(*   absolute  the sentinels s for which the string is exactly "/" + s     *)
(***************************************************************************)

Confirmed     == "confirmed"
NotReproduced == "not_reproduced"
Uncertain     == "uncertain"

Verdicts == {Confirmed, NotReproduced, Uncertain}

Rules == {"sqli", "cmdi", "pathtraversal"}

(* Where the sentinel ends up in one call to a sink.                       *)
CallKinds == {"text", "bound", "other", "dotdot", "absolute"}

(* The recorded call of kind k in a harness run with sentinel s.           *)
Call(k, s) ==
  [sql      |-> IF k \in {"text", "dotdot", "absolute"} THEN {s} ELSE {},
   params   |-> IF k = "bound" THEN {s} ELSE {},
   dotdot   |-> k = "dotdot",
   absolute |-> IF k = "absolute" THEN {s} ELSE {}]

-----------------------------------------------------------------------------

(* Mutant: what was not seen in a text is taken to be bound.               *)
BugAbsenceClears(trace, s) ==
  IF \E q \in trace : s \in q.sql THEN Confirmed ELSE NotReproduced

(* Mutant: a bound parameter outweighs a text.                             *)
BugBoundFirst(trace, s) ==
  IF \E q \in trace : s \in q.params THEN NotReproduced
  ELSE IF \E q \in trace : s \in q.sql THEN Confirmed
  ELSE Uncertain

(* oracle/sqli.py: the sentinel inside an executed SQL string confirms,    *)
(* inside bound parameters only it clears, otherwise nothing is known.     *)
EvaluateSqli(trace, s) ==
  IF \E q \in trace : s \in q.sql THEN Confirmed
  ELSE IF \E q \in trace : s \in q.params THEN NotReproduced
  ELSE Uncertain

(* oracle/cmdi.py: a shell-interpreted string confirms, a separate argv    *)
(* element clears.                                                         *)
EvaluateCmdi(trace, s) ==
  IF \E c \in trace : s \in c.sql THEN Confirmed
  ELSE IF \E c \in trace : s \in c.params THEN NotReproduced
  ELSE Uncertain

(* oracle/pathtraversal.py: of the paths that carry the sentinel, one with *)
(* a surviving ".." or equal to the absolute probe confirms; a sentinel in *)
(* a path with neither clears.                                             *)
EvaluatePathTraversal(trace, s) ==
  LET carrying == {op \in trace : s \in op.sql}
  IN  IF \E op \in carrying : op.dotdot \/ s \in op.absolute THEN Confirmed
      ELSE IF carrying # {} THEN NotReproduced
      ELSE Uncertain

(* The oracle of the rule chosen on the command line (_RULE_CONFIG).       *)
Evaluate(rule, trace, s) ==
  IF rule = "sqli" THEN EvaluateSqli(trace, s)
  ELSE IF rule = "cmdi" THEN EvaluateCmdi(trace, s)
  ELSE EvaluatePathTraversal(trace, s)

-----------------------------------------------------------------------------
(* What a verdict on the patched function means for the patch.             *)

Validated   == "validated"
Failed      == "failed"
NeedsReview == "needs_manual_review"
PatchKinds  == {Validated, Failed, NeedsReview}

(* Mutant: whatever does not reproduce any more counts as fixed.           *)
BugUncertainValidates(v) == IF v = Confirmed THEN Failed ELSE Validated

(* Only a trace that shows the sentinel arriving safely validates.         *)
KindOf(v) ==
  IF v = NotReproduced THEN Validated
  ELSE IF v = Confirmed THEN Failed
  ELSE NeedsReview
=============================================================================
