-------------------------- MODULE FindingLifecycle --------------------------
(***************************************************************************)
(* What an operator of secfix may rely on, without git, sandboxes or a     *)
(* model in it: a run settles some of the findings, in their order, each   *)
(* with a report; only a confirmed finding gets a patch, on a branch no    *)
(* report has named before; only the branch of the finding settled last,   *)
(* if validated, is published, and once only; and a run exits with 0 only  *)
(* if each finding it confirmed is fixed.                                  *)
(***************************************************************************)
EXTENDS Integers

CONSTANTS
  Finding,     \* indices of the findings
  Branch,      \* names for scratch branches
  Verdicts,    \* what an oracle may say, "confirmed" among it
  None         \* no report, no patch, no branch

VARIABLES
  running,     \* a run is under way
  settled,     \* the findings this run has settled
  report,      \* the report on disk about each finding
  published,   \* the branches on the hub
  status       \* exit status of the last run

lifecycleVars == <<running, settled, report, published, status>>

Patch == [kind : {"validated", "failed", "needs_manual_review"},
          branch : Branch \cup {None}]

IsFixed(x) ==
  /\ report[x] # None /\ report[x].patch # None
  /\ report[x].patch.kind = "validated"

IsOpen(x) == report[x].verdict = "confirmed" /\ ~IsFixed(x)

Named == {report[x].patch.branch :
            x \in {y \in Finding : report[y] # None /\ report[y].patch # None}} \ {None}

-----------------------------------------------------------------------------

Init ==
  /\ running = FALSE /\ settled = {} /\ status = 0
  /\ report = [x \in Finding |-> None]
  /\ published = {}

Begin ==
  /\ ~running
  /\ running' = TRUE /\ settled' = {} /\ status' = 0
  /\ UNCHANGED <<report, published>>

(* A finding is reported, after all those this run reported before it.     *)
Settle(x, v, p) ==
  /\ running
  /\ \A y \in settled : y < x
  /\ p # None => /\ v = "confirmed"
                 /\ p.branch \notin Named
                 /\ p.kind = "validated" => p.branch # None
  /\ settled' = settled \cup {x}
  /\ report' = [report EXCEPT ![x] = [verdict |-> v, patch |-> p]]
  /\ UNCHANGED <<running, published, status>>

(* The finding settled last goes to the hub, once.                         *)
Publish(x) ==
  /\ running
  /\ x \in settled /\ \A y \in settled : y <= x
  /\ IsFixed(x)
  /\ report[x].patch.branch \notin published
  /\ published' = published \cup {report[x].patch.branch}
  /\ UNCHANGED <<running, settled, report, status>>

(* The run ends, of itself or not.                                         *)
End(s) ==
  /\ running
  /\ s = 0 => \A x \in settled : ~IsOpen(x)
  /\ running' = FALSE /\ status' = s
  /\ UNCHANGED <<settled, report, published>>

Next ==
  \/ Begin
  \/ \E s \in {0, 1} : End(s)
  \/ \E x \in Finding, v \in Verdicts, p \in Patch \cup {None} : Settle(x, v, p)
  \/ \E x \in Finding : Publish(x)

Spec == Init /\ [][Next]_lifecycleVars
=============================================================================
