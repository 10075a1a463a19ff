------------------------ MODULE RunCommandLifecycle -------------------------
(* RunCommand implements FindingLifecycle: what the operator sees is        *)
(* computed from the reports, the hub and the exit status.                  *)
EXTENDS RunCommand

(* The findings the invocation at hand has reported.                       *)
ThisRun == {x \in Finding : reports[x] # None /\ reports[x].run = run}

Seen(x) ==
  IF reports[x] = None THEN None
  ELSE [verdict |-> reports[x].verdict, patch |-> reports[x].patch]

ASSUME NoneIsUnseen == None \notin [verdict : Verdicts, patch : PatchResult \cup {None}]

Lifecycle == INSTANCE FindingLifecycle WITH
  Branch    <- [run : 1..MaxRuns, finding : Finding],
  running   <- pc # "down",
  settled   <- ThisRun,
  report    <- [x \in Finding |-> Seen(x)],
  published <- remote,
  status    <- IF pc = "down" THEN exit ELSE 0

(* However git, the sandbox and the model behave, however often secfix is  *)
(* killed and run again, an operator who looks at nothing but reports, hub *)
(* and exit status sees a FindingLifecycle.                                *)
ImplementsLifecycle == Lifecycle!Spec

-----------------------------------------------------------------------------
(* What makes the refinement inductive.                                    *)

(* The names of this process's scratch branches stay within the bound.     *)
RunsBounded == run <= MaxRuns

(* The run and finding report x is about.                                  *)
Of(x) == [run |-> reports[x].run, finding |-> x]

(* A report is about a finding that is done with, and names no branch but  *)
(* that finding's own.                                                     *)
SignedReports ==
  \A x \in Finding : reports[x] # None =>
    /\ Done(Of(x))
    /\ reports[x].patch # None => reports[x].patch.branch \in {Of(x), None}

ResultNamesMe ==
  pc \in {"restore", "report"} /\ result # None => result.branch \in {me, None}

(* The hub has no branch that is still to be published.                    *)
PublishedBefore ==
  /\ \A b \in remote : Done(b)
  /\ pc = "push" => me \notin remote

(* The finding about to be published has just been reported validated, and *)
(* its PR body is on disk.                                                 *)
ReportedFirst ==
  pc \in {"push", "gh"} => /\ i \in ThisRun
                          /\ ReportedValid(i) /\ reports[i].patch.branch = me
                          /\ args.openPR /\ prBody[i] = me

(* Only a confirmed finding gets as far as a patch; every one that does    *)
(* not leaves a report without.                                            *)
PatchedIsConfirmed ==
  /\ pc \in {"ask", "branch", "restore"} \cup OnScratch => verdict = Confirmed
  /\ pc = "report" => (verdict = Confirmed <=> result # None)

(* exit_status is what this run's reports say, one step early at "report". *)
OpenReport(x) ==
  reports[x].verdict = Confirmed /\ ~ReportedValid(x)

Unfixed ==
  \/ \E x \in ThisRun : OpenReport(x)
  \/ pc = "report" /\ result # None /\ result.kind # Validated

ExitTellsAll == pc # "down" => exit = IF Unfixed THEN 1 ELSE 0

LifecycleInv ==
  /\ TypeOK /\ ControlOK /\ RunsBounded /\ SignedReports /\ ResultNamesMe
  /\ PublishedBefore /\ ReportedFirst /\ PatchedIsConfirmed /\ ExitTellsAll
=============================================================================
