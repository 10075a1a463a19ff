--------------------- MODULE RunCommandLifecycleProofs ----------------------
(***************************************************************************)
(* RunCommand implements FindingLifecycle, for every target repository,    *)
(* every number of findings and of invocations, and whatever fails.        *)
(***************************************************************************)
EXTENDS RunCommandLifecycle, RunCommandProofs

-----------------------------------------------------------------------------

(* The steps that end a run early, all with exit status 1.                 *)
Aborts == AnalyzeRaises \/ RefuseLocal \/ ModelRaises \/ SandboxRaises \/ Crash

(* What the operator cannot see.                                           *)
Unseen ==
  /\ UNCHANGED <<run, reports, remote>>
  /\ pc' = "down" <=> pc = "down"
  /\ pc = "down" => exit' = exit

(* Steps other than these change neither reports nor hub, and neither      *)
(* start nor end a run.                                                    *)
LEMMA VisibleStep ==
  ASSUME [Next]_vars
  PROVE  StartRun \/ Finish \/ Aborts \/ ModelError \/ WriteReport \/ Push \/ Unseen
<1> USE DEF Unseen, diskVars, hubVars
<1>1. CASE Unsupported \/ NoTrace \/ PushFails \/ OpenPR
  BY <1>1 DEF Unsupported, NoTrace, PushFails, OpenPR, NextFinding
<1>2. CASE Analyze \/ Hang \/ Restore
  BY <1>2 DEF Analyze, Hang, Restore
<1>3. CASE Reproduce
  BY <1>3 DEF Reproduce, AfterVerdict
<1>4. CASE Propose \/ CreateBranch \/ ApplyPatch \/ AddPatch \/ CommitPatch
  BY <1>4 DEF Propose, CreateBranch, ApplyPatch, AddPatch, CommitPatch, inPatch
<1>5. CASE \/ RejectDiff \/ BranchFails \/ ApplyFails \/ CommitFails \/ Verify
           \/ VerifyNoTrace
  BY <1>5 DEF RejectDiff, BranchFails, ApplyFails, CommitFails, Verify, VerifyNoTrace,
     Returns, inPatch
<1>6. CASE UNCHANGED vars
  BY <1>6 DEF vars, procVars
<1>7. QED
  BY <1>1, <1>2, <1>3, <1>4, <1>5, <1>6 DEF Next, Step, Aborts

(* A run that ends early leaves reports and hub as they are.               *)
LEMMA AbortStep ==
  ASSUME Aborts \/ Finish
  PROVE  pc' = "down" /\ UNCHANGED <<run, reports, remote>>
BY DEF Aborts, Finish, AnalyzeRaises, RefuseLocal, ModelRaises, SandboxRaises, Crash, Exit, diskVars, hubVars

(* What both places that write a report have in common.                    *)
LEMMA SettleStep ==
  ASSUME TypeOK, ControlOK, SignedReports, ResultNamesMe,
         NEW res \in PatchResult \cup {None}, Write(res), pc \in {"ask", "report"}, run' = run,
         res # None => pc = "report" /\ res = result
  PROVE  /\ i \in Finding /\ i \notin ThisRun
         /\ \A x \in ThisRun : x < i
         /\ reports'[i] \in Report
         /\ reports'[i].run = run /\ reports'[i].verdict = verdict /\ reports'[i].patch = res
         /\ \A x \in Finding \ {i} : reports'[x] = reports[x]
         /\ DOMAIN reports' = Finding
         /\ res # None => res.branch \in {me, None}
         /\ ThisRun' = ThisRun \cup {i}
<1>1. i \in Finding /\ verdict \in Verdicts /\ i \in Nat
  BY ParameterAssumption DEF ControlOK, TypeOK
<1>2. ASSUME NEW x \in ThisRun PROVE x < i
  <2>1. x \in Finding /\ Done(Of(x)) /\ reports[x].run = run
    BY <1>2 DEF ThisRun, SignedReports
  <2>2. QED
    BY <2>1 DEF Done, Before, Of, TypeOK
<1>3. i \notin ThisRun
  BY <1>1, <1>2
<1>4. reports' \in [Finding -> Report \cup {None}]
  BY WriteType
<1>5. \A x \in Finding \ {i} : reports'[x] = reports[x]
  BY <1>1 DEF Write, TypeOK
<1>6. reports'[i].run = run /\ reports'[i].verdict = verdict /\ reports'[i].patch = res
  BY <1>1 DEF Write, TypeOK
<1>7. reports'[i] \in Report
  <2> DEFINE steps ==
        IF res # None /\ res.kind = Validated /\ args.openPR THEN "pr requested"
        ELSE IF res # None /\ res.kind = Validated THEN "publish"
        ELSE IF res # None /\ res.branch # None THEN "scratch branch" ELSE "nothing"
  <2> DEFINE r == [run |-> run, fn |-> target, verdict |-> verdict,
                   summary |-> "reproduced", patch |-> res, steps |-> steps]
  <2>1. steps \in Steps
    BY DEF Steps
  <2>2. r \in Report
    BY <1>1, <2>1 DEF Report, TypeOK, ControlOK
  <2>3. reports' = [reports EXCEPT ![i] = r]
    BY DEF Write
  <2>4. QED
    BY <1>1, <2>2, <2>3 DEF TypeOK
<1>8. reports'[i] # None
  BY <1>7, NoneIsNothing
<1>9. ThisRun' = ThisRun \cup {i}
  BY <1>1, <1>5, <1>6, <1>8 DEF ThisRun
<1>10. QED
  BY <1>1, <1>2, <1>3, <1>4, <1>5, <1>6, <1>7, <1>9 DEF ResultNamesMe

-----------------------------------------------------------------------------
(* The inductive invariant, conjunct by conjunct.                          *)

(* Nothing is reported or published before the first run.                  *)
LEMMA InitLifecycle == Init => LifecycleInv
<1> SUFFICES ASSUME Init PROVE LifecycleInv
  OBVIOUS
<1>1. RunsBounded
  BY ParameterAssumption DEF Init, RunsBounded
<1>2. SignedReports /\ ResultNamesMe /\ PublishedBefore /\ ReportedFirst
  BY DEF Init, SignedReports, ResultNamesMe, PublishedBefore, ReportedFirst
<1>3. PatchedIsConfirmed /\ ExitTellsAll
  BY DEF Init, PatchedIsConfirmed, ExitTellsAll, OnScratch
<1>4. QED
  BY <1>1, <1>2, <1>3, InitType, InitControl DEF LifecycleInv

(* Only StartRun counts a run.                                             *)
LEMMA BoundStep ==
  ASSUME RunsBounded, TypeOK, [Next]_vars
  PROVE  RunsBounded'
<1>1. CASE StartRun
  BY <1>1, ParameterAssumption DEF StartRun, RunsBounded, TypeOK
<1>2. CASE ModelError \/ WriteReport \/ Push
  BY <1>2 DEF ModelError, WriteReport, Push, RunsBounded
<1>3. QED
  BY <1>1, <1>2, VisibleStep, AbortStep DEF Unseen, RunsBounded

(* A report stays signed: it is written once per run, for the finding at   *)
(* hand, which is then done with.                                          *)
LEMMA SignedStep ==
  ASSUME TypeOK, ControlOK, SignedReports, ResultNamesMe, [Next]_vars
  PROVE  SignedReports'
<1> USE DEF Done, Before, Of
<1>a. ASSUME NEW x \in Finding, reports[x] # None, reports'[x] = reports[x]
      PROVE  Done(Of(x))'
  <2>1. reports[x].run \in Nat /\ x \in Nat
    BY <1>a, ParameterAssumption DEF TypeOK, Report, Finding
  <2>2. Of(x) \in Id
    BY <2>1 DEF Id
  <2>3. PICK b \in Id : b = Of(x)
    BY <2>2
  <2>4. Done(b)'
    BY <1>a, <2>3, OrderGrows DEF SignedReports
  <2>5. QED
    BY <1>a, <2>3, <2>4
<1>b. ASSUME NEW res \in PatchResult \cup {None}, Write(res), pc \in {"ask", "report"},
             run' = run, res # None => pc = "report" /\ res = result,
             \/ i' = i + 1 /\ pc' = "analyze"
             \/ i' = i /\ pc' = "push"
      PROVE  SignedReports'
  <2>1. i \in Finding /\ i \in Nat /\ reports'[i].run = run /\ reports'[i].patch = res
    BY <1>b, SettleStep, ParameterAssumption DEF Finding
  <2>2. ASSUME NEW x \in Finding, x = i PROVE Done(Of(x))'
    BY <1>b, <2>1, <2>2 DEF TypeOK
  <2>3. res # None => res.branch \in {me, None}
    BY <1>b, SettleStep
  <2>4. \A x \in Finding \ {i} : reports'[x] = reports[x]
    BY <1>b, SettleStep
  <2>5. ASSUME NEW x \in Finding, reports'[x] # None
        PROVE  Done(Of(x))' /\ (reports'[x].patch # None => reports'[x].patch.branch \in {Of(x)', None})
    <3>1. CASE x = i
      <4>1. reports'[x].run = run /\ reports'[x].patch = res
        BY <2>1, <3>1
      <4>2. Of(x)' = me
        BY <4>1, <3>1 DEF me
      <4>3. QED
        BY <2>2, <2>3, <3>1, <4>1, <4>2
    <3>2. CASE x # i
      BY <2>4, <2>5, <3>2, <1>a DEF SignedReports
    <3>3. QED
      BY <3>1, <3>2
  <2>6. QED
    BY <2>5 DEF SignedReports
<1>1. CASE ModelError
  BY <1>1, <1>b DEF ModelError, NextFinding
<1>2. CASE WriteReport
  BY <1>2, <1>b DEF WriteReport, NextFinding, TypeOK
<1>3. CASE reports' = reports
  BY <1>3, <1>a DEF SignedReports
<1>4. QED
  BY <1>1, <1>2, <1>3, ReportsStep DEF diskVars

(* apply_and_verify_patch names the branch it was to make, or none.        *)
LEMMA NamesStep ==
  ASSUME TypeOK, ControlOK, ResultNamesMe, [Next]_vars
  PROVE  ResultNamesMe'
<1> USE DEF ResultNamesMe
<1>1. CASE Reproduce
  BY <1>1 DEF Reproduce, AfterVerdict, ControlOK, OnScratch
<1>2. CASE RejectDiff \/ BranchFails \/ ApplyFails \/ CommitFails
  BY <1>2 DEF RejectDiff, BranchFails, ApplyFails, CommitFails, Returns, inPatch, me
<1>3. CASE Verify \/ VerifyNoTrace
  <2>1. run' = run /\ i' = i
    BY <1>3 DEF Verify, VerifyNoTrace
  <2>2. \E kind : Returns(kind, me)
    BY <1>3 DEF Verify, VerifyNoTrace
  <2>3. QED
    BY <2>1, <2>2 DEF Returns, me
<1>4. CASE Restore
  BY <1>4 DEF Restore, me
<1>5. CASE \/ StartRun \/ Unsupported \/ AnalyzeRaises \/ Finish \/ RefuseLocal \/ NoTrace
           \/ ModelError \/ ModelRaises \/ SandboxRaises \/ PushFails \/ OpenPR \/ Crash
  BY <1>5 DEF StartRun, Unsupported, AnalyzeRaises, Finish, RefuseLocal, NoTrace,
     ModelError, ModelRaises, SandboxRaises, PushFails, OpenPR, Crash, NextFinding, Exit
<1>6. CASE \/ Analyze \/ Hang \/ Propose \/ CreateBranch \/ ApplyPatch \/ AddPatch
           \/ CommitPatch \/ Push
  BY <1>6 DEF Analyze, Hang, Propose, CreateBranch, ApplyPatch, AddPatch, CommitPatch, Push
<1>7. CASE WriteReport
  BY <1>7 DEF WriteReport, NextFinding
<1>8. CASE UNCHANGED vars
  BY <1>8 DEF vars, procVars, me
<1>9. QED
  BY <1>1, <1>2, <1>3, <1>4, <1>5, <1>6, <1>7, <1>8 DEF Next, Step

(* _open_pr is reached through the report alone.                           *)
LEMMA PushIsFresh ==
  ASSUME [Next]_vars, pc' \in {"push", "gh"}
  PROVE  WriteReport \/ Push \/ (pc' = pc /\ i' = i /\ UNCHANGED vars)
<1>1. CASE \/ StartRun \/ Unsupported \/ AnalyzeRaises \/ Finish \/ RefuseLocal \/ NoTrace
           \/ ModelError \/ ModelRaises \/ SandboxRaises \/ PushFails \/ OpenPR \/ Crash
  BY <1>1 DEF StartRun, Unsupported, AnalyzeRaises, Finish, RefuseLocal, NoTrace,
     ModelError, ModelRaises, SandboxRaises, PushFails, OpenPR, Crash, NextFinding, Exit
<1>2. CASE \/ Analyze \/ Hang \/ Propose \/ CreateBranch \/ ApplyPatch \/ AddPatch
           \/ CommitPatch \/ Restore
  BY <1>2 DEF Analyze, Hang, Propose, CreateBranch, ApplyPatch, AddPatch, CommitPatch, Restore
<1>3. CASE Reproduce
  BY <1>3 DEF Reproduce, AfterVerdict
<1>4. CASE \/ RejectDiff \/ BranchFails \/ ApplyFails \/ CommitFails \/ Verify
           \/ VerifyNoTrace
  BY <1>4 DEF RejectDiff, BranchFails, ApplyFails, CommitFails, Verify, VerifyNoTrace, Returns
<1>5. CASE UNCHANGED vars
  BY <1>5 DEF vars, procVars
<1>6. QED
  BY <1>1, <1>2, <1>3, <1>4, <1>5 DEF Next, Step

(* Publishing is the last thing that happens to a branch, and happens once. *)
LEMMA PublishedStep ==
  ASSUME TypeOK, ControlOK, PublishedBefore, [Next]_vars
  PROVE  PublishedBefore'
<1>a. remote \subseteq Id
  BY DEF TypeOK
<1>b. \A b \in remote : Done(b)'
  BY <1>a, OrderGrows DEF PublishedBefore
<1>1. CASE Push
  <2>1. remote' = remote \cup {me} /\ pc' = "gh" /\ i' = i /\ run' = run
    BY <1>1, NoneIsNothing DEF Push, ControlOK
  <2>2. PICK b : b = me
    OBVIOUS
  <2>3. Done(b)'
    BY <2>1, <2>2 DEF Done, Before, me
  <2>4. QED
    BY <1>b, <2>1, <2>2, <2>3 DEF PublishedBefore
<1>2. CASE WriteReport
  <2>1. remote' = remote /\ pc = "report" /\ run' = run
    BY <1>2 DEF WriteReport, hubVars
  <2>2. ~Done(me)
    BY <2>1 DEF Done, Before, me, TypeOK
  <2>3. pc' = "push" => me' = me
    BY <1>2 DEF WriteReport, NextFinding, me
  <2>4. QED
    BY <1>b, <2>1, <2>2, <2>3 DEF PublishedBefore
<1>3. CASE StartRun \/ ModelError \/ Finish \/ Aborts
  <2>1. remote' = remote /\ pc' # "push"
    BY <1>3, AbortStep DEF StartRun, ModelError, NextFinding, hubVars
  <2>2. QED
    BY <1>b, <2>1 DEF PublishedBefore
<1>4. CASE Unseen /\ ~WriteReport /\ ~Push
  <2>1. pc' = "push" => pc = "push" /\ me' = me
    BY PushIsFresh, <1>4 DEF vars, procVars, me
  <2>2. QED
    BY <1>4, <1>b, <2>1 DEF Unseen, PublishedBefore
<1>5. QED
  BY <1>1, <1>2, <1>3, <1>4, VisibleStep

(* _open_pr finds the report that calls its branch validated on disk.      *)
LEMMA ReportedStep ==
  ASSUME TypeOK, ControlOK, SignedReports, ResultNamesMe, ReportedFirst, [Next]_vars
  PROVE  ReportedFirst'
<1>1. CASE WriteReport /\ pc' = "push"
  <2>1. /\ pc = "report" /\ Write(result) /\ run' = run /\ i' = i
        /\ result \in PatchResult /\ result.kind = Validated /\ result # None
    BY <1>1 DEF WriteReport, NextFinding, ShouldOpenPR, TypeOK
  <2>2. /\ i \in Finding /\ ThisRun' = ThisRun \cup {i}
        /\ reports'[i] \in Report /\ reports'[i].patch = result
    BY <2>1, SettleStep
  <2>3. result.branch = me
    BY <2>1 DEF ControlOK
  <2>4. args'.openPR /\ prBody'[i] = me
    BY <1>1, <2>1, <2>2, <2>3 DEF WriteReport, ShouldOpenPR, NextFinding, Write, TypeOK
  <2>5. QED
    BY <2>1, <2>2, <2>3, <2>4, NoneIsNothing DEF ReportedFirst, ReportedValid, me
<1>2. CASE Push
  BY <1>2 DEF Push, ReportedFirst, ReportedValid, ThisRun, me, diskVars
<1>3. CASE UNCHANGED vars
  BY <1>3 DEF vars, procVars, diskVars, ReportedFirst, ReportedValid, ThisRun, me
<1>4. CASE WriteReport /\ pc' # "push"
  BY <1>4 DEF WriteReport, NextFinding, ReportedFirst
<1>5. QED
  BY <1>1, <1>2, <1>3, <1>4, PushIsFresh DEF ReportedFirst

(* No patch without a confirmation.                                        *)
LEMMA ConfirmedStep ==
  ASSUME TypeOK, ControlOK, PatchedIsConfirmed, [Next]_vars
  PROVE  PatchedIsConfirmed'
<1> USE DEF PatchedIsConfirmed, OnScratch
<1>1. CASE Reproduce
  <2>1. result' = None /\ pc' = AfterVerdict(verdict')
    BY <1>1 DEF Reproduce, ControlOK
  <2>2. QED
    BY <2>1 DEF AfterVerdict
<1>2. CASE RejectDiff \/ BranchFails \/ ApplyFails \/ CommitFails
  BY <1>2 DEF RejectDiff, BranchFails, ApplyFails, CommitFails, Returns, inPatch
<1>3. CASE Verify \/ VerifyNoTrace
  BY <1>3 DEF Verify, VerifyNoTrace, Returns
<1>4. CASE Restore
  <2>1. result' = result /\ result # None /\ verdict' = Confirmed /\ pc' = "report"
    BY <1>4, NoneIsNothing DEF Restore, ControlOK
  <2>2. QED
    BY <2>1
<1>5. CASE \/ StartRun \/ Unsupported \/ AnalyzeRaises \/ Finish \/ RefuseLocal \/ NoTrace
           \/ ModelError \/ ModelRaises \/ SandboxRaises \/ PushFails \/ OpenPR \/ Crash
  BY <1>5 DEF StartRun, Unsupported, AnalyzeRaises, Finish, RefuseLocal, NoTrace,
     ModelError, ModelRaises, SandboxRaises, PushFails, OpenPR, Crash, NextFinding, Exit
<1>6. CASE \/ Analyze \/ Hang \/ Propose \/ CreateBranch \/ ApplyPatch \/ AddPatch
           \/ CommitPatch \/ Push
  BY <1>6 DEF Analyze, Hang, Propose, CreateBranch, ApplyPatch, AddPatch, CommitPatch, Push,
     inPatch
<1>7. CASE WriteReport
  BY <1>7 DEF WriteReport, NextFinding
<1>8. CASE UNCHANGED vars
  BY <1>8 DEF vars, procVars
<1>9. QED
  BY <1>1, <1>2, <1>3, <1>4, <1>5, <1>6, <1>7, <1>8 DEF Next, Step

(* The steps that leave reports, run and exit status alone, and do not     *)
(* come from or lead to the report of a failed patch.                      *)
LEMMA ExitKept ==
  ASSUME ControlOK, [Next]_vars, ~StartRun, ~Finish, ~Aborts, ~ModelError, ~WriteReport, ~Restore
  PROVE  /\ UNCHANGED <<run, reports, exit>>
         /\ pc # "report" \/ UNCHANGED <<pc, result>>
         /\ pc' = "report" => result' = None \/ UNCHANGED <<pc, result>>
<1> USE DEF diskVars
<1>1. CASE Unsupported \/ NoTrace \/ PushFails \/ OpenPR
  BY <1>1 DEF Unsupported, NoTrace, PushFails, OpenPR, NextFinding
<1>2. CASE Analyze \/ Hang \/ Push
  BY <1>2 DEF Analyze, Hang, Push
<1>3. CASE Reproduce
  BY <1>3 DEF Reproduce, AfterVerdict, ControlOK, OnScratch
<1>4. CASE Propose \/ CreateBranch \/ ApplyPatch \/ AddPatch \/ CommitPatch
  BY <1>4 DEF Propose, CreateBranch, ApplyPatch, AddPatch, CommitPatch, inPatch
<1>5. CASE \/ RejectDiff \/ BranchFails \/ ApplyFails \/ CommitFails \/ Verify
           \/ VerifyNoTrace
  BY <1>5 DEF RejectDiff, BranchFails, ApplyFails, CommitFails, Verify, VerifyNoTrace,
     Returns, inPatch
<1>6. CASE UNCHANGED vars
  BY <1>6 DEF vars, procVars
<1>7. QED
  BY <1>1, <1>2, <1>3, <1>4, <1>5, <1>6 DEF Next, Step, Aborts

(* The exit status keeps up with the reports.                              *)
LEMMA ExitStep ==
  ASSUME TypeOK, ControlOK, SignedReports, ResultNamesMe, PatchedIsConfirmed, ExitTellsAll,
         [Next]_vars
  PROVE  ExitTellsAll'
<1>1. CASE StartRun
  <2>1. run' = run + 1 /\ reports' = reports /\ exit' = 0 /\ pc' = "analyze"
    BY <1>1 DEF StartRun, diskVars
  <2>2. ASSUME NEW x \in Finding, reports[x] # None PROVE reports[x].run # run'
    <3>1. reports[x].run \in Nat /\ run \in Nat
      BY <2>2 DEF TypeOK, Report
    <3>2. Done(Of(x))
      BY <2>2 DEF SignedReports
    <3>3. QED
      BY <2>1, <3>1, <3>2 DEF Done, Before, Of
  <2>3. ThisRun' = {}
    BY <2>1, <2>2 DEF ThisRun
  <2>4. QED
    BY <2>1, <2>3 DEF ExitTellsAll, Unfixed
<1>2. CASE Finish \/ Aborts
  BY <1>2, AbortStep DEF ExitTellsAll
<1>3. CASE Restore
  <2>1. /\ pc = "restore" /\ pc' = "report" /\ UNCHANGED <<run, reports, result>>
        /\ result # None
    BY <1>3, NoneIsNothing DEF Restore, diskVars, ControlOK
  <2>2. exit' = ExitAfter(result.kind)
    BY <1>3 DEF Restore
  <2>3. QED
    BY <2>1, <2>2, <1>3 DEF ExitTellsAll, Unfixed, ExitAfter, ThisRun, OpenReport, ReportedValid
<1>4. CASE ModelError
  <2>1. /\ pc = "ask" /\ Write(None) /\ run' = run /\ exit' = 1 /\ verdict = Confirmed
    BY <1>4 DEF ModelError, PatchedIsConfirmed
  <2>2. i \in Finding /\ ThisRun' = ThisRun \cup {i}
        /\ reports'[i].verdict = Confirmed /\ reports'[i].patch = None
    BY <2>1, SettleStep
  <2>3. PICK x \in Finding : x = i
    BY <2>2
  <2>4. OpenReport(x)' /\ x \in ThisRun'
    BY <2>2, <2>3 DEF OpenReport, ReportedValid
  <2>5. QED
    BY <2>1, <2>4 DEF ExitTellsAll, Unfixed
<1>5. CASE WriteReport
  <2>1. /\ pc = "report" /\ Write(result) /\ UNCHANGED <<run, exit>> /\ pc' \in {"push", "analyze"}
        /\ result \in PatchResult \cup {None}
    BY <1>5 DEF WriteReport, NextFinding, TypeOK
  <2>2. /\ i \in Finding /\ ThisRun' = ThisRun \cup {i} /\ i \notin ThisRun
        /\ reports'[i].verdict = verdict /\ reports'[i].patch = result /\ reports'[i] \in Report
        /\ \A x \in Finding \ {i} : reports'[x] = reports[x]
    BY <2>1, SettleStep
  <2>3. ASSUME NEW x \in Finding, x # i PROVE OpenReport(x)' <=> OpenReport(x)
    BY <2>2, <2>3 DEF OpenReport, ReportedValid
  <2>4. ASSUME NEW x \in Finding, x = i
        PROVE  OpenReport(x)' <=> (result # None /\ result.kind # Validated)
    <3>1. verdict = Confirmed <=> result # None
      BY <2>1 DEF PatchedIsConfirmed
    <3>2. reports'[x] # None
      BY <2>2, <2>4, NoneIsNothing
    <3>3. QED
      BY <2>2, <2>4, <3>1, <3>2 DEF OpenReport, ReportedValid
  <2>5. ThisRun \subseteq Finding
    BY DEF ThisRun
  <2>6. (\E x \in ThisRun' : OpenReport(x)') <=> Unfixed
    BY <2>1, <2>2, <2>3, <2>4, <2>5 DEF Unfixed
  <2>7. Unfixed' <=> \E x \in ThisRun' : OpenReport(x)'
    BY <2>1 DEF Unfixed
  <2>8. QED
    BY <2>1, <2>6, <2>7 DEF ExitTellsAll
<1>6. CASE ~StartRun /\ ~Finish /\ ~Aborts /\ ~ModelError /\ ~WriteReport /\ ~Restore
  <2>1. /\ UNCHANGED <<run, reports, exit>>
        /\ pc # "report" \/ UNCHANGED <<pc, result>>
        /\ pc' = "report" => result' = None \/ UNCHANGED <<pc, result>>
    BY <1>6, ExitKept
  <2>2. pc' # "down" => pc # "down"
    BY <1>6, VisibleStep DEF Unseen, Push
  <2>3. Unfixed' <=> Unfixed
    BY <2>1 DEF Unfixed, ThisRun, OpenReport, ReportedValid
  <2>4. QED
    BY <2>1, <2>2, <2>3 DEF ExitTellsAll
<1>7. QED
  BY <1>1, <1>2, <1>3, <1>4, <1>5, <1>6

(* All of it together.                                                     *)
LEMMA LifecycleStep == LifecycleInv /\ [Next]_vars => LifecycleInv'
BY TypeStep, BoundStep, SignedStep, NamesStep, PublishedStep, ReportedStep, ConfirmedStep,
   ExitStep DEF LifecycleInv

-----------------------------------------------------------------------------
(* The refinement mapping.                                                 *)

(* What the operator sees of a report tells that there is one, and whether *)
(* the finding is fixed.                                                   *)
LEMMA SeenFacts ==
  ASSUME TypeOK, NEW x \in Finding
  PROVE  /\ Seen(x) = None <=> reports[x] = None
         /\ Lifecycle!IsFixed(x) <=> ReportedValid(x)
         /\ reports[x] # None => (Lifecycle!IsOpen(x) <=> OpenReport(x))
<1>1. reports[x] \in Report \cup {None}
  BY DEF TypeOK
<1>2. Seen(x) = None <=> reports[x] = None
  <2>1. reports[x] # None => [verdict |-> reports[x].verdict, patch |-> reports[x].patch]
                             \in [verdict : Verdicts, patch : PatchResult \cup {None}]
    BY <1>1 DEF Report
  <2>2. QED
    BY <2>1, NoneIsUnseen DEF Seen
<1>3. reports[x] # None => Seen(x).verdict = reports[x].verdict /\ Seen(x).patch = reports[x].patch
  BY DEF Seen
<1>4. Lifecycle!IsFixed(x) <=> ReportedValid(x)
  BY <1>2, <1>3 DEF Lifecycle!IsFixed, ReportedValid, Validated
<1>5. reports[x] # None => (Lifecycle!IsOpen(x) <=> OpenReport(x))
  BY <1>3, <1>4 DEF Lifecycle!IsOpen, OpenReport, Confirmed
<1>6. QED
  BY <1>2, <1>4, <1>5

(* An operator who sees a fresh installation sees no report.               *)
LEMMA InitMapped == Init => Lifecycle!Init
<1> SUFFICES ASSUME Init PROVE Lifecycle!Init
  OBVIOUS
<1>1. ThisRun = {}
  BY DEF Init, ThisRun
<1>2. \A x \in Finding : Seen(x) = None
  BY DEF Init, Seen
<1>3. QED
  BY <1>1, <1>2 DEF Init, Lifecycle!Init

(* Writing a report settles the finding at hand.                           *)
LEMMA SettleMapped ==
  ASSUME LifecycleInv, NEW res \in PatchResult \cup {None}, Write(res), pc \in {"ask", "report"},
         UNCHANGED <<run, remote>>, pc' # "down", verdict \in Verdicts,
         res # None => pc = "report" /\ res = result /\ verdict = Confirmed
  PROVE  Lifecycle!Settle(i, verdict, res) /\ i \in Finding /\ res \in Lifecycle!Patch \cup {None}
<1> USE DEF LifecycleInv
<1>1. /\ i \in Finding /\ i \notin ThisRun /\ \A x \in ThisRun : x < i
      /\ reports'[i] \in Report
      /\ reports'[i].verdict = verdict /\ reports'[i].patch = res
      /\ \A x \in Finding \ {i} : reports'[x] = reports[x]
      /\ res # None => res.branch \in {me, None}
      /\ ThisRun' = ThisRun \cup {i}
  BY SettleStep
<1>2. [x \in Finding |-> Seen(x)]'
      = [[x \in Finding |-> Seen(x)] EXCEPT ![i] = [verdict |-> verdict, patch |-> res]]
  BY <1>1, NoneIsNothing DEF Seen
<1>3. me \in [run : 1..MaxRuns, finding : Finding]
  BY <1>1 DEF me, ControlOK, RunsBounded, TypeOK
<1>4. res # None => res.branch \notin Lifecycle!Named
  <2> SUFFICES ASSUME res # None, NEW x \in Finding, Seen(x) # None, Seen(x).patch # None,
                      res.branch = Seen(x).patch.branch, res.branch # None
               PROVE  FALSE
    BY DEF Lifecycle!Named
  <2>1. reports[x] # None /\ Seen(x).patch = reports[x].patch
    BY DEF Seen
  <2>2. me = Of(x) /\ Done(Of(x))
    BY <1>1, <2>1 DEF SignedReports
  <2>3. QED
    BY <2>2 DEF Done, Before, me, TypeOK
<1>5. res # None /\ res.kind = "validated" => res.branch # None
  <2>1. res # None /\ res.kind = Validated => res.branch = me
    BY DEF ControlOK
  <2>2. me # None
    BY NoneAssumption, ParameterAssumption, <1>1 DEF me, Id, Finding, TypeOK
  <2>3. QED
    BY <2>1, <2>2 DEF Validated
<1>6. res \in Lifecycle!Patch \cup {None}
  BY <1>1, <1>3 DEF Lifecycle!Patch, PatchResult, PatchKinds, Validated, Failed, NeedsReview
<1>7. QED
  BY <1>1, <1>2, <1>4, <1>5, <1>6 DEF Lifecycle!Settle, Confirmed

(* Every step of the program is one the operator was promised, or unseen.  *)
LEMMA StepMapped ==
  ASSUME LifecycleInv, [Next]_vars
  PROVE  [Lifecycle!Next]_(Lifecycle!lifecycleVars)
<1> USE DEF LifecycleInv
<1>1. CASE StartRun
  <2>1. /\ pc = "down" /\ pc' = "analyze" /\ run' = run + 1
        /\ UNCHANGED <<reports, remote>>
    BY <1>1 DEF StartRun, diskVars, hubVars
  <2>2. ASSUME NEW x \in Finding, reports[x] # None PROVE reports[x].run # run'
    <3>1. reports[x].run \in Nat /\ run \in Nat
      BY <2>2 DEF TypeOK, Report
    <3>2. QED
      BY <2>1, <2>2, <3>1 DEF Done, Before, Of, SignedReports
  <2>3. ThisRun' = {}
    BY <2>1, <2>2 DEF ThisRun
  <2>4. [x \in Finding |-> Seen(x)]' = [x \in Finding |-> Seen(x)]
    BY <2>1 DEF Seen
  <2>5. Lifecycle!Begin
    BY <2>1, <2>3, <2>4 DEF Lifecycle!Begin
  <2>6. QED
    BY <2>5 DEF Lifecycle!Next
<1>2. CASE Finish \/ Aborts
  <2>1. pc' = "down" /\ UNCHANGED <<run, reports, remote>>
    BY <1>2, AbortStep
  <2>2. ThisRun' = ThisRun /\ [x \in Finding |-> Seen(x)]' = [x \in Finding |-> Seen(x)]
    BY <2>1 DEF ThisRun, Seen
  <2>3. CASE Finish
    <3>1. pc = "analyze" /\ exit' = exit
      BY <2>3 DEF Finish, Exit
    <3>2. Unfixed <=> \E x \in ThisRun : Lifecycle!IsOpen(x)
      BY <3>1, SeenFacts DEF Unfixed, ThisRun
    <3>3. exit \in {0, 1} /\ Lifecycle!End(exit)
      BY <2>1, <2>2, <3>1, <3>2 DEF Lifecycle!End, ExitTellsAll, TypeOK
    <3>4. QED
      BY <3>3 DEF Lifecycle!Next
  <2>4. CASE Aborts
    <3>1. pc # "down" /\ exit' = 1
      BY <2>4 DEF Aborts, AnalyzeRaises, RefuseLocal, ModelRaises, SandboxRaises, Crash, Exit
    <3>2. Lifecycle!End(1)
      BY <2>1, <2>2, <3>1 DEF Lifecycle!End
    <3>3. QED
      BY <3>2 DEF Lifecycle!Next
  <2>5. QED
    BY <1>2, <2>3, <2>4
<1>3. CASE ModelError \/ WriteReport
  <2>1. \E res \in PatchResult \cup {None} :
          /\ Write(res) /\ pc \in {"ask", "report"}
          /\ UNCHANGED <<run, remote>> /\ pc' # "down" /\ verdict \in Verdicts
          /\ res # None => pc = "report" /\ res = result /\ verdict = Confirmed
    <3>1. CASE ModelError
      BY <3>1 DEF ModelError, NextFinding, hubVars, ControlOK
    <3>2. CASE WriteReport
      BY <3>2 DEF WriteReport, NextFinding, hubVars, ControlOK, TypeOK, PatchedIsConfirmed
    <3>3. QED
      BY <1>3, <3>1, <3>2
  <2>2. \E x \in Finding, v \in Verdicts, p \in Lifecycle!Patch \cup {None} :
          Lifecycle!Settle(x, v, p)
    BY <2>1, SettleMapped
  <2>3. QED
    BY <2>2 DEF Lifecycle!Next
<1>4. CASE Push
  <2>1. /\ pc = "push" /\ pc' = "gh" /\ UNCHANGED <<run, reports>>
        /\ remote' = remote \cup {result.branch}
    BY <1>4 DEF Push, diskVars
  <2>2. result.branch = me
    BY <2>1, NoneIsNothing DEF ControlOK
  <2>3. i \in ThisRun /\ i \in Finding /\ ReportedValid(i) /\ reports[i].patch.branch = me
    BY <2>1 DEF ReportedFirst, ThisRun
  <2>4. \A y \in ThisRun : y <= i
    <3> SUFFICES ASSUME NEW y \in Finding, reports[y] # None, reports[y].run = run
                 PROVE  y <= i
      BY DEF ThisRun
    <3>1. y \in Nat /\ i \in Nat
      BY ParameterAssumption DEF Finding, TypeOK
    <3>2. QED
      BY <2>1, <3>1 DEF SignedReports, Done, Before, Of, TypeOK
  <2>5. Lifecycle!IsFixed(i) /\ Seen(i).patch.branch = me
    BY <2>3, SeenFacts DEF Seen, ReportedValid
  <2>6. ThisRun' = ThisRun /\ [x \in Finding |-> Seen(x)]' = [x \in Finding |-> Seen(x)]
    BY <2>1 DEF ThisRun, Seen
  <2>7. me \notin remote
    BY <2>1 DEF PublishedBefore
  <2>8. Lifecycle!Publish(i)
    BY <2>1, <2>2, <2>3, <2>4, <2>5, <2>6, <2>7 DEF Lifecycle!Publish
  <2>9. QED
    BY <2>3, <2>8 DEF Lifecycle!Next
<1>5. CASE Unseen
  <2>1. ThisRun' = ThisRun /\ [x \in Finding |-> Seen(x)]' = [x \in Finding |-> Seen(x)]
    BY <1>5 DEF Unseen, ThisRun, Seen
  <2>2. QED
    BY <1>5, <2>1 DEF Unseen, Lifecycle!lifecycleVars
<1>6. QED
  BY <1>1, <1>2, <1>3, <1>4, <1>5, VisibleStep

(* Whatever git, the sandbox and the model do, and however often secfix is *)
(* killed and run again, run_command keeps the promises of                 *)
(* FindingLifecycle: patches for confirmed findings only, fresh branches,  *)
(* publication of what was just reported validated, and an honest exit     *)
(* status.                                                                 *)
THEOREM Refinement == Spec => ImplementsLifecycle
<1>1. Init => LifecycleInv /\ Lifecycle!Init
  BY InitLifecycle, InitMapped
<1>2. LifecycleInv /\ [Next]_vars => LifecycleInv'
  BY LifecycleStep
<1>3. LifecycleInv /\ [Next]_vars => [Lifecycle!Next]_(Lifecycle!lifecycleVars)
  BY StepMapped
<1>4. QED
  BY <1>1, <1>2, <1>3, PTL DEF Spec, ImplementsLifecycle, Lifecycle!Spec

-----------------------------------------------------------------------------
(* What follows from the same invariant.                                   *)

(* The exit status outlives the run that set it.                           *)
LEMMA HonestStep ==
  ASSUME LifecycleInv, ExitZeroMeansFixed, [Next]_vars
  PROVE  ExitZeroMeansFixed'
<1> USE DEF LifecycleInv
<1>1. CASE StartRun \/ ModelError \/ WriteReport \/ Push
  BY <1>1 DEF StartRun, ModelError, WriteReport, Push, NextFinding, ExitZeroMeansFixed
<1>2. CASE Finish
  <2>1. UNCHANGED <<run, reports>> /\ pc = "analyze" /\ exit' = exit
    BY <1>2, AbortStep DEF Finish, Exit
  <2>2. exit = 0 => \A x \in ThisRun : ~OpenReport(x)
    BY <2>1 DEF ExitTellsAll, Unfixed
  <2>3. QED
    BY <2>1, <2>2 DEF ExitZeroMeansFixed, ThisRun, OpenReport, ReportedValid
<1>3. CASE Aborts
  <2>1. exit' = 1
    BY <1>3 DEF Aborts, AnalyzeRaises, RefuseLocal, ModelRaises, SandboxRaises, Crash, Exit
  <2>2. QED
    BY <2>1 DEF ExitZeroMeansFixed
<1>4. CASE Unseen
  BY <1>4 DEF Unseen, ExitZeroMeansFixed, ReportedValid
<1>5. QED
  BY <1>1, <1>2, <1>3, <1>4, VisibleStep

(* Exit status 0 means that every finding this run reported as confirmed   *)
(* is reported with a validated patch: no failure, crash or earlier run's  *)
(* report makes run_command's status better than its reports.              *)
THEOREM HonestExit == Spec => []ExitZeroMeansFixed
<1>1. Init => LifecycleInv /\ ExitZeroMeansFixed
  BY InitLifecycle DEF Init, ExitZeroMeansFixed
<1>2. LifecycleInv /\ ExitZeroMeansFixed /\ [Next]_vars => (LifecycleInv /\ ExitZeroMeansFixed)'
  BY LifecycleStep, HonestStep
<1>3. QED
  BY <1>1, <1>2, PTL DEF Spec

(* Nothing is pushed but on request, and only after the report and the PR  *)
(* body that say "validated" of that very branch have been written.        *)
THEOREM PublicationIsEarned == Spec => PublishesOnlyValidated
<1> DEFINE earned ==
      \A b \in remote' \ remote :
        /\ args.openPR
        /\ ReportedValid(i) /\ reports[i].patch.branch = b /\ reports[i].run = run
        /\ prBody[i] = b
<1>1. LifecycleInv /\ [Next]_vars => [earned]_vars
  <2> SUFFICES ASSUME LifecycleInv, [Next]_vars PROVE earned
    OBVIOUS
  <2>1. CASE Push
    <3>1. remote' = remote \cup {me} /\ pc = "push"
      BY <2>1, NoneIsNothing DEF Push, LifecycleInv, ControlOK
    <3>2. QED
      BY <3>1 DEF LifecycleInv, ReportedFirst, ThisRun
  <2>2. CASE remote' = remote
    BY <2>2
  <2>3. QED
    BY <2>1, <2>2, VisibleStep, AbortStep
       DEF StartRun, ModelError, WriteReport, Unseen, hubVars
<1>2. QED
  BY <1>1, InitLifecycle, LifecycleStep, PTL DEF Spec, PublishesOnlyValidated

-----------------------------------------------------------------------------
(* A patch that was applied is where the report says.                      *)

(* What is returned after the commit has its patch on the branch.          *)
LEMMA AppliedResultStep ==
  ASSUME TypeOK, ControlOK, PatchTravels, AppliedResult, [Next]_vars
  PROVE  AppliedResult'
<1> SUFFICES ASSUME pc' \in {"restore", "report"}, SaysApplied(result')
             PROVE  result'.branch = me' /\ HoldsOwnPatch(me, target)'
  BY DEF AppliedResult, SaysApplied
<1>1. CASE Verify \/ VerifyNoTrace
  <2>1. pc = "verify" /\ UNCHANGED <<refs, target, me>>
    BY <1>1, HarnessLeavesGit DEF Verify, VerifyNoTrace, gitVars, me
  <2>2. \E kind : Returns(kind, me)
    BY <1>1 DEF Verify, VerifyNoTrace
  <2>3. HoldsOwnPatch(me, target)
    BY <2>1 DEF ControlOK, OnScratch, PatchTravels, HoldsOwnPatch
  <2> QED BY <2>1, <2>2, <2>3 DEF Returns, HoldsOwnPatch
<1>2. CASE RejectDiff \/ BranchFails \/ ApplyFails \/ CommitFails
  BY <1>2 DEF RejectDiff, BranchFails, ApplyFails, CommitFails, Returns, SaysApplied,
     Validated, NeedsReview, Failed
<1>3. CASE Reproduce
  BY <1>3 DEF Reproduce, AfterVerdict, ControlOK, SaysApplied
<1>4. CASE Restore
  <2>1. UNCHANGED <<refs, target, result>> /\ me' = me /\ pc = "restore"
    BY <1>4, RefsStep DEF Restore, me, CreateBranch, CommitPatch
  <2> QED BY <2>1 DEF AppliedResult, HoldsOwnPatch
<1>5. CASE \/ StartRun \/ Unsupported \/ AnalyzeRaises \/ Finish \/ RefuseLocal \/ NoTrace
           \/ ModelError \/ ModelRaises \/ SandboxRaises \/ PushFails \/ OpenPR \/ Crash
  BY <1>5 DEF StartRun, Unsupported, AnalyzeRaises, Finish, RefuseLocal, NoTrace,
     ModelError, ModelRaises, SandboxRaises, PushFails, OpenPR, Crash, NextFinding, Exit
<1>6. CASE \/ Analyze \/ Hang \/ Propose \/ CreateBranch \/ ApplyPatch \/ AddPatch
           \/ CommitPatch \/ Push
  BY <1>6 DEF Analyze, Hang, Propose, CreateBranch, ApplyPatch, AddPatch, CommitPatch, Push
<1>7. CASE WriteReport
  BY <1>7 DEF WriteReport, NextFinding
<1>8. CASE UNCHANGED vars
  BY <1>8 DEF vars, procVars, gitVars, me, AppliedResult, HoldsOwnPatch
<1> QED
  BY <1>1, <1>2, <1>3, <1>4, <1>5, <1>6, <1>7, <1>8 DEF Next, Step

(* A branch keeps its patch once a report has named it: commits land on    *)
(* the branch of the finding at hand, which is not done with.              *)
LEMMA AppliedStep ==
  ASSUME TypeOK, ControlOK, MadeInOrder, SignedReports, AppliedResult, AppliedPatchIsThere,
         [Next]_vars
  PROVE  AppliedPatchIsThere'
<1> SUFFICES ASSUME NEW x \in Finding, reports'[x] # None, SaysApplied(reports'[x].patch)
             PROVE  HoldsOwnPatch(reports[x].patch.branch, reports[x].fn)'
  BY DEF AppliedPatchIsThere, SaysApplied
<1>1. CASE reports'[x] = reports[x]
  <2> DEFINE b == reports[x].patch.branch
             f == reports[x].fn
  <2>1. HoldsOwnPatch(b, f) /\ b \in DOMAIN refs
    BY <1>1 DEF AppliedPatchIsThere, HoldsOwnPatch
  <2>2. Done(Of(x)) /\ b \in {Of(x), None}
    BY <1>1 DEF SignedReports, SaysApplied
  <2>3. b # None
    BY <2>1, NoneAssumption DEF TypeOK, GitTypeOK
  <2>4. pc = "commit" => b # me
    BY <2>2, <2>3 DEF Done, Before, me, TypeOK
  <2>5. b \in DOMAIN refs' /\ refs'[b] = refs[b]
    BY <2>1, <2>4, CommitStep
  <2> QED BY <1>1, <2>1, <2>5 DEF HoldsOwnPatch
<1>2. CASE ModelError
  BY <1>1, <1>2, WriteEffect DEF ModelError, SaysApplied
<1>3. CASE WriteReport
  <2>1. result \in PatchResult \cup {None} /\ Write(result) /\ pc = "report" /\ refs' = refs
    BY <1>3 DEF WriteReport, TypeOK, gitVars
  <2>2. x # i => reports'[x] = reports[x]
    BY <2>1, WriteEffect
  <2>3. x = i => reports'[x].patch = result /\ reports'[x].fn = target
    BY <2>1, WriteEffect
  <2> QED BY <1>1, <2>1, <2>2, <2>3 DEF AppliedResult, HoldsOwnPatch
<1> QED BY <1>1, <1>2, <1>3, ReportsStep DEF diskVars

(* Wherever a report speaks of an applied patch, to be merged or to be     *)
(* inspected by hand, that patch is on the branch it names: whatever else  *)
(* fails, branch, commit and checkout included, whenever secfix is killed, *)
(* and whatever the user or an earlier run has left behind.                *)
THEOREM AppliedPatchesAreThere ==
  ASSUME "add" \notin Faults
  PROVE  Spec => []AppliedPatchIsThere
<1> DEFINE Inv == /\ TypeOK /\ ControlOK /\ TraceIsOld /\ MadeInOrder /\ PatchTravels
                  /\ SignedReports /\ ResultNamesMe /\ AppliedResult /\ AppliedPatchIsThere
<1>1. Init => Inv
  BY InitType, InitControl, InitOnBranch, InitLifecycle
     DEF InOrder, LifecycleInv, Init, AppliedResult, AppliedPatchIsThere
<1>2. Inv /\ [Next]_vars => Inv'
  BY TypeStep, TraceStep, MadeStep, PatchTravelsStep, SignedStep, NamesStep,
     AppliedResultStep, AppliedStep
<1> QED BY <1>1, <1>2, PTL DEF Spec
=============================================================================
