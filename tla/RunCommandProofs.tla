-------------------------- MODULE RunCommandProofs --------------------------
(***************************************************************************)
(* Theorems about RunCommand, for every target repository, every number of *)
(* findings and of invocations.                                            *)
(***************************************************************************)
EXTENDS RunCommand, TLAPS

-----------------------------------------------------------------------------
(* The oracles.                                                            *)

(* A verdict is always one of the three.                                   *)
LEMMA VerdictType ==
  ASSUME NEW trace_, NEW s
  PROVE  Evaluate(Rule, trace_, s) \in Verdicts
BY RuleAssumption DEF Rules, Evaluate, EvaluateSqli, EvaluateCmdi,
   EvaluatePathTraversal, Verdicts, Confirmed, NotReproduced, Uncertain

(* More recorded calls never take a confirmation back.                     *)
LEMMA ConfirmationGrows ==
  ASSUME NEW small, NEW large, small \subseteq large, NEW s,
         Evaluate(Rule, small, s) = Confirmed
  PROVE  Evaluate(Rule, large, s) = Confirmed
BY RuleAssumption DEF Rules, Evaluate, EvaluateSqli, EvaluateCmdi,
   EvaluatePathTraversal, Confirmed, NotReproduced, Uncertain

(* A trace written by another harness proves nothing either way: its       *)
(* sentinel occurs nowhere in it.                                          *)
LEMMA ForeignTraceUncertain ==
  ASSUME NEW c, NEW f, NEW s, NEW t, s # t
  PROVE  Evaluate(Rule, TraceOf(c, f, s), t) = Uncertain
<1>1. \A q \in TraceOf(c, f, s) : t \notin q.sql /\ t \notin q.params
  BY DEF TraceOf, Call
<1>2. QED
  BY <1>1, RuleAssumption DEF Rules, Evaluate, EvaluateSqli, EvaluateCmdi,
     EvaluatePathTraversal, Confirmed, NotReproduced, Uncertain

-----------------------------------------------------------------------------
(* Types.                                                                  *)

(* No run has happened yet: every variable starts within its type.         *)
LEMMA InitType == Init => TypeOK
BY ParameterAssumption DEF Init, TypeOK, GitTypeOK, SandboxTypeOK, Steppings,
   NothingLoaded, File, Env, Tree, Version, Id, Main, UserEdit, Report

(* ... and at the step "down", where no local has to hold a value.          *)
LEMMA InitControl == Init => ControlOK
BY DEF Init, ControlOK, OnScratch

(* The commands of git keep the repository well-formed.                    *)
LEMMA HeadTreeType ==
  ASSUME GitTypeOK PROVE HeadTree \in Tree
BY DEF GitTypeOK, HeadTree

(* git checkout -b keeps the repository well formed.                       *)
LEMMA CheckoutNewType ==
  ASSUME GitTypeOK, NEW b \in Id, CheckoutNew(b)
  PROVE  GitTypeOK' /\ head' = b /\ b \in DOMAIN refs' /\ DOMAIN refs \subseteq DOMAIN refs'
BY HeadTreeType DEF GitTypeOK, CheckoutNew

(* So does git checkout of a branch that exists, or of a detached HEAD.    *)
LEMMA CheckoutType ==
  ASSUME GitTypeOK, NEW b \in DOMAIN refs \cup {Detached}, Checkout(b)
  PROVE  GitTypeOK' /\ refs' = refs
<1>1. CASE b = Detached
  BY <1>1 DEF Checkout, gitVars, GitTypeOK
<1>2. CASE b # Detached
  <2>1. refs[b] \in Tree
    BY <1>2 DEF GitTypeOK
  <2>2. tree' \in Tree /\ index' \in Tree
    BY <1>2, <2>1 DEF Checkout, GitTypeOK, Tree
  <2>3. QED
    BY <1>2, <2>2 DEF Checkout, GitTypeOK
<1>3. QED
  BY <1>1, <1>2

(* Importing code gives every function a version or none.                  *)
LEMMA LinkedType ==
  ASSUME TypeOK, NEW F \in File,
         NEW cache \in [File -> Env \cup {NotLoaded}]
  PROVE  Linked(cache, F) \in Env /\ Imported(cache, F) \in [File -> Env \cup {NotLoaded}]
<1>1. \A G \in File : Leaf(tree, G) \in Env
  BY DEF TypeOK, GitTypeOK, Leaf, Env, Tree
<1>2. \A G \in File : Object(cache, G) \in Env
  BY <1>1 DEF Object
<1>3. \A f \in Fn : FileOf[f] \in File
  BY DEF File
<1>4. Linked(cache, F) \in Env
  <2>1. CASE cache[F] # NotLoaded
    BY <2>1 DEF Linked
  <2>2. CASE cache[F] = NotLoaded
    BY <2>2, <1>2, <1>3 DEF Linked, Env
  <2>3. QED
    BY <2>1, <2>2
<1>5. QED
  BY <1>1, <1>4 DEF Imported

(* What a harness run does, in either sandbox, with either outcome.        *)
LEMMA HarnessType ==
  ASSUME TypeOK, me \in Id, target \in Fn, args \in Args,
         NEW phase \in {"repro", "verify"}, NEW invalidate \in BOOLEAN,
         NEW got \in BOOLEAN, RunHarness(phase, invalidate, got)
  PROVE  /\ SandboxTypeOK'
         /\ UNCHANGED gitVars
         /\ trace' = trace \/ (trace' \in Written /\ trace'.sentinel = sentinel(phase)
                                /\ trace'.fn = target)
         /\ got => trace' \in Written
<1>1. sentinel(phase) \in Sentinel
  BY DEF sentinel, Sentinel
<1>2. tree \in Env
  BY DEF TypeOK, GitTypeOK, Tree, Env
<1>3. FileOf[target] \in File
  BY DEF File
<1>4. CASE LocalRun(target, sentinel(phase), invalidate) /\ got = (trace' # None)
  <2>1. Purged(FileOf[target], invalidate) \in [File -> Env \cup {NotLoaded}]
    BY <1>3 DEF Purged, TypeOK, SandboxTypeOK
  <2>2. QED
    BY <2>1, <1>1, <1>3, <1>4, LinkedType DEF LocalRun, TypeOK, SandboxTypeOK, Written
<1>5. CASE DockerRun(target, sentinel(phase)) /\ got = FreshTraces(tree, target)
  BY <1>1, <1>2, <1>5 DEF DockerRun, TypeOK, SandboxTypeOK, Written
<1>6. CASE UNCHANGED <<gitVars, sandboxVars>> /\ ~got
  BY <1>6 DEF sandboxVars, TypeOK, SandboxTypeOK
<1>7. QED
  BY <1>4, <1>5, <1>6 DEF RunHarness

(* A harness run leaves the repository alone.                              *)
LEMMA HarnessLeavesGit ==
  ASSUME TypeOK, ControlOK,
         Reproduce \/ NoTrace \/ Verify \/ VerifyNoTrace
  PROVE  UNCHANGED gitVars
<1>1. target \in Fn /\ args \in Args /\ me \in Id
  BY ParameterAssumption DEF Reproduce, NoTrace, Verify, VerifyNoTrace, ControlOK, TypeOK,
     OnScratch, me, Id, Finding
<1> QED
  BY <1>1, HarnessType DEF Reproduce, NoTrace, Verify, VerifyNoTrace

(* write_report_to_disk writes well-formed reports and PR bodies.          *)
LEMMA WriteType ==
  ASSUME TypeOK, ControlOK, NEW res \in PatchResult \cup {None}, Write(res),
         pc \in {"ask", "report"}
  PROVE  reports' \in [Finding -> Report \cup {None}] /\ prBody' \in [Finding -> Id \cup {None}]
<1> DEFINE steps ==
      IF res # None /\ res.kind = Validated /\ args.openPR THEN "pr requested"
      ELSE IF res # None /\ res.kind = Validated THEN "publish"
      ELSE IF res # None /\ res.branch # None THEN "scratch branch" ELSE "nothing"
<1> DEFINE r == [run |-> run, fn |-> target, verdict |-> verdict,
                 summary |-> "reproduced", patch |-> res, steps |-> steps]
<1>1. target \in Fn /\ verdict \in Verdicts /\ run \in Nat
  BY DEF TypeOK, ControlOK
<1>2. steps \in Steps
  BY DEF Steps
<1>3. r \in Report
  BY <1>1, <1>2 DEF Report
<1>4. reports' = [reports EXCEPT ![i] = r]
  BY DEF Write
<1>5. res # None /\ res.kind = Validated => res.branch \in Id \cup {None}
  BY DEF PatchResult
<1>6. QED
  BY <1>3, <1>4, <1>5 DEF Write, TypeOK

(* The locals of an iteration keep their types when they are forgotten.    *)
LEMMA ForgetType ==
  ASSUME TypeOK, ForgetFinding
  PROVE  /\ target' \in Fn \cup {None} /\ verdict' \in Verdicts \cup {None}
         /\ patch' \in Version \cup {None} /\ result' \in PatchResult \cup {None}
         /\ trace' \in Written \cup {None} /\ result' = None
BY DEF ForgetFinding

(* A process that ends leaves every variable within its type.              *)
LEMMA ExitType ==
  ASSUME TypeOK, NEW status \in {0, 1}, Exit(status),
         UNCHANGED <<gitVars, run, diskVars, hubVars>>
  PROVE  TypeOK' /\ ControlOK'
<1>1. GitTypeOK'
  BY DEF TypeOK, GitTypeOK, gitVars, HeadTree
<1>2. SandboxTypeOK'
  BY ForgetType DEF Exit, SandboxTypeOK, NothingLoaded
<1>3. TypeOK'
  BY <1>1, <1>2, ForgetType DEF Exit, TypeOK, Steppings, gitVars, diskVars, hubVars
<1>4. QED
  BY <1>3 DEF Exit, ForgetFinding, ControlOK, OnScratch

(* Types and control state are inductive: one step per action of Next.     *)
LEMMA TypeStep == TypeOK /\ ControlOK /\ [Next]_vars => TypeOK' /\ ControlOK'
<1> SUFFICES ASSUME TypeOK, ControlOK, [Next]_vars
             PROVE  TypeOK' /\ ControlOK'
  OBVIOUS
<1> USE DEF TypeOK, ControlOK, OnScratch, Steppings, gitVars, sandboxVars, diskVars,
            hubVars, inPatch
<1>a. GitTypeOK /\ UNCHANGED gitVars => GitTypeOK'
  BY DEF GitTypeOK
<1>b. SandboxTypeOK /\ UNCHANGED sandboxVars => SandboxTypeOK'
  BY DEF SandboxTypeOK
<1>c. ForgetFinding /\ loaded' = loaded => SandboxTypeOK'
  BY ForgetType DEF SandboxTypeOK
<1>d. me \in Id /\ Finding \subseteq Nat \ {0}
  BY ParameterAssumption DEF me, Id, Finding
<1>1. CASE StartRun
  BY <1>1, <1>a, ForgetType DEF StartRun, SandboxTypeOK, NothingLoaded, GitTypeOK
<1>2. CASE Analyze
  <2>1. i \in Finding
    BY <1>2, ParameterAssumption DEF Analyze, Finding
  <2>2. target' \in Fn
    BY <1>2, <2>1, ParameterAssumption DEF Analyze, Located, Finding
  <2>3. QED
    BY <1>2, <2>1, <2>2, <1>a, <1>b DEF Analyze, me, SandboxTypeOK
<1>3. CASE Unsupported
  BY <1>3, <1>a, <1>c, ForgetType DEF Unsupported, NextFinding
<1>4. CASE AnalyzeRaises
  BY <1>4, ExitType DEF AnalyzeRaises
<1>5. CASE Finish
  BY <1>5, ExitType DEF Finish
<1>6. CASE RefuseLocal
  BY <1>6, ExitType DEF RefuseLocal
<1>7. CASE Reproduce
  <2>1. SandboxTypeOK' /\ UNCHANGED gitVars
    BY <1>7, <1>d, HarnessType DEF Reproduce
  <2>2. verdict' \in Verdicts
    BY <1>7, VerdictType DEF Reproduce, Judged
  <2>3. QED
    BY <1>7, <1>a, <2>1, <2>2 DEF Reproduce, AfterVerdict, me
<1>8. CASE NoTrace
  <2>1. SandboxTypeOK' /\ UNCHANGED gitVars
    BY <1>8, <1>d, HarnessType DEF NoTrace
  <2>2. QED
    BY <1>8, <1>a, <2>1, ForgetType DEF NoTrace, NextFinding
<1>9. CASE Hang
  BY <1>9, <1>a, <1>b DEF Hang, me
<1>10. CASE ModelError
  BY <1>10, <1>a, <1>c, ForgetType, WriteType DEF ModelError, NextFinding
<1>11. CASE ModelRaises \/ SandboxRaises
  BY <1>11, ExitType DEF ModelRaises, SandboxRaises
<1>12. CASE Propose
  <2>1. patch' \in Version /\ patch'.by = me
    BY <1>12, <1>d DEF Propose, Version
  <2>2. QED
    BY <1>12, <2>1, <1>a, <1>b DEF Propose, me, SandboxTypeOK
<1>13. CASE RejectDiff
  BY <1>13, <1>a, <1>d DEF RejectDiff, Returns, PatchResult, PatchKinds,
     Validated, Failed, me, SandboxTypeOK
<1>14. CASE CreateBranch
  BY <1>14, <1>d, CheckoutNewType DEF CreateBranch, me, SandboxTypeOK
<1>15. CASE BranchFails
  BY <1>15, <1>a, <1>d DEF BranchFails, Returns, PatchResult, PatchKinds,
     Validated, Failed, me, SandboxTypeOK
<1>16. CASE ApplyPatch
  <2>1. GitTypeOK'
    BY <1>16 DEF ApplyPatch, Apply, GitTypeOK, Tree
  <2>2. QED
    BY <1>16, <2>1 DEF ApplyPatch, Apply, me, SandboxTypeOK
<1>17. CASE ApplyFails
  BY <1>17, <1>a, <1>d DEF ApplyFails, Returns, PatchResult, PatchKinds,
     Validated, Failed, me, SandboxTypeOK
<1>18. CASE AddPatch
  <2>1. GitTypeOK' /\ head' = head /\ refs' = refs
    BY <1>18 DEF AddPatch, Add, GitTypeOK, Tree
  <2>2. QED
    BY <1>18, <2>1 DEF AddPatch, me, SandboxTypeOK
<1>19. CASE CommitPatch
  <2>1. GitTypeOK' /\ head' = head /\ DOMAIN refs' = DOMAIN refs
    BY <1>19 DEF CommitPatch, Commit, GitTypeOK
  <2>2. QED
    BY <1>19, <2>1 DEF CommitPatch, me, SandboxTypeOK
<1>20. CASE CommitFails
  BY <1>20, <1>a, <1>d DEF CommitFails, Returns, PatchResult, PatchKinds,
     Validated, Failed, me, SandboxTypeOK
<1>21. CASE Verify
  <2>1. SandboxTypeOK' /\ UNCHANGED gitVars
    BY <1>21, <1>d, HarnessType DEF Verify
  <2>2. result' \in PatchResult
    BY <1>21, <1>d DEF Verify, Returns, PatchResult, PatchKinds, KindOf
  <2>3. QED
    BY <1>21, <2>1, <2>2, <1>a DEF Verify, Returns, me
<1>22. CASE VerifyNoTrace
  <2>1. SandboxTypeOK' /\ UNCHANGED gitVars
    BY <1>22, <1>d, HarnessType DEF VerifyNoTrace
  <2>2. result' \in PatchResult
    BY <1>22, <1>d DEF VerifyNoTrace, Returns, PatchResult, PatchKinds
  <2>3. QED
    BY <1>22, <2>1, <2>2, <1>a DEF VerifyNoTrace, Returns, me
<1>23. CASE Restore
  <2>1. GitTypeOK' /\ refs' = refs
    BY <1>23, <1>a, CheckoutType DEF Restore, Restored
  <2>2. exit' \in {0, 1}
    BY <1>23 DEF Restore, ExitAfter
  <2>3. QED
    BY <1>23, <2>1, <2>2, <1>b DEF Restore, me
<1>24. CASE WriteReport
  BY <1>24, <1>a, <1>b, <1>c, ForgetType, WriteType
     DEF WriteReport, NextFinding, ShouldOpenPR, me
<1>25. CASE Push
  BY <1>25, <1>a, <1>b, <1>d, NoneIsNothing DEF Push, me
<1>26. CASE PushFails
  BY <1>26, <1>a, <1>c, ForgetType DEF PushFails, NextFinding
<1>27. CASE OpenPR
  <2>1. result.branch \in Id
    BY <1>27, <1>d, NoneIsNothing DEF OpenPR
  <2>2. prs' \subseteq [head : Id \cup {Detached}, fix : Id]
    BY <1>27, <2>1 DEF OpenPR, GitTypeOK
  <2>3. QED
    BY <1>27, <2>2, <1>a, <1>c, ForgetType DEF OpenPR, NextFinding
<1>28. CASE Crash
  BY <1>28, ExitType DEF Crash
<1>29. CASE UNCHANGED vars
  BY <1>29, <1>a, <1>b DEF vars, procVars, me
<1>30. QED
  BY <1>1, <1>2, <1>3, <1>4, <1>5, <1>6, <1>7, <1>8, <1>9, <1>10, <1>11, <1>12,
     <1>13, <1>14, <1>15, <1>16, <1>17, <1>18, <1>19, <1>20, <1>21, <1>22, <1>23,
     <1>24, <1>25, <1>26, <1>27, <1>28, <1>29 DEF Next, Step

(* Every variable always has its type, at every step of every run.         *)
THEOREM TypeCorrect == Spec => []TypeOK
<1>1. Init => TypeOK /\ ControlOK
  BY InitType, InitControl
<1>2. QED
  BY <1>1, TypeStep, PTL DEF Spec

-----------------------------------------------------------------------------
(* Validated patches are the ones on the branch.                           *)

(* A module purged from the cache is imported from disk.                   *)
LEMMA PurgedRunsDisk ==
  ASSUME TypeOK, NEW f \in Fn
  PROVE  Linked(Purged(FileOf[f], TRUE), FileOf[f])[f] = tree[f]
<1> DEFINE F == FileOf[f]
<1> DEFINE cache == Purged(F, TRUE)
<1>1. F \in File /\ F \in Modules(F)
  BY DEF File, Modules
<1>2. cache[F] = NotLoaded
  BY <1>1 DEF Purged, TypeOK, SandboxTypeOK
<1>3. Object(cache, F)[f] = tree[f]
  BY <1>2 DEF Object, Leaf
<1>4. QED
  BY <1>1, <1>2, <1>3 DEF Linked

(* The verification run wrote the trace it is judged by, with its own      *)
(* sentinel, and executed the function as it is on disk.                   *)
LEMMA VerifyExecutes ==
  ASSUME TypeOK, target \in Fn, me \in Id, RunHarness("verify", TRUE, TRUE),
         trace \in Written, trace.sentinel.phase = "repro",
         Judged(trace', sentinel("verify")) # Uncertain
  PROVE  /\ trace' # trace
         /\ trace' = [sentinel |-> sentinel("verify"), fn |-> target, code |-> trace'.code]
         /\ trace'.code[target] = tree[target]
         /\ args.sandbox = "docker" => trace'.code = tree /\ FreshTraces(tree, target)
<1>1. sentinel("verify") # trace.sentinel
  BY DEF sentinel
<1>2. trace' # trace
  BY <1>1, ForeignTraceUncertain DEF Judged
<1>3. CASE args.sandbox = "local" /\ LocalRun(target, sentinel("verify"), TRUE)
  BY <1>2, <1>3, PurgedRunsDisk DEF LocalRun
<1>4. CASE args.sandbox = "docker" /\ DockerRun(target, sentinel("verify"))
  BY <1>2, <1>4 DEF DockerRun
<1>5. CASE UNCHANGED <<gitVars, sandboxVars>>
  BY <1>2, <1>5 DEF sandboxVars
<1>6. QED
  BY <1>3, <1>4, <1>5 DEF RunHarness

(* What the whole run cleared, the function's own calls do not confirm.    *)
LEMMA OwnCallsCleared ==
  ASSUME NEW c, NEW f, NEW s, Evaluate(Rule, TraceOf(c, f, s), s) = NotReproduced
  PROVE  Evaluate(Rule, {Call(k, s) : k \in c[f].behaviour.calls}, s) # Confirmed
<1>1. c[f].behaviour.calls \subseteq CallsOf(c, f)
  BY DEF CallsOf, Reach
<1>2. {Call(k, s) : k \in c[f].behaviour.calls} \subseteq TraceOf(c, f, s)
  BY <1>1 DEF TraceOf
<1>3. Confirmed # NotReproduced
  BY DEF Confirmed, NotReproduced
<1>4. QED
  BY <1>2, <1>3, ConfirmationGrows

(* A patch that Verify calls validated is the one on its branch, and its   *)
(* own calls do not reproduce the finding.                                 *)
LEMMA VerifyCommitted ==
  ASSUME TypeOK, ControlOK, TraceIsOld, PatchTravels, me \in Id, Verify,
         result'.kind = Validated
  PROVE  HoldsOwnFix(me, target)
<1>1. pc = "verify" /\ target \in Fn /\ refs[me][target] = patch /\ tree[target] = patch
      /\ patch.by = me /\ me \in DOMAIN refs
      /\ trace \in Written /\ trace.sentinel.phase = "repro"
  BY DEF Verify, ControlOK, TraceIsOld, PatchTravels, OnScratch
<1>2. Judged(trace', sentinel("verify")) = NotReproduced
  BY DEF Verify, Returns, KindOf, Validated, Failed, NeedsReview
<1>3. /\ trace' = [sentinel |-> sentinel("verify"), fn |-> target, code |-> trace'.code]
      /\ trace'.code[target] = patch
  BY <1>1, <1>2, VerifyExecutes DEF Verify, NotReproduced, Uncertain
<1>4. Evaluate(Rule, TraceOf(trace'.code, target, sentinel("verify")), sentinel("verify"))
        = NotReproduced
  BY <1>2, <1>3 DEF Judged
<1>5. QED
  BY <1>1, <1>3, <1>4, OwnCallsCleared DEF HoldsOwnFix, sentinel

(* A branch that is not committed to keeps its fix.                        *)
LEMMA FixKept ==
  ASSUME NEW b \in Id, NEW f \in Fn, HoldsOwnFix(b, f), b \in DOMAIN refs', refs'[b] = refs[b]
  PROVE  HoldsOwnFix(b, f)'
BY DEF HoldsOwnFix

(* Nothing is reported, made or traced before the first run.               *)
LEMMA InitOnBranch == Init => TraceIsOld /\ InOrder /\ PatchTravels /\ ReportedPatchIsOnBranch
BY DEF Init, TraceIsOld, InOrder, MadeInOrder, ReportedInOrder, PatchTravels, ReportedPatchIsOnBranch, ReportedValid,
   Made, Done, Before, OnScratch, Main

(* TraceIsOld is inductive: the verification harness finds the trace file  *)
(* of the reproduction, and no other.                                      *)
LEMMA TraceStep ==
  ASSUME TypeOK, ControlOK, TraceIsOld, [Next]_vars
  PROVE  TraceIsOld'
<1> USE DEF TraceIsOld, OnScratch
<1>1. CASE Reproduce
  <2>1. trace = None /\ target \in Fn /\ args \in Args /\ me \in Id
    BY <1>1, ParameterAssumption DEF Reproduce, ControlOK, TypeOK, me, Id, Finding
  <2>2. trace' \in Written /\ trace'.sentinel = sentinel("repro")
    BY <1>1, <2>1, HarnessType, NoneAssumption DEF Reproduce
  <2>3. QED
    BY <1>1, <2>2 DEF Reproduce, AfterVerdict, sentinel
<1>2. CASE Verify \/ VerifyNoTrace
  BY <1>2 DEF Verify, VerifyNoTrace, Returns
<1>3. CASE \/ StartRun \/ Unsupported \/ AnalyzeRaises \/ Finish \/ RefuseLocal
           \/ NoTrace \/ ModelError \/ ModelRaises \/ SandboxRaises \/ PushFails \/ OpenPR \/ Crash
  BY <1>3 DEF StartRun, Unsupported, AnalyzeRaises, Finish, RefuseLocal, NoTrace,
     ModelError, ModelRaises, SandboxRaises, PushFails, OpenPR, Crash, NextFinding, Exit, ForgetFinding
<1>4. CASE Analyze \/ Hang
  BY <1>4 DEF Analyze, Hang, sandboxVars
<1>5. CASE \/ Propose \/ RejectDiff \/ CreateBranch \/ BranchFails \/ ApplyPatch
           \/ ApplyFails \/ AddPatch \/ CommitPatch \/ CommitFails
  BY <1>5 DEF Propose, RejectDiff, CreateBranch, BranchFails, ApplyPatch, ApplyFails,
     AddPatch, CommitPatch, CommitFails, Returns, inPatch
<1>6. CASE Restore \/ Push
  BY <1>6 DEF Restore, Push
<1>7. CASE WriteReport
  BY <1>7 DEF WriteReport, NextFinding, ForgetFinding
<1>8. CASE UNCHANGED vars
  BY <1>8 DEF vars, procVars, sandboxVars
<1>9. QED
  BY <1>1, <1>2, <1>3, <1>4, <1>5, <1>6, <1>7, <1>8 DEF Next, Step

(* No step takes back that a branch was made or reported.                  *)
LEMMA OrderGrows ==
  ASSUME TypeOK, ControlOK, [Next]_vars, NEW b \in Id
  PROVE  (Made(b) => Made(b)') /\ (Done(b) => Done(b)')
<1> USE DEF Made, Done, Before, OnScratch
<1>0. b.run \in Nat /\ b.finding \in Nat /\ i \in Nat /\ run \in Nat
  BY DEF Id, TypeOK
<1>1. CASE StartRun
  BY <1>0, <1>1 DEF StartRun
<1>2. CASE AnalyzeRaises \/ Finish \/ RefuseLocal \/ ModelRaises \/ SandboxRaises \/ Crash
  BY <1>0, <1>2 DEF AnalyzeRaises, Finish, RefuseLocal, ModelRaises, SandboxRaises, Crash, Exit
<1>3. CASE Unsupported \/ NoTrace \/ ModelError \/ PushFails \/ OpenPR
  <2>1. NextFinding /\ run' = run
    BY <1>3 DEF Unsupported, NoTrace, ModelError, PushFails, OpenPR
  <2>2. pc # "down"
    BY <1>3 DEF Unsupported, NoTrace, ModelError, PushFails, OpenPR
  <2>3. i' = i + 1 /\ pc' = "analyze"
    BY <2>1 DEF NextFinding
  <2>4. QED  BY <1>0, <2>1, <2>2, <2>3
<1>4. CASE Analyze \/ Hang
  BY <1>0, <1>4 DEF Analyze, Hang
<1>5. CASE Reproduce \/ Propose
  BY <1>5 DEF Reproduce, Propose, AfterVerdict, inPatch
<1>6. CASE \/ RejectDiff \/ CreateBranch \/ BranchFails \/ ApplyPatch
           \/ ApplyFails \/ AddPatch \/ CommitPatch \/ CommitFails
  BY <1>6 DEF RejectDiff, CreateBranch, BranchFails, ApplyPatch, ApplyFails, AddPatch,
     CommitPatch, CommitFails, Returns, inPatch
<1>7. CASE Verify \/ VerifyNoTrace \/ Restore \/ Push
  BY <1>7 DEF Verify, VerifyNoTrace, Restore, Push, Returns
<1>8. CASE WriteReport
  <2>1. pc = "report" /\ run' = run
    BY <1>8 DEF WriteReport
  <2>2. \/ i' = i + 1 /\ pc' = "analyze"
        \/ i' = i /\ pc' = "push"
    BY <1>8 DEF WriteReport, NextFinding
  <2>3. QED  BY <1>0, <2>1, <2>2
<1>9. CASE UNCHANGED vars
  BY <1>9 DEF vars, procVars
<1>10. QED
  BY <1>1, <1>2, <1>3, <1>4, <1>5, <1>6, <1>7, <1>8, <1>9 DEF Next, Step

(* Branches are made and committed to by one step each.                    *)
LEMMA RefsStep ==
  ASSUME TypeOK, ControlOK, [Next]_vars
  PROVE  CreateBranch \/ CommitPatch \/ refs' = refs
<1>a. me \in Id
  BY ParameterAssumption DEF TypeOK, me, Id, Finding
<1>1. CASE Reproduce \/ NoTrace \/ Verify \/ VerifyNoTrace
  <2>1. target \in Fn /\ args \in Args
    BY <1>1 DEF Reproduce, NoTrace, Verify, VerifyNoTrace, ControlOK, OnScratch
  <2>2. QED
    BY <1>1, <1>a, <2>1, HarnessType
       DEF Reproduce, NoTrace, Verify, VerifyNoTrace, gitVars
<1>2. CASE Restore
  BY <1>2, CheckoutType DEF Restore, Restored, gitVars, TypeOK, ControlOK
<1>3. CASE ApplyPatch \/ AddPatch
  BY <1>3 DEF ApplyPatch, Apply, AddPatch, Add, gitVars
<1>4. CASE \/ StartRun \/ Unsupported \/ AnalyzeRaises \/ Finish \/ RefuseLocal
           \/ ModelError \/ ModelRaises \/ SandboxRaises \/ PushFails \/ OpenPR \/ Crash
  BY <1>4 DEF StartRun, Unsupported, AnalyzeRaises, Finish, RefuseLocal,
     ModelError, ModelRaises, SandboxRaises, PushFails, OpenPR, Crash, gitVars
<1>5. CASE \/ Analyze \/ Hang \/ Propose \/ RejectDiff \/ BranchFails \/ ApplyFails
           \/ CommitFails \/ WriteReport \/ Push \/ UNCHANGED vars
  BY <1>5 DEF Analyze, Hang, Propose, RejectDiff, BranchFails, ApplyFails,
     CommitFails, WriteReport, Push, vars, gitVars
<1>6. QED
  BY <1>1, <1>2, <1>3, <1>4, <1>5 DEF Next, Step

(* Reports are written in two places.                                      *)
LEMMA ReportsStep ==
  ASSUME [Next]_vars
  PROVE  ModelError \/ WriteReport \/ UNCHANGED diskVars
<1> USE DEF diskVars
<1>1. CASE \/ StartRun \/ Unsupported \/ AnalyzeRaises \/ Finish \/ RefuseLocal
           \/ NoTrace \/ ModelRaises \/ SandboxRaises \/ PushFails \/ OpenPR \/ Crash
  BY <1>1 DEF StartRun, Unsupported, AnalyzeRaises, Finish, RefuseLocal, NoTrace,
     ModelRaises, SandboxRaises, PushFails, OpenPR, Crash
<1>2. CASE \/ Analyze \/ Hang \/ Reproduce \/ Propose \/ RejectDiff \/ CreateBranch
           \/ BranchFails \/ ApplyPatch \/ ApplyFails
  BY <1>2 DEF Analyze, Hang, Reproduce, Propose, RejectDiff, CreateBranch, BranchFails,
     ApplyPatch, ApplyFails
<1>3. CASE \/ AddPatch \/ CommitPatch \/ CommitFails \/ Verify \/ VerifyNoTrace
           \/ Restore \/ Push \/ UNCHANGED vars
  BY <1>3 DEF AddPatch, CommitPatch, CommitFails, Verify, VerifyNoTrace, Restore, Push, vars
<1>4. QED
  BY <1>1, <1>2, <1>3 DEF Next, Step

(* Writing a report touches the finding at hand only, and names a branch   *)
(* as validated only if the result it is given does.                       *)
LEMMA WriteEffect ==
  ASSUME TypeOK, ControlOK, NEW res \in PatchResult \cup {None}, Write(res),
         pc \in {"ask", "report"}, NEW x \in Finding
  PROVE  /\ x # i => reports'[x] = reports[x] /\ prBody'[x] = prBody[x]
         /\ x = i => /\ reports'[x].patch = res /\ reports'[x].fn = target
                     /\ prBody'[x] = prBody[x] \/ (res # None /\ res.kind = Validated
                                                    /\ prBody'[x] = res.branch)
<1>1. i \in Finding
  BY DEF ControlOK, TypeOK
<1>2. reports'[i].patch = res /\ reports'[i].fn = target
  BY <1>1 DEF Write, TypeOK
<1>3. x # i => reports'[x] = reports[x] /\ prBody'[x] = prBody[x]
  BY <1>1 DEF Write, TypeOK
<1>4. prBody'[i] = prBody[i] \/ (res # None /\ res.kind = Validated
                                  /\ prBody'[i] = res.branch)
  BY <1>1 DEF Write, TypeOK
<1>5. QED
  BY <1>2, <1>3, <1>4

(* The scratch branches there are grow one at a time and with the finding  *)
(* at hand.                                                                *)
LEMMA MadeStep ==
  ASSUME TypeOK, ControlOK, MadeInOrder, [Next]_vars
  PROVE  MadeInOrder'
<1>a. me \in Id /\ DOMAIN refs \subseteq Id
  BY ParameterAssumption DEF TypeOK, GitTypeOK, me, Id, Finding
<1>b. \A b \in Id : Made(b) => Made(b)'
  BY OrderGrows
<1>1. CASE CreateBranch
  BY <1>1, <1>a, <1>b DEF CreateBranch, CheckoutNew, inPatch, MadeInOrder, Made, Before,
     OnScratch, me
<1>2. CASE CommitPatch
  BY <1>2, <1>a, <1>b DEF CommitPatch, Commit, MadeInOrder
<1>3. CASE refs' = refs
  BY <1>3, <1>a, <1>b DEF MadeInOrder
<1>4. QED
  BY <1>1, <1>2, <1>3, RefsStep

(* So do those that are reported.                                          *)
LEMMA OrderStep ==
  ASSUME TypeOK, ControlOK, InOrder, ReportedPatchIsOnBranch, [Next]_vars
  PROVE  InOrder'
<1>a. me \in Id /\ DOMAIN refs \subseteq Id
  BY ParameterAssumption DEF TypeOK, GitTypeOK, me, Id, Finding
<1>c. \A b \in Id : Done(b) => Done(b)'
  BY OrderGrows
<1>1. MadeInOrder'
  BY MadeStep DEF InOrder
<1>2. ASSUME NEW x \in Finding, NEW b,
             (ReportedValid(x)' /\ b = reports'[x].patch.branch) \/ (b # None /\ b = prBody'[x])
      PROVE  Done(b)'
  <2>0. \/ ReportedValid(x) /\ b = reports[x].patch.branch
        \/ b # None /\ b = prBody[x]
        => b \in Id /\ Done(b)
    <3>1. CASE ReportedValid(x) /\ b = reports[x].patch.branch
      <4>1. b \in Id
        BY <3>1, <1>a DEF ReportedPatchIsOnBranch, HoldsOwnFix
      <4>2. Done(b)
        BY <3>1 DEF InOrder, ReportedInOrder, Done, Before
      <4>3. QED  BY <4>1, <4>2
    <3>2. CASE b # None /\ b = prBody[x]
      <4>1. b \in Id
        BY <3>2, <1>a DEF ReportedPatchIsOnBranch, HoldsOwnFix
      <4>2. Done(b)
        BY <3>2 DEF InOrder, ReportedInOrder, Done, Before
      <4>3. QED  BY <4>1, <4>2
    <3>3. QED  BY <3>1, <3>2
  <2>1. ReportedValid(x) /\ b = reports[x].patch.branch => Done(b)'
    BY <2>0, <1>c
  <2>2. b # None /\ b = prBody[x] => Done(b)'
    BY <2>0, <1>c
  <2>3. CASE UNCHANGED diskVars
    BY <1>2, <2>1, <2>2, <2>3 DEF diskVars, ReportedValid
  <2>4. CASE ModelError
    BY <1>2, <2>1, <2>2, <2>4, WriteEffect DEF ModelError, ReportedValid
  <2>5. CASE WriteReport
    <3>1. result \in PatchResult \cup {None} /\ pc \in {"ask", "report"} /\ Write(result)
      BY <2>5 DEF WriteReport, TypeOK
    <3>2. result # None /\ result.kind = Validated /\ b = result.branch => Done(b)'
      <4>1. (i' = i + 1 /\ pc' = "analyze") \/ (i' = i /\ pc' = "push")
        BY <2>5 DEF WriteReport, NextFinding
      <4>2. QED
        BY <4>1, <2>5 DEF WriteReport, ControlOK, Done, Before, me, TypeOK
    <3>3. QED
      BY <1>2, <2>1, <2>2, <3>1, <3>2, WriteEffect DEF ReportedValid
  <2>6. QED
    BY <2>3, <2>4, <2>5, ReportsStep
<1>3. QED
  BY <1>1, <1>2 DEF InOrder, ReportedInOrder, Done, Before

(* Unless git add fails unnoticed, what was patched is what is staged,     *)
(* committed and named in the report.                                      *)
LEMMA PatchTravelsStep ==
  ASSUME TypeOK, ControlOK, TraceIsOld, PatchTravels, "add" \notin Faults, [Next]_vars
  PROVE  PatchTravels'
<1>a. me \in Id
  BY ParameterAssumption DEF TypeOK, me, Id, Finding
<1> USE DEF PatchTravels, OnScratch
<1>1. CASE \/ StartRun \/ Unsupported \/ AnalyzeRaises \/ Finish \/ RefuseLocal
           \/ NoTrace \/ ModelError \/ ModelRaises \/ SandboxRaises \/ PushFails \/ OpenPR \/ Crash
  BY <1>1 DEF StartRun, Unsupported, AnalyzeRaises, Finish, RefuseLocal, NoTrace,
     ModelError, ModelRaises, SandboxRaises, PushFails, OpenPR, Crash, NextFinding, Exit
<1>2. CASE Analyze \/ Reproduce \/ Hang \/ Propose \/ CreateBranch
  <2>1. pc' \in {"repro", "ask", "hung", "branch", "apply"} \/ (pc' = "report" /\ result' = None)
    BY <1>2 DEF Analyze, Reproduce, AfterVerdict, Hang, Propose, CreateBranch, ControlOK
  <2>2. QED  BY <2>1
<1>3. CASE RejectDiff \/ BranchFails \/ ApplyFails \/ CommitFails \/ VerifyNoTrace
  <2>1. CASE VerifyNoTrace
    BY <2>1 DEF VerifyNoTrace, Returns, Validated, NeedsReview
  <2>2. CASE ~VerifyNoTrace
    BY <1>3, <2>2 DEF RejectDiff, BranchFails, ApplyFails, CommitFails, Returns,
       Validated, Failed
  <2>3. QED  BY <2>1, <2>2
<1>4. CASE ApplyPatch
  BY <1>4 DEF ApplyPatch, Apply, ControlOK, TypeOK, GitTypeOK, Tree, inPatch
<1>5. CASE AddPatch
  <2>1. Add(FileOf[target])
    BY <1>5 DEF AddPatch, Fault
  <2>2. index'[target] = tree[target] /\ tree' = tree
    BY <1>5, <2>1 DEF Add, AddPatch, ControlOK
  <2>3. QED
    BY <1>5, <2>2 DEF AddPatch, inPatch
<1>6. CASE CommitPatch
  <2>1. refs'[me] = index
    BY <1>6 DEF CommitPatch, Commit, ControlOK, TypeOK, GitTypeOK
  <2>2. QED
    BY <1>6, <2>1 DEF CommitPatch, Commit, inPatch, me
<1>7. CASE Verify
  <2>1. UNCHANGED <<refs, target>> /\ me' = me /\ pc' = "restore"
    <3>1. pc = "verify" /\ target \in Fn /\ args \in Args
      BY <1>7 DEF Verify, ControlOK
    <3>2. QED
      BY <1>7, <1>a, <3>1, HarnessType DEF Verify, Returns, me, gitVars
  <2>2. ASSUME result'.kind = Validated PROVE HoldsOwnFix(me, target)'
    <3>1. HoldsOwnFix(me, target)
      BY <1>7, <1>a, <2>2, VerifyCommitted
    <3>2. QED
      BY <2>1, <3>1 DEF HoldsOwnFix
  <2>3. QED
    BY <2>1, <2>2
<1>8. CASE Restore
  <2>1. UNCHANGED <<refs, target, result>> /\ me' = me /\ pc = "restore" /\ pc' = "report"
    BY <1>8, RefsStep DEF Restore, me, CreateBranch, CommitPatch
  <2>2. QED
    BY <2>1 DEF HoldsOwnFix
<1>9. CASE WriteReport
  <2>1. CASE pc' = "push"
    BY <1>9, <2>1 DEF WriteReport, NextFinding, HoldsOwnFix, me, gitVars
  <2>2. CASE pc' # "push"
    BY <1>9, <2>2 DEF WriteReport, NextFinding
  <2>3. QED  BY <2>1, <2>2
<1>10. CASE Push
  BY <1>10 DEF Push, HoldsOwnFix, me, gitVars
<1>11. CASE UNCHANGED vars
  BY <1>11 DEF vars, procVars, gitVars, HoldsOwnFix, me
<1>12. QED
  BY <1>1, <1>2, <1>3, <1>4, <1>5, <1>6, <1>7, <1>8, <1>9, <1>10, <1>11 DEF Next, Step

(* A commit touches the branch of the finding at hand, which no report     *)
(* names yet; a report names that branch only when it holds the fix.       *)
LEMMA OnBranchStep ==
  ASSUME TypeOK, ControlOK, InOrder, PatchTravels, ReportedPatchIsOnBranch, [Next]_vars
  PROVE  ReportedPatchIsOnBranch'
<1>a. me \in Id /\ DOMAIN refs \subseteq Id
  BY ParameterAssumption DEF TypeOK, GitTypeOK, me, Id, Finding
<1>1. ASSUME NEW x \in Finding, NEW b, NEW f \in Fn, HoldsOwnFix(b, f),
             (ReportedValid(x) /\ b = reports[x].patch.branch) \/ (b # None /\ b = prBody[x])
      PROVE  HoldsOwnFix(b, f)'
  <2>1. b \in DOMAIN refs
    BY <1>1 DEF HoldsOwnFix
  <2>2. CASE refs' = refs
    BY <1>1, <2>2 DEF HoldsOwnFix
  <2>3. CASE CreateBranch \/ CommitPatch
    <3>1. ~Done(me) /\ pc \in {"branch", "commit"}
      BY <2>3, <1>a DEF CreateBranch, CommitPatch, Done, Before, me, TypeOK
    <3>2. b # me
      BY <1>1, <3>1 DEF InOrder, ReportedInOrder, Done, Before
    <3>3. b \in DOMAIN refs' /\ refs'[b] = refs[b]
      BY <2>1, <2>3, <3>1, <3>2 DEF CreateBranch, CheckoutNew, CommitPatch, Commit,
         ControlOK, OnScratch, TypeOK, GitTypeOK
    <3>4. QED
      BY <1>1, <3>3 DEF HoldsOwnFix
  <2>4. QED
    BY <2>2, <2>3, RefsStep
<1>2. ASSUME NEW x \in Finding, ReportedValid(x)
      PROVE  \E b \in Id, f \in Fn : /\ b = reports[x].patch.branch /\ f = reports[x].fn
                             /\ HoldsOwnFix(b, f)'
  <2>1. PICK b, f : b = reports[x].patch.branch /\ f = reports[x].fn
    OBVIOUS
  <2>2. HoldsOwnFix(b, f)
    BY <1>2, <2>1 DEF ReportedPatchIsOnBranch, HoldsOwnFix
  <2>3. f \in Fn
    BY <1>2, <2>1 DEF TypeOK, Report, ReportedValid
  <2>4. HoldsOwnFix(b, f)'
    BY <1>1, <1>2, <2>1, <2>2, <2>3
  <2>5. b \in Id
    BY <1>a, <2>2 DEF HoldsOwnFix
  <2>6. QED
    BY <2>1, <2>3, <2>4, <2>5
<1>3. ASSUME NEW x \in Finding, prBody[x] # None
      PROVE  \E b \in Id, f \in Fn : b = prBody[x] /\ HoldsOwnFix(b, f)'
  <2>1. PICK b : b = prBody[x]
    OBVIOUS
  <2>2. PICK f \in Fn : HoldsOwnFix(b, f)
    BY <1>3, <2>1 DEF ReportedPatchIsOnBranch, HoldsOwnFix
  <2>3. HoldsOwnFix(b, f)'
    BY <1>1, <1>3, <2>1, <2>2
  <2>4. b \in Id
    BY <1>a, <2>2 DEF HoldsOwnFix
  <2>5. QED
    BY <2>1, <2>3, <2>4
<1>4. ASSUME WriteReport, result # None, result.kind = Validated
      PROVE  \E b \in Id, f \in Fn : b = result.branch /\ f = target /\ HoldsOwnFix(b, f)'
  <2>1. PICK b, f : b = me /\ f = target
    OBVIOUS
  <2>2. HoldsOwnFix(b, f) /\ b = result.branch /\ f \in Fn
    BY <1>4, <2>1 DEF WriteReport, PatchTravels, ControlOK, HoldsOwnFix
  <2>3. HoldsOwnFix(b, f)'
    BY <1>4, <2>2 DEF WriteReport, gitVars, HoldsOwnFix
  <2>4. QED
    BY <1>a, <2>1, <2>2, <2>3
<1>5. WriteReport => /\ result \in PatchResult \cup {None}
                     /\ pc \in {"ask", "report"} /\ Write(result)
  BY DEF WriteReport, TypeOK
<1>6. ASSUME NEW x \in Finding, ReportedValid(x)'
      PROVE  HoldsOwnFix(reports[x].patch.branch, reports[x].fn)'
  <2>1. \E b \in Id, f \in Fn : /\ b = reports'[x].patch.branch /\ f = reports'[x].fn
                         /\ HoldsOwnFix(b, f)'
    <3>1. CASE UNCHANGED diskVars
      BY <1>2, <1>6, <3>1 DEF diskVars, ReportedValid
    <3>2. CASE ModelError
      BY <1>2, <1>6, <3>2, WriteEffect DEF ModelError, ReportedValid
    <3>3. CASE WriteReport
      BY <1>2, <1>4, <1>5, <1>6, <3>3, WriteEffect DEF ReportedValid
    <3>4. QED
      BY <3>1, <3>2, <3>3, ReportsStep
  <2>2. PICK b \in Id, f \in Fn : /\ b = reports'[x].patch.branch /\ f = reports'[x].fn
                          /\ HoldsOwnFix(b, f)'
    BY <2>1
  <2>3. QED
    BY <2>2 DEF HoldsOwnFix
<1>7. ASSUME NEW x \in Finding, prBody'[x] # None
      PROVE  \E f \in Fn : HoldsOwnFix(prBody[x], f)'
  <2>1. \E b \in Id, f \in Fn : b = prBody'[x] /\ HoldsOwnFix(b, f)'
    <3>1. CASE UNCHANGED diskVars
      BY <1>3, <1>7, <3>1 DEF diskVars
    <3>2. CASE ModelError
      BY <1>3, <1>7, <3>2, WriteEffect DEF ModelError
    <3>3. CASE WriteReport
      BY <1>3, <1>4, <1>5, <1>7, <3>3, WriteEffect
    <3>4. QED
      BY <3>1, <3>2, <3>3, ReportsStep
  <2>2. PICK b \in Id, f \in Fn : b = prBody'[x] /\ HoldsOwnFix(b, f)'
    BY <2>1
  <2>3. QED
    BY <2>2 DEF HoldsOwnFix
<1>8. QED
  BY <1>6, <1>7 DEF ReportedPatchIsOnBranch

(* As long as git add does not fail, a patch that any report of any run    *)
(* calls validated, or any PR body describes, is on the branch it names,   *)
(* whatever else fails, however the user left the repository and wherever  *)
(* earlier runs were killed.                                               *)
THEOREM ReportsNameTheFix ==
  ASSUME "add" \notin Faults
  PROVE  Spec => []ReportedPatchIsOnBranch
<1>1. Init => OnBranchInv
  BY InitType, InitControl, InitOnBranch DEF OnBranchInv
<1>2. OnBranchInv /\ [Next]_vars => OnBranchInv'
  BY TypeStep, TraceStep, OrderStep, PatchTravelsStep, OnBranchStep DEF OnBranchInv
<1>3. OnBranchInv => ReportedPatchIsOnBranch
  BY DEF OnBranchInv
<1>4. QED
  BY <1>1, <1>2, <1>3, PTL DEF Spec

(* A commit only ever lands on the scratch branch of the finding at hand,  *)
(* whatever fails, git add included.                                       *)
LEMMA CommitStep ==
  ASSUME TypeOK, ControlOK, MadeInOrder, [Next]_vars, NEW b \in DOMAIN refs
  PROVE  b \in DOMAIN refs' /\ (refs'[b] # refs[b] => b = me /\ head = b /\ pc = "commit")
<1>1. CASE CreateBranch
  <2>1. Made(b)
    BY DEF MadeInOrder
  <2>2. pc = "branch" /\ run \in Nat /\ i \in Nat
    BY <1>1 DEF CreateBranch, TypeOK
  <2>3. b # me
    BY <2>1, <2>2 DEF Made, Before, OnScratch, me
  <2>4. QED
    BY <1>1, <2>3 DEF CreateBranch, CheckoutNew
<1>2. CASE CommitPatch
  BY <1>2 DEF CommitPatch, Commit, ControlOK, OnScratch, TypeOK, GitTypeOK
<1>3. CASE refs' = refs
  BY <1>3
<1>4. QED
  BY <1>1, <1>2, <1>3, RefsStep

(* No branch of the user's, and no scratch branch once its finding is      *)
(* settled, is ever moved by any step of any run.                          *)
THEOREM CommitsOnlyOwnBranch == Spec => CommitsStayOnScratch
<1> DEFINE Inv == TypeOK /\ ControlOK /\ MadeInOrder
<1>1. Init => Inv
  BY InitType, InitControl, InitOnBranch DEF InOrder
<1>2. Inv /\ [Next]_vars => Inv'
  BY TypeStep, MadeStep
<1>3. Inv /\ [Next]_vars
      => [\A b \in DOMAIN refs :
            /\ b \in DOMAIN refs'
            /\ refs'[b] # refs[b] => b = me /\ head = b /\ pc = "commit"]_vars
  BY CommitStep
<1>4. QED
  BY <1>1, <1>2, <1>3, PTL DEF Spec, CommitsStayOnScratch

(* What is verified is the patched file, also if git add has failed.       *)
PatchInTree == pc \in {"add", "commit", "verify"} => tree[target] = patch

LEMMA PatchInTreeStep ==
  ASSUME TypeOK, ControlOK, PatchInTree, [Next]_vars
  PROVE  PatchInTree'
<1> USE DEF PatchInTree
<1>1. CASE ApplyPatch
  BY <1>1 DEF ApplyPatch, Apply, ControlOK, TypeOK, GitTypeOK, Tree, inPatch
<1>2. CASE AddPatch
  <2>1. pc = "add" /\ tree' = tree
    BY <1>2 DEF AddPatch, Add, Fault, gitVars
  <2> QED BY <1>2, <2>1 DEF AddPatch, inPatch
<1>3. CASE CommitPatch
  <2>1. pc = "commit" /\ tree' = tree
    BY <1>3 DEF CommitPatch, Commit
  <2> QED BY <1>3, <2>1 DEF CommitPatch, inPatch
<1>4. CASE \/ StartRun \/ Unsupported \/ AnalyzeRaises \/ Finish \/ RefuseLocal
           \/ NoTrace \/ ModelError \/ ModelRaises \/ SandboxRaises \/ PushFails \/ OpenPR \/ Crash
  BY <1>4 DEF StartRun, Unsupported, AnalyzeRaises, Finish, RefuseLocal, NoTrace,
     ModelError, ModelRaises, SandboxRaises, PushFails, OpenPR, Crash, NextFinding, Exit
<1>5. CASE \/ Analyze \/ Reproduce \/ Hang \/ Propose \/ CreateBranch \/ Verify \/ VerifyNoTrace
           \/ RejectDiff \/ BranchFails \/ ApplyFails \/ CommitFails
  BY <1>5 DEF Analyze, Reproduce, AfterVerdict, Hang, Propose, CreateBranch, Verify, VerifyNoTrace,
     RejectDiff, BranchFails, ApplyFails, CommitFails, Returns
<1>6. CASE Restore \/ WriteReport \/ Push
  BY <1>6 DEF Restore, WriteReport, NextFinding, Push
<1>7. CASE UNCHANGED vars
  BY <1>7 DEF vars, procVars, gitVars
<1> QED BY <1>1, <1>2, <1>3, <1>4, <1>5, <1>6, <1>7 DEF Next, Step

(* A patch is called validated only by a run of its own second harness     *)
(* that executed it.                                                       *)
LEMMA ValidatedStep ==
  ASSUME TypeOK, ControlOK, TraceIsOld, PatchInTree, [Next]_vars,
         result' # result, result' # None, result'.kind = Validated
  PROVE  /\ trace' # trace
         /\ trace'.sentinel = sentinel("verify")
         /\ trace'.code[target] = patch
<1>1. Verify
  <2>1. CASE RejectDiff \/ BranchFails \/ ApplyFails \/ CommitFails
    BY <2>1 DEF RejectDiff, BranchFails, ApplyFails, CommitFails, Returns, Validated, Failed
  <2>2. VerifyNoTrace => result'.kind = NeedsReview
    BY DEF VerifyNoTrace, Returns
  <2>3. CASE \/ StartRun \/ Unsupported \/ AnalyzeRaises \/ Finish \/ RefuseLocal
             \/ NoTrace \/ ModelError \/ ModelRaises \/ SandboxRaises \/ PushFails \/ OpenPR \/ Crash
    BY <2>3 DEF StartRun, Unsupported, AnalyzeRaises, Finish, RefuseLocal, NoTrace,
       ModelError, ModelRaises, SandboxRaises, PushFails, OpenPR, Crash, NextFinding, Exit, ForgetFinding
  <2>4. CASE Analyze \/ Hang \/ Reproduce \/ Propose \/ CreateBranch
    BY <2>4 DEF Analyze, Hang, Reproduce, Propose, CreateBranch
  <2>5. CASE ApplyPatch \/ AddPatch \/ CommitPatch \/ Restore \/ Push \/ UNCHANGED vars
    BY <2>5 DEF ApplyPatch, AddPatch, CommitPatch, Restore, Push, vars, procVars
  <2>6. CASE WriteReport
    BY <2>6 DEF WriteReport, NextFinding, ForgetFinding
  <2>7. QED
    BY <2>1, <2>2, <2>3, <2>4, <2>5, <2>6 DEF Next, Step, Validated, NeedsReview
<1>2. /\ pc = "verify" /\ target \in Fn /\ tree[target] = patch /\ me \in Id
      /\ trace \in Written /\ trace.sentinel.phase = "repro"
  BY <1>1, ParameterAssumption DEF Verify, ControlOK, TraceIsOld, PatchInTree, OnScratch,
     TypeOK, me, Id, Finding
<1>3. Judged(trace', sentinel("verify")) = NotReproduced
  BY <1>1 DEF Verify, Returns, KindOf, Validated, Failed, NeedsReview
<1>4. QED
  BY <1>1, <1>2, <1>3, VerifyExecutes DEF Verify, NotReproduced, Uncertain

(* Neither an older trace file nor a module cached before the patch is     *)
(* ever taken for proof that it works, whatever fails.                     *)
THEOREM ValidationIsFresh == Spec => ValidatedRanThePatch
<1> DEFINE Inv == TypeOK /\ ControlOK /\ TraceIsOld /\ PatchInTree
<1>1. Init => Inv
  BY InitType, InitControl, InitOnBranch DEF Init, PatchInTree
<1>2. Inv /\ [Next]_vars => Inv'
  BY TypeStep, TraceStep, PatchInTreeStep
<1>3. Inv /\ [Next]_vars
      => [result' # result /\ result' # None /\ result'.kind = Validated =>
            /\ trace' # trace
            /\ trace'.sentinel = sentinel("verify")
            /\ trace'.code[target] = patch]_vars
  BY ValidatedStep
<1>4. QED
  BY <1>1, <1>2, <1>3, PTL DEF Spec, ValidatedRanThePatch

-----------------------------------------------------------------------------
(* In Docker, validated patches are real fixes.                            *)

(* git checkout leaves nothing unstaged that was staged.                   *)
LEMMA CheckoutStaged ==
  ASSUME GitTypeOK, NEW b \in DOMAIN refs \cup {Detached}, Checkout(b), tree = index
  PROVE  tree' = index'
<1>1. CASE b = Detached
  BY <1>1 DEF Checkout, gitVars
<1>2. CASE b # Detached
  <2>1. \A f \in Fn : SameFile(index, refs[b], FileOf[f]) => index[f] = refs[b][f]
    BY DEF SameFile
  <2>2. QED
    BY <1>2, <2>1 DEF Checkout, Carried
<1>3. QED
  BY <1>1, <1>2

(* The container ran the code that was committed.                          *)
LEMMA VerifyReal ==
  ASSUME TypeOK, ControlOK, TraceIsOld, Staged, me \in Id, args.sandbox = "docker",
         Verify, result'.kind = Validated
  PROVE  IsRealFix(me, target)
<1>1. /\ pc = "verify" /\ target \in Fn /\ refs[me] = tree /\ me \in DOMAIN refs
      /\ trace \in Written /\ trace.sentinel.phase = "repro"
  BY DEF Verify, ControlOK, TraceIsOld, Staged, OnScratch
<1>2. Judged(trace', sentinel("verify")) = NotReproduced
  BY DEF Verify, Returns, KindOf, Validated, Failed, NeedsReview
<1>3. /\ trace' = [sentinel |-> sentinel("verify"), fn |-> target, code |-> trace'.code]
      /\ trace'.code = tree /\ FreshTraces(tree, target)
  BY <1>1, <1>2, VerifyExecutes DEF Verify, NotReproduced, Uncertain
<1>4. Evaluate(Rule, TraceOf(tree, target, sentinel("verify")), sentinel("verify"))
        = NotReproduced
  BY <1>2, <1>3 DEF Judged
<1>5. QED
  BY <1>1, <1>3, <1>4 DEF IsRealFix, Rerun, sentinel

(* Without a crash and with every git add succeeding, the working tree,    *)
(* the index and the commit that is verified are one and the same, if a    *)
(* verification that validates is right about the commit.                  *)
LEMMA StagedStep ==
  ASSUME TypeOK, ControlOK, TraceIsOld, Staged, [Next]_vars,
         "add" \notin Faults, ~MayCrash,
         Verify /\ result'.kind = Validated => IsRealFix(me, target)
  PROVE  Staged'
<1>a. me \in Id
  BY ParameterAssumption DEF TypeOK, me, Id, Finding
<1> USE DEF Staged, OnScratch
<1>1. CASE \/ StartRun \/ Unsupported \/ AnalyzeRaises \/ Finish \/ RefuseLocal
           \/ ModelError \/ ModelRaises \/ SandboxRaises \/ PushFails \/ OpenPR
  BY <1>1 DEF StartRun, Unsupported, AnalyzeRaises, Finish, RefuseLocal,
     ModelError, ModelRaises, SandboxRaises, PushFails, OpenPR, NextFinding, Exit, gitVars
<1>2. CASE Analyze \/ Hang \/ Propose
  BY <1>2 DEF Analyze, Hang, Propose, gitVars
<1>3. CASE Reproduce \/ NoTrace
  <2>1. UNCHANGED <<tree, index>> /\ pc # "add"
    BY <1>3, <1>a, HarnessType DEF Reproduce, NoTrace, ControlOK, gitVars
  <2>2. pc' \in {"ask", "analyze"} \/ (pc' = "report" /\ result' = None)
    BY <1>3 DEF Reproduce, NoTrace, AfterVerdict, NextFinding, ControlOK
  <2>3. QED  BY <2>1, <2>2
<1>4. CASE RejectDiff \/ BranchFails \/ ApplyFails \/ CommitFails
  <2>1. pc' = "restore" /\ result'.kind # Validated /\ UNCHANGED gitVars /\ pc # "add"
    BY <1>4 DEF RejectDiff, BranchFails, ApplyFails, CommitFails, Returns, Validated, Failed
  <2>2. QED  BY <2>1 DEF gitVars
<1>5. CASE CreateBranch
  BY <1>5 DEF CreateBranch, CheckoutNew
<1>6. CASE ApplyPatch
  BY <1>6 DEF ApplyPatch, Apply, inPatch, TypeOK, GitTypeOK, Tree
<1>7. CASE AddPatch
  <2>1. Add(FileOf[target])
    BY <1>7 DEF AddPatch, Fault
  <2>2. index' = tree /\ tree' = tree
    BY <1>7, <2>1 DEF Add, AddPatch, TypeOK, GitTypeOK, Tree
  <2>3. QED
    BY <1>7, <2>2 DEF AddPatch
<1>8. CASE CommitPatch
  <2>1. refs'[me] = index /\ UNCHANGED <<index, tree>>
    BY <1>8 DEF CommitPatch, Commit, ControlOK, TypeOK, GitTypeOK
  <2>2. QED
    BY <1>8, <2>1 DEF CommitPatch, inPatch, me
<1>9. CASE Verify \/ VerifyNoTrace
  <2>1. /\ UNCHANGED gitVars /\ target' = target /\ me' = me
        /\ pc = "verify" /\ pc' = "restore"
    <3>1. pc = "verify" /\ target \in Fn /\ args \in Args
      BY <1>9 DEF Verify, VerifyNoTrace, ControlOK
    <3>2. QED
      BY <1>9, <1>a, <3>1, HarnessType DEF Verify, VerifyNoTrace, Returns, me
  <2>2. ASSUME result'.kind = Validated PROVE IsRealFix(me, target)'
    <3>1. Verify
      <4>1. VerifyNoTrace => result'.kind = NeedsReview
        BY DEF VerifyNoTrace, Returns
      <4>2. QED
        BY <1>9, <2>2, <4>1 DEF Validated, NeedsReview
    <3>2. IsRealFix(me, target)
      BY <2>2, <3>1
    <3>3. QED
      BY <2>1, <3>2 DEF IsRealFix, gitVars
  <2>3. QED
    BY <2>1, <2>2 DEF gitVars
<1>10. CASE Restore
  <2>1. UNCHANGED <<refs, target, result>> /\ me' = me /\ pc = "restore" /\ pc' = "report"
    BY <1>10, RefsStep DEF Restore, me, CreateBranch, CommitPatch
  <2>2. tree' = index'
    BY <1>10, <2>1, CheckoutStaged DEF Restore, Restored, gitVars, TypeOK, ControlOK
  <2>3. QED
    BY <2>1, <2>2 DEF IsRealFix
<1>11. CASE WriteReport
  <2>1. CASE pc' = "push"
    BY <1>11, <2>1 DEF WriteReport, NextFinding, IsRealFix, me, gitVars
  <2>2. CASE pc' # "push"
    BY <1>11, <2>2 DEF WriteReport, NextFinding, gitVars
  <2>3. QED  BY <2>1, <2>2
<1>12. CASE Push
  BY <1>12 DEF Push, IsRealFix, me, gitVars
<1>13. CASE UNCHANGED vars
  BY <1>13 DEF vars, procVars, gitVars, IsRealFix, me
<1>14. QED
  BY <1>1, <1>2, <1>3, <1>4, <1>5, <1>6, <1>7, <1>8, <1>9, <1>10, <1>11, <1>12, <1>13
     DEF Next, Step, Crash

(* ReportedFixIsReal is inductive relative to Staged: only WriteReport     *)
(* reports a new branch, and the branches reported before do not move.     *)
LEMMA RealStep ==
  ASSUME TypeOK, ControlOK, InOrder, ReportedPatchIsOnBranch, Staged, ReportedFixIsReal,
         [Next]_vars
  PROVE  ReportedFixIsReal'
<1>a. me \in Id /\ DOMAIN refs \subseteq Id
  BY ParameterAssumption DEF TypeOK, GitTypeOK, me, Id, Finding
<1>1. ASSUME NEW x \in Finding, ReportedValid(x)
      PROVE  \E b \in Id, f \in Fn : /\ b = reports[x].patch.branch /\ f = reports[x].fn
                                     /\ IsRealFix(b, f)'
  <2>1. PICK b, f : b = reports[x].patch.branch /\ f = reports[x].fn
    OBVIOUS
  <2>2. IsRealFix(b, f)
    BY <1>1, <2>1 DEF ReportedFixIsReal, IsRealFix
  <2>3. f \in Fn /\ b \in Id
    BY <1>a, <1>1, <2>1, <2>2 DEF TypeOK, Report, ReportedValid, IsRealFix
  <2>4. b \in DOMAIN refs' /\ refs'[b] = refs[b]
    <3>1. CASE CreateBranch \/ CommitPatch
      <4>1. ~Done(me) /\ pc \in {"branch", "commit"}
        BY <3>1, <1>a DEF CreateBranch, CommitPatch, Done, Before, me, TypeOK
      <4>2. b # me
        BY <1>1, <2>1, <4>1 DEF InOrder, ReportedInOrder, Done, Before
      <4>3. b \in DOMAIN refs
        BY <2>2 DEF IsRealFix
      <4>4. QED
        BY <3>1, <4>1, <4>2, <4>3 DEF CreateBranch, CheckoutNew, CommitPatch, Commit,
           ControlOK, OnScratch, TypeOK, GitTypeOK
    <3>2. CASE refs' = refs
      BY <2>2, <3>2 DEF IsRealFix
    <3>3. QED
      BY <3>1, <3>2, RefsStep
  <2>5. QED
    BY <2>1, <2>2, <2>3, <2>4 DEF IsRealFix
<1>2. ASSUME WriteReport, result # None, result.kind = Validated
      PROVE  \E b \in Id, f \in Fn : b = result.branch /\ f = target /\ IsRealFix(b, f)'
  <2>1. PICK b, f : b = me /\ f = target
    OBVIOUS
  <2>2. IsRealFix(b, f) /\ b = result.branch /\ f \in Fn
    BY <1>2, <2>1 DEF WriteReport, Staged, ControlOK, IsRealFix
  <2>3. IsRealFix(b, f)'
    BY <1>2, <2>2 DEF WriteReport, gitVars, IsRealFix
  <2>4. QED
    BY <1>a, <2>1, <2>2, <2>3
<1>3. WriteReport => /\ result \in PatchResult \cup {None}
                     /\ pc \in {"ask", "report"} /\ Write(result)
  BY DEF WriteReport, TypeOK
<1>4. ASSUME NEW x \in Finding, ReportedValid(x)'
      PROVE  IsRealFix(reports[x].patch.branch, reports[x].fn)'
  <2>1. \E b \in Id, f \in Fn : /\ b = reports'[x].patch.branch /\ f = reports'[x].fn
                                /\ IsRealFix(b, f)'
    <3>1. CASE UNCHANGED diskVars
      BY <1>1, <1>4, <3>1 DEF diskVars, ReportedValid
    <3>2. CASE ModelError
      BY <1>1, <1>4, <3>2, WriteEffect DEF ModelError, ReportedValid
    <3>3. CASE WriteReport
      BY <1>1, <1>2, <1>3, <1>4, <3>3, WriteEffect DEF ReportedValid
    <3>4. QED
      BY <3>1, <3>2, <3>3, ReportsStep
  <2>2. PICK b \in Id, f \in Fn : /\ b = reports'[x].patch.branch /\ f = reports'[x].fn
                                 /\ IsRealFix(b, f)'
    BY <2>1
  <2>3. QED
    BY <2>2 DEF IsRealFix
<1>5. QED
  BY <1>4 DEF ReportedFixIsReal

(* A clean start has an index equal to the working tree and no reports.    *)
LEMMA InitReal ==
  ASSUME \A s \in Starts : s.edits = {}, Init
  PROVE  Staged /\ ReportedFixIsReal
<1>1. refs[Main] \in Tree
  BY InitType DEF TypeOK, GitTypeOK
<1>2. tree = refs[Main]
  BY <1>1 DEF Init, Tree
<1>3. QED
  BY <1>2 DEF Init, Staged, OnScratch, ReportedFixIsReal, ReportedValid

(* In Docker, on a clean checkout, as long as git add does not fail and    *)
(* nobody kills the process, a report that says "validated" is right: the  *)
(* branch it names, checked out and run afresh, does not reproduce the     *)
(* finding.  Every other command may fail, and any number of findings and  *)
(* runs may have gone before.                                              *)
THEOREM ValidatedMeansFixed ==
  ASSUME Sandboxes = {"docker"}, "add" \notin Faults, ~MayCrash,
         \A s \in Starts : s.edits = {}
  PROVE  Spec => []ReportedFixIsReal
<1>1. Init => RealFixInv
  BY InitType, InitControl, InitOnBranch, InitReal DEF OnBranchInv, RealFixInv
<1>2. RealFixInv /\ [Next]_vars => RealFixInv'
  <2>1. RealFixInv /\ Verify /\ result'.kind = Validated => IsRealFix(me, target)
    BY VerifyReal, ParameterAssumption
       DEF OnBranchInv, RealFixInv, Verify, ControlOK, OnScratch, Args, TypeOK, me, Id, Finding
  <2>2. RealFixInv /\ [Next]_vars => Staged'
    BY <2>1, StagedStep DEF OnBranchInv, RealFixInv
  <2>3. QED
    BY <2>2, TypeStep, TraceStep, OrderStep, PatchTravelsStep, OnBranchStep, RealStep
       DEF OnBranchInv, RealFixInv
<1>3. RealFixInv => ReportedFixIsReal
  BY DEF RealFixInv
<1>4. QED
  BY <1>1, <1>2, <1>3, PTL DEF Spec
=============================================================================
