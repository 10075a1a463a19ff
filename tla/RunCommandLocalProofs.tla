------------------------ MODULE RunCommandLocalProofs -------------------------
(***************************************************************************)
(* A validated patch is a real fix in the local sandbox too, although its  *)
(* interpreter keeps what it has imported: only the target module is       *)
(* purged before the verification run, and that is enough as long as no    *)
(* finding is in a file that another finding's file imports.               *)
(***************************************************************************)
EXTENDS RunCommandProofs

-----------------------------------------------------------------------------

(* There is a finding at hand and the process is alive.                    *)
LEMMA AtHand ==
  ASSUME TypeOK, ControlOK, TargetInFindingsFile, pc \notin {"down", "analyze"}
  PROVE  /\ me \in Id /\ i \in Finding /\ target \in Fn /\ args \in Args
         /\ FileOf[target] = FileOf[FnOf[i]]
         /\ FileOf[target] \in FindingFiles /\ FileOf[target] \in File
BY ParameterAssumption DEF TypeOK, ControlOK, TargetInFindingsFile, me, Id, Finding,
   FindingFiles, File

(* analyze_finding locates a function of the file the finding was in.      *)
LEMMA TargetStep ==
  ASSUME TypeOK, ControlOK, TargetInFindingsFile, [Next]_vars
  PROVE  TargetInFindingsFile'
<1> USE DEF TargetInFindingsFile
<1>1. CASE Analyze
  <2>1. i \in Finding /\ FnOf[i] \in Fn
    BY <1>1, ParameterAssumption DEF Analyze, TypeOK, Finding
  <2>2. FileOf[target'] = FileOf[FnOf[i]] /\ i' = i
    BY <1>1, <2>1 DEF Analyze, Located
  <2> QED BY <2>2
<1>2. CASE \/ StartRun \/ Unsupported \/ AnalyzeRaises \/ Finish \/ RefuseLocal
           \/ NoTrace \/ ModelError \/ ModelRaises \/ SandboxRaises \/ PushFails \/ OpenPR \/ Crash
  BY <1>2 DEF StartRun, Unsupported, AnalyzeRaises, Finish, RefuseLocal, NoTrace,
     ModelError, ModelRaises, SandboxRaises, PushFails, OpenPR, Crash, NextFinding, Exit
<1>3. CASE \/ Reproduce \/ Hang \/ Propose \/ RejectDiff \/ CreateBranch \/ BranchFails
           \/ ApplyPatch \/ ApplyFails \/ AddPatch \/ CommitPatch \/ CommitFails
  BY <1>3 DEF Reproduce, Hang, Propose, RejectDiff, CreateBranch, BranchFails,
     ApplyPatch, ApplyFails, AddPatch, CommitPatch, CommitFails, inPatch
<1>4. CASE Verify \/ VerifyNoTrace \/ Restore \/ Push \/ UNCHANGED vars
  BY <1>4 DEF Verify, VerifyNoTrace, Restore, Push, vars, procVars
<1>5. CASE WriteReport
  BY <1>5 DEF WriteReport, NextFinding
<1> QED BY <1>1, <1>2, <1>3, <1>4, <1>5 DEF Next, Step

(* No command secfix gives touches a file without a finding: a patch       *)
(* rewrites the target, a commit or a checkout moves what is the same on   *)
(* every branch.                                                           *)
LEMMA UntouchedStep ==
  ASSUME TypeOK, ControlOK, TargetInFindingsFile, HelpersUntouched, [Next]_vars
  PROVE  /\ HelpersUntouched'
         /\ \A f \in Fn : FileOf[f] \notin FindingFiles => tree'[f] = tree[f]
<1> SUFFICES ASSUME NEW f \in Fn, FileOf[f] \notin FindingFiles
             PROVE  /\ Main \in DOMAIN refs' /\ tree'[f] = tree[f]
                    /\ index'[f] = tree[f]
                    /\ \A b \in DOMAIN refs' : refs'[b][f] = tree[f]
  BY DEF HelpersUntouched, FindingFiles
<1> DEFINE u == tree[f]
<1>0. /\ tree[f] = u /\ index[f] = u /\ \A b \in DOMAIN refs : refs[b][f] = u
      /\ Main \in DOMAIN refs
  BY DEF HelpersUntouched, TypeOK, GitTypeOK
<1> HIDE DEF u
<1>1. HeadTree[f] = u
  BY <1>0 DEF HeadTree, TypeOK, GitTypeOK
<1>2. CASE UNCHANGED gitVars
  BY <1>0, <1>2 DEF gitVars
<1>3. CASE CreateBranch
  BY <1>0, <1>1, <1>3 DEF CreateBranch, CheckoutNew
<1>4. CASE ApplyPatch
  <2>1. target # f
    BY <1>4, AtHand DEF ApplyPatch
  <2> QED BY <1>0, <1>4, <2>1 DEF ApplyPatch, Apply, TypeOK, GitTypeOK, Tree
<1>5. CASE AddPatch
  BY <1>0, <1>2, <1>5 DEF AddPatch, Add
<1>6. CASE CommitPatch
  BY <1>0, <1>6 DEF CommitPatch, Commit
<1>7. CASE Restore
  <2>1. ASSUME Checkout(original), original # Detached
        PROVE  tree'[f] = u /\ index'[f] = u /\ refs' = refs
    <3>1. refs[original][f] = u
      BY <1>0, <1>7, <2>1 DEF Restore, ControlOK
    <3> QED BY <1>0, <2>1, <3>1 DEF Checkout
  <2>2. Checkout(original) /\ original = Detached => UNCHANGED gitVars
    BY DEF Checkout
  <2> QED BY <1>0, <1>2, <1>7, <2>1, <2>2 DEF Restore, Restored
<1>8. CASE Reproduce \/ NoTrace \/ Verify \/ VerifyNoTrace
  BY <1>2, <1>8, HarnessLeavesGit
<1>9. CASE \/ StartRun \/ Unsupported \/ AnalyzeRaises \/ Finish \/ RefuseLocal
           \/ ModelError \/ ModelRaises \/ SandboxRaises \/ PushFails \/ OpenPR \/ Crash
  BY <1>2, <1>9 DEF StartRun, Unsupported, AnalyzeRaises, Finish, RefuseLocal,
     ModelError, ModelRaises, SandboxRaises, PushFails, OpenPR, Crash
<1>10. CASE \/ Analyze \/ Hang \/ Propose \/ RejectDiff \/ BranchFails \/ ApplyFails
            \/ CommitFails \/ WriteReport \/ Push \/ UNCHANGED vars
  BY <1>2, <1>10 DEF Analyze, Hang, Propose, RejectDiff, BranchFails, ApplyFails,
     CommitFails, WriteReport, Push, vars
<1> QED
  BY <1>0, <1>2, <1>3, <1>4, <1>5, <1>6, <1>7, <1>8, <1>9, <1>10 DEF Next, Step, u

(* The module objects of files without a finding are what is on disk: they *)
(* are made from it, and neither changes.                                  *)
LEMMA FreshStep ==
  ASSUME TypeOK, ControlOK, TargetInFindingsFile, HelpersUntouched, HelpersFresh, [Next]_vars
  PROVE  HelpersFresh'
<1> SUFFICES ASSUME NEW G \in File \ FindingFiles, loaded'[G] # NotLoaded
             PROVE  loaded'[G] = Leaf(tree', G) /\ ~BrokenFile(tree', G)
  BY DEF HelpersFresh, FindingFiles, File, Leaf, BrokenFile
<1>1. Leaf(tree', G) = Leaf(tree, G) /\ (BrokenFile(tree', G) <=> BrokenFile(tree, G))
  <2>1. \A f \in Fn : FileOf[f] = G => tree'[f] = tree[f]
    BY UntouchedStep
  <2> QED BY <2>1 DEF Leaf, BrokenFile
<1>2. loaded[G] # NotLoaded => loaded[G] = Leaf(tree, G) /\ ~BrokenFile(tree, G)
  BY DEF HelpersFresh
<1>3. \/ loaded'[G] = loaded[G]
      \/ loaded'[G] = NotLoaded
      \/ loaded'[G] = Leaf(tree, G) /\ ~BrokenFile(tree, G)
  <2>1. CASE Reproduce \/ NoTrace \/ Verify \/ VerifyNoTrace
    <3>1. FileOf[target] # G /\ FileOf[target] \in File
      BY <2>1, AtHand DEF Reproduce, NoTrace, Verify, VerifyNoTrace
    <3>2. ASSUME NEW phase, NEW invalidate \in BOOLEAN, NEW got,
                 RunHarness(phase, invalidate, got), loaded' # loaded
          PROVE  loaded'[G] \in {loaded[G], NotLoaded} \/
                 (loaded'[G] = Leaf(tree, G) /\ ~BrokenFile(tree, G))
      <4> DEFINE cache == Purged(FileOf[target], invalidate)
      <4>1. LocalRun(target, sentinel(phase), invalidate)
        BY <3>2 DEF RunHarness, DockerRun, sandboxVars
      <4>2. cache[G] = loaded[G]
        BY <3>1 DEF Purged, TypeOK, SandboxTypeOK
      <4>3. loaded' = Imported(cache, FileOf[target])
        BY <4>1 DEF LocalRun
      <4> QED BY <3>1, <4>2, <4>3 DEF Imported
    <3>3. \/ RunHarness("repro", FALSE, TRUE) \/ RunHarness("repro", FALSE, FALSE)
          \/ RunHarness("verify", TRUE, TRUE) \/ RunHarness("verify", TRUE, FALSE)
      BY <2>1 DEF Reproduce, NoTrace, Verify, VerifyNoTrace
    <3>4. CASE loaded' = loaded
      BY <3>4
    <3> QED BY <3>2, <3>3, <3>4
  <2>2. CASE loaded' = loaded
    BY <2>2
  <2>3. CASE \/ StartRun \/ AnalyzeRaises \/ Finish \/ RefuseLocal \/ ModelRaises
             \/ SandboxRaises \/ Crash
    BY <2>3 DEF StartRun, AnalyzeRaises, Finish, RefuseLocal, ModelRaises, SandboxRaises,
       Crash, Exit, NothingLoaded
  <2>4. CASE \/ Analyze \/ Unsupported \/ Hang \/ ModelError \/ Propose \/ RejectDiff
             \/ CreateBranch \/ BranchFails \/ ApplyPatch \/ ApplyFails \/ AddPatch
             \/ CommitPatch \/ CommitFails
    BY <2>2, <2>4 DEF Analyze, Unsupported, Hang, ModelError, Propose, RejectDiff,
       CreateBranch, BranchFails, ApplyPatch, ApplyFails, AddPatch, CommitPatch,
       CommitFails, inPatch, sandboxVars
  <2>5. CASE Restore \/ WriteReport \/ Push \/ PushFails \/ OpenPR \/ UNCHANGED vars
    BY <2>2, <2>5 DEF Restore, WriteReport, Push, PushFails, OpenPR, sandboxVars, vars
  <2> QED BY <2>1, <2>2, <2>3, <2>4, <2>5 DEF Next, Step
<1> QED BY <1>1, <1>2, <1>3

-----------------------------------------------------------------------------

(* With the target purged and every helper fresh, the interpreter links    *)
(* the code on disk, and what it can import a fresh one can import.        *)
LEMMA LinksTheDisk ==
  ASSUME TypeOK, ControlOK, TargetInFindingsFile, HelpersFresh, NoFindingInHelpers,
         pc = "verify"
  PROVE  LET F == FileOf[target]
             cache == Purged(F, TRUE)
         IN  /\ \A g \in Fn : FileOf[g] \in Modules(F) => Linked(cache, F)[g] = tree[g]
             /\ ~ImportFails(cache, F) => \A G \in Modules(F) : ~BrokenFile(tree, G)
<1> DEFINE F == FileOf[target]
           cache == Purged(F, TRUE)
<1>1. F \in File /\ F = FileOf[FnOf[i]] /\ i \in Finding
  BY AtHand
<1>2. cache[F] = NotLoaded /\ \A G \in File : G # F => cache[G] = loaded[G]
  BY <1>1 DEF Purged, TypeOK, SandboxTypeOK
<1>3. \A G \in Modules(F) : G # F => G \in File \ FindingFiles
  <2>1. \A f \in Fn : Callees[f] \subseteq Fn
    BY CalleesAssumption
  <2>2. Modules(F) \subseteq File
    BY <1>1, <2>1 DEF Modules, File
  <2>3. Modules(F) \cap FindingFiles \subseteq {F}
    BY <1>1 DEF NoFindingInHelpers
  <2> QED BY <2>2, <2>3
<1>4. \A G \in Modules(F) : /\ Object(cache, G) = Leaf(tree, G)
                            /\ cache[G] # NotLoaded => ~BrokenFile(tree, G)
  BY <1>2, <1>3 DEF HelpersFresh, Object
<1>5. \A g \in Fn : FileOf[g] \in Modules(F) => Linked(cache, F)[g] = tree[g]
  BY <1>2, <1>4 DEF Linked, Leaf
<1>6. ~ImportFails(cache, F) => \A G \in Modules(F) : ~BrokenFile(tree, G)
  BY <1>2, <1>4 DEF ImportFails
<1> QED BY <1>5, <1>6

(* The interpreter ran the code that was committed.                        *)
LEMMA VerifyRealLocally ==
  ASSUME TypeOK, ControlOK, TraceIsOld, Staged, TargetInFindingsFile, HelpersFresh,
         NoFindingInHelpers, args.sandbox = "local", Verify, result'.kind = Validated
  PROVE  IsRealFix(me, target)
<1> DEFINE F == FileOf[target]
           cache == Purged(F, TRUE)
           code == Linked(cache, F)
           s == sentinel("verify")
<1>1. /\ pc = "verify" /\ target \in Fn /\ refs[me] = tree /\ me \in DOMAIN refs
      /\ trace \in Written /\ trace.sentinel.phase = "repro" /\ me \in Id
  BY AtHand DEF Verify, ControlOK, TraceIsOld, Staged, OnScratch
<1>2. Judged(trace', s) = NotReproduced
  BY DEF Verify, Returns, KindOf, Validated, Failed, NeedsReview
<1>3. trace' # trace
  BY <1>1, <1>2, VerifyExecutes DEF Verify, NotReproduced, Uncertain
<1>4. LocalRun(target, s, TRUE) /\ ~LocalHangs(target, TRUE)
  BY DEF Verify, RunHarness
<1>5. ~ImportFails(cache, F) /\ ~Silent(code, target) /\ trace'.code = code /\ trace'.fn = target
      /\ trace'.sentinel = s
  BY <1>3, <1>4 DEF LocalRun
<1>6. ~Hangs(code, target)
  BY <1>4, <1>5 DEF LocalHangs
<1>7. \A g \in Reach(target) : code[g] = tree[g]
  <2>1. Reach(target) \subseteq Fn
    BY <1>1, CalleesAssumption DEF Reach
  <2>2. \A g \in Reach(target) : FileOf[g] \in Modules(F)
    BY <1>1, <2>1 DEF Reach, Modules
  <2> QED BY <1>1, <2>1, <2>2, LinksTheDisk
<1>8. FreshTraces(tree, target)
  <2>1. ~Silent(tree, target) /\ ~Hangs(tree, target)
    BY <1>5, <1>6, <1>7 DEF Silent, Hangs
  <2> QED BY <1>1, <1>5, <2>1, LinksTheDisk DEF FreshTraces
<1>9. TraceOf(code, target, s) = TraceOf(tree, target, s)
  BY <1>7 DEF TraceOf, CallsOf
<1>10. Rerun(tree, target, s) = NotReproduced
  BY <1>2, <1>5, <1>9 DEF Judged, Rerun
<1> QED BY <1>1, <1>8, <1>10 DEF IsRealFix, sentinel

(* A clean start has nothing of a helper's that is not on the branch.      *)
LEMMA InitLocal ==
  ASSUME \A s \in Starts : s.edits = {}, Init
  PROVE  TargetInFindingsFile /\ HelpersUntouched /\ HelpersFresh
<1>1. tree = refs[Main] /\ index = refs[Main] /\ DOMAIN refs = {Main}
  <2>1. refs[Main] \in Tree
    BY InitType DEF TypeOK, GitTypeOK
  <2> QED BY <2>1 DEF Init, Tree
<1> QED
  BY <1>1 DEF Init, TargetInFindingsFile, HelpersUntouched, HelpersFresh, NothingLoaded

(* With no finding in a helper of another one's file, a report that says   *)
(* "validated" is right in either sandbox, on a clean checkout, as long as *)
(* git add does not fail and nobody kills the process: the branch it       *)
(* names, checked out and run by a fresh interpreter, does not reproduce   *)
(* the finding.  Purging the target module, and no other, from             *)
(* sys.modules is enough, whatever ran in the same interpreter before.     *)
THEOREM ValidatedMeansFixedLocally ==
  ASSUME NoFindingInHelpers, "add" \notin Faults, ~MayCrash,
         \A s \in Starts : s.edits = {}
  PROVE  Spec => []ReportedFixIsReal
<1>1. Init => LocalRealFixInv
  BY InitType, InitControl, InitOnBranch, InitReal, InitLocal
     DEF OnBranchInv, RealFixInv, LocalRealFixInv
<1>2. LocalRealFixInv /\ [Next]_vars => LocalRealFixInv'
  <2> SUFFICES ASSUME LocalRealFixInv, [Next]_vars PROVE LocalRealFixInv'
    OBVIOUS
  <2> USE DEF LocalRealFixInv, RealFixInv, OnBranchInv
  <2>1. Verify /\ result'.kind = Validated => IsRealFix(me, target)
    <3>1. Verify => me \in Id /\ args.sandbox \in {"local", "docker"}
      BY AtHand, ParameterAssumption DEF Verify, Args
    <3> QED BY <3>1, VerifyReal, VerifyRealLocally
  <2>2. Staged'
    BY <2>1, StagedStep
  <2>3. TargetInFindingsFile' /\ HelpersUntouched' /\ HelpersFresh'
    BY TargetStep, UntouchedStep, FreshStep
  <2> QED
    BY <2>2, <2>3, TypeStep, TraceStep, OrderStep, PatchTravelsStep, OnBranchStep, RealStep
<1>3. LocalRealFixInv => ReportedFixIsReal
  BY DEF LocalRealFixInv, RealFixInv
<1>4. QED
  BY <1>1, <1>2, <1>3, PTL DEF Spec
=============================================================================
