--------------------- MODULE RunCommandIsolationProofs ----------------------
(***************************************************************************)
(* What RunCommand promises of the operator's repository, and of the       *)
(* findings as each other's neighbours, for every target repository, every *)
(* number of findings and of invocations.                                  *)
(***************************************************************************)
EXTENDS RunCommandProofs

-----------------------------------------------------------------------------

(* The finding at hand has a branch of its own to be, not the user's.      *)
LEMMA MeIsScratch ==
  ASSUME TypeOK, ControlOK, pc # "down"
  PROVE  me \in Id /\ me # Main
BY ParameterAssumption DEF TypeOK, ControlOK, me, Id, Main, Finding

(* git checkout of the user's branch from a committed scratch branch gives *)
(* back the user's tree.                                                   *)
LEMMA CheckoutMain ==
  ASSUME GitTypeOK, head \in DOMAIN refs, head # Detached,
         tree = index, refs[head] = index
  PROVE  /\ CanCheckout(refs[Main])
         /\ Checkout(Main) => /\ head' = Main /\ refs' = refs
                              /\ tree' = refs[Main] /\ index' = refs[Main]
<1>1. HeadTree = index /\ refs[Main] \in Tree
  BY DEF HeadTree, GitTypeOK
<1>2. \A F \in File : SameFile(HeadTree, index, F) /\ SameFile(index, tree, F)
  BY <1>1 DEF SameFile
<1>3. CanCheckout(refs[Main])
  BY <1>2 DEF CanCheckout
<1>4. ASSUME Checkout(Main)
      PROVE  head' = Main /\ refs' = refs /\ tree' = refs[Main] /\ index' = refs[Main]
  <2>1. Main # Detached
    BY DetachedAssumption DEF Main, Id
  <2>2. \A f \in Fn : /\ Carried(refs[Main], FileOf[f]) => tree[f] = refs[Main][f]
                      /\ SameFile(HeadTree, refs[Main], FileOf[f]) => index[f] = refs[Main][f]
    BY <1>1 DEF Carried, SameFile
  <2>3. tree' = [f \in Fn |-> refs[Main][f]] /\ index' = [f \in Fn |-> refs[Main][f]]
    BY <1>4, <2>1, <2>2 DEF Checkout
  <2>4. refs[Main] = [f \in Fn |-> refs[Main][f]]
    BY <1>1 DEF Tree
  <2> QED BY <1>4, <2>1, <2>3, <2>4 DEF Checkout
<1> QED BY <1>3, <1>4

-----------------------------------------------------------------------------
(* Every finding starts from the user's branch, and every scratch branch   *)
(* holds one patch only.                                                   *)

(* The user has no edits and is on a branch, nobody kills secfix, no       *)
(* sandbox raises, and git does not fail to make a scratch branch, to add, *)
(* to commit and to check out again.                                       *)
Tolerable ==
  /\ Faults \subseteq {"docker", "model", "apply", "push", "gh"}
  /\ ~MayCrash
  /\ \A s \in Starts : s.head = Main /\ s.edits = {}


(* The verification answers for the branch it ran on.                      *)
LEMMA VerifyNames ==
  ASSUME Verify \/ VerifyNoTrace
  PROVE  result'.branch = me
<1>1. CASE Verify
  <2>1. \E k : result' = [kind |-> k, branch |-> me]
    BY <1>1 DEF Verify, Returns
  <2> QED BY <2>1
<1>2. CASE VerifyNoTrace
  BY <1>2 DEF VerifyNoTrace, Returns
<1> QED BY <1>1, <1>2

LEMMA IsolationStep ==
  ASSUME Tolerable, TypeOK, TypeOK', ControlOK, IsolationOK, [Next]_vars
  PROVE  IsolationOK'
<1>a. pc # "down" => me \in Id /\ me # Main
  BY MeIsScratch
<1> USE DEF IsolationOK, Clean, gitVars
<1>1. CASE StartRun
  BY <1>1 DEF StartRun
<1>2. CASE \/ Unsupported \/ AnalyzeRaises \/ Finish \/ ModelError \/ ModelRaises
           \/ RefuseLocal \/ PushFails \/ OpenPR
  BY <1>2 DEF Unsupported, AnalyzeRaises, Finish, ModelError, ModelRaises, RefuseLocal,
     PushFails, OpenPR, NextFinding, Exit
<1>3. CASE SandboxRaises \/ Crash \/ BranchFails \/ (CommitFails /\ CanCommit)
  BY <1>3 DEF Tolerable, SandboxRaises, Crash, BranchFails, CommitFails, Fault
<1>4. CASE Analyze \/ Propose \/ Push
  BY <1>4 DEF Analyze, Propose, Push, inPatch
<1>5. CASE Reproduce \/ NoTrace
  BY <1>5, HarnessLeavesGit DEF Reproduce, NoTrace, AfterVerdict, NextFinding
<1>6. CASE Hang
  BY <1>6 DEF Hang
<1>7. CASE RejectDiff
  BY <1>7 DEF RejectDiff, Returns, inPatch
<1>8. CASE CreateBranch
  <2>1. refs[Main] \in Tree /\ Main \in DOMAIN refs /\ HeadTree = refs[Main]
    BY <1>8, DetachedAssumption DEF CreateBranch, TypeOK, GitTypeOK, HeadTree, Main, Id
  <2>2. refs'[me] = refs[Main] /\ refs'[Main] = refs[Main] /\ me' = me
    BY <1>8, <1>a, <2>1 DEF CreateBranch, CheckoutNew, inPatch, me
  <2> QED BY <1>8, <2>2 DEF CreateBranch, CheckoutNew, inPatch
<1>9. CASE ApplyPatch
  <2>1. tree' = Patched' /\ me' = me
    BY <1>9 DEF ApplyPatch, Apply, Patched, inPatch, me
  <2> QED BY <1>9, <2>1 DEF ApplyPatch, Apply, inPatch
<1>10. CASE ApplyFails
  <2>1. head = me /\ me \in DOMAIN refs
    BY <1>10 DEF ApplyFails, ControlOK, OnScratch
  <2>2. UNCHANGED gitVars /\ original' = original /\ pc = "apply" /\ pc' = "restore"
    BY <1>10 DEF ApplyFails, Returns, inPatch
  <2>3. result'.branch = me /\ me # None
    BY <1>10, <1>a, NoneAssumption DEF ApplyFails, Returns
  <2> QED BY <2>1, <2>2, <2>3
<1>11. CASE AddPatch
  <2>1. Add(FileOf[target]) /\ target \in Fn
    BY <1>11 DEF AddPatch, Fault, Tolerable, ControlOK, OnScratch
  <2>2. refs[Main] \in Tree
    BY DEF TypeOK, GitTypeOK
  <2>3. \A f \in Fn : f # target => tree[f] = index[f]
    BY <1>11, <2>2 DEF AddPatch, Patched, Tree
  <2>4. index' = tree
    BY <2>1, <2>3 DEF Add, TypeOK, GitTypeOK, Tree
  <2>5. Patched' = Patched /\ me' = me
    BY <1>11, <2>1 DEF AddPatch, Add, Patched, inPatch, me
  <2> QED BY <1>11, <2>1, <2>4, <2>5 DEF AddPatch, Add, inPatch
<1>12. CASE CommitPatch
  <2>1. head = me /\ me \in DOMAIN refs
    BY <1>12 DEF CommitPatch, ControlOK, OnScratch
  <2>2. refs'[me] = index /\ refs'[Main] = refs[Main] /\ Patched' = Patched /\ me' = me
    BY <1>12, <1>a, <2>1 DEF CommitPatch, Commit, TypeOK, GitTypeOK, Patched, inPatch, me
  <2>3. /\ UNCHANGED <<head, index, tree, original>>
        /\ pc = "commit" /\ pc' = "verify"
    BY <1>12 DEF CommitPatch, Commit, inPatch
  <2> QED BY <2>2, <2>3
<1>13. CASE CommitFails /\ ~CanCommit
  <2>1. head = me /\ me \in DOMAIN refs /\ head # Detached
    BY <1>13, <1>a, DetachedAssumption DEF CommitFails, ControlOK, OnScratch
  <2>2. index = refs[head]
    BY <1>13, <2>1 DEF CanCommit, HeadTree
  <2>3. UNCHANGED gitVars /\ original' = original /\ pc = "commit" /\ pc' = "restore"
    BY <1>13 DEF CommitFails, Returns, inPatch
  <2>4. result'.branch = me /\ me # None
    BY <1>13, <1>a, NoneAssumption DEF CommitFails, Returns
  <2> QED BY <2>1, <2>2, <2>3, <2>4
<1>14. CASE Verify \/ VerifyNoTrace
  <2>1. head = me /\ me \in DOMAIN refs
    BY <1>14 DEF Verify, VerifyNoTrace, ControlOK, OnScratch
  <2>2. UNCHANGED gitVars /\ pc = "verify" /\ pc' = "restore" /\ original' = original
    BY <1>14, HarnessLeavesGit DEF Verify, VerifyNoTrace, Returns
  <2>3. me # None
    BY <1>a, <2>2, NoneAssumption
  <2>4. result'.branch = me
    BY <1>14, VerifyNames
  <2> QED BY <2>1, <2>2, <2>3, <2>4
<1>15. CASE Restore
  <2>1. /\ pc = "restore" /\ pc' = "report" /\ original' = original /\ original = Main
        /\ Restored
    BY <1>15 DEF Restore
  <2>2. CASE result.branch = None
    BY <2>1, <2>2 DEF Restored
  <2>3. CASE result.branch # None
    <3>1. head # Detached
      BY <2>1, <2>3, DetachedAssumption DEF TypeOK, GitTypeOK
    <3>2. CanCheckout(refs[Main])
      BY <2>1, <2>3, <3>1, CheckoutMain DEF TypeOK
    <3>3. Checkout(Main)
      BY <2>1, <2>3, <3>2 DEF Restored, Fault, Tolerable
    <3>4. head' = Main /\ refs' = refs /\ tree' = refs[Main] /\ index' = refs[Main]
      BY <2>1, <2>3, <3>1, <3>3, CheckoutMain DEF TypeOK
    <3> QED BY <2>1, <3>4
  <2> QED BY <2>2, <2>3
<1>16. CASE WriteReport
  <2>1. UNCHANGED <<gitVars, original>> /\ pc = "report" /\ pc' \in {"push", "analyze"}
    BY <1>16 DEF WriteReport, NextFinding
  <2> QED BY <2>1
<1>17. CASE UNCHANGED vars
  BY <1>17 DEF vars, procVars, me, Patched
<1> QED
  BY <1>1, <1>2, <1>3, <1>4, <1>5, <1>6, <1>7, <1>8, <1>9, <1>10, <1>11, <1>12, <1>13,
     <1>14, <1>15, <1>16, <1>17 DEF Next, Step

LEMMA InitIsolated ==
  ASSUME Tolerable, Init
  PROVE  IsolationOK
<1>1. refs[Main] \in Tree
  BY InitType DEF TypeOK, GitTypeOK
<1>2. tree = refs[Main] /\ head = Main /\ index = refs[Main]
  BY <1>1 DEF Init, Tolerable, Tree
<1>3. \A f \in Fn : refs[Main][f].by = Main
  BY DEF Init
<1> QED BY <1>2, <1>3 DEF Init, IsolationOK, Clean

(* The scratch branch of a patch is the user's commit and that patch.      *)
LEMMA IsolatedStep ==
  ASSUME TypeOK, ControlOK, IsolationOK, IsolatedFix, [Next]_vars
  PROVE  IsolatedFix'
<1>0. Main \in DOMAIN refs /\ refs[Main] \in Tree
  BY DEF TypeOK, GitTypeOK
<1>1. CASE CreateBranch
  <2>1. HeadTree = refs[Main] /\ \A f \in Fn : refs[Main][f].by = Main
    BY <1>1, DetachedAssumption DEF CreateBranch, IsolationOK, Clean, HeadTree, Main, Id
  <2> QED BY <1>1, <2>1 DEF CreateBranch, CheckoutNew, IsolatedFix
<1>2. CASE CommitPatch
  <2>1. /\ head = me /\ index = Patched /\ target \in Fn /\ patch.by = me
        /\ \A f \in Fn : refs[Main][f].by = Main
    BY <1>2 DEF CommitPatch, IsolationOK, ControlOK, OnScratch
  <2>2. \A f \in Fn : index[f].by \in {Main, me}
    BY <1>0, <2>1 DEF Patched, Tree
  <2> QED BY <1>2, <2>1, <2>2 DEF CommitPatch, Commit, IsolatedFix
<1>3. CASE refs' = refs
  BY <1>3 DEF IsolatedFix
<1> QED BY <1>1, <1>2, <1>3, RefsStep

LEMMA IsolationInvariant ==
  ASSUME Tolerable
  PROVE  Spec => [](TypeOK /\ ControlOK /\ IsolationOK /\ IsolatedFix)
<1> DEFINE Inv == TypeOK /\ ControlOK /\ IsolationOK /\ IsolatedFix
<1>1. Init => Inv
  <2> SUFFICES ASSUME Init PROVE Inv
    OBVIOUS
  <2>1. \A b \in DOMAIN refs, f \in Fn : refs[b][f].by = Main
    BY DEF Init
  <2> QED BY <2>1, InitType, InitControl, InitIsolated DEF IsolatedFix
<1>2. Inv /\ [Next]_vars => Inv'
  BY TypeStep, IsolationStep, IsolatedStep
<1> QED BY <1>1, <1>2, PTL DEF Spec

(* Whatever the target's code does and however earlier findings have gone, *)
(* each finding is analysed on the branch and the tree the user started    *)
(* with, if git does as it is told, nobody kills secfix and the user is on *)
(* a branch without edits.                                                 *)
THEOREM RestoredForEach ==
  ASSUME Tolerable
  PROVE  Spec => []RestoredBetweenFindings
<1>1. IsolationOK => RestoredBetweenFindings
  BY DEF IsolationOK, Clean, RestoredBetweenFindings
<1> QED BY <1>1, IsolationInvariant, PTL

(* Under the same assumptions no scratch branch holds another's patch.     *)
THEOREM BranchesHoldOnePatch ==
  ASSUME Tolerable
  PROVE  Spec => []IsolatedFix
BY IsolationInvariant, PTL

-----------------------------------------------------------------------------
(* In Docker, what the model is asked to fix is what is on disk.           *)

LEMMA OnDiskStep ==
  ASSUME Sandboxes = {"docker"}, TypeOK, ControlOK, TraceIsOld, ConfirmedOnDisk, [Next]_vars
  PROVE  ConfirmedOnDisk'
<1> SUFFICES ASSUME pc' = "ask" PROVE ConfirmedOnDisk'
  BY DEF ConfirmedOnDisk
<1>1. Reproduce \/ UNCHANGED vars
  <2>1. ~(\/ StartRun \/ Unsupported \/ AnalyzeRaises \/ Finish \/ RefuseLocal \/ NoTrace
          \/ ModelError \/ ModelRaises \/ SandboxRaises \/ PushFails \/ OpenPR \/ Crash)
    BY DEF StartRun, Unsupported, AnalyzeRaises, Finish, RefuseLocal, NoTrace, ModelError,
       ModelRaises, SandboxRaises, PushFails, OpenPR, Crash, NextFinding, Exit
  <2>2. ~(\/ Analyze \/ Hang \/ Propose \/ RejectDiff \/ CreateBranch \/ BranchFails
          \/ ApplyPatch \/ ApplyFails \/ AddPatch)
    BY DEF Analyze, Hang, Propose, RejectDiff, CreateBranch, BranchFails, ApplyPatch,
       ApplyFails, AddPatch, Returns
  <2>3. ~(\/ CommitPatch \/ CommitFails \/ Verify \/ VerifyNoTrace \/ Restore \/ WriteReport
          \/ Push)
    BY DEF CommitPatch, CommitFails, Verify, VerifyNoTrace, Restore, WriteReport, Push, Returns,
       NextFinding
  <2> QED BY <2>1, <2>2, <2>3 DEF Next, Step
<1>2. CASE Reproduce
  <2>1. /\ args.sandbox = "docker" /\ target \in Fn /\ trace = None
        /\ Judged(trace', sentinel("repro")) = Confirmed
        /\ target' = target /\ sentinel("repro")' = sentinel("repro")
    BY <1>2 DEF Reproduce, AfterVerdict, ControlOK, Args, TraceIsOld, sentinel, me
  <2>2. FreshTraces(tree, target) /\ DockerRun(target, sentinel("repro"))
    BY <1>2, <2>1 DEF Reproduce, RunHarness
  <2>3. /\ trace' = [sentinel |-> sentinel("repro"), fn |-> target, code |-> tree]
        /\ tree' = tree
    BY <2>2 DEF DockerRun, gitVars
  <2>4. Rerun(tree, target, sentinel("repro")) = Confirmed
    BY <2>1, <2>3 DEF Judged, Rerun
  <2> QED BY <2>1, <2>2, <2>3, <2>4 DEF ConfirmedOnDisk
<1>3. CASE UNCHANGED vars
  BY <1>3 DEF vars, procVars, gitVars, ConfirmedOnDisk, sentinel, me
<1> QED BY <1>1, <1>2, <1>3

(* Whatever has happened before and whatever fails, a finding confirmed in *)
(* Docker is one that the code on disk, run afresh, reproduces.            *)
THEOREM ConfirmationsAreOnDisk ==
  ASSUME Sandboxes = {"docker"}
  PROVE  Spec => []ConfirmedOnDisk
<1> DEFINE Inv == TypeOK /\ ControlOK /\ TraceIsOld /\ ConfirmedOnDisk
<1>1. Init => Inv
  BY InitType, InitControl, InitOnBranch DEF Init, ConfirmedOnDisk
<1>2. Inv /\ [Next]_vars => Inv'
  BY TypeStep, TraceStep, OnDiskStep
<1> QED BY <1>1, <1>2, PTL DEF Spec
-----------------------------------------------------------------------------
(* What the working tree and the branches hold is never lost.              *)

(* A scratch branch is a copy of the branch it was made from until the     *)
(* patch is committed to it.                                               *)
LEMMA CopyStep ==
  ASSUME TypeOK, ControlOK, MadeInOrder, ScratchIsCopy, [Next]_vars
  PROVE  ScratchIsCopy'
<1> USE DEF ScratchIsCopy
<1>1. CASE CreateBranch
  <2>1. pc = "branch" /\ run \in Nat /\ i \in Nat /\ me' = me
    BY <1>1 DEF CreateBranch, TypeOK, inPatch, me
  <2>2. me \notin DOMAIN refs
    BY <2>1 DEF MadeInOrder, Made, Before, OnScratch, me
  <2>3. PICK b \in DOMAIN refs : HeadTree = refs[b]
    BY DEF HeadTree, TypeOK, GitTypeOK
  <2> QED BY <1>1, <2>1, <2>2, <2>3 DEF CreateBranch, CheckoutNew
<1>2. CASE ApplyPatch
  BY <1>2 DEF ApplyPatch, Apply, inPatch, me
<1>3. CASE AddPatch
  <2>1. refs' = refs /\ me' = me /\ pc = "add"
    BY <1>3 DEF AddPatch, Add, gitVars, inPatch, me
  <2> QED BY <2>1
<1>4. CASE \/ StartRun \/ Unsupported \/ AnalyzeRaises \/ Finish \/ RefuseLocal
           \/ NoTrace \/ ModelError \/ ModelRaises \/ SandboxRaises \/ PushFails \/ OpenPR \/ Crash
  BY <1>4 DEF StartRun, Unsupported, AnalyzeRaises, Finish, RefuseLocal, NoTrace,
     ModelError, ModelRaises, SandboxRaises, PushFails, OpenPR, Crash, NextFinding, Exit
<1>5. CASE \/ Analyze \/ Reproduce \/ Hang \/ Propose \/ CommitPatch \/ Verify \/ VerifyNoTrace
           \/ RejectDiff \/ BranchFails \/ ApplyFails \/ CommitFails
  BY <1>5 DEF Analyze, Reproduce, AfterVerdict, Hang, Propose, CommitPatch, Verify,
     VerifyNoTrace, RejectDiff, BranchFails, ApplyFails, CommitFails, Returns
<1>6. CASE Restore \/ WriteReport \/ Push
  BY <1>6 DEF Restore, WriteReport, NextFinding, Push
<1>7. CASE UNCHANGED vars
  BY <1>7 DEF vars, procVars, gitVars, me
<1> QED BY <1>1, <1>2, <1>3, <1>4, <1>5, <1>6, <1>7 DEF Next, Step

(* git checkout overwrites only files it can bring back.                   *)
LEMMA CheckoutKeeps ==
  ASSUME GitTypeOK, NEW b \in DOMAIN refs \cup {Detached}, Checkout(b), NEW f \in Fn
  PROVE  tree'[f] = tree[f] \/ \E c \in DOMAIN refs : refs[c][f] = tree[f]
<1>1. CASE b = Detached
  BY <1>1 DEF Checkout, gitVars
<1>2. CASE b # Detached /\ ~Carried(refs[b], FileOf[f])
  <2>1. SameFile(HeadTree, index, FileOf[f]) /\ SameFile(index, tree, FileOf[f])
    BY <1>2 DEF Checkout, CanCheckout, File
  <2>2. HeadTree[f] = tree[f]
    BY <2>1 DEF SameFile
  <2> QED BY <2>2 DEF HeadTree, GitTypeOK
<1>3. CASE b # Detached /\ Carried(refs[b], FileOf[f])
  BY <1>3 DEF Checkout
<1> QED BY <1>1, <1>2, <1>3

(* Each command but git apply leaves what it overwrites somewhere else.    *)
LEMMA HeldStep ==
  ASSUME TypeOK, ControlOK, MadeInOrder, ScratchIsCopy, [Next]_vars,
         NEW f \in Fn, NEW v \in Held(f)
  PROVE  v \in {tree'[f]} \cup {refs'[b][f] : b \in DOMAIN refs'}
           \/ (pc = "apply" /\ f = target /\ v = tree[f])
<1> USE DEF Held
<1>1. CASE UNCHANGED gitVars
  BY <1>1 DEF gitVars
<1>2. CASE CreateBranch
  <2>1. \A b \in DOMAIN refs : b \in DOMAIN refs' /\ refs'[b] = refs[b]
    BY <1>2, CommitStep DEF CreateBranch
  <2> QED BY <1>2, <2>1 DEF CreateBranch, CheckoutNew
<1>3. CASE ApplyPatch
  BY <1>3 DEF ApplyPatch, Apply, TypeOK, GitTypeOK, Tree
<1>4. CASE AddPatch
  <2>1. tree' = tree /\ refs' = refs
    BY <1>4 DEF AddPatch, Add, gitVars
  <2> QED BY <2>1
<1>5. CASE CommitPatch
  <2>1. PICK c \in DOMAIN refs \ {me} : refs[c] = refs[me]
    BY <1>5 DEF CommitPatch, ScratchIsCopy
  <2>2. \A b \in DOMAIN refs \ {me} : b \in DOMAIN refs' /\ refs'[b] = refs[b]
    BY CommitStep
  <2>3. tree' = tree
    BY <1>5 DEF CommitPatch, Commit
  <2> QED BY <2>1, <2>2, <2>3
<1>6. CASE Restore
  <2>1. CASE Checkout(original)
    <3>1. original \in DOMAIN refs \cup {Detached}
      BY <1>6 DEF Restore, ControlOK
    <3>2. refs' = refs
      BY <2>1, <3>1, CheckoutType DEF TypeOK
    <3>3. tree'[f] = tree[f] \/ \E c \in DOMAIN refs : refs[c][f] = tree[f]
      BY <2>1, <3>1, CheckoutKeeps DEF TypeOK
    <3> QED BY <3>2, <3>3
  <2> QED BY <1>1, <1>6, <2>1 DEF Restore, Restored
<1>7. CASE Reproduce \/ NoTrace \/ Verify \/ VerifyNoTrace
  BY <1>1, <1>7, HarnessLeavesGit
<1>8. CASE \/ StartRun \/ Unsupported \/ AnalyzeRaises \/ Finish \/ RefuseLocal
           \/ ModelError \/ ModelRaises \/ SandboxRaises \/ PushFails \/ OpenPR \/ Crash
  BY <1>1, <1>8 DEF StartRun, Unsupported, AnalyzeRaises, Finish, RefuseLocal,
     ModelError, ModelRaises, SandboxRaises, PushFails, OpenPR, Crash
<1>9. CASE \/ Analyze \/ Hang \/ Propose \/ RejectDiff \/ BranchFails \/ ApplyFails
           \/ CommitFails \/ WriteReport \/ Push \/ UNCHANGED vars
  BY <1>1, <1>9 DEF Analyze, Hang, Propose, RejectDiff, BranchFails, ApplyFails,
     CommitFails, WriteReport, Push, vars
<1> QED
  BY <1>1, <1>2, <1>3, <1>4, <1>5, <1>6, <1>7, <1>8, <1>9 DEF Next, Step

(* Whatever the user has not committed, whichever commands fail and        *)
(* wherever a run is killed: what was on disk or on a branch still is,     *)
(* but for the function a patch has replaced.                              *)
THEOREM NothingIsLost == Spec => NoWorkLost
<1> DEFINE Inv == TypeOK /\ ControlOK /\ MadeInOrder /\ ScratchIsCopy
<1>1. Init => Inv
  BY InitType, InitControl, InitOnBranch DEF InOrder, Init, ScratchIsCopy
<1>2. Inv /\ [Next]_vars => Inv'
  BY TypeStep, MadeStep, CopyStep
<1>3. Inv /\ [Next]_vars
      => [\A f \in Fn : \A v \in Held(f) :
            v \in Held(f)' \/ (pc = "apply" /\ f = target /\ v = tree[f])]_vars
  BY HeldStep DEF Held
<1>4. QED
  BY <1>1, <1>2, <1>3, PTL DEF Spec, NoWorkLost
=============================================================================
