----------------------------- MODULE RunCommand -----------------------------
(***************************************************************************)
(* `secfix run`: cli.run_command with patch.apply_and_verify_patch inlined *)
(* where it is called.  One finding after the other is analysed,           *)
(* reproduced in the sandbox, patched on a scratch branch, verified,       *)
(* reported and, with --open-pr, published.                                *)
(*                                                                         *)
(* The process is sequential; every subprocess it waits for is an action,  *)
(* so that a crash, a failing command, or a later invocation finds the     *)
(* repository in any state in which it can really be left.  Invocations    *)
(* (runs) share the repository and the output directory, nothing else.     *)
(***************************************************************************)
EXTENDS Sandbox

CONSTANTS
  N,              \* number of findings in the input file
  FnOf,           \* FnOf[i]: the function the i-th finding was reported in
  Rule,           \* --rule
  Sandboxes,      \* the values --sandbox is given
  Starts,         \* [head, edits]: how the user may have left the repository
  Faults,         \* which external commands may fail
  MayCrash,       \* the process may be killed between two steps
  MaxRuns         \* bound: how many times secfix is invoked

VARIABLES
  pc,         \* the step the process is about to take
  run,        \* how many invocations there have been
  args,       \* this invocation's options
  original,   \* original_branch
  i,          \* 1-based index of the finding at hand
  target,     \* the function analyze_finding located
  verdict,    \* the oracle's verdict on the reproduction run
  patch,      \* the version the model proposed, or None
  result,     \* patch_apply_result, or None
  exit,       \* exit_status
  reports,    \* <output>/finding_<i>/report.md and the next steps printed
  prBody,     \* <output>/finding_<i>/pr_body.md: the branch it describes
  remote,     \* branches pushed to origin
  prs         \* pull requests opened: [head, fix]

procVars == <<pc, run, args, original, i, target, verdict, patch, result, exit>>
diskVars == <<reports, prBody>>
hubVars  == <<remote, prs>>
vars     == <<gitVars, sandboxVars, procVars, diskVars, hubVars>>

-----------------------------------------------------------------------------

FaultNames == {"docker", "model", "branch", "apply", "add", "commit",
               "restore", "push", "gh", "sandbox"}

Finding == 1..N

Args == [sandbox : Sandboxes, ack : BOOLEAN, openPR : BOOLEAN]

PatchResult == [kind : PatchKinds, branch : Id \cup {None}]

Steps == {"pr requested", "publish", "scratch branch", "nothing"}

Report == [run : Nat, fn : Fn, verdict : Verdicts, summary : {"reproduced"},
           patch : PatchResult \cup {None}, steps : Steps]

Steppings == {"down", "analyze", "repro", "ask", "branch", "apply", "add",
              "commit", "verify", "restore", "report", "push", "gh", "hung"}

ASSUME ParameterAssumption ==
  /\ N \in Nat /\ MaxRuns \in Nat
  /\ FnOf \in [1..N -> Fn]
  /\ Sandboxes \subseteq {"local", "docker"}
  /\ Faults \subseteq FaultNames
  /\ MayCrash \in BOOLEAN
  /\ Starts \subseteq [head : {Main, Detached}, edits : SUBSET Fn]

ASSUME RuleAssumption == Rule \in Rules

ASSUME NoneIsNothing == None \notin PatchResult \cup Report \cup Version

TypeOK ==
  /\ GitTypeOK
  /\ SandboxTypeOK
  /\ pc \in Steppings
  /\ run \in Nat
  /\ args \in Args \cup {None}
  /\ original \in DOMAIN refs \cup {Detached, None}
  /\ i \in Nat \ {0}
  /\ target \in Fn \cup {None}
  /\ verdict \in Verdicts \cup {None}
  /\ patch \in Version \cup {None}
  /\ result \in PatchResult \cup {None}
  /\ exit \in {0, 1}
  /\ reports \in [Finding -> Report \cup {None}]
  /\ prBody \in [Finding -> Id \cup {None}]
  /\ remote \subseteq Id
  /\ prs \subseteq [head : Id \cup {Detached}, fix : Id]

-----------------------------------------------------------------------------
(* The finding at hand, and what belongs to it.                            *)

me == [run |-> run, finding |-> i]   \* its scratch branch and its patch

sentinel(phase) == [id |-> me, phase |-> phase]

(* The user's own uncommitted edits of a start state are marked [0, 1].    *)
UserEdit == [run |-> 0, finding |-> 1]

(* The trace file, judged by the rule's oracle for sentinel s.             *)
Judged(t, s) == Evaluate(Rule, TraceOf(t.code, t.fn, t.sentinel), s)

(* The finding's line numbers are those of the scan: in a file that some   *)
(* patch has changed they may fall into any function.                      *)
Located(f) ==
  IF \E g \in Fn : FileOf[g] = FileOf[f] /\ tree[g].by.run > 0
  THEN {g \in Fn : FileOf[g] = FileOf[f]}
  ELSE {f}

(* The locals of one loop iteration; mkdtemp gives each a workdir.         *)
ForgetFinding ==
  /\ target' = None /\ verdict' = None /\ patch' = None /\ result' = None
  /\ trace' = None

(* `continue`, or the end of the loop body.                                *)
NextFinding ==
  /\ i' = i + 1
  /\ pc' = "analyze"
  /\ ForgetFinding

(* The process is gone, with this exit status and everything it had in     *)
(* memory.                                                                 *)
Exit(status) ==
  /\ pc' = "down" /\ exit' = status
  /\ args' = None /\ original' = None /\ i' = 1
  /\ loaded' = NothingLoaded
  /\ ForgetFinding

Fault(command) == command \in Faults

-----------------------------------------------------------------------------

Init ==
  /\ refs \in {[b \in {Main} |-> t] :
                 t \in [Fn -> [by : {Main}, behaviour : Behaviours]]}
  /\ \E s \in Starts, e \in [Fn -> [by : {UserEdit}, behaviour : Behaviours]] :
       /\ head = s.head
       /\ tree = [f \in Fn |-> IF f \in s.edits THEN e[f] ELSE refs[Main][f]]
  /\ index = refs[Main]
  /\ loaded = NothingLoaded /\ trace = None
  /\ pc = "down" /\ run = 0 /\ args = None /\ original = None
  /\ i = 1 /\ target = None /\ verdict = None /\ patch = None /\ result = None
  /\ exit = 0
  /\ reports = [f \in Finding |-> None] /\ prBody = [f \in Finding |-> None]
  /\ remote = {} /\ prs = {}

(* A new process: argparse, load_findings and _current_branch.             *)
StartRun ==
  /\ pc = "down" /\ run < MaxRuns
  /\ run' = run + 1
  /\ args' \in Args
  /\ original' = head
  /\ i' = 1 /\ exit' = 0
  /\ pc' = "analyze"
  /\ loaded' = NothingLoaded
  /\ ForgetFinding
  /\ UNCHANGED <<gitVars, diskVars, hubVars>>

(* analyze_finding and generate_harness accept the finding.                *)
Analyze ==
  /\ pc = "analyze" /\ i <= N
  /\ target' \in Located(FnOf[i])
  /\ pc' = "repro"
  /\ UNCHANGED <<gitVars, sandboxVars, run, args, original, i, verdict, patch,
                 result, exit, diskVars, hubVars>>

(* One of the two does not support it: no report, on to the next one.      *)
Unsupported ==
  /\ pc = "analyze" /\ i <= N
  /\ NextFinding
  /\ UNCHANGED <<gitVars, loaded, run, args, original, exit, diskVars, hubVars>>

(* ast.parse raises on a file that is no Python: nothing catches that.     *)
AnalyzeRaises ==
  /\ pc = "analyze" /\ i <= N
  /\ BrokenFile(tree, FileOf[FnOf[i]])
  /\ Exit(1)
  /\ UNCHANGED <<gitVars, run, diskVars, hubVars>>

(* The loop is over.                                                       *)
Finish ==
  /\ pc = "analyze" /\ i > N
  /\ Exit(exit)
  /\ UNCHANGED <<gitVars, run, diskVars, hubVars>>

(* LocalSandbox refuses to be built without the acknowledgement.           *)
Refused == args.sandbox = "local" /\ ~args.ack

RefuseLocal ==
  /\ pc = "repro" /\ Refused
  /\ Exit(1)
  /\ UNCHANGED <<gitVars, run, diskVars, hubVars>>

(* sandbox.run with a fresh harness; `got` says whether there is a trace.  *)
RunHarness(phase, invalidate, got) ==
  \/ /\ args.sandbox = "local" /\ ~LocalHangs(target, invalidate)
     /\ LocalRun(target, sentinel(phase), invalidate)
     /\ got = (trace' # None)
  \/ /\ args.sandbox = "docker"
     /\ DockerRun(target, sentinel(phase))
     /\ got = FreshTraces(tree, target)
  \/ /\ args.sandbox = "docker" /\ Fault("docker")
     /\ ~got
     /\ UNCHANGED <<gitVars, sandboxVars>>

(* Mutant: an uncertain finding is patched too.                            *)
BugAskUnlessCleared(v) == IF v # NotReproduced THEN "ask" ELSE "report"

(* Only a confirmed finding is patched; every other verdict is reported.   *)
AfterVerdict(v) == IF v = Confirmed THEN "ask" ELSE "report"

(* The reproduction run and the oracle's verdict on it.                    *)
Reproduce ==
  /\ pc = "repro" /\ ~Refused
  /\ RunHarness("repro", FALSE, TRUE)
  /\ verdict' = Judged(trace', sentinel("repro"))
  /\ pc' = AfterVerdict(verdict')
  /\ UNCHANGED <<run, args, original, i, target, patch, result, exit, diskVars, hubVars>>

(* No trace: "UNCERTAIN: harness produced no trace", no report.            *)
NoTrace ==
  /\ pc = "repro" /\ ~Refused
  /\ RunHarness("repro", FALSE, FALSE)
  /\ NextFinding
  /\ UNCHANGED <<run, args, original, exit, diskVars, hubVars>>

(* Mutant: the container runs without a timeout.                           *)
BugNoTimeout ==
  /\ \/ pc = "repro" /\ ~Refused /\ LocalHangs(target, FALSE)
     \/ pc = "verify" /\ LocalHangs(target, TRUE)
  /\ pc' = "hung"
  /\ UNCHANGED <<gitVars, sandboxVars, run, args, original, i, target, verdict,
                 patch, result, exit, diskVars, hubVars>>

(* In-process code that never returns takes secfix with it.                *)
Hang ==
  /\ \/ pc = "repro" /\ ~Refused /\ LocalHangs(target, FALSE)
     \/ pc = "verify" /\ LocalHangs(target, TRUE)
  /\ args.sandbox = "local"
  /\ pc' = "hung"
  /\ UNCHANGED <<gitVars, sandboxVars, run, args, original, i, target, verdict,
                 patch, result, exit, diskVars, hubVars>>

(* DockerSandbox.run raises, or json.loads does on the trace it scraped    *)
(* (see DockerSandbox): nothing catches that, with or without a patch on a *)
(* scratch branch.                                                         *)
SandboxRaises ==
  /\ pc = "repro" \/ pc = "verify"
  /\ args.sandbox = "docker" /\ Fault("sandbox")
  /\ Exit(1)
  /\ UNCHANGED <<gitVars, run, diskVars, hubVars>>

-----------------------------------------------------------------------------
(* apply_and_verify_patch.  Every early return leads to "restore".         *)

Returns(kind, branch) ==
  /\ result' = [kind |-> kind, branch |-> branch]
  /\ pc' = "restore"

inPatch == <<loaded, trace, run, args, original, i, target, verdict, exit>>

(* build_report's summary says "reproduced ... at runtime" whatever the    *)
(* verdict; a pr_body.md is written for a validated patch only, and an     *)
(* older one is left where it is.                                          *)
Write(res) ==
  LET valid == res # None /\ res.kind = Validated
      named == res # None /\ res.branch # None
  IN /\ reports' = [reports EXCEPT ![i] =
          [run |-> run, fn |-> target, verdict |-> verdict,
           summary |-> "reproduced", patch |-> res,
           steps |-> IF valid /\ args.openPR THEN "pr requested"
                     ELSE IF valid THEN "publish"
                     ELSE IF named THEN "scratch branch" ELSE "nothing"]]
     /\ prBody' = IF valid THEN [prBody EXCEPT ![i] = res.branch] ELSE prBody

(* Mutant: no report when the model fails.                                 *)
BugModelErrorUnreported ==
  /\ pc = "ask"
  /\ exit' = 1
  /\ NextFinding
  /\ UNCHANGED <<gitVars, loaded, run, args, original, diskVars, hubVars>>

(* generate_patch raises ModelError: a report without a patch.             *)
ModelError ==
  /\ pc = "ask"
  /\ Write(None)
  /\ exit' = 1
  /\ NextFinding
  /\ UNCHANGED <<gitVars, loaded, run, args, original, hubVars>>

(* It raises anything else (a timeout, bad JSON): nothing catches that.    *)
ModelRaises ==
  /\ pc = "ask" /\ Fault("model")
  /\ Exit(1)
  /\ UNCHANGED <<gitVars, run, diskVars, hubVars>>

(* The model answers: its function is spliced in, for better or worse.     *)
Propose ==
  /\ pc = "ask"
  /\ \E b \in Behaviours : patch' = [by |-> me, behaviour |-> b]
  /\ pc' = "branch"
  /\ UNCHANGED <<gitVars, inPatch, result, diskVars, hubVars>>

(* _diff_touches_only turns the diff down before any branch is made.       *)
RejectDiff ==
  /\ pc = "branch"
  /\ Returns(Failed, None)
  /\ UNCHANGED <<gitVars, inPatch, patch, diskVars, hubVars>>

CreateBranch ==
  /\ pc = "branch"
  /\ CheckoutNew(me)
  /\ pc' = "apply"
  /\ UNCHANGED <<inPatch, patch, result, diskVars, hubVars>>

(* Mutant: a failed checkout -b goes unnoticed.                            *)
BugBranchFailureIgnored ==
  /\ pc = "branch" /\ Fault("branch")
  /\ pc' = "apply"
  /\ UNCHANGED <<gitVars, inPatch, patch, result, diskVars, hubVars>>

(* The failure names the branch all the same.                              *)
BranchFails ==
  /\ pc = "branch" /\ Fault("branch")
  /\ Returns(Failed, me)
  /\ UNCHANGED <<gitVars, inPatch, patch, diskVars, hubVars>>

ApplyPatch ==
  /\ pc = "apply"
  /\ Apply(target, patch)
  /\ pc' = "add"
  /\ UNCHANGED <<inPatch, patch, result, diskVars, hubVars>>

(* git apply --check turns it down, with and without --recount, or git     *)
(* apply itself fails after the check.                                     *)
ApplyFails ==
  /\ pc = "apply" /\ Fault("apply")
  /\ Returns(Failed, me)
  /\ UNCHANGED <<gitVars, inPatch, patch, diskVars, hubVars>>

(* The result of git add is not looked at.                                 *)
AddPatch ==
  /\ pc = "add"
  /\ \/ Add(FileOf[target])
     \/ Fault("add") /\ UNCHANGED gitVars
  /\ pc' = "commit"
  /\ UNCHANGED <<inPatch, patch, result, diskVars, hubVars>>

CommitPatch ==
  /\ pc = "commit" /\ CanCommit
  /\ Commit
  /\ pc' = "verify"
  /\ UNCHANGED <<inPatch, patch, result, diskVars, hubVars>>

(* Mutant: a failed commit goes unnoticed.                                 *)
BugCommitFailureIgnored ==
  /\ pc = "commit" /\ (~CanCommit \/ Fault("commit"))
  /\ pc' = "verify"
  /\ UNCHANGED <<gitVars, inPatch, patch, result, diskVars, hubVars>>

(* Nothing staged, or git commit fails (a hook, no identity): the patch    *)
(* stays in the index and the working tree.                                *)
CommitFails ==
  /\ pc = "commit" /\ (~CanCommit \/ Fault("commit"))
  /\ Returns(Failed, me)
  /\ UNCHANGED <<gitVars, inPatch, patch, diskVars, hubVars>>

(* A second harness, with a sentinel of its own, run in the same workdir.  *)
(* That generate_harness might skip it has no action: for one target it    *)
(* answers as it did before the reproduction.                              *)
Verify ==
  /\ pc = "verify"
  /\ RunHarness("verify", TRUE, TRUE)
  /\ Returns(KindOf(Judged(trace', sentinel("verify"))), me)
  /\ UNCHANGED <<run, args, original, i, target, verdict, patch, exit, diskVars, hubVars>>

VerifyNoTrace ==
  /\ pc = "verify"
  /\ RunHarness("verify", TRUE, FALSE)
  /\ Returns(NeedsReview, me)
  /\ UNCHANGED <<run, args, original, i, target, verdict, patch, exit, diskVars, hubVars>>

-----------------------------------------------------------------------------
(* Back in run_command.                                                    *)

(* Mutant: only a validated patch's branch is left again.                  *)
BugRestoreValidatedOnly ==
  IF result.kind = Validated /\ CanCheckout(refs[original])
  THEN Checkout(original) ELSE UNCHANGED gitVars

(* Mutant: git checkout --force.                                           *)
BugForcedRestore ==
  /\ head' = original
  /\ UNCHANGED refs
  /\ LET t == IF original = Detached THEN HeadTree ELSE refs[original]
     IN  tree' = t /\ index' = t

(* git checkout original_branch, when a branch name came back.  Whether it *)
(* worked is not looked at.                                                *)
Restored ==
  \/ result.branch # None /\ Checkout(original)
  \/ /\ \/ result.branch = None
        \/ Fault("restore")
        \/ original # Detached /\ ~CanCheckout(refs[original])
     /\ UNCHANGED gitVars

(* Mutant: a patch that needs review does not count as a failure.          *)
BugReviewIsSuccess(kind) == IF kind = Failed THEN 1 ELSE exit

(* Anything short of validated makes the run fail.                         *)
ExitAfter(kind) == IF kind = Validated THEN exit ELSE 1

Restore ==
  /\ pc = "restore"
  /\ Restored
  /\ exit' = ExitAfter(result.kind)
  /\ pc' = "report"
  /\ UNCHANGED <<sandboxVars, run, args, original, i, target, verdict, patch,
                 result, diskVars, hubVars>>

(* Mutant: every scratch branch is published.                              *)
BugPublishAnyBranch == result # None /\ result.branch # None /\ args.openPR

ShouldOpenPR == result # None /\ result.kind = Validated /\ args.openPR

WriteReport ==
  /\ pc = "report"
  /\ Write(result)
  /\ IF ShouldOpenPR
     THEN /\ pc' = "push"
          /\ UNCHANGED <<i, target, verdict, patch, result, trace>>
     ELSE NextFinding
  /\ UNCHANGED <<gitVars, loaded, run, args, original, exit, hubVars>>

(* _open_pr: git push -u origin <branch>, then gh pr create.               *)
Push ==
  /\ pc = "push"
  /\ remote' = remote \cup {result.branch}
  /\ pc' = "gh"
  /\ UNCHANGED <<gitVars, sandboxVars, run, args, original, i, target, verdict,
                 patch, result, exit, diskVars, prs>>

PushFails ==
  /\ pc = "push" /\ Fault("push")
  /\ NextFinding
  /\ UNCHANGED <<gitVars, loaded, run, args, original, exit, diskVars, hubVars>>

(* gh proposes the branch that is checked out; without one it fails.       *)
OpenPR ==
  /\ pc = "gh"
  /\ \/ /\ head # Detached
        /\ prs' = prs \cup {[head |-> head, fix |-> result.branch]}
     \/ (head = Detached \/ Fault("gh")) /\ UNCHANGED prs
  /\ NextFinding
  /\ UNCHANGED <<gitVars, loaded, run, args, original, exit, diskVars, remote>>

(* The process is killed; what is on disk stays as it is.                  *)
Crash ==
  /\ MayCrash /\ pc # "down"
  /\ Exit(1)
  /\ UNCHANGED <<gitVars, run, diskVars, hubVars>>

Step ==
  \/ Analyze \/ Unsupported \/ AnalyzeRaises \/ Finish
  \/ RefuseLocal \/ Reproduce \/ NoTrace \/ SandboxRaises \/ Hang
  \/ ModelError \/ ModelRaises \/ Propose
  \/ RejectDiff \/ CreateBranch \/ BranchFails
  \/ ApplyPatch \/ ApplyFails \/ AddPatch \/ CommitPatch \/ CommitFails
  \/ Verify \/ VerifyNoTrace
  \/ Restore \/ WriteReport \/ Push \/ PushFails \/ OpenPR

Next == StartRun \/ Step \/ Crash

Spec == Init /\ [][Next]_vars

(* A run that was started is carried through: every step is this process's *)
(* own or a subprocess it waits for.                                       *)
FairSpec == Spec /\ WF_vars(Step)

-----------------------------------------------------------------------------
(* Properties.                                                             *)

ReportedValid(x) ==
  /\ reports[x] # None /\ reports[x].patch # None
  /\ reports[x].patch.kind = Validated

(* Running the verification harness of branch b once more, in a fresh      *)
(* interpreter, on tree t.                                                 *)
Rerun(t, f, s) == Evaluate(Rule, TraceOf(t, f, s), s)

(* Branch b, checked out and run afresh, does not reproduce the finding.   *)
IsRealFix(b, f) ==
  /\ b \in DOMAIN refs
  /\ FreshTraces(refs[b], f)
  /\ Rerun(refs[b], f, [id |-> b, phase |-> "verify"]) = NotReproduced

(* Every report that calls a patch validated names a branch whose own      *)
(* commit is a real fix: the promise of patch.py's re-verification, for    *)
(* the code that will be merged and not for the process it was verified    *)
(* in.                                                                     *)
ReportedFixIsReal ==
  \A x \in Finding : ReportedValid(x) => IsRealFix(reports[x].patch.branch, reports[x].fn)

(* Whatever else fails, a validated report or a PR body names a branch     *)
(* that holds this finding's own patch, and no sink the patched function   *)
(* calls itself reproduces the finding any more.                           *)
HoldsOwnFix(b, f) ==
  /\ b \in DOMAIN refs
  /\ refs[b][f].by = b
  /\ LET s == [id |-> b, phase |-> "verify"]
     IN  Evaluate(Rule, {Call(k, s) : k \in refs[b][f].behaviour.calls}, s) # Confirmed

ReportedPatchIsOnBranch ==
  \A x \in Finding :
    /\ ReportedValid(x) => HoldsOwnFix(reports[x].patch.branch, reports[x].fn)
    /\ prBody[x] # None => \E f \in Fn : HoldsOwnFix(prBody[x], f)

(* A report that says a patch was applied, validated or to be inspected by *)
(* hand, names a branch that is there and holds this finding's own patch   *)
(* of the function, whether it was a branch, a commit or a checkout of     *)
(* this or an earlier finding or run that failed.                          *)
HoldsOwnPatch(b, f) == b \in DOMAIN refs /\ refs[b][f].by = b

SaysApplied(res) == res # None /\ res.kind \in {Validated, NeedsReview}

AppliedPatchIsThere ==
  \A x \in Finding :
    reports[x] # None /\ SaysApplied(reports[x].patch)
      => HoldsOwnPatch(reports[x].patch.branch, reports[x].fn)

(* Validated is only ever said of a run of this finding's second harness   *)
(* that executed this finding's patch: neither the trace file of the       *)
(* reproduction nor a module cached by it can pass for it.                 *)
ValidatedRanThePatch ==
  [][result' # result /\ result' # None /\ result'.kind = Validated =>
       /\ trace' # trace
       /\ trace'.sentinel = sentinel("verify")
       /\ trace'.code[target] = patch]_vars

(* A commit only ever lands on the scratch branch of the finding at hand,  *)
(* and only until that branch is reported: no user branch and no branch a  *)
(* report names moves again.                                               *)
CommitsStayOnScratch ==
  [][\A b \in DOMAIN refs :
       /\ b \in DOMAIN refs'
       /\ refs'[b] # refs[b] => b = me /\ head = b /\ pc = "commit"]_vars

(* What the repository holds of function f, on disk or on a branch.        *)
Held(f) == {tree[f]} \cup {refs[b][f] : b \in DOMAIN refs}

(* No work is lost: whatever a command does or fails to do, all that was   *)
(* in the working tree or on a branch is still in one of them, although    *)
(* `git add` stages the user's own edits along with the patch and the      *)
(* checkouts carry edits and half-made patches to and fro.  Only the       *)
(* function a patch replaces may lose what the model was shown of it.      *)
NoWorkLost ==
  [][\A f \in Fn : \A v \in Held(f) :
       v \in Held(f)' \/ (pc = "apply" /\ f = target /\ v = tree[f])]_vars

(* A branch is pushed only on request, after the report and the PR body    *)
(* that call it validated are on disk.                                     *)
PublishesOnlyValidated ==
  [][\A b \in remote' \ remote :
       /\ args.openPR
       /\ ReportedValid(i) /\ reports[i].patch.branch = b /\ reports[i].run = run
       /\ prBody[i] = b]_vars

(* Exit status 0 means every finding this run confirmed has been fixed:    *)
(* whatever happened to a confirmed finding, the status tells.             *)
ExitZeroMeansFixed ==
  pc = "down" /\ run > 0 /\ exit = 0 =>
    \A x \in Finding :
      reports[x] # None /\ reports[x].run = run /\ reports[x].verdict = Confirmed
        => ReportedValid(x)

(* Each finding is analysed on the branch and the clean tree the user      *)
(* started with, whatever became of the findings before it.                *)
RestoredBetweenFindings ==
  pc = "analyze" => head = original /\ tree = refs[Main] /\ index = refs[Main]

(* Every scratch branch is the original commit plus its own patch.         *)
IsolatedFix ==
  \A b \in DOMAIN refs, f \in Fn : refs[b][f].by \in {Main, UserEdit, b}

(* A branch a report says was created locally exists.                      *)
NamedBranchesExist ==
  \A x \in Finding :
    reports[x] # None /\ reports[x].patch # None /\ reports[x].patch.branch # None
      => reports[x].patch.branch \in DOMAIN refs

(* The model is asked to fix what is on disk: the code it is shown, run    *)
(* afresh, does reproduce the finding.                                     *)
ConfirmedOnDisk ==
  pc = "ask" => /\ FreshTraces(tree, target)
                /\ Rerun(tree, target, sentinel("repro")) = Confirmed

(* A run ends.                                                             *)
Terminates == pc # "down" ~> pc = "down"

(* Every confirmed finding gets this run's report, and an exit status      *)
(* that is nonzero unless it is fixed.                                     *)
ConfirmedIsSettled ==
  \A x \in Finding :
    pc = "ask" /\ i = x ~>
      /\ reports[x] # None /\ reports[x].run = run
      /\ (ReportedValid(x) \/ exit = 1)

(* A report claims a runtime reproduction only of what was reproduced.     *)
ReportsClaimOnlyReproduced ==
  \A x \in Finding :
    reports[x] # None /\ reports[x].summary = "reproduced"
      => reports[x].verdict = Confirmed

(* Each patch starts from a clean HEAD without earlier patches in it.      *)
StartsFromUnpatchedHead ==
  pc = "branch" => tree = HeadTree /\ \A f \in Fn : tree[f].by.run = 0

(* A pull request proposes the branch that was validated.                  *)
PRProposesFix == \A p \in prs : p.head = p.fix

-----------------------------------------------------------------------------
(* What makes the safety properties inductive.                             *)

OnScratch == {"apply", "add", "commit", "verify"}

(* Which locals hold a value at which step, and that HEAD is on the        *)
(* finding's own scratch branch while the patch is made.                   *)
ControlOK ==
  /\ pc # "down" => args \in Args /\ original \in DOMAIN refs \cup {Detached}
  /\ pc # "down" => run > 0
  /\ pc \notin {"down", "analyze"} => target \in Fn /\ i \in Finding
  /\ pc \in {"ask", "restore", "report", "push", "gh", "branch"} \cup OnScratch
       => verdict \in Verdicts
  /\ pc \in {"branch"} \cup OnScratch => patch \in Version /\ patch.by = me
  /\ pc \in OnScratch => head = me /\ me \in DOMAIN refs
  /\ pc \in {"restore", "push", "gh"} => result \in PatchResult
  /\ pc \in {"push", "gh"} => result.kind = Validated
  /\ pc \in {"restore", "report", "push", "gh"} /\ result # None /\ result.kind = Validated
       => result.branch = me
  /\ pc \in {"down", "analyze", "repro", "ask", "branch"} \cup OnScratch => result = None

(* The trace file before the verification run is the reproduction's.       *)
TraceIsOld ==
  /\ pc \in {"down", "analyze", "repro"} => trace = None
  /\ pc \in {"ask", "branch"} \cup OnScratch
       => trace \in Written /\ trace.sentinel.phase = "repro"

(* The invocation has got as far as committing to branch b; it has         *)
(* written its last word about b.                                          *)
Before(b, steps) ==
  \/ b.run < run
  \/ b.run = run /\ (pc = "down" \/ b.finding < i \/ (b.finding = i /\ pc \in steps))

Made(b) == Before(b, OnScratch \cup {"restore", "report", "push", "gh", "hung"})
Done(b) == Before(b, {"push", "gh"})

(* Scratch branches are made one after the other ...                       *)
MadeInOrder == \A b \in DOMAIN refs : Made(b)

(* ... and reported once done.                                             *)
ReportedInOrder ==
  \A x \in Finding :
    /\ ReportedValid(x) => Done(reports[x].patch.branch)
    /\ prBody[x] # None => Done(prBody[x])

InOrder == MadeInOrder /\ ReportedInOrder

(* From the working tree to the index to the branch to the report.         *)
PatchTravels ==
  /\ pc \in {"add", "commit", "verify"} => tree[target] = patch
  /\ pc \in {"commit", "verify"} => index[target] = patch
  /\ pc = "verify" => refs[me][target] = patch
  /\ pc \in {"restore", "report", "push", "gh"} /\ result # None /\ result.kind = Validated
       => HoldsOwnFix(me, target)

OnBranchInv ==
  TypeOK /\ ControlOK /\ TraceIsOld /\ InOrder /\ PatchTravels /\ ReportedPatchIsOnBranch

(* The result that says so was returned after the commit.                  *)
AppliedResult ==
  pc \in {"restore", "report"} /\ SaysApplied(result)
    => result.branch = me /\ HoldsOwnPatch(me, target)

(* Until the patch is committed, its branch is a copy of another one.      *)
ScratchIsCopy ==
  pc \in {"apply", "add", "commit"} => \E b \in DOMAIN refs \ {me} : refs[b] = refs[me]

(* With nothing left unstaged, what is verified is what is committed.      *)
Staged ==
  /\ pc = "add" => \A f \in Fn : FileOf[f] # FileOf[target] => tree[f] = index[f]
  /\ pc # "add" => tree = index
  /\ pc = "verify" => refs[me] = index
  /\ pc \in {"restore", "report", "push", "gh"} /\ result # None /\ result.kind = Validated
       => IsRealFix(me, target)

RealFixInv == OnBranchInv /\ Staged /\ ReportedFixIsReal

(* The files findings are in: no other file is ever patched.               *)
FindingFiles == {FileOf[FnOf[x]] : x \in Finding}

(* No finding is in a helper that another finding's file imports.          *)
NoFindingInHelpers ==
  \A x \in Finding : Modules(FileOf[FnOf[x]]) \cap FindingFiles \subseteq {FileOf[FnOf[x]]}

TargetInFindingsFile ==
  pc \notin {"down", "analyze"} => FileOf[target] = FileOf[FnOf[i]]

(* Files without a finding are the user's own on every branch ...          *)
HelpersUntouched ==
  \A f \in Fn : FileOf[f] \notin FindingFiles =>
    /\ tree[f] = refs[Main][f] /\ index[f] = refs[Main][f]
    /\ \A b \in DOMAIN refs : refs[b][f] = refs[Main][f]

(* ... and what the interpreter holds of them is what is on disk.          *)
HelpersFresh ==
  \A G \in File \ FindingFiles :
    loaded[G] # NotLoaded => loaded[G] = Leaf(tree, G) /\ ~BrokenFile(tree, G)

LocalRealFixInv ==
  RealFixInv /\ TargetInFindingsFile /\ HelpersUntouched /\ HelpersFresh

(* Where a run is on the user's branch with nothing changed ...            *)
Clean == head = Main /\ tree = refs[Main] /\ index = refs[Main]

Patched == [refs[Main] EXCEPT ![target] = patch]

(* ... and what there is to restore where it is not.                       *)
IsolationOK ==
  /\ pc # "down" => original = Main
  /\ pc \in {"down", "analyze", "repro", "ask", "branch", "report", "push", "gh"} => Clean
  /\ pc \in {"apply", "add", "commit"} => refs[me] = refs[Main]
  /\ pc = "apply" => tree = refs[Main]
  /\ pc \in {"apply", "add"} => index = refs[Main]
  /\ pc \in {"add", "commit", "verify"} => tree = Patched
  /\ pc \in {"commit", "verify"} => index = tree
  /\ pc = "verify" => refs[me] = index
  /\ pc = "restore" =>
       IF result.branch = None THEN Clean
       ELSE head \in DOMAIN refs /\ tree = index /\ refs[head] = index
  /\ \A f \in Fn : refs[Main][f].by = Main
=============================================================================
