# secfix in TLA+

`secfix run` takes static-analysis findings, reproduces each one in a sandbox by
running the flagged function with a tainted sentinel, asks a language model for a
patch, applies it on a scratch branch, verifies it with a second run, and reports.
Its promise is one sentence (`README.md:66`): a finding is called fixed only if a
fresh execution trace, produced after the patch was applied, proves it. This
directory models the program that makes that promise, checks the model with TLC
and proves the parts that matter most with TLAPS.

The code is sequential. What makes it hard is that its state is *outside* it: a git
repository it drives with commands that may fail one by one, a Python interpreter
whose module cache outlives a run, a trace file two runs share, an output directory
that later invocations write into. Most hazards are of one shape: a step fails or
is skipped, nobody looks, and a later step takes the state it finds for another.

## Inventory

| component | state it keeps | operations | what makes it correct |
|---|---|---|---|
| run pipeline, `cli.py` | loop index, `original_branch`, verdict, patch result, `exit_status` | `run_command`, `_current_branch`, `_open_pr` | every finding starts from the user's own tree; every confirmed one is reported and reflected in the exit status; only validated patches are published |
| patching, `patch.py` | a scratch branch per finding | `_diff_touches_only`, `apply_and_verify_patch` | "validated" is said only of the patch that is on the branch, after a run of it |
| target's git repository (external) | HEAD, branches, index, working tree | checkout -b, apply, add, commit, checkout, push | commits land on the scratch branch and nowhere else |
| local sandbox, `sandbox/local.py` | `sys.modules` of secfix's own process, the workdir's trace file | `run`, purge of the target module | what runs is what is on disk |
| docker sandbox, `sandbox/docker.py` | images, containers, the workdir's trace file | `_setup`, `_execute`, `_extract_trace_from_stdout` | a trace comes from this run or not at all; a timeout ends it |
| harnesses, `harness/*.py`, `trace.py` | the list of recorded sink calls | recorders, the generated test | every call that reaches a sink is recorded as what it was |
| oracles, `oracle/*.py` | none | `evaluate` | "confirmed" on direct evidence only, "not_reproduced" only if the sentinel arrived safely |
| finding analysis, `repo.py` | none | `analyze_finding` | the finding's function, its tainted parameter, its database access |
| patch generation, `models.py` | none | provider calls, `_parse_response`, `_compute_diff` | the diff changes this function in this file and nothing else |
| reports, `report.py` | `<output>/finding_<i>/report.md`, `pr_body.md` | `build_report`, `build_pr_body`, `write_report_to_disk` | a report says what this run found |
| finding input, `findings.py` | none | `load_findings` | the findings of the rule, and no others |
| texts, `vulnclass.py` | none | constants | - |

Interactions: `run_command` calls everything else. Per finding it calls
`analyze_finding`, `generate_harness`, `sandbox.run`, the oracle, `generate_patch`,
`apply_and_verify_patch` (which calls `generate_harness`, `sandbox.run` and the
oracle again, in the same workdir), git, the report and git/gh. The shared state is
the repository (pipeline, patching and both sandboxes read and write it), the
interpreter's module cache (every local run), the trace file (both runs of a
finding) and the output directory (all invocations).

## Modules

The pipeline, with git, crashes and several findings and invocations:

| module | models |
|---|---|
| `Oracles` | the verdict functions of `oracle/`, what a recorded call may look like, and what a verdict means for a patch. A trace is the set of its calls, a call is which sentinels occur where in it: the oracles ask for nothing else |
| `Code` | external: the target's functions, the file of each, which calls which, and what running a version of a function does (returns with certain sink calls, ends the harness without a trace, does not import, never returns) |
| `GitRepo` | external: HEAD, branches, index and working tree, and git's commands as operators. `Checkout` carries local changes along, or is refused, file by file as git does it |
| `Sandbox` | `LocalSandbox.run` with the module cache (`loaded`), and `DockerSandbox.run` as one step in a fresh interpreter |
| `RunCommand` | `cli.run_command` with `apply_and_verify_patch` inlined; the properties; the inductive invariants |
| `FindingLifecycle` | abstract: what an operator may rely on, in terms of reports, published branches and the exit status |
| `RunCommandLifecycle` | the refinement mapping from `RunCommand` to it, and the invariant it rests on |
| `MCRunCommand` | layouts, behaviours, start states and fault sets for TLC |
| `RunCommandProofs` | theorems about git, verification and reports |
| `RunCommandIsolationProofs` | theorems about what one finding leaves for the next, about branches and confirmations, about what is never lost |
| `RunCommandLocalProofs` | when a validated patch is a real fix in the local sandbox too |
| `RunCommandLifecycleProofs` | the refinement, what follows from its invariant, and what a report says of an applied patch |

One finding, from the scan to the verdict on its patch, in the detail that `RunCommand`
leaves out:

| module | models |
|---|---|
| `RepoAnalysis` | `findings.py` and `repo.py` as pure operators on a module's definitions: which results are read and kept, which definition encloses a finding, its tainted parameter, its database access, the arguments that get a literal |
| `Harness` | the three generated tests as a state machine: the call (does Python accept it?), the target's statements one by one with what the recorders note of each, exceptions and `SystemExit`, the second path probe, the dump |
| `PatchText` | `models.py` from the answer to the diff, and what `_diff_touches_only` and `git apply` make of that diff |
| `FindingPath` | the composition: load, analyse, generate, run, judge, ask the model, splice, run again, judge the patch |
| `Claims` | abstract: what secfix's word on one finding is worth |
| `MCFindingPath` | functions, signatures, scans, files and answers for TLC |
| `FindingPathProofs` | theorems about what the verdicts mean |
| `FindingPatchProofs` | theorems about what a validated patch is and which lines a patch replaces |
| `FindingClaimProofs` | that `FindingPath` implements `Claims`, and that it misses nothing and really calls the function |

And the Docker sandbox by itself:

| module | models |
|---|---|
| `SandboxContract` | abstract: what `run_command` and `apply_and_verify_patch` rely on when they call `sandbox.run` |
| `DockerSandbox` | `sandbox/docker.py` step by step, next to a daemon that goes on with what a killed client has asked of it |
| `MCDockerSandbox` | two calls, and a target that prints the markers |
| `DockerSandboxProofs` | that it keeps the contract, and what it may leave behind |

Each module of the first table EXTENDS the ones before it down to `RunCommand`; `Harness`
EXTENDS `Oracles` and `RepoAnalysis`, and `FindingPath` EXTENDS it and `PatchText`.

### State and actions

`RunCommand`'s variables are the locals of `run_command` under their own names
(`original`, `i`, `target`, `verdict`, `patch`, `result`, `exit`), `pc`, the state on
disk (`reports`, `prBody`) and the hub (`remote`, `prs`). There is one action per
subprocess the code waits for and one per early exit, so the alternatives of one line
of code stand side by side: `CreateBranch`/`BranchFails`, `ApplyPatch`/`ApplyFails`,
`CommitPatch`/`CommitFails`, `Push`/`PushFails`. `AddPatch` has no failing twin that
returns, because the code does not look at the result of `git add`; neither has
`Restore`.

`FindingPath` follows the same program with other data. A function is a sequence of
statements, each one a call of an `api` with an argument of a certain `form` made from
one parameter: that is what the recorders and the oracles tell apart (a query with the
value in its text or bound, a command string or a list, with a shell or without, a
path that is raw, joined, concatenated or stripped to its last component). Statements
that raise, exit, miss an attribute of the stand-in cursor or reject the traversal
probe end the call where they stand. A file is a sequence of lines, each with the
three things that decide whether a diff survives: how it ends, how it begins, and
whether it equals another. `Analyze`, `Generate`, `Judge`, `ModelError`,
`RefusePatch`, `ApplyPatch`, `StartVerification` and `JudgePatch` are the steps of
`run_command` and `apply_and_verify_patch`; between them `RunTest` takes the test's.

`DockerSandbox`'s variables are the call at hand (`pc`, `n`, `late`, `stdout`,
`answer`), the workdir's trace file, the daemon's `builds`, `images`, `dangling`
images and `containers`, and the container's output: what the harness has still to
print (`todo`) and what has been `written`. The two `TimeoutExpired` branches are
actions that may happen whenever the command is running, before and after the daemon
has finished.

Identities: the n-th finding of the r-th invocation is `[run, finding]`; that pair
names its scratch branch, its patch and its sentinels. The code uses a time stamp
with a uuid4 suffix and random sentinels, both taken to be unique. A version of a
function records who wrote it (`by`) and what running it does (`behaviour`), which is
what lets a property say "this finding's own patch".

A crash (`Crash`) stands for a kill and for any exception that nothing catches,
between any two steps: a missing `docker` binary, a source file that is not UTF-8, a
full disk. Some such ends have actions of their own because they depend on the state:
`AnalyzeRaises` (a file that does not parse), `ModelRaises` (a provider answer that is
no JSON, a read timeout), `SandboxRaises` (docker is missing, or the text between the
markers is no trace, with or without a scratch branch checked out) and `RefuseLocal`. The next invocation
finds the repository as the last one left it.

## What the runs check

| run | instance | shows |
|---|---|---|
| `isolation` | two invocations, two findings in one file, one of its functions calling a helper in another, either sandbox, clean start; docker, model, apply, push and gh may fail (704 000 states) | `RestoredBetweenFindings`, `IsolatedFix`: no patch leaks into another finding's branch. `ReportedFixIsReal` holds in the local sandbox too when no finding is in the helper. `ImplementsLifecycle`: across invocations, what the operator sees is a behaviour of `FindingLifecycle` |
| `docker` | two files, f calls g, both findings, Docker, every caught failure | `ReportedFixIsReal`, `ConfirmedOnDisk`; `Terminates` and `ConfirmedIsSettled` under fairness |
| `hostile` | two invocations, local sandbox, dirty or detached start, crashes, git may fail to branch, to commit and to check out again (3 880 000 states) | `TypeOK`, `ReportedPatchIsOnBranch`, `AppliedPatchIsThere`, `ValidatedRanThePatch`, `NoWorkLost` |
| `faults` | one invocation, either sandbox, any start, crashes, every failure, git add unnoticed, a sandbox that raises, code that hangs or breaks its module (1 335 000 states) | `ExitZeroMeansFixed`, `CommitsStayOnScratch`, `PublishesOnlyValidated`, `ImplementsLifecycle` |
| `finding_path` | every class of finding; 118 modules and spans, up to ten files and some 30 answers each (39 600 states) | `ConfirmedIsReal`, `ClearedIsSafe`, `UnboundJudgesNothing`, `ValidatedIsPatched`, `PatchStaysInFunction`, `NothingMissed`, `OrdinaryCallBinds`, `ImplementsClaims`, `TypeOK` |
| `docker_sandbox` | the two runs of a finding, a container that prints at most five tokens (1 089 000 states) | `LeftoversOnlyAfterTimeout`, `PrintedTraceIsJudged`, `ImplementsContract`; `CallsReturn` under fairness |
| `stale_helper`, `detached`, `report_claims`, `pr_head`, `missing_branch`, `shell_list` | the smallest instance that shows it | the code violates the property; see Findings |

Two properties of the pipeline need a word:

- `NoWorkLost`: secfix works in the user's own checkout. `git add` of the target's file
  stages the user's uncommitted edits to it along with the patch, the checkout back
  takes what has been committed out of the working tree or carries along what has not,
  and a refused checkout leaves everything where it is. Whatever happens, each version
  of each function that was in the working tree or on a branch is still in one of
  them; only what the model was shown and asked to replace may go.
- `AppliedPatchIsThere`: a report that says a patch was applied, be it validated or
  left for a manual review, names a branch that is there and on which the function is
  this finding's own version. Branches, commits and checkouts of this or an earlier
  finding may have failed, an earlier invocation may have been killed half way. It is
  what is left of "the branch the report names exists", which the code breaks for
  failed patches (finding 5). It says nothing of what else is on that branch: after a
  failed commit the next finding's branch holds the leaked patch too.

What the properties of the last two passing runs say:

- `ConfirmedIsReal` and `ClearedIsSafe` compare the oracle's verdict with what the
  function under test does when it is *called with a probe*: a confirmed one hands
  some probe to a sink that lets it take effect; a cleared one lets no probe do so, on
  either side of an exception, whatever the first probe did. Two exceptions are
  written into them because the code is so: a base directory that has `..` in it is
  confirmed whatever the probe (`oracle/pathtraversal.py` says so itself), and a list
  with `shell=True` is cleared (finding 6).
- `UnboundJudgesNothing`: the generated call may be one Python refuses, before the
  patch because of the signature, after it because the patch has changed the
  signature, renamed the function, taken it away or broken the module. None of that
  may confirm, and above all none of it may clear.
- `ValidatedIsPatched`: functions are called by name, patched by line number and
  checked with arguments planned earlier. What is called validated is still the
  definition the model wrote. The exception written into it is real: if the module
  has an earlier definition of the name and the patch takes the later one away, the
  earlier one is run and may be validated in its stead.
- `NothingMissed` is the converse of `ConfirmedIsReal`: whenever the test of a function
  that some probe takes effect in has left a trace, the verdict is confirmed. Safe
  calls of the same sink before or after it, an exception and an exit do not blur it.
- `OrdinaryCallBinds`: of parameters that Python passes in the ordinary way the
  analysis forgets none and makes up none, whichever it takes for the tainted one and
  the connection. Defaults are the hard part: `repo.py` cuts the list of arguments
  short by the number of all defaults, those of positional-only parameters included.
- `ImplementsClaims`: the whole path is a behaviour of `Claims`, whose state is one
  bit about the function (`unsafe`, computed by the mapping from the function's body
  and the planned call, not from any verdict) and secfix's last word. Confirmed is said
  only where the bit is set, a patch is asked for only then, validated is said only
  where it is clear. "I could not tell" may be said at any time. The bit counts the
  two exceptions above as the code does (`Offensive`).
- `PatchStaysInFunction`: an applied patch leaves every line outside the function as
  it was. It excepts files with a form feed or the like before the function's end,
  where `splitlines` and `ast` count differently and the code does splice elsewhere.
- `LeftoversOnlyAfterTimeout`: images, builds and containers are the daemon's; a call
  that has ended leaves one behind only if its own timeout struck, and which kinds.
- `PrintedTraceIsJudged` and `ImplementsContract`: a trace that was passed on counts
  also when the timeout struck after it; a trace that was not is never replaced by the
  file an earlier run left in the workdir, nor by text the target printed.

Bounds. `N = 2`: every cross-finding effect in the code passes from one finding to
the next through shared state, and two findings in one file, or one in a helper of
the other, are the two ways in which they can share. `MaxRuns = 2` in `isolation` and
`hostile`: one invocation to leave a mess, one to work in it. Two functions, two
files: a function can be in the same file as another, or be called from another file,
or neither; `isolation` has a third function, a helper without a finding, so that the
two findings share a file and one of them has a helper. `Behaviours` holds for each run the kinds of code its properties tell
apart: sink called with the sentinel in the text, bound, elsewhere, not at all; no
trace; no import; no return. `Rule` is `sqli` in the runs of `RunCommand`: the
pipeline uses the oracle only through `Evaluate`, and the proofs hold for all three
rules. The CONSTANTS `N` and `MaxRuns` are the only bounds there.

`MCFindingPath` enumerates function bodies of one statement in every form, and of two
or three in the orders that matter (something that ends the call before, between and
after a safe and an unsafe sink, a second parameter at the sink); signatures, as
Python allows them, with required, defaulted, positional-only and keyword-only parameters; nested, async,
method and shadowed definitions; files of 7, 9 and 12 lines with the function in the
middle or at the end, with and without a last newline, with form feeds, CRLF and lines
that look like a diff header; answers with every body and signature above, unchanged,
empty, renamed, garbled, with two fences, with markers missing or swapped. Bodies are
sequences, so nothing else is capped, and the theorems need no cap.

`MCDockerSandbox`: two calls, because the second finds what the first left
(`MaxCalls`); five tokens of output (`MaxOutput`), the three of the trace and two the
target prints anywhere among them, which is what it takes to have a stray marker
before, within or after the trace and text beside it.

Deadlock is not checked: a run that ended after `MaxRuns` invocations has nothing
left to do, and one whose in-process target hangs never does anything again; a finding
whose path is over, and a sandbox after its last call, stop as well.

Fairness: `FairSpec` has `WF_vars(Step)` and nothing more. Every step is the
process's own or a subprocess it waits for; git commands and provider calls return
(the provider calls have timeouts), and a container run is cut off by its timeout.
`Crash` and `StartRun` are not fair: nobody is bound to kill or to start secfix.
`Terminates` is therefore checked with Docker only. With the local sandbox nothing
bounds a run of the target's code, and `Hang` is a state that is never left.

`DockerSandbox!FairSpec` has `WF_vars(Run)`: the steps of `DockerSandbox.run`, with
the two timeouts, which `subprocess.run` enforces. Nothing is assumed of the daemon and
the container: a build may never end, a container may run for ever, and `CallsReturn`
holds all the same. `docker rmi` has no timeout in the code; that it answers is an
assumption. `FindingPath` states no fairness, it has safety properties only.

## Findings

Six disagreements between the code and what is said of it, each the
counterexample of a run:

1. `stale_helper`: `LocalSandbox` purges the target module before the verification
   run, and no other. If the finding before it was in a helper the target imports,
   the verification runs the helper's *patched* code out of `sys.modules` although
   git has restored the file: a patch that fixes nothing comes back validated.
   Verification is fresh for the target's own file (`ValidationIsFresh`, proved) and
   not for what it calls. In Docker it is fresh altogether (`ValidatedMeansFixed`), and
   in the local sandbox too as long as no finding is in a file that another finding's
   file imports (`ValidatedMeansFixedLocally`): helpers are where it goes wrong, and
   the only place.
2. `detached`: on a detached HEAD `_current_branch` is the word `HEAD` and the
   checkout back does nothing; patches stack, and the second scratch branch
   contains the first patch.
3. `report_claims`: the report's summary says "reproduced ... at runtime" whatever
   the verdict.
4. `pr_head`: `gh pr create` runs without `--head` after the original branch has
   been checked out again, so it proposes that branch.
5. `missing_branch`: when `git checkout -b` fails, the result names the branch that
   could not be made (`patch.py:92-97`), and the report says that this scratch branch
   "was created locally" for manual inspection (`report.py:149`).
6. `shell_list`: a list given together with `shell=True` is recorded as argv data and
   clears the finding, although the shell does run its first element.

Further facts shape the assumptions below and the exceptions above. A required
keyword-only parameter is not among the parameters `repo.py` looks at, so the
generated call is one Python refuses. The same goes for positional-only parameters,
for an argument without a default behind positional-only ones that have one, for a
function without parameters, and, outside the SQL class, for a required parameter
called `conn`, `db` or `cur`. The verdict is uncertain, never wrong
(`UnboundJudgesNothing`, proved), and a function that requires none of these is called
(`OrdinaryCallBinds`, proved). A commit that fails leaves the patch in the tree, and the
checkout back carries it to the user's branch: the next finding is analysed with it
and commits it beside its own patch. So does a checkout back that is refused.
`git add` may fail unnoticed; an earlier crash may have left a modified
index, so that the commit succeeds without the patch, and the branch of a validated
report lacks the fix. A kill between `git apply` and `git add` leaves an unstaged
patch that the next invocation verifies and does not commit. Edits the user has not
committed have the same effect as the latter: they are verified and not merged. A
container outlives its client's timeout, without a limit of its own, and an image
outlives a build's. A target that prints the markers, or text between them, ends
secfix with an exception, possibly with a scratch branch checked out. Files with CRLF
line ends can never be patched: they are read as text, and the diff no longer
matches.

## What is proved

`RunCommandProofs` proves for every target repository, any number of findings and
invocations, any order of failures:

| theorem | says | assumes |
|---|---|---|
| `TypeCorrect` | `[]TypeOK` | nothing |
| `CommitsOnlyOwnBranch` | no step moves a branch other than the scratch branch of the finding at hand, and only its commit step moves that | nothing |
| `ReportsNameTheFix` | a validated report, and a PR body, names a branch that holds the finding's own patch, whose own calls do not reproduce the finding; either sandbox, any crash, any start state | `git add` does not fail unnoticed |
| `ValidationIsFresh` | "validated" is said only after the second harness wrote a trace of its own while executing the patched function | nothing |
| `ValidatedMeansFixed` | the branch a validated report names, checked out and run afresh, does not reproduce the finding | Docker, `git add` does not fail unnoticed, no kills, the user starts with a clean tree |

The assumptions are those of "Findings": for each there is a behaviour that breaks
the property without it. `ValidationIsFresh` needs none: that the file on disk is the
patched one from `git apply` to the verification (`PatchInTree`) does not depend on
what git has been told of it.

The argument. Types and control come first: `ControlOK` says which locals hold a
value at which step and that HEAD is on the finding's own branch from `checkout -b`
to the verification; `TypeStep` has one case per action. From it alone
`CommitsOnlyOwnBranch` follows, since only `CommitPatch` writes an existing branch.

`ReportsNameTheFix` needs `OnBranchInv`. `PatchTravels` follows the patch from the
working tree to the index, to the branch, to the report. `TraceIsOld` says that the
trace file the verification finds is the reproduction's, with another sentinel: by
`ForeignTraceUncertain` the oracle, given the verification's sentinel, can conclude
nothing from it, so a verification that writes nothing is never "validated".
`InOrder` says that branches are made and reported in the order of their names, so
that a branch a report names is never committed to again. `ConfirmationGrows` is the
monotonicity of the oracles: what clears a whole trace clears the function's own
calls in it.

`ValidatedMeansFixed` adds `Staged`: working tree and index agree except for the
target's file between apply and add, so what is verified is what is committed. This
is the conjunct that a kill, a dirty start or a failing `git add` destroys.

`RunCommandLocalProofs` proves the same of the local sandbox:

| theorem | says | assumes |
|---|---|---|
| `ValidatedMeansFixedLocally` | as `ValidatedMeansFixed`, in either sandbox | no finding in a file that another finding's file imports (`NoFindingInHelpers`), `git add` does not fail unnoticed, no kills, the user starts with a clean tree |

`run` purges the target module from `sys.modules` and imports it anew; all else stays.
The proof shows that this is enough. `HelpersUntouched`: a file without a finding is on
every branch, in the index and in the working tree what the user has in it, because
patches rewrite the target's file only and commits and checkouts move what is the same
everywhere. `HelpersFresh`: so what the interpreter has cached of such a file, in
whichever run it did, is what is on disk now. `NoFindingInHelpers` says that all the
target imports is of that kind, so the verification runs what a fresh interpreter
would (`VerifyRealLocally`). The run `stale_helper` is what happens without it.

`RunCommandLifecycleProofs` proves, with no assumption on what fails, when secfix is
killed or in which state the user or an earlier run leaves the repository:

| theorem | says |
|---|---|
| `Refinement` | `RunCommand` implements `FindingLifecycle`: findings are settled in order, only a confirmed one gets a patch, no report names a branch another report has named, only the finding settled last is published and only once, and a run exits with 0 only if every finding it confirmed is fixed |
| `HonestExit` | exit status 0 means every finding this run reported as confirmed is reported as fixed |
| `PublicationIsEarned` | a branch is pushed on request only, after the report and the PR body that call it validated are on disk |
| `AppliedPatchesAreThere` | a report that says a patch was applied names a branch that exists and holds this finding's own patch of the function. This one assumes that `git add` does not fail unnoticed |

The mapping computes the abstract state from `reports`, `remote`, `pc` and `exit`;
`settled` is the set of findings whose report bears the number of this run.
`LifecycleInv` adds to types and control that a report names its own branch and is
written when its finding is done with (`SignedReports`), that nothing is on the hub
that is still to be published (`PublishedBefore`), and that `exit_status` equals what
the reports say, one step ahead while a failed patch waits for its report
(`ExitTellsAll`). Steps that neither write a report, push, start nor end a run are
stuttering steps (`VisibleStep`).

`AppliedPatchesAreThere` combines three facts. `AppliedResult` carries the claim from
the verification, whose branch holds what `PatchTravels` has followed there, through
the checkout back to the report. A report on disk names its own finding's branch
(`SignedReports`). And such a branch is not committed to again, since commits go to
the scratch branch of the finding at hand and branch names are never used twice.

`RunCommandIsolationProofs`, on the same types and control:

| theorem | says | assumes |
|---|---|---|
| `RestoredForEach` | every finding is analysed on the user's own branch and tree | `Tolerable`: docker, the model, apply, push and gh may fail; `checkout -b`, add, commit (noticed or not) and the checkout back do not, and no sandbox raises; no kills; the user is on a branch without edits |
| `BranchesHoldOnePatch` | a scratch branch is the user's commit with that finding's patch and no other | `Tolerable` |
| `ConfirmationsAreOnDisk` | the model is asked only to fix code that, as it is on disk, reproduces the finding | Docker |
| `NothingIsLost` | what is in the working tree or on a branch stays in one of them, but for the function a patch replaces | nothing |

`IsolationOK` says what branch, index and working tree hold at each step. Its hardest
case is the way back: `Checkout` must leave nothing of the patch in the working tree,
whether the patch was refused, applied and committed, or applied and not verified,
which holds because the commit cannot have failed.

`NothingIsLost` is about the two commands that overwrite. A checkout keeps a local
change or is refused, so a version can go from the working tree only if a branch has
it (`CheckoutKeeps`). A commit overwrites a scratch branch, which is new: what it held
until then is still on the branch it was made from (`ScratchIsCopy`, checked with TLC
before it was used). Neither needs to know what failed before.

`FindingPathProofs`, `FindingPatchProofs` and `FindingClaimProofs` prove, for any set of statements,
definitions, scans, files and answers of the right shape:

| theorem | says |
|---|---|
| `ConfirmationIsReal` | what is confirmed hands some probe to a sink that lets it take effect |
| `ClearanceIsSafe` | what is cleared, and so what is validated, hands no probe to one, on any path the probes take; lists given to a shell excepted |
| `UnboundCallsAreUncertain` | a call that Python refuses is judged neither way |
| `TypesAreKept` | `[]TypeOK` |
| `ValidatedIsTheAnswer` | a validated function is the model's own definition, or an earlier one it has uncovered, called as planned before the patch |
| `PatchesReplaceTheFunction` | an applied patch replaces all lines of the function and leaves every other where it was, unless `splitlines` and `ast` count the lines before its end differently |
| `NoMiss` | a function some probe takes effect in is confirmed by every test that leaves a trace |
| `OrdinaryFunctionsAreCalled` | a function that requires ordinary parameters only gets a call Python accepts |
| `ClaimsAreSo` | `FindingPath` implements `Claims` |

The first three rest on `TestInv`. During a test the recorded calls are *sound*: each
one was noted of a statement that a probe tried so far reaches. They are *complete*:
every statement already executed, and everything that earlier probes reach, has left
its calls. An exception, a `SystemExit` or a refused call ends a probe early, and the
point of the induction is that it ends exactly where `Reached` says it does
(`NextProbeKeeps`). With that the rest is case analysis over what a recorder makes of
a call: `DangerIsNoted` and `NotedIsDanger` say that what takes effect is recorded as
what the oracle takes offence at, and the other way round; `WhatOraclesSay` reduces
the three oracles to "some call offends" and "the sentinel arrived".

`ValidatedIsTheAnswer` needs a fact about two tests. A function either is confirmed
by every test that runs it or by none (`VerdictsAgree`): the sentinel differs and
does not matter. So a function that was confirmed and is now cleared is another one
(`Replaced`), and the definitions of a module after a splice are the old ones with at
most one exchanged for the answer's (`ResolvedAfter`).

`NoMiss` and `ClaimsAreSo` need verdicts that are exact, not only sound:
`WhatOraclesSay` is an equivalence, and with soundness and completeness of the trace it
becomes `TraceTells`: confirmed if and only if some probe, on the function as it is,
takes effect (`Confirmable`). In the refinement that bit is the abstract `unsafe`. It
stays the same wherever neither the function nor the planned call changes
(`SameConfirmable`), and `ClaimStep` has one case per action: load, analysis and
generation locate, a judgement confirms or dismisses, a refused patch gives up, an
applied one sets the bit afresh, a second judgement settles.

`OrdinaryFunctionsAreCalled` rests on the analysis alone. `FirstIsIn` says that "the
first element of the list that is in the set" is in the set, whence the tainted
parameter and the connection are parameters of the function (`TaintedIsParam`,
`ConnectionIsParam`); a parameter without a default survives
the slice of the arguments, since those with one come behind it (`RequiredIsKept`, by
counting), and is then one of the two or gets a literal (`PlannedCallBinds`). `AnalysedInv` carries the result of the analysis to the test.

`PatchesReplaceTheFunction` is about two ways to count lines. `LinesAgree` shows that
`splitlines` and `ast` agree on every line up to the function's end if no line there
ends in a form feed or the like; `SpliceAt` says which line of the result comes from
where.

`DockerSandboxProofs` proves `Leftovers`, `TraceIsJudged` and `KeepsContract` for any
number of calls and any output, with no assumption on the daemon or the container:

| theorem | says |
|---|---|
| `Leftovers` | a call that has ended leaves builds, images and containers behind only if its own timeout struck, and only the kinds that timeout leaves |
| `TraceIsJudged` | a trace that was printed undisturbed and passed on is the one the caller gets |
| `KeepsContract` | `DockerSandbox` implements `SandboxContract`: the caller gets this call's whole trace, no trace, or an exception |

`CallInv` relates the daemon's state to the step of the call at hand: which build,
image or container of its own may exist there and whether its timeout has struck.
The trace's part is about sequences: the first markers of an undisturbed output have
the trace between them, whatever follows.

The constants carry assumptions that name what a value of the model may be:
`DefinitionAssumption`, `TextAssumption` and `StmtAssumption` (bodies are sequences of
statements, a statement's form is one its api can have, texts end their lines as
files do, an answer's lines end in a newline), `SignatureAssumption` (a signature is
one Python accepts: positional-only parameters first, none without a default after one
with), `UnusableAssumption`, `NotAVerdict`,
`NoneIsNothing` and `ChatterAssumption` (markers for "no value" are not values),
`BoundsAssumption`, `ParameterAssumption` and the assumptions of `Code`. TLC
evaluates all of them in the runs.

Checked by TLC only: the three liveness properties, `Terminates`,
`ConfirmedIsSettled` and `CallsReturn`, because fairness and ENABLED are out of the
prover's reach. Every
invariant, action property and refinement of a passing run is also a theorem.
The recorders, oracles and splices contain no recursion, so nothing had to be left
out of the proofs for that reason.

## Not modelled

- Wording and layout of prompts, reports and messages, beyond the one claim of
  finding 3, and the constant texts of `vulnclass.py` from which they are made.
- HTTP and the bodies of the providers' answers: a call returns text (`Answers`),
  fails in a way the code catches (`ModelError`) or raises (`ModelRaises`). This is
  why patch generation counts as partly modelled.
- The derivation of a module's import path in `repo.py`: whether the module can be
  imported is a property of the target's behaviour.
- The contents of the Dockerfile and the limits on a container.
- Answers of the model with a form feed, or another character only `splitlines`
  takes for a line end, inside a line (files with one are modelled).
- How statements of the target compute their values: a form says what becomes of the
  parameter, and forms are those the recorders or the oracles tell apart.
- A commit on the user's own branch by someone else while secfix runs: nothing in
  the code expects it.

## Plan

Done, in this order: `Oracles`, `Code`, `GitRepo`, `Sandbox`, `RunCommand` with its
runs and theorems; `FindingLifecycle` and the proof that `RunCommand` implements it;
`RepoAnalysis`, `Harness`, `PatchText` and their composition `FindingPath`;
`SandboxContract` and `DockerSandbox` with the proof that the one implements the
other; proofs of isolation, of what the verdicts mean and of what a patch replaces; `Claims`
and the proof that `FindingPath` implements it; proofs that verdicts are exact, that
ordinary functions are called, that the local sandbox is right where findings are not
in helpers, that no work is lost and that what a report says was applied is on the branch it
names.

Left, most important first:

1. A refinement between the two levels (today they share the oracles): that a run of `FindingPath` is one of the
   outcomes `RunCommand` takes from `Code` and `RejectDiff`, and that `DockerRun` in
   `Sandbox` is a step of `SandboxContract`. Today the correspondence is by reading.
2. Two tests in one process at the level of `Harness`: a helper that the function
   imports only when it is called, with `from subprocess import run`, binds the first
   test's recorder and keeps it in `sys.modules` after the test has taken it back.
3. Answers with form feeds, and the providers' error bodies.
