---------------------------- MODULE FindingPath -----------------------------
(***************************************************************************)
(* One finding's way through secfix, from the scan's results to what is    *)
(* said of the patch: findings.py and repo.py choose the function and how  *)
(* to call it, the generated test (Harness) calls it, the oracle judges    *)
(* the trace, models.py splices the model's answer into the file, and the  *)
(* same test calls the patched function.  RunCommand has the same path     *)
(* with git, crashes and other findings around it; here is what it         *)
(* abstracts from.                                                         *)
(*                                                                         *)
(* The target's module is a sequence of definitions, as in RepoAnalysis    *)
(* with two more fields: `name`, and `body`, a sequence of Stmt.  A run    *)
(* that leaves no trace is taken to return none, as it does in Docker.     *)
(***************************************************************************)
EXTENDS Harness, PatchText

CONSTANTS
  Definition, \* the definitions a module may have
  Scans,      \* Scans[rule]: [results, defs, span] the rule may be run on
  Files,      \* the texts the target's file may have
  Answers     \* Answers[rule]: what the model may answer

VARIABLES
  pc,        \* the step secfix is about to take
  results,   \* the scan's results, while they are looked at
  defs,      \* the module's definitions
  span,      \* the finding's lines
  spliced,   \* what has just been applied: [file, answer, new], or None
  patched,   \* the definition the model proposed, or None
  verdict,   \* the oracle's verdict on fn as it is now, or None
  kind       \* PatchApplyResult.kind, or None

pathVars == <<pc, results, defs, span, spliced, patched, verdict, kind>>
vars     == <<harnessVars, pathVars>>

NoTarget == [name |-> "", tainted |-> "", assumed |-> FALSE,
             db |-> [kind |-> "unknown", name |-> ""], benign |-> {},
             lines |-> [first |-> 0, last |-> 0]]

PathSteps == {"load", "analyze", "generate", "repro", "ask", "start", "verify", "over"}

ASSUME DefinitionAssumption ==
  /\ \A d \in Definition : d.body \in Seq(Stmt)
  /\ Definition \cap {None, Unusable} = {}
  /\ \A r \in Rules : /\ \A s \in Scans[r] : s.defs \in Seq(Definition)
                      /\ \A a \in Answers[r] : a.def \in Definition \cup {None, Unusable}

(* A signature as Python accepts it: positional-only parameters first, and *)
(* no parameter without a default after one with, keyword-only ones apart. *)
ASSUME SignatureAssumption ==
  \A d \in Definition :
    /\ Len(d.params) \in Nat /\ DOMAIN d.params = 1..Len(d.params)
    /\ \A k \in DOMAIN d.params : d.params[k].kind \in {"plain", "posonly", "kwonly"}
                                 /\ d.params[k].default \in BOOLEAN
    /\ \A j, k \in DOMAIN d.params :
         /\ j < k /\ d.params[k].kind # "kwonly"
         => /\ d.params[j].kind # "kwonly"
            /\ d.params[k].kind = "posonly" => d.params[j].kind = "posonly"
            /\ d.params[j].default => d.params[k].default

ASSUME TextAssumption ==
  /\ \A d \in Definition : d.lines.first \in Nat \ {0} /\ d.lines.last \in Nat
  /\ \A f \in Files : IsText(f.text)
  /\ \A r \in Rules : \A a \in Answers[r] :
       a.lines \in Seq(TextLine) /\ \A k \in DOMAIN a.lines : a.lines[k].end = "nl"

ASSUME NotAVerdict == None \notin Verdicts \cup PatchKinds

TypeOK ==
  /\ rule \in Rules /\ step \in Steps /\ pc \in PathSteps
  /\ sentinel \in {"first", "second"}
  /\ DOMAIN target = DOMAIN NoTarget
  /\ fn \in Definition \cup {None, Unusable}
  /\ probe \in 1..Len(Probes) /\ ip \in Nat \ {0}
  /\ dumpable \in BOOLEAN
  /\ \A T \in {calls} \cup ({saved} \ {None}) :
       T \subseteq {Call(k, s) : k \in CallKinds, s \in {"first", "second"}}
  /\ patched \in Definition \cup {None, Unusable}
  /\ verdict \in Verdicts \cup {None} /\ kind \in PatchKinds \cup {None}

-----------------------------------------------------------------------------

(* External: what `name` stands for once the module is imported: its last  *)
(* definition, if there is one.                                            *)
Named(ds, name) ==
  {k \in DOMAIN ds : ds[k] # None /\ ds[k].name = name /\ AtModuleLevel(ds[k])}

Resolved(ds, name) ==
  IF Named(ds, name) = {} THEN {None}
  ELSE {ds[k] : k \in {n \in Named(ds, name) : \A j \in Named(ds, name) : j <= n}}

Init ==
  /\ rule \in Rules
  /\ \E s \in Scans[rule] : results = s.results /\ defs = s.defs /\ span = s.span
  /\ pc = "load" /\ spliced = None /\ patched = None /\ verdict = None /\ kind = None
  /\ target = NoTarget /\ fn = None /\ sentinel = "first"
  /\ step = "idle" /\ probe = 1 /\ ip = 1
  /\ calls = {} /\ dumpable = TRUE /\ saved = None

(* load_findings: nothing of the rule, or a result that cannot be read,    *)
(* ends the run.                                                           *)
Load ==
  /\ pc = "load"
  /\ pc' = IF LoadFails(results) \/ LoadFindings(results, rule) = <<>> THEN "over"
           ELSE "analyze"
  /\ results' = <<>>
  /\ UNCHANGED <<harnessVars, defs, span, spliced, patched, verdict, kind>>

Analyze ==
  /\ pc = "analyze"
  /\ IF Supported(defs, span)
     THEN /\ target' = AnalyzeFinding(defs, span)
          /\ pc' = "generate"
     ELSE pc' = "over" /\ UNCHANGED target
  /\ UNCHANGED <<rule, sentinel, fn, step, probe, ip, calls, dumpable, saved,
                 results, defs, span, spliced, patched, verdict, kind>>

Generate ==
  /\ pc = "generate"
  /\ IF Skipped THEN pc' = "over" /\ UNCHANGED harnessVars
     ELSE /\ fn' \in Resolved(defs, target.name)
          /\ StartHarness("first")
          /\ pc' = "repro"
          /\ UNCHANGED <<rule, target>>
  /\ UNCHANGED <<results, defs, span, spliced, patched, verdict, kind>>

RunTest ==
  /\ HarnessStep
  /\ UNCHANGED pathVars

(* The oracle's verdict, or None when there is no trace.                   *)
Judgement == IF saved = None THEN None ELSE Evaluate(rule, saved, sentinel)

(* Mutant: whatever is not cleared is patched.                             *)
BugPatchUncertain ==
  /\ pc = "repro" /\ step = "over"
  /\ verdict' = Judgement
  /\ pc' = IF verdict' \in {Confirmed, Uncertain} THEN "ask" ELSE "over"
  /\ UNCHANGED <<harnessVars, results, defs, span, spliced, patched, kind>>

Judge ==
  /\ pc = "repro" /\ step = "over"
  /\ verdict' = Judgement
  /\ pc' = IF verdict' = Confirmed THEN "ask" ELSE "over"
  /\ UNCHANGED <<harnessVars, results, defs, span, spliced, patched, kind>>

(* generate_patch for a file whose lines are numbered as ast did, with the *)
(* model's answer a.                                                       *)
AskModel(file, a) ==
  /\ pc = "ask"
  /\ file \in Files /\ a \in Answers[rule]
  /\ InFunction(file.text, target.lines) # {}

ModelError(file, a) ==
  /\ AskModel(file, a)
  /\ NoDiff(file, target.lines, a)
  /\ pc' = "over"
  /\ UNCHANGED <<harnessVars, results, defs, span, spliced, patched, verdict, kind>>

(* The diff is turned down by _diff_touches_only or by git.                *)
RefusePatch(file, a) ==
  /\ AskModel(file, a)
  /\ ~NoDiff(file, target.lines, a)
  /\ LET new == Splice(file.text, target.lines, a)
     IN  ~TouchesOnly(file.text, new) \/ ~Applies(file, new)
  /\ kind' = Failed
  /\ pc' = "over"
  /\ UNCHANGED <<harnessVars, results, defs, span, spliced, patched, verdict>>

(* External: the module's definitions after its text has changed.  Where   *)
(* the lines replaced are not the function's, the file may be left in any  *)
(* state.                                                                  *)
Redefined(file, a) ==
  LET k   == Innermost(defs, span)
      def == IF Code(a) = <<>> THEN None ELSE a.def
  IN  IF InFunction(file.text, target.lines) # target.lines.first..target.lines.last
      THEN {Unusable, def} \cup Resolved(defs, target.name)
      ELSE IF def = Unusable THEN {Unusable}
      ELSE Resolved([defs EXCEPT ![k] = def], target.name)

ApplyPatch(file, a) ==
  /\ AskModel(file, a)
  /\ ~NoDiff(file, target.lines, a)
  /\ LET new == Splice(file.text, target.lines, a)
     IN  /\ TouchesOnly(file.text, new) /\ Applies(file, new)
         /\ spliced' = [file |-> file.text, answer |-> a, new |-> new]
  /\ fn' \in Redefined(file, a)
  /\ patched' = IF Code(a) = <<>> THEN None ELSE a.def
  /\ pc' = "start" /\ verdict' = None
  /\ UNCHANGED <<rule, sentinel, target, step, probe, ip, calls, dumpable, saved,
                 results, defs, span, kind>>

(* generate_harness once more, from the target as it was analysed before   *)
(* the patch.                                                              *)
StartVerification ==
  /\ pc = "start"
  /\ StartHarness("second")
  /\ pc' = "verify"
  /\ spliced' = None
  /\ UNCHANGED <<rule, target, fn, results, defs, span, patched, verdict, kind>>

JudgePatch ==
  /\ pc = "verify" /\ step = "over"
  /\ verdict' = Judgement
  /\ kind' = IF verdict' = None THEN NeedsReview ELSE KindOf(verdict')
  /\ pc' = "over"
  /\ UNCHANGED <<harnessVars, results, defs, span, spliced, patched>>

Next ==
  \/ Load \/ Analyze \/ Generate \/ RunTest \/ Judge
  \/ \E file \in Files, a \in Answers[rule] :
       ModelError(file, a) \/ RefusePatch(file, a) \/ ApplyPatch(file, a)
  \/ StartVerification \/ JudgePatch

Spec == Init /\ [][Next]_vars

-----------------------------------------------------------------------------
(* Properties.                                                             *)

(* External, what the verdicts are about: x hands the tainted value to a   *)
(* sink of the rule in a way that lets probe p take effect.  A base        *)
(* directory with ".." in it is not the probe's doing.                     *)
Dangerous(x, p) ==
  /\ x.api \in Sinks[rule] /\ Tainted(x.of)
  /\ \/ x.form \in {"text", "raw", "join"}
     \/ x.form = "concat" /\ p = "traversal"
     \/ rule = "cmdi" /\ x.form # "none" /\ Shell(x)

(* External: what is executed when fn is called with probe p.              *)
Reached(p) ==
  IF fn \in {None, Unusable} THEN {}
  ELSE {k \in DOMAIN fn.body :
          CallBinds /\ \A j \in 1..(k - 1) : ~Raises(fn.body[j], p) /\ ~Exits(fn.body[j])}

AllProbes == {Probes[n] : n \in DOMAIN Probes}

(* x, given probe p, leaves a call the oracle takes offence at: a danger,  *)
(* but for a list with shell=True, or a base directory with ".." in it.    *)
Offensive(x, p) ==
  /\ x.api \in Sinks[rule] /\ Tainted(x.of)
  /\ \/ Dangerous(x, p) /\ x.form # "list shell"
     \/ x.form = "updir"

(* Whatever the sentinel is, calling fn lets some probe take effect.       *)
Confirmable ==
  \E p \in AllProbes : \E k \in Reached(p) : Offensive(fn.body[k], p)

(* Nothing is missed either: a function some probe takes effect in is      *)
(* confirmed whenever its test leaves a trace, and never merely uncertain, *)
(* whatever else it does before and after, safe calls of the same sink     *)
(* included.                                                               *)
NothingMissed == verdict # None /\ Confirmable => verdict = Confirmed

(* Confirmed is said of real evidence only: some probe, passed to the      *)
(* function as it is, does reach a sink of the rule and take effect.  The  *)
(* exception is a target whose own base directory has ".." in it.          *)
ConfirmedIsReal ==
  verdict = Confirmed =>
    \E p \in AllProbes : \E k \in Reached(p) :
      LET x == fn.body[k]
      IN  Dangerous(x, p) \/ (x.api \in Sinks[rule] /\ Tainted(x.of) /\ x.form = "updir")

(* A cleared function is safe against every probe, whatever it executes    *)
(* before it reaches a sink and whether or not an earlier probe made it    *)
(* raise.  The exception is a list together with shell=True.               *)
ClearedIsSafe ==
  verdict = NotReproduced =>
    \A p \in AllProbes : \A k \in Reached(p) :
      Dangerous(fn.body[k], p) => fn.body[k].form = "list shell"

(* A test whose call never got into the function, because of its           *)
(* signature, a patch that took it away or renamed it, or a module that    *)
(* does not import, neither confirms nor clears.                           *)
UnboundJudgesNothing ==
  fn \in {None, Unusable} \/ ~CallBinds => verdict \in {None, Uncertain}

(* What is called validated is the model's own definition, run with the    *)
(* arguments planned before the patch: not a later definition of the same  *)
(* name, and not one the patch has made uncallable.  The exception is an   *)
(* earlier definition of the name, which a patch that takes the function   *)
(* away or renames it uncovers.                                            *)
ValidatedIsPatched ==
  kind = Validated =>
    /\ fn \notin {None, Unusable} /\ CallBinds
    /\ \/ fn = patched
       \/ \E j \in 1..(Innermost(defs, span) - 1) :
            fn = defs[j] /\ Named(<<patched>>, target.name) = {}

(* An applied patch replaces the lines of the function, all of them and    *)
(* nothing else, whatever the answer's and the file's shape; unless a      *)
(* form feed or the like comes before the function's end.                  *)
PatchStaysInFunction ==
  spliced # None =>
    LET text == spliced.file
        own  == InFunction(text, target.lines)
        rest == DOMAIN text \ own
    IN  (\A k \in DOMAIN text :
           AstLine(text, k) <= target.lines.last => text[k].end # "ff")
        => /\ Len(spliced.new) = Cardinality(rest) + Len(Replacement(spliced.answer))
           /\ \A k \in rest :
                 spliced.new[IF \A j \in own : k < j THEN k
                             ELSE k + Len(spliced.new) - Len(text)] = text[k]

Claimed ==
  IF kind # None THEN kind
  ELSE IF pc \in {"start", "verify"} THEN Confirmed ELSE verdict

Stage ==
  IF pc \in {"load", "analyze", "generate", "repro"} THEN "open"
  ELSE IF pc = "ask" THEN "confirmed"
  ELSE IF pc \in {"start", "verify"} THEN "patched" ELSE "closed"

Claim == INSTANCE Claims
  WITH Nothing <- None, stage <- Stage, unsafe <- Confirmable, claim <- Claimed

(* From the scan to the last word, through analysis, generated test,       *)
(* recorders, oracle, patch and second test: secfix claims nothing that is *)
(* not so, and patches nothing that was not confirmed.                     *)
ImplementsClaims == Claim!Spec

(* Only parameters Python passes in the ordinary way are required, and a   *)
(* connection only by a function whose test has one to pass.               *)
Ordinary(d) ==
  /\ Args(d) # {}
  /\ \A k \in DOMAIN d.params :
       LET p == d.params[k]
       IN  p.default \/ (p.kind = "plain" /\ (p.name \in ConnNames => rule = "sqli"))

(* An ordinary function is really called: whichever parameters the         *)
(* analysis takes for the tainted one and the connection, what is left     *)
(* gets a literal, nothing required is forgotten and nothing passed that   *)
(* the function does not have.                                             *)
OrdinaryCallBinds ==
  pc = "repro" =>
    LET d == defs[Innermost(defs, span)]
    IN  fn = d /\ Ordinary(d) => CallBinds

(* A command is cleared only when no shell is given it.                    *)
ClearedWithoutShell ==
  rule = "cmdi" /\ verdict = NotReproduced =>
    \A k \in Reached("plain") :
      LET x == fn.body[k]
      IN  x.api \in Sinks[rule] /\ Tainted(x.of) /\ x.form # "none" => ~Shell(x)

-----------------------------------------------------------------------------
(* What makes them inductive.                                              *)

(* What the recorders note of statement k with probe p.                    *)
Noted(k, p) == Record(fn.body[k], Tainted(fn.body[k].of), p, sentinel)

(* Only statements that are reached leave calls, and ...                   *)
Sound(T) ==
  \A c \in T : \E n \in DOMAIN Probes : \E k \in Reached(Probes[n]) : c \in Noted(k, Probes[n])

(* ... all that the probes before the n-th have reached have left theirs.  *)
Complete(T, n) ==
  \A m \in DOMAIN Probes : m < n => \A k \in Reached(Probes[m]) : Noted(k, Probes[m]) \subseteq T

(* The statements before the one at hand have been executed.               *)
InBody ==
  /\ fn \in Definition /\ CallBinds /\ ip \in 1..(Len(fn.body) + 1)
  /\ \A k \in 1..(ip - 1) :
       /\ ~Raises(fn.body[k], Probes[probe]) /\ ~Exits(fn.body[k])
       /\ Noted(k, Probes[probe]) \subseteq calls

TestInv ==
  /\ probe \in DOMAIN Probes
  /\ Sound(calls)
  /\ step \in {"call", "body"} => Complete(calls, probe)
  /\ step = "call" => ip = 1
  /\ step = "body" => InBody
  /\ step = "dump" => Complete(calls, Len(Probes) + 1)
  /\ step = "over" /\ saved # None => Sound(saved) /\ Complete(saved, Len(Probes) + 1)

(* Where the path is tells whether the test runs, and the verdict is that  *)
(* on the trace of fn as it is.                                            *)
PathInv ==
  /\ rule \in Rules /\ defs \in Seq(Definition)
  /\ fn \in Definition \cup {None, Unusable}
  /\ step = "idle" => pc \in {"load", "analyze", "generate", "over"}
  /\ pc \in {"load", "analyze", "generate"} => step = "idle"
  /\ step \in {"call", "body", "dump"} => pc \in {"repro", "verify"} /\ saved = None
  /\ pc \in {"ask", "start"} => step = "over"
  /\ verdict # None => /\ pc \in {"ask", "over"} /\ step = "over"
                       /\ saved # None /\ verdict = Evaluate(rule, saved, sentinel)

IInv == PathInv /\ (step # "idle" /\ pc # "start" => TestInv)
=============================================================================
