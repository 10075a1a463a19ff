------------------------- MODULE FindingClaimProofs --------------------------
(***************************************************************************)
(* What secfix says of a finding is so: FindingPath implements Claims, for *)
(* every module, signature, file and answer; and it has called a function  *)
(* of an ordinary signature before it says anything.                       *)
(***************************************************************************)
EXTENDS FindingPatchProofs

(* For every function and signature: what the recorders of a whole test    *)
(* hold is all the oracle needs.  A function some probe takes effect in is *)
(* never called uncertain.                                                 *)
THEOREM NoMiss == Spec => []NothingMissed
<1>1. IInv => NothingMissed
  BY VerdictsAgree DEF NothingMissed
<1> QED BY <1>1, TracesAreComplete, PTL

-----------------------------------------------------------------------------

ClaimInv == IInv /\ PatchedInv /\ pc \in PathSteps

(* The path takes the steps it knows.                                      *)
LEMMA PathStepsStep ==
  ASSUME pc \in PathSteps, [Next]_vars
  PROVE  pc' \in PathSteps
<1> USE DEF PathSteps
<1>1. CASE RunTest \/ UNCHANGED vars
  BY <1>1 DEF RunTest, vars, pathVars
<1>2. CASE Load \/ Analyze \/ Generate \/ Judge \/ StartVerification \/ JudgePatch
  BY <1>2 DEF Load, Analyze, Generate, Judge, StartVerification, JudgePatch
<1>3. ASSUME NEW file \in Files, NEW a \in Answers[rule],
             ModelError(file, a) \/ RefusePatch(file, a) \/ ApplyPatch(file, a)
      PROVE  pc' \in PathSteps
  BY <1>3 DEF ModelError, RefusePatch, ApplyPatch
<1> QED BY <1>1, <1>2, <1>3 DEF Next

(* Nothing has been said when the scan's results are read.                 *)
LEMMA InitClaim == Init => Claim!Init
BY NotAVerdict DEF Init, Claim!Init, Stage, Claimed, Confirmable

(* Where neither the function nor the way to call it changes, whether it   *)
(* is unsafe does not; the stage and the claim follow pc, kind, verdict.   *)
LEMMA SameClaim ==
  ASSUME UNCHANGED <<rule, target, fn, pc, kind, verdict>>
  PROVE  UNCHANGED <<Stage, Confirmable, Claimed>>
<1>1. (Confirmable' <=> Confirmable) /\ Stage' = Stage /\ Claimed' = Claimed
  BY SameConfirmable DEF Stage, Claimed
<1>2. Confirmable \in BOOLEAN /\ Confirmable' \in BOOLEAN
  BY DEF Confirmable
<1> QED BY <1>1, <1>2

(* When the test is over, the oracle's word is right about fn as it is.    *)
LEMMA JudgementTells ==
  ASSUME IInv, pc \in {"repro", "verify"}, step = "over"
  PROVE  /\ Judgement \in {None, Confirmed, NotReproduced, Uncertain}
         /\ Judgement = Confirmed => Confirmable
         /\ Judgement # None /\ Confirmable => Judgement = Confirmed
<1>0. rule \in Rules
  BY DEF IInv, PathInv
<1>1. CASE saved = None
  BY <1>1, NotAVerdict DEF Judgement, Verdicts
<1>2. CASE saved # None
  <2>1. Sound(saved) /\ Complete(saved, Len(Probes) + 1)
    BY <1>2 DEF IInv, TestInv
  <2>2. Judgement = Confirmed <=> Confirmable
    BY <1>0, <1>2, <2>1, TraceTells DEF Judgement
  <2>3. Judgement \in {Confirmed, NotReproduced, Uncertain}
    BY <1>2 DEF Judgement, Evaluate, EvaluateSqli, EvaluateCmdi, EvaluatePathTraversal
  <2> QED BY <2>2, <2>3
<1> QED BY <1>1, <1>2

(* Every step of the path is one step of Claims, or none.                  *)
LEMMA ClaimStep ==
  ASSUME ClaimInv, [Next]_vars
  PROVE  [Claim!Next]_(Claim!vars)
<1> USE DEF Claim!vars
<1>a. Confirmable \in BOOLEAN /\ Confirmable' \in BOOLEAN
  BY DEF Confirmable
<1>b. pc # "over" => kind = None
  BY DEF ClaimInv, PatchedInv
<1>c. pc \in {"load", "analyze", "generate", "repro"} => verdict = None
  BY DEF ClaimInv, IInv, PathInv
<1>1. CASE RunTest \/ UNCHANGED vars
  <2>1. UNCHANGED <<rule, target, fn, pc, kind, verdict>>
    BY <1>1 DEF RunTest, HarnessStep, CallTarget, ExecuteStatement, ReturnFromTarget, DumpTrace,
                pathVars, vars, harnessVars
  <2> QED BY <2>1, SameClaim
<1>2. CASE Load \/ Analyze \/ Generate
  <2>1. /\ pc \in {"load", "analyze", "generate"} /\ UNCHANGED <<kind, verdict>>
        /\ kind = None /\ verdict = None
        /\ \/ pc' \in {"analyze", "generate", "repro"}
           \/ pc' = "over" /\ UNCHANGED <<rule, target, fn>>
    BY <1>2, <1>b, <1>c DEF Load, Analyze, Generate, harnessVars
  <2>2. CASE pc' # "over"
    <3>1. Stage = "open" /\ Stage' = "open" /\ Claimed' = Claimed
      BY <2>1, <2>2 DEF Stage, Claimed
    <3> QED BY <1>a, <3>1 DEF Claim!Next, Claim!Locate
  <2>3. CASE pc' = "over"
    <3>1. Stage = "open" /\ Stage' = "closed" /\ Claimed' = None
      BY <2>1, <2>3 DEF Stage, Claimed
    <3>2. Confirmable' = Confirmable
      BY <1>a, <2>1, <2>3, SameConfirmable
    <3> QED BY <3>1, <3>2 DEF Claim!Next, Claim!Dismiss
  <2> QED BY <2>2, <2>3
<1>3. CASE Judge
  <2>1. /\ pc = "repro" /\ kind = None /\ kind' = None /\ UNCHANGED <<rule, target, fn>>
        /\ verdict' = Judgement /\ pc' = IF verdict' = Confirmed THEN "ask" ELSE "over"
    BY <1>3, <1>b DEF Judge, harnessVars
  <2>2. Confirmable' = Confirmable
    BY <1>a, <2>1, SameConfirmable
  <2>3. Stage = "open" /\ Claimed = None
    BY <2>1, <1>c DEF Stage, Claimed
  <2>4. CASE verdict' = Confirmed
    <3>1. Stage' = "confirmed" /\ Claimed' = "confirmed"
      BY <2>1, <2>4 DEF Stage, Claimed, Confirmed
    <3>2. Confirmable
      BY <1>3, <2>1, <2>4, JudgementTells DEF Judge, ClaimInv
    <3> QED BY <2>2, <2>3, <3>1, <3>2 DEF Claim!Next, Claim!Confirm
  <2>5. CASE verdict' # Confirmed
    <3>1. Stage' = "closed" /\ Claimed' = verdict'
      BY <2>1, <2>5 DEF Stage, Claimed
    <3>2. verdict' \in {None, "uncertain"} \cup (IF Confirmable THEN {} ELSE {"not_reproduced"})
      BY <1>3, <2>1, <2>5, JudgementTells
         DEF Judge, ClaimInv, Confirmed, NotReproduced, Uncertain
    <3> QED BY <2>2, <2>3, <3>1, <3>2 DEF Claim!Next, Claim!Dismiss
  <2> QED BY <2>4, <2>5
<1>4. ASSUME NEW file \in Files, NEW a \in Answers[rule],
             ModelError(file, a) \/ RefusePatch(file, a)
      PROVE  Claim!Next
  <2>1. /\ pc = "ask" /\ pc' = "over" /\ kind = None /\ kind' \in {None, Failed}
        /\ verdict = Confirmed /\ UNCHANGED <<rule, target, fn, verdict>>
    BY <1>4, <1>b DEF ModelError, RefusePatch, AskModel, harnessVars, ClaimInv, PatchedInv
  <2>2. Confirmable' = Confirmable
    BY <1>a, <2>1, SameConfirmable
  <2>3. /\ Stage = "confirmed" /\ Stage' = "closed"
        /\ Claimed' \in {"confirmed", "failed"}
    BY <2>1 DEF Stage, Claimed, Confirmed, Failed
  <2> QED BY <2>2, <2>3 DEF Claim!Next, Claim!GiveUp
<1>5. ASSUME NEW file \in Files, NEW a \in Answers[rule], ApplyPatch(file, a)
      PROVE  Claim!Next
  <2>1. /\ pc = "ask" /\ pc' = "start" /\ kind = None /\ kind' = None
        /\ verdict = Confirmed
    BY <1>5, <1>b DEF ApplyPatch, AskModel, ClaimInv, PatchedInv
  <2>2. Stage = "confirmed" /\ Stage' = "patched" /\ Claimed' = Claimed
    BY <2>1 DEF Stage, Claimed
  <2> QED BY <1>a, <2>2 DEF Claim!Next, Claim!Patch
<1>6. CASE StartVerification
  <2>1. /\ pc = "start" /\ pc' = "verify" /\ kind = None /\ kind' = None
        /\ UNCHANGED <<rule, target, fn>>
    BY <1>6, <1>b DEF StartVerification
  <2>2. Stage' = Stage /\ Claimed' = Claimed /\ Confirmable' = Confirmable
    BY <1>a, <2>1, SameConfirmable DEF Stage, Claimed
  <2> QED BY <2>2
<1>7. CASE JudgePatch
  <2>1. /\ pc = "verify" /\ pc' = "over" /\ UNCHANGED <<rule, target, fn>>
        /\ verdict' = Judgement
        /\ kind' = IF verdict' = None THEN NeedsReview ELSE KindOf(verdict')
    BY <1>7 DEF JudgePatch, harnessVars
  <2>2. Confirmable' = Confirmable
    BY <1>a, <2>1, SameConfirmable
  <2>3. kind' \in {"needs_manual_review", IF Confirmable THEN "failed" ELSE "validated"}
    BY <1>7, <2>1, JudgementTells DEF JudgePatch, ClaimInv, KindOf, NeedsReview, Validated, Failed,
       Confirmed, NotReproduced, Uncertain
  <2>4. Stage = "patched" /\ Stage' = "closed" /\ Claimed' = kind'
    BY <2>1, <2>3, NotAVerdict DEF Stage, Claimed, PatchKinds, NeedsReview, Validated, Failed
  <2> QED BY <2>2, <2>3, <2>4 DEF Claim!Next, Claim!Settle
<1> QED BY <1>1, <1>2, <1>3, <1>4, <1>5, <1>6, <1>7 DEF Next

(* For every module, signature, file and answer: what secfix says of a     *)
(* finding, and of its patch, is so.                                       *)
THEOREM ClaimsAreSo == Spec => ImplementsClaims
<1>1. Init => ClaimInv
  BY InitIInv, InitPatchedInv DEF ClaimInv, Init, PathSteps
<1>2. ClaimInv /\ [Next]_vars => ClaimInv'
  BY StepIInv, StepPatchedInv, PathStepsStep DEF ClaimInv
<1>3. Init => Claim!Init
  BY InitClaim
<1>4. ClaimInv /\ [Next]_vars => [Claim!Next]_(Claim!vars)
  BY ClaimStep
<1> QED
  BY <1>1, <1>2, <1>3, <1>4, PTL DEF Spec, ImplementsClaims, Claim!Spec
-----------------------------------------------------------------------------
(* What repo.py finds out about a function.                                *)

(* The first element of a nonempty selection is one of the selection.      *)
LEMMA FirstIsIn ==
  ASSUME NEW seq, DOMAIN seq \subseteq Nat,
         NEW S \in SUBSET {seq[k] : k \in DOMAIN seq}, S # {}
  PROVE  FirstIn(seq, S) \in S
<1> DEFINE D == {k \in DOMAIN seq : seq[k] \in S}
<1>1. D \in SUBSET Nat /\ D # {}
  OBVIOUS
<1>2. PICK k \in D : \A j \in D : k <= j
  BY <1>1, LeastOf
<1>3. /\ k \in DOMAIN seq
      /\ seq[k] \in S /\ \A j \in DOMAIN seq : seq[j] \in S => k <= j
  BY <1>2
<1> QED BY <1>3 DEF FirstIn

(* With a parameter to choose from, the tainted one is one of them.        *)
LEMMA TaintedIsParam ==
  ASSUME NEW d \in Definition, NEW lines, Args(d) # {}
  PROVE  GuessTaintedParam(d, lines).name \in {p.name : p \in Args(d)}
<1> DEFINE referenced == {p \in Args(d) : p.name \in NamesIn(d, lines.first..lines.last)}
           text       == {p \in Args(d) : p.ann \in {"none", "str"}}
<1>1. /\ DOMAIN d.params \subseteq Nat
      /\ Args(d) \subseteq {d.params[k] : k \in DOMAIN d.params}
  BY SignatureAssumption DEF Args
<1>2. \A S \in SUBSET Args(d) : S # {} => FirstIn(d.params, S) \in Args(d)
  <2> SUFFICES ASSUME NEW S \in SUBSET Args(d), S # {}
               PROVE  FirstIn(d.params, S) \in Args(d)
    OBVIOUS
  <2>1. S \in SUBSET {d.params[k] : k \in DOMAIN d.params}
    BY <1>1
  <2> QED BY <1>1, <2>1, FirstIsIn
<1>3. Cardinality({}) = 0
  BY FS_EmptySet
<1>4. CASE Cardinality(referenced) = 1
  <2>1. referenced # {} /\ referenced \in SUBSET Args(d)
    BY <1>3, <1>4
  <2>2. GuessTaintedParam(d, lines).name = FirstIn(d.params, referenced).name
    BY <1>4 DEF GuessTaintedParam
  <2> QED BY <1>2, <2>1, <2>2
<1>5. CASE Cardinality(referenced) # 1
  <2> DEFINE S == IF text # {} THEN text ELSE Args(d)
  <2>1. S # {} /\ S \in SUBSET Args(d)
    OBVIOUS
  <2>2. GuessTaintedParam(d, lines).name = FirstIn(d.params, S).name
    BY <1>5 DEF GuessTaintedParam
  <2> HIDE DEF S
  <2> QED BY <1>2, <2>1, <2>2
<1> QED BY <1>4, <1>5

(* The connection parameter, if there is one, is a parameter of the        *)
(* function and has one of the names for connections.                      *)
LEMMA ConnectionIsParam ==
  ASSUME NEW d \in Definition, GuessDbAccess(d).kind = "param"
  PROVE  /\ GuessDbAccess(d).name \in {p.name : p \in Args(d)}
         /\ GuessDbAccess(d).name \in ConnNames
<1> DEFINE params == {p \in Args(d) : p.name \in ConnNames}
<1>1. params # {}
  BY DEF GuessDbAccess
<1>2. /\ DOMAIN d.params \subseteq Nat
      /\ params \in SUBSET {d.params[k] : k \in DOMAIN d.params}
  BY SignatureAssumption DEF Args
<1>3. FirstIn(d.params, params) \in params
  BY <1>1, <1>2, FirstIsIn
<1>4. GuessDbAccess(d).name = FirstIn(d.params, params).name
  BY <1>1 DEF GuessDbAccess
<1> QED BY <1>3, <1>4

(* The slice of the arguments keeps every parameter without a default,     *)
(* unless positional-only ones with a default precede it: those with a     *)
(* default come behind it, and are arguments themselves.                   *)
LEMMA RequiredIsKept ==
  ASSUME NEW d \in Definition, Ordinary(d),
         NEW k \in DOMAIN d.params, ~d.params[k].default
  PROVE  d.params[k] \in Required(d)
<1> DEFINE positional == {j \in DOMAIN d.params : d.params[j].kind # "kwonly"}
           args       == {j \in positional : d.params[j].kind = "plain"}
           optional   == {j \in positional : d.params[j].default}
           upTo       == {j \in args : j <= k}
           kept       == Cardinality(args) - Cardinality(optional)
<1>1. /\ Len(d.params) \in Nat /\ DOMAIN d.params = 1..Len(d.params)
      /\ \A j \in DOMAIN d.params : d.params[j].kind \in {"plain", "posonly", "kwonly"}
  BY SignatureAssumption
<1>2. \A i, j \in DOMAIN d.params :
        /\ i < j /\ d.params[j].kind # "kwonly"
        => /\ d.params[i].kind # "kwonly"
           /\ d.params[j].kind = "posonly" => d.params[i].kind = "posonly"
           /\ d.params[i].default => d.params[j].default
  BY SignatureAssumption
<1>3. d.params[k].kind = "plain"
  BY DEF Ordinary
<1>4. ASSUME NEW j \in optional PROVE j \in args /\ j > k
  <2>1. j \in DOMAIN d.params /\ d.params[j].kind # "kwonly" /\ d.params[j].default
    OBVIOUS
  <2>2. ~(j < k) /\ j # k
    BY <1>2, <1>3, <2>1
  <2>3. j > k
    BY <1>1, <2>1, <2>2
  <2>4. d.params[j].kind # "posonly"
    BY <1>2, <1>3, <2>1, <2>3
  <2> QED BY <1>1, <2>1, <2>3, <2>4
<1>5. IsFiniteSet(args)
  <2>1. IsFiniteSet(1..Len(d.params)) /\ args \in SUBSET (1..Len(d.params))
    BY <1>1, FS_Interval
  <2> QED BY <2>1, FS_Subset
<1>6. upTo \in SUBSET args /\ optional \in SUBSET args /\ k \in upTo
  BY <1>1, <1>3, <1>4
<1>7. upTo \cap optional = {}
  BY <1>1, <1>4
<1> HIDE DEF args, optional, upTo
<1>8. /\ IsFiniteSet(upTo) /\ IsFiniteSet(optional)
      /\ Cardinality(upTo) \in Nat /\ Cardinality(optional) \in Nat /\ Cardinality(args) \in Nat
  BY <1>5, <1>6, FS_Subset, FS_CardinalityType
<1>9. Cardinality(upTo) + Cardinality(optional) <= Cardinality(args)
  <2>1. Cardinality(upTo \cup optional) = Cardinality(upTo) + Cardinality(optional)
    <3>1. Cardinality(upTo \cap optional) = 0
      BY <1>7, FS_EmptySet
    <3>2. Cardinality(upTo \cup optional)
            = Cardinality(upTo) + Cardinality(optional) - Cardinality(upTo \cap optional)
      BY <1>8, FS_Union
    <3> QED BY <1>8, <3>1, <3>2
  <2>2. upTo \cup optional \in SUBSET args
    BY <1>6
  <2>3. Cardinality(upTo \cup optional) <= Cardinality(args)
    BY <1>5, <2>2, FS_Subset
  <2> QED BY <2>1, <2>3
<1>10. ~(kept < 0) /\ Cardinality(upTo) <= kept
  BY <1>8, <1>9
<1>11. k \in args
  BY <1>6
<1> QED BY <1>10, <1>11 DEF Required, args, optional, upTo

(* The call planned for an ordinary function is one that it takes.         *)
LEMMA PlannedCallBinds ==
  ASSUME Supported(defs, span), target = AnalyzeFinding(defs, span),
         defs[Innermost(defs, span)] \in Definition,
         fn = defs[Innermost(defs, span)], Ordinary(fn)
  PROVE  CallBinds
<1> DEFINE guess == GuessTaintedParam(fn, span)
           db    == GuessDbAccess(fn)
           P     == {fn.params[k] : k \in DOMAIN fn.params}
<1>1. /\ target.tainted = guess.name /\ target.db = db
      /\ target.benign = ComputeBenignDefaults(fn, guess.name, db)
  BY DEF AnalyzeFinding
<1>2. Args(fn) = {p \in P : p.kind = "plain"}
  BY DEF Args
<1>3. \A p \in P : p.default \/ (p.kind = "plain" /\ (p.name \in ConnNames => rule = "sqli"))
  BY DEF Ordinary
<1>4. guess.name \in {p.name : p \in Args(fn)}
  BY TaintedIsParam DEF Ordinary
<1>5. db.kind = "param" => db.name \in {p.name : p \in Args(fn)} /\ db.name \in ConnNames
  BY ConnectionIsParam
<1> HIDE DEF guess, db, P
<1>6. target.benign \subseteq Args(fn)
  BY <1>1 DEF ComputeBenignDefaults, Required, Args
<1>7. Keys \subseteq {p.name : p \in {q \in P : q.kind # "posonly"}}
  BY <1>1, <1>2, <1>4, <1>5, <1>6 DEF Keys, PassesConn
<1>8. \A p \in P : p.default \/ p.name \in Keys
  <2> SUFFICES ASSUME NEW p \in P, ~p.default PROVE p.name \in Keys
    OBVIOUS
  <2>1. p \in Required(fn) /\ (p.name \in ConnNames => rule = "sqli")
    BY <1>3, RequiredIsKept DEF P
  <2>2. CASE p.name = guess.name
    BY <1>1, <2>2 DEF Keys
  <2>3. CASE db.kind = "param" /\ p.name = db.name
    BY <1>1, <1>5, <2>1, <2>3 DEF Keys, PassesConn
  <2>4. CASE p.name # guess.name /\ ~(db.kind = "param" /\ p.name = db.name)
    <3>1. p \in target.benign
      BY <1>1, <2>1, <2>4 DEF ComputeBenignDefaults
    <3> QED BY <3>1 DEF Keys
  <2> QED BY <2>2, <2>3, <2>4
<1> QED BY <1>7, <1>8 DEF CallBinds, P

-----------------------------------------------------------------------------

(* The test is generated and run for what the analysis has found, and both *)
(* are about the module as the scan has seen it.                           *)
AnalysedInv ==
  pc \in {"generate", "repro"} =>
    Supported(defs, span) /\ target = AnalyzeFinding(defs, span)

LEMMA StepAnalysedInv ==
  ASSUME AnalysedInv, [Next]_vars
  PROVE  AnalysedInv'
<1>1. CASE Analyze
  BY <1>1 DEF Analyze, AnalysedInv
<1>2. CASE RunTest \/ UNCHANGED vars
  <2>1. UNCHANGED <<pc, defs, span, target>>
    BY <1>2 DEF RunTest, HarnessStep, CallTarget, ExecuteStatement, ReturnFromTarget, DumpTrace,
                pathVars, vars, harnessVars
  <2> QED BY <2>1 DEF AnalysedInv
<1>3. CASE Generate
  <2>1. pc = "generate" /\ UNCHANGED <<defs, span, target>>
    BY <1>3 DEF Generate, harnessVars
  <2> QED BY <2>1 DEF AnalysedInv
<1>4. CASE Load \/ Judge \/ StartVerification \/ JudgePatch
  <2>1. pc' \in {"over", "analyze", "ask", "verify"}
    BY <1>4 DEF Load, Judge, StartVerification, JudgePatch
  <2> QED BY <2>1 DEF AnalysedInv
<1>5. ASSUME NEW file \in Files, NEW a \in Answers[rule],
             ModelError(file, a) \/ RefusePatch(file, a) \/ ApplyPatch(file, a)
      PROVE  AnalysedInv'
  <2>1. pc' \in {"over", "start"}
    BY <1>5 DEF ModelError, RefusePatch, ApplyPatch
  <2> QED BY <2>1 DEF AnalysedInv
<1> QED BY <1>1, <1>2, <1>3, <1>4, <1>5 DEF Next

(* For every module and span: a function of which Python requires ordinary *)
(* parameters only is really called by its test.                           *)
THEOREM OrdinaryFunctionsAreCalled == Spec => []OrdinaryCallBinds
<1>1. Init => AnalysedInv
  BY DEF Init, AnalysedInv
<1>2. AnalysedInv /\ [Next]_vars => AnalysedInv'
  BY StepAnalysedInv
<1>3. IInv /\ AnalysedInv => OrdinaryCallBinds
  <2> SUFFICES ASSUME IInv, AnalysedInv, pc = "repro",
                      fn = defs[Innermost(defs, span)], Ordinary(fn)
               PROVE  CallBinds
    BY DEF OrdinaryCallBinds
  <2>1. Supported(defs, span) /\ target = AnalyzeFinding(defs, span)
    BY DEF AnalysedInv
  <2>2. defs[Innermost(defs, span)] \in Definition
    <3>1. defs \in Seq(Definition) /\ Enclosing(defs, span) # {}
      BY <2>1 DEF IInv, PathInv, Supported
    <3> QED BY <3>1, InnermostIsDefined
  <2> QED BY <2>1, <2>2, PlannedCallBinds
<1> QED BY <1>1, <1>2, <1>3, TracesAreComplete, PTL DEF Spec
=============================================================================
