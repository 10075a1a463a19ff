------------------------- MODULE FindingPatchProofs -------------------------
(***************************************************************************)
(* What a validated patch is, for every module, answer and file: the       *)
(* function that was confirmed is confirmed again unless the patch has     *)
(* changed what its name stands for, and an applied patch replaces its     *)
(* lines and no other.                                                     *)
(***************************************************************************)
EXTENDS FindingPathProofs, FiniteSetTheorems, SequenceTheorems, WellFoundedInduction

(* What is noted of statements that are offensive.                         *)
LEMMA OffensiveIsNoted ==
  ASSUME rule \in Rules, NEW x \in Stmt, NEW p \in AllProbes, Offensive(x, p)
  PROVE  \E c \in Record(x, Tainted(x.of), p, sentinel) : Offends(c)
<1>1. CASE Dangerous(x, p) /\ x.form # "list shell"
  BY <1>1, DangerIsNoted
<1>2. CASE x.form = "updir"
  <2>0. x.api \in Sinks[rule] /\ Tainted(x.of)
    BY DEF Offensive
  <2>1. x.form \in Forms[x.api]
    BY <2>0, StmtAssumption DEF Sinks, Rules, Others
  <2>2. rule # "sqli" /\ rule # "cmdi"
    BY <1>2, <2>0, <2>1, FormsAre
  <2>3. rule = "pathtraversal"
    BY <2>2 DEF Rules
  <2>4. PathOf(x, p, sentinel) = Call("dotdot", sentinel)
    BY <1>2 DEF PathOf
  <2>5. PathOf(x, p, sentinel) \in Record(x, Tainted(x.of), p, sentinel)
    BY <1>2, <2>0, <2>3 DEF Record, RecordPath
  <2> QED BY <2>3, <2>4, <2>5, WhatOffends
<1> QED BY <1>1, <1>2 DEF Offensive

LEMMA NotedIsOffensive ==
  ASSUME rule \in Rules, NEW x \in Stmt, NEW p \in AllProbes,
         NEW c \in Record(x, Tainted(x.of), p, sentinel), Offends(c)
  PROVE  Offensive(x, p)
<1>1. \/ Dangerous(x, p)
      \/ x.api \in Sinks[rule] /\ Tainted(x.of) /\ x.form = "updir"
  BY NotedIsDanger
<1>2. CASE x.form = "list shell"
  <2>1. rule = "cmdi" /\ x.api = "subprocess"
    <3>1. x.api \in Sinks[rule] /\ x.form \in Forms[x.api]
      BY <1>1, StmtAssumption DEF Dangerous, Sinks, Rules, Others
    <3>2. rule # "sqli"
      BY <1>2, <3>1, FormsAre
    <3>3. ASSUME rule = "pathtraversal" PROVE FALSE
      <4>1. x.form \in Paths
        BY <3>1, <3>3, FormsAre
      <4> QED BY <1>2, <4>1 DEF Paths
    <3>4. x.api # "system"
      BY <1>2, <3>1, FormsAre
    <3> QED BY <3>1, <3>2, <3>3, <3>4, FormsAre DEF Rules
  <2>2. c = Call("bound", sentinel) \/ c = Call("other", sentinel)
    BY <1>2, <2>1 DEF Record, RecordCommand, IsStr
  <2> QED BY <2>2, WhatOffends
<1>3. CASE x.form # "list shell"
  BY <1>1, <1>3 DEF Offensive, Dangerous
<1> QED BY <1>2, <1>3

(* A whole trace tells whether fn is confirmable.                          *)
LEMMA TraceTells ==
  ASSUME IInv, rule \in Rules, Sound(saved), Complete(saved, Len(Probes) + 1)
  PROVE  Evaluate(rule, saved, sentinel) = Confirmed <=> Confirmable
<1>1. ASSUME Evaluate(rule, saved, sentinel) = Confirmed PROVE Confirmable
  <2>2. PICK c \in saved : Offends(c)
    BY <1>1, WhatOraclesSay
  <2>3. PICK n \in DOMAIN Probes : \E k \in Reached(Probes[n]) : c \in Noted(k, Probes[n])
    BY <2>2 DEF Sound
  <2>4. PICK k \in Reached(Probes[n]) : c \in Noted(k, Probes[n])
    BY <2>3
  <2>5. Probes[n] \in AllProbes /\ fn.body[k] \in Stmt
    BY ProbeNames, ReachedIsStmt
  <2>6. Offensive(fn.body[k], Probes[n])
    BY <2>2, <2>4, <2>5, NotedIsOffensive DEF Noted
  <2> QED BY <2>5, <2>6 DEF Confirmable
<1>2. ASSUME Confirmable PROVE Evaluate(rule, saved, sentinel) = Confirmed
  <2>2. PICK p \in AllProbes : \E k \in Reached(p) : Offensive(fn.body[k], p)
    BY <1>2 DEF Confirmable
  <2>3. PICK k \in Reached(p) : Offensive(fn.body[k], p)
    BY <2>2
  <2>4. PICK c \in Noted(k, p) : Offends(c)
    BY <2>3, ReachedIsStmt, OffensiveIsNoted DEF Noted
  <2>5. PICK n \in DOMAIN Probes : Probes[n] = p /\ n < Len(Probes) + 1
    BY ProbeNames
  <2>6. c \in saved
    BY <2>3, <2>4, <2>5 DEF Complete
  <2> QED BY <2>4, <2>6, WhatOraclesSay
<1> QED BY <1>1, <1>2

(* A verdict tells it, too.                                                *)
LEMMA VerdictsAgree ==
  ASSUME IInv
  PROVE  /\ verdict = Confirmed => Confirmable
         /\ verdict # None /\ Confirmable => verdict = Confirmed
BY TraceTells, VerdictOnTrace, NotAVerdict DEF Verdicts

(* Only a change of the function or of the call could change that.         *)
LEMMA SameConfirmable ==
  ASSUME UNCHANGED <<rule, target, fn>>
  PROVE  /\ Confirmable' <=> Confirmable
         /\ CallBinds' <=> CallBinds
<1>1. AllProbes' = AllProbes /\ (CallBinds' <=> CallBinds)
  BY DEF AllProbes, Probes, CallBinds, Keys, PassesConn
<1>2. \A p : Reached(p)' = Reached(p)
  BY <1>1 DEF Reached, Raises, Exits, CallBinds, Keys, PassesConn, Tainted
<1>3. \A x, p : Offensive(x, p)' <=> Offensive(x, p)
  BY DEF Offensive, Dangerous, Tainted, PassesConn, Sinks
<1> QED BY <1>1, <1>2, <1>3 DEF Confirmable

-----------------------------------------------------------------------------
(* What a patch may make of the function's name.                           *)

(* There is no function to call any more, or what there was, or the        *)
(* model's, or an earlier definition that the patch has uncovered.         *)
Replaced ==
  \/ fn \in {None, Unusable}
  \/ Confirmable
  \/ fn = patched
  \/ \E j \in 1..(Innermost(defs, span) - 1) :
       fn = defs[j] /\ Named(<<patched>>, target.name) = {}

LEMMA ResolvedIsOne ==
  ASSUME NEW ds \in Seq(Definition), NEW name,
         NEW old \in Resolved(ds, name), NEW new \in Resolved(ds, name)
  PROVE  old = new
<1>0. \A k \in Named(ds, name) : k \in Nat
  BY DEF Named
<1> QED BY <1>0 DEF Resolved

LEMMA ResolvedAfter ==
  ASSUME NEW ds \in Seq(Definition), NEW name, NEW k, NEW def \in Definition \cup {None},
         NEW old \in Resolved(ds, name), NEW new \in Resolved([ds EXCEPT ![k] = def], name)
  PROVE  \/ new = None \/ new = old \/ new = def
         \/ \E j \in 1..(k - 1) : new = ds[j] /\ Named(<<def>>, name) = {}
<1> DEFINE es == [ds EXCEPT ![k] = def]
<1>0. DOMAIN ds = 1..Len(ds) /\ Len(ds) \in Nat
  OBVIOUS
<1>1. CASE k \notin DOMAIN ds
  <2>1. es = ds
    BY <1>1
  <2> QED BY <2>1, ResolvedIsOne
<1>2. CASE k \in DOMAIN ds /\ Named(es, name) = {}
  BY <1>2 DEF Resolved
<1>3. CASE k \in DOMAIN ds /\ Named(es, name) # {}
  <2>1. PICK m \in Named(es, name) : new = es[m] /\ \A j \in Named(es, name) : j <= m
    BY <1>3 DEF Resolved
  <2>2. /\ DOMAIN es = DOMAIN ds /\ es[k] = def
        /\ \A j \in DOMAIN ds : j # k => es[j] = ds[j]
        /\ \A j \in DOMAIN ds : ds[j] # None
    BY <1>3, DefinitionAssumption
  <2> HIDE DEF es
  <2>3. m \in DOMAIN ds /\ m \in Nat /\ k \in Nat
    BY <1>0, <1>3, <2>1, <2>2 DEF Named
  <2>4. \A j \in DOMAIN ds : j # k => (j \in Named(es, name) <=> j \in Named(ds, name))
    BY <2>2 DEF Named
  <2>5. CASE m = k
    BY <2>1, <2>2, <2>5
  <2>6. CASE m < k
    <3>1. k \notin Named(es, name)
      BY <2>1, <2>3, <2>6
    <3>2. def = None \/ def.name # name \/ ~AtModuleLevel(def)
      BY <1>3, <2>2, <3>1 DEF Named
    <3>3. Named(<<def>>, name) = {}
      BY <3>2 DEF Named
    <3>4. m \in 1..(k - 1) /\ new = ds[m]
      BY <1>0, <2>1, <2>2, <2>3, <2>6
    <3> QED BY <3>3, <3>4
  <2>7. CASE k < m
    <3>1. m \in Named(ds, name)
      BY <2>1, <2>3, <2>4, <2>7
    <3>2. \A j \in Named(ds, name) : j <= m
      <4> SUFFICES ASSUME NEW j \in Named(ds, name) PROVE j <= m
        OBVIOUS
      <4>1. j \in DOMAIN ds
        BY DEF Named
      <4> QED BY <2>1, <2>3, <2>4, <2>7, <4>1
    <3>3. Resolved(ds, name) = {ds[i] : i \in {n \in Named(ds, name) : \A j \in Named(ds, name) : j <= n}}
      BY <3>1 DEF Resolved
    <3>4. \A n \in Named(ds, name) : (\A j \in Named(ds, name) : j <= n) => n = m
      BY <1>0, <2>3, <3>1, <3>2 DEF Named
    <3>5. old = ds[m]
      BY <3>1, <3>2, <3>3, <3>4
    <3> QED BY <2>1, <2>2, <2>3, <2>7, <3>5
  <2> QED BY <2>3, <2>5, <2>6, <2>7
<1> QED BY <1>1, <1>2, <1>3

LEMMA SameReplaced ==
  ASSUME UNCHANGED <<rule, target, fn, patched, defs, span>>
  PROVE  Replaced' <=> Replaced
<1>1. Confirmable' <=> Confirmable
  BY SameConfirmable
<1>2. Innermost(defs, span)' = Innermost(defs, span)
  OBVIOUS
<1> QED BY <1>1, <1>2 DEF Replaced

(* Between the verdicts: what fn is before the patch and after it.         *)
PatchedInv ==
  /\ pc \in {"repro", "ask"} => fn \in Resolved(defs, target.name)
  /\ pc = "ask" => verdict = Confirmed
  /\ pc \in {"start", "verify"} => Replaced
  /\ pc # "over" => kind = None
  /\ kind = Validated => verdict = NotReproduced /\ Replaced

(* The definition the patch leaves under the function's name.              *)
LEMMA PatchReplaces ==
  ASSUME IInv, PatchedInv, NEW file \in Files, NEW a \in Answers[rule], ApplyPatch(file, a)
  PROVE  Replaced'
<1> DEFINE k    == Innermost(defs, span)
           name == target.name
           def  == IF Code(a) = <<>> THEN None ELSE a.def
<1>0. /\ UNCHANGED <<rule, target, defs, span>> /\ patched' = def
      /\ fn' \in Redefined(file, a) /\ pc = "ask"
  BY DEF ApplyPatch, AskModel
<1>1. /\ fn \in Resolved(defs, name) /\ Confirmable
      /\ defs \in Seq(Definition) /\ rule \in Rules
  BY <1>0, VerdictsAgree DEF PatchedInv, IInv, PathInv
<1>2. def \in Definition \cup {None, Unusable}
  BY <1>1, DefinitionAssumption
<1>3. fn' = fn => Replaced'
  <2> SUFFICES ASSUME fn' = fn PROVE Replaced'
    OBVIOUS
  <2>1. Confirmable'
    BY <1>0, <1>1, SameConfirmable
  <2> QED BY <2>1 DEF Replaced
<1>4. fn' = None \/ fn' = Unusable \/ fn' = def => Replaced'
  BY <1>0 DEF Replaced
<1>5. k' = k /\ name' = name
  BY <1>0
<1>6. CASE InFunction(file.text, target.lines) # target.lines.first..target.lines.last
  <2>1. fn' \in {Unusable, def} \cup Resolved(defs, name)
    BY <1>0, <1>6 DEF Redefined
  <2>2. \A x, y \in Resolved(defs, name) : x = y
    BY <1>1, ResolvedIsOne
  <2> QED BY <1>1, <1>3, <1>4, <2>1, <2>2
<1>7. CASE InFunction(file.text, target.lines) = target.lines.first..target.lines.last
           /\ def = Unusable
  BY <1>0, <1>4, <1>7 DEF Redefined
<1>8. CASE InFunction(file.text, target.lines) = target.lines.first..target.lines.last
           /\ def # Unusable
  <2>1. fn' \in Resolved([defs EXCEPT ![k] = def], name)
    BY <1>0, <1>8 DEF Redefined
  <2>2. def \in Definition \cup {None}
    BY <1>2, <1>8
  <2> HIDE DEF k, name, def
  <2>3. \/ fn' = None \/ fn' = fn \/ fn' = def
        \/ \E j \in 1..(k - 1) : fn' = defs[j] /\ Named(<<def>>, name) = {}
    BY <1>1, <2>1, <2>2, ResolvedAfter
  <2>4. ASSUME NEW j \in 1..(k - 1), fn' = defs[j], Named(<<def>>, name) = {}
        PROVE  Replaced'
    BY <1>0, <1>5, <2>4 DEF Replaced, k, name
  <2> QED BY <1>3, <1>4, <2>3, <2>4
<1> QED BY <1>6, <1>7, <1>8

LEMMA StepPatchedInv ==
  ASSUME IInv, PatchedInv, [Next]_vars
  PROVE  PatchedInv'
<1>0. Validated # None /\ \A v : KindOf(v) = Validated => v = NotReproduced
  BY NotAVerdict DEF KindOf, PatchKinds, Validated, NeedsReview, Failed
<1>1. CASE RunTest
  <2>1. UNCHANGED <<rule, target, fn, patched, defs, span, pc, verdict, kind>>
    BY <1>1 DEF RunTest, HarnessStep, CallTarget, ExecuteStatement, ReturnFromTarget, DumpTrace,
                pathVars
  <2> QED BY <2>1, SameReplaced DEF PatchedInv
<1>2. CASE Load \/ Analyze
  <2>1. UNCHANGED <<kind, verdict>> /\ kind = None /\ pc' \in {"over", "analyze", "generate"}
    BY <1>2 DEF Load, Analyze, PatchedInv
  <2> QED BY <1>0, <2>1 DEF PatchedInv
<1>3. CASE Generate
  <2>1. /\ UNCHANGED <<kind, verdict, target, defs>> /\ kind = None
        /\ pc' = "over" \/ (pc' = "repro" /\ fn' \in Resolved(defs, target.name))
    BY <1>3 DEF Generate, PatchedInv, harnessVars
  <2> QED BY <1>0, <2>1 DEF PatchedInv
<1>4. CASE Judge
  <2>1. /\ UNCHANGED <<harnessVars, defs, kind>> /\ pc = "repro" /\ kind = None
        /\ pc' = "over" \/ (pc' = "ask" /\ verdict' = Confirmed)
    BY <1>4 DEF Judge, PatchedInv
  <2> QED BY <1>0, <2>1 DEF PatchedInv, harnessVars
<1>5. ASSUME NEW file \in Files, NEW a \in Answers[rule],
             ModelError(file, a) \/ RefusePatch(file, a)
      PROVE  PatchedInv'
  <2>1. pc' = "over" /\ kind' \in {None, Failed}
    BY <1>5 DEF ModelError, RefusePatch, AskModel, PatchedInv
  <2>2. Failed # Validated
    BY DEF Failed, Validated
  <2> QED BY <1>0, <2>1, <2>2 DEF PatchedInv
<1>6. ASSUME NEW file \in Files, NEW a \in Answers[rule], ApplyPatch(file, a)
      PROVE  PatchedInv'
  <2>1. pc' = "start" /\ kind' = kind /\ kind = None
    BY <1>6 DEF ApplyPatch, AskModel, PatchedInv
  <2> QED BY <1>0, <1>6, <2>1, PatchReplaces DEF PatchedInv
<1>7. CASE StartVerification
  <2>1. /\ pc = "start" /\ pc' = "verify" /\ kind' = kind /\ kind = None /\ Replaced
        /\ UNCHANGED <<rule, target, fn, patched, defs, span>>
    BY <1>7 DEF StartVerification, PatchedInv
  <2> QED BY <1>0, <2>1, SameReplaced DEF PatchedInv
<1>8. CASE JudgePatch
  <2>1. /\ pc = "verify" /\ pc' = "over" /\ Replaced
        /\ UNCHANGED <<rule, target, fn, patched, defs, span>>
        /\ kind' = NeedsReview \/ kind' = KindOf(verdict')
    BY <1>8 DEF JudgePatch, PatchedInv, harnessVars
  <2>2. kind' = Validated => verdict' = NotReproduced
    BY <1>0, <2>1 DEF NeedsReview, Validated
  <2> QED BY <2>1, <2>2, SameReplaced DEF PatchedInv
<1>9. CASE UNCHANGED vars
  <2>1. UNCHANGED <<rule, target, fn, patched, defs, span, pc, verdict, kind>>
    BY <1>9 DEF vars, harnessVars, pathVars
  <2> QED BY <2>1, SameReplaced DEF PatchedInv
<1> QED BY <1>1, <1>2, <1>3, <1>4, <1>5, <1>6, <1>7, <1>8, <1>9 DEF Next

LEMMA InitPatchedInv == Init => PatchedInv
  BY NotAVerdict DEF Init, PatchedInv, PatchKinds

(* For every module, signature, file and answer: what is called validated  *)
(* is the model's own definition, or an earlier one that it has uncovered, *)
(* called with the arguments planned before the patch.                     *)
THEOREM ValidatedIsTheAnswer == Spec => []ValidatedIsPatched
<1>1. IInv /\ PatchedInv => ValidatedIsPatched
  <2> SUFFICES ASSUME IInv, PatchedInv, kind = Validated PROVE ValidatedIsPatched
    BY DEF ValidatedIsPatched
  <2>1. verdict = NotReproduced /\ Replaced
    BY DEF PatchedInv
  <2>2. ~Confirmable
    BY <2>1, VerdictsAgree, NotAVerdict DEF Verdicts, Confirmed, NotReproduced
  <2>3. fn \notin {None, Unusable} /\ CallBinds
    BY <2>1, UnboundIsUncertain, NotAVerdict DEF Verdicts, NotReproduced, Uncertain
  <2> QED BY <2>1, <2>2, <2>3 DEF Replaced, ValidatedIsPatched
<1>2. Init => PatchedInv
  BY InitPatchedInv
<1>3. IInv /\ PatchedInv /\ [Next]_vars => PatchedInv'
  BY StepPatchedInv
<1> QED BY <1>1, <1>2, <1>3, TracesAreComplete, PTL DEF Spec

-----------------------------------------------------------------------------
(* The lines a patch replaces.                                             *)

LEMMA Interval ==
  ASSUME NEW m \in Nat \ {0}, NEW n \in Nat, m <= n + 1
  PROVE  IsFiniteSet(m..n) /\ Cardinality(m..n) = n - m + 1
<1>1. /\ IsFiniteSet(m..n)
      /\ Cardinality(m..n) = IF m > n THEN 0 ELSE n - m + 1
  <2>1. m \in Int /\ n \in Int
    OBVIOUS
  <2> QED BY <2>1, FS_Interval
<1>2. CASE m > n
  <2>1. n - m + 1 = 0
    BY <1>2
  <2> QED BY <1>1, <1>2, <2>1
<1>3. CASE ~(m > n)
  BY <1>1, <1>3
<1> QED BY <1>2, <1>3

LEMMA UpTo ==
  ASSUME NEW n \in Nat
  PROVE  IsFiniteSet(1..n) /\ Cardinality(1..n) = n
<1>1. 1 \in Nat \ {0} /\ 1 <= n + 1 /\ n - 1 + 1 = n
  OBVIOUS
<1> QED BY <1>1, Interval

(* Up to the function's end ast and str.splitlines count alike, ...        *)
LEMMA LinesAgree ==
  ASSUME NEW text, IsText(text), NEW lines,
         lines.first \in Nat \ {0}, lines.last \in Nat, InBounds(text, lines),
         \A k \in DOMAIN text : AstLine(text, k) <= lines.last => text[k].end # "ff"
  PROVE  InFunction(text, lines) = lines.first..lines.last
<1> DEFINE ended(k) == {j \in 1..(k - 1) : text[j].end = "nl"}
<1>0. /\ Len(text) \in Nat /\ DOMAIN text = 1..Len(text)
      /\ \A j \in DOMAIN text : text[j].end \in {"nl", "none", "ff"}
      /\ \A j \in DOMAIN text : text[j].end = "none" => j = Len(text)
      /\ lines.first <= lines.last /\ lines.last <= Len(text)
  <2>1. Len(text) \in Nat /\ DOMAIN text = 1..Len(text) /\ \A j \in DOMAIN text : text[j] \in TextLine
    BY DEF IsText
  <2>2. \A x \in TextLine : x.end \in {"nl", "none", "ff"}
    BY DEF TextLine
  <2>0. Len(text) \in Nat
    BY <2>1
  <2>3. \A j \in 1..Len(text) : j \in 1..(Len(text) - 1) \/ j = Len(text)
    BY <2>0
  <2>4. \A j \in DOMAIN text : text[j].end = "none" => j = Len(text)
    BY <2>1, <2>3 DEF IsText
  <2> QED BY <2>1, <2>2, <2>4 DEF InBounds
<1>1. ASSUME NEW k \in DOMAIN text
      PROVE  AstLine(text, k) \in Nat /\ AstLine(text, k) <= k /\ IsFiniteSet(ended(k))
  <2>0. k \in Nat /\ k - 1 \in Nat
    BY <1>0
  <2>1. IsFiniteSet(1..(k - 1)) /\ Cardinality(1..(k - 1)) = k - 1
    BY <2>0, UpTo
  <2>2. ended(k) \in SUBSET (1..(k - 1))
    OBVIOUS
  <2>3. AstLine(text, k) = 1 + Cardinality(ended(k))
    BY DEF AstLine
  <2> HIDE DEF ended
  <2>4. IsFiniteSet(ended(k)) /\ Cardinality(ended(k)) <= k - 1
    BY <2>1, <2>2, FS_Subset
  <2>5. Cardinality(ended(k)) \in Nat
    BY <2>4, FS_CardinalityType
  <2> QED BY <2>0, <2>3, <2>4, <2>5
<1>2. \A j \in 1..lines.last : j < Len(text) => text[j].end = "nl"
  <2> SUFFICES ASSUME NEW j \in 1..lines.last, j < Len(text) PROVE text[j].end = "nl"
    OBVIOUS
  <2>1. j \in DOMAIN text
    BY <1>0
  <2>2. AstLine(text, j) \in Nat /\ AstLine(text, j) <= j
    BY <1>1, <2>1
  <2>3. AstLine(text, j) <= lines.last
    BY <2>2
  <2> QED BY <1>0, <2>1, <2>3
<1>3. ASSUME NEW k \in DOMAIN text, k <= lines.last
      PROVE  AstLine(text, k) = k
  <2>0. k \in Nat /\ k - 1 \in Nat
    BY <1>0
  <2>1. ended(k) = 1..(k - 1)
    <3>1. \A j \in 1..(k - 1) : j \in 1..lines.last /\ j < Len(text)
      BY <1>0, <1>3
    <3> QED BY <1>2, <3>1
  <2>2. Cardinality(1..(k - 1)) = k - 1
    BY <2>0, UpTo
  <2> HIDE DEF ended
  <2>3. AstLine(text, k) = 1 + Cardinality(ended(k))
    BY DEF AstLine, ended
  <2> QED BY <1>0, <2>1, <2>2, <2>3
<1>4. ASSUME NEW k \in DOMAIN text, lines.last < k
      PROVE  AstLine(text, k) > lines.last
  <2>1. 1..lines.last \in SUBSET ended(k)
    <3>1. \A j \in 1..lines.last : j \in 1..(k - 1) /\ j < Len(text)
      BY <1>0, <1>4
    <3> QED BY <1>2, <3>1
  <2>2. Cardinality(1..lines.last) = lines.last
    BY UpTo
  <2>3. Cardinality(1..lines.last) <= Cardinality(ended(k)) /\ Cardinality(ended(k)) \in Nat
    BY <1>1, <2>1, FS_Subset, FS_CardinalityType
  <2> HIDE DEF ended
  <2>4. AstLine(text, k) = 1 + Cardinality(ended(k))
    BY DEF AstLine, ended
  <2> QED BY <1>0, <2>2, <2>3, <2>4
<1>5. \A k \in DOMAIN text :
        AstLine(text, k) \in lines.first..lines.last <=> k \in lines.first..lines.last
  <2> TAKE k \in DOMAIN text
  <2>1. CASE k <= lines.last
    BY <1>3, <2>1
  <2>2. CASE lines.last < k
    BY <1>0, <1>1, <1>4, <2>2
  <2> QED BY <1>0, <2>1, <2>2
<1>6. lines.first..lines.last \subseteq DOMAIN text
  BY <1>0
<1> QED BY <1>5, <1>6 DEF InFunction

LEMMA ReplacementIsText ==
  ASSUME NEW a, a.lines \in Seq(TextLine)
  PROVE  Replacement(a) \in Seq(TextLine)
<1>1. Blank \in TextLine
  BY DEF Blank, TextLine
<1>2. Code(a) \in Seq(TextLine)
  BY DEF Code
<1>3. \A k \in DOMAIN Code(a) : [Code(a)[k] EXCEPT !.end = "nl"] \in TextLine
  <2>1. \A x \in TextLine : [x EXCEPT !.end = "nl"] \in TextLine
    BY DEF TextLine
  <2> QED BY <1>2, <2>1
<1>4. CASE Code(a) = <<>>
  BY <1>1, <1>4 DEF Replacement
<1>5. CASE Code(a) # <<>>
  <2>1. DOMAIN Code(a) = 1..Len(Code(a)) /\ Len(Code(a)) \in Nat
    BY <1>2
  <2>2. [k \in 1..Len(Code(a)) |-> [Code(a)[k] EXCEPT !.end = "nl"]] \in Seq(TextLine)
    BY <1>3, <2>1, IsASeq
  <2> QED BY <1>5, <2>1, <2>2 DEF Replacement
<1> QED BY <1>4, <1>5

LEMMA ShiftedIndex ==
  ASSUME NEW m \in Nat \ {0}, NEW n \in Nat, NEW x \in Nat, NEW y \in Nat, NEW k \in Nat,
         n + 1 <= k, k <= x, m <= n
  PROVE  /\ k + (x - (n - m + 1) + y) - x \in 1..((m - 1 + y) + (x - n))
         /\ ~(k + (x - (n - m + 1) + y) - x <= m - 1 + y)
         /\ k + (x - (n - m + 1) + y) - x - (m - 1 + y) = k - n
<1>1. k + (x - (n - m + 1) + y) - x = k - n + m - 1 + y
  OBVIOUS
<1> QED BY <1>1

(* r in place of the m-th to the n-th element of s.                        *)
InPlace(s, m, n, r) == SubSeq(s, 1, m - 1) \o r \o SubSeq(s, n + 1, Len(s))

(* t has what s has before its m-th element and after its n-th.            *)
KeptAround(s, t, m, n) ==
  /\ \A k \in 1..(m - 1) : t[k] = s[k]
  /\ \A k \in (n + 1)..Len(s) : t[k + Len(t) - Len(s)] = s[k]

(* t has what s has outside own.                                           *)
KeptOutside(s, t, own) ==
  \A k \in DOMAIN s \ own :
    t[IF \A j \in own : k < j THEN k ELSE k + Len(t) - Len(s)] = s[k]

(* A splice leaves what is before and after it in place.                   *)
LEMMA SpliceAt ==
  ASSUME NEW S, NEW text \in Seq(S), NEW r \in Seq(S), NEW m \in Nat \ {0}, NEW n \in Nat,
         m <= n, n <= Len(text)
  PROVE  /\ Len(InPlace(text, m, n, r)) = Len(text) - (n - m + 1) + Len(r)
         /\ KeptAround(text, InPlace(text, m, n, r), m, n)
<1> DEFINE new == InPlace(text, m, n, r)
           b == SubSeq(text, 1, m - 1)
           e == SubSeq(text, n + 1, Len(text))
<1>0. Len(text) \in Nat /\ Len(r) \in Nat
  OBVIOUS
<1>1. /\ b \in Seq(S) /\ Len(b) = m - 1
      /\ \A i \in 1..(m - 1) : b[i] = text[i]
  <2>1. 1 \in 1..(Len(text) + 1) /\ m - 1 \in 1 - 1..Len(text)
    BY <1>0
  <2>2. \A i \in 1..(m - 1) : 1 + i - 1 = i
    BY <1>0
  <2>3. /\ b \in Seq(S) /\ Len(b) = IF 1 <= m - 1 THEN m - 1 - 1 + 1 ELSE 0
        /\ \A i \in 1..(m - 1 - 1 + 1) : b[i] = text[1 + i - 1]
    BY <2>1, SubSeqProperties
  <2> HIDE DEF b
  <2> QED BY <2>2, <2>3
<1>2. /\ e \in Seq(S) /\ Len(e) = Len(text) - n
      /\ \A i \in 1..(Len(text) - n) : e[i] = text[n + i]
  <2>1. n + 1 \in 1..(Len(text) + 1) /\ Len(text) \in (n + 1) - 1..Len(text)
    BY <1>0
  <2>2. \A i \in 1..(Len(text) - n) : (n + 1) + i - 1 = n + i
    BY <1>0
  <2>3. /\ e \in Seq(S)
        /\ Len(e) = IF n + 1 <= Len(text) THEN Len(text) - (n + 1) + 1 ELSE 0
        /\ \A i \in 1..(Len(text) - (n + 1) + 1) : e[i] = text[(n + 1) + i - 1]
    BY <2>1, SubSeqProperties
  <2>4. Len(text) - (n + 1) + 1 = Len(text) - n
    BY <1>0
  <2>5. IF n + 1 <= Len(text) THEN TRUE ELSE Len(text) - n = 0
    BY <1>0
  <2> HIDE DEF e
  <2>6. Len(e) = Len(text) - n
    BY <2>3, <2>4, <2>5
  <2>7. \A i \in 1..(Len(text) - n) : e[i] = text[(n + 1) + i - 1]
    BY <2>3, <2>4
  <2> QED BY <2>2, <2>3, <2>6, <2>7
<1> HIDE DEF b, e, new
<1>3. new = (b \o r) \o e
  BY DEF b, e, new, InPlace
<1>4. /\ b \o r \in Seq(S) /\ Len(b \o r) = m - 1 + Len(r)
      /\ \A i \in 1..(m - 1) : (b \o r)[i] = b[i]
  <2>1. /\ b \o r \in Seq(S) /\ Len(b \o r) = Len(b) + Len(r)
        /\ \A i \in 1..(Len(b) + Len(r)) :
              (b \o r)[i] = IF i <= Len(b) THEN b[i] ELSE r[i - Len(b)]
    BY <1>1, ConcatProperties
  <2>2. \A i \in 1..(m - 1) : i \in 1..(m - 1 + Len(r)) /\ i <= m - 1
    BY <1>0
  <2> QED BY <1>1, <2>1, <2>2
<1> DEFINE c == b \o r
<1>5. /\ c \in Seq(S) /\ Len(c) = m - 1 + Len(r)
      /\ \A i \in 1..(m - 1) : c[i] = text[i]
  BY <1>1, <1>4
<1> HIDE DEF c
<1>6. /\ Len(new) = Len(c) + Len(e)
      /\ \A i \in 1..(Len(c) + Len(e)) : new[i] = IF i <= Len(c) THEN c[i] ELSE e[i - Len(c)]
  <2>1. new = c \o e
    BY <1>3 DEF c
  <2>2. /\ Len(c \o e) = Len(c) + Len(e)
        /\ \A i \in 1..(Len(c) + Len(e)) :
              (c \o e)[i] = IF i <= Len(c) THEN c[i] ELSE e[i - Len(c)]
    <3>1. c \in Seq(S) /\ e \in Seq(S)
      BY <1>2, <1>5
    <3> QED BY <3>1, ConcatProperties
  <2> QED BY <2>1, <2>2
<1>7. Len(new) = Len(text) - (n - m + 1) + Len(r)
  <2>1. Len(new) = (m - 1 + Len(r)) + (Len(text) - n)
    BY <1>2, <1>5, <1>6
  <2>2. \A x, y \in Nat : (m - 1 + y) + (x - n) = x - (n - m + 1) + y
    OBVIOUS
  <2> QED BY <1>0, <2>1, <2>2
<1>8. ASSUME NEW k \in 1..(m - 1) PROVE new[k] = text[k]
  <2>1. k \in 1..(Len(c) + Len(e)) /\ k <= Len(c)
    BY <1>0, <1>2, <1>5
  <2> QED BY <1>5, <1>6, <2>1
<1>9. ASSUME NEW k \in (n + 1)..Len(text) PROVE new[k + Len(new) - Len(text)] = text[k]
  <2> DEFINE i == k + Len(new) - Len(text)
  <2>1. i \in 1..(Len(c) + Len(e)) /\ ~(i <= Len(c)) /\ i - Len(c) = k - n
    <3>1. Len(c) = m - 1 + Len(r) /\ Len(e) = Len(text) - n
      BY <1>2, <1>5
    <3>2. k \in Nat /\ n + 1 <= k
      BY <1>0
    <3>3. k <= Len(text)
      BY <1>0
    <3> DEFINE h == k + (Len(text) - (n - m + 1) + Len(r)) - Len(text)
    <3>4. /\ h \in 1..((m - 1 + Len(r)) + (Len(text) - n))
          /\ ~(h <= m - 1 + Len(r)) /\ h - (m - 1 + Len(r)) = k - n
      BY <1>0, <3>2, <3>3, ShiftedIndex
    <3>5. i = h
      BY <1>7
    <3> HIDE DEF h, i
    <3> QED BY <3>1, <3>4, <3>5
  <2>2. k - n \in 1..(Len(text) - n) /\ n + (k - n) = k
    BY <1>0
  <2> HIDE DEF i
  <2>3. new[i] = e[k - n]
    BY <1>6, <2>1
  <2> QED BY <1>2, <2>2, <2>3 DEF i
<1> QED BY <1>7, <1>8, <1>9 DEF new, KeptAround

(* ... so that the splice replaces the function's lines and no others.     *)
LEMMA SpliceStaysOut ==
  ASSUME NEW text, IsText(text), NEW lines, NEW a, a.lines \in Seq(TextLine),
         lines.first \in Nat \ {0}, lines.last \in Nat, InBounds(text, lines),
         NEW own, own = lines.first..lines.last
  PROVE  /\ Len(Splice(text, lines, a)) = Cardinality(DOMAIN text \ own) + Len(Replacement(a))
         /\ KeptOutside(text, Splice(text, lines, a), own)
<1> DEFINE new == Splice(text, lines, a)
<1>0. /\ text \in Seq(TextLine) /\ Len(text) \in Nat /\ DOMAIN text = 1..Len(text)
      /\ Replacement(a) \in Seq(TextLine)
  BY ReplacementIsText DEF IsText
<1>1. PICK m \in Nat \ {0}, n \in Nat : m = lines.first /\ n = lines.last
  OBVIOUS
<1>2. m <= n /\ n <= Len(text) /\ own = m..n
  BY <1>1 DEF InBounds
<1>3. new = InPlace(text, m, n, Replacement(a))
  BY <1>1 DEF Splice, Before, After, InPlace
<1> HIDE DEF new
<1>4. /\ Len(new) = Len(text) - (n - m + 1) + Len(Replacement(a))
      /\ KeptAround(text, new, m, n)
  BY <1>0, <1>2, <1>3, SpliceAt
<1>5. Cardinality(DOMAIN text \ own) = Len(text) - (n - m + 1)
  <2>1. IsFiniteSet(1..Len(text)) /\ Cardinality(1..Len(text)) = Len(text)
    BY <1>0, Interval
  <2>2. Cardinality(own) = n - m + 1
    BY <1>2, Interval
  <2>3. (1..Len(text)) \cap own = own
    BY <1>0, <1>2
  <2>4. Cardinality((1..Len(text)) \ own) = Cardinality(1..Len(text)) - Cardinality((1..Len(text)) \cap own)
    BY <2>1, FS_Difference
  <2> QED BY <1>0, <2>1, <2>2, <2>3, <2>4
<1>6. ASSUME NEW k \in DOMAIN text \ own
      PROVE  new[IF \A j \in own : k < j THEN k ELSE k + Len(new) - Len(text)] = text[k]
  <2>1. k \in 1..(m - 1) \/ k \in (n + 1)..Len(text)
    BY <1>0, <1>2
  <2>2. CASE k \in 1..(m - 1)
    <3>1. \A j \in own : k < j
      BY <1>2, <2>2
    <3> QED BY <1>4, <2>2, <3>1 DEF KeptAround
  <2>3. CASE k \in (n + 1)..Len(text)
    <3>1. m \in own /\ ~(k < m)
      BY <1>0, <1>2, <2>3
    <3>2. ~ \A j \in own : k < j
      BY <3>1
    <3> QED BY <1>4, <2>3, <3>2 DEF KeptAround
  <2> QED BY <2>1, <2>2, <2>3
<1> QED BY <1>4, <1>5, <1>6 DEF new, KeptOutside

(* The innermost definition is one of the module's.                        *)
LEMMA LeastOf ==
  ASSUME NEW S \in SUBSET Nat, S # {}
  PROVE  \E x \in S : \A y \in S : x <= y
<1> DEFINE R == OpToRel(<, Nat)
<1>1. IsWellFoundedOn(R, Nat)
  BY NatLessThanWellFounded
<1>2. R = {ss \in Nat \X Nat : ss[1] < ss[2]}
  BY DEF OpToRel
<1> HIDE DEF R
<1>3. PICK x \in S : \A y \in S : ~(<<y, x>> \in R)
  BY <1>1, WFMin
<1>4. \A y \in S : x <= y
  <2> TAKE y \in S
  <2>1. ~(<<y, x>> \in {ss \in Nat \X Nat : ss[1] < ss[2]})
    BY <1>2, <1>3
  <2>2. x \in Nat /\ y \in Nat
    OBVIOUS
  <2> QED BY <2>1, <2>2
<1> QED BY <1>4

LEMMA InnermostIsDefined ==
  ASSUME NEW ds \in Seq(Definition), NEW lines, Enclosing(ds, lines) # {}
  PROVE  Innermost(ds, lines) \in DOMAIN ds
<1> DEFINE E == Enclosing(ds, lines)
           D == {Len(ds) - k : k \in E}
<1>0. Len(ds) \in Nat
  OBVIOUS
<1>1. E \subseteq DOMAIN ds /\ DOMAIN ds = 1..Len(ds)
  BY DEF Enclosing
<1> HIDE DEF E
<1>2. D \in SUBSET Nat
  BY <1>0, <1>1
<1>3. D # {}
  BY DEF E
<1> HIDE DEF D
<1>4. PICK x \in D : \A y \in D : x <= y
  BY <1>2, <1>3, LeastOf
<1>5. PICK k \in E : x = Len(ds) - k
  BY <1>4 DEF D
<1>6. \A j \in E : j <= k
  <2> TAKE j \in E
  <2>1. x <= Len(ds) - j
    BY <1>4 DEF D
  <2>2. j \in 1..Len(ds) /\ k \in 1..Len(ds)
    BY <1>1
  <2> QED BY <1>0, <1>5, <2>1, <2>2
<1>7. Innermost(ds, lines) \in E
  BY <1>6 DEF Innermost, E
<1> QED BY <1>1, <1>7

-----------------------------------------------------------------------------

HasLines == target.lines.first \in Nat \ {0} /\ target.lines.last \in Nat

(* What has just been applied is the splice of an answer into a file.      *)
SplicedInv ==
  /\ pc \in {"generate", "repro", "ask"} => HasLines
  /\ pc # "start" => spliced = None
  /\ spliced # None =>
       /\ HasLines /\ rule \in Rules
       /\ \E file \in Files, a \in Answers[rule] :
            /\ InBounds(file.text, target.lines)
            /\ spliced = [file |-> file.text, answer |-> a,
                          new |-> Splice(file.text, target.lines, a)]

LEMMA StepSplicedInv ==
  ASSUME IInv, SplicedInv, [Next]_vars
  PROVE  SplicedInv'
<1>0. rule \in Rules /\ defs \in Seq(Definition)
  BY DEF IInv, PathInv
<1>1. CASE RunTest \/ Judge \/ JudgePatch \/ UNCHANGED vars
  <2>1. UNCHANGED <<rule, target, spliced>> /\ (pc' = pc \/ pc' \in {"ask", "over"})
        /\ (pc' = "ask" => pc \in {"repro", "ask"})
        /\ (pc' # "start" => pc # "start")
    BY <1>1 DEF RunTest, HarnessStep, CallTarget, ExecuteStatement, ReturnFromTarget, DumpTrace,
                Judge, JudgePatch, vars, pathVars, harnessVars
  <2>2. pc' \in {"generate", "repro", "ask"} => pc \in {"generate", "repro", "ask"}
    BY <2>1
  <2> QED BY <2>1, <2>2 DEF SplicedInv, HasLines
<1>2. CASE Load
  <2>1. pc' \in {"over", "analyze"} /\ spliced' = spliced /\ spliced = None
    BY <1>2 DEF Load, SplicedInv
  <2> QED BY <2>1 DEF SplicedInv
<1>3. CASE Analyze
  <2>1. spliced' = spliced /\ spliced = None
    BY <1>3 DEF Analyze, SplicedInv
  <2>2. CASE ~Supported(defs, span)
    <3>1. pc' = "over"
      BY <1>3, <2>2 DEF Analyze
    <3> QED BY <2>1, <3>1 DEF SplicedInv
  <2>3. CASE Supported(defs, span)
    <3>1. target' = AnalyzeFinding(defs, span) /\ pc' = "generate"
      BY <1>3, <2>3 DEF Analyze
    <3>2. defs[Innermost(defs, span)] \in Definition
      BY <1>0, <2>3, InnermostIsDefined DEF Supported
    <3>3. target'.lines = defs[Innermost(defs, span)].lines
      BY <3>1 DEF AnalyzeFinding
    <3>4. HasLines'
      BY <3>2, <3>3, TextAssumption DEF HasLines
    <3> QED BY <2>1, <3>1, <3>4 DEF SplicedInv
  <2> QED BY <2>2, <2>3
<1>4. CASE Generate
  <2>1. /\ pc = "generate" /\ pc' \in {"over", "repro"} /\ spliced' = spliced /\ spliced = None
        /\ target' = target
    BY <1>4 DEF Generate, SplicedInv, harnessVars
  <2> QED BY <2>1 DEF SplicedInv, HasLines
<1>5. ASSUME NEW file \in Files, NEW a \in Answers[rule],
             ModelError(file, a) \/ RefusePatch(file, a)
      PROVE  SplicedInv'
  <2>1. pc' = "over" /\ spliced' = spliced /\ spliced = None
    BY <1>5 DEF ModelError, RefusePatch, AskModel, SplicedInv
  <2> QED BY <2>1 DEF SplicedInv
<1>6. ASSUME NEW file \in Files, NEW a \in Answers[rule], ApplyPatch(file, a)
      PROVE  SplicedInv'
  <2>1. /\ pc = "ask" /\ pc' = "start" /\ UNCHANGED <<rule, target>>
        /\ InBounds(file.text, target.lines)
        /\ spliced' = [file |-> file.text, answer |-> a,
                       new |-> Splice(file.text, target.lines, a)]
    BY <1>6 DEF ApplyPatch, AskModel, NoDiff
  <2>2. HasLines'
    BY <2>1 DEF SplicedInv, HasLines
  <2>3. rule' \in Rules /\ a \in Answers[rule']
    BY <1>0, <2>1
  <2>4. /\ InBounds(file.text, target'.lines)
        /\ spliced' = [file |-> file.text, answer |-> a,
                       new |-> Splice(file.text, target'.lines, a)]
    BY <2>1
  <2> QED BY <2>1, <2>2, <2>3, <2>4 DEF SplicedInv
<1>7. CASE StartVerification
  <2>1. pc' = "verify" /\ spliced' = None
    BY <1>7 DEF StartVerification
  <2> QED BY <2>1 DEF SplicedInv
<1> QED BY <1>1, <1>2, <1>3, <1>4, <1>5, <1>6, <1>7 DEF Next

(* For every file, answer and function: a patch that is applied replaces   *)
(* the function's lines, all of them, and moves no other line, as long as  *)
(* splitlines and ast count the lines up to its end alike.                 *)
THEOREM PatchesReplaceTheFunction == Spec => []PatchStaysInFunction
<1>1. IInv /\ SplicedInv => PatchStaysInFunction
  <2> SUFFICES ASSUME SplicedInv, spliced # None PROVE PatchStaysInFunction
    BY DEF PatchStaysInFunction
  <2>1. PICK file \in Files, a \in Answers[rule] :
          /\ InBounds(file.text, target.lines)
          /\ spliced = [file |-> file.text, answer |-> a,
                        new |-> Splice(file.text, target.lines, a)]
    BY DEF SplicedInv
  <2>2. /\ IsText(file.text) /\ a.lines \in Seq(TextLine)
        /\ target.lines.first \in Nat \ {0} /\ target.lines.last \in Nat
    BY TextAssumption DEF SplicedInv, HasLines
  <2> DEFINE text == file.text
             own  == InFunction(text, target.lines)
             new  == Splice(text, target.lines, a)
             rest == DOMAIN text \ own
  <2>3. ASSUME \A k \in DOMAIN text :
                 AstLine(text, k) <= target.lines.last => text[k].end # "ff"
        PROVE  /\ Len(new) = Cardinality(rest) + Len(Replacement(a))
               /\ \A k \in rest :
                     new[IF \A j \in own : k < j THEN k ELSE k + Len(new) - Len(text)] = text[k]
    <3>1. own = target.lines.first..target.lines.last
      BY <2>1, <2>2, <2>3, LinesAgree
    <3> HIDE DEF own
    <3>2. Len(new) = Cardinality(rest) + Len(Replacement(a))
      BY <2>1, <2>2, <3>1, SpliceStaysOut
    <3>3. KeptOutside(text, new, own)
      BY <2>1, <2>2, <3>1, SpliceStaysOut
    <3> QED BY <3>2, <3>3 DEF KeptOutside
  <2>4. spliced.file = text /\ spliced.answer = a /\ spliced.new = new
    BY <2>1
  <2> HIDE DEF text, new
  <2> QED BY <2>3, <2>4 DEF PatchStaysInFunction
<1>2. Init => SplicedInv
  BY DEF Init, SplicedInv
<1>3. IInv /\ SplicedInv /\ [Next]_vars => SplicedInv'
  BY StepSplicedInv
<1> QED BY <1>1, <1>2, <1>3, TracesAreComplete, PTL DEF Spec
=============================================================================
