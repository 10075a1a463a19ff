-------------------------- MODULE FindingPathProofs -------------------------
(***************************************************************************)
(* What the verdicts of FindingPath mean, for every function, signature,   *)
(* file and answer of the model: the trace of a finished test is the       *)
(* recorders' account of exactly what the function reaches with every      *)
(* probe (TestInv), so that the oracles' verdicts on it are verdicts on    *)
(* the function.                                                           *)
(***************************************************************************)
EXTENDS FindingPath, TLAPS

(* One probe or two, however the rule is called.                           *)
LEMMA ProbesAre ==
  ASSUME rule \in Rules
  PROVE  /\ Len(Probes) \in {1, 2} /\ DOMAIN Probes = 1..Len(Probes)
         /\ rule # "pathtraversal" => Probes = <<"plain">>
         /\ rule = "pathtraversal" => Probes = <<"traversal", "absolute">>
<1>1. CASE rule = "pathtraversal"
  <2>1. Probes = <<"traversal", "absolute">>
    BY <1>1 DEF Probes
  <2>2. Len(Probes) = 2 /\ DOMAIN Probes = 1..2
    BY <2>1
  <2> QED BY <1>1, <2>1, <2>2
<1>2. CASE rule # "pathtraversal"
  <2>1. Probes = <<"plain">>
    BY <1>2 DEF Probes
  <2>2. Len(Probes) = 1 /\ DOMAIN Probes = 1..1
    BY <2>1
  <2> QED BY <1>2, <2>1, <2>2
<1> QED BY <1>1, <1>2

(* Nothing in the test's own variables: everything that is reached, noted  *)
(* or planned stays as it is.                                              *)
LEMMA SameFunction ==
  ASSUME rule' = rule, sentinel' = sentinel, target' = target, fn' = fn
  PROVE  /\ Probes' = Probes /\ CallBinds' = CallBinds
         /\ \A p : Reached(p)' = Reached(p)
         /\ \A k, p : Noted(k, p)' = Noted(k, p)
  BY DEF Probes, CallBinds, Keys, PassesConn, Tainted, Reached, Raises, Exits, Noted,
         Record, RecordQuery, RecordCommand, RecordPath, Sinks, PathOf, Shell, IsStr

-----------------------------------------------------------------------------

(* No test has begun, so there is nothing to be sound or complete about.   *)
THEOREM InitIInv == Init => IInv
  BY DefinitionAssumption DEF Init, IInv, PathInv

(* The end of a call: the statements executed are all that are reached, so *)
(* what is recorded is complete for this probe too.                        *)
LEMMA NextProbeKeeps ==
  ASSUME IInv, NextProbe, step \in {"call", "body"},
         UNCHANGED <<rule, sentinel, target, fn, saved, pathVars>>,
         Sound(calls'), calls \subseteq calls',
         \A k \in Reached(Probes[probe]) : Noted(k, Probes[probe]) \subseteq calls'
  PROVE  IInv'
<1>1. rule \in Rules /\ TestInv /\ Complete(calls, probe)
  BY DEF IInv, PathInv, TestInv
<1>2. /\ Len(Probes) \in {1, 2} /\ DOMAIN Probes = 1..Len(Probes)
      /\ probe \in DOMAIN Probes
  BY <1>1, ProbesAre DEF TestInv
<1>3. /\ Probes' = Probes
      /\ \A p : Reached(p)' = Reached(p)
      /\ \A k, p : Noted(k, p)' = Noted(k, p)
  BY SameFunction
<1>4. Complete(calls', probe + 1)
  BY <1>1, <1>2 DEF Complete
<1>5. Sound(calls)'
  BY <1>3 DEF Sound
<1>6. PathInv'
  BY DEF IInv, PathInv, NextProbe, pathVars
<1>7. CASE probe < Len(Probes)
  <2>1. step' = "call" /\ probe' = probe + 1 /\ ip' = 1
    BY <1>7 DEF NextProbe
  <2>2. Complete(calls, probe)'
    BY <1>3, <1>4, <2>1 DEF Complete
  <2>3. probe' \in (DOMAIN Probes)'
    BY <1>2, <1>3, <1>7, <2>1
  <2> QED BY <1>5, <1>6, <2>1, <2>2, <2>3 DEF IInv, TestInv
<1>8. CASE ~(probe < Len(Probes))
  <2>1. step' = "dump" /\ probe' = probe /\ probe = Len(Probes)
    BY <1>2, <1>8 DEF NextProbe
  <2>2. Complete(calls, Len(Probes) + 1)'
    BY <1>3, <1>4, <2>1 DEF Complete
  <2>3. probe' \in (DOMAIN Probes)'
    BY <1>2, <1>3, <2>1
  <2> QED BY <1>5, <1>6, <2>1, <2>2, <2>3 DEF IInv, TestInv
<1> QED BY <1>7, <1>8

LEMMA BodyIsSequence ==
  ASSUME fn \in Definition
  PROVE  fn \notin {None, Unusable} /\ fn.body \in Seq(Stmt)
         /\ Len(fn.body) \in Nat /\ DOMAIN fn.body = 1..Len(fn.body)
  BY DefinitionAssumption

LEMMA CallTargetKeeps ==
  ASSUME IInv, CallTarget, UNCHANGED pathVars
  PROVE  IInv'
<1> USE DEF CallTarget
<1>0. TestInv /\ PathInv /\ step = "call" /\ Complete(calls, probe) /\ Sound(calls) /\ saved = None
  BY DEF IInv, TestInv, PathInv
<1>1. /\ Probes' = Probes /\ (CallBinds' <=> CallBinds)
      /\ \A p : Reached(p)' = Reached(p)
      /\ \A k, p : Noted(k, p)' = Noted(k, p)
  BY SameFunction
<1>2. CASE fn = Unusable
  <2>1. step' = "over" /\ UNCHANGED <<rule, fn, saved, probe, calls>>
    BY <1>2
  <2>2. PathInv'
    BY <1>0, <2>1 DEF PathInv, pathVars
  <2>3. Sound(calls)' /\ (probe \in DOMAIN Probes)'
    BY <1>0, <1>1, <2>1 DEF Sound, TestInv
  <2> QED BY <1>0, <2>1, <2>2, <2>3 DEF IInv, TestInv
<1>3. CASE fn # Unusable /\ fn # None /\ CallBinds
  <2>1. step' = "body" /\ UNCHANGED <<rule, fn, saved, probe, calls, ip>> /\ ip = 1
    BY <1>0, <1>3 DEF TestInv
  <2>2. PathInv'
    BY <1>0, <2>1 DEF PathInv, pathVars
  <2>3. Sound(calls)' /\ Complete(calls, probe)' /\ (probe \in DOMAIN Probes)'
    BY <1>0, <1>1, <2>1 DEF Sound, Complete, TestInv
  <2>4. fn \in Definition
    BY <1>0, <1>3 DEF PathInv
  <2>5. 1 \in 1..(Len(fn.body) + 1)
    BY <2>4, BodyIsSequence
  <2>6. InBody'
    BY <1>1, <1>3, <2>1, <2>4, <2>5 DEF InBody
  <2> QED BY <1>0, <2>1, <2>2, <2>3, <2>6 DEF IInv, TestInv
<1>4. CASE fn = None \/ ~CallBinds
  <2>1. CASE fn = Unusable
    BY <2>1, <1>2
  <2>2. CASE fn # Unusable
    <3>1. NextProbe
      BY <1>4, <2>2
    <3>2. Reached(Probes[probe]) = {}
      BY <1>4 DEF Reached
    <3>3. Sound(calls')
      BY <1>0
    <3> QED BY <1>0, <3>1, <3>2, <3>3, NextProbeKeeps
  <2> QED BY <2>1, <2>2
<1> QED BY <1>2, <1>3, <1>4

LEMMA ExecuteKeeps ==
  ASSUME IInv, ExecuteStatement, UNCHANGED pathVars
  PROVE  IInv'
<1> DEFINE p == Probes[probe]
           x == fn.body[ip]
<1>0. /\ TestInv /\ PathInv /\ step = "body" /\ Complete(calls, probe) /\ Sound(calls)
      /\ InBody /\ saved = None /\ probe \in DOMAIN Probes
  BY DEF IInv, TestInv, PathInv, ExecuteStatement
<1>1. /\ Probes' = Probes /\ (CallBinds' <=> CallBinds)
      /\ \A q : Reached(q)' = Reached(q)
      /\ \A k, q : Noted(k, q)' = Noted(k, q)
  BY SameFunction DEF ExecuteStatement
<1>2. /\ fn \in Definition /\ fn \notin {None, Unusable} /\ CallBinds
      /\ Len(fn.body) \in Nat /\ DOMAIN fn.body = 1..Len(fn.body) /\ ip \in DOMAIN fn.body
  BY <1>0, BodyIsSequence DEF InBody, ExecuteStatement
<1>3. calls' = calls \cup Noted(ip, p)
  BY DEF ExecuteStatement, Noted
<1>4. ip \in Reached(p)
  BY <1>0, <1>2 DEF Reached, InBody
<1>5. Sound(calls')
  BY <1>0, <1>3, <1>4 DEF Sound
<1>6. \A k \in 1..ip : Noted(k, p) \subseteq calls'
  BY <1>0, <1>2, <1>3 DEF InBody
<1>7. CASE Exits(x)
  <2>1. step' = "over" /\ UNCHANGED <<rule, fn, saved, probe>>
    BY <1>7 DEF ExecuteStatement
  <2>2. PathInv'
    BY <1>0, <2>1 DEF PathInv, pathVars
  <2>3. Sound(calls)'
    BY <1>1, <1>5 DEF Sound
  <2> QED BY <1>0, <1>1, <2>1, <2>2, <2>3 DEF IInv, TestInv
<1>8. CASE ~Exits(x) /\ Raises(x, p)
  <2>1. NextProbe /\ UNCHANGED <<rule, sentinel, target, fn, saved>>
    BY <1>8 DEF ExecuteStatement
  <2>2. \A k \in Reached(p) : k \in 1..ip
    BY <1>2, <1>8 DEF Reached
  <2>3. \A k \in Reached(p) : Noted(k, p) \subseteq calls'
    BY <1>6, <2>2
  <2> QED BY <1>0, <1>3, <1>5, <2>1, <2>3, NextProbeKeeps
<1>9. CASE ~Exits(x) /\ ~Raises(x, p)
  <2>1. step' = "body" /\ ip' = ip + 1 /\ UNCHANGED <<rule, sentinel, target, fn, saved, probe>>
    BY <1>0, <1>9 DEF ExecuteStatement
  <2>2. PathInv'
    BY <1>0, <2>1 DEF PathInv, pathVars
  <2>3. Sound(calls)'
    BY <1>1, <1>5 DEF Sound
  <2>4. Complete(calls, probe)'
    BY <1>0, <1>1, <1>3, <2>1 DEF Complete
  <2>5. InBody'
    <3>1. fn' \in Definition /\ CallBinds' /\ ip' \in 1..(Len(fn'.body) + 1)
      BY <1>1, <1>2, <2>1
    <3>2. (ip' - 1) = ip
      BY <1>2, <2>1
    <3>3. \A k \in 1..ip : /\ ~Raises(fn.body[k], p) /\ ~Exits(fn.body[k])
      BY <1>0, <1>2, <1>9 DEF InBody
    <3>4. \A k \in 1..ip : /\ ~Raises(fn.body[k], p)' /\ ~Exits(fn.body[k])'
      BY <1>1, <2>1, <3>3 DEF Raises, Exits, Tainted, PassesConn
    <3>5. \A k \in 1..ip : Noted(k, p)' \subseteq calls'
      BY <1>1, <1>6, <2>1
    <3> QED BY <3>1, <3>2, <3>4, <3>5 DEF InBody
  <2> QED BY <1>0, <1>1, <2>1, <2>2, <2>3, <2>4, <2>5 DEF IInv, TestInv
<1> QED BY <1>7, <1>8, <1>9

LEMMA ReturnKeeps ==
  ASSUME IInv, ReturnFromTarget, UNCHANGED pathVars
  PROVE  IInv'
<1>0. /\ step = "body" /\ Sound(calls) /\ InBody
  BY DEF IInv, PathInv, TestInv, ReturnFromTarget
<1>1. DOMAIN fn.body = 1..Len(fn.body) /\ Len(fn.body) \in Nat
  BY <1>0, BodyIsSequence DEF InBody
<1>2. \A k \in DOMAIN fn.body : k \in 1..(ip - 1)
  BY <1>0, <1>1 DEF InBody, ReturnFromTarget
<1>3. \A k \in Reached(Probes[probe]) : Noted(k, Probes[probe]) \subseteq calls
  BY <1>0, <1>2 DEF Reached, InBody
<1> QED BY <1>0, <1>3, NextProbeKeeps DEF ReturnFromTarget

LEMMA DumpKeeps ==
  ASSUME IInv, DumpTrace, UNCHANGED pathVars
  PROVE  IInv'
<1>0. /\ TestInv /\ PathInv /\ step = "dump" /\ Complete(calls, Len(Probes) + 1) /\ Sound(calls)
  BY DEF IInv, TestInv, PathInv, DumpTrace
<1>1. /\ Probes' = Probes
      /\ \A q : Reached(q)' = Reached(q)
      /\ \A k, q : Noted(k, q)' = Noted(k, q)
  BY SameFunction DEF DumpTrace
<1>2. step' = "over" /\ saved' \in {calls, None} /\ UNCHANGED <<rule, fn, calls, probe>>
  BY DEF DumpTrace
<1>3. PathInv'
  BY <1>0, <1>2 DEF PathInv, pathVars
<1>4. Sound(calls)' /\ Complete(calls, Len(Probes) + 1)'
  BY <1>0, <1>1, <1>2 DEF Sound, Complete
<1>5. saved' # None => Sound(saved)' /\ Complete(saved, Len(Probes) + 1)'
  BY <1>2, <1>4 DEF Sound, Complete
<1>6. probe' \in (DOMAIN Probes)'
  BY <1>0, <1>1, <1>2 DEF TestInv
<1> QED BY <1>2, <1>3, <1>4, <1>5, <1>6 DEF IInv, TestInv

(* Whatever a name stands for is one of the module's definitions, also     *)
(* after one of them was replaced.                                         *)
LEMMA ResolvedIsDefined ==
  ASSUME NEW ds \in Seq(Definition), NEW name, NEW k, NEW def \in Definition \cup {None}
  PROVE  /\ Resolved(ds, name) \subseteq Definition \cup {None}
         /\ Resolved([ds EXCEPT ![k] = def], name) \subseteq Definition \cup {None}
<1> DEFINE es == [ds EXCEPT ![k] = def]
<1>1. \A j \in DOMAIN ds : ds[j] \in Definition
  OBVIOUS
<1>2. DOMAIN es = DOMAIN ds /\ \A j \in DOMAIN es : es[j] \in Definition \cup {None}
  BY <1>1
<1>3. Resolved(ds, name) \subseteq Definition \cup {None}
  BY <1>1 DEF Resolved, Named
<1> HIDE DEF es
<1>4. Resolved(es, name) \subseteq Definition \cup {None}
  BY <1>2 DEF Resolved, Named
<1> QED BY <1>3, <1>4 DEF es

LEMMA RedefinedIsDefined ==
  ASSUME defs \in Seq(Definition), rule \in Rules, NEW file, NEW a \in Answers[rule]
  PROVE  Redefined(file, a) \subseteq Definition \cup {None, Unusable}
<1>1. a.def \in Definition \cup {None, Unusable}
  BY DefinitionAssumption
<1> QED BY <1>1, ResolvedIsDefined, DefinitionAssumption DEF Redefined

(* A test that has just been set up has recorded nothing, and has nothing  *)
(* to record.                                                              *)
LEMMA FreshTest ==
  ASSUME rule \in Rules, rule' = rule, NEW s, StartHarness(s)
  PROVE  TestInv' /\ step' = "call" /\ saved' = None
<1>1. rule' \in Rules /\ probe' = 1 /\ ip' = 1 /\ step' = "call" /\ calls' = {} /\ saved' = None
  BY DEF StartHarness
<1>2. probe' \in DOMAIN Probes'
  BY <1>1 DEF Probes
<1>3. Sound(calls)'
  BY <1>1 DEF Sound
<1>4. Probes' = Probes /\ \A m \in DOMAIN Probes : ~(m < 1)
  BY ProbesAre DEF Probes
<1>5. Complete(calls, probe)'
  BY <1>1, <1>4 DEF Complete
<1> QED BY <1>1, <1>2, <1>3, <1>5 DEF TestInv

(* Steps that leave the test alone leave what it established.              *)
LEMMA SameTest ==
  ASSUME UNCHANGED harnessVars
  PROVE  TestInv' <=> TestInv
<1>1. /\ Probes' = Probes /\ (CallBinds' <=> CallBinds)
      /\ \A p : Reached(p)' = Reached(p)
      /\ \A k, p : Noted(k, p)' = Noted(k, p)
  BY SameFunction DEF harnessVars
<1>2. \A x, p : (Raises(x, p)' <=> Raises(x, p)) /\ (Exits(x)' <=> Exits(x))
  BY DEF harnessVars, Raises, Exits, Tainted, PassesConn
<1>3. InBody' <=> InBody
  BY <1>1, <1>2 DEF InBody, harnessVars
<1> QED BY <1>1, <1>3 DEF TestInv, Sound, Complete, harnessVars

(* Every step of the path, and every step of a test, keeps the account.    *)
THEOREM StepIInv == IInv /\ [Next]_vars => IInv'
<1> SUFFICES ASSUME IInv, [Next]_vars PROVE IInv'
  OBVIOUS
<1>0. PathInv /\ (step # "idle" /\ pc # "start" => TestInv)
  BY DEF IInv
<1>1. CASE RunTest
  BY <1>1, CallTargetKeeps, ExecuteKeeps, ReturnKeeps, DumpKeeps DEF RunTest, HarnessStep
<1>2. CASE Load \/ Analyze
  BY <1>0, <1>2 DEF IInv, PathInv, Load, Analyze, harnessVars
<1>3. CASE Generate
  <2>1. CASE Skipped
    BY <1>0, <1>3, <2>1 DEF IInv, PathInv, Generate, harnessVars
  <2>2. CASE ~Skipped
    <3>1. /\ fn' \in Resolved(defs, target.name) /\ StartHarness("first") /\ pc' = "repro"
          /\ UNCHANGED <<rule, target, defs, verdict>> /\ pc = "generate"
      BY <1>3, <2>2 DEF Generate
    <3>2. fn' \in Definition \cup {None}
      BY <1>0, <3>1, ResolvedIsDefined DEF PathInv
    <3>3. TestInv' /\ step' = "call" /\ saved' = None
      BY <1>0, <3>1, FreshTest DEF PathInv
    <3> QED BY <1>0, <3>1, <3>2, <3>3 DEF IInv, PathInv
  <2> QED BY <2>1, <2>2
<1>4. CASE Judge \/ JudgePatch
  <2>1. /\ UNCHANGED harnessVars /\ UNCHANGED defs /\ verdict' = Judgement /\ step = "over"
        /\ pc' \in {"ask", "over"} /\ pc \in {"repro", "verify"}
    BY <1>4 DEF Judge, JudgePatch
  <2>2. TestInv'
    BY <1>0, <2>1, SameTest
  <2>3. verdict' # None => saved' # None /\ verdict' = Evaluate(rule, saved, sentinel)'
    BY <2>1 DEF Judgement, harnessVars, Evaluate, EvaluateSqli, EvaluateCmdi, EvaluatePathTraversal
  <2> QED BY <1>0, <2>1, <2>2, <2>3 DEF IInv, PathInv, harnessVars
<1>5. ASSUME NEW file \in Files, NEW a \in Answers[rule],
             ModelError(file, a) \/ RefusePatch(file, a)
      PROVE  IInv'
  <2>1. UNCHANGED <<harnessVars, defs, verdict>> /\ pc = "ask" /\ pc' = "over"
    BY <1>5 DEF ModelError, RefusePatch, AskModel
  <2>2. step # "idle" => TestInv'
    BY <1>0, <2>1, SameTest
  <2>3. PathInv'
    BY <1>0, <2>1 DEF PathInv, harnessVars, Evaluate, EvaluateSqli, EvaluateCmdi,
                      EvaluatePathTraversal
  <2> QED BY <2>1, <2>2, <2>3 DEF IInv, harnessVars
<1>6. ASSUME NEW file \in Files, NEW a \in Answers[rule], ApplyPatch(file, a)
      PROVE  IInv'
  <2>1. /\ UNCHANGED <<rule, step, saved, defs>> /\ pc = "ask" /\ pc' = "start"
        /\ verdict' = None /\ fn' \in Redefined(file, a)
    BY <1>6 DEF ApplyPatch, AskModel
  <2>2. fn' \in Definition \cup {None, Unusable}
    BY <1>0, <2>1, RedefinedIsDefined DEF PathInv
  <2>3. step = "over"
    BY <1>0, <2>1 DEF PathInv
  <2> QED BY <1>0, <2>1, <2>2, <2>3 DEF IInv, PathInv
<1>7. CASE StartVerification
  <2>1. /\ StartHarness("second") /\ pc = "start" /\ pc' = "verify"
        /\ UNCHANGED <<rule, fn, defs, verdict>>
    BY <1>7 DEF StartVerification
  <2>2. TestInv' /\ step' = "call" /\ saved' = None
    BY <1>0, <2>1, FreshTest DEF PathInv
  <2> QED BY <1>0, <2>1, <2>2 DEF IInv, PathInv
<1>8. CASE UNCHANGED vars
  <2>1. TestInv' <=> TestInv
    BY <1>8, SameTest DEF vars
  <2>2. PathInv'
    BY <1>0, <1>8 DEF PathInv, vars, pathVars, harnessVars, Evaluate, EvaluateSqli, EvaluateCmdi,
                      EvaluatePathTraversal
  <2> QED BY <1>0, <1>8, <2>1, <2>2 DEF IInv, vars, pathVars, harnessVars
<1> QED BY <1>1, <1>2, <1>3, <1>4, <1>5, <1>6, <1>7, <1>8 DEF Next

(* The invariant holds of every behaviour.                                 *)
THEOREM TracesAreComplete == Spec => []IInv
<1>1. Init => IInv
  BY InitIInv
<1>2. IInv /\ [Next]_vars => IInv'
  BY StepIInv
<1> QED BY <1>1, <1>2, PTL DEF Spec

-----------------------------------------------------------------------------
(* The recorders against the oracles.                                      *)

(* A call with the sentinel where the rule's oracle takes offence.         *)
Offends(c) ==
  sentinel \in c.sql /\ (rule = "pathtraversal" => c.dotdot \/ sentinel \in c.absolute)

LEMMA WhatOffends ==
  /\ rule # "pathtraversal" => Offends(Call("text", sentinel))
  /\ rule = "pathtraversal" => /\ Offends(Call("dotdot", sentinel))
                              /\ Offends(Call("absolute", sentinel))
                              /\ ~Offends(Call("text", sentinel))
  /\ ~Offends(Call("bound", sentinel)) /\ ~Offends(Call("other", sentinel))
<1>1. /\ Call("text", sentinel) = [sql |-> {sentinel}, params |-> {}, dotdot |-> FALSE, absolute |-> {}]
      /\ Call("dotdot", sentinel) = [sql |-> {sentinel}, params |-> {}, dotdot |-> TRUE, absolute |-> {}]
      /\ Call("absolute", sentinel) =
           [sql |-> {sentinel}, params |-> {}, dotdot |-> FALSE, absolute |-> {sentinel}]
      /\ Call("bound", sentinel) = [sql |-> {}, params |-> {sentinel}, dotdot |-> FALSE, absolute |-> {}]
      /\ Call("other", sentinel) = [sql |-> {}, params |-> {}, dotdot |-> FALSE, absolute |-> {}]
  BY DEF Call
<1> QED BY <1>1 DEF Offends

LEMMA ProbeNames ==
  ASSUME rule \in Rules
  PROVE  /\ rule = "pathtraversal" => AllProbes = {"traversal", "absolute"}
         /\ \A n \in DOMAIN Probes : Probes[n] \in AllProbes
         /\ \A p \in AllProbes : \E n \in DOMAIN Probes : Probes[n] = p /\ n < Len(Probes) + 1
<1>1. rule = "pathtraversal" => AllProbes = {"traversal", "absolute"}
  BY DEF AllProbes, Probes
<1> QED BY <1>1, ProbesAre DEF AllProbes

LEMMA ReachedIsStmt ==
  ASSUME IInv, NEW p, NEW k \in Reached(p)
  PROVE  fn.body[k] \in Stmt
<1>1. fn \in Definition
  BY DEF IInv, PathInv, Reached
<1> QED BY <1>1, BodyIsSequence DEF Reached

LEMMA FormsAre ==
  /\ \A api \in Sinks["sqli"] : Forms[api] \subseteq {"text", "params", "bytes", "no rows", "none"}
  /\ Sinks["cmdi"] = {"system", "subprocess"}
  /\ Forms["system"] = {"string", "none"}
  /\ Forms["subprocess"] = {"string", "string shell", "list", "list shell", "bytes", "none"}
  /\ \A api \in Sinks["pathtraversal"] : Forms[api] = Paths
<1>1. Sinks["sqli"] = {"execute", "executemany"} /\ Sinks["pathtraversal"] = {"open", "copy"}
  BY DEF Sinks
<1>2. /\ Forms["execute"] = {"text", "params", "bytes", "none"}
      /\ Forms["executemany"] = {"text", "params", "bytes", "no rows", "none"}
      /\ Forms["open"] = Paths /\ Forms["copy"] = Paths
  BY DEF Forms
<1>3. /\ Sinks["cmdi"] = {"system", "subprocess"}
      /\ Forms["system"] = {"string", "none"}
      /\ Forms["subprocess"] = {"string", "string shell", "list", "list shell", "bytes", "none"}
  BY DEF Sinks, Forms
<1> QED BY <1>1, <1>2, <1>3

(* Whatever takes effect at a sink leaves a call that offends, ...         *)
LEMMA DangerIsNoted ==
  ASSUME rule \in Rules, NEW x \in Stmt, NEW p \in AllProbes,
         Dangerous(x, p), x.form # "list shell"
  PROVE  \E c \in Record(x, Tainted(x.of), p, sentinel) : Offends(c)
<1>0. /\ x.api \in Sinks[rule] /\ Tainted(x.of) /\ x.form # "none"
      /\ x.api \notin Others /\ x.form \in Forms[x.api]
  BY StmtAssumption DEF Dangerous, Sinks, Rules, Others
<1>1. CASE rule = "sqli"
  <2>1. x.form = "text"
    BY <1>0, <1>1, FormsAre DEF Dangerous
  <2>2. Record(x, Tainted(x.of), p, sentinel) = {Call("text", sentinel)}
    BY <1>0, <1>1, <2>1 DEF Record, RecordQuery
  <2> QED BY <1>1, <2>2, WhatOffends
<1>2. CASE rule = "cmdi"
  <2>1. IsStr(x) /\ Shell(x)
    BY <1>0, <1>2, FormsAre DEF Dangerous, IsStr, Shell
  <2>2. Record(x, Tainted(x.of), p, sentinel) = {Call("text", sentinel)}
    BY <1>0, <1>2, <2>1 DEF Record, RecordCommand
  <2> QED BY <1>2, <2>2, WhatOffends
<1>3. CASE rule = "pathtraversal"
  <2>1. p \in {"traversal", "absolute"}
    BY <1>3, ProbeNames
  <2>2. x.form \in {"raw", "join"} \/ (x.form = "concat" /\ p = "traversal")
    <3>1. x.form \in Paths
      BY <1>0, <1>3, FormsAre
    <3>2. rule # "cmdi" /\ x.form # "text"
      BY <1>3, <3>1 DEF Paths
    <3> QED BY <3>2 DEF Dangerous
  <2>3. PathOf(x, p, sentinel) \in {Call("dotdot", sentinel), Call("absolute", sentinel)}
    BY <2>1, <2>2 DEF PathOf
  <2>4. PathOf(x, p, sentinel) \in Record(x, Tainted(x.of), p, sentinel)
    BY <1>0, <1>3 DEF Record, RecordPath
  <2> QED BY <1>3, <2>3, <2>4, WhatOffends
<1> QED BY <1>1, <1>2, <1>3 DEF Rules

(* ... and nothing else does, but for a ".." in the target's own base.     *)
LEMMA NotedIsDanger ==
  ASSUME rule \in Rules, NEW x \in Stmt, NEW p \in AllProbes,
         NEW c \in Record(x, Tainted(x.of), p, sentinel), Offends(c)
  PROVE  \/ Dangerous(x, p)
         \/ x.api \in Sinks[rule] /\ Tainted(x.of) /\ x.form = "updir"
<1>0. x.api \in Sinks[rule]
  BY DEF Record
<1>1. c # Call("other", sentinel)
  BY WhatOffends
<1>2. Tainted(x.of) /\ x.form # "none"
  BY <1>0, <1>1 DEF Record
<1>3. x.form \in Forms[x.api]
  BY <1>0, StmtAssumption DEF Sinks, Rules, Others
<1>4. CASE rule = "sqli"
  <2>1. c = RecordQuery(x, sentinel)
    BY <1>0, <1>2, <1>4 DEF Record
  <2>2. x.form = "text"
    BY <2>1, WhatOffends DEF RecordQuery
  <2> QED BY <1>0, <1>2, <2>2 DEF Dangerous
<1>5. CASE rule = "cmdi"
  <2>1. c = RecordCommand(x, sentinel)
    BY <1>0, <1>2, <1>5 DEF Record
  <2>2. Shell(x)
    BY <2>1, WhatOffends DEF RecordCommand
  <2> QED BY <1>0, <1>2, <1>5, <2>2 DEF Dangerous
<1>6. CASE rule = "pathtraversal"
  <2>1. c = PathOf(x, p, sentinel)
    BY <1>0, <1>1, <1>2, <1>6 DEF Record, RecordPath
  <2>2. c # Call("text", sentinel)
    BY <1>6, WhatOffends
  <2>3. x.form \in Paths
    BY <1>0, <1>3, <1>6, FormsAre
  <2>4. \/ x.form = "updir"
        \/ x.form \in {"raw", "join"}
        \/ x.form = "concat" /\ p = "traversal"
    BY <1>2, <2>1, <2>2, <2>3 DEF PathOf, Paths
  <2> QED BY <1>0, <1>2, <2>4 DEF Dangerous
<1> QED BY <1>4, <1>5, <1>6 DEF Rules

(* A verdict is one on a trace that is complete.                           *)
LEMMA VerdictOnTrace ==
  ASSUME IInv, verdict # None
  PROVE  /\ rule \in Rules /\ Sound(saved) /\ Complete(saved, Len(Probes) + 1)
         /\ verdict = Evaluate(rule, saved, sentinel)
  BY DEF IInv, PathInv, TestInv

LEMMA WhatOraclesSay ==
  ASSUME rule \in Rules, NEW T
  PROVE  /\ Evaluate(rule, T, sentinel) = Confirmed <=> \E c \in T : Offends(c)
         /\ T = {} => Evaluate(rule, T, sentinel) = Uncertain
  BY DEF Evaluate, EvaluateSqli, EvaluateCmdi, EvaluatePathTraversal, Offends,
         Confirmed, NotReproduced, Uncertain, Rules

-----------------------------------------------------------------------------

(* For every function and signature: "confirmed" is said of a function     *)
(* only if a probe, passed to it as it is, takes effect at a sink of the   *)
(* rule.                                                                   *)
THEOREM ConfirmationIsReal == Spec => []ConfirmedIsReal
<1>1. IInv => ConfirmedIsReal
  <2> SUFFICES ASSUME IInv, verdict = Confirmed
               PROVE  \E p \in AllProbes : \E k \in Reached(p) :
                        LET x == fn.body[k]
                        IN  Dangerous(x, p) \/ (x.api \in Sinks[rule] /\ Tainted(x.of)
                                                /\ x.form = "updir")
    BY DEF ConfirmedIsReal
  <2>1. /\ rule \in Rules /\ Sound(saved) /\ Evaluate(rule, saved, sentinel) = Confirmed
    BY VerdictOnTrace, NotAVerdict DEF Verdicts
  <2>2. PICK c \in saved : Offends(c)
    BY <2>1, WhatOraclesSay
  <2>3. PICK n \in DOMAIN Probes : \E k \in Reached(Probes[n]) : c \in Noted(k, Probes[n])
    BY <2>1, <2>2 DEF Sound
  <2>5. PICK k \in Reached(Probes[n]) : c \in Noted(k, Probes[n])
    BY <2>3
  <2>4. Probes[n] \in AllProbes /\ fn.body[k] \in Stmt
    BY <2>1, ProbeNames, ReachedIsStmt
  <2> QED BY <2>1, <2>2, <2>4, <2>5, NotedIsDanger DEF Noted
<1> QED BY <1>1, TracesAreComplete, PTL

(* For every function and signature: what is cleared, and so every patch   *)
(* that is validated, is safe against every probe on every path the probes *)
(* take, lists given to a shell excepted.                                  *)
THEOREM ClearanceIsSafe == Spec => []ClearedIsSafe
<1>1. IInv => ClearedIsSafe
  <2> SUFFICES ASSUME IInv, verdict = NotReproduced, NEW p \in AllProbes, NEW k \in Reached(p),
                      Dangerous(fn.body[k], p), fn.body[k].form # "list shell"
               PROVE  FALSE
    BY DEF ClearedIsSafe
  <2>1. /\ rule \in Rules /\ Complete(saved, Len(Probes) + 1)
        /\ Evaluate(rule, saved, sentinel) = NotReproduced
    BY VerdictOnTrace, NotAVerdict DEF Verdicts
  <2>2. PICK c \in Noted(k, p) : Offends(c)
    BY <2>1, ReachedIsStmt, DangerIsNoted DEF Noted
  <2>3. PICK n \in DOMAIN Probes : Probes[n] = p /\ n < Len(Probes) + 1
    BY <2>1, ProbeNames
  <2>4. c \in saved
    BY <2>1, <2>2, <2>3 DEF Complete
  <2> QED BY <2>1, <2>2, <2>4, WhatOraclesSay DEF Confirmed, NotReproduced
<1> QED BY <1>1, TracesAreComplete, PTL

LEMMA UnboundIsUncertain ==
  ASSUME IInv, fn \in {None, Unusable} \/ ~CallBinds, verdict # None
  PROVE  verdict = Uncertain
<1>1. \A p : Reached(p) = {}
  BY DEF Reached
<1>2. rule \in Rules /\ Sound(saved) /\ verdict = Evaluate(rule, saved, sentinel)
  BY VerdictOnTrace
<1>3. saved = {}
  BY <1>1, <1>2 DEF Sound
<1> QED BY <1>2, <1>3, WhatOraclesSay

(* For every signature and patch: a call Python rejects leaves nothing to  *)
(* judge by.                                                               *)
THEOREM UnboundCallsAreUncertain == Spec => []UnboundJudgesNothing
<1>1. IInv => UnboundJudgesNothing
  BY UnboundIsUncertain DEF UnboundJudgesNothing
<1> QED BY <1>1, TracesAreComplete, PTL

-----------------------------------------------------------------------------
(* Types.                                                                  *)

AllCalls == {Call(k, s) : k \in CallKinds, s \in {"first", "second"}}

LEMMA RecordsAreCalls ==
  ASSUME sentinel \in {"first", "second"}, NEW x, NEW t, NEW p
  PROVE  Record(x, t, p, sentinel) \subseteq AllCalls
<1>1. \A k \in CallKinds : Call(k, sentinel) \in AllCalls
  BY DEF AllCalls
<1>2. /\ Call("text", sentinel) \in AllCalls /\ Call("bound", sentinel) \in AllCalls
      /\ Call("other", sentinel) \in AllCalls /\ Call("dotdot", sentinel) \in AllCalls
      /\ Call("absolute", sentinel) \in AllCalls
  BY <1>1 DEF CallKinds
<1>3. RecordQuery(x, sentinel) \in AllCalls
  BY <1>2 DEF RecordQuery
<1>4. RecordCommand(x, sentinel) \in AllCalls
  BY <1>2 DEF RecordCommand
<1>5. PathOf(x, p, sentinel) \in AllCalls
  BY <1>2 DEF PathOf
<1>6. RecordPath(x, p, sentinel) \subseteq AllCalls
  BY <1>2, <1>5 DEF RecordPath
<1> QED BY <1>2, <1>3, <1>4, <1>6 DEF Record

LEMMA HarnessStepTypes ==
  ASSUME IInv, TypeOK, HarnessStep, UNCHANGED pathVars
  PROVE  TypeOK'
<1>0. /\ rule \in Rules /\ sentinel \in {"first", "second"} /\ ip \in Nat \ {0}
      /\ probe \in 1..Len(Probes) /\ dumpable \in BOOLEAN
      /\ calls \subseteq AllCalls /\ (saved # None => saved \subseteq AllCalls)
  BY DEF TypeOK, AllCalls
<1>1. UNCHANGED <<rule, sentinel, target, fn, pathVars>> /\ Probes' = Probes
  BY DEF HarnessStep, CallTarget, ExecuteStatement, ReturnFromTarget, DumpTrace, Probes
<1>2. Len(Probes) \in {1, 2} /\ DOMAIN Probes = 1..Len(Probes)
  BY <1>0, ProbesAre
<1>3. NextProbe => step' \in Steps /\ probe' \in 1..Len(Probes) /\ ip' \in Nat \ {0}
  BY <1>0, <1>2 DEF NextProbe, Steps
<1>4. step' \in Steps /\ probe' \in 1..Len(Probes) /\ ip' \in Nat \ {0}
  BY <1>0, <1>3 DEF TypeOK, HarnessStep, CallTarget, ExecuteStatement, ReturnFromTarget, DumpTrace, Steps
<1>5. dumpable' \in BOOLEAN
  BY <1>0 DEF HarnessStep, CallTarget, ExecuteStatement, ReturnFromTarget, DumpTrace
<1>6. calls' \subseteq AllCalls
  BY <1>0, RecordsAreCalls DEF HarnessStep, CallTarget, ExecuteStatement, ReturnFromTarget, DumpTrace
<1>7. saved' # None => saved' \subseteq AllCalls
  BY <1>0 DEF HarnessStep, CallTarget, ExecuteStatement, ReturnFromTarget, DumpTrace
<1>8. \A T \in {calls'} \cup ({saved'} \ {None}) : T \subseteq AllCalls
  BY <1>6, <1>7
<1> QED BY <1>1, <1>4, <1>5, <1>8 DEF TypeOK, pathVars, AllCalls

LEMMA StepTypes ==
  ASSUME IInv, TypeOK, [Next]_vars
  PROVE  TypeOK'
<1>0. rule \in Rules /\ defs \in Seq(Definition) /\ \A T : Evaluate(rule, T, sentinel) \in Verdicts
  BY DEF IInv, PathInv, Evaluate, EvaluateSqli, EvaluateCmdi, EvaluatePathTraversal, Verdicts
<1>1. CASE RunTest
  BY <1>1, HarnessStepTypes DEF RunTest
<1>2. Probes' = Probes \/ rule' # rule
  BY DEF Probes
<1>3. CASE Load
  BY <1>2, <1>3 DEF Load, TypeOK, harnessVars, PathSteps
<1>4. CASE Analyze
  <2>1. DOMAIN AnalyzeFinding(defs, span) = DOMAIN NoTarget
    BY DEF AnalyzeFinding, NoTarget
  <2> QED BY <1>2, <1>4, <2>1 DEF Analyze, TypeOK, PathSteps
<1>5. ASSUME NEW s \in {"first", "second"}, StartHarness(s), rule' = rule
      PROVE  /\ step' \in Steps /\ sentinel' \in {"first", "second"}
             /\ probe' \in 1..Len(Probes') /\ ip' \in Nat \ {0} /\ dumpable' \in BOOLEAN
             /\ \A T \in {calls'} \cup ({saved'} \ {None}) :
                  T \subseteq {Call(k, r) : k \in CallKinds, r \in {"first", "second"}}
  BY <1>0, <1>2, <1>5, ProbesAre DEF StartHarness, Steps
<1>6. CASE Generate
  <2>1. CASE Skipped
    BY <1>2, <1>6, <2>1 DEF Generate, TypeOK, harnessVars, PathSteps
  <2>2. CASE ~Skipped
    <3>1. /\ UNCHANGED <<rule, target, patched, verdict, kind>> /\ pc' = "repro"
          /\ StartHarness("first")
      BY <1>6, <2>2 DEF Generate
    <3>2. fn' \in Definition \cup {None, Unusable}
      BY <1>6, StepIInv DEF IInv, PathInv, Next
    <3> QED BY <1>5, <3>1, <3>2 DEF TypeOK, PathSteps
  <2> QED BY <2>1, <2>2
<1>7. CASE Judge \/ JudgePatch
  <2>1. /\ UNCHANGED <<harnessVars, patched>> /\ verdict' \in Verdicts \cup {None}
        /\ pc' \in {"ask", "over"}
    BY <1>0, <1>7 DEF Judge, JudgePatch, Judgement
  <2>2. kind' \in PatchKinds \cup {None}
    BY <1>7 DEF Judge, JudgePatch, TypeOK, KindOf, PatchKinds
  <2> QED BY <1>2, <2>1, <2>2 DEF TypeOK, harnessVars, PathSteps
<1>8. ASSUME NEW file \in Files, NEW a \in Answers[rule],
             ModelError(file, a) \/ RefusePatch(file, a)
      PROVE  TypeOK'
  <2>1. UNCHANGED <<harnessVars, patched, verdict>> /\ pc' = "over" /\ kind' \in {kind, Failed}
    BY <1>8 DEF ModelError, RefusePatch
  <2> QED BY <1>2, <2>1 DEF TypeOK, harnessVars, PathSteps, PatchKinds
<1>9. ASSUME NEW file \in Files, NEW a \in Answers[rule], ApplyPatch(file, a)
      PROVE  TypeOK'
  <2>1. /\ UNCHANGED <<rule, sentinel, target, step, probe, ip, calls, dumpable, saved, kind>>
        /\ pc' = "start" /\ verdict' = None /\ fn' \in Redefined(file, a)
        /\ patched' \in {None, a.def}
    BY <1>9 DEF ApplyPatch
  <2>2. fn' \in Definition \cup {None, Unusable}
    BY <1>0, <2>1, RedefinedIsDefined
  <2>3. patched' \in Definition \cup {None, Unusable}
    BY <1>0, <2>1, DefinitionAssumption
  <2> QED BY <1>2, <2>1, <2>2, <2>3 DEF TypeOK, PathSteps
<1>10. CASE StartVerification
  <2>1. /\ UNCHANGED <<rule, target, fn, patched, verdict, kind>> /\ pc' = "verify"
        /\ StartHarness("second")
    BY <1>10 DEF StartVerification
  <2> QED BY <1>5, <2>1 DEF TypeOK, PathSteps
<1>11. CASE UNCHANGED vars
  BY <1>2, <1>11 DEF vars, harnessVars, pathVars, TypeOK
<1> QED BY <1>1, <1>3, <1>4, <1>6, <1>7, <1>8, <1>9, <1>10, <1>11 DEF Next

(* Every variable keeps its type, and every call the recorders hold is one *)
(* of the kinds the oracles tell apart.                                    *)
THEOREM TypesAreKept == Spec => []TypeOK
<1>1. Init => TypeOK
  <2> SUFFICES ASSUME Init PROVE TypeOK
    OBVIOUS
  <2>1. probe \in 1..Len(Probes)
    BY ProbesAre DEF Init
  <2> QED BY <2>1 DEF Init, TypeOK, Steps, PathSteps
<1>2. IInv /\ TypeOK /\ [Next]_vars => TypeOK'
  BY StepTypes
<1> QED BY <1>1, <1>2, TracesAreComplete, PTL DEF Spec
=============================================================================
