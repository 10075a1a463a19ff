------------------------ MODULE DockerSandboxProofs -------------------------
(***************************************************************************)
(* What DockerSandbox leaves behind and what it hands back, for any number *)
(* of calls, any chatter of the target and any amount of it.               *)
(***************************************************************************)
EXTENDS DockerSandbox, SequenceTheorems, TLAPS

-----------------------------------------------------------------------------

(* The type invariant holds in the initial states ...                      *)
LEMMA InitTypeOK == Init => TypeOK
<1> SUFFICES ASSUME Init PROVE TypeOK
  OBVIOUS
<1>1. Markers \in Seq(Tokens)
  BY DEF Markers, Tokens
<1>2. <<>> \in Seq(Tokens)
  OBVIOUS
<1>3. late \in [Calls -> {"no", "build", "run"}]
  BY DEF Init
<1> QED
  BY <1>1, <1>2, <1>3, BoundsAssumption DEF Init, TypeOK, Steps, Ended

(* ... and is kept by every step.                                          *)
LEMMA StepTypeOK == TypeOK /\ [Next]_vars => TypeOK'
<1> SUFFICES ASSUME TypeOK, [Next]_vars PROVE TypeOK'
  OBVIOUS
<1> USE BoundsAssumption DEF Steps, Ended, daemonVars, outputVars
<1>1. CASE Call
  <2>1. Markers \in Seq(Tokens) /\ <<>> \in Seq(Tokens)
    BY DEF Markers, Tokens
  <2>2. n' \in 0..MaxCalls /\ n' > 0 /\ 1..n \subseteq 1..n'
    BY <1>1 DEF Call, TypeOK
  <2>3. late' \in [Calls -> {"no", "build", "run"}]
    BY <1>1 DEF Call, TypeOK
  <2> QED BY <1>1, <2>1, <2>2, <2>3 DEF Call, TypeOK
<1>2. CASE SetupRaises \/ BuildReturns \/ ExtractNothing \/ ExtractRaises
  BY <1>2 DEF SetupRaises, BuildReturns, ExtractNothing, ExtractRaises, Answer, Answers, TypeOK
<1>3. CASE StartBuild \/ StartContainer \/ RunFails \/ ExecuteReturns \/ Rmi \/ Die
  <2>1. CASE StartBuild
    BY <2>1 DEF StartBuild, TypeOK
  <2>2. CASE StartContainer \/ RunFails
    <3>1. n \in 1..n
      BY <2>2 DEF StartContainer, RunFails, TypeOK
    <3> QED BY <2>2, <3>1 DEF StartContainer, RunFails, TypeOK
  <2>3. CASE ExecuteReturns
    BY <2>3 DEF ExecuteReturns, TypeOK
  <2>4. CASE Rmi
    BY <2>4 DEF Rmi, TypeOK
  <2>5. CASE Die
    BY <2>5 DEF Die, TypeOK
  <2> QED BY <1>3, <2>1, <2>2, <2>3, <2>4, <2>5
<1>4. CASE BuildTimesOut
  BY <1>4 DEF BuildTimesOut, Answer, Answers, TypeOK
<1>5. CASE ExecuteTimesOut
  <2>1. PICK k \in 0..Len(written) : stdout' = SubSeq(written, 1, k)
    BY <1>5 DEF ExecuteTimesOut
  <2>2. \A j \in 1..k : written[j] \in Tokens
    BY DEF TypeOK
  <2>3. stdout' \in Seq(Tokens)
    BY <2>1, <2>2, SubSeqProperties
  <2> QED BY <1>5, <2>3 DEF ExecuteTimesOut, TypeOK
<1>6. CASE ExtractTrace
  <2>1. n \in Calls /\ (Between(stdout) = <<"trace">>) \in BOOLEAN
    BY <1>6 DEF ExtractTrace, TypeOK, Calls
  <2>2. file' \in File
    BY <1>6, <2>1 DEF ExtractTrace, File
  <2> QED BY <1>6, <2>2 DEF ExtractTrace, Answer, Answers, TypeOK
<1>7. CASE Prints
  <2>1. written' \in Seq(Tokens) /\ todo' \in Seq(Tokens)
    <3>1. CASE /\ todo # <<>>
               /\ written' = Append(written, Head(todo)) /\ todo' = Tail(todo)
      <4>1. Head(todo) \in Tokens /\ Tail(todo) \in Seq(Tokens)
        BY <3>1, HeadTailProperties DEF TypeOK
      <4> QED BY <3>1, <4>1 DEF TypeOK
    <3>2. CASE \E c \in Chatter : written' = Append(written, c) /\ UNCHANGED todo
      BY <3>2 DEF TypeOK, Tokens
    <3> QED BY <1>7, <3>1, <3>2 DEF Prints
  <2> QED BY <1>7, <2>1 DEF Prints, TypeOK
<1>8. CASE \E k \in Calls : BuildEnds(k) \/ ContainerEnds(k)
  BY <1>8 DEF BuildEnds, ContainerEnds, TypeOK
<1>9. CASE UNCHANGED vars
  BY <1>9 DEF vars, TypeOK
<1> QED
  BY <1>1, <1>2, <1>3, <1>4, <1>5, <1>6, <1>7, <1>8, <1>9 DEF Next, Run

-----------------------------------------------------------------------------

(* What a step of the call at hand, or of the daemon, does to what is left *)
(* behind.                                                                 *)
LEMMA StepCallInv ==
  TypeOK /\ TypeOK' /\ CallInv /\ LeftoversOnlyAfterTimeout /\ [Next]_vars
    => CallInv' /\ LeftoversOnlyAfterTimeout'
<1> SUFFICES ASSUME TypeOK, TypeOK', CallInv, LeftoversOnlyAfterTimeout, [Next]_vars
             PROVE  CallInv' /\ LeftoversOnlyAfterTimeout'
  OBVIOUS
<1> USE BoundsAssumption
    DEF Steps, Ended, daemonVars, outputVars, TypeOK, CallInv, LeftoversOnlyAfterTimeout, Calls
<1>1. CASE Call
  BY <1>1 DEF Call
<1>2. CASE SetupRaises \/ BuildReturns
  BY <1>2 DEF SetupRaises, BuildReturns, Answer
<1>3. CASE ExtractNothing \/ ExtractRaises \/ ExtractTrace
  BY <1>3 DEF ExtractNothing, ExtractRaises, ExtractTrace, Answer
<1>4. CASE StartBuild \/ StartContainer \/ RunFails
  BY <1>4 DEF StartBuild, StartContainer, RunFails
<1>5. CASE BuildTimesOut
  BY <1>5 DEF BuildTimesOut, Answer
<1>6. CASE ExecuteReturns \/ ExecuteTimesOut
  <2>1. CASE ExecuteReturns
    BY <2>1 DEF ExecuteReturns
  <2>2. CASE ExecuteTimesOut
    BY <2>2 DEF ExecuteTimesOut
  <2> QED BY <1>6, <2>1, <2>2
<1>7. CASE Rmi
  BY <1>7 DEF Rmi
<1>8. CASE Die \/ Prints
  BY <1>8 DEF Die, Prints
<1>9. CASE \E k \in Calls : BuildEnds(k)
  BY <1>9 DEF BuildEnds
<1>10. CASE \E k \in Calls : ContainerEnds(k)
  BY <1>10 DEF ContainerEnds
<1>11. CASE UNCHANGED vars
  BY <1>11 DEF vars
<1> QED
  BY <1>1, <1>2, <1>3, <1>4, <1>5, <1>6, <1>7, <1>8, <1>9, <1>10, <1>11 DEF Next, Run

LEMMA OneToken ==
  ASSUME NEW out \in Seq(Tokens), NEW k \in 1..Len(out)
  PROVE  SubSeq(out, k, k) = <<out[k]>>
<1>1. SubSeq(out, k, k) = <<out[k]>> \o SubSeq(out, k + 1, k)
  BY SubSeqRecursiveFirst
<1>2. SubSeq(out, k + 1, k) = <<>>
  BY SubSeqEmpty
<1>3. <<out[k]>> \in Seq(Tokens)
  OBVIOUS
<1> QED BY <1>1, <1>2, <1>3, ConcatEmptySeq

(* Of an output with but text around it, the trace is what is extracted.   *)
LEMMA UndisturbedIsExtracted ==
  ASSUME NEW out \in Seq(Tokens), Undisturbed(out)
  PROVE  HasMarkers(out) /\ EndsAfter(out) # {} /\ Between(out) = <<"trace">>
<1>1. PICK a \in DOMAIN out :
        /\ a + 2 \in DOMAIN out
        /\ out[a] = "start" /\ out[a + 1] = "trace" /\ out[a + 2] = "end"
        /\ \A k \in DOMAIN out \ (a..(a + 2)) : out[k] = "text"
  BY DEF Undisturbed
<1>2. DOMAIN out = 1..Len(out) /\ a \in 1..Len(out) /\ a + 2 \in 1..Len(out)
  BY <1>1
<1>3. \A k \in DOMAIN out : /\ out[k] = "start" <=> k = a
                            /\ out[k] = "end" <=> k = a + 2
  <2> TAKE k \in DOMAIN out
  <2>1. k \in a..(a + 2) => k = a \/ k = a + 1 \/ k = a + 2
    BY <1>2
  <2> QED BY <1>1, <1>2, <2>1
<1>4. At(out, "start") = {a} /\ At(out, "end") = {a + 2}
  BY <1>1, <1>3 DEF At
<1>5. First(out) = a
  BY <1>2, <1>4 DEF First
<1>6. EndsAfter(out) = {a + 2}
  BY <1>2, <1>4, <1>5 DEF EndsAfter
<1>7. Between(out) = SubSeq(out, a + 1, a + 1)
  <2> DEFINE last == CHOOSE k \in EndsAfter(out) : \A j \in EndsAfter(out) : k <= j
  <2>1. last = a + 2
    BY <1>2, <1>6
  <2>2. Between(out) = SubSeq(out, First(out) + 1, last - 1)
    BY DEF Between
  <2> HIDE DEF last
  <2>3. last - 1 = a + 1
    BY <1>2, <2>1
  <2>4. First(out) + 1 = a + 1
    BY <1>5
  <2> QED BY <2>2, <2>3, <2>4, Zenon
<1>8. SubSeq(out, a + 1, a + 1) = <<out[a + 1]>>
  BY <1>2, OneToken
<1> QED BY <1>1, <1>4, <1>6, <1>7, <1>8 DEF HasMarkers

(* Only a call that ends changes whether the trace is judged.              *)
LEMMA StepPrinted ==
  TypeOK /\ CallInv /\ PrintedTraceIsJudged /\ [Next]_vars => PrintedTraceIsJudged'
<1> SUFFICES ASSUME TypeOK, CallInv, PrintedTraceIsJudged, [Next]_vars,
                    pc' = "idle", Undisturbed(stdout')
             PROVE  answer' = "trace"
  BY DEF PrintedTraceIsJudged
<1>1. CASE BuildReturns \/ BuildTimesOut \/ SetupRaises
  <2>1. stdout = <<>> /\ stdout' = stdout
    BY <1>1 DEF CallInv, BuildReturns, BuildTimesOut, SetupRaises
  <2> QED BY <2>1 DEF Undisturbed
<1>2. CASE ExtractNothing \/ ExtractRaises \/ ExtractTrace
  <2>1. stdout' = stdout /\ stdout \in Seq(Tokens)
    BY <1>2 DEF ExtractNothing, ExtractRaises, ExtractTrace, TypeOK
  <2>2. HasMarkers(stdout) /\ EndsAfter(stdout) # {} /\ Between(stdout) = <<"trace">>
    BY <2>1, UndisturbedIsExtracted
  <2> QED BY <1>2, <2>2 DEF ExtractNothing, ExtractRaises, ExtractTrace, Answer
<1>3. CASE \/ Call \/ StartBuild \/ StartContainer \/ RunFails \/ ExecuteReturns
           \/ ExecuteTimesOut \/ Rmi \/ Die
  BY <1>3 DEF Call, StartBuild, StartContainer, RunFails, ExecuteReturns, ExecuteTimesOut,
     Rmi, Die
<1>4. CASE UNCHANGED <<pc, stdout, answer>>
  <2>1. pc = "idle" /\ Undisturbed(stdout)
    BY <1>4 DEF Undisturbed
  <2> QED BY <1>4, <2>1 DEF PrintedTraceIsJudged
<1>5. CASE Prints \/ \E k \in Calls : BuildEnds(k) \/ ContainerEnds(k)
  BY <1>4, <1>5 DEF Prints, BuildEnds, ContainerEnds
<1> QED
  BY <1>1, <1>2, <1>3, <1>4, <1>5 DEF Next, Run, vars

(* The inductive invariant.                                                *)
LEMMA Invariance == Spec => []IInv
<1>1. Init => IInv
  <2> SUFFICES ASSUME Init PROVE IInv
    OBVIOUS
  <2>1. CallInv
    BY BoundsAssumption DEF Init, CallInv, Calls
  <2>2. LeftoversOnlyAfterTimeout
    BY DEF Init, LeftoversOnlyAfterTimeout
  <2>3. PrintedTraceIsJudged
    BY DEF Init, PrintedTraceIsJudged, Undisturbed
  <2> QED BY InitTypeOK, <2>1, <2>2, <2>3 DEF IInv
<1>2. IInv /\ [Next]_vars => IInv'
  BY StepTypeOK, StepCallInv, StepPrinted DEF IInv
<1> QED
  BY <1>1, <1>2, PTL DEF Spec

(* Nothing is left behind by a call that no timeout has cut off.           *)
THEOREM Leftovers == Spec => []LeftoversOnlyAfterTimeout
BY Invariance, PTL DEF IInv

(* A trace that got as far as secfix is judged.                            *)
THEOREM TraceIsJudged == Spec => []PrintedTraceIsJudged
BY Invariance, PTL DEF IInv

-----------------------------------------------------------------------------

(* What the abstract states are.                                           *)
LEMMA StepMapped ==
  IInv /\ [Next]_vars => [Contract!Next]_(Contract!vars)
<1> SUFFICES ASSUME IInv, [Next]_vars PROVE [Contract!Next]_(Contract!vars)
  OBVIOUS
<1> USE DEF Ended, daemonVars, outputVars
<1>1. CASE Call
  BY <1>1 DEF Call, Contract!Call, Contract!Next
<1>2. CASE SetupRaises \/ ExtractRaises
  BY <1>2 DEF SetupRaises, ExtractRaises, Answer, Contract!Raise, Contract!Next
<1>3. CASE BuildReturns \/ BuildTimesOut \/ ExtractNothing
  BY <1>3 DEF BuildReturns, BuildTimesOut, ExtractNothing, Answer, Contract!ReturnNone,
     Contract!Next, Contract!vars
<1>4. CASE ExtractTrace
  <2>1. CASE Between(stdout) = <<"trace">>
    BY <1>4, <2>1 DEF ExtractTrace, Answer, Contract!ReturnTrace, Contract!Trace, Contract!Next
  <2>2. CASE Between(stdout) # <<"trace">>
    BY <1>4, <2>2 DEF ExtractTrace, Answer, Contract!Raise, Contract!Garbled, Contract!Next
  <2> QED BY <2>1, <2>2
<1>5. CASE StartBuild \/ StartContainer \/ RunFails \/ ExecuteReturns \/ ExecuteTimesOut \/ Rmi
  BY <1>5 DEF StartBuild, StartContainer, RunFails, ExecuteReturns, ExecuteTimesOut, Rmi,
     Contract!vars
<1>6. CASE Die
  BY <1>6 DEF Die, Contract!Die, Contract!Next
<1>7. CASE UNCHANGED <<pc, n, file, answer>>
  BY <1>7 DEF Contract!vars
<1>8. CASE Prints \/ \E k \in Calls : BuildEnds(k) \/ ContainerEnds(k)
  BY <1>7, <1>8 DEF Prints, BuildEnds, ContainerEnds
<1> QED
  BY <1>1, <1>2, <1>3, <1>4, <1>5, <1>6, <1>7, <1>8 DEF Next, Run, vars

(* DockerSandbox keeps the promise its callers rely on: a run's own whole  *)
(* trace or none.                                                          *)
THEOREM KeepsContract == Spec => ImplementsContract
<1>1. Init => Contract!Init
  BY DEF Init, Contract!Init
<1> QED
  BY <1>1, Invariance, StepMapped, PTL DEF Spec, ImplementsContract, Contract!Spec
=============================================================================
