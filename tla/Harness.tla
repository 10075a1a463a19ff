------------------------------ MODULE Harness -------------------------------
(***************************************************************************)
(* The generated test of each rule (harness/python_sqli.py, _cmdi.py,      *)
(* _pathtraversal.py): it calls the function under test with a tainted     *)
(* argument, its sinks replaced by recorders, and dumps what they saw.     *)
(*                                                                         *)
(* The function under test is a sequence of statements, each one a call    *)
(* of an api with an argument of some form made from parameter `of`.  What *)
(* a statement of the target does is external; what the recorders note of  *)
(* it, and where the test goes from there, is secfix's.                    *)
(***************************************************************************)
EXTENDS Oracles, RepoAnalysis

CONSTANTS
  None,      \* no trace; no function of that name
  Unusable,  \* a module that cannot be imported, or has lost its getter
  Stmt       \* the statements functions are made of

VARIABLES
  rule,      \* --rule
  sentinel,  \* the sentinel of this harness
  target,    \* what analyze_finding returned
  fn,        \* what the target's name stands for: a definition, None, or Unusable
  step,      \* where the test is
  probe,     \* which of the rule's probes is being made
  ip,        \* the statement of fn about to be executed
  calls,     \* what the recorders hold: a set of calls
  dumpable,  \* json.dumps accepts all of it
  saved      \* the trace the test has written and printed, or None

harnessVars == <<rule, sentinel, target, fn, step, probe, ip, calls, dumpable, saved>>

Sinks == [sqli          |-> {"execute", "executemany"},
          cmdi          |-> {"system", "subprocess"},
          pathtraversal |-> {"open", "copy"}]

(* Statements that are no sink of any rule: one that raises, exits, uses   *)
(* what the stand-in for a cursor or a process does not have, or rejects   *)
(* the traversal probe; and a sink that no recorder replaces.              *)
Others == {"raise", "exit", "missing", "reject", "unpatched"}

(* The forms an argument may take at a sink; "none": it is not made from a *)
(* parameter.                                                              *)
Paths == {"raw", "join", "concat", "basename", "updir", "none"}

Forms == [execute     |-> {"text", "params", "bytes", "none"},
          executemany |-> {"text", "params", "bytes", "no rows", "none"},
          system      |-> {"string", "none"},
          subprocess  |-> {"string", "string shell", "list", "list shell", "bytes", "none"},
          open        |-> Paths,
          copy        |-> Paths]

ASSUME StmtAssumption ==
  \A x \in Stmt :
    /\ x \in [api : STRING, form : STRING, of : STRING]
    /\ IF x.api \in Others THEN x.form = "none"
       ELSE x.api \in DOMAIN Forms /\ x.form \in Forms[x.api]

ASSUME UnusableAssumption == Unusable # None

Steps == {"idle", "call", "body", "dump", "over"}

-----------------------------------------------------------------------------
(* The recorders.                                                          *)

(* _RecordingCursor: an executemany without rows records one call without  *)
(* parameters.                                                             *)
RecordQuery(x, s) ==
  Call(IF x.form = "text" THEN "text"
       ELSE IF x.form = "no rows" THEN "other" ELSE "bound", s)

(* os.system always runs a shell, subprocess.* with shell=True.            *)
Shell(x)  == x.api = "system" \/ x.form \in {"string shell", "list shell"}
IsStr(x)  == x.form \in {"string", "string shell"}

(* Mutant: a string is taken for a shell command, shell or not.            *)
BugRecordString(x, s) == Call(IF IsStr(x) THEN "text" ELSE "bound", s)

(* _CommandRecorder._record: a shell-interpreted command is a string, all  *)
(* else is recorded as argv.                                               *)
RecordCommand(x, s) == Call(IF IsStr(x) /\ Shell(x) THEN "text" ELSE "bound", s)

(* What reaches the sink when the probe ("../../../" or "/" before the     *)
(* sentinel) is passed on raw, joined to a base by os.path.join or by      *)
(* concatenation, or stripped to its last component, below a plain base or *)
(* one with ".." in it.                                                    *)
PathOf(x, p, s) ==
  Call(IF x.form = "updir" THEN "dotdot"
       ELSE IF p = "traversal" /\ x.form # "basename" THEN "dotdot"
       ELSE IF p = "absolute" /\ x.form \in {"raw", "join"} THEN "absolute"
       ELSE "text", s)

(* _PathRecorder: the functions with a source and a destination record     *)
(* both.                                                                   *)
RecordPath(x, p, s) ==
  {PathOf(x, p, s)} \cup (IF x.api = "copy" THEN {Call("other", s)} ELSE {})

(* What the rule's recorder adds to the trace when x is executed.          *)
Record(x, tainted, p, s) ==
  IF x.api \notin Sinks[rule] THEN {}
  ELSE IF ~tainted \/ x.form = "none" THEN {Call("other", s)}
  ELSE IF rule = "sqli" THEN {RecordQuery(x, s)}
  ELSE IF rule = "cmdi" THEN {RecordCommand(x, s)}
  ELSE RecordPath(x, p, s)

-----------------------------------------------------------------------------
(* The generated test.                                                     *)

(* Path traversal is probed twice.                                         *)
Probes == IF rule = "pathtraversal" THEN <<"traversal", "absolute">> ELSE <<"plain">>

(* generate_harness returns "skipped".                                     *)
Skipped ==
  \/ rule = "sqli" /\ target.db.kind = "unknown"
  \/ \E p \in target.benign : NoLiteral(p)

(* The keyword arguments; of equal keys the last one in the dict counts,   *)
(* and only the SQL harness passes a connection.                           *)
PassesConn == rule = "sqli" /\ target.db.kind = "param"

Keys == {p.name : p \in target.benign} \cup {target.tainted}
        \cup (IF PassesConn THEN {target.db.name} ELSE {})

Tainted(name) == name = target.tainted /\ ~(PassesConn /\ name = target.db.name)

(* Python accepts the call: every key is a parameter that may be passed by *)
(* keyword, and every parameter without a default is among the keys.       *)
CallBinds ==
  LET params == {fn.params[k] : k \in DOMAIN fn.params}
  IN  /\ Keys \subseteq {p.name : p \in {q \in params : q.kind # "posonly"}}
      /\ \A p \in params : p.default \/ p.name \in Keys

StartHarness(s) ==
  /\ sentinel' = s
  /\ step' = "call" /\ probe' = 1 /\ ip' = 1
  /\ calls' = {} /\ dumpable' = TRUE /\ saved' = None

(* Mutant: what the first probe raises ends the test's calls.              *)
BugOneTry == step' = "dump" /\ ip' = 1 /\ UNCHANGED probe

(* Mutant: one probe too many.                                             *)
BugOneMore ==
  /\ ip' = 1
  /\ IF probe <= Len(Probes) THEN step' = "call" /\ probe' = probe + 1
                             ELSE step' = "dump" /\ UNCHANGED probe

(* The call has returned or raised an Exception: on to the next probe.     *)
NextProbe ==
  /\ ip' = 1
  /\ IF probe < Len(Probes) THEN step' = "call" /\ probe' = probe + 1
                            ELSE step' = "dump" /\ UNCHANGED probe

CallTarget ==
  /\ step = "call"
  /\ IF fn = Unusable THEN step' = "over" /\ UNCHANGED <<ip, probe>>
     ELSE IF fn # None /\ CallBinds THEN step' = "body" /\ UNCHANGED <<ip, probe>>
     ELSE NextProbe
  /\ UNCHANGED <<rule, sentinel, target, fn, calls, dumpable, saved>>

Raises(x, p) == \/ x.api \in {"raise", "missing"}
                \/ x.api = "reject" /\ Tainted(x.of) /\ p = "traversal"

(* SystemExit is no Exception: the test ends without a trace.              *)
Exits(x) == x.api = "exit"

ExecuteStatement ==
  /\ step = "body" /\ ip \in DOMAIN fn.body
  /\ LET x == fn.body[ip]
         p == Probes[probe]
     IN /\ calls' = calls \cup Record(x, Tainted(x.of), p, sentinel)
        /\ dumpable' = (dumpable /\ ~(x.api \in Sinks[rule] /\ x.form = "bytes"))
        /\ IF Exits(x) THEN step' = "over" /\ UNCHANGED <<ip, probe>>
           ELSE IF Raises(x, p) THEN NextProbe
           ELSE ip' = ip + 1 /\ UNCHANGED <<step, probe>>
  /\ UNCHANGED <<rule, sentinel, target, fn, saved>>

ReturnFromTarget ==
  /\ step = "body" /\ ip \notin DOMAIN fn.body
  /\ NextProbe
  /\ UNCHANGED <<rule, sentinel, target, fn, calls, dumpable, saved>>

(* json.dumps raises on what it cannot serialise, and nothing is written.  *)
DumpTrace ==
  /\ step = "dump"
  /\ saved' = IF dumpable THEN calls ELSE None
  /\ step' = "over"
  /\ UNCHANGED <<rule, sentinel, target, fn, probe, ip, calls, dumpable>>

HarnessStep == CallTarget \/ ExecuteStatement \/ ReturnFromTarget \/ DumpTrace
=============================================================================
