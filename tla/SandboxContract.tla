-------------------------- MODULE SandboxContract ---------------------------
(***************************************************************************)
(* What run_command and apply_and_verify_patch rely on when they call      *)
(* sandbox.run: a result with a trace_path means that this very run wrote  *)
(* the file there, whole; a result without one leaves the workdir's file   *)
(* as it was.  Anything raised ends secfix.  The two calls of a finding    *)
(* share the workdir, so the second one finds the first one's file.        *)
(***************************************************************************)
EXTENDS Naturals

CONSTANT Nothing   \* no file, no answer

VARIABLES
  state,    \* "idle", "busy" or "gone": secfix, between calls, in one, ended
  n,        \* the calls made so far; the last one is the n-th
  file,     \* the workdir's trace file: [by, whole], or Nothing
  answer    \* "trace", "none" or "raised" for the n-th call, or Nothing

vars == <<state, n, file, answer>>

Trace(k)   == [by |-> k, whole |-> TRUE]
Garbled(k) == [by |-> k, whole |-> FALSE]

Init == state = "idle" /\ n = 0 /\ file = Nothing /\ answer = Nothing

Call ==
  /\ state = "idle"
  /\ state' = "busy" /\ n' = n + 1 /\ answer' = Nothing
  /\ UNCHANGED file

ReturnTrace ==
  /\ state = "busy"
  /\ state' = "idle" /\ answer' = "trace" /\ file' = Trace(n)
  /\ UNCHANGED n

ReturnNone ==
  /\ state = "busy"
  /\ state' = "idle" /\ answer' = "none"
  /\ UNCHANGED <<n, file>>

Raise ==
  /\ state = "busy"
  /\ state' = "gone" /\ answer' = "raised"
  /\ file' \in {file, Garbled(n)}
  /\ UNCHANGED n

Die ==
  /\ state # "gone"
  /\ state' = "gone"
  /\ UNCHANGED <<n, file, answer>>

Next == Call \/ ReturnTrace \/ ReturnNone \/ Raise \/ Die

Spec == Init /\ [][Next]_vars
=============================================================================
