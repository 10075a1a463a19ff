-------------------------------- MODULE Code --------------------------------
(***************************************************************************)
(* The target repository's code, as far as secfix can tell it apart: a     *)
(* flat set of functions, the file (= importable module) each lives in,    *)
(* the functions of other modules each one calls, and for every version    *)
(* of a function what running it under a harness does.                     *)
(*                                                                         *)
(* External: this is the program under test, not secfix.                   *)
(***************************************************************************)
EXTENDS Naturals, Oracles

CONSTANTS
  Fn,           \* functions of the target repository
  FileOf,       \* FileOf[f]: the file that defines f
  Callees,      \* Callees[f]: functions of other files that f calls
  Behaviours,   \* what a version of a function may do when it is run
  NotLoaded     \* a function no module object in the interpreter holds

(* How the harness ends when it runs a function: it returns and writes its *)
(* trace, it dies before writing one (SystemExit, an unserialisable        *)
(* parameter), its module does not import, or it never returns.            *)
Outcomes == {"returns", "silent", "import_error", "hangs"}

File == {FileOf[f] : f \in Fn}

(* Identifies a scratch branch and the patch it was made for: the n-th     *)
(* finding of the r-th invocation.  Branch names carry a timestamp and a   *)
(* uuid4 suffix, sentinels 4 random bytes: both are taken to be unique.    *)
Id == [run : Nat, finding : Nat]

Main == [run |-> 0, finding |-> 0]   \* the branch the user starts on

(* A version of a function: who wrote it and what running it does.         *)
Version == [by : Id, behaviour : Behaviours]

Tree == [Fn -> Version]

(* A module object: the versions its functions execute, its own and those  *)
(* of the modules it was bound to when it was imported.                    *)
Env == [Fn -> Version \cup {NotLoaded}]

ASSUME BehavioursAssumption ==
  Behaviours \subseteq [outcome : Outcomes, calls : SUBSET CallKinds]

ASSUME CalleesAssumption ==
  /\ Callees \in [Fn -> SUBSET Fn]
  /\ \A f \in Fn : \A g \in Callees[f] :
        /\ FileOf[g] # FileOf[f]
        /\ \A h \in Fn : FileOf[h] = FileOf[g] => Callees[h] = {}

ASSUME NotLoadedAssumption == NotLoaded \notin Version

-----------------------------------------------------------------------------

(* The functions that run when f is called.                                *)
Reach(f) == {f} \cup Callees[f]

(* The modules that are imported with file F: F and what F's functions     *)
(* call.  Imported modules import nothing further (CalleesAssumption).     *)
Modules(F) ==
  LET called == UNION {Callees[f] : f \in {x \in Fn : FileOf[x] = F}}
  IN  {F} \cup {FileOf[g] : g \in called}

(* Module F cannot be imported from tree t.                                *)
BrokenFile(t, F) ==
  \E f \in Fn : FileOf[f] = F /\ t[f].behaviour.outcome = "import_error"

(* The sink calls the code of env c makes when f runs.                     *)
CallsOf(c, f) == UNION {c[g].behaviour.calls : g \in Reach(f)}

(* The trace the harness writes.                                           *)
TraceOf(c, f, s) == {Call(k, s) : k \in CallsOf(c, f)}

Hangs(c, f)  == \E g \in Reach(f) : c[g].behaviour.outcome = "hangs"
Silent(c, f) == \E g \in Reach(f) : c[g].behaviour.outcome = "silent"
=============================================================================
