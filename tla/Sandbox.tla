------------------------------ MODULE Sandbox -------------------------------
(***************************************************************************)
(* Running a generated harness: LocalSandbox imports the target into this  *)
(* very interpreter, whose module cache outlives the run; DockerSandbox    *)
(* copies the working tree into an image and starts a fresh interpreter.   *)
(*                                                                         *)
(* `loaded` is the interpreter's sys.modules, `trace` the trace file in    *)
(* the finding's workdir: which harness (sentinel) wrote it and the code   *)
(* that ran.  A run that writes nothing leaves an older trace file behind. *)
(***************************************************************************)
EXTENDS GitRepo

CONSTANT None    \* no trace file, no report, no branch

VARIABLES
  loaded,   \* sys.modules: file |-> module object (an Env), or NotLoaded
  trace     \* the workdir's trace file, or None

sandboxVars == <<loaded, trace>>

(* A sentinel is drawn for every generated harness: one to reproduce, one  *)
(* to verify the patch.                                                    *)
Sentinel == [id : Id, phase : {"repro", "verify"}]

Written == [sentinel : Sentinel, fn : Fn, code : Env]

ASSUME NoneAssumption == None \notin Written /\ None \notin Id

SandboxTypeOK ==
  /\ loaded \in [File -> Env \cup {NotLoaded}]
  /\ trace \in Written \cup {None}

NothingLoaded == [F \in File |-> NotLoaded]

-----------------------------------------------------------------------------

(* A module object for file F alone, as tree t has it.                     *)
Leaf(t, F) == [f \in Fn |-> IF FileOf[f] = F THEN t[f] ELSE NotLoaded]

(* import F: nothing is executed when sys.modules has it; otherwise its    *)
(* imports come from the cache where they can, the rest from the tree.     *)
ImportFails(cache, F) ==
  /\ cache[F] = NotLoaded
  /\ \E G \in Modules(F) : cache[G] = NotLoaded /\ BrokenFile(tree, G)

Object(cache, F) == IF cache[F] = NotLoaded THEN Leaf(tree, F) ELSE cache[F]

Linked(cache, F) ==
  IF cache[F] # NotLoaded THEN cache[F]
  ELSE [f \in Fn |-> IF FileOf[f] \in Modules(F)
                     THEN Object(cache, FileOf[f])[f] ELSE NotLoaded]

(* sys.modules after the import, failed or not: a module whose own code    *)
(* raised is taken out again, what it had imported stays.                  *)
Imported(cache, F) ==
  [G \in File |->
     IF cache[F] # NotLoaded \/ G \notin Modules(F) \/ cache[G] # NotLoaded
     THEN cache[G]
     ELSE IF BrokenFile(tree, G) \/ (G = F /\ ImportFails(cache, F)) THEN NotLoaded
     ELSE IF G = F THEN Linked(cache, F)
     ELSE Leaf(tree, G)]

(* LocalSandbox.run.  `invalidate` purges the target module, and no other, *)
(* from sys.modules first.  Nothing bounds a run: code that hangs, hangs.  *)
Purged(F, invalidate) ==
  IF invalidate THEN [loaded EXCEPT ![F] = NotLoaded] ELSE loaded

LocalHangs(f, invalidate) ==
  LET cache == Purged(FileOf[f], invalidate)
  IN  ~ImportFails(cache, FileOf[f]) /\ Hangs(Linked(cache, FileOf[f]), f)

LocalRun(f, s, invalidate) ==
  LET cache == Purged(FileOf[f], invalidate)
      code  == Linked(cache, FileOf[f])
  IN  /\ loaded' = Imported(cache, FileOf[f])
      /\ trace' = IF ImportFails(cache, FileOf[f]) \/ Silent(code, f)
                  THEN trace
                  ELSE [sentinel |-> s, fn |-> f, code |-> code]
      /\ UNCHANGED gitVars

(* DockerSandbox.run: the container imports everything from the copied     *)
(* working tree, and code that hangs is cut off by the timeout, without a  *)
(* trace (execution is cut before the harness prints it).                  *)
FreshTraces(t, f) ==
  /\ \A G \in Modules(FileOf[f]) : ~BrokenFile(t, G)
  /\ ~Silent(t, f)
  /\ ~Hangs(t, f)

(* The result's trace_path is None unless this very run printed a trace.   *)
DockerRun(f, s) ==
  /\ trace' = IF FreshTraces(tree, f) THEN [sentinel |-> s, fn |-> f, code |-> tree]
                                      ELSE trace
  /\ UNCHANGED <<gitVars, loaded>>
=============================================================================
