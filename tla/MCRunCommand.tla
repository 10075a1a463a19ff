---------------------------- MODULE MCRunCommand ----------------------------
(* Small instances of RunCommand for TLC.                                  *)
EXTENDS RunCommandLifecycle

CONSTANTS f, g, h   \* functions of the target

(* Layouts: two functions in one file, with or without a helper in another *)
(* file; two in files of their own, where f may call g.                    *)
OneFile      == [x \in {f} |-> "a.py"]
TwoInOneFile == [x \in {f, g} |-> "a.py"]
WithHelper   == [x \in {f, g, h} |-> IF x = h THEN "b.py" ELSE "a.py"]
TwoFiles     == [x \in {f, g} |-> IF x = f THEN "a.py" ELSE "b.py"]

NoCallees1   == [x \in {f} |-> {}]
NoCallees2   == [x \in {f, g} |-> {}]
FCallsH      == [x \in {f, g, h} |-> IF x = f THEN {h} ELSE {}]
FCallsG      == [x \in {f, g} |-> IF x = f THEN {g} ELSE {}]

FindFG == <<f, g>>
FindGF == <<g, f>>
FindF  == <<f>>

Returning(calls) == [outcome |-> "returns", calls |-> calls]

Text     == Returning({"text"})
Bound    == Returning({"bound"})
Other    == Returning({"other"})
Broken   == [outcome |-> "import_error", calls |-> {}]
Silenced == [outcome |-> "silent", calls |-> {}]
Endless  == [outcome |-> "hangs", calls |-> {}]

TextBound   == {Text, Bound}
TextBoundBroken == {Text, Bound, Broken}
MostKinds   == {Text, Bound, Other, Broken, Endless}
SqlKinds    == {Text, Bound, Silenced}
HostileKinds == {Text, Bound, Silenced, Broken}
FaultKinds == {Text, Bound, Broken, Endless}

CleanStart == {[head |-> Main, edits |-> {}]}
DetachedStart == {[head |-> Detached, edits |-> {}]}
MixedStart == {[head |-> Main, edits |-> {f}], [head |-> Detached, edits |-> {}]}
AnyStart   == [head : {Main, Detached}, edits : SUBSET Fn]

NoFaults == {}
NoBranch == {"branch"}
SomeFaults == {"model", "branch", "commit", "restore"}
CaughtFaults == {"docker", "branch", "apply", "commit", "restore", "push", "gh"}
EveryFault == FaultNames
TolerableFaults == {"docker", "model", "apply", "push", "gh"}
=============================================================================
