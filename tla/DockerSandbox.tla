--------------------------- MODULE DockerSandbox ----------------------------
(***************************************************************************)
(* sandbox/docker.py: one DockerSandbox.run after the other, each with an  *)
(* image and a container of its own, next to a docker daemon that goes on  *)
(* with what a killed client has asked of it.  Sandbox.DockerRun is the    *)
(* same call in one step.                                                  *)
(*                                                                         *)
(* The container's output is a sequence of tokens: "start", "trace", "end" *)
(* are what the harness prints, in this order, the tokens of Chatter what  *)
(* the target, its threads and pytest print between, before and after.     *)
(***************************************************************************)
EXTENDS Naturals, Sequences, FiniteSets, SequencesExt

CONSTANTS
  Nothing,     \* no file, no answer
  Chatter,     \* the tokens the target may print
  MaxCalls,    \* bound: the calls made
  MaxOutput    \* bound: the tokens one container prints

VARIABLES
  pc,          \* the step DockerSandbox.run is about to take
  n,           \* the call at hand, which names its image and container
  late,        \* late[k]: the command of call k whose timeout has expired
  builds,      \* daemon: images being built
  images,      \* daemon: tagged images
  dangling,    \* daemon: images without a tag
  containers,  \* daemon: containers running
  todo,        \* what the harness has left to print
  written,     \* what the n-th container has printed
  stdout,      \* what the client has passed on of it
  file,        \* the workdir's trace file: [by, whole], or Nothing
  answer       \* what became of the n-th call, or Nothing

daemonVars == <<builds, images, dangling, containers>>
outputVars == <<todo, written>>
vars == <<pc, n, late, daemonVars, outputVars, stdout, file, answer>>

Steps    == {"idle", "setup", "build", "start", "run", "rmi", "extract", "down", "dead"}
Ended    == {"idle", "down", "dead"}
Markers  == <<"start", "trace", "end">>   \* and the trace between them
Tokens   == {"start", "trace", "end"} \cup Chatter
Calls    == 1..MaxCalls
Answers  == {"trace", "none", "raised"}
File     == [by : Calls, whole : BOOLEAN]

ASSUME BoundsAssumption == MaxCalls \in Nat /\ MaxOutput \in Nat

(* What the target prints is no trace.                                     *)
ASSUME ChatterAssumption == "trace" \notin Chatter /\ Nothing \notin Answers \cup File

TypeOK ==
  /\ pc \in Steps /\ n \in 0..MaxCalls /\ (pc \notin Ended => n > 0)
  /\ late \in [Calls -> {"no", "build", "run"}]
  /\ builds \subseteq 1..n /\ images \subseteq 1..n
  /\ dangling \subseteq 1..n /\ containers \subseteq 1..n
  /\ todo \in Seq(Tokens) /\ written \in Seq(Tokens) /\ stdout \in Seq(Tokens)
  /\ file \in File \cup {Nothing} /\ answer \in Answers \cup {Nothing}

Init ==
  /\ pc = "idle" /\ n = 0 /\ late = [k \in Calls |-> "no"]
  /\ builds = {} /\ images = {} /\ dangling = {} /\ containers = {}
  /\ todo = Markers /\ written = <<>> /\ stdout = <<>>
  /\ file = Nothing /\ answer = Nothing

-----------------------------------------------------------------------------
(* DockerSandbox.run.                                                      *)

(* It returns a result, or raises what nobody catches.                     *)
Answer(a) == answer' = a /\ pc' = IF a = "raised" THEN "down" ELSE "idle"

Call ==
  /\ pc = "idle" /\ n < MaxCalls
  /\ n' = n + 1 /\ pc' = "setup" /\ answer' = Nothing
  /\ todo' = Markers /\ written' = <<>> /\ stdout' = <<>>
  /\ UNCHANGED <<late, daemonVars, file>>

(* The tree cannot be copied, or there is no docker to run.                *)
SetupRaises ==
  /\ pc = "setup"
  /\ Answer("raised")
  /\ UNCHANGED <<n, late, daemonVars, outputVars, stdout, file>>

StartBuild ==
  /\ pc = "setup"
  /\ pc' = "build" /\ builds' = builds \cup {n}
  /\ UNCHANGED <<n, late, images, dangling, containers, outputVars, stdout, file, answer>>

(* docker build has ended; when it has failed there is nothing to remove.  *)
BuildReturns ==
  /\ pc = "build" /\ n \notin builds
  /\ IF n \in images THEN pc' = "start" /\ UNCHANGED answer ELSE Answer("none")
  /\ UNCHANGED <<n, late, daemonVars, outputVars, stdout, file>>

(* The client is killed, and the image is not removed if the daemon has    *)
(* built it all the same, before or after that.                            *)
BuildTimesOut ==
  /\ pc = "build"
  /\ late' = [late EXCEPT ![n] = "build"]
  /\ Answer("none")
  /\ UNCHANGED <<n, daemonVars, outputVars, stdout, file>>

StartContainer ==
  /\ pc = "start"
  /\ pc' = "run" /\ containers' = containers \cup {n}
  /\ UNCHANGED <<n, late, builds, images, dangling, outputVars, stdout, file, answer>>

RunFails ==
  /\ pc = "start"
  /\ pc' = "rmi"
  /\ UNCHANGED <<n, late, daemonVars, outputVars, stdout, file, answer>>

ExecuteReturns ==
  /\ pc = "run" /\ n \notin containers
  /\ pc' = "rmi" /\ stdout' = written
  /\ UNCHANGED <<n, late, daemonVars, outputVars, file, answer>>

(* Mutant: no timeout.                                                     *)
BugNoTimeout == FALSE /\ UNCHANGED vars

(* The client is killed with what it has passed on so far; the container   *)
(* runs on.                                                                *)
ExecuteTimesOut ==
  /\ pc = "run"
  /\ late' = [late EXCEPT ![n] = "run"]
  /\ pc' = "rmi"
  /\ \E k \in 0..Len(written) : stdout' = SubSeq(written, 1, k)
  /\ UNCHANGED <<n, daemonVars, outputVars, file, answer>>

(* Mutant: the image of a run that has timed out is left alone.            *)
BugKeepImage ==
  /\ pc = "rmi"
  /\ pc' = "extract"
  /\ UNCHANGED <<n, late, daemonVars, outputVars, stdout, file, answer>>

(* docker rmi -f: of an image in use, it only takes the tag.               *)
Rmi ==
  /\ pc = "rmi"
  /\ pc' = "extract"
  /\ images' = images \ {n}
  /\ dangling' = IF n \in containers THEN dangling \cup {n} ELSE dangling
  /\ UNCHANGED <<n, late, builds, containers, outputVars, stdout, file, answer>>

-----------------------------------------------------------------------------
(* _extract_trace_from_stdout, and the caller's trace_from_json.           *)

At(out, token) == {k \in DOMAIN out : out[k] = token}

First(out) == CHOOSE k \in At(out, "start") : \A j \in At(out, "start") : k <= j

EndsAfter(out) == {k \in At(out, "end") : k > First(out)}

Between(out) ==
  SubSeq(out, First(out) + 1, (CHOOSE k \in EndsAfter(out) : \A j \in EndsAfter(out) : k <= j) - 1)

HasMarkers(out) == At(out, "start") # {} /\ At(out, "end") # {}

(* Mutant: a run without markers falls back on the workdir's trace file.   *)
BugFallBack ==
  /\ pc = "extract" /\ ~HasMarkers(stdout)
  /\ Answer(IF file = Nothing THEN "none" ELSE "trace")
  /\ UNCHANGED <<n, late, daemonVars, outputVars, stdout, file>>

ExtractNothing ==
  /\ pc = "extract" /\ ~HasMarkers(stdout)
  /\ Answer("none")
  /\ UNCHANGED <<n, late, daemonVars, outputVars, stdout, file>>

(* str.index raises when no end marker follows the start marker.           *)
ExtractRaises ==
  /\ pc = "extract" /\ HasMarkers(stdout) /\ EndsAfter(stdout) = {}
  /\ Answer("raised")
  /\ UNCHANGED <<n, late, daemonVars, outputVars, stdout, file>>

(* Mutant: what a run cut off by its timeout has printed is not looked at. *)
BugLateIsNone ==
  /\ pc = "extract" /\ HasMarkers(stdout) /\ EndsAfter(stdout) # {}
  /\ LET whole == Between(stdout) = <<"trace">>
     IN  /\ file' = IF late[n] = "run" THEN file ELSE [by |-> n, whole |-> whole]
         /\ Answer(IF late[n] = "run" THEN "none" ELSE IF whole THEN "trace" ELSE "raised")
  /\ UNCHANGED <<n, late, daemonVars, outputVars, stdout>>

(* What stands between the markers is written to the file.  If it is more  *)
(* or less than the trace, json.loads raises on it.                        *)
ExtractTrace ==
  /\ pc = "extract" /\ HasMarkers(stdout) /\ EndsAfter(stdout) # {}
  /\ LET whole == Between(stdout) = <<"trace">>
     IN  /\ file' = [by |-> n, whole |-> whole]
         /\ Answer(IF whole THEN "trace" ELSE "raised")
  /\ UNCHANGED <<n, late, daemonVars, outputVars, stdout>>

(* secfix is killed: no `finally`.                                         *)
Die ==
  /\ pc \notin {"down", "dead"}
  /\ pc' = "dead"
  /\ UNCHANGED <<n, late, daemonVars, outputVars, stdout, file, answer>>

-----------------------------------------------------------------------------
(* External: the daemon and the container.                                 *)

BuildEnds(k) ==
  /\ k \in builds
  /\ builds' = builds \ {k}
  /\ images' \in {images, images \cup {k}}
  /\ UNCHANGED <<pc, n, late, dangling, containers, outputVars, stdout, file, answer>>

Prints ==
  /\ pc = "run" /\ n \in containers /\ Len(written) < MaxOutput
  /\ \/ /\ todo # <<>>
        /\ written' = Append(written, Head(todo)) /\ todo' = Tail(todo)
     \/ \E c \in Chatter : written' = Append(written, c) /\ UNCHANGED todo
  /\ UNCHANGED <<pc, n, late, daemonVars, stdout, file, answer>>

(* By itself, whether or not it has printed a trace; --rm removes it.      *)
ContainerEnds(k) ==
  /\ k \in containers
  /\ containers' = containers \ {k}
  /\ UNCHANGED <<pc, n, late, builds, images, dangling, outputVars, stdout, file, answer>>

-----------------------------------------------------------------------------

Run ==
  \/ SetupRaises \/ StartBuild \/ BuildReturns \/ BuildTimesOut
  \/ StartContainer \/ RunFails \/ ExecuteReturns \/ ExecuteTimesOut
  \/ Rmi \/ ExtractNothing \/ ExtractRaises \/ ExtractTrace

Next ==
  \/ Call \/ Run \/ Die \/ Prints
  \/ \E k \in Calls : BuildEnds(k) \/ ContainerEnds(k)

Spec == Init /\ [][Next]_vars

(* secfix takes its steps, the two timeouts among them, and docker rmi     *)
(* answers.  Neither builds nor containers need ever end.                  *)
FairSpec == Spec /\ WF_vars(Run)

-----------------------------------------------------------------------------
(* Properties.                                                             *)

(* A timeout is the only way for a call that has ended to leave something  *)
(* behind, even though it is the daemon that owns what is left: after the  *)
(* build's a build or a tagged image, after the execution's a container    *)
(* and an image without a tag.                                             *)
LeftoversOnlyAfterTimeout ==
  \A k \in 1..n : pc # "dead" /\ (k = n => pc \in Ended) =>
    /\ k \in builds \cup images => late[k] = "build"
    /\ k \in dangling \cup containers => late[k] = "run"

(* The markers and the trace as they should be, and but text around them.  *)
Undisturbed(out) ==
  \E a \in DOMAIN out :
    /\ a + 2 \in DOMAIN out
    /\ out[a] = "start" /\ out[a + 1] = "trace" /\ out[a + 2] = "end"
    /\ \A k \in DOMAIN out \ (a..(a + 2)) : out[k] = "text"

(* A trace that was printed and passed on is never lost, be the run one    *)
(* that ended, or one cut off by its timeout after that.                   *)
PrintedTraceIsJudged ==
  pc = "idle" /\ Undisturbed(stdout) => answer = "trace"

(* However long the target runs, the call comes to an end.                 *)
CallsReturn == pc = "setup" ~> pc \in Ended

Contract == INSTANCE SandboxContract WITH
  state <- IF pc = "idle" THEN "idle" ELSE IF pc \in Ended THEN "gone" ELSE "busy"

(* The result is this run's own whole trace or none at all, whatever an    *)
(* earlier run left in the workdir and whenever the timeout strikes.       *)
ImplementsContract == Contract!Spec

-----------------------------------------------------------------------------
(* What makes them inductive: the call at hand, step by step.              *)

CallInv ==
  /\ pc \in {"setup", "build", "start"} => stdout = <<>>
  /\ pc \in {"setup", "build", "start", "run"} => late[n] = "no"
  /\ pc = "setup" => n \notin builds \cup images
  /\ pc \in {"setup", "build", "start"} => n \notin dangling \cup containers
  /\ pc \in {"start", "run", "rmi", "extract"} => n \notin builds
  /\ pc \in {"run", "rmi"} => n \notin dangling
  /\ pc \in {"rmi", "extract"} => (n \in dangling \cup containers => late[n] = "run")
  /\ pc = "extract" => n \notin images
  /\ \A k \in (n + 1)..MaxCalls : late[k] = "no"

IInv == TypeOK /\ CallInv /\ LeftoversOnlyAfterTimeout /\ PrintedTraceIsJudged
=============================================================================
