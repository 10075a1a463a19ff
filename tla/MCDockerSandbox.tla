-------------------------- MODULE MCDockerSandbox ---------------------------
(* A small instance of DockerSandbox for TLC: the two calls of a finding.  *)
EXTENDS DockerSandbox

(* The target may print the markers, too: secfix's own sources have them.  *)
MCChatter == {"text", "start", "end"}
=============================================================================
