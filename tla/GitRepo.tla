------------------------------ MODULE GitRepo -------------------------------
(***************************************************************************)
(* The target's git repository, as the `git -C <repo>` calls of patch.py   *)
(* and cli.py drive it: HEAD, the local branches, the index and the        *)
(* working tree, compared file by file as git does.                        *)
(*                                                                         *)
(* External: modelled from the commands src/secfix runs.  Every operator   *)
(* is the successful command; a command that fails changes nothing.        *)
(***************************************************************************)
EXTENDS Code

CONSTANT Detached    \* HEAD points at a commit; rev-parse prints "HEAD"

VARIABLES
  head,     \* the checked-out branch, or Detached (at Main's commit)
  refs,     \* local branches: branch |-> tree of its tip commit
  index,    \* the staged tree
  tree      \* the working tree

gitVars == <<head, refs, index, tree>>

ASSUME DetachedAssumption == Detached \notin Id

GitTypeOK ==
  /\ head \in Id \cup {Detached}
  /\ DOMAIN refs \subseteq Id /\ refs \in [DOMAIN refs -> Tree]
  /\ Main \in DOMAIN refs
  /\ head # Detached => head \in DOMAIN refs
  /\ index \in Tree
  /\ tree \in Tree

-----------------------------------------------------------------------------

HeadTree == IF head = Detached THEN refs[Main] ELSE refs[head]

SameFile(s, t, F) == \A f \in Fn : FileOf[f] = F => s[f] = t[f]

(* Mutant: HEAD is named before the branch exists.                         *)
BugUnbornBranch(b) == head' = b /\ UNCHANGED <<refs, index, tree>>

(* git checkout -b b: a new branch at HEAD; index and tree are untouched.  *)
CheckoutNew(b) ==
  /\ refs' = [x \in DOMAIN refs \cup {b} |-> IF x = b THEN HeadTree ELSE refs[x]]
  /\ head' = b
  /\ UNCHANGED <<index, tree>>

(* git apply: the patch rewrites one function in the working tree only.    *)
Apply(f, v) ==
  /\ tree' = [tree EXCEPT ![f] = v]
  /\ UNCHANGED <<head, refs, index>>

(* git add <file>: stages the file as it is in the working tree.           *)
Add(F) ==
  /\ index' = [f \in Fn |-> IF FileOf[f] = F THEN tree[f] ELSE index[f]]
  /\ UNCHANGED <<head, refs, tree>>

(* git commit refuses when nothing is staged.                              *)
CanCommit == index # HeadTree

(* git commit: the whole index becomes the tip of the branch HEAD is on.   *)
Commit ==
  /\ refs' = [refs EXCEPT ![head] = index]
  /\ UNCHANGED <<head, index, tree>>

(* git checkout b carries local changes along where the two commits agree  *)
(* or the index already holds b's content, and refuses when a file that    *)
(* differs between the commits is modified.                                *)
Carried(t, F) == SameFile(HeadTree, t, F) \/ SameFile(index, t, F)

CanCheckout(t) ==
  \A F \in File : \/ Carried(t, F)
                  \/ SameFile(HeadTree, index, F) /\ SameFile(index, tree, F)

(* git checkout b; `git checkout HEAD` moves nothing.                      *)
Checkout(b) ==
  IF b = Detached THEN UNCHANGED gitVars
  ELSE LET t == refs[b]
       IN /\ CanCheckout(t)
          /\ head' = b
          /\ tree' = [f \in Fn |-> IF Carried(t, FileOf[f]) THEN tree[f] ELSE t[f]]
          /\ index' = [f \in Fn |-> IF SameFile(HeadTree, t, FileOf[f])
                                    THEN index[f] ELSE t[f]]
          /\ UNCHANGED refs
=============================================================================
