---------------------------- MODULE RepoAnalysis ----------------------------
(***************************************************************************)
(* findings.py and repo.py: which results of a scan a rule takes on, which *)
(* definition encloses one, and how the harness is to call it.  Pure       *)
(* functions of the scan and of the syntax tree, abstracted to what they   *)
(* look at:                                                                *)
(*   result      classes   whose markers its rule id contains              *)
(*               readable  whether the file it names can be read           *)
(*   definition  name                                                      *)
(*               kind      "def" or "async"                                *)
(*               within    the kinds of the nodes that enclose it          *)
(*               lines     [first, last]                                   *)
(*               params    a sequence of parameters                        *)
(*               uses      names that occur in it: [name, line, call],     *)
(*                         call where the name is called                   *)
(*   parameter   name                                                      *)
(*               ann       "none", "str", "known" (another type there is a *)
(*                         literal for) or "other"                         *)
(*               kind      "plain", "posonly" or "kwonly"                  *)
(*               default   whether it has one                              *)
(***************************************************************************)
EXTENDS Integers, Sequences, FiniteSets

(* Stand for the names in CONN_PARAM_NAMES and in CONN_GETTER_NAMES.       *)
ConnNames   == {"conn"}
GetterNames == {"get_db"}

-----------------------------------------------------------------------------
(* findings.py                                                             *)

(* Every result's file is read, whatever its class, before the filter.     *)
LoadFails(results) == \E k \in DOMAIN results : ~results[k].readable

LoadFindings(results, rule) == SelectSeq(results, LAMBDA r : rule \in r.classes)

-----------------------------------------------------------------------------
(* repo.py                                                                 *)

(* The first element of seq that is in S.                                  *)
FirstIn(seq, S) ==
  seq[CHOOSE k \in DOMAIN seq :
        seq[k] \in S /\ \A j \in DOMAIN seq : seq[j] \in S => k <= j]

Encloses(d, span) == d.lines.first <= span.first /\ span.last <= d.lines.last

(* _EnclosingFinder visits definitions from the outside in: the last one   *)
(* that contains the span wins.                                            *)
Enclosing(defs, span) == {k \in DOMAIN defs : Encloses(defs[k], span)}

Innermost(defs, span) ==
  CHOOSE k \in Enclosing(defs, span) : \A j \in Enclosing(defs, span) : j <= k

(* func.args.args: neither positional-only nor keyword-only parameters.    *)
Args(d) == {p \in {d.params[k] : k \in DOMAIN d.params} : p.kind = "plain"}

NamesIn(d, lines) == {u.name : u \in {v \in d.uses : v.line \in lines}}

(* The one parameter the span refers to; otherwise, assumed, the first     *)
(* that may hold text, or the first of all.                                *)
GuessTaintedParam(d, span) ==
  LET referenced == {p \in Args(d) : p.name \in NamesIn(d, span.first..span.last)}
      text       == {p \in Args(d) : p.ann \in {"none", "str"}}
  IN  IF Args(d) = {} THEN [name |-> "", assumed |-> FALSE]
      ELSE IF Cardinality(referenced) = 1
      THEN [name |-> FirstIn(d.params, referenced).name, assumed |-> FALSE]
      ELSE [name |-> FirstIn(d.params, IF text # {} THEN text ELSE Args(d)).name,
            assumed |-> TRUE]

(* A connection parameter; otherwise a getter that the function calls.     *)
GuessDbAccess(d) ==
  LET params  == {p \in Args(d) : p.name \in ConnNames}
      getters == {u.name : u \in {v \in d.uses : v.call}} \cap GetterNames
  IN  IF params # {} THEN [kind |-> "param", name |-> FirstIn(d.params, params).name]
      ELSE IF getters # {} THEN [kind |-> "module_getter", name |-> CHOOSE n \in getters : TRUE]
      ELSE [kind |-> "unknown", name |-> ""]

(* Mutant: the parameters with a default instead of those without.         *)
BugOptionalOnly(d) == {p \in Args(d) : p.default}

(* args[:len(args) - num_defaults], where the defaults are those of the    *)
(* positional-only parameters too: with more defaults than arguments the   *)
(* end of the slice counts from the back.                                  *)
Required(d) ==
  LET positional == {k \in DOMAIN d.params : d.params[k].kind # "kwonly"}
      args       == {k \in positional : d.params[k].kind = "plain"}
      kept       == Cardinality(args) - Cardinality({k \in positional : d.params[k].default})
      end        == IF kept < 0 THEN Cardinality(args) + kept ELSE kept
  IN  {d.params[k] : k \in {n \in args : Cardinality({j \in args : j <= n}) <= end}}

(* The parameters that get a literal: required, not the tainted one, not   *)
(* the connection, whichever rule's harness is going to be built.          *)
ComputeBenignDefaults(d, tainted, db) ==
  {p \in Required(d) : p.name # tainted /\ ~(db.kind = "param" /\ p.name = db.name)}

(* _benign_default_literal returns None.                                   *)
NoLiteral(p) == p.ann = "other"

AtModuleLevel(d) == d.within \cap {"class", "def", "async"} = {}

(* analyze_finding.  Only a def at module level is taken on.               *)
Supported(defs, span) ==
  /\ Enclosing(defs, span) # {}
  /\ LET d == defs[Innermost(defs, span)]
     IN  AtModuleLevel(d) /\ d.kind # "async"

AnalyzeFinding(defs, span) ==
  LET d     == defs[Innermost(defs, span)]
      guess == GuessTaintedParam(d, span)
      db    == GuessDbAccess(d)
  IN  [name |-> d.name, tainted |-> guess.name, assumed |-> guess.assumed,
       db |-> db, benign |-> ComputeBenignDefaults(d, guess.name, db), lines |-> d.lines]
=============================================================================
