----------------------------- MODULE PatchText ------------------------------
(***************************************************************************)
(* models.py: how a model's answer becomes a diff, and what becomes of     *)
(* that diff in patch._diff_touches_only and git apply.                    *)
(*                                                                         *)
(* A file is [crlf, text]; its text is a sequence of lines as              *)
(* str.splitlines cuts it:                                                 *)
(*   id     its contents, 0 when it is empty                               *)
(*   end    "nl", "none" (the last line only), or "ff" for a form feed and *)
(*          the other characters splitlines splits at and Python's parser  *)
(*          and git do not                                                 *)
(*   mark   "--" or "++" when it begins so (and a blank), else ""          *)
(* An answer is                                                            *)
(*   markers  "ordered", "swapped" (EXPLANATION comes first) or "missing"  *)
(*   fences   the number of fenced blocks between them                     *)
(*   lines    the code: what is in the only fence, or between the markers  *)
(*            (lines that end as "nl" does: no form feeds)                 *)
(*   def      external: the definition this code makes, None, or Unusable  *)
(***************************************************************************)
EXTENDS Naturals, Sequences, FiniteSets, SequencesExt

TextLine == [id : Nat, end : {"nl", "none", "ff"}, mark : {"", "--", "++"}]

IsText(text) ==
  text \in Seq(TextLine) /\ \A k \in 1..(Len(text) - 1) : text[k].end # "none"

Blank == [id |-> 0, end |-> "nl", mark |-> ""]

(* The number ast gives the line that text[k] is in or belongs to.         *)
AstLine(text, k) == 1 + Cardinality({j \in 1..(k - 1) : text[j].end = "nl"})

(* What ast's line numbers mean, and what _function_lines takes for it.    *)
InFunction(text, lines) ==
  {k \in DOMAIN text : AstLine(text, k) \in lines.first..lines.last}

InBounds(text, lines) == lines.first <= lines.last /\ lines.last <= Len(text)

Before(text, lines) == SubSeq(text, 1, lines.first - 1)
After(text, lines)  == SubSeq(text, lines.last + 1, Len(text))

(* _parse_response and _extract_replacement raise: a marker is missing, or *)
(* two fences leave open which one it is.                                  *)
ParseFails(answer) ==
  \/ answer.markers = "missing"
  \/ answer.markers = "ordered" /\ answer.fences > 1

(* What stands between swapped markers is the empty string.                *)
Code(answer) == IF answer.markers = "swapped" THEN <<>> ELSE answer.lines

(* Whatever it was, the replacement ends in one newline.                   *)
Replacement(answer) ==
  IF Code(answer) = <<>> THEN <<Blank>>
  ELSE [k \in DOMAIN Code(answer) |-> [Code(answer)[k] EXCEPT !.end = "nl"]]

(* Mutant: end_lineno taken for a 0-based index.                           *)
BugSplice(text, lines, answer) ==
  Before(text, lines) \o Replacement(answer) \o SubSeq(text, lines.last + 2, Len(text))

(* _compute_diff: new_lines.                                               *)
Splice(text, lines, answer) ==
  Before(text, lines) \o Replacement(answer) \o After(text, lines)

(* difflib.unified_diff, taken to find one hunk: all but the longest       *)
(* common prefix and suffix, and three lines of context on either side.    *)
Common(s, t) ==
  Cardinality({k \in DOMAIN s \cap DOMAIN t : SubSeq(s, 1, k) = SubSeq(t, 1, k)})

Hunk(old, new) ==
  LET p == Common(old, new)
      s == Common(Reverse(SubSeq(old, p + 1, Len(old))),
                  Reverse(SubSeq(new, p + 1, Len(new))))
  IN  [deleted |-> {k \in DOMAIN old : p < k /\ k <= Len(old) - s},
       added   |-> {k \in DOMAIN new : p < k /\ k <= Len(new) - s},
       shown   |-> {k \in DOMAIN old : p < k + 3 /\ k <= Len(old) - s + 3}]

(* ModelError: no fix was made, or the file has become shorter.            *)
NoDiff(file, lines, answer) ==
  \/ ParseFails(answer)
  \/ ~InBounds(file.text, lines)
  \/ Splice(file.text, lines, answer) = file.text

(* _diff_touches_only: a deleted "-- x" or an added "++ x" reads like the  *)
(* header of another file.                                                 *)
TouchesOnly(old, new) ==
  LET h == Hunk(old, new)
  IN  /\ \A k \in h.deleted : old[k].mark # "--"
      /\ \A k \in h.added : new[k].mark # "++"

(* git apply, with and without --recount: the hunk must be there byte for  *)
(* byte, but reading the file as text has made every end of line a "\n",   *)
(* and joining the diff's lines has lost where the others ended.           *)
Applies(file, new) ==
  /\ ~file.crlf
  /\ \A k \in Hunk(file.text, new).shown : file.text[k].end = "nl"
=============================================================================
