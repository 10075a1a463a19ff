--------------------------- MODULE MCFindingPath ----------------------------
(* Small instances of FindingPath for TLC.                                 *)
EXTENDS FindingPath

St(api, form) == [api |-> api, form |-> form, of |-> "x"]

SafeSink   == [sqli |-> St("execute", "params"), cmdi |-> St("subprocess", "list"),
               pathtraversal |-> St("open", "basename")]
UnsafeSink == [sqli |-> St("execute", "text"), cmdi |-> St("system", "string"),
               pathtraversal |-> St("open", "join")]

(* Function bodies: every form at a sink alone, and the orders in which a  *)
(* statement that ends the call can stand before, between and after sinks. *)
MCStmt == UNION {{St(api, form) : form \in Forms[api]} : api \in DOMAIN Forms}
          \cup {St(api, "none") : api \in Others}
          \cup {[UnsafeSink[r] EXCEPT !.of = "y"] : r \in Rules}

Single == [r \in Rules |-> UNION {{<<St(api, form)>> : form \in Forms[api]} : api \in Sinks[r]}]

Mixed(r) ==
  {<<>>, <<SafeSink[r], UnsafeSink[r]>>, <<UnsafeSink[r], St("exit", "none")>>,
   <<SafeSink[r], [UnsafeSink[r] EXCEPT !.of = "y"]>>}
  \cup {<<St(api, "none"), UnsafeSink[r]>> : api \in Others}
  \cup {<<SafeSink[r], St(api, "none"), UnsafeSink[r]>> : api \in {"missing", "reject"}}

Bodies(r) == Single[r] \cup Mixed(r)

-----------------------------------------------------------------------------

Param(name) == [name |-> name, ann |-> "none", kind |-> "plain", default |-> FALSE]

X    == Param("x")
Y    == Param("y")
Conn == Param("conn")

Use(name, line, call) == [name |-> name, line |-> line, call |-> call]

Def(params, body) ==
  [name |-> "f", kind |-> "def", within |-> {}, lines |-> [first |-> 6, last |-> 7],
   params |-> params, uses |-> {Use("x", 7, FALSE)}, body |-> body]

Optional(p) == [p EXCEPT !.default = TRUE]
PosOnly(p)  == [p EXCEPT !.kind = "posonly"]
KwOnly(p)   == [p EXCEPT !.kind = "kwonly"]
NoLit(p)    == [p EXCEPT !.ann = "other"]

(* Signatures of f; only the SQL harness supplies a connection.  Of the    *)
(* last ones every parameter has a default, a positional-only one first:   *)
(* the slice then starts over from the back.                               *)
Usual(r) == IF r = "sqli" THEN <<Conn, X>> ELSE <<X>>

Signatures ==
  {<<>>, <<Conn, X>>, <<X, Y>>, <<X, KwOnly(Y)>>, <<Conn, X, NoLit(Y)>>,
   <<Conn, Optional(X)>>, <<PosOnly(X), Conn>>, <<X, Y, Optional(Conn)>>,
   <<Optional(PosOnly(Conn)), Optional(Y), Optional(X)>>,
   <<Optional(PosOnly(Conn)), Optional(NoLit(Y)), Optional(X)>>}

(* The connection comes from a function, which is called or only named.    *)
Getter(r, body, call) ==
  [Def(<<X>>, body) EXCEPT !.uses = {Use("x", 7, FALSE), Use("get_db", 6, call)}]

(* The span of the finding: the sink's line, or one that names connection  *)
(* and parameter both.                                                     *)
Span == [first |-> 7, last |-> 7]

Scanned(r) == <<[classes |-> {r}, readable |-> TRUE]>>
Scan(r, ds) == [results |-> Scanned(r), defs |-> ds, span |-> Span]

Elsewhere(d) == [d EXCEPT !.lines = [first |-> 9, last |-> 10]]
Earlier(d)   == [d EXCEPT !.lines = [first |-> 1, last |-> 2]]

MCScans ==
  [r \in Rules |->
     LET usual == Def(Usual(r), <<UnsafeSink[r]>>)
     IN  {Scan(r, <<Def(Usual(r), b)>>) : b \in Bodies(r)}
         \cup {Scan(r, <<Def(ps, <<UnsafeSink[r]>>)>>) : ps \in Signatures}
         \cup {Scan(r, ds) : ds \in
                {<<>>, <<Getter(r, <<UnsafeSink[r]>>, TRUE)>>, <<Getter(r, <<UnsafeSink[r]>>, FALSE)>>,
                 <<[usual EXCEPT !.kind = "async"]>>, <<[usual EXCEPT !.within = {"class"}]>>,
                 <<[usual EXCEPT !.uses = @ \cup {Use("conn", 7, FALSE)}]>>,
                 <<usual, Elsewhere(Def(Usual(r), <<SafeSink[r]>>))>>,
                 <<Def(Usual(r), <<SafeSink[r]>>), Elsewhere(usual)>>,
                 <<Earlier(Def(Usual(r), <<SafeSink[r]>>)), usual>>,
                 <<usual, [usual EXCEPT !.within = {"def"}, !.lines.first = 7]>>}}
         \cup {[Scan(r, <<usual>>) EXCEPT !.results = x] : x \in
                {<<>>, <<[classes |-> {}, readable |-> FALSE], Scanned(r)[1]>>,
                 <<[classes |-> {}, readable |-> TRUE]>>}}]

-----------------------------------------------------------------------------

Line(n) == [id |-> n, end |-> "nl", mark |-> ""]

(* The function's file: n lines, the last one with end e.                  *)
Text(n, e) == [k \in 1..n |-> [Line(k) EXCEPT !.end = IF k = n THEN e ELSE "nl"]]

Plain(text) == [crlf |-> FALSE, text |-> text]

MCFiles ==
  {Plain(Text(n, "nl")) : n \in {7, 12}}
  \cup {Plain(Text(n, "none")) : n \in {7, 9, 12}}
  \cup {Plain([Text(12, "nl") EXCEPT ![k].end = "ff"]) : k \in {1, 6, 12}}
  \cup {Plain([Text(12, "nl") EXCEPT ![7].mark = "--"]), [crlf |-> TRUE, text |-> Text(12, "nl")]}

Answer(def, ids) ==
  [markers |-> "ordered", fences |-> 0, lines |-> [k \in DOMAIN ids |-> Line(ids[k])],
   def |-> def]

(* Answers: a fix, no fix, other signatures and names, the same text,      *)
(* nothing, something else altogether.                                     *)
MCAnswers ==
  [r \in Rules |->
     LET fix   == Def(Usual(r), <<SafeSink[r]>>)
         right == Answer(fix, <<6, 21>>)
     IN  {Answer(Def(Usual(r), b), <<6, 21>>) : b \in Bodies(r)}
         \cup {Answer([fix EXCEPT !.params = ps], <<22, 21>>) : ps \in Signatures}
         \cup {Answer(fix, ids) : ids \in {<<6, 7>>, <<6, 21, 7>>, <<6, 7, 21>>, <<21, 7>>, <<6>>}}
         \cup {Answer([fix EXCEPT !.name = "g"], <<22, 21>>), Answer(None, <<>>),
               Answer(None, <<23>>), Answer(Unusable, <<23, 24>>)}
         \cup {[right EXCEPT !.markers = "swapped"], [right EXCEPT !.markers = "missing"],
               [right EXCEPT !.fences = 1], [right EXCEPT !.fences = 2],
               [right EXCEPT !.lines[2].mark = "++"]}]

MCDefinition ==
  UNION {UNION {{s.defs[k] : k \in DOMAIN s.defs} : s \in MCScans[r]} : r \in Rules}
  \cup (UNION {{a.def : a \in MCAnswers[r]} : r \in Rules} \ {None, Unusable})

-----------------------------------------------------------------------------
(* For the run that shows one disagreement.                                *)

OnlyCommands == [r \in Rules |-> IF r = "cmdi" THEN MCScans[r] ELSE {}]
=============================================================================
