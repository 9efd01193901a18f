------------------------------ MODULE JsonText ------------------------------
(***************************************************************************)
(* How vac/verify.py reads JSON: _nesting_exceeds measures the text before *)
(* _json_loads parses it.  A text is a sequence over the characters that   *)
(* matter to nesting, to strings and to the cutting of lines; "open" and   *)
(* "close" are brackets and braces, "cut" is a character at which          *)
(* str.splitlines cuts and a line does not end (U+2028), "other" any       *)
(* scalar.                                                                 *)
(***************************************************************************)
EXTENDS Naturals, Sequences, SequencesExt

CONSTANT MaxDepth   \* MAX_JSON_DEPTH

ASSUME MaxDepthAssumption == MaxDepth \in Nat

Char == {"open", "close", "quote", "escape", "other", "lf", "cut", "bom"}

-----------------------------------------------------------------------------
(* One character further, outside a string, inside one, or escaped in one. *)

(* Mutant: a quote ends a string, escaped or not.                          *)
MeasureUnescaped(m, c) ==
  IF m.at = "string" THEN [m EXCEPT !.at = IF c = "quote" THEN "text" ELSE @]
  ELSE CASE c = "quote"                -> [m EXCEPT !.at = "string"]
         [] c = "open"                 -> [m EXCEPT !.depth = @ + 1]
         [] c = "close" /\ m.depth > 0 -> [m EXCEPT !.depth = @ - 1]
         [] OTHER                      -> m

Measure(m, c) ==
  IF m.at = "escaped" THEN [m EXCEPT !.at = "string"]
  ELSE IF m.at = "string" THEN [m EXCEPT !.at = CASE c = "quote"  -> "text"
                                                  [] c = "escape" -> "escaped"
                                                  [] OTHER        -> "string"]
  ELSE CASE c = "quote"                -> [m EXCEPT !.at = "string"]
         [] c = "open"                 -> [m EXCEPT !.depth = @ + 1]
         [] c = "close" /\ m.depth > 0 -> [m EXCEPT !.depth = @ - 1]
         [] OTHER                      -> m

(* _nesting_exceeds: the count is over the limit after some character.     *)
NestingExceeds(text) ==
  LET Deeper(m, c) == LET n == Measure(m, c)
                      IN  [n EXCEPT !.over = @ \/ n.depth > MaxDepth]
  IN  FoldLeft(Deeper, [at |-> "text", depth |-> 0, over |-> FALSE], text).over

-----------------------------------------------------------------------------
(* The pieces between the characters of a set.                             *)
Pieces(text, separators) ==
  LET ends == {0, Len(text) + 1} \cup {i \in DOMAIN text : text[i] \in separators}
  IN  {SubSeq(text, gap[1] + 1, gap[2] - 1)
         : gap \in {ij \in ends \X ends :
                      ij[1] < ij[2] /\ \A k \in ends : ~(ij[1] < k /\ k < ij[2])}}

StartsWithBom(text) == text # <<>> /\ Head(text) = "bom"

(* Mutant: the parser is left to find out.                                 *)
TooDeepNever(text, lines) == FALSE

(* _json_loads, before anything is parsed: every line is measured, and a   *)
(* text or a line that the parser refuses at its first character is not.   *)
TooDeep(text, lines) ==
  /\ ~StartsWithBom(text)
  /\ \E line \in IF lines THEN Pieces(text, {"lf"}) ELSE {text} :
        ~StartsWithBom(line) /\ NestingExceeds(line)

(* The rows json.loads is given: splitlines cuts at more than line feeds.  *)
Rows(text, lines) ==
  IF lines THEN Pieces(text, {"lf", "cut"}) \ {<<>>} ELSE {text}

-----------------------------------------------------------------------------
(* External: json.loads, one character further.  It recurses once per      *)
(* level, refuses at the first character that cannot stand where it does,  *)
(* and wants one value.  Commas are left out: values inside brackets       *)
(* follow one another.                                                     *)
Parse(p, c) ==
  LET refused == [p EXCEPT !.at = "refused"]
      ended   == [p EXCEPT !.at = IF p.depth = 0 THEN "end" ELSE "text"]
      InString == CASE c = "quote"  -> ended
                    [] c = "escape" -> [p EXCEPT !.at = "escaped"]
                    [] c = "lf"     -> refused
                    [] OTHER        -> p
      InText   == CASE c = "lf"                   -> p
                    [] c = "quote"                -> [p EXCEPT !.at = "string"]
                    [] c = "other"                -> ended
                    [] c = "open"                 -> [p EXCEPT !.depth = @ + 1,
                                                       !.deepest = IF @ > p.depth THEN @ ELSE p.depth + 1]
                    [] c = "close" /\ p.depth > 0 -> [p EXCEPT !.depth = @ - 1,
                                                       !.at = IF p.depth = 1 THEN "end" ELSE @]
                    [] OTHER                      -> refused
  IN  CASE p.at = "refused" -> p
        [] p.at = "escaped" -> IF c \in {"quote", "escape", "other"} THEN [p EXCEPT !.at = "string"]
                               ELSE refused
        [] p.at = "string"  -> InString
        [] p.at = "text"    -> InText
        [] p.at = "end"     -> IF c = "lf" THEN p ELSE refused

Parsed(row) == FoldLeft(Parse, [at |-> "text", depth |-> 0, deepest |-> 0], row)

WellFormed(row) == Parsed(row).at = "end"

(* What a host whose stack carries so many levels makes of a text: a value,*)
(* or one of the two reasons of _load_json and its like.                   *)
Reading(text, lines, stack) ==
  IF TooDeep(text, lines) THEN "too deep"
  ELSE IF \A row \in Rows(text, lines) : WellFormed(row) /\ Parsed(row).deepest <= stack THEN "value"
  ELSE "unparsable"
=============================================================================
