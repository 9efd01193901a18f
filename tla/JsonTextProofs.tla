------------------------------ MODULE JsonTextProofs ------------------------------
EXTENDS JsonText, Induction, SequenceTheorems

-----------------------------------------------------------------------------
(* A fold over a text goes through it from the first character to the last.*)

(* Of the first k places the last is the k-th.                             *)
LEMMA FirstPlaces ==
  ASSUME NEW n \in Nat, NEW k \in 1..n
  PROVE  /\ (1..k) \in SUBSET (1..n) /\ (1..k) # {} /\ Max(1..k) = k /\ (1..k) \ {k} = 1..(k - 1)
<1>1. (1..k) \in SUBSET (1..n) /\ (1..k) # {} /\ k \in 1..k
  OBVIOUS
<1>2. Max(1..k) \in 1..k /\ \A y \in 1..k : y <= Max(1..k)
  BY <1>1, LastPlace
<1>. QED BY <1>1, <1>2

Blank == [at |-> "text", depth |-> 0, deepest |-> 0]

(* The states of the parser, one after each character.                     *)
LEMMA ParseUnrolls ==
  ASSUME NEW row \in Seq(Char)
  PROVE  \E t : /\ t[0] = Blank /\ Parsed(row) = t[Len(row)]
                /\ \A k \in 1..Len(row) : t[k] = Parse(t[k - 1], row[k])
<1>. DEFINE Unroll(n, g) == [s \in SUBSET (1..n) |->
                               IF s = {} THEN Blank ELSE Parse(g[s \ {Max(s)}], row[Max(s)])]
<1>1. ASSUME NEW n \in Nat, NEW h, h = Unroll(n, h) PROVE \E g : g = Unroll(n + 1, g)
  <2>. DEFINE g == Unroll(n + 1, h)
  <2>1. ASSUME NEW s \in SUBSET (1..(n + 1)), s # {} PROVE g[s \ {Max(s)}] = h[s \ {Max(s)}]
    <3>. DEFINE r == s \ {Max(s)}
    <3>1. r \in SUBSET (1..n)
      <4>1. n + 1 \in Nat /\ (n + 1) - 1 = n
        OBVIOUS
      <4>2. s \ {Max(s)} \in SUBSET (1..((n + 1) - 1))
        BY <2>1, <4>1, LastPlace
      <4>. QED BY <4>1, <4>2
    <3>2. r \in SUBSET (1..(n + 1))
      BY <3>1
    <3>3. h[r] = IF r = {} THEN Blank ELSE Parse(h[r \ {Max(r)}], row[Max(r)])
      BY <1>1, <3>1
    <3>4. g[r] = IF r = {} THEN Blank ELSE Parse(h[r \ {Max(r)}], row[Max(r)])
      BY <3>2
    <3>. QED BY <3>3, <3>4
  <2>2. g = Unroll(n + 1, g)
    BY <2>1
  <2>. QED BY <2>2
<1>2. \E g : g = Unroll(0, g)
  <2>. DEFINE g == [s \in SUBSET (1..0) |-> Blank]
  <2>1. \A s \in SUBSET (1..0) : s = {}
    OBVIOUS
  <2>2. g = Unroll(0, g)
    BY <2>1
  <2>. QED BY <2>2
<1>3. \A n \in Nat : \E g : g = Unroll(n, g)
  <2>. DEFINE Fails == {n \in Nat : ~\E g : g = Unroll(n, g)}
  <2>. HIDE DEF Unroll
  <2>. SUFFICES ASSUME Fails # {} PROVE FALSE
    OBVIOUS
  <2>1. PICK n \in Fails : \A m \in Fails : n <= m
    BY LeastNatural
  <2>2. n # 0 /\ n - 1 \in Nat /\ (n - 1) + 1 = n
    BY <1>2, <2>1
  <2>3. n - 1 \notin Fails
    BY <2>1, <2>2
  <2>. QED BY <1>1, <2>1, <2>2, <2>3
<1>. DEFINE g == CHOOSE g : g = Unroll(Len(row), g)
<1>4. Len(row) \in Nat /\ DOMAIN row = 1..Len(row)
  OBVIOUS
<1>5. g = Unroll(Len(row), g)
  BY <1>3, <1>4
<1>6. Parsed(row) = g[1..Len(row)]
  BY <1>4 DEF Parsed, FoldLeft, MapThenFoldSet, Blank
<1>. HIDE DEF g
<1>. DEFINE t == [k \in 0..Len(row) |-> g[1..k]]
<1>7. t[0] = Blank
  <2>1. 1..0 = {} /\ {} \in SUBSET (1..Len(row))
    OBVIOUS
  <2>. QED BY <1>4, <1>5, <2>1
<1>8. ASSUME NEW k \in 1..Len(row) PROVE t[k] = Parse(t[k - 1], row[k])
  <2>1. /\ (1..k) \in SUBSET (1..Len(row)) /\ (1..k) # {} /\ Max(1..k) = k /\ (1..k) \ {k} = 1..(k - 1)
    BY <1>4, FirstPlaces
  <2>2. g[1..k] = Parse(g[1..(k - 1)], row[k])
    BY <1>5, <2>1
  <2>3. k \in 0..Len(row) /\ k - 1 \in 0..Len(row)
    BY <1>4
  <2>. QED BY <2>2, <2>3
<1>9. t[Len(row)] = g[1..Len(row)]
  BY <1>4
<1>. QED BY <1>6, <1>7, <1>8, <1>9

(* What _nesting_exceeds has counted so far, and one character further.    *)
Fresh == [at |-> "text", depth |-> 0, over |-> FALSE]

Deeper(m, c) ==
  LET n == Measure(m, c)
  IN  [n EXCEPT !.over = @ \/ n.depth > MaxDepth]

(* The states of _nesting_exceeds, one after each character.               *)
LEMMA MeasureUnrolls ==
  ASSUME NEW text \in Seq(Char)
  PROVE  \E t : /\ t[0] = Fresh /\ NestingExceeds(text) = t[Len(text)].over
                /\ \A k \in 1..Len(text) : t[k] = Deeper(t[k - 1], text[k])
<1>. DEFINE Unroll(n, g) == [s \in SUBSET (1..n) |->
                               IF s = {} THEN Fresh ELSE Deeper(g[s \ {Max(s)}], text[Max(s)])]
<1>1. ASSUME NEW n \in Nat, NEW h, h = Unroll(n, h) PROVE \E g : g = Unroll(n + 1, g)
  <2>. DEFINE g == Unroll(n + 1, h)
  <2>1. ASSUME NEW s \in SUBSET (1..(n + 1)), s # {} PROVE g[s \ {Max(s)}] = h[s \ {Max(s)}]
    <3>. DEFINE r == s \ {Max(s)}
    <3>1. r \in SUBSET (1..n)
      <4>1. n + 1 \in Nat /\ (n + 1) - 1 = n
        OBVIOUS
      <4>2. s \ {Max(s)} \in SUBSET (1..((n + 1) - 1))
        BY <2>1, <4>1, LastPlace
      <4>. QED BY <4>1, <4>2
    <3>2. r \in SUBSET (1..(n + 1))
      BY <3>1
    <3>3. h[r] = IF r = {} THEN Fresh ELSE Deeper(h[r \ {Max(r)}], text[Max(r)])
      BY <1>1, <3>1
    <3>4. g[r] = IF r = {} THEN Fresh ELSE Deeper(h[r \ {Max(r)}], text[Max(r)])
      BY <3>2
    <3>. QED BY <3>3, <3>4
  <2>2. g = Unroll(n + 1, g)
    BY <2>1
  <2>. QED BY <2>2
<1>2. \E g : g = Unroll(0, g)
  <2>. DEFINE g == [s \in SUBSET (1..0) |-> Fresh]
  <2>1. \A s \in SUBSET (1..0) : s = {}
    OBVIOUS
  <2>2. g = Unroll(0, g)
    BY <2>1
  <2>. QED BY <2>2
<1>3. \A n \in Nat : \E g : g = Unroll(n, g)
  <2>. DEFINE Fails == {n \in Nat : ~\E g : g = Unroll(n, g)}
  <2>. HIDE DEF Unroll
  <2>. SUFFICES ASSUME Fails # {} PROVE FALSE
    OBVIOUS
  <2>1. PICK n \in Fails : \A m \in Fails : n <= m
    BY LeastNatural
  <2>2. n # 0 /\ n - 1 \in Nat /\ (n - 1) + 1 = n
    BY <1>2, <2>1
  <2>3. n - 1 \notin Fails
    BY <2>1, <2>2
  <2>. QED BY <1>1, <2>1, <2>2, <2>3
<1>. DEFINE g == CHOOSE g : g = Unroll(Len(text), g)
<1>4. Len(text) \in Nat /\ DOMAIN text = 1..Len(text)
  OBVIOUS
<1>5. g = Unroll(Len(text), g)
  BY <1>3, <1>4
<1>6. NestingExceeds(text) = g[1..Len(text)].over
  BY <1>4 DEF NestingExceeds, FoldLeft, MapThenFoldSet, Fresh, Deeper
<1>. HIDE DEF g
<1>. DEFINE t == [k \in 0..Len(text) |-> g[1..k]]
<1>7. t[0] = Fresh
  <2>1. 1..0 = {} /\ {} \in SUBSET (1..Len(text))
    OBVIOUS
  <2>. QED BY <1>4, <1>5, <2>1
<1>8. ASSUME NEW k \in 1..Len(text) PROVE t[k] = Deeper(t[k - 1], text[k])
  <2>1. /\ (1..k) \in SUBSET (1..Len(text)) /\ (1..k) # {} /\ Max(1..k) = k /\ (1..k) \ {k} = 1..(k - 1)
    BY <1>4, FirstPlaces
  <2>2. g[1..k] = Deeper(g[1..(k - 1)], text[k])
    BY <1>5, <2>1
  <2>3. k \in 0..Len(text) /\ k - 1 \in 0..Len(text)
    BY <1>4
  <2>. QED BY <2>2, <2>3
<1>9. t[Len(text)] = g[1..Len(text)]
  BY <1>4
<1>. QED BY <1>6, <1>7, <1>8, <1>9

-----------------------------------------------------------------------------
(* The count goes along with the parser as long as that has not refused.   *)

IsCount(m) ==
  /\ DOMAIN m = {"at", "depth", "over"} /\ m = [f \in DOMAIN m |-> m[f]]
  /\ m.at \in {"text", "string", "escaped"} /\ m.depth \in Nat /\ m.over \in BOOLEAN

IsParse(p) ==
  /\ DOMAIN p = {"at", "depth", "deepest"} /\ p = [f \in DOMAIN p |-> p[f]]
  /\ p.at \in {"text", "string", "escaped", "end", "refused"}
  /\ p.depth \in Nat /\ p.deepest \in Nat

(* m has counted what p has read of a row, after a line that was too deep  *)
(* already or was not.                                                     *)
Along(m, p, before) ==
  /\ IsCount(m) /\ IsParse(p) /\ p.depth <= p.deepest
  /\ m.at = (IF p.at = "end" THEN "text" ELSE p.at) /\ m.depth = p.depth
  /\ p.at = "end" => p.depth = 0
  /\ m.over <=> before \/ p.deepest > MaxDepth

(* One character further in both.                                          *)
LEMMA AlongOne ==
  ASSUME NEW m, NEW p, NEW before \in BOOLEAN, Along(m, p, before), NEW c \in Char,
         Parse(p, c).at # "refused"
  PROVE  Along(Deeper(m, c), Parse(p, c), before)
<1>. DEFINE n == Measure(m, c)
            q == Parse(p, c)
<1>1. p.at # "refused" /\ MaxDepth \in Nat
  BY MaxDepthAssumption DEF Parse
<1>2. /\ DOMAIN m = {"at", "depth", "over"} /\ m.depth \in Nat /\ m.over \in BOOLEAN
      /\ DOMAIN p = {"at", "depth", "deepest"} /\ p.depth \in Nat /\ p.deepest \in Nat
      /\ m.depth = p.depth /\ p.depth <= p.deepest
      /\ m.over <=> before \/ p.deepest > MaxDepth
  BY DEF Along, IsCount, IsParse
<1>3. /\ IsParse(q) /\ q.at # "refused"
      /\ DOMAIN n = DOMAIN m /\ n.over = m.over
      /\ n.at = IF q.at = "end" THEN "text" ELSE q.at
      /\ n.depth = q.depth /\ (q.at = "end" => q.depth = 0)
      /\ \/ q.deepest = p.deepest /\ q.depth <= p.deepest
         \/ q.depth = p.depth + 1 /\ q.deepest = IF p.deepest > p.depth THEN p.deepest ELSE p.depth + 1
  <2>1. CASE p.at = "escaped"
    <3>1. n = [m EXCEPT !.at = "string"] /\ q = [p EXCEPT !.at = "string"]
      BY <1>1, <1>2, <2>1 DEF Along, Measure, Parse, Char
    <3>. QED BY <1>1, <1>2, <3>1 DEF IsParse
  <2>2. CASE p.at = "string"
    BY <1>1, <1>2, <2>2 DEF Along, Measure, Parse, Char, IsParse
  <2>3. CASE p.at = "text"
    <3>1. m.at = "text"
      BY <2>3 DEF Along
    <3>2. CASE c = "lf"
      <4>1. n = m /\ q = p
        BY <2>3, <3>1, <3>2 DEF Measure, Parse
      <4>. QED BY <1>1, <1>2, <2>3, <3>1, <4>1 DEF Along
    <3>3. CASE c = "quote"
      <4>1. n = [m EXCEPT !.at = "string"] /\ q = [p EXCEPT !.at = "string"]
        BY <2>3, <3>1, <3>3 DEF Measure, Parse
      <4>. QED BY <1>1, <1>2, <4>1 DEF IsParse
    <3>4. CASE c = "other"
      <4>1. n = m /\ q = [p EXCEPT !.at = IF p.depth = 0 THEN "end" ELSE "text"]
        BY <2>3, <3>1, <3>4 DEF Measure, Parse
      <4>. QED BY <1>1, <1>2, <3>1, <4>1 DEF IsParse
    <3>5. CASE c = "open"
      <4>. DEFINE d == IF p.deepest > p.depth THEN p.deepest ELSE p.depth + 1
      <4>1. n = [m EXCEPT !.depth = @ + 1] /\ q = [p EXCEPT !.depth = @ + 1, !.deepest = d]
        BY <2>3, <3>1, <3>5 DEF Measure, Parse
      <4>2. d \in Nat /\ d = IF p.deepest > p.depth THEN p.deepest ELSE p.depth + 1
        BY <1>2
      <4>. HIDE DEF d
      <4>3. /\ q.depth = p.depth + 1 /\ q.deepest = d /\ q.at = "text" /\ DOMAIN q = DOMAIN p
            /\ n.depth = p.depth + 1 /\ n.at = "text" /\ n.over = m.over /\ DOMAIN n = DOMAIN m
            /\ q = [f \in DOMAIN q |-> q[f]]
        BY <1>2, <2>3, <3>1, <4>1
      <4>. HIDE DEF n, q
      <4>4. IsParse(q)
        BY <1>2, <4>2, <4>3 DEF IsParse
      <4>. QED BY <4>2, <4>3, <4>4
    <3>6. CASE c = "close" /\ p.depth > 0
      <4>1. n = [m EXCEPT !.depth = @ - 1]
            /\ q = [p EXCEPT !.depth = @ - 1, !.at = IF p.depth = 1 THEN "end" ELSE @]
        BY <1>2, <2>3, <3>1, <3>6 DEF Measure, Parse
      <4>2. /\ q.depth = p.depth - 1 /\ q.deepest = p.deepest /\ DOMAIN q = DOMAIN p
            /\ q.at = IF p.depth = 1 THEN "end" ELSE "text"
            /\ n.depth = p.depth - 1 /\ n.at = "text" /\ n.over = m.over /\ DOMAIN n = DOMAIN m
            /\ q = [f \in DOMAIN q |-> q[f]]
        BY <1>2, <2>3, <3>1, <4>1
      <4>. HIDE DEF n, q
      <4>3. p.depth - 1 \in Nat /\ p.depth - 1 <= p.deepest /\ (p.depth = 1 => p.depth - 1 = 0)
        BY <1>2, <3>6
      <4>4. IsParse(q)
        BY <1>2, <4>2, <4>3 DEF IsParse
      <4>. QED BY <4>2, <4>3, <4>4
    <3>7. CASE ~(c \in {"lf", "quote", "other", "open"}) /\ ~(c = "close" /\ p.depth > 0)
      <4>1. q = [p EXCEPT !.at = "refused"]
        BY <2>3, <3>7, Zenon DEF Parse
      <4>. QED BY <1>2, <4>1
    <3>. QED BY <3>2, <3>3, <3>4, <3>5, <3>6, <3>7
  <2>4. CASE p.at = "end"
    BY <1>1, <1>2, <2>4 DEF Along, Measure, Parse, Char, IsParse
  <2>. QED BY <1>1, <2>1, <2>2, <2>3, <2>4 DEF Along, IsParse
<1>4. Deeper(m, c) = [n EXCEPT !.over = n.over \/ n.depth > MaxDepth]
  BY DEF Deeper
<1>. HIDE DEF n, q
<1>5. /\ DOMAIN Deeper(m, c) = {"at", "depth", "over"}
      /\ Deeper(m, c) = [f \in DOMAIN Deeper(m, c) |-> Deeper(m, c)[f]]
      /\ Deeper(m, c).at = n.at /\ Deeper(m, c).depth = n.depth
      /\ Deeper(m, c).over = (m.over \/ n.depth > MaxDepth)
  BY <1>2, <1>3, <1>4
<1>6. q.depth \in Nat /\ q.deepest \in Nat /\ q.at \in {"text", "string", "escaped", "end"}
  BY <1>3 DEF IsParse
<1>7. q.depth <= q.deepest
  BY <1>2, <1>3, <1>6
<1>8. Deeper(m, c).over <=> before \/ q.deepest > MaxDepth
  <2>1. CASE q.deepest = p.deepest /\ q.depth <= p.deepest
    BY <1>1, <1>2, <1>3, <1>5, <1>6, <2>1
  <2>2. CASE q.depth = p.depth + 1 /\ q.deepest = IF p.deepest > p.depth THEN p.deepest ELSE p.depth + 1
    <3>1. n.depth = p.depth + 1 /\ p.depth \in Nat /\ p.deepest \in Nat /\ p.depth <= p.deepest
      BY <1>2, <1>3, <2>2
    <3>2. (p.deepest > MaxDepth \/ n.depth > MaxDepth) <=> q.deepest > MaxDepth
      BY <1>1, <2>2, <3>1
    <3>3. m.over <=> before \/ p.deepest > MaxDepth
      BY <1>2
    <3>. QED BY <1>5, <3>2, <3>3, Zenon
  <2>. QED BY <1>3, <2>1, <2>2
<1>. QED BY <1>1, <1>2, <1>3, <1>5, <1>6, <1>7, <1>8 DEF Along, IsCount, q

(* A row that the parser accepts, in the middle of a line.                 *)
LEMMA AlongRow ==
  ASSUME NEW row \in Seq(Char), WellFormed(row), NEW u \in Nat, NEW m, NEW before \in BOOLEAN,
         IsCount(m[u]), m[u].at = "text", m[u].depth = 0, m[u].over <=> before,
         \A k \in 1..Len(row) : m[u + k] = Deeper(m[u + k - 1], row[k])
  PROVE  /\ IsCount(m[u + Len(row)]) /\ m[u + Len(row)].at = "text" /\ m[u + Len(row)].depth = 0
         /\ m[u + Len(row)].over <=> before \/ Parsed(row).deepest > MaxDepth
         /\ Parsed(row).deepest \in Nat
<1>. DEFINE n == Len(row)
<1>1. n \in Nat /\ \A k \in 1..n : row[k] \in Char
  OBVIOUS
<1>2. PICK t : /\ t[0] = Blank /\ Parsed(row) = t[n]
               /\ \A k \in 1..n : t[k] = Parse(t[k - 1], row[k])
  BY ParseUnrolls
<1>. HIDE DEF n
<1>3. \A k \in 0..n : t[k].at # "refused"
  <2>. DEFINE Refused == {k \in 0..n : t[k].at = "refused"}
  <2>. SUFFICES ASSUME Refused # {} PROVE FALSE
    OBVIOUS
  <2>1. PICK k \in Refused : \A l \in Refused : l <= k
    <3>1. Refused \subseteq 0..n
      OBVIOUS
    <3>. HIDE DEF Refused
    <3>. QED BY <1>1, <3>1, GreatestNatural
  <2>2. k # n
    BY <1>2, <2>1 DEF WellFormed
  <2>3. k + 1 \in 1..n /\ (k + 1) - 1 = k /\ k + 1 \in 0..n
    BY <1>1, <2>1, <2>2
  <2>4. t[k + 1] = Parse(t[k], row[k + 1])
    BY <1>2, <2>3
  <2>5. t[k + 1].at = "refused"
    BY <2>1, <2>4 DEF Parse
  <2>6. k + 1 \in Refused
    BY <2>3, <2>5
  <2>. QED BY <1>1, <2>1, <2>3, <2>6
<1>4. Along(m[u], t[0], before)
  <2>1. IsParse(Blank) /\ Blank.at = "text" /\ Blank.depth = 0 /\ Blank.deepest = 0
    BY DEF Blank, IsParse
  <2>2. ~(0 > MaxDepth)
    BY MaxDepthAssumption
  <2>. QED BY <1>2, <2>1, <2>2 DEF Along
<1>5. \A k \in 0..n : Along(m[u + k], t[k], before)
  <2>. DEFINE Apart == {k \in 0..n : ~Along(m[u + k], t[k], before)}
  <2>. SUFFICES ASSUME Apart # {} PROVE FALSE
    OBVIOUS
  <2>1. PICK k \in Apart : \A l \in Apart : k <= l
    <3>1. Apart \subseteq Nat
      BY <1>1
    <3>. HIDE DEF Apart
    <3>. QED BY <3>1, LeastNatural
  <2>2. k # 0
    <3>1. u + 0 = u
      OBVIOUS
    <3>. QED BY <1>4, <2>1, <3>1
  <2>3. k \in 1..n /\ k - 1 \in 0..n /\ ~(k <= k - 1) /\ u + (k - 1) = u + k - 1
    BY <1>1, <2>1, <2>2
  <2>4. Along(m[u + k - 1], t[k - 1], before)
    BY <2>1, <2>3
  <2>5. m[u + k] = Deeper(m[u + k - 1], row[k]) /\ t[k] = Parse(t[k - 1], row[k]) /\ row[k] \in Char
    BY <1>1, <1>2, <2>3 DEF n
  <2>6. t[k].at # "refused"
    BY <1>3, <2>1
  <2>7. Along(m[u + k], t[k], before)
    BY <2>4, <2>5, <2>6, AlongOne
  <2>. QED BY <2>1, <2>7
<1>6. Along(m[u + n], t[n], before) /\ t[n].at = "end"
  BY <1>1, <1>2, <1>5 DEF WellFormed
<1>. QED BY <1>2, <1>6 DEF Along, IsParse, n

-----------------------------------------------------------------------------
(* The pieces of a text.                                                   *)

Ends(text, separators) ==
  {0, Len(text) + 1} \cup {i \in DOMAIN text : text[i] \in separators}

(* Two ends with none between them.                                        *)
Gap(text, separators, i, j) ==
  /\ i \in Ends(text, separators) /\ j \in Ends(text, separators) /\ i < j
  /\ \A k \in Ends(text, separators) : ~(i < k /\ k < j)

(* A piece is what is between two ends.                                    *)
LEMMA PiecesAreGaps ==
  ASSUME NEW text, NEW separators
  PROVE  \A piece : piece \in Pieces(text, separators) <=>
           \E i \in Ends(text, separators), j \in Ends(text, separators) :
             Gap(text, separators, i, j) /\ piece = SubSeq(text, i + 1, j - 1)
<1>. DEFINE ends == {0, Len(text) + 1} \cup {i \in DOMAIN text : text[i] \in separators}
            gaps == {ij \in ends \X ends : ij[1] < ij[2] /\ \A k \in ends : ~(ij[1] < k /\ k < ij[2])}
<1>1. Pieces(text, separators) = {SubSeq(text, gap[1] + 1, gap[2] - 1) : gap \in gaps}
  BY DEF Pieces
<1>2. ends = Ends(text, separators)
  BY DEF Ends
<1>. HIDE DEF ends
<1>3. \A gap \in gaps : gap[1] \in ends /\ gap[2] \in ends /\ Gap(text, separators, gap[1], gap[2])
  BY <1>2 DEF Gap
<1>4. \A i \in ends, j \in ends : Gap(text, separators, i, j) => <<i, j>> \in gaps
  BY <1>2 DEF Gap
<1>. HIDE DEF gaps
<1>5. ASSUME NEW piece \in Pieces(text, separators)
      PROVE  \E i \in ends, j \in ends :
               Gap(text, separators, i, j) /\ piece = SubSeq(text, i + 1, j - 1)
  <2>1. PICK gap \in gaps : piece = SubSeq(text, gap[1] + 1, gap[2] - 1)
    BY <1>1
  <2>. QED BY <1>3, <2>1
<1>6. ASSUME NEW i \in ends, NEW j \in ends, Gap(text, separators, i, j)
      PROVE  SubSeq(text, i + 1, j - 1) \in Pieces(text, separators)
  <2>1. <<i, j>> \in gaps
    BY <1>4, <1>6
  <2>. DEFINE gap == <<i, j>>
  <2>2. gap[1] = i /\ gap[2] = j /\ gap \in gaps
    BY <2>1
  <2>. HIDE DEF gap
  <2>3. SubSeq(text, gap[1] + 1, gap[2] - 1) \in Pieces(text, separators)
    BY <1>1, <2>2
  <2>. QED BY <2>2, <2>3
<1>. QED BY <1>2, <1>5, <1>6

(* Ends are places, and a line's ends are a row's.                         *)
LEMMA EndsAre ==
  ASSUME NEW text \in Seq(Char), NEW separators
  PROVE  /\ Ends(text, separators) \subseteq 0..(Len(text) + 1) /\ Len(text) \in Nat
         /\ 0 \in Ends(text, separators) /\ Len(text) + 1 \in Ends(text, separators)
         /\ \A i \in 1..Len(text) : i \in Ends(text, separators) <=> text[i] \in separators
<1>1. Len(text) \in Nat /\ DOMAIN text = 1..Len(text)
  OBVIOUS
<1>. QED BY <1>1 DEF Ends

(* What is between two ends, character by character.                       *)
LEMMA Between ==
  ASSUME NEW text \in Seq(Char), NEW i \in 0..(Len(text) + 1), NEW j \in 0..(Len(text) + 1), i < j
  PROVE  /\ SubSeq(text, i + 1, j - 1) \in Seq(Char)
         /\ Len(SubSeq(text, i + 1, j - 1)) = j - i - 1 /\ j - i - 1 \in Nat
         /\ \A k \in 1..(j - i - 1) : /\ SubSeq(text, i + 1, j - 1)[k] = text[i + k]
                                      /\ i + k \in 1..Len(text)
<1>1. Len(text) \in Nat /\ j - i - 1 \in Nat
  OBVIOUS
<1>2. \A k \in (i + 1)..(j - 1) : text[k] \in Char
  BY <1>1
<1>3. /\ SubSeq(text, i + 1, j - 1) \in Seq(Char)
      /\ Len(SubSeq(text, i + 1, j - 1)) = IF i + 1 <= j - 1 THEN (j - 1) - (i + 1) + 1 ELSE 0
      /\ \A k \in 1..((j - 1) - (i + 1) + 1) : SubSeq(text, i + 1, j - 1)[k] = text[(i + 1) + k - 1]
  BY <1>1, <1>2, SubSeqProperties
<1>4. (j - 1) - (i + 1) + 1 = j - i - 1 /\ \A k \in 1..(j - i - 1) : (i + 1) + k - 1 = i + k /\ i + k \in 1..Len(text)
  BY <1>1
<1>. QED BY <1>1, <1>3, <1>4

-----------------------------------------------------------------------------
(* A line and the rows in it.                                              *)

Line == {"lf"}
Row == {"lf", "cut"}

Deep(text, i, j) == Parsed(SubSeq(text, i + 1, j - 1)).deepest > MaxDepth

(* Every row of a text that is not empty is a value.                       *)
ReadsAll(text) ==
  \A i \in Ends(text, Row), j \in Ends(text, Row) :
    Gap(text, Row, i, j) /\ i + 1 < j => WellFormed(SubSeq(text, i + 1, j - 1))

(* Some row between the places a and e is too deep.                        *)
DeepWithin(text, a, e) ==
  \E i \in Ends(text, Row), j \in Ends(text, Row) :
    Gap(text, Row, i, j) /\ i + 1 < j /\ a <= i /\ j <= e /\ Deep(text, i, j)

(* At the end of every row of a line the count is at rest, and over where  *)
(* one of the rows so far was.                                             *)
LEMMA RestsAtEnds ==
  ASSUME NEW text \in Seq(Char), ReadsAll(text),
         NEW a \in Ends(text, Line), NEW b \in Ends(text, Line), Gap(text, Line, a, b),
         NEW m, m[0] = Fresh,
         \A k \in 1..(b - a - 1) : m[k] = Deeper(m[k - 1], text[a + k])
  PROVE  \A e \in Ends(text, Row) : a < e /\ e <= b =>
           /\ IsCount(m[e - a - 1]) /\ m[e - a - 1].at = "text" /\ m[e - a - 1].depth = 0
           /\ m[e - a - 1].over <=> DeepWithin(text, a, e)
<1>. DEFINE ends == Ends(text, Row)
            Rests(e) == /\ IsCount(m[e - a - 1]) /\ m[e - a - 1].at = "text" /\ m[e - a - 1].depth = 0
                        /\ m[e - a - 1].over <=> DeepWithin(text, a, e)
            Wrong == {e \in ends : a < e /\ e <= b /\ ~Rests(e)}
<1>1. /\ ends \subseteq 0..(Len(text) + 1) /\ Len(text) \in Nat
      /\ a \in 0..(Len(text) + 1) /\ b \in 0..(Len(text) + 1) /\ a < b
  BY EndsAre DEF Gap
<1>2. a \in ends /\ b \in ends
  BY EndsAre DEF Ends, Line, Row
<1>. SUFFICES ASSUME Wrong # {} PROVE FALSE
  OBVIOUS
<1>3. PICK e \in Wrong : \A f \in Wrong : e <= f
  <2>1. Wrong \subseteq Nat
    BY <1>1
  <2>. HIDE DEF Wrong
  <2>. QED BY <2>1, LeastNatural
<1>4. e \in ends /\ a < e /\ e <= b /\ ~Rests(e) /\ e \in 0..(Len(text) + 1)
  BY <1>1, <1>3
<1>5. PICK i \in ends : a <= i /\ i < e /\ \A f \in ends : a <= f /\ f < e => f <= i
  <2>. DEFINE Earlier == {f \in ends : a <= f /\ f < e}
  <2>1. Earlier \subseteq 0..(Len(text) + 1) /\ Earlier # {} /\ Len(text) + 1 \in Nat
    BY <1>1, <1>2, <1>4
  <2>2. \E i \in Earlier : \A f \in Earlier : f <= i
    <3>. HIDE DEF Earlier
    <3>. QED BY <2>1, GreatestNatural
  <2>. QED BY <2>2
<1>6. Gap(text, Row, i, e) /\ i \in 0..(Len(text) + 1) /\ i < e
  <2>1. \A k \in ends : ~(i < k /\ k < e)
    BY <1>1, <1>4, <1>5
  <2>. QED BY <1>1, <1>4, <1>5, <2>1 DEF Gap
<1>. DEFINE row == SubSeq(text, i + 1, e - 1)
            u   == i - a
<1>7. /\ row \in Seq(Char) /\ Len(row) = e - i - 1 /\ e - i - 1 \in Nat
      /\ \A k \in 1..(e - i - 1) : row[k] = text[i + k]
  BY <1>4, <1>6, Between
<1>8. DeepWithin(text, a, e) <=> DeepWithin(text, a, i) \/ (i + 1 < e /\ Deep(text, i, e))
  <2>1. DeepWithin(text, a, e) => DeepWithin(text, a, i) \/ (i + 1 < e /\ Deep(text, i, e))
    <3>. SUFFICES ASSUME NEW f \in ends, NEW g \in ends, Gap(text, Row, f, g), f + 1 < g,
                         a <= f, g <= e, Deep(text, f, g)
         PROVE  DeepWithin(text, a, i) \/ (i + 1 < e /\ Deep(text, i, e))
      BY DEF DeepWithin
    <3>1. CASE g <= i
      BY <3>1 DEF DeepWithin
    <3>2. CASE ~(g <= i)
      <4>1. g = e /\ f <= i
        BY <1>1, <1>4, <1>5, <3>2 DEF Gap
      <4>2. f = i
        BY <1>1, <1>4, <1>5, <4>1 DEF Gap
      <4>. QED BY <4>1, <4>2
    <3>. QED BY <3>1, <3>2
  <2>2. DeepWithin(text, a, i) => DeepWithin(text, a, e)
    <3>. SUFFICES ASSUME NEW f \in ends, NEW g \in ends, Gap(text, Row, f, g), f + 1 < g,
                         a <= f, g <= i, Deep(text, f, g)
         PROVE  DeepWithin(text, a, e)
      BY DEF DeepWithin
    <3>1. g <= e
      BY <1>1, <1>4, <1>6
    <3>. QED BY <3>1 DEF DeepWithin
  <2>3. i + 1 < e /\ Deep(text, i, e) => DeepWithin(text, a, e)
    <3>1. e <= e
      BY <1>4
    <3>. QED BY <1>4, <1>5, <1>6, <3>1 DEF DeepWithin
  <2>. QED BY <2>1, <2>2, <2>3
<1>9. /\ u \in Nat /\ IsCount(m[u]) /\ m[u].at = "text" /\ m[u].depth = 0
      /\ m[u].over <=> DeepWithin(text, a, i)
  <2>1. CASE i = a
    <3>1. u = 0
      BY <1>1, <2>1
    <3>2. IsCount(Fresh) /\ Fresh.at = "text" /\ Fresh.depth = 0 /\ Fresh.over = FALSE
      BY DEF Fresh, IsCount
    <3>3. ~DeepWithin(text, a, i)
      <4>. SUFFICES ASSUME NEW f \in ends, NEW g \in ends, f + 1 < g, a <= f, g <= i PROVE FALSE
        BY DEF DeepWithin
      <4>. QED BY <1>1, <2>1
    <3>. QED BY <3>1, <3>2, <3>3
  <2>2. CASE i # a
    <3>1. a < i /\ i <= b /\ i < b /\ i \in 1..Len(text)
      BY <1>1, <1>4, <1>5, <1>6, <2>2
    <3>2. Rests(i)
      <4>1. ~(e <= i)
        BY <1>4, <1>6
      <4>2. i \notin Wrong
        BY <1>3, <4>1
      <4>. QED BY <3>1, <4>2
    <3>3. text[i] = "cut"
      <4>1. text[i] \in Row
        BY <1>5, <3>1, EndsAre
      <4>2. i \notin Ends(text, Line)
        BY <3>1 DEF Gap
      <4>3. text[i] \notin Line
        BY <3>1, <4>2, EndsAre
      <4>. QED BY <4>1, <4>3 DEF Row, Line
    <3>4. u \in 1..(b - a - 1) /\ u - 1 = i - a - 1 /\ a + u = i
      BY <1>1, <1>6, <3>1
    <3>5. m[u] = Deeper(m[i - a - 1], "cut")
      BY <3>3, <3>4
    <3>6. m[u] = m[i - a - 1]
      <4>. DEFINE c == m[i - a - 1]
      <4>1. IsCount(c) /\ c.at = "text" /\ c.depth = 0
        BY <3>2
      <4>. HIDE DEF c
      <4>2. Measure(c, "cut") = c
        BY <4>1 DEF Measure
      <4>3. (c.over \/ c.depth > MaxDepth) = c.over
        <5>1. ~(c.depth > MaxDepth)
          BY <4>1, MaxDepthAssumption
        <5>2. c.over \in BOOLEAN
          BY <4>1 DEF IsCount
        <5>. QED BY <5>1, <5>2, Zenon
      <4>4. [c EXCEPT !.over = c.over] = c
        BY <4>1 DEF IsCount
      <4>5. Deeper(c, "cut") = [c EXCEPT !.over = c.over \/ c.depth > MaxDepth]
        BY <4>2 DEF Deeper
      <4>. QED BY <3>5, <4>3, <4>4, <4>5 DEF c
    <3>. QED BY <3>2, <3>4, <3>6
  <2>. QED BY <2>1, <2>2
<1>10. CASE i + 1 = e
  <2>1. e - a - 1 = u /\ ~(i + 1 < e)
    BY <1>1, <1>4, <1>6, <1>10
  <2>. QED BY <1>4, <1>8, <1>9, <2>1
<1>11. CASE i + 1 # e
  <2>1. i + 1 < e
    BY <1>4, <1>6, <1>11
  <2>2. WellFormed(row)
    BY <1>4, <1>6, <2>1 DEF ReadsAll
  <2>3. \A k \in 1..Len(row) : m[u + k] = Deeper(m[u + k - 1], row[k])
    <3>. SUFFICES ASSUME NEW k \in 1..(e - i - 1) PROVE m[u + k] = Deeper(m[u + k - 1], text[i + k])
      BY <1>7
    <3>1. u + k \in 1..(b - a - 1) /\ a + (u + k) = i + k
      BY <1>1, <1>4, <1>6, <1>9
    <3>. DEFINE w == u + k
    <3>2. w \in 1..(b - a - 1) /\ a + w = i + k
      BY <3>1
    <3>3. w = u + k /\ w - 1 = u + k - 1
      <4>. HIDE DEF u
      <4>. QED BY <1>1, <1>4, <1>6, <1>9
    <3>. HIDE DEF w, u
    <3>4. m[w] = Deeper(m[w - 1], text[a + w])
      BY <3>2
    <3>5. m[w] = Deeper(m[u + k - 1], text[i + k])
      BY <3>2, <3>3, <3>4, Zenon
    <3>. QED BY <3>3, <3>5, Zenon
  <2>. DEFINE before == DeepWithin(text, a, i)
  <2>4. before \in BOOLEAN
    BY DEF DeepWithin
  <2>. HIDE DEF row, u, before
  <2>5. /\ IsCount(m[u + Len(row)]) /\ m[u + Len(row)].at = "text" /\ m[u + Len(row)].depth = 0
        /\ m[u + Len(row)].over <=> before \/ Parsed(row).deepest > MaxDepth
    BY <1>7, <1>9, <2>2, <2>3, <2>4, AlongRow DEF before
  <2>6. u + Len(row) = e - a - 1
    BY <1>1, <1>4, <1>6, <1>7 DEF u
  <2>7. Parsed(row).deepest > MaxDepth <=> Deep(text, i, e)
    BY DEF Deep, row
  <2>. QED BY <1>4, <1>8, <2>1, <2>5, <2>6, <2>7 DEF before
<1>. QED BY <1>10, <1>11

(* A line is too deep where a row of it is.                                *)
LEMMA LineCounted ==
  ASSUME NEW text \in Seq(Char), ReadsAll(text),
         NEW a \in Ends(text, Line), NEW b \in Ends(text, Line), Gap(text, Line, a, b)
  PROVE  NestingExceeds(SubSeq(text, a + 1, b - 1)) <=> DeepWithin(text, a, b)
<1>. DEFINE line == SubSeq(text, a + 1, b - 1)
<1>1. a \in 0..(Len(text) + 1) /\ b \in 0..(Len(text) + 1) /\ a < b /\ b <= b
  BY EndsAre DEF Gap
<1>2. /\ line \in Seq(Char) /\ Len(line) = b - a - 1
      /\ \A k \in 1..(b - a - 1) : line[k] = text[a + k]
  BY <1>1, Between
<1>. HIDE DEF line
<1>3. PICK t : /\ t[0] = Fresh /\ NestingExceeds(line) = t[Len(line)].over
               /\ \A k \in 1..Len(line) : t[k] = Deeper(t[k - 1], line[k])
  BY <1>2, MeasureUnrolls
<1>4. \A k \in 1..(b - a - 1) : t[k] = Deeper(t[k - 1], text[a + k])
  BY <1>2, <1>3
<1>5. b \in Ends(text, Row)
  BY DEF Ends, Line, Row
<1>6. t[b - a - 1].over <=> DeepWithin(text, a, b)
  BY <1>1, <1>3, <1>4, <1>5, RestsAtEnds
<1>. QED BY <1>2, <1>3, <1>6 DEF line

(* Every row lies in a line.                                               *)
LEMMA RowInLine ==
  ASSUME NEW text \in Seq(Char),
         NEW i \in Ends(text, Row), NEW j \in Ends(text, Row), Gap(text, Row, i, j)
  PROVE  \E a \in Ends(text, Line), b \in Ends(text, Line) : Gap(text, Line, a, b) /\ a <= i /\ j <= b
<1>. DEFINE ends    == Ends(text, Line)
            Earlier == {a \in ends : a <= i}
            Later   == {b \in ends : j <= b}
<1>1. /\ ends \subseteq 0..(Len(text) + 1) /\ Len(text) + 1 \in Nat /\ 0 \in ends /\ Len(text) + 1 \in ends
      /\ i \in 0..(Len(text) + 1) /\ j \in 0..(Len(text) + 1) /\ i < j
      /\ ends \subseteq Ends(text, Row)
  BY EndsAre DEF Gap, Ends, Line, Row
<1>2. PICK a \in Earlier : \A c \in Earlier : c <= a
  <2>1. 0 \in Earlier /\ Earlier \subseteq 0..(Len(text) + 1)
    BY <1>1
  <2>. HIDE DEF Earlier
  <2>. QED BY <1>1, <2>1, GreatestNatural
<1>3. PICK b \in Later : \A c \in Later : b <= c
  <2>1. Len(text) + 1 \in Later /\ Later \subseteq Nat
    BY <1>1
  <2>. HIDE DEF Later
  <2>. QED BY <2>1, LeastNatural
<1>4. \A c \in ends : ~(a < c /\ c < b)
  <2>. SUFFICES ASSUME NEW c \in ends, a < c, c < b PROVE FALSE
    OBVIOUS
  <2>1. i < c /\ c < j
    BY <1>1, <1>2, <1>3
  <2>. QED BY <1>1, <2>1 DEF Gap
<1>5. a < b /\ a \in ends /\ b \in ends /\ a <= i /\ j <= b
  BY <1>1, <1>2, <1>3
<1>. QED BY <1>4, <1>5 DEF Gap

(* A row that the parser accepts does not begin with a byte order mark.    *)
LEMMA AcceptedStart ==
  ASSUME NEW row \in Seq(Char), WellFormed(row)
  PROVE  row # <<>> /\ row[1] # "bom"
<1>1. PICK t : /\ t[0] = Blank /\ Parsed(row) = t[Len(row)]
               /\ \A k \in 1..Len(row) : t[k] = Parse(t[k - 1], row[k])
  BY ParseUnrolls
<1>2. t[Len(row)].at = "end" /\ Len(row) \in Nat
  BY <1>1 DEF WellFormed
<1>3. row # <<>>
  <2>1. t[0].at = "text"
    BY <1>1 DEF Blank
  <2>. QED BY <1>2, <2>1
<1>4. ASSUME row[1] = "bom" PROVE FALSE
  <2>1. 1 \in 1..Len(row) /\ 1 - 1 = 0
    BY <1>2, <1>3
  <2>2. t[1] = Parse(Blank, "bom")
    BY <1>1, <1>4, <2>1
  <2>3. t[1].at = "refused"
    BY <2>2 DEF Parse, Blank
  <2>. DEFINE On == {k \in 1..Len(row) : t[k].at # "refused"}
  <2>4. On # {} /\ On \subseteq Nat
    BY <1>2, <1>3
  <2>5. PICK k \in On : \A l \in On : k <= l
    <3>. HIDE DEF On
    <3>. QED BY <2>4, LeastNatural
  <2>6. k \in 1..Len(row) /\ t[k].at # "refused" /\ k # 1
    BY <2>3, <2>5
  <2>7. k - 1 \in 1..Len(row) /\ k - 1 \notin On
    BY <1>2, <2>5, <2>6
  <2>8. t[k] = Parse(t[k - 1], row[k]) /\ t[k - 1].at = "refused"
    BY <1>1, <2>6, <2>7
  <2>. QED BY <2>6, <2>8 DEF Parse
<1>. QED BY <1>3, <1>4

(* Nor does a text whose rows are all accepted, or a line of it.           *)
LEMMA NoMark ==
  ASSUME NEW text \in Seq(Char), ReadsAll(text), NEW a \in Ends(text, Row), a + 1 \in 1..Len(text)
  PROVE  text[a + 1] # "bom"
<1>. DEFINE ends  == Ends(text, Row)
            Later == {b \in ends : a < b}
<1>1. /\ ends \subseteq 0..(Len(text) + 1) /\ Len(text) \in Nat /\ Len(text) + 1 \in ends
      /\ a \in 0..(Len(text) + 1) /\ \A i \in 1..Len(text) : i \in ends <=> text[i] \in Row
  BY EndsAre
<1>2. PICK j \in Later : \A c \in Later : j <= c
  <2>1. Later \subseteq Nat /\ Later # {}
    BY <1>1
  <2>. HIDE DEF Later
  <2>. QED BY <2>1, LeastNatural
<1>3. j \in ends /\ a < j /\ j \in 0..(Len(text) + 1) /\ \A c \in ends : ~(a < c /\ c < j)
  BY <1>1, <1>2
<1>4. CASE j = a + 1
  BY <1>1, <1>3, <1>4 DEF Row
<1>5. CASE j # a + 1
  <2>. DEFINE row == SubSeq(text, a + 1, j - 1)
  <2>1. a + 1 < j /\ 1 \in 1..(j - a - 1)
    BY <1>1, <1>3, <1>5
  <2>2. Gap(text, Row, a, j)
    BY <1>3 DEF Gap
  <2>3. WellFormed(row)
    BY <1>3, <2>1, <2>2 DEF ReadsAll
  <2>4. row \in Seq(Char) /\ row[1] = text[a + 1]
    BY <1>1, <1>3, <2>1, Between
  <2>. HIDE DEF row
  <2>. QED BY <2>3, <2>4, AcceptedStart
<1>. QED BY <1>4, <1>5

(* Where the text is one row, the count of it is the parser's.             *)
LEMMA TextCounted ==
  ASSUME NEW row \in Seq(Char), WellFormed(row)
  PROVE  /\ Parsed(row).deepest \in Nat
         /\ NestingExceeds(row) <=> Parsed(row).deepest > MaxDepth
<1>1. PICK m : /\ m[0] = Fresh /\ NestingExceeds(row) = m[Len(row)].over
               /\ \A k \in 1..Len(row) : m[k] = Deeper(m[k - 1], row[k])
  BY MeasureUnrolls
<1>. DEFINE u      == 0
            before == FALSE
<1>2. /\ u \in Nat /\ before \in BOOLEAN /\ ~before
      /\ IsCount(m[u]) /\ m[u].at = "text" /\ m[u].depth = 0
      /\ m[u].over <=> before
  BY <1>1 DEF Fresh, IsCount
<1>3. u + Len(row) = Len(row) /\ \A k \in 1..Len(row) : u + k = k /\ u + k - 1 = k - 1
  OBVIOUS
<1>. HIDE DEF u, before
<1>4. \A k \in 1..Len(row) : m[u + k] = Deeper(m[u + k - 1], row[k])
  BY <1>1, <1>3
<1>5. /\ m[u + Len(row)].over <=> before \/ Parsed(row).deepest > MaxDepth
      /\ Parsed(row).deepest \in Nat
  BY <1>2, <1>4, AlongRow
<1>. QED BY <1>1, <1>2, <1>3, <1>5

(* The rows of a file that is read line by line.                           *)
LEMMA RowsAreGaps ==
  ASSUME NEW text \in Seq(Char)
  PROVE  \A row : row \in Rows(text, TRUE) <=>
           \E i \in Ends(text, Row), j \in Ends(text, Row) :
             Gap(text, Row, i, j) /\ i + 1 < j /\ row = SubSeq(text, i + 1, j - 1)
<1>1. \A i \in Ends(text, Row), j \in Ends(text, Row) :
        Gap(text, Row, i, j) => (SubSeq(text, i + 1, j - 1) # <<>> <=> i + 1 < j)
  <2>. SUFFICES ASSUME NEW i \in Ends(text, Row), NEW j \in Ends(text, Row), Gap(text, Row, i, j)
       PROVE  SubSeq(text, i + 1, j - 1) # <<>> <=> i + 1 < j
    OBVIOUS
  <2>1. i \in 0..(Len(text) + 1) /\ j \in 0..(Len(text) + 1) /\ i < j
    BY EndsAre DEF Gap
  <2>. DEFINE row == SubSeq(text, i + 1, j - 1)
  <2>2. row \in Seq(Char) /\ Len(row) = j - i - 1
    BY <2>1, Between
  <2>. HIDE DEF row
  <2>3. row # <<>> <=> Len(row) # 0
    BY <2>2, EmptySeq
  <2>. QED BY <2>1, <2>2, <2>3 DEF row
<1>2. Rows(text, TRUE) = Pieces(text, Row) \ {<<>>}
  BY DEF Rows, Row
<1>3. ASSUME NEW row \in Rows(text, TRUE)
      PROVE  \E i \in Ends(text, Row), j \in Ends(text, Row) :
               Gap(text, Row, i, j) /\ i + 1 < j /\ row = SubSeq(text, i + 1, j - 1)
  <2>1. row \in Pieces(text, Row) /\ row # <<>>
    BY <1>2
  <2>2. PICK i \in Ends(text, Row), j \in Ends(text, Row) :
          Gap(text, Row, i, j) /\ row = SubSeq(text, i + 1, j - 1)
    BY <2>1, PiecesAreGaps
  <2>3. i + 1 < j
    BY <1>1, <2>1, <2>2
  <2>. QED BY <2>2, <2>3
<1>4. ASSUME NEW i \in Ends(text, Row), NEW j \in Ends(text, Row), Gap(text, Row, i, j), i + 1 < j
      PROVE  SubSeq(text, i + 1, j - 1) \in Rows(text, TRUE)
  <2>1. SubSeq(text, i + 1, j - 1) \in Pieces(text, Row)
    BY <1>4, PiecesAreGaps
  <2>. QED BY <1>1, <1>2, <1>4, <2>1
<1>. QED BY <1>3, <1>4

(* Of a text that the parser accepts, the levels of its rows decide, and   *)
(* not its strings or the way it is cut into lines: _nesting_exceeds, an   *)
(* approximation that never parses, agrees with json.loads on every text,  *)
(* whole or read line by line.                                             *)
THEOREM DepthDecides ==
  ASSUME NEW text \in Seq(Char), NEW lines \in BOOLEAN,
         \A row \in Rows(text, lines) : WellFormed(row)
  PROVE  /\ TooDeep(text, lines) <=> \E row \in Rows(text, lines) : Parsed(row).deepest > MaxDepth
         /\ \A row \in Rows(text, lines) : Parsed(row).deepest \in Nat
<1>1. CASE ~lines
  <2>1. Rows(text, lines) = {text} /\ WellFormed(text)
    BY <1>1 DEF Rows
  <2>2. ~StartsWithBom(text)
    BY <2>1, AcceptedStart DEF StartsWithBom
  <2>3. TooDeep(text, lines) <=> NestingExceeds(text)
    BY <1>1, <2>2 DEF TooDeep
  <2>. QED BY <2>1, <2>3, TextCounted
<1>2. CASE lines
  <2>1. ReadsAll(text)
    BY <1>2, RowsAreGaps DEF ReadsAll
  <2>2. 0 \in Ends(text, Row) /\ Len(text) \in Nat
    BY EndsAre
  <2>3. ~StartsWithBom(text)
    <3>1. text # <<>> => 0 + 1 \in 1..Len(text) /\ Head(text) = text[0 + 1]
      BY <2>2
    <3>. QED BY <2>1, <2>2, <3>1, NoMark DEF StartsWithBom
  <2>4. ASSUME NEW a \in Ends(text, Line), NEW b \in Ends(text, Line), Gap(text, Line, a, b)
        PROVE  ~StartsWithBom(SubSeq(text, a + 1, b - 1))
    <3>1. a \in 0..(Len(text) + 1) /\ b \in 0..(Len(text) + 1) /\ a < b /\ a \in Ends(text, Row)
      BY <2>4, EndsAre DEF Gap, Ends, Line, Row
    <3>. DEFINE line == SubSeq(text, a + 1, b - 1)
    <3>2. /\ line \in Seq(Char) /\ Len(line) = b - a - 1
          /\ \A k \in 1..(b - a - 1) : line[k] = text[a + k] /\ a + k \in 1..Len(text)
      BY <3>1, Between
    <3>. HIDE DEF line
    <3>3. line # <<>> => 1 \in 1..(b - a - 1) /\ Head(line) = line[1]
      BY <3>1, <3>2
    <3>4. line # <<>> => Head(line) # "bom"
      BY <2>1, <3>1, <3>2, <3>3, NoMark
    <3>. QED BY <3>4 DEF StartsWithBom, line
  <2>5. TooDeep(text, lines) <=> \E line \in Pieces(text, Line) : NestingExceeds(line)
    <3>1. ASSUME NEW line \in Pieces(text, Line) PROVE ~StartsWithBom(line)
      <4>1. PICK a \in Ends(text, Line), b \in Ends(text, Line) :
              Gap(text, Line, a, b) /\ line = SubSeq(text, a + 1, b - 1)
        BY <3>1, PiecesAreGaps
      <4>. QED BY <2>4, <4>1
    <3>. QED BY <1>2, <2>3, <3>1 DEF TooDeep, Line
  <2>6. (\E line \in Pieces(text, Line) : NestingExceeds(line)) <=>
        \E a \in Ends(text, Line), b \in Ends(text, Line) : Gap(text, Line, a, b) /\ DeepWithin(text, a, b)
    <3>1. ASSUME NEW line \in Pieces(text, Line), NestingExceeds(line)
          PROVE  \E a \in Ends(text, Line), b \in Ends(text, Line) :
                   Gap(text, Line, a, b) /\ DeepWithin(text, a, b)
      <4>1. PICK a \in Ends(text, Line), b \in Ends(text, Line) :
              Gap(text, Line, a, b) /\ line = SubSeq(text, a + 1, b - 1)
        BY <3>1, PiecesAreGaps
      <4>2. DeepWithin(text, a, b)
        BY <2>1, <3>1, <4>1, LineCounted
      <4>. QED BY <4>1, <4>2
    <3>2. ASSUME NEW a \in Ends(text, Line), NEW b \in Ends(text, Line),
                 Gap(text, Line, a, b), DeepWithin(text, a, b)
          PROVE  \E line \in Pieces(text, Line) : NestingExceeds(line)
      <4>1. SubSeq(text, a + 1, b - 1) \in Pieces(text, Line)
        BY <3>2, PiecesAreGaps
      <4>2. NestingExceeds(SubSeq(text, a + 1, b - 1))
        BY <2>1, <3>2, LineCounted
      <4>. QED BY <4>1, <4>2
    <3>. QED BY <3>1, <3>2
  <2>7. (\E a \in Ends(text, Line), b \in Ends(text, Line) : Gap(text, Line, a, b) /\ DeepWithin(text, a, b))
        <=> \E i \in Ends(text, Row), j \in Ends(text, Row) :
              Gap(text, Row, i, j) /\ i + 1 < j /\ Deep(text, i, j)
    BY RowInLine DEF DeepWithin
  <2>8. TooDeep(text, lines) <=> \E row \in Rows(text, lines) : Parsed(row).deepest > MaxDepth
    <3>1. ASSUME NEW i \in Ends(text, Row), NEW j \in Ends(text, Row),
                 Gap(text, Row, i, j), i + 1 < j, Deep(text, i, j)
          PROVE  \E row \in Rows(text, lines) : Parsed(row).deepest > MaxDepth
      <4>1. SubSeq(text, i + 1, j - 1) \in Rows(text, lines)
        BY <1>2, <3>1, RowsAreGaps
      <4>. QED BY <3>1, <4>1 DEF Deep
    <3>2. ASSUME NEW row \in Rows(text, lines), Parsed(row).deepest > MaxDepth
          PROVE  \E i \in Ends(text, Row), j \in Ends(text, Row) :
                   Gap(text, Row, i, j) /\ i + 1 < j /\ Deep(text, i, j)
      <4>1. PICK i \in Ends(text, Row), j \in Ends(text, Row) :
              Gap(text, Row, i, j) /\ i + 1 < j /\ row = SubSeq(text, i + 1, j - 1)
        BY <1>2, <3>2, RowsAreGaps
      <4>. QED BY <3>2, <4>1 DEF Deep
    <3>. QED BY <2>5, <2>6, <2>7, <3>1, <3>2
  <2>9. ASSUME NEW row \in Rows(text, lines) PROVE row \in Seq(Char)
    <3>1. PICK i \in Ends(text, Row), j \in Ends(text, Row) :
            Gap(text, Row, i, j) /\ row = SubSeq(text, i + 1, j - 1)
      BY <1>2, <2>9, RowsAreGaps
    <3>2. i \in 0..(Len(text) + 1) /\ j \in 0..(Len(text) + 1) /\ i < j
      BY <3>1, EndsAre DEF Gap
    <3>. QED BY <3>1, <3>2, Between
  <2>. QED BY <2>8, <2>9, TextCounted
<1>. QED BY <1>1, <1>2

(* Every host whose stack carries MAX_JSON_DEPTH levels reads a text the   *)
(* same: the parser never gets to the level at which it would give up.     *)
THEOREM HostsAgree ==
  ASSUME NEW text \in Seq(Char), NEW lines \in BOOLEAN,
         NEW one \in Nat, NEW other \in Nat, one >= MaxDepth, other >= MaxDepth
  PROVE  Reading(text, lines, one) = Reading(text, lines, other)
<1>1. CASE TooDeep(text, lines)
  BY <1>1 DEF Reading
<1>2. CASE ~TooDeep(text, lines) /\ \E row \in Rows(text, lines) : ~WellFormed(row)
  BY <1>2 DEF Reading
<1>3. CASE ~TooDeep(text, lines) /\ \A row \in Rows(text, lines) : WellFormed(row)
  <2>1. \A row \in Rows(text, lines) : Parsed(row).deepest \in Nat /\ ~(Parsed(row).deepest > MaxDepth)
    BY <1>3, DepthDecides
  <2>2. \A row \in Rows(text, lines) : Parsed(row).deepest <= one /\ Parsed(row).deepest <= other
    BY <2>1, MaxDepthAssumption
  <2>3. Reading(text, lines, one) = "value" /\ Reading(text, lines, other) = "value"
    BY <1>3, <2>2 DEF Reading
  <2>. QED BY <2>3
<1>. QED BY <1>1, <1>2, <1>3
=============================================================================
