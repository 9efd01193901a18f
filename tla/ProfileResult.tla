--------------------------- MODULE ProfileResult ---------------------------
(***************************************************************************)
(* What the evidence profiles of vac/verify.py (SPEC section 3) have in    *)
(* common.  A profile's function reads artifacts, names reasons, and gives *)
(* a pool, the fields and values a summary may cite, or None.  It may name *)
(* reasons and still give its pool.                                        *)
(*                                                                         *)
(* A JSON object is a function on the keys it holds, an array of objects a *)
(* sequence; Get is dict.get.  A file that cannot be read, parsed or has   *)
(* the wrong shape at the top is None.  A pool is a set of pairs.          *)
(***************************************************************************)
EXTENDS Integers, Sequences, FiniteSets

CONSTANTS
  None,     \* JSON's null, an absent key, an unusable file, no pool
  Junk,     \* a list or an object where a scalar is due: it has no hash
  Raised    \* in place of a pool: an exception left the function

(* None of the three is a value that JSON or a recount could hold, and an  *)
(* exception is not a pool that was not given.                             *)
ASSUME ValuesAssumption ==
  /\ None # Junk /\ None # Raised
  /\ \A v \in {None, Junk, Raised} : v \notin BOOLEAN \cup Int

Get(obj, key) == IF key \in DOMAIN obj THEN obj[key] ELSE None

(* Two objects in one; where both have a key, the first one's value.       *)
Join(a, b) == [k \in DOMAIN a \cup DOMAIN b |-> IF k \in DOMAIN a THEN a[k] ELSE b[k]]

NameWhen(cond, reason) == IF cond THEN {reason} ELSE {}

Result(reasons, pool) == [reasons |-> reasons, pool |-> pool]

(* Mutant: the function gives up without saying why.                       *)
RefusedSilently(reason) == Result({}, None)

Refused(reason) == Result({reason}, None)

(* A recount is a function from field to number; this is its pool.         *)
PoolOf(recount) == {<<field, recount[field]>> : field \in DOMAIN recount}

(* Every key a recount has, held against what an object declares: an       *)
(* absent key is as wrong as a different value.                            *)
Differing(declared, recount) == {k \in DOMAIN recount : Get(declared, k) # recount[k]}

(* The declared numbers, which most profiles require.                      *)
ExpectReasons(expect, recount) ==
  IF expect = None \/ DOMAIN expect = {}
  THEN {"expect: required"}
  ELSE NameWhen(~ DOMAIN expect \subseteq DOMAIN recount, "expect: not recomputable")
         \cup NameWhen(\E k \in DOMAIN expect \cap DOMAIN recount : expect[k] # recount[k],
                       "expect: differs")

(* A stamp the protocol names must be in the artifact and be the same.     *)
StampDiffers(artifact, key, stamp) == key \notin DOMAIN artifact \/ artifact[key] # stamp

(* round(num / den, places), as a number of units: half to even.           *)
Rounded(num, den, unit) ==
  LET whole == (num * unit) \div den
      rest  == (num * unit) % den
  IN  CASE 2 * rest < den -> whole
        [] 2 * rest > den -> whole + 1
        [] OTHER          -> whole + (whole % 2)

(* A quotient that is not rounded, as a number of units that every divisor *)
(* up to ten divides.                                                      *)
Unit == 2520
Exactly(num, den) == (num * Unit) \div den

(* The indices of the rows in which a field has a value.                   *)
Where(rows, field, value) == {i \in DOMAIN rows : Get(rows[i], field) = value}
Tally(rows, field, value) == Cardinality(Where(rows, field, value))

(* The rows at some of their indices, in their order: what a loop that     *)
(* passes over the others has seen.                                        *)
Kept(rows, S) ==
  [n \in 1..Cardinality(S) |-> rows[CHOOSE i \in S : Cardinality({j \in S : j <= i}) = n]]

(* The first row of which something holds, or the index after the last: a  *)
(* loop that returns from its middle has done the rows before it.          *)
FirstOf(rows, Bad(_)) ==
  CHOOSE n \in 1..Len(rows) + 1 :
    /\ n \in DOMAIN rows => Bad(rows[n])
    /\ \A i \in 1..n - 1 : ~ Bad(rows[i])
=============================================================================
