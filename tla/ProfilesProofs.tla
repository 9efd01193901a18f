--------------------------- MODULE ProfilesProofs ---------------------------
(***************************************************************************)
(* Theorems about the evidence profiles, for submissions of any size and   *)
(* histories of any length: what may be cited is what one pass over the    *)
(* measurements would have counted (PoolsAreRecounts), an accepted         *)
(* submission declares such numbers (AcceptedNumbersAreCounted) and is,    *)
(* row by row and file by file, what its tool would have written, up to    *)
(* nulls and keys of its own (AcceptedIsReissued), no pool is given up     *)
(* without a reason (ContractKept), and an outage moves no number of a     *)
(* board (OutagesMoveNothing).                                             *)
(***************************************************************************)
EXTENDS Profiles, SequenceTheorems, Induction

-----------------------------------------------------------------------------
(* A function has answered when it gave a pool, or named no reason.        *)
Answered(result) == result.pool # Raised /\ (result.pool # None \/ result.reasons = {})

(* What a result is made of; a refusal names its reason.                   *)
LEMMA ResultHas ==
  ASSUME NEW r, NEW p
  PROVE  Result(r, p).reasons = r /\ Result(r, p).pool = p
BY DEF Result

LEMMA RefusedNames ==
  ASSUME NEW r
  PROVE  Refused(r).reasons # {}
<1>1. {r} # {}
  OBVIOUS
<1>2. Refused(r).reasons = {r}
  BY ResultHas DEF Refused
<1>. QED BY <1>1, <1>2, Zenon

(* The tools' passes.                                                      *)

(* A pass over flags counts the true ones.                                 *)
LEMMA TruesAre ==
  ASSUME NEW n \in Nat, NEW flags, DOMAIN flags = 1..n
  PROVE  Trues(flags) = Cardinality({i \in 1..n : flags[i]})
<1>. DEFINE S == {i \in 1..n : flags[i]}
            Pass(g)  == [s \in SUBSET (1..n) |->
                           IF s = {} THEN 0
                           ELSE IF flags[Max(s)] THEN g[s \ {Max(s)}] + 1 ELSE g[s \ {Max(s)}]]
            Count(g) == [s \in SUBSET (1..n) |->
                           IF s = {} THEN 0
                           ELSE IF Max(s) \in S THEN g[s \ {Max(s)}] + 1 ELSE g[s \ {Max(s)}]]
<1>1. Trues(flags) = (CHOOSE g : g = Pass(g))[1..n]
  BY Zenon DEF Trues, FoldLeft, MapThenFoldSet
<1>2. ASSUME NEW g PROVE Pass(g) = Count(g)
  <2>1. \A s \in SUBSET (1..n) : s # {} => (flags[Max(s)] <=> Max(s) \in S)
    BY LastPlace
  <2>. QED BY <2>1
<1>3. CountOf(S, 1..n) = (CHOOSE g : g = Count(g))[1..n]
  BY DEF CountOf
<1>. HIDE DEF Pass, Count
<1>4. (CHOOSE g : g = Pass(g)) = (CHOOSE g : g = Count(g))
  BY <1>2
<1>5. S \in SUBSET (1..n)
  OBVIOUS
<1>. HIDE DEF S
<1>6. CountOf(S, 1..n) = Cardinality(S)
  BY <1>5, CountIsCardinality
<1>. QED BY <1>1, <1>3, <1>4, <1>6 DEF S

(* A pass over numbers adds them.                                          *)
LEMMA AddedIs ==
  ASSUME NEW n \in Nat, NEW numbers \in [1..n -> Int]
  PROVE  Added(numbers) = SumOf(numbers, 1..n)
<1>1. Added(numbers) = FoldOf(numbers, 1..n)
  BY Zenon DEF Added, FoldLeft, MapThenFoldSet, FoldOf
<1>. QED BY <1>1, FoldIsSum

(* A list is a function on its places.                                     *)
LEMMA ListIs ==
  ASSUME NEW rows, IsList(rows)
  PROVE  /\ Len(rows) \in Nat /\ DOMAIN rows = 1..Len(rows)
         /\ IsFiniteSet(DOMAIN rows)
         /\ rows \in Seq(ToSet(rows))
<1>1. Len(rows) \in Nat /\ DOMAIN rows = 1..Len(rows)
  BY DEF IsList
<1>2. IsFiniteSet(DOMAIN rows)
  BY <1>1, FS_Interval
<1>. QED BY <1>1, <1>2 DEF IsList

(* Tallied over a field that holds flags.                                  *)
LEMMA FlagsTallied ==
  ASSUME NEW rows, IsList(rows), NEW flag,
         \A i \in DOMAIN rows : flag \in DOMAIN rows[i] /\ rows[i][flag] \in BOOLEAN
  PROVE  Trues([i \in DOMAIN rows |-> rows[i][flag]]) = Tally(rows, flag, TRUE)
<1>. DEFINE flags == [i \in DOMAIN rows |-> rows[i][flag]]
<1>1. Len(rows) \in Nat /\ DOMAIN flags = 1..Len(rows) /\ DOMAIN rows = 1..Len(rows)
  BY ListIs
<1>2. {i \in 1..Len(rows) : flags[i]} = Where(rows, flag, TRUE)
  BY <1>1 DEF Where, Get
<1>. HIDE DEF flags
<1>3. Trues(flags) = Cardinality({i \in 1..Len(rows) : flags[i]})
  BY <1>1, TruesAre
<1>. QED BY <1>2, <1>3 DEF Tally, flags

(* Tallied over a field that holds a value.                                *)
LEMMA ValuesTallied ==
  ASSUME NEW rows, IsList(rows), NEW field, NEW value
  PROVE  Trues([i \in DOMAIN rows |-> Get(rows[i], field) = value]) = Tally(rows, field, value)
<1>. DEFINE flags == [i \in DOMAIN rows |-> Get(rows[i], field) = value]
<1>1. Len(rows) \in Nat /\ DOMAIN flags = 1..Len(rows) /\ DOMAIN rows = 1..Len(rows)
  BY ListIs
<1>2. {i \in 1..Len(rows) : flags[i]} = Where(rows, field, value)
  BY <1>1 DEF Where
<1>. HIDE DEF flags
<1>3. Trues(flags) = Cardinality({i \in 1..Len(rows) : flags[i]})
  BY <1>1, TruesAre
<1>. QED BY <1>2, <1>3 DEF Tally, flags

-----------------------------------------------------------------------------
(* Each profile's pool against its tool.                                   *)

(* certlab: tallies over sets of rows are counts made in one pass.         *)
LEMMA CertlabRecounted ==
  ASSUME NEW s, s.profile = "certlab", AsMeasured(s), Answered(CheckCertlab(s))
  PROVE  CheckCertlab(s).pool = CertlabCitable(s)
<1>. DEFINE verdicts == s.artifact["verdicts"]
            modes    == {Get(verdicts[i], "failure_mode") : i \in DOMAIN verdicts} \ {None}
<1>1. /\ IsList(verdicts)
      /\ \A i \in DOMAIN verdicts, flag \in {"fixed", "policy_ok", "tests_ok"} :
           flag \in DOMAIN verdicts[i] /\ verdicts[i][flag] \in BOOLEAN
  BY DEF AsMeasured, MeasuredRows, RowsKey, RowAsMeasured, Flagged
<1>2. CheckCertlab(s).pool = CertlabPool(verdicts, CertlabCounts(verdicts))
  BY DEF CheckCertlab, Refused, Result, Answered
<1>. HIDE DEF verdicts
<1>3. CertlabCounts(verdicts) = CertlabNumbers(verdicts)
  <2>1. CountIf(verdicts, LAMBDA v : v["fixed"]) = Tally(verdicts, "fixed", TRUE)
    BY <1>1, FlagsTallied DEF CountIf
  <2>2. CountIf(verdicts, LAMBDA v : v["policy_ok"]) = Tally(verdicts, "policy_ok", TRUE)
    BY <1>1, FlagsTallied DEF CountIf
  <2>3. CountIf(verdicts, LAMBDA v : v["tests_ok"]) = Tally(verdicts, "tests_ok", TRUE)
    BY <1>1, FlagsTallied DEF CountIf
  <2>. QED BY <2>1, <2>2, <2>3 DEF CertlabCounts, CertlabNumbers
<1>4. ASSUME NEW m
      PROVE  CountIf(verdicts, LAMBDA v : Get(v, "failure_mode") = m) = Tally(verdicts, "failure_mode", m)
  BY <1>1, ValuesTallied DEF CountIf
<1>5. DOMAIN CertlabCounts(verdicts) = {"verdicts", "fixed", "policy_ok", "tests_ok"}
  BY DEF CertlabCounts
<1>6. ToSet([i \in DOMAIN verdicts |-> Get(verdicts[i], "failure_mode")]) \ {None, "verdicts", "fixed", "policy_ok", "tests_ok"}
        = modes \ DOMAIN CertlabCounts(verdicts)
  BY <1>5 DEF ToSet
<1>7. PoolOf([m \in modes \ DOMAIN CertlabCounts(verdicts) |-> Tally(verdicts, "failure_mode", m)])
        = {<<m, Tally(verdicts, "failure_mode", m)>> : m \in modes \ DOMAIN CertlabCounts(verdicts)}
  BY DEF PoolOf
<1>. HIDE DEF modes
<1>. DEFINE M == modes \ DOMAIN CertlabCounts(verdicts)
<1>8. CertlabCitable(s) = PoolOf(CertlabNumbers(verdicts)) \cup
        {<<m, CountIf(verdicts, LAMBDA v : Get(v, "failure_mode") = m)>> : m \in M}
  BY <1>6 DEF CertlabCitable, verdicts
<1>9. {<<m, CountIf(verdicts, LAMBDA v : Get(v, "failure_mode") = m)>> : m \in M}
        = {<<m, Tally(verdicts, "failure_mode", m)>> : m \in M}
  <2>. DEFINE N(m) == CountIf(verdicts, LAMBDA v : Get(v, "failure_mode") = m)
              T(m) == Tally(verdicts, "failure_mode", m)
  <2>1. \A m : N(m) = T(m)
    BY <1>4
  <2>. HIDE DEF N, T, M
  <2>2. {<<m, N(m)>> : m \in M} = {<<m, T(m)>> : m \in M}
    BY <2>1
  <2>. QED BY <2>2 DEF N, T
<1>10. CertlabPool(verdicts, CertlabCounts(verdicts))
         = PoolOf(CertlabCounts(verdicts)) \cup {<<m, Tally(verdicts, "failure_mode", m)>> : m \in M}
  BY <1>7 DEF CertlabPool, modes
<1>. QED BY <1>2, <1>3, <1>8, <1>9, <1>10

(* What is not in a part.                                                  *)
LEMMA RestOf ==
  ASSUME NEW D, IsFiniteSet(D), NEW S \in SUBSET D
  PROVE  /\ Cardinality(D) \in Nat /\ Cardinality(S) \in Nat /\ Cardinality(S) <= Cardinality(D)
         /\ Cardinality(D \ S) = Cardinality(D) - Cardinality(S)
<1>1. IsFiniteSet(S) /\ IsFiniteSet(D \ S) /\ Cardinality(S) <= Cardinality(D)
  BY FS_Subset
<1>2. Cardinality(S) \in Nat /\ Cardinality(D \ S) \in Nat /\ Cardinality(D) \in Nat
  BY <1>1, FS_CardinalityType
<1>3. S \cup (D \ S) = D /\ S \cap (D \ S) = {}
  OBVIOUS
<1>4. Cardinality(S \cup (D \ S)) = Cardinality(S) + Cardinality(D \ S) - Cardinality(S \cap (D \ S))
  BY <1>1, FS_Union
<1>5. Cardinality(S \cap (D \ S)) = 0
  BY <1>3, FS_EmptySet
<1>6. Cardinality(S \cup (D \ S)) = Cardinality(D)
  BY <1>3
<1>. QED BY <1>1, <1>2, <1>4, <1>5, <1>6

(* A pass over flags, by the places where they are true.                   *)
LEMMA CountedAt ==
  ASSUME NEW rows, IsList(rows), NEW flags, DOMAIN flags = DOMAIN rows, NEW S \in SUBSET DOMAIN rows,
         \A i \in DOMAIN rows : flags[i] <=> i \in S
  PROVE  Trues(flags) = Cardinality(S)
<1>1. Len(rows) \in Nat /\ DOMAIN flags = 1..Len(rows) /\ DOMAIN rows = 1..Len(rows)
  BY ListIs
<1>2. {i \in 1..Len(rows) : flags[i]} = S
  BY <1>1
<1>. QED BY <1>1, <1>2, TruesAre

-----------------------------------------------------------------------------
(* Weights of a set of rows are their sum.                                 *)
LEMMA WeightsAdded ==
  ASSUME NEW rows, NEW S, IsFiniteSet(S), \A i \in S : Weight[rows[i].severity] \in Int
  PROVE  WeightOf(rows, S) = SumOf([i \in S |-> Weight[rows[i].severity]], S)
<1>. DEFINE f == [i \in S |-> Weight[rows[i].severity]]
            Some(s)   == CHOOSE x \in s : TRUE
            Sets(g)  == [s \in SUBSET S |-> IF s = {} THEN 0
                                          ELSE Weight[rows[Some(s)].severity] + g[s \ {Some(s)}]]
            Picks(g) == [s \in SUBSET S |-> IF s = {} THEN 0 ELSE f[Some(s)] + g[s \ {Some(s)}]]
<1>1. WeightOf(rows, S) = (CHOOSE g : g = Sets(g))[S]
  BY SMT DEF WeightOf, MapThenSumSet, MapThenFoldSet
<1>2. PickOf(f, S) = (CHOOSE g : g = Picks(g))[S]
  BY DEF PickOf
<1>3. ASSUME NEW g PROVE Sets(g) = Picks(g)
  <2>1. \A s \in SUBSET S : s # {} => Some(s) \in S
    OBVIOUS
  <2>. HIDE DEF Some
  <2>2. \A s \in SUBSET S : s # {} => f[Some(s)] = Weight[rows[Some(s)].severity]
    BY <2>1
  <2>. HIDE DEF f
  <2>. QED BY <2>2
<1>4. f \in [S -> Int]
  OBVIOUS
<1>. HIDE DEF Sets, Picks, f
<1>5. (CHOOSE g : g = Sets(g)) = (CHOOSE g : g = Picks(g))
  BY <1>3
<1>6. PickOf(f, S) = SumOf(f, S)
  BY <1>4, PickIsSum
<1>. QED BY <1>1, <1>2, <1>5, <1>6 DEF f

(* Severities in the table weigh.                                          *)
LEMMA KnownWeigh ==
  ASSUME NEW rows, NEW S, ~Unknown(rows, S), NEW i \in S
  PROVE  /\ "severity" \in DOMAIN rows[i] /\ rows[i]["severity"] \in DOMAIN Weight
         /\ Weight[rows[i]["severity"]] \in Int
<1>1. Get(rows[i], "severity") \in DOMAIN Weight
  BY DEF Unknown
<1>2. None \notin DOMAIN Weight
  BY SeverityAssumption
<1>3. "severity" \in DOMAIN rows[i] /\ rows[i]["severity"] \in DOMAIN Weight
  BY <1>1, <1>2 DEF Get
<1>. QED BY <1>3 DEF Weight

(* A battery's numbers: shares of weights, of a table that is fixed.       *)
LEMMA BatteryCounted ==
  ASSUME NEW cases, IsList(cases), \A i \in DOMAIN cases : Explicit(cases[i]), ~Unknown(cases, Graded(cases))
  PROVE  BatteryRecount(cases) = BatteryNumbers(cases)
<1>. DEFINE graded == Graded(cases)
            D      == DOMAIN cases
<1>1. IsList(cases)
  OBVIOUS
<1>2. (\A i \in DOMAIN cases : Explicit(cases[i])) /\ ~Unknown(cases, Graded(cases))
  OBVIOUS
<1>3. \A i \in D, k \in {"passed", "truncated", "flagged"} : k \in DOMAIN cases[i] /\ cases[i][k] \in BOOLEAN
  <2>1. None \notin BOOLEAN
    BY ValuesAssumption
  <2>. QED BY <1>2, <2>1 DEF Explicit, Get
<1>4. IsFiniteSet(D) /\ Cardinality(D) = Len(cases) /\ Len(cases) \in Nat
  BY <1>1, ListIs, FS_Interval
<1>5. graded = {i \in D : ~cases[i]["truncated"]} /\ Passed(cases) = {i \in D : cases[i]["passed"]}
  BY <1>3 DEF Graded, Passed, Where, Get
<1>6. /\ graded \in SUBSET D /\ IsFiniteSet(graded) /\ Cardinality(graded) \in Nat
      /\ Cardinality(D \ graded) = Len(cases) - Cardinality(graded)
  <2>1. graded \in SUBSET D
    BY <1>5
  <2>. HIDE DEF graded
  <2>2. IsFiniteSet(graded) /\ Cardinality(graded) \in Nat
    BY <1>4, <2>1, FS_Subset, FS_CardinalityType
  <2>. QED BY <1>4, <2>1, <2>2, RestOf
<1>7. CountIf(cases, LAMBDA c : c["truncated"]) = Cardinality(D \ graded)
  <2>. DEFINE flags == [i \in D |-> cases[i]["truncated"]]
  <2>1. DOMAIN flags = D /\ \A i \in D : flags[i] <=> i \in D \ graded
    BY <1>5
  <2>2. CountIf(cases, LAMBDA c : c["truncated"]) = Trues(flags)
    BY DEF CountIf
  <2>. HIDE DEF flags
  <2>. QED BY <1>1, <2>1, <2>2, CountedAt
<1>8. AccuracyOver(cases, LAMBDA c : TRUE)
        = Share(Cardinality(graded \cap Passed(cases)), Cardinality(graded))
  <2>. DEFINE won  == [i \in D |-> TRUE /\ ~ cases[i]["truncated"] /\ cases[i]["passed"]]
              done == [i \in D |-> TRUE /\ ~ cases[i]["truncated"]]
  <2>1. AccuracyOver(cases, LAMBDA c : TRUE) = Share(Trues(won), Trues(done))
    BY DEF AccuracyOver, CountIf
  <2>2. DOMAIN won = D /\ \A i \in D : won[i] <=> i \in graded \cap Passed(cases)
    BY <1>5
  <2>3. DOMAIN done = D /\ \A i \in D : done[i] <=> i \in graded
    BY <1>5
  <2>. HIDE DEF won, done, graded
  <2>4. graded \cap Passed(cases) \in SUBSET D
    BY <1>6
  <2>5. Trues(won) = Cardinality(graded \cap Passed(cases))
    BY <1>1, <2>2, <2>4, CountedAt
  <2>6. Trues(done) = Cardinality(graded)
    BY <1>1, <1>6, <2>3, CountedAt
  <2>. QED BY <2>1, <2>5, <2>6
<1>9. SumOver(cases, Stake) = WeightOf(cases, graded)
  <2>. DEFINE f == [i \in graded |-> Weight[cases[i].severity]]
              c == [i \in D |-> Stake(cases[i])]
  <2>1. \A i \in graded : Weight[cases[i].severity] \in Int
    BY <1>2, KnownWeigh
  <2>2. f \in [graded -> Int] /\ \A i \in D : c[i] = IF i \in graded THEN f[i] ELSE 0
    BY <1>5, <2>1 DEF Stake
  <2>3. c \in [D -> Int]
    BY <2>2
  <2>4. SumOver(cases, Stake) = Added(c)
    BY DEF SumOver
  <2>5. WeightOf(cases, graded) = SumOf(f, graded)
    BY <1>6, <2>1, WeightsAdded
  <2>. HIDE DEF f, c
  <2>6. Added(c) = SumOf(c, D)
    BY <1>1, <2>3, ListIs, AddedIs
  <2>7. SumOf(c, D) = SumOf(f, graded)
    BY <1>4, <1>6, <2>2, <2>3, SumOfPart
  <2>. QED BY <2>4, <2>5, <2>6, <2>7
<1>10. SumOver(cases, Lost) = WeightOf(cases, graded \ Passed(cases))
  <2>. DEFINE P == graded \ Passed(cases)
              f == [i \in P |-> Weight[cases[i].severity]]
              c == [i \in D |-> Lost(cases[i])]
  <2>1. \A i \in P : Weight[cases[i].severity] \in Int
    BY <1>2, KnownWeigh
  <2>2. f \in [P -> Int] /\ \A i \in D : c[i] = IF i \in P THEN f[i] ELSE 0
    BY <1>5, <2>1 DEF Lost, Stake
  <2>3. c \in [D -> Int]
    BY <2>2
  <2>4. SumOver(cases, Lost) = Added(c)
    BY DEF SumOver
  <2>5. P \in SUBSET D /\ IsFiniteSet(P)
    BY <1>6, FS_Subset
  <2>6. WeightOf(cases, P) = SumOf(f, P)
    BY <2>1, <2>5, WeightsAdded
  <2>. HIDE DEF f, c, P
  <2>7. Added(c) = SumOf(c, D)
    BY <1>1, <2>3, ListIs, AddedIs
  <2>8. SumOf(c, D) = SumOf(f, P)
    BY <1>4, <2>2, <2>3, <2>5, SumOfPart
  <2>. QED BY <2>4, <2>6, <2>7, <2>8 DEF P
<1>11. CountIf(cases, LAMBDA c : Get(c, "grader") = "error") = Tally(cases, "grader", "error")
  BY <1>1, ValuesTallied DEF CountIf
<1>12. CountIf(cases, LAMBDA c : c["flagged"]) = Tally(cases, "flagged", TRUE)
  BY <1>1, <1>3, FlagsTallied DEF CountIf
<1>. HIDE DEF graded
<1>13. BatteryRecount(cases) = BatteryNumbers(cases)
  <2>1. Len(cases) - (Len(cases) - Cardinality(graded)) = Cardinality(graded)
    BY <1>4, <1>6
  <2>. QED BY <1>6, <1>7, <1>8, <1>9, <1>10, <1>11, <1>12, <2>1
           DEF BatteryRecount, BatteryNumbers, graded
<1>. QED BY <1>13

(* crashkit: the pool is these numbers.                                    *)
LEMMA CrashkitRecounted ==
  ASSUME NEW s, s.profile = "crashkit", AsMeasured(s), Answered(CheckCrashkit(s))
  PROVE  CheckCrashkit(s).pool = PoolOf(BatteryNumbers(s.artifact["cases"]))
<1>. DEFINE cases == s.artifact["cases"]
<1>1. IsList(cases)
  BY DEF AsMeasured, MeasuredRows, RowsKey
<1>2. /\ \A i \in DOMAIN cases : Explicit(cases[i])
      /\ ~Unknown(cases, Graded(cases))
      /\ CheckCrashkit(s).pool = PoolOf(BatteryRecount(cases))
  BY DEF CheckCrashkit, Refused, Result, Answered
<1>. HIDE DEF cases
<1>. QED BY <1>1, <1>2, BatteryCounted DEF cases

(* The mean over runs is a sum over the rows.                              *)
LEMMA MeansAdded ==
  ASSUME NEW rows, NEW f, IsFiniteSet(DOMAIN rows), f \in [DOMAIN rows -> Int],
         \A i \in DOMAIN rows :
           f[i] = Exactly(Weight[rows[i].severity] * (rows[i].runs - rows[i].passes), rows[i].runs)
  PROVE  MeanFailed(rows) = SumOf(f, DOMAIN rows)
<1>. DEFINE S        == DOMAIN rows
            Some(s)   == CHOOSE x \in s : TRUE
            T(i)     == Exactly(Weight[rows[i].severity] * (rows[i].runs - rows[i].passes), rows[i].runs)
            Sets(g)  == [s \in SUBSET S |-> IF s = {} THEN 0 ELSE T(Some(s)) + g[s \ {Some(s)}]]
            Picks(g) == [s \in SUBSET S |-> IF s = {} THEN 0 ELSE f[Some(s)] + g[s \ {Some(s)}]]
<1>1. MeanFailed(rows) = (CHOOSE g : g = Sets(g))[S]
  BY Zenon DEF MeanFailed, MapThenSumSet, MapThenFoldSet
<1>2. PickOf(f, S) = (CHOOSE g : g = Picks(g))[S]
  BY DEF PickOf
<1>3. \A i \in S : f[i] = T(i)
  OBVIOUS
<1>. HIDE DEF T
<1>4. ASSUME NEW g PROVE Sets(g) = Picks(g)
  <2>1. \A s \in SUBSET S : s # {} => Some(s) \in S
    OBVIOUS
  <2>. HIDE DEF Some
  <2>. QED BY <1>3, <2>1
<1>. HIDE DEF Sets, Picks
<1>5. (CHOOSE g : g = Sets(g)) = (CHOOSE g : g = Picks(g))
  BY <1>4
<1>6. PickOf(f, S) = SumOf(f, S)
  BY PickIsSum
<1>. QED BY <1>1, <1>2, <1>5, <1>6

(* A sum of two, where one of the two is nothing.                          *)
Splits(D, S, f, a, c) ==
  /\ IsFiniteSet(D) /\ S \in SUBSET D /\ f \in [S -> Int] /\ a \in [D -> Int] /\ c \in [D -> Int]
  /\ \A x \in S : a[x] = f[x] /\ c[x] = 0
  /\ \A x \in D \ S : c[x] = a[x]

LEMMA SplitAdded ==
  ASSUME NEW D, NEW S, NEW f, NEW a, NEW c, Splits(D, S, f, a, c)
  PROVE  SumOf(a, D) = SumOf(f, S) + SumOf(c, D) /\ SumOf(f, S) \in Int /\ SumOf(c, D) \in Int
BY SumSplits DEF Splits

(* The rows of a report that the verifier counts.                          *)
CountedRows(rows) == IsList(rows) /\ (\A i \in DOMAIN rows : Counted(rows[i])) /\ ~Unknown(rows, DOMAIN rows)

(* A report's numbers: a mean of means, in one pass.                       *)
LEMMA VarianceCounted ==
  ASSUME NEW rows, CountedRows(rows)
  PROVE  VarianceRecount(rows) = VarianceNumbers(rows)
<1>. DEFINE D      == DOMAIN rows
            flaky  == {i \in D : Flaky(rows[i])}
            failed == {i \in D : SomeFailed(rows[i])}
            W(i)   == Weight[rows[i]["severity"]]
            weight == [i \in D |-> W(i)]
            total  == WeightOf(rows, D)
<1>1. IsList(rows)
  BY DEF CountedRows
<1>2. (\A i \in DOMAIN rows : Counted(rows[i])) /\ ~Unknown(rows, DOMAIN rows)
  BY DEF CountedRows
<1>3. \A i \in D : /\ {"runs", "passes"} \subseteq DOMAIN rows[i]
                  /\ rows[i]["runs"] \in Nat /\ rows[i]["passes"] \in Nat
                  /\ rows[i]["runs"] > 0 /\ rows[i]["passes"] <= rows[i]["runs"]
  <2>1. None \notin Int
    BY ValuesAssumption
  <2>. QED BY <1>2, <2>1 DEF Counted, Get
<1>4. IsFiniteSet(D) /\ Cardinality(D) = Len(rows) /\ Len(rows) \in Nat
  BY <1>1, ListIs, FS_Interval
<1>5. \A i \in D : W(i) \in Int
  BY <1>2, KnownWeigh
<1>. HIDE DEF W
<1>6. flaky \in SUBSET D /\ Cardinality(D \ flaky) = Len(rows) - Cardinality(flaky)
      /\ Cardinality(flaky) \in Nat
  <2>1. flaky \in SUBSET D
    OBVIOUS
  <2>. HIDE DEF flaky
  <2>. QED BY <1>4, <2>1, RestOf
<1>7. CountIf(rows, LAMBDA r : r["passes"] \in {0, r["runs"]}) = Cardinality(D \ flaky)
  <2>. DEFINE flags == [i \in D |-> rows[i]["passes"] \in {0, rows[i]["runs"]}]
  <2>1. DOMAIN flags = D /\ \A i \in D : flags[i] <=> i \in D \ flaky
    <3>. SUFFICES ASSUME NEW i \in D PROVE flags[i] <=> ~Flaky(rows[i])
      OBVIOUS
    <3>1. /\ rows[i].runs = rows[i]["runs"] /\ rows[i].passes = rows[i]["passes"]
          /\ rows[i].runs \in Nat /\ rows[i].passes \in Nat /\ rows[i].passes <= rows[i].runs
      BY <1>3
    <3>2. flags[i] <=> rows[i].passes \in {0, rows[i].runs}
      OBVIOUS
    <3>. HIDE DEF flags
    <3>. QED BY <3>1, <3>2 DEF Flaky, SomeFailed
  <2>2. CountIf(rows, LAMBDA r : r["passes"] \in {0, r["runs"]}) = Trues(flags)
    BY DEF CountIf
  <2>. HIDE DEF flags
  <2>. QED BY <1>1, <2>1, <2>2, CountedAt
<1>8. weight \in [D -> Int] /\ total = SumOf(weight, D)
  <2>1. total = SumOf([i \in D |-> Weight[rows[i].severity]], D)
    BY <1>4, <1>5, WeightsAdded DEF W
  <2>. QED BY <1>5, <2>1 DEF W
<1>9. SumOver(rows, LAMBDA r : Weight[r["severity"]]) = total
  <2>1. SumOver(rows, LAMBDA r : Weight[r["severity"]]) = Added(weight)
    BY DEF SumOver, W
  <2>. HIDE DEF weight
  <2>2. Added(weight) = SumOf(weight, D)
    BY <1>1, <1>8, ListIs, AddedIs
  <2>. QED BY <1>8, <2>1, <2>2
<1>10. MeanFailed(rows)
         = SumOver(rows, LAMBDA r : Exactly(Weight[r["severity"]] * (r["runs"] - r["passes"]), r["runs"]))
  <2>. DEFINE f == [i \in D |-> Exactly(Weight[rows[i]["severity"]] * (rows[i]["runs"] - rows[i]["passes"]),
                                        rows[i]["runs"])]
  <2>1. ASSUME NEW i \in D PROVE f[i] \in Int
    <3>1. W(i) * (rows[i]["runs"] - rows[i]["passes"]) * 2520 \in Int
      BY <1>3, <1>5
    <3>. QED BY <1>3, <3>1 DEF Exactly, Unit, W
  <2>2. f \in [D -> Int]
    BY <2>1
  <2>3. SumOver(rows, LAMBDA r : Exactly(Weight[r["severity"]] * (r["runs"] - r["passes"]), r["runs"]))
          = Added(f)
    BY DEF SumOver
  <2>4. MeanFailed(rows) = SumOf(f, D)
    BY <1>4, <2>2, MeansAdded
  <2>. HIDE DEF f
  <2>5. Added(f) = SumOf(f, D)
    BY <1>1, <2>2, ListIs, AddedIs
  <2>. QED BY <2>3, <2>4, <2>5
<1>11. WeightOf(rows, failed)
         = total - SumOver(rows, LAMBDA r : IF r["passes"] = r["runs"] THEN Weight[r["severity"]] ELSE 0)
  <2>. DEFINE lost == [i \in failed |-> Weight[rows[i].severity]]
              good == [i \in D |-> IF rows[i]["passes"] = rows[i]["runs"] THEN Weight[rows[i]["severity"]] ELSE 0]
  <2>1. failed \in SUBSET D /\ IsFiniteSet(failed)
    BY <1>4, FS_Subset
  <2>2. WeightOf(rows, failed) = SumOf(lost, failed)
    BY <1>5, <2>1, WeightsAdded DEF W
  <2>3. \A i \in D : i \in failed <=> rows[i]["passes"] # rows[i]["runs"]
    BY <1>3 DEF SomeFailed
  <2>4. lost \in [failed -> Int] /\ good \in [D -> Int]
    BY <1>5 DEF W
  <2>5. \A i \in failed : weight[i] = lost[i] /\ good[i] = 0
    BY <2>3 DEF W
  <2>6. \A i \in D \ failed : good[i] = weight[i]
    BY <2>3 DEF W
  <2>7. SumOver(rows, LAMBDA r : IF r["passes"] = r["runs"] THEN Weight[r["severity"]] ELSE 0) = Added(good)
    BY DEF SumOver
  <2>7a. weight \in [D -> Int] /\ IsFiniteSet(D)
    BY <1>4, <1>8
  <2>7b. Added(good) = SumOf(good, D)
    BY <1>1, <2>4, ListIs, AddedIs
  <2>. HIDE DEF lost, good, weight, failed, flaky, total, D
  <2>8. /\ SumOf(weight, D) = SumOf(lost, failed) + SumOf(good, D)
        /\ SumOf(lost, failed) \in Int /\ SumOf(good, D) \in Int
    <3>1. Splits(D, failed, lost, weight, good)
      BY <2>1, <2>4, <2>5, <2>6, <2>7a DEF Splits
    <3>. QED BY <3>1, SplitAdded
  <2>9. WeightOf(rows, failed) = total - Added(good)
    BY <1>8, <2>2, <2>7b, <2>8
  <2>. QED BY <2>7, <2>9
<1>. HIDE DEF flaky, failed, total
<1>12. VarianceRecount(rows) = VarianceNumbers(rows)
  <2>1. Len(rows) - (Len(rows) - Cardinality(flaky)) = Cardinality(flaky)
    BY <1>4, <1>6
  <2>. QED BY <1>6, <1>7, <1>9, <1>10, <1>11, <2>1
           DEF VarianceRecount, VarianceNumbers, flaky, failed, total
<1>. QED BY <1>12

(* variance: the pool is these numbers.                                    *)
LEMMA VarianceRecounted ==
  ASSUME NEW s, s.profile = "variance", AsMeasured(s), Answered(CheckVariance(s))
  PROVE  CheckVariance(s).pool = PoolOf(VarianceNumbers(s.artifact["per_task"]))
<1>. DEFINE rows == s.artifact["per_task"]
<1>1. IsList(rows)
  BY DEF AsMeasured, MeasuredRows, RowsKey
<1>2. /\ \A i \in DOMAIN rows : Counted(rows[i])
      /\ ~Unknown(rows, DOMAIN rows)
      /\ CheckVariance(s).pool = PoolOf(VarianceRecount(rows))
  BY DEF CheckVariance, Refused, Result, Answered
<1>. HIDE DEF rows
<1>. QED BY <1>1, <1>2, VarianceCounted DEF rows, CountedRows

-----------------------------------------------------------------------------
(* The tool's best number is the best.                                     *)
LEMMA BestIs ==
  ASSUME NEW sign \in {1, -1}, NEW n \in Nat \ {0}, NEW numbers \in [1..n -> Int]
  PROVE  Best(sign, numbers) \in Int /\ IsBest(sign, numbers, 1..n, Best(sign, numbers))
<1>1. Best(sign, numbers) = BestOf(sign, numbers, 1..n)
  BY Zenon DEF Best, FoldLeft, MapThenFoldSet, BestOf
<1>. QED BY <1>1, BestOfIsBest

(* The total of a field is the sum over the rows.                          *)
LEMMA TotalAdded ==
  ASSUME NEW rows, NEW field, IsFiniteSet(DOMAIN rows), NEW f \in [DOMAIN rows -> Int],
         \A i \in DOMAIN rows : f[i] = rows[i][field].value
  PROVE  Total(rows, field) = SumOf(f, DOMAIN rows)
<1>. DEFINE S        == DOMAIN rows
            Some(s)   == CHOOSE x \in s : TRUE
            T(i)     == rows[i][field].value
            Sets(g)  == [s \in SUBSET S |-> IF s = {} THEN 0 ELSE T(Some(s)) + g[s \ {Some(s)}]]
            Picks(g) == [s \in SUBSET S |-> IF s = {} THEN 0 ELSE f[Some(s)] + g[s \ {Some(s)}]]
<1>1. Total(rows, field) = (CHOOSE g : g = Sets(g))[S]
  BY Zenon DEF Total, MapThenSumSet, MapThenFoldSet
<1>2. PickOf(f, S) = (CHOOSE g : g = Picks(g))[S]
  BY DEF PickOf
<1>3. \A i \in S : f[i] = T(i)
  OBVIOUS
<1>. HIDE DEF T
<1>4. ASSUME NEW g PROVE Sets(g) = Picks(g)
  <2>1. \A s \in SUBSET S : s # {} => Some(s) \in S
    OBVIOUS
  <2>. HIDE DEF Some
  <2>. QED BY <1>3, <2>1
<1>. HIDE DEF Sets, Picks
<1>5. (CHOOSE g : g = Sets(g)) = (CHOOSE g : g = Picks(g))
  BY <1>4
<1>6. PickOf(f, S) = SumOf(f, S)
  BY PickIsSum
<1>. QED BY <1>1, <1>2, <1>5, <1>6

(* What a line of the recipe without a fault promises.                     *)
LEMMA NoFault ==
  ASSUME NEW rows, NEW spec, RecipeReason(rows, spec) = None
  PROVE  /\ "op" \in DOMAIN spec /\ spec.op \in RowOps /\ Get(spec, "round") \in {None, 0}
         /\ spec.op # "count" =>
              \A i \in DOMAIN rows : /\ Get(spec, "field") \in DOMAIN rows[i]
                                     /\ rows[i][Get(spec, "field")].type = TypeDue(spec.op)
<1>. DEFINE op    == Get(spec, "op")
            field == Get(spec, "field")
<1>1. None \notin RowOps \cup RecipeFaults
  BY RecipeAssumption
<1>2. op \in RowOps /\ Get(spec, "round") \in {None, 0}
  BY <1>1 DEF RecipeReason, RecipeFaults
<1>3. ASSUME op # "count", NEW i \in DOMAIN rows
      PROVE  field \in DOMAIN rows[i] /\ rows[i][field].type = TypeDue(op)
  <2>1. /\ ~ \E j \in DOMAIN rows : field \notin DOMAIN rows[j]
        /\ ~ \E cell \in Cells(rows, field) : cell.type # TypeDue(op)
    BY <1>1, <1>3 DEF RecipeReason, RecipeFaults
  <2>2. rows[i][field] \in Cells(rows, field)
    BY DEF Cells
  <2>. QED BY <2>1, <2>2
<1>4. "op" \in DOMAIN spec /\ op = spec.op
  BY <1>1, <1>2 DEF Get
<1>. QED BY <1>2, <1>3, <1>4

(* A whole number is its own rounding.                                     *)
LEMMA WholeAtPlaces ==
  ASSUME NEW num \in Int, NEW places \in {None, 0}
  PROVE  AtPlaces(num, 1, places) = num * Unit
<1>1. Exactly(num, 1) = num * Unit
  BY DEF Exactly, Unit
<1>2. Rounded(num, 1, 1) = num
  BY DEF Rounded
<1>. QED BY <1>1, <1>2 DEF AtPlaces

(* One line of the recipe, by the verifier and by the tool.                *)
LEMMA LineRecomputed ==
  ASSUME NEW rows, IsList(rows), rows # <<>>, NEW spec, RecipeReason(rows, spec) = None,
         \A i \in DOMAIN rows : \A k \in DOMAIN rows[i] :
           rows[i][k].type \in {"number", "bool"} => rows[i][k].value \in Int
  PROVE  RowsAggregated(rows, spec.op, Get(spec, "field"), Get(spec, "round")) = Recomputed(rows, spec)
<1>. DEFINE D       == DOMAIN rows
            field   == Get(spec, "field")
            places  == Get(spec, "round")
            numbers == [i \in D |-> Get(rows[i], field).value]
            values  == {cell.value : cell \in Cells(rows, field)}
<1>1. spec.op \in RowOps /\ places \in {None, 0}
  BY NoFault
<1>2. CASE spec.op = "count"
  BY <1>2 DEF RowsAggregated, Recomputed
<1>3. ASSUME spec.op # "count"
      PROVE  RowsAggregated(rows, spec.op, field, places) = Recomputed(rows, spec)
  <2>1. \A i \in D : field \in DOMAIN rows[i] /\ rows[i][field].value \in Int
    BY <1>1, <1>3, NoFault DEF TypeDue
  <2>2. /\ Len(rows) \in Nat \ {0} /\ D = 1..Len(rows) /\ IsFiniteSet(D)
    BY ListIs
  <2>3. numbers \in [D -> Int] /\ \A i \in D : numbers[i] = rows[i][field].value
    BY <2>1 DEF Get
  <2>4. values = {numbers[i] : i \in D}
    BY <2>3 DEF Cells
  <2>. HIDE DEF numbers, values
  <2>5. Added(numbers) = Total(rows, field) /\ Added(numbers) \in Int
    <3>1. Total(rows, field) = SumOf(numbers, D)
      BY <2>2, <2>3, TotalAdded
    <3>2. Added(numbers) = SumOf(numbers, D)
      BY <2>2, <2>3, AddedIs
    <3>. QED BY <2>2, <2>3, <3>1, <3>2, SumIsInt
  <2>6. Best(1, numbers) \in Int /\ Best(1, numbers) = Min(values)
    <3>1. Best(1, numbers) \in Int /\ IsBest(1, numbers, D, Best(1, numbers))
      BY <2>2, <2>3, BestIs
    <3>2. Best(1, numbers) \in values /\ \A v \in values : Best(1, numbers) <= v
      BY <2>3, <2>4, <3>1 DEF IsBest
    <3>3. \A v \in values : v \in Int
      BY <2>3, <2>4
    <3>. QED BY <3>1, <3>2, <3>3 DEF Min
  <2>7. Best(-1, numbers) \in Int /\ Best(-1, numbers) = Max(values)
    <3>1. Best(-1, numbers) \in Int /\ IsBest(-1, numbers, D, Best(-1, numbers))
      BY <2>2, <2>3, BestIs
    <3>2. Best(-1, numbers) \in values /\ \A v \in values : Best(-1, numbers) >= v
      BY <2>3, <2>4, <3>1 DEF IsBest
    <3>3. \A v \in values : v \in Int
      BY <2>3, <2>4
    <3>. QED BY <3>1, <3>2, <3>3 DEF Max
  <2>8. CASE spec.op = "sum"
    <3>1. RowsAggregated(rows, spec.op, field, places) = AtPlaces(Total(rows, field), 1, places)
      BY <2>8 DEF RowsAggregated
    <3>2. Recomputed(rows, spec) = Added(numbers) * Unit
      BY <2>8 DEF Recomputed, numbers
    <3>. QED BY <1>1, <2>5, <3>1, <3>2, WholeAtPlaces
  <2>9. CASE spec.op \in {"mean", "rate_true"}
    <3>1. RowsAggregated(rows, spec.op, field, places) = AtPlaces(Total(rows, field), Len(rows), places)
      BY <2>9 DEF RowsAggregated
    <3>2. Recomputed(rows, spec) = IF places = None THEN Exactly(Added(numbers), Len(rows))
                                   ELSE Rounded(Added(numbers), Len(rows), 1) * Unit
      BY <2>9 DEF Recomputed, numbers
    <3>. QED BY <2>5, <3>1, <3>2 DEF AtPlaces
  <2>10. CASE spec.op = "min"
    <3>1. RowsAggregated(rows, spec.op, field, places) = AtPlaces(Min(values), 1, places)
      BY <2>10 DEF RowsAggregated, values
    <3>2. Recomputed(rows, spec) = Best(1, numbers) * Unit
      BY <2>10 DEF Recomputed, numbers
    <3>. QED BY <1>1, <2>6, <3>1, <3>2, WholeAtPlaces
  <2>11. CASE spec.op = "max"
    <3>1. RowsAggregated(rows, spec.op, field, places) = AtPlaces(Max(values), 1, places)
      BY <2>11 DEF RowsAggregated, values
    <3>2. Recomputed(rows, spec) = Best(-1, numbers) * Unit
      BY <2>11 DEF Recomputed, numbers
    <3>. QED BY <1>1, <2>7, <3>1, <3>2, WholeAtPlaces
  <2>. QED BY <1>1, <1>3, <2>8, <2>9, <2>10, <2>11 DEF RowOps
<1>. QED BY <1>2, <1>3

(* rows: every line of the recipe, as the tool would compute it.           *)
LEMMA RowsRecounted ==
  ASSUME NEW s, s.profile = "rows", AsMeasured(s), Answered(CheckRows(s))
  PROVE  CheckRows(s).pool = RowsCitable(s)
<1>. DEFINE rows    == s.artifact[RowsAt(s)]
            recipe  == s.check["recompute"]
            recount == [k \in DOMAIN recipe |-> RowsAggregated(rows, recipe[k].op, Get(recipe[k], "field"),
                                                               Get(recipe[k], "round"))]
<1>1. /\ IsList(rows)
      /\ \A i \in DOMAIN rows : \A k \in DOMAIN rows[i] :
           rows[i][k].type \in {"number", "bool"} => rows[i][k].value \in Int
  BY DEF AsMeasured, MeasuredRows, RowsKey, RowAsMeasured
<1>2. /\ Get(s.artifact, RowsAt(s)) = rows /\ rows # <<>>
      /\ Get(s.check, "recompute") = recipe
      /\ {RecipeReason(rows, recipe[k]) : k \in DOMAIN recipe} \ {None} = {}
      /\ CheckRows(s).pool = PoolOf(recount)
  <2>. DEFINE got   == IF s.artifact \in {None, Junk} THEN None ELSE Get(s.artifact, RowsAt(s))
              asked == Get(s.check, "recompute")
              wrong == {RecipeReason(got, asked[k]) : k \in DOMAIN asked} \ {None}
              counts == [k \in DOMAIN asked |-> RowsAggregated(got, asked[k].op, Get(asked[k], "field"),
                                                               Get(asked[k], "round"))]
  <2>1. /\ got \notin {None, Junk} /\ got # <<>> /\ asked # None /\ wrong = {}
        /\ CheckRows(s).pool = PoolOf(counts)
    BY DEF CheckRows, Refused, Result, Answered
  <2>2. got = rows
    BY <2>1 DEF Get
  <2>3. asked = recipe
    BY <2>1 DEF Get
  <2>. QED BY <2>1, <2>2, <2>3
<1>3. ASSUME NEW k \in DOMAIN recipe PROVE recount[k] = Recomputed(rows, recipe[k])
  <2>1. RecipeReason(rows, recipe[k]) = None
    BY <1>2
  <2>. HIDE DEF rows, recipe
  <2>. QED BY <1>1, <1>2, <2>1, LineRecomputed
<1>4. RowsCitable(s) = {<<k, Recomputed(rows, recipe[k])>> : k \in DOMAIN recipe}
  BY DEF RowsCitable
<1>5. PoolOf(recount) = {<<k, recount[k]>> : k \in DOMAIN recipe}
  BY DEF PoolOf
<1>. HIDE DEF recount, rows, recipe
<1>. QED BY <1>2, <1>3, <1>4, <1>5

-----------------------------------------------------------------------------
(* Three outcomes that exclude each other.                                 *)
LEMMA ThreeCounted ==
  ASSUME NEW D, IsFiniteSet(D), NEW A \in SUBSET D, NEW B \in SUBSET D, NEW C \in SUBSET D,
         A \cap B = {}, (A \cup B) \cap C = {}
  PROVE  Cardinality(A \cup B \cup C) = Cardinality(A) + Cardinality(B) + Cardinality(C)
<1>1. IsFiniteSet(A) /\ IsFiniteSet(B) /\ IsFiniteSet(C) /\ IsFiniteSet(A \cup B)
  <2>1. A \cup B \in SUBSET D
    OBVIOUS
  <2>. QED BY <2>1, FS_Subset
<1>2. Cardinality(A \cup B) = Cardinality(A) + Cardinality(B) - Cardinality(A \cap B)
  BY <1>1, FS_Union
<1>3. Cardinality(A \cup B \cup C) = Cardinality(A \cup B) + Cardinality(C) - Cardinality((A \cup B) \cap C)
  BY <1>1, FS_Union
<1>4. Cardinality(A \cap B) = 0 /\ Cardinality((A \cup B) \cap C) = 0
  BY FS_EmptySet
<1>5. Cardinality(A) \in Nat /\ Cardinality(B) \in Nat /\ Cardinality(C) \in Nat
  BY <1>1, FS_CardinalityType
<1>. QED BY <1>2, <1>3, <1>4, <1>5

(* A search ends at the first row of which something holds, or after all.  *)
LEMMA BadRowIsThere ==
  ASSUME NEW rows, IsList(rows)
  PROVE  FirstOf(rows, LAMBDA row : Get(row, "operator_id") = Junk) \in 1..Len(rows) + 1
<1>. DEFINE bad(n) == Get(rows[n], "operator_id") = Junk
            T      == {n \in 1..Len(rows) : bad(n)}
            first(n) == /\ n \in DOMAIN rows => bad(n)
                        /\ \A i \in 1..n - 1 : ~ bad(i)
<1>1. Len(rows) \in Nat /\ DOMAIN rows = 1..Len(rows)
  BY ListIs
<1>2. \E n \in 1..Len(rows) + 1 : first(n)
  <2>1. CASE T = {}
    <3>1. first(Len(rows) + 1) /\ Len(rows) + 1 \in 1..Len(rows) + 1
      BY <1>1, <2>1
    <3>. QED BY <3>1
  <2>2. CASE T # {}
    <3>1. PICK n \in T : \A m \in T : n <= m
      <4>1. T \subseteq Nat
        BY <1>1
      <4>. HIDE DEF T
      <4>. QED BY <2>2, <4>1, LeastNatural
    <3>2. \A i \in 1..n - 1 : i \in 1..Len(rows) /\ ~ n <= i
      BY <1>1
    <3>3. first(n) /\ n \in 1..Len(rows) + 1
      BY <1>1, <3>1, <3>2
    <3>. QED BY <3>3
  <2>. QED BY <2>1, <2>2
<1>3. FirstOf(rows, LAMBDA row : Get(row, "operator_id") = Junk) = CHOOSE n \in 1..Len(rows) + 1 : first(n)
  BY Zenon DEF FirstOf
<1>. HIDE DEF first
<1>. QED BY <1>2, <1>3

(* What an accepted run has been found to agree with.                      *)
EvalmutAgrees(s) ==
  LET rows == s.artifact["results"]
  IN  /\ Differing(s.artifact["tally"], [o \in Outcome |-> Tally(rows, "outcome", o)]) = {}
      /\ \A class \in DOMAIN HoleClass :
           SameRows(DeclaredHoles(s.artifact["holes"], class), HoleRows(rows, class))
      /\ ExpectReasons(Get(s.check, "expect"), EvalmutRecount(rows, Get(s.check, "catalog"))) = {}

(* The ways through the function.  Only the last one answers, and only of  *)
(* a run that applied something.                                           *)
LEMMA EvalmutWays ==
  ASSUME NEW s
  PROVE  LET rows    == s.artifact["results"]
             recount == EvalmutRecount(rows, Get(s.check, "catalog"))
             counts  == [o \in Outcome |-> Tally(rows, "outcome", o)]
             applied == counts["caught"] + counts["missed"] + counts["flagged"]
             pool    == PoolOf(recount) \cup {<<"score", Exactly(counts["caught"], applied)>>}
         IN  \E flags, early, all :
               /\ \/ CheckEvalmut(s) \in {Refused("artifact: unparsable"),
                                          Result(flags \cup {"row: identifiers"}, None),
                                          Result(early \cup {"score: nothing applied"}, None),
                                          Result({}, Raised)}
                  \/ CheckEvalmut(s) = Result(all, pool) /\ (IsList(rows) => applied # 0)
               /\ all = {} => EvalmutAgrees(s)
<1>. DEFINE rows    == s.artifact["results"]
            catalog == Get(s.check, "catalog")
            counts  == [o \in Outcome |-> Tally(rows, "outcome", o)]
            applied == counts["caught"] + counts["missed"] + counts["flagged"]
            pool    == PoolOf(EvalmutRecount(rows, catalog)) \cup {<<"score", Exactly(counts["caught"], applied)>>}
            broken  == s.artifact = None \/ \E k \in {"results", "tally", "holes"} : Get(s.artifact, k) \in {None, Junk}
            badRow  == FirstOf(rows, LAMBDA row : Get(row, "operator_id") = Junk)
            flags   == NameWhen(\E n \in 1..badRow - 1 : OutcomeContradicts(rows[n]), "row: outcome")
            early   == flags \cup NameWhen(Differing(s.artifact["tally"], counts) # {}, "tally: differs")
            fixture == Get(s.check, "fixtures")
            score   == Exactly(counts["caught"], applied)
            recount == EvalmutRecount(rows, catalog)
            all     == early
               \cup NameWhen(Get(s.artifact, "score") # score, "score: differs")
               \cup NameWhen(\E class \in DOMAIN HoleClass :
                               ~ SameRows(DeclaredHoles(s.artifact["holes"], class), HoleRows(rows, class)),
                             "holes: differ")
               \cup FixturesReasons(fixture, rows) \cup CatalogReasons(catalog, rows)
               \cup RenderReasons(Get(s.check, "render"), recount)
               \cup ExpectReasons(Get(s.check, "expect"), recount)
            more    == badRow > Len(rows)
            none    == more /\ applied = 0
            raises  == more /\ applied > 0 /\ FixturesRaise(fixture, rows)
<1>1. CheckEvalmut(s) =
        IF broken THEN Refused("artifact: unparsable")
        ELSE CASE badRow <= Len(rows) -> Result(flags \cup {"row: identifiers"}, None)
               [] none   -> Result(early \cup {"score: nothing applied"}, None)
               [] raises -> Result({}, Raised)
               [] OTHER  -> Result(all, pool)
  BY Zenon DEF CheckEvalmut
<1>2. all = {} => EvalmutAgrees(s)
  <2>1. ASSUME NEW P, NEW x PROVE NameWhen(P, x) = {} => ~P
    BY DEF NameWhen
  <2>. SUFFICES ASSUME all = {} PROVE EvalmutAgrees(s)
    OBVIOUS
  <2>2. Differing(s.artifact["tally"], counts) = {}
    BY <2>1, Zenon
  <2>3. \A class \in DOMAIN HoleClass :
          SameRows(DeclaredHoles(s.artifact["holes"], class), HoleRows(rows, class))
    BY <2>1, Zenon
  <2>4. ExpectReasons(Get(s.check, "expect"), recount) = {}
    OBVIOUS
  <2>. QED BY <2>2, <2>3, <2>4, Zenon DEF EvalmutAgrees
<1>3. IsList(rows) => (badRow <= Len(rows) \/ more)
  <2>. HIDE DEF rows
  <2>1. IsList(rows) => badRow \in 1..Len(rows) + 1
    BY BadRowIsThere, Zenon
  <2>2. IsList(rows) => Len(rows) \in Nat
    BY ListIs
  <2>. HIDE DEF badRow
  <2>. QED BY <2>1, <2>2
<1>4. none <=> more /\ applied = 0
  OBVIOUS
<1>. HIDE DEF pool, broken, badRow, flags, early, all, none, raises, more, applied
<1>5. \/ CheckEvalmut(s) \in {Refused("artifact: unparsable"), Result(flags \cup {"row: identifiers"}, None),
                              Result(early \cup {"score: nothing applied"}, None), Result({}, Raised)}
      \/ CheckEvalmut(s) = Result(all, pool) /\ (IsList(rows) => applied # 0)
  BY <1>1, <1>3, <1>4
<1>. DEFINE Ways(f, e, a) ==
              /\ \/ CheckEvalmut(s) \in {Refused("artifact: unparsable"),
                                         Result(f \cup {"row: identifiers"}, None),
                                         Result(e \cup {"score: nothing applied"}, None),
                                         Result({}, Raised)}
                 \/ CheckEvalmut(s) = Result(a, pool) /\ (IsList(rows) => applied # 0)
              /\ a = {} => EvalmutAgrees(s)
<1>6. Ways(flags, early, all)
  BY <1>2, <1>5
<1>. HIDE DEF Ways
<1>7. \E f, e, a : Ways(f, e, a)
  BY <1>6
<1>. QED BY <1>7, Zenon DEF Ways, pool, applied

(* The one way that answers.                                               *)
LEMMA EvalmutAnswers ==
  ASSUME NEW s, Answered(CheckEvalmut(s))
  PROVE  LET rows    == s.artifact["results"]
             recount == EvalmutRecount(rows, Get(s.check, "catalog"))
             counts  == [o \in Outcome |-> Tally(rows, "outcome", o)]
             applied == counts["caught"] + counts["missed"] + counts["flagged"]
         IN  /\ CheckEvalmut(s).pool = PoolOf(recount) \cup {<<"score", Exactly(counts["caught"], applied)>>}
             /\ CheckEvalmut(s).reasons = {} => EvalmutAgrees(s)
             /\ IsList(rows) => applied # 0
<1>. DEFINE rows    == s.artifact["results"]
            recount == EvalmutRecount(rows, Get(s.check, "catalog"))
            counts  == [o \in Outcome |-> Tally(rows, "outcome", o)]
            applied == counts["caught"] + counts["missed"] + counts["flagged"]
            pool    == PoolOf(recount) \cup {<<"score", Exactly(counts["caught"], applied)>>}
            said    == EvalmutAgrees(s)
            sound   == IsList(rows) => applied # 0
            v       == CheckEvalmut(s)
<1>1. PICK flags, early, all :
        /\ \/ v \in {Refused("artifact: unparsable"), Result(flags \cup {"row: identifiers"}, None),
                     Result(early \cup {"score: nothing applied"}, None), Result({}, Raised)}
           \/ v = Result(all, pool) /\ sound
        /\ all = {} => said
  BY EvalmutWays, Zenon
<1>. DEFINE nameless == flags \cup {"row: identifiers"}
            idle     == early \cup {"score: nothing applied"}
<1>2. nameless # {} /\ idle # {}
  OBVIOUS
<1>3. v.pool # Raised /\ (v.pool # None \/ v.reasons = {})
  BY DEF Answered
<1>. HIDE DEF nameless, idle, v, pool, said, sound
<1>4. v # Refused("artifact: unparsable")
  <2>1. Refused("artifact: unparsable").pool = None
    BY ResultHas DEF Refused
  <2>. QED BY <1>3, <2>1, RefusedNames, Zenon
<1>5. v # Result(nameless, None) /\ v # Result(idle, None) /\ v # Result({}, Raised)
  BY <1>2, <1>3, ResultHas
<1>6. v = Result(all, pool) /\ sound
  BY <1>1, <1>4, <1>5 DEF nameless, idle
<1>7. v.pool = pool /\ (v.reasons = {} => said) /\ sound
  BY <1>1, <1>6, ResultHas
<1>. QED BY <1>7, Zenon DEF v, pool, said, sound

(* evalmut: a tally by outcome, in one pass.                               *)
LEMMA OutcomesCounted ==
  ASSUME NEW rows, IsList(rows), \A i \in DOMAIN rows : "outcome" \in DOMAIN rows[i]
  PROVE  EvalmutTally(rows) = [o \in Outcome |-> Tally(rows, "outcome", o)]
<1>. DEFINE D == DOMAIN rows
<1>1. ASSUME NEW o PROVE CountIf(rows, LAMBDA r : r["outcome"] = o) = Tally(rows, "outcome", o)
  <2>. DEFINE flags == [i \in D |-> rows[i]["outcome"] = o]
  <2>1. CountIf(rows, LAMBDA r : r["outcome"] = o) = Trues(flags)
    BY DEF CountIf
  <2>2. Where(rows, "outcome", o) \in SUBSET D /\ DOMAIN flags = D
        /\ \A i \in D : flags[i] <=> i \in Where(rows, "outcome", o)
    BY DEF Where, Get
  <2>. HIDE DEF flags
  <2>. QED BY <2>1, <2>2, CountedAt DEF Tally
<1>. DEFINE N(o) == CountIf(rows, LAMBDA r : r["outcome"] = o)
            T(o) == Tally(rows, "outcome", o)
<1>2. \A o : N(o) = T(o)
  BY <1>1
<1>3. EvalmutTally(rows) = [o \in Outcome |-> N(o)]
  BY DEF EvalmutTally, Outcome
<1>. HIDE DEF N, T
<1>4. [o \in Outcome |-> N(o)] = [o \in Outcome |-> T(o)]
  BY <1>2
<1>. QED BY <1>3, <1>4 DEF T

(* evalmut: outcomes, holes, the score and the operators.                  *)
LEMMA EvalmutRecounted ==
  ASSUME NEW s, s.profile = "evalmut", AsMeasured(s), Answered(CheckEvalmut(s))
  PROVE  CheckEvalmut(s).pool = EvalmutCitable(s)
<1>. DEFINE rows    == s.artifact["results"]
            D       == DOMAIN rows
            catalog == Get(s.check, "catalog")
            counts  == [o \in Outcome |-> Tally(rows, "outcome", o)]
            applied == counts["caught"] + counts["missed"] + counts["flagged"]
            battery == IF catalog \in {None, Junk} \/ ~ Mined(catalog) THEN <<>>
                       ELSE [operators |-> Len(catalog)]
            Missed(op_type) == CountIf(rows, LAMBDA r : r["outcome"] = "missed" /\ r["op_type"] = op_type)
<1>1. /\ IsList(rows)
      /\ \A i \in D : {"outcome", "op_type", "operator_id"} \subseteq DOMAIN rows[i]
  BY DEF AsMeasured, MeasuredRows, RowsKey, RowAsMeasured
<1>2. CheckEvalmut(s).pool
        = PoolOf(EvalmutRecount(rows, catalog)) \cup {<<"score", Exactly(counts["caught"], applied)>>}
  BY EvalmutAnswers
<1>. HIDE DEF rows, catalog
<1>3. \A i \in D, k \in {"outcome", "op_type", "operator_id"} : Get(rows[i], k) = rows[i][k]
  BY <1>1 DEF Get
<1>4. EvalmutTally(rows) = counts
  BY <1>1, OutcomesCounted
<1>5. IsFiniteSet(D)
  BY <1>1, ListIs
<1>6. EvalmutApplied(rows) = applied
  <2>. DEFINE flags == [i \in D |-> rows[i]["outcome"] \in {"caught", "missed", "flagged"}]
              A(o)  == Where(rows, "outcome", o)
              U     == A("caught") \cup A("missed") \cup A("flagged")
  <2>1. EvalmutApplied(rows) = Trues(flags)
    BY DEF EvalmutApplied, CountIf
  <2>2. DOMAIN flags = D /\ U \in SUBSET D /\ \A i \in D : flags[i] <=> i \in U
    BY <1>3 DEF Where
  <2>3. /\ \A o : A(o) \in SUBSET D
        /\ A("caught") \cap A("missed") = {} /\ (A("caught") \cup A("missed")) \cap A("flagged") = {}
    BY DEF Where
  <2>4. applied = Cardinality(A("caught")) + Cardinality(A("missed")) + Cardinality(A("flagged"))
    BY DEF Tally, Outcome
  <2>. HIDE DEF flags, A, applied
  <2>5. Trues(flags) = Cardinality(U)
    BY <1>1, <2>2, CountedAt
  <2>. QED BY <1>5, <2>1, <2>3, <2>4, <2>5, ThreeCounted
<1>7. ASSUME NEW class \in {"vacuous", "blind", "coverage_gap"}
      PROVE  HoleCount(rows, class) = Missed(HoleClass[class][2])
  <2>. DEFINE type  == HoleClass[class][2]
              flags == [i \in D |-> rows[i]["outcome"] = "missed" /\ rows[i]["op_type"] = type]
              S     == {i \in D : InClass(rows[i], class)}
  <2>1. Missed(type) = Trues(flags)
    BY DEF CountIf
  <2>2. HoleClass[class][1] = "missed" /\ type # None
    BY OpTypeAssumption DEF HoleClass
  <2>3. DOMAIN flags = D /\ S \in SUBSET D /\ \A i \in D : flags[i] <=> i \in S
    BY <1>3, <2>2 DEF InClass
  <2>. HIDE DEF flags, S
  <2>4. Trues(flags) = Cardinality(S)
    BY <1>1, <2>3, CountedAt
  <2>. QED BY <2>1, <2>4 DEF HoleCount, S
<1>8. HoleCount(rows, "brittle") = counts["flagged"]
  <2>1. {i \in D : InClass(rows[i], "brittle")} = Where(rows, "outcome", "flagged")
    BY DEF InClass, HoleClass, Where
  <2>. QED BY <2>1 DEF HoleCount, Tally, Outcome
<1>9. {Get(rows[i], "operator_id") : i \in D} = {rows[i]["operator_id"] : i \in D}
  BY <1>3
<1>. DEFINE holes  == [class \in {"vacuous", "blind", "brittle", "coverage_gap"} |-> HoleCount(rows, class)]
            exercised == Cardinality({rows[i]["operator_id"] : i \in D})
            others == [applied |-> applied, results |-> Len(rows),
                       score_3 |-> Rounded(counts["caught"], applied, 1000),
                       operators_exercised |-> exercised]
            told   == [applied |-> applied, results |-> Len(rows),
                       score   |-> Exactly(counts["caught"], applied),
                       score_3 |-> Rounded(counts["caught"], applied, 1000),
                       vacuous |-> Missed("sanity"), blind |-> Missed("kill"),
                       brittle |-> counts["flagged"], coverage_gap |-> Missed("diagnostic"),
                       operators_exercised |-> exercised]
<1>10. EvalmutRecount(rows, catalog) = Join(Join(counts, holes), Join(others, battery))
  BY <1>9 DEF EvalmutRecount
<1>11. EvalmutCitable(s) = PoolOf(counts) \cup PoolOf(told)
         \cup (IF catalog \in {None, Junk} THEN {}
               ELSE IF Mined(catalog) THEN {<<"operators", Len(catalog)>>} ELSE {})
  <2>. DEFINE more(c) == IF catalog \in {None, Junk} THEN {}
                         ELSE IF Mined(c) THEN {<<"operators", Len(c)>>} ELSE {}
              tally == EvalmutTally(rows)
              all   == EvalmutApplied(rows)
              first == [applied |-> all, results |-> Len(rows),
                        score   |-> Exactly(tally["caught"], all),
                        score_3 |-> Rounded(tally["caught"], all, 1000),
                        vacuous |-> Missed("sanity"), blind |-> Missed("kill"),
                        brittle |-> tally["flagged"], coverage_gap |-> Missed("diagnostic"),
                        operators_exercised |-> exercised]
  <2>1. more(s.check["catalog"]) = more(catalog)
    BY DEF Get, catalog
  <2>2. EvalmutCitable(s) = PoolOf(tally) \cup PoolOf(first) \cup more(s.check["catalog"])
    BY Zenon DEF EvalmutCitable, rows, catalog
  <2>3. first = told
    BY <1>4, <1>6
  <2>. HIDE DEF first, told, more
  <2>4. EvalmutCitable(s) = PoolOf(counts) \cup PoolOf(told) \cup more(catalog)
    BY <1>4, <2>1, <2>2, <2>3
  <2>. QED BY <2>4 DEF more
<1>12. /\ holes["vacuous"] = Missed("sanity") /\ holes["blind"] = Missed("kill")
       /\ holes["coverage_gap"] = Missed("diagnostic") /\ holes["brittle"] = counts["flagged"]
  BY <1>7, <1>8 DEF HoleClass
<1>. HIDE DEF counts, applied, Missed, exercised
<1>13. PoolOf(Join(Join(counts, holes), Join(others, battery)))
         = PoolOf(counts) \cup PoolOf(holes) \cup PoolOf(others) \cup PoolOf(battery)
  <2>. DEFINE c == DOMAIN counts
  <2>1. c = {"caught", "missed", "flagged", "error", "na"}
    BY DEF counts, Outcome
  <2>2. DOMAIN holes = {"vacuous", "blind", "brittle", "coverage_gap"}
    OBVIOUS
  <2>3. DOMAIN others = {"applied", "results", "score_3", "operators_exercised"}
    OBVIOUS
  <2>4. DOMAIN battery \subseteq {"operators"}
    OBVIOUS
  <2>. HIDE DEF holes, others, battery
  <2>5. ASSUME NEW a, NEW b, DOMAIN a \cap DOMAIN b = {}
        PROVE  PoolOf(Join(a, b)) = PoolOf(a) \cup PoolOf(b) /\ DOMAIN Join(a, b) = DOMAIN a \cup DOMAIN b
    BY <2>5 DEF PoolOf, Join
  <2>6. PoolOf(Join(counts, holes)) = PoolOf(counts) \cup PoolOf(holes)
        /\ DOMAIN Join(counts, holes) = DOMAIN counts \cup DOMAIN holes
    BY <2>1, <2>2, <2>5
  <2>7. PoolOf(Join(others, battery)) = PoolOf(others) \cup PoolOf(battery)
        /\ DOMAIN Join(others, battery) = DOMAIN others \cup DOMAIN battery
    BY <2>3, <2>4, <2>5
  <2>8. DOMAIN Join(counts, holes) \cap DOMAIN Join(others, battery) = {}
    BY <2>1, <2>2, <2>3, <2>4, <2>6, <2>7
  <2>. DEFINE left  == Join(counts, holes)
              right == Join(others, battery)
  <2>. HIDE DEF left, right
  <2>9. PoolOf(Join(left, right)) = PoolOf(left) \cup PoolOf(right)
    BY <2>5, <2>8 DEF left, right
  <2>. QED BY <2>6, <2>7, <2>9 DEF left, right
<1>14. PoolOf(told) = PoolOf(holes) \cup PoolOf(others) \cup {<<"score", Exactly(counts["caught"], applied)>>}
  <2>1. PoolOf(told) =
          {<<"applied", applied>>, <<"results", Len(rows)>>,
           <<"score", Exactly(counts["caught"], applied)>>,
           <<"score_3", Rounded(counts["caught"], applied, 1000)>>,
           <<"vacuous", Missed("sanity")>>, <<"blind", Missed("kill")>>,
           <<"brittle", counts["flagged"]>>, <<"coverage_gap", Missed("diagnostic")>>,
           <<"operators_exercised", exercised>>}
    BY DEF PoolOf
  <2>2. PoolOf(others) =
          {<<"applied", applied>>, <<"results", Len(rows)>>,
           <<"score_3", Rounded(counts["caught"], applied, 1000)>>, <<"operators_exercised", exercised>>}
    BY DEF PoolOf
  <2>3. PoolOf(holes) =
          {<<"vacuous", Missed("sanity")>>, <<"blind", Missed("kill")>>,
           <<"brittle", counts["flagged"]>>, <<"coverage_gap", Missed("diagnostic")>>}
    <3>1. DOMAIN holes = {"vacuous", "blind", "brittle", "coverage_gap"}
      OBVIOUS
    <3>. HIDE DEF holes
    <3>. QED BY <1>12, <3>1 DEF PoolOf
  <2>. HIDE DEF told, holes, others
  <2>. QED BY <2>1, <2>2, <2>3
<1>15. PoolOf(battery) = IF catalog \in {None, Junk} THEN {}
                         ELSE IF Mined(catalog) THEN {<<"operators", Len(catalog)>>} ELSE {}
  BY DEF PoolOf
<1>. HIDE DEF told, holes, others, battery
<1>. QED BY <1>2, <1>10, <1>11, <1>13, <1>14, <1>15

-----------------------------------------------------------------------------
(* The fleet's board.  What one pass gathers of some lines.                *)
Gathered(raw, lines) ==
  [n            |-> Cardinality(lines),
   detected     |-> Cardinality(lines \cap Where(raw, "detected", TRUE)),
   false_alarms |-> Cardinality(lines \ Where(raw, "clean_passed", TRUE))]

(* Lines as a fleet's tool writes them.                                    *)
Lines(raw) ==
  /\ IsList(raw)
  /\ \A i \in DOMAIN raw :
       /\ {"suite", "member", "detected", "clean_passed"} \subseteq DOMAIN raw[i]
       /\ raw[i]["detected"] \in BOOLEAN /\ raw[i]["clean_passed"] \in BOOLEAN

(* One more element in a set is one more, when it counts.                  *)
LEMMA OneMore ==
  ASSUME NEW s, IsFiniteSet(s), NEW m \in s, NEW A
  PROVE  /\ Cardinality(s \cap A) = (IF m \in A THEN 1 ELSE 0) + Cardinality((s \ {m}) \cap A)
         /\ Cardinality(s \cap A) \in Nat /\ Cardinality((s \ {m}) \cap A) \in Nat
<1>1. IsFiniteSet(s \cap A) /\ IsFiniteSet((s \ {m}) \cap A)
  <2>1. s \cap A \in SUBSET s /\ (s \ {m}) \cap A \in SUBSET s
    OBVIOUS
  <2>. QED BY <2>1, FS_Subset
<1>2. Cardinality(s \cap A) \in Nat /\ Cardinality((s \ {m}) \cap A) \in Nat
  BY <1>1, FS_CardinalityType
<1>3. CASE m \in A
  <2>1. (s \cap A) \ {m} = (s \ {m}) \cap A /\ m \in s \cap A
    BY <1>3
  <2>2. Cardinality((s \cap A) \ {m}) = Cardinality(s \cap A) - 1
    BY <1>1, <2>1, FS_RemoveElement
  <2>. QED BY <1>2, <1>3, <2>1, <2>2
<1>4. CASE m \notin A
  <2>1. s \cap A = (s \ {m}) \cap A
    BY <1>4
  <2>. QED BY <1>2, <1>4, <2>1
<1>. QED BY <1>3, <1>4

(* A line joins the others of its pair.                                    *)
LEMMA LineJoins ==
  ASSUME NEW raw, Lines(raw), NEW s \in SUBSET DOMAIN raw, NEW m \in s, NEW A, m \in A
  PROVE  Gathered(raw, s \cap A) = Together(EntryOf(raw[m]), Gathered(raw, (s \ {m}) \cap A))
<1>. DEFINE Det == Where(raw, "detected", TRUE)
            Cln == Where(raw, "clean_passed", TRUE)
            r   == s \ {m}
            D   == DOMAIN raw
<1>1. IsFiniteSet(s)
  BY ListIs, FS_Subset DEF Lines
<1>2. Cardinality(s \cap A) = 1 + Cardinality(r \cap A)
  BY <1>1, OneMore
<1>3. Cardinality((s \cap A) \cap Det) = EntryOf(raw[m]).detected + Cardinality((r \cap A) \cap Det)
  <2>1. EntryOf(raw[m]).detected = IF m \in A \cap Det THEN 1 ELSE 0
    BY DEF EntryOf, Lines, Where, Get
  <2>2. (s \cap A) \cap Det = s \cap (A \cap Det) /\ (r \cap A) \cap Det = r \cap (A \cap Det)
    OBVIOUS
  <2>. DEFINE B == A \cap Det
  <2>3. Cardinality(s \cap B) = (IF m \in B THEN 1 ELSE 0) + Cardinality(r \cap B)
    <3>. HIDE DEF B
    <3>. QED BY <1>1, OneMore
  <2>. QED BY <2>1, <2>2, <2>3
<1>4. Cardinality((s \cap A) \ Cln) = EntryOf(raw[m]).false_alarms + Cardinality((r \cap A) \ Cln)
  <2>1. EntryOf(raw[m]).false_alarms = IF m \in A \ Cln THEN 1 ELSE 0
    BY DEF EntryOf, Lines, Where, Get
  <2>2. (s \cap A) \ Cln = s \cap (A \ Cln) /\ (r \cap A) \ Cln = r \cap (A \ Cln)
    OBVIOUS
  <2>. DEFINE B == A \ Cln
  <2>3. Cardinality(s \cap B) = (IF m \in B THEN 1 ELSE 0) + Cardinality(r \cap B)
    <3>. HIDE DEF B
    <3>. QED BY <1>1, OneMore
  <2>. QED BY <2>1, <2>2, <2>3
<1>5. DOMAIN EntryOf(raw[m]) = {"n", "detected", "false_alarms"} /\ EntryOf(raw[m]).n = 1
  BY DEF EntryOf
<1>. DEFINE e == EntryOf(raw[m])
            g == Gathered(raw, r \cap A)
<1>6. Together(e, g) = [k \in {"n", "detected", "false_alarms"} |-> e[k] + g[k]]
  BY <1>5 DEF Together
<1>7. Gathered(raw, s \cap A) = [n |-> e.n + g.n, detected |-> e.detected + g.detected,
                               false_alarms |-> e.false_alarms + g.false_alarms]
  BY <1>2, <1>3, <1>4, <1>5 DEF Gathered
<1>8. ASSUME NEW a, NEW b
      PROVE  [k \in {"n", "detected", "false_alarms"} |-> a[k] + b[k]]
               = [n |-> a.n + b.n, detected |-> a.detected + b.detected,
                  false_alarms |-> a.false_alarms + b.false_alarms]
  OBVIOUS
<1>. HIDE DEF e, g
<1>9. Together(e, g) = Gathered(raw, s \cap A)
  BY <1>6, <1>7, <1>8
<1>. QED BY <1>9 DEF e, g

(* One pass over the lines gathers every pair's.                           *)
LEMMA EntriesGathered ==
  ASSUME NEW raw, Lines(raw)
  PROVE  FleetEntries(raw)
           = [key \in {KeyOf(raw[i]) : i \in DOMAIN raw} |-> Gathered(raw, OfKey(raw, key))]
<1>. DEFINE n       == Len(raw)
            Key(i)  == KeyOf(raw[i])
            Keys(s) == {Key(i) : i \in s}
            Step(g, i) == With(g, Key(i), Together(EntryOf(raw[i]), IF Key(i) \in DOMAIN g THEN g[Key(i)]
                                                                 ELSE NoEntry))
            Unroll(g) == [s \in SUBSET (1..n) |-> IF s = {} THEN <<>> ELSE Step(g[s \ {Max(s)}], Max(s))]
            Of(s)   == [key \in Keys(s) |-> Gathered(raw, s \cap OfKey(raw, key))]
            G       == [s \in SUBSET (1..n) |-> Of(s)]
            h       == CHOOSE g : g = Unroll(g)
<1>1. n \in Nat /\ DOMAIN raw = 1..n /\ IsFiniteSet(1..n)
  BY ListIs DEF Lines
<1>2. FleetEntries(raw) = h[1..n]
  BY <1>1, Zenon DEF FleetEntries, FoldLeft, MapThenFoldSet
<1>3. ASSUME NEW s \in SUBSET (1..n), s # {} PROVE Of(s) = Step(Of(s \ {Max(s)}), Max(s))
  <2>. DEFINE m == Max(s)
              r == s \ {m}
  <2>1. m \in s /\ r \in SUBSET (1..n) /\ s = r \cup {m}
    BY <1>1, <1>3, LastPlace
  <2>. HIDE DEF m
  <2>2. Keys(s) = Keys(r) \cup {Key(m)}
    BY <2>1
  <2>3. DOMAIN Step(Of(r), m) = Keys(s)
    BY <2>2 DEF With, Join
  <2>4. ASSUME NEW key \in Keys(s), key # Key(m)
        PROVE  Step(Of(r), m)[key] = Gathered(raw, s \cap OfKey(raw, key))
    <3>1. key \in Keys(r) /\ Step(Of(r), m)[key] = Of(r)[key]
      BY <2>2, <2>4 DEF With, Join
    <3>2. m \notin OfKey(raw, key)
      BY <2>4 DEF OfKey
    <3>3. r \cap OfKey(raw, key) = s \cap OfKey(raw, key)
      BY <2>1, <3>2
    <3>. QED BY <3>1, <3>3
  <2>5. Step(Of(r), m)[Key(m)] = Gathered(raw, s \cap OfKey(raw, Key(m)))
    <3>. DEFINE key == Key(m)
                A   == OfKey(raw, key)
                was == IF key \in DOMAIN Of(r) THEN Of(r)[key] ELSE NoEntry
    <3>1. was = Gathered(raw, r \cap A)
      <4>1. CASE key \in Keys(r)
        BY <4>1
      <4>2. CASE key \notin Keys(r)
        <5>1. r \cap A = {}
          BY <4>2 DEF OfKey
        <5>2. Gathered(raw, {}) = NoEntry
          <6>1. {} \cap Where(raw, "detected", TRUE) = {} /\ {} \ Where(raw, "clean_passed", TRUE) = {}
            OBVIOUS
          <6>2. Cardinality({}) = 0
            BY FS_EmptySet
          <6>. QED BY <6>1, <6>2 DEF Gathered, NoEntry
        <5>. QED BY <4>2, <5>1, <5>2
      <4>. QED BY <4>1, <4>2
    <3>2. m \in A /\ s \in SUBSET DOMAIN raw
      BY <1>1, <2>1 DEF OfKey
    <3>3. Gathered(raw, s \cap A) = Together(EntryOf(raw[m]), Gathered(raw, r \cap A))
      BY <2>1, <3>2, LineJoins
    <3>4. Step(Of(r), m)[key] = Together(EntryOf(raw[m]), was)
      BY DEF With, Join
    <3>. QED BY <3>1, <3>3, <3>4
  <2>. DEFINE new == Step(Of(r), m)
  <2>6. new = [key \in Keys(s) |-> new[key]]
    BY <2>3 DEF With, Join
  <2>7. \A key \in Keys(s) : new[key] = Gathered(raw, s \cap OfKey(raw, key))
    BY <2>4, <2>5
  <2>. HIDE DEF new, Keys
  <2>8. new = Of(s)
    BY <2>6, <2>7
  <2>. QED BY <2>8 DEF new, m
<1>4. Of({}) = <<>>
  OBVIOUS
<1>. HIDE DEF Of, Step
<1>5. G = Unroll(G)
  BY <1>1, <1>3, <1>4, LastPlace
<1>6. h = Unroll(h)
  <2>. HIDE DEF Unroll, G
  <2>. QED BY <1>5
<1>. HIDE DEF h
<1>7. ASSUME NEW s \in SUBSET (1..n), s # {}
      PROVE  \E x \in s : h[s \ {x}] = G[s \ {x}] => h[s] = G[s]
  <2>1. Max(s) \in s
    BY <1>1, <1>7, LastPlace
  <2>2. h[s] = Step(h[s \ {Max(s)}], Max(s))
    BY <1>6, <1>7
  <2>3. G[s] = Step(G[s \ {Max(s)}], Max(s))
    <3>. HIDE DEF G
    <3>. QED BY <1>5, <1>7
  <2>. HIDE DEF G
  <2>. QED BY <2>1, <2>2, <2>3
<1>8. h[{}] = G[{}]
  BY <1>4, <1>6
<1>9. h[1..n] = G[1..n]
  <2>. HIDE DEF G, n
  <2>. QED BY <1>1, <1>7, <1>8, FoldsAgree
<1>10. Of(1..n) = [key \in Keys(1..n) |-> Gathered(raw, OfKey(raw, key))]
  <2>1. \A key : (1..n) \cap OfKey(raw, key) = OfKey(raw, key)
    BY <1>1 DEF OfKey
  <2>. QED BY <2>1 DEF Of
<1>. QED BY <1>1, <1>2, <1>9, <1>10

(* Lines apart are gathered apart.                                         *)
LEMMA GatheredApart ==
  ASSUME NEW raw, NEW A, NEW B, IsFiniteSet(A), IsFiniteSet(B), A \cap B = {}
  PROVE  Gathered(raw, A \cup B) = Together(Gathered(raw, A), Gathered(raw, B))
<1>. DEFINE Det == Where(raw, "detected", TRUE)
            Cln == Where(raw, "clean_passed", TRUE)
<1>1. ASSUME NEW S, NEW T, S \subseteq A, T \subseteq B
      PROVE  Cardinality(S \cup T) = Cardinality(S) + Cardinality(T)
  <2>1. IsFiniteSet(S) /\ IsFiniteSet(T) /\ S \cap T = {}
    BY <1>1, FS_Subset
  <2>2. Cardinality(S \cup T) = Cardinality(S) + Cardinality(T) - Cardinality(S \cap T)
    BY <2>1, FS_Union
  <2>3. Cardinality(S) \in Nat /\ Cardinality(T) \in Nat /\ Cardinality(S \cap T) = 0
    BY <2>1, FS_CardinalityType, FS_EmptySet
  <2>. QED BY <2>2, <2>3
<1>2. /\ (A \cup B) \cap Det = (A \cap Det) \cup (B \cap Det)
      /\ (A \cup B) \ Cln = (A \ Cln) \cup (B \ Cln)
  OBVIOUS
<1>3. /\ Cardinality(A \cup B) = Cardinality(A) + Cardinality(B)
      /\ Cardinality((A \cup B) \cap Det) = Cardinality(A \cap Det) + Cardinality(B \cap Det)
      /\ Cardinality((A \cup B) \ Cln) = Cardinality(A \ Cln) + Cardinality(B \ Cln)
  <2>. HIDE DEF Det, Cln
  <2>. QED BY <1>1, <1>2
<1>. DEFINE a == Gathered(raw, A)
            b == Gathered(raw, B)
<1>4. DOMAIN a = {"n", "detected", "false_alarms"}
  BY DEF Gathered
<1>5. Gathered(raw, A \cup B) = [n |-> a.n + b.n, detected |-> a.detected + b.detected,
                               false_alarms |-> a.false_alarms + b.false_alarms]
  BY <1>3 DEF Gathered
<1>. HIDE DEF a, b
<1>6. Together(a, b) = [n |-> a.n + b.n, detected |-> a.detected + b.detected,
                        false_alarms |-> a.false_alarms + b.false_alarms]
  BY <1>4 DEF Together
<1>. QED BY <1>5, <1>6 DEF a, b

(* Summing entries gathers the lines of their pairs.                       *)
LEMMA EntriesSummed ==
  ASSUME NEW raw, Lines(raw), NEW keys, keys \subseteq {KeyOf(raw[i]) : i \in DOMAIN raw}
  PROVE  Summed(FleetEntries(raw), keys) = Gathered(raw, {i \in DOMAIN raw : KeyOf(raw[i]) \in keys})
<1>. DEFINE D         == DOMAIN raw
            Keys      == {KeyOf(raw[i]) : i \in D}
            entries   == FleetEntries(raw)
            Some(s)    == CHOOSE x \in s : TRUE
            Unroll(g) == [s \in SUBSET keys |-> IF s = {} THEN NoEntry
                                               ELSE Together(entries[Some(s)], g[s \ {Some(s)}])]
            Of(s)     == Gathered(raw, {i \in D : KeyOf(raw[i]) \in s})
            G         == [s \in SUBSET keys |-> Of(s)]
            h         == CHOOSE g : g = Unroll(g)
<1>1. Summed(entries, keys) = h[keys]
  BY Zenon DEF Summed, FoldFunctionOnSet, MapThenFoldSet
<1>2. IsFiniteSet(D)
  BY ListIs DEF Lines
<1>3. IsFiniteSet(keys)
  <2>. DEFINE f == [i \in D |-> KeyOf(raw[i])]
  <2>1. f \in Surjection(D, Keys)
    BY DEF Surjection
  <2>2. IsFiniteSet(Keys)
    <3>. HIDE DEF f, Keys, D
    <3>. QED BY <1>2, <2>1, FS_Surjection
  <2>. QED BY <2>2, FS_Subset
<1>4. \A key \in Keys : entries[key] = Gathered(raw, OfKey(raw, key))
  BY EntriesGathered
<1>. HIDE DEF entries
<1>5. \A s : s # {} => Some(s) \in s
  OBVIOUS
<1>. HIDE DEF Some
<1>6. ASSUME NEW s \in SUBSET keys, s # {} PROVE Of(s) = Together(entries[Some(s)], Of(s \ {Some(s)}))
  <2>. DEFINE key == Some(s)
              A   == OfKey(raw, key)
              B   == {i \in D : KeyOf(raw[i]) \in s \ {key}}
  <2>1. key \in s /\ key \in Keys
    BY <1>5, <1>6
  <2>. HIDE DEF key
  <2>2. A \in SUBSET D /\ B \in SUBSET D /\ A \cap B = {} /\ {i \in D : KeyOf(raw[i]) \in s} = A \cup B
    BY <2>1 DEF OfKey
  <2>3. IsFiniteSet(A) /\ IsFiniteSet(B)
    BY <1>2, <2>2, FS_Subset
  <2>4. Gathered(raw, A \cup B) = Together(Gathered(raw, A), Gathered(raw, B))
    BY <2>2, <2>3, GatheredApart
  <2>5. entries[key] = Gathered(raw, A)
    BY <1>4, <2>1
  <2>. QED BY <2>2, <2>4, <2>5 DEF key
<1>7. Of({}) = NoEntry
  <2>1. {i \in D : KeyOf(raw[i]) \in {}} = {}
    OBVIOUS
  <2>2. {} \cap Where(raw, "detected", TRUE) = {} /\ {} \ Where(raw, "clean_passed", TRUE) = {}
    OBVIOUS
  <2>3. Cardinality({}) = 0
    BY FS_EmptySet
  <2>. QED BY <2>1, <2>2, <2>3 DEF Gathered, NoEntry
<1>. HIDE DEF Of
<1>8. G = Unroll(G)
  BY <1>5, <1>6, <1>7
<1>9. h = Unroll(h)
  <2>. HIDE DEF Unroll, G
  <2>. QED BY <1>8
<1>. HIDE DEF h
<1>10. ASSUME NEW s \in SUBSET keys, s # {}
       PROVE  \E x \in s : h[s \ {x}] = G[s \ {x}] => h[s] = G[s]
  <2>1. Some(s) \in s
    BY <1>5, <1>10
  <2>2. h[s] = Together(entries[Some(s)], h[s \ {Some(s)}])
    BY <1>9, <1>10
  <2>3. G[s] = Together(entries[Some(s)], G[s \ {Some(s)}])
    <3>. HIDE DEF G
    <3>. QED BY <1>8, <1>10
  <2>. HIDE DEF G
  <2>. QED BY <2>1, <2>2, <2>3
<1>11. h[{}] = G[{}]
  BY <1>7, <1>9
<1>12. h[keys] = G[keys]
  <2>. HIDE DEF G
  <2>. QED BY <1>3, <1>10, <1>11, FoldsAgree
<1>. QED BY <1>1, <1>12 DEF Of, entries

(* Rates of what was gathered.                                             *)
LEMMA RatesOf ==
  ASSUME NEW raw, NEW lines
  PROVE  WithRates(Gathered(raw, lines)) = FleetRates(raw, lines)
<1>. DEFINE g == Gathered(raw, lines)
            w == WithRates(g)
            f == FleetRates(raw, lines)
<1>1. DOMAIN w = {"n", "detected", "false_alarms", "detection_rate", "false_alarm_rate"}
  BY DEF WithRates, Join, Gathered
<1>2. DOMAIN f = {"n", "detected", "false_alarms", "detection_rate", "false_alarm_rate"}
  BY DEF FleetRates
<1>3. \A k \in DOMAIN w : w[k] = f[k]
  BY <1>1 DEF WithRates, Join, Gathered, FleetRates
<1>4. w = [k \in DOMAIN w |-> w[k]] /\ f = [k \in DOMAIN f |-> f[k]]
  BY DEF WithRates, Join, FleetRates
<1>. HIDE DEF w, f
<1>5. w = f
  BY <1>1, <1>2, <1>3, <1>4
<1>. QED BY <1>5 DEF w, f

(* fleet: the board and the suites are sums of what members gathered.      *)
LEMMA FleetRecounted ==
  ASSUME NEW s, s.profile = "fleet", AsMeasured(s), Answered(CheckFleet(s))
  PROVE  CheckFleet(s).pool = FleetCitable(s)
<1>. DEFINE raw        == s.raw
            version    == s.version
            entries    == FleetEntries(raw)
            keys       == DOMAIN entries
            suites     == {key[1] : key \in keys}
            In(suite)  == {key \in keys : key[1] = suite}
            Level(l, numbers) == AtLevel(version, l, numbers)
<1>1. Lines(raw)
  BY DEF AsMeasured, MeasuredRows, RowAsMeasured, Flagged, Lines
<1>2. CheckFleet(s).pool = FleetPool(raw, version)
  BY DEF CheckFleet, Refused, Result, Answered
<1>3. FleetCitable(s)
        = Level("board", [rows |-> Cardinality(keys), suites |-> Cardinality(suites)])
            \cup (IF keys = {} THEN {} ELSE Level("board", WithRates(Summed(entries, keys))))
            \cup (UNION {Level("member", WithRates(entries[key])) : key \in keys})
            \cup (UNION {Level("suite", Join([members |-> Cardinality(In(suite))],
                                            WithRates(Summed(entries, In(suite))))) : suite \in suites})
  BY Zenon DEF FleetCitable, AtLevel, Field
<1>. HIDE DEF raw
<1>. DEFINE Keys       == {KeyOf(raw[i]) : i \in DOMAIN raw}
<1>4. keys = Keys /\ \A key \in keys : entries[key] = Gathered(raw, OfKey(raw, key))
  BY <1>1, EntriesGathered
<1>5. ASSUME NEW some, some \subseteq Keys
      PROVE  Summed(entries, some) = Gathered(raw, {i \in DOMAIN raw : KeyOf(raw[i]) \in some})
  BY <1>1, <1>5, EntriesSummed
<1>. HIDE DEF entries
<1>6. keys # {} => WithRates(Summed(entries, keys)) = FleetRates(raw, DOMAIN raw)
  <2>1. {i \in DOMAIN raw : KeyOf(raw[i]) \in Keys} = DOMAIN raw
    OBVIOUS
  <2>2. Summed(entries, keys) = Gathered(raw, DOMAIN raw)
    BY <1>4, <1>5, <2>1
  <2>. QED BY <2>2, RatesOf
<1>7. keys = {} <=> raw = <<>>
  <2>1. Len(raw) \in Nat /\ DOMAIN raw = 1..Len(raw) /\ raw \in Seq(ToSet(raw))
    BY <1>1, ListIs DEF Lines
  <2>2. Keys = {} <=> DOMAIN raw = {}
    OBVIOUS
  <2>3. DOMAIN raw = {} <=> Len(raw) = 0
    <3>1. Len(raw) # 0 => 1 \in DOMAIN raw
      BY <2>1
    <3>2. Len(raw) = 0 => DOMAIN raw = {}
      BY <2>1
    <3>. QED BY <3>1, <3>2
  <2>4. raw = <<>> <=> Len(raw) = 0
    BY <2>1, EmptySeq
  <2>. QED BY <1>4, <2>2, <2>3, <2>4
<1>8. ASSUME NEW key \in keys PROVE WithRates(entries[key]) = FleetRates(raw, OfKey(raw, key))
  BY <1>4, RatesOf
<1>9. ASSUME NEW suite \in suites
      PROVE  Level("suite", Join([members |-> Cardinality(In(suite))], WithRates(Summed(entries, In(suite)))))
               = Level("suite", FleetRates(raw, OfSuite(raw, suite)))
                   \cup Level("suite", [members |-> Cardinality(In(suite))])
  <2>. DEFINE m == [members |-> Cardinality(In(suite))]
              f == FleetRates(raw, OfSuite(raw, suite))
  <2>1. In(suite) \subseteq Keys
    BY <1>4
  <2>2. {i \in DOMAIN raw : KeyOf(raw[i]) \in In(suite)} = OfSuite(raw, suite)
    BY <1>4 DEF KeyOf, OfSuite, Where
  <2>3. WithRates(Summed(entries, In(suite))) = f
    BY <1>5, <2>1, <2>2, RatesOf
  <2>4. DOMAIN m = {"members"}
        /\ DOMAIN f = {"n", "detected", "false_alarms", "detection_rate", "false_alarm_rate"}
    BY DEF FleetRates
  <2>. HIDE DEF m, f
  <2>5. Level("suite", Join(m, f)) = Level("suite", f) \cup Level("suite", m)
    BY <2>4 DEF AtLevel, Join
  <2>. QED BY <2>3, <2>5 DEF m, f
<1>. DEFINE Pool(K) ==
              Level("board", [rows |-> Cardinality(K), suites |-> Cardinality({key[1] : key \in K})])
                \cup (IF raw = <<>> THEN {} ELSE Level("board", FleetRates(raw, DOMAIN raw)))
                \cup (UNION {Level("member", FleetRates(raw, OfKey(raw, key))) : key \in K})
                \cup (UNION {Level("suite", FleetRates(raw, OfSuite(raw, suite)))
                               \cup Level("suite", [members |-> Cardinality({key \in K : key[1] = suite})])
                             : suite \in {key[1] : key \in K}})
<1>10. FleetPool(raw, version) = Pool(keys)
  <2>1. FleetPool(raw, version) = Pool(Keys)
    BY Zenon DEF FleetPool
  <2>. HIDE DEF Pool, keys, Keys
  <2>. QED BY <1>4, <2>1
<1>11. UNION {Level("member", WithRates(entries[key])) : key \in keys}
         = UNION {Level("member", FleetRates(raw, OfKey(raw, key))) : key \in keys}
  BY <1>8
<1>12. UNION {Level("suite", Join([members |-> Cardinality(In(suite))],
                                  WithRates(Summed(entries, In(suite))))) : suite \in suites}
         = UNION {Level("suite", FleetRates(raw, OfSuite(raw, suite)))
                    \cup Level("suite", [members |-> Cardinality(In(suite))]) : suite \in suites}
  <2>. DEFINE P(suite) == Level("suite", Join([members |-> Cardinality(In(suite))],
                                              WithRates(Summed(entries, In(suite)))))
              Q(suite) == Level("suite", FleetRates(raw, OfSuite(raw, suite)))
                            \cup Level("suite", [members |-> Cardinality(In(suite))])
  <2>1. \A suite \in suites : P(suite) = Q(suite)
    BY <1>9
  <2>. HIDE DEF P, Q, suites
  <2>2. UNION {P(suite) : suite \in suites} = UNION {Q(suite) : suite \in suites}
    BY <2>1
  <2>. QED BY <2>2 DEF P, Q
<1>13. Pool(keys)
         = Level("board", [rows |-> Cardinality(keys), suites |-> Cardinality(suites)])
             \cup (IF keys = {} THEN {} ELSE Level("board", FleetRates(raw, DOMAIN raw)))
             \cup (UNION {Level("member", FleetRates(raw, OfKey(raw, key))) : key \in keys})
             \cup (UNION {Level("suite", FleetRates(raw, OfSuite(raw, suite)))
                            \cup Level("suite", [members |-> Cardinality(In(suite))]) : suite \in suites})
  BY <1>7, Zenon
<1>. HIDE DEF Level, keys, suites, In, Pool
<1>14. (IF keys = {} THEN {} ELSE Level("board", WithRates(Summed(entries, keys))))
         = (IF keys = {} THEN {} ELSE Level("board", FleetRates(raw, DOMAIN raw)))
  BY <1>6
<1>15. FleetCitable(s) = Pool(keys)
  BY <1>3, <1>11, <1>12, <1>13, <1>14
<1>. QED BY <1>2, <1>10, <1>15 DEF raw, version

-----------------------------------------------------------------------------
(* What is recounted is a number.                                          *)

(* Quotients, shares and tallies.                                          *)
LEMMA RoundedIsWhole ==
  ASSUME NEW num \in Int, NEW den \in Nat \ {0}, NEW unit \in Nat
  PROVE  Rounded(num, den, unit) \in Int /\ Exactly(num, den) \in Int
<1>1. num * unit \in Int /\ num * Unit \in Int
  BY DEF Unit
<1>. QED BY <1>1 DEF Rounded, Exactly

LEMMA ShareIsWhole ==
  ASSUME NEW num \in Int, NEW den \in Nat
  PROVE  Share(num, den) \in Int
BY RoundedIsWhole DEF Share

LEMMA TallyIsWhole ==
  ASSUME NEW rows, IsList(rows), NEW field, NEW value
  PROVE  Tally(rows, field, value) \in Nat
<1>1. Where(rows, field, value) \subseteq DOMAIN rows
  BY DEF Where
<1>. QED BY <1>1, ListIs, FS_Subset, FS_CardinalityType DEF Tally

(* certlab: tallies.                                                       *)
LEMMA CertlabWhole ==
  ASSUME NEW s, s.profile = "certlab", AsMeasured(s), Answered(CheckCertlab(s)),
         NEW x \in CheckCertlab(s).pool
  PROVE  x[2] \in Int
<1>. DEFINE verdicts == s.artifact["verdicts"]
            counts   == CertlabCounts(verdicts)
<1>1. IsList(verdicts)
  BY DEF AsMeasured, MeasuredRows, RowsKey
<1>2. CheckCertlab(s).pool = CertlabPool(verdicts, counts)
  BY DEF CheckCertlab, Refused, Result, Answered
<1>. HIDE DEF verdicts
<1>3. \A k \in DOMAIN counts : counts[k] \in Int
  <2>. DEFINE fixed     == Tally(verdicts, "fixed", TRUE)
              policy_ok == Tally(verdicts, "policy_ok", TRUE)
              tests_ok  == Tally(verdicts, "tests_ok", TRUE)
  <2>1. fixed \in Nat /\ policy_ok \in Nat /\ tests_ok \in Nat
    BY <1>1, TallyIsWhole, Zenon
  <2>2. counts = [verdicts |-> Len(verdicts), fixed |-> fixed, policy_ok |-> policy_ok, tests_ok |-> tests_ok]
    BY Zenon DEF CertlabCounts
  <2>3. Len(verdicts) \in Nat
    BY <1>1, ListIs
  <2>. HIDE DEF fixed, policy_ok, tests_ok, counts
  <2>. QED BY <2>1, <2>2, <2>3
<1>. DEFINE modes == {Get(verdicts[i], "failure_mode") : i \in DOMAIN verdicts} \ {None}
            some  == modes \ DOMAIN counts
            tally == [m \in some |-> Tally(verdicts, "failure_mode", m)]
<1>4. \A m \in DOMAIN tally : tally[m] \in Int
  BY <1>1, TallyIsWhole
<1>5. x \in PoolOf(counts) \cup PoolOf(tally)
  BY <1>2, Zenon DEF CertlabPool
<1>. HIDE DEF counts, tally
<1>. QED BY <1>3, <1>4, <1>5 DEF PoolOf

(* crashkit: weights are naturals, so a share has a divisor or is nought.  *)
LEMMA CrashkitWhole ==
  ASSUME NEW s, s.profile = "crashkit", AsMeasured(s), Answered(CheckCrashkit(s)),
         NEW x \in CheckCrashkit(s).pool
  PROVE  x[2] \in Int
<1>. DEFINE cases  == s.artifact["cases"]
            graded == Graded(cases)
            D      == DOMAIN cases
<1>1. IsList(cases)
  BY DEF AsMeasured, MeasuredRows, RowsKey
<1>2. /\ ~Unknown(cases, graded)
      /\ CheckCrashkit(s).pool = PoolOf(BatteryRecount(cases))
  BY DEF CheckCrashkit, Refused, Result, Answered
<1>. HIDE DEF cases
<1>3. IsFiniteSet(D) /\ Len(cases) \in Nat
  BY <1>1, ListIs
<1>4. graded \subseteq D
  BY DEF Graded, Where
<1>. HIDE DEF graded, D
<1>5. ASSUME NEW S \in SUBSET graded
      PROVE  Cardinality(S) \in Nat /\ WeightOf(cases, S) \in Nat
  <2>1. IsFiniteSet(S) /\ Cardinality(S) \in Nat
    BY <1>3, <1>4, FS_Subset, FS_CardinalityType
  <2>. DEFINE f == [i \in S |-> Weight[cases[i].severity]]
  <2>2. \A i \in S : Weight[cases[i].severity] \in Nat
    BY <1>2, KnownWeigh DEF Weight
  <2>3. f \in [S -> Nat] /\ \A i \in S : Weight[cases[i].severity] \in Int
    BY <2>2
  <2>4. WeightOf(cases, S) = SumOf(f, S)
    BY <2>1, <2>3, WeightsAdded
  <2>. HIDE DEF f
  <2>. QED BY <2>1, <2>3, <2>4, SumIsNat
<1>6. /\ Cardinality(graded) \in Nat /\ Cardinality(graded \cap Passed(cases)) \in Nat
      /\ WeightOf(cases, graded) \in Nat /\ WeightOf(cases, graded \ Passed(cases)) \in Nat
  BY <1>5
<1>. DEFINE errors  == Tally(cases, "grader", "error")
            flagged == Tally(cases, "flagged", TRUE)
<1>7. errors \in Nat /\ flagged \in Nat
  BY <1>1, TallyIsWhole, Zenon
<1>. HIDE DEF errors, flagged
<1>. DEFINE cut  == Len(cases) - Cardinality(graded)
            acc  == Share(Cardinality(graded \cap Passed(cases)), Cardinality(graded))
            vuln == Share(WeightOf(cases, graded \ Passed(cases)), WeightOf(cases, graded))
            rel  == Share(Len(cases) - errors - cut, Len(cases))
            R    == [accuracy |-> acc, vulnerability_score |-> vuln, flagged_cases |-> flagged,
                     n_cases |-> Len(cases), truncations |-> cut, reliability |-> rel,
                     cases |-> Len(cases), graded |-> Cardinality(graded), errors |-> errors]
<1>8. cut \in Int /\ acc \in Int /\ vuln \in Int /\ rel \in Int
  <2>1. cut \in Int /\ Len(cases) - errors - cut \in Int
    BY <1>3, <1>6, <1>7
  <2>. QED BY <1>3, <1>6, <2>1, ShareIsWhole
<1>9. BatteryRecount(cases) = R
  BY Zenon DEF BatteryRecount, graded, errors, flagged
<1>. HIDE DEF cut, acc, vuln, rel
<1>10. \A k \in DOMAIN R : R[k] \in Int
  BY <1>3, <1>6, <1>7, <1>8
<1>. HIDE DEF R
<1>. QED BY <1>2, <1>9, <1>10 DEF PoolOf

(* variance: a task has runs.                                              *)
LEMMA VarianceWhole ==
  ASSUME NEW s, s.profile = "variance", AsMeasured(s), Answered(CheckVariance(s)),
         NEW x \in CheckVariance(s).pool
  PROVE  x[2] \in Int
<1>. DEFINE rows   == s.artifact["per_task"]
            D      == DOMAIN rows
            flaky  == {i \in D : Flaky(rows[i])}
            failed == {i \in D : SomeFailed(rows[i])}
<1>1. IsList(rows)
  BY DEF AsMeasured, MeasuredRows, RowsKey
<1>2. /\ \A i \in DOMAIN rows : Counted(rows[i])
      /\ ~Unknown(rows, DOMAIN rows)
      /\ CheckVariance(s).pool = PoolOf(VarianceRecount(rows))
  BY DEF CheckVariance, Refused, Result, Answered
<1>. HIDE DEF rows
<1>3. \A i \in D : rows[i].runs \in Nat \ {0} /\ rows[i].passes \in Nat
  <2>1. None \notin Int
    BY ValuesAssumption
  <2>. QED BY <1>2, <2>1 DEF Counted, Get
<1>4. IsFiniteSet(D) /\ Len(rows) \in Nat
  BY <1>1, ListIs
<1>5. \A i \in D : Weight[rows[i].severity] \in Nat
  BY <1>2, KnownWeigh DEF Weight
<1>6. ASSUME NEW S \in SUBSET D
      PROVE  Cardinality(S) \in Nat /\ WeightOf(rows, S) \in Nat
  <2>1. IsFiniteSet(S) /\ Cardinality(S) \in Nat
    BY <1>4, FS_Subset, FS_CardinalityType
  <2>. DEFINE f == [i \in S |-> Weight[rows[i].severity]]
  <2>3. f \in [S -> Nat] /\ \A i \in S : Weight[rows[i].severity] \in Int
    BY <1>5
  <2>4. WeightOf(rows, S) = SumOf(f, S)
    BY <2>1, <2>3, WeightsAdded
  <2>. HIDE DEF f
  <2>. QED BY <2>1, <2>3, <2>4, SumIsNat
<1>7. MeanFailed(rows) \in Int
  <2>. DEFINE e(i) == Exactly(Weight[rows[i].severity] * (rows[i].runs - rows[i].passes), rows[i].runs)
              f    == [i \in D |-> e(i)]
  <2>1. ASSUME NEW i \in D PROVE e(i) \in Int
    <3>1. Weight[rows[i].severity] * (rows[i].runs - rows[i].passes) \in Int
      BY <1>3, <1>5
    <3>. QED BY <1>3, <3>1, RoundedIsWhole
  <2>2. f \in [D -> Int] /\ \A i \in D : f[i] = e(i)
    BY <2>1
  <2>. HIDE DEF f
  <2>3. MeanFailed(rows) = SumOf(f, D)
    BY <1>4, <2>2, MeansAdded
  <2>. QED BY <1>4, <2>2, <2>3, SumIsInt
<1>8. /\ Cardinality(flaky) \in Nat /\ WeightOf(rows, failed) \in Nat /\ WeightOf(rows, D) \in Nat
      /\ WeightOf(rows, D) * Unit \in Nat
  BY <1>6 DEF Unit
<1>. HIDE DEF flaky, failed
<1>9. /\ Share(Len(rows) - Cardinality(flaky), Len(rows)) \in Int
      /\ Share(MeanFailed(rows), WeightOf(rows, D) * Unit) \in Int
      /\ Share(WeightOf(rows, failed), WeightOf(rows, D)) \in Int
  <2>1. Len(rows) - Cardinality(flaky) \in Int
    BY <1>4, <1>8
  <2>. QED BY <1>4, <1>7, <1>8, <2>1, ShareIsWhole
<1>10. \A k \in DOMAIN VarianceRecount(rows) : VarianceRecount(rows)[k] \in Int
  BY <1>4, <1>8, <1>9 DEF VarianceRecount, flaky, failed
<1>. QED BY <1>2, <1>10 DEF PoolOf

(* fleet: rates are of lines that are there.                               *)
LEMMA FleetWhole ==
  ASSUME NEW s, s.profile = "fleet", AsMeasured(s), Answered(CheckFleet(s)),
         NEW x \in CheckFleet(s).pool
  PROVE  x[2] \in Int
<1>. DEFINE raw    == s.raw
            keys   == {KeyOf(raw[i]) : i \in DOMAIN raw}
            suites == {key[1] : key \in keys}
            Of(suite) == {key \in keys : key[1] = suite}
<1>1. IsList(raw) /\ CheckFleet(s).pool = FleetPool(raw, s.version)
  BY DEF AsMeasured, MeasuredRows, CheckFleet, Refused, Result, Answered
<1>. HIDE DEF raw
<1>2. IsFiniteSet(DOMAIN raw)
  BY <1>1, ListIs
<1>3. ASSUME NEW lines \in SUBSET DOMAIN raw, lines # {}, NEW k \in DOMAIN FleetRates(raw, lines)
      PROVE  FleetRates(raw, lines)[k] \in Int
  <2>. DEFINE n   == Cardinality(lines)
              det == Cardinality(lines \cap Where(raw, "detected", TRUE))
              fa  == Cardinality(lines \ Where(raw, "clean_passed", TRUE))
  <2>1. IsFiniteSet(lines) /\ IsFiniteSet(lines \cap Where(raw, "detected", TRUE))
        /\ IsFiniteSet(lines \ Where(raw, "clean_passed", TRUE))
    BY <1>2, FS_Subset
  <2>2. n \in Nat \ {0} /\ det \in Nat /\ fa \in Nat
    BY <1>3, <2>1, FS_CardinalityType, FS_EmptySet
  <2>. HIDE DEF n, det, fa
  <2>3. Rounded(det, n, 1000) \in Int /\ Rounded(fa, n, 1000) \in Int
    BY <2>2, RoundedIsWhole
  <2>. QED BY <2>2, <2>3 DEF FleetRates, n, det, fa
<1>4. IsFiniteSet(keys) /\ IsFiniteSet(suites)
  <2>1. [i \in DOMAIN raw |-> KeyOf(raw[i])] \in Surjection(DOMAIN raw, keys)
    BY DEF Surjection
  <2>2. IsFiniteSet(keys)
    BY <1>2, <2>1, FS_Surjection
  <2>3. [key \in keys |-> key[1]] \in Surjection(keys, suites)
    BY DEF Surjection
  <2>. HIDE DEF keys, suites
  <2>. QED BY <2>2, <2>3, FS_Surjection
<1>5. ASSUME NEW version, NEW level, NEW numbers, \A k \in DOMAIN numbers : numbers[k] \in Int
      PROVE  \A y \in AtLevel(version, level, numbers) : y[2] \in Int
  BY <1>5 DEF AtLevel
<1>. DEFINE At(level, numbers) == AtLevel(s.version, level, numbers)
            M(key)   == FleetRates(raw, OfKey(raw, key))
            U(suite) == FleetRates(raw, OfSuite(raw, suite))
            V(suite) == [members |-> Cardinality({key \in keys : key[1] = suite})]
            B        == [rows |-> Cardinality(keys), suites |-> Cardinality(suites)]
<1>6. CheckFleet(s).pool =
        At("board", B) \cup (IF raw = <<>> THEN {} ELSE At("board", FleetRates(raw, DOMAIN raw)))
          \cup (UNION {At("member", M(key)) : key \in keys})
          \cup (UNION {At("suite", U(suite)) \cup At("suite", V(suite)) : suite \in suites})
  BY <1>1, Zenon DEF FleetPool
<1>7. \A y \in At("board", B) : y[2] \in Int
  <2>1. Cardinality(keys) \in Int /\ Cardinality(suites) \in Int
    BY <1>4, FS_CardinalityType
  <2>. HIDE DEF keys, suites
  <2>2. \A k \in DOMAIN B : B[k] \in Int
    BY <2>1
  <2>. QED BY <1>5, <2>2
<1>8. raw # <<>> => \A y \in At("board", FleetRates(raw, DOMAIN raw)) : y[2] \in Int
  <2>1. raw # <<>> => DOMAIN raw # {}
    <3>1. Len(raw) \in Nat /\ DOMAIN raw = 1..Len(raw) /\ raw \in Seq(ToSet(raw))
      BY <1>1, ListIs
    <3>2. raw # <<>> => Len(raw) # 0
      BY <3>1, EmptySeq
    <3>3. Len(raw) # 0 => 1 \in DOMAIN raw
      BY <3>1
    <3>. QED BY <3>2, <3>3
  <2>. QED BY <1>3, <1>5, <2>1
<1>9. ASSUME NEW key \in keys PROVE \A y \in At("member", M(key)) : y[2] \in Int
  <2>1. OfKey(raw, key) \in SUBSET DOMAIN raw /\ OfKey(raw, key) # {}
    BY DEF OfKey
  <2>. HIDE DEF keys
  <2>. QED BY <1>3, <1>5, <2>1
<1>10. ASSUME NEW suite \in suites
       PROVE  \A y \in At("suite", U(suite)) \cup At("suite", V(suite)) : y[2] \in Int
  <2>1. OfSuite(raw, suite) \in SUBSET DOMAIN raw /\ OfSuite(raw, suite) # {}
    BY DEF OfSuite, Where, KeyOf
  <2>2. {key \in keys : key[1] = suite} \in SUBSET keys
    OBVIOUS
  <2>. HIDE DEF keys, suites
  <2>3. Cardinality({key \in keys : key[1] = suite}) \in Int
    BY <1>4, <2>2, FS_Subset, FS_CardinalityType
  <2>4. \A k \in DOMAIN V(suite) : V(suite)[k] \in Int
    BY <2>3
  <2>5. \A k \in DOMAIN U(suite) : U(suite)[k] \in Int
    BY <1>3, <2>1
  <2>6. \A y \in At("suite", U(suite)) : y[2] \in Int
    BY <1>5, <2>5
  <2>. HIDE DEF V
  <2>7. \A y \in At("suite", V(suite)) : y[2] \in Int
    BY <1>5, <2>4
  <2>. QED BY <2>6, <2>7
<1>. HIDE DEF At, M, U, V, B, keys, suites
<1>. QED BY <1>6, <1>7, <1>8, <1>9, <1>10

(* rows: numbers over at least one row.                                    *)
LEMMA LineWhole ==
  ASSUME NEW rows, IsList(rows), rows # <<>>, NEW spec, RecipeReason(rows, spec) = None,
         \A i \in DOMAIN rows : \A k \in DOMAIN rows[i] :
           rows[i][k].type \in {"number", "bool"} => rows[i][k].value \in Int
  PROVE  Recomputed(rows, spec) \in Int
<1>. DEFINE D       == DOMAIN rows
            field   == Get(spec, "field")
            half    == Get(spec, "round")
            numbers == [i \in D |-> Get(rows[i], field).value]
<1>1. spec.op \in RowOps
  BY NoFault
<1>2. Len(rows) \in Nat \ {0} /\ D = 1..Len(rows) /\ IsFiniteSet(D)
  BY ListIs
<1>3. CASE spec.op = "count"
  BY <1>2, <1>3 DEF Recomputed, Unit
<1>4. ASSUME spec.op # "count" PROVE Recomputed(rows, spec) \in Int
  <2>1. \A i \in D : field \in DOMAIN rows[i] /\ rows[i][field].value \in Int
    BY <1>1, <1>4, NoFault DEF TypeDue
  <2>2. numbers \in [1..Len(rows) -> Int]
    BY <1>2, <2>1 DEF Get
  <2>. HIDE DEF numbers
  <2>3. Added(numbers) \in Int
    BY <1>2, <2>2, AddedIs, SumIsInt
  <2>4. Best(1, numbers) \in Int /\ Best(-1, numbers) \in Int
    BY <1>2, <2>2, BestIs
  <2>5. Exactly(Added(numbers), Len(rows)) \in Int /\ Rounded(Added(numbers), Len(rows), 1) \in Int
    BY <1>2, <2>3, RoundedIsWhole
  <2>6. CASE spec.op = "sum"
    <3>1. Recomputed(rows, spec) = Added(numbers) * Unit
      BY <2>6 DEF Recomputed, numbers
    <3>. QED BY <2>3, <3>1 DEF Unit
  <2>7. CASE spec.op \in {"mean", "rate_true"}
    <3>1. Recomputed(rows, spec) = IF half = None THEN Exactly(Added(numbers), Len(rows))
                                   ELSE Rounded(Added(numbers), Len(rows), 1) * Unit
      BY <2>7 DEF Recomputed, numbers
    <3>. QED BY <2>5, <3>1 DEF Unit
  <2>8. CASE spec.op = "min"
    <3>1. Recomputed(rows, spec) = Best(1, numbers) * Unit
      BY <2>8 DEF Recomputed, numbers
    <3>. QED BY <2>4, <3>1 DEF Unit
  <2>9. CASE spec.op = "max"
    <3>1. Recomputed(rows, spec) = Best(-1, numbers) * Unit
      BY <2>9 DEF Recomputed, numbers
    <3>. QED BY <2>4, <3>1 DEF Unit
  <2>. QED BY <1>1, <1>4, <2>6, <2>7, <2>8, <2>9 DEF RowOps
<1>. QED BY <1>3, <1>4

LEMMA RowsWhole ==
  ASSUME NEW s, s.profile = "rows", AsMeasured(s), Answered(CheckRows(s)),
         NEW x \in CheckRows(s).pool
  PROVE  x[2] \in Int
<1>. DEFINE rows   == s.artifact[RowsAt(s)]
            recipe == s.check["recompute"]
<1>1. /\ IsList(rows)
      /\ \A i \in DOMAIN rows : \A k \in DOMAIN rows[i] :
           rows[i][k].type \in {"number", "bool"} => rows[i][k].value \in Int
  BY DEF AsMeasured, MeasuredRows, RowsKey, RowAsMeasured
<1>2. rows # <<>> /\ {RecipeReason(rows, recipe[k]) : k \in DOMAIN recipe} \ {None} = {}
  <2>. DEFINE got   == IF s.artifact \in {None, Junk} THEN None ELSE Get(s.artifact, RowsAt(s))
              asked == Get(s.check, "recompute")
              wrong == {RecipeReason(got, asked[k]) : k \in DOMAIN asked} \ {None}
  <2>1. got \notin {None, Junk} /\ got # <<>> /\ asked # None /\ wrong = {}
    BY DEF CheckRows, Refused, Result, Answered
  <2>2. got = rows
    BY <2>1 DEF Get
  <2>3. asked = recipe
    BY <2>1 DEF Get
  <2>. QED BY <2>1, <2>2, <2>3
<1>3. \A k \in DOMAIN recipe : RecipeReason(rows, recipe[k]) = None
  BY <1>2
<1>4. \E k \in DOMAIN recipe : x = <<k, Recomputed(rows, recipe[k])>>
  BY RowsRecounted DEF RowsCitable
<1>. HIDE DEF rows, recipe
<1>. QED BY <1>1, <1>2, <1>3, <1>4, LineWhole

(* evalmut: a score is of mutations that were applied.                     *)
LEMMA EvalmutWhole ==
  ASSUME NEW s, s.profile = "evalmut", AsMeasured(s), Answered(CheckEvalmut(s)),
         NEW x \in CheckEvalmut(s).pool
  PROVE  x[2] \in Int
<1>. DEFINE rows    == s.artifact["results"]
            catalog == Get(s.check, "catalog")
            caught  == Tally(rows, "outcome", "caught")
            missed  == Tally(rows, "outcome", "missed")
            flagged == Tally(rows, "outcome", "flagged")
            applied == caught + missed + flagged
            counts  == [o \in Outcome |-> Tally(rows, "outcome", o)]
            holes   == [class \in {"vacuous", "blind", "brittle", "coverage_gap"} |-> HoleCount(rows, class)]
            others  == [applied   |-> applied,
                        results   |-> Len(rows),
                        score_3   |-> Rounded(caught, applied, 1000),
                        operators_exercised |-> Cardinality({Get(rows[i], "operator_id") : i \in DOMAIN rows})]
            battery == IF catalog \in {None, Junk} \/ ~ Mined(catalog) THEN <<>>
                       ELSE [operators |-> Len(catalog)]
            score   == Exactly(caught, applied)
<1>1. IsList(rows)
  BY DEF AsMeasured, MeasuredRows, RowsKey
<1>2. counts["caught"] = caught /\ counts["missed"] = missed /\ counts["flagged"] = flagged
  BY DEF Outcome
<1>3. EvalmutRecount(rows, catalog) = Join(Join(counts, holes), Join(others, battery))
  BY <1>2, Zenon DEF EvalmutRecount
<1>4. /\ CheckEvalmut(s).pool = PoolOf(EvalmutRecount(rows, catalog)) \cup {<<"score", score>>}
      /\ applied # 0
  <2>1. /\ CheckEvalmut(s).pool = PoolOf(EvalmutRecount(rows, catalog))
                                    \cup {<<"score", Exactly(counts["caught"], counts["caught"] + counts["missed"] + counts["flagged"])>>}
        /\ counts["caught"] + counts["missed"] + counts["flagged"] # 0
    BY <1>1, EvalmutAnswers, Zenon
  <2>. QED BY <1>2, <2>1, Zenon
<1>. HIDE DEF rows, catalog
<1>5. \A o : Tally(rows, "outcome", o) \in Nat
  BY <1>1, TallyIsWhole
<1>6. caught \in Nat /\ missed \in Nat /\ flagged \in Nat /\ applied \in Nat \ {0}
  BY <1>4, <1>5
<1>. HIDE DEF caught, missed, flagged
<1>7. score \in Int /\ Rounded(caught, applied, 1000) \in Int
  BY <1>6, RoundedIsWhole
<1>8. \A k \in DOMAIN counts : counts[k] \in Int
  BY <1>5
<1>9. \A k \in DOMAIN holes : holes[k] \in Int
  <2>1. ASSUME NEW class PROVE HoleCount(rows, class) \in Int
    <3>1. {i \in DOMAIN rows : InClass(rows[i], class)} \in SUBSET DOMAIN rows
      OBVIOUS
    <3>. QED BY <1>1, <3>1, ListIs, FS_Subset, FS_CardinalityType DEF HoleCount
  <2>. QED BY <2>1
<1>10. \A k \in DOMAIN others : others[k] \in Int
  <2>. DEFINE drawn == {Get(rows[i], "operator_id") : i \in DOMAIN rows}
              d     == Cardinality(drawn)
              r     == Rounded(caught, applied, 1000)
  <2>1. d \in Nat
    <3>1. [i \in DOMAIN rows |-> Get(rows[i], "operator_id")] \in Surjection(DOMAIN rows, drawn)
      BY DEF Surjection
    <3>. HIDE DEF drawn
    <3>2. IsFiniteSet(drawn)
      BY <1>1, <3>1, ListIs, FS_Surjection
    <3>. QED BY <3>2, FS_CardinalityType
  <2>2. Len(rows) \in Nat
    BY <1>1, ListIs
  <2>. HIDE DEF d, r
  <2>3. others = [applied |-> applied, results |-> Len(rows), score_3 |-> r, operators_exercised |-> d]
    BY Zenon DEF d, r
  <2>. HIDE DEF others, applied
  <2>. QED BY <1>6, <1>7, <2>1, <2>2, <2>3 DEF r
<1>11. \A k \in DOMAIN battery : battery[k] \in Int
  <2>1. catalog \in {None, Junk} \/ IsList(catalog)
    BY DEF AsMeasured, CatalogRead, catalog
  <2>2. catalog \notin {None, Junk} => Len(catalog) \in Nat
    BY <2>1, ListIs
  <2>. DEFINE n == Len(catalog)
  <2>3. battery = <<>> \/ (catalog \notin {None, Junk} /\ battery = [operators |-> n])
    BY Zenon
  <2>4. DOMAIN <<>> = {}
    OBVIOUS
  <2>. HIDE DEF battery, n
  <2>. QED BY <2>2, <2>3, <2>4 DEF n
<1>. HIDE DEF counts, holes, others, battery, score
<1>12. \A k \in DOMAIN Join(Join(counts, holes), Join(others, battery)) :
         Join(Join(counts, holes), Join(others, battery))[k] \in Int
  BY <1>8, <1>9, <1>10, <1>11 DEF Join
<1>. QED BY <1>3, <1>4, <1>7, <1>12 DEF PoolOf

-----------------------------------------------------------------------------
(* Edits keep what AsMeasured asks.                                        *)

LEMMA ListOf ==
  ASSUME NEW S, NEW rows \in Seq(S)
  PROVE  IsList(rows)
<1>1. Len(rows) \in Nat /\ rows \in [1..Len(rows) -> ToSet(rows)]
  <2>1. Len(rows) \in Nat /\ rows \in [1..Len(rows) -> S]
    BY LenProperties
  <2>. QED BY <2>1 DEF ToSet
<1>. QED BY <1>1 DEF IsList

(* Rows of which something holds, and such rows changed.                   *)
Held(profile, rows) == IsList(rows) /\ \A i \in DOMAIN rows : RowAsMeasured(profile, rows[i])

(* Rows that are rows of a list, and perhaps a new one.                    *)
MadeOf(new, rows, e) ==
  IsList(new) /\ \A j \in DOMAIN new : new[j] = e \/ \E k \in DOMAIN rows : new[j] = rows[k]

(* Rows with one replaced, one less, one more.                             *)
LEMMA ReplacedIs ==
  ASSUME NEW rows, IsList(rows), NEW i \in DOMAIN rows, NEW e
  PROVE  MadeOf(ReplaceAt(rows, i, e), rows, e)
<1>. DEFINE S == ToSet(rows) \cup {e}
            t == ReplaceAt(rows, i, e)
<1>1. rows \in Seq(ToSet(rows)) /\ DOMAIN rows = 1..Len(rows) /\ Len(rows) \in Nat
  BY ListIs
<1>2. rows \in Seq(S)
  BY <1>1, SeqMonotonic
<1>3. t \in Seq(S) /\ Len(t) = Len(rows) /\ \A j \in 1..Len(rows) : t[j] = IF j = i THEN e ELSE rows[j]
  BY <1>1, <1>2, ExceptSeq DEF ReplaceAt
<1>. HIDE DEF t
<1>4. DOMAIN t = 1..Len(rows)
  BY <1>3, LenProperties
<1>5. IsList(t)
  BY <1>3, ListOf
<1>. QED BY <1>1, <1>3, <1>4, <1>5 DEF MadeOf, t

LEMMA RemovedIs ==
  ASSUME NEW rows, IsList(rows), NEW i \in DOMAIN rows, NEW e
  PROVE  MadeOf(RemoveAt(rows, i), rows, e)
<1>. DEFINE S == ToSet(rows)
            n == Len(rows)
            a == SubSeq(rows, 1, i - 1)
            b == SubSeq(rows, i + 1, n)
            t == a \o b
<1>1. rows \in Seq(S) /\ DOMAIN rows = 1..n /\ n \in Nat
  BY ListIs
<1>2. \A j \in 1..n : rows[j] \in S
  BY <1>1 DEF ToSet
<1>. HIDE DEF S, n
<1>3. /\ a \in Seq(S) /\ Len(a) = IF 1 <= i - 1 THEN i - 1 - 1 + 1 ELSE 0
      /\ \A j \in 1..(i - 1) - 1 + 1 : a[j] = rows[1 + j - 1]
  <2>1. 1 \in Int /\ i - 1 \in Int /\ \A j \in 1..(i - 1) : rows[j] \in S
    BY <1>1, <1>2
  <2>. QED BY <2>1, SubSeqProperties
<1>4. /\ b \in Seq(S) /\ Len(b) = IF i + 1 <= n THEN n - (i + 1) + 1 ELSE 0
      /\ \A j \in 1..n - (i + 1) + 1 : b[j] = rows[i + 1 + j - 1]
  <2>1. n \in Int /\ i + 1 \in Int /\ \A j \in i + 1..n : rows[j] \in S
    BY <1>1, <1>2
  <2>. QED BY <2>1, SubSeqProperties
<1>. HIDE DEF a, b
<1>5. /\ t \in Seq(S) /\ Len(t) = Len(a) + Len(b)
      /\ \A j \in 1..Len(a) + Len(b) : t[j] = IF j <= Len(a) THEN a[j] ELSE b[j - Len(a)]
  BY <1>3, <1>4, ConcatProperties
<1>. HIDE DEF t
<1>6. DOMAIN t = 1..Len(t)
  BY <1>5, LenProperties
<1>7. Len(a) = i - 1 /\ Len(b) = n - i /\ i \in 1..n
  BY <1>1, <1>3, <1>4
<1>8. ASSUME NEW j \in DOMAIN t PROVE \E k \in DOMAIN rows : t[j] = rows[k]
  <2>1. j \in 1..n - 1 /\ j \in 1..Len(a) + Len(b)
    BY <1>1, <1>5, <1>6, <1>7
  <2>2. CASE j <= i - 1
    <3>1. t[j] = a[j] /\ a[j] = rows[1 + j - 1] /\ 1 + j - 1 = j /\ j \in 1..n
      BY <1>1, <1>3, <1>5, <1>7, <2>1, <2>2
    <3>. QED BY <1>1, <3>1
  <2>3. CASE ~(j <= i - 1)
    <3>1. j - (i - 1) \in 1..n - (i + 1) + 1 /\ i + 1 + (j - (i - 1)) - 1 \in 1..n
      BY <1>1, <1>7, <2>1, <2>3
    <3>2. t[j] = b[j - (i - 1)]
      BY <1>5, <1>7, <2>1, <2>3
    <3>3. t[j] = rows[i + 1 + (j - (i - 1)) - 1]
      BY <1>4, <3>1, <3>2
    <3>. QED BY <1>1, <3>1, <3>3
  <2>. QED BY <2>2, <2>3
<1>9. IsList(t)
  BY <1>5, ListOf
<1>10. MadeOf(t, rows, e)
  BY <1>8, <1>9 DEF MadeOf
<1>. QED BY <1>10 DEF t, a, b, n, RemoveAt

LEMMA AppendedIs ==
  ASSUME NEW rows, IsList(rows), NEW e
  PROVE  MadeOf(Append(rows, e), rows, e)
<1>. DEFINE S == ToSet(rows) \cup {e}
            t == Append(rows, e)
<1>1. rows \in Seq(ToSet(rows)) /\ DOMAIN rows = 1..Len(rows) /\ Len(rows) \in Nat
  BY ListIs
<1>2. rows \in Seq(S)
  BY <1>1, SeqMonotonic
<1>3. /\ t \in Seq(S) /\ DOMAIN t = 1..Len(rows) + 1
      /\ \A j \in 1..Len(rows) + 1 : t[j] = IF j <= Len(rows) THEN rows[j] ELSE e
  BY <1>1, <1>2
<1>. HIDE DEF t
<1>4. IsList(t)
  BY <1>3, ListOf
<1>. QED BY <1>1, <1>3, <1>4 DEF MadeOf, t

LEMMA HeldReplaced ==
  ASSUME NEW p, NEW rows, Held(p, rows), NEW i \in DOMAIN rows, NEW e, RowAsMeasured(p, e)
  PROVE  Held(p, ReplaceAt(rows, i, e))
<1>1. MadeOf(ReplaceAt(rows, i, e), rows, e)
  BY ReplacedIs DEF Held
<1>. QED BY <1>1, Zenon DEF Held, MadeOf

LEMMA HeldMore ==
  ASSUME NEW p, NEW rows, Held(p, rows), NEW e, RowAsMeasured(p, e)
  PROVE  Held(p, Append(rows, e))
<1>1. MadeOf(Append(rows, e), rows, e)
  BY AppendedIs DEF Held
<1>. QED BY <1>1, Zenon DEF Held, MadeOf

LEMMA HeldWithout ==
  ASSUME NEW p, NEW rows, Held(p, rows), NEW t \in RowsLess(rows)
  PROVE  Held(p, t)
<1>1. PICK i \in DOMAIN rows : t = RemoveAt(rows, i)
  BY DEF RowsLess
<1>2. MadeOf(t, rows, rows[i])
  BY <1>1, RemovedIs DEF Held
<1>. QED BY <1>2, Zenon DEF Held, MadeOf

-----------------------------------------------------------------------------
(* Only one field of a submission is another.                              *)
Besides(field, s, t) == DOMAIN t = DOMAIN s /\ \A k \in DOMAIN s : k # field => t[k] = s[k]

(* The check, but not where its rows are, nor whether the catalog parses.  *)
OtherCheck(s, t) ==
  /\ Besides("check", s, t)
  /\ Get(t.check, "rows_key") = Get(s.check, "rows_key")
  /\ CatalogRead(s.check) => CatalogRead(t.check)

(* The artifact, but not its rows.                                         *)
OtherArtifact(s, t) ==
  /\ Besides("artifact", s, t)
  /\ RowsKey(s) \in DOMAIN t.artifact /\ t.artifact[RowsKey(s)] = s.artifact[RowsKey(s)]

(* The rows.                                                               *)
OtherRows(s, t) ==
  /\ Besides("artifact", s, t)
  /\ RowsKey(s) \in DOMAIN t.artifact /\ Held(s.profile, t.artifact[RowsKey(s)])

(* A key of the check set or left out; expected numbers, a headline.       *)
LEMMA ChecksSet ==
  ASSUME NEW s, "check" \in DOMAIN s, NEW key, key # "rows_key", NEW values, NEW t \in Checks(s, key, values),
         key = "catalog" => \A v \in values : v \in {None, Junk} \/ IsList(v)
  PROVE  OtherCheck(s, t)
<1>1. PICK v \in values : t = [s EXCEPT !.check = With(s.check, key, v)]
  BY DEF Checks
<1>2. Besides("check", s, t) /\ t.check = With(s.check, key, v)
  BY <1>1 DEF Besides
<1>3. /\ "rows_key" \in DOMAIN t.check <=> "rows_key" \in DOMAIN s.check
      /\ "rows_key" \in DOMAIN s.check => t.check["rows_key"] = s.check["rows_key"]
  <2>1. /\ DOMAIN t.check = DOMAIN s.check \cup {key}
        /\ \A k \in DOMAIN s.check : k # key => t.check[k] = s.check[k]
    BY <1>2 DEF With, Join
  <2>. QED BY <2>1
<1>4. Get(t.check, "rows_key") = Get(s.check, "rows_key")
  BY <1>3, Zenon DEF Get
<1>5. CatalogRead(s.check) => CatalogRead(t.check)
  <2>1. CASE key = "catalog"
    <3>1. "catalog" \in DOMAIN t.check /\ t.check["catalog"] = v
      BY <1>2, <2>1 DEF With, Join
    <3>2. Get(t.check, "catalog") = v
      BY <3>1, Zenon DEF Get
    <3>. QED BY <2>1, <3>2 DEF CatalogRead
  <2>2. CASE key # "catalog"
    <3>1. /\ "catalog" \in DOMAIN t.check <=> "catalog" \in DOMAIN s.check
          /\ "catalog" \in DOMAIN s.check => t.check["catalog"] = s.check["catalog"]
      <4>1. /\ DOMAIN t.check = DOMAIN s.check \cup {key}
            /\ \A k \in DOMAIN s.check : k # key => t.check[k] = s.check[k]
        BY <1>2 DEF With, Join
      <4>. QED BY <2>2, <4>1
    <3>2. Get(t.check, "catalog") = Get(s.check, "catalog")
      BY <3>1, Zenon DEF Get
    <3>. QED BY <3>2 DEF CatalogRead
  <2>. QED BY <2>1, <2>2
<1>. QED BY <1>2, <1>4, <1>5 DEF OtherCheck

LEMMA CheckCut ==
  ASSUME NEW s, "check" \in DOMAIN s, NEW key, key # "rows_key", NEW t, t = [s EXCEPT !.check = Without(@, key)]
  PROVE  OtherCheck(s, t)
<1>1. Besides("check", s, t) /\ t.check = Without(s.check, key)
  BY DEF Besides
<1>2. /\ "rows_key" \in DOMAIN t.check <=> "rows_key" \in DOMAIN s.check
      /\ "rows_key" \in DOMAIN s.check => t.check["rows_key"] = s.check["rows_key"]
  <2>1. /\ DOMAIN t.check = DOMAIN s.check \ {key}
        /\ \A k \in DOMAIN s.check : k # key => t.check[k] = s.check[k]
    BY <1>1 DEF Without
  <2>. QED BY <2>1
<1>3. Get(t.check, "rows_key") = Get(s.check, "rows_key")
  BY <1>2, Zenon DEF Get
<1>4. Get(t.check, "catalog") \in {None, Get(s.check, "catalog")}
  <2>1. /\ DOMAIN t.check = DOMAIN s.check \ {key}
        /\ \A k \in DOMAIN s.check : k # key => t.check[k] = s.check[k]
    BY <1>1 DEF Without
  <2>2. "catalog" \in DOMAIN t.check => "catalog" \in DOMAIN s.check /\ t.check["catalog"] = s.check["catalog"]
    BY <2>1
  <2>. QED BY <2>2, Zenon DEF Get
<1>5. CatalogRead(s.check) => CatalogRead(t.check)
  BY <1>4, Zenon DEF CatalogRead
<1>. QED BY <1>1, <1>3, <1>5 DEF OtherCheck

LEMMA ExpectEdited ==
  ASSUME NEW s, "check" \in DOMAIN s, NEW t \in ExpectEdits(s)
  PROVE  OtherCheck(s, t)
<1>1. \/ t = [s EXCEPT !.check = Without(@, "expect")]
      \/ \E values : t \in Checks(s, "expect", values)
  BY DEF ExpectEdits
<1>. QED BY <1>1, ChecksSet, CheckCut

LEMMA HeadlineEdited ==
  ASSUME NEW s, "check" \in DOMAIN s, NEW t \in HeadlineEdits(s)
  PROVE  OtherCheck(s, t)
<1>1. \E values : t \in Checks(s, "render", values)
  BY DEF HeadlineEdits
<1>. QED BY <1>1, ChecksSet

(* A key of the artifact set; not the rows, the rows; a stamp.             *)
LEMMA ArtifactsSet ==
  ASSUME NEW s, "artifact" \in DOMAIN s, NEW key, NEW values, NEW t \in Artifacts(s, key, values)
  PROVE  \E v \in values : /\ Besides("artifact", s, t) /\ key \in DOMAIN t.artifact /\ t.artifact[key] = v
                           /\ DOMAIN s.artifact \subseteq DOMAIN t.artifact
                           /\ \A k \in DOMAIN s.artifact : k # key => t.artifact[k] = s.artifact[k]
<1>1. PICK v \in values : t = [s EXCEPT !.artifact = With(s.artifact, key, v)]
  BY DEF Artifacts
<1>2. Besides("artifact", s, t) /\ t.artifact = With(s.artifact, key, v)
  BY <1>1 DEF Besides
<1>3. /\ key \in DOMAIN t.artifact /\ t.artifact[key] = v /\ DOMAIN s.artifact \subseteq DOMAIN t.artifact
      /\ \A k \in DOMAIN s.artifact : k # key => t.artifact[k] = s.artifact[k]
  BY <1>2 DEF With, Join
<1>. QED BY <1>2, <1>3

LEMMA FieldSet ==
  ASSUME NEW s, "artifact" \in DOMAIN s, RowsKey(s) \in DOMAIN s.artifact,
         NEW key, key # RowsKey(s), NEW values, NEW t \in Artifacts(s, key, values)
  PROVE  OtherArtifact(s, t)
BY ArtifactsSet DEF OtherArtifact

LEMMA RowsSet ==
  ASSUME NEW s, "artifact" \in DOMAIN s, NEW values, \A v \in values : Held(s.profile, v),
         NEW t \in Artifacts(s, RowsKey(s), values)
  PROVE  OtherRows(s, t)
BY ArtifactsSet DEF OtherRows

LEMMA StampRewritten ==
  ASSUME NEW s, "artifact" \in DOMAIN s, RowsKey(s) \in DOMAIN s.artifact,
         NEW keys, RowsKey(s) \notin keys, NEW value,
         NEW t \in {[s EXCEPT !.artifact = a] : a \in Rewrites(s.artifact, keys, value)}
  PROVE  OtherArtifact(s, t)
<1>1. PICK a \in Rewrites(s.artifact, keys, value) : t = [s EXCEPT !.artifact = a]
  OBVIOUS
<1>2. Besides("artifact", s, t) /\ t.artifact = a
  BY <1>1 DEF Besides
<1>3. PICK k \in keys : a = Without(s.artifact, k) \/ a = With(s.artifact, k, value)
  BY DEF Rewrites
<1>4. k # RowsKey(s)
  OBVIOUS
<1>5. /\ DOMAIN s.artifact \ {k} \subseteq DOMAIN a
      /\ \A j \in DOMAIN s.artifact : j # k => a[j] = s.artifact[j]
  BY <1>3 DEF With, Join, Without
<1>6. RowsKey(s) \in DOMAIN a /\ a[RowsKey(s)] = s.artifact[RowsKey(s)]
  BY <1>4, <1>5
<1>. QED BY <1>2, <1>6 DEF OtherArtifact

(* None of them leaves what AsMeasured asks.                               *)
LEMMA StillAsMeasured ==
  ASSUME NEW s, AsMeasured(s), s.profile \notin {"fleet", "modeldrift"}, NEW t,
         OtherCheck(s, t) \/ OtherArtifact(s, t) \/ OtherRows(s, t)
  PROVE  AsMeasured(t)
<1>1. t.profile = s.profile /\ DOMAIN t = DOMAIN s
  BY DEF AsMeasured, OtherCheck, OtherArtifact, OtherRows, Besides
<1>2. RowsKey(t) = RowsKey(s)
  <2>1. s.profile = "rows" => t.bare = s.bare /\ Get(t.check, "rows_key") = Get(s.check, "rows_key")
    BY DEF AsMeasured, OtherCheck, OtherArtifact, OtherRows, Besides
  <2>2. s.profile = "rows" => RowsAt(t) = RowsAt(s)
    BY <2>1 DEF RowsAt
  <2>3. s.profile \in {"certlab", "evalmut", "crashkit", "variance", "rows"}
    BY DEF AsMeasured
  <2>. QED BY <1>1, <2>2, <2>3 DEF RowsKey
<1>3. /\ RowsKey(s) \in DOMAIN t.artifact /\ Held(s.profile, t.artifact[RowsKey(s)])
  <2>1. RowsKey(s) \in DOMAIN s.artifact /\ Held(s.profile, s.artifact[RowsKey(s)]) /\ "artifact" \in DOMAIN s
    BY DEF AsMeasured, MeasuredRows, Held
  <2>2. CASE OtherCheck(s, t)
    BY <2>1, <2>2 DEF OtherCheck, Besides
  <2>3. CASE OtherArtifact(s, t)
    BY <2>1, <2>3 DEF OtherArtifact
  <2>4. CASE OtherRows(s, t)
    BY <2>4 DEF OtherRows
  <2>. QED BY <2>2, <2>3, <2>4
<1>4. s.profile = "certlab" => "verdicts" \notin DOMAIN t.hashes
  <2>1. t.hashes = s.hashes
    BY DEF AsMeasured, OtherCheck, OtherArtifact, OtherRows, Besides
  <2>. QED BY <2>1 DEF AsMeasured
<1>5. s.profile = "evalmut" => CatalogRead(t.check)
  <2>1. t.check = s.check \/ (CatalogRead(s.check) => CatalogRead(t.check))
    BY DEF AsMeasured, OtherCheck, OtherArtifact, OtherRows, Besides
  <2>. QED BY <2>1 DEF AsMeasured
<1>. QED BY <1>1, <1>2, <1>3, <1>4, <1>5 DEF AsMeasured, MeasuredRows, Held

(* certlab: the rows stay.                                                 *)
LEMMA CertlabEdited ==
  ASSUME NEW s, AsMeasured(s), s.profile = "certlab", NEW t \in CertlabEdits(s)
  PROVE  AsMeasured(t)
<1>. DEFINE stamps == DOMAIN s.hashes \cup (IF s.commit = None THEN {} ELSE {"harness_commit"})
<1>1. /\ RowsKey(s) = "verdicts" /\ "verdicts" \in DOMAIN s.artifact
      /\ {"artifact", "check"} \subseteq DOMAIN s /\ "verdicts" \notin stamps
  BY DEF AsMeasured, RowsKey
<1>2. \/ t \in ExpectEdits(s)
      \/ t \in HeadlineEdits(s)
      \/ t \in {[s EXCEPT !.artifact = a] : a \in Rewrites(s.artifact, stamps, "other")}
  BY DEF CertlabEdits
<1>. HIDE DEF stamps
<1>3. OtherCheck(s, t) \/ OtherArtifact(s, t)
  BY <1>1, <1>2, ExpectEdited, HeadlineEdited, StampRewritten
<1>. QED BY <1>3, StillAsMeasured

(* variance: rows of any shape.                                            *)
LEMMA VarianceEdited ==
  ASSUME NEW s, AsMeasured(s), s.profile = "variance", NEW t \in VarianceEdits(s)
  PROVE  AsMeasured(t)
<1>. DEFINE rows == s.artifact["per_task"]
            metrics == UNION {Rewrites(s.artifact["metrics"], {k}, 9) : k \in DOMAIN s.artifact["metrics"]}
            more == RowsLess(rows)
             \cup RowsChanged(rows, LAMBDA r : With(r, "passes", r["passes"] + 1))
             \cup RowsChanged(rows, LAMBDA r : With(r, "flaky", ~ r["flaky"]))
             \cup RowsChanged(rows, LAMBDA r : With(r, "severity", "Critical"))
             \cup RowsChanged(rows, LAMBDA r : With(r, "severity", Junk))
<1>1. /\ RowsKey(s) = "per_task" /\ "per_task" \in DOMAIN s.artifact /\ Held("variance", rows)
      /\ {"artifact", "check"} \subseteq DOMAIN s
  BY DEF AsMeasured, RowsKey, MeasuredRows, Held
<1>2. \/ t \in Artifacts(s, "metrics", metrics)
      \/ t \in {[s EXCEPT !.artifact = a] : a \in Rewrites(s.artifact, {"n"}, 9)}
      \/ t \in Artifacts(s, "per_task", more)
  BY DEF VarianceEdits
<1>3. \A v \in more : Held("variance", v)
  <2>1. \A e : RowAsMeasured("variance", e)
    BY DEF RowAsMeasured
  <2>2. \A v \in more : v \in RowsLess(rows) \/ \E i \in DOMAIN rows : \E e : v = ReplaceAt(rows, i, e)
    BY DEF RowsChanged
  <2>. HIDE DEF rows, more
  <2>. QED BY <1>1, <2>1, <2>2, HeldWithout, HeldReplaced
<1>. HIDE DEF metrics, more, rows
<1>4. OtherCheck(s, t) \/ OtherArtifact(s, t) \/ OtherRows(s, t)
  BY <1>1, <1>2, <1>3, FieldSet, RowsSet, StampRewritten
<1>. QED BY <1>4, StillAsMeasured

(* crashkit: rows of any shape.                                            *)
LEMMA CrashkitEdited ==
  ASSUME NEW s, AsMeasured(s), s.profile = "crashkit", NEW t \in CrashkitEdits(s)
  PROVE  AsMeasured(t)
<1>. DEFINE cases == s.artifact["cases"]
            metrics == UNION {Rewrites(s.artifact["metrics"], {k}, 9) : k \in DOMAIN s.artifact["metrics"]}
            kinds == UNION {Rewrites(s.artifact["per_kind"], {k}, 9) : k \in DOMAIN s.artifact["per_kind"]}
            Changed(Change(_)) == {ReplaceAt(cases, i, Change(cases[i])) :
                                     i \in {i \in DOMAIN cases : cases[i]["truncated"] = FALSE}}
            more == RowsLess(cases)
               \cup RowsChanged(cases, LAMBDA c : With(c, "flagged", ~ c["flagged"]))
               \cup RowsChanged(cases, LAMBDA c : With(c, "truncated", None))
               \cup Changed(LAMBDA c : With(c, "severity", "Critical"))
               \cup Changed(LAMBDA c : With(c, "severity", Junk))
               \cup Changed(LAMBDA c : With(c, "passed", ~ c["passed"]))
<1>1. /\ RowsKey(s) = "cases" /\ "cases" \in DOMAIN s.artifact /\ Held("crashkit", cases)
      /\ {"artifact", "check"} \subseteq DOMAIN s
  BY DEF AsMeasured, RowsKey, MeasuredRows, Held
<1>2. \/ t \in ExpectEdits(s)
      \/ t = [s EXCEPT !.check = Without(@, "battery_hash_key")]
      \/ t \in {[s EXCEPT !.artifact = a] : a \in Rewrites(s.artifact, {"git_sha"}, "other")}
      \/ t \in Artifacts(s, "metrics", metrics)
      \/ t \in Artifacts(s, "per_kind", kinds)
      \/ t \in Artifacts(s, "cases", more)
  BY DEF CrashkitEdits
<1>3. \A v \in more : Held("crashkit", v)
  <2>1. \A e : RowAsMeasured("crashkit", e)
    BY DEF RowAsMeasured
  <2>2. \A v \in more : v \in RowsLess(cases) \/ \E i \in DOMAIN cases : \E e : v = ReplaceAt(cases, i, e)
    BY DEF RowsChanged
  <2>. HIDE DEF cases, more
  <2>. QED BY <1>1, <2>1, <2>2, HeldWithout, HeldReplaced
<1>. HIDE DEF metrics, kinds, more, cases
<1>4. OtherCheck(s, t) \/ OtherArtifact(s, t) \/ OtherRows(s, t)
  BY <1>1, <1>2, <1>3, ExpectEdited, CheckCut, FieldSet, RowsSet, StampRewritten
<1>. QED BY <1>4, StillAsMeasured

(* evalmut: an outcome, an operator or a case name is another.             *)
LEMMA EvalmutEdited ==
  ASSUME NEW s, AsMeasured(s), s.profile = "evalmut", NEW t \in EvalmutEdits(s)
  PROVE  AsMeasured(t)
<1>. DEFINE rows == s.artifact["results"]
            cat  == Get(s.check, "catalog")
            fix  == Get(s.check, "fixtures")
            tallies == UNION {Rewrites(s.artifact["tally"], {k}, 9) : k \in Outcome}
            scores == {0, Unit} \ {Get(s.artifact, "score")}
            holes == UNION {{With(s.artifact["holes"], class, less) :
               less \in RowsLess(s.artifact["holes"][class])} : class \in DOMAIN HoleClass}
            more == RowsLess(rows)
               \cup ({ReplaceAt(rows, i, With(rows[i], "outcome", o)) :
                        i \in DOMAIN rows, o \in {"caught", "missed"}} \ {rows})
            ids == RowsChanged(rows, LAMBDA r : With(r, "operator_id", Junk))
            names == RowsChanged(rows, LAMBDA r : With(r, "case_name", Junk))
            cats == {Junk} \cup RowsLess(cat)
                          \cup RowsChanged(cat, LAMBDA o : Without(o, "real_origin"))
                          \cup RowsChanged(cat, LAMBDA o : With(o, "polarity", "other"))
            fixes == {Junk, With(fix, "manifest_version", 2), With(fix, "case_count", 9)}
                          \cup {With(fix, "cases", less) : less \in RowsLess(fix["cases"])}
<1>1. /\ RowsKey(s) = "results" /\ "results" \in DOMAIN s.artifact /\ Held("evalmut", rows)
      /\ {"artifact", "check"} \subseteq DOMAIN s
  BY DEF AsMeasured, RowsKey, MeasuredRows, Held
<1>2. \/ t \in ExpectEdits(s) \/ t \in HeadlineEdits(s)
      \/ t \in Artifacts(s, "tally", tallies) \/ t \in Artifacts(s, "score", scores)
      \/ t \in Artifacts(s, "holes", holes) \/ t \in Artifacts(s, "results", more)
      \/ t \in Artifacts(s, "results", ids) \/ t \in Artifacts(s, "results", names)
      \/ cat \notin {None, Junk} /\ t \in Checks(s, "catalog", cats)
      \/ t \in Checks(s, "fixtures", fixes)
  BY DEF EvalmutEdits
<1>3. \A v \in more \cup ids \cup names : Held("evalmut", v)
  <2>1. ASSUME NEW i \in DOMAIN rows, NEW k, NEW e PROVE RowAsMeasured("evalmut", With(rows[i], k, e))
    BY <1>1 DEF Held, RowAsMeasured, With, Join
  <2>2. \A v \in more \cup ids \cup names :
           v \in RowsLess(rows) \/ \E i \in DOMAIN rows : \E k, e : v = ReplaceAt(rows, i, With(rows[i], k, e))
    BY DEF RowsChanged
  <2>. HIDE DEF rows, more, ids, names
  <2>. QED BY <1>1, <2>1, <2>2, HeldWithout, HeldReplaced
<1>4. cat \notin {None, Junk} => \A v \in cats : v \in {None, Junk} \/ IsList(v)
  <2>. SUFFICES ASSUME cat \notin {None, Junk}, NEW v \in cats, v # Junk PROVE IsList(v)
    OBVIOUS
  <2>1. \A e : RowAsMeasured("variance", e)
    BY DEF RowAsMeasured
  <2>2. IsList(cat)
    BY DEF AsMeasured, CatalogRead
  <2>3. v \in RowsLess(cat) \/ \E i \in DOMAIN cat : \E e : v = ReplaceAt(cat, i, e)
    BY DEF RowsChanged
  <2>. HIDE DEF cat, cats
  <2>4. Held("variance", cat)
    BY <2>1, <2>2 DEF Held
  <2>5. Held("variance", v)
    BY <2>1, <2>3, <2>4, HeldWithout, HeldReplaced
  <2>. QED BY <2>5 DEF Held
<1>. HIDE DEF rows, cat, fix, tallies, scores, holes, more, ids, names, cats, fixes
<1>5. OtherCheck(s, t) \/ OtherArtifact(s, t) \/ OtherRows(s, t)
  BY <1>1, <1>2, <1>3, <1>4, ExpectEdited, HeadlineEdited, ChecksSet, FieldSet, RowsSet
<1>. QED BY <1>5, StillAsMeasured

(* rows: a field is left out, or holds a text.                             *)
LEMMA RowsEdited ==
  ASSUME NEW s, AsMeasured(s), s.profile = "rows", NEW t \in RowsEdits(s)
  PROVE  AsMeasured(t)
<1>. DEFINE key  == RowsAt(s)
            rows == s.artifact[key]
            recipe == s.check["recompute"]
            read   == {Get(recipe[k], "field") : k \in DOMAIN recipe} \ {None}
            text == [type |-> "text", value |-> 0]
            more == {<<>>} \cup RowsLess(rows)
             \cup (UNION {RowsChanged(rows, LAMBDA r : Without(r, k)) : k \in read})
             \cup (UNION {RowsChanged(rows, LAMBDA r : With(r, k, text)) : k \in read})
            recipes == {Without(recipe, k) : k \in DOMAIN recipe}
             \cup {With(recipe, k, With(recipe[k], "op", "median")) : k \in DOMAIN recipe}
<1>1. /\ RowsKey(s) = key /\ key \in DOMAIN s.artifact /\ Held("rows", rows)
      /\ {"artifact", "check"} \subseteq DOMAIN s
  BY DEF AsMeasured, RowsKey, MeasuredRows, Held
<1>2. \/ t \in ExpectEdits(s)
      \/ t \in Artifacts(s, key, more)
      \/ t \in Checks(s, "recompute", recipes)
  BY DEF RowsEdits
<1>3. \A v \in more : Held("rows", v)
  <2>1. ASSUME NEW i \in DOMAIN rows, NEW k
        PROVE  RowAsMeasured("rows", Without(rows[i], k)) /\ RowAsMeasured("rows", With(rows[i], k, text))
    <3>1. \A j \in DOMAIN rows[i] : rows[i][j].type \in {"number", "bool"} => rows[i][j].value \in Int
      BY <1>1 DEF Held, RowAsMeasured
    <3>2. text.type \notin {"number", "bool"}
      OBVIOUS
    <3>. HIDE DEF text, rows
    <3>. QED BY <3>1, <3>2 DEF RowAsMeasured, With, Join, Without
  <2>2. Held("rows", <<>>)
    <3>1. <<>> \in Seq({}) /\ DOMAIN <<>> = {}
      OBVIOUS
    <3>2. IsList(<<>>)
      BY <3>1, ListOf
    <3>. QED BY <3>1, <3>2 DEF Held
  <2>3. \A v \in more : \/ v = <<>> \/ v \in RowsLess(rows)
                        \/ \E i \in DOMAIN rows : \E k : \/ v = ReplaceAt(rows, i, Without(rows[i], k))
                                                     \/ v = ReplaceAt(rows, i, With(rows[i], k, text))
    BY DEF RowsChanged
  <2>. HIDE DEF text, rows, more
  <2>. QED BY <1>1, <2>1, <2>2, <2>3, HeldWithout, HeldReplaced
<1>. HIDE DEF recipes, more, rows, key
<1>4. OtherCheck(s, t) \/ OtherArtifact(s, t) \/ OtherRows(s, t)
  BY <1>1, <1>2, <1>3, ExpectEdited, ChecksSet, RowsSet
<1>. QED BY <1>4, StillAsMeasured

(* fleet: the board's rows are a list still, and a stamp is not the rows.  *)
LEMMA FleetBoardEdited ==
  ASSUME NEW s, AsMeasured(s), s.profile = "fleet", NEW t \in FleetEdits(s)
  PROVE  FleetRowsAreRead(t)
<1>. DEFINE rows == s.artifact["rows"]
            stamps == DOMAIN s.hashes \cup (IF s.commit = None THEN {} ELSE {"fleet_commit"})
            cells == {"n", "detected", "false_alarms", "detection_rate"}
            more == RowsLess(rows) \cup {Append(rows, rows[i]) : i \in DOMAIN rows}
                 \cup (UNION {RowsChanged(rows, LAMBDA r : With(r, k, r[k] + 1)) : k \in cells})
                 \cup RowsChanged(rows, LAMBDA r : With(r, "suite", Junk))
<1>1. /\ {"artifact", "hashes", "raw"} \subseteq DOMAIN s
      /\ "rows" \in DOMAIN s.artifact /\ "rows" \notin DOMAIN s.hashes /\ IsList(rows)
  BY DEF AsMeasured, FleetRowsAreRead
<1>2. \/ t \in Artifacts(s, "rows", more)
      \/ \E lines : t = [s EXCEPT !.raw = lines]
      \/ t \in {[s EXCEPT !.artifact = a] : a \in Rewrites(s.artifact, stamps, "other")}
  BY DEF FleetEdits
<1>3. ASSUME NEW v \in more PROVE IsList(v)
  <2>1. \E i \in DOMAIN rows : \/ v = RemoveAt(rows, i) \/ v = Append(rows, rows[i])
                               \/ \E e : v = ReplaceAt(rows, i, e)
    <3>. DEFINE More(k) == {ReplaceAt(rows, i, With(rows[i], k, rows[i][k] + 1)) : i \in DOMAIN rows}
    <3>1. \/ v \in {RemoveAt(rows, i) : i \in DOMAIN rows} \/ v \in {Append(rows, rows[i]) : i \in DOMAIN rows}
          \/ v \in UNION {More(k) : k \in cells}
          \/ v \in {ReplaceAt(rows, i, With(rows[i], "suite", Junk)) : i \in DOMAIN rows}
      BY Zenon DEF RowsLess, RowsChanged
    <3>. HIDE DEF rows, cells, more
    <3>2. CASE v \in UNION {More(k) : k \in cells}
      <4>1. PICK k \in cells : v \in More(k)
        BY <3>2
      <4>2. PICK i \in DOMAIN rows : v = ReplaceAt(rows, i, With(rows[i], k, rows[i][k] + 1))
        BY <4>1
      <4>. QED BY <4>2
    <3>. QED BY <3>1, <3>2
  <2>2. PICK i \in DOMAIN rows : \/ v = RemoveAt(rows, i) \/ v = Append(rows, rows[i])
                                 \/ \E e : v = ReplaceAt(rows, i, e)
    BY <2>1
  <2>. HIDE DEF rows, cells, more
  <2>3. CASE v = RemoveAt(rows, i)
    BY <1>1, <2>3, RemovedIs DEF MadeOf
  <2>4. CASE v = Append(rows, rows[i])
    BY <1>1, <2>4, AppendedIs DEF MadeOf
  <2>5. CASE \E e : v = ReplaceAt(rows, i, e)
    BY <1>1, <2>5, ReplacedIs DEF MadeOf
  <2>. QED BY <2>2, <2>3, <2>4, <2>5
<1>4. "rows" \notin stamps
  BY <1>1
<1>. HIDE DEF more, stamps, rows
<1>5. CASE t \in Artifacts(s, "rows", more)
  <2>1. \E v \in more : Besides("artifact", s, t) /\ "rows" \in DOMAIN t.artifact /\ t.artifact["rows"] = v
    BY <1>1, <1>5, ArtifactsSet
  <2>. QED BY <1>1, <1>3, <2>1 DEF Besides, FleetRowsAreRead
<1>6. CASE \E lines : t = [s EXCEPT !.raw = lines]
  <2>1. DOMAIN t = DOMAIN s /\ t.hashes = s.hashes /\ t.artifact = s.artifact
    BY <1>1, <1>6
  <2>. QED BY <1>1, <2>1 DEF FleetRowsAreRead, rows
<1>7. CASE t \in {[s EXCEPT !.artifact = a] : a \in Rewrites(s.artifact, stamps, "other")}
  <2>1. PICK a \in Rewrites(s.artifact, stamps, "other") : t = [s EXCEPT !.artifact = a]
    BY <1>7
  <2>2. PICK k \in stamps : a = Without(s.artifact, k) \/ a = With(s.artifact, k, "other")
    BY DEF Rewrites
  <2>3. "rows" \in DOMAIN a /\ a["rows"] = rows
    BY <1>1, <1>4, <2>2 DEF With, Join, Without, rows
  <2>4. DOMAIN t = DOMAIN s /\ t.hashes = s.hashes /\ t.artifact = a
    BY <1>1, <2>1
  <2>. QED BY <1>1, <2>3, <2>4 DEF FleetRowsAreRead
<1>. QED BY <1>2, <1>5, <1>6, <1>7

(* fleet: the rows are the lines of the raw file.                          *)
LEMMA FleetEdited ==
  ASSUME NEW s, AsMeasured(s), s.profile = "fleet", NEW t \in FleetEdits(s)
  PROVE  AsMeasured(t)
<1>. DEFINE raw == s.raw
            less == RowsLess(raw)
            negated == RowsChanged(raw, LAMBDA l : With(l, "detected", ~ l["detected"]))
            others == RowsChanged(raw, LAMBDA l : With(l, "member", Junk))
            doubled == {Append(raw, raw[i]) : i \in DOMAIN raw}
<1>1. Held("fleet", raw) /\ {"profile", "check", "hashes", "raw"} \subseteq DOMAIN s
  BY DEF AsMeasured, MeasuredRows, Held
<1>2. \/ \E a : t = [s EXCEPT !.artifact = a]
      \/ \E lines \in less \cup negated \cup others \cup doubled : t = [s EXCEPT !.raw = lines]
  BY DEF FleetEdits, Artifacts
<1>3. \A lines \in less \cup negated \cup others \cup doubled : Held("fleet", lines)
  <2>1. ASSUME NEW i \in DOMAIN raw
        PROVE  /\ RowAsMeasured("fleet", raw[i])
               /\ RowAsMeasured("fleet", With(raw[i], "member", Junk))
               /\ RowAsMeasured("fleet", With(raw[i], "detected", ~ raw[i]["detected"]))
    <3>1. /\ RowAsMeasured("fleet", raw[i])
          /\ {"suite", "member", "detected", "clean_passed"} \subseteq DOMAIN raw[i]
          /\ raw[i]["detected"] \in BOOLEAN /\ raw[i]["clean_passed"] \in BOOLEAN
      BY <1>1 DEF Held, RowAsMeasured, Flagged
    <3>. HIDE DEF raw
    <3>2. RowAsMeasured("fleet", With(raw[i], "member", Junk))
      BY <3>1 DEF RowAsMeasured, Flagged, With, Join
    <3>3. (~ raw[i]["detected"]) \in BOOLEAN
      OBVIOUS
    <3>. DEFINE b == ~ raw[i]["detected"]
    <3>. HIDE DEF b
    <3>4. RowAsMeasured("fleet", With(raw[i], "detected", b))
      BY <3>1, <3>3 DEF RowAsMeasured, Flagged, With, Join, b
    <3>. QED BY <3>1, <3>2, <3>4 DEF b
  <2>2. \A lines \in less \cup negated \cup others \cup doubled :
           \/ lines \in RowsLess(raw)
           \/ \E i \in DOMAIN raw : \/ lines = ReplaceAt(raw, i, With(raw[i], "member", Junk))
                                    \/ lines = ReplaceAt(raw, i, With(raw[i], "detected", ~ raw[i]["detected"]))
                                    \/ lines = Append(raw, raw[i])
    BY DEF RowsChanged
  <2>3. ASSUME NEW lines \in less \cup negated \cup others \cup doubled PROVE Held("fleet", lines)
    <3>. HIDE DEF raw, less, negated, others, doubled
    <3>1. CASE lines \in RowsLess(raw)
      BY <1>1, <3>1, HeldWithout
    <3>2. CASE lines \notin RowsLess(raw)
      <4>1. PICK i \in DOMAIN raw : \/ lines = ReplaceAt(raw, i, With(raw[i], "member", Junk))
                                    \/ lines = ReplaceAt(raw, i, With(raw[i], "detected", ~ raw[i]["detected"]))
                                    \/ lines = Append(raw, raw[i])
        BY <2>2, <3>2
      <4>2. CASE lines = ReplaceAt(raw, i, With(raw[i], "member", Junk))
        BY <1>1, <2>1, <4>2, HeldReplaced
      <4>3. CASE lines = ReplaceAt(raw, i, With(raw[i], "detected", ~ raw[i]["detected"]))
        BY <1>1, <2>1, <4>3, HeldReplaced
      <4>4. CASE lines = Append(raw, raw[i])
        BY <1>1, <2>1, <4>4, HeldMore
      <4>. QED BY <4>1, <4>2, <4>3, <4>4
    <3>. QED BY <3>1, <3>2
  <2>. QED BY <2>3
<1>4. /\ DOMAIN t = DOMAIN s /\ t.profile = s.profile
      /\ t.raw = raw \/ Held("fleet", t.raw)
  <2>. HIDE DEF less, negated, others, doubled
  <2>. QED BY <1>1, <1>2, <1>3
<1>5. Held("fleet", t.raw)
  BY <1>1, <1>4
<1>6. FleetRowsAreRead(t)
  BY FleetBoardEdited
<1>. HIDE DEF raw
<1>. QED BY <1>1, <1>4, <1>5, <1>6 DEF AsMeasured, MeasuredRows, Held

(* A board in which every file that is asked for is what it should be.     *)
PointRead(p) == "t" \in DOMAIN p /\ p["t"] \in Int \cup {Junk}

PointsRead(points) == IsList(points) /\ \A i \in DOMAIN points : PointRead(points[i])

SeriesRead(series) ==
  /\ IsFiniteSet(DOMAIN series) /\ series = [m \in DOMAIN series |-> series[m]]
  /\ \A m \in DOMAIN series : PointsRead(series[m])

MetricsRead(metrics) == "series" \in DOMAIN metrics /\ SeriesRead(metrics["series"])
SuiteRead(suite)     == "task_ids" \in DOMAIN suite /\ IsList(suite["task_ids"]) /\ suite["task_ids"] # <<>>
NarrativeRead(text)  == /\ "sentences" \in DOMAIN text /\ text["sentences"] \in Nat
                        /\ "html" \in DOMAIN text /\ IsList(text["html"])

FilesRead(f) ==
  /\ BoardFiles \subseteq DOMAIN f
  /\ MetricsRead(f["metrics"]) /\ SuiteRead(f["fingerprint"]) /\ NarrativeRead(f["narrative"])
  /\ IsList(f["registry"])

LEMMA FilesAreRead ==
  ASSUME NEW f
  PROVE  BoardRead(f) <=> (\E file \in DOMAIN f : f[file] = None) \/ FilesRead(f)
<1>1. MetricsRead(f["metrics"]) <=>
        /\ "series" \in DOMAIN f["metrics"] /\ IsFiniteSet(DOMAIN f["metrics"]["series"])
        /\ f["metrics"]["series"] = [m \in DOMAIN f["metrics"]["series"] |-> f["metrics"]["series"][m]]
        /\ \A m \in DOMAIN f["metrics"]["series"] :
             /\ IsList(f["metrics"]["series"][m])
             /\ \A i \in DOMAIN f["metrics"]["series"][m] :
                  "t" \in DOMAIN f["metrics"]["series"][m][i] /\ f["metrics"]["series"][m][i]["t"] \in Int \cup {Junk}
  BY Zenon DEF MetricsRead, SeriesRead, PointsRead, PointRead
<1>. QED BY <1>1, Zenon DEF BoardRead, FilesRead, SuiteRead, NarrativeRead

(* A point with another value is read, and so is its series.               *)
LEMMA PointReplaced ==
  ASSUME NEW points, PointsRead(points), NEW i \in DOMAIN points, NEW k, NEW v, k = "t" => v = Junk
  PROVE  PointsRead(ReplaceAt(points, i, With(points[i], k, v)))
<1>. DEFINE e == With(points[i], k, v)
            t == ReplaceAt(points, i, e)
<1>1. PointRead(points[i])
  BY DEF PointsRead
<1>2. PointRead(e)
  BY <1>1 DEF PointRead, With, Join
<1>. HIDE DEF e
<1>3. Held("modeldrift", points) /\ RowAsMeasured("modeldrift", e)
  BY DEF Held, PointsRead, RowAsMeasured
<1>4. Held("modeldrift", t)
  BY <1>3, HeldReplaced
<1>5. IsList(t)
  BY <1>4 DEF Held
<1>6. DOMAIN t = DOMAIN points /\ \A j \in DOMAIN points : t[j] = IF j = i THEN e ELSE points[j]
  BY DEF ReplaceAt
<1>. HIDE DEF t
<1>7. PointsRead(t)
  BY <1>2, <1>5, <1>6 DEF PointsRead
<1>. QED BY <1>7 DEF t, e

LEMMA SeriesReplaced ==
  ASSUME NEW metrics, MetricsRead(metrics), NEW m \in DOMAIN metrics["series"], NEW points, PointsRead(points)
  PROVE  MetricsRead(With(metrics, "series", With(metrics["series"], m, points)))
<1>. DEFINE series == metrics["series"]
            more   == With(series, m, points)
<1>1. SeriesRead(series)
  BY DEF MetricsRead
<1>. HIDE DEF series
<1>2. /\ DOMAIN more = DOMAIN series \cup {m} /\ more[m] = points
      /\ \A k \in DOMAIN series : k # m => more[k] = series[k]
      /\ more = [k \in DOMAIN more |-> more[k]]
  BY DEF With, Join
<1>3. m \in DOMAIN series
  BY DEF series
<1>. HIDE DEF more
<1>4. DOMAIN more = DOMAIN series
  BY <1>2, <1>3
<1>5. \A k \in DOMAIN more : PointsRead(more[k])
  BY <1>1, <1>2, <1>4 DEF SeriesRead
<1>6. SeriesRead(more)
  BY <1>1, <1>2, <1>4, <1>5 DEF SeriesRead
<1>7. /\ "series" \in DOMAIN With(metrics, "series", more)
      /\ With(metrics, "series", more)["series"] = more
  BY DEF With, Join
<1>8. MetricsRead(With(metrics, "series", more))
  BY <1>6, <1>7 DEF MetricsRead
<1>. QED BY <1>8 DEF more, series

(* One file of a board is another.                                         *)
LEMMA FileReplaced ==
  ASSUME NEW f, FilesRead(f), NEW name, NEW c,
         name \notin {"metrics", "fingerprint", "narrative", "registry"}
           \/ (name = "metrics" /\ MetricsRead(c))
           \/ (name = "fingerprint" /\ SuiteRead(c))
           \/ (name = "narrative" /\ NarrativeRead(c))
  PROVE  FilesRead(With(f, name, c))
<1>. DEFINE g == With(f, name, c)
<1>1. /\ DOMAIN g = DOMAIN f \cup {name} /\ g[name] = c
      /\ \A k \in DOMAIN f : k # name => g[k] = f[k]
  BY DEF With, Join
<1>. HIDE DEF g
<1>2. {"metrics", "fingerprint", "narrative", "registry"} \subseteq DOMAIN f
  BY DEF FilesRead, BoardFiles
<1>3. BoardFiles \subseteq DOMAIN g
  BY <1>1 DEF FilesRead
<1>4. MetricsRead(g["metrics"])
  BY <1>1, <1>2 DEF FilesRead
<1>5. SuiteRead(g["fingerprint"])
  BY <1>1, <1>2 DEF FilesRead
<1>6. NarrativeRead(g["narrative"])
  BY <1>1, <1>2 DEF FilesRead
<1>7. IsList(g["registry"])
  BY <1>1, <1>2 DEF FilesRead
<1>. QED BY <1>3, <1>4, <1>5, <1>6, <1>7 DEF FilesRead, g

(* modeldrift: a file is another, or no file is.                           *)
LEMMA DriftEdited ==
  ASSUME NEW s, AsMeasured(s), s.profile = "modeldrift", NEW t \in DriftEdits(s)
  PROVE  AsMeasured(t)
<1>. DEFINE f     == s.files
            stand == f["standings"]
            mets  == f["metrics"]
            ser   == mets["series"]
            File(name, contents) == {[s EXCEPT !.files = With(f, name, c)] : c \in contents}
            Points(Change(_)) ==
              UNION {{With(mets, "series", With(ser, m, points)) : points \in RowsChanged(ser[m], Change)} : m \in DOMAIN ser}
            stands == {With(stand, "rows", rows) : rows \in RowsLess(stand["rows"])
                          \cup RowsChanged(stand["rows"], LAMBDA r : With(r, "acc", 1))
                          \cup RowsChanged(stand["rows"], LAMBDA r : With(r, "verdict", "steady"))
                          \cup RowsChanged(stand["rows"], LAMBDA r : With(r, "note", "x"))}
                        \cup Rewrites(stand, {"suite_hash"}, "other") \cup {With(stand, "note", "x")}
            flips  == {With(f["flips"], k, {}) : k \in {"repeat_offenders", "one_offs", "probe_alarms"}} \ {f["flips"]}
            tables == {None, [f["results_md"] EXCEPT !.lines = SubSeq(@, 2, Len(@))]}
            texts  == {[f["narrative"] EXCEPT !.claims_fired = @ + 1], [f["narrative"] EXCEPT !.html = Append(@, "x")]}
            suites == {[f["fingerprint"] EXCEPT !.tasks = @ + 1]}
            points == Points(LAMBDA p : With(p, "acc", Whole + 1))
                        \cup Points(LAMBDA p : With(p, "fails", {"no such task"}))
                        \cup Points(LAMBDA p : With(p, "reliability", None))
                        \cup Points(LAMBDA p : With(p, "t", Junk))
                        \cup Points(LAMBDA p : With(p, "out", {"latency_ms"}))
            floors == {Without(mets, "rel_floor")}
<1>1. /\ {"profile", "check", "hashes", "files", "version"} \subseteq DOMAIN s
      /\ BoardRead(s.files)
  BY DEF AsMeasured
<1>2. ~ \E name \in DOMAIN f : f[name] = None
  BY Zenon DEF DriftEdits
<1>3. FilesRead(f)
  BY <1>1, <1>2, FilesAreRead
<1>4. \/ t \in ExpectEdits(s)
      \/ t \in {[s EXCEPT !.hashes = h] : h \in Rewrites(s.hashes, {"suite_hash"}, "other")}
      \/ t \in File("standings", stands) \/ t \in File("flips", flips) \/ t \in File("results_md", tables)
      \/ t \in File("narrative", texts) \/ t \in File("fingerprint", suites) \/ t \in File("metrics", points)
      \/ t \in Checks(s, "rel_floor", {None, 10}) \/ t \in File("metrics", floors)
  BY <1>2, Zenon DEF DriftEdits
<1>5. ASSUME NEW name, NEW c, t = [s EXCEPT !.files = With(f, name, c)], FilesRead(With(f, name, c))
      PROVE  AsMeasured(t)
  <2>. DEFINE g == With(f, name, c)
  <2>. HIDE DEF g, f
  <2>1. BoardRead(g)
    BY <1>5, FilesAreRead DEF g
  <2>2. DOMAIN t = DOMAIN s /\ t.files = g /\ t.profile = s.profile
    BY <1>1, <1>5 DEF g
  <2>. QED BY <1>1, <2>1, <2>2 DEF AsMeasured
<1>6. ASSUME DOMAIN t = DOMAIN s, t.files = s.files, t.profile = s.profile PROVE AsMeasured(t)
  BY <1>1, <1>6 DEF AsMeasured
<1>7. \A c \in points : MetricsRead(c)
  <2>1. ASSUME NEW m \in DOMAIN ser, NEW i \in DOMAIN ser[m], NEW k, NEW v, k = "t" => v = Junk
        PROVE  MetricsRead(With(mets, "series", With(ser, m, ReplaceAt(ser[m], i, With(ser[m][i], k, v)))))
    <3>1. MetricsRead(mets) /\ PointsRead(ser[m])
      BY <1>3 DEF FilesRead, MetricsRead, SeriesRead
    <3>2. PointsRead(ReplaceAt(ser[m], i, With(ser[m][i], k, v)))
      <4>. HIDE DEF ser
      <4>. QED BY <2>1, <3>1, PointReplaced
    <3>. DEFINE p == ReplaceAt(ser[m], i, With(ser[m][i], k, v))
    <3>. HIDE DEF p
    <3>3. MetricsRead(With(mets, "series", With(mets["series"], m, p)))
      <4>. HIDE DEF mets
      <4>. QED BY <3>1, <3>2, SeriesReplaced DEF p
    <3>. QED BY <3>3 DEF p
  <2>2. ASSUME NEW c \in points
        PROVE  \E m \in DOMAIN ser : \E i \in DOMAIN ser[m] : \E k, v :
                 (k = "t" => v = Junk) /\ c = With(mets, "series", With(ser, m, ReplaceAt(ser[m], i, With(ser[m][i], k, v))))
    <3>. DEFINE Moved(k, v) == UNION {{With(mets, "series", With(ser, m, p)) :
                                     p \in {ReplaceAt(ser[m], i, With(ser[m][i], k, v)) : i \in DOMAIN ser[m]}} : m \in DOMAIN ser}
    <3>1. c \in Moved("acc", Whole + 1) \/ c \in Moved("fails", {"no such task"}) \/ c \in Moved("reliability", None)
            \/ c \in Moved("t", Junk) \/ c \in Moved("out", {"latency_ms"})
      BY Zenon DEF RowsChanged
    <3>2. ASSUME NEW k, NEW v, k = "t" => v = Junk, c \in Moved(k, v)
          PROVE  \E m \in DOMAIN ser : \E i \in DOMAIN ser[m] : 
                  c = With(mets, "series", With(ser, m, ReplaceAt(ser[m], i, With(ser[m][i], k, v))))
      <4>. HIDE DEF mets, ser, points
      <4>1. PICK m \in DOMAIN ser : c \in {With(mets, "series", With(ser, m, p)) :
                                          p \in {ReplaceAt(ser[m], i, With(ser[m][i], k, v)) : i \in DOMAIN ser[m]}}
        BY <3>2
      <4>2. PICK i \in DOMAIN ser[m] : c = With(mets, "series", With(ser, m, ReplaceAt(ser[m], i, With(ser[m][i], k, v))))
        BY <4>1
      <4>. QED BY <4>2
    <3>. HIDE DEF Moved, mets, ser, points
    <3>3. PICK k, v : (k = "t" => v = Junk) /\ c \in Moved(k, v)
      BY <3>1
    <3>4. PICK m \in DOMAIN ser : \E i \in DOMAIN ser[m] :
             c = With(mets, "series", With(ser, m, ReplaceAt(ser[m], i, With(ser[m][i], k, v))))
      BY <3>2, <3>3
    <3>. QED BY <3>3, <3>4, Zenon
  <2>. HIDE DEF points, ser, mets
  <2>. QED BY <2>1, <2>2
<1>8. \A c \in texts : NarrativeRead(c)
  <2>. DEFINE n == f["narrative"]
  <2>1. NarrativeRead(n)
    BY <1>3 DEF FilesRead
  <2>. HIDE DEF n
  <2>2. NarrativeRead([n EXCEPT !.claims_fired = @ + 1])
    BY <2>1 DEF NarrativeRead
  <2>. DEFINE html == n["html"]
  <2>3. IsList(Append(html, "x"))
    <3>1. IsList(html)
      BY <2>1 DEF NarrativeRead
    <3>. HIDE DEF html
    <3>. QED BY <3>1, AppendedIs DEF MadeOf
  <2>4. NarrativeRead([n EXCEPT !.html = Append(@, "x")])
    BY <2>1, <2>3 DEF NarrativeRead
  <2>. QED BY <2>2, <2>4 DEF n
<1>9. \A c \in suites : SuiteRead(c)
  <2>. DEFINE n == f["fingerprint"]
  <2>1. SuiteRead(n)
    BY <1>3 DEF FilesRead
  <2>. HIDE DEF n
  <2>2. SuiteRead([n EXCEPT !.tasks = @ + 1])
    BY <2>1 DEF SuiteRead
  <2>. QED BY <2>2 DEF n
<1>10. \A c \in floors : MetricsRead(c)
  <2>1. MetricsRead(mets)
    BY <1>3 DEF FilesRead
  <2>. HIDE DEF mets
  <2>2. MetricsRead(Without(mets, "rel_floor"))
    BY <2>1 DEF MetricsRead, Without
  <2>. QED BY <2>2
<1>. HIDE DEF stands, flips, tables, texts, suites, points, floors
<1>11. CASE t \in ExpectEdits(s) \/ t \in Checks(s, "rel_floor", {None, 10})
  <2>1. \E c : t = [s EXCEPT !.check = c]
    BY <1>11 DEF ExpectEdits, Checks
  <2>2. DOMAIN t = DOMAIN s /\ t.files = s.files /\ t.profile = s.profile
    BY <2>1
  <2>. QED BY <1>6, <2>2
<1>12. CASE t \in {[s EXCEPT !.hashes = h] : h \in Rewrites(s.hashes, {"suite_hash"}, "other")}
  <2>1. PICK h : t = [s EXCEPT !.hashes = h]
    BY <1>12, Zenon
  <2>2. DOMAIN t = DOMAIN s /\ t.files = s.files /\ t.profile = s.profile
    BY <2>1
  <2>. QED BY <1>6, <2>2
<1>13. CASE \/ t \in File("standings", stands) \/ t \in File("flips", flips) \/ t \in File("results_md", tables)
            \/ t \in File("narrative", texts) \/ t \in File("fingerprint", suites) \/ t \in File("metrics", points)
            \/ t \in File("metrics", floors)
  <2>1. \E name, c : /\ t = [s EXCEPT !.files = With(f, name, c)]
                     /\ \/ name \notin {"metrics", "fingerprint", "narrative", "registry"}
                        \/ (name = "metrics" /\ MetricsRead(c))
                        \/ (name = "fingerprint" /\ SuiteRead(c))
                        \/ (name = "narrative" /\ NarrativeRead(c))
    <3>. HIDE DEF f
    <3>. QED BY <1>7, <1>8, <1>9, <1>10, <1>13
  <2>. QED BY <1>3, <1>5, <2>1, FileReplaced
<1>. QED BY <1>4, <1>11, <1>12, <1>13

(* Whatever an issuer edits, what AsMeasured asks stays.                   *)
LEMMA EditedAsMeasured ==
  ASSUME NEW s, AsMeasured(s), NEW t \in Edits(s)
  PROVE  AsMeasured(t)
<1>1. s.profile \in {"certlab", "fleet", "evalmut", "crashkit", "variance", "rows", "modeldrift"}
  BY DEF AsMeasured
<1>. QED BY <1>1, CertlabEdited, FleetEdited, EvalmutEdited, CrashkitEdited, VarianceEdited, RowsEdited,
            DriftEdited DEF Edits

(* Nor does saying the same otherwise.                                     *)
LEMMA RestatedAsMeasured ==
  ASSUME NEW s, AsMeasured(s), NEW t \in Restatements(s)
  PROVE  AsMeasured(t)
<1>1. CASE s.profile = "fleet"
  <2>. DEFINE rows == s.artifact["rows"]
              more == RowsChanged(rows, LAMBDA r : With(r, "note", 0))
  <2>1. /\ {"profile", "check", "hashes", "artifact", "raw"} \subseteq DOMAIN s
        /\ "rows" \in DOMAIN s.artifact \ DOMAIN s.hashes /\ IsList(rows)
    BY <1>1 DEF AsMeasured, FleetRowsAreRead
  <2>2. t \in Artifacts(s, "rows", more)
    BY <1>1 DEF Restatements
  <2>3. ASSUME NEW v \in more PROVE IsList(v)
    <3>1. \E i \in DOMAIN rows : \E e : v = ReplaceAt(rows, i, e)
      BY DEF RowsChanged
    <3>. HIDE DEF rows
    <3>. QED BY <2>1, <3>1, ReplacedIs DEF MadeOf
  <2>. HIDE DEF more, rows
  <2>4. \E v \in more : Besides("artifact", s, t) /\ "rows" \in DOMAIN t.artifact /\ t.artifact["rows"] = v
    BY <2>1, <2>2, ArtifactsSet
  <2>5. DOMAIN t = DOMAIN s /\ t.profile = s.profile /\ t.hashes = s.hashes /\ t.raw = s.raw
    BY <2>1, <2>4 DEF Besides
  <2>6. FleetRowsAreRead(t)
    BY <2>1, <2>3, <2>4, <2>5 DEF FleetRowsAreRead
  <2>. QED BY <1>1, <2>1, <2>5, <2>6 DEF AsMeasured, MeasuredRows
<1>2. CASE s.profile \in {"evalmut", "crashkit", "variance"}
  <2>1. "artifact" \in DOMAIN s /\ RowsKey(s) \in DOMAIN s.artifact
    BY <1>2 DEF AsMeasured
  <2>2. \E key \in {"tally", "metrics", "per_kind"} : \E values : t \in Artifacts(s, key, values)
    BY <1>2 DEF Restatements
  <2>3. RowsKey(s) \notin {"tally", "metrics", "per_kind"}
    BY <1>2 DEF RowsKey
  <2>4. OtherArtifact(s, t)
    BY <2>1, <2>2, <2>3, FieldSet
  <2>. QED BY <1>2, <2>4, StillAsMeasured
<1>3. CASE s.profile = "modeldrift"
  <2>. DEFINE f == s.files
  <2>1. /\ {"profile", "check", "hashes", "files", "version"} \subseteq DOMAIN s /\ BoardRead(f)
    BY <1>3 DEF AsMeasured
  <2>2. /\ ~ \E name \in DOMAIN f : f[name] = None
        /\ \E c : t = [s EXCEPT !.files = With(f, "standings", c)]
    BY <1>3, Zenon DEF Restatements
  <2>3. PICK c : t = [s EXCEPT !.files = With(f, "standings", c)]
    BY <2>2
  <2>. DEFINE g == With(f, "standings", c)
  <2>4. BoardRead(g)
    <3>. HIDE DEF f
    <3>1. FilesRead(f)
      BY <2>1, <2>2, FilesAreRead
    <3>2. FilesRead(g)
      BY <3>1, FileReplaced
    <3>. HIDE DEF g
    <3>. QED BY <3>2, FilesAreRead
  <2>. HIDE DEF g
  <2>5. DOMAIN t = DOMAIN s /\ t.files = g /\ t.profile = s.profile
    BY <2>1, <2>3 DEF g
  <2>. QED BY <1>3, <2>1, <2>4, <2>5 DEF AsMeasured
<1>4. CASE s.profile \in {"certlab", "rows"}
  BY <1>4 DEF Restatements
<1>. QED BY <1>1, <1>2, <1>3, <1>4 DEF AsMeasured

-----------------------------------------------------------------------------
(* model-drift: rows at some of their places, flips, points that count,    *)
(* and a history without its outages.                                      *)

(* The rank of an index among those that are kept, and the index of a rank.*)
Rank(S, i)  == Cardinality({j \in S : j <= i})
Place(S, k) == CHOOSE i \in S : Rank(S, i) = k

LEMMA Ranked ==
  ASSUME NEW n \in Nat, NEW S \in SUBSET (1..n)
  PROVE  /\ IsFiniteSet(S) /\ Cardinality(S) \in 0..n
         /\ \A i \in S : Rank(S, i) \in 1..Cardinality(S)
         /\ \A i, j \in S : i < j => Rank(S, i) < Rank(S, j)
         /\ \A k \in 1..Cardinality(S) : Place(S, k) \in S /\ Rank(S, Place(S, k)) = k
<1>. DEFINE c == Cardinality(S)
            Upto(i) == {j \in S : j <= i}
<1>1. IsFiniteSet(S) /\ c \in 0..n
  <2>1. IsFiniteSet(1..n) /\ Cardinality(1..n) = n
    BY FS_Interval
  <2>2. IsFiniteSet(S) /\ Cardinality(S) <= n
    BY <2>1, FS_Subset
  <2>3. Cardinality(S) \in Nat
    BY <2>2, FS_CardinalityType
  <2>. QED BY <2>2, <2>3
<1>2. ASSUME NEW i \in S PROVE IsFiniteSet(Upto(i)) /\ Rank(S, i) \in 1..c /\ Rank(S, i) = Cardinality(Upto(i))
  <2>1. Upto(i) \in SUBSET S /\ i \in Upto(i)
    OBVIOUS
  <2>2. IsFiniteSet(Upto(i)) /\ Cardinality(Upto(i)) <= c /\ Cardinality(Upto(i)) \in Nat /\ Cardinality(Upto(i)) # 0
    BY <1>1, <2>1, FS_Subset, FS_CardinalityType, FS_EmptySet
  <2>. QED BY <1>1, <2>2 DEF Rank
<1>3. ASSUME NEW i \in S, NEW j \in S, i < j PROVE Rank(S, i) < Rank(S, j)
  <2>1. Upto(i) \in SUBSET Upto(j) /\ j \in Upto(j) /\ j \notin Upto(i)
    <3>1. S \subseteq Int
      OBVIOUS
    <3>2. \A k \in S : k <= i => k <= j
      BY <1>3, <3>1
    <3>3. j <= j /\ ~(j <= i)
      BY <1>3, <3>1
    <3>. QED BY <3>2, <3>3
  <2>. HIDE DEF Upto
  <2>2. Cardinality(Upto(i)) <= Cardinality(Upto(j)) /\ Cardinality(Upto(i)) # Cardinality(Upto(j))
    BY <1>2, <2>1, FS_Subset
  <2>3. Rank(S, i) \in 1..c /\ Rank(S, j) \in 1..c /\ Rank(S, i) = Cardinality(Upto(i)) /\ Rank(S, j) = Cardinality(Upto(j))
    BY <1>2
  <2>. QED BY <1>1, <2>2, <2>3
<1>4. ASSUME NEW k \in 1..c PROVE \E i \in S : Rank(S, i) = k
  <2>. DEFINE r == [i \in S |-> Rank(S, i)]
  <2>1. r \in [S -> 1..c]
    BY <1>2
  <2>2. \A i, j \in S : r[i] = r[j] => i = j
    <3>1. \A i \in S : r[i] = Rank(S, i) /\ Rank(S, i) \in Int /\ i \in Int
      <4>1. \A i \in S : Rank(S, i) \in 1..c /\ i \in 1..n
        BY <1>2
      <4>2. 1..c \subseteq Int /\ 1..n \subseteq Int
        OBVIOUS
      <4>. HIDE DEF c
      <4>. QED BY <4>1, <4>2
    <3>. HIDE DEF r
    <3>. QED BY <1>3, <3>1
  <2>. HIDE DEF r
  <2>3. r \in Injection(S, 1..c)
    BY <2>1, <2>2 DEF Injection, IsInjective
  <2>4. IsFiniteSet(1..c) /\ Cardinality(1..c) = c
    BY <1>1, FS_Interval
  <2>5. r \in Surjection(S, 1..c)
    BY <2>3, <2>4, FS_Injection
  <2>6. \E i \in S : r[i] = k
    BY <2>5 DEF Surjection
  <2>. QED BY <2>6 DEF r
<1>. QED BY <1>1, <1>2, <1>3, <1>4 DEF Place

(* What is kept, and in which order.                                       *)
LEMMA KeptIs ==
  ASSUME NEW rows, IsList(rows), NEW S \in SUBSET DOMAIN rows
  PROVE  /\ IsFiniteSet(S) /\ Len(Kept(rows, S)) = Cardinality(S) /\ Cardinality(S) \in Nat
         /\ IsList(Kept(rows, S)) /\ DOMAIN Kept(rows, S) = 1..Cardinality(S)
         /\ \A k \in 1..Cardinality(S) : Place(S, k) \in S /\ Kept(rows, S)[k] = rows[Place(S, k)]
         /\ \A k, l \in 1..Cardinality(S) : k < l => Place(S, k) < Place(S, l)
         /\ \A i \in S : Rank(S, i) \in 1..Cardinality(S) /\ Kept(rows, S)[Rank(S, i)] = rows[i]
<1>. DEFINE c == Cardinality(S)
<1>1. Len(rows) \in Nat /\ DOMAIN rows = 1..Len(rows)
  BY ListIs
<1>2. /\ IsFiniteSet(S) /\ c \in 0..Len(rows)
      /\ \A i \in S : Rank(S, i) \in 1..c
      /\ \A i, j \in S : i < j => Rank(S, i) < Rank(S, j)
      /\ \A k \in 1..c : Place(S, k) \in S /\ Rank(S, Place(S, k)) = k
  BY <1>1, Ranked, Zenon
<1>3. Kept(rows, S) = [k \in 1..c |-> rows[Place(S, k)]]
  BY Zenon DEF Kept, Place, Rank
<1>4. S \subseteq Int
  BY <1>1
<1>. HIDE DEF c
<1>5. \A k, l \in 1..c : k < l => Place(S, k) < Place(S, l)
  <2>. SUFFICES ASSUME NEW k \in 1..c, NEW l \in 1..c, k < l PROVE Place(S, k) < Place(S, l)
    OBVIOUS
  <2>. DEFINE p == Place(S, k)
              q == Place(S, l)
  <2>1. p \in S /\ q \in S /\ Rank(S, p) = k /\ Rank(S, q) = l
    BY <1>2
  <2>. HIDE DEF p, q
  <2>2. p # q /\ ~(q < p)
    BY <1>2, <2>1
  <2>3. p < q
    BY <1>4, <2>1, <2>2
  <2>. QED BY <2>3 DEF p, q
<1>6. \A i \in S : Place(S, Rank(S, i)) = i
  <2>. SUFFICES ASSUME NEW i \in S PROVE Place(S, Rank(S, i)) = i
    OBVIOUS
  <2>. DEFINE p == Place(S, Rank(S, i))
  <2>1. p \in S /\ Rank(S, p) = Rank(S, i) /\ Rank(S, i) \in 1..c
    BY <1>2
  <2>. HIDE DEF p
  <2>2. ~(p < i) /\ ~(i < p)
    BY <1>2, <2>1
  <2>3. p = i
    BY <1>4, <2>1, <2>2
  <2>. QED BY <2>3 DEF p
<1>7. /\ DOMAIN Kept(rows, S) = 1..c
      /\ \A k \in 1..c : Kept(rows, S)[k] = rows[Place(S, k)]
      /\ c \in Nat
  BY <1>2, <1>3
<1>8. IsList(Kept(rows, S)) /\ Len(Kept(rows, S)) = c
  <2>1. Kept(rows, S) \in Seq({rows[i] : i \in S})
    BY <1>2, <1>3, <1>7
  <2>2. IsList(Kept(rows, S))
    BY <2>1, ListOf
  <2>. QED BY <1>7, <2>1, <2>2
<1>. QED BY <1>2, <1>5, <1>6, <1>7, <1>8 DEF c

(* Nothing is left out.                                                    *)
LEMMA KeptAll ==
  ASSUME NEW rows, IsList(rows)
  PROVE  Kept(rows, DOMAIN rows) = rows
<1>. DEFINE D == DOMAIN rows
            n == Len(rows)
<1>1. n \in Nat /\ D = 1..n /\ rows \in Seq(ToSet(rows))
  BY ListIs DEF IsList
<1>2. Cardinality(D) = n
  BY <1>1, FS_Interval
<1>3. \A i \in D : Rank(D, i) = i
  <2>. SUFFICES ASSUME NEW i \in D PROVE Rank(D, i) = i
    OBVIOUS
  <2>1. {j \in D : j <= i} = 1..i
    BY <1>1
  <2>2. Cardinality(1..i) = i
    BY <1>1, FS_Interval
  <2>. QED BY <2>1, <2>2, Zenon DEF Rank
<1>4. /\ DOMAIN Kept(rows, D) = 1..n
      /\ \A i \in D : Kept(rows, D)[i] = rows[i]
      /\ Len(Kept(rows, D)) = n /\ IsList(Kept(rows, D))
  <2>1. D \in SUBSET DOMAIN rows
    OBVIOUS
  <2>. HIDE DEF D
  <2>. QED BY <1>2, <1>3, <2>1, KeptIs
<1>5. rows = [i \in 1..n |-> rows[i]]
  BY <1>1
<1>6. Kept(rows, D) = [i \in 1..n |-> rows[i]]
  <2>1. Kept(rows, D) = [k \in 1..Cardinality(D) |-> rows[Place(D, k)]]
    BY Zenon DEF Kept, Place, Rank
  <2>2. DOMAIN Kept(rows, D) = 1..n /\ \A i \in 1..n : Kept(rows, D)[i] = rows[i]
    BY <1>1, <1>4
  <2>. HIDE DEF D, n
  <2>. QED BY <2>1, <2>2
<1>. QED BY <1>5, <1>6

-----------------------------------------------------------------------------
(* A task's turns so far, and what is noted of it.                         *)
Turns(seen, s, task)  == {i \in s : task \in Flipped(seen, i)}
LastTurn(seen, s, task) == CHOOSE i \in Turns(seen, s, task) : \A j \in Turns(seen, s, task) : j <= i
Noted(seen, s, task) == [flips |-> Cardinality(Turns(seen, s, task)),
                         broke |-> task \in FailsOf(seen[LastTurn(seen, s, task) + 1]),
                         day   |-> seen[LastTurn(seen, s, task) + 1]["t"]]

(* The last of some turns is the greatest.                                 *)
LEMMA LastTurnIs ==
  ASSUME NEW seen, NEW n \in Nat, NEW s \in SUBSET (1..n), NEW task, NEW m \in Turns(seen, s, task),
         \A j \in Turns(seen, s, task) : j <= m
  PROVE  LastTurn(seen, s, task) = m
<1>. DEFINE T == Turns(seen, s, task)
            l == LastTurn(seen, s, task)
<1>1. T \subseteq Int
  <2>1. T \subseteq s
    BY DEF Turns
  <2>2. s \subseteq Int
    OBVIOUS
  <2>. HIDE DEF T
  <2>. QED BY <2>1, <2>2
<1>2. l \in T /\ \A j \in T : j <= l
  BY Zenon DEF LastTurn
<1>. HIDE DEF l
<1>3. l = m
  <2>1. l \in Int /\ m \in Int /\ l <= m /\ m <= l
    BY <1>1, <1>2
  <2>. QED BY <2>1
<1>. QED BY <1>3 DEF l

(* A task that turned once more.                                           *)
NotedOnceMore(seen, s, m, task) ==
  /\ task \notin Flipped(seen, m) => Noted(seen, s, task) = Noted(seen, s \ {m}, task)
  /\ task \in Flipped(seen, m) =>
       Noted(seen, s, task) = [flips |-> 1 + Cardinality(Turns(seen, s \ {m}, task)),
                               broke |-> task \in FailsOf(seen[m + 1]), day |-> seen[m + 1]["t"]]

LEMMA TurnsMore ==
  ASSUME NEW seen, NEW n \in Nat, NEW s \in SUBSET (1..n), NEW m \in s, \A j \in s : j <= m, NEW task
  PROVE  NotedOnceMore(seen, s, m, task)
<1>1. CASE task \notin Flipped(seen, m)
  <2>1. Turns(seen, s, task) = Turns(seen, s \ {m}, task)
    BY <1>1 DEF Turns
  <2>. QED BY <1>1, <2>1 DEF NotedOnceMore, Noted, LastTurn
<1>2. CASE task \in Flipped(seen, m)
  <2>. DEFINE r == s \ {m}
              T == Turns(seen, r, task)
  <2>1. m \in Turns(seen, s, task) /\ Turns(seen, s, task) = T \cup {m} /\ m \notin T /\ T \in SUBSET (1..n)
    BY <1>2 DEF Turns
  <2>2. \A j \in Turns(seen, s, task) : j <= m
    BY DEF Turns
  <2>3. LastTurn(seen, s, task) = m
    BY <2>1, <2>2, LastTurnIs
  <2>4. IsFiniteSet(T)
    <3>1. IsFiniteSet(1..n)
      BY FS_Interval
    <3>. HIDE DEF T
    <3>. QED BY <2>1, <3>1, FS_Subset
  <2>5. Cardinality(Turns(seen, s, task)) = 1 + Cardinality(T)
    <3>1. Cardinality(T \cup {m}) = Cardinality(T) + 1 /\ Cardinality(T) \in Nat
      <4>. HIDE DEF T
      <4>. QED BY <2>1, <2>4, FS_AddElement, FS_CardinalityType
    <3>. HIDE DEF T
    <3>. QED BY <2>1, <3>1
  <2>. HIDE DEF T
  <2>6. Noted(seen, s, task) = [flips |-> 1 + Cardinality(T), broke |-> task \in FailsOf(seen[m + 1]),
                                day |-> seen[m + 1]["t"]]
    BY <2>3, <2>5, Zenon DEF Noted
  <2>. QED BY <1>2, <2>6 DEF NotedOnceMore, T
<1>. QED BY <1>1, <1>2

(* What is noted when the series has been read is what FlipsOf counts.     *)
LEMMA FlipsAreNoted ==
  ASSUME NEW model, NEW points, IsList(points)
  PROVE  /\ FlipsNoted(model, points) = FlipsOf(model, points)
         /\ \A row \in FlipsOf(model, points) : row.flips \in Nat \ {0}
<1>. DEFINE seen == Recorded(points)
            N    == Len(seen)
            n    == IF N = 0 THEN 0 ELSE N - 1
            All(s)  == UNION {Flipped(seen, i) : i \in s}
            before(i) == FailsOf(seen[i - 1])
            now(i)    == FailsOf(seen[i])
            turned(i) == {task \in before(i) \cup now(i) : (task \in before(i)) # (task \in now(i))}
            Note(log, i) == [task \in DOMAIN log \cup turned(i) |->
               IF task \notin turned(i) THEN log[task]
               ELSE [flips |-> 1 + (IF task \in DOMAIN log THEN log[task].flips ELSE 0),
                     broke |-> task \in now(i), day |-> seen[i]["t"]]]
            place   == [k \in 1..N - 1 |-> k + 1]
            Unroll(g) == [s \in SUBSET DOMAIN place |-> IF s = {} THEN <<>>
                                                         ELSE Note(g[s \ {Max(s)}], place[Max(s)])]
            Of(s)   == [task \in All(s) |-> Noted(seen, s, task)]
            G       == [s \in SUBSET (1..n) |-> Of(s)]
            h       == CHOOSE g : g = Unroll(g)
<1>1. IsList(seen) /\ N \in Nat /\ n \in Nat /\ 1..N - 1 = 1..n
  <2>1. {i \in DOMAIN points : "fails" \in DOMAIN points[i]} \in SUBSET DOMAIN points
    OBVIOUS
  <2>2. IsList(seen)
    BY <2>1, KeptIs DEF Recorded
  <2>3. N \in Nat
    <3>. HIDE DEF seen
    <3>. QED BY <2>2, ListIs
  <2>. HIDE DEF N
  <2>. QED BY <2>2, <2>3
<1>. DEFINE log == h[DOMAIN place]
<1>2. FlipsNoted(model, points) = {Join([model |-> model, task |-> task], log[task]) : task \in DOMAIN log}
  BY Zenon DEF FlipsNoted, FoldLeft, MapThenFoldSet, Recorded
<1>3. DOMAIN place = 1..n /\ \A k \in 1..n : place[k] = k + 1
  BY <1>1
<1>4. ASSUME NEW s \in SUBSET (1..n), s # {} PROVE Of(s) = Note(Of(s \ {Max(s)}), place[Max(s)])
  <2>. DEFINE m == Max(s)
              r == s \ {m}
  <2>1. m \in s /\ (\A y \in s : y <= m) /\ r \in SUBSET (1..n) /\ s = r \cup {m}
    BY <1>1, <1>4, LastPlace
  <2>. HIDE DEF m
  <2>2. place[m] = m + 1 /\ m \in 1..n
    BY <1>3, <2>1
  <2>3. turned(m + 1) = Flipped(seen, m) /\ now(m + 1) = FailsOf(seen[m + 1])
    <3>1. (m + 1) - 1 = m
      BY <2>2
    <3>2. before(m + 1) = FailsOf(seen[m])
      BY <3>1, Zenon
    <3>. HIDE DEF seen
    <3>. QED BY <3>2 DEF Flipped
  <2>4. All(s) = All(r) \cup Flipped(seen, m)
    BY <2>1
  <2>. DEFINE new == Note(Of(r), m + 1)
  <2>5. DOMAIN new = All(s) /\ new = [task \in All(s) |-> new[task]]
    BY <2>3, <2>4
  <2>6. ASSUME NEW task \in All(s) PROVE new[task] = Noted(seen, s, task)
    <3>1. /\ task \notin Flipped(seen, m) => Noted(seen, s, task) = Noted(seen, r, task)
          /\ task \in Flipped(seen, m) =>
               Noted(seen, s, task) = [flips |-> 1 + Cardinality(Turns(seen, r, task)),
                                       broke |-> task \in FailsOf(seen[m + 1]), day |-> seen[m + 1]["t"]]
      <4>1. n \in Nat /\ s \in SUBSET (1..n) /\ m \in s /\ \A j \in s : j <= m
        BY <1>1, <2>1
      <4>. HIDE DEF seen, n, Of, Note, place, All, r
      <4>2. NotedOnceMore(seen, s, m, task)
        BY <4>1, TurnsMore
      <4>. QED BY <4>2, Zenon DEF NotedOnceMore, r
    <3>2. CASE task \notin Flipped(seen, m)
      BY <2>3, <2>4, <3>1, <3>2
    <3>3. CASE task \in Flipped(seen, m)
      <4>1. (IF task \in DOMAIN Of(r) THEN Of(r)[task].flips ELSE 0) = Cardinality(Turns(seen, r, task))
        <5>1. CASE task \in All(r)
          BY <5>1 DEF Noted
        <5>2. CASE task \notin All(r)
          <6>1. Turns(seen, r, task) = {}
            BY <5>2 DEF Turns
          <6>. QED BY <5>2, <6>1, FS_EmptySet
        <5>. QED BY <5>1, <5>2
      <4>2. new[task] = [flips |-> 1 + (IF task \in DOMAIN Of(r) THEN Of(r)[task].flips ELSE 0),
                         broke |-> task \in now(m + 1), day |-> seen[m + 1]["t"]]
        BY <2>3, <2>4, <3>3
      <4>. QED BY <2>3, <3>1, <3>3, <4>1, <4>2
    <3>. QED BY <3>2, <3>3
  <2>. HIDE DEF new, All, seen, n
  <2>7. new = Of(s)
    BY <2>5, <2>6, Zenon
  <2>. HIDE DEF Of, Note, place, r
  <2>8. place[m] = m + 1
    BY <2>2
  <2>9. Note(Of(r), place[m]) = Of(s)
    BY <2>7, <2>8, Zenon DEF new
  <2>. QED BY <2>9, Zenon DEF m, r
<1>5. Of({}) = <<>>
  OBVIOUS
<1>. HIDE DEF Of, Note, place
<1>6. G = Unroll(G)
  BY <1>1, <1>3, <1>4, <1>5, LastPlace
<1>7. h = Unroll(h)
  <2>. HIDE DEF Unroll, G
  <2>. QED BY <1>6
<1>. HIDE DEF h
<1>8. ASSUME NEW s \in SUBSET (1..n), s # {}
      PROVE  \E x \in s : h[s \ {x}] = G[s \ {x}] => h[s] = G[s]
  <2>1. Max(s) \in s
    BY <1>1, <1>8, LastPlace
  <2>2. h[s] = Note(h[s \ {Max(s)}], place[Max(s)])
    BY <1>3, <1>7, <1>8
  <2>3. G[s] = Note(G[s \ {Max(s)}], place[Max(s)])
    <3>. HIDE DEF G
    <3>. QED BY <1>3, <1>6, <1>8
  <2>. HIDE DEF G
  <2>. QED BY <2>1, <2>2, <2>3
<1>9. h[{}] = G[{}]
  BY <1>5, <1>7
<1>10. h[1..n] = G[1..n] /\ IsFiniteSet(1..n)
  <2>1. IsFiniteSet(1..n)
    BY <1>1, FS_Interval
  <2>. HIDE DEF G, n
  <2>. QED BY <1>1, <1>8, <1>9, <2>1, FoldsAgree
<1>11. log = Of(1..n)
  BY <1>3, <1>10
<1>. DEFINE Row(s, task) == [model |-> model, task |-> task, flips |-> Cardinality(Turns(seen, s, task)),
                             broke |-> task \in FailsOf(seen[LastTurn(seen, s, task) + 1]),
                             day   |-> seen[LastTurn(seen, s, task) + 1]["t"]]
<1>12. FlipsOf(model, points) = {Row(1..n, task) : task \in All(1..n)}
  <2>1. FlipsOf(model, points) = {Row(1..N - 1, task) : task \in All(1..N - 1)}
    BY Zenon DEF FlipsOf, Turns, LastTurn
  <2>. HIDE DEF Row, All, n, N, seen
  <2>. QED BY <1>1, <2>1
<1>13. ASSUME NEW task
       PROVE  /\ Join([model |-> model, task |-> task], Noted(seen, 1..n, task)) = Row(1..n, task)
              /\ Row(1..n, task).flips = Cardinality(Turns(seen, 1..n, task))
  <2>. DEFINE c == Cardinality(Turns(seen, 1..n, task))
              b == task \in FailsOf(seen[LastTurn(seen, 1..n, task) + 1])
              d == seen[LastTurn(seen, 1..n, task) + 1]["t"]
              w == [flips |-> c, broke |-> b, day |-> d]
  <2>1. Noted(seen, 1..n, task) = w
    BY Zenon DEF Noted
  <2>2. Row(1..n, task) = [model |-> model, task |-> task, flips |-> c, broke |-> b, day |-> d]
    BY Zenon
  <2>. HIDE DEF Row, c, b, d, n
  <2>3. Join([model |-> model, task |-> task], w) = [model |-> model, task |-> task, flips |-> c, broke |-> b, day |-> d]
    BY DEF Join
  <2>4. Row(1..n, task).flips = c
    BY <2>2
  <2>. QED BY <2>1, <2>2, <2>3, <2>4, Zenon DEF c
<1>14. FlipsNoted(model, points) = FlipsOf(model, points)
  <2>1. DOMAIN log = All(1..n) /\ \A task \in All(1..n) : log[task] = Noted(seen, 1..n, task)
    BY <1>11 DEF Of
  <2>2. \A task \in All(1..n) : Join([model |-> model, task |-> task], log[task]) = Row(1..n, task)
    BY <1>13, <2>1, Zenon
  <2>. HIDE DEF log, All, seen, n, Row
  <2>. QED BY <1>2, <1>12, <2>1, <2>2
<1>15. ASSUME NEW task \in All(1..n) PROVE Row(1..n, task).flips \in Nat \ {0}
  <2>. DEFINE T == Turns(seen, 1..n, task)
  <2>1. T # {} /\ T \in SUBSET (1..n)
    BY DEF Turns
  <2>2. Row(1..n, task).flips = Cardinality(T)
    BY <1>13, Zenon
  <2>. HIDE DEF T, n, Row
  <2>3. IsFiniteSet(T)
    BY <1>10, <2>1, FS_Subset
  <2>4. Cardinality(T) \in Nat /\ Cardinality(T) # 0
    BY <2>1, <2>3, FS_CardinalityType, FS_EmptySet
  <2>. QED BY <2>2, <2>4
<1>. HIDE DEF All, seen, n, Row
<1>16. \A row \in FlipsOf(model, points) : row.flips \in Nat \ {0}
  BY <1>12, <1>15
<1>. QED BY <1>14, <1>16

(* A board that was answered: its files parse, its points are coherent, and*)
(* its floor at 0.2 is in range.                                           *)
FloorOf(s) == IF s.version = "0.2" THEN s.check["rel_floor"] ELSE None

DriftRows(s)  == StandingsRows(Series(s), s.files.registry, FloorOf(s))
DriftFlips(s) == Flips(FlipSeries(Series(s), FloorOf(s)))

BoardAnswers(s) ==
  /\ \A file \in DOMAIN s.files : s.files[file] # None
  /\ Suite(s).tasks = TaskCount(s) /\ Coherent(s)
  /\ s.version = "0.2" => FloorReasons(s) = {}

LEMMA BoardGives ==
  ASSUME NEW s, BoardAnswers(s)
  PROVE  /\ CheckModelDrift(s).pool = PoolOf(DriftRecount(s, DriftRows(s), DriftFlips(s)))
         /\ CheckModelDrift(s).reasons = {} =>
              ExpectReasons(Get(s.check, "expect"), DriftRecount(s, DriftRows(s), DriftFlips(s))) = {}
<1>. DEFINE R == StandingsReasons(s.files.standings, s, DriftRows(s))
               \cup NameWhen(s.files.results_md # ResultsMd(DriftRows(s), Suite(s).suite_version, FloorOf(s)),
                             "table: differs")
               \cup FlipsReasons(s.files.flips, DriftFlips(s))
               \cup NarrativeReasons(s.files.narrative)
               \cup DriftStamps(s) \cup ExpectReasons(Get(s.check, "expect"), DriftRecount(s, DriftRows(s), DriftFlips(s)))
            P == PoolOf(DriftRecount(s, DriftRows(s), DriftFlips(s)))
<1>1. /\ ~ \E file \in DOMAIN s.files : s.files[file] = None
      /\ Suite(s).tasks = TaskCount(s) /\ Coherent(s) /\ ~(s.version = "0.2" /\ FloorReasons(s) # {})
  BY DEF BoardAnswers
<1>2. CheckModelDrift(s) = Result(R, P)
  BY <1>1, Zenon DEF CheckModelDrift, TaskCount, DriftRows, DriftFlips, FloorOf
<1>3. R = {} => ExpectReasons(Get(s.check, "expect"), DriftRecount(s, DriftRows(s), DriftFlips(s))) = {}
  OBVIOUS
<1>. HIDE DEF R, P
<1>4. CheckModelDrift(s).pool = P /\ CheckModelDrift(s).reasons = R
  BY <1>2, ResultHas
<1>. QED BY <1>3, <1>4 DEF P

LEMMA DriftAnswers ==
  ASSUME NEW s, Answered(CheckModelDrift(s))
  PROVE  /\ BoardAnswers(s) /\ FloorOf(s) \in {None} \cup 0..9
         /\ CheckModelDrift(s).pool = PoolOf(DriftRecount(s, DriftRows(s), DriftFlips(s)))
<1>1. ASSUME NEW r PROVE ~ Answered(Refused(r))
  <2>1. Refused(r).reasons # {} /\ Refused(r).pool = None
    BY RefusedNames, ResultHas DEF Refused
  <2>. QED BY <2>1 DEF Answered
<1>2. ~ \E file \in DOMAIN s.files : s.files[file] = None
  <2>. SUFFICES ASSUME \E file \in DOMAIN s.files : s.files[file] = None PROVE FALSE
    OBVIOUS
  <2>1. CheckModelDrift(s) = Refused("files: unparsable")
    BY Zenon DEF CheckModelDrift
  <2>. QED BY <1>1, <2>1
<1>3. Suite(s).tasks = TaskCount(s)
  <2>. SUFFICES ASSUME Suite(s).tasks # TaskCount(s) PROVE FALSE
    OBVIOUS
  <2>1. CheckModelDrift(s) = Refused("fingerprint: tasks")
    BY <1>2, Zenon DEF CheckModelDrift, TaskCount
  <2>. QED BY <1>1, <2>1
<1>4. Coherent(s)
  <2>. SUFFICES ASSUME ~ Coherent(s) PROVE FALSE
    OBVIOUS
  <2>1. CheckModelDrift(s) = Refused("point: incoherent")
    BY <1>2, <1>3, Zenon DEF CheckModelDrift, TaskCount
  <2>. QED BY <1>1, <2>1
<1>5. ~(s.version = "0.2" /\ FloorReasons(s) # {})
  <2>. SUFFICES ASSUME s.version = "0.2", FloorReasons(s) # {} PROVE FALSE
    OBVIOUS
  <2>1. CheckModelDrift(s) = Result(FloorReasons(s), None)
    BY <1>2, <1>3, <1>4, Zenon DEF CheckModelDrift, TaskCount
  <2>2. ~ Answered(Result(FloorReasons(s), None))
    BY ResultHas, Zenon DEF Answered
  <2>. QED BY <2>1, <2>2, Zenon
<1>6. BoardAnswers(s)
  BY <1>2, <1>3, <1>4, <1>5 DEF BoardAnswers
<1>7. CheckModelDrift(s).pool = PoolOf(DriftRecount(s, DriftRows(s), DriftFlips(s)))
  BY <1>6, BoardGives
<1>8. FloorOf(s) \in {None} \cup 0..9
  <2>1. CASE s.version = "0.2"
    <3>1. FloorReasons(s) = {}
      BY <1>5, <2>1
    <3>2. Get(s.check, "rel_floor") # None /\ Get(s.check, "rel_floor") \in 0..9
      BY <3>1 DEF FloorReasons
    <3>. QED BY <2>1, <3>2 DEF FloorOf, Get
  <2>2. CASE s.version # "0.2"
    BY <2>2 DEF FloorOf
  <2>. QED BY <2>1, <2>2
<1>. QED BY <1>6, <1>7, <1>8

(* What such a board has measured.                                         *)
LEMMA BoardHas ==
  ASSUME NEW s, s.profile = "modeldrift", AsMeasured(s), BoardAnswers(s)
  PROVE  /\ "series" \in DOMAIN s.files.metrics /\ Suite(s).tasks = TaskCount(s)
         /\ IsList(s.files.registry)
         /\ TaskCount(s) \in Nat \ {0} /\ IsFiniteSet(Tasks(s))
         /\ s.files.narrative.sentences \in Nat
         /\ IsFiniteSet(DOMAIN Series(s)) /\ Series(s) = [m \in DOMAIN Series(s) |-> Series(s)[m]]
         /\ \A m \in DOMAIN Series(s) : IsList(Series(s)[m])
         /\ \A m \in DOMAIN Series(s) : \A i \in DOMAIN Series(s)[m] :
              /\ ~ PointIncoherent(s, m, i)
              /\ "t" \in DOMAIN Series(s)[m][i] /\ Series(s)[m][i]["t"] \in Int
<1>1. BoardRead(s.files) /\ ~ \E file \in DOMAIN s.files : s.files[file] = None
  BY DEF AsMeasured, BoardAnswers
<1>2. /\ "series" \in DOMAIN s.files.metrics
      /\ s.files.narrative["sentences"] \in Nat
      /\ IsList(s.files.registry) /\ IsList(Suite(s).task_ids) /\ Suite(s).task_ids # <<>>
      /\ IsFiniteSet(DOMAIN Series(s)) /\ Series(s) = [m \in DOMAIN Series(s) |-> Series(s)[m]]
      /\ \A m \in DOMAIN Series(s) :
           /\ IsList(Series(s)[m])
           /\ \A i \in DOMAIN Series(s)[m] : "t" \in DOMAIN Series(s)[m][i] /\ Series(s)[m][i]["t"] \in Int \cup {Junk}
  BY <1>1, Zenon DEF BoardRead, Series, Suite
<1>3. \A m \in DOMAIN Series(s) : \A i \in DOMAIN Series(s)[m] : ~ PointIncoherent(s, m, i)
  BY DEF BoardAnswers, Coherent
<1>4. \A m \in DOMAIN Series(s) : \A i \in DOMAIN Series(s)[m] : Series(s)[m][i]["t"] # Junk
  <2>1. ASSUME NEW m, NEW i, Series(s)[m][i]["t"] = Junk PROVE PointIncoherent(s, m, i)
    BY <2>1 DEF PointIncoherent
  <2>. QED BY <1>3, <2>1
<1>5. TaskCount(s) \in Nat \ {0} /\ IsFiniteSet(Tasks(s))
  <2>. DEFINE ids == Suite(s).task_ids
  <2>1. Len(ids) \in Nat /\ DOMAIN ids = 1..Len(ids) /\ IsFiniteSet(DOMAIN ids) /\ ids \in Seq(ToSet(ids)) /\ ids # <<>>
    BY <1>2, ListIs
  <2>2. Tasks(s) = {ids[i] : i \in DOMAIN ids}
    BY DEF Tasks
  <2>. HIDE DEF ids
  <2>3. Len(ids) # 0
    BY <2>1
  <2>. DEFINE f == [i \in DOMAIN ids |-> ids[i]]
              T == {ids[i] : i \in DOMAIN ids}
  <2>4. f \in Surjection(DOMAIN ids, T)
    BY DEF Surjection
  <2>. HIDE DEF f, T
  <2>5. IsFiniteSet(T)
    BY <2>1, <2>4, FS_Surjection
  <2>6. Tasks(s) = T
    BY <2>2 DEF T
  <2>7. TaskCount(s) = Len(ids)
    BY DEF TaskCount, ids
  <2>. QED BY <2>1, <2>3, <2>5, <2>6, <2>7
<1>6. \A m \in DOMAIN Series(s) : \A i \in DOMAIN Series(s)[m] : Series(s)[m][i]["t"] \in Int
  BY <1>2, <1>4
<1>7. Suite(s).tasks = TaskCount(s)
  BY DEF BoardAnswers
<1>. QED BY <1>2, <1>3, <1>5, <1>6, <1>7, Zenon

(* A field that is looked up and is not None is there.                     *)
LEMMA GetIs ==
  ASSUME NEW obj, NEW key, Get(obj, key) # None
  PROVE  key \in DOMAIN obj /\ obj[key] = Get(obj, key)
BY DEF Get

(* A point that is coherent has its reliability, and its fails are tasks.  *)
LEMMA PointHas ==
  ASSUME NEW s, NEW m, NEW i, ~ PointIncoherent(s, m, i)
  PROVE  /\ "reliability" \in DOMAIN Series(s)[m][i] /\ Series(s)[m][i]["reliability"] \in 0..10
         /\ FailsOf(Series(s)[m][i]) \in SUBSET Tasks(s)
<1>1. Get(Series(s)[m][i], "reliability") \in 0..10 /\ FailsOf(Series(s)[m][i]) \subseteq Tasks(s)
  <2>1. ASSUME Get(Series(s)[m][i], "reliability") \notin 0..10 PROVE PointIncoherent(s, m, i)
    BY <2>1 DEF PointIncoherent
  <2>2. ASSUME ~ FailsOf(Series(s)[m][i]) \subseteq Tasks(s) PROVE PointIncoherent(s, m, i)
    BY <2>2 DEF PointIncoherent
  <2>. QED BY <2>1, <2>2
<1>. DEFINE p == Series(s)[m][i]
<1>2. Get(p, "reliability") # None
  <2>1. None \notin Int
    BY ValuesAssumption
  <2>. QED BY <1>1, <2>1
<1>. HIDE DEF p
<1>3. "reliability" \in DOMAIN p /\ p["reliability"] = Get(p, "reliability")
  BY <1>2, GetIs
<1>. QED BY <1>1, <1>3 DEF p

(* The points that count are those the tool kept.                          *)
LEMMA QualifyingIsMeasured ==
  ASSUME NEW s, s.profile = "modeldrift", AsMeasured(s), BoardAnswers(s), NEW floor \in {None} \cup 0..9
  PROVE  FlipSeries(Series(s), floor) = Measured(Series(s), floor)
<1>. DEFINE ser == Series(s)
<1>1. /\ ser = [m \in DOMAIN ser |-> ser[m]]
      /\ \A m \in DOMAIN ser : IsList(ser[m])
      /\ \A m \in DOMAIN ser : \A i \in DOMAIN ser[m] : ~ PointIncoherent(s, m, i)
  BY BoardHas
<1>2. \A m \in DOMAIN ser : \A i \in DOMAIN ser[m] :
        "reliability" \in DOMAIN ser[m][i] /\ ser[m][i]["reliability"] \in 0..10
  BY <1>1, PointHas
<1>. HIDE DEF ser
<1>3. CASE floor = None
  <2>1. ASSUME NEW m \in DOMAIN ser PROVE Qualifying(ser[m], floor) = ser[m]
    <3>1. {i \in DOMAIN ser[m] : Qualifies(ser[m][i], floor)} = DOMAIN ser[m]
      BY <1>3 DEF Qualifies
    <3>2. Kept(ser[m], DOMAIN ser[m]) = ser[m]
      BY <1>1, KeptAll
    <3>. QED BY <3>1, <3>2, Zenon DEF Qualifying
  <2>2. FlipSeries(ser, floor) = [m \in DOMAIN ser |-> ser[m]]
    BY <2>1 DEF FlipSeries
  <2>3. Measured(ser, floor) = ser
    BY <1>3, Zenon DEF Measured
  <2>. QED BY <1>1, <2>2, <2>3 DEF ser
<1>4. CASE floor # None
  <2>1. ASSUME NEW m \in DOMAIN ser
        PROVE  Qualifying(ser[m], floor) = Kept(ser[m], {i \in DOMAIN ser[m] : ser[m][i]["reliability"] >= floor})
    <3>1. {i \in DOMAIN ser[m] : Qualifies(ser[m][i], floor)} = {i \in DOMAIN ser[m] : ser[m][i]["reliability"] >= floor}
      <4>1. ASSUME NEW i \in DOMAIN ser[m] PROVE Qualifies(ser[m][i], floor) <=> ser[m][i]["reliability"] >= floor
        <5>1. Get(ser[m][i], "reliability") \in 0..10
          BY <1>2 DEF Get
        <5>2. Get(ser[m][i], "reliability") # None
          BY <5>1, ValuesAssumption
        <5>. QED BY <1>4, <5>2 DEF Qualifies
      <4>. QED BY <4>1
    <3>. QED BY <3>1, Zenon DEF Qualifying
  <2>2. Measured(ser, floor) = [m \in DOMAIN ser |-> Kept(ser[m], {i \in DOMAIN ser[m] : ser[m][i]["reliability"] >= floor})]
    BY <1>4, Zenon DEF Measured
  <2>3. FlipSeries(ser, floor) = [m \in DOMAIN ser |-> Qualifying(ser[m], floor)]
    BY Zenon DEF FlipSeries
  <2>. QED BY <2>1, <2>2, <2>3 DEF ser
<1>. QED BY <1>3, <1>4

(* The series of a board on which all points count are lists.              *)
LEMMA MeasuredAreLists ==
  ASSUME NEW s, s.profile = "modeldrift", AsMeasured(s), BoardAnswers(s), NEW floor \in {None} \cup 0..9
  PROVE  /\ DOMAIN Measured(Series(s), floor) = DOMAIN Series(s)
         /\ \A m \in DOMAIN Series(s) : /\ IsList(Measured(Series(s), floor)[m])
                                        /\ Measured(Series(s), floor)[m] = Qualifying(Series(s)[m], floor)
<1>. DEFINE ser == Series(s)
<1>1. \A m \in DOMAIN ser : IsList(ser[m])
  BY BoardHas
<1>2. FlipSeries(ser, floor) = Measured(ser, floor)
  BY QualifyingIsMeasured
<1>. HIDE DEF ser
<1>3. FlipSeries(ser, floor) = [m \in DOMAIN ser |-> Qualifying(ser[m], floor)]
  BY Zenon DEF FlipSeries
<1>4. ASSUME NEW m \in DOMAIN ser PROVE IsList(Qualifying(ser[m], floor))
  <2>1. {i \in DOMAIN ser[m] : Qualifies(ser[m][i], floor)} \in SUBSET DOMAIN ser[m]
    OBVIOUS
  <2>. QED BY <1>1, <2>1, KeptIs DEF Qualifying
<1>. QED BY <1>2, <1>3, <1>4 DEF ser

(* Of every point, all points are kept.                                    *)
LEMMA AllQualify ==
  ASSUME NEW points, IsList(points)
  PROVE  Qualifying(points, None) = points
<1>1. {i \in DOMAIN points : Qualifies(points[i], None)} = DOMAIN points
  BY DEF Qualifies
<1>. QED BY <1>1, KeptAll, Zenon DEF Qualifying

LEMMA NothingQualifies ==
  ASSUME NEW floor
  PROVE  IsList(<<>>) /\ Qualifying(<<>>, floor) = <<>>
<1>1. IsList(<<>>)
  BY DEF IsList
<1>2. {i \in DOMAIN <<>> : Qualifies(<<>>[i], floor)} = {}
  OBVIOUS
<1>3. {} \in SUBSET DOMAIN <<>>
  OBVIOUS
<1>4. Len(Kept(<<>>, {})) = Cardinality({}) /\ IsList(Kept(<<>>, {}))
  BY <1>1, <1>3, KeptIs
<1>5. Cardinality({}) = 0
  BY FS_EmptySet
<1>6. Kept(<<>>, {}) = <<>>
  BY <1>4, <1>5 DEF IsList
<1>. QED BY <1>1, <1>2, <1>6, Zenon DEF Qualifying

(* The verdict of a row is that of the points that count.                  *)
Judgement(points) == Verdict(points, IF Len(points) < 2 THEN None
                                     ELSE points[Len(points)]["acc"] - points[Len(points) - 1]["acc"])

LEMMA StandingSays ==
  ASSUME NEW entry, NEW raw, NEW floor
  PROVE  /\ "verdict" \in DOMAIN Standing(entry, raw, floor)
         /\ Standing(entry, raw, floor)["verdict"] = Judgement(Qualifying(raw, floor))
<1>. DEFINE points == Qualifying(raw, floor)
            n      == Len(points)
            delta  == IF n < 2 THEN None ELSE points[n]["acc"] - points[n - 1]["acc"]
            graded == IF n = 0 THEN None ELSE Get(points[n], "graded")
            row    == [id |-> entry.id, label |-> IF entry.label = None THEN entry.id ELSE entry.label,
                       when |-> IF n = 0 THEN None ELSE points[n]["t"],
                       acc |-> IF n = 0 THEN None ELSE points[n]["acc"],
                       delta |-> delta, verdict |-> Verdict(points, delta), graded |-> graded,
                       min_detectable_pts |-> IF graded = None THEN None ELSE Rounded(100, graded, 1000),
                       below_floor |-> BelowFloor(delta, graded)]
            more   == IF floor = None THEN <<>> ELSE [latest_observed |-> LatestObserved(raw, floor)]
<1>1. Standing(entry, raw, floor) = Join(row, more)
  BY Zenon DEF Standing
<1>. DEFINE a == entry.id
            b == IF entry.label = None THEN entry.id ELSE entry.label
            c == IF n = 0 THEN None ELSE points[n]["t"]
            d == IF n = 0 THEN None ELSE points[n]["acc"]
            v == Verdict(points, delta)
            e == IF graded = None THEN None ELSE Rounded(100, graded, 1000)
            g == BelowFloor(delta, graded)
<1>2. row = [id |-> a, label |-> b, when |-> c, acc |-> d, delta |-> delta, verdict |-> v, graded |-> graded,
             min_detectable_pts |-> e, below_floor |-> g]
  BY Zenon
<1>3. v = Judgement(points)
  BY Zenon DEF Judgement
<1>. HIDE DEF row, more, a, b, c, d, e, g, v, delta, graded, n, points
<1>4. "verdict" \in DOMAIN row /\ row["verdict"] = v
  BY <1>2
<1>5. "verdict" \in DOMAIN Join(row, more) /\ Join(row, more)["verdict"] = row["verdict"]
  BY <1>4 DEF Join
<1>. QED BY <1>1, <1>3, <1>4, <1>5 DEF points

(* A pass over the rows a board published finds the verdicts the verifier  *)
(* gives.                                                                  *)
LEMMA VerdictsCounted ==
  ASSUME NEW s, s.profile = "modeldrift", AsMeasured(s), BoardAnswers(s), NEW floor \in {None} \cup 0..9,
         NEW v
  PROVE  CountIf(DriftBoard(Series(s), s.files.registry, Suite(s), floor).standings.rows,
                 LAMBDA row : row["verdict"] = v)
           = Tally(StandingsRows(Series(s), s.files.registry, floor), "verdict", v)
<1>. DEFINE ser   == Series(s)
            reg   == s.files.registry
            meas  == Measured(ser, floor)
            mine  == StandingsRows(ser, reg, floor)
            plain == StandingsRows(meas, reg, None)
            Seen(i) == SeriesOf(ser, reg[i].id)
            Lately(i) == IF Seen(i) = <<>> THEN None
                         ELSE LET p == Last(Seen(i))
                              IN  [when |-> p["t"], acc |-> p["acc"], reliability |-> p["reliability"],
                                   qualified |-> p["reliability"] >= floor]
            rows == [i \in DOMAIN reg |-> IF floor = None THEN plain[i] ELSE With(plain[i], "latest_observed", Lately(i))]
<1>1. DriftBoard(ser, reg, Suite(s), floor).standings.rows = rows
  <2>. DEFINE stand == [suite_version |-> Suite(s).suite_version, suite_hash |-> Suite(s).suite_hash,
                        min_detectable_pts_full_grade |-> Rounded(100, Suite(s).tasks, 1000), rows |-> rows]
              md == ResultsMd(rows, Suite(s).suite_version, floor)
              fl == FlipsWritten(meas)
  <2>1. DriftBoard(ser, reg, Suite(s), floor) = [standings |-> stand, results_md |-> md, flips |-> fl]
    BY Zenon DEF DriftBoard
  <2>. HIDE DEF md, fl, rows
  <2>. QED BY <2>1
<1>2. /\ IsList(reg) /\ DOMAIN meas = DOMAIN ser
      /\ \A m \in DOMAIN ser : IsList(meas[m]) /\ meas[m] = Qualifying(ser[m], floor)
  BY BoardHas, MeasuredAreLists
<1>. HIDE DEF ser, reg, meas
<1>3. ASSUME NEW m PROVE Qualifying(SeriesOf(meas, m), None) = Qualifying(SeriesOf(ser, m), floor)
  <2>1. CASE m \in DOMAIN ser
    BY <1>2, <2>1, AllQualify DEF SeriesOf
  <2>2. CASE m \notin DOMAIN ser
    BY <1>2, <2>2, NothingQualifies DEF SeriesOf
  <2>. QED BY <2>1, <2>2
<1>4. ASSUME NEW i \in DOMAIN reg
      PROVE  /\ "verdict" \in DOMAIN plain[i] /\ "verdict" \in DOMAIN mine[i]
             /\ plain[i]["verdict"] = mine[i]["verdict"]
  <2>1. plain[i] = Standing(reg[i], SeriesOf(meas, reg[i].id), None) /\ mine[i] = Standing(reg[i], SeriesOf(ser, reg[i].id), floor)
    BY Zenon DEF StandingsRows
  <2>. HIDE DEF plain, mine
  <2>. QED BY <1>3, <2>1, StandingSays
<1>5. DOMAIN mine = DOMAIN reg /\ DOMAIN rows = DOMAIN reg
  BY Zenon DEF StandingsRows
<1>6. ASSUME NEW i \in DOMAIN reg PROVE rows[i]["verdict"] = mine[i]["verdict"]
  <2>1. rows[i] = IF floor = None THEN plain[i] ELSE With(plain[i], "latest_observed", Lately(i))
    BY Zenon
  <2>2. With(plain[i], "latest_observed", Lately(i))["verdict"] = plain[i]["verdict"]
    <3>. HIDE DEF plain, Lately
    <3>. QED BY <1>4 DEF With, Join, plain, mine
  <2>. HIDE DEF rows, plain, mine, Lately
  <2>. QED BY <1>4, <2>1, <2>2 DEF plain, mine
<1>. HIDE DEF rows, mine, plain, Lately
<1>. DEFINE flags == [i \in DOMAIN rows |-> rows[i]["verdict"] = v]
<1>7. CountIf(rows, LAMBDA row : row["verdict"] = v) = Trues(flags)
  BY Zenon DEF CountIf
<1>8. Where(mine, "verdict", v) \in SUBSET DOMAIN reg /\ \A i \in DOMAIN reg : flags[i] <=> i \in Where(mine, "verdict", v)
  BY <1>4, <1>5, <1>6 DEF Where, Get, plain, mine
<1>9. DOMAIN flags = DOMAIN reg
  BY <1>5
<1>. HIDE DEF flags
<1>10. Trues(flags) = Cardinality(Where(mine, "verdict", v))
  <2>. DEFINE W == Where(mine, "verdict", v)
  <2>. HIDE DEF W
  <2>. QED BY <1>2, <1>8, <1>9, CountedAt DEF W
<1>. QED BY <1>1, <1>7, <1>10 DEF Tally, ser, reg, mine

(* Models whose history is long enough to turn.                            *)
LEMMA HistoryCounted ==
  ASSUME NEW points, IsList(points)
  PROVE  (CountIf(points, LAMBDA p : "fails" \in DOMAIN p) > 1) <=> (Len(Recorded(points)) >= 2)
<1>. DEFINE S == {i \in DOMAIN points : "fails" \in DOMAIN points[i]}
            flags == [i \in DOMAIN points |-> "fails" \in DOMAIN points[i]]
<1>1. S \in SUBSET DOMAIN points /\ DOMAIN flags = DOMAIN points /\ \A i \in DOMAIN points : flags[i] <=> i \in S
  OBVIOUS
<1>2. CountIf(points, LAMBDA p : "fails" \in DOMAIN p) = Trues(flags)
  BY Zenon DEF CountIf
<1>3. Recorded(points) = Kept(points, S)
  BY DEF Recorded
<1>. HIDE DEF S, flags
<1>4. Trues(flags) = Cardinality(S)
  BY <1>1, CountedAt
<1>5. Len(Recorded(points)) = Cardinality(S) /\ Cardinality(S) \in Nat
  BY <1>1, <1>3, KeptIs
<1>. QED BY <1>2, <1>4, <1>5

(* Flips counted between recorded points are those noted as the series was *)
(* read.                                                                   *)
LEMMA FlipsCounted ==
  ASSUME NEW ser, \A m \in DOMAIN ser : IsList(ser[m])
  PROVE  Flips(ser) = FlipsWritten(ser)
<1>. DEFINE M     == {m \in DOMAIN ser : ~ Mock(m)}
            all   == UNION {FlipsOf(m, ser[m]) : m \in M}
            noted == UNION {FlipsNoted(m, ser[m]) : m \in M}
            long  == {m \in DOMAIN ser : Len(Recorded(ser[m])) >= 2}
            many  == {m \in DOMAIN ser : CountIf(ser[m], LAMBDA p : "fails" \in DOMAIN p) > 1}
<1>1. \A m \in M : /\ FlipsNoted(m, ser[m]) = FlipsOf(m, ser[m])
                   /\ \A row \in FlipsOf(m, ser[m]) : row.flips \in Nat \ {0}
  BY FlipsAreNoted
<1>2. noted = all /\ \A row \in all : row.flips \in Nat \ {0}
  <2>. HIDE DEF M
  <2>. QED BY <1>1
<1>3. many = long
  BY HistoryCounted
<1>4. {row \in all : row.flips > 1} = {row \in all : row.flips >= 2} /\ {row \in all : row.flips = 1} = {row \in all : row.flips < 2}
  <2>. HIDE DEF all, noted
  <2>. QED BY <1>2
<1>5. Flips(ser) = [repeat_offenders |-> {row \in all : row.flips > 1}, one_offs |-> {row \in all : row.flips = 1},
                    probe_alarms |-> ProbeAlarms(ser), models_with_enough_history |-> Cardinality(long)]
  BY Zenon DEF Flips
<1>6. FlipsWritten(ser) = [repeat_offenders |-> {row \in noted : row.flips >= 2}, one_offs |-> {row \in noted : row.flips < 2},
                           probe_alarms |-> ProbeAlarms(ser), models_with_enough_history |-> Cardinality(many)]
  BY Zenon DEF FlipsWritten
<1>. HIDE DEF all, noted, long, many
<1>. QED BY <1>2, <1>3, <1>4, <1>5, <1>6

(* model-drift: what the verifier derives from the points that count is    *)
(* what the board says, which was written as if the others had never been. *)
LEMMA DriftRecounted ==
  ASSUME NEW s, s.profile = "modeldrift", AsMeasured(s), Answered(CheckModelDrift(s))
  PROVE  CheckModelDrift(s).pool = DriftCitable(s)
<1>. DEFINE ser   == Series(s)
            reg   == s.files.registry
            floor == FloorOf(s)
            meas  == Measured(ser, floor)
            rows  == DriftRows(s)
            flips == DriftFlips(s)
            board == DriftBoard(ser, reg, Suite(s), floor)
            V(v)  == Tally(rows, "verdict", v)
            B(v)  == CountIf(board.standings.rows, LAMBDA row : row["verdict"] = v)
            pts   == MapThenSumSet(LAMBDA m : Len(ser[m]), DOMAIN ser)
            added == FoldFunction(LAMBDA p, n : Len(p) + n, 0, ser)
            min   == Rounded(100, TaskCount(s), 1000)
            alarms == Cardinality(flips.probe_alarms)
            repeats == Cardinality(flips.repeat_offenders)
            ones   == Cardinality(flips.one_offs)
            hist   == flips.models_with_enough_history
            fired  == s.files.narrative.sentences
            nser   == Cardinality(DOMAIN ser)
<1>1. /\ BoardAnswers(s) /\ floor \in {None} \cup 0..9
      /\ CheckModelDrift(s).pool = PoolOf(DriftRecount(s, rows, flips))
  BY DriftAnswers
<1>2. IsList(reg) /\ Suite(s).tasks = TaskCount(s)
  BY <1>1, BoardHas
<1>3. flips = FlipsWritten(meas)
  <2>1. FlipSeries(ser, floor) = meas
    BY <1>1, QualifyingIsMeasured
  <2>2. \A m \in DOMAIN meas : IsList(meas[m])
    BY <1>1, MeasuredAreLists
  <2>. HIDE DEF meas
  <2>3. Flips(meas) = FlipsWritten(meas)
    BY <2>2, FlipsCounted
  <2>. QED BY <2>1, <2>3, Zenon DEF DriftFlips
<1>4. board.flips = flips
  <2>. DEFINE F == FlipsWritten(meas)
  <2>. HIDE DEF F
  <2>1. board.flips = F
    BY DEF DriftBoard, F
  <2>. QED BY <1>3, <2>1 DEF F
<1>5. \A v : B(v) = V(v)
  BY <1>1, VerdictsCounted DEF DriftRows
<1>6. Len(rows) = Len(reg)
  <2>1. rows = [i \in DOMAIN reg |-> Standing(reg[i], SeriesOf(ser, reg[i].id), floor)]
    BY Zenon DEF DriftRows, StandingsRows
  <2>2. Len(reg) \in Nat /\ DOMAIN reg = 1..Len(reg)
    BY <1>2, ListIs
  <2>. HIDE DEF ser, reg, floor
  <2>3. rows \in Seq(ToSet(rows)) /\ DOMAIN rows = 1..Len(reg)
    BY <2>1, <2>2 DEF ToSet
  <2>. HIDE DEF rows
  <2>. QED BY <2>2, <2>3
<1>7. pts = added
  BY Zenon DEF MapThenSumSet, FoldFunction, FoldFunctionOnSet, MapThenFoldSet
<1>8. DriftRecount(s, rows, flips) =
        [rows |-> Len(rows), regressed |-> V("regressed"), improved |-> V("improved"), unchanged |-> V("unchanged"),
         baseline |-> V("baseline"), no_data |-> V("no-data"), series |-> nser, points |-> pts,
         tasks |-> TaskCount(s), min_detectable_pts_full_grade |-> min, probe_alarms |-> alarms,
         repeat_offenders |-> repeats, one_offs |-> ones, models_with_enough_history |-> hist, claims_fired |-> fired]
  BY Zenon DEF DriftRecount
<1>9. DriftCitable(s) = PoolOf(
        [rows |-> Len(reg), regressed |-> B("regressed"), improved |-> B("improved"), unchanged |-> B("unchanged"),
         baseline |-> B("baseline"), no_data |-> B("no-data"), series |-> nser, points |-> added,
         tasks |-> Suite(s).tasks, min_detectable_pts_full_grade |-> Rounded(100, Suite(s).tasks, 1000),
         probe_alarms |-> Cardinality(board.flips.probe_alarms),
         repeat_offenders |-> Cardinality(board.flips.repeat_offenders),
         one_offs |-> Cardinality(board.flips.one_offs),
         models_with_enough_history |-> board.flips.models_with_enough_history, claims_fired |-> fired])
  BY Zenon DEF DriftCitable, Series, Suite, FloorOf
<1>10. /\ B("regressed") = V("regressed") /\ B("improved") = V("improved") /\ B("unchanged") = V("unchanged")
       /\ B("baseline") = V("baseline") /\ B("no-data") = V("no-data")
  BY <1>5
<1>. DEFINE mine == [rows |-> Len(rows), regressed |-> V("regressed"), improved |-> V("improved"),
                     unchanged |-> V("unchanged"),
         baseline |-> V("baseline"), no_data |-> V("no-data"), series |-> nser, points |-> pts,
         tasks |-> TaskCount(s), min_detectable_pts_full_grade |-> min, probe_alarms |-> alarms,
         repeat_offenders |-> repeats, one_offs |-> ones, models_with_enough_history |-> hist, claims_fired |-> fired]
<1>. HIDE DEF board, flips, rows, V, B, ser, reg, pts, added, nser, fired
<1>11. DriftRecount(s, rows, flips) = mine
  BY <1>8
<1>12. mine = [rows |-> Len(reg), regressed |-> B("regressed"), improved |-> B("improved"), unchanged |-> B("unchanged"),
         baseline |-> B("baseline"), no_data |-> B("no-data"), series |-> nser, points |-> added,
         tasks |-> Suite(s).tasks, min_detectable_pts_full_grade |-> Rounded(100, Suite(s).tasks, 1000),
         probe_alarms |-> Cardinality(board.flips.probe_alarms),
         repeat_offenders |-> Cardinality(board.flips.repeat_offenders),
         one_offs |-> Cardinality(board.flips.one_offs),
         models_with_enough_history |-> board.flips.models_with_enough_history, claims_fired |-> fired]
  BY <1>2, <1>4, <1>6, <1>7, <1>10
<1>. HIDE DEF mine
<1>13. DriftCitable(s) = PoolOf(mine)
  BY <1>9, <1>12, Zenon
<1>14. CheckModelDrift(s).pool = PoolOf(mine)
  BY <1>1, <1>11, Zenon
<1>. QED BY <1>13, <1>14, Zenon

(* The image of a finite set.                                              *)
LEMMA ImageIsFinite ==
  ASSUME NEW D, IsFiniteSet(D), NEW f, DOMAIN f = D
  PROVE  IsFiniteSet({f[x] : x \in D})
<1>1. [x \in D |-> f[x]] \in Surjection(D, {f[x] : x \in D})
  BY DEF Surjection
<1>. QED BY <1>1, FS_Surjection

(* Every point that is kept is a point of the series.                      *)
LEMMA KeptFrom ==
  ASSUME NEW rows, IsList(rows), NEW S \in SUBSET DOMAIN rows, NEW k \in DOMAIN Kept(rows, S)
  PROVE  \E i \in DOMAIN rows : Kept(rows, S)[k] = rows[i]
BY KeptIs

(* Fails of points that count are tasks of the suite.                      *)
FailsAreOf(points, tasks) == \A i \in DOMAIN points : FailsOf(points[i]) \in SUBSET tasks

LEMMA FailsAreTasks ==
  ASSUME NEW s, s.profile = "modeldrift", AsMeasured(s), BoardAnswers(s), NEW floor \in {None} \cup 0..9
  PROVE  \A m \in DOMAIN Series(s) : FailsAreOf(Measured(Series(s), floor)[m], Tasks(s))
<1>. DEFINE ser == Series(s)
            T   == Tasks(s)
<1>1. /\ \A m \in DOMAIN ser : IsList(ser[m])
      /\ \A m \in DOMAIN ser : \A i \in DOMAIN ser[m] : ~ PointIncoherent(s, m, i)
  BY BoardHas
<1>2. \A m \in DOMAIN ser : FailsAreOf(ser[m], T)
  BY <1>1, PointHas DEF FailsAreOf
<1>3. \A m \in DOMAIN ser : Measured(ser, floor)[m] = Qualifying(ser[m], floor)
  BY MeasuredAreLists
<1>. HIDE DEF ser, T
<1>4. ASSUME NEW m \in DOMAIN ser PROVE FailsAreOf(Qualifying(ser[m], floor), T)
  <2>. DEFINE S == {i \in DOMAIN ser[m] : Qualifies(ser[m][i], floor)}
  <2>1. S \in SUBSET DOMAIN ser[m] /\ Qualifying(ser[m], floor) = Kept(ser[m], S)
    BY DEF Qualifying
  <2>. HIDE DEF S
  <2>. QED BY <1>1, <1>2, <2>1, KeptFrom DEF FailsAreOf
<1>. QED BY <1>3, <1>4 DEF ser, T

(* A series has finitely many flips.                                       *)
LEMMA FlipsAreFinite ==
  ASSUME NEW model, NEW points, IsList(points), NEW tasks, IsFiniteSet(tasks), FailsAreOf(points, tasks)
  PROVE  IsFiniteSet(FlipsOf(model, points))
<1>. DEFINE S    == {i \in DOMAIN points : "fails" \in DOMAIN points[i]}
            seen == Recorded(points)
            T    == UNION {Flipped(seen, i) : i \in 1..Len(seen) - 1}
            turns    == 1..Len(seen) - 1
            At(task) == {i \in turns : task \in Flipped(seen, i)}
            LastAt(task) == CHOOSE i \in At(task) : \A j \in At(task) : j <= i
            Row(task) == [model |-> model, task |-> task, flips |-> Cardinality(At(task)),
                          broke |-> task \in FailsOf(seen[LastAt(task) + 1]), day |-> seen[LastAt(task) + 1]["t"]]
<1>1. IsList(seen) /\ FailsAreOf(seen, tasks)
  <2>1. S \in SUBSET DOMAIN points /\ seen = Kept(points, S)
    BY DEF Recorded
  <2>. HIDE DEF S, seen
  <2>. QED BY <2>1, KeptIs, KeptFrom DEF FailsAreOf
<1>2. T \in SUBSET tasks
  <2>. HIDE DEF seen
  <2>1. Len(seen) \in Nat /\ DOMAIN seen = 1..Len(seen)
    BY <1>1, ListIs
  <2>2. \A i \in 1..Len(seen) - 1 : i \in DOMAIN seen /\ i + 1 \in DOMAIN seen
    BY <2>1
  <2>3. \A i \in 1..Len(seen) - 1 : Flipped(seen, i) \in SUBSET tasks
    BY <1>1, <2>2 DEF Flipped, FailsAreOf
  <2>. QED BY <2>3
<1>3. FlipsOf(model, points) = {Row(task) : task \in T}
  BY Zenon DEF FlipsOf
<1>. HIDE DEF T, Row
<1>4. IsFiniteSet(T)
  BY <1>2, FS_Subset
<1>. DEFINE f == [task \in T |-> Row(task)]
<1>5. IsFiniteSet({f[task] : task \in T})
  <2>1. DOMAIN f = T
    OBVIOUS
  <2>. HIDE DEF f
  <2>. QED BY <1>4, <2>1, ImageIsFinite
<1>6. {f[task] : task \in T} = {Row(task) : task \in T}
  OBVIOUS
<1>. QED BY <1>3, <1>5, <1>6

(* And a board finitely many alarms.                                       *)
LEMMA AlarmsAreFinite ==
  ASSUME NEW ser, IsFiniteSet(DOMAIN ser), \A m \in DOMAIN ser : IsList(ser[m]),
         NEW all, IsFiniteSet(all), \A m \in DOMAIN ser : FailsAreOf(ser[m], all)
  PROVE  IsFiniteSet(ProbeAlarms(ser))
<1>. DEFINE models == {m \in DOMAIN ser : ~ Mock(m)}
            Days(m) == {ser[m][i]["t"] : i \in DOMAIN ser[m]}
            days   == UNION {Days(m) : m \in models}
            tasks  == UNION {UNION {FailsOf(ser[m][i]) : i \in DOMAIN ser[m]} : m \in models}
            Providers(day, task) ==
              {ProviderOf[m] : m \in {m \in models : \E i \in DOMAIN ser[m] :
                                        ser[m][i]["t"] = day /\ task \in FailsOf(ser[m][i])}}
            X == {x \in days \X tasks : Cardinality(Providers(x[1], x[2])) >= 3}
            Alarm(x) == [day |-> x[1], task |-> x[2], providers |-> Providers(x[1], x[2])]
<1>1. ProbeAlarms(ser) = {Alarm(x) : x \in X}
  BY Zenon DEF ProbeAlarms
<1>2. models \in SUBSET DOMAIN ser /\ IsFiniteSet(models)
  <2>1. models \in SUBSET DOMAIN ser
    OBVIOUS
  <2>. HIDE DEF models
  <2>. QED BY <2>1, FS_Subset
<1>3. ASSUME NEW m \in models PROVE IsFiniteSet(Days(m))
  <2>1. IsFiniteSet(DOMAIN ser[m])
    BY ListIs
  <2>. DEFINE f == [i \in DOMAIN ser[m] |-> ser[m][i]["t"]]
  <2>2. DOMAIN f = DOMAIN ser[m] /\ {f[i] : i \in DOMAIN ser[m]} = Days(m)
    OBVIOUS
  <2>. HIDE DEF f, Days
  <2>. QED BY <2>1, <2>2, ImageIsFinite
<1>. HIDE DEF Days
<1>4. IsFiniteSet({Days(m) : m \in models})
  <2>. HIDE DEF models
  <2>. DEFINE f == [m \in models |-> Days(m)]
  <2>1. DOMAIN f = models /\ {f[m] : m \in models} = {Days(m) : m \in models}
    OBVIOUS
  <2>. HIDE DEF f
  <2>. QED BY <1>2, <2>1, ImageIsFinite
<1>5. IsFiniteSet(days)
  BY <1>3, <1>4, FS_UNION
<1>6. IsFiniteSet(tasks)
  <2>1. tasks \in SUBSET all
    BY DEF FailsAreOf
  <2>. HIDE DEF tasks
  <2>. QED BY <2>1, FS_Subset
<1>7. IsFiniteSet(X)
  <2>. HIDE DEF days, tasks, Providers
  <2>1. IsFiniteSet(days \X tasks)
    BY <1>5, <1>6, FS_Product
  <2>2. X \in SUBSET (days \X tasks)
    OBVIOUS
  <2>. HIDE DEF X
  <2>. QED BY <2>1, <2>2, FS_Subset
<1>. HIDE DEF X, Alarm
<1>. DEFINE f == [x \in X |-> Alarm(x)]
<1>8. DOMAIN f = X /\ {f[x] : x \in X} = {Alarm(x) : x \in X}
  OBVIOUS
<1>. HIDE DEF f
<1>. QED BY <1>1, <1>7, <1>8, ImageIsFinite

(* Points of all series are the sum of their lengths.                      *)
LEMMA LengthsAdded ==
  ASSUME NEW ser, IsFiniteSet(DOMAIN ser), \A m \in DOMAIN ser : IsList(ser[m])
  PROVE  MapThenSumSet(LAMBDA m : Len(ser[m]), DOMAIN ser) \in Nat
<1>. DEFINE S == DOMAIN ser
            f == [m \in S |-> Len(ser[m])]
            Some(s)  == CHOOSE x \in s : TRUE
            Sets(g)  == [s \in SUBSET S |-> IF s = {} THEN 0 ELSE Len(ser[Some(s)]) + g[s \ {Some(s)}]]
            Picks(g) == [s \in SUBSET S |-> IF s = {} THEN 0 ELSE f[Some(s)] + g[s \ {Some(s)}]]
            pts == MapThenSumSet(LAMBDA m : Len(ser[m]), S)
<1>1. pts = (CHOOSE g : g = Sets(g))[S]
  BY SMT DEF MapThenSumSet, MapThenFoldSet
<1>2. PickOf(f, S) = (CHOOSE g : g = Picks(g))[S]
  BY DEF PickOf
<1>3. ASSUME NEW g PROVE Sets(g) = Picks(g)
  <2>1. \A s \in SUBSET S : s # {} => Some(s) \in S
    OBVIOUS
  <2>. HIDE DEF Some
  <2>2. \A s \in SUBSET S : s # {} => f[Some(s)] = Len(ser[Some(s)])
    BY <2>1
  <2>. HIDE DEF f, S
  <2>. QED BY <2>2
<1>4. f \in [S -> Nat] /\ f \in [S -> Int]
  BY ListIs
<1>. HIDE DEF Sets, Picks, f, S, pts
<1>5. (CHOOSE g : g = Sets(g)) = (CHOOSE g : g = Picks(g))
  BY <1>3
<1>6. IsFiniteSet(S)
  BY DEF S
<1>7. PickOf(f, S) = SumOf(f, S)
  BY <1>4, <1>6, PickIsSum
<1>8. SumOf(f, S) \in Nat
  BY <1>4, <1>6, SumIsNat
<1>9. pts \in Nat
  BY <1>1, <1>2, <1>5, <1>7, <1>8
<1>. QED BY <1>9 DEF pts, S

(* The smallest movement that a suite of so many tasks can show.           *)
LEMMA FloorIsWhole ==
  ASSUME NEW n \in Nat \ {0}
  PROVE  Rounded(100, n, 1000) \in Int
<1>1. 100 \in Int /\ 1000 \in Nat
  OBVIOUS
<1>. QED BY <1>1, RoundedIsWhole

(* modeldrift: tallies, and what is finite of finite series.               *)
LEMMA DriftWhole ==
  ASSUME NEW s, s.profile = "modeldrift", AsMeasured(s), Answered(CheckModelDrift(s)),
         NEW x \in CheckModelDrift(s).pool
  PROVE  x[2] \in Int
<1>. DEFINE ser   == Series(s)
            floor == FloorOf(s)
            meas  == Measured(ser, floor)
            rows  == DriftRows(s)
            flips == DriftFlips(s)
            V(v)  == Tally(rows, "verdict", v)
            pts   == MapThenSumSet(LAMBDA m : Len(ser[m]), DOMAIN ser)
            min   == Rounded(100, TaskCount(s), 1000)
            alarms == Cardinality(flips.probe_alarms)
            repeats == Cardinality(flips.repeat_offenders)
            ones   == Cardinality(flips.one_offs)
            hist   == flips.models_with_enough_history
            fired  == s.files.narrative.sentences
            nser   == Cardinality(DOMAIN ser)
<1>1. /\ BoardAnswers(s) /\ floor \in {None} \cup 0..9
      /\ CheckModelDrift(s).pool = PoolOf(DriftRecount(s, rows, flips))
  BY DriftAnswers
<1>2. /\ IsList(s.files.registry) /\ TaskCount(s) \in Nat \ {0} /\ IsFiniteSet(Tasks(s)) /\ fired \in Nat
      /\ IsFiniteSet(DOMAIN ser) /\ \A m \in DOMAIN ser : IsList(ser[m])
  BY <1>1, BoardHas
<1>3. IsList(rows) /\ Len(rows) \in Nat
  <2>. DEFINE reg == s.files.registry
  <2>1. rows = [i \in DOMAIN reg |-> Standing(reg[i], SeriesOf(ser, reg[i].id), floor)]
    BY Zenon DEF DriftRows, StandingsRows
  <2>2. Len(reg) \in Nat /\ DOMAIN reg = 1..Len(reg)
    BY <1>2, ListIs
  <2>. HIDE DEF ser, reg, floor
  <2>3. rows \in Seq(ToSet(rows))
    BY <2>1, <2>2 DEF ToSet
  <2>. HIDE DEF rows
  <2>4. IsList(rows)
    BY <2>3 DEF IsList
  <2>. QED BY <2>4, ListIs
<1>4. \A v : V(v) \in Nat
  <2>. HIDE DEF rows
  <2>. QED BY <1>3, TallyIsWhole
<1>5. /\ DOMAIN meas = DOMAIN ser /\ \A m \in DOMAIN ser : IsList(meas[m])
      /\ \A m \in DOMAIN ser : FailsAreOf(meas[m], Tasks(s))
  BY <1>1, MeasuredAreLists, FailsAreTasks
<1>6. flips = Flips(meas)
  <2>1. FlipSeries(ser, floor) = meas
    BY <1>1, QualifyingIsMeasured
  <2>. QED BY <2>1, Zenon DEF DriftFlips
<1>7. nser \in Nat /\ pts \in Nat /\ min \in Int
  <2>1. nser \in Nat
    <3>. HIDE DEF ser
    <3>. QED BY <1>2, FS_CardinalityType
  <2>2. pts \in Nat
    BY <1>2, LengthsAdded
  <2>3. min \in Int
    BY <1>2, FloorIsWhole
  <2>. HIDE DEF nser, pts, min
  <2>. QED BY <2>1, <2>2, <2>3
<1>. HIDE DEF meas, ser
<1>8. alarms \in Nat /\ repeats \in Nat /\ ones \in Nat /\ hist \in Nat
  <2>. DEFINE M    == {m \in DOMAIN meas : ~ Mock(m)}
              all  == UNION {FlipsOf(m, meas[m]) : m \in M}
              long == {m \in DOMAIN meas : Len(Recorded(meas[m])) >= 2}
              many == {row \in all : row.flips > 1}
              once == {row \in all : row.flips = 1}
  <2>1. flips = [repeat_offenders |-> many, one_offs |-> once,
                 probe_alarms |-> ProbeAlarms(meas), models_with_enough_history |-> Cardinality(long)]
    BY <1>6, Zenon DEF Flips
  <2>2. M \in SUBSET DOMAIN meas /\ long \in SUBSET DOMAIN meas /\ many \in SUBSET all /\ once \in SUBSET all
    OBVIOUS
  <2>3. IsFiniteSet(ProbeAlarms(meas))
    BY <1>2, <1>5, AlarmsAreFinite
  <2>4. \A m \in M : IsFiniteSet(FlipsOf(m, meas[m]))
    BY <1>2, <1>5, FlipsAreFinite
  <2>. HIDE DEF long, M, many, once
  <2>5. IsFiniteSet(M) /\ IsFiniteSet(long)
    BY <1>2, <1>5, <2>2, FS_Subset
  <2>6. IsFiniteSet({FlipsOf(m, meas[m]) : m \in M})
    <3>. DEFINE f == [m \in M |-> FlipsOf(m, meas[m])]
    <3>1. DOMAIN f = M /\ {f[m] : m \in M} = {FlipsOf(m, meas[m]) : m \in M}
      OBVIOUS
    <3>. HIDE DEF f
    <3>. QED BY <2>5, <3>1, ImageIsFinite
  <2>7. IsFiniteSet(all)
    BY <2>4, <2>6, FS_UNION
  <2>. HIDE DEF all
  <2>8. IsFiniteSet(many) /\ IsFiniteSet(once)
    BY <2>2, <2>7, FS_Subset
  <2>9. Cardinality(many) \in Nat /\ Cardinality(once) \in Nat /\ Cardinality(long) \in Nat /\ Cardinality(ProbeAlarms(meas)) \in Nat
    BY <2>3, <2>5, <2>8, FS_CardinalityType
  <2>. HIDE DEF flips
  <2>. QED BY <2>1, <2>9
<1>. DEFINE R == [rows |-> Len(rows), regressed |-> V("regressed"), improved |-> V("improved"),
                  unchanged |-> V("unchanged"),
         baseline |-> V("baseline"), no_data |-> V("no-data"), series |-> nser, points |-> pts,
         tasks |-> TaskCount(s), min_detectable_pts_full_grade |-> min, probe_alarms |-> alarms,
         repeat_offenders |-> repeats, one_offs |-> ones, models_with_enough_history |-> hist, claims_fired |-> fired]
<1>9. DriftRecount(s, rows, flips) = R
  BY Zenon DEF DriftRecount, ser
<1>. HIDE DEF rows, flips, V, pts, min, alarms, repeats, ones, hist, fired, nser
<1>10. \A k \in DOMAIN R : R[k] \in Int
  BY <1>2, <1>3, <1>4, <1>7, <1>8
<1>. HIDE DEF R
<1>11. x \in PoolOf(R)
  BY <1>1, <1>9
<1>. QED BY <1>10, <1>11 DEF PoolOf

(* JSON's null is not an object.                                           *)
NoneIsNoObject == \A obj : obj = [k \in DOMAIN obj |-> obj[k]] => obj # None

(* Days of a series that is coherent do not fall.                          *)
LEMMA DaysRise ==
  ASSUME NEW s, s.profile = "modeldrift", AsMeasured(s), BoardAnswers(s), NEW m \in DOMAIN Series(s),
         NEW a \in DOMAIN Series(s)[m], NEW b \in DOMAIN Series(s)[m], a < b
  PROVE  Series(s)[m][a]["t"] <= Series(s)[m][b]["t"]
<1>. DEFINE points == Series(s)[m]
            t(i)   == points[i]["t"]
            N      == Len(points)
            Fails  == {k \in Nat : k \in 1..N /\ a < k /\ ~(t(a) <= t(k))}
<1>1. /\ IsList(points)
      /\ \A i \in DOMAIN points : ~ PointIncoherent(s, m, i) /\ t(i) \in Int
  BY BoardHas
<1>2. N \in Nat /\ DOMAIN points = 1..N
  BY <1>1, ListIs
<1>3. ASSUME NEW i \in DOMAIN points, i > 1, i - 1 \in DOMAIN points PROVE t(i - 1) <= t(i)
  <2>1. t(i) \in Int /\ t(i - 1) \in Int /\ t(i - 1) # Junk
    BY <1>1, <1>3, ValuesAssumption
  <2>2. ~(t(i) < t(i - 1))
    <3>. SUFFICES ASSUME t(i) < t(i - 1) PROVE PointIncoherent(s, m, i)
      BY <1>1
    <3>. QED BY <1>3, <2>1 DEF PointIncoherent
  <2>. HIDE DEF t
  <2>. QED BY <2>1, <2>2
<1>. HIDE DEF t, N
<1>4. Fails = {}
  <2>. SUFFICES ASSUME Fails # {} PROVE FALSE
    OBVIOUS
  <2>1. PICK k \in Fails : \A l \in Fails : k <= l
    <3>1. Fails \subseteq Nat
      OBVIOUS
    <3>. HIDE DEF Fails
    <3>. QED BY <3>1, LeastNatural
  <2>2. k \in 1..N /\ a < k /\ ~(t(a) <= t(k)) /\ a \in 1..N /\ k - 1 \in 1..N /\ k > 1
    BY <1>2, <2>1
  <2>3. t(k - 1) <= t(k) /\ t(k) \in Int /\ t(k - 1) \in Int /\ t(a) \in Int
    BY <1>1, <1>2, <1>3, <2>2
  <2>4. a = k - 1 \/ (a < k - 1 /\ t(a) <= t(k - 1))
    <3>1. k - 1 \notin Fails
      BY <2>1, <2>2
    <3>. QED BY <2>2, <3>1
  <2>. QED BY <2>2, <2>3, <2>4
<1>5. t(a) <= t(b)
  <2>1. b \in 1..N /\ b \in Nat /\ b \notin Fails
    BY <1>2, <1>4
  <2>. QED BY <2>1
<1>. QED BY <1>5 DEF t

(* The history without the points that do not count: the same files but    *)
(* for its series, which are those that count.                             *)
LEMMA WithoutOutagesIs ==
  ASSUME NEW s, s.profile = "modeldrift", s.version = "0.2", AsMeasured(s), BoardAnswers(s), FloorOf(s) \in 0..9
  PROVE  LET u == WithoutOutages(s)
         IN  /\ DOMAIN u = DOMAIN s /\ \A k \in DOMAIN s : k # "files" => u[k] = s[k]
             /\ DOMAIN u.files = DOMAIN s.files
             /\ \A file \in DOMAIN s.files : file # "metrics" => u.files[file] = s.files[file]
             /\ u.files["metrics"] = With(s.files["metrics"], "series", Measured(Series(s), FloorOf(s)))
<1>. DEFINE u     == WithoutOutages(s)
            ser   == Series(s)
            mets  == s.files["metrics"]
            floor == s.check["rel_floor"]
            Up(points) == Kept(points, {i \in DOMAIN points : points[i]["reliability"] >= floor})
            meas  == [m \in DOMAIN ser |-> Up(ser[m])]
            new   == With(mets, "series", meas)
<1>1. u = [s EXCEPT !.files = With(s.files, "metrics", new)]
  BY Zenon DEF WithoutOutages, Series
<1>2. "files" \in DOMAIN s /\ "metrics" \in DOMAIN s.files
  <2>1. BoardRead(s.files) /\ "files" \in DOMAIN s
    BY DEF AsMeasured
  <2>2. ~ \E file \in DOMAIN s.files : s.files[file] = None
    BY DEF BoardAnswers
  <2>. DEFINE f == s.files
  <2>3. BoardFiles \subseteq DOMAIN f
    <3>. HIDE DEF f
    <3>1. BoardRead(f) /\ ~ \E file \in DOMAIN f : f[file] = None
      BY <2>1, <2>2 DEF f
    <3>. QED BY <3>1, Zenon DEF BoardRead
  <2>. HIDE DEF f
  <2>4. "metrics" \in DOMAIN f
    BY <2>3 DEF BoardFiles
  <2>. QED BY <2>1, <2>4 DEF f
<1>3. FloorOf(s) = floor /\ floor # None
  <2>1. FloorOf(s) = floor
    BY DEF FloorOf
  <2>. QED BY <2>1, ValuesAssumption
<1>4. meas = Measured(ser, floor)
  BY <1>3, Zenon DEF Measured
<1>. HIDE DEF u, new
<1>5. DOMAIN u = DOMAIN s /\ u.files = With(s.files, "metrics", new) /\ \A k \in DOMAIN s : k # "files" => u[k] = s[k]
  BY <1>1, <1>2
<1>6. /\ DOMAIN With(s.files, "metrics", new) = DOMAIN s.files
      /\ With(s.files, "metrics", new)["metrics"] = new
      /\ \A file \in DOMAIN s.files : file # "metrics" => With(s.files, "metrics", new)[file] = s.files[file]
  <2>. DEFINE f == s.files
              w == With(f, "metrics", new)
  <2>1. /\ DOMAIN w = DOMAIN f \cup {"metrics"} /\ w["metrics"] = new
        /\ \A k \in DOMAIN f : k # "metrics" => w[k] = f[k]
    <3>. HIDE DEF f
    <3>. QED BY DEF With, Join
  <2>. HIDE DEF w
  <2>2. DOMAIN w = DOMAIN f
    BY <1>2, <2>1
  <2>. QED BY <2>1, <2>2, Zenon DEF w
<1>7. new = With(s.files["metrics"], "series", Measured(Series(s), FloorOf(s)))
  BY <1>3, <1>4, Zenon DEF new
<1>8. DOMAIN u.files = DOMAIN s.files
  BY <1>5, <1>6
<1>9. u.files["metrics"] = With(s.files["metrics"], "series", Measured(Series(s), FloorOf(s)))
  BY <1>5, <1>6, <1>7, Zenon
<1>10. \A file \in DOMAIN s.files : file # "metrics" => u.files[file] = s.files[file]
  BY <1>5, <1>6
<1>. QED BY <1>5, <1>8, <1>9, <1>10, Zenon DEF u

(* What is kept of a coherent history is coherent.                         *)
LEMMA KeptIsCoherent ==
  ASSUME NEW s, s.profile = "modeldrift", AsMeasured(s), BoardAnswers(s),
         NEW u, Suite(u) = Suite(s), NEW floor \in {None} \cup 0..9, Series(u) = Measured(Series(s), floor)
  PROVE  /\ Coherent(u)
         /\ \A m \in DOMAIN Series(u) : \A i \in DOMAIN Series(u)[m] :
              "t" \in DOMAIN Series(u)[m][i] /\ Series(u)[m][i]["t"] \in Int
<1>1. Tasks(u) = Tasks(s) /\ TaskCount(u) = TaskCount(s)
  BY DEF Tasks, TaskCount
<1>2. /\ DOMAIN Series(u) = DOMAIN Series(s)
      /\ \A m \in DOMAIN Series(s) : Series(u)[m] = Qualifying(Series(s)[m], floor)
      /\ \A m \in DOMAIN Series(s) : IsList(Series(s)[m])
      /\ \A m \in DOMAIN Series(s) : \A i \in DOMAIN Series(s)[m] :
              /\ ~ PointIncoherent(s, m, i)
              /\ "t" \in DOMAIN Series(s)[m][i] /\ Series(s)[m][i]["t"] \in Int
  BY MeasuredAreLists, BoardHas
<1>3. ASSUME NEW m \in DOMAIN Series(s), NEW k \in DOMAIN Series(u)[m]
      PROVE  /\ ~ PointIncoherent(u, m, k)
             /\ "t" \in DOMAIN Series(u)[m][k] /\ Series(u)[m][k]["t"] \in Int
  <2>. DEFINE old == Series(s)[m]
              new == Series(u)[m]
              S   == {i \in DOMAIN old : Qualifies(old[i], floor)}
              at  == Place(S, k)
              bef == Place(S, k - 1)
  <2>1. new = Kept(old, S) /\ S \in SUBSET DOMAIN old /\ IsList(old)
    BY <1>2 DEF Qualifying
  <2>. HIDE DEF S
  <2>2. Cardinality(S) \in Nat /\ k \in 1..Cardinality(S)
    BY <2>1, KeptIs
  <2>3. /\ at \in S /\ new[k] = old[at]
        /\ k > 1 => bef \in S /\ new[k - 1] = old[bef] /\ bef < at
    <3>1. at \in S /\ new[k] = old[at]
      BY <2>1, <2>2, KeptIs
    <3>2. ASSUME k > 1 PROVE bef \in S /\ new[k - 1] = old[bef] /\ bef < at
      <4>1. k - 1 \in 1..Cardinality(S) /\ k - 1 < k
        BY <2>2, <3>2
      <4>. QED BY <2>1, <2>2, <4>1, KeptIs
    <3>. QED BY <3>1, <3>2
  <2>4. at \in DOMAIN old /\ ~ PointIncoherent(s, m, at) /\ "t" \in DOMAIN old[at] /\ old[at]["t"] \in Int
    BY <1>2, <2>1, <2>3
  <2>5. k > 1 => ~(old[at]["t"] < old[bef]["t"])
    <3>. SUFFICES ASSUME k > 1 PROVE ~(old[at]["t"] < old[bef]["t"])
      OBVIOUS
    <3>1. bef \in DOMAIN old /\ bef < at
      BY <2>1, <2>3
    <3>2. old[bef]["t"] <= old[at]["t"]
      BY <2>4, <3>1, DaysRise
    <3>3. old[bef]["t"] \in Int
      BY <1>2, <3>1
    <3>. HIDE DEF at, bef, old
    <3>. QED BY <2>4, <3>2, <3>3
  <2>6. ~ PointIncoherent(u, m, k)
    <3>. SUFFICES ASSUME PointIncoherent(u, m, k) PROVE FALSE
      OBVIOUS
    <3>1. ~(k > 1 /\ Series(u)[m][k - 1]["t"] # Junk /\ Series(u)[m][k]["t"] < Series(u)[m][k - 1]["t"])
      BY <2>3, <2>5, Zenon
    <3>2. Series(u)[m][k] = Series(s)[m][at]
      BY <2>3
    <3>. HIDE DEF at, bef, old, new
    <3>3. PointIncoherent(s, m, at)
      BY <1>1, <3>1, <3>2 DEF PointIncoherent
    <3>. QED BY <2>4, <3>3
  <2>. QED BY <2>3, <2>4, <2>6
<1>. QED BY <1>2, <1>3 DEF Coherent

(* A point that counts goes on counting.                                   *)
LEMMA KeptQualify ==
  ASSUME NEW points, IsList(points), NEW floor
  PROVE  IsList(Qualifying(points, floor)) /\ Qualifying(Qualifying(points, floor), floor) = Qualifying(points, floor)
<1>. DEFINE S    == {i \in DOMAIN points : Qualifies(points[i], floor)}
            kept == Qualifying(points, floor)
<1>1. kept = Kept(points, S) /\ S \in SUBSET DOMAIN points /\ \A i \in S : Qualifies(points[i], floor)
  BY DEF Qualifying
<1>. HIDE DEF S, kept
<1>2. IsList(kept) /\ \A k \in DOMAIN kept : Qualifies(kept[k], floor)
  BY <1>1, KeptIs
<1>3. {k \in DOMAIN kept : Qualifies(kept[k], floor)} = DOMAIN kept
  BY <1>2
<1>4. Qualifying(kept, floor) = Kept(kept, DOMAIN kept)
  BY <1>3, Zenon DEF Qualifying
<1>5. Kept(kept, DOMAIN kept) = kept
  BY <1>2, KeptAll
<1>. QED BY <1>2, <1>4, <1>5 DEF kept

(* A history without its outages is measured, and answered.                *)
LEMMA OutageAnswered ==
  ASSUME NoneIsNoObject,
         NEW s, s.profile = "modeldrift", s.version = "0.2", AsMeasured(s), BoardAnswers(s), FloorOf(s) \in 0..9
  PROVE  LET u == WithoutOutages(s)
         IN  /\ AsMeasured(u) /\ BoardAnswers(u) /\ u.profile = "modeldrift" /\ FloorOf(u) = FloorOf(s)
             /\ Suite(u) = Suite(s) /\ Series(u) = Measured(Series(s), FloorOf(s))
             /\ u.files["registry"] = s.files["registry"] /\ u.files["narrative"] = s.files["narrative"]
<1>. DEFINE u     == WithoutOutages(s)
            floor == FloorOf(s)
            meas  == Measured(Series(s), floor)
            mets  == s.files["metrics"]
            new   == With(mets, "series", meas)
            f     == s.files
            g     == u.files
<1>1. /\ DOMAIN u = DOMAIN s /\ \A k \in DOMAIN s : k # "files" => u[k] = s[k]
      /\ DOMAIN g = DOMAIN f /\ \A file \in DOMAIN f : file # "metrics" => g[file] = f[file]
      /\ g["metrics"] = new
  BY WithoutOutagesIs, Zenon
<1>2. /\ {"profile", "check", "hashes", "files", "version"} \subseteq DOMAIN s
      /\ BoardRead(f) /\ ~ \E file \in DOMAIN f : f[file] = None
  BY DEF AsMeasured, BoardAnswers
<1>3. /\ {"metrics", "registry", "narrative", "results_md", "fingerprint"} \subseteq DOMAIN f
      /\ "series" \in DOMAIN mets /\ "task_ids" \in DOMAIN f["fingerprint"]
      /\ "sentences" \in DOMAIN f["narrative"] /\ f["narrative"]["sentences"] \in Nat
      /\ "html" \in DOMAIN f["narrative"] /\ IsList(f["narrative"]["html"])
      /\ IsList(f["registry"]) /\ IsList(f["fingerprint"]["task_ids"]) /\ f["fingerprint"]["task_ids"] # <<>>
      /\ {"standings", "flips"} \subseteq DOMAIN f
  <2>1. /\ BoardFiles \subseteq DOMAIN f
        /\ "series" \in DOMAIN f["metrics"] /\ "task_ids" \in DOMAIN f["fingerprint"]
        /\ "sentences" \in DOMAIN f["narrative"] /\ f["narrative"]["sentences"] \in Nat
        /\ "html" \in DOMAIN f["narrative"] /\ IsList(f["narrative"]["html"])
        /\ IsList(f["registry"]) /\ IsList(f["fingerprint"]["task_ids"]) /\ f["fingerprint"]["task_ids"] # <<>>
    <3>. HIDE DEF f
    <3>. QED BY <1>2, Zenon DEF BoardRead
  <2>. HIDE DEF f
  <2>2. mets = f["metrics"]
    BY DEF f
  <2>. QED BY <2>1, <2>2 DEF BoardFiles
<1>4. /\ DOMAIN Series(s) = DOMAIN meas /\ IsFiniteSet(DOMAIN meas)
      /\ \A m \in DOMAIN meas : IsList(meas[m])
  BY BoardHas, MeasuredAreLists
<1>5. floor # None
  BY ValuesAssumption
<1>6. meas = [m \in DOMAIN meas |-> meas[m]]
  <2>. DEFINE Up(m) == Kept(Series(s)[m], {i \in DOMAIN Series(s)[m] : Series(s)[m][i]["reliability"] >= floor})
  <2>1. meas = [m \in DOMAIN Series(s) |-> Up(m)]
    BY <1>5, Zenon DEF Measured
  <2>. HIDE DEF meas, Up
  <2>. QED BY <2>1
<1>7. new["series"] = meas /\ "series" \in DOMAIN new /\ Get(new, "rel_floor") = Get(mets, "rel_floor") /\ new # None
  <2>. HIDE DEF meas, mets
  <2>1. new["series"] = meas /\ "series" \in DOMAIN new
    BY DEF With, Join
  <2>2. Get(new, "rel_floor") = Get(mets, "rel_floor")
    BY DEF With, Join, Get
  <2>3. new = [k \in DOMAIN new |-> new[k]]
    BY DEF With, Join
  <2>. HIDE DEF new
  <2>. QED BY <2>1, <2>2, <2>3 DEF NoneIsNoObject
<1>. HIDE DEF u, meas, new, mets, f, g
<1>8. u.profile = s.profile /\ u.check = s.check /\ u.hashes = s.hashes /\ u.version = s.version
  BY <1>1, <1>2
<1>9. /\ g["registry"] = f["registry"] /\ g["narrative"] = f["narrative"] /\ g["results_md"] = f["results_md"]
      /\ g["fingerprint"] = f["fingerprint"]
  BY <1>1, <1>3
<1>10. Suite(u) = Suite(s) /\ Series(u) = meas /\ FloorOf(u) = floor
  BY <1>1, <1>7, <1>8, <1>9 DEF Suite, Series, FloorOf, f, g
<1>11. /\ Coherent(u)
       /\ \A m \in DOMAIN meas : \A i \in DOMAIN meas[m] : "t" \in DOMAIN meas[m][i] /\ meas[m][i]["t"] \in Int
  BY <1>10, KeptIsCoherent DEF meas
<1>12. FloorReasons(u) = {}
  <2>1. FloorReasons(s) = {}
    BY DEF BoardAnswers
  <2>2. s.files = f /\ u.files = g /\ Get(f["metrics"], "rel_floor") = Get(g["metrics"], "rel_floor")
    BY <1>1, <1>7 DEF f, g, mets
  <2>. QED BY <1>8, <1>9, <2>1, <2>2 DEF FloorReasons
<1>13. \A file \in DOMAIN g : g[file] # None
  BY <1>1, <1>2, <1>7
<1>14. BoardAnswers(u)
  <2>1. Suite(s).tasks = TaskCount(s)
    BY DEF BoardAnswers
  <2>2. TaskCount(u) = TaskCount(s)
    BY <1>10 DEF TaskCount
  <2>. QED BY <1>10, <1>11, <1>12, <1>13, <2>1, <2>2 DEF BoardAnswers, g
<1>15. BoardRead(g)
  <2>1. BoardFiles \subseteq DOMAIN g
    BY <1>1, <1>3 DEF BoardFiles
  <2>2. g["metrics"]["series"] = meas /\ "series" \in DOMAIN g["metrics"]
    BY <1>1, <1>7
  <2>3. \A m \in DOMAIN meas : \A i \in DOMAIN meas[m] : "t" \in DOMAIN meas[m][i] /\ meas[m][i]["t"] \in Int \cup {Junk}
    BY <1>11
  <2>. QED BY <1>3, <1>4, <1>6, <1>9, <2>1, <2>2, <2>3 DEF BoardRead
<1>16. AsMeasured(u)
  BY <1>1, <1>2, <1>8, <1>15 DEF AsMeasured, g
<1>17. /\ AsMeasured(u) /\ BoardAnswers(u) /\ u.profile = "modeldrift" /\ FloorOf(u) = floor
       /\ Suite(u) = Suite(s) /\ Series(u) = meas /\ g["registry"] = f["registry"] /\ g["narrative"] = f["narrative"]
  BY <1>8, <1>9, <1>10, <1>14, <1>16
<1>. QED BY <1>17, Zenon DEF u, f, g, meas

(* The numbers of a board, points apart, are those of its history without  *)
(* the outages.                                                            *)
NoPoints(pool) == {x \in pool : x[1] # "points"}

(* Once kept, twice kept: the points that count of a series from which the *)
(* others are gone are all of it.                                          *)
LEMMA CountedTwice ==
  ASSUME NEW s, s.profile = "modeldrift", AsMeasured(s), BoardAnswers(s), NEW floor \in {None} \cup 0..9, NEW id
  PROVE  Qualifying(SeriesOf(Measured(Series(s), floor), id), floor) = Qualifying(SeriesOf(Series(s), id), floor)
<1>. DEFINE ser  == Series(s)
            meas == Measured(ser, floor)
<1>1. /\ DOMAIN meas = DOMAIN ser
      /\ \A m \in DOMAIN ser : IsList(ser[m]) /\ meas[m] = Qualifying(ser[m], floor)
  BY BoardHas, MeasuredAreLists
<1>. HIDE DEF ser, meas
<1>2. Qualifying(SeriesOf(meas, id), floor) = Qualifying(SeriesOf(ser, id), floor)
  <2>1. CASE id \in DOMAIN ser
    BY <1>1, <2>1, KeptQualify DEF SeriesOf
  <2>2. CASE id \notin DOMAIN ser
    BY <1>1, <2>2 DEF SeriesOf
  <2>. QED BY <2>1, <2>2
<1>. QED BY <1>2 DEF ser, meas

(* Nor does keeping only the points that count turn a verdict.             *)
LEMMA VerdictsUnmoved ==
  ASSUME NEW s, s.profile = "modeldrift", AsMeasured(s), BoardAnswers(s), NEW floor \in {None} \cup 0..9,
         NEW reg, NEW v
  PROVE  Tally(StandingsRows(Measured(Series(s), floor), reg, floor), "verdict", v)
           = Tally(StandingsRows(Series(s), reg, floor), "verdict", v)
<1>. DEFINE ser   == Series(s)
            meas  == Measured(ser, floor)
            mine  == StandingsRows(ser, reg, floor)
            plain == StandingsRows(meas, reg, floor)
<1>1. \A id : Qualifying(SeriesOf(meas, id), floor) = Qualifying(SeriesOf(ser, id), floor)
  BY CountedTwice
<1>2. /\ DOMAIN plain = DOMAIN reg /\ DOMAIN mine = DOMAIN reg
      /\ \A i \in DOMAIN reg : /\ plain[i] = Standing(reg[i], SeriesOf(meas, reg[i].id), floor)
                               /\ mine[i] = Standing(reg[i], SeriesOf(ser, reg[i].id), floor)
  BY Zenon DEF StandingsRows
<1>. HIDE DEF ser, meas, mine, plain
<1>3. \A i \in DOMAIN reg : Get(plain[i], "verdict") = Get(mine[i], "verdict")
  BY <1>1, <1>2, StandingSays DEF Get
<1>4. Where(plain, "verdict", v) = Where(mine, "verdict", v)
  BY <1>2, <1>3 DEF Where
<1>. QED BY <1>4, Zenon DEF Tally, ser, meas, mine, plain

LEMMA OutageUnmoved ==
  ASSUME NoneIsNoObject,
         NEW s, s.profile = "modeldrift", s.version = "0.2", AsMeasured(s), BoardAnswers(s), FloorOf(s) \in 0..9
  PROVE  NoPoints(CheckModelDrift(s).pool) = NoPoints(CheckModelDrift(WithoutOutages(s)).pool)
<1>. DEFINE u     == WithoutOutages(s)
            floor == FloorOf(s)
            ser   == Series(s)
            meas  == Measured(ser, floor)
            reg   == s.files["registry"]
<1>1. /\ AsMeasured(u) /\ BoardAnswers(u) /\ u.profile = "modeldrift" /\ FloorOf(u) = floor
      /\ Suite(u) = Suite(s) /\ Series(u) = meas
      /\ u.files["registry"] = reg /\ u.files["narrative"] = s.files["narrative"]
  BY OutageAnswered, Zenon
<1>. HIDE DEF u
<1>2. DriftFlips(u) = DriftFlips(s)
  <2>1. FlipSeries(ser, floor) = meas
    BY QualifyingIsMeasured
  <2>2. FlipSeries(meas, floor) = meas
    <3>1. \A m \in DOMAIN ser : IsList(ser[m])
      BY BoardHas
    <3>2. meas = [m \in DOMAIN ser |-> Qualifying(ser[m], floor)]
      BY <2>1, Zenon DEF FlipSeries
    <3>. HIDE DEF meas, ser
    <3>3. \A m \in DOMAIN ser : Qualifying(meas[m], floor) = meas[m]
      BY <3>1, <3>2, KeptQualify
    <3>. QED BY <3>2, <3>3 DEF FlipSeries
  <2>. HIDE DEF meas
  <2>. QED BY <1>1, <2>1, <2>2 DEF DriftFlips
<1>3. DriftRows(u) = StandingsRows(meas, reg, floor) /\ DriftRows(s) = StandingsRows(ser, reg, floor)
  <2>. HIDE DEF meas, ser
  <2>. QED BY <1>1 DEF DriftRows, reg, ser
<1>4. \A v : Tally(DriftRows(u), "verdict", v) = Tally(DriftRows(s), "verdict", v)
  <2>1. \A v : Tally(StandingsRows(meas, reg, floor), "verdict", v) = Tally(StandingsRows(ser, reg, floor), "verdict", v)
    BY VerdictsUnmoved
  <2>. HIDE DEF meas, ser, reg
  <2>. QED BY <1>3, <2>1
<1>5. Len(DriftRows(u)) = Len(DriftRows(s))
  <2>1. IsList(reg)
    BY BoardHas
  <2>. HIDE DEF reg, ser, meas
  <2>2. ASSUME NEW series PROVE Len(StandingsRows(series, reg, floor)) = Len(reg)
    <3>. DEFINE rows == StandingsRows(series, reg, floor)
    <3>1. DOMAIN rows = DOMAIN reg /\ rows = [i \in DOMAIN reg |-> rows[i]]
      BY DEF StandingsRows
    <3>. HIDE DEF rows
    <3>2. Len(reg) \in Nat /\ DOMAIN reg = 1..Len(reg)
      BY <2>1, ListIs
    <3>3. rows \in Seq(ToSet(rows)) /\ DOMAIN rows = 1..Len(reg)
      BY <3>1, <3>2 DEF ToSet
    <3>. QED BY <3>2, <3>3 DEF rows
  <2>. QED BY <1>3, <2>2
<1>6. DOMAIN meas = DOMAIN ser
  BY MeasuredAreLists
<1>7. TaskCount(u) = TaskCount(s)
  BY <1>1 DEF TaskCount
<1>. DEFINE V(v) == Tally(DriftRows(s), "verdict", v)
            n    == Len(DriftRows(s))
            fl   == DriftFlips(s)
            tc   == TaskCount(s)
            nser == Cardinality(DOMAIN ser)
            Points(series) == MapThenSumSet(LAMBDA m : Len(series[m]), DOMAIN series)
            ptsS == Points(ser)
            ptsU == Points(meas)
            min  == Rounded(100, tc, 1000)
            al   == Cardinality(fl.probe_alarms)
            rep  == Cardinality(fl.repeat_offenders)
            ones == Cardinality(fl.one_offs)
            hist == fl.models_with_enough_history
            cl   == s.files["narrative"]["sentences"]
            Recount(pts) ==
              [rows |-> n, regressed |-> V("regressed"), improved |-> V("improved"), unchanged |-> V("unchanged"),
               baseline |-> V("baseline"), no_data |-> V("no-data"), series |-> nser, points |-> pts,
               tasks |-> tc, min_detectable_pts_full_grade |-> min, probe_alarms |-> al,
               repeat_offenders |-> rep, one_offs |-> ones, models_with_enough_history |-> hist, claims_fired |-> cl]
<1>8. DriftRecount(s, DriftRows(s), DriftFlips(s)) = Recount(ptsS)
  BY Zenon DEF DriftRecount
<1>9. DriftRecount(u, DriftRows(u), DriftFlips(u)) = Recount(ptsU)
  <2>. DEFINE W(v) == Tally(DriftRows(u), "verdict", v)
              flu  == DriftFlips(u)
              mk   == Len(DriftRows(u))
              nu   == Cardinality(DOMAIN Series(u))
              tu   == TaskCount(u)
              cu   == u.files["narrative"]["sentences"]
              pu   == Points(Series(u))
  <2>1. DriftRecount(u, DriftRows(u), DriftFlips(u)) =
         [rows |-> mk, regressed |-> W("regressed"), improved |-> W("improved"), unchanged |-> W("unchanged"),
               baseline |-> W("baseline"), no_data |-> W("no-data"), series |-> nu, points |-> pu,
               tasks |-> tu, min_detectable_pts_full_grade |-> Rounded(100, tu, 1000),
               probe_alarms |-> Cardinality(flu.probe_alarms),
               repeat_offenders |-> Cardinality(flu.repeat_offenders), one_offs |-> Cardinality(flu.one_offs),
               models_with_enough_history |-> flu.models_with_enough_history, claims_fired |-> cu]
    BY Zenon DEF DriftRecount
  <2>2. /\ W("regressed") = V("regressed") /\ W("improved") = V("improved") /\ W("unchanged") = V("unchanged")
        /\ W("baseline") = V("baseline") /\ W("no-data") = V("no-data")
    BY <1>4
  <2>3. flu = fl
    BY <1>2
  <2>4. mk = n
    BY <1>5
  <2>5. nu = nser
    <3>. HIDE DEF meas, ser
    <3>. QED BY <1>1, <1>6
  <2>6. tu = tc
    BY <1>7
  <2>7. cu = cl
    BY <1>1
  <2>8. pu = ptsU
    <3>1. Series(u) = meas
      BY <1>1
    <3>. HIDE DEF Points, meas
    <3>. QED BY <3>1
  <2>. HIDE DEF W, V, flu, fl, mk, n, nu, nser, tu, tc, cu, cl, pu, ptsU
  <2>. QED BY <2>1, <2>2, <2>3, <2>4, <2>5, <2>6, <2>7, <2>8
<1>10. NoPoints(PoolOf(Recount(ptsS))) = NoPoints(PoolOf(Recount(ptsU)))
  <2>. HIDE DEF V, fl, n, nser, tc, min, al, rep, ones, hist, cl, ptsS, ptsU
  <2>1. ASSUME NEW a, NEW b PROVE NoPoints(PoolOf(Recount(a))) \subseteq NoPoints(PoolOf(Recount(b)))
    <3>1. /\ DOMAIN Recount(a) = DOMAIN Recount(b)
          /\ \A k \in DOMAIN Recount(a) : k # "points" => Recount(a)[k] = Recount(b)[k]
      OBVIOUS
    <3>. HIDE DEF Recount
    <3>. QED BY <3>1 DEF NoPoints, PoolOf
  <2>2. NoPoints(PoolOf(Recount(ptsS))) \subseteq NoPoints(PoolOf(Recount(ptsU)))
    BY <2>1
  <2>3. NoPoints(PoolOf(Recount(ptsU))) \subseteq NoPoints(PoolOf(Recount(ptsS)))
    BY <2>1
  <2>. HIDE DEF Recount
  <2>. QED BY <2>2, <2>3
<1>11. /\ CheckModelDrift(s).pool = PoolOf(DriftRecount(s, DriftRows(s), DriftFlips(s)))
       /\ CheckModelDrift(u).pool = PoolOf(DriftRecount(u, DriftRows(u), DriftFlips(u)))
  BY <1>1, BoardGives
<1>. HIDE DEF Recount, ptsS, ptsU
<1>12. NoPoints(CheckModelDrift(s).pool) = NoPoints(CheckModelDrift(u).pool)
  BY <1>8, <1>9, <1>10, <1>11, Zenon
<1>. QED BY <1>12 DEF u

-----------------------------------------------------------------------------
(* What an accepted submission declares is what its tool would have        *)
(* written: no key a tool writes differs, the rows of a board are there    *)
(* each once, a text has its tags taken out.                               *)

(* No difference where the recount looks.                                  *)
LEMMA NoneDiffers ==
  ASSUME NEW declared, NEW recount, Differing(declared, recount) = {}
  PROVE  Alike(declared, recount)
BY DEF Differing, Alike, Get

(* Nothing named is nothing to name.                                       *)
LEMMA NothingNamed ==
  ASSUME NEW P, NEW reason, NameWhen(P, reason) = {}
  PROVE  ~ P
BY DEF NameWhen

(* crashkit: what is accepted is what the battery's tool writes.            *)
LEMMA KindsCounted ==
  ASSUME NEW cases, IsList(cases), \A i \in DOMAIN cases : Explicit(cases[i])
  PROVE  PerKind(cases) = BatteryWritten(cases).per_kind
<1>. DEFINE D      == DOMAIN cases
            graded == Graded(cases)
            kinds  == {cases[i].kind : i \in graded}
            told   == {cases[i]["kind"] : i \in {i \in D : ~ cases[i]["truncated"]}}
            OfKind(kind) == graded \cap Where(cases, "kind", kind)
            A(kind) == Share(Cardinality(OfKind(kind) \cap Passed(cases)), Cardinality(OfKind(kind)))
            B(kind) == AccuracyOver(cases, LAMBDA c : c["kind"] = kind)
<1>1. \A i \in D, k \in {"passed", "truncated"} : k \in DOMAIN cases[i] /\ cases[i][k] \in BOOLEAN
  BY ValuesAssumption DEF Explicit, Get
<1>2. graded = {i \in D : ~cases[i]["truncated"]} /\ Passed(cases) = {i \in D : cases[i]["passed"]}
  BY <1>1 DEF Graded, Passed, Where, Get
<1>3. \A i \in D : Get(cases[i], "kind") = cases[i]["kind"]
  BY DEF Explicit, Get
<1>4. PerKind(cases) = [kind \in kinds |-> A(kind)]
  BY DEF PerKind
<1>5. BatteryWritten(cases).per_kind = [kind \in told |-> B(kind)]
  BY DEF BatteryWritten
<1>6. kinds = told
  BY <1>2
<1>. HIDE DEF kinds, told
<1>7. ASSUME NEW kind PROVE A(kind) = B(kind)
  <2>. DEFINE won  == [i \in D |-> cases[i]["kind"] = kind /\ ~ cases[i]["truncated"] /\ cases[i]["passed"]]
              done == [i \in D |-> cases[i]["kind"] = kind /\ ~ cases[i]["truncated"]]
              W    == OfKind(kind) \cap Passed(cases)
  <2>1. B(kind) = Share(Trues(won), Trues(done))
    BY DEF AccuracyOver, CountIf
  <2>2. OfKind(kind) \in SUBSET D /\ W \in SUBSET D
    BY DEF Where
  <2>3. DOMAIN won = D /\ \A i \in D : won[i] <=> i \in W
    BY <1>2, <1>3 DEF Where
  <2>4. DOMAIN done = D /\ \A i \in D : done[i] <=> i \in OfKind(kind)
    BY <1>2, <1>3 DEF Where
  <2>. HIDE DEF won, done, W, OfKind
  <2>5. Trues(won) = Cardinality(W) /\ Trues(done) = Cardinality(OfKind(kind))
    BY <2>2, <2>3, <2>4, CountedAt
  <2>. QED BY <2>1, <2>5 DEF W
<1>. HIDE DEF A, B
<1>. QED BY <1>4, <1>5, <1>6, <1>7

(* What an accepted battery has been found to agree with.                   *)
BatteryAgrees(s) ==
  LET cases == s.artifact["cases"]
  IN  /\ \A i \in DOMAIN cases : Explicit(cases[i])
      /\ ~Unknown(cases, Graded(cases))
      /\ Differing(s.artifact["metrics"], BatteryMetrics(BatteryRecount(cases))) = {}
      /\ \A k \in DOMAIN s.artifact["per_kind"] \cup DOMAIN PerKind(cases) :
           Get(s.artifact["per_kind"], k) = Get(PerKind(cases), k)
      /\ ExpectReasons(Get(s.check, "expect"), BatteryRecount(cases)) = {}

(* It is what was accepted.                                                *)
LEMMA BatteryAnswers ==
  ASSUME NEW s, CheckCrashkit(s).reasons = {}, CheckCrashkit(s).pool # Raised
  PROVE  BatteryAgrees(s) /\ CheckCrashkit(s).pool = PoolOf(BatteryRecount(s.artifact["cases"]))
<1>. DEFINE cases   == s.artifact["cases"]
            flags   == NameWhen(\E i \in DOMAIN cases : FlagContradictsRun(cases[i]), "case: flag")
            recount == BatteryRecount(cases)
            kinds   == PerKind(cases)
            perKind == s.artifact["per_kind"]
            differ  == Differing(s.artifact["metrics"], BatteryMetrics(recount)) # {}
            apart   == \E k \in DOMAIN perKind \cup DOMAIN kinds : Get(perKind, k) # Get(kinds, k)
            said    == ExpectReasons(Get(s.check, "expect"), recount)
            reasons == flags \cup NameWhen(differ, "metrics: differ") \cup NameWhen(apart, "per_kind: differs")
                         \cup BatteryStamp(s) \cup said
            unknown == flags \cup {"case: severity"}
            known   == (\A i \in DOMAIN cases : Explicit(cases[i])) /\ ~Unknown(cases, Graded(cases))
<1>1. \/ CheckCrashkit(s) \in {Refused("artifact: unparsable"), Result(unknown, None)}
      \/ CheckCrashkit(s) = Result(reasons, PoolOf(recount)) /\ known
  BY Zenon DEF CheckCrashkit
<1>2. unknown # {}
  OBVIOUS
<1>. HIDE DEF reasons, unknown, known, recount
<1>3. CheckCrashkit(s) # Result(unknown, None)
  <2>1. Result(unknown, None).reasons = unknown
    BY ResultHas
  <2>. QED BY <1>2, <2>1
<1>4. CheckCrashkit(s) # Refused("artifact: unparsable")
  BY RefusedNames, Zenon
<1>5. reasons = {} /\ CheckCrashkit(s).pool = PoolOf(recount) /\ known
  <2>1. CheckCrashkit(s) = Result(reasons, PoolOf(recount)) /\ known
    BY <1>1, <1>3, <1>4
  <2>2. /\ Result(reasons, PoolOf(recount)).reasons = reasons
        /\ Result(reasons, PoolOf(recount)).pool = PoolOf(recount)
    BY ResultHas
  <2>. QED BY <2>1, <2>2
<1>. HIDE DEF differ, apart, said
<1>6. ~differ /\ ~apart /\ said = {}
  BY <1>5, NothingNamed DEF reasons
<1>. QED BY <1>5, <1>6, Zenon DEF BatteryAgrees, known, differ, apart, said, recount

(* crashkit: metrics and kinds are the battery's, counted from the cases.  *)
LEMMA CrashkitReissued ==
  ASSUME NEW s, s.profile = "crashkit", AsMeasured(s),
         CheckCrashkit(s).reasons = {}, CheckCrashkit(s).pool # Raised
  PROVE  LET written == BatteryWritten(s.artifact["cases"])
         IN  /\ Alike(s.artifact["metrics"], written.metrics)
             /\ Alike(s.artifact["per_kind"], written.per_kind)
             /\ Alike(written.per_kind, s.artifact["per_kind"])
<1>. DEFINE cases   == s.artifact["cases"]
            metrics == s.artifact["metrics"]
            perKind == s.artifact["per_kind"]
            recount == BatteryRecount(cases)
            written == BatteryWritten(cases)
<1>1. BatteryAgrees(s) /\ IsList(cases)
  BY BatteryAnswers DEF AsMeasured, MeasuredRows, RowsKey
<1>2. /\ \A i \in DOMAIN cases : Explicit(cases[i])
      /\ ~Unknown(cases, Graded(cases))
      /\ Differing(metrics, BatteryMetrics(recount)) = {}
      /\ \A k \in DOMAIN perKind \cup DOMAIN PerKind(cases) : Get(perKind, k) = Get(PerKind(cases), k)
  BY <1>1 DEF BatteryAgrees
<1>. HIDE DEF cases, metrics, perKind
<1>3. recount = BatteryNumbers(cases)
  BY <1>1, <1>2, BatteryCounted
<1>4. written.metrics = BatteryMetrics(recount)
  BY <1>3 DEF BatteryWritten, BatteryMetrics, Join, AccuracyAliases
<1>5. written.per_kind = PerKind(cases)
  BY <1>1, <1>2, KindsCounted
<1>6. Alike(metrics, BatteryMetrics(recount))
  <2>. HIDE DEF recount
  <2>. QED BY <1>2, NoneDiffers
<1>7. Alike(perKind, PerKind(cases)) /\ Alike(PerKind(cases), perKind)
  BY <1>2 DEF Alike
<1>. HIDE DEF written, recount
<1>. QED BY <1>4, <1>5, <1>6, <1>7 DEF written, metrics, perKind, cases

(* What an accepted report has been found to agree with.                    *)
ReportAgrees(s) ==
  LET rows == s.artifact["per_task"]
  IN  /\ \A i \in DOMAIN rows : Counted(rows[i]) /\ Differing(rows[i], TaskRecount(rows[i])) = {}
      /\ ~Unknown(rows, DOMAIN rows)
      /\ Differing(Get(s.artifact, "metrics"), VarianceRecount(rows)) = {}

(* It is what was accepted.                                                *)
LEMMA ReportAnswers ==
  ASSUME NEW s, CheckVariance(s).reasons = {}, CheckVariance(s).pool # Raised
  PROVE  ReportAgrees(s) /\ CheckVariance(s).pool = PoolOf(VarianceRecount(s.artifact["per_task"]))
<1>. DEFINE rows    == s.artifact["per_task"]
            metrics == Get(s.artifact, "metrics")
            wrong   == \E i \in DOMAIN rows : Differing(rows[i], TaskRecount(rows[i])) # {}
            flags   == NameWhen(wrong, "row: differs")
            recount == VarianceRecount(rows)
            differ  == Differing(metrics, recount) # {}
            apart   == \E i \in DOMAIN rows : rows[i].runs # Get(s.artifact, "n")
            reasons == flags \cup NameWhen(differ, "metrics: differ") \cup NameWhen(apart, "n: differs")
            broken  == flags \cup {"artifact: unparsable"}
            known   == (\A i \in DOMAIN rows : Counted(rows[i])) /\ ~Unknown(rows, DOMAIN rows)
<1>1. \/ CheckVariance(s) \in {Refused("artifact: unparsable"), Refused("row: counts"), Refused("row: severity"),
                               Result({}, Raised), Result(broken, None)}
      \/ CheckVariance(s) = Result(reasons, PoolOf(recount)) /\ known
  BY Zenon DEF CheckVariance
<1>2. broken # {}
  OBVIOUS
<1>. HIDE DEF reasons, broken, known, recount
<1>3. CheckVariance(s) = Result(reasons, PoolOf(recount)) /\ known
  <2>1. /\ CheckVariance(s) # Refused("artifact: unparsable") /\ CheckVariance(s) # Refused("row: counts")
        /\ CheckVariance(s) # Refused("row: severity")
    BY RefusedNames, Zenon
  <2>2. CheckVariance(s) # Result({}, Raised)
    <3>1. Result({}, Raised).pool = Raised
      BY ResultHas
    <3>. QED BY <3>1
  <2>3. CheckVariance(s) # Result(broken, None)
    <3>1. Result(broken, None).reasons = broken
      BY ResultHas
    <3>. QED BY <1>2, <3>1
  <2>. QED BY <1>1, <2>1, <2>2, <2>3
<1>4. reasons = {} /\ CheckVariance(s).pool = PoolOf(recount)
  <2>1. /\ Result(reasons, PoolOf(recount)).reasons = reasons
        /\ Result(reasons, PoolOf(recount)).pool = PoolOf(recount)
    BY ResultHas
  <2>. QED BY <1>3, <2>1
<1>. HIDE DEF wrong, differ, apart
<1>5. ~wrong /\ ~differ
  BY <1>4, NothingNamed DEF reasons
<1>. QED BY <1>3, <1>4, <1>5, Zenon DEF ReportAgrees, known, wrong, differ, recount

(* variance: the metrics and the rows are what the report's tool writes.    *)
LEMMA VarianceReissued ==
  ASSUME NEW s, s.profile = "variance", AsMeasured(s),
         CheckVariance(s).reasons = {}, CheckVariance(s).pool # Raised
  PROVE  LET rows == s.artifact["per_task"]
         IN  /\ Alike(Get(s.artifact, "metrics"), VarianceNumbers(rows))
             /\ \A i \in DOMAIN rows : Alike(rows[i], VarianceRow(rows[i]))
<1>. DEFINE rows    == s.artifact["per_task"]
            metrics == Get(s.artifact, "metrics")
            recount == VarianceRecount(rows)
<1>1. ReportAgrees(s) /\ IsList(rows)
  BY ReportAnswers DEF AsMeasured, MeasuredRows, RowsKey
<1>2. /\ \A i \in DOMAIN rows : Counted(rows[i]) /\ Differing(rows[i], TaskRecount(rows[i])) = {}
      /\ ~Unknown(rows, DOMAIN rows)
      /\ Differing(metrics, recount) = {}
  BY <1>1, Zenon DEF ReportAgrees
<1>. HIDE DEF rows, metrics
<1>3. recount = VarianceNumbers(rows)
  BY <1>1, <1>2, VarianceCounted DEF CountedRows
<1>4. Alike(metrics, recount)
  <2>. HIDE DEF recount
  <2>. QED BY <1>2, NoneDiffers
<1>5. ASSUME NEW i \in DOMAIN rows PROVE Alike(rows[i], VarianceRow(rows[i]))
  <2>. DEFINE row == rows[i]
              r   == TaskRecount(row)
              w   == [pass_rate   |-> Rounded(row["passes"], row["runs"], 10000),
                      ever_failed |-> row["passes"] # row["runs"],
                      flaky       |-> row["passes"] \notin {0, row["runs"]}]
  <2>1. Counted(row) /\ Differing(row, r) = {}
    BY <1>2
  <2>2. row["runs"] \in Nat /\ row["passes"] \in Nat /\ row["runs"] > 0 /\ row["passes"] <= row["runs"]
    BY <2>1, ValuesAssumption DEF Counted, Get
  <2>3. DOMAIN r = {"pass_rate", "ever_failed", "flaky"} /\ DOMAIN w = DOMAIN r
    BY DEF TaskRecount
  <2>4. /\ r["ever_failed"] = (row["passes"] # row["runs"])
        /\ r["flaky"] = (row["passes"] \notin {0, row["runs"]})
    <3>1. (row["passes"] < row["runs"]) = (row["passes"] # row["runs"])
      BY <2>2
    <3>2. (row["passes"] < row["runs"] /\ row["passes"] > 0) = (row["passes"] \notin {0, row["runs"]})
      BY <2>2
    <3>. HIDE DEF row
    <3>. QED BY <3>1, <3>2, Zenon DEF TaskRecount, SomeFailed, Flaky
  <2>5. \A k \in DOMAIN r : r[k] = w[k]
    <3>1. r["pass_rate"] = Rounded(row["passes"], row["runs"], 10000)
      BY DEF TaskRecount
    <3>2. /\ w["pass_rate"] = Rounded(row["passes"], row["runs"], 10000)
          /\ w["ever_failed"] = (row["passes"] # row["runs"]) /\ w["flaky"] = (row["passes"] \notin {0, row["runs"]})
      OBVIOUS
    <3>3. r["pass_rate"] = w["pass_rate"] /\ r["ever_failed"] = w["ever_failed"] /\ r["flaky"] = w["flaky"]
      <4>. HIDE DEF r, w, row
      <4>. QED BY <2>4, <3>1, <3>2
    <3>. HIDE DEF r, w, row
    <3>. QED BY <2>3, <3>3
  <2>6. VarianceRow(row) = Join(w, row)
    BY Zenon DEF VarianceRow
  <2>. HIDE DEF w, r, row
  <2>7. \A k \in DOMAIN w : Get(row, k) = w[k]
    BY <2>1, <2>3, <2>5 DEF Differing
  <2>8. \A k \in DOMAIN Join(w, row) : Get(row, k) = Join(w, row)[k]
    BY <2>7 DEF Join, Get
  <2>9. Alike(row, Join(w, row))
    BY <2>8 DEF Alike, Get
  <2>. QED BY <2>6, <2>9 DEF row
<1>. QED BY <1>3, <1>4, <1>5 DEF rows, metrics

(* A hole is a mutation of its class that was not caught.                   *)
LEMMA HolesKept ==
  ASSUME NEW rows, \A i \in DOMAIN rows : {"outcome", "op_type"} \subseteq DOMAIN rows[i],
         NEW class \in DOMAIN HoleClass
  PROVE  EvalmutHoles(rows)[class] = HoleRows(rows, class)
<1>. DEFINE D == DOMAIN rows
            S == {i \in D : InClass(rows[i], class)}
            Ended(outcome) == {i \in D : rows[i]["outcome"] = outcome}
            Missed(op_type) == {i \in Ended("missed") : rows[i]["op_type"] = op_type}
<1>1. HoleRows(rows, class) = Kept(rows, S)
  BY DEF HoleRows
<1>2. \A i \in D : Get(rows[i], "outcome") = rows[i]["outcome"] /\ Get(rows[i], "op_type") = rows[i]["op_type"]
  BY DEF Get
<1>3. class \in {"vacuous", "blind", "error", "brittle", "coverage_gap"}
  BY DEF HoleClass
<1>4. EvalmutHoles(rows) = [vacuous |-> Kept(rows, Missed("sanity")), blind |-> Kept(rows, Missed("kill")),
                            coverage_gap |-> Kept(rows, Missed("diagnostic")),
                            error |-> Kept(rows, Ended("error")), brittle |-> Kept(rows, Ended("flagged"))]
  BY Zenon DEF EvalmutHoles
<1>5. CASE class = "vacuous"
  <2>1. S = Missed("sanity")
    BY <1>2, <1>5, OpTypeAssumption DEF InClass, HoleClass
  <2>. HIDE DEF S, Missed, Ended
  <2>. QED BY <1>1, <1>4, <1>5, <2>1
<1>6. CASE class = "blind"
  <2>1. S = Missed("kill")
    BY <1>2, <1>6, OpTypeAssumption DEF InClass, HoleClass
  <2>. HIDE DEF S, Missed, Ended
  <2>. QED BY <1>1, <1>4, <1>6, <2>1
<1>7. CASE class = "coverage_gap"
  <2>1. S = Missed("diagnostic")
    BY <1>2, <1>7, OpTypeAssumption DEF InClass, HoleClass
  <2>. HIDE DEF S, Missed, Ended
  <2>. QED BY <1>1, <1>4, <1>7, <2>1
<1>8. CASE class = "error"
  <2>1. S = Ended("error")
    BY <1>2, <1>8 DEF InClass, HoleClass
  <2>. HIDE DEF S, Missed, Ended
  <2>. QED BY <1>1, <1>4, <1>8, <2>1
<1>9. CASE class = "brittle"
  <2>1. S = Ended("flagged")
    BY <1>2, <1>9 DEF InClass, HoleClass
  <2>. HIDE DEF S, Missed, Ended
  <2>. QED BY <1>1, <1>4, <1>9, <2>1
<1>. QED BY <1>3, <1>5, <1>6, <1>7, <1>8, <1>9

(* evalmut: the tally and the holes are what the tool writes.               *)
LEMMA EvalmutReissued ==
  ASSUME NEW s, s.profile = "evalmut", AsMeasured(s),
         CheckEvalmut(s).reasons = {}, CheckEvalmut(s).pool # Raised
  PROVE  LET a == s.artifact
         IN  /\ Alike(a["tally"], EvalmutTally(a["results"]))
             /\ \A class \in DOMAIN HoleClass :
                  SameRows(DeclaredHoles(a["holes"], class), EvalmutHoles(a["results"])[class])
<1>. DEFINE rows   == s.artifact["results"]
            tally  == s.artifact["tally"]
            counts == [o \in Outcome |-> Tally(rows, "outcome", o)]
<1>1. EvalmutAgrees(s)
  <2>1. Answered(CheckEvalmut(s))
    BY DEF Answered
  <2>. QED BY <2>1, EvalmutAnswers, Zenon
<1>2. IsList(rows) /\ \A i \in DOMAIN rows : {"outcome", "op_type"} \subseteq DOMAIN rows[i]
  BY DEF AsMeasured, MeasuredRows, RowsKey, RowAsMeasured
<1>3. Differing(tally, counts) = {}
  BY <1>1, Zenon DEF EvalmutAgrees
<1>4. \A class \in DOMAIN HoleClass : SameRows(DeclaredHoles(s.artifact["holes"], class), HoleRows(rows, class))
  BY <1>1, Zenon DEF EvalmutAgrees
<1>. HIDE DEF rows, tally
<1>5. EvalmutTally(rows) = counts
  BY <1>2, OutcomesCounted
<1>. HIDE DEF counts
<1>6. Alike(tally, EvalmutTally(rows))
  BY <1>3, <1>5, NoneDiffers
<1>7. \A class \in DOMAIN HoleClass :
        SameRows(DeclaredHoles(s.artifact["holes"], class), EvalmutHoles(rows)[class])
  BY <1>2, <1>4, HolesKept
<1>. QED BY <1>6, <1>7 DEF rows, tally

(* A search ends at the first row without a name, or after all.             *)
LEMMA NamelessIsThere ==
  ASSUME NEW rows, IsList(rows)
  PROVE  FirstOf(rows, Unhashable) \in 1..Len(rows) + 1
<1>. DEFINE T        == {n \in 1..Len(rows) : Unhashable(rows[n])}
            first(n) == /\ n \in DOMAIN rows => Unhashable(rows[n])
                        /\ \A i \in 1..n - 1 : ~ Unhashable(rows[i])
<1>1. Len(rows) \in Nat /\ DOMAIN rows = 1..Len(rows)
  BY ListIs
<1>2. \E n \in 1..Len(rows) + 1 : first(n)
  <2>1. CASE T = {}
    <3>1. first(Len(rows) + 1) /\ Len(rows) + 1 \in 1..Len(rows) + 1
      BY <1>1, <2>1
    <3>. QED BY <3>1
  <2>2. CASE T # {}
    <3>1. PICK n \in T : \A m \in T : n <= m
      <4>1. T \subseteq Nat
        BY <1>1
      <4>. HIDE DEF T
      <4>. QED BY <2>2, <4>1, LeastNatural
    <3>2. \A i \in 1..n - 1 : i \in 1..Len(rows) /\ ~ n <= i
      BY <1>1
    <3>3. first(n) /\ n \in 1..Len(rows) + 1
      BY <1>1, <3>1, <3>2
    <3>. QED BY <3>3
  <2>. QED BY <2>1, <2>2
<1>3. FirstOf(rows, Unhashable) = CHOOSE n \in 1..Len(rows) + 1 : first(n)
  BY Zenon DEF FirstOf
<1>. HIDE DEF first
<1>. QED BY <1>2, <1>3

(* What an accepted board has been found to agree with: a row for each      *)
(* pair, and no pair twice.                                                 *)
FleetAgrees(s) ==
  LET rows == s.artifact["rows"]
  IN  /\ \A n \in DOMAIN rows :
           /\ \A i \in 1..n - 1 : KeyOf(rows[i]) # KeyOf(rows[n])
           /\ OfKey(s.raw, KeyOf(rows[n])) # {}
           /\ Differing(rows[n], FleetRates(s.raw, OfKey(s.raw, KeyOf(rows[n])))) = {}
      /\ {KeyOf(s.raw[i]) : i \in DOMAIN s.raw} \subseteq {KeyOf(rows[i]) : i \in DOMAIN rows}

(* It is what was accepted.                                                *)
LEMMA FleetAnswers ==
  ASSUME NEW s, IsList(s.artifact["rows"]), CheckFleet(s).reasons = {}, CheckFleet(s).pool # Raised
  PROVE  FleetAgrees(s)
<1>. DEFINE raw     == s.raw
            rows    == s.artifact["rows"]
            badLine == FirstOf(raw, Unhashable)
            badRow  == FirstOf(rows, Unhashable)
            flags   == NameWhen(\E n \in 1..badLine - 1 : FlagContradicts(raw[n]), "raw: flag")
            told    == FleetRows(rows, raw, badRow)
            early   == flags \cup FleetExpect(Get(s.check, "expect"), rows) \cup told
            rowless == {KeyOf(raw[i]) : i \in DOMAIN raw} \ {KeyOf(rows[i]) : i \in DOMAIN rows}
            bare    == rowless # {}
            reasons == early \cup NameWhen(bare, "raw: no row") \cup FleetStamps(s)
            nameless == flags \cup {"raw: identifiers"}
            unnamed  == early \cup {"artifact: identifiers"}
            pool     == FleetPool(raw, s.version)
            ended    == ~ badRow <= Len(rows)
<1>1. \/ CheckFleet(s) \in {Refused("raw: unparsable"), Refused("artifact: unparsable"),
                            Result(nameless, None), Result(unnamed, None)}
      \/ CheckFleet(s) = Result(reasons, pool) /\ ended
  BY Zenon DEF CheckFleet
<1>2. nameless # {} /\ unnamed # {}
  OBVIOUS
<1>3. reasons = {} => told = {} /\ NameWhen(bare, "raw: no row") = {}
  OBVIOUS
<1>. HIDE DEF reasons, nameless, unnamed, pool, bare, told, ended
<1>4. reasons = {} /\ ended
  <2>1. CheckFleet(s) # Refused("raw: unparsable") /\ CheckFleet(s) # Refused("artifact: unparsable")
    BY RefusedNames, Zenon
  <2>2. /\ Result(nameless, None).reasons = nameless /\ Result(unnamed, None).reasons = unnamed
        /\ Result(reasons, pool).reasons = reasons
    BY ResultHas
  <2>3. CheckFleet(s) # Result(nameless, None) /\ CheckFleet(s) # Result(unnamed, None)
    BY <1>2, <2>2
  <2>. QED BY <1>1, <2>1, <2>2, <2>3
<1>5. told = {} /\ ~bare
  BY <1>3, <1>4, NothingNamed
<1>6. badRow - 1 = Len(rows) /\ DOMAIN rows = 1..badRow - 1
  <2>. DEFINE m == Len(rows)
  <2>1. badRow \in 1..m + 1 /\ m \in Nat /\ DOMAIN rows = 1..m
    BY NamelessIsThere, ListIs
  <2>2. ~ badRow <= m
    BY <1>4 DEF ended
  <2>. HIDE DEF badRow, rows, m
  <2>3. badRow - 1 = m
    BY <2>1, <2>2
  <2>. QED BY <2>1, <2>3 DEF m
<1>. DEFINE Key(n)   == KeyOf(rows[n])
            Twice(n) == \E i \in 1..n - 1 : Key(i) = Key(n)
            Gone(n)  == OfKey(raw, Key(n)) = {}
            Off(n)   == Differing(rows[n], FleetRates(raw, OfKey(raw, Key(n)))) # {}
            Says(n)  == IF Twice(n) THEN {"row: duplicate"}
                        ELSE IF Gone(n) THEN {"row: no raw lines"} ELSE NameWhen(Off(n), "row: differs")
<1>7. told = UNION {Says(n) : n \in 1..badRow - 1}
  BY Zenon DEF told, FleetRows
<1>8. ASSUME NEW n \in DOMAIN rows PROVE ~Twice(n) /\ ~Gone(n) /\ ~Off(n)
  <2>1. Says(n) = {}
    <3>. HIDE DEF Says, badRow, rows
    <3>. QED BY <1>5, <1>6, <1>7
  <2>. HIDE DEF Twice, Gone, Off
  <2>. QED BY <2>1, NothingNamed
<1>9. {KeyOf(raw[i]) : i \in DOMAIN raw} \subseteq {KeyOf(rows[i]) : i \in DOMAIN rows}
  BY <1>5 DEF bare
<1>. HIDE DEF raw, rows
<1>10. \A n \in DOMAIN rows : /\ \A i \in 1..n - 1 : KeyOf(rows[i]) # KeyOf(rows[n])
                              /\ OfKey(raw, KeyOf(rows[n])) # {}
                              /\ Differing(rows[n], FleetRates(raw, OfKey(raw, KeyOf(rows[n])))) = {}
  BY <1>8, Zenon
<1>. QED BY <1>9, <1>10, Zenon DEF FleetAgrees, raw, rows

(* fleet: the rows are those of the board, each once.                       *)
LEMMA FleetReissued ==
  ASSUME NEW s, s.profile = "fleet", AsMeasured(s),
         CheckFleet(s).reasons = {}, CheckFleet(s).pool # Raised
  PROVE  LET rows    == s.artifact["rows"]
             written == FleetWritten(s.raw)
         IN  /\ Len(rows) = Cardinality(written)
             /\ \A row \in written : \E i \in DOMAIN rows : Alike(rows[i], row)
<1>. DEFINE raw  == s.raw
            rows == s.artifact["rows"]
            D    == DOMAIN rows
            Keys == {KeyOf(raw[i]) : i \in DOMAIN raw}
            Rates(key) == FleetRates(raw, OfKey(raw, key))
            Row(key) == Join([suite |-> key[1], member |-> key[2]], Rates(key))
<1>1. Lines(raw) /\ IsList(rows)
  BY DEF AsMeasured, MeasuredRows, RowAsMeasured, Flagged, Lines, FleetRowsAreRead
<1>2. FleetAgrees(s)
  BY <1>1, FleetAnswers
<1>3. /\ \A n \in D : /\ \A i \in 1..n - 1 : KeyOf(rows[i]) # KeyOf(rows[n])
                      /\ OfKey(raw, KeyOf(rows[n])) # {}
                      /\ Differing(rows[n], Rates(KeyOf(rows[n]))) = {}
      /\ Keys \subseteq {KeyOf(rows[i]) : i \in D}
  BY <1>2, Zenon DEF FleetAgrees
<1>. HIDE DEF raw, rows
<1>4. FleetWritten(raw) = {Row(key) : key \in Keys}
  <2>. DEFINE entries == FleetEntries(raw)
              Written(key) == Join([suite |-> key[1], member |-> key[2]], WithRates(entries[key]))
  <2>1. entries = [key \in Keys |-> Gathered(raw, OfKey(raw, key))]
    BY <1>1, EntriesGathered
  <2>2. FleetWritten(raw) = {Written(key) : key \in DOMAIN entries}
    BY Zenon DEF FleetWritten
  <2>. HIDE DEF entries, Keys
  <2>3. DOMAIN entries = Keys /\ \A key \in Keys : WithRates(entries[key]) = Rates(key)
    BY <2>1, RatesOf
  <2>4. \A key \in Keys : Written(key) = Row(key)
    BY <2>3
  <2>. HIDE DEF Written, Row
  <2>. QED BY <2>2, <2>3, <2>4
<1>5. \A n \in D : KeyOf(rows[n]) \in Keys
  BY <1>3 DEF OfKey
<1>6. ASSUME NEW n \in D PROVE Alike(rows[n], Row(KeyOf(rows[n])))
  <2>. DEFINE row   == rows[n]
              key   == KeyOf(row)
              names == [suite |-> key[1], member |-> key[2]]
              r     == Rates(key)
  <2>1. Get(row, "suite") = key[1] /\ Get(row, "member") = key[2]
    BY DEF KeyOf
  <2>2. \A k \in DOMAIN r : Get(row, k) = r[k]
    BY <1>3 DEF Differing
  <2>3. DOMAIN names = {"suite", "member"} /\ names["suite"] = key[1] /\ names["member"] = key[2]
    OBVIOUS
  <2>4. Row(key) = Join(names, r)
    OBVIOUS
  <2>. HIDE DEF row, key, r, names, Row
  <2>5. \A k \in DOMAIN Join(names, r) : Get(row, k) = Join(names, r)[k]
    BY <2>1, <2>2, <2>3 DEF Join
  <2>. QED BY <2>4, <2>5 DEF Alike, Get, row, key
<1>7. \A key \in Keys : Row(key)["suite"] = key[1] /\ Row(key)["member"] = key[2] /\ key = <<key[1], key[2]>>
  <2>1. \A key \in Keys : key = <<key[1], key[2]>>
    BY DEF KeyOf
  <2>2. \A key : Row(key)["suite"] = key[1] /\ Row(key)["member"] = key[2]
    BY DEF Join
  <2>. HIDE DEF Row, Keys
  <2>. QED BY <2>1, <2>2
<1>. HIDE DEF Row
<1>8. \A row \in FleetWritten(raw) : \E i \in D : Alike(rows[i], row)
  <2>. HIDE DEF Keys
  <2>. SUFFICES ASSUME NEW row \in FleetWritten(raw) PROVE \E i \in D : Alike(rows[i], row)
    OBVIOUS
  <2>1. PICK key \in Keys : row = Row(key)
    BY <1>4
  <2>2. PICK i \in D : KeyOf(rows[i]) = key
    BY <1>3
  <2>. QED BY <1>6, <2>1, <2>2
<1>9. Len(rows) = Cardinality(FleetWritten(raw))
  <2>1. Len(rows) \in Nat /\ D = 1..Len(rows) /\ IsFiniteSet(D) /\ Cardinality(D) = Len(rows)
    BY <1>1, ListIs, FS_Interval
  <2>. DEFINE f == [n \in D |-> Row(KeyOf(rows[n]))]
              T == FleetWritten(raw)
  <2>2. \A row \in T : \E n \in D : f[n] = row
    <3>. SUFFICES ASSUME NEW row \in T PROVE \E n \in D : f[n] = row
      OBVIOUS
    <3>1. PICK key \in Keys : row = Row(key)
      BY <1>4
    <3>2. PICK n \in D : KeyOf(rows[n]) = key
      BY <1>3
    <3>. QED BY <3>1, <3>2
  <2>3. f \in [D -> T]
    BY <1>4, <1>5
  <2>4. \A m, n \in D : f[m] = f[n] => m = n
    <3>. SUFFICES ASSUME NEW m \in D, NEW n \in D, m # n PROVE Row(KeyOf(rows[m])) # Row(KeyOf(rows[n]))
      OBVIOUS
    <3>1. KeyOf(rows[m]) # KeyOf(rows[n])
      <4>1. CASE m < n
        BY <1>3, <2>1, <4>1
      <4>2. CASE n < m
        BY <1>3, <2>1, <4>2
      <4>. QED BY <2>1, <4>1, <4>2
    <3>. HIDE DEF Keys
    <3>. QED BY <1>5, <1>7, <3>1
  <2>. HIDE DEF f, D, T
  <2>5. f \in Surjection(D, T) /\ f \in Injection(D, T)
    BY <2>2, <2>3, <2>4 DEF Surjection, Injection, IsInjective
  <2>6. Cardinality(T) = Cardinality(D)
    BY <2>1, <2>5, FS_Surjection
  <2>. QED BY <2>1, <2>6 DEF T
<1>. QED BY <1>8, <1>9 DEF raw, rows

(* What a row of the standings tells of the points that count.              *)
ToldOf(entry, points) ==
  LET n      == Len(points)
      delta  == IF n < 2 THEN None ELSE points[n]["acc"] - points[n - 1]["acc"]
      graded == IF n = 0 THEN None ELSE Get(points[n], "graded")
  IN  [id |-> entry.id, label |-> IF entry.label = None THEN entry.id ELSE entry.label,
       when |-> IF n = 0 THEN None ELSE points[n]["t"],
       acc |-> IF n = 0 THEN None ELSE points[n]["acc"],
       delta |-> delta, verdict |-> Verdict(points, delta), graded |-> graded,
       min_detectable_pts |-> IF graded = None THEN None ELSE Rounded(100, graded, 1000),
       below_floor |-> BelowFloor(delta, graded)]

RowKeys == {"id", "label", "when", "acc", "delta", "verdict", "graded", "min_detectable_pts", "below_floor"}

(* A row of the standings tells it, and what it tells has these keys.      *)
LEMMA StandingIs ==
  ASSUME NEW entry, NEW raw, NEW floor
  PROVE  Standing(entry, raw, floor)
           = Join(ToldOf(entry, Qualifying(raw, floor)),
                  IF floor = None THEN <<>> ELSE [latest_observed |-> LatestObserved(raw, floor)])
BY Zenon DEF Standing, ToldOf

LEMMA ToldKeys ==
  ASSUME NEW entry, NEW points
  PROVE  /\ DOMAIN ToldOf(entry, points) = RowKeys
         /\ ToldOf(entry, points) = [k \in RowKeys |-> ToldOf(entry, points)[k]]
         /\ ToldOf(entry, points)["id"] = entry.id
<1>. DEFINE n      == Len(points)
            delta  == IF n < 2 THEN None ELSE points[n]["acc"] - points[n - 1]["acc"]
            graded == IF n = 0 THEN None ELSE Get(points[n], "graded")
            a == entry.id
            b == IF entry.label = None THEN entry.id ELSE entry.label
            c == IF n = 0 THEN None ELSE points[n]["t"]
            d == IF n = 0 THEN None ELSE points[n]["acc"]
            v == Verdict(points, delta)
            e == IF graded = None THEN None ELSE Rounded(100, graded, 1000)
            g == BelowFloor(delta, graded)
<1>1. ToldOf(entry, points)
        = [id |-> a, label |-> b, when |-> c, acc |-> d, delta |-> delta, verdict |-> v, graded |-> graded,
           min_detectable_pts |-> e, below_floor |-> g]
  BY Zenon DEF ToldOf
<1>2. a = entry.id
  OBVIOUS
<1>. HIDE DEF a, b, c, d, e, g, v, delta, graded
<1>. QED BY <1>1, <1>2 DEF RowKeys

(* Nothing is left out, and nothing joined to nothing.                      *)
LEMMA JoinedLate ==
  ASSUME NEW t, t = [k \in DOMAIN t |-> t[k]], NEW key, key \notin DOMAIN t, NEW value
  PROVE  /\ Join(t, <<>>) = t
         /\ With(t, key, value) = Join(t, [k \in {key} |-> value])
<1>2. Join(t, <<>>) = [k \in DOMAIN t |-> t[k]]
  BY DEF Join
<1>. DEFINE one == [k \in {key} |-> value]
<1>3. DOMAIN one = {key} /\ one[key] = value
  OBVIOUS
<1>4. With(t, key, value) = Join(one, t)
  BY DEF With
<1>. HIDE DEF one
<1>5. Join(one, t) = Join(t, one)
  BY <1>3 DEF Join
<1>. QED BY <1>2, <1>4, <1>5 DEF one

(* What the last point shows, in the column the tool adds.                  *)
LEMMA LatestIs ==
  ASSUME NEW s, s.profile = "modeldrift", AsMeasured(s), BoardAnswers(s), NEW floor \in 0..9, NEW m
  PROVE  LET points == SeriesOf(Series(s), m)
             p      == points[Len(points)]
         IN  LatestObserved(points, floor)
               = IF points = <<>> THEN None
                 ELSE [when |-> p["t"], acc |-> p["acc"], reliability |-> p["reliability"],
                       qualified |-> p["reliability"] >= floor]
<1>. DEFINE points == SeriesOf(Series(s), m)
            n      == Len(points)
            p      == points[n]
<1>1. CASE points = <<>>
  BY <1>1, Zenon DEF LatestObserved
<1>2. CASE points # <<>>
  <2>1. m \in DOMAIN Series(s) /\ points = Series(s)[m]
    BY <1>2 DEF SeriesOf
  <2>2. IsList(points) /\ \A i \in DOMAIN points : ~ PointIncoherent(s, m, i)
    BY <2>1, BoardHas
  <2>3. n \in DOMAIN points
    <3>1. n \in Nat /\ DOMAIN points = 1..n /\ points \in Seq(ToSet(points))
      BY <2>2, ListIs
    <3>. HIDE DEF points
    <3>2. n # 0
      BY <1>2, <3>1, EmptySeq DEF n
    <3>. HIDE DEF n
    <3>. QED BY <3>1, <3>2
  <2>4. ~ PointIncoherent(s, m, n) /\ p = Series(s)[m][n]
    BY <2>1, <2>2, <2>3
  <2>. HIDE DEF p, n, points
  <2>5. "reliability" \in DOMAIN p /\ p["reliability"] \in 0..10
    BY <2>4, PointHas
  <2>6. Get(p, "acc") \in 0..Whole
    BY <2>4 DEF PointIncoherent
  <2>7. None \notin Int /\ 0..Whole \subseteq Int
    BY ValuesAssumption DEF Whole
  <2>8. Get(p, "acc") = p["acc"] /\ Get(p, "reliability") = p["reliability"]
    BY <2>5, <2>6, <2>7 DEF Get
  <2>9. Qualifies(p, floor) <=> p["reliability"] >= floor
    BY <2>5, <2>7, <2>8 DEF Qualifies
  <2>10. LatestObserved(points, floor)
           = [when |-> p["t"], acc |-> Get(p, "acc"), reliability |-> Get(p, "reliability"),
              qualified |-> Qualifies(p, floor)]
    BY <1>2, Zenon DEF LatestObserved, p, n
  <2>11. Qualifies(p, floor) \in BOOLEAN /\ (p["reliability"] >= floor) \in BOOLEAN
    BY <2>5 DEF Qualifies
  <2>12. Qualifies(p, floor) = (p["reliability"] >= floor)
    BY <2>9, <2>11
  <2>13. LatestObserved(points, floor)
           = [when |-> p["t"], acc |-> p["acc"], reliability |-> p["reliability"],
              qualified |-> p["reliability"] >= floor]
    BY <2>8, <2>10, <2>12, Zenon
  <2>. QED BY <1>2, <2>13, Zenon DEF points, p, n
<1>. QED BY <1>1, <1>2

(* The board the tool writes has the rows the verifier derives.             *)
LEMMA BoardIs ==
  ASSUME NEW s, s.profile = "modeldrift", AsMeasured(s), BoardAnswers(s), FloorOf(s) \in {None} \cup 0..9
  PROVE  DriftBoard(Series(s), s.files.registry, Suite(s), FloorOf(s))
           = [standings  |-> [suite_version |-> Suite(s).suite_version, suite_hash |-> Suite(s).suite_hash,
                              min_detectable_pts_full_grade |-> Rounded(100, Suite(s).tasks, 1000),
                              rows |-> DriftRows(s)],
              results_md |-> ResultsMd(DriftRows(s), Suite(s).suite_version, FloorOf(s)),
              flips      |-> DriftFlips(s)]
<1>. DEFINE ser   == Series(s)
            reg   == s.files.registry
            floor == FloorOf(s)
            meas  == Measured(ser, floor)
            mine  == StandingsRows(ser, reg, floor)
            plain == StandingsRows(meas, reg, None)
            Seen(i) == SeriesOf(ser, reg[i].id)
            Lately(i) == IF Seen(i) = <<>> THEN None
                         ELSE LET p == Last(Seen(i))
                              IN  [when |-> p["t"], acc |-> p["acc"], reliability |-> p["reliability"],
                                   qualified |-> p["reliability"] >= floor]
            rows == [i \in DOMAIN reg |-> IF floor = None THEN plain[i] ELSE With(plain[i], "latest_observed", Lately(i))]
            Board(r, f) == [standings  |-> [suite_version |-> Suite(s).suite_version, suite_hash |-> Suite(s).suite_hash,
                                            min_detectable_pts_full_grade |-> Rounded(100, Suite(s).tasks, 1000),
                                            rows |-> r],
                            results_md |-> ResultsMd(r, Suite(s).suite_version, floor), flips |-> f]
<1>1. DriftBoard(ser, reg, Suite(s), floor) = Board(rows, FlipsWritten(meas))
  BY Zenon DEF DriftBoard
<1>2. DriftFlips(s) = FlipsWritten(meas)
  <2>1. FlipSeries(ser, floor) = meas
    BY QualifyingIsMeasured
  <2>2. \A m \in DOMAIN meas : IsList(meas[m])
    BY MeasuredAreLists
  <2>. HIDE DEF meas
  <2>3. Flips(meas) = FlipsWritten(meas)
    BY <2>2, FlipsCounted
  <2>. QED BY <2>1, <2>3, Zenon DEF DriftFlips
<1>3. /\ IsList(reg) /\ DOMAIN meas = DOMAIN ser
      /\ \A m \in DOMAIN ser : IsList(meas[m]) /\ meas[m] = Qualifying(ser[m], floor)
  BY BoardHas, MeasuredAreLists
<1>4. floor # None => \A i \in DOMAIN reg : Lately(i) = LatestObserved(Seen(i), floor)
  <2>. SUFFICES ASSUME floor # None, NEW i \in DOMAIN reg PROVE Lately(i) = LatestObserved(Seen(i), floor)
    OBVIOUS
  <2>1. floor \in 0..9
    OBVIOUS
  <2>. DEFINE points == Seen(i)
              p      == points[Len(points)]
  <2>2. LatestObserved(points, floor)
          = IF points = <<>> THEN None
            ELSE [when |-> p["t"], acc |-> p["acc"], reliability |-> p["reliability"],
                  qualified |-> p["reliability"] >= floor]
    <3>. HIDE DEF floor
    <3>. QED BY <2>1, LatestIs, Zenon
  <2>3. Last(points) = p
    BY DEF Last
  <2>4. Lately(i) = IF points = <<>> THEN None
                    ELSE [when |-> Last(points)["t"], acc |-> Last(points)["acc"],
                          reliability |-> Last(points)["reliability"],
                          qualified |-> Last(points)["reliability"] >= floor]
    BY Zenon
  <2>. HIDE DEF points, p, floor, Lately
  <2>5. Lately(i) = LatestObserved(points, floor)
    BY <2>2, <2>3, <2>4, Zenon
  <2>. QED BY <2>5 DEF points
<1>. HIDE DEF ser, reg, meas, floor
<1>5. ASSUME NEW m PROVE Qualifying(SeriesOf(meas, m), None) = Qualifying(SeriesOf(ser, m), floor)
  <2>1. CASE m \in DOMAIN ser
    BY <1>3, <2>1, AllQualify DEF SeriesOf
  <2>2. CASE m \notin DOMAIN ser
    BY <1>3, <2>2, NothingQualifies DEF SeriesOf
  <2>. QED BY <2>1, <2>2
<1>. HIDE DEF Lately
<1>6. ASSUME NEW i \in DOMAIN reg PROVE rows[i] = mine[i]
  <2>. DEFINE q    == Qualifying(Seen(i), floor)
              t    == ToldOf(reg[i], q)
              late == LatestObserved(Seen(i), floor)
  <2>1. plain[i] = Join(t, <<>>)
    <3>1. plain[i] = Standing(reg[i], SeriesOf(meas, reg[i].id), None)
      BY Zenon DEF StandingsRows
    <3>2. Qualifying(SeriesOf(meas, reg[i].id), None) = q
      BY <1>5
    <3>. HIDE DEF plain, q
    <3>. QED BY <3>1, <3>2, StandingIs
  <2>2. mine[i] = Join(t, IF floor = None THEN <<>> ELSE [latest_observed |-> late])
    <3>1. mine[i] = Standing(reg[i], Seen(i), floor)
      BY Zenon DEF StandingsRows
    <3>. HIDE DEF mine
    <3>. QED BY <3>1, StandingIs
  <2>3. rows[i] = IF floor = None THEN plain[i] ELSE With(plain[i], "latest_observed", Lately(i))
    BY Zenon
  <2>4. t = [k \in DOMAIN t |-> t[k]] /\ "latest_observed" \notin DOMAIN t
    BY ToldKeys DEF RowKeys
  <2>. HIDE DEF t
  <2>5. /\ Join(t, <<>>) = t
        /\ \A value : With(t, "latest_observed", value) = Join(t, [k \in {"latest_observed"} |-> value])
    <3>. HIDE DEF q, late, plain, mine, rows
    <3>. QED BY <2>4, JoinedLate
  <2>6. [latest_observed |-> late] = [k \in {"latest_observed"} |-> late]
    OBVIOUS
  <2>7. floor # None => Lately(i) = late
    BY <1>4
  <2>. HIDE DEF late, plain, mine, rows
  <2>8. plain[i] = t
    BY <2>1, <2>5
  <2>. QED BY <2>2, <2>3, <2>5, <2>6, <2>7, <2>8
<1>7. mine = [i \in DOMAIN reg |-> mine[i]]
  BY Zenon DEF StandingsRows
<1>8. rows = [i \in DOMAIN reg |-> rows[i]]
  OBVIOUS
<1>. HIDE DEF rows, mine
<1>9. rows = mine
  BY <1>6, <1>7, <1>8
<1>10. mine = DriftRows(s)
  BY Zenon DEF DriftRows, mine, ser, reg, floor
<1>. HIDE DEF Board
<1>11. Board(rows, FlipsWritten(meas)) = Board(DriftRows(s), DriftFlips(s))
  BY <1>2, <1>9, <1>10, Zenon
<1>12. DriftBoard(ser, reg, Suite(s), floor) = Board(DriftRows(s), DriftFlips(s))
  BY <1>1, <1>11, Zenon
<1>. QED BY <1>12, Zenon DEF ser, reg, floor, Board

(* Two sets apart.                                                         *)
LEMMA CountedApart ==
  ASSUME NEW A, NEW B, IsFiniteSet(A), IsFiniteSet(B), A \cap B = {}
  PROVE  Cardinality(A \cup B) = Cardinality(A) + Cardinality(B)
<1>1. Cardinality(A \cup B) = Cardinality(A) + Cardinality(B) - Cardinality(A \cap B)
  BY FS_Union
<1>2. Cardinality(A) \in Nat /\ Cardinality(B) \in Nat
  BY FS_CardinalityType
<1>3. Cardinality(A \cap B) = 0
  BY FS_EmptySet
<1>. QED BY <1>1, <1>2, <1>3

(* What is kept of two parts, one after the other, is what is kept of the  *)
(* one and then what is kept of the other.                                 *)
LEMMA KeptApart ==
  ASSUME NEW rows, IsList(rows), NEW A \in SUBSET DOMAIN rows, NEW B \in SUBSET DOMAIN rows,
         \A a \in A, b \in B : a < b
  PROVE  Kept(rows, A \cup B) = Kept(rows, A) \o Kept(rows, B)
<1>. DEFINE S == A \cup B
            m == Cardinality(A)
            n == Cardinality(B)
<1>1. Len(rows) \in Nat /\ DOMAIN rows = 1..Len(rows)
  BY ListIs
<1>2. /\ IsFiniteSet(A) /\ IsFiniteSet(B) /\ m \in Nat /\ n \in Nat
      /\ IsList(Kept(rows, A)) /\ Len(Kept(rows, A)) = m /\ DOMAIN Kept(rows, A) = 1..m
      /\ IsList(Kept(rows, B)) /\ Len(Kept(rows, B)) = n /\ DOMAIN Kept(rows, B) = 1..n
  BY KeptIs
<1>3. Cardinality(S) = m + n
  <2>1. A \cap B = {}
    <3>1. A \subseteq Int
      BY <1>1
    <3>. QED BY <3>1
  <2>. QED BY <1>2, <2>1, CountedApart
<1>4. ASSUME NEW i \in A PROVE Rank(S, i) = Rank(A, i)
  <2>1. {j \in S : j <= i} = {j \in A : j <= i}
    <3>1. A \subseteq Int /\ B \subseteq Int
      BY <1>1
    <3>. QED BY <3>1
  <2>. QED BY <2>1, Zenon DEF Rank
<1>5. ASSUME NEW i \in B PROVE Rank(S, i) = m + Rank(B, i)
  <2>. DEFINE T == {j \in B : j <= i}
  <2>1. {j \in S : j <= i} = A \cup T /\ A \cap T = {}
    <3>1. A \subseteq Int /\ B \subseteq Int
      BY <1>1
    <3>. QED BY <3>1
  <2>2. IsFiniteSet(T) /\ Cardinality(T) \in Nat
    BY <1>2, FS_Subset, FS_CardinalityType
  <2>. HIDE DEF T
  <2>3. Cardinality(A \cup T) = m + Cardinality(T)
    BY <1>2, <2>1, <2>2, CountedApart
  <2>. QED BY <2>1, <2>3 DEF Rank, T
<1>6. S \in SUBSET DOMAIN rows
  OBVIOUS
<1>7. /\ IsList(Kept(rows, S)) /\ Len(Kept(rows, S)) = m + n /\ DOMAIN Kept(rows, S) = 1..m + n
      /\ \A i \in S : Kept(rows, S)[Rank(S, i)] = rows[i]
  <2>. HIDE DEF S
  <2>. QED BY <1>3, <1>6, KeptIs
<1>8. ASSUME NEW k \in 1..m PROVE Kept(rows, S)[k] = Kept(rows, A)[k]
  <2>. DEFINE i == Place(A, k)
  <2>1. i \in A /\ Kept(rows, A)[k] = rows[i]
    BY KeptIs
  <2>2. Rank(A, i) = k
    BY <1>1, Ranked
  <2>. HIDE DEF i
  <2>. QED BY <1>4, <1>7, <2>1, <2>2
<1>9. ASSUME NEW k \in 1..n PROVE Kept(rows, S)[m + k] = Kept(rows, B)[k]
  <2>. DEFINE i == Place(B, k)
  <2>1. i \in B /\ Kept(rows, B)[k] = rows[i]
    BY KeptIs
  <2>2. Rank(B, i) = k
    BY <1>1, Ranked
  <2>. HIDE DEF i
  <2>. QED BY <1>5, <1>7, <2>1, <2>2
<1>. DEFINE left  == Kept(rows, A)
            right == Kept(rows, B)
            all   == Kept(rows, S)
            U     == ToSet(left) \cup ToSet(right) \cup ToSet(all)
<1>10. left \in Seq(U) /\ right \in Seq(U) /\ all \in Seq(U)
  <2>1. left \in Seq(ToSet(left)) /\ right \in Seq(ToSet(right)) /\ all \in Seq(ToSet(all))
    BY <1>2, <1>7 DEF IsList
  <2>. HIDE DEF left, right, all
  <2>. QED BY <2>1, SeqMonotonic
<1>. HIDE DEF left, right, all, U, S, m, n
<1>11. /\ left \o right \in Seq(U) /\ Len(left \o right) = m + n
       /\ \A k \in 1..m + n : (left \o right)[k] = IF k <= m THEN left[k] ELSE right[k - m]
  <2>1. Len(left) = m /\ Len(right) = n
    BY <1>2 DEF left, right
  <2>. QED BY <1>10, <2>1, ConcatProperties
<1>12. ASSUME NEW k \in 1..m + n PROVE all[k] = (left \o right)[k]
  <2>1. CASE k <= m
    BY <1>2, <1>8, <1>11, <2>1 DEF all, left
  <2>2. CASE ~(k <= m)
    <3>1. k - m \in 1..n /\ m + (k - m) = k
      BY <1>2, <2>2
    <3>. QED BY <1>9, <1>11, <2>2, <3>1 DEF all, right
  <2>. QED BY <2>1, <2>2
<1>13. Len(all) = m + n
  BY <1>7 DEF all
<1>14. all = left \o right
  BY <1>10, <1>11, <1>12, <1>13, SeqEqual
<1>. QED BY <1>14 DEF left, right, all, S

(* What is kept of a run of places is that run.                            *)
LEMMA KeptRun ==
  ASSUME NEW rows, IsList(rows), NEW a \in 1..Len(rows) + 1, NEW b \in a - 1..Len(rows)
  PROVE  Kept(rows, a..b) = SubSeq(rows, a, b)
<1>. DEFINE S == a..b
            n == b - a + 1
<1>1. Len(rows) \in Nat /\ DOMAIN rows = 1..Len(rows) /\ rows \in Seq(ToSet(rows))
  BY ListIs
<1>2. S \in SUBSET DOMAIN rows /\ Cardinality(S) = n /\ n \in Nat
  <2>1. a \in Int /\ b \in Int /\ a >= 1 /\ b >= a - 1 /\ b <= Len(rows)
    BY <1>1
  <2>2. Cardinality(S) = IF a > b THEN 0 ELSE b - a + 1
    BY <2>1, FS_Interval
  <2>3. n \in Nat
    BY <2>1
  <2>4. S \in SUBSET DOMAIN rows
    BY <1>1, <2>1
  <2>5. CASE a > b
    <3>1. b = a - 1 /\ n = 0
      BY <2>1, <2>5
    <3>. QED BY <2>2, <2>4, <2>5, <3>1
  <2>6. CASE ~(a > b)
    BY <2>2, <2>3, <2>4, <2>6
  <2>. QED BY <2>5, <2>6
<1>3. ASSUME NEW k \in 1..n PROVE Rank(S, a + k - 1) = k /\ a + k - 1 \in S
  <2>1. {j \in S : j <= a + k - 1} = a..a + k - 1
    BY <1>1
  <2>2. Cardinality(a..a + k - 1) = k
    BY <1>1, FS_Interval
  <2>3. a + k - 1 \in S
    BY <1>1
  <2>. QED BY <2>1, <2>2, <2>3, Zenon DEF Rank
<1>4. DOMAIN Kept(rows, S) = 1..n /\ IsList(Kept(rows, S)) /\ Len(Kept(rows, S)) = n
      /\ \A i \in S : Kept(rows, S)[Rank(S, i)] = rows[i]
  <2>. HIDE DEF S
  <2>. QED BY <1>2, KeptIs
<1>5. \A k \in 1..n : Kept(rows, S)[k] = rows[a + k - 1]
  BY <1>3, <1>4
<1>. DEFINE s == Kept(rows, S)
<1>6. s \in Seq(ToSet(s))
  BY <1>4 DEF IsList
<1>. HIDE DEF S, s
<1>7. s = SubSeq(rows, a, b)
  BY <1>1, <1>2, <1>4, <1>5, <1>6 DEF s
<1>. QED BY <1>7 DEF s, S

(* The next place of a character, 0 when there is none.                    *)
NextAt(html, c, from) == LET at == {k \in from..Len(html) : html[k] = c}
                         IN  IF at = {} THEN 0 ELSE CHOOSE k \in at : \A j \in at : k <= j

(* There is none before it, and none at all when it is 0.                  *)
LEMMA NextIs ==
  ASSUME NEW html, IsList(html), NEW c, NEW from \in Nat \ {0}
  PROVE  LET k == NextAt(html, c, from)
         IN  \/ k = 0 /\ \A j \in from..Len(html) : html[j] # c
             \/ k \in from..Len(html) /\ html[k] = c /\ \A j \in from..k - 1 : html[j] # c
<1>. DEFINE at == {k \in from..Len(html) : html[k] = c}
<1>1. Len(html) \in Nat
  BY ListIs
<1>2. CASE at = {}
  <2>1. NextAt(html, c, from) = 0
    BY <1>2, Zenon DEF NextAt
  <2>. QED BY <1>2, <2>1
<1>3. CASE at # {}
  <2>1. at \subseteq Nat
    OBVIOUS
  <2>2. \E k \in at : \A j \in at : k <= j
    <3>. HIDE DEF at
    <3>. QED BY <1>3, <2>1, LeastNatural
  <2>3. NextAt(html, c, from) = CHOOSE k \in at : \A j \in at : k <= j
    BY <1>3, Zenon DEF NextAt
  <2>. DEFINE k == NextAt(html, c, from)
  <2>4. k \in at /\ \A j \in at : k <= j
    <3>. HIDE DEF at
    <3>. QED BY <2>2, <2>3
  <2>. HIDE DEF k
  <2>5. k \in from..Len(html) /\ html[k] = c
    BY <2>4
  <2>6. ASSUME NEW j \in from..k - 1 PROVE html[j] # c
    <3>1. j \in from..Len(html) /\ ~(k <= j)
      BY <1>1, <2>5
    <3>. QED BY <2>4, <3>1
  <2>. QED BY <2>5, <2>6 DEF k
<1>. QED BY <1>2, <1>3

(* A tag of one character or more; what no tag from some place on covers.  *)
Tag(html, a, b) == /\ a \in DOMAIN html /\ b \in DOMAIN html /\ b > a + 1
                   /\ html[a] = "<" /\ html[b] = ">" /\ \A k \in a + 1..b - 1 : html[k] # ">"

LeftFrom(html, i) == {k \in i..Len(html) : ~ \E a, b \in DOMAIN html : a >= i /\ Tag(html, a, b) /\ k \in a..b}

(* Without a tag ahead nothing is taken out.                               *)
LEMMA NoTagAhead ==
  ASSUME NEW html, IsList(html), NEW i \in 1..Len(html) + 1,
         LET lt == NextAt(html, "<", i)
             gt == NextAt(html, ">", lt + 1)
         IN  lt = 0 \/ gt = 0
  PROVE  LeftFrom(html, i) = i..Len(html)
<1>. DEFINE lt == NextAt(html, "<", i)
            gt == NextAt(html, ">", lt + 1)
<1>1. Len(html) \in Nat /\ DOMAIN html = 1..Len(html)
  BY ListIs
<1>2. i \in Nat \ {0}
  BY <1>1
<1>3. \/ lt = 0 /\ \A j \in i..Len(html) : html[j] # "<"
      \/ lt \in i..Len(html) /\ html[lt] = "<" /\ \A j \in i..lt - 1 : html[j] # "<"
  BY <1>2, NextIs
<1>4. lt + 1 \in Nat \ {0}
  BY <1>1, <1>2, <1>3
<1>5. \/ gt = 0 /\ \A j \in lt + 1..Len(html) : html[j] # ">"
      \/ gt \in lt + 1..Len(html)
  <2>. HIDE DEF lt
  <2>. QED BY <1>4, NextIs
<1>6. lt = 0 \/ gt = 0
  OBVIOUS
<1>. HIDE DEF lt, gt
<1>7. ASSUME NEW a \in DOMAIN html, NEW b \in DOMAIN html, a >= i, Tag(html, a, b) PROVE FALSE
  <2>1. a \in i..Len(html) /\ html[a] = "<" /\ b \in a + 2..Len(html) /\ html[b] = ">"
    BY <1>1, <1>2, <1>7 DEF Tag
  <2>2. lt \in i..Len(html) /\ gt = 0
    BY <1>2, <1>3, <1>6, <2>1
  <2>3. ~(a < lt)
    <3>1. a < lt => a \in i..lt - 1
      BY <1>1, <1>2, <2>1, <2>2
    <3>. QED BY <1>3, <2>1, <2>2, <3>1
  <2>4. b \in lt + 1..Len(html)
    BY <1>1, <1>2, <2>1, <2>2, <2>3
  <2>. QED BY <1>4, <1>5, <2>1, <2>2, <2>4
<1>. QED BY <1>7 DEF LeftFrom

(* An opening character that the next closing one follows at once.         *)
LEMMA EmptyTagAhead ==
  ASSUME NEW html, IsList(html), NEW i \in 1..Len(html) + 1, NEW lt, NEW gt,
         lt = NextAt(html, "<", i), gt = NextAt(html, ">", lt + 1), lt # 0, gt = lt + 1
  PROVE  /\ lt \in i..Len(html) /\ gt \in lt + 1..Len(html)
         /\ LeftFrom(html, i) = i..lt \cup LeftFrom(html, lt + 1)
<1>1. Len(html) \in Nat /\ DOMAIN html = 1..Len(html)
  BY ListIs
<1>2. i \in Nat \ {0}
  BY <1>1
<1>3. lt \in i..Len(html) /\ html[lt] = "<" /\ \A j \in i..lt - 1 : html[j] # "<"
  BY <1>2, NextIs
<1>4. lt + 1 \in Nat \ {0}
  BY <1>1, <1>2, <1>3
<1>5. gt \in lt + 1..Len(html) /\ html[gt] = ">"
  BY <1>3, <1>4, NextIs
<1>6. ASSUME NEW a \in DOMAIN html, NEW b \in DOMAIN html, a >= i, Tag(html, a, b) PROVE a >= lt + 1
  <2>1. a \in i..Len(html) /\ html[a] = "<" /\ b > a + 1 /\ \A k \in a + 1..b - 1 : html[k] # ">"
    BY <1>1, <1>2, <1>6 DEF Tag
  <2>2. ~(a < lt)
    <3>1. a < lt => a \in i..lt - 1
      BY <1>1, <1>2, <1>3, <2>1
    <3>. QED BY <1>3, <2>1, <3>1
  <2>3. a # lt
    <3>1. a = lt => gt \in a + 1..b - 1
      BY <1>1, <1>3, <1>5, <2>1
    <3>. QED BY <1>5, <2>1, <3>1
  <2>. QED BY <1>1, <1>2, <1>3, <2>1, <2>2, <2>3
<1>7. LeftFrom(html, i) = i..lt \cup LeftFrom(html, lt + 1)
  <2>1. ASSUME NEW k \in LeftFrom(html, i), k \notin i..lt PROVE k \in LeftFrom(html, lt + 1)
    <3>1. k \in i..Len(html) /\ ~ \E a, b \in DOMAIN html : a >= i /\ Tag(html, a, b) /\ k \in a..b
      BY DEF LeftFrom
    <3>2. k \in lt + 1..Len(html)
      BY <1>1, <1>2, <1>3, <2>1, <3>1
    <3>3. \A a \in DOMAIN html : a >= lt + 1 => a >= i
      BY <1>1, <1>2, <1>3
    <3>. QED BY <3>1, <3>2, <3>3 DEF LeftFrom
  <2>2. ASSUME NEW k \in i..lt PROVE k \in LeftFrom(html, i)
    <3>1. k \in i..Len(html)
      BY <1>1, <1>2, <1>3
    <3>2. \A a, b \in DOMAIN html : a >= lt + 1 => k \notin a..b
      BY <1>1, <1>2, <1>3
    <3>. QED BY <1>6, <3>1, <3>2 DEF LeftFrom
  <2>3. ASSUME NEW k \in LeftFrom(html, lt + 1) PROVE k \in LeftFrom(html, i)
    <3>1. k \in lt + 1..Len(html) /\ ~ \E a, b \in DOMAIN html : a >= lt + 1 /\ Tag(html, a, b) /\ k \in a..b
      BY DEF LeftFrom
    <3>2. k \in i..Len(html)
      BY <1>1, <1>2, <1>3, <3>1
    <3>. QED BY <1>6, <3>1, <3>2 DEF LeftFrom
  <2>. QED BY <2>1, <2>2, <2>3
<1>. QED BY <1>3, <1>5, <1>7

(* A tag ahead is taken out, with all that opens in it.                    *)
LEMMA TagAhead ==
  ASSUME NEW html, IsList(html), NEW i \in 1..Len(html) + 1, NEW lt, NEW gt,
         lt = NextAt(html, "<", i), gt = NextAt(html, ">", lt + 1), lt # 0, gt # 0, gt # lt + 1
  PROVE  /\ lt \in i..Len(html) /\ gt \in lt + 2..Len(html)
         /\ LeftFrom(html, i) = i..lt - 1 \cup LeftFrom(html, gt + 1)
<1>1. Len(html) \in Nat /\ DOMAIN html = 1..Len(html)
  BY ListIs
<1>2. i \in Nat \ {0}
  BY <1>1
<1>3. lt \in i..Len(html) /\ html[lt] = "<" /\ \A j \in i..lt - 1 : html[j] # "<"
  BY <1>2, NextIs
<1>4. lt + 1 \in Nat \ {0}
  BY <1>1, <1>2, <1>3
<1>5. gt \in lt + 1..Len(html) /\ html[gt] = ">" /\ \A j \in lt + 1..gt - 1 : html[j] # ">"
  BY <1>3, <1>4, NextIs
<1>6. gt \in lt + 2..Len(html) /\ Tag(html, lt, gt)
  <2>1. gt \in lt + 2..Len(html) /\ lt \in DOMAIN html /\ gt \in DOMAIN html /\ gt > lt + 1
    BY <1>1, <1>2, <1>3, <1>5
  <2>. QED BY <1>3, <1>5, <2>1 DEF Tag
<1>7. ASSUME NEW a \in DOMAIN html, NEW b \in DOMAIN html, a >= i, Tag(html, a, b)
      PROVE  a >= lt /\ (b <= gt \/ a >= gt + 1)
  <2>1. /\ a \in i..Len(html) /\ html[a] = "<" /\ b \in a + 2..Len(html)
        /\ \A k \in a + 1..b - 1 : html[k] # ">"
    BY <1>1, <1>2, <1>7 DEF Tag
  <2>2. ~(a < lt)
    <3>1. a < lt => a \in i..lt - 1
      BY <1>1, <1>2, <1>3, <2>1
    <3>. QED BY <1>3, <2>1, <3>1
  <2>3. ASSUME ~(b <= gt), ~(a >= gt + 1) PROVE FALSE
    <3>1. a # gt
      <4>1. html[gt] # html[a]
        BY <1>5, <2>1
      <4>. QED BY <4>1
    <3>2. gt \in a + 1..b - 1
      BY <1>1, <1>3, <1>6, <2>1, <2>3, <3>1
    <3>. QED BY <1>5, <2>1, <3>2
  <2>4. a \in Int /\ lt \in Int
    BY <1>1, <1>3
  <2>. QED BY <2>2, <2>3, <2>4
<1>8. LeftFrom(html, i) = i..lt - 1 \cup LeftFrom(html, gt + 1)
  <2>1. ASSUME NEW k \in LeftFrom(html, i), k \notin i..lt - 1 PROVE k \in LeftFrom(html, gt + 1)
    <3>1. k \in i..Len(html) /\ ~ \E a, b \in DOMAIN html : a >= i /\ Tag(html, a, b) /\ k \in a..b
      BY DEF LeftFrom
    <3>2. lt >= i /\ lt \in DOMAIN html /\ gt \in DOMAIN html
      BY <1>1, <1>2, <1>3, <1>6
    <3>3. k \notin lt..gt
      BY <1>6, <3>1, <3>2
    <3>4. k \in gt + 1..Len(html)
      BY <1>1, <1>2, <1>3, <1>6, <2>1, <3>1, <3>3
    <3>5. \A a \in DOMAIN html : a >= gt + 1 => a >= i
      BY <1>1, <1>2, <1>3, <1>6
    <3>. QED BY <3>1, <3>4, <3>5 DEF LeftFrom
  <2>2. ASSUME NEW k \in i..lt - 1 PROVE k \in LeftFrom(html, i)
    <3>1. k \in i..Len(html)
      BY <1>1, <1>2, <1>3
    <3>2. \A a, b \in DOMAIN html : a >= lt => k \notin a..b
      BY <1>1, <1>2, <1>3
    <3>. QED BY <1>7, <3>1, <3>2 DEF LeftFrom
  <2>3. ASSUME NEW k \in LeftFrom(html, gt + 1) PROVE k \in LeftFrom(html, i)
    <3>1. /\ k \in gt + 1..Len(html)
          /\ ~ \E a, b \in DOMAIN html : a >= gt + 1 /\ Tag(html, a, b) /\ k \in a..b
      BY DEF LeftFrom
    <3>2. k \in i..Len(html)
      BY <1>1, <1>2, <1>3, <1>6, <3>1
    <3>3. \A a, b \in DOMAIN html : b <= gt => k \notin a..b
      BY <1>1, <1>3, <1>6, <3>1
    <3>. QED BY <1>7, <3>1, <3>2, <3>3 DEF LeftFrom
  <2>. QED BY <2>1, <2>2, <2>3
<1>. QED BY <1>3, <1>6, <1>8

(* What stripping leaves: what no tag covers.                              *)
LEMMA StripLeaves ==
  ASSUME NEW html, IsList(html)
  PROVE  StripFrom(html) = Kept(html, LeftFrom(html, 1))
<1>. DEFINE L == Len(html)
            D == 1..L + 1
            Lt(i) == NextAt(html, "<", i)
            Gt(i) == NextAt(html, ">", Lt(i) + 1)
            Unroll(g) == [i \in D |->
                            CASE Lt(i) = 0 \/ Gt(i) = 0 -> SubSeq(html, i, L)
                              [] Lt(i) # 0 /\ Gt(i) = Lt(i) + 1 -> SubSeq(html, i, Lt(i)) \o g[Lt(i) + 1]
                              [] OTHER -> SubSeq(html, i, Lt(i) - 1) \o g[Gt(i) + 1]]
            h == CHOOSE g : g = Unroll(g)
            G == [i \in D |-> Kept(html, LeftFrom(html, i))]
<1>1. L \in Nat /\ DOMAIN html = 1..L
  BY ListIs
<1>2. StripFrom(html) = h[1]
  BY Zenon DEF StripFrom, NextAt
<1>3. ASSUME NEW i \in D PROVE Lt(i) \in Nat
  <2>1. i \in Nat \ {0}
    BY <1>1
  <2>2. \/ Lt(i) = 0
        \/ Lt(i) \in i..L
    BY <2>1, NextIs
  <2>. HIDE DEF Lt
  <2>. QED BY <1>1, <2>1, <2>2
<1>4. ASSUME NEW i \in D, Lt(i) = 0 \/ Gt(i) = 0 PROVE G[i] = SubSeq(html, i, L)
  <2>1. LeftFrom(html, i) = i..L
    BY <1>4, NoTagAhead
  <2>2. i \in 1..L + 1 /\ L \in i - 1..L
    BY <1>1
  <2>. QED BY <2>1, <2>2, KeptRun
<1>5. ASSUME NEW i \in D, Lt(i) # 0, Gt(i) = Lt(i) + 1
      PROVE  Lt(i) + 1 \in D /\ Lt(i) + 1 > i /\ G[i] = SubSeq(html, i, Lt(i)) \o G[Lt(i) + 1]
  <2>. DEFINE lt == Lt(i)
              gt == Gt(i)
  <2>1. lt \in i..L /\ gt \in lt + 1..L /\ LeftFrom(html, i) = i..lt \cup LeftFrom(html, lt + 1)
    BY <1>5, EmptyTagAhead
  <2>. HIDE DEF lt, gt
  <2>2. lt + 1 \in D /\ lt + 1 > i /\ i \in Nat \ {0} /\ lt \in i - 1..L
    BY <1>1, <2>1
  <2>3. i..lt \in SUBSET DOMAIN html /\ LeftFrom(html, lt + 1) \in SUBSET DOMAIN html
    BY <1>1, <2>1, <2>2 DEF LeftFrom
  <2>4. \A a \in i..lt, b \in LeftFrom(html, lt + 1) : a < b
    BY <1>1, <2>1, <2>2 DEF LeftFrom
  <2>5. Kept(html, i..lt \cup LeftFrom(html, lt + 1)) = Kept(html, i..lt) \o Kept(html, LeftFrom(html, lt + 1))
    BY <2>3, <2>4, KeptApart
  <2>6. Kept(html, i..lt) = SubSeq(html, i, lt)
    BY <2>2, KeptRun
  <2>7. G[i] = SubSeq(html, i, lt) \o G[lt + 1]
    BY <2>1, <2>2, <2>5, <2>6
  <2>. QED BY <2>2, <2>7 DEF lt
<1>6. ASSUME NEW i \in D, Lt(i) # 0, Gt(i) # 0, Gt(i) # Lt(i) + 1
      PROVE  Gt(i) + 1 \in D /\ Gt(i) + 1 > i /\ G[i] = SubSeq(html, i, Lt(i) - 1) \o G[Gt(i) + 1]
  <2>. DEFINE lt == Lt(i)
              gt == Gt(i)
  <2>1. lt \in i..L /\ gt \in lt + 2..L /\ LeftFrom(html, i) = i..lt - 1 \cup LeftFrom(html, gt + 1)
    BY <1>6, TagAhead
  <2>. HIDE DEF lt, gt
  <2>2. gt + 1 \in D /\ gt + 1 > i /\ i \in Nat \ {0} /\ lt - 1 \in i - 1..L /\ gt \in Nat
    BY <1>1, <2>1
  <2>3. i..lt - 1 \in SUBSET DOMAIN html /\ LeftFrom(html, gt + 1) \in SUBSET DOMAIN html
    BY <1>1, <2>1, <2>2 DEF LeftFrom
  <2>4. \A a \in i..lt - 1, b \in LeftFrom(html, gt + 1) : a < b
    BY <1>1, <2>1, <2>2 DEF LeftFrom
  <2>5. Kept(html, i..lt - 1 \cup LeftFrom(html, gt + 1))
          = Kept(html, i..lt - 1) \o Kept(html, LeftFrom(html, gt + 1))
    BY <2>3, <2>4, KeptApart
  <2>6. Kept(html, i..lt - 1) = SubSeq(html, i, lt - 1)
    BY <2>2, KeptRun
  <2>7. G[i] = SubSeq(html, i, lt - 1) \o G[gt + 1]
    BY <2>1, <2>2, <2>5, <2>6
  <2>. QED BY <2>2, <2>7 DEF lt, gt
<1>7. G = [i \in D |-> G[i]]
  OBVIOUS
<1>. HIDE DEF G, Lt, Gt, D, L
<1>8. \A i \in D : G[i] = Unroll(G)[i]
  BY <1>4, <1>5, <1>6
<1>9. G = Unroll(G)
  BY <1>7, <1>8
<1>10. h = Unroll(h)
  <2>. HIDE DEF Unroll
  <2>. QED BY <1>9
<1>. HIDE DEF h
<1>11. \A i \in D : h[i] = G[i]
  <2>. DEFINE Fails == {n \in Nat : \E i \in D : i + n = L + 1 /\ h[i] # G[i]}
  <2>1. ASSUME Fails # {} PROVE FALSE
    <3>1. PICK n \in Fails : \A m \in Fails : n <= m
      <4>1. Fails \subseteq Nat
        OBVIOUS
      <4>. HIDE DEF Fails
      <4>. QED BY <2>1, <4>1, LeastNatural
    <3>2. PICK i \in D : i + n = L + 1 /\ h[i] # G[i]
      BY <3>1
    <3>3. \A j \in D : j > i => h[j] = G[j]
      <4>. SUFFICES ASSUME NEW j \in D, j > i, h[j] # G[j] PROVE FALSE
        OBVIOUS
      <4>1. L + 1 - j \in Nat /\ j + (L + 1 - j) = L + 1 /\ ~(n <= L + 1 - j)
        BY <1>1, <3>1, <3>2 DEF D
      <4>2. L + 1 - j \in Fails
        BY <4>1
      <4>. QED BY <3>1, <4>1, <4>2
    <3>4. h[i] = Unroll(h)[i] /\ G[i] = Unroll(G)[i]
      BY <1>9, <1>10
    <3>. HIDE DEF Fails
    <3>5. CASE Lt(i) = 0 \/ Gt(i) = 0
      <4>1. ~(Lt(i) # 0 /\ Gt(i) = Lt(i) + 1)
        BY <1>3, <3>5
      <4>2. \A g : Unroll(g)[i] = SubSeq(html, i, L)
        BY <3>5, <4>1
      <4>. QED BY <3>2, <3>4, <4>2
    <3>6. CASE Lt(i) # 0 /\ Gt(i) = Lt(i) + 1 /\ Gt(i) # 0
      <4>1. h[Lt(i) + 1] = G[Lt(i) + 1]
        BY <1>5, <3>3, <3>6
      <4>. QED BY <3>2, <3>4, <3>6, <4>1
    <3>7. CASE Lt(i) # 0 /\ Gt(i) # 0 /\ Gt(i) # Lt(i) + 1
      <4>1. h[Gt(i) + 1] = G[Gt(i) + 1]
        BY <1>6, <3>3, <3>7
      <4>. QED BY <3>2, <3>4, <3>7, <4>1
    <3>. QED BY <3>5, <3>6, <3>7
  <2>2. ASSUME NEW i \in D PROVE h[i] = G[i]
    <3>1. L + 1 - i \in Nat /\ i + (L + 1 - i) = L + 1
      BY <1>1 DEF D
    <3>2. L + 1 - i \notin Fails
      <4>. HIDE DEF Fails
      <4>. QED BY <2>1
    <3>. QED BY <3>1, <3>2
  <2>. QED BY <2>2
<1>12. 1 \in D
  BY <1>1 DEF D
<1>13. h[1] = Kept(html, LeftFrom(html, 1))
  BY <1>11, <1>12 DEF G
<1>. QED BY <1>2, <1>13

(* The text a narrative has is what its tags leave.                        *)
LEMMA TextIs ==
  ASSUME NEW html, IsList(html)
  PROVE  TextOf(html) = Normalized(StripFrom(html))
<1>. DEFINE D    == DOMAIN html
            tags == {ij \in D \X D : /\ ij[2] > ij[1] + 1 /\ html[ij[1]] = "<" /\ html[ij[2]] = ">"
                                     /\ \A k \in ij[1] + 1..ij[2] - 1 : html[k] # ">"}
            left == {k \in D : ~ \E ij \in tags : k \in ij[1]..ij[2]}
<1>1. Len(html) \in Nat /\ D = 1..Len(html)
  BY ListIs
<1>2. \A a, b : <<a, b>> \in tags <=> Tag(html, a, b)
  BY DEF Tag
<1>3. \A ij \in tags : ij = <<ij[1], ij[2]>> /\ ij[1] \in D /\ ij[2] \in D
  OBVIOUS
<1>4. \A a, b : <<a, b>>[1] = a /\ <<a, b>>[2] = b
  OBVIOUS
<1>. HIDE DEF tags
<1>5. left = LeftFrom(html, 1)
  <2>1. ASSUME NEW k \in D
        PROVE  (\E ij \in tags : k \in ij[1]..ij[2]) <=> \E a, b \in D : a >= 1 /\ Tag(html, a, b) /\ k \in a..b
    <3>1. ASSUME NEW ij \in tags, k \in ij[1]..ij[2] PROVE \E a, b \in D : a >= 1 /\ Tag(html, a, b) /\ k \in a..b
      <4>. DEFINE a == ij[1]
                  b == ij[2]
      <4>1. a \in D /\ b \in D /\ Tag(html, a, b)
        BY <1>2, <1>3
      <4>2. k \in a..b /\ a >= 1
        BY <1>1, <3>1, <4>1
      <4>. HIDE DEF a, b
      <4>. QED BY <4>1, <4>2
    <3>2. ASSUME NEW a \in D, NEW b \in D, Tag(html, a, b), k \in a..b PROVE \E ij \in tags : k \in ij[1]..ij[2]
      <4>. DEFINE t == <<a, b>>
      <4>1. t \in tags /\ t[1] = a /\ t[2] = b
        BY <1>2, <1>4, <3>2
      <4>. HIDE DEF t
      <4>. QED BY <3>2, <4>1
    <3>. QED BY <3>1, <3>2
  <2>. HIDE DEF D
  <2>2. LeftFrom(html, 1) = {k \in D : ~ \E a, b \in D : a >= 1 /\ Tag(html, a, b) /\ k \in a..b}
    BY <1>1, Zenon DEF LeftFrom, D
  <2>. QED BY <2>1, <2>2
<1>6. TextOf(html) = Normalized(Kept(html, left))
  BY Zenon DEF TextOf, tags
<1>. QED BY <1>5, <1>6, StripLeaves

(* What an accepted board has been found to agree with.                    *)
BoardAgrees(s) ==
  /\ StandingsReasons(s.files.standings, s, DriftRows(s)) = {}
  /\ s.files.results_md = ResultsMd(DriftRows(s), Suite(s).suite_version, FloorOf(s))
  /\ FlipsReasons(s.files.flips, DriftFlips(s)) = {}
  /\ s.files.narrative.text = Normalized(StripFrom(s.files.narrative.html))

(* It is what was accepted.                                                *)
LEMMA BoardIsAgreed ==
  ASSUME NEW s, CheckModelDrift(s).reasons = {}, CheckModelDrift(s).pool # Raised
  PROVE  BoardAnswers(s) /\ FloorOf(s) \in {None} \cup 0..9 /\ BoardAgrees(s)
<1>. DEFINE stand  == StandingsReasons(s.files.standings, s, DriftRows(s))
            table  == s.files.results_md # ResultsMd(DriftRows(s), Suite(s).suite_version, FloorOf(s))
            flips  == FlipsReasons(s.files.flips, DriftFlips(s))
            claims == s.files.narrative.claims_fired # s.files.narrative.sentences
            text   == s.files.narrative.text # Normalized(StripFrom(s.files.narrative.html))
            expect == ExpectReasons(Get(s.check, "expect"), DriftRecount(s, DriftRows(s), DriftFlips(s)))
            R == stand \cup NameWhen(table, "table: differs") \cup flips
                   \cup (NameWhen(claims, "narrative: claims") \cup NameWhen(text, "narrative: text"))
                   \cup DriftStamps(s) \cup expect
            P == PoolOf(DriftRecount(s, DriftRows(s), DriftFlips(s)))
<1>1. BoardAnswers(s) /\ FloorOf(s) \in {None} \cup 0..9
  BY DriftAnswers DEF Answered
<1>2. /\ ~ \E file \in DOMAIN s.files : s.files[file] = None
      /\ Suite(s).tasks = TaskCount(s) /\ Coherent(s) /\ ~(s.version = "0.2" /\ FloorReasons(s) # {})
  BY <1>1 DEF BoardAnswers
<1>3. CheckModelDrift(s) = Result(R, P)
  BY <1>2, Zenon DEF CheckModelDrift, TaskCount, DriftRows, DriftFlips, FloorOf, NarrativeReasons
<1>. HIDE DEF P, stand, table, flips, claims, text, expect
<1>4. R = {}
  <2>. HIDE DEF R
  <2>. QED BY <1>3, ResultHas
<1>5. stand = {} /\ NameWhen(table, "table: differs") = {} /\ flips = {} /\ NameWhen(text, "narrative: text") = {}
  BY <1>4
<1>6. ~table /\ ~text
  BY <1>5, NothingNamed
<1>. QED BY <1>1, <1>5, <1>6 DEF BoardAgrees, stand, table, flips, text

(* modeldrift: the standings are those of the board.                       *)
LEMMA StandingsAre ==
  ASSUME NEW s, s.profile = "modeldrift", AsMeasured(s), BoardAnswers(s), BoardAgrees(s)
  PROVE  StandingsReissued(s.files.standings,
           [suite_version |-> Suite(s).suite_version, suite_hash |-> Suite(s).suite_hash,
            min_detectable_pts_full_grade |-> Rounded(100, Suite(s).tasks, 1000), rows |-> DriftRows(s)])
<1>. DEFINE stand  == s.files.standings
            got    == stand["rows"]
            rows   == DriftRows(s)
            a == Suite(s).suite_version
            b == Suite(s).suite_hash
            c == Rounded(100, TaskCount(s), 1000)
            stamps == [suite_version |-> a, suite_hash |-> b, min_detectable_pts_full_grade |-> c]
            board  == [suite_version |-> a, suite_hash |-> b, min_detectable_pts_full_grade |-> c, rows |-> rows]
            coverage == [i \in DOMAIN got |-> Get(got[i], "id")] # [i \in DOMAIN rows |-> rows[i]["id"]]
            differs  == \E i \in DOMAIN rows : Differing(got[i], rows[i]) # {}
            extra    == \E i \in DOMAIN rows : ~ DOMAIN got[i] \subseteq DOMAIN rows[i]
            stamped  == Differing(stand, stamps) # {}
            more     == ~ DOMAIN stand \subseteq DOMAIN stamps \cup {"rows"}
<1>1. StandingsReasons(stand, s, rows)
        = NameWhen(stamped, "standings: stamps") \cup NameWhen(more, "standings: extra key")
            \cup (IF coverage THEN {"standings: coverage"}
                  ELSE NameWhen(differs, "standings: row differs")
                         \cup NameWhen(extra, "standings: extra key in row"))
  BY Zenon DEF StandingsReasons
<1>2. StandingsReasons(stand, s, rows) = {}
  BY DEF BoardAgrees
<1>3. Suite(s).tasks = TaskCount(s)
  BY BoardHas
<1>. HIDE DEF a, b, c, rows, coverage, differs, extra, stamped, more
<1>4. ~stamped /\ ~more /\ ~coverage /\ ~differs /\ ~extra
  <2>1. NameWhen(stamped, "standings: stamps") = {} /\ NameWhen(more, "standings: extra key") = {} /\ ~coverage
    BY <1>1, <1>2
  <2>2. NameWhen(differs, "standings: row differs") = {} /\ NameWhen(extra, "standings: extra key in row") = {}
    BY <1>1, <1>2, <2>1
  <2>. QED BY <2>1, <2>2, NothingNamed
<1>5. DOMAIN got = DOMAIN rows
  <2>. DEFINE f == [i \in DOMAIN got |-> Get(got[i], "id")]
              g == [i \in DOMAIN rows |-> rows[i]["id"]]
  <2>1. f = g
    BY <1>4 DEF coverage
  <2>2. DOMAIN f = DOMAIN got /\ DOMAIN g = DOMAIN rows
    OBVIOUS
  <2>. HIDE DEF f, g
  <2>. QED BY <2>1, <2>2
<1>6. ASSUME NEW i \in DOMAIN rows PROVE Within(got[i], rows[i])
  <2>1. Differing(got[i], rows[i]) = {} /\ DOMAIN got[i] \subseteq DOMAIN rows[i]
    BY <1>4 DEF differs, extra
  <2>. HIDE DEF got
  <2>. QED BY <2>1, NoneDiffers DEF Within
<1>7. Within(Without(stand, "rows"), Without(board, "rows"))
  <2>1. Differing(stand, stamps) = {} /\ DOMAIN stand \subseteq DOMAIN stamps \cup {"rows"}
    BY <1>4 DEF stamped, more
  <2>2. Without(board, "rows") = stamps
    BY DEF Without
  <2>3. DOMAIN stamps = {"suite_version", "suite_hash", "min_detectable_pts_full_grade"}
    OBVIOUS
  <2>. HIDE DEF stamps, stand, board
  <2>4. \A k \in DOMAIN stamps : Get(Without(stand, "rows"), k) = Get(stamps, k)
    BY <2>1, <2>3 DEF Differing, Without, Get
  <2>5. DOMAIN Without(stand, "rows") \subseteq DOMAIN stamps
    BY <2>1 DEF Without
  <2>. QED BY <2>2, <2>4, <2>5 DEF Within, Alike
<1>8. board["rows"] = rows
  OBVIOUS
<1>9. StandingsReissued(stand, board)
  <2>. HIDE DEF board, stand
  <2>. QED BY <1>5, <1>6, <1>7, <1>8 DEF StandingsReissued
<1>. QED BY <1>3, <1>9 DEF a, b, c, rows

(* modeldrift: the flips are those of the board.                           *)
LEMMA FlipsAre ==
  ASSUME NEW s, BoardAgrees(s)
  PROVE  Within(s.files.flips, DriftFlips(s))
<1>. DEFINE f == s.files.flips
            r == DriftFlips(s)
            differ == Differing(f, r) # {}
            more   == ~ DOMAIN f \subseteq DOMAIN r
<1>1. NameWhen(differ, "flips: differ") \cup NameWhen(more, "flips: extra key") = {}
  BY Zenon DEF BoardAgrees, FlipsReasons
<1>. HIDE DEF differ, more
<1>2. NameWhen(differ, "flips: differ") = {} /\ NameWhen(more, "flips: extra key") = {}
  BY <1>1
<1>3. ~differ /\ ~more
  BY <1>2, NothingNamed
<1>. QED BY <1>3, NoneDiffers DEF Within, differ, more

(* modeldrift: every file an accepted board publishes is what its tool     *)
(* writes from the history.                                                *)
LEMMA DriftReissued ==
  ASSUME NEW s, s.profile = "modeldrift", AsMeasured(s),
         CheckModelDrift(s).reasons = {}, CheckModelDrift(s).pool # Raised
  PROVE  LET f == s.files
         IN  /\ StandingsReissued(f.standings, BoardWritten(s).standings)
             /\ f.results_md = BoardWritten(s).results_md
             /\ Within(f.flips, BoardWritten(s).flips)
             /\ f.narrative.text = TextOf(f.narrative.html)
<1>. DEFINE board == DriftBoard(Series(s), s.files.registry, Suite(s), FloorOf(s))
            stand == [suite_version |-> Suite(s).suite_version, suite_hash |-> Suite(s).suite_hash,
                      min_detectable_pts_full_grade |-> Rounded(100, Suite(s).tasks, 1000), rows |-> DriftRows(s)]
            table == ResultsMd(DriftRows(s), Suite(s).suite_version, FloorOf(s))
            flips == DriftFlips(s)
<1>1. BoardAnswers(s) /\ FloorOf(s) \in {None} \cup 0..9 /\ BoardAgrees(s)
  BY BoardIsAgreed
<1>2. board = [standings |-> stand, results_md |-> table, flips |-> flips]
  BY <1>1, BoardIs
<1>3. StandingsReissued(s.files.standings, stand)
  BY <1>1, StandingsAre
<1>4. Within(s.files.flips, flips)
  BY <1>1, FlipsAre
<1>5. s.files.results_md = table
  BY <1>1 DEF BoardAgrees
<1>6. s.files.narrative.text = TextOf(s.files.narrative.html)
  <2>. DEFINE f == s.files
  <2>1. FilesRead(f)
    BY <1>1, FilesAreRead DEF AsMeasured, BoardAnswers
  <2>2. IsList(s.files.narrative.html)
    BY <2>1 DEF FilesRead, NarrativeRead
  <2>. QED BY <1>1, <2>2, TextIs DEF BoardAgrees
<1>. HIDE DEF board, stand, table, flips
<1>7. BoardWritten(s) = board
  BY Zenon DEF board, BoardWritten, Series, Suite, FloorOf
<1>. QED BY <1>2, <1>3, <1>4, <1>5, <1>6, <1>7

-----------------------------------------------------------------------------
(* An accepted submission is what its tool would have written, and what it *)
(* expects is counted.                                                     *)
LEMMA AcceptedAsReissued ==
  ASSUME NEW s, AsMeasured(s), CheckFns(s).reasons = {}, CheckFns(s).pool # Raised
  PROVE  Reissued(s)
<1>1. CASE s.profile = "fleet"
  <2>1. CheckFns(s) = CheckFleet(s)
    BY <1>1 DEF CheckFns
  <2>2. LET written == FleetWritten(s.raw)
        IN  /\ Len(s.artifact["rows"]) = Cardinality(written)
            /\ \A row \in written : \E i \in DOMAIN s.artifact["rows"] : Alike(s.artifact["rows"][i], row)
    BY <1>1, <2>1, FleetReissued
  <2>. QED BY <1>1, <2>2, Zenon DEF Reissued
<1>2. CASE s.profile = "evalmut"
  <2>1. CheckFns(s) = CheckEvalmut(s)
    BY <1>2 DEF CheckFns
  <2>2. LET a == s.artifact
        IN  /\ Alike(a["tally"], EvalmutTally(a["results"]))
            /\ \A class \in DOMAIN HoleClass :
                 SameRows(DeclaredHoles(a["holes"], class), EvalmutHoles(a["results"])[class])
    BY <1>2, <2>1, EvalmutReissued
  <2>. QED BY <1>2, <2>2, Zenon DEF Reissued
<1>3. CASE s.profile = "crashkit"
  <2>1. CheckFns(s) = CheckCrashkit(s)
    BY <1>3 DEF CheckFns
  <2>2. LET written == BatteryWritten(s.artifact["cases"])
        IN  /\ Alike(s.artifact["metrics"], written.metrics)
            /\ Alike(s.artifact["per_kind"], written.per_kind)
            /\ Alike(written.per_kind, s.artifact["per_kind"])
    BY <1>3, <2>1, CrashkitReissued
  <2>. QED BY <1>3, <2>2, Zenon DEF Reissued
<1>4. CASE s.profile = "variance"
  <2>1. CheckFns(s) = CheckVariance(s)
    BY <1>4 DEF CheckFns
  <2>2. LET a == s.artifact
        IN  /\ Alike(Get(a, "metrics"), VarianceNumbers(a["per_task"]))
            /\ \A i \in DOMAIN a["per_task"] : Alike(a["per_task"][i], VarianceRow(a["per_task"][i]))
    BY <1>4, <2>1, VarianceReissued
  <2>. QED BY <1>4, <2>2, Zenon DEF Reissued
<1>5. CASE s.profile = "modeldrift"
  <2>1. CheckFns(s) = CheckModelDrift(s)
    BY <1>5 DEF CheckFns
  <2>2. LET f == s.files
        IN  /\ StandingsReissued(f.standings, BoardWritten(s).standings)
            /\ f.results_md = BoardWritten(s).results_md
            /\ Within(f.flips, BoardWritten(s).flips)
            /\ f.narrative.text = TextOf(f.narrative.html)
    BY <1>5, <2>1, DriftReissued
  <2>. QED BY <1>5, <2>2, Zenon DEF Reissued
<1>6. CASE s.profile \in {"certlab", "rows"}
  BY <1>6, Zenon DEF Reissued
<1>7. s.profile \in {"certlab", "fleet", "evalmut", "crashkit", "variance", "rows", "modeldrift"}
  BY DEF AsMeasured
<1>. QED BY <1>1, <1>2, <1>3, <1>4, <1>5, <1>6, <1>7

-----------------------------------------------------------------------------
(* What every profile's function answers, and the histories of Profiles.   *)

LEMMA AnswersAreCounts ==
  ASSUME NEW s, AsMeasured(s), Answered(CheckFns(s))
  PROVE  CheckFns(s).pool = Citable(s)
<1>1. s.profile \in {"certlab", "fleet", "evalmut", "crashkit", "variance", "rows", "modeldrift"}
  BY DEF AsMeasured
<1>. QED BY <1>1, CertlabRecounted, FleetRecounted, EvalmutRecounted, CrashkitRecounted, VarianceRecounted,
            RowsRecounted, DriftRecounted DEF CheckFns, Citable

(* Where nothing is said against the expected numbers, they are recounted. *)
LEMMA ExpectedIsIn ==
  ASSUME NEW expect, NEW recount, ExpectReasons(expect, recount) = {}
  PROVE  expect # None /\ PoolOf(expect) \subseteq PoolOf(recount)
<1>1. ~ (expect = None \/ DOMAIN expect = {}) /\ DOMAIN expect \subseteq DOMAIN recount
      /\ \A k \in DOMAIN expect \cap DOMAIN recount : expect[k] = recount[k]
  BY DEF ExpectReasons, NameWhen
<1>. QED BY <1>1 DEF PoolOf

(* What is expected of an accepted check is in its pool.                   *)
LEMMA ExpectedIsAnswered ==
  ASSUME NEW s, s.profile \in {"certlab", "evalmut", "crashkit", "rows", "modeldrift"},
         CheckFns(s).reasons = {}, CheckFns(s).pool # Raised
  PROVE  Expected(s) \subseteq CheckFns(s).pool
<1>. DEFINE expect == Get(s.check, "expect")
<1>1. SUFFICES \E recount : ExpectReasons(expect, recount) = {} /\ PoolOf(recount) \subseteq CheckFns(s).pool
  BY <1>1, ExpectedIsIn DEF Expected
<1>2. CASE s.profile = "certlab"
  <2>. DEFINE verdicts == s.artifact["verdicts"]
              counts   == CertlabCounts(verdicts)
  <2>1. CheckFns(s) = CheckCertlab(s)
    BY <1>2 DEF CheckFns
  <2>2. /\ ExpectReasons(expect, counts) = {}
        /\ CheckFns(s).pool = CertlabPool(verdicts, counts)
    <3>. DEFINE reasons == ExpectReasons(expect, counts) \cup CertlabStamps(s) \cup CertlabRender(s, counts)
    <3>1. CheckFns(s) \in {Refused("artifact: unparsable"), Result(reasons, CertlabPool(verdicts, counts))}
      BY <2>1, Zenon DEF CheckCertlab
    <3>. HIDE DEF reasons
    <3>2. CheckFns(s) = Result(reasons, CertlabPool(verdicts, counts))
      BY <3>1, RefusedNames
    <3>3. reasons = {} /\ CheckFns(s).pool = CertlabPool(verdicts, counts)
      BY <3>2, ResultHas
    <3>. QED BY <3>3 DEF reasons
  <2>3. PoolOf(counts) \subseteq CertlabPool(verdicts, counts)
    BY DEF CertlabPool
  <2>. QED BY <2>2, <2>3
<1>3. CASE s.profile = "evalmut"
  <2>1. CheckFns(s) = CheckEvalmut(s) /\ Answered(CheckEvalmut(s)) /\ CheckEvalmut(s).reasons = {}
    BY <1>3 DEF CheckFns, Answered
  <2>. DEFINE recount == EvalmutRecount(s.artifact["results"], Get(s.check, "catalog"))
  <2>2. EvalmutAgrees(s) /\ PoolOf(recount) \subseteq CheckFns(s).pool
    BY <2>1, EvalmutAnswers
  <2>. QED BY <2>2 DEF EvalmutAgrees
<1>4. CASE s.profile = "crashkit"
  <2>1. CheckFns(s) = CheckCrashkit(s)
    BY <1>4 DEF CheckFns
  <2>. DEFINE cases   == s.artifact["cases"]
              flags   == NameWhen(\E i \in DOMAIN cases : FlagContradictsRun(cases[i]), "case: flag")
              recount == BatteryRecount(cases)
              kinds   == PerKind(cases)
              perKind == s.artifact["per_kind"]
              reasons == flags
                 \cup NameWhen(Differing(s.artifact["metrics"], BatteryMetrics(recount)) # {},
                               "metrics: differ")
                 \cup NameWhen(\E k \in DOMAIN perKind \cup DOMAIN kinds :
                                 Get(perKind, k) # Get(kinds, k), "per_kind: differs")
                 \cup BatteryStamp(s) \cup ExpectReasons(expect, recount)
              unknown == flags \cup {"case: severity"}
  <2>2. ExpectReasons(expect, recount) = {} /\ CheckFns(s).pool = PoolOf(recount)
    <3>1. CheckFns(s) \in {Refused("artifact: unparsable"), Result(unknown, None), Result(reasons, PoolOf(recount))}
      BY <2>1, Zenon DEF CheckCrashkit
    <3>2. unknown # {}
      OBVIOUS
    <3>. HIDE DEF reasons, unknown
    <3>3. CheckFns(s) = Result(reasons, PoolOf(recount))
      <4>1. CheckFns(s) # Result(unknown, None)
        <5>1. Result(unknown, None).reasons = unknown
          BY ResultHas
        <5>. QED BY <3>2, <5>1
      <4>2. CheckFns(s) # Refused("artifact: unparsable")
        BY RefusedNames, Zenon
      <4>. HIDE DEF recount
      <4>. QED BY <3>1, <4>1, <4>2
    <3>4. reasons = {} /\ CheckFns(s).pool = PoolOf(recount)
      BY <3>3, ResultHas
    <3>. QED BY <3>4 DEF reasons
  <2>. QED BY <2>2
<1>5. CASE s.profile = "rows"
  <2>1. CheckFns(s) = CheckRows(s)
    BY <1>5 DEF CheckFns
  <2>2. \E recount : ExpectReasons(expect, recount) = {} /\ CheckFns(s).pool = PoolOf(recount)
    <3>1. \/ \E reason : CheckFns(s) = Refused(reason)
          \/ \E recount : CheckFns(s) = Result(ExpectReasons(expect, recount), PoolOf(recount))
      BY <2>1 DEF CheckRows
    <3>. QED BY <3>1, RefusedNames, ResultHas
  <2>. QED BY <2>2
<1>6. CASE s.profile = "modeldrift"
  <2>. DEFINE recount == DriftRecount(s, DriftRows(s), DriftFlips(s))
  <2>1. CheckFns(s) = CheckModelDrift(s)
    BY <1>6 DEF CheckFns
  <2>2. Answered(CheckModelDrift(s)) /\ CheckModelDrift(s).reasons = {}
    BY <2>1 DEF Answered
  <2>3. BoardAnswers(s)
    BY <2>2, DriftAnswers
  <2>4. ExpectReasons(expect, recount) = {} /\ CheckModelDrift(s).pool = PoolOf(recount)
    BY <2>2, <2>3, BoardGives
  <2>. HIDE DEF recount
  <2>. QED BY <2>1, <2>4
<1>. QED BY <1>2, <1>3, <1>4, <1>5, <1>6

(* A recount is made of numbers, in every profile.                         *)
LEMMA AnswersAreWhole ==
  ASSUME NEW s, AsMeasured(s), Answered(CheckFns(s)), NEW x \in CheckFns(s).pool
  PROVE  x[2] \in Int
<1>1. s.profile \in {"certlab", "fleet", "evalmut", "crashkit", "variance", "rows", "modeldrift"}
  BY DEF AsMeasured
<1>. QED BY <1>1, CertlabWhole, FleetWhole, EvalmutWhole, CrashkitWhole, VarianceWhole, RowsWhole,
            DriftWhole DEF CheckFns

-----------------------------------------------------------------------------
(* The contract of a profile's function (_coherence: a function without a  *)
(* pool has named a reason).                                               *)

(* JSON's null is not a set of pairs.                                      *)
NoneIsNoPool == \A S : (\A x \in S : x = <<x[1], x[2]>>) => S # None

(* What BundleVerify asks of a function that does not raise.               *)
Contract(result) == /\ DOMAIN result = {"reasons", "pool"}
                    /\ result.pool = None => result.reasons # {}

(* A result with a reason or a pool keeps it; a refusal has a reason.      *)
LEMMA ReasonGiven ==
  ASSUME NEW r, NEW p, r # {} \/ p # None
  PROVE  Contract(Result(r, p))
<1>1. DOMAIN Result(r, p) = {"reasons", "pool"}
  BY DEF Result
<1>. QED BY <1>1, ResultHas DEF Contract

LEMMA RefusalKeeps ==
  ASSUME NEW r
  PROVE  Contract(Refused(r))
<1>1. {r} # {}
  OBVIOUS
<1>. QED BY <1>1, ReasonGiven DEF Refused

(* A pool is of pairs, and is there.                                       *)
LEMMA PoolIsPairs ==
  ASSUME NEW recount, NEW x \in PoolOf(recount)
  PROVE  x = <<x[1], x[2]>>
BY DEF PoolOf

LEMMA PoolIsThere ==
  ASSUME NoneIsNoPool, NEW recount
  PROVE  PoolOf(recount) # None
BY PoolIsPairs DEF NoneIsNoPool

(* certlab: the pool is always given.                                      *)
LEMMA CertlabKeeps ==
  ASSUME NoneIsNoPool, NEW s
  PROVE  Contract(CheckCertlab(s))
<1>. DEFINE verdicts == s.artifact["verdicts"]
            counts   == CertlabCounts(verdicts)
            reasons  == ExpectReasons(Get(s.check, "expect"), counts) \cup CertlabStamps(s) \cup CertlabRender(s, counts)
            pool     == CertlabPool(verdicts, counts)
<1>1. CheckCertlab(s) \in {Refused("artifact: unparsable"), Result(reasons, pool)}
  BY Zenon DEF CheckCertlab
<1>2. \A x \in pool : x = <<x[1], x[2]>>
  <2>1. \A recount : \A x \in PoolOf(recount) : x = <<x[1], x[2]>>
    BY PoolIsPairs
  <2>2. \E a, b : pool = PoolOf(a) \cup PoolOf(b)
    BY DEF CertlabPool
  <2>. QED BY <2>1, <2>2
<1>. HIDE DEF pool, reasons
<1>3. pool # None
  BY <1>2 DEF NoneIsNoPool
<1>. QED BY <1>1, <1>3, ReasonGiven, RefusalKeeps

(* fleet: without identifiers there is no pool.                            *)
LEMMA FleetKeeps ==
  ASSUME NoneIsNoPool, NEW s
  PROVE  Contract(CheckFleet(s))
<1>. DEFINE rows    == s.artifact["rows"]
            badLine == FirstOf(s.raw, Unhashable)
            badRow  == FirstOf(rows, Unhashable)
            flags   == NameWhen(\E n \in 1..badLine - 1 : FlagContradicts(s.raw[n]), "raw: flag")
            early   == flags \cup FleetExpect(Get(s.check, "expect"), rows)
                         \cup FleetRows(rows, s.raw, badRow)
            rowless == {KeyOf(s.raw[i]) : i \in DOMAIN s.raw} \ {KeyOf(rows[i]) : i \in DOMAIN rows}
            lines   == flags \cup {"raw: identifiers"}
            names   == early \cup {"artifact: identifiers"}
            reasons == early \cup NameWhen(rowless # {}, "raw: no row") \cup FleetStamps(s)
            pool    == FleetPool(s.raw, s.version)
<1>1. CheckFleet(s) \in {Refused("raw: unparsable"), Refused("artifact: unparsable"), Result(lines, None),
                         Result(names, None), Result(reasons, pool)}
  BY Zenon DEF CheckFleet
<1>2. \A x \in pool : x = <<x[1], x[2]>>
  <2>1. \A version, level, numbers : \A x \in AtLevel(version, level, numbers) : x = <<x[1], x[2]>>
    BY DEF AtLevel
  <2>. DEFINE At(level, numbers) == AtLevel(s.version, level, numbers)
              keys    == {KeyOf(s.raw[i]) : i \in DOMAIN s.raw}
              suites  == {key[1] : key \in keys}
              M(key)  == FleetRates(s.raw, OfKey(s.raw, key))
              U(suite) == FleetRates(s.raw, OfSuite(s.raw, suite))
              V(suite) == [members |-> Cardinality({key \in keys : key[1] = suite})]
              B       == [rows |-> Cardinality(keys), suites |-> Cardinality(suites)]
  <2>2. pool = At("board", B) \cup (IF s.raw = <<>> THEN {} ELSE At("board", FleetRates(s.raw, DOMAIN s.raw)))
                 \cup (UNION {At("member", M(key)) : key \in keys})
                 \cup (UNION {At("suite", U(suite)) \cup At("suite", V(suite)) : suite \in suites})
    BY Zenon DEF FleetPool
  <2>3. \A level, numbers : \A x \in At(level, numbers) : x = <<x[1], x[2]>>
    BY <2>1
  <2>. HIDE DEF At, keys, suites, M, U, V, B, pool
  <2>. QED BY <2>2, <2>3
<1>3. lines # {} /\ names # {}
  OBVIOUS
<1>. HIDE DEF pool, reasons, lines, names
<1>4. pool # None
  BY <1>2 DEF NoneIsNoPool
<1>. QED BY <1>1, <1>3, <1>4, ReasonGiven, RefusalKeeps

(* evalmut: what it gives up it gives up by name, or it raises.            *)
LEMMA EvalmutKeeps ==
  ASSUME NoneIsNoPool, NEW s
  PROVE  Contract(CheckEvalmut(s))
<1>. DEFINE rows    == s.artifact["results"]
            recount == EvalmutRecount(rows, Get(s.check, "catalog"))
            counts  == [o \in Outcome |-> Tally(rows, "outcome", o)]
            applied == counts["caught"] + counts["missed"] + counts["flagged"]
            pool    == PoolOf(recount) \cup {<<"score", Exactly(counts["caught"], applied)>>}
            said    == EvalmutAgrees(s)
            sound   == IsList(rows) => applied # 0
            v       == CheckEvalmut(s)
<1>1. PICK flags, early, all :
        /\ \/ v \in {Refused("artifact: unparsable"), Result(flags \cup {"row: identifiers"}, None),
                     Result(early \cup {"score: nothing applied"}, None), Result({}, Raised)}
           \/ v = Result(all, pool) /\ sound
        /\ all = {} => said
  BY EvalmutWays, Zenon
<1>. DEFINE nameless == flags \cup {"row: identifiers"}
            idle     == early \cup {"score: nothing applied"}
<1>2. nameless # {} /\ idle # {}
  OBVIOUS
<1>3. \A x \in pool : x = <<x[1], x[2]>>
  BY PoolIsPairs
<1>4. v \in {Refused("artifact: unparsable"), Result(nameless, None), Result(idle, None),
             Result({}, Raised), Result(all, pool)}
  BY <1>1
<1>. HIDE DEF nameless, idle, pool, v
<1>5. pool # None
  BY <1>3 DEF NoneIsNoPool
<1>6. Contract(v)
  BY <1>2, <1>4, <1>5, ReasonGiven, RefusalKeeps, ValuesAssumption
<1>. QED BY <1>6 DEF v

(* crashkit: an unknown severity.                                          *)
LEMMA CrashkitKeeps ==
  ASSUME NoneIsNoPool, NEW s
  PROVE  Contract(CheckCrashkit(s))
<1>. DEFINE cases   == s.artifact["cases"]
            flags   == NameWhen(\E i \in DOMAIN cases : FlagContradictsRun(cases[i]), "case: flag")
            recount == BatteryRecount(cases)
            kinds   == PerKind(cases)
            perKind == s.artifact["per_kind"]
            reasons == flags
               \cup NameWhen(Differing(s.artifact["metrics"], BatteryMetrics(recount)) # {},
                             "metrics: differ")
               \cup NameWhen(\E k \in DOMAIN perKind \cup DOMAIN kinds :
                               Get(perKind, k) # Get(kinds, k), "per_kind: differs")
               \cup BatteryStamp(s) \cup ExpectReasons(Get(s.check, "expect"), recount)
            unknown == flags \cup {"case: severity"}
            pool    == PoolOf(recount)
<1>1. CheckCrashkit(s) \in {Refused("artifact: unparsable"), Result(unknown, None), Result(reasons, pool)}
  BY Zenon DEF CheckCrashkit
<1>2. unknown # {} /\ pool # None
  BY PoolIsThere
<1>. HIDE DEF reasons, unknown, pool
<1>. QED BY <1>1, <1>2, ReasonGiven, RefusalKeeps

(* variance: counts, severities, metrics.                                  *)
LEMMA VarianceKeeps ==
  ASSUME NoneIsNoPool, NEW s
  PROVE  Contract(CheckVariance(s))
<1>. DEFINE rows    == s.artifact["per_task"]
            metrics == Get(s.artifact, "metrics")
            flags   == NameWhen(\E i \in DOMAIN rows : Differing(rows[i], TaskRecount(rows[i])) # {},
                                "row: differs")
            recount == VarianceRecount(rows)
            named   == flags \cup {"artifact: unparsable"}
            reasons == flags \cup NameWhen(Differing(metrics, recount) # {}, "metrics: differ")
                         \cup NameWhen(\E i \in DOMAIN rows : rows[i].runs # Get(s.artifact, "n"), "n: differs")
            pool    == PoolOf(recount)
<1>1. CheckVariance(s) \in {Refused("artifact: unparsable"), Refused("row: counts"), Result({}, Raised),
                            Refused("row: severity"), Result(named, None), Result(reasons, pool)}
  BY Zenon DEF CheckVariance
<1>2. named # {} /\ pool # None
  BY PoolIsThere
<1>. HIDE DEF reasons, named, pool
<1>. QED BY <1>1, <1>2, ReasonGiven, RefusalKeeps, ValuesAssumption

(* rows: refused, or counted.                                              *)
LEMMA RowsKeep ==
  ASSUME NoneIsNoPool, NEW s
  PROVE  Contract(CheckRows(s))
<1>1. \/ \E reason : CheckRows(s) = Refused(reason)
      \/ \E reasons, recount : CheckRows(s) = Result(reasons, PoolOf(recount))
  BY DEF CheckRows
<1>. QED BY <1>1, PoolIsThere, ReasonGiven, RefusalKeeps

(* modeldrift: a floor that is not agreed on has its reasons.              *)
LEMMA DriftKeeps ==
  ASSUME NoneIsNoPool, NEW s
  PROVE  Contract(CheckModelDrift(s))
<1>. DEFINE relFloor == IF s.version = "0.2" THEN s.check["rel_floor"] ELSE None
            rows     == StandingsRows(Series(s), s.files.registry, relFloor)
            flips    == Flips(FlipSeries(Series(s), relFloor))
            recount  == DriftRecount(s, rows, flips)
            reasons  == StandingsReasons(s.files.standings, s, rows)
                 \cup NameWhen(s.files.results_md # ResultsMd(rows, Suite(s).suite_version, relFloor),
                               "table: differs")
                 \cup FlipsReasons(s.files.flips, flips)
                 \cup NarrativeReasons(s.files.narrative)
                 \cup DriftStamps(s) \cup ExpectReasons(Get(s.check, "expect"), recount)
            pool     == PoolOf(recount)
<1>1. \/ CheckModelDrift(s) \in {Refused("files: unparsable"), Refused("fingerprint: tasks"),
                                 Refused("point: incoherent"), Result(reasons, pool)}
      \/ FloorReasons(s) # {} /\ CheckModelDrift(s) = Result(FloorReasons(s), None)
  BY Zenon DEF CheckModelDrift
<1>2. pool # None
  BY PoolIsThere
<1>. HIDE DEF reasons, pool
<1>. QED BY <1>1, <1>2, ReasonGiven, RefusalKeeps

(* Whatever is submitted, no pool is given up without a reason.            *)
LEMMA AnswersKeepTheContract ==
  ASSUME NoneIsNoPool, NEW s,
         s.profile \in {"certlab", "fleet", "evalmut", "crashkit", "variance", "rows", "modeldrift"}
  PROVE  Contract(CheckFns(s))
BY CertlabKeeps, FleetKeeps, EvalmutKeeps, CrashkitKeeps, VarianceKeeps, RowsKeep, DriftKeeps DEF CheckFns

-----------------------------------------------------------------------------
(* Every submission is made of measurements, and a verdict is its own.     *)
IInv == /\ AsMeasured(submission) /\ edits \in Nat /\ restated \in BOOLEAN
        /\ verdict = Pending \/ verdict = CheckFns(submission)

(* The invariant of every history of edits.                                *)
LEMMA IInvHolds ==
  ASSUME \A s \in Submissions : AsMeasured(s)
  PROVE  Spec => []IInv
<1>1. Init => IInv
  <2>1. Init => restated \in BOOLEAN
    BY Zenon DEF Init
  <2>2. Init => AsMeasured(submission) /\ edits \in Nat /\ verdict = Pending
    BY DEF Init
  <2>. QED BY <2>1, <2>2, Zenon DEF IInv
<1>2. IInv /\ [Next]_vars => IInv'
  <2>. SUFFICES ASSUME IInv, [Next]_vars PROVE IInv'
    OBVIOUS
  <2>. USE DEF IInv
  <2>1. CASE Judge
    BY <2>1 DEF Judge
  <2>2. CASE Edit
    BY <2>2, EditedAsMeasured DEF Edit
  <2>3. CASE Restate
    BY <2>3, RestatedAsMeasured DEF Restate
  <2>4. CASE UNCHANGED vars
    BY <2>4 DEF vars
  <2>. QED BY <2>1, <2>2, <2>3, <2>4 DEF Next
<1>. QED BY <1>1, <1>2, PTL DEF Spec

(* Whatever was edited, and however often, the pool is what one pass over  *)
(* the measurements would have counted, for submissions of any size and in *)
(* every profile.                                                          *)
THEOREM PoolsAreRecounts ==
  ASSUME \A s \in Submissions : AsMeasured(s)
  PROVE  Spec => []PoolIsRecount
<1>1. IInv => PoolIsRecount
  BY AnswersAreCounts DEF IInv, PoolIsRecount, HasPool, Judged, Answered
<1>. QED BY <1>1, IInvHolds, PTL

(* An accepted submission declares numbers that the tools would count, in  *)
(* the five profiles that hold declared numbers, by name, to the recount.  *)
THEOREM AcceptedNumbersAreCounted ==
  ASSUME \A s \in Submissions : AsMeasured(s)
  PROVE  Spec => []ExpectedIsCounted
<1>1. IInv => ExpectedIsCounted
  <2>1. IInv => submission.profile \in
          {"certlab", "fleet", "evalmut", "crashkit", "variance", "rows", "modeldrift"}
    BY DEF IInv, AsMeasured
  <2>. QED BY <2>1, AnswersAreCounts, ExpectedIsAnswered DEF IInv, ExpectedIsCounted, Clean, Judged, Answered
<1>. QED BY <1>1, IInvHolds, PTL

(* An accepted submission is what the issuing tool would have written from *)
(* the measurements it holds, in every profile and after any edits, nulls  *)
(* left out and keys of the issuer's own included.                         *)
THEOREM AcceptedIsReissued ==
  ASSUME \A s \in Submissions : AsMeasured(s)
  PROVE  Spec => []CleanIsReissued
<1>1. IInv /\ ExpectedIsCounted => CleanIsReissued
  BY AcceptedAsReissued DEF IInv, CleanIsReissued, Clean, Judged
<1>. QED BY <1>1, IInvHolds, AcceptedNumbersAreCounted, PTL

(* No profile's function gives up its pool without a reason, on any        *)
(* submission and after any edit: the reason _coherence names in place of  *)
(* a function that skipped a check silently is never the only one.         *)
THEOREM ContractKept ==
  ASSUME NoneIsNoPool, \A s \in Submissions : AsMeasured(s)
  PROVE  Spec => [](Judged => Contract(verdict))
<1>1. IInv => (Judged => Contract(verdict))
  <2>1. AsMeasured(submission) => submission.profile \in
          {"certlab", "fleet", "evalmut", "crashkit", "variance", "rows", "modeldrift"}
    BY DEF AsMeasured
  <2>. QED BY <2>1, AnswersKeepTheContract DEF IInv, Judged
<1>. QED BY <1>1, IInvHolds, PTL

(* Verdicts are what TypeOK says they are: besides the contract, every     *)
(* citable value is a number, no matter what a row, a weight, a recipe or  *)
(* a point of a board holds.                                               *)
THEOREM VerdictsKeepTheirType ==
  ASSUME NoneIsNoPool, \A s \in Submissions : AsMeasured(s)
  PROVE  Spec => []TypeOK
<1>1. IInv /\ (Judged => Contract(verdict)) => TypeOK
  <2>. SUFFICES ASSUME IInv, Judged => Contract(verdict) PROVE TypeOK
    OBVIOUS
  <2>1. edits \in Nat /\ restated \in BOOLEAN /\ (Judged => verdict = CheckFns(submission)) /\ AsMeasured(submission)
    BY DEF IInv, Judged
  <2>2. HasPool => \A x \in verdict.pool : x[2] \in Int
    BY <2>1, AnswersAreWhole DEF HasPool, Judged, Answered
  <2>. QED BY <2>1, <2>2 DEF TypeOK, Contract
<1>. QED BY <1>1, IInvHolds, ContractKept, PTL

(* A point below the declared floor moves no number of a model-drift       *)
(* board but the count of its points: not a verdict, not a flip, not an    *)
(* alarm, for histories and floors of any kind and after any edits.        *)
THEOREM OutagesMoveNothing ==
  ASSUME NoneIsNoObject, \A s \in Submissions : AsMeasured(s)
  PROVE  Spec => []OutageMovesNothing
<1>1. IInv => OutageMovesNothing
  <2>. SUFFICES ASSUME IInv, HasPool, submission.profile = "modeldrift", submission.version = "0.2"
                PROVE  NoPoints(verdict.pool) = NoPoints(CheckFns(WithoutOutages(submission)).pool)
    BY Zenon DEF OutageMovesNothing, NoPoints
  <2>. DEFINE s == submission
              u == WithoutOutages(s)
  <2>1. AsMeasured(s) /\ verdict = CheckFns(s) /\ CheckFns(s) = CheckModelDrift(s)
    BY DEF IInv, HasPool, Judged, CheckFns
  <2>2. Answered(CheckModelDrift(s))
    BY <2>1 DEF HasPool, Judged, Answered
  <2>3. BoardAnswers(s) /\ FloorOf(s) \in 0..9
    <3>1. BoardAnswers(s)
      BY <2>2, DriftAnswers
    <3>2. FloorReasons(s) = {}
      BY <3>1 DEF BoardAnswers
    <3>3. Get(s.check, "rel_floor") # None /\ Get(s.check, "rel_floor") \in 0..9
      BY <3>2 DEF FloorReasons
    <3>. QED BY <3>1, <3>3, GetIs DEF FloorOf
  <2>4. u.profile = "modeldrift"
    BY <2>1, <2>3, OutageAnswered
  <2>. HIDE DEF s, u
  <2>5. CheckFns(u) = CheckModelDrift(u)
    BY <2>4 DEF CheckFns
  <2>6. NoPoints(CheckModelDrift(s).pool) = NoPoints(CheckModelDrift(u).pool)
    BY <2>1, <2>3, OutageUnmoved DEF s, u
  <2>. QED BY <2>1, <2>5, <2>6 DEF s, u
<1>. QED BY <1>1, IInvHolds, PTL
=============================================================================
