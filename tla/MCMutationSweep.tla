-------------------------- MODULE MCMutationSweep ---------------------------
(* Instances of MutationSweep: two sites, one caught and one surviving.     *)
EXTENDS MutationSweep, FiniteSets, TLC

(* Sweeps are interchangeable in a safety run.                              *)
SweepSymmetry == Permutations(Sweep)

Started == {s \in Sweep : pc[s] # "start"}

(* Signals, and an edit beyond the first, befall a sweep that runs alone    *)
(* (SweepsRace lets a signal befall one of several); a first edit befalls   *)
(* one or two.                                                              *)
MCNext ==
  /\ Next
  /\ budget'.signals < Signals \/ budget'.edits + 1 < Edits => Cardinality(Started') <= 1
  /\ budget'.edits < Edits => Cardinality(Started') <= 2

MCSpec == Init /\ [][MCNext]_vars /\ Fairness
=============================================================================
