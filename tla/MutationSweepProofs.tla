------------------------ MODULE MutationSweepProofs -------------------------
(***************************************************************************)
(* Theorems about MutationSweep, for any number of sweeps, sites, signals, *)
(* kills and edits.                                                        *)
(***************************************************************************)
EXTENDS MutationSweep, TLAPS

(* Type correctness, whatever signals and kills there are.                  *)
LEMMA InitTypeOK == Init => TypeOK
<1>. SUFFICES ASSUME Init PROVE TypeOK
  OBVIOUS
<1>1. src \in Source
  BY SweepAssumption DEF Init, Pristine, Source, Clean
<1>2. budget \in [{"signals", "kills", "edits"} -> Nat]
  BY SweepAssumption DEF Init
<1>3. /\ pc \in [Sweep -> Place] /\ \A s \in Sweep : pc[s] # "observing"
      /\ next \in [Sweep -> 1..(Sites + 1)]
  BY SweepAssumption DEF Init, Place
<1>. QED BY <1>1, <1>2, <1>3 DEF Init, TypeOK

(* No step, handler or person takes a value outside its type.               *)
LEMMA StepTypeOK == TypeOK /\ [Next]_vars => TypeOK'
<1>. SUFFICES ASSUME TypeOK, [Next]_vars PROVE TypeOK'
  OBVIOUS
<1>. USE SweepAssumption DEF TypeOK, Place, Armed, At, GoTo
<1>1. ASSUME NEW s \in Sweep, Measure(s) PROVE TypeOK'
  BY <1>1 DEF Measure
<1>2. ASSUME NEW s \in Sweep, Baseline(s) \/ Acquire(s) \/ Arm(s) \/ Enter(s) \/ Leave(s)
      PROVE TypeOK'
  BY <1>2 DEF Baseline, Acquire, Arm, Enter, Leave
<1>3. ASSUME NEW s \in Sweep, Snapshot(s) PROVE TypeOK'
  BY <1>3 DEF Snapshot
<1>4. ASSUME NEW s \in Sweep, Mutate(s) PROVE TypeOK'
  <2>1. Mutant(s) \in Source
    BY <1>4 DEF Mutant, Mutate, Source
  <2>. QED BY <1>4, <2>1 DEF Mutate
<1>5. ASSUME NEW s \in Sweep, Observe(s) PROVE TypeOK'
  <2>1. next[s] \in 1..Sites
    BY <1>5 DEF Observe
  <2>2. caught' \in [Sweep -> SUBSET (1..Sites)]
    BY <1>5, <2>1 DEF Observe
  <2>3. next' \in [Sweep -> 1..(Sites + 1)]
    BY <1>5, <2>1 DEF Observe
  <2>. QED BY <1>5, <2>2, <2>3 DEF Observe
<1>6. ASSUME NEW s \in Sweep, Restore(s) PROVE TypeOK'
  <2>1. CASE WriteBack(s)
    BY <1>6, <2>1 DEF Restore, WriteBack, Unlink
  <2>2. CASE src' = src /\ restored' = restored
    BY <1>6, <2>2 DEF Restore, Unlink
  <2>. QED BY <1>6, <2>1, <2>2 DEF Restore
<1>7. ASSUME NEW s \in Sweep, Handle(s) PROVE TypeOK'
  <2>1. /\ src' \in Source /\ lock' \in BOOLEAN /\ restored' \in [Sweep -> BOOLEAN]
        /\ UNCHANGED <<raw, snapshot, next, caught, budget>>
    <3>1. CASE WriteBack(s)
      BY <1>7, <3>1 DEF Handle, WriteBack, Unlink
    <3>2. CASE src' = src /\ restored' = restored
      BY <1>7, <3>2 DEF Handle, Unlink
    <3>. QED BY <1>7, <3>1, <3>2 DEF Handle
  <2>2. /\ handler' \in [Sweep -> {"none", "restoring", "asserting", "unlinking", "exiting"}]
        /\ \/ pc' = pc \/ pc' = [pc EXCEPT ![s] = "restoring"]
           \/ pc' = [pc EXCEPT ![s] = "ended"]
    BY <1>7 DEF Handle, Raise
  <2>. QED BY <2>1, <2>2
<1>8. ASSUME NEW s \in Sweep, Signal(s) \/ Kill(s) PROVE TypeOK'
  <2>1. budget' \in [{"signals", "kills", "edits"} -> Nat]
    BY <1>8 DEF Signal, Kill, Spend
  <2>2. pc' = pc \/ pc' = [pc EXCEPT ![s] = "ended"]
    BY <1>8 DEF Signal, Kill
  <2>3. handler' \in [Sweep -> {"none", "restoring", "asserting", "unlinking", "exiting"}]
    BY <1>8 DEF Signal, Kill
  <2>. QED BY <1>8, <2>1, <2>2, <2>3 DEF Signal, Kill
<1>9. CASE EditSource \/ RemoveLock
  <2>1. src' \in Source
    BY <1>9 DEF EditSource, RemoveLock, Pristine, Source, Clean
  <2>2. budget' \in [{"signals", "kills", "edits"} -> Nat]
    BY <1>9 DEF EditSource, RemoveLock, Spend
  <2>. QED BY <1>9, <2>1, <2>2 DEF EditSource, RemoveLock, process
<1>10. CASE UNCHANGED vars
  BY <1>10 DEF vars, process
<1>. QED BY <1>1, <1>2, <1>3, <1>4, <1>5, <1>6, <1>7, <1>8, <1>9, <1>10 DEF Next, Step

(* Type correctness, as a theorem of the specification.                     *)
THEOREM TypeCorrect == Spec => []TypeOK
<1>. QED BY InitTypeOK, StepTypeOK, PTL DEF Spec

-----------------------------------------------------------------------------
(* A handler unlinks the lock while its sweep is still inside the try, and  *)
(* may run when the sweep is past it.  So a sweep counts until it is out of *)
(* both.                                                                    *)
Within == Inside \cup {s \in Sweep : handler[s] # "none"}

Exclusive == \A s, t \in Within : s = t

(* What keeps sweeps apart without any coordination of theirs: nobody was   *)
(* signalled yet, or only one of them was ever started.                     *)
Begun == {s \in Sweep : pc[s] # "start"}
Calm == budget.signals = Signals \/ \A s, t \in Begun : s = t

-----------------------------------------------------------------------------
(* The inductive invariant.  Exclusive is not inductive by itself: what a   *)
(* sweep still inside has to know depends on whether its handler has given  *)
(* the lock up, which it does only after writing back, once and for all.    *)
Handled ==
  /\ budget.signals <= Signals
  /\ \A s \in Sweep : handler[s] # "none" => pc[s] \in Armed /\ budget.signals < Signals

Unwritten(s) == \/ pc[s] \in {"start", "measured", "baselined", "locked", "snapped"}
                \/ At(s, "armed") \/ At(s, "body") \/ At(s, "observing")

Written(s) == \/ pc[s] \in {"asserting", "unlinking", "disarming"}
              \/ handler[s] \in {"asserting", "unlinking", "exiting"}

Undisturbed(s) ==
  /\ pc[s] = "snapped" \/ At(s, "armed") => src = snapshot[s]
  /\ At(s, "observing") => src.blanked = next[s]
  /\ Unwritten(s) => ~restored[s]
  /\ Written(s) => restored[s]
  /\ s \in Inside => /\ lock \/ (restored[s] /\ budget.signals < Signals)
                     /\ lock /\ restored[s] => src = snapshot[s]

Inv == TypeOK /\ Handled /\ (\A s \in Sweep : Undisturbed(s)) /\ ScoreIsTrue

(* It holds before anything has run.                                        *)
LEMMA InitInv == Init => Inv /\ Exclusive
<1>. SUFFICES ASSUME Init PROVE Inv /\ Exclusive
  OBVIOUS
<1>1. TypeOK
  BY InitTypeOK
<1>2. \A s \in Sweep : pc[s] = "start" /\ handler[s] = "none" /\ restored[s] = FALSE
  BY DEF Init
<1>3. Inside = {} /\ Within = {}
  BY <1>2 DEF Within, Inside, Armed
<1>4. Handled /\ Exclusive
  BY <1>2, <1>3, SweepAssumption DEF Init, Handled, Exclusive
<1>5. \A s \in Sweep : Undisturbed(s)
  BY <1>2, <1>3 DEF Undisturbed, Unwritten, Written, At
<1>6. ScoreIsTrue
  <2>1. 1..(1 - 1) = {}
    OBVIOUS
  <2>2. \A s \in Sweep : next[s] = 1 /\ caught[s] = {}
    BY DEF Init
  <2>. QED BY <2>1, <2>2 DEF ScoreIsTrue
<1>. QED BY <1>1, <1>4, <1>5, <1>6 DEF Inv

(* A step of the program spends none of the bounds.                         *)
LEMMA StepBudget == ASSUME NEW s \in Sweep, Step(s) PROVE budget' = budget
BY DEF Step, Measure, Baseline, Acquire, Snapshot, Arm, Enter, Mutate, Observe,
       Leave, Restore, Handle

(* Kills are spent by a kill and by nothing else ...                        *)
LEMMA KillsSpent ==
  ASSUME TypeOK, [Next]_vars
  PROVE  IF \E s \in Sweep : Kill(s) THEN budget'.kills = budget.kills - 1
                                      ELSE budget'.kills = budget.kills
<1>1. ASSUME NEW s \in Sweep, Kill(s) PROVE budget'.kills = budget.kills - 1
  BY <1>1 DEF Kill, Spend, TypeOK
<1>2. ASSUME NEW s \in Sweep, Step(s) PROVE budget' = budget
  BY <1>2, StepBudget
<1>3. ASSUME NEW s \in Sweep, Signal(s) PROVE budget'.kills = budget.kills
  BY <1>3 DEF Signal, Spend, TypeOK
<1>4. ASSUME EditSource \/ RemoveLock \/ UNCHANGED vars
      PROVE  budget'.kills = budget.kills
  BY <1>4 DEF EditSource, RemoveLock, vars, Spend, TypeOK
<1>. QED BY <1>1, <1>2, <1>3, <1>4 DEF Next

(* ... and signals by a signal.                                             *)
LEMMA SignalsSpent ==
  ASSUME TypeOK, [Next]_vars
  PROVE  IF \E s \in Sweep : Signal(s) THEN budget'.signals = budget.signals - 1
                                        ELSE budget'.signals = budget.signals
<1>1. ASSUME NEW s \in Sweep, Signal(s) PROVE budget'.signals = budget.signals - 1
  BY <1>1 DEF Signal, Spend, TypeOK
<1>2. ASSUME NEW s \in Sweep, Step(s) PROVE budget' = budget
  BY <1>2, StepBudget
<1>3. ASSUME NEW s \in Sweep, Kill(s) PROVE budget'.signals = budget.signals
  BY <1>3 DEF Kill, Spend, TypeOK
<1>4. ASSUME EditSource \/ RemoveLock \/ UNCHANGED vars
      PROVE  budget'.signals = budget.signals
  BY <1>4 DEF EditSource, RemoveLock, vars, Spend, TypeOK
<1>. QED BY <1>1, <1>2, <1>3, <1>4 DEF Next

(* A handler runs only where one is installed, and only after a signal.     *)
LEMMA StepHandled == ASSUME TypeOK, Handled, [Next]_vars PROVE Handled'
<1>. USE DEF Handled, At, GoTo
<1>1. budget'.signals <= budget.signals /\ budget.signals \in Nat /\ budget'.signals \in Nat
      /\ Signals \in Nat
  BY StepTypeOK, SignalsSpent, SweepAssumption DEF TypeOK
<1>2. ASSUME NEW s \in Sweep, Signal(s) PROVE Handled'
  <2>1. budget'.signals < Signals
    BY <1>1, <1>2, SignalsSpent
  <2>. QED BY <1>1, <1>2, <2>1 DEF Signal, TypeOK
<1>3. ASSUME NEW s \in Sweep, Kill(s) PROVE Handled'
  BY <1>1, <1>3 DEF Kill, TypeOK
<1>4. ASSUME NEW s \in Sweep, Handle(s) PROVE Handled'
  <2>1. handler[s] # "none"
    BY <1>4 DEF Handle
  <2>2. \A t \in Sweep : t # s => pc'[t] = pc[t] /\ handler'[t] = handler[t]
    BY <1>4 DEF Handle, Raise, TypeOK
  <2>3. handler'[s] = "none" \/ pc'[s] = pc[s]
    BY <1>4 DEF Handle, Raise, TypeOK
  <2>. QED BY <1>1, <2>1, <2>2, <2>3
<1>5. ASSUME NEW s \in Sweep, Step(s), ~Handle(s) PROVE Handled'
  <2>1. handler[s] = "none" /\ handler' = handler
    BY <1>5 DEF Step, Measure, Baseline, Acquire, Snapshot, Arm, Enter, Mutate, Observe,
                Leave, Restore
  <2>2. \A t \in Sweep : t # s => pc'[t] = pc[t]
    BY <1>5 DEF Step, Measure, Baseline, Acquire, Snapshot, Arm, Enter, Mutate, Observe,
                Leave, Restore, TypeOK
  <2>. QED BY <1>1, <2>1, <2>2
<1>6. ASSUME EditSource \/ RemoveLock \/ UNCHANGED vars PROVE Handled'
  BY <1>1, <1>6 DEF EditSource, RemoveLock, vars, process
<1>. QED BY <1>2, <1>3, <1>4, <1>5, <1>6 DEF Next

(* A sweep observes the file while what is in it is the mutant it wrote.    *)
LEMMA StepScore ==
  ASSUME Inv, [Next]_vars PROVE ScoreIsTrue'
<1>. USE DEF Inv
<1>1. ASSUME NEW s \in Sweep, Observe(s) PROVE ScoreIsTrue'
  <2>1. /\ next[s] \in 1..Sites /\ src.blanked = next[s]
        /\ next' = [next EXCEPT ![s] = next[s] + 1]
        /\ caught' = IF next[s] \in Caught
                     THEN [caught EXCEPT ![s] = caught[s] \cup {next[s]}] ELSE caught
    BY <1>1, SweepAssumption DEF Observe, At, Noticed, TypeOK, Undisturbed
  <2>2. ASSUME NEW t \in Sweep PROVE caught'[t] = Caught \cap (1..(next'[t] - 1))
    <3>1. CASE t # s
      BY <2>1, <3>1 DEF TypeOK, ScoreIsTrue
    <3>2. CASE t = s
      <4>1. next'[s] - 1 = next[s] /\ 1..next[s] = (1..(next[s] - 1)) \cup {next[s]}
        BY <2>1, SweepAssumption DEF TypeOK
      <4>2. caught'[s] = IF next[s] \in Caught THEN caught[s] \cup {next[s]} ELSE caught[s]
        BY <2>1 DEF TypeOK
      <4>3. caught[s] = Caught \cap (1..(next[s] - 1))
        BY DEF ScoreIsTrue
      <4>. QED BY <3>2, <4>1, <4>2, <4>3
    <3>. QED BY <3>1, <3>2
  <2>. QED BY <2>2 DEF ScoreIsTrue
<1>2. ASSUME NEW s \in Sweep, Step(s), ~Observe(s) PROVE UNCHANGED <<next, caught>>
  BY <1>2 DEF Step, Measure, Baseline, Acquire, Snapshot, Arm, Enter, Mutate, Leave,
              Restore, Handle
<1>3. ASSUME \/ \E s \in Sweep : Signal(s) \/ Kill(s)
             \/ EditSource \/ RemoveLock \/ UNCHANGED vars
      PROVE  UNCHANGED <<next, caught>>
  BY <1>3 DEF Signal, Kill, EditSource, RemoveLock, vars, process
<1>. QED BY <1>1, <1>2, <1>3 DEF Next, ScoreIsTrue

(* Who is within is alone: everybody else is outside, with no handler.      *)
LEMMA OthersOutside ==
  ASSUME Exclusive, NEW s \in Within, NEW t \in Sweep, t # s
  PROVE  t \notin Inside /\ handler[t] = "none"
BY DEF Exclusive, Within

(* The step of a sweep leaves what is another's alone.                      *)
LEMMA OthersKeep ==
  ASSUME TypeOK, NEW s \in Sweep, Step(s) \/ Signal(s) \/ Kill(s), NEW t \in Sweep, t # s
  PROVE  /\ pc'[t] = pc[t] /\ handler'[t] = handler[t] /\ restored'[t] = restored[t]
         /\ snapshot'[t] = snapshot[t] /\ next'[t] = next[t]
<1>. USE DEF At, GoTo
<1>1. CASE Step(s) /\ ~Handle(s)
  BY <1>1 DEF Step, Measure, Baseline, Acquire, Snapshot, Arm, Enter, Mutate, Observe,
              Leave, Restore, WriteBack, TypeOK
<1>2. CASE Handle(s)
  BY <1>2 DEF Handle, WriteBack, Raise, TypeOK
<1>3. CASE Signal(s) \/ Kill(s)
  BY <1>3 DEF Signal, Kill, TypeOK
<1>. QED BY <1>1, <1>2, <1>3 DEF Step

(* So a sweep stays undisturbed by the steps of another that is within,     *)
(* and by those that touch neither the file nor the lock.                   *)
LEMMA OthersUndisturbed ==
  ASSUME Inv, [Next]_vars, NEW s \in Sweep, Step(s) \/ Signal(s) \/ Kill(s),
         NEW t \in Sweep, t # s,
         \/ UNCHANGED <<src, lock>>
         \/ Exclusive /\ s \in Within
  PROVE  Undisturbed(t)'
<1>1. /\ pc'[t] = pc[t] /\ handler'[t] = handler[t] /\ restored'[t] = restored[t]
      /\ snapshot'[t] = snapshot[t] /\ next'[t] = next[t]
  BY OthersKeep DEF Inv
<1>2. budget'.signals <= budget.signals /\ budget.signals \in Nat /\ Signals \in Nat
  BY SignalsSpent, SweepAssumption DEF Inv, TypeOK
<1>3. Undisturbed(t)
  BY DEF Inv
<1>4. (t \in Inside') <=> (t \in Inside)
  BY <1>1 DEF Inside
<1>5. CASE UNCHANGED <<src, lock>>
  <2>1. budget'.signals \in Nat
    BY StepTypeOK DEF Inv, TypeOK
  <2>. QED BY <1>1, <1>2, <1>3, <1>4, <1>5, <2>1 DEF Undisturbed, Unwritten, Written, At
<1>6. CASE Exclusive /\ s \in Within
  <2>1. t \notin Inside /\ handler[t] = "none"
    BY <1>6, OthersOutside
  <2>2. pc[t] \notin {"snapped", "armed", "observing"}
    BY <2>1 DEF Inside, Armed
  <2>. QED BY <1>1, <1>3, <1>4, <2>1, <2>2 DEF Undisturbed, Unwritten, Written, At
<1>. QED BY <1>5, <1>6

(* Every step keeps it, as long as no two are within.                       *)
LEMMA StepUndisturbed ==
  ASSUME Inv, Exclusive, Exclusive', [Next]_vars
  PROVE  \A s \in Sweep : Undisturbed(s)'
<1>. USE SweepAssumption DEF Inv
<1>a. TypeOK /\ TypeOK' /\ Handled'
  BY StepTypeOK, StepHandled
<1>b. \A s \in Sweep : Undisturbed(s)
  OBVIOUS
<1>c. /\ budget.signals \in Nat /\ budget'.signals \in Nat /\ Signals \in Nat
      /\ budget'.signals <= budget.signals
  BY <1>a, SignalsSpent DEF TypeOK
<1>. USE DEF Inside, Armed, At, GoTo
<1>1. ASSUME NEW s \in Sweep, \/ Measure(s) \/ Baseline(s) \/ Snapshot(s) \/ Arm(s) \/ Enter(s)
                              \/ Observe(s) \/ Leave(s)
      PROVE  Undisturbed(s)'
  <2>1. CASE Measure(s) \/ Baseline(s)
    BY <1>b, <1>c, <2>1 DEF Measure, Baseline, Undisturbed, Unwritten, Written, TypeOK
  <2>2. CASE Snapshot(s) \/ Arm(s) \/ Enter(s)
    BY <1>b, <1>c, <2>2 DEF Snapshot, Arm, Enter, Undisturbed, Unwritten, Written, TypeOK
  <2>3. CASE Observe(s) \/ Leave(s)
    BY <1>b, <1>c, <2>3 DEF Observe, Leave, Undisturbed, Unwritten, Written, TypeOK
  <2>. QED BY <1>1, <2>1, <2>2, <2>3
<1>2. ASSUME NEW s \in Sweep, Acquire(s), NEW t \in Sweep PROVE Undisturbed(t)'
  <2>1. CASE lock
    <3>1. UNCHANGED <<src, lock>>
      BY <1>2, <2>1, <1>a DEF Acquire, TypeOK
    <3>2. Undisturbed(s)'
      BY <1>2, <2>1, <1>b, <1>c DEF Acquire, Undisturbed, Unwritten, Written, TypeOK
    <3>. QED BY <1>2, <3>1, <3>2, OthersUndisturbed DEF Step
  <2>2. CASE ~lock
    <3>1. s \in Within'
      BY <1>2, <2>2 DEF Acquire, Within, TypeOK
    <3>2. CASE t = s
      BY <1>2, <2>2, <3>2, <1>b DEF Acquire, Undisturbed, Unwritten, Written, TypeOK
    <3>3. CASE t # s
      <4>1. t \notin Within'
        BY <3>1, <3>3 DEF Exclusive
      <4>2. t \notin Inside' /\ pc'[t] = pc[t] /\ handler' = handler /\ restored' = restored
        BY <1>2, <3>3, <4>1 DEF Acquire, Within, TypeOK
      <4>. QED BY <1>b, <4>2 DEF Undisturbed, Unwritten, Written
    <3>. QED BY <3>2, <3>3
  <2>. QED BY <2>1, <2>2
<1>3. ASSUME NEW s \in Sweep, Mutate(s) PROVE Undisturbed(s)' /\ s \in Within
  <2>1. src'.blanked = next[s]
    BY <1>3 DEF Mutate, Mutant, TypeOK, Source
  <2>. QED BY <1>3, <2>1, <1>b DEF Mutate, Within, Undisturbed, Unwritten, Written, TypeOK
<1>4. ASSUME NEW s \in Sweep, Restore(s) PROVE Undisturbed(s)'
  <2>1. CASE pc[s] = "restoring"
    <3>1. /\ src' = (IF restored[s] THEN src ELSE snapshot[s]) /\ restored'[s] = TRUE
          /\ pc'[s] = "asserting" /\ handler'[s] = "none"
          /\ UNCHANGED <<lock, snapshot, next, budget>>
      BY <1>4, <2>1 DEF Restore, WriteBack, TypeOK
    <3>. QED BY <1>b, <2>1, <3>1 DEF Undisturbed, Unwritten, Written
  <2>2. CASE pc[s] = "asserting"
    <3>1. /\ pc'[s] \in {"unlinking", "ended"} /\ handler'[s] = "none"
          /\ UNCHANGED <<src, restored, lock, snapshot, next, budget>>
      BY <1>4, <2>2 DEF Restore, TypeOK
    <3>. QED BY <1>b, <2>2, <3>1 DEF Undisturbed, Unwritten, Written
  <2>3. CASE pc[s] \in {"unlinking", "disarming"}
    <3>1. /\ pc'[s] \in {"disarming", "ended"} /\ handler'[s] = "none"
          /\ restored' = restored
      BY <1>4, <2>3 DEF Restore, TypeOK
    <3>. QED BY <1>b, <2>3, <3>1 DEF Undisturbed, Unwritten, Written
  <2>. QED BY <1>4, <2>1, <2>2, <2>3 DEF Restore
<1>5. ASSUME NEW s \in Sweep, Handle(s) PROVE Undisturbed(s)' /\ s \in Within
  <2>1. CASE handler[s] = "restoring"
    <3>1. /\ src' = (IF restored[s] THEN src ELSE snapshot[s]) /\ restored'[s] = TRUE
          /\ pc'[s] = pc[s] /\ handler'[s] = "asserting" /\ pc[s] \in Armed
          /\ UNCHANGED <<lock, snapshot, next, budget>>
      BY <1>5, <2>1 DEF Handle, WriteBack, TypeOK, Handled
    <3>. QED BY <1>b, <2>1, <3>1 DEF Within, Undisturbed, Unwritten, Written
  <2>2. CASE handler[s] # "restoring"
    <3>1. restored[s] /\ pc[s] \in Armed /\ budget.signals < Signals /\ s \in Within
      BY <1>5, <1>b, <2>2 DEF Handle, Handled, Within, Undisturbed, Written
    <3>2. UNCHANGED <<src, restored, snapshot, next, budget>>
      BY <1>5, <2>2 DEF Handle
    <3>3. /\ pc'[s] \in {pc[s], "restoring", "ended"} /\ (lock' => lock)
          /\ pc'[s] = "restoring" => pc[s] \in {"body", "observing", "restoring"}
      BY <1>5, <2>2 DEF Handle, Unlink, Raise, TypeOK
    <3>4. /\ handler'[s] \in {"none", "unlinking", "exiting"}
          /\ handler'[s] = "none" => pc'[s] \in {"restoring", "ended"}
      BY <1>5, <2>2 DEF Handle, Raise, TypeOK
    <3>. QED BY <1>b, <3>1, <3>2, <3>3, <3>4 DEF Undisturbed, Unwritten, Written
  <2>. QED BY <2>1, <2>2
<1>6. ASSUME NEW s \in Sweep, Signal(s) \/ Kill(s) PROVE Undisturbed(s)' /\ UNCHANGED <<src, lock>>
  <2>1. CASE Kill(s)
    BY <2>1 DEF Kill, Undisturbed, Unwritten, Written, TypeOK
  <2>2. CASE Signal(s) /\ pc[s] \in Armed
    <3>1. handler'[s] = "restoring" /\ UNCHANGED <<pc, src, lock, restored, snapshot>>
      BY <2>2 DEF Signal, TypeOK
    <3>. QED BY <1>b, <1>c, <2>2, <3>1 DEF Undisturbed, Unwritten, Written
  <2>3. CASE Signal(s) /\ pc[s] \notin Armed
    <3>1. pc'[s] = "ended" /\ handler'[s] = "none" /\ UNCHANGED <<src, lock>>
      BY <2>3 DEF Signal, TypeOK, Handled
    <3>. QED BY <3>1 DEF Undisturbed, Unwritten, Written
  <2>. QED BY <1>6, <2>1, <2>2, <2>3
<1>7. ASSUME EditSource, NEW s \in Sweep PROVE Undisturbed(s)'
  <2>1. ~lock /\ ~lock' /\ UNCHANGED process
    BY <1>7 DEF EditSource
  <2>. QED BY <1>b, <1>c, <2>1 DEF process, Undisturbed, Unwritten, Written
<1>8. ASSUME RemoveLock, NEW s \in Sweep PROVE Undisturbed(s)'
  BY <1>8, <1>b DEF RemoveLock, process, Undisturbed, Unwritten, Written
<1>9. ASSUME UNCHANGED vars, NEW s \in Sweep PROVE Undisturbed(s)'
  BY <1>9, <1>b DEF vars, process, Undisturbed, Unwritten, Written
<1>10. ASSUME NEW s \in Sweep, Step(s) \/ Signal(s) \/ Kill(s), ~Acquire(s), NEW t \in Sweep
       PROVE  Undisturbed(t)'
  <2>1. Undisturbed(s)'
    BY <1>10, <1>1, <1>3, <1>4, <1>5, <1>6 DEF Step
  <2>2. UNCHANGED <<src, lock>> \/ s \in Within
    <3>1. CASE Restore(s)
      BY <3>1 DEF Restore, Within
    <3>2. CASE ~Restore(s)
      BY <3>2, <1>10, <1>3, <1>5, <1>6
         DEF Step, Measure, Baseline, Snapshot, Arm, Enter, Observe, Leave
    <3>. QED BY <3>1, <3>2
  <2>. QED BY <1>10, <2>1, <2>2, OthersUndisturbed
<1>. QED BY <1>2, <1>7, <1>8, <1>9, <1>10 DEF Next, Step
(* The invariant as a whole.                                                *)
LEMMA StepInv == ASSUME Inv, Exclusive, Exclusive', [Next]_vars PROVE Inv'
<1>1. TypeOK' /\ Handled' /\ ScoreIsTrue'
  BY StepTypeOK, StepHandled, StepScore DEF Inv
<1>2. \A s \in Sweep : Undisturbed(s)'
  BY StepUndisturbed
<1>. QED BY <1>1, <1>2 DEF Inv, Undisturbed, Unwritten, Written, Inside, At

(* Calm does not come back: what was calm after a step was before it.       *)
LEMMA CalmBefore == ASSUME TypeOK, Handled, [Next]_vars, Calm' PROVE Calm
<1>1. budget'.signals <= budget.signals /\ budget.signals <= Signals
      /\ budget.signals \in Nat /\ budget'.signals \in Nat /\ Signals \in Nat
  BY StepTypeOK, SignalsSpent, SweepAssumption DEF TypeOK, Handled
<1>2. Begun \subseteq Begun'
  <2>. SUFFICES ASSUME NEW t \in Sweep, pc[t] # "start" PROVE pc'[t] # "start"
    BY DEF Begun
  <2>1. ASSUME NEW s \in Sweep, Step(s) \/ Signal(s) \/ Kill(s) PROVE pc'[t] # "start"
    <3>1. CASE t # s
      BY <2>1, <3>1, OthersKeep
    <3>2. CASE t = s /\ Step(s)
      BY <3>2 DEF Step, Measure, Baseline, Acquire, Snapshot, Arm, Enter, Mutate, Observe,
                  Leave, Restore, Handle, Raise, GoTo, TypeOK
    <3>3. CASE t = s /\ (Signal(s) \/ Kill(s))
      BY <3>3 DEF Signal, Kill, GoTo, TypeOK
    <3>. QED BY <2>1, <3>1, <3>2, <3>3
  <2>2. ASSUME EditSource \/ RemoveLock \/ UNCHANGED vars PROVE pc' = pc
    BY <2>2 DEF EditSource, RemoveLock, vars, process
  <2>. QED BY <2>1, <2>2 DEF Next
<1>. QED BY <1>1, <1>2 DEF Calm

(* In the calm no two come to be within: either there is only one, or the   *)
(* lock of the one inside is still there and turns the others away.         *)
LEMMA StepExclusive == ASSUME Inv, Exclusive, Calm', [Next]_vars PROVE Exclusive'
<1>. USE DEF Inv
<1>1. TypeOK' /\ Handled'
  BY StepTypeOK, StepHandled
<1>2. CASE \A s, t \in Begun' : s = t
  <2>1. Within' \subseteq Begun'
    BY <1>1 DEF Within, Begun, Inside, Armed, Handled
  <2>. QED BY <1>2, <2>1 DEF Exclusive
<1>3. CASE budget'.signals = Signals
  <2>1. budget.signals = Signals /\ Signals \in Nat
    BY <1>1, <1>3, SignalsSpent, SweepAssumption DEF TypeOK, Handled
  <2>2. (\A s \in Sweep : handler[s] = "none") /\ \A s \in Sweep : handler'[s] = "none"
    BY <1>1, <1>3, <2>1 DEF Handled
  <2>3. Within = Inside /\ Within' = Inside'
    BY <2>2 DEF Within
  <2>4. ASSUME NEW s \in Inside', NEW t \in Inside' PROVE s = t
    <3>1. ASSUME NEW u \in Sweep, Acquire(u), ~lock PROVE s = t
      <4>1. Inside = {}
        BY <2>1, <3>1 DEF Undisturbed, Inside
      <4>2. \A v \in Sweep : v # u => v \notin Inside'
        BY <3>1, <4>1 DEF Acquire, GoTo, Inside, TypeOK
      <4>. QED BY <4>2 DEF Inside
    <3>2. ASSUME \A u \in Sweep : ~(Acquire(u) /\ ~lock) PROVE Inside' \subseteq Inside
      <4>1. ASSUME NEW u \in Sweep, Step(u) \/ Signal(u) \/ Kill(u)
            PROVE  u \in Inside' => u \in Inside
        <5>1. CASE Acquire(u)
          BY <3>2, <5>1 DEF Acquire, GoTo, Inside, Armed, TypeOK
        <5>2. CASE Handle(u)
          BY <2>2, <5>2 DEF Handle
        <5>3. CASE Signal(u) \/ Kill(u)
          BY <2>2, <5>3 DEF Signal, Kill, GoTo, Inside, Armed, TypeOK
        <5>4. CASE Step(u) /\ ~Acquire(u) /\ ~Handle(u)
          BY <5>4 DEF Step, Measure, Baseline, Snapshot, Arm, Enter, Mutate, Observe,
                      Leave, Restore, At, GoTo, Inside, Armed, TypeOK
        <5>. QED BY <4>1, <5>1, <5>2, <5>3, <5>4
      <4>2. ASSUME NEW u \in Sweep, Step(u) \/ Signal(u) \/ Kill(u), NEW v \in Sweep, v # u
            PROVE  v \in Inside' => v \in Inside
        BY <4>2, OthersKeep DEF Inside
      <4>3. ASSUME EditSource \/ RemoveLock \/ UNCHANGED vars PROVE Inside' = Inside
        BY <4>3 DEF EditSource, RemoveLock, vars, process, Inside
      <4>. QED BY <4>1, <4>2, <4>3 DEF Next, Inside
    <3>. QED BY <2>3, <3>1, <3>2 DEF Exclusive
  <2>. QED BY <2>3, <2>4 DEF Exclusive
<1>. QED BY <1>2, <1>3 DEF Calm

-----------------------------------------------------------------------------
(* As long as nobody is killed, a source with a blanked site has a sweep    *)
(* inside the transaction and a lock: the snapshot was taken of a clean     *)
(* source, and is back before the lock goes.                                *)
Tidy ==
  /\ ~lock \/ Inside = {} => src.blanked = Clean
  /\ \A s \in Inside : IF pc[s] = "locked" THEN src.blanked = Clean
                                           ELSE snapshot[s].blanked = Clean

(* What is inside after the step of one sweep.                              *)
LEMMA StepInside ==
  ASSUME TypeOK, NEW s \in Sweep, Step(s) \/ Signal(s) \/ Kill(s)
  PROVE  Inside' \ {s} = Inside \ {s}
<1>1. \A t \in Sweep : t # s => pc'[t] = pc[t]
  BY OthersKeep
<1>. QED BY <1>1 DEF Inside

(* Every step keeps it, a kill apart.                                       *)
LEMMA StepTidy ==
  ASSUME Inv, Exclusive, Tidy, [Next]_vars, \A s \in Sweep : ~Kill(s)
  PROVE  Tidy'
<1>. USE SweepAssumption DEF Inv, At, GoTo
(* A step that touches neither the file nor the lock nor who is inside.     *)
<1>a. ASSUME UNCHANGED <<src, lock, snapshot>>, Inside' = Inside,
             \A s \in Inside : pc'[s] = "locked" <=> pc[s] = "locked"
      PROVE  Tidy'
  BY <1>a DEF Tidy
(* A step of the sweep that is inside, which has its snapshot.              *)
<1>b. ASSUME NEW s \in Inside, Step(s) \/ Signal(s), pc[s] # "locked", pc'[s] # "locked",
             snapshot'[s] = snapshot[s],
             ~lock' \/ s \notin Inside' => src'.blanked = Clean
      PROVE  Tidy'
  <2>1. Inside = {s}
    BY DEF Exclusive, Within
  <2>2. Inside' \subseteq {s}
    BY <1>b, <2>1, StepInside DEF Inside
  <2>. QED BY <1>b, <2>1, <2>2 DEF Tidy
<1>1. ASSUME NEW s \in Sweep, Measure(s) \/ Baseline(s) \/ Arm(s) \/ Enter(s) \/ Leave(s)
             \/ Observe(s)
      PROVE  Tidy'
  <2>1. Inside' = Inside /\ UNCHANGED <<src, lock, snapshot>>
    BY <1>1 DEF Measure, Baseline, Arm, Enter, Leave, Observe, TypeOK, Inside, Armed
  <2>2. \A t \in Sweep : (pc'[t] = "locked") <=> (pc[t] = "locked")
    BY <1>1 DEF Measure, Baseline, Arm, Enter, Leave, Observe, TypeOK
  <2>. QED BY <1>a, <2>1, <2>2 DEF Inside
<1>2. ASSUME NEW s \in Sweep, Acquire(s) PROVE Tidy'
  <2>1. CASE lock
    <3>1. Inside' = Inside /\ UNCHANGED <<src, lock, snapshot>>
      BY <1>2, <2>1 DEF Acquire, TypeOK, Inside, Armed
    <3>2. \A t \in Sweep : (pc'[t] = "locked") <=> (pc[t] = "locked")
      BY <1>2, <2>1 DEF Acquire, TypeOK
    <3>. QED BY <1>a, <3>1, <3>2 DEF Inside
  <2>2. CASE ~lock
    <3>1. /\ s \in Inside' /\ pc'[s] = "locked" /\ lock' /\ UNCHANGED <<src, snapshot>>
          /\ \A t \in Sweep : t # s => pc'[t] = pc[t]
      BY <1>2, <2>2 DEF Acquire, TypeOK, Inside
    <3>2. src'.blanked = Clean
      BY <2>2, <3>1 DEF Tidy
    <3>. QED BY <3>1, <3>2 DEF Tidy, Inside
  <2>. QED BY <2>1, <2>2
<1>3. ASSUME NEW s \in Sweep, Snapshot(s) PROVE Tidy'
  <2>1. /\ s \in Inside /\ Inside' = Inside /\ UNCHANGED <<src, lock>>
        /\ pc[s] = "locked" /\ pc'[s] = "snapped" /\ snapshot'[s] = src
    BY <1>3 DEF Snapshot, TypeOK, Inside, Armed
  <2>2. \A t \in Inside : t = s
    BY <2>1 DEF Exclusive, Within
  <2>. QED BY <2>1, <2>2 DEF Tidy
<1>4. ASSUME NEW s \in Sweep, Mutate(s) PROVE Tidy'
  <2>1. /\ s \in Inside /\ s \in Inside' /\ snapshot' = snapshot /\ lock' = lock
        /\ pc[s] # "locked" /\ pc'[s] # "locked"
    BY <1>4 DEF Mutate, TypeOK, Inside, Armed
  <2>2. lock
    BY <1>4, <2>1 DEF Mutate, Undisturbed, Unwritten
  <2>. QED BY <1>4, <1>b, <2>1, <2>2 DEF Step
<1>5. ASSUME NEW s \in Sweep, Restore(s) PROVE Tidy'
  <2>0. Undisturbed(s)
    OBVIOUS
  <2>1. CASE pc[s] = "restoring"
    <3>1. /\ s \in Inside /\ s \in Inside' /\ snapshot' = snapshot /\ lock' = lock
          /\ pc[s] # "locked" /\ pc'[s] # "locked"
          /\ src' = (IF restored[s] THEN src ELSE snapshot[s])
      BY <1>5, <2>1 DEF Restore, WriteBack, TypeOK, Inside, Armed
    <3>2. src'.blanked = Clean \/ lock'
      BY <2>0, <3>1 DEF Undisturbed, Tidy
    <3>. QED BY <1>5, <1>b, <3>1, <3>2 DEF Step
  <2>2. CASE pc[s] = "asserting"
    <3>1. /\ s \in Inside /\ UNCHANGED <<src, snapshot, lock>>
          /\ pc[s] # "locked" /\ pc'[s] # "locked"
          /\ src = snapshot[s] => pc'[s] = "unlinking"
      BY <1>5, <2>2 DEF Restore, IsRestored, TypeOK, Inside, Armed
    <3>2. s \in Inside' \/ ~lock
      BY <2>0, <2>2, <3>1 DEF Undisturbed, Written, Inside, Armed
    <3>3. src'.blanked = Clean \/ (lock' /\ s \in Inside')
      BY <3>1, <3>2 DEF Tidy
    <3>. QED BY <1>5, <1>b, <3>1, <3>3 DEF Step
  <2>3. CASE pc[s] = "unlinking"
    <3>1. /\ s \in Inside /\ UNCHANGED <<src, snapshot>> /\ restored[s]
          /\ pc[s] # "locked" /\ pc'[s] # "locked"
      BY <1>5, <2>0, <2>3 DEF Restore, TypeOK, Inside, Armed, Undisturbed, Written
    <3>2. src'.blanked = Clean
      BY <2>0, <3>1 DEF Undisturbed, Tidy
    <3>. QED BY <1>5, <1>b, <3>1, <3>2 DEF Step
  <2>4. CASE pc[s] = "disarming"
    <3>1. Inside' = Inside /\ UNCHANGED <<src, lock, snapshot>>
      BY <1>5, <2>4 DEF Restore, TypeOK, Inside, Armed
    <3>2. \A t \in Sweep : (pc'[t] = "locked") <=> (pc[t] = "locked")
      BY <1>5, <2>4 DEF Restore, TypeOK
    <3>. QED BY <1>a, <3>1, <3>2 DEF Inside
  <2>. QED BY <1>5, <2>1, <2>2, <2>3, <2>4 DEF Restore
<1>6. ASSUME NEW s \in Sweep, Handle(s) PROVE Tidy'
  <2>0. /\ Undisturbed(s) /\ pc[s] \in Armed /\ pc[s] # "locked" /\ pc'[s] # "locked"
        /\ snapshot' = snapshot
    BY <1>6 DEF Handle, Handled, Raise, Armed, TypeOK
  <2>1. CASE s \in Inside
    <3>1. ASSUME handler[s] = "restoring" PROVE ~lock' \/ s \notin Inside' => src'.blanked = Clean
      <4>1. /\ src' = (IF restored[s] THEN src ELSE snapshot[s]) /\ UNCHANGED <<lock, pc>>
        BY <1>6, <3>1 DEF Handle, WriteBack
      <4>. QED BY <2>0, <2>1, <4>1 DEF Undisturbed, Tidy, Inside
    <3>2. ASSUME handler[s] # "restoring" PROVE src'.blanked = Clean
      <4>1. src' = src /\ restored[s]
        BY <1>6, <2>0, <3>2 DEF Handle, Undisturbed, Written
      <4>. QED BY <2>0, <2>1, <4>1 DEF Undisturbed, Tidy
    <3>. QED BY <1>6, <1>b, <2>0, <2>1, <3>1, <3>2 DEF Step
  <2>2. CASE s \notin Inside
    <3>1. pc[s] = "disarming" /\ restored[s]
      BY <2>0, <2>2 DEF Inside, Armed, Undisturbed, Written
    <3>2. src' = src /\ s \notin Inside'
      BY <1>6, <3>1 DEF Handle, WriteBack, Raise, TypeOK, Inside, Armed
    <3>3. s \in Within
      BY <1>6 DEF Handle, Within
    <3>4. Inside = {}
      BY <2>2, <3>3 DEF Exclusive, Within, Inside
    <3>5. Inside' = {}
      BY <1>6, <3>2, <3>4, StepInside DEF Step
    <3>. QED BY <3>2, <3>4, <3>5 DEF Tidy
  <2>. QED BY <2>1, <2>2
<1>7. ASSUME NEW s \in Sweep, Signal(s) PROVE Tidy'
  <2>0. Undisturbed(s)
    OBVIOUS
  <2>1. CASE s \notin Inside \/ pc[s] \in Armed
    <3>1. Inside' = Inside /\ UNCHANGED <<src, lock, snapshot>>
      BY <1>7, <2>1 DEF Signal, TypeOK, Inside, Armed
    <3>2. \A t \in Inside : (pc'[t] = "locked") <=> (pc[t] = "locked")
      BY <1>7, <2>1 DEF Signal, TypeOK, Inside, Armed
    <3>. QED BY <1>a, <3>1, <3>2
  <2>2. CASE pc[s] \in {"locked", "snapped"}
    <3>1. s \in Inside /\ s \notin Inside' /\ UNCHANGED <<src, lock, snapshot>>
      BY <1>7, <2>2 DEF Signal, TypeOK, Inside, Armed
    <3>2. Inside = {s}
      BY <3>1 DEF Exclusive, Within
    <3>3. Inside' = {}
      BY <1>7, <3>1, <3>2, StepInside
    <3>4. src.blanked = Clean
      BY <2>0, <2>2, <3>1 DEF Undisturbed, Tidy
    <3>. QED BY <3>1, <3>3, <3>4 DEF Tidy
  <2>. QED BY <2>1, <2>2 DEF Inside
<1>8. CASE EditSource
  <2>1. ~lock /\ ~lock' /\ src'.blanked = Clean /\ UNCHANGED <<pc, snapshot>>
    BY <1>8 DEF EditSource, process, Pristine
  <2>. QED BY <2>1 DEF Tidy, Inside
<1>9. CASE RemoveLock
  <2>1. Inside = {} /\ Inside' = {} /\ src' = src
    BY <1>9 DEF RemoveLock, process, Inside, Armed
  <2>. QED BY <2>1 DEF Tidy
<1>10. CASE UNCHANGED vars
  BY <1>10, <1>a DEF vars, process, Inside
<1>. QED BY <1>1, <1>2, <1>3, <1>4, <1>5, <1>6, <1>7, <1>8, <1>9, <1>10 DEF Next, Step

(* The two together: what holds of every reachable state while no two       *)
(* sweeps are within.                                                       *)
Safe == Inv /\ budget.kills <= Kills /\ (budget.kills = Kills => Tidy)

(* It holds before anything has run ...                                     *)
LEMMA InitSafe == Init => Safe /\ Exclusive
<1>1. Init => Inv /\ Exclusive
  BY InitInv
<1>2. Init => budget.kills = Kills /\ Kills \in Nat
  BY SweepAssumption DEF Init
<1>3. Init => Tidy
  BY DEF Init, Tidy, Inside, Armed, Pristine
<1>. QED BY <1>1, <1>2, <1>3 DEF Safe

(* ... and every step keeps it, until a sweep is killed for what Tidy says. *)
LEMMA StepSafe == Safe /\ Exclusive /\ Exclusive' /\ [Next]_vars => Safe'
<1>. SUFFICES ASSUME Safe, Exclusive, Exclusive', [Next]_vars PROVE Safe'
  OBVIOUS
<1>1. Inv /\ Inv'
  BY StepInv DEF Safe
<1>2. TypeOK /\ budget.kills \in Nat /\ Kills \in Nat
  BY <1>1, SweepAssumption DEF Inv, TypeOK
<1>3. CASE \E s \in Sweep : Kill(s)
  BY <1>1, <1>2, <1>3, KillsSpent DEF Safe
<1>4. CASE \A s \in Sweep : ~Kill(s)
  BY <1>1, <1>2, <1>4, KillsSpent, StepTidy DEF Safe
<1>. QED BY <1>3, <1>4

(* What it is for.  The last is the docstring's byte-identical restore.     *)
LEMMA SafeIsSafe ==
  Safe => /\ ScoreIsTrue /\ MutantNeedsLock
          /\ budget.kills = Kills => NothingLeftBehind
<1>1. ASSUME \A s \in Sweep : pc[s] \in {"start", "ended"} PROVE Inside = {}
  BY <1>1 DEF Inside, Armed
<1>. QED BY <1>1 DEF Safe, Inv, Tidy, MutantNeedsLock, NothingLeftBehind

-----------------------------------------------------------------------------
(* While nobody was signalled, or only one sweep was ever started, no two   *)
(* are within, whoever starts, edits or is killed.                          *)
LEMMA SafeWhileCalm == Spec => [](Calm => Safe /\ Exclusive)
<1>. DEFINE I == TypeOK /\ Handled /\ (Calm => Safe /\ Exclusive)
<1>1. Init => I
  BY InitSafe DEF Safe, Inv
<1>2. I /\ [Next]_vars => I'
  <2>. SUFFICES ASSUME I, [Next]_vars PROVE I'
    OBVIOUS
  <2>1. TypeOK' /\ Handled'
    BY StepTypeOK, StepHandled
  <2>2. ASSUME Calm' PROVE Safe' /\ Exclusive'
    <3>1. Safe /\ Exclusive
      BY <2>2, CalmBefore
    <3>2. Exclusive'
      BY <2>2, <3>1, StepExclusive DEF Safe
    <3>. QED BY <3>1, <3>2, StepSafe
  <2>. QED BY <2>1, <2>2
<1>3. I => (Calm => Safe /\ Exclusive)
  OBVIOUS
<1>. QED BY <1>1, <1>2, <1>3, PTL DEF Spec

(* No two sweeps are between taking the lock and being done with it, in the *)
(* transaction or in its handler.                                           *)
THEOREM Exclusion == Spec => [](Calm => Exclusive)
BY SafeWhileCalm, PTL

(* What a sweep records about a site is true of that site.                  *)
THEOREM ScoresAreTrue == Spec => [](Calm => ScoreIsTrue)
BY SafeWhileCalm, SafeIsSafe, PTL

(* A tree without a lock has no mutant in it until a sweep is killed:       *)
(* nobody who respects the lock reads a mutated source.                     *)
THEOREM NoMutantOutsideLock == Spec => [](Calm => MutantNeedsLock)
BY SafeWhileCalm, SafeIsSafe, PTL

(* The docstring's guarantee, which SweepsRace refutes of several sweeps    *)
(* one of which is signalled: short of a kill, once no sweep is running,    *)
(* no mutant is left behind.  This is where it does hold.                   *)
THEOREM RestoresWhileCalm ==
  Spec => [](Calm /\ budget.kills = Kills => NothingLeftBehind)
BY SafeWhileCalm, SafeIsSafe, PTL

(* And the exclusion is all a signal can break.  Let any number of sweeps   *)
(* be signalled any number of times: it is enough that nobody takes the     *)
(* lock before a signalled sweep is out of its handler and of the try.      *)
LEMMA SafeWhileExclusive == Spec /\ []Exclusive => []Safe
<1>1. Init => Safe
  BY InitSafe
<1>. QED BY <1>1, StepSafe, PTL DEF Spec

(* What is recorded is true, a mutant is never without a lock, and a tree   *)
(* without a running sweep is without a mutant: the file is safe as long as *)
(* the exclusion lasts.                                                     *)
THEOREM ExclusionSuffices ==
  Spec /\ []Exclusive => [](/\ ScoreIsTrue /\ MutantNeedsLock
                            /\ budget.kills = Kills => NothingLeftBehind)
BY SafeWhileExclusive, SafeIsSafe, PTL

-----------------------------------------------------------------------------
(* The sweeps implement ExclusiveEdit.  What holds of every member of a set *)
(* holds of the one CHOOSE takes.                                           *)
LEMMA Only == ASSUME NEW S, NEW s \in S, \A t \in S : t = s
              PROVE  (CHOOSE t \in S : TRUE) = s
OBVIOUS

(* The refinement mapping, while a sweep is inside the transaction ...      *)
LEMMA HolderInside ==
  ASSUME Exclusive, lock, NEW s \in Inside
  PROVE  /\ Holder = s
         /\ Saved = IF pc[s] = "locked" THEN src ELSE snapshot[s]
<1>1. Holder = s
  BY Only DEF Exclusive, Within, Holder
<1>. QED BY <1>1 DEF Saved, Inside

(* ... while there is no lock ...                                           *)
LEMMA HolderNobody ==
  ASSUME ~lock PROVE Holder = Nobody /\ Saved = Nothing
BY SweepAssumption DEF Holder, Saved

(* ... and while there is one that nobody alive took.                       *)
LEMMA HolderOrphan ==
  ASSUME lock, Inside = {} PROVE Holder = Orphan /\ Saved = Nothing
BY SweepAssumption DEF Holder, Saved

(* Every step is a step of ExclusiveEdit, or none that it can see.          *)
LEMMA StepImplements ==
  ASSUME Inv, Inv', Exclusive, Exclusive', [Next]_vars
  PROVE  [Promise!Next]_(Promise!vars)
<1>. USE SweepAssumption DEF Inv
<1>0. TypeOK /\ TypeOK' /\ Handled /\ \A s \in Sweep : Undisturbed(s)
  OBVIOUS
<1>a. ASSUME lock, NEW s \in Inside
      PROVE  Holder = s /\ Saved = IF pc[s] = "locked" THEN src ELSE snapshot[s]
  BY <1>a, HolderInside
<1>b. ASSUME lock', NEW s \in Inside'
      PROVE  Holder' = s /\ Saved' = IF pc'[s] = "locked" THEN src' ELSE snapshot'[s]
  <2>1. Holder' = s
    BY <1>b, Only DEF Exclusive, Within, Holder
  <2>. QED BY <2>1 DEF Saved, Inside
<1>c. ~lock' => Holder' = Nobody /\ Saved' = Nothing
  BY DEF Holder, Saved
<1>d. lock' /\ Inside' = {} => Holder' = Orphan /\ Saved' = Nothing
  BY DEF Holder, Saved
<1>. USE DEF Armed, At, GoTo
(* A step that takes and gives up nothing, and leaves the source alone ...  *)
<1>e. ASSUME UNCHANGED <<src, lock>>, ~lock \/ Inside' = Inside,
             \A s \in Inside : IF pc'[s] = "locked" THEN pc[s] = "locked"
                               ELSE snapshot'[s] = IF pc[s] = "locked" THEN src ELSE snapshot[s]
      PROVE  UNCHANGED Promise!vars
  <2>1. CASE lock /\ Inside # {}
    <3>1. PICK s \in Inside : TRUE
      BY <2>1
    <3>. QED BY <1>a, <1>b, <1>e, <2>1, <3>1 DEF Promise!vars
  <2>2. CASE lock /\ Inside = {}
    BY <1>d, <1>e, <2>2, HolderOrphan DEF Promise!vars
  <2>3. CASE ~lock
    BY <1>c, <1>e, <2>3, HolderNobody DEF Promise!vars
  <2>. QED BY <2>1, <2>2, <2>3
(* ... one of who holds the lock and keeps it ...                           *)
<1>f. ASSUME NEW s \in Inside, s \in Inside', lock, lock', pc[s] # "locked", pc'[s] # "locked",
             snapshot'[s] = snapshot[s]
      PROVE  Promise!Mutate(s)
  <2>1. src' \in Source
    BY DEF TypeOK
  <2>. QED BY <1>a, <1>b, <1>f, <2>1 DEF Promise!Mutate
(* ... one that unlinks it ...                                              *)
<1>g. ASSUME NEW s \in Within, s \in Inside => pc[s] # "locked" /\ restored[s],
             ~lock', src' = src
      PROVE  Promise!Release(s) \/ Promise!Clear \/ UNCHANGED Promise!vars
  <2>1. CASE ~lock
    BY <1>c, <1>g, <2>1, HolderNobody DEF Promise!vars
  <2>2. CASE lock /\ s \in Inside
    <3>1. src = snapshot[s] /\ s \in Sweep
      BY <1>0, <1>g, <2>2 DEF Undisturbed, Inside
    <3>. QED BY <1>a, <1>c, <1>g, <2>2, <3>1 DEF Promise!Release
  <2>3. CASE lock /\ s \notin Inside
    <3>1. Inside = {}
      BY <2>3 DEF Exclusive, Within
    <3>. QED BY <1>c, <1>g, <2>3, <3>1, HolderOrphan DEF Promise!Clear
  <2>. QED BY <2>1, <2>2, <2>3
(* ... and one that ends whoever takes it.                                  *)
<1>h. ASSUME NEW s \in Sweep, Step(s) \/ Signal(s) \/ Kill(s), s \notin Inside',
             UNCHANGED <<src, lock, snapshot>>
      PROVE  Promise!Die(s) \/ UNCHANGED Promise!vars
  <2>1. Inside' = Inside \ {s}
    BY <1>0, <1>h, StepInside
  <2>2. CASE s \in Inside /\ lock
    <3>1. Inside' = {}
      BY <2>1, <2>2 DEF Exclusive, Within
    <3>. QED BY <1>a, <1>d, <1>h, <2>2, <3>1 DEF Promise!Die
  <2>3. CASE s \notin Inside \/ ~lock
    <3>1. \A t \in Inside : t # s => pc'[t] = pc[t]
      BY <1>0, <1>h, OthersKeep DEF Inside
    <3>2. CASE ~lock
      BY <1>c, <1>h, <3>2, HolderNobody DEF Promise!vars
    <3>3. CASE s \notin Inside
      <4>1. Inside' = Inside
        BY <2>1, <3>3
      <4>. QED BY <1>e, <1>h, <3>1, <3>3, <4>1
    <3>. QED BY <2>3, <3>2, <3>3
  <2>. QED BY <2>2, <2>3
<1>1. ASSUME NEW s \in Sweep,
             Measure(s) \/ Baseline(s) \/ Arm(s) \/ Enter(s) \/ Observe(s) \/ Leave(s)
      PROVE  UNCHANGED Promise!vars
  <2>1. Inside' = Inside /\ UNCHANGED <<src, lock, snapshot>>
    BY <1>0, <1>1 DEF Measure, Baseline, Arm, Enter, Observe, Leave, TypeOK, Inside
  <2>2. \A t \in Sweep : (pc'[t] = "locked") <=> (pc[t] = "locked")
    BY <1>0, <1>1 DEF Measure, Baseline, Arm, Enter, Observe, Leave, TypeOK
  <2>. QED BY <1>e, <2>1, <2>2 DEF Inside
<1>2. ASSUME NEW s \in Sweep, Snapshot(s) PROVE UNCHANGED Promise!vars
  <2>1. /\ pc' = [pc EXCEPT ![s] = "snapped"] /\ pc[s] = "locked"
        /\ snapshot' = [snapshot EXCEPT ![s] = src] /\ UNCHANGED <<src, lock>>
    BY <1>2 DEF Snapshot
  <2>2. Inside' = Inside
    BY <1>0, <2>1 DEF TypeOK, Inside
  <2>3. \A t \in Inside : t = s
    BY <2>1 DEF Exclusive, Within, Inside
  <2>. QED BY <1>0, <1>e, <2>1, <2>2, <2>3 DEF TypeOK
<1>3. ASSUME NEW s \in Sweep, Acquire(s) PROVE Promise!Acquire(s) \/ UNCHANGED Promise!vars
  <2>1. CASE lock
    <3>1. Inside' = Inside /\ UNCHANGED <<src, lock, snapshot>>
      BY <1>0, <1>3, <2>1 DEF Acquire, TypeOK, Inside
    <3>2. \A t \in Sweep : (pc'[t] = "locked") <=> (pc[t] = "locked")
      BY <1>0, <1>3, <2>1 DEF Acquire, TypeOK
    <3>. QED BY <1>e, <3>1, <3>2 DEF Inside
  <2>2. CASE ~lock
    <3>1. s \in Inside' /\ pc'[s] = "locked" /\ src' = src /\ lock'
      BY <1>0, <1>3, <2>2 DEF Acquire, TypeOK, Inside
    <3>. QED BY <1>b, <2>2, <3>1, HolderNobody DEF Promise!Acquire
  <2>. QED BY <2>1, <2>2
<1>4. ASSUME NEW s \in Sweep, Mutate(s) PROVE Promise!Mutate(s)
  <2>1. s \in Inside /\ s \in Inside' /\ pc[s] = "body" /\ pc'[s] = "observing"
        /\ snapshot' = snapshot /\ lock' = lock
    BY <1>0, <1>4 DEF Mutate, TypeOK, Inside
  <2>2. lock
    BY <1>0, <1>4, <2>1 DEF Mutate, Undisturbed, Unwritten
  <2>. QED BY <1>f, <2>1, <2>2
<1>5. ASSUME NEW s \in Sweep, Restore(s)
      PROVE  \/ Promise!Mutate(s) \/ Promise!Release(s) \/ Promise!Die(s) \/ Promise!Clear
             \/ UNCHANGED Promise!vars
  <2>1. CASE pc[s] = "restoring"
    <3>1. /\ pc' = [pc EXCEPT ![s] = "asserting"] /\ UNCHANGED <<snapshot, lock>>
          /\ src' = (IF restored[s] THEN src ELSE snapshot[s])
      BY <1>5, <2>1 DEF Restore, WriteBack
    <3>2. Inside' = Inside /\ s \in Inside /\ pc'[s] = "asserting"
      BY <1>0, <2>1, <3>1 DEF TypeOK, Inside
    <3>3. CASE lock
      BY <1>f, <2>1, <3>1, <3>2, <3>3
    <3>4. CASE ~lock
      <4>1. src' = src
        BY <1>0, <3>1, <3>2, <3>4 DEF Undisturbed
      <4>. QED BY <1>c, <3>1, <3>4, <4>1, HolderNobody DEF Promise!vars
    <3>. QED BY <3>3, <3>4
  <2>2. CASE pc[s] = "asserting"
    <3>1. UNCHANGED <<src, lock, snapshot>> /\ pc'[s] \in {"unlinking", "ended"}
      BY <1>0, <1>5, <2>2 DEF Restore, TypeOK
    <3>2. CASE pc'[s] = "ended"
      BY <1>5, <1>h, <3>1, <3>2 DEF Step, Inside
    <3>3. CASE pc'[s] = "unlinking"
      <4>1. \A t \in Sweep : t # s => pc'[t] = pc[t]
        BY <1>0, <1>5, OthersKeep DEF Step
      <4>2. Inside' = Inside
        BY <2>2, <3>3, <4>1 DEF Inside
      <4>. QED BY <1>e, <2>2, <3>1, <3>3, <4>1, <4>2 DEF Inside
    <3>. QED BY <3>1, <3>2, <3>3
  <2>3. CASE pc[s] = "unlinking"
    <3>1. ~lock' /\ src' = src /\ s \in Within /\ restored[s]
      BY <1>0, <1>5, <2>3 DEF Restore, Unlink, Within, Inside, Undisturbed, Written
    <3>. QED BY <1>g, <2>3, <3>1
  <2>4. CASE pc[s] = "disarming"
    <3>1. UNCHANGED <<src, lock, snapshot>> /\ pc'[s] = "ended"
      BY <1>0, <1>5, <2>4 DEF Restore, TypeOK
    <3>. QED BY <1>5, <1>h, <3>1 DEF Step, Inside
  <2>. QED BY <1>5, <2>1, <2>2, <2>3, <2>4 DEF Restore
<1>6. ASSUME NEW s \in Sweep, Handle(s)
      PROVE  \/ Promise!Mutate(s) \/ Promise!Release(s) \/ Promise!Die(s) \/ Promise!Clear
             \/ UNCHANGED Promise!vars
  <2>0. s \in Within /\ pc[s] \in Armed /\ Undisturbed(s) /\ snapshot' = snapshot
    BY <1>0, <1>6 DEF Handle, Handled, Within
  <2>1. CASE handler[s] = "restoring"
    <3>1. /\ UNCHANGED <<pc, snapshot, lock>>
          /\ src' = (IF restored[s] THEN src ELSE snapshot[s])
      BY <1>6, <2>1 DEF Handle, WriteBack
    <3>2. Inside' = Inside
      BY <3>1 DEF Inside
    <3>3. CASE s \in Inside /\ lock
      BY <1>f, <2>0, <3>1, <3>2, <3>3
    <3>4. CASE s \notin Inside \/ ~lock
      <4>1. src' = src
        BY <2>0, <3>1, <3>4 DEF Undisturbed, Written, Inside
      <4>. QED BY <1>e, <3>1, <3>2, <4>1
    <3>. QED BY <3>3, <3>4
  <2>2. CASE handler[s] = "unlinking"
    <3>1. ~lock' /\ src' = src /\ restored[s]
      BY <1>6, <2>0, <2>2 DEF Handle, Unlink, Undisturbed, Written
    <3>. QED BY <1>g, <2>0, <3>1
  <2>3. CASE handler[s] \in {"asserting", "exiting"}
    <3>1. UNCHANGED <<src, lock, snapshot>>
      BY <1>6, <2>3 DEF Handle
    <3>2. CASE s \notin Inside'
      BY <1>6, <1>h, <3>1, <3>2 DEF Step
    <3>3. CASE s \in Inside'
      <4>1. s \in Inside /\ pc'[s] # "locked"
        BY <1>0, <1>6, <2>0, <2>3, <3>3 DEF Handle, Raise, Inside, TypeOK
      <4>2. \A t \in Sweep : t # s => pc'[t] = pc[t]
        BY <1>0, <1>6, OthersKeep DEF Step
      <4>3. Inside' = Inside
        BY <3>3, <4>1, <4>2 DEF Inside
      <4>. QED BY <1>e, <2>0, <3>1, <4>1, <4>2, <4>3 DEF Inside
    <3>. QED BY <3>2, <3>3
  <2>. QED BY <1>6, <2>1, <2>2, <2>3 DEF Handle
<1>7. ASSUME NEW s \in Sweep, Signal(s) \/ Kill(s)
      PROVE  Promise!Die(s) \/ UNCHANGED Promise!vars
  <2>1. UNCHANGED <<src, lock, snapshot>> /\ pc'[s] \in {pc[s], "ended"}
    BY <1>0, <1>7 DEF Signal, Kill, TypeOK
  <2>2. CASE pc'[s] = "ended"
    BY <1>7, <1>h, <2>1, <2>2 DEF Inside
  <2>3. CASE pc'[s] = pc[s]
    <3>1. \A t \in Sweep : pc'[t] = pc[t]
      BY <1>0, <1>7, <2>3, OthersKeep
    <3>2. Inside' = Inside
      BY <3>1 DEF Inside
    <3>. QED BY <1>e, <2>1, <3>1, <3>2 DEF Inside
  <2>. QED BY <2>1, <2>2, <2>3
<1>8. CASE EditSource
  <2>1. ~lock /\ ~lock' /\ src' \in Source
    BY <1>0, <1>8 DEF EditSource, TypeOK
  <2>. QED BY <1>c, <2>1, HolderNobody DEF Promise!Next, Promise!Edit
<1>9. CASE RemoveLock
  <2>1. lock /\ Inside = {} /\ ~lock' /\ src' = src
    BY <1>9 DEF RemoveLock, Inside
  <2>. QED BY <1>c, <2>1, HolderOrphan DEF Promise!Next, Promise!Clear
<1>10. CASE UNCHANGED vars
  <2>1. Inside' = Inside /\ UNCHANGED <<src, lock, snapshot, pc>>
    BY <1>10 DEF vars, process, Inside
  <2>. QED BY <1>e, <2>1
<1>. QED BY <1>1, <1>2, <1>3, <1>4, <1>5, <1>6, <1>7, <1>8, <1>9, <1>10
         DEF Next, Step, Promise!Next

(* Nobody holds the source before anything has run.                         *)
LEMMA InitImplements == Init => Promise!Init
<1>. SUFFICES ASSUME Init PROVE Promise!Init
  OBVIOUS
<1>1. ~lock /\ src \in Source
  BY InitTypeOK DEF Init, TypeOK
<1>. QED BY <1>1, HolderNobody DEF Promise!Init

(* One sweep at a time has the source, and gives it back as it found it,    *)
(* whatever is started, signalled, edited or killed meanwhile, as long as   *)
(* the exclusion lasts ...                                                  *)
THEOREM ExclusionImplements == Spec /\ []Exclusive => GivesBack
<1>1. Safe /\ Safe' /\ Exclusive /\ Exclusive' /\ [Next]_vars
        => [Promise!Next]_(Promise!vars)
  BY StepImplements DEF Safe
<1>. QED BY <1>1, InitImplements, SafeWhileExclusive, PTL DEF Spec, GivesBack, Promise!Spec

(* ... hence throughout the calm.                                           *)
THEOREM Implements == Spec /\ []Calm => GivesBack
BY Exclusion, ExclusionImplements, PTL

-----------------------------------------------------------------------------
(* The calm never ends where only one sweep can be started, however often   *)
(* it is signalled: the way the tool is meant to be run.                    *)
THEOREM LoneSweep ==
  ASSUME \A s, t \in Sweep : s = t
  PROVE  Spec => [](ScoreIsTrue /\ MutantNeedsLock) /\ GivesBack
<1>1. Calm
  BY DEF Calm, Begun
<1>. QED BY <1>1, ScoresAreTrue, NoMutantOutsideLock, Implements, PTL

(* Nor where no signal arrives, however many sweeps are started.            *)
THEOREM SweepsWithoutSignals ==
  ASSUME Signals = 0
  PROVE  Spec => [](ScoreIsTrue /\ MutantNeedsLock) /\ GivesBack
<1>1. TypeOK /\ Handled => Calm
  BY DEF TypeOK, Handled, Calm
<1>2. Spec => []Handled
  <2>1. Init => Handled
    BY InitInv DEF Inv
  <2>. QED BY <2>1, StepHandled, TypeCorrect, PTL DEF Spec
<1>. QED BY <1>1, <1>2, TypeCorrect, ScoresAreTrue, NoMutantOutsideLock, Implements, PTL
=============================================================================
