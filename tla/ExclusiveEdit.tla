--------------------------- MODULE ExclusiveEdit ----------------------------
(***************************************************************************)
(* What tools/mutation_sweep.py promises of the file it edits (the comment *)
(* above _sweep_transaction and its docstring): one sweep at a time has    *)
(* the file to itself, and gives it back as it found it.  A holder that    *)
(* dies leaves the file, and the isolation, behind for a person to clear.  *)
(***************************************************************************)
CONSTANTS Sweep, Content, Nobody, Orphan, Nothing

VARIABLES holder, content, saved

vars == <<holder, content, saved>>

Init == holder = Nobody /\ content \in Content /\ saved = Nothing

Acquire(s) == /\ holder = Nobody /\ holder' = s
              /\ saved' = content /\ UNCHANGED content

Mutate(s) == /\ holder = s
             /\ content' \in Content /\ UNCHANGED <<holder, saved>>

Release(s) == /\ holder = s /\ holder' = Nobody
              /\ content' = saved /\ saved' = Nothing

Die(s) == holder = s /\ holder' = Orphan /\ saved' = Nothing /\ UNCHANGED content

(* A person, once nobody is running: clears what a dead sweep left.        *)
Clear == holder = Orphan /\ holder' = Nobody /\ UNCHANGED <<content, saved>>

(* Anyone, while nobody holds it.                                          *)
Edit == holder = Nobody /\ content' \in Content /\ UNCHANGED <<holder, saved>>

Next == Clear \/ Edit \/ \E s \in Sweep : Acquire(s) \/ Mutate(s) \/ Release(s) \/ Die(s)

Spec == Init /\ [][Next]_vars
=============================================================================
