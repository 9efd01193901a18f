------------------------------ MODULE MCReplay ------------------------------
(* Instances of ReplayNotes: what the gate makes of one replay of two      *)
(* entries, and what becomes of the outcomes of replays that overlap.      *)
EXTENDS ReplayNotes, TLC

(* Manifests, named for their replay blocks, over one artifact d; forged is*)
(* a bundle that verifies and is not the one registered.                   *)
Command(kind) == [kind |-> kind, absorbed |-> FALSE]
Absorbed(kind) == [kind |-> kind, absorbed |-> TRUE]

Reading(profiles, commands) ==
  [sound |-> TRUE, pins |-> [run |-> "d"], profiles |-> profiles,
   commands |-> <<Command("checkout")>> \o commands]

MCReads ==
  [certlab  |-> Reading({"certlab"}, <<Command("regrade")>>),
   silent   |-> Reading({"certlab"}, <<>>),
   absorbs  |-> Reading({"certlab"}, <<Absorbed("regrade")>>),
   board    |-> Reading({"compared"}, <<Command("emit"), Command("cmp")>>),
   evalmut  |-> Reading({"compared"}, <<Absorbed("emit"), Command("cmp")>>),
   shrug    |-> Reading({"compared"}, <<Command("emit"), Absorbed("cmp")>>),
   blind    |-> Reading({"compared"}, <<Command("emit")>>),
   both     |-> Reading({"certlab", "compared"}, <<Command("regrade"), Command("cmp")>>),
   variance |-> Reading({}, <<Command("emit"), Command("cmp")>>),
   unsound  |-> [Reading({}, <<>>) EXCEPT !.sound = FALSE],
   forged   |-> [Reading({}, <<>>) EXCEPT !.pins = [run |-> "e"]],
   small    |-> [Reading({"certlab"}, <<Command("regrade")>>) EXCEPT !.pins = <<>>]]

ASSUME StrictReads == StrictBlocks

MCBlob == DOMAIN MCReads \cup {"d", "e"}

Pins(man) == IF man = "small" THEN Manifest :> man ELSE Manifest :> man @@ ("run" :> "d")

(* registry.json of the gate instance: one entry whose block is any of     *)
(* them, and another.  Of the notes instance: one entry or two, with or    *)
(* without a pending one.                                                  *)
GateRegistry == {[pins |-> [a |-> Pins(man)], pending |-> FALSE] : man \in DOMAIN MCReads \ {"small"}}
                  \cup {[pins |-> [a |-> Pins("variance"), b |-> Pins("small")], pending |-> FALSE]}

NotesRegistry == {[pins |-> [a |-> Pins("small")], pending |-> p] : p \in BOOLEAN}
                   \cup {[pins |-> [a |-> Pins("small"), b |-> Pins("small")], pending |-> FALSE],
                         [pins |-> <<>>, pending |-> TRUE]}

MCRegistry == GateRegistry \cup NotesRegistry

AsPinned(reg) ==
  [name \in Name |-> IF name \in DOMAIN reg.pins THEN reg.pins[name] ELSE Pins("small")]

Start(reg, host_, issuer_, n, changes, accidents) ==
  [registry |-> reg, host |-> host_, issuer |-> issuer_,
   runs |-> n, changes |-> changes, accidents |-> accidents]

(* Every block against every behaviour of its issuer, with up to one change*)
(* of what is served or of the issuer at any moment.                       *)
GateInit ==
  \E reg \in GateRegistry, how \in Issuer :
    /\ ReplayInit(Start(reg, AsPinned(reg), [name \in Name |-> IF name = "a" THEN how ELSE "reproduces"],
                        1, Changes, Accidents))
    /\ NotesInit

(* Overlapping replays of a registry that is edited, whose issuer fails, or*)
(* whose machine does.                                                     *)
Sound == [name \in Name |-> "reproduces"]

FlowInit ==
  \E reg \in {reg \in NotesRegistry : ~reg.pending} :
    /\ \/ ReplayInit(Start(reg, AsPinned(reg), Sound, Runs, Changes, 0))
       \/ ReplayInit(Start(reg, AsPinned(reg), Sound, Runs, 0, Accidents))
    /\ NotesInit

MCInit == GateInit \/ FlowInit

Flowing == registry \in NotesRegistry

Midway(job) == job.pc \notin {"setup", "done"}

(* One job at a time in all runs, and in a run one after the other.        *)
Before == [pending |-> {}, matrix |-> {}, a |-> {"pending"}, b |-> {"pending", "a"}]

Quiet == \A r \in DOMAIN runs : \A name \in DOMAIN runs[r].jobs : ~Midway(runs[r].jobs[name])

InTurn ==
  \A r, s \in DOMAIN runs : \A m \in DOMAIN runs[r].jobs, n \in DOMAIN runs[s].jobs :
    /\ Midway(runs[r].jobs[m]) /\ Midway(runs[s].jobs[n]) => <<r, m>> = <<s, n>>
    /\ r = s /\ m \in Before[n] /\ runs[s].jobs[n].pc # "setup" => runs[r].jobs[m].pc = "done"

(* In the gate instance nobody reads the outcome, and what changes is what *)
(* is served of entry a (nothing, other bytes, another bundle) and its     *)
(* issuer.  In the other the registry and the issuer change, and the jobs, *)
(* whose steps do not touch each other or the notes, take turns with       *)
(* everything else.                                                        *)
MCNext ==
  /\ Next
  /\ ~Flowing => /\ registry' = registry /\ UNCHANGED notesVars /\ host'.b = host.b
                 /\ host' # host => Range(host'.a) \subseteq {Missing, "e", "forged"} \cup Range(host.a)
  /\ Flowing => /\ registry' \in NotesRegistry /\ host' = host
                /\ issuer'.b = issuer.b /\ issuer'.a \in {"reproduces", "gone"}
                /\ InTurn'
                /\ ~Quiet => UNCHANGED <<registry, issuer, notesVars>> /\ DOMAIN runs' = DOMAIN runs

MCSpec == MCInit /\ [][MCNext]_vars /\ Fairness
=============================================================================
