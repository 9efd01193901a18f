---------------------------- MODULE BundleFiles -----------------------------
(***************************************************************************)
(* A directory of files as vac/verify.py and vac/draft.py see it, and what *)
(* verify_bundle makes of it up to and with the closure over the artifacts.*)
(* BundleVerify has the phases from there on: whether they find anything   *)
(* in a manifest is "sound" here.                                          *)
(*                                                                         *)
(* A file is data, a link to data, or a manifest.  A digest is the text it *)
(* is the digest of.                                                       *)
(***************************************************************************)
EXTENDS JsonText, FiniteSets

CONSTANTS
  Path,      \* paths in a directory, as sequences of names
  Odd,       \* those _safe_relpath refuses
  Text,      \* texts a data file may have
  Judgment   \* fields of a manifest that are left to a person

Manifest == <<"vac.json">>
Field == Judgment \cup {"issuer", "issuer_commit"}

ASSUME FilesAssumption ==
  /\ IsFiniteSet(Path) /\ Path \subseteq Seq(STRING)
  /\ Manifest \in Path /\ Odd \subseteq Path \ {Manifest}
  /\ Text \subseteq Seq(Char)

Data(text) == [kind |-> "data", text |-> text]
Link(text) == [kind |-> "link", text |-> text]

With(files, p, content) ==
  [q \in DOMAIN files \cup {p} |-> IF q = p THEN content ELSE files[q]]
Without(files, p) == [q \in DOMAIN files \ {p} |-> files[q]]

(* Mutant: only claim is looked through.                                   *)
MarkersInClaim(man) == man.todo \cap {"limitations"}

(* _todo_failures: a marker in any string, however deep in the manifest.   *)
Markers(man) == man.todo

Links(files) == {p \in DOMAIN files : files[p].kind = "link"}

(* Mutant: is_file alone, which follows links.                             *)
NoLinks(files) == {p \in Links(files) : FALSE}

(* The links that _verify_artifacts names.                                 *)
NamedLinks(files) == Links(files)

(* _verify_artifacts, and then the reading, as JSON Lines, of each artifact*)
(* that can be trusted.                                                    *)
ArtifactFailures(files, man, stack) ==
  LET listed  == DOMAIN man.pins \ Odd
      links   == NamedLinks(files)
      there   == (listed \cap DOMAIN files) \ links
      trusted == {p \in there : files[p].text = man.pins[p]}
      read    == [p \in trusted |-> Reading(man.pins[p], TRUE, stack)]
  IN  {<<"schema-violation", p>> : p \in DOMAIN man.pins \cap Odd}
      \cup {<<"unsafe-bundle", p>> : p \in links}
      \cup {<<"missing-artifact", p>> : p \in listed \ (DOMAIN files \cup links)}
      \cup {<<"sha256-mismatch", p>> : p \in there \ trusted}
      \cup {<<"unlisted-file", p>> : p \in DOMAIN files \ (listed \cup links \cup {Manifest})}
      \cup {<<read[p], p>> : p \in {q \in trusted : read[q] # "value"}}

(* verify_bundle: reasons, each with its subject.  A draft is refused      *)
(* before anything else of it is looked at.                                *)
Failures(files, stack) ==
  IF Manifest \notin DOMAIN files THEN {<<"missing-manifest", Manifest>>}
  ELSE LET man == files[Manifest]
       IN  IF Reading(man.text, FALSE, stack) # "value" THEN {<<"invalid-json", Manifest>>}
           ELSE IF Markers(man) # {} THEN {<<"draft-incomplete", field>> : field \in Markers(man)}
           ELSE ArtifactFailures(files, man, stack)
                \cup (IF man.sound THEN {} ELSE {<<"unsound", Manifest>>})
=============================================================================
