# A verification of vac-protocol

vac-protocol lets an issuer publish a *bundle*: a directory with a manifest
(`vac.json`), the evidence it pins by sha256, and checks from which every
headline number can be recomputed. The repository holds a structural verifier,
a registry of bundles that passed it, a page that shows the registry, a weekly
replay, and a mutation test that edits the verifier to see whether its tests
notice. This directory models those parts in TLA+, checks them with TLC on small
instances, and proves what matters most for every instance with TLAPS.

## 1. The system

| part | state | operations | what makes it correct |
|---|---|---|---|
| structural verifier (`vac/verify.py`) | none kept; one run carries the failures, the hash-verified paths, the pools and the scopes from phase to phase | read manifest, refuse a draft, `_validate_manifest`, `_verify_artifacts`, `_coherence`, `_summary_outruns` | it fails closed; a clean verdict means closure, recomputation and bound numbers; an honest bundle gets one; whatever is wrong is named |
| evidence profiles (`verify.py` 389-1797) | none | seven `_check_*` functions, each giving reasons and a pool or None | each recomputes what its board declares |
| JSON reading (`verify.py` 60-170) | none | depth scan, parse | the verdict does not depend on the host's stack |
| archive intake, command line (`verify.py` 2025-2161) | a temporary directory | vet members, extract, find the root, report | nothing is written before everything is vetted; nothing rides along; a directory and its archive get one answer |
| draft tool (`vac/draft.py`) | `vac.json` | git facts, hash the closure, write TODO markers | never overwrites authored judgement; a draft is never accepted |
| registry (`vac/registry.py`) | `registry.json`; during a scan the pin, the listing and a temporary directory | scan, check-fetched, fetch-bundle, matrix, list-pending | pins name what was read; nothing unpushed is registered; the file is a function of the committed trees |
| pages workflow (`pages.yml`) | the deployed page; runs under way | verify job, deploy job | the page shows only what is provable from the pinned URLs, and comes to show it |
| replay workflow (`replay.yml`) | conclusions of a run | fetch, verify, run the replay block, transcript predicates | no entry is green that was not replayed |
| replay notes (`notes/emit_findings.py`, `notes.yml`) | `baseline.json`, `findings.json` on main and in two checkouts | compare, write a finding, acknowledge, rebase and push | what is reported was concluded; a standing change is reported |
| mutation sweep (`tools/mutation_sweep.py`) | `vac/verify.py` itself, `.mutation_sweep.lock`, signal handlers | measure, lock, snapshot, mutate, observe, restore | exclusive, byte-identical restore, true scores |
| obligation ledger tools (`tools/build_obligations.py`, `check_obligations.py`, `ledger_sources.py`) | `obligations.json` | build, check | the ledger is what the sources say |
| measurement tools, fixtures, `index.html`, CI, paper | none of their own | one-shot reports, test data, rendering | - |

How they interact. The registry calls the verifier on directories it has
materialized from git objects or from fetched files. The page is deployed from
the commit whose `registry.json` the check-fetched job regenerated. Replay fetches
each entry through the registry, and notes read replay's conclusions an hour
later. Maintainers edit `registry.json` by hand where SPEC section 6 asks them to
(challenges). Issuers, in repositories of their own, commit, push and rewrite
meanwhile. The sweep edits the verifier's source in place, with a lock file as
the only isolation.

Hard behaviours. Phases that skip in silence because an earlier phase has named
the cause; a scan that reads HEAD once per git call while the issuer works in the
same checkout; workflow runs without a concurrency group; a file that is both
generated and hand-edited; a transaction over a source file with signal handlers
that run the same restore as the `finally` clause; a draft put together from a live
directory while its author works in it; an archive read under two path flavours and written
under one; replays that overlap; one finding file that a workflow and a person push past
each other. Each is a hazard with its line in `PROJECT.json`.

## 2. Modules

| module | models | proofs |
|---|---|---|
| `BundleVerify` | `verify_bundle`, and an issuer who resubmits a cut-down bundle | `BundleVerifyProofs` |
| `Registry` | the scan, `check_fetched`, the pages runs; issuers and maintainers around them | `RegistryProofs` |
| `ExclusiveEdit` | abstract: one holder at a time edits a content and gives it back | |
| `MutationSweep` | the sweep's transaction, refined to `ExclusiveEdit` | `MutationSweepProofs` |
| `JsonText` | the depth count before parsing, and the parser (external) it must agree with | `JsonTextProofs` |
| `BundleFiles` | a directory of files, and what `verify_bundle` makes of it up to the closure | `SubmissionProofs` |
| `Draft` | the draft tool, step by step, and a person who edits, commits and fills in | `SubmissionProofs` |
| `Intake` | `main` on a directory or an archive: vetting, extraction, the bundle root, the exit code | `SubmissionProofs` |
| `Submission` | composes `Draft` and `Intake`, with `tar` in between | `SubmissionProofs` |
| `Replay` | `replay.yml`'s runs and their jobs, with `fetch_bundle` and the matrix; hosts and issuers around them | `ReplayProofs` |
| `ReplayNotes` | composes `Replay` with the notes job, the person and the finding's reader | `ReplayProofs` |
| `Certlab`, `FleetBoard`, `EvalmutRun`, `CrashkitReports`, `RowsAggregate`, `ModelDrift` | the seven profile functions, as operators; `ProfileResult` has what they share | `ProfilesProofs` |
| `IssuerTools`, `IssuerEdits` | external: what issuing tools write from measurements, and what an issuer changes afterwards | `ProfilesProofs` |
| `Profiles` | a submission that is judged, edited and judged again | `ProfilesProofs` |
| `Induction` | no part of the program: a least and a greatest element, and from them what a fold, a sum, a count or an extreme over rows is | itself |
| `MCBundleVerify`, `MCRegistry`, `MCMutationSweep`, `MCProfiles`, `MCSubmission`, `MCReplay` | the instances TLC checks | |

### BundleVerify

`bundle` is the submitted directory and manifest, cut down to what the phases
tell apart: which rules of the schema are broken, the evidence list, the checks
with the references they hold under each key, the leaves of the summary, and the
content of each file. A digest is the content it is the digest of. What a
profile's own function makes of the bytes it is handed is the constant operator
`Recompute`: reasons, and a pool of fields and values or `NoPool`; it may give
both, as the real functions do when a declared value disagrees. `pc` is the phase,
and `failures`, `trusted`, `complete`, `pooled`, `scopes` are `verify_bundle`'s
and `_coherence`'s local variables. A reason is a code and its subject, without
its wording.

Actions: `RefuseOutright` (no manifest, no JSON object, a draft),
`ValidateManifest`, `VerifyArtifacts`, `CheckStep` (one turn of the loop over the
checks: `SkipCheck`, `SkipUnusable` or `RunCheck`), `Finish` (coverage, then the
summary, over a complete pool only). `pc = "raised"` is an exception leaving
`verify_bundle`. `DeleteCheck`, `DropEvidence` and `Resubmit` are an issuer
who cuts an accepted bundle down by one check and then by evidence that only this
check mentioned, the move SPEC 2.5 is about.

### Profiles

A submission is a check, the parsed content of the files it refers to, and the two
fields of `protocol` that profiles read. `Judge` is the call through `_CHECK_FNS`: one of
`CheckCertlab`, `CheckFleet`, `CheckEvalmut`, `CheckCrashkit`, `CheckVariance`,
`CheckRows`, `CheckModelDrift`, each the whole function with its early returns, giving
reasons and a pool or `None`. `TypeOK` has the contract that `BundleVerify` relies on, that a function
without a pool has named a reason. `Edit` changes one datum that the profile binds to another: a number, a row, a
stamp, a flag, an optional file. `Restate` says the same otherwise, once and before any edit: nulls are left
out or written, an object gets a key of the issuer's own. The verifier compares by `dict.get` and at the keys it
recomputed, so it takes such a submission.

The reference is `IssuerTools`: what a tool that prints as it goes would have counted
over the same measurements, in one pass and by other formulas (a flip is noted
when it is read, a board is the sum of its entries, outages are dropped before
anything else is computed). `Citable` are the numbers it would put in a summary, and `Reissued`
says that the artifacts hold what it would have written, as far as `dict.get` can tell: `Alike` takes a null and an absent key for
one, and so does `Within`, which also allows no keys but the tool's, as the verifier asks of standings and flips.

The abstractions: a digest is the content it is the digest of; text files are the
numbers a regular expression finds in them, the published table is what each of
its lines shows, the narrative a sequence over the characters that matter to tags and white
space; numbers are integers in units (ten-thousandths, tenths, 1/2520 for quotients that
are not rounded), rounded half to even as `round` does for ties it sees exactly; the lists
of flips are compared without their order; of several wrong lines of a recipe it is
left open which is named. `Raised` in place of a pool is an
exception that leaves the function. Left out are the spread of a last observed point (verify.py:1111), which
is compared like the other fields beside it, and a recipe that rounds to a number of places other than 0, which
counts as a bad recipe here (verify.py:1487-1488 takes any integer).

### Registry

One action per git call of `scan_issuer`, because each call names `HEAD` again:
`Resolve` (rev-parse), `Contains` (branch -r --contains), `List` (ls-tree),
`ReadBlob` (cat-file, once per file), then `Judge` (`_entry`), and `Write` when
the last issuer is done. `ScanFails` is any git call that fails: nothing is
written. A pages run is `Trigger` (checkout, the mutable-ref rule), `CheckEntry`
or `FetchFails` for each entry, `EndCheck`, `Deploy`. Runs overlap: `pages.yml` has no
concurrency group. Issuers (`MoveHead`, `Push`, `Vanish`) and maintainers
(`HandEdit`, `CommitFile`) are external. `Verifies` is the verifier's verdict on a
directory, as `BundleVerify`'s `AcceptedIsClosed` describes it: a sound manifest and
exactly the pinned files.

### MutationSweep and ExclusiveEdit

A sweep is a process: `Measure`, `Baseline`, `Acquire`, `Snapshot`, `Arm`, `Enter`,
then `Mutate` and `Observe` for each site, `Leave`, and the steps of `Restore`.
Between any two of them `Signal` may start `Handle`, the handler, which runs
the same restore in the process's stead, and whose exception (`Raise`) meets the
`finally` clause if it was raised inside the `try`. A second signal interrupts a
handler that is running. `Kill` ends a process without any of this. `EditSource`
and `RemoveLock` are people, who touch the source only while no lock is there and
the lock only when no sweep runs, as the ABORT message asks.

`ExclusiveEdit` is the promise: `Acquire`, `Mutate`, `Release` (the content is what
was saved), `Die`, `Clear`, `Edit`. `GivesBack` is the refinement: the holder is
whoever is between taking the lock and unlinking it, or an orphan when there is a
lock and no such process; what is saved is the content at `Acquire`.

### Submission: JsonText, BundleFiles, Draft, Intake

`dir` is the issuer's directory: data files, links and the manifest, by path. A
digest is the text it is the digest of; a text is a sequence over the characters
that matter to nesting, strings and lines. A manifest is its text, its pins, the commit it
names, the fields that are still markers (`todo`), and `sound`: whether the phases
that `BundleVerify` models would find nothing in it. `Failures` is `verify_bundle`
up to there.

`Draft` has one action for each thing the tool asks of the world: `StartDraft` (the
refusals, then the walk), `HashFile` for each file, `AskHead`, `AskStatus`,
`WriteDraft`. Between any two of them `Put`, `Delete`, `Commit` and `WriteManifest`, a
`vac.json` written by hand, may happen; `untouched` remembers whether any did, and `overtaken` that
it was the last. `Author` replaces one marker. `authored` is a
history variable: the fields a person has filled in.

`Intake`: `StartIntake`, `Vet` (all members under both path flavours), `ExtractMember`
one at a time as `tarfile` does, `Judge` (the check for what lies beside the bundle,
`_bundle_root`, `verify_bundle`, `_report`); `RefuseArchive` is the `except` clause of
`main`, `ReadShort` an archive that ends early. `host` is the platform: its path
flavour, whether `tarfile` knows `filter=`, and how deep its stack carries the parser.
`Submission` adds `Pack`, a tar of the directory from inside it or from above.

The abstractions: commas, numbers and names inside JSON are left out, so values inside
brackets just follow one another; a digest that is not hexadecimal belongs to `BundleVerify`;
the remote and the status are asked in one step, the remote never changing; hashing
a file and reading it back for a profile see the same bytes.

### Replay and ReplayNotes

A run is the commit it was started on, whether its matrix is there, and a job per
entry beside the one for pending entries. A job goes through `Setup`, `FetchArtifact` for
each artifact, `FetchEnds`, `Verify`, `Replay`, `ApplyPredicates`; the pending job
through `Setup` and `ListPending`. Jobs of a run and runs interleave, since
`replay.yml` names no concurrency group and `fail-fast` is off. A replay block is a
sequence of commands of four kinds (checkout, regrade, emit, cmp), any of them
absorbed (`|| true`) or not. What a command does against the issuer's commit is
external: the issuer `reproduces`, `diverges`, `refuses` or is `gone`. A transcript
is the set of phrases the predicates look for. `Publish`, `Serve` and `Regrade`
are the world between two steps; `accidents` are machines that fail.

`ReplayNotes` gives each of the two writers a `desk`, its checkout: `Checkout`, `Emit`
(`emit_findings.emit`, with `--acknowledge` for the person), `Push`, and `PullRebase`, up to
three attempts. `Latest` is the last created of the completed runs. `Report` is the
reader, of which only what `emit_findings.py` says is used: a `run_key` it has seen is
dropped, and the `run_key` is the outcome. Left out are the limit of ten runs (emit_findings.py:54; there
are never more here), conclusions other than success and failure, and a finding's run id and time.

## 3. What TLC checks

| run | question | bounds |
|---|---|---|
| `BundleVerify` | is every clean verdict earned, is every honest bundle given one, is what is wrong named whatever failed before it, does deleting a check cost something | four paths, five contents, two evidence entries, two checks, one or two summary leaves; every combination in five families |
| `BundleVerifyMention` (violation) | is every accepted artifact read by a check | same |
| `BundleVerifyMisshapen` (violation) | does every bundle end in named reasons | the misshapen `results` and `results.checks` |
| `Profiles` | what may be cited, what is accepted, and what an edit costs, over all seven profiles | at most three rows (two certlab verdicts, two variance tasks), histories of at most four points for two varying models of five, all narratives of five characters out of four; two edits of small submissions, one of the others; one restatement, before any edit |
| `RegistryScan` | what the scan writes, while nobody moves a HEAD during it | two issuers, two directories, four trees; one of the issuers a glob and with a remote, the other neither |
| `RegistryPages` | what the page may show, and does it come to show a standing registry, while runs overlap, HEAD moves mid-scan, fetches fail and `registry.json` is edited by hand | one issuer, one directory, three trees, two runs, one mishap (a HEAD move, a lost commit or a failing fetch), one hand edit, two commits |
| `RegistryStray` (violation) | does the pinned commit's directory verify | one issuer, two commits that differ by a stray file |
| `RegistryDead` (violation) | does a dead entry stay visible | one issuer, one mark |
| `Sweeps` | is a sweep exclusive, does it score what it mutated and give the source back, does it end without its lock | three sweeps and a kill; two sweeps, an edit and a kill; one sweep, two signals and two edits; two sites (one caught, one surviving), two texts |
| `SweepsRace` (violation) | can sweeps leave a mutant behind without any kill | three sweeps, one signal |
| `Submission` | can a draft pass, destroy or misstate; does a directory get one answer; what may an archive write, and what may ride along; does a verdict depend on the host | directories of up to three files, one edit, one commit; every directory of three places by four contents and every set of pins; every archive of two or three out of eighteen members on four hosts; every text of four characters, and of six out of the four that nest |
| `Replay` | is green earned, is what is reported concluded, does a standing change come to be reported | eleven replay blocks and a pair by four issuers, with one change and one accident at any moment; two overlapping replays of one or two entries, one change or one accident, one acknowledgement |

Why the bounds are enough. The verifier treats evidence entries in pairs at most
(duplicates), checks in pairs at most (colliding scopes, deletion), and summary
leaves one by one; two of each, over contents that differ in one value and share
another, meet every branch. A profile treats rows one at a time, or in pairs (duplicates, one group
against another), and the third row makes thirds and unequal groups; the corners are
in the families: no rows, all failed, no weight, nothing graded, ties, a failure mode named
like a field, an outage that is the first, the middle, the last or the only point. A scan treats directories one at a time and carries
only the temporary directory and the records over, so two directories and two
issuers show anything carried over wrongly. Two pages runs are what an overlap
needs. Two sweeps conflict, and a third is what it takes to profit from a lock
that was taken away. A person's edit, a kill and a signal each appear at least
once where everything else interleaves with it, and the second signal
of the lone sweep is the one that lands inside a handler. Symmetry is used
only over sweeps, in `SweepsRace`, which checks an invariant only. A draft is about files one
at a time and one commit; two files and one change tell apart what was seen before and after
it. Vetting is member by member and a collision needs two, so three members meet every
rule, with a directory around them. A limit of one level and stacks of one, two and nine make every side of
the depth count short. Jobs share nothing but the registry and the issuer, so one entry
under every block and two in overlapping runs suffice.

Two modules restrict `Next` for the sake of size, and say so at `MCNext`. `MCSubmission`
packs only drafts as written and manifests without markers, and lets nothing else happen between
the first marker that is replaced and the last. `MCReplay` lets jobs, which do not touch
each other's state, take turns with each other and with everything else when it is the notes
that are looked at (a run is seen under way between its jobs), and changes
only entry `a` when it is the gate.

`EditCosts` and `HonestIsClean` speak of submissions nobody restated: a key of the issuer's own may be edited for nothing.

Deadlock is not checked where the program stops: a verdict has been returned,
the sweeps or replays have ended, the bounded inputs are spent.

Fairness. A scan that has started goes on, and
pages runs are started again and again, because `pages.yml` has a daily schedule;
each runs to its end. A sweep that has started runs on. `notes.yml` and its reader
run weekly; a replay is not owed, nor is its end. Nothing obliges an issuer to push, a maintainer to edit or commit, a
person to clear a lock or acknowledge a finding, the network to fail or work.
`PageConverges` therefore assumes what it needs: that the registry stays earned,
unchallenged and served, and, by the bound `Moves`, that fetches do not fail
for ever.

## 4. What is proved

Every theorem holds for all values of the constants that satisfy the named
assumptions, which say what the constants are (`NamesAssumption`,
`RecomputeAssumption`, `RegistryAssumption`, `SweepAssumption`, `MaxDepthAssumption`,
`FilesAssumption`, `DraftAssumption`, `IntakeAssumption`, `NameAssumption`,
`ReplayAssumption`, `NotesAssumption`, and for the profiles `ValuesAssumption`,
`SeverityAssumption`, `RecipeAssumption`, `OpTypeAssumption`: `None` and its like are no
numbers, flags, severities, operations or op_types), and one, `ObjectAssumption`, that what
`json.dumps` writes for a draft is read on every host. The verifier's theorems assume nothing
of what profiles recompute, of how many issuers, sites, sweeps, runs or entries there are, or of
how many files, archive members, edits or commits.

Some theorems need more, and say so in their statement: `QuietScan` (nobody moves a HEAD
during a scan), no hand edit of a kind that is named, `Standing` (paths are those a
file system can have, and the directory is not called `..`), `StrictBlocks` (no
replay block absorbs its checkout, or both its emit and its `cmp`), what keeps sweeps
apart (`Calm`, `Exclusive`, one sweep, or `Signals = 0`), `AsMeasured` of
what is first submitted, and that JSON's null is no set of pairs and no object
(`NoneIsNoPool`, `NoneIsNoObject`: `None` is a constant the code never takes for either, as a
model value is not for TLC). The instances that
TLC checks satisfy `Standing`, `StrictBlocks` and `AsMeasured`, which `MCSubmission`, `MCReplay` and
`MCProfiles` have TLC evaluate, and `RegistryScan` is quiet.

**The verifier** (`BundleVerifyProofs`). The inductive invariant `IInv` says what each
phase may rely on. `PhaseInv`: after a phase, all it should have named is in
`failures`, and `trusted` is what hashed to its pin. `LoopInv`: as long as
`complete` holds every check so far is pooled; as long as nothing is named every
check so far has contributed; the scopes are distinct. `IncompleteIsNamed` alone is not
inductive: at `SkipCheck` nothing is named, and only `PhaseInv` tells that
`_validate_manifest` did. The lemmas `SkippedCheckIsNamed` and `GapIsNamed` are that
argument. From `IInv` follow `FailsClosed`, `AcceptedClosed`, `AcceptedRecomputed`,
`AcceptedSummaryEarned`, through the distinctness of scopes, and `KnownKeysHeld`.
`AllIsNamed` is that reasons hide no reasons: `LoopNamed` says that what the loop has turned to is named,
`TurnIsNamed` that each way out of a turn names what its own check earns, and that `complete`, once lost, costs the
summary only.
`HonestAccepted` is the other direction. `HonestInv` says that nothing has been named of an
honest bundle, that nothing raised on it and that the checks so far are exactly the pooled ones; it is inductive
relative to `IInv`, and each phase gets a lemma on why it finds nothing (`HonestIsClosed`,
`HonestIsEarned`). `DeletedChecksCost` joins two submissions: `ScopeIsGone` says that no check of the
bundle that is submitted again has the scope of the deleted one, which only the distinctness of
scopes at the moment of acceptance gives, and `AcceptedSummaryIsEarned` does the rest.

**The registry** (`RegistryProofs`). `PageEarned` holds with no assumption on who moves
what. `Earned` is a statement about a commit's tree, so what a run
established for an entry cannot be undone before the deploy: `RunInv` says that the
entries already checked are earned, and that a run at its deploy step has only
earned ones. `PinnedPushed` lets HEADs move too: the sha that was asked about is the one that
is written (`PushedInv`), and a remote branch that a clone has once tracked stays in `tracked`; a hand that
re-pins is all that can break it. `PinnedRead` needs a quiet scan and no hand that re-pins an entry or
drops a file of one: `ScanInv` says that the pin
is HEAD, the listing is that commit's, and the temporary directory holds only
bytes of the directory being materialized. `RegistryStray` shows what
happens without the first assumption. `Mechanical` is under a quiet scan: `MechanicalInv` describes `found` after
each directory as a function of the heads and of the directories judged so far, in whatever order the
scan took them and however often an issuer is configured, so that what is written is
`RegistryOfHeads`, whatever the file said before.

**The sweep** (`MutationSweepProofs`), with any number of sweeps, signals, kills and edits. A handler
unlinks the lock while its sweep is still inside the `try`, so "who is inside has the lock" is no invariant
once there are signals. `Undisturbed` is: who is inside has the lock, or has written back for good
(`restored`), and while it has both the source is its snapshot; a mutant is in the file only between the two.
`StepImplements` and the preservation of `Inv` need one thing of the environment, `Exclusive`: no two sweeps within, a
sweep in its handler counting as within. That is `ExclusionSuffices` and
`ExclusionImplements`, which hold of any execution that keeps sweeps apart. What keeps them apart is `Calm`: nobody was signalled
yet, or only one sweep was ever started (`Exclusion`). A lone sweep's second unlink removes nobody's
lock but its own, and handlers that interrupt each other write the same bytes. `Calm`
never comes back once it is lost, so what is guarded by it can be shown step by step; it holds in every
state that `MCMutationSweep` lets TLC reach in `Sweeps`. `ScoresAreTrue`, `NoMutantOutsideLock`, `RestoresWhileCalm` and
`Implements` follow, and without any guard for a single sweep (`LoneSweep`) and for sweeps
nobody signals (`SweepsWithoutSignals`). Beyond `Calm` the exclusion is false, which `SweepsRace` shows: several sweeps, one of
them signalled.

**JSON reading** (`JsonTextProofs`), for texts of any length. `_nesting_exceeds` counts brackets and
never parses; `DepthDecides` says that it refuses a text that parses exactly when the text, or one of its
lines, is nested deeper than the limit, and `HostsAgree` that stacks of any two depths from the limit
up make the same of any text, well formed or not. Both operators are folds over the text. A fold is the value of a function that is
chosen by its equation, so it is first shown to be the last of a sequence of states
(`Induction` gives the least counterexample that stands in for an induction rule); then an
invariant relates the count's state to the parser's after each character, as long as the parser has not failed.
A parser that has failed is stuck, which is why nothing is claimed of the count on such a text.

**The submission** (`SubmissionProofs`), from any directory, repository, archive and host. `Inv`
is `TypeOK` and five parts. `Guarded`: while a draft is under way there is no manifest, unless one was
written by hand meanwhile, and where a person has written there is one. With it `AuthoredSurvives` follows
(`AuthoredIsKept`); alone it would not, since `WriteDraft` looks at nothing. `Accurate`: until somebody touches the
directory, what is still to be hashed and what is pinned are together the artifacts, the pins are
the texts, the commit is HEAD and the warning is about the tree. From it follow
`DraftsPinTheClosure` and `UnwarnedCommitted`. `Marked`: what nobody has filled in is still a
marker in a text that reads; `Answered`: an outcome is `Failures` of its files. Together they
give `DraftsAreRefused`. `Vetted`: whatever has been written was vetted, and nothing has
left the destination, because a member that is safe under both readings of its name stays inside
under either; hence `VetsFirst`. `TypeCorrect` needs that `tar` makes an archive
(`PackedIsArchive`), and also shows that no path becomes a file and a directory at once where members collide.

`NothingRidesAlong` adds `Extracted`: the files in the temporary directory are those of the members read so
far, so that what lies beside the bundle root is what `Judge` looks for. `TarIsTheDirectory`
follows a tar of the directory through the extraction: `Repacked` says that no member
is refused, that none has changed a byte, and that when the last one is out the root is found and holds the
directory. It needs `Standing`: a directory called `..`, or a path that is odd only with the
directory's name before it, would be refused as an archive alone.
`HostsGiveTheSameVerdict` and `DepthDecidesTheVerdict` lift the two theorems on texts to
verdicts (`Readable`: what is judged are texts, and its reasons are this host's).

**Replay and its notes** (`ReplayProofs`), for any registry, blocks, issuers, hosts and number of
overlapping runs. `Knows` says of each step of a job what it may rely on: that what was fetched has the bytes
of the registry at the run's own commit, that it verified, that the transcript is that of the
block up to its first failure that was not absorbed. Since no other actor writes a job's state, and runs
read pins at their commit and not on main, `GreenGated` follows with no further
assumption: green is exactly what the gate's steps say. That green also means *reproduced* is
`GreenEarned`, and that needs `StrictBlocks`: a block that absorbs both its emit and its
`cmp` is green though the issuer refused it (section 5). `ConclusionsKept`: a completed run's conclusions never
change, so a desk that read them an hour ago read what they are. With it
`ReportsWereConcluded` follows: what is on main, on either desk or reported is the outcome of a completed run
(`NotesInv`), whatever is rebased over what.

**The profiles** (`ProfilesProofs`), for boards of any size and any number of edits. The verifier groups: it takes the
set of rows of which something holds, and counts or sums it. A tool reads on and adds. Both are
folds, and a fold is a function chosen by its equation, so `Induction` first shows that there is a
sum for every finite set (`SumsExist`), that whatever builds up in the same way agrees with it (`FoldsAgree`),
and that the least and the greatest are where any order leaves them (`BestOfIsBest`). Then each profile has
its lemma (`CertlabRecounted` to `FleetRecounted`): a battery's shares are of weights that skip what was
not graded, a variance's mean of means is the tool's mean, a fleet's board and suites are the sums of what its members
gathered (`EntriesGathered`, `EntriesSummed`), an evalmut hole is one of three outcomes that exclude
each other. The invariant is that a verdict is that of the submission, and that the submission is `AsMeasured`:
rows are a list, flags are flags, a cell said to be a number holds one, a catalog that parses is a list
(`CatalogRead`), and a board whose seven files all parse has lists of points, tasks and models with a day in each point
(`BoardRead`, which `_check_modeldrift` itself looks at before anything else). `EditedAsMeasured` shows that no edit loses this,
one lemma for each profile, so it is asked only of what the tools wrote first. From it follow `PoolsAreRecounts`, whatever
the artifact declares, and, through the reasons that are not there, `AcceptedNumbersAreCounted`.
Declared numbers are a matter of five profiles: a variance report declares none, a fleet's are grouped by row.

`AcceptedIsReissued` goes the other way, for all seven profiles: an empty list of reasons is turned into what was compared
(`BatteryAgrees`, `ReportAgrees`, `FleetAgrees`, `BoardAgrees`), and that into what the tool writes. A profile
looks up the keys it recomputes, so agreement is `Alike`, and where it also refuses further keys, `Within`. Nothing is
assumed of what is declared: a null left out, a null written and a key of the issuer's own are all submitted
(`RestatedAsMeasured`), accepted, and covered by the theorem. The rows of a fleet are each of the board's once (`FleetReissued`: as
many as distinct keys, and no key missing), evalmut's holes are those the tool lists by outcome
(`HolesKept`), a standings row says what the series has when outages were set aside before (`LatestIs`, `BoardIs`),
and the narrative's text is what no tag covers: `StripFrom` reads on from tag to tag, the tool says for each character whether a tag is
around it (`NextIs`, `TagAhead`, `StripLeaves`, `TextIs`).

A model-drift board has lemmas of its own, since its numbers are of series from which points were left out. `Kept` is a list at some of its
places; `KeptIs` and `KeptAll` say what it holds and in which order, and everything else is read off it. `FlipsAreNoted`: the
turns counted between neighbouring recorded points are those a tool notes as it reads on, with the same last
day and direction (an induction along the series, through `Induction`). `QualifyingIsMeasured`: where points are coherent, those that count
are those the tool had set aside first. `DriftRecounted` puts the two together, `DriftWhole` says that each
of its numbers is one. `OutagesMoveNothing` compares a board with itself without its outages (`WithoutOutages`):
such a board is answered too (`OutageAnswered`, since days still rise where points were left out), keeping
twice is keeping once (`KeptQualify`), and so verdicts (`VerdictsUnmoved`), flips and alarms are the same.

The contract that `BundleVerify` relies on is `ContractKept`: profile by profile, every way out of the function either carries
a pool, which is a set of pairs and so not `None`, or a reason, or it raises. `VerdictsKeepTheirType` adds that what may be cited is a number,
over quotients, rounding, weights and the least and greatest of a column.

**Only model-checked.** Liveness (`PageConverges`, `ArmedIsReleased`,
`StandingChangeIsReported`), which the prover does not reach: the fairness of an action is about
`ENABLED`. Of `Profiles`, `HonestIsClean` and `EditCosts`, which are about the submissions `MCProfiles` makes: that
the tools' output is accepted would need their formats as hypotheses, one for each guard of the verifier.
No theorem of the library that takes an
operator can be used; where an induction over numbers was needed, it goes through
`Induction`.

## 5. Where the code and its documents disagree

Five runs end in the violation they announce; `PROJECT.json` quotes both sides.

1. `BundleVerifyMention`: evidence counts as covered when any key of a check
   mentions it, a key no profile reads included.
2. `BundleVerifyMisshapen`: a `results` or `results.checks` of another JSON type
   raises out of `verify_bundle`. Profiles have the same weakness in three places that
   no run is spent on: an unhashable severity of a variance row (verify.py:1342), an
   unhashable `case_name` when a corpus is named (verify.py:767), an integer too large
   for a float (verify.py:1426). The comment at verify.py:940-942 asks for a named
   refusal of the first kind. `CheckVariance` and `CheckEvalmut` give `Raised` there;
   the third is not modelled, numbers being small.
3. `RegistryStray`: HEAD is read several times in one scan, so an entry may be
   pinned to a commit whose directory does not verify, and still pass the gate.
4. `RegistryDead`: a hand-marked entry blocks every deploy and is erased by the
   next scan, so a dead entry is never visible.
5. `SweepsRace`: the `finally` clause unlinks the lock a second time after the
   handler did, and by then it may be another sweep's. The theorem `RestoresWhileCalm`
   says where the docstring is right: until a signal meets several sweeps.

Met while modelling, in the models as the code has it, with no run spent on them:

- A compressed archive that was cut short raises `EOFError`, which `main` does not
  catch (verify.py:2149): exit 1 with a traceback and no named reason, against the
  docstring at verify.py:21-22. `ReadShort` has it.
- emit_findings.py:161-162 says a standing failure is reported once and its recovery
  once. A recovery to the baseline is "unchanged" and writes nothing, and an outcome that
  recurs has the `run_key` of its first time.
- draft.py:96-97 says a draft lists exactly the closure the verifier will demand. It lists
  links and names with a backslash or a drive as well, which the verifier always
  refuses; `DraftIsTheClosure` leaves such paths out of account.
- The predicates of replay.yml are titled "every byte-compare ran AND succeeded". One `cmp`
  is enough, and one that cannot open its file and is absorbed prints no `differ`: a block
  with both its emit and its `cmp` absorbed is green without a comparison. The
  replay blocks of `MCReplay` do not include that one.
- draft.py:215-217 refuses to draft over a manifest since that "would destroy authored judgment". It asks
  before it hashes and writes at the end (draft.py:214, :240), so a manifest written by hand in between is
  overwritten. `WriteManifest` writes one at any moment; `AuthoredSurvives` holds of every other case.
- SPEC 482 and 543-544 ask that `per_kind` and the standings agree "key for key". The code compares by `dict.get`
  (verify.py:995, :1691), so a standings row may leave out a key whose recount is null (the `delta` of a model's first
  point), and `per_kind` may give null for a kind nobody has. `Restate` submits both, and TLC finds them accepted;
  `CleanIsReissued` is therefore stated up to nulls.
- When the `entries` job fails, or there are no entries, GitHub skips `replay` under one
  job name, and the notes read that every entry left.
- An archive member named with a backslash is a directory and a file on Windows and one file
  elsewhere, so such an archive may pass there and not here. `HostIndependent` compares
  hosts on the extracted files.

## 6. Not modelled, and the plan

Not modelled: wording and layout of reasons, notes and the page; site identities and the
measured revision of the sweep; the obligation ledger; fixtures, paper, CI. Files are taken
not to change while one directory is being verified, and one directory has one draft under way.

Next, in this order:

1. **Ledger.** Building and checking obligations over changing sources.
2. **Sweep.** Site identities across edits, and the measured revision.
3. **Proofs.** Of the profiles, that leaving a stamp out costs what faking it costs, for all seven.
