---------------------------- MODULE MCSubmission ----------------------------
(* Instances of Submission: the life of small directories, archives as     *)
(* they may arrive, and texts as they may be nested.                       *)
EXTENDS Submission

Run == <<"run">>
Nested == <<"sub", "vac.json">>
Drive == <<"C:x">>
Scratch == <<"tmp">>

MCPath == {Manifest, Run, Nested, Drive, Scratch, Git}
MCOdd == {Drive}
MCIgnored == {Scratch, Git}

MCObject == <<"open", "close">>
One == <<"other">>
Two == <<"quote", "quote">>
MCText == {One, Two}

ASSUME StandingPaths == Standing

Posix == [flavour |-> "posix", filter |-> TRUE, stack |-> MaxDepth]

Bundle(pins, todo) ==
  [kind |-> "manifest", text |-> MCObject, sound |-> TRUE, pins |-> pins,
   commit |-> NoCommit, todo |-> todo]

NoRepo == [there |-> FALSE, remote |-> FALSE, commits |-> <<>>]

Start(files, repo_, archive_, host_, edits, commits) ==
  /\ dir = files /\ repo = repo_ /\ archive = archive_ /\ host = host_
  /\ authored = IF Manifest \in DOMAIN files THEN Field ELSE {}
  /\ budget = [edits |-> edits, commits |-> commits]
  /\ Init

-----------------------------------------------------------------------------
(* A directory of one or two files, in a repository or not, committed or   *)
(* not, to be drafted; with a manifest already; with git inside.           *)
Kept == {Run :> Data(One),
         Run :> Data(One) @@ Nested :> Data(One),
         Run :> Data(One) @@ Scratch :> Data(One),
         Run :> Data(One) @@ Drive :> Data(One),
         Run :> Data(One) @@ Nested :> Link(One)}

Fresh(files, repo_) ==
  Start(files, repo_, NoArchive, Posix, Edits, Commits)

Repo(files, remote, committed) ==
  [there |-> TRUE, remote |-> remote,
   commits |-> IF committed THEN <<[p \in DOMAIN files \ MCIgnored |-> files[p]]>> ELSE <<>>]

LifeInit ==
  \/ \E files \in Kept : Fresh(files, NoRepo) \/ Fresh(files, Repo(files, TRUE, TRUE))
  \/ \E remote \in BOOLEAN : Fresh(Run :> Data(One), Repo(<<>>, remote, FALSE))
  \/ Fresh(Run :> Data(One), Repo(Run :> Data(One), FALSE, TRUE))
  \/ Fresh(Run :> Data(One) @@ Git :> Data(One), [NoRepo EXCEPT !.there = TRUE])

(* Directories as they come from elsewhere: any of four contents at three  *)
(* places, pinned or not.                                                  *)
HandInit ==
  \E at \in [{Run, Nested, Drive} -> {"none", "one", "two", "link"}],
     pinned \in SUBSET {Run, Nested, Drive}, sound \in BOOLEAN :
    LET there == {p \in DOMAIN at : at[p] # "none"}
        file  == [none |-> Data(One), one |-> Data(One), two |-> Data(Two), link |-> Link(One)]
        man   == [Bundle([p \in pinned |-> One], {}) EXCEPT !.sound = sound]
    IN  Start([p \in there |-> file[at[p]]] @@ Manifest :> man,
                        NoRepo, NoArchive, Posix, 0, 0)

-----------------------------------------------------------------------------
Named(parts) == [posix |-> parts, windows |-> parts, anchored |-> {}]

Names == [top    |-> Named(<<>>),
          dir    |-> Named(<<BundleName>>),
          beside |-> Named(<<"._b">>),
          man    |-> Named(Manifest),
          run    |-> Named(Run),
          inner  |-> Named(<<BundleName, "vac.json">>),
          data   |-> Named(<<BundleName, "run">>),
          back   |-> [posix |-> <<"b\\run">>, windows |-> <<BundleName, "run">>, anchored |-> {}],
          up     |-> Named(<<"..", "x">>),
          winup  |-> [posix |-> <<"..\\x">>, windows |-> <<"..", "x">>, anchored |-> {}],
          root   |-> [posix |-> <<"x">>, windows |-> <<"x">>, anchored |-> {"posix", "windows"}],
          drive  |-> [posix |-> Drive, windows |-> <<"x">>, anchored |-> {"windows"}]]

Of(name, kind, content) == [name |-> Names[name], kind |-> kind, content |-> content]

Members ==
  {Of(name, "dir", Data(<<>>)) : name \in {"top", "dir", "beside"}}
    \cup {Of(name, "file", Bundle(Run :> One, {})) : name \in {"man", "inner"}}
    \cup {Of(name, "file", Data(One)) : name \in (DOMAIN Names) \ {"man", "inner"}}
    \cup {Of(name, "file", Data(Two)) : name \in {"run", "data"}}
    \cup {Of("data", "link", Data(One))}

Hosts == [flavour : {"posix", "windows"}, filter : BOOLEAN, stack : {MaxDepth}]

(* Any three members in any order, whole; any two, cut short.              *)
ArchiveInit ==
  \/ \E a, b, c \in Members, h \in Hosts :
       Start(<<>>, NoRepo, [members |-> <<a, b, c>>, bytes |-> "whole"], h, 0, 0)
  \/ \E a, b \in Members, h \in Hosts, bytes \in {"whole", "short tar", "short stream"} :
       Start(<<>>, NoRepo, [members |-> <<a, b>>, bytes |-> bytes], h, 0, 0)

-----------------------------------------------------------------------------
Strings(alphabet, length) == UNION {[1..n -> alphabet] : n \in 0..length}

Texts == Strings(Char, 4) \cup Strings({"open", "close", "quote", "escape"}, 6)

(* A text as the manifest, and as an artifact.                             *)
TextInit ==
  \E text \in Texts :
    LET manifest == [Bundle(<<>>, {}) EXCEPT !.text = text]
        artifact == Bundle(Run :> text, {})
    IN  \/ Start(Manifest :> manifest, NoRepo, NoArchive, Posix, 0, 0)
        \/ Start(Manifest :> artifact @@ Run :> Data(text), NoRepo, NoArchive, Posix, 0, 0)

MCInit == LifeInit \/ HandInit \/ ArchiveInit \/ TextInit

(* What is packed is a draft as written or a manifest without markers, and *)
(* no text of TextInit; it is judged, and then the story ends.  Nothing    *)
(* else changes between the first marker that is replaced and the last,    *)
(* which tells whether the author got it right.                            *)
MCNext ==
  /\ Next
  /\ packed => packed' /\ UNCHANGED draftVars
  /\ packed' => /\ \A p \in DOMAIN dir : dir[p].text \in MCText \cup {MCObject}
                /\ authored = {} \/ dir[Manifest].todo = {}
  /\ authored # {} /\ budget' # budget => dir[Manifest].todo = {}
  /\ authored' # authored /\ authored' # {} => dir'[Manifest].sound \/ dir'[Manifest].todo = {}

MCSpec == MCInit /\ [][MCNext]_vars
=============================================================================
