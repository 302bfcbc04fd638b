--------------------------------- MODULE Units ---------------------------------
(***************************************************************************)
(* What a calculation is named by: compute/unit.py.  A hash is the set of  *)
(* facts it is taken over.  A working tree is [head, held: file -> content *)
(* or Gone, index, ignored: sets of files]; a content is a file's,         *)
(* <<"file", c>>, or a directory's, <<"dir", path -> c, its subdirectories *)
(* without a file>>.                                                       *)
(***************************************************************************)
EXTENDS Functions, Sequences, FiniteSets

CONSTANTS Gone, Committed, LockOf   \* no such file; commit -> its files; commit -> interpreter -> build key

-----------------------------------------------------------------------------
\* canonical(): a tuple is spelled as a list; a NaN or any other object is refused.
Spellable(value) == value[1] \in {"text", "list", "tuple"}
Canonical(value) == IF value[1] = "tuple" THEN <<"list", value[2]>> ELSE value

\* content_hash(): of a directory, its files alone.
ContentHash(content) == IF content[1] = "dir" THEN <<"dir", content[2]>> ELSE content

\* `git diff HEAD`: what git tracks, as it is now, against the commit.
Tracked(tree, f) == IF f \in tree.index THEN tree.held[f] ELSE Gone
Changed(tree) == {f \in DOMAIN tree.held : Tracked(tree, f) # Committed[tree.head][f]}

\* `git ls-files --others --exclude-standard`
Untracked(tree) == {f \in DOMAIN tree.held \ (tree.index \cup tree.ignored) : tree.held[f] # Gone}

\* Mutant: a file that nobody added is no change.
DiffTracked(tree) == {<<"changed", f, Tracked(tree, f)>> : f \in Changed(tree)}
Diff(tree) ==
  {<<"changed", f, Tracked(tree, f)>> : f \in Changed(tree)}
    \cup {<<"untracked", f, ContentHash(tree.held[f])>> : f \in Untracked(tree)}

\* environment_at(), environment_here()
EnvironmentAt(sha, python) == [sha |-> sha, lock |-> LockOf[sha][python], diff |-> {}]
EnvironmentHere(tree, python) == [EnvironmentAt(tree.head, python) EXCEPT !.diff = Diff(tree)]

\* Environment.local_only, Environment.key
LocalOnly(environment) == environment.diff # {}
Key(environment) ==
  <<environment.sha, environment.lock>> \o (IF LocalOnly(environment) THEN <<environment.diff>> ELSE <<>>)

-----------------------------------------------------------------------------
\* An engine: [name, version, ours: the one environment of ours, or none].
Ours(name, environment) == [name |-> name, version |-> Key(environment), ours |-> {environment}]

\* Engine.vendor(): presence is name -> version, without those that are not present.
EngineAbsent == [absent |-> TRUE]
Vendor(name, presence) ==
  IF name \in DOMAIN presence THEN [name |-> name, version |-> presence[name], ours |-> {}] ELSE EngineAbsent

EngineLocal(engine) == \E environment \in engine.ours : LocalOnly(environment)

\* A unit: [engine, entry: module and function, inputs: name -> <<"path", f>>,
\* <<"output", unit, name>> or <<"value", v>>, outputs].
Params(unit) == {n \in DOMAIN unit.inputs : unit.inputs[n][1] = "value"}
Wanted(unit) == DOMAIN unit.inputs \ Params(unit)
UnitOk(unit) == Len(unit.entry) > 1 /\ \A n \in Params(unit) : Spellable(unit.inputs[n][2])

\* unit_hash(): over the input files as they are; of other names it is refused.
HashRefused(unit, files) == DOMAIN files # Wanted(unit)
\* Mutant: an input file is what it is named, whatever it holds.
UnitHashNamed(unit, files) ==
  [engine |-> unit.engine.name, version |-> unit.engine.version, entry |-> unit.entry,
   files |-> [n \in DOMAIN files |-> unit.inputs[n]], params |-> [n \in Params(unit) |-> Canonical(unit.inputs[n][2])]]
UnitHash(unit, files) ==
  [engine |-> unit.engine.name, version |-> unit.engine.version, entry |-> unit.entry,
   files |-> [n \in DOMAIN files |-> ContentHash(files[n])], params |-> [n \in Params(unit) |-> Canonical(unit.inputs[n][2])]]

-----------------------------------------------------------------------------
\* What a checkout runs, but for what git is told to ignore.
Visible(tree) == [f \in DOMAIN tree.held |-> IF f \in tree.index \/ f \notin tree.ignored THEN tree.held[f] ELSE Gone]
Code(tree) == [f \in DOMAIN tree.held |-> IF Visible(tree)[f] = Gone THEN Gone ELSE ContentHash(Visible(tree)[f])]

\* unit.py:11-12: two checkouts with one key run one code; a key without a diff is the
\* commit's own, with its code, and no commit anywhere has the key of a changed one.
KeyNamesTheCode(tree, others, python) ==
  LET key(t) == Key(EnvironmentHere(t, python))
  IN  /\ \A other \in others : key(tree) = key(other) => Code(tree) = Code(other) /\ tree.head = other.head
      /\ LocalOnly(EnvironmentHere(tree, python)) <=>
           \A sha \in DOMAIN Committed : \A interpreter \in DOMAIN LockOf[sha] : key(tree) # Key(EnvironmentAt(sha, interpreter))
      /\ ~LocalOnly(EnvironmentHere(tree, python)) => \A f \in DOMAIN tree.held : Visible(tree)[f] = Committed[tree.head][f]

\* unit.py:3-6: whatever two units have one hash, one engine calls one entry on the same
\* contents and the same values; and a result that stays on its host answers no unit that
\* any other host can ask for.
HashNamesTheComputation(unit, files, others) ==
  \A other \in others :
    \/ HashRefused(unit, files) \/ HashRefused(other.unit, other.files)
    \/ UnitHash(unit, files) # UnitHash(other.unit, other.files)
    \/ /\ unit.engine = other.unit.engine /\ unit.entry = other.unit.entry
       /\ EngineLocal(unit.engine) = EngineLocal(other.unit.engine)
       /\ \A n \in Params(unit) \cap Params(other.unit) : Canonical(unit.inputs[n][2]) = Canonical(other.unit.inputs[n][2])
       /\ DOMAIN unit.inputs = DOMAIN other.unit.inputs
       /\ \A n \in DOMAIN files : n \in DOMAIN other.files /\ ContentHash(files[n]) = ContentHash(other.files[n])
=============================================================================
