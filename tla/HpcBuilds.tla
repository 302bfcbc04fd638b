------------------------------- MODULE HpcBuilds -------------------------------
(***************************************************************************)
(* What submits build and collect on one account's home: hpc/tree.py,      *)
(* shell.py, builds.py, artifact.py, collect.py.  Each step is a command   *)
(* of a script, over files that every submit of the account shares; a lost *)
(* connection ends a submit at any of them, and it is sent again.          *)
(*                                                                         *)
(* A test run adds the commit's tree, builds its environment and native    *)
(* part in directories named by their inputs, and collects the ids.  A job *)
(* packs one file instead.                                                 *)
(***************************************************************************)
EXTENDS Integers, Sequences, FiniteSetsExt, Functions

CONSTANTS
  Submits,   \* processes that may use the account
  Todo,      \* bound: [submit -> sequence of [sha, python, kind: "run" or "artifact", packs]]
  Commits,   \* [sha -> [shares, deps, install, native, shared, files: path -> blob]]
  TestsIn,   \* [blob -> [shared (pyproject and conftests) -> the tests pytest finds]]
  Marked,    \* the tests that the marker of the declared resource selects
  Pushed,    \* the commits that the remote has
  MaxMishaps \* bound: lost connections and builds or collections that fail

BuildsAssumption ==
  /\ Pushed \subseteq DOMAIN Commits /\ MaxMishaps \in Nat
  /\ \A p \in Submits :
       Todo[p] \in Seq([sha : DOMAIN Commits, python : STRING, kind : {"run", "artifact"}, packs : BOOLEAN])

VARIABLES
  have,     \* the commits in the bare cache
  tree,     \* [sha -> "none", "partial", "whole"]: ~/ci/trees
  entry,    \* [sha -> the keys its .lab-ci/env.sh enters]
  dirs,     \* [key -> [done: its marker stands, holds]]: ~/ci/envs, ~/ci/native
  store,    \* [global key -> [blob -> ids]]: ~/ci/collect
  out,      \* [sha -> .lab-ci/collected.txt]
  art,      \* [sha -> ~/ci/artifacts, the file and the one being written]
  proc,     \* [submit -> where it is]
  mishaps,
  crossed   \* ghost: the shas that two submits worked on at once

buildVars == <<have, tree, entry, dirs, store, out, art, proc, mishaps, crossed>>
home == <<have, tree, entry, dirs, store, out, art>>

Shas == DOMAIN Commits
Paths(sha) == DOMAIN Commits[sha].files

-----------------------------------------------------------------------------
(* builds.py: a key is every input that builds it.                         *)

\* Mutant: the project is installed into what is shared.
RecipeWhole(c) == [command |-> c.install, project |-> TRUE]

\* _dependencies_only(): what several commits share holds no project.
Recipe(c) == [command |-> c.install, project |-> ~c.shares]
\* Mutant: a key of the inputs alone, whatever the recipe.
EnvKeyOfInputs(s) == LET c == Commits[s.sha] IN [of |-> IF c.shares THEN c.deps ELSE s.sha]
\* builds_at(): the declared inputs, else the commit; the install and the interpreter.
EnvKey(s) == LET c == Commits[s.sha] IN [of |-> IF c.shares THEN c.deps ELSE s.sha, by |-> Recipe(c), python |-> s.python]

NoKey == [of |-> "nothing"]
NativeKey(s) == LET c == Commits[s.sha] IN IF c.native = "none" THEN NoKey ELSE [native |-> c.native, env |-> EnvKey(s)]

\* What a build of a submit makes, and what the submit needs.
EnvOf(s) ==
  LET c == Commits[s.sha]
  IN  [deps |-> c.deps, command |-> c.install, python |-> s.python, project |-> IF Recipe(c).project THEN s.sha ELSE "none"]
Made(key, s) == IF key = EnvKey(s) THEN EnvOf(s) ELSE [native |-> Commits[s.sha].native, env |-> EnvOf(s)]
Serves(held, s) ==
  LET c == Commits[s.sha]
  IN  /\ held.deps = c.deps /\ held.command = c.install /\ held.python = s.python
      /\ held.project \in {"none", s.sha}

-----------------------------------------------------------------------------
\* A dict's update().
Updated(new, old) == [x \in DOMAIN new \cup DOMAIN old |-> IF x \in DOMAIN new THEN new[x] ELSE old[x]]

NoIds == [b \in {} |-> {}]
Unread == [ids |-> {}, errors |-> {}, failed |-> FALSE]
NoArtifact == [there |-> FALSE, writers |-> {}, alone |-> FALSE, whole |-> FALSE]
NoSubmit == [pc |-> "idle", sha |-> "none", python |-> "none", kind |-> "none", packs |-> FALSE, key |-> NoKey,
         sel |-> FALSE, known |-> NoIds, at |-> 1]
BuildsInit ==
  /\ have = {} /\ tree = [s \in Shas |-> "none"] /\ entry = [s \in Shas |-> NoKey]
  /\ dirs = [k \in {} |-> NoKey] /\ store = [k \in {} |-> NoIds] /\ out = [s \in Shas |-> Unread]
  /\ art = [s \in Shas |-> [file |-> NoArtifact, part |-> NoArtifact]]
  /\ proc = [p \in Submits |-> NoSubmit] /\ mishaps = 0 /\ crossed = {}

SubmitAt(p, pc) == proc[p].pc = pc
Is(p, s) == proc' = [proc EXCEPT ![p] = s]
Go(p, pc) == Is(p, [proc[p] EXCEPT !.pc = pc])
\* It ends, and its next one may begin; or it is sent again.
Finished(p) == [NoSubmit EXCEPT !.at = proc[p].at + 1]
Again(p) == [NoSubmit EXCEPT !.at = proc[p].at]
Trouble == mishaps < MaxMishaps /\ mishaps' = mishaps + 1
Calm == UNCHANGED <<mishaps, crossed>>

Begin(p) ==
  /\ SubmitAt(p, "idle") /\ proc[p].at <= Len(Todo[p])
  /\ LET s == Todo[p][proc[p].at]
     IN  /\ Is(p, [NoSubmit EXCEPT !.pc = "fetching", !.sha = s.sha, !.python = s.python, !.kind = s.kind, !.packs = s.packs,
                               !.at = proc[p].at])
         /\ crossed' = IF \E q \in Submits \ {p} : proc[q].sha = s.sha THEN crossed \cup {s.sha} ELSE crossed
  /\ UNCHANGED <<home, mishaps>>

\* fetch(): in the cache, from the remote, else from a pack of the caller's repository.
Reaches(s) == s.sha \in have \cup Pushed \/ s.packs
Fetch(p) ==
  /\ SubmitAt(p, "fetching")
  /\ LET s == proc[p]
     IN  IF Reaches(s)
         THEN have' = have \cup {s.sha} /\ Go(p, IF s.kind = "run" THEN "fetched" ELSE "packing")
         ELSE UNCHANGED have /\ Is(p, Finished(p))   \* NotSubmitted
  /\ UNCHANGED <<tree, entry, dirs, store, out, art>> /\ Calm

\* `[ -d tree ] || git worktree add`: the directory is there before its files are.
WantsEnv(p) == [proc[p] EXCEPT !.pc = "wants", !.key = EnvKey(proc[p])]
AddTree(p) ==
  /\ SubmitAt(p, "fetched")
  /\ IF tree[proc[p].sha] = "none"
     THEN tree' = [tree EXCEPT ![proc[p].sha] = "partial"] /\ Go(p, "adding")
     ELSE UNCHANGED tree /\ Is(p, WantsEnv(p))
  /\ UNCHANGED <<have, entry, dirs, store, out, art>> /\ Calm
TreeAdded(p) ==
  /\ SubmitAt(p, "adding")
  /\ tree' = [tree EXCEPT ![proc[p].sha] = "whole"]
  /\ Is(p, WantsEnv(p))
  /\ UNCHANGED <<have, entry, dirs, store, out, art>> /\ Calm

-----------------------------------------------------------------------------
(* keyed_build(): once per key, under its lock; the marker is touched last. *)

Done(key) == key \in DOMAIN dirs /\ dirs[key].done
Locked(key) == \E q \in Submits : SubmitAt(q, "building") /\ proc[q].key = key
After(p) ==
  LET s == proc[p]
  IN  IF s.kind = "run" /\ s.key = EnvKey(s) /\ NativeKey(s) # NoKey THEN [s EXCEPT !.key = NativeKey(s), !.pc = "wants"]
      ELSE [s EXCEPT !.pc = IF s.kind = "run" THEN "built" ELSE "members", !.key = NoKey]

Reuse(p) ==
  /\ SubmitAt(p, "wants") /\ Done(proc[p].key)
  /\ Is(p, After(p))
  /\ UNCHANGED home /\ Calm
\* What an earlier build left is built over.
Lock(p) ==
  /\ SubmitAt(p, "wants") /\ ~Done(proc[p].key) /\ ~Locked(proc[p].key)
  /\ Go(p, "building")
  /\ UNCHANGED home /\ Calm
Install(p) ==
  /\ SubmitAt(p, "building")
  /\ dirs' = Updated([k \in {proc[p].key} |-> [done |-> TRUE, holds |-> Made(k, proc[p])]], dirs)
  /\ Is(p, After(p))
  /\ UNCHANGED <<have, tree, entry, store, out, art>> /\ Calm

\* The tree says how it is entered; the last submit of its commit wrote that.
Enter(p) ==
  /\ SubmitAt(p, "built")
  /\ entry' = [entry EXCEPT ![proc[p].sha] = [env |-> EnvKey(proc[p]), native |-> NativeKey(proc[p])]]
  /\ Go(p, "collects")
  /\ UNCHANGED <<have, tree, dirs, store, out, art>> /\ Calm

-----------------------------------------------------------------------------
(* collect.main(): the ids of the files whose content is not in the store   *)
(* are collected, and the store replaced.                                  *)

\* collect_command(): the builds, the interpreter and the one -m.
Seed(s) == [env |-> EnvKey(s), native |-> NativeKey(s), python |-> s.python, sel |-> s.sel]
\* Mutant: conftest and pyproject are no part of the key.
GlobalKeySeed(s) == [seed |-> Seed(s), shared |-> "none"]
GlobalKey(s) == [seed |-> Seed(s), shared |-> Commits[s.sha].shared]

Fresh(s, path) ==
  LET c == Commits[s.sha]
  IN  {<<path, t>> : t \in {x \in TestsIn[c.files[path]][c.shared] : s.sel => x \in Marked}}

ReadStore(p) ==
  /\ SubmitAt(p, "collects")
  /\ LET key == GlobalKey(proc[p])
     IN  Is(p, [proc[p] EXCEPT !.pc = "collecting", !.known = IF key \in DOMAIN store THEN store[key] ELSE NoIds])
  /\ UNCHANGED home /\ Calm

\* Of several files of one content the last names it.
Learned(s, paths) ==
  LET blob(x) == Commits[s.sha].files[x]
      last(b) == CHOOSE x \in paths : blob(x) = b
  IN  [b \in {blob(x) : x \in paths} |-> Fresh(s, last(b))]
\* Mutant: a file that failed to import is cached with the ids it gave, none.
CollectedErrors(s, seen, errors) ==
  LET blob(x) == Commits[s.sha].files[x]
      cached  == {x \in seen : blob(x) \in DOMAIN s.known}
  IN  [known  |-> Updated(Updated(Learned(s, (seen \ cached) \ errors), [b \in {blob(x) : x \in errors} |-> {}]), s.known),
       output |-> [ids |-> (UNION {s.known[blob(x)] : x \in cached}) \cup (UNION {Fresh(s, x) : x \in (seen \ cached) \ errors}),
                   errors |-> errors, failed |-> FALSE]]
\* `seen`: the files of the tree, all of them once it is whole; `errors`: those that
\* did not import this time.
Collected(s, seen, errors) ==
  LET blob(x) == Commits[s.sha].files[x]
      cached  == {x \in seen : blob(x) \in DOMAIN s.known}
  IN  [known  |-> Updated(Learned(s, (seen \ cached) \ errors), s.known),
       output |-> [ids |-> (UNION {s.known[blob(x)] : x \in cached}) \cup (UNION {Fresh(s, x) : x \in (seen \ cached) \ errors}),
                   errors |-> errors, failed |-> FALSE]]
Stale(s, seen) == {x \in seen : Commits[s.sha].files[x] \notin DOMAIN s.known}

Collect(p) ==
  /\ SubmitAt(p, "collecting")
  /\ LET s == proc[p]
     IN  \E seen \in IF tree[s.sha] = "whole" THEN {Paths(s.sha)} ELSE SUBSET Paths(s.sha) :
           \E errors \in SUBSET Stale(s, seen) :
             /\ errors # {} => Trouble
             /\ errors = {} => UNCHANGED mishaps
             /\ store' = IF Stale(s, seen) = {} THEN store ELSE Updated([k \in {GlobalKey(s)} |-> Collected(s, seen, errors).known], store)
             /\ out' = [out EXCEPT ![s.sha] = Collected(s, seen, errors).output]
  /\ Is(p, [proc[p] EXCEPT !.pc = "cat", !.known = NoIds])
  /\ UNCHANGED <<have, tree, entry, dirs, art, crossed>>
\* RunFailed: pytest failed as a whole, nothing is cached.
CollectFails(p) ==
  /\ SubmitAt(p, "collecting") /\ Stale(proc[p], Paths(proc[p].sha)) # {} /\ Trouble
  /\ out' = [out EXCEPT ![proc[p].sha] = [Unread EXCEPT !.failed = TRUE]]
  /\ Is(p, [proc[p] EXCEPT !.pc = "cat", !.known = NoIds])
  /\ UNCHANGED <<have, tree, entry, dirs, store, art, crossed>>

\* submit_run(): the ids of the run, then those of the resource it declares; none
\* at all is no run (nothing_collected).
Cat(p) ==
  /\ SubmitAt(p, "cat")
  /\ Is(p, IF proc[p].sel \/ out[proc[p].sha].ids = {} THEN Finished(p) ELSE [proc[p] EXCEPT !.pc = "collects", !.sel = TRUE])
  /\ UNCHANGED home /\ Calm

-----------------------------------------------------------------------------
(* artifact_script(): an artifact that exists is reused; else one is built  *)
(* in a scratch directory and moved there.                                 *)

PackArtifact(p) ==
  /\ SubmitAt(p, "packing")
  /\ LET s == proc[p]
     IN  Is(p, IF art[s.sha].file.there THEN Finished(p)
               ELSE IF NativeKey(s) # NoKey THEN [s EXCEPT !.pc = "wants", !.key = NativeKey(s)]
               ELSE [s EXCEPT !.pc = "members"])
  /\ UNCHANGED home /\ Calm
\* `tar > $A.part`: the file is emptied, whoever else writes it.
Tar(p) ==
  /\ SubmitAt(p, "members")
  /\ art' = [art EXCEPT ![proc[p].sha].part =
               [there |-> TRUE, writers |-> @.writers \cup {p}, alone |-> @.writers = {}, whole |-> FALSE]]
  /\ Go(p, "writing")
  /\ UNCHANGED <<have, tree, entry, dirs, store, out>> /\ Calm
Tarred(p) ==
  /\ SubmitAt(p, "writing")
  /\ LET part == art[proc[p].sha].part
     IN  art' = [art EXCEPT ![proc[p].sha].part =
                   [part EXCEPT !.writers = part.writers \ {p}, !.whole = IF p \in part.writers THEN part.alone ELSE part.whole]]
  /\ Go(p, "moving")
  /\ UNCHANGED <<have, tree, entry, dirs, store, out>> /\ Calm
\* Mutant: a tar that ended early is moved all the same.
MoveOpen(p) ==
  /\ SubmitAt(p, "writing") \/ SubmitAt(p, "moving")
  /\ LET a == art[proc[p].sha]
     IN  IF a.part.there THEN art' = [art EXCEPT ![proc[p].sha] = [file |-> a.part, part |-> NoArtifact]]
         ELSE UNCHANGED art
  /\ Is(p, Finished(p))
  /\ UNCHANGED <<have, tree, entry, dirs, store, out>> /\ Calm
\* `&& mv`: what another moved away meanwhile is not there.
Move(p) ==
  /\ SubmitAt(p, "moving")
  /\ LET a == art[proc[p].sha]
     IN  IF a.part.there THEN art' = [art EXCEPT ![proc[p].sha] = [file |-> [a.part EXCEPT !.writers = {}], part |-> NoArtifact]]
         ELSE UNCHANGED art
  /\ Is(p, Finished(p))
  /\ UNCHANGED <<have, tree, entry, dirs, store, out>> /\ Calm

-----------------------------------------------------------------------------
\* BUILD_FAILED, and a connection that is lost: what was being written stays as it is.
Lost(p) ==
  /\ ~SubmitAt(p, "idle") /\ Trouble
  /\ Is(p, Again(p))
  /\ art' = [s \in Shas |-> [art[s] EXCEPT !.part.writers = @ \ {p}]]
  /\ UNCHANGED <<have, tree, entry, dirs, store, out, crossed>>

BuildsNext ==
  \E p \in Submits :
    \/ Begin(p) \/ Fetch(p) \/ AddTree(p) \/ TreeAdded(p) \/ Reuse(p) \/ Lock(p) \/ Install(p) \/ Enter(p)
    \/ ReadStore(p) \/ Collect(p) \/ CollectFails(p) \/ Cat(p)
    \/ PackArtifact(p) \/ Tar(p) \/ Tarred(p) \/ Move(p) \/ Lost(p)

BuildsSpec == BuildsInit /\ [][BuildsNext]_buildVars
-----------------------------------------------------------------------------
\* builds.py:21-34, shell.py: whatever else was built, reused, failed or died, a submit
\* that enters its tree enters an environment, and a native part, that a build of its
\* own inputs finished, unless another submit of its commit rewrote the entry.
EntersWhatItBuilt ==
  \A p \in Submits : proc[p].pc \in {"collects", "collecting", "cat"} /\ proc[p].sha \notin crossed =>
    /\ Done(entry[proc[p].sha].env) /\ Serves(dirs[entry[proc[p].sha].env].holds, proc[p])
    /\ entry[proc[p].sha].native # NoKey =>
         /\ Done(entry[proc[p].sha].native)
         /\ dirs[entry[proc[p].sha].native].holds.native = Commits[proc[p].sha].native
         /\ Serves(dirs[entry[proc[p].sha].native].holds.env, proc[p])

\* collect.py: what a submit reads back is what a collection of its own commit and
\* marker would give, but for the files reported as errors, though most of it comes
\* from what other commits collected; unless its tree is not whole, or another submit
\* of its commit wrote there too.
CollectsItsCommit ==
  \A p \in Submits : SubmitAt(p, "cat") /\ proc[p].sha \notin crossed /\ tree[proc[p].sha] = "whole" /\ ~out[proc[p].sha].failed =>
    out[proc[p].sha].ids = UNION {Fresh(proc[p], x) : x \in Paths(proc[p].sha) \ out[proc[p].sha].errors}

\* artifact.py: an artifact that exists is a whole one, wherever its builder died, unless
\* two built it at once.
ArtifactIsWhole == \A s \in Shas : art[s].file.there => art[s].file.whole \/ s \in crossed

\* What the submits of an account make for each other is what each would have made.
AccountIsKept == EntersWhatItBuilt /\ ArtifactIsWhole /\ CollectsItsCommit
=============================================================================
