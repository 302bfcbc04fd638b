---------------------------- MODULE LocalExecutor ----------------------------
(***************************************************************************)
(* One process that runs a graph of units: compute/execute.py over the     *)
(* result store of compute/store.py.  run() decides every ready unit and   *)
(* starts a thread for each that has to run; a thread journals its intent, *)
(* waits for its claim, calls the entry in the work directory of the       *)
(* unit's hash, and installs what it left there.  The process may be       *)
(* interrupted, or die, between any two steps; files stay.  The box ledger *)
(* is what hold() promises: it admits or refuses, and releases on exit.    *)
(***************************************************************************)
EXTENDS Integers, FiniteSets, Functions

CONSTANTS
  Unit,       \* the units of the graph
  Recipe,     \* [Unit -> what its hash holds beside its inputs]
  Upstream,   \* [Unit -> the units whose output it reads]
  LocalOnly,  \* recipes of a dirty tree: never shared, never offered
  Where,      \* --where: "here", "anywhere" or "elsewhere"
  Version,    \* what an entry may leave; one of them: it is deterministic
  NoVersion,
  RunsAgain,  \* run() is called again in a process whose run was interrupted
  MaxRuns     \* bound: calls of run()

VARIABLES
  runs,       \* calls of run() so far
  run,        \* the call: off, on, stopping (cancel set, claims held), stopped
  done,       \* its Settled, by unit
  running,    \* the hash -> unit of the threads it waits for
  cancel,     \* _cancel
  thread,     \* the worker thread of each call and unit
  claims,     \* _claims: the threads whose claim run() would release
  held,       \* the threads whose claim is in the box ledger
  journal,    \* the hashes with an intent
  work,       \* work directories, by hash: empty, a checkpoint, or outputs
  local,      \* the results of this host, by hash
  shared      \* the results of the shared tier, by hash

files == <<journal, work, local, shared>>
vars == <<runs, run, done, running, cancel, thread, claims, held, files>>

Content == Version \cup {"empty", "checkpoint"}
Produced == {"ran", "cached"}
Worker == (1 .. MaxRuns) \X Unit

\* A unit's hash: its recipe and the content of what it reads.
Hash == UNION {[recipe : {Recipe[u]}, inputs : [Upstream[u] -> Version]] : u \in Unit}

\* How a unit settled, and the version of its result when it has one.
Settled == [state : {"no", "skipped", "offered", "refused", "failed"}, result : {NoVersion}]
             \cup [state : Produced, result : Version]
End(state, v) == [state |-> state, result |-> v]
Unsettled == End("no", NoVersion)

\* A thread: where it is, the unit's hash, what it copied, how it ends.
NoThread == [pc |-> "none"]
Thread == {NoThread} \cup
  [pc : {"place", "run", "hold", "held", "check", "entry", "copy", "install", "post",
         "clean", "forget", "end", "escaped"},
   hash : Hash, out : Version \cup {NoVersion}, end : Settled]

ASSUME ExecutorAssumption ==
  /\ Upstream \in [Unit -> SUBSET Unit]
  /\ DOMAIN Recipe = Unit
  /\ NoVersion \notin Version /\ Version \cap {"empty", "checkpoint"} = {}
  /\ Where \in {"here", "anywhere", "elsewhere"}
  /\ RunsAgain \in BOOLEAN /\ MaxRuns \in Nat

Put(f, h, v) == [x \in DOMAIN f \cup {h} |-> IF x = h THEN v ELSE f[x]]
Without(f, h) == Restrict(f, DOMAIN f \ {h})

Pc(w) == thread[w].pc
Alive == {w \in Worker : thread[w] # NoThread}

Init ==
  /\ runs = 0 /\ run = "off" /\ cancel = FALSE
  /\ done = [u \in Unit |-> Unsettled]
  /\ running = [h \in {} |-> CHOOSE u \in Unit : TRUE]
  /\ thread = [w \in Worker |-> NoThread]
  /\ claims = {} /\ held = {}
  /\ journal = {}
  /\ work = [h \in {} |-> "empty"]
  /\ local = [h \in {} |-> NoVersion]
  /\ shared = [h \in {} |-> NoVersion]

-----------------------------------------------------------------------------
(* run(), in the caller's thread.                                          *)

\* The object's claims and its cancel event are new with every call.
Run ==
  /\ runs < MaxRuns
  /\ \/ run = "off"
     \/ run = "stopped" /\ RunsAgain
  /\ runs' = runs + 1 /\ run' = "on"
  /\ done' = [u \in Unit |-> Unsettled]
  /\ running' = Restrict(running, {})
  /\ cancel' = FALSE /\ claims' = {}
  /\ UNCHANGED <<thread, held, files>>

Ready(u) ==
  /\ run = "on" /\ done[u] = Unsettled
  /\ <<runs, u>> \notin Alive
  /\ \A x \in Upstream[u] : done[x] # Unsettled

Blocked(u) == \E x \in Upstream[u] : done[x].state \notin Produced

HashOf(u) == [recipe |-> Recipe[u], inputs |-> [x \in Upstream[u] |-> done[x].result]]

Settle(u, end) == done' = [done EXCEPT ![u] = end]

Skip(u) ==
  /\ Ready(u) /\ Blocked(u)
  /\ Settle(u, End("skipped", NoVersion))
  /\ UNCHANGED <<runs, run, running, cancel, thread, claims, held, files>>

\* Mutant: the shared tier is looked at first.
CachedSharedFirst(u) ==
  LET h == HashOf(u)
  IN  /\ Ready(u) /\ ~Blocked(u)
      /\ h \in DOMAIN local \cup DOMAIN shared
      /\ local' = IF h \in DOMAIN local THEN local ELSE Put(local, h, shared[h])
      /\ Settle(u, End("cached", IF h \in DOMAIN shared THEN shared[h] ELSE local[h]))
      /\ UNCHANGED <<runs, run, running, cancel, thread, claims, held, journal, work, shared>>

\* get(): this host's result, else the shared tier's, installed here.
Cached(u) ==
  LET h == HashOf(u)
  IN  /\ Ready(u) /\ ~Blocked(u)
      /\ \/ h \in DOMAIN local /\ UNCHANGED local
         \/ h \in DOMAIN shared \ DOMAIN local /\ local' = Put(local, h, shared[h])
      /\ Settle(u, End("cached", local'[h]))
      /\ UNCHANGED <<runs, run, running, cancel, thread, claims, held, journal, work, shared>>

\* Mutant: a hash that is running is started again.
StartAnyway(u) ==
  LET h == HashOf(u)
  IN  /\ Ready(u) /\ ~Blocked(u)
      /\ h \notin DOMAIN local
      /\ running' = Put(running, h, u)
      /\ thread' = [thread EXCEPT ![<<runs, u>>] =
                      [pc |-> "place", hash |-> h, out |-> NoVersion, end |-> Unsettled]]
      /\ UNCHANGED <<runs, run, done, cancel, claims, held, files>>

\* A hash that is running is decided again once it has settled.  A partition
\* may hide what the shared tier has.
Start(u) ==
  LET h == HashOf(u)
  IN  /\ Ready(u) /\ ~Blocked(u)
      /\ h \notin DOMAIN local
      /\ h \notin DOMAIN running
      /\ running' = Put(running, h, u)
      /\ thread' = [thread EXCEPT ![<<runs, u>>] =
                      [pc |-> "place", hash |-> h, out |-> NoVersion, end |-> Unsettled]]
      /\ UNCHANGED <<runs, run, done, cancel, claims, held, files>>

\* Mutant: a settled hash stays among the running ones.
CollectOnly(u) ==
  LET t == thread[<<runs, u>>]
  IN  /\ run = "on" /\ t.pc = "end"
      /\ Settle(u, t.end)
      /\ thread' = [thread EXCEPT ![<<runs, u>>] = NoThread]
      /\ UNCHANGED <<runs, run, running, cancel, claims, held, files>>

\* The next finished thread; the queue's order is left open.
Collect(u) ==
  LET t == thread[<<runs, u>>]
  IN  /\ run = "on" /\ t.pc = "end"
      /\ running' = Without(running, t.hash)
      /\ Settle(u, t.end)
      /\ thread' = [thread EXCEPT ![<<runs, u>>] = NoThread]
      /\ UNCHANGED <<runs, run, cancel, claims, held, files>>

Return ==
  /\ run = "on" /\ \A u \in Unit : done[u] # Unsettled
  /\ run' = "off"
  /\ UNCHANGED <<runs, done, running, cancel, thread, claims, held, files>>

\* An interrupt, or what escaped an entry and came through the queue: cancel
\* is set first, then every claim run() knows of is released.
Interrupt ==
  /\ run = "on"
  /\ run' = "stopping" /\ cancel' = TRUE
  /\ UNCHANGED <<runs, done, running, thread, claims, held, files>>

Reraise(u) ==
  /\ run = "on" /\ Pc(<<runs, u>>) = "escaped"
  /\ run' = "stopping" /\ cancel' = TRUE
  /\ thread' = [thread EXCEPT ![<<runs, u>>] = NoThread]
  /\ UNCHANGED <<runs, done, running, claims, held, files>>

ReleaseAll ==
  /\ run = "stopping"
  /\ run' = "stopped" /\ held' = held \ claims
  /\ UNCHANGED <<runs, done, running, cancel, thread, claims, files>>

\* The process dies; its claims go with it, its files stay.
Crash ==
  /\ run # "off" \/ Alive # {}
  /\ run' = "off" /\ thread' = [w \in Worker |-> NoThread]
  /\ held' = {}
  /\ UNCHANGED <<runs, done, running, cancel, claims, files>>

-----------------------------------------------------------------------------
(* A worker thread.                                                        *)

At(w, pc) == Pc(w) = pc
Goto(w, pc) == thread' = [thread EXCEPT ![w].pc = pc]
Ends(w, pc, state, v) == thread' = [thread EXCEPT ![w].pc = pc, ![w].end = End(state, v)]

\* A unit that cannot run here is offered to a host that can, or refused.
Elsewhere(w) ==
  Ends(w, "end",
    IF Where # "here" /\ thread[w].hash.recipe \notin LocalOnly THEN "offered" ELSE "refused",
    NoVersion)

\* present() says whether the engine is here.
Place(w) ==
  /\ At(w, "place")
  /\ \/ Where # "elsewhere" /\ Goto(w, "run")
     \/ Elsewhere(w)
  /\ UNCHANGED <<runs, run, done, running, cancel, claims, held, files>>

\* Intent before action: a work directory that is there is kept.
Journal(w) ==
  LET h == thread[w].hash
  IN  /\ At(w, "run")
      /\ Goto(w, "hold")
      /\ work' = IF h \in DOMAIN work THEN work ELSE Put(work, h, "empty")
      /\ journal' = journal \cup {h}
      /\ UNCHANGED <<runs, run, done, running, cancel, claims, held, local, shared>>

\* hold() admits the demand, or refuses it when the queue's time is over.
Hold(w) ==
  /\ At(w, "hold")
  /\ Goto(w, "held") /\ held' = held \cup {w}
  /\ UNCHANGED <<runs, run, done, running, cancel, claims, files>>

HoldRefuses(w) ==
  /\ At(w, "hold")
  /\ Elsewhere(w)
  /\ UNCHANGED <<runs, run, done, running, cancel, claims, held, files>>

\* The claim is registered before cancel is looked at.
Register(w) ==
  /\ At(w, "held")
  /\ Goto(w, "check") /\ claims' = claims \cup {w}
  /\ UNCHANGED <<runs, run, done, running, cancel, held, files>>

\* A cancelled unit is refused like one the ledger refused.
Check(w) ==
  /\ At(w, "check")
  /\ IF cancel
     THEN Elsewhere(w) /\ held' = held \ {w}
     ELSE Goto(w, "entry") /\ UNCHANGED held
  /\ UNCHANGED <<runs, run, done, running, cancel, claims, files>>

\* The entry leaves a checkpoint in its work directory.
Checkpoint(w) ==
  LET h == thread[w].hash
  IN  /\ At(w, "entry") /\ h \in DOMAIN work /\ work[h] = "empty"
      /\ work' = Put(work, h, "checkpoint")
      /\ UNCHANGED <<runs, run, done, running, cancel, thread, claims, held, journal, local, shared>>

OutputsThere(w) == thread[w].hash \in DOMAIN work /\ work[thread[w].hash] \in Version

\* It returns: with the declared outputs in its work directory, or not.
EntryReturns(w) ==
  LET h == thread[w].hash
  IN  /\ At(w, "entry")
      /\ held' = held \ {w}
      /\ \/ /\ h \in DOMAIN work
            /\ \E v \in Version : work' = Put(work, h, v)
            /\ Goto(w, "copy")
         \/ /\ ~OutputsThere(w)
            /\ Ends(w, "clean", "failed", NoVersion)
            /\ UNCHANGED work
      /\ UNCHANGED <<runs, run, done, running, cancel, claims, journal, local, shared>>

\* It raises an Exception: the claim is held while the unit is forgotten.
EntryFails(w) ==
  /\ At(w, "entry")
  /\ Ends(w, "clean", "failed", NoVersion)
  /\ UNCHANGED <<runs, run, done, running, cancel, claims, held, files>>

\* What else it raises goes through the queue to run(), which stops.
EntryEscapes(w) ==
  /\ At(w, "entry")
  /\ Goto(w, "escaped") /\ held' = held \ {w}
  /\ UNCHANGED <<runs, run, done, running, cancel, claims, files>>

\* The outputs are copied to a staging directory of the store.  If they are
\* gone the unit fails or, gone since they were found, the error escapes.
Copy(w) ==
  /\ At(w, "copy")
  /\ IF OutputsThere(w)
     THEN thread' = [thread EXCEPT ![w].pc = "install", ![w].out = work[thread[w].hash]]
     ELSE Ends(w, "clean", "failed", NoVersion) \/ Goto(w, "escaped")
  /\ UNCHANGED <<runs, run, done, running, cancel, claims, held, files>>

\* Mutant: a differing result replaces the first.
InstallOver(w) ==
  LET t == thread[w]
  IN  /\ At(w, "install") /\ Goto(w, "post")
      /\ local' = Put(local, t.hash, t.out)
      /\ UNCHANGED <<runs, run, done, running, cancel, claims, held, journal, work, shared>>

\* One rename; the first result stands, and a differing one fails the unit.
Install(w) ==
  LET t == thread[w]
  IN  /\ At(w, "install")
      /\ IF t.hash \in DOMAIN local
         THEN /\ UNCHANGED local
              /\ IF local[t.hash] = t.out
                 THEN Goto(w, "post")
                 ELSE Ends(w, "clean", "failed", NoVersion)
         ELSE /\ local' = Put(local, t.hash, t.out)
              /\ Goto(w, "post")
      /\ UNCHANGED <<runs, run, done, running, cancel, claims, held, journal, work, shared>>

\* A result that is not of a dirty tree is posted; a differing first one
\* there fails the unit.
Post(w) ==
  LET t == thread[w]
  IN  /\ At(w, "post")
      /\ \/ /\ t.hash.recipe \in LocalOnly
            /\ UNCHANGED shared
            /\ Ends(w, "clean", "ran", t.out)
         \/ /\ t.hash.recipe \notin LocalOnly /\ t.hash \notin DOMAIN shared
            /\ shared' = Put(shared, t.hash, t.out)
            /\ Ends(w, "clean", "ran", t.out)
         \/ /\ t.hash.recipe \notin LocalOnly /\ t.hash \in DOMAIN shared
            /\ UNCHANGED shared
            /\ IF shared[t.hash] = t.out
               THEN Ends(w, "clean", "ran", t.out)
               ELSE Ends(w, "clean", "failed", NoVersion)
      /\ UNCHANGED <<runs, run, done, running, cancel, claims, held, journal, work, local>>

\* Mutant: the intent goes first.
CleanIntentFirst(w) ==
  /\ At(w, "clean")
  /\ Goto(w, "forget") /\ journal' = journal \ {thread[w].hash}
  /\ UNCHANGED <<runs, run, done, running, cancel, claims, held, work, local, shared>>

\* _forget(): the work directory first, then the intent.
Clean(w) ==
  /\ At(w, "clean")
  /\ Goto(w, "forget") /\ work' = Without(work, thread[w].hash)
  /\ UNCHANGED <<runs, run, done, running, cancel, claims, held, journal, local, shared>>

Forget(w) ==
  /\ At(w, "forget")
  /\ Goto(w, "end") /\ journal' = journal \ {thread[w].hash}
  /\ held' = held \ {w}
  /\ UNCHANGED <<runs, run, done, running, cancel, claims, work, local, shared>>

\* Another host posts the result of a hash: external to this process.
OtherHostPosts ==
  \E h \in Hash \ DOMAIN shared, v \in Version :
    /\ h.recipe \notin LocalOnly
    /\ shared' = Put(shared, h, v)
    /\ UNCHANGED <<runs, run, done, running, cancel, thread, claims, held, journal, work, local>>

Caller ==
  \/ \E u \in Unit : Skip(u) \/ Cached(u) \/ Start(u) \/ Collect(u) \/ Reraise(u)
  \/ Return
  \/ ReleaseAll

Step(w) ==
  \/ Place(w) \/ Journal(w) \/ Hold(w) \/ HoldRefuses(w) \/ Register(w) \/ Check(w)
  \/ EntryReturns(w) \/ EntryFails(w) \/ EntryEscapes(w)
  \/ Copy(w) \/ Install(w) \/ Post(w) \/ Clean(w) \/ Forget(w)

Next ==
  \/ Run \/ Caller \/ Interrupt \/ Crash \/ OtherHostPosts
  \/ \E w \in Worker : Step(w) \/ Checkpoint(w)

Spec == Init /\ [][Next]_vars

\* run() polls its queue, threads go on, an entry ends, and hold() answers
\* within queue_s.
FairSpec == Spec /\ WF_vars(Caller) /\ \A w \in Worker : WF_vars(Step(w))

-----------------------------------------------------------------------------
\* The variables have their types.
TypeOK ==
  /\ runs \in 0 .. MaxRuns /\ run \in {"off", "on", "stopping", "stopped"}
  /\ done \in [Unit -> Settled]
  /\ DOMAIN running \subseteq Hash /\ Range(running) \subseteq Unit
  /\ cancel \in BOOLEAN
  /\ \A w \in Worker : thread[w] \in Thread
  /\ claims \subseteq Worker /\ held \subseteq Worker
  /\ journal \subseteq Hash
  /\ DOMAIN work \subseteq Hash /\ Range(work) \subseteq Content
  /\ DOMAIN local \cup DOMAIN shared \subseteq Hash
  /\ Range(local) \cup Range(shared) \subseteq Version

\* execute.py:24: no two threads are in the entry of one hash, whose work
\* directory they would share.
OneHashRunsOnce ==
  \A v, w \in Worker :
    At(v, "entry") /\ At(w, "entry") /\ thread[v].hash = thread[w].hash => v = w

\* execute.py:19-22: whatever dies when, the work an entry left in a work
\* directory is journaled, so that the next run says it resumes from it.
WorkIsJournaled == \A h \in DOMAIN work : work[h] # "empty" => h \in journal

\* execute.py:24-26: once an interrupted run has raised, no entry holds a
\* claim, and a thread that is given one late will be refused.
InterruptReturnsClaims ==
  run = "stopped" => \A w \in held : Pc(w) \in {"hold", "held", "check"} /\ cancel

\* Both, with the types of the state: the entries that run are those that may.
EntriesAreSound == TypeOK /\ OneHashRunsOnce /\ InterruptReturnsClaims

\* store.py:8-10: a result a unit settled with, for its dependants to read,
\* is the one stored for its hash.
ProducedIsStored ==
  \A u \in Unit : done[u].state \in Produced =>
    HashOf(u) \in DOMAIN local /\ local[HashOf(u)] = done[u].result

\* execute.py, store.py: no hash is run twice at once, what an entry left in a work directory
\* is journaled, and what a unit settled with is what is stored
\* (EntriesAreSound, WorkIsJournaled, ProducedIsStored).
ExecutorIsSound == EntriesAreSound /\ WorkIsJournaled /\ ProducedIsStored

\* store.py:8-10: in both tiers the first result of a hash stands, and a
\* crash does not take it away.
FirstResultStands ==
  [][/\ \A h \in DOMAIN local : h \in DOMAIN local' /\ local'[h] = local[h]
     /\ \A h \in DOMAIN shared : h \in DOMAIN shared' /\ shared'[h] = shared[h]]_vars

\* execute.py:3-7: run() comes to an end: every unit settles, twins of a
\* running hash and dependants of a failed unit included, or it raises.
RunEnds == run = "on" ~> run # "on"
=============================================================================
