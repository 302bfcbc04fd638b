-------------------------------- MODULE HpcRun --------------------------------
(***************************************************************************)
(* A remote run of one commit's tests: hpc/run.py, gather.py, and the fold *)
(* of records.py, over the arrays Slurm runs (cluster.submit_bands) and    *)
(* the streams their items write (pytest_item.py).                         *)
(*                                                                         *)
(* Nothing resident drives a run: submit_run() submits round 0 and leaves  *)
(* state.json on the cluster; each gather_run() after it is one short call *)
(* that folds a finished round and submits what is left of it.  A call is  *)
(* cut here at its remote commands, since it may die, or lose its          *)
(* connection, between any two of them.                                    *)
(***************************************************************************)
EXTENDS Integers, FiniteSets, SequencesExt

CONSTANTS
  Test,         \* the collected ids of this part
  NoTest,
  Caller,       \* who calls submit_run() and gather_run()
  Requests,     \* what may be asked: the first items (sequences of ids, whole files),
                \* the ids whose cell an earlier run of the same env holds, and a
                \* bound: how many calls are cut short, or cancel its jobs
  Base,         \* [Test -> the memory class an id is measured at]
  Top,          \* the memory class of the most any grant gives
  Ceiling,      \* some grant states such a limit
  Retries,      \* RETRIES
  OomRounds,    \* OOM_ROUNDS
  StallPolls,   \* the gathers within policy.stall_minutes
  EndsLate,     \* an item may be cut, or killed, when it has told of every id
  MaxRounds, MaxJobs   \* bounds

VARIABLES
  asked,        \* the request
  disk,         \* state.json, or NoState
  call,         \* the call each caller is in
  jobs,         \* the arrays, by job id: the tag of their round, their tasks
  manifest,     \* the manifest of a round, by tag
  stream,       \* the stream of a round, by tag: what its items last wrote
  dropped,      \* settle() gave the run up
  outages       \* how many calls were cut short or cancelled jobs

vars == <<asked, disk, call, jobs, manifest, stream, dropped, outages>>
cluster == <<jobs, manifest, stream>>

Tag == 0 .. MaxRounds
JobId == 1 .. MaxJobs
Group == UNION {[1 .. n -> Test] : n \in 1 .. Cardinality(Test)}
Groups == UNION {[1 .. n -> Group] : n \in 0 .. Cardinality(Test)}

\* Why an id has a cell.  "told" is what its stream says, whatever that is.
Cell == {"carried", "told", "exit", "unreported", "timeout", "out_of_memory",
         "lost", "unrun", "placement"}

Active == {"PENDING", "RUNNING"}
\* "TOP" is a TIMEOUT at the longest wall any partition grants.
TimedOut == {"TIMEOUT", "TOP"}
TaskState == Active \cup TimedOut \cup {"COMPLETED", "OUT_OF_MEMORY", "LOST"}

\* An item's stream since its last `begin`: what it told of which ids, the last
\* id it started, and how its `done` line says it closed, if there is one.
Unwritten == [told |-> {}, started |-> NoTest, done |-> "open"]

\* The round in flight: its items, the shard of each, whether a shard's band was
\* at the ceiling, and its arrays.
NoRound == [tag |-> 0, items |-> <<>>, shard |-> <<>>, top |-> <<>>, jobs |-> {}]

\* state.json: `owed` is what waits for submit room, `polls` how long it has.
NewState ==
  [rounds |-> 0, cells |-> [n \in asked.carried |-> "carried"], current |-> NoRound,
   waiting |-> FALSE, owed |-> <<>>, polls |-> 0,
   oomLost |-> [n \in Test |-> 0], grown |-> [n \in Test |-> 0], record |-> FALSE]
NoState == [NewState EXCEPT !.rounds = -1]

\* A call: where it is, the state it works on, the shard states it saw, and the
\* round it submits with the bands it has yet to submit.
Idle == [pc |-> "idle", st |-> NoState, seen |-> <<>>, round |-> NoRound, bands |-> <<>>]

Ids(groups) == UNION {Range(groups[i]) : i \in DOMAIN groups}
\* Items that have each of these ids once, none of them empty.
OnceEach(groups, ids) ==
  /\ groups \in Seq(Seq(Test)) /\ IsInjective(groups)
  /\ \A g \in Range(groups) : g # <<>> /\ IsInjective(g)
  /\ \A g, h \in Range(groups) : g # h => Range(g) \cap Range(h) = {}
  /\ Ids(groups) = ids

ASSUME RunAssumption ==
  /\ NoTest \notin Test
  /\ \A q \in Requests : q.carried \subseteq Test /\ OnceEach(q.packed, Test \ q.carried) /\ q.outages \in Nat
  /\ Top \in Nat /\ Base \in [Test -> 0 .. Top]
  /\ Ceiling \in BOOLEAN /\ EndsLate \in BOOLEAN
  /\ Retries \in Nat /\ OomRounds \in Nat \ {0} /\ StallPolls \in Nat
  /\ MaxRounds \in Nat /\ MaxJobs \in Nat

Init ==
  /\ asked \in Requests
  /\ disk = NoState
  /\ call = [c \in Caller |-> Idle]
  /\ jobs = [j \in {} |-> [tag |-> 0, tasks |-> <<>>]]
  /\ manifest = [t \in {} |-> NoRound]
  /\ stream = [t \in {} |-> <<>>]
  /\ dropped = FALSE /\ outages = 0

Cells(ids, cell) == [n \in ids |-> cell]
\* dict.update: the new cells win.
Updated(cells, new) ==
  [n \in DOMAIN cells \cup DOMAIN new |-> IF n \in DOMAIN new THEN new[n] ELSE cells[n]]

-----------------------------------------------------------------------------
(* fold(): one round's streams into cells and what is still owed.          *)

\* [n for n in s if n not in drop], of any sequence.
Without(s, drop) ==
  LET kept[k \in 0 .. Len(s)] ==
        IF k = 0 THEN <<>> ELSE IF s[k] \in drop THEN kept[k - 1] ELSE Append(kept[k - 1], s[k])
  IN  kept[Len(s)]

\* An item of these ids, if there are any.
Item(ids) == IF ids = <<>> THEN <<>> ELSE <<ids>>
Halves(ids) ==
  LET half == (Len(ids) + 1) \div 2
  IN  Item(SubSeq(ids, 1, half)) \o Item(SubSeq(ids, half + 1, Len(ids)))

\* What item i of a round reported, of the shard states `seen`.
Folded(round, streams, seen, i) ==
  LET s    == streams[i]
      rest == Without(round.items[i], s.told)
      over == seen[round.shard[i]]
  IN  [rest  |-> rest, told |-> s.told \cap Range(round.items[i]), state |-> over,
       hit   |-> s.started,
       kind  |-> IF s.done = "exit"
                 THEN IF s.started \in Range(rest) THEN "exit" ELSE "closed"
                 ELSE IF over = "TOP" THEN "top"
                 ELSE IF Len(rest) = 1 /\ over = "OUT_OF_MEMORY" /\ round.top[round.shard[i]]
                      THEN "hog"
                 ELSE "cut"]

\* Mutant: what an exit left behind it is not run again.
VerdictsKeepAll(f) ==
  CASE f.kind = "exit"   -> Cells(Range(f.rest), "exit")
    [] f.kind = "closed" -> Cells(Range(f.rest), "unreported")
    [] f.kind = "top"    -> Cells({f.rest[1]}, "timeout")
    [] f.kind = "hog"    -> Cells(Range(f.rest), "out_of_memory")
    [] OTHER             -> Cells({}, "lost")

\* The cells a round decides of an item's unreported ids.
Verdicts(f) ==
  CASE f.kind = "exit"   -> Cells({f.hit}, "exit")
    [] f.kind = "closed" -> Cells(Range(f.rest), "unreported")
    [] f.kind = "top"    -> Cells({f.rest[1]}, "timeout")
    [] f.kind = "hog"    -> Cells(Range(f.rest), "out_of_memory")
    [] OTHER             -> Cells({}, "lost")

\* Mutant: an item that never closed is not split.
AgainWhole(f) ==
  CASE f.kind = "exit" -> Item(Without(f.rest, {f.hit}))
    [] f.kind = "top"  -> Item(Tail(f.rest))
    [] f.kind = "cut"  -> Item(f.rest)
    [] OTHER           -> <<>>

\* Mutant: the id an exit named runs again.
AgainWithHit(f) ==
  CASE f.kind = "exit" -> <<f.rest>>
    [] f.kind = "top"  -> Item(Tail(f.rest))
    [] f.kind = "cut"  -> Halves(f.rest)
    [] OTHER           -> <<>>

\* What of it runs again, in which items.
Again(f) ==
  CASE f.kind = "exit" -> Item(Without(f.rest, {f.hit}))
    [] f.kind = "top"  -> Item(Tail(f.rest))
    [] f.kind = "cut"  -> Halves(f.rest)
    [] OTHER           -> <<>>

\* oom_bounded(): an id killed alone in its OomRounds-th round gets a cell.
Alone(round, seen) ==
  {round.items[i][1] : i \in {k \in DOMAIN round.items :
                                /\ Len(round.items[k]) = 1
                                /\ seen[round.shard[k]] \notin TimedOut}}

\* Mutant: it is lost alone once more than that.
GivenLate(counted, lost) == {n \in counted : lost[n] > OomRounds}
Given(counted, lost) == {n \in counted : lost[n] >= OomRounds}

\* grown_after(): the first id without a cell of an item left unfinished.
CutIds(round, seen, cells) ==
  {Without(round.items[i], DOMAIN cells)[1] :
     i \in {k \in DOMAIN round.items :
              /\ \E n \in Range(round.items[k]) : n \notin DOMAIN cells
              /\ seen[round.shard[k]] \notin TimedOut}}

-----------------------------------------------------------------------------
(* submit_run() and gather_run(), the steps of caller c.                   *)

At(c, pc) == call[c].pc = pc
Goto(c, pc, st) == call' = [call EXCEPT ![c].pc = pc, ![c].st = st]
Quit(c) == call' = [call EXCEPT ![c] = Idle]

Live(js) == {j \in DOMAIN js : \E n \in DOMAIN js[j].tasks : js[j].tasks[n].state \in Active}

\* submit_run() up to its plan; with every id carried the record is written.
\* Its stamp is new: arrays of an attempt that left no state write where nobody
\* reads, and are followed no further.
SubmitRun(c) ==
  /\ At(c, "idle") /\ disk = NoState
  /\ IF asked.packed = <<>>
     THEN Goto(c, "save", [NewState EXCEPT !.record = TRUE])
     ELSE Goto(c, "plan", [NewState EXCEPT !.owed = asked.packed])
  /\ jobs' = Restrict(jobs, {}) /\ stream' = Restrict(stream, {}) /\ manifest' = Restrict(manifest, {})
  /\ UNCHANGED <<asked, disk, dropped, outages>>

Gather(c) ==
  /\ At(c, "idle") /\ disk # NoState /\ ~disk.record /\ ~dropped
  /\ Goto(c, IF disk.waiting THEN "plan" ELSE "look", disk)
  /\ UNCHANGED <<asked, disk, cluster, dropped, outages>>

TasksOf(round) ==
  UNION {{<<j, n>> : n \in DOMAIN jobs[j].tasks} : j \in round.jobs \cap DOMAIN jobs}

\* sacct: the states of the round's shards, or pending.  A live round whose
\* throttle moved saves the state it loaded.
Look(c) ==
  LET st == call[c].st
      tasks == TasksOf(st.current)
      state(t) == jobs[t[1]].tasks[t[2]].state
  IN  /\ At(c, "look")
      /\ IF \E t \in tasks : state(t) \in Active
         THEN Quit(c) \/ Goto(c, "save", st)
         ELSE call' = [call EXCEPT ![c].pc = "fold",
                ![c].seen = [n \in DOMAIN st.current.top |->
                               state(CHOOSE t \in tasks : t[2] = n)]]
      /\ UNCHANGED <<asked, disk, cluster, dropped, outages>>

\* The cells and the record of a run that goes no further.
Recorded(st, cell) ==
  [st EXCEPT !.cells = Updated(@, Cells(Ids(st.owed), cell)),
             !.owed = <<>>, !.waiting = FALSE, !.polls = 0, !.record = TRUE]

\* What fold() reports of a finished round: the cells it decides, what is owed,
\* whether memory ran out, and the first unreported id of each killed child.
Report(round, streams, seen) ==
  LET f       == [i \in DOMAIN round.items |-> Folded(round, streams, seen, i)]
      told    == UNION {f[i].told : i \in DOMAIN f}
      verdict == UNION {DOMAIN Verdicts(f[i]) : i \in DOMAIN f}
      killed  == {i \in DOMAIN f : streams[i].done = "signal"}
  IN  [cells  |-> Updated(Cells(told, "told"),
                    [n \in verdict |->
                       Verdicts(f[CHOOSE i \in DOMAIN f : n \in DOMAIN Verdicts(f[i])])[n]]),
       owed   |-> FlattenSeq([i \in DOMAIN f |-> Again(f[i])]),
       killed |-> {f[i].rest[1] : i \in {k \in killed : f[k].rest # <<>>}},
       oom    |-> \/ "OUT_OF_MEMORY" \in Range(seen)
                  \/ killed # {} /\ Range(seen) \cap TimedOut = {}]

\* The state after it: what was lost alone in OomRounds rounds has its cell, and
\* what was cut asks a class more.
AfterFold(st, report, seen) ==
  LET round   == st.current
      counted == IF report.oom
                 THEN {n \in Alone(round, seen) : <<n>> \in Range(report.owed)} ELSE {}
      lost    == [n \in Test |-> st.oomLost[n] + IF n \in counted THEN 1 ELSE 0]
      given   == Given(counted, lost)
      cells   == Updated(Updated(st.cells, report.cells), Cells(given, "out_of_memory"))
      cut     == report.killed \cup IF report.oom THEN CutIds(round, seen, cells) ELSE {}
  IN  [st EXCEPT !.cells = cells, !.oomLost = lost,
         !.owed = Without(report.owed, {<<n>> : n \in given}),
         !.grown = [n \in Test |-> IF n \in cut /\ Base[n] + @[n] < Top
                                   THEN @[n] + 1 ELSE @[n]]]

\* The streams are read, the round is folded: what is owed is planned again, up
\* to Retries rounds and, after an OOM, as long as there is a ceiling.  fold()
\* raises on an item in a shard at its longest wall that told of every id and
\* did not close.
Fold(c) ==
  LET st      == call[c].st
      round   == st.current
      seen    == call[c].seen
      streams == [i \in DOMAIN round.items |->
                    IF round.tag \in DOMAIN stream /\ i \in DOMAIN stream[round.tag]
                    THEN stream[round.tag][i] ELSE Unwritten]
      raises  == \E i \in DOMAIN round.items :
                   LET f == Folded(round, streams, seen, i)
                   IN  f.kind = "top" /\ f.rest = <<>>
  IN  /\ At(c, "fold")
      /\ \/ raises /\ Quit(c)
         \/ /\ ~raises
            /\ \E report \in {Report(round, streams, seen)} :
               \E new \in {AfterFold(st, report, seen)} :
                 IF new.owed # <<>> /\ (st.rounds <= Retries \/ (report.oom /\ Ceiling))
                 THEN Goto(c, "plan", new)
                 ELSE Goto(c, "save", Recorded(new, "lost"))
      /\ UNCHANGED <<asked, disk, cluster, dropped, outages>>

\* The memory class an item asks, held to the most any grant gives.
Ask(st, ids) ==
  CHOOSE m \in {Base[n] + st.grown[n] : n \in Range(ids)} :
    \A n \in Range(ids) : Base[n] + st.grown[n] <= m

\* submit_round() plans one array per memory class, the heaviest first, each of
\* one shard or of one shard per item, and writes the manifest.
Plan(c) ==
  LET st    == call[c].st
      class(k) == Without(st.owed, {ids \in Range(st.owed) : Ask(st, ids) # Top - k})
      items == FlattenSeq([k \in 1 .. Top + 1 |-> class(k - 1)])
      bands == {Ask(st, items[i]) : i \in DOMAIN items}
  IN  /\ At(c, "plan") /\ st.rounds < MaxRounds
      /\ \E each \in BOOLEAN :
           LET shard == [i \in DOMAIN items |->
                           IF each THEN i
                           ELSE Cardinality({m \in bands : m >= Ask(st, items[i])})]
               top   == [n \in Range(shard) |-> Ceiling /\
                           \E i \in DOMAIN items : shard[i] = n /\ Ask(st, items[i]) = Top]
               round == [tag |-> st.rounds, items |-> items, shard |-> shard,
                         top |-> top, jobs |-> {}]
           IN  /\ manifest' = [t \in DOMAIN manifest \cup {st.rounds} |->
                                 IF t = st.rounds THEN round ELSE manifest[t]]
               /\ call' = [call EXCEPT ![c].pc = "bands", ![c].round = round,
                    ![c].bands = [k \in 1 .. Cardinality(bands) |->
                       {shard[i] : i \in {h \in DOMAIN items :
                          Cardinality({m \in bands : m >= Ask(st, items[h])}) = k}}]]
      /\ UNCHANGED <<asked, disk, jobs, stream, dropped, outages>>

\* NoRoom: round 0 is not submitted, a later round waits, and what has waited
\* too long never ran.
NoRoom(c) ==
  LET old == call[c].st
  IN  IF old.rounds = 0 THEN Quit(c)
      ELSE IF ~old.waiting
      THEN Goto(c, "save", [old EXCEPT !.waiting = TRUE, !.polls = 0])
      ELSE IF old.polls < StallPolls
      THEN Goto(c, "save", [old EXCEPT !.polls = @ + 1])
      ELSE Goto(c, "save", Recorded(old, "unrun"))

\* The plan has no room for it, or no grant can take it now or ever.
PlanRefused(c) ==
  /\ At(c, "plan") /\ call[c].st.rounds < MaxRounds
  /\ \/ NoRoom(c)
     \/ IF call[c].st.rounds = 0 THEN Quit(c)
        ELSE Goto(c, "save", Recorded(call[c].st, "placement"))
  /\ UNCHANGED <<asked, disk, cluster, dropped, outages>>

Fresh == CHOOSE j \in JobId \ DOMAIN jobs : \A k \in JobId \ DOMAIN jobs : j <= k

\* One sbatch: an array of the next band's shards.
SubmitBand(c) ==
  LET st    == call[c].st
      array == [tag |-> st.rounds,
                tasks |-> [n \in Head(call[c].bands) |->
                             [state |-> "PENDING", todo |-> <<>>, killed |-> FALSE]]]
  IN  /\ At(c, "bands") /\ call[c].bands # <<>>
      /\ DOMAIN jobs # JobId
      /\ jobs' = [j \in DOMAIN jobs \cup {Fresh} |-> IF j = Fresh THEN array ELSE jobs[j]]
      /\ call' = [call EXCEPT ![c].bands = Tail(@), ![c].round.jobs = @ \cup {Fresh}]
      /\ UNCHANGED <<asked, disk, manifest, stream, dropped, outages>>

Cancelled(some) ==
  [j \in DOMAIN jobs |->
     IF j \notin some THEN jobs[j]
     ELSE [jobs[j] EXCEPT !.tasks =
             [n \in DOMAIN @ |-> IF @[n].state \in Active
                                 THEN [state |-> "LOST", todo |-> <<>>, killed |-> FALSE]
                                 ELSE @[n]]]]

\* Mutant: the bands that were queued stay.
LimitKeepsBands(c) ==
  /\ At(c, "bands") /\ call[c].bands # <<>>
  /\ NoRoom(c)
  /\ UNCHANGED <<asked, disk, cluster, dropped, outages>>

\* A band refused on the submit limit cancels the bands already queued.
SubmitLimit(c) ==
  /\ At(c, "bands") /\ call[c].bands # <<>>
  /\ jobs' = Cancelled(call[c].round.jobs)
  /\ NoRoom(c)
  /\ UNCHANGED <<asked, disk, manifest, stream, dropped, outages>>

\* _run_jobs(): each recorded round's arrays, and what Slurm holds by the run's name.
RunJobs == disk.current.jobs \cup Live(jobs)

\* Any other error of a remote command escapes; settle() cancels every job of the run's name, or
\* names those it could not, and drops the run.
Drop(c) ==
  /\ ~At(c, "idle") /\ disk # NoState
  /\ jobs' \in {Cancelled(RunJobs), jobs}
  /\ dropped' = TRUE
  /\ Quit(c)
  /\ UNCHANGED <<asked, disk, manifest, stream, outages>>

Submitted(c) ==
  /\ At(c, "bands") /\ call[c].bands = <<>>
  /\ Goto(c, "save", [call[c].st EXCEPT !.rounds = @ + 1, !.owed = <<>>, !.waiting = FALSE,
                                        !.polls = 0, !.current = call[c].round])
  /\ UNCHANGED <<asked, disk, cluster, dropped, outages>>

\* What no state, no call and no live task refers to is forgotten: it is never
\* read again.
Save(c) ==
  LET rounds == {call[c].st.current}
                  \cup UNION {{call[d].st.current, call[d].round} : d \in Caller \ {c}}
      kept   == Live(jobs) \cup UNION {r.jobs : r \in rounds}
      tags   == {t \in Tag : (\E r \in rounds : t >= r.tag) \/ \E j \in Live(jobs) : t = jobs[j].tag}
  IN  /\ At(c, "save")
      /\ disk' = call[c].st
      /\ jobs' = Restrict(jobs, kept \cap DOMAIN jobs)
      /\ stream' = Restrict(stream, tags \cap DOMAIN stream)
      /\ manifest' = Restrict(manifest, tags \cap DOMAIN manifest)
      /\ Quit(c)
      /\ UNCHANGED <<asked, dropped, outages>>

\* The connection is lost or the caller dies, before any remote command.
Outage(c) ==
  /\ ~At(c, "idle") /\ outages < asked.outages
  /\ outages' = outages + 1
  /\ Quit(c)
  /\ UNCHANGED <<asked, disk, cluster, dropped>>

\* cancel_run(), of a user: every job of the run ends, started or not.  What it
\* ended is folded by a gather as any other loss.
CancelRun ==
  /\ Live(jobs) # {} /\ outages < asked.outages
  /\ jobs' = Cancelled(RunJobs)
  /\ outages' = outages + 1
  /\ UNCHANGED <<asked, disk, call, manifest, stream, dropped>>

\* withdraw_pending(): only the tasks that have not started.
WithdrawPending ==
  /\ Live(jobs) # {} /\ outages < asked.outages
  /\ jobs' = [j \in DOMAIN jobs |->
                IF j \notin RunJobs THEN jobs[j] ELSE
                [jobs[j] EXCEPT !.tasks =
                   [n \in DOMAIN @ |-> IF @[n].state = "PENDING"
                                       THEN [state |-> "LOST", todo |-> <<>>, killed |-> FALSE]
                                       ELSE @[n]]]]
  /\ outages' = outages + 1
  /\ UNCHANGED <<asked, disk, call, manifest, stream, dropped>>

-----------------------------------------------------------------------------
(* The cluster: external, but for what an item writes (pytest_item.run).   *)

Task(j, n) == jobs[j].tasks[n]
SetTask(j, n, task) == jobs' = [jobs EXCEPT ![j].tasks[n] = task]

\* A task reads the manifest when it starts; a task it does not name fails.
Start(j, n) ==
  LET round == manifest[jobs[j].tag]
      mine  == Without([i \in DOMAIN round.items |-> i], {i \in DOMAIN round.items : round.shard[i] # n})
  IN  /\ Task(j, n).state = "PENDING"
      /\ SetTask(j, n,
           IF mine = <<>> THEN [state |-> "LOST", todo |-> <<>>, killed |-> FALSE]
           ELSE [state |-> "RUNNING", killed |-> FALSE,
                 todo |-> [k \in DOMAIN mine |-> [item |-> mine[k], ids |-> round.items[mine[k]]]]])
      /\ UNCHANGED <<asked, disk, call, manifest, stream, dropped, outages>>

\* Slurm ends a task that has not started: its node failed, it was cancelled.
NeverStarts(j, n) ==
  /\ Task(j, n).state = "PENDING"
  /\ SetTask(j, n, [state |-> "LOST", todo |-> <<>>, killed |-> FALSE])
  /\ UNCHANGED <<asked, disk, call, manifest, stream, dropped, outages>>

Write(tag, i, s) ==
  LET old == IF tag \in DOMAIN stream THEN stream[tag] ELSE [k \in {} |-> s]
      new == [k \in DOMAIN old \cup {i} |-> IF k = i THEN s ELSE old[k]]
  IN  stream' = [t \in DOMAIN stream \cup {tag} |-> IF t = tag THEN new ELSE stream[t]]

\* What an item may have written of its ids when k of them were told: it has
\* started the next one, or, closing by itself, has not.
Written(ids, k, done) ==
  {[told |-> {ids[h] : h \in 1 .. k}, started |-> s, done |-> done] :
     s \in IF k = Len(ids) THEN {NoTest}
           ELSE {ids[k + 1]} \cup (IF done = "exit" THEN {NoTest} ELSE {})}

\* The next item of a running task: it tells of its first k ids and closes by
\* itself or by a signal, or its task ends under it.
RunItem(j, n) ==
  LET task == Task(j, n)
      ids  == Head(task.todo).ids
      i    == Head(task.todo).item
      left == Tail(task.todo)
  IN  /\ task.state = "RUNNING"
      /\ \E k \in 0 .. Len(ids) :
           \/ \E done \in {"exit", "signal"} :
                LET killed == task.killed \/ done = "signal"
                    ends   == IF left # <<>> THEN {"RUNNING"}
                              ELSE IF killed THEN {"OUT_OF_MEMORY", "COMPLETED"}
                              ELSE {"COMPLETED"}
                IN  /\ done = "signal" /\ k = Len(ids) => EndsLate
                    /\ \E s \in Written(ids, k, done) : Write(jobs[j].tag, i, s)
                    /\ \E state \in ends :
                         SetTask(j, n, [state |-> state, todo |-> left,
                                         killed |-> killed /\ state = "RUNNING"])
           \/ \E state \in {"TIMEOUT", "TOP", "OUT_OF_MEMORY", "LOST"} :
                /\ k = Len(ids) => EndsLate
                /\ \E s \in Written(ids, k, "open") : Write(jobs[j].tag, i, s)
                /\ SetTask(j, n, [state |-> state, todo |-> <<>>, killed |-> FALSE])
      /\ UNCHANGED <<asked, disk, call, manifest, dropped, outages>>

Step(c) ==
  \/ Gather(c) \/ Look(c) \/ Fold(c) \/ Plan(c) \/ PlanRefused(c)
  \/ SubmitBand(c) \/ SubmitLimit(c) \/ Submitted(c) \/ Save(c)

\* A run that has its record, or is dropped, is followed no further.
Over == dropped \/ (disk # NoState /\ disk.record)

Runs(j, n) == Start(j, n) \/ NeverStarts(j, n) \/ RunItem(j, n)

Next ==
  \/ \E c \in Caller : SubmitRun(c) \/ Step(c) \/ Drop(c) \/ Outage(c)
  \/ ~Over /\ (CancelRun \/ WithdrawPending)
  \/ \E j \in DOMAIN jobs : \E n \in DOMAIN jobs[j].tasks : ~Over /\ Runs(j, n)

Spec == Init /\ [][Next]_vars

\* The caller polls, and every task of Slurm's comes to an end.
FairSpec ==
  /\ Spec
  /\ \A c \in Caller : WF_vars(Step(c))
  /\ WF_vars(\E j \in DOMAIN jobs : \E n \in DOMAIN jobs[j].tasks : Runs(j, n))

-----------------------------------------------------------------------------
\* The variables have their types, and no run comes to MaxRounds rounds or needs
\* more than MaxJobs arrays at once: the bounds cut nothing off.
TypeOK ==
  /\ disk.rounds \in -1 .. MaxRounds - 1
  /\ DOMAIN disk.cells \subseteq Test /\ Range(disk.cells) \subseteq Cell
  /\ disk.oomLost \in [Test -> 0 .. OomRounds] /\ disk.grown \in [Test -> 0 .. Top]
  /\ \A c \in Caller : call[c].pc \in {"idle", "look", "fold", "plan", "bands", "save"}
  /\ DOMAIN jobs \subseteq 1 .. MaxJobs - 1
  /\ \A j \in DOMAIN jobs : \A n \in DOMAIN jobs[j].tasks : Task(j, n).state \in TaskState
  /\ DOMAIN stream \cup DOMAIN manifest \subseteq Tag
  /\ dropped \in BOOLEAN /\ outages \in 0 .. asked.outages

Owed(st) == IF st.waiting THEN st.owed ELSE st.current.items

\* gather.py:56-58: whatever ends, is refused or cut short, no id is lost and
\* none is owed that has its cell: what the state holds are its cells and, once
\* each, the ids still to run; a record has a cell for every id.
EveryTestIsAccountedFor ==
  disk # NoState =>
    IF disk.record THEN DOMAIN disk.cells = Test
    ELSE LET groups == FlattenSeq(Owed(disk))
         IN  /\ Range(groups) = Test \ DOMAIN disk.cells
             /\ Len(groups) = Cardinality(Range(groups))

\* run.py:27-33: a test that has its cell keeps it, whatever runs again.
CellsStand ==
  [][disk # NoState =>
       \A n \in DOMAIN disk.cells : n \in DOMAIN disk'.cells /\ disk'.cells[n] = disk.cells[n]]_vars

\* cluster.py:343: a round is whole or not at all: with no call cut short, an
\* array that may still run belongs to the round in flight or to the call that
\* is submitting it, so that none holds submit slots for nothing.
ArraysAreOwned ==
  outages = 0 /\ ~dropped =>
    \A j \in Live(jobs) : j \in disk.current.jobs \/ \E c \in Caller : j \in call[c].round.jobs

\* run.py:41-48: rounds end, those after an OOM too, and a run in its record.
RunEnds == disk # NoState ~> disk.record \/ dropped
=============================================================================
