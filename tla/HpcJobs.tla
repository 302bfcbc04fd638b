------------------------------- MODULE HpcJobs -------------------------------
(***************************************************************************)
(* A job file's batch over the grants it spans: hpc/jobs.py, the arrays of *)
(* cluster.submit() and the one results file that every task of an array   *)
(* appends to (worker.py).                                                 *)
(*                                                                         *)
(* The caller's record, <job>.submission.json, is saved once, at the end   *)
(* of a submit or a retry; each remote command before it may find its      *)
(* grant silent, or be the last of its call.  Run directories are named by *)
(* the grant and a tag, results are never removed, and a task appends      *)
(* under a lock that its death releases.                                   *)
(***************************************************************************)
EXTENDS Integers, FiniteSets, SequencesExt

CONSTANTS
  Grants,       \* the machine's grants, in its order
  BatchSize,    \* the items of the batch are 0 .. BatchSize - 1
  MaxTroubles, MaxJobs   \* bounds: silent grants, killed tasks, late listings (for two) and calls cut short together; arrays

VARIABLES
  record,       \* <job>.submission.json, or NoRecord
  call,         \* the caller's submit or retry
  manifest,     \* the manifest of a run directory
  results,      \* its results file
  jobs,         \* the arrays, by job id
  unlisted,     \* the arrays sacct does not list yet
  troubles,     \* silent grants, tasks killed or failed, arrays listed late, calls ended before they saved
  unseen        \* an array was listed late, or a call ended before it saved

vars == <<record, call, manifest, results, jobs, unlisted, troubles, unseen>>
home == <<manifest, results>>
bounds == <<troubles, unseen>>

Item == 0 .. BatchSize - 1
JobId == 1 .. MaxJobs
Grant == Range(Grants)
\* How a task ended, COMPLETED or not, only the reader of a status is told.
Active == {"PENDING", "RUNNING"}

\* A placement: its grant and tag, its slice [from, to) of the batch, its arrays
\* in the order they were submitted, and how many shards it has.  Of the moved
\* placements only their number is read.
Dir(placement) == <<placement.grant, placement.tag>>
NoRecord == [placements |-> <<>>, moved |-> 0]

\* A call: its record so far; the placement it is at, the shard states it saw
\* there and the shards to send again; the placements whose grants were silent,
\* how many of them are placed again, the slices to submit and those submitted.
Idle == [pc |-> "idle", rec |-> NoRecord, at |-> 0, seen |-> <<>>, redo |-> {},
         dead |-> <<>>, again |-> 0, todo |-> <<>>, placed |-> <<>>]

JobsAssumption ==
  /\ Grants # <<>> /\ IsInjective(Grants)
  /\ BatchSize \in Nat \ {0}
  /\ {MaxTroubles, MaxJobs} \subseteq Nat

Init ==
  /\ record = NoRecord /\ call = Idle
  /\ manifest = [d \in {} |-> <<>>] /\ results = [d \in {} |-> <<>>]
  /\ jobs = [j \in {} |-> <<>>] /\ unlisted = {}
  /\ troubles = 0 /\ unseen = FALSE

-----------------------------------------------------------------------------
(* The results file, as _returned() folds its lines: the latest line of    *)
(* each item and the latest close of each shard, whether the file ends in  *)
(* a torn line, and whether a torn line lies before another.               *)

NoLines == [items |-> [i \in {} |-> 0], codes |-> [s \in {} |-> 0], torn |-> FALSE, broken |-> FALSE]
ItemLine(shard, index, of) == [kind |-> "item", shard |-> shard, index |-> index, of |-> of]
ShardLine(shard, code) == [kind |-> "shard", shard |-> shard, code |-> code]

Set(f, x, y) == [z \in DOMAIN f \cup {x} |-> IF z = x THEN y ELSE f[z]]
Folded(file, line) ==
  IF line.kind = "item"
  THEN [file EXCEPT !.items = Set(@, line.index, [shard |-> line.shard, of |-> line.of])]
  ELSE [file EXCEPT !.codes = Set(@, line.shard, line.code)]

\* Mutant: the torn tail of a killed writer is left.
AppendedPlain(file, line) ==
  [Folded(file, line) EXCEPT !.broken = @ \/ file.torn, !.torn = FALSE]

\* append_event(): a killed writer's torn tail is cut, then the line is written.
Appended(file, line) == [Folded(file, line) EXCEPT !.torn = FALSE]

\* The shards whose last close has exit 0, with the latest line of their items.
Returned(file) ==
  [s \in {t \in DOMAIN file.codes : file.codes[t] = 0} |->
     {[index |-> i, of |-> file.items[i].of] : i \in {h \in DOMAIN file.items : file.items[h].shard = s}}]

LinesOf(placement) ==
  IF Dir(placement) \in DOMAIN results THEN results[Dir(placement)] ELSE NoLines

\* gather_job(): what a placement contributes, at its place in the batch.
Gathered(placement) ==
  LET returned == Returned(LinesOf(placement))
  IN  UNION {{[index |-> placement.from + r.index, of |-> r.of] : r \in returned[s]} :
               s \in DOMAIN returned}

-----------------------------------------------------------------------------
(* The caller.                                                             *)

At(pc) == call.pc = pc
Trouble == troubles < MaxTroubles /\ troubles' = troubles + 1

\* submit_job().  Its stamp is new: what an attempt that left no record has
\* submitted writes where nobody reads, and is followed no further.
SubmitJob ==
  /\ At("idle") /\ record = NoRecord
  /\ call' = [Idle EXCEPT !.pc = "place"]
  /\ manifest' = Restrict(manifest, {}) /\ results' = Restrict(results, {})
  /\ jobs' = Restrict(jobs, {}) /\ unlisted' = {}
  /\ UNCHANGED <<record, bounds>>

\* What _place() submits: a silent placement's slice, else the whole batch.
Moving == call.dead # <<>>
Slice == IF Moving THEN <<call.dead[1 + call.again].from, call.dead[1 + call.again].to>>
         ELSE <<0, BatchSize>>
Alive == Grant \ {p.grant : p \in Range(call.dead)}

\* span(): consecutive ranges of the slice over some of the grants, in their
\* order; tiered(), or a tree that cannot be made, leaves out the others.
Cuts(from, to, usable) ==
  UNION {LET order == SelectSeq(Grants, LAMBDA g : g \in some)
             n     == Len(order)
         IN  {[k \in 1 .. n |-> [grant |-> order[k], from |-> ends[k], to |-> ends[k + 1]]] :
                ends \in {e \in [1 .. n + 1 -> from .. to] :
                            e[1] = from /\ e[n + 1] = to /\ \A k \in 1 .. n : e[k] < e[k + 1]}} :
         some \in SUBSET usable \ {{}}}

Place ==
  /\ At("place")
  /\ \E cut \in Cuts(Slice[1], Slice[2], Alive) :
       call' = [call EXCEPT !.pc = "write", !.todo = cut, !.placed = <<>>]
  /\ UNCHANGED <<record, home, jobs, unlisted, bounds>>

\* With every grant silent the retry is refused, whatever it has sent again.
NoGrantAnswers ==
  /\ At("place") /\ Alive = {}
  /\ call' = Idle
  /\ unseen' = (unseen \/ call.rec # record)
  /\ UNCHANGED <<record, home, jobs, unlisted, troubles>>

\* The tag of the next slice: the call's stamp, and in a retry how many were moved.
Tag == (IF Moving THEN <<call.rec.moved, call.again>> ELSE <<>>)
         \o <<Len(call.placed)>>

\* submit() writes the manifest and the script: one shard, or one per item.
WriteManifest ==
  /\ At("write")
  /\ call' = [call EXCEPT !.pc = "sbatch"]
  /\ \E dir \in {<<Head(call.todo).grant, Tag>>}, n \in {Head(call.todo).to - Head(call.todo).from} :
     \E shards \in {<<<<0, n>>>>, [k \in 1 .. n |-> <<k - 1, k>>]} :
       /\ manifest' = Set(manifest, dir, [from |-> Head(call.todo).from, shards |-> shards])
       /\ results' = IF dir \in DOMAIN results THEN results ELSE Set(results, dir, NoLines)
  /\ UNCHANGED <<record, jobs, unlisted, bounds>>

NextJob == CHOOSE j \in 1 .. MaxJobs + 1 : j \notin DOMAIN jobs /\ 1 .. j - 1 \subseteq DOMAIN jobs
Pending == [state |-> "PENDING", todo |-> <<>>, code |-> 0]

\* One sbatch: an array of these shards of a run directory.  sacct lists it at
\* once, or some time later.
Array(dir, shards) ==
  /\ NextJob \in JobId
  /\ jobs' = Set(jobs, NextJob, [dir |-> dir, tasks |-> [s \in shards |-> Pending]])
  /\ \/ UNCHANGED <<unlisted, bounds>>
     \/ /\ unlisted' = unlisted \cup {NextJob} /\ unseen' = TRUE
        /\ troubles + 2 <= MaxTroubles /\ troubles' = troubles + 2

\* After the last slice, the placement a retry moved leaves the record.
Placed(placements) ==
  LET rec == call.rec
  IN  IF ~Moving
      THEN [call EXCEPT !.pc = "save", !.rec.placements = placements]
      ELSE LET p == call.dead[1 + call.again]
           IN  [call EXCEPT !.pc = IF call.again + 1 < Len(call.dead) THEN "place" ELSE "save",
                  !.again = @ + 1, !.todo = <<>>, !.placed = <<>>,
                  !.rec = [placements |-> SelectSeq(rec.placements, LAMBDA q : q # p) \o placements,
                           moved |-> rec.moved + 1]]

SubmitSlice ==
  /\ At("sbatch")
  /\ \E slice \in {Head(call.todo)}, tag \in {Tag} :
     \E shards \in {DOMAIN manifest[<<slice.grant, tag>>].shards} :
     \E placed \in {Append(call.placed,
                      [grant |-> slice.grant, tag |-> tag, from |-> slice.from, to |-> slice.to,
                       jobs |-> <<NextJob>>, shards |-> Cardinality(shards)])} :
       /\ Array(<<slice.grant, tag>>, shards)
       /\ call' = IF Len(call.todo) = 1 THEN Placed(placed)
                  ELSE [call EXCEPT !.pc = "write", !.todo = Tail(@), !.placed = placed]
  /\ UNCHANGED <<record, home>>

\* retry_job() loads the record and asks each placement's grant in turn.
Retry ==
  /\ At("idle") /\ record # NoRecord
  /\ call' = [Idle EXCEPT !.pc = "states", !.rec = record, !.at = 1]
  /\ UNCHANGED <<record, home, jobs, unlisted, bounds>>

Here == call.rec.placements[call.at]
Onward(c) ==
  [c EXCEPT !.at = @ + 1, !.seen = <<>>, !.redo = {},
     !.pc = IF call.at < Len(call.rec.placements) THEN "states"
            ELSE IF c.dead = <<>> THEN "save" ELSE "place"]

\* Mutant: the first array that has the shard tells its state.
ShardStateFirst(placement, s) ==
  LET listed == {k \in DOMAIN placement.jobs :
                   /\ placement.jobs[k] \notin unlisted
                   /\ s \in DOMAIN jobs[placement.jobs[k]].tasks}
  IN  IF listed = {} THEN "none"
      ELSE jobs[placement.jobs[Min(listed)]].tasks[s].state

\* shard_states(): the latest array that sacct lists with a shard tells its state.
ShardState(placement, s) ==
  LET listed == {k \in DOMAIN placement.jobs :
                   /\ placement.jobs[k] \notin unlisted
                   /\ s \in DOMAIN jobs[placement.jobs[k]].tasks}
  IN  IF listed = {} THEN "none"
      ELSE jobs[placement.jobs[Max(listed)]].tasks[s].state

ReadStates ==
  /\ At("states")
  /\ call' = [call EXCEPT !.pc = "gather",
                !.seen = [s \in 1 .. Here.shards |-> ShardState(Here, s)]]
  /\ UNCHANGED <<record, home, jobs, unlisted, bounds>>

\* shard_counts() and settled(): every grant answered, and no shard of a
\* placement is still queued or running.
Settled(placements) ==
  \A p \in Range(placements) : \A s \in 1 .. p.shards : ShardState(p, s) \notin Active

\* Mutant: what has returned is sent again.
GatherHereAll ==
  /\ At("gather") /\ ~LinesOf(Here).broken
  /\ \E redo \in {{s \in 1 .. Here.shards : call.seen[s] \notin Active}} :
       call' = IF redo = {} THEN Onward(call) ELSE [call EXCEPT !.pc = "again", !.redo = redo]
  /\ UNCHANGED <<record, home, jobs, unlisted, bounds>>

\* Mutant: a shard that was closed is not sent again, whatever its exit.
GatherHereClosed ==
  /\ At("gather") /\ ~LinesOf(Here).broken
  /\ \E redo \in {{s \in 1 .. Here.shards :
                    s \notin DOMAIN LinesOf(Here).codes /\ call.seen[s] \notin Active}} :
       call' = IF redo = {} THEN Onward(call) ELSE [call EXCEPT !.pc = "again", !.redo = redo]
  /\ UNCHANGED <<record, home, jobs, unlisted, bounds>>

\* The shards to send again; an unreadable results file raises.
GatherHere ==
  /\ At("gather") /\ ~LinesOf(Here).broken
  /\ \E redo \in {{s \in 1 .. Here.shards :
                    s \notin DOMAIN Returned(LinesOf(Here)) /\ call.seen[s] \notin Active}} :
       call' = IF redo = {} THEN Onward(call) ELSE [call EXCEPT !.pc = "again", !.redo = redo]
  /\ UNCHANGED <<record, home, jobs, unlisted, bounds>>

\* A placement whose grant is silent is placed again after the others.
GrantSilent ==
  /\ At("states") \/ At("gather")
  /\ Trouble
  /\ call' = Onward([call EXCEPT !.dead = Append(@, Here)])
  /\ UNCHANGED <<record, home, jobs, unlisted, unseen>>

\* submit(only = redo): the manifest and the script stay as they were written.
Resubmit ==
  /\ At("again")
  /\ Array(Dir(Here), call.redo)
  /\ call' = Onward([call EXCEPT !.rec.placements[call.at].jobs = Append(@, NextJob)])
  /\ UNCHANGED <<record, home>>

\* A directory that is read again: on the record, or of a tag still to come.
Needed(rec, dir) ==
  \/ dir \in {Dir(p) : p \in Range(rec.placements)}
  \/ Len(dir[2]) = 3 /\ dir[2][1] >= rec.moved

\* What is never read again is forgotten.
Save ==
  /\ At("save")
  /\ record' = call.rec
  /\ call' = Idle
  /\ \E dirs \in {{d \in DOMAIN manifest : Needed(call.rec, d)}} :
       /\ manifest' = Restrict(manifest, dirs) /\ results' = Restrict(results, dirs)
       /\ jobs' = Restrict(jobs, {j \in DOMAIN jobs : jobs[j].dir \in dirs})
       /\ unlisted' = {j \in unlisted : jobs[j].dir \in dirs}
  /\ UNCHANGED bounds

\* A command finds its grant silent, is refused, or nothing can take a slice:
\* the error leaves the call before it saved.
Escapes ==
  /\ ~At("idle")
  /\ Trouble /\ unseen' = TRUE
  /\ call' = Idle
  /\ UNCHANGED <<record, home, jobs, unlisted>>

-----------------------------------------------------------------------------
(* The arrays.                                                             *)

Task(j, s) == jobs[j].tasks[s]
Lines(j) == results[jobs[j].dir]
SetTask(j, s, task) == jobs' = [jobs EXCEPT ![j].tasks[s] = task]
Write(j, lines) == results' = [results EXCEPT ![jobs[j].dir] = lines]
Ended == [state |-> "ENDED", todo |-> <<>>, code |-> 0]
Still == UNCHANGED <<record, call, manifest, unlisted, unseen>>

\* sacct lists a late array.
Listed(j) ==
  /\ unlisted' = unlisted \ {j}
  /\ UNCHANGED <<record, call, home, jobs, bounds>>

\* The worker reads the manifest; a shard it does not name is an exit 1.
Start(j, s) ==
  LET m == manifest[jobs[j].dir]
  IN  /\ Task(j, s).state = "PENDING"
      /\ SetTask(j, s,
           IF s \in DOMAIN m.shards
           THEN [state |-> "RUNNING", code |-> 0,
                 todo |-> [k \in 1 .. m.shards[s][2] - m.shards[s][1] |->
                             LET index == m.shards[s][1] + k - 1
                             IN  ItemLine(s, index, m.from + index)]]
           ELSE [state |-> "RUNNING", code |-> 1, todo |-> <<>>])
      /\ results' = results /\ troubles' = troubles
      /\ Still

\* run_shard(): the next item's line.
RunItem(j, s) ==
  LET task == Task(j, s)
  IN  /\ task.state = "RUNNING" /\ task.todo # <<>>
      /\ Write(j, Appended(Lines(j), Head(task.todo)))
      /\ SetTask(j, s, [task EXCEPT !.todo = Tail(@)])
      /\ troubles' = troubles
      /\ Still

\* The worker itself fails: it could not write a line.
WorkerFails(j, s) ==
  /\ Task(j, s).state = "RUNNING" /\ Task(j, s).todo # <<>>
  /\ SetTask(j, s, [Task(j, s) EXCEPT !.todo = <<>>, !.code = 1])
  /\ results' = results
  /\ Trouble /\ Still

\* The script closes the shard with the worker's exit.
CloseShard(j, s) ==
  LET task == Task(j, s)
  IN  /\ task.state = "RUNNING" /\ task.todo = <<>>
      /\ Write(j, Appended(Lines(j), ShardLine(s, task.code)))
      /\ SetTask(j, s, Ended)
      /\ troubles' = troubles
      /\ Still

\* What a writer that dies leaves of its append.
Torn(file) == {file, [file EXCEPT !.torn = FALSE], [file EXCEPT !.torn = TRUE]}

\* Slurm kills the task: in its worker, or in the close.
Killed(j, s) ==
  /\ Task(j, s).state = "RUNNING"
  /\ \E lines \in Torn(Lines(j)) : Write(j, lines)
  /\ SetTask(j, s, Ended)
  /\ Trouble /\ Still

\* The close dies alone: the task's exit stays the worker's.
CloseFails(j, s) ==
  /\ Task(j, s).state = "RUNNING" /\ Task(j, s).todo = <<>>
  /\ \E lines \in Torn(Lines(j)) : Write(j, lines)
  /\ SetTask(j, s, Ended)
  /\ Trouble /\ Still

NeverStarts(j, s) ==
  /\ Task(j, s).state = "PENDING"
  /\ SetTask(j, s, Ended)
  /\ results' = results
  /\ Trouble /\ Still

Working ==
  \/ Place \/ NoGrantAnswers \/ WriteManifest \/ SubmitSlice \/ ReadStates \/ GatherHere \/ Resubmit \/ Save
Runs == \E j \in DOMAIN jobs : \E s \in DOMAIN jobs[j].tasks :
          Start(j, s) \/ RunItem(j, s) \/ CloseShard(j, s)
Breaks == \E j \in DOMAIN jobs : \E s \in DOMAIN jobs[j].tasks :
            WorkerFails(j, s) \/ Killed(j, s) \/ CloseFails(j, s) \/ NeverStarts(j, s)

Next ==
  \/ SubmitJob \/ Retry \/ Working \/ GrantSilent \/ Escapes
  \/ Runs \/ Breaks
  \/ \E j \in unlisted : Listed(j)

Spec == Init /\ [][Next]_vars

\* The caller goes on with a call it began and retries; the tasks Slurm holds run.
FairSpec == Spec /\ WF_vars(SubmitJob \/ Retry \/ Working) /\ WF_vars(Runs)

-----------------------------------------------------------------------------
Slices(placements) == [k \in DOMAIN placements |-> placements[k].from .. placements[k].to - 1]

\* The variables have their types, and no run needs more than MaxJobs arrays.
TypeOK ==
  /\ record.moved \in Nat /\ \A p \in Range(record.placements) :
       p.grant \in Grant /\ p.from \in Item /\ p.to \in 1 .. BatchSize /\ p.jobs \in Seq(JobId)
  /\ call.pc \in {"idle", "place", "write", "sbatch", "states", "gather", "again", "save"}
  /\ DOMAIN manifest = DOMAIN results /\ unlisted \subseteq DOMAIN jobs
  /\ DOMAIN jobs \subseteq 1 .. MaxJobs - 1
  /\ troubles \in 0 .. MaxTroubles /\ unseen \in BOOLEAN

\* jobs.py:17-23: whatever was moved, the placements on the record are the batch:
\* each item is in one slice, so that a gather reports it at most once.
PlacementsAreTheBatch ==
  record # NoRecord =>
    /\ UNION Range(Slices(record.placements)) = Item
    /\ \A k, l \in DOMAIN record.placements :
         k # l => Slices(record.placements)[k] \cap Slices(record.placements)[l] = {}

\* worker.py:14-17: only the last line may be torn, whoever was killed when, so
\* that a gather, which takes no lock, can always read the file.
EveryReadParses == \A d \in DOMAIN results : ~results[d].broken

\* worker.py:24: a returned shard has the result of each of its items, and of no
\* other, at the item's place in the batch, unless the caller did not see an array.
ReturnedIsWhole ==
  ~unseen =>
    \A p \in Range(record.placements) :
      LET returned == Returned(LinesOf(p))
      IN  \A s \in DOMAIN returned :
            LET range == manifest[Dir(p)].shards[s]
            IN  {p.from + r.index : r \in returned[s]} = p.from + range[1] .. p.from + range[2] - 1
                /\ \A r \in returned[s] : r.of = p.from + r.index

\* What is on the record, and what its gather reads, is the batch.
ResultsAreWhole == TypeOK /\ PlacementsAreTheBatch /\ EveryReadParses /\ ReturnedIsWhole

\* jobs.py:17: a shard is sent again only when nothing runs it: unless an array
\* was listed late or a call ended before it saved, two tasks never run one shard of one directory.
OneTaskRunsAShard ==
  ~unseen =>
    \A j, k \in DOMAIN jobs : j # k /\ jobs[j].dir = jobs[k].dir =>
      \A s \in DOMAIN jobs[j].tasks \cap DOMAIN jobs[k].tasks :
        ~(Task(j, s).state \in Active /\ Task(k, s).state \in Active)

\* __main__.py:150: gather --wait reads the results once no shard is active.  If
\* the caller saw every array, no task writes in a placement's directory then.
SettledIsOver ==
  /\ ~unseen /\ call.pc = "idle" /\ Settled(record.placements)
  => \A j \in DOMAIN jobs : \A s \in DOMAIN jobs[j].tasks : Task(j, s).state \notin Active

\* No shard is run by two tasks, nor by one that a caller believes is over.
ShardsRunOnce == OneTaskRunsAShard /\ SettledIsOver

\* worker.py:24-25: a shard that was returned stays so, with the results it had,
\* as long as its placement is on the record.
ReturnedStays ==
  [][~unseen' =>
       \A p \in Range(record.placements) : Dir(p) \in DOMAIN results' =>
         \A s \in DOMAIN Returned(LinesOf(p)) :
           /\ s \in DOMAIN Returned(results'[Dir(p)])
           /\ Returned(results'[Dir(p)])[s] = Returned(LinesOf(p))[s]]_vars

\* jobs.py:20-23: with a caller that retries, every item of the batch is reported
\* in the end, whichever tasks are killed and whichever grants fall silent.
BatchReturns ==
  record # NoRecord ~>
    {r.index : r \in UNION {Gathered(record.placements[k]) : k \in DOMAIN record.placements}} = Item
=============================================================================
