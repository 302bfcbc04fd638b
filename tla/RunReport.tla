------------------------------- MODULE RunReport -------------------------------
(***************************************************************************)
(* What is read of a remote run beside its cells, all pure: what a round   *)
(* lost, the streams that are kept of it, what a later run carries of it,  *)
(* a state of an earlier shape (records.py), where it is (progress.py) and *)
(* how a gather of several runs ends (watch.py).                           *)
(*                                                                         *)
(* An item of a folded round is [ids, cells: of those that it told of,     *)
(* seconds of each, started, done: "open", "exited" or "killed", wall]; a  *)
(* shard is [from, to: its items, wall, state, top: cut at the longest     *)
(* wall, ceiling: at the most memory any grant gives].                     *)
(***************************************************************************)
EXTENDS TestCells

NoAnswer == "none"
NoCells == [n \in {} |-> Nothing]
Unreported(i) == SelectSeq(i.ids, LAMBDA n : n \notin DOMAIN i.cells)
ItemsOf(shard) == shard.from + 1 .. shard.to
ShardOf(shards, k) == CHOOSE s \in Range(shards) : k \in ItemsOf(s)

-----------------------------------------------------------------------------
(* What a round lost.                                                      *)

\* _killed_after(): the items of a shard run one after the other, the first that
\* never closed had what the shard's wall had left, and none ran after it.
KilledAfter(items, shard) ==
  LET open   == {k \in ItemsOf(shard) : items[k].done = "open"}
      last   == IF open = {} THEN shard.to ELSE Min(open) - 1
      before == FoldFunctionOnSet(LAMBDA i, sum : i.wall + sum, 0, items, shard.from + 1 .. last)
  IN  [k \in {j \in shard.from + 1 .. last : items[j].done = "killed"} \cup (IF open = {} THEN {} ELSE {Min(open)}) |->
         IF items[k].done = "killed" THEN items[k].wall ELSE Max({0, shard.wall - before})]

Loss(id, kind, wall) == [id |-> id, kind |-> kind, wall |-> wall]

\* The id an item was at: the last it started, unless it told of that one.
CutId(i) == IF i.started \in Range(Unreported(i)) THEN i.started ELSE Head(Unreported(i))

\* Slurm said so, or a signal came of something other than its wall.
KindOf(i, shard) ==
  CASE i.done = "exited" -> "exit"
    [] i.done # "exited" /\ (shard.state = "OUT_OF_MEMORY" \/ (i.done = "killed" /\ shard.state # "TIMEOUT")) -> "out_of_memory"
    [] i.done # "exited" /\ shard.state = "TIMEOUT" -> "timeout"
    [] OTHER -> "killed"
\* A wall of 0 is not known.
WallOf(i, k, spent) == IF i.done # "open" THEN i.wall ELSE IF k \in DOMAIN spent THEN spent[k] ELSE 0

Missed(i) == {n \in DOMAIN i.cells : Badness(i.cells[n]) = 0}
LossesOf(items, k, shard) ==
  {Loss(n, items[k].cells[n].status, items[k].seconds[n]) : n \in Missed(items[k])}
  \cup IF Unreported(items[k]) = <<>> THEN {}
       ELSE {Loss(CutId(items[k]), KindOf(items[k], shard), WallOf(items[k], k, KilledAfter(items, shard)))}
RoundLosses(items, shards) == UNION {LossesOf(items, k, ShardOf(shards, k)) : k \in DOMAIN items}

\* What fold() makes of the same item: the cells it gives, and the groups that run again.
NonEmpty(groups) == SelectSeq(groups, LAMBDA g : g # <<>>)
Fate(given, again) == [given |-> given, again |-> NonEmpty(again)]
FateOf(i, shard) ==
  LET rest  == Unreported(i)
      half  == (Len(rest) + 1) \div 2
      why   == [n \in {Head(rest)} |-> IF shard.state = "TIMEOUT" THEN "timeout" ELSE "out_of_memory"]
  IN  CASE i.done = "exited" /\ i.started \in Range(rest) ->
             Fate([n \in {i.started} |-> "exit"], <<SelectSeq(rest, LAMBDA n : n # i.started)>>)
        [] i.done = "exited" /\ i.started \notin Range(rest) -> Fate([n \in Range(rest) |-> "unreported"], <<>>)
        [] i.done # "exited" /\ shard.state = "TIMEOUT" /\ shard.top -> Fate(why, <<Tail(rest)>>)
        [] i.done # "exited" /\ shard.state = "OUT_OF_MEMORY" /\ shard.ceiling /\ Len(rest) = 1 -> Fate(why, <<>>)
        [] OTHER -> Fate([n \in {} |-> NoAnswer], <<SubSeq(rest, 1, half), SubSeq(rest, half + 1, Len(rest))>>)

-----------------------------------------------------------------------------
(* The stream of a round.  A line is [round] for a header, else [item,     *)
(* what]: "begin", a payload, or "torn"; a line without its item is in the *)
(* section of a retired many-file listing.                                 *)

Header(tag) == [kind |-> "round", tag |-> tag]
Line(item, what) == [kind |-> "line", item |-> item, what |-> what]
Section(item) == [kind |-> "section", item |-> item]
Bare(what) == [kind |-> "untagged", what |-> what]
TornLine == [kind |-> "torn"]
NoSection == 0

\* tagged(): a torn line is dropped, and one that no item can be told of.
TaggedOne(t, line) ==
  CASE line.kind = "section" -> [t EXCEPT !.section = line.item]
    [] line.kind \in {"round", "line"} -> [t EXCEPT !.lines = Append(@, line)]
    [] line.kind = "untagged" /\ t.section # NoSection -> [t EXCEPT !.lines = Append(@, Line(t.section, line.what))]
    [] OTHER -> t
Tagged(text) == FoldLeft(TaggedOne, [section |-> NoSection, lines |-> <<>>], text).lines

\* split_streams(): of round `tag`, each item's lines since its last begin.
SplitOne(s, line) ==
  CASE line.kind = "round" -> [s EXCEPT !.ours = line.tag = s.tag]
    [] line.kind = "line" /\ s.ours ->
         [s EXCEPT !.of = [k \in DOMAIN @ \cup {line.item} |->
            IF k # line.item THEN @[k]
            ELSE IF line.what = "begin" THEN <<>>
            ELSE Append(IF k \in DOMAIN @ THEN @[k] ELSE <<>>, line.what)]]
    [] OTHER -> s
SplitStreams(text, tag) ==
  FoldLeft(SplitOne, [ours |-> TRUE, tag |-> tag, of |-> [k \in {} |-> <<>>]], Tagged(text)).of

\* kept_text(): what retention keeps of a round before its tree goes.
KeptText(live, tag) ==
  LET lines == SelectSeq(Tagged(live), LAMBDA l : l.kind # "round")
  IN  IF lines = <<>> THEN <<>> ELSE <<Header(tag)>> \o lines

\* read_streams(): the tree's file while there is one, else the kept one.
ReadStreams(live, kept, tag) == SplitStreams(IF live # <<>> THEN live ELSE kept, tag)

-----------------------------------------------------------------------------
(* What a later run takes of one.                                          *)

\* A run's state: its sha, whether its record is written, its cells, which of them
\* other runs ran, the files among them, and its round in flight, as it is read from its stream now.
Told(s) == IF s.record THEN NoCells ELSE s.told
CellsNow(s) == [n \in DOMAIN s.cells \cup DOMAIN Told(s) |-> IF n \in DOMAIN Told(s) THEN Told(s)[n] ELSE s.cells[n]]

\* held_cells(): what is decided, each with the sha that ran it; the cell of a file
\* that did not collect is no test's.
HeldCells(s) ==
  [n \in {m \in DOMAIN CellsNow(s) \ s.files : CellsNow(s)[m].status \in Decided} |->
     [cell |-> CellsNow(s)[n], origin |-> IF n \in DOMAIN s.carried THEN s.carried[n] ELSE s.sha]]

\* submit_run(): of what is offered it takes what it collects and gives to no other
\* part, and submits nothing of that; the files that did not collect are rejected.
Taking(sha, offered, collected, handed, broken) ==
  LET taken == (DOMAIN offered \cap collected) \ handed
  IN  [sha |-> sha, record |-> FALSE, told |-> NoCells, files |-> broken, owed |-> collected \ (handed \cup taken),
       cells |-> [n \in taken \cup broken |-> IF n \in taken THEN offered[n].cell ELSE TestCell("rejected", "ok")],
       carried |-> [n \in taken |-> offered[n].origin]]

-----------------------------------------------------------------------------
(* A state of an earlier shape.  [oom: 0 or the growth of the whole run,   *)
(* files, grown: the growth of a file and of an id, flight: the ids of the *)
(* round in flight, banded: its arrays are one per memory class, words:    *)
(* what its ids concluded in the words of before, cells].                  *)

\* upgraded(): the cell that a retired word reads as; a handed id is none.
Handed == "not-covered"
Because(cell, why) == [cell EXCEPT !.why = why]
CellOfWord(word) ==
  CASE word = "passed"  -> TestCell("ok", "ok")
    [] word = "failed"  -> Because(TestCell("rejected", "ok"), "assertion")
    [] word = "skipped" -> Because(TestCell("not_applicable", "ok"), "skipped")
    [] word = "xfailed" -> Because(TestCell("rejected", "rejected"), "expected")
    [] word = "missing" -> TestCell("pending", "ok")
    [] word \in {"error", "lost"} -> Because(TestCell("error", "ok"), word)

\* _upgraded_words()
NoWords == [n \in {} |-> Handed]
UpgradedWords(s) ==
  IF s.words = NoWords THEN s
  ELSE [s EXCEPT !.words = NoWords, !.cells = [n \in {m \in DOMAIN s.words : s.words[m] # Handed} |-> CellOfWord(s.words[n])]]

\* _grown_by_id(): the growth of a file lands on its ids in flight, unless one has its own.
GrownById(grown, files, flight, fileOf) ==
  LET heirs == {n \in flight \ DOMAIN grown : fileOf[n] \in DOMAIN files}
  IN  [n \in DOMAIN grown \cup heirs |-> IF n \in heirs THEN files[fileOf[n]] ELSE grown[n]]

\* _upgraded_arrays(): a growth of the whole run is that of the ids that the round in
\* flight would size; its one array is one band.
UpgradedArrays(s, fileOf) ==
  LET whole == IF s.oom = 0 THEN s.grown ELSE [n \in IF s.oom > 1 THEN s.flight ELSE {} |-> s.oom]
      files == IF s.oom = 0 THEN s.files ELSE [x \in {} |-> 0]
  IN  [s EXCEPT !.oom = 0, !.files = [x \in {} |-> 0], !.banded = TRUE, !.grown = GrownById(whole, files, s.flight, fileOf)]

\* upgraded_state()
Upgraded(s, fileOf) == UpgradedArrays(UpgradedWords(s), fileOf)

-----------------------------------------------------------------------------
(* Where a run is.  A task in the queue is [state, reason, age].           *)

Limits == {"AssocGrpMemLimit", "QOSMaxCpuPerUserLimit"}

Oldest(tasks) == Max({0} \cup {t.age : t \in tasks})
\* parse_queue()
Queue(tasks) ==
  LET waiting == {t \in Range(tasks) : t.state = "PENDING"}
  IN  [pending |-> Len(SelectSeq(tasks, LAMBDA t : t.state = "PENDING")),
       running |-> Len(SelectSeq(tasks, LAMBDA t : t.state = "RUNNING")),
       reasons |-> {t.reason : t \in waiting}, minutes |-> Oldest(waiting)]

\* held_by_a_limit()
Stalled(q, patience) == q.pending > 0 /\ q.minutes >= patience
HeldByALimit(q, patience) == Stalled(q, patience) /\ q.running = 0 /\ q.reasons # {} /\ q.reasons \subseteq Limits

\* _stall(): [grant -> [partition -> free slots]]; `named` are those the job may start in.
StallRemedy(q, patience, free, home, sharing, named) ==
  LET idle      == {g \in DOMAIN free : \E x \in DOMAIN free[g] : free[g][x] > 0}
  IN  CASE ~Stalled(q, patience) \/ idle = {} -> NoAnswer
        [] Stalled(q, patience) /\ idle # {} /\ ~(DOMAIN free[home] \subseteq named) -> "requeue everywhere"
        [] Stalled(q, patience) /\ DOMAIN free[home] \subseteq named /\ idle \ sharing # {} -> "submit from another"
        [] OTHER -> IF idle = {} THEN NoAnswer ELSE "held by Slurm"

-----------------------------------------------------------------------------
(* settle(): one pass is what gather_run() answers of each run.            *)

Green == "green"
Unfinished == {"pending", "unreachable"}
Answer == Unfinished \cup {Green, "red", "refused"}
NewSettle(runs) == [left |-> runs, red |-> FALSE, written |-> <<>>, cancelled |-> {}, code |-> NoAnswer]

\* One pass over the runs that are left; a run that cannot be gathered is dropped
\* with its jobs cancelled.
Pass(s, answers, waits) ==
  LET done == {r \in s.left : answers[r] \notin Unfinished}
      left == s.left \ done
      red  == s.red \/ \E r \in done : answers[r] # Green
  IN  [s EXCEPT !.left = left, !.red = red,
         !.written = @ \o SetToSeq({r \in done : answers[r] # "refused"}),
         !.cancelled = @ \cup {r \in done : answers[r] = "refused"},
         !.code = IF left = {} THEN (IF red THEN "red" ELSE Green) ELSE IF waits THEN NoAnswer ELSE "pending"]
Settled(runs, passes, waits) ==
  FoldLeft(LAMBDA s, answers : IF s.code # NoAnswer THEN s ELSE Pass(s, answers, waits), NewSettle(runs), passes)

-----------------------------------------------------------------------------
\* records.py:198-225: a round tells of each item that left ids without a cell the one it was at, and
\* of no other; it is the id that the fold gives a cell, if it gives one, or the first that runs
\* again, and they call it the same; and what the items of a shard are told to have taken is
\* no more than its wall.
LossesAgreeWithTheFold(items, shards) ==
  \A k \in DOMAIN items :
    LET shard  == ShardOf(shards, k)
        losses == LossesOf(items, k, shard)
        cut    == {l \in losses : l.id \in Range(Unreported(items[k]))}
        fate   == FateOf(items[k], shard)
    IN  /\ {l.id : l \in losses \ cut} = {n \in DOMAIN items[k].cells : MetBy(items[k].cells[n]) = "missed"}
        /\ Cardinality(cut) = IF Unreported(items[k]) = <<>> THEN 0 ELSE 1
        /\ \A l \in cut :
             /\ IF DOMAIN fate.given = {} THEN l.id = fate.again[1][1] ELSE l.id \in DOMAIN fate.given
             /\ DOMAIN fate.given # {} => fate.given[l.id] \in {l.kind, "unreported"}
        /\ LET closed == {j \in ItemsOf(shard) : items[j].done # "open"}
               spent  == KilledAfter(items, shard)
               sum(S) == FoldFunctionOnSet(LAMBDA i, s : i.wall + s, 0, items, S)
           IN  sum(closed) <= shard.wall =>
                 \A j \in DOMAIN spent \ closed : spent[j] + sum({c \in closed : c < j}) = shard.wall

\* records.py:275-320: what is read of a round is the same before its tree goes and after, for
\* each of its items, and what another round left, before it or alone, is nothing of this one.
KeptIsWhatWasLive(live, tag, other) ==
  /\ ReadStreams(<<>>, KeptText(live, other) \o KeptText(live, tag), tag) = SplitStreams(live, tag)
  /\ ReadStreams(<<>>, KeptText(live, other), tag) = [k \in {} |-> <<>>]

\* records.py:402-411: however often a decision is carried on it names the run that ran it; an id
\* without one runs again; and an id is carried or owed, never both; a broken file is not carried.
DecisionsKeepTheirOrigin(first, second, collected, handed, broken) ==
  \E held \in {HeldCells(first)} :
  \E next \in {Taking(second, held, collected, handed, broken)} :
    /\ \A n \in DOMAIN HeldCells(next) :
         HeldCells(next)[n] = held[n] /\ held[n].origin # second /\ held[n].cell.status \in Decided
    /\ (DOMAIN next.cells \ broken) \cup next.owed = collected \ handed
    /\ DOMAIN next.cells \cap next.owed = {}

\* records.py:439-490: a state is read again and again while its run is in flight: the second
\* reading changes nothing, no growth is lost that the round in flight would ask, and none is
\* made; and an id concludes what the word said that it did, or is owed again.
UpgradeOnce(s, fileOf) ==
  \E u \in {Upgraded(s, fileOf)} :
    /\ Upgraded(u, fileOf) = u
    /\ \A n \in s.flight :
         LET grew == CASE s.oom > 0 -> s.oom
                       [] s.oom = 0 /\ n \in DOMAIN s.grown -> s.grown[n]
                       [] s.oom = 0 /\ n \notin DOMAIN s.grown /\ fileOf[n] \in DOMAIN s.files -> s.files[fileOf[n]]
                       [] OTHER -> 1
         IN  (IF n \in DOMAIN u.grown THEN u.grown[n] ELSE 1) = grew
    /\ \A n \in DOMAIN s.words :
         LET word == s.words[n]
         IN  IF word = Handed THEN n \notin DOMAIN u.cells
             ELSE MetBy(u.cells[n]) = IF word = "failed" THEN "missed" ELSE IF word \in {"passed", "skipped", "xfailed"} THEN "met" ELSE "no answer"
    \* A retry grows what was cut; the next reading leaves that.
    /\ \A n \in s.flight : Upgraded([u EXCEPT !.grown = [x \in DOMAIN @ \cup {n} |-> IF x = n THEN 4 ELSE @[x]]], fileOf).grown[n] = 4

\* progress.py:91-150: a job is released only if every task of it that waits waits for a limit of the
\* account and none runs; and a remedy is told only where something is free.
WaitsAreJudged(tasks, patience, free, home, sharing, named) ==
  LET remedy == StallRemedy(Queue(tasks), patience, free, home, sharing, named)
  IN  /\ HeldByALimit(Queue(tasks), patience) =>
           /\ \A k \in DOMAIN tasks : tasks[k].state # "RUNNING"
           /\ \A k \in DOMAIN tasks : tasks[k].state = "PENDING" => tasks[k].reason \in Limits
      /\ remedy # NoAnswer => \E g \in DOMAIN free : \E x \in DOMAIN free[g] : free[g][x] > 0
      /\ remedy = "submit from another" => \E g \in DOMAIN free \ sharing : \E x \in DOMAIN free[g] : free[g][x] > 0

\* watch.py:43-46: a gather ends green only when every run left a green record, red as soon as none
\* is left and one was not green, and each run is written, or dropped with its jobs, once.
SettlesOnce(runs, passes, waits) ==
  LET s        == Settled(runs, passes, waits)
      first(r) == LET ks == {k \in DOMAIN passes : passes[k][r] \notin Unfinished}
                  IN  IF ks = {} \/ (~waits /\ Min(ks) > 1) THEN "pending" ELSE passes[Min(ks)][r]
  IN  /\ s.code = Green <=> \A r \in runs : first(r) = Green
      /\ s.code = "red" <=> (\A r \in runs : first(r) # "pending") /\ \E r \in runs : first(r) # Green
      /\ IsInjective(s.written) /\ Range(s.written) \cap s.cancelled = {}
      /\ Range(s.written) \cup s.cancelled = runs \ s.left
=============================================================================
