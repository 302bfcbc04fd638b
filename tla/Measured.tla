------------------------------- MODULE Measured -------------------------------
(***************************************************************************)
(* What finished runs measured of each test and file, and what the next    *)
(* plan asks from it: compute/measured.py, all pure.  Times are whole      *)
(* ticks (the code rounds to a millisecond), memory is whole pages.        *)
(*                                                                         *)
(* An item that ran is [ids, cells, seconds, done, wall, peak]: the ids it *)
(* was handed, those with a cell, what those took, how it closed ("exited",*)
(* "killed" by a signal, or "open"), its own wall and peak, 0 for none.    *)
(***************************************************************************)
EXTENDS Integers, SequencesExt, FiniteSets

CONSTANTS FileOf, FolderOf   \* [id -> file], [file -> folder]

OomGrowth == 2
TimeoutGrowth == 2
AccumulatedClasses == 1

Most(a, b) == Max({a, b})
Least(a, b) == Min({a, b})
SumOf(f, S) == SumFunctionOnSet(f, S)

\* A dict of facts, and what is read or changed of one.
NoFacts == [x \in {} |-> 0]
Fact(facts, x) == IF x \in DOMAIN facts THEN facts[x] ELSE 0
Put(facts, new) == [x \in DOMAIN facts \cup DOMAIN new |-> IF x \in DOMAIN new THEN new[x] ELSE facts[x]]
Dropped(facts, xs) == Restrict(facts, DOMAIN facts \ xs)
RaisedTo(facts, xs, v) == Put(facts, [x \in xs |-> Most(Fact(facts, x), v)])

\* Measured(): five dicts, and what this instance, one round's fold, has learned.
Facts == {"durations", "floors", "overheads", "peaks", "idPeaks"}
NewTable == [k \in Facts |-> NoFacts]
Folding(table) ==
  [durations |-> table.durations, floors |-> table.floors, overheads |-> table.overheads, peaks |-> table.peaks,
   idPeaks |-> table.idPeaks, seen |-> {}, taught |-> {}]
Record(m) == [k \in Facts |-> m[k]]

FilesOf(ids) == {FileOf[n] : n \in Range(ids)}
\* [n for n in ids if n not in cells]
Unfinished(ids, cells) ==
  LET left[k \in 0 .. Len(ids)] ==
        IF k = 0 THEN <<>> ELSE IF ids[k] \in cells THEN left[k - 1] ELSE Append(left[k - 1], ids[k])
  IN  left[Len(ids)]
Rest(f) == Unfinished(f.ids, f.cells)
CutId(f) == IF Rest(f) = <<>> THEN {} ELSE {Head(Rest(f))}
Tests(f) == SumOf(f.seconds, DOMAIN f.seconds)

-----------------------------------------------------------------------------
(* What a closed item teaches.                                             *)

\* _killed_peak(): a floor of its one file, and of the id it cut.
KilledPeak(m, f, need) ==
  LET lone == IF Cardinality(FilesOf(f.ids)) = 1 THEN FilesOf(f.ids) ELSE {}
  IN  [m EXCEPT !.peaks = RaisedTo(@, lone, need), !.seen = @ \cup lone,
         !.idPeaks = RaisedTo(@, CutId(f), need), !.taught = @ \cup lone \cup CutId(f)]

\* learn() of an item that closed by itself: the overhead its files share, and
\* its peak for each file, the worst of the items of this round.
Exited(m, f) ==
  LET files == FilesOf(f.ids)
      share == Most(0, f.wall - Tests(f)) \div Cardinality(files)
      worst == IF f.peak = 0 THEN {} ELSE files
  IN  [m EXCEPT !.overheads = Put(@, [x \in files |-> share]),
         !.peaks = Put(@, [x \in worst |-> IF x \in m.seen THEN Most(@[x], f.peak) ELSE f.peak]),
         !.seen = @ \cup worst]

\* Mutant: the need grows from what the process was read at alone.
LearnRead(m, f, allowed) ==
  LET known == [m EXCEPT !.durations = Put(@, f.seconds), !.floors = Dropped(@, DOMAIN f.seconds),
                  !.idPeaks = Dropped(@, DOMAIN f.seconds)]
      need  == f.peak * OomGrowth
  IN  IF f.done = "open" \/ f.ids = <<>> \/ (f.done = "killed" /\ need = 0) THEN known
      ELSE IF f.done = "killed" THEN KilledPeak(known, f, need)
      ELSE Exited(known, f)

\* learn(): `allowed` is the peak that the limit of an OUT_OF_MEMORY item allowed.
Learn(m, f, allowed) ==
  LET known == [m EXCEPT !.durations = Put(@, f.seconds), !.floors = Dropped(@, DOMAIN f.seconds),
                  !.idPeaks = Dropped(@, DOMAIN f.seconds)]
      need  == Most(f.peak, allowed) * OomGrowth
  IN  IF f.done = "open" \/ f.ids = <<>> \/ (f.done = "killed" /\ need = 0) THEN known
      ELSE IF f.done = "killed" THEN KilledPeak(known, f, need)
      ELSE Exited(known, f)

-----------------------------------------------------------------------------
(* Seconds.                                                                *)

\* The mean of the timed ids of a file, 0 for none.
Mates(m, file) == {n \in DOMAIN m.durations : FileOf[n] = file}
Mean(m, file) == IF Mates(m, file) = {} THEN 0 ELSE SumOf(m.durations, Mates(m, file)) \div Cardinality(Mates(m, file))
Price(m, n) == Most(IF n \in DOMAIN m.durations THEN m.durations[n] ELSE Mean(m, FileOf[n]), Fact(m.floors, n))

\* Mutant: what a wall cut is not re-priced as a whole.
OutgrowNot(m, rest, target) == m

\* _outgrow(): the floors of the unfinished ids, raised until they price the target.
Outgrow(m, rest, target) ==
  LET prices == [n \in Range(rest) |-> Price(m, n)]
      short  == target - SumOf(prices, Range(rest))
      each   == (2 * short + Len(rest)) \div (2 * Len(rest))   \* round()
  IN  IF short <= 0 THEN m
      ELSE [m EXCEPT !.floors = Put(@, [n \in Range(rest) |-> prices[n] + each])]

\* killed(): the id that was cut took what the rest does not explain.
Killed(m, f, spent, timedOut, top) ==
  LET files     == FilesOf(f.ids)
      explained == Tests(f) + SumFunction([x \in files |-> Fact(m.overheads, x)])
      growth    == IF timedOut \/ f.done = "killed" THEN TimeoutGrowth ELSE 1
      floor     == Least((spent - explained) * growth, top)
      floored   == IF floor > 0 THEN [m EXCEPT !.floors = RaisedTo(@, CutId(f), floor)] ELSE m
  IN  IF Rest(f) = <<>> \/ spent <= 0 THEN m
      ELSE IF timedOut THEN Outgrow(floored, Rest(f), Least(spent * TimeoutGrowth, top)) ELSE floored

\* _seconds(): a file of which nothing is measured costs what is declared, or its floors.
SecondsOfFile(m, file, nodes, cost) ==
  IF Mates(m, file) = {} /\ file \notin DOMAIN m.overheads
  THEN Most(cost.seconds, SumFunction([n \in nodes |-> Fact(m.floors, n)]))
  ELSE Fact(m.overheads, file) + SumFunction([n \in nodes |-> Price(m, n)])
Seconds(m, ids, cost) ==
  SumFunction([file \in FilesOf(ids) |-> SecondsOfFile(m, file, {n \in Range(ids) : FileOf[n] = file}, cost)])

\* floored(): a copy for a plan, raised to what the repository declares of ids and files.
Floored(m, priced) ==
  LET raised(facts, new) == Put(facts, [x \in DOMAIN new |-> Most(Fact(facts, x), new[x])])
  IN  [m EXCEPT !.idPeaks = raised(@, priced.idMem), !.floors = raised(@, priced.idWall),
         !.peaks = raised(@, priced.fileMem), !.overheads = raised(@, priced.fileWall)]

-----------------------------------------------------------------------------
(* Memory.                                                                 *)

\* statistics.median(), in whole pages.
Median(facts, xs) ==
  LET s == SetToSortSeq(xs, LAMBDA x, y : facts[x] < facts[y])
      n == Len(s)
  IN  (facts[s[(n + 1) \div 2]] + facts[s[n \div 2 + 1]]) \div 2

\* prior_mb(): the siblings of the folder, else the whole table.
Prior(m, file) ==
  LET siblings == {x \in DOMAIN m.peaks : FolderOf[x] = FolderOf[file]}
  IN  CASE file \in DOMAIN m.peaks -> m.peaks[file]
        [] file \notin DOMAIN m.peaks /\ siblings # {} -> Median(m.peaks, siblings)
        [] file \notin DOMAIN m.peaks /\ siblings = {} /\ m.peaks # NoFacts -> Median(m.peaks, DOMAIN m.peaks)
        [] OTHER -> 0

\* _file_peaks_mb(): each file at its worst id; `grown` is the run's growth of an id.
FilePeaks(m, ids, floor, grown) ==
  LET growth(n) == IF n \in DOMAIN grown THEN grown[n] ELSE 1
      need(n)   == Max({Prior(m, FileOf[n]), Fact(m.idPeaks, n), floor}) * growth(n)
  IN  [file \in FilesOf(ids) |-> Max({need(n) : n \in {x \in Range(ids) : FileOf[x] = file}})]

\* task_gb(), memory_band()
TaskMem(peak, prior, safety) == Most(peak * safety, prior)
Band(pages) == CHOOSE k \in 0 .. pages : 2^k >= pages /\ (k = 0 \/ 2^(k - 1) < pages)

\* item_gb(): one process over all its files, which accumulate: the worst peak, and
\* what every other distinct one is above the lightest.
ItemMem(m, ids, cost, safety, grown) ==
  LET peaks == Range(FilePeaks(m, ids, cost.mem \div safety, grown))
      held  == IF peaks = {} THEN 0 ELSE Max(peaks) + SumSet({p - Min(peaks) : p \in peaks \ {Max(peaks)}})
  IN  TaskMem(held, cost.mem, safety)

\* worker_gb()
WorkerMem(m, ids, prior, safety) == TaskMem(Max({0} \cup Range(FilePeaks(m, ids, 0, NoFacts))), prior, safety)

\* Mutant: a file joins whatever the memory of the item becomes.
PackFilesAnyClass(groups, bands, seconds, budget) ==
  LET order == SetToSortSeq(DOMAIN groups, LAMBDA i, j :
                 bands[groups[i]] < bands[groups[j]] \/ (bands[groups[i]] = bands[groups[j]] /\ i < j))
      packed[k \in 0 .. Len(order)] ==
        IF k = 0 THEN <<>>
        ELSE LET held == packed[k - 1]
                 ids  == groups[order[k]]
             IN  IF /\ k > 1 /\ bands[ids] = bands[groups[order[k - 1]]]
                    /\ seconds[Last(held) \o ids] <= budget
                 THEN Front(held) \o <<Last(held) \o ids>>
                 ELSE Append(held, ids)
  IN  packed[Len(order)]

\* pack(): whole files, by memory class, joined up to the budget and while the item
\* stays within one class of its files'. `bands` and `seconds` are of every item.
PackFiles(groups, bands, seconds, budget) ==
  LET order == SetToSortSeq(DOMAIN groups, LAMBDA i, j :
                 bands[groups[i]] < bands[groups[j]] \/ (bands[groups[i]] = bands[groups[j]] /\ i < j))
      packed[k \in 0 .. Len(order)] ==
        IF k = 0 THEN <<>>
        ELSE LET held   == packed[k - 1]
                 ids    == groups[order[k]]
                 joined == Last(held) \o ids
             IN  IF /\ k > 1 /\ bands[ids] = bands[groups[order[k - 1]]]
                    /\ bands[joined] <= bands[ids] + AccumulatedClasses
                    /\ seconds[joined] <= budget
                 THEN Front(held) \o <<joined>>
                 ELSE Append(held, ids)
  IN  packed[Len(order)]

-----------------------------------------------------------------------------
(* A round is folded: records.fold(), gather.grown_after().  An item of it *)
(* is [f, state, limit, spent, top]: what it reported, how Slurm says its  *)
(* shard ended, the memory it was given, when it was killed.               *)

FoldItem(m, i, safety) ==
  LET learned == Learn(m, i.f, IF i.state = "OUT_OF_MEMORY" THEN i.limit \div safety ELSE 0)
  IN  IF i.f.done = "exited" THEN learned
      ELSE Killed(learned, i.f, i.spent, i.state = "TIMEOUT", i.top)

FoldItems(m, items, safety) ==
  LET fold[k \in 0 .. Len(items)] == IF k = 0 THEN m ELSE FoldItem(fold[k - 1], items[k], safety)
  IN  fold[Len(items)]

\* The id a kill cut asks for more, unless the kill taught a floor already; an id
\* that finished is back at what it measured.
GrownAfter(items, cells, grown, oom, taught) ==
  LET rest(i)  == Unfinished(items[i].f.ids, cells)
      cut      == {Head(rest(i)) : i \in {j \in DOMAIN items : rest(j) # <<>> /\ oom /\ items[j].state # "TIMEOUT"}}
      finished == UNION {Range(items[i].f.ids) \cap cells : i \in {j \in DOMAIN items : items[j].state # "OUT_OF_MEMORY"}}
      known    == {n \in cut : n \in taught \/ FileOf[n] \in taught}
      after    == Dropped(grown, (finished \ cut) \cup known)
  IN  Put(after, [n \in cut \ known |-> OomGrowth * (IF n \in DOMAIN after THEN after[n] ELSE 1)])

-----------------------------------------------------------------------------
\* measured.py:279-310, 334: a packed item is whole files of one memory class, within the
\* budget and one class of each unless it is a file alone; and it asks for no less than
\* any of its ids was declared to need, or any file alone asks.
PackKeepsItsClass(m, groups, cost, safety, budget, priced) ==
  \E plan \in {Floored(m, priced)} :
  \E asks \in {[ids \in Seq(DOMAIN FileOf) |-> ItemMem(plan, ids, cost, safety, NoFacts)]} :
  \E bands \in {[ids \in Seq(DOMAIN FileOf) |-> Band(asks[ids])]} :
  \E seconds \in {[ids \in Seq(DOMAIN FileOf) |-> Seconds(plan, ids, cost)]} :
  \E packed \in {PackFiles(groups, bands, seconds, budget)} :
    LET within(k) == {i \in DOMAIN groups : Range(groups[i]) \subseteq Range(packed[k])}
    IN  /\ \A i \in DOMAIN groups : Cardinality({k \in DOMAIN packed : i \in within(k)}) = 1
        /\ \A k \in DOMAIN packed :
             /\ UNION {Range(groups[i]) : i \in within(k)} = Range(packed[k])
             /\ Cardinality(within(k)) > 1 => seconds[packed[k]] <= budget
             /\ \A i \in within(k) :
                  /\ bands[packed[k]] <= bands[groups[i]] + AccumulatedClasses
                  /\ asks[packed[k]] >= Most(asks[groups[i]], WorkerMem(plan, groups[i], cost.mem, safety))
             /\ \A n \in Range(packed[k]) : asks[packed[k]] >= safety * Fact(priced.idMem, n)
=============================================================================
