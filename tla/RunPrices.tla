------------------------------- MODULE RunPrices -------------------------------
(***************************************************************************)
(* The row of one (producer, need-set) in the demand table, and what is    *)
(* asked by it of a box, of a cluster and for a request:                   *)
(* compute/learned.py.  A run is [peak, cpu, wall, files], a row that and  *)
(* how it ended.  Memory is counted so that Headroom and Safety divide.    *)
(***************************************************************************)
EXTENDS Integers, Sequences, FiniteSetsExt

CONSTANTS
  Safety,    \* Policy.safety
  TaskPrior, \* Cost.mem_gb: what one task or worker asks at least
  LeastBox   \* one GB, the least a box part declares

OomGrowth == 2
PartWidth == 4
\* BOX_HEADROOM: half as much again.
Headroom(peak) == (3 * peak) \div 2
PricedEndings == {"exit", "memory", "ask"}
NoRow == [ended |-> "none", peak |-> 0, cpu |-> 0, wall |-> 1, files |-> 0]
ClusterPrior == [ended |-> "prior", peak |-> 0, cpu |-> 1, wall |-> 1, files |-> 50]

\* Run: a measurement that no run could have produced is refused.
RunOk(run) == run.peak >= 0 /\ run.cpu >= 0 /\ run.wall > 0 /\ run.files >= 0
\* Run.demand(): the cores that it kept busy.
CoresKept(run) == Max({1, (run.cpu + run.wall - 1) \div run.wall})
Ended(run, ended) == [run EXCEPT !.ended = ended]

\* _priced()
IsPriced(row) == row.ended \in PricedEndings

\* Mutants: every ending is a price; and a kill's peak is kept as it was read.
RecordRunAny(row, run, ended) ==
  CASE ended = "memory" -> Ended([run EXCEPT !.peak = Max({IF IsPriced(row) THEN row.peak ELSE 0, OomGrowth * run.peak})], ended)
    [] OTHER -> Ended(run, "exit")
RecordRunAsRead(row, run, ended) == IF ended \in {"exit", "memory"} THEN Ended(run, ended) ELSE row

\* record_run()
RecordRun(row, run, ended) ==
  CASE ended = "exit" -> Ended(run, ended)
    [] ended = "memory" -> Ended([run EXCEPT !.peak = Max({IF IsPriced(row) THEN row.peak ELSE 0, OomGrowth * run.peak})], ended)
    [] OTHER -> row

\* record_ask(): of a plan that was not placed, or a job that is held for a limit.
RecordAsk(row, ask) ==
  LET known == IF IsPriced(row) THEN row ELSE ClusterPrior
  IN  Ended([known EXCEPT !.peak = Max({known.peak, (ask + Safety - 1) \div Safety})], "ask")

TaskMem(peak) == Max({peak * Safety, TaskPrior})

\* cluster_demand()
ClusterDemand(row) ==
  LET run == IF IsPriced(row) THEN row ELSE ClusterPrior
  IN  [cpu |-> CoresKept(run), mem |-> TaskMem(run.peak), files |-> IF run.files = 0 THEN ClusterPrior.files ELSE run.files, submits |-> 1]

\* selection_gb(): each worker at the worst peak of its files, 0 for none measured.
WorkerMem(worst) == Max({Headroom(worst), TaskPrior})
SelectionMem(worst, workers, whole) == Max({Max({1, workers}) * WorkerMem(worst), Headroom(whole)})

\* Mutant: the widest, whatever is free.
FitWidthCap(cap, cpu, mem, per) == Max({1, cap})
\* fit_width(): one worker that does not fit waits.
FitWidth(cap, cpu, mem, per) == Max({1, Min({cap, cpu, IF per > 0 THEN mem \div per ELSE cap})})

\* box_demand(): a worker's price is the run's, of the cores it kept busy, or its selection's;
\* ids is -1 when nobody knows how many it is handed. A price is kept as its
\* part: whole of cap.
BoxWidest(row, ids) ==
  IF IsPriced(row) THEN CoresKept(row) ELSE IF ids < 0 THEN PartWidth ELSE Max({1, Min({PartWidth, ids})})
BoxWhole(row, worst, ids) ==
  IF IsPriced(row) THEN Headroom(row.peak) ELSE BoxWidest(row, ids) * SelectionMem(worst, 1, 0)
BoxDemand(row, worst, ids, cpu, mem) ==
  LET cap   == BoxWidest(row, ids)
      whole == BoxWhole(row, worst, ids)
      width == FitWidth(cap, cpu, mem * cap, whole)
  IN  [cpu |-> width, mem |-> Max({LeastBox, (width * whole) \div cap})]

\* request_demand(): the row that sizes it when it was never measured.
RequestDemand(row, cpu, mem) ==
  IF IsPriced(row) THEN [cpu |-> CoresKept(row), mem |-> Max({LeastBox, Headroom(row.peak)})] ELSE [cpu |-> cpu, mem |-> mem]

-----------------------------------------------------------------------------
\* What happened to the runs of one row, in order: an ending of a run, or an ask.
Happened(row, event) ==
  IF event.what = "ask" THEN RecordAsk(row, event.ask) ELSE RecordRun(row, event.run, event.what)
RowAfter(row, events) ==
  LET after[k \in 0 .. Len(events)] == IF k = 0 THEN row ELSE Happened(after[k - 1], events[k])
  IN  after[Len(events)]

\* learned.py:66-77: what a row asks is what its priced endings prove since its last own exit: no
\* less than twice the peak of each memory kill and than each ask, and no ending that
\* was stopped mid-climb raises it.
PricesAreProven(row, events) ==
  LET last == Max({0} \cup {k \in DOMAIN events : events[k].what = "exit"})
      since(what) == {k \in last + 1 .. Len(events) : events[k].what = what}
      base == IF last > 0 THEN events[last].run.peak ELSE IF IsPriced(row) THEN row.peak ELSE 0
      due  == Max({base} \cup {OomGrowth * events[k].run.peak : k \in since("memory")}
                         \cup {(events[k].ask + Safety - 1) \div Safety : k \in since("ask")})
      new  == RowAfter(row, events)
  IN  /\ (IF IsPriced(new) THEN new.peak ELSE 0) = due
      /\ RunOk(new) /\ ClusterDemand(new).files > 0
      /\ \A k \in since("ask") : ClusterDemand(new).mem >= events[k].ask
      /\ \A k \in since("memory") : RequestDemand(new, 1, 1).mem > events[k].run.peak

\* learned.py:351-388: what a box part declares is free unless it is one worker, and it is no wider
\* than the run it is priced by, at no less than that run's price for each worker.
PartFitsWhatIsFree(row, worst, ids, cpu, mem) ==
  LET part == BoxDemand(row, worst, ids, cpu, mem)
      cap  == BoxWidest(row, ids)
  IN  /\ part.cpu \in 1 .. cap
      /\ part.cpu > 1 => part.cpu <= cpu /\ part.mem <= Max({mem, LeastBox})
      /\ part.mem * cap + cap > part.cpu * BoxWhole(row, worst, ids)
      /\ \A wider \in part.cpu + 1 .. cap : wider > cpu \/ wider * BoxWhole(row, worst, ids) > mem * cap
=============================================================================
