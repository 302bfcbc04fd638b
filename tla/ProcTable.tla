------------------------------- MODULE ProcTable -------------------------------
(***************************************************************************)
(* The process table and who ends or meters a tree by it: proc.py,         *)
(* proccpu.py.  A number is given again once its process is gone; the      *)
(* parent written on a process may be dead, and its number another's.      *)
(*                                                                         *)
(* Numbers are not given again while one call runs: the table is read and  *)
(* used within milliseconds, and a system goes round its numbers first.    *)
(***************************************************************************)
EXTENDS Naturals, FiniteSets

CONSTANTS
  Pids,        \* the numbers, naturals, in the order they are killed
  Root, Other, \* the process whose tree it is, and a stranger
  Systems,     \* "windows" keeps a dead parent written, "linux" gives the orphan to init
  Unreadable,  \* numbers whose creation time cannot be read
  Patience,    \* how long a kill waits for who it signalled
  MaxCpu, MaxSamples, MaxBorn, MaxClock

InitPid == 0
TableAssumption ==
  /\ Pids \subseteq Nat \ {InitPid} /\ IsFiniteSet(Pids) /\ {Root, Other} \subseteq Pids /\ Root # Other
  /\ Systems \subseteq {"windows", "linux"} /\ Unreadable \subseteq Pids
  /\ {Patience, MaxCpu, MaxSamples, MaxBorn, MaxClock} \subseteq Nat

VARIABLES
  system,  \* and which call is made on it
  table,   \* [Pids -> what the number is]
  killer,  \* kill_process_tree(Root)
  meter,   \* TreeCpu(Root)
  used,    \* what the tree really used
  born,    \* processes made
  clock
tableVars == <<system, table, killer, meter, used, born, clock>>

-----------------------------------------------------------------------------
\* of: the process it is, and above: the one that made it, whatever their numbers are now (0 is
\* the one Root's number stands for, 1 the stranger). kin: it descends from 0. cpu: what it used.
Free == [is |-> "free", parent |-> InitPid, born |-> 0, of |-> 0, above |-> 0, kin |-> FALSE, cpu |-> 0]
NoKill ==
  [pc |-> "idle", rows |-> <<>>, linked |-> {}, left |-> {}, signalled |-> {}, pending |-> {}, deadline |-> 0,
   astray |-> FALSE, blurred |-> FALSE, result |-> {}]
NoMeter == [pc |-> "idle", rows |-> <<>>, seen |-> {}, samples |-> 0, told |-> 0, blurred |-> FALSE]

Listed(p) == table[p].is # "free"
PidAlive(p) == table[p].is \in {"live", "dying"}
Calling == killer.pc # "idle" \/ meter.pc # "idle"

TableInit ==
  /\ system \in [os : Systems, call : {"kill", "meter"}]
  /\ table = [p \in Pids |->
                IF p = Root THEN [Free EXCEPT !.is = "live", !.kin = TRUE]
                ELSE IF p = Other THEN [Free EXCEPT !.is = "live", !.of = 1, !.above = 1] ELSE Free]
  /\ killer = NoKill /\ meter = NoMeter /\ used = 0 /\ born = 0 /\ clock = 0

-----------------------------------------------------------------------------
(* Processes.                                                              *)
CallsStay == UNCHANGED <<system, killer, meter, clock>>

Spawned(p) ==
  [is |-> "live", parent |-> p, born |-> clock, of |-> born + 2, above |-> table[p].of, kin |-> table[p].kin, cpu |-> 0]
Spawns(p, q) ==
  /\ table[p].is = "live" /\ ~Listed(q) /\ born < MaxBorn /\ ~Calling
  /\ table' = [table EXCEPT ![q] = Spawned(p)]
  /\ born' = born + 1
  /\ UNCHANGED used /\ CallsStay

\* A new process of a tree that is read or killed takes a number nobody had in this call.
SpawnMeanwhile(p, q) ==
  /\ table[p].is = "live" /\ ~Listed(q) /\ born < MaxBorn /\ Calling
  /\ \A r \in {killer, meter} : q \notin DOMAIN r.rows
  /\ q \notin killer.signalled
  /\ table' = [table EXCEPT ![q] = Spawned(p)]
  /\ born' = born + 1
  /\ UNCHANGED used /\ CallsStay

Works(p) ==
  /\ table[p].is = "live" /\ table[p].cpu < MaxCpu /\ system.call = "meter"
  /\ table' = [table EXCEPT ![p].cpu = @ + 1]
  /\ used' = used + (IF table[p].kin THEN 1 ELSE 0)
  /\ UNCHANGED born /\ CallsStay

\* Who has ended waits for its parent on Linux; its children are init's.
Adopted(t, p) == [q \in Pids |-> IF system.os = "linux" /\ t[q].parent = p THEN [t[q] EXCEPT !.parent = InitPid] ELSE t[q]]
HasParent(p) == table[p].parent \in Pids /\ PidAlive(table[p].parent)
Gone(p) ==
  Adopted([table EXCEPT ![p] = IF system.os = "linux" /\ HasParent(p) THEN [table[p] EXCEPT !.is = "zombie"] ELSE Free], p)
ProcExits(p) ==
  /\ PidAlive(p) /\ table' = Gone(p)
  /\ UNCHANGED <<used, born>> /\ CallsStay
Waited(p) ==
  /\ table[p].is = "zombie" /\ table' = [table EXCEPT ![p] = Free]
  /\ UNCHANGED <<used, born>> /\ CallsStay

-----------------------------------------------------------------------------
(* Reading the table.                                                      *)
TableRows == [p \in {q \in Pids : Listed(q)} |-> table[p].parent]

\* The creation time, read of whoever has the number now.
None == MaxClock + 1
Created(p) == IF p \in Unreadable \/ ~Listed(p) THEN None ELSE table[p].born
\* A child is not older than its parent: the edge of a reused number.
ImpossibleNever(p, q) == FALSE
ImpossibleWhenTied(p, q) == Created(p) # None /\ Created(q) # None /\ Created(q) <= Created(p)
Impossible(p, q) == Created(p) # None /\ Created(q) # None /\ Created(q) < Created(p)

\* The closure of the root over the rows, without the impossible edges.
Below(rows, S) == {q \in DOMAIN rows : rows[q] \in S /\ ~Impossible(rows[q], q)}
Descendants(rows) ==
  {p \in DOMAIN rows : \A S \in SUBSET DOMAIN rows : {Root} \intersect DOMAIN rows \subseteq S /\ Below(rows, S) \subseteq S => p \in S}

\* An edge that no creation time can disprove, though it may be another's.
Tied(p) ==
  table[p].parent \in Pids /\ (Created(table[p].parent) \in {None, Created(p)} \/ Created(p) = None)
\* Ghost: by such an edge a stranger is among them.
Blurred(tree) == \E p \in tree : ~table[p].kin /\ Tied(p)

-----------------------------------------------------------------------------
(* kill_process_tree, of a caller who knows that Root is still its own.    *)
StillOurs == Listed(Root) /\ table[Root].of = 0
\* Who descends from Root by processes that all live, whatever is written.
Linked ==
  LET ids == {0} \union {table[p].of : p \in Pids}
  IN  {i \in ids : \A S \in SUBSET ids :
         0 \in S /\ (\A p \in Pids : PidAlive(p) /\ table[p].above \in S => table[p].of \in S) => i \in S}

Snapshot ==
  /\ system.call = "kill" /\ killer.pc = "idle" /\ StillOurs
  /\ \/ killer' = [killer EXCEPT !.pc = "walk", !.rows = TableRows, !.linked = Linked]
     \/ killer' = [killer EXCEPT !.pc = "walk"]                  \* the table cannot be read
  /\ UNCHANGED <<system, table, meter, used, born, clock>>

Walk ==
  /\ killer.pc = "walk"
  /\ LET tree == Descendants(killer.rows)
     IN  killer' = [killer EXCEPT !.pc = "kill", !.left = tree, !.blurred = Blurred(tree)]
  /\ UNCHANGED <<system, table, meter, used, born, clock>>

\* The descendants in order, the root last.
Turn(p) == p \in killer.left /\ \A q \in killer.left \ {p} : IF q = Root THEN TRUE ELSE p # Root /\ p < q
\* A signal to a zombie is sent; one to nobody is not.
Kill(p) ==
  /\ killer.pc = "kill" /\ Turn(p)
  /\ killer' = [killer EXCEPT !.left = @ \ {p},
                  !.signalled = IF Listed(p) THEN @ \union {p} ELSE @,
                  !.astray = @ \/ (PidAlive(p) /\ ~table[p].kin)]
  /\ table' = IF table[p].is = "live" THEN [table EXCEPT ![p].is = "dying"] ELSE table
  /\ UNCHANGED <<system, meter, used, born, clock>>

Signalled ==
  /\ killer.pc = "kill" /\ killer.left = {}
  /\ killer' = [killer EXCEPT !.pc = "poll", !.pending = killer.signalled, !.deadline = clock + Patience]
  /\ UNCHANGED <<system, table, meter, used, born, clock>>

\* Looked at until all are gone or the ceiling is reached; who is left is not told.
PendingSignalled == {}
Pending == {p \in killer.pending : PidAlive(p)}
KillPolls ==
  /\ killer.pc = "poll"
  /\ killer' =
       IF Pending = {} \/ clock >= killer.deadline
         THEN [killer EXCEPT !.pc = "told", !.pending = Pending, !.result = killer.signalled \ Pending]
         ELSE [killer EXCEPT !.pending = Pending]
  /\ UNCHANGED <<system, table, meter, used, born, clock>>

-----------------------------------------------------------------------------
(* TreeCpu.sample: the tree, and then the times of each of it, kept by     *)
(* number and creation time.                                               *)
MeterSnapshot ==
  /\ system.call = "meter" /\ meter.pc = "idle" /\ StillOurs
  /\ \/ meter' = [meter EXCEPT !.pc = "walk", !.rows = TableRows]
     \/ meter' = [meter EXCEPT !.pc = "walk"]
  /\ UNCHANGED <<system, table, killer, used, born, clock>>

Key(p) == <<p, table[p].born>>
\* Mutant: every reading is kept.
AllSeen(seen, new) == seen \union new
\* The most each was seen using.
MostSeen(seen, new) == {e \in seen \union new : \A f \in seen \union new : f.key = e.key => f.cpu <= e.cpu}
\* What they used together, unit by unit.
SeenTotal(seen) == Cardinality({x \in seen \X (1 .. MaxCpu) : x[2] <= x[1].cpu})
Sample ==
  /\ meter.pc = "walk"
  /\ LET tree == Descendants(meter.rows)
         seen == MostSeen(meter.seen, {[key |-> Key(p), cpu |-> table[p].cpu] : p \in {q \in tree : Listed(q) /\ q \notin Unreadable}})
     IN meter' = [pc |-> "idle", rows |-> <<>>, seen |-> seen, samples |-> meter.samples + 1, told |-> SeenTotal(seen),
                  blurred |-> meter.blurred \/ Blurred(tree)]
  /\ UNCHANGED <<system, table, killer, used, born, clock>>

ClockTicks == clock < MaxClock /\ clock' = clock + 1 /\ UNCHANGED <<system, table, killer, meter, used, born>>

Killing == Snapshot \/ Walk \/ (\E p \in Pids : Kill(p)) \/ Signalled \/ KillPolls
Metering == MeterSnapshot \/ Sample
Living == \E p \in Pids : Works(p) \/ ProcExits(p) \/ Waited(p) \/ \E q \in Pids : Spawns(p, q) \/ SpawnMeanwhile(p, q)
\* The last answer ends the behaviour: one kill, or MaxSamples samples.
TableNext == killer.pc # "told" /\ meter.samples < MaxSamples /\ (Killing \/ Metering \/ Living \/ ClockTicks)
TableSpec == TableInit /\ [][TableNext]_tableVars

-----------------------------------------------------------------------------
\* A kill ends nobody outside the tree, whoever's number its processes' parents had before: a
\* stranger dies only where the walk met an edge that no creation time can disprove.
KillSparesStrangers == killer.astray => killer.blurred

\* Who is told to be killed and gone is.
ToldAreGone == killer.pc = "told" => \A p \in killer.result : ~PidAlive(p)

\* No order of exits, reparentings and reused numbers lets a descendant survive that was linked
\* to the root when the table was read.
NobodyLinkedIsSpared == killer.pc = "poll" => \A p \in Pids : table[p].is = "live" => table[p].of \notin killer.linked

\* A sample is a floor of what the tree used, but for a stranger that no creation time tells
\* apart: nobody's use is counted twice, under whatever number, and no reused number's is.
SampleIsAFloor == ~meter.blurred => meter.told <= used

TreesAreSound == NobodyLinkedIsSpared /\ KillSparesStrangers /\ ToldAreGone /\ SampleIsAFloor
=============================================================================
