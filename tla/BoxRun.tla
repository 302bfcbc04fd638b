-------------------------------- MODULE BoxRun --------------------------------
(***************************************************************************)
(* An admitted run inside its kernel limit, box/run.py: a launcher starts  *)
(* the child, watches it, ends it at its memory or its wall, measures it   *)
(* and lets its claim go.  Three enforcers: a systemd scope and the watch  *)
(* of a Slurm task's group (_linux.py), and a Job Object (_win.py).        *)
(*                                                                         *)
(* A SIGKILL ends its process in the step that sends it.  A number is not  *)
(* given to another process before the run has ended.                      *)
(***************************************************************************)
EXTENDS Naturals, Sequences, FiniteSets, FiniteSetsExt

CONSTANTS
  Child, Kid,      \* the process launched, and one it may spawn
  Hosts,           \* the machines: system, and on Linux what it offers
  Limit, Wall,     \* the claim
  MaxMem,          \* what one process may hold
  MaxRuns, MaxTime

Procs == {Child, Kid}

\* Limits bind where systemd-run starts a scope under a manager with both controllers; else
\* where the cgroup itself, not the variable alone, says that this is a Slurm job.
Delegated(h) == {"memory", "cpu"} \subseteq h.controllers
ScopesBind(h) == h.systemd_run /\ Delegated(h) /\ h.starts
InSlurmJob(h) == h.job /\ h.incgroup
EnforcerOf(h) ==
  IF h.system = "win32" THEN "job"
  ELSE IF h.system # "linux" THEN "refused"
  ELSE IF ScopesBind(h) THEN "scope" ELSE IF InSlurmJob(h) THEN "slurm" ELSE "refused"

BoxRunAssumption ==
  /\ Child # Kid
  /\ \A h \in Hosts : EnforcerOf(h) \in {"scope", "slurm", "job", "refused"}
  /\ {Limit, Wall, MaxMem, MaxRuns, MaxTime} \subseteq Nat \ {0}

VARIABLES
  how,       \* the enforcer
  procs,     \* the run's processes
  port,      \* a memory message lies on the job's port
  launcher,  \* where the launcher is
  usage,     \* what the launcher's waited-for children used: getrusage(RUSAGE_CHILDREN)
  ends,      \* the ProcessEnds given
  truth,     \* of the current run: what really happened to it
  now
boxVars == <<how, procs, port, launcher, usage, ends, truth, now>>

-----------------------------------------------------------------------------
Spent(m, c) == [mem |-> m, cpu |-> c]
Nothing == Spent(0, 0)
Plus(a, b) == Spent(Max({a.mem, b.mem}), a.cpu + b.cpu)

\* A process: held is that the group (or the job) holds it, peak its own largest memory,
\* waited what the children it waited for used.
NoProcess == [is |-> "none", held |-> FALSE, mem |-> 0, peak |-> 0, cpu |-> 0, waited |-> Nothing, struck |-> FALSE]
NoLauncher == [pc |-> "idle", why |-> "exit", deadline |-> 0, seen |-> 0, sent |-> FALSE]
NoTruth == [crossed |-> FALSE, struck |-> FALSE, sum |-> 0, cpu |-> 0]

Alive(p) == procs[p].is = "live"
Held(ps, p) == ps[p].is \in {"live", "suspended"} /\ ps[p].held
SumOf(ps, S) == (IF Child \in S THEN ps[Child].mem ELSE 0) + (IF Kid \in S THEN ps[Kid].mem ELSE 0)
\* What is resident of the group; what the cgroup or the job charges.
GroupSum(ps) == SumOf(ps, {p \in Procs : Held(ps, p)})
TreeSum(ps) == SumOf(ps, {p \in Procs : ps[p].is \in {"live", "suspended"}})

\* Gone is who nobody waits for any more: the Kid of a dead Child is init's.
Settled(ps) ==
  [p \in Procs |-> IF p = Kid /\ ps[Kid].is = "zombie" /\ ps[Child].is # "live" THEN [ps[p] EXCEPT !.is = "gone"] ELSE ps[p]]
Dead(ps, S) ==
  Settled([p \in Procs |-> IF p \in S /\ ps[p].is \in {"live", "suspended"}
                             THEN [ps[p] EXCEPT !.is = "zombie", !.mem = 0, !.struck = TRUE] ELSE ps[p]])
\* _kill_group; TerminateJobObject and the job's last handle closed.
KillGroup(ps) == Dead(ps, {p \in Procs : ps[p].held})

BoxInit ==
  /\ how \in {EnforcerOf(h) : h \in Hosts} \ {"refused"}
  /\ procs = [p \in Procs |-> NoProcess]
  /\ port = FALSE /\ launcher = NoLauncher /\ usage = Nothing /\ ends = <<>> /\ truth = NoTruth /\ now = 0

-----------------------------------------------------------------------------
(* The run's processes.                                                    *)
LauncherStays == UNCHANGED <<how, launcher, usage, ends, now>>

Spawn ==
  /\ Alive(Child) /\ procs[Kid].is = "none"
  /\ procs' = [procs EXCEPT ![Kid] = [NoProcess EXCEPT !.is = "live", !.held = procs[Child].held]]
  /\ UNCHANGED <<port, truth>> /\ LauncherStays

\* setsid: out of the group, and still in the scope. Nothing leaves a job.
LeaveGroup ==
  /\ how # "job" /\ Alive(Kid) /\ procs[Kid].held
  /\ procs' = [procs EXCEPT ![Kid].held = FALSE]
  /\ UNCHANGED <<port, truth>> /\ LauncherStays

Work(p) ==
  /\ Alive(p) /\ procs[p].cpu = 0
  /\ procs' = [procs EXCEPT ![p].cpu = 1]
  /\ truth' = [truth EXCEPT !.cpu = @ + 1]
  /\ UNCHANGED port /\ LauncherStays

Grown(p) == [procs EXCEPT ![p].mem = @ + 1, ![p].peak = Max({@, procs[p].mem + 1})]
Refused == how # "slurm" /\ TreeSum(procs) = Limit
Grow(p) ==
  /\ Alive(p) /\ procs[p].mem < MaxMem /\ ~Refused
  /\ procs' = Grown(p)
  /\ truth' = [truth EXCEPT !.sum = Max({@, TreeSum(Grown(p))}), !.crossed = @ \/ TreeSum(Grown(p)) > Limit]
  /\ UNCHANGED port /\ LauncherStays

\* The scope's OOM killer ends one of the largest.
OutOfMemory(p, victim) ==
  /\ how = "scope" /\ Alive(p) /\ procs[p].mem < MaxMem /\ Refused
  /\ Alive(victim) /\ \A q \in Procs : Alive(q) => procs[q].mem <= procs[victim].mem
  /\ procs' = Dead(procs, {victim})
  /\ truth' = [truth EXCEPT !.crossed = TRUE]
  /\ UNCHANGED port /\ LauncherStays

\* The job only fails the allocation, and posts a message.
AllocationFails(p) ==
  /\ how = "job" /\ Alive(p) /\ procs[p].mem < MaxMem /\ Refused
  /\ port' = TRUE
  /\ truth' = [truth EXCEPT !.crossed = TRUE]
  /\ UNCHANGED procs /\ LauncherStays

Exit(p) ==
  /\ Alive(p)
  /\ procs' = Settled([procs EXCEPT ![p].is = "zombie", ![p].mem = 0])
  /\ UNCHANGED <<port, truth>> /\ LauncherStays

WaitsForKid ==
  /\ Alive(Child) /\ procs[Kid].is = "zombie"
  /\ procs' = [procs EXCEPT ![Kid].is = "gone", ![Child].waited = Plus(@, Plus(Spent(procs[Kid].peak, procs[Kid].cpu), procs[Kid].waited))]
  /\ UNCHANGED <<port, truth>> /\ LauncherStays

\* Somebody else kills the child: a user, the node's own OOM killer.
Struck ==
  /\ how # "job" /\ Alive(Child)
  /\ procs' = Dead(procs, {Child})
  /\ truth' = [truth EXCEPT !.struck = TRUE]
  /\ UNCHANGED port /\ LauncherStays

-----------------------------------------------------------------------------
(* The launcher.                                                           *)
Goes(pc) == launcher' = [launcher EXCEPT !.pc = pc]
Ended(why, code, peak, cpu) ==
  ends' = Append(ends, [why |-> why, struck |-> code, peak |-> peak, cpu |-> cpu, late |-> now >= launcher.deadline,
                        sent |-> launcher.sent, truth |-> truth])

\* Where the platform can, the child is stopped before its first instruction.
LaunchedLive == [NoProcess EXCEPT !.is = "live", !.held = how # "job"]
Launched == [NoProcess EXCEPT !.is = IF how = "job" THEN "suspended" ELSE "live", !.held = how # "job"]

\* The next run of this process, when nothing of the last is left.
Launch ==
  /\ launcher.pc = "idle" /\ Len(ends) < MaxRuns /\ now + Wall <= MaxTime
  /\ \A p \in Procs : procs[p].is \in {"none", "gone"}
  /\ procs' = [p \in Procs |-> IF p = Child THEN Launched ELSE NoProcess]
  /\ launcher' = [NoLauncher EXCEPT !.pc = IF how = "job" THEN "assign" ELSE "poll", !.deadline = now + Wall]
  /\ truth' = NoTruth /\ port' = FALSE
  /\ UNCHANGED <<how, usage, ends, now>>

Assign ==
  /\ launcher.pc = "assign"
  /\ \/ procs' = [procs EXCEPT ![Child].held = TRUE] /\ Goes("resume")
     \/ procs' = Dead(procs, {Child}) /\ Goes("raise")
  /\ UNCHANGED <<how, port, usage, ends, truth, now>>

Resume ==
  /\ launcher.pc = "resume"
  /\ \/ procs' = [procs EXCEPT ![Child].is = IF procs[Child].is = "suspended" THEN "live" ELSE @] /\ Goes("poll")
     \/ UNCHANGED procs /\ Goes("raise")
  /\ UNCHANGED <<how, port, usage, ends, truth, now>>

\* child.poll() waits for who has ended.
ChildEnded == procs[Child].is = "zombie"
Reaped(ps) == [ps EXCEPT ![Child].is = "gone"]
Poll ==
  /\ launcher.pc = "poll"
  /\ IF ChildEnded
       THEN /\ procs' = Reaped(procs)
            /\ usage' = Plus(usage, Plus(Spent(procs[Child].peak, procs[Child].cpu), procs[Child].waited))
            /\ Goes(IF how = "job" THEN "drain" ELSE "finish")
       ELSE UNCHANGED <<procs, usage>> /\ Goes("decide")
  /\ UNCHANGED <<how, port, ends, truth, now>>

\* One look after the poll; the child may have ended in between.
Overdue == now >= launcher.deadline
Decide ==
  /\ launcher.pc = "decide"
  /\ LET resident == IF how = "slurm" THEN GroupSum(procs) ELSE 0
         over == IF how = "job" THEN port /\ ~Overdue ELSE resident > Limit
     IN /\ launcher' = [launcher EXCEPT !.seen = Max({@, resident}),
                          !.pc = IF over \/ Overdue THEN "wait" ELSE "poll",
                          !.why = IF over THEN "memory" ELSE IF Overdue THEN "wall" ELSE @,
                          !.sent = over \/ Overdue]
        /\ procs' = IF over \/ Overdue THEN KillGroup(procs) ELSE procs
        /\ port' = (port /\ (how = "job" => Overdue))
  /\ UNCHANGED <<how, usage, ends, truth, now>>

Wait ==
  /\ launcher.pc = "wait" /\ ChildEnded
  /\ procs' = Reaped(procs)
  /\ usage' = Plus(usage, Plus(Spent(procs[Child].peak, procs[Child].cpu), procs[Child].waited))
  /\ Goes(IF how = "job" THEN "close" ELSE "finish")
  /\ UNCHANGED <<how, port, ends, truth, now>>

\* The child is gone, and its last message may still lie there.
Drain ==
  /\ launcher.pc = "drain"
  /\ launcher' = [launcher EXCEPT !.pc = "close", !.why = IF port THEN "memory" ELSE "exit"]
  /\ port' = FALSE
  /\ UNCHANGED <<how, procs, usage, ends, truth, now>>

\* A SIGKILL that the launcher did not send is taken for the scope's OOM killer.
WhyOfAny(why, struck) == IF struck THEN "memory" ELSE why
WhyOf(why, struck) == IF why = "exit" /\ struck THEN "memory" ELSE why

\* What the child left in its group ends with it, and then the claim.
LeftAlone(ps) == IF launcher.why = "exit" THEN ps ELSE KillGroup(ps)
Left(ps) == KillGroup(ps)
Finish ==
  /\ launcher.pc = "finish"
  /\ procs' = Left(procs)
  /\ Ended(WhyOf(launcher.why, procs[Child].struck), procs[Child].struck, Max({launcher.seen, usage.mem}), usage.cpu)
  /\ launcher' = NoLauncher
  /\ UNCHANGED <<how, port, usage, truth, now>>

\* Measured, and then the handle is closed: who is left in the job dies.
Close ==
  /\ launcher.pc = "close"
  /\ procs' = Left(procs)
  /\ Ended(launcher.why, procs[Child].struck, truth.sum, truth.cpu)
  /\ launcher' = NoLauncher
  /\ UNCHANGED <<how, port, usage, truth, now>>

\* An OSError leaves through the same close; the child that was never resumed dies of it.
Raise ==
  /\ launcher.pc = "raise"
  /\ procs' = [p \in Procs |-> [KillGroup(procs)[p] EXCEPT !.is = IF @ = "zombie" THEN "gone" ELSE @]]
  /\ launcher' = [NoLauncher EXCEPT !.pc = "raised"]
  /\ UNCHANGED <<how, port, usage, ends, truth, now>>

\* The launcher dies: its handle closes with it, a scope and a group live on.
LauncherDies ==
  /\ launcher.pc \notin {"idle", "raised", "dead"}
  /\ procs' = IF how = "job" THEN KillGroup(procs) ELSE procs
  /\ launcher' = [NoLauncher EXCEPT !.pc = "dead"]
  /\ UNCHANGED <<how, port, usage, ends, truth, now>>

Tick == now < MaxTime /\ now' = now + 1 /\ UNCHANGED <<how, procs, port, launcher, usage, ends, truth>>

-----------------------------------------------------------------------------
Launching == Launch \/ Assign \/ Resume \/ Poll \/ Decide \/ Wait \/ Drain \/ Finish \/ Close \/ Raise
Running ==
  \/ Spawn \/ LeaveGroup \/ WaitsForKid \/ Struck
  \/ \E p \in Procs : Work(p) \/ Grow(p) \/ AllocationFails(p) \/ Exit(p) \/ \E v \in Procs : OutOfMemory(p, v)
BoxNext == Launching \/ Running \/ LauncherDies \/ Tick

BoxSpec == BoxInit /\ [][BoxNext]_boxVars

-----------------------------------------------------------------------------
\* What the caller learns from is true: a run told to have ended by memory met its limit (or
\* was killed by another hand, which the box cannot tell apart), one told to have ended by its
\* wall had reached it, and one told to have ended by itself was killed by nobody.
ReasonIsTrue ==
  \A i \in DOMAIN ends :
    LET e == ends[i]
    IN /\ e.why = "memory" => e.truth.crossed \/ e.truth.struck
       /\ e.why = "wall" => e.late
       /\ e.why = "exit" => ~e.sent /\ ~e.struck

\* Where a job holds the run, nothing of it ever runs outside: not before it is in, not what it
\* spawns, not when its launcher dies. When its claim goes, nothing lives in its group or job.
NothingRunsLoose ==
  /\ how = "job" => \A p \in Procs : Alive(p) => procs[p].held
  /\ how = "job" /\ launcher.pc = "dead" => \A p \in Procs : ~Alive(p)
  /\ launcher.pc \in {"idle", "raised"} => \A p \in Procs : ~Held(procs, p)

\* What a caller is told of a run is true, and the run is contained.
RunsAreContained == ReasonIsTrue /\ NothingRunsLoose

\* A run that was launched ends with its launcher: however long its child would take.
LaunchEnds == launcher.pc = "poll" ~> launcher.pc \in {"idle", "dead"}

\* What a ProcessEnd measured is the run's own: no more than its tree held, and used.
MeasuresItsOwnRun ==
  \A i \in DOMAIN ends : ends[i].peak <= ends[i].truth.sum /\ ends[i].cpu <= ends[i].truth.cpu
=============================================================================
