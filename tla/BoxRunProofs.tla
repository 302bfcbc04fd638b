----------------------------- MODULE BoxRunProofs -----------------------------
(***************************************************************************)
(* What a contained run is told, and where its processes may be: proved    *)
(* for every host that can enforce, every claim, any number of runs of one *)
(* launcher, and any interleaving of its steps with the run's own.  Then   *)
(* the kill and the meter of a process tree by the process table, for      *)
(* every number of processes and any order of exits and reused numbers.    *)
(***************************************************************************)
EXTENDS BoxRun, ProcTable, FiniteSetTheorems, TLAPS

Proc == [is : {"none", "live", "suspended", "zombie", "gone"}, held : BOOLEAN, mem : Nat, peak : Nat, cpu : Nat,
         waited : [mem : Nat, cpu : Nat], struck : BOOLEAN]
Truth == [crossed : BOOLEAN, struck : BOOLEAN, sum : Nat, cpu : Nat]
Reason == {"exit", "memory", "wall"}
Places == {"idle", "assign", "resume", "poll", "decide", "wait", "drain", "finish", "close", "raise", "raised", "dead"}

Types ==
  /\ how \in {"scope", "slurm", "job"}
  /\ procs \in [Procs -> Proc] /\ port \in BOOLEAN
  /\ launcher \in [pc : Places, why : Reason, deadline : Nat, seen : Nat, sent : BOOLEAN]
  /\ usage \in [mem : Nat, cpu : Nat]
  /\ ends \in Seq([why : Reason, struck : BOOLEAN, peak : Nat, cpu : Nat, late : BOOLEAN, sent : BOOLEAN, truth : Truth])
  /\ truth \in Truth /\ now \in Nat

\* What the run holds beyond its limit, and a message on the port, are a limit it met.
LimitsAreMet == (port \/ TreeSum(procs) > Limit) => truth.crossed

\* What the launcher has found out: nothing while it looks, and then what it looked at.
Looking == {"assign", "resume", "poll", "decide", "drain"}
FindingsAreTrue ==
  /\ launcher.pc \in Looking => launcher.why = "exit" /\ ~launcher.sent
  /\ launcher.pc \in {"wait", "finish", "close"} =>
       /\ launcher.why = "memory" => truth.crossed
       /\ launcher.why = "wall" => now >= launcher.deadline
       /\ launcher.why = "exit" => ~launcher.sent
  /\ launcher.pc = "wait" => launcher.sent
  /\ launcher.pc \in {"drain", "close"} => how = "job"

\* A child that the launcher did not kill was killed at the limit, or by another hand; one
\* in a job by nobody.
KillsHaveAHand ==
  launcher.pc \in Looking \cup {"finish", "close"} /\ ~launcher.sent /\ procs[Child].struck =>
    how # "job" /\ (truth.crossed \/ truth.struck)

\* A child that runs is in its group or job, and so is what it spawns into a job.
ChildrenAreHeld ==
  /\ Alive(Child) => procs[Child].held
  /\ how = "job" /\ Alive(Kid) => procs[Kid].held
  /\ launcher.pc = "resume" => procs[Child].held

\* The inductive invariant.
RunInv == /\ Types /\ LimitsAreMet /\ FindingsAreTrue /\ KillsHaveAHand /\ ChildrenAreHeld
          /\ ReasonIsTrue /\ NothingRunsLoose

-----------------------------------------------------------------------------
\* The larger of two.
LEMMA MaxOfTwo ==
  ASSUME NEW a \in Nat, NEW b \in Nat
  PROVE  Max({a, b}) \in Nat /\ Max({a, b}) >= a /\ Max({a, b}) >= b
<1> DEFINE m == IF a >= b THEN a ELSE b
<1>1. m \in {a, b} /\ \A y \in {a, b} : m >= y
  OBVIOUS
<1>2. Max({a, b}) \in {a, b} /\ \A y \in {a, b} : Max({a, b}) >= y
  BY <1>1 DEF Max
<1> QED
  BY <1>2

\* What two runs used together is an amount.
LEMMA PlusIsSpent ==
  ASSUME NEW a \in [mem : Nat, cpu : Nat], NEW b \in [mem : Nat, cpu : Nat]
  PROVE  Plus(a, b) \in [mem : Nat, cpu : Nat]
<1>1. a.mem \in Nat /\ b.mem \in Nat /\ a.cpu \in Nat /\ b.cpu \in Nat
  OBVIOUS
<1>2. Max({a.mem, b.mem}) \in Nat
  BY <1>1, MaxOfTwo
<1> QED
  BY <1>1, <1>2 DEF Plus, Spent

\* Nobody comes alive, who lives holds what he held, and nobody leaves his group.
Fewer(ps, qs) ==
  /\ qs \in [Procs -> Proc]
  /\ \A p \in Procs :
       /\ qs[p].held = ps[p].held
       /\ qs[p].is \in {"live", "suspended"} => qs[p].is = ps[p].is /\ qs[p].mem = ps[p].mem

\* The two sums, of two processes.
LEMMA SumsAreOfTwo ==
  ASSUME NEW ps
  PROVE  /\ TreeSum(ps) = (IF ps[Child].is \in {"live", "suspended"} THEN ps[Child].mem ELSE 0)
                            + (IF ps[Kid].is \in {"live", "suspended"} THEN ps[Kid].mem ELSE 0)
         /\ GroupSum(ps) = (IF Held(ps, Child) THEN ps[Child].mem ELSE 0)
                            + (IF Held(ps, Kid) THEN ps[Kid].mem ELSE 0)
BY DEF TreeSum, GroupSum, SumOf, Procs

\* What the group has resident is of the tree.
LEMMA GroupIsOfTree ==
  ASSUME NEW ps \in [Procs -> Proc]
  PROVE  GroupSum(ps) \in Nat /\ TreeSum(ps) \in Nat /\ GroupSum(ps) <= TreeSum(ps)
<1>1. ps[Child].mem \in Nat /\ ps[Kid].mem \in Nat
  BY DEF Procs, Proc
<1> QED
  BY <1>1, SumsAreOfTwo DEF Held

\* Fewer hold no more.
LEMMA FewerHoldLess ==
  ASSUME NEW ps \in [Procs -> Proc], NEW qs, Fewer(ps, qs)
  PROVE  TreeSum(qs) <= TreeSum(ps)
<1>1. /\ ps[Child].mem \in Nat /\ ps[Kid].mem \in Nat
      /\ qs[Child].mem \in Nat /\ qs[Kid].mem \in Nat
  BY DEF Procs, Proc, Fewer
<1>2. \A p \in {Child, Kid} : qs[p].is \in {"live", "suspended"} =>
          ps[p].is \in {"live", "suspended"} /\ qs[p].mem = ps[p].mem
  BY DEF Procs, Fewer
<1> QED
  BY <1>1, <1>2, SumsAreOfTwo

\* Who nobody waits for any more is gone; that is all it changes.
LEMMA SettledIsFewer ==
  ASSUME NEW ps \in [Procs -> Proc]
  PROVE  /\ Fewer(ps, Settled(ps))
         /\ \A p \in Procs : Settled(ps)[p].struck = ps[p].struck
<1>1. ASSUME NEW p \in Procs
      PROVE  Settled(ps)[p] \in {ps[p], [ps[p] EXCEPT !.is = "gone"]}
  BY DEF Settled
<1>2. \A p \in Procs : Settled(ps)[p] \in Proc /\ Settled(ps)[p].held = ps[p].held
                          /\ Settled(ps)[p].mem = ps[p].mem /\ Settled(ps)[p].struck = ps[p].struck
                          /\ Settled(ps)[p].is \in {ps[p].is, "gone"}
  BY <1>1 DEF Proc
<1> QED
  BY <1>2 DEF Fewer, Settled

\* Who is killed does not live, and the others are not struck by it.
LEMMA DeadIsFewer ==
  ASSUME NEW ps \in [Procs -> Proc], NEW S
  PROVE  /\ Fewer(ps, Dead(ps, S))
         /\ \A p \in Procs \cap S : Dead(ps, S)[p].is \notin {"live", "suspended"}
         /\ \A p \in Procs \ S : Dead(ps, S)[p].struck = ps[p].struck
<1> DEFINE qs == [p \in Procs |-> IF p \in S /\ ps[p].is \in {"live", "suspended"}
                                  THEN [ps[p] EXCEPT !.is = "zombie", !.mem = 0, !.struck = TRUE] ELSE ps[p]]
<1>1. qs \in [Procs -> Proc]
  BY DEF Proc
<1>2. \A p \in Procs : qs[p].held = ps[p].held /\ qs[p].is \in {"live", "suspended"} => qs[p] = ps[p]
  BY DEF Proc
<1>3. \A p \in Procs : /\ p \in S => qs[p].is \notin {"live", "suspended"}
                       /\ p \notin S => qs[p] = ps[p]
  BY DEF Proc
<1>h. \A p \in Procs : qs[p].held = ps[p].held
  BY DEF Proc
<1>4. Dead(ps, S) = Settled(qs)
  BY DEF Dead
<1> HIDE DEF qs
<1>5. Fewer(qs, Settled(qs)) /\ \A p \in Procs : Settled(qs)[p].struck = qs[p].struck
  BY <1>1, SettledIsFewer
<1> QED
  BY <1>2, <1>3, <1>4, <1>5, <1>h DEF Fewer

\* Behind the kill of the group nobody is held in it.
LEMMA GroupIsKilled ==
  ASSUME NEW ps \in [Procs -> Proc]
  PROVE  /\ Fewer(ps, KillGroup(ps))
         /\ \A p \in Procs : ~Held(KillGroup(ps), p)
<1> DEFINE S == {p \in Procs : ps[p].held}
<1>1. /\ Fewer(ps, Dead(ps, S))
      /\ \A p \in Procs \cap S : Dead(ps, S)[p].is \notin {"live", "suspended"}
  BY DeadIsFewer
<1> QED
  BY <1>1 DEF KillGroup, Held, Fewer

\* The steps that end processes, or change none.
Ending ==
  \/ WaitsForKid \/ Struck
  \/ \E p \in Procs : Work(p) \/ AllocationFails(p) \/ Exit(p) \/ \E v \in Procs : OutOfMemory(p, v)
  \/ Poll \/ Decide \/ Wait \/ Drain \/ Finish \/ Close \/ Raise \/ LauncherDies \/ Tick \/ UNCHANGED boxVars

\* None of them brings anybody to life.
LEMMA EndingIsFewer == Types /\ Ending => Fewer(procs, procs')
<1> SUFFICES ASSUME Types, Ending PROVE Fewer(procs, procs')
  OBVIOUS
<1>t. procs \in [Procs -> Proc]
  BY DEF Types
<1>p. Child \in Procs /\ Kid \in Procs
  BY DEF Procs
<1>1. ASSUME procs' = procs PROVE Fewer(procs, procs')
  BY <1>1, <1>t DEF Fewer
<1>2. CASE WaitsForKid
  <2>1. Plus(procs[Child].waited, Plus(Spent(procs[Kid].peak, procs[Kid].cpu), procs[Kid].waited)) \in [mem : Nat, cpu : Nat]
    <3>1. /\ procs[Child].waited \in [mem : Nat, cpu : Nat] /\ procs[Kid].waited \in [mem : Nat, cpu : Nat]
          /\ Spent(procs[Kid].peak, procs[Kid].cpu) \in [mem : Nat, cpu : Nat]
      BY <1>t, <1>p DEF Proc, Spent
    <3> QED
      BY <3>1, PlusIsSpent
  <2> DEFINE w == Plus(procs[Child].waited, Plus(Spent(procs[Kid].peak, procs[Kid].cpu), procs[Kid].waited))
  <2>k. Child # Kid
    BY <1>2 DEF WaitsForKid, Alive
  <2>2. procs' = [procs EXCEPT ![Kid].is = "gone", ![Child].waited = w]
    BY <1>2, <1>t, <1>p, <2>k DEF WaitsForKid
  <2> HIDE DEF w
  <2> QED
    BY <2>1, <2>2, <2>k, <1>t, <1>p DEF Fewer, Proc, w
<1>3. CASE Struck
  BY <1>3, <1>t, DeadIsFewer DEF Struck
<1>4. ASSUME NEW p \in Procs, Work(p) PROVE Fewer(procs, procs')
  BY <1>4, <1>t DEF Work, Fewer, Proc
<1>5. ASSUME NEW p \in Procs, Exit(p) PROVE Fewer(procs, procs')
  <2> DEFINE qs == [procs EXCEPT ![p].is = "zombie", ![p].mem = 0]
  <2>1. Fewer(procs, qs)
    BY <1>t DEF Fewer, Proc
  <2>2. procs' = Settled(qs)
    BY <1>5 DEF Exit
  <2> HIDE DEF qs
  <2>3. qs \in [Procs -> Proc]
    BY <2>1 DEF Fewer
  <2>4. Fewer(qs, Settled(qs))
    BY <2>3, SettledIsFewer
  <2> QED
    BY <2>1, <2>2, <2>4 DEF Fewer
<1>6. ASSUME NEW p \in Procs, NEW v \in Procs, OutOfMemory(p, v) PROVE Fewer(procs, procs')
  BY <1>6, <1>t, DeadIsFewer DEF OutOfMemory
<1>7. Fewer(procs, KillGroup(procs))
  BY <1>t, GroupIsKilled
<1>8. Fewer(procs, Reaped(procs))
  BY <1>t DEF Reaped, Fewer, Proc
<1>9. CASE Raise
  <2> DEFINE ks == KillGroup(procs)
             qs == [p \in Procs |-> [ks[p] EXCEPT !.is = IF @ = "zombie" THEN "gone" ELSE @]]
  <2>1. ks \in [Procs -> Proc]
    BY <1>7 DEF Fewer
  <2>2. procs' = qs
    BY <1>9 DEF Raise
  <2> HIDE DEF ks
  <2>3. Fewer(ks, qs)
    BY <2>1 DEF Fewer, Proc
  <2> QED
    BY <1>7, <2>2, <2>3 DEF Fewer, ks
<1>10. CASE Poll \/ Wait
  BY <1>1, <1>8, <1>10 DEF Poll, Wait
<1>11. CASE Decide \/ Finish \/ Close \/ LauncherDies
  BY <1>1, <1>7, <1>11 DEF Decide, Finish, Close, LauncherDies, Left
<1>12. CASE Drain \/ Tick \/ UNCHANGED boxVars \/ \E p \in Procs : AllocationFails(p)
  BY <1>1, <1>12 DEF Drain, Tick, boxVars, AllocationFails
<1> QED
  BY <1>2, <1>3, <1>4, <1>5, <1>6, <1>9, <1>10, <1>11, <1>12 DEF Ending

-----------------------------------------------------------------------------
Launchers == [pc : Places, why : Reason, deadline : Nat, seen : Nat, sent : BOOLEAN]
Ends == [why : Reason, struck : BOOLEAN, peak : Nat, cpu : Nat, late : BOOLEAN, sent : BOOLEAN, truth : Truth]

\* What is told of a run is of the kind of what is told.
LEMMA TellingIsAnEnd ==
  ASSUME Types, NEW why \in Reason, NEW code \in BOOLEAN, NEW peak \in Nat, NEW cpu \in Nat,
         Ended(why, code, peak, cpu)
  PROVE  ends' \in Seq(Ends)
<1> DEFINE e == [why |-> why, struck |-> code, peak |-> peak, cpu |-> cpu, late |-> now >= launcher.deadline,
                 sent |-> launcher.sent, truth |-> truth]
<1>1. launcher.sent \in BOOLEAN /\ truth \in Truth /\ (now >= launcher.deadline) \in BOOLEAN
  BY DEF Types
<1>2. e \in Ends
  BY <1>1 DEF Ends
<1>3. ends \in Seq(Ends) /\ ends' = Append(ends, e)
  BY DEF Types, Ended, Ends
<1> HIDE DEF e
<1> QED
  BY <1>2, <1>3

\* Every step keeps the types.
LEMMA TypesNext == ASSUME BoxRunAssumption PROVE Types /\ [BoxNext]_boxVars => Types'
<1> SUFFICES ASSUME BoxRunAssumption, Types, [BoxNext]_boxVars PROVE Types'
  OBVIOUS
<1> DEFINE Run == procs' \in [Procs -> Proc] /\ port' \in BOOLEAN /\ truth' \in Truth
           Call == launcher' \in Launchers /\ usage' \in [mem : Nat, cpu : Nat]
           Told == ends' \in Seq(Ends) /\ now' \in Nat /\ how' \in {"scope", "slurm", "job"}
<1>t. /\ how \in {"scope", "slurm", "job"} /\ procs \in [Procs -> Proc] /\ port \in BOOLEAN
      /\ launcher \in Launchers /\ usage \in [mem : Nat, cpu : Nat]
      /\ ends \in Seq(Ends) /\ truth \in Truth /\ now \in Nat
  BY DEF Types, Launchers, Ends
<1>p. Child \in Procs /\ Kid \in Procs /\ Child # Kid
  BY DEF Procs, BoxRunAssumption
<1>a. Limit \in Nat /\ Wall \in Nat
  BY DEF BoxRunAssumption
<1>q. ASSUME Run, Call, Told PROVE Types'
  BY <1>q DEF Types, Launchers, Ends
<1>r. UNCHANGED <<launcher, usage>> => Call
  BY <1>t
<1>s. UNCHANGED <<ends, now, how>> => Told
  BY <1>t
<1>n. NoProcess \in Proc /\ NoLauncher \in Launchers /\ NoTruth \in Truth
  BY DEF NoProcess, Proc, Nothing, Spent, NoLauncher, Launchers, Places, Reason, NoTruth, Truth
<1>g. ASSUME NEW pc \in Places, Goes(pc) PROVE launcher' \in Launchers
  BY <1>g, <1>t DEF Goes, Launchers
<1>e. Ending => procs' \in [Procs -> Proc]
  BY EndingIsFewer DEF Fewer
<1>u. ASSUME UNCHANGED procs PROVE procs' \in [Procs -> Proc]
  BY <1>u, <1>t
<1>c. Plus(usage, Plus(Spent(procs[Child].peak, procs[Child].cpu), procs[Child].waited)) \in [mem : Nat, cpu : Nat]
  <2>1. /\ procs[Child].waited \in [mem : Nat, cpu : Nat]
        /\ Spent(procs[Child].peak, procs[Child].cpu) \in [mem : Nat, cpu : Nat]
    BY <1>t, <1>p DEF Proc, Spent
  <2> QED
    BY <2>1, <1>t, PlusIsSpent
<1>1. CASE Spawn
  <2>1. procs' \in [Procs -> Proc]
    <3>1. [NoProcess EXCEPT !.is = "live", !.held = procs[Child].held] \in Proc
      BY <1>n, <1>t, <1>p DEF Proc
    <3> QED
      BY <1>1, <3>1, <1>t DEF Spawn
  <2> QED
    BY <1>1, <2>1, <1>q, <1>r, <1>s, <1>t DEF Spawn, LauncherStays
<1>2. CASE LeaveGroup
  <2>1. procs' \in [Procs -> Proc]
    BY <1>2, <1>t, <1>p DEF LeaveGroup, Proc
  <2> QED
    BY <1>2, <2>1, <1>q, <1>r, <1>s, <1>t DEF LeaveGroup, LauncherStays
<1>3. ASSUME NEW p \in Procs, Grow(p) PROVE Types'
  <2>1. procs[p].mem \in Nat /\ procs[p].peak \in Nat /\ truth.sum \in Nat
    BY <1>t DEF Proc, Truth
  <2>2. Max({procs[p].peak, procs[p].mem + 1}) \in Nat
    BY <2>1, MaxOfTwo
  <2> DEFINE m == Max({procs[p].peak, procs[p].mem + 1})
             qs == Grown(p)
  <2>3. qs = [procs EXCEPT ![p].mem = procs[p].mem + 1, ![p].peak = m]
    BY <1>t DEF Grown
  <2>4. m \in Nat
    BY <2>2
  <2>5. procs' = qs /\ truth' = [truth EXCEPT !.sum = Max({@, TreeSum(qs)}), !.crossed = @ \/ TreeSum(qs) > Limit]
    BY <1>3 DEF Grow
  <2> HIDE DEF m, qs
  <2>6. qs \in [Procs -> Proc]
    <3>1. [procs[p] EXCEPT !.mem = procs[p].mem + 1, !.peak = m] \in Proc
      <4>1. \A r \in Proc, n \in Nat : [r EXCEPT !.mem = n] \in Proc
        BY DEF Proc
      <4>2. \A r \in Proc, n \in Nat : [r EXCEPT !.peak = n] \in Proc
        BY DEF Proc
      <4>3. procs[p] \in Proc /\ procs[p].mem + 1 \in Nat
        BY <2>1, <1>t
      <4> QED
        BY <2>4, <4>1, <4>2, <4>3
    <3>2. qs = [procs EXCEPT ![p] = [procs[p] EXCEPT !.mem = procs[p].mem + 1, !.peak = m]]
      BY <2>3, <1>t
    <3> QED
      BY <3>1, <3>2, <1>t
  <2>7. TreeSum(qs) \in Nat
    BY <2>6, GroupIsOfTree
  <2>8. Max({truth.sum, TreeSum(qs)}) \in Nat
    BY <2>1, <2>7, MaxOfTwo
  <2>9. truth' \in Truth
    BY <2>5, <2>8, <1>t DEF Truth
  <2> QED
    BY <1>3, <2>5, <2>6, <2>9, <1>q, <1>r, <1>s, <1>t DEF Grow, LauncherStays
<1>4. CASE Launch
  <2>1. Launched \in Proc
    BY <1>n, <1>t DEF Launched, Proc
  <2>2. launcher' \in Launchers
    <3>1. now + Wall \in Nat
      BY <1>t, <1>a
    <3>2. launcher' = [NoLauncher EXCEPT !.pc = IF how = "job" THEN "assign" ELSE "poll", !.deadline = now + Wall]
      BY <1>4 DEF Launch
    <3> QED
      BY <3>1, <3>2 DEF NoLauncher, Launchers, Places, Reason
  <2>3. procs' \in [Procs -> Proc] /\ truth' \in Truth /\ port' \in BOOLEAN
    BY <1>4, <2>1, <1>n DEF Launch
  <2> QED
    BY <1>4, <2>2, <2>3, <1>q, <1>s, <1>t DEF Launch
<1>5. CASE Assign
  <2>1. [procs EXCEPT ![Child].held = TRUE] \in [Procs -> Proc] /\ Dead(procs, {Child}) \in [Procs -> Proc]
    <3>1. [procs[Child] EXCEPT !.held = TRUE] \in Proc
      BY <1>t, <1>p DEF Proc
    <3> QED
      BY <3>1, <1>t, DeadIsFewer DEF Fewer
  <2>2. launcher' \in Launchers
    BY <1>5, <1>g DEF Assign, Places
  <2> QED
    BY <1>5, <2>1, <2>2, <1>q, <1>s, <1>t DEF Assign
<1>6. CASE Resume
  <2>1. procs' \in [Procs -> Proc]
    <3>1. \A is \in {"live", procs[Child].is} : [procs[Child] EXCEPT !.is = is] \in Proc
      BY <1>t, <1>p DEF Proc
    <3>2. procs' \in {procs, [procs EXCEPT ![Child] = [procs[Child] EXCEPT !.is = "live"]],
                      [procs EXCEPT ![Child] = [procs[Child] EXCEPT !.is = procs[Child].is]]}
      BY <1>6 DEF Resume
    <3> QED
      BY <3>1, <3>2, <1>t
  <2>2. launcher' \in Launchers
    BY <1>6, <1>g DEF Resume, Places
  <2> QED
    BY <1>6, <2>1, <2>2, <1>q, <1>s, <1>t DEF Resume
<1>7. CASE WaitsForKid
  BY <1>7, <1>e, <1>q, <1>r, <1>s, <1>t DEF WaitsForKid, LauncherStays, Ending
<1>8. CASE Struck
  <2>1. truth' \in Truth
    BY <1>8, <1>t DEF Struck, Truth
  <2> QED
    BY <1>8, <2>1, <1>e, <1>q, <1>r, <1>s, <1>t DEF Struck, LauncherStays, Ending
<1>9. ASSUME NEW p \in Procs, Work(p) \/ AllocationFails(p) \/ Exit(p) \/ \E v \in Procs : OutOfMemory(p, v)
      PROVE Types'
  <2>1. Ending
    BY <1>9 DEF Ending
  <2>2. truth' \in Truth
    <3>1. truth' \in {truth, [truth EXCEPT !.cpu = truth.cpu + 1], [truth EXCEPT !.crossed = TRUE]}
      BY <1>9 DEF Work, AllocationFails, Exit, OutOfMemory
    <3>2. [truth EXCEPT !.cpu = truth.cpu + 1] \in Truth
      BY <1>t DEF Truth
    <3>3. [truth EXCEPT !.crossed = TRUE] \in Truth
      BY <1>t DEF Truth
    <3> QED
      BY <3>1, <3>2, <3>3, <1>t
  <2>3. port' \in BOOLEAN /\ UNCHANGED <<how, launcher, usage, ends, now>>
    BY <1>9, <1>t DEF Work, AllocationFails, Exit, OutOfMemory, LauncherStays
  <2> QED
    BY <2>1, <2>2, <2>3, <1>e, <1>q, <1>r, <1>s
<1>10. CASE Poll
  <2>1. launcher' \in Launchers
    BY <1>10, <1>g DEF Poll, Places
  <2> QED
    BY <1>10, <2>1, <1>c, <1>e, <1>q, <1>s, <1>t DEF Poll, Ending
<1>11. CASE Decide
  <2>1. GroupSum(procs) \in Nat /\ launcher.seen \in Nat
    BY <1>t, GroupIsOfTree DEF Launchers
  <2> DEFINE resident == IF how = "slurm" THEN GroupSum(procs) ELSE 0
             over == IF how = "job" THEN port /\ ~Overdue ELSE resident > Limit
  <2>2. resident \in Nat
    BY <2>1
  <2>3. launcher' = [launcher EXCEPT !.seen = Max({launcher.seen, resident}),
                          !.pc = IF over \/ Overdue THEN "wait" ELSE "poll",
                          !.why = IF over THEN "memory" ELSE IF Overdue THEN "wall" ELSE launcher.why,
                          !.sent = over \/ Overdue]
    BY <1>11, <1>t DEF Decide, Launchers
  <2> HIDE DEF resident, over
  <2>4. Max({launcher.seen, resident}) \in Nat
    BY <2>1, <2>2, MaxOfTwo
  <2>5. launcher' \in Launchers
    BY <2>3, <2>4, <1>t DEF Launchers, Places, Reason
  <2>6. port' \in BOOLEAN
    BY <1>11, <1>t DEF Decide
  <2> QED
    BY <1>11, <2>5, <2>6, <1>e, <1>q, <1>s, <1>t DEF Decide, Ending
<1>12. CASE Wait
  <2>1. launcher' \in Launchers
    BY <1>12, <1>g DEF Wait, Places
  <2> QED
    BY <1>12, <2>1, <1>c, <1>e, <1>q, <1>s, <1>t DEF Wait, Ending
<1>13. CASE Drain
  <2>1. launcher' \in Launchers
    BY <1>13, <1>t DEF Drain, Launchers, Places, Reason
  <2> QED
    BY <1>13, <2>1, <1>e, <1>q, <1>s, <1>t DEF Drain, Ending
<1>14. CASE Finish
  <2>1. /\ WhyOf(launcher.why, procs[Child].struck) \in Reason /\ procs[Child].struck \in BOOLEAN
        /\ launcher.seen \in Nat /\ usage.mem \in Nat /\ usage.cpu \in Nat
    BY <1>t, <1>p DEF WhyOf, Reason, Launchers, Proc
  <2>2. Max({launcher.seen, usage.mem}) \in Nat
    BY <2>1, MaxOfTwo
  <2>3. ends' \in Seq(Ends)
    BY <1>14, <2>1, <2>2, TellingIsAnEnd DEF Finish
  <2> QED
    BY <1>14, <2>3, <1>e, <1>n, <1>q, <1>t DEF Finish, Ending
<1>15. CASE Close
  <2>1. /\ launcher.why \in Reason /\ procs[Child].struck \in BOOLEAN
        /\ truth.sum \in Nat /\ truth.cpu \in Nat
    BY <1>t, <1>p DEF Launchers, Proc, Truth
  <2>2. ends' \in Seq(Ends)
    BY <1>15, <2>1, TellingIsAnEnd DEF Close
  <2> QED
    BY <1>15, <2>2, <1>e, <1>n, <1>q, <1>t DEF Close, Ending
<1>16. CASE Raise \/ LauncherDies
  <2>1. launcher' \in Launchers
    BY <1>16, <1>n DEF Raise, LauncherDies, Launchers, Places
  <2> QED
    BY <1>16, <2>1, <1>e, <1>q, <1>s, <1>t DEF Raise, LauncherDies, Ending
<1>17. CASE Tick \/ UNCHANGED boxVars
  BY <1>17, <1>q, <1>t DEF Tick, boxVars
<1> QED
  BY <1>1, <1>2, <1>3, <1>4, <1>5, <1>6, <1>7, <1>8, <1>9, <1>10, <1>11, <1>12, <1>13, <1>14, <1>15,
     <1>16, <1>17 DEF BoxNext, Launching, Running

-----------------------------------------------------------------------------
\* What happened to a run stays true of it, until the next is launched.
LEMMA TruthStays ==
  Types /\ [BoxNext]_boxVars /\ ~Launch =>
    (truth.crossed => truth'.crossed) /\ (truth.struck => truth'.struck) /\ now' >= now
<1> SUFFICES ASSUME Types, [BoxNext]_boxVars, ~Launch
             PROVE  (truth.crossed => truth'.crossed) /\ (truth.struck => truth'.struck) /\ now' >= now
  OBVIOUS
<1>t. truth \in Truth /\ now \in Nat
  BY DEF Types
<1>1. ASSUME UNCHANGED truth PROVE (truth.crossed => truth'.crossed) /\ (truth.struck => truth'.struck)
  BY <1>1
<1>2. ASSUME NEW p \in Procs, Work(p) PROVE (truth.crossed => truth'.crossed) /\ (truth.struck => truth'.struck)
  BY <1>2, <1>t DEF Work, Truth
<1>3. ASSUME NEW p \in Procs, Grow(p) PROVE (truth.crossed => truth'.crossed) /\ (truth.struck => truth'.struck)
  <2> DEFINE s == Max({truth.sum, TreeSum(Grown(p))})
             c == truth.crossed \/ TreeSum(Grown(p)) > Limit
  <2>1. truth' = [truth EXCEPT !.sum = s, !.crossed = c]
    BY <1>3 DEF Grow
  <2>2. truth.crossed => c
    OBVIOUS
  <2> HIDE DEF s, c
  <2> QED
    BY <2>1, <2>2, <1>t DEF Truth
<1>4. ASSUME NEW p \in Procs, AllocationFails(p) \/ \E v \in Procs : OutOfMemory(p, v)
      PROVE (truth.crossed => truth'.crossed) /\ (truth.struck => truth'.struck)
  BY <1>4, <1>t DEF AllocationFails, OutOfMemory, Truth
<1>5. ASSUME Struck PROVE (truth.crossed => truth'.crossed) /\ (truth.struck => truth'.struck)
  BY <1>5, <1>t DEF Struck, Truth
<1>6. (truth.crossed => truth'.crossed) /\ (truth.struck => truth'.struck)
  BY <1>1, <1>2, <1>3, <1>4, <1>5 DEF BoxNext, Launching, Running, Assign, Resume, Poll, Decide, Wait, Drain,
     Finish, Close, Raise, Spawn, LeaveGroup, WaitsForKid, Exit, LauncherDies, Tick, boxVars
<1>7. now' >= now
  <2>1. ASSUME Running PROVE now' = now
    BY <2>1 DEF Running, Spawn, LeaveGroup, WaitsForKid, Struck, Work, Grow, AllocationFails, Exit, OutOfMemory, LauncherStays
  <2>2. ASSUME Launching \/ LauncherDies \/ UNCHANGED boxVars PROVE now' = now
    BY <2>2 DEF Launching, Assign, Resume, Poll, Decide, Wait, Drain, Finish, Close, Raise, LauncherDies, boxVars
  <2>3. ASSUME Tick PROVE now' = now + 1
    BY <2>3 DEF Tick
  <2> QED
    BY <2>1, <2>2, <2>3, <1>t DEF BoxNext
<1> QED
  BY <1>6, <1>7

\* What crosses the limit is seen to: a grown sum by who charges it, an allocation that
\* failed by the message.
LEMMA LimitsNext == ASSUME BoxRunAssumption PROVE Types /\ LimitsAreMet /\ [BoxNext]_boxVars => LimitsAreMet'
<1> SUFFICES ASSUME BoxRunAssumption, Types, LimitsAreMet, [BoxNext]_boxVars PROVE LimitsAreMet'
  OBVIOUS
<1>t. procs \in [Procs -> Proc] /\ truth \in Truth
  BY DEF Types
<1>p. Child \in Procs /\ Kid \in Procs /\ Child # Kid
  BY DEF Procs, BoxRunAssumption
<1>a. Limit \in Nat /\ TreeSum(procs) \in Nat
  BY <1>t, GroupIsOfTree DEF BoxRunAssumption
<1>m. procs[Child].mem \in Nat /\ procs[Kid].mem \in Nat
  BY <1>t, <1>p DEF Proc
<1>1. ASSUME ~Launch, port' => port \/ truth'.crossed, TreeSum(procs') <= TreeSum(procs), procs' \in [Procs -> Proc]
      PROVE LimitsAreMet'
  <2>1. TreeSum(procs') \in Nat
    BY <1>1, GroupIsOfTree
  <2>2. truth.crossed => truth'.crossed
    BY <1>1, TruthStays
  <2>3. TreeSum(procs)' = TreeSum(procs')
    BY DEF TreeSum, SumOf
  <2> QED
    BY <1>1, <1>a, <2>1, <2>2, <2>3 DEF LimitsAreMet
<1>2. ASSUME Ending, ~Launch PROVE LimitsAreMet'
  <2>1. Fewer(procs, procs')
    BY <1>2, EndingIsFewer
  <2>2. TreeSum(procs') <= TreeSum(procs) /\ procs' \in [Procs -> Proc]
    BY <2>1, <1>t, FewerHoldLess DEF Fewer
  <2>3. port' => port \/ truth'.crossed
    <3>1. ASSUME NEW p \in Procs, AllocationFails(p) PROVE truth'.crossed
      BY <3>1, <1>t DEF AllocationFails, Truth
    <3>2. (\A p \in Procs : ~AllocationFails(p)) => (port' => port)
      BY <1>2 DEF Ending, WaitsForKid, Struck, Work, Exit, OutOfMemory, Poll, Decide, Wait, Drain, Finish, Close,
         Raise, LauncherDies, Tick, boxVars
    <3> QED
      BY <3>1, <3>2
  <2> QED
    BY <1>1, <1>2, <2>2, <2>3
<1>3. CASE Launch
  <2>1. TreeSum(procs') = 0
    <3>1. procs'[Child].mem = 0 /\ procs'[Kid].is = "none"
      BY <1>3, <1>p DEF Launch, Launched, NoProcess
    <3> QED
      BY <3>1, SumsAreOfTwo
  <2>2. TreeSum(procs)' = TreeSum(procs')
    BY DEF TreeSum, SumOf
  <2> QED
    BY <1>3, <1>a, <2>1, <2>2 DEF LimitsAreMet, Launch
<1>4. CASE Assign
  <2>1. CASE procs' = Dead(procs, {Child})
    <3>1. Fewer(procs, procs')
      BY <2>1, <1>t, DeadIsFewer
    <3>2. TreeSum(procs') <= TreeSum(procs) /\ procs' \in [Procs -> Proc] /\ ~Launch
      BY <1>4, <3>1, <1>t, FewerHoldLess DEF Fewer, Assign, Launch
    <3> QED
      BY <1>1, <1>4, <3>2 DEF Assign
  <2>2. CASE procs' = [procs EXCEPT ![Child].held = TRUE]
    <3>1. /\ procs'[Child].mem = procs[Child].mem /\ procs'[Child].is = procs[Child].is
          /\ procs'[Kid] = procs[Kid]
      BY <2>2, <1>t, <1>p DEF Proc
    <3>2. TreeSum(procs') = TreeSum(procs)
      BY <3>1, SumsAreOfTwo
    <3>3. procs' \in [Procs -> Proc] /\ ~Launch
      BY <1>4, TypesNext DEF Types, Assign, Launch
    <3> QED
      BY <1>1, <1>4, <1>a, <3>2, <3>3 DEF Assign
  <2> QED
    BY <1>4, <2>1, <2>2 DEF Assign
<1>5. CASE Resume \/ Spawn \/ LeaveGroup
  <2>1. procs' \in [Procs -> Proc] /\ ~Launch /\ UNCHANGED port
    BY <1>5, TypesNext DEF Types, Resume, Spawn, LeaveGroup, Launch, Alive, LauncherStays
  <2>2. TreeSum(procs') = TreeSum(procs)
    <3>1. CASE Resume
      <4>1. /\ procs'[Child].mem = procs[Child].mem /\ procs'[Kid] = procs[Kid]
            /\ procs'[Child].is \in {"live", "suspended"} <=> procs[Child].is \in {"live", "suspended"}
        BY <3>1, <1>t, <1>p DEF Resume, Proc
      <4> QED
        BY <4>1, SumsAreOfTwo
    <3>2. CASE Spawn
      <4>1. /\ procs'[Child] = procs[Child] /\ procs'[Kid].mem = 0 /\ procs[Kid].is = "none"
        BY <3>2, <1>t, <1>p DEF Spawn, NoProcess
      <4> QED
        BY <4>1, <1>m, SumsAreOfTwo
    <3>3. CASE LeaveGroup
      <4>1. /\ procs'[Child] = procs[Child] /\ procs'[Kid].mem = procs[Kid].mem /\ procs'[Kid].is = procs[Kid].is
        BY <3>3, <1>t, <1>p DEF LeaveGroup, Proc
      <4> QED
        BY <4>1, SumsAreOfTwo
    <3> QED
      BY <1>5, <3>1, <3>2, <3>3
  <2> QED
    BY <1>1, <1>a, <2>1, <2>2
<1>6. ASSUME NEW p \in Procs, Grow(p) PROVE LimitsAreMet'
  <2>1. procs' = Grown(p) /\ UNCHANGED port
    BY <1>6 DEF Grow
  <2> DEFINE s == Max({truth.sum, TreeSum(procs')})
             c == truth.crossed \/ TreeSum(procs') > Limit
  <2>2. truth' = [truth EXCEPT !.sum = s, !.crossed = c]
    BY <1>6, <2>1 DEF Grow
  <2>3. (TreeSum(procs') > Limit => c) /\ (truth.crossed => c)
    OBVIOUS
  <2> HIDE DEF s, c
  <2>4. truth'.crossed = c
    BY <2>2, <1>t DEF Truth
  <2>5. TreeSum(procs)' = TreeSum(procs')
    BY DEF TreeSum, SumOf
  <2> QED
    BY <2>1, <2>3, <2>4, <2>5 DEF LimitsAreMet
<1>7. ASSUME Ending PROVE LimitsAreMet'
  BY <1>2, <1>3, <1>7
<1> QED
  BY <1>3, <1>4, <1>5, <1>6, <1>7 DEF BoxNext, Launching, Running, Ending

-----------------------------------------------------------------------------
\* The run's own steps are none of the launcher's, nor is the clock's.
LEMMA RunsOnItsOwn ==
  Running \/ Tick \/ UNCHANGED boxVars => UNCHANGED <<how, launcher, usage, ends>> /\ (port => port')
<1>1. ASSUME Running PROVE UNCHANGED <<how, launcher, usage, ends>> /\ (port => port')
  <2>1. LauncherStays
    BY <1>1 DEF Running, Spawn, LeaveGroup, WaitsForKid, Struck, Work, Grow, AllocationFails, Exit, OutOfMemory
  <2>2. UNCHANGED port \/ port'
    BY <1>1 DEF Running, Spawn, LeaveGroup, WaitsForKid, Struck, Work, Grow, AllocationFails, Exit, OutOfMemory
  <2> QED
    BY <2>1, <2>2 DEF LauncherStays
<1>2. ASSUME Tick \/ UNCHANGED boxVars PROVE UNCHANGED <<how, launcher, usage, ends>> /\ (port => port')
  BY <1>2 DEF Tick, boxVars
<1> QED
  BY <1>1, <1>2

\* What the launcher finds out is true when it finds it, and stays so.
LEMMA FindingsNext ==
  ASSUME BoxRunAssumption PROVE Types /\ LimitsAreMet /\ FindingsAreTrue /\ [BoxNext]_boxVars => FindingsAreTrue'
<1> SUFFICES ASSUME BoxRunAssumption, Types, LimitsAreMet, FindingsAreTrue, [BoxNext]_boxVars PROVE FindingsAreTrue'
  OBVIOUS
<1>t. launcher \in Launchers /\ now \in Nat /\ procs \in [Procs -> Proc]
  BY DEF Types, Launchers
<1>a. Limit \in Nat
  BY DEF BoxRunAssumption
<1>s. ~Launch => (truth.crossed => truth'.crossed) /\ now' >= now /\ now' \in Nat
  BY TruthStays, TypesNext DEF Types
<1>1. ASSUME ~Launch, UNCHANGED <<how, launcher>> PROVE FindingsAreTrue'
  BY <1>1, <1>s, <1>t DEF FindingsAreTrue, Launchers
<1>2. ASSUME NEW pc, Goes(pc)
      PROVE  launcher'.pc = pc /\ launcher'.why = launcher.why /\ launcher'.sent = launcher.sent
             /\ launcher'.deadline = launcher.deadline
  BY <1>2, <1>t DEF Goes, Launchers
<1>3. CASE Launch
  BY <1>3 DEF Launch, NoLauncher, FindingsAreTrue, Looking
<1>4. CASE Assign \/ Resume
  <2>1. launcher.pc \in Looking /\ (Goes("resume") \/ Goes("raise") \/ Goes("poll"))
    BY <1>4 DEF Assign, Resume, Looking
  <2> QED
    BY <1>2, <2>1 DEF FindingsAreTrue, Looking
<1>5. CASE Poll
  <2>1. launcher.pc = "poll" /\ UNCHANGED how /\ (Goes("finish") \/ (how = "job" /\ Goes("drain")) \/ Goes("decide"))
    BY <1>5 DEF Poll
  <2>2. launcher.why = "exit" /\ ~launcher.sent
    BY <2>1 DEF FindingsAreTrue, Looking
  <2> QED
    BY <1>2, <2>1, <2>2 DEF FindingsAreTrue, Looking
<1>6. CASE Decide
  <2>1. launcher.why = "exit" /\ ~launcher.sent
    BY <1>6 DEF FindingsAreTrue, Looking, Decide
  <2> DEFINE resident == IF how = "slurm" THEN GroupSum(procs) ELSE 0
             over == IF how = "job" THEN port /\ ~Overdue ELSE resident > Limit
             seen == Max({launcher.seen, resident})
  <2>2. /\ launcher' = [launcher EXCEPT !.seen = seen,
                          !.pc = IF over \/ Overdue THEN "wait" ELSE "poll",
                          !.why = IF over THEN "memory" ELSE IF Overdue THEN "wall" ELSE launcher.why,
                          !.sent = over \/ Overdue]
        /\ UNCHANGED <<how, truth, now>>
    BY <1>6, <1>t DEF Decide, Launchers
  <2>3. over => truth.crossed
    BY <1>a, <1>t, GroupIsOfTree DEF LimitsAreMet
  <2> HIDE DEF over, seen
  <2>4. /\ launcher'.pc = IF over \/ Overdue THEN "wait" ELSE "poll"
        /\ launcher'.why = IF over THEN "memory" ELSE IF Overdue THEN "wall" ELSE "exit"
        /\ launcher'.sent = (over \/ Overdue) /\ launcher'.deadline = launcher.deadline
    BY <2>1, <2>2, <1>t DEF Launchers
  <2>5. UNCHANGED <<how, truth, now>>
    BY <2>2
  <2>6. CASE over
    <3>1. launcher'.pc = "wait" /\ launcher'.why = "memory" /\ launcher'.sent
      BY <2>4, <2>6
    <3> QED
      BY <3>1, <2>3, <2>5, <2>6 DEF FindingsAreTrue, Looking
  <2>7. CASE ~over /\ Overdue
    <3>1. launcher'.pc = "wait" /\ launcher'.why = "wall" /\ launcher'.sent
      BY <2>4, <2>7
    <3>2. now' >= launcher'.deadline
      BY <2>4, <2>5, <2>7 DEF Overdue
    <3> QED
      BY <3>1, <3>2 DEF FindingsAreTrue, Looking
  <2>8. CASE ~over /\ ~Overdue
    <3>1. launcher'.pc = "poll" /\ launcher'.why = "exit" /\ ~launcher'.sent
      BY <2>4, <2>8
    <3> QED
      BY <3>1 DEF FindingsAreTrue, Looking
  <2> QED
    BY <2>6, <2>7, <2>8
<1>7. CASE Wait
  <2>1. /\ launcher.pc = "wait" /\ UNCHANGED <<how, truth, now>>
        /\ ((how = "job" /\ Goes("close")) \/ Goes("finish"))
    BY <1>7 DEF Wait
  <2> QED
    BY <1>2, <2>1 DEF FindingsAreTrue, Looking
<1>8. CASE Drain
  <2>1. /\ launcher.pc = "drain" /\ UNCHANGED <<how, truth, now>>
        /\ launcher' = [launcher EXCEPT !.pc = "close", !.why = IF port THEN "memory" ELSE "exit"]
    BY <1>8 DEF Drain
  <2>2. launcher'.pc = "close" /\ launcher'.why = (IF port THEN "memory" ELSE "exit")
        /\ launcher'.sent = launcher.sent
    BY <2>1, <1>t DEF Launchers
  <2> QED
    BY <2>1, <2>2 DEF FindingsAreTrue, LimitsAreMet, Looking
<1>9. CASE Finish \/ Close \/ Raise \/ LauncherDies
  <2>1. launcher'.pc \in {"idle", "raised", "dead"}
    BY <1>9 DEF Finish, Close, Raise, LauncherDies, NoLauncher
  <2> QED
    BY <2>1 DEF FindingsAreTrue, Looking
<1>10. CASE Running \/ Tick \/ UNCHANGED boxVars
  BY <1>1, <1>3, <1>10, RunsOnItsOwn
<1> QED
  BY <1>3, <1>4, <1>5, <1>6, <1>7, <1>8, <1>9, <1>10 DEF BoxNext, Launching

\* A child is struck by the launcher, by the scope's OOM killer or by another hand.
LEMMA KillsNext ==
  ASSUME BoxRunAssumption PROVE Types /\ FindingsAreTrue /\ KillsHaveAHand /\ [BoxNext]_boxVars => KillsHaveAHand'
<1> SUFFICES ASSUME BoxRunAssumption, Types, FindingsAreTrue, KillsHaveAHand, [BoxNext]_boxVars PROVE KillsHaveAHand'
  OBVIOUS
<1>t. launcher \in Launchers /\ procs \in [Procs -> Proc] /\ truth \in Truth
  BY DEF Types, Launchers
<1>p. Child \in Procs /\ Kid \in Procs /\ Child # Kid
  BY DEF Procs, BoxRunAssumption
<1>s. ~Launch => (truth.crossed => truth'.crossed) /\ (truth.struck => truth'.struck)
  BY TruthStays
<1> DEFINE Watched == launcher.pc \in Looking \cup {"finish", "close"} /\ ~launcher.sent
\* What leaves the child as struck as it was, and looks on at most where it looked.
<1>1. ASSUME ~Launch, UNCHANGED how, procs'[Child].struck => procs[Child].struck, Watched' => Watched
      PROVE KillsHaveAHand'
  BY <1>1, <1>s DEF KillsHaveAHand
<1>2. ASSUME NEW pc, Goes(pc) PROVE launcher'.pc = pc /\ launcher'.sent = launcher.sent
  BY <1>2, <1>t DEF Goes, Launchers
<1>3. CASE Launch
  BY <1>3, <1>p DEF Launch, Launched, NoProcess, KillsHaveAHand
<1>4. CASE Assign
  <2>1. CASE Goes("raise")
    BY <1>2, <2>1 DEF KillsHaveAHand, Looking
  <2>2. CASE procs' = [procs EXCEPT ![Child].held = TRUE] /\ Goes("resume")
    <3>1. procs'[Child].struck = procs[Child].struck
      BY <2>2, <1>t, <1>p DEF Proc
    <3> QED
      BY <1>1, <1>2, <1>4, <2>2, <3>1 DEF Assign, Looking, Launch
  <2> QED
    BY <1>4, <2>1, <2>2 DEF Assign
<1>5. CASE Resume
  <2>1. procs'[Child].struck = procs[Child].struck
    BY <1>5, <1>t, <1>p DEF Resume, Proc
  <2>2. launcher.pc = "resume" /\ (Goes("poll") \/ Goes("raise")) /\ UNCHANGED how /\ ~Launch
    BY <1>5 DEF Resume, Launch
  <2> QED
    BY <1>1, <1>2, <2>1, <2>2 DEF Looking
<1>6. CASE Poll
  <2>1. procs'[Child].struck = procs[Child].struck
    BY <1>6, <1>t, <1>p DEF Poll, Reaped, Proc
  <2>2. launcher.pc = "poll" /\ UNCHANGED how /\ ~Launch /\ (Goes("finish") \/ Goes("drain") \/ Goes("decide"))
    BY <1>6 DEF Poll, Launch
  <2> QED
    BY <1>1, <1>2, <2>1, <2>2 DEF Looking
<1>7. CASE Decide
  <2> DEFINE over == IF how = "job" THEN port /\ ~Overdue ELSE (IF how = "slurm" THEN GroupSum(procs) ELSE 0) > Limit
  <2>1. /\ launcher'.sent = (over \/ Overdue) /\ UNCHANGED how /\ ~Launch /\ launcher.pc = "decide"
        /\ ~(over \/ Overdue) => procs' = procs
    BY <1>7, <1>t DEF Decide, Launchers, Launch
  <2>2. launcher.pc \in Looking /\ ~launcher.sent
    BY <2>1 DEF FindingsAreTrue, Looking
  <2>3. CASE over \/ Overdue
    BY <2>1, <2>3 DEF KillsHaveAHand
  <2>4. CASE ~(over \/ Overdue)
    BY <1>1, <2>1, <2>2, <2>4
  <2> QED
    BY <2>3, <2>4
<1>8. CASE Wait
  <2>2. launcher.sent
    BY <1>8 DEF Wait, FindingsAreTrue
  <2> QED
    BY <1>2, <1>8, <2>2 DEF Wait, KillsHaveAHand
<1>9. CASE Drain
  <2>1. launcher.pc = "drain" /\ UNCHANGED <<how, procs>> /\ ~Launch /\ launcher'.sent = launcher.sent
    BY <1>9, <1>t DEF Drain, Launch, Launchers
  <2> QED
    BY <1>1, <2>1 DEF Looking
<1>10. CASE Finish \/ Close \/ Raise \/ LauncherDies
  <2>1. launcher'.pc \in {"idle", "raised", "dead"}
    BY <1>10 DEF Finish, Close, Raise, LauncherDies, NoLauncher
  <2> QED
    BY <2>1 DEF KillsHaveAHand, Looking
<1>11. CASE Running \/ Tick \/ UNCHANGED boxVars
  <2>1. UNCHANGED <<how, launcher>> /\ (Launch => KillsHaveAHand')
    BY <1>3, <1>11, RunsOnItsOwn
  <2>2. CASE Launch
    BY <2>1, <2>2
  <2>3. ASSUME ~Launch, procs'[Child].struck => procs[Child].struck PROVE KillsHaveAHand'
    BY <1>1, <2>1, <2>3
  <2>4. ASSUME Struck PROVE KillsHaveAHand'
    BY <2>1, <2>4, <1>t DEF Struck, Truth, KillsHaveAHand
  <2>5. ASSUME NEW p \in Procs, NEW v \in Procs, OutOfMemory(p, v) PROVE KillsHaveAHand'
    BY <2>1, <2>5, <1>t DEF OutOfMemory, Truth, KillsHaveAHand
  <2>6. ASSUME WaitsForKid PROVE procs'[Child].struck = procs[Child].struck
    BY <2>6, <1>t, <1>p DEF WaitsForKid, Proc
  <2>7. ASSUME NEW p \in Procs, Work(p) \/ Grow(p) \/ AllocationFails(p) \/ Exit(p)
        PROVE procs'[Child].struck = procs[Child].struck
    <3>1. ASSUME Work(p) \/ AllocationFails(p) PROVE procs'[Child].struck = procs[Child].struck
      BY <3>1, <1>t, <1>p DEF Work, AllocationFails, Proc
    <3>2. ASSUME Grow(p) PROVE procs'[Child].struck = procs[Child].struck
      <4> DEFINE m == Max({procs[p].peak, procs[p].mem + 1})
      <4>1. procs' = [procs EXCEPT ![p].mem = procs[p].mem + 1, ![p].peak = m]
        BY <3>2, <1>t DEF Grow, Grown
      <4> HIDE DEF m
      <4> QED
        BY <4>1, <1>t, <1>p DEF Proc
    <3>3. ASSUME Exit(p) PROVE procs'[Child].struck = procs[Child].struck
      <4> DEFINE qs == [procs EXCEPT ![p].is = "zombie", ![p].mem = 0]
      <4>1. qs \in [Procs -> Proc] /\ qs[Child].struck = procs[Child].struck
        BY <1>t, <1>p DEF Proc
      <4>2. procs' = Settled(qs)
        BY <3>3 DEF Exit
      <4> HIDE DEF qs
      <4> QED
        BY <4>1, <4>2, <1>p, SettledIsFewer
    <3> QED
      BY <2>7, <3>1, <3>2, <3>3
  <2>8. ASSUME Spawn \/ LeaveGroup PROVE procs'[Child].struck = procs[Child].struck
    BY <2>8, <1>t, <1>p DEF Spawn, LeaveGroup, Proc
  <2>9. ASSUME Tick \/ UNCHANGED boxVars PROVE procs' = procs
    BY <2>9 DEF Tick, boxVars
  <2> QED
    BY <1>11, <2>2, <2>3, <2>4, <2>5, <2>6, <2>7, <2>8, <2>9 DEF Running
<1> QED
  BY <1>3, <1>4, <1>5, <1>6, <1>7, <1>8, <1>9, <1>10, <1>11 DEF BoxNext, Launching

-----------------------------------------------------------------------------
\* Nobody comes alive, and everybody is held who was.
Kept(ps, qs) ==
  \A p \in Procs : /\ qs[p].held = ps[p].held
                   /\ qs[p].is \in {"live", "suspended"} => qs[p].is = ps[p].is

\* Five steps bring somebody to life, or in or out of a group.
LEMMA OthersKeep ==
  Types /\ [BoxNext]_boxVars => \/ Spawn \/ LeaveGroup \/ Launch \/ Assign \/ Resume
                          \/ /\ Kept(procs, procs') /\ UNCHANGED how
                             /\ launcher'.pc = launcher.pc
                                  \/ launcher'.pc \in {"decide", "poll", "wait", "drain", "finish", "close"}
                                  \/ Finish \/ Close \/ Raise \/ LauncherDies
<1> SUFFICES ASSUME Types, [BoxNext]_boxVars, ~(Spawn \/ LeaveGroup \/ Launch \/ Assign \/ Resume)
             PROVE  /\ Kept(procs, procs') /\ UNCHANGED how
                    /\ launcher'.pc = launcher.pc
                         \/ launcher'.pc \in {"decide", "poll", "wait", "drain", "finish", "close"}
                         \/ Finish \/ Close \/ Raise \/ LauncherDies
  OBVIOUS
<1>t. launcher \in Launchers /\ procs \in [Procs -> Proc]
  BY DEF Types, Launchers
<1>1. ASSUME NEW p \in Procs, Grow(p) PROVE Kept(procs, procs') /\ UNCHANGED <<how, launcher>>
  <2> DEFINE m == Max({procs[p].peak, procs[p].mem + 1})
  <2>1. procs' = [procs EXCEPT ![p].mem = procs[p].mem + 1, ![p].peak = m]
    BY <1>1, <1>t DEF Grow, Grown
  <2> HIDE DEF m
  <2> QED
    BY <1>1, <2>1, <1>t DEF Kept, Proc, Grow, LauncherStays
<1>2. ASSUME Ending PROVE Kept(procs, procs')
  BY <1>2, EndingIsFewer DEF Fewer, Kept
<1>3. ASSUME NEW pc, Goes(pc) PROVE launcher'.pc = pc
  BY <1>3, <1>t DEF Goes, Launchers
<1>4. CASE Running \/ Tick \/ UNCHANGED boxVars
  <2>1. UNCHANGED <<how, launcher>>
    BY <1>4, RunsOnItsOwn
  <2>2. Ending \/ \E p \in Procs : Grow(p)
    BY <1>4 DEF Running, Ending
  <2> QED
    BY <1>1, <1>2, <2>1, <2>2
<1>5. CASE Poll \/ Decide \/ Wait \/ Drain
  <2>1. UNCHANGED how
    BY <1>5 DEF Poll, Decide, Wait, Drain
  <2>2. Poll \/ Wait => launcher'.pc \in {"decide", "drain", "finish", "close"}
    BY <1>3 DEF Poll, Wait
  <2>3. Decide => launcher'.pc \in {"poll", "wait"}
    BY <1>t DEF Decide, Launchers
  <2>4. Drain => launcher'.pc = "close"
    BY <1>t DEF Drain, Launchers
  <2>5. Ending
    BY <1>5 DEF Ending
  <2> QED
    BY <1>2, <1>5, <2>1, <2>2, <2>3, <2>4, <2>5
<1>6. CASE Finish \/ Close \/ Raise \/ LauncherDies
  BY <1>2, <1>6 DEF Ending, Finish, Close, Raise, LauncherDies
<1> QED
  BY <1>4, <1>5, <1>6 DEF BoxNext, Launching

\* What a launcher ends with.
LEMMA EndsAreEnds ==
  /\ Finish \/ Close => launcher'.pc = "idle"
  /\ Raise => launcher'.pc = "raised"
  /\ LauncherDies => launcher'.pc = "dead"
BY DEF Finish, Close, Raise, LauncherDies, NoLauncher

\* A child is in its group or job before it runs, and its own are born there.
LEMMA ChildrenNext ==
  ASSUME BoxRunAssumption PROVE Types /\ ChildrenAreHeld /\ [BoxNext]_boxVars => ChildrenAreHeld'
<1> SUFFICES ASSUME BoxRunAssumption, Types, ChildrenAreHeld, [BoxNext]_boxVars PROVE ChildrenAreHeld'
  OBVIOUS
<1>t. launcher \in Launchers /\ procs \in [Procs -> Proc]
  BY DEF Types, Launchers
<1>p. Child \in Procs /\ Kid \in Procs /\ Child # Kid
  BY DEF Procs, BoxRunAssumption
<1>g. ASSUME NEW pc, Goes(pc) PROVE launcher'.pc = pc
  BY <1>g, <1>t DEF Goes, Launchers
<1>1. ASSUME Kept(procs, procs'), UNCHANGED how, launcher'.pc = "resume" => launcher.pc = "resume"
      PROVE  ChildrenAreHeld'
  BY <1>1, <1>p DEF ChildrenAreHeld, Alive, Kept
<1>2. CASE Spawn
  <2>1. procs'[Child] = procs[Child] /\ procs'[Kid].held = procs[Child].held /\ UNCHANGED <<how, launcher>>
    BY <1>2, <1>t, <1>p DEF Spawn, NoProcess, LauncherStays
  <2>2. procs[Child].held = TRUE
    BY <1>2, <1>t, <1>p DEF Spawn, ChildrenAreHeld, Proc
  <2> QED
    BY <2>1, <2>2 DEF ChildrenAreHeld, Alive
<1>3. CASE LeaveGroup
  <2>1. procs'[Child] = procs[Child] /\ UNCHANGED <<how, launcher>> /\ how # "job"
    BY <1>3, <1>t, <1>p DEF LeaveGroup, LauncherStays
  <2> QED
    BY <2>1 DEF ChildrenAreHeld, Alive
<1>4. CASE Launch
  <2>1. procs'[Child] = Launched /\ procs'[Kid] = NoProcess /\ UNCHANGED how /\ launcher'.pc \in {"assign", "poll"}
    BY <1>4, <1>p DEF Launch, NoLauncher
  <2>2. Launched.is = "live" => Launched.held
    BY DEF Launched, NoProcess
  <2> QED
    BY <2>1, <2>2 DEF ChildrenAreHeld, Alive, NoProcess
<1>5. CASE Assign
  <2>1. CASE procs' = Dead(procs, {Child}) /\ Goes("raise")
    <3>1. Kept(procs, procs')
      BY <2>1, <1>t, DeadIsFewer DEF Fewer, Kept
    <3>2. launcher'.pc = "raise"
      BY <2>1, <1>g
    <3> QED
      BY <1>1, <1>5, <3>1, <3>2 DEF Assign
  <2>2. CASE procs' = [procs EXCEPT ![Child].held = TRUE] /\ Goes("resume")
    <3>1. procs'[Child].held /\ procs'[Kid] = procs[Kid] /\ UNCHANGED how
      BY <1>5, <2>2, <1>t, <1>p DEF Assign, Proc
    <3> QED
      BY <3>1 DEF ChildrenAreHeld, Alive
  <2> QED
    BY <1>5, <2>1, <2>2 DEF Assign
<1>6. CASE Resume
  <2>1. procs'[Child].held = procs[Child].held /\ procs'[Kid] = procs[Kid] /\ UNCHANGED how /\ launcher.pc = "resume"
    BY <1>6, <1>t, <1>p DEF Resume, Proc
  <2>2. procs[Child].held
    BY <2>1 DEF ChildrenAreHeld
  <2>3. launcher'.pc \in {"poll", "raise"}
    BY <1>6, <1>g DEF Resume
  <2> QED
    BY <2>1, <2>2, <2>3 DEF ChildrenAreHeld, Alive
<1> QED
  BY <1>1, <1>2, <1>3, <1>4, <1>5, <1>6, OthersKeep, EndsAreEnds

\* What is told of a run was found out of it.
LEMMA ReasonNext ==
  ASSUME BoxRunAssumption
  PROVE  Types /\ FindingsAreTrue /\ KillsHaveAHand /\ ReasonIsTrue /\ [BoxNext]_boxVars => ReasonIsTrue'
<1> SUFFICES ASSUME BoxRunAssumption, Types, FindingsAreTrue, KillsHaveAHand, ReasonIsTrue, [BoxNext]_boxVars
             PROVE  ReasonIsTrue'
  OBVIOUS
<1> DEFINE True(e) == /\ e.why = "memory" => e.truth.crossed \/ e.truth.struck
                      /\ e.why = "wall" => e.late
                      /\ e.why = "exit" => ~e.sent /\ ~e.struck
<1>t. launcher \in Launchers /\ ends \in Seq(Ends) /\ procs \in [Procs -> Proc] /\ Child \in Procs
  BY DEF Types, Launchers, Ends, Procs
<1>b. procs[Child].struck \in BOOLEAN /\ launcher.sent \in BOOLEAN /\ launcher.why \in Reason
  BY <1>t DEF Proc, Launchers
<1>1. ASSUME NEW e, ends' = Append(ends, e), True(e) PROVE ReasonIsTrue'
  <2>1. \A i \in DOMAIN ends' : (i \in DOMAIN ends /\ ends'[i] = ends[i]) \/ ends'[i] = e
    BY <1>1, <1>t
  <2>2. \A i \in DOMAIN ends : True(ends[i])
    BY DEF ReasonIsTrue
  <2>3. \A i \in DOMAIN ends' : True(ends'[i])
    BY <1>1, <2>1, <2>2
  <2> QED
    BY <2>3 DEF ReasonIsTrue
<1>2. CASE Finish
  <2> DEFINE why == WhyOf(launcher.why, procs[Child].struck)
  <2> DEFINE e == [why |-> why, struck |-> procs[Child].struck, peak |-> Max({launcher.seen, usage.mem}), cpu |-> usage.cpu,
                   late |-> now >= launcher.deadline, sent |-> launcher.sent, truth |-> truth]
  <2>0. ends' = Append(ends, e)
    BY <1>2 DEF Finish, Ended
  <2>1. /\ e.why = why /\ e.struck = procs[Child].struck /\ e.late = (now >= launcher.deadline)
        /\ e.sent = launcher.sent /\ e.truth = truth
    OBVIOUS
  <2>2. /\ launcher.why = "memory" => truth.crossed
        /\ launcher.why = "wall" => now >= launcher.deadline
        /\ launcher.why = "exit" => ~launcher.sent
        /\ ~launcher.sent /\ procs[Child].struck => truth.crossed \/ truth.struck
    BY <1>2 DEF Finish, FindingsAreTrue, KillsHaveAHand
  <2>3. /\ why = "memory" => truth.crossed \/ truth.struck
        /\ why = "wall" => now >= launcher.deadline
        /\ why = "exit" => ~launcher.sent /\ ~procs[Child].struck
    BY <2>2, <1>b DEF WhyOf, Reason
  <2> HIDE DEF why, e
  <2>4. True(e)
    BY <2>1, <2>3
  <2> QED
    BY <1>1, <2>0, <2>4
<1>3. CASE Close
  <2> DEFINE e == [why |-> launcher.why, struck |-> procs[Child].struck, peak |-> truth.sum, cpu |-> truth.cpu,
                   late |-> now >= launcher.deadline, sent |-> launcher.sent, truth |-> truth]
  <2>0. ends' = Append(ends, e)
    BY <1>3 DEF Close, Ended
  <2>1. /\ e.why = launcher.why /\ e.struck = procs[Child].struck /\ e.late = (now >= launcher.deadline)
        /\ e.sent = launcher.sent /\ e.truth = truth
    OBVIOUS
  <2>2. /\ launcher.why = "memory" => truth.crossed
        /\ launcher.why = "wall" => now >= launcher.deadline
        /\ launcher.why = "exit" => ~launcher.sent
        /\ ~launcher.sent /\ procs[Child].struck => how # "job"
        /\ how = "job"
    BY <1>3 DEF Close, FindingsAreTrue, KillsHaveAHand
  <2> HIDE DEF e
  <2>3. True(e)
    BY <2>1, <2>2
  <2> QED
    BY <1>1, <2>0, <2>3
<1>4. ASSUME UNCHANGED ends PROVE ReasonIsTrue'
  BY <1>4 DEF ReasonIsTrue
<1>5. Running \/ Tick \/ UNCHANGED boxVars => UNCHANGED ends
  BY RunsOnItsOwn
<1>6. Launch \/ Assign \/ Resume \/ Poll \/ Decide \/ Wait \/ Drain \/ Raise \/ LauncherDies => UNCHANGED ends
  BY DEF Launch, Assign, Resume, Poll, Decide, Wait, Drain, Raise, LauncherDies
<1> QED
  BY <1>2, <1>3, <1>4, <1>5, <1>6 DEF BoxNext, Launching

\* Nothing of a run is left where its claim no longer is.
LEMMA LooseNext ==
  ASSUME BoxRunAssumption
  PROVE  Types /\ ChildrenAreHeld /\ NothingRunsLoose /\ [BoxNext]_boxVars => NothingRunsLoose'
<1> SUFFICES ASSUME BoxRunAssumption, Types, ChildrenAreHeld, NothingRunsLoose, [BoxNext]_boxVars
             PROVE  NothingRunsLoose'
  OBVIOUS
<1>t. launcher \in Launchers /\ procs \in [Procs -> Proc]
  BY DEF Types, Launchers
<1>p. Child \in Procs /\ Kid \in Procs /\ Child # Kid
  BY DEF Procs, BoxRunAssumption
<1>g. ASSUME NEW pc, Goes(pc) PROVE launcher'.pc = pc
  BY <1>g, <1>t DEF Goes, Launchers
<1>k. /\ Kept(procs, KillGroup(procs))
      /\ \A p \in Procs : ~Held(KillGroup(procs), p)
  BY <1>t, GroupIsKilled DEF Fewer, Kept
<1>h. (how = "job" => \A p \in Procs : Alive(p) => procs[p].held)'
  BY ChildrenNext DEF ChildrenAreHeld, Procs
\* Where nobody comes alive, who was gone stays gone.
<1>1. ASSUME Kept(procs, procs'), UNCHANGED how, launcher'.pc = launcher.pc PROVE NothingRunsLoose'
  <2>1. \A p \in Procs : (Alive(p)' => Alive(p)) /\ (Held(procs, p)' => Held(procs, p))
    BY <1>1 DEF Alive, Held, Kept
  <2> QED
    BY <1>1, <1>h, <2>1 DEF NothingRunsLoose
<1>2. ASSUME launcher'.pc \notin {"dead", "idle", "raised"} PROVE NothingRunsLoose'
  BY <1>2, <1>h DEF NothingRunsLoose
<1>3. CASE Spawn
  <2>1. launcher.pc \notin {"idle", "raised"} /\ ~(how = "job" /\ launcher.pc = "dead")
    BY <1>3, <1>p DEF Spawn, NothingRunsLoose, ChildrenAreHeld, Alive, Held
  <2>2. UNCHANGED <<how, launcher>>
    BY <1>3 DEF Spawn, LauncherStays
  <2> QED
    BY <2>1, <2>2, <1>h DEF NothingRunsLoose
<1>4. CASE LeaveGroup
  <2>1. \A p \in Procs : procs'[p].is = procs[p].is /\ (procs'[p].held => procs[p].held)
    BY <1>4, <1>t DEF LeaveGroup, Proc
  <2>2. UNCHANGED <<how, launcher>>
    BY <1>4 DEF LeaveGroup, LauncherStays
  <2> QED
    BY <2>1, <2>2, <1>h DEF NothingRunsLoose, Alive, Held
<1>5. CASE Launch \/ Assign \/ Resume
  <2>1. launcher'.pc \in {"assign", "poll", "resume", "raise"}
    BY <1>5, <1>g DEF Launch, Assign, Resume, NoLauncher
  <2> QED
    BY <1>2, <2>1
<1>6. CASE Finish \/ Close \/ Raise
  <2>1. \A p \in Procs : ~Held(procs, p)'
    <3>1. CASE Finish \/ Close
      BY <1>k, <3>1 DEF Finish, Close, Left, Held
    <3>2. CASE Raise
      <4> DEFINE ks == KillGroup(procs)
      <4>1. ks \in [Procs -> Proc]
        BY <1>t, GroupIsKilled DEF Fewer
      <4>2. procs' = [p \in Procs |-> [ks[p] EXCEPT !.is = IF @ = "zombie" THEN "gone" ELSE @]]
        BY <3>2 DEF Raise
      <4>3. \A p \in Procs : ~Held(ks, p)
        BY <1>k
      <4> HIDE DEF ks
      <4> QED
        BY <4>1, <4>2, <4>3 DEF Held, Proc
    <3> QED
      BY <1>6, <3>1, <3>2
  <2>2. launcher'.pc \in {"idle", "raised"}
    BY <1>6, EndsAreEnds
  <2> QED
    BY <2>1, <2>2, <1>h DEF NothingRunsLoose
<1>7. CASE LauncherDies
  <2>1. launcher'.pc = "dead" /\ UNCHANGED how
    BY <1>7, EndsAreEnds DEF LauncherDies
  <2>2. ASSUME how = "job" PROVE \A p \in Procs : ~Alive(p)'
    <3>1. procs' = KillGroup(procs)
      BY <1>7, <2>2 DEF LauncherDies
    <3>2. \A p \in Procs : Alive(p)' => Alive(p) /\ procs'[p].held = procs[p].held
      BY <1>k, <3>1 DEF Alive, Kept
    <3>3. \A p \in Procs : Alive(p) => procs[p].held
      BY <2>2 DEF NothingRunsLoose
    <3> QED
      BY <1>k, <3>1, <3>2, <3>3 DEF Alive, Held
  <2> QED
    BY <2>1, <2>2, <1>h DEF NothingRunsLoose
<1> QED
  BY <1>1, <1>2, <1>3, <1>4, <1>5, <1>6, <1>7, OthersKeep

-----------------------------------------------------------------------------
\* Nothing has been launched yet.
LEMMA RunInit == ASSUME BoxRunAssumption PROVE BoxInit => RunInv
<1> SUFFICES ASSUME BoxRunAssumption, BoxInit PROVE RunInv
  OBVIOUS
<1>p. Child \in Procs /\ Kid \in Procs
  BY DEF Procs
<1>n. NoProcess \in Proc /\ NoLauncher \in Launchers /\ NoTruth \in Truth /\ Nothing \in [mem : Nat, cpu : Nat]
  BY DEF NoProcess, Proc, Nothing, Spent, NoLauncher, Launchers, Places, Reason, NoTruth, Truth
<1>h. how \in {"scope", "slurm", "job"}
  BY DEF BoxInit, BoxRunAssumption
<1>1. procs = [p \in Procs |-> NoProcess] /\ port = FALSE /\ launcher = NoLauncher /\ ends = <<>>
  BY DEF BoxInit
<1>e. ends \in Seq(Ends) /\ procs \in [Procs -> Proc]
  BY <1>1, <1>n
<1>o. usage = Nothing /\ truth = NoTruth /\ now = 0
  BY DEF BoxInit
<1>2. Types
  BY <1>1, <1>n, <1>h, <1>e, <1>o DEF Types, Launchers, Ends
<1>3. TreeSum(procs) = 0
  BY <1>1, <1>p, SumsAreOfTwo DEF NoProcess
<1>4. LimitsAreMet
  BY <1>1, <1>3 DEF LimitsAreMet, BoxRunAssumption
<1>5. FindingsAreTrue /\ KillsHaveAHand
  BY <1>1 DEF FindingsAreTrue, KillsHaveAHand, NoLauncher, Looking
<1>6. ChildrenAreHeld /\ NothingRunsLoose
  BY <1>1, <1>p DEF ChildrenAreHeld, NothingRunsLoose, Alive, Held, NoProcess, NoLauncher
<1>7. ReasonIsTrue
  BY <1>1 DEF ReasonIsTrue
<1> QED
  BY <1>2, <1>4, <1>5, <1>6, <1>7 DEF RunInv

\* Every step keeps the inductive invariant.
LEMMA RunNext == ASSUME BoxRunAssumption PROVE RunInv /\ [BoxNext]_boxVars => RunInv'
BY TypesNext, LimitsNext, FindingsNext, KillsNext, ChildrenNext, ReasonNext, LooseNext DEF RunInv

\* What the caller learns from is true, and no part of a run is outside its job, or alive in
\* its group when its claim has gone: WhyOf and _kill_group against every step a child takes.
THEOREM RunsStayContained == ASSUME BoxRunAssumption PROVE BoxSpec => []RunsAreContained
<1>1. BoxInit => RunInv
  BY RunInit
<1>2. RunInv /\ [BoxNext]_boxVars => RunInv'
  BY RunNext
<1>3. RunInv => RunsAreContained
  BY DEF RunInv, RunsAreContained
<1> QED
  BY <1>1, <1>2, <1>3, PTL DEF BoxSpec

-----------------------------------------------------------------------------
(* The process table: what is listed, and what a call has read of it.      *)
Row ==
  [is : {"free", "live", "dying", "zombie"}, parent : Pids \union {InitPid}, born : 0 .. clock, of : 0 .. born + 1, above : 0 .. born + 1,
   kin : BOOLEAN, cpu : 0 .. MaxCpu]
Killer ==
  [pc : {"idle", "walk", "kill", "poll", "told"}, rows : {killer.rows}, linked : SUBSET (0 .. born + 1), left : SUBSET Pids,
   signalled : SUBSET Pids, pending : SUBSET Pids, deadline : Nat, astray : BOOLEAN, blurred : BOOLEAN, result : SUBSET Pids]
Reading == [key : Pids \X (0 .. MaxClock), cpu : 0 .. MaxCpu]
Meter ==
  [pc : {"idle", "walk"}, rows : {meter.rows}, seen : SUBSET Reading, samples : Nat, told : Nat, blurred : BOOLEAN]
TableTypes ==
  /\ system \in [os : Systems, call : {"kill", "meter"}]
  /\ table \in [Pids -> Row] /\ killer \in Killer /\ meter \in Meter
  /\ used \in Nat /\ born \in Nat /\ clock \in 0 .. MaxClock
  /\ DOMAIN killer.rows \subseteq Pids /\ DOMAIN meter.rows \subseteq Pids

\* Who is listed is one process, and the first two have nobody above them.
FirstAreFirst ==
  \A p \in Pids : Listed(p) =>
    /\ table[p].of = table[p].above => table[p].parent = InitPid /\ table[p].is # "zombie"
    /\ table[p].of = 0 => p = Root /\ table[p].kin /\ table[p].above = 0
    /\ \A q \in Pids : Listed(q) /\ table[q].of = table[p].of => q = p

\* Who is written as a parent made it and is no younger, or got the number later (not on Linux).
EdgesAreDated ==
  \A q \in Pids : Listed(q) /\ table[q].parent \in Pids =>
    LET r == table[q].parent
    IN  /\ system.os = "linux" => PidAlive(r)
        /\ Listed(r) =>
             IF table[r].of = table[q].above
               THEN table[r].kin = table[q].kin /\ table[r].born <= table[q].born
               ELSE system.os # "linux" /\ table[q].born <= table[r].born
\* A maker that lives is written.
ParentsAreWritten ==
  \A q, r \in Pids :
    Listed(q) /\ PidAlive(r) /\ table[r].of = table[q].above /\ table[q].of # table[q].above => table[q].parent = r
Edges == FirstAreFirst /\ EdgesAreDated /\ ParentsAreWritten

\* Who of the rows was of the tree when they were read.
TrueOf(rows, kinOf) ==
  /\ kinOf \in [DOMAIN rows -> BOOLEAN]
  /\ Root \in DOMAIN rows => kinOf[Root]
  /\ \A p \in DOMAIN rows : Listed(p) => table[p].kin = kinOf[p] /\ (system.os # "linux" => table[p].parent = rows[p])
  /\ \A p \in DOMAIN rows : rows[p] \in DOMAIN rows =>
       \/ kinOf[p] = kinOf[rows[p]]
       \/ system.os # "linux" /\ (Listed(p) /\ Listed(rows[p]) => table[p].born <= table[rows[p]].born)
RowsAreTrue(rows) == \E kinOf \in [DOMAIN rows -> BOOLEAN] : TrueOf(rows, kinOf)

\* L is reached from the root over the rows, and holds who is linked and lives.
Reaches(rows, L) ==
  \A S \in SUBSET DOMAIN rows :
    Root \in S /\ (\A q \in L : rows[q] \in S /\ rows[q] \in L => q \in S) => L \subseteq S
LinkedBy(rows, linked, L) ==
  /\ L # {} => Root \in DOMAIN rows
  /\ Reaches(rows, L)
  /\ \A q \in L : rows[q] \in L /\ Listed(q) /\ Listed(rows[q]) => table[rows[q]].born <= table[q].born
  /\ \A p \in Pids : PidAlive(p) /\ table[p].of \in linked => p \in L
RowsReach(rows, linked) == \E L \in SUBSET DOMAIN rows : LinkedBy(rows, linked, L)

\* The kill, place by place: the rows are true and reach who is linked, then its list does.
KillInv ==
  /\ killer.pc = "idle" => killer = NoKill
  /\ killer.pc = "walk" => RowsReach(killer.rows, killer.linked) /\ ~killer.astray /\ killer.signalled = {}
  /\ killer.pc = "kill" =>
       /\ killer.left \subseteq DOMAIN killer.rows
       /\ \A p \in killer.left : Listed(p) => table[p].kin \/ killer.blurred
       /\ \A p \in Pids : table[p].is = "live" /\ table[p].of \in killer.linked => p \in killer.left
  /\ killer.pc = "poll" =>
       /\ \A p \in Pids : table[p].is = "live" => table[p].of \notin killer.linked
       /\ \A p \in killer.signalled \ killer.pending : ~PidAlive(p)
  /\ killer.pc = "told" => \A p \in killer.result : ~PidAlive(p)
  /\ killer.astray => killer.blurred
  /\ RowsAreTrue(killer.rows)

\* What the tree was seen using and uses now, unit by unit, by number and creation time.
UnitsOf(seen, t) ==
  {x \in (Pids \X (0 .. MaxClock)) \X (1 .. MaxCpu) :
     \/ \E e \in seen : e.key = x[1] /\ x[2] <= e.cpu
     \/ \E p \in Pids : t[p].is # "free" /\ t[p].kin /\ <<p, t[p].born>> = x[1] /\ x[2] <= t[p].cpu}
MeterInv ==
  /\ meter.pc = "idle" => meter.rows = <<>>
  /\ RowsAreTrue(meter.rows)
  /\ ~meter.blurred => Cardinality(UnitsOf(meter.seen, table)) <= used /\ meter.told <= used
  /\ \A e, f \in meter.seen : e.key = f.key => e = f


-----------------------------------------------------------------------------
\* A listed number is its process still, dead sooner or later, or one of a new process that no
\* call has read.
Ages ==
  \A p \in Pids : table'[p].is # "free" =>
    \/ /\ table[p].is # "free" /\ table'[p].of = table[p].of /\ table'[p].above = table[p].above
       /\ table'[p].kin = table[p].kin /\ table'[p].born = table[p].born
       /\ system.os # "linux" => table'[p].parent = table[p].parent
       /\ table'[p].is = "live" => table[p].is = "live"
       /\ table'[p].is \in {"live", "dying"} => table[p].is \in {"live", "dying"}
    \/ /\ p \notin DOMAIN killer.rows /\ p \notin DOMAIN meter.rows /\ p \notin killer.signalled
       /\ table'[p].of = born + 2

LEMMA NumbersAreNotInit == ASSUME TableAssumption PROVE InitPid \notin Pids /\ Root \in Pids /\ Other \in Pids
  BY DEF TableAssumption

\* A process made: who is where afterwards.
LEMMA SpawnedRow ==
  ASSUME TableAssumption, TableTypes, NEW p \in Pids, NEW q \in Pids, table' = [table EXCEPT ![q] = Spawned(p)], born' = born + 1, clock' = clock
  PROVE  /\ table' \in [Pids -> Row']
         /\ \A r \in Pids \ {q} : table'[r] = table[r]
         /\ table'[q].is = "live" /\ table'[q].parent = p /\ table'[q].born = clock /\ table'[q].of = born + 2
         /\ table'[q].above = table[p].of /\ table'[q].kin = table[p].kin /\ table'[q].cpu = 0
  <1>1. table[p] \in Row /\ \A r \in Pids : table[r] \in Row
    BY DEF TableTypes
  <1>2. clock \in Nat /\ born \in Nat /\ MaxCpu \in Nat
    BY DEF TableTypes, TableAssumption
  <1>3. Spawned(p) \in Row'
    BY <1>1, <1>2 DEF Spawned, Row
  <1>4. \A r \in Pids : table[r] \in Row'
    BY <1>1, <1>2 DEF Row
  <1>5. table' \in [Pids -> Row']
    BY <1>3, <1>4 DEF TableTypes
  <1>6. /\ \A r \in Pids \ {q} : table'[r] = table[r]
        /\ table'[q] = Spawned(p)
    BY DEF TableTypes
  <1> QED
    BY <1>5, <1>6 DEF Spawned

\* Who is gone, and whom init adopts.
LEMMA GoneRows ==
  ASSUME TableAssumption, TableTypes, NEW p \in Pids, table' = Gone(p), born' = born, clock' = clock
  PROVE  /\ table' \in [Pids -> Row']
         /\ \A q \in Pids \ {p} :
              /\ table'[q].is = table[q].is /\ table'[q].of = table[q].of /\ table'[q].above = table[q].above
              /\ table'[q].kin = table[q].kin /\ table'[q].born = table[q].born /\ table'[q].cpu = table[q].cpu
              /\ table'[q].parent = IF system.os = "linux" /\ table[q].parent = p THEN InitPid ELSE table[q].parent
         /\ table'[p].is \in {"free", "zombie"}
         /\ table'[p].is = "zombie" =>
              /\ system.os = "linux" /\ HasParent(p)
              /\ table'[p].of = table[p].of /\ table'[p].above = table[p].above /\ table'[p].cpu = table[p].cpu
              /\ table'[p].kin = table[p].kin /\ table'[p].born = table[p].born
              /\ table'[p].parent = IF table[p].parent = p THEN InitPid ELSE table[p].parent
  <1>1. \A r \in Pids : table[r] \in Row
    BY DEF TableTypes
  <1>2. clock \in Nat /\ born \in Nat /\ MaxCpu \in Nat
    BY DEF TableTypes, TableAssumption
  <1>3. Row' = Row
    BY DEF Row
  <1>4. Free \in Row
    BY <1>2 DEF Row, Free
  <1> DEFINE z == IF system.os = "linux" /\ HasParent(p) THEN [table[p] EXCEPT !.is = "zombie"] ELSE Free
             t == [table EXCEPT ![p] = z]
  <1>5. z \in Row
    BY <1>1, <1>4 DEF Row
  <1>6. t \in [Pids -> Row] /\ t[p] = z /\ \A q \in Pids \ {p} : t[q] = table[q]
    BY <1>5 DEF TableTypes
  <1> HIDE DEF t
  <1>7. table' = [q \in Pids |-> IF system.os = "linux" /\ t[q].parent = p THEN [t[q] EXCEPT !.parent = InitPid] ELSE t[q]]
    BY DEF Gone, Adopted, t
  <1>8. \A q \in Pids : [t[q] EXCEPT !.parent = InitPid] \in Row
    BY <1>6 DEF Row
  <1>9. table' \in [Pids -> Row]
    BY <1>6, <1>7, <1>8
  <1>10. \A q \in Pids : table'[q] = IF system.os = "linux" /\ t[q].parent = p THEN [t[q] EXCEPT !.parent = InitPid] ELSE t[q]
    BY <1>7
  <1>11. ASSUME NEW q \in Pids \ {p}
        PROVE  /\ table'[q].is = table[q].is /\ table'[q].of = table[q].of /\ table'[q].above = table[q].above
               /\ table'[q].kin = table[q].kin /\ table'[q].born = table[q].born /\ table'[q].cpu = table[q].cpu
               /\ table'[q].parent = IF system.os = "linux" /\ table[q].parent = p THEN InitPid ELSE table[q].parent
    <2>1. table[q] \in Row /\ t[q] = table[q]
      BY <1>1, <1>6
    <2>2. CASE system.os = "linux" /\ table[q].parent = p
      <3>1. table'[q] = [table[q] EXCEPT !.parent = InitPid]
        BY <1>10, <2>1, <2>2
      <3> QED
        BY <2>1, <2>2, <3>1 DEF Row
    <2>3. CASE ~(system.os = "linux" /\ table[q].parent = p)
      BY <1>10, <2>1, <2>3
    <2> QED
      BY <2>2, <2>3
  <1>12. CASE system.os = "linux" /\ HasParent(p)
    <2>1. z = [table[p] EXCEPT !.is = "zombie"]
      BY <1>12
    <2> HIDE DEF z
    <2>2. z.is = "zombie" /\ z.parent = table[p].parent /\ z.of = table[p].of /\ z.above = table[p].above /\ z.kin = table[p].kin
          /\ z.born = table[p].born /\ z.cpu = table[p].cpu
      BY <2>1, <1>1 DEF Row
    <2>3. table'[p] = IF z.parent = p THEN [z EXCEPT !.parent = InitPid] ELSE z
      BY <1>6, <1>10, <1>12
    <2> QED
      BY <1>3, <1>5, <1>9, <1>11, <1>12, <2>2, <2>3 DEF Row
  <1>13. CASE ~(system.os = "linux" /\ HasParent(p))
    <2>1. z = Free
      BY <1>13
    <2> HIDE DEF z
    <2>2. InitPid # p
      BY NumbersAreNotInit
    <2>4. Free.parent = InitPid
      BY DEF Free
    <2>3. table'[p] = Free
      BY <1>6, <1>10, <2>1, <2>2, <2>4
    <2> QED
      BY <1>3, <1>9, <1>11, <2>3 DEF Free
  <1> QED
    BY <1>12, <1>13


\* Rows that differ only in what a process used, or in whether it is dying.
LEMMA SameEdges ==
  ASSUME Edges, system' = system,
         \A p \in Pids :
           /\ table'[p].of = table[p].of /\ table'[p].above = table[p].above /\ table'[p].kin = table[p].kin
           /\ table'[p].born = table[p].born /\ table'[p].parent = table[p].parent
           /\ (table'[p].is = "free") <=> (table[p].is = "free")
           /\ (table'[p].is = "zombie") <=> (table[p].is = "zombie")
           /\ (table'[p].is \in {"live", "dying"}) <=> (table[p].is \in {"live", "dying"})
  PROVE  Edges'
  <1>1. FirstAreFirst'
    BY DEF Edges, FirstAreFirst, Listed
  <1>2. EdgesAreDated'
    BY DEF Edges, EdgesAreDated, Listed, PidAlive
  <1>3. ParentsAreWritten'
    BY DEF Edges, ParentsAreWritten, Listed, PidAlive
  <1> QED
    BY <1>1, <1>2, <1>3 DEF Edges

LEMMA SpawnKeepsEdges ==
  ASSUME TableAssumption, TableTypes, Edges, NEW p \in Pids, NEW q \in Pids, table[p].is = "live", table[q].is = "free",
         table' = [table EXCEPT ![q] = Spawned(p)], born' = born + 1, clock' = clock, system' = system
  PROVE  Edges'
  <1>1. /\ \A r \in Pids \ {q} : table'[r] = table[r]
        /\ table'[q].is = "live" /\ table'[q].parent = p /\ table'[q].born = clock /\ table'[q].of = born + 2
        /\ table'[q].above = table[p].of /\ table'[q].kin = table[p].kin
    BY SpawnedRow
  <1>2. /\ \A r \in Pids : table[r].of \in 0 .. born + 1 /\ table[r].above \in 0 .. born + 1 /\ table[r].born \in 0 .. clock
        /\ born \in Nat /\ clock \in Nat
    BY DEF TableTypes, Row, TableAssumption
  <1>3. p # q /\ InitPid \notin Pids
    BY NumbersAreNotInit
  <1>4. FirstAreFirst'
    BY <1>1, <1>2, <1>3 DEF Edges, FirstAreFirst, Listed
  <1>5. ASSUME NEW r \in Pids, table'[r].is # "free", table'[r].parent \in Pids
        PROVE  /\ system.os = "linux" => table'[table'[r].parent].is \in {"live", "dying"}
               /\ table'[table'[r].parent].is # "free" =>
                    IF table'[table'[r].parent].of = table'[r].above
                      THEN table'[table'[r].parent].kin = table'[r].kin /\ table'[table'[r].parent].born <= table'[r].born
                      ELSE system.os # "linux" /\ table'[r].born <= table'[table'[r].parent].born
    <2>1. CASE r = q
      <3>1. table'[p] = table[p] /\ table'[r].parent = p
        BY <1>1, <1>3, <2>1
      <3> QED
        BY <1>1, <1>2, <2>1, <3>1
    <2>2. CASE r # q /\ table[r].parent = q
      <3>1. table'[r] = table[r]
        BY <1>1, <2>2
      <3>2. system.os # "linux"
        BY <1>5, <2>2, <3>1 DEF Edges, EdgesAreDated, Listed, PidAlive
      <3> QED
        BY <1>1, <1>2, <2>2, <3>1, <3>2
    <2>3. CASE r # q /\ table[r].parent # q
      <3>1. table'[r] = table[r] /\ table'[table[r].parent] = table[table[r].parent]
        BY <1>1, <1>5, <2>3
      <3> QED
        BY <1>5, <2>3, <3>1 DEF Edges, EdgesAreDated, Listed, PidAlive
    <2> QED
      BY <2>1, <2>2, <2>3
  <1>6. EdgesAreDated'
    BY <1>5 DEF EdgesAreDated, Listed, PidAlive
  <1>7. ASSUME NEW r \in Pids, NEW s \in Pids, table'[r].is # "free", table'[s].is \in {"live", "dying"},
               table'[s].of = table'[r].above, table'[r].of # table'[r].above
        PROVE  table'[r].parent = s
    <2>1. CASE r = q
      <3>1. s # q
        BY <1>1, <1>2, <1>7, <2>1
      <3>2. table[s].is # "free" /\ table[s].of = table[p].of /\ table[p].is # "free"
        BY <1>1, <1>7, <2>1, <3>1
      <3> QED
        BY <1>1, <2>1, <3>2 DEF Edges, FirstAreFirst, Listed
    <2>2. CASE r # q
      <3>1. s # q
        BY <1>1, <1>2, <1>7, <2>2
      <3> QED
        BY <1>1, <1>7, <2>2, <3>1 DEF Edges, ParentsAreWritten, Listed, PidAlive
    <2> QED
      BY <2>1, <2>2
  <1>8. ParentsAreWritten'
    BY <1>7 DEF ParentsAreWritten, Listed, PidAlive
  <1> QED
    BY <1>4, <1>6, <1>8 DEF Edges

LEMMA GoneKeepsEdges ==
  ASSUME TableAssumption, TableTypes, Edges, NEW p \in Pids, table[p].is \in {"live", "dying"}, table' = Gone(p),
         born' = born, clock' = clock, system' = system
  PROVE  Edges'
  <1>1. /\ \A q \in Pids \ {p} :
             /\ table'[q].is = table[q].is /\ table'[q].of = table[q].of /\ table'[q].above = table[q].above
             /\ table'[q].kin = table[q].kin /\ table'[q].born = table[q].born
             /\ table'[q].parent = IF system.os = "linux" /\ table[q].parent = p THEN InitPid ELSE table[q].parent
        /\ table'[p].is \in {"free", "zombie"}
        /\ table'[p].is = "zombie" =>
             /\ system.os = "linux" /\ HasParent(p)
             /\ table'[p].of = table[p].of /\ table'[p].above = table[p].above
             /\ table'[p].kin = table[p].kin /\ table'[p].born = table[p].born
             /\ table'[p].parent = IF table[p].parent = p THEN InitPid ELSE table[p].parent
    BY GoneRows
  <1>2. InitPid \notin Pids
    BY NumbersAreNotInit
  <1>3. FirstAreFirst'
    BY <1>1, <1>2 DEF Edges, FirstAreFirst, Listed, HasParent
  <1>5. EdgesAreDated'
    <2> SUFFICES ASSUME NEW r \in Pids, table'[r].is # "free", table'[r].parent \in Pids
                 PROVE  /\ system.os = "linux" => table'[table'[r].parent].is \in {"live", "dying"}
                        /\ table'[table'[r].parent].is # "free" =>
                             IF table'[table'[r].parent].of = table'[r].above
                               THEN table'[table'[r].parent].kin = table'[r].kin /\ table'[table'[r].parent].born <= table'[r].born
                               ELSE system.os # "linux" /\ table'[r].born <= table'[table'[r].parent].born
      BY DEF EdgesAreDated, Listed, PidAlive
    <2>1. CASE table[r].parent = p
      <3>1. system.os # "linux" /\ table'[p].is = "free" /\ table'[r].parent = p
        BY <1>1, <1>2, <2>1
      <3> QED
        BY <3>1
    <2>2. CASE table[r].parent # p
      <3>1. table[r].is # "free" /\ table'[r].parent = table[r].parent /\ table[r].parent \in Pids
            /\ table'[r].of = table[r].of /\ table'[r].above = table[r].above
            /\ table'[r].kin = table[r].kin /\ table'[r].born = table[r].born
        BY <1>1, <1>2, <2>2
      <3> DEFINE s == table[r].parent
      <3>2. table'[s].is = table[s].is /\ table'[s].of = table[s].of /\ table'[s].kin = table[s].kin /\ table'[s].born = table[s].born
        BY <1>1, <2>2, <3>1
      <3>3. /\ system.os = "linux" => table[s].is \in {"live", "dying"}
            /\ table[s].is # "free" =>
                 IF table[s].of = table[r].above
                   THEN table[s].kin = table[r].kin /\ table[s].born <= table[r].born
                   ELSE system.os # "linux" /\ table[r].born <= table[s].born
        BY <3>1 DEF Edges, EdgesAreDated, Listed, PidAlive
      <3> QED
        BY <3>1, <3>2, <3>3
    <2> QED
      BY <2>1, <2>2
  <1>6. ASSUME NEW r \in Pids, NEW s \in Pids, table'[r].is # "free", table'[s].is \in {"live", "dying"},
               table'[s].of = table'[r].above, table'[r].of # table'[r].above
        PROVE  table'[r].parent = s
    <2>1. s # p
      BY <1>1, <1>6
    <2>2. table[r].is # "free" /\ table[s].is \in {"live", "dying"} /\ table[s].of = table[r].above /\ table[r].of # table[r].above
      BY <1>1, <1>6, <2>1
    <2>3. table[r].parent = s
      BY <2>2 DEF Edges, ParentsAreWritten, Listed, PidAlive
    <2> QED
      BY <1>1, <1>6, <2>1, <2>3
  <1>7. ParentsAreWritten'
    BY <1>6 DEF ParentsAreWritten, Listed, PidAlive
  <1> QED
    BY <1>3, <1>5, <1>7 DEF Edges

LEMMA WaitKeepsEdges ==
  ASSUME TableAssumption, TableTypes, Edges, NEW p \in Pids, table[p].is = "zombie", table' = [table EXCEPT ![p] = Free],
         born' = born, clock' = clock, system' = system
  PROVE  Edges'
  <1>1. /\ \A q \in Pids \ {p} : table'[q] = table[q]
        /\ table'[p].is = "free"
    BY DEF TableTypes, Free
  <1>2. FirstAreFirst'
    BY <1>1 DEF Edges, FirstAreFirst, Listed
  <1>3. EdgesAreDated'
    <2> SUFFICES ASSUME NEW r \in Pids, table'[r].is # "free", table'[r].parent \in Pids
                 PROVE  /\ system.os = "linux" => table'[table'[r].parent].is \in {"live", "dying"}
                        /\ table'[table'[r].parent].is # "free" =>
                             IF table'[table'[r].parent].of = table'[r].above
                               THEN table'[table'[r].parent].kin = table'[r].kin /\ table'[table'[r].parent].born <= table'[r].born
                               ELSE system.os # "linux" /\ table'[r].born <= table'[table'[r].parent].born
      BY DEF EdgesAreDated, Listed, PidAlive
    <2>1. table'[r] = table[r]
      BY <1>1
    <2>2. CASE table[r].parent = p
      BY <1>1, <2>1, <2>2 DEF Edges, EdgesAreDated, Listed, PidAlive
    <2>3. CASE table[r].parent # p
      <3>1. table'[table[r].parent] = table[table[r].parent]
        BY <1>1, <2>1, <2>3
      <3> QED
        BY <2>1, <2>3, <3>1 DEF Edges, EdgesAreDated, Listed, PidAlive
    <2> QED
      BY <2>2, <2>3
  <1>4. ParentsAreWritten'
    BY <1>1 DEF Edges, ParentsAreWritten, Listed, PidAlive
  <1> QED
    BY <1>2, <1>3, <1>4 DEF Edges

\* No call, no rows.
CallsAreOver == (killer.pc = "idle" => killer = NoKill) /\ (meter.pc = "idle" => meter.rows = <<>>)

LEMMA EmptyRows == DOMAIN <<>> = {}
  OBVIOUS

LEMMA SpawnAges ==
  ASSUME TableAssumption, TableTypes, NEW p \in Pids, NEW q \in Pids, table' = [table EXCEPT ![q] = Spawned(p)], born' = born + 1, clock' = clock,
         q \notin DOMAIN killer.rows, q \notin DOMAIN meter.rows, q \notin killer.signalled
  PROVE  Ages
  <1>1. /\ \A r \in Pids \ {q} : table'[r] = table[r]
        /\ table'[q].of = born + 2
    BY SpawnedRow
  <1> QED
    BY <1>1 DEF Ages

LEMMA GoneAges ==
  ASSUME TableAssumption, TableTypes, NEW p \in Pids, table[p].is \in {"live", "dying"}, table' = Gone(p), born' = born, clock' = clock
  PROVE  Ages
  <1>1. \A q \in Pids \ {p} :
          /\ table'[q].is = table[q].is /\ table'[q].of = table[q].of /\ table'[q].above = table[q].above
          /\ table'[q].kin = table[q].kin /\ table'[q].born = table[q].born
          /\ table'[q].parent = IF system.os = "linux" /\ table[q].parent = p THEN InitPid ELSE table[q].parent
    BY GoneRows
  <1>2. /\ table'[p].is \in {"free", "zombie"}
        /\ table'[p].is = "zombie" =>
             /\ system.os = "linux"
             /\ table'[p].of = table[p].of /\ table'[p].above = table[p].above
             /\ table'[p].kin = table[p].kin /\ table'[p].born = table[p].born
    BY GoneRows
  <1> QED
    BY <1>1, <1>2 DEF Ages

\* The types of what a step of the processes leaves alone.
LEMMA CallTypesStay ==
  ASSUME TableTypes, UNCHANGED <<system, killer, meter>>, born' \in Nat, born' >= born, clock' \in 0 .. MaxClock, clock' >= clock,
         table' \in [Pids -> Row'], used' \in Nat
  PROVE  TableTypes'
  BY DEF TableTypes, Killer, Meter, Reading

LEMMA SpawnStep ==
  ASSUME TableAssumption, TableTypes, Edges, CallsAreOver, NEW p \in Pids, NEW q \in Pids, Spawns(p, q) \/ SpawnMeanwhile(p, q)
  PROVE  TableTypes' /\ Edges' /\ Ages
  <1>1. /\ table[p].is = "live" /\ table[q].is = "free" /\ table' = [table EXCEPT ![q] = Spawned(p)]
        /\ born' = born + 1 /\ clock' = clock /\ system' = system /\ used' = used /\ UNCHANGED <<killer, meter>>
    BY DEF Spawns, SpawnMeanwhile, Listed, CallsStay
  <1>2. q \notin DOMAIN killer.rows /\ q \notin DOMAIN meter.rows /\ q \notin killer.signalled
    <2>1. CASE Spawns(p, q)
      BY <2>1, EmptyRows DEF Spawns, Calling, CallsAreOver, NoKill
    <2>2. CASE SpawnMeanwhile(p, q)
      BY <2>2 DEF SpawnMeanwhile
    <2> QED
      BY <2>1, <2>2
  <1>3. Ages
    BY <1>1, <1>2, SpawnAges
  <1>4. Edges'
    BY <1>1, SpawnKeepsEdges
  <1>5. table' \in [Pids -> Row']
    BY <1>1, SpawnedRow
  <1>6. born' \in Nat /\ born' >= born /\ clock' \in 0 .. MaxClock /\ clock' >= clock /\ used' \in Nat
    BY <1>1 DEF TableTypes
  <1> QED
    BY <1>1, <1>3, <1>4, <1>5, <1>6, CallTypesStay

LEMMA ExitStep ==
  ASSUME TableAssumption, TableTypes, Edges, NEW p \in Pids, ProcExits(p)
  PROVE  TableTypes' /\ Edges' /\ Ages
  <1>1. /\ table[p].is \in {"live", "dying"} /\ table' = Gone(p)
        /\ born' = born /\ clock' = clock /\ system' = system /\ used' = used /\ UNCHANGED <<killer, meter>>
    BY DEF ProcExits, PidAlive, CallsStay
  <1>2. Edges' /\ Ages /\ table' \in [Pids -> Row']
    BY <1>1, GoneKeepsEdges, GoneAges, GoneRows
  <1>3. born' \in Nat /\ born' >= born /\ clock' \in 0 .. MaxClock /\ clock' >= clock /\ used' \in Nat
    BY <1>1 DEF TableTypes
  <1> QED
    BY <1>1, <1>2, <1>3, CallTypesStay

LEMMA WaitStep ==
  ASSUME TableAssumption, TableTypes, Edges, NEW p \in Pids, Waited(p)
  PROVE  TableTypes' /\ Edges' /\ Ages
  <1>1. /\ table[p].is = "zombie" /\ table' = [table EXCEPT ![p] = Free]
        /\ born' = born /\ clock' = clock /\ system' = system /\ used' = used /\ UNCHANGED <<killer, meter>>
    BY DEF Waited, CallsStay
  <1>2. Edges'
    BY <1>1, WaitKeepsEdges
  <1>3. /\ \A q \in Pids \ {p} : table'[q] = table[q]
        /\ table'[p].is = "free"
    BY <1>1 DEF TableTypes, Free
  <1>4. Ages
    BY <1>3 DEF Ages
  <1>5. born' \in Nat /\ born' >= born /\ clock' \in 0 .. MaxClock /\ clock' >= clock /\ used' \in Nat
    BY <1>1 DEF TableTypes
  <1>6. Free \in Row /\ Row' = Row
    BY <1>1 DEF Free, Row, TableTypes, TableAssumption
  <1>7. table' \in [Pids -> Row']
    BY <1>1, <1>6 DEF TableTypes
  <1> QED
    BY <1>1, <1>2, <1>4, <1>5, <1>7, CallTypesStay

LEMMA WorkStep ==
  ASSUME TableAssumption, TableTypes, Edges, NEW p \in Pids, Works(p)
  PROVE  /\ TableTypes' /\ Edges' /\ Ages
         /\ \A q \in Pids : table'[q].is = table[q].is /\ table'[q].born = table[q].born /\ table'[q].kin = table[q].kin
         /\ \A q \in Pids \ {p} : table'[q].cpu = table[q].cpu
         /\ table'[p].cpu = table[p].cpu + 1
  <1>1. /\ table[p].is = "live" /\ table[p].cpu < MaxCpu /\ table' = [table EXCEPT ![p].cpu = @ + 1]
        /\ born' = born /\ clock' = clock /\ system' = system /\ UNCHANGED <<killer, meter>>
        /\ used' = used + (IF table[p].kin THEN 1 ELSE 0)
    BY DEF Works, CallsStay
  <1>2. /\ \A q \in Pids \ {p} : table'[q] = table[q]
        /\ table'[p] = [table[p] EXCEPT !.cpu = @ + 1]
    BY <1>1 DEF TableTypes
  <1>3. table[p] \in Row /\ MaxCpu \in Nat
    BY DEF TableTypes, TableAssumption
  <1>4. /\ table'[p] \in Row /\ table'[p].cpu = table[p].cpu + 1
        /\ table'[p].is = table[p].is /\ table'[p].born = table[p].born /\ table'[p].kin = table[p].kin
        /\ table'[p].of = table[p].of /\ table'[p].above = table[p].above /\ table'[p].parent = table[p].parent
    BY <1>1, <1>2, <1>3 DEF Row
  <1>5. Edges'
    BY <1>1, <1>2, <1>4, SameEdges
  <1>6. Ages
    BY <1>2, <1>4 DEF Ages
  <1>7. born' \in Nat /\ born' >= born /\ clock' \in 0 .. MaxClock /\ clock' >= clock /\ used' \in Nat
    BY <1>1 DEF TableTypes
  <1>8. table' \in [Pids -> Row']
    <2>1. Row' = Row
      BY <1>1 DEF Row
    <2>2. table' = [table EXCEPT ![p] = table'[p]]
      BY <1>1, <1>2
    <2> QED
      BY <2>1, <2>2, <1>4 DEF TableTypes
  <1> QED
    BY <1>1, <1>2, <1>4, <1>5, <1>6, <1>7, <1>8, CallTypesStay

\* A signal: who lives is dying, and nothing else of a row changes.
LEMMA StruckRows ==
  ASSUME TableAssumption, TableTypes, Edges, NEW p \in Pids,
         table' = IF table[p].is = "live" THEN [table EXCEPT ![p].is = "dying"] ELSE table,
         system' = system, born' = born, clock' = clock
  PROVE  /\ table' \in [Pids -> Row'] /\ Edges' /\ Ages
         /\ table'[p].is # "live"
         /\ \A q \in Pids : /\ table'[q].is # "free" <=> table[q].is # "free"
                            /\ table'[q].is \in {"live", "dying"} <=> table[q].is \in {"live", "dying"}
                            /\ table'[q].is = "live" => table[q].is = "live"
                            /\ table'[q].kin = table[q].kin /\ table'[q].of = table[q].of
  <1>1. \A q \in Pids \ {p} : table'[q] = table[q]
    BY DEF TableTypes
  <1>2. table[p] \in Row /\ Row' = Row
    BY DEF TableTypes, Row
  <1>3. /\ table'[p] \in Row /\ table'[p].is = (IF table[p].is = "live" THEN "dying" ELSE table[p].is)
        /\ table'[p].kin = table[p].kin /\ table'[p].born = table[p].born /\ table'[p].cpu = table[p].cpu
        /\ table'[p].of = table[p].of /\ table'[p].above = table[p].above /\ table'[p].parent = table[p].parent
    <2>1. CASE table[p].is = "live"
      <3>1. table'[p] = [table[p] EXCEPT !.is = "dying"]
        BY <2>1 DEF TableTypes
      <3> QED
        BY <2>1, <3>1, <1>2 DEF Row
    <2>2. CASE table[p].is # "live"
      BY <2>2, <1>2
    <2> QED
      BY <2>1, <2>2
  <1>4. table' = [table EXCEPT ![p] = table'[p]]
    BY <1>1 DEF TableTypes
  <1>5. table' \in [Pids -> Row']
    BY <1>2, <1>3, <1>4 DEF TableTypes
  <1>6. Edges'
    BY <1>1, <1>3, SameEdges
  <1>7. Ages
    BY <1>1, <1>3 DEF Ages
  <1> QED
    BY <1>1, <1>3, <1>5, <1>6, <1>7

-----------------------------------------------------------------------------
(* What was read stays true while the tree lives on.                       *)
LEMMA RowsStayTrue ==
  ASSUME NEW rows, NEW kinOf, TrueOf(rows, kinOf), Ages, DOMAIN rows \subseteq Pids, system' = system,
         DOMAIN rows \subseteq DOMAIN killer.rows \union DOMAIN meter.rows
  PROVE  TrueOf(rows, kinOf)'
  <1>1. \A p \in DOMAIN rows : table'[p].is # "free" =>
          /\ table[p].is # "free" /\ table'[p].kin = table[p].kin /\ table'[p].born = table[p].born
          /\ system.os # "linux" => table'[p].parent = table[p].parent
    BY DEF Ages
  <1> QED
    BY <1>1 DEF TrueOf, Listed

LEMMA LinksStay ==
  ASSUME NEW rows, NEW linked, NEW L \in SUBSET DOMAIN rows, LinkedBy(rows, linked, L), Ages, DOMAIN rows \subseteq Pids,
         DOMAIN rows \subseteq DOMAIN killer.rows \union DOMAIN meter.rows, born \in Nat, linked \subseteq 0 .. born + 1
  PROVE  LinkedBy(rows, linked, L)'
  <1>1. \A p \in DOMAIN rows : table'[p].is # "free" =>
          /\ table[p].is # "free" /\ table'[p].born = table[p].born
    BY DEF Ages
  <1>2. \A p \in Pids : table'[p].is \in {"live", "dying"} /\ table'[p].of \in linked => table[p].is \in {"live", "dying"} /\ table[p].of \in linked
    BY DEF Ages
  <1>3. Reaches(rows, L)'
    BY DEF LinkedBy, Reaches
  <1> QED
    BY <1>1, <1>2, <1>3 DEF LinkedBy, Listed, PidAlive

-----------------------------------------------------------------------------
(* What the walk finds.                                                    *)
LEMMA WalkIsClosed ==
  ASSUME NEW rows, NEW S \in SUBSET DOMAIN rows, {Root} \intersect DOMAIN rows \subseteq S, Below(rows, S) \subseteq S
  PROVE  Descendants(rows) \subseteq S
  BY DEF Descendants

\* The closure is closed, and the root is in it.
LEMMA WalkCloses ==
  ASSUME NEW rows
  PROVE  /\ Descendants(rows) \subseteq DOMAIN rows /\ {Root} \intersect DOMAIN rows \subseteq Descendants(rows)
         /\ Below(rows, Descendants(rows)) \subseteq Descendants(rows)
  <1>1. ASSUME NEW S \in SUBSET DOMAIN rows, Descendants(rows) \subseteq S PROVE Below(rows, Descendants(rows)) \subseteq Below(rows, S)
    BY <1>1 DEF Below
  <1>2. ASSUME NEW q \in Below(rows, Descendants(rows)), NEW S \in SUBSET DOMAIN rows, {Root} \intersect DOMAIN rows \subseteq S,
               Below(rows, S) \subseteq S
        PROVE  q \in S
    BY <1>1, <1>2, WalkIsClosed
  <1>3. Below(rows, Descendants(rows)) \subseteq DOMAIN rows
    BY DEF Below
  <1> QED
    BY <1>2, <1>3 DEF Descendants

\* A stranger is found only over an edge that no creation time can disprove.
LEMMA StrangersBlur ==
  ASSUME TableAssumption, TableTypes, NEW rows, DOMAIN rows \subseteq Pids, RowsAreTrue(rows),
         NEW p \in Descendants(rows), Listed(p), ~table[p].kin
  PROVE  Blurred(Descendants(rows))
  <1> DEFINE T == Descendants(rows)
  <1> SUFFICES ASSUME ~Blurred(T) PROVE FALSE
    OBVIOUS
  <1>1. PICK kinOf \in [DOMAIN rows -> BOOLEAN] : TrueOf(rows, kinOf)
    BY DEF RowsAreTrue
  <1> DEFINE good == {q \in T : kinOf[q] \/ (system.os # "linux" /\ ~Listed(q))}
  <1>2. /\ T \subseteq DOMAIN rows /\ {Root} \intersect DOMAIN rows \subseteq T /\ Below(rows, T) \subseteq T
    BY WalkCloses
  <1>3. {Root} \intersect DOMAIN rows \subseteq good
    BY <1>1, <1>2 DEF TrueOf
  <1>4. ASSUME NEW q \in Below(rows, good) PROVE q \in good
    <2> DEFINE r == rows[q]
    <2>1. q \in DOMAIN rows /\ r \in good /\ ~Impossible(r, q)
      BY DEF Below
    <2>2. q \in T
      BY <1>2, <2>1 DEF Below
    <2>3. ASSUME Listed(q), ~kinOf[q] PROVE FALSE
      <3>1. q \in Pids /\ r \in Pids /\ ~table[q].kin /\ ~Tied(q)
        BY <1>1, <1>2, <2>1, <2>2, <2>3 DEF TrueOf, Blurred
      <3>2. system.os # "linux"
        BY <1>1, <1>2, <2>1, <2>3 DEF TrueOf
      <3>3. table[q].parent = r
        BY <1>1, <2>1, <2>3, <3>2 DEF TrueOf
      <3>4. Created(r) # None /\ Created(q) # None /\ Created(r) # Created(q)
        BY <3>1, <3>3 DEF Tied
      <3>5. Listed(r) /\ kinOf[r]
        BY <2>1, <3>4 DEF Created
      <3>6. table[q].born <= table[r].born
        BY <1>1, <1>2, <2>1, <2>3, <3>5 DEF TrueOf
      <3>7. Created(r) = table[r].born /\ Created(q) = table[q].born
        BY <3>4 DEF Created
      <3>8. table[r].born \in Nat /\ table[q].born \in Nat
        BY <3>1 DEF TableTypes, Row
      <3> QED
        BY <2>1, <3>4, <3>6, <3>7, <3>8 DEF Impossible
    <2>4. CASE kinOf[q]
      BY <2>2, <2>4
    <2>5. CASE ~kinOf[q] /\ ~Listed(q)
      <3>1. system.os # "linux"
        BY <1>1, <1>2, <2>1, <2>5 DEF TrueOf
      <3> QED
        BY <2>2, <2>5, <3>1
    <2> QED
      BY <2>3, <2>4, <2>5
  <1>5. p \in good
    BY <1>2, <1>3, <1>4, WalkIsClosed
  <1>6. kinOf[p]
    BY <1>5
  <1> QED
    BY <1>1, <1>2, <1>6 DEF TrueOf

\* Who is linked is found.
LEMMA LinkedAreFound ==
  ASSUME TableAssumption, TableTypes, NEW rows, DOMAIN rows \subseteq Pids, NEW linked, RowsReach(rows, linked),
         NEW p \in Pids, PidAlive(p), table[p].of \in linked
  PROVE  p \in Descendants(rows)
  <1>1. PICK L \in SUBSET DOMAIN rows : LinkedBy(rows, linked, L)
    BY DEF RowsReach
  <1>2. p \in L /\ Root \in DOMAIN rows
    BY <1>1 DEF LinkedBy
  <1>3. ASSUME NEW S \in SUBSET DOMAIN rows, {Root} \intersect DOMAIN rows \subseteq S, Below(rows, S) \subseteq S PROVE p \in S
    <2>1. ASSUME NEW q \in L, rows[q] \in S, rows[q] \in L PROVE q \in S
      <3>1. Listed(q) /\ Listed(rows[q]) => table[rows[q]].born <= table[q].born
        BY <1>1, <2>1 DEF LinkedBy
      <3>2. q \in Pids /\ rows[q] \in Pids
        BY <2>1
      <3>3. table[q].born \in Nat /\ table[rows[q]].born \in Nat
        BY <3>2 DEF TableTypes, Row
      <3>4. ~Impossible(rows[q], q)
        BY <3>1, <3>3 DEF Impossible, Created
      <3>5. q \in Below(rows, S)
        BY <2>1, <3>4 DEF Below
      <3> QED
        BY <1>3, <3>5
    <2>2. Root \in S
      BY <1>2, <1>3
    <2> QED
      BY <1>1, <1>2, <2>1, <2>2 DEF LinkedBy, Reaches
  <1> QED
    BY <1>2, <1>3 DEF Descendants

-----------------------------------------------------------------------------
(* What is read.                                                           *)
LEMMA NothingIsTrue == RowsAreTrue(<<>>)
  <1> DEFINE none == [p \in DOMAIN <<>> |-> TRUE]
  <1>1. none \in [DOMAIN <<>> -> BOOLEAN]
    OBVIOUS
  <1>2. TrueOf(<<>>, none)
    BY <1>1, EmptyRows DEF TrueOf
  <1> QED
    BY <1>1, <1>2 DEF RowsAreTrue

LEMMA TableRowsAre ==
  /\ DOMAIN TableRows = {p \in Pids : Listed(p)}
  /\ \A p \in DOMAIN TableRows : TableRows[p] = table[p].parent
  BY DEF TableRows

LEMMA TableIsTrue ==
  ASSUME TableAssumption, TableTypes, Edges, StillOurs
  PROVE  RowsAreTrue(TableRows)
  <1> DEFINE kinOf == [p \in DOMAIN TableRows |-> table[p].kin]
  <1>1. kinOf \in [DOMAIN TableRows -> BOOLEAN]
    BY TableRowsAre DEF TableTypes, Row
  <1>2. Root \in DOMAIN TableRows => kinOf[Root]
    BY TableRowsAre DEF StillOurs, Edges, FirstAreFirst
  <1>3. \A p \in DOMAIN TableRows : table[p].kin = kinOf[p] /\ TableRows[p] = table[p].parent
    BY TableRowsAre
  <1>4. ASSUME NEW p \in DOMAIN TableRows, TableRows[p] \in DOMAIN TableRows
        PROVE  \/ kinOf[p] = kinOf[TableRows[p]]
               \/ system.os # "linux" /\ table[p].born <= table[TableRows[p]].born
    BY <1>4, <1>3, TableRowsAre DEF Edges, EdgesAreDated
  <1>5. TrueOf(TableRows, kinOf)
    BY <1>1, <1>2, <1>3, <1>4 DEF TrueOf
  <1> QED
    BY <1>1, <1>5 DEF RowsAreTrue

\* The closure over living makers: it is closed, and who is in it was made by one in it.
LEMMA LinkedCloses ==
  /\ 0 \in Linked
  /\ \A p \in Pids : PidAlive(p) /\ table[p].above \in Linked => table[p].of \in Linked
  /\ \A i \in Linked : i = 0 \/ \E p \in Pids : PidAlive(p) /\ table[p].of = i /\ table[p].above \in Linked \ {i}
  /\ \A S : 0 \in S /\ S \subseteq Linked /\ (\A p \in Pids : PidAlive(p) /\ table[p].above \in S => table[p].of \in S) => Linked \subseteq S
  <1> DEFINE ids == {0} \union {table[p].of : p \in Pids}
             Closed(S) == 0 \in S /\ \A p \in Pids : PidAlive(p) /\ table[p].above \in S => table[p].of \in S
  <1>1. Linked = {i \in ids : \A S \in SUBSET ids : Closed(S) => i \in S}
    BY DEF Linked
  <1>2. Linked \subseteq ids /\ \A S \in SUBSET ids : Closed(S) => Linked \subseteq S
    BY <1>1
  <1>3. 0 \in Linked
    BY <1>1
  <1>4. ASSUME NEW p \in Pids, PidAlive(p), table[p].above \in Linked PROVE table[p].of \in Linked
    <2>1. table[p].of \in ids
      OBVIOUS
    <2>2. ASSUME NEW S \in SUBSET ids, Closed(S) PROVE table[p].of \in S
      <3>1. table[p].above \in S
        BY <1>2, <1>4, <2>2
      <3> QED
        BY <1>4, <2>2, <3>1
    <2> QED
      BY <1>1, <2>1, <2>2
  <1>5. ASSUME NEW i \in Linked, i # 0, \A p \in Pids : ~(PidAlive(p) /\ table[p].of = i /\ table[p].above \in Linked \ {i}) PROVE FALSE
    <2> DEFINE S == Linked \ {i}
    <2>1. S \in SUBSET ids
      BY <1>2
    <2>2. Closed(S)
      BY <1>3, <1>4, <1>5
    <2> HIDE DEF Closed
    <2> QED
      BY <1>2, <2>1, <2>2
  <1>6. ASSUME NEW S, 0 \in S, S \subseteq Linked, \A p \in Pids : PidAlive(p) /\ table[p].above \in S => table[p].of \in S
        PROVE  Linked \subseteq S
    BY <1>2, <1>6
  <1> QED
    BY <1>3, <1>4, <1>5, <1>6

LEMMA TableReaches ==
  ASSUME TableAssumption, TableTypes, Edges, StillOurs
  PROVE  RowsReach(TableRows, Linked)
  <1> DEFINE rows == TableRows
             L == {p \in Pids : PidAlive(p) /\ table[p].of \in Linked}
  <1>1. DOMAIN rows = {p \in Pids : Listed(p)} /\ \A p \in DOMAIN rows : rows[p] = table[p].parent
    BY TableRowsAre
  <1> HIDE DEF rows
  <1>2. L \in SUBSET DOMAIN rows
    BY <1>1 DEF PidAlive, Listed
  <1>3. Root \in DOMAIN rows /\ Root \in Pids /\ Root \in L
    <2>1. Root \in Pids /\ table[Root] \in Row
      BY NumbersAreNotInit DEF TableTypes
    <2>2. table[Root].is # "zombie"
      BY <2>1 DEF StillOurs, Edges, FirstAreFirst
    <2> QED
      BY <1>1, <2>1, <2>2, LinkedCloses DEF StillOurs, PidAlive, Listed, Row
  \* Who made a process of it is in it, and is written on it.
  <1>4. ASSUME NEW p \in L, table[p].of # 0
        PROVE  /\ table[p].above \in Linked /\ table[p].of # table[p].above
               /\ \E r \in L : table[r].of = table[p].above /\ rows[p] = r
    <2>1. PICK q \in Pids : PidAlive(q) /\ table[q].of = table[p].of /\ table[q].above \in Linked \ {table[p].of}
      BY <1>4, LinkedCloses
    <2>2. q = p
      BY <2>1 DEF Edges, FirstAreFirst, PidAlive, Listed
    <2>3. PICK r \in L : table[r].of = table[p].above
      <3>1. CASE table[p].above = 0
        BY <1>3, <3>1 DEF StillOurs
      <3>2. CASE table[p].above # 0
        <4>1. PICK s \in Pids : PidAlive(s) /\ table[s].of = table[p].above
          BY <2>1, <2>2, <3>2, LinkedCloses
        <4> QED
          BY <2>1, <2>2, <4>1
      <3> QED
        BY <3>1, <3>2
    <2>4. table[p].parent = r
      BY <2>1, <2>2, <2>3 DEF Edges, ParentsAreWritten, PidAlive, Listed
    <2> QED
      BY <1>1, <1>2, <2>1, <2>2, <2>3, <2>4
  <1>5. Reaches(rows, L)
    <2> SUFFICES ASSUME NEW S \in SUBSET DOMAIN rows, Root \in S, \A q \in L : rows[q] \in S /\ rows[q] \in L => q \in S
                 PROVE  L \subseteq S
      BY DEF Reaches
    <2> DEFINE I == {i \in Linked : \A p \in Pids : PidAlive(p) /\ table[p].of = i => p \in S}
    <2>1. 0 \in I
      BY LinkedCloses DEF Edges, FirstAreFirst, PidAlive, Listed
    <2>2. ASSUME NEW p \in Pids, PidAlive(p), table[p].above \in I PROVE table[p].of \in I
      <3>1. table[p].of \in Linked
        BY <2>2, LinkedCloses
      <3>2. p \in S
        <4>1. CASE table[p].of = 0
          BY <2>1, <2>2, <4>1
        <4>2. CASE table[p].of # 0
          <5>1. p \in L
            BY <2>2, <3>1
          <5>2. PICK r \in L : table[r].of = table[p].above /\ rows[p] = r
            BY <1>4, <4>2, <5>1
          <5>3. r \in S
            BY <2>2, <5>2
          <5> QED
            BY <5>1, <5>2, <5>3
        <4> QED
          BY <4>1, <4>2
      <3>3. \A q \in Pids : PidAlive(q) /\ table[q].of = table[p].of => q = p
        BY <2>2 DEF Edges, FirstAreFirst, PidAlive, Listed
      <3> QED
        BY <3>1, <3>2, <3>3
    <2>3. Linked \subseteq I
      <3> HIDE DEF L
      <3>1. I \subseteq Linked
        OBVIOUS
      <3> HIDE DEF I
      <3> QED
        BY <2>1, <2>2, <3>1, LinkedCloses
    <2> QED
      BY <2>3
  <1>6. ASSUME NEW q \in L, rows[q] \in L PROVE table[rows[q]].born <= table[q].born
    <2>1. CASE table[q].of = 0
      BY <1>1, <1>2, <1>6, <2>1, NumbersAreNotInit DEF Edges, FirstAreFirst, PidAlive, Listed
    <2>2. CASE table[q].of # 0
      <3>1. PICK r \in L : table[r].of = table[q].above /\ rows[q] = r
        BY <1>4, <2>2
      <3> QED
        BY <1>1, <1>2, <3>1 DEF Edges, EdgesAreDated
    <2> QED
      BY <2>1, <2>2
  <1>7. LinkedBy(rows, Linked, L)
    BY <1>3, <1>5, <1>6 DEF LinkedBy
  <1>8. RowsReach(rows, Linked)
    BY <1>2, <1>7 DEF RowsReach
  <1> QED
    BY <1>8 DEF rows

-----------------------------------------------------------------------------
(* The meter: what its processes were seen using, and what they use now.   *)
LEMMA UnitsAreFinite ==
  ASSUME TableAssumption, NEW seen, NEW t
  PROVE  IsFiniteSet(UnitsOf(seen, t))
  <1>1. IsFiniteSet(Pids) /\ MaxClock \in Int /\ MaxCpu \in Int
    BY DEF TableAssumption
  <1>2. IsFiniteSet(0 .. MaxClock) /\ IsFiniteSet(1 .. MaxCpu)
    BY <1>1, FS_Interval
  <1>3. IsFiniteSet(Pids \X (0 .. MaxClock))
    BY <1>1, <1>2, FS_Product
  <1>4. IsFiniteSet((Pids \X (0 .. MaxClock)) \X (1 .. MaxCpu))
    BY <1>2, <1>3, FS_Product
  <1>5. UnitsOf(seen, t) \in SUBSET ((Pids \X (0 .. MaxClock)) \X (1 .. MaxCpu))
    BY DEF UnitsOf
  <1> QED
    BY <1>4, <1>5, FS_Subset

LEMMA FewerUnits ==
  ASSUME TableAssumption, NEW seen, NEW t, NEW seen2, NEW t2, UnitsOf(seen2, t2) \subseteq UnitsOf(seen, t)
  PROVE  Cardinality(UnitsOf(seen2, t2)) \in Nat /\ Cardinality(UnitsOf(seen2, t2)) <= Cardinality(UnitsOf(seen, t))
  BY UnitsAreFinite, FS_Subset, FS_CardinalityType

\* What is told is counted once for each process that was seen.
LEMMA TotalIsCounted ==
  ASSUME TableAssumption, NEW seen \in SUBSET Reading, \A e, f \in seen : e.key = f.key => e = f, NEW t
  PROVE  SeenTotal(seen) \in Nat /\ SeenTotal(seen) <= Cardinality(UnitsOf(seen, t))
  <1> DEFINE S == {x \in seen \X (1 .. MaxCpu) : x[2] <= x[1].cpu}
             T == UnitsOf(seen, t)
             f == [x \in S |-> <<x[1].key, x[2]>>]
  <1>1. ASSUME NEW x \in S PROVE f[x] \in T
    <2>1. x[1] \in seen /\ x[1] \in Reading /\ x[2] \in 1 .. MaxCpu /\ x[2] <= x[1].cpu
      OBVIOUS
    <2>2. x[1].key \in Pids \X (0 .. MaxClock)
      BY <2>1 DEF Reading
    <2>3. f[x] = <<x[1].key, x[2]>>
      OBVIOUS
    <2> QED
      BY <2>1, <2>2, <2>3 DEF UnitsOf
  <1>2. ASSUME NEW x \in S, NEW y \in S, f[x] = f[y] PROVE x = y
    <2>1. x[1].key = y[1].key /\ x[2] = y[2]
      BY <1>2
    <2>2. x[1] \in seen /\ y[1] \in seen /\ x = <<x[1], x[2]>> /\ y = <<y[1], y[2]>>
      OBVIOUS
    <2> QED
      BY <2>1, <2>2
  <1>3. f \in [S -> T]
    BY <1>1
  <1>4. f \in Injection(S, T)
    <2> HIDE DEF f, S, T
    <2> QED
      BY <1>2, <1>3 DEF Injection, IsInjective
  <1>5. IsFiniteSet(T)
    BY UnitsAreFinite
  <1>6. IsFiniteSet(S) /\ Cardinality(S) <= Cardinality(T)
    <2> HIDE DEF f, S, T
    <2> QED
      BY <1>4, <1>5, FS_Injection
  <1>7. Cardinality(S) \in Nat
    <2> HIDE DEF S
    <2> QED
      BY <1>6, FS_CardinalityType
  <1> QED
    BY <1>6, <1>7 DEF SeenTotal

\* Work adds one unit, if it is the tree's.
LEMMA WorkAddsAUnit ==
  ASSUME TableAssumption, TableTypes, Edges, NEW p \in Pids, Works(p), Cardinality(UnitsOf(meter.seen, table)) <= used
  PROVE  Cardinality(UnitsOf(meter.seen, table')) <= used'
  <1> DEFINE A == UnitsOf(meter.seen, table)
             B == UnitsOf(meter.seen, table')
             new == <<<<p, table[p].born>>, table[p].cpu + 1>>
  <1>1. /\ \A q \in Pids : table'[q].is = table[q].is /\ table'[q].born = table[q].born /\ table'[q].kin = table[q].kin
        /\ \A q \in Pids \ {p} : table'[q].cpu = table[q].cpu
        /\ table'[p].cpu = table[p].cpu + 1
    BY WorkStep
  <1>2. used \in Nat /\ used' = used + (IF table[p].kin THEN 1 ELSE 0) /\ table[p].cpu \in Nat
    BY DEF TableTypes, Works, Row
  <1>3. IsFiniteSet(A) /\ IsFiniteSet(B) /\ Cardinality(A) \in Nat /\ Cardinality(B) \in Nat
    BY UnitsAreFinite, FS_CardinalityType
  <1>4. CASE table[p].kin
    <2>1. B \subseteq A \union {new}
      <3> SUFFICES ASSUME NEW x \in B, x # new PROVE x \in A
        OBVIOUS
      <3>1. x \in (Pids \X (0 .. MaxClock)) \X (1 .. MaxCpu)
        BY DEF UnitsOf
      <3>2. CASE \E e \in meter.seen : e.key = x[1] /\ x[2] <= e.cpu
        BY <3>1, <3>2 DEF UnitsOf
      <3>3. CASE \E q \in Pids : table'[q].is # "free" /\ table'[q].kin /\ <<q, table'[q].born>> = x[1] /\ x[2] <= table'[q].cpu
        <4>1. PICK q \in Pids : table'[q].is # "free" /\ table'[q].kin /\ <<q, table'[q].born>> = x[1] /\ x[2] <= table'[q].cpu
          BY <3>3
        <4>2. CASE q = p
          <5>1. x = <<x[1], x[2]>> /\ x[2] \in Nat
            BY <3>1
          <5>2. x[2] # table[p].cpu + 1
            BY <4>1, <4>2, <5>1, <1>1
          <5>3. x[2] <= table[p].cpu
            BY <4>1, <4>2, <5>1, <5>2, <1>1, <1>2
          <5> QED
            BY <3>1, <4>1, <4>2, <5>3, <1>1 DEF UnitsOf
        <4>3. CASE q # p
          BY <3>1, <4>1, <4>3, <1>1 DEF UnitsOf
        <4> QED
          BY <4>2, <4>3
      <3> QED
        BY <3>2, <3>3 DEF UnitsOf
    <2> HIDE DEF A, B, new
    <2>2. IsFiniteSet(A \union {new}) /\ Cardinality(A \union {new}) <= Cardinality(A) + 1 /\ Cardinality(A \union {new}) \in Nat
      <3>1. IsFiniteSet(A)
        BY <1>3
      <3>2. /\ IsFiniteSet(A \union {new})
            /\ Cardinality(A \union {new}) = IF new \in A THEN Cardinality(A) ELSE Cardinality(A) + 1
        BY <3>1, FS_AddElement
      <3> QED
        BY <1>3, <3>2
    <2>3. Cardinality(B) <= Cardinality(A \union {new})
      BY <2>1, <2>2, FS_Subset
    <2>4. Cardinality(A) <= used
      BY DEF A
    <2>5. Cardinality(B) <= used'
      BY <1>2, <1>3, <1>4, <2>2, <2>3, <2>4
    <2> QED
      BY <2>5 DEF B
  <1>5. CASE ~table[p].kin
    <2>1. B \subseteq A
      BY <1>1, <1>5 DEF UnitsOf
    <2> QED
      BY <2>1, <1>2, <1>3, <1>5, FewerUnits
  <1> QED
    BY <1>4, <1>5

\* Nothing else that happens to the processes adds one.
Lessens == \A p \in Pids : table'[p].is # "free" =>
  \/ table[p].is # "free" /\ table'[p].kin = table[p].kin /\ table'[p].born = table[p].born /\ table'[p].cpu = table[p].cpu
  \/ table'[p].cpu = 0
LEMMA LessAddsNothing ==
  ASSUME Lessens, NEW seen PROVE UnitsOf(seen, table') \subseteq UnitsOf(seen, table)
  <1> SUFFICES ASSUME NEW x \in UnitsOf(seen, table') PROVE x \in UnitsOf(seen, table)
    OBVIOUS
  <1>1. x \in (Pids \X (0 .. MaxClock)) \X (1 .. MaxCpu) /\ x[2] \in Nat /\ x[2] >= 1
    BY DEF UnitsOf
  <1>2. CASE \E e \in seen : e.key = x[1] /\ x[2] <= e.cpu
    BY <1>1, <1>2 DEF UnitsOf
  <1>3. CASE \E q \in Pids : table'[q].is # "free" /\ table'[q].kin /\ <<q, table'[q].born>> = x[1] /\ x[2] <= table'[q].cpu
    <2>1. PICK q \in Pids : table'[q].is # "free" /\ table'[q].kin /\ <<q, table'[q].born>> = x[1] /\ x[2] <= table'[q].cpu
      BY <1>3
    <2>2. table'[q].cpu # 0
      BY <1>1, <2>1
    <2>3. table[q].is # "free" /\ table'[q].kin = table[q].kin /\ table'[q].born = table[q].born /\ table'[q].cpu = table[q].cpu
      BY <2>1, <2>2 DEF Lessens
    <2> QED
      BY <1>1, <2>1, <2>3 DEF UnitsOf
  <1> QED
    BY <1>2, <1>3 DEF UnitsOf

\* A sample sees what is used, of processes of the tree, and one reading of each.
LEMMA SampleSees ==
  ASSUME TableAssumption, TableTypes, RowsAreTrue(meter.rows), \A e, f \in meter.seen : e.key = f.key => e = f, Sample
  PROVE  /\ meter'.seen \in SUBSET Reading /\ \A e, f \in meter'.seen : e.key = f.key => e = f
         /\ meter' = [pc |-> "idle", rows |-> <<>>, seen |-> meter'.seen, samples |-> meter.samples + 1, told |-> SeenTotal(meter'.seen),
                      blurred |-> meter.blurred \/ Blurred(Descendants(meter.rows))]
         /\ ~meter'.blurred => UnitsOf(meter'.seen, table) \subseteq UnitsOf(meter.seen, table)
  <1> DEFINE tree == Descendants(meter.rows)
             new == {[key |-> Key(p), cpu |-> table[p].cpu] : p \in {q \in tree : Listed(q) /\ q \notin Unreadable}}
             seen == MostSeen(meter.seen, new)
  <1>1. meter' = [pc |-> "idle", rows |-> <<>>, seen |-> seen, samples |-> meter.samples + 1, told |-> SeenTotal(seen),
                  blurred |-> meter.blurred \/ Blurred(tree)]
    BY DEF Sample
  <1>2. tree \subseteq Pids
    BY WalkCloses DEF TableTypes
  <1>3. \A p \in Pids : table[p] \in Row
    BY DEF TableTypes
  <1>4. clock \in 0 .. MaxClock /\ MaxClock \in Nat
    BY DEF TableTypes, TableAssumption
  <1>5. \A e \in new : e \in Reading
    BY <1>2, <1>3, <1>4 DEF Reading, Key, Row
  <1>6. meter.seen \subseteq Reading
    BY DEF TableTypes, Meter
  <1> HIDE DEF tree, new
  <1>7. seen \subseteq meter.seen \union new
    BY DEF MostSeen
  <1>8. seen \in SUBSET Reading
    BY <1>5, <1>6, <1>7
  <1>9. ASSUME NEW e \in seen, NEW f \in seen, e.key = f.key PROVE e = f
    <2>1. e \in Reading /\ f \in Reading
      BY <1>8
    <2>2. e.cpu <= f.cpu /\ f.cpu <= e.cpu
      BY <1>7, <1>9 DEF MostSeen
    <2>3. e.cpu \in Nat /\ f.cpu \in Nat
      BY <2>1 DEF Reading
    <2>4. e.cpu = f.cpu
      BY <2>2, <2>3
    <2> QED
      BY <1>9, <2>1, <2>4 DEF Reading
  <1>10. ASSUME ~Blurred(tree), NEW x \in UnitsOf(seen, table) PROVE x \in UnitsOf(meter.seen, table)
    <2>1. x \in (Pids \X (0 .. MaxClock)) \X (1 .. MaxCpu)
      BY DEF UnitsOf
    <2>2. CASE \E e \in seen : e.key = x[1] /\ x[2] <= e.cpu
      <3>1. PICK e \in seen : e.key = x[1] /\ x[2] <= e.cpu
        BY <2>2
      <3>2. CASE e \in meter.seen
        BY <2>1, <3>1, <3>2 DEF UnitsOf
      <3>3. CASE e \in new
        <4>1. PICK p \in tree : Listed(p) /\ e = [key |-> Key(p), cpu |-> table[p].cpu]
          BY <3>3 DEF new
        <4>2. table[p].kin
          BY <1>10, <4>1, StrangersBlur DEF tree, TableTypes
        <4>3. <<p, table[p].born>> = x[1] /\ x[2] <= table[p].cpu /\ p \in Pids /\ table[p].is # "free"
          BY <1>2, <3>1, <4>1 DEF Key, Listed
        <4> QED
          BY <2>1, <4>2, <4>3 DEF UnitsOf
      <3> QED
        BY <1>7, <3>1, <3>2, <3>3
    <2>3. CASE \E p \in Pids : table[p].is # "free" /\ table[p].kin /\ <<p, table[p].born>> = x[1] /\ x[2] <= table[p].cpu
      BY <2>1, <2>3 DEF UnitsOf
    <2> QED
      BY <2>2, <2>3 DEF UnitsOf
  <1>11. meter'.seen = seen /\ meter'.blurred = (meter.blurred \/ Blurred(tree))
    BY <1>1
  <1> HIDE DEF seen
  <1> QED
    BY <1>1, <1>8, <1>9, <1>10, <1>11 DEF tree

-----------------------------------------------------------------------------
(* The meter's part of the invariant, step by step.                        *)
LEMMA MeterStays ==
  ASSUME TableAssumption, TableTypes, MeterInv, UNCHANGED <<system, meter>>, Ages, used' >= used, used' \in Nat,
         \/ Lessens
         \/ Cardinality(UnitsOf(meter.seen, table)) <= used => Cardinality(UnitsOf(meter.seen, table')) <= used'
  PROVE  MeterInv'
  <1>1. PICK kinOf \in [DOMAIN meter.rows -> BOOLEAN] : TrueOf(meter.rows, kinOf)
    BY DEF MeterInv, RowsAreTrue
  <1>2. TrueOf(meter.rows, kinOf)'
    <2>1. DOMAIN meter.rows \subseteq Pids
      BY DEF TableTypes
    <2>2. TrueOf(meter.rows, kinOf)'
      BY <1>1, <2>1, RowsStayTrue
    <2> QED
      BY <2>2
  <1>3. RowsAreTrue(meter.rows)'
    BY <1>1, <1>2 DEF RowsAreTrue
  <1>4. Cardinality(UnitsOf(meter.seen, table)) <= used => Cardinality(UnitsOf(meter.seen, table')) <= used'
    <2>1. CASE Lessens
      <3>1. Cardinality(UnitsOf(meter.seen, table')) <= Cardinality(UnitsOf(meter.seen, table))
            /\ Cardinality(UnitsOf(meter.seen, table')) \in Nat
        BY <2>1, LessAddsNothing, FewerUnits
      <3>2. Cardinality(UnitsOf(meter.seen, table)) \in Nat /\ used \in Nat
        BY UnitsAreFinite, FS_CardinalityType DEF TableTypes
      <3> QED
        BY <3>1, <3>2
    <2> QED
      BY <2>1
  <1>5. used \in Nat /\ meter.told \in Nat
    BY DEF TableTypes, Meter
  <1> QED
    BY <1>3, <1>4, <1>5 DEF MeterInv

-----------------------------------------------------------------------------
(* The kill's part of the invariant, step by step.                         *)
LEMMA KillStays ==
  ASSUME TableAssumption, TableTypes, KillInv, UNCHANGED <<system, killer>>, Ages, killer.pc # "told"
  PROVE  KillInv'
  <1>1. DOMAIN killer.rows \subseteq Pids /\ born \in Nat /\ killer.linked \subseteq 0 .. born + 1
        /\ killer.left \subseteq Pids /\ killer.signalled \subseteq Pids
    BY DEF TableTypes, Killer
  <1>2. RowsAreTrue(killer.rows)'
    <2>1. PICK kinOf \in [DOMAIN killer.rows -> BOOLEAN] : TrueOf(killer.rows, kinOf)
      BY DEF KillInv, RowsAreTrue
    <2>2. TrueOf(killer.rows, kinOf)'
      BY <1>1, <2>1, RowsStayTrue
    <2> QED
      BY <2>1, <2>2 DEF RowsAreTrue
  <1>3. ASSUME killer.pc = "walk" PROVE RowsReach(killer.rows, killer.linked)'
    <2>1. PICK L \in SUBSET DOMAIN killer.rows : LinkedBy(killer.rows, killer.linked, L)
      BY <1>3 DEF KillInv, RowsReach
    <2>2. LinkedBy(killer.rows, killer.linked, L)'
      BY <1>1, <2>1, LinksStay
    <2> QED
      BY <2>1, <2>2 DEF RowsReach
  <1>4. ASSUME killer.pc = "kill"
        PROVE  /\ \A p \in killer.left : table'[p].is # "free" => table'[p].kin \/ killer.blurred
               /\ \A p \in Pids : table'[p].is = "live" /\ table'[p].of \in killer.linked => p \in killer.left
    <2>1. killer.left \subseteq DOMAIN killer.rows
      BY <1>4 DEF KillInv
    <2>2. ASSUME NEW p \in killer.left, table'[p].is # "free" PROVE table'[p].kin \/ killer.blurred
      <3>1. p \in Pids /\ p \in DOMAIN killer.rows
        BY <1>1, <2>1
      <3>2. table[p].is # "free" /\ table'[p].kin = table[p].kin
        BY <2>2, <3>1 DEF Ages
      <3> QED
        BY <1>4, <3>2 DEF KillInv, Listed
    <2>3. ASSUME NEW p \in Pids, table'[p].is = "live", table'[p].of \in killer.linked PROVE p \in killer.left
      <3>1. table[p].is = "live" /\ table[p].of \in killer.linked
        BY <1>1, <2>3 DEF Ages
      <3> QED
        BY <1>4, <3>1 DEF KillInv
    <2> QED
      BY <2>2, <2>3
  <1>5. ASSUME killer.pc = "poll"
        PROVE  /\ \A p \in Pids : table'[p].is = "live" => table'[p].of \notin killer.linked
               /\ \A p \in killer.signalled \ killer.pending : table'[p].is \notin {"live", "dying"}
    <2>1. ASSUME NEW p \in Pids, table'[p].is = "live" PROVE table'[p].of \notin killer.linked
      <3>1. table'[p].of = born + 2 \/ (table[p].is = "live" /\ table'[p].of = table[p].of)
        BY <2>1 DEF Ages
      <3> QED
        BY <1>1, <1>5, <3>1 DEF KillInv
    <2>2. ASSUME NEW p \in killer.signalled \ killer.pending, table'[p].is \in {"live", "dying"} PROVE FALSE
      <3>1. p \in Pids /\ table[p].is \in {"live", "dying"}
        BY <1>1, <2>2 DEF Ages
      <3> QED
        BY <1>5, <3>1 DEF KillInv, PidAlive
    <2> QED
      BY <2>1, <2>2
  <1> QED
    BY <1>2, <1>3, <1>4, <1>5 DEF KillInv, Listed, PidAlive

\* Nobody lives or dies while nobody moves.
LEMMA StillAges == ASSUME table' = table PROVE Ages /\ Lessens
  BY DEF Ages, Lessens

LEMMA StillEdges == ASSUME Edges, UNCHANGED <<system, table>> PROVE Edges'
  BY DEF Edges, FirstAreFirst, EdgesAreDated, ParentsAreWritten, Listed, PidAlive

LEMMA StillReads ==
  ASSUME UNCHANGED <<system, table>>, NEW rows
  PROVE  /\ RowsAreTrue(rows) => RowsAreTrue(rows)'
         /\ \A linked : RowsReach(rows, linked) => RowsReach(rows, linked)'
  <1>1. \A kinOf : TrueOf(rows, kinOf) => TrueOf(rows, kinOf)'
    BY DEF TrueOf, Listed
  <1>2. \A linked, L : LinkedBy(rows, linked, L) => LinkedBy(rows, linked, L)'
    BY DEF LinkedBy, Reaches, Listed, PidAlive
  <1> QED
    BY <1>1, <1>2 DEF RowsAreTrue, RowsReach

LEMMA SnapshotStep ==
  ASSUME TableAssumption, TableTypes, Edges, KillInv, Snapshot
  PROVE  TableTypes' /\ KillInv'
  <1>1. /\ UNCHANGED <<system, table, meter, used, born, clock>> /\ killer.pc = "idle" /\ StillOurs
        /\ killer = NoKill
    BY DEF Snapshot, KillInv
  <1>2. killer' = [killer EXCEPT !.pc = "walk", !.rows = TableRows, !.linked = Linked] \/ killer' = [killer EXCEPT !.pc = "walk"]
    BY DEF Snapshot
  <1>3. Linked \subseteq 0 .. born + 1
    <2>1. \A p \in Pids : table[p].of \in 0 .. born + 1
      BY DEF TableTypes, Row
    <2>2. born \in Nat
      BY DEF TableTypes
    <2> QED
      BY <2>1, <2>2 DEF Linked
  <1>4. killer' \in Killer' /\ DOMAIN killer'.rows \subseteq Pids
    <2>1. CASE killer' = [killer EXCEPT !.pc = "walk", !.rows = TableRows, !.linked = Linked]
      BY <1>1, <1>3, <2>1, TableRowsAre DEF TableTypes, Killer
    <2>2. CASE killer' = [killer EXCEPT !.pc = "walk"]
      BY <1>1, <2>2 DEF TableTypes, Killer
    <2> QED
      BY <1>2, <2>1, <2>2
  <1>5. TableTypes'
    BY <1>1, <1>4 DEF TableTypes, Row, Meter, Reading
  <1>6. /\ killer'.pc = "walk" /\ ~killer'.astray /\ killer'.signalled = {}
        /\ RowsAreTrue(killer'.rows) /\ RowsReach(killer'.rows, killer'.linked)
    <2>1. CASE killer' = [killer EXCEPT !.pc = "walk", !.rows = TableRows, !.linked = Linked]
      <3>1. killer'.pc = "walk" /\ ~killer'.astray /\ killer'.signalled = {} /\ killer'.rows = TableRows /\ killer'.linked = Linked
        BY <1>1, <2>1 DEF NoKill
      <3> QED
        BY <1>1, <3>1, TableIsTrue, TableReaches
    <2>2. CASE killer' = [killer EXCEPT !.pc = "walk"]
      <3>1. killer'.pc = "walk" /\ ~killer'.astray /\ killer'.signalled = {} /\ killer'.rows = <<>> /\ killer'.linked = {}
        BY <1>1, <2>2 DEF NoKill
      <3>2. LinkedBy(<<>>, {}, {})
        BY EmptyRows DEF LinkedBy, Reaches
      <3>3. RowsReach(<<>>, {})
        BY <3>2 DEF RowsReach
      <3> QED
        BY <3>1, <3>3, NothingIsTrue
    <2> QED
      BY <1>2, <2>1, <2>2
  <1>7. RowsAreTrue(killer.rows)' /\ RowsReach(killer.rows, killer.linked)'
    BY <1>1, <1>6, StillReads DEF TrueOf
  <1> QED
    BY <1>5, <1>6, <1>7 DEF KillInv

LEMMA WalkStep ==
  ASSUME TableAssumption, TableTypes, Edges, KillInv, Walk
  PROVE  TableTypes' /\ KillInv'
  <1> DEFINE tree == Descendants(killer.rows)
  <1>1. /\ UNCHANGED <<system, table, meter, used, born, clock>> /\ killer.pc = "walk"
        /\ killer' = [killer EXCEPT !.pc = "kill", !.left = tree, !.blurred = Blurred(tree)]
    BY DEF Walk
  <1>2. tree \subseteq DOMAIN killer.rows /\ DOMAIN killer.rows \subseteq Pids
    BY WalkCloses DEF TableTypes
  <1>3. RowsReach(killer.rows, killer.linked) /\ ~killer.astray /\ RowsAreTrue(killer.rows)
    BY <1>1 DEF KillInv
  <1>4. \A p \in tree : Listed(p) => table[p].kin \/ Blurred(tree)
    BY <1>2, <1>3, StrangersBlur
  <1>5. \A p \in Pids : table[p].is = "live" /\ table[p].of \in killer.linked => p \in tree
    BY <1>2, <1>3, LinkedAreFound DEF PidAlive
  <1>6. Blurred(tree) \in BOOLEAN
    BY DEF Blurred
  <1> HIDE DEF tree
  <1>7. /\ killer' \in Killer' /\ killer'.pc = "kill" /\ killer'.rows = killer.rows /\ killer'.linked = killer.linked
        /\ killer'.left = tree /\ killer'.blurred = Blurred(tree) /\ killer'.astray = killer.astray
    BY <1>1, <1>2, <1>6 DEF TableTypes, Killer
  <1>8. TableTypes'
    BY <1>1, <1>2, <1>7 DEF TableTypes, Row, Meter, Reading
  <1>9. RowsAreTrue(killer.rows)'
    BY <1>1, <1>3, <1>7, StillReads
  <1> QED
    BY <1>1, <1>2, <1>3, <1>4, <1>5, <1>7, <1>8, <1>9 DEF KillInv, Listed

LEMMA KillStep ==
  ASSUME TableAssumption, TableTypes, Edges, KillInv, NEW p \in Pids, Kill(p)
  PROVE  TableTypes' /\ Edges' /\ Ages /\ Lessens /\ KillInv'
  <1>1. /\ UNCHANGED <<system, meter, used, born, clock>> /\ killer.pc = "kill" /\ p \in killer.left
        /\ killer' = [killer EXCEPT !.left = @ \ {p}, !.signalled = IF Listed(p) THEN @ \union {p} ELSE @,
                        !.astray = @ \/ (PidAlive(p) /\ ~table[p].kin)]
        /\ table' = IF table[p].is = "live" THEN [table EXCEPT ![p].is = "dying"] ELSE table
    BY DEF Kill, Turn
  <1>2. /\ table' \in [Pids -> Row'] /\ Edges' /\ Ages
        /\ table'[p].is # "live"
        /\ \A q \in Pids : /\ table'[q].is # "free" <=> table[q].is # "free"
                           /\ table'[q].is = "live" => table[q].is = "live"
                           /\ table'[q].kin = table[q].kin /\ table'[q].of = table[q].of
    BY <1>1, StruckRows
  <1>3. /\ killer' \in Killer' /\ killer'.pc = "kill" /\ killer'.rows = killer.rows /\ killer'.linked = killer.linked
        /\ killer'.left = killer.left \ {p} /\ killer'.blurred = killer.blurred
        /\ killer'.astray = (killer.astray \/ (PidAlive(p) /\ ~table[p].kin))
    <2>1. (killer.astray \/ (PidAlive(p) /\ ~table[p].kin)) \in BOOLEAN
      BY DEF PidAlive
    <2>2. (IF Listed(p) THEN killer.signalled \union {p} ELSE killer.signalled) \in SUBSET Pids
      BY DEF TableTypes, Killer
    <2> QED
      BY <1>1, <2>1, <2>2 DEF TableTypes, Killer
  <1>4. TableTypes'
    BY <1>1, <1>2, <1>3 DEF TableTypes, Meter, Reading
  <1>5. Lessens
    <2>1. \A q \in Pids : table'[q].born = table[q].born /\ table'[q].cpu = table[q].cpu
      BY <1>1 DEF TableTypes, Row
    <2> QED
      BY <1>2, <2>1 DEF Lessens
  <1>6. RowsAreTrue(killer.rows)'
    <2>1. PICK kinOf \in [DOMAIN killer.rows -> BOOLEAN] : TrueOf(killer.rows, kinOf)
      BY DEF KillInv, RowsAreTrue
    <2>2. DOMAIN killer.rows \subseteq Pids
      BY DEF TableTypes
    <2> DEFINE rows == killer.rows
    <2>3. rows' = rows
      BY <1>3
    <2>4. \A q \in DOMAIN rows : table'[q].is # "free" =>
            /\ table[q].is # "free" /\ table'[q].kin = table[q].kin /\ table'[q].born = table[q].born
            /\ system.os # "linux" => table'[q].parent = table[q].parent
      BY <1>2, <2>2 DEF Ages
    <2>5. TrueOf(rows, kinOf)'
      BY <1>1, <2>1, <2>3, <2>4 DEF TrueOf, Listed
    <2> QED
      BY <2>1, <2>3, <2>5 DEF RowsAreTrue
  <1>7. killer.astray \/ (PidAlive(p) /\ ~table[p].kin) => killer.blurred
    BY <1>1 DEF KillInv, PidAlive, Listed
  <1> QED
    BY <1>1, <1>2, <1>3, <1>4, <1>5, <1>6, <1>7 DEF KillInv, Listed, TableTypes, Killer

LEMMA SignalledStep ==
  ASSUME TableAssumption, TableTypes, Edges, KillInv, Signalled
  PROVE  TableTypes' /\ KillInv'
  <1>1. /\ UNCHANGED <<system, table, meter, used, born, clock>> /\ killer.pc = "kill" /\ killer.left = {}
        /\ killer' = [killer EXCEPT !.pc = "poll", !.pending = killer.signalled, !.deadline = clock + Patience]
    BY DEF Signalled
  <1>2. clock + Patience \in Nat
    BY DEF TableTypes, TableAssumption
  <1>3. /\ killer' \in Killer' /\ killer'.pc = "poll" /\ killer'.rows = killer.rows /\ killer'.linked = killer.linked
        /\ killer'.pending = killer'.signalled /\ killer'.blurred = killer.blurred /\ killer'.astray = killer.astray
    BY <1>1, <1>2 DEF TableTypes, Killer
  <1>4. TableTypes'
    BY <1>1, <1>3 DEF TableTypes, Row, Meter, Reading
  <1>5. RowsAreTrue(killer.rows)'
    BY <1>1, <1>3, StillReads DEF KillInv
  <1> QED
    BY <1>1, <1>3, <1>4, <1>5 DEF KillInv

LEMMA PollStep ==
  ASSUME TableAssumption, TableTypes, Edges, KillInv, KillPolls
  PROVE  TableTypes' /\ KillInv'
  <1>1. /\ UNCHANGED <<system, table, meter, used, born, clock>> /\ killer.pc = "poll"
        /\ \/ killer' = [killer EXCEPT !.pc = "told", !.pending = Pending, !.result = killer.signalled \ Pending]
           \/ killer' = [killer EXCEPT !.pending = Pending]
    BY DEF KillPolls
  <1>2. Pending \subseteq Pids
    BY DEF Pending, TableTypes, Killer
  <1>3. \A p \in killer.signalled \ Pending : ~PidAlive(p)
    BY <1>1 DEF Pending, KillInv
  <1>4. /\ killer' \in Killer' /\ killer'.rows = killer.rows /\ killer'.linked = killer.linked
        /\ killer'.pending = Pending /\ killer'.blurred = killer.blurred /\ killer'.astray = killer.astray
        /\ killer'.signalled = killer.signalled
        /\ killer'.pc = "poll" \/ (killer'.pc = "told" /\ killer'.result = killer.signalled \ Pending)
    <2>1. CASE killer' = [killer EXCEPT !.pc = "told", !.pending = Pending, !.result = killer.signalled \ Pending]
      <3> DEFINE gone == killer.signalled \ Pending
      <3>1. gone \in SUBSET Pids /\ Pending \in SUBSET Pids /\ killer \in Killer
        BY <1>2 DEF TableTypes, Killer
      <3>2. killer' = [killer EXCEPT !.pc = "told", !.pending = Pending, !.result = gone]
        BY <2>1
      <3> HIDE DEF gone
      <3>3. /\ killer' \in Killer' /\ killer'.rows = killer.rows /\ killer'.linked = killer.linked
            /\ killer'.pending = Pending /\ killer'.blurred = killer.blurred /\ killer'.astray = killer.astray
            /\ killer'.signalled = killer.signalled /\ killer'.pc = "told" /\ killer'.result = gone
        BY <1>1, <3>1, <3>2 DEF Killer
      <3> QED
        BY <3>3 DEF gone
    <2>2. CASE killer' = [killer EXCEPT !.pending = Pending]
      BY <1>1, <1>2, <2>2 DEF TableTypes, Killer
    <2> QED
      BY <1>1, <2>1, <2>2
  <1>5. TableTypes'
    BY <1>1, <1>4 DEF TableTypes, Row, Meter, Reading
  <1>6. RowsAreTrue(killer.rows)'
    BY <1>1, <1>4, StillReads DEF KillInv
  <1> QED
    BY <1>1, <1>3, <1>4, <1>5, <1>6 DEF KillInv, PidAlive

-----------------------------------------------------------------------------
LEMMA MeterSnapshotStep ==
  ASSUME TableAssumption, TableTypes, Edges, MeterInv, MeterSnapshot
  PROVE  TableTypes' /\ MeterInv'
  <1>1. /\ UNCHANGED <<system, table, killer, used, born, clock>> /\ meter.pc = "idle" /\ StillOurs /\ meter.rows = <<>>
        /\ \/ meter' = [meter EXCEPT !.pc = "walk", !.rows = TableRows]
           \/ meter' = [meter EXCEPT !.pc = "walk"]
    BY DEF MeterSnapshot, MeterInv
  <1>2. /\ meter' \in Meter' /\ meter'.pc = "walk" /\ meter'.rows \in {TableRows, <<>>} /\ meter'.seen = meter.seen
        /\ meter'.told = meter.told /\ meter'.blurred = meter.blurred
    BY <1>1 DEF TableTypes, Meter, Reading
  <1>3. DOMAIN meter'.rows \subseteq Pids
    BY <1>2, EmptyRows, TableRowsAre
  <1>4. TableTypes'
    BY <1>1, <1>2, <1>3 DEF TableTypes, Row, Killer
  <1>5. RowsAreTrue(meter'.rows)
    BY <1>1, <1>2, NothingIsTrue, TableIsTrue
  <1>6. RowsAreTrue(meter.rows)'
    BY <1>1, <1>5, StillReads
  <1> QED
    BY <1>1, <1>2, <1>4, <1>6 DEF MeterInv

LEMMA SampleStep ==
  ASSUME TableAssumption, TableTypes, Edges, MeterInv, Sample
  PROVE  TableTypes' /\ MeterInv'
  <1>1. UNCHANGED <<system, table, killer, used, born, clock>>
    BY DEF Sample
  <1>2. /\ meter'.seen \in SUBSET Reading /\ \A e, f \in meter'.seen : e.key = f.key => e = f
        /\ meter' = [pc |-> "idle", rows |-> <<>>, seen |-> meter'.seen, samples |-> meter.samples + 1, told |-> SeenTotal(meter'.seen),
                     blurred |-> meter.blurred \/ Blurred(Descendants(meter.rows))]
        /\ ~meter'.blurred => UnitsOf(meter'.seen, table) \subseteq UnitsOf(meter.seen, table)
    BY SampleSees DEF MeterInv
  <1>3. SeenTotal(meter'.seen) \in Nat /\ SeenTotal(meter'.seen) <= Cardinality(UnitsOf(meter'.seen, table))
    BY <1>2, TotalIsCounted
  <1>4. (meter.blurred \/ Blurred(Descendants(meter.rows))) \in BOOLEAN
    BY DEF Blurred
  <1>5. /\ meter'.pc = "idle" /\ meter'.rows = <<>> /\ meter'.told = SeenTotal(meter'.seen)
        /\ meter'.blurred = (meter.blurred \/ Blurred(Descendants(meter.rows))) /\ meter'.samples = meter.samples + 1
    BY <1>2
  <1>6. meter' \in Meter' /\ DOMAIN meter'.rows \subseteq Pids
    <2>1. meter.samples + 1 \in Nat
      BY DEF TableTypes, Meter
    <2> DEFINE total == SeenTotal(meter'.seen)
               found == meter.blurred \/ Blurred(Descendants(meter.rows))
    <2>2. total \in Nat /\ found \in BOOLEAN
      BY <1>3, <1>4
    <2>3. meter' = [pc |-> "idle", rows |-> meter'.rows, seen |-> meter'.seen, samples |-> meter.samples + 1, told |-> total, blurred |-> found]
      BY <1>2, <1>5
    <2> HIDE DEF total, found
    <2>4. meter' \in Meter'
      BY <1>2, <2>1, <2>2, <2>3 DEF Meter
    <2> QED
      BY <1>5, <2>4, EmptyRows
  <1>7. TableTypes'
    BY <1>1, <1>6 DEF TableTypes, Row, Killer
  <1>8. RowsAreTrue(meter.rows)'
    BY <1>1, <1>5, NothingIsTrue, StillReads
  <1>9. ASSUME ~meter'.blurred PROVE Cardinality(UnitsOf(meter'.seen, table)) <= used /\ meter'.told <= used
    <2>1. Cardinality(UnitsOf(meter'.seen, table)) <= Cardinality(UnitsOf(meter.seen, table))
          /\ Cardinality(UnitsOf(meter'.seen, table)) \in Nat /\ Cardinality(UnitsOf(meter.seen, table)) \in Nat
      BY <1>2, <1>9, FewerUnits, UnitsAreFinite, FS_CardinalityType
    <2>2. Cardinality(UnitsOf(meter.seen, table)) <= used
      BY <1>5, <1>9 DEF MeterInv
    <2>3. used \in Nat
      BY DEF TableTypes
    <2> QED
      BY <1>3, <1>5, <2>1, <2>2, <2>3
  <1> QED
    BY <1>1, <1>2, <1>5, <1>7, <1>8, <1>9 DEF MeterInv

LEMMA LivingLessens ==
  ASSUME TableAssumption, TableTypes, NEW p \in Pids,
         ProcExits(p) \/ Waited(p) \/ \E q \in Pids : Spawns(p, q) \/ SpawnMeanwhile(p, q)
  PROVE  Lessens
  <1>1. CASE ProcExits(p)
    <2>1. table' = Gone(p) /\ born' = born /\ clock' = clock
      BY <1>1 DEF ProcExits, CallsStay
    <2>2. /\ \A q \in Pids \ {p} : table'[q].is = table[q].is /\ table'[q].kin = table[q].kin /\ table'[q].born = table[q].born
                                   /\ table'[q].cpu = table[q].cpu
          /\ table'[p].is = "zombie" => table'[p].cpu = table[p].cpu /\ table'[p].kin = table[p].kin /\ table'[p].born = table[p].born
          /\ table'[p].is \in {"free", "zombie"}
      BY <2>1, GoneRows
    <2> QED
      BY <1>1, <2>2 DEF Lessens, ProcExits, PidAlive
  <1>2. CASE Waited(p)
    <2>1. table' = [table EXCEPT ![p] = Free]
      BY <1>2 DEF Waited
    <2>2. \A q \in Pids \ {p} : table'[q] = table[q]
      BY <2>1 DEF TableTypes
    <2>3. table'[p].is = "free"
      BY <2>1 DEF TableTypes, Free
    <2> QED
      BY <2>2, <2>3 DEF Lessens
  <1>3. CASE \E q \in Pids : Spawns(p, q) \/ SpawnMeanwhile(p, q)
    <2>1. PICK q \in Pids : Spawns(p, q) \/ SpawnMeanwhile(p, q)
      BY <1>3
    <2>2. table' = [table EXCEPT ![q] = Spawned(p)] /\ born' = born + 1 /\ clock' = clock
      BY <2>1 DEF Spawns, SpawnMeanwhile, CallsStay
    <2>3. (\A r \in Pids \ {q} : table'[r] = table[r]) /\ table'[q].cpu = 0
      BY <2>2, SpawnedRow
    <2> QED
      BY <2>3 DEF Lessens
  <1> QED
    BY <1>1, <1>2, <1>3

TableInv == TableTypes /\ Edges /\ KillInv /\ MeterInv

LEMMA TableBegins == ASSUME TableAssumption, TableInit PROVE TableInv
  <1>1. {Root, Other} \subseteq Pids /\ Root # Other /\ InitPid \notin Pids /\ MaxCpu \in Nat /\ MaxClock \in Nat /\ Root # InitPid
    BY NumbersAreNotInit DEF TableAssumption
  <1>2. killer = NoKill /\ meter = NoMeter /\ used = 0 /\ born = 0 /\ clock = 0 /\ system \in [os : Systems, call : {"kill", "meter"}]
    BY DEF TableInit
  <1> DEFINE first == [Free EXCEPT !.is = "live", !.kin = TRUE]
             second == [Free EXCEPT !.is = "live", !.of = 1, !.above = 1]
  <1>3. /\ first.is = "live" /\ first.parent = InitPid /\ first.born = 0 /\ first.of = 0 /\ first.above = 0 /\ first.kin /\ first.cpu = 0
        /\ second.is = "live" /\ second.parent = InitPid /\ second.born = 0 /\ second.of = 1 /\ second.above = 1 /\ ~second.kin
        /\ second.cpu = 0
    BY DEF Free
  <1>5. first \in Row /\ second \in Row /\ Free \in Row
    <2>1. born = 0 /\ clock = 0 /\ 1 \in 0 .. born + 1
      BY <1>2
    <2>2. Free \in Row
      BY <1>1, <2>1 DEF Row, Free
    <2>3. ASSUME NEW free \in Row
          PROVE  [free EXCEPT !.is = "live", !.kin = TRUE] \in Row /\ [free EXCEPT !.is = "live", !.of = 1, !.above = 1] \in Row
      BY <2>1 DEF Row
    <2> QED
      BY <2>2, <2>3
  <1>4. table = [p \in Pids |-> IF p = Root THEN first ELSE IF p = Other THEN second ELSE Free]
    BY DEF TableInit
  <1> HIDE DEF first, second
  <1>6. table \in [Pids -> Row]
    BY <1>4, <1>5
  <1>7. /\ table[Root] = first /\ table[Other] = second
        /\ \A p \in Pids \ {Root, Other} : table[p].is = "free"
    BY <1>1, <1>4 DEF Free
  <1>8. Edges
    <2>1. FirstAreFirst
      BY <1>1, <1>3, <1>7 DEF FirstAreFirst, Listed
    <2>2. EdgesAreDated
      BY <1>1, <1>3, <1>7 DEF EdgesAreDated, Listed
    <2>3. ParentsAreWritten
      BY <1>1, <1>3, <1>7 DEF ParentsAreWritten, Listed, PidAlive
    <2> QED
      BY <2>1, <2>2, <2>3 DEF Edges
  <1>9. killer \in Killer /\ meter \in Meter
    BY <1>1, <1>2 DEF Killer, Meter, NoKill, NoMeter
  <1>10. TableTypes
    BY <1>1, <1>2, <1>6, <1>9, EmptyRows DEF TableTypes, NoKill, NoMeter
  <1>11. KillInv
    BY <1>2, NothingIsTrue DEF KillInv, NoKill
  <1>12. MeterInv
    <2>1. UnitsOf({}, table) = {}
      <3> SUFFICES ASSUME NEW x \in UnitsOf({}, table) PROVE FALSE
        OBVIOUS
      <3>1. x[2] \in 1 .. MaxCpu
        BY DEF UnitsOf
      <3>2. PICK p \in Pids : table[p].is # "free" /\ x[2] <= table[p].cpu
        BY DEF UnitsOf
      <3>3. table[p].cpu = 0
        BY <1>3, <1>7, <3>2
      <3> QED
        BY <1>1, <3>1, <3>2, <3>3
    <2>2. meter.seen = {} /\ meter.rows = <<>> /\ meter.told = 0
      BY <1>2 DEF NoMeter
    <2>3. Cardinality(UnitsOf(meter.seen, table)) <= used /\ meter.told <= used
      <3>1. UnitsOf(meter.seen, table) = {}
        BY <2>1, <2>2
      <3> QED
        <4>1. Cardinality(UnitsOf(meter.seen, table)) = 0
          BY <3>1, FS_EmptySet
        <4>2. used = 0 /\ meter.told = 0
          BY <1>2, <2>2
        <4> QED
          BY <4>1, <4>2
    <2> QED
      BY <2>2, <2>3, NothingIsTrue DEF MeterInv
  <1> QED
    BY <1>8, <1>10, <1>11, <1>12 DEF TableInv

LEMMA TableSteps == ASSUME TableAssumption, TableInv, [TableNext]_tableVars PROVE TableInv'
  <1> USE DEF TableInv
  <1>1. CallsAreOver
    BY DEF CallsAreOver, KillInv, MeterInv
  <1>2. CASE UNCHANGED tableVars
    <2>1. UNCHANGED <<system, table, killer, meter, used, born, clock>>
      BY <1>2 DEF tableVars
    <2>2. TableTypes'
      BY <2>1 DEF TableTypes, Row, Killer, Meter, Reading
    <2>3. RowsAreTrue(killer.rows)' /\ (killer.pc = "walk" => RowsReach(killer.rows, killer.linked)')
      BY <2>1, StillReads DEF KillInv
    <2>4. KillInv'
      BY <2>1, <2>3 DEF KillInv, Listed, PidAlive
    <2>5. MeterInv'
      BY <2>1, StillAges, MeterStays DEF TableTypes
    <2> QED
      BY <2>1, <2>2, <2>4, <2>5, StillEdges
  <1>3. CASE TableNext
    <2>1. killer.pc # "told"
      BY <1>3 DEF TableNext
    <2>2. CASE Killing
      <3>1. system' = system /\ meter' = meter /\ used' = used /\ used \in Nat /\ used' >= used
        <4>1. UNCHANGED <<system, meter, used>>
          BY <2>2 DEF Killing, Snapshot, Walk, Kill, Signalled, KillPolls
        <4>2. used \in Nat
          BY DEF TableTypes
        <4> QED
          BY <4>1, <4>2
      <3>2. TableTypes' /\ Edges' /\ KillInv' /\ Ages /\ Lessens
        <4>1. CASE Snapshot
          BY <4>1, SnapshotStep, StillEdges, StillAges DEF Snapshot
        <4>2. CASE Walk
          BY <4>2, WalkStep, StillEdges, StillAges DEF Walk
        <4>3. CASE \E p \in Pids : Kill(p)
          BY <4>3, KillStep
        <4>4. CASE Signalled
          BY <4>4, SignalledStep, StillEdges, StillAges DEF Signalled
        <4>5. CASE KillPolls
          BY <4>5, PollStep, StillEdges, StillAges DEF KillPolls
        <4> QED
          BY <2>2, <4>1, <4>2, <4>3, <4>4, <4>5 DEF Killing
      <3>3. MeterInv'
        BY <3>1, <3>2, MeterStays
      <3> QED
        BY <3>2, <3>3
    <2>3. CASE Metering
      <3>1. UNCHANGED <<system, table, killer, used, born, clock>>
        BY <2>3 DEF Metering, MeterSnapshot, Sample
      <3>2. TableTypes' /\ MeterInv'
        BY <2>3, MeterSnapshotStep, SampleStep DEF Metering
      <3>3. KillInv'
        BY <2>1, <3>1, StillAges, KillStays
      <3> QED
        BY <3>1, <3>2, <3>3, StillEdges
    <2>4. CASE Living
      <3>1. PICK p \in Pids : Works(p) \/ ProcExits(p) \/ Waited(p) \/ \E q \in Pids : Spawns(p, q) \/ SpawnMeanwhile(p, q)
        BY <2>4 DEF Living
      <3>2. UNCHANGED <<system, killer, meter>>
        BY <3>1 DEF Works, ProcExits, Waited, Spawns, SpawnMeanwhile, CallsStay
      <3>3. TableTypes' /\ Edges' /\ Ages
        BY <1>1, <3>1, WorkStep, ExitStep, WaitStep, SpawnStep
      <3>4. KillInv'
        BY <2>1, <3>2, <3>3, KillStays
      <3>5. MeterInv'
        <4>1. CASE Works(p)
          <5>1. used' >= used /\ used' \in Nat
            BY <4>1 DEF Works, TableTypes
          <5>2. Cardinality(UnitsOf(meter.seen, table)) <= used => Cardinality(UnitsOf(meter.seen, table')) <= used'
            BY <4>1, WorkAddsAUnit
          <5> QED
            BY <3>2, <3>3, <5>1, <5>2, MeterStays
        <4>2. CASE ProcExits(p) \/ Waited(p) \/ \E q \in Pids : Spawns(p, q) \/ SpawnMeanwhile(p, q)
          <5>1. used' >= used /\ used' \in Nat
            BY <4>2 DEF ProcExits, Waited, Spawns, SpawnMeanwhile, TableTypes
          <5>2. Lessens
            BY <4>2, LivingLessens
          <5> QED
            BY <3>2, <3>3, <5>1, <5>2, MeterStays
        <4> QED
          BY <3>1, <4>1, <4>2
      <3> QED
        BY <3>3, <3>4, <3>5
    <2>5. CASE ClockTicks
      <3>1. UNCHANGED <<system, table, killer, meter, used, born>> /\ clock' = clock + 1 /\ clock < MaxClock
        BY <2>5 DEF ClockTicks
      <3>2. clock' \in 0 .. MaxClock /\ clock' >= clock /\ born' \in Nat /\ born' >= born /\ used' \in Nat /\ used' >= used
        BY <3>1 DEF TableTypes, TableAssumption
      <3>3. table' \in [Pids -> Row']
        BY <3>1, <3>2 DEF TableTypes, Row
      <3>4. TableTypes'
        BY <3>1, <3>2, <3>3, CallTypesStay
      <3>5. KillInv' /\ MeterInv'
        BY <2>1, <3>1, <3>2, StillAges, KillStays, MeterStays
      <3> QED
        BY <3>1, <3>4, <3>5, StillEdges
    <2> QED
      BY <1>3, <2>2, <2>3, <2>4, <2>5 DEF TableNext
  <1> QED
    BY <1>2, <1>3

LEMMA TableTells == ASSUME TableInv PROVE TreesAreSound
  <1>1. NobodyLinkedIsSpared
    BY DEF TableInv, KillInv, NobodyLinkedIsSpared
  <1>2. KillSparesStrangers /\ ToldAreGone
    BY DEF TableInv, KillInv, KillSparesStrangers, ToldAreGone
  <1>3. SampleIsAFloor
    BY DEF TableInv, MeterInv, SampleIsAFloor
  <1> QED
    BY <1>1, <1>2, <1>3 DEF TreesAreSound

\* proc.py kill_process_tree and proccpu.py TreeCpu, for every number of processes, any exits,
\* reparentings and reused numbers, and any creation times that cannot be read: the kill reaches
\* every descendant linked to the root when the table was read, ends a stranger only over an edge
\* no creation time can disprove, and tells only who is gone; the meter never counts more than
\* the tree used.
THEOREM TreesStaySound == ASSUME TableAssumption PROVE TableSpec => []TreesAreSound
  <1>1. TableInit => TableInv
    BY TableBegins
  <1>2. TableInv /\ [TableNext]_tableVars => TableInv'
    BY TableSteps
  <1>3. TableInv => TreesAreSound
    BY TableTells
  <1> QED
    BY <1>1, <1>2, <1>3, PTL DEF TableSpec
=============================================================================
