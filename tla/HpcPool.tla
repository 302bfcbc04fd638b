-------------------------------- MODULE HpcPool --------------------------------
(***************************************************************************)
(* Several sessions place tasks on the accounts of one pool: each reads    *)
(* the accounts (jobs._answering), decides on what it read (plan.allocate, *)
(* by the rules of HpcPlacement), and submits some time later; Slurm       *)
(* starts and ends tasks meanwhile.  Every task has one page of CPU; a     *)
(* large one has LargeMem pages of memory.                                 *)
(***************************************************************************)
EXTENDS HpcPlacement

CONSTANTS
  Accounts,      \* how many accounts: they are 1 .. Accounts, in the file's order
  Large, Small,  \* the sessions that submit large tasks, and small ones
  Cpus, Mem,     \* an account's ceilings, in pages
  LargeMem, MaxStale   \* bound: decisions that are not yet submitted

VARIABLES
  pending,   \* [account -> [session -> tasks in the queue]]
  running,   \* [account -> [session -> tasks that run]]
  decided    \* [session -> the account it decided on, 0 for none]

vars == <<pending, running, decided>>

Account == 1 .. Accounts
Session == Large \cup Small

PoolAssumption ==
  /\ {Accounts, Cpus, Mem, LargeMem, MaxStale} \subseteq Nat \ {0}
  /\ LargeMem <= Mem /\ Large \cap Small = {} /\ Untagged \notin Session

Need(s) == [d \in Dims |-> IF d = "mem" /\ s \in Large THEN LargeMem ELSE 1]
Used(a, d) == Sum(Session, LAMBDA s : running[a][s] * Need(s)[d])

Init ==
  /\ pending = [a \in Account |-> [s \in Session |-> 0]]
  /\ running = [a \in Account |-> [s \in Session |-> 0]]
  /\ decided = [s \in Session |-> 0]

-----------------------------------------------------------------------------
\* What a session reads of an account: slurm.parse_snapshot().
Snapshot(a) ==
  LET holds(s) == pending[a][s] + running[a][s]
  IN  [nodes |-> <<Node([d \in Dims |-> Mem + Cpus], [d \in Dims |-> Used(a, d)], "MIXED", FALSE, {"any"})>>,
       parts |-> [n \in {"any"} |-> [up |-> TRUE, minutes |-> Unbounded, allow |-> {}]],
       quota |-> [ceiling |-> [d \in Dims |-> IF d = "cpu" THEN Cpus ELSE Mem],
                  used |-> [d \in Dims |-> Used(a, d)], defaultQos |-> "any", minutes |-> [x \in {"any"} |-> Unbounded],
                  maxSubmit |-> [x \in {"any"} |-> Unbounded], maxJobs |-> [x \in {"any"} |-> Unbounded],
                  queued |-> [x \in {"any"} |-> 0]],
       usage |-> [s \in {t \in Session : holds(t) > 0} |->
                    [tasks |-> holds(s), cpu |-> holds(s), mem |-> holds(s) * Need(s)["mem"]]],
       inodes |-> FilesPerRun,
       pending |-> {Need(s) : s \in {t \in Session : pending[a][t] > 0}}]
AnyGrant == [user |-> Untagged, costed |-> FALSE, priority |-> 0, partitions |-> <<"any">>, qos |-> [x \in {} |-> 0]]
TaskOf(s) ==
  [seconds |-> <<60>>, cost |-> [need |-> Need(s), seconds |-> 60],
   policy |-> [shardMin |-> 1, shardMax |-> 60, safety |-> 1, maxArray |-> 1], session |-> SessionFor(s, NoRecord),
   paging |-> [page |-> [d \in Dims |-> 1], largePages |-> 1, movable |-> 60], rerunSafe |-> TRUE]
Decision(s) == Allocate([a \in Account |-> [grant |-> AnyGrant, snap |-> Snapshot(a)]], TaskOf(s))

\* A session reads the pool and decides; what cannot be planned is asked again.
Decide(s) ==
  /\ decided[s] = 0 /\ Cardinality({t \in Session : decided[t] # 0}) < MaxStale
  /\ \E d \in {Decision(s)} : ~Refused(d) /\ decided' = [decided EXCEPT ![s] = d.on]
  /\ UNCHANGED <<pending, running>>

\* jobs._place(): the array is submitted, with room or without.
Submit(s) ==
  /\ decided[s] # 0
  /\ pending' = [pending EXCEPT ![decided[s]][s] = @ + 1]
  /\ decided' = [decided EXCEPT ![s] = 0]
  /\ UNCHANGED running

\* Slurm starts what the account's ceilings hold, and a task ends.
Starts(a, s) ==
  /\ pending[a][s] > 0
  /\ \A d \in Dims : Used(a, d) + Need(s)[d] <= (IF d = "cpu" THEN Cpus ELSE Mem)
  /\ pending' = [pending EXCEPT ![a][s] = @ - 1]
  /\ running' = [running EXCEPT ![a][s] = @ + 1]
  /\ UNCHANGED decided

Ends(a, s) ==
  /\ running[a][s] > 0
  /\ running' = [running EXCEPT ![a][s] = @ - 1]
  /\ UNCHANGED <<pending, decided>>

Next ==
  \/ \E s \in Session : Decide(s) \/ Submit(s)
  \/ \E a \in Account, s \in Session : Starts(a, s) \/ Ends(a, s)

Spec == Init /\ [][Next]_vars

\* A task has its wall, so that an account that is full has room again, and Slurm starts
\* for good the large task that it can start.
FairSpec ==
  Spec /\ \A a \in Account : WF_vars(\E s \in Large : Starts(a, s)) /\ WF_vars(\E s \in Session : Ends(a, s))

-----------------------------------------------------------------------------
Waits(a) == \E s \in Large : pending[a][s] > 0

\* plan.py:38-41: the CPU headroom counts what is queued, so that the queue of an
\* account stays within its ceiling but for the decisions that were on their way.
TypeOK ==
  /\ decided \in [Session -> 0 .. Accounts]
  /\ \A a \in Account :
       /\ \A d \in Dims : Used(a, d) <= (IF d = "cpu" THEN Cpus ELSE Mem)
       /\ Sum(Session, LAMBDA s : pending[a][s] + running[a][s]) < Cpus + MaxStale

\* region.py:34-36: one account is set apart, and large tasks wait on no other, but for
\* those decisions that were on their way before any large task was seen to wait.
Ready(a) == Waits(a) \/ \E s \in Large : decided[s] = a
OneRegion == Cardinality({a \in Account : Ready(a)}) <= Least(Cardinality(Large), MaxStale)

\* Both: what is placed on stale readings stays within what the pool grants.
PoolIsSound == TypeOK /\ OneRegion

\* region.py:5-8: the region is drained by admitting nothing else, so the large
\* task that waits there starts, however many small ones are submitted on.
LargeStarts == \A a \in Account : Waits(a) ~> \E s \in Large : running[a][s] > 0
=============================================================================
