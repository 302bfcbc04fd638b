-------------------------------- MODULE HpcPlan --------------------------------
(***************************************************************************)
(* Where a batch of items runs: shards.py, plan.py, span.py, region.py,    *)
(* allocation.py, affinity.py and jobs.tiered(), all pure over what Slurm  *)
(* answered.  Times are seconds, a wall is in minutes.  A limit that       *)
(* nobody sets is Unbounded, more than any amount; an item list is a       *)
(* sequence of seconds and a range <<a, b>> of it holds the items a+1..b.  *)
(***************************************************************************)
EXTENDS Integers, FiniteSets, SequencesExt, FiniteSetsExt

Unbounded == 1000000
Dims == {"cpu", "mem"}
FilesPerRun == 4

\* What a request that cannot be met answers: no room now, or a defect of its own.
NoRoom == [refused |-> "room"]
BadRequest == [refused |-> "request"]
Refused(answer) == "refused" \in DOMAIN answer

Total(seconds) ==
  LET sum[k \in 0 .. Len(seconds)] == IF k = 0 THEN 0 ELSE sum[k - 1] + seconds[k]
  IN  sum[Len(seconds)]
Held(seconds, range) == Total(SubSeq(seconds, range[1] + 1, range[2]))
CeilDiv(a, b) == (a + b - 1) \div b
Least(a, b) == Min({a, b})
Most(a, b) == Max({a, b})

-----------------------------------------------------------------------------
(* shards.py                                                               *)

\* _pack(): close a shard once it holds `low`; none passes `high` unless alone.
Pack(seconds, low, high) ==
  LET packed[k \in 1 .. Len(seconds)] ==
        IF k = 1 THEN [cut |-> <<>>, start |-> 0, sum |-> seconds[1]]
        ELSE LET held == packed[k - 1]
             IN  IF held.sum >= low \/ held.sum + seconds[k] > high
                 THEN [cut |-> Append(held.cut, <<held.start, k - 1>>), start |-> k - 1, sum |-> seconds[k]]
                 ELSE [held EXCEPT !.sum = @ + seconds[k]]
      all == packed[Len(seconds)]
  IN  Append(all.cut, <<all.start, Len(seconds)>>)

\* A bound grown by a tenth, in whole seconds.
Grown(bound) == Most((bound * 11) \div 10, bound + 1)

\* _shards(): the policy's window, then both bounds grown until the array fits.
Shards(seconds, policy, room) ==
  LET cap == Least(policy.maxArray, room)
      grown[window \in Nat \X Nat] ==
        LET cut == Pack(seconds, window[1], window[2])
        IN  IF Len(cut) <= cap THEN cut ELSE grown[<<Grown(window[1]), Grown(window[2])>>]
  IN  grown[<<Most(policy.shardMin * 60, CeilDiv(Total(seconds), cap)), Most(policy.shardMax * 60, Total(seconds) \div cap)>>]

Slowest(seconds, shards) == Max({0} \cup {Held(seconds, shards[k]) : k \in DOMAIN shards})

Quicker(loads, slowest) == Max(Range(loads)) < slowest

\* The bin with the least load, the first of equals.
LighterBin(loads) ==
  CHOOSE b \in DOMAIN loads :
    \A c \in DOMAIN loads : loads[b] < loads[c] \/ (loads[b] = loads[c] /\ b <= c)

\* balance(): the same number of shards, filled with the longest items first,
\* when that is faster; `order` lists the items as the new ranges hold them.
Balance(seconds, shards) ==
  LET items  == [k \in DOMAIN seconds |-> k]
      longer(i, j) == seconds[i] > seconds[j] \/ (seconds[i] = seconds[j] /\ i < j)
      put(f, k) ==
        LET i == SortSeq(items, longer)[k]
            b == LighterBin(f.loads)
        IN  [loads |-> [f.loads EXCEPT ![b] = @ + seconds[i]], bins |-> [f.bins EXCEPT ![b] = @ \cup {i}]]
      full == FoldLeft(put, [loads |-> [k \in DOMAIN shards |-> 0], bins |-> [k \in DOMAIN shards |-> {}]], items)
      ends == [k \in 0 .. Len(shards) |-> FoldFunctionOnSet(LAMBDA a, b : a + b, 0,
                 [b \in DOMAIN shards |-> Cardinality(full.bins[b])], 1 .. k)]
  IN  IF ~Quicker(full.loads, Slowest(seconds, shards))
      THEN [order |-> items, shards |-> shards]
      ELSE [order |-> FlattenSeq([b \in DOMAIN shards |-> SetToSortSeq(full.bins[b], <)]),
            shards |-> [b \in DOMAIN shards |-> <<ends[b - 1], ends[b]>>]]

\* _wall(), in minutes.
Wall(seconds, shards) == Most(1, CeilDiv(Slowest(seconds, shards), 60))

\* one_wave(): no more shards than run at once, unless the ceiling forces it.
Walled(padded, shards) == [shards |-> shards, minutes |-> Wall(padded, shards)]
InTime(wave, ceiling, padded, policy, room) ==
  IF wave.minutes > ceiling THEN Walled(padded, Shards(padded, policy, room)) ELSE wave
OneWave(padded, policy, room, atOnce, ceiling) ==
  InTime(Walled(padded, Shards(padded, policy, Least(room, atOnce))), ceiling, padded, policy, room)

-----------------------------------------------------------------------------
(* slurm.py: a snapshot of one account.                                    *)

\* _node(): what is free of a node, and whether it takes a job.
Node(total, held, state, flagged, parts) ==
  [free |-> [d \in Dims |-> Most(0, total[d] - held[d])], parts |-> parts,
   schedulable |-> state \in {"IDLE", "MIXED"} /\ ~flagged]

\* _partition(): a partition that allows every QOS names none.
Partition(minutes, up, allow) == [up |-> up, minutes |-> minutes, allow |-> allow]

\* _quota(), _counts(): the association's two ceilings and its default QOS's for one user,
\* less what the account's own jobs run; the walls, the limits and the queue of each QOS.
Ceiling(group, user, qos) == [d \in Dims |-> Min({group[d], user[d], qos[d]})]
UsedBy(account, jobs) == [d \in Dims |-> SumFunction([j \in DOMAIN jobs |-> IF jobs[j].account = account THEN jobs[j].need[d] ELSE 0])]
Counts(queue, qos) == [x \in qos |-> Cardinality({k \in DOMAIN queue : queue[k] = x})]
QuotaOf(assoc, qos, jobs, queue) ==
  LET perUser == IF assoc.qos \in DOMAIN qos THEN qos[assoc.qos].perUser ELSE [d \in Dims |-> Unbounded]
  IN  [ceiling |-> Ceiling(assoc.group, assoc.perUser, perUser), used |-> UsedBy(assoc.account, jobs), defaultQos |-> assoc.qos,
       minutes |-> [x \in DOMAIN qos |-> Min({qos[x].minutes, assoc.minutes})], maxSubmit |-> [x \in DOMAIN qos |-> qos[x].maxSubmit],
       maxJobs |-> [x \in DOMAIN qos |-> qos[x].maxJobs], queued |-> Counts(queue, DOMAIN qos)]

\* Quota.submit_room(), Quota.remaining()
SubmitRoom(quota, qos) ==
  IF quota.maxSubmit[qos] = Unbounded THEN Unbounded ELSE Most(0, quota.maxSubmit[qos] - quota.queued[qos])
Left(quota, d) ==
  IF quota.ceiling[d] = Unbounded THEN Unbounded ELSE Most(0, quota.ceiling[d] - quota.used[d])

-----------------------------------------------------------------------------
(* plan.py                                                                 *)

\* width.fits()
Fits(capacity, need) == Min({capacity[d] \div need[d] : d \in {e \in Dims : need[e] > 0}})

FreeSlots(snap, parts, cost) ==
  FoldLeft(LAMBDA n, node : n + (IF node.schedulable /\ node.parts \cap parts # {} THEN Fits(node.free, cost.need) ELSE 0),
           0, snap.nodes)

\* quota_slots(), the CPUs lowered to a limit.
QuotaSlots(snap, cost, limit, now) ==
  LET have == [d \in Dims |-> IF now THEN Left(snap.quota, d) ELSE snap.quota.ceiling[d]]
  IN  Fits([have EXCEPT !["cpu"] = Least(@, limit)], cost.need)

\* _ceiling()
TimeLimit(snap, p, qos) == Least(snap.parts[p].minutes, snap.quota.minutes[qos])

\* _open(): the candidates that take a submit now, in the order declared.
Open(snap, grant) ==
  LET qos(p)  == IF p \in DOMAIN grant.qos THEN grant.qos[p] ELSE snap.quota.defaultQos
      takes(p) == /\ p \in DOMAIN snap.parts /\ snap.parts[p].up
                  /\ snap.parts[p].allow = {} \/ qos(p) \in snap.parts[p].allow
                  /\ SubmitRoom(snap.quota, qos(p)) > 0
      names   == SelectSeq(grant.partitions, takes)
  IN  [k \in DOMAIN names |->
         [name |-> names[k], qos |-> qos(names[k]), room |-> SubmitRoom(snap.quota, qos(names[k])),
          ceiling |-> TimeLimit(snap, names[k], qos(names[k]))]]

Top(open) == IF open = <<>> THEN Unbounded ELSE Max({open[k].ceiling : k \in DOMAIN open})

\* _held(): padded, and never past the longest wall that is granted.
Padded(seconds, policy, open) ==
  [k \in DOMAIN seconds |-> Least(seconds[k] * policy.safety, Top(open) * 60)]

\* The partitions one array asks for: those that hold its wall under its QOS.
Jointly(options, chosen) ==
  {options[k].name : k \in {j \in DOMAIN options : options[j].qos = chosen.qos /\ options[j].ceiling >= chosen.minutes}}

\* The open partitions whose wall holds the shards, each with those it would run.
Option(open, wave) ==
  [name |-> open.name, qos |-> open.qos, ceiling |-> open.ceiling, shards |-> wave.shards, minutes |-> wave.minutes]
Options(open, padded, snap, policy, allowed) ==
  SelectSeq([k \in DOMAIN open |->
               Option(open[k], OneWave(padded, policy, open[k].room, Least(allowed, snap.quota.maxJobs[open[k].qos]), open[k].ceiling))],
            LAMBDA o : o.minutes <= o.ceiling)

\* What runs at once is what the quota holds now, and at least one task.
PlanWith(chosen, parts, cost, snap, now, open) ==
  LET throttle == Min({Len(chosen.shards), Most(1, now), snap.quota.maxJobs[chosen.qos]})
      running  == Most(1, Least(throttle, FreeSlots(snap, parts, cost)))
  IN  [parts |-> parts, qos |-> chosen.qos, shards |-> chosen.shards, minutes |-> chosen.minutes,
       throttle |-> throttle, room |-> now, top |-> Top(open),
       makespan |-> CeilDiv(Len(chosen.shards), running) * chosen.minutes]

\* The first option with an idle node, else the first.
PlanAmong(options, cost, snap, limit, open) ==
  LET idle   == {k \in DOMAIN options : FreeSlots(snap, {options[k].name}, cost) > 0}
      chosen == options[IF idle = {} THEN 1 ELSE Min(idle)]
  IN  IF options = <<>> THEN NoRoom
      ELSE PlanWith(chosen, Jointly(options, chosen), cost, snap, QuotaSlots(snap, cost, limit, TRUE), open)

MakePlan(seconds, cost, snap, grant, policy, limit) ==
  LET allowed == QuotaSlots(snap, cost, limit, FALSE)
      open    == Open(snap, grant)
  IN  CASE seconds = <<>> -> BadRequest
        [] seconds # <<>> /\ allowed < 1 -> NoRoom
        [] OTHER -> PlanAmong(Options(open, Padded(seconds, policy, open), snap, policy, allowed), cost, snap, limit, open)

Sum(set, of(_)) == FoldSet(LAMBDA x, n : n + of(x), 0, set)

\* headroom(): the ceiling less what every job of the caller's holds, queued or running.
Headroom(snap) ==
  IF snap.quota.ceiling["cpu"] = Unbounded
  THEN FoldLeft(LAMBDA n, node : n + (IF node.schedulable THEN node.free["cpu"] ELSE 0), 0, snap.nodes)
  ELSE Most(0, snap.quota.ceiling["cpu"] - Sum(DOMAIN snap.usage, LAMBDA t : snap.usage[t].cpu))

\* plan_on()
WithFiles(plan, snap) == IF ~Refused(plan) /\ snap.inodes < FilesPerRun THEN NoRoom ELSE plan
PlanOn(grant, snap, seconds, cost, policy) ==
  IF Headroom(snap) < cost.need["cpu"] THEN NoRoom
  ELSE WithFiles(MakePlan(seconds, cost, snap, grant, policy, Headroom(snap)), snap)

\* grantable_gb(): the most memory that one item may ask for.
Grantable(snaps) == Max({snaps[k].quota.ceiling["mem"] : k \in DOMAIN snaps})

\* live_throttle()
LiveThrottle(snap, cost, running, unfinished, maxJobs) ==
  LET free == IF \A d \in Dims : snap.quota.ceiling[d] = Unbounded
              THEN Headroom(snap) \div cost.need["cpu"]
              ELSE QuotaSlots(snap, cost, Unbounded, TRUE)
  IN  Most(1, Min({unfinished, running + free, maxJobs}))

\* rethrottled(): of the bands [mem, running, unfinished], heaviest first, what each may
\* run now; what one adds is charged before the next is sized. 0 for one that ended.
Charged(snap, extra, need) == [snap EXCEPT !.quota.used = [d \in Dims |-> @[d] + extra * need[d]]]
RethrottledOne(held, band) ==
  LET need  == [held.need EXCEPT !["mem"] = band.mem]
      tasks == LiveThrottle(held.snap, [need |-> need], band.running, band.unfinished, held.maxJobs)
  IN  IF band.unfinished = 0 THEN [held EXCEPT !.tasks = Append(@, 0)]
      ELSE [held EXCEPT !.tasks = Append(@, tasks), !.snap = Charged(@, Most(0, tasks - band.running), need)]
Rethrottled(snap, bands, cost, maxJobs) ==
  FoldLeft(RethrottledOne, [snap |-> snap, need |-> cost.need, maxJobs |-> maxJobs, tasks |-> <<>>], bands).tasks

\* Mutant: the next band plans on the queue as it was read.
SpendNothing(snap, qos, tasks) == snap
\* spend(): what the next band of a round plans on.
Spend(snap, qos, tasks) == [snap EXCEPT !.quota.queued[qos] = @ + tasks]

\* run._rewalled(): the wall of the balanced shards, never longer than it was.
Rewalled(plan, shards, seconds, policy) ==
  LET minutes == Least(plan.minutes, Wall([k \in DOMAIN seconds |-> seconds[k] * policy.safety], shards))
  IN  [plan EXCEPT !.shards = shards, !.minutes = minutes, !.makespan = (@ \div plan.minutes) * minutes]

-----------------------------------------------------------------------------
\* The ranges follow one another from the first item to the last, none empty.
Cut(ranges, n) ==
  /\ ranges # <<>> /\ ranges[1][1] = 0 /\ Last(ranges)[2] = n
  /\ \A k \in DOMAIN ranges : ranges[k][1] < ranges[k][2]
  /\ \A k \in DOMAIN ranges : k > 1 => ranges[k][1] = ranges[k - 1][2]

\* plan.py:9-41: a plan runs every item once; its wall holds each shard and is one
\* that every partition it asks for grants under its QOS; the array is one that
\* the queue takes, and what it starts at once is free of the quota, or one task.
PlanKeepsItsLimits(seconds, cost, snap, grant, policy, plan) ==
  Refused(plan) \/
  LET padded == Padded(seconds, policy, Open(snap, grant))
  IN  /\ Cut(plan.shards, Len(seconds))
      /\ Slowest(padded, plan.shards) <= plan.minutes * 60
      /\ \A p \in plan.parts :
           /\ snap.parts[p].up /\ plan.minutes <= snap.parts[p].minutes
           /\ plan.minutes <= snap.quota.minutes[plan.qos]
           /\ (IF p \in DOMAIN grant.qos THEN grant.qos[p] ELSE snap.quota.defaultQos) = plan.qos
      /\ Len(plan.shards) <= Least(policy.maxArray, SubmitRoom(snap.quota, plan.qos))
      /\ plan.throttle <= Least(Len(plan.shards), snap.quota.maxJobs[plan.qos])
      /\ plan.throttle = 1 \/ \A d \in Dims : plan.throttle * cost.need[d] <= Left(snap.quota, d)

\* gather.py:234-242: while a round runs, what all its bands add is free of the quota once, but for the
\* one task that a band is never held below; and none is held below what runs of it.
RoomIsSpentOnce(snap, bands, cost, maxJobs) ==
  \E tasks \in {Rethrottled(snap, bands, cost, maxJobs)} :
    LET adds   == {k \in DOMAIN bands : tasks[k] > Most(1, bands[k].running)}
        need(k) == [cost.need EXCEPT !["mem"] = bands[k].mem]
    IN  /\ \A d \in Dims : Sum(adds, LAMBDA k : (tasks[k] - bands[k].running) * need(k)[d]) <= Left(snap.quota, d)
        /\ \A k \in DOMAIN bands :
             tasks[k] >= Least(bands[k].running, maxJobs) /\ (bands[k].unfinished > 0 => tasks[k] > 0)

\* run.py:310-318: the items of the balanced shards are those of the plan, each
\* once, no bin is empty, and the wall the plan asked for still holds every shard.
BalanceStaysInTheWall(seconds, shards, balanced) ==
  LET again == [k \in DOMAIN balanced.order |-> seconds[balanced.order[k]]]
  IN  /\ ToSet(balanced.order) = DOMAIN seconds /\ Len(balanced.order) = Len(seconds)
      /\ Len(balanced.shards) = Len(shards) /\ Cut(balanced.shards, Len(seconds))
      /\ Slowest(again, balanced.shards) <= Slowest(seconds, shards)
=============================================================================
