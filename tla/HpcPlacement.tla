----------------------------- MODULE HpcPlacement -----------------------------
(***************************************************************************)
(* Which accounts a batch goes to: allocation.py (a session's share),      *)
(* region.py (the account set apart for large tasks), plan.allocate(),     *)
(* span.py, affinity.py and jobs.tiered(), pure over one snapshot of each  *)
(* account.  A candidate is [grant, snap]; the candidates are a sequence.  *)
(***************************************************************************)
EXTENDS HpcPlan

CONSTANTS Untagged, Borrow   \* the stream of jobs without a tag; the opt-in research->verify

-----------------------------------------------------------------------------
(* allocation.py                                                           *)

NoHeld == [tasks |-> 0, cpu |-> 0, mem |-> 0]
Plus(h, g) == [tasks |-> h.tasks + g.tasks, cpu |-> h.cpu + g.cpu, mem |-> h.mem + g.mem]
HeldBy(snaps, stream) ==
  FoldLeft(LAMBDA h, s : IF stream \in DOMAIN s.usage THEN Plus(h, s.usage[stream]) ELSE h, NoHeld, snaps)

\* active(): what each stream holds over every account.
Active(snaps) == [t \in UNION {DOMAIN snaps[k].usage : k \in DOMAIN snaps} |-> HeldBy(snaps, t)]

Pool(snaps, d) ==
  IF \E k \in DOMAIN snaps : snaps[k].quota.ceiling[d] = Unbounded THEN Unbounded
  ELSE Total([k \in DOMAIN snaps |-> snaps[k].quota.ceiling[d]])

\* fair(): the smallest demands are met, the others split what is left.
Fair(capacity, demands) ==
  LET order == SetToSortSeq(DOMAIN demands, LAMBDA m, n : demands[m] < demands[n])
      left(k) == capacity - Total([j \in 1 .. k - 1 |-> demands[order[j]]])
      over(k) == demands[order[k]] * (Len(order) + 1 - k) > left(k)
      cut     == {k \in DOMAIN order : over(k)}
      level   == left(Min(cut)) \div (Len(order) + 1 - Min(cut))
  IN  IF capacity = Unbounded \/ cut = {} THEN demands
      ELSE [n \in DOMAIN demands |->
              IF \E k \in DOMAIN order : order[k] = n /\ k < Min(cut) THEN demands[n] ELSE level]

\* derived(): the max-min share of a stream whose demand is unbounded, of the pool
\* less what each named session uses of its own share.
Derived(name, snaps, fixed, d) ==
  LET active == Active(snaps)
      amount(h) == IF d = "cpu" THEN h.cpu ELSE h.mem
      used(n) == IF n \in DOMAIN active THEN Least(fixed[n][d], amount(active[n])) ELSE 0
      pool   == IF Pool(snaps, d) = Unbounded THEN Unbounded ELSE Most(0, Pool(snaps, d) - Sum(DOMAIN fixed, used))
      others == DOMAIN active \ ({name} \cup DOMAIN fixed)
  IN  Fair(pool, [n \in {name} \cup others |-> IF n = name THEN Unbounded ELSE amount(active[n])])[name]

\* The override record: until it expires it fixes the shares it names, and may
\* allow a borrow.  session_for(), resolve(), borrowing().
NoRecord == [live |-> FALSE, sessions |-> [n \in {} |-> 0], borrow |-> {}]
NoSession == [name |-> Untagged, capped |-> FALSE, caps |-> [d \in Dims |-> 0],
              fixed |-> [n \in {} |-> 0], tasks |-> Unbounded]
SessionFor(name, record) ==
  LET bare == [NoSession EXCEPT !.name = name]
  IN  CASE name = Untagged -> NoSession
        [] name # Untagged /\ ~record.live -> bare
        [] name # Untagged /\ record.live /\ name \in DOMAIN record.sessions ->
             [bare EXCEPT !.capped = TRUE, !.caps = record.sessions[name]]
        [] OTHER -> [bare EXCEPT !.fixed = record.sessions]
Borrowing(record) == record.live /\ Borrow \in record.borrow

\* What the forge answers: no answer, or a record, of which parse() refuses a text without a
\* timezone or with a direction that is none.
NoAnswer == [bad |-> "answer"]
Malformed == [bad |-> "text"]
Usable(answer) == "bad" \notin DOMAIN answer
Borrows == {Borrow, "verify->research"}
Parse(text, now) ==
  IF text.zoned /\ text.borrow \subseteq Borrows
  THEN [live |-> now < text.expires, sessions |-> text.sessions, borrow |-> text.borrow] ELSE Malformed

\* resolve(): a session that is capped stays, a forge that does not answer leaves the share
\* derived, and a record that is malformed is a defect of its own.
ResolvedSession(session, answer) ==
  CASE session.name = Untagged \/ session.capped -> session
    [] session.name # Untagged /\ ~session.capped /\ answer = Malformed -> BadRequest
    [] OTHER -> SessionFor(session.name, IF answer = NoAnswer THEN NoRecord ELSE answer)

\* affinity.resolve(): who verifies, when the forge says so; what cannot be read of the
\* record borrows nothing.
NoAffinity == [verify |-> {}, borrow |-> FALSE]
AffinityOf(held, answer) ==
  IF ~Usable(held) THEN NoAffinity ELSE [verify |-> held.verify, borrow |-> Usable(answer) /\ Borrowing(answer)]

\* session_room(): the tasks a session may still start, over all accounts.
Cap(session, snaps) ==
  [d \in Dims |-> IF session.capped THEN session.caps[d] ELSE Derived(session.name, snaps, session.fixed, d)]
LeftOf(cap, tasks, mine, cost) ==
  Min({IF tasks = Unbounded THEN Unbounded ELSE tasks - mine.tasks,
       IF cap["cpu"] = Unbounded THEN Unbounded ELSE (cap["cpu"] - mine.cpu) \div cost.need["cpu"],
       IF cap["mem"] = Unbounded THEN Unbounded ELSE (cap["mem"] - mine.mem) \div cost.need["mem"]})
SessionRoom(session, snaps, cost) ==
  IF session.name = Untagged THEN Unbounded
  ELSE Most(0, LeftOf(Cap(session, snaps), session.tasks, HeldBy(snaps, session.name), cost))

-----------------------------------------------------------------------------
(* region.py                                                               *)

NoPaging == [largePages |-> 0]

\* Paging.pages(), Paging.size()
Pages(paging, need) == Max({1} \cup {CeilDiv(need[d], paging.page[d]) : d \in Dims})
Size(paging, need) ==
  IF Pages(paging, need) = 1 THEN "small" ELSE IF Pages(paging, need) > paging.largePages THEN "large" ELSE "medium"

WaitsLarge(snap, paging) == \E need \in snap.pending : Pages(paging, need) > paging.largePages

\* Mutant: the region is the emptiest account, whatever waits.
RegionRoams(snaps, paging) ==
  IF Len(snaps) <= 1 THEN 0
  ELSE CHOOSE k \in DOMAIN snaps : \A j \in DOMAIN snaps :
         LET a == Left(snaps[k].quota, "mem") b == Left(snaps[j].quota, "mem") IN a > b \/ (a = b /\ k <= j)

\* region(): where a large task waits, else the account with the most memory free;
\* 0 when there is but one.
Region(snaps, paging) ==
  LET waiting == {k \in DOMAIN snaps : WaitsLarge(snaps[k], paging)}
      free(k) == Left(snaps[k].quota, "mem")
  IN  IF Len(snaps) <= 1 THEN 0
      ELSE IF waiting # {} THEN Min(waiting)
      ELSE CHOOSE k \in DOMAIN snaps : \A j \in DOMAIN snaps : free(k) > free(j) \/ (free(k) = free(j) /\ k <= j)

\* Mutant: what is small and can be moved goes to the region at any time.
MayPlaceAnyway(k, minutes, cost, snaps, paging, rerunSafe) ==
  LET where == Region(snaps, paging)
      size  == Size(paging, cost.need)
  IN  \/ paging = NoPaging \/ where = 0
      \/ size = "large" /\ k = where
      \/ size # "large" /\ k # where
      \/ size = "small" /\ k = where /\ rerunSafe /\ minutes <= paging.movable

\* may_place(): large in the region only, and there else only what is small and
\* can be moved, while no large task waits.
MayPlace(k, minutes, cost, snaps, paging, rerunSafe) ==
  LET where == Region(snaps, paging)
      size  == Size(paging, cost.need)
  IN  \/ paging = NoPaging \/ where = 0
      \/ size = "large" /\ k = where
      \/ size # "large" /\ k # where
      \/ /\ size = "small" /\ k = where /\ rerunSafe /\ minutes <= paging.movable
         /\ ~WaitsLarge(snaps[where], paging)

-----------------------------------------------------------------------------
(* plan.allocate() and span.py.  How a batch is asked for: `ask` is        *)
(* [seconds, cost, policy, session, paging, rerunSafe].                    *)

Snaps(candidates) == [k \in DOMAIN candidates |-> candidates[k].snap]
Planned(candidate, seconds, ask) == PlanOn(candidate.grant, candidate.snap, seconds, ask.cost, ask.policy)
Refusals(plans) == IF \E k \in DOMAIN plans : plans[k] = BadRequest THEN BadRequest ELSE NoRoom

LexLess(a, b) == \E k \in DOMAIN a : a[k] < b[k] /\ \A j \in 1 .. k - 1 : a[j] = b[j]

\* The candidates that can take the whole batch.
Able(candidates, plans, ask) ==
  {k \in DOMAIN candidates : ~Refused(plans[k]) /\
     MayPlace(k, plans[k].minutes, ask.cost, Snaps(candidates), ask.paging, ask.rerunSafe)}

Plans(candidates, ask) == [k \in DOMAIN candidates |-> Planned(candidates[k], ask.seconds, ask)]
Shared(plan, capped) == [plan EXCEPT !.room = Least(@, capped), !.throttle = Least(@, Most(1, capped))]

\* The best of the plans that may be placed: with room, first to finish, best fit.
Best(candidates, ask, plan) ==
  LET fit(k)  == IF ask.paging = NoPaging THEN 0 - Headroom(candidates[k].snap) ELSE Left(candidates[k].snap.quota, "mem")
      rank(k) == <<IF plan[k].room = 0 THEN 1 ELSE 0, plan[k].makespan, fit(k), 0 - candidates[k].grant.priority, k>>
      best    == CHOOSE k \in DOMAIN plan : \A j \in DOMAIN plan \ {k} : LexLess(rank(k), rank(j))
  IN  [on |-> best, plan |-> plan[best]]
BestOf(candidates, ask, plans, able) ==
  LET capped == SessionRoom(ask.session, Snaps(candidates), ask.cost)
  IN  IF able = {} THEN Refusals(plans) ELSE Best(candidates, ask, [k \in able |-> Shared(plans[k], capped)])
AllocateAmong(candidates, ask, plans) == BestOf(candidates, ask, plans, Able(candidates, plans, ask))

\* allocate(): the one grant that has room and finishes first, held to the share
\* of the session: without room it waits, one task wide.
Allocate(candidates, ask) == AllocateAmong(candidates, ask, Plans(candidates, ask))

\* split(): consecutive ranges with about their share of the whole time, each cut
\* where the running sum is nearest to its target.
Split(seconds, weights) ==
  LET whole   == Total(weights)
      sum(k)  == Held(seconds, <<0, k>>)
      off(k, target) == LET d == sum(k) * whole - target IN IF d < 0 THEN 0 - d ELSE d
      nearest(from, target) ==
        CHOOSE k \in from .. Len(seconds) : \A j \in from .. Len(seconds) :
          off(k, target) < off(j, target) \/ (off(k, target) = off(j, target) /\ k <= j)
      next(cut, k) == Append(cut, nearest(Last(cut), Total(seconds) * Total(SubSeq(weights, 1, k))))
      ends == FoldLeft(next, <<0>>, [k \in 1 .. Len(weights) - 1 |-> k]) \o <<Len(seconds)>>
  IN  [k \in DOMAIN weights |-> <<ends[k], ends[k + 1]>>]

\* The throughput of each plan, up to a factor they share: one over its makespan.
Weights(makespans) ==
  [k \in DOMAIN makespans |-> FoldLeft(LAMBDA a, b : a * b, 1, [j \in DOMAIN makespans |-> IF j = k THEN 1 ELSE makespans[j]])]

\* The slices of a spread over these candidates, without the empty ones.
SlicesAt(candidates, able, cut, ask) ==
  SelectSeq([k \in DOMAIN able |->
               [on |-> able[k], items |-> cut[k],
                plan |-> IF cut[k][1] = cut[k][2] THEN NoRoom
                         ELSE Planned(candidates[able[k]], SubSeq(ask.seconds, cut[k][1] + 1, cut[k][2]), ask)]],
            LAMBDA s : s.items[1] # s.items[2])
Slices(candidates, able, makespans, ask) == SlicesAt(candidates, able, Split(ask.seconds, Weights(makespans)), ask)

\* Mutant: a slice may be any time short, and the spread needs no session's room.
WorthwhileAlways(slices, alone, capped, ask) ==
  /\ \A k \in DOMAIN slices : ~Refused(slices[k].plan)
  /\ Max({slices[k].plan.makespan : k \in DOMAIN slices}) < alone.plan.makespan

\* A spread is kept when each slice holds a shortest shard, the session may start
\* so many tasks, and the slowest slice ends before the one grant's plan.
Worthwhile(slices, alone, capped, ask) ==
  /\ \A k \in DOMAIN slices : Held(ask.seconds, slices[k].items) * ask.policy.safety >= ask.policy.shardMin * 60
  /\ \A k \in DOMAIN slices : ~Refused(slices[k].plan)
  /\ Total([k \in DOMAIN slices |-> slices[k].plan.throttle]) <= capped
  /\ Max({slices[k].plan.makespan : k \in DOMAIN slices}) < alone.plan.makespan

\* span(): every grant that makes the batch finish sooner, or the one fastest.
Faster(slices, alone, able, candidates, ask) ==
  IF Len(able) > 1 /\ Worthwhile(slices, alone, SessionRoom(ask.session, Snaps(candidates), ask.cost), ask)
  THEN [placed |-> slices]
  ELSE [placed |-> <<[on |-> alone.on, items |-> <<0, Len(ask.seconds)>>, plan |-> alone.plan]>>]
SpanOver(candidates, ask, alone, plans, able) ==
  IF Refused(alone) THEN alone
  ELSE Faster(Slices(candidates, able, [k \in DOMAIN able |-> plans[able[k]].makespan], ask), alone, able, candidates, ask)
SpanAmong(candidates, ask, plans) ==
  SpanOver(candidates, ask, AllocateAmong(candidates, ask, plans), plans, SetToSortSeq(Able(candidates, plans, ask), <))
Span(candidates, ask) == SpanAmong(candidates, ask, Plans(candidates, ask))

-----------------------------------------------------------------------------
(* affinity.py and jobs.tiered().                                          *)

\* The placements with their grants, as the batch is recorded.
Named(candidates, answer) ==
  IF Refused(answer) THEN answer
  ELSE [placed |-> [k \in DOMAIN answer.placed |->
          [grant |-> candidates[answer.placed[k].on].grant, items |-> answer.placed[k].items, plan |-> answer.placed[k].plan]]]
Spread(candidates, ask) ==
  IF candidates = <<>> THEN BadRequest ELSE Named(candidates, Span(candidates, ask))

\* affinity.place(): research goes to no verify account, unless it may borrow.
Place(candidates, affinity, ask) ==
  LET own == SelectSeq(candidates, LAMBDA c : c.grant.user \notin affinity.verify)
  IN  IF ~affinity.borrow /\ own = <<>> /\ candidates # <<>> THEN NoRoom
      ELSE Spread(IF affinity.borrow THEN candidates ELSE own, ask)

\* _holding(): the grants whose longest wall holds an item.
Holds(plan, ask) == ~Refused(plan) /\ ask.cost.seconds * ask.policy.safety <= plan.top * 60
Holding(candidates, ask) ==
  SelectSeq(candidates, LAMBDA c : Holds(Planned(c, [k \in DOMAIN ask.seconds |-> ask.cost.seconds], ask), ask))

\* Mutant: a free grant that does not answer is taken to hold nothing.
OfferSilent(candidates, tier, answering, holders, answers) ==
  LET mine(list) == SelectSeq(list, LAMBDA c : c \in Range(candidates))
      paid       == SelectSeq(candidates, LAMBDA c : c.grant.costed /\ c.grant \in answers)
  IN  CASE mine(holders) # <<>> -> [list |-> mine(holders)]
        [] OTHER -> IF paid = <<>> THEN NoRoom ELSE [list |-> paid]

\* The grants a batch is offered: the free ones that hold it, else those that
\* answer; costed ones when every free one has answered and none holds it.
Offer(candidates, tier, answering, holders, answers) ==
  LET mine(list) == SelectSeq(list, LAMBDA c : c \in Range(candidates))
      costed     == SelectSeq(candidates, LAMBDA c : c.grant.costed)
      paid       == SelectSeq(costed, LAMBDA c : c.grant \in answers)
  IN  CASE tier = <<>> -> [list |-> paid]
        [] tier # <<>> /\ holders # <<>> ->
             IF mine(holders) = <<>> THEN BadRequest ELSE [list |-> mine(holders)]
        [] tier # <<>> /\ holders = <<>> /\ costed = <<>> ->
             IF mine(answering) = <<>> THEN NoRoom ELSE [list |-> mine(answering)]
        [] OTHER ->
             IF Len(answering) < Len(tier) \/ paid = <<>> THEN NoRoom ELSE [list |-> paid]
OfferAmong(candidates, tier, answering, answers, ask) ==
  Offer(candidates, tier, answering, Holding(answering, ask), answers)

\* tiered(): `tier` is every free grant of the machine, `answers` the grants that
\* answer.  A costed grant takes only what every free one has refused.
PlaceOffer(offer, affinity, ask) == IF Refused(offer) THEN offer ELSE Place(offer.list, affinity, ask)
Tiered(candidates, tier, answers, affinity, ask) ==
  PlaceOffer(OfferAmong(candidates, tier, SelectSeq(tier, LAMBDA c : c.grant \in answers), answers, ask), affinity, ask)

-----------------------------------------------------------------------------
(* run.submit_round(): one array for each memory class of the items, all   *)
(* on the grant of the heaviest.  `ask.seconds` is what each item is       *)
(* estimated to take and `mem` what it asks.                               *)

\* memory_band()
MemoryBand(mem) == CHOOSE k \in 0 .. mem : 2^k >= mem /\ (k = 0 \/ 2^(k - 1) < mem)
HeldTo(mem, candidates) == [i \in DOMAIN mem |-> Least(mem[i], Grantable(Snaps(candidates)))]
Classes(held) ==
  LET keys == SetToSortSeq({MemoryBand(held[i]) : i \in DOMAIN held}, >)
  IN  [k \in DOMAIN keys |-> SetToSortSeq({i \in DOMAIN held : MemoryBand(held[i]) = keys[k]}, <)]

\* A round as it is planned, and one band of it: the shards of the balanced items follow
\* those of the bands before it, and what they queue is spent.
NoBands(candidates) == [on |-> 0, left |-> candidates, order |-> <<>>, bands |-> <<>>]
WithBand(round, on, members, mem, plan, seconds, policy) ==
  LET even == Balance(seconds, plan.shards)
      walled == Rewalled(plan, even.shards, [k \in DOMAIN seconds |-> seconds[even.order[k]]], policy)
      base == Len(round.order)
      placed == [k \in DOMAIN even.shards |-> <<even.shards[k][1] + base, even.shards[k][2] + base>>]
  IN  [on |-> on, left |-> [round.left EXCEPT ![on].snap = Spend(@, plan.qos, Len(even.shards))],
       order |-> round.order \o [k \in DOMAIN even.order |-> members[even.order[k]]],
       bands |-> Append(round.bands, [mem |-> mem, plan |-> [walled EXCEPT !.shards = placed]])]
BandOf(round, members, mem, ask, first) ==
  LET seconds == [k \in DOMAIN members |-> ask.seconds[members[k]]]
      options == IF round.on = 0 THEN round.left ELSE <<round.left[round.on]>>
      banded(answer) ==
        CASE Refused(answer) -> answer
          [] ~Refused(answer) /\ first /\ answer.plan.room = 0 -> NoRoom
          [] OTHER -> WithBand(round, IF round.on = 0 THEN answer.on ELSE round.on, members, mem, answer.plan, seconds, ask.policy)
  IN  banded(Allocate(options, [ask EXCEPT !.seconds = seconds, !.cost.need["mem"] = mem, !.rerunSafe = TRUE]))
Round(candidates, mem, ask, first) ==
  LET held == HeldTo(mem, candidates)
      next(round, members) ==
        IF Refused(round) THEN round ELSE BandOf(round, members, Max({held[i] : i \in Range(members)}), ask, first)
  IN  FoldLeft(next, NoBands(candidates), Classes(held))

-----------------------------------------------------------------------------
\* span.py:1-17: every item of the batch is in one slice, the slices follow one
\* another, each is planned on its own grant, and a spread of several is strictly
\* faster than the one grant would be and within what the session may start.
SpanRunsTheBatchOnce(candidates, ask, answer) ==
  Refused(answer) \/
  LET placed == answer.placed
      alone  == Allocate(candidates, ask)
  IN  /\ Cut([k \in DOMAIN placed |-> placed[k].items], Len(ask.seconds))
      /\ IsInjective([k \in DOMAIN placed |-> placed[k].on])
      /\ \A k \in DOMAIN placed :
           /\ Cut(placed[k].plan.shards, placed[k].items[2] - placed[k].items[1])
           /\ MayPlace(placed[k].on, placed[k].plan.minutes, ask.cost, Snaps(candidates), ask.paging, ask.rerunSafe)
      /\ Len(placed) > 1 =>
           /\ \A k \in DOMAIN placed : placed[k].plan.makespan < alone.plan.makespan
           /\ Total([k \in DOMAIN placed |-> placed[k].plan.throttle])
                <= SessionRoom(ask.session, Snaps(candidates), ask.cost)

\* allocation.py:12-15: no stream is given more than it asks for, nothing that is
\* asked for is left idle, and whoever is short has as much as anybody, up to what
\* a division leaves over.
FairIsMaxMin(capacity, demands, shares) ==
  LET given == Sum(DOMAIN shares, LAMBDA n : shares[n])
      asked == Sum(DOMAIN demands, LAMBDA n : demands[n])
      short == {n \in DOMAIN shares : shares[n] < demands[n]}
  IN  /\ \A n \in DOMAIN shares : shares[n] <= demands[n]
      /\ capacity = Unbounded => short = {}
      /\ capacity # Unbounded => Least(capacity, asked) - given \in 0 .. Cardinality(short)
      /\ \A n \in short : \A m \in DOMAIN shares : shares[m] <= shares[n]

\* jobs.py:128-134 and affinity.py:1-10: work is billed only when every free grant
\* of the machine has answered and none of them holds it, costed and free grants
\* never share a batch, and research is on no verify account without the opt-in.
CostedIsTheLast(candidates, tier, answers, held, record, ask, answer) ==
  Refused(answer) \/
  LET grants == {answer.placed[k].grant : k \in DOMAIN answer.placed}
      holds(c) == Holds(Planned(c, [k \in DOMAIN ask.seconds |-> ask.cost.seconds], ask), ask)
  IN  /\ grants \subseteq answers
      /\ (\E g \in grants : g.costed) =>
           /\ \A g \in grants : g.costed
           /\ \A k \in DOMAIN tier : tier[k].grant \in answers /\ ~holds(tier[k])
      /\ Usable(held) => (Usable(record) /\ Borrowing(record)) \/ \A g \in grants : g.user \notin held.verify

\* run.py:207-213, 254-256: every item of a round is in one shard of one band; a band asks
\* the memory of each of its items, as far as a grant gives it, and its wall still holds each
\* shard with its margin; and what all the bands queue under one QOS, its queue takes.
RoundSharesOneRoom(candidates, mem, ask, first) ==
  \E round \in {Round(candidates, mem, ask, first)} :
    Refused(round) \/
    LET plan(b) == round.bands[b].plan
        snap    == candidates[round.on].snap
        under(x) == {b \in DOMAIN round.bands : plan(b).qos = x}
        held    == HeldTo(mem, candidates)
        item    == [k \in DOMAIN round.order |-> ask.seconds[round.order[k]]]
    IN  /\ ToSet(round.order) = DOMAIN mem /\ Len(round.order) = Len(mem)
        /\ Cut(FlattenSeq([b \in DOMAIN round.bands |-> plan(b).shards]), Len(mem))
        /\ \A b \in DOMAIN round.bands : \A s \in Range(plan(b).shards) :
             /\ \A k \in s[1] + 1 .. s[2] : held[round.order[k]] <= round.bands[b].mem
             /\ Held(Padded(item, ask.policy, Open(snap, candidates[round.on].grant)), s) <= plan(b).minutes * 60
        /\ \A x \in DOMAIN snap.quota.queued : Sum(under(x), LAMBDA b : Len(plan(b).shards)) <= SubmitRoom(snap.quota, x)
=============================================================================
