-------------------------------- MODULE Ranking --------------------------------
(***************************************************************************)
(* In which order a host takes waiting work: compute/model.py, priority.py *)
(* and the order in which a calculation's units run: compute/graph.py.     *)
(* All pure; times are whole hours.                                        *)
(***************************************************************************)
EXTENDS Integers, SequencesExt, FiniteSetsExt, Functions

-----------------------------------------------------------------------------
(* A schedule: [classes: class -> base, aging, boosts: label -> value,     *)
(* servedFirst, oldestFirst: sequence and set of classes, priorCost,       *)
(* starve: class -> hours].                                                *)
(* A candidate: [id, repo, kind, since, labels, origin, session, needs].   *)

\* Schedule: what the family declares unless a repository says otherwise.
Family ==
  LET bases == [integration |-> 100, pr |-> 60, feature |-> 45, branch |-> 30, request |-> 20]
      hours == [integration |-> 6, pr |-> 12, feature |-> 18, branch |-> 24, request |-> 48]
  IN  [classes |-> bases, aging |-> 10, starve |-> hours, boosts |-> [l \in {"priority:user"} |-> 1000],
       servedFirst |-> <<"integration", "pr">>, oldestFirst |-> {"pr"}, priorCost |-> 4]

\* Priority.matches(): a subject nobody resolved, "", matches nothing.
Matches(priority, c) ==
  \/ c.origin # "" /\ c.origin \in priority.logins
  \/ c.session # "" /\ c.session \in priority.sessions
  \/ c.repo \in priority.repos

Boost(c, schedule) == SumFunctionOnSet(schedule.boosts, c.labels \cap DOMAIN schedule.boosts)
Wait(c, now) == Max({0, now - c.since})
Value(c, schedule, now) == schedule.classes[c.kind] + Boost(c, schedule) + schedule.aging * Wait(c, now)

\* The hours of the last full run; nothing measured is the prior.
ExpectedCost(measured, prior, cores) == IF measured > 0 THEN measured \div Max({1, cores}) ELSE prior

\* weight * value / cost, in `unit`s that every cost divides.
Score(c, how, now) ==
  LET cost == IF c.repo \in DOMAIN how.cost THEN how.cost[c.repo] ELSE how.schedule[c.repo].priorCost
  IN  how.weight[c.repo] * Value(c, how.schedule[c.repo], now) * (how.unit \div cost)

\* _tier(): the index of a class that is served first, the rest after them; within it
\* the age, a time far above every score, or the score.
Tier(c, schedule) ==
  LET first == schedule.servedFirst
  IN  IF Contains(first, c.kind) THEN CHOOSE i \in DOMAIN first : first[i] = c.kind ELSE Len(first) + 1
Epoch == 1000000
Within(c, how, now) ==
  IF c.kind \in how.schedule[c.repo].oldestFirst THEN Epoch + c.since ELSE -Score(c, how, now)

\* Mutant: a wait adds nothing.
SortKeyYoung(c, how, now) ==
  LET schedule == how.schedule[c.repo]
  IN  <<IF Matches(how.priority, c) THEN 0 ELSE 1, IF Boost(c, schedule) > 0 THEN 0 ELSE 1, Tier(c, schedule),
        Within(c, how, c.since), c.since, c.id>>
SortKey(c, how, now) ==
  LET schedule == how.schedule[c.repo]
  IN  <<IF Matches(how.priority, c) THEN 0 ELSE 1, IF Boost(c, schedule) > 0 THEN 0 ELSE 1, Tier(c, schedule),
        Within(c, how, now), c.since, c.id>>
Precedes(k, l) == \E i \in DOMAIN k : k[i] < l[i] /\ \A j \in 1 .. i - 1 : k[j] = l[j]
Rank(candidates, how, now) ==
  SetToSortSeq(candidates, LAMBDA a, b : Precedes(SortKey(a, how, now), SortKey(b, how, now)))

\* starved(): who is blocked, and has waited past what its class may.
Starved(ranked, blocked, how, now) ==
  {c \in Range(ranked) \cap blocked :
     LET hours == how.schedule[c.repo].starve
     IN  c.kind \in DOMAIN hours /\ Wait(c, now) > hours[c.kind]}

-----------------------------------------------------------------------------
(* A graph: [unit -> the units whose outputs it reads].                     *)

Absent(graph) == {u \in DOMAIN graph : ~(graph[u] \subseteq DOMAIN graph)}

\* Mutant: what is ready is not asked of every unit it reads.
OrderAny(graph) ==
  LET ready(done) == {u \in DOMAIN graph \ Range(done) : graph[u] = {} \/ graph[u] \cap Range(done) # {}}
      order[k \in 0 .. Cardinality(DOMAIN graph)] ==
        IF k = 0 THEN <<>> ELSE order[k - 1] \o SetToSortSeq(ready(order[k - 1]), <)
  IN  order[Cardinality(DOMAIN graph)]
\* Graph.order(): what is ready, in rounds; a cycle leaves some out (GraphRefused).
Order(graph) ==
  LET ready(done) == {u \in DOMAIN graph \ Range(done) : graph[u] \subseteq Range(done)}
      order[k \in 0 .. Cardinality(DOMAIN graph)] ==
        IF k = 0 THEN <<>> ELSE order[k - 1] \o SetToSortSeq(ready(order[k - 1]), <)
  IN  order[Cardinality(DOMAIN graph)]
Refused(graph) == Absent(graph) # {} \/ Len(Order(graph)) < Cardinality(DOMAIN graph)

\* Graph.dependants(): the frontier grows until it adds nothing.
Dependants(graph, name) ==
  LET grown[k \in 0 .. Cardinality(DOMAIN graph)] ==
        IF k = 0 THEN [found |-> {}, frontier |-> {name}]
        ELSE LET g    == grown[k - 1]
                 next == {u \in DOMAIN graph : graph[u] \cap g.frontier # {}} \ g.found
             IN  [found |-> g.found \cup next, frontier |-> next]
  IN  grown[Cardinality(DOMAIN graph)].found

-----------------------------------------------------------------------------
(* What they promise.                                                      *)

\* model.py:179, priority.py:12-19: what the host favours, and what a user boosted, comes
\* first whatever waits; and outside the classes that are served strictly first or by
\* age, who has waited longer by more than what the other's class and cost are worth
\* precedes it, so that no newcomer of those classes can pass it for ever.
AgingBringsForward(candidates, how, now) ==
  \E ranked \in {Rank(candidates, how, now)} :
    /\ Len(ranked) = Cardinality(candidates)
    /\ \A i, j \in DOMAIN ranked : i < j =>
         LET a == ranked[i]
             b == ranked[j]
             s == how.schedule[b.repo]
         IN  /\ Matches(how.priority, b) => Matches(how.priority, a)
             /\ \/ Matches(how.priority, a) /\ ~Matches(how.priority, b)
                \/ Boost(a, how.schedule[a.repo]) > 0 \/ Boost(b, s) = 0
             /\ (/\ Matches(how.priority, a) = Matches(how.priority, b)
                 /\ a.repo = b.repo /\ Boost(a, s) = Boost(b, s)
                 /\ ~Contains(s.servedFirst, a.kind) /\ s.oldestFirst \cap {a.kind, b.kind} = {})
                => s.aging * (a.since - b.since) <= s.classes[a.kind] - s.classes[b.kind]

\* model.py:178-182: what is reported starved was blocked and not outranked: nothing of its
\* repository that is neither boosted, favoured nor served first goes before it, unless it
\* came no more than `slack` hours after it.
StarvedIsNotOutranked(candidates, how, now, slack) ==
  \E ranked \in {Rank(candidates, how, now)} :
    \A c \in Starved(ranked, candidates, how, now) : \A i, j \in DOMAIN ranked :
      ranked[j] = c /\ i < j /\ ranked[i].repo = c.repo =>
        \/ Matches(how.priority, ranked[i]) \/ Boost(ranked[i], how.schedule[c.repo]) > 0
        \/ Contains(how.schedule[c.repo].servedFirst, ranked[i].kind)
        \/ ranked[i].since - c.since <= slack

\* graph.py:27: a unit runs after all it reads, and a graph is refused exactly when no
\* order does that; whoever must run again after a unit is after it in every order.
UnitsRunAfterWhatTheyRead(graph) ==
  LET after(order) ==
        \A i \in DOMAIN order : graph[order[i]] \subseteq {order[j] : j \in 1 .. i - 1}
  IN  /\ Refused(graph) <=> ~\E order \in SetToSeqs(DOMAIN graph) : after(order)
      /\ ~Refused(graph) =>
           /\ after(Order(graph)) /\ Range(Order(graph)) = DOMAIN graph
           /\ \A u \in DOMAIN graph :
                Dependants(graph, u) = {v \in DOMAIN graph \ {u} : \A order \in SetToSeqs(DOMAIN graph) :
                                          after(order) => \E i, j \in DOMAIN order : order[i] = u /\ order[j] = v /\ i < j}
=============================================================================
