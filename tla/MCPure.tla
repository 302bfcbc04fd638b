-------------------------------- MODULE MCPure --------------------------------
(* One call of a pure function at a time, on every input of small sets.    *)
EXTENDS HpcPlacement, TestCells, TLC

CONSTANTS p, q, slow, fast, here, there, costly, ada, bea, none, borrow, ana, bob, me, you

VARIABLE call

Rnk == INSTANCE Ranking
Dec == INSTANCE Parts
\* Two tests of one file, and one of each of four more, the last in another folder.
PackedFile == [n \in 1 .. 6 |-> IF n = 1 THEN "b" ELSE <<"a", "b", "c", "d", "e", "f">>[n]]
PackedFolder == [x \in Range(PackedFile) |-> IF x = "f" THEN "e2" ELSE "e1"]
Rep == INSTANCE RunReport
Mea == INSTANCE Measured WITH FileOf <- PackedFile, FolderOf <- PackedFolder
Siz == INSTANCE BoxSizes WITH
  Pids <- {me, you}, Anyone <- none, Tools <- {"femm", "jmag"}, Slots <- {"slot:1"}, Checks <- {"femm", "cae"}, MaxUnits <- 20
NoFile == <<"gone">>
FileIs(c) == <<"file", c>>
TheLocks == [sha \in {"c1", "c2"} |-> [i \in {"py1", "py2"} |-> IF i = "py1" THEN "k1" ELSE "k2"]]
Uni == INSTANCE Units WITH
  Gone <- NoFile, Committed <- ("c1" :> [f \in {"a", "b"} |-> IF f = "a" THEN FileIs("x") ELSE NoFile]) @@ ("c2" :> [f \in {"a", "b"} |-> FileIs("x")]),
  LockOf <- TheLocks
Acc == INSTANCE Accounts
Pri == INSTANCE RunPrices WITH Safety <- 2, TaskPrior <- 2, LeastBox <- 2

Seqs(S, n) == UNION {[1 .. k -> S] : k \in 1 .. n}
Both(a, b) == [d \in Dims |-> IF d = "cpu" THEN a ELSE b]
SeqsTo(S, n) == Seqs(S, n) \cup {<<>>}
Whole(n) == Both(n, n)

-----------------------------------------------------------------------------
(* Accounts: two partitions with a wall of 60 and of 20 minutes.           *)

TwoParts == [n \in {p, q} |-> Partition(IF n = p THEN 60 ELSE 20, TRUE, {})]
Nodes(free, n) == <<Node(Whole(n), Whole(n - free), "MIXED", FALSE, {p}), Node(Whole(n), Whole(0), "IDLE", free = 0, {q})>>
\* Beside a job of another account of the login, and one task in the queue of each QOS.
TwoQos(ceiling, submit) ==
  [x \in {slow, fast} |->
     [perUser |-> IF x = slow THEN Both(Unbounded, ceiling) ELSE Whole(1), minutes |-> IF x = slow THEN Unbounded ELSE 30,
      maxSubmit |-> IF x = slow THEN submit ELSE 3, maxJobs |-> IF x = slow THEN Unbounded ELSE 2]]
Quota(ceiling, used, submit) ==
  QuotaOf([account |-> ada, group |-> Whole(ceiling), perUser |-> Whole(Unbounded), qos |-> slow, minutes |-> Unbounded], TwoQos(ceiling, submit),
          <<[account |-> ada, need |-> Whole(used)], [account |-> bea, need |-> Whole(1)]>>, <<slow, fast>>)
Account(free, ceiling, used, submit, usage) ==
  [nodes |-> Nodes(free, 4), parts |-> TwoParts, quota |-> Quota(ceiling, used, submit), usage |-> usage,
   inodes |-> 10, pending |-> {}]
Idle == [t \in {} |-> NoHeld]
Using(stream, n) == [t \in {stream} |-> [tasks |-> n, cpu |-> n, mem |-> n]]
PlainGrant(user) ==
  [user |-> user, costed |-> FALSE, priority |-> 0, partitions |-> <<p, q>>, qos |-> [x \in {q} |-> fast]]
Policy == [shardMin |-> 5, shardMax |-> 15, safety |-> 2, maxArray |-> 4]
CostOf(seconds, need) == [need |-> Whole(need), seconds |-> seconds]

PlanInputs ==
  [op : {"plan"}, seconds : Seqs({60, 240, 2400}, 3), free : {0, 2}, ceiling : {2, 6}, used : {0, 1, 2}, submit : {1, 2, 4, Unbounded}, need : {1, 2}]
SnapOf(c) == Account(c.free, c.ceiling, c.used, c.submit, Using(ada, c.used))
PlanOf(c) == PlanOn(PlainGrant(here), SnapOf(c), c.seconds, CostOf(60, c.need), Policy)

ThrottleInputs ==
  [op : {"throttle"}, bands : Seqs({b \in [mem : 1 .. 2, running : 0 .. 1, unfinished : 0 .. 3] : b.running <= b.unfinished}, 2),
   ceiling : {2, 6}, used : {0, 1, 2}, maxJobs : {2, Unbounded}]

\* A round of up to three items, each with its time and the memory it asks.
RoundInputs ==
  {c \in [op : {"round"}, seconds : Seqs({60, 600}, 3), mem : Seqs({1, 9}, 3), ceiling : {2, 6}, used : {0, 2}, submit : {2, 3, Unbounded}, first : BOOLEAN] :
     Len(c.mem) = Len(c.seconds)}
RoundAccounts(c) ==
  <<[grant |-> PlainGrant(here), snap |-> Account(2, c.ceiling, c.used, c.submit, Using(ada, c.used))],
    [grant |-> PlainGrant(there), snap |-> Account(2, 4, 2, 4, Using(bea, 2))]>>
RoundAsk(c) ==
  [seconds |-> c.seconds, cost |-> CostOf(60, 1), policy |-> Policy, session |-> NoSession, paging |-> NoPaging, rerunSafe |-> FALSE]

BalanceInputs == {c \in [op : {"balance"}, seconds : Seqs({60, 120, 300, 420}, 5), cap : 1 .. 3] : c.cap <= Len(c.seconds)}

\* Two or three accounts, each with its use and ceiling.
SpanInputs ==
  [op : {"span"}, seconds : Seqs({300, 900}, 3) \cup {<<300, 300, 300, 300, 300, 300>>}, used : (0 .. 2) \X {0, 2},
   ceiling : {<<2, 4>>, <<4, 2>>, <<4, 4>>}, session : {ada, bea}, large : BOOLEAN, rerunSafe : BOOLEAN]
OnePage == [page |-> Whole(1), largePages |-> 1, movable |-> 30]
CandidatesOf(c) ==
  [k \in 1 .. 2 |-> [grant |-> PlainGrant(IF k = 1 THEN here ELSE there),
                     snap |-> Account(2, c.ceiling[k], c.used[k], 4, Using(ada, c.used[k]))]]
\* The override gives one session a share of a single page.
BeaOnce == [NoRecord EXCEPT !.live = TRUE, !.sessions = [n \in {bea} |-> Whole(1)]]
AskOf(c) ==
  [seconds |-> c.seconds, cost |-> CostOf(60, IF c.large THEN 2 ELSE 1), policy |-> Policy,
   session |-> ResolvedSession([NoSession EXCEPT !.name = c.session], BeaOnce), paging |-> IF c.large THEN OnePage ELSE NoPaging, rerunSafe |-> c.rerunSafe]

FairInputs == [op : {"fair"}, capacity : 0 .. 12 \cup {Unbounded}, demands : [{ada, bea, none} -> {0, 1, 2, 5, 9, Unbounded}]]

\* Who verifies and what the override record says, as the forge answers.
RecordAt(zoned, ways, now) == Parse([zoned |-> zoned, expires |-> 2, borrow |-> ways, sessions |-> [n \in {} |-> 0]], now)
Forges ==
  {[held |-> NoAnswer, record |-> RecordAt(TRUE, {Borrow}, 1)]}
    \cup {[held |-> [verify |-> v], record |-> RecordAt(TRUE, {Borrow}, now)] : v \in {{here}, {costly}}, now \in {1, 2}}
    \cup {[held |-> [verify |-> {here}], record |-> r] : r \in {NoAnswer, RecordAt(TRUE, {"all"}, 1), RecordAt(TRUE, {"verify->research"}, 1)}}
\* A free account and a costed one; the free one may be a verify account, hold
\* nothing of the work, or not answer.
TierInputs ==
  [op : {"tier"}, seconds : {60, 2400}, cost : {60, 900}, answers : SUBSET {here, there, costly}, tier : SUBSET {here, there},
   mine : SUBSET {here, there, costly}, used : [{here, there} -> {0, 4}], forge : Forges]
GrantOf(user) ==
  [PlainGrant(user) EXCEPT !.costed = (user = costly), !.partitions = IF user = there THEN <<q>> ELSE <<p, q>>]
Given(c, users) ==
  [k \in 1 .. Cardinality(users) |->
     LET u == SetToSortSeq(users, LAMBDA a, b : a = here \/ b = costly)[k]
     IN  [grant |-> GrantOf(u), snap |-> Account(2, 4, IF u = costly THEN 0 ELSE c.used[u], 4, Using(bea, IF u = costly THEN 0 ELSE c.used[u]))]]
Answering(c) == {GrantOf(u) : u \in c.answers}
TierAsk(c) ==
  [seconds |-> <<c.seconds>>, cost |-> CostOf(c.cost, 1), policy |-> Policy, session |-> NoSession, paging |-> NoPaging, rerunSafe |-> FALSE]
TierOf(c) == Tiered(Given(c, c.mine), Given(c, c.tier), Answering(c), AffinityOf(c.forge.held, c.forge.record), TierAsk(c))

-----------------------------------------------------------------------------
\* What was measured of the files and of one test, and what is declared of another.
PeakOf == [x \in Range(PackedFile) |-> CASE x = "b" -> 17 [] x = "c" -> 29 [] x = "d" -> 30 [] x = "e" -> 31 [] x = "f" -> 32]
PackInputs ==
  [op : {"pack"}, measured : SUBSET Range(PackedFile), timed : {{}, {1, 3}, {1, 3, 4}}, declared : {0, 40}, mem : {2, 36}, budget : {9, 40}]
TableOf(c) == [Mea!NewTable EXCEPT !.peaks = Restrict(PeakOf, c.measured), !.durations = [n \in c.timed |-> n]]
DeclaredOf(c) ==
  [idMem |-> IF c.declared = 0 THEN Mea!NoFacts ELSE 4 :> c.declared, idWall |-> Mea!NoFacts, fileMem |-> Mea!NoFacts,
   fileWall |-> IF c.declared = 0 THEN Mea!NoFacts ELSE "c" :> 2]
PackedWell(c) ==
  Mea!PackKeepsItsClass(TableOf(c), <<<<1, 2>>, <<3>>, <<4>>, <<5>>, <<6>>>>, [mem |-> c.mem, seconds |-> 3], 2, c.budget, DeclaredOf(c))

JudgeInputs == [op : {"judge"}, report : Reports]
Cells == {[TestCell(s, e) EXCEPT !.why = w] : s \in {"ok", "rejected", "not_applicable", "timeout"}, e \in Expected, w \in {"none", "other"}}
FoldInputs == [op : {"fold"}, cells : Seqs({c \in Cells : c.why = "none"}, 3)]
MergeInputs == [op : {"merge"}, sources : Seqs(UNION {[ids -> {c \in Cells : c.expected = "ok"}] : ids \in SUBSET {1}}, 3)]

-----------------------------------------------------------------------------
(* A repository of the family's schedule; another that weighs twice and    *)
(* costs a quarter.                                                        *)
How(favour) == [schedule |-> [r \in {"a", "b"} |-> Rnk!Family], cost |-> [r \in {"b"} |-> Rnk!ExpectedCost(2, 2, 2)], weight |-> [r \in {"a", "b"} |-> IF r = "b" THEN 2 ELSE 1],
        unit |-> 4, priority |-> [logins |-> IF favour THEN {ana} ELSE {}, sessions |-> {}, repos |-> {}]]
WorkOf(id) ==
  [id : {id}, repo : IF id = 2 THEN {"a", "b"} ELSE {"a"}, kind : DOMAIN Rnk!Family.classes, since : {-46, 0, 2, 3}, labels : {{}, {"priority:user"}}, origin : {bob, ana}, session : {""}]
RankInputs == [op : {"rank"}, a : WorkOf(1), b : WorkOf(2), favour : BOOLEAN]
GraphInputs == [op : {"graph"}, graph : [1 .. 3 -> SUBSET (1 .. 4)]]

PartInputs ==
  [op : {"part"}, resources : {<<>>, <<"femm">>, <<"femm", "jmag">>, <<"femm", "femm">>, <<"base">>}, scarce : {<<>>, <<"jmag">>},
   carrying : [{"femm", "jmag"} -> SUBSET {1, 2, 3}]]
DeclaredInputs ==
  [op : {"declared"}, kit : BOOLEAN, tables : SUBSET {"hpc", "tests", "new", "old"}, retired : {{}, {"old"}}, inputs : BOOLEAN, roots : BOOLEAN,
   install : {"none", "uv sync", "make"}, nativeInputs : BOOLEAN, nativeBuild : BOOLEAN, timeouts : {{}, {"full"}, {"other"}},
   wall : [floor : {1, 3}, ceiling : {2, 6}, multiple : {2}, unmeasured : {4}]]
WallInputs == [op : {"wall"}, wall : [floor : {1, 3}, ceiling : {3, 6}, multiple : {2}, unmeasured : {4}], duration : 0 .. 5, floor : {0, 3}]
Task == [submit : {0, 1, 2}, start : {0, 3}, end : {0, 5, 6}, elapsed : {0, 2}, cpus : {1}]
PhaseInputs == [op : {"phase"}, first : {<<t, u>> : t \in Task, u \in {x \in Task : x.elapsed = 2}}, later : {<<>>, <<[submit |-> 8, start |-> 9, end |-> 9, elapsed |-> 1, cpus |-> 2]>>}]
Clocks(c) == <<Dec!RoundClock(c.first, 1)>> \o IF c.later = <<>> THEN <<>> ELSE <<Dec!RoundClock(c.later, 1), Dec!RoundClock(c.later, 1)>>

-----------------------------------------------------------------------------
(* Two items of one shard: what each told of its ids, in their order, and  *)
(* of the last that it started; then the other readings of a run.          *)
IdsOf(k) == IF k = 1 THEN <<"a1", "a2", "a3">> ELSE <<"b1">>
CellsTold == {TestCell("ok", "ok"), TestCell("rejected", "ok"), TestCell("unavailable", "ok")}
Told1(ids, k, cell, began, done, wall) ==
  [ids |-> ids, cells |-> [n \in {ids[j] : j \in 1 .. k} |-> IF n = ids[1] THEN cell ELSE TestCell("ok", "ok")],
   seconds |-> [n \in {ids[j] : j \in 1 .. k} |-> 1],
   started |-> IF began /\ k < Len(ids) THEN ids[k + 1] ELSE IF k = 0 THEN Rep!NoAnswer ELSE ids[k], done |-> done,
   wall |-> IF done = "open" THEN 0 ELSE wall]
ItemsFor(j) == {Told1(IdsOf(j), k, cell, began, done, wall) :
   k \in 0 .. Len(IdsOf(j)), cell \in CellsTold, began \in BOOLEAN, done \in {"open", "exited", "killed"}, wall \in {2, 4}}
ShardInputs == {<<[from |-> 0, to |-> 2, wall |-> 7, state |-> s, top |-> t, ceiling |-> c]>> :
                 s \in {"COMPLETED", "TIMEOUT", "OUT_OF_MEMORY", "NODE_FAIL"}, t \in BOOLEAN, c \in BOOLEAN}
\* What Slurm kills closes by a signal or not at all; nothing runs after what never closed.
ItemPairs ==
  {c \in {i \in ItemsFor(1) : i.done # "exited" => Rep!Unreported(i) # <<>>} \X {j \in ItemsFor(2) : j.done # "exited" => Rep!Unreported(j) # <<>>} :
     c[1].done = "open" => c[2].done = "open" /\ c[2].cells = Rep!NoCells /\ c[2].started = Rep!NoAnswer}
LossInputs == [op : {"loss"}, items : ItemPairs, shards : ShardInputs]
StreamLines == {Rep!Line(k, w) : k \in 1 .. 2, w \in {"begin", "x"}} \cup {Rep!Section(1), Rep!Bare("y"), Rep!TornLine}
StreamInputs == [op : {"stream"}, live : SeqsTo(StreamLines, 4)]
HeldInputs ==
  [op : {"held"}, record : BOOLEAN, cells : UNION {[S -> CellsTold] : S \in SUBSET {"a", "b", "f"}},
   told : UNION {[S -> {TestCell("ok", "ok"), TestCell("timeout", "ok")}] : S \in SUBSET {"c"}},
   handed : {{}, {"b"}}, broken : {{}, {"f"}}, collected : {{"a", "b", "c"}, {"b", "d"}}]
StateOf(c) == [sha |-> "s1", record |-> c.record, cells |-> c.cells, told |-> c.told, files |-> {"f"}, carried |-> [n \in DOMAIN c.cells \cap {"a"} |-> "s0"]]
FilesOfIds == [n \in {"a1", "a2", "b1"} |-> IF n = "b1" THEN "b" ELSE "a"]
Words == {"passed", "failed", "error", "skipped", "xfailed", "lost", "missing", Rep!Handed}
OldWords == {Rep!NoWords} \cup {("a1" :> w) @@ ("b1" :> v) : w \in Words, v \in {"passed", Rep!Handed}}
UpgradeInputs ==
  {c \in [op : {"upgrade"}, oom : {0, 1, 2}, files : UNION {[S -> {2, 3}] : S \in SUBSET {"a", "b"}}, grown : UNION {[S -> {2}] : S \in SUBSET {"a1", "b1"}},
          flight : SUBSET {"a1", "a2", "b1"}, banded : BOOLEAN, words : OldWords, cells : {Rep!NoCells}] :
     c.oom > 0 \/ c.words # Rep!NoWords => DOMAIN c.grown = {} /\ DOMAIN c.files = {}}
QueueTasks == [state : {"PENDING", "RUNNING"}, reason : {"AssocGrpMemLimit", "Priority"}, age : {1, 5}]
QueueInputs ==
  [op : {"queue"}, tasks : SeqsTo({t \in QueueTasks : t.state = "RUNNING" => t.reason = "Priority" /\ t.age = 1}, 3),
   free : [{"g", "h"} -> [{"p", "q"} -> 0 .. 1]], sharing : {{"g"}, {"g", "h"}}, named : {{"p"}, {"p", "q"}}]
SettleInputs == [op : {"settle"}, passes : UNION {[1 .. k -> [{"r", "s"} -> Rep!Answer]] : k \in 1 .. 2}, waits : BOOLEAN]

-----------------------------------------------------------------------------
(* A box of two cores and its tool, of which one seat is declared or two   *)
(* are counted, beside a slot that a consumer lends: who holds what, what  *)
(* is read of it, and what is asked; then boxes of every size, idle.       *)
ToolFacts == [seats : {0, 1}, probe : {Siz!NoProbe, Siz!CannotSay, 2}, observed : BOOLEAN]
Boxes(cores, mems, reserves) ==
  {b \in [cores : cores, mem : mems, reserve : reserves, tools : {"femm" :> f : f \in ToolFacts}] : Siz!ReserveOk(b.reserve) /\ Siz!ToolsOk(b.tools)}
Want(c, m, f, s) == [Siz!Nothing EXCEPT !.cpu = c, !.mem = m, !.femm = f, !["slot:1"] = s]
Wants == {w \in {Want(c, m, f, s) : c \in {0, 4}, m \in {0, 9}, f \in 0 .. 2, s \in 0 .. 1} : Siz!DemandOk(w)}
RowOf(pid, want, kept) == [pid |-> pid, need |-> want, kept |-> kept]
RowSets == {<<>>, <<RowOf(me, Want(4, 4, 1, 0), FALSE)>>, <<RowOf(me, Want(4, 2, 0, 1), FALSE), RowOf(you, Want(0, 2, 1, 0), TRUE)>>}
BoxReadings ==
  {[idle |-> ("cpu" :> i[1]) @@ ("mem" :> j), usage |-> [n \in {me, you} |-> ("cpu" :> i[2]) @@ ("mem" :> i[2])], seen |-> s] :
     i \in {<<4, 0>>, <<4, 4>>, <<8, 0>>}, j \in {3, 10}, s \in {Siz!Unseen, "femm" :> 0, "femm" :> 2}}
LendInputs ==
  [op : {"lend"}, box : Boxes({8}, {10}, {Siz!DefaultReserve}), rows : RowSets, reading : BoxReadings, want : Wants,
   presence : {Siz!NotRead, {}, {"femm"}}, counts : {n \in {Siz!Unseen, "slot:1" :> 1, "femm" :> 1} : Siz!LentOk(n)}]
IdleInputs ==
  [op : {"idle"}, box : Boxes({4, 8, 12, 16}, {10, 20}, {Siz!DefaultReserve, [cpu |-> 2, share |-> 4, mem |-> 5], [cpu |-> 2, share |-> 5, mem |-> 5]}),
   want : Wants]

\* A row with a peak that a run measured, or a kill proved; what happens to it next.
RunAt(peak, cpu) == [ended |-> "none", peak |-> peak, cpu |-> cpu, wall |-> 2, files |-> 0]
Rows == {Pri!NoRow} \cup {[RunAt(m, c) EXCEPT !.ended = e] : m \in {0, 4, 10}, c \in {0, 2, 5, 8}, e \in {"exit", "memory", "timeout"}}
Events ==
  {[what |-> w, run |-> RunAt(m, 3), ask |-> 0] : w \in {"exit", "memory", "wall"}, m \in {0, 2, 6}}
    \cup {[what |-> "ask", run |-> RunAt(0, 0), ask |-> a] : a \in {5, 12}}
PriceInputs == [op : {"price"}, row : {r \in Rows : r.cpu < 5}, events : Seqs(Events, 3)]
WidthInputs == [op : {"width"}, row : Rows, worst : {0, 4}, ids : {-1, 0, 1, 3, 6}, cpu : 0 .. 6, mem : {0, 3, 8, 16, 40}]

-----------------------------------------------------------------------------
(* Two files of a checkout, of which "b" may be a directory that nobody    *)
(* added, as they stand against two commits; and units of either engine.   *)
FolderIs(c, bare) == <<"dir", "n" :> FileIs(c), bare>>
Trees ==
  {t \in [head : {"c1", "c2"}, held : [{"a", "b"} -> {FileIs("x"), FileIs("y"), NoFile, FolderIs("x", {}), FolderIs("x", {"m"})}], index : SUBSET {"a", "b"}, ignored : SUBSET {"b"}] :
     \A f \in {"a", "b"} : t.held[f][1] = "dir" => f = "b" /\ f \notin t.index}
TreeInputs == [op : {"tree"}, tree : Trees]
DirtyTree == [head |-> "c1", held |-> [f \in {"a", "b"} |-> FileIs("y")], index |-> {"a"}, ignored |-> {}]
Engines ==
  {Uni!Vendor("femm", "femm" :> v) : v \in {<<"4.1">>, <<"4.2">>}}
    \cup {Uni!Ours("lab.fem", e) : e \in {Uni!EnvironmentAt("c1", "py1"), Uni!EnvironmentAt("c1", "py2"), Uni!EnvironmentHere(DirtyTree, "py1")}}
Givens ==
  {("mesh" :> file) @@ ("n" :> <<"value", v>>) :
     file \in {<<"path", "m1">>, <<"output", "u1", "mesh">>},
     v \in {<<"text", "1">>, <<"list", <<"1">>>>, <<"tuple", <<"1">>>>, <<"nan">>}} \cup {"mesh" :> <<"path", "m1">>}
UnitsOf == {u \in [engine : Engines, entry : {<<"fem", "solve">>, <<"fem", "mesh">>, <<"solve">>}, inputs : Givens, outputs : {{"o"}}] : Uni!UnitOk(u)}
Resolved == {"mesh" :> FileIs("x"), "mesh" :> FileIs("y"), "mesh" :> FolderIs("x", {}), "mesh" :> FolderIs("x", {"m"}), "net" :> FileIs("x")}
UnitCalls == [unit : UnitsOf, files : Resolved]
UnitInputs == [op : {"unit"}, call : UnitCalls]

\* Job files, and machine files of up to two accounts of one cluster.
JobFiles ==
  {[policy |-> y] : y \in [shard_minutes_min : {0, 5, 20}, shard_minutes_max : {5, 15}, safety : 0 .. 2, max_array : {0, 1, 4}]}
    \cup {[cost |-> y, policy |-> [shard_minutes_max |-> 5]] : y \in [cpus : {0, 1, 2}, mem_gb : {0, 2}, gpus : {-1, 0}]}
    \cup {[job |-> y, cost |-> [seconds |-> 60]] : y \in [sha : {"", "c1"}, repo_url : {"", "url"}]}
    \cup {[jobs |-> [name |-> "n"]], [policy |-> [shard_minute_max |-> 5]], [policy |-> [file_budget |-> 0]]}
JobInputs == [op : {"job"}, raw : JobFiles, seconds : Seqs({60, 240, 2400}, 2), used : {0, 2}]
RawGrants ==
  [user : {"ann", "bob"}, hosts : {<<"l1">>, <<"l1", "l2">>, <<"">>}, slurm_account : {"free"}, partitions : {<<p, q>>}]
    \cup {[user |-> "ann", hosts |-> <<"l1">>, slurm_account |-> "free", cpus |-> 4], [user |-> "ann", hosts |-> <<"l1">>]}
RawPagings == {[page_cpus |-> n, page_mem_gb |-> 1, large_pages |-> 1, movable_minutes |-> 30] : n \in 0 .. 1}
MachineFiles ==
  {[grant |-> g] : g \in SeqsTo(RawGrants, 2)}
    \cup {[grant |-> <<g>>, paging |-> y] : g \in RawGrants, y \in RawPagings \cup {[page_cpus |-> 1]}}
    \cup {[grants |-> <<>>], [grant |-> <<>>, workstation |-> "w"]}
SessionNames == {<<>>, <<"a">>, <<" ", "a", "b", " ">>, <<"a", ",", "b">>, <<"a", ";", "b">>, <<" ">>}
MachineInputs ==
  [op : {"machine"}, raw : MachineFiles, name : SessionNames, used : [{"ann", "bob"} -> 0 .. 2], count : {1, 6}]
AccountSnaps(c) == [a \in {"ann", "bob"} \X {"free"} |-> Account(2, 4, c.used[a[1]], 4, Using(ada, c.used[a[1]]))]
MachineAsk(c) ==
  [seconds |-> [k \in 1 .. c.count |-> 300], cost |-> CostOf(60, 1), policy |-> Policy, session |-> NoSession, paging |-> NoPaging, rerunSafe |-> FALSE]

-----------------------------------------------------------------------------
\* A caller asks one part of the code, and each call is one behaviour: nothing is kept between two.
Awaits(part) == [op |-> "none", part |-> part]
AskedParts == {"plan", "balance", "span", "share", "tier", "judge", "rank", "read", "graph", "declare", "clock", "lend", "price", "name", "load"}
Init == call \in {Awaits(part) : part \in AskedParts}
Plan == call = Awaits("plan") /\ call' \in PlanInputs \cup PackInputs \cup ThrottleInputs \cup RoundInputs
Rebalance == call = Awaits("balance") /\ call' \in BalanceInputs
PlaceBatch == call = Awaits("span") /\ call' \in SpanInputs
Share == call = Awaits("share") /\ call' \in FairInputs
PlaceTiered == call = Awaits("tier") /\ call' \in TierInputs
Judge == call = Awaits("judge") /\ call' \in JudgeInputs \cup FoldInputs \cup MergeInputs
RankWork == call = Awaits("rank") /\ call' \in RankInputs
Read == call = Awaits("read") /\ call' \in LossInputs \cup StreamInputs \cup HeldInputs \cup UpgradeInputs \cup QueueInputs \cup SettleInputs
Draw == call = Awaits("graph") /\ call' \in GraphInputs
Declare == call = Awaits("declare") /\ call' \in DeclaredInputs \cup PartInputs \cup WallInputs
Clock == call = Awaits("clock") /\ call' \in PhaseInputs
Lend == call = Awaits("lend") /\ call' \in LendInputs \cup IdleInputs
Price == call = Awaits("price") /\ call' \in PriceInputs \cup WidthInputs
Name == call = Awaits("name") /\ call' \in TreeInputs \cup UnitInputs
Load == call = Awaits("load") /\ call' \in JobInputs \cup MachineInputs
Next == Plan \/ Rebalance \/ PlaceBatch \/ Share \/ PlaceTiered \/ Judge \/ RankWork \/ Read \/ Draw \/ Declare \/ Clock \/ Lend \/ Price \/ Name \/ Load
Spec == Init /\ [][Next]_call

-----------------------------------------------------------------------------
\* plan.py, shards.py, span.py: a plan keeps every limit it read, a refill keeps the
\* plan, the bands of a round share one queue, a spread runs every item once and only when it
\* gains, and a throttle that follows the headroom spends it once (PlanKeepsItsLimits,
\* BalanceStaysInTheWall, RoundSharesOneRoom, SpanRunsTheBatchOnce, RoomIsSpentOnce); files are packed by what they need (PackKeepsItsClass); shares are
\* max-min, and what costs money is used last and by whoever may (FairIsMaxMin, CostedIsTheLast).
PlansKeepTheirLimits ==
  /\ call.op = "plan" =>
       PlanKeepsItsLimits(call.seconds, CostOf(60, call.need), SnapOf(call), PlainGrant(here), Policy, PlanOf(call))
  /\ call.op = "balance" =>
       \E shards \in {Shards(call.seconds, [Policy EXCEPT !.shardMin = 1], call.cap)} :
         BalanceStaysInTheWall(call.seconds, shards, Balance(call.seconds, shards))
  /\ call.op = "pack" => PackedWell(call)
  /\ call.op = "throttle" =>
       RoomIsSpentOnce(Account(2, call.ceiling, call.used, 4, Idle), call.bands, CostOf(60, 1), call.maxJobs)
  /\ call.op = "round" => RoundSharesOneRoom(RoundAccounts(call), call.mem, RoundAsk(call), call.first)
  /\ call.op = "span" => SpanRunsTheBatchOnce(CandidatesOf(call), AskOf(call), Span(CandidatesOf(call), AskOf(call)))
  /\ call.op = "fair" => FairIsMaxMin(call.capacity, call.demands, Fair(call.capacity, call.demands))
  /\ call.op = "tier" =>
       CostedIsTheLast(Given(call, call.mine), Given(call, call.tier), Answering(call), call.forge.held, call.forge.record, TierAsk(call), TierOf(call))

\* pytest_item.py, testcells.py: no skip is green that nothing declares, a test's worst
\* phase concludes as all of them, and the order in which processes are merged does not
\* matter (NoSkipIsGreen, WorstPhaseConcludes, MergeIsOrderFree).
CellsAgree ==
  /\ call.op = "judge" => NoSkipIsGreen(call.report)
  /\ call.op = "fold" => WorstPhaseConcludes(call.cells)
  /\ call.op = "merge" => MergeIsOrderFree(call.sources)

\* records.py, progress.py, watch.py: what is read of a remote run agrees with what its fold
\* did, with what was kept and carried of it, and with how its gather ends
\* (LossesAgreeWithTheFold, KeptIsWhatWasLive, DecisionsKeepTheirOrigin, UpgradeOnce,
\* WaitsAreJudged, SettlesOnce).
ReportsAgree ==
  /\ call.op = "loss" => Rep!LossesAgreeWithTheFold(call.items, call.shards)
  /\ call.op = "stream" => Rep!KeptIsWhatWasLive(call.live, 1, 2)
  /\ call.op = "held" =>
       Rep!DecisionsKeepTheirOrigin(StateOf(call), "s2", call.collected, call.handed, call.broken)
  /\ call.op = "upgrade" => Rep!UpgradeOnce(call, FilesOfIds)
  /\ call.op = "queue" => Rep!WaitsAreJudged(call.tasks, 3, call.free, "g", call.sharing, call.named)
  /\ call.op = "settle" => Rep!SettlesOnce({"r", "s"}, call.passes, call.waits)

\* The cells of a run and what is read of it agree, however they were put together
\* (CellsAgree, ReportsAgree).
JudgementsAgree == CellsAgree /\ ReportsAgree

\* model.py, priority.py, graph.py: work is taken by the declared order, in which waiting
\* counts, and units run after what they read (AgingBringsForward, StarvedIsNotOutranked,
\* UnitsRunAfterWhatTheyRead).
OrderIsJust ==
  /\ call.op = "rank" =>
       /\ Rnk!AgingBringsForward({call.a, call.b}, How(call.favour), 4)
       /\ Rnk!StarvedIsNotOutranked({call.a, call.b}, How(call.favour), 4, 2)
  /\ call.op = "graph" => Rnk!UnitsRunAfterWhatTheyRead(call.graph)

\* needsets.py, declared.py, builds.py, phases.py: a suite is divided once, nothing that the
\* reader does not know is read, walls keep their bounds, and a run's time adds up
\* (PartsPartition, NothingUnknownIsRead, WallsAreBounded, PhasesAddUp).
DeclarationsHold ==
  /\ call.op = "part" =>
       \E v \in {Dec!Vocabulary(call.resources, call.scarce)} :
         Dec!PartsPartition(v, 1 .. 3, [r \in v.resources \ {"refused"} |-> call.carrying[r]])
  /\ call.op = "declared" => Dec!NothingUnknownIsRead(call)
  /\ call.op = "wall" => Dec!WallsAreBounded(call.wall, call.duration, call.floor)
  /\ call.op = "phase" => Dec!PhasesAddUp(1, Clocks(call))
\* machine.py, providers.py, learned.py: what a box lends is what it has and can see, for the
\* ledger and the engine alike, and what is asked of it is what runs proved
\* (WhatIsUnknownIsNotLent, OneRuleOnOneBox, IdleBoxLends, PricesAreProven,
\* PartFitsWhatIsFree).
SizesAreLent ==
  /\ call.op = "lend" =>
       /\ Siz!WhatIsUnknownIsNotLent(Siz!Capacity(call.box), call.rows, call.reading, call.want, call.presence)
       /\ Siz!OneRuleOnOneBox(Siz!Capacity(call.box), call.rows, call.reading, call.want, call.presence, call.counts)
  /\ call.op = "idle" => Siz!IdleBoxLends(call.box, call.want)
  /\ call.op = "price" => Pri!PricesAreProven(call.row, call.events)
  /\ call.op = "width" => Pri!PartFitsWhatIsFree(call.row, call.worst, call.ids, call.cpu, call.mem)

\* unit.py, grants.py, config.py: a hash names what is computed, what leaves no host is asked
\* for by no other, and what loads can be planned and counted (KeyNamesTheCode,
\* HashNamesTheComputation, WhatLoadsIsPlannable, PoolIsCountedOnce).
NamesAreTrue ==
  /\ call.op = "tree" => Uni!KeyNamesTheCode(call.tree, Trees, "py1")
  /\ call.op = "unit" => Uni!HashNamesTheComputation(call.call.unit, call.call.files, UnitCalls)
  /\ call.op = "job" => Acc!WhatLoadsIsPlannable(call.raw, call.seconds, Account(2, 6, call.used, 4, Idle), PlainGrant(here))
  /\ call.op = "machine" => Acc!PoolIsCountedOnce(call.raw, call.name, AccountSnaps(call), MachineAsk(call))
=============================================================================
