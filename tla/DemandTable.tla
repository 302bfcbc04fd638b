------------------------------ MODULE DemandTable ------------------------------
(***************************************************************************)
(* The one demand table of a repository (compute/learned.py) and the runs  *)
(* that are seeded from it and fold their rounds into it.  A writer reads  *)
(* the table, changes what it read and replaces the file, with no lock     *)
(* between the two: every write here is a step Read and a step Write.      *)
(*                                                                         *)
(* A run plans its items, they run, the round is folded (gather_run) and   *)
(* what is unfinished runs again in halves, on the facts it keeps itself.  *)
(***************************************************************************)
EXTENDS Measured

CONSTANTS
  Seeded, Items,    \* the runs of this repository, and the items each has
  Cost, Safety,     \* [mem, seconds] of an item of which nothing is known; Policy.safety
  Grantable,        \* grantable_gb(): the most memory any grant gives
  LongestWall,      \* the longest wall any partition grants
  Peaks, Walls,     \* bound: what a process is read at, when it is killed
  Earlier,          \* the tables that earlier runs may have left
  RoundsOf,         \* bound: [run -> its rounds]
  Refused           \* bound: the runs that may find no room first

DemandAssumption ==
  /\ {Safety, Grantable, LongestWall, Cost.mem, Cost.seconds} \cup Range(RoundsOf) \subseteq Nat \ {0}
  /\ Cost.mem % Safety = 0 /\ Grantable % Safety = 0
  /\ \A r \in Seeded : Items[r] \in Seq(Seq(DOMAIN FileOf))
  /\ Peaks \subseteq Nat /\ Walls \subseteq 1 .. LongestWall

VARIABLES
  table,    \* the file: Measured's five dicts, and `row`, what the last run of these needs took
  run,      \* [run -> its state.json, and how far its writer is]
  stale,    \* ghost: the runs whose reading of the table is not the newest
  proven,   \* ghost: [run -> [id -> what it must be asked next, after a kill for memory]]
  cutShort  \* ghost: [run -> the items cut by a wall, and what they must be given next]

tableVars == <<table, run, stale, proven, cutShort>>

NoRow == [ended |-> "none", peak |-> 0]
NewRun == [pc |-> "idle", measured |-> NewTable, before |-> NewTable, todo |-> <<>>, grown |-> NoFacts,
           cells |-> {}, ran |-> {}, rounds |-> 0, ask |-> 0, seen |-> NewTable @@ [row |-> NoRow]]

TableInit ==
  /\ \E t \in Earlier : table = t @@ [row |-> NoRow]
  /\ run = [r \in Seeded |-> NewRun]
  /\ stale = {}
  /\ proven = [r \in Seeded |-> NoFacts]
  /\ cutShort = [r \in Seeded |-> {}]

RunAt(r, pc) == run[r].pc = pc
Unproven == UNCHANGED <<proven, cutShort>>

-----------------------------------------------------------------------------
(* What a round asks: run.submit_round().                                  *)

Asked(r) ==
  LET s == run[r] IN [k \in DOMAIN s.todo |-> ItemMem(s.measured, s.todo[k], Cost, Safety, s.grown)]
Allowed(r) == [k \in DOMAIN run[r].todo |-> Least(Asked(r)[k], Grantable)]
\* One memory for the array of each class: the most of its items.
Limits(r) ==
  LET held == Allowed(r) IN [k \in DOMAIN held |-> Max({held[j] : j \in {i \in DOMAIN held : Band(held[i]) = Band(held[k])}})]

\* submit_run(): the run keeps a copy of what is learned now.
Submit(r) ==
  /\ RunAt(r, "idle")
  /\ run' = [run EXCEPT ![r].pc = "planned", ![r].measured = Record(table), ![r].todo = Items[r]]
  /\ UNCHANGED <<table, stale>> /\ Unproven

\* Round 0 finds no room for its task: record_ask() is to keep what it asked.
Refuse(r) ==
  /\ r \in Refused /\ RunAt(r, "planned") /\ run[r].rounds = 0 /\ run[r].ask = 0
  /\ run' = [run EXCEPT ![r].pc = "ask", ![r].ask = Max(Range(Limits(r)))]
  /\ UNCHANGED <<table, stale>> /\ Unproven

-----------------------------------------------------------------------------
(* The items run.                                                          *)

Ran(ids, k, done, wall, peak) ==
  [ids |-> ids, cells |-> {ids[j] : j \in 1 .. k}, seconds |-> [n \in {ids[j] : j \in 1 .. k} |-> 1],
   done |-> done, wall |-> wall, peak |-> peak]

\* How one item may end: it finishes; a signal closes it, or its whole task is
\* killed, at the limit of its memory; the wall of its shard cuts it.
Ends(ids, limit) ==
  LET item(f, state, spent) == [f |-> f, state |-> state, limit |-> limit, spent |-> spent, top |-> LongestWall]
      cut == 0 .. Len(ids) - 1
  IN  {item(Ran(ids, Len(ids), "exited", Len(ids) + 1, p), "COMPLETED", 0) : p \in {q \in Peaks : q <= limit}}
      \cup {item(Ran(ids, k, "killed", k + 2, p), "OUT_OF_MEMORY", k + 2) : k \in cut, p \in {Min(Peaks)}}
      \cup {item(Ran(ids, k, "open", 0, 0), "OUT_OF_MEMORY", k + 2) : k \in cut}
      \cup {item(Ran(ids, k, "open", 0, 0), "TIMEOUT", w) : k \in cut, w \in Walls}

Halved(ids) ==
  LET half    == (Len(ids) + 1) \div 2
      some(g) == IF g = <<>> THEN <<>> ELSE <<g>>
  IN  some(SubSeq(ids, 1, half)) \o some(SubSeq(ids, half + 1, Len(ids)))

\* Final: cut at the longest wall, or the last id of an item at the most memory.
Final(i, asked) ==
  IF Rest(i.f) # <<>> /\ \/ i.state = "TIMEOUT" /\ i.spent >= LongestWall
                         \/ i.state = "OUT_OF_MEMORY" /\ Len(Rest(i.f)) = 1 /\ asked >= Grantable
  THEN CutId(i.f) ELSE {}

\* gather_run() of a finished round: what fold() and grown_after() leave of the
\* run, and what runs again.
CellsAfter(s, ended, asks) == s.cells \cup UNION {ended[k].f.cells \cup Final(ended[k], asks[k]) : k \in DOMAIN ended}
FoldedRun(s, ended, m, cells) ==
  [s EXCEPT !.pc = "learn", !.before = s.measured, !.measured = Record(m), !.cells = cells, !.rounds = @ + 1,
     !.todo = FlattenSeq([k \in DOMAIN ended |-> Halved(Unfinished(s.todo[k], cells))]),
     !.grown = GrownAfter(ended, cells, s.grown, \E k \in DOMAIN ended : ended[k].state = "OUT_OF_MEMORY", m.taught),
     !.ran = UNION {IF ended[k].state = "TIMEOUT" THEN Range(s.todo[k]) ELSE ended[k].f.cells \cup CutId(ended[k].f) :
                      k \in DOMAIN ended}]

\* What the kills of this round prove: the next ask of a cut id, and the next
\* wall of what a wall cut.
KilledAt(ended) == {k \in DOMAIN ended : ended[k].state = "OUT_OF_MEMORY" /\ ended[k].f.done = "killed"}
Proven(ended) ==
  [n \in UNION {CutId(ended[k].f) : k \in KilledAt(ended)} |->
     Max({OomGrowth * ended[k].limit : k \in {j \in KilledAt(ended) : n \in CutId(ended[j].f)}})]
CutShort(ended, asks) ==
  {[rest |-> Rest(ended[k].f), due |-> Least(TimeoutGrowth * ended[k].spent, LongestWall)] :
     k \in {j \in DOMAIN ended : ended[j].state = "TIMEOUT" /\ Final(ended[j], asks[j]) = {}}}

Outcomes(todo, limits) ==
  {e \in [DOMAIN todo -> UNION {Ends(todo[k], limits[k]) : k \in DOMAIN todo}] :
     \A k \in DOMAIN e : e[k] \in Ends(todo[k], limits[k])}

FoldRound(r) ==
  /\ RunAt(r, "planned")
  /\ \E asks \in {Asked(r)} : \E ended \in Outcomes(run[r].todo, Limits(r)) :
       \E cells \in {CellsAfter(run[r], ended, asks)} :
         /\ run' = [run EXCEPT ![r] = FoldedRun(@, ended, FoldItems(Folding(run[r].measured), ended, Safety), cells)]
         /\ proven' = [proven EXCEPT ![r] = Dropped(Put(@, Proven(ended)), cells)]
         /\ cutShort' = [cutShort EXCEPT ![r] = {c \in @ : Range(c.rest) \cap cells = {}} \cup CutShort(ended, asks)]
  /\ UNCHANGED <<table, stale>>

-----------------------------------------------------------------------------
(* The table is written: learned().                                        *)

Writing == [ask |-> "write_ask", learn |-> "write_learn", end |-> "write_end"]
Writes(r) == run[r].pc \in {"write_ask", "write_learn", "write_end"}

Read(r) ==
  /\ run[r].pc \in {"ask", "learn", "end"}
  /\ run' = [run EXCEPT ![r].seen = table, ![r].pc = Writing[@]]
  /\ stale' = stale \ {r}
  /\ UNCHANGED table /\ Unproven

\* Mutant: a round writes its whole view.
LearnRoundWhole(seen, before, after) ==
  [k \in Facts |-> Put(seen[k], after[k])] @@ seen

\* learn_round(): what the round changed or dropped, on what the table holds.
LearnRound(seen, before, after) ==
  LET kept(k)    == {x \in DOMAIN seen[k] : x \in DOMAIN after[k] \/ x \notin DOMAIN before[k]}
      changed(k) == {x \in DOMAIN after[k] : x \notin DOMAIN before[k] \/ after[k][x] # before[k][x]}
  IN  [k \in Facts \cup {"row"} |->
         IF k = "row" THEN seen.row ELSE Put(Restrict(seen[k], kept(k)), Restrict(after[k], changed(k)))]

\* record_run() of a gathered array, record_ask(): the row of these needs.
RecordRun(seen, m) == [seen EXCEPT !.row = [ended |-> "exit", peak |-> Max({0} \cup Range(m.peaks))]]
RecordAsk(seen, ask) == [seen EXCEPT !.row = [ended |-> "ask", peak |-> Most(@.peak, ask \div Safety)]]

WriteTable(r) ==
  /\ Writes(r)
  /\ LET s == run[r]
     IN  /\ table' = CASE s.pc = "write_ask" -> RecordAsk(s.seen, s.ask)
                       [] s.pc = "write_learn" -> LearnRound(s.seen, s.before, s.measured)
                       [] s.pc = "write_end" -> RecordRun(s.seen, s.measured)
         /\ run' = [run EXCEPT ![r] =
              IF s.pc = "write_end" THEN [NewRun EXCEPT !.pc = "over"]
              ELSE [s EXCEPT !.seen = NewRun.seen, !.before = NewTable, !.ran = {},
                      !.pc = IF s.pc = "write_learn" /\ (s.todo = <<>> \/ s.rounds = RoundsOf[r]) THEN "end" ELSE "planned"]]
  /\ stale' = stale \cup {q \in Seeded \ {r} : Writes(q)}
  /\ IF RunAt(r, "write_end")
     THEN proven' = [proven EXCEPT ![r] = NoFacts] /\ cutShort' = [cutShort EXCEPT ![r] = {}]
     ELSE Unproven

TableNext == \E r \in Seeded : Submit(r) \/ Refuse(r) \/ FoldRound(r) \/ Read(r) \/ WriteTable(r)

TableSpec == TableInit /\ [][TableNext]_tableVars

-----------------------------------------------------------------------------
\* measured.py:36-42, gather.py:264-283: an id that a kill for memory cut is asked
\* for at least the doubled limit (or the most that any grant gives) until it has a
\* cell, whatever its siblings measure meanwhile and however the retry is cut.
KillsAreOutgrown ==
  \A r \in Seeded : RunAt(r, "planned") =>
    \A k \in DOMAIN run[r].todo : \A n \in Range(run[r].todo[k]) \cap DOMAIN proven[r] :
      Allowed(r)[k] >= Least(proven[r][n], Grantable)

\* measured.py:286-296: what a wall cut is priced at twice that wall, or the longest
\* there is, up to the rounding of each id's share.
WallsAreOutgrown ==
  \A r \in Seeded : \A c \in cutShort[r] :
    Seconds(run[r].measured, c.rest, Cost) + Len(c.rest) >= c.due

\* What an item was killed for is outgrown before it is planned again.
DemandsGrow == KillsAreOutgrown /\ WallsAreOutgrown

\* learned.py:190-194: a round changes of the table what it ran and nothing else, so
\* that the floor another run's kill taught stands; when no write fell in between.
RoundWritesWhatRan ==
  \A r \in Seeded :
       run[r].pc = "write_learn" /\ run'[r].pc # run[r].pc /\ r \notin stale =>
         /\ \A k \in {"durations", "floors", "idPeaks"} : \A n \in DOMAIN FileOf \ run[r].ran :
              Fact(table'[k], n) = Fact(table[k], n)
         /\ \A k \in {"overheads", "peaks"} : \A x \in DOMAIN FolderOf \ {FileOf[n] : n \in run[r].ran} :
              Fact(table'[k], x) = Fact(table[k], x)
RoundsWriteWhatRan == [][RoundWritesWhatRan]_tableVars
=============================================================================
