------------------------------- MODULE HpcItem -------------------------------
(***************************************************************************)
(* One item of a round on its compute node: pytest_item.py.  run()         *)
(* supervises a pytest process that appends its tests' lines to the stream *)
(* file of the round, reads that file back as it grows, kills a test that  *)
(* is past its wall, and runs the rest in a new process.                   *)
(*                                                                         *)
(* The stream is shared: other items of the round append to it, and an     *)
(* item whose task was killed starts again and appends to the same file.   *)
(***************************************************************************)
EXTENDS TestCells

CONSTANTS
  ItemIds,          \* the item's ids, in the order pytest runs them
  NoId, Foreign,   \* no id; an id of another item
  Walls,        \* [id -> the wall the manifest gives it]
  Declared,     \* [id -> the timeout the test itself declares, 0 for none]
  MaxAttempts, MaxMixed   \* bounds: task starts, lines of others and torn ones together

VARIABLES
  stream,       \* the round's file, a sequence of lines
  sup,          \* the supervisor
  child,        \* the pytest process
  ran,          \* how long the test in flight, or before the first the launch, has run
  mine,         \* what this attempt has appended
  bounds        \* task starts, lines of others and torn lines so far

vars == <<stream, sup, child, ran, mine, bounds>>

Id == Range(ItemIds)
Bound(n) == Max({Walls[n], Declared[n]})
Horizon == Max({Bound(n) : n \in Id}) + 1

ItemAssumption ==
  /\ IsInjective(ItemIds) /\ ItemIds # <<>> /\ NoId \notin Id /\ Foreign \notin Id \cup {NoId}
  /\ Walls \in [Id -> Nat \ {0}] /\ Declared \in [Id -> Nat]
  /\ {MaxAttempts, MaxMixed} \subseteq Nat

\* A line of an item: the start of an attempt, the end of the collection, the
\* start of a test, a phase's cell, the end of the item.
Line(kind, id, cell) == [item |-> "mine", kind |-> kind, id |-> id, cell |-> cell]
Torn == [Line("torn", NoId, Nothing) EXCEPT !.item = "none"]
Report(when, outcome) ==
  Judged([when |-> when, outcome |-> outcome, xfail |-> FALSE, site |-> TRUE, text |-> "plain", marks |-> {}])
TimedOut == TestCell("timeout", "ok")

\* The ids still owed, where the file was read up to, the ids that were reported
\* and the one in flight; whether the collection is over; for how long the clock
\* has run; the walls, as the tests raise them; the ids a kill names; the exit.
NoSup == [pc |-> "idle", owed |-> <<>>, offset |-> 0, reported |-> {}, inflight |-> NoId,
          collected |-> FALSE, since |-> 0, walls |-> Walls, hit |-> {}, rc |-> "none"]
NoChild == [pc |-> "none", todo |-> <<>>, at |-> NoId]

Init ==
  /\ stream = <<>> /\ sup = NoSup /\ child = NoChild
  /\ ran = 0 /\ mine = <<>> /\ bounds = [starts |-> 0, foreign |-> 0, tears |-> 0]

-----------------------------------------------------------------------------
\* _write(): one append.  After a torn tail the line is no JSON object.
Written(lines, line) ==
  IF lines # <<>> /\ Last(lines) = Torn
  THEN Append(Front(lines), [Torn EXCEPT !.kind = "garbage"])
  ELSE Append(lines, line)
WrittenAll(lines, new) == FoldLeft(Written, lines, new)
Tears ==
  /\ bounds.foreign + bounds.tears < MaxMixed /\ (stream = <<>> \/ Last(stream) # Torn)
  /\ bounds' = [bounds EXCEPT !.tears = @ + 1]
Mine(new) == stream' = WrittenAll(stream, new) /\ mine' = mine \o new

\* Mutant: every attempt is read.
SplitStreamAll(lines) == SelectSeq(lines, LAMBDA l : l.item = "mine" /\ l.kind # "begin")

\* split_streams(): the lines of the item's last attempt.
SplitStream(lines) ==
  LET begins == {k \in DOMAIN lines : lines[k].item = "mine" /\ lines[k].kind = "begin"}
      from   == IF begins = {} THEN 0 ELSE Max(begins)
  IN  SelectSeq(SubSeq(lines, from + 1, Len(lines)), LAMBDA l : l.item = "mine")

CellsOf(lines, n) ==
  LET told == SelectSeq(lines, LAMBDA l : l.kind = "id" /\ l.id = n)
  IN  [k \in DOMAIN told |-> told[k].cell]

\* read_stream()
ReadStream(lines) ==
  LET starts == SelectSeq(lines, LAMBDA l : l.kind = "start")
  IN  [cells   |-> [n \in {m \in Id : CellsOf(lines, m) # <<>>} |-> ReadCells(CellsOf(lines, n))],
       started |-> IF starts = <<>> THEN NoId ELSE Last(starts).id,
       done    |-> \E k \in DOMAIN lines : lines[k].kind = "done"]

-----------------------------------------------------------------------------
(* The supervisor.                                                         *)

\* Of what earlier attempts wrote one line, and a torn tail, stand for all.
Earlier ==
  IF stream = <<>> THEN <<>>
  ELSE <<Line("start", Head(ItemIds), Nothing)>> \o (IF Last(stream) = Torn THEN <<Torn>> ELSE <<>>)

\* run(): an attempt opens with its `begin`; the file is watched from there on.
Start ==
  /\ sup.pc = "idle" /\ bounds.starts < MaxAttempts
  /\ bounds' = [bounds EXCEPT !.starts = @ + 1]
  /\ stream' = Written(Earlier, Line("begin", NoId, Nothing))
  /\ mine' = <<>>
  /\ sup' = [NoSup EXCEPT !.pc = "launch", !.owed = ItemIds, !.offset = Len(stream')]
  /\ UNCHANGED <<child, ran>>

\* _Watch.launched()
Launched(s) == [s EXCEPT !.pc = "watch", !.inflight = NoId, !.collected = FALSE, !.since = 0]

\* _supervise() starts pytest on the ids still owed.
Launch ==
  /\ sup.pc = "launch"
  /\ child' = [pc |-> "collecting", todo |-> sup.owed, at |-> NoId]
  /\ sup' = Launched(sup)
  /\ ran' = 0
  /\ UNCHANGED <<stream, mine, bounds>>

\* Mutant: a test's own timeout is not taken.
ReadLineDeaf(s, line) ==
  CASE line.item # "mine" -> s
    [] line.kind = "declared" -> [s EXCEPT !.collected = TRUE, !.since = 0]
    [] line.kind = "start" -> [s EXCEPT !.inflight = line.id, !.since = 0]
    [] line.kind = "id" -> [s EXCEPT !.reported = @ \cup {line.id}]
    [] OTHER -> s

\* _read(), one line: only the item's own are taken; a test's own timeout raises
\* its wall, and the clock starts with the collection's end and with each test.
ReadLine(s, line) ==
  CASE line.item # "mine" -> s
    [] line.kind = "declared" ->
         [s EXCEPT !.collected = TRUE, !.since = 0,
            !.walls = [n \in Id |-> IF n \in Range(s.owed) THEN Max({@[n], Declared[n]}) ELSE @[n]]]
    [] line.kind = "start" -> [s EXCEPT !.inflight = line.id, !.since = 0]
    [] line.kind = "id" -> [s EXCEPT !.reported = @ \cup {line.id}]
    [] OTHER -> s

Read(s) ==
  LET whole == IF stream # <<>> /\ Last(stream) = Torn THEN Len(stream) - 1 ELSE Len(stream)
  IN  [FoldLeft(ReadLine, s, SubSeq(stream, s.offset + 1, whole)) EXCEPT !.offset = Max({whole, s.offset})]

Unreported(s) == {n \in Range(s.owed) : n \notin s.reported}

\* Mutant: a test that was reported is not named, however its teardown hangs.
OverdueUnreported(s) ==
  LET culprits == IF s.inflight \in Id THEN {s.inflight} \cap Unreported(s) ELSE Unreported(s)
      walls    == {s.walls[n] : n \in culprits}
  IN  IF s.collected /\ walls # {} /\ s.since > Max(walls) THEN culprits ELSE {}

\* overdue(): the ids a kill names, none while the clock is within its wall: the
\* test in flight, or, before the first, every id that is owed.
Overdue(s) ==
  LET culprits == IF s.inflight \in Id THEN {s.inflight} ELSE Unreported(s)
      walls    == {s.walls[n] : n \in culprits}
  IN  IF s.collected /\ walls # {} /\ s.since > Max(walls) THEN culprits ELSE {}

\* A look at the stream while pytest runs.
Look ==
  /\ sup.pc = "watch" /\ child.pc # "ended"
  /\ \E s \in {Read(sup)} :
       /\ sup' = [s EXCEPT !.hit = Overdue(s), !.pc = IF Overdue(s) = {} THEN "watch" ELSE "kill"]
       /\ sup' # sup
  /\ UNCHANGED <<stream, child, ran, mine, bounds>>

\* _kill_tree(), and the cells of the ids it names.  The killed process may leave
\* a line cut in the middle.
Kill ==
  /\ sup.pc = "kill"
  /\ child' = NoChild
  /\ \E cells \in {SelectSeq([k \in DOMAIN ItemIds |-> Line("id", ItemIds[k], TimedOut)], LAMBDA l : l.id \in sup.hit)} :
       \/ Mine(cells) /\ bounds' = bounds
       \/ /\ Tears
          /\ stream' = WrittenAll(Append(stream, Torn), cells) /\ mine' = mine \o cells
  /\ sup' = [sup EXCEPT !.pc = "take"]
  /\ UNCHANGED ran

Rest(s) == SelectSeq(s.owed, LAMBDA n : n \notin s.reported /\ n \notin s.hit)
AfterKill(s) ==
  [s EXCEPT !.owed = Rest(s), !.hit = {}, !.rc = "early", !.pc = IF Rest(s) = <<>> THEN "close" ELSE "launch"]

\* What the killed run wrote before it died is taken in; the rest runs on.
TakeIn ==
  /\ sup.pc = "take"
  /\ sup' = AfterKill(Read(sup))
  /\ UNCHANGED <<stream, child, ran, mine, bounds>>

\* _poll(): pytest has exited, whatever it told.
Reap ==
  /\ sup.pc = "watch" /\ child.pc = "ended"
  /\ sup' = [sup EXCEPT !.pc = "close", !.rc = child.at]
  /\ child' = NoChild
  /\ UNCHANGED <<stream, ran, mine, bounds>>

Close ==
  /\ sup.pc = "close"
  /\ Mine(<<Line("done", NoId, Nothing)>>)
  /\ sup' = [sup EXCEPT !.pc = "closed"]
  /\ UNCHANGED <<child, ran, bounds>>

-----------------------------------------------------------------------------
(* pytest, with the plugin's hooks.                                        *)

Collected ==
  /\ child.pc = "collecting"
  /\ Mine(<<Line("declared", NoId, Nothing)>>)
  /\ child' = [child EXCEPT !.pc = "between"] /\ ran' = 0
  /\ UNCHANGED <<sup, bounds>>

StartTest ==
  /\ child.pc = "between" /\ child.todo # <<>>
  /\ Mine(<<Line("start", Head(child.todo), Nothing)>>)
  /\ child' = [pc |-> "test", todo |-> Tail(child.todo), at |-> Head(child.todo)]
  /\ ran' = 0
  /\ UNCHANGED <<sup, bounds>>

\* The phases of a test, each with its line if it decides anything: here a test
\* that passes, and whose teardown may fail.
Call ==
  /\ child.pc = "test"
  /\ Mine(<<Line("id", child.at, Report("call", "passed"))>>)
  /\ child' = [child EXCEPT !.pc = "teardown"]
  /\ UNCHANGED <<sup, ran, bounds>>

Teardown ==
  /\ child.pc = "teardown"
  /\ \E cell \in {Report("teardown", "passed"), Report("teardown", "failed")} :
       Mine(IF cell = Nothing THEN <<>> ELSE <<Line("id", child.at, cell)>>)
  /\ child' = [child EXCEPT !.pc = "between"]
  /\ UNCHANGED <<sup, ran, bounds>>

\* pytest ends after its last test, or exits or is killed by a signal before.
Exit ==
  /\ child.pc \in {"collecting", "between", "test", "teardown"}
  /\ \E rc \in IF child.pc = "between" /\ child.todo = <<>> THEN {"clean"} ELSE {"early"} :
       child' = [pc |-> "ended", todo |-> <<>>, at |-> rc]
  /\ UNCHANGED <<stream, sup, ran, mine, bounds>>

-----------------------------------------------------------------------------
(* The node and the rest of the round.                                     *)

Tick ==
  /\ child.pc \in {"collecting", "between", "test", "teardown"} /\ sup.since < Horizon
  /\ sup' = [sup EXCEPT !.since = @ + 1] /\ ran' = Min({ran + 1, Horizon})
  /\ UNCHANGED <<stream, child, mine, bounds>>

\* Another item of the round appends a line.
ForeignLine ==
  /\ sup.pc \notin {"idle", "closed"} /\ bounds.foreign + bounds.tears < MaxMixed
  /\ bounds' = [bounds EXCEPT !.foreign = @ + 1]
  /\ stream' = Written(stream, [Line("start", Foreign, Nothing) EXCEPT !.item = "other"])
  /\ UNCHANGED <<sup, child, ran, mine>>

\* Slurm kills the task and all its processes, and starts it again; a line that
\* was being written may be cut.
TaskKilled ==
  /\ sup.pc \notin {"idle", "closed"}
  /\ \/ UNCHANGED <<stream, bounds>>
     \/ Tears /\ stream' = Append(stream, Torn)
  /\ sup' = NoSup /\ child' = NoChild /\ ran' = 0 /\ mine' = <<>>

Supervise == Start \/ Launch \/ Look \/ Kill \/ TakeIn \/ Reap \/ Close
Pytest == Collected \/ StartTest \/ Call \/ Teardown \/ Exit
Next == Supervise \/ Pytest \/ Tick \/ ForeignLine \/ TaskKilled

Spec == Init /\ [][Next]_vars

\* The supervisor polls and time passes; pytest comes to the end of its
\* collection, while a test, or the end of the session, may hang for ever.
FairSpec ==
  /\ Spec
  /\ WF_vars(Supervise) /\ WF_vars(Tick)
  /\ WF_vars(child.pc = "collecting" /\ (Collected \/ Exit))

-----------------------------------------------------------------------------
Attempt == ReadStream(SplitStream(stream))
Closed == sup.pc = "closed"

\* The variables have their types, and no clock comes past the horizon.
TypeOK ==
  /\ sup.pc \in {"idle", "launch", "watch", "kill", "take", "close", "closed"}
  /\ Range(sup.owed) \subseteq Id /\ sup.reported \subseteq Id
  /\ sup.inflight \in Id \cup {NoId} /\ sup.hit \subseteq Id
  /\ sup.since \in 0 .. Horizon /\ sup.offset \in 0 .. Len(stream)
  /\ child.pc \in {"none", "collecting", "between", "test", "teardown", "ended"}

\* pytest_item.py:31-33: whatever other items and killed attempts have written,
\* the item's stream is what its last attempt wrote, unless a line was torn.
LastAttemptOnly ==
  bounds.tears = 0 /\ sup.pc # "idle" => SplitStream(stream) = mine

\* records.fold() takes an item that closed by its own exit, and an id it does
\* not report, for a test that never ran: a pytest that came to its end leaves
\* none, however often it was killed and started again.
CleanEndTellsAll ==
  bounds.tears = 0 /\ Closed /\ sup.rc = "clean" => DOMAIN Attempt.cells = Id

\* The item's ids are told in their order, and the last one started is told or
\* the next: the summary of a stream that records.fold() blames by.
ToldInOrder ==
  LET told == {k \in DOMAIN ItemIds : ItemIds[k] \in DOMAIN ReadStream(mine).cells}
      last == ReadStream(mine).started
  IN  /\ told = 1 .. Cardinality(told)
      /\ last # NoId => \E k \in 1 .. Cardinality(told) + 1 : k <= Len(ItemIds) /\ ItemIds[k] = last

\* What records.fold() reads of the item is what happened in its last attempt.
StreamIsTrue == TypeOK /\ LastAttemptOnly /\ CleanEndTellsAll /\ ToldInOrder

\* _Watch: a kill names the test in flight, and only when that has run past its
\* own wall; before the first test, only when the largest wall has passed since
\* the collection.  No wall runs over a launch.
OnlyTheOverdueIsCut ==
  [][sup.pc = "watch" /\ sup'.pc = "kill" =>
       IF child.pc \in {"test", "teardown"} \/ (child.pc = "between" /\ sup'.inflight # NoId)
       THEN sup'.hit = {sup'.inflight} /\ ran > Bound(sup'.inflight)
       ELSE child.pc = "between" /\ \A n \in sup'.hit : ran > Bound(n)]_vars

\* _supervise(): a test that was reported, or cut, does not run again in the item.
ReportedRunsOnce ==
  [][child'.at # child.at /\ child'.pc = "test" => CellsOf(mine, child'.at) = <<>>]_vars

\* A kill cuts what hangs, and nothing that was told runs again for it.
CutsAreJust == OnlyTheOverdueIsCut /\ ReportedRunsOnce

\* The wall bounds the item: with pytest through its collection, it closes
\* whatever test hangs, or its task is killed.
ItemCloses == sup.pc = "launch" ~> sup.pc \in {"closed", "idle"}
=============================================================================
