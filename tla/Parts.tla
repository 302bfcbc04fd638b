--------------------------------- MODULE Parts ---------------------------------
(***************************************************************************)
(* What a commit declares, how its suite is divided by what tests need,    *)
(* and where a run's time went: hpc/declared.py, needsets.py, builds.py,   *)
(* phases.py.  All pure.                                                   *)
(***************************************************************************)
EXTENDS Integers, SequencesExt, FiniteSetsExt, Functions

-----------------------------------------------------------------------------
(* A declaration: [kit: its project is the kit, tables, retired: those that *)
(* this reader retired], then what its tables hold.                        *)

KnownTables == {"artefacts", "hpc", "schedule", "tests", "tools"}

\* kit_tables(): what is older than the reader, then what is newer.
Tables(d) ==
  CASE d.retired # {} -> "RetiredTable"
    [] d.retired = {} /\ ~(d.tables \subseteq KnownTables) -> IF d.kit THEN "KitAheadOfItsServer" ELSE "OutdatedKit"
    [] OTHER -> "read"

\* read_vocabulary(): distinct names, none of them the part of no resource.
Vocabulary(resources, scarce) ==
  IF /\ IsInjective(resources) /\ "base" \notin Range(resources)
     /\ IsInjective(scarce) /\ Range(scarce) \subseteq Range(resources)
  THEN [resources |-> Range(resources), scarce |-> Range(scarce)]
  ELSE [resources |-> {"refused"}, scarce |-> {}]
Readable(vocabulary) == "refused" \notin vocabulary.resources

\* part_name(), needs_of(): a part is the set of what its tests need.
Base == {}
NeedSet(node, carrying) == {name \in DOMAIN carrying : node \in carrying[name]}
ScarceParts(parts, scarce) == {p \in parts : p \cap scarce # {}}
\* Mutant: what the part does not need is not excluded.
SelectingLoose(vocabulary, part) == [with |-> part, without |-> {}]
\* selecting(): the resources it needs, and none of the others.
Selecting(vocabulary, part) == [with |-> part, without |-> vocabulary.resources \ part]
Selected(expression, ids, carrying) ==
  {n \in ids : /\ \A r \in expression.with : n \in carrying[r]
               /\ \A r \in expression.without : n \notin carrying[r]}

\* read_builds(): what is refused, and the install that several commits may share.
Builds(d) ==
  CASE \/ ~(d.timeouts \subseteq {"full", "incremental"}) \/ d.wall.floor > d.wall.ceiling
       \/ d.inputs /\ ~d.roots
       \/ d.inputs /\ d.install # "none" /\ d.install # "uv sync"
       \/ d.nativeInputs # d.nativeBuild -> [refused |-> TRUE, project |-> FALSE]
    [] OTHER -> [refused |-> FALSE, project |-> ~d.inputs]

\* Mutant: what was measured may pass the ceiling.
BoundUnceiled(wall, measured) ==
  IF measured = 0 THEN Min({wall.ceiling, wall.unmeasured}) ELSE Max({wall.floor, wall.multiple * measured})
\* ItemWall.bound(): 0 is a test never measured.
Bound(wall, measured) ==
  IF measured = 0 THEN Min({wall.ceiling, wall.unmeasured})
  ELSE Min({wall.ceiling, Max({wall.floor, wall.multiple * measured})})

\* run.item_walls(): of a duration and of what a kill proved, the larger.
ItemWall(wall, duration, floor) == Bound(wall, Max({duration, floor}))

-----------------------------------------------------------------------------
(* A round's clock: of its tasks [submit, start, end, elapsed, cpus], 0 for *)
(* a time that is not known.                                               *)

MedianOf(s) == LET t == SortSeq(s, <) n == Len(t) IN (t[(n + 1) \div 2] + t[n \div 2 + 1]) \div 2
Known(tasks, what(_)) == SelectSeq([i \in DOMAIN tasks |-> what(tasks[i])], LAMBDA x : x > 0)

RoundClock(tasks, busy) ==
  LET submits == Known(tasks, LAMBDA t : t.submit)
      submit  == IF submits = <<>> THEN 0 ELSE Min(Range(submits))
      starts  == Known(tasks, LAMBDA t : t.start)
      ends    == Known(tasks, LAMBDA t : t.end)
      end     == IF ends = <<>> THEN submit ELSE Max(Range(ends))
      elapsed == IF tasks = <<>> THEN <<0>> ELSE [i \in DOMAIN tasks |-> tasks[i].elapsed]
  IN  [submit |-> submit, end |-> end, wall |-> end - submit, busy |-> busy,
       queue |-> IF starts = <<>> THEN 0 ELSE MedianOf(starts) - submit,
       tail |-> Max(Range(elapsed)) - MedianOf(elapsed),
       core |-> FoldSeq(LAMBDA t, sum : sum + t.elapsed * t.cpus, 0, tasks)]

\* Mutant: a round's wait for its gather is not counted.
PhasesGapless(prep, clocks) ==
  LET n == Len(clocks)
  IN  [wall |-> prep + clocks[n].end - clocks[1].submit, gap |-> 0,
       retry |-> FoldFunctionOnSet(LAMBDA c, sum : c.wall + sum, 0, clocks, 2 .. n)]
\* phases(): of one round or more.
Phases(prep, clocks) ==
  LET n   == Len(clocks)
      gap == MapThenSumSet(LAMBDA i : clocks[i + 1].submit - clocks[i].end, 1 .. n - 1)
  IN  [wall |-> prep + clocks[n].end - clocks[1].submit, gap |-> gap,
       retry |-> FoldFunctionOnSet(LAMBDA c, sum : c.wall + sum, 0, clocks, 2 .. n) + gap]

-----------------------------------------------------------------------------
(* What they promise.                                                      *)

\* needsets.py:19-26: the parts are a partition of the suite: the expression of a part
\* selects exactly the tests whose need-set it is, so every id is in one part, and a
\* scarce part is one that some scarce resource's test is in.
PartsPartition(vocabulary, ids, carrying) ==
  LET parts == {NeedSet(n, carrying) : n \in ids}
  IN  Readable(vocabulary) =>
        /\ \A n \in ids, p \in SUBSET vocabulary.resources :
             n \in Selected(Selecting(vocabulary, p), ids, carrying) <=> NeedSet(n, carrying) = p
        /\ UNION {Selected(Selecting(vocabulary, p), ids, carrying) : p \in ScarceParts(parts, vocabulary.scarce)} =
             UNION {carrying[r] : r \in vocabulary.scarce}

\* declared.py:1-30: no table is read as if it were not there: a declaration is read only
\* if the reader knows every table of it and retired none; and a shared environment
\* never holds the project of the commit that built it.
NothingUnknownIsRead(d) ==
  /\ Tables(d) = "read" => d.tables \subseteq KnownTables /\ d.tables \cap d.retired = {}
  /\ Tables(d) = "read" /\ ~Builds(d).refused => (d.inputs => d.roots /\ ~Builds(d).project)

\* builds.py:74-98: no test gets more than the ceiling, and below it none is killed before
\* the floor or before the multiple of what it measured.
WallsAreBounded(wall, duration, floor) ==
  LET given == ItemWall(wall, duration, floor)
  IN  /\ given <= wall.ceiling
      /\ \A seen \in {duration, floor} \ {0} :
           wall.floor <= wall.ceiling => given >= wall.floor /\ given >= Min({wall.ceiling, wall.multiple * seen})

\* phases.py:52-57: the wall of a run is its preparation, its first round and what the later
\* rounds added, the waits for a gather between them included.
PhasesAddUp(prep, clocks) == Phases(prep, clocks).wall = prep + clocks[1].wall + Phases(prep, clocks).retry
=============================================================================
