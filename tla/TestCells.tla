------------------------------ MODULE TestCells ------------------------------
(***************************************************************************)
(* What one test concluded: the pytest mapping of pytest_item.py, the test *)
(* cells of testcells.py, and the conclusion over cells of outcomes/.      *)
(* pytest_item.py runs on the cluster and imports nothing, so it restates  *)
(* the vocabulary of outcomes/; the two are kept apart here too.           *)
(***************************************************************************)
EXTENDS Integers, FiniteSets, SequencesExt, FiniteSetsExt

\* outcomes/status.py.  What a test's cell may read; the other retryable
\* statuses stand where "error" does.
Status == {"ok", "rejected", "not_applicable", "pending", "timeout", "unavailable", "error"}
Decided == {"ok", "rejected", "not_applicable"}
Expected == {"ok", "rejected"}

\* A test's cell, with its reason, and what it is declared to conclude; none is "ok".
TestCell(status, expected) == [status |-> status, expected |-> expected, why |-> "none"]

-----------------------------------------------------------------------------
(* The pytest mapping: one phase of one test.                              *)

\* `xfail`: pytest set the report's xfail reason; `text`: what its failure text
\* says; `site`: it is a skip with its (path, line, reason); `marks`: the markers
\* it carries.
Reports ==
  [when : {"setup", "call", "teardown"}, outcome : {"passed", "failed", "skipped"},
   xfail : BOOLEAN, site : BOOLEAN, text : {"plain", "timeout", "strict xpass"},
   marks : SUBSET {"resource", "not_applicable"}]

Nothing == TestCell("nothing", "ok")

\* An xfail, or a skip by the marker that declares it; a bare skip is refused.
Skipped(report) ==
  CASE ~report.site -> TestCell("rejected", "rejected")
    [] report.site /\ "resource" \in report.marks -> TestCell("unavailable", "ok")
    [] report.site /\ "resource" \notin report.marks /\ "not_applicable" \in report.marks ->
         TestCell("not_applicable", "ok")
    [] OTHER -> TestCell("rejected", "ok")

Failed(report) ==
  CASE report.text = "timeout" -> TestCell("timeout", "ok")
    [] report.text = "strict xpass" -> TestCell("ok", "rejected")
    [] OTHER -> TestCell(IF report.when = "call" THEN "rejected" ELSE "error", "ok")

\* judged(): Nothing for a phase that decides nothing.
Judged(report) ==
  CASE report.outcome = "skipped" -> Skipped(report)
    [] report.outcome = "failed" -> Failed(report)
    [] OTHER -> IF report.when # "call" THEN Nothing
                ELSE TestCell("ok", IF report.xfail THEN "rejected" ELSE "ok")

\* badness(): 0 for a decided miss, 1 for no answer, 2 for an answer as declared.
Badness(cell) ==
  IF cell.status \notin Decided THEN 1
  ELSE IF cell.status \in {cell.expected, "not_applicable"} THEN 2 ELSE 0


\* read_stream() on one id's lines: the worst phase, the first of equals.
Worst(held, cell) ==
  IF held = Nothing \/ Badness(cell) < Badness(held) THEN cell ELSE held

ReadCells(cells) == FoldLeft(Worst, Nothing, cells)

-----------------------------------------------------------------------------
(* testcells.py and the conclusion.                                        *)

\* Expectation.met_by(): "no answer" for a retryable status.
MetBy(cell) ==
  IF cell.status \notin Decided THEN "no answer"
  ELSE IF cell.status = "not_applicable" \/ cell.status = cell.expected THEN "met" ELSE "missed"

\* Conclusion.over()
Over(cells) ==
  CASE \E c \in cells : MetBy(c) = "missed" -> "FAIL"
    [] cells # {} /\ \A c \in cells : MetBy(c) = "met" -> "PASS"
    [] OTHER -> "INCONCLUSIVE"

\* conclude(): an id decided both ways makes a pass prove nothing.
Conclude(cells, flaky) ==
  IF flaky # {} /\ Over(cells) = "PASS" THEN "INCONCLUSIVE" ELSE Over(cells)

Unmerged == [cells |-> [n \in {} |-> Nothing], flaky |-> {}]

\* Mutant: the last decision wins.
MergedOneLast(held, source) ==
  [cells |-> [n \in DOMAIN held.cells \cup DOMAIN source |->
                IF n \in DOMAIN source THEN source[n] ELSE held.cells[n]],
   flaky |-> held.flaky]

\* merged(), one source at a time: a decided cell is final, and a second one
\* that differs, be it in its reason, makes the id flaky.
MergedOne(held, source) ==
  LET final == {n \in DOMAIN held.cells : held.cells[n].status \in Decided}
  IN  [cells |-> [n \in DOMAIN held.cells \cup DOMAIN source |->
                    IF n \in final \/ n \notin DOMAIN source THEN held.cells[n] ELSE source[n]],
       flaky |-> held.flaky \cup
                   {n \in final \cap DOMAIN source :
                      source[n].status \in Decided
                      /\ [source[n] EXCEPT !.expected = "ok"] # [held.cells[n] EXCEPT !.expected = "ok"]}]

Merged(sources) == FoldLeft(MergedOne, Unmerged, sources)

-----------------------------------------------------------------------------
\* pytest_item.py:184-189: a test is green only if it ran, or said by a marker
\* that it does not apply here, or failed as it was declared to: a skip that
\* nothing declares is a decided miss, and one for a resource answers nothing.
NoSkipIsGreen(report) ==
  LET cell == Judged(report)
  IN  report.outcome = "skipped" /\ report.site =>
        Over({cell}) = IF "resource" \in report.marks THEN "INCONCLUSIVE"
                       ELSE IF "not_applicable" \in report.marks THEN "PASS" ELSE "FAIL"

\* The restated badness is the conclusion of outcomes/: the cell that a test's
\* phases leave concludes what the phases conclude together.
WorstPhaseConcludes(cells) == cells # <<>> => Over({ReadCells(cells)}) = Over(Range(cells))

\* testcells.py:12-15: whichever process is read first, the merged run concludes
\* the same of an id, and nothing green where two processes decided otherwise.
MergeIsOrderFree(sources) ==
  LET ids(m)  == DOMAIN m.cells
      this    == Merged(sources)
      back    == Merged(Reverse(sources))
      decided(n) == {[q[n] EXCEPT !.expected = "ok"] : q \in {r \in Range(sources) : n \in DOMAIN r /\ r[n].status \in Decided}}
  IN  /\ ids(this) = ids(back) /\ this.flaky = back.flaky
      /\ this.flaky = {n \in ids(this) : Cardinality(decided(n)) > 1}
      /\ this.flaky # {} => Conclude(Range(this.cells), this.flaky) # "PASS"
      /\ this.flaky = {} => Over(Range(this.cells)) = Over(Range(back.cells))
=============================================================================
