------------------------------- MODULE MCHpcRun -------------------------------
(* Small instances of HpcRun.                                              *)
EXTENDS HpcRun
CONSTANTS a, b, c, nothing, tick
\* One item of two tests; one of one test, with a call cut short or its jobs
\* cancelled; and one of one test that nothing disturbs.
OnePair == [packed |-> <<<<a, b>>>>, carried |-> {c}, outages |-> 0]
OneCut == [packed |-> <<<<a>>>>, carried |-> {b, c}, outages |-> 1]
PairAndCut == {OnePair, OneCut}
OnlyA == {[packed |-> <<<<a>>>>, carried |-> {b, c}, outages |-> 0]}
Heavy == [n \in Test |-> IF n = b THEN 1 ELSE 0]
=============================================================================
