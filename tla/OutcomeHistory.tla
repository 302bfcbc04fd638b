--------------------------- MODULE OutcomeHistory ---------------------------
(***************************************************************************)
(* What a record of outcomes promises: per identity, a history of cells    *)
(* that is only ever extended, and that nothing follows a decision in.     *)
(***************************************************************************)
EXTENDS Sequences, SequencesExt

CONSTANTS Key, Cell, Decided

VARIABLE history  \* per identity, the outcomes a reader will always find

Legal(h) == \A k \in Key : \A i \in DOMAIN h[k] : i < Len(h[k]) => h[k][i] \notin Decided

Init == Legal(history)

\* Some attempts become durable: one, or those a crash had kept in memory.
Extend ==
  /\ Legal(history')
  /\ \A k \in Key : IsPrefix(history[k], history'[k])

Spec == Init /\ [][Extend]_history
=============================================================================
