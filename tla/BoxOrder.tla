------------------------------- MODULE BoxOrder -------------------------------
(***************************************************************************)
(* The queue's one ordering rule, backfill by reservation: box/order.py.   *)
(***************************************************************************)
EXTENDS BoxSupply

\* Whether a ticket asking `ahead` wants any resource `need` takes.
Contends(need, ahead) == \E r \in Resource : need[r] > 0 /\ ahead[r] > 0

\* The reading once the rows of `gone` ended: what their trees use is idle.
Released(rows, reading, gone) ==
  [reading EXCEPT !.idle =
     [d \in Share |->
        reading.idle[d] + Cardinality({u \in InUse(rows, reading, d) : u[1] \in gone})]]

\* The moments at which `need` fits: now, else the deadlines by which enough
\* claims end.  Empty when what keeps it out is outside the ledger.
Starts(rows, reading, need, now) ==
  IF Fits(rows, reading, NoPid, need)
  THEN {now}
  ELSE {m \in {rows[i].deadline : i \in DOMAIN rows} :
          LET gone == {i \in DOMAIN rows : rows[i].deadline <= m}
          IN  Fits(Restrict(rows, DOMAIN rows \ gone),
                   Released(rows, reading, gone), NoPid, need)}

\* The rows with one more claim, under an id no row has.
Beside(rows, claim) ==
  [i \in DOMAIN rows \cup {0} |-> IF i = 0 THEN claim ELSE rows[i]]

\* Mutant: the start is compared without the jumper's claim.
BlocksUnhurt(ahead, jumper, rows, reading, now) ==
  LET before == Starts(rows, reading, ahead, now)
  IN  /\ Contends(jumper.need, ahead)
      /\ before # {}
      /\ Min(before) > Min(Starts(rows, reading, ahead, now))

\* Whether an earlier ticket asking `ahead` orders the claim `jumper` behind
\* it: they contend, and holding the jumper moves the ticket's start later.
Blocks(ahead, jumper, rows, reading, now) ==
  LET before == Starts(rows, reading, ahead, now)
      after  == Starts(Beside(rows, jumper), reading, ahead, now)
  IN  /\ Contends(jumper.need, ahead)
      /\ before # {}
      /\ after = {} \/ Min(after) > Min(before)
=============================================================================
