------------------------------ MODULE BoxSupply ------------------------------
(***************************************************************************)
(* What a NEW claim may take of the box: box/supply.py, and the admission  *)
(* rule of resources/engine.py as box/providers.py feeds it.               *)
(*                                                                         *)
(* The ledger's rows are a function from row ids to records; the fields    *)
(* read here are pid, need and kept.  An amount is counted in UNITS: the   *)
(* row i that declares n of r owns the units <<i, 1>> .. <<i, n>> of r,    *)
(* so a sum over the rows is the cardinality of a set of units.            *)
(***************************************************************************)
EXTENDS Integers, FiniteSets, FiniteSetsExt, Functions

CONSTANTS
  Pid,        \* process ids
  NoPid,      \* "nobody asks" (asker = None)
  Share,      \* measured dimensions: cores, memory
  Seat,       \* counted resources: tool seats, lent slots
  Watched,    \* the seats whose use is also observed in the process table
  Size,       \* what the box lends of every resource (Capacity): shares less Reserve
  Reserve,    \* the [reserve] margin: what is kept free of every share beside Size
  MaxUnits    \* the largest amount of one resource a row can carry

Resource == Share \cup Seat
Unit == 1 .. MaxUnits
Need == [Resource -> 0 .. MaxUnits]

ASSUME SupplyAssumption ==
  /\ NoPid \notin Pid /\ IsFiniteSet(Pid)
  /\ Share \cap Seat = {}
  /\ Watched \subseteq Seat
  /\ MaxUnits \in Nat
  /\ Size \in [Resource -> 0 .. MaxUnits]
  /\ Reserve \in [Share -> Nat]

\* One sample of the OS: idle amounts, the use of every listed process tree,
\* and the observed use of the watched seats it could observe.
Reading ==
  [idle  : [Share -> Int],
   usage : [Pid -> [Share -> Nat]],
   seen  : UNION {[W -> Nat] : W \in SUBSET Watched}]

\* The reading of a seats-only demand, for which the OS is not sampled.
NoShare ==
  [idle  |-> [d \in Share |-> 0],
   usage |-> [p \in Pid |-> [d \in Share |-> 0]],
   seen  |-> [s \in {} |-> 0]]

TakesNoShare(need) == \A d \in Share : need[d] = 0

AtLeast0(n) == IF n > 0 THEN n ELSE 0

\* The units of r the rows declare, and those of d their trees use now.
Declared(rows, r) ==
  {u \in (DOMAIN rows) \X Unit : u[2] <= rows[u[1]].need[r]}

InUse(rows, reading, d) ==
  {u \in (DOMAIN rows) \X Unit : u[2] <= reading.usage[rows[u[1]].pid][d]}

\* The asker's own growing claims: a kept one is another run's reservation.
Own(rows, asker) == {i \in DOMAIN rows : rows[i].pid = asker /\ ~rows[i].kept}

\* Mutants: the idle amount alone; and what claims have yet to take forgotten.
ShareLeftIdle(rows, reading, asker, d) == AtLeast0(reading.idle[d] - Reserve[d])

ShareLeftUnowed(rows, reading, asker, d) ==
  LET free     == reading.idle[d] - Reserve[d]
      unbooked == Size[d] - Cardinality(Declared(rows, d))
  IN  AtLeast0(IF free < unbooked THEN free ELSE unbooked)

\* OS free less what the others are still owed, capped at the size less every
\* declaration; of the asker's own claims only what is in use counts.
ShareLeft(rows, reading, asker, d) ==
  LET own      == Own(rows, asker)
      declared == Declared(rows, d)
      used     == InUse(rows, reading, d)
      owed     == {u \in declared \ used : u[1] \notin own}
      booked   == {u \in declared : u[1] \in own => u \in used}
      free     == reading.idle[d] - Reserve[d] - Cardinality(owed)
      unbooked == Size[d] - Cardinality(booked)
  IN  AtLeast0(IF free < unbooked THEN free ELSE unbooked)

\* Mutant: a kept claim, which no body holds, is not counted.
SeatsLeftUnkept(rows, reading, s) ==
  AtLeast0(Size[s] - Cardinality({u \in Declared(rows, s) : ~rows[u[1]].kept}))

\* Size less the larger of the claimed and the observed; a watched seat that
\* could not be observed lends nothing.
SeatsLeft(rows, reading, s) ==
  LET claimed == Cardinality(Declared(rows, s))
      taken   == IF s \in Watched /\ reading.seen[s] > claimed
                 THEN reading.seen[s] ELSE claimed
  IN  IF s \in Watched /\ s \notin DOMAIN reading.seen
      THEN 0 ELSE AtLeast0(Size[s] - taken)

Room(rows, reading, asker, r) ==
  IF r \in Share THEN ShareLeft(rows, reading, asker, r)
                 ELSE SeatsLeft(rows, reading, r)

\* Mutant: any room at all is enough.
FitsSomehow(rows, reading, asker, need) ==
  \A r \in Resource : need[r] > 0 => Room(rows, reading, asker, r) > 0

\* THE RULE: the measured supply is the room plus what is held, the demand
\* must fit it less what is held.
Fits(rows, reading, asker, need) ==
  \A r \in Resource : need[r] <= Room(rows, reading, asker, r)

\* A demand an empty box does not admit is refused at once.
NeverFits(need) == \E r \in Resource : need[r] > Size[r]
=============================================================================
