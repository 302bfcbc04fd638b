--------------------------- MODULE BoxLedgerProofs ---------------------------
(***************************************************************************)
(* Theorems about the ledger, for every box, every set of processes and    *)
(* every bound, in four parts: the types and the seats; who holds what;    *)
(* what the rows stand for; and the room an admission takes and a refusal  *)
(* finds.                                                                  *)
(***************************************************************************)
EXTENDS BoxLedger, FiniteSetTheorems, TLAPS

-----------------------------------------------------------------------------
(* The types and the seats.  First come facts about the units rows         *)
(* declare: they are finitely many, fewer rows declare no more, one row    *)
(* more declares exactly its need more.                                    *)

\* Finitely many rows declare finitely many units, a natural number of them.
LEMMA DeclaredIsFinite ==
  ASSUME NEW rows, NEW r, IsFiniteSet(DOMAIN rows)
  PROVE  /\ IsFiniteSet(Declared(rows, r))
         /\ Cardinality(Declared(rows, r)) \in Nat
<1>1. MaxUnits \in Int
  BY SupplyAssumption
<1>2. IsFiniteSet(Unit)
  BY <1>1, FS_Interval DEF Unit
<1>3. IsFiniteSet((DOMAIN rows) \X Unit)
  BY <1>2, FS_Product
<1>4. Declared(rows, r) \in SUBSET ((DOMAIN rows) \X Unit)
  BY DEF Declared
<1>5. IsFiniteSet(Declared(rows, r))
  BY <1>3, <1>4, FS_Subset
<1> QED
  BY <1>5, FS_CardinalityType

\* Rows that each have a counterpart of the same need among `rows` declare no
\* more than those.
LEMMA FewerDeclareLess ==
  ASSUME NEW rows, NEW fewer, NEW r, IsFiniteSet(DOMAIN rows),
         DOMAIN fewer \subseteq DOMAIN rows,
         \A i \in DOMAIN fewer : fewer[i].need = rows[i].need
  PROVE  Cardinality(Declared(fewer, r)) <= Cardinality(Declared(rows, r))
<1>1. Declared(fewer, r) \in SUBSET Declared(rows, r)
  BY DEF Declared
<1> QED
  BY <1>1, DeclaredIsFinite, FS_Subset

\* One more row adds at most its need to what the others declare.
LEMMA OneMoreDeclaresItsNeed ==
  ASSUME NEW rows, NEW more, NEW new, NEW r \in Resource,
         IsFiniteSet(DOMAIN rows),
         DOMAIN more = DOMAIN rows \cup {new},
         \A i \in DOMAIN rows \ {new} : more[i].need = rows[i].need,
         more[new].need \in Need
  PROVE  Cardinality(Declared(more, r))
           <= Cardinality(Declared(rows, r)) + more[new].need[r]
<1> DEFINE n   == more[new].need[r]
           own == {new} \X (1 .. n)
<1>1. n \in Nat /\ n \in Int /\ n <= MaxUnits
  BY SupplyAssumption DEF Need
<1>2. /\ IsFiniteSet(1 .. n)
      /\ Cardinality(1 .. n) = n
  <2>1. \A m \in Nat : IsFiniteSet(1 .. m) /\ Cardinality(1 .. m) = m
    BY FS_Interval
  <2> QED
    BY <1>1, <2>1
<1>3. /\ IsFiniteSet({new})
      /\ Cardinality({new}) = 1
  BY FS_Singleton
<1>4. IsFiniteSet(own) /\ Cardinality(own) = n
  BY <1>1, <1>2, <1>3, FS_Product
<1>5. IsFiniteSet(Declared(rows, r)) /\ Cardinality(Declared(rows, r)) \in Nat
  BY DeclaredIsFinite
<1>6. Declared(more, r) \in SUBSET (Declared(rows, r) \cup own)
  <2> SUFFICES ASSUME NEW u \in Declared(more, r), u \notin own
               PROVE  u \in Declared(rows, r)
    OBVIOUS
  <2>1. u \in (DOMAIN more) \X Unit /\ u[2] <= more[u[1]].need[r]
    BY DEF Declared
  <2>2. u[1] # new
    <3>1. SUFFICES ASSUME u[1] = new PROVE u \in own
      OBVIOUS
    <3>2. u[2] \in 1 .. n
      BY <1>1, <2>1, <3>1, SupplyAssumption DEF Unit
    <3> QED
      BY <2>1, <3>1, <3>2
  <2> QED
    BY <2>1, <2>2 DEF Declared
<1>7. /\ IsFiniteSet(Declared(rows, r) \cup own)
      /\ Cardinality(Declared(rows, r) \cup own)
           = Cardinality(Declared(rows, r)) + n - Cardinality(Declared(rows, r) \cap own)
  BY <1>4, <1>5, FS_Union
<1>8. Cardinality(Declared(rows, r) \cap own) \in Nat
  <2>1. Declared(rows, r) \cap own \in SUBSET own
    OBVIOUS
  <2> QED
    BY <1>4, <2>1, FS_Subset, FS_CardinalityType
<1>9. Cardinality(Declared(more, r)) <= Cardinality(Declared(rows, r) \cup own)
  BY <1>6, <1>7, FS_Subset
<1>10. Cardinality(Declared(more, r)) \in Nat
  <2>1. IsFiniteSet(Declared(more, r))
    BY <1>6, <1>7, FS_Subset
  <2> QED
    BY <2>1, FS_CardinalityType
<1> HIDE DEF n, own
<1>11. Cardinality(Declared(more, r)) <= Cardinality(Declared(rows, r)) + n
  BY <1>1, <1>5, <1>7, <1>8, <1>9, <1>10
<1> QED
  BY <1>11 DEF n

\* A demand that fits takes no seat beyond what the rows leave of its size.
LEMMA FittingSeatsAreFree ==
  ASSUME NEW rows, NEW reading, NEW asker, NEW need \in Need, NEW s \in Seat,
         IsFiniteSet(DOMAIN rows), Fits(rows, reading, asker, need), need[s] > 0,
         s \in DOMAIN reading.seen => reading.seen[s] \in Nat
  PROVE  Cardinality(Declared(rows, s)) + need[s] <= Size[s]
<1> DEFINE claimed == Cardinality(Declared(rows, s))
<1>1. s \in Resource /\ s \notin Share /\ Size[s] \in Nat /\ need[s] \in Nat
  BY SupplyAssumption DEF Resource, Need
<1>2. claimed \in Nat
  BY DeclaredIsFinite
<1>3. need[s] <= SeatsLeft(rows, reading, s)
  BY <1>1 DEF Fits, Room
<1> HIDE DEF claimed
<1>4. SeatsLeft(rows, reading, s) <= AtLeast0(Size[s] - claimed)
  <2>1. CASE s \in Watched /\ s \notin DOMAIN reading.seen
    BY <1>1, <1>2, <2>1 DEF SeatsLeft, AtLeast0
  <2>2. CASE s \in Watched /\ s \in DOMAIN reading.seen
    BY <1>1, <1>2, <2>2 DEF SeatsLeft, AtLeast0, claimed
  <2>3. CASE s \notin Watched
    BY <1>1, <1>2, <2>3 DEF SeatsLeft, AtLeast0, claimed
  <2> QED
    BY <2>1, <2>2, <2>3
<1>5. need[s] <= Size[s] - claimed
  <2>1. SeatsLeft(rows, reading, s) \in Int
    BY <1>1, <1>2 DEF SeatsLeft, AtLeast0, claimed
  <2> QED
    BY <1>1, <1>2, <1>3, <1>4, <2>1 DEF AtLeast0
<1> QED
  BY <1>1, <1>2, <1>5 DEF claimed

\* A demand for a share that fits is covered by what is idle beside the margin
\* and what the other claims have yet to take, and by what no claim has booked.
LEMMA FittingSharesAreFree ==
  ASSUME NEW rows, NEW reading, NEW asker, NEW need \in Need, NEW d \in Share,
         IsFiniteSet(DOMAIN rows), Fits(rows, reading, asker, need), need[d] > 0,
         reading.idle[d] \in Int, Own(rows, asker) = {}
  PROVE  /\ Cardinality(Declared(rows, d)) + need[d] <= Size[d]
         /\ need[d] <= reading.idle[d] - Reserve[d]
                         - Cardinality(Declared(rows, d) \ InUse(rows, reading, d))
<1> DEFINE declared == Declared(rows, d)
           owed     == declared \ InUse(rows, reading, d)
<1>1. d \in Resource /\ Size[d] \in Nat /\ Reserve[d] \in Nat /\ need[d] \in Nat
  BY SupplyAssumption DEF Resource, Need
<1>2. /\ owed = {u \in owed : u[1] \notin Own(rows, asker)}
      /\ declared = {u \in declared : u[1] \in Own(rows, asker) => u \in InUse(rows, reading, d)}
  OBVIOUS
<1>3. Cardinality(declared) \in Nat /\ Cardinality(owed) \in Nat
  <2>1. IsFiniteSet(declared) /\ Cardinality(declared) \in Nat
    BY DeclaredIsFinite
  <2> QED
    BY <2>1, FS_Difference, FS_CardinalityType
<1>4. need[d] <= ShareLeft(rows, reading, asker, d)
  BY <1>1 DEF Fits, Room
<1> DEFINE free     == reading.idle[d] - Reserve[d] - Cardinality(owed)
           unbooked == Size[d] - Cardinality(declared)
<1>5. ShareLeft(rows, reading, asker, d) = AtLeast0(IF free < unbooked THEN free ELSE unbooked)
  BY <1>2 DEF ShareLeft
<1> HIDE DEF declared, owed
<1> QED
  BY <1>1, <1>3, <1>4, <1>5 DEF AtLeast0, declared, owed

\* What fits beside some rows fits beside fewer of them: a claim that goes
\* away never takes room from an asker.
LEMMA FewerLeaveMore ==
  ASSUME NEW rows, NEW fewer, NEW reading, NEW asker, NEW need \in Need,
         IsFiniteSet(DOMAIN rows), DOMAIN fewer \subseteq DOMAIN rows,
         \A i \in DOMAIN fewer : fewer[i] = rows[i],
         reading \in Reading, Fits(rows, reading, asker, need)
  PROVE  Fits(fewer, reading, asker, need)
<1> SUFFICES ASSUME NEW r \in Resource PROVE need[r] <= Room(fewer, reading, asker, r)
  BY DEF Fits
<1>1. need[r] \in Nat /\ Size[r] \in Nat /\ need[r] <= Room(rows, reading, asker, r)
  BY SupplyAssumption DEF Need, Fits
<1>2. IsFiniteSet(Declared(rows, r)) /\ Declared(fewer, r) \in SUBSET Declared(rows, r)
  BY DeclaredIsFinite DEF Declared
<1>3. CASE r \in Share
  <2> DEFINE owed(R)   == {u \in Declared(R, r) \ InUse(R, reading, r) : u[1] \notin Own(R, asker)}
             booked(R) == {u \in Declared(R, r) : u[1] \in Own(R, asker) => u \in InUse(R, reading, r)}
             free(R)     == reading.idle[r] - Reserve[r] - Cardinality(owed(R))
             unbooked(R) == Size[r] - Cardinality(booked(R))
  <2>1. owed(fewer) \subseteq owed(rows) /\ booked(fewer) \subseteq booked(rows)
    BY DEF Declared, InUse, Own
  <2>2. /\ Cardinality(owed(fewer)) <= Cardinality(owed(rows))
        /\ Cardinality(booked(fewer)) <= Cardinality(booked(rows))
        /\ Cardinality(owed(fewer)) \in Nat /\ Cardinality(owed(rows)) \in Nat
        /\ Cardinality(booked(fewer)) \in Nat /\ Cardinality(booked(rows)) \in Nat
    <3>1. owed(rows) \in SUBSET Declared(rows, r) /\ booked(rows) \in SUBSET Declared(rows, r)
      OBVIOUS
    <3>2. IsFiniteSet(owed(rows)) /\ IsFiniteSet(booked(rows))
      BY <1>2, <3>1, FS_Subset
    <3>3. IsFiniteSet(owed(fewer)) /\ IsFiniteSet(booked(fewer))
      BY <2>1, <3>2, FS_Subset
    <3> HIDE DEF owed, booked
    <3> QED
      BY <2>1, <3>2, <3>3, FS_Subset, FS_CardinalityType
  <2>3. reading.idle[r] \in Int /\ Reserve[r] \in Int
    BY <1>3, SupplyAssumption DEF Reading
  <2>4. \A R : Room(R, reading, asker, r)
                 = AtLeast0(IF free(R) < unbooked(R) THEN free(R) ELSE unbooked(R))
    BY <1>3 DEF Room, ShareLeft
  <2> HIDE DEF owed, booked
  <2>5. /\ free(rows) \in Int /\ free(fewer) \in Int /\ free(rows) <= free(fewer)
        /\ unbooked(rows) \in Int /\ unbooked(fewer) \in Int /\ unbooked(rows) <= unbooked(fewer)
    BY <1>1, <2>2, <2>3
  <2> HIDE DEF free, unbooked
  <2> QED
    BY <1>1, <2>4, <2>5 DEF AtLeast0
<1>4. CASE r \notin Share
  <2>1. /\ Cardinality(Declared(fewer, r)) <= Cardinality(Declared(rows, r))
        /\ Cardinality(Declared(fewer, r)) \in Nat /\ Cardinality(Declared(rows, r)) \in Nat
    BY <1>2, FS_Subset, FS_CardinalityType
  <2>2. r \in DOMAIN reading.seen => reading.seen[r] \in Nat
    BY DEF Reading
  <2>3. \A R : Room(R, reading, asker, r) = SeatsLeft(R, reading, r)
    BY <1>4 DEF Room
  <2> QED
    BY <1>1, <2>1, <2>2, <2>3 DEF SeatsLeft, AtLeast0
<1> QED
  BY <1>3, <1>4

\* What the sample says the processes use of a share.
Uses(reading, d) == {x \in Pid \X Unit : x[2] <= reading.usage[x[1]][d]}

\* Where no two rows are of one process, the units declared and in use are no
\* more than what the processes use.
LEMMA UsedOncePerProcess ==
  ASSUME NEW rows, NEW reading, NEW d \in Share, reading \in Reading,
         \A i \in DOMAIN rows : rows[i].pid \in Pid,
         \A i, j \in DOMAIN rows : rows[i].pid = rows[j].pid => i = j
  PROVE  /\ Cardinality(Declared(rows, d) \cap InUse(rows, reading, d))
              <= Cardinality(Uses(reading, d))
         /\ Cardinality(Uses(reading, d)) \in Nat
<1> DEFINE uses == Uses(reading, d)
           both == Declared(rows, d) \cap InUse(rows, reading, d)
           f    == [u \in both |-> <<rows[u[1]].pid, u[2]>>]
<1>1. IsFiniteSet(uses)
  <2>1. MaxUnits \in Int
    BY SupplyAssumption
  <2>2. IsFiniteSet(Unit)
    BY <2>1, FS_Interval DEF Unit
  <2>3. IsFiniteSet(Pid \X Unit) /\ uses \in SUBSET (Pid \X Unit)
    BY <2>2, SupplyAssumption, FS_Product DEF Uses
  <2> QED
    BY <2>3, FS_Subset
<1>2. f \in [both -> uses]
  BY DEF InUse, Uses
<1>3. ASSUME NEW u \in both, NEW v \in both, f[u] = f[v] PROVE u = v
  <2>1. u \in (DOMAIN rows) \X Unit /\ v \in (DOMAIN rows) \X Unit
    BY DEF InUse
  <2>2. rows[u[1]].pid = rows[v[1]].pid /\ u[2] = v[2]
    BY <1>3
  <2> QED
    BY <2>1, <2>2
<1>4. f \in Injection(both, uses)
  BY <1>2, <1>3 DEF Injection, IsInjective
<1> HIDE DEF f, both, uses
<1> QED
  BY <1>1, <1>4, FS_Injection, FS_CardinalityType DEF both, uses

-----------------------------------------------------------------------------
\* A caller past its admission has the id of a claim: what TypeOK lacks to be
\* inductive, for that id becomes a body, a program, a job.
HasClaim == \A p \in Pid : call[p].pc \in {"won", "submit", "adopt"} => call[p].id \in ClaimId

TypeInv == TypeOK /\ HasClaim

-----------------------------------------------------------------------------
\* What the initial and the intermediate records are.

\* No demand is a demand.
LEMMA NothingIsNeed == Nothing \in Need
BY SupplyAssumption DEF Nothing, Need

\* The reading of a demand for seats only is a reading.
LEMMA NoShareIsReading == NoShare \in Reading
<1>1. {} \in SUBSET Watched /\ [s \in {} |-> 0] \in [{} -> Nat]
  OBVIOUS
<1>2. [s \in {} |-> 0] \in UNION {[W -> Nat] : W \in SUBSET Watched}
  BY <1>1
<1> QED
  BY <1>2 DEF NoShare, Reading

\* A process in no call has a call record.
LEMMA IdleIsCall == Idle \in Call
BY NothingIsNeed, NoShareIsReading, LedgerAssumption
   DEF Idle, Call, Steps, CallKinds, Time

\* The pairs of a process and a unit are finitely many, so any set of them has
\* a size.
LEMMA UsesAreCounted ==
  ASSUME NEW X \in SUBSET (Pid \X Unit)
  PROVE  Cardinality(X) \in Nat
<1>1. IsFiniteSet(Unit)
  <2>1. MaxUnits \in Int
    BY SupplyAssumption
  <2> QED
    BY <2>1, FS_Interval DEF Unit
<1>2. IsFiniteSet(Pid \X Unit)
  BY <1>1, SupplyAssumption, FS_Product
<1> QED
  BY <1>2, FS_Subset, FS_CardinalityType

\* Finitely many ids were given out.
LEMMA ClaimsAreFinite ==
  ASSUME TypeOK
  PROVE  IsFiniteSet(DOMAIN claims)
<1>1. claimSeq \in Int /\ DOMAIN claims \in SUBSET (1 .. claimSeq)
  BY LedgerAssumption DEF TypeOK
<1>2. IsFiniteSet(1 .. claimSeq)
  BY <1>1, FS_Interval
<1> QED
  BY <1>1, <1>2, FS_Subset

\* What the OS is sampled for has the type of a reading.
LEMMA ReadingsAreReadings ==
  ASSUME TypeOK
  PROVE  Readings \subseteq Reading
<1> SUFFICES ASSUME NEW x \in Readings PROVE x \in Reading
  OBVIOUS
<1> DEFINE running == Restrict(claims, DOMAIN claims \cap DOMAIN programs)
           uses(u, d) == {y \in Pid \X Unit : y[2] <= u[y[1]][d]}
<1>0. PICK u \in Usages, f \in Foreign, n \in 0 .. ForeignSeats : x = Sample(u, f, n)
  BY DEF Readings
<1>u. u \in [Pid -> [Share -> 0 .. MaxUnits]]
  BY DEF Usages
<1>1. /\ x.idle = [d \in Share |-> AtLeast0(Size[d] + Reserve[d] - f[d] - Cardinality(uses(u, d)))]
      /\ x.usage = u
      /\ x.seen = [s \in Watched |-> Cardinality(Declared(running, s)) + n]
      /\ x = [idle |-> x.idle, usage |-> x.usage, seen |-> x.seen]
  BY <1>0 DEF Sample
<1>2. x.idle \in [Share -> Int]
  <2>1. \A d \in Share : Cardinality(uses(u, d)) \in Nat
    BY UsesAreCounted
  <2>2. \A d \in Share : Size[d] \in Int /\ Reserve[d] \in Int /\ f[d] \in Int
    BY SupplyAssumption, LedgerAssumption DEF Resource
  <2> HIDE DEF uses
  <2> QED
    BY <1>1, <2>1, <2>2 DEF AtLeast0
<1>3. x.usage \in [Pid -> [Share -> Nat]]
  BY <1>1, <1>u, SupplyAssumption
<1>4. x.seen \in [Watched -> Nat]
  <2>1. IsFiniteSet(DOMAIN running)
    <3>1. DOMAIN running \in SUBSET DOMAIN claims
      BY DEF Restrict
    <3> QED
      BY <3>1, ClaimsAreFinite, FS_Subset
  <2>2. \A s \in Watched : Cardinality(Declared(running, s)) \in Nat
    BY <2>1, DeclaredIsFinite
  <2>3. n \in Nat
    BY LedgerAssumption
  <2> HIDE DEF running
  <2> QED
    BY <1>1, <2>2, <2>3
<1>5. x.seen \in UNION {[W -> Nat] : W \in SUBSET Watched}
  BY <1>4
<1> QED
  BY <1>1, <1>2, <1>3, <1>5 DEF Reading

\* Reaping only takes rows away.
LEMMA ReapingRestricts ==
  ASSUME TypeOK, NEW dead
  PROVE  /\ DOMAIN ClaimsLeft(dead) \subseteq DOMAIN claims
         /\ \A i \in DOMAIN ClaimsLeft(dead) : ClaimsLeft(dead)[i] = claims[i]
         /\ DOMAIN TicketsLeft \subseteq DOMAIN tickets
         /\ \A t \in DOMAIN TicketsLeft : TicketsLeft[t] = tickets[t]
         /\ ClaimsLeft(dead) \in [DOMAIN ClaimsLeft(dead) -> Row]
         /\ TicketsLeft \in [DOMAIN TicketsLeft -> Ticket]
BY DEF TypeOK, ClaimsLeft, TicketsLeft, Restrict

\* The jobs found dead are ids of claims.
LEMMA DeadAreIds ==
  ASSUME TypeOK, NEW D \in DeadExternals
  PROVE  D \in SUBSET ClaimId
BY LedgerAssumption DEF TypeOK, DeadExternals, ClaimId

\* The updates of a row keep its type, and its need and key.
LEMMA RowUpdates ==
  ASSUME NEW row \in Row, NEW p \in Pid, NEW born \in Stamp, NEW probe \in Probes
  PROVE  LET kept  == [row EXCEPT !.kept = TRUE]
             job_  == [row EXCEPT !.kept = TRUE, !.probe = probe]
             moved == [row EXCEPT !.pid = p, !.born = born, !.kept = TRUE]
         IN  /\ kept \in Row /\ job_ \in Row /\ moved \in Row
             /\ kept.need = row.need /\ kept.key = row.key
             /\ job_.need = row.need /\ job_.key = row.key
             /\ moved.need = row.need /\ moved.key = row.key
BY DEF Row

\* UPDATE ... WHERE id = i keeps the table's type.
LEMMA UpdatedRows ==
  ASSUME TypeOK, NEW i, NEW row, i \in DOMAIN claims => row \in Row
  PROVE  /\ DOMAIN Updated(i, row) = DOMAIN claims
         /\ Updated(i, row) \in [DOMAIN claims -> Row]
BY DEF TypeOK, Updated

-----------------------------------------------------------------------------
\* The type invariant.

\* The first state has the types.
LEMMA TypeInit == Init => TypeInv
<1> SUFFICES ASSUME Init PROVE TypeInv
  OBVIOUS
<1>1. call \in [Pid -> Call]
  BY IdleIsCall DEF Init
<1>2. /\ now \in 0 .. MaxTime /\ inc \in [Pid -> 1 .. MaxStamp]
      /\ claimSeq \in 0 .. MaxClaims /\ ticketSeq \in 0 .. MaxTickets
  BY LedgerAssumption DEF Init
<1>3. TypeOK
  BY <1>1, <1>2 DEF Init, TypeOK
<1>4. HasClaim
  BY DEF Init, HasClaim, Idle
<1> QED
  BY <1>3, <1>4 DEF TypeInv

\* Every step keeps the types.
LEMMA TypeNext == TypeInv /\ [Next]_vars => TypeInv'
<1> SUFFICES ASSUME TypeOK, HasClaim, [Next]_vars PROVE TypeOK' /\ HasClaim'
  BY DEF TypeInv
<1> USE LedgerAssumption
<1>s. \A p \in Pid : StampOf(p) \in Stamp
  BY DEF TypeOK, StampOf, Stamp, NoStamp
<1>c. ASSUME NEW p \in Pid, NEW c \in Call, call' = [call EXCEPT ![p] = c],
             c.pc \in {"won", "submit", "adopt"} => c.id \in ClaimId
      PROVE  call' \in [Pid -> Call] /\ HasClaim'
  BY <1>c DEF TypeOK, HasClaim
<1>1. ASSUME NEW p \in Pid, NEW kind \in Kinds, NEW need \in Asks, NEW wall \in Walls,
             NEW queue \in Queues, NEW key \in Keys, Ask(p, kind, need, wall, queue, key)
      PROVE  TypeOK' /\ HasClaim'
  <2> DEFINE c == [Idle EXCEPT !.pc = "look", !.kind = kind, !.need = need,
                               !.wall = wall, !.key = key, !.ticket = ticketSeq + 1,
                               !.givesUp = now + queue]
  <2>0. /\ kind \in CallKinds /\ need \in Need /\ wall \in Nat
        /\ key \in Keys \cup {DeclaredKey} /\ ticketSeq + 1 \in 0 .. MaxTickets
        /\ now + queue \in Time
    BY <1>1 DEF Ask, TypeOK, Time
  <2>1. c \in Call /\ c.pc = "look"
    BY <2>0, IdleIsCall DEF Call, Steps
  <2>2. call' = [call EXCEPT ![p] = c]
    BY <1>1 DEF Ask
  <2> HIDE DEF c
  <2>3. call' \in [Pid -> Call] /\ HasClaim'
    BY <2>1, <2>2, <1>c
  <2>4. /\ DOMAIN tickets' \subseteq 1 .. ticketSeq' /\ tickets' \in [DOMAIN tickets' -> Ticket]
        /\ ticketSeq' \in 0 .. MaxTickets
    BY <1>1, <1>s DEF Ask, TypeOK, Ticket, Time
  <2> QED
    BY <1>1, <2>3, <2>4 DEF Ask, TypeOK, world, runs
<1>2. ASSUME NEW p \in Pid, Look(p) PROVE TypeOK' /\ HasClaim'
  <2>1. PICK r \in Reading, D \in SUBSET ClaimId :
          call' = [call EXCEPT ![p].pc = "try", ![p].reading = r, ![p].dead = D]
    BY <1>2, NoShareIsReading, ReadingsAreReadings, DeadAreIds DEF Look
  <2> DEFINE c == [call[p] EXCEPT !.pc = "try", !.reading = r, !.dead = D]
  <2>2. c \in Call /\ c.pc = "try"
    <3>1. call[p] \in Call
      BY DEF TypeOK
    <3> QED
      BY <3>1 DEF Call, Steps
  <2>3. call' = [call EXCEPT ![p] = c]
    BY <2>1
  <2> HIDE DEF c
  <2>4. call' \in [Pid -> Call] /\ HasClaim'
    BY <2>2, <2>3, <1>c
  <2> QED
    BY <1>2, <2>4 DEF Look, TypeOK, world, ledger, runs
<1>p. ASSUME NEW p \in Pid, NEW pc \in Steps \ {"won", "submit", "adopt"},
             call' = [call EXCEPT ![p].pc = pc]
      PROVE  call' \in [Pid -> Call] /\ HasClaim'
  <2> DEFINE c == [call[p] EXCEPT !.pc = pc]
  <2>1. c \in Call /\ c.pc = pc
    <3>1. call[p] \in Call
      BY DEF TypeOK
    <3> QED
      BY <3>1 DEF Call
  <2>2. call' = [call EXCEPT ![p] = c]
    BY <1>p
  <2> HIDE DEF c
  <2> QED
    BY <2>1, <2>2, <1>c
<1>3. ASSUME NEW p \in Pid, RefuseDuplicate(p) PROVE TypeOK' /\ HasClaim'
  <2>1. call' \in [Pid -> Call] /\ HasClaim'
    BY <1>3, <1>p DEF RefuseDuplicate, Steps
  <2> QED
    BY <1>3, <2>1 DEF RefuseDuplicate, TypeOK, world, ledger, runs
<1>4. ASSUME NEW p \in Pid, Refuse(p) PROVE TypeOK' /\ HasClaim'
  <2> DEFINE c == [call[p] EXCEPT !.pc = "wait", !.reading = NoShare, !.dead = {}]
  <2>0. c \in Call /\ c.pc = "wait" /\ call' = [call EXCEPT ![p] = c]
    <3>1. call[p] \in Call
      BY DEF TypeOK
    <3>2. c \in Call /\ c.pc = "wait"
      BY <3>1, NoShareIsReading DEF Call, Steps
    <3> QED
      BY <1>4, <3>2 DEF Refuse
  <2> HIDE DEF c
  <2>1. call' \in [Pid -> Call] /\ HasClaim'
    BY <2>0, <1>c
  <2>2. /\ DOMAIN claims' \subseteq 1 .. claimSeq /\ claims' \in [DOMAIN claims' -> Row]
        /\ DOMAIN tickets' \subseteq 1 .. ticketSeq /\ tickets' \in [DOMAIN tickets' -> Ticket]
    BY <1>4, ReapingRestricts DEF Refuse, TypeOK
  <2> QED
    BY <1>4, <2>1, <2>2 DEF Refuse, TypeOK, world, runs
<1>5. ASSUME NEW p \in Pid, Admit(p) PROVE TypeOK' /\ HasClaim'
  <2> DEFINE c == [Idle EXCEPT !.pc = "won", !.kind = call[p].kind,
                               !.wall = call[p].wall, !.id = claimSeq + 1]
  <2>0. claimSeq + 1 \in ClaimId /\ call[p] \in Call
    BY <1>5 DEF Admit, TypeOK, ClaimId
  <2>1. c \in Call /\ c.id = claimSeq + 1
    <3>1. call[p].kind \in CallKinds /\ call[p].wall \in Nat /\ claimSeq + 1 \in 0 .. MaxClaims
      BY <2>0 DEF Call, ClaimId
    <3> QED
      BY <3>1, IdleIsCall DEF Call, Steps
  <2>2. call' = [call EXCEPT ![p] = c]
    BY <1>5 DEF Admit
  <2> HIDE DEF c
  <2>3. call' \in [Pid -> Call] /\ HasClaim'
    BY <2>0, <2>1, <2>2, <1>c
  <2>4. NewClaim(p) \in Row
    BY <1>s, <2>0 DEF NewClaim, Row, Probes, Call, Time, TypeOK
  <2>5. DOMAIN claims' \subseteq 1 .. claimSeq' /\ claims' \in [DOMAIN claims' -> Row]
    BY <1>5, <2>4, ReapingRestricts DEF Admit, TypeOK
  <2>6. DOMAIN tickets' \subseteq 1 .. ticketSeq' /\ tickets' \in [DOMAIN tickets' -> Ticket]
    BY <1>5, ReapingRestricts DEF Admit, TypeOK, Restrict
  <2>7. claimSeq' \in 0 .. MaxClaims
    BY <1>5 DEF Admit, TypeOK
  <2> QED
    BY <1>5, <2>3, <2>5, <2>6, <2>7 DEF Admit, TypeOK, world, runs
<1>6. ASSUME NEW p \in Pid, Retry(p) PROVE TypeOK' /\ HasClaim'
  <2>1. call' \in [Pid -> Call] /\ HasClaim'
    BY <1>6, <1>p DEF Retry, Steps
  <2> QED
    BY <1>6, <2>1 DEF Retry, TypeOK, world, ledger, runs
<1>i. ASSUME NEW p \in Pid, call' = [call EXCEPT ![p] = Idle]
      PROVE  call' \in [Pid -> Call] /\ HasClaim'
  BY <1>i, IdleIsCall DEF TypeOK, HasClaim, Idle
<1>7. ASSUME NEW p \in Pid, Leave(p) PROVE TypeOK' /\ HasClaim'
  <2>1. DOMAIN tickets' \subseteq 1 .. ticketSeq /\ tickets' \in [DOMAIN tickets' -> Ticket]
    BY <1>7 DEF Leave, TypeOK, Restrict
  <2> QED
    BY <1>7, <1>i, <2>1 DEF Leave, TypeOK, world, runs
<1>r. ASSUME NEW i \in DOMAIN claims, NEW p \in Pid
      PROVE  /\ [claims[i] EXCEPT !.kept = TRUE] \in Row
             /\ [claims[i] EXCEPT !.kept = TRUE, !.probe = "job"] \in Row
             /\ [claims[i] EXCEPT !.pid = p, !.born = StampOf(p), !.kept = TRUE] \in Row
  <2>1. claims[i] \in Row /\ "job" \in Probes
    BY DEF TypeOK, Probes
  <2> QED
    BY <2>1, <1>s, RowUpdates
<1>8. ASSUME NEW p \in Pid, Use(p) PROVE TypeOK' /\ HasClaim'
  <2>0. call[p] \in Call
    BY DEF TypeOK
  <2>1. ASSUME EnterHold(p) PROVE TypeOK' /\ HasClaim'
    <3>1. bodies' \in [Pid -> SUBSET ClaimId]
      BY <2>1 DEF EnterHold, Won, HasClaim, TypeOK
    <3> QED
      BY <2>1, <3>1, <1>i DEF EnterHold, TypeOK, world, ledger
  <2>2. ASSUME EnterRun(p) PROVE TypeOK' /\ HasClaim'
    <3>1. call[p].id \in ClaimId
      BY <2>2 DEF EnterRun, Won, HasClaim
    <3>2. bodies' \in [Pid -> SUBSET ClaimId]
      BY <2>2, <3>1 DEF EnterRun, TypeOK
    <3>3. DOMAIN programs' \subseteq ClaimId /\ programs' \in [DOMAIN programs' -> Time]
      BY <2>0, <2>2, <3>1 DEF EnterRun, With, TypeOK, Call, Time
    <3> QED
      BY <2>2, <3>2, <3>3, <1>i DEF EnterRun, TypeOK, world, ledger
  <2>3. ASSUME Keep(p) PROVE TypeOK' /\ HasClaim'
    <3>1. call[p].id \in ClaimId
      BY <2>3 DEF Keep, Won, HasClaim
    <3>2. DOMAIN claims' \subseteq 1 .. claimSeq /\ claims' \in [DOMAIN claims' -> Row]
      BY <2>3, <1>r, UpdatedRows DEF Keep, TypeOK
    <3>3. DOMAIN offered' \subseteq ClaimId /\ offered' \in [DOMAIN offered' -> Nat]
      BY <2>0, <2>3, <3>1 DEF Keep, With, TypeOK, Call
    <3> QED
      BY <2>3, <3>2, <3>3, <1>i DEF Keep, TypeOK, world
  <2>4. ASSUME Persist(p) PROVE TypeOK' /\ HasClaim'
    <3>1. call[p].id \in ClaimId
      BY <2>4 DEF Persist, Won, HasClaim
    <3>2. DOMAIN claims' \subseteq 1 .. claimSeq /\ claims' \in [DOMAIN claims' -> Row]
      BY <2>4, <1>r, UpdatedRows DEF Persist, TypeOK
    <3> DEFINE c == [call[p] EXCEPT !.pc = "submit"]
    <3>c. c \in Call /\ c.id = call[p].id
      BY <2>0 DEF Call, Steps
    <3>d. call' = [call EXCEPT ![p] = c]
      BY <2>4 DEF Persist
    <3> HIDE DEF c
    <3>3. call' \in [Pid -> Call] /\ HasClaim'
      BY <3>1, <3>c, <3>d, <1>c
    <3> QED
      BY <2>4, <3>2, <3>3 DEF Persist, TypeOK, world, runs
  <2>5. ASSUME Submit(p) PROVE TypeOK' /\ HasClaim'
    <3>1. job' \in [ClaimId -> {"none", "running", "ended"}]
      BY <2>5 DEF Submit, TypeOK
    <3> QED
      BY <2>5, <3>1, <1>i DEF Submit, TypeOK, world, ledger
  <2>6. ASSUME Adopt(p) PROVE TypeOK' /\ HasClaim'
    <3>1. call[p].id \in ClaimId
      BY <2>6 DEF Adopt, HasClaim
    <3>2. DOMAIN claims' \subseteq 1 .. claimSeq /\ claims' \in [DOMAIN claims' -> Row]
      BY <2>6, <1>r, UpdatedRows DEF Adopt, MovedTo, TypeOK
    <3>3. bodies' \in [Pid -> SUBSET ClaimId]
      BY <2>6, <3>1 DEF Adopt, TypeOK
    <3>4. DOMAIN programs' \subseteq ClaimId /\ programs' \in [DOMAIN programs' -> Time]
      BY <2>0, <2>6, <3>1 DEF Adopt, With, TypeOK, Call, Time
    <3> QED
      BY <2>6, <3>1, <3>2, <3>3, <3>4, <1>i DEF Adopt, TypeOK, world
  <2> QED
    BY <1>8, <2>1, <2>2, <2>3, <2>4, <2>5, <2>6 DEF Use
<1>9. ASSUME NEW p \in Pid, NEW i \in ClaimId, Exit(p, i) PROVE TypeOK' /\ HasClaim'
  <2>1. DOMAIN claims' \subseteq 1 .. claimSeq /\ claims' \in [DOMAIN claims' -> Row]
    BY <1>9 DEF Exit, Deleted, Restrict, TypeOK
  <2>2. bodies' \in [Pid -> SUBSET ClaimId] /\ adopted' \subseteq ClaimId
    BY <1>9 DEF Exit, TypeOK
  <2>3. DOMAIN programs' \subseteq ClaimId /\ programs' \in [DOMAIN programs' -> Time]
    BY <1>9 DEF Exit, Without, Restrict, TypeOK
  <2> QED
    BY <1>9, <2>1, <2>2, <2>3 DEF Exit, TypeOK, HasClaim, world
<1>10. ASSUME NEW p \in Pid, NEW v \in Vendors, NEW i \in ClaimId, HandOver(p, v, i)
       PROVE  TypeOK' /\ HasClaim'
  <2>1. DOMAIN claims' \subseteq 1 .. claimSeq /\ claims' \in [DOMAIN claims' -> Row]
    BY <1>10, <1>r, UpdatedRows DEF HandOver, MovedTo, TypeOK
  <2> QED
    BY <1>10, <2>1 DEF HandOver, TypeOK, HasClaim, world, runs
<1>11. ASSUME NEW p \in Pid, NEW i \in ClaimId, CheckOffer(p, i) PROVE TypeOK' /\ HasClaim'
  <2> DEFINE c == [Idle EXCEPT !.pc = "adopt", !.id = i, !.wall = offered[i]]
  <2>1. c \in Call /\ c.id = i
    <3>1. offered[i] \in Nat /\ i \in 0 .. MaxClaims
      BY <1>11 DEF CheckOffer, TypeOK, ClaimId
    <3> QED
      BY <3>1, IdleIsCall DEF Call, Steps
  <2>2. call' = IF i \in DOMAIN claims THEN [call EXCEPT ![p] = c] ELSE call
    BY <1>11 DEF CheckOffer
  <2> HIDE DEF c
  <2>3. call' \in [Pid -> Call] /\ HasClaim'
    BY <2>1, <2>2, <1>c DEF TypeOK, HasClaim
  <2>4. DOMAIN offered' \subseteq ClaimId /\ offered' \in [DOMAIN offered' -> Nat]
    BY <1>11 DEF CheckOffer, Without, Restrict, TypeOK
  <2> QED
    BY <1>11, <2>3, <2>4 DEF CheckOffer, TypeOK, world, ledger
<1>12. ASSUME NEW p \in Pid, NEW need \in DeclaredAsks, NEW wall \in Walls, Declare(p, need, wall)
       PROVE  TypeOK' /\ HasClaim'
  <2>1. claimSeq' \in 0 .. MaxClaims
    <3>1. Cardinality(Asking) \in Nat
      BY SupplyAssumption, FS_Subset, FS_CardinalityType DEF Asking
    <3> QED
      BY <1>12, <3>1 DEF Declare, TypeOK
  <2>2. DOMAIN claims' \subseteq 1 .. claimSeq' /\ claims' \in [DOMAIN claims' -> Row]
    BY <1>12, <1>s DEF Declare, With, TypeOK, Row, Time, Probes
  <2> QED
    BY <1>12, <2>1, <2>2 DEF Declare, TypeOK, HasClaim, world, runs
<1>13. ASSUME NEW p \in Pid, NEW i \in ClaimId, Release(p, i) PROVE TypeOK' /\ HasClaim'
  <2>1. DOMAIN claims' \subseteq 1 .. claimSeq /\ claims' \in [DOMAIN claims' -> Row]
    BY <1>13 DEF Release, Deleted, Restrict, TypeOK
  <2>2. DOMAIN offered' \subseteq ClaimId /\ offered' \in [DOMAIN offered' -> Nat]
    BY <1>13 DEF Release, Without, Restrict, TypeOK
  <2> QED
    BY <1>13, <2>1, <2>2 DEF Release, TypeOK, HasClaim, world
<1>14. ASSUME NEW p \in Pid, StartReap(p) PROVE TypeOK' /\ HasClaim'
  <2>1. PICK D \in SUBSET ClaimId : call' = [call EXCEPT ![p] = [Idle EXCEPT !.pc = "reap", !.dead = D]]
    BY <1>14, DeadAreIds DEF StartReap
  <2> DEFINE c == [Idle EXCEPT !.pc = "reap", !.dead = D]
  <2>2. c \in Call /\ c.pc = "reap"
    BY IdleIsCall DEF Call, Steps
  <2> HIDE DEF c
  <2>3. call' \in [Pid -> Call] /\ HasClaim'
    BY <2>1, <2>2 DEF TypeOK, HasClaim, c
  <2> QED
    BY <1>14, <2>3 DEF StartReap, TypeOK, world, ledger, runs
<1>15. ASSUME NEW p \in Pid, Reap(p) PROVE TypeOK' /\ HasClaim'
  <2>1. /\ DOMAIN claims' \subseteq 1 .. claimSeq /\ claims' \in [DOMAIN claims' -> Row]
        /\ DOMAIN tickets' \subseteq 1 .. ticketSeq /\ tickets' \in [DOMAIN tickets' -> Ticket]
    BY <1>15, ReapingRestricts DEF Reap, TypeOK
  <2> QED
    BY <1>15, <1>i, <2>1 DEF Reap, TypeOK, world, runs
<1>16. ASSUME NEW p \in Pid, Crash(p) PROVE TypeOK' /\ HasClaim'
  <2>1. bodies' \in [Pid -> SUBSET ClaimId] /\ alive' \subseteq Pid
    BY <1>16 DEF Crash, TypeOK
  <2>2. DOMAIN programs' \subseteq ClaimId /\ programs' \in [DOMAIN programs' -> Time]
    BY <1>16 DEF Crash, Without, Restrict, TypeOK
  <2> QED
    BY <1>16, <1>i, <2>1, <2>2 DEF Crash, TypeOK, ledger
<1>17. ASSUME NEW p \in Pid, Recycle(p) PROVE TypeOK' /\ HasClaim'
  <2>1. alive' \subseteq Pid /\ inc' \in [Pid -> 1 .. MaxStamp]
    BY <1>17 DEF Recycle, TypeOK
  <2> QED
    BY <1>17, <2>1 DEF Recycle, TypeOK, HasClaim, ledger, runs
<1>18. ASSUME NEW i \in ClaimId, OrphanEnds(i) PROVE TypeOK' /\ HasClaim'
  <2>1. DOMAIN programs' \subseteq ClaimId /\ programs' \in [DOMAIN programs' -> Time]
    BY <1>18 DEF OrphanEnds, Without, Restrict, TypeOK
  <2> QED
    BY <1>18, <2>1 DEF OrphanEnds, TypeOK, HasClaim, world, ledger
<1>19. ASSUME NEW i \in ClaimId, JobEnds(i) PROVE TypeOK' /\ HasClaim'
  <2>1. job' \in [ClaimId -> {"none", "running", "ended"}]
    BY <1>19 DEF JobEnds, TypeOK
  <2> QED
    BY <1>19, <2>1 DEF JobEnds, TypeOK, HasClaim, world, ledger
<1>20. ASSUME Tick PROVE TypeOK' /\ HasClaim'
  BY <1>20 DEF Tick, TypeOK, HasClaim, ledger, runs
<1>21. ASSUME UNCHANGED vars PROVE TypeOK' /\ HasClaim'
  BY <1>21 DEF TypeOK, HasClaim, vars
<1> QED
  BY <1>1, <1>2, <1>3, <1>4, <1>5, <1>6, <1>7, <1>8, <1>9, <1>10, <1>11, <1>12, <1>13,
     <1>14, <1>15, <1>16, <1>17, <1>18, <1>19, <1>20, <1>21 DEF Next, Wait, Horizon

\* The ledger's columns hold what the schema and the callers write, whatever
\* the box, the callers and the crashes.
THEOREM TypeCorrect == Spec => []TypeOK
<1>1. TypeInv => TypeOK
  BY DEF TypeInv
<1> QED
  BY <1>1, TypeInit, TypeNext, PTL DEF Spec

-----------------------------------------------------------------------------
\* The seats.

\* The units of r the admitted claims declare are within its size.
Lent(r) == Cardinality(Declared(Admitted, r)) <= Size[r]

\* A step after which every admitted row was admitted before, with the same
\* need, lends no more.
LEMMA NoNewAdmission ==
  ASSUME TypeOK, NEW s \in Resource, Lent(s),
         \A i \in DOMAIN claims' :
           \/ claims'[i].key = DeclaredKey
           \/ /\ i \in DOMAIN claims
              /\ claims'[i].need = claims[i].need
              /\ claims'[i].key = claims[i].key
  PROVE  Lent(s)'
<1>1. IsFiniteSet(DOMAIN Admitted)
  <2>1. DOMAIN Admitted \in SUBSET DOMAIN claims
    BY DEF Admitted, Restrict
  <2> QED
    BY <2>1, ClaimsAreFinite, FS_Subset
<1>2. /\ DOMAIN Admitted' \subseteq DOMAIN Admitted
      /\ \A i \in DOMAIN Admitted' : Admitted'[i].need = Admitted[i].need
  BY DEF Admitted, Restrict
<1>3. Cardinality(Declared(Admitted', s)) <= Cardinality(Declared(Admitted, s))
  BY <1>1, <1>2, FewerDeclareLess
<1>4. Cardinality(Declared(Admitted, s)) <= Size[s]
  BY DEF Lent
<1>5. IsFiniteSet(DOMAIN Admitted')
  BY <1>1, <1>2, FS_Subset
<1>6. /\ Cardinality(Declared(Admitted', s)) \in Nat
      /\ Cardinality(Declared(Admitted, s)) \in Nat /\ Size[s] \in Nat
  BY <1>1, <1>5, DeclaredIsFinite, SupplyAssumption
<1> QED
  BY <1>3, <1>4, <1>6 DEF Lent

\* The admission itself: what it writes fits beside every row it leaves.
LEMMA AdmissionFits ==
  ASSUME TypeOK, NEW s \in Resource, Lent(s), NEW p \in Pid, Admit(p),
         call[p].need[s] > 0
           => Cardinality(Declared(ClaimsLeft(call[p].dead), s)) + call[p].need[s] <= Size[s]
  PROVE  Lent(s)'
<1> DEFINE rows == ClaimsLeft(call[p].dead)
           new  == claimSeq + 1
           need == call[p].need
           left == Restrict(rows, {i \in DOMAIN rows : rows[i].key # DeclaredKey})
<1>1. /\ DOMAIN rows \subseteq DOMAIN claims
      /\ \A i \in DOMAIN rows : rows[i] = claims[i]
  BY ReapingRestricts
<1>2. IsFiniteSet(DOMAIN rows) /\ IsFiniteSet(DOMAIN left)
  <2>1. DOMAIN left \in SUBSET DOMAIN rows
    BY DEF Restrict
  <2> QED
    BY <1>1, <2>1, ClaimsAreFinite, FS_Subset
<1>3. need \in Need /\ call[p].reading \in Reading
  BY DEF TypeOK, Call
<1>4. /\ DOMAIN claims' = DOMAIN rows \cup {new}
      /\ \A i \in DOMAIN rows \ {new} : claims'[i] = rows[i]
      /\ claims'[new] = NewClaim(p) /\ NewClaim(p).need = need
  BY DEF Admit, NewClaim
<1>5. need[s] > 0 => Cardinality(Declared(rows, s)) + need[s] <= Size[s]
  OBVIOUS
<1>6. Size[s] \in Nat /\ need[s] \in Nat
  BY <1>3, SupplyAssumption DEF Need
<1> HIDE DEF rows, need, new
<1>7. /\ Cardinality(Declared(claims', s)) <= Cardinality(Declared(rows, s)) + need[s]
      /\ Cardinality(Declared(rows, s)) \in Nat
  BY <1>2, <1>3, <1>4, <1>6, OneMoreDeclaresItsNeed, DeclaredIsFinite
<1>8. IsFiniteSet(DOMAIN claims') /\ IsFiniteSet(DOMAIN Admitted')
  <2>1. IsFiniteSet(DOMAIN claims')
    BY <1>2, <1>4, FS_AddElement
  <2>2. DOMAIN Admitted' \in SUBSET DOMAIN claims'
    BY DEF Admitted, Restrict
  <2> QED
    BY <2>1, <2>2, FS_Subset
<1>9. /\ Cardinality(Declared(Admitted', s)) \in Nat
      /\ Cardinality(Declared(claims', s)) \in Nat
  BY <1>8, DeclaredIsFinite
<1>10. Cardinality(Declared(Admitted', s)) <= Cardinality(Declared(claims', s))
  <2>1. DOMAIN Admitted' \subseteq DOMAIN claims'
    BY DEF Admitted, Restrict
  <2>2. \A i \in DOMAIN Admitted' : Admitted'[i].need = claims'[i].need
    BY DEF Admitted, Restrict
  <2> QED
    BY <1>8, <2>1, <2>2, FewerDeclareLess
<1>11. CASE need[s] > 0
  BY <1>5, <1>6, <1>7, <1>9, <1>10, <1>11 DEF Lent
<1>12. CASE need[s] = 0
  \* The new row declares none of s, so the earlier admissions bound it.
  <2>1. Declared(Admitted', s) \subseteq Declared(Admitted, s)
    <3> SUFFICES ASSUME NEW u \in Declared(Admitted', s)
                 PROVE  u \in Declared(Admitted, s)
      OBVIOUS
    <3>1. /\ u \in (DOMAIN Admitted') \X Unit /\ u[2] <= Admitted'[u[1]].need[s]
          /\ u[1] \in DOMAIN claims' /\ claims'[u[1]].key # DeclaredKey
          /\ Admitted'[u[1]] = claims'[u[1]]
      BY DEF Declared, Admitted, Restrict
    <3>2. u[1] # new
      BY <1>4, <1>12, <3>1, SupplyAssumption DEF Unit
    <3>3. u[1] \in DOMAIN claims /\ claims'[u[1]] = claims[u[1]]
      BY <1>1, <1>4, <3>1, <3>2
    <3>4. u[1] \in DOMAIN Admitted /\ Admitted[u[1]] = claims[u[1]]
      BY <3>1, <3>3 DEF Admitted, Restrict
    <3> QED
      BY <3>1, <3>3, <3>4 DEF Declared
  <2>2. IsFiniteSet(DOMAIN Admitted)
    <3>1. DOMAIN Admitted \in SUBSET DOMAIN claims
      BY DEF Admitted, Restrict
    <3> QED
      BY <3>1, ClaimsAreFinite, FS_Subset
  <2>3. /\ Cardinality(Declared(Admitted', s)) <= Cardinality(Declared(Admitted, s))
        /\ Cardinality(Declared(Admitted, s)) \in Nat
    BY <2>1, <2>2, DeclaredIsFinite, FS_Subset
  <2>4. Cardinality(Declared(Admitted, s)) <= Size[s]
    BY DEF Lent
  <2> QED
    BY <1>6, <1>9, <2>3, <2>4 DEF Lent
<1> QED
  BY <1>6, <1>11, <1>12

\* No step but an admission lends more.
LEMMA LentNext ==
  ASSUME TypeInv, NEW s \in Resource, Lent(s), [Next]_vars,
         \A p \in Pid : Admit(p) /\ call[p].need[s] > 0
           => Cardinality(Declared(ClaimsLeft(call[p].dead), s)) + call[p].need[s] <= Size[s]
  PROVE  Lent(s)'
<1> USE DEF TypeInv
<1>u. ASSUME NEW i, NEW row, claims' = Updated(i, row),
             i \in DOMAIN claims => row.need = claims[i].need /\ row.key = claims[i].key
      PROVE  Lent(s)'
  BY <1>u, NoNewAdmission DEF Updated
<1>d. ASSUME DOMAIN claims' \subseteq DOMAIN claims, \A i \in DOMAIN claims' : claims'[i] = claims[i]
      PROVE  Lent(s)'
  BY <1>d, NoNewAdmission
<1>r. ASSUME NEW i \in DOMAIN claims, NEW p \in Pid
      PROVE  /\ [claims[i] EXCEPT !.kept = TRUE].need = claims[i].need
             /\ [claims[i] EXCEPT !.kept = TRUE].key = claims[i].key
             /\ [claims[i] EXCEPT !.kept = TRUE, !.probe = "job"].need = claims[i].need
             /\ [claims[i] EXCEPT !.kept = TRUE, !.probe = "job"].key = claims[i].key
             /\ [claims[i] EXCEPT !.pid = p, !.born = StampOf(p), !.kept = TRUE].need = claims[i].need
             /\ [claims[i] EXCEPT !.pid = p, !.born = StampOf(p), !.kept = TRUE].key = claims[i].key
  <2>1. claims[i] \in Row
    BY DEF TypeOK
  <2> QED
    BY <2>1 DEF Row
<1>1. ASSUME NEW p \in Pid, Refuse(p) \/ Reap(p) PROVE Lent(s)'
  BY <1>1, <1>d, ReapingRestricts DEF Refuse, Reap
<1>2. ASSUME NEW p \in Pid, Admit(p) PROVE Lent(s)'
  BY <1>2, AdmissionFits
<1>3. ASSUME NEW p \in Pid, Keep(p) PROVE Lent(s)'
  BY <1>3, <1>u, <1>r DEF Keep
<1>4. ASSUME NEW p \in Pid, Persist(p) PROVE Lent(s)'
  BY <1>4, <1>u, <1>r DEF Persist
<1>5. ASSUME NEW p \in Pid, Adopt(p) PROVE Lent(s)'
  BY <1>5, <1>u, <1>r DEF Adopt, MovedTo
<1>6. ASSUME NEW p \in Pid, NEW v \in Vendors, NEW i \in ClaimId, HandOver(p, v, i)
      PROVE  Lent(s)'
  BY <1>6, <1>u, <1>r, LedgerAssumption DEF HandOver, MovedTo
<1>7. ASSUME NEW p \in Pid, NEW i \in ClaimId, Exit(p, i) \/ Release(p, i)
      PROVE  Lent(s)'
  BY <1>7, <1>d DEF Exit, Release, Deleted, Restrict
<1>8. ASSUME NEW p \in Pid, NEW need \in DeclaredAsks, NEW wall \in Walls, Declare(p, need, wall)
      PROVE  Lent(s)'
  \* The declared row is no admission, and its id is new.
  <2> DEFINE new == [pid |-> p, born |-> StampOf(p), need |-> need, deadline |-> now + wall,
                     key |-> DeclaredKey, kept |-> TRUE, probe |-> "empty"]
  <2>1. claims' = With(claims, claimSeq + 1, new)
    BY <1>8 DEF Declare
  <2>2. new.key = DeclaredKey
    OBVIOUS
  <2> HIDE DEF new
  <2>3. \A i \in DOMAIN claims' : IF i = claimSeq + 1 THEN claims'[i] = new
                                 ELSE i \in DOMAIN claims /\ claims'[i] = claims[i]
    BY <2>1 DEF With
  <2> QED
    BY <2>2, <2>3, NoNewAdmission
<1>9. ASSUME UNCHANGED claims PROVE Lent(s)'
  BY <1>9, <1>d
<1>10. ASSUME NEW p \in Pid, Wait(p) PROVE Lent(s)'
  BY <1>1, <1>2, <1>9, <1>10 DEF Wait, Look, RefuseDuplicate, Retry, Leave, ledger
<1>11. ASSUME NEW p \in Pid, Use(p) PROVE Lent(s)'
  BY <1>3, <1>4, <1>5, <1>9, <1>11 DEF Use, EnterHold, EnterRun, Submit, ledger
<1>12. ASSUME NEW p \in Pid, NEW kind \in Kinds, NEW need \in Asks, NEW wall \in Walls,
              NEW queue \in Queues, NEW key \in Keys, Ask(p, kind, need, wall, queue, key)
       PROVE  Lent(s)'
  BY <1>9, <1>12 DEF Ask
<1>13. ASSUME NEW p \in Pid, NEW i \in ClaimId, CheckOffer(p, i) PROVE Lent(s)'
  BY <1>9, <1>13 DEF CheckOffer, ledger
<1>14. ASSUME NEW p \in Pid, StartReap(p) \/ Crash(p) \/ Recycle(p) PROVE Lent(s)'
  BY <1>9, <1>14 DEF StartReap, Crash, Recycle, ledger
<1>15. ASSUME NEW i \in ClaimId, OrphanEnds(i) \/ JobEnds(i) PROVE Lent(s)'
  BY <1>9, <1>15 DEF OrphanEnds, JobEnds, ledger
<1>16. ASSUME Tick \/ Horizon \/ UNCHANGED vars PROVE Lent(s)'
  BY <1>9, <1>16 DEF Tick, Horizon, vars, ledger
<1>17. CASE Next
  BY <1>1, <1>6, <1>7, <1>8, <1>10, <1>11, <1>12, <1>13, <1>14, <1>15, <1>16, <1>17 DEF Next
<1> QED
  BY <1>16, <1>17

\* An admission takes only seats that are free.
LEMMA SeatsNext ==
  ASSUME TypeInv, SeatsNeverOverlent, [Next]_vars
  PROVE  SeatsNeverOverlent'
<1> SUFFICES ASSUME NEW s \in Seat PROVE Lent(s)'
  BY DEF SeatsNeverOverlent, Lent
<1>1. ASSUME NEW p \in Pid, Admit(p), call[p].need[s] > 0
      PROVE  Cardinality(Declared(ClaimsLeft(call[p].dead), s)) + call[p].need[s] <= Size[s]
  <2> DEFINE rows == ClaimsLeft(call[p].dead)
  <2>1. call[p].need \in Need /\ call[p].reading \in Reading
    BY DEF TypeInv, TypeOK, Call
  <2>2. s \in DOMAIN call[p].reading.seen => call[p].reading.seen[s] \in Nat
    BY <2>1 DEF Reading
  <2>3. IsFiniteSet(DOMAIN rows)
    BY ReapingRestricts, ClaimsAreFinite, FS_Subset DEF TypeInv
  <2>4. Fits(rows, call[p].reading, p, call[p].need)
    BY <1>1 DEF Admit, Admissible
  <2> QED
    BY <1>1, <2>1, <2>2, <2>3, <2>4, FittingSeatsAreFree
<1>2. s \in Resource /\ Lent(s)
  BY DEF Resource, SeatsNeverOverlent, Lent
<1> QED
  BY <1>1, <1>2, LentNext

\* The seats of the admitted claims never exceed the box: not when claims are
\* taken, handed over, persisted or reaped between two decisions, and not on
\* a reading that is stale.
THEOREM SeatsAreNeverOverlent == Spec => []SeatsNeverOverlent
<1>1. Init => SeatsNeverOverlent
  <2> SUFFICES ASSUME Init, NEW s \in Seat
               PROVE  Cardinality(Declared(Admitted, s)) <= Size[s]
    BY DEF SeatsNeverOverlent
  <2>1. Declared(Admitted, s) = {}
    BY DEF Init, Admitted, Restrict, Declared
  <2>2. Cardinality(Declared(Admitted, s)) = 0
    BY <2>1, FS_EmptySet
  <2> QED
    BY <2>2, SupplyAssumption DEF Resource
<1>2. TypeInv /\ SeatsNeverOverlent /\ [Next]_vars => SeatsNeverOverlent'
  BY SeatsNext
<1> QED
  BY <1>1, <1>2, TypeInit, TypeNext, PTL DEF Spec

-----------------------------------------------------------------------------
(* Who holds what.                                                         *)

Holding == {"won", "submit", "adopt"}
Waiting == {"look", "try", "wait", "leave"}

\* The claim a process holds in its call, beside those it is inside of.
InCall(p) == IF call[p].pc \in Holding THEN {call[p].id} ELSE {}
Mine(p) == bodies[p] \cup InCall(p)
Started == {i \in ClaimId : job[i] # "none"}
Given == 1 .. claimSeq

IdsAreGiven ==
  /\ \A p \in Pid : /\ Mine(p) \subseteq Given
                    /\ call[p].pc \notin Holding => call[p].id = 0
                    /\ call[p].dead \subseteq Given
  /\ DOMAIN offered \subseteq Given /\ DOMAIN programs \subseteq Given
  /\ adopted \subseteq Given /\ Started \subseteq Given

OneHolder ==
  /\ \A p, q \in Pid : p # q => Mine(p) \cap Mine(q) = {}
  /\ \A p \in Pid : /\ bodies[p] \cap InCall(p) = {}
                    /\ Mine(p) \cap DOMAIN offered = {}
                    /\ Mine(p) \cap Started = {}
  /\ DOMAIN offered \cap Started = {}

TheDeadHoldNothing ==
  \A p \in Pid \ alive : p \in Mortal /\ call[p] = Idle /\ bodies[p] = {}

HolderInv == IdsAreGiven /\ OneHolder /\ TheDeadHoldNothing

-----------------------------------------------------------------------------
\* Nobody holds anything at first.
LEMMA HolderInit == Init => HolderInv
BY LedgerAssumption DEF Init, HolderInv, IdsAreGiven, OneHolder, TheDeadHoldNothing, Mine, InCall,
   Holding, Started, Given, Idle, ClaimId

\* Every step keeps one holder to an id: ids are given once, and pass from a call to
\* a body, to an offer or to a job, never to two of them.
LEMMA HolderNext == TypeInv /\ HolderInv /\ [Next]_vars => HolderInv'
<1> SUFFICES ASSUME TypeOK, HasClaim, IdsAreGiven, OneHolder, TheDeadHoldNothing, [Next]_vars
             PROVE  IdsAreGiven' /\ OneHolder' /\ TheDeadHoldNothing'
  BY DEF TypeInv, HolderInv
<1> USE LedgerAssumption
\* What a step does to the holders, from what it does to one process's call.
<1>c. \A p \in Pid : call[p] \in Call
  BY DEF TypeOK
<1>d. claimSeq \in Nat /\ \A S : S \subseteq Given => S \subseteq 1 .. (claimSeq + 1)
  BY DEF TypeOK, Given
\* The holders stay or lose.
<1>a. ASSUME NEW p \in Pid,
             UNCHANGED <<alive, claimSeq, job>>,
             \A q \in Pid \ {p} : call'[q] = call[q] /\ bodies'[q] = bodies[q],
             call'[p].dead \subseteq Given,
             call'[p].pc \notin Holding => call'[p].id = 0,
             Mine(p)' \subseteq Mine(p), bodies'[p] \cap InCall(p)' = {},
             DOMAIN offered' \subseteq DOMAIN offered, adopted' \subseteq adopted \cup Mine(p),
             DOMAIN programs' \subseteq DOMAIN programs \cup Mine(p),
             p \in alive \/ UNCHANGED <<call, bodies>>
      PROVE  IdsAreGiven' /\ OneHolder' /\ TheDeadHoldNothing'
  <2>1. \A q \in Pid : Mine(q)' \subseteq Mine(q) /\ bodies'[q] \cap InCall(q)' = {}
    BY <1>a DEF OneHolder, Mine, InCall
  <2>2. Started' = Started /\ Given' = Given
    BY <1>a DEF Started, Given
  <2>3. IdsAreGiven'
    BY <1>a, <2>1, <2>2 DEF IdsAreGiven
  <2>4. OneHolder'
    BY <1>a, <2>1, <2>2 DEF OneHolder
  <2>5. TheDeadHoldNothing'
    BY <1>a DEF TheDeadHoldNothing
  <2> QED
    BY <2>3, <2>4, <2>5
<1>1. ASSUME NEW p \in Pid, NEW kind \in Kinds, NEW need \in Asks, NEW wall \in Walls,
             NEW queue \in Queues, NEW key \in Keys, Ask(p, kind, need, wall, queue, key)
      PROVE  IdsAreGiven' /\ OneHolder' /\ TheDeadHoldNothing'
  <2>1. /\ call'[p].pc = "look" /\ call'[p].id = 0 /\ call'[p].dead = {}
        /\ \A q \in Pid \ {p} : call'[q] = call[q]
    BY <1>1 DEF Ask, TypeOK, Idle
  <2> QED
    BY <1>1, <1>a, <2>1 DEF Ask, Free, AtRest, Mine, InCall, Holding, world, runs
<1>2. ASSUME NEW p \in Pid, Look(p) PROVE IdsAreGiven' /\ OneHolder' /\ TheDeadHoldNothing'
  <2>0. \A D \in DeadExternals : D \subseteq Given
    BY DEF DeadExternals, TypeOK, Given
  <2>1. PICK D, r : /\ D \subseteq Given
                    /\ call' = [call EXCEPT ![p].pc = "try", ![p].reading = r, ![p].dead = D]
    BY <1>2, <2>0 DEF Look
  <2>2. /\ call'[p].dead \subseteq Given /\ call'[p].pc = "try" /\ call'[p].id = call[p].id
        /\ \A q \in Pid \ {p} : call'[q] = call[q]
    BY <2>1, <1>c DEF TypeOK, Call
  <2>3. UNCHANGED <<world, ledger, runs>> /\ p \in alive /\ call[p].pc = "look"
    BY <1>2 DEF Look
  <2> QED
    BY <1>a, <2>2, <2>3 DEF Mine, InCall, Holding, world, ledger, runs, IdsAreGiven, OneHolder
<1>3. ASSUME NEW p \in Pid, RefuseDuplicate(p) \/ Refuse(p) \/ Retry(p) \/ Leave(p) \/ Reap(p)
      PROVE  IdsAreGiven' /\ OneHolder' /\ TheDeadHoldNothing'
  <2>1. /\ call'[p].pc \notin Holding /\ call[p].pc \notin Holding
        /\ call'[p].id = 0 /\ call'[p].dead \in {{}, call[p].dead}
        /\ \A q \in Pid \ {p} : call'[q] = call[q]
    BY <1>3, <1>c DEF RefuseDuplicate, Refuse, Retry, Leave, Reap, Trying, Idle, Holding, Call,
                      TypeOK, IdsAreGiven
  <2>2. UNCHANGED <<world, claimSeq, runs>> /\ p \in alive
    BY <1>3 DEF RefuseDuplicate, Refuse, Retry, Leave, Reap, Trying, ledger
  <2> QED
    BY <1>a, <2>1, <2>2 DEF Mine, InCall, world, runs, IdsAreGiven
\* An admission gives its id to the caller.
<1>4. ASSUME NEW p \in Pid, Admit(p) PROVE IdsAreGiven' /\ OneHolder' /\ TheDeadHoldNothing'
  <2>1. /\ call'[p].pc = "won" /\ call'[p].id = claimSeq + 1 /\ call'[p].dead = {}
        /\ call[p].pc = "try" /\ p \in alive
        /\ \A q \in Pid \ {p} : call'[q] = call[q]
    BY <1>4 DEF Admit, Trying, TypeOK, Idle
  <2>2. claimSeq' = claimSeq + 1 /\ UNCHANGED <<world, runs>>
    BY <1>4 DEF Admit
  <2>3. /\ \A q \in Pid \ {p} : Mine(q)' = Mine(q) /\ InCall(q)' = InCall(q)
        /\ Mine(p)' = bodies[p] \cup {claimSeq + 1} /\ InCall(p)' = {claimSeq + 1}
    BY <2>1, <2>2 DEF Mine, InCall, Holding, runs
  <2>g. Given \subseteq Given' /\ claimSeq + 1 \in Given' /\ Started' = Started
    BY <2>2, <1>d DEF Given, Started, runs
  <2>4. IdsAreGiven'
    <3>1. \A q \in Pid : Mine(q)' \subseteq Given'
      BY <2>3, <2>g DEF IdsAreGiven, Mine
    <3>2. \A q \in Pid : call'[q].pc \notin Holding => call'[q].id = 0
      BY <2>1 DEF IdsAreGiven, Holding
    <3>3. \A q \in Pid : call'[q].dead \subseteq Given'
      BY <2>1, <2>g DEF IdsAreGiven
    <3> QED
      BY <2>2, <2>g, <3>1, <3>2, <3>3 DEF IdsAreGiven, runs
  <2>n. /\ \A q \in Pid : claimSeq + 1 \notin Mine(q) /\ bodies[q] \subseteq Mine(q)
        /\ claimSeq + 1 \notin DOMAIN offered /\ claimSeq + 1 \notin Started
    BY <1>d DEF IdsAreGiven, Given, Mine
  <2>o. Started' = Started /\ UNCHANGED <<bodies, offered>>
    BY <2>2 DEF Started, runs
  <2>5. OneHolder'
    <3>1. ASSUME NEW q \in Pid, NEW o \in Pid, q # o PROVE Mine(q)' \cap Mine(o)' = {}
      BY <2>3, <2>n, <3>1 DEF OneHolder
    <3>2. ASSUME NEW q \in Pid
          PROVE  /\ bodies'[q] \cap InCall(q)' = {}
                 /\ Mine(q)' \cap DOMAIN offered' = {}
                 /\ Mine(q)' \cap Started' = {}
      BY <2>3, <2>n, <2>o, <3>2 DEF OneHolder
    <3> QED
      BY <3>1, <3>2, <2>o DEF OneHolder
  <2>6. TheDeadHoldNothing'
    BY <2>1, <2>2 DEF TheDeadHoldNothing, world, runs
  <2> QED
    BY <2>4, <2>5, <2>6
<1>5. ASSUME NEW p \in Pid, EnterHold(p) \/ EnterRun(p) \/ Adopt(p) PROVE IdsAreGiven' /\ OneHolder' /\ TheDeadHoldNothing'
  <2>1. /\ call[p].pc \in Holding /\ p \in alive
        /\ call'[p].pc = "idle" /\ call'[p].id = 0 /\ call'[p].dead = {}
        /\ \A q \in Pid \ {p} : call'[q] = call[q] /\ bodies'[q] = bodies[q]
        /\ bodies'[p] = bodies[p] \cup {call[p].id}
    BY <1>5 DEF EnterHold, EnterRun, Adopt, Won, TypeOK, Idle, Holding
  <2>2. /\ UNCHANGED <<world, claimSeq, offered, job>> /\ adopted' \subseteq adopted \cup {call[p].id}
        /\ DOMAIN programs' \subseteq DOMAIN programs \cup {call[p].id}
    BY <1>5 DEF EnterHold, EnterRun, Adopt, With, ledger
  <2> QED
    BY <1>a, <2>1, <2>2 DEF Mine, InCall, Holding, world
\* The claim taken goes from the caller to the offer, and back to the run.
<1>6. ASSUME NEW p \in Pid, Keep(p) PROVE IdsAreGiven' /\ OneHolder' /\ TheDeadHoldNothing'
  <2>1. /\ call[p].pc = "won" /\ p \in alive
        /\ call'[p].pc = "idle" /\ call'[p].id = 0 /\ call'[p].dead = {}
        /\ \A q \in Pid \ {p} : call'[q] = call[q]
        /\ DOMAIN offered' = DOMAIN offered \cup {call[p].id}
        /\ UNCHANGED <<world, claimSeq, bodies, programs, adopted, job>>
    BY <1>6 DEF Keep, Won, TypeOK, Idle, With
  <2>2. /\ \A q \in Pid \ {p} : Mine(q)' = Mine(q) /\ InCall(q)' = InCall(q)
        /\ Mine(p)' = bodies[p] /\ InCall(p)' = {} /\ call[p].id \in Mine(p)
        /\ Given' = Given /\ Started' = Started /\ InCall(p) = {call[p].id}
    BY <2>1 DEF Mine, InCall, Holding, Given, Started
  <2>3. IdsAreGiven'
    BY <2>1, <2>2 DEF IdsAreGiven, Mine
  <2>4. OneHolder'
    BY <2>1, <2>2 DEF OneHolder, Mine
  <2>5. TheDeadHoldNothing'
    BY <2>1 DEF TheDeadHoldNothing, world
  <2> QED
    BY <2>3, <2>4, <2>5
<1>7. ASSUME NEW p \in Pid, NEW i \in ClaimId, CheckOffer(p, i) PROVE IdsAreGiven' /\ OneHolder' /\ TheDeadHoldNothing'
  <2>0. /\ i \in DOMAIN offered /\ DOMAIN offered' = DOMAIN offered \ {i} /\ p \in alive
        /\ call[p].pc = "idle" /\ UNCHANGED <<world, claimSeq, bodies, programs, adopted, job>>
    BY <1>7 DEF CheckOffer, Free, AtRest, Without, Restrict, ledger
  <2>a. CASE i \notin DOMAIN claims
    BY <1>7, <2>0, <2>a, <1>a DEF CheckOffer, world, IdsAreGiven, OneHolder, Mine, InCall
  <2>b. CASE i \in DOMAIN claims
    <3>1. /\ call'[p].pc = "adopt" /\ call'[p].id = i /\ call'[p].dead = {}
          /\ \A q \in Pid \ {p} : call'[q] = call[q]
      BY <1>7, <2>b DEF CheckOffer, TypeOK, Idle
    <3>2. /\ \A q \in Pid \ {p} : Mine(q)' = Mine(q) /\ InCall(q)' = InCall(q)
          /\ Mine(p)' = bodies[p] \cup {i} /\ InCall(p)' = {i}
          /\ Given' = Given /\ Started' = Started /\ Mine(p) = bodies[p]
      BY <2>0, <3>1 DEF Mine, InCall, Holding, Given, Started
    <3>3. IdsAreGiven'
      <4>1. \A q \in Pid : Mine(q)' \subseteq Given'
        BY <2>0, <3>2 DEF IdsAreGiven
      <4>2. \A q \in Pid : call'[q].pc \notin Holding => call'[q].id = 0
        BY <3>1 DEF IdsAreGiven, Holding
      <4>3. \A q \in Pid : call'[q].dead \subseteq Given'
        BY <3>1, <3>2 DEF IdsAreGiven
      <4> QED
        BY <2>0, <3>2, <4>1, <4>2, <4>3 DEF IdsAreGiven
    <3>n. \A q \in Pid : i \notin Mine(q) /\ i \notin Started /\ bodies[q] \subseteq Mine(q)
      BY <2>0 DEF OneHolder, Mine
    <3>4. OneHolder'
      <4>1. ASSUME NEW q \in Pid, NEW o \in Pid, q # o PROVE Mine(q)' \cap Mine(o)' = {}
        BY <3>2, <3>n, <4>1 DEF OneHolder
      <4>2. ASSUME NEW q \in Pid
            PROVE  /\ bodies'[q] \cap InCall(q)' = {}
                   /\ Mine(q)' \cap DOMAIN offered' = {}
                   /\ Mine(q)' \cap Started' = {}
        BY <2>0, <3>2, <3>n, <4>2 DEF OneHolder
      <4> QED
        BY <2>0, <3>2, <4>1, <4>2 DEF OneHolder
    <3>5. TheDeadHoldNothing'
      BY <2>0, <3>1 DEF TheDeadHoldNothing, world
    <3> QED
      BY <3>3, <3>4, <3>5
  <2> QED
    BY <2>a, <2>b
<1>8. ASSUME NEW p \in Pid, Persist(p) PROVE IdsAreGiven' /\ OneHolder' /\ TheDeadHoldNothing'
  <2>1. /\ call[p].pc = "won" /\ call'[p].pc = "submit" /\ call'[p].id = call[p].id
        /\ call'[p].dead = call[p].dead /\ \A q \in Pid \ {p} : call'[q] = call[q]
    BY <1>8, <1>c DEF Persist, Won, TypeOK, Call
  <2> QED
    BY <1>8, <2>1, <1>a DEF Persist, Won, Mine, InCall, Holding, world, runs, IdsAreGiven, OneHolder
\* The job carries the claim on.
<1>9. ASSUME NEW p \in Pid, Submit(p) PROVE IdsAreGiven' /\ OneHolder' /\ TheDeadHoldNothing'
  <2>1. /\ call[p].pc = "submit" /\ call[p].id \in ClaimId /\ p \in alive
        /\ call'[p].pc = "idle" /\ call'[p].id = 0 /\ call'[p].dead = {}
        /\ \A q \in Pid \ {p} : call'[q] = call[q]
        /\ UNCHANGED <<world, claimSeq, bodies, programs, adopted, offered>>
        /\ Started' \subseteq Started \cup {call[p].id}
    BY <1>9 DEF Submit, HasClaim, TypeOK, Idle, Started, ledger
  <2>2. /\ \A q \in Pid \ {p} : Mine(q)' = Mine(q) /\ InCall(q)' = InCall(q)
        /\ Mine(p)' = bodies[p] /\ InCall(p)' = {} /\ call[p].id \in Mine(p)
        /\ Given' = Given /\ InCall(p) = {call[p].id}
    BY <2>1 DEF Mine, InCall, Holding, Given
  <2>3. IdsAreGiven'
    BY <2>1, <2>2 DEF IdsAreGiven, Mine
  <2>4. OneHolder'
    BY <2>1, <2>2 DEF OneHolder, Mine
  <2>5. TheDeadHoldNothing'
    BY <2>1 DEF TheDeadHoldNothing, world
  <2> QED
    BY <2>3, <2>4, <2>5
<1>10. ASSUME NEW p \in Pid, NEW i \in ClaimId, Exit(p, i) PROVE IdsAreGiven' /\ OneHolder' /\ TheDeadHoldNothing'
  <2>1. /\ bodies'[p] = bodies[p] \ {i} /\ \A q \in Pid \ {p} : bodies'[q] = bodies[q]
        /\ DOMAIN programs' \subseteq DOMAIN programs /\ adopted' \subseteq adopted
        /\ UNCHANGED <<world, claimSeq, call, offered, job>> /\ p \in alive
    BY <1>10 DEF Exit, AtRest, TypeOK, Without, Restrict
  <2> QED
    BY <1>a, <2>1 DEF Mine, InCall, world, IdsAreGiven, OneHolder
<1>11. ASSUME NEW p \in Pid, NEW v \in Vendors, NEW i \in ClaimId, HandOver(p, v, i) PROVE IdsAreGiven' /\ OneHolder' /\ TheDeadHoldNothing'
  BY <1>11, <1>a DEF HandOver, Free, AtRest, world, runs, Mine, InCall, IdsAreGiven, OneHolder
\* A declaration takes an id that nobody holds.
<1>12. ASSUME NEW p \in Pid, NEW need \in DeclaredAsks, NEW wall \in Walls, Declare(p, need, wall)
       PROVE  IdsAreGiven' /\ OneHolder' /\ TheDeadHoldNothing'
  <2>1. claimSeq' = claimSeq + 1 /\ UNCHANGED <<world, call, runs>>
    BY <1>12 DEF Declare
  <2>2. Given \subseteq Given' /\ Started' = Started /\ \A q \in Pid : Mine(q)' = Mine(q) /\ InCall(q)' = InCall(q)
    BY <2>1, <1>d DEF Given, Started, Mine, InCall, runs
  <2>3. IdsAreGiven'
    BY <2>1, <2>2 DEF IdsAreGiven, runs
  <2>4. OneHolder' /\ TheDeadHoldNothing'
    BY <2>1, <2>2 DEF OneHolder, TheDeadHoldNothing, runs, world
  <2> QED
    BY <2>3, <2>4
<1>13. ASSUME NEW p \in Pid, NEW i \in ClaimId, Release(p, i) PROVE IdsAreGiven' /\ OneHolder' /\ TheDeadHoldNothing'
  BY <1>13, <1>a DEF Release, Free, AtRest, Without, Restrict, world, Mine, InCall, IdsAreGiven,
                     OneHolder
<1>14. ASSUME NEW p \in Pid, StartReap(p) PROVE IdsAreGiven' /\ OneHolder' /\ TheDeadHoldNothing'
  <2>1. PICK D \in SUBSET Given : call'[p].dead = D /\ call'[p].pc = "reap" /\ call'[p].id = 0
    BY <1>14 DEF StartReap, DeadExternals, TypeOK, Given, Idle
  <2>2. \A q \in Pid \ {p} : call'[q] = call[q]
    BY <1>14 DEF StartReap
  <2> QED
    BY <1>14, <1>a, <2>1, <2>2 DEF StartReap, Free, AtRest, Mine, InCall, Holding, world, ledger, runs
<1>15. ASSUME NEW p \in Pid, Crash(p) PROVE IdsAreGiven' /\ OneHolder' /\ TheDeadHoldNothing'
  <2>1. /\ call'[p] = Idle /\ bodies'[p] = {} /\ p \in Mortal /\ alive' = alive \ {p}
        /\ \A q \in Pid \ {p} : call'[q] = call[q] /\ bodies'[q] = bodies[q]
        /\ DOMAIN programs' \subseteq DOMAIN programs
        /\ UNCHANGED <<claimSeq, adopted, offered, job>>
    BY <1>15 DEF Crash, TypeOK, Without, Restrict, ledger
  <2>i. Idle.pc \notin Holding
    BY DEF Idle, Holding
  <2>2. /\ \A q \in Pid \ {p} : Mine(q)' = Mine(q) /\ InCall(q)' = InCall(q)
        /\ Mine(p)' = {} /\ InCall(p)' = {} /\ Given' = Given /\ Started' = Started
    BY <2>1, <2>i DEF Mine, InCall, Given, Started
  <2>3. IdsAreGiven'
    BY <2>1, <2>2 DEF IdsAreGiven, Idle
  <2>4. OneHolder'
    BY <2>1, <2>2 DEF OneHolder, Mine
  <2>5. TheDeadHoldNothing'
    BY <2>1 DEF TheDeadHoldNothing
  <2> QED
    BY <2>3, <2>4, <2>5
<1>16. ASSUME NEW p \in Pid, Recycle(p) PROVE IdsAreGiven' /\ OneHolder' /\ TheDeadHoldNothing'
  BY <1>16 DEF Recycle, ledger, runs, IdsAreGiven, OneHolder, TheDeadHoldNothing, Mine, InCall,
               Given, Started
<1>17. ASSUME NEW i \in ClaimId, OrphanEnds(i) PROVE IdsAreGiven' /\ OneHolder' /\ TheDeadHoldNothing'
  BY <1>17 DEF OrphanEnds, Without, Restrict, world, ledger, IdsAreGiven, OneHolder,
               TheDeadHoldNothing, Mine, InCall, Given, Started
<1>18. ASSUME NEW i \in ClaimId, JobEnds(i) PROVE IdsAreGiven' /\ OneHolder' /\ TheDeadHoldNothing'
  <2>1. Started' = Started
    BY <1>18 DEF JobEnds, Started, TypeOK
  <2> QED
    BY <1>18, <2>1 DEF JobEnds, world, ledger, IdsAreGiven, OneHolder, TheDeadHoldNothing, Mine,
                       InCall, Given
<1>19. ASSUME Tick \/ UNCHANGED vars PROVE IdsAreGiven' /\ OneHolder' /\ TheDeadHoldNothing'
  BY <1>19 DEF Tick, vars, ledger, runs, IdsAreGiven, OneHolder, TheDeadHoldNothing, Mine, InCall,
               Given, Started
<1> QED
  BY <1>1, <1>2, <1>3, <1>4, <1>5, <1>6, <1>7, <1>8, <1>9, <1>10, <1>11, <1>12, <1>13, <1>14,
     <1>15, <1>16, <1>17, <1>18, <1>19 DEF Next, Wait, Use, Horizon

-----------------------------------------------------------------------------
\* A waiter's ticket carries its name and its demand until its limit runs out.
HasTicket(p) ==
  LET t == call[p].ticket
  IN  /\ t \in DOMAIN tickets
           => tickets[t] = [pid |-> p, born |-> StampOf(p), need |-> call[p].need,
                            givesUp |-> call[p].givesUp]
      /\ now <= call[p].givesUp => t \in DOMAIN tickets

TicketsAreTheirs ==
  /\ \A p \in Pid : call[p].ticket <= ticketSeq
  /\ \A p, q \in Pid :
       p # q /\ call[p].pc \in Waiting /\ call[q].pc \in Waiting
         => call[p].ticket # call[q].ticket
  /\ \A p \in alive : call[p].pc \in Waiting \ {"leave"} => HasTicket(p)

\* Nobody waits at first.
LEMMA TicketInit == Init => TicketsAreTheirs
BY DEF Init, TicketsAreTheirs, Idle, Waiting

\* Every step leaves a waiter's ticket to it: nobody else deletes it, and the
\* reaper spares it while its holder runs and its limit has not passed.
LEMMA TicketNext == TypeInv /\ HolderInv /\ TicketsAreTheirs /\ [Next]_vars => TicketsAreTheirs'
<1> SUFFICES ASSUME TypeOK, TheDeadHoldNothing, TicketsAreTheirs, [Next]_vars
             PROVE  TicketsAreTheirs'
  BY DEF TypeInv, HolderInv
<1> USE LedgerAssumption
<1>c. \A p \in Pid : call[p] \in Call
  BY DEF TypeOK
\* A step that starts no wait, and takes no ticket but its caller's own, a
\* dead one or one given up.
<1>a. ASSUME NEW p \in Pid, UNCHANGED <<world, ticketSeq>>,
             \A q \in Pid \ {p} : call'[q] = call[q],
             call'[p].pc \in Waiting => call[p].pc \in Waiting /\ call'[p].ticket = call[p].ticket,
             call'[p].pc \in Waiting \ {"leave"}
               => /\ call[p].pc \in Waiting \ {"leave"}
                  /\ call'[p].need = call[p].need /\ call'[p].givesUp = call[p].givesUp,
             call'[p].ticket \in {0, call[p].ticket},
             DOMAIN tickets' \subseteq DOMAIN tickets,
             \A t \in DOMAIN tickets' : tickets'[t] = tickets[t],
             \A t \in DOMAIN tickets \ DOMAIN tickets' :
               \/ GivenUp(tickets[t]) \/ ~SameProcess(tickets[t])
               \/ t = call[p].ticket /\ call[p].pc \in Waiting /\ call'[p].pc \notin Waiting
      PROVE  TicketsAreTheirs'
  <2>1. \A q \in Pid : call'[q].ticket <= ticketSeq'
    BY <1>a DEF TicketsAreTheirs, TypeOK
  <2>2. \A q, o \in Pid : q # o /\ call'[q].pc \in Waiting /\ call'[o].pc \in Waiting
                            => call'[q].ticket # call'[o].ticket
    BY <1>a DEF TicketsAreTheirs
  <2>3. ASSUME NEW q \in alive', call'[q].pc \in Waiting \ {"leave"} PROVE HasTicket(q)'
    <3>1. q \in alive /\ q \in Pid
      BY <1>a DEF TypeOK, world
    <3>2. /\ call[q].pc \in Waiting \ {"leave"} /\ call'[q].ticket = call[q].ticket
          /\ call'[q].need = call[q].need /\ call'[q].givesUp = call[q].givesUp
      BY <1>a, <2>3, <3>1
    <3>3. HasTicket(q)
      BY <3>1, <3>2 DEF TicketsAreTheirs
    <3>4. StampOf(q)' = StampOf(q) /\ now' = now
      BY <1>a DEF StampOf, world
    <3> DEFINE t == call[q].ticket
    <3>5. ASSUME now <= call[q].givesUp PROVE t \in DOMAIN tickets'
      <4>1. /\ t \in DOMAIN tickets /\ tickets[t].givesUp = call[q].givesUp
            /\ tickets[t].pid = q /\ tickets[t].born = StampOf(q)
        BY <3>3, <3>5 DEF HasTicket
      <4>2. SameProcess(tickets[t])
        BY <3>1, <4>1 DEF SameProcess, StampOf
      <4>3. ~GivenUp(tickets[t])
        BY <3>5, <4>1, <1>c, <3>1 DEF GivenUp, Call, Time, TypeOK
      <4>4. ~(t = call[p].ticket /\ call[p].pc \in Waiting /\ call'[p].pc \notin Waiting)
        BY <2>3, <3>1, <3>2 DEF TicketsAreTheirs
      <4> QED
        BY <1>a, <4>1, <4>2, <4>3, <4>4
    <3> QED
      BY <1>a, <3>2, <3>3, <3>4, <3>5 DEF HasTicket
  <2> QED
    BY <2>1, <2>2, <2>3 DEF TicketsAreTheirs
<1>b. ASSUME UNCHANGED <<world, tickets, ticketSeq, call>> PROVE TicketsAreTheirs'
  BY <1>b DEF TicketsAreTheirs, HasTicket, StampOf, world
<1>r. /\ DOMAIN TicketsLeft \subseteq DOMAIN tickets
      /\ \A t \in DOMAIN TicketsLeft : TicketsLeft[t] = tickets[t]
      /\ \A t \in DOMAIN tickets \ DOMAIN TicketsLeft : GivenUp(tickets[t]) \/ ~SameProcess(tickets[t])
  BY DEF TicketsLeft, Restrict
<1>i. Idle.pc \notin Waiting /\ Idle.ticket = 0
  BY DEF Idle, Waiting
\* A new wait has a new ticket.
<1>1. ASSUME NEW p \in Pid, NEW kind \in Kinds, NEW need \in Asks, NEW wall \in Walls,
             NEW queue \in Queues, NEW key \in Keys, Ask(p, kind, need, wall, queue, key)
      PROVE  TicketsAreTheirs'
  <2> DEFINE new == ticketSeq + 1
  <2>1. /\ call'[p].pc = "look" /\ call'[p].ticket = new /\ call'[p].need = need
        /\ call'[p].givesUp = now + queue /\ \A q \in Pid \ {p} : call'[q] = call[q]
        /\ UNCHANGED world /\ ticketSeq' = new /\ ticketSeq \in Nat
    BY <1>1 DEF Ask, TypeOK, Idle
  <2>2. /\ DOMAIN tickets' = DOMAIN tickets \cup {new} /\ new \notin DOMAIN tickets
        /\ tickets'[new] = [pid |-> p, born |-> StampOf(p), need |-> need, givesUp |-> now + queue]
        /\ \A t \in DOMAIN tickets : tickets'[t] = tickets[t]
    BY <1>1, <2>1 DEF Ask, TypeOK
  <2>3. \A q \in Pid : call[q].ticket \in Nat /\ call[q].ticket <= ticketSeq
    BY <1>c DEF TicketsAreTheirs, Call
  <2>s. \A q \in Pid : StampOf(q)' = StampOf(q)
    BY <2>1 DEF StampOf, world
  <2>4. \A q \in Pid : call'[q].ticket <= ticketSeq'
    BY <2>1, <2>3
  <2>5. \A q, o \in Pid : q # o /\ call'[q].pc \in Waiting /\ call'[o].pc \in Waiting
                            => call'[q].ticket # call'[o].ticket
    BY <2>1, <2>3 DEF TicketsAreTheirs
  <2>6. ASSUME NEW q \in alive', call'[q].pc \in Waiting \ {"leave"} PROVE HasTicket(q)'
    <3>0. q \in alive /\ q \in Pid
      BY <2>1 DEF TypeOK, world
    <3>1. CASE q = p
      BY <2>1, <2>2, <2>s, <3>1 DEF HasTicket
    <3>2. CASE q # p
      <4>1. call'[q] = call[q] /\ HasTicket(q) /\ call[q].ticket # new /\ now' = now
        BY <2>1, <2>3, <2>6, <3>0, <3>2 DEF TicketsAreTheirs, world
      <4> QED
        BY <2>2, <2>s, <3>0, <4>1 DEF HasTicket
    <3> QED
      BY <3>1, <3>2
  <2> QED
    BY <2>4, <2>5, <2>6 DEF TicketsAreTheirs
<1>2. ASSUME NEW p \in Pid, Look(p) PROVE TicketsAreTheirs'
  <2>1. PICK D, r : call' = [call EXCEPT ![p].pc = "try", ![p].reading = r, ![p].dead = D]
    BY <1>2 DEF Look
  <2>2. /\ call'[p].pc = "try" /\ call'[p].ticket = call[p].ticket /\ call'[p].need = call[p].need
        /\ call'[p].givesUp = call[p].givesUp /\ \A q \in Pid \ {p} : call'[q] = call[q]
    BY <2>1, <1>c DEF TypeOK, Call
  <2> QED
    BY <1>2, <1>a, <2>2 DEF Look, Waiting, ledger
<1>3. ASSUME NEW p \in Pid, RefuseDuplicate(p) \/ Refuse(p) \/ Retry(p) PROVE TicketsAreTheirs'
  <2>1. /\ call[p].pc \in Waiting \ {"leave"} /\ call'[p].pc \in Waiting
        /\ call'[p].ticket = call[p].ticket /\ call'[p].need = call[p].need
        /\ call'[p].givesUp = call[p].givesUp /\ \A q \in Pid \ {p} : call'[q] = call[q]
        /\ UNCHANGED <<world, ticketSeq>> /\ tickets' \in {tickets, TicketsLeft}
    BY <1>3, <1>c DEF RefuseDuplicate, Refuse, Retry, Trying, Waiting, TypeOK, Call, ledger
  <2> QED
    BY <1>a, <1>r, <2>1
<1>4. ASSUME NEW p \in Pid, Admit(p) \/ Leave(p) PROVE TicketsAreTheirs'
  <2>1. /\ call[p].pc \in Waiting /\ call'[p].pc \notin Waiting /\ call'[p].ticket = 0
        /\ \A q \in Pid \ {p} : call'[q] = call[q]
        /\ UNCHANGED <<world, ticketSeq>>
    <3>1. CASE Admit(p)
      BY <3>1 DEF Admit, Trying, Waiting, TypeOK, Idle
    <3>2. CASE Leave(p)
      BY <3>2 DEF Leave, Waiting, TypeOK, Idle
    <3> QED
      BY <1>4, <3>1, <3>2
  <2>2. \/ tickets' = Restrict(TicketsLeft, DOMAIN TicketsLeft \ {call[p].ticket})
        \/ tickets' = Restrict(tickets, DOMAIN tickets \ {call[p].ticket})
    BY <1>4 DEF Admit, Leave
  <2>3. /\ DOMAIN tickets' \subseteq DOMAIN tickets
        /\ \A t \in DOMAIN tickets' : tickets'[t] = tickets[t]
        /\ \A t \in DOMAIN tickets \ DOMAIN tickets' :
             GivenUp(tickets[t]) \/ ~SameProcess(tickets[t]) \/ t = call[p].ticket
    BY <1>r, <2>2 DEF Restrict
  <2> QED
    BY <1>a, <2>1, <2>3
<1>5. ASSUME NEW p \in Pid, EnterHold(p) \/ EnterRun(p) \/ Keep(p) \/ Submit(p) \/ Adopt(p)
      PROVE  TicketsAreTheirs'
  <2>1. call' = [call EXCEPT ![p] = Idle] /\ UNCHANGED <<world, tickets, ticketSeq>>
    BY <1>5 DEF EnterHold, EnterRun, Keep, Submit, Adopt, ledger
  <2>2. /\ call'[p].pc \notin Waiting /\ call'[p].ticket = 0
        /\ \A q \in Pid \ {p} : call'[q] = call[q]
    BY <1>i, <2>1 DEF TypeOK
  <2> QED
    BY <1>a, <2>1, <2>2
<1>6. ASSUME NEW p \in Pid, Persist(p) PROVE TicketsAreTheirs'
  <2>1. /\ call'[p].pc = "submit" /\ call'[p].ticket = call[p].ticket
        /\ \A q \in Pid \ {p} : call'[q] = call[q]
        /\ UNCHANGED <<world, tickets, ticketSeq>>
    BY <1>6, <1>c DEF Persist, TypeOK, Call
  <2>2. call'[p].pc \notin Waiting
    BY <2>1 DEF Waiting
  <2> QED
    BY <1>a, <2>1, <2>2
<1>7. ASSUME NEW p \in Pid, NEW i \in ClaimId, CheckOffer(p, i) PROVE TicketsAreTheirs'
  <2>1. CASE call' = call
    BY <1>7, <1>b, <2>1 DEF CheckOffer, ledger
  <2>2. CASE call' = [call EXCEPT ![p] = [Idle EXCEPT !.pc = "adopt", !.id = i, !.wall = offered[i]]]
    <3>1. call'[p].pc = "adopt" /\ call'[p].ticket = 0 /\ \A q \in Pid \ {p} : call'[q] = call[q]
      BY <2>2 DEF TypeOK, Idle
    <3> QED
      BY <1>7, <1>a, <3>1 DEF CheckOffer, Waiting, ledger
  <2> QED
    BY <1>7, <2>1, <2>2 DEF CheckOffer
<1>8. ASSUME NEW p \in Pid, StartReap(p) PROVE TicketsAreTheirs'
  <2>1. call'[p].pc = "reap" /\ call'[p].ticket = 0 /\ \A q \in Pid \ {p} : call'[q] = call[q]
    BY <1>8 DEF StartReap, TypeOK, Idle
  <2> QED
    BY <1>8, <1>a, <2>1 DEF StartReap, Waiting, ledger
<1>9. ASSUME NEW p \in Pid, Reap(p) PROVE TicketsAreTheirs'
  BY <1>9, <1>a, <1>r, <1>i DEF Reap, TypeOK
<1>10. ASSUME NEW p \in Pid, NEW i \in ClaimId,
              Exit(p, i) \/ Release(p, i) \/ \E v \in Vendors : HandOver(p, v, i)
       PROVE  TicketsAreTheirs'
  BY <1>10, <1>b DEF Exit, Release, HandOver
<1>11. ASSUME NEW p \in Pid, NEW need \in DeclaredAsks, NEW wall \in Walls, Declare(p, need, wall)
       PROVE  TicketsAreTheirs'
  BY <1>11, <1>b DEF Declare
<1>12. ASSUME NEW p \in Pid, Crash(p) PROVE TicketsAreTheirs'
  <2>1. /\ call' = [call EXCEPT ![p] = Idle] /\ alive' = alive \ {p}
        /\ UNCHANGED <<now, inc, tickets, ticketSeq>>
    BY <1>12 DEF Crash, ledger
  <2>2. /\ call'[p].pc \notin Waiting /\ call'[p].ticket = 0
        /\ \A q \in Pid \ {p} : call'[q] = call[q]
    BY <1>i, <2>1 DEF TypeOK
  <2>3. /\ \A q \in Pid : call'[q].ticket <= ticketSeq'
        /\ \A q, o \in Pid : q # o /\ call'[q].pc \in Waiting /\ call'[o].pc \in Waiting
                               => call'[q].ticket # call'[o].ticket
    BY <2>1, <2>2 DEF TicketsAreTheirs, TypeOK
  <2>4. ASSUME NEW q \in alive', call'[q].pc \in Waiting \ {"leave"} PROVE HasTicket(q)'
    BY <2>1, <2>2, <2>4 DEF TicketsAreTheirs, HasTicket, StampOf, TypeOK
  <2> QED
    BY <2>3, <2>4 DEF TicketsAreTheirs
\* Who takes a dead process's number does not wait.
<1>13. ASSUME NEW p \in Pid, Recycle(p) PROVE TicketsAreTheirs'
  <2>1. /\ p \notin alive /\ call[p].pc = "idle" /\ alive' = alive \cup {p}
        /\ \A q \in Pid \ {p} : inc'[q] = inc[q]
        /\ UNCHANGED <<now, tickets, ticketSeq, call>>
    BY <1>13 DEF Recycle, TheDeadHoldNothing, Idle, TypeOK, ledger
  <2>2. ASSUME NEW q \in alive', call[q].pc \in Waiting \ {"leave"} PROVE HasTicket(q)'
    <3>1. q \in alive /\ q \in Pid \ {p}
      BY <2>1, <2>2 DEF Waiting, TypeOK
    <3>2. StampOf(q)' = StampOf(q) /\ HasTicket(q)
      BY <2>1, <2>2, <3>1 DEF StampOf, TicketsAreTheirs
    <3> QED
      BY <2>1, <3>1, <3>2 DEF HasTicket
  <2> QED
    BY <2>1, <2>2 DEF TicketsAreTheirs
<1>14. ASSUME NEW i \in ClaimId, OrphanEnds(i) \/ JobEnds(i) PROVE TicketsAreTheirs'
  BY <1>14, <1>b DEF OrphanEnds, JobEnds, ledger
<1>15. ASSUME Tick PROVE TicketsAreTheirs'
  <2>1. now' = now + 1 /\ now \in Nat /\ UNCHANGED <<alive, inc, tickets, ticketSeq, call>>
    BY <1>15 DEF Tick, TypeOK, ledger
  <2>2. \A q \in alive : HasTicket(q) => HasTicket(q)'
    BY <2>1, <1>c DEF HasTicket, StampOf, Call, Time, TypeOK
  <2> QED
    BY <2>1, <2>2 DEF TicketsAreTheirs
<1>16. ASSUME UNCHANGED vars PROVE TicketsAreTheirs'
  BY <1>16, <1>b DEF vars, world
<1> QED
  BY <1>1, <1>2, <1>3, <1>4, <1>5, <1>6, <1>7, <1>8, <1>9, <1>10, <1>11, <1>12, <1>13, <1>14,
     <1>15, <1>16 DEF Next, Wait, Use, Horizon

-----------------------------------------------------------------------------
\* A row is written under the stamp of its holder; what outlives its client is
\* kept; and an unkept row is its holder's, if that still runs.
Stamped(row) == row.pid \in Unreadable \/ row.born \in 1 .. inc[row.pid]

KeptAreKept ==
  /\ \A i \in DOMAIN claims \cap DOMAIN offered : claims[i].kept
  /\ \A p \in Pid : call[p].pc \in {"submit", "adopt"} /\ call[p].id \in DOMAIN claims
                      => claims[call[p].id].kept
  /\ \A i \in DOMAIN claims : claims[i].probe # "none" => claims[i].kept

RowInv ==
  /\ KeptAreKept
  /\ \A i \in DOMAIN claims : Stamped(claims[i])
  /\ Unreadable \cap Mortal = {} => RowsAreAccountedFor

\* There is no row at first.
LEMMA RowInit == Init => RowInv
BY DEF Init, RowInv, KeptAreKept, RowsAreAccountedFor, Idle

\* Every step keeps the rows accounted for: what a body or a call leaves, it deletes
\* or has kept, and a dead process is known by its stamp.
LEMMA RowNext == TypeInv /\ HolderInv /\ RowInv /\ [Next]_vars => RowInv'
<1> SUFFICES ASSUME TypeOK, HasClaim, HolderInv, RowInv, [Next]_vars PROVE RowInv'
  BY DEF TypeInv
<1> USE LedgerAssumption
<1> DEFINE Held(q) == bodies[q] \cup {call[q].id}
           Offers(q) == call[q].pc \in {"submit", "adopt"}
<1>c. \A p \in Pid : call[p] \in Call
  BY DEF TypeOK
<1>w. \A i \in DOMAIN claims : claims[i] \in Row /\ claims[i].pid \in Pid /\ i \in 1 .. claimSeq
  BY DEF TypeOK, Row
\* Rows go or come to be kept; who holds an unkept row goes on to hold it.
<1>a. ASSUME UNCHANGED <<alive, inc>>,
             \A i \in DOMAIN claims' :
               /\ i \in DOMAIN claims
               /\ claims'[i] = claims[i] \/ (claims'[i].kept /\ Stamped(claims'[i])),
             \A i \in DOMAIN claims' : \A q \in Pid :
               ~claims'[i].kept /\ i \in Held(q) => i \in Held(q)',
             \A i \in DOMAIN claims' : i \in DOMAIN offered' \ DOMAIN offered => claims'[i].kept,
             \A q \in Pid : Offers(q)' =>
               \/ Offers(q) /\ call'[q].id = call[q].id
               \/ call'[q].id \in DOMAIN claims' => claims'[call'[q].id].kept
      PROVE  RowInv'
  <2>1. KeptAreKept'
    <3>1. \A i \in DOMAIN claims' : claims[i].kept => claims'[i].kept
      BY <1>a
    <3>2. \A i \in DOMAIN claims' \cap DOMAIN offered' : claims'[i].kept
      BY <1>a, <3>1 DEF RowInv, KeptAreKept
    <3>3. \A q \in Pid : Offers(q)' /\ call'[q].id \in DOMAIN claims' => claims'[call'[q].id].kept
      BY <1>a, <3>1 DEF RowInv, KeptAreKept
    <3>4. \A i \in DOMAIN claims' : claims'[i].probe # "none" => claims'[i].kept
      BY <1>a DEF RowInv, KeptAreKept
    <3> QED
      BY <3>2, <3>3, <3>4 DEF KeptAreKept
  <2>2. \A i \in DOMAIN claims' : Stamped(claims[i])'
    BY <1>a DEF RowInv, Stamped
  <2>3. ASSUME RowsAreAccountedFor PROVE RowsAreAccountedFor'
    <3> SUFFICES ASSUME NEW i \in DOMAIN claims', ~claims'[i].kept, SameProcess(claims[i])'
                 PROVE  i \in Held(claims[i].pid)'
      BY DEF RowsAreAccountedFor
    <3>1. i \in DOMAIN claims /\ claims'[i] = claims[i]
      BY <1>a
    <3>2. SameProcess(claims[i]) /\ claims[i].pid \in Pid
      BY <1>a, <1>w, <3>1 DEF SameProcess
    <3>3. i \in Held(claims[i].pid)
      BY <2>3, <3>1, <3>2 DEF RowsAreAccountedFor
    <3> QED
      BY <1>a, <3>1, <3>2, <3>3
  <2> QED
    BY <2>1, <2>2, <2>3 DEF RowInv
<1>s. \A p \in Pid : p \in Unreadable \/ StampOf(p) \in 1 .. inc[p]
  BY DEF StampOf, TypeOK
<1>u. ASSUME NEW i, NEW row, row.kept, i \in DOMAIN claims => Stamped(row)
      PROVE  \A j \in DOMAIN Updated(i, row) :
               /\ j \in DOMAIN claims
               /\ \/ j # i /\ Updated(i, row)[j] = claims[j]
                  \/ j = i /\ Updated(i, row)[j].kept /\ Stamped(Updated(i, row)[j])
  BY <1>u DEF Updated
<1>m. ASSUME NEW i \in DOMAIN claims, NEW p \in Pid
      PROVE  /\ Stamped([claims[i] EXCEPT !.kept = TRUE])
             /\ Stamped([claims[i] EXCEPT !.kept = TRUE, !.probe = "job"])
             /\ Stamped([claims[i] EXCEPT !.pid = p, !.born = StampOf(p), !.kept = TRUE])
  BY <1>s, <1>w DEF RowInv, Stamped, Row
<1>1. ASSUME NEW p \in Pid, NEW kind \in Kinds, NEW need \in Asks, NEW wall \in Walls,
             NEW queue \in Queues, NEW key \in Keys, Ask(p, kind, need, wall, queue, key)
      PROVE  RowInv'
  <2>1. /\ call'[p].pc = "look" /\ call'[p].id = 0 /\ call[p].pc = "idle" /\ call[p].id = 0
        /\ \A q \in Pid \ {p} : call'[q] = call[q]
    BY <1>1 DEF Ask, Free, AtRest, TypeOK, Idle, HolderInv, IdsAreGiven, Holding
  <2> QED
    BY <1>1, <1>a, <2>1 DEF Ask, world, runs
<1>2. ASSUME NEW p \in Pid, Look(p) PROVE RowInv'
  <2>1. PICK D, r : call' = [call EXCEPT ![p].pc = "try", ![p].reading = r, ![p].dead = D]
    BY <1>2 DEF Look
  <2>2. call'[p].pc = "try" /\ call'[p].id = call[p].id /\ \A q \in Pid \ {p} : call'[q] = call[q]
    BY <2>1, <1>c DEF TypeOK, Call
  <2>3. UNCHANGED <<world, claims, bodies, offered>>
    BY <1>2 DEF Look, ledger, runs
  <2> QED
    BY <1>a, <2>2, <2>3 DEF world
<1>3. ASSUME NEW p \in Pid, RefuseDuplicate(p) \/ Refuse(p) \/ Retry(p) \/ Leave(p) \/ Reap(p)
      PROVE  RowInv'
  <2>1. /\ call[p].id = 0 /\ call'[p].id = 0 /\ ~Offers(p)'
        /\ \A q \in Pid \ {p} : call'[q] = call[q]
        /\ UNCHANGED <<world, bodies, offered>>
        /\ claims' = claims \/ claims' = ClaimsLeft(call[p].dead)
    BY <1>3, <1>c DEF RefuseDuplicate, Refuse, Retry, Leave, Reap, Trying, Idle, Call, TypeOK,
                      HolderInv, IdsAreGiven, Holding, ledger, runs
  <2>2. \A i \in DOMAIN claims' : i \in DOMAIN claims /\ claims'[i] = claims[i]
    BY <2>1, ReapingRestricts
  <2> QED
    BY <1>a, <2>1, <2>2 DEF world
\* The new row is its caller's.
<1>4. ASSUME NEW p \in Pid, Admit(p) PROVE RowInv'
  <2> DEFINE new == claimSeq + 1
  <2>1. /\ call'[p].pc = "won" /\ call'[p].id = new /\ call[p].id = 0
        /\ \A q \in Pid \ {p} : call'[q] = call[q]
    BY <1>4 DEF Admit, Trying, TypeOK, Idle, HolderInv, IdsAreGiven, Holding
  <2>2. /\ new \in DOMAIN claims' /\ claims'[new] = NewClaim(p)
        /\ \A i \in DOMAIN claims' : i # new => i \in DOMAIN claims /\ claims'[i] = claims[i]
        /\ UNCHANGED <<alive, inc, bodies, offered>>
    BY <1>4, ReapingRestricts DEF Admit, world, runs
  <2>3. /\ ~claims'[new].kept /\ claims'[new].probe = "none" /\ Stamped(claims'[new])
        /\ claims'[new].pid = p
    BY <2>2, <1>s DEF NewClaim, Stamped
  <2>4. /\ new \notin DOMAIN offered
        /\ \A q \in Pid : call[q].pc \in Holding => call[q].id # new
    BY DEF HolderInv, IdsAreGiven, Given, TypeOK, Mine, InCall
  <2>5. KeptAreKept'
    <3>1. \A i \in DOMAIN claims' \cap DOMAIN offered' : claims'[i].kept
      BY <2>2, <2>4 DEF RowInv, KeptAreKept
    <3>2. \A q \in Pid : Offers(q)' /\ call'[q].id \in DOMAIN claims' => claims'[call'[q].id].kept
      BY <2>1, <2>2, <2>4 DEF RowInv, KeptAreKept, Holding
    <3>3. \A i \in DOMAIN claims' : claims'[i].probe # "none" => claims'[i].kept
      BY <2>2, <2>3 DEF RowInv, KeptAreKept
    <3> QED
      BY <3>1, <3>2, <3>3 DEF KeptAreKept
  <2>6. \A i \in DOMAIN claims' : Stamped(claims[i])'
    BY <2>2, <2>3 DEF RowInv, Stamped
  <2>7. ASSUME RowsAreAccountedFor PROVE RowsAreAccountedFor'
    <3> SUFFICES ASSUME NEW i \in DOMAIN claims', ~claims'[i].kept, SameProcess(claims[i])'
                 PROVE  i \in Held(claims[i].pid)'
      BY DEF RowsAreAccountedFor
    <3>1. CASE i = new
      BY <2>1, <2>3, <3>1
    <3>2. CASE i # new
      <4>1. claims'[i] = claims[i] /\ i \in DOMAIN claims /\ SameProcess(claims[i])
        BY <2>2, <3>2 DEF SameProcess
      <4>2. i \in Held(claims[i].pid) /\ claims[i].pid \in Pid /\ i # 0
        BY <1>w, <2>7, <4>1 DEF RowsAreAccountedFor
      <4> QED
        BY <2>1, <2>2, <4>1, <4>2
    <3> QED
      BY <3>1, <3>2
  <2> QED
    BY <2>5, <2>6, <2>7 DEF RowInv
<1>5. ASSUME NEW p \in Pid, EnterHold(p) \/ EnterRun(p) PROVE RowInv'
  <2>1. /\ call'[p].pc = "idle" /\ bodies'[p] = bodies[p] \cup {call[p].id} /\ call'[p].id = 0
        /\ \A q \in Pid \ {p} : call'[q] = call[q] /\ bodies'[q] = bodies[q]
        /\ UNCHANGED <<alive, inc, claims, offered>>
    BY <1>5 DEF EnterHold, EnterRun, TypeOK, Idle, world, ledger
  <2> QED
    BY <1>a, <2>1
<1>6. ASSUME NEW p \in Pid, Keep(p) PROVE RowInv'
  <2> DEFINE i == call[p].id
             row == [claims[i] EXCEPT !.kept = TRUE]
  <2>1. /\ call'[p].pc = "idle" /\ \A q \in Pid \ {p} : call'[q] = call[q]
        /\ claims' = Updated(i, row) /\ DOMAIN offered' = DOMAIN offered \cup {i}
        /\ UNCHANGED <<alive, inc, bodies>>
    BY <1>6 DEF Keep, With, TypeOK, Idle, world
  <2>2. i \in DOMAIN claims => row.kept /\ Stamped(row)
    BY <1>m, <1>w DEF Row
  <2>3. \A j \in DOMAIN claims' : /\ j \in DOMAIN claims
                                  /\ \/ j # i /\ claims'[j] = claims[j]
                                     \/ j = i /\ claims'[j].kept /\ Stamped(claims'[j])
    BY <2>1, <2>2 DEF Updated
  <2> QED
    BY <1>a, <2>1, <2>3
<1>7. ASSUME NEW p \in Pid, Persist(p) PROVE RowInv'
  <2> DEFINE i == call[p].id
             row == [claims[i] EXCEPT !.kept = TRUE, !.probe = "job"]
  <2>1. /\ call'[p].pc = "submit" /\ call'[p].id = i /\ \A q \in Pid \ {p} : call'[q] = call[q]
        /\ claims' = Updated(i, row) /\ UNCHANGED <<alive, inc, bodies, offered>>
    BY <1>7, <1>c DEF Persist, TypeOK, Call, world, runs
  <2>2. i \in DOMAIN claims => row.kept /\ Stamped(row)
    BY <1>m, <1>w DEF Row
  <2>3. \A j \in DOMAIN claims' : /\ j \in DOMAIN claims
                                  /\ \/ j # i /\ claims'[j] = claims[j]
                                     \/ j = i /\ claims'[j].kept /\ Stamped(claims'[j])
    BY <2>1, <2>2 DEF Updated
  <2> QED
    BY <1>a, <2>1, <2>3
<1>8. ASSUME NEW p \in Pid, Submit(p) PROVE RowInv'
  <2>1. /\ call[p].pc = "submit" /\ call'[p].pc = "idle"
        /\ \A q \in Pid \ {p} : call'[q] = call[q]
        /\ UNCHANGED <<alive, inc, claims, bodies, offered>>
    BY <1>8 DEF Submit, TypeOK, Idle, world, ledger
  <2>2. call[p].id \in DOMAIN claims => claims[call[p].id].kept
    BY <2>1 DEF RowInv, KeptAreKept
  <2> QED
    BY <1>a, <2>1, <2>2
<1>9. ASSUME NEW p \in Pid, Adopt(p) PROVE RowInv'
  <2> DEFINE i == call[p].id
             row == [claims[i] EXCEPT !.pid = p, !.born = StampOf(p), !.kept = TRUE]
  <2>1. /\ call'[p].pc = "idle" /\ bodies'[p] = bodies[p] \cup {i}
        /\ \A q \in Pid \ {p} : call'[q] = call[q] /\ bodies'[q] = bodies[q]
        /\ claims' = Updated(i, row) /\ UNCHANGED <<alive, inc, offered>>
    BY <1>9 DEF Adopt, MovedTo, TypeOK, Idle, world
  <2>2. i \in DOMAIN claims => row.kept /\ Stamped(row)
    BY <1>m, <1>w DEF Row
  <2>3. \A j \in DOMAIN claims' : /\ j \in DOMAIN claims
                                  /\ \/ j # i /\ claims'[j] = claims[j]
                                     \/ j = i /\ claims'[j].kept /\ Stamped(claims'[j])
    BY <2>1, <2>2 DEF Updated
  <2> QED
    BY <1>a, <2>1, <2>3
\* The body that ends deletes its unkept row.
<1>10. ASSUME NEW p \in Pid, NEW i \in ClaimId, Exit(p, i) PROVE RowInv'
  <2>1. /\ bodies'[p] = bodies[p] \ {i} /\ \A q \in Pid \ {p} : bodies'[q] = bodies[q]
        /\ UNCHANGED <<alive, inc, call, offered>>
        /\ \A j \in DOMAIN claims' : j \in DOMAIN claims /\ claims'[j] = claims[j]
        /\ i \in DOMAIN claims' => claims[i].kept
    BY <1>10 DEF Exit, TypeOK, Deleted, Restrict, world
  <2> QED
    BY <1>a, <2>1
<1>11. ASSUME NEW p \in Pid, NEW v \in Vendors, NEW i \in ClaimId, HandOver(p, v, i) PROVE RowInv'
  <2> DEFINE row == [claims[i] EXCEPT !.pid = v, !.born = StampOf(v), !.kept = TRUE]
  <2>1. claims' = Updated(i, row) /\ UNCHANGED <<alive, inc, call, bodies, offered>>
    BY <1>11 DEF HandOver, MovedTo, world, runs
  <2>2. i \in DOMAIN claims => row.kept /\ Stamped(row)
    BY <1>m, <1>w DEF Row
  <2>3. \A j \in DOMAIN claims' : /\ j \in DOMAIN claims
                                  /\ \/ j # i /\ claims'[j] = claims[j]
                                     \/ j = i /\ claims'[j].kept /\ Stamped(claims'[j])
    BY <2>1, <2>2 DEF Updated
  <2> QED
    BY <1>a, <2>1, <2>3
<1>12. ASSUME NEW p \in Pid, NEW i \in ClaimId, CheckOffer(p, i) PROVE RowInv'
  <2>0. /\ i \in DOMAIN offered /\ DOMAIN offered' \subseteq DOMAIN offered
        /\ UNCHANGED <<alive, inc, claims, bodies>>
        /\ call[p].pc = "idle" /\ call[p].id = 0
    BY <1>12 DEF CheckOffer, Free, AtRest, Without, Restrict, world, ledger, HolderInv, IdsAreGiven,
                 Holding
  <2>1. CASE call' = call
    BY <1>a, <2>0, <2>1
  <2>2. CASE call' = [call EXCEPT ![p] = [Idle EXCEPT !.pc = "adopt", !.id = i, !.wall = offered[i]]]
    <3>1. call'[p].id = i /\ \A q \in Pid \ {p} : call'[q] = call[q]
      BY <2>2 DEF TypeOK, Idle
    <3>2. i \in DOMAIN claims => claims[i].kept
      BY <2>0 DEF RowInv, KeptAreKept
    <3>3. \A j \in DOMAIN claims : j # 0
      BY <1>w
    <3> QED
      BY <1>a, <2>0, <3>1, <3>2, <3>3
  <2> QED
    BY <1>12, <2>1, <2>2 DEF CheckOffer
<1>13. ASSUME NEW p \in Pid, NEW need \in DeclaredAsks, NEW wall \in Walls, Declare(p, need, wall)
       PROVE  RowInv'
  <2> DEFINE new == claimSeq + 1
  <2>1. /\ UNCHANGED <<alive, inc, call, bodies, offered>>
        /\ \A i \in DOMAIN claims' : i # new => i \in DOMAIN claims /\ claims'[i] = claims[i]
        /\ claims'[new].kept /\ claims'[new].pid = p /\ claims'[new].born = StampOf(p)
    BY <1>13 DEF Declare, With, world, runs
  <2>2. Stamped(claims'[new])
    BY <2>1, <1>s DEF Stamped
  <2>3. KeptAreKept'
    BY <2>1 DEF RowInv, KeptAreKept
  <2>4. \A i \in DOMAIN claims' : Stamped(claims[i])'
    BY <2>1, <2>2 DEF RowInv, Stamped
  <2>5. RowsAreAccountedFor => RowsAreAccountedFor'
    BY <2>1 DEF RowsAreAccountedFor, SameProcess
  <2> QED
    BY <2>3, <2>4, <2>5 DEF RowInv
<1>14. ASSUME NEW p \in Pid, NEW i \in ClaimId, Release(p, i) PROVE RowInv'
  BY <1>14, <1>a DEF Release, Deleted, Without, Restrict, world
<1>15. ASSUME NEW p \in Pid, StartReap(p) PROVE RowInv'
  <2>1. /\ call'[p].pc = "reap" /\ call'[p].id = 0 /\ call[p].pc = "idle" /\ call[p].id = 0
        /\ \A q \in Pid \ {p} : call'[q] = call[q]
    BY <1>15 DEF StartReap, Free, AtRest, TypeOK, Idle, HolderInv, IdsAreGiven, Holding
  <2> QED
    BY <1>15, <1>a, <2>1 DEF StartReap, world, ledger, runs
<1>16. ASSUME NEW p \in Pid, Crash(p) PROVE RowInv'
  <2>1. /\ alive' = alive \ {p} /\ call'[p].pc = "idle"
        /\ \A q \in Pid \ {p} : call'[q] = call[q] /\ bodies'[q] = bodies[q]
        /\ UNCHANGED <<inc, claims, offered>>
    BY <1>16 DEF Crash, TypeOK, Idle, ledger
  <2>2. KeptAreKept'
    BY <2>1 DEF RowInv, KeptAreKept
  <2>3. \A i \in DOMAIN claims' : Stamped(claims[i])'
    BY <2>1 DEF RowInv, Stamped
  <2>4. RowsAreAccountedFor => RowsAreAccountedFor'
    BY <2>1, <1>w DEF RowsAreAccountedFor, SameProcess
  <2> QED
    BY <2>2, <2>3, <2>4 DEF RowInv
\* The stamps of a recycled number are younger than the rows of the dead.
<1>17. ASSUME NEW p \in Pid, Recycle(p) PROVE RowInv'
  <2>1. /\ p \notin alive /\ p \in Mortal /\ alive' = alive \cup {p} /\ inc'[p] = inc[p] + 1
        /\ \A q \in Pid \ {p} : inc'[q] = inc[q]
        /\ UNCHANGED <<claims, call, bodies, offered>>
    BY <1>17 DEF Recycle, HolderInv, TheDeadHoldNothing, TypeOK, ledger, runs
  <2>2. KeptAreKept'
    BY <2>1 DEF RowInv, KeptAreKept
  <2>n. \A q \in Pid : inc[q] \in Nat
    BY DEF TypeOK
  <2>3. \A i \in DOMAIN claims' : Stamped(claims[i])'
    BY <2>1, <2>n, <1>w DEF RowInv, Stamped
  <2>4. ASSUME RowsAreAccountedFor, Unreadable \cap Mortal = {} PROVE RowsAreAccountedFor'
    <3> SUFFICES ASSUME NEW i \in DOMAIN claims', ~claims'[i].kept, SameProcess(claims[i])'
                 PROVE  i \in Held(claims[i].pid)'
      BY DEF RowsAreAccountedFor
    <3>1. claims[i].pid # p
      <4>1. claims[i].pid = p => claims[i].born \in 1 .. inc[p] /\ p \notin Unreadable
        BY <2>1, <2>4 DEF RowInv, Stamped
      <4> QED
        BY <2>1, <2>n, <4>1 DEF SameProcess, NoStamp
    <3>2. SameProcess(claims[i])
      BY <1>w, <2>1, <3>1 DEF SameProcess
    <3> QED
      BY <2>1, <2>4, <3>2 DEF RowsAreAccountedFor
  <2> QED
    BY <2>2, <2>3, <2>4 DEF RowInv
<1>18. ASSUME NEW i \in ClaimId, OrphanEnds(i) \/ JobEnds(i) PROVE RowInv'
  BY <1>18, <1>a DEF OrphanEnds, JobEnds, world, ledger
<1>19. ASSUME Tick \/ UNCHANGED vars PROVE RowInv'
  BY <1>19, <1>a DEF Tick, vars, ledger, runs
<1> QED
  BY <1>1, <1>2, <1>3, <1>4, <1>5, <1>6, <1>7, <1>8, <1>9, <1>10, <1>11, <1>12, <1>13, <1>14,
     <1>15, <1>16, <1>17, <1>18, <1>19 DEF Next, Wait, Use, Horizon

-----------------------------------------------------------------------------
\* A waiter whose limit has not run out keeps its ticket, at the demand it asks,
\* whatever is reaped, crashes or gets a dead process's pid.
THEOREM TicketsStand == Spec => []WaitersKeepTheirPlace
<1>1. TypeInv /\ TicketsAreTheirs => WaitersKeepTheirPlace
  <2> SUFFICES ASSUME TypeOK, TicketsAreTheirs, NEW p \in alive,
                      call[p].pc \in {"look", "try", "wait"}, now <= call[p].givesUp
               PROVE  /\ call[p].ticket \in DOMAIN tickets
                      /\ tickets[call[p].ticket].need = call[p].need
    BY DEF WaitersKeepTheirPlace, TypeInv
  <2>1. HasTicket(p)
    BY DEF TicketsAreTheirs, Waiting
  <2> QED
    BY <2>1 DEF HasTicket
<1> QED
  BY <1>1, TypeInit, TypeNext, HolderInit, HolderNext, TicketInit, TicketNext, PTL DEF Spec

\* Where every mortal process's creation can be read, no path out of a call or
\* a body leaves an unkept row behind.
THEOREM RowsAreHeld ==
  ASSUME Unreadable \cap Mortal = {}
  PROVE  Spec => []RowsAreAccountedFor
<1>1. RowInv => RowsAreAccountedFor
  BY DEF RowInv
<1> QED
  BY <1>1, TypeInit, TypeNext, HolderInit, HolderNext, RowInit, RowNext, PTL DEF Spec

\* Together: nobody's claim is forgotten, and nobody's ticket taken.
THEOREM NothingIsForgotten ==
  ASSUME Unreadable \cap Mortal = {}
  PROVE  Spec => []RowsAndTicketsStand
<1>1. RowsAreAccountedFor /\ WaitersKeepTheirPlace => RowsAndTicketsStand
  BY DEF RowsAndTicketsStand
<1> QED
  BY <1>1, RowsAreHeld, TicketsStand, PTL

-----------------------------------------------------------------------------
(* What the rows stand for: the contained runs, the vendors' jobs and the  *)
(* claims taken for a run.                                                 *)

\* What a call asks under: a run's key and one of the calls made.
CallInv ==
  \A p \in Pid : call[p].pc \in Waiting \cup {"won"} => call[p].kind \in Kinds
                 /\ (call[p].pc \in Waiting => call[p].key \in Keys)

\* The row i is p's, of the process that runs now, until at least `moment`.
Books(p, i, moment) ==
  /\ i \in DOMAIN claims /\ claims[i].pid = p /\ SameProcess(claims[i])
  /\ claims[i].key # DeclaredKey /\ moment <= claims[i].deadline

\* An admitted caller has its row, and so has a run that no claim was kept for,
\* where a run dies with its launcher.
BookInv ==
  /\ \A p \in Pid : call[p].pc = "won"
       => call[p].id \notin adopted /\ Books(p, call[p].id, now + call[p].wall)
  /\ DiesWithLauncher => \A i \in DOMAIN programs \ adopted :
       /\ now <= programs[i] + KillLag
       /\ \E p \in Pid : i \in bodies[p] /\ Books(p, i, programs[i])

-----------------------------------------------------------------------------
\* No call is made at first.
LEMMA CallInit == Init => CallInv
BY DEF Init, CallInv, Idle, Waiting

\* What a call was made under, it keeps until it is admitted.
LEMMA CallNext == TypeInv /\ CallInv /\ [Next]_vars => CallInv'
<1> SUFFICES ASSUME TypeOK, CallInv, [Next]_vars PROVE CallInv'
  BY DEF TypeInv
<1>c. \A p \in Pid : call[p] \in Call
  BY DEF TypeOK
<1>a. ASSUME NEW p \in Pid, \A q \in Pid \ {p} : call'[q] = call[q],
             call'[p].pc \notin Waiting \cup {"won"} \/ call'[p].kind \in Kinds,
             call'[p].pc \notin Waiting \/ call'[p].key \in Keys
      PROVE  CallInv'
  BY <1>a DEF CallInv
<1>i. Idle.pc \notin Waiting \cup {"won"}
  BY DEF Idle, Waiting
<1>1. ASSUME NEW p \in Pid, NEW kind \in Kinds, NEW need \in Asks, NEW wall \in Walls,
             NEW queue \in Queues, NEW key \in Keys, Ask(p, kind, need, wall, queue, key)
      PROVE  CallInv'
  <2>1. call'[p].kind = kind /\ call'[p].key = key /\ \A q \in Pid \ {p} : call'[q] = call[q]
    BY <1>1 DEF Ask, TypeOK, Idle
  <2> QED
    BY <1>a, <2>1
<1>2. ASSUME NEW p \in Pid, Look(p) PROVE CallInv'
  <2>1. PICK D, r : call' = [call EXCEPT ![p].pc = "try", ![p].reading = r, ![p].dead = D]
    BY <1>2 DEF Look
  <2>2. /\ call'[p].kind = call[p].kind /\ call'[p].key = call[p].key
        /\ \A q \in Pid \ {p} : call'[q] = call[q]
    BY <2>1, <1>c DEF TypeOK, Call
  <2>3. call[p].pc \in Waiting
    BY <1>2 DEF Look, Waiting
  <2> QED
    BY <1>a, <2>2, <2>3 DEF CallInv
<1>3. ASSUME NEW p \in Pid, RefuseDuplicate(p) \/ Refuse(p) \/ Retry(p) PROVE CallInv'
  <2>1. /\ call'[p].kind = call[p].kind /\ call'[p].key = call[p].key /\ call[p].pc \in Waiting
        /\ \A q \in Pid \ {p} : call'[q] = call[q]
    BY <1>3, <1>c DEF RefuseDuplicate, Refuse, Retry, Trying, Waiting, TypeOK, Call
  <2> QED
    BY <1>a, <2>1 DEF CallInv
<1>4. ASSUME NEW p \in Pid, Admit(p) PROVE CallInv'
  <2>1. /\ call'[p].kind = call[p].kind /\ call'[p].pc = "won" /\ call[p].pc \in Waiting
        /\ \A q \in Pid \ {p} : call'[q] = call[q]
    BY <1>4 DEF Admit, Trying, Waiting, TypeOK, Idle
  <2> QED
    BY <1>a, <2>1 DEF CallInv, Waiting
<1>5. ASSUME NEW p \in Pid, call' = [call EXCEPT ![p] = Idle] PROVE CallInv'
  BY <1>5, <1>a, <1>i DEF TypeOK
<1>6. ASSUME NEW p \in Pid, Persist(p) PROVE CallInv'
  <2>1. call'[p].pc = "submit" /\ \A q \in Pid \ {p} : call'[q] = call[q]
    BY <1>6, <1>c DEF Persist, TypeOK, Call
  <2> QED
    BY <1>a, <2>1 DEF Waiting
<1>7. ASSUME NEW p \in Pid, NEW i \in ClaimId, CheckOffer(p, i) PROVE CallInv'
  <2>1. CASE call' = call
    BY <2>1 DEF CallInv
  <2>2. CASE call' = [call EXCEPT ![p] = [Idle EXCEPT !.pc = "adopt", !.id = i, !.wall = offered[i]]]
    <3>1. call'[p].pc = "adopt" /\ \A q \in Pid \ {p} : call'[q] = call[q]
      BY <2>2 DEF TypeOK, Idle
    <3> QED
      BY <1>a, <3>1 DEF Waiting
  <2> QED
    BY <1>7, <2>1, <2>2 DEF CheckOffer
<1>8. ASSUME NEW p \in Pid, StartReap(p) PROVE CallInv'
  <2>1. call'[p].pc = "reap" /\ \A q \in Pid \ {p} : call'[q] = call[q]
    BY <1>8 DEF StartReap, TypeOK, Idle
  <2> QED
    BY <1>a, <2>1 DEF Waiting
<1>9. ASSUME call' = call PROVE CallInv'
  BY <1>9 DEF CallInv
<1>10. ASSUME NEW p \in Pid, Leave(p) \/ EnterHold(p) \/ EnterRun(p) \/ Keep(p) \/ Submit(p)
                             \/ Adopt(p) \/ Reap(p) \/ Crash(p)
       PROVE  CallInv'
  BY <1>10, <1>5 DEF Leave, EnterHold, EnterRun, Keep, Submit, Adopt, Reap, Crash
<1>11. ASSUME NEW p \in Pid, NEW i \in ClaimId,
              Exit(p, i) \/ Release(p, i) \/ \E v \in Vendors : HandOver(p, v, i)
       PROVE  CallInv'
  BY <1>11, <1>9 DEF Exit, Release, HandOver
<1>12. ASSUME NEW p \in Pid, NEW need \in DeclaredAsks, NEW wall \in Walls,
              Declare(p, need, wall) \/ Recycle(p)
       PROVE  CallInv'
  BY <1>12, <1>9 DEF Declare, Recycle
<1>13. ASSUME \/ \E p \in Pid : Recycle(p)
              \/ \E i \in ClaimId : OrphanEnds(i) \/ JobEnds(i)
              \/ Tick \/ UNCHANGED vars
       PROVE  CallInv'
  BY <1>13, <1>9 DEF Recycle, OrphanEnds, JobEnds, Tick, vars
<1> QED
  BY <1>1, <1>2, <1>3, <1>4, <1>6, <1>7, <1>8, <1>10, <1>11, <1>12, <1>13
     DEF Next, Wait, Use, Horizon

-----------------------------------------------------------------------------
\* What no reaper takes: a row of a running process before its last moment.
LEMMA BookedRowsAreLeft ==
  ASSUME TypeOK, NEW p \in Pid, NEW i, NEW moment \in Nat, NEW dead,
         Books(p, i, moment), now <= moment + KillLag
  PROVE  i \in DOMAIN ClaimsLeft(dead) /\ ClaimsLeft(dead)[i] = claims[i]
<1>1. /\ moment <= claims[i].deadline /\ claims[i].deadline \in Nat
      /\ Grace \in Nat /\ KillLag \in Nat /\ KillLag <= Grace /\ now \in Nat
  BY LedgerAssumption DEF Books, TypeOK, Row, Time
<1>2. ~Expired(claims[i])
  BY <1>1 DEF Expired
<1>3. ~Reapable(i, dead) /\ i \in DOMAIN claims
  BY <1>2 DEF Books, Reapable
<1> QED
  BY <1>3 DEF ClaimsLeft, Restrict

\* Nothing is admitted and nothing runs at first.
LEMMA BookInit == Init => BookInv
BY DEF Init, BookInv, Idle

\* Every step keeps the rows of the admitted and of the runs that run: the reaper
\* spares them, and nobody else's UPDATE or DELETE names them.
LEMMA BookNext == TypeInv /\ HolderInv /\ CallInv /\ BookInv /\ [Next]_vars => BookInv'
<1> SUFFICES ASSUME TypeOK, HasClaim, HolderInv, CallInv, BookInv, [Next]_vars PROVE BookInv'
  BY DEF TypeInv
<1> USE LedgerAssumption
<1> DEFINE Stays(i) == i \in DOMAIN claims' /\ claims'[i] = claims[i]
<1>c. \A p \in Pid : call[p] \in Call
  BY DEF TypeOK
<1>n. now \in Nat /\ KillLag \in Nat /\ \A i \in DOMAIN programs : programs[i] \in Nat
  BY DEF TypeOK, Time
\* The rows of the admitted and of the runs stay where they are.
<1>a. ASSUME UNCHANGED world,
             \A p \in Pid : call'[p].pc = "won" =>
               /\ call[p].pc = "won" /\ call'[p].id = call[p].id /\ call'[p].wall = call[p].wall
               /\ Stays(call[p].id) /\ call[p].id \notin adopted' \ adopted,
             DiesWithLauncher => \A i \in DOMAIN programs' \ adopted' :
               /\ i \in DOMAIN programs \ adopted /\ programs'[i] = programs[i] /\ Stays(i)
               /\ \A p \in Pid : i \in bodies[p] => i \in bodies'[p]
      PROVE  BookInv'
  <2>1. ASSUME NEW p \in Pid, call'[p].pc = "won"
        PROVE  call'[p].id \notin adopted' /\ Books(p, call[p].id, now + call[p].wall)'
    BY <1>a, <2>1 DEF BookInv, Books, SameProcess, world
  <2>2. ASSUME DiesWithLauncher, NEW i \in DOMAIN programs' \ adopted'
        PROVE  /\ now' <= programs'[i] + KillLag
               /\ \E p \in Pid : i \in bodies'[p] /\ Books(p, i, programs[i])'
    BY <1>a, <2>2 DEF BookInv, Books, SameProcess, world
  <2> QED
    BY <2>1, <2>2 DEF BookInv
\* Who holds them.
<1>h. /\ \A p \in Pid : call[p].pc = "won" => call[p].id \in Mine(p) /\ call[p].id \notin bodies[p]
      /\ DiesWithLauncher => \A i \in DOMAIN programs \ adopted : \E p \in Pid : i \in bodies[p]
      /\ \A p \in Pid : bodies[p] \subseteq Mine(p)
  BY DEF BookInv, Mine, InCall, Holding, HolderInv, OneHolder
<1>l. ASSUME NEW dead
      PROVE  LET left == ClaimsLeft(dead)
             IN  /\ \A p \in Pid : call[p].pc = "won"
                      => call[p].id \in DOMAIN left /\ left[call[p].id] = claims[call[p].id]
                 /\ DiesWithLauncher => \A i \in DOMAIN programs \ adopted :
                      i \in DOMAIN left /\ left[i] = claims[i]
  <2>1. ASSUME NEW p \in Pid, call[p].pc = "won"
        PROVE  /\ call[p].id \in DOMAIN ClaimsLeft(dead)
               /\ ClaimsLeft(dead)[call[p].id] = claims[call[p].id]
    <3>1. now + call[p].wall \in Nat /\ now <= now + call[p].wall + KillLag
      BY <1>c, <1>n DEF Call
    <3> QED
      BY <2>1, <3>1, BookedRowsAreLeft DEF BookInv
  <2>2. ASSUME DiesWithLauncher, NEW i \in DOMAIN programs \ adopted
        PROVE  i \in DOMAIN ClaimsLeft(dead) /\ ClaimsLeft(dead)[i] = claims[i]
    BY <2>2, <1>n, BookedRowsAreLeft DEF BookInv
  <2> QED
    BY <2>1, <2>2
\* A step that touches no row, no admission and no run.
<1>b. ASSUME UNCHANGED <<world, claims, bodies, adopted>>,
             \A q \in Pid : call'[q].pc = "won" => call'[q] = call[q],
             DOMAIN programs' \subseteq DOMAIN programs,
             \A i \in DOMAIN programs' : programs'[i] = programs[i]
      PROVE  BookInv'
  <2>1. /\ \A q \in Pid : call[q].pc = "won" => Stays(call[q].id)
        /\ DiesWithLauncher => \A i \in DOMAIN programs \ adopted : Stays(i)
    BY <1>b DEF BookInv, Books
  <2> QED
    BY <1>a, <1>b, <2>1
<1>1. ASSUME NEW p \in Pid, NEW kind \in Kinds, NEW need \in Asks, NEW wall \in Walls,
             NEW queue \in Queues, NEW key \in Keys, Ask(p, kind, need, wall, queue, key)
      PROVE  BookInv'
  <2>1. call'[p].pc = "look" /\ \A q \in Pid \ {p} : call'[q] = call[q]
    BY <1>1 DEF Ask, TypeOK, Idle
  <2> QED
    BY <1>1, <1>b, <2>1 DEF Ask, runs
<1>2. ASSUME NEW p \in Pid, Look(p) PROVE BookInv'
  <2>1. PICK D, r : call' = [call EXCEPT ![p].pc = "try", ![p].reading = r, ![p].dead = D]
    BY <1>2 DEF Look
  <2>2. call'[p].pc = "try" /\ \A q \in Pid \ {p} : call'[q] = call[q]
    BY <2>1, <1>c DEF TypeOK, Call
  <2> QED
    BY <1>2, <1>b, <2>2 DEF Look, ledger, runs
<1>3. ASSUME NEW p \in Pid, RefuseDuplicate(p) \/ Retry(p) \/ Leave(p) PROVE BookInv'
  <2>1. /\ call'[p].pc # "won" /\ \A q \in Pid \ {p} : call'[q] = call[q]
        /\ UNCHANGED <<world, claims, runs>>
    BY <1>3, <1>c DEF RefuseDuplicate, Retry, Leave, TypeOK, Call, Idle, ledger
  <2> QED
    BY <1>b, <2>1 DEF runs
<1>4. ASSUME NEW p \in Pid, Refuse(p) \/ Reap(p) PROVE BookInv'
  <2>1. /\ call'[p].pc # "won" /\ \A q \in Pid \ {p} : call'[q] = call[q]
        /\ UNCHANGED <<world, runs>> /\ claims' = ClaimsLeft(call[p].dead)
    BY <1>4, <1>c DEF Refuse, Reap, TypeOK, Call, Idle
  <2> QED
    BY <1>a, <1>l, <2>1 DEF runs
\* The new row is booked for the wall its caller asked.
<1>5. ASSUME NEW p \in Pid, Admit(p) PROVE BookInv'
  <2> DEFINE new == claimSeq + 1
  <2>1. /\ call[p].pc = "try" /\ call'[p].pc = "won" /\ call'[p].id = new
        /\ call'[p].wall = call[p].wall /\ call[p].key # DeclaredKey /\ p \in alive
        /\ \A q \in Pid \ {p} : call'[q] = call[q]
    BY <1>5 DEF Admit, Trying, TypeOK, Idle, CallInv, Waiting
  <2>2. /\ UNCHANGED <<world, runs>> /\ new \in DOMAIN claims' /\ claims'[new] = NewClaim(p)
        /\ \A i \in DOMAIN ClaimsLeft(call[p].dead) \ {new} :
             i \in DOMAIN claims' /\ claims'[i] = ClaimsLeft(call[p].dead)[i]
    BY <1>5 DEF Admit
  <2>3. /\ new \notin adopted /\ \A q \in Pid : new \notin Mine(q)
        /\ \A i \in DOMAIN programs : i # new
    BY DEF HolderInv, IdsAreGiven, Given, TypeOK
  <2>4. ASSUME NEW q \in Pid \ {p}, call'[q].pc = "won"
        PROVE  call'[q].id \notin adopted' /\ Books(q, call[q].id, now + call[q].wall)'
    <3>1. call[q].pc = "won" /\ Stays(call[q].id) /\ call[q].id \notin adopted
      BY <2>1, <2>2, <2>3, <2>4, <1>h, <1>l DEF BookInv
    <3> QED
      BY <2>1, <2>2, <3>1 DEF BookInv, Books, SameProcess, world, runs
  <2>5. Books(p, call[p].id, now + call[p].wall)'
    BY <2>1, <2>2, <1>c DEF Books, NewClaim, SameProcess, StampOf, world, Call, TypeOK
  <2>6. ASSUME DiesWithLauncher, NEW i \in DOMAIN programs' \ adopted'
        PROVE  /\ now' <= programs'[i] + KillLag
               /\ \E q \in Pid : i \in bodies'[q] /\ Books(q, i, programs[i])'
    <3>1. i \in DOMAIN programs \ adopted /\ Stays(i)
      BY <2>2, <2>3, <2>6, <1>l DEF runs
    <3> QED
      BY <2>2, <2>6, <3>1 DEF BookInv, Books, SameProcess, world, runs
  <2> QED
    BY <2>1, <2>2, <2>3, <2>4, <2>5, <2>6 DEF BookInv, runs
<1>r. /\ \A q \in Pid : call[q].pc = "won" => call[q].id \in DOMAIN claims
      /\ DiesWithLauncher => \A i \in DOMAIN programs \ adopted : i \in DOMAIN claims
  BY DEF BookInv, Books
<1>6. ASSUME NEW p \in Pid, EnterHold(p) PROVE BookInv'
  <2>1. /\ call'[p].pc = "idle" /\ \A q \in Pid \ {p} : call'[q] = call[q] /\ bodies'[q] = bodies[q]
        /\ bodies[p] \subseteq bodies'[p] /\ UNCHANGED <<world, claims, programs, adopted>>
    BY <1>6 DEF EnterHold, TypeOK, Idle, ledger
  <2> QED
    BY <1>a, <1>r, <2>1
\* The run starts at the moment of its admission.
<1>7. ASSUME NEW p \in Pid, EnterRun(p) PROVE BookInv'
  <2> DEFINE i == call[p].id
  <2>1. /\ call[p].pc = "won" /\ call'[p].pc = "idle"
        /\ \A q \in Pid \ {p} : call'[q] = call[q] /\ bodies'[q] = bodies[q]
        /\ bodies'[p] = bodies[p] \cup {i} /\ UNCHANGED <<world, claims, adopted>>
        /\ DOMAIN programs' = DOMAIN programs \cup {i} /\ programs'[i] = now + call[p].wall
        /\ \A j \in DOMAIN programs : j # i => programs'[j] = programs[j]
    BY <1>7 DEF EnterRun, Won, With, TypeOK, Idle, ledger
  <2>2. ASSUME NEW q \in Pid, call'[q].pc = "won"
        PROVE  call'[q].id \notin adopted' /\ Books(q, call[q].id, now + call[q].wall)'
    BY <2>1, <2>2 DEF BookInv, Books, SameProcess, world
  <2>3. ASSUME DiesWithLauncher, NEW j \in DOMAIN programs' \ adopted'
        PROVE  /\ now' <= programs'[j] + KillLag
               /\ \E q \in Pid : j \in bodies'[q] /\ Books(q, j, programs[j])'
    <3>1. CASE j = i
      BY <2>1, <3>1, <1>c, <1>n DEF BookInv, Books, SameProcess, world, Call
    <3>2. CASE j # i
      BY <2>1, <2>3, <3>2 DEF BookInv, Books, SameProcess, world
    <3> QED
      BY <3>1, <3>2
  <2> QED
    BY <2>2, <2>3 DEF BookInv
\* UPDATE ... WHERE id = i touches the row of no other holder.
<1>u. ASSUME NEW p \in Pid, NEW i, NEW row, claims' = Updated(i, row), i \in Mine(p),
             UNCHANGED <<world, adopted, programs, bodies>>, i \notin bodies[p] \cap DOMAIN programs,
             \A q \in Pid \ {p} : call'[q] = call[q],
             call'[p].pc # "won" \/ (call'[p] = call[p] /\ i \in bodies[p])
      PROVE  BookInv'
  <2>1. ASSUME NEW q \in Pid, call'[q].pc = "won"
        PROVE  call'[q] = call[q] /\ Stays(call[q].id)
    <3>1. call'[q] = call[q]
      BY <1>u, <2>1
    <3>2. call[q].id # i
      BY <1>u, <2>1, <3>1, <1>h DEF HolderInv, OneHolder, Mine, InCall, Holding
    <3> QED
      BY <1>u, <2>1, <1>r, <3>1, <3>2 DEF Updated
  <2>2. ASSUME DiesWithLauncher, NEW j \in DOMAIN programs \ adopted PROVE Stays(j)
    <3>1. PICK q \in Pid : j \in bodies[q]
      BY <2>2, <1>h
    <3>2. j # i
      BY <1>u, <2>2, <3>1 DEF HolderInv, OneHolder, Mine, InCall
    <3> QED
      BY <1>u, <2>2, <1>r, <3>2 DEF Updated
  <2> QED
    BY <1>a, <1>u, <2>1, <2>2
<1>8. ASSUME NEW p \in Pid, Keep(p) PROVE BookInv'
  <2>1. /\ call[p].pc = "won" /\ call'[p].pc = "idle" /\ \A q \in Pid \ {p} : call'[q] = call[q]
        /\ UNCHANGED <<world, bodies, programs, adopted>>
        /\ claims' = Updated(call[p].id, [claims[call[p].id] EXCEPT !.kept = TRUE])
    BY <1>8 DEF Keep, Won, TypeOK, Idle
  <2> QED
    BY <1>u, <1>h, <2>1
<1>9. ASSUME NEW p \in Pid, Persist(p) PROVE BookInv'
  <2>1. /\ call[p].pc = "won" /\ call'[p].pc = "submit" /\ \A q \in Pid \ {p} : call'[q] = call[q]
        /\ UNCHANGED <<world, bodies, programs, adopted>>
        /\ claims' = Updated(call[p].id, [claims[call[p].id] EXCEPT !.kept = TRUE, !.probe = "job"])
    BY <1>9, <1>c DEF Persist, Won, TypeOK, Call, runs
  <2> QED
    BY <1>u, <1>h, <2>1
<1>10. ASSUME NEW p \in Pid, Submit(p) PROVE BookInv'
  <2>1. /\ call'[p].pc = "idle" /\ \A q \in Pid \ {p} : call'[q] = call[q]
        /\ UNCHANGED <<world, claims, bodies, programs, adopted>>
    BY <1>10 DEF Submit, TypeOK, Idle, ledger
  <2> QED
    BY <1>b, <2>1
\* A kept row moves to the run that adopts it, which no clause is about.
<1>11. ASSUME NEW p \in Pid, Adopt(p) PROVE BookInv'
  <2> DEFINE i == call[p].id
  <2>1. /\ call[p].pc = "adopt" /\ call'[p].pc = "idle"
        /\ \A q \in Pid \ {p} : call'[q] = call[q] /\ bodies'[q] = bodies[q]
        /\ bodies'[p] = bodies[p] \cup {i} /\ UNCHANGED world /\ adopted' = adopted \cup {i}
        /\ DOMAIN programs' = DOMAIN programs \cup {i}
        /\ \A j \in DOMAIN programs : j # i => programs'[j] = programs[j]
        /\ \A j \in DOMAIN claims : j # i => Stays(j)
    BY <1>11 DEF Adopt, MovedTo, Updated, With, TypeOK, Idle
  <2>2. \A q \in Pid : call'[q].pc = "won" => call[q].id # i /\ call'[q] = call[q]
    BY <2>1, <1>h DEF HolderInv, OneHolder, Mine, InCall, Holding
  <2> QED
    BY <1>a, <1>r, <2>1, <2>2
<1>12. ASSUME NEW p \in Pid, NEW i \in ClaimId, Exit(p, i) PROVE BookInv'
  <2>1. /\ i \in bodies[p] /\ UNCHANGED <<world, call>> /\ adopted' = adopted \ {i}
        /\ \A q \in Pid : bodies[q] \ {i} \subseteq bodies'[q]
        /\ DOMAIN programs' = DOMAIN programs \ {i}
        /\ \A j \in DOMAIN programs' : programs'[j] = programs[j]
        /\ \A j \in DOMAIN claims : j # i => Stays(j)
    BY <1>12 DEF Exit, Without, Deleted, Restrict, TypeOK
  <2>2. \A q \in Pid : call[q].pc = "won" => call[q].id # i
    BY <2>1, <1>h DEF HolderInv, OneHolder
  <2> QED
    BY <1>a, <1>r, <2>1, <2>2
<1>13. ASSUME NEW p \in Pid, NEW v \in Vendors, NEW i \in ClaimId, HandOver(p, v, i) PROVE BookInv'
  <2>1. /\ i \in bodies[p] \ DOMAIN programs
        /\ UNCHANGED <<world, call, bodies, programs, adopted>>
        /\ claims' = Updated(i, [claims[i] EXCEPT !.pid = v, !.born = StampOf(v), !.kept = TRUE])
    BY <1>13 DEF HandOver, MovedTo, runs
  <2> QED
    BY <1>u, <1>h, <2>1
<1>14. ASSUME NEW p \in Pid, NEW i \in ClaimId, CheckOffer(p, i) PROVE BookInv'
  <2>1. CASE call' = call
    BY <1>14, <1>b, <2>1 DEF CheckOffer, ledger
  <2>2. CASE call' = [call EXCEPT ![p] = [Idle EXCEPT !.pc = "adopt", !.id = i, !.wall = offered[i]]]
    <3>1. call'[p].pc = "adopt" /\ \A q \in Pid \ {p} : call'[q] = call[q]
      BY <2>2 DEF TypeOK, Idle
    <3> QED
      BY <1>14, <1>b, <3>1 DEF CheckOffer, ledger
  <2> QED
    BY <1>14, <2>1, <2>2 DEF CheckOffer
<1>15. ASSUME NEW p \in Pid, NEW need \in DeclaredAsks, NEW wall \in Walls, Declare(p, need, wall)
       PROVE  BookInv'
  <2>1. /\ UNCHANGED <<world, call, runs>>
        /\ \A i \in DOMAIN claims : i # claimSeq + 1 => Stays(i)
    BY <1>15 DEF Declare, With
  <2>2. \A i \in DOMAIN claims : Stays(i)
    BY <2>1 DEF TypeOK
  <2> QED
    BY <1>a, <1>r, <2>1, <2>2 DEF runs
\* What release() takes is a declared row, an ended job's or an offered one.
<1>16. ASSUME NEW p \in Pid, NEW i \in ClaimId, Release(p, i) PROVE BookInv'
  <2>1. /\ UNCHANGED <<world, call, bodies, programs, adopted>>
        /\ claims[i].key = DeclaredKey \/ i \in Started \/ i \in DOMAIN offered
        /\ \A j \in DOMAIN claims : j # i => Stays(j)
    BY <1>16 DEF Release, Deleted, Restrict, Started
  <2>2. \A q \in Pid : call[q].pc = "won" => call[q].id # i
    BY <2>1, <1>h DEF BookInv, Books, HolderInv, OneHolder
  <2>3. DiesWithLauncher => \A j \in DOMAIN programs \ adopted : j # i
    BY <2>1, <1>h DEF BookInv, Books, HolderInv, OneHolder
  <2> QED
    BY <1>a, <1>r, <2>1, <2>2, <2>3
<1>17. ASSUME NEW p \in Pid, StartReap(p) PROVE BookInv'
  <2>1. call'[p].pc = "reap" /\ \A q \in Pid \ {p} : call'[q] = call[q]
    BY <1>17 DEF StartReap, TypeOK, Idle
  <2> QED
    BY <1>17, <1>b, <2>1 DEF StartReap, ledger, runs
\* Where a run dies with its launcher, none is left to book.
<1>18. ASSUME NEW p \in Pid, Crash(p) PROVE BookInv'
  <2>1. /\ alive' = alive \ {p} /\ call'[p].pc = "idle" /\ UNCHANGED <<now, inc, claims, adopted>>
        /\ \A q \in Pid \ {p} : call'[q] = call[q] /\ bodies'[q] = bodies[q]
        /\ DiesWithLauncher => programs' = Without(programs, bodies[p])
    BY <1>18 DEF Crash, TypeOK, Idle, ledger
  <2>2. ASSUME NEW q \in Pid, call'[q].pc = "won"
        PROVE  call'[q].id \notin adopted' /\ Books(q, call[q].id, now + call[q].wall)'
    BY <2>1, <2>2 DEF BookInv, Books, SameProcess
  <2>3. ASSUME DiesWithLauncher, NEW j \in DOMAIN programs' \ adopted'
        PROVE  /\ now' <= programs'[j] + KillLag
               /\ \E q \in Pid : j \in bodies'[q] /\ Books(q, j, programs[j])'
    <3>1. j \in DOMAIN programs \ adopted /\ j \notin bodies[p] /\ programs'[j] = programs[j]
      BY <2>1, <2>3 DEF Without, Restrict
    <3>2. PICK q \in Pid : j \in bodies[q] /\ Books(q, j, programs[j])
      BY <2>3, <3>1 DEF BookInv
    <3>3. q # p /\ SameProcess(claims[j])'
      BY <2>1, <3>1, <3>2 DEF Books, SameProcess
    <3>4. now <= programs[j] + KillLag
      BY <2>3, <3>1 DEF BookInv
    <3> QED
      BY <2>1, <3>1, <3>2, <3>3, <3>4 DEF Books
  <2> QED
    BY <2>2, <2>3 DEF BookInv
<1>19. ASSUME NEW p \in Pid, Recycle(p) PROVE BookInv'
  <2>1. /\ p \notin alive /\ alive' = alive \cup {p}
        /\ \A q \in Pid \ {p} : inc'[q] = inc[q]
        /\ UNCHANGED <<now, claims, call, bodies, programs, adopted>>
    BY <1>19 DEF Recycle, TypeOK, ledger, runs
  <2>2. \A q \in Pid : \A i, moment : Books(q, i, moment) => Books(q, i, moment)'
    <3> SUFFICES ASSUME NEW q \in Pid, NEW i, NEW moment, Books(q, i, moment)
                 PROVE  SameProcess(claims[i])'
      BY <2>1 DEF Books
    <3> QED
      BY <2>1 DEF Books, SameProcess
  <2> QED
    BY <2>1, <2>2 DEF BookInv
<1>20. ASSUME NEW i \in ClaimId, OrphanEnds(i) \/ JobEnds(i) PROVE BookInv'
  BY <1>20, <1>b DEF OrphanEnds, JobEnds, Without, Restrict, ledger
\* No time passes for an admitted caller, nor for a run at its last moment.
<1>21. ASSUME Tick PROVE BookInv'
  <2>1. /\ \A p \in alive : call[p].pc # "won"
        /\ \A p \in Pid : \A i \in bodies[p] \cap DOMAIN programs : now < programs[i] + KillLag
        /\ now' = now + 1 /\ UNCHANGED <<alive, inc, claims, call, bodies, programs, adopted>>
    BY <1>21 DEF Tick, ledger, runs
  <2>2. \A p \in Pid : call[p].pc # "won"
    BY <2>1 DEF HolderInv, TheDeadHoldNothing, Idle
  <2>3. DiesWithLauncher => \A i \in DOMAIN programs \ adopted :
          /\ now + 1 <= programs[i] + KillLag
          /\ \E p \in Pid : i \in bodies[p] /\ Books(p, i, programs[i])'
    BY <2>1, <1>n DEF BookInv, Books, SameProcess
  <2> QED
    BY <2>1, <2>2, <2>3 DEF BookInv
<1>22. ASSUME UNCHANGED vars PROVE BookInv'
  BY <1>22, <1>b DEF vars, world
<1> QED
  BY <1>1, <1>2, <1>3, <1>4, <1>5, <1>6, <1>7, <1>8, <1>9, <1>10, <1>11, <1>12, <1>13, <1>14,
     <1>15, <1>16, <1>17, <1>18, <1>19, <1>20, <1>21, <1>22 DEF Next, Wait, Use, Horizon

-----------------------------------------------------------------------------
\* No run is adopted where no claim is taken.
NoneTaken ==
  "take" \notin Kinds =>
    DOMAIN offered = {} /\ adopted = {} /\ \A p \in Pid : call[p].pc # "adopt"

\* Nothing is offered at first.
LEMMA NoneTakenInit == Init => NoneTaken
BY DEF Init, NoneTaken, Idle

\* Only take() offers a claim, and only an offered claim is adopted.
LEMMA NoneTakenNext == TypeInv /\ CallInv /\ NoneTaken /\ [Next]_vars => NoneTaken'
<1> SUFFICES ASSUME TypeOK, CallInv, "take" \notin Kinds,
                    DOMAIN offered = {}, adopted = {}, \A p \in Pid : call[p].pc # "adopt",
                    [Next]_vars
             PROVE  DOMAIN offered' = {} /\ adopted' = {} /\ \A p \in Pid : call'[p].pc # "adopt"
  BY DEF TypeInv, NoneTaken
<1>c. \A p \in Pid : call[p] \in Call
  BY DEF TypeOK
<1>1. \A p \in Pid : ~Keep(p) /\ ~Adopt(p)
  BY DEF Keep, Adopt, Won, CallInv
<1>2. ASSUME NEW p \in Pid PROVE \A i \in ClaimId : ~CheckOffer(p, i)
  BY DEF CheckOffer
<1>u. ASSUME UNCHANGED <<offered, adopted>> PROVE DOMAIN offered' = {} /\ adopted' = {}
  BY <1>u
<1>3. DOMAIN offered' = {} /\ adopted' = {}
  <2>1. ASSUME NEW p \in Pid, NEW kind \in Kinds, NEW need \in Asks, NEW wall \in Walls,
               NEW queue \in Queues, NEW key \in Keys, Ask(p, kind, need, wall, queue, key)
        PROVE  DOMAIN offered' = {} /\ adopted' = {}
    BY <2>1, <1>u DEF Ask, runs
  <2>2. ASSUME NEW p \in Pid, Wait(p) PROVE DOMAIN offered' = {} /\ adopted' = {}
    BY <2>2, <1>u DEF Wait, Look, RefuseDuplicate, Refuse, Admit, Retry, Leave, runs
  <2>3. ASSUME NEW p \in Pid, Use(p) PROVE DOMAIN offered' = {} /\ adopted' = {}
    BY <2>3, <1>u, <1>1 DEF Use, EnterHold, EnterRun, Persist, Submit, runs
  <2>4. ASSUME NEW p \in Pid, NEW i \in ClaimId, Exit(p, i)
        PROVE  DOMAIN offered' = {} /\ adopted' = {}
    BY <2>4 DEF Exit
  <2>5. ASSUME NEW p \in Pid, NEW i \in ClaimId, Release(p, i)
        PROVE  DOMAIN offered' = {} /\ adopted' = {}
    BY <2>5 DEF Release, Without, Restrict
  <2>6. ASSUME NEW p \in Pid, NEW v \in Vendors, NEW i \in ClaimId, HandOver(p, v, i)
        PROVE  DOMAIN offered' = {} /\ adopted' = {}
    BY <2>6, <1>u DEF HandOver, runs
  <2>7. ASSUME NEW p \in Pid, NEW need \in DeclaredAsks, NEW wall \in Walls, Declare(p, need, wall)
        PROVE  DOMAIN offered' = {} /\ adopted' = {}
    BY <2>7, <1>u DEF Declare, runs
  <2>8. ASSUME NEW p \in Pid, StartReap(p) \/ Reap(p) \/ Crash(p) \/ Recycle(p)
        PROVE  DOMAIN offered' = {} /\ adopted' = {}
    BY <2>8, <1>u DEF StartReap, Reap, Crash, Recycle, runs
  <2>9. ASSUME (\E i \in ClaimId : OrphanEnds(i) \/ JobEnds(i)) \/ Tick \/ UNCHANGED vars
        PROVE  DOMAIN offered' = {} /\ adopted' = {}
    BY <2>9, <1>u DEF OrphanEnds, JobEnds, Tick, vars, runs
  <2> QED
    BY <1>2, <2>1, <2>2, <2>3, <2>4, <2>5, <2>6, <2>7, <2>8, <2>9 DEF Next, Horizon
<1>4. ASSUME NEW p \in Pid, \A q \in Pid \ {p} : call'[q] = call[q], call'[p].pc # "adopt"
      PROVE  \A q \in Pid : call'[q].pc # "adopt"
  BY <1>4
<1>5. ASSUME NEW p \in Pid, Wait(p) \/ Use(p) \/ StartReap(p) \/ Reap(p) \/ Crash(p)
      PROVE  \A q \in Pid : call'[q].pc # "adopt"
  <2>1. CASE Look(p)
    <3>1. PICK D, r : call' = [call EXCEPT ![p].pc = "try", ![p].reading = r, ![p].dead = D]
      BY <2>1 DEF Look
    <3> QED
      BY <3>1, <1>4, <1>c DEF TypeOK, Call
  <2>2. CASE RefuseDuplicate(p) \/ Refuse(p) \/ Retry(p) \/ Persist(p)
    BY <2>2, <1>4, <1>c DEF RefuseDuplicate, Refuse, Retry, Persist, TypeOK, Call
  <2>3. CASE Admit(p)
    <3> DEFINE k == [Idle EXCEPT !.pc = "won", !.kind = call[p].kind,
                                 !.wall = call[p].wall, !.id = claimSeq + 1]
    <3>1. call' = [call EXCEPT ![p] = k]
      BY <2>3 DEF Admit
    <3>2. k.pc = "won"
      BY DEF Idle
    <3> HIDE DEF k
    <3> QED
      BY <3>1, <3>2, <1>4 DEF TypeOK
  <2>r. CASE StartReap(p)
    BY <2>r, <1>4, <1>c DEF StartReap, TypeOK, Idle
  <2>4. CASE Leave(p) \/ EnterHold(p) \/ EnterRun(p) \/ Submit(p) \/ Reap(p) \/ Crash(p)
    BY <2>4, <1>4 DEF Leave, EnterHold, EnterRun, Submit, Reap, Crash, TypeOK, Idle
  <2> QED
    BY <1>1, <1>5, <2>1, <2>2, <2>3, <2>r, <2>4 DEF Wait, Use
<1>6. ASSUME NEW p \in Pid, NEW kind \in Kinds, NEW need \in Asks, NEW wall \in Walls,
             NEW queue \in Queues, NEW key \in Keys, Ask(p, kind, need, wall, queue, key)
      PROVE  \A q \in Pid : call'[q].pc # "adopt"
  BY <1>6, <1>4 DEF Ask, TypeOK, Idle
<1>7. ASSUME call' = call PROVE \A q \in Pid : call'[q].pc # "adopt"
  BY <1>7
<1>8. ASSUME NEW p \in Pid, NEW i \in ClaimId,
             Exit(p, i) \/ Release(p, i) \/ \E v \in Vendors : HandOver(p, v, i)
      PROVE  \A q \in Pid : call'[q].pc # "adopt"
  BY <1>8, <1>7 DEF Exit, Release, HandOver
<1>9. ASSUME NEW p \in Pid, NEW need \in DeclaredAsks, NEW wall \in Walls, Declare(p, need, wall)
      PROVE  \A q \in Pid : call'[q].pc # "adopt"
  BY <1>9, <1>7 DEF Declare
<1>10. ASSUME \/ \E p \in Pid : Recycle(p)
              \/ \E i \in ClaimId : OrphanEnds(i) \/ JobEnds(i)
              \/ Tick \/ UNCHANGED vars
       PROVE  \A q \in Pid : call'[q].pc # "adopt"
  BY <1>10, <1>7 DEF Recycle, OrphanEnds, JobEnds, Tick, vars
<1>11. \A q \in Pid : call'[q].pc # "adopt"
  BY <1>2, <1>5, <1>6, <1>8, <1>9, <1>10 DEF Next, Horizon
<1> QED
  BY <1>3, <1>11

-----------------------------------------------------------------------------
\* What the row of a job says, and that nobody's probe answer takes it: an
\* answer read before the lock names no job that runs, nor one to be submitted.
JobInv ==
  /\ \A i \in DOMAIN claims : i \in Started
       => claims[i].probe = "job" /\ claims[i].key # DeclaredKey
  /\ \A p \in Pid : call[p].pc = "won" /\ call[p].id \in DOMAIN claims
       => claims[call[p].id].probe = "none"
  /\ \A p \in Pid : call[p].pc = "submit" /\ call[p].id \in DOMAIN claims
       => LET row == claims[call[p].id]
          IN  row.pid = p /\ SameProcess(row) /\ row.key # DeclaredKey /\ row.probe = "job"
  /\ ~ProbeMayFail => \A q \in Pid : \A i \in call[q].dead :
       /\ job[i] # "running"
       /\ \A p \in Pid : call[p].pc \in {"won", "submit"} => call[p].id # i

\* No job runs at first.
LEMMA JobInit == Init => JobInv
BY DEF Init, JobInv, Idle

\* Every step keeps the rows of the jobs and the answers about them: an answer is
\* read of a row whose client is gone, and the id of a job to come is its client's.
LEMMA JobNext == TypeInv /\ HolderInv /\ BookInv /\ JobInv /\ [Next]_vars => JobInv'
<1> SUFFICES ASSUME TypeOK, HasClaim, HolderInv, BookInv, JobInv, [Next]_vars PROVE JobInv'
  BY DEF TypeInv
<1> USE LedgerAssumption
<1>c. \A p \in Pid : call[p] \in Call
  BY DEF TypeOK
<1>w. \A i \in DOMAIN claims : claims[i] \in Row /\ i \in 1 .. claimSeq
  BY DEF TypeOK
<1>g. /\ \A p \in Pid : call[p].pc \in {"won", "submit"} => call[p].id \in Given /\ p \in alive
      /\ Started \subseteq Given /\ claimSeq + 1 \notin Given
      /\ \A q \in Pid : call[q].dead \subseteq Given
      /\ DOMAIN claims \subseteq Given
  BY DEF HolderInv, IdsAreGiven, TheDeadHoldNothing, Mine, InCall, Holding, Given, TypeOK, Idle
\* A step that starts no job and submits none, and changes no row to submit.
<1>a. ASSUME \A i \in ClaimId : job'[i] = job[i] \/ (job[i] = "running" /\ job'[i] = "ended"),
             \A p \in Pid : call'[p].pc = "submit"
               => (p \in alive => p \in alive') /\ inc'[p] = inc[p],
             \A i \in DOMAIN claims' :
               \/ i = claimSeq + 1
               \/ /\ i \in DOMAIN claims
                  /\ claims'[i].key = claims[i].key /\ claims'[i].probe = claims[i].probe
                  /\ claims'[i] = claims[i]
                       \/ \A p \in Pid : call'[p].pc = "submit" => call'[p].id # i,
             \A q \in Pid : call'[q].pc \in {"won", "submit"}
               => call'[q].pc = call[q].pc /\ call'[q].id = call[q].id,
             \A q \in Pid : call'[q].dead \subseteq call[q].dead
      PROVE  JobInv'
  <2>1. \A i \in DOMAIN claims' : i \in Started'
          => claims'[i].probe = "job" /\ claims'[i].key # DeclaredKey
    BY <1>a, <1>g DEF JobInv, Started
  <2>2. \A p \in Pid : call'[p].pc = "won" /\ call'[p].id \in DOMAIN claims'
          => claims'[call'[p].id].probe = "none"
    BY <1>a, <1>g DEF JobInv
  <2>3. ASSUME NEW p \in Pid, call'[p].pc = "submit", call'[p].id \in DOMAIN claims'
        PROVE  LET row == claims[call[p].id]
               IN  (row.pid = p /\ SameProcess(row) /\ row.key # DeclaredKey /\ row.probe = "job")'
    <3>1. /\ call[p].pc = "submit" /\ call[p].id \in DOMAIN claims
          /\ claims'[call'[p].id] = claims[call[p].id]
      BY <1>a, <1>g, <2>3
    <3> QED
      BY <1>a, <2>3, <3>1 DEF JobInv, SameProcess
  <2>4. ASSUME ~ProbeMayFail, NEW q \in Pid, NEW i \in call'[q].dead
        PROVE  /\ job'[i] # "running"
               /\ \A p \in Pid : call'[p].pc \in {"won", "submit"} => call'[p].id # i
    <3>1. i \in call[q].dead /\ i \in ClaimId
      BY <1>a, <1>c, <2>4 DEF Call
    <3> QED
      BY <1>a, <2>4, <3>1 DEF JobInv
  <2> QED
    BY <2>1, <2>2, <2>3, <2>4 DEF JobInv
\* A step that changes nothing but one call, which is none of an admitted caller.
<1>b. ASSUME NEW p \in Pid, UNCHANGED <<alive, inc, job>>,
             \A i \in DOMAIN claims' : i \in DOMAIN claims /\ claims'[i] = claims[i],
             \A q \in Pid \ {p} : call'[q] = call[q],
             call'[p].pc \notin {"won", "submit"}, call'[p].dead \subseteq call[p].dead
      PROVE  JobInv'
  BY <1>a, <1>b
<1>1. ASSUME NEW p \in Pid, NEW kind \in Kinds, NEW need \in Asks, NEW wall \in Walls,
             NEW queue \in Queues, NEW key \in Keys, Ask(p, kind, need, wall, queue, key)
      PROVE  JobInv'
  <2>1. call'[p].pc = "look" /\ call'[p].dead = {} /\ \A q \in Pid \ {p} : call'[q] = call[q]
    BY <1>1 DEF Ask, TypeOK, Idle
  <2> QED
    BY <1>1, <1>b, <2>1 DEF Ask, world, runs
\* A probe's answer names no job that runs, and no row of an admitted caller.
<1>2. ASSUME NEW p \in Pid, Look(p) \/ StartReap(p) PROVE JobInv'
  <2>1. PICK D \in DeadExternals :
          /\ call'[p].pc \notin {"won", "submit"} /\ call'[p].dead = D
          /\ \A q \in Pid \ {p} : call'[q] = call[q]
    <3>1. CASE Look(p)
      <4>1. PICK D \in DeadExternals : \E r :
              call' = [call EXCEPT ![p].pc = "try", ![p].reading = r, ![p].dead = D]
        BY <3>1 DEF Look
      <4> QED
        BY <4>1, <1>c DEF TypeOK, Call
    <3>2. CASE StartReap(p)
      BY <3>2 DEF StartReap, TypeOK, Idle
    <3> QED
      BY <1>2, <3>1, <3>2
  <2>2. UNCHANGED <<alive, inc, claims, job>>
    BY <1>2 DEF Look, StartReap, world, ledger, runs
  <2>3. ASSUME ~ProbeMayFail, NEW i \in D
        PROVE  /\ job[i] # "running"
               /\ \A q \in Pid : call[q].pc \in {"won", "submit"} => call[q].id # i
    <3>1. /\ i \in DOMAIN claims /\ claims[i].probe = "job" /\ ~SameProcess(claims[i])
          /\ job[i] # "running"
      BY <2>3 DEF DeadExternals
    <3> QED
      BY <3>1 DEF JobInv
  <2>4. /\ \A i \in DOMAIN claims' : i \in Started'
             => claims'[i].probe = "job" /\ claims'[i].key # DeclaredKey
        /\ \A q \in Pid : call'[q].pc = "won" /\ call'[q].id \in DOMAIN claims'
             => claims'[call'[q].id].probe = "none"
    BY <2>1, <2>2 DEF JobInv, Started
  <2>5. ASSUME NEW q \in Pid, call'[q].pc = "submit", call'[q].id \in DOMAIN claims'
        PROVE  LET row == claims[call[q].id]
               IN  (row.pid = q /\ SameProcess(row) /\ row.key # DeclaredKey /\ row.probe = "job")'
    BY <2>1, <2>2, <2>5 DEF JobInv, SameProcess
  <2>6. ASSUME ~ProbeMayFail, NEW q \in Pid, NEW i \in call'[q].dead
        PROVE  /\ job'[i] # "running"
               /\ \A o \in Pid : call'[o].pc \in {"won", "submit"} => call'[o].id # i
    <3>1. job[i] # "running" /\ \A o \in Pid : call[o].pc \in {"won", "submit"} => call[o].id # i
      BY <2>1, <2>3, <2>6 DEF JobInv
    <3> QED
      BY <2>1, <2>2, <3>1
  <2> QED
    BY <2>4, <2>5, <2>6 DEF JobInv
<1>3. ASSUME NEW p \in Pid, RefuseDuplicate(p) \/ Retry(p) \/ Leave(p) PROVE JobInv'
  <2>1. /\ call'[p].pc \notin {"won", "submit"} /\ call'[p].dead \subseteq call[p].dead
        /\ \A q \in Pid \ {p} : call'[q] = call[q]
        /\ UNCHANGED <<world, claims, runs>>
    BY <1>3, <1>c DEF RefuseDuplicate, Retry, Leave, TypeOK, Call, Idle, ledger
  <2> QED
    BY <1>b, <2>1 DEF world, runs
<1>4. ASSUME NEW p \in Pid, Refuse(p) \/ Reap(p) PROVE JobInv'
  <2>1. /\ call'[p].pc \notin {"won", "submit"} /\ call'[p].dead \subseteq call[p].dead
        /\ \A q \in Pid \ {p} : call'[q] = call[q]
        /\ UNCHANGED <<world, runs>> /\ claims' = ClaimsLeft(call[p].dead)
    BY <1>4, <1>c DEF Refuse, Reap, TypeOK, Call, Idle
  <2>2. \A i \in DOMAIN claims' : i \in DOMAIN claims /\ claims'[i] = claims[i]
    BY <2>1 DEF ClaimsLeft, Restrict
  <2> QED
    BY <1>b, <2>1, <2>2 DEF world, runs
<1>5. ASSUME NEW p \in Pid, Admit(p) PROVE JobInv'
  <2> DEFINE new == claimSeq + 1
  <2>1. /\ call'[p].pc = "won" /\ call'[p].id = new /\ call'[p].dead = {}
        /\ \A q \in Pid \ {p} : call'[q] = call[q]
    BY <1>5 DEF Admit, TypeOK, Idle
  <2>2. /\ UNCHANGED <<world, runs>> /\ claims'[new].probe = "none"
        /\ \A i \in DOMAIN claims' : i # new => i \in DOMAIN claims /\ claims'[i] = claims[i]
    BY <1>5 DEF Admit, NewClaim, ClaimsLeft, Restrict
  <2>3. /\ \A i \in DOMAIN claims' : i \in Started'
             => claims'[i].probe = "job" /\ claims'[i].key # DeclaredKey
        /\ \A q \in Pid : call'[q].pc = "won" /\ call'[q].id \in DOMAIN claims'
             => claims'[call'[q].id].probe = "none"
    BY <2>1, <2>2, <1>g DEF JobInv, Started, runs
  <2>4. ASSUME NEW q \in Pid, call'[q].pc = "submit", call'[q].id \in DOMAIN claims'
        PROVE  LET row == claims[call[q].id]
               IN  (row.pid = q /\ SameProcess(row) /\ row.key # DeclaredKey /\ row.probe = "job")'
    BY <2>1, <2>2, <2>4, <1>g DEF JobInv, SameProcess, world
  <2>5. ASSUME ~ProbeMayFail, NEW q \in Pid, NEW i \in call'[q].dead
        PROVE  /\ job'[i] # "running"
               /\ \A o \in Pid : call'[o].pc \in {"won", "submit"} => call'[o].id # i
    <3>1. /\ job[i] # "running" /\ i \in Given
          /\ \A o \in Pid : call[o].pc \in {"won", "submit"} => call[o].id # i
      BY <2>1, <2>5, <1>g DEF JobInv
    <3> QED
      BY <2>1, <2>2, <3>1, <1>g DEF runs
  <2> QED
    BY <2>3, <2>4, <2>5 DEF JobInv
<1>6. ASSUME NEW p \in Pid, EnterHold(p) \/ EnterRun(p) PROVE JobInv'
  <2>1. /\ call'[p].pc = "idle" /\ call'[p].dead = {} /\ \A q \in Pid \ {p} : call'[q] = call[q]
        /\ UNCHANGED <<world, claims, job>>
    BY <1>6 DEF EnterHold, EnterRun, TypeOK, Idle, ledger
  <2> QED
    BY <1>b, <2>1 DEF world
\* UPDATE ... WHERE id = i of a row that no other caller is to submit.
<1>u. ASSUME NEW p \in Pid, NEW i, NEW row, i \in Mine(p), claims' = Updated(i, row),
             i \in DOMAIN claims => row.key = claims[i].key /\ row.probe = claims[i].probe,
             \A q \in Pid \ {p} : call'[q] = call[q],
             call'[p].pc = "idle" /\ call'[p].dead \subseteq call[p].dead,
             UNCHANGED <<alive, inc, job>>
      PROVE  JobInv'
  <2>1. \A q \in Pid : call'[q].pc \in {"won", "submit"} => call'[q].id # i
    BY <1>u DEF HolderInv, OneHolder, Mine, InCall, Holding
  <2>2. \A j \in DOMAIN claims' : /\ j \in DOMAIN claims
                                  /\ j # i => claims'[j] = claims[j]
                                  /\ j = i => claims'[j] = row
    BY <1>u DEF Updated
  <2> QED
    BY <1>a, <1>u, <2>1, <2>2
<1>7. ASSUME NEW p \in Pid, Keep(p) PROVE JobInv'
  <2>1. /\ call[p].pc = "won" /\ call'[p].pc = "idle" /\ call'[p].dead = {}
        /\ \A q \in Pid \ {p} : call'[q] = call[q]
        /\ UNCHANGED <<world, job>>
        /\ claims' = Updated(call[p].id, [claims[call[p].id] EXCEPT !.kept = TRUE])
    BY <1>7 DEF Keep, Won, TypeOK, Idle
  <2>2. call[p].id \in Mine(p)
    BY <2>1 DEF Mine, InCall, Holding
  <2>3. call[p].id \in DOMAIN claims =>
          /\ [claims[call[p].id] EXCEPT !.kept = TRUE].key = claims[call[p].id].key
          /\ [claims[call[p].id] EXCEPT !.kept = TRUE].probe = claims[call[p].id].probe
    BY <1>w DEF Row
  <2> QED
    BY <1>u, <2>1, <2>2, <2>3 DEF world
<1>8. ASSUME NEW p \in Pid, Adopt(p) PROVE JobInv'
  <2> DEFINE row == [claims[call[p].id] EXCEPT !.pid = p, !.born = StampOf(p), !.kept = TRUE]
  <2>1. /\ call[p].pc = "adopt" /\ call'[p].pc = "idle" /\ call'[p].dead = {}
        /\ \A q \in Pid \ {p} : call'[q] = call[q]
        /\ UNCHANGED <<world, job>>
        /\ claims' = Updated(call[p].id, row)
    BY <1>8 DEF Adopt, MovedTo, TypeOK, Idle
  <2>2. call[p].id \in Mine(p)
    BY <2>1 DEF Mine, InCall, Holding
  <2>3. call[p].id \in DOMAIN claims =>
          row.key = claims[call[p].id].key /\ row.probe = claims[call[p].id].probe
    BY <1>w DEF Row
  <2> QED
    BY <1>u, <2>1, <2>2, <2>3 DEF world
<1>9. ASSUME NEW p \in Pid, NEW v \in Vendors, NEW i \in ClaimId, HandOver(p, v, i) PROVE JobInv'
  <2> DEFINE row == [claims[i] EXCEPT !.pid = v, !.born = StampOf(v), !.kept = TRUE]
  <2>1. /\ call[p].pc = "idle" /\ i \in Mine(p)
        /\ call' = call /\ UNCHANGED <<world, job>> /\ claims' = Updated(i, row)
    BY <1>9 DEF HandOver, Free, AtRest, MovedTo, Mine, runs
  <2>2. i \in DOMAIN claims => row.key = claims[i].key /\ row.probe = claims[i].probe
    BY <1>w DEF Row
  <2> QED
    BY <1>u, <2>1, <2>2 DEF world
\* The row to submit is its caller's, the probe asks the job that will run.
<1>10. ASSUME NEW p \in Pid, Persist(p) PROVE JobInv'
  <2> DEFINE i   == call[p].id
             row == [claims[i] EXCEPT !.kept = TRUE, !.probe = "job"]
  <2>1. /\ call[p].pc = "won" /\ call'[p].pc = "submit" /\ call'[p].id = i
        /\ call'[p].dead = call[p].dead
        /\ \A q \in Pid \ {p} : call'[q] = call[q]
        /\ UNCHANGED <<world, runs>>
        /\ claims' = Updated(i, row)
    BY <1>10, <1>c DEF Persist, Won, TypeOK, Call
  <2>2. /\ i \in DOMAIN claims /\ claims[i].pid = p /\ SameProcess(claims[i])
        /\ claims[i].key # DeclaredKey
    BY <2>1 DEF BookInv, Books
  <2>3. /\ row.pid = p /\ row.born = claims[i].born /\ row.key # DeclaredKey /\ row.probe = "job"
        /\ DOMAIN claims' = DOMAIN claims /\ claims'[i] = row
        /\ \A j \in DOMAIN claims : j # i => claims'[j] = claims[j]
    BY <2>1, <2>2, <1>w DEF Updated, Row
  <2>4. \A q \in Pid \ {p} : call[q].pc \in {"won", "submit"} => call[q].id # i
    BY <2>1 DEF HolderInv, OneHolder, Mine, InCall, Holding
  <2>5. /\ \A j \in DOMAIN claims' : j \in Started'
             => claims'[j].probe = "job" /\ claims'[j].key # DeclaredKey
        /\ \A q \in Pid : call'[q].pc = "won" /\ call'[q].id \in DOMAIN claims'
             => claims'[call'[q].id].probe = "none"
    BY <2>1, <2>3, <2>4 DEF JobInv, Started, runs
  <2>6. ASSUME NEW q \in Pid, call'[q].pc = "submit", call'[q].id \in DOMAIN claims'
        PROVE  LET r == claims[call[q].id]
               IN  (r.pid = q /\ SameProcess(r) /\ r.key # DeclaredKey /\ r.probe = "job")'
    <3>1. CASE q = p
      BY <2>1, <2>2, <2>3, <3>1 DEF SameProcess, world
    <3>2. CASE q # p
      BY <2>1, <2>3, <2>4, <2>6, <3>2 DEF JobInv, SameProcess, world
    <3> QED
      BY <3>1, <3>2
  <2>7. ASSUME ~ProbeMayFail, NEW q \in Pid, NEW j \in call'[q].dead
        PROVE  /\ job'[j] # "running"
               /\ \A o \in Pid : call'[o].pc \in {"won", "submit"} => call'[o].id # j
    <3>1. /\ job[j] # "running"
          /\ \A o \in Pid : call[o].pc \in {"won", "submit"} => call[o].id # j
      BY <2>1, <2>7 DEF JobInv
    <3> QED
      BY <2>1, <3>1 DEF runs
  <2> QED
    BY <2>5, <2>6, <2>7 DEF JobInv
\* No answer in hand names the job that starts.
<1>11. ASSUME NEW p \in Pid, Submit(p) PROVE JobInv'
  <2> DEFINE i == call[p].id
  <2>1. /\ call[p].pc = "submit" /\ call'[p].pc = "idle" /\ call'[p].dead = {}
        /\ \A q \in Pid \ {p} : call'[q] = call[q]
        /\ UNCHANGED <<world, claims>>
        /\ \A j \in ClaimId : job'[j] = IF j = i THEN "running" ELSE job[j]
    BY <1>11 DEF Submit, TypeOK, Idle, ledger, HasClaim
  <2>2. /\ \A j \in DOMAIN claims' : j \in Started'
             => claims'[j].probe = "job" /\ claims'[j].key # DeclaredKey
        /\ \A q \in Pid : call'[q].pc = "won" /\ call'[q].id \in DOMAIN claims'
             => claims'[call'[q].id].probe = "none"
    BY <2>1 DEF JobInv, Started
  <2>3. ASSUME NEW q \in Pid, call'[q].pc = "submit", call'[q].id \in DOMAIN claims'
        PROVE  LET row == claims[call[q].id]
               IN  (row.pid = q /\ SameProcess(row) /\ row.key # DeclaredKey /\ row.probe = "job")'
    BY <2>1, <2>3 DEF JobInv, SameProcess, world
  <2>4. ASSUME ~ProbeMayFail, NEW q \in Pid, NEW j \in call'[q].dead
        PROVE  /\ job'[j] # "running"
               /\ \A o \in Pid : call'[o].pc \in {"won", "submit"} => call'[o].id # j
    <3>1. /\ job[j] # "running" /\ j \in ClaimId
          /\ \A o \in Pid : call[o].pc \in {"won", "submit"} => call[o].id # j
      BY <2>1, <2>4, <1>c DEF JobInv, Call
    <3> QED
      BY <2>1, <3>1
  <2> QED
    BY <2>2, <2>3, <2>4 DEF JobInv
<1>12. ASSUME NEW p \in Pid, NEW i \in ClaimId, Exit(p, i) \/ Release(p, i) PROVE JobInv'
  <2>1. /\ UNCHANGED <<world, call, job>>
        /\ \A j \in DOMAIN claims' : j \in DOMAIN claims /\ claims'[j] = claims[j]
    BY <1>12 DEF Exit, Release, Deleted, Restrict
  <2> QED
    BY <1>a, <2>1 DEF world
<1>13. ASSUME NEW p \in Pid, NEW i \in ClaimId, CheckOffer(p, i) PROVE JobInv'
  <2>1. CASE call' = call
    BY <1>13, <1>a, <2>1 DEF CheckOffer, world, ledger
  <2>2. CASE call' = [call EXCEPT ![p] = [Idle EXCEPT !.pc = "adopt", !.id = i, !.wall = offered[i]]]
    <3>1. /\ call'[p].pc = "adopt" /\ call'[p].dead = {} /\ \A q \in Pid \ {p} : call'[q] = call[q]
      BY <2>2 DEF TypeOK, Idle
    <3> QED
      BY <1>13, <1>b, <3>1 DEF CheckOffer, world, ledger
  <2> QED
    BY <1>13, <2>1, <2>2 DEF CheckOffer
<1>14. ASSUME NEW p \in Pid, NEW need \in DeclaredAsks, NEW wall \in Walls, Declare(p, need, wall)
       PROVE  JobInv'
  <2>1. /\ UNCHANGED <<world, call, runs>>
        /\ \A i \in DOMAIN claims' : i # claimSeq + 1 => i \in DOMAIN claims /\ claims'[i] = claims[i]
    BY <1>14 DEF Declare, With
  <2> QED
    BY <1>a, <2>1 DEF world, runs
<1>15. ASSUME NEW p \in Pid, Crash(p) \/ Recycle(p) PROVE JobInv'
  <2>1. /\ UNCHANGED <<claims, job>> /\ call'[p].pc \notin {"won", "submit"}
        /\ call'[p].dead \subseteq call[p].dead
        /\ \A q \in Pid \ {p} : call'[q] = call[q] /\ inc'[q] = inc[q] /\ (q \in alive => q \in alive')
    BY <1>15 DEF Crash, Recycle, TypeOK, Idle, ledger, runs, HolderInv, TheDeadHoldNothing
  <2> QED
    BY <1>a, <2>1
<1>16. ASSUME NEW i \in ClaimId, OrphanEnds(i) \/ JobEnds(i) PROVE JobInv'
  <2>1. /\ UNCHANGED <<world, claims, call>>
        /\ \A j \in ClaimId : job'[j] = job[j] \/ (job[j] = "running" /\ job'[j] = "ended")
    BY <1>16 DEF OrphanEnds, JobEnds, ledger, TypeOK
  <2> QED
    BY <1>a, <2>1 DEF world
<1>17. ASSUME Tick \/ UNCHANGED vars PROVE JobInv'
  <2>1. UNCHANGED <<alive, inc, claims, call, job>>
    BY <1>17 DEF Tick, vars, ledger, runs
  <2> QED
    BY <1>a, <2>1
<1> QED
  BY <1>1, <1>2, <1>3, <1>4, <1>5, <1>6, <1>7, <1>8, <1>9, <1>10, <1>11, <1>12, <1>13, <1>14,
     <1>15, <1>16, <1>17 DEF Next, Wait, Use, Horizon

-----------------------------------------------------------------------------
\* Where a run dies with its launcher, every run that runs under a claim of its
\* own is on the ledger until its body ends: the grace of the reaper covers the
\* lag of the kill, and nobody deletes the row of a run that still runs.
THEOREM AdmittedRunsAreBooked ==
  ASSUME DiesWithLauncher
  PROVE  Spec => [](DOMAIN programs \ adopted \subseteq DOMAIN claims)
<1>1. BookInv => DOMAIN programs \ adopted \subseteq DOMAIN claims
  BY DEF BookInv, Books
<1> QED
  BY <1>1, TypeInit, TypeNext, HolderInit, HolderNext, CallInit, CallNext, BookInit, BookNext,
     PTL DEF Spec

\* So every contained run is, where no claim is taken for a run to adopt: the
\* check of an offered claim and its adoption are two transactions, and the row
\* may be reaped between them.
THEOREM RunsAreBooked ==
  ASSUME DiesWithLauncher, "take" \notin Kinds
  PROVE  Spec => []ProgramsAreBooked
<1>1. BookInv /\ NoneTaken => ProgramsAreBooked
  BY DEF BookInv, Books, NoneTaken, ProgramsAreBooked
<1> QED
  BY <1>1, TypeInit, TypeNext, HolderInit, HolderNext, CallInit, CallNext, BookInit, BookNext,
     NoneTakenInit, NoneTakenNext, PTL DEF Spec

-----------------------------------------------------------------------------
\* What removes a row, and what it says of the row.
LEMMA RemovedRows ==
  ASSUME TypeOK, [Next]_vars, NEW i \in DOMAIN claims \ DOMAIN claims'
  PROVE  \/ \E p \in Pid : Reapable(i, call[p].dead) /\ offered' = offered
         \/ \E p \in Pid : i \in bodies[p]
         \/ /\ offered' = Without(offered, {i})
            /\ claims[i].key = DeclaredKey \/ job[i] = "ended" \/ i \in DOMAIN offered
<1>u. claims' # claims
  OBVIOUS
<1>r. ASSUME NEW p \in Pid, claims' = ClaimsLeft(call[p].dead) \/ Admit(p), offered' = offered
      PROVE  \E q \in Pid : Reapable(i, call[q].dead) /\ offered' = offered
  BY <1>r DEF Admit, ClaimsLeft, Restrict
<1>1. ASSUME NEW p \in Pid, NEW kind \in Kinds, NEW need \in Asks, NEW wall \in Walls,
             NEW queue \in Queues, NEW key \in Keys
      PROVE  ~Ask(p, kind, need, wall, queue, key)
  BY <1>u DEF Ask
<1>2. ASSUME NEW p \in Pid, Wait(p)
      PROVE  \E q \in Pid : Reapable(i, call[q].dead) /\ offered' = offered
  BY <1>2, <1>u, <1>r DEF Wait, Look, RefuseDuplicate, Refuse, Admit, Retry, Leave, ledger, runs
<1>3. ASSUME NEW p \in Pid PROVE ~Use(p)
  BY <1>u DEF Use, EnterHold, EnterRun, Keep, Persist, Submit, Adopt, MovedTo, Updated, ledger
<1>4. ASSUME NEW p \in Pid, NEW j \in ClaimId, Exit(p, j) PROVE i \in bodies[p]
  BY <1>4 DEF Exit, Deleted, Restrict
<1>5. ASSUME NEW p \in Pid, NEW j \in ClaimId, Release(p, j)
      PROVE  /\ offered' = Without(offered, {i})
             /\ claims[i].key = DeclaredKey \/ job[i] = "ended" \/ i \in DOMAIN offered
  BY <1>5 DEF Release, Deleted, Restrict
<1>6. ASSUME NEW p \in Pid, NEW j \in ClaimId
      PROVE  ~CheckOffer(p, j) /\ \A v \in Vendors : ~HandOver(p, v, j)
  BY <1>u DEF CheckOffer, HandOver, MovedTo, Updated, ledger
<1>7. ASSUME NEW p \in Pid, NEW need \in DeclaredAsks, NEW wall \in Walls
      PROVE  ~Declare(p, need, wall)
  BY DEF Declare, With
<1>8. ASSUME NEW p \in Pid, Reap(p)
      PROVE  \E q \in Pid : Reapable(i, call[q].dead) /\ offered' = offered
  BY <1>8, <1>r DEF Reap, runs
<1>9. ASSUME NEW p \in Pid PROVE ~StartReap(p) /\ ~Crash(p) /\ ~Recycle(p)
  BY <1>u DEF StartReap, Crash, Recycle, ledger
<1>10. ~UNCHANGED vars /\ ~Tick /\ \A j \in ClaimId : ~OrphanEnds(j) /\ ~JobEnds(j)
  BY <1>u DEF vars, Tick, OrphanEnds, JobEnds, ledger
<1> QED
  BY <1>1, <1>2, <1>3, <1>4, <1>5, <1>6, <1>7, <1>8, <1>9, <1>10 DEF Next, Horizon

\* Where a probe's answer can be trusted, a running job loses its claim only to
\* the claim's deadline, and a claim taken for a run that has not started only
\* to its deadline, its taker's death or its own release.
THEOREM KeptClaimsAreKept ==
  ASSUME ~ProbeMayFail
  PROVE  Spec => KeptClaimsStand
<1> DEFINE Kept == \A i \in DOMAIN claims \ DOMAIN claims' :
       /\ job[i] = "running" => Expired(claims[i])
       /\ i \in DOMAIN offered
            => i \notin DOMAIN offered' \/ Expired(claims[i]) \/ ~SameProcess(claims[i])
<1>1. TypeInv /\ HolderInv /\ JobInv /\ [Next]_vars => [Kept]_vars
  <2> SUFFICES ASSUME TypeOK, HolderInv, JobInv, [Next]_vars,
                      NEW i \in DOMAIN claims \ DOMAIN claims'
               PROVE  /\ job[i] = "running" => Expired(claims[i])
                      /\ i \in DOMAIN offered
                           => \/ i \notin DOMAIN offered'
                              \/ Expired(claims[i]) \/ ~SameProcess(claims[i])
    BY DEF TypeInv
  <2>i. i \in ClaimId /\ (i \in Started => claims[i].probe = "job" /\ claims[i].key # DeclaredKey)
    BY LedgerAssumption DEF TypeOK, ClaimId, JobInv
  <2>1. ASSUME NEW p \in Pid, Reapable(i, call[p].dead)
        PROVE  /\ job[i] = "running" => Expired(claims[i])
               /\ Expired(claims[i]) \/ ~SameProcess(claims[i])
    BY <2>1, <2>i DEF Reapable, JobInv, Started
  <2>2. ASSUME NEW p \in Pid, i \in bodies[p] PROVE i \notin DOMAIN offered /\ i \notin Started
    BY <2>2 DEF HolderInv, OneHolder, Mine
  <2>3. ASSUME offered' = Without(offered, {i}),
               claims[i].key = DeclaredKey \/ job[i] = "ended" \/ i \in DOMAIN offered
        PROVE  i \notin DOMAIN offered' /\ job[i] # "running"
    BY <2>3, <2>i DEF Without, Restrict, HolderInv, OneHolder, Started
  <2> QED
    BY <2>1, <2>2, <2>3, <2>i, RemovedRows DEF Started
<1> QED
  BY <1>1, TypeInit, TypeNext, HolderInit, HolderNext, CallInit, CallNext, BookInit, BookNext,
     JobInit, JobNext, PTL DEF Spec, KeptClaimsStand

-----------------------------------------------------------------------------
(* The room that an admission takes, and that a refusal finds.             *)

\* A try ends in an admission or a refusal of the caller's own.
LEMMA DecisionSteps ==
  ASSUME TypeOK, [Next]_vars, NEW p \in Pid, call[p].pc = "try",
         call'[p].pc \in {"wait", "won"}
  PROVE  Refuse(p) \/ Admit(p)
<1>c. \A q \in Pid : call[q] \in Call
  BY DEF TypeOK
<1>a. ASSUME NEW q \in Pid, NEW c, call' = [call EXCEPT ![q] = c],
             c.pc \notin {"wait", "won"} \/ call[q].pc # "try"
      PROVE  FALSE
  BY <1>a DEF TypeOK
<1>u. ASSUME call' = call PROVE FALSE
  BY <1>u
<1>1. ASSUME NEW q \in Pid, NEW kind \in Kinds, NEW need \in Asks, NEW wall \in Walls,
             NEW queue \in Queues, NEW key \in Keys, Ask(q, kind, need, wall, queue, key)
      PROVE  FALSE
  BY <1>1, <1>a DEF Ask, Free, AtRest
<1>2. ASSUME NEW q \in Pid, Wait(q) PROVE q = p /\ (Refuse(p) \/ Admit(p))
  <2>1. ~Look(q) /\ ~Retry(q)
    BY <1>c DEF Look, Retry, TypeOK, Call
  <2>2. ~RefuseDuplicate(q) /\ ~Leave(q)
    BY <1>c DEF RefuseDuplicate, Leave, TypeOK, Call, Idle
  <2>3. Refuse(q) \/ Admit(q)
    BY <1>2, <2>1, <2>2 DEF Wait
  <2>4. q = p
    BY <2>3, <1>c DEF Refuse, Admit, TypeOK, Call
  <2> QED
    BY <2>3, <2>4
<1>3. ASSUME NEW q \in Pid PROVE ~Use(q)
  <2>1. ~Persist(q)
    BY <1>c DEF Persist, Won, TypeOK, Call
  <2> QED
    BY <2>1, <1>a DEF Use, EnterHold, EnterRun, Keep, Submit, Adopt, Won
<1>4. ASSUME NEW q \in Pid, NEW i \in ClaimId
      PROVE  ~Exit(q, i) /\ ~Release(q, i) /\ \A v \in Vendors : ~HandOver(q, v, i)
  BY <1>u DEF Exit, Release, HandOver
<1>5. ASSUME NEW q \in Pid, NEW i \in ClaimId PROVE ~CheckOffer(q, i)
  BY <1>u, <1>a DEF CheckOffer, Free, AtRest
<1>6. ASSUME NEW q \in Pid, NEW need \in DeclaredAsks, NEW wall \in Walls
      PROVE  ~Declare(q, need, wall)
  BY <1>u DEF Declare
<1>7. ASSUME NEW q \in Pid PROVE ~StartReap(q) /\ ~Reap(q) /\ ~Crash(q) /\ ~Recycle(q)
  <2>1. ~StartReap(q) /\ ~Reap(q)
    BY <1>a DEF StartReap, Reap, Free, AtRest
  <2>2. ~Crash(q) /\ ~Recycle(q)
    BY <1>u DEF Crash, Recycle, TypeOK, Idle
  <2> QED
    BY <2>1, <2>2
<1>8. ~UNCHANGED vars /\ ~Tick /\ \A i \in ClaimId : ~OrphanEnds(i) /\ ~JobEnds(i)
  BY <1>u DEF vars, Tick, OrphanEnds, JobEnds
<1> QED
  BY <1>1, <1>2, <1>3, <1>4, <1>5, <1>6, <1>7, <1>8 DEF Next, Horizon

-----------------------------------------------------------------------------
\* A refusal for lack of room is never the fault of a dead process: what the
\* reaper leaves are rows of the living, jobs and declared uses, and a demand
\* that fitted beside those would fit beside fewer.
THEOREM RefusalsBlameTheLiving == Spec => RefusedOnlyByTheLiving
<1> DEFINE Blamed ==
      \A p \in Pid :
       Decides(p, "wait") /\ (\A t \in DOMAIN tickets : t >= call[p].ticket)
         => LET living == {i \in DOMAIN claims :
                             SameProcess(claims[i]) \/ claims[i].probe # "none"}
            IN  ~Fits(Restrict(claims, living), call[p].reading, p, call[p].need)
<1>1. TypeInv /\ [Next]_vars => [Blamed]_vars
  <2> SUFFICES ASSUME TypeOK, [Next]_vars, NEW p \in Pid, Decides(p, "wait"),
                      \A t \in DOMAIN tickets : t >= call[p].ticket
               PROVE  LET living == {i \in DOMAIN claims :
                                       SameProcess(claims[i]) \/ claims[i].probe # "none"}
                      IN  ~Fits(Restrict(claims, living), call[p].reading, p, call[p].need)
    BY DEF TypeInv
  <2> DEFINE living == {i \in DOMAIN claims : SameProcess(claims[i]) \/ claims[i].probe # "none"}
             rows   == ClaimsLeft(call[p].dead)
  <2>1. Refuse(p)
    <3>1. Refuse(p) \/ Admit(p)
      BY DecisionSteps DEF Decides
    <3>2. ~Admit(p)
      BY DEF Admit, Decides, TypeOK, Idle
    <3> QED
      BY <3>1, <3>2
  <2>2. ~Behind(p, rows, TicketsLeft)
    <3>1. /\ DOMAIN TicketsLeft \subseteq DOMAIN tickets
          /\ \A t \in DOMAIN tickets : t \in Nat
          /\ call[p].ticket \in Nat
      BY LedgerAssumption DEF TicketsLeft, Restrict, TypeOK, Call
    <3> QED
      BY <3>1 DEF Behind
  <2>3. ~Fits(rows, call[p].reading, p, call[p].need)
    BY <2>1, <2>2 DEF Refuse, Admissible
  <2>4. /\ DOMAIN rows \subseteq DOMAIN Restrict(claims, living)
        /\ \A i \in DOMAIN rows : rows[i] = Restrict(claims, living)[i]
    BY DEF ClaimsLeft, Restrict, Reapable
  <2>5. IsFiniteSet(DOMAIN Restrict(claims, living))
    <3>1. DOMAIN Restrict(claims, living) \in SUBSET DOMAIN claims
      BY DEF Restrict
    <3> QED
      BY <3>1, ClaimsAreFinite, FS_Subset
  <2>6. call[p].reading \in Reading /\ call[p].need \in Need
    BY DEF TypeOK, Call
  <2> HIDE DEF rows, living
  <2>7. ~Fits(Restrict(claims, living), call[p].reading, p, call[p].need)
    BY <2>3, <2>4, <2>5, <2>6, FewerLeaveMore
  <2> QED
    BY <2>7 DEF living
<1> QED
  BY <1>1, TypeInit, TypeNext, PTL DEF Spec, RefusedOnlyByTheLiving

-----------------------------------------------------------------------------
\* Where a process is inside of one body at a time, it asks outside of any.
NestInv ==
  MaxNest <= 1 =>
    \A p \in Pid : /\ call[p].pc \in Waiting \cup Holding => bodies[p] = {}
                   /\ \A i, j \in bodies[p] : i = j

\* Nobody is inside of a body at first.
LEMMA NestInit == Init => NestInv
BY DEF Init, NestInv, Idle, Waiting, Holding

\* A process enters a body only by the call it asked outside of any.
LEMMA NestNext == TypeInv /\ NestInv /\ [Next]_vars => NestInv'
<1> SUFFICES ASSUME TypeOK, MaxNest <= 1, NestInv, [Next]_vars
             PROVE  \A p \in Pid : /\ call'[p].pc \in Waiting \cup Holding => bodies'[p] = {}
                                   /\ \A i, j \in bodies'[p] : i = j
  BY DEF TypeInv, NestInv
<1> DEFINE Single == \A p \in Pid : /\ call'[p].pc \in Waiting \cup Holding => bodies'[p] = {}
                                    /\ \A i, j \in bodies'[p] : i = j
<1>c. \A p \in Pid : call[p] \in Call
  BY DEF TypeOK
\* A body ends or nothing does, and a call that waits or holds did before, or
\* starts outside of any body.
<1>a. ASSUME NEW p \in Pid,
             \A q \in Pid : bodies'[q] \subseteq bodies[q],
             \A q \in Pid \ {p} : call'[q] = call[q],
             call'[p].pc \in Waiting \cup Holding
               => call[p].pc \in Waiting \cup Holding \/ bodies[p] = {}
      PROVE  Single
  BY <1>a DEF NestInv
\* An admitted caller, who is inside of no body, enters one.
<1>b. ASSUME NEW p \in Pid, NEW i, call[p].pc \in Holding,
             bodies' = [bodies EXCEPT ![p] = @ \cup {i}], call' = [call EXCEPT ![p] = Idle]
      PROVE  Single
  <2>1. /\ call'[p].pc = "idle" /\ bodies'[p] = {i}
        /\ \A q \in Pid \ {p} : call'[q] = call[q] /\ bodies'[q] = bodies[q]
    BY <1>b DEF NestInv, TypeOK, Idle
  <2> QED
    BY <2>1 DEF NestInv, Waiting, Holding
<1>u. ASSUME UNCHANGED <<call, bodies>> PROVE Single
  BY <1>u DEF NestInv
<1>1. ASSUME NEW p \in Pid, NEW kind \in Kinds, NEW need \in Asks, NEW wall \in Walls,
             NEW queue \in Queues, NEW key \in Keys, Ask(p, kind, need, wall, queue, key)
      PROVE  Single
  <2>1. bodies[p] = {}
    <3>1. IsFiniteSet(bodies[p])
      <4>1. MaxClaims \in Int
        BY LedgerAssumption
      <4>2. IsFiniteSet(ClaimId)
        BY <4>1, FS_Interval DEF ClaimId
      <4> QED
        BY <4>2, FS_Subset DEF TypeOK
    <3>2. Cardinality(bodies[p]) < 1 /\ Cardinality(bodies[p]) \in Nat
      BY <1>1, <3>1, FS_CardinalityType, LedgerAssumption DEF Ask
    <3> QED
      BY <3>1, <3>2, FS_EmptySet
  <2>2. bodies' = bodies /\ \A q \in Pid \ {p} : call'[q] = call[q]
    BY <1>1 DEF Ask, runs, TypeOK
  <2> QED
    BY <1>a, <2>1, <2>2
<1>2. ASSUME NEW p \in Pid, Look(p) \/ RefuseDuplicate(p) \/ Refuse(p) \/ Admit(p) \/ Retry(p)
                            \/ Persist(p)
      PROVE  Single
  <2>1. call[p].pc \in Waiting \cup Holding
    BY <1>2 DEF Look, RefuseDuplicate, Refuse, Admit, Retry, Persist, Trying, Won, Waiting, Holding
  <2>2. bodies' = bodies /\ \A q \in Pid \ {p} : call'[q] = call[q]
    BY <1>2 DEF Look, RefuseDuplicate, Refuse, Admit, Retry, Persist, runs, TypeOK
  <2> QED
    BY <1>a, <2>1, <2>2
<1>3. ASSUME NEW p \in Pid, Leave(p) \/ Keep(p) \/ Submit(p) \/ Reap(p) PROVE Single
  <2>1. bodies' = bodies /\ call'[p].pc = "idle" /\ \A q \in Pid \ {p} : call'[q] = call[q]
    BY <1>3 DEF Leave, Keep, Submit, Reap, runs, TypeOK, Idle
  <2> QED
    BY <1>a, <2>1 DEF Waiting, Holding
<1>4. ASSUME NEW p \in Pid, EnterHold(p) \/ EnterRun(p) \/ Adopt(p) PROVE Single
  BY <1>4, <1>b DEF EnterHold, EnterRun, Adopt, Won, Holding
<1>5. ASSUME NEW p \in Pid, NEW i \in ClaimId, Exit(p, i) PROVE Single
  BY <1>5, <1>a DEF Exit, TypeOK
<1>6. ASSUME NEW p \in Pid, NEW i \in ClaimId,
             Release(p, i) \/ \E v \in Vendors : HandOver(p, v, i)
      PROVE  Single
  BY <1>6, <1>u DEF Release, HandOver, runs
<1>7. ASSUME NEW p \in Pid, NEW i \in ClaimId, CheckOffer(p, i) PROVE Single
  <2>1. bodies[p] = {} /\ bodies' = bodies /\ \A q \in Pid \ {p} : call'[q] = call[q]
    BY <1>7 DEF CheckOffer, TypeOK
  <2> QED
    BY <1>a, <2>1
<1>8. ASSUME NEW p \in Pid, NEW need \in DeclaredAsks, NEW wall \in Walls, Declare(p, need, wall)
      PROVE  Single
  BY <1>8, <1>u DEF Declare, runs
<1>9. ASSUME NEW p \in Pid, StartReap(p) PROVE Single
  <2>1. bodies' = bodies /\ call'[p].pc = "reap" /\ \A q \in Pid \ {p} : call'[q] = call[q]
    BY <1>9 DEF StartReap, runs, TypeOK, Idle
  <2> QED
    BY <1>a, <2>1 DEF Waiting, Holding
<1>10. ASSUME NEW p \in Pid, Crash(p) PROVE Single
  <2>1. /\ \A q \in Pid : bodies'[q] \subseteq bodies[q]
        /\ call'[p].pc = "idle" /\ \A q \in Pid \ {p} : call'[q] = call[q]
    BY <1>10 DEF Crash, TypeOK, Idle
  <2> QED
    BY <1>a, <2>1 DEF Waiting, Holding
<1>11. ASSUME \/ \E p \in Pid : Recycle(p)
              \/ \E i \in ClaimId : OrphanEnds(i) \/ JobEnds(i)
              \/ Tick \/ UNCHANGED vars
       PROVE  Single
  BY <1>11, <1>u DEF Recycle, OrphanEnds, JobEnds, Tick, vars, runs
<1> QED
  BY <1>1, <1>2, <1>3, <1>4, <1>5, <1>6, <1>7, <1>8, <1>9, <1>10, <1>11
     DEF Next, Wait, Use, Horizon

-----------------------------------------------------------------------------
\* So an asker has no growing claim of its own among the rows the reaper leaves:
\* nothing is left out of what is booked.
LEMMA AskersOwnNothing ==
  ASSUME TypeInv, HolderInv, RowInv, NestInv, MaxNest <= 1, Unreadable \cap Mortal = {},
         NEW p \in Pid, call[p].pc = "try"
  PROVE  Own(ClaimsLeft(call[p].dead), p) = {}
<1> SUFFICES ASSUME NEW i \in DOMAIN claims, ~Reapable(i, call[p].dead), claims[i].pid = p,
                    ~claims[i].kept
             PROVE  FALSE
  BY DEF Own, ClaimsLeft, Restrict
<1>1. claims[i].probe = "none"
  BY DEF RowInv, KeptAreKept, TypeInv, TypeOK
<1>2. SameProcess(claims[i])
  BY <1>1 DEF Reapable
<1>3. bodies[p] = {} /\ call[p].id = 0
  BY DEF NestInv, HolderInv, IdsAreGiven, Waiting, Holding
<1>4. i \in bodies[p] \/ call[p].id = i
  BY <1>2 DEF RowInv, RowsAreAccountedFor
<1> QED
  BY <1>3, <1>4 DEF TypeInv, TypeOK

\* Where no process asks inside a claim of its own, the shares of the admitted
\* claims never exceed the box, whatever the sample said.
THEOREM SharesAreNeverOverlent ==
  ASSUME MaxNest <= 1, Unreadable \cap Mortal = {}
  PROVE  Spec => []SharesNeverOverlent
<1>1. Init => SharesNeverOverlent
  <2> SUFFICES ASSUME Init, NEW d \in Share
               PROVE  Cardinality(Declared(Admitted, d)) <= Size[d]
    BY DEF SharesNeverOverlent
  <2>1. Declared(Admitted, d) = {}
    BY DEF Init, Admitted, Restrict, Declared
  <2>2. Cardinality(Declared(Admitted, d)) = 0
    BY <2>1, FS_EmptySet
  <2> QED
    BY <2>2, SupplyAssumption DEF Resource
<1>2. TypeInv /\ HolderInv /\ RowInv /\ NestInv /\ SharesNeverOverlent /\ [Next]_vars
        => SharesNeverOverlent'
  <2> SUFFICES ASSUME TypeInv, HolderInv, RowInv, NestInv, SharesNeverOverlent, [Next]_vars,
                      NEW d \in Share
               PROVE  Lent(d)'
    BY DEF SharesNeverOverlent, Lent
  <2>1. ASSUME NEW p \in Pid, Admit(p), call[p].need[d] > 0
        PROVE  Cardinality(Declared(ClaimsLeft(call[p].dead), d)) + call[p].need[d] <= Size[d]
    <3> DEFINE rows == ClaimsLeft(call[p].dead)
    <3>1. /\ call[p].need \in Need /\ call[p].reading.idle[d] \in Int
      BY DEF TypeInv, TypeOK, Call, Reading
    <3>2. IsFiniteSet(DOMAIN rows)
      BY ReapingRestricts, ClaimsAreFinite, FS_Subset DEF TypeInv
    <3>3. Fits(rows, call[p].reading, p, call[p].need) /\ call[p].pc = "try"
      BY <2>1 DEF Admit, Admissible, Trying
    <3>4. Own(rows, p) = {}
      BY <3>3, AskersOwnNothing
    <3> QED
      BY <2>1, <3>1, <3>2, <3>3, <3>4, FittingSharesAreFree
  <2>2. d \in Resource /\ Lent(d)
    BY DEF Resource, SharesNeverOverlent, Lent
  <2> QED
    BY <2>1, <2>2, LentNext
<1> QED
  BY <1>1, <1>2, TypeInit, TypeNext, HolderInit, HolderNext, RowInit, RowNext, NestInit, NestNext,
     PTL DEF Spec

-----------------------------------------------------------------------------
\* Where claims are only held and run under, every row is its holder's own.
PlainCalls == Kinds \subseteq {"hold", "run"} /\ Vendors = {} /\ DeclaredAsks = {}

NoneKept == PlainCalls => \A i \in DOMAIN claims : ~claims[i].kept

\* No row is kept at first.
LEMMA NoneKeptInit == Init => NoneKept
BY DEF Init, NoneKept

\* Only take(), external(), hand_over() and declare() keep a row.
LEMMA NoneKeptNext ==
  TypeInv /\ CallInv /\ NoneTaken /\ NoneKept /\ [Next]_vars => NoneKept'
<1> SUFFICES ASSUME TypeOK, CallInv, NoneTaken, NoneKept, [Next]_vars, PlainCalls,
                    NEW i \in DOMAIN claims'
             PROVE  ~claims'[i].kept
  BY DEF TypeInv, NoneKept, PlainCalls
<1>1. \A p \in Pid : ~Keep(p) /\ ~Persist(p)
  BY DEF Keep, Persist, Won, CallInv, PlainCalls
<1>2. \A p \in Pid : ~Adopt(p)
  BY DEF Adopt, NoneTaken, PlainCalls
<1>3. /\ \A p \in Pid, j \in ClaimId : \A v \in Vendors : ~HandOver(p, v, j)
      /\ \A p \in Pid, wall \in Walls : \A need \in DeclaredAsks : ~Declare(p, need, wall)
  BY DEF PlainCalls
<1>r. ASSUME i \in DOMAIN claims, claims'[i] = claims[i] PROVE ~claims'[i].kept
  BY <1>r DEF NoneKept
<1>4. ASSUME NEW p \in Pid, Wait(p) PROVE ~claims'[i].kept
  <2>1. CASE Admit(p)
    BY <2>1, <1>r DEF Admit, NewClaim, ClaimsLeft, Restrict
  <2>2. CASE Refuse(p)
    BY <2>2, <1>r DEF Refuse, ClaimsLeft, Restrict
  <2> QED
    BY <1>4, <1>r, <2>1, <2>2 DEF Wait, Look, RefuseDuplicate, Retry, Leave, ledger
<1>5. ASSUME NEW p \in Pid, Use(p) PROVE ~claims'[i].kept
  BY <1>5, <1>1, <1>2, <1>r DEF Use, EnterHold, EnterRun, Submit, ledger
<1>6. ASSUME NEW p \in Pid, NEW j \in ClaimId, Exit(p, j) \/ Release(p, j) \/ CheckOffer(p, j)
      PROVE  ~claims'[i].kept
  BY <1>6, <1>r DEF Exit, Release, CheckOffer, Deleted, Restrict, ledger
<1>7. ASSUME NEW p \in Pid, StartReap(p) \/ Reap(p) \/ Crash(p) \/ Recycle(p)
      PROVE  ~claims'[i].kept
  BY <1>7, <1>r DEF StartReap, Reap, Crash, Recycle, ClaimsLeft, Restrict, ledger
<1>8. ASSUME NEW p \in Pid, NEW kind \in Kinds, NEW need \in Asks, NEW wall \in Walls,
             NEW queue \in Queues, NEW key \in Keys, Ask(p, kind, need, wall, queue, key)
      PROVE  ~claims'[i].kept
  BY <1>8, <1>r DEF Ask
<1>9. ASSUME (\E j \in ClaimId : OrphanEnds(j) \/ JobEnds(j)) \/ Tick \/ UNCHANGED vars
      PROVE  ~claims'[i].kept
  BY <1>9, <1>r DEF OrphanEnds, JobEnds, Tick, vars, ledger
<1> QED
  BY <1>3, <1>4, <1>5, <1>6, <1>7, <1>8, <1>9 DEF Next, Horizon

\* One process has one row at most, then: the one of the body it is inside of,
\* or of the admission it is about to use.
LEMMA OneRowEach ==
  ASSUME TypeInv, HolderInv, RowInv, NestInv, NoneKept, MaxNest <= 1, PlainCalls,
         Unreadable \cap Mortal = {}, NEW dead,
         NEW i \in DOMAIN ClaimsLeft(dead), NEW j \in DOMAIN ClaimsLeft(dead),
         claims[i].pid = claims[j].pid
  PROVE  i = j
<1> DEFINE p == claims[i].pid
<1>1. /\ i \in DOMAIN claims /\ ~Reapable(i, dead) /\ ~claims[i].kept
      /\ j \in DOMAIN claims /\ ~Reapable(j, dead) /\ ~claims[j].kept
  BY DEF ClaimsLeft, Restrict, NoneKept
<1>2. claims[i].probe = "none" /\ claims[j].probe = "none"
  BY <1>1 DEF RowInv, KeptAreKept, TypeInv, TypeOK
<1>3. SameProcess(claims[i]) /\ SameProcess(claims[j])
  BY <1>1, <1>2 DEF Reapable
<1>4. (i \in bodies[p] \/ call[p].id = i) /\ (j \in bodies[p] \/ call[p].id = j)
  BY <1>1, <1>3 DEF RowInv, RowsAreAccountedFor
<1>5. p \in Pid /\ i # 0 /\ j # 0
  BY <1>1 DEF TypeInv, TypeOK, Row
<1>6. CASE call[p].pc \in Holding
  BY <1>4, <1>5, <1>6 DEF NestInv
<1>7. CASE call[p].pc \notin Holding
  <2>1. call[p].id = 0
    BY <1>5, <1>7 DEF HolderInv, IdsAreGiven
  <2> QED
    BY <1>4, <1>5, <2>1 DEF NestInv
<1> QED
  BY <1>6, <1>7

\* A stale reading only ever lends less: where every claim is a body's and no
\* process nests them, what the sample saw in use outside the listed trees and
\* every declaration, the new one too, leave the margin free.  The units a tree
\* declared and uses are in the sample once; the others are owed.
THEOREM RoomLentIsFree ==
  ASSUME MaxNest <= 1, Unreadable \cap Mortal = {}, PlainCalls
  PROVE  Spec => RoomIsLentOnce
<1> DEFINE Free1 ==
      \A p \in Pid : Decides(p, "won") =>
       \A d \in Share : call[p].need[d] > 0 =>
         ForeignIn(call[p].reading, d) + Cardinality(Declared(claims', d)) <= Size[d]
<1>1. TypeInv /\ HolderInv /\ RowInv /\ NestInv /\ NoneKept /\ [Next]_vars => [Free1]_vars
  <2> SUFFICES ASSUME TypeInv, HolderInv, RowInv, NestInv, NoneKept, [Next]_vars,
                      NEW p \in Pid, Decides(p, "won"), NEW d \in Share, call[p].need[d] > 0
               PROVE  ForeignIn(call[p].reading, d) + Cardinality(Declared(claims', d)) <= Size[d]
    OBVIOUS
  <2> DEFINE rows    == ClaimsLeft(call[p].dead)
             new     == claimSeq + 1
             reading == call[p].reading
             need    == call[p].need
             uses    == Uses(reading, d)
  <2>1. Admit(p) /\ call[p].pc = "try"
    <3>1. Refuse(p) \/ Admit(p)
      BY DecisionSteps DEF Decides, TypeInv
    <3>2. ~Refuse(p)
      <4>1. call[p] \in Call
        BY DEF TypeInv, TypeOK
      <4> QED
        BY <4>1 DEF Refuse, Decides, TypeInv, TypeOK, Call
    <3> QED
      BY <3>1, <3>2 DEF Decides
  <2>2. need \in Need /\ reading \in Reading /\ reading.idle[d] \in Int
    BY DEF TypeInv, TypeOK, Call, Reading
  <2>3. IsFiniteSet(DOMAIN rows)
    BY ReapingRestricts, ClaimsAreFinite, FS_Subset DEF TypeInv
  <2>4. Fits(rows, reading, p, need) /\ Own(rows, p) = {}
    BY <2>1, AskersOwnNothing DEF Admit, Admissible
  <2>5. need[d] <= reading.idle[d] - Reserve[d]
                     - Cardinality(Declared(rows, d) \ InUse(rows, reading, d))
    <3> HIDE DEF rows, reading, need
    <3> QED
      BY <2>2, <2>3, <2>4, FittingSharesAreFree DEF need
  <2>6. /\ Cardinality(Declared(rows, d) \cap InUse(rows, reading, d)) <= Cardinality(uses)
        /\ Cardinality(uses) \in Nat
    <3>1. /\ \A i \in DOMAIN rows : rows[i] = claims[i] /\ rows[i].pid \in Pid
          /\ \A i, j \in DOMAIN rows : rows[i].pid = rows[j].pid => i = j
      <4>1. \A i \in DOMAIN rows : rows[i] = claims[i] /\ i \in DOMAIN claims
        BY ReapingRestricts DEF TypeInv
      <4> QED
        BY <4>1, OneRowEach DEF TypeInv, TypeOK, Row
    <3> HIDE DEF rows, reading
    <3> QED
      BY <2>2, <3>1, UsedOncePerProcess
  <2>7. Cardinality(Declared(claims', d)) <= Cardinality(Declared(rows, d)) + need[d]
    <3>1. /\ DOMAIN claims' = DOMAIN rows \cup {new}
          /\ \A i \in DOMAIN rows \ {new} : claims'[i].need = rows[i].need
          /\ claims'[new].need = need
      BY <2>1 DEF Admit, NewClaim
    <3>2. d \in Resource
      BY DEF Resource
    <3> HIDE DEF rows, new, need
    <3> QED
      BY <2>2, <2>3, <3>1, <3>2, OneMoreDeclaresItsNeed
  <2>8. /\ Cardinality(Declared(rows, d)) \in Nat
        /\ Cardinality(Declared(rows, d) \ InUse(rows, reading, d))
             = Cardinality(Declared(rows, d))
                 - Cardinality(Declared(rows, d) \cap InUse(rows, reading, d))
        /\ Cardinality(Declared(rows, d) \cap InUse(rows, reading, d)) \in Nat
    <3> HIDE DEF rows, reading
    <3>1. IsFiniteSet(Declared(rows, d)) /\ Cardinality(Declared(rows, d)) \in Nat
      BY <2>3, DeclaredIsFinite
    <3> QED
      BY <3>1, FS_Difference, FS_Intersection, FS_CardinalityType
  <2>9. /\ Size[d] \in Nat /\ Reserve[d] \in Nat /\ need[d] \in Nat
        /\ Cardinality(Declared(claims', d)) \in Nat
    <3>1. IsFiniteSet(DOMAIN claims')
      BY <2>1, <2>3, FS_AddElement DEF Admit
    <3> QED
      BY <2>2, <3>1, DeclaredIsFinite, SupplyAssumption DEF Need, Resource
  <2>10. ForeignIn(reading, d) = Size[d] + Reserve[d] - reading.idle[d] - Cardinality(uses)
    BY DEF ForeignIn, Uses
  <2> HIDE DEF rows, reading, need, uses
  <2>11. ForeignIn(reading, d) + Cardinality(Declared(claims', d)) <= Size[d]
    BY <2>2, <2>5, <2>6, <2>7, <2>8, <2>9, <2>10
  <2> QED
    BY <2>11 DEF reading
<1> QED
  BY <1>1, TypeInit, TypeNext, HolderInit, HolderNext, CallInit, CallNext, NoneTakenInit,
     NoneTakenNext, RowInit, RowNext, NestInit, NestNext, NoneKeptInit, NoneKeptNext,
     PTL DEF Spec, RoomIsLentOnce
=============================================================================
