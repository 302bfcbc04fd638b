----------------------------- MODULE ResourceEngine -----------------------------
(***************************************************************************)
(* The one path of every claim: resources/engine.py on one scope, with the *)
(* rule of compute/admission.py on the vectors of compute/model.py.  Its   *)
(* rows are in the ledger's file; a transaction is one step.  What a scope *)
(* supplies is measured before the transaction that admits on it.          *)
(*                                                                         *)
(* A sum is counted in UNITS: what x adds are the units <<x, 1>> ..        *)
(* <<x, amount>>, so a total is the cardinality of a set.                  *)
(***************************************************************************)
EXTENDS Integers, FiniteSets, FiniteSetsExt, Functions

CONSTANTS
  Procs,      \* the processes that claim
  KindOf,     \* [name -> "occupancy", "consumable" or "persistent"]: kind_of()
  Size,       \* [name -> what the scope has of it; a consumable's cap in its window]
  Grace,      \* GRACE_S of the ledger's reap
  Window,     \* the window of the consumables, from the machine file
  Asks,       \* what may be claimed: [demand: vector, wall: time, lives: whether a probe was given]
  Mortal,     \* bound: the processes that may die
  Outsiders,  \* bound: what is used outside the ledger, by name
  MaxTime     \* bound: the clock

Names == DOMAIN KindOf
Vector == [Names -> Nat]

EngineAssumption ==
  /\ KindOf \in [Names -> {"occupancy", "consumable", "persistent"}]
  /\ Size \in Vector /\ Outsiders \subseteq Vector /\ {Window, Grace} \subseteq Nat /\ MaxTime \in Nat
  /\ \A c \in Asks : c.demand \in Vector /\ c.wall \in Nat

VARIABLES
  rows,      \* claims: [id, pid, kind, amounts, deadline, lives]
  charges,   \* what was spent: bag-like, [amounts, at -> how often] kept as [at -> vector]
  outside,   \* what is used of each name outside the ledger
  proc,      \* [process -> where it is in claim(), and what it measured]
  gone,      \* the processes that died
  stopped,   \* the persistent rows' processes whose probe now fails
  now,
  spent,     \* ghost: what the runs that ended used, within the window
  late,      \* ghost: the processes that measured before the newest charge
  strained   \* ghost: whether one of those was admitted

engineVars == <<rows, charges, outside, proc, gone, stopped, now, spent, late, strained>>

-----------------------------------------------------------------------------
(* Vectors: Resources, total().                                            *)

None == [n \in Names |-> 0]
Plus(a, b) == [n \in Names |-> a[n] + b[n]]
\* FLOORED at zero.
Less(a, b) == [n \in Names |-> Max({0, a[n] - b[n]})]
Within(a, b) == \A n \in Names : a[n] <= b[n]
OfKind(a, kind) == [n \in Names |-> IF KindOf[n] = kind THEN a[n] ELSE 0]

\* total() of one name.
Units(amount) == UNION {{x} \X (1 .. amount[x]) : x \in DOMAIN amount}
Total(amount) == Cardinality(Units(amount))

\* _held(): every row of the scope, whoever wrote it.
Held == [n \in Names |-> Total([r \in rows |-> r.amounts[n]])]

\* charged(): what was spent within the window that ends now.
InWindow(amounts) ==
  [n \in Names |-> Total([at \in {t \in DOMAIN amounts : t + Window >= now} |-> amounts[at][n]])]
Charged == InWindow(charges)

\* Engine.supply(): each provider's measure of its names; a consumable's is its
\* balance, every other's is what lies outside the ledger.
Supply == [n \in Names |-> Max({0, Size[n] - (IF KindOf[n] = "consumable" THEN Charged[n] ELSE outside[n])})]
\* Engine.available()
Available == Less(Supply, Held)

\* Mutant: the rule forgets what is held.
AdmitsSupply(measured, demand) == Within(demand, measured)
\* admit(), admits(): THE RULE, what is asked fits what is free less what runs.
Admit(demand, supply, running) == Within(demand, Less(supply, running))
\* Engine._admit(): on what was measured, less every row held now.
Admits(measured, demand) == Admit(demand, measured, Held)

-----------------------------------------------------------------------------
Idle == [pc |-> "idle", ask |-> "none", measured |-> None]
EngineInit ==
  /\ rows = {} /\ charges = [at \in {} |-> None] /\ outside \in Outsiders
  /\ proc = [p \in Procs |-> Idle]
  /\ gone = {} /\ stopped = {} /\ now = 0 /\ spent = charges /\ late = {} /\ strained = FALSE

At(p, pc) == proc[p].pc = pc /\ p \notin gone
World == UNCHANGED <<outside, gone, stopped, now>>
Sound == UNCHANGED <<spent, late, strained>>

\* Engine.reap(): rows past their deadline, or whose process is gone and which no
\* probe keeps; charges past their window.
Kept(r) == r.deadline + Grace >= now /\ (r.pid \notin gone \/ (r.kind = "persistent" /\ ~(r.lives /\ r.pid \in stopped)))
Reaped == {r \in rows : Kept(r)}
\* Mutant: a charge is dropped at the end of its window.
SweptEarly == Restrict(charges, {at \in DOMAIN charges : at + Window > now})
Swept == Restrict(charges, {at \in DOMAIN charges : at + Window >= now})
Reap(p) ==
  /\ At(p, "idle")
  /\ rows' = Reaped /\ charges' = Swept
  /\ \E c \in Asks : proc' = [proc EXCEPT ![p] = [Idle EXCEPT !.pc = "reaped", !.ask = c]]
  /\ Sound /\ World

\* _hold(): the scope is measured, with no lock.
Measure(p) ==
  /\ At(p, "reaped")
  /\ proc' = [proc EXCEPT ![p].pc = "measured", ![p].measured = Supply]
  /\ late' = late \ {p}
  /\ UNCHANGED <<rows, charges, spent, strained>> /\ World

\* _hold(): one transaction admits on it and writes a row for each kind.
NewId(p) == CHOOSE i \in 1 .. Cardinality(rows) + 1 : \A r \in rows : r.pid = p => r.id # i
Parts(p, c) ==
  {[id |-> NewId(p), pid |-> p, kind |-> k, amounts |-> OfKind(c.demand, k), deadline |-> now + c.wall, lives |-> k = "persistent" /\ c.lives] :
     k \in {KindOf[n] : n \in {m \in Names : c.demand[m] > 0}}}
Hold(p) ==
  /\ At(p, "measured")
  /\ LET c == proc[p].ask
     IN  IF Admits(proc[p].measured, c.demand)
         THEN rows' = rows \cup Parts(p, c) /\ proc' = [proc EXCEPT ![p].pc = "holds", ![p].measured = None]
         ELSE UNCHANGED rows /\ proc' = [proc EXCEPT ![p] = Idle]   \* NotAdmitted
  /\ strained' = (strained \/ (p \in late /\ rows' # rows))
  /\ UNCHANGED <<charges, spent, late>> /\ World

\* charge(): the consumables' use, in the window from now.
With(amounts, used) ==
  [at \in DOMAIN amounts \cup {now} |->
     Plus(IF at \in DOMAIN amounts THEN amounts[at] ELSE None, IF at = now THEN used ELSE None)]
Spent(used) == IF used = None THEN charges ELSE With(charges, used)

\* charge(): occupancy and what is left of a cap return now; the persistent part
\* stays.  A provider's enforcement lets a run use no more than its claim.
Charge(p) ==
  /\ At(p, "holds")
  /\ LET cap == OfKind(proc[p].ask.demand, "consumable")
     IN  \E used \in {u \in [Names -> 0 .. Max({cap[n] : n \in Names})] : Within(u, cap)} :
           /\ charges' = Spent(used)
           /\ spent' = IF used = None THEN spent ELSE With(spent, used)
           /\ late' = IF used = None THEN late ELSE late \cup {q \in Procs : proc[q].pc = "measured"}
  /\ rows' = {r \in rows : r.pid # p \/ r.kind = "persistent"}
  /\ proc' = [proc EXCEPT ![p] = Idle]
  /\ UNCHANGED strained /\ World

\* A process dies wherever it is: its rows stay until they are reaped.
Die(p) ==
  /\ p \in Mortal \ gone
  /\ gone' = gone \cup {p}
  /\ proc' = [proc EXCEPT ![p] = Idle]
  /\ UNCHANGED <<rows, charges, outside, stopped, now>> /\ Sound
\* What a persistent row's probe asks about ends.
Stop(p) ==
  /\ p \in gone \ stopped /\ \E r \in rows : r.pid = p /\ r.lives
  /\ stopped' = stopped \cup {p}
  /\ UNCHANGED <<rows, charges, outside, proc, gone, now>> /\ Sound
OutsideChanges ==
  /\ outside' \in Outsiders \ {outside}
  /\ UNCHANGED <<rows, charges, proc, gone, stopped, now>> /\ Sound
\* Enforcement ends a run by its deadline; its persistent part outlives it.
Tick ==
  /\ now < MaxTime
  /\ \A r \in rows : r.pid \notin gone /\ r.kind # "persistent" => r.deadline > now
  /\ now' = now + 1
  /\ spent' = Restrict(spent, {at \in DOMAIN spent : at + Window > now})
  /\ UNCHANGED <<rows, charges, outside, proc, gone, stopped, late, strained>>

EngineNext ==
  \/ \E p \in Procs : Reap(p) \/ Measure(p) \/ Hold(p) \/ Charge(p) \/ Die(p) \/ Stop(p)
  \/ OutsideChanges \/ Tick

EngineSpec == EngineInit /\ [][EngineNext]_engineVars

-----------------------------------------------------------------------------
\* engine.py:8-9: two racing claims never see the same free amount: what is held never
\* passes the size of the scope, though each was admitted on an earlier measure and a
\* persistent part outlives its run and its process.
HeldIsWithinSize == Within(Held, Size)

\* engine.py:9: a held cap is a promise: with what ended runs spent in the window it
\* never passes the cap of the consumable, unless a claim was admitted on a measure
\* taken before another's charge.
PromisesHold == \A n \in Names : KindOf[n] = "consumable" => Held[n] + InWindow(spent)[n] <= Size[n]
CapIsAPromise == strained \/ PromisesHold

\* What is held and what was charged both fit what the scope has.
ClaimsFit == HeldIsWithinSize /\ CapIsAPromise

\* engine.py:20-22: "a claim written since counts in full, so a stale measure only ever
\* lends less".
StaleMeasureLendsLess == PromisesHold
=============================================================================
