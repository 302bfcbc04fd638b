------------------------ MODULE ResourceEngineProofs ------------------------
(***************************************************************************)
(* What is held of a scope, and the promise of a cap: proved for every     *)
(* scope, every mix of claims, and any number of processes that measure,   *)
(* claim, charge, die and are reaped in any order.                         *)
(***************************************************************************)
EXTENDS ResourceEngine, FiniteSetTheorems, FunctionTheorems, TLAPS

\* A function of finitely many natural amounts.
Amount(f) == IsFiniteSet(DOMAIN f) /\ \A x \in DOMAIN f : f[x] \in Nat
\* What x adds to a total.
Part(f, x) == IF x \in DOMAIN f THEN f[x] ELSE 0
\* Apart from x, nothing of g is more than in f.
NoMoreBeside(f, g, x) ==
  \A y \in DOMAIN g \ {x} : g[y] = 0 \/ (y \in DOMAIN f /\ g[y] <= f[y])

\* Finitely many units, those of x apart from those of the others.
LEMMA UnitsOfOne ==
  ASSUME NEW f, Amount(f), NEW x
  PROVE  LET mine == {u \in Units(f) : u[1] = x}
             rest == {u \in Units(f) : u[1] # x}
         IN  /\ IsFiniteSet(rest) /\ Cardinality(rest) \in Nat
             /\ Part(f, x) \in Nat
             /\ Total(f) = Cardinality(rest) + Part(f, x)
<1> DEFINE of(y) == {y} \X (1 .. f[y])
           mine  == {u \in Units(f) : u[1] = x}
           rest  == {u \in Units(f) : u[1] # x}
           all   == {of(y) : y \in DOMAIN f}
<1>1. ASSUME NEW y \in DOMAIN f
      PROVE  IsFiniteSet(of(y)) /\ Cardinality(of(y)) = f[y]
  <2>1. PICK m \in Nat : f[y] = m
    BY DEF Amount
  <2>2. IsFiniteSet(1 .. m) /\ Cardinality(1 .. m) = m
    BY FS_Interval
  <2>3. IsFiniteSet({y}) /\ Cardinality({y}) = 1
    BY FS_Singleton
  <2>4. IsFiniteSet({y} \X (1 .. m)) /\ Cardinality({y} \X (1 .. m)) = 1 * m
    BY <2>2, <2>3, FS_Product
  <2>5. IsFiniteSet({y} \X (1 .. m)) /\ Cardinality({y} \X (1 .. m)) = m
    BY <2>4
  <2> QED
    BY <2>1, <2>5
<1>2. IsFiniteSet(Units(f))
  <2>1. IsFiniteSet(all)
    <3>1. [y \in DOMAIN f |-> of(y)] \in Surjection(DOMAIN f, all)
      BY DEF Surjection
    <3>2. IsFiniteSet(DOMAIN f)
      BY DEF Amount
    <3> QED
      BY <3>1, <3>2, FS_Surjection
  <2>2. \A T \in all : IsFiniteSet(T)
    BY <1>1
  <2>3. Units(f) = UNION all
    BY DEF Units
  <2> QED
    BY <2>1, <2>2, <2>3, FS_UNION
<1>3. IsFiniteSet(mine) /\ IsFiniteSet(rest)
  BY <1>2, FS_Subset
<1>4. Cardinality(mine) = Part(f, x) /\ Part(f, x) \in Nat
  <2>1. CASE x \in DOMAIN f
    <3>1. mine = of(x)
      BY <2>1 DEF Units
    <3> QED
      BY <1>1, <2>1, <3>1 DEF Part, Amount
  <2>2. CASE x \notin DOMAIN f
    <3>1. mine = {}
      BY <2>2 DEF Units
    <3> QED
      BY <2>2, <3>1, FS_EmptySet DEF Part
  <2> QED
    BY <2>1, <2>2
<1>5. Cardinality(mine \cup rest) = Cardinality(mine) + Cardinality(rest)
  <2>1. mine \cap rest = {} /\ Cardinality({}) = 0
    BY FS_EmptySet
  <2> HIDE DEF mine, rest
  <2>2. Cardinality(mine) \in Nat /\ Cardinality(rest) \in Nat
    BY <1>3, FS_CardinalityType
  <2>3. Cardinality(mine \cup rest) = Cardinality(mine) + Cardinality(rest) - Cardinality(mine \cap rest)
    BY <1>3, FS_Union
  <2>4. Cardinality(mine \cap rest) = 0
    BY <2>1, Zenon
  <2>5. \A a, b \in Nat : a + b - 0 = a + b
    OBVIOUS
  <2> QED
    BY <2>2, <2>3, <2>4, <2>5, Zenon
<1>6. mine \cup rest = Units(f)
  OBVIOUS
<1>7. Cardinality(rest) \in Nat
  BY <1>3, FS_CardinalityType
<1> HIDE DEF mine, rest
<1>8. Total(f) = Cardinality(rest) + Part(f, x)
  <2>1. Total(f) = Part(f, x) + Cardinality(rest)
    BY <1>4, <1>5, <1>6, Zenon DEF Total
  <2> QED
    BY <1>4, <1>7, <2>1
<1>9. IsFiniteSet(rest) /\ Cardinality(rest) \in Nat /\ Part(f, x) \in Nat
  BY <1>3, <1>4, <1>7
<1> QED
  BY <1>8, <1>9 DEF rest

\* Where nothing but x is more, a total grows by at most what x grows by.
LEMMA OnlyOneGrows ==
  ASSUME NEW f, NEW g, NEW x, Amount(f), Amount(g), NoMoreBeside(f, g, x)
  PROVE  /\ Total(f) \in Nat /\ Total(g) \in Nat
         /\ Part(f, x) \in Nat /\ Part(g, x) \in Nat
         /\ Total(g) + Part(f, x) <= Total(f) + Part(g, x)
<1> DEFINE restF == {u \in Units(f) : u[1] # x}
           restG == {u \in Units(g) : u[1] # x}
<1>1. /\ IsFiniteSet(restF) /\ Cardinality(restF) \in Nat
      /\ Part(f, x) \in Nat /\ Total(f) = Cardinality(restF) + Part(f, x)
  BY UnitsOfOne
<1>2. /\ Cardinality(restG) \in Nat
      /\ Part(g, x) \in Nat /\ Total(g) = Cardinality(restG) + Part(g, x)
  BY UnitsOfOne
<1>3. restG \subseteq restF
  <2> SUFFICES ASSUME NEW u \in restG
               PROVE  u \in restF
    OBVIOUS
  <2>1. PICK y \in DOMAIN g : u \in {y} \X (1 .. g[y])
    BY DEF Units
  <2>2. y # x /\ g[y] \in Nat /\ g[y] # 0
    BY <2>1 DEF Amount
  <2>3. y \in DOMAIN f /\ g[y] <= f[y] /\ f[y] \in Nat
    BY <2>2 DEF NoMoreBeside, Amount
  <2>4. u \in {y} \X (1 .. f[y])
    BY <2>1, <2>2, <2>3
  <2> QED
    BY <2>1, <2>2, <2>3, <2>4 DEF Units
<1>4. Cardinality(restG) <= Cardinality(restF)
  BY <1>1, <1>3, FS_Subset
<1> HIDE DEF restF, restG
<1> QED
  BY <1>1, <1>2, <1>4

\* Where nothing is more, the total is not.
LEMMA NothingGrows ==
  ASSUME NEW f, NEW g, Amount(f), Amount(g),
         \A y \in DOMAIN g : g[y] = 0 \/ (y \in DOMAIN f /\ g[y] <= f[y])
  PROVE  Total(f) \in Nat /\ Total(g) \in Nat /\ Total(g) <= Total(f)
<1>1. NoMoreBeside(f, g, 0)
  BY DEF NoMoreBeside
<1>2. /\ Total(f) \in Nat /\ Total(g) \in Nat
      /\ Part(f, 0) \in Nat /\ Part(g, 0) \in Nat
      /\ Total(g) + Part(f, 0) <= Total(f) + Part(g, 0)
  BY <1>1, OnlyOneGrows
<1>3. Part(g, 0) <= Part(f, 0)
  BY DEF Part, Amount
<1> QED
  BY <1>2, <1>3

\* What is floored at zero.
LEMMA Floored == \A k \in Int : Max({0, k}) = IF k > 0 THEN k ELSE 0
<1> SUFFICES ASSUME NEW k \in Int
             PROVE  Max({0, k}) = IF k > 0 THEN k ELSE 0
  OBVIOUS
<1>1. \E m \in {0, k} : \A y \in {0, k} : m >= y
  <2>1. CASE k > 0
    BY <2>1
  <2>2. CASE ~(k > 0)
    BY <2>2
  <2> QED
    BY <2>1, <2>2
<1>2. Max({0, k}) \in {0, k} /\ \A y \in {0, k} : Max({0, k}) >= y
  BY <1>1 DEF Max
<1> QED
  BY <1>2

-----------------------------------------------------------------------------
Kind == {"occupancy", "consumable", "persistent"}
CapOf(ask) == OfKind(ask.demand, "consumable")

\* What the rows, the measures and the charges are.
RowShape(r) == r.amounts \in Vector /\ r.deadline \in Nat
ProcShape(k) ==
  /\ {"pc", "ask", "measured"} = DOMAIN k
  /\ k.pc \in {"idle", "reaped", "measured", "holds"}
  /\ k.pc # "idle" => k.ask \in Asks
ChargeShape(cs) == IsFiniteSet(DOMAIN cs) /\ DOMAIN cs \subseteq Nat /\ \A at \in DOMAIN cs : cs[at] \in Vector
Shape ==
  /\ IsFiniteSet(rows) /\ \A r \in rows : RowShape(r)
  /\ DOMAIN proc = Procs /\ \A p \in Procs : ProcShape(proc[p])
  /\ ChargeShape(charges) /\ ChargeShape(spent)
  /\ outside \in Vector /\ now \in Nat

\* A measure is no more than the scope, nor, unless something was charged since,
\* than what ended runs left of a cap.
Measures ==
  \A p \in Procs : proc[p].pc = "measured" =>
    \A n \in Names :
      /\ proc[p].measured[n] \in Nat /\ proc[p].measured[n] <= Size[n]
      /\ p \notin late /\ KindOf[n] = "consumable" /\ proc[p].measured[n] > 0 =>
           proc[p].measured[n] + InWindow(spent)[n] <= Size[n]

\* The cap of a run is held until it ends, and enforcement ends it in time.
CapsAreHeld ==
  \A p \in Procs : proc[p].pc = "holds" =>
    /\ p \notin gone
    /\ CapOf(proc[p].ask) = None \/ \E r \in rows : /\ r.pid = p /\ r.kind = "consumable"
                                         /\ r.amounts = CapOf(proc[p].ask) /\ r.deadline >= now

\* What was spent in the window is charged.
SpentIsCharged ==
  \A at \in DOMAIN spent :
    /\ at + Window >= now
    /\ at \in DOMAIN charges /\ Within(spent[at], charges[at])

\* The inductive invariant.
EngineInv ==
  /\ Shape /\ Measures /\ CapsAreHeld /\ SpentIsCharged
  /\ HeldIsWithinSize /\ CapIsAPromise

-----------------------------------------------------------------------------
\* What rows hold of a name is a natural number.
LEMMA HeldIsNat ==
  ASSUME NEW some, IsFiniteSet(some), \A r \in some : RowShape(r), NEW n \in Names
  PROVE  /\ Amount([r \in some |-> r.amounts[n]])
         /\ Total([r \in some |-> r.amounts[n]]) \in Nat
<1>1. Amount([r \in some |-> r.amounts[n]])
  BY DEF Amount, RowShape, Vector
<1> DEFINE f == [r \in some |-> r.amounts[n]]
<1> HIDE DEF f
<1>2. \A y \in DOMAIN f : f[y] = 0 \/ (y \in DOMAIN f /\ f[y] <= f[y])
  BY <1>1 DEF Amount, f
<1>3. Amount(f)
  BY <1>1 DEF f
<1>4. Total(f) \in Nat
  BY <1>2, <1>3, NothingGrows
<1> QED
  BY <1>1, <1>4 DEF f

\* Fewer rows hold no more.
LEMMA FewerHoldLess ==
  ASSUME NEW some, IsFiniteSet(some), \A r \in some : RowShape(r),
         NEW fewer, fewer \subseteq some, NEW n \in Names
  PROVE  Total([r \in fewer |-> r.amounts[n]]) <= Total([r \in some |-> r.amounts[n]])
<1> DEFINE f == [r \in some |-> r.amounts[n]]
           g == [r \in fewer |-> r.amounts[n]]
<1>1. Amount(f) /\ Amount(g)
  BY HeldIsNat, FS_Subset
<1>2. \A y \in DOMAIN g : y \in DOMAIN f /\ g[y] <= f[y]
  BY DEF RowShape, Vector
<1> HIDE DEF f, g
<1>3. Total(g) <= Total(f)
  BY <1>1, <1>2, NothingGrows
<1> QED
  BY <1>3 DEF f, g

\* What was spent within a window is a natural number of each name.
LEMMA SpentIsNat ==
  ASSUME NEW cs, ChargeShape(cs), NEW in, in \subseteq DOMAIN cs, NEW n \in Names
  PROVE  /\ Amount([at \in in |-> cs[at][n]])
         /\ Total([at \in in |-> cs[at][n]]) \in Nat
<1> DEFINE f == [at \in in |-> cs[at][n]]
<1>1. IsFiniteSet(in)
  BY FS_Subset DEF ChargeShape
<1>2. Amount(f)
  BY <1>1 DEF Amount, ChargeShape, Vector
<1>3. \A y \in DOMAIN f : f[y] = 0 \/ (y \in DOMAIN f /\ f[y] <= f[y])
  BY <1>2 DEF Amount
<1> HIDE DEF f
<1>4. Total(f) \in Nat
  BY <1>2, <1>3, NothingGrows
<1> QED
  BY <1>2, <1>4 DEF f

\* A window in which less was spent each time saw less spent.
LEMMA LessIsSpent ==
  ASSUME NEW cs, NEW ds, ChargeShape(cs), ChargeShape(ds),
         NEW in, in \subseteq DOMAIN cs, NEW jn, jn \subseteq DOMAIN ds,
         \A at \in jn : at \in in /\ Within(ds[at], cs[at]), NEW n \in Names
  PROVE  Total([at \in jn |-> ds[at][n]]) <= Total([at \in in |-> cs[at][n]])
<1> DEFINE f == [at \in in |-> cs[at][n]]
           g == [at \in jn |-> ds[at][n]]
<1>1. Amount(f) /\ Amount(g)
  BY SpentIsNat
<1>2. \A y \in DOMAIN g : y \in DOMAIN f /\ g[y] <= f[y]
  BY DEF Within
<1> HIDE DEF f, g
<1>3. Total(g) <= Total(f)
  BY <1>1, <1>2, NothingGrows
<1> QED
  BY <1>3 DEF f, g

-----------------------------------------------------------------------------
\* Of nothing there is nothing.
LEMMA NothingIsNothing ==
  ASSUME NEW f, DOMAIN f = {}
  PROVE  Total(f) = 0
BY FS_EmptySet DEF Total, Units

\* An engine begins with nothing held and nothing spent.
LEMMA EngineBegins == EngineAssumption /\ EngineInit => EngineInv
<1> SUFFICES ASSUME EngineAssumption, EngineInit
             PROVE  EngineInv
  OBVIOUS
<1>1. rows = {} /\ charges = [at \in {} |-> None] /\ spent = charges /\ now = 0 /\ strained = FALSE
  BY DEF EngineInit
<1>2. DOMAIN proc = Procs /\ \A p \in Procs : proc[p].pc = "idle" /\ ProcShape(proc[p])
  BY DEF EngineInit, ProcShape, Idle
<1>3. IsFiniteSet({})
  BY FS_EmptySet
<1>4. ChargeShape(charges) /\ ChargeShape(spent)
  BY <1>1, <1>3 DEF ChargeShape
<1>5. outside \in Vector
  BY DEF EngineInit, EngineAssumption
<1>6. Shape
  BY <1>1, <1>2, <1>3, <1>4, <1>5 DEF Shape
<1>7. Measures /\ CapsAreHeld /\ SpentIsCharged
  BY <1>1, <1>2 DEF Measures, CapsAreHeld, SpentIsCharged
<1>8. \A n \in Names : Held[n] = 0 /\ InWindow(spent)[n] = 0 /\ Size[n] \in Nat
  <2> SUFFICES ASSUME NEW n \in Names
               PROVE  Held[n] = 0 /\ InWindow(spent)[n] = 0 /\ Size[n] \in Nat
    OBVIOUS
  <2>1. Total([r \in rows |-> r.amounts[n]]) = 0
    BY <1>1, NothingIsNothing
  <2>2. Total([at \in {t \in DOMAIN spent : t + Window >= now} |-> spent[at][n]]) = 0
    <3>1. {t \in DOMAIN spent : t + Window >= now} = {}
      BY <1>1
    <3> QED
      BY <3>1, NothingIsNothing
  <2> QED
    BY <2>1, <2>2 DEF Held, InWindow, EngineAssumption, Vector
<1>9. HeldIsWithinSize /\ CapIsAPromise
  BY <1>8 DEF HeldIsWithinSize, Within, CapIsAPromise, PromisesHold
<1> QED
  BY <1>6, <1>7, <1>9 DEF EngineInv

\* Where nothing more is held and nothing more was spent, both promises stand.
LEMMA NoMoreIsPromised ==
  ASSUME EngineAssumption, EngineInv, Shape',
         rows' \subseteq rows, strained' = strained,
         \A n \in Names : InWindow(spent)'[n] <= InWindow(spent)[n]
  PROVE  HeldIsWithinSize' /\ CapIsAPromise'
<1>1. \A n \in Names : /\ Held'[n] <= Held[n] /\ Held[n] \in Nat /\ Held'[n] \in Nat /\ Size[n] \in Nat
                       /\ InWindow(spent)[n] \in Nat /\ InWindow(spent)'[n] \in Nat
  <2> SUFFICES ASSUME NEW n \in Names
               PROVE  /\ Held'[n] <= Held[n] /\ Held[n] \in Nat /\ Held'[n] \in Nat /\ Size[n] \in Nat
                      /\ InWindow(spent)[n] \in Nat /\ InWindow(spent)'[n] \in Nat
    OBVIOUS
  <2>1. Held'[n] <= Held[n] /\ Held[n] \in Nat /\ Held'[n] \in Nat
    BY FewerHoldLess, HeldIsNat DEF EngineInv, Shape, Held
  <2>2. InWindow(spent)[n] \in Nat
    BY SpentIsNat DEF EngineInv, Shape, InWindow
  <2>3. InWindow(spent)'[n] \in Nat
    BY SpentIsNat DEF Shape, InWindow
  <2> QED
    BY <2>1, <2>2, <2>3 DEF EngineAssumption, Vector
<1>2. \A n \in Names : Held[n] <= Size[n]
  BY DEF EngineInv, HeldIsWithinSize, Within
<1>3. HeldIsWithinSize'
  BY <1>1, <1>2 DEF HeldIsWithinSize, Within
<1>4. ASSUME PromisesHold
      PROVE  PromisesHold'
  BY <1>1, <1>4 DEF PromisesHold
<1> QED
  BY <1>3, <1>4 DEF EngineInv, CapIsAPromise

\* A reap forgets no row of a run under way and no charge of the window.
LEMMA ReapKeeps ==
  ASSUME EngineAssumption, EngineInv, NEW p \in Procs, Reap(p)
  PROVE  EngineInv'
<1>1. /\ rows' = Reaped /\ charges' = Swept /\ proc[p].pc = "idle"
      /\ UNCHANGED <<spent, late, strained, outside, gone, stopped, now>>
  BY DEF Reap, At, Sound, World
<1>2. PICK c \in Asks : proc' = [proc EXCEPT ![p] = [Idle EXCEPT !.pc = "reaped", !.ask = c]]
  BY DEF Reap
<1>3. /\ DOMAIN proc' = Procs
      /\ \A q \in Procs \ {p} : proc'[q] = proc[q]
      /\ proc'[p].pc = "reaped" /\ ProcShape(proc'[p])
  BY <1>2 DEF EngineInv, Shape, ProcShape, Idle
<1>4. rows' \subseteq rows
  BY <1>1 DEF Reaped
<1>5. /\ DOMAIN charges' = {at \in DOMAIN charges : at + Window >= now}
      /\ \A at \in DOMAIN charges' : charges'[at] = charges[at]
  BY <1>1 DEF Swept, Restrict
<1>6. Shape'
  <2>1. IsFiniteSet(rows') /\ \A r \in rows' : RowShape(r)
    BY <1>4, FS_Subset DEF EngineInv, Shape
  <2>2. ChargeShape(charges')
    <3>1. DOMAIN charges' \subseteq DOMAIN charges
      BY <1>5
    <3>2. ChargeShape(charges)
      BY DEF EngineInv, Shape
    <3>3. IsFiniteSet(DOMAIN charges')
      BY <3>1, <3>2, FS_Subset DEF ChargeShape
    <3> QED
      BY <1>5, <3>1, <3>2, <3>3 DEF ChargeShape
  <2> QED
    BY <1>1, <1>3, <2>1, <2>2 DEF EngineInv, Shape
<1>7. Measures'
  BY <1>1, <1>3 DEF EngineInv, Measures, InWindow
<1>8. CapsAreHeld'
  <2> SUFFICES ASSUME NEW q \in Procs, proc'[q].pc = "holds"
               PROVE  /\ q \notin gone
                      /\ \/ CapOf(proc'[q].ask) = None
                         \/ \E r \in rows' : /\ r.pid = q /\ r.kind = "consumable"
                                             /\ r.amounts = CapOf(proc'[q].ask) /\ r.deadline >= now
    BY <1>1 DEF CapsAreHeld, None
  <2>1. q # p /\ proc[q].pc = "holds" /\ CapOf(proc'[q].ask) = CapOf(proc[q].ask)
    BY <1>3 DEF CapOf
  <2>2. CASE CapOf(proc[q].ask) = None
    BY <2>1, <2>2 DEF EngineInv, CapsAreHeld
  <2>3. CASE CapOf(proc[q].ask) # None
    <3>1. PICK r \in rows : /\ r.pid = q /\ r.kind = "consumable"
                            /\ r.amounts = CapOf(proc[q].ask) /\ r.deadline >= now
      BY <2>1, <2>3 DEF EngineInv, CapsAreHeld
    <3>2. q \notin gone
      BY <2>1 DEF EngineInv, CapsAreHeld
    <3>3. r.deadline + Grace >= now
      BY <3>1 DEF EngineInv, Shape, RowShape, EngineAssumption
    <3>4. r \in rows'
      BY <1>1, <3>1, <3>2, <3>3 DEF Reaped, Kept
    <3> QED
      BY <2>1, <3>1, <3>2, <3>4
  <2> QED
    BY <2>2, <2>3
<1>9. SpentIsCharged'
  BY <1>1, <1>5 DEF EngineInv, SpentIsCharged
<1>10. \A n \in Names : InWindow(spent)'[n] <= InWindow(spent)[n]
  BY <1>1, SpentIsNat DEF EngineInv, Shape, InWindow
<1>11. HeldIsWithinSize' /\ CapIsAPromise'
  BY <1>1, <1>4, <1>6, <1>10, NoMoreIsPromised
<1> QED
  BY <1>6, <1>7, <1>8, <1>9, <1>11 DEF EngineInv

\* What is charged in the window is no less than what was spent in it.
LEMMA SpentIsWithinCharged ==
  ASSUME ChargeShape(charges), ChargeShape(spent), SpentIsCharged, NEW n \in Names
  PROVE  InWindow(spent)[n] <= Charged[n]
<1> DEFINE in == {t \in DOMAIN charges : t + Window >= now}
           jn == {t \in DOMAIN spent : t + Window >= now}
<1>1. \A at \in jn : at \in in /\ Within(spent[at], charges[at])
  BY DEF SpentIsCharged
<1>2. jn \subseteq DOMAIN spent /\ in \subseteq DOMAIN charges
  OBVIOUS
<1> HIDE DEF jn, in
<1>3. Total([at \in jn |-> spent[at][n]]) <= Total([at \in in |-> charges[at][n]])
  BY <1>1, <1>2, LessIsSpent
<1> QED
  BY <1>3 DEF jn, in, Charged, InWindow

\* A measure sees every charge of the window.
LEMMA MeasureKeeps ==
  ASSUME EngineAssumption, EngineInv, NEW p \in Procs, Measure(p)
  PROVE  EngineInv'
<1>1. /\ late' = late \ {p}
      /\ UNCHANGED <<rows, charges, spent, strained, outside, gone, stopped, now>>
      /\ proc' = [proc EXCEPT ![p].pc = "measured", ![p].measured = Supply]
  BY DEF Measure, World
<1>2. /\ DOMAIN proc' = Procs
      /\ \A q \in Procs \ {p} : proc'[q] = proc[q]
      /\ proc'[p].pc = "measured" /\ proc'[p].measured = Supply /\ ProcShape(proc'[p])
  <2>1. DOMAIN proc = Procs /\ ProcShape(proc[p]) /\ proc[p].pc = "reaped"
    BY DEF EngineInv, Shape, Measure, At
  <2> QED
    BY <1>1, <2>1 DEF ProcShape
<1>3. Shape'
  BY <1>1, <1>2 DEF EngineInv, Shape
<1>4. \A n \in Names :
        /\ Supply[n] \in Nat /\ Supply[n] <= Size[n]
        /\ KindOf[n] = "consumable" /\ Supply[n] > 0 => Supply[n] + InWindow(spent)[n] <= Size[n]
  <2> SUFFICES ASSUME NEW n \in Names
               PROVE  /\ Supply[n] \in Nat /\ Supply[n] <= Size[n]
                      /\ KindOf[n] = "consumable" /\ Supply[n] > 0 => Supply[n] + InWindow(spent)[n] <= Size[n]
    OBVIOUS
  <2>1. Size[n] \in Nat /\ outside[n] \in Nat
    BY DEF EngineAssumption, EngineInv, Shape, Vector
  <2>2. Charged[n] \in Nat /\ InWindow(spent)[n] \in Nat
    BY SpentIsNat DEF EngineInv, Shape, Charged, InWindow
  <2>3. InWindow(spent)[n] <= Charged[n]
    BY SpentIsWithinCharged DEF EngineInv, Shape
  <2> DEFINE m == IF KindOf[n] = "consumable" THEN Charged[n] ELSE outside[n]
  <2>4. m \in Nat /\ Supply[n] = Max({0, Size[n] - m}) /\ (KindOf[n] = "consumable" => m = Charged[n])
    BY <2>1, <2>2 DEF Supply
  <2> HIDE DEF m
  <2>5. Supply[n] = IF Size[n] - m > 0 THEN Size[n] - m ELSE 0
    BY <2>1, <2>4, Floored
  <2> QED
    BY <2>1, <2>2, <2>3, <2>4, <2>5
<1>5. Measures'
  <2> SUFFICES ASSUME NEW q \in Procs, proc'[q].pc = "measured", NEW n \in Names
               PROVE  /\ proc'[q].measured[n] \in Nat /\ proc'[q].measured[n] <= Size[n]
                      /\ q \notin late' /\ KindOf[n] = "consumable" /\ proc'[q].measured[n] > 0 =>
                           proc'[q].measured[n] + InWindow(spent)[n] <= Size[n]
    BY <1>1 DEF Measures, InWindow
  <2>1. CASE q = p
    BY <1>2, <1>4, <2>1
  <2>2. CASE q # p
    BY <1>1, <1>2, <2>2 DEF EngineInv, Measures
  <2> QED
    BY <2>1, <2>2
<1>6. CapsAreHeld' /\ SpentIsCharged'
  <2>1. \A q \in Procs : proc'[q].pc = "holds" => proc[q].pc = "holds" /\ proc'[q] = proc[q]
    BY <1>2
  <2>2. CapsAreHeld'
    <3>1. ASSUME NEW q \in Procs, proc'[q].pc = "holds"
          PROVE  CapOf(proc'[q].ask) = CapOf(proc[q].ask)
      BY <2>1, <3>1 DEF CapOf
    <3> QED
      BY <1>1, <2>1, <3>1 DEF EngineInv, CapsAreHeld, None
  <2>3. SpentIsCharged'
    BY <1>1 DEF EngineInv, SpentIsCharged, Within
  <2> QED
    BY <2>2, <2>3
<1>7. HeldIsWithinSize' /\ CapIsAPromise'
  BY <1>1 DEF EngineInv, HeldIsWithinSize, CapIsAPromise, PromisesHold, Held, InWindow, Within
<1> QED
  BY <1>3, <1>5, <1>6, <1>7 DEF EngineInv

\* One transaction writes a row for each kind: of each name, what was asked.
LEMMA PartsAddTheAsk ==
  ASSUME EngineAssumption, EngineInv, NEW p \in Procs, NEW c \in Asks
  PROVE  /\ IsFiniteSet(rows \cup Parts(p, c)) /\ \A r \in Parts(p, c) : RowShape(r)
         /\ CapOf(c) = None \/
              \E r \in Parts(p, c) : /\ r.pid = p /\ r.kind = "consumable" /\ r.deadline >= now
                                     /\ r.amounts = CapOf(c)
         /\ \A n \in Names :
              Total([r \in rows \cup Parts(p, c) |-> r.amounts[n]])
                <= Total([r \in rows |-> r.amounts[n]]) + c.demand[n]
<1> DEFINE row(k) == [id |-> NewId(p), pid |-> p, kind |-> k, amounts |-> OfKind(c.demand, k),
                      deadline |-> now + c.wall, lives |-> k = "persistent" /\ c.lives]
           kinds  == {KindOf[n] : n \in {m \in Names : c.demand[m] > 0}}
           parts  == {row(k) : k \in kinds}
<1>1. Parts(p, c) = parts
  BY DEF Parts
<1>2. c.demand \in Vector /\ c.wall \in Nat /\ now \in Nat
  BY DEF EngineAssumption, EngineInv, Shape
<1>3. kinds \subseteq Kind
  BY DEF EngineAssumption, Kind
<1>4. \A k \in Kind : OfKind(c.demand, k) \in Vector
  BY <1>2 DEF OfKind, Vector
<1>5. \A r \in parts : RowShape(r)
  BY <1>2, <1>3, <1>4 DEF RowShape
<1>6. IsFiniteSet(parts)
  <2>1. [k \in kinds |-> row(k)] \in Surjection(kinds, parts)
    BY DEF Surjection
  <2>2. IsFiniteSet(Kind)
    <3>1. IsFiniteSet({}) /\ Kind = (({} \cup {"occupancy"}) \cup {"consumable"}) \cup {"persistent"}
      BY FS_EmptySet DEF Kind
    <3> QED
      BY <3>1, FS_AddElement
  <2>3. IsFiniteSet(kinds)
    BY <1>3, <2>2, FS_Subset
  <2> HIDE DEF kinds, parts
  <2> QED
    BY <2>1, <2>3, FS_Surjection
<1>7. IsFiniteSet(rows \cup parts)
  <2>1. IsFiniteSet(rows)
    BY DEF EngineInv, Shape
  <2> HIDE DEF parts
  <2> QED
    BY <1>6, <2>1, FS_Union
<1>8. ASSUME CapOf(c) # None
      PROVE  \E r \in parts : /\ r.pid = p /\ r.kind = "consumable" /\ r.deadline >= now
                              /\ r.amounts = CapOf(c)
  <2>1. PICK n \in Names : KindOf[n] = "consumable" /\ c.demand[n] # 0
    BY <1>2, <1>8 DEF CapOf, OfKind, None
  <2>2. "consumable" \in kinds
    BY <1>2, <2>1 DEF Vector
  <2>3. row("consumable") \in parts
    BY <2>2
  <2> DEFINE r == row("consumable")
  <2>4. /\ r.pid = p /\ r.kind = "consumable" /\ r.deadline >= now
        /\ r.amounts = CapOf(c)
    BY <1>2 DEF CapOf
  <2>5. r \in parts
    BY <2>3
  <2> HIDE DEF r, parts
  <2> QED
    BY <2>4, <2>5
<1>9. ASSUME NEW n \in Names
      PROVE  Total([r \in rows \cup parts |-> r.amounts[n]])
               <= Total([r \in rows |-> r.amounts[n]]) + c.demand[n]
  <2> DEFINE x == row(KindOf[n])
             f == [r \in rows |-> r.amounts[n]]
             g == [r \in rows \cup parts |-> r.amounts[n]]
  <2>1. c.demand[n] \in Nat
    BY <1>2 DEF Vector
  <2>2. Amount(f)
    BY HeldIsNat DEF EngineInv, Shape
  <2>3. \A r \in rows \cup parts : RowShape(r)
    BY <1>5 DEF EngineInv, Shape
  <2>4. Amount(g)
    BY <1>7, <2>3, HeldIsNat
  <2>5. \A r \in parts \ {x} : r.amounts[n] = 0
    BY DEF OfKind
  <2>6. x.amounts[n] = c.demand[n]
    BY DEF OfKind
  <2>7. NoMoreBeside(f, g, x)
    BY <2>2, <2>5 DEF NoMoreBeside, Amount
  <2>8. Part(g, x) <= c.demand[n]
    BY <2>1, <2>6 DEF Part
  <2> HIDE DEF f, g, x
  <2>9. /\ Total(f) \in Nat /\ Total(g) \in Nat /\ Part(f, x) \in Nat /\ Part(g, x) \in Nat
        /\ Total(g) + Part(f, x) <= Total(f) + Part(g, x)
    BY <2>2, <2>4, <2>7, OnlyOneGrows
  <2>10. Total(g) <= Total(f) + c.demand[n]
    BY <2>1, <2>8, <2>9
  <2> QED
    BY <2>10 DEF f, g
<1> QED
  BY <1>1, <1>5, <1>7, <1>8, <1>9

\* What is admitted fits beside what is held, and beside what was spent unless
\* the measure is late.
LEMMA AdmittedFits ==
  ASSUME EngineAssumption, EngineInv, NEW p \in Procs, proc[p].pc = "measured",
         NEW c \in Asks, Admits(proc[p].measured, c.demand), NEW n \in Names
  PROVE  /\ Held[n] \in Nat /\ Size[n] \in Nat /\ c.demand[n] \in Nat
         /\ InWindow(spent)[n] \in Nat
         /\ Held[n] <= Size[n]
         /\ Held[n] + c.demand[n] <= Size[n]
         /\ c.demand[n] > 0 /\ p \notin late /\ KindOf[n] = "consumable" =>
              Held[n] + c.demand[n] + InWindow(spent)[n] <= Size[n]
<1> DEFINE m == proc[p].measured[n]
<1>1. Held[n] \in Nat
  BY HeldIsNat DEF EngineInv, Shape, Held
<1>2. InWindow(spent)[n] \in Nat
  BY SpentIsNat DEF EngineInv, Shape, InWindow
<1>3. Size[n] \in Nat /\ c.demand[n] \in Nat
  BY DEF EngineAssumption, Vector
<1>4. Held[n] <= Size[n]
  BY DEF EngineInv, HeldIsWithinSize, Within
<1>5. /\ m \in Nat /\ m <= Size[n]
      /\ p \notin late /\ KindOf[n] = "consumable" /\ m > 0 => m + InWindow(spent)[n] <= Size[n]
  BY DEF EngineInv, Measures
<1>6. c.demand[n] <= Max({0, m - Held[n]})
  BY DEF Admits, Admit, Within, Less
<1> HIDE DEF m
<1>7. c.demand[n] <= IF m - Held[n] > 0 THEN m - Held[n] ELSE 0
  <2>1. m - Held[n] \in Int
    BY <1>1, <1>5
  <2>2. Max({0, m - Held[n]}) = IF m - Held[n] > 0 THEN m - Held[n] ELSE 0
    BY <2>1, Floored
  <2> QED
    BY <1>6, <2>2
<1> QED
  BY <1>1, <1>2, <1>3, <1>4, <1>5, <1>7

\* A claim is admitted only where it fits beside what is held now.
LEMMA HoldKeeps ==
  ASSUME EngineAssumption, EngineInv, NEW p \in Procs, Hold(p)
  PROVE  EngineInv'
<1> DEFINE c == proc[p].ask
<1>1. /\ proc[p].pc = "measured" /\ p \notin gone
      /\ strained' = (strained \/ (p \in late /\ rows' # rows))
      /\ UNCHANGED <<charges, spent, late, outside, gone, stopped, now>>
  BY DEF Hold, At, World
<1>2. /\ DOMAIN proc = Procs /\ ProcShape(proc[p]) /\ c \in Asks
      /\ \A q \in Procs : ProcShape(proc[q])
  BY <1>1 DEF EngineInv, Shape, ProcShape
<1>3. CASE ~Admits(proc[p].measured, c.demand)
  <2>1. rows' = rows /\ proc' = [proc EXCEPT ![p] = Idle]
    BY <1>3 DEF Hold
  <2>2. /\ DOMAIN proc' = Procs
        /\ \A q \in Procs \ {p} : proc'[q] = proc[q]
        /\ proc'[p].pc = "idle" /\ ProcShape(proc'[p])
    BY <1>2, <2>1 DEF ProcShape, Idle
  <2>3. Shape'
    BY <1>1, <1>2, <2>1, <2>2 DEF EngineInv, Shape
  <2>4. Measures'
    BY <1>1, <2>1, <2>2 DEF EngineInv, Measures, InWindow
  <2>5. \A q \in Procs : proc'[q].pc = "holds" => proc[q].pc = "holds" /\ proc'[q] = proc[q]
    BY <2>2
  <2>6. CapsAreHeld' /\ SpentIsCharged'
    BY <1>1, <2>1, <2>5 DEF EngineInv, CapsAreHeld, SpentIsCharged, Within, None
  <2>7. HeldIsWithinSize' /\ CapIsAPromise'
    BY <1>1, <2>1 DEF EngineInv, HeldIsWithinSize, CapIsAPromise, PromisesHold, Held, InWindow, Within
  <2> QED
    BY <2>3, <2>4, <2>6, <2>7 DEF EngineInv
<1>4. CASE Admits(proc[p].measured, c.demand)
  <2>1. /\ rows' = rows \cup Parts(p, c)
        /\ proc' = [proc EXCEPT ![p].pc = "holds", ![p].measured = None]
    BY <1>4 DEF Hold
  <2>2. /\ DOMAIN proc' = Procs
        /\ \A q \in Procs \ {p} : proc'[q] = proc[q]
        /\ proc'[p].pc = "holds" /\ proc'[p].ask = c /\ ProcShape(proc'[p])
    BY <1>2, <2>1 DEF ProcShape
  <2> HIDE DEF c
  <2>3. /\ IsFiniteSet(rows') /\ \A r \in Parts(p, c) : RowShape(r)
        /\ CapOf(c) = None \/
             \E r \in Parts(p, c) : /\ r.pid = p /\ r.kind = "consumable" /\ r.deadline >= now
                                    /\ r.amounts = CapOf(c)
    BY <1>2, <2>1, PartsAddTheAsk
  <2>4. Shape'
    BY <1>1, <1>2, <2>1, <2>2, <2>3 DEF EngineInv, Shape
  <2>5. Measures'
    BY <1>1, <2>2 DEF EngineInv, Measures, InWindow
  <2>6. CapsAreHeld'
    <3> SUFFICES ASSUME NEW q \in Procs, proc'[q].pc = "holds"
                 PROVE  /\ q \notin gone
                        /\ \/ CapOf(proc'[q].ask) = None
                           \/ \E r \in rows' : /\ r.pid = q /\ r.kind = "consumable"
                                               /\ r.amounts = CapOf(proc'[q].ask) /\ r.deadline >= now
      BY <1>1 DEF CapsAreHeld, None
    <3>1. CASE q = p
      BY <1>1, <2>1, <2>2, <2>3, <3>1
    <3>2. CASE q # p
      BY <2>1, <2>2, <3>2 DEF EngineInv, CapsAreHeld
    <3> QED
      BY <3>1, <3>2
  <2>7. SpentIsCharged'
    BY <1>1 DEF EngineInv, SpentIsCharged, Within
  <2>8. ASSUME NEW n \in Names
        PROVE  /\ Held'[n] \in Nat /\ Held'[n] <= Held[n] + c.demand[n]
               /\ InWindow(spent)'[n] = InWindow(spent)[n]
    <3>1. Held'[n] \in Nat
      BY <2>4, HeldIsNat DEF Shape, Held
    <3>2. Held'[n] <= Held[n] + c.demand[n]
      BY <1>2, <2>1, PartsAddTheAsk DEF Held
    <3> QED
      BY <1>1, <3>1, <3>2 DEF InWindow
  <2>9. ASSUME NEW n \in Names
        PROVE  /\ Held[n] \in Nat /\ Size[n] \in Nat /\ c.demand[n] \in Nat
               /\ InWindow(spent)[n] \in Nat
               /\ Held[n] <= Size[n]
               /\ Held[n] + c.demand[n] <= Size[n]
               /\ c.demand[n] > 0 /\ p \notin late /\ KindOf[n] = "consumable" =>
                    Held[n] + c.demand[n] + InWindow(spent)[n] <= Size[n]
    BY <1>1, <1>2, <1>4, AdmittedFits DEF c
  <2>10. HeldIsWithinSize'
    BY <2>8, <2>9 DEF HeldIsWithinSize, Within
  <2>11. CapIsAPromise'
    <3>1. CASE strained'
      BY <3>1 DEF CapIsAPromise
    <3>2. CASE ~strained' /\ rows' = rows
      BY <1>1, <3>2 DEF EngineInv, CapIsAPromise, PromisesHold, Held, InWindow
    <3>3. CASE ~strained' /\ rows' # rows
      <4>1. ~strained /\ p \notin late
        BY <1>1, <3>3
      <4>2. ASSUME NEW n \in Names, KindOf[n] = "consumable"
            PROVE  Held'[n] + InWindow(spent)'[n] <= Size[n]
        <5>1. Held[n] + InWindow(spent)[n] <= Size[n]
          BY <4>1, <4>2 DEF EngineInv, CapIsAPromise, PromisesHold
        <5>2. CASE c.demand[n] > 0
          BY <2>8, <2>9, <4>1, <4>2, <5>2
        <5>3. CASE ~(c.demand[n] > 0)
          BY <2>8, <2>9, <5>1, <5>3
        <5> QED
          BY <5>2, <5>3
      <4> QED
        BY <4>2 DEF CapIsAPromise, PromisesHold
    <3> QED
      BY <3>1, <3>2, <3>3
  <2> QED
    BY <2>4, <2>5, <2>6, <2>7, <2>10, <2>11 DEF EngineInv
<1> QED
  BY <1>3, <1>4

\* A charge adds to what was spent in the window by what was used.
LEMMA ChargeAdds ==
  ASSUME EngineAssumption, now \in Nat, NEW cs, ChargeShape(cs), NEW used \in Vector
  PROVE  /\ ChargeShape(With(cs, used))
         /\ DOMAIN With(cs, used) = DOMAIN cs \cup {now}
         /\ \A at \in DOMAIN cs \ {now} : With(cs, used)[at] = cs[at]
         /\ With(cs, used)[now] = Plus(IF now \in DOMAIN cs THEN cs[now] ELSE None, used)
         /\ \A n \in Names :
              /\ InWindow(cs)[n] \in Nat /\ InWindow(With(cs, used))[n] \in Nat
              /\ InWindow(With(cs, used))[n] <= InWindow(cs)[n] + used[n]
<1> DEFINE ds == With(cs, used)
<1>1. \A a \in Vector : [n \in Names |-> a[n] + 0] = a
  BY DEF Vector
<1>2. /\ DOMAIN ds = DOMAIN cs \cup {now}
      /\ \A at \in DOMAIN cs \ {now} : ds[at] = cs[at]
      /\ ds[now] = Plus(IF now \in DOMAIN cs THEN cs[now] ELSE None, used)
  <2>1. DOMAIN ds = DOMAIN cs \cup {now}
    BY DEF With
  <2>2. ASSUME NEW at \in DOMAIN cs \ {now}
        PROVE  ds[at] = cs[at]
    <3>1. ds[at] = Plus(cs[at], None)
      BY <2>2 DEF With
    <3>2. Plus(cs[at], None) = [n \in Names |-> cs[at][n] + 0]
      BY DEF Plus, None
    <3>3. cs[at] \in Vector
      BY <2>2 DEF ChargeShape
    <3> QED
      BY <1>1, <3>1, <3>2, <3>3
  <2>3. ds[now] = Plus(IF now \in DOMAIN cs THEN cs[now] ELSE None, used)
    BY DEF With
  <2> QED
    BY <2>1, <2>2, <2>3
<1>3. None \in Vector /\ \A a, b \in Vector : Plus(a, b) \in Vector /\ \A n \in Names : Plus(a, b)[n] = a[n] + b[n]
  BY DEF None, Plus, Vector
<1> HIDE DEF ds
<1>4. ChargeShape(ds)
  <2>1. IsFiniteSet(DOMAIN ds)
    BY <1>2, FS_AddElement DEF ChargeShape
  <2>2. \A at \in DOMAIN ds : ds[at] \in Vector
    BY <1>2, <1>3 DEF ChargeShape
  <2> QED
    BY <1>2, <2>1, <2>2 DEF ChargeShape
<1>5. ASSUME NEW n \in Names
      PROVE  /\ InWindow(cs)[n] \in Nat /\ InWindow(ds)[n] \in Nat
             /\ InWindow(ds)[n] <= InWindow(cs)[n] + used[n]
  <2> DEFINE in == {t \in DOMAIN cs : t + Window >= now}
             jn == {t \in DOMAIN ds : t + Window >= now}
             f  == [at \in in |-> cs[at][n]]
             g  == [at \in jn |-> ds[at][n]]
  <2>1. Amount(f) /\ Amount(g) /\ used[n] \in Nat
    BY <1>4, SpentIsNat DEF Vector
  <2>2. NoMoreBeside(f, g, now)
    <3>1. ASSUME NEW y \in DOMAIN g \ {now}
          PROVE  y \in DOMAIN f /\ g[y] = f[y] /\ f[y] \in Nat
      BY <1>2, <2>1 DEF Amount
    <3> QED
      BY <3>1 DEF NoMoreBeside
  <2>3. Part(g, now) = Part(f, now) + used[n]
    <3>1. now + Window >= now
      BY DEF EngineAssumption
    <3>2. now \in DOMAIN g /\ g[now] = ds[now][n]
      BY <1>2, <3>1
    <3>3. CASE now \in DOMAIN cs
      <4>1. cs[now] \in Vector
        BY <3>3 DEF ChargeShape
      <4>2. ds[now][n] = cs[now][n] + used[n]
        BY <1>2, <1>3, <3>3, <4>1
      <4>3. Part(f, now) = cs[now][n]
        BY <3>1, <3>3 DEF Part
      <4> QED
        BY <3>2, <4>2, <4>3 DEF Part
    <3>4. CASE now \notin DOMAIN cs
      <4>1. ds[now] = Plus(None, used)
        BY <1>2, <3>4
      <4>2. ds[now][n] = None[n] + used[n]
        BY <1>3, <4>1
      <4>3. ds[now][n] = 0 + used[n]
        BY <4>2 DEF None
      <4>4. Part(f, now) = 0
        BY <3>4 DEF Part
      <4> QED
        BY <3>2, <4>3, <4>4 DEF Part
    <3> QED
      BY <3>3, <3>4
  <2> HIDE DEF f, g
  <2>4. /\ Total(f) \in Nat /\ Total(g) \in Nat /\ Part(f, now) \in Nat /\ Part(g, now) \in Nat
        /\ Total(g) + Part(f, now) <= Total(f) + Part(g, now)
    BY <2>1, <2>2, OnlyOneGrows
  <2>5. Total(g) <= Total(f) + used[n]
    BY <2>1, <2>3, <2>4
  <2>6. InWindow(cs)[n] = Total(f) /\ InWindow(ds)[n] = Total(g)
    BY DEF InWindow, f, g
  <2> QED
    BY <2>4, <2>5, <2>6
<1> QED
  BY <1>2, <1>4, <1>5 DEF ds

\* A run that ends gives back its cap and is charged no more than that.
LEMMA ChargeKeeps ==
  ASSUME EngineAssumption, EngineInv, NEW p \in Procs, Charge(p)
  PROVE  EngineInv'
<1> DEFINE cap == CapOf(proc[p].ask)
<1>1. /\ proc[p].pc = "holds" /\ p \notin gone
      /\ rows' = {r \in rows : r.pid # p \/ r.kind = "persistent"}
      /\ proc' = [proc EXCEPT ![p] = Idle]
      /\ UNCHANGED <<strained, outside, gone, stopped, now>>
  BY DEF Charge, At, World
<1>2. /\ DOMAIN proc = Procs /\ now \in Nat /\ ChargeShape(charges) /\ ChargeShape(spent)
      /\ \A q \in Procs : ProcShape(proc[q])
      /\ proc[p].ask \in Asks
  BY <1>1 DEF EngineInv, Shape, ProcShape
<1>3. cap \in Vector
  BY <1>2 DEF EngineAssumption, CapOf, OfKind, Vector
<1>4. PICK used \in Vector :
        /\ Within(used, cap)
        /\ charges' = IF used = None THEN charges ELSE With(charges, used)
        /\ spent' = IF used = None THEN spent ELSE With(spent, used)
        /\ late' = IF used = None THEN late ELSE late \cup {q \in Procs : proc[q].pc = "measured"}
  <2>1. PICK used \in [Names -> 0 .. Max({cap[n] : n \in Names})] :
          /\ Within(used, cap)
          /\ charges' = Spent(used)
          /\ spent' = IF used = None THEN spent ELSE With(spent, used)
          /\ late' = IF used = None THEN late ELSE late \cup {q \in Procs : proc[q].pc = "measured"}
    BY DEF Charge, CapOf
  <2>2. used \in Vector
    <3> DEFINE m == Max({cap[n] : n \in Names})
    <3>1. used \in [Names -> 0 .. m]
      BY <2>1
    <3> HIDE DEF m
    <3>2. 0 .. m \subseteq Nat
      OBVIOUS
    <3> QED
      BY <3>1, <3>2 DEF Vector
  <2> QED
    BY <2>1, <2>2 DEF Spent
<1>5. /\ DOMAIN proc' = Procs
      /\ \A q \in Procs \ {p} : proc'[q] = proc[q]
      /\ proc'[p].pc = "idle" /\ ProcShape(proc'[p])
  BY <1>1, <1>2 DEF ProcShape, Idle
<1>6. rows' \subseteq rows
  BY <1>1
<1>7. IsFiniteSet(rows') /\ \A r \in rows' : RowShape(r)
  BY <1>6, FS_Subset DEF EngineInv, Shape
<1>8. Shape'
  <2>1. ChargeShape(charges') /\ ChargeShape(spent')
    BY <1>2, <1>4, ChargeAdds
  <2> QED
    BY <1>1, <1>2, <1>5, <1>7, <2>1 DEF EngineInv, Shape
<1>9. CapsAreHeld'
  <2> SUFFICES ASSUME NEW q \in Procs, proc'[q].pc = "holds"
               PROVE  /\ q \notin gone
                      /\ \/ CapOf(proc'[q].ask) = None
                         \/ \E r \in rows' : /\ r.pid = q /\ r.kind = "consumable"
                                             /\ r.amounts = CapOf(proc'[q].ask) /\ r.deadline >= now
    BY <1>1 DEF CapsAreHeld, None
  <2>1. q # p /\ proc'[q] = proc[q]
    BY <1>5
  <2> QED
    BY <1>1, <2>1 DEF EngineInv, CapsAreHeld
<1>10. CASE used = None
  <2>1. UNCHANGED <<charges, spent, late>>
    BY <1>4, <1>10
  <2>2. Measures'
    BY <1>1, <1>5, <2>1 DEF EngineInv, Measures, InWindow
  <2>3. SpentIsCharged'
    BY <1>1, <2>1 DEF EngineInv, SpentIsCharged, Within
  <2>4. \A n \in Names : InWindow(spent)'[n] <= InWindow(spent)[n]
    BY <1>1, <2>1, SpentIsNat DEF EngineInv, Shape, InWindow
  <2>5. HeldIsWithinSize' /\ CapIsAPromise'
    BY <1>1, <1>6, <1>8, <2>4, NoMoreIsPromised
  <2> QED
    BY <1>8, <1>9, <2>2, <2>3, <2>5 DEF EngineInv
<1>11. CASE used # None
  <2>1. /\ charges' = With(charges, used) /\ spent' = With(spent, used)
        /\ \A q \in Procs : proc[q].pc = "measured" => q \in late'
    BY <1>4, <1>11
  <2>2. Measures'
    <3> SUFFICES ASSUME NEW q \in Procs, proc'[q].pc = "measured", NEW n \in Names
                 PROVE  /\ q \in late'
                        /\ proc'[q].measured[n] \in Nat /\ proc'[q].measured[n] <= Size[n]
      BY DEF Measures
    <3> QED
      BY <1>5, <2>1 DEF EngineInv, Measures
  <2>3. SpentIsCharged'
    <3> SUFFICES ASSUME NEW at \in DOMAIN spent'
                 PROVE  /\ at + Window >= now
                        /\ at \in DOMAIN charges' /\ Within(spent'[at], charges'[at])
      BY <1>1 DEF SpentIsCharged, Within
    <3>1. CASE at # now
      <4>1. at \in DOMAIN spent /\ spent'[at] = spent[at]
        <5>1. /\ DOMAIN With(spent, used) = DOMAIN spent \cup {now}
              /\ \A t \in DOMAIN spent \ {now} : With(spent, used)[t] = spent[t]
          BY <1>2, ChargeAdds
        <5> QED
          BY <2>1, <3>1, <5>1
      <4>2. at + Window >= now /\ at \in DOMAIN charges /\ Within(spent[at], charges[at])
        BY <4>1 DEF EngineInv, SpentIsCharged
      <4>3. at \in DOMAIN charges' /\ charges'[at] = charges[at]
        <5>1. /\ DOMAIN With(charges, used) = DOMAIN charges \cup {now}
              /\ \A t \in DOMAIN charges \ {now} : With(charges, used)[t] = charges[t]
          BY <1>2, ChargeAdds
        <5> QED
          BY <2>1, <3>1, <4>2, <5>1
      <4> QED
        BY <4>1, <4>2, <4>3
    <3>2. CASE at = now
      <4> DEFINE s == IF now \in DOMAIN spent THEN spent[now] ELSE None
                 d == IF now \in DOMAIN charges THEN charges[now] ELSE None
      <4>1. now \in DOMAIN charges' /\ spent'[now] = Plus(s, used) /\ charges'[now] = Plus(d, used)
        BY <1>2, <2>1, ChargeAdds
      <4>2. now + Window >= now
        BY <1>2 DEF EngineAssumption
      <4>3. None \in Vector
        BY DEF None, Vector
      <4>4. s \in Vector /\ d \in Vector
        BY <1>2, <4>3 DEF ChargeShape
      <4>5. \A n \in Names : s[n] <= d[n]
        <5>1. CASE now \in DOMAIN spent
          BY <5>1 DEF EngineInv, SpentIsCharged, Within
        <5>2. CASE now \notin DOMAIN spent
          BY <4>4, <5>2 DEF None, Vector
        <5> QED
          BY <5>1, <5>2
      <4> HIDE DEF s, d
      <4>6. Within(Plus(s, used), Plus(d, used))
        BY <4>4, <4>5 DEF Within, Plus, Vector
      <4> QED
        BY <3>2, <4>1, <4>2, <4>6
    <3> QED
      BY <3>1, <3>2
  <2>4. PICK x \in rows : /\ x.pid = p /\ x.kind = "consumable" /\ x.amounts = cap
    <3>1. cap # None
      BY <1>3, <1>4, <1>11 DEF Within, None, Vector
    <3> QED
      BY <1>1, <3>1 DEF EngineInv, CapsAreHeld
  <2>5. x \notin rows'
    BY <1>1, <2>4
  <2>6. ASSUME NEW n \in Names
        PROVE  /\ Held'[n] \in Nat /\ Held[n] \in Nat /\ Size[n] \in Nat
               /\ used[n] \in Nat /\ cap[n] \in Nat /\ used[n] <= cap[n]
               /\ Held'[n] + cap[n] <= Held[n]
               /\ InWindow(spent)[n] \in Nat /\ InWindow(spent)'[n] \in Nat
               /\ InWindow(spent)'[n] <= InWindow(spent)[n] + used[n]
    <3> DEFINE f == [r \in rows |-> r.amounts[n]]
               g == [r \in rows' |-> r.amounts[n]]
    <3>1. Amount(f)
      BY HeldIsNat DEF EngineInv, Shape
    <3>2. Amount(g)
      BY <1>7, HeldIsNat
    <3>3. NoMoreBeside(f, g, x)
      BY <1>6, <3>1 DEF NoMoreBeside, Amount
    <3>4. Part(f, x) = cap[n] /\ Part(g, x) = 0
      BY <2>4, <2>5 DEF Part
    <3>5. Held[n] = Total(f) /\ Held'[n] = Total(g)
      BY DEF Held
    <3> HIDE DEF f, g
    <3>6. Total(f) \in Nat /\ Total(g) \in Nat /\ Total(g) + Part(f, x) <= Total(f) + Part(g, x)
      BY <3>1, <3>2, <3>3, OnlyOneGrows
    <3>7. Size[n] \in Nat /\ used[n] \in Nat /\ cap[n] \in Nat /\ used[n] <= cap[n]
      BY <1>3, <1>4 DEF EngineAssumption, Vector, Within
    <3>8. InWindow(spent)'[n] = InWindow(With(spent, used))[n]
      BY <1>1, <2>1 DEF InWindow
    <3>9. /\ InWindow(spent)[n] \in Nat /\ InWindow(With(spent, used))[n] \in Nat
          /\ InWindow(With(spent, used))[n] <= InWindow(spent)[n] + used[n]
      BY <1>2, ChargeAdds
    <3> HIDE DEF cap
    <3> QED
      BY <3>4, <3>5, <3>6, <3>7, <3>8, <3>9
  <2> HIDE DEF cap
  <2>7. HeldIsWithinSize'
    <3>1. \A n \in Names : Held[n] <= Size[n]
      BY DEF EngineInv, HeldIsWithinSize, Within
    <3> QED
      BY <2>6, <3>1 DEF HeldIsWithinSize, Within
  <2>8. ASSUME PromisesHold
        PROVE  PromisesHold'
    BY <2>6, <2>8 DEF PromisesHold
  <2>9. CapIsAPromise'
    BY <1>1, <2>8 DEF EngineInv, CapIsAPromise
  <2> QED
    BY <1>8, <1>9, <2>2, <2>3, <2>7, <2>9 DEF EngineInv
<1> QED
  BY <1>10, <1>11

\* A process that dies, a run whose probe ends and use outside the ledger touch
\* no row and no measure.
LEMMA OthersKeep ==
  ASSUME EngineAssumption, EngineInv,
         (\E p \in Procs : Die(p) \/ Stop(p)) \/ OutsideChanges \/ UNCHANGED engineVars
  PROVE  EngineInv'
<1>1. /\ UNCHANGED <<rows, charges, now, spent, late, strained>>
      /\ outside' = outside \/ outside' \in Outsiders
  BY DEF Die, Stop, OutsideChanges, Sound, engineVars
<1>2. PICK some \in SUBSET Procs :
        /\ gone' = gone \cup some
        /\ DOMAIN proc' = DOMAIN proc
        /\ \A q \in Procs \ some : proc'[q] = proc[q]
        /\ \A q \in some : proc'[q] = Idle
  <2>1. CASE \E p \in Procs : Die(p)
    <3>1. PICK p \in Procs : gone' = gone \cup {p} /\ proc' = [proc EXCEPT ![p] = Idle]
      BY <2>1 DEF Die
    <3> WITNESS {p} \in SUBSET Procs
    <3> QED
      BY <3>1 DEF EngineInv, Shape
  <2>2. CASE ~\E p \in Procs : Die(p)
    <3>1. UNCHANGED <<gone, proc>>
      BY <2>2 DEF Stop, OutsideChanges, engineVars
    <3> WITNESS {} \in SUBSET Procs
    <3> QED
      BY <3>1
  <2> QED
    BY <2>1, <2>2
<1>3. \A q \in Procs : /\ ProcShape(proc'[q])
                       /\ proc'[q].pc # "idle" => q \notin some /\ proc'[q] = proc[q]
  BY <1>2 DEF EngineInv, Shape, ProcShape, Idle
<1>4. Shape'
  BY <1>1, <1>2, <1>3 DEF EngineInv, Shape, EngineAssumption
<1>5. Measures'
  BY <1>1, <1>3 DEF EngineInv, Measures, InWindow
<1>6. CapsAreHeld'
  <2> SUFFICES ASSUME NEW q \in Procs, proc'[q].pc = "holds"
               PROVE  /\ q \notin gone'
                      /\ \/ CapOf(proc'[q].ask) = None
                         \/ \E r \in rows : /\ r.pid = q /\ r.kind = "consumable"
                                            /\ r.amounts = CapOf(proc'[q].ask) /\ r.deadline >= now
    BY <1>1 DEF CapsAreHeld, None
  <2>1. q \notin some /\ proc'[q] = proc[q]
    BY <1>3
  <2> QED
    BY <1>2, <2>1 DEF EngineInv, CapsAreHeld
<1>7. SpentIsCharged'
  BY <1>1 DEF EngineInv, SpentIsCharged, Within
<1>8. HeldIsWithinSize' /\ CapIsAPromise'
  BY <1>1 DEF EngineInv, HeldIsWithinSize, CapIsAPromise, PromisesHold, Held, InWindow, Within
<1> QED
  BY <1>4, <1>5, <1>6, <1>7, <1>8 DEF EngineInv

\* The window moves on: what was spent leaves it, and no run outlives its wall.
LEMMA TickKeeps ==
  ASSUME EngineAssumption, EngineInv, Tick
  PROVE  EngineInv'
<1>1. /\ now' = now + 1
      /\ \A r \in rows : r.pid \notin gone /\ r.kind # "persistent" => r.deadline > now
      /\ spent' = Restrict(spent, {at \in DOMAIN spent : at + Window > now})
      /\ UNCHANGED <<rows, charges, outside, proc, gone, stopped, late, strained>>
  BY DEF Tick
<1>2. now \in Nat /\ Window \in Nat /\ ChargeShape(spent)
  BY DEF EngineAssumption, EngineInv, Shape
<1>3. /\ DOMAIN spent' \subseteq DOMAIN spent
      /\ \A at \in DOMAIN spent' : at \in Nat /\ at + Window >= now' /\ spent'[at] = spent[at]
  BY <1>1, <1>2 DEF Restrict, ChargeShape
<1>4. ChargeShape(spent')
  <2>1. IsFiniteSet(DOMAIN spent')
    BY <1>2, <1>3, FS_Subset DEF ChargeShape
  <2> QED
    BY <1>2, <1>3, <2>1 DEF ChargeShape
<1>5. Shape'
  BY <1>1, <1>2, <1>4 DEF EngineInv, Shape
<1>6. ASSUME NEW n \in Names
      PROVE  /\ InWindow(spent)[n] \in Nat /\ InWindow(spent)'[n] \in Nat
             /\ InWindow(spent)'[n] <= InWindow(spent)[n]
  <2> DEFINE in == {t \in DOMAIN spent : t + Window >= now}
             jn == {t \in DOMAIN spent' : t + Window >= now'}
  <2>1. \A at \in jn : at \in in /\ Within(spent'[at], spent[at])
    <3> SUFFICES ASSUME NEW at \in jn
                 PROVE  at \in in /\ Within(spent'[at], spent[at])
      OBVIOUS
    <3>1. at \in DOMAIN spent /\ at \in Nat /\ spent'[at] = spent[at] /\ spent[at] \in Vector
      BY <1>2, <1>3 DEF ChargeShape
    <3>2. at + Window >= now
      BY <1>1, <1>2, <3>1
    <3> QED
      BY <3>1, <3>2 DEF Within, Vector
  <2>2. in \subseteq DOMAIN spent /\ jn \subseteq DOMAIN spent'
    OBVIOUS
  <2> HIDE DEF in, jn
  <2>3. Total([at \in jn |-> spent'[at][n]]) <= Total([at \in in |-> spent[at][n]])
    BY <1>2, <1>4, <2>1, <2>2, LessIsSpent
  <2>4. /\ Total([at \in jn |-> spent'[at][n]]) \in Nat
        /\ Total([at \in in |-> spent[at][n]]) \in Nat
    BY <1>2, <1>4, <2>2, SpentIsNat
  <2> QED
    BY <2>3, <2>4 DEF in, jn, InWindow
<1>7. Measures'
  <2> SUFFICES ASSUME NEW q \in Procs, proc[q].pc = "measured", NEW n \in Names
               PROVE  /\ proc[q].measured[n] \in Nat /\ proc[q].measured[n] <= Size[n]
                      /\ q \notin late /\ KindOf[n] = "consumable" /\ proc[q].measured[n] > 0 =>
                           proc[q].measured[n] + InWindow(spent)'[n] <= Size[n]
    BY <1>1 DEF Measures
  <2>1. Size[n] \in Nat
    BY DEF EngineAssumption, Vector
  <2>2. /\ proc[q].measured[n] \in Nat /\ proc[q].measured[n] <= Size[n]
        /\ q \notin late /\ KindOf[n] = "consumable" /\ proc[q].measured[n] > 0 =>
             proc[q].measured[n] + InWindow(spent)[n] <= Size[n]
    BY DEF EngineInv, Measures
  <2> QED
    BY <1>6, <2>1, <2>2
<1>8. CapsAreHeld'
  <2> SUFFICES ASSUME NEW q \in Procs, proc[q].pc = "holds"
               PROVE  /\ q \notin gone
                      /\ \/ CapOf(proc[q].ask) = None
                         \/ \E r \in rows : /\ r.pid = q /\ r.kind = "consumable"
                                            /\ r.amounts = CapOf(proc[q].ask) /\ r.deadline >= now'
    BY <1>1 DEF CapsAreHeld, None
  <2>1. q \notin gone
    BY DEF EngineInv, CapsAreHeld
  <2>2. CASE CapOf(proc[q].ask) # None
    <3>1. PICK r \in rows : /\ r.pid = q /\ r.kind = "consumable" /\ r.amounts = CapOf(proc[q].ask)
      BY <2>2 DEF EngineInv, CapsAreHeld
    <3>2. r.deadline > now /\ r.deadline \in Nat
      BY <1>1, <2>1, <3>1 DEF EngineInv, Shape, RowShape
    <3>3. r.deadline >= now'
      BY <1>1, <1>2, <3>2
    <3> QED
      BY <2>1, <3>1, <3>3
  <2> QED
    BY <2>1, <2>2
<1>9. SpentIsCharged'
  <2> SUFFICES ASSUME NEW at \in DOMAIN spent'
               PROVE  /\ at + Window >= now'
                      /\ at \in DOMAIN charges /\ Within(spent'[at], charges[at])
    BY <1>1 DEF SpentIsCharged, Within
  <2> QED
    BY <1>3 DEF EngineInv, SpentIsCharged
<1>10. HeldIsWithinSize' /\ CapIsAPromise'
  BY <1>1, <1>5, <1>6, NoMoreIsPromised
<1> QED
  BY <1>5, <1>7, <1>8, <1>9, <1>10 DEF EngineInv

\* Every step keeps the invariant.
LEMMA EngineSteps == EngineAssumption /\ EngineInv /\ [EngineNext]_engineVars => EngineInv'
<1> SUFFICES ASSUME EngineAssumption, EngineInv, [EngineNext]_engineVars
             PROVE  EngineInv'
  OBVIOUS
<1>1. ASSUME NEW p \in Procs, Reap(p) PROVE EngineInv'
  BY <1>1, ReapKeeps
<1>2. ASSUME NEW p \in Procs, Measure(p) PROVE EngineInv'
  BY <1>2, MeasureKeeps
<1>3. ASSUME NEW p \in Procs, Hold(p) PROVE EngineInv'
  BY <1>3, HoldKeeps
<1>4. ASSUME NEW p \in Procs, Charge(p) PROVE EngineInv'
  BY <1>4, ChargeKeeps
<1>5. ASSUME (\E p \in Procs : Die(p) \/ Stop(p)) \/ OutsideChanges \/ UNCHANGED engineVars PROVE EngineInv'
  BY <1>5, OthersKeep
<1>6. ASSUME Tick PROVE EngineInv'
  BY <1>6, TickKeeps
<1> QED
  BY <1>1, <1>2, <1>3, <1>4, <1>5, <1>6 DEF EngineNext

\* The invariant holds in every reachable state.
LEMMA EngineInvHolds ==
  ASSUME EngineAssumption
  PROVE  EngineSpec => []EngineInv
<1>1. EngineInit => EngineInv
  BY EngineBegins
<1>2. EngineInv /\ [EngineNext]_engineVars => EngineInv'
  BY EngineSteps
<1> QED
  BY <1>1, <1>2, PTL DEF EngineSpec

-----------------------------------------------------------------------------
\* engine.py:8-9: what is held of a name never passes what its scope has of it,
\* whatever was measured before the transaction that admitted each claim.
THEOREM HeldStaysWithinSize ==
  ASSUME EngineAssumption
  PROVE  EngineSpec => []HeldIsWithinSize
<1>1. EngineInv => HeldIsWithinSize
  BY DEF EngineInv
<1> QED
  BY <1>1, EngineInvHolds, PTL

\* engine.py:9: a held cap is a promise: what is held and what ended runs spent in
\* the window never pass the cap, unless a claim was admitted on a measure taken
\* before another's charge.
THEOREM CapsArePromises ==
  ASSUME EngineAssumption
  PROVE  EngineSpec => []CapIsAPromise
<1>1. EngineInv => CapIsAPromise
  BY DEF EngineInv
<1> QED
  BY <1>1, EngineInvHolds, PTL

\* engine.py:8-9: both, so that what the engine holds, and what it charged, fit the scope.
THEOREM ClaimsStayFit ==
  ASSUME EngineAssumption
  PROVE  EngineSpec => []ClaimsFit
<1>1. HeldIsWithinSize /\ CapIsAPromise => ClaimsFit
  BY DEF ClaimsFit
<1> QED
  BY <1>1, HeldStaysWithinSize, CapsArePromises, PTL
=============================================================================
