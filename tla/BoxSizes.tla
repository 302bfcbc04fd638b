------------------------------- MODULE BoxSizes -------------------------------
(***************************************************************************)
(* How large a box is and what it lends: the machine file (machine.py),    *)
(* the capacity read from it (demand.py), the kinds of names and the       *)
(* claims made of them (resources/model.py), and the providers that        *)
(* measure it for the ledger and for the engine (providers.py).  The room  *)
(* on one reading is BoxSupply's, whose units are quarters of a core and   *)
(* tenths of a GB here.                                                    *)
(***************************************************************************)
EXTENDS Integers, FiniteSets, FiniteSetsExt, Functions, TLC

CONSTANTS
  Pids, Anyone,  \* who may hold or ask, and asker = None
  Tools, Slots,  \* the [capabilities] names, and the names that consumers lend
  Checks,        \* the tools that the family can find (CHECKS)
  MaxUnits       \* bound: the most units of one name

Amounts == {"cpu", "mem"}
Names == Amounts \cup Tools \cup Slots
Core == 4

-----------------------------------------------------------------------------
(* A vector has an amount, maybe 0, of every name.                         *)

Nothing == [n \in Names |-> 0]
Plus(a, b) == [n \in Names |-> a[n] + b[n]]
\* Mutant: what is left may be a debt.
MinusOwing(a, b) == [n \in Names |-> a[n] - b[n]]
Minus(a, b) == [n \in Names |-> Max({0, a[n] - b[n]})]
ShortOf(a, b) == {n \in Names : a[n] > b[n]}
Total(vectors) == [n \in Names |-> MapThenSumSet(LAMBDA i : vectors[i][n], DOMAIN vectors)]

\* Supply: what is counted is present.
SupplyOk(supply) == {n \in Names : supply.amounts[n] > 0} \subseteq supply.present

\* admit()
Admit(needs, want, supply, running) ==
  needs \subseteq supply.present /\ ShortOf(want, Minus(supply.amounts, Total(running))) = {}

-----------------------------------------------------------------------------
(* The machine file: [cores, mem, reserve, tools].  A margin is [cpu,      *)
(* share: quarters of the cores, mem: tenths of the memory]; a tool is     *)
(* [seats, probe: its count or one of the two below, observed].            *)

NoProbe == -1
CannotSay == -2
DefaultReserve == [cpu |-> Core, share |-> 1, mem |-> 1]

\* reserve_table(), provided(): what is refused by name.
ReserveOk(r) == r.cpu >= 0 /\ r.share \in 0 .. 4 /\ r.mem \in 0 .. 10
ToolsOk(tools) == \A n \in DOMAIN tools : tools[n].seats >= 1
WatchedTools(tools) == {n \in DOMAIN tools : tools[n].observed}

\* Mutant: a whole core, whatever the cores.
OwnReserveWhole(machine) ==
  [d \in Amounts |-> IF d = "cpu" THEN Min({machine.reserve.cpu, machine.cores}) ELSE (machine.mem * machine.reserve.mem) \div 10]

\* own_reserve()
OwnReserve(machine) ==
  [d \in Amounts |->
     IF d = "cpu" THEN Min({machine.reserve.cpu, (machine.reserve.share * machine.cores) \div 4, machine.cores})
     ELSE Min({(machine.mem * machine.reserve.mem) \div 10, machine.mem})]

\* seat_sizes(): a probe that cannot say leaves the size that is declared, and blinds its tool.
SeatSize(facts) == IF facts.probe >= 0 THEN facts.probe ELSE facts.seats
Blind(tools) == {n \in DOMAIN tools : tools[n].probe = CannotSay}

\* Capacity.read(): size has the amounts and the seats of the machine file, kept the margins.
Capacity(machine) ==
  [size |-> [d \in Amounts |-> (IF d = "cpu" THEN machine.cores ELSE machine.mem) - OwnReserve(machine)[d]]
              @@ [n \in DOMAIN machine.tools |-> SeatSize(machine.tools[n])],
   kept |-> OwnReserve(machine), watched |-> WatchedTools(machine.tools), blind |-> Blind(machine.tools)]

\* Capacity.lent(): the counts of a consumer's own table.
LentOk(counts) == DOMAIN counts \subseteq Slots /\ \A n \in DOMAIN counts : counts[n] >= 1
LentAlone(counts) ==
  [size |-> [d \in Amounts |-> 0] @@ counts, kept |-> [d \in Amounts |-> 0], watched |-> {}, blind |-> {}]

-----------------------------------------------------------------------------
(* Demands and claims.                                                     *)

\* checked(): cores are whole and come with memory, and something is booked.
DemandOk(want) ==
  want.cpu % Core = 0 /\ (want.cpu > 0 => want.mem > 0) /\ \E n \in Names : want[n] > 0

\* KINDS, kind_of(): a name that nothing declares, finds or lends has no kind.
Consumable == {"tokens", "core_h", "forge_requests", "submits", "wall_h", "money"}
Persistent == {"disk_gb", "files", "venvs", "worktrees"}
KindOf(name, declared) ==
  CASE name \in Consumable -> "consumable"
    [] name \in Persistent -> "persistent"
    [] name \in Amounts \cup {"os"} \cup Slots \cup Checks \cup declared -> "occupancy"
    [] OTHER -> "none"
\* Claim: something is booked, of names that have a kind.
ClaimOk(want, declared) ==
  (\E n \in Names : want[n] > 0) /\ \A n \in Names : want[n] > 0 => KindOf(n, declared) # "none"

-----------------------------------------------------------------------------
(* What is measured.  Rows and readings are BoxSupply's.                   *)

\* A seat that nobody declared counts one.
Sized(capacity) == [n \in Names |-> IF n \in DOMAIN capacity.size THEN capacity.size[n] ELSE 1]
Box(capacity) == INSTANCE BoxSupply WITH
  Pid <- Pids, NoPid <- Anyone, Share <- Amounts, Seat <- Tools \cup Slots,
  Watched <- capacity.watched, Size <- Sized(capacity), Reserve <- capacity.kept

Held(rows) == [n \in Names |-> MapThenSumSet(LAMBDA i : rows[i].need[n], DOMAIN rows)]
Unseen == [n \in {} |-> 0]
\* Mutant: a tool that cannot be counted lends what is declared of it.
FreeUnseeing(capacity, rows, reading, asker, n) == Box(capacity)!Room(rows, reading, asker, n)
Free(capacity, rows, reading, asker, n) ==
  IF n \in capacity.blind THEN 0 ELSE Box(capacity)!Room(rows, reading, asker, n)

\* inventory(), _seats(): with a reading of presence, a checked tool that it misses is absent.
NotRead == {"not read"}
Found(names, presence) ==
  IF presence = NotRead THEN names ELSE {n \in names : n \in Checks => n \in presence}

\* _seats(), _os(): what is free and what is held of some names.
Counted(capacity, rows, reading, asker, names) ==
  [n \in Names |-> IF n \in names THEN Free(capacity, rows, reading, asker, n) + Held(rows)[n] ELSE 0]

\* measured(), for the ledger.
Measured(capacity, rows, reading, names, asker, presence) ==
  LET found == Found((DOMAIN capacity.size \ Amounts) \cup names, presence)
  IN  [amounts |-> Counted(capacity, rows, reading, asker, Amounts \cup found), present |-> found \cup Amounts \cup {"os"}]

\* size()
Whole(capacity, names) ==
  [amounts |-> [n \in Names |-> IF n \in Amounts \cup names THEN Sized(capacity)[n] ELSE 0], present |-> names \cup Amounts]

\* BoxOS, ToolSeats and Lent: the names of each, and what each measures of them.
BoxOS(capacity, rows, reading) ==
  [names |-> Amounts, present |-> Amounts \cup {"os"}, amounts |-> Counted(capacity, rows, reading, Anyone, Amounts)]
ToolSeats(capacity, rows, reading, presence) ==
  LET names == (DOMAIN capacity.size \ Amounts) \cup Checks
      found == Found(names, presence)
  IN  [names |-> names, present |-> found, amounts |-> Counted(capacity, rows, reading, Anyone, found)]
Lent(counts) ==
  [names |-> DOMAIN counts, present |-> DOMAIN counts, amounts |-> [n \in Names |-> IF n \in DOMAIN counts THEN counts[n] ELSE 0]]

\* box_engine(), supply(): each provider is counted on its own names.
BoxEngine(capacity, rows, reading, presence, counts) ==
  <<BoxOS(capacity, rows, reading), ToolSeats(capacity, rows, reading, presence), Lent(counts)>>
EngineOk(plugs) == \A i, j \in DOMAIN plugs : i # j => plugs[i].names \cap plugs[j].names = {}
EngineSupply(plugs) ==
  [amounts |-> Total([i \in DOMAIN plugs |-> [n \in Names |-> IF n \in plugs[i].names THEN plugs[i].amounts[n] ELSE 0]]),
   present |-> UNION {plugs[i].present : i \in DOMAIN plugs}]

-----------------------------------------------------------------------------
(* What they promise.  A demand's seats are what it needs to be present.   *)

SeatsIn(want) == {n \in Tools \cup Slots : want[n] > 0}
Running(rows) == [i \in DOMAIN rows |-> rows[i].need]
LedgerAdmits(capacity, rows, reading, want, asker, presence) ==
  Admit(SeatsIn(want), want, Measured(capacity, rows, reading, SeatsIn(want), asker, presence), Running(rows))

\* providers.py:56-60, supply.py: what cannot be counted is not lent: nothing is admitted of a tool
\* whose probe cannot say, that is watched for and was not seen, or that its check missed.
WhatIsUnknownIsNotLent(capacity, rows, reading, want, presence) ==
  LedgerAdmits(capacity, rows, reading, want, Anyone, presence) =>
    \A n \in SeatsIn(want) : /\ n \notin capacity.blind
                             /\ n \in capacity.watched => n \in DOMAIN reading.seen
                             /\ presence # NotRead /\ n \in Checks => n \in presence

\* machine.py:37-38: with the margins it has by default a box of two cores lends one while its
\* system uses half a core; and what an idle box refuses is what its size refuses, so that
\* nobody waits for what can never come.
IdleBoxLends(machine, want) ==
  LET capacity == Capacity(machine)
      idle(n)  == [idle |-> [d \in Amounts |-> IF d = "cpu" THEN machine.cores - n ELSE machine.mem],
                   usage |-> [p \in Pids |-> [d \in Amounts |-> 0]], seen |-> [t \in capacity.watched |-> 0]]
      admits(n, w) == LedgerAdmits(capacity, [i \in {} |-> 0], idle(n), w, Anyone, NotRead)
  IN  /\ machine.cores >= 2 * Core /\ machine.reserve = DefaultReserve =>
           admits(Core \div 2, [Nothing EXCEPT !.cpu = Core, !.mem = 1])
      /\ SeatsIn(want) \cap capacity.blind = {} =>
           (admits(0, want) <=> Admit(SeatsIn(want), want, Whole(capacity, SeatsIn(want)), <<>>))

\* providers.py:18-20, engine.py:27-29: the ledger and the engine decide by one arithmetic: of what is
\* present the engine admits what the ledger would, of a lent slot what the ledger of its
\* lender would, and a supply counts only what it has, all of which returns when its run ends.
OneRuleOnOneBox(capacity, rows, reading, want, presence, counts) ==
  \E supply \in {EngineSupply(BoxEngine(capacity, rows, reading, presence, counts))} :
    LET slots == DOMAIN counts \cap SeatsIn(want)
        ours  == [n \in Names |-> IF n \in Slots THEN 0 ELSE want[n]]
        theirs == [n \in Names |-> IF n \in Slots THEN want[n] ELSE 0]
    IN  /\ EngineOk(BoxEngine(capacity, rows, reading, presence, counts)) /\ SupplyOk(supply)
        /\ \A n \in supply.present : KindOf(n, DOMAIN capacity.size) = "occupancy"
        /\ ClaimOk(want, DOMAIN capacity.size) /\ slots = SeatsIn(want) \cap Slots =>
             (Admit(SeatsIn(want), want, supply, Running(rows)) <=>
                /\ LedgerAdmits(capacity, rows, reading, ours, Anyone, presence)
                /\ LedgerAdmits(LentAlone(counts), rows, reading, theirs, Anyone, NotRead))
=============================================================================
