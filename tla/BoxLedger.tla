------------------------------ MODULE BoxLedger ------------------------------
(***************************************************************************)
(* The one ledger of running claims on a machine: box/ledger.py, with the  *)
(* store it decides in (box/_store.py), the identity test of its holders   *)
(* (liveness.py) and the run a claim contains (box/run.py, box/_linux.py,  *)
(* box/_win.py).                                                           *)
(*                                                                         *)
(* Every process that uses the ledger runs the same code, so a step is one *)
(* BEGIN IMMEDIATE transaction of one process, or what that process does   *)
(* between two of them.  What a process read before the lock (the OS       *)
(* reading, the set of external jobs its probes found dead) is kept in its *)
(* call record and may be stale when the transaction uses it.              *)
(***************************************************************************)
EXTENDS BoxOrder

CONSTANTS
  Vendors,           \* pids of vendor processes: they hold claims, never ask
  Mortal,            \* pids that may crash
  Reapers,           \* pids that call reap() themselves
  Unreadable,        \* pids whose creation stamp this box cannot read
  Keys,              \* what the caller names its run
  DeclaredKey,       \* the key of a person's declared use
  Asks,              \* the demands callers make
  DeclaredAsks,      \* the demands persons declare
  Walls, Queues,     \* wall_s and queue_s of the calls
  Kinds,             \* which of the calls are made
  Foreign,           \* what may be in use outside the ledger, per share
  ForeignSeats,      \* how many watched seats a person may use undeclared
  Grace,             \* GRACE_S
  KillLag,           \* how late the enforcer's kill at the wall may land
  DiesWithLauncher,  \* a contained run dies with its launcher (job object)
  ProbeMayFail,      \* a liveness probe may fail to start (OSError)
  MaxNest,           \* bound: bodies one process is inside of at once
  MaxTime, MaxClaims, MaxTickets, MaxStamp  \* bounds: horizon, ids, reboots

VARIABLES
  now,        \* the wall clock
  alive,      \* the pids in the process table
  inc,        \* the creation stamp of the process that wears a pid now
  claims,     \* the claims table
  tickets,    \* the tickets table
  claimSeq, ticketSeq,  \* their AUTOINCREMENT counters
  call,       \* the ledger call each process is in
  bodies,     \* the claims whose with-body each process is inside
  programs,   \* contained runs: claim id -> the moment of the wall kill
  offered,    \* taken claims whose run is not started: id -> the run's wall
  adopted,    \* claims a run adopted: released, not exited
  job         \* the vendor job of an external claim

vars == <<now, alive, inc, claims, tickets, claimSeq, ticketSeq, call, bodies,
          programs, offered, adopted, job>>
world == <<now, alive, inc>>
ledger == <<claims, tickets, claimSeq, ticketSeq>>
runs == <<bodies, programs, offered, adopted, job>>

ClaimId == 1 .. MaxClaims
TicketId == 1 .. MaxTickets
NoStamp == 0
Stamp == 0 .. MaxStamp
Time == Nat
CallKinds == {"hold", "run", "take", "external"}
Probes == {"none", "empty", "job"}

Row == [pid : Pid, born : Stamp, need : Need, deadline : Time,
        key : Keys \cup {DeclaredKey}, kept : BOOLEAN, probe : Probes]

Ticket == [pid : Pid, born : Stamp, need : Need, givesUp : Time]

Steps == {"idle", "look", "try", "wait", "leave", "won", "submit", "adopt", "reap"}

Call == [pc : Steps, kind : CallKinds, need : Need, wall : Nat,
         key : Keys \cup {DeclaredKey}, ticket : 0 .. MaxTickets, givesUp : Time,
         reading : Reading, dead : SUBSET ClaimId, id : 0 .. MaxClaims]

Nothing == [r \in Resource |-> 0]

Idle == [pc |-> "idle", kind |-> "hold", need |-> Nothing, wall |-> 0,
         key |-> DeclaredKey, ticket |-> 0, givesUp |-> 0, reading |-> NoShare,
         dead |-> {}, id |-> 0]

ASSUME LedgerAssumption ==
  /\ Vendors \subseteq Pid /\ Mortal \subseteq Pid /\ Reapers \subseteq Pid
  /\ Unreadable \subseteq Pid
  /\ DeclaredKey \notin Keys
  /\ Asks \subseteq Need /\ DeclaredAsks \subseteq Need
  /\ Walls \subseteq Nat \ {0} /\ Queues \subseteq Nat
  /\ Kinds \subseteq CallKinds
  /\ Foreign \subseteq [Share -> Nat] /\ ForeignSeats \in Nat
  /\ Grace \in Nat /\ KillLag \in 0 .. Grace
  /\ DiesWithLauncher \in BOOLEAN /\ ProbeMayFail \in BOOLEAN
  /\ MaxNest \in Nat /\ MaxTime \in Nat /\ MaxClaims \in Nat
  /\ MaxTickets \in Nat /\ MaxStamp \in Nat \ {0}

Init ==
  /\ now = 0
  /\ alive = Pid
  /\ inc = [p \in Pid |-> 1]
  /\ claims = [i \in {} |-> Nothing]
  /\ tickets = [t \in {} |-> Nothing]
  /\ claimSeq = 0 /\ ticketSeq = 0
  /\ call = [p \in Pid |-> Idle]
  /\ bodies = [p \in Pid |-> {}]
  /\ programs = [i \in {} |-> 0]
  /\ offered = [i \in {} |-> 0]
  /\ adopted = {}
  /\ job = [i \in ClaimId |-> "none"]

-----------------------------------------------------------------------------
\* Who a row belongs to, and what a reaper does with it.

\* Mutant: the moment of the write instead of the process's creation.
StampOfWrite(p) == IF p \in Unreadable THEN NoStamp ELSE now

StampOf(p) == IF p \in Unreadable THEN NoStamp ELSE inc[p]

\* Mutant: a recycled pid passes for the process.
SamePid(row) == row.pid \in alive

\* The pid is in the process table and nothing disproves it is the process
\* the row was written for.
SameProcess(row) ==
  /\ row.pid \in alive
  /\ row.born = NoStamp \/ row.pid \in Unreadable \/ row.born = inc[row.pid]

\* Mutants: no grace after the deadline, no last moment for a ticket.
ExpiredAtOnce(row) == row.deadline < now
Expired(row) == row.deadline + Grace < now
GivenUp(ticket) == ticket.givesUp < now

\* Mutants: no identity test; no probe asked.
ReapableByTime(i, dead) == Expired(claims[i])
ReapableUnprobed(i, dead) == Expired(claims[i]) \/ ~SameProcess(claims[i])

Reapable(i, dead) ==
  \/ Expired(claims[i])
  \/ ~SameProcess(claims[i]) /\ (claims[i].probe = "none" \/ i \in dead)

\* Mutant: a kept claim gets no grace.
ClaimsLeftUnkept(dead) ==
  Restrict(claims, {i \in DOMAIN claims :
                      ~Reapable(i, dead) /\ (claims[i].kept => claims[i].deadline >= now)})

ClaimsLeft(dead) == Restrict(claims, {i \in DOMAIN claims : ~Reapable(i, dead)})

TicketsLeft ==
  Restrict(tickets, {t \in DOMAIN tickets :
                       ~GivenUp(tickets[t]) /\ SameProcess(tickets[t])})

\* What asking every orphaned external claim's probe, outside the lock, may
\* find dead: each whose job is gone, and, where a probe may fail to start, any
\* other whose probe is a command.
DeadExternals ==
  LET asked == {i \in DOMAIN claims :
                  /\ claims[i].probe = "job"
                  /\ ~Expired(claims[i]) /\ ~SameProcess(claims[i])}
      gone  == {i \in asked : job[i] # "running"}
  IN  {D \in SUBSET asked : gone \subseteq D /\ (ProbeMayFail \/ D = gone)}

\* What the trees of the holders may use now: at most what their claims declare.
Usages ==
  LET of(p) == Restrict(claims, {i \in DOMAIN claims : claims[i].pid = p})
  IN  {u \in [Pid -> [Share -> 0 .. MaxUnits]] :
         \A p \in Pid, d \in Share : u[p][d] <= Cardinality(Declared(of(p), d))}

\* The sample when the trees use u, the rest of the machine f, and persons n
\* of every watched seat beside the runs.
Sample(u, f, n) ==
  LET used(d) == Cardinality({x \in Pid \X Unit : x[2] <= u[x[1]][d]})
      running == Restrict(claims, DOMAIN claims \cap DOMAIN programs)
  IN  [idle  |-> [d \in Share |-> AtLeast0(Size[d] + Reserve[d] - f[d] - used(d))],
       usage |-> u,
       seen  |-> [s \in Watched |-> Cardinality(Declared(running, s)) + n]]

Readings == {Sample(u, f, n) : u \in Usages, f \in Foreign, n \in 0 .. ForeignSeats}

-----------------------------------------------------------------------------
\* A call: hold, run, take and external share the wait.

AtRest(p) == p \in alive \ Vendors /\ call[p].pc = "idle"

\* A launcher of a contained run waits in contain() and calls nothing.
Free(p) == AtRest(p) /\ bodies[p] \cap DOMAIN programs = {}

\* Callers that may still write a claim: they share the bound on claim ids.
Asking == {p \in Pid : call[p].pc \in {"look", "try", "wait", "leave"}}

\* hold() up to its ticket.  A demand larger than the box is refused at once.
Ask(p, kind, need, wall, queue, key) ==
  /\ Free(p)
  /\ Cardinality(bodies[p]) < MaxNest
  /\ ~NeverFits(need)
  /\ kind = "run" => \A d \in Share : need[d] > 0
  /\ kind = "take" => queue = 0
  /\ now + queue <= MaxTime
  /\ ticketSeq < MaxTickets /\ claimSeq + Cardinality(Asking) < MaxClaims
  /\ ticketSeq' = ticketSeq + 1
  /\ tickets' = [t \in DOMAIN tickets \cup {ticketSeq + 1} |->
                   IF t = ticketSeq + 1
                   THEN [pid |-> p, born |-> StampOf(p), need |-> need,
                         givesUp |-> now + queue]
                   ELSE tickets[t]]
  /\ call' = [call EXCEPT ![p] =
                [Idle EXCEPT !.pc = "look", !.kind = kind, !.need = need,
                             !.wall = wall, !.key = key, !.ticket = ticketSeq + 1,
                             !.givesUp = now + queue]]
  /\ UNCHANGED <<world, claims, claimSeq, runs>>

\* Before the lock: sample the OS (not for a seats-only demand) and ask the
\* probes of the external claims whose client is gone.
Look(p) ==
  /\ p \in alive /\ call[p].pc = "look"
  /\ \E r \in IF TakesNoShare(call[p].need) THEN {NoShare} ELSE Readings,
        D \in DeadExternals :
       call' = [call EXCEPT ![p].pc = "try", ![p].reading = r, ![p].dead = D]
  /\ UNCHANGED <<world, ledger, runs>>

Trying(p) == p \in alive /\ call[p].pc = "try"

\* A persisted claim under the key lives.
Duplicate(rows, key) ==
  \E i \in DOMAIN rows : rows[i].key = key /\ rows[i].probe # "none"

Holder(rows, p) == \E i \in DOMAIN rows : rows[i].pid = p

NewClaim(p) ==
  [pid |-> p, born |-> StampOf(p), need |-> call[p].need,
   deadline |-> now + call[p].wall, key |-> call[p].key, kept |-> FALSE,
   probe |-> "none"]

\* An earlier ticket orders the caller behind it; a claim holder is never
\* ordered behind a waiter.
Behind(p, rows, waiting) ==
  /\ ~Holder(rows, p)
  /\ \E t \in DOMAIN waiting :
       t < call[p].ticket /\ Blocks(waiting[t].need, NewClaim(p), rows,
                                    call[p].reading, now)

Admissible(p, rows) ==
  /\ Fits(rows, call[p].reading, p, call[p].need)
  /\ ~Behind(p, rows, TicketsLeft)

\* _try raises DuplicateKey: the transaction, its reaping too, is rolled back.
RefuseDuplicate(p) ==
  /\ Trying(p)
  /\ Duplicate(ClaimsLeft(call[p].dead), call[p].key)
  /\ call' = [call EXCEPT ![p].pc = "leave"]
  /\ UNCHANGED <<world, ledger, runs>>

Refuse(p) ==
  LET rows == ClaimsLeft(call[p].dead)
  IN  /\ Trying(p)
      /\ ~Duplicate(rows, call[p].key)
      /\ ~Admissible(p, rows)
      /\ claims' = rows
      /\ tickets' = TicketsLeft
      /\ call' = [call EXCEPT ![p].pc = "wait", ![p].reading = NoShare, ![p].dead = {}]
      /\ UNCHANGED <<world, claimSeq, ticketSeq, runs>>

\* (Ask leaves every caller an id, so the bound never disables it.)
Admit(p) ==
  LET rows == ClaimsLeft(call[p].dead)
      new  == claimSeq + 1
  IN  /\ Trying(p) /\ claimSeq < MaxClaims
      /\ ~Duplicate(rows, call[p].key)
      /\ Admissible(p, rows)
      /\ claims' = [i \in DOMAIN rows \cup {new} |->
                      IF i = new THEN NewClaim(p) ELSE rows[i]]
      /\ claimSeq' = new
      /\ tickets' = Restrict(TicketsLeft, DOMAIN TicketsLeft \ {call[p].ticket})
      /\ call' = [call EXCEPT ![p] = [Idle EXCEPT !.pc = "won", !.kind = call[p].kind,
                                                 !.wall = call[p].wall, !.id = new]]
      /\ UNCHANGED <<world, ticketSeq, runs>>

\* Mutant: the limit is never looked at.
RetryForEver(p) ==
  /\ p \in alive /\ call[p].pc = "wait"
  /\ call' = [call EXCEPT ![p].pc = "look"]
  /\ UNCHANGED <<world, ledger, runs>>

\* The wait: another look unless the queue limit ran out.
Retry(p) ==
  /\ p \in alive /\ call[p].pc = "wait"
  /\ call' = [call EXCEPT ![p].pc = IF call[p].givesUp <= now THEN "leave" ELSE "look"]
  /\ UNCHANGED <<world, ledger, runs>>

\* The finally of hold(): the ticket goes, the caller sees the refusal.
Leave(p) ==
  /\ p \in alive /\ call[p].pc = "leave"
  /\ tickets' = Restrict(tickets, DOMAIN tickets \ {call[p].ticket})
  /\ call' = [call EXCEPT ![p] = Idle]
  /\ UNCHANGED <<world, claims, claimSeq, ticketSeq, runs>>

-----------------------------------------------------------------------------
\* What an admitted caller does with its claim.

Won(p, kind) == p \in alive /\ call[p].pc = "won" /\ call[p].kind = kind

\* UPDATE claims SET ... WHERE id = i: nothing when the row is gone.
Updated(i, row) == [j \in DOMAIN claims |-> IF j = i THEN row ELSE claims[j]]
Deleted(i) == Restrict(claims, DOMAIN claims \ {i})
Without(f, S) == Restrict(f, DOMAIN f \ S)
With(f, i, v) == [j \in DOMAIN f \cup {i} |-> IF j = i THEN v ELSE f[j]]

\* with hold(): the caller's own code is the body, no wall is enforced on it.
EnterHold(p) ==
  /\ Won(p, "hold")
  /\ bodies' = [bodies EXCEPT ![p] = @ \cup {call[p].id}]
  /\ call' = [call EXCEPT ![p] = Idle]
  /\ UNCHANGED <<world, ledger, programs, offered, adopted, job>>

\* box.run: the body is a contained program, killed at its own start + wall_s.
EnterRun(p) ==
  /\ Won(p, "run")
  /\ bodies' = [bodies EXCEPT ![p] = @ \cup {call[p].id}]
  /\ programs' = With(programs, call[p].id, now + call[p].wall)
  /\ call' = [call EXCEPT ![p] = Idle]
  /\ UNCHANGED <<world, ledger, offered, adopted, job>>

\* take(): kept for the run that adopts it; the delete on exit then spares it.
Keep(p) ==
  LET i == call[p].id
  IN  /\ Won(p, "take")
      /\ claims' = Updated(i, [claims[i] EXCEPT !.kept = TRUE])
      /\ offered' = With(offered, i, call[p].wall)
      /\ call' = [call EXCEPT ![p] = Idle]
      /\ UNCHANGED <<world, tickets, claimSeq, ticketSeq, bodies, programs, adopted, job>>

\* external(): persisted with its probe in a transaction of its own.
Persist(p) ==
  LET i == call[p].id
  IN  /\ Won(p, "external")
      /\ claims' = Updated(i, [claims[i] EXCEPT !.kept = TRUE, !.probe = "job"])
      /\ call' = [call EXCEPT ![p].pc = "submit"]
      /\ UNCHANGED <<world, tickets, claimSeq, ticketSeq, runs>>

\* The caller of external() hands the job to the vendor's scheduler.
Submit(p) ==
  /\ p \in alive /\ call[p].pc = "submit"
  /\ job' = [job EXCEPT ![call[p].id] = "running"]
  /\ call' = [call EXCEPT ![p] = Idle]
  /\ UNCHANGED <<world, ledger, bodies, programs, offered, adopted>>

\* The body ends, the innermost first: an adopted claim is released, any other
\* is deleted unless it was kept.  A contained program is gone by then.
Exit(p, i) ==
  /\ AtRest(p) /\ i \in bodies[p] /\ \A j \in bodies[p] : j <= i
  /\ bodies' = [bodies EXCEPT ![p] = @ \ {i}]
  /\ programs' = Without(programs, {i})
  /\ claims' = IF i \in DOMAIN claims /\ (i \in adopted \/ ~claims[i].kept)
               THEN Deleted(i) ELSE claims
  /\ adopted' = adopted \ {i}
  /\ UNCHANGED <<world, tickets, claimSeq, ticketSeq, call, offered, job>>

\* Mutant: the row moves but is still the client's to delete.
MovedUnkept(i, p) ==
  Updated(i, [claims[i] EXCEPT !.pid = p, !.born = StampOf(p)])

\* hand_over(): a vendor process becomes the holder of a claim.
MovedTo(i, p) ==
  Updated(i, [claims[i] EXCEPT !.pid = p, !.born = StampOf(p), !.kept = TRUE])

HandOver(p, v, i) ==
  /\ Free(p) /\ v \in alive \cap Vendors
  /\ i \in bodies[p] \ DOMAIN programs
  /\ claims' = MovedTo(i, v)
  /\ UNCHANGED <<world, tickets, claimSeq, ticketSeq, call, runs>>

\* adopted(), first the look ...
CheckOffer(p, i) ==
  /\ Free(p) /\ bodies[p] = {} /\ i \in DOMAIN offered
  /\ offered' = Without(offered, {i})
  /\ call' = IF i \in DOMAIN claims
             THEN [call EXCEPT ![p] = [Idle EXCEPT !.pc = "adopt", !.id = i,
                                                  !.wall = offered[i]]]
             ELSE call
  /\ UNCHANGED <<world, ledger, bodies, programs, adopted, job>>

\* ... then the row moves to the run, in a transaction of its own.
Adopt(p) ==
  LET i == call[p].id
  IN  /\ p \in alive /\ call[p].pc = "adopt"
      /\ claims' = MovedTo(i, p)
      /\ bodies' = [bodies EXCEPT ![p] = @ \cup {i}]
      /\ programs' = With(programs, i, now + call[p].wall)
      /\ adopted' = adopted \cup {i}
      /\ call' = [call EXCEPT ![p] = Idle]
      /\ UNCHANGED <<world, tickets, claimSeq, ticketSeq, offered, job>>

\* declare(): a person's use is recorded, not admitted.
Declare(p, need, wall) ==
  /\ Free(p) /\ claimSeq + Cardinality(Asking) < MaxClaims
  /\ claims' = With(claims, claimSeq + 1,
                    [pid |-> p, born |-> StampOf(p), need |-> need,
                     deadline |-> now + wall, key |-> DeclaredKey, kept |-> TRUE,
                     probe |-> "empty"])
  /\ claimSeq' = claimSeq + 1
  /\ UNCHANGED <<world, tickets, ticketSeq, call, runs>>

\* release(): by any process for an ended job or a declared use, by the taker
\* for a claim it starts no run on.
Release(p, i) ==
  /\ Free(p) /\ i \in DOMAIN claims
  /\ \/ claims[i].key = DeclaredKey
     \/ job[i] = "ended"
     \/ i \in DOMAIN offered /\ claims[i].pid = p
  /\ claims' = Deleted(i)
  /\ offered' = Without(offered, {i})
  /\ UNCHANGED <<world, tickets, claimSeq, ticketSeq, call, bodies, programs, adopted, job>>

\* reap(): the probes first, the transaction after.
StartReap(p) ==
  /\ Free(p) /\ p \in Reapers
  /\ \E D \in DeadExternals :
       call' = [call EXCEPT ![p] = [Idle EXCEPT !.pc = "reap", !.dead = D]]
  /\ UNCHANGED <<world, ledger, runs>>

Reap(p) ==
  /\ p \in alive /\ call[p].pc = "reap"
  /\ claims' = ClaimsLeft(call[p].dead)
  /\ tickets' = TicketsLeft
  /\ call' = [call EXCEPT ![p] = Idle]
  /\ UNCHANGED <<world, claimSeq, ticketSeq, runs>>

-----------------------------------------------------------------------------
\* The environment.

\* A job object kills the run with its launcher; a systemd scope does not.
Crash(p) ==
  /\ p \in alive \cap Mortal
  /\ alive' = alive \ {p}
  /\ call' = [call EXCEPT ![p] = Idle]
  /\ bodies' = [bodies EXCEPT ![p] = {}]
  /\ programs' = IF DiesWithLauncher THEN Without(programs, bodies[p]) ELSE programs
  /\ UNCHANGED <<now, inc, ledger, offered, adopted, job>>

\* Another process gets the pid.
Recycle(p) ==
  /\ p \notin alive /\ inc[p] < MaxStamp
  /\ alive' = alive \cup {p}
  /\ inc' = [inc EXCEPT ![p] = @ + 1]
  /\ UNCHANGED <<now, ledger, call, runs>>

\* A run whose launcher is gone ends by itself.
OrphanEnds(i) ==
  /\ i \in DOMAIN programs /\ \A p \in Pid : i \notin bodies[p]
  /\ programs' = Without(programs, {i})
  /\ UNCHANGED <<world, ledger, call, bodies, offered, adopted, job>>

JobEnds(i) ==
  /\ job[i] = "running"
  /\ job' = [job EXCEPT ![i] = "ended"]
  /\ UNCHANGED <<world, ledger, call, bodies, programs, offered, adopted>>

\* A unit of time is long beside the few statements between an admission and
\* the start of its run, and beside the enforcer's kill; nothing ends the body
\* of a plain hold().
Tick ==
  /\ now < MaxTime
  /\ \A p \in alive : call[p].pc \notin {"won", "adopt"}
  /\ \A p \in Pid : \A i \in bodies[p] \cap DOMAIN programs : now < programs[i] + KillLag
  /\ now' = now + 1
  /\ UNCHANGED <<alive, inc, ledger, call, runs>>

\* Behaviours are followed up to the horizon.
Horizon == now = MaxTime /\ UNCHANGED vars

Wait(p) ==
  Look(p) \/ RefuseDuplicate(p) \/ Refuse(p) \/ Admit(p) \/ Retry(p) \/ Leave(p)

Use(p) ==
  EnterHold(p) \/ EnterRun(p) \/ Keep(p) \/ Persist(p) \/ Submit(p) \/ Adopt(p)

Next ==
  \/ \E p \in Pid :
       \/ \E kind \in Kinds, need \in Asks, wall \in Walls, queue \in Queues, key \in Keys :
            Ask(p, kind, need, wall, queue, key)
       \/ Wait(p)
       \/ Use(p)
       \/ \E i \in ClaimId : Exit(p, i) \/ CheckOffer(p, i) \/ Release(p, i)
       \/ \E v \in Vendors, i \in ClaimId : HandOver(p, v, i)
       \/ \E need \in DeclaredAsks, wall \in Walls : Declare(p, need, wall)
       \/ StartReap(p) \/ Reap(p)
       \/ Crash(p) \/ Recycle(p)
  \/ \E i \in ClaimId : OrphanEnds(i) \/ JobEnds(i)
  \/ Tick \/ Horizon

Spec == Init /\ [][Next]_vars

\* The kill at the wall, and every process's own next statement, happen: the
\* wait loop polls for ever and the clock does not stop.
Fairness ==
  /\ WF_vars(Tick)
  /\ \A p \in Pid : /\ WF_vars(Wait(p))
                    /\ WF_vars(Use(p))
                    /\ WF_vars(Reap(p))
                    /\ WF_vars(\E i \in DOMAIN programs : Exit(p, i))

FairSpec == Spec /\ Fairness

-----------------------------------------------------------------------------
\* The ledger's columns hold what the schema and the callers write.
TypeOK ==
  /\ now \in 0 .. MaxTime /\ alive \subseteq Pid
  /\ inc \in [Pid -> 1 .. MaxStamp]
  /\ claimSeq \in 0 .. MaxClaims /\ ticketSeq \in 0 .. MaxTickets
  /\ DOMAIN claims \subseteq 1 .. claimSeq /\ claims \in [DOMAIN claims -> Row]
  /\ DOMAIN tickets \subseteq 1 .. ticketSeq /\ tickets \in [DOMAIN tickets -> Ticket]
  /\ call \in [Pid -> Call]
  /\ bodies \in [Pid -> SUBSET ClaimId]
  /\ DOMAIN programs \subseteq ClaimId /\ programs \in [DOMAIN programs -> Time]
  /\ DOMAIN offered \subseteq ClaimId /\ offered \in [DOMAIN offered -> Nat]
  /\ adopted \subseteq ClaimId
  /\ job \in [ClaimId -> {"none", "running", "ended"}]

-----------------------------------------------------------------------------
\* Properties.

Admitted == Restrict(claims, {i \in DOMAIN claims : claims[i].key # DeclaredKey})

\* The seats of the admitted claims never exceed the box's size, whatever is
\* taken, handed over, persisted, declared or reaped between two decisions.
SeatsNeverOverlent ==
  \A s \in Seat : Cardinality(Declared(Admitted, s)) <= Size[s]

\* The same of the shares, when no process asks inside a claim of its own.
SharesNeverOverlent ==
  \A d \in Share : Cardinality(Declared(Admitted, d)) <= Size[d]

\* A contained run that is running is on the ledger: no reaper, of whatever
\* deadline or dead process, lends its seats while it uses them.
ProgramsAreBooked == DOMAIN programs \subseteq DOMAIN claims

\* An unkept row of a living process is one it is inside of or about to enter:
\* no path out of a call or a body leaves a row behind.
RowsAreAccountedFor ==
  \A i \in DOMAIN claims :
    ~claims[i].kept /\ SameProcess(claims[i])
      => LET p == claims[i].pid IN i \in bodies[p] \/ call[p].id = i

\* A waiter whose limit has not run out keeps the ticket that orders it, at the
\* demand it asks: nobody reaps a living waiter out of its place.
WaitersKeepTheirPlace ==
  \A p \in alive :
    call[p].pc \in {"look", "try", "wait"} /\ now <= call[p].givesUp
      => /\ call[p].ticket \in DOMAIN tickets
         /\ tickets[call[p].ticket].need = call[p].need

\* Nobody's claim is forgotten, and nobody's ticket taken.
RowsAndTicketsStand == RowsAreAccountedFor /\ WaitersKeepTheirPlace

\* Who holds past its call keeps what it holds. An external job that runs loses its
\* claim only to the claim's deadline: not to its client's death, not to a probe
\* answer read before the lock. And a claim taken for a run stands until the run
\* starts: while its taker lives and its deadline has not passed, only its own
\* release takes it away.
KeptClaimsStand ==
  [][\A i \in DOMAIN claims \ DOMAIN claims' :
       /\ job[i] = "running" => Expired(claims[i])
       /\ i \in DOMAIN offered
            => i \notin DOMAIN offered' \/ Expired(claims[i]) \/ ~SameProcess(claims[i])]_vars

\* The caller of a step that ends a try with a refusal or a claim.
Decides(p, pc) == call[p].pc = "try" /\ call'[p].pc = pc

\* A refusal for lack of room is never the fault of a dead process: beside the
\* claims of the living, the jobs and the declared uses the demand does not fit.
RefusedOnlyByTheLiving ==
  [][\A p \in Pid :
       Decides(p, "wait") /\ (\A t \in DOMAIN tickets : t >= call[p].ticket)
         => LET living == {i \in DOMAIN claims :
                             SameProcess(claims[i]) \/ claims[i].probe # "none"}
            IN  ~Fits(Restrict(claims, living), call[p].reading, p, call[p].need)]_vars

\* What the sample says is in use outside every listed tree.
ForeignIn(reading, d) ==
  Size[d] + Reserve[d] - reading.idle[d]
    - Cardinality({x \in Pid \X Unit : x[2] <= reading.usage[x[1]][d]})

\* A stale reading only ever lends less: when a claim is admitted, what the
\* sample saw in use outside and every declaration leave the margin free.
RoomIsLentOnce ==
  [][\A p \in Pid : Decides(p, "won") =>
       \A d \in Share : call[p].need[d] > 0 =>
         ForeignIn(call[p].reading, d) + Cardinality(Declared(claims', d)) <= Size[d]]_vars

\* Every wait ends, with a claim, at its own limit or with its process.
EveryWaitEnds == \A p \in Pid : call[p].ticket # 0 ~> call[p].ticket = 0
=============================================================================
