------------------------------ MODULE ToolPresence ------------------------------
(***************************************************************************)
(* Whether a vendor tool is really on this host: compute/presence.py, by   *)
(* the readers of compute/toolchecks.py.  All readings are one file, which *)
(* refresh, renew and demote each load, change and replace whole, with no  *)
(* lock between the two (compute/durable.py); a probe takes its time.      *)
(*                                                                         *)
(* An installation is [prints, file, works]: the version that a run of it  *)
(* prints and that its file carries (0 for none), and whether it does its  *)
(* trivial job.  A host is [tool -> [place -> installation]].              *)
(***************************************************************************)
EXTENDS Integers, Sequences

CONSTANTS
  Torn,        \* an unreadable file
  Tools,       \* tools with a check, by their names in CHECKS
  Threads,     \* whoever calls: the tick of a server, its station threads
  Servers,     \* bound: the threads that refresh, where the others demote
  Process,     \* [thread -> its process]: renew() has one lock in each
  Hosts,       \* bound: what this host may hold over time
  Manifests,   \* bound: what the serving repository may declare, [tool -> row]
  Ttl,         \* how long a reading holds
  MaxChanges,  \* bound: how often the host, the declaration or the disk changes
  MaxTime      \* bound: the clock; it starts at 1

NoInstall == [prints |-> 0, file |-> 0, works |-> FALSE]
NoRow == [floor |-> 0, reason |-> FALSE, below |-> 0, incompatible |-> FALSE]
Empty == [t \in {} |-> 0]

PresenceAssumption == Ttl \in Nat \ {0} /\ MaxTime \in Nat /\ MaxChanges \in Nat /\ Torn # Empty

VARIABLES
  host, declared,   \* what is installed, and the rows of [tool.lab_commons.tools]
  file,             \* tool-presence.json: [tool -> reading], or Torn
  thread,           \* [thread -> the call it is in]
  now, changes,
  failedAt,         \* ghost: [tool -> when demote() last wrote that a unit failed, 0 for never]
  passedAt,         \* ghost: [tool -> the starts of the probes that passed]
  behind,           \* ghost: the threads whose call began before the newest file was written
  overtaken         \* ghost: the tools whose reading was written by such a call

presenceVars == <<host, declared, file, thread, now, changes, failedAt, passedAt, behind, overtaken>>

NoCall ==
  [pc |-> "idle", torn |-> FALSE, at |-> 0, tool |-> "none", copy |-> Empty, due |-> {}, probed |-> {}, saw |-> Empty,
   stale |-> FALSE]

PresenceInit ==
  /\ host \in Hosts
  /\ declared \in Manifests
  /\ file = Empty
  /\ thread = [p \in Threads |-> NoCall]
  /\ now = 1 /\ changes = 0
  /\ failedAt = [t \in Tools |-> 0]
  /\ passedAt = [t \in Tools |-> {}]
  /\ behind = {} /\ overtaken = {}

-----------------------------------------------------------------------------
(* The requirement of a tool.                                              *)

\* _well_formed(): a floor with its reason; `below` only with `incompatible`.
WellFormed(row) == row.floor # 0 /\ row.reason /\ ((row.below # 0) <=> row.incompatible)
DeclaredVersions(rows) == \A t \in Tools : rows[t] = NoRow \/ WellFormed(rows[t])

\* _required(), the two bounds, which a reading keeps.
Required(rows, t) == [floor |-> rows[t].floor, below |-> rows[t].below]
\* Requirement.refusal()
Meets(version, required) ==
  required.floor = 0 \/ (version >= required.floor /\ (required.below = 0 \/ version < required.below))

-----------------------------------------------------------------------------
(* The readers: CHECKS.                                                    *)

\* Where a tool is looked for, in order; FEMM_DIR in the environment hides the
\* standard directory.
Places(t, installs) ==
  CASE t = "femm" -> IF "FEMM_DIR" \in DOMAIN installs THEN <<"FEMM_DIR", "PATH">> ELSE <<"install dir", "PATH">>
    [] t \in {"matlab", "ngspice", "node"} -> <<"PATH", "install dir">>
    [] t = "simba" -> <<"import">>
    [] t = "jmag" -> <<"registry">>
Installed(installs, place) == IF place \in DOMAIN installs THEN installs[place] ELSE NoInstall
\* femm_find(), matlab_find(), simba_find(), jmag_find(), plain_find(): NoInstall for none.
Find(t, installs) ==
  LET placed == SelectSeq(Places(t, installs), LAMBDA p : Installed(installs, p) # NoInstall)
  IN  IF placed = <<>> THEN NoInstall ELSE Installed(installs, Head(placed))
\* _versioned(), jmag_version(): what a run prints, else what the file carries.
Version(i) == IF i.prints # 0 THEN i.prints ELSE i.file
\* JMAG's smoke is the run that read its version.
Smoke(t, i) == IF t = "jmag" THEN i.prints # 0 ELSE i.works

\* _probe(): what is found is started, and may not start.
MayCrash(t, installs) == Find(t, installs) # NoInstall

\* probe(): found, its version reads and meets the bounds, its smoke passes.
Probe(t, installs, required) ==
  LET i == Find(t, installs)
  IN  [present |-> i # NoInstall /\ Version(i) # 0 /\ Meets(Version(i), required) /\ Smoke(t, i),
       version |-> Version(i)]

-----------------------------------------------------------------------------
(* A reading is [present, version, required, probed, failed].              *)

HasFailed(e) == e.failed # 0 /\ e.failed >= e.probed
Expired(e, at) == at - e.probed >= Ttl

\* _verdict(), and cached() of a file that reads.
Verdict(e, at) == IF HasFailed(e) THEN "failure" ELSE IF Expired(e, at) THEN "ttl" ELSE IF e.present THEN "present" ELSE "probe"
Cached(stored, t, at) == IF t \in DOMAIN stored THEN Verdict(stored[t], at) ELSE "never"

\* Mutant: a reading outlives the requirement it was taken against.
CurrentWhatever(e, required, at) == ~Expired(e, at) /\ (e.failed = 0 \/ e.failed < e.probed)

\* _current()
Current(e, required, at) == ~Expired(e, at) /\ e.required = required /\ (e.failed = 0 \/ e.failed < e.probed)

\* stale(), and that what aged was a pass.
Aged(stored, t, at) == Cached(stored, t, at) = "ttl" /\ stored[t].present

Without(stored, t) == [x \in DOMAIN stored \ {t} |-> stored[x]]
With(stored, t, e) == [x \in DOMAIN stored \cup {t} |-> IF x = t THEN e ELSE stored[x]]
Taken(e, required, at) == [present |-> e.present, version |-> e.version, required |-> required, probed |-> at, failed |-> 0]
Demoted(e, at) == [present |-> e.present, version |-> e.version, required |-> e.required, probed |-> e.probed, failed |-> at]

-----------------------------------------------------------------------------
(* The file: read_table() and durable_text().                              *)

CallAt(p, pc) == thread[p].pc = pc /\ ~thread[p].torn
Set(p, state) == thread' = [thread EXCEPT ![p] = state]
World == UNCHANGED <<host, declared, now, changes>>
Ghosts == UNCHANGED <<failedAt, passedAt, overtaken>>
Begins(p) == behind' = behind \ {p}
Others(p) == {q \in Threads \ {p} : ~CallAt(q, "idle")}

\* An unreadable file is moved aside in a second step, whatever it is by then.
Stored == IF file = Torn THEN Empty ELSE file
LoadFile(p, state) ==
  /\ Set(p, [state EXCEPT !.torn = (file = Torn)])
  /\ UNCHANGED file /\ Ghosts /\ World

Quarantine(p) ==
  /\ thread[p].torn
  /\ Set(p, [thread[p] EXCEPT !.torn = FALSE])
  /\ file' = Empty /\ behind' = behind \cup Others(p)
  /\ Ghosts /\ World

\* A whole file written; a call that began before may undo what others wrote since.
Save(p, stored) ==
  /\ file' = stored /\ behind' = (behind \cup Others(p)) \ {p}
  /\ LET changed == {t \in Tools : t \in DOMAIN stored /\ (file # Torn /\ t \in DOMAIN file => file[t] # stored[t])}
     IN  overtaken' = IF p \in behind THEN overtaken \cup changed ELSE overtaken \ changed

\* cached(), alone or at the end of refresh() and renew().
Look(p) ==
  /\ CallAt(p, "idle") /\ file = Torn
  /\ Begins(p) /\ LoadFile(p, NoCall)

-----------------------------------------------------------------------------
(* refresh(): every reading that is due is taken again, then all are saved. *)

Refresh(p) ==
  /\ p \in Servers /\ CallAt(p, "idle")
  /\ DeclaredVersions(declared)
  /\ Set(p, [NoCall EXCEPT !.pc = "begun", !.at = now, !.saw = declared])
  /\ Begins(p) /\ UNCHANGED file /\ Ghosts /\ World

Due(s) == {t \in Tools : t \notin DOMAIN Stored \/ ~Current(Stored[t], Required(s.saw, t), s.at)}
RefreshLoad(p) ==
  /\ CallAt(p, "begun")
  /\ LoadFile(p, [thread[p] EXCEPT !.pc = "probing", !.copy = Stored, !.due = Due(thread[p])])
  /\ UNCHANGED behind

\* A probe that could not start its child leaves no reading.
RefreshProbe(p) ==
  /\ CallAt(p, "probing")
  /\ \E t \in thread[p].due, crashed \in BOOLEAN :
       LET s == thread[p]
           required == Required(s.saw, t)
           row == Probe(t, host[t], required)
       IN  /\ crashed => MayCrash(t, host[t])
           /\ Set(p, [s EXCEPT !.due = s.due \ {t}, !.probed = s.probed \cup {t},
                        !.copy = IF crashed THEN Without(s.copy, t) ELSE With(s.copy, t, Taken(row, required, s.at))])
           /\ passedAt' = IF ~crashed /\ row.present THEN [passedAt EXCEPT ![t] = @ \cup {s.at}] ELSE passedAt
  /\ UNCHANGED <<file, failedAt, behind, overtaken>> /\ World

RefreshSave(p) ==
  /\ CallAt(p, "probing") /\ thread[p].due = {}
  /\ Set(p, NoCall)
  /\ IF thread[p].probed # {} THEN Save(p, thread[p].copy) ELSE UNCHANGED <<file, behind, overtaken>>
  /\ UNCHANGED <<failedAt, passedAt>> /\ World

-----------------------------------------------------------------------------
(* renew(): one reading that is merely old, taken again in place, one at a  *)
(* time in a process.  The file is read twice: for the verdict, and to      *)
(* change it.                                                              *)

Renewing(p) == thread[p].tool # "none"
Renew(p, t) ==
  /\ CallAt(p, "idle")
  /\ \A q \in Threads : Process[q] = Process[p] => ~Renewing(q)
  /\ Begins(p) /\ LoadFile(p, [NoCall EXCEPT !.pc = "loaded", !.at = now, !.tool = t, !.copy = Stored])

RenewCheck(p) ==
  /\ CallAt(p, "loaded")
  /\ LET s == thread[p]
     IN  LoadFile(p, [s EXCEPT !.pc = "renewing", !.copy = Stored, !.stale = (Cached(s.copy, s.tool, s.at) = "ttl")])
  /\ UNCHANGED behind

\* Mutant: what passes is taken again without the floor it was taken against.
RenewedAny(s, installs) == Taken(Probe(s.tool, installs, [floor |-> 0, below |-> 0]), s.copy[s.tool].required, s.at)
Renewed(s, installs) == Taken(Probe(s.tool, installs, s.copy[s.tool].required), s.copy[s.tool].required, s.at)

\* A tool that left the file meanwhile raises; a reading that never passed stands.
RenewProbe(p) ==
  /\ CallAt(p, "renewing") /\ thread[p].probed = {}
  /\ LET s == thread[p]
         t == s.tool
     IN  IF ~s.stale \/ t \notin DOMAIN s.copy \/ ~s.copy[t].present
         THEN Set(p, NoCall) /\ UNCHANGED passedAt
         ELSE \E crashed \in BOOLEAN :
                LET e == Renewed(s, host[t])
                IN  /\ crashed => MayCrash(t, host[t])
                    /\ Set(p, IF crashed THEN NoCall ELSE [s EXCEPT !.probed = {t}, !.copy = With(s.copy, t, e)])
                    /\ passedAt' = IF ~crashed /\ e.present THEN [passedAt EXCEPT ![t] = @ \cup {s.at}] ELSE passedAt
  /\ UNCHANGED <<file, failedAt, behind, overtaken>> /\ World

RenewSave(p) ==
  /\ CallAt(p, "renewing") /\ thread[p].probed # {}
  /\ Save(p, thread[p].copy)
  /\ Set(p, NoCall)
  /\ UNCHANGED <<failedAt, passedAt>> /\ World

-----------------------------------------------------------------------------
(* demote(): a real unit on a tool failed here.                            *)

Demote(p, t) ==
  /\ p \notin Servers /\ CallAt(p, "idle")
  /\ Begins(p) /\ LoadFile(p, [NoCall EXCEPT !.pc = "demoting", !.copy = Stored, !.due = {t}])

DemoteSave(p) ==
  /\ CallAt(p, "demoting")
  /\ LET s   == thread[p]
         hit == s.due \cap DOMAIN s.copy
     IN  /\ IF hit = {} THEN UNCHANGED <<file, behind, overtaken>>
            ELSE Save(p, [t \in DOMAIN s.copy |-> IF t \in hit THEN Demoted(s.copy[t], now) ELSE s.copy[t]])
         /\ failedAt' = [t \in Tools |-> IF t \in hit THEN now ELSE failedAt[t]]
  /\ Set(p, NoCall)
  /\ UNCHANGED passedAt /\ World

-----------------------------------------------------------------------------
(* The host, the repository and the disk change under them.                *)

Callers == UNCHANGED <<thread, failedAt, overtaken>>
Change == changes < MaxChanges /\ changes' = changes + 1
HostChanges ==
  /\ Change
  /\ host' \in Hosts \ {host}
  /\ UNCHANGED <<declared, file, now, passedAt, behind>> /\ Callers
ManifestChanges ==
  /\ Change
  /\ declared' \in Manifests \ {declared}
  /\ UNCHANGED <<host, file, now, passedAt, behind>> /\ Callers
Damage ==
  /\ Change
  /\ file # Torn /\ file' = Torn
  /\ behind' = behind \cup {q \in Threads : ~CallAt(q, "idle")}
  /\ UNCHANGED <<host, declared, now, passedAt>> /\ Callers
Tick ==
  /\ now < MaxTime
  /\ now' = now + 1
  /\ passedAt' = [t \in Tools |-> {a \in passedAt[t] : now' - a < Ttl \/ \E p \in Threads : thread[p].at = a}]
  /\ UNCHANGED <<host, declared, file, changes, behind>> /\ Callers

PresenceNext ==
  \/ \E p \in Threads : \/ Refresh(p) \/ RefreshLoad(p) \/ RefreshProbe(p) \/ RefreshSave(p)
                        \/ RenewCheck(p) \/ RenewProbe(p) \/ RenewSave(p)
                        \/ DemoteSave(p) \/ Quarantine(p) \/ Look(p)
                        \/ \E t \in Tools : Renew(p, t) \/ Demote(p, t)
  \/ HostChanges \/ ManifestChanges \/ Damage \/ Tick

PresenceSpec == PresenceInit /\ [][PresenceNext]_presenceVars
-----------------------------------------------------------------------------
\* presence.py:3-14: a tool reads present only on a probe that passed all its steps
\* within the time a reading holds, at a version inside the bounds it was taken
\* against, and begun after the last unit that failed on it; but for a demotion that
\* was overwritten by a call that began before it.
PresentIsBacked ==
  file # Torn => \A t \in DOMAIN file : Cached(file, t, now) = "present" =>
    /\ file[t].probed \in passedAt[t]
    /\ Meets(file[t].version, file[t].required)
    /\ t \in overtaken \/ failedAt[t] <= file[t].probed

\* presence.py:269: what refresh() leaves present meets the bounds that the repository
\* declared when it was called, whatever bounds the reading was first taken against.
RefreshLeavesWhatMeets ==
  \A p \in Threads : CallAt(p, "probing") /\ thread'[p].pc = "idle" /\ p \notin behind =>
       \A t \in DOMAIN file' : Cached(file', t, thread[p].at) = "present" =>
         Meets(file'[t].version, Required(thread[p].saw, t))
RefreshJudgesAnew == [][RefreshLeavesWhatMeets]_presenceVars

\* presence.py:322: "a failed, demoted or never-taken reading is returned as it is": renew()
\* takes no reading again that it finds demoted.
RenewLeavesTheFailed ==
  [][\A p \in Threads : CallAt(p, "renewing") /\ thread[p].probed = {} /\ thread'[p].probed # {} =>
       ~HasFailed(thread[p].copy[thread[p].tool])]_presenceVars
=============================================================================
