--------------------------- MODULE ToolPresenceProofs ---------------------------
(***************************************************************************)
(* What a host holds for those who share it, proved for any of them, in    *)
(* three parts.  The tools: one that reads present passed its check in     *)
(* time, within the bounds, and did not fail since but for a demotion that *)
(* an older call overwrote.  An account's clean-up: what no job may use.   *)
(* Its trees and builds: what the submits of an account make for each      *)
(* other is what each would have made.                                     *)
(***************************************************************************)
EXTENDS ToolPresence, HpcBuilds, HpcClean, TLAPS

\* A frame has the fields of a call, and no other.
Fields == {"pc", "torn", "at", "tool", "copy", "due", "probed", "saw", "stale"}
Framed(s) == s = [i \in Fields |-> s[i]]

\* A reading is of its time: what it told present met its bounds, and its probe passed.
Honest(e, time, passed) ==
  /\ e.present \in BOOLEAN /\ e.probed \in Nat /\ e.failed \in Nat /\ e.probed <= time
  /\ e.present => Meets(e.version, e.required) /\ (time - e.probed < Ttl => e.probed \in passed)
HonestTable(stored, time, passed) == \A t \in DOMAIN stored : t \in Tools /\ Honest(stored[t], time, passed[t])

\* A demotion is in the file, or was followed by a probe, or was overwritten by an older call.
DemotionsAreShown ==
  file # Torn => \A t \in DOMAIN file : t \in overtaken \/ failedAt[t] <= file[t].probed \/ HasFailed(file[t])

\* The part of the invariant that is about no call.
WorldInv ==
  /\ now \in Nat \ {0}
  /\ failedAt \in [Tools -> Nat] /\ passedAt \in [Tools -> SUBSET Nat]
  /\ \A t \in Tools : failedAt[t] <= now
  /\ thread = [p \in Threads |-> thread[p]]
  /\ file # Torn => HonestTable(file, now, passedAt)
  /\ DemotionsAreShown

FrameTyped(p) ==
  /\ Framed(thread[p])
  /\ thread[p].torn \in BOOLEAN /\ thread[p].at \in Nat /\ thread[p].at <= now
  /\ thread[p].due \subseteq Tools

\* Whose copy is not older than the file: no demotion since its call began, and its copy is
\* the file but for its own probes.
SameBut(stored, table, tools) ==
  \A t \in Tools \ tools : (t \in DOMAIN stored <=> t \in DOMAIN table) /\ (t \in DOMAIN stored => stored[t] = table[t])
Newest(p) ==
  /\ thread[p].pc \in {"begun", "probing", "loaded", "renewing"} => \A t \in Tools : failedAt[t] <= thread[p].at
  /\ CallAt(p, "probing") \/ CallAt(p, "renewing") \/ CallAt(p, "demoting") =>
       file # Torn /\ SameBut(thread[p].copy, file, thread[p].probed)

\* What a call holds: a torn file reads empty, and its own probes are of its beginning.
OfTheCall(p) ==
  /\ thread[p].pc \in {"idle", "begun", "loaded", "demoting"} => thread[p].probed = {}
  /\ thread[p].torn => thread[p].copy = Empty /\ thread[p].probed = {}
  /\ \A t \in thread[p].probed \cap DOMAIN thread[p].copy : thread[p].copy[t].probed = thread[p].at

\* What refresh() does not probe again was taken against the bounds that it reads.
OfTheDeclared(p) ==
  thread[p].pc = "probing" =>
    \A t \in DOMAIN thread[p].copy \ thread[p].due : thread[p].copy[t].required = Required(thread[p].saw, t)

CallInv(p) ==
  /\ FrameTyped(p) /\ HonestTable(thread[p].copy, now, passedAt)
  /\ p \notin behind => Newest(p)
  /\ OfTheCall(p) /\ OfTheDeclared(p)

\* The inductive invariant.
PresenceInv == WorldInv /\ \A p \in Threads : CallInv(p)

-----------------------------------------------------------------------------
\* Nobody has called, and the file is empty.
LEMMA PresenceBegins ==
  ASSUME PresenceInit
  PROVE  PresenceInv
<1> USE DEF PresenceInit
<1>1. DOMAIN Empty = {}
  BY DEF Empty
<1>2. WorldInv
  BY <1>1 DEF WorldInv, HonestTable, DemotionsAreShown
<1>3. ASSUME NEW p \in Threads
      PROVE  CallInv(p)
  <2>1. /\ Framed(thread[p])
        /\ thread[p].pc = "idle" /\ thread[p].torn = FALSE /\ thread[p].at = 0 /\ thread[p].copy = Empty
        /\ thread[p].due = {} /\ thread[p].probed = {}
    BY DEF NoCall, Framed, Fields
  <2>2. FrameTyped(p)
    <3>1. now = 1 /\ 0 <= now /\ 0 \in Nat
      OBVIOUS
    <3> QED
      BY <2>1, <3>1, Zenon DEF FrameTyped
  <2>4. HonestTable(thread[p].copy, now, passedAt)
    BY <1>1, <2>1 DEF HonestTable
  <2>3. Newest(p) /\ OfTheCall(p) /\ OfTheDeclared(p)
    BY <1>1, <2>1 DEF Newest, CallAt, OfTheCall, OfTheDeclared
  <2> QED
    BY <2>2, <2>3, <2>4 DEF CallInv
<1> QED
  BY <1>2, <1>3 DEF PresenceInv

-----------------------------------------------------------------------------
(* What stands while others step.                                          *)

\* Time goes on and probes pass: what was passed within the time a reading holds is known still.
Onward ==
  /\ now' \in Nat /\ now' >= now
  /\ passedAt' \in [Tools -> SUBSET Nat]
  /\ \A t \in Tools : \A a \in passedAt[t] : now' - a < Ttl => a \in passedAt'[t]

\* An honest table stays honest.
LEMMA TablesStayHonest ==
  ASSUME WorldInv, PresenceAssumption, Onward, NEW stored, HonestTable(stored, now, passedAt)
  PROVE  HonestTable(stored, now', passedAt')
<1> SUFFICES ASSUME NEW t \in DOMAIN stored
             PROVE  t \in Tools /\ Honest(stored[t], now', passedAt'[t])
  BY DEF HonestTable
<1>1. t \in Tools /\ Honest(stored[t], now, passedAt[t])
  BY DEF HonestTable
<1>2. now \in Nat /\ now' \in Nat /\ now' >= now /\ Ttl \in Nat
  BY DEF WorldInv, Onward, PresenceAssumption
<1> DEFINE a == stored[t].probed
<1>3. a \in Nat /\ (now' - a < Ttl => now - a < Ttl)
  BY <1>1, <1>2 DEF Honest
<1>4. a \in passedAt[t] /\ now' - a < Ttl => a \in passedAt'[t]
  BY <1>1 DEF Onward
<1> QED
  BY <1>1, <1>2, <1>3, <1>4 DEF Honest

\* The world stands when the file, its demotions and the threads' names do.
LEMMA WorldStands ==
  ASSUME WorldInv, PresenceAssumption, Onward, UNCHANGED <<file, failedAt, overtaken>>,
         thread' = [p \in Threads |-> thread'[p]]
  PROVE  WorldInv'
<1>1. file # Torn => HonestTable(file, now', passedAt')
  BY TablesStayHonest DEF WorldInv
<1>2. now' \in Nat \ {0} /\ \A t \in Tools : failedAt[t] <= now'
  BY DEF WorldInv, Onward
<1>3. DemotionsAreShown'
  BY DEF WorldInv, DemotionsAreShown, HasFailed
<1>4. HonestTable(file, now', passedAt') => HonestTable(file, now, passedAt)'
  BY DEF HonestTable, Honest
<1> QED
  BY <1>1, <1>2, <1>3, <1>4 DEF WorldInv, Onward

\* A call that does not step stands when the file does, or it falls behind, or it is none.
LEMMA OthersStand ==
  ASSUME PresenceInv, PresenceAssumption, Onward, NEW q \in Threads, UNCHANGED thread[q],
         \/ UNCHANGED <<file, failedAt>> /\ (q \in behind => q \in behind')
         \/ q \in behind' \/ CallAt(q, "idle")
  PROVE  CallInv(q)'
<1>1. CallInv(q) /\ WorldInv
  BY DEF PresenceInv
<1>2. HonestTable(thread[q].copy, now', passedAt')
  BY <1>1, TablesStayHonest DEF CallInv
<1>3. FrameTyped(q)'
  BY <1>1 DEF CallInv, FrameTyped, Framed, WorldInv, Onward
<1>4. q \notin behind' => Newest(q)'
  BY <1>1 DEF CallInv, Newest, SameBut, CallAt
<1>5. OfTheCall(q)' /\ OfTheDeclared(q)'
  BY <1>1 DEF CallInv, OfTheCall, OfTheDeclared, Required
<1>6. HonestTable(thread[q].copy, now, passedAt)'
  BY <1>2 DEF HonestTable, Honest
<1> QED
  BY <1>3, <1>4, <1>5, <1>6 DEF CallInv

-----------------------------------------------------------------------------
(* One call steps.                                                         *)

\* A call steps: it stands, and each other does.
LEMMA CallSteps ==
  ASSUME PresenceInv, PresenceAssumption, Onward, NEW p \in Threads, NEW s, Set(p, s), WorldInv', CallInv(p)',
         \A q \in Threads \ {p} : \/ UNCHANGED <<file, failedAt>> /\ (q \in behind => q \in behind')
                                  \/ q \in behind' \/ CallAt(q, "idle")
  PROVE  PresenceInv'
<1>1. ASSUME NEW q \in Threads, q # p
      PROVE  CallInv(q)'
  <2>1. UNCHANGED thread[q]
    BY <1>1 DEF Set, PresenceInv, WorldInv
  <2> QED
    BY <1>1, <2>1, OthersStand
<1> QED
  BY <1>1 DEF PresenceInv

\* What Set() sets.
LEMMA FrameSet ==
  ASSUME WorldInv, NEW p \in Threads, NEW s, Set(p, s)
  PROVE  thread'[p] = s /\ thread' = [q \in Threads |-> thread'[q]]
BY DEF Set, WorldInv

\* A call that is over holds nothing.
LEMMA IdleStands ==
  ASSUME WorldInv', NEW p \in Threads, thread'[p] = NoCall
  PROVE  CallInv(p)'
<1>1. /\ Framed(thread'[p])
      /\ thread'[p].pc = "idle" /\ thread'[p].torn = FALSE /\ thread'[p].at = 0 /\ thread'[p].copy = Empty
      /\ thread'[p].due = {} /\ thread'[p].probed = {} /\ DOMAIN Empty = {}
  BY DEF NoCall, Framed, Fields, Empty
<1>2. FrameTyped(p)'
  <2>1. 0 <= now' /\ 0 \in Nat
    BY DEF WorldInv
  <2>2. Framed(thread[p])'
    BY <1>1 DEF Framed
  <2> QED
    BY <1>1, <2>1, <2>2, Zenon DEF FrameTyped
<1>3. HonestTable(thread[p].copy, now, passedAt)'
  BY <1>1 DEF HonestTable
<1>4. Newest(p)' /\ OfTheCall(p)' /\ OfTheDeclared(p)'
  BY <1>1 DEF Newest, CallAt, OfTheCall, OfTheDeclared
<1> QED
  BY <1>2, <1>3, <1>4 DEF CallInv

\* The file that a call reads is honest.
LEMMA StoredIsHonest ==
  ASSUME WorldInv
  PROVE  HonestTable(Stored, now, passedAt) /\ DOMAIN Empty = {}
BY DEF WorldInv, Stored, Empty, HonestTable

\* A call that has read the file: it read it since the call began, and what it leaves as it
\* is was taken against what is declared.
LEMMA Loading ==
  ASSUME PresenceInv, PresenceAssumption, NEW p \in Threads, NEW s, LoadFile(p, s), Framed(s),
         s.copy = Stored, s.probed = {}, s.at \in Nat, s.at <= now, s.due \subseteq Tools, s.pc # "begun",
         behind \ {p} \subseteq behind',
         s.pc \in {"probing", "loaded", "renewing"} /\ p \notin behind' => \A t \in Tools : failedAt[t] <= s.at,
         s.pc = "probing" => \A t \in DOMAIN Stored \ s.due : Stored[t].required = Required(s.saw, t)
  PROVE  PresenceInv'
<1>1. WorldInv /\ CallInv(p)
  BY DEF PresenceInv
<1> DEFINE f == [s EXCEPT !.torn = (file = Torn)]
<1>2. Set(p, f)
  BY DEF LoadFile
<1>3. /\ f.pc = s.pc /\ (f.torn <=> file = Torn) /\ f.torn \in BOOLEAN /\ f.at = s.at /\ f.copy = Stored /\ f.due = s.due
      /\ f.probed = {} /\ f.saw = s.saw /\ Framed(f)
  BY DEF Framed, Fields
<1> HIDE DEF f
<1>4. thread'[p] = f /\ thread' = [q \in Threads |-> thread'[q]]
  BY <1>1, <1>2, FrameSet
<1>5. UNCHANGED <<file, now, failedAt, passedAt, overtaken>>
  BY DEF LoadFile, Ghosts, World
<1>6. Onward
  BY <1>1, <1>5 DEF Onward, WorldInv
<1>7. WorldInv'
  BY <1>1, <1>4, <1>5, <1>6, WorldStands
<1>8. CallInv(p)'
  <2>1. FrameTyped(p)'
    <3>1. Framed(thread[p])'
      BY <1>3, <1>4 DEF Framed
    <3> QED
      BY <1>3, <1>4, <1>5, <3>1 DEF FrameTyped
  <2>2. HonestTable(thread[p].copy, now, passedAt)'
    BY <1>1, <1>3, <1>4, <1>5, StoredIsHonest DEF HonestTable, Honest
  <2>3. p \notin behind' => Newest(p)'
    BY <1>3, <1>4, <1>5 DEF Newest, CallAt, SameBut, Stored
  <2>4. OfTheCall(p)'
    BY <1>3, <1>4 DEF OfTheCall, Stored
  <2>5. OfTheDeclared(p)'
    BY <1>3, <1>4 DEF OfTheDeclared, Required
  <2> QED
    BY <2>1, <2>2, <2>3, <2>4, <2>5 DEF CallInv
<1> QED
  BY <1>2, <1>5, <1>6, <1>7, <1>8, CallSteps

\* cached() of an unreadable file, and the loads of the three calls.
LEMMA LoadSteps ==
  ASSUME PresenceInv, PresenceAssumption, NEW p \in Threads,
         \/ Look(p) \/ RefreshLoad(p) \/ RenewCheck(p) \/ \E t \in Tools : Renew(p, t) \/ Demote(p, t)
  PROVE  PresenceInv'
<1>1. WorldInv /\ CallInv(p)
  BY DEF PresenceInv
<1>2. now \in Nat /\ 0 \in Nat /\ 0 <= now /\ now <= now /\ \A t \in Tools : failedAt[t] <= now
  BY <1>1 DEF WorldInv
<1>3. Framed(NoCall) /\ NoCall.at = 0 /\ NoCall.copy = Empty /\ NoCall.probed = {} /\ NoCall.due = {} /\ NoCall.pc = "idle"
  BY DEF Framed, Fields, NoCall
<1>4. CASE Look(p)
  <2>1. LoadFile(p, NoCall) /\ file = Torn /\ behind' = behind \ {p}
    BY <1>4 DEF Look, Begins
  <2>2. NoCall.copy = Stored
    BY <1>3, <2>1 DEF Stored
  <2> QED
    BY <1>2, <1>3, <2>1, <2>2, Loading
<1>5. CASE RefreshLoad(p)
  <2> DEFINE s == [thread[p] EXCEPT !.pc = "probing", !.copy = Stored, !.due = Due(thread[p])]
  <2>1. Framed(thread[p]) /\ LoadFile(p, s) /\ behind' = behind /\ CallAt(p, "begun")
    BY <1>1, <1>5 DEF RefreshLoad, CallInv, FrameTyped
  <2>2. /\ s.pc = "probing" /\ s.at = thread[p].at /\ s.copy = Stored /\ s.due = Due(thread[p]) /\ s.probed = {}
        /\ s.saw = thread[p].saw /\ Framed(s)
    BY <1>1, <2>1 DEF Framed, Fields, CallInv, OfTheCall, CallAt
  <2> HIDE DEF s
  <2>3. s.at \in Nat /\ s.at <= now
    BY <1>1, <2>2 DEF CallInv, FrameTyped
  <2>4. p \notin behind' => \A t \in Tools : failedAt[t] <= s.at
    BY <1>1, <2>1, <2>2 DEF CallInv, Newest, CallAt
  <2>5. \A t \in DOMAIN Stored \ s.due : t \in Tools /\ Stored[t].required = Required(s.saw, t)
    BY <1>1, <2>2, StoredIsHonest DEF HonestTable, Due, Current
  <2>6. s.due \subseteq Tools
    BY <2>2 DEF Due
  <2> QED
    BY <2>1, <2>2, <2>3, <2>4, <2>5, <2>6, Loading
<1>6. CASE RenewCheck(p)
  <2> DEFINE due == (Cached(thread[p].copy, thread[p].tool, thread[p].at) = "ttl")
             s == [thread[p] EXCEPT !.pc = "renewing", !.copy = Stored, !.stale = due]
  <2>1. Framed(thread[p]) /\ LoadFile(p, s) /\ behind' = behind /\ CallAt(p, "loaded")
    BY <1>1, <1>6 DEF RenewCheck, CallInv, FrameTyped
  <2> HIDE DEF due
  <2>2. s.pc = "renewing" /\ s.at = thread[p].at /\ s.copy = Stored /\ s.due = thread[p].due /\ s.probed = {} /\ Framed(s)
    BY <1>1, <2>1 DEF Framed, Fields, CallInv, OfTheCall, CallAt
  <2> HIDE DEF s
  <2>3. s.at \in Nat /\ s.at <= now /\ s.due \subseteq Tools
    BY <1>1, <2>2 DEF CallInv, FrameTyped
  <2>4. p \notin behind' => \A t \in Tools : failedAt[t] <= s.at
    BY <1>1, <2>1, <2>2 DEF CallInv, Newest, CallAt
  <2> QED
    BY <2>1, <2>2, <2>3, <2>4, Loading
<1>7. ASSUME NEW t \in Tools, Renew(p, t)
      PROVE  PresenceInv'
  <2> DEFINE s == [NoCall EXCEPT !.pc = "loaded", !.at = now, !.tool = t, !.copy = Stored]
  <2>1. LoadFile(p, s) /\ behind' = behind \ {p}
    BY <1>7 DEF Renew, Begins
  <2>2. s.pc = "loaded" /\ s.at = now /\ s.copy = Stored /\ s.due = {} /\ s.probed = {} /\ Framed(s)
    BY <1>3 DEF Framed, Fields
  <2> HIDE DEF s
  <2> QED
    BY <1>2, <2>1, <2>2, Loading
<1>8. ASSUME NEW t \in Tools, Demote(p, t)
      PROVE  PresenceInv'
  <2> DEFINE s == [NoCall EXCEPT !.pc = "demoting", !.copy = Stored, !.due = {t}]
  <2>1. LoadFile(p, s) /\ behind' = behind \ {p}
    BY <1>8 DEF Demote, Begins
  <2>2. s.pc = "demoting" /\ s.at = 0 /\ s.copy = Stored /\ s.due = {t} /\ s.probed = {} /\ Framed(s)
    BY <1>3 DEF Framed, Fields
  <2> HIDE DEF s
  <2> QED
    BY <1>2, <2>1, <2>2, Loading
<1> QED
  BY <1>4, <1>5, <1>6, <1>7, <1>8

-----------------------------------------------------------------------------
(* A call that changes no file: it begins, it probes, or it is over.       *)

\* Such a step keeps the invariant when its own frame is in order.
LEMMA QuietSteps ==
  ASSUME PresenceInv, PresenceAssumption, NEW p \in Threads, NEW s, Set(p, s),
         UNCHANGED <<file, failedAt, overtaken, now>>, behind \ {p} \subseteq behind',
         passedAt' \in [Tools -> SUBSET Nat], \A t \in Tools : passedAt[t] \subseteq passedAt'[t],
         WorldInv' => CallInv(p)'
  PROVE  PresenceInv'
<1>1. Onward /\ WorldInv
  BY DEF Onward, PresenceInv, WorldInv
<1>2. WorldInv'
  BY <1>1, FrameSet, WorldStands
<1> QED
  BY <1>1, <1>2, CallSteps

\* A call is over without a word.
LEMMA Leaving ==
  ASSUME PresenceInv, PresenceAssumption, NEW p \in Threads, Set(p, NoCall),
         UNCHANGED <<file, failedAt, passedAt, overtaken, now, behind>>
  PROVE  PresenceInv'
<1>1. WorldInv
  BY DEF PresenceInv
<1>2. thread'[p] = NoCall
  BY <1>1, FrameSet
<1>3. passedAt' \in [Tools -> SUBSET Nat] /\ \A t \in Tools : passedAt[t] \subseteq passedAt'[t]
  BY <1>1 DEF WorldInv
<1> QED
  BY <1>2, <1>3, IdleStands, QuietSteps

\* refresh() reads the clock and the declaration.
LEMMA RefreshBegins ==
  ASSUME PresenceInv, PresenceAssumption, NEW p \in Threads, Refresh(p)
  PROVE  PresenceInv'
<1>1. WorldInv
  BY DEF PresenceInv
<1>2. /\ Framed(NoCall) /\ NoCall.torn = FALSE /\ NoCall.copy = Empty /\ NoCall.probed = {} /\ NoCall.due = {}
      /\ DOMAIN Empty = {}
  BY DEF Framed, Fields, NoCall, Empty
<1> DEFINE s == [NoCall EXCEPT !.pc = "begun", !.at = now, !.saw = declared]
<1>3. Framed(s) /\ s.pc = "begun" /\ s.torn = FALSE /\ s.at = now /\ s.copy = Empty /\ s.probed = {} /\ s.due = {}
  BY <1>2 DEF Framed, Fields
<1>4. Set(p, s) /\ behind' = behind \ {p} /\ UNCHANGED <<file, failedAt, passedAt, overtaken, now>>
  BY DEF Refresh, Begins, Ghosts, World
<1> HIDE DEF s
<1>5. thread'[p] = s
  BY <1>1, <1>4, FrameSet
<1>6. now \in Nat /\ now <= now /\ \A t \in Tools : failedAt[t] <= now
  BY <1>1 DEF WorldInv
<1>7. CallInv(p)'
  <2>1. FrameTyped(p)'
    <3>1. Framed(thread[p])'
      BY <1>3, <1>5 DEF Framed
    <3> QED
      BY <1>3, <1>4, <1>5, <1>6, <3>1, Zenon DEF FrameTyped
  <2>2. HonestTable(thread[p].copy, now, passedAt)'
    BY <1>2, <1>3, <1>5 DEF HonestTable
  <2>3. Newest(p)' /\ OfTheCall(p)' /\ OfTheDeclared(p)'
    BY <1>2, <1>3, <1>4, <1>5, <1>6 DEF Newest, CallAt, OfTheCall, OfTheDeclared
  <2> QED
    BY <2>1, <2>2, <2>3 DEF CallInv
<1>8. passedAt' \in [Tools -> SUBSET Nat] /\ \A t \in Tools : passedAt[t] \subseteq passedAt'[t]
  BY <1>1, <1>4 DEF WorldInv
<1> QED
  BY <1>4, <1>7, <1>8, QuietSteps

\* A probe of t by p has ended and leaves the frame s: its reading e replaces the one of the
\* tool, or the tool leaves the copy.
Probed(p, s, t, e) ==
  /\ CallAt(p, "probing") \/ CallAt(p, "renewing")
  /\ Set(p, s) /\ UNCHANGED <<file, failedAt, overtaken, now, behind>>
  /\ Framed(s) /\ s.pc = thread[p].pc /\ s.torn = FALSE /\ s.at = thread[p].at /\ s.saw = thread[p].saw
  /\ s.probed = thread[p].probed \cup {t}
  /\ thread[p].due \ {t} \subseteq s.due /\ s.due \subseteq Tools
  /\ e.present \in BOOLEAN /\ e.probed = s.at /\ e.failed = 0
  /\ e.present => Meets(e.version, e.required)
  /\ s.pc = "probing" => e.required = Required(s.saw, t)
  /\ \/ s.copy = Without(thread[p].copy, t) /\ passedAt' = passedAt
     \/ /\ s.copy = With(thread[p].copy, t, e)
        /\ passedAt' = IF e.present THEN [passedAt EXCEPT ![t] = passedAt[t] \cup {s.at}] ELSE passedAt

\* It keeps the invariant.
LEMMA Probing ==
  ASSUME PresenceInv, PresenceAssumption, NEW p \in Threads, NEW t \in Tools, NEW s, NEW e, Probed(p, s, t, e)
  PROVE  PresenceInv'
<1> USE DEF Probed
<1> DEFINE c == thread[p].copy
<1>1. WorldInv /\ CallInv(p)
  BY DEF PresenceInv
<1>2. thread'[p] = s
  BY <1>1, FrameSet
<1>3. s.at \in Nat /\ s.at <= now
  BY <1>1 DEF CallInv, FrameTyped
<1>4. /\ passedAt' \in [Tools -> SUBSET Nat] /\ \A x \in Tools : passedAt[x] \subseteq passedAt'[x]
      /\ e.present /\ s.copy # Without(c, t) => s.at \in passedAt'[t]
  BY <1>1, <1>3 DEF WorldInv
<1>5. /\ \A x \in DOMAIN s.copy : x = t \/ (x \in DOMAIN c /\ s.copy[x] = c[x])
      /\ \A x \in DOMAIN c : x = t \/ x \in DOMAIN s.copy
  BY DEF With, Without
<1>6. t \in DOMAIN s.copy => s.copy[t] = e /\ s.copy # Without(c, t)
  BY DEF With, Without
<1>7. CallInv(p)'
  <2>1. FrameTyped(p)'
    <3>1. Framed(thread[p])'
      BY <1>2 DEF Framed
    <3> QED
      BY <1>2, <1>3, <3>1, Zenon DEF FrameTyped
  <2>2. HonestTable(thread[p].copy, now, passedAt)'
    <3>1. \A x \in DOMAIN c : x \in Tools /\ Honest(c[x], now, passedAt[x])
      BY <1>1 DEF CallInv, HonestTable
    <3>2. ASSUME NEW x \in DOMAIN s.copy
          PROVE  x \in Tools /\ Honest(s.copy[x], now, passedAt'[x])
      <4>1. CASE x = t
        BY <1>3, <1>4, <1>6, <4>1 DEF Honest
      <4>2. CASE x # t
        BY <1>4, <1>5, <3>1, <4>2 DEF Honest
      <4> QED
        BY <4>1, <4>2
    <3> QED
      BY <1>2, <3>2 DEF HonestTable, Honest
  <2>3. p \notin behind' => Newest(p)'
    <3> SUFFICES ASSUME p \notin behind PROVE Newest(p)'
      OBVIOUS
    <3>1. /\ \A x \in Tools : failedAt[x] <= thread[p].at
          /\ file # Torn /\ SameBut(c, file, thread[p].probed)
      BY <1>1 DEF CallInv, Newest, CallAt
    <3>2. SameBut(s.copy, file, s.probed)
      BY <1>5, <3>1 DEF SameBut
    <3> QED
      BY <1>2, <3>1, <3>2 DEF Newest, CallAt, SameBut
  <2>4. OfTheCall(p)'
    <3>1. \A x \in thread[p].probed \cap DOMAIN c : c[x].probed = thread[p].at
      BY <1>1 DEF CallInv, OfTheCall
    <3>2. \A x \in s.probed \cap DOMAIN s.copy : s.copy[x].probed = s.at
      BY <1>5, <1>6, <3>1
    <3> QED
      BY <1>2, <3>2 DEF OfTheCall, CallAt
  <2>5. OfTheDeclared(p)'
    <3>1. s.pc = "probing" => \A x \in DOMAIN c \ thread[p].due : c[x].required = Required(s.saw, x)
      BY <1>1 DEF CallInv, OfTheDeclared
    <3>2. s.pc = "probing" => \A x \in DOMAIN s.copy \ s.due : s.copy[x].required = Required(s.saw, x)
      BY <1>5, <1>6, <3>1
    <3> QED
      BY <1>2, <3>2 DEF OfTheDeclared, Required
  <2> QED
    BY <2>1, <2>2, <2>3, <2>4, <2>5 DEF CallInv
<1> QED
  BY <1>4, <1>7, QuietSteps

\* refresh() takes one reading again.
LEMMA RefreshProbes ==
  ASSUME PresenceInv, PresenceAssumption, NEW p \in Threads, RefreshProbe(p)
  PROVE  PresenceInv'
<1>1. CallAt(p, "probing") /\ CallInv(p) /\ UNCHANGED <<file, failedAt, overtaken, now, behind>>
  BY DEF PresenceInv, RefreshProbe, World
<1>2. PICK t \in thread[p].due, crashed \in BOOLEAN :
        LET s == thread[p]
            required == Required(s.saw, t)
            row == Probe(t, host[t], required)
        IN  /\ Set(p, [s EXCEPT !.due = s.due \ {t}, !.probed = s.probed \cup {t},
                         !.copy = IF crashed THEN Without(s.copy, t) ELSE With(s.copy, t, Taken(row, required, s.at))])
            /\ passedAt' = IF ~crashed /\ row.present THEN [passedAt EXCEPT ![t] = passedAt[t] \cup {s.at}] ELSE passedAt
  BY DEF RefreshProbe
<1> DEFINE required == Required(thread[p].saw, t)
           row == Probe(t, host[t], required)
           e == Taken(row, required, thread[p].at)
           copy == IF crashed THEN Without(thread[p].copy, t) ELSE With(thread[p].copy, t, e)
           s == [thread[p] EXCEPT !.due = thread[p].due \ {t}, !.probed = thread[p].probed \cup {t}, !.copy = copy]
<1>3. /\ Set(p, s)
      /\ passedAt' = IF ~crashed /\ row.present THEN [passedAt EXCEPT ![t] = passedAt[t] \cup {thread[p].at}] ELSE passedAt
  BY <1>2
<1>4. row.present \in BOOLEAN /\ (row.present => Meets(row.version, required))
  BY DEF Probe
<1> HIDE DEF row, required
<1>5. /\ e.present = row.present /\ e.version = row.version /\ e.required = required /\ e.probed = thread[p].at /\ e.failed = 0
  BY DEF Taken
<1> HIDE DEF e
<1>6. copy = IF crashed THEN Without(thread[p].copy, t) ELSE With(thread[p].copy, t, e)
  OBVIOUS
<1> HIDE DEF copy
<1>7. Framed(thread[p]) /\ t \in Tools
  BY <1>1 DEF CallInv, FrameTyped
<1>8. /\ s.pc = thread[p].pc /\ s.torn = thread[p].torn /\ s.at = thread[p].at /\ s.saw = thread[p].saw
      /\ s.probed = thread[p].probed \cup {t} /\ s.due = thread[p].due \ {t} /\ s.copy = copy /\ Framed(s)
  BY <1>7 DEF Framed, Fields
<1> HIDE DEF s
<1>9. s.torn = FALSE
  BY <1>1, <1>8 DEF CallAt, CallInv, FrameTyped
<1>10. s.pc = "probing" => e.required = Required(s.saw, t)
  BY <1>5, <1>8 DEF required
<1>11. e.present \in BOOLEAN /\ (e.present => Meets(e.version, e.required)) /\ e.probed = s.at
  BY <1>4, <1>5, <1>8
<1>12. \/ s.copy = Without(thread[p].copy, t) /\ passedAt' = passedAt
       \/ /\ s.copy = With(thread[p].copy, t, e)
          /\ passedAt' = IF e.present THEN [passedAt EXCEPT ![t] = passedAt[t] \cup {s.at}] ELSE passedAt
  BY <1>3, <1>5, <1>6, <1>8
<1>13. thread[p].due \ {t} \subseteq s.due /\ s.due \subseteq Tools
  BY <1>1, <1>8 DEF CallInv, FrameTyped
<1> QED
  <2>1. Probed(p, s, t, e)
    BY <1>1, <1>3, <1>5, <1>8, <1>9, <1>10, <1>11, <1>12, <1>13 DEF Probed
  <2> QED
    BY <1>7, <2>1, Probing

\* renew() takes its reading again, or leaves.
LEMMA RenewProbes ==
  ASSUME PresenceInv, PresenceAssumption, NEW p \in Threads, RenewProbe(p)
  PROVE  PresenceInv'
<1>1. CallAt(p, "renewing") /\ thread[p].probed = {} /\ CallInv(p) /\ UNCHANGED <<file, failedAt, overtaken, now, behind>>
  BY DEF PresenceInv, RenewProbe, World
<1> DEFINE t == thread[p].tool
           e == Renewed(thread[p], host[t])
           copy == With(thread[p].copy, t, e)
           s == [thread[p] EXCEPT !.probed = {t}, !.copy = copy]
<1>2. CASE Set(p, NoCall) /\ UNCHANGED passedAt
  BY <1>1, <1>2, Leaving
<1>3. CASE /\ t \in DOMAIN thread[p].copy /\ Set(p, s)
           /\ passedAt' = IF e.present THEN [passedAt EXCEPT ![t] = passedAt[t] \cup {thread[p].at}] ELSE passedAt
  <2>1. Framed(thread[p]) /\ t \in Tools /\ thread[p].due \subseteq Tools
    BY <1>1, <1>3 DEF CallInv, FrameTyped, HonestTable
  <2>2. /\ e.present \in BOOLEAN /\ (e.present => Meets(e.version, e.required)) /\ e.probed = thread[p].at /\ e.failed = 0
    BY DEF Renewed, Taken, Probe
  <2> HIDE DEF e
  <2>3. copy = With(thread[p].copy, t, e)
    OBVIOUS
  <2> HIDE DEF copy
  <2>4. /\ s.pc = thread[p].pc /\ s.torn = thread[p].torn /\ s.at = thread[p].at /\ s.saw = thread[p].saw
        /\ s.probed = thread[p].probed \cup {t} /\ s.due = thread[p].due /\ s.copy = copy /\ Framed(s)
    BY <1>1, <2>1 DEF Framed, Fields
  <2> HIDE DEF s
  <2>5. s.torn = FALSE /\ s.pc # "probing"
    BY <1>1, <2>4 DEF CallAt, CallInv, FrameTyped
  <2>6. /\ s.copy = With(thread[p].copy, t, e)
        /\ passedAt' = IF e.present THEN [passedAt EXCEPT ![t] = passedAt[t] \cup {s.at}] ELSE passedAt
        /\ e.probed = s.at /\ thread[p].due \ {t} \subseteq s.due /\ s.due \subseteq Tools
    BY <1>3, <2>1, <2>2, <2>3, <2>4
  <2> QED
    <3>1. Probed(p, s, t, e)
      BY <1>1, <1>3, <2>2, <2>4, <2>5, <2>6 DEF Probed
    <3> QED
      BY <2>1, <3>1, Probing
<1> QED
  BY <1>1, <1>2, <1>3 DEF RenewProbe

-----------------------------------------------------------------------------
(* The file is replaced.                                                   *)

\* A save keeps the invariant when what it writes is honest and hides no demotion, but one
\* that came after the call began.
LEMMA Saving ==
  ASSUME PresenceInv, PresenceAssumption, NEW p \in Threads, NEW stored, Set(p, NoCall), Save(p, stored),
         HonestTable(stored, now, passedAt), UNCHANGED <<passedAt, now>>,
         failedAt' \in [Tools -> Nat], \A t \in Tools : failedAt'[t] <= now,
         \A t \in DOMAIN stored : failedAt'[t] = failedAt[t] \/ HasFailed(stored[t]),
         p \notin behind => \A t \in DOMAIN stored :
           \/ file # Torn /\ t \in DOMAIN file /\ file[t] = stored[t]
           \/ failedAt'[t] <= stored[t].probed \/ HasFailed(stored[t])
  PROVE  PresenceInv'
<1>1. WorldInv /\ Onward
  BY DEF PresenceInv, WorldInv, Onward
<1>2. thread'[p] = NoCall /\ thread' = [q \in Threads |-> thread'[q]]
  BY <1>1, FrameSet
<1>3. file' = stored /\ behind' = (behind \cup Others(p)) \ {p}
  BY DEF Save
<1>4. DemotionsAreShown'
  <2> DEFINE changed == {t \in Tools : t \in DOMAIN stored /\ (file # Torn /\ t \in DOMAIN file => file[t] # stored[t])}
  <2>1. overtaken' = IF p \in behind THEN overtaken \cup changed ELSE overtaken \ changed
    BY DEF Save
  <2>2. SUFFICES ASSUME NEW t \in DOMAIN stored
                 PROVE  t \in overtaken' \/ failedAt'[t] <= stored[t].probed \/ HasFailed(stored[t])
    BY <1>3 DEF DemotionsAreShown, HasFailed
  <2>3. t \in Tools
    BY DEF HonestTable
  <2>4. CASE t \in changed
    BY <2>1, <2>3, <2>4
  <2>5. CASE t \notin changed
    <3>1. file # Torn /\ t \in DOMAIN file /\ file[t] = stored[t]
      BY <2>3, <2>5
    <3>2. t \in overtaken \/ failedAt[t] <= stored[t].probed \/ HasFailed(stored[t])
      BY <1>1, <3>1 DEF WorldInv, DemotionsAreShown
    <3> QED
      BY <2>1, <2>5, <3>2
  <2> QED
    BY <2>4, <2>5
<1>5. WorldInv'
  <2>1. HonestTable(file, now, passedAt)'
    BY <1>3 DEF HonestTable, Honest
  <2> QED
    BY <1>1, <1>2, <1>4, <2>1 DEF WorldInv
<1>6. CallInv(p)'
  BY <1>2, <1>5, IdleStands
<1>7. \A q \in Threads \ {p} : q \in behind' \/ CallAt(q, "idle")
  BY <1>3 DEF Others
<1> QED
  BY <1>1, <1>5, <1>6, <1>7, CallSteps

\* The saves of refresh() and renew(): a reading that they did not take is as it was.
LEMMA Keeping ==
  ASSUME PresenceInv, PresenceAssumption, NEW p \in Threads, CallAt(p, "probing") \/ CallAt(p, "renewing"),
         Set(p, NoCall), Save(p, thread[p].copy), UNCHANGED <<failedAt, passedAt, now>>
  PROVE  PresenceInv'
<1> DEFINE c == thread[p].copy
<1>1. WorldInv /\ CallInv(p) /\ HonestTable(c, now, passedAt)
  BY DEF PresenceInv, CallInv
<1>2. failedAt' \in [Tools -> Nat] /\ \A t \in Tools : failedAt'[t] <= now
  BY <1>1 DEF WorldInv
<1>3. ASSUME p \notin behind, NEW t \in DOMAIN c
      PROVE  \/ file # Torn /\ t \in DOMAIN file /\ file[t] = c[t]
             \/ failedAt'[t] <= c[t].probed
  <2>1. t \in Tools
    BY <1>1 DEF HonestTable
  <2>2. failedAt[t] <= thread[p].at /\ file # Torn /\ SameBut(c, file, thread[p].probed)
    BY <1>1, <1>3, <2>1 DEF CallInv, Newest, CallAt
  <2>3. CASE t \in thread[p].probed
    BY <1>1, <2>2, <2>3 DEF CallInv, OfTheCall
  <2>4. CASE t \notin thread[p].probed
    BY <2>1, <2>2, <2>4 DEF SameBut
  <2> QED
    BY <2>3, <2>4
<1> QED
  BY <1>1, <1>2, <1>3, Saving

\* refresh() and renew() save what they took, or nothing.
LEMMA SaveSteps ==
  ASSUME PresenceInv, PresenceAssumption, NEW p \in Threads, RefreshSave(p) \/ RenewSave(p)
  PROVE  PresenceInv'
<1>1. Set(p, NoCall) /\ UNCHANGED <<failedAt, passedAt, now>>
  BY DEF RefreshSave, RenewSave, World
<1>2. CASE UNCHANGED <<file, behind, overtaken>>
  BY <1>1, <1>2, Leaving
<1>3. CASE Save(p, thread[p].copy) /\ (CallAt(p, "probing") \/ CallAt(p, "renewing"))
  BY <1>1, <1>3, Keeping
<1> QED
  BY <1>2, <1>3 DEF RefreshSave, RenewSave

\* demote() writes that a tool failed now, if the file it read had the tool.
LEMMA DemoteSaves ==
  ASSUME PresenceInv, PresenceAssumption, NEW p \in Threads, DemoteSave(p)
  PROVE  PresenceInv'
<1> DEFINE c == thread[p].copy
           hit == thread[p].due \cap DOMAIN c
           stored == [t \in DOMAIN c |-> IF t \in hit THEN Demoted(c[t], now) ELSE c[t]]
<1>1. WorldInv /\ CallInv(p) /\ HonestTable(c, now, passedAt)
  BY DEF PresenceInv, CallInv
<1>2. /\ CallAt(p, "demoting") /\ Set(p, NoCall) /\ UNCHANGED <<passedAt, now>>
      /\ failedAt' = [t \in Tools |-> IF t \in hit THEN now ELSE failedAt[t]]
  BY DEF DemoteSave, World
<1>3. CASE hit = {} /\ UNCHANGED <<file, behind, overtaken>>
  <2>1. failedAt' = failedAt
    BY <1>1, <1>2, <1>3 DEF WorldInv
  <2> QED
    BY <1>2, <1>3, <2>1, Leaving
<1>4. CASE Save(p, stored)
  <2>1. /\ DOMAIN stored = DOMAIN c
        /\ \A t \in DOMAIN c : stored[t] = IF t \in hit THEN Demoted(c[t], now) ELSE c[t]
    OBVIOUS
  <2> HIDE DEF stored
  <2>2. now \in Nat \ {0} /\ \A t \in DOMAIN c : t \in Tools /\ Honest(c[t], now, passedAt[t])
    BY <1>1 DEF WorldInv, HonestTable
  <2>3. \A t \in hit : HasFailed(stored[t]) /\ Honest(stored[t], now, passedAt[t])
    <3> SUFFICES ASSUME NEW t \in hit
                 PROVE  HasFailed(stored[t]) /\ Honest(stored[t], now, passedAt[t])
      OBVIOUS
    <3>1. t \in DOMAIN c /\ stored[t] = Demoted(c[t], now)
      BY <2>1
    <3>2. /\ stored[t].present = c[t].present /\ stored[t].version = c[t].version /\ stored[t].required = c[t].required
          /\ stored[t].probed = c[t].probed /\ stored[t].failed = now
      BY <3>1 DEF Demoted
    <3>3. Honest(c[t], now, passedAt[t])
      BY <2>2, <3>1
    <3>4. HasFailed(stored[t])
      BY <2>2, <3>2, <3>3 DEF HasFailed, Honest
    <3>5. Honest(stored[t], now, passedAt[t])
      BY <2>2, <3>2, <3>3 DEF Honest
    <3> QED
      BY <3>4, <3>5
  <2>4. HonestTable(stored, now, passedAt)
    BY <2>1, <2>2, <2>3 DEF HonestTable
  <2>5. failedAt' \in [Tools -> Nat] /\ \A t \in Tools : failedAt'[t] <= now
    BY <1>1, <1>2 DEF WorldInv
  <2>6. \A t \in DOMAIN stored : failedAt'[t] = failedAt[t] \/ HasFailed(stored[t])
    BY <1>2, <2>1, <2>2, <2>3
  <2>7. p \notin behind => \A t \in DOMAIN stored :
          \/ file # Torn /\ t \in DOMAIN file /\ file[t] = stored[t]
          \/ HasFailed(stored[t])
    <3> SUFFICES ASSUME p \notin behind, NEW t \in DOMAIN c, t \notin hit
                 PROVE  file # Torn /\ t \in DOMAIN file /\ file[t] = stored[t]
      BY <2>1, <2>3
    <3>1. file # Torn /\ SameBut(c, file, {})
      BY <1>1, <1>2 DEF CallInv, Newest, OfTheCall, CallAt
    <3> QED
      BY <2>1, <2>2, <3>1 DEF SameBut
  <2> QED
    BY <1>2, <1>4, <2>4, <2>5, <2>6, <2>7, Saving
<1> QED
  BY <1>3, <1>4 DEF DemoteSave

\* An unreadable file is moved away, whatever it is by then.
LEMMA QuarantineSteps ==
  ASSUME PresenceInv, PresenceAssumption, NEW p \in Threads, Quarantine(p)
  PROVE  PresenceInv'
<1> DEFINE s == [thread[p] EXCEPT !.torn = FALSE]
<1>1. WorldInv /\ CallInv(p) /\ Framed(thread[p])
  BY DEF PresenceInv, CallInv, FrameTyped
<1>2. /\ thread[p].torn /\ Set(p, s) /\ file' = Empty /\ behind' = behind \cup Others(p)
      /\ UNCHANGED <<failedAt, passedAt, overtaken, now>>
  BY DEF Quarantine, Ghosts, World
<1>3. /\ s.pc = thread[p].pc /\ s.torn = FALSE /\ s.at = thread[p].at /\ s.copy = Empty /\ s.due = thread[p].due
      /\ s.probed = {} /\ Framed(s)
  BY <1>1, <1>2 DEF Framed, Fields, CallInv, OfTheCall
<1> HIDE DEF s
<1>4. thread'[p] = s /\ thread' = [q \in Threads |-> thread'[q]] /\ DOMAIN Empty = {}
  BY <1>1, <1>2, FrameSet DEF Empty
<1>5. WorldInv'
  BY <1>1, <1>2, <1>4 DEF WorldInv, HonestTable, DemotionsAreShown
<1>6. CallInv(p)'
  <2>1. FrameTyped(p)'
    <3>1. Framed(thread[p])' /\ thread'[p].at <= now'
      BY <1>1, <1>2, <1>3, <1>4 DEF Framed, CallInv, FrameTyped
    <3> QED
      BY <1>1, <1>2, <1>3, <1>4, <3>1, Zenon DEF FrameTyped, CallInv
  <2>2. HonestTable(thread[p].copy, now, passedAt)'
    BY <1>3, <1>4 DEF HonestTable
  <2>3. p \notin behind' => Newest(p)'
    BY <1>1, <1>2, <1>3, <1>4 DEF CallInv, Newest, CallAt, SameBut, PresenceAssumption
  <2>4. OfTheCall(p)' /\ OfTheDeclared(p)'
    BY <1>3, <1>4 DEF OfTheCall, OfTheDeclared
  <2> QED
    BY <2>1, <2>2, <2>3, <2>4 DEF CallInv
<1>7. \A q \in Threads \ {p} : q \in behind' \/ CallAt(q, "idle")
  BY <1>2 DEF Others
<1>8. Onward
  BY <1>1, <1>2 DEF Onward, WorldInv
<1> QED
  BY <1>2, <1>5, <1>6, <1>7, <1>8, CallSteps

-----------------------------------------------------------------------------
(* The invariant.                                                          *)

\* No call steps: the host, the declaration or the disk changes, or time passes.
LEMMA WorldSteps ==
  ASSUME PresenceInv, PresenceAssumption, HostChanges \/ ManifestChanges \/ Damage \/ Tick \/ UNCHANGED presenceVars
  PROVE  PresenceInv'
<1>1. WorldInv /\ now \in Nat /\ passedAt \in [Tools -> SUBSET Nat] /\ UNCHANGED <<thread, failedAt, overtaken>>
  BY DEF PresenceInv, WorldInv, HostChanges, ManifestChanges, Damage, Tick, Callers, presenceVars
<1>2. thread' = [q \in Threads |-> thread'[q]]
  BY <1>1 DEF WorldInv
<1>3. CASE UNCHANGED <<file, behind>> /\ Onward
  <2>1. WorldInv'
    BY <1>1, <1>2, <1>3, WorldStands
  <2>2. \A q \in Threads : CallInv(q)'
    BY <1>1, <1>3, OthersStand
  <2> QED
    BY <2>1, <2>2 DEF PresenceInv
<1>4. CASE HostChanges \/ ManifestChanges \/ UNCHANGED presenceVars
  <2>1. UNCHANGED <<file, behind, now, passedAt>>
    BY <1>4 DEF HostChanges, ManifestChanges, presenceVars
  <2> QED
    BY <1>1, <1>3, <2>1 DEF Onward
<1>5. CASE Tick
  <2>1. Onward
    BY <1>1, <1>5 DEF Tick, Onward
  <2> QED
    BY <1>3, <1>5, <2>1 DEF Tick
<1>6. CASE Damage
  <2>1. /\ file' = Torn /\ behind' = behind \cup {q \in Threads : ~CallAt(q, "idle")} /\ UNCHANGED <<now, passedAt>>
    BY <1>6 DEF Damage
  <2>2. Onward
    BY <1>1, <2>1 DEF Onward
  <2>3. WorldInv'
    BY <1>1, <1>2, <2>1 DEF WorldInv, DemotionsAreShown
  <2>4. \A q \in Threads : CallInv(q)'
    BY <1>1, <2>1, <2>2, OthersStand
  <2> QED
    BY <2>3, <2>4 DEF PresenceInv
<1> QED
  BY <1>4, <1>5, <1>6

\* Every step keeps the invariant.
LEMMA PresenceSteps ==
  ASSUME PresenceInv, PresenceAssumption, [PresenceNext]_presenceVars
  PROVE  PresenceInv'
<1>1. CASE HostChanges \/ ManifestChanges \/ Damage \/ Tick \/ UNCHANGED presenceVars
  BY <1>1, WorldSteps
<1>2. ASSUME NEW p \in Threads,
             \/ Refresh(p) \/ RefreshLoad(p) \/ RefreshProbe(p) \/ RefreshSave(p) \/ RenewCheck(p) \/ RenewProbe(p)
             \/ RenewSave(p) \/ DemoteSave(p) \/ Quarantine(p) \/ Look(p) \/ \E t \in Tools : Renew(p, t) \/ Demote(p, t)
      PROVE  PresenceInv'
  <2>1. CASE Look(p) \/ RefreshLoad(p) \/ RenewCheck(p) \/ \E t \in Tools : Renew(p, t) \/ Demote(p, t)
    BY <2>1, LoadSteps
  <2>2. CASE Refresh(p)
    BY <2>2, RefreshBegins
  <2>3. CASE RefreshProbe(p)
    BY <2>3, RefreshProbes
  <2>4. CASE RenewProbe(p)
    BY <2>4, RenewProbes
  <2>5. CASE RefreshSave(p) \/ RenewSave(p)
    BY <2>5, SaveSteps
  <2>6. CASE DemoteSave(p)
    BY <2>6, DemoteSaves
  <2>7. CASE Quarantine(p)
    BY <2>7, QuarantineSteps
  <2> QED
    BY <1>2, <2>1, <2>2, <2>3, <2>4, <2>5, <2>6, <2>7
<1> QED
  BY <1>1, <1>2 DEF PresenceNext

\* The invariant of every reachable state.
LEMMA PresenceStands ==
  ASSUME PresenceAssumption
  PROVE  PresenceSpec => []PresenceInv
<1>1. PresenceInit => PresenceInv
  BY PresenceBegins
<1>2. PresenceInv /\ [PresenceNext]_presenceVars => PresenceInv'
  BY PresenceSteps
<1> QED
  BY <1>1, <1>2, PTL DEF PresenceSpec

\* presence.py:3-14: a tool that reads present passed all the steps of a probe within the time a
\* reading holds, at a version inside the bounds it was taken against, and did not fail since
\* but for a demotion that was overwritten by a call that began before it.
THEOREM PresenceIsBacked ==
  ASSUME PresenceAssumption
  PROVE  PresenceSpec => []PresentIsBacked
<1>1. ASSUME PresenceInv
      PROVE  PresentIsBacked
  <2> SUFFICES ASSUME file # Torn, NEW t \in DOMAIN file, Cached(file, t, now) = "present"
               PROVE  /\ file[t].probed \in passedAt[t]
                      /\ Meets(file[t].version, file[t].required)
                      /\ t \in overtaken \/ failedAt[t] <= file[t].probed
    BY DEF PresentIsBacked
  <2>1. ~HasFailed(file[t]) /\ ~Expired(file[t], now) /\ file[t].present
    BY DEF Cached, Verdict
  <2>2. Honest(file[t], now, passedAt[t])
    BY <1>1 DEF PresenceInv, WorldInv, HonestTable
  <2>3. now - file[t].probed < Ttl
    BY <1>1, <2>1, <2>2 DEF Expired, Honest, PresenceInv, WorldInv, PresenceAssumption
  <2>4. t \in overtaken \/ failedAt[t] <= file[t].probed
    BY <1>1, <2>1 DEF PresenceInv, WorldInv, DemotionsAreShown
  <2> QED
    BY <2>1, <2>2, <2>3, <2>4 DEF Honest
<1> QED
  BY <1>1, PresenceStands, PTL

\* A refresh that probes ends by its save.
LEMMA RefreshEnds ==
  ASSUME PresenceInv, [PresenceNext]_presenceVars, NEW p \in Threads, CallAt(p, "probing"), thread'[p].pc = "idle"
  PROVE  RefreshSave(p)
<1>1. WorldInv /\ Framed(thread[p]) /\ thread[p].pc = "probing" /\ ~thread[p].torn
  BY DEF PresenceInv, CallInv, FrameTyped, CallAt
<1>2. CASE HostChanges \/ ManifestChanges \/ Damage \/ Tick \/ UNCHANGED presenceVars
  BY <1>1, <1>2 DEF HostChanges, ManifestChanges, Damage, Tick, Callers, presenceVars
<1>3. ASSUME NEW q \in Threads, NEW s, Set(q, s), q # p
      PROVE  FALSE
  BY <1>1, <1>3 DEF Set, WorldInv
<1>4. ASSUME NEW q \in Threads, RefreshProbe(q) \/ RefreshSave(q) \/ RenewProbe(q) \/ RenewSave(q) \/ DemoteSave(q), q # p
      PROVE  FALSE
  BY <1>3, <1>4 DEF RefreshProbe, RefreshSave, RenewProbe, RenewSave, DemoteSave
<1>5. ASSUME NEW q \in Threads, q # p,
             Refresh(q) \/ RefreshLoad(q) \/ RenewCheck(q) \/ Quarantine(q) \/ Look(q) \/ \E t \in Tools : Renew(q, t) \/ Demote(q, t)
      PROVE  FALSE
  BY <1>3, <1>5 DEF Refresh, RefreshLoad, RenewCheck, Quarantine, Look, Renew, Demote, LoadFile
<1>6. CASE RefreshProbe(p)
  <2>1. PICK t, copy :
          Set(p, [thread[p] EXCEPT !.due = thread[p].due \ {t}, !.probed = thread[p].probed \cup {t}, !.copy = copy])
    BY <1>6 DEF RefreshProbe
  <2> DEFINE s == [thread[p] EXCEPT !.due = thread[p].due \ {t}, !.probed = thread[p].probed \cup {t}, !.copy = copy]
  <2>2. s.pc = "probing"
    BY <1>1 DEF Framed, Fields
  <2> QED
    BY <1>1, <2>1, <2>2 DEF Set, WorldInv
<1>7. ASSUME \/ Refresh(p) \/ RefreshLoad(p) \/ RenewCheck(p) \/ RenewProbe(p) \/ RenewSave(p) \/ DemoteSave(p)
             \/ Quarantine(p) \/ Look(p) \/ \E t \in Tools : Renew(p, t) \/ Demote(p, t)
      PROVE  FALSE
  BY <1>1, <1>7 DEF Refresh, RefreshLoad, RenewCheck, RenewProbe, RenewSave, DemoteSave, Quarantine, Look, Renew, Demote, CallAt
<1> QED
  BY <1>2, <1>4, <1>5, <1>6, <1>7 DEF PresenceNext

\* presence.py:269: what refresh() leaves present meets the bounds that the repository declared
\* when it was called, whatever bounds the reading was first taken against.
THEOREM RefreshesJudgeAnew ==
  ASSUME PresenceAssumption
  PROVE  PresenceSpec => RefreshJudgesAnew
<1>1. ASSUME PresenceInv, [PresenceNext]_presenceVars
      PROVE  RefreshLeavesWhatMeets
  <2> SUFFICES ASSUME NEW p \in Threads, CallAt(p, "probing"), thread'[p].pc = "idle", p \notin behind,
                      NEW t \in DOMAIN file', Cached(file', t, thread[p].at) = "present"
               PROVE  Meets(file'[t].version, Required(thread[p].saw, t))
    BY DEF RefreshLeavesWhatMeets
  <2> DEFINE c == thread[p].copy
  <2>1. WorldInv /\ CallInv(p) /\ HonestTable(c, now, passedAt) /\ file # Torn /\ SameBut(c, file, thread[p].probed)
    BY <1>1 DEF PresenceInv, CallInv, Newest
  <2>2. RefreshSave(p)
    BY <1>1, RefreshEnds
  <2>3. t \in DOMAIN c /\ file'[t] = c[t]
    <3>1. CASE thread[p].probed # {}
      BY <2>2, <3>1 DEF RefreshSave, Save
    <3>2. CASE thread[p].probed = {}
      <4>1. file' = file /\ t \in Tools
        BY <2>1, <2>2, <3>2 DEF RefreshSave, WorldInv, HonestTable
      <4> QED
        BY <2>1, <3>2, <4>1 DEF SameBut
    <3> QED
      BY <3>1, <3>2
  <2>4. c[t].required = Required(thread[p].saw, t)
    BY <2>1, <2>2, <2>3 DEF CallInv, OfTheDeclared, RefreshSave, CallAt
  <2>5. c[t].present /\ Honest(c[t], now, passedAt[t])
    BY <2>1, <2>3 DEF Cached, Verdict, HonestTable
  <2> QED
    BY <2>3, <2>4, <2>5 DEF Honest
<1> QED
  BY <1>1, PresenceStands, PTL DEF PresenceSpec, RefreshJudgesAnew

-----------------------------------------------------------------------------
(* The clean-up of an account.                                             *)

\* What is to be deleted, and what was, is directly under the root, and no job that the queue
\* listed runs below it; nothing is deleted before the queue was read, nor after a refusal.
Spared(t) == \A j \in clean.saw : ~IsPrefix(t, JobDirs[j])
CleanInv ==
  /\ clean = [i \in {"pc", "names", "dry", "targets", "saw", "left", "code"} |-> clean[i]]
  /\ \A t \in clean.targets \cup gone : Contained(t) /\ Spared(t)
  /\ \A t \in gone : t \notin Foreign
  /\ clean.pc \in {"idle", "resolve"} => clean.saw = {} /\ gone = {} /\ clean.code = 0
  /\ CleanAt("delete") => clean.code = 0 /\ ~clean.dry
  /\ clean.code = 2 \/ clean.dry => gone = {}

LEMMA CleanSteps == CleanInv /\ [CleanNext]_cleanVars => CleanInv'
<1> SUFFICES ASSUME CleanInv, [CleanNext]_cleanVars PROVE CleanInv'
  OBVIOUS
<1> USE DEF CleanInv, Spared, CleanAt, JobsStay
<1>1. CASE Invoke
  BY <1>1 DEF Invoke, NoClean
<1>2. CASE Resolve
  <2> PICK n \in clean.names :
        IF n \notin DOMAIN RealOf \/ ~Contained(Real(n)) THEN Refuse
        ELSE clean' = [clean EXCEPT !.names = @ \ {n},
                         !.targets = @ \cup IF Real(n) \in exists THEN {Real(n)} ELSE {}]
    BY <1>2 DEF Resolve
  <2>1. clean.saw = {} /\ gone = {} /\ UNCHANGED <<exists, gone, running, ended>>
    BY <1>2 DEF Resolve
  <2>2. CASE n \notin DOMAIN RealOf \/ ~Contained(Real(n))
    BY <2>1, <2>2 DEF Refuse
  <2>3. CASE ~(n \notin DOMAIN RealOf \/ ~Contained(Real(n)))
    <3>1. clean' = [clean EXCEPT !.names = @ \ {n},
                      !.targets = @ \cup IF Real(n) \in exists THEN {Real(n)} ELSE {}]
      BY <2>3
    <3>2. /\ \A t \in clean'.targets : t \in clean.targets \/ Contained(t)
          /\ clean'.saw = {} /\ clean'.pc = clean.pc
      BY <2>1, <2>3, <3>1
    <3> QED
      BY <1>2, <2>1, <3>1, <3>2 DEF Resolve
  <2> QED
    BY <2>2, <2>3
<1>3. CASE Squeue
  <2>1. clean.saw = {} /\ gone = {} /\ UNCHANGED <<exists, gone, running, ended>>
    BY <1>3 DEF Squeue
  <2>2. CASE RunningUnder(running, clean.targets) # {}
    BY <1>3, <2>1, <2>2 DEF Squeue, Refuse
  <2>3. CASE RunningUnder(running, clean.targets) = {}
    <3>1. clean' = [clean EXCEPT !.pc = IF clean.dry THEN "exit" ELSE "delete", !.saw = running]
      BY <1>3, <2>3 DEF Squeue
    <3>2. \A t \in clean.targets, j \in running : ~IsPrefix(t, JobDirs[j])
      BY <2>3 DEF RunningUnder
    <3>3. /\ clean'.targets = clean.targets /\ clean'.saw = running /\ clean'.dry = clean.dry
          /\ clean'.pc = IF clean.dry THEN "exit" ELSE "delete"
          /\ clean'.code = clean.code
      BY <3>1
    <3> QED
      BY <1>3, <2>1, <3>1, <3>2, <3>3 DEF Squeue
  <2> QED
    BY <2>2, <2>3
<1>4. CASE Delete
  <2> PICK t \in clean.targets :
        IF t \in Foreign
        THEN UNCHANGED <<exists, gone>> /\ clean' = [clean EXCEPT !.targets = @ \ {t}, !.left = @ + 1]
        ELSE exists' = exists \ {t} /\ gone' = gone \cup {t} /\ clean' = [clean EXCEPT !.targets = @ \ {t}]
    BY <1>4 DEF Delete
  <2>1. CASE t \in Foreign
    BY <1>4, <2>1 DEF Delete
  <2>2. CASE t \notin Foreign
    <3>1. gone' = gone \cup {t} /\ clean' = [clean EXCEPT !.targets = @ \ {t}]
      BY <2>2
    <3>2. /\ clean'.targets = clean.targets \ {t} /\ clean'.saw = clean.saw
          /\ clean'.pc = "delete" /\ clean'.code = 0 /\ ~clean'.dry
      BY <1>4, <3>1 DEF Delete
    <3>3. \A u \in clean'.targets \cup gone' : u \in clean.targets \cup gone
      BY <3>1, <3>2
    <3> QED
      BY <2>2, <3>1, <3>2, <3>3
  <2> QED
    BY <2>1, <2>2
<1>5. CASE CleanExit
  <2>1. /\ clean'.targets = clean.targets /\ clean'.saw = clean.saw /\ clean'.dry = clean.dry
        /\ clean'.pc = "exit" /\ clean'.code # 2 /\ gone' = gone
    BY <1>5 DEF CleanExit
  <2> QED
    BY <1>5, <2>1 DEF CleanExit
<1>6. CASE Leave
  BY <1>6 DEF Leave, NoClean
<1>7. CASE \E j \in Jobs : JobStarts(j) \/ JobEnds(j)
  BY <1>7 DEF JobStarts, JobEnds
<1>8. CASE UNCHANGED cleanVars
  BY <1>8 DEF cleanVars
<1> QED
  BY <1>1, <1>2, <1>3, <1>4, <1>5, <1>6, <1>7, <1>8 DEF CleanNext

\* clean.py:12-20: for every account, any names, links out of the root and jobs that start and end
\* meanwhile, what goes lies directly under the root, is no other account's and holds no job that
\* ran when the queue was read; a refusal and a dry run delete nothing.
THEOREM CleanStands == CleanSpec => []CleanSparesTheRest
<1>1. CleanInit => CleanInv
  BY DEF CleanInit, CleanInv, NoClean, CleanAt, Spared
<1>2. CleanInv => CleanSparesTheRest
  BY DEF CleanInv, CleanSparesTheRest, CleanAt, RunningUnder, Spared
<1> QED
  BY <1>1, <1>2, CleanSteps, PTL DEF CleanSpec

-----------------------------------------------------------------------------
(* The trees and builds of an account.                                     *)

\* A submit's frame, of which it changes parts.
SubmitFields == {"pc", "sha", "python", "kind", "packs", "key", "sel", "known", "at"}
Asked == UNION {{Todo[p][i] : i \in 1 .. Len(Todo[p])} : p \in Submits}
Active(s) == s.pc # "idle"
SubmitTyped(s) ==
  /\ s = [i \in SubmitFields |-> s[i]]
  /\ s.at \in Nat \ {0} /\ s.sel \in BOOLEAN
  /\ Active(s) => \E a \in Asked : s.sha = a.sha /\ s.python = a.python

File == [there : BOOLEAN, writers : SUBSET Submits, alone : BOOLEAN, whole : BOOLEAN]
HomeTyped ==
  /\ tree = [s \in Shas |-> tree[s]] /\ entry = [s \in Shas |-> entry[s]] /\ out = [s \in Shas |-> out[s]]
  /\ proc = [p \in Submits |-> proc[p]]
  /\ art \in [Shas -> [file : File, part : File]]
  /\ \A p \in Submits : SubmitTyped(proc[p])

\* Two that work on one commit at once have crossed.
CrossedAreTold ==
  \A p, q \in Submits : p # q /\ Active(proc[p]) /\ Active(proc[q]) /\ proc[p].sha = proc[q].sha => proc[p].sha \in crossed

\* What stands in a directory serves whoever asks for its key.
Native(held, s) == held.native = Commits[s.sha].native /\ Serves(held.env, s)
StandsFor(held, key) ==
  \A a \in Asked :
    /\ key = EnvKey(a) => Serves(held, a)
    /\ key = NativeKey(a) /\ key # NoKey => Native(held, a)
DirsServe == \A key \in DOMAIN dirs : dirs[key].done /\ StandsFor(dirs[key].holds, key)

\* What a submit builds, and what it has built.
Building(s, keys) ==
  /\ s.pc \in {"fetched", "adding"} => s.kind = "run"
  /\ s.pc = "packing" => s.kind # "run"
  /\ s.pc \in {"wants", "building"} =>
       \/ s.kind = "run" /\ s.key = EnvKey(s)
       \/ s.key = NativeKey(s) /\ s.key # NoKey /\ (s.kind = "run" => EnvKey(s) \in keys)
  /\ s.pc \in {"built", "collects", "collecting", "cat"} =>
       EnvKey(s) \in keys /\ (NativeKey(s) # NoKey => NativeKey(s) \in keys)
Entered(s, entered) ==
  s.pc \in {"collects", "collecting", "cat"} => entered = [env |-> EnvKey(s), native |-> NativeKey(s)]

\* An artifact, and the file that becomes one.
Packed(p, s, part) ==
  /\ s.pc = "writing" => part.there /\ part.alone /\ p \in part.writers
  /\ s.pc = "moving" /\ part.there => part.whole
WritersWrite == \A s \in Shas : \A p \in art[s].part.writers : SubmitAt(p, "writing") /\ proc[p].sha = s

OfTheSubmit(p) ==
  LET s == proc[p]
  IN  /\ Building(s, DOMAIN dirs)
      /\ Active(s) /\ s.sha \notin crossed => Entered(s, entry[s.sha]) /\ Packed(p, s, art[s.sha].part)

BuildsInv ==
  /\ HomeTyped /\ CrossedAreTold /\ DirsServe /\ WritersWrite /\ ArtifactIsWhole
  /\ \A p \in Submits : OfTheSubmit(p)

\* What tests a file yields at a path, under a conftest and a marker.
Yields(blob, path, key) == {<<path, t>> : t \in {x \in TestsIn[blob][key.shared] : key.seed.sel => x \in Marked}}
\* A file's content lies at one path in every commit.
NothingMoves ==
  \A c, d \in Shas : \A x \in Paths(c), y \in Paths(d) : Commits[c].files[x] = Commits[d].files[y] => x = y
RightIds(known, key) ==
  \A c \in Shas : \A x \in Paths(c) :
    Commits[c].files[x] \in DOMAIN known => known[Commits[c].files[x]] = Yields(Commits[c].files[x], x, key)
CollectInv ==
  /\ \A key \in DOMAIN store : RightIds(store[key], key)
  /\ \A p \in Submits : SubmitAt(p, "collecting") => RightIds(proc[p].known, GlobalKey(proc[p]))
  /\ CollectsItsCommit

-----------------------------------------------------------------------------
(* Keys.                                                                   *)

\* A key names its inputs: whoever asks for it is served by what a build of it makes.
LEMMA KeysServe ==
  ASSUME NEW s, NEW a, EnvKey(s) = EnvKey(a)
  PROVE  Serves(EnvOf(s), a)
<1> DEFINE c == Commits[s.sha]
           d == Commits[a.sha]
<1>1. /\ (IF c.shares THEN c.deps ELSE s.sha) = (IF d.shares THEN d.deps ELSE a.sha)
      /\ Recipe(c) = Recipe(d) /\ s.python = a.python
  BY DEF EnvKey
<1>2. c.install = d.install /\ (~c.shares) = (~d.shares)
  BY <1>1 DEF Recipe
<1>3. Recipe(c).project = ~c.shares
  BY DEF Recipe
<1> QED
  BY <1>1, <1>2, <1>3 DEF Serves, EnvOf

LEMMA KeysDiffer ==
  ASSUME NEW s, NEW a
  PROVE  EnvKey(s) # NativeKey(a) /\ EnvKey(s) # NoKey
<1>1. "of" \in DOMAIN EnvKey(s) /\ "by" \in DOMAIN EnvKey(s) /\ "by" \notin DOMAIN NoKey
  BY DEF EnvKey, NoKey
<1>2. NativeKey(a) = NoKey \/ "of" \notin DOMAIN NativeKey(a)
  BY DEF NativeKey
<1> QED
  BY <1>1, <1>2

LEMMA NativeKeysServe ==
  ASSUME NEW s, NEW a, NativeKey(s) = NativeKey(a), NativeKey(s) # NoKey
  PROVE  Native([native |-> Commits[s.sha].native, env |-> EnvOf(s)], a)
<1>1. NativeKey(s) = [native |-> Commits[s.sha].native, env |-> EnvKey(s)]
  BY DEF NativeKey
<1>2. NativeKey(s).native = Commits[s.sha].native /\ NativeKey(s).env = EnvKey(s)
  BY <1>1
<1>3. NativeKey(a).native = Commits[a.sha].native /\ NativeKey(a).env = EnvKey(a)
  <2>1. NativeKey(a) = [native |-> Commits[a.sha].native, env |-> EnvKey(a)]
    BY DEF NativeKey
  <2> QED
    BY ONLY <2>1
<1>4. Commits[s.sha].native = Commits[a.sha].native /\ EnvKey(s) = EnvKey(a)
  BY <1>2, <1>3
<1>5. Serves(EnvOf(s), a)
  BY <1>4, KeysServe
<1> QED
  BY <1>4, <1>5 DEF Native

\* What a submit builds serves whoever asks for its key.
LEMMA MadeStands ==
  ASSUME NEW s, NEW key, key = EnvKey(s) \/ key = NativeKey(s)
  PROVE  StandsFor(Made(key, s), key)
<1>1. ASSUME NEW a \in Asked, key = EnvKey(a)
      PROVE  Serves(Made(key, s), a)
  <2>1. key = EnvKey(s)
    BY <1>1, KeysDiffer
  <2> QED
    BY <1>1, <2>1, KeysServe DEF Made
<1>2. ASSUME NEW a \in Asked, key = NativeKey(a), key # NoKey
      PROVE  Native(Made(key, s), a)
  <2>1. key = NativeKey(s) /\ key # EnvKey(s)
    BY <1>2, KeysDiffer
  <2> QED
    BY <1>2, <2>1, NativeKeysServe DEF Made
<1> QED
  BY <1>1, <1>2 DEF StandsFor

-----------------------------------------------------------------------------
(* One submit moves, and the others stay as they are.                      *)

SubmitOnward(p, s) ==
  /\ Is(p, s) /\ Active(proc[p]) /\ crossed' = crossed
  /\ SubmitTyped(s) /\ (Active(s) => s.sha = proc[p].sha)
ShapesStay ==
  /\ tree' = [c \in Shas |-> tree'[c]] /\ entry' = [c \in Shas |-> entry'[c]] /\ out' = [c \in Shas |-> out'[c]]
  /\ art' \in [Shas -> [file : File, part : File]]
\* A file of another commit, which the submit at most no longer writes.
PartStays(p, old, new) ==
  new.there = old.there /\ new.alone = old.alone /\ new.whole = old.whole /\ old.writers \ {p} \subseteq new.writers
OtherCommitsStay(p) ==
  \A c \in Shas \ {proc[p].sha} : entry'[c] = entry[c] /\ PartStays(p, art[c].part, art'[c].part)

LEMMA ActiveShas ==
  ASSUME BuildsAssumption, NEW s, SubmitTyped(s), Active(s)
  PROVE  s.sha \in Shas
<1>1. ASSUME NEW q \in Submits, NEW i \in 1 .. Len(Todo[q])
      PROVE  Todo[q][i].sha \in Shas
  <2> DEFINE R == [sha : Shas, python : STRING, kind : {"run", "artifact"}, packs : BOOLEAN]
  <2>1. Todo[q] \in Seq(R)
    BY DEF BuildsAssumption, Shas
  <2>2. Todo[q][i] \in R
    <3> HIDE DEF R
    <3> QED
      BY <2>1
  <2> QED
    BY <2>2
<1> QED
  BY <1>1 DEF SubmitTyped, Asked

LEMMA SubmitMoves ==
  ASSUME BuildsAssumption, BuildsInv, NEW p \in Submits, NEW s, SubmitOnward(p, s), ShapesStay, OtherCommitsStay(p),
         DOMAIN dirs \subseteq DOMAIN dirs', DirsServe', WritersWrite', ArtifactIsWhole',
         Building(s, DOMAIN dirs'),
         Active(s) /\ s.sha \notin crossed => Entered(s, entry'[s.sha]) /\ Packed(p, s, art'[s.sha].part)
  PROVE  BuildsInv'
<1> USE DEF BuildsInv, HomeTyped, SubmitOnward
<1>1. /\ proc' = [q \in Submits |-> proc'[q]] /\ proc'[p] = s
      /\ \A q \in Submits \ {p} : proc'[q] = proc[q]
  BY DEF Is
<1>2. HomeTyped'
  <2>1. \A q \in Submits : SubmitTyped(proc'[q])
    BY <1>1
  <2> QED
    BY <1>1, <2>1 DEF ShapesStay, SubmitTyped, Active, Asked, File
<1>3. CrossedAreTold'
  <2> SUFFICES ASSUME NEW q \in Submits, NEW r \in Submits, q # r, Active(proc'[q]), Active(proc'[r]), proc'[q].sha = proc'[r].sha
               PROVE  proc'[q].sha \in crossed
    BY DEF CrossedAreTold, Active
  <2>1. \A u \in Submits : Active(proc'[u]) => Active(proc[u]) /\ proc'[u].sha = proc[u].sha
    BY <1>1
  <2> QED
    BY <2>1 DEF CrossedAreTold
<1>4. OfTheSubmit(p)'
  BY <1>1 DEF OfTheSubmit, Entered, Packed, Building, Active, EnvKey, NativeKey, NoKey, Recipe
<1>5. ASSUME NEW q \in Submits, q # p
      PROVE  OfTheSubmit(q)'
  <2>1. proc'[q] = proc[q] /\ OfTheSubmit(q)
    BY <1>1, <1>5
  <2>2. Building(proc[q], DOMAIN dirs')
    BY <2>1 DEF OfTheSubmit, Building
  <2>3. ASSUME Active(proc[q]), proc[q].sha \notin crossed
        PROVE  Entered(proc[q], entry'[proc[q].sha]) /\ Packed(q, proc[q], art'[proc[q].sha].part)
    <3>1. proc[q].sha \in Shas \ {proc[p].sha}
      BY <1>5, <2>3, ActiveShas DEF CrossedAreTold
    <3>2. Entered(proc[q], entry[proc[q].sha]) /\ Packed(q, proc[q], art[proc[q].sha].part)
      BY <2>1, <2>3 DEF OfTheSubmit
    <3> QED
      BY <1>5, <3>1, <3>2 DEF OtherCommitsStay, PartStays, Entered, Packed
  <2>4. OfTheSubmit(q)' <=>
          /\ Building(proc'[q], DOMAIN dirs')
          /\ Active(proc'[q]) /\ proc'[q].sha \notin crossed' =>
               Entered(proc'[q], entry'[proc'[q].sha]) /\ Packed(q, proc'[q], art'[proc'[q].sha].part)
    BY DEF OfTheSubmit, Active, Entered, Packed, Building, EnvKey, NativeKey, NoKey, Recipe
  <2> QED
    BY <2>1, <2>2, <2>3, <2>4
<1> QED
  BY <1>2, <1>3, <1>4, <1>5

LEMMA DirsStay ==
  ASSUME BuildsInv, UNCHANGED dirs
  PROVE  DirsServe'
<1>1. \A key \in DOMAIN dirs' : dirs'[key].done /\ StandsFor(dirs'[key].holds, key)
  BY DEF BuildsInv, DirsServe
<1> QED
  BY <1>1 DEF DirsServe, StandsFor, Native, Serves, EnvKey, NativeKey, NoKey, Recipe, Asked

\* A move that leaves the artifacts, and what others may read of the home.
LEMMA QuietMoves ==
  ASSUME BuildsAssumption, BuildsInv, NEW p \in Submits, NEW s, SubmitOnward(p, s), ShapesStay,
         \A c \in Shas \ {proc[p].sha} : entry'[c] = entry[c],
         UNCHANGED art, proc[p].pc # "writing", s.pc \notin {"writing", "moving"},
         DOMAIN dirs \subseteq DOMAIN dirs', DirsServe',
         Building(s, DOMAIN dirs'),
         Active(s) /\ s.sha \notin crossed => Entered(s, entry'[s.sha])
  PROVE  BuildsInv'
<1>1. proc'[p] = s /\ \A q \in Submits \ {p} : proc'[q] = proc[q]
  BY DEF SubmitOnward, Is, BuildsInv, HomeTyped
<1>2. WritersWrite'
  <2> SUFFICES ASSUME NEW c \in Shas, NEW q \in art[c].part.writers
               PROVE  proc'[q].pc = "writing" /\ proc'[q].sha = c
    BY DEF WritersWrite, SubmitAt
  <2>1. q \in Submits
    BY DEF BuildsInv, HomeTyped, File
  <2>2. proc[q].pc = "writing" /\ proc[q].sha = c
    BY DEF BuildsInv, WritersWrite, SubmitAt
  <2> QED
    BY <1>1, <2>1, <2>2
<1>3. ArtifactIsWhole'
  BY DEF ArtifactIsWhole, BuildsInv, SubmitOnward
<1>4. OtherCommitsStay(p)
  BY DEF OtherCommitsStay, PartStays
<1>5. Packed(p, s, art'[s.sha].part)
  BY DEF Packed
<1> QED
  BY <1>2, <1>3, <1>4, <1>5, SubmitMoves

\* A move within a commit's files, or of a submit alone.
LEMMA InnerMoves ==
  ASSUME BuildsAssumption, BuildsInv, NEW p \in Submits, NEW s, SubmitOnward(p, s),
         tree' = [c \in Shas |-> tree'[c]], out' = [c \in Shas |-> out'[c]],
         UNCHANGED <<entry, dirs, art>>, proc[p].pc # "writing", s.pc \notin {"writing", "moving"},
         Building(s, DOMAIN dirs),
         Active(s) /\ s.sha \notin crossed => Entered(s, entry[s.sha])
  PROVE  BuildsInv'
<1>1. ShapesStay
  BY DEF ShapesStay, BuildsInv, HomeTyped
<1>2. DirsServe'
  BY DirsStay
<1> QED
  BY <1>1, <1>2, QuietMoves

LEMMA Ending ==
  ASSUME BuildsInv, NEW p \in Submits
  PROVE  /\ SubmitTyped(Finished(p)) /\ ~Active(Finished(p)) /\ Finished(p).pc = "idle"
         /\ SubmitTyped(Again(p)) /\ ~Active(Again(p)) /\ Again(p).pc = "idle"
<1>1. proc[p].at \in Nat \ {0}
  BY DEF BuildsInv, HomeTyped, SubmitTyped
<1>2. Finished(p).at \in Nat \ {0} /\ Again(p).at \in Nat \ {0}
  BY <1>1 DEF Finished, Again, NoSubmit
<1>3. Finished(p).pc = "idle" /\ Again(p).pc = "idle" /\ Finished(p).sel = FALSE /\ Again(p).sel = FALSE
  BY DEF Finished, Again, NoSubmit
<1>4. /\ Finished(p) = [i \in SubmitFields |-> Finished(p)[i]]
      /\ Again(p) = [i \in SubmitFields |-> Again(p)[i]]
  BY DEF Finished, Again, NoSubmit, SubmitFields
<1> QED
  BY <1>2, <1>3, <1>4 DEF SubmitTyped, Active

\* A submit that goes on keeps what it was asked for.
LEMMA Going ==
  ASSUME NEW r, SubmitTyped(r), Active(r), NEW s, NEW pc, NEW key, NEW sel \in BOOLEAN, NEW known,
         s = [r EXCEPT !.pc = pc, !.key = key, !.sel = sel, !.known = known]
  PROVE  /\ SubmitTyped(s) /\ s.sha = r.sha /\ s.python = r.python /\ s.kind = r.kind
         /\ s.pc = pc /\ s.key = key /\ s.sel = sel /\ s.known = known
         /\ EnvKey(s) = EnvKey(r) /\ NativeKey(s) = NativeKey(r)
BY DEF SubmitTyped, SubmitFields, Active, EnvKey, NativeKey

LEMMA GoingOn ==
  ASSUME NEW r, SubmitTyped(r), Active(r), NEW pc, NEW s, s = [r EXCEPT !.pc = pc]
  PROVE  /\ SubmitTyped(s) /\ s.sha = r.sha /\ s.python = r.python /\ s.kind = r.kind
         /\ s.pc = pc /\ s.key = r.key /\ s.sel = r.sel /\ s.known = r.known
         /\ EnvKey(s) = EnvKey(r) /\ NativeKey(s) = NativeKey(r)
BY DEF SubmitTyped, SubmitFields, Active, EnvKey, NativeKey

LEMMA FetchSteps ==
  ASSUME BuildsAssumption, BuildsInv, NEW p \in Submits, Fetch(p)
  PROVE  BuildsInv'
<1>1. /\ SubmitTyped(proc[p]) /\ proc[p].pc = "fetching" /\ Active(proc[p])
      /\ UNCHANGED <<tree, entry, dirs, store, out, art>> /\ crossed' = crossed
      /\ tree' = [c \in Shas |-> tree'[c]] /\ out' = [c \in Shas |-> out'[c]]
  BY DEF BuildsInv, HomeTyped, Fetch, Reaches, SubmitAt, Active, Calm
<1>2. CASE Is(p, Finished(p))
  <2>1. SubmitOnward(p, Finished(p)) /\ Building(Finished(p), DOMAIN dirs)
    BY <1>1, <1>2, Ending DEF SubmitOnward, Building
  <2> QED
    BY <1>1, <2>1, Ending, InnerMoves
<1>3. ASSUME NEW pc, Is(p, [proc[p] EXCEPT !.pc = pc]),
             pc = IF proc[p].kind = "run" THEN "fetched" ELSE "packing"
      PROVE  BuildsInv'
  <2> DEFINE s == [proc[p] EXCEPT !.pc = pc]
  <2>1. SubmitOnward(p, s) /\ s.pc = pc /\ Building(s, DOMAIN dirs)
    BY <1>1, <1>3, GoingOn DEF SubmitOnward, Building
  <2>2. Entered(s, entry[s.sha])
    BY <1>3, <2>1 DEF Entered
  <2> HIDE DEF s
  <2> QED
    BY <1>1, <1>3, <2>1, <2>2, InnerMoves
<1> QED
  BY <1>2, <1>3 DEF Fetch, Reaches, Go

LEMMA TreeSteps ==
  ASSUME BuildsAssumption, BuildsInv, NEW p \in Submits, AddTree(p) \/ TreeAdded(p)
  PROVE  BuildsInv'
<1>1. /\ SubmitTyped(proc[p]) /\ proc[p].pc \in {"fetched", "adding"} /\ Active(proc[p])
      /\ UNCHANGED <<have, entry, dirs, store, out, art>> /\ crossed' = crossed
      /\ tree' = [c \in Shas |-> tree'[c]] /\ out' = [c \in Shas |-> out'[c]]
  BY DEF BuildsInv, HomeTyped, AddTree, TreeAdded, SubmitAt, Active, Calm
<1>2. proc[p].kind = "run"
  BY <1>1 DEF BuildsInv, OfTheSubmit, Building
<1>3. PICK s : /\ Is(p, s)
               /\ \/ s = [proc[p] EXCEPT !.pc = "adding"]
                  \/ s = [proc[p] EXCEPT !.pc = "wants", !.key = EnvKey(proc[p])]
  BY DEF AddTree, TreeAdded, Go, WantsEnv
<1>4. /\ SubmitTyped(s) /\ s.sha = proc[p].sha /\ s.kind = "run"
      /\ s.pc = "adding" \/ (s.pc = "wants" /\ s.key = EnvKey(s))
  <2>1. CASE s = [proc[p] EXCEPT !.pc = "adding"]
    BY <1>1, <1>2, <2>1, GoingOn
  <2>2. CASE s = [proc[p] EXCEPT !.pc = "wants", !.key = EnvKey(proc[p])]
    <3>1. s = [proc[p] EXCEPT !.pc = "wants", !.key = EnvKey(proc[p]), !.sel = proc[p].sel, !.known = proc[p].known]
      BY <1>1, <2>2 DEF SubmitTyped, SubmitFields
    <3> QED
      BY <1>1, <1>2, <3>1 DEF SubmitTyped, SubmitFields, Active, EnvKey, NativeKey
  <2> QED
    BY <1>3, <2>1, <2>2
<1>5. SubmitOnward(p, s) /\ Building(s, DOMAIN dirs) /\ Entered(s, entry[s.sha])
  BY <1>1, <1>3, <1>4 DEF SubmitOnward, Building, Entered
<1> QED
  BY <1>1, <1>4, <1>5, InnerMoves

\* After a build, a submit wants the next one, or has all that it needs.
LEMMA AfterBuild ==
  ASSUME BuildsInv, NEW p \in Submits, proc[p].pc \in {"wants", "building"}, NEW keys,
         DOMAIN dirs \subseteq keys, proc[p].key \in keys
  PROVE  LET s == After(p)
         IN  /\ SubmitTyped(s) /\ s.sha = proc[p].sha /\ s.pc \in {"wants", "built", "members"}
             /\ Building(s, keys)
<1> DEFINE r == proc[p]
           s == After(p)
<1>1. SubmitTyped(r) /\ Active(r) /\ r.sel \in BOOLEAN
  BY DEF BuildsInv, HomeTyped, Active, SubmitTyped
<1>2. \/ r.kind = "run" /\ r.key = EnvKey(r)
      \/ r.key = NativeKey(r) /\ r.key # NoKey /\ (r.kind = "run" => EnvKey(r) \in keys)
  BY DEF BuildsInv, OfTheSubmit, Building
<1>3. EnvKey(r) # NativeKey(r) /\ EnvKey(r) # NoKey
  BY KeysDiffer
<1>4. CASE r.kind = "run" /\ r.key = EnvKey(r) /\ NativeKey(r) # NoKey
  <2>1. s = [r EXCEPT !.pc = "wants", !.key = NativeKey(r), !.sel = r.sel, !.known = r.known]
    BY <1>1, <1>4 DEF After, SubmitTyped, SubmitFields
  <2>2. SubmitTyped(s) /\ s.sha = r.sha /\ s.python = r.python /\ s.kind = "run" /\ s.pc = "wants" /\ s.key = NativeKey(r)
    BY <1>1, <1>4, <2>1 DEF SubmitTyped, SubmitFields, Active
  <2>3. EnvKey(s) = EnvKey(r) /\ NativeKey(s) = NativeKey(r)
    BY <2>2 DEF EnvKey, NativeKey
  <2> QED
    BY <1>2, <1>3, <1>4, <2>2, <2>3 DEF Building
<1>5. CASE ~(r.kind = "run" /\ r.key = EnvKey(r) /\ NativeKey(r) # NoKey)
  <2>1. s = [r EXCEPT !.pc = IF r.kind = "run" THEN "built" ELSE "members", !.key = NoKey, !.sel = r.sel, !.known = r.known]
    BY <1>1, <1>5 DEF After, SubmitTyped, SubmitFields
  <2>2. /\ SubmitTyped(s) /\ s.sha = r.sha /\ s.kind = r.kind /\ s.pc = IF r.kind = "run" THEN "built" ELSE "members"
        /\ EnvKey(s) = EnvKey(r) /\ NativeKey(s) = NativeKey(r)
    BY <1>1, <2>1 DEF SubmitTyped, SubmitFields, Active, EnvKey, NativeKey
  <2>3. r.kind = "run" => EnvKey(r) \in keys /\ (NativeKey(r) # NoKey => NativeKey(r) \in keys)
    BY <1>2, <1>3, <1>5
  <2> QED
    BY <2>2, <2>3 DEF Building
<1> QED
  BY <1>4, <1>5

LEMMA ReuseSteps ==
  ASSUME BuildsAssumption, BuildsInv, NEW p \in Submits, Reuse(p)
  PROVE  BuildsInv'
<1> DEFINE s == After(p)
<1>1. /\ proc[p].pc = "wants" /\ proc[p].key \in DOMAIN dirs /\ Is(p, s)
      /\ UNCHANGED <<entry, dirs, art>> /\ crossed' = crossed
      /\ tree' = [c \in Shas |-> tree'[c]] /\ out' = [c \in Shas |-> out'[c]]
  BY DEF Reuse, SubmitAt, Done, BuildsInv, HomeTyped, Calm, home
<1>2. /\ SubmitTyped(s) /\ s.sha = proc[p].sha /\ s.pc \in {"wants", "built", "members"}
      /\ Building(s, DOMAIN dirs)
  BY <1>1, AfterBuild
<1>3. SubmitOnward(p, s) /\ Entered(s, entry[s.sha])
  BY <1>1, <1>2 DEF SubmitOnward, Entered, Active
<1> HIDE DEF s
<1> QED
  BY <1>1, <1>2, <1>3, InnerMoves

LEMMA LockSteps ==
  ASSUME BuildsAssumption, BuildsInv, NEW p \in Submits, Lock(p)
  PROVE  BuildsInv'
<1> DEFINE s == [proc[p] EXCEPT !.pc = "building"]
<1>1. /\ proc[p].pc = "wants" /\ Is(p, s) /\ SubmitTyped(proc[p]) /\ Active(proc[p])
      /\ UNCHANGED <<entry, dirs, art>> /\ crossed' = crossed
      /\ tree' = [c \in Shas |-> tree'[c]] /\ out' = [c \in Shas |-> out'[c]]
  BY DEF Lock, Go, SubmitAt, Active, BuildsInv, HomeTyped, Calm, home
<1>2. /\ SubmitTyped(s) /\ s.sha = proc[p].sha /\ s.kind = proc[p].kind /\ s.pc = "building" /\ s.key = proc[p].key
      /\ EnvKey(s) = EnvKey(proc[p]) /\ NativeKey(s) = NativeKey(proc[p])
  BY <1>1, GoingOn
<1>3. SubmitOnward(p, s) /\ Entered(s, entry[s.sha])
  BY <1>1, <1>2 DEF SubmitOnward, Entered
<1>4. Building(s, DOMAIN dirs)
  BY <1>1, <1>2 DEF Building, BuildsInv, OfTheSubmit
<1> HIDE DEF s
<1> QED
  BY <1>1, <1>2, <1>3, <1>4, InnerMoves

LEMMA InstallSteps ==
  ASSUME BuildsAssumption, BuildsInv, NEW p \in Submits, Install(p)
  PROVE  BuildsInv'
<1> DEFINE s == After(p)
           key == proc[p].key
<1>1. /\ proc[p].pc = "building" /\ Is(p, s) /\ SubmitTyped(proc[p]) /\ Active(proc[p])
      /\ UNCHANGED <<tree, entry, out, art>> /\ crossed' = crossed
  BY DEF Install, SubmitAt, Active, BuildsInv, HomeTyped, Calm
<1>2. /\ DOMAIN dirs' = DOMAIN dirs \cup {key}
      /\ dirs'[key] = [done |-> TRUE, holds |-> Made(key, proc[p])]
      /\ \A k \in DOMAIN dirs \ {key} : dirs'[k] = dirs[k]
  BY DEF Install, Updated
<1>3. /\ SubmitTyped(s) /\ s.sha = proc[p].sha /\ s.pc \in {"wants", "built", "members"}
      /\ Building(s, DOMAIN dirs')
  BY <1>1, <1>2, AfterBuild
<1>4. SubmitOnward(p, s) /\ Entered(s, entry'[s.sha])
  BY <1>1, <1>3 DEF SubmitOnward, Entered
<1>5. key = EnvKey(proc[p]) \/ key = NativeKey(proc[p])
  BY <1>1 DEF BuildsInv, OfTheSubmit, Building
<1>6. \A k \in DOMAIN dirs' : dirs'[k].done /\ StandsFor(dirs'[k].holds, k)
  <2>1. StandsFor(Made(key, proc[p]), key)
    BY <1>5, MadeStands
  <2>2. \A k \in DOMAIN dirs : dirs[k].done /\ StandsFor(dirs[k].holds, k)
    BY DEF BuildsInv, DirsServe
  <2> QED
    BY <1>2, <2>1, <2>2
<1>7. DirsServe'
  BY <1>6 DEF DirsServe, StandsFor, Native, Serves, EnvKey, NativeKey, NoKey, Recipe, Asked
<1>8. ShapesStay
  BY <1>1 DEF ShapesStay, BuildsInv, HomeTyped
<1> HIDE DEF s, key
<1> QED
  BY <1>1, <1>2, <1>3, <1>4, <1>7, <1>8, QuietMoves

LEMMA EnterSteps ==
  ASSUME BuildsAssumption, BuildsInv, NEW p \in Submits, Enter(p)
  PROVE  BuildsInv'
<1> DEFINE s == [proc[p] EXCEPT !.pc = "collects"]
<1>1. /\ proc[p].pc = "built" /\ Is(p, s) /\ SubmitTyped(proc[p]) /\ Active(proc[p])
      /\ UNCHANGED <<tree, dirs, out, art>> /\ crossed' = crossed
      /\ entry' = [entry EXCEPT ![proc[p].sha] = [env |-> EnvKey(proc[p]), native |-> NativeKey(proc[p])]]
  BY DEF Enter, Go, SubmitAt, Active, BuildsInv, HomeTyped, Calm
<1>2. /\ SubmitTyped(s) /\ s.sha = proc[p].sha /\ s.pc = "collects"
      /\ EnvKey(s) = EnvKey(proc[p]) /\ NativeKey(s) = NativeKey(proc[p])
  BY <1>1, GoingOn
<1>3. SubmitOnward(p, s) /\ Building(s, DOMAIN dirs')
  BY <1>1, <1>2 DEF SubmitOnward, Building, BuildsInv, OfTheSubmit
<1>4. proc[p].sha \in Shas
  BY <1>1, ActiveShas
<1>5. /\ entry'[s.sha] = [env |-> EnvKey(s), native |-> NativeKey(s)]
      /\ \A c \in Shas \ {proc[p].sha} : entry'[c] = entry[c]
  <2>1. entry = [c \in Shas |-> entry[c]]
    BY DEF BuildsInv, HomeTyped
  <2> QED
    BY <1>1, <1>2, <1>4, <2>1
<1>6. ShapesStay
  BY <1>1 DEF ShapesStay, BuildsInv, HomeTyped
<1>7. DirsServe'
  BY <1>1, DirsStay
<1>8. Entered(s, entry'[s.sha])
  BY <1>5 DEF Entered
<1> HIDE DEF s
<1> QED
  BY <1>1, <1>2, <1>3, <1>5, <1>6, <1>7, <1>8, QuietMoves

LEMMA CollectSteps ==
  ASSUME BuildsAssumption, BuildsInv, NEW p \in Submits, ReadStore(p) \/ Collect(p) \/ CollectFails(p) \/ Cat(p)
  PROVE  BuildsInv'
<1>1. /\ proc[p].pc \in {"collects", "collecting", "cat"} /\ SubmitTyped(proc[p]) /\ Active(proc[p])
      /\ UNCHANGED <<tree, entry, dirs, art>> /\ crossed' = crossed
      /\ tree' = [c \in Shas |-> tree'[c]] /\ out' = [c \in Shas |-> out'[c]]
  BY DEF ReadStore, Collect, CollectFails, Cat, SubmitAt, Active, BuildsInv, HomeTyped, Calm, home
<1>2. CASE Is(p, Finished(p))
  <2>1. SubmitOnward(p, Finished(p)) /\ Building(Finished(p), DOMAIN dirs)
    BY <1>1, <1>2, Ending DEF SubmitOnward, Building
  <2> QED
    BY <1>1, <2>1, Ending, InnerMoves
<1>3. ASSUME NEW pc \in {"collects", "collecting", "cat"}, NEW sel \in BOOLEAN, NEW known, NEW s, Is(p, s),
             s = [proc[p] EXCEPT !.pc = pc, !.sel = sel, !.known = known]
      PROVE  BuildsInv'
  <2>1. /\ SubmitTyped(s) /\ s.sha = proc[p].sha /\ s.pc = pc
        /\ EnvKey(s) = EnvKey(proc[p]) /\ NativeKey(s) = NativeKey(proc[p])
    BY <1>1, <1>3 DEF SubmitTyped, SubmitFields, Active, EnvKey, NativeKey
  <2>2. SubmitOnward(p, s) /\ Building(s, DOMAIN dirs)
    BY <1>1, <1>3, <2>1 DEF SubmitOnward, Building, BuildsInv, OfTheSubmit
  <2>3. Active(s) /\ s.sha \notin crossed => Entered(s, entry[s.sha])
    BY <1>1, <2>1 DEF BuildsInv, OfTheSubmit, Entered
  <2> QED
    BY <1>1, <1>3, <2>1, <2>2, <2>3, InnerMoves
<1>4. ASSUME NEW known, NEW pc \in {"collecting", "cat"}, Is(p, [proc[p] EXCEPT !.pc = pc, !.known = known])
      PROVE  BuildsInv'
  <2>1. [proc[p] EXCEPT !.pc = pc, !.known = known] = [proc[p] EXCEPT !.pc = pc, !.sel = proc[p].sel, !.known = known]
    BY <1>1 DEF SubmitTyped, SubmitFields
  <2> QED
    BY <1>1, <1>3, <1>4, <2>1 DEF SubmitTyped
<1>5. CASE Is(p, [proc[p] EXCEPT !.pc = "collects", !.sel = TRUE])
  <2>1. [proc[p] EXCEPT !.pc = "collects", !.sel = TRUE] = [proc[p] EXCEPT !.pc = "collects", !.sel = TRUE, !.known = proc[p].known]
    BY <1>1 DEF SubmitTyped, SubmitFields
  <2> QED
    BY <1>3, <1>5, <2>1
<1>6. CASE ReadStore(p)
  BY <1>4, <1>6 DEF ReadStore
<1>7. CASE Collect(p)
  BY <1>4, <1>7 DEF Collect
<1>8. CASE CollectFails(p)
  BY <1>4, <1>8 DEF CollectFails
<1>9. CASE Cat(p)
  BY <1>2, <1>5, <1>9 DEF Cat
<1> QED
  BY <1>6, <1>7, <1>8, <1>9

LEMMA PackSteps ==
  ASSUME BuildsAssumption, BuildsInv, NEW p \in Submits, PackArtifact(p)
  PROVE  BuildsInv'
<1>1. /\ proc[p].pc = "packing" /\ SubmitTyped(proc[p]) /\ Active(proc[p])
      /\ UNCHANGED <<entry, dirs, art>> /\ crossed' = crossed
      /\ tree' = [c \in Shas |-> tree'[c]] /\ out' = [c \in Shas |-> out'[c]]
  BY DEF PackArtifact, SubmitAt, Active, BuildsInv, HomeTyped, Calm, home
<1>2. proc[p].kind # "run"
  BY <1>1 DEF BuildsInv, OfTheSubmit, Building
<1>3. CASE Is(p, Finished(p))
  <2>1. SubmitOnward(p, Finished(p)) /\ Building(Finished(p), DOMAIN dirs)
    BY <1>1, <1>3, Ending DEF SubmitOnward, Building
  <2> QED
    BY <1>1, <2>1, Ending, InnerMoves
<1>4. ASSUME NativeKey(proc[p]) # NoKey, NEW s, Is(p, s), s = [proc[p] EXCEPT !.pc = "wants", !.key = NativeKey(proc[p])]
      PROVE  BuildsInv'
  <2>1. SubmitTyped(s) /\ s.sha = proc[p].sha /\ s.python = proc[p].python /\ s.kind = proc[p].kind /\ s.pc = "wants" /\ s.key = NativeKey(proc[p])
    BY <1>1, <1>4 DEF SubmitTyped, SubmitFields, Active
  <2>2. NativeKey(s) = NativeKey(proc[p])
    BY <2>1 DEF EnvKey, NativeKey
  <2>3. SubmitOnward(p, s) /\ Building(s, DOMAIN dirs) /\ Entered(s, entry[s.sha])
    BY <1>1, <1>2, <1>4, <2>1, <2>2 DEF SubmitOnward, Building, Entered
  <2> QED
    BY <1>1, <2>1, <2>3, InnerMoves
<1>5. ASSUME NEW s, Is(p, s), s = [proc[p] EXCEPT !.pc = "members"]
      PROVE  BuildsInv'
  <2>1. SubmitTyped(s) /\ s.sha = proc[p].sha /\ s.pc = "members"
    BY <1>1, <1>5, GoingOn
  <2>2. SubmitOnward(p, s) /\ Building(s, DOMAIN dirs) /\ Entered(s, entry[s.sha])
    BY <1>1, <1>5, <2>1 DEF SubmitOnward, Building, Entered
  <2> QED
    BY <1>1, <2>1, <2>2, InnerMoves
<1> QED
  BY <1>3, <1>4, <1>5 DEF PackArtifact

-----------------------------------------------------------------------------
(* Artifacts.                                                              *)

\* A submit writes its commit's file, and what is there of the others stays.
LEMMA ArtifactMoves ==
  ASSUME BuildsAssumption, BuildsInv, NEW p \in Submits, NEW s, SubmitOnward(p, s),
         UNCHANGED <<tree, entry, dirs, out>>, s.pc \in {"idle", "writing", "moving"},
         NEW packed \in File, NEW part \in File, art' = [art EXCEPT ![proc[p].sha] = [file |-> packed, part |-> part]],
         part.writers \ {p} \subseteq art[proc[p].sha].part.writers, p \in part.writers => s.pc = "writing",
         packed.there /\ proc[p].sha \notin crossed => packed.whole,
         s.sha \notin crossed => Packed(p, s, part)
  PROVE  BuildsInv'
<1> DEFINE sha == proc[p].sha
<1>1. sha \in Shas /\ art \in [Shas -> [file : File, part : File]]
  BY ActiveShas DEF SubmitOnward, BuildsInv, HomeTyped
<1>2. /\ art'[sha].file = packed /\ art'[sha].part = part
      /\ \A c \in Shas \ {sha} : art'[c] = art[c]
  BY <1>1
<1>3. proc'[p] = s /\ \A q \in Submits \ {p} : proc'[q] = proc[q]
  BY DEF SubmitOnward, Is, BuildsInv, HomeTyped
<1>4. ShapesStay
  BY <1>1 DEF ShapesStay, BuildsInv, HomeTyped
<1>5. OtherCommitsStay(p)
  BY <1>2 DEF OtherCommitsStay, PartStays
<1>6. DirsServe'
  BY DirsStay
<1>7. ArtifactIsWhole'
  <2> SUFFICES ASSUME NEW c \in Shas, art'[c].file.there, c \notin crossed'
               PROVE  art'[c].file.whole
    BY DEF ArtifactIsWhole
  <2> QED
    BY <1>2 DEF BuildsInv, ArtifactIsWhole, SubmitOnward
<1>8. WritersWrite'
  <2> SUFFICES ASSUME NEW c \in Shas, NEW q \in art'[c].part.writers
               PROVE  proc'[q].pc = "writing" /\ proc'[q].sha = c
    BY DEF WritersWrite, SubmitAt
  <2>1. CASE q = p /\ c = sha
    BY <1>2, <1>3, <2>1 DEF SubmitOnward, Active
  <2>2. CASE ~(q = p /\ c = sha)
    <3>1. q \in art[c].part.writers /\ q \in Submits
      BY <1>1, <1>2, <2>2 DEF File
    <3>2. proc[q].pc = "writing" /\ proc[q].sha = c
      BY <3>1 DEF BuildsInv, WritersWrite, SubmitAt
    <3> QED
      BY <1>3, <2>2, <3>1, <3>2
  <2> QED
    BY <2>1, <2>2
<1>9. /\ Building(s, DOMAIN dirs')
      /\ Active(s) /\ s.sha \notin crossed => Entered(s, entry'[s.sha]) /\ Packed(p, s, art'[s.sha].part)
  BY <1>2 DEF Building, Entered, SubmitOnward
<1> HIDE DEF sha
<1> QED
  BY <1>4, <1>5, <1>6, <1>7, <1>8, <1>9, SubmitMoves

\* Who writes the file of a commit that nobody else works on.
LEMMA WritesAlone ==
  ASSUME BuildsInv, NEW p \in Submits, Active(proc[p]), proc[p].sha \in Shas, proc[p].sha \notin crossed
  PROVE  \A q \in art[proc[p].sha].part.writers : q = p /\ proc[p].pc = "writing"
<1> SUFFICES ASSUME NEW q \in art[proc[p].sha].part.writers
             PROVE  q = p /\ proc[p].pc = "writing"
  OBVIOUS
<1>1. q \in Submits /\ proc[q].pc = "writing" /\ proc[q].sha = proc[p].sha
  BY DEF BuildsInv, HomeTyped, File, WritersWrite, SubmitAt
<1> QED
  BY <1>1 DEF BuildsInv, CrossedAreTold, Active

LEMMA TarSteps ==
  ASSUME BuildsAssumption, BuildsInv, NEW p \in Submits, Tar(p)
  PROVE  BuildsInv'
<1> DEFINE sha == proc[p].sha
           old == art[sha].part
           part == [there |-> TRUE, writers |-> old.writers \cup {p}, alone |-> old.writers = {}, whole |-> FALSE]
           s == [proc[p] EXCEPT !.pc = "writing"]
<1>1. /\ proc[p].pc = "members" /\ Is(p, s) /\ SubmitTyped(proc[p]) /\ Active(proc[p])
      /\ UNCHANGED <<tree, entry, dirs, out>> /\ crossed' = crossed
  BY DEF Tar, Go, SubmitAt, Active, BuildsInv, HomeTyped, Calm
<1>2. sha \in Shas /\ art[sha] \in [file : File, part : File]
  BY <1>1, ActiveShas DEF BuildsInv, HomeTyped
<1>3. art[sha].file \in File /\ part \in File
  BY <1>2 DEF File
<1>4. art' = [art EXCEPT ![sha] = [file |-> art[sha].file, part |-> part]]
  <2>1. art' = [art EXCEPT ![sha] = [art[sha] EXCEPT !.part = part]]
    BY DEF Tar
  <2>2. [art[sha] EXCEPT !.part = part] = [file |-> art[sha].file, part |-> part]
    <3> HIDE DEF part
    <3> QED
      BY <1>2
  <2> QED
    BY <2>1, <2>2
<1>5. SubmitTyped(s) /\ s.sha = sha /\ s.pc = "writing"
  BY <1>1, GoingOn
<1>6. SubmitOnward(p, s)
  BY <1>1, <1>5 DEF SubmitOnward
<1>7. sha \notin crossed => old.writers = {}
  BY <1>1, <1>2, WritesAlone
<1>8. sha \notin crossed => Packed(p, s, part)
  BY <1>5, <1>7 DEF Packed
<1>9. art[sha].file.there /\ sha \notin crossed => art[sha].file.whole
  BY <1>2 DEF BuildsInv, ArtifactIsWhole
<1>10. part.writers \ {p} \subseteq old.writers
  OBVIOUS
<1> HIDE DEF s, part
<1> QED
  BY <1>1, <1>3, <1>4, <1>5, <1>6, <1>8, <1>9, <1>10, ArtifactMoves

LEMMA TarredSteps ==
  ASSUME BuildsAssumption, BuildsInv, NEW p \in Submits, Tarred(p)
  PROVE  BuildsInv'
<1> DEFINE sha == proc[p].sha
           old == art[sha].part
           part == [old EXCEPT !.writers = old.writers \ {p}, !.whole = IF p \in old.writers THEN old.alone ELSE old.whole]
           s == [proc[p] EXCEPT !.pc = "moving"]
<1>1. /\ proc[p].pc = "writing" /\ Is(p, s) /\ SubmitTyped(proc[p]) /\ Active(proc[p])
      /\ UNCHANGED <<tree, entry, dirs, out>> /\ crossed' = crossed
  BY DEF Tarred, Go, SubmitAt, Active, BuildsInv, HomeTyped, Calm
<1>2. sha \in Shas /\ art[sha] \in [file : File, part : File] /\ old \in File
  BY <1>1, ActiveShas DEF BuildsInv, HomeTyped
<1>3. art[sha].file \in File /\ part \in File
  BY <1>2 DEF File
<1>4. art' = [art EXCEPT ![sha] = [file |-> art[sha].file, part |-> part]]
  <2>1. art' = [art EXCEPT ![sha] = [art[sha] EXCEPT !.part = part]]
    BY DEF Tarred
  <2>2. [art[sha] EXCEPT !.part = part] = [file |-> art[sha].file, part |-> part]
    <3> HIDE DEF part
    <3> QED
      BY <1>2
  <2> QED
    BY <2>1, <2>2
<1>5. SubmitTyped(s) /\ s.sha = sha /\ s.pc = "moving"
  BY <1>1, GoingOn
<1>6. SubmitOnward(p, s)
  BY <1>1, <1>5 DEF SubmitOnward
<1>7. sha \notin crossed => Packed(p, proc[p], old)
  BY <1>1 DEF BuildsInv, OfTheSubmit
<1>8. sha \notin crossed => Packed(p, s, part)
  BY <1>1, <1>2, <1>5, <1>7 DEF Packed, File
<1>9. art[sha].file.there /\ sha \notin crossed => art[sha].file.whole
  BY <1>2 DEF BuildsInv, ArtifactIsWhole
<1>10. part.writers = old.writers \ {p}
  BY <1>2 DEF File
<1> HIDE DEF s, part
<1> QED
  BY <1>1, <1>3, <1>4, <1>5, <1>6, <1>8, <1>9, <1>10, ArtifactMoves

LEMMA MoveSteps ==
  ASSUME BuildsAssumption, BuildsInv, NEW p \in Submits, Move(p)
  PROVE  BuildsInv'
<1> DEFINE sha == proc[p].sha
           old == art[sha]
           s == Finished(p)
<1>1. /\ proc[p].pc = "moving" /\ Is(p, s) /\ SubmitTyped(proc[p]) /\ Active(proc[p])
      /\ UNCHANGED <<tree, entry, dirs, out>> /\ crossed' = crossed
  BY DEF Move, SubmitAt, Active, BuildsInv, HomeTyped, Calm
<1>2. sha \in Shas /\ old \in [file : File, part : File]
  BY <1>1, ActiveShas DEF BuildsInv, HomeTyped
<1>3. SubmitOnward(p, s) /\ s.pc = "idle"
  BY <1>1, Ending DEF SubmitOnward
<1>4. ~old.part.there \/ sha \in crossed \/ old.part.whole
  BY <1>1 DEF BuildsInv, OfTheSubmit, Packed
<1>5. old.file.there /\ sha \notin crossed => old.file.whole
  BY <1>2 DEF BuildsInv, ArtifactIsWhole
<1>6. \A part : Packed(p, s, part)
  BY <1>3 DEF Packed
<1>7. CASE old.part.there
  <2> DEFINE packed == [old.part EXCEPT !.writers = {}]
  <2>1. packed \in File /\ NoArtifact \in File /\ NoArtifact.writers = {} /\ packed.whole = old.part.whole
    BY <1>2 DEF File, NoArtifact
  <2>2. art' = [art EXCEPT ![sha] = [file |-> packed, part |-> NoArtifact]]
    BY <1>7 DEF Move
  <2> HIDE DEF s, packed
  <2> QED
    BY <1>1, <1>3, <1>4, <1>6, <1>7, <2>1, <2>2, ArtifactMoves
<1>8. CASE ~old.part.there
  <2>1. UNCHANGED art
    BY <1>8 DEF Move
  <2>2. Building(s, DOMAIN dirs)
    BY <1>3 DEF Building
  <2>3. tree' = [c \in Shas |-> tree'[c]] /\ out' = [c \in Shas |-> out'[c]]
    BY <1>1 DEF BuildsInv, HomeTyped
  <2> HIDE DEF s
  <2> QED
    BY <1>1, <1>3, <2>1, <2>2, <2>3, Ending, InnerMoves DEF Active
<1> QED
  BY <1>7, <1>8

\* A connection is lost: what the submit was writing stays as it is.
LEMMA LostSteps ==
  ASSUME BuildsAssumption, BuildsInv, NEW p \in Submits, Lost(p)
  PROVE  BuildsInv'
<1> DEFINE s == Again(p)
           Left(f) == [f EXCEPT !.writers = f.writers \ {p}]
<1>1. /\ Is(p, s) /\ SubmitTyped(proc[p]) /\ Active(proc[p])
      /\ UNCHANGED <<tree, entry, dirs, out>> /\ crossed' = crossed
  BY DEF Lost, SubmitAt, Active, BuildsInv, HomeTyped
<1>2. art \in [Shas -> [file : File, part : File]]
  BY DEF BuildsInv, HomeTyped
<1>3. \A f \in File : /\ Left(f) \in File /\ Left(f).writers = f.writers \ {p}
                      /\ Left(f).there = f.there /\ Left(f).alone = f.alone /\ Left(f).whole = f.whole
  BY DEF File
<1> HIDE DEF Left
<1>4. ASSUME NEW c \in Shas
      PROVE  /\ art'[c] = [art[c] EXCEPT !.part = Left(art[c].part)]
             /\ art'[c].file = art[c].file /\ art'[c].part = Left(art[c].part) /\ art'[c] \in [file : File, part : File]
  <2>1. art[c] \in [file : File, part : File]
    BY <1>2
  <2>2. art'[c] = [art[c] EXCEPT !.part = Left(art[c].part)]
    BY DEF Lost, Left
  <2> QED
    BY <1>3, <2>1, <2>2
<1>5. art' \in [Shas -> [file : File, part : File]]
  <2>1. art' = [c \in Shas |-> art'[c]]
    BY DEF Lost
  <2> QED
    BY <1>4, <2>1
<1>6. SubmitOnward(p, s) /\ s.pc = "idle" /\ ~Active(s)
  BY <1>1, Ending DEF SubmitOnward
<1>7. ShapesStay
  BY <1>1, <1>5 DEF ShapesStay, BuildsInv, HomeTyped
<1>8. OtherCommitsStay(p)
  <2> SUFFICES ASSUME NEW c \in Shas
               PROVE  entry'[c] = entry[c] /\ PartStays(p, art[c].part, art'[c].part)
    BY DEF OtherCommitsStay
  <2>1. art[c].part \in File
    BY <1>2
  <2> QED
    BY <1>1, <1>3, <1>4, <2>1 DEF PartStays
<1>9. DirsServe'
  BY <1>1, DirsStay
<1>10. ArtifactIsWhole'
  BY <1>1, <1>4 DEF ArtifactIsWhole, BuildsInv
<1>11. WritersWrite'
  <2> SUFFICES ASSUME NEW c \in Shas, NEW q \in art'[c].part.writers
               PROVE  proc'[q].pc = "writing" /\ proc'[q].sha = c
    BY DEF WritersWrite, SubmitAt
  <2>1. art[c].part \in File
    BY <1>2
  <2>2. q \in art[c].part.writers /\ q \in Submits /\ q # p
    BY <1>3, <1>4, <2>1 DEF File
  <2>3. proc[q].pc = "writing" /\ proc[q].sha = c
    BY <2>2 DEF BuildsInv, WritersWrite, SubmitAt
  <2> QED
    BY <1>1, <2>2, <2>3 DEF Is, BuildsInv, HomeTyped
<1>12. Building(s, DOMAIN dirs')
  BY <1>6 DEF Building
<1> HIDE DEF s
<1> QED
  BY <1>1, <1>6, <1>7, <1>8, <1>9, <1>10, <1>11, <1>12, SubmitMoves

\* A submit begins; if another works on its commit, the two have crossed.
LEMMA BeginSteps ==
  ASSUME BuildsAssumption, BuildsInv, NEW p \in Submits, Begin(p)
  PROVE  BuildsInv'
<1> DEFINE a == Todo[p][proc[p].at]
           s == [NoSubmit EXCEPT !.pc = "fetching", !.sha = a.sha, !.python = a.python, !.kind = a.kind,
                  !.packs = a.packs, !.at = proc[p].at]
<1>1. /\ proc[p].pc = "idle" /\ Is(p, s) /\ proc[p].at <= Len(Todo[p])
      /\ UNCHANGED <<tree, entry, dirs, out, art>>
      /\ crossed' = IF \E q \in Submits \ {p} : proc[q].sha = a.sha THEN crossed \cup {a.sha} ELSE crossed
  BY DEF Begin, SubmitAt, home
<1>2. proc[p].at \in Nat \ {0} /\ proc = [q \in Submits |-> proc[q]]
  BY DEF BuildsInv, HomeTyped, SubmitTyped
<1>3. a \in Asked
  <2>1. Len(Todo[p]) \in Nat
    <3> DEFINE R == [sha : DOMAIN Commits, python : STRING, kind : {"run", "artifact"}, packs : BOOLEAN]
    <3>1. Todo[p] \in Seq(R)
      BY DEF BuildsAssumption
    <3> HIDE DEF R
    <3> QED
      BY <3>1
  <2> QED
    BY <1>1, <1>2, <2>1 DEF Asked
<1>4. /\ s.pc = "fetching" /\ s.sha = a.sha /\ s.python = a.python /\ s.sel = FALSE /\ s.at = proc[p].at
      /\ s = [i \in SubmitFields |-> s[i]]
  BY DEF NoSubmit, SubmitFields
<1>5. SubmitTyped(s) /\ Active(s) /\ Building(s, DOMAIN dirs)
  BY <1>2, <1>3, <1>4 DEF SubmitTyped, Active, Building
<1>6. proc'[p] = s /\ proc' = [q \in Submits |-> proc'[q]] /\ \A q \in Submits \ {p} : proc'[q] = proc[q]
  BY <1>1, <1>2 DEF Is
<1> HIDE DEF s
<1>7. HomeTyped'
  <2>1. \A q \in Submits : SubmitTyped(proc'[q])
    BY <1>5, <1>6 DEF BuildsInv, HomeTyped
  <2> QED
    BY <1>1, <1>6, <2>1 DEF BuildsInv, HomeTyped, SubmitTyped, Active, Asked, File
<1>8. CrossedAreTold'
  <2> SUFFICES ASSUME NEW q \in Submits, NEW r \in Submits, q # r, Active(proc'[q]), Active(proc'[r]), proc'[q].sha = proc'[r].sha
               PROVE  proc'[q].sha \in crossed'
    BY DEF CrossedAreTold, Active
  <2>1. CASE q # p /\ r # p
    BY <1>1, <1>6, <2>1 DEF BuildsInv, CrossedAreTold
  <2>2. CASE q = p
    BY <1>1, <1>4, <1>6, <2>2
  <2>3. CASE r = p
    BY <1>1, <1>4, <1>6, <2>3
  <2> QED
    BY <2>1, <2>2, <2>3
<1>9. DirsServe' /\ ArtifactIsWhole'
  BY <1>1, DirsStay DEF BuildsInv, ArtifactIsWhole
<1>10. WritersWrite'
  <2> SUFFICES ASSUME NEW c \in Shas, NEW q \in art'[c].part.writers
               PROVE  proc'[q].pc = "writing" /\ proc'[q].sha = c
    BY DEF WritersWrite, SubmitAt
  <2>1. q \in Submits
    BY <1>1 DEF BuildsInv, HomeTyped, File
  <2> QED
    BY <1>1, <1>6, <2>1 DEF BuildsInv, WritersWrite, SubmitAt
<1>11. ASSUME NEW q \in Submits
       PROVE  OfTheSubmit(q)'
  <2> DEFINE Stands(u) ==
        /\ Building(u, DOMAIN dirs)
        /\ Active(u) /\ u.sha \notin crossed' => Entered(u, entry[u.sha]) /\ Packed(q, u, art[u.sha].part)
  <2>1. Stands(proc'[q])
    <3>1. CASE q = p
      BY <1>4, <1>5, <1>6, <3>1 DEF Entered, Packed
    <3>2. CASE q # p
      BY <1>1, <1>6, <3>2 DEF BuildsInv, OfTheSubmit
    <3> QED
      BY <3>1, <3>2
  <2> QED
    BY <1>1, <2>1 DEF OfTheSubmit, Active, Entered, Packed, Building, EnvKey, NativeKey, NoKey, Recipe
<1> QED
  BY <1>7, <1>8, <1>9, <1>10, <1>11 DEF BuildsInv

-----------------------------------------------------------------------------
LEMMA BuildsBegin ==
  ASSUME BuildsInit
  PROVE  BuildsInv
<1>1. \A p \in Submits : proc[p] = NoSubmit /\ NoSubmit.pc = "idle" /\ SubmitTyped(NoSubmit)
  BY DEF BuildsInit, NoSubmit, SubmitTyped, SubmitFields, Active
<1>2. art \in [Shas -> [file : File, part : File]]
  BY DEF BuildsInit, NoArtifact, File
<1>3. HomeTyped
  BY <1>1, <1>2 DEF BuildsInit, HomeTyped
<1>4. CrossedAreTold /\ DirsServe
  BY <1>1 DEF BuildsInit, CrossedAreTold, Active, DirsServe
<1>5. WritersWrite /\ ArtifactIsWhole
  BY DEF BuildsInit, WritersWrite, ArtifactIsWhole, NoArtifact
<1>6. \A p \in Submits : OfTheSubmit(p)
  BY <1>1 DEF OfTheSubmit, Building, Active
<1> QED
  BY <1>3, <1>4, <1>5, <1>6 DEF BuildsInv

LEMMA BuildsSteps ==
  ASSUME BuildsAssumption, BuildsInv, [BuildsNext]_buildVars
  PROVE  BuildsInv'
<1>1. CASE UNCHANGED buildVars
  <2>1. UNCHANGED <<tree, entry, dirs, out, art, proc, crossed>>
    BY <1>1 DEF buildVars
  <2>2. HomeTyped'
    BY <2>1 DEF BuildsInv, HomeTyped, SubmitTyped, Active, Asked, File
  <2>3. DirsServe'
    BY <2>1, DirsStay
  <2>4. CrossedAreTold' /\ WritersWrite' /\ ArtifactIsWhole'
    BY <2>1 DEF BuildsInv, CrossedAreTold, Active, WritersWrite, SubmitAt, ArtifactIsWhole
  <2>5. ASSUME NEW p \in Submits
        PROVE  OfTheSubmit(p)'
    <3>1. OfTheSubmit(p)
      BY DEF BuildsInv
    <3> QED
      BY <2>1, <3>1, Zenon DEF OfTheSubmit
  <2> QED
    BY <2>2, <2>3, <2>4, <2>5 DEF BuildsInv
<1>2. ASSUME NEW p \in Submits,
             \/ Begin(p) \/ Fetch(p) \/ AddTree(p) \/ TreeAdded(p) \/ Reuse(p) \/ Lock(p) \/ Install(p) \/ Enter(p)
             \/ ReadStore(p) \/ Collect(p) \/ CollectFails(p) \/ Cat(p)
             \/ PackArtifact(p) \/ Tar(p) \/ Tarred(p) \/ Move(p) \/ Lost(p)
      PROVE  BuildsInv'
  BY <1>2, BeginSteps, FetchSteps, TreeSteps, ReuseSteps, LockSteps, InstallSteps, EnterSteps, CollectSteps, PackSteps,
     TarSteps, TarredSteps, MoveSteps, LostSteps
<1> QED
  BY <1>1, <1>2 DEF BuildsNext

LEMMA BuildsStand ==
  ASSUME BuildsAssumption
  PROVE  BuildsSpec => []BuildsInv
<1>1. BuildsInit => BuildsInv
  BY BuildsBegin
<1>2. BuildsInv /\ [BuildsNext]_buildVars => BuildsInv'
  BY BuildsSteps
<1> QED
  BY <1>1, <1>2, PTL DEF BuildsSpec

\* What a submit enters serves it.
LEMMA EntriesServe ==
  ASSUME BuildsInv
  PROVE  EntersWhatItBuilt
<1> SUFFICES ASSUME NEW p \in Submits, proc[p].pc \in {"collects", "collecting", "cat"}, proc[p].sha \notin crossed
             PROVE  /\ Done(entry[proc[p].sha].env) /\ Serves(dirs[entry[proc[p].sha].env].holds, proc[p])
                    /\ entry[proc[p].sha].native # NoKey =>
                         /\ Done(entry[proc[p].sha].native)
                         /\ dirs[entry[proc[p].sha].native].holds.native = Commits[proc[p].sha].native
                         /\ Serves(dirs[entry[proc[p].sha].native].holds.env, proc[p])
  BY DEF EntersWhatItBuilt
<1> DEFINE r == proc[p]
<1>1. entry[r.sha] = [env |-> EnvKey(r), native |-> NativeKey(r)] /\ SubmitTyped(r) /\ Active(r)
  BY DEF BuildsInv, HomeTyped, OfTheSubmit, Entered, Active
<1>2. EnvKey(r) \in DOMAIN dirs /\ (NativeKey(r) # NoKey => NativeKey(r) \in DOMAIN dirs)
  BY DEF BuildsInv, OfTheSubmit, Building
<1>3. PICK a \in Asked : r.sha = a.sha /\ r.python = a.python
  BY <1>1 DEF SubmitTyped
<1>4. EnvKey(r) = EnvKey(a) /\ NativeKey(r) = NativeKey(a)
  BY <1>3 DEF EnvKey, NativeKey
<1>5. dirs[EnvKey(r)].done /\ Serves(dirs[EnvKey(r)].holds, a)
  BY <1>2, <1>4 DEF BuildsInv, DirsServe, StandsFor
<1>6. NativeKey(r) # NoKey => dirs[NativeKey(r)].done /\ Native(dirs[NativeKey(r)].holds, a)
  BY <1>2, <1>4 DEF BuildsInv, DirsServe, StandsFor
<1>7. \A held : (Serves(held, a) => Serves(held, r)) /\ (Native(held, a) => held.native = Commits[r.sha].native /\ Serves(held.env, r))
  BY <1>3 DEF Serves, Native
<1>8. entry[r.sha].env = EnvKey(r) /\ entry[r.sha].native = NativeKey(r)
  BY <1>1
<1> QED
  BY <1>2, <1>5, <1>6, <1>7, <1>8 DEF Done

\* builds.py:21-34, artifact.py: whatever else was built, reused, failed or died on the account, a
\* submit enters an environment and a native part that a build of its own inputs finished, and an
\* artifact that exists is a whole one, but where two submits worked on one commit at once.
THEOREM BuildsAreEntered ==
  ASSUME BuildsAssumption
  PROVE  BuildsSpec => [](EntersWhatItBuilt /\ ArtifactIsWhole)
<1>1. BuildsInv => EntersWhatItBuilt /\ ArtifactIsWhole
  BY EntriesServe DEF BuildsInv
<1> QED
  BY <1>1, BuildsStand, PTL

-----------------------------------------------------------------------------
(* What is collected.                                                      *)

LEMMA FreshYields ==
  ASSUME NEW s, NEW x
  PROVE  Fresh(s, x) = Yields(Commits[s.sha].files[x], x, GlobalKey(s))
BY DEF Fresh, Yields, GlobalKey, Seed

\* What a collection adds to the ids of a store is right for every commit that reads them.
LEMMA LearnsRight ==
  ASSUME NothingMoves, NEW s, s.sha \in Shas, RightIds(s.known, GlobalKey(s)), NEW seen \in SUBSET Paths(s.sha), NEW errors
  PROVE  RightIds(Collected(s, seen, errors).known, GlobalKey(s))
<1> DEFINE blob(x) == Commits[s.sha].files[x]
           paths == (seen \ {x \in seen : blob(x) \in DOMAIN s.known}) \ errors
           new == Learned(s, paths)
           key == GlobalKey(s)
<1>1. Collected(s, seen, errors).known = Updated(new, s.known)
  BY DEF Collected
<1>2. paths \subseteq Paths(s.sha)
  OBVIOUS
<1> HIDE DEF paths
<1>3. DOMAIN new = {blob(x) : x \in paths}
  BY DEF Learned
<1> SUFFICES ASSUME NEW c \in Shas, NEW x \in Paths(c), Commits[c].files[x] \in DOMAIN Updated(new, s.known)
             PROVE  Updated(new, s.known)[Commits[c].files[x]] = Yields(Commits[c].files[x], x, key)
  BY <1>1 DEF RightIds
<1> DEFINE b == Commits[c].files[x]
<1>4. CASE b \in DOMAIN new
  <2> DEFINE last == CHOOSE y \in paths : blob(y) = b
  <2>1. last \in paths /\ blob(last) = b
    BY <1>3, <1>4
  <2>2. last = x
    BY <1>2, <2>1 DEF NothingMoves
  <2>3. new[b] = Fresh(s, last)
    BY <1>3, <1>4 DEF Learned
  <2>4. Updated(new, s.known)[b] = new[b]
    BY <1>4 DEF Updated
  <2> HIDE DEF last, new
  <2> QED
    BY <2>1, <2>2, <2>3, <2>4, FreshYields
<1>5. CASE b \notin DOMAIN new
  <2>1. b \in DOMAIN s.known /\ Updated(new, s.known)[b] = s.known[b]
    BY <1>5 DEF Updated
  <2> QED
    BY <2>1 DEF RightIds
<1> QED
  BY <1>4, <1>5

\* A collection over the whole tree reads what its own commit would give.
LEMMA ReadsRight ==
  ASSUME NEW s, s.sha \in Shas, RightIds(s.known, GlobalKey(s)), NEW errors \in SUBSET Stale(s, Paths(s.sha)),
         NEW read, read = Collected(s, Paths(s.sha), errors).output
  PROVE  read.ids = UNION {Fresh(s, x) : x \in Paths(s.sha) \ read.errors}
<1> DEFINE blob(x) == Commits[s.sha].files[x]
           all == Paths(s.sha)
           cached == {x \in all : blob(x) \in DOMAIN s.known}
<1>1. /\ read.errors = errors
      /\ read.ids = (UNION {s.known[blob(x)] : x \in cached}) \cup (UNION {Fresh(s, x) : x \in (all \ cached) \ errors})
  BY DEF Collected
<1>2. \A x \in cached : s.known[blob(x)] = Fresh(s, x) /\ x \notin errors
  BY FreshYields DEF RightIds, Stale
<1>3. UNION {s.known[blob(x)] : x \in cached} = UNION {Fresh(s, x) : x \in cached}
  BY <1>2
<1>4. (UNION {Fresh(s, x) : x \in cached}) \cup (UNION {Fresh(s, x) : x \in (all \ cached) \ errors})
        = UNION {Fresh(s, x) : x \in all \ errors}
  BY <1>2
<1> QED
  BY <1>1, <1>3, <1>4

\* One submit moves: what the others read of their commits stays.
LEMMA ReaderMoves ==
  ASSUME BuildsAssumption, BuildsInv, CollectInv, NEW p \in Submits, NEW s, Is(p, s), crossed \subseteq crossed',
         \A c \in Shas : ~(Active(proc[p]) /\ c = proc[p].sha) => tree'[c] = tree[c] /\ out'[c] = out[c],
         \A key \in DOMAIN store' : RightIds(store'[key], key),
         s.pc = "collecting" => RightIds(s.known, GlobalKey(s)),
         s.pc = "cat" /\ s.sha \notin crossed' /\ tree'[s.sha] = "whole" /\ ~out'[s.sha].failed =>
           out'[s.sha].ids = UNION {Fresh(s, x) : x \in Paths(s.sha) \ out'[s.sha].errors}
  PROVE  CollectInv'
<1>1. proc'[p] = s /\ \A q \in Submits \ {p} : proc'[q] = proc[q]
  BY DEF Is, BuildsInv, HomeTyped
<1>2. (\A key \in DOMAIN store : RightIds(store[key], key))'
  BY DEF RightIds, Yields, Paths, Shas
<1>3. ASSUME NEW q \in Submits, proc'[q].pc = "collecting"
      PROVE  RightIds(proc'[q].known, GlobalKey(proc'[q]))
  BY <1>1, <1>3 DEF CollectInv, SubmitAt
<1>4. (\A q \in Submits : SubmitAt(q, "collecting") => RightIds(proc[q].known, GlobalKey(proc[q])))'
  <2>1. SUFFICES ASSUME NEW q \in Submits, proc'[q].pc = "collecting"
                 PROVE  RightIds(proc[q].known, GlobalKey(proc[q]))'
    BY DEF SubmitAt
  <2> QED
    BY <1>3, <2>1 DEF RightIds, GlobalKey, Seed, Yields, Paths, Shas, EnvKey, NativeKey, NoKey, Recipe
<1>5. CollectsItsCommit'
  <2> SUFFICES ASSUME NEW q \in Submits, proc'[q].pc = "cat", proc'[q].sha \notin crossed', tree'[proc'[q].sha] = "whole",
                      ~out'[proc'[q].sha].failed
               PROVE  out'[proc'[q].sha].ids = UNION {Fresh(proc'[q], x) : x \in Paths(proc'[q].sha) \ out'[proc'[q].sha].errors}
    BY DEF CollectsItsCommit, SubmitAt, Fresh, Paths
  <2>1. CASE q = p
    BY <1>1, <2>1
  <2>2. CASE q # p
    <3>1. proc'[q] = proc[q] /\ Active(proc[q]) /\ SubmitTyped(proc[q])
      BY <1>1, <2>2 DEF Active, BuildsInv, HomeTyped
    <3>2. proc[q].sha \in Shas
      BY <3>1, ActiveShas
    <3>3. ~(Active(proc[p]) /\ proc[q].sha = proc[p].sha)
      BY <2>2, <3>1 DEF BuildsInv, CrossedAreTold
    <3>4. tree'[proc[q].sha] = tree[proc[q].sha] /\ out'[proc[q].sha] = out[proc[q].sha]
      BY <3>2, <3>3
    <3> QED
      BY <3>1, <3>4 DEF CollectInv, CollectsItsCommit, SubmitAt
  <2> QED
    BY <2>1, <2>2
<1> QED
  BY <1>2, <1>4, <1>5 DEF CollectInv

\* The steps that are no part of a collection.
LEMMA ElsewhereReads ==
  ASSUME BuildsAssumption, BuildsInv, CollectInv, NEW p \in Submits, NEW s, Is(p, s), crossed \subseteq crossed',
         UNCHANGED <<store, out>>, s.pc \notin {"collecting", "cat"},
         \A c \in Shas : ~(Active(proc[p]) /\ c = proc[p].sha) => tree'[c] = tree[c]
  PROVE  CollectInv'
BY ReaderMoves DEF CollectInv

LEMMA OutsideStands ==
  ASSUME BuildsAssumption, BuildsInv, CollectInv, NEW p \in Submits,
         \/ Begin(p) \/ Fetch(p) \/ AddTree(p) \/ TreeAdded(p) \/ Reuse(p) \/ Lock(p) \/ Install(p) \/ Enter(p) \/ Cat(p)
         \/ PackArtifact(p) \/ Tar(p) \/ Tarred(p) \/ Move(p) \/ Lost(p)
  PROVE  CollectInv'
<1> DEFINE r == proc[p]
<1>1. SubmitTyped(r) /\ tree = [c \in Shas |-> tree[c]]
  BY DEF BuildsInv, HomeTyped
<1>2. UNCHANGED <<store, out>> /\ crossed \subseteq crossed'
  BY DEF Begin, Fetch, Reaches, AddTree, TreeAdded, Reuse, Lock, Install, Enter, Cat, PackArtifact, Tar, Tarred, Move, Lost, Calm, home
<1>3. \A c \in Shas : ~(Active(r) /\ c = r.sha) => tree'[c] = tree[c]
  <2>1. CASE AddTree(p) \/ TreeAdded(p)
    BY <1>1, <2>1 DEF AddTree, TreeAdded, SubmitAt, Active
  <2>2. CASE ~(AddTree(p) \/ TreeAdded(p))
    BY <2>2 DEF Begin, Fetch, Reaches, Reuse, Lock, Install, Enter, Cat, PackArtifact, Tar, Tarred, Move, Lost, home
  <2> QED
    BY <2>1, <2>2
<1>4. \A pc : [r EXCEPT !.pc = pc].pc = pc
  BY <1>1 DEF SubmitTyped, SubmitFields
<1>5. WantsEnv(p).pc = "wants" /\ [r EXCEPT !.pc = "wants", !.key = NativeKey(r)].pc = "wants"
      /\ [r EXCEPT !.pc = "collects", !.sel = TRUE].pc = "collects"
  BY <1>1 DEF SubmitTyped, SubmitFields, WantsEnv
<1>6. Finished(p).pc = "idle" /\ Again(p).pc = "idle"
  BY Ending
<1>7. CASE Reuse(p) \/ Install(p)
  <2>1. r.pc \in {"wants", "building"} /\ Is(p, After(p))
    BY <1>7 DEF Reuse, Install, SubmitAt
  <2>2. After(p).pc \in {"wants", "built", "members"}
    <3> DEFINE keys == DOMAIN dirs \cup {proc[p].key}
    <3>1. DOMAIN dirs \subseteq keys /\ proc[p].key \in keys
      OBVIOUS
    <3> HIDE DEF keys
    <3> QED
      BY <2>1, <3>1, AfterBuild
  <2> QED
    BY <1>2, <1>3, <2>1, <2>2, ElsewhereReads
<1>8. CASE Begin(p)
  <2> DEFINE a == Todo[p][r.at]
             s == [NoSubmit EXCEPT !.pc = "fetching", !.sha = a.sha, !.python = a.python, !.kind = a.kind, !.packs = a.packs,
                    !.at = r.at]
  <2>1. Is(p, s) /\ s.pc = "fetching"
    BY <1>8 DEF Begin, NoSubmit
  <2> HIDE DEF s
  <2> QED
    BY <1>2, <1>3, <2>1, ElsewhereReads
<1>9. ASSUME NEW pc \in {"fetched", "packing", "adding", "building", "collects", "members", "writing", "moving"},
             Is(p, [r EXCEPT !.pc = pc])
      PROVE  CollectInv'
  BY <1>2, <1>3, <1>4, <1>9, ElsewhereReads
<1>10. CASE Fetch(p)
  BY <1>2, <1>3, <1>6, <1>9, <1>10, ElsewhereReads DEF Fetch, Reaches, Go
<1>11. CASE AddTree(p) \/ TreeAdded(p)
  BY <1>2, <1>3, <1>5, <1>9, <1>11, ElsewhereReads DEF AddTree, TreeAdded, Go
<1>12. CASE Lock(p) \/ Enter(p) \/ Tar(p) \/ Tarred(p)
  BY <1>9, <1>12 DEF Lock, Enter, Tar, Tarred, Go
<1>13. CASE Cat(p)
  BY <1>2, <1>3, <1>5, <1>6, <1>13, ElsewhereReads DEF Cat
<1>14. CASE PackArtifact(p)
  BY <1>2, <1>3, <1>5, <1>6, <1>9, <1>14, ElsewhereReads DEF PackArtifact
<1>15. CASE Move(p) \/ Lost(p)
  BY <1>2, <1>3, <1>6, <1>15, ElsewhereReads DEF Move, Lost
<1> QED
  BY <1>7, <1>8, <1>10, <1>11, <1>12, <1>13, <1>14, <1>15

LEMMA CollectionStands ==
  ASSUME BuildsAssumption, NothingMoves, BuildsInv, CollectInv, NEW p \in Submits, ReadStore(p) \/ Collect(p) \/ CollectFails(p)
  PROVE  CollectInv'
<1> DEFINE r == proc[p]
<1>1. SubmitTyped(r) /\ Active(r) /\ out = [c \in Shas |-> out[c]]
  BY DEF BuildsInv, HomeTyped, ReadStore, Collect, CollectFails, SubmitAt, Active
<1>2. UNCHANGED tree /\ crossed' = crossed /\ r.sha \in Shas
  BY <1>1, ActiveShas DEF ReadStore, Collect, CollectFails, Calm, home
<1>3. CASE ReadStore(p)
  <2> DEFINE known == IF GlobalKey(r) \in DOMAIN store THEN store[GlobalKey(r)] ELSE NoIds
             s == [r EXCEPT !.pc = "collecting", !.known = known]
  <2>1. RightIds(known, GlobalKey(r))
    BY DEF CollectInv, RightIds, NoIds
  <2>2. s.pc = "collecting" /\ s.known = known /\ s.sha = r.sha /\ s.python = r.python /\ s.sel = r.sel
    BY <1>1 DEF SubmitTyped, SubmitFields
  <2>3. GlobalKey(s) = GlobalKey(r)
    BY <2>2 DEF GlobalKey, Seed, EnvKey, NativeKey
  <2>4. Is(p, s) /\ UNCHANGED <<store, out>>
    BY <1>3 DEF ReadStore, home
  <2> HIDE DEF s, known
  <2> QED
    BY <1>2, <2>1, <2>2, <2>3, <2>4, ReaderMoves DEF CollectInv
<1> DEFINE s == [r EXCEPT !.pc = "cat", !.known = NoIds]
<1>4. s.pc = "cat" /\ s.sha = r.sha /\ s.sel = r.sel
  BY <1>1 DEF SubmitTyped, SubmitFields
<1>5. \A x : Fresh(s, x) = Fresh(r, x)
  BY <1>4 DEF Fresh
<1>6. CASE Collect(p)
  <2>1. r.pc = "collecting" /\ Is(p, s) /\ RightIds(r.known, GlobalKey(r))
    BY <1>6 DEF Collect, SubmitAt, CollectInv
  <2> PICK seen \in (IF tree[r.sha] = "whole" THEN {Paths(r.sha)} ELSE SUBSET Paths(r.sha)) :
        \E errors \in SUBSET Stale(r, seen) :
          /\ store' = IF Stale(r, seen) = {} THEN store
                      ELSE Updated([k \in {GlobalKey(r)} |-> Collected(r, seen, errors).known], store)
          /\ out' = [out EXCEPT ![r.sha] = Collected(r, seen, errors).output]
    BY <1>6 DEF Collect
  <2>2. PICK errors \in SUBSET Stale(r, seen) :
          /\ store' = IF Stale(r, seen) = {} THEN store
                      ELSE Updated([k \in {GlobalKey(r)} |-> Collected(r, seen, errors).known], store)
          /\ out' = [out EXCEPT ![r.sha] = Collected(r, seen, errors).output]
    OBVIOUS
  <2>3. \A key \in DOMAIN store' : RightIds(store'[key], key)
    <3>1. RightIds(Collected(r, seen, errors).known, GlobalKey(r))
      BY <1>2, <2>1, <2>2, LearnsRight
    <3> QED
      BY <2>2, <3>1 DEF Updated, CollectInv
  <2>4. /\ out'[r.sha] = Collected(r, seen, errors).output
        /\ \A c \in Shas \ {r.sha} : out'[c] = out[c]
    BY <1>1, <1>2, <2>2
  <2>5. ASSUME tree[r.sha] = "whole"
        PROVE  out'[r.sha].ids = UNION {Fresh(r, x) : x \in Paths(r.sha) \ out'[r.sha].errors}
    <3>1. seen = Paths(r.sha)
      BY <2>5
    <3>2. errors \in SUBSET Stale(r, Paths(r.sha)) /\ out'[r.sha] = Collected(r, Paths(r.sha), errors).output
      BY <2>2, <2>4, <3>1
    <3> QED
      BY <1>2, <2>1, <3>2, ReadsRight
  <2>6. UNION {Fresh(r, x) : x \in Paths(r.sha) \ out'[r.sha].errors} = UNION {Fresh(s, x) : x \in Paths(r.sha) \ out'[r.sha].errors}
    BY <1>5
  <2>7. \A c \in Shas : ~(Active(proc[p]) /\ c = proc[p].sha) => tree'[c] = tree[c] /\ out'[c] = out[c]
    BY <1>1, <1>2, <2>4
  <2>8. s.pc = "cat" /\ s.sha \notin crossed' /\ tree'[s.sha] = "whole" /\ ~out'[s.sha].failed =>
          out'[s.sha].ids = UNION {Fresh(s, x) : x \in Paths(s.sha) \ out'[s.sha].errors}
    BY <1>2, <1>4, <2>5, <2>6
  <2> HIDE DEF s
  <2> QED
    BY <1>2, <1>4, <2>1, <2>3, <2>7, <2>8, ReaderMoves
<1>7. CASE CollectFails(p)
  <2>1. Is(p, s) /\ UNCHANGED store /\ out' = [out EXCEPT ![r.sha] = [Unread EXCEPT !.failed = TRUE]]
    BY <1>7 DEF CollectFails
  <2>2. out'[r.sha].failed /\ \A c \in Shas \ {r.sha} : out'[c] = out[c]
    BY <1>1, <1>2, <2>1 DEF Unread
  <2>3. \A c \in Shas : ~(Active(proc[p]) /\ c = proc[p].sha) => tree'[c] = tree[c] /\ out'[c] = out[c]
    BY <1>1, <1>2, <2>2
  <2>4. \A key \in DOMAIN store' : RightIds(store'[key], key)
    BY <2>1 DEF CollectInv
  <2>5. out'[s.sha].failed
    BY <1>4, <2>2
  <2> HIDE DEF s
  <2> QED
    BY <1>2, <1>4, <2>1, <2>3, <2>4, <2>5, ReaderMoves
<1> QED
  BY <1>3, <1>6, <1>7

LEMMA CollectionsStand ==
  ASSUME BuildsAssumption, NothingMoves
  PROVE  BuildsSpec => [](BuildsInv /\ CollectInv)
<1>1. BuildsInit => BuildsInv /\ CollectInv
  BY BuildsBegin DEF BuildsInit, CollectInv, CollectsItsCommit, SubmitAt, NoSubmit
<1>2. ASSUME BuildsInv, CollectInv, [BuildsNext]_buildVars
      PROVE  BuildsInv' /\ CollectInv'
  <2>1. BuildsInv'
    BY <1>2, BuildsSteps
  <2>2. ASSUME UNCHANGED buildVars
        PROVE  CollectInv'
    <3>1. UNCHANGED <<tree, store, out, proc, crossed>>
      BY <2>2 DEF buildVars
    <3>2. (\A key \in DOMAIN store : RightIds(store[key], key))'
      BY <1>2, <3>1 DEF CollectInv, RightIds, Yields, Paths, Shas
    <3>3. ASSUME NEW q \in Submits
          PROVE  GlobalKey(proc[q])' = GlobalKey(proc[q])
      BY <3>1 DEF GlobalKey, Seed, EnvKey, NativeKey, NoKey, Recipe
    <3>4. (\A q \in Submits : SubmitAt(q, "collecting") => RightIds(proc[q].known, GlobalKey(proc[q])))'
      BY <1>2, <3>1, <3>3 DEF CollectInv, RightIds, Yields, SubmitAt, Paths, Shas
    <3>5. CollectsItsCommit'
      BY <1>2, <3>1 DEF CollectInv, CollectsItsCommit, SubmitAt, Fresh, Paths
    <3> QED
      BY <3>2, <3>4, <3>5 DEF CollectInv
  <2>3. ASSUME NEW p \in Submits,
               \/ Begin(p) \/ Fetch(p) \/ AddTree(p) \/ TreeAdded(p) \/ Reuse(p) \/ Lock(p) \/ Install(p) \/ Enter(p)
               \/ ReadStore(p) \/ Collect(p) \/ CollectFails(p) \/ Cat(p)
               \/ PackArtifact(p) \/ Tar(p) \/ Tarred(p) \/ Move(p) \/ Lost(p)
        PROVE  CollectInv'
    BY <1>2, <2>3, OutsideStands, CollectionStands
  <2> QED
    BY <1>2, <2>1, <2>2, <2>3 DEF BuildsNext
<1> QED
  BY <1>1, <1>2, PTL DEF BuildsSpec

\* collect.py:1-18: where no test file's content lies at two paths (run collect_moved shows what
\* happens else), a submit also reads back what a collection of its own commit and marker would
\* give, but for the files reported as errors, though most of it comes from other commits.
THEOREM AccountStands ==
  ASSUME BuildsAssumption, NothingMoves
  PROVE  BuildsSpec => []AccountIsKept
<1>1. BuildsInv /\ CollectInv => AccountIsKept
  BY EntriesServe DEF BuildsInv, CollectInv, AccountIsKept
<1> QED
  BY <1>1, CollectionsStand, PTL

=================================================================================
