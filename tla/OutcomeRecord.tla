---------------------------- MODULE OutcomeRecord ----------------------------
(***************************************************************************)
(* The append-only record of what happened to each task: outcomes/record   *)
(* .py over outcomes/jsonl.py.  One Record object writes the file; its     *)
(* process may be killed, and the machine may lose power, at any moment.   *)
(* A line is an event or Garbage; bytes are not modelled.                  *)
(***************************************************************************)
EXTENDS Integers, Sequences, SequencesExt

CONSTANTS
  Key,       \* identities
  Cell,      \* what a task may come to
  Decided,   \* the cells whose status is DECIDED; the others are RETRYABLE
  NoCell,    \* the cell of a submitted event
  Garbage,   \* a terminated line that is no JSON object
  OldFiles,  \* what an older version may have left: v1 lines, no attempts
  GoesOn,    \* after append() raised an OSError, the object is used again
  MaxLines   \* bound: lines of the file

VARIABLES
  lines,     \* the terminated lines, as the operating system shows them
  tail,      \* whether an unterminated tail follows them
  synced,    \* how many of the lines are on the disk
  pc,        \* the Record object: closed, idle, or inside append()
  view,      \* its events
  good,      \* _good_bytes, counted in lines
  torn,      \* _torn
  pending,   \* the event append() is writing, once it has numbered it
  returned   \* history: the events whose append() returned True

vars == <<lines, tail, synced, pc, view, good, torn, pending, returned>>
file == <<lines, tail, synced>>

Attempt == 0 .. MaxLines  \* 0: not numbered
Event == [key : Key, cell : Cell \cup {NoCell}, attempt : Attempt]

Submitted(k) == [key |-> k, cell |-> NoCell, attempt |-> 0]

\* What a caller may pass to append(): an attempt may be left to default.
Events == {Submitted(k) : k \in Key} \cup [key : Key, cell : Cell, attempt : Attempt]

ASSUME RecordAssumption ==
  /\ Key # {}
  /\ Decided \subseteq Cell /\ NoCell \notin Cell
  /\ Garbage \notin Event
  /\ MaxLines \in Nat /\ GoesOn \in BOOLEAN
  /\ \A s \in OldFiles : /\ s \in Seq(Event) /\ Len(s) <= MaxLines
                         /\ \A i \in DOMAIN s : s[i].attempt = 0

-----------------------------------------------------------------------------
(* The events of a file or of a view.                                      *)

\* Where the outcomes of k are among the events s.
OutcomesOf(s, k) ==
  {i \in DOMAIN s : s[i] # Garbage /\ s[i].key = k /\ s[i].cell # NoCell}

Attempts(s, k) == Cardinality(OutcomesOf(s, k))

\* The outcomes of k up to the i-th line.
UpTo(s, k, i) == {j \in OutcomesOf(s, k) : j <= i}

\* The latest outcome of k is a decision.
HasDecision(s, k) ==
  \E i \in OutcomesOf(s, k) :
    /\ \A j \in OutcomesOf(s, k) : j <= i
    /\ s[i].cell \in Decided

\* An outcome without an attempt gets the identity's next one.
Numbered(e, recorded) ==
  IF e.cell # NoCell /\ e.attempt = 0 THEN [e EXCEPT !.attempt = recorded + 1] ELSE e

\* What opening the file reads: every complete row, numbered in file order.
Loaded(s) ==
  [i \in DOMAIN s |-> Numbered(s[i], Attempts(SubSeq(s, 1, i - 1), s[i].key))]

Readable(s) == \A i \in DOMAIN s : s[i] # Garbage

\* Mutants: an attempt number is all an outcome needs, or nothing but a missing
\* decision; a submission is not looked for.
AdmittedByAttempt(e) ==
  IF e.cell = NoCell
  THEN \A i \in DOMAIN view : view[i] # e
  ELSE e.attempt = Attempts(view, e.key) + 1

\* What append() goes on to write: neither a repeat, for which it returns
\* False, nor a conflict with a final decision, a changed cell or a skipped
\* attempt, for which it raises.
Admitted(e) ==
  IF e.cell = NoCell
  THEN \A i \in DOMAIN view : view[i] # e
  ELSE ~HasDecision(view, e.key) /\ e.attempt = Attempts(view, e.key) + 1

-----------------------------------------------------------------------------
Init ==
  /\ lines \in OldFiles /\ tail \in BOOLEAN /\ synced = Len(lines)
  /\ pc = "closed" /\ view = <<>> /\ good = 0 /\ torn = FALSE
  /\ pending = Submitted(CHOOSE k \in Key : TRUE)
  /\ returned = {}

\* Record(path): a torn last line is dropped, a damaged one refuses the file.
Open ==
  /\ pc = "closed" /\ Readable(lines)
  /\ pc' = "idle"
  /\ view' = Loaded(lines)
  /\ good' = Len(lines)
  /\ torn' = tail
  /\ UNCHANGED <<file, pending, returned>>

StartAppend(e) ==
  LET event == Numbered(e, Attempts(view, e.key))
  IN  /\ pc = "idle" /\ Len(lines) < MaxLines
      /\ Admitted(event)
      /\ pc' = "write" /\ pending' = event
      /\ UNCHANGED <<file, view, good, torn, returned>>

\* Mutants: one line too many is cut off; none is.
CutTooFar == IF torn THEN SubSeq(lines, 1, good - 1) ELSE lines
TailThere == tail

\* The file once a torn tail is cut off, and whether one is there that this
\* object does not know of.
Cut == IF torn THEN SubSeq(lines, 1, good) ELSE lines
TailUnknown == tail /\ ~torn

\* The line goes out whole: behind a tail nobody cut, it is a damaged one.
Write ==
  /\ pc = "write"
  /\ lines' = Append(Cut, IF TailUnknown THEN Garbage ELSE pending)
  /\ tail' = FALSE /\ torn' = FALSE /\ pc' = "sync"
  /\ UNCHANGED <<synced, view, good, pending, returned>>

\* Part of the line is out, or none of it.
PartWritten ==
  /\ lines' = Cut
  /\ tail' \in (IF TailUnknown THEN {TRUE} ELSE BOOLEAN)

\* append() raises, and its caller lets the object go or goes on with it.
Raised == pc' = IF GoesOn THEN "idle" ELSE "closed"

\* The write raises.
WriteFails ==
  /\ pc = "write"
  /\ PartWritten
  /\ torn' = FALSE
  /\ Raised
  /\ UNCHANGED <<synced, view, good, pending, returned>>

\* Mutant: nothing is synced.
SyncNothing ==
  /\ pc = "sync"
  /\ good' = good + 1
  /\ view' = Append(view, pending)
  /\ returned' = returned \cup {pending}
  /\ pc' = "idle"
  /\ UNCHANGED <<file, torn, pending>>

\* fsync returns: the event is on disk, the views take it, append() is True.
Sync ==
  /\ pc = "sync"
  /\ synced' = Len(lines)
  /\ good' = good + 1
  /\ view' = Append(view, pending)
  /\ returned' = returned \cup {pending}
  /\ pc' = "idle"
  /\ UNCHANGED <<lines, tail, torn, pending>>

\* fsync raises, with the line in the file.
SyncFails ==
  /\ pc = "sync"
  /\ Raised
  /\ UNCHANGED <<file, view, good, torn, pending, returned>>

\* The process is killed: what it had written the operating system keeps.
Kill ==
  /\ pc # "closed" /\ pc' = "closed"
  /\ \/ pc = "write" /\ PartWritten
     \/ UNCHANGED <<lines, tail>>
  /\ UNCHANGED <<synced, view, good, torn, pending, returned>>

\* The machine loses power: what was not synced may be lost, or torn.
PowerLoss ==
  /\ pc # "closed" /\ pc' = "closed"
  /\ \E n \in synced .. Len(lines) :
       /\ lines' = SubSeq(lines, 1, n)
       /\ tail' \in (IF n < Len(lines) THEN BOOLEAN ELSE {tail, FALSE})
       /\ synced' = n
  /\ UNCHANGED <<view, good, torn, pending, returned>>

Next ==
  \/ Open
  \/ \E e \in Events : StartAppend(e)
  \/ Write
  \/ WriteFails
  \/ Sync
  \/ SyncFails
  \/ Kill
  \/ PowerLoss

Spec == Init /\ [][Next]_vars

-----------------------------------------------------------------------------
\* The variables have their types.
TypeOK ==
  /\ lines \in Seq(Event \cup {Garbage})
  /\ tail \in BOOLEAN /\ torn \in BOOLEAN
  /\ synced \in 0 .. Len(lines) /\ good \in Nat
  /\ pc \in {"closed", "idle", "write", "sync"}
  /\ view \in Seq(Event)
  /\ pending \in Event
  /\ returned \subseteq Event

\* record.py:5-6, "an event that returned is on disk": whatever is killed or
\* loses power afterwards, each event whose append() returned True is one of
\* the synced lines, as it was written.
ReturnedEventsAreOnDisk ==
  \A e \in returned : \E i \in 1 .. synced : lines[i] = e

\* jsonl.py:3-7: no sequence of kills and appends leaves a damaged line in
\* front of the tail, for which the next reader would refuse the whole file.
RecordStaysReadable == Readable(lines)

\* record.py:12-14: per identity the first decided outcome is the last one
\* the file will hold, across kills, reopenings and replayed appends.
FirstDecisionIsFinal ==
  \A k \in Key : \A i, j \in OutcomesOf(lines, k) : i < j => lines[i].cell \notin Decided

\* record.py:7-10: read back, the attempts of an identity are 1, 2, ... in
\* file order, the lines of an older version included.
AttemptsAreCounted ==
  \A k \in Key : \A i \in OutcomesOf(lines, k) :
    Loaded(lines)[i].attempt = Cardinality(UpTo(lines, k, i))

\* record.py:6-10: replaying an event, after a kill that hid whether its
\* append had returned too, never records it twice.
ReplayWritesNothing ==
  \A i, j \in DOMAIN lines : i # j => Loaded(lines)[i] # Loaded(lines)[j]

\* record.py:17-18: between two appends the object shows what a reader who
\* opened the file now would, and knows where the file's good part ends.
ViewIsTheFile ==
  pc = "idle" =>
    /\ view = Loaded(lines)
    /\ torn = tail
    /\ torn => good = Len(lines)

\* jsonl.py:3-7, record.py:17-18: whatever was cut short, the file can be read, and
\* the object that writes it knows what it holds.
RecordIsSound == TypeOK /\ RecordStaysReadable /\ ViewIsTheFile

\* record.py:5-14: an identity's attempts are numbered in file order, none follows
\* its decision, and none is there twice, however often it is replayed.
AttemptsStand == FirstDecisionIsFinal /\ AttemptsAreCounted /\ ReplayWritesNothing

\* record.py: the record is readable and whole, what append() returned is on the disk, and
\* an identity's attempts are counted once each
\* (RecordIsSound, ReturnedEventsAreOnDisk, AttemptsStand).
RecordStands == RecordIsSound /\ ReturnedEventsAreOnDisk /\ AttemptsStand

\* The line of its n-th outcome, and the cells of its outcomes in file order.
OutcomeAt(s, k, n) == CHOOSE i \in OutcomesOf(s, k) : Cardinality(UpTo(s, k, i)) = n
CellsOf(s, k) == [n \in 1 .. Attempts(s, k) |-> s[OutcomeAt(s, k, n)].cell]

\* What a reader is sure to find after any crash: the cells of the synced
\* lines.
Durable == SubSeq(lines, 1, synced)
History == [k \in Key |-> CellsOf(Durable, k)]

Promise == INSTANCE OutcomeHistory WITH history <- History

\* The record implements the abstract history: what is durable is only ever
\* extended, and never past a decision.
HistoryIsKept == Promise!Spec
=============================================================================
