------------------------------ MODULE RecordFiles ------------------------------
(***************************************************************************)
(* One state file, the processes that replace or remove it and those that  *)
(* read it: _records.py, compute/durable.py, and its callers.  A process   *)
(* may die, and the machine may go down, between any two steps.            *)
(*                                                                         *)
(* A file's content is "absent", "torn", or the name of the writer that    *)
(* wrote it whole; "first" is whole from the beginning.                    *)
(***************************************************************************)
EXTENDS Integers, FiniteSets

CONSTANTS
  Writers, Readers,
  DoorOf,         \* [writer -> "durable_write", "save_toml", "publish" or "unpublish"]
  HowsOf,         \* a set of [reader -> "learned", "read_table" or "read_ended"]
  Windows,        \* a handle that is open refuses a rename onto its file, and its removal
  Begun,          \* the contents that the file may have at first
  Insistence,     \* bound: how often a refused rename or removal is tried
  MaxTroubles     \* bound: deaths, outages and disks that are full

FilesAssumption ==
  /\ Insistence \in Nat \ {0} /\ MaxTroubles \in Nat /\ Windows \subseteq BOOLEAN
  /\ DoorOf \in [Writers -> {"durable_write", "save_toml", "publish", "unpublish"}]
  /\ HowsOf \subseteq [Readers -> {"learned", "read_table", "read_ended"}]
  /\ Begun \subseteq {"absent", "torn", "first"} /\ {"absent", "torn", "first"} \cap Writers = {}

VARIABLES
  windows,    \* the system
  kept,       \* what the name holds
  disk,       \* what it may hold after an outage
  staged,     \* [writer -> its temporary file: "none", "part", "whole"]
  writer,     \* [writer -> [pc, tries]]
  reader,     \* [reader -> [how, pc, content, tries]]
  moved,      \* what was moved away as unreadable
  troubles,
  shown,      \* ghost: every content that the name had
  late        \* ghost: what landed after a reader found the file torn, before it moved it

fileVars == <<windows, kept, disk, staged, writer, reader, moved, troubles, shown, late>>

\* A door puts the file or removes it. durable_write(), which save_toml() goes through, flushes the
\* data before the rename and the rename after it, and clears its temporary file whatever fails.
Puts(w) == DoorOf[w] # "unpublish"
Flushes(w) == DoorOf[w] \in {"durable_write", "save_toml"}
\* learned() reads again what is torn; read_ended() alone does not move it away.
ReadsAgain(r) == IF reader[r].how = "learned" THEN 1 ELSE 0
MovesTorn(r) == reader[r].how # "read_ended"

IsWhole(content) == content \notin {"absent", "torn"}

FilesInit ==
  /\ windows \in Windows
  /\ kept \in Begun /\ disk = {kept} /\ shown = {kept}
  /\ staged = [w \in Writers |-> "none"]
  /\ writer = [w \in Writers |-> [pc |-> "idle", tries |-> 0]]
  /\ \E how \in HowsOf : reader = [r \in Readers |-> [how |-> how[r], pc |-> "idle", content |-> "absent", tries |-> 0]]
  /\ moved = {} /\ late = {} /\ troubles = 0

WriterAt(w, pc) == writer[w].pc = pc
WriterGoes(w, pc) == writer' = [writer EXCEPT ![w].pc = pc]
InHand(r, content) == reader[r].pc = "open" /\ reader[r].content = content
\* The name of the file changes: on the disk at once, or after a flush.
Becomes(content, survives) ==
  /\ kept' = content /\ disk' = survives /\ shown' = shown \cup {content}
  /\ late' = late \cup IF IsWhole(content) /\ \E r \in Readers : InHand(r, "torn") \/ reader[r].pc = "move" THEN {content} ELSE {}
Kept == UNCHANGED <<kept, disk, shown, late>>

-----------------------------------------------------------------------------
(* Writers.                                                                *)

\* Mutant: the file itself is opened, and written.
StageInPlace(w) ==
  /\ WriterAt(w, "idle") /\ Puts(w)
  /\ WriterGoes(w, "staging") /\ staged' = [staged EXCEPT ![w] = "part"]
  /\ Becomes("torn", {"torn"})
  /\ UNCHANGED <<windows, reader, moved, troubles>>
\* stage(): a name of its own, in the directory of the file.
Stage(w) ==
  /\ WriterAt(w, "idle") /\ Puts(w)
  /\ WriterGoes(w, "staging") /\ staged' = [staged EXCEPT ![w] = "part"]
  /\ Kept /\ UNCHANGED <<windows, reader, moved, troubles>>
Staged(w) ==
  /\ WriterAt(w, "staging")
  /\ WriterGoes(w, "insist") /\ staged' = [staged EXCEPT ![w] = "whole"]
  /\ Kept /\ UNCHANGED <<windows, reader, moved, troubles>>
\* The disk is full.
StageFails(w) ==
  /\ WriterAt(w, "staging") /\ troubles < MaxTroubles
  /\ WriterGoes(w, "raised") /\ troubles' = troubles + 1
  /\ staged' = IF Flushes(w) THEN [staged EXCEPT ![w] = "none"] ELSE staged
  /\ Kept /\ UNCHANGED <<windows, reader, moved>>

IsRefused == windows /\ \E r \in Readers : reader[r].pc = "open"
\* _insist(), _replace(): a refusal is waited out, and in the end told.
Insist(w) ==
  /\ WriterAt(w, "insist") /\ IsRefused
  /\ writer' = [writer EXCEPT ![w] =
       [pc |-> IF @.tries + 1 < Insistence THEN "insist" ELSE IF Puts(w) THEN "withdraw" ELSE "false", tries |-> @.tries + 1]]
  /\ Kept /\ UNCHANGED <<windows, staged, reader, moved, troubles>>
\* What is not flushed may be torn after an outage; until the directory is flushed the old name may be back.
Land(w) ==
  /\ WriterAt(w, "insist") /\ Puts(w) /\ ~IsRefused
  /\ Becomes(w, IF Flushes(w) THEN disk \cup {w} ELSE disk \cup {w, "torn"})
  /\ staged' = [staged EXCEPT ![w] = "none"]
  /\ WriterGoes(w, IF Flushes(w) THEN "flush" ELSE "true")
  /\ UNCHANGED <<windows, reader, moved, troubles>>
\* Mutant: nothing waits for the disk.
FlushNot(w) ==
  /\ WriterAt(w, "flush") /\ WriterGoes(w, "true")
  /\ Kept /\ UNCHANGED <<windows, staged, reader, moved, troubles>>
\* _fsync_directory(): what the name holds now; NTFS journals the rename.
Flush(w) ==
  /\ WriterAt(w, "flush") /\ WriterGoes(w, "true")
  /\ disk' = {kept} \cup (IF kept \in Writers /\ ~Flushes(kept) THEN {"torn"} ELSE {})
  /\ UNCHANGED <<windows, kept, shown, late, staged, reader, moved, troubles>>
\* The temporary file goes; publish() says that nothing landed, durable_write() raises.
Withdraw(w) ==
  /\ WriterAt(w, "withdraw")
  /\ staged' = [staged EXCEPT ![w] = "none"]
  /\ WriterGoes(w, IF Flushes(w) THEN "raised" ELSE "false")
  /\ Kept /\ UNCHANGED <<windows, reader, moved, troubles>>

\* unpublish(): what is gone already is gone.
Unpublish(w) ==
  /\ ~Puts(w)
  /\ \/ WriterAt(w, "idle") /\ WriterGoes(w, "insist") /\ Kept
     \/ WriterAt(w, "insist") /\ ~IsRefused /\ WriterGoes(w, "true") /\ Becomes("absent", disk \cup {"absent"})
  /\ UNCHANGED <<windows, staged, reader, moved, troubles>>

-----------------------------------------------------------------------------
(* Readers.                                                                *)

OpenFile(r) ==
  /\ reader[r].pc = "idle"
  /\ reader' = [reader EXCEPT ![r].pc = IF kept = "absent" THEN "nothing" ELSE "open", ![r].content = kept]
  /\ Kept /\ UNCHANGED <<windows, staged, writer, moved, troubles>>

\* read_table(), learned(), read_ended(): what was read of what was opened.
ReadFile(r) ==
  /\ reader[r].pc = "open"
  /\ reader' = [reader EXCEPT ![r] =
       IF IsWhole(@.content) THEN [@ EXCEPT !.pc = "told"]
       ELSE IF @.tries < ReadsAgain(r) THEN [@ EXCEPT !.pc = "idle", !.tries = reader[r].tries + 1]
       ELSE [@ EXCEPT !.pc = IF MovesTorn(r) THEN "move" ELSE "raised"]]
  /\ Kept /\ UNCHANGED <<windows, staged, writer, moved, troubles>>

\* It is moved by its name: a move that is refused, or finds nothing, is let be.
MoveAway(r) ==
  /\ reader[r].pc = "move"
  /\ reader' = [reader EXCEPT ![r].pc = "nothing"]
  /\ IF kept = "absent" \/ IsRefused THEN Kept /\ UNCHANGED moved
     ELSE moved' = moved \cup {kept} /\ Becomes("absent", disk \cup {"absent"})
  /\ UNCHANGED <<windows, staged, writer, troubles>>

-----------------------------------------------------------------------------
Returned == {"true", "false", "raised", "dead"}
Die(w) ==
  /\ writer[w].pc \notin Returned \cup {"idle"} /\ troubles < MaxTroubles
  /\ WriterGoes(w, "dead") /\ troubles' = troubles + 1
  /\ Kept /\ UNCHANGED <<windows, staged, reader, moved>>
\* The machine goes down and comes back: whoever ran is gone.
Outage ==
  /\ troubles < MaxTroubles /\ troubles' = troubles + 1
  /\ \E content \in disk : Becomes(content, {content})
  /\ writer' = [w \in Writers |-> IF writer[w].pc \in Returned \cup {"idle"} THEN writer[w] ELSE [writer[w] EXCEPT !.pc = "dead"]]
  /\ reader' = [r \in Readers |-> IF reader[r].pc \in {"open", "move"} THEN [reader[r] EXCEPT !.pc = "idle"] ELSE reader[r]]
  /\ UNCHANGED <<windows, staged, moved>>

FilesNext ==
  \/ \E w \in Writers : Stage(w) \/ Staged(w) \/ StageFails(w) \/ Insist(w) \/ Land(w) \/ Flush(w) \/ Withdraw(w) \/ Unpublish(w) \/ Die(w)
  \/ \E r \in Readers : OpenFile(r) \/ ReadFile(r) \/ MoveAway(r)
  \/ Outage

FilesSpec == FilesInit /\ [][FilesNext]_fileVars

-----------------------------------------------------------------------------
\* durable.py:8-14, _records.py:97-101: whoever opens the file finds it whole, the old or the new: it
\* is torn only if it was at first, or if what was never flushed met an outage.
TornIsNeverWritten ==
  "torn" \in shown => "torn" \in Begun \/ (troubles > 0 /\ \E w \in Writers : DoorOf[w] = "publish" /\ w \in shown)

\* _records.py:106-110, durable.py:53-58: a write that is told as failed was never seen and leaves no
\* temporary file behind; one that publish() cannot even stage leaves it.
NothingIsHalfDone ==
  \A w \in Writers : writer[w].pc \in {"false", "raised"} =>
    /\ w \notin shown
    /\ staged[w] # "none" => writer[w].pc = "raised" /\ ~Flushes(w)

\* durable.py:8-12: what durable_write() returned is what the file holds after an outage, unless
\* something came after it.
WhatReturnedSurvives ==
  \A w \in Writers : Flushes(w) /\ WriterAt(w, "true") /\ kept = w => disk = {w}

\* durable.py:13-14: only a torn file is moved away, unless a whole one landed after it was found torn.
OnlyTornIsMoved == moved \subseteq {"torn"} \cup late

RecordFilesStand == TornIsNeverWritten /\ NothingIsHalfDone /\ WhatReturnedSurvives /\ OnlyTornIsMoved
=============================================================================
