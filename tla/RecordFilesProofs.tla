--------------------------- MODULE RecordFilesProofs ---------------------------
(***************************************************************************)
(* Whoever opens a state file finds the old content or the new, and what   *)
(* durable_write() returned survives an outage: proved for any number of   *)
(* writers through any doors, of readers, of refusals and of troubles.     *)
(***************************************************************************)
EXTENDS RecordFiles, TLAPS

Contents == {"absent", "torn", "first"} \cup Writers
WriterPlaces == {"idle", "staging", "insist", "flush", "withdraw", "true", "false", "raised", "dead"}
ReaderPlaces == {"idle", "open", "told", "move", "raised", "nothing"}
Frame == [how : {"learned", "read_table", "read_ended"}, pc : ReaderPlaces, content : Contents, tries : Nat]

Types ==
  /\ windows \in BOOLEAN /\ troubles \in Nat
  /\ kept \in shown /\ disk \subseteq Contents /\ shown \subseteq Contents
  /\ staged \in [Writers -> {"none", "part", "whole"}]
  /\ writer \in [Writers -> [pc : WriterPlaces, tries : Nat]]
  /\ reader \in [Readers -> Frame]

\* Who has shown a file has landed it: it put one, and it waits for the disk, has returned, or died.
LandedByTheDoor ==
  \A w \in Writers : w \in shown \cup disk => Puts(w) /\ writer[w].pc \in {"flush", "true", "dead"}

\* A temporary file is of a writer that goes on, that died, or that could not be staged.
StagedByWhoPuts ==
  \A w \in Writers : staged[w] # "none" =>
    Puts(w) /\ (writer[w].pc \in {"staging", "insist", "withdraw", "dead"} \/ (writer[w].pc = "raised" /\ ~Flushes(w)))

\* A writer that puts nothing is never at a step of one that does.
RemoversOnlyRemove ==
  \A w \in Writers : ~Puts(w) => writer[w].pc \in {"idle", "insist", "true", "false", "dead"}

\* What nothing flushed is what an outage may tear.
TearsOfTheUnflushed ==
  "torn" \in disk => "torn" \in Begun \/ \E w \in Writers : DoorOf[w] = "publish" /\ w \in shown

\* While a reader has torn content in its hand, what the name holds is torn, gone, or landed since.
FoundTorn(r) == InHand(r, "torn") \/ reader[r].pc = "move"
MovedAsFound ==
  \A r \in Readers : /\ reader[r].pc = "open" => reader[r].content # "absent"
                     /\ FoundTorn(r) => kept \in {"absent", "torn"} \cup late

\* The inductive invariant.
FilesInv ==
  /\ Types /\ LandedByTheDoor /\ StagedByWhoPuts /\ RemoversOnlyRemove /\ TearsOfTheUnflushed /\ MovedAsFound
  /\ RecordFilesStand

-----------------------------------------------------------------------------
\* Nobody has begun: the name holds what it held.
LEMMA FilesBegin ==
  ASSUME FilesAssumption, FilesInit
  PROVE  FilesInv
<1> USE DEF FilesInit, FilesAssumption
<1>1. Types
  <2>1. kept \in Contents
    BY DEF Contents
  <2>2. PICK how \in HowsOf : reader = [r \in Readers |-> [how |-> how[r], pc |-> "idle", content |-> "absent", tries |-> 0]]
    OBVIOUS
  <2>3. reader \in [Readers -> Frame]
    BY <2>2 DEF Frame, ReaderPlaces, Contents
  <2> QED
    BY <2>1, <2>3 DEF Types, WriterPlaces
<1>2. kept \notin Writers
  OBVIOUS
<1>3. LandedByTheDoor /\ StagedByWhoPuts /\ RemoversOnlyRemove /\ TearsOfTheUnflushed
  BY <1>2 DEF LandedByTheDoor, StagedByWhoPuts, RemoversOnlyRemove, TearsOfTheUnflushed
<1>4. MovedAsFound
  BY DEF MovedAsFound, FoundTorn, InHand
<1>5. RecordFilesStand
  BY <1>2 DEF RecordFilesStand, TornIsNeverWritten, NothingIsHalfDone, WhatReturnedSurvives, OnlyTornIsMoved, WriterAt
<1> QED
  BY <1>1, <1>3, <1>4, <1>5 DEF FilesInv

-----------------------------------------------------------------------------
(* Steps of writers that do not touch the name.                            *)

\* The places where a writer has nothing shown: it may go from one to another, and it
\* has a temporary file where it may have one.
Unshown == {"idle", "staging", "insist", "withdraw", "false", "raised"}

\* One writer's step, between places where it has shown nothing, to a place it may be
\* at with the temporary file it has then.
QuietStep(w, pc, tries, part) ==
  /\ Kept /\ UNCHANGED <<windows, reader, moved>>
  /\ troubles' \in Nat /\ troubles' >= troubles
  /\ pc \in WriterPlaces /\ tries \in Nat /\ part \in {"none", "part", "whole"}
  /\ writer' = [writer EXCEPT ![w] = [pc |-> pc, tries |-> tries]]
  /\ staged' = [staged EXCEPT ![w] = part]
  /\ IF writer[w].pc \in Unshown THEN pc \in Unshown \cup {"dead"} ELSE pc = "dead"
  /\ part # "none" => Puts(w) /\ (pc \in {"staging", "insist", "withdraw", "dead"} \/ (pc = "raised" /\ ~Flushes(w)))
  /\ Puts(w) \/ pc \in {"idle", "insist", "true", "false", "dead"}

\* It keeps the invariant.
LEMMA QuietSteps ==
  ASSUME FilesInv, NEW w \in Writers, NEW pc, NEW tries, NEW part, QuietStep(w, pc, tries, part)
  PROVE  FilesInv'
<1> USE DEF QuietStep
<1>1. /\ writer'[w] = [pc |-> pc, tries |-> tries] /\ staged'[w] = part
      /\ \A v \in Writers \ {w} : writer'[v] = writer[v] /\ staged'[v] = staged[v]
      /\ UNCHANGED <<windows, reader, moved, kept, disk, shown, late>>
  BY DEF FilesInv, Types, Kept
<1>2. Types'
  BY <1>1 DEF FilesInv, Types
<1>3. LandedByTheDoor'
  BY <1>1 DEF FilesInv, LandedByTheDoor, Puts, Unshown
<1>4. StagedByWhoPuts'
  BY <1>1 DEF FilesInv, StagedByWhoPuts, Puts, Flushes
<1>5. RemoversOnlyRemove'
  BY <1>1 DEF FilesInv, RemoversOnlyRemove, Puts
<1>6. TearsOfTheUnflushed' /\ MovedAsFound'
  BY <1>1 DEF FilesInv, TearsOfTheUnflushed, MovedAsFound, FoundTorn, InHand
<1>7. TornIsNeverWritten'
  BY <1>1 DEF FilesInv, Types, RecordFilesStand, TornIsNeverWritten
<1>8. NothingIsHalfDone'
  <2> SUFFICES ASSUME NEW v \in Writers, writer'[v].pc \in {"false", "raised"}
               PROVE  v \notin shown' /\ (staged'[v] # "none" => writer'[v].pc = "raised" /\ ~Flushes(v))
    BY DEF NothingIsHalfDone, Flushes
  <2>1. v \notin shown'
    BY <1>1, <1>3 DEF LandedByTheDoor
  <2>2. staged'[v] # "none" => writer'[v].pc = "raised" /\ ~Flushes(v)
    BY <1>4 DEF StagedByWhoPuts, Flushes
  <2> QED
    BY <2>1, <2>2
<1>9. WhatReturnedSurvives'
  <2>1. pc # "true"
    BY DEF Unshown
  <2>2. \A v \in Writers : writer'[v].pc = "true" => v # w
    BY <1>1, <2>1
  <2> QED
    BY <1>1, <2>2 DEF FilesInv, RecordFilesStand, WhatReturnedSurvives, Flushes, WriterAt
<1>10. OnlyTornIsMoved'
  BY <1>1 DEF FilesInv, RecordFilesStand, OnlyTornIsMoved
<1> QED
  BY <1>2, <1>3, <1>4, <1>5, <1>6, <1>7, <1>8, <1>9, <1>10 DEF FilesInv, RecordFilesStand

\* What a writer is at and has staged is of these; a step to another place keeps its tries.
LEMMA PlacesOfWriters ==
  ASSUME Types, NEW w \in Writers
  PROVE  /\ writer[w] = [pc |-> writer[w].pc, tries |-> writer[w].tries]
         /\ writer[w].pc \in WriterPlaces /\ writer[w].tries \in Nat
         /\ staged[w] \in {"none", "part", "whole"}
         /\ staged = [staged EXCEPT ![w] = staged[w]]
         /\ \A pc \in WriterPlaces : WriterGoes(w, pc) => writer' = [writer EXCEPT ![w] = [pc |-> pc, tries |-> writer[w].tries]]
BY DEF Types, WriterGoes

\* Staging, trying again and giving up are such steps, and so is a death.
LEMMA StagingSteps ==
  ASSUME FilesAssumption, FilesInv, NEW w \in Writers, Stage(w) \/ Staged(w) \/ StageFails(w) \/ Withdraw(w) \/ Insist(w) \/ Die(w)
  PROVE  FilesInv'
<1>t. Types /\ troubles \in Nat
  BY DEF FilesInv, Types
<1>r. ~Puts(w) => writer[w].pc \in {"idle", "insist", "true", "false", "dead"}
  BY DEF FilesInv, RemoversOnlyRemove
<1>s. staged[w] # "none" =>
        Puts(w) /\ (writer[w].pc \in {"staging", "insist", "withdraw", "dead"} \/ (writer[w].pc = "raised" /\ ~Flushes(w)))
  BY DEF FilesInv, StagedByWhoPuts
<1>p. /\ writer[w] = [pc |-> writer[w].pc, tries |-> writer[w].tries]
      /\ writer[w].pc \in WriterPlaces /\ writer[w].tries \in Nat
      /\ staged[w] \in {"none", "part", "whole"} /\ staged = [staged EXCEPT ![w] = staged[w]]
  BY <1>t, PlacesOfWriters
<1>g. ASSUME NEW pc \in WriterPlaces, WriterGoes(w, pc)
      PROVE  writer' = [writer EXCEPT ![w] = [pc |-> pc, tries |-> writer[w].tries]]
  BY <1>t, <1>g, PlacesOfWriters
<1> USE DEF QuietStep, Unshown, WriterPlaces, WriterAt
<1>1. CASE Stage(w)
  <2> QuietStep(w, "staging", writer[w].tries, "part")
    BY <1>1, <1>t, <1>p, <1>g DEF Stage
  <2> QED
    BY QuietSteps
<1>2. CASE Staged(w)
  <2> QuietStep(w, "insist", writer[w].tries, "whole")
    BY <1>2, <1>t, <1>r, <1>p, <1>g DEF Staged
  <2> QED
    BY QuietSteps
<1>3. CASE StageFails(w)
  <2>1. staged' = [staged EXCEPT ![w] = IF Flushes(w) THEN "none" ELSE staged[w]]
    BY <1>3, <1>p DEF StageFails
  <2> DEFINE part == IF Flushes(w) THEN "none" ELSE staged[w]
  <2>2. /\ staged' = [staged EXCEPT ![w] = part] /\ part \in {"none", "part", "whole"}
        /\ part # "none" => ~Flushes(w)
    BY <2>1, <1>p
  <2> HIDE DEF part
  <2>3. WriterGoes(w, "raised") /\ Kept /\ UNCHANGED <<windows, reader, moved>>
    BY <1>3 DEF StageFails
  <2>4. writer' = [writer EXCEPT ![w] = [pc |-> "raised", tries |-> writer[w].tries]]
    BY <2>3, <1>g
  <2>5. writer[w].pc = "staging" /\ Puts(w) /\ troubles' \in Nat /\ troubles' >= troubles
    BY <1>3, <1>t, <1>r DEF StageFails
  <2> QuietStep(w, "raised", writer[w].tries, part)
    BY <2>2, <2>3, <2>4, <2>5, <1>p
  <2> QED
    BY QuietSteps
<1>4. CASE Withdraw(w)
  <2> DEFINE pc == IF Flushes(w) THEN "raised" ELSE "false"
  <2> QuietStep(w, pc, writer[w].tries, "none")
    BY <1>4, <1>t, <1>r, <1>p, <1>g DEF Withdraw
  <2> QED
    BY QuietSteps
<1>5. CASE Insist(w)
  <2> DEFINE pc == IF writer[w].tries + 1 < Insistence THEN "insist" ELSE IF Puts(w) THEN "withdraw" ELSE "false"
  <2>1. writer' = [writer EXCEPT ![w] = [pc |-> pc, tries |-> writer[w].tries + 1]]
    BY <1>5, <1>t DEF Insist, Types
  <2>2. pc \in {"insist", "withdraw", "false"} /\ (pc = "withdraw" => Puts(w)) /\ (pc = "false" => ~Puts(w))
    OBVIOUS
  <2> HIDE DEF pc
  <2>3. writer[w].pc = "insist" /\ writer[w].tries + 1 \in Nat /\ staged' = staged
    BY <1>5, <1>p DEF Insist
  <2>4. Kept /\ UNCHANGED <<windows, reader, moved, troubles>>
    BY <1>5 DEF Insist
  <2> QuietStep(w, pc, writer[w].tries + 1, staged[w])
    BY <2>1, <2>2, <2>3, <2>4, <1>t, <1>s, <1>p
  <2> QED
    BY QuietSteps
<1>6. CASE Die(w)
  <2> QuietStep(w, "dead", writer[w].tries, staged[w])
    BY <1>6, <1>t, <1>s, <1>p, <1>g DEF Die, Returned
  <2> QED
    BY QuietSteps
<1> QED
  BY <1>1, <1>2, <1>3, <1>4, <1>5, <1>6

-----------------------------------------------------------------------------
(* Steps that change what the name holds, or what the disk has of it.      *)

\* The name changes, or an outage shows what the disk had: moved, as before, is of what
\* was found torn, or of what landed behind that.
LEMMA NamesChange ==
  ASSUME FilesInv, NEW content \in Contents, NEW survives \in SUBSET Contents, Becomes(content, survives),
         reader' = reader \/ \A r \in Readers : reader'[r].pc \notin {"open", "move"}
  PROVE  MovedAsFound' /\ moved \subseteq {"torn"} \cup late' /\ late \subseteq late'
<1>1. late \subseteq late'
  BY DEF Becomes
<1>2. moved \subseteq {"torn"} \cup late
  BY DEF FilesInv, RecordFilesStand, OnlyTornIsMoved
<1>3. CASE reader' = reader
  <2>1. \A r \in Readers : FoundTorn(r)' <=> FoundTorn(r)
    BY <1>3 DEF FoundTorn, InHand
  <2>2. ASSUME NEW r \in Readers, FoundTorn(r) PROVE kept' \in {"absent", "torn"} \cup late'
    BY <2>2 DEF FoundTorn, Becomes, IsWhole
  <2> QED
    BY <1>1, <1>2, <1>3, <2>1, <2>2 DEF FilesInv, MovedAsFound
<1>4. CASE \A r \in Readers : reader'[r].pc \notin {"open", "move"}
  BY <1>1, <1>2, <1>4 DEF MovedAsFound, FoundTorn, InHand
<1> QED
  BY <1>3, <1>4

\* A writer's content lands: what is not flushed is of a door that flushes nothing.
LEMMA LandSteps ==
  ASSUME FilesAssumption, FilesInv, NEW w \in Writers, Land(w)
  PROVE  FilesInv'
<1> DEFINE survives == IF Flushes(w) THEN disk \cup {w} ELSE disk \cup {w, "torn"}
           pc == IF Flushes(w) THEN "flush" ELSE "true"
<1>1. /\ Becomes(w, survives) /\ Puts(w) /\ writer[w].pc = "insist"
      /\ writer' = [writer EXCEPT ![w] = [pc |-> pc, tries |-> writer[w].tries]]
      /\ staged' = [staged EXCEPT ![w] = "none"]
      /\ UNCHANGED <<windows, reader, moved, troubles>>
  <2>1. Types /\ pc \in WriterPlaces /\ WriterGoes(w, pc)
    BY DEF FilesInv, Land, WriterPlaces
  <2>2. writer' = [writer EXCEPT ![w] = [pc |-> pc, tries |-> writer[w].tries]]
    BY <2>1, PlacesOfWriters
  <2> QED
    BY <2>2 DEF Land, WriterAt
<1>2. /\ survives \subseteq Contents /\ disk \cup {w} \subseteq survives /\ survives \subseteq disk \cup {w, "torn"}
      /\ "torn" \in survives => "torn" \in disk \/ ~Flushes(w)
      /\ pc \in {"flush", "true"} /\ (pc = "true" => ~Flushes(w))
  BY DEF FilesInv, Types, Contents, FilesAssumption
<1> HIDE DEF survives, pc
<1>3. /\ kept' = w /\ disk' = survives /\ shown' = shown \cup {w}
      /\ writer'[w] = [pc |-> pc, tries |-> writer[w].tries] /\ staged'[w] = "none"
      /\ \A v \in Writers \ {w} : writer'[v] = writer[v] /\ staged'[v] = staged[v]
  BY <1>1 DEF Becomes, FilesInv, Types
<1>4. w \in Contents /\ w # "torn"
  BY DEF Contents, FilesAssumption
<1>5. Types'
  BY <1>1, <1>2, <1>3, <1>4 DEF FilesInv, Types, WriterPlaces
<1>6. LandedByTheDoor'
  BY <1>1, <1>2, <1>3, <1>4 DEF FilesInv, LandedByTheDoor, Puts, FilesAssumption
<1>7. StagedByWhoPuts' /\ RemoversOnlyRemove'
  BY <1>1, <1>2, <1>3 DEF FilesInv, StagedByWhoPuts, RemoversOnlyRemove, Puts, Flushes
<1>8. ~Flushes(w) => DoorOf[w] = "publish"
  BY <1>1 DEF Puts, Flushes, FilesAssumption
<1>9. TearsOfTheUnflushed'
  BY <1>2, <1>3, <1>8 DEF FilesInv, TearsOfTheUnflushed
<1>10. MovedAsFound' /\ OnlyTornIsMoved'
  BY <1>1, <1>2, <1>4, NamesChange DEF OnlyTornIsMoved
<1>11. TornIsNeverWritten'
  BY <1>1, <1>3, <1>4 DEF FilesInv, RecordFilesStand, TornIsNeverWritten
<1>12. NothingIsHalfDone'
  BY <1>2, <1>3 DEF FilesInv, RecordFilesStand, NothingIsHalfDone, Flushes
<1>13. WhatReturnedSurvives'
  BY <1>2, <1>3 DEF WhatReturnedSurvives, Flushes, WriterAt
<1> QED
  BY <1>5, <1>6, <1>7, <1>9, <1>10, <1>11, <1>12, <1>13 DEF FilesInv, RecordFilesStand

\* The directory is flushed: what the name holds now is on the disk, and is torn there
\* only if nothing flushed its data.
LEMMA FlushSteps ==
  ASSUME FilesAssumption, FilesInv, NEW w \in Writers, Flush(w)
  PROVE  FilesInv'
<1>1. /\ writer' = [writer EXCEPT ![w] = [pc |-> "true", tries |-> writer[w].tries]] /\ writer[w].pc = "flush"
      /\ UNCHANGED <<windows, kept, shown, late, staged, reader, moved, troubles>>
  <2>1. Types /\ "true" \in WriterPlaces /\ WriterGoes(w, "true")
    BY DEF FilesInv, Flush, WriterPlaces
  <2>2. writer' = [writer EXCEPT ![w] = [pc |-> "true", tries |-> writer[w].tries]]
    BY <2>1, PlacesOfWriters
  <2> QED
    BY <2>2 DEF Flush, WriterAt
<1>2. /\ writer'[w] = [pc |-> "true", tries |-> writer[w].tries]
      /\ \A v \in Writers \ {w} : writer'[v] = writer[v]
  BY <1>1 DEF FilesInv, Types
<1>3. /\ disk' \subseteq {kept, "torn"} /\ kept \in shown /\ kept \in Contents
      /\ kept \in Writers /\ Flushes(kept) => disk' = {kept}
      /\ "torn" \in disk' => kept = "torn" \/ (kept \in Writers /\ ~Flushes(kept))
  BY DEF Flush, FilesInv, Types
<1>4. kept \in Writers /\ ~Flushes(kept) => DoorOf[kept] = "publish"
  BY <1>3 DEF FilesInv, LandedByTheDoor, Puts, Flushes, FilesAssumption
<1>5. Types'
  BY <1>1, <1>2, <1>3 DEF FilesInv, Types, WriterPlaces, Contents
<1>6. "torn" \notin Writers
  BY DEF FilesAssumption
<1>7. LandedByTheDoor'
  BY <1>1, <1>2, <1>3, <1>6 DEF FilesInv, LandedByTheDoor, Puts
<1>8. StagedByWhoPuts'
  BY <1>1, <1>2 DEF FilesInv, StagedByWhoPuts, Puts, Flushes
<1>9. RemoversOnlyRemove'
  BY <1>1, <1>2 DEF FilesInv, RemoversOnlyRemove, Puts
<1>10. TearsOfTheUnflushed'
  BY <1>1, <1>3, <1>4 DEF FilesInv, TearsOfTheUnflushed, RecordFilesStand, TornIsNeverWritten
<1>11. MovedAsFound' /\ OnlyTornIsMoved'
  BY <1>1 DEF FilesInv, MovedAsFound, FoundTorn, InHand, RecordFilesStand, OnlyTornIsMoved
<1>12. TornIsNeverWritten'
  BY <1>1 DEF FilesInv, RecordFilesStand, TornIsNeverWritten
<1>13. NothingIsHalfDone'
  BY <1>1, <1>2 DEF FilesInv, RecordFilesStand, NothingIsHalfDone, Flushes
<1>14. WhatReturnedSurvives'
  BY <1>1, <1>3 DEF WhatReturnedSurvives, Flushes
<1> QED
  BY <1>5, <1>7, <1>8, <1>9, <1>10, <1>11, <1>12, <1>13, <1>14 DEF FilesInv, RecordFilesStand

\* The name is freed, by a writer that removes or by a reader that moves away.
LEMMA FreedNames ==
  ASSUME FilesAssumption, FilesInv, Becomes("absent", disk \cup {"absent"})
  PROVE  /\ kept' \in shown' /\ disk' \subseteq Contents /\ shown' \subseteq Contents
         /\ \A w \in Writers : (w \in disk' => w \in disk) /\ (w \in shown' <=> w \in shown)
         /\ ("torn" \in disk' => "torn" \in disk) /\ ("torn" \in shown' => "torn" \in shown)
         /\ kept' \notin Writers
BY DEF FilesAssumption, FilesInv, Types, Becomes, Contents

\* A removal begins with such a step, and ends with the name freed.
LEMMA RemoveSteps ==
  ASSUME FilesAssumption, FilesInv, NEW w \in Writers, Unpublish(w)
  PROVE  FilesInv'
<1> DEFINE Begins == WriterAt(w, "idle") /\ WriterGoes(w, "insist") /\ Kept
           Ends == WriterAt(w, "insist") /\ ~IsRefused /\ WriterGoes(w, "true") /\ Becomes("absent", disk \cup {"absent"})
<1>1. Types /\ ~Puts(w) /\ UNCHANGED <<windows, staged, reader, moved, troubles>> /\ (Begins \/ Ends)
  BY DEF Unpublish, FilesInv
<1>2. staged[w] = "none"
  BY <1>1 DEF FilesInv, StagedByWhoPuts
<1>3. CASE Begins
  <2>1. /\ writer' = [writer EXCEPT ![w] = [pc |-> "insist", tries |-> writer[w].tries]]
        /\ staged = [staged EXCEPT ![w] = staged[w]] /\ writer[w].tries \in Nat
    BY <1>1, <1>3, PlacesOfWriters DEF WriterPlaces
  <2> QuietStep(w, "insist", writer[w].tries, staged[w])
    BY <1>1, <1>2, <1>3, <2>1 DEF QuietStep, Types, WriterAt, Unshown, WriterPlaces
  <2> QED
    BY QuietSteps
<1>4. CASE Ends
  <2>1. writer' = [writer EXCEPT ![w] = [pc |-> "true", tries |-> writer[w].tries]] /\ writer[w].pc = "insist"
    BY <1>1, <1>4, PlacesOfWriters DEF WriterPlaces, WriterAt
  <2>2. /\ writer'[w] = [pc |-> "true", tries |-> writer[w].tries]
        /\ \A v \in Writers \ {w} : writer'[v] = writer[v]
    BY <1>1, <2>1 DEF Types
  <2>3. Becomes("absent", disk \cup {"absent"})
    BY <1>4
  <2> HIDE DEF Begins, Ends
  <2>4. Types'
    BY <1>1, <2>1, <2>2, <2>3, FreedNames DEF Types, WriterPlaces
  <2>5. LandedByTheDoor'
    BY <1>1, <2>2, <2>3, FreedNames DEF FilesInv, LandedByTheDoor, Puts
  <2>6. StagedByWhoPuts' /\ RemoversOnlyRemove'
    BY <1>1, <1>2, <2>2 DEF FilesInv, StagedByWhoPuts, RemoversOnlyRemove, Puts, Flushes
  <2>7. TearsOfTheUnflushed' /\ TornIsNeverWritten'
    BY <1>1, <2>3, FreedNames DEF FilesInv, TearsOfTheUnflushed, RecordFilesStand, TornIsNeverWritten
  <2>8. MovedAsFound' /\ OnlyTornIsMoved'
    <3>1. "absent" \in Contents /\ disk \cup {"absent"} \in SUBSET Contents
      BY <1>1 DEF Types, Contents
    <3> QED
      BY <1>1, <2>3, <3>1, NamesChange DEF OnlyTornIsMoved
  <2>9. NothingIsHalfDone'
    BY <1>1, <2>2, <2>3, FreedNames DEF FilesInv, RecordFilesStand, NothingIsHalfDone, Flushes
  <2>10. WhatReturnedSurvives'
    BY <2>3, FreedNames DEF WhatReturnedSurvives
  <2> QED
    BY <2>4, <2>5, <2>6, <2>7, <2>8, <2>9, <2>10 DEF FilesInv, RecordFilesStand
<1> QED
  BY <1>1, <1>3, <1>4

-----------------------------------------------------------------------------
(* Steps of readers, and outages.                                          *)

\* What a frame is at another place.
LEMMA Placed ==
  ASSUME NEW e \in Frame, NEW pc \in ReaderPlaces
  PROVE  [e EXCEPT !.pc = pc] = [how |-> e.how, pc |-> pc, content |-> e.content, tries |-> e.tries]
BY DEF Frame

\* And with what it opened.
LEMMA PlacedWith ==
  ASSUME NEW e \in Frame, NEW pc \in ReaderPlaces, NEW content \in Contents
  PROVE  [e EXCEPT !.pc = pc, !.content = content] = [how |-> e.how, pc |-> pc, content |-> content, tries |-> e.tries]
<1> USE DEF Frame
<1> DEFINE f == [e EXCEPT !.pc = pc, !.content = content]
<1>1. f \in Frame /\ f.how = e.how /\ f.pc = pc /\ f.content = content /\ f.tries = e.tries
  OBVIOUS
<1> HIDE DEF f
<1>2. f = [how |-> e.how, pc |-> pc, content |-> content, tries |-> e.tries]
  BY <1>1
<1> QED
  BY <1>2 DEF f

\* And with its tries.
LEMMA PlacedAgain ==
  ASSUME NEW e \in Frame, NEW pc \in ReaderPlaces, NEW tries \in Nat
  PROVE  [e EXCEPT !.pc = pc, !.tries = tries] = [how |-> e.how, pc |-> pc, content |-> e.content, tries |-> tries]
<1> USE DEF Frame
<1> DEFINE f == [e EXCEPT !.pc = pc, !.tries = tries]
<1>1. f \in Frame /\ f.how = e.how /\ f.pc = pc /\ f.content = e.content /\ f.tries = tries
  OBVIOUS
<1> HIDE DEF f
<1>2. f = [how |-> e.how, pc |-> pc, content |-> e.content, tries |-> tries]
  BY <1>1
<1> QED
  BY <1>2 DEF f

\* A reader opens, or reads: what it has in its hand is what the name held, and whether
\* that is torn is known of it before it moves the file away.
LEMMA LookingSteps ==
  ASSUME FilesAssumption, FilesInv, NEW r \in Readers, OpenFile(r) \/ ReadFile(r)
  PROVE  FilesInv'
<1>1. UNCHANGED <<windows, kept, disk, staged, writer, moved, troubles, shown, late>>
  BY DEF OpenFile, ReadFile, Kept
<1>2. /\ reader' \in [Readers -> Frame]
      /\ \A q \in Readers \ {r} : reader'[q] = reader[q]
      /\ reader'[r].pc = "open" => reader'[r].content = kept /\ kept # "absent"
      /\ reader'[r].pc = "move" => reader[r].pc = "open" /\ ~IsWhole(reader[r].content)
  <2> USE DEF FilesInv, Types, ReaderPlaces
  <2> DEFINE Seen(pc, content, tries) == [how |-> reader[r].how, pc |-> pc, content |-> content, tries |-> tries]
  <2>0. reader \in [Readers -> Frame] /\ reader[r] \in Frame /\ kept \in Contents
    BY DEF Frame
  <2>1. CASE OpenFile(r)
    <3> DEFINE pc == IF kept = "absent" THEN "nothing" ELSE "open"
    <3>1. reader' = [reader EXCEPT ![r] = [reader[r] EXCEPT !.pc = pc, !.content = kept]]
      BY <2>0, <2>1 DEF OpenFile, Frame
    <3>2. pc \in {"nothing", "open"} /\ (pc = "open" => kept # "absent")
      OBVIOUS
    <3> HIDE DEF pc
    <3>3. [reader[r] EXCEPT !.pc = pc, !.content = kept] = Seen(pc, kept, reader[r].tries)
      <4>1. pc \in ReaderPlaces
        BY <3>2
      <4> HIDE DEF ReaderPlaces
      <4> QED
        BY <2>0, <4>1, PlacedWith, Zenon
    <3>4. reader' = [reader EXCEPT ![r] = Seen(pc, kept, reader[r].tries)]
      BY <3>1, <3>3
    <3> QED
      BY <2>0, <3>2, <3>4 DEF Frame
  <2>2. CASE ReadFile(r)
    <3>1. PICK pc \in {"told", "idle", "move", "raised"}, tries \in Nat :
            /\ reader' = [reader EXCEPT ![r] = Seen(pc, reader[r].content, tries)]
            /\ pc = "move" => ~IsWhole(reader[r].content)
      <4>1. ASSUME NEW pc \in {"told", "idle", "move", "raised"}
            PROVE  [reader[r] EXCEPT !.pc = pc] = Seen(pc, reader[r].content, reader[r].tries)
        BY <2>0, Placed
      <4>3. reader[r].tries \in Nat /\ reader[r].tries + 1 \in Nat
        BY <2>0 DEF Frame
      <4>2. [reader[r] EXCEPT !.pc = "idle", !.tries = reader[r].tries + 1] = Seen("idle", reader[r].content, reader[r].tries + 1)
        BY <2>0, <4>3, PlacedAgain
      <4>4. CASE IsWhole(reader[r].content)
        <5>1. reader' = [reader EXCEPT ![r] = Seen("told", reader[r].content, reader[r].tries)]
          BY <2>2, <4>1, <4>4 DEF ReadFile
        <5> QED
          BY <4>3, <5>1
      <4>5. CASE ~IsWhole(reader[r].content) /\ reader[r].tries < ReadsAgain(r)
        <5>1. reader' = [reader EXCEPT ![r] = Seen("idle", reader[r].content, reader[r].tries + 1)]
          <6>1. reader' = [reader EXCEPT ![r] = [reader[r] EXCEPT !.pc = "idle", !.tries = reader[r].tries + 1]]
            BY <2>2, <4>5 DEF ReadFile
          <6> QED
            BY <4>2, <6>1, Zenon
        <5> QED
          BY <4>3, <5>1
      <4>6. CASE ~IsWhole(reader[r].content) /\ ~(reader[r].tries < ReadsAgain(r))
        <5>1. reader' = [reader EXCEPT ![r] = Seen(IF MovesTorn(r) THEN "move" ELSE "raised", reader[r].content, reader[r].tries)]
          BY <2>2, <4>1, <4>6 DEF ReadFile
        <5> QED
          BY <4>3, <4>6, <5>1
      <4> QED
        BY <4>4, <4>5, <4>6
    <3>2. reader[r].pc = "open"
      BY <2>2 DEF ReadFile
    <3> QED
      BY <2>0, <3>1, <3>2 DEF Frame
  <2> QED
    BY <2>1, <2>2
<1>3. Types'
  BY <1>1, <1>2 DEF FilesInv, Types
<1>4. MovedAsFound'
  <2> SUFFICES ASSUME NEW q \in Readers
               PROVE  /\ reader'[q].pc = "open" => reader'[q].content # "absent"
                      /\ FoundTorn(q)' => kept \in {"absent", "torn"} \cup late
    BY <1>1 DEF MovedAsFound
  <2>1. CASE q # r
    BY <1>2, <2>1 DEF FilesInv, MovedAsFound, FoundTorn, InHand
  <2>2. CASE q = r
    <3>1. reader'[r].pc = "move" => FoundTorn(r)
      BY <1>2 DEF FoundTorn, InHand, IsWhole, FilesInv, MovedAsFound
    <3>2. FoundTorn(r)' => kept = "torn" \/ FoundTorn(r)
      BY <1>2, <3>1 DEF FoundTorn, InHand
    <3> QED
      BY <1>2, <2>2, <3>2 DEF FilesInv, MovedAsFound
  <2> QED
    BY <2>1, <2>2
<1>5. LandedByTheDoor' /\ StagedByWhoPuts' /\ RemoversOnlyRemove' /\ TearsOfTheUnflushed'
  BY <1>1 DEF FilesInv, LandedByTheDoor, StagedByWhoPuts, RemoversOnlyRemove, TearsOfTheUnflushed, Puts, Flushes
<1>6. RecordFilesStand'
  BY <1>1 DEF FilesInv, RecordFilesStand, TornIsNeverWritten, NothingIsHalfDone, WhatReturnedSurvives, OnlyTornIsMoved, WriterAt, Flushes
<1> QED
  BY <1>3, <1>4, <1>5, <1>6 DEF FilesInv

\* What a reader moves away by its name was torn, or landed behind what it found torn.
LEMMA MoveSteps ==
  ASSUME FilesAssumption, FilesInv, NEW r \in Readers, MoveAway(r)
  PROVE  FilesInv'
<1> DEFINE Left == kept = "absent" \/ IsRefused
<1>1. /\ UNCHANGED <<windows, staged, writer, troubles>> /\ FoundTorn(r)
      /\ reader' = [reader EXCEPT ![r].pc = "nothing"]
      /\ IF Left THEN Kept /\ UNCHANGED moved ELSE moved' = moved \cup {kept} /\ Becomes("absent", disk \cup {"absent"})
  BY DEF MoveAway, FoundTorn
<1>2. /\ reader' \in [Readers -> Frame]
      /\ \A q \in Readers : FoundTorn(q)' => FoundTorn(q)
      /\ \A q \in Readers : reader'[q].pc = "open" => reader[q].pc = "open" /\ reader'[q].content = reader[q].content
  BY <1>1 DEF FilesInv, Types, Frame, ReaderPlaces, FoundTorn, InHand
<1> HIDE DEF Left
<1>3. CASE Left
  <2>1. UNCHANGED <<windows, kept, disk, staged, writer, moved, troubles, shown, late>>
    BY <1>1, <1>3 DEF Kept
  <2>2. Types' /\ MovedAsFound'
    BY <1>2, <2>1 DEF FilesInv, Types, MovedAsFound
  <2>3. LandedByTheDoor' /\ StagedByWhoPuts' /\ RemoversOnlyRemove' /\ TearsOfTheUnflushed'
    BY <2>1 DEF FilesInv, LandedByTheDoor, StagedByWhoPuts, RemoversOnlyRemove, TearsOfTheUnflushed, Puts, Flushes
  <2>4. RecordFilesStand'
    BY <2>1 DEF FilesInv, RecordFilesStand, TornIsNeverWritten, NothingIsHalfDone, WhatReturnedSurvives, OnlyTornIsMoved, WriterAt, Flushes
  <2> QED
    BY <2>2, <2>3, <2>4 DEF FilesInv
<1>4. CASE ~Left
  <2>1. Becomes("absent", disk \cup {"absent"}) /\ moved' = moved \cup {kept}
    BY <1>1, <1>4
  <2>2. kept' = "absent" /\ late \subseteq late'
    BY <2>1 DEF Becomes
  <2>3. Types'
    BY <1>1, <1>2, <2>1, FreedNames DEF FilesInv, Types
  <2>4. MovedAsFound'
    BY <1>2, <2>2 DEF FilesInv, MovedAsFound
  <2>5. OnlyTornIsMoved'
    BY <1>1, <1>4, <2>1, <2>2 DEF FilesInv, MovedAsFound, RecordFilesStand, OnlyTornIsMoved, Left
  <2>6. LandedByTheDoor' /\ StagedByWhoPuts' /\ RemoversOnlyRemove'
    BY <1>1, <2>1, FreedNames DEF FilesInv, LandedByTheDoor, StagedByWhoPuts, RemoversOnlyRemove, Puts, Flushes
  <2>7. TearsOfTheUnflushed' /\ TornIsNeverWritten'
    BY <1>1, <2>1, FreedNames DEF FilesInv, TearsOfTheUnflushed, RecordFilesStand, TornIsNeverWritten
  <2>8. NothingIsHalfDone' /\ WhatReturnedSurvives'
    BY <1>1, <2>1, FreedNames DEF FilesInv, RecordFilesStand, NothingIsHalfDone, WhatReturnedSurvives, Flushes
  <2> QED
    BY <2>3, <2>4, <2>5, <2>6, <2>7, <2>8 DEF FilesInv, RecordFilesStand
<1> QED
  BY <1>3, <1>4

\* The machine goes down: who ran is gone, nobody has torn content in its hand, and what
\* comes back is of the disk.
LEMMA OutageSteps ==
  ASSUME FilesAssumption, FilesInv, Outage
  PROVE  FilesInv'
<1>1. PICK content \in disk : Becomes(content, {content})
  BY DEF Outage
<1>2. /\ kept' = content /\ disk' = {content} /\ shown' = shown \cup {content}
      /\ UNCHANGED <<windows, staged, moved>> /\ troubles' \in Nat /\ troubles' > 0
      /\ content \in Contents /\ {content} \in SUBSET Contents
  BY <1>1 DEF Becomes, Outage, FilesInv, Types
<1>3. /\ writer' \in [Writers -> [pc : WriterPlaces, tries : Nat]]
      /\ \A w \in Writers : writer'[w] = writer[w] \/ writer'[w].pc = "dead"
      /\ \A w \in Writers : writer[w].pc \in {"true", "false", "raised", "dead", "idle"} => writer'[w] = writer[w]
      /\ \A w \in Writers : writer[w].pc \notin {"true", "false", "raised", "dead", "idle"} => writer'[w].pc = "dead"
  BY DEF Outage, Returned, FilesInv, Types, WriterPlaces
<1>4. /\ reader' \in [Readers -> Frame]
      /\ \A r \in Readers : reader'[r].pc \notin {"open", "move"}
  <2>1. reader \in [Readers -> Frame] /\ "idle" \in ReaderPlaces
    BY DEF FilesInv, Types, Frame, ReaderPlaces
  <2>2. \A r \in Readers : [reader[r] EXCEPT !.pc = "idle"] \in Frame /\ [reader[r] EXCEPT !.pc = "idle"].pc = "idle"
    BY <2>1 DEF Frame
  <2>3. reader' = [r \in Readers |-> IF reader[r].pc \in {"open", "move"} THEN [reader[r] EXCEPT !.pc = "idle"] ELSE reader[r]]
    BY DEF Outage
  <2> QED
    BY <2>1, <2>2, <2>3
<1>5. Types'
  BY <1>2, <1>3, <1>4 DEF FilesInv, Types, Frame
<1>6. LandedByTheDoor'
  BY <1>2, <1>3 DEF FilesInv, LandedByTheDoor, Puts
<1>7. StagedByWhoPuts'
  BY <1>2, <1>3 DEF FilesInv, StagedByWhoPuts, Puts, Flushes
<1>8. RemoversOnlyRemove'
  BY <1>3 DEF FilesInv, RemoversOnlyRemove, Puts
<1>9. TearsOfTheUnflushed' /\ TornIsNeverWritten'
  BY <1>2 DEF FilesInv, TearsOfTheUnflushed, RecordFilesStand, TornIsNeverWritten
<1>10. MovedAsFound' /\ OnlyTornIsMoved'
  BY <1>1, <1>2, <1>4, NamesChange DEF OnlyTornIsMoved
<1>11. NothingIsHalfDone'
  BY <1>2, <1>3, <1>6, <1>7 DEF NothingIsHalfDone, LandedByTheDoor, StagedByWhoPuts, Flushes
<1>12. WhatReturnedSurvives'
  BY <1>2 DEF WhatReturnedSurvives
<1> QED
  BY <1>5, <1>6, <1>7, <1>8, <1>9, <1>10, <1>11, <1>12 DEF FilesInv, RecordFilesStand

\* Every step keeps the invariant, and so does none.
LEMMA FilesSteps ==
  ASSUME FilesAssumption, FilesInv, [FilesNext]_fileVars
  PROVE  FilesInv'
<1>1. CASE UNCHANGED fileVars
  BY <1>1 DEF fileVars, FilesInv, Types, LandedByTheDoor, StagedByWhoPuts, RemoversOnlyRemove, TearsOfTheUnflushed,
     MovedAsFound, FoundTorn, InHand, RecordFilesStand, TornIsNeverWritten, NothingIsHalfDone, WhatReturnedSurvives,
     OnlyTornIsMoved, WriterAt, Puts, Flushes
<1>2. ASSUME NEW w \in Writers,
             Stage(w) \/ Staged(w) \/ StageFails(w) \/ Insist(w) \/ Land(w) \/ Flush(w) \/ Withdraw(w) \/ Unpublish(w) \/ Die(w)
      PROVE  FilesInv'
  BY <1>2, StagingSteps, LandSteps, FlushSteps, RemoveSteps
<1>3. ASSUME NEW r \in Readers, OpenFile(r) \/ ReadFile(r) \/ MoveAway(r)
      PROVE  FilesInv'
  BY <1>3, LookingSteps, MoveSteps
<1> QED
  BY <1>1, <1>2, <1>3, OutageSteps DEF FilesNext

-----------------------------------------------------------------------------
\* durable.py:8-14, _records.py:97-110: whoever opens the file finds the old content whole
\* or the new, unless what was never flushed met an outage; a write told as failed was never
\* seen and leaves nothing staged behind; what durable_write() returned survives an
\* outage; and only what is torn is moved away, or what landed behind it.
THEOREM RecordFilesAreWhole ==
  ASSUME FilesAssumption
  PROVE  FilesSpec => []RecordFilesStand
<1>1. FilesInv => RecordFilesStand
  BY DEF FilesInv
<1>2. FilesInit => FilesInv
  BY FilesBegin
<1>3. FilesInv /\ [FilesNext]_fileVars => FilesInv'
  BY FilesSteps
<1> QED
  BY <1>1, <1>2, <1>3, PTL DEF FilesSpec
=============================================================================
